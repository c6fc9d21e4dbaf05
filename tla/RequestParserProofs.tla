------------------------- MODULE RequestParserProofs ------------------------
(***************************************************************************)
(* Proofs about RequestParser and RequestGrammar, for requests of any      *)
(* length.  First the types and headers.back(); then that the parser       *)
(* accepts what the grammar calls a request, with its parts, and turns an  *)
(* input down only when no request starts with it.                         *)
(***************************************************************************)
EXTENDS RequestGrammar, WellFoundedInduction, TLAPS

Inv == TypeOK /\ BackExists

\* The states in which headers.back() is written.
InHeader == {"header_lws", "header_name", "space_before_header_value",
             "header_value", "expecting_newline_2"}

\* What BackExists says of any parser.
HasBack(r) == r.state \in InHeader => r.headers # << >>

LEMMA GotoKeeps ==
  ASSUME NEW r \in Parser, NEW s \in States \cup Results
  PROVE  Goto(r, s) \in Parser /\ Goto(r, s).state = s /\ Goto(r, s).headers = r.headers
  BY DEF Goto, Parser

\* Where one byte is expected the next state is no header state but after the
\* space of a header's value.
LEMMA ArrowsLead ==
  \A a \in Arrows : /\ a[3] \in States \cup Results
                    /\ a[3] \in InHeader => a[1] \in InHeader
  BY DEF Arrows, States, Results, InHeader

LEMMA FollowKeeps ==
  ASSUME NEW r \in Parser, NEW b, HasBack(r)
  PROVE  Follow(r, b) \in Parser /\ HasBack(Follow(r, b))
<1>1. CASE \E a \in Arrows : a[1] = r.state /\ a[2] = b
  <2> DEFINE a == CHOOSE a \in Arrows : a[1] = r.state /\ a[2] = b
  <2>1. a \in Arrows /\ a[1] = r.state
    BY <1>1
  <2>2. Follow(r, b) = Goto(r, a[3])
    BY <1>1 DEF Follow
  <2> HIDE DEF a
  <2>3. a[3] \in States \cup Results /\ (a[3] \in InHeader => r.state \in InHeader)
    BY <2>1, ArrowsLead
  <2> QED BY <2>2, <2>3, GotoKeeps DEF HasBack
<1>2. CASE ~\E a \in Arrows : a[1] = r.state /\ a[2] = b
  <2>1. Follow(r, b) = Goto(r, "rejected")
    BY <1>2 DEF Follow, Rejected
  <2> QED BY <2>1, GotoKeeps DEF HasBack, Results, InHeader
<1> QED BY <1>1, <1>2

LEMMA RejectedKeeps ==
  ASSUME NEW r \in Parser
  PROVE  Rejected(r) \in Parser /\ HasBack(Rejected(r))
  BY GotoKeeps DEF Rejected, HasBack, Results, InHeader

\* What putting a value into a field of the parser keeps.
LEMMA PutLine ==
  ASSUME NEW r \in Parser, NEW q \in Seq(Bytes)
  PROVE  /\ [r EXCEPT !.state = "method", !.method = q] \in Parser
         /\ [r EXCEPT !.state = "method", !.method = q].state = "method"
         /\ [r EXCEPT !.uri = q] \in Parser
         /\ [r EXCEPT !.uri = q].state = r.state
<1>1. "method" \in States
  BY DEF States
<1> QED BY <1>1 DEF Parser

LEMMA PutHeaders ==
  ASSUME NEW r \in Parser, NEW q \in Seq(Header), NEW s \in States
  PROVE  /\ [r EXCEPT !.state = s, !.headers = q] \in Parser
         /\ [r EXCEPT !.state = s, !.headers = q].headers = q
         /\ [r EXCEPT !.headers = q] \in Parser
         /\ [r EXCEPT !.headers = q].headers = q
  BY DEF Parser

LEMMA OneByteMore ==
  ASSUME NEW q \in Seq(Bytes), NEW b \in Bytes
  PROVE  Append(q, b) \in Seq(Bytes)
  OBVIOUS

LEMMA FieldTypes ==
  ASSUME NEW r \in Parser
  PROVE  r.method \in Seq(Bytes) /\ r.uri \in Seq(Bytes) /\ r.headers \in Seq(Header)
  BY DEF Parser

LEMMA RequestLineKeeps ==
  ASSUME NEW r \in Parser, NEW b \in Bytes
  PROVE  RequestLine(r, b) \in Parser /\ HasBack(RequestLine(r, b))
<1> DEFINE m == [r EXCEPT !.state = "method", !.method = Append(@, b)]
           u == [r EXCEPT !.uri = Append(@, b)]
<1>1. Append(r.method, b) \in Seq(Bytes) /\ Append(r.uri, b) \in Seq(Bytes)
  BY FieldTypes, OneByteMore
<1>2. m \in Parser /\ m.state = "method" /\ u \in Parser /\ u.state = r.state
  BY <1>1, PutLine
<1>3. Goto(r, "uri") \in Parser /\ Goto(r, "uri").state = "uri"
  BY GotoKeeps DEF States
<1>4. Goto(r, "http_version_h") \in Parser /\ Goto(r, "http_version_h").state = "http_version_h"
  BY GotoKeeps DEF States
<1>5. \/ RequestLine(r, b) \in {m, Goto(r, "uri"), Goto(r, "http_version_h"), Rejected(r)}
      \/ RequestLine(r, b) = u /\ r.state = "uri"
  BY DEF RequestLine
<1> HIDE DEF m, u
<1> QED BY <1>2, <1>3, <1>4, <1>5, RejectedKeeps DEF HasBack, InHeader

\* A write to headers.back() leaves as many headers as there were.
LEMMA BackWritten ==
  ASSUME NEW hs \in Seq(Header), hs # << >>, NEW b \in Bytes
  PROVE  LET n == Len(hs) IN
           /\ [hs EXCEPT ![n].value = Append(@, b)] \in Seq(Header) \ {<< >>}
           /\ [hs EXCEPT ![n].name = Append(@, b)] \in Seq(Header) \ {<< >>}
<1> DEFINE n == Len(hs)
           v == [hs[n] EXCEPT !.value = Append(@, b)]
           m == [hs[n] EXCEPT !.name = Append(@, b)]
<1>1. n \in 1..Len(hs) /\ hs[n] \in Header
  OBVIOUS
<1>2. hs[n].name \in Seq(Bytes) /\ hs[n].value \in Seq(Bytes)
  BY <1>1 DEF Header
<1>3. Append(hs[n].name, b) \in Seq(Bytes) /\ Append(hs[n].value, b) \in Seq(Bytes)
  BY <1>2, OneByteMore
<1>4. \A q \in Seq(Bytes) : \A h \in Header :
        [h EXCEPT !.value = q] \in Header /\ [h EXCEPT !.name = q] \in Header
  BY DEF Header
<1>5. v \in Header /\ m \in Header
  BY <1>1, <1>3, <1>4
<1> HIDE DEF v, m
<1>6. \A h \in Header : [hs EXCEPT ![n] = h] \in Seq(Header) \ {<< >>}
  BY <1>1
<1>7. /\ [hs EXCEPT ![n] = v] \in Seq(Header) \ {<< >>}
      /\ [hs EXCEPT ![n] = m] \in Seq(Header) \ {<< >>}
  BY <1>5, <1>6
<1> QED BY <1>7 DEF v, m

LEMMA AddToValueKeeps ==
  ASSUME NEW r \in Parser, NEW b \in Bytes, r.headers # << >>
  PROVE  AddToValue(r, b) \in Parser /\ HasBack(AddToValue(r, b))
<1> DEFINE q == [r.headers EXCEPT ![Len(r.headers)].value = Append(@, b)]
<1>1. q \in Seq(Header) /\ q # << >>
  BY FieldTypes, BackWritten
<1>2. AddToValue(r, b) = [r EXCEPT !.state = "header_value", !.headers = q]
  BY DEF AddToValue
<1>3. "header_value" \in States
  BY DEF States
<1> HIDE DEF q
<1> DEFINE w == [r EXCEPT !.state = "header_value", !.headers = q]
<1>4. w \in Parser /\ w.headers = q
  BY <1>1, <1>3 DEF Parser
<1> HIDE DEF w
<1>5. HasBack(w)
  BY <1>1, <1>4 DEF HasBack
<1> QED BY <1>2, <1>4, <1>5 DEF w

\* A state outside a header can be entered from anywhere, one inside it when
\* there is a header.
LEMMA GotoState ==
  ASSUME NEW r \in Parser, NEW s \in States, s \in InHeader => r.headers # << >>
  PROVE  Goto(r, s) \in Parser /\ HasBack(Goto(r, s))
  BY GotoKeeps DEF HasBack

LEMMA LineStartKeeps ==
  ASSUME NEW r \in Parser, NEW b \in Bytes
  PROVE  LineStart(r, b) \in Parser /\ HasBack(LineStart(r, b))
<1> DEFINE new == [name |-> <<b>>, value |-> << >>]
           q == Append(r.headers, new)
           started == [r EXCEPT !.state = "header_name", !.headers = q]
<1>1. new \in Header
  BY DEF Header
<1>2. q \in Seq(Header) /\ q # << >>
  BY <1>1, FieldTypes
<1>3. {"header_name", "header_lws", "expecting_newline_3"} \subseteq States
      /\ "expecting_newline_3" \notin InHeader
  BY DEF States, InHeader
<1>4. \/ LineStart(r, b) \in {Goto(r, "expecting_newline_3"), Rejected(r), started}
      \/ LineStart(r, b) = Goto(r, "header_lws") /\ r.headers # << >>
  BY DEF LineStart, Folds
<1> HIDE DEF new, q
<1>5. started \in Parser /\ HasBack(started)
  BY <1>2, <1>3, PutHeaders DEF HasBack
<1> HIDE DEF started
<1> QED BY <1>3, <1>4, <1>5, GotoState, RejectedKeeps

\* Within a header, where there is one.
LEMMA HeaderKeeps ==
  ASSUME NEW r \in Parser, NEW b \in Bytes, r.headers # << >>, r.state \in States
  PROVE  /\ Lws(r, b) \in Parser /\ HasBack(Lws(r, b))
         /\ Name(r, b) \in Parser /\ HasBack(Name(r, b))
         /\ Value(r, b) \in Parser /\ HasBack(Value(r, b))
<1> DEFINE q == [r.headers EXCEPT ![Len(r.headers)].name = Append(@, b)]
           named == [r EXCEPT !.headers = q]
<1>1. q \in Seq(Header) /\ q # << >>
  BY FieldTypes, BackWritten
<1>2. {"expecting_newline_2", "space_before_header_value"} \subseteq States
  BY DEF States
<1>3. /\ Lws(r, b) \in {Goto(r, "expecting_newline_2"), r, AddToValue(r, b), Rejected(r)}
      /\ Name(r, b) \in {Goto(r, "space_before_header_value"), named, Rejected(r)}
      /\ Value(r, b) \in {Goto(r, "expecting_newline_2"), AddToValue(r, b), Rejected(r)}
  BY DEF Lws, Name, Value
<1> HIDE DEF q
<1>4. named \in Parser /\ HasBack(named)
  BY <1>1, PutHeaders DEF HasBack, Parser
<1>5. HasBack(r)
  BY DEF HasBack
<1> HIDE DEF named
<1> QED BY <1>2, <1>3, <1>4, <1>5, GotoState, RejectedKeeps, AddToValueKeeps

LEMMA ConsumeKeeps ==
  ASSUME NEW r \in Parser, NEW b \in Bytes, HasBack(r)
  PROVE  Consume(r, b) \in Parser /\ HasBack(Consume(r, b))
<1>1. CASE r.state \in {"header_lws", "header_name", "header_value"}
  <2>1. r.headers # << >> /\ r.state \in States
    BY <1>1 DEF HasBack, InHeader, States
  <2>2. Consume(r, b) \in {Lws(r, b), Name(r, b), Value(r, b)}
    BY <1>1 DEF Consume
  <2> QED BY <2>1, <2>2, HeaderKeeps
<1>2. CASE r.state \notin {"header_lws", "header_name", "header_value"}
  <2>1. Consume(r, b) \in {RequestLine(r, b), LineStart(r, b), Follow(r, b)}
    BY <1>2 DEF Consume
  <2> QED BY <2>1, RequestLineKeeps, LineStartKeeps, FollowKeeps
<1> QED BY <1>1, <1>2

LEMMA SpecInv == Spec => []Inv
<1>1. Init => Inv
  BY DEF Init, Inv, TypeOK, BackExists, NewParser, Parser, States
<1>2. Inv /\ [Next]_vars => Inv'
  <2> SUFFICES ASSUME Inv, [Next]_vars PROVE Inv'
    OBVIOUS
  <2>1. CASE UNCHANGED vars
    BY <2>1 DEF vars, Inv, TypeOK, BackExists
  <2>2. CASE Next
    <3>1. PICK b \in Sent : Receive(b)
      BY <2>2 DEF Next
    <3>2. b \in Bytes /\ parser \in Parser /\ input \in Seq(Bytes) /\ HasBack(parser)
      BY ParserAssumption DEF Inv, TypeOK, BackExists, HasBack, InHeader
    <3>3. parser' \in Parser /\ HasBack(parser')
      BY <3>1, <3>2, ConsumeKeeps DEF Receive
    <3>4. input' \in Seq(Bytes)
      BY <3>1, <3>2, OneByteMore DEF Receive
    <3> QED BY <3>3, <3>4 DEF Inv, TypeOK, BackExists, HasBack, InHeader
  <2> QED BY <2>1, <2>2
<1> QED BY <1>1, <1>2, PTL DEF Spec

-----------------------------------------------------------------------------

\* The parser stays within its states, and its request within its type.
THEOREM ParserTypeCorrect == Spec => []TypeOK
<1>1. Inv => TypeOK
  BY DEF Inv
<1> QED BY <1>1, SpecInv, PTL

\* However long the request and however its lines are folded, consume never
\* writes to headers.back() of an empty vector.
THEOREM BackAlwaysExists == Spec => []BackExists
<1>1. Inv => BackExists
  BY DEF Inv
<1> QED BY <1>1, SpecInv, PTL

-----------------------------------------------------------------------------
(* Sequences. *)

LEMMA Joined ==
  ASSUME NEW v \in Seq(Bytes), NEW w \in Seq(Bytes)
  PROVE  /\ v \o w \in Seq(Bytes) /\ Len(v \o w) = Len(v) + Len(w)
         /\ \A i \in 1..(Len(v) + Len(w)) :
              (v \o w)[i] = IF i <= Len(v) THEN v[i] ELSE w[i - Len(v)]
  OBVIOUS

LEMMA PartIs ==
  ASSUME NEW v \in Seq(Bytes), NEW m \in 1..(Len(v) + 1), NEW n \in (m - 1)..Len(v)
  PROVE  /\ SubSeq(v, m, n) \in Seq(Bytes) /\ Len(SubSeq(v, m, n)) = n - m + 1
         /\ \A i \in 1..(n - m + 1) : SubSeq(v, m, n)[i] = v[m + i - 1]
  OBVIOUS

LEMMA SameBytes ==
  ASSUME NEW v \in Seq(Bytes), NEW w \in Seq(Bytes), Len(v) = Len(w),
         \A i \in 1..Len(v) : v[i] = w[i]
  PROVE  v = w
  OBVIOUS

-----------------------------------------------------------------------------
(* Positions. *)

\* A set of numbers has a least one.
LEMMA LeastIs ==
  ASSUME NEW S \in SUBSET Nat, S # {}
  PROVE  Min(S) \in S /\ \A k \in S : Min(S) <= k
<1> DEFINE R == OpToRel(<, Nat)
<1>1. IsWellFoundedOn(R, Nat)
  BY NatLessThanWellFounded
<1>2. \A x, y \in Nat : <<x, y>> \in R <=> x < y
  BY DEF OpToRel
<1> HIDE DEF R
<1>3. PICK x \in S : \A y \in S : ~(<<y, x>> \in R)
  BY <1>1, WFMin
<1>4. ASSUME NEW y \in S
      PROVE  x =< y
  <2>1. x \in Nat /\ y \in Nat
    OBVIOUS
  <2>2. ~(<<y, x>> \in R)
    BY <1>3
  <2>3. ~(y < x)
    BY <1>2, <2>1, <2>2
  <2> QED BY <2>1, <2>3
<1>5. \E k \in S : \A y \in S : k =< y
  BY <1>4
<1> QED BY <1>5, Zenon DEF Min

LEMMA GreatestIs ==
  ASSUME NEW n \in Nat, NEW S \in SUBSET (0..n), S # {}
  PROVE  Max(S) \in S /\ \A k \in S : k <= Max(S)
<1> DEFINE T == {j \in 0..n : n - j \in S}
<1>1. T \in SUBSET Nat /\ T # {}
  <2>1. PICK k \in S : k \in 0..n
    OBVIOUS
  <2>2. n - k \in 0..n /\ n - (n - k) = k
    BY <2>1
  <2>3. n - k \in T
    BY <2>1, <2>2
  <2>4. T \in SUBSET Nat
    OBVIOUS
  <2> HIDE DEF T
  <2> QED BY <2>3, <2>4
<1> DEFINE t == Min(T)
           m == n - t
<1>2. t \in T /\ \A j \in T : t <= j
  <2> HIDE DEF T
  <2> QED BY <1>1, LeastIs
<1> HIDE DEF t
<1>3. m \in S /\ m \in Int /\ t \in Int
  BY <1>2
<1>4. ASSUME NEW k \in S
      PROVE  m >= k
  <2>1. k \in 0..n /\ n - k \in 0..n /\ n - (n - k) = k
    OBVIOUS
  <2>2. t <= n - k
    BY <1>2, <2>1 DEF T
  <2> QED BY <1>3, <2>1, <2>2
<1>5. \E x \in S : \A y \in S : x >= y
  BY <1>3, <1>4
<1>6. Max(S) \in S /\ \A y \in S : Max(S) >= y
  BY <1>5 DEF Max
<1> QED BY <1>6

LEMMA FirstIs ==
  ASSUME NEW s \in Seq(Bytes), NEW B, NEW n \in Nat
  PROVE  LET f == First(s, B, n)
         IN \/ f = 0 /\ \A i \in (n + 1)..Len(s) : s[i] \notin B
            \/ /\ f \in (n + 1)..Len(s) /\ s[f] \in B
               /\ \A i \in (n + 1)..(f - 1) : s[i] \notin B
<1> DEFINE S == {i \in (n + 1)..Len(s) : s[i] \in B}
<1>1. First(s, B, n) = IF S = {} THEN 0 ELSE Min(S)
  BY DEF First
<1>2. S \in SUBSET Nat
  OBVIOUS
<1>3. CASE S = {}
  <2>1. First(s, B, n) = 0
    BY <1>1, <1>3
  <2> QED BY <1>3, <2>1
<1>4. CASE S # {}
  <2>1. Min(S) \in S /\ \A k \in S : Min(S) <= k
    <3> HIDE DEF S
    <3> QED BY <1>2, <1>4, LeastIs
  <2> DEFINE f == Min(S)
  <2>2. f \in S /\ \A k \in S : f <= k
    BY <2>1
  <2>3. First(s, B, n) = f
    BY <1>1, <1>4
  <2> HIDE DEF f
  <2>4. \A i \in (n + 1)..(f - 1) : s[i] \notin B
    BY <2>2
  <2> QED BY <2>2, <2>3, <2>4
<1> QED BY <1>3, <1>4

LEMMA FirstAt ==
  ASSUME NEW s \in Seq(Bytes), NEW B, NEW n \in Nat, NEW f \in (n + 1)..Len(s), s[f] \in B,
         \A i \in (n + 1)..(f - 1) : s[i] \notin B
  PROVE  First(s, B, n) = f
<1> DEFINE g == First(s, B, n)
<1>1. \/ g = 0 /\ \A i \in (n + 1)..Len(s) : s[i] \notin B
      \/ /\ g \in (n + 1)..Len(s) /\ s[g] \in B
         /\ \A i \in (n + 1)..(g - 1) : s[i] \notin B
  BY FirstIs
<1> HIDE DEF g
<1>2. g \in (n + 1)..Len(s) /\ ~(g < f) /\ ~(f < g)
  BY <1>1
<1> QED BY <1>2 DEF g

LEMMA FirstNone ==
  ASSUME NEW s \in Seq(Bytes), NEW B, NEW n \in Nat, \A i \in (n + 1)..Len(s) : s[i] \notin B
  PROVE  First(s, B, n) = 0
  BY FirstIs

\* What begins a sequence, and what stays of it when the sequence goes on.
Opens(l, L) == Len(l) <= Len(L) /\ \A i \in 1..Len(l) : L[i] = l[i]

LEMMA FirstStays ==
  ASSUME NEW l \in Seq(Bytes), NEW L \in Seq(Bytes), Opens(l, L), NEW B, NEW n \in Nat
  PROVE  /\ First(l, B, n) # 0 => First(L, B, n) = First(l, B, n)
         /\ First(l, B, n) = 0 => First(L, B, n) = 0 \/ First(L, B, n) > Len(l)
<1>1. CASE First(l, B, n) # 0
  <2> DEFINE f == First(l, B, n)
  <2>1. f \in (n + 1)..Len(l) /\ l[f] \in B /\ \A i \in (n + 1)..(f - 1) : l[i] \notin B
    BY <1>1, FirstIs
  <2> HIDE DEF f
  <2>2. f \in (n + 1)..Len(L) /\ L[f] \in B /\ \A i \in (n + 1)..(f - 1) : L[i] \notin B
    BY <2>1 DEF Opens
  <2> QED BY <1>1, <2>2, FirstAt DEF f
<1>2. CASE First(l, B, n) = 0
  <2>1. \A i \in (n + 1)..Len(l) : l[i] \notin B
    BY <1>2, FirstIs
  <2> DEFINE f == First(L, B, n)
  <2>2. f = 0 \/ (f \in (n + 1)..Len(L) /\ L[f] \in B)
    BY FirstIs
  <2> HIDE DEF f
  <2>3. f = 0 \/ f > Len(l)
    BY <2>1, <2>2 DEF Opens
  <2> QED BY <1>2, <2>3 DEF f
<1> QED BY <1>1, <1>2

\* Positions of a sequence with one byte more.
LEMMA OneMore ==
  ASSUME NEW l \in Seq(Bytes), NEW b \in Bytes, NEW L \in Seq(Bytes), L = Append(l, b)
  PROVE  /\ L \in Seq(Bytes) /\ Len(L) = Len(l) + 1 /\ Opens(l, L) /\ L[Len(L)] = b /\ L # << >>
         /\ \A i \in 1..Len(l) : L[i] = l[i]
         /\ Front(L) = l /\ Last(L) = b
<1>1. L \in Seq(Bytes) /\ Len(L) = Len(l) + 1 /\ L[Len(L)] = b /\ L # << >>
      /\ \A i \in 1..Len(l) : L[i] = l[i]
  OBVIOUS
<1>2. SubSeq(L, 1, Len(L) - 1) = l
  <2> DEFINE q == SubSeq(L, 1, Len(L) - 1)
  <2>1. q \in Seq(Bytes) /\ Len(q) = Len(l) /\ \A i \in 1..Len(l) : q[i] = l[i]
    BY <1>1
  <2> HIDE DEF q
  <2> QED BY <2>1 DEF q
<1> QED BY <1>1, <1>2 DEF Opens, Front, Last

\* The same, as a predicate.
Grows(l, b, L) == /\ Len(L) = Len(l) + 1 /\ Opens(l, L) /\ L[Len(L)] = b
                  /\ \A i \in 1..Len(l) : L[i] = l[i]

LEMMA Grown ==
  \A l \in Seq(Bytes), b \in Bytes : Append(l, b) \in Seq(Bytes) /\ Grows(l, b, Append(l, b))
<1> TAKE l \in Seq(Bytes), b \in Bytes
<1> DEFINE L == Append(l, b)
<1>1. L \in Seq(Bytes) /\ L = Append(l, b)
  OBVIOUS
<1> HIDE DEF L
<1>2. Grows(l, b, L)
  BY <1>1, OneMore DEF Grows
<1> QED BY <1>1, <1>2

LEMMA FirstMore ==
  ASSUME NEW l \in Seq(Bytes), NEW b \in Bytes, NEW L \in Seq(Bytes), Grows(l, b, L),
         NEW B, NEW n \in 0..Len(l)
  PROVE  First(L, B, n) = IF First(l, B, n) # 0 THEN First(l, B, n)
                          ELSE IF b \in B THEN Len(L) ELSE 0
<1>1. L \in Seq(Bytes) /\ Len(L) = Len(l) + 1 /\ Opens(l, L) /\ L[Len(L)] = b
      /\ \A i \in 1..Len(l) : L[i] = l[i]
  BY DEF Grows
<1> n \in Nat
  OBVIOUS
<1>2. CASE First(l, B, n) # 0
  <2>1. First(L, B, n) = First(l, B, n)
    BY <1>1, <1>2, FirstStays
  <2> QED BY <1>2, <2>1
<1>3. CASE First(l, B, n) = 0
  <2>1. \A i \in (n + 1)..Len(l) : l[i] \notin B
    BY <1>3, FirstIs
  <2>2. \A i \in (n + 1)..Len(l) : L[i] \notin B
    BY <1>1, <2>1
  <2>3. CASE b \in B
    <3>1. /\ Len(L) \in (n + 1)..Len(L) /\ L[Len(L)] \in B
          /\ \A i \in (n + 1)..(Len(L) - 1) : L[i] \notin B
      BY <1>1, <2>2, <2>3
    <3>2. First(L, B, n) = Len(L)
      BY <1>1, <3>1, FirstAt
    <3>3. Len(L) # 0
      BY <1>1
    <3> QED BY <1>3, <2>3, <3>2, <3>3
  <2>4. CASE b \notin B
    <3>1. \A i \in (n + 1)..Len(L) : L[i] \notin B
      BY <1>1, <2>2, <2>4
    <3>2. First(L, B, n) = 0
      BY <1>1, <3>1, FirstNone
    <3> QED BY <1>3, <2>4, <3>2
  <2> QED BY <2>3, <2>4
<1> QED BY <1>2, <1>3

\* Parts of a sequence with one byte more.
LEMMA PartStays ==
  ASSUME NEW l \in Seq(Bytes), NEW L \in Seq(Bytes), Opens(l, L), NEW m \in 1..(Len(l) + 1),
         NEW n \in (m - 1)..Len(l)
  PROVE  SubSeq(L, m, n) = SubSeq(l, m, n)
<1> DEFINE p == SubSeq(L, m, n)
           q == SubSeq(l, m, n)
<1>1. /\ p \in Seq(Bytes) /\ q \in Seq(Bytes) /\ Len(p) = n - m + 1 /\ Len(q) = n - m + 1
      /\ \A i \in 1..(n - m + 1) : p[i] = L[m + i - 1] /\ q[i] = l[m + i - 1]
  <2>1. n \in (m - 1)..Len(L) /\ m \in 1..(Len(L) + 1)
    BY DEF Opens
  <2> QED BY <2>1, PartIs
<1>2. \A i \in 1..(n - m + 1) : p[i] = q[i]
  BY <1>1 DEF Opens
<1> HIDE DEF p, q
<1>3. p = q
  BY <1>1, <1>2, SameBytes
<1> QED BY <1>3 DEF p, q

LEMMA PartGrows ==
  ASSUME NEW l \in Seq(Bytes), NEW b \in Bytes, NEW m \in 1..(Len(l) + 1)
  PROVE  SubSeq(Append(l, b), m, Len(l) + 1) = Append(SubSeq(l, m, Len(l)), b)
<1> DEFINE p == SubSeq(Append(l, b), m, Len(l) + 1)
           q == SubSeq(l, m, Len(l))
           w == Append(q, b)
<1>1. /\ p \in Seq(Bytes) /\ Len(p) = Len(l) + 1 - m + 1
      /\ \A i \in 1..(Len(l) + 1 - m + 1) : p[i] = Append(l, b)[m + i - 1]
  BY OneMore
<1>2. /\ q \in Seq(Bytes) /\ Len(q) = Len(l) - m + 1
      /\ \A i \in 1..(Len(l) - m + 1) : q[i] = l[m + i - 1]
  OBVIOUS
<1>3. w \in Seq(Bytes) /\ Len(w) = Len(q) + 1 /\ w[Len(w)] = b /\ \A i \in 1..Len(q) : w[i] = q[i]
  BY <1>2, OneMore
<1>4. \A i \in 1..Len(p) : p[i] = w[i]
  <2> TAKE i \in 1..Len(p)
  <2>1. CASE i <= Len(q)
    <3>1. i \in 1..Len(q) /\ m + i - 1 \in 1..Len(l)
      BY <1>2, <2>1
    <3>2. Append(l, b)[m + i - 1] = l[m + i - 1]
      BY <3>1
    <3> QED BY <1>1, <1>2, <1>3, <3>1, <3>2
  <2>2. CASE ~(i <= Len(q))
    <3>1. i = Len(q) + 1 /\ m + i - 1 = Len(l) + 1
      BY <1>1, <1>2, <2>2
    <3> QED BY <1>1, <1>3, <3>1
  <2> QED BY <2>1, <2>2
<1> HIDE DEF p, w
<1> QED BY <1>1, <1>2, <1>3, <1>4 DEF p, w

-----------------------------------------------------------------------------
(* Lines. *)

LEMMA StartIs ==
  ASSUME NEW s \in Seq(Bytes), NEW n \in 1..(Len(s) + 1)
  PROVE  /\ Start(s, n) \in 1..n
         /\ Start(s, n) > 1 => s[Start(s, n) - 1] = "LF"
         /\ \A i \in Start(s, n)..(n - 1) : s[i] # "LF"
<1> DEFINE S == {0} \cup {i \in 1..(n - 1) : s[i] = "LF"}
           m == Max(S)
<1>1. n \in Nat /\ S \in SUBSET (0..n) /\ S # {}
  OBVIOUS
<1>2. m \in S /\ \A k \in S : k <= m
  <2> HIDE DEF S
  <2> QED BY <1>1, GreatestIs
<1>3. Start(s, n) = 1 + m
  BY DEF Start
<1> HIDE DEF m
<1>4. m \in 0..(n - 1) /\ (m > 0 => s[m] = "LF")
  BY <1>2
<1>5. \A i \in (m + 1)..(n - 1) : s[i] # "LF"
  BY <1>2, <1>4
<1> QED BY <1>3, <1>4, <1>5

LEMMA StartAt ==
  ASSUME NEW s \in Seq(Bytes), NEW n \in 1..(Len(s) + 1), NEW m \in 1..n,
         m > 1 => s[m - 1] = "LF", \A i \in m..(n - 1) : s[i] # "LF"
  PROVE  Start(s, n) = m
<1> DEFINE g == Start(s, n)
<1>1. g \in 1..n /\ (g > 1 => s[g - 1] = "LF") /\ \A i \in g..(n - 1) : s[i] # "LF"
  BY StartIs
<1> HIDE DEF g
<1>2. ~(g < m)
  <2> SUFFICES ASSUME g < m PROVE FALSE
    OBVIOUS
  <2>1. m - 1 \in g..(n - 1) /\ m > 1
    BY <1>1
  <2> QED BY <1>1, <2>1
<1>3. ~(m < g)
  <2> SUFFICES ASSUME m < g PROVE FALSE
    OBVIOUS
  <2>1. g - 1 \in m..(n - 1) /\ g > 1
    BY <1>1
  <2> QED BY <1>1, <2>1
<1> QED BY <1>1, <1>2, <1>3 DEF g

\* What has been read of the last line.
Begun(s) == Start(s, Len(s) + 1)
Rest(s)  == SubSeq(s, Begun(s), Len(s))

LEMMA RestIs ==
  ASSUME NEW s \in Seq(Bytes)
  PROVE  /\ Begun(s) \in 1..(Len(s) + 1) /\ Rest(s) \in Seq(Bytes)
         /\ Len(Rest(s)) = Len(s) - Begun(s) + 1
         /\ \A i \in 1..Len(Rest(s)) : Rest(s)[i] = s[Begun(s) + i - 1] /\ Rest(s)[i] # "LF"
<1>1. Len(s) + 1 \in 1..(Len(s) + 1)
  OBVIOUS
<1>2. Begun(s) \in 1..(Len(s) + 1) /\ \A i \in Begun(s)..Len(s) : s[i] # "LF"
  BY <1>1, StartIs DEF Begun
<1> DEFINE m == Begun(s)
           q == SubSeq(s, m, Len(s))
<1>3. m \in 1..(Len(s) + 1) /\ \A i \in m..Len(s) : s[i] # "LF"
  BY <1>2
<1> HIDE DEF m
<1>4. q \in Seq(Bytes) /\ Len(q) = Len(s) - m + 1 /\ \A i \in 1..Len(q) : q[i] = s[m + i - 1]
  BY <1>3
<1> HIDE DEF q
<1>5. \A i \in 1..Len(q) : q[i] # "LF"
  BY <1>3, <1>4
<1> QED BY <1>3, <1>4, <1>5 DEF Rest, q, m

\* Lines stay what they are when bytes come after them.
LEMMA LineStays ==
  ASSUME NEW s \in Seq(Bytes), NEW t \in Seq(Bytes), Opens(s, t), NEW n \in 1..(Len(s) + 1)
  PROVE  /\ Start(t, n) = Start(s, n)
         /\ n \in DOMAIN s /\ n > Start(s, n) => Line(t, n) = Line(s, n)
<1> DEFINE m == Start(s, n)
<1>1. m \in 1..n /\ (m > 1 => s[m - 1] = "LF") /\ \A i \in m..(n - 1) : s[i] # "LF"
  BY StartIs
<1>2. Start(t, n) = m
  <2> HIDE DEF m
  <2>1. n \in 1..(Len(t) + 1) /\ (m > 1 => t[m - 1] = "LF") /\ \A i \in m..(n - 1) : t[i] # "LF"
    BY <1>1 DEF Opens
  <2> QED BY <1>1, <2>1, StartAt
<1>3. ASSUME n \in DOMAIN s, n > m
      PROVE  SubSeq(t, m, n - 2) = SubSeq(s, m, n - 2)
  <2> HIDE DEF m
  <2>1. m \in 1..(Len(s) + 1) /\ n - 2 \in (m - 1)..Len(s)
    BY <1>1, <1>3
  <2> QED BY <2>1, PartStays
<1> QED BY <1>2, <1>3 DEF Line

LEMMA FitsStays ==
  ASSUME NEW s \in Seq(Bytes), NEW t \in Seq(Bytes), Opens(s, t), NEW n \in DOMAIN s
  PROVE  LineFits(t, n) <=> LineFits(s, n)
<1> DEFINE m == Start(s, n)
<1>1. n \in 1..(Len(s) + 1) /\ m \in 1..n /\ t[n] = s[n]
  BY StartIs DEF Opens
<1>2. Start(t, n) = m /\ (n > m => Line(t, n) = Line(s, n))
  BY <1>1, LineStays
<1>3. m > 1 => Start(t, m - 1) = Start(s, m - 1)
  <2> HIDE DEF m
  <2>1. m > 1 => m - 1 \in 1..(Len(s) + 1)
    BY <1>1
  <2> QED BY <2>1, LineStays
<1>4. n > m => t[n - 1] = s[n - 1]
  <2> HIDE DEF m
  <2> QED BY <1>1 DEF Opens
<1> QED BY <1>2, <1>3, <1>4 DEF LineFits

-----------------------------------------------------------------------------
(* The headers of the lines. *)

\* What a byte of s makes of the headers before it, and the headers up to k.
HeadersAt(f, s, n) ==
  IF n = 0 THEN << >>
  ELSE IF s[n] = "LF" /\ Start(s, n) > 1 THEN WithLine(f[n - 1], Line(s, n))
  ELSE f[n - 1]

Collects(f, s) == f = [n \in 0..Len(s) |-> HeadersAt(f, s, n)]

LEMMA HeadersDef == \A s : HeadersOf(s) = (CHOOSE f : Collects(f, s))[Len(s)]
  BY DEF HeadersOf, Collects, HeadersAt

LEMMA CollectsExist ==
  ASSUME NEW s \in Seq(Bytes)
  PROVE  \E f : Collects(f, s)
<1> DEFINE N == Len(s)
           Upto(f, m) == f = [n \in 0..N |-> IF n <= m THEN HeadersAt(f, s, n) ELSE << >>]
           Bad == {m \in 0..N : ~\E f : Upto(f, m)}
<1>0. N \in Nat
  OBVIOUS
<1> HIDE DEF N, Upto
<1>1. ASSUME Bad # {}
      PROVE  FALSE
  <2> DEFINE m == Min(Bad)
  <2>1. m \in Bad /\ \A k \in Bad : m <= k
    <3>1. Bad \in SUBSET Nat
      BY <1>0
    <3> HIDE DEF Bad
    <3> QED BY <1>1, <3>1, LeastIs
  <2> HIDE DEF m
  <2>2. m # 0
    <3>1. ASSUME NEW n \in 0..N
          PROVE  [k \in 0..N |-> << >>][n]
                   = IF n <= 0 THEN HeadersAt([k \in 0..N |-> << >>], s, n) ELSE << >>
      BY <1>0 DEF HeadersAt
    <3>2. Upto([k \in 0..N |-> << >>], 0)
      BY <3>1 DEF Upto
    <3>3. 0 \notin Bad
      BY <3>2
    <3> QED BY <2>1, <3>3
  <2>3. m \in 1..N /\ m - 1 \in 0..N /\ m - 1 \notin Bad
    BY <1>0, <2>1, <2>2
  <2>4. PICK f : Upto(f, m - 1)
    BY <2>3
  <2> DEFINE g == [f EXCEPT ![m] = HeadersAt(f, s, m)]
  <2>5. DOMAIN f = 0..N /\ DOMAIN g = 0..N
    BY <2>4 DEF Upto
  <2>6. \A n \in 0..N : g[n] = IF n = m THEN HeadersAt(f, s, m) ELSE f[n]
    BY <2>5
  <2>7. \A n \in 0..N : f[n] = IF n <= m - 1 THEN HeadersAt(f, s, n) ELSE << >>
    BY <2>4 DEF Upto
  <2>8. g = [n \in 0..N |-> g[n]]
    BY <2>5
  <2> HIDE DEF g
  <2>9. ASSUME NEW n \in 0..N, n <= m
        PROVE  HeadersAt(f, s, n) = HeadersAt(g, s, n)
    <3>1. n # 0 => n - 1 \in 0..N /\ n - 1 # m
      BY <1>0, <2>3, <2>9
    <3>2. n # 0 => g[n - 1] = f[n - 1]
      BY <2>6, <3>1
    <3> QED BY <3>2 DEF HeadersAt
  <2>10. ASSUME NEW n \in 0..N
         PROVE  g[n] = IF n <= m THEN HeadersAt(g, s, n) ELSE << >>
    <3>1. CASE n = m
      BY <2>3, <2>6, <2>9, <3>1
    <3>2. CASE n < m
      BY <2>3, <2>6, <2>7, <2>9, <3>2
    <3>3. CASE n > m
      BY <2>3, <2>6, <2>7, <3>3
    <3> QED BY <2>3, <3>1, <3>2, <3>3
  <2>11. Upto(g, m)
    BY <2>8, <2>10 DEF Upto
  <2> QED BY <2>1, <2>11
<1>2. PICK f : Upto(f, N)
  <2>1. N \in 0..N
    BY <1>0
  <2>2. Bad = {}
    BY <1>1
  <2> QED BY <2>1, <2>2
<1>3. \A n \in 0..N : f[n] = HeadersAt(f, s, n)
  BY <1>0, <1>2 DEF Upto
<1>4. f = [n \in 0..N |-> HeadersAt(f, s, n)]
  BY <1>2, <1>3 DEF Upto
<1> QED BY <1>4 DEF Collects, N

\* With one byte more, the headers are those before it, or one line more.
LEMMA HeadersStep ==
  ASSUME NEW s \in Seq(Bytes), NEW b \in Bytes, NEW t \in Seq(Bytes), t = Append(s, b)
  PROVE  HeadersOf(t) = IF b = "LF" /\ Start(t, Len(t)) > 1
                          THEN WithLine(HeadersOf(s), Line(t, Len(t))) ELSE HeadersOf(s)
<1>1. Len(t) = Len(s) + 1 /\ Opens(s, t) /\ t[Len(t)] = b /\ \A i \in 1..Len(s) : t[i] = s[i]
  BY OneMore
<1>2. PICK f : Collects(f, s) /\ HeadersOf(s) = f[Len(s)]
  <2> DEFINE f == CHOOSE f : Collects(f, s)
  <2>1. Collects(f, s)
    BY CollectsExist
  <2>2. HeadersOf(s) = f[Len(s)]
    BY HeadersDef
  <2> HIDE DEF f
  <2> QED BY <2>1, <2>2
<1>3. PICK g : Collects(g, t) /\ HeadersOf(t) = g[Len(t)]
  <2> DEFINE g == CHOOSE g : Collects(g, t)
  <2>1. Collects(g, t)
    BY CollectsExist
  <2>2. HeadersOf(t) = g[Len(t)]
    BY HeadersDef
  <2> HIDE DEF g
  <2> QED BY <2>1, <2>2
<1>4. \A n \in 0..Len(s) : f[n] = HeadersAt(f, s, n)
  BY <1>2 DEF Collects
<1>5. \A n \in 0..Len(t) : g[n] = HeadersAt(g, t, n)
  BY <1>3 DEF Collects
<1> DEFINE Bad == {n \in 0..Len(s) : f[n] # g[n]}
<1>6. ASSUME Bad # {}
      PROVE  FALSE
  <2> DEFINE m == Min(Bad)
  <2>1. m \in Bad /\ \A k \in Bad : m <= k
    <3>1. Bad \in SUBSET Nat
      OBVIOUS
    <3> HIDE DEF Bad
    <3> QED BY <1>6, <3>1, LeastIs
  <2> HIDE DEF m
  <2>2. m \in 0..Len(s) /\ m \in 0..Len(t) /\ f[m] # g[m]
    BY <1>1, <2>1
  <2>3. CASE m = 0
    BY <1>4, <1>5, <2>2, <2>3 DEF HeadersAt
  <2>4. CASE m # 0
    <3>1. m - 1 \in 0..Len(s) /\ m - 1 \notin Bad
      BY <2>1, <2>2, <2>4
    <3>2. f[m - 1] = g[m - 1]
      BY <3>1
    <3>3. m \in 1..(Len(s) + 1) /\ m \in DOMAIN s /\ m \in Nat /\ s[m] = t[m]
      BY <1>1, <2>2, <2>4
    <3>4. Start(t, m) = Start(s, m)
      BY <1>1, <3>3, LineStays
    <3>5. Start(s, m) \in 1..m
      BY <3>3, StartIs
    <3>6. Line(t, m) = Line(s, m)
      <4>1. CASE m > Start(s, m)
        BY <1>1, <3>3, <4>1, LineStays
      <4>2. CASE m = Start(s, m)
        <5> DEFINE p == SubSeq(s, m, m - 2)
                   q == SubSeq(t, m, m - 2)
        <5>1. m \in Int /\ m - 2 < m
          BY <3>3
        <5>2. p = << >> /\ q = << >>
          BY <5>1
        <5> QED BY <3>4, <4>2, <5>2 DEF Line
      <4> QED BY <3>3, <3>5, <4>1, <4>2
    <3>7. HeadersAt(f, s, m) = HeadersAt(g, t, m)
      BY <2>4, <3>2, <3>3, <3>4, <3>6 DEF HeadersAt
    <3> QED BY <1>4, <1>5, <2>2, <3>7
  <2> QED BY <2>3, <2>4
<1>7. f[Len(s)] = g[Len(s)]
  <2>1. Len(s) \in 0..Len(s)
    OBVIOUS
  <2>2. Bad = {}
    BY <1>6
  <2> QED BY <2>1, <2>2
<1>8. g[Len(t)] = HeadersAt(g, t, Len(t)) /\ Len(t) # 0 /\ Len(t) - 1 = Len(s)
  BY <1>1, <1>5
<1> QED BY <1>1, <1>2, <1>3, <1>7, <1>8 DEF HeadersAt

LEMMA NoHeaders == HeadersOf(<< >>) = << >>
<1>1. << >> \in Seq(Bytes)
  OBVIOUS
<1>2. \A n \in 0..Len(<< >>) : n = 0
  OBVIOUS
<1> DEFINE f == CHOOSE f : Collects(f, << >>)
<1>3. Collects(f, << >>) /\ HeadersOf(<< >>) = f[Len(<< >>)]
  BY <1>1, CollectsExist, HeadersDef
<1> HIDE DEF f
<1>4. f[0] = << >>
  BY <1>3 DEF Collects, HeadersAt
<1> QED BY <1>3, <1>4

-----------------------------------------------------------------------------
(* A byte more. *)

Fit(s) == \A m \in Ends(s) : LineFits(s, m)

\* At least two lines have ended.
Second(s) == Begun(s) > 1 /\ Start(s, Begun(s) - 1) > 1

LEMMA FirstLineStays ==
  ASSUME NEW s \in Seq(Bytes), NEW t \in Seq(Bytes), Opens(s, t), Begun(s) > 1, Fit(s)
  PROVE  FirstLine(t) = FirstLine(s) /\ First(s, {"LF"}, 0) \in 1..Len(s)
<1> DEFINE f == First(s, {"LF"}, 0)
<1>1. Begun(s) - 1 \in 1..Len(s) /\ s[Begun(s) - 1] = "LF"
  <2>1. Len(s) + 1 \in 1..(Len(s) + 1)
    OBVIOUS
  <2>2. Begun(s) \in 1..(Len(s) + 1) /\ s[Begun(s) - 1] = "LF"
    BY <2>1, StartIs DEF Begun
  <2> QED BY <2>2
<1>2. f \in 1..Len(s) /\ s[f] = "LF"
  <2>1. f = 0 => \A i \in 1..Len(s) : s[i] \notin {"LF"}
    BY FirstIs
  <2>2. f # 0
    BY <1>1, <2>1
  <2>3. f \in (0 + 1)..Len(s) /\ s[f] \in {"LF"}
    BY <2>2, FirstIs
  <2> HIDE DEF f
  <2> QED BY <2>3
<1>3. First(t, {"LF"}, 0) = f
  <2>1. f # 0
    <3> HIDE DEF f
    <3> QED BY <1>2
  <2> QED BY <2>1, FirstStays
<1> HIDE DEF f
<1>4. f \in DOMAIN s /\ f \in Ends(s) /\ f \in 1..(Len(s) + 1)
  BY <1>2 DEF Ends
<1>5. f > Start(s, f)
  BY <1>4 DEF Fit, LineFits
<1>6. Line(t, f) = Line(s, f)
  BY <1>4, <1>5, LineStays
<1> QED BY <1>2, <1>3, <1>6 DEF FirstLine, f

LEMMA BeginsStays ==
  ASSUME NEW s \in Seq(Bytes), NEW t \in Seq(Bytes), Opens(s, t)
  PROVE  /\ Start(t, Len(s) + 1) = Begun(s)
         /\ Begun(s) > 1 => Start(t, Begun(s) - 1) = Start(s, Begun(s) - 1)
<1>1. Begun(s) \in 1..(Len(s) + 1) /\ Len(s) + 1 \in 1..(Len(s) + 1)
  BY RestIs
<1>2. Start(t, Len(s) + 1) = Begun(s)
  BY <1>1, LineStays DEF Begun
<1>3. Begun(s) > 1 => Begun(s) - 1 \in 1..(Len(s) + 1)
  BY <1>1
<1>4. Begun(s) > 1 => Start(t, Begun(s) - 1) = Start(s, Begun(s) - 1)
  BY <1>3, LineStays
<1> QED BY <1>2, <1>4

LEMMA RestGrows ==
  ASSUME NEW s \in Seq(Bytes), NEW b \in Bytes, b # "LF", NEW t \in Seq(Bytes), t = Append(s, b)
  PROVE  /\ Begun(t) = Begun(s) /\ Rest(t) = Append(Rest(s), b) /\ Ends(t) = Ends(s)
         /\ Fit(t) <=> Fit(s)
         /\ Second(t) <=> Second(s)
         /\ HeadersOf(t) = HeadersOf(s)
         /\ Begun(s) > 1 /\ Fit(s) => FirstLine(t) = FirstLine(s)
<1>1. Len(t) = Len(s) + 1 /\ Opens(s, t) /\ t[Len(t)] = b /\ \A i \in 1..Len(s) : t[i] = s[i]
  BY OneMore
<1>2. /\ Start(t, Len(s) + 1) = Begun(s)
      /\ Begun(s) > 1 => Start(t, Begun(s) - 1) = Start(s, Begun(s) - 1)
  BY <1>1, BeginsStays
<1>3. Begun(s) \in 1..(Len(s) + 1) /\ (Begun(s) > 1 => s[Begun(s) - 1] = "LF")
      /\ \A i \in Begun(s)..Len(s) : s[i] # "LF"
  <2>1. Len(s) + 1 \in 1..(Len(s) + 1)
    OBVIOUS
  <2> QED BY <2>1, StartIs DEF Begun
<1>4. Begun(t) = Begun(s)
  <2> DEFINE m == Begun(s)
  <2> HIDE DEF m
  <2>1. m \in 1..(Len(s) + 1) /\ (m > 1 => s[m - 1] = "LF") /\ \A i \in m..Len(s) : s[i] # "LF"
    BY <1>3 DEF m
  <2>2. m \in 1..(Len(t) + 1) /\ Len(t) + 1 \in 1..(Len(t) + 1) /\ m \in 1..(Len(t) + 1)
    BY <1>1, <2>1
  <2>3. m > 1 => t[m - 1] = "LF"
    BY <1>1, <2>1
  <2>4. \A i \in m..((Len(t) + 1) - 1) : t[i] # "LF"
    BY <1>1, <2>1
  <2>5. Start(t, Len(t) + 1) = m
    BY <2>2, <2>3, <2>4, StartAt
  <2> QED BY <2>5 DEF Begun, m
<1>5. Rest(t) = Append(Rest(s), b)
  BY <1>1, <1>3, <1>4, PartGrows DEF Rest
<1>6. Ends(t) = Ends(s)
  BY <1>1 DEF Ends
<1>7. \A m \in Ends(s) : LineFits(t, m) <=> LineFits(s, m)
  BY <1>1, FitsStays DEF Ends
<1>8. HeadersOf(t) = HeadersOf(s)
  BY HeadersStep
<1>9. Begun(s) > 1 /\ Fit(s) => FirstLine(t) = FirstLine(s)
  BY <1>1, FirstLineStays
<1> QED BY <1>2, <1>4, <1>5, <1>6, <1>7, <1>8, <1>9 DEF Fit, Second

\* The last byte of t, its n-th, ends the line q.
LineClosed(s, q, t, n) ==
  /\ Begun(t) = n + 1 /\ Rest(t) = << >> /\ Line(t, n) = q /\ Start(t, n) = Begun(s)
  /\ n > Begun(s) /\ t[n] = "LF" /\ t[n - 1] = "CR" /\ Ends(t) = Ends(s) \cup {n}
  /\ LineFits(t, n) <=> \/ Begun(s) = 1 /\ IsRequestLine(q)
                        \/ Begun(s) > 1 /\ IsHeader(q)
                        \/ Second(s) /\ IsContinuation(q)
  /\ Fit(t) <=> Fit(s) /\ LineFits(t, n)
  /\ HeadersOf(t) = IF Begun(s) > 1 THEN WithLine(HeadersOf(s), q) ELSE HeadersOf(s)
  /\ Second(t) <=> Begun(s) > 1
  /\ Fit(s) => FirstLine(t) = IF Begun(s) = 1 THEN q ELSE FirstLine(s)

LEMMA LineEnds ==
  ASSUME NEW s \in Seq(Bytes), NEW q \in Seq(Bytes), Rest(s) = Append(q, "CR"),
         NEW t \in Seq(Bytes), t = Append(s, "LF"), NEW n \in Nat, n = Len(t)
  PROVE  LineClosed(s, q, t, n)
<1>0. "LF" \in Bytes /\ "CR" \in Bytes
  BY DEF Bytes
<1>1. n = Len(s) + 1 /\ Opens(s, t) /\ t[n] = "LF" /\ \A i \in 1..Len(s) : t[i] = s[i]
  <2>1. Len(t) = Len(s) + 1 /\ Opens(s, t) /\ t[Len(t)] = "LF" /\ \A i \in 1..Len(s) : t[i] = s[i]
    BY <1>0, Grown DEF Grows
  <2> QED BY <2>1
<1>2. Start(t, n) = Begun(s) /\ (Begun(s) > 1 => Start(t, Begun(s) - 1) = Start(s, Begun(s) - 1))
  BY <1>1, BeginsStays
<1> DEFINE m == Begun(s)
           R == Rest(s)
<1>3. m \in 1..(Len(s) + 1) /\ R \in Seq(Bytes) /\ Len(R) = Len(s) - m + 1
      /\ \A i \in 1..Len(R) : R[i] = s[m + i - 1]
  BY RestIs
<1>4. Len(R) = Len(q) + 1 /\ R[Len(R)] = "CR" /\ \A i \in 1..Len(q) : R[i] = q[i]
  <2> HIDE DEF R
  <2> QED BY <1>0, <1>3, OneMore DEF R
<1> HIDE DEF m, R
<1>5. m \in 1..Len(s) /\ n > m /\ n - 2 = m + Len(q) - 1 /\ s[Len(s)] = "CR" /\ t[n - 1] = "CR"
  <2>1. Len(s) = m + Len(q) /\ Len(q) \in Nat /\ Len(R) \in 1..Len(R) /\ m + Len(R) - 1 = Len(s)
    BY <1>3, <1>4
  <2>2. m \in 1..Len(s) /\ n > m /\ n - 2 = m + Len(q) - 1 /\ n - 1 = Len(s) /\ Len(s) \in 1..Len(s)
    BY <1>1, <1>3, <2>1
  <2>3. s[Len(s)] = "CR"
    BY <1>3, <1>4, <2>1
  <2> QED BY <1>1, <2>2, <2>3
<1>6. Line(t, n) = q
  <2> DEFINE p == SubSeq(t, m, n - 2)
  <2>1. p \in Seq(Bytes) /\ Len(p) = Len(q) /\ \A i \in 1..Len(q) : p[i] = t[m + i - 1]
    BY <1>1, <1>5
  <2>2. \A i \in 1..Len(q) : m + i - 1 \in 1..Len(s) /\ i \in 1..Len(R)
    BY <1>1, <1>4, <1>5
  <2>3. \A i \in 1..Len(q) : p[i] = q[i]
    BY <1>1, <1>3, <1>4, <2>1, <2>2
  <2> HIDE DEF p
  <2>4. p = q
    BY <2>1, <2>3
  <2> QED BY <1>2, <2>4 DEF Line, p, m
<1>7. Begun(t) = n + 1
  <2>1. n + 1 \in 1..(Len(t) + 1) /\ n + 1 \in 1..(n + 1) /\ t[(n + 1) - 1] = "LF"
        /\ \A i \in (n + 1)..((n + 1) - 1) : t[i] # "LF"
    BY <1>1
  <2>2. Start(t, n + 1) = n + 1
    BY <2>1, StartAt
  <2> QED BY <2>2 DEF Begun
<1>8. Rest(t) = << >>
  BY <1>1, <1>7 DEF Rest
<1>9. Ends(t) = Ends(s) \cup {n}
  BY <1>1 DEF Ends
<1>10. LineFits(t, n) <=> \/ m = 1 /\ IsRequestLine(q)
                          \/ m > 1 /\ IsHeader(q)
                          \/ Second(s) /\ IsContinuation(q)
  BY <1>2, <1>5, <1>6 DEF LineFits, Second, m
<1>11. Fit(t) <=> Fit(s) /\ LineFits(t, n)
  <2>1. \A k \in Ends(s) : LineFits(t, k) <=> LineFits(s, k)
    BY <1>1, FitsStays DEF Ends
  <2> QED BY <1>9, <2>1 DEF Fit
<1>12. HeadersOf(t) = IF m > 1 THEN WithLine(HeadersOf(s), q) ELSE HeadersOf(s)
  <2>1. HeadersOf(t) = IF Start(t, Len(t)) > 1 THEN WithLine(HeadersOf(s), Line(t, Len(t)))
                       ELSE HeadersOf(s)
    BY <1>0, HeadersStep
  <2> QED BY <1>2, <1>6, <2>1 DEF m
<1>13. Second(t) <=> m > 1
  <2>1. n + 1 > 1 /\ (n + 1) - 1 = n
    BY <1>1
  <2> QED BY <1>2, <1>7, <2>1 DEF Second, m
<1>14. Fit(s) => FirstLine(t) = IF m = 1 THEN q ELSE FirstLine(s)
  <2>1. CASE m > 1
    <3>1. m # 1
      BY <2>1
    <3> QED BY <1>1, <2>1, <3>1, FirstLineStays DEF m
  <2>2. CASE m = 1
    <3>1. n \in (0 + 1)..Len(t) /\ t[n] \in {"LF"} /\ \A i \in (0 + 1)..(n - 1) : t[i] \notin {"LF"}
      <4>1. \A i \in 1..Len(R) : R[i] # "LF"
        BY RestIs DEF R
      <4>2. \A i \in 1..Len(s) : R[i] = s[i] /\ i \in 1..Len(R)
        BY <1>3, <2>2
      <4> QED BY <1>1, <4>1, <4>2
    <3>2. First(t, {"LF"}, 0) = n
      BY <3>1, FirstAt
    <3> QED BY <1>6, <2>2, <3>2 DEF FirstLine
  <2> QED BY <1>3, <2>1, <2>2
<1> QED BY <1>1, <1>2, <1>5, <1>6, <1>7, <1>8, <1>9, <1>10, <1>11, <1>12, <1>13, <1>14 DEF m,
  LineClosed

-----------------------------------------------------------------------------
(* What the parser has made of the bytes. *)

Tokens(l) == \A i \in 1..Len(l) : l[i] \in TokenBytes

MethodOver(l) == Space1(l) > 1 /\ \A i \in 1..(Space1(l) - 1) : l[i] \in TokenBytes

UriOver(l) ==
  MethodOver(l) /\ Space2(l) > 0 /\ \A i \in (Space1(l) + 1)..(Space2(l) - 1) : l[i] \in TextBytes

\* The first k bytes of a version behind n.
Protocol == <<"H", "T", "T", "P", "/">>
VersionBegins(l, n, k) == n + k <= Len(l) /\ \A i \in 1..k : l[n + i] = Protocol[i]

Digits(l, m, n) == \A i \in m..n : l[i] = "digit"

ProtocolStates == <<"http_version_h", "http_version_t_1", "http_version_t_2", "http_version_p",
                    "http_version_slash", "http_version_major_start">>

VersionStates == {"http_version_h", "http_version_t_1", "http_version_t_2", "http_version_p",
                  "http_version_slash", "http_version_major_start", "http_version_major",
                  "http_version_minor_start", "http_version_minor"}

InVersion(state, l, n) ==
  /\ \A k \in 1..6 :
       state = ProtocolStates[k] => Len(l) = n + k - 1 /\ VersionBegins(l, n, k - 1)
  /\ state = "http_version_major" =>
       VersionBegins(l, n, 5) /\ Len(l) > n + 5 /\ Digits(l, n + 6, Len(l))
  /\ state = "http_version_minor_start" =>
       VersionBegins(l, n, 5) /\ Len(l) > n + 6 /\ Digits(l, n + 6, Len(l) - 1) /\ l[Len(l)] = "."
  /\ state = "http_version_minor" => IsVersion(l, n)

\* While the first line is read, of which there is l.
FirstLineStates == {"method_start", "method", "uri", "expecting_newline_1"} \cup VersionStates

InFirstLine(r, l) ==
  /\ r.headers = << >>
  /\ r.state \in {"method_start", "method"} =>
       Tokens(l) /\ r.method = l /\ r.uri = << >> /\ (r.state = "method_start" <=> l = << >>)
  /\ r.state = "uri" =>
       /\ MethodOver(l) /\ Space2(l) = 0 /\ \A i \in (Space1(l) + 1)..Len(l) : l[i] \in TextBytes
       /\ r.method = MethodIn(l) /\ r.uri = SubSeq(l, Space1(l) + 1, Len(l))
  /\ r.state \in VersionStates =>
       /\ UriOver(l) /\ InVersion(r.state, l, Space2(l))
       /\ r.method = MethodIn(l) /\ r.uri = UriIn(l)
  /\ r.state = "expecting_newline_1" =>
       /\ l # << >> /\ Last(l) = "CR" /\ IsRequestLine(Front(l))
       /\ r.method = MethodIn(Front(l)) /\ r.uri = UriIn(Front(l))

\* While a line behind it is read, with the headers hs before it.
HeaderStates == {"header_line_start", "header_lws", "header_name", "space_before_header_value",
                 "header_value", "expecting_newline_2", "expecting_newline_3"}

Named(l) == [name |-> l, value |-> << >>]

AddsTo(hs, l) == IsHeader(l) \/ (hs # << >> /\ IsContinuation(l))

InHeaderLine(r, l, hs) ==
  /\ r.state = "header_line_start" => l = << >> /\ r.headers = hs
  /\ r.state = "expecting_newline_3" => l = <<"CR">> /\ r.headers = hs
  /\ r.state = "header_name" => l # << >> /\ Tokens(l) /\ r.headers = Append(hs, Named(l))
  /\ r.state = "space_before_header_value" =>
       /\ l # << >> /\ Last(l) = ":" /\ Front(l) # << >> /\ Tokens(Front(l))
       /\ r.headers = Append(hs, Named(Front(l)))
  /\ r.state = "header_value" =>
       /\ IsHeader(l) \/ (hs # << >> /\ IsContinuation(l) /\ Text(l) # << >>)
       /\ r.headers = WithLine(hs, l)
  /\ r.state = "header_lws" =>
       hs # << >> /\ IsContinuation(l) /\ Text(l) = << >> /\ r.headers = WithLine(hs, l)
  /\ r.state = "expecting_newline_2" =>
       l # << >> /\ Last(l) = "CR" /\ AddsTo(hs, Front(l)) /\ r.headers = WithLine(hs, Front(l))

FirstLineRead(r, s) == r.method = MethodIn(FirstLine(s)) /\ r.uri = UriIn(FirstLine(s))

Reads(r, s) ==
  /\ r.state \in FirstLineStates =>
       Fit(s) /\ Begun(s) = 1 /\ HeadersOf(s) = << >> /\ InFirstLine(r, Rest(s))
  /\ r.state \in HeaderStates =>
       /\ Fit(s) /\ Begun(s) > 1 /\ FirstLineRead(r, s)
       /\ HeadersOf(s) \in Seq(Header) /\ (HeadersOf(s) # << >> <=> Second(s))
       /\ InHeaderLine(r, Rest(s), HeadersOf(s))
  /\ r.state = "accepted" => IsRequest(s) /\ FirstLineRead(r, s) /\ r.headers = HeadersOf(s)

-----------------------------------------------------------------------------
(* The parser's tables. *)

LEMMA Kinds ==
  \A b \in Bytes : /\ IsToken(b) <=> b \in TokenBytes
                   /\ IsText(b) <=> b \in TextBytes
                   /\ b \in TokenBytes => b \in TextBytes \ {"SP", ":", "CR", "LF", "TAB"}
                   /\ b \in TextBytes => b \notin {"CR", "LF", "TAB"}
                   /\ b \in {"digit", "."} => b \in TokenBytes
  BY DEF Bytes, IsToken, IsText, IsChar, IsCtl, IsTspecial, TokenBytes, TextBytes

LEMMA ByteNames ==
  /\ {"SP", "CR", "LF", ":", "TAB", "digit", "."} \subseteq Bytes
  /\ "SP" \in TextBytes /\ Protocol \in Seq(TokenBytes \cup {"/"}) /\ Len(Protocol) = 5
  /\ Protocol[1] = "H" /\ Protocol[2] = "T" /\ Protocol[3] = "T" /\ Protocol[4] = "P"
  /\ Protocol[5] = "/"
  BY DEF Bytes, TextBytes, Protocol, TokenBytes

LEMMA GotoFields ==
  ASSUME NEW r \in Parser, NEW x
  PROVE  /\ Goto(r, x).state = x /\ Goto(r, x).method = r.method /\ Goto(r, x).uri = r.uri
         /\ Goto(r, x).headers = r.headers
  BY DEF Goto, Parser

LEMMA RejectedState ==
  ASSUME NEW r \in Parser
  PROVE  Rejected(r).state = "rejected"
  BY GotoFields DEF Rejected

\* One arrow starts in a state with a byte.
LEMMA Arrow ==
  ASSUME NEW r, NEW x, NEW b, NEW y, <<x, b, y>> \in Arrows, r.state = x
  PROVE  Follow(r, b) = Goto(r, y)
<1>1. \A a \in Arrows : a[1] = x /\ a[2] = b => a[3] = y
  BY DEF Arrows
<1> DEFINE c == CHOOSE a \in Arrows : a[1] = r.state /\ a[2] = b
<1>2. \E a \in Arrows : a[1] = r.state /\ a[2] = b
  OBVIOUS
<1>3. c \in Arrows /\ c[1] = x /\ c[2] = b
  BY <1>2
<1>4. Follow(r, b) = Goto(r, c[3])
  BY <1>2 DEF Follow
<1> HIDE DEF c
<1> QED BY <1>1, <1>3, <1>4

LEMMA NoArrow ==
  ASSUME NEW r, NEW x, NEW b, r.state = x, \A a \in Arrows : ~(a[1] = x /\ a[2] = b)
  PROVE  Follow(r, b) = Rejected(r)
  BY DEF Follow

LEMMA Follows ==
  ASSUME NEW r, NEW b
  PROVE  /\ \A k \in 1..5 : r.state = ProtocolStates[k] =>
              Follow(r, b) = IF b = Protocol[k] THEN Goto(r, ProtocolStates[k + 1]) ELSE Rejected(r)
         /\ r.state = "http_version_major_start" =>
              Follow(r, b) = IF b = "digit" THEN Goto(r, "http_version_major") ELSE Rejected(r)
         /\ r.state = "http_version_major" =>
              Follow(r, b) = IF b = "digit" THEN Goto(r, "http_version_major")
                             ELSE IF b = "." THEN Goto(r, "http_version_minor_start")
                             ELSE Rejected(r)
         /\ r.state = "http_version_minor_start" =>
              Follow(r, b) = IF b = "digit" THEN Goto(r, "http_version_minor") ELSE Rejected(r)
         /\ r.state = "http_version_minor" =>
              Follow(r, b) = IF b = "digit" THEN Goto(r, "http_version_minor")
                             ELSE IF b = "CR" THEN Goto(r, "expecting_newline_1")
                             ELSE Rejected(r)
         /\ r.state = "space_before_header_value" =>
              Follow(r, b) = IF b = "SP" THEN Goto(r, "header_value") ELSE Rejected(r)
         /\ r.state \in {"expecting_newline_1", "expecting_newline_2"} =>
              Follow(r, b) = IF b = "LF" THEN Goto(r, "header_line_start") ELSE Rejected(r)
         /\ r.state = "expecting_newline_3" =>
              Follow(r, b) = IF b = "LF" THEN Goto(r, "accepted") ELSE Rejected(r)
<1>1. ASSUME NEW k \in 1..5, r.state = ProtocolStates[k]
      PROVE  Follow(r, b) = IF b = Protocol[k] THEN Goto(r, ProtocolStates[k + 1]) ELSE Rejected(r)
  <2>1. <<ProtocolStates[k], Protocol[k], ProtocolStates[k + 1]>> \in Arrows
    <3>1. k = 1 \/ k = 2 \/ k = 3 \/ k = 4 \/ k = 5
      OBVIOUS
    <3> QED BY <3>1 DEF Arrows, ProtocolStates, Protocol
  <2>2. b # Protocol[k] => \A a \in Arrows : ~(a[1] = ProtocolStates[k] /\ a[2] = b)
    <3>1. k = 1 \/ k = 2 \/ k = 3 \/ k = 4 \/ k = 5
      OBVIOUS
    <3> QED BY <3>1 DEF Arrows, ProtocolStates, Protocol
  <2> QED BY <1>1, <2>1, <2>2, Arrow, NoArrow
<1>2. ASSUME r.state = "http_version_major_start"
      PROVE  Follow(r, b) = IF b = "digit" THEN Goto(r, "http_version_major") ELSE Rejected(r)
  <2>1. <<"http_version_major_start", "digit", "http_version_major">> \in Arrows
    BY DEF Arrows
  <2>2. b \notin {"digit"} => \A a \in Arrows : ~(a[1] = "http_version_major_start" /\ a[2] = b)
    BY DEF Arrows
  <2> QED BY <1>2, <2>1, <2>2, Arrow, NoArrow
<1>3. ASSUME r.state = "http_version_major"
      PROVE  Follow(r, b) = IF b = "digit" THEN Goto(r, "http_version_major")
                             ELSE IF b = "." THEN Goto(r, "http_version_minor_start")
                             ELSE Rejected(r)
  <2>1. /\ <<"http_version_major", "digit", "http_version_major">> \in Arrows
        /\ <<"http_version_major", ".", "http_version_minor_start">> \in Arrows
    BY DEF Arrows
  <2>2. b \notin {"digit", "."} => \A a \in Arrows : ~(a[1] = "http_version_major" /\ a[2] = b)
    BY DEF Arrows
  <2> QED BY <1>3, <2>1, <2>2, Arrow, NoArrow
<1>4. ASSUME r.state = "http_version_minor_start"
      PROVE  Follow(r, b) = IF b = "digit" THEN Goto(r, "http_version_minor") ELSE Rejected(r)
  <2>1. <<"http_version_minor_start", "digit", "http_version_minor">> \in Arrows
    BY DEF Arrows
  <2>2. b \notin {"digit"} => \A a \in Arrows : ~(a[1] = "http_version_minor_start" /\ a[2] = b)
    BY DEF Arrows
  <2> QED BY <1>4, <2>1, <2>2, Arrow, NoArrow
<1>5. ASSUME r.state = "http_version_minor"
      PROVE  Follow(r, b) = IF b = "digit" THEN Goto(r, "http_version_minor")
                             ELSE IF b = "CR" THEN Goto(r, "expecting_newline_1")
                             ELSE Rejected(r)
  <2>1. /\ <<"http_version_minor", "digit", "http_version_minor">> \in Arrows
        /\ <<"http_version_minor", "CR", "expecting_newline_1">> \in Arrows
    BY DEF Arrows
  <2>2. b \notin {"digit", "CR"} => \A a \in Arrows : ~(a[1] = "http_version_minor" /\ a[2] = b)
    BY DEF Arrows
  <2> QED BY <1>5, <2>1, <2>2, Arrow, NoArrow
<1>6. ASSUME r.state = "space_before_header_value"
      PROVE  Follow(r, b) = IF b = "SP" THEN Goto(r, "header_value") ELSE Rejected(r)
  <2>1. <<"space_before_header_value", "SP", "header_value">> \in Arrows
    BY DEF Arrows
  <2>2. b \notin {"SP"} => \A a \in Arrows : ~(a[1] = "space_before_header_value" /\ a[2] = b)
    BY DEF Arrows
  <2> QED BY <1>6, <2>1, <2>2, Arrow, NoArrow
<1>7. ASSUME r.state = "expecting_newline_1"
      PROVE  Follow(r, b) = IF b = "LF" THEN Goto(r, "header_line_start") ELSE Rejected(r)
  <2>1. <<"expecting_newline_1", "LF", "header_line_start">> \in Arrows
    BY DEF Arrows
  <2>2. b \notin {"LF"} => \A a \in Arrows : ~(a[1] = "expecting_newline_1" /\ a[2] = b)
    BY DEF Arrows
  <2> QED BY <1>7, <2>1, <2>2, Arrow, NoArrow
<1>8. ASSUME r.state = "expecting_newline_2"
      PROVE  Follow(r, b) = IF b = "LF" THEN Goto(r, "header_line_start") ELSE Rejected(r)
  <2>1. <<"expecting_newline_2", "LF", "header_line_start">> \in Arrows
    BY DEF Arrows
  <2>2. b \notin {"LF"} => \A a \in Arrows : ~(a[1] = "expecting_newline_2" /\ a[2] = b)
    BY DEF Arrows
  <2> QED BY <1>8, <2>1, <2>2, Arrow, NoArrow
<1>9. ASSUME r.state = "expecting_newline_3"
      PROVE  Follow(r, b) = IF b = "LF" THEN Goto(r, "accepted") ELSE Rejected(r)
  <2>1. <<"expecting_newline_3", "LF", "accepted">> \in Arrows
    BY DEF Arrows
  <2>2. b \notin {"LF"} => \A a \in Arrows : ~(a[1] = "expecting_newline_3" /\ a[2] = b)
    BY DEF Arrows
  <2> QED BY <1>9, <2>1, <2>2, Arrow, NoArrow
<1> QED BY <1>1, <1>2, <1>3, <1>4, <1>5, <1>6, <1>7, <1>8, <1>9

-----------------------------------------------------------------------------
(* The first line. *)

\* L begins the line X or ends it.
Leads(L, X) ==
  /\ Len(L) <= Len(X) + 2
  /\ \A i \in 1..Len(L) : \/ i <= Len(X) /\ L[i] = X[i]
                          \/ i = Len(X) + 1 /\ L[i] = "CR"
                          \/ i = Len(X) + 2 /\ L[i] = "LF"

LEMMA LeadsMore ==
  ASSUME NEW l \in Seq(Bytes), NEW b \in Bytes, NEW L \in Seq(Bytes), Grows(l, b, L),
         NEW X \in Seq(Bytes), Leads(L, X)
  PROVE  /\ Leads(l, X)
         /\ \/ Len(l) < Len(X) /\ b = X[Len(l) + 1]
            \/ Len(l) = Len(X) /\ b = "CR"
            \/ Len(l) = Len(X) + 1 /\ b = "LF"
<1>1. Len(L) = Len(l) + 1 /\ L[Len(L)] = b /\ \A i \in 1..Len(l) : L[i] = l[i]
  BY DEF Grows
<1>2. Leads(l, X)
  BY <1>1 DEF Leads
<1>3. Len(L) \in 1..Len(L)
  BY <1>1
<1> QED BY <1>1, <1>2, <1>3 DEF Leads

LEMMA SpacesAre ==
  ASSUME NEW l \in Seq(Bytes)
  PROVE  /\ Space1(l) \in 0..Len(l) /\ Space2(l) \in 0..Len(l)
         /\ Space1(l) = 0 => \A i \in 1..Len(l) : l[i] # "SP"
         /\ Space1(l) > 0 => l[Space1(l)] = "SP" /\ \A i \in 1..(Space1(l) - 1) : l[i] # "SP"
         /\ Space2(l) = 0 => \A i \in (Space1(l) + 1)..Len(l) : l[i] # "SP"
         /\ Space2(l) > 0 => /\ Space2(l) > Space1(l) /\ l[Space2(l)] = "SP"
                             /\ \A i \in (Space1(l) + 1)..(Space2(l) - 1) : l[i] # "SP"
<1> DEFINE p == Space1(l)
           q == Space2(l)
<1>1. \/ p = 0 /\ \A i \in (0 + 1)..Len(l) : l[i] \notin {"SP"}
      \/ p \in (0 + 1)..Len(l) /\ l[p] \in {"SP"} /\ \A i \in (0 + 1)..(p - 1) : l[i] \notin {"SP"}
  BY FirstIs DEF Space1
<1>2. p \in 0..Len(l) /\ p \in Nat
  <2> HIDE DEF p
  <2> QED BY <1>1
<1>3. \/ q = 0 /\ \A i \in (p + 1)..Len(l) : l[i] \notin {"SP"}
      \/ q \in (p + 1)..Len(l) /\ l[q] \in {"SP"} /\ \A i \in (p + 1)..(q - 1) : l[i] \notin {"SP"}
  BY <1>2, FirstIs DEF Space2
<1> HIDE DEF p, q
<1>4. /\ p \in 0..Len(l) /\ q \in 0..Len(l)
      /\ p = 0 => \A i \in 1..Len(l) : l[i] # "SP"
      /\ p > 0 => l[p] = "SP" /\ \A i \in 1..(p - 1) : l[i] # "SP"
  BY <1>1, <1>2, <1>3
<1>5. /\ q = 0 => \A i \in (p + 1)..Len(l) : l[i] # "SP"
      /\ q > 0 => q > p /\ l[q] = "SP" /\ \A i \in (p + 1)..(q - 1) : l[i] # "SP"
  BY <1>2, <1>3
<1> QED BY <1>4, <1>5 DEF p, q

LEMMA SpacesMore ==
  ASSUME NEW l \in Seq(Bytes), NEW b \in Bytes, NEW L \in Seq(Bytes), Grows(l, b, L)
  PROVE  /\ Space1(l) # 0 => Space1(L) = Space1(l)
         /\ Space1(l) = 0 => Space1(L) = IF b = "SP" THEN Len(L) ELSE 0
         /\ Space1(l) # 0 /\ Space2(l) # 0 => Space2(L) = Space2(l)
         /\ Space1(l) # 0 /\ Space2(l) = 0 => Space2(L) = IF b = "SP" THEN Len(L) ELSE 0
         /\ Space1(L) = Len(L) => Space2(L) = 0
<1>1. 0 \in 0..Len(l) /\ Space1(l) \in 0..Len(l) /\ Len(L) = Len(l) + 1
  BY SpacesAre DEF Grows
<1> DEFINE B == {"SP"}
<1> HIDE DEF B
<1>2. Space1(L) = IF First(l, B, 0) # 0 THEN First(l, B, 0) ELSE IF b \in B THEN Len(L) ELSE 0
  <2>1. Space1(L) = First(L, B, 0)
    BY DEF Space1, B
  <2> QED BY <1>1, <2>1, FirstMore
<1>3. First(L, B, Space1(l)) = IF First(l, B, Space1(l)) # 0 THEN First(l, B, Space1(l))
                               ELSE IF b \in B THEN Len(L) ELSE 0
  BY <1>1, FirstMore
<1> USE DEF B
<1>4. Space1(L) = IF Space1(l) # 0 THEN Space1(l) ELSE IF b = "SP" THEN Len(L) ELSE 0
  BY <1>2 DEF Space1
<1>5. Space1(L) = Len(L) => Space2(L) = 0
  <2>1. Len(L) \in Nat /\ \A i \in (Len(L) + 1)..Len(L) : L[i] \notin {"SP"}
    OBVIOUS
  <2>2. First(L, {"SP"}, Len(L)) = 0
    BY <2>1, FirstNone
  <2> QED BY <2>2 DEF Space2
<1>6. Space1(l) # 0 => Space2(L) = First(L, {"SP"}, Space1(l))
  BY <1>4 DEF Space2
<1> QED BY <1>3, <1>4, <1>5, <1>6 DEF Space2

\* A line that begins with one that is read so far has its spaces.
LEMMA SpacesAgree ==
  ASSUME NEW l \in Seq(Bytes), NEW X \in Seq(Bytes), IsRequestLine(X), Leads(l, X), MethodOver(l)
  PROVE  /\ Space1(X) = Space1(l)
         /\ Space2(l) = 0 => Space2(X) > Len(l)
         /\ UriOver(l) => Space2(X) = Space2(l)
<1> DEFINE p == Space1(l)
           q == Space2(l)
           P == Space1(X)
           Q == Space2(X)
<1>1. /\ p \in 0..Len(l) /\ q \in 0..Len(l) /\ P \in 0..Len(X) /\ Q \in 0..Len(X)
      /\ p > 1 /\ l[p] = "SP" /\ \A i \in 1..(p - 1) : l[i] # "SP"
      /\ q = 0 => \A i \in (p + 1)..Len(l) : l[i] # "SP"
      /\ q > 0 => q > p /\ l[q] = "SP" /\ \A i \in (p + 1)..(q - 1) : l[i] # "SP"
  BY SpacesAre DEF MethodOver
<1>2. /\ P > 1 /\ X[P] = "SP" /\ \A i \in 1..(P - 1) : X[i] # "SP"
      /\ Q > P /\ X[Q] = "SP" /\ \A i \in (P + 1)..(Q - 1) : X[i] # "SP"
  BY SpacesAre DEF IsRequestLine
<1> HIDE DEF p, q, P, Q
<1>3. \A i \in 1..Len(l) : i <= Len(X) => l[i] = X[i]
  BY DEF Leads
<1>4. \A i \in 1..Len(l) : i > Len(X) => l[i] # "SP"
  BY DEF Leads
<1>5. P = p
  BY <1>1, <1>2, <1>3, <1>4
<1>6. q = 0 => Q > Len(l)
  BY <1>1, <1>2, <1>3, <1>5
<1>7. q > 0 => Q = q
  BY <1>1, <1>2, <1>3, <1>4, <1>5
<1> QED BY <1>5, <1>6, <1>7 DEF p, q, P, Q, UriOver

\* A request line has no end of line in it.
LEMMA NoEndInside ==
  ASSUME NEW X \in Seq(Bytes), IsRequestLine(X)
  PROVE  \A i \in 1..Len(X) : X[i] \notin {"CR", "LF"}
<1> DEFINE P == Space1(X)
           Q == Space2(X)
<1>1. /\ P \in 1..Len(X) /\ Q \in 1..Len(X) /\ P < Q /\ X[P] = "SP" /\ X[Q] = "SP"
  BY SpacesAre DEF IsRequestLine
<1>2. /\ \A i \in 1..(P - 1) : X[i] \in TokenBytes
      /\ \A i \in (P + 1)..(Q - 1) : X[i] \in TextBytes
      /\ \A i \in 1..5 : X[Q + i] = Protocol[i]
      /\ \A i \in (Q + 6)..Len(X) : X[i] \in {"digit", "."}
  BY DEF IsRequestLine, IsVersion, Protocol
<1> HIDE DEF P, Q
<1>3. \A i \in (Q + 1)..(Q + 5) : X[i] \notin {"CR", "LF"}
  <2> TAKE i \in (Q + 1)..(Q + 5)
  <2>1. i - Q \in 1..5 /\ Q + (i - Q) = i
    BY <1>1
  <2>2. X[i] = Protocol[i - Q]
    BY <1>2, <2>1
  <2>3. i - Q = 1 \/ i - Q = 2 \/ i - Q = 3 \/ i - Q = 4 \/ i - Q = 5
    BY <2>1
  <2> QED BY <2>2, <2>3, ByteNames
<1>4. \A c \in Bytes :
        c \in TokenBytes \cup TextBytes \cup {"digit", ".", "SP"} => c \notin {"CR", "LF"}
  BY Kinds, ByteNames
<1> TAKE i \in 1..Len(X)
<1>5. i < P \/ i = P \/ (P < i /\ i < Q) \/ i = Q \/ (i > Q /\ i <= Q + 5) \/ i > Q + 5
  BY <1>1
<1>6. X[i] \in Bytes
  OBVIOUS
<1> QED BY <1>1, <1>2, <1>3, <1>4, <1>5, <1>6

\* How the first line goes on, and how it cannot.
GoesOn(r, L) == r.state \in FirstLineStates /\ InFirstLine(r, L)
StuckFirst(r, L) == r.state = "rejected" /\ \A X \in Seq(Bytes) : IsRequestLine(X) => ~Leads(L, X)

LEMMA GrowsIs ==
  ASSUME NEW l \in Seq(Bytes), NEW b \in Bytes, NEW L \in Seq(Bytes), Grows(l, b, L)
  PROVE  L = Append(l, b) /\ L # << >> /\ Front(L) = l /\ Last(L) = b
<1> DEFINE q == Append(l, b)
<1>1. q \in Seq(Bytes) /\ Grows(l, b, q)
  BY Grown
<1> HIDE DEF q
<1>2. L = q
  BY <1>1 DEF Grows
<1> QED BY <1>2, OneMore DEF q

LEMMA FrontIs ==
  ASSUME NEW l \in Seq(Bytes), l # << >>
  PROVE  /\ Len(l) >= 1 /\ Last(l) = l[Len(l)] /\ Last(l) \in Bytes
         /\ Front(l) \in Seq(Bytes) /\ Len(Front(l)) = Len(l) - 1
         /\ \A i \in 1..(Len(l) - 1) : Front(l)[i] = l[i]
         /\ Grows(Front(l), Last(l), l)
<1> DEFINE n == Len(l) - 1
           q == SubSeq(l, 1, n)
<1>1. Len(l) >= 1 /\ l[Len(l)] \in Bytes /\ n \in 0..Len(l) /\ Len(l) = n + 1
  OBVIOUS
<1> HIDE DEF n
<1>2. q \in Seq(Bytes) /\ Len(q) = n /\ \A i \in 1..n : q[i] = l[i]
  BY <1>1
<1> HIDE DEF q
<1>3. Opens(q, l)
  BY <1>1, <1>2 DEF Opens
<1>4. Front(l) = q /\ Last(l) = l[Len(l)]
  BY DEF Front, Last, q, n
<1>5. Len(l) = Len(q) + 1 /\ n = Len(l) - 1
  BY <1>1, <1>2
<1> QED BY <1>1, <1>2, <1>3, <1>4, <1>5 DEF Grows

LEMMA WholeIs ==
  ASSUME NEW l \in Seq(Bytes), NEW n, n = Len(l)
  PROVE  SubSeq(l, 1, n) = l /\ SubSeq(l, n + 1, n) = << >>
<1> DEFINE q == SubSeq(l, 1, Len(l))
<1>1. q \in Seq(Bytes) /\ Len(q) = Len(l) /\ \A i \in 1..Len(l) : q[i] = l[i]
  OBVIOUS
<1> HIDE DEF q
<1>2. q = l
  BY <1>1
<1>3. SubSeq(l, Len(l) + 1, Len(l)) = << >>
  OBVIOUS
<1> QED BY <1>2, <1>3 DEF q

LEMMA MethodReads ==
  ASSUME NEW r \in Parser, NEW l \in Seq(Bytes), r.state \in {"method_start", "method"},
         InFirstLine(r, l), NEW b \in Bytes, NEW L \in Seq(Bytes), Grows(l, b, L)
  PROVE  GoesOn(Consume(r, b), L) \/ StuckFirst(Consume(r, b), L)
<1> DEFINE r1 == Consume(r, b)
<1>1. /\ r.headers = << >> /\ Tokens(l) /\ r.method = l /\ r.uri = << >>
      /\ r.state = "method_start" <=> l = << >>
  BY DEF InFirstLine
<1>2. /\ L = Append(l, b) /\ L # << >> /\ Len(L) = Len(l) + 1 /\ L[Len(L)] = b /\ Opens(l, L)
      /\ \A i \in 1..Len(l) : L[i] = l[i]
  BY GrowsIs DEF Grows
<1>3. r1 = RequestLine(r, b)
  BY DEF Consume
<1>4. Space1(l) = 0
  BY <1>1, SpacesAre, Kinds DEF Tokens
<1>5. CASE r.state = "method" /\ b = "SP"
  <2>1. r1 = Goto(r, "uri")
    <3>1. ~IsToken(b) /\ r.state # "uri"
      BY <1>5, Kinds
    <3> QED BY <1>3, <1>5, <3>1 DEF RequestLine
  <2>2. r1.state = "uri" /\ r1.method = l /\ r1.uri = << >> /\ r1.headers = << >>
    BY <1>1, <2>1, GotoFields
  <2>3. Space1(L) = Len(L) /\ Space2(L) = 0
    BY <1>4, <1>5, SpacesMore
  <2>4. MethodOver(L)
    BY <1>1, <1>2, <1>5, <2>3 DEF MethodOver, Tokens
  <2>5. MethodIn(L) = l
    BY <1>2, <2>3, PartStays, WholeIs DEF MethodIn
  <2>6. SubSeq(L, Space1(L) + 1, Len(L)) = << >>
    BY <2>3, WholeIs
  <2>7. InFirstLine(r1, L)
    BY <2>2, <2>3, <2>4, <2>5, <2>6 DEF InFirstLine, VersionStates
  <2> QED BY <2>2, <2>7 DEF GoesOn, FirstLineStates
<1>6. CASE ~(r.state = "method" /\ b = "SP") /\ IsToken(b)
  <2>1. r1 = [r EXCEPT !.state = "method", !.method = Append(@, b)]
    BY <1>3, <1>6 DEF RequestLine
  <2>2. r1.state = "method" /\ r1.method = L /\ r1.uri = << >> /\ r1.headers = << >>
    BY <1>1, <1>2, <2>1 DEF Parser
  <2>3. Tokens(L)
    BY <1>1, <1>2, <1>6, Kinds DEF Tokens
  <2>4. InFirstLine(r1, L)
    BY <1>2, <2>2, <2>3 DEF InFirstLine, VersionStates
  <2> QED BY <2>2, <2>4 DEF GoesOn, FirstLineStates
<1>7. CASE ~(r.state = "method" /\ b = "SP") /\ ~IsToken(b)
  <2>1. r1.state = "rejected"
    <3>1. r1 = Rejected(r)
      BY <1>3, <1>7 DEF RequestLine
    <3> QED BY <3>1, RejectedState
  <2>2. ASSUME NEW X \in Seq(Bytes), IsRequestLine(X), Leads(L, X)
        PROVE  FALSE
    <3> DEFINE P == Space1(X)
    <3>1. P \in 1..Len(X) /\ P > 1 /\ X[P] = "SP" /\ \A i \in 1..(P - 1) : X[i] \in TokenBytes
      BY <2>2, SpacesAre DEF IsRequestLine
    <3> HIDE DEF P
    <3>2. /\ Leads(l, X)
          /\ (Len(l) < Len(X) /\ b = X[Len(l) + 1]) \/ Len(l) >= Len(X)
      BY <2>2, LeadsMore
    <3>3. ~(P <= Len(l))
      <4>1. P <= Len(l) => l[P] = "SP" /\ l[P] \in TokenBytes
        BY <1>1, <3>1, <3>2 DEF Leads, Tokens
      <4> QED BY <4>1 DEF TokenBytes
    <3>4. Len(l) < P /\ b = X[Len(l) + 1] /\ Len(l) + 1 \in 1..P
      BY <3>1, <3>2, <3>3
    <3>5. b \notin TokenBytes
      BY <1>7, Kinds
    <3>6. Len(l) + 1 = P
      BY <3>1, <3>4, <3>5
    <3>7. b = "SP" /\ l # << >>
      BY <3>1, <3>4, <3>6
    <3> QED BY <1>1, <1>7, <3>7
  <2> QED BY <2>1, <2>2 DEF StuckFirst
<1> QED BY <1>5, <1>6, <1>7

LEMMA MethodStays ==
  ASSUME NEW l \in Seq(Bytes), NEW b \in Bytes, NEW L \in Seq(Bytes), Grows(l, b, L), MethodOver(l)
  PROVE  /\ MethodOver(L) /\ Space1(L) = Space1(l) /\ MethodIn(L) = MethodIn(l)
         /\ UriOver(l) => UriOver(L) /\ Space2(L) = Space2(l) /\ UriIn(L) = UriIn(l)
<1> DEFINE p == Space1(l)
           q == Space2(l)
<1>1. p > 1 /\ p \in 1..Len(l) /\ q \in 0..Len(l) /\ (q > 0 => q > p)
  BY SpacesAre DEF MethodOver
<1>2. Space1(L) = p /\ (q > 0 => Space2(L) = q)
  BY <1>1, SpacesMore
<1>3. Opens(l, L) /\ \A i \in 1..Len(l) : L[i] = l[i]
  BY DEF Grows
<1>4. SubSeq(L, 1, p - 1) = SubSeq(l, 1, p - 1)
  <2> HIDE DEF p
  <2>1. p - 1 \in (1 - 1)..Len(l) /\ 1 \in 1..(Len(l) + 1)
    BY <1>1
  <2> QED BY <1>3, <2>1, PartStays
<1>5. q > 0 => SubSeq(L, p + 1, q - 1) = SubSeq(l, p + 1, q - 1)
  <2> HIDE DEF p, q
  <2>1. q > 0 => p + 1 \in 1..(Len(l) + 1) /\ q - 1 \in ((p + 1) - 1)..Len(l)
    BY <1>1
  <2> QED BY <1>3, <2>1, PartStays
<1>6. MethodOver(L)
  BY <1>1, <1>2, <1>3 DEF MethodOver
<1>7. UriOver(l) => UriOver(L)
  BY <1>1, <1>2, <1>3, <1>6 DEF UriOver
<1>8. UriOver(l) => q > 0
  BY DEF UriOver
<1> QED BY <1>2, <1>4, <1>5, <1>6, <1>7, <1>8 DEF MethodIn, UriIn

LEMMA UriReads ==
  ASSUME NEW r \in Parser, NEW l \in Seq(Bytes), r.state = "uri",
         InFirstLine(r, l), NEW b \in Bytes, NEW L \in Seq(Bytes), Grows(l, b, L)
  PROVE  GoesOn(Consume(r, b), L) \/ StuckFirst(Consume(r, b), L)
<1> DEFINE r1 == Consume(r, b)
           p == Space1(l)
<1>1. /\ r.headers = << >> /\ MethodOver(l) /\ Space2(l) = 0
      /\ \A i \in (p + 1)..Len(l) : l[i] \in TextBytes
      /\ r.method = MethodIn(l) /\ r.uri = SubSeq(l, p + 1, Len(l))
  BY DEF InFirstLine
<1>2. /\ L = Append(l, b) /\ Len(L) = Len(l) + 1 /\ L[Len(L)] = b /\ Opens(l, L)
      /\ \A i \in 1..Len(l) : L[i] = l[i]
  BY GrowsIs DEF Grows
<1>3. r1 = RequestLine(r, b)
  BY DEF Consume
<1>4. MethodOver(L) /\ Space1(L) = p /\ MethodIn(L) = MethodIn(l)
  BY <1>1, MethodStays
<1>5. p > 1 /\ p \in 1..Len(l)
  BY <1>1, SpacesAre DEF MethodOver
<1>6. Space2(L) = IF b = "SP" THEN Len(L) ELSE 0
  BY <1>1, <1>5, SpacesMore
<1> HIDE DEF p
<1>7. CASE b = "SP"
  <2>1. r1 = Goto(r, "http_version_h")
    BY <1>3, <1>7 DEF RequestLine
  <2>2. /\ r1.state = "http_version_h" /\ r1.method = r.method /\ r1.uri = r.uri
        /\ r1.headers = << >>
    BY <1>1, <2>1, GotoFields
  <2>3. UriOver(L)
    BY <1>1, <1>2, <1>4, <1>5, <1>6, <1>7 DEF UriOver
  <2>4. UriIn(L) = r.uri
    <3>1. p + 1 \in 1..(Len(l) + 1) /\ Len(l) \in ((p + 1) - 1)..Len(l)
      BY <1>5
    <3>2. SubSeq(L, p + 1, Len(l)) = SubSeq(l, p + 1, Len(l))
      BY <1>2, <3>1, PartStays
    <3>3. Len(l) = Len(L) - 1
      BY <1>2
    <3> QED BY <1>1, <1>4, <1>6, <1>7, <3>2, <3>3 DEF UriIn
  <2>5. InVersion("http_version_h", L, Space2(L))
    BY <1>2, <1>6, <1>7 DEF InVersion, VersionBegins, ProtocolStates
  <2>6. InFirstLine(r1, L)
    BY <1>1, <1>4, <2>2, <2>3, <2>4, <2>5 DEF InFirstLine, VersionStates
  <2> QED BY <2>2, <2>6 DEF GoesOn, FirstLineStates, VersionStates
<1>8. CASE b # "SP" /\ IsText(b)
  <2>1. r1 = [r EXCEPT !.uri = Append(@, b)]
    BY <1>3, <1>8 DEF RequestLine
  <2>2. r1.state = "uri" /\ r1.method = r.method /\ r1.uri = Append(r.uri, b) /\ r1.headers = << >>
    BY <1>1, <2>1 DEF Parser
  <2>3. SubSeq(L, p + 1, Len(L)) = Append(r.uri, b)
    <3>1. p + 1 \in 1..(Len(l) + 1)
      BY <1>5
    <3>2. SubSeq(Append(l, b), p + 1, Len(l) + 1) = Append(SubSeq(l, p + 1, Len(l)), b)
      BY <3>1, PartGrows
    <3> QED BY <1>1, <1>2, <3>2
  <2>4. \A i \in (p + 1)..Len(L) : L[i] \in TextBytes
    <3> TAKE i \in (p + 1)..Len(L)
    <3>1. b \in TextBytes
      BY <1>8, Kinds
    <3>2. i \in (p + 1)..Len(l) \/ i = Len(L)
      BY <1>2, <1>5
    <3> QED BY <1>1, <1>2, <1>5, <3>1, <3>2
  <2>5. InFirstLine(r1, L)
    BY <1>1, <1>4, <1>6, <1>8, <2>2, <2>3, <2>4 DEF InFirstLine, VersionStates
  <2> QED BY <2>2, <2>5 DEF GoesOn, FirstLineStates
<1>9. CASE b # "SP" /\ ~IsText(b)
  <2>1. r1.state = "rejected"
    <3>1. r1 = Rejected(r)
      BY <1>3, <1>9 DEF RequestLine
    <3> QED BY <3>1, RejectedState
  <2>2. ASSUME NEW X \in Seq(Bytes), IsRequestLine(X), Leads(L, X)
        PROVE  FALSE
    <3> DEFINE Q == Space2(X)
    <3>1. Leads(l, X) /\ (Len(l) < Len(X) => b = X[Len(l) + 1])
      BY <2>2, LeadsMore
    <3>2. Space1(X) = p /\ Q > Len(l) /\ Q \in 1..Len(X) /\ X[Q] = "SP"
      BY <1>1, <2>2, <3>1, SpacesAgree, SpacesAre DEF p
    <3>3. \A i \in (p + 1)..(Q - 1) : X[i] \in TextBytes
      BY <2>2, <3>2 DEF IsRequestLine
    <3> HIDE DEF Q
    <3>4. Len(l) + 1 \in (p + 1)..Q /\ b = X[Len(l) + 1]
      BY <1>5, <3>1, <3>2
    <3>5. Len(l) + 1 = Q \/ Len(l) + 1 \in (p + 1)..(Q - 1)
      BY <3>2, <3>4
    <3> QED BY <1>9, <3>2, <3>3, <3>4, <3>5, Kinds
  <2> QED BY <2>1, <2>2 DEF StuckFirst
<1> QED BY <1>7, <1>8, <1>9

LEMMA ProtocolStatesDiffer ==
  /\ \A i, j \in 1..6 : ProtocolStates[i] = ProtocolStates[j] => i = j
  /\ \A i \in 1..6 : /\ ProtocolStates[i] \in VersionStates
                     /\ ProtocolStates[i] \notin {"http_version_major", "http_version_minor_start",
                                                  "http_version_minor"}
  /\ ProtocolStates[6] = "http_version_major_start"
  /\ \A x \in VersionStates :
       \/ \E k \in 1..5 : x = ProtocolStates[k]
       \/ x \in {"http_version_major_start", "http_version_major", "http_version_minor_start",
                 "http_version_minor"}
<1>1. \A i \in 1..6 : i = 1 \/ i = 2 \/ i = 3 \/ i = 4 \/ i = 5 \/ i = 6
  OBVIOUS
<1>2. /\ ProtocolStates[1] = "http_version_h" /\ ProtocolStates[2] = "http_version_t_1"
      /\ ProtocolStates[3] = "http_version_t_2" /\ ProtocolStates[4] = "http_version_p"
      /\ ProtocolStates[5] = "http_version_slash" /\ ProtocolStates[6] = "http_version_major_start"
  BY DEF ProtocolStates
<1>3. {1, 2, 3, 4, 5} \subseteq 1..5
  OBVIOUS
<1>4. \A i, j \in 1..6 : ProtocolStates[i] = ProtocolStates[j] => i = j
  BY <1>1, <1>2
<1>5. \A i \in 1..6 : /\ ProtocolStates[i] \in VersionStates
                      /\ ProtocolStates[i] \notin {"http_version_major", "http_version_minor_start",
                                                   "http_version_minor"}
  BY <1>1, <1>2 DEF VersionStates
<1>6. \A x \in VersionStates :
       \/ \E k \in 1..5 : x = ProtocolStates[k]
       \/ x \in {"http_version_major_start", "http_version_major", "http_version_minor_start",
                 "http_version_minor"}
  BY <1>2, <1>3 DEF VersionStates
<1> QED BY <1>2, <1>4, <1>5, <1>6

\* What a version is, with its dot.
LEMMA VersionIs ==
  ASSUME NEW X \in Seq(Bytes), NEW n \in Nat, IsVersion(X, n)
  PROVE  \E k \in (n + 7)..(Len(X) - 1) :
           /\ \A i \in 1..5 : X[n + i] = Protocol[i]
           /\ X[k] = "." /\ \A i \in (n + 6)..Len(X) : i # k => X[i] = "digit"
  BY DEF IsVersion, Protocol

LEMMA IsAVersion ==
  ASSUME NEW X \in Seq(Bytes), NEW n \in Nat, VersionBegins(X, n, 5),
         NEW k \in (n + 7)..(Len(X) - 1), X[k] = ".",
         \A i \in (n + 6)..Len(X) : i # k => X[i] = "digit"
  PROVE  IsVersion(X, n)
  BY DEF IsVersion, Protocol, VersionBegins

\* The next byte of a version, when the line is to be a request line.
NextInVersion(state, b) ==
  /\ \A k \in 1..5 : state = ProtocolStates[k] => b = Protocol[k]
  /\ state \in {"http_version_major_start", "http_version_minor_start"} => b = "digit"
  /\ state = "http_version_major" => b \in {"digit", "."}
  /\ state = "http_version_minor" => b \in {"digit", "CR"}

LEMMA VersionAhead ==
  ASSUME NEW x \in VersionStates, NEW l \in Seq(Bytes), NEW n \in Nat, InVersion(x, l, n),
         NEW b \in Bytes, NEW L \in Seq(Bytes), Grows(l, b, L),
         NEW X \in Seq(Bytes), IsVersion(X, n), Leads(L, X)
  PROVE  NextInVersion(x, b)
<1>1. /\ \A i \in 1..Len(l) : i <= Len(X) => l[i] = X[i]
      /\ \A i \in 1..Len(l) : i > Len(X) => l[i] \in {"CR", "LF"}
      /\ \/ Len(l) < Len(X) /\ b = X[Len(l) + 1]
         \/ Len(l) = Len(X) /\ b = "CR"
         \/ Len(l) = Len(X) + 1 /\ b = "LF"
  BY LeadsMore DEF Leads
<1>2. PICK k \in (n + 7)..(Len(X) - 1) :
        /\ \A i \in 1..5 : X[n + i] = Protocol[i]
        /\ X[k] = "." /\ \A i \in (n + 6)..Len(X) : i # k => X[i] = "digit"
  BY VersionIs
<1>3. ASSUME NEW j \in 1..5, x = ProtocolStates[j]
      PROVE  b = Protocol[j]
  <2>1. Len(l) = n + j - 1
    BY <1>3 DEF InVersion
  <2>2. Len(l) < Len(X) /\ Len(l) + 1 = n + j
    BY <1>2, <2>1
  <2>3. b = X[n + j]
    BY <1>1, <2>2
  <2> QED BY <1>2, <2>3
<1>4. CASE x = "http_version_major_start"
  <2>1. Len(l) = n + 5
    BY <1>4, ProtocolStatesDiffer DEF InVersion
  <2>2. n + 6 \in (n + 6)..Len(X) /\ n + 6 # k /\ Len(l) < Len(X) /\ Len(l) + 1 = n + 6
    BY <1>2, <2>1
  <2>3. b = "digit"
    BY <1>1, <1>2, <2>2
  <2> QED BY <1>3, <1>4, <2>3 DEF NextInVersion
<1>5. CASE x = "http_version_major"
  <2>1. Len(l) > n + 5 /\ \A i \in (n + 6)..Len(l) : l[i] = "digit"
    BY <1>5 DEF InVersion, Digits
  <2>2. ~(k <= Len(l))
    <3> SUFFICES ASSUME k <= Len(l) PROVE FALSE
      OBVIOUS
    <3>1. k \in 1..Len(l) /\ k <= Len(X) /\ k \in (n + 6)..Len(l)
      BY <1>2
    <3>2. l[k] = X[k] /\ l[k] = "digit"
      BY <1>1, <2>1, <3>1
    <3> QED BY <1>2, <3>2
  <2>3. Len(l) < Len(X) /\ Len(l) + 1 \in (n + 6)..Len(X)
    BY <1>2, <2>1, <2>2
  <2>4. b \in {"digit", "."}
    <3>1. b = X[Len(l) + 1]
      BY <1>1, <2>3
    <3> QED BY <1>2, <2>3, <3>1
  <2> QED BY <1>3, <1>5, <2>4 DEF NextInVersion
<1>6. CASE x = "http_version_minor_start"
  <2>1. /\ Len(l) > n + 6 /\ \A i \in (n + 6)..(Len(l) - 1) : l[i] = "digit"
        /\ l[Len(l)] = "."
    BY <1>6 DEF InVersion, Digits
  <2>2. ~(k < Len(l))
    <3> SUFFICES ASSUME k < Len(l) PROVE FALSE
      OBVIOUS
    <3>1. k \in 1..Len(l) /\ k <= Len(X) /\ k \in (n + 6)..(Len(l) - 1)
      BY <1>2
    <3>2. l[k] = X[k] /\ l[k] = "digit"
      BY <1>1, <2>1, <3>1
    <3> QED BY <1>2, <3>2
  <2>3. ~(k > Len(l))
    <3> SUFFICES ASSUME k > Len(l) PROVE FALSE
      OBVIOUS
    <3>1. /\ Len(l) \in 1..Len(l) /\ Len(l) <= Len(X) /\ Len(l) \in (n + 6)..Len(X)
          /\ Len(l) # k
      BY <1>2, <2>1
    <3>2. l[Len(l)] = X[Len(l)] /\ X[Len(l)] = "digit"
      BY <1>1, <1>2, <3>1
    <3> QED BY <2>1, <3>2
  <2>4. k = Len(l) /\ Len(l) < Len(X) /\ Len(l) + 1 \in (n + 6)..Len(X)
    BY <1>2, <2>2, <2>3
  <2>5. b = "digit"
    BY <1>1, <1>2, <2>4
  <2> QED BY <1>3, <1>6, <2>5 DEF NextInVersion
<1>7. CASE x = "http_version_minor"
  <2>1. IsVersion(l, n)
    BY <1>7 DEF InVersion
  <2>2. PICK j \in (n + 7)..(Len(l) - 1) :
          /\ \A i \in 1..5 : l[n + i] = Protocol[i]
          /\ l[j] = "." /\ \A i \in (n + 6)..Len(l) : i # j => l[i] = "digit"
    BY <2>1, VersionIs
  <2>3. j <= Len(X)
    BY <1>1, <2>2
  <2>4. k = j
    <3>1. j \in 1..Len(l) /\ j \in (n + 6)..Len(X)
      BY <2>2, <2>3
    <3>2. l[j] = X[j] /\ (j # k => X[j] = "digit")
      BY <1>1, <1>2, <2>3, <3>1
    <3> QED BY <2>2, <3>2
  <2>6. k = j /\ k < Len(l)
    BY <1>2, <2>2, <2>4
  <2>7. l[Len(l)] = "digit"
    BY <2>2, <2>6
  <2>8. Len(l) <= Len(X)
    BY <1>1, <2>6, <2>7
  <2>9. Len(l) < Len(X) => Len(l) + 1 \in (n + 6)..Len(X) /\ Len(l) + 1 # k
    BY <1>2, <2>6, <2>8
  <2>10. b \in {"digit", "CR"}
    <3>1. CASE Len(l) < Len(X)
      <4>1. b = X[Len(l) + 1]
        BY <1>1, <3>1
      <4> QED BY <1>2, <2>9, <3>1, <4>1
    <3>2. CASE Len(l) = Len(X)
      BY <1>1, <3>2
    <3> QED BY <2>8, <3>1, <3>2
  <2> QED BY <1>3, <1>7, <2>10 DEF NextInVersion
<1> QED BY <1>3, <1>4, <1>5, <1>6, <1>7, ProtocolStatesDiffer DEF NextInVersion

\* Where the parser goes in a version.
Beyond(state, b) ==
  CASE state = "http_version_major_start" -> "http_version_major"
    [] state = "http_version_major" -> IF b = "." THEN "http_version_minor_start" ELSE state
    [] state = "http_version_minor_start" -> "http_version_minor"
    [] OTHER -> state

LEMMA VersionGoes ==
  ASSUME NEW x \in VersionStates, NEW l \in Seq(Bytes), NEW n \in Nat, InVersion(x, l, n),
         NEW b \in Bytes, b # "CR", NEW L \in Seq(Bytes), Grows(l, b, L), NextInVersion(x, b)
  PROVE  /\ \A k \in 1..5 : x = ProtocolStates[k] => InVersion(ProtocolStates[k + 1], L, n)
         /\ x \in {"http_version_major_start", "http_version_major", "http_version_minor_start",
                   "http_version_minor"} => InVersion(Beyond(x, b), L, n)
<1>1. Len(L) = Len(l) + 1 /\ L[Len(L)] = b /\ \A i \in 1..Len(l) : L[i] = l[i]
  BY DEF Grows
<1>2. ASSUME NEW k \in 1..5, x = ProtocolStates[k]
      PROVE  InVersion(ProtocolStates[k + 1], L, n)
  <2>1. Len(l) = n + k - 1 /\ \A i \in 1..(k - 1) : l[n + i] = Protocol[i]
    <3>1. k \in 1..6
      OBVIOUS
    <3>2. Len(l) = n + k - 1 /\ VersionBegins(l, n, k - 1)
      BY <1>2, <3>1 DEF InVersion
    <3> QED BY <3>2 DEF VersionBegins
  <2>2. b = Protocol[k]
    BY <1>2 DEF NextInVersion
  <2>3. VersionBegins(L, n, k)
    <3>1. \A i \in 1..k : L[n + i] = Protocol[i]
      <4> TAKE i \in 1..k
      <4>1. CASE i = k
        <5>1. n + i = Len(L)
          BY <1>1, <2>1, <4>1
        <5> QED BY <1>1, <2>2, <4>1, <5>1
      <4>2. CASE i # k
        <5>1. i \in 1..(k - 1) /\ n + i \in 1..Len(l)
          BY <2>1, <4>2
        <5> QED BY <1>1, <2>1, <5>1
      <4> QED BY <4>1, <4>2
    <3> QED BY <1>1, <2>1, <3>1 DEF VersionBegins
  <2>4. k + 1 \in 1..6 /\ Len(L) = n + (k + 1) - 1 /\ (k + 1) - 1 = k
    BY <1>1, <2>1
  <2>5. \A j \in 1..6 : ProtocolStates[k + 1] = ProtocolStates[j] => j = k + 1
    BY <2>4, ProtocolStatesDiffer
  <2> QED BY <2>3, <2>4, <2>5, ProtocolStatesDiffer DEF InVersion
<1>3. VersionBegins(l, n, 5) => VersionBegins(L, n, 5)
  <2> SUFFICES ASSUME VersionBegins(l, n, 5) PROVE VersionBegins(L, n, 5)
    OBVIOUS
  <2>1. n + 5 <= Len(l) /\ n + 5 <= Len(L) /\ \A i \in 1..5 : n + i \in 1..Len(l)
    BY <1>1 DEF VersionBegins
  <2>2. \A i \in 1..5 : L[n + i] = Protocol[i]
    BY <1>1, <2>1 DEF VersionBegins
  <2> QED BY <2>1, <2>2 DEF VersionBegins
<1>4. ASSUME NEW y \in {"http_version_major", "http_version_minor_start", "http_version_minor"}
      PROVE  \A k \in 1..6 : y # ProtocolStates[k]
  BY ProtocolStatesDiffer
<1>5. CASE x = "http_version_major_start"
  <2>1. Len(l) = n + 5 /\ VersionBegins(l, n, 5) /\ b = "digit"
    BY <1>5, ProtocolStatesDiffer DEF InVersion, NextInVersion
  <2>2. Len(L) > n + 5 /\ Digits(L, n + 6, Len(L))
    BY <1>1, <2>1 DEF Digits
  <2>3. InVersion("http_version_major", L, n)
    BY <1>3, <1>4, <2>1, <2>2 DEF InVersion
  <2> QED BY <1>2, <1>5, <2>3 DEF Beyond
<1>6. CASE x = "http_version_major"
  <2>1. /\ Len(l) > n + 5 /\ VersionBegins(l, n, 5) /\ b \in {"digit", "."}
        /\ \A i \in (n + 6)..Len(l) : l[i] = "digit"
    BY <1>6 DEF InVersion, NextInVersion, Digits
  <2>2. CASE b = "."
    <3>1. Len(L) > n + 6 /\ Digits(L, n + 6, Len(L) - 1)
      BY <1>1, <2>1 DEF Digits
    <3>2. InVersion("http_version_minor_start", L, n)
      BY <1>1, <1>3, <1>4, <2>1, <2>2, <3>1 DEF InVersion
    <3> QED BY <1>2, <1>6, <2>2, <3>2 DEF Beyond
  <2>3. CASE b = "digit"
    <3>1. Len(L) > n + 5 /\ \A i \in (n + 6)..Len(L) : L[i] = "digit"
      BY <1>1, <2>1, <2>3
    <3>2. InVersion("http_version_major", L, n)
      BY <1>3, <1>4, <2>1, <3>1 DEF InVersion, Digits
    <3> QED BY <1>2, <1>6, <2>3, <3>2 DEF Beyond
  <2> QED BY <2>1, <2>2, <2>3
<1>7. CASE x = "http_version_minor_start"
  <2>1. /\ Len(l) > n + 6 /\ VersionBegins(l, n, 5) /\ l[Len(l)] = "." /\ b = "digit"
        /\ \A i \in (n + 6)..(Len(l) - 1) : l[i] = "digit"
    BY <1>7 DEF InVersion, NextInVersion, Digits
  <2> DEFINE k == Len(l)
  <2>2. k \in (n + 7)..(Len(L) - 1) /\ L[k] = "."
    BY <1>1, <2>1
  <2>3. \A i \in (n + 6)..Len(L) : i # k => L[i] = "digit"
    <3> TAKE i \in (n + 6)..Len(L)
    <3>1. i # k => i = Len(L) \/ (i \in (n + 6)..(Len(l) - 1) /\ i \in 1..Len(l))
      BY <1>1
    <3> QED BY <1>1, <2>1, <3>1
  <2>4. IsVersion(L, n)
    BY <1>3, <2>1, <2>2, <2>3, IsAVersion
  <2>5. InVersion("http_version_minor", L, n)
    BY <1>4, <2>4 DEF InVersion
  <2> QED BY <1>2, <1>7, <2>5 DEF Beyond
<1>8. CASE x = "http_version_minor"
  <2>1. IsVersion(l, n) /\ b = "digit"
    BY <1>8 DEF InVersion, NextInVersion
  <2>2. PICK k \in (n + 7)..(Len(l) - 1) :
          /\ \A i \in 1..5 : l[n + i] = Protocol[i]
          /\ l[k] = "." /\ \A i \in (n + 6)..Len(l) : i # k => l[i] = "digit"
    BY <2>1, VersionIs
  <2>3. k \in (n + 7)..(Len(L) - 1) /\ L[k] = "." /\ VersionBegins(L, n, 5)
    <3>1. k \in 1..Len(l) /\ k \in (n + 7)..(Len(L) - 1) /\ n + 5 <= Len(l)
      BY <1>1
    <3>2. VersionBegins(l, n, 5)
      BY <2>2, <3>1 DEF VersionBegins
    <3> QED BY <1>1, <1>3, <2>2, <3>1, <3>2
  <2>4. \A i \in (n + 6)..Len(L) : i # k => L[i] = "digit"
    <3> TAKE i \in (n + 6)..Len(L)
    <3>1. i = Len(L) \/ (i \in (n + 6)..Len(l) /\ i \in 1..Len(l))
      BY <1>1
    <3> QED BY <1>1, <2>1, <2>2, <3>1
  <2>5. IsVersion(L, n)
    BY <2>3, <2>4, IsAVersion
  <2>6. InVersion("http_version_minor", L, n)
    BY <1>4, <2>5 DEF InVersion
  <2> QED BY <1>2, <1>8, <2>6 DEF Beyond
<1> QED BY <1>2, <1>5, <1>6, <1>7, <1>8

LEMMA VersionReads ==
  ASSUME NEW r \in Parser, NEW l \in Seq(Bytes), r.state \in VersionStates,
         InFirstLine(r, l), NEW b \in Bytes, NEW L \in Seq(Bytes), Grows(l, b, L)
  PROVE  GoesOn(Consume(r, b), L) \/ StuckFirst(Consume(r, b), L)
<1> DEFINE r1 == Consume(r, b)
           n == Space2(l)
           x == r.state
<1>1. /\ r.headers = << >> /\ UriOver(l) /\ InVersion(x, l, n) /\ MethodOver(l)
      /\ r.method = MethodIn(l) /\ r.uri = UriIn(l) /\ n \in Nat
  BY SpacesAre DEF InFirstLine, UriOver
<1>2. UriOver(L) /\ Space2(L) = n /\ MethodIn(L) = MethodIn(l) /\ UriIn(L) = UriIn(l)
  BY <1>1, MethodStays
<1>3. r1 = Follow(r, b)
  BY DEF Consume, VersionStates
<1>4. ASSUME NEW y \in VersionStates, r1 = Goto(r, y), InVersion(y, L, n)
      PROVE  GoesOn(r1, L)
  <2>1. r1.state = y /\ r1.method = r.method /\ r1.uri = r.uri /\ r1.headers = << >>
    BY <1>1, <1>4, GotoFields
  <2>2. r1.state \in VersionStates /\ InVersion(r1.state, L, Space2(L))
    BY <1>2, <1>4, <2>1
  <2>3. InFirstLine(r1, L)
    BY <1>1, <1>2, <2>1, <2>2 DEF InFirstLine, VersionStates
  <2> QED BY <2>2, <2>3 DEF GoesOn, FirstLineStates
<1>5. CASE ~NextInVersion(x, b)
  <2>1. r1 = Rejected(r)
    BY <1>3, <1>5, Follows DEF NextInVersion
  <2>2. ASSUME NEW X \in Seq(Bytes), IsRequestLine(X), Leads(L, X)
        PROVE  FALSE
    <3>1. Leads(l, X)
      BY <2>2, LeadsMore
    <3>2. IsVersion(X, Space2(X)) /\ Space2(X) = n
      BY <1>1, <2>2, <3>1, SpacesAgree DEF IsRequestLine
    <3> QED BY <1>1, <1>5, <2>2, <3>2, VersionAhead
  <2> QED BY <2>1, <2>2, RejectedState DEF StuckFirst
<1>6. CASE NextInVersion(x, b) /\ b # "CR"
  <2>1. CASE \E k \in 1..5 : x = ProtocolStates[k]
    <3>1. PICK k \in 1..5 : x = ProtocolStates[k]
      BY <2>1
    <3>2. b = Protocol[k]
      BY <1>6, <3>1 DEF NextInVersion
    <3>3. r1 = Goto(r, ProtocolStates[k + 1])
      BY <1>3, <3>1, <3>2, Follows
    <3>4. InVersion(ProtocolStates[k + 1], L, n)
      BY <1>1, <1>6, <3>1, VersionGoes
    <3>5. k + 1 \in 1..6
      OBVIOUS
    <3>6. ProtocolStates[k + 1] \in VersionStates
      BY <3>5, ProtocolStatesDiffer
    <3> QED BY <1>4, <3>3, <3>4, <3>6
  <2>2. CASE x \in {"http_version_major_start", "http_version_major", "http_version_minor_start",
                    "http_version_minor"}
    <3>1. InVersion(Beyond(x, b), L, n)
      BY <1>1, <1>6, <2>2, VersionGoes
    <3>2. r1 = Goto(r, Beyond(x, b)) /\ Beyond(x, b) \in VersionStates
      BY <1>3, <1>6, <2>2, Follows DEF NextInVersion, Beyond, VersionStates
    <3> QED BY <1>4, <3>1, <3>2
  <2> QED BY <2>1, <2>2, ProtocolStatesDiffer
<1>7. CASE NextInVersion(x, b) /\ b = "CR"
  <2>1. x = "http_version_minor"
    <3>1. \A k \in 1..5 : Protocol[k] # "CR"
      <4>1. \A k \in 1..5 : k = 1 \/ k = 2 \/ k = 3 \/ k = 4 \/ k = 5
        OBVIOUS
      <4> QED BY <4>1, ByteNames
    <3> QED BY <1>7, <3>1, ProtocolStatesDiffer DEF NextInVersion
  <2>2. r1 = Goto(r, "expecting_newline_1")
    BY <1>3, <1>7, <2>1, Follows
  <2>3. /\ r1.state = "expecting_newline_1" /\ r1.method = r.method /\ r1.uri = r.uri
        /\ r1.headers = << >>
    BY <1>1, <2>2, GotoFields
  <2>4. IsRequestLine(l)
    BY <1>1, <2>1 DEF InVersion, UriOver, MethodOver, IsRequestLine
  <2>5. L # << >> /\ Front(L) = l /\ Last(L) = "CR"
    BY <1>7, GrowsIs
  <2>6. InFirstLine(r1, L)
    BY <1>1, <2>3, <2>4, <2>5 DEF InFirstLine, VersionStates
  <2> QED BY <2>3, <2>6 DEF GoesOn, FirstLineStates
<1> QED BY <1>5, <1>6, <1>7

Clean(X) == \A i \in 1..Len(X) : X[i] \notin {"CR", "LF"}

\* Behind the CR of a line there is LF.
LEMMA EndAhead ==
  ASSUME NEW l \in Seq(Bytes), l # << >>, Last(l) = "CR", Clean(Front(l)),
         NEW b \in Bytes, NEW L \in Seq(Bytes), Grows(l, b, L),
         NEW X \in Seq(Bytes), Clean(X), Leads(L, X)
  PROVE  b = "LF"
<1>1. /\ Leads(l, X)
      /\ Len(l) = Len(X) + 1 => b = "LF"
  BY LeadsMore
<1> DEFINE q == Front(l)
<1>2. /\ Len(l) >= 1 /\ l[Len(l)] = "CR" /\ Len(q) = Len(l) - 1
      /\ \A i \in 1..(Len(l) - 1) : q[i] = l[i]
  BY FrontIs
<1>3. \A i \in 1..(Len(l) - 1) : l[i] \notin {"CR", "LF"}
  BY <1>2 DEF Clean
<1>4. ~(Len(l) <= Len(X))
  <2> SUFFICES ASSUME Len(l) <= Len(X) PROVE FALSE
    OBVIOUS
  <2>1. Len(l) \in 1..Len(l) /\ Len(l) \in 1..Len(X)
    BY <1>2
  <2>2. l[Len(l)] = X[Len(l)]
    BY <1>1, <2>1 DEF Leads
  <2> QED BY <1>2, <2>1, <2>2 DEF Clean
<1>5. ~(Len(l) = Len(X) + 2)
  <2> SUFFICES ASSUME Len(l) = Len(X) + 2 PROVE FALSE
    OBVIOUS
  <2>1. Len(X) + 1 \in 1..Len(l) /\ Len(X) + 1 \in 1..(Len(l) - 1)
    OBVIOUS
  <2>2. l[Len(X) + 1] = "CR"
    BY <1>1, <2>1 DEF Leads
  <2> QED BY <1>3, <2>1, <2>2
<1>6. Len(l) = Len(X) + 1
  BY <1>1, <1>4, <1>5 DEF Leads
<1> QED BY <1>1, <1>6

\* The last byte of the first line.
LEMMA FirstLineEnds ==
  ASSUME NEW r \in Parser, NEW l \in Seq(Bytes), r.state = "expecting_newline_1",
         InFirstLine(r, l), NEW b \in Bytes, NEW L \in Seq(Bytes), Grows(l, b, L)
  PROVE  IF b = "LF" THEN Consume(r, b) = Goto(r, "header_line_start")
         ELSE StuckFirst(Consume(r, b), L)
<1>1. l # << >> /\ Last(l) = "CR" /\ IsRequestLine(Front(l)) /\ Front(l) \in Seq(Bytes)
  BY DEF InFirstLine, Front
<1>2. Consume(r, b) = IF b = "LF" THEN Goto(r, "header_line_start") ELSE Rejected(r)
  BY Follows DEF Consume
<1>3. ASSUME b # "LF", NEW X \in Seq(Bytes), IsRequestLine(X), Leads(L, X)
      PROVE  FALSE
  BY <1>1, <1>3, NoEndInside, EndAhead DEF Clean
<1> QED BY <1>2, <1>3, RejectedState DEF StuckFirst

LEMMA FirstLineGoes ==
  ASSUME NEW r \in Parser, NEW l \in Seq(Bytes), r.state \in FirstLineStates,
         InFirstLine(r, l), NEW b \in Bytes, NEW L \in Seq(Bytes), Grows(l, b, L)
  PROVE  \/ GoesOn(Consume(r, b), L) \/ StuckFirst(Consume(r, b), L)
         \/ /\ r.state = "expecting_newline_1" /\ b = "LF"
            /\ Consume(r, b) = Goto(r, "header_line_start")
<1>1. \/ r.state \in {"method_start", "method"} \/ r.state = "uri" \/ r.state \in VersionStates
      \/ r.state = "expecting_newline_1"
  BY DEF FirstLineStates
<1> QED BY <1>1, MethodReads, UriReads, VersionReads, FirstLineEnds

\* A line feed is taken only behind the CR of a line.
LEMMA LineFeeds ==
  ASSUME NEW r \in Parser, r.state \in States,
         r.state \notin {"expecting_newline_1", "expecting_newline_2", "expecting_newline_3"}
  PROVE  Consume(r, "LF").state = "rejected"
<1>1. "LF" \in Bytes /\ ~IsToken("LF") /\ ~IsText("LF")
  BY ByteNames, Kinds
<1>2. CASE r.state \in {"method_start", "method", "uri"}
  <2>1. RequestLine(r, "LF") = Rejected(r)
    BY <1>1, <1>2 DEF RequestLine
  <2> QED BY <1>2, <2>1, RejectedState DEF Consume
<1>3. CASE r.state \in {"header_line_start", "header_lws", "header_name", "header_value"}
  <2>1. /\ LineStart(r, "LF") = Rejected(r) /\ Lws(r, "LF") = Rejected(r)
        /\ Name(r, "LF") = Rejected(r) /\ Value(r, "LF") = Rejected(r)
    BY <1>1 DEF LineStart, Folds, Lws, Name, Value
  <2> QED BY <1>3, <2>1, RejectedState DEF Consume
<1>4. CASE r.state \in VersionStates \cup {"space_before_header_value"}
  <2>1. Follow(r, "LF") = Rejected(r)
    <3>1. \A k \in 1..5 : Protocol[k] # "LF"
      <4>1. \A k \in 1..5 : k = 1 \/ k = 2 \/ k = 3 \/ k = 4 \/ k = 5
        OBVIOUS
      <4> QED BY <4>1, ByteNames
    <3> QED BY <1>4, <3>1, Follows, ProtocolStatesDiffer
  <2>2. Consume(r, "LF") = Follow(r, "LF")
    BY <1>4 DEF Consume, VersionStates
  <2> QED BY <2>1, <2>2, RejectedState
<1> QED BY <1>2, <1>3, <1>4 DEF States, VersionStates

-----------------------------------------------------------------------------
(* The lines of headers. *)

\* A header with its colon at c.
HasColon(l, c) ==
  /\ c \in 2..(Len(l) - 1) /\ \A i \in 1..(c - 1) : l[i] \in TokenBytes
  /\ l[c] = ":" /\ l[c + 1] = "SP" /\ \A i \in (c + 2)..Len(l) : l[i] \in TextBytes

LEMMA HeaderIs ==
  ASSUME NEW l \in Seq(Bytes), IsHeader(l)
  PROVE  HasColon(l, Colon(l))
<1> DEFINE c == Colon(l)
<1>1. \/ c = 0
      \/ c \in (0 + 1)..Len(l) /\ l[c] \in {":"}
  BY FirstIs DEF Colon
<1>2. c > 1 /\ c < Len(l)
  BY DEF IsHeader
<1>3. c \in 2..(Len(l) - 1) /\ l[c] = ":"
  <2> HIDE DEF c
  <2> QED BY <1>1, <1>2
<1> QED BY <1>3 DEF IsHeader, HasColon

LEMMA HeaderAt ==
  ASSUME NEW l \in Seq(Bytes), NEW c, HasColon(l, c)
  PROVE  IsHeader(l) /\ Colon(l) = c
<1>1. c \in (0 + 1)..Len(l) /\ l[c] \in {":"} /\ c > 1 /\ c < Len(l)
  BY DEF HasColon
<1>2. \A i \in (0 + 1)..(c - 1) : l[i] \notin {":"}
  <2>1. \A b \in TokenBytes : b # ":"
    BY DEF TokenBytes
  <2> QED BY <1>1, <2>1 DEF HasColon
<1>3. Colon(l) = c
  BY <1>1, <1>2, FirstAt DEF Colon
<1> QED BY <1>1, <1>3 DEF IsHeader, HasColon

\* The text of a line starts at t.
TextAt(l, t) ==
  t \in 1..Len(l) /\ l[t] \notin Blanks /\ \A i \in 1..(t - 1) : l[i] \in Blanks

AllBlank(l) == \A i \in 1..Len(l) : l[i] \in Blanks

LEMMA TextIs ==
  ASSUME NEW l \in Seq(Bytes)
  PROVE  /\ AllBlank(l) => Text(l) = << >>
         /\ \A t : TextAt(l, t) => Text(l) = SubSeq(l, t, Len(l)) /\ Text(l) # << >>
                                   /\ Text(l) \in Seq(Bytes)
         /\ AllBlank(l) \/ \E t \in 1..Len(l) : TextAt(l, t)
<1> DEFINE B == Bytes \ Blanks
           f == First(l, B, 0)
<1>0. \A i \in 1..Len(l) : l[i] \in Bytes
  OBVIOUS
<1> HIDE DEF B
<1>1. \/ f = 0 /\ \A i \in (0 + 1)..Len(l) : l[i] \notin B
      \/ /\ f \in (0 + 1)..Len(l) /\ l[f] \in B
         /\ \A i \in (0 + 1)..(f - 1) : l[i] \notin B
  BY FirstIs
<1>2. Text(l) = IF f = 0 THEN << >> ELSE SubSeq(l, f, Len(l))
  BY DEF Text, B
<1>3. AllBlank(l) => Text(l) = << >>
  <2> HIDE DEF f
  <2> QED BY <1>1, <1>2 DEF AllBlank, B
<1>4. ASSUME NEW t, TextAt(l, t)
      PROVE  Text(l) = SubSeq(l, t, Len(l)) /\ Text(l) # << >> /\ Text(l) \in Seq(Bytes)
  <2>1. t \in (0 + 1)..Len(l) /\ l[t] \in B /\ \A i \in (0 + 1)..(t - 1) : l[i] \notin B
    BY <1>0, <1>4 DEF TextAt, B
  <2>2. f = t
    BY <2>1, FirstAt
  <2>3. Text(l) = SubSeq(l, t, Len(l))
    BY <1>2, <2>1, <2>2
  <2> DEFINE q == SubSeq(l, t, Len(l))
  <2>4. q \in Seq(Bytes) /\ Len(q) >= 1
    BY <2>1
  <2> HIDE DEF q
  <2>5. q # << >>
    BY <2>4
  <2> QED BY <2>3, <2>4, <2>5 DEF q
<1>5. AllBlank(l) \/ \E t \in 1..Len(l) : TextAt(l, t)
  <2> HIDE DEF f
  <2>1. CASE f = 0
    BY <1>0, <1>1, <2>1 DEF AllBlank, B
  <2>2. CASE f # 0
    <3>1. TextAt(l, f) /\ f \in 1..Len(l)
      BY <1>0, <1>1, <2>2 DEF TextAt, B
    <3> QED BY <3>1
  <2> QED BY <2>1, <2>2
<1> QED BY <1>3, <1>4, <1>5

\* The two kinds of continuation.
LEMMA ContinuationIs ==
  ASSUME NEW l \in Seq(Bytes)
  PROVE  IsContinuation(l) <=>
           /\ l # << >> /\ l[1] \in Blanks
           /\ \/ AllBlank(l)
              \/ \E t \in 2..Len(l) : TextAt(l, t) /\ \A i \in t..Len(l) : l[i] \in TextBytes
<1>1. CASE AllBlank(l)
  <2>1. Text(l) = << >>
    BY <1>1, TextIs
  <2> QED BY <1>1, <2>1 DEF IsContinuation
<1>2. ASSUME NEW t \in 1..Len(l), TextAt(l, t)
      PROVE  IsContinuation(l) <=>
               /\ l # << >> /\ l[1] \in Blanks
               /\ \/ AllBlank(l)
                  \/ \E u \in 2..Len(l) : TextAt(l, u) /\ \A i \in u..Len(l) : l[i] \in TextBytes
  <2> DEFINE q == Text(l)
  <2>1. q = SubSeq(l, t, Len(l))
    BY <1>2, TextIs
  <2>2. DOMAIN q = 1..(Len(l) - t + 1) /\ \A i \in 1..(Len(l) - t + 1) : q[i] = l[t + i - 1]
    BY <2>1
  <2> HIDE DEF q
  <2>3. (\A i \in DOMAIN q : q[i] \in TextBytes) <=> \A i \in t..Len(l) : l[i] \in TextBytes
    <3>1. ASSUME \A i \in DOMAIN q : q[i] \in TextBytes, NEW i \in t..Len(l)
          PROVE  l[i] \in TextBytes
      <4>1. i - t + 1 \in 1..(Len(l) - t + 1) /\ t + (i - t + 1) - 1 = i
        OBVIOUS
      <4> QED BY <2>2, <3>1, <4>1
    <3>2. ASSUME \A i \in t..Len(l) : l[i] \in TextBytes, NEW i \in DOMAIN q
          PROVE  q[i] \in TextBytes
      <4>1. t + i - 1 \in t..Len(l)
        BY <2>2
      <4> QED BY <2>2, <3>2, <4>1
    <3> QED BY <3>1, <3>2
  <2>4. \A u \in 1..Len(l) : TextAt(l, u) => u = t
    BY <1>2 DEF TextAt
  <2>5. ~AllBlank(l) /\ (l[1] \in Blanks => t >= 2)
    BY <1>2 DEF TextAt, AllBlank
  <2> QED BY <1>2, <2>3, <2>4, <2>5 DEF IsContinuation, q
<1> QED BY <1>1, <1>2, TextIs

LEMMA HeaderGrows ==
  ASSUME NEW l \in Seq(Bytes), NEW c, HasColon(l, c), NEW b \in TextBytes, b \in Bytes,
         NEW L \in Seq(Bytes), Grows(l, b, L)
  PROVE  /\ HasColon(L, c)
         /\ HeaderIn(l) \in Header
         /\ HeaderIn(L) = [name |-> HeaderIn(l).name, value |-> Append(HeaderIn(l).value, b)]
<1>1. /\ c \in 2..(Len(l) - 1) /\ Len(L) = Len(l) + 1 /\ L[Len(L)] = b
      /\ L = Append(l, b) /\ Opens(l, L)
      /\ \A i \in 1..Len(l) : L[i] = l[i]
  BY GrowsIs DEF HasColon, Grows
<1>2. HasColon(L, c)
  <2>1. \A i \in (c + 2)..Len(L) : L[i] \in TextBytes
    <3> TAKE i \in (c + 2)..Len(L)
    <3>1. i = Len(L) \/ (i \in (c + 2)..Len(l) /\ i \in 1..Len(l))
      BY <1>1
    <3> QED BY <1>1, <3>1 DEF HasColon
  <2>2. \A i \in 1..(c - 1) : L[i] \in TokenBytes
    BY <1>1 DEF HasColon
  <2>3. c \in 2..(Len(L) - 1) /\ L[c] = ":" /\ L[c + 1] = "SP"
    BY <1>1 DEF HasColon
  <2> QED BY <2>1, <2>2, <2>3 DEF HasColon
<1>3. Colon(l) = c /\ Colon(L) = c
  BY <1>2, HeaderAt
<1> DEFINE n == SubSeq(l, 1, c - 1)
           v == SubSeq(l, c + 2, Len(l))
<1>4. n \in Seq(Bytes) /\ v \in Seq(Bytes)
  BY <1>1
<1>5. SubSeq(L, 1, c - 1) = n
  <2>1. 1 \in 1..(Len(l) + 1) /\ c - 1 \in (1 - 1)..Len(l)
    BY <1>1
  <2> QED BY <1>1, <2>1, PartStays
<1>6. SubSeq(L, c + 2, Len(L)) = Append(v, b)
  <2>1. c + 2 \in 1..(Len(l) + 1)
    BY <1>1
  <2>2. SubSeq(Append(l, b), c + 2, Len(l) + 1) = Append(SubSeq(l, c + 2, Len(l)), b)
    BY <2>1, PartGrows
  <2> QED BY <1>1, <2>2
<1>7. HeaderIn(l) = [name |-> n, value |-> v] /\ HeaderIn(L) = [name |-> n, value |-> Append(v, b)]
  BY <1>3, <1>5, <1>6 DEF HeaderIn
<1> HIDE DEF n, v
<1> QED BY <1>2, <1>4, <1>7 DEF Header

\* A header of which there is a name.
LEMMA HeaderStarts ==
  ASSUME NEW q \in Seq(Bytes), q # << >>, Tokens(q),
         NEW l \in Seq(Bytes), Grows(q, ":", l), NEW L \in Seq(Bytes), Grows(l, "SP", L)
  PROVE  HasColon(L, Len(l)) /\ HeaderIn(L) = Named(q)
<1>1. /\ Len(l) = Len(q) + 1 /\ l[Len(l)] = ":" /\ \A i \in 1..Len(q) : l[i] = q[i]
      /\ Len(L) = Len(l) + 1 /\ L[Len(L)] = "SP" /\ \A i \in 1..Len(l) : L[i] = l[i]
  BY DEF Grows
<1>2. Len(q) >= 1
  OBVIOUS
<1>3. Len(l) \in 2..(Len(L) - 1) /\ Len(l) - 1 = Len(q)
  BY <1>1, <1>2
<1>4. \A i \in 1..(Len(l) - 1) : L[i] = q[i]
  BY <1>1
<1>5. HasColon(L, Len(l))
  BY <1>1, <1>3, <1>4 DEF HasColon, Tokens
<1>6. Colon(L) = Len(l)
  BY <1>5, HeaderAt
<1>7. SubSeq(L, 1, Len(l) - 1) = q
  <2> DEFINE p == SubSeq(L, 1, Len(l) - 1)
  <2>1. p \in Seq(Bytes) /\ Len(p) = Len(q) /\ \A i \in 1..Len(q) : p[i] = L[i]
    BY <1>1, <1>3
  <2> HIDE DEF p
  <2>2. p = q
    BY <1>3, <1>4, <2>1
  <2> QED BY <2>2 DEF p
<1>8. SubSeq(L, Len(l) + 2, Len(L)) = << >>
  BY <1>1
<1> QED BY <1>5, <1>6, <1>7, <1>8 DEF HeaderIn, Named

LEMMA TextGrows ==
  ASSUME NEW l \in Seq(Bytes), l # << >>, l[1] \in Blanks, NEW b \in Bytes,
         NEW L \in Seq(Bytes), Grows(l, b, L)
  PROVE  /\ AllBlank(l) /\ b \in Blanks => IsContinuation(L) /\ Text(L) = << >>
         /\ AllBlank(l) /\ b \notin Blanks /\ b \in TextBytes =>
              IsContinuation(L) /\ Text(L) = <<b>>
         /\ IsContinuation(l) /\ ~AllBlank(l) /\ b \in TextBytes =>
              IsContinuation(L) /\ Text(L) = Append(Text(l), b)
<1>1. /\ Len(L) = Len(l) + 1 /\ L[Len(L)] = b /\ L = Append(l, b) /\ L # << >>
      /\ \A i \in 1..Len(l) : L[i] = l[i]
  BY GrowsIs DEF Grows
<1>2. L[1] \in Blanks /\ Len(l) >= 1
  BY <1>1
<1>3. ASSUME AllBlank(l), b \in Blanks
      PROVE  IsContinuation(L) /\ Text(L) = << >>
  <2>1. AllBlank(L)
    BY <1>1, <1>3 DEF AllBlank
  <2> QED BY <1>1, <1>2, <2>1, TextIs, ContinuationIs
<1>4. ASSUME AllBlank(l), b \notin Blanks, b \in TextBytes
      PROVE  IsContinuation(L) /\ Text(L) = <<b>>
  <2>1. Len(L) \in 2..Len(L) /\ TextAt(L, Len(L)) /\ \A i \in Len(L)..Len(L) : L[i] \in TextBytes
    BY <1>1, <1>2, <1>4 DEF AllBlank, TextAt
  <2>2. SubSeq(L, Len(L), Len(L)) = <<b>>
    <3> DEFINE q == SubSeq(L, Len(L), Len(L))
    <3>1. Len(L) \in 1..Len(L) /\ Len(L) - Len(L) + 1 = 1
      BY <1>1, <1>2
    <3>2. q \in Seq(Bytes) /\ Len(q) = 1 /\ q[1] = b
      BY <1>1, <3>1
    <3> HIDE DEF q
    <3>3. q = <<b>>
      BY <3>2
    <3> QED BY <3>3 DEF q
  <2> QED BY <1>1, <1>2, <2>1, <2>2, TextIs, ContinuationIs
<1>5. ASSUME IsContinuation(l), ~AllBlank(l), b \in TextBytes
      PROVE  IsContinuation(L) /\ Text(L) = Append(Text(l), b)
  <2>1. PICK t \in 2..Len(l) : TextAt(l, t) /\ \A i \in t..Len(l) : l[i] \in TextBytes
    BY <1>5, ContinuationIs
  <2>2. t \in 2..Len(L) /\ TextAt(L, t)
    BY <1>1, <2>1 DEF TextAt
  <2>3. \A i \in t..Len(L) : L[i] \in TextBytes
    <3> TAKE i \in t..Len(L)
    <3>1. i = Len(L) \/ (i \in t..Len(l) /\ i \in 1..Len(l))
      BY <1>1
    <3> QED BY <1>1, <1>5, <2>1, <3>1
  <2>4. SubSeq(Append(l, b), t, Len(l) + 1) = Append(SubSeq(l, t, Len(l)), b)
    <3>1. t \in 1..(Len(l) + 1)
      OBVIOUS
    <3> QED BY <3>1, PartGrows
  <2>5. Text(l) = SubSeq(l, t, Len(l)) /\ Text(L) = SubSeq(L, t, Len(L))
    BY <2>1, <2>2, TextIs
  <2> QED BY <1>1, <1>2, <2>2, <2>3, <2>4, <2>5, ContinuationIs
<1> QED BY <1>3, <1>4, <1>5

\* What lines are.
LEMMA LinesAre ==
  ASSUME NEW hs, NEW X \in Seq(Bytes), AddsTo(hs, X)
  PROVE  /\ Clean(X) /\ X # << >> /\ X[1] \in Bytes
         /\ IsHeader(X) => X[1] \in TokenBytes /\ ~IsContinuation(X)
         /\ IsContinuation(X) => X[1] \in Blanks
<1>1. \A b \in Bytes : b \in TokenBytes \cup TextBytes \cup Blanks \cup {":", "SP"}
                         => b \notin {"CR", "LF"}
  BY Kinds, ByteNames DEF Blanks
<1>2. \A b \in TokenBytes : b \notin Blanks
  BY DEF TokenBytes, Blanks
<1>3. ASSUME IsHeader(X)
      PROVE  Clean(X) /\ X # << >> /\ X[1] \in TokenBytes /\ ~IsContinuation(X)
  <2>1. PICK c : HasColon(X, c)
    BY <1>3, HeaderIs
  <2>2. c \in 2..(Len(X) - 1) /\ 1 \in 1..(c - 1)
    BY <2>1 DEF HasColon
  <2>3. X[1] \in TokenBytes /\ X # << >>
    BY <2>1, <2>2 DEF HasColon
  <2>4. ASSUME NEW i \in 1..Len(X)
        PROVE  X[i] \notin {"CR", "LF"}
    <3>1. i \in 1..(c - 1) \/ i = c \/ i = c + 1 \/ i \in (c + 2)..Len(X)
      BY <2>2
    <3>2. X[i] \in Bytes
      OBVIOUS
    <3> QED BY <1>1, <2>1, <3>1, <3>2 DEF HasColon
  <2> QED BY <1>2, <2>3, <2>4 DEF Clean, IsContinuation
<1>4. ASSUME IsContinuation(X)
      PROVE  Clean(X) /\ X # << >> /\ X[1] \in Blanks
  <2>1. X # << >> /\ X[1] \in Blanks
    BY <1>4 DEF IsContinuation
  <2>2. CASE AllBlank(X)
    BY <1>1, <2>1, <2>2 DEF AllBlank, Clean
  <2>3. CASE \E t \in 2..Len(X) : TextAt(X, t) /\ \A i \in t..Len(X) : X[i] \in TextBytes
    <3>1. PICK t \in 2..Len(X) : TextAt(X, t) /\ \A i \in t..Len(X) : X[i] \in TextBytes
      BY <2>3
    <3>2. \A i \in 1..Len(X) : i \in 1..(t - 1) \/ i \in t..Len(X)
      OBVIOUS
    <3>3. \A i \in 1..Len(X) : X[i] \in Blanks \cup TextBytes /\ X[i] \in Bytes
      BY <3>1, <3>2 DEF TextAt
    <3> QED BY <1>1, <2>1, <3>3 DEF Clean
  <2> QED BY <1>4, <2>2, <2>3, ContinuationIs
<1>5. X # << >> => X[1] \in Bytes
  OBVIOUS
<1> QED BY <1>3, <1>4, <1>5 DEF AddsTo

\* The headers with another last one.
Back(hs, h) == [hs EXCEPT ![Len(hs)] = h]

LEMMA BackIs ==
  ASSUME NEW hs \in Seq(Header), hs # << >>, NEW g \in Header, NEW h \in Header
  PROVE  /\ Back(hs, g) \in Seq(Header) /\ Back(hs, g) # << >> /\ Len(Back(hs, g)) = Len(hs)
         /\ Back(hs, g)[Len(hs)] = g
         /\ Back(Back(hs, g), h) = Back(hs, h)
         /\ Back(hs, hs[Len(hs)]) = hs
<1>1. ASSUME NEW s \in Seq(Header), s # << >>, NEW x \in Header
      PROVE  /\ Back(s, x) \in Seq(Header) /\ Len(Back(s, x)) = Len(s) /\ Back(s, x) # << >>
             /\ Back(s, x)[Len(s)] = x
             /\ \A i \in 1..Len(s) : i # Len(s) => Back(s, x)[i] = s[i]
  <2> DEFINE n == Len(s)
             q == [s EXCEPT ![n] = x]
  <2>1. n \in 1..Len(s) /\ n = Len(s)
    BY <1>1
  <2> HIDE DEF n
  <2>2. /\ q \in Seq(Header) /\ Len(q) = Len(s) /\ q[n] = x
        /\ \A i \in 1..Len(s) : i # n => q[i] = s[i]
    BY <2>1
  <2> HIDE DEF q
  <2>3. q # << >>
    BY <2>1, <2>2
  <2> QED BY <2>1, <2>2, <2>3 DEF Back, q
<1> DEFINE p == Back(hs, g)
           q == Back(p, h)
           w == Back(hs, h)
<1>2. /\ p \in Seq(Header) /\ Len(p) = Len(hs) /\ p # << >> /\ p[Len(hs)] = g
      /\ \A i \in 1..Len(hs) : i # Len(hs) => p[i] = hs[i]
  BY <1>1
<1> HIDE DEF p
<1>3. /\ q \in Seq(Header) /\ Len(q) = Len(p) /\ q[Len(p)] = h
      /\ \A i \in 1..Len(p) : i # Len(p) => q[i] = p[i]
  BY <1>1, <1>2
<1>4. /\ w \in Seq(Header) /\ Len(w) = Len(hs) /\ w[Len(hs)] = h
      /\ \A i \in 1..Len(hs) : i # Len(hs) => w[i] = hs[i]
  BY <1>1
<1> HIDE DEF q, w
<1>5. \A i \in 1..Len(hs) : q[i] = w[i]
  BY <1>2, <1>3, <1>4
<1>6. q = w
  BY <1>2, <1>3, <1>4, <1>5
<1>7. Back(hs, hs[Len(hs)]) = hs
  BY DEF Back
<1> QED BY <1>2, <1>6, <1>7 DEF p, q, w

LEMMA BackNew ==
  ASSUME NEW hs \in Seq(Header), NEW g \in Header, NEW h \in Header
  PROVE  /\ Append(hs, g) \in Seq(Header) /\ Append(hs, g) # << >>
         /\ Append(hs, g)[Len(Append(hs, g))] = g
         /\ Back(Append(hs, g), h) = Append(hs, h)
<1> DEFINE p == Append(hs, g)
           w == Append(hs, h)
           n == Len(hs) + 1
<1>1. /\ p \in Seq(Header) /\ Len(p) = n /\ DOMAIN p = 1..n /\ p[n] = g /\ n \in 1..n
      /\ w \in Seq(Header) /\ Len(w) = n /\ w[n] = h
      /\ \A i \in 1..Len(hs) : p[i] = hs[i] /\ w[i] = hs[i]
  OBVIOUS
<1> HIDE DEF p, w
<1> DEFINE q == [p EXCEPT ![n] = h]
<1>2. q \in Seq(Header) /\ Len(q) = n /\ \A i \in 1..n : q[i] = IF i = n THEN h ELSE p[i]
  BY <1>1
<1>3. \A i \in 1..n : i = n \/ i \in 1..Len(hs)
  OBVIOUS
<1> HIDE DEF q
<1>4. \A i \in 1..n : q[i] = w[i]
  BY <1>1, <1>2, <1>3
<1> HIDE DEF n
<1>5. q = w
  BY <1>1, <1>2, <1>4
<1>6. p # << >>
  BY <1>1
<1> QED BY <1>1, <1>5, <1>6 DEF Back, p, q, w

LEMMA HeaderPut ==
  ASSUME NEW g \in Header, NEW x
  PROVE  /\ [g EXCEPT !.value = x] = [name |-> g.name, value |-> x]
         /\ [g EXCEPT !.name = x] = [name |-> x, value |-> g.value]
<1>1. g = [name |-> g.name, value |-> g.value]
  BY DEF Header
<1> QED BY <1>1

LEMMA Adds ==
  ASSUME NEW r \in Parser, r.headers # << >>, NEW b \in Bytes,
         NEW g \in Header, g = r.headers[Len(r.headers)]
  PROVE  LET r1 == AddToValue(r, b)
         IN /\ r1.state = "header_value" /\ r1.method = r.method /\ r1.uri = r.uri
            /\ r1.headers = Back(r.headers, [name |-> g.name, value |-> Append(g.value, b)])
<1> DEFINE n == Len(r.headers)
           q == [r.headers EXCEPT ![n].value = Append(@, b)]
           h == [name |-> g.name, value |-> Append(g.value, b)]
<1>1. [g EXCEPT !.value = Append(g.value, b)] = h
  BY HeaderPut
<1>2. r.headers \in Seq(Header) /\ n \in DOMAIN r.headers
  BY FieldTypes
<1>3. q = [r.headers EXCEPT ![n] = [r.headers[n] EXCEPT !.value = Append(r.headers[n].value, b)]]
  BY <1>2
<1>4. q = Back(r.headers, h)
  BY <1>1, <1>3 DEF Back
<1>5. AddToValue(r, b) = [r EXCEPT !.state = "header_value", !.headers = q]
  BY DEF AddToValue
<1> HIDE DEF q
<1> DEFINE r1 == [r EXCEPT !.state = "header_value", !.headers = q]
<1>6. r1.state = "header_value" /\ r1.method = r.method /\ r1.uri = r.uri /\ r1.headers = q
  BY DEF Parser
<1> QED BY <1>4, <1>5, <1>6

LEMMA AddsToName ==
  ASSUME NEW r \in Parser, r.headers # << >>, NEW b \in Bytes,
         NEW g \in Header, g = r.headers[Len(r.headers)]
  PROVE  LET r1 == [r EXCEPT !.headers[Len(r.headers)].name = Append(@, b)]
         IN /\ r1.state = r.state /\ r1.method = r.method /\ r1.uri = r.uri
            /\ r1.headers = Back(r.headers, [name |-> Append(g.name, b), value |-> g.value])
<1> DEFINE n == Len(r.headers)
           q == [r.headers EXCEPT ![n].name = Append(@, b)]
           h == [name |-> Append(g.name, b), value |-> g.value]
<1>1. [g EXCEPT !.name = Append(g.name, b)] = h
  BY HeaderPut
<1>2. r.headers \in Seq(Header) /\ n \in DOMAIN r.headers
  BY FieldTypes
<1>3. q = [r.headers EXCEPT ![n] = [r.headers[n] EXCEPT !.name = Append(r.headers[n].name, b)]]
  BY <1>2
<1>4. q = Back(r.headers, h)
  BY <1>1, <1>3 DEF Back
<1> HIDE DEF q
<1> DEFINE r1 == [r EXCEPT !.headers = q]
<1>5. r1.state = r.state /\ r1.method = r.method /\ r1.uri = r.uri /\ r1.headers = q
  BY DEF Parser
<1>6. [r EXCEPT !.headers[Len(r.headers)].name = Append(@, b)] = r1
  BY DEF q
<1> QED BY <1>4, <1>5, <1>6

\* What a line makes of the headers.
LEMMA WithHeader ==
  ASSUME NEW hs, NEW l \in Seq(Bytes), IsHeader(l)
  PROVE  WithLine(hs, l) = Append(hs, HeaderIn(l))
<1>1. l # << >> /\ ~IsContinuation(l)
  BY LinesAre DEF AddsTo
<1> QED BY <1>1 DEF WithLine

LEMMA WithContinuation ==
  ASSUME NEW hs \in Seq(Header), hs # << >>, NEW l \in Seq(Bytes), IsContinuation(l)
  PROVE  LET g == hs[Len(hs)]
         IN /\ g \in Header
            /\ WithLine(hs, l) = Back(hs, [name |-> g.name, value |-> g.value \o Text(l)])
<1> DEFINE n == Len(hs)
           g == hs[n]
           h == [name |-> g.name, value |-> g.value \o Text(l)]
<1>1. l # << >>
  BY DEF IsContinuation
<1>2. n \in DOMAIN hs /\ g \in Header
  OBVIOUS
<1>3. [g EXCEPT !.value = g.value \o Text(l)] = h
  BY <1>2, HeaderPut
<1>4. WithLine(hs, l) = [hs EXCEPT ![n].value = @ \o Text(l)]
  BY <1>1 DEF WithLine
<1>5. [hs EXCEPT ![n].value = @ \o Text(l)]
        = [hs EXCEPT ![n] = [g EXCEPT !.value = g.value \o Text(l)]]
  BY <1>2
<1> QED BY <1>2, <1>3, <1>4, <1>5 DEF Back

\* How a header's line goes on, and how it cannot.
HeaderGoes(q, r, L, hs) ==
  q.state \in HeaderStates /\ q.method = r.method /\ q.uri = r.uri /\ InHeaderLine(q, L, hs)

StuckHeader(q, L, hs) ==
  /\ q.state = "rejected"
  /\ \A X \in Seq(Bytes) : X = << >> \/ AddsTo(hs, X) => ~Leads(L, X)

LEMMA LeadsFirst ==
  ASSUME NEW L \in Seq(Bytes), L # << >>, NEW X \in Seq(Bytes), Leads(L, X)
  PROVE  /\ X = << >> => L[1] = "CR"
         /\ X # << >> => L[1] = X[1]
<1>1. 1 \in 1..Len(L) /\ (X # << >> <=> Len(X) >= 1) /\ (X = << >> <=> Len(X) = 0)
  OBVIOUS
<1> QED BY <1>1 DEF Leads

LEMMA LineStartReads ==
  ASSUME NEW r \in Parser, NEW l \in Seq(Bytes), NEW hs \in Seq(Header),
         r.state = "header_line_start", InHeaderLine(r, l, hs),
         NEW b \in Bytes, NEW L \in Seq(Bytes), Grows(l, b, L)
  PROVE  HeaderGoes(Consume(r, b), r, L, hs) \/ StuckHeader(Consume(r, b), L, hs)
<1> DEFINE r1 == Consume(r, b)
<1>1. l = << >> /\ r.headers = hs
  BY DEF InHeaderLine
<1>2. L = <<b>> /\ Len(L) = 1 /\ L[1] = b /\ L # << >>
  <2>1. L = Append(<< >>, b)
    BY <1>1, GrowsIs
  <2> QED BY <2>1
<1>3. r1 = LineStart(r, b)
  BY DEF Consume
<1>4. IsToken(b) => b \notin {"CR", "SP", "TAB"}
  BY Kinds
<1>5. CASE b = "CR"
  <2>1. r1 = Goto(r, "expecting_newline_3")
    BY <1>3, <1>5 DEF LineStart, Folds
  <2>2. /\ r1.state = "expecting_newline_3" /\ r1.headers = hs
        /\ r1.method = r.method /\ r1.uri = r.uri
    BY <1>1, <2>1, GotoFields
  <2> QED BY <1>2, <1>5, <2>2 DEF HeaderGoes, HeaderStates, InHeaderLine
<1>6. CASE b # "CR" /\ Folds(r, b)
  <2>1. r1 = Goto(r, "header_lws") /\ hs # << >> /\ b \in Blanks
    BY <1>1, <1>3, <1>6 DEF LineStart, Folds, Blanks
  <2>2. r1.state = "header_lws" /\ r1.headers = hs /\ r1.method = r.method /\ r1.uri = r.uri
    BY <1>1, <2>1, GotoFields
  <2>3. AllBlank(L)
    BY <1>2, <2>1 DEF AllBlank
  <2>4. IsContinuation(L) /\ Text(L) = << >>
    BY <1>2, <2>1, <2>3, TextIs, ContinuationIs
  <2>5. WithLine(hs, L) = hs
    <3> DEFINE g == hs[Len(hs)]
    <3>1. g \in Header /\ WithLine(hs, L) = Back(hs, [name |-> g.name, value |-> g.value \o << >>])
      BY <2>1, <2>4, WithContinuation
    <3> HIDE DEF g
    <3>2. g.value \o << >> = g.value
      <4>1. g.value \in Seq(Bytes)
        BY <3>1 DEF Header
      <4> QED BY <4>1
    <3>3. [name |-> g.name, value |-> g.value \o << >>] = g
      BY <3>1, <3>2 DEF Header
    <3>4. WithLine(hs, L) = Back(hs, g)
      BY <3>1, <3>3
    <3>5. Back(hs, g) = hs
      <4>1. Back(hs, hs[Len(hs)]) = hs
        BY <2>1, <3>1, BackIs
      <4> QED BY <4>1 DEF g
    <3> QED BY <3>4, <3>5
  <2> QED BY <2>1, <2>2, <2>4, <2>5 DEF HeaderGoes, HeaderStates, InHeaderLine
<1>7. CASE b # "CR" /\ ~Folds(r, b) /\ IsToken(b)
  <2> DEFINE q == Append(r.headers, [name |-> <<b>>, value |-> << >>])
  <2>1. r1 = [r EXCEPT !.state = "header_name", !.headers = q]
    BY <1>3, <1>7 DEF LineStart
  <2>2. q = Append(hs, Named(L))
    BY <1>1, <1>2 DEF Named
  <2> HIDE DEF q
  <2>3. r1.state = "header_name" /\ r1.headers = q /\ r1.method = r.method /\ r1.uri = r.uri
    BY <2>1 DEF Parser
  <2>4. Tokens(L)
    BY <1>2, <1>7, Kinds DEF Tokens
  <2> QED BY <1>2, <2>2, <2>3, <2>4 DEF HeaderGoes, HeaderStates, InHeaderLine
<1>8. CASE b # "CR" /\ ~Folds(r, b) /\ ~IsToken(b)
  <2>1. r1 = Rejected(r)
    BY <1>3, <1>8 DEF LineStart
  <2>2. ASSUME NEW X \in Seq(Bytes), X = << >> \/ AddsTo(hs, X), Leads(L, X)
        PROVE  FALSE
    <3>1. X # << >> /\ b = X[1]
      BY <1>2, <1>8, <2>2, LeadsFirst
    <3>2. AddsTo(hs, X)
      BY <2>2, <3>1
    <3>3. CASE IsHeader(X)
      <4>1. b \in TokenBytes
        BY <3>1, <3>2, <3>3, LinesAre
      <4> QED BY <1>8, <4>1, Kinds
    <3>4. CASE hs # << >> /\ IsContinuation(X)
      <4>1. b \in Blanks
        BY <3>1, <3>2, <3>4, LinesAre
      <4> QED BY <1>1, <1>8, <3>4, <4>1 DEF Folds, Blanks
    <3> QED BY <3>2, <3>3, <3>4 DEF AddsTo
  <2> QED BY <2>1, <2>2, RejectedState DEF StuckHeader
<1> QED BY <1>5, <1>6, <1>7, <1>8

LEMMA NameReads ==
  ASSUME NEW r \in Parser, NEW l \in Seq(Bytes), NEW hs \in Seq(Header),
         r.state = "header_name", InHeaderLine(r, l, hs),
         NEW b \in Bytes, NEW L \in Seq(Bytes), Grows(l, b, L)
  PROVE  HeaderGoes(Consume(r, b), r, L, hs) \/ StuckHeader(Consume(r, b), L, hs)
<1> DEFINE r1 == Consume(r, b)
<1>1. l # << >> /\ Tokens(l) /\ r.headers = Append(hs, Named(l))
  BY DEF InHeaderLine
<1>2. /\ L # << >> /\ Len(L) = Len(l) + 1 /\ L[Len(L)] = b /\ L = Append(l, b)
      /\ Front(L) = l /\ Last(L) = b /\ \A i \in 1..Len(l) : L[i] = l[i]
  BY GrowsIs DEF Grows
<1>3. r1 = Name(r, b)
  BY DEF Consume
<1>4. IsToken(b) => b # ":"
  BY Kinds
<1>5. CASE b = ":"
  <2>1. r1 = Goto(r, "space_before_header_value")
    BY <1>3, <1>4, <1>5 DEF Name
  <2>2. /\ r1.state = "space_before_header_value" /\ r1.headers = r.headers
        /\ r1.method = r.method /\ r1.uri = r.uri
    BY <2>1, GotoFields
  <2> QED BY <1>1, <1>2, <1>5, <2>2 DEF HeaderGoes, HeaderStates, InHeaderLine
<1>6. CASE b # ":" /\ IsToken(b)
  <2>1. r1 = [r EXCEPT !.headers[Len(r.headers)].name = Append(@, b)]
    BY <1>3, <1>6 DEF Name
  <2> DEFINE g == Named(l)
  <2>2. g \in Header /\ g.name = l /\ g.value = << >> /\ Named(L) \in Header
    BY DEF Named, Header
  <2>3. Named(L) = [name |-> Append(g.name, b), value |-> g.value]
    BY <1>2, <2>2 DEF Named
  <2>4. r.headers = Append(hs, g)
    BY <1>1
  <2> HIDE DEF g
  <2>5. /\ r.headers # << >> /\ g = r.headers[Len(r.headers)]
        /\ Back(r.headers, Named(L)) = Append(hs, Named(L))
    <3> DEFINE h == Named(L)
    <3>1. h \in Header
      BY <2>2
    <3> HIDE DEF h
    <3>2. /\ Append(hs, g) # << >> /\ Append(hs, g)[Len(Append(hs, g))] = g
          /\ Back(Append(hs, g), h) = Append(hs, h)
      BY <2>2, <3>1, BackNew
    <3> QED BY <2>4, <3>2, Zenon DEF h
  <2>6. /\ r1.state = "header_name" /\ r1.method = r.method /\ r1.uri = r.uri
        /\ r1.headers = Back(r.headers, [name |-> Append(g.name, b), value |-> g.value])
    BY <2>1, <2>2, <2>5, AddsToName
  <2>7. Tokens(L)
    BY <1>1, <1>2, <1>6, Kinds DEF Tokens
  <2>8. r1.headers = Append(hs, Named(L))
    BY <2>3, <2>5, <2>6
  <2> QED BY <1>2, <2>6, <2>7, <2>8 DEF HeaderGoes, HeaderStates, InHeaderLine
<1>7. CASE b # ":" /\ ~IsToken(b)
  <2>1. r1 = Rejected(r)
    BY <1>3, <1>7 DEF Name
  <2>2. ASSUME NEW X \in Seq(Bytes), X = << >> \/ AddsTo(hs, X), Leads(L, X)
        PROVE  FALSE
    <3>1. L[1] \in TokenBytes
      BY <1>1, <1>2 DEF Tokens
    <3>2. L[1] # "CR" /\ L[1] \notin Blanks
      BY <3>1 DEF TokenBytes, Blanks
    <3>3. IsHeader(X)
      BY <1>2, <2>2, <3>2, LeadsFirst, LinesAre DEF AddsTo
    <3> DEFINE c == Colon(X)
    <3>4. HasColon(X, c)
      BY <3>3, HeaderIs
    <3> HIDE DEF c
    <3>5. c \in 2..(Len(X) - 1) /\ X[c] = ":"
      BY <3>4 DEF HasColon
    <3>6. Leads(l, X) /\ (Len(l) < Len(X) => b = X[Len(l) + 1])
      BY <2>2, LeadsMore
    <3>7. ~(c <= Len(l))
      <4> SUFFICES ASSUME c <= Len(l) PROVE FALSE
        OBVIOUS
      <4>1. c \in 1..Len(l) /\ c <= Len(X) /\ ~(c = Len(X) + 1) /\ ~(c = Len(X) + 2)
        BY <3>5
      <4>2. l[c] = ":" /\ l[c] \in TokenBytes
        BY <1>1, <3>5, <3>6, <4>1 DEF Leads, Tokens
      <4> QED BY <4>2 DEF TokenBytes
    <3>8. Len(l) < Len(X) /\ (Len(l) + 1 = c \/ Len(l) + 1 \in 1..(c - 1))
      BY <3>5, <3>7
    <3>9. b = ":" \/ b \in TokenBytes
      BY <3>4, <3>5, <3>6, <3>8 DEF HasColon
    <3> QED BY <1>7, <3>9, Kinds
  <2> QED BY <2>1, <2>2, RejectedState DEF StuckHeader
<1> QED BY <1>5, <1>6, <1>7

\* Inside a line its next byte is the one that is read.
LEMMA Inside ==
  ASSUME NEW l \in Seq(Bytes), l # << >>, Clean(l), NEW b \in Bytes, b # "CR",
         NEW L \in Seq(Bytes), Grows(l, b, L), NEW X \in Seq(Bytes), Leads(L, X)
  PROVE  /\ X # << >> /\ X[1] = l[1] /\ Len(l) < Len(X) /\ b = X[Len(l) + 1]
         /\ \A i \in 1..Len(l) : l[i] = X[i]
<1>1. /\ Leads(l, X)
      /\ \/ Len(l) < Len(X) /\ b = X[Len(l) + 1]
         \/ Len(l) = Len(X) + 1
  BY LeadsMore
<1>2. ~(Len(l) = Len(X) + 1)
  <2> SUFFICES ASSUME Len(l) = Len(X) + 1 PROVE FALSE
    OBVIOUS
  <2>1. Len(l) \in 1..Len(l) /\ ~(Len(l) <= Len(X))
    OBVIOUS
  <2>2. l[Len(l)] \in {"CR", "LF"}
    BY <1>1, <2>1 DEF Leads
  <2> QED BY <2>1, <2>2 DEF Clean
<1>3. ASSUME NEW i \in 1..Len(l)
      PROVE  l[i] = X[i]
  <2>1. i <= Len(X) /\ ~(i = Len(X) + 1) /\ ~(i = Len(X) + 2)
    BY <1>1, <1>2
  <2> QED BY <1>1, <2>1 DEF Leads
<1>4. Len(l) >= 1 /\ X # << >>
  BY <1>1, <1>2
<1> QED BY <1>1, <1>2, <1>3, <1>4

LEMMA SpaceReads ==
  ASSUME NEW r \in Parser, NEW l \in Seq(Bytes), NEW hs \in Seq(Header),
         r.state = "space_before_header_value", InHeaderLine(r, l, hs),
         NEW b \in Bytes, NEW L \in Seq(Bytes), Grows(l, b, L)
  PROVE  HeaderGoes(Consume(r, b), r, L, hs) \/ StuckHeader(Consume(r, b), L, hs)
<1> DEFINE r1 == Consume(r, b)
           q == Front(l)
<1>1. /\ l # << >> /\ Last(l) = ":" /\ q # << >> /\ Tokens(q)
      /\ r.headers = Append(hs, Named(q))
  BY DEF InHeaderLine
<1>2. /\ q \in Seq(Bytes) /\ Grows(q, ":", l) /\ Len(l) >= 1 /\ l[Len(l)] = ":"
      /\ Len(q) = Len(l) - 1 /\ \A i \in 1..(Len(l) - 1) : q[i] = l[i]
  BY <1>1, FrontIs
<1> HIDE DEF q
<1>3. r1 = IF b = "SP" THEN Goto(r, "header_value") ELSE Rejected(r)
  BY Follows DEF Consume
<1>4. CASE b = "SP"
  <2>1. HasColon(L, Len(l)) /\ HeaderIn(L) = Named(q)
    BY <1>1, <1>2, <1>4, HeaderStarts
  <2>2. IsHeader(L)
    BY <2>1, HeaderAt
  <2>3. WithLine(hs, L) = Append(hs, Named(q))
    BY <2>1, <2>2, WithHeader
  <2>4. /\ r1.state = "header_value" /\ r1.headers = r.headers
        /\ r1.method = r.method /\ r1.uri = r.uri
    BY <1>3, <1>4, GotoFields
  <2> QED BY <1>1, <2>2, <2>3, <2>4 DEF HeaderGoes, HeaderStates, InHeaderLine
<1>5. CASE b # "SP"
  <2>1. r1 = Rejected(r)
    BY <1>3, <1>5
  <2>2. ASSUME NEW X \in Seq(Bytes), X = << >> \/ AddsTo(hs, X), Leads(L, X)
        PROVE  FALSE
    <3>1. 1 \in 1..Len(q) /\ 1 \in 1..Len(l) /\ L # << >> /\ L[1] = q[1] /\ q[1] \in TokenBytes
      BY <1>1, <1>2 DEF Grows, Tokens
    <3>2. L[1] # "CR" /\ L[1] \notin Blanks
      BY <3>1 DEF TokenBytes, Blanks
    <3>3. IsHeader(X)
      BY <2>2, <3>1, <3>2, LeadsFirst, LinesAre DEF AddsTo
    <3> DEFINE c == Colon(X)
    <3>4. HasColon(X, c)
      BY <3>3, HeaderIs
    <3> HIDE DEF c
    <3>5. /\ c \in 2..(Len(X) - 1) /\ X[c] = ":" /\ X[c + 1] = "SP"
          /\ \A i \in 1..(c - 1) : X[i] \in TokenBytes
      BY <3>4 DEF HasColon
    <3>6. Leads(l, X) /\ (Len(l) < Len(X) => b = X[Len(l) + 1])
      BY <2>2, LeadsMore
    <3>7. ~(c < Len(l))
      <4> SUFFICES ASSUME c < Len(l) PROVE FALSE
        OBVIOUS
      <4>1. /\ c \in 1..Len(l) /\ c \in 1..Len(q) /\ c <= Len(X)
            /\ ~(c = Len(X) + 1) /\ ~(c = Len(X) + 2)
        BY <1>2, <3>5
      <4>2. l[c] = ":" /\ l[c] \in TokenBytes
        BY <1>1, <1>2, <3>5, <3>6, <4>1 DEF Leads, Tokens
      <4> QED BY <4>2 DEF TokenBytes
    <3>8. ~(c > Len(l))
      <4> SUFFICES ASSUME c > Len(l) PROVE FALSE
        OBVIOUS
      <4>1. /\ Len(l) \in 1..Len(l) /\ Len(l) \in 1..(c - 1) /\ Len(l) <= Len(X)
            /\ ~(Len(l) = Len(X) + 1) /\ ~(Len(l) = Len(X) + 2)
        BY <1>2, <3>5
      <4>2. l[Len(l)] \in TokenBytes
        BY <3>5, <3>6, <4>1 DEF Leads
      <4> QED BY <1>2, <4>2 DEF TokenBytes
    <3>9. c = Len(l)
      BY <3>5, <3>7, <3>8
    <3> QED BY <1>5, <3>5, <3>6, <3>9
  <2> QED BY <2>1, <2>2, RejectedState DEF StuckHeader
<1> QED BY <1>4, <1>5

\* A line that ends.
LEMMA LineCloses ==
  ASSUME NEW r \in Parser, NEW l \in Seq(Bytes), NEW hs \in Seq(Header), AddsTo(hs, l),
         r.headers = WithLine(hs, l), NEW L \in Seq(Bytes), Grows(l, "CR", L)
  PROVE  HeaderGoes(Goto(r, "expecting_newline_2"), r, L, hs)
<1> DEFINE r1 == Goto(r, "expecting_newline_2")
<1>1. /\ r1.state = "expecting_newline_2" /\ r1.headers = r.headers
      /\ r1.method = r.method /\ r1.uri = r.uri
  BY GotoFields
<1>2. L # << >> /\ Front(L) = l /\ Last(L) = "CR"
  BY ByteNames, GrowsIs
<1> QED BY <1>1, <1>2 DEF HeaderGoes, HeaderStates, InHeaderLine

\* A byte of a header's value is added to it.
LEMMA ValueGrows ==
  ASSUME NEW r \in Parser, NEW l \in Seq(Bytes), NEW hs \in Seq(Header),
         r.headers = WithLine(hs, l), NEW b \in TextBytes, b \in Bytes,
         NEW L \in Seq(Bytes), Grows(l, b, L), IsHeader(l)
  PROVE  HeaderGoes(AddToValue(r, b), r, L, hs)
<1> DEFINE r1 == AddToValue(r, b)
           g == HeaderIn(l)
           c == Colon(l)
<1>1. HasColon(l, c)
  BY HeaderIs
<1> HIDE DEF c
<1>2. /\ HasColon(L, c) /\ g \in Header
      /\ HeaderIn(L) = [name |-> g.name, value |-> Append(g.value, b)]
  BY <1>1, HeaderGrows
<1>3. IsHeader(L)
  BY <1>2, HeaderAt
<1>4. r.headers = Append(hs, g) /\ WithLine(hs, L) = Append(hs, HeaderIn(L))
  BY <1>3, WithHeader
<1> HIDE DEF g
<1>5. HeaderIn(L) \in Header
  <2>1. g.name \in Seq(Bytes) /\ Append(g.value, b) \in Seq(Bytes)
    BY <1>2 DEF Header
  <2> QED BY <1>2, <2>1 DEF Header
<1> DEFINE k == HeaderIn(L)
<1>6. r.headers # << >> /\ g = r.headers[Len(r.headers)] /\ Back(r.headers, k) = Append(hs, k)
  <2>1. k \in Header
    BY <1>5
  <2> HIDE DEF k
  <2>2. /\ Append(hs, g) # << >> /\ Append(hs, g)[Len(Append(hs, g))] = g
        /\ Back(Append(hs, g), k) = Append(hs, k)
    BY <1>2, <2>1, BackNew
  <2> QED BY <1>4, <2>2, Zenon
<1>7. /\ r1.state = "header_value" /\ r1.method = r.method /\ r1.uri = r.uri
      /\ r1.headers = Back(r.headers, [name |-> g.name, value |-> Append(g.value, b)])
  BY <1>2, <1>6, Adds
<1>8. r1.headers = WithLine(hs, L)
  BY <1>2, <1>4, <1>6, <1>7
<1> QED BY <1>3, <1>7, <1>8 DEF HeaderGoes, HeaderStates, InHeaderLine

LEMMA JoinedMore ==
  ASSUME NEW v \in Seq(Bytes), NEW T \in Seq(Bytes), NEW b \in Bytes
  PROVE  Append(v \o T, b) = v \o Append(T, b) /\ Append(T, b) # << >>
<1> DEFINE q == v \o T
           U == Append(T, b)
           x == Append(q, b)
           y == v \o U
           n == Len(v) + Len(T)
<1>1. /\ q \in Seq(Bytes) /\ Len(q) = n
      /\ \A i \in 1..n : q[i] = IF i <= Len(v) THEN v[i] ELSE T[i - Len(v)]
  BY Joined
<1>2. U \in Seq(Bytes) /\ Len(U) = Len(T) + 1 /\ U[Len(U)] = b /\ \A i \in 1..Len(T) : U[i] = T[i]
  OBVIOUS
<1> HIDE DEF q, U
<1>3. x \in Seq(Bytes) /\ Len(x) = n + 1 /\ x[n + 1] = b /\ \A i \in 1..n : x[i] = q[i]
  <2>1. x \in Seq(Bytes) /\ Len(x) = Len(q) + 1 /\ x[Len(x)] = b /\ \A i \in 1..Len(q) : x[i] = q[i]
    BY <1>1, Grown DEF Grows
  <2> QED BY <1>1, <2>1
<1>4. /\ y \in Seq(Bytes) /\ Len(y) = n + 1
      /\ \A i \in 1..(n + 1) : y[i] = IF i <= Len(v) THEN v[i] ELSE U[i - Len(v)]
  <2>1. /\ y \in Seq(Bytes) /\ Len(y) = Len(v) + Len(U)
        /\ \A i \in 1..(Len(v) + Len(U)) : y[i] = IF i <= Len(v) THEN v[i] ELSE U[i - Len(v)]
    BY <1>2, Joined
  <2>2. Len(v) + Len(U) = n + 1
    BY <1>2
  <2> HIDE DEF y
  <2> QED BY <2>1, <2>2
<1> HIDE DEF x, y
<1>5. \A i \in 1..(n + 1) : x[i] = y[i]
  <2> TAKE i \in 1..(n + 1)
  <2>1. CASE i <= Len(v)
    <3>1. i \in 1..n
      BY <2>1
    <3> QED BY <1>1, <1>3, <1>4, <2>1, <3>1
  <2>2. CASE i > Len(v) /\ i # n + 1
    <3>1. i - Len(v) \in 1..Len(T) /\ i \in 1..n /\ ~(i <= Len(v))
      BY <2>2
    <3> QED BY <1>1, <1>2, <1>3, <1>4, <3>1
  <2>3. CASE i = n + 1
    <3>1. i - Len(v) = Len(U) /\ ~(i <= Len(v))
      BY <1>2, <2>3
    <3> QED BY <1>2, <1>3, <1>4, <2>3, <3>1
  <2> QED BY <2>1, <2>2, <2>3
<1>6. x = y
  BY <1>3, <1>4, <1>5
<1>7. U # << >>
  BY <1>2
<1> QED BY <1>6, <1>7 DEF x, y, q, U

\* A byte of a continuation is added to the last header's value.
LEMMA ContinuationGrows ==
  ASSUME NEW r \in Parser, NEW l \in Seq(Bytes), NEW hs \in Seq(Header), hs # << >>,
         r.headers = WithLine(hs, l), IsContinuation(l), Text(l) \in Seq(Bytes), NEW b \in Bytes,
         NEW L \in Seq(Bytes), IsContinuation(L), Text(L) = Append(Text(l), b)
  PROVE  HeaderGoes(AddToValue(r, b), r, L, hs)
<1> DEFINE r1 == AddToValue(r, b)
           g == hs[Len(hs)]
           T == Text(l)
           h == [name |-> g.name, value |-> g.value \o T]
           k == [name |-> g.name, value |-> g.value \o Append(T, b)]
<1>1. g \in Header /\ r.headers = Back(hs, h)
  BY WithContinuation
<1>2. WithLine(hs, L) = Back(hs, k)
  BY WithContinuation
<1> HIDE DEF g, T
<1>3. g.value \in Seq(Bytes) /\ g.name \in Seq(Bytes) /\ T \in Seq(Bytes)
  BY <1>1 DEF Header, T
<1>4. Append(g.value \o T, b) = g.value \o Append(T, b)
  BY <1>3, JoinedMore
<1>5. h \in Header /\ k \in Header
  <2>1. g.value \o T \in Seq(Bytes) /\ g.value \o Append(T, b) \in Seq(Bytes)
    BY <1>3
  <2> QED BY <1>3, <2>1 DEF Header
<1>6. /\ h.name = g.name /\ h.value = g.value \o T
      /\ k = [name |-> h.name, value |-> Append(h.value, b)]
  BY <1>4
<1> HIDE DEF h, k
<1>7. r.headers # << >> /\ h = r.headers[Len(r.headers)] /\ Back(r.headers, k) = Back(hs, k)
  BY <1>1, <1>5, BackIs
<1>8. /\ r1.state = "header_value" /\ r1.method = r.method /\ r1.uri = r.uri
      /\ r1.headers = Back(r.headers, [name |-> h.name, value |-> Append(h.value, b)])
  BY <1>5, <1>7, Adds
<1>9. r1.headers = WithLine(hs, L)
  BY <1>2, <1>6, <1>7, <1>8
<1>10. Text(L) # << >>
  <2>1. Append(T, b) # << >>
    BY <1>3, JoinedMore
  <2> QED BY <2>1 DEF T
<1> QED BY <1>8, <1>9, <1>10 DEF HeaderGoes, HeaderStates, InHeaderLine

LEMMA ValueReads ==
  ASSUME NEW r \in Parser, NEW l \in Seq(Bytes), NEW hs \in Seq(Header),
         r.state = "header_value", InHeaderLine(r, l, hs),
         NEW b \in Bytes, NEW L \in Seq(Bytes), Grows(l, b, L)
  PROVE  HeaderGoes(Consume(r, b), r, L, hs) \/ StuckHeader(Consume(r, b), L, hs)
<1>1. /\ IsHeader(l) \/ (hs # << >> /\ IsContinuation(l) /\ Text(l) # << >>)
      /\ r.headers = WithLine(hs, l)
  BY DEF InHeaderLine
<1>2. AddsTo(hs, l) /\ Clean(l) /\ l # << >>
  BY <1>1, LinesAre DEF AddsTo
<1>3. Consume(r, b) = Value(r, b)
  BY DEF Consume
<1>4. (IsText(b) <=> b \in TextBytes) /\ (b \in TextBytes => b # "CR")
  BY Kinds
<1>5. CASE b = "CR"
  <2>1. Consume(r, b) = Goto(r, "expecting_newline_2")
    BY <1>3, <1>4, <1>5 DEF Value
  <2> QED BY <1>1, <1>2, <1>5, <2>1, LineCloses
<1>6. CASE b \in TextBytes
  <2>1. Consume(r, b) = AddToValue(r, b)
    BY <1>3, <1>4, <1>6 DEF Value
  <2>2. CASE IsHeader(l)
    BY <1>1, <1>6, <2>1, <2>2, ValueGrows
  <2>3. CASE hs # << >> /\ IsContinuation(l) /\ Text(l) # << >>
    <3>1. l[1] \in Blanks /\ ~AllBlank(l) /\ Text(l) \in Seq(Bytes)
      BY <2>3, TextIs DEF IsContinuation
    <3>2. IsContinuation(L) /\ Text(L) = Append(Text(l), b)
      BY <1>2, <1>6, <2>3, <3>1, TextGrows
    <3> QED BY <1>1, <2>1, <2>3, <3>1, <3>2, ContinuationGrows
  <2> QED BY <1>1, <2>2, <2>3
<1>7. CASE b # "CR" /\ b \notin TextBytes
  <2>1. Consume(r, b) = Rejected(r)
    BY <1>3, <1>4, <1>7 DEF Value
  <2>2. ASSUME NEW X \in Seq(Bytes), X = << >> \/ AddsTo(hs, X), Leads(L, X)
        PROVE  FALSE
    <3>1. /\ X # << >> /\ X[1] = l[1] /\ Len(l) < Len(X) /\ b = X[Len(l) + 1]
          /\ \A i \in 1..Len(l) : l[i] = X[i]
      BY <1>2, <1>7, <2>2, Inside
    <3>2. AddsTo(hs, X) /\ Len(l) + 1 \in 1..Len(X)
      BY <2>2, <3>1
    <3>3. ASSUME IsHeader(l), IsHeader(X)
          PROVE  FALSE
      <4>1. PICK c : HasColon(l, c)
        BY <3>3, HeaderIs
      <4>2. PICK d : HasColon(X, d)
        BY <3>3, HeaderIs
      <4>3. /\ c \in 2..(Len(l) - 1) /\ l[c] = ":" /\ \A i \in 1..(c - 1) : l[i] \in TokenBytes
            /\ d \in 2..(Len(X) - 1) /\ X[d] = ":" /\ \A i \in 1..(d - 1) : X[i] \in TokenBytes
            /\ \A i \in (d + 2)..Len(X) : X[i] \in TextBytes
        BY <4>1, <4>2 DEF HasColon
      <4>4. ":" \notin TokenBytes
        BY DEF TokenBytes
      <4>5. ~(c < d)
        <5> SUFFICES ASSUME c < d PROVE FALSE
          OBVIOUS
        <5>1. c \in 1..(d - 1) /\ c \in 1..Len(l)
          BY <4>3
        <5> QED BY <3>1, <4>3, <4>4, <5>1
      <4>6. Len(l) + 1 \in (d + 2)..Len(X)
        BY <3>1, <4>3, <4>5
      <4> QED BY <1>7, <3>1, <4>3, <4>6
    <3>4. ASSUME IsContinuation(l), Text(l) # << >>, IsContinuation(X)
          PROVE  FALSE
      <4>1. PICK t \in 1..Len(l) : TextAt(l, t)
        BY <3>4, TextIs
      <4>2. l[t] \notin Blanks /\ t \in 1..Len(X) /\ X[t] \notin Blanks
        BY <3>1, <4>1 DEF TextAt
      <4>3. ~AllBlank(X)
        BY <4>2 DEF AllBlank
      <4>4. PICK u \in 2..Len(X) : TextAt(X, u) /\ \A i \in u..Len(X) : X[i] \in TextBytes
        BY <3>4, <4>3, ContinuationIs
      <4>5. ~(t < u)
        BY <4>2, <4>4 DEF TextAt
      <4>6. Len(l) + 1 \in u..Len(X)
        BY <3>1, <4>5
      <4> QED BY <1>7, <3>1, <4>4, <4>6
    <3>5. \A x \in TokenBytes : x \notin Blanks
      BY DEF TokenBytes, Blanks
    <3>6. /\ IsHeader(l) => l[1] \in TokenBytes
          /\ IsContinuation(l) => l[1] \in Blanks
      BY <1>2, LinesAre
    <3>7. /\ IsHeader(X) => X[1] \in TokenBytes
          /\ IsContinuation(X) => X[1] \in Blanks
      BY <3>2, LinesAre
    <3>8. IsHeader(X) \/ IsContinuation(X)
      BY <3>2 DEF AddsTo
    <3> QED BY <1>1, <3>1, <3>3, <3>4, <3>5, <3>6, <3>7, <3>8
  <2> QED BY <2>1, <2>2, RejectedState DEF StuckHeader
<1> QED BY <1>5, <1>6, <1>7

LEMMA LwsReads ==
  ASSUME NEW r \in Parser, NEW l \in Seq(Bytes), NEW hs \in Seq(Header),
         r.state = "header_lws", InHeaderLine(r, l, hs),
         NEW b \in Bytes, NEW L \in Seq(Bytes), Grows(l, b, L)
  PROVE  HeaderGoes(Consume(r, b), r, L, hs) \/ StuckHeader(Consume(r, b), L, hs)
<1>1. hs # << >> /\ IsContinuation(l) /\ Text(l) = << >> /\ r.headers = WithLine(hs, l)
  BY DEF InHeaderLine
<1>2. AddsTo(hs, l) /\ Clean(l) /\ l # << >> /\ l[1] \in Blanks
  BY <1>1, LinesAre DEF AddsTo
<1>3. AllBlank(l)
  BY <1>1, TextIs
<1>4. Consume(r, b) = Lws(r, b)
  BY DEF Consume
<1>5. (IsText(b) <=> b \in TextBytes) /\ (b \in TextBytes => b \notin {"CR", "TAB"})
  BY Kinds
<1>6. CASE b = "CR"
  <2>1. Consume(r, b) = Goto(r, "expecting_newline_2")
    BY <1>4, <1>5, <1>6 DEF Lws
  <2> QED BY <1>1, <1>2, <1>6, <2>1, LineCloses
<1>7. CASE b \in Blanks
  <2>1. b \in {"SP", "TAB"} /\ b # "CR"
    BY <1>7 DEF Blanks
  <2>2. Consume(r, b) = r
    <3>1. ~(b # "SP" /\ IsText(b))
      BY <1>5, <2>1
    <3> QED BY <1>4, <2>1, <3>1 DEF Lws
  <2>3. IsContinuation(L) /\ Text(L) = << >>
    BY <1>2, <1>3, <1>7, TextGrows
  <2>4. WithLine(hs, L) = WithLine(hs, l)
    BY <1>1, <2>3, WithContinuation
  <2> QED BY <1>1, <2>2, <2>3, <2>4 DEF HeaderGoes, HeaderStates, InHeaderLine
<1>8. CASE b \notin Blanks /\ b \in TextBytes
  <2>1. b \notin {"SP", "TAB"} /\ b # "CR" /\ IsText(b)
    BY <1>5, <1>8 DEF Blanks
  <2>2. Consume(r, b) = AddToValue(r, b)
    BY <1>4, <2>1 DEF Lws
  <2>3. IsContinuation(L) /\ Text(L) = <<b>>
    BY <1>2, <1>3, <1>8, TextGrows
  <2>4. Text(L) = Append(Text(l), b) /\ Text(l) \in Seq(Bytes)
    BY <1>1, <2>3
  <2> QED BY <1>1, <2>2, <2>3, <2>4, ContinuationGrows
<1>9. CASE b # "CR" /\ b \notin Blanks /\ b \notin TextBytes
  <2>1. Consume(r, b) = Rejected(r)
    BY <1>4, <1>5, <1>9 DEF Lws, Blanks
  <2>2. ASSUME NEW X \in Seq(Bytes), X = << >> \/ AddsTo(hs, X), Leads(L, X)
        PROVE  FALSE
    <3>1. /\ X # << >> /\ X[1] = l[1] /\ Len(l) < Len(X) /\ b = X[Len(l) + 1]
          /\ \A i \in 1..Len(l) : l[i] = X[i]
      BY <1>2, <1>9, <2>2, Inside
    <3>2. AddsTo(hs, X) /\ Len(l) + 1 \in 1..Len(X)
      BY <2>2, <3>1
    <3>3. \A x \in TokenBytes : x \notin Blanks
      BY DEF TokenBytes, Blanks
    <3>4. IsContinuation(X)
      BY <1>2, <3>1, <3>2, <3>3, LinesAre DEF AddsTo
    <3>5. ~AllBlank(X)
      BY <1>9, <3>1, <3>2 DEF AllBlank
    <3>6. PICK u \in 2..Len(X) : TextAt(X, u) /\ \A i \in u..Len(X) : X[i] \in TextBytes
      BY <3>4, <3>5, ContinuationIs
    <3>7. Len(l) + 1 \in u..Len(X) \/ Len(l) + 1 \in 1..(u - 1)
      BY <3>2
    <3> QED BY <1>9, <3>1, <3>6, <3>7 DEF TextAt
  <2> QED BY <2>1, <2>2, RejectedState DEF StuckHeader
<1> QED BY <1>6, <1>7, <1>8, <1>9

\* The end of a line, and of the request.
LEMMA HeaderEnds ==
  ASSUME NEW r \in Parser, NEW l \in Seq(Bytes), NEW hs \in Seq(Header),
         r.state \in {"expecting_newline_2", "expecting_newline_3"}, InHeaderLine(r, l, hs),
         NEW b \in Bytes, NEW L \in Seq(Bytes), Grows(l, b, L)
  PROVE  IF b = "LF"
           THEN Consume(r, b) = Goto(r, IF r.state = "expecting_newline_2" THEN "header_line_start"
                                        ELSE "accepted")
           ELSE StuckHeader(Consume(r, b), L, hs)
<1>1. Consume(r, b) = Follow(r, b)
  BY DEF Consume
<1>2. CASE b = "LF"
  BY <1>1, <1>2, Follows
<1>3. CASE b # "LF"
  <2>1. Consume(r, b) = Rejected(r)
    BY <1>1, <1>3, Follows
  <2>2. /\ l # << >> /\ Last(l) = "CR" /\ Front(l) \in Seq(Bytes) /\ Clean(Front(l))
        /\ Front(l) = << >> \/ AddsTo(hs, Front(l))
    <3>1. CASE r.state = "expecting_newline_2"
      <4>1. l # << >> /\ Last(l) = "CR" /\ AddsTo(hs, Front(l))
        BY <3>1 DEF InHeaderLine
      <4>2. Front(l) \in Seq(Bytes)
        BY <4>1, FrontIs
      <4> QED BY <4>1, <4>2, LinesAre
    <3>2. CASE r.state = "expecting_newline_3"
      <4>1. l = <<"CR">>
        BY <3>2 DEF InHeaderLine
      <4>2. l # << >> /\ Len(l) = 1 /\ l[1] = "CR"
        BY <4>1
      <4> DEFINE q == Front(l)
      <4>3. Last(l) = "CR" /\ q \in Seq(Bytes) /\ Len(q) = 0
        BY <4>2, FrontIs
      <4> HIDE DEF q
      <4>4. q = << >> /\ Clean(q)
        BY <4>3 DEF Clean
      <4> QED BY <4>2, <4>3, <4>4 DEF q
    <3> QED BY <3>1, <3>2
  <2>3. ASSUME NEW X \in Seq(Bytes), X = << >> \/ AddsTo(hs, X), Leads(L, X)
        PROVE  FALSE
    <3>1. Clean(X)
      BY <2>3, LinesAre DEF Clean
    <3> QED BY <1>3, <2>2, <2>3, <3>1, EndAhead
  <2> QED BY <1>3, <2>1, <2>3, RejectedState DEF StuckHeader
<1> QED BY <1>2, <1>3

LEMMA HeaderLineGoes ==
  ASSUME NEW r \in Parser, NEW l \in Seq(Bytes), NEW hs \in Seq(Header),
         r.state \in HeaderStates, InHeaderLine(r, l, hs),
         NEW b \in Bytes, NEW L \in Seq(Bytes), Grows(l, b, L)
  PROVE  \/ HeaderGoes(Consume(r, b), r, L, hs) \/ StuckHeader(Consume(r, b), L, hs)
         \/ /\ r.state = "expecting_newline_2" /\ b = "LF"
            /\ Consume(r, b) = Goto(r, "header_line_start")
         \/ /\ r.state = "expecting_newline_3" /\ b = "LF"
            /\ Consume(r, b) = Goto(r, "accepted")
<1>1. CASE r.state = "header_line_start"
  BY <1>1, LineStartReads
<1>2. CASE r.state = "header_name"
  BY <1>2, NameReads
<1>3. CASE r.state = "space_before_header_value"
  BY <1>3, SpaceReads
<1>4. CASE r.state = "header_value"
  BY <1>4, ValueReads
<1>5. CASE r.state = "header_lws"
  BY <1>5, LwsReads
<1>6. CASE r.state \in {"expecting_newline_2", "expecting_newline_3"}
  BY <1>6, HeaderEnds
<1> QED BY <1>1, <1>2, <1>3, <1>4, <1>5, <1>6 DEF HeaderStates

-----------------------------------------------------------------------------
(* What a request goes on with. *)

\* The line of a request u that the next byte of s is in.
LEMMA LineAhead ==
  ASSUME NEW s \in Seq(Bytes), NEW b \in Bytes, NEW t \in Seq(Bytes), t = Append(s, b),
         NEW u \in Seq(Bytes), Opens(t, u), IsRequest(u),
         NEW L \in Seq(Bytes), Grows(Rest(s), b, L)
  PROVE  \E X \in Seq(Bytes) :
           /\ Leads(L, X)
           /\ \/ Begun(s) = 1 /\ IsRequestLine(X)
              \/ Begun(s) > 1 /\ (X = << >> \/ IsHeader(X))
              \/ Second(s) /\ IsContinuation(X)
<1> DEFINE m == Begun(s)
           n == Len(u)
           k == Len(s) + 1
<1>1. Len(t) = k /\ t[k] = b /\ \A i \in 1..Len(s) : t[i] = s[i]
  BY OneMore
<1>2. n >= k /\ u[k] = b /\ Opens(s, u) /\ \A i \in 1..Len(s) : u[i] = s[i]
  <2>1. Len(u) >= k /\ \A i \in 1..k : u[i] = t[i]
    BY <1>1 DEF Opens
  <2>2. k \in 1..k /\ \A i \in 1..Len(s) : i \in 1..k
    OBVIOUS
  <2>3. \A i \in 1..Len(s) : u[i] = s[i]
    BY <1>1, <2>1, <2>2
  <2> QED BY <1>1, <2>1, <2>2, <2>3 DEF Opens
<1>3. m \in 1..k /\ (m > 1 => s[m - 1] = "LF") /\ \A i \in m..Len(s) : s[i] # "LF"
  <2>1. k \in 1..(Len(s) + 1)
    OBVIOUS
  <2> QED BY <2>1, StartIs DEF Begun
<1>4. /\ Len(L) = k - m + 1 /\ L[k - m + 1] = b
      /\ \A i \in 1..(k - m) : L[i] = s[m + i - 1]
  <2>1. Len(Rest(s)) = k - m /\ \A i \in 1..(k - m) : Rest(s)[i] = s[m + i - 1]
    BY RestIs
  <2> QED BY <2>1 DEF Grows
<1>5. /\ n > 2 /\ u[n] = "LF" /\ u[n - 1] = "CR" /\ u[n - 2] = "LF"
      /\ \A e \in Ends(u) \ {n} : LineFits(u, e)
  BY DEF IsRequest
<1> HIDE DEF m
<1>6. \A i \in 1..(k - m + 1) : L[i] = u[m + i - 1]
  <2> TAKE i \in 1..(k - m + 1)
  <2>1. i = k - m + 1 \/ (i \in 1..(k - m) /\ m + i - 1 \in 1..Len(s))
    BY <1>3
  <2> QED BY <1>2, <1>3, <1>4, <2>1
<1> DEFINE e == First(u, {"LF"}, Len(s))
<1>7. e \in k..n /\ u[e] = "LF" /\ \A i \in k..(e - 1) : u[i] # "LF"
  <2>1. \/ e = 0 /\ \A i \in k..n : u[i] \notin {"LF"}
        \/ /\ e \in k..n /\ u[e] \in {"LF"}
           /\ \A i \in k..(e - 1) : u[i] \notin {"LF"}
    BY FirstIs
  <2>2. n \in k..n
    BY <1>2
  <2> HIDE DEF e
  <2> QED BY <1>5, <2>1, <2>2
<1> HIDE DEF e
<1>8. \A i \in m..(e - 1) : u[i] # "LF"
  <2> TAKE i \in m..(e - 1)
  <2>1. i \in k..(e - 1) \/ (i \in m..Len(s) /\ i \in 1..Len(s))
    BY <1>3, <1>7
  <2> QED BY <1>2, <1>3, <1>7, <2>1
<1>9. m > 1 => u[m - 1] = "LF" /\ m - 1 \in 1..Len(s)
  <2>1. m > 1 => m - 1 \in 1..Len(s)
    BY <1>3
  <2> QED BY <1>2, <1>3, <2>1
<1>10. Start(u, e) = m
  <2>1. e \in 1..(n + 1) /\ m \in 1..e
    BY <1>3, <1>7
  <2> QED BY <1>8, <1>9, <2>1, StartAt
<1>11. CASE e # n
  <2> DEFINE X == SubSeq(u, m, e - 2)
  <2>1. LineFits(u, e) /\ Line(u, e) = X
    BY <1>5, <1>7, <1>10, <1>11 DEF Ends, Line
  <2>2. e > m /\ u[e - 1] = "CR"
    BY <1>10, <2>1 DEF LineFits
  <2>3. X \in Seq(Bytes) /\ Len(X) = e - m - 1 /\ \A i \in 1..(e - m - 1) : X[i] = u[m + i - 1]
    BY <1>3, <1>7, <2>2
  <2>4. \/ m = 1 /\ IsRequestLine(X)
        \/ m > 1 /\ IsHeader(X)
        \/ m > 1 /\ Start(u, m - 1) > 1 /\ IsContinuation(X)
    BY <1>10, <2>1 DEF LineFits
  <2> HIDE DEF X
  <2>5. m > 1 => Start(u, m - 1) = Start(s, m - 1)
    <3>1. m > 1 => m - 1 \in 1..(Len(s) + 1)
      BY <1>9
    <3> QED BY <1>2, <3>1, LineStays
  <2>6. Leads(L, X)
    <3>1. Len(L) <= Len(X) + 2
      BY <1>3, <1>4, <1>7, <2>3
    <3>2. ASSUME NEW i \in 1..Len(L)
          PROVE  \/ i <= Len(X) /\ L[i] = X[i]
                 \/ i = Len(X) + 1 /\ L[i] = "CR"
                 \/ i = Len(X) + 2 /\ L[i] = "LF"
      <4>1. L[i] = u[m + i - 1]
        BY <1>4, <1>6
      <4>2. i \in 1..(e - m - 1) \/ i = e - m \/ i = e - m + 1
        BY <1>3, <1>4, <1>7
      <4>3. i = e - m => m + i - 1 = e - 1
        BY <1>3, <1>7
      <4>4. i = e - m + 1 => m + i - 1 = e
        BY <1>3, <1>7
      <4> QED BY <1>3, <1>7, <2>2, <2>3, <4>1, <4>2, <4>3, <4>4
    <3> QED BY <3>1, <3>2 DEF Leads
  <2> QED BY <2>3, <2>4, <2>5, <2>6 DEF Second, m
<1>12. CASE e = n
  <2>1. m = n - 1 /\ m > 1
    <3>1. ~(n - 2 \in m..(n - 1))
      BY <1>5, <1>8, <1>12
    <3>2. ~(m = n)
      BY <1>5, <1>9
    <3> QED BY <1>2, <1>3, <1>5, <3>1, <3>2
  <2>2. Len(L) <= 2 /\ \A i \in 1..Len(L) : (i = 1 /\ L[i] = "CR") \/ (i = 2 /\ L[i] = "LF")
    <3>1. Len(L) <= 2
      BY <1>2, <1>3, <1>4, <2>1
    <3>2. ASSUME NEW i \in 1..Len(L)
          PROVE  (i = 1 /\ L[i] = "CR") \/ (i = 2 /\ L[i] = "LF")
      <4>1. L[i] = u[m + i - 1]
        BY <1>4, <1>6
      <4>2. (i = 1 /\ m + i - 1 = n - 1) \/ (i = 2 /\ m + i - 1 = n)
        BY <2>1, <3>1
      <4> QED BY <1>5, <4>1, <4>2
    <3> QED BY <3>1, <3>2
  <2> DEFINE X == << >>
  <2>3. X \in Seq(Bytes) /\ Len(X) = 0
    OBVIOUS
  <2> HIDE DEF X
  <2>4. Leads(L, X)
    BY <2>2, <2>3 DEF Leads
  <2> QED BY <2>1, <2>3, <2>4 DEF X, m
<1> QED BY <1>11, <1>12

-----------------------------------------------------------------------------
(* A byte that is consumed. *)

\* No request begins with t.
Hopeless(t) == \A u \in Seq(Bytes) : Opens(t, u) => ~IsRequest(u)

LEMMA StatesDiffer ==
  /\ States = FirstLineStates \cup HeaderStates /\ FirstLineStates \cap HeaderStates = {}
  /\ {"accepted", "rejected"} \cap (FirstLineStates \cup HeaderStates) = {}
  /\ "header_line_start" \in HeaderStates
  BY DEF States, FirstLineStates, HeaderStates, VersionStates

LEMMA FirstLineByte ==
  ASSUME NEW r \in Parser, NEW s \in Seq(Bytes), r.state \in FirstLineStates, Reads(r, s),
         NEW b \in Bytes, NEW t \in Seq(Bytes), t = Append(s, b)
  PROVE  /\ Reads(Consume(r, b), t)
         /\ Consume(r, b).state = "rejected" => Hopeless(t)
<1> DEFINE r1 == Consume(r, b)
           l == Rest(s)
           L == Append(l, b)
<1>1. Fit(s) /\ Begun(s) = 1 /\ HeadersOf(s) = << >> /\ InFirstLine(r, l) /\ l \in Seq(Bytes)
  BY RestIs DEF Reads
<1>2. L \in Seq(Bytes) /\ Grows(l, b, L)
  BY <1>1, Grown
<1>3. \/ GoesOn(r1, L) \/ StuckFirst(r1, L)
      \/ r.state = "expecting_newline_1" /\ b = "LF" /\ r1 = Goto(r, "header_line_start")
  BY <1>1, <1>2, FirstLineGoes
<1>4. ASSUME StuckFirst(r1, L)
      PROVE  Reads(r1, t) /\ Hopeless(t)
  <2>1. Reads(r1, t)
    BY <1>4, StatesDiffer DEF StuckFirst, Reads
  <2>2. ASSUME NEW u \in Seq(Bytes), Opens(t, u), IsRequest(u)
        PROVE  FALSE
    <3> HIDE DEF L, r1
    <3>1. PICK X \in Seq(Bytes) : /\ Leads(L, X)
                                  /\ \/ Begun(s) = 1 /\ IsRequestLine(X)
                                     \/ Begun(s) > 1 /\ (X = << >> \/ IsHeader(X))
                                     \/ Second(s) /\ IsContinuation(X)
      BY <1>2, <2>2, LineAhead
    <3>2. IsRequestLine(X)
      BY <1>1, <3>1 DEF Second
    <3> QED BY <1>4, <3>1, <3>2 DEF StuckFirst
  <2> QED BY <2>1, <2>2 DEF Hopeless
<1>5. CASE b # "LF"
  <2>1. GoesOn(r1, L) \/ StuckFirst(r1, L)
    BY <1>3, <1>5
  <2>2. ASSUME GoesOn(r1, L)
        PROVE  Reads(r1, t) /\ r1.state # "rejected"
    <3>1. Begun(t) = 1 /\ Rest(t) = L /\ Fit(t) /\ HeadersOf(t) = << >>
      BY <1>1, <1>5, RestGrows
    <3>2. r1.state \in FirstLineStates /\ InFirstLine(r1, L)
      BY <2>2 DEF GoesOn
    <3> QED BY <3>1, <3>2, StatesDiffer DEF Reads
  <2> QED BY <1>4, <2>1, <2>2
<1>6. CASE b = "LF" /\ r.state # "expecting_newline_1"
  <2>1. r1.state = "rejected"
    <3>1. r.state \notin {"expecting_newline_1", "expecting_newline_2", "expecting_newline_3"}
      BY <1>6 DEF FirstLineStates, VersionStates
    <3> QED BY <1>6, <3>1, LineFeeds, StatesDiffer
  <2>2. StuckFirst(r1, L)
    BY <1>3, <1>6, <2>1, StatesDiffer DEF GoesOn
  <2> QED BY <1>4, <2>2
<1>7. CASE b = "LF" /\ r.state = "expecting_newline_1"
  <2> DEFINE q == Front(l)
             n == Len(t)
  <2>1. /\ l # << >> /\ Last(l) = "CR" /\ IsRequestLine(q)
        /\ r.method = MethodIn(q) /\ r.uri = UriIn(q) /\ r.headers = << >>
    BY <1>1, <1>7 DEF InFirstLine
  <2>2. q \in Seq(Bytes) /\ l = Append(q, "CR")
    BY <1>1, <2>1, FrontIs, ByteNames, GrowsIs
  <2>3. r1 = Goto(r, "header_line_start")
    <3>1. IF b = "LF" THEN r1 = Goto(r, "header_line_start") ELSE StuckFirst(r1, L)
      BY <1>1, <1>2, <1>7, FirstLineEnds
    <3> QED BY <1>7, <3>1
  <2> HIDE DEF q, r1, l
  <2>4. n \in Nat /\ n = Len(t) /\ t = Append(s, "LF") /\ n >= 1
    BY <1>7
  <2> HIDE DEF n
  <2>5. /\ Begun(t) = n + 1 /\ Rest(t) = << >> /\ Fit(t)
        /\ HeadersOf(t) = << >> /\ ~Second(t) /\ FirstLine(t) = q
    <3>1. Rest(s) = Append(q, "CR")
      BY <2>2 DEF l
    <3>2. LineClosed(s, q, t, n)
      BY <2>2, <2>4, <3>1, LineEnds
    <3> QED BY <1>1, <2>1, <3>2 DEF LineClosed
  <2>6. /\ r1.state = "header_line_start" /\ r1.headers = << >>
        /\ r1.method = r.method /\ r1.uri = r.uri
    BY <2>1, <2>3, GotoFields
  <2>7. InHeaderLine(r1, << >>, << >>)
    BY <2>6 DEF InHeaderLine
  <2>8. FirstLineRead(r1, t)
    BY <2>1, <2>5, <2>6 DEF FirstLineRead
  <2>9. Begun(t) > 1 /\ << >> \in Seq(Header)
    BY <2>4, <2>5
  <2>10. Reads(r1, t)
    BY <2>5, <2>6, <2>7, <2>8, <2>9, StatesDiffer DEF Reads
  <2> QED BY <2>6, <2>10 DEF r1
<1> QED BY <1>5, <1>6, <1>7

\* A header line ends.
LEMMA HeaderLineEnds ==
  ASSUME NEW r \in Parser, NEW s \in Seq(Bytes), r.state = "expecting_newline_2", Reads(r, s),
         NEW t \in Seq(Bytes), t = Append(s, "LF")
  PROVE  Reads(Goto(r, "header_line_start"), t)
<1> DEFINE r1 == Goto(r, "header_line_start")
           l == Rest(s)
           q == Front(l)
           hs == HeadersOf(s)
           n == Len(t)
<1>1. /\ Fit(s) /\ Begun(s) > 1 /\ FirstLineRead(r, s) /\ hs \in Seq(Header)
      /\ hs # << >> <=> Second(s)
      /\ InHeaderLine(r, l, hs) /\ l \in Seq(Bytes)
  BY RestIs DEF Reads, HeaderStates
<1>2. /\ l # << >> /\ Last(l) = "CR" /\ AddsTo(hs, q) /\ r.headers = WithLine(hs, q)
  BY <1>1 DEF InHeaderLine
<1>3. q \in Seq(Bytes) /\ l = Append(q, "CR")
  BY <1>1, <1>2, FrontIs, ByteNames, GrowsIs
<1> HIDE DEF q, l, r1
<1>4. n \in Nat /\ n = Len(t) /\ n >= 1
  <2>1. Len(t) = Len(s) + 1
    BY ByteNames, Grown DEF Grows
  <2> QED BY <2>1
<1> HIDE DEF n
<1>5. LineClosed(s, q, t, n)
  <2>1. Rest(s) = Append(q, "CR")
    BY <1>3 DEF l
  <2> QED BY <1>3, <1>4, <2>1, LineEnds
<1>6. LineFits(t, n)
  BY <1>1, <1>2, <1>5 DEF LineClosed, AddsTo
<1>7. HeadersOf(t) = r.headers /\ Second(t) /\ Begun(t) > 1 /\ Rest(t) = << >> /\ Fit(t)
      /\ FirstLine(t) = FirstLine(s)
  BY <1>1, <1>2, <1>4, <1>5, <1>6 DEF LineClosed
<1>8. r.headers # << >>
  <2>1. CASE IsHeader(q)
    <3>1. r.headers = Append(hs, HeaderIn(q))
      BY <1>2, <1>3, <2>1, WithHeader
    <3>2. Len(Append(hs, HeaderIn(q))) = Len(hs) + 1
      BY <1>1
    <3>3. Len(r.headers) = Len(hs) + 1 /\ Len(hs) \in Nat
      BY <1>1, <3>1, <3>2
    <3> QED BY <3>3
  <2>2. CASE hs # << >> /\ IsContinuation(q)
    <3> DEFINE g == hs[Len(hs)]
               h == [name |-> g.name, value |-> g.value \o Text(q)]
    <3>1. g \in Header /\ r.headers = Back(hs, h)
      BY <1>1, <1>2, <1>3, <2>2, WithContinuation
    <3>2. h \in Header
      <4>1. Text(q) \in Seq(Bytes)
        <5>1. << >> \in Seq(Bytes)
          OBVIOUS
        <5>2. CASE AllBlank(q)
          BY <1>3, <5>1, <5>2, TextIs
        <5>3. CASE ~AllBlank(q)
          BY <1>3, <5>3, TextIs
        <5> QED BY <5>2, <5>3
      <4> HIDE DEF g
      <4>2. g.name \in Seq(Bytes) /\ g.value \o Text(q) \in Seq(Bytes)
        BY <3>1, <4>1 DEF Header
      <4> QED BY <4>2 DEF Header
    <3> HIDE DEF h
    <3> QED BY <1>1, <2>2, <3>1, <3>2, BackIs
  <2> QED BY <1>2, <2>1, <2>2 DEF AddsTo
<1>9. /\ r1.state = "header_line_start" /\ r1.headers = r.headers
      /\ r1.method = r.method /\ r1.uri = r.uri
  BY GotoFields DEF r1
<1>10. InHeaderLine(r1, << >>, HeadersOf(t)) /\ FirstLineRead(r1, t)
  BY <1>1, <1>7, <1>9 DEF InHeaderLine, FirstLineRead
<1>11. HeadersOf(t) \in Seq(Header) /\ HeadersOf(t) # << >>
  BY <1>7, <1>8, FieldTypes
<1>12. Reads(r1, t)
  BY <1>7, <1>9, <1>10, <1>11, StatesDiffer DEF Reads
<1> QED BY <1>12 DEF r1

\* The request ends.
LEMMA RequestEnds ==
  ASSUME NEW r \in Parser, NEW s \in Seq(Bytes), r.state = "expecting_newline_3", Reads(r, s),
         NEW t \in Seq(Bytes), t = Append(s, "LF")
  PROVE  Reads(Goto(r, "accepted"), t)
<1> DEFINE r1 == Goto(r, "accepted")
           l == Rest(s)
           q == << >>
           hs == HeadersOf(s)
           n == Len(t)
<1>1. /\ Fit(s) /\ Begun(s) > 1 /\ FirstLineRead(r, s)
      /\ InHeaderLine(r, l, hs) /\ l \in Seq(Bytes)
  BY RestIs DEF Reads, HeaderStates
<1>2. l = <<"CR">> /\ r.headers = hs
  BY <1>1 DEF InHeaderLine
<1>3. q \in Seq(Bytes) /\ l = Append(q, "CR")
  BY <1>2
<1>4. n = Len(s) + 1 /\ Opens(s, t) /\ \A i \in 1..Len(s) : t[i] = s[i]
  BY ByteNames, Grown DEF Grows
<1>5. n \in Nat /\ n = Len(t)
  BY <1>4
<1>6. Begun(s) = n - 1 /\ s[n - 2] = "LF" /\ n - 2 \in 1..Len(s)
  <2>1. Len(s) + 1 \in 1..(Len(s) + 1)
    OBVIOUS
  <2>2. Begun(s) \in 1..(Len(s) + 1) /\ s[Begun(s) - 1] = "LF"
    BY <1>1, <2>1, StartIs DEF Begun
  <2>3. Len(l) = 1
    BY <1>2
  <2>4. Len(s) - Begun(s) + 1 = 1
    BY <2>3, RestIs
  <2> QED BY <1>1, <1>4, <2>2, <2>4
<1> HIDE DEF q, l, r1, n
<1>7. LineClosed(s, q, t, n)
  <2>1. Rest(s) = Append(q, "CR")
    BY <1>3 DEF l
  <2> QED BY <1>3, <1>5, <2>1, LineEnds
<1>8. \A m \in Ends(t) \ {n} : LineFits(t, m)
  <2> TAKE m \in Ends(t) \ {n}
  <2>1. m \in Ends(s) /\ m \in DOMAIN s
    BY <1>7 DEF LineClosed, Ends
  <2>2. LineFits(s, m)
    BY <1>1, <2>1 DEF Fit
  <2> QED BY <1>4, <2>1, <2>2, FitsStays
<1>9. IsRequest(t)
  <2>1. n > 2 /\ t[n] = "LF" /\ t[n - 1] = "CR" /\ t[n - 2] = "LF"
    BY <1>4, <1>5, <1>6, <1>7 DEF LineClosed
  <2> QED BY <1>8, <2>1 DEF IsRequest, n
<1>10. HeadersOf(t) = hs /\ FirstLine(t) = FirstLine(s)
  <2>1. WithLine(hs, q) = hs
    BY DEF WithLine, q, IsContinuation
  <2>2. ~(Begun(s) = 1)
    BY <1>1
  <2> QED BY <1>1, <1>7, <2>1, <2>2 DEF LineClosed
<1>11. /\ r1.state = "accepted" /\ r1.headers = r.headers
       /\ r1.method = r.method /\ r1.uri = r.uri
  BY GotoFields DEF r1
<1>12. Reads(r1, t)
  BY <1>1, <1>2, <1>9, <1>10, <1>11, StatesDiffer DEF Reads, FirstLineRead
<1> QED BY <1>12 DEF r1

LEMMA HeaderByte ==
  ASSUME NEW r \in Parser, NEW s \in Seq(Bytes), r.state \in HeaderStates, Reads(r, s),
         NEW b \in Bytes, NEW t \in Seq(Bytes), t = Append(s, b)
  PROVE  /\ Reads(Consume(r, b), t)
         /\ Consume(r, b).state = "rejected" => Hopeless(t)
<1> DEFINE r1 == Consume(r, b)
           l == Rest(s)
           L == Append(l, b)
           hs == HeadersOf(s)
<1>1. /\ Fit(s) /\ Begun(s) > 1 /\ FirstLineRead(r, s) /\ hs \in Seq(Header)
      /\ hs # << >> <=> Second(s)
      /\ InHeaderLine(r, l, hs) /\ l \in Seq(Bytes)
  BY RestIs DEF Reads
<1>2. L \in Seq(Bytes) /\ Grows(l, b, L)
  BY <1>1, Grown
<1>3. \/ HeaderGoes(r1, r, L, hs) \/ StuckHeader(r1, L, hs)
      \/ r.state = "expecting_newline_2" /\ b = "LF" /\ r1 = Goto(r, "header_line_start")
      \/ r.state = "expecting_newline_3" /\ b = "LF" /\ r1 = Goto(r, "accepted")
  BY <1>1, <1>2, HeaderLineGoes
<1>4. ASSUME StuckHeader(r1, L, hs)
      PROVE  Reads(r1, t) /\ Hopeless(t)
  <2>1. Reads(r1, t)
    BY <1>4, StatesDiffer DEF StuckHeader, Reads
  <2>2. ASSUME NEW u \in Seq(Bytes), Opens(t, u), IsRequest(u)
        PROVE  FALSE
    <3> HIDE DEF L, r1, hs
    <3>1. PICK X \in Seq(Bytes) : /\ Leads(L, X)
                                  /\ \/ Begun(s) = 1 /\ IsRequestLine(X)
                                     \/ Begun(s) > 1 /\ (X = << >> \/ IsHeader(X))
                                     \/ Second(s) /\ IsContinuation(X)
      BY <1>2, <2>2, LineAhead
    <3>2. X = << >> \/ AddsTo(hs, X)
      BY <1>1, <3>1 DEF AddsTo
    <3> QED BY <1>4, <3>1, <3>2 DEF StuckHeader
  <2> QED BY <2>1, <2>2 DEF Hopeless
<1>5. CASE b # "LF"
  <2>1. HeaderGoes(r1, r, L, hs) \/ StuckHeader(r1, L, hs)
    BY <1>3, <1>5
  <2>2. ASSUME HeaderGoes(r1, r, L, hs)
        PROVE  Reads(r1, t) /\ r1.state # "rejected"
    <3>1. /\ Begun(t) = Begun(s) /\ Rest(t) = L /\ Fit(t) /\ HeadersOf(t) = hs
          /\ Second(t) <=> Second(s)
          /\ FirstLine(t) = FirstLine(s)
      BY <1>1, <1>5, RestGrows
    <3>2. /\ r1.state \in HeaderStates /\ InHeaderLine(r1, L, hs)
          /\ r1.method = r.method /\ r1.uri = r.uri
      BY <2>2 DEF HeaderGoes
    <3> HIDE DEF r1, L, hs
    <3>3. FirstLineRead(r1, t)
      BY <1>1, <3>1, <3>2 DEF FirstLineRead
    <3> QED BY <1>1, <3>1, <3>2, <3>3, StatesDiffer DEF Reads
  <2> QED BY <1>4, <2>1, <2>2
<1>6. CASE b = "LF" /\ r.state \notin {"expecting_newline_2", "expecting_newline_3"}
  <2>1. r1.state = "rejected"
    <3>1. r.state \notin {"expecting_newline_1", "expecting_newline_2", "expecting_newline_3"}
      BY <1>6 DEF HeaderStates
    <3> QED BY <1>6, <3>1, LineFeeds, StatesDiffer
  <2>2. StuckHeader(r1, L, hs)
    BY <1>3, <1>6, <2>1, StatesDiffer DEF HeaderGoes
  <2> QED BY <1>4, <2>2
<1>7. CASE b = "LF" /\ r.state \in {"expecting_newline_2", "expecting_newline_3"}
  <2>1. r1 = Goto(r, IF r.state = "expecting_newline_2" THEN "header_line_start" ELSE "accepted")
    <3>1. IF b = "LF"
            THEN r1 = Goto(r, IF r.state = "expecting_newline_2" THEN "header_line_start"
                              ELSE "accepted")
            ELSE StuckHeader(r1, L, hs)
      BY <1>1, <1>2, <1>7, HeaderEnds
    <3> QED BY <1>7, <3>1
  <2>2. r1.state # "rejected"
    BY <1>7, <2>1, GotoFields
  <2>3. Reads(r1, t)
    BY <1>7, <2>1, HeaderLineEnds, RequestEnds
  <2> QED BY <2>2, <2>3
<1> QED BY <1>5, <1>6, <1>7

\* A byte keeps what is read, and is rejected only when nothing can follow.
LEMMA ByteReads ==
  ASSUME NEW r \in Parser, NEW s \in Seq(Bytes), r.state \notin Results, Reads(r, s),
         NEW b \in Bytes, NEW t \in Seq(Bytes), t = Append(s, b)
  PROVE  /\ Reads(Consume(r, b), t)
         /\ Consume(r, b).state = "rejected" => Hopeless(t)
<1>1. r.state \in FirstLineStates \/ r.state \in HeaderStates
  BY StatesDiffer DEF Parser, Results
<1> QED BY <1>1, FirstLineByte, HeaderByte

-----------------------------------------------------------------------------
(* How a request that is begun is completed. *)

\* The states in which Plain goes on with its j-th byte.
PlainStates ==
  <<{"method_start"},
    {"method"},
    {"uri"},
    {"http_version_h"},
    {"http_version_t_1"},
    {"http_version_t_2"},
    {"http_version_p"},
    {"http_version_slash"},
    {"http_version_major_start"},
    {"http_version_major"},
    {"http_version_minor_start"},
    {"http_version_minor"},
    {"expecting_newline_1"},
    {"header_line_start"},
    {"header_name"},
    {"space_before_header_value"},
    {"header_lws", "header_value"},
    {"expecting_newline_2"},
    {"header_line_start"},
    {"expecting_newline_3"},
    {"accepted"}>>

LEMMA PlainIs ==
  /\ Len(Plain) = 20 /\ Plain \in Seq(Bytes)
  /\ \A j \in 1..20 : Plain[j] \in Bytes
  BY DEF Plain, Bytes

\* How the parser goes along Plain.
LEMMA PlainGoes ==
  ASSUME NEW r \in Parser
  PROVE  /\ r.state = "method_start" => Consume(r, "H").state = "method"
         /\ r.state = "method" => Consume(r, "SP").state = "uri"
         /\ r.state = "uri" => Consume(r, "SP").state = "http_version_h"
         /\ r.state = "http_version_h" => Consume(r, "H").state = "http_version_t_1"
         /\ r.state = "http_version_t_1" => Consume(r, "T").state = "http_version_t_2"
         /\ r.state = "http_version_t_2" => Consume(r, "T").state = "http_version_p"
         /\ r.state = "http_version_p" => Consume(r, "P").state = "http_version_slash"
         /\ r.state = "http_version_slash" => Consume(r, "/").state = "http_version_major_start"
         /\ r.state = "http_version_major_start" =>
              Consume(r, "digit").state = "http_version_major"
         /\ r.state = "http_version_major" => Consume(r, ".").state = "http_version_minor_start"
         /\ r.state = "http_version_minor_start" =>
              Consume(r, "digit").state = "http_version_minor"
         /\ r.state = "http_version_minor" => Consume(r, "CR").state = "expecting_newline_1"
         /\ r.state = "expecting_newline_1" => Consume(r, "LF").state = "header_line_start"
         /\ r.state = "header_line_start" => Consume(r, "H").state = "header_name"
         /\ r.state = "header_name" => Consume(r, ":").state = "space_before_header_value"
         /\ r.state = "space_before_header_value" =>
              Consume(r, "SP").state \in {"header_lws", "header_value"}
         /\ r.state \in {"header_lws", "header_value"} =>
              Consume(r, "CR").state = "expecting_newline_2"
         /\ r.state = "expecting_newline_2" => Consume(r, "LF").state = "header_line_start"
         /\ r.state = "header_line_start" => Consume(r, "CR").state = "expecting_newline_3"
         /\ r.state = "expecting_newline_3" => Consume(r, "LF").state = "accepted"
<1>0. /\ IsToken("H") /\ ~IsToken("SP") /\ ~IsToken("CR") /\ ~IsToken(":")
      /\ ~IsText("CR")
  BY Kinds, ByteNames DEF Bytes, TokenBytes
<1>1. ASSUME r.state = "method_start"
      PROVE  Consume(r, "H").state = "method"
  BY <1>1, <1>0, GotoFields DEF Consume, RequestLine, Parser
<1>2. ASSUME r.state = "method"
      PROVE  Consume(r, "SP").state = "uri"
  BY <1>2, <1>0, GotoFields DEF Consume, RequestLine, Parser
<1>3. ASSUME r.state = "uri"
      PROVE  Consume(r, "SP").state = "http_version_h"
  BY <1>3, <1>0, GotoFields DEF Consume, RequestLine, Parser
<1>4. ASSUME r.state = "http_version_h"
      PROVE  Consume(r, "H").state = "http_version_t_1"
  <2>1. 1 \in 1..5 /\ r.state = ProtocolStates[1] /\ Protocol[1] = "H"
    BY <1>4 DEF ProtocolStates, Protocol
  <2>2. ProtocolStates[1 + 1] = "http_version_t_1"
    BY DEF ProtocolStates
  <2>3. Follow(r, "H") = Goto(r, ProtocolStates[1 + 1])
    BY <2>1, Follows
  <2> QED BY <1>4, <2>2, <2>3, GotoFields DEF Consume
<1>5. ASSUME r.state = "http_version_t_1"
      PROVE  Consume(r, "T").state = "http_version_t_2"
  <2>1. 2 \in 1..5 /\ r.state = ProtocolStates[2] /\ Protocol[2] = "T"
    BY <1>5 DEF ProtocolStates, Protocol
  <2>2. ProtocolStates[2 + 1] = "http_version_t_2"
    BY DEF ProtocolStates
  <2>3. Follow(r, "T") = Goto(r, ProtocolStates[2 + 1])
    BY <2>1, Follows
  <2> QED BY <1>5, <2>2, <2>3, GotoFields DEF Consume
<1>6. ASSUME r.state = "http_version_t_2"
      PROVE  Consume(r, "T").state = "http_version_p"
  <2>1. 3 \in 1..5 /\ r.state = ProtocolStates[3] /\ Protocol[3] = "T"
    BY <1>6 DEF ProtocolStates, Protocol
  <2>2. ProtocolStates[3 + 1] = "http_version_p"
    BY DEF ProtocolStates
  <2>3. Follow(r, "T") = Goto(r, ProtocolStates[3 + 1])
    BY <2>1, Follows
  <2> QED BY <1>6, <2>2, <2>3, GotoFields DEF Consume
<1>7. ASSUME r.state = "http_version_p"
      PROVE  Consume(r, "P").state = "http_version_slash"
  <2>1. 4 \in 1..5 /\ r.state = ProtocolStates[4] /\ Protocol[4] = "P"
    BY <1>7 DEF ProtocolStates, Protocol
  <2>2. ProtocolStates[4 + 1] = "http_version_slash"
    BY DEF ProtocolStates
  <2>3. Follow(r, "P") = Goto(r, ProtocolStates[4 + 1])
    BY <2>1, Follows
  <2> QED BY <1>7, <2>2, <2>3, GotoFields DEF Consume
<1>8. ASSUME r.state = "http_version_slash"
      PROVE  Consume(r, "/").state = "http_version_major_start"
  <2>1. 5 \in 1..5 /\ r.state = ProtocolStates[5] /\ Protocol[5] = "/"
    BY <1>8 DEF ProtocolStates, Protocol
  <2>2. ProtocolStates[5 + 1] = "http_version_major_start"
    BY DEF ProtocolStates
  <2>3. Follow(r, "/") = Goto(r, ProtocolStates[5 + 1])
    BY <2>1, Follows
  <2> QED BY <1>8, <2>2, <2>3, GotoFields DEF Consume
<1>9. ASSUME r.state = "http_version_major_start"
      PROVE  Consume(r, "digit").state = "http_version_major"
  BY <1>9, Follows, GotoFields DEF Consume
<1>10. ASSUME r.state = "http_version_major"
      PROVE  Consume(r, ".").state = "http_version_minor_start"
  BY <1>10, Follows, GotoFields DEF Consume
<1>11. ASSUME r.state = "http_version_minor_start"
      PROVE  Consume(r, "digit").state = "http_version_minor"
  BY <1>11, Follows, GotoFields DEF Consume
<1>12. ASSUME r.state = "http_version_minor"
      PROVE  Consume(r, "CR").state = "expecting_newline_1"
  BY <1>12, Follows, GotoFields DEF Consume
<1>13. ASSUME r.state = "expecting_newline_1"
      PROVE  Consume(r, "LF").state = "header_line_start"
  BY <1>13, Follows, GotoFields DEF Consume
<1>14. ASSUME r.state = "header_line_start"
      PROVE  Consume(r, "H").state = "header_name"
  BY <1>14, <1>0, GotoFields DEF Consume, LineStart, Folds, Parser
<1>15. ASSUME r.state = "header_name"
      PROVE  Consume(r, ":").state = "space_before_header_value"
  BY <1>15, <1>0, GotoFields DEF Consume, Name
<1>16. ASSUME r.state = "space_before_header_value"
      PROVE  Consume(r, "SP").state \in {"header_lws", "header_value"}
  BY <1>16, Follows, GotoFields DEF Consume
<1>17. ASSUME r.state \in {"header_lws", "header_value"}
      PROVE  Consume(r, "CR").state = "expecting_newline_2"
  BY <1>17, <1>0, GotoFields DEF Consume, Lws, Value
<1>18. ASSUME r.state = "expecting_newline_2"
      PROVE  Consume(r, "LF").state = "header_line_start"
  BY <1>18, Follows, GotoFields DEF Consume
<1>19. ASSUME r.state = "header_line_start"
      PROVE  Consume(r, "CR").state = "expecting_newline_3"
  BY <1>19, <1>0, GotoFields DEF Consume, LineStart, Folds, Parser
<1>20. ASSUME r.state = "expecting_newline_3"
      PROVE  Consume(r, "LF").state = "accepted"
  BY <1>20, Follows, GotoFields DEF Consume
<1> QED BY <1>1, <1>2, <1>3, <1>4, <1>5, <1>6, <1>7, <1>8, <1>9, <1>10,
  <1>11, <1>12, <1>13, <1>14, <1>15, <1>16, <1>17, <1>18, <1>19, <1>20

LEMMA PlainStep ==
  ASSUME NEW r \in Parser, NEW j \in 1..20, r.state \in PlainStates[j]
  PROVE  r.state \notin Results /\ Consume(r, Plain[j]).state \in PlainStates[j + 1]
<1>1. CASE j \in 1..5
  <2>1. j = 1 \/ j = 2 \/ j = 3 \/ j = 4 \/ j = 5
    BY <1>1
  <2> QED BY <2>1, PlainGoes DEF PlainStates, Plain, Results
<1>2. CASE j \in 6..10
  <2>1. j = 6 \/ j = 7 \/ j = 8 \/ j = 9 \/ j = 10
    BY <1>2
  <2> QED BY <2>1, PlainGoes DEF PlainStates, Plain, Results
<1>3. CASE j \in 11..15
  <2>1. j = 11 \/ j = 12 \/ j = 13 \/ j = 14 \/ j = 15
    BY <1>3
  <2> QED BY <2>1, PlainGoes DEF PlainStates, Plain, Results
<1>4. CASE j \in 16..20
  <2>1. j = 16 \/ j = 17 \/ j = 18 \/ j = 19 \/ j = 20
    BY <1>4
  <2> QED BY <2>1, PlainGoes DEF PlainStates, Plain, Results
<1> QED BY <1>1, <1>2, <1>3, <1>4

\* What is read and stands before the j-th byte of Plain is completed by the
\* bytes from there on.
Completes(j) ==
  \A r \in Parser, s \in Seq(Bytes) :
    HasBack(r) /\ Reads(r, s) /\ r.state \in PlainStates[j] => IsRequest(s \o SubSeq(Plain, j, 20))

\* p is b, and q behind it.
Leading(p, b, q) == Len(p) = Len(q) + 1 /\ p[1] = b /\ \A i \in 1..Len(q) : p[i + 1] = q[i]

SameJoined(t, q, s, p) == t \o q = s \o p

LEMMA JoinedFirst ==
  ASSUME NEW s \in Seq(Bytes), NEW b \in Bytes, NEW t \in Seq(Bytes), Grows(s, b, t),
         NEW p \in Seq(Bytes), NEW q \in Seq(Bytes), Leading(p, b, q)
  PROVE  SameJoined(t, q, s, p)
<1> DEFINE x == t \o q
           y == s \o p
           n == Len(s)
           m == Len(t)
<1>1. /\ m = n + 1 /\ n \in Nat /\ t[m] = b /\ \A i \in 1..n : t[i] = s[i]
      /\ Len(p) = Len(q) + 1 /\ p[1] = b /\ \A i \in 1..Len(q) : p[i + 1] = q[i]
  BY DEF Grows, Leading
<1>2. /\ x \in Seq(Bytes) /\ Len(x) = m + Len(q)
      /\ \A i \in 1..(m + Len(q)) : x[i] = IF i <= m THEN t[i] ELSE q[i - m]
  BY Joined
<1>3. /\ y \in Seq(Bytes) /\ Len(y) = n + Len(p)
      /\ \A i \in 1..(n + Len(p)) : y[i] = IF i <= n THEN s[i] ELSE p[i - n]
  BY Joined
<1>4. Len(q) \in Nat
  OBVIOUS
<1> HIDE DEF x, y, n, m
<1>5. ASSUME NEW i \in 1..Len(x)
      PROVE  x[i] = y[i]
  <2>0. i \in 1..(m + Len(q)) /\ i \in 1..(n + Len(p))
    BY <1>1, <1>2, <1>4
  <2>1. CASE i <= n
    <3>1. i \in 1..n /\ i <= m
      BY <1>1, <2>0, <2>1
    <3> QED BY <1>1, <1>2, <1>3, <2>0, <2>1, <3>1
  <2>2. CASE i = m
    <3>1. i - n = 1 /\ ~(i <= n) /\ i <= m
      BY <1>1, <2>2
    <3> QED BY <1>1, <1>2, <1>3, <2>0, <2>2, <3>1
  <2>3. CASE i > m
    <3>1. /\ i - m \in 1..Len(q) /\ ~(i <= n) /\ ~(i <= m)
          /\ i - n = (i - m) + 1
      BY <1>1, <1>4, <2>0, <2>3
    <3>2. x[i] = q[i - m] /\ y[i] = p[(i - m) + 1]
      BY <1>2, <1>3, <2>0, <3>1
    <3> QED BY <1>1, <3>1, <3>2
  <2> QED BY <1>1, <2>0, <2>1, <2>2, <2>3
<1>6. Len(x) = Len(y)
  BY <1>1, <1>2, <1>3, <1>4
<1>7. x = y
  BY <1>2, <1>3, <1>5, <1>6, SameBytes
<1> QED BY <1>7 DEF x, y, SameJoined

LEMMA CompletesBefore ==
  ASSUME NEW j \in 1..20, Completes(j + 1)
  PROVE  Completes(j)
<1> SUFFICES ASSUME NEW r \in Parser, NEW s \in Seq(Bytes),
                    HasBack(r), Reads(r, s), r.state \in PlainStates[j]
             PROVE  IsRequest(s \o SubSeq(Plain, j, 20))
  BY DEF Completes
<1> DEFINE b == Plain[j]
           t == Append(s, b)
           r1 == Consume(r, b)
           p == SubSeq(Plain, j, 20)
           q == SubSeq(Plain, j + 1, 20)
<1>1. b \in Bytes /\ t \in Seq(Bytes) /\ t = Append(s, b)
  <2>1. b \in Bytes
    BY PlainIs
  <2> HIDE DEF b
  <2> QED BY <2>1
<1>2. r.state \notin Results /\ r1.state \in PlainStates[j + 1]
  BY PlainStep
<1>3. r1 \in Parser /\ HasBack(r1)
  BY <1>1, ConsumeKeeps
<1>4. Reads(r1, t)
  BY <1>1, <1>2, ByteReads
<1>5. p \in Seq(Bytes) /\ q \in Seq(Bytes) /\ Leading(p, b, q)
  <2>0. Len(Plain) = 20 /\ Plain \in Seq(Bytes)
    BY PlainIs
  <2>1. /\ j \in 1..(Len(Plain) + 1) /\ j + 1 \in 1..(Len(Plain) + 1)
        /\ 20 \in (j - 1)..Len(Plain) /\ 20 \in ((j + 1) - 1)..Len(Plain)
    BY <2>0
  <2>2. /\ p \in Seq(Bytes) /\ Len(p) = 20 - j + 1
        /\ \A i \in 1..(20 - j + 1) : p[i] = Plain[j + i - 1]
    BY <2>0, <2>1, PartIs
  <2>3. /\ q \in Seq(Bytes) /\ Len(q) = 20 - (j + 1) + 1
        /\ \A i \in 1..(20 - (j + 1) + 1) : q[i] = Plain[(j + 1) + i - 1]
    BY <2>0, <2>1, PartIs
  <2> HIDE DEF p, q
  <2>4. 1 \in 1..(20 - j + 1) /\ j + 1 - 1 = j /\ Len(q) = 20 - j
    BY <2>3
  <2>5. ASSUME NEW i \in 1..Len(q)
        PROVE  p[i + 1] = q[i]
    <3>1. /\ i + 1 \in 1..(20 - j + 1) /\ i \in 1..(20 - (j + 1) + 1)
          /\ j + (i + 1) - 1 = (j + 1) + i - 1
      BY <2>4
    <3> QED BY <2>2, <2>3, <3>1
  <2> QED BY <2>2, <2>3, <2>4, <2>5 DEF Leading
<1>6. Grows(s, b, t)
  BY <1>1, Grown
<1> HIDE DEF b, t, p, q
<1>7. SameJoined(t, q, s, p)
  BY <1>1, <1>5, <1>6, JoinedFirst
<1>8. IsRequest(t \o q)
  BY <1>1, <1>2, <1>3, <1>4 DEF Completes, q
<1> QED BY <1>7, <1>8 DEF p, SameJoined

LEMMA AllComplete ==
  ASSUME NEW j \in 1..21
  PROVE  Completes(j)
<1>1. Completes(21)
  <2> SUFFICES ASSUME NEW r \in Parser, NEW s \in Seq(Bytes),
                      HasBack(r), Reads(r, s), r.state \in PlainStates[21]
               PROVE  IsRequest(s \o SubSeq(Plain, 21, 20))
    BY DEF Completes
  <2>1. r.state = "accepted"
    BY DEF PlainStates
  <2>2. SubSeq(Plain, 21, 20) = << >>
    BY PlainIs
  <2>3. s \o << >> = s
    OBVIOUS
  <2> QED BY <2>1, <2>2, <2>3 DEF Reads
<1> DEFINE S == {k \in 0..21 : k >= 1 /\ ~Completes(k)}
<1>2. ASSUME S # {}
      PROVE  FALSE
  <2> DEFINE m == Max(S)
  <2>1. S \in SUBSET (0..21)
    OBVIOUS
  <2>2. m \in S /\ \A k \in S : k <= m
    <3> HIDE DEF S
    <3> QED BY <1>2, <2>1, GreatestIs
  <2> HIDE DEF m
  <2>3. m \in 1..20 /\ m + 1 \in 0..21 /\ ~(m + 1 \in S)
    <3>1. m # 21
      BY <1>1, <2>2
    <3> QED BY <2>2, <3>1
  <2>4. Completes(m + 1)
    BY <2>3
  <2> QED BY <2>2, <2>3, <2>4, CompletesBefore
<1> QED BY <1>2

\* Every state but that of rejection is met along Plain.
LEMMA SomewhereInPlain ==
  ASSUME NEW r \in Parser, r.state # "rejected"
  PROVE  \E j \in 1..21 : r.state \in PlainStates[j]
<1>1. r.state \in States \cup {"accepted"}
  BY DEF Parser, Results
<1>2. \A x \in States \cup {"accepted"} : \E j \in 1..21 : x \in PlainStates[j]
  BY DEF States, PlainStates
<1> QED BY <1>1, <1>2

LEMMA ReadsCompletes ==
  ASSUME NEW r \in Parser, NEW s \in Seq(Bytes), HasBack(r), Reads(r, s), r.state # "rejected"
  PROVE  BeginsARequest(s)
<1>1. PICK j \in 1..21 : r.state \in PlainStates[j]
  BY SomewhereInPlain
<1>2. Completes(j)
  BY AllComplete
<1>3. IsRequest(s \o SubSeq(Plain, j, 20))
  BY <1>1, <1>2 DEF Completes
<1>4. j - 1 \in 0..Len(Plain) /\ j - 1 + 1 = j /\ Len(Plain) = 20
  BY PlainIs
<1>5. IsRequest(s \o SubSeq(Plain, j - 1 + 1, Len(Plain)))
  BY <1>3, <1>4
<1> QED BY <1>4, <1>5 DEF BeginsARequest

\* A request is not waited on.
LEMMA WholeIsAccepted ==
  ASSUME NEW r \in Parser, NEW s \in Seq(Bytes), Reads(r, s), IsRequest(s),
         r.state = "rejected" => Hopeless(s)
  PROVE  r.state = "accepted"
<1> DEFINE n == Len(s)
<1>1. n > 2 /\ s[n] = "LF" /\ s[n - 1] = "CR" /\ s[n - 2] = "LF"
  BY DEF IsRequest
<1>2. r.state # "rejected"
  BY DEF Hopeless, Opens
<1>3. ~Fit(s)
  <2>1. n \in Ends(s) /\ n \in 1..(Len(s) + 1) /\ n - 1 \in 1..n
    BY <1>1 DEF Ends
  <2>2. Start(s, n) = n - 1
    <3>1. (n - 1) - 1 = n - 2 /\ \A i \in (n - 1)..(n - 1) : s[i] # "LF"
      BY <1>1
    <3> QED BY <1>1, <2>1, <3>1, StartAt
  <2>3. Line(s, n) = << >>
    <3> DEFINE m == n - 1
    <3>1. m \in 1..Len(s) /\ n - 2 = m - 1
      BY <1>1
    <3> HIDE DEF m
    <3>2. SubSeq(s, m, m - 1) = << >>
      BY <3>1
    <3> QED BY <2>2, <3>1, <3>2 DEF Line, m
  <2>4. ~(n - 1 = 1) /\ ~IsHeader(<< >>) /\ ~IsContinuation(<< >>)
    <3> DEFINE e == << >>
    <3>1. e \in Seq(Bytes) /\ Len(e) = 0
      OBVIOUS
    <3> HIDE DEF e
    <3>2. ~IsHeader(e)
      <4> SUFFICES ASSUME IsHeader(e) PROVE FALSE
        OBVIOUS
      <4>1. HasColon(e, Colon(e))
        BY <3>1, HeaderIs
      <4> QED BY <3>1, <4>1 DEF HasColon
    <3> USE DEF e
    <3> QED BY <1>1, <3>2 DEF IsContinuation
  <2>5. ~LineFits(s, n)
    BY <2>2, <2>3, <2>4 DEF LineFits
  <2> QED BY <2>1, <2>5 DEF Fit
<1>4. r.state \notin FirstLineStates \cup HeaderStates
  BY <1>3 DEF Reads
<1> QED BY <1>2, <1>4, StatesDiffer DEF Parser, Results

-----------------------------------------------------------------------------

ReadsInv == Inv /\ Reads(parser, input) /\ (parser.state = "rejected" => Hopeless(input))

LEMMA NothingRead == Reads(NewParser, << >>)
<1> DEFINE s == << >>
<1>1. s \in Seq(Bytes) /\ Len(s) = 0 /\ Ends(s) = {} /\ HeadersOf(s) = << >>
  BY NoHeaders DEF Ends
<1> HIDE DEF s
<1>2. Begun(s) = 1
  <2>1. Begun(s) \in 1..(Len(s) + 1)
    BY <1>1, RestIs
  <2> QED BY <1>1, <2>1
<1>3. Rest(s) = << >>
  BY <1>1, <1>2 DEF Rest
<1>4. NewParser.state = "method_start" /\ NewParser.method = << >> /\ NewParser.uri = << >>
      /\ NewParser.headers = << >>
  BY DEF NewParser
<1>5. InFirstLine(NewParser, << >>)
  <2>1. Tokens(<< >>)
    BY DEF Tokens
  <2>2. "method_start" \notin VersionStates \cup {"uri", "expecting_newline_1"}
    BY DEF VersionStates
  <2> QED BY <1>4, <2>1, <2>2 DEF InFirstLine
<1>6. NewParser.state \in FirstLineStates
  BY <1>4 DEF FirstLineStates
<1>7. Reads(NewParser, s)
  BY <1>1, <1>2, <1>3, <1>5, <1>6, StatesDiffer DEF Reads, Fit
<1> QED BY <1>7 DEF s

LEMMA SpecReads == Spec => []ReadsInv
<1>1. Init => ReadsInv
  <2> SUFFICES ASSUME Init PROVE ReadsInv
    OBVIOUS
  <2>1. Inv
    BY DEF Init, Inv, TypeOK, BackExists, NewParser, Parser, States
  <2>2. Reads(parser, input) /\ parser.state # "rejected"
    BY NothingRead DEF Init, NewParser
  <2> QED BY <2>1, <2>2 DEF ReadsInv
<1>2. ReadsInv /\ Inv' /\ [Next]_vars => ReadsInv'
  <2> SUFFICES ASSUME ReadsInv, Inv', [Next]_vars PROVE ReadsInv'
    OBVIOUS
  <2>1. CASE UNCHANGED vars
    BY <2>1 DEF vars, ReadsInv
  <2>2. CASE Next
    <3>1. PICK b \in Sent : Receive(b)
      BY <2>2 DEF Next
    <3>2. b \in Bytes /\ parser \in Parser /\ input \in Seq(Bytes) /\ input' \in Seq(Bytes)
      BY ParserAssumption DEF ReadsInv, Inv, TypeOK
    <3>3. /\ parser.state \notin Results /\ parser' = Consume(parser, b)
          /\ input' = Append(input, b)
      BY <3>1 DEF Receive
    <3>4. Reads(Consume(parser, b), input')
          /\ (Consume(parser, b).state = "rejected" => Hopeless(input'))
      BY <3>2, <3>3, ByteReads DEF ReadsInv
    <3> QED BY <3>3, <3>4 DEF ReadsInv
  <2> QED BY <2>1, <2>2
<1> QED BY <1>1, <1>2, SpecInv, PTL DEF Spec

\* Whatever bytes come and however they are split: when the parser accepts,
\* they are one request, and its method, uri and headers are what the lines say.
THEOREM ParserFollowsGrammar == Spec => []ParsedAsWritten
<1>1. ReadsInv => ParsedAsWritten
  BY DEF ReadsInv, Reads, FirstLineRead, ParsedAsWritten
<1> QED BY <1>1, SpecReads, PTL

\* The parser rejects at the first byte with which no request begins, and
\* accepts at the last byte of one.
THEOREM ParserRejectsWhenHopeless == Spec => []RejectedWhenHopeless
<1>1. ReadsInv => RejectedWhenHopeless
  <2> SUFFICES ASSUME ReadsInv PROVE RejectedWhenHopeless
    OBVIOUS
  <2>1. /\ parser \in Parser /\ input \in Seq(Bytes) /\ HasBack(parser)
        /\ Reads(parser, input) /\ (parser.state = "rejected" => Hopeless(input))
    BY DEF ReadsInv, Inv, TypeOK, BackExists, HasBack, InHeader
  <2>2. parser.state # "rejected" => BeginsARequest(input)
    BY <2>1, ReadsCompletes
  <2>3. ASSUME parser.state = "rejected", BeginsARequest(input)
        PROVE  FALSE
    <3>1. PICK k \in 0..Len(Plain) : IsRequest(input \o SubSeq(Plain, k + 1, Len(Plain)))
      BY <2>3 DEF BeginsARequest
    <3> DEFINE q == SubSeq(Plain, k + 1, Len(Plain))
               u == input \o q
    <3>2. q \in Seq(Bytes)
      BY PlainIs
    <3> HIDE DEF q
    <3>3. /\ u \in Seq(Bytes) /\ Len(u) = Len(input) + Len(q)
          /\ \A i \in 1..Len(input) : u[i] = input[i]
      BY <2>1, <3>2
    <3>4. IsRequest(u)
      BY <3>1 DEF q
    <3> HIDE DEF u
    <3>5. Len(input) \in Nat /\ Len(q) \in Nat
      BY <2>1, <3>2
    <3>6. Opens(input, u)
      BY <3>3, <3>5 DEF Opens
    <3> QED BY <2>1, <2>3, <3>3, <3>4, <3>6 DEF Hopeless
  <2>4. IsRequest(input) => parser.state = "accepted"
    BY <2>1, WholeIsAccepted
  <2> QED BY <2>2, <2>3, <2>4 DEF RejectedWhenHopeless
<1> QED BY <1>1, SpecReads, PTL

=============================================================================
