---------------------------- MODULE RequestGrammar --------------------------
(***************************************************************************)
(* What the parser should accept and what it should make of it, said of    *)
(* the whole input at once and not byte by byte.                           *)
(***************************************************************************)
EXTENDS RequestParser

TokenBytes == {"H", "T", "P", "letter", "digit", "."}
TextBytes  == Bytes \ {"TAB", "CR", "LF", "ctl"}
Blanks     == {"SP", "TAB"}

\* The first position of s behind n that has a byte of B, or 0.
First(s, B, n) ==
  LET at == {i \in (n + 1)..Len(s) : s[i] \in B} IN IF at = {} THEN 0 ELSE Min(at)

\* Where the line begins that position n is in, and what it is without the CR
\* and LF it ends in at n.
Start(s, n) == 1 + Max({0} \cup {i \in 1..(n - 1) : s[i] = "LF"})
Line(s, n)  == SubSeq(s, Start(s, n), n - 2)

-----------------------------------------------------------------------------
(* Lines. *)

\* A version behind position n.
IsVersion(l, n) ==
  /\ \A i \in 1..5 : n + i <= Len(l) /\ l[n + i] = <<"H", "T", "T", "P", "/">>[i]
  /\ \E k \in (n + 7)..(Len(l) - 1) :
       l[k] = "." /\ \A i \in (n + 6)..Len(l) : i # k => l[i] = "digit"

\* The two spaces of the first line.
Space1(l) == First(l, {"SP"}, 0)
Space2(l) == First(l, {"SP"}, Space1(l))

IsRequestLine(l) ==
  /\ Space1(l) > 1 /\ \A i \in 1..(Space1(l) - 1) : l[i] \in TokenBytes
  /\ Space2(l) > 0 /\ \A i \in (Space1(l) + 1)..(Space2(l) - 1) : l[i] \in TextBytes
  /\ IsVersion(l, Space2(l))

MethodIn(l) == SubSeq(l, 1, Space1(l) - 1)
UriIn(l)    == SubSeq(l, Space1(l) + 1, Space2(l) - 1)

Colon(l) == First(l, {":"}, 0)

IsHeader(l) ==
  /\ Colon(l) > 1 /\ \A i \in 1..(Colon(l) - 1) : l[i] \in TokenBytes
  /\ Colon(l) < Len(l) /\ l[Colon(l) + 1] = "SP"
  /\ \A i \in (Colon(l) + 2)..Len(l) : l[i] \in TextBytes

HeaderIn(l) ==
  [name |-> SubSeq(l, 1, Colon(l) - 1), value |-> SubSeq(l, Colon(l) + 2, Len(l))]

\* The text of a line that continues a header starts behind its blanks.
Text(l) ==
  LET t == First(l, Bytes \ Blanks, 0) IN IF t = 0 THEN << >> ELSE SubSeq(l, t, Len(l))

IsContinuation(l) ==
  l # << >> /\ l[1] \in Blanks /\ \A i \in DOMAIN Text(l) : Text(l)[i] \in TextBytes

-----------------------------------------------------------------------------
(* Requests. *)

Ends(s) == {n \in DOMAIN s : s[n] = "LF"}

\* The line that ends at n: the first is the request line, the others are
\* headers or continue one.
LineFits(s, n) ==
  LET start == Start(s, n)
      l == Line(s, n)
  IN /\ n > start /\ s[n - 1] = "CR"
     /\ \/ start = 1 /\ IsRequestLine(l)
        \/ start > 1 /\ IsHeader(l)
        \/ start > 1 /\ Start(s, start - 1) > 1 /\ IsContinuation(l)

\* An empty line, the first and last one, ends a request.
IsRequest(s) ==
  LET n == Len(s)
  IN /\ n > 2 /\ s[n] = "LF" /\ s[n - 1] = "CR" /\ s[n - 2] = "LF"
     /\ \A m \in Ends(s) \ {n} : LineFits(s, m)

\* What a line adds to the headers: one, or its text to the last one; folded
\* values are joined without the blanks that start a continuation line.
WithLine(headers, l) ==
  CASE l = << >> -> headers
    [] IsContinuation(l) -> [headers EXCEPT ![Len(headers)].value = @ \o Text(l)]
    [] OTHER -> Append(headers, HeaderIn(l))

\* The headers of the lines behind the first.
HeadersOf(s) ==
  LET upto[n \in 0..Len(s)] ==
        IF n = 0 THEN << >>
        ELSE IF s[n] = "LF" /\ Start(s, n) > 1 THEN WithLine(upto[n - 1], Line(s, n))
        ELSE upto[n - 1]
  IN upto[Len(s)]

FirstLine(s) == Line(s, First(s, {"LF"}, 0))

\* An accepted input is one request, no byte more or less, and method, uri and
\* headers are those of its lines.
ParsedAsWritten ==
  parser.state = "accepted" =>
    /\ IsRequest(input)
    /\ parser.method = MethodIn(FirstLine(input)) /\ parser.uri = UriIn(FirstLine(input))
    /\ parser.headers = HeadersOf(input)

\* A request; what begins like a request is completed by an end of this one.
Plain == <<"H", "SP", "SP", "H", "T", "T", "P", "/", "digit", ".", "digit", "CR", "LF",
           "H", ":", "SP", "CR", "LF", "CR", "LF">>

BeginsARequest(s) ==
  \E k \in 0..Len(Plain) : IsRequest(s \o SubSeq(Plain, k + 1, Len(Plain)))

\* Bytes are rejected as soon as no request begins with them and not before;
\* a whole request is accepted and not waited on.
RejectedWhenHopeless ==
  /\ (parser.state = "rejected") <=> ~BeginsARequest(input)
  /\ IsRequest(input) => parser.state = "accepted"

=============================================================================
