-------------------------- MODULE HttpServerProofs --------------------------
(***************************************************************************)
(* Proofs about HttpServer, for any number of clients, threads, reads and  *)
(* failed accepts.                                                         *)
(***************************************************************************)
EXTENDS HttpServer, TLAPS

Verdict(k) == IF k = "call" THEN "ok" ELSE "bad_request"

\* What a connection in phase ph owes to the reads s of its client, r of them
\* done: nothing is decided before the phase handling; then it is, by the read
\* done last, and the reply and the calls are those of that read.
Fits(ph, s, r, rep, got, n) ==
  /\ r \in 0..Len(s)
  /\ ph \in {"none", "queued", "reading"} =>
       (\A j \in 1..r : s[j] = "part") /\ got = "none" /\ n = 0
  /\ ph = "handling" => Decides(s, r) /\ s[r] \in {"call", "badpath"} /\ got = "none" /\ n = 0
  /\ ph = "writing" => Decides(s, r) /\ rep = Verdict(s[r]) /\ got = "none" /\ n = Called(s[r])
  /\ ph = "closed" => /\ got # "none" => Decides(s, r) /\ got = Verdict(s[r])
                      /\ n > 0 => n = 1 /\ Decides(s, r) /\ s[r] = "call"

ConnFits(c) == Fits(phase[c], sent[c], read[c], reply[c], gotten[c], calls[c])

\* Who waits to be accepted does so once, and was not accepted before.
Waiting ==
  /\ \A i \in DOMAIN backlog : phase[backlog[i]] = "queued"
  /\ \A i, j \in DOMAIN backlog : backlog[i] = backlog[j] => i = j

Inv == TypeOK /\ Waiting /\ \A c \in Clients : ConnFits(c)

\* A later read does not change what an earlier one decided.
LEMMA FitsMore ==
  ASSUME NEW ph, NEW s \in Seq(Chunks), NEW k \in Chunks, NEW r, NEW rep, NEW got, NEW n,
         Fits(ph, s, r, rep, got, n)
  PROVE  Fits(ph, Append(s, k), r, rep, got, n)
<1> DEFINE t == Append(s, k)
<1>1. r \in 0..Len(s)
  BY DEF Fits
<1>2. Len(t) = Len(s) + 1 /\ \A j \in 1..Len(s) : t[j] = s[j]
  OBVIOUS
<1>3. r \in 0..Len(t) /\ \A j \in 1..r : t[j] = s[j]
  BY <1>1, <1>2
<1>4. DOMAIN s = 1..Len(s) /\ DOMAIN t = 1..Len(t)
  OBVIOUS
<1> HIDE DEF t
<1>5. Decides(s, r) => Decides(t, r) /\ t[r] = s[r]
  BY <1>1, <1>3, <1>4 DEF Decides
<1>6. Fits(ph, t, r, rep, got, n)
  BY <1>3, <1>5 DEF Fits
<1> QED BY <1>6 DEF t

LEMMA InitInv == Init => Inv
<1> SUFFICES ASSUME Init PROVE Inv
  OBVIOUS
<1>1. TypeOK
  <2>1. << >> \in Seq(Clients) /\ << >> \in Seq(Chunks)
    OBVIOUS
  <2>2. "none" \in Phases /\ "none" \in Replies
    BY DEF Phases, Replies
  <2>3. armed \in BOOLEAN /\ stopped \in BOOLEAN
    BY DEF Init
  <2>4. present \in [Clients -> BOOLEAN]
    BY DEF Init
  <2> QED BY <2>1, <2>2, <2>3, <2>4 DEF Init, TypeOK
<1>2. Waiting
  BY DEF Init, Waiting
<1>3. ASSUME NEW c \in Clients PROVE ConnFits(c)
  <2>1. /\ phase[c] = "none" /\ sent[c] = << >> /\ read[c] = 0 /\ gotten[c] = "none" /\ calls[c] = 0
    BY DEF Init
  <2> QED BY <2>1 DEF ConnFits, Fits
<1> QED BY <1>1, <1>2, <1>3 DEF Inv

-----------------------------------------------------------------------------
\* Inv is preserved: a step of one connection leaves the others alone.

LEMMA OthersFit ==
  ASSUME Inv, NEW c \in Clients, ConnFits(c)',
         \A d \in Clients \ {c} :
           /\ phase'[d] = phase[d] /\ sent'[d] = sent[d] /\ read'[d] = read[d]
           /\ reply'[d] = reply[d] /\ gotten'[d] = gotten[d] /\ calls'[d] = calls[d]
  PROVE  \A d \in Clients : ConnFits(d)'
  BY DEF Inv, ConnFits

\* A connection that was not queued and goes on does not disturb the queue.
LEMMA WaitingStays ==
  ASSUME Inv, NEW c \in Clients, phase[c] # "queued", UNCHANGED backlog,
         \A d \in Clients \ {c} : phase'[d] = phase[d]
  PROVE  Waiting'
<1>1. \A i \in DOMAIN backlog : backlog[i] \in Clients
  BY DEF Inv, TypeOK
<1> QED BY <1>1 DEF Inv, Waiting

LEMMA ClientInv ==
  ASSUME Inv, NEW c \in Clients, Client(c)
  PROVE  Inv'
<1>1. CASE Connect(c)
  <2>1. /\ phase[c] = "none" /\ phase' = [phase EXCEPT ![c] = "queued"]
        /\ backlog' = Append(backlog, c)
        /\ UNCHANGED <<armed, errors, sent, read, reply, gotten, calls, present, stopped>>
    BY <1>1 DEF Connect
  <2>2. TypeOK'
    BY <2>1 DEF Inv, TypeOK, Phases
  <2>3. backlog \in Seq(Clients) /\ phase \in [Clients -> Phases]
    BY DEF Inv, TypeOK
  <2>4. /\ DOMAIN backlog' = 1..(Len(backlog) + 1) /\ DOMAIN backlog = 1..Len(backlog)
        /\ backlog'[Len(backlog) + 1] = c
        /\ \A i \in 1..Len(backlog) : backlog'[i] = backlog[i] /\ backlog[i] \in Clients
    BY <2>1, <2>3
  <2>5. \A i \in 1..Len(backlog) : backlog[i] # c
    BY <2>1, <2>4 DEF Inv, Waiting
  <2>6. \A i \in 1..Len(backlog) : phase'[backlog[i]] = "queued"
    BY <2>1, <2>3, <2>4, <2>5 DEF Inv, Waiting
  <2>7. Waiting'
    BY <2>1, <2>3, <2>4, <2>5, <2>6 DEF Inv, Waiting
  <2>8. phase'[c] = "queued"
    BY <2>1, <2>3
  <2>9. ConnFits(c)'
    BY <2>1, <2>8 DEF Inv, ConnFits, Fits
  <2>10. \A d \in Clients : ConnFits(d)'
    BY <2>1, <2>9, OthersFit DEF Inv, TypeOK
  <2> QED BY <2>2, <2>7, <2>10 DEF Inv
<1>2. CASE HangUp(c)
  <2>1. present' \in [Clients -> BOOLEAN]
        /\ UNCHANGED <<armed, backlog, errors, phase, sent, read, reply, gotten, calls, stopped>>
    BY <1>2 DEF HangUp, Inv, TypeOK
  <2> QED BY <2>1 DEF Inv, TypeOK, Waiting, ConnFits
<1>3. ASSUME NEW k \in Chunks, SendChunk(c, k) PROVE Inv'
  <2>1. /\ sent' = [sent EXCEPT ![c] = Append(sent[c], k)]
        /\ UNCHANGED <<armed, backlog, errors, phase, read, reply, gotten, calls, present, stopped>>
    BY <1>3 DEF SendChunk
  <2>2. sent[c] \in Seq(Chunks) /\ sent'[c] = Append(sent[c], k)
    BY <2>1 DEF Inv, TypeOK
  <2>3. TypeOK'
    BY <2>1, <2>2 DEF Inv, TypeOK
  <2>4. Fits(phase[c], sent'[c], read[c], reply[c], gotten[c], calls[c])
    BY <2>2, FitsMore DEF Inv, ConnFits
  <2>5. ConnFits(c)'
    BY <2>1, <2>4 DEF ConnFits
  <2>6. \A d \in Clients : ConnFits(d)'
    BY <2>1, <2>5, OthersFit DEF Inv, TypeOK
  <2> QED BY <2>1, <2>3, <2>6 DEF Inv, Waiting
<1> QED BY <1>1, <1>2, <1>3 DEF Client

LEMMA HandleAcceptInv ==
  ASSUME Inv, HandleAccept
  PROVE  Inv'
<1>0. PICK c : c = Head(backlog)
  OBVIOUS
<1>1. /\ backlog # << >> /\ backlog' = Tail(backlog) /\ armed' = armed
      /\ phase' = [phase EXCEPT ![c] = "reading"]
      /\ UNCHANGED <<errors, sent, read, reply, gotten, calls, present, stopped>>
  BY <1>0 DEF HandleAccept
<1>2. backlog \in Seq(Clients) /\ phase \in [Clients -> Phases]
  BY DEF Inv, TypeOK
<1>3. c \in Clients /\ c = backlog[1] /\ 1 \in DOMAIN backlog
  BY <1>0, <1>1, <1>2
<1>4. phase[c] = "queued"
  BY <1>3 DEF Inv, Waiting
<1>5. TypeOK'
  BY <1>1, <1>2, <1>3 DEF Inv, TypeOK, Phases
<1>6. /\ DOMAIN backlog' = 1..(Len(backlog) - 1) /\ DOMAIN backlog = 1..Len(backlog)
      /\ \A i \in 1..(Len(backlog) - 1) : backlog'[i] = backlog[i + 1] /\ i + 1 \in DOMAIN backlog
      /\ Len(backlog) \in Nat
  BY <1>1, <1>2
<1>7. \A i \in DOMAIN backlog' : backlog'[i] # c /\ backlog'[i] \in Clients
                                 /\ phase[backlog'[i]] = "queued"
  <2> TAKE i \in DOMAIN backlog'
  <2>1. i \in 1..(Len(backlog) - 1) /\ backlog'[i] = backlog[i + 1] /\ i + 1 \in DOMAIN backlog /\ i + 1 # 1
    BY <1>6
  <2>2. backlog[i + 1] # backlog[1]
    BY <1>3, <2>1 DEF Inv, Waiting
  <2>3. backlog[i + 1] \in Clients
    BY <1>2, <2>1
  <2> QED BY <1>3, <2>1, <2>2, <2>3 DEF Inv, Waiting
<1>8. \A i, j \in DOMAIN backlog' : backlog'[i] = backlog'[j] => i = j
  <2> SUFFICES ASSUME NEW i \in DOMAIN backlog', NEW j \in DOMAIN backlog', backlog'[i] = backlog'[j]
               PROVE  i = j
    OBVIOUS
  <2>1. backlog[i + 1] = backlog[j + 1] /\ i + 1 \in DOMAIN backlog /\ j + 1 \in DOMAIN backlog
    BY <1>6
  <2>2. i + 1 = j + 1
    BY <2>1 DEF Inv, Waiting
  <2> QED BY <1>6, <2>2
<1>9. Waiting'
  BY <1>1, <1>2, <1>7, <1>8 DEF Waiting
<1>10. ConnFits(c)'
  <2>1. phase'[c] = "reading"
    BY <1>1, <1>2, <1>3
  <2> QED BY <1>1, <1>3, <1>4, <2>1 DEF Inv, ConnFits, Fits
<1>11. \A d \in Clients : ConnFits(d)'
  BY <1>1, <1>2, <1>3, <1>10, OthersFit
<1> QED BY <1>5, <1>9, <1>11 DEF Inv

LEMMA HandleReadInv ==
  ASSUME Inv, NEW c \in Clients, HandleRead(c)
  PROVE  Inv'
<1> DEFINE s == sent[c]
           r == read[c] + 1
           k == s[r]
<1>1. /\ phase[c] = "reading" /\ read[c] < Len(s)
      /\ phase' = [phase EXCEPT ![c] = AfterRead(k)]
      /\ reply' = [reply EXCEPT ![c] = IF AfterRead(k) = "writing" THEN "bad_request" ELSE reply[c]]
      /\ read' = [read EXCEPT ![c] = r]
      /\ UNCHANGED <<armed, backlog, errors, sent, gotten, calls, present, stopped>>
  BY DEF HandleRead
<1>2. /\ s \in Seq(Chunks) /\ read[c] \in Nat /\ reply[c] \in Replies
      /\ phase \in [Clients -> Phases] /\ reply \in [Clients -> Replies] /\ read \in [Clients -> Nat]
  BY DEF Inv, TypeOK
<1>3. r \in 1..Len(s) /\ r - 1 = read[c] /\ DOMAIN s = 1..Len(s) /\ k \in Chunks /\ r \in Nat
  BY <1>1, <1>2
<1>4. /\ k = "part" => AfterRead(k) = "reading"
      /\ k = "bad" => AfterRead(k) = "writing"
      /\ k \in {"call", "badpath"} => AfterRead(k) = "handling"
      /\ AfterRead(k) \in Phases
  BY <1>3 DEF AfterRead, Chunks, Phases
<1>5. /\ phase'[c] = AfterRead(k) /\ read'[c] = r /\ sent'[c] = s
      /\ reply'[c] = (IF AfterRead(k) = "writing" THEN "bad_request" ELSE reply[c])
  BY <1>1, <1>2
<1>6. (\A j \in 1..read[c] : s[j] = "part") /\ gotten[c] = "none" /\ calls[c] = 0
  BY <1>1 DEF Inv, ConnFits, Fits
<1>7. TypeOK'
  <2>1. (IF AfterRead(k) = "writing" THEN "bad_request" ELSE reply[c]) \in Replies
    BY <1>2 DEF Replies
  <2> QED BY <1>1, <1>2, <1>3, <1>4, <2>1 DEF Inv, TypeOK
<1>8. k # "part" => Decides(s, r)
  BY <1>3, <1>6 DEF Decides
<1>9. k = "part" => \A j \in 1..r : s[j] = "part"
  BY <1>2, <1>3, <1>6
<1> HIDE DEF s, r, k
<1>10. k = s[r]
  BY DEF k
<1>11. Fits(phase'[c], s, r, reply'[c], "none", 0)
  <2>1. CASE k = "part"
    BY <2>1, <1>3, <1>4, <1>5, <1>9 DEF Fits
  <2>2. CASE k = "bad"
    BY <2>2, <1>3, <1>4, <1>5, <1>8, <1>10 DEF Fits, Verdict, Called
  <2>3. CASE k \in {"call", "badpath"}
    BY <2>3, <1>3, <1>4, <1>5, <1>8, <1>10 DEF Fits
  <2> QED BY <2>1, <2>2, <2>3, <1>3 DEF Chunks
<1>12. ConnFits(c)'
  BY <1>1, <1>5, <1>6, <1>11 DEF ConnFits
<1>13. \A d \in Clients : ConnFits(d)'
  BY <1>1, <1>2, <1>12, OthersFit
<1>14. Waiting'
  BY <1>1, <1>2, WaitingStays
<1> QED BY <1>7, <1>13, <1>14 DEF Inv

LEMMA FailReadInv ==
  ASSUME Inv, NEW c \in Clients, FailRead(c)
  PROVE  Inv'
<1>1. /\ phase[c] = "reading" /\ phase' = [phase EXCEPT ![c] = "closed"]
      /\ UNCHANGED <<armed, backlog, errors, sent, read, reply, gotten, calls, present, stopped>>
  BY DEF FailRead, AfterFailure
<1>2. phase \in [Clients -> Phases]
  BY DEF Inv, TypeOK
<1>3. TypeOK'
  BY <1>1 DEF Inv, TypeOK, Phases
<1>4. ConnFits(c)'
  BY <1>1, <1>2 DEF Inv, ConnFits, Fits
<1>5. \A d \in Clients : ConnFits(d)'
  BY <1>1, <1>2, <1>4, OthersFit
<1>6. Waiting'
  BY <1>1, <1>2, WaitingStays
<1> QED BY <1>3, <1>5, <1>6 DEF Inv

LEMMA HandleRequestInv ==
  ASSUME Inv, NEW c \in Clients, HandleRequest(c)
  PROVE  Inv'
<1> DEFINE k == sent[c][read[c]]
<1>1. /\ phase[c] = "handling" /\ phase' = [phase EXCEPT ![c] = "writing"]
      /\ calls' = [calls EXCEPT ![c] = calls[c] + Called(k)]
      /\ reply' = [reply EXCEPT ![c] = Verdict(k)]
      /\ UNCHANGED <<armed, backlog, errors, sent, read, gotten, present, stopped>>
  BY DEF HandleRequest, Verdict
<1>2. /\ phase \in [Clients -> Phases] /\ calls \in [Clients -> Nat] /\ reply \in [Clients -> Replies]
  BY DEF Inv, TypeOK
<1>3. Called(k) \in Nat /\ Verdict(k) \in Replies
  BY DEF Called, Verdict, Replies
<1>4. Decides(sent[c], read[c]) /\ calls[c] = 0 /\ gotten[c] = "none" /\ read[c] \in 0..Len(sent[c])
  BY <1>1 DEF Inv, ConnFits, Fits
<1> HIDE DEF k
<1>5. phase'[c] = "writing" /\ calls'[c] = Called(k) /\ reply'[c] = Verdict(k)
  BY <1>1, <1>2, <1>3, <1>4
<1>6. TypeOK'
  BY <1>1, <1>2, <1>3 DEF Inv, TypeOK, Phases
<1>7. ConnFits(c)'
  BY <1>1, <1>4, <1>5 DEF ConnFits, Fits, k
<1>8. \A d \in Clients : ConnFits(d)'
  BY <1>1, <1>2, <1>7, OthersFit
<1>9. Waiting'
  BY <1>1, <1>2, WaitingStays
<1> QED BY <1>6, <1>8, <1>9 DEF Inv

LEMMA HandleWriteInv ==
  ASSUME Inv, NEW c \in Clients, HandleWrite(c)
  PROVE  Inv'
<1>1. /\ phase[c] = "writing" /\ phase' = [phase EXCEPT ![c] = "closed"]
      /\ gotten' = IF present[c] THEN [gotten EXCEPT ![c] = reply[c]] ELSE gotten
      /\ UNCHANGED <<armed, backlog, errors, sent, read, reply, calls, present, stopped>>
  BY DEF HandleWrite
<1>2. /\ phase \in [Clients -> Phases] /\ gotten \in [Clients -> Replies] /\ reply[c] \in Replies
  BY DEF Inv, TypeOK
<1>3. /\ gotten' \in [Clients -> Replies] /\ \A d \in Clients \ {c} : gotten'[d] = gotten[d]
      /\ gotten'[c] \in {reply[c], gotten[c]}
  BY <1>1, <1>2
<1>4. TypeOK'
  BY <1>1, <1>2, <1>3 DEF Inv, TypeOK, Phases
<1>5. ConnFits(c)'
  <2>1. phase'[c] = "closed"
    BY <1>1, <1>2
  <2>2. /\ Decides(sent[c], read[c]) /\ reply[c] = Verdict(sent[c][read[c]]) /\ gotten[c] = "none"
        /\ calls[c] = Called(sent[c][read[c]]) /\ read[c] \in 0..Len(sent[c])
    BY <1>1 DEF Inv, ConnFits, Fits
  <2> QED BY <1>1, <1>3, <2>1, <2>2 DEF ConnFits, Fits, Called
<1>6. \A d \in Clients : ConnFits(d)'
  BY <1>1, <1>2, <1>3, <1>5, OthersFit
<1>7. Waiting'
  BY <1>1, <1>2, WaitingStays
<1> QED BY <1>4, <1>6, <1>7 DEF Inv

LEMMA NextInv == Inv /\ [Next]_vars => Inv'
<1> SUFFICES ASSUME Inv, [Next]_vars PROVE Inv'
  OBVIOUS
<1>1. CASE UNCHANGED vars
  BY <1>1 DEF vars, conns, Inv, TypeOK, Waiting, ConnFits
<1>2. CASE FailAccept \/ Stop
  <2>1. UNCHANGED <<backlog, phase, sent, read, reply, gotten, calls, present>>
    BY <1>2 DEF FailAccept, Stop, conns
  <2>2. errors' \in Nat
    BY <1>2 DEF FailAccept, Stop, Inv, TypeOK
  <2>3. armed' = FALSE \/ armed' = armed
    BY <1>2 DEF FailAccept, Stop
  <2>4. stopped' = TRUE \/ stopped' = stopped
    BY <1>2 DEF FailAccept, Stop
  <2>5. armed' \in BOOLEAN /\ stopped' \in BOOLEAN
    BY <2>3, <2>4, Zenon DEF Inv, TypeOK
  <2>6. TypeOK'
    BY <2>1, <2>2, <2>5 DEF Inv, TypeOK
  <2> QED BY <2>1, <2>6 DEF Inv, Waiting, ConnFits
<1>3. CASE HandleAccept
  BY <1>3, HandleAcceptInv
<1>4. CASE \E c \in Clients : Client(c) \/ Handlers(c)
  BY <1>4, ClientInv, HandleReadInv, FailReadInv, HandleRequestInv, HandleWriteInv DEF Handlers
<1> QED BY <1>1, <1>2, <1>3, <1>4 DEF Next

-----------------------------------------------------------------------------

\* With any number of connections and threads, a client is only ever answered
\* for its first request, and that reaches the BaseSystem at most once.
THEOREM FirstRequestIsAnswered == Spec => []AnswersTheFirstRequest
<1>1. Inv => AnswersTheFirstRequest
  <2> SUFFICES ASSUME Inv, NEW c \in Clients
               PROVE  /\ gotten[c] # "none" =>
                           \E i \in DOMAIN sent[c] : /\ Decides(sent[c], i)
                                                     /\ gotten[c] = Verdict(sent[c][i])
                      /\ calls[c] > 0 =>
                           /\ calls[c] = 1
                           /\ \E i \in DOMAIN sent[c] : Decides(sent[c], i) /\ sent[c][i] = "call"
    BY DEF AnswersTheFirstRequest, Verdict
  <2>1. phase[c] \in Phases /\ ConnFits(c)
    BY DEF Inv, TypeOK
  <2>2. Decides(sent[c], read[c]) => read[c] \in DOMAIN sent[c]
    BY DEF Decides
  <2>3. gotten[c] # "none" => Decides(sent[c], read[c]) /\ gotten[c] = Verdict(sent[c][read[c]])
    BY <2>1 DEF Phases, ConnFits, Fits
  <2>4. calls[c] > 0 => calls[c] = 1 /\ Decides(sent[c], read[c]) /\ sent[c][read[c]] = "call"
    BY <2>1 DEF Phases, ConnFits, Fits, Called
  <2> QED BY <2>2, <2>3, <2>4
<1> QED BY <1>1, InitInv, NextInv, PTL DEF Spec

=============================================================================
