----------------------------- MODULE HttpServer -----------------------------
(***************************************************************************)
(* http::server3: server, connection and request_handler, with the pool of *)
(* threads that runs their handlers (src/src/server.cpp, connection.cpp,   *)
(* request_handler.cpp).  A connection has one operation pending or one    *)
(* handler running, never both.  What a client sends is known by what      *)
(* request_parser makes of it (RequestParser), what a request does by      *)
(* whether it reaches the BaseSystem (BaseSystem).                         *)
(***************************************************************************)
EXTENDS Integers, Sequences, FiniteSets

CONSTANTS
  Clients,          \* one connection each
  PoolSize,         \* thread_pool_size_
  MaxChunks,        \* bound: reads a client's bytes come in
  MaxAcceptErrors   \* bound: failed accepts

ASSUME ServerAssumption ==
  PoolSize \in Nat \ {0} /\ MaxChunks \in Nat /\ MaxAcceptErrors \in Nat

\* "part" leaves the request incomplete, "bad" is no request, "call" and
\* "badpath" complete one; the latter is refused by handle_request.
Chunks == {"part", "bad", "call", "badpath"}

Phases == {"none", "queued", "reading", "handling", "writing", "closed"}

Replies == {"none", "ok", "bad_request"}

VARIABLES
  armed,    \* an async_accept is pending
  backlog,  \* connections the kernel has and the acceptor has not
  errors,   \* failed accepts
  phase,    \* of each connection
  sent,     \* what its client has sent, read by read
  read,     \* how many of these reads were done
  reply,    \* reply_
  gotten,   \* what its client has received
  calls,    \* requests of its handed to the BaseSystem
  present,  \* the client has not closed its side
  stopped   \* io_service::stop was called

conns == <<phase, sent, read, reply, gotten, calls, present>>
vars == <<armed, backlog, errors, conns, stopped>>

Init ==
  /\ armed = TRUE /\ backlog = << >> /\ errors = 0 /\ stopped = FALSE
  /\ phase = [c \in Clients |-> "none"] /\ present = [c \in Clients |-> TRUE]
  /\ sent = [c \in Clients |-> << >>] /\ read = [c \in Clients |-> 0]
  /\ reply = [c \in Clients |-> "none"] /\ gotten = [c \in Clients |-> "none"]
  /\ calls = [c \in Clients |-> 0]

-----------------------------------------------------------------------------
\* Clients and the network.

Connect(c) ==
  /\ phase[c] = "none"
  /\ phase' = [phase EXCEPT ![c] = "queued"] /\ backlog' = Append(backlog, c)
  /\ UNCHANGED <<armed, errors, sent, read, reply, gotten, calls, present, stopped>>

SendChunk(c, k) ==
  /\ phase[c] \notin {"none", "closed"} /\ present[c] /\ Len(sent[c]) < MaxChunks
  /\ sent' = [sent EXCEPT ![c] = Append(@, k)]
  /\ UNCHANGED <<armed, backlog, errors, phase, read, reply, gotten, calls, present, stopped>>

HangUp(c) ==
  /\ phase[c] \notin {"none", "closed"} /\ present[c]
  /\ present' = [present EXCEPT ![c] = FALSE]
  /\ UNCHANGED <<armed, backlog, errors, phase, sent, read, reply, gotten, calls, stopped>>

-----------------------------------------------------------------------------

\* Faulty: a thread waits for the bytes of its connection.
HoldsReading == {"reading", "handling"}

\* Faulty: a thread waits until its reply is written.
HoldsWriting == {"handling", "writing"}

\* The phases of a connection in which it has a thread for long.
Holds == {"handling"}

\* io_service::run finds a thread for a handler that is ready.
FreeThread == ~stopped /\ Cardinality({c \in Clients : phase[c] \in Holds}) < PoolSize

\* handle_accept without an error starts the connection and accepts again.
HandleAccept ==
  /\ armed /\ backlog # << >> /\ FreeThread
  /\ backlog' = Tail(backlog)
  /\ phase' = [phase EXCEPT ![Head(backlog)] = "reading"]
  /\ UNCHANGED <<armed, errors, sent, read, reply, gotten, calls, present, stopped>>

\* With an error, as when the process is out of descriptors, it does nothing.
FailAccept ==
  /\ armed /\ FreeThread /\ errors < MaxAcceptErrors
  /\ armed' = FALSE /\ errors' = errors + 1
  /\ UNCHANGED <<backlog, conns, stopped>>

\* Faulty: indeterminate is taken for false.
AfterReadHasty(k) ==
  CASE k \in {"part", "bad"} -> "writing" [] k \in {"call", "badpath"} -> "handling"

\* handle_read parses what it was given, and reads on, answers or handles it.
AfterRead(k) ==
  CASE k = "part" -> "reading" [] k = "bad" -> "writing" [] k \in {"call", "badpath"} -> "handling"

HandleRead(c) ==
  /\ phase[c] = "reading" /\ read[c] < Len(sent[c]) /\ FreeThread
  /\ LET k == sent[c][read[c] + 1] IN
       /\ phase' = [phase EXCEPT ![c] = AfterRead(k)]
       /\ reply' = [reply EXCEPT ![c] = IF AfterRead(k) = "writing" THEN "bad_request" ELSE @]
  /\ read' = [read EXCEPT ![c] = @ + 1]
  /\ UNCHANGED <<armed, backlog, errors, sent, gotten, calls, present, stopped>>

\* Faulty: an error is taken for a read of nothing.
AfterFailureKept == "reading"

AfterFailure == "closed"

\* A read fails when the client has gone, with its last bytes or without.
FailRead(c) ==
  /\ phase[c] = "reading" /\ ~present[c] /\ FreeThread
  /\ phase' = [phase EXCEPT ![c] = AfterFailure]
  /\ UNCHANGED <<armed, backlog, errors, sent, read, reply, gotten, calls, present, stopped>>

Called(k) == IF k = "call" THEN 1 ELSE 0

\* The end of handle_request, for the chunk read last.
HandleRequest(c) ==
  /\ phase[c] = "handling"
  /\ LET k == sent[c][read[c]] IN
       /\ calls' = [calls EXCEPT ![c] = @ + Called(k)]
       /\ reply' = [reply EXCEPT ![c] = IF k = "call" THEN "ok" ELSE "bad_request"]
  /\ phase' = [phase EXCEPT ![c] = "writing"]
  /\ UNCHANGED <<armed, backlog, errors, sent, read, gotten, present, stopped>>

\* handle_write: the reply is on its way and the connection is shut down, or
\* the client has gone.  What was not read is dropped.
HandleWrite(c) ==
  /\ phase[c] = "writing" /\ FreeThread
  /\ gotten' = IF present[c] THEN [gotten EXCEPT ![c] = reply[c]] ELSE gotten
  /\ phase' = [phase EXCEPT ![c] = "closed"]
  /\ UNCHANGED <<armed, backlog, errors, sent, read, reply, calls, present, stopped>>

\* server::stop, from main after a signal: handlers that run come to an end,
\* others are not started; run joins the threads.
Stop ==
  /\ ~stopped /\ stopped' = TRUE
  /\ UNCHANGED <<armed, backlog, errors, conns>>

-----------------------------------------------------------------------------

Client(c) == Connect(c) \/ HangUp(c) \/ \E k \in Chunks : SendChunk(c, k)

Handlers(c) == HandleRead(c) \/ FailRead(c) \/ HandleRequest(c) \/ HandleWrite(c)

Next ==
  \/ \E c \in Clients : Client(c) \/ Handlers(c)
  \/ HandleAccept \/ FailAccept \/ Stop

Spec == Init /\ [][Next]_vars

\* The threads of the pool run what is ready; a request of the BaseSystem
\* ends (RequestsEnd of BaseSystem, SendsEnd of PosTransfer).  Clients need
\* not go on, nobody has to stop the server.
FairSpec == Spec /\ WF_vars(HandleAccept) /\ \A c \in Clients : WF_vars(Handlers(c))

-----------------------------------------------------------------------------

\* Every variable holds a value of its type.
TypeOK ==
  /\ armed \in BOOLEAN /\ backlog \in Seq(Clients) /\ errors \in Nat /\ stopped \in BOOLEAN
  /\ phase \in [Clients -> Phases] /\ present \in [Clients -> BOOLEAN]
  /\ sent \in [Clients -> Seq(Chunks)] /\ read \in [Clients -> Nat]
  /\ reply \in [Clients -> Replies] /\ gotten \in [Clients -> Replies]
  /\ calls \in [Clients -> Nat]

\* Chunk i is the first that decides what its client is answered.
Decides(s, i) == i \in DOMAIN s /\ s[i] # "part" /\ \A j \in 1..(i - 1) : s[j] = "part"

\* A client is answered for its first request, however its bytes are cut into
\* reads and whatever follows them; that request reaches the BaseSystem once,
\* one that is refused never does.
AnswersTheFirstRequest ==
  \A c \in Clients :
    /\ gotten[c] # "none" =>
         \E i \in DOMAIN sent[c] : /\ Decides(sent[c], i)
                       /\ gotten[c] = (IF sent[c][i] = "call" THEN "ok" ELSE "bad_request")
    /\ calls[c] > 0 =>
         calls[c] = 1 /\ \E i \in DOMAIN sent[c] : Decides(sent[c], i) /\ sent[c][i] = "call"

\* A client that has sent a request, or what is none, is answered, however many
\* others keep silent: none of them has a thread.  Unless it goes, the server is
\* stopped or an accept has failed.
RequestsAreAnswered ==
  \A c \in Clients :
    (\E i \in DOMAIN sent[c] : Decides(sent[c], i)) ~> (gotten[c] # "none" \/ ~present[c] \/ stopped \/ errors > 0)

\* After a stop every thread ends, and with them the process; a request that
\* was being handled is handled to its end.
StopEnds ==
  stopped ~> [](stopped /\ \A c \in Clients : phase[c] \notin Holds)

\* A client that goes does not leave its connection behind, once accepted.
GoneConnectionsClose ==
  \A c \in Clients :
    (~present[c] /\ phase[c] # "queued") ~> (phase[c] = "closed" \/ stopped)

=============================================================================
