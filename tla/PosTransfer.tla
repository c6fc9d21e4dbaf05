---------------------------- MODULE PosTransfer -----------------------------
(***************************************************************************)
(* Cart::sendToPos (src/src/cart.cpp) step by step: under one lock for all *)
(* carts it writes POSnnn.TMP row by row and renames it to POSnnn.IN,      *)
(* where the pay station looks for it.  BaseSystem takes these steps as    *)
(* one.  A session is not changed while it is sent: its device waits for   *)
(* the answer.                                                             *)
(***************************************************************************)
EXTENDS Integers, Sequences

CONSTANTS
  Threads, PayStations, Carts,
  Size,        \* [Carts -> Nat], the number of units in each cart
  NoFile,      \* a file that does not exist
  NoThread,    \* nobody has the lock
  MaxSends,    \* bound: sessions sent
  MaxCrashes   \* bound: deaths of the process

\* The header, of cart c, announces `count` units; a row is known by its cart.
File == [cart : Carts, count : Nat, rows : Seq(Carts)]

ASSUME TransferAssumption ==
  /\ Size \in [Carts -> Nat]
  /\ NoThread \notin Threads
  /\ MaxSends \in Nat /\ MaxCrashes \in Nat
  /\ NoFile \notin File

VARIABLES
  tmp, in,  \* POSnnn.TMP and POSnnn.IN of each pay station
  mutex,    \* cart_sendtopos_mutex
  job,      \* what each thread is doing
  sends, crashes

vars == <<tmp, in, mutex, job, sends, crashes>>

Document(c) == [cart |-> c, count |-> Size[c], rows |-> [n \in 1..Size[c] |-> c]]

Idle == [pc |-> "idle"]
Job == [pc : {"lock", "open", "write", "unlock"}, cart : Carts, pos : PayStations, rows : Nat]

Init ==
  /\ tmp = [p \in PayStations |-> NoFile] /\ in = [p \in PayStations |-> NoFile]
  /\ mutex = NoThread /\ job = [t \in Threads |-> Idle]
  /\ sends = 0 /\ crashes = 0

-----------------------------------------------------------------------------

\* endSession for a session that is ready for items.
Begin(t, c, p) ==
  /\ job[t] = Idle /\ sends < MaxSends
  /\ job' = [job EXCEPT ![t] = [pc |-> "lock", cart |-> c, pos |-> p, rows |-> 0]]
  /\ sends' = sends + 1
  /\ UNCHANGED <<tmp, in, mutex, crashes>>

\* Faulty: the lock is the cart's own, which no other cart's thread holds.
FreeAlways == mutex \in Threads \cup {NoThread}

Free == mutex = NoThread

Lock(t) ==
  /\ job[t].pc = "lock" /\ Free
  /\ mutex' = t
  /\ job' = [job EXCEPT ![t].pc = "open"]
  /\ UNCHANGED <<tmp, in, sends, crashes>>

\* Faulty: the file is opened to append to it.
OpenedAtEnd(c, before) ==
  [cart |-> c, count |-> Size[c], rows |-> IF before = NoFile THEN << >> ELSE before.rows]

\* ofstream truncates whatever an earlier process left there.
Opened(c, before) == [cart |-> c, count |-> Size[c], rows |-> << >>]

\* The file is created and the header written.
Open(t) ==
  /\ job[t].pc = "open"
  /\ LET j == job[t] IN tmp' = [tmp EXCEPT ![j.pos] = Opened(j.cart, @)]
  /\ job' = [job EXCEPT ![t].pc = "write"]
  /\ UNCHANGED <<in, mutex, sends, crashes>>

WithRow(f, c) == IF f = NoFile THEN f ELSE [f EXCEPT !.rows = Append(@, c)]

WriteRow(t) ==
  /\ job[t].pc = "write" /\ job[t].rows < Size[job[t].cart]
  /\ LET j == job[t] IN
       tmp' = [tmp EXCEPT ![j.pos] = WithRow(@, j.cart)]
  /\ job' = [job EXCEPT ![t].rows = @ + 1]
  /\ UNCHANGED <<in, mutex, sends, crashes>>

RowsWritten(j) == j.rows = Size[j.cart]

\* The file appears at once, in place of an older one.
Rename(t) ==
  /\ job[t].pc = "write" /\ RowsWritten(job[t])
  /\ LET p == job[t].pos IN
       /\ in' = [in EXCEPT ![p] = tmp[p]]
       /\ tmp' = [tmp EXCEPT ![p] = NoFile]
  /\ job' = [job EXCEPT ![t].pc = "unlock"]
  /\ UNCHANGED <<mutex, sends, crashes>>

\* Faulty: the lock is not given back.
UnlockedNever == mutex

Unlocked == NoThread

Unlock(t) ==
  /\ job[t].pc = "unlock"
  /\ mutex' = Unlocked
  /\ job' = [job EXCEPT ![t] = Idle]
  /\ UNCHANGED <<tmp, in, sends, crashes>>

\* The pay station reads its file and removes it.
Take(p) ==
  /\ in[p] # NoFile
  /\ in' = [in EXCEPT ![p] = NoFile]
  /\ UNCHANGED <<tmp, mutex, job, sends, crashes>>

\* The process dies, also of an exception of rename, and is started again:
\* the files stay.
Crash ==
  /\ crashes < MaxCrashes
  /\ crashes' = crashes + 1
  /\ mutex' = NoThread /\ job' = [t \in Threads |-> Idle]
  /\ UNCHANGED <<tmp, in, sends>>

-----------------------------------------------------------------------------

Send(t) == Lock(t) \/ Open(t) \/ WriteRow(t) \/ Rename(t) \/ Unlock(t)

Next ==
  \/ \E t \in Threads : Send(t) \/ \E c \in Carts, p \in PayStations : Begin(t, c, p)
  \/ \E p \in PayStations : Take(p)
  \/ Crash

Spec == Init /\ [][Next]_vars

\* A thread of the pool goes on; a free lock is given to one that waits for
\* it.  No session has to be sent and no pay station to take its file.
FairSpec == Spec /\ \A t \in Threads : WF_vars(Send(t))

-----------------------------------------------------------------------------

\* Every variable holds a value of its type.
TypeOK ==
  /\ tmp \in [PayStations -> File \cup {NoFile}] /\ in \in [PayStations -> File \cup {NoFile}]
  /\ mutex \in Threads \cup {NoThread}
  /\ job \in [Threads -> Job \cup {Idle}]
  /\ sends \in Nat /\ crashes \in Nat

\* Only the holder of the lock is past Lock, and its .TMP file holds what it
\* has written, whatever an earlier process left there.
HolderOwnsTheFile ==
  \A t \in Threads :
    LET j == job[t] IN
      /\ j.pc \in {"open", "write", "unlock"} => mutex = t
      /\ j.pc = "write" => /\ j.rows <= Size[j.cart]
                           /\ tmp[j.pos] = [cart |-> j.cart, count |-> Size[j.cart],
                                            rows |-> [n \in 1..j.rows |-> j.cart]]

\* A pay station only finds whole documents of one session: the transfer is
\* the mailbox, with the rename as its one visible step.
Mailbox == INSTANCE PosMailbox WITH box <- in
DeliversWholeDocuments == Mailbox!Spec

\* Every session sent is answered, or lost with the process.
SendsEnd == \A t \in Threads : (job[t] # Idle) ~> (job[t] = Idle)

=============================================================================
