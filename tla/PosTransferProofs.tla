-------------------------- MODULE PosTransferProofs --------------------------
(***************************************************************************)
(* Proofs about PosTransfer, for any number of threads, pay stations,      *)
(* carts, sends and deaths of the process.                                 *)
(***************************************************************************)
EXTENDS PosTransfer, TLAPS

\* A thread that has not opened the file has written nothing to it.
NothingWritten == \A t \in Threads : job[t].pc \in {"lock", "open"} => job[t].rows = 0

\* The lock makes the file its holder's, from the header to the rename.
Inv == TypeOK /\ NothingWritten /\ HolderOwnsTheFile

LEMMA IdleIsNoJob == Idle.pc = "idle" /\ \A j \in Job : j # Idle
  BY DEF Idle, Job

\* The rows written so far are k rows of the cart; one more makes k + 1.
LEMMA OneRowMore ==
  ASSUME NEW c \in Carts, NEW k \in Nat
  PROVE  Append([n \in 1..k |-> c], c) = [n \in 1..(k + 1) |-> c]
  OBVIOUS

\* A file with k rows of the cart, and what one more row makes of it.
Rows(c, k) == [cart |-> c, count |-> Size[c], rows |-> [n \in 1..k |-> c]]

LEMMA RowPut ==
  ASSUME NEW f \in File, NEW s
  PROVE  [f EXCEPT !.rows = s] = [cart |-> f.cart, count |-> f.count, rows |-> s]
  BY DEF File

LEMMA RowsIsAFile ==
  ASSUME NEW c \in Carts, NEW k \in Nat
  PROVE  Rows(c, k) \in File /\ WithRow(Rows(c, k), c) = Rows(c, k + 1)
<1>1. [n \in 1..k |-> c] \in Seq(Carts)
  OBVIOUS
<1>2. Size[c] \in Nat
  BY TransferAssumption
<1>3. Rows(c, k) \in File
  BY <1>1, <1>2 DEF Rows, File
<1>4. /\ Rows(c, k).cart = c /\ Rows(c, k).count = Size[c]
      /\ Append(Rows(c, k).rows, c) = [n \in 1..(k + 1) |-> c]
  BY OneRowMore DEF Rows
<1>5. WithRow(Rows(c, k), c) = [Rows(c, k) EXCEPT !.rows = [n \in 1..(k + 1) |-> c]]
  BY <1>3, <1>4, TransferAssumption DEF WithRow
<1>6. [Rows(c, k) EXCEPT !.rows = [n \in 1..(k + 1) |-> c]]
        = [cart |-> Rows(c, k).cart, count |-> Rows(c, k).count, rows |-> [n \in 1..(k + 1) |-> c]]
  BY <1>3, RowPut
<1>7. @ = Rows(c, k + 1)
  BY <1>4 DEF Rows
<1> QED BY <1>3, <1>5, <1>6, <1>7

LEMMA InitInv == Init => Inv
  BY TransferAssumption DEF Init, Inv, TypeOK, NothingWritten, HolderOwnsTheFile, Idle

-----------------------------------------------------------------------------
\* Inv is preserved: one lemma per action.

LEMMA BeginInv ==
  ASSUME Inv, NEW t \in Threads, NEW c \in Carts, NEW p \in PayStations, Begin(t, c, p)
  PROVE  Inv'
<1> DEFINE new == [pc |-> "lock", cart |-> c, pos |-> p, rows |-> 0]
<1>1. new \in Job /\ new.pc = "lock" /\ new.rows = 0
  BY DEF Job
<1>2. /\ job' = [job EXCEPT ![t] = new] /\ sends' \in Nat
      /\ UNCHANGED <<tmp, in, mutex, crashes>>
  BY DEF Begin, Inv, TypeOK
<1> HIDE DEF new
<1>3. TypeOK'
  BY <1>1, <1>2 DEF Inv, TypeOK
<1>4. job'[t] = new /\ \A u \in Threads \ {t} : job'[u] = job[u]
  BY <1>2 DEF Inv, TypeOK
<1>5. NothingWritten' /\ HolderOwnsTheFile'
  BY <1>1, <1>2, <1>4 DEF Inv, NothingWritten, HolderOwnsTheFile
<1> QED BY <1>3, <1>5 DEF Inv

LEMMA LockInv ==
  ASSUME Inv, NEW t \in Threads, Lock(t)
  PROVE  Inv'
<1> DEFINE new == [job[t] EXCEPT !.pc = "open"]
<1>1. job[t] \in Job
  BY IdleIsNoJob DEF Inv, TypeOK, Lock
<1>2. new \in Job /\ new.pc = "open" /\ new.rows = 0
  BY <1>1 DEF Job, Lock, Inv, NothingWritten
<1>3. /\ job' = [job EXCEPT ![t] = new] /\ mutex' = t /\ mutex = NoThread
      /\ UNCHANGED <<tmp, in, sends, crashes>>
  BY DEF Lock, Free
<1> HIDE DEF new
<1>4. TypeOK'
  BY <1>2, <1>3 DEF Inv, TypeOK
<1>5. job'[t] = new /\ \A u \in Threads \ {t} : job'[u] = job[u]
  BY <1>3 DEF Inv, TypeOK
<1>6. \A u \in Threads : job[u].pc \notin {"open", "write", "unlock"}
  BY <1>3, TransferAssumption DEF Inv, HolderOwnsTheFile
<1>7. NothingWritten' /\ HolderOwnsTheFile'
  BY <1>2, <1>3, <1>5, <1>6 DEF Inv, NothingWritten, HolderOwnsTheFile
<1> QED BY <1>4, <1>7 DEF Inv

\* A step of the holder, while the file is open, is of nobody else.
LEMMA OneHolder ==
  ASSUME Inv, NEW t \in Threads, job[t].pc \in {"open", "write", "unlock"}
  PROVE  mutex = t /\ \A u \in Threads \ {t} : job[u].pc \notin {"open", "write", "unlock"}
  BY DEF Inv, HolderOwnsTheFile

\* What the holder of the lock keeps of Inv when it goes on to `new` with the
\* file in the state that `new` says.
LEMMA HolderStep ==
  ASSUME Inv, NEW t \in Threads, job[t].pc \in {"open", "write"},
         NEW new \in Job, new.pc \in {"write", "unlock"},
         job' = [job EXCEPT ![t] = new],
         tmp' \in [PayStations -> File \cup {NoFile}], in' \in [PayStations -> File \cup {NoFile}],
         UNCHANGED <<mutex, sends, crashes>>,
         new.pc = "write" =>
           /\ new.rows <= Size[new.cart]
           /\ tmp'[new.pos] = [cart |-> new.cart, count |-> Size[new.cart],
                               rows |-> [n \in 1..new.rows |-> new.cart]]
  PROVE  Inv'
<1>1. TypeOK'
  BY DEF Inv, TypeOK
<1>2. job'[t] = new /\ \A u \in Threads \ {t} : job'[u] = job[u]
  BY DEF Inv, TypeOK
<1>3. mutex' = t /\ \A u \in Threads \ {t} : job[u].pc \notin {"open", "write", "unlock"}
  BY OneHolder
<1>4. NothingWritten'
  BY <1>2 DEF Inv, NothingWritten
<1>5. HolderOwnsTheFile'
  BY <1>2, <1>3 DEF HolderOwnsTheFile
<1> QED BY <1>1, <1>4, <1>5 DEF Inv

LEMMA OpenInv ==
  ASSUME Inv, NEW t \in Threads, Open(t)
  PROVE  Inv'
<1> DEFINE j == job[t]
           new == [j EXCEPT !.pc = "write"]
           f == [cart |-> j.cart, count |-> Size[j.cart], rows |-> << >>]
<1>1. j \in Job /\ j.pc = "open" /\ j.rows = 0
  BY IdleIsNoJob DEF Inv, TypeOK, NothingWritten, Open
<1>2. /\ new \in Job /\ new.pc = "write" /\ new.cart = j.cart /\ new.pos = j.pos /\ new.rows = 0
      /\ j.cart \in Carts /\ j.pos \in PayStations
  BY <1>1 DEF Job
<1>3. f \in File
  BY <1>2, TransferAssumption DEF File
<1>4. /\ tmp' = [tmp EXCEPT ![j.pos] = f] /\ job' = [job EXCEPT ![t] = new]
      /\ UNCHANGED <<in, mutex, sends, crashes>>
  BY DEF Open, Opened
<1>5. f.rows = [n \in 1..0 |-> j.cart]
  OBVIOUS
<1>6. tmp'[j.pos] = [cart |-> j.cart, count |-> Size[j.cart], rows |-> [n \in 1..0 |-> j.cart]]
  BY <1>2, <1>4, <1>5 DEF Inv, TypeOK
<1>7. tmp' \in [PayStations -> File \cup {NoFile}] /\ in' \in [PayStations -> File \cup {NoFile}]
  BY <1>3, <1>4 DEF Inv, TypeOK
<1>8. 0 <= Size[j.cart]
  BY <1>2, TransferAssumption
<1> HIDE DEF new, j, f
<1>9. job[t].pc = "open"
  BY <1>1 DEF j
<1> QED BY <1>2, <1>4, <1>6, <1>7, <1>8, <1>9, HolderStep

LEMMA WriteRowInv ==
  ASSUME Inv, NEW t \in Threads, WriteRow(t)
  PROVE  Inv'
<1> DEFINE j == job[t]
           k == j.rows
           new == [j EXCEPT !.rows = @ + 1]
<1>1. j \in Job /\ j.pc = "write" /\ k < Size[j.cart]
  BY IdleIsNoJob DEF Inv, TypeOK, WriteRow
<1>2. j.cart \in Carts /\ j.pos \in PayStations /\ k \in Nat
  BY <1>1 DEF Job
<1>3. new \in Job /\ new.pc = "write" /\ new.cart = j.cart /\ new.pos = j.pos /\ new.rows = k + 1
  BY <1>1 DEF Job
<1>4. tmp[j.pos] = Rows(j.cart, k)
  BY <1>1 DEF Inv, HolderOwnsTheFile, Rows
<1> HIDE DEF j, k
<1>5. k + 1 \in Nat /\ Rows(j.cart, k + 1) \in File /\ WithRow(Rows(j.cart, k), j.cart) = Rows(j.cart, k + 1)
  BY <1>2, RowsIsAFile
<1>6. tmp' = [tmp EXCEPT ![j.pos] = WithRow(tmp[j.pos], j.cart)]
  BY DEF WriteRow, j
<1>7. tmp' = [tmp EXCEPT ![j.pos] = Rows(j.cart, k + 1)]
  BY <1>4, <1>5, <1>6
<1>8. tmp'[j.pos] = Rows(j.cart, k + 1)
  BY <1>2, <1>7 DEF Inv, TypeOK
<1>9. job' = [job EXCEPT ![t] = new] /\ UNCHANGED <<in, mutex, sends, crashes>>
  BY DEF WriteRow, j
<1>10. tmp' \in [PayStations -> File \cup {NoFile}] /\ in' \in [PayStations -> File \cup {NoFile}]
  BY <1>5, <1>7, <1>9 DEF Inv, TypeOK
<1>11. new.rows <= Size[new.cart]
  BY <1>1, <1>2, <1>3, TransferAssumption
<1>12. tmp'[new.pos] = [cart |-> new.cart, count |-> Size[new.cart],
                        rows |-> [n \in 1..new.rows |-> new.cart]]
  BY <1>3, <1>8 DEF Rows
<1>13. job[t].pc = "write"
  BY <1>1 DEF j
<1> HIDE DEF new
<1> QED BY <1>3, <1>9, <1>10, <1>11, <1>12, <1>13, HolderStep

\* The renamed file is the whole document.
LEMMA RenamesTheDocument ==
  ASSUME Inv, NEW t \in Threads, Rename(t)
  PROVE  /\ job[t] \in Job /\ job[t].pc = "write"
         /\ job[t].cart \in Carts /\ job[t].pos \in PayStations
         /\ tmp[job[t].pos] = Document(job[t].cart)
<1>1. job[t] \in Job /\ job[t].pc = "write" /\ job[t].rows = Size[job[t].cart]
  BY IdleIsNoJob DEF Inv, TypeOK, Rename, RowsWritten
<1> QED BY <1>1 DEF Inv, HolderOwnsTheFile, Document, Job

LEMMA RenameInv ==
  ASSUME Inv, NEW t \in Threads, Rename(t)
  PROVE  Inv'
<1> DEFINE j == job[t]
           new == [j EXCEPT !.pc = "unlock"]
<1>1. j \in Job /\ j.pc = "write" /\ j.pos \in PayStations
  BY RenamesTheDocument
<1>2. new \in Job /\ new.pc = "unlock"
  BY <1>1 DEF Job
<1>3. /\ job' = [job EXCEPT ![t] = new] /\ UNCHANGED <<mutex, sends, crashes>>
      /\ in' = [in EXCEPT ![j.pos] = tmp[j.pos]] /\ tmp' = [tmp EXCEPT ![j.pos] = NoFile]
  BY DEF Rename
<1>4. tmp' \in [PayStations -> File \cup {NoFile}] /\ in' \in [PayStations -> File \cup {NoFile}]
  BY <1>1, <1>3 DEF Inv, TypeOK
<1> HIDE DEF new
<1> QED BY <1>1, <1>2, <1>3, <1>4, HolderStep

LEMMA UnlockInv ==
  ASSUME Inv, NEW t \in Threads, Unlock(t)
  PROVE  Inv'
<1>1. job[t].pc = "unlock"
  BY DEF Unlock
<1>2. \A u \in Threads \ {t} : job[u].pc \notin {"open", "write", "unlock"}
  BY <1>1, OneHolder
<1>3. job' = [job EXCEPT ![t] = Idle] /\ mutex' = NoThread /\ UNCHANGED <<tmp, in, sends, crashes>>
  BY DEF Unlock, Unlocked
<1>4. job'[t] = Idle /\ \A u \in Threads \ {t} : job'[u] = job[u]
  BY <1>3 DEF Inv, TypeOK
<1>5. TypeOK'
  BY <1>3 DEF Inv, TypeOK
<1>6. NothingWritten' /\ HolderOwnsTheFile'
  BY <1>2, <1>3, <1>4, IdleIsNoJob DEF Inv, NothingWritten, HolderOwnsTheFile
<1> QED BY <1>5, <1>6 DEF Inv

LEMMA TakeInv ==
  ASSUME Inv, NEW p \in PayStations, Take(p)
  PROVE  Inv'
<1>1. in' = [in EXCEPT ![p] = NoFile] /\ UNCHANGED <<tmp, mutex, job, sends, crashes>>
  BY DEF Take
<1>2. TypeOK'
  BY <1>1 DEF Inv, TypeOK
<1>3. NothingWritten' /\ HolderOwnsTheFile'
  BY <1>1 DEF Inv, NothingWritten, HolderOwnsTheFile
<1> QED BY <1>2, <1>3 DEF Inv

LEMMA CrashInv ==
  ASSUME Inv, Crash
  PROVE  Inv'
<1>1. /\ job' = [t \in Threads |-> Idle] /\ mutex' = NoThread /\ crashes' = crashes + 1
      /\ UNCHANGED <<tmp, in, sends>>
  BY DEF Crash
<1>2. TypeOK'
  BY <1>1 DEF Inv, TypeOK
<1>3. NothingWritten' /\ HolderOwnsTheFile'
  BY <1>1, IdleIsNoJob DEF NothingWritten, HolderOwnsTheFile
<1> QED BY <1>2, <1>3 DEF Inv

LEMMA NextInv == Inv /\ [Next]_vars => Inv'
<1> SUFFICES ASSUME Inv, [Next]_vars PROVE Inv'
  OBVIOUS
<1>1. CASE UNCHANGED vars
  BY <1>1 DEF vars, Inv, TypeOK, NothingWritten, HolderOwnsTheFile
<1>2. CASE Next
  BY <1>2, BeginInv, LockInv, OpenInv, WriteRowInv, RenameInv, UnlockInv, TakeInv, CrashInv
  DEF Next, Send
<1> QED BY <1>1, <1>2

LEMMA SpecInv == Spec => []Inv
  BY InitInv, NextInv, PTL DEF Spec

-----------------------------------------------------------------------------

\* Whatever the interleaving and wherever the process died before, the thread
\* that writes POSnnn.TMP finds in it its own rows and nothing else.
THEOREM FileIsItsHolders == Spec => []HolderOwnsTheFile
<1>1. Inv => HolderOwnsTheFile
  BY DEF Inv
<1> QED BY <1>1, SpecInv, PTL

\* A step of the transfer is a step of the mailbox or none: a rename puts the
\* document of the session there, a pay station takes it.
LEMMA StepIsTheMailboxs == Inv /\ [Next]_vars => [Mailbox!Next]_in
<1> SUFFICES ASSUME Inv, Next, in' # in PROVE Mailbox!Next
  BY DEF vars
<1>1. CASE \E t \in Threads : Rename(t)
  <2>1. PICK t \in Threads : Rename(t)
    BY <1>1
  <2>2. job[t].cart \in Carts /\ job[t].pos \in PayStations
        /\ tmp[job[t].pos] = Document(job[t].cart)
    BY <2>1, RenamesTheDocument
  <2>3. in' = [in EXCEPT ![job[t].pos] = Document(job[t].cart)]
    BY <2>1, <2>2 DEF Rename
  <2> QED BY <2>2, <2>3 DEF Mailbox!Next, Mailbox!Put
<1>2. CASE \E p \in PayStations : Take(p)
  BY <1>2 DEF Take, Mailbox!Next, Mailbox!Take
<1>3. CASE Crash \/ \E t \in Threads : \/ Lock(t) \/ Open(t) \/ WriteRow(t) \/ Unlock(t)
                                       \/ \E c \in Carts, p \in PayStations : Begin(t, c, p)
  BY <1>3 DEF Crash, Lock, Open, WriteRow, Unlock, Begin
<1> QED BY <1>1, <1>2, <1>3 DEF Next, Send

\* The transfer implements the mailbox: a pay station finds no file, or the
\* whole document of one session.
THEOREM TransferIsTheMailbox == Spec => DeliversWholeDocuments
<1>1. Init => Mailbox!Init
  BY DEF Init, Mailbox!Init
<1> QED BY <1>1, SpecInv, StepIsTheMailboxs, PTL DEF Spec, DeliversWholeDocuments, Mailbox!Spec

=============================================================================
