------------------------ MODULE VariationFilesProofs ------------------------
(***************************************************************************)
(* Proofs about VariationFiles for any archive, any variation files and    *)
(* any number of drops, lookups, deaths and restarts.                      *)
(***************************************************************************)
EXTENDS VariationFiles, TLAPS

(* The inductive invariant. *)

\* The records of an archive up to a key.
RecordsUpTo(map, n) == {map[k] : k \in {j \in DOMAIN map : j <= n}} \ {BlankRecord}

InStep == RecordsOf(csv) = RecordsOf(items)

\* While the server runs ITEMS.CSV is missing only between its two names.
Present ==
  /\ pc \notin {"down", "dumping"} => csv # Absent
  /\ pc # "dumping" \/ csv = Absent => at = -1

\* Memory and file go apart only by rows that "updated" remembers, and
\* "found" once their file is done; a dump brings them together key by key.
Mirrored ==
  /\ pc = "asleep" => InStep
  /\ pc \in {"scanning", "reading"} => InStep \/ updated
  /\ pc = "scanning" => InStep \/ found
  /\ pc = "dumping" /\ csv # Absent => RecordsOf(csv) = RecordsUpTo(items, at)
  /\ temp.item # Absent => updated

\* Until the first death every item is in memory, and in one of the files.
Kept ==
  /\ crashes = 0 => /\ pc # "down" /\ Whole(items)
                    /\ IF pc = "dumping" THEN Whole(old) ELSE Whole(csv)
  /\ FirstCrashLosesNoItem

\* Row n of file f is the last one for item i among the first m rows.
LastOf(f, i, n, m) ==
  /\ Contents[f][n].kind = "I" /\ Contents[f][n].item = i /\ Contents[f][n].price # Absent
  /\ \A k \in (n + 1)..m : Contents[f][k].item \notin {i, Absent}

Applied ==
  pc = "reading" =>
    /\ row <= Len(Contents[file])
    /\ \A i \in Items : \A n \in 1..row :
         LastOf(file, i, n, row) => i \in DOMAIN items /\ items[i].price = Contents[file][n].price

VariationInvariant == TypeOK /\ Present /\ Mirrored /\ Kept /\ Applied

-----------------------------------------------------------------------------
(* Archives. *)

\* What the proofs of the steps need of the constants.
LEMMA ConstantFacts ==
  /\ Items \subseteq Nat \ {0} /\ Keys \subseteq Nat /\ Items \cup {0} \subseteq Keys
  /\ Absent \notin Items /\ Absent \notin Prices /\ Absent \notin Files
  /\ MaxDrops \in Nat /\ MaxCrashes \in Nat
BY VariationAssumption

\* An archive is no missing file: a record may be blank, a file may not.
LEMMA ArchivesExist == ASSUME NEW m, Archive(m) PROVE m # Absent
<1>1. DOMAIN m \in SUBSET Keys /\ m \in [DOMAIN m -> Record \cup {BlankRecord}]
  BY DEF Archive
<1> QED BY <1>1, VariationAssumption

\* An item's record is not the blank one.
LEMMA RecordsAreNotBlank == ASSUME NEW r \in Record PROVE r # BlankRecord /\ r.code \in Items
BY VariationAssumption DEF Record, BlankRecord

\* An archive stays one when a record is put under its code.
LEMMA PutRecord ==
  ASSUME NEW m, Archive(m), NEW k \in Keys, NEW r \in Record \cup {BlankRecord},
         r # BlankRecord => r.code = k
  PROVE  /\ Archive(Put(m, k, r)) /\ DOMAIN Put(m, k, r) = DOMAIN m \cup {k}
         /\ Put(m, k, r)[k] = r
         /\ \A j \in DOMAIN m \ {k} : Put(m, k, r)[j] = m[j]
BY DEF Archive, Put

\* An archive without a row is one, and has no item.
LEMMA EmptyArchive ==
  /\ Archive([k \in {} |-> BlankRecord])
  /\ RecordsOf([k \in {} |-> BlankRecord]) = {}
BY DEF Archive, RecordsOf

\* A blank record under a new key adds no item.
LEMMA PutBlank ==
  ASSUME NEW m, Archive(m), NEW k \in Keys, k \notin DOMAIN m, NEW n \in Int
  PROVE  /\ Archive(Put(m, k, BlankRecord)) /\ DOMAIN Put(m, k, BlankRecord) = DOMAIN m \cup {k}
         /\ \A j \in DOMAIN m : Put(m, k, BlankRecord)[j] = m[j]
         /\ RecordsOf(Put(m, k, BlankRecord)) = RecordsOf(m)
         /\ RecordsUpTo(Put(m, k, BlankRecord), n) = RecordsUpTo(m, n)
<1> DEFINE p == Put(m, k, BlankRecord)
<1>1. /\ Archive(p) /\ DOMAIN p = DOMAIN m \cup {k} /\ p[k] = BlankRecord
      /\ \A j \in DOMAIN m \ {k} : p[j] = m[j]
  BY PutRecord
<1> HIDE DEF p
<1>2. RecordsOf(p) = RecordsOf(m)
  BY <1>1 DEF RecordsOf
<1>3. RecordsUpTo(p, n) = RecordsUpTo(m, n)
  BY <1>1 DEF RecordsUpTo
<1> QED BY <1>1, <1>2, <1>3 DEF p

\* The record of the next key is added to the file, whatever the file has.
LEMMA PutNext ==
  ASSUME NEW m, Archive(m), NEW f, Archive(f), NEW n \in Int, NEW k \in DOMAIN m, k > n,
         \A j \in DOMAIN m : j > n => k <= j,
         RecordsOf(f) = RecordsUpTo(m, n)
  PROVE  /\ Archive(Put(f, m[k].code, m[k]))
         /\ RecordsOf(Put(f, m[k].code, m[k])) = RecordsUpTo(m, k)
<1>0. PICK r, c : r = m[k] /\ c = r.code
  OBVIOUS
<1> DEFINE p == Put(f, c, r)
<1>1. k \in Keys /\ k \in Int /\ \A j \in DOMAIN m : j \in Int
  BY VariationAssumption DEF Archive
<1>2. r \in Record \cup {BlankRecord} /\ (r # BlankRecord => c = k)
  BY <1>0 DEF Archive
<1>3. c \in Keys /\ (r = BlankRecord => c = 0)
  BY <1>0, <1>1, <1>2, VariationAssumption DEF BlankRecord
<1>4. /\ Archive(p) /\ DOMAIN p = DOMAIN f \cup {c} /\ p[c] = r
      /\ \A j \in DOMAIN f \ {c} : p[j] = f[j]
  BY <1>0, <1>2, <1>3, PutRecord
<1>5. RecordsUpTo(m, k) = RecordsUpTo(m, n) \cup ({r} \ {BlankRecord})
  <2>1. {j \in DOMAIN m : j <= k} = {j \in DOMAIN m : j <= n} \cup {k}
    BY <1>1
  <2> QED BY <1>0, <2>1 DEF RecordsUpTo
<1>6. c \in DOMAIN f => f[c] = BlankRecord
  <2> SUFFICES ASSUME c \in DOMAIN f, f[c] # BlankRecord PROVE FALSE
    OBVIOUS
  <2>1. f[c] \in Record /\ f[c].code = c
    BY DEF Archive
  <2>2. c # 0
    BY <2>1, RecordsAreNotBlank, VariationAssumption
  <2>3. c = k
    BY <1>2, <1>3, <2>2
  <2>4. f[c] \in RecordsUpTo(m, n)
    BY DEF RecordsOf
  <2>5. PICK j \in DOMAIN m : j <= n /\ m[j] = f[c]
    BY <2>4 DEF RecordsUpTo
  <2>6. j = k
    BY <2>1, <2>3, <2>5 DEF Archive
  <2> QED BY <1>1, <2>5, <2>6
<1> HIDE DEF p
<1>7. RecordsOf(p) = RecordsOf(f) \cup ({r} \ {BlankRecord})
  BY <1>4, <1>6 DEF RecordsOf
<1> QED BY <1>0, <1>4, <1>5, <1>7 DEF p

\* When no key is left all records are up to the last one.
LEMMA NothingAhead ==
  ASSUME NEW m, Archive(m), NEW n \in Int, {k \in DOMAIN m : k > n} = {}
  PROVE  RecordsUpTo(m, n) = RecordsOf(m)
<1>1. \A j \in DOMAIN m : j \in Int
  BY VariationAssumption DEF Archive
<1> QED BY <1>1 DEF RecordsUpTo, RecordsOf

\* A file with the records of a whole archive is whole.
LEMMA SameRecordsWhole ==
  ASSUME NEW m, Archive(m), NEW f, Archive(f), RecordsOf(f) = RecordsOf(m), Whole(m)
  PROVE  Whole(f)
<1>1. f # Absent
  BY ArchivesExist
<1>2. ASSUME NEW i \in Items PROVE i \in DOMAIN f /\ f[i] # BlankRecord
  <2>1. i \in DOMAIN m /\ m[i] # BlankRecord
    BY DEF Whole
  <2>2. m[i] \in RecordsOf(f) /\ m[i].code = i
    BY <2>1 DEF RecordsOf, Archive
  <2>3. PICK k \in DOMAIN f : f[k] = m[i]
    BY <2>2 DEF RecordsOf
  <2>4. k = i
    BY <2>1, <2>2, <2>3 DEF Archive
  <2> QED BY <2>1, <2>3, <2>4
<1> QED BY <1>1, <1>2 DEF Whole

-----------------------------------------------------------------------------
(* The invariant holds at first and is kept by every step. *)

LEMMA InitHolds == Init => VariationInvariant
<1> SUFFICES ASSUME Init PROVE VariationInvariant
  OBVIOUS
<1> USE DEF Init
<1>1. Archive(Shipped) /\ Whole(Shipped)
  <2>1. /\ DOMAIN Shipped = Items /\ Shipped \in [Items -> Record \cup {BlankRecord}]
        /\ \A i \in Items : Shipped[i].code = i /\ Shipped[i] # BlankRecord
    BY VariationAssumption, RecordsAreNotBlank
  <2>2. Archive(Shipped)
    BY <2>1, ConstantFacts DEF Archive
  <2> QED BY <2>1, <2>2, ArchivesExist DEF Whole
<1>2. TypeOK
  <2>1. Archive(items) /\ Archive(csv) /\ old = Absent
    BY <1>1
  <2>2. temp \in [item : Items \cup {Absent}, price : Prices \cup {0}]
    BY DEF Blank
  <2>3. row \in Nat /\ at \in {-1} /\ drops \in 0..MaxDrops /\ crashes \in 0..MaxCrashes
    BY ConstantFacts
  <2>4. found \in BOOLEAN /\ updated \in BOOLEAN
    OBVIOUS
  <2>5. file \in Files \cup {Absent} /\ pc # "reading" /\ waiting \subseteq Files /\ todo \subseteq Files
    OBVIOUS
  <2> QED BY <2>1, <2>2, <2>3, <2>4, <2>5 DEF TypeOK
<1>3. Present /\ Mirrored
  BY <1>1, ArchivesExist DEF Present, Mirrored, InStep, Blank
<1>4. Kept /\ Applied
  BY <1>1 DEF Kept, FirstCrashLosesNoItem, Applied
<1> QED BY <1>2, <1>3, <1>4 DEF VariationInvariant

LEMMA LookupStep ==
  ASSUME VariationInvariant, NEW k \in Keys, Lookup(k) PROVE VariationInvariant'
<1> USE ConstantFacts DEF VariationInvariant
<1>1. /\ Archive(items) /\ k \notin DOMAIN items /\ items' = Put(items, k, BlankRecord)
      /\ at \in Int /\ pc # "down"
  BY DEF TypeOK, Lookup
<1>2. /\ Archive(items') /\ DOMAIN items' = DOMAIN items \cup {k}
      /\ \A j \in DOMAIN items : items'[j] = items[j]
  BY <1>1, PutBlank
<1>3. RecordsOf(items') = RecordsOf(items) /\ RecordsUpTo(items', at) = RecordsUpTo(items, at)
  BY <1>1, PutBlank
<1>4. UNCHANGED <<pc, waiting, todo, file, row, temp, found, updated, csv, old, at, drops, crashes>>
  BY DEF Lookup, scan
<1>5. TypeOK'
  BY <1>2, <1>4 DEF TypeOK
<1>6. Present' /\ Mirrored'
  BY <1>3, <1>4 DEF Present, Mirrored, InStep
<1>7. Kept'
  <2>1. Whole(items) => Whole(items')
    BY <1>2, ArchivesExist DEF Whole
  <2> QED BY <2>1, <1>4 DEF Kept, FirstCrashLosesNoItem
<1>8. Applied'
  BY <1>2, <1>4 DEF Applied
<1> QED BY <1>5, <1>6, <1>7, <1>8

LEMMA QuietSteps ==
  ASSUME VariationInvariant, (\E f \in Files : Drop(f)) \/ WakeUp \/ OpenFile \/ RenameFile \/ EndScan
  PROVE  VariationInvariant'
<1> USE ConstantFacts DEF VariationInvariant
<1>1. UNCHANGED <<items, csv, old, at, crashes, temp, updated>>
  BY DEF Drop, WakeUp, OpenFile, RenameFile, EndScan, scan
<1>2. TypeOK'
  <2>1. CASE \E f \in Files : Drop(f)
    BY <2>1, <1>1 DEF TypeOK, Drop, scan
  <2>2. CASE WakeUp \/ OpenFile
    BY <2>2, <1>1 DEF TypeOK, WakeUp, OpenFile
  <2>3. CASE RenameFile \/ EndScan
    BY <2>3, <1>1 DEF TypeOK, RenameFile, Renamed, EndScan, scan
  <2> QED BY <2>1, <2>2, <2>3
<1>3. /\ (pc # "down" /\ pc' # "down") \/ UNCHANGED pc
      /\ (pc # "dumping" /\ pc' # "dumping") \/ UNCHANGED pc
  BY DEF Drop, WakeUp, OpenFile, RenameFile, EndScan
<1>4. Present'
  BY <1>1, <1>3 DEF Present
<1>5. Mirrored'
  <2>1. UNCHANGED <<InStep, RecordsOf(csv), RecordsUpTo(items, at)>>
    BY <1>1 DEF InStep
  <2>2. CASE \E f \in Files : Drop(f)
    BY <2>1, <2>2, <1>1 DEF Mirrored, Drop, scan
  <2>3. CASE WakeUp \/ OpenFile
    BY <2>1, <2>3, <1>1 DEF Mirrored, WakeUp, OpenFile
  <2>4. CASE RenameFile \/ EndScan
    BY <2>1, <2>4, <1>1 DEF Mirrored, RenameFile, EndScan, scan
  <2> QED BY <2>2, <2>3, <2>4
<1>6. Kept'
  BY <1>1, <1>3 DEF Kept, FirstCrashLosesNoItem, Whole
<1>7. Applied'
  <2>1. CASE \E f \in Files : Drop(f)
    BY <2>1, <1>1 DEF Applied, Drop, scan
  <2>2. CASE OpenFile
    <3>1. pc' = "reading" /\ row' = 0 /\ file' \in Files
      BY <2>2 DEF OpenFile, TypeOK
    <3>2. Contents[file'] \in Seq(Row)
      BY <3>1, VariationAssumption
    <3> QED BY <3>1, <3>2, <1>1 DEF Applied
  <2>3. CASE WakeUp \/ RenameFile \/ EndScan
    BY <2>3 DEF Applied, WakeUp, RenameFile, EndScan
  <2> QED BY <2>1, <2>2, <2>3
<1> QED BY <1>2, <1>4, <1>5, <1>6, <1>7

\* A row of the file being read.
LEMMA ReadRowStep ==
  ASSUME VariationInvariant, ReadRow PROVE VariationInvariant'
<1> USE ConstantFacts DEF VariationInvariant
<1>1. PICK r, t : r = Contents[file][row + 1] /\ t = Merge(temp, r)
  OBVIOUS
<1>2. /\ pc = "reading" /\ row \in Nat /\ row < Len(Contents[file]) /\ row' = row + 1
      /\ UNCHANGED <<pc, waiting, todo, file, found, csv, old, at, drops, crashes>>
      /\ Archive(items) /\ file \in Files
      /\ temp.item \in Items \cup {Absent} /\ temp.price \in Prices \cup {0}
  BY DEF ReadRow, TypeOK
<1>3. Contents[file] \in Seq(Row) /\ row + 1 \in 1..Len(Contents[file])
  BY <1>2, VariationAssumption
<1>4. r.item \in Items \cup {Absent} /\ r.price \in Prices \cup {Absent}
  <2>1. Contents[file][row + 1] \in Row
    BY <1>3
  <2> QED BY <1>1, <2>1 DEF Row
<1>5. /\ t.item = (IF r.item = Absent THEN temp.item ELSE r.item)
      /\ t.price = (IF r.price = Absent THEN temp.price ELSE r.price)
      /\ t \in [item : Items \cup {Absent}, price : Prices \cup {0}]
  BY <1>1, <1>2, <1>4 DEF Merge
<1>6. CASE r.kind = "I" /\ t.item # Absent
  <2>1. PICK n, c : c = t.item /\ n = [code |-> c, price |-> t.price, link |-> NoLink]
    OBVIOUS
  <2>2. /\ n \in Record /\ n # BlankRecord /\ n.code = c /\ n.price = t.price
        /\ c \in Items /\ c \in Keys
    BY <1>5, <1>6, <2>1, RecordsAreNotBlank DEF Record
  <2>3. temp' = t /\ updated' = (updated \/ r.item # Absent \/ r.price # Absent)
        /\ items' = Put(items, c, n)
    BY <1>1, <1>6, <2>1 DEF ReadRow, RecordPut
  <2>4. /\ Archive(Put(items, c, n)) /\ DOMAIN Put(items, c, n) = DOMAIN items \cup {c}
        /\ Put(items, c, n)[c] = n
        /\ \A j \in DOMAIN items \ {c} : Put(items, c, n)[j] = items[j]
    <3>1. n \in Record \cup {BlankRecord} /\ (n # BlankRecord => n.code = c)
      BY <2>2
    <3>2. Archive(items) /\ c \in Keys
      BY <1>2, <2>2
    <3> HIDE ConstantFacts
    <3> QED BY <3>1, <3>2, PutRecord
  <2>5. /\ Archive(items') /\ DOMAIN items' = DOMAIN items \cup {c}
        /\ items'[c] = n /\ \A j \in DOMAIN items \ {c} : items'[j] = items[j]
    BY <2>3, <2>4
  <2>6. updated' = TRUE
    BY <1>5, <1>6, <2>3 DEF Mirrored, TypeOK
  <2>7. TypeOK'
    BY <1>2, <1>5, <2>3, <2>5, <2>6 DEF TypeOK
  <2>8. Present' /\ Mirrored'
    BY <1>2, <2>6 DEF Present, Mirrored
  <2>9. Kept'
    <3>1. Whole(items) => Whole(items')
      BY <2>2, <2>5, ArchivesExist DEF Whole
    <3> QED BY <1>2, <3>1 DEF Kept, FirstCrashLosesNoItem
  <2>10. Applied'
    <3> SUFFICES ASSUME NEW i \in Items, NEW m \in 1..(row + 1), LastOf(file, i, m, row + 1)
                 PROVE  i \in DOMAIN items' /\ items'[i].price = Contents[file][m].price
      BY <1>2, <1>3 DEF Applied
    <3>1. CASE m = row + 1
      BY <1>1, <1>5, <2>1, <2>2, <2>5, <3>1 DEF LastOf
    <3>2. CASE m # row + 1
      <4>1. m \in 1..row /\ LastOf(file, i, m, row) /\ r.item \notin {i, Absent}
        BY <1>1, <1>2, <3>2 DEF LastOf
      <4>2. t.item # i /\ i \in DOMAIN items /\ items[i].price = Contents[file][m].price
        BY <1>2, <1>5, <4>1 DEF Applied
      <4> QED BY <2>1, <2>5, <4>2
    <3> QED BY <3>1, <3>2
  <2> QED BY <2>7, <2>8, <2>9, <2>10
<1>7. CASE ~(r.kind = "I" /\ t.item # Absent)
  <2>1. items' = items
    BY <1>1, <1>7 DEF ReadRow
  <2>2. /\ temp' \in [item : Items \cup {Absent}, price : Prices \cup {0}]
        /\ updated' \in BOOLEAN /\ (updated => updated') /\ (temp'.item # Absent => updated')
    <3>1. CASE r.kind = "I"
      <4>1. temp' = t /\ updated' = (updated \/ r.item # Absent \/ r.price # Absent)
        BY <1>1, <3>1 DEF ReadRow
      <4> QED BY <1>5, <1>7, <3>1, <4>1
    <3>2. CASE r.kind # "I"
      <4>1. temp' = temp /\ updated' = updated
        BY <1>1, <3>2 DEF ReadRow
      <4> QED BY <4>1 DEF TypeOK, Mirrored
    <3> QED BY <3>1, <3>2
  <2>3. TypeOK'
    BY <1>2, <2>1, <2>2 DEF TypeOK
  <2>4. Present' /\ Mirrored'
    <3>1. InStep' = InStep
      BY <1>2, <2>1 DEF InStep
    <3> QED BY <1>2, <2>2, <3>1 DEF Present, Mirrored
  <2>5. Kept'
    BY <1>2, <2>1 DEF Kept, FirstCrashLosesNoItem, Whole
  <2>6. Applied'
    <3> SUFFICES ASSUME NEW i \in Items, NEW m \in 1..(row + 1), LastOf(file, i, m, row + 1)
                 PROVE  i \in DOMAIN items /\ items[i].price = Contents[file][m].price
      BY <1>2, <1>3, <2>1 DEF Applied
    <3>1. m # row + 1
      BY <1>1, <1>5, <1>7 DEF LastOf
    <3>2. m \in 1..row /\ LastOf(file, i, m, row)
      BY <1>2, <3>1 DEF LastOf
    <3> QED BY <1>2, <3>2 DEF Applied
  <2> QED BY <2>3, <2>4, <2>5, <2>6
<1> QED BY <1>6, <1>7

\* The old file keeps what the new one does not have yet.
LEMMA BackupStep ==
  ASSUME VariationInvariant, Backup \/ OpenDump PROVE VariationInvariant'
<1> USE ConstantFacts DEF VariationInvariant
<1>1. UNCHANGED <<waiting, todo, file, row, temp, found, updated, items, at, drops, crashes>>
  BY DEF Backup, OpenDump, scan
<1>2. CASE Backup
  <2>1. /\ pc = "backup" /\ csv # Absent /\ at = -1
        /\ pc' = "dumping" /\ old' = csv /\ csv' = Absent
    BY <1>2 DEF Backup, BackedUp, Present
  <2>2. TypeOK'
    BY <1>1, <2>1 DEF TypeOK
  <2>3. Present' /\ Mirrored' /\ Applied'
    BY <1>1, <2>1 DEF Present, Mirrored, Applied
  <2>4. Kept'
    BY <1>1, <2>1 DEF Kept, FirstCrashLosesNoItem, Whole
  <2> QED BY <2>2, <2>3, <2>4
<1>3. CASE OpenDump
  <2>1. /\ pc = "dumping" /\ csv = Absent /\ at = -1 /\ UNCHANGED <<pc, old>>
        /\ csv' = [k \in {} |-> BlankRecord]
    BY <1>3 DEF OpenDump, Present
  <2>2. Archive(csv') /\ RecordsOf(csv') = {}
    BY <2>1, EmptyArchive
  <2>3. RecordsUpTo(items, at) = {}
    <3>1. DOMAIN items \subseteq Nat
      BY DEF TypeOK, Archive
    <3> QED BY <2>1, <3>1 DEF RecordsUpTo
  <2>4. TypeOK'
    BY <1>1, <2>1, <2>2 DEF TypeOK
  <2>5. Present' /\ Mirrored' /\ Applied'
    BY <1>1, <2>1, <2>2, <2>3 DEF Present, Mirrored, Applied
  <2>6. Kept'
    BY <1>1, <2>1 DEF Kept, FirstCrashLosesNoItem, Whole
  <2> QED BY <2>4, <2>5, <2>6
<1> QED BY <1>2, <1>3

\* The dump brings the file in step with memory key by key.
LEMMA DumpStep ==
  ASSUME VariationInvariant, DumpItem \/ EndDump PROVE VariationInvariant'
<1> USE ConstantFacts DEF VariationInvariant
<1>1. /\ pc = "dumping" /\ csv # Absent /\ at \in Int /\ Archive(items) /\ Archive(csv)
      /\ RecordsOf(csv) = RecordsUpTo(items, at)
      /\ UNCHANGED <<waiting, todo, file, row, temp, found, updated, items, old, drops, crashes>>
  BY DEF DumpItem, EndDump, scan, TypeOK, Mirrored
<1>2. CASE DumpItem
  <2>1. PICK k \in DOMAIN items :
          /\ k > at /\ \A j \in DOMAIN items : j > at => k <= j
          /\ csv' = Put(csv, items[k].code, items[k]) /\ at' = k
    BY <1>2 DEF DumpItem, Ahead
  <2>2. /\ Archive(Put(csv, items[k].code, items[k]))
        /\ RecordsOf(Put(csv, items[k].code, items[k])) = RecordsUpTo(items, k)
    BY <1>1, <2>1, PutNext
  <2>3. Archive(csv') /\ RecordsOf(csv') = RecordsUpTo(items, k) /\ k \in Keys /\ csv' # Absent
    BY <1>1, <2>1, <2>2, ArchivesExist DEF Archive
  <2>4. pc' = pc
    BY <1>2 DEF DumpItem
  <2>5. TypeOK'
    BY <1>1, <2>1, <2>3, <2>4 DEF TypeOK
  <2>6. Present' /\ Mirrored' /\ Applied'
    BY <1>1, <2>1, <2>3, <2>4 DEF Present, Mirrored, Applied
  <2>7. Kept'
    BY <1>1, <2>4 DEF Kept, FirstCrashLosesNoItem, Whole
  <2> QED BY <2>5, <2>6, <2>7
<1>3. CASE EndDump
  <2>1. /\ pc' = "asleep" /\ at' = -1 /\ csv' = csv
        /\ {k \in DOMAIN items : k > at} = {}
    BY <1>3 DEF EndDump, Dumped, Ahead
  <2>2. RecordsOf(csv) = RecordsOf(items)
    BY <1>1, <2>1, NothingAhead
  <2>3. TypeOK'
    BY <1>1, <2>1 DEF TypeOK
  <2>4. Present' /\ Mirrored' /\ Applied'
    BY <1>1, <2>1, <2>2 DEF Present, Mirrored, Applied, InStep
  <2>5. Kept'
    <3>1. Whole(items) => Whole(csv)
      BY <1>1, <2>2, SameRecordsWhole
    <3> QED BY <1>1, <2>1, <3>1 DEF Kept, FirstCrashLosesNoItem, Whole
  <2> QED BY <2>3, <2>4, <2>5
<1> QED BY <1>2, <1>3

LEMMA CrashAndBootStep ==
  ASSUME VariationInvariant, Crash \/ Boot PROVE VariationInvariant'
<1> USE ConstantFacts DEF VariationInvariant
<1>1. CASE Crash
  <2>1. /\ pc # "down" /\ pc' = "down" /\ crashes < MaxCrashes /\ crashes' = crashes + 1
        /\ todo' = {} /\ file' = Absent /\ row' = 0 /\ temp' = Blank
        /\ found' = FALSE /\ updated' = FALSE /\ items' = [k \in {} |-> BlankRecord] /\ at' = -1
        /\ UNCHANGED <<waiting, csv, old, drops>>
    BY <1>1 DEF Crash
  <2>2. Archive(items')
    BY <2>1, EmptyArchive
  <2>3. TypeOK'
    <3>1. temp' \in [item : Items \cup {Absent}, price : Prices \cup {0}]
      BY <2>1 DEF Blank
    <3>2. crashes' \in 0..MaxCrashes
      BY <2>1 DEF TypeOK
    <3> QED BY <2>1, <2>2, <3>1, <3>2 DEF TypeOK
  <2>4. Present' /\ Mirrored' /\ Applied'
    BY <2>1 DEF Present, Mirrored, Applied, Blank
  <2>5. Kept'
    <3>1. crashes \in Nat
      BY DEF TypeOK
    <3> QED BY <2>1, <3>1 DEF Kept, FirstCrashLosesNoItem, Whole
  <2> QED BY <2>3, <2>4, <2>5
<1>2. CASE Boot
  <2>1. /\ pc = "down" /\ csv # Absent /\ pc' = "asleep" /\ items' = csv
        /\ UNCHANGED <<waiting, todo, file, row, temp, found, updated, csv, old, at, drops, crashes>>
    BY <1>2 DEF Boot, scan
  <2>2. TypeOK'
    BY <2>1 DEF TypeOK
  <2>3. Present' /\ Mirrored' /\ Applied'
    BY <2>1 DEF Present, Mirrored, Applied, InStep
  <2>4. Kept'
    BY <2>1 DEF Kept, FirstCrashLosesNoItem, Whole
  <2> QED BY <2>2, <2>3, <2>4
<1> QED BY <1>1, <1>2

LEMMA StutterStep ==
  ASSUME VariationInvariant, UNCHANGED vars PROVE VariationInvariant'
BY DEF VariationInvariant, vars, scan, TypeOK, Present, Mirrored, InStep, Kept,
       FirstCrashLosesNoItem, Whole, Applied

-----------------------------------------------------------------------------
(* The theorems. *)

\* The inductive invariant of the variation thread, of the requests' lookups
\* and of the restarts.
THEOREM VariationInvariantHolds == Spec => []VariationInvariant
<1>1. VariationInvariant /\ [Next]_vars => VariationInvariant'
  BY LookupStep, QuietSteps, ReadRowStep, BackupStep, DumpStep, CrashAndBootStep, StutterStep
     DEF Next, Check
<1> QED BY InitHolds, <1>1, PTL DEF Spec

\* Every variable keeps its type: no archive ever holds a record under the
\* code of another item.
THEOREM VariationTypeCorrect == Spec => []TypeOK
BY VariationInvariantHolds, PTL DEF VariationInvariant

\* Between two checks ITEMS.CSV has the items the server sells.
THEOREM DiskMirrors == Spec => []DiskMirrorsMemory
<1>1. VariationInvariant => DiskMirrorsMemory
  BY DEF VariationInvariant, Present, Mirrored, InStep, DiskMirrorsMemory
<1> QED BY <1>1, VariationInvariantHolds, PTL

\* The first death leaves a whole archive, under one of its names.
THEOREM NoItemIsLost == Spec => []FirstCrashLosesNoItem
BY VariationInvariantHolds, PTL DEF VariationInvariant, Kept

\* A file is renamed once its rows have been applied.
THEOREM RenamedAfterApplied == Spec => RenamedIsApplied
<1> DEFINE Step ==
      \A f \in waiting \ waiting' : \A i \in Items : \A n \in LastRow(f, i) :
        i \in DOMAIN items /\ items[i].price = Contents[f][n].price
<1>1. VariationInvariant /\ [Next]_vars => [Step]_vars
  <2> SUFFICES ASSUME VariationInvariant, Next,
                      NEW f \in waiting \ waiting', NEW i \in Items, NEW n \in LastRow(f, i)
               PROVE  i \in DOMAIN items /\ items[i].price = Contents[f][n].price
    OBVIOUS
  <2>1. RenameFile /\ f = file
    BY DEF Next, Check, Drop, Lookup, WakeUp, OpenFile, ReadRow, RenameFile, Renamed, EndScan,
           Backup, OpenDump, DumpItem, EndDump, Crash, Boot
  <2>2. pc = "reading" /\ row = Len(Contents[file])
    BY <2>1 DEF RenameFile, FileRead
  <2>3. n \in 1..row /\ LastOf(file, i, n, row)
    BY <2>1, <2>2 DEF LastRow, LastOf
  <2> QED BY <2>1, <2>2, <2>3 DEF VariationInvariant, Applied
<1> QED BY <1>1, VariationInvariantHolds, PTL DEF Spec, RenamedIsApplied

=============================================================================
