--------------------------- MODULE VariationFiles ---------------------------
(***************************************************************************)
(* BaseSystem::checkForVariationFiles (src/src/base_system.cpp): the       *)
(* thread that wakes up every VarCheckDelaySeconds, applies the .VAR files *)
(* it finds to items_map row by row, renames each to .OLD, and then writes *)
(* ITEMS.CSV anew after renaming it to ITEMS.OLD.  Meanwhile requests look *)
(* items up, which inserts a blank record for a code without one.  The     *)
(* process may die between any two of these steps and reads ITEMS.CSV when *)
(* it starts.                                                              *)
(***************************************************************************)
EXTENDS Integers, Sequences, FiniteSets

CONSTANTS
  Items,        \* item codes
  Keys,         \* the codes requests look up: 0 and those of barcodes, too
  Prices,       \* prices
  Links,        \* linked barcodes
  NoLink,       \* the linked barcode of an item without one
  Files,        \* names of variation files
  Contents,     \* [Files -> Seq(Row)]
  Shipped,      \* [Items -> Record], the first ITEMS.CSV
  Absent,       \* a column a row does not have, and an archive that is no file
  MaxDrops,     \* bound: variation files put into the folder
  MaxCrashes    \* bound: deaths of the process

Record == [code : Items, price : Prices \cup {0}, link : Links \cup {NoLink}]
BlankRecord == [code |-> 0, price |-> 0, link |-> NoLink]
Row == [kind : {"I", "other"}, item : Items \cup {Absent}, price : Prices \cup {Absent}]

ASSUME VariationAssumption ==
  /\ Items \subseteq Nat \ {0} /\ Keys \subseteq Nat /\ Items \cup {0} \subseteq Keys
  /\ Contents \in [Files -> Seq(Row)]
  /\ Shipped \in [Items -> Record] /\ \A i \in Items : Shipped[i].code = i
  /\ NoLink \notin Links /\ Absent \notin Items /\ Absent \notin Prices /\ Absent \notin Files
  /\ \A D \in SUBSET Keys : Absent \notin [D -> Record \cup {BlankRecord}]
  /\ MaxDrops \in Nat /\ MaxCrashes \in Nat

VARIABLES
  pc,       \* "down", "asleep", "scanning", "reading", "backup" or "dumping"
  waiting,  \* the .VAR files in the folder
  todo,     \* the files of the directory not yet looked at
  file,     \* the file being read
  row,      \* its rows read so far
  temp,     \* itmTemp, which keeps its values from row to row and file to file
  found,    \* vars_found
  updated,  \* updated_items, set once and never reset
  items,    \* items_map
  csv, old, \* ITEMS.CSV and ITEMS.OLD, each a record for each code in it
  at,       \* the key dumpToFile has come to, -1 before the first
  drops, crashes

scan == <<todo, file, row, temp, found, updated>>
vars == <<pc, waiting, scan, items, csv, old, at, drops, crashes>>

\* A new Item has the price 0; code 0 stands for no item.
Blank == [item |-> Absent, price |-> 0]

Put(map, key, record) ==
  [k \in DOMAIN map \cup {key} |-> IF k = key THEN record ELSE map[k]]

Init ==
  /\ pc = "asleep" /\ waiting = {} /\ todo = {} /\ file = Absent /\ row = 0
  /\ temp = Blank /\ found = FALSE /\ updated = FALSE
  /\ items = Shipped /\ csv = Shipped /\ old = Absent /\ at = -1
  /\ drops = 0 /\ crashes = 0

-----------------------------------------------------------------------------

\* The store's back office puts a file into the folder.
Drop(f) ==
  /\ f \notin waiting /\ drops < MaxDrops
  /\ waiting' = waiting \cup {f} /\ drops' = drops + 1
  /\ UNCHANGED <<pc, scan, items, csv, old, at, crashes>>

\* operator[] of a request's thread, whatever the other thread is doing.
Lookup(k) ==
  /\ pc # "down" /\ k \notin DOMAIN items
  /\ items' = Put(items, k, BlankRecord)
  /\ UNCHANGED <<pc, waiting, scan, csv, old, at, drops, crashes>>

WakeUp ==
  /\ pc = "asleep"
  /\ pc' = "scanning" /\ todo' = waiting /\ found' = FALSE
  /\ UNCHANGED <<waiting, file, row, temp, updated, items, csv, old, at, drops, crashes>>

OpenFile ==
  /\ pc = "scanning"
  /\ \E f \in todo : file' = f /\ todo' = todo \ {f}
  /\ pc' = "reading" /\ row' = 0
  /\ UNCHANGED <<waiting, temp, found, updated, items, csv, old, at, drops, crashes>>

\* Faulty: nothing is kept from an earlier row.
MergeNothing(t, r) == [item |-> r.item, price |-> r.price]

\* A column the row does not have keeps the value of an earlier row.
Merge(t, r) == [item  |-> IF r.item = Absent THEN t.item ELSE r.item,
                price |-> IF r.price = Absent THEN t.price ELSE r.price]

\* Faulty: an item that has a record already keeps it.
RecordKept(archive, t) ==
  IF t.item \in DOMAIN archive THEN archive
  ELSE Put(archive, t.item, [code |-> t.item, price |-> t.price, link |-> NoLink])

\* The record is replaced as a whole: itmTemp has no linked barcode.
RecordPut(archive, t) ==
  Put(archive, t.item, [code |-> t.item, price |-> t.price, link |-> NoLink])

ReadRow ==
  /\ pc = "reading" /\ row < Len(Contents[file])
  /\ row' = row + 1
  /\ LET r == Contents[file][row + 1]
         t == Merge(temp, r)
     IN IF r.kind = "I"
        THEN /\ temp' = t
             /\ updated' = (updated \/ r.item # Absent \/ r.price # Absent)
             /\ items' = IF t.item # Absent THEN RecordPut(items, t) ELSE items
        ELSE UNCHANGED <<temp, updated, items>>
  /\ UNCHANGED <<pc, waiting, todo, file, found, csv, old, at, drops, crashes>>

FileRead(n, f) == n = Len(Contents[f])

\* Faulty: the file keeps its name.
RenamedNever(f) == waiting

Renamed(f) == waiting \ {f}

RenameFile ==
  /\ pc = "reading" /\ FileRead(row, file)
  /\ waiting' = Renamed(file)
  /\ pc' = "scanning" /\ found' = TRUE
  /\ UNCHANGED <<todo, file, row, temp, updated, items, csv, old, at, drops, crashes>>

EndScan ==
  /\ pc = "scanning" /\ todo = {}
  /\ pc' = IF found /\ updated THEN "backup" ELSE "asleep"
  /\ UNCHANGED <<waiting, scan, items, csv, old, at, drops, crashes>>

\* Faulty: the old archive is deleted.
BackedUpNever(archive) == old

BackedUp(archive) == archive

\* fileMove; if there is nothing to rename, nothing is dumped.
Backup ==
  /\ pc = "backup"
  /\ IF csv = Absent THEN pc' = "asleep" /\ UNCHANGED <<csv, old>>
     ELSE pc' = "dumping" /\ old' = BackedUp(csv) /\ csv' = Absent
  /\ UNCHANGED <<waiting, scan, items, at, drops, crashes>>

\* dumpToFile: the new file is opened, which is empty, and filled in the
\* order of the keys; one inserted behind the iterator is passed by.
OpenDump ==
  /\ pc = "dumping" /\ csv = Absent
  /\ csv' = [k \in {} |-> BlankRecord]
  /\ UNCHANGED <<pc, waiting, scan, items, old, at, drops, crashes>>

Ahead == {k \in DOMAIN items : k > at}

\* Faulty: the loop stops one item early.
DumpedShort == Cardinality(Ahead) <= 1

Dumped == Ahead = {}

\* A row says the code of the record, not its key: blank records are all
\* written as code 0.
DumpItem ==
  /\ pc = "dumping" /\ csv # Absent /\ ~Dumped
  /\ \E k \in Ahead :
       /\ \A j \in Ahead : k <= j
       /\ csv' = Put(csv, items[k].code, items[k])
       /\ at' = k
  /\ UNCHANGED <<pc, waiting, scan, items, old, drops, crashes>>

EndDump ==
  /\ pc = "dumping" /\ csv # Absent /\ Dumped
  /\ pc' = "asleep" /\ at' = -1
  /\ UNCHANGED <<waiting, scan, items, csv, old, drops, crashes>>

Crash ==
  /\ pc # "down" /\ crashes < MaxCrashes
  /\ pc' = "down" /\ crashes' = crashes + 1
  /\ todo' = {} /\ file' = Absent /\ row' = 0 /\ temp' = Blank
  /\ found' = FALSE /\ updated' = FALSE /\ items' = [k \in {} |-> BlankRecord] /\ at' = -1
  /\ UNCHANGED <<waiting, csv, old, drops>>

\* readItemArchive: without ITEMS.CSV the program ends at once, every time.
Boot ==
  /\ pc = "down" /\ csv # Absent
  /\ pc' = "asleep" /\ items' = csv
  /\ UNCHANGED <<waiting, scan, csv, old, at, drops, crashes>>

-----------------------------------------------------------------------------

Check ==
  \/ OpenFile \/ ReadRow \/ RenameFile \/ EndScan
  \/ Backup \/ OpenDump \/ DumpItem \/ EndDump

Next == (\E f \in Files : Drop(f)) \/ (\E k \in Keys : Lookup(k)) \/ WakeUp \/ Check \/ Crash \/ Boot

Spec == Init /\ [][Next]_vars

\* The thread goes on and the process is started again; no file has to come.
FairSpec == Spec /\ WF_vars(WakeUp) /\ WF_vars(Check) /\ WF_vars(Boot)

-----------------------------------------------------------------------------

\* A record is stored under its code, a blank one under any key.
Archive(map) ==
  /\ DOMAIN map \subseteq Keys /\ map \in [DOMAIN map -> Record \cup {BlankRecord}]
  /\ \A k \in DOMAIN map : map[k] # BlankRecord => map[k].code = k

\* Every variable holds a value of its type.
TypeOK ==
  /\ pc \in {"down", "asleep", "scanning", "reading", "backup", "dumping"}
  /\ waiting \subseteq Files /\ todo \subseteq Files
  /\ file \in Files \cup {Absent} /\ (pc = "reading" => file \in Files)
  /\ row \in Nat /\ temp \in [item : Items \cup {Absent}, price : Prices \cup {0}]
  /\ found \in BOOLEAN /\ updated \in BOOLEAN
  /\ Archive(items) /\ (csv = Absent \/ Archive(csv)) /\ (old = Absent \/ Archive(old))
  /\ at \in Keys \cup {-1} /\ drops \in 0..MaxDrops /\ crashes \in 0..MaxCrashes

\* The records of an archive that are an item's.
RecordsOf(map) == {map[k] : k \in DOMAIN map} \ {BlankRecord}

\* Between two checks ITEMS.CSV has the items the server sells, with their
\* prices and links, whatever variations, lookups of unknown items, crashes
\* and restarts came before: no blank record gets into the file as an item
\* or hides one.
DiskMirrorsMemory == pc = "asleep" => csv # Absent /\ RecordsOf(csv) = RecordsOf(items)

Whole(archive) ==
  archive # Absent /\ \A i \in Items : i \in DOMAIN archive /\ archive[i] # BlankRecord

\* When the process first dies one of ITEMS.CSV and ITEMS.OLD has every item,
\* even if it dies while it writes ITEMS.CSV.
FirstCrashLosesNoItem == pc = "down" /\ crashes = 1 => Whole(csv) \/ Whole(old)

\* The last row of file f for item i, if that row has all its columns.
LastRow(f, i) ==
  {n \in 1..Len(Contents[f]) :
     /\ Contents[f][n].kind = "I" /\ Contents[f][n].item = i /\ Contents[f][n].price # Absent
     /\ \A m \in n + 1 .. Len(Contents[f]) : Contents[f][m].item \notin {i, Absent}}

\* A file renamed to .OLD has been applied: the server sells each of its
\* items at the price of its last row.
RenamedIsApplied ==
  [][\A f \in waiting \ waiting' : \A i \in Items : \A n \in LastRow(f, i) :
       i \in DOMAIN items /\ items[i].price = Contents[f][n].price]_vars

\* A file put into the folder is applied and renamed, unless the process
\* died between renaming ITEMS.CSV and opening the new one: it then cannot
\* start again.
FilesAreProcessed ==
  \A f \in Files : (f \in waiting) ~> (f \notin waiting \/ (pc = "down" /\ csv = Absent))

=============================================================================
