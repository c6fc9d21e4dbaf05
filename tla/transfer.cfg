\* Two threads send three sessions to one of two pay stations, with one death
\* of the process.
SPECIFICATION FairSpec
CONSTANTS
  t1 = t1
  t2 = t2
  c1 = c1
  c2 = c2
  c3 = c3
  Threads = {t1, t2}
  PayStations = {1, 2}
  Carts = {c1, c2, c3}
  Size <- SizeMC
  NoFile = NoFile
  NoThread = NoThread
  MaxSends = 3
  MaxCrashes = 1
INVARIANTS
  HolderOwnsTheFile
PROPERTIES
  DeliversWholeDocuments
  SendsEnd
CHECK_DEADLOCK FALSE
