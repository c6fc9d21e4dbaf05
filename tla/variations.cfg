\* Two variation files dropped three times in all, two deaths of the process.
SPECIFICATION FairSpec
CONSTANTS
  b1 = b1
  f1 = f1
  f2 = f2
  Items = {1, 2}
  Keys = {0, 1, 2, 3}
  Prices = {1, 2, 3}
  Links = {b1}
  NoLink = NoLink
  Files = {f1, f2}
  Contents <- ContentsMC
  Shipped <- ShippedMC
  Absent = Absent
  MaxDrops = 3
  MaxCrashes = 2
INVARIANTS
  TypeOK
  DiskMirrorsMemory
  FirstCrashLosesNoItem
PROPERTIES
  RenamedIsApplied
  FilesAreProcessed
CHECK_DEADLOCK FALSE
