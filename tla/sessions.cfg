\* One session: items linked to each other, an item with two barcodes, an
\* unknown barcode, a weighed item, a promotion, two restarts.
CONSTANTS
  milk = milk  bag = bag  ham = ham
  milkA = milkA  milkB = milkB  bagA = bagA  hamA = hamA  unknown = unknown
  Items = {milk, bag, ham}
  Barcodes = {milkA, milkB, bagA, hamA, unknown}
  Departments = {1, 2}
  Cards = {}
  NoItem = NoItem  NoBarcode = NoBarcode  NoCard = NoCard
  NoCopy = NoCopy  NoPrice = NoPrice  NoFile = NoFile
  Prices = {1, 3, 4}
  MaxCards = 2
  PriceChanges = FALSE
  ItemOf <- LinkedItemOf
  EmbeddedPrice <- HamWeighed
  Threads = {t1}
  Requests = {"add", "void", "cancel"}
  OneAtATime = TRUE
  OnlyOneSession = TRUE
  Discount <- OneOffMilk
  Variations <- NoVariations
  InitialArchive <- LinkedArchive
  PayStations = {}
  MaxCart = 1
  MaxRequests = 3
  MaxRows = 16
  MaxCrashes = 2
SPECIFICATION FairSpec
INVARIANTS
  TypeOK
  ReplayFollowsTheLiveSession
  SessionsAreJournalled
  CountersAgree
PROPERTIES
  BootEnds
  RequestsEnd
CHECK_DEADLOCK FALSE
