\* Two threads whose requests overlap in one session, voided by some of them,
\* while the price and the department of its item change, with a restart.
CONSTANTS
  milk = milk  bag = bag  ham = ham
  milkA = milkA  milkB = milkB  bagA = bagA  hamA = hamA  unknown = unknown
  Items = {milk}
  Barcodes = {milkA}
  Departments = {1, 2}
  Cards = {}
  NoItem = NoItem  NoBarcode = NoBarcode  NoCard = NoCard
  NoCopy = NoCopy  NoPrice = NoPrice  NoFile = NoFile
  Prices = {1, 3, 4}
  MaxCards = 2
  PriceChanges = FALSE
  ItemOf <- OneItemOf
  EmbeddedPrice <- NoEmbedded
  Threads = {t1, t2}
  Requests = {"add", "void", "cancel"}
  OneAtATime = FALSE
  OnlyOneSession = TRUE
  Discount <- NoDiscount
  Variations <- MilkGoesUp
  InitialArchive <- OneItemArchive
  PayStations = {}
  MaxCart = 1
  MaxRequests = 3
  MaxRows = 16
  MaxCrashes = 1
SPECIFICATION Spec
INVARIANTS
  VoidedForGood

  
CHECK_DEADLOCK FALSE
