\* Two threads of the pool add the same card to two sessions.
CONSTANTS
  milk = milk  bag = bag  ham = ham
  milkA = milkA  milkB = milkB  bagA = bagA  hamA = hamA  unknown = unknown
  Items = {milk}
  Barcodes = {milkA}
  Departments = {1, 2}
  Cards = {k1}
  NoItem = NoItem  NoBarcode = NoBarcode  NoCard = NoCard
  NoCopy = NoCopy  NoPrice = NoPrice  NoFile = NoFile
  Prices = {1, 3, 4}
  MaxCards = 2
  PriceChanges = FALSE
  ItemOf <- OneItemOf
  EmbeddedPrice <- NoEmbedded
  Threads = {t1, t2}
  Requests = {"card"}
  OneAtATime = TRUE
  OnlyOneSession = TRUE
  Discount <- OneOffMilk
  Variations <- NoVariations
  InitialArchive <- OneItemArchive
  PayStations = {}
  MaxCart = 2
  MaxRequests = 2
  MaxRows = 16
  MaxCrashes = 0
SPECIFICATION Spec
INVARIANTS
  OneSessionPerCard
CHECK_DEADLOCK FALSE
