\* Loyalty cards as shipped (several sessions per card), and sessions sent to
\* a pay station or voided: one thread, two sessions, a restart.
CONSTANTS
  milk = milk  bag = bag  ham = ham
  milkA = milkA  milkB = milkB  bagA = bagA  hamA = hamA  unknown = unknown
  Items = {milk, bag}
  Barcodes = {milkA, bagA}
  Departments = {1, 2}
  Cards = {k1, k2, k3}
  NoItem = NoItem  NoBarcode = NoBarcode  NoCard = NoCard
  NoCopy = NoCopy  NoPrice = NoPrice  NoFile = NoFile
  Prices = {1, 3, 4}
  MaxCards = 2
  PriceChanges = FALSE
  ItemOf <- PlainItemOf
  EmbeddedPrice <- NoEmbedded
  Threads = {t1}
  Requests = {"add", "void", "card", "uncard", "end", "cancel"}
  OneAtATime = TRUE
  OnlyOneSession = FALSE
  Discount <- OneOffMilk
  Variations <- NoVariations
  InitialArchive <- PlainArchive
  PayStations = {1}
  MaxCart = 2
  MaxRequests = 4
  MaxRows = 16
  MaxCrashes = 1
SPECIFICATION Spec
INVARIANTS
  PosHeaderCountsRows
  BarcodesMirrorItems
  CardOnce
  LoyCounterInRange
PROPERTIES
  PosCustomerHoldsTheCart
  IsASessionStore
CHECK_DEADLOCK FALSE
SYMMETRY CardSymmetry
