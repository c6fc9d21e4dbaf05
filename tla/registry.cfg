\* Session numbers, loyalty cards with one session per card, and a price that
\* changes: one thread, two sessions, a restart.
CONSTANTS
  milk = milk  bag = bag  ham = ham
  milkA = milkA  milkB = milkB  bagA = bagA  hamA = hamA  unknown = unknown
  Items = {milk}
  Barcodes = {milkA}
  Departments = {1, 2}
  Cards = {k1, k2, k3}
  NoItem = NoItem  NoBarcode = NoBarcode  NoCard = NoCard
  NoCopy = NoCopy  NoPrice = NoPrice  NoFile = NoFile
  Prices = {1, 3, 4}
  MaxCards = 2
  PriceChanges = FALSE
  ItemOf <- OneItemOf
  EmbeddedPrice <- NoEmbedded
  Threads = {t1}
  Requests = {"add", "void", "card", "uncard", "cancel"}
  OneAtATime = TRUE
  OnlyOneSession = TRUE
  Discount <- NoDiscount
  Variations <- MilkGoesUp
  InitialArchive <- OneItemArchive
  PayStations = {}
  MaxCart = 2
  MaxRequests = 4
  MaxRows = 16
  MaxCrashes = 1
SPECIFICATION Spec
INVARIANTS
  OneSessionPerCard
  HeldCardsAreRegistered
  SessionsAreNotShared
  GivenSessionsExist
  TotalIsAsShown
  DepartmentsAddUp
CHECK_DEADLOCK FALSE
SYMMETRY CardSymmetry
