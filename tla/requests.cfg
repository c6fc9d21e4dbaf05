\* A store of six items, its devices, and urls of every shape before the session.
SPECIFICATION Spec
CONSTANTS
  Words <- WordsMC
  Numerals <- NumeralsMC
  NumberOf <- Scanned
  BarcodeRows <- RowsMC
  ShippedItems <- ItemsMC
  Promotions <- PromosMC
  PriceChanges = FALSE
  SeparateLinked = FALSE
  DummyRcs = TRUE
  NewPrices = {100}
  DeviceUrls <- DeviceUrlsMC
  StrayUrls <- StrayUrlsMC
  NoSession = NoSession
  Word = 65536
  MaxRequests = 4
  MaxVariations = 1
INVARIANTS
  UrlsNameTheirAction
  LabelsFindTheirItem
  VoidUndoesSale
PROPERTIES
  ShownAddsUp
CHECK_DEADLOCK FALSE
