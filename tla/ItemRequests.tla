---------------------------- MODULE ItemRequests ----------------------------
(***************************************************************************)
(* The requests about items from their urls to their answers               *)
(* (handle_request, then salesActionsFromWebInterface in                   *)
(* src/src/base_system.cpp): one session, one thread.  Looking up a key    *)
(* in an archive's map (src/include/base/archive_map.h) inserts a blank    *)
(* record when there is none, so every lookup may change the map.          *)
(***************************************************************************)
EXTENDS Integers, Sequences, BarcodeRules, Amounts, RequestUrl

CONSTANTS
  NumberOf,        \* [Numerals -> Seq(Digits)]
  BarcodeRows,     \* BARCODES.CSV
  ShippedItems,    \* ITEMS.CSV: a record for each item code
  Promotions,      \* PROMOTIONS.CSV: a promotion for some item codes
  PriceChanges,    \* configuration CartsPriceChangesWhileShopping
  SeparateLinked,  \* configuration MainReturnSeparateLinkedBarcode
  DummyRcs,        \* configuration MainDummyRCS
  NewPrices,       \* the prices variation files bring
  DeviceUrls,      \* what the store's devices send
  StrayUrls,       \* what is sent before the session is open
  NoSession,
  MaxRequests,     \* bound: requests
  MaxVariations    \* bound: price variations

Absent == -1       \* the second column of a row that has one
Row == [text : Seq(Digits), item : Nat \cup {Absent}]
Barcode == [code : Seq(Digits), item : Nat]
Item == [code : Nat, price : Nat, department : Nat, link : Seq(Digits)]

ASSUME ItemRequestsAssumption ==
  /\ NumberOf \in [Numerals -> Seq(Digits)]
  /\ BarcodeRows \in Seq(Row)
  /\ DOMAIN ShippedItems \subseteq Nat
  /\ \A i \in DOMAIN ShippedItems : ShippedItems[i] \in Item /\ ShippedItems[i].code = i
  /\ DOMAIN Promotions \subseteq Nat \ {0}
  /\ \A i \in DOMAIN Promotions : Promotions[i] \in [type : PromoTypes, discount : Int]
  /\ NewPrices \subseteq Nat
  /\ {PriceChanges, SeparateLinked, DummyRcs} \subseteq BOOLEAN
  /\ DeviceUrls \subseteq Seq(Tokens) /\ StrayUrls \subseteq Seq(Tokens)
  /\ MaxRequests \in Nat /\ MaxVariations \in Nat

VARIABLES
  read,      \* the rows of BARCODES.CSV read
  temp,      \* the item code of tempBarcode, kept from row to row
  barcodes,  \* barcodes_map
  items,     \* items_map
  session,   \* the cart of the session, or NoSession
  url,       \* the last url
  called,    \* what salesActionsFromWebInterface was last called with
  answer,    \* and what it returned
  requests, variations

archives == <<read, temp, barcodes, items>>
vars == <<archives, session, url, called, answer, requests, variations>>

-----------------------------------------------------------------------------
(* The archives' maps. *)

BlankBarcode == [code |-> Zero, item |-> 0]
BlankItem    == [code |-> 0, price |-> 0, department |-> 0, link |-> Zero]

Element(map, key, blank) == IF key \in DOMAIN map THEN map[key] ELSE blank

Put(map, key, record) ==
  [k \in DOMAIN map \cup {key} |-> IF k = key THEN record ELSE map[k]]

\* What operator[] leaves behind.
LookedUp(map, key, blank) == IF key \in DOMAIN map THEN map ELSE Put(map, key, blank)

BarcodeAt(key) == Element(barcodes, key, BlankBarcode)
ItemAt(code)   == Element(items, code, BlankItem)

\* decodeBarcode: the item of a barcode, 0 if there is none.
CodeOf(b) ==
  LET r == BarcodeAt(LookupKey(b)) IN IF r.code = LookupKey(b) THEN r.item ELSE 0

\* A linked barcode is looked up as it is.
LinkOf(code)   == ItemAt(code).link
LinkCode(code) == BarcodeAt(LinkOf(code)).item
HasLink(code)  == LinkOf(code) # Zero

\* The lookups of a request for barcode b, those of the link if it follows it.
Touch(b, follows) ==
  LET found == LookedUp(barcodes, LookupKey(b), BlankBarcode)
      shown == LookedUp(items, CodeOf(b), BlankItem)
  IN IF follows
     THEN /\ barcodes' = LookedUp(found, LinkOf(CodeOf(b)), BlankBarcode)
          /\ items' = LookedUp(shown, LinkCode(CodeOf(b)), BlankItem)
     ELSE barcodes' = found /\ items' = shown

-----------------------------------------------------------------------------
(* The cart.  Its rows are those of item records, so of keys of items_map; *)
(* its copies are those of item codes.                                     *)

Numbers  == {Decimal(NumberOf[n]) : n \in Numerals}
Labels   == Numbers \cup {ShippedItems[i].link : i \in DOMAIN ShippedItems} \cup {Zero}
RowItems == {BarcodeRows[n].item : n \in DOMAIN BarcodeRows} \ {Absent}
ItemKeys == DOMAIN ShippedItems \cup RowItems \cup {0}
Departments == {ShippedItems[i].department : i \in DOMAIN ShippedItems}

\* What the cart takes from a barcode alone; that it has an item it is told.
LabelPrices == [b \in Labels |-> IF CarriesPrice(b) THEN LabelPrice(b) ELSE Absent]
LabelItems  == [b \in Labels |-> Absent]

C == INSTANCE Cart WITH
       Items <- ItemKeys, Barcodes <- Labels, Cards <- {}, Prices <- Nat,
       MaxCards <- 1, NoItem <- Absent, NoBarcode <- << >>, NoCard <- Absent,
       NoCopy <- Absent, NoPrice <- Absent,
       ItemOf <- LabelItems, EmbeddedPrice <- LabelPrices

Copied(cart, code) ==
  IF PriceChanges THEN cart
  ELSE C!UpdateLocalItemMap(cart, ItemAt(code).code, ItemAt(code).price)

\* The price of a sale or a void, for a cart that has its copies.
PriceIn(cart, b) == C!GetItemPrice(cart, ItemAt(CodeOf(b)).code, b, ItemAt(CodeOf(b)).price)

\* Faulty: the linked item is sold at the price of the item.
SoldLinkAtItemPrice(cart, code) ==
  IF HasLink(code)
  THEN C!AddItem(Copied(cart, LinkCode(code)), LinkCode(code), LinkOf(code),
                 ItemAt(LinkCode(code)).department, ItemAt(code).price, 0)
  ELSE cart

SoldLink(cart, code) ==
  IF HasLink(code)
  THEN C!AddItem(Copied(cart, LinkCode(code)), LinkCode(code), LinkOf(code),
                 ItemAt(LinkCode(code)).department, ItemAt(LinkCode(code)).price, 0)
  ELSE cart

\* A sale in a session that accepts it.
Sold(cart, b, promo) ==
  LET code == CodeOf(b)
      priced == Copied(cart, code)
  IN SoldLink(C!AddItem(priced, code, b, ItemAt(code).department, PriceIn(priced, b),
                        AsSigned(promo)),
              code)

\* Faulty: the linked item stays.
VoidedItemOnly(cart, b) ==
  C!RemoveItem(cart, CodeOf(b), b, ItemAt(CodeOf(b)).department, PriceIn(cart, b), 0)

\* A void in a session that accepts it; the linked item goes too, at the
\* price of the archive.
Voided(cart, b) ==
  LET code == CodeOf(b)
      gone == C!RemoveItem(cart, code, b, ItemAt(code).department, PriceIn(cart, b), 0)
  IN IF HasLink(code)
     THEN C!RemoveItem(gone, LinkCode(code), LinkOf(code), ItemAt(LinkCode(code)).department,
                       ItemAt(LinkCode(code)).price, 0)
     ELSE gone

PromosFor(code, price) ==
  IF code \in DOMAIN Promotions THEN PromoValues(Promotions[code], price) ELSE {0}

-----------------------------------------------------------------------------
(* Answers.  An amount is its text, << >> if it is not shown. *)

Text(v) == FromLongToStringWithDecimals(v)

Status(rc) == IF rc # "RC_OK" /\ DummyRcs THEN "3" ELSE rc
Only(rc) == [status |-> Status(rc), price |-> << >>, linked |-> << >>, promo |-> << >>,
             items |-> 0, amount |-> << >>]

WithTotals(cart, rc) ==
  [Only(rc) EXCEPT !.items = cart.totals[0].items, !.amount = Text(cart.totals[0].amount)]

\* The price of the linked item is added to the item's or shown with it.
WithPrices(reply, code, price, linked) ==
  LET more == ItemAt(LinkCode(code)).price
  IN CASE linked /\ SeparateLinked -> [reply EXCEPT !.price = Text(price), !.linked = Text(more)]
       [] linked /\ ~SeparateLinked -> [reply EXCEPT !.price = Text(price + more)]
       [] OTHER -> [reply EXCEPT !.price = Text(price)]

\* The minus sign is written whatever the text begins with.
WithPromo(reply, promo) ==
  IF promo = 0 THEN reply ELSE [reply EXCEPT !.promo = <<Minus>> \o Text(AsSigned(promo))]

-----------------------------------------------------------------------------
(* The steps. *)

NoCall == [action |-> NotRecognized, params |-> << >>]

\* tempBarcode is not initialized: its first item is any.
Init ==
  /\ read = 0 /\ temp \in ItemKeys /\ barcodes = << >> /\ items = ShippedItems
  /\ session = NoSession /\ url = << >> /\ called = NoCall /\ answer = Only("RC_OK")
  /\ requests = 0 /\ variations = 0

\* Faulty: the barcode is stored as it is written.
StoredKeyAsWritten(b) == b

\* The reader stores a barcode where lookups look for it.
StoredKey(b) == LookupKey(b)

\* readBarcodesArchive, row by row: a row without an item has the item of
\* the row before, and an empty line is the barcode 0.
ReadRow ==
  /\ read < Len(BarcodeRows)
  /\ LET row == BarcodeRows[read + 1]
         key == StoredKey(Decimal(row.text))
     IN /\ temp' = IF row.item = Absent THEN temp ELSE row.item
        /\ barcodes' = Put(barcodes, key, [code |-> key, item |-> temp'])
  /\ read' = read + 1
  /\ UNCHANGED <<items, session, url, called, answer, requests, variations>>

Booted == read = Len(BarcodeRows)

\* A row of a variation file: the record is replaced and has no link.  One
\* before the session is open would be another ShippedItems.
PriceVariation ==
  /\ session # NoSession /\ variations < MaxVariations
  /\ \E i \in DOMAIN ShippedItems, p \in NewPrices :
       items' = [items EXCEPT ![i] = [@ EXCEPT !.price = p, !.link = Zero]]
  /\ variations' = variations + 1
  /\ UNCHANGED <<read, temp, barcodes, session, url, called, answer, requests>>

\* strtoull of a parameter; letters before any digit make it 0.
NumberIn(value) ==
  IF value # << >> /\ value[1] \in Numerals THEN Decimal(NumberOf[value[1]]) ELSE Zero
BarcodeIn(params) == NumberIn(Param(params, "barcode"))

\* The only session here has the number 1.
Finds(params) == session # NoSession /\ NumberIn(Param(params, "devSessId")) = <<1>>

\* The actions that ask for no session.  Those of customers and of the end of
\* a session are in the module BaseSystem: here they find no session.
Sessionless == PlainActions \cup {"initSession", "getItemInfo", NotRecognized}

InitSession(action) ==
  /\ action = "initSession" /\ session = NoSession
  /\ session' = C!NewCart("ready") /\ answer' = Only("RC_OK")
  /\ UNCHANGED <<barcodes, items>>

\* getStoreInfo, getCartsList, and an action that is none.
NoSessionAsked(action) ==
  /\ action \in PlainActions \cup {NotRecognized}
  /\ answer' = Only(IF action = NotRecognized THEN NotRecognized ELSE "RC_OK")
  /\ UNCHANGED <<barcodes, items, session>>

\* The price shown is the archive's, whatever the session has copied.
ItemInfo(action, b) ==
  LET price == IF CarriesPrice(b) THEN LabelPrice(b) ELSE ItemAt(CodeOf(b)).price
  IN /\ action = "getItemInfo"
     /\ answer' = CASE ~Recognized(b) -> Only("BCODE_NOT_RECOGNIZED")
                    [] Recognized(b) /\ CodeOf(b) = 0 -> Only("BCODE_ITEM_NOT_FOUND")
                    [] OTHER -> [Only("RC_OK") EXCEPT !.price = Text(price)]
     /\ Touch(b, FALSE)
     /\ UNCHANGED session

UnknownSession(action) ==
  /\ action \notin Sessionless
  /\ answer' = Only("CART_NOT_FOUND")
  /\ UNCHANGED <<barcodes, items, session>>

\* Every request of a session takes an id.
Asked == C!GetNextRequestId(session)

\* totalDiscounts is left out: it is another text of the session's totals.
GetTotals(action) ==
  /\ action = "getTotals"
  /\ session' = Asked /\ answer' = WithTotals(session, "RC_OK")
  /\ UNCHANGED <<barcodes, items>>

\* The rescan flag, which nobody reads, and the list of the cart.
Query(action) ==
  /\ action \in {"manageRescan", "getAllCart", "getAllCartWithBarcodes"}
  /\ session' = Asked /\ answer' = Only("RC_OK")
  /\ UNCHANGED <<barcodes, items>>

VoidTransaction(action) ==
  /\ action = "voidTransaction"
  /\ session' = [Asked EXCEPT !.state = "voided"]
  /\ answer' = Only(IF C!Accepts(session) THEN "RC_OK" ELSE "CART_STATE_VOIDED")
  /\ UNCHANGED <<barcodes, items>>

\* A barcode no pattern recognizes, or that has no item: its record is
\* looked up for the log.
RefuseItem(action, b) ==
  /\ action = "addItem" /\ (~Recognized(b) \/ CodeOf(b) = 0)
  /\ session' = Asked
  /\ answer' = Only(IF Recognized(b) THEN "BCODE_ITEM_NOT_FOUND" ELSE "BCODE_NOT_RECOGNIZED")
  /\ barcodes' = LookedUp(barcodes, LookupKey(b), BlankBarcode)
  /\ items' = IF Recognized(b) THEN LookedUp(items, 0, BlankItem) ELSE items

AddItem(action, b) ==
  LET code == CodeOf(b)
      open == C!Accepts(session)
      price == PriceIn(Copied(session, code), b)
  IN /\ action = "addItem" /\ Recognized(b) /\ code # 0
     /\ \E promo \in PromosFor(code, price) :
          /\ session' = IF open THEN Sold(Asked, b, promo) ELSE Copied(Asked, code)
          /\ answer' = WithPromo(
                         WithPrices(
                           WithTotals(session', IF open THEN "RC_OK" ELSE "CART_STATE_VOIDED"),
                           code, price, open /\ HasLink(code)),
                         promo)
     /\ Touch(b, open /\ HasLink(code))

\* Any barcode is taken whose record is the one of its code: the blank
\* record for an unknown barcode, but not a blank record under another code.
VoidItem(action, b) ==
  LET code == CodeOf(b)
      open == C!Accepts(session)
      isItem == ItemAt(code).code = code
  IN /\ action = "voidItem"
     /\ session' = IF isItem /\ open THEN Voided(Asked, b) ELSE Asked
     /\ answer' = IF ~isItem THEN Only("BCODE_ITEM_NOT_FOUND")
                  ELSE WithPrices(
                         WithTotals(session', IF open THEN "RC_OK" ELSE "CART_STATE_VOIDED"),
                         code, PriceIn(session, b), open /\ HasLink(code))
     /\ Touch(b, isItem /\ open /\ HasLink(code))

\* salesActionsFromWebInterface.
Perform(action, params) ==
  LET b == BarcodeIn(params)
  IN \/ InitSession(action) \/ NoSessionAsked(action) \/ ItemInfo(action, b)
     \/ ~Finds(params) /\ UnknownSession(action)
     \/ /\ Finds(params)
        /\ \/ GetTotals(action) \/ Query(action) \/ VoidTransaction(action)
           \/ RefuseItem(action, b) \/ AddItem(action, b) \/ VoidItem(action, b)

\* handle_request; what is not acceptable is answered with bad_request.
\* Bound: one request is sent before the session is open.
Handle(u) ==
  /\ Booted /\ requests < MaxRequests /\ (requests = 0 \/ session # NoSession)
  /\ url' = u /\ requests' = requests + 1
  /\ IF Acceptable(u)
     THEN LET path == RequestPath(u)
              call == [action |-> ActionOf(path), params |-> ParamsOf(path)]
          IN called' = call /\ Perform(call.action, call.params)
     ELSE /\ called' = NoCall /\ answer' = Only("bad_request")
          /\ UNCHANGED <<barcodes, items, session>>
  /\ UNCHANGED <<read, temp, variations>>

\* Any client may send any url; the bound lets them do so first of all.
Stray == requests = 0 /\ \E u \in StrayUrls : Handle(u)

Next == ReadRow \/ PriceVariation \/ Stray \/ \E u \in DeviceUrls : Handle(u)

Spec == Init /\ [][Next]_vars

=============================================================================
