-------------------------------- MODULE Cart --------------------------------
(***************************************************************************)
(* The class Cart (src/src/cart.cpp): one shopping session.  A cart is a   *)
(* record; each method that changes it is an operator from the cart to the *)
(* changed cart.  BaseSystem holds the carts.                              *)
(*                                                                         *)
(* No method takes a lock.  The operator of a whole method is for a caller *)
(* that has the cart to itself: the constructor that replays a journal.    *)
(* Threads that may meet in a cart take addItemByBarcode,                  *)
(* removeItemByBarcode and voidAllCart in steps (BaseSystem), of which     *)
(* PutItem and TakeItem are the changes alone.                             *)
(*                                                                         *)
(* A row of cart_items_map or barcodes_map that does not exist is a        *)
(* quantity 0 here; a row of totals_map that does not exist is all zeros.  *)
(*                                                                         *)
(* Every definition marked "Faulty" is a slip of one line; each is put in  *)
(* place of the definition after it to show which property notices.        *)
(***************************************************************************)
EXTENDS Integers, Sequences, FiniteSets

CONSTANTS
  Items,          \* the codes of the item archive
  Barcodes,       \* the barcodes a device may scan
  Departments,    \* department codes
  Cards,          \* loyalty card numbers
  NoItem,         \* what decodeBarcode yields for an unknown barcode
  NoBarcode,      \* an item without a linked barcode
  NoCard,         \* an empty slot of loy_cards_map
  NoCopy,         \* an item without an entry in items_local_copy_map
  NoPrice,        \* a barcode that carries no price of its own
  Prices,         \* the prices an item may have
  MaxCards,       \* configuration LoyMaxCardsPerTransaction
  PriceChanges,   \* configuration CartsPriceChangesWhileShopping
  ItemOf,         \* [Barcodes -> Items \cup {NoItem}], decodeBarcode
  EmbeddedPrice   \* [Barcodes -> Prices \cup {NoPrice}]

ASSUME CartAssumption ==
  /\ IsFiniteSet(Items) /\ IsFiniteSet(Barcodes) /\ IsFiniteSet(Departments)
  /\ Departments \subseteq Nat
  /\ Prices \subseteq Int
  /\ MaxCards \in Nat \ {0}
  /\ PriceChanges \in BOOLEAN
  /\ NoItem \notin Items
  /\ NoBarcode \notin Barcodes
  /\ NoCard \notin Cards
  /\ NoCopy \notin Prices
  /\ NoPrice \notin Prices
  /\ ItemOf \in [Barcodes -> Items \cup {NoItem}]
  /\ EmbeddedPrice \in [Barcodes -> Prices \cup {NoPrice}]

-----------------------------------------------------------------------------
(* The state of a cart. *)

CartStates == {"loading", "ready", "voided"}

\* totals_map: entry 0 is the whole cart, the others are the departments.
TotalKeys == Departments \cup {0}
Goods  == [items : [Items -> Nat], barcodes : [Barcodes -> Nat], itemsNumber : Int]
Loy    == [slots : [0..MaxCards -> Cards \cup {NoCard}], number : Int]
Copies == [Items -> Prices \cup {NoCopy}]
Totals == [TotalKeys -> [items : Int, amount : Int, discount : Int]]

CartRecord == [state : CartStates, requestId : Nat, goods : Goods,
               totals : Totals, loy : Loy, local : Copies]

NoGoods  == [items |-> [i \in Items |-> 0], barcodes |-> [b \in Barcodes |-> 0],
             itemsNumber |-> 0]
NoLoy    == [slots |-> [s \in 0..MaxCards |-> NoCard], number |-> 0]
NoCopies == [i \in Items |-> NoCopy]
NoTotals == [d \in TotalKeys |-> [items |-> 0, amount |-> 0, discount |-> 0]]

\* The constructor; the state is "ready" for a new session and "loading"
\* for one rebuilt from its journal.
NewCart(state) == [state |-> state, requestId |-> 1, goods |-> NoGoods,
                   totals |-> NoTotals, loy |-> NoLoy, local |-> NoCopies]

GetNextRequestId(cart) == [cart EXCEPT !.requestId = @ + 1]

\* The condition every selling or loyalty method starts with.
\* Faulty: the state is not looked at.
AcceptsUnchecked(cart) == cart.state \in CartStates
Accepts(cart) == cart.state \in {"loading", "ready"}

-----------------------------------------------------------------------------
(* The rows of the journal file <number>.transaction_in_progress.  The     *)
(* quantity column is left out: addItem is only ever called with 1.        *)

RowKD       == [kind |-> "KD"]
RowKI(i, p) == [kind |-> "KI", item |-> i, price |-> p]
RowIA(b)    == [kind |-> "IA", barcode |-> b]
RowIV(b)    == [kind |-> "IV", barcode |-> b]
RowLA(k)    == [kind |-> "LA", card |-> k]
RowLV(k)    == [kind |-> "LV", card |-> k]
RowCV       == [kind |-> "CV"]

\* No row is written for a barcode that decodeBarcode does not know.
KnownBarcodes == {b \in Barcodes : ItemOf[b] # NoItem}

Rows == {RowKD, RowCV}
        \cup {RowKI(i, p) : i \in Items, p \in Prices}
        \cup {RowIA(b) : b \in KnownBarcodes} \cup {RowIV(b) : b \in KnownBarcodes}
        \cup {RowLA(k) : k \in Cards} \cup {RowLV(k) : k \in Cards}

-----------------------------------------------------------------------------
(* updateLocalItemMap: the price of the item's first sale is kept. *)

KeepCopy(local, i, p) == IF local[i] = NoCopy THEN [local EXCEPT ![i] = p] ELSE local

UpdateLocalItemMap(cart, i, p) == [cart EXCEPT !.local = KeepCopy(@, i, p)]

\* Faulty: the copy is forgotten and the archive's price is always used.
GetItemPriceUncopied(cart, i, b, archivePrice) ==
  IF EmbeddedPrice[b] # NoPrice THEN EmbeddedPrice[b] ELSE archivePrice

GetItemPrice(cart, i, b, archivePrice) ==
  IF EmbeddedPrice[b] # NoPrice THEN EmbeddedPrice[b]
  ELSE IF ~PriceChanges /\ cart.local[i] # NoCopy THEN cart.local[i]
  ELSE archivePrice

-----------------------------------------------------------------------------
(* addItemByBarcode and removeItemByBarcode. *)

AddTo(totals, d, n, amount, discount) ==
  [totals EXCEPT ![d] = [items    |-> @.items + n,
                         amount   |-> @.amount + amount,
                         discount |-> @.discount + discount]]

\* Faulty: the department's row is not updated.
BookTotalOnly(totals, d, n, price, discount) ==
  AddTo(totals, 0, n, n * (price - discount), n * discount)

\* The total row, then the department's row: a department with code 0 is
\* the total row itself.
Book(totals, d, n, price, discount) ==
  AddTo(AddTo(totals, 0, n, n * (price - discount), n * discount),
        d, n, n * (price - discount), n * discount)

PutGoods(goods, i, b) ==
  [items       |-> [goods.items EXCEPT ![i] = @ + 1],
   barcodes    |-> [goods.barcodes EXCEPT ![b] = @ + 1],
   itemsNumber |-> goods.itemsNumber + 1]

PutItem(cart, i, b, d, price, discount) ==
  [cart EXCEPT !.goods = PutGoods(@, i, b), !.totals = Book(@, d, 1, price, discount)]

AddItem(cart, i, b, d, price, discount) ==
  IF Accepts(cart) THEN PutItem(cart, i, b, d, price, discount) ELSE cart

\* Faulty: a row is not erased at quantity 0.
ErasedNever(q) == q - 1

\* A row that falls below 1 is erased.
Erased(q) == IF q > 1 THEN q - 1 ELSE 0

\* Faulty: the barcode's row stays.
TakeGoodsKeepBarcode(goods, i, b) ==
  [goods EXCEPT !.items[i] = Erased(@), !.itemsNumber = @ - 1]

\* Faulty: the counter of the header is not decremented.
TakeGoodsUncounted(goods, i, b) ==
  [goods EXCEPT !.items[i] = Erased(@), !.barcodes[b] = Erased(@)]

\* Only the item's row was looked for: the barcode may be another one of
\* the same item, whose row then does not exist.
TakeGoods(goods, i, b) ==
  [items       |-> [goods.items EXCEPT ![i] = Erased(@)],
   barcodes    |-> [goods.barcodes EXCEPT ![b] = Erased(@)],
   itemsNumber |-> goods.itemsNumber - 1]

InCart(cart, i) == cart.goods.items[i] > 0

\* An item that is not there is found out before anything is changed.
TakeItem(cart, i, b, d, price, discount) ==
  IF InCart(cart, i)
  THEN [cart EXCEPT !.goods = TakeGoods(@, i, b), !.totals = Book(@, d, -1, price, discount)]
  ELSE cart

RemoveItem(cart, i, b, d, price, discount) ==
  IF Accepts(cart) THEN TakeItem(cart, i, b, d, price, discount) ELSE cart

-----------------------------------------------------------------------------
(* addLoyCard and removeLoyCard. *)

CardsIn(loy) == {loy.slots[s] : s \in 0..MaxCards} \ {NoCard}

\* Faulty: a card already in the cart is not looked for.
LoyRoomTwice(loy, k) == loy.number < MaxCards

LoyRoom(loy, k) == loy.number < MaxCards /\ k \notin CardsIn(loy)

\* The new card goes to slot loy_cards_number, whatever that slot holds.
PutCard(loy, k) ==
  IF LoyRoom(loy, k)
  THEN [slots |-> [loy.slots EXCEPT ![loy.number] = k], number |-> loy.number + 1]
  ELSE loy

AddLoyCard(cart, k) == IF Accepts(cart) THEN [cart EXCEPT !.loy = PutCard(@, k)] ELSE cart

\* Faulty: the counter is decremented for a card the cart does not hold.
TakeCardAlways(loy, k) ==
  [slots |-> [s \in 0..MaxCards |-> IF loy.slots[s] = k THEN NoCard ELSE loy.slots[s]],
   number |-> loy.number - 1]

\* The loop erases the slot that holds the card.
TakeCard(loy, k) ==
  IF k \in CardsIn(loy)
  THEN [slots |-> [s \in 0..MaxCards |-> IF loy.slots[s] = k THEN NoCard ELSE loy.slots[s]],
        number |-> loy.number - 1]
  ELSE loy

RemoveLoyCard(cart, k) == IF Accepts(cart) THEN [cart EXCEPT !.loy = TakeCard(@, k)] ELSE cart

=============================================================================
