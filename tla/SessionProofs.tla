---------------------------- MODULE SessionProofs ----------------------------
(***************************************************************************)
(* What the sessions of BaseSystem promise besides their journal: cards    *)
(* and barcodes, void sessions, pay stations, session numbers.             *)
(*                                                                         *)
(* A property of what one cart keeps is proved of the few things a step    *)
(* may do to a cart (CartStep), served or being rebuilt, whatever other    *)
(* requests are under way in the same session.                             *)
(***************************************************************************)
EXTENDS BaseSystemProofs, FiniteSetTheorems

-----------------------------------------------------------------------------
(* The cards of a cart. *)

\* CardOnce and LoyCounterInRange, said of the loyalty part of one cart.
LoySound(loy) ==
  /\ \A r, s \in 0..MaxCards : loy.slots[r] = loy.slots[s] /\ loy.slots[r] # NoCard => r = s
  /\ Cardinality(CardsIn(loy)) <= loy.number
  /\ loy.number <= MaxCards
  /\ loy.slots[MaxCards] = NoCard

LEMMA MaxCardsType == MaxCards \in Nat /\ MaxCards > 0 /\ NoCard \notin Cards
  BY CartAssumption

LEMMA CardsAreFinite ==
  ASSUME NEW loy \in Loy
  PROVE  /\ IsFiniteSet(CardsIn(loy)) /\ Cardinality(CardsIn(loy)) \in Nat
         /\ CardsIn(loy) \subseteq Cards
<1>1. IsFiniteSet(0..MaxCards)
  BY MaxCardsType, FS_Interval
<1> DEFINE T == {loy.slots[s] : s \in 0..MaxCards}
<1>2. loy.slots \in [0..MaxCards -> T]
  BY DEF Loy
<1>3. loy.slots \in Surjection(0..MaxCards, T)
  BY <1>2 DEF Surjection
<1>4. IsFiniteSet(T)
  BY <1>1, <1>3, FS_Surjection
<1>5. CardsIn(loy) = T \ {NoCard}
  BY DEF CardsIn
<1>6. IsFiniteSet(CardsIn(loy))
  BY <1>4, <1>5, FS_RemoveElement
<1>7. CardsIn(loy) \subseteq Cards
  BY DEF CardsIn, Loy
<1> QED BY <1>6, <1>7, FS_CardinalityType

LEMMA FreshLoySound == LoySound(NoLoy)
<1>1. CardsIn(NoLoy) = {}
  BY DEF CardsIn, NoLoy
<1>2. Cardinality(CardsIn(NoLoy)) = 0
  BY <1>1, FS_EmptySet
<1>3. NoLoy.number = 0 /\ \A s \in 0..MaxCards : NoLoy.slots[s] = NoCard
  BY DEF NoLoy
<1>4. NoLoy.slots[MaxCards] = NoCard
  BY <1>3, MaxCardsType
<1> QED BY <1>2, <1>3, <1>4, MaxCardsType DEF LoySound

\* addLoyCard writes below the maximum, over a card perhaps.
LEMMA PutCardSound ==
  ASSUME NEW loy \in Loy, LoySound(loy), NEW k \in Cards
  PROVE  LoySound(PutCard(loy, k))
<1>1. CASE ~LoyRoom(loy, k)
  BY <1>1 DEF PutCard
<1>2. CASE LoyRoom(loy, k)
  <2> DEFINE n == loy.number
             new == PutCard(loy, k)
  <2>1. /\ new.slots = [loy.slots EXCEPT ![n] = k] /\ new.number = n + 1
        /\ n < MaxCards /\ k \notin CardsIn(loy)
    BY <1>2 DEF PutCard, LoyRoom
  <2>2. /\ IsFiniteSet(CardsIn(loy)) /\ Cardinality(CardsIn(loy)) \in Nat
        /\ n \in Int /\ loy.slots \in [0..MaxCards -> Cards \cup {NoCard}]
    BY CardsAreFinite DEF Loy
  <2>3. n \in 0..MaxCards /\ n # MaxCards /\ MaxCards \in 0..MaxCards
    BY <2>1, <2>2, MaxCardsType DEF LoySound
  <2>4. \A s \in 0..MaxCards : new.slots[s] = IF s = n THEN k ELSE loy.slots[s]
    BY <2>1, <2>2
  <2>5. CardsIn(new) \subseteq CardsIn(loy) \cup {k}
    BY <2>4 DEF CardsIn
  <2>6. /\ IsFiniteSet(CardsIn(loy) \cup {k})
        /\ Cardinality(CardsIn(loy) \cup {k}) = Cardinality(CardsIn(loy)) + 1
    BY <2>1, <2>2, FS_AddElement
  <2>7. IsFiniteSet(CardsIn(new)) /\ Cardinality(CardsIn(new)) <= Cardinality(CardsIn(loy)) + 1
    BY <2>5, <2>6, FS_Subset
  <2>8. Cardinality(CardsIn(new)) \in Nat
    BY <2>7, FS_CardinalityType
  <2>9. Cardinality(CardsIn(new)) <= new.number /\ new.number <= MaxCards
    <3>1. Cardinality(CardsIn(loy)) <= n
      BY DEF LoySound
    <3> HIDE DEF n, new
    <3> QED BY <2>1, <2>2, <2>7, <2>8, <3>1, MaxCardsType
  <2>10. new.slots[MaxCards] = NoCard
    BY <2>3, <2>4 DEF LoySound
  <2>11. \A r, s \in 0..MaxCards : new.slots[r] = new.slots[s] /\ new.slots[r] # NoCard => r = s
    <3>1. \A s \in 0..MaxCards : loy.slots[s] # k
      BY <2>1, MaxCardsType DEF CardsIn
    <3>2. \A r, s \in 0..MaxCards :
            loy.slots[r] = loy.slots[s] /\ loy.slots[r] # NoCard => r = s
      BY DEF LoySound
    <3> HIDE DEF n, new
    <3> QED BY <2>4, <3>1, <3>2
  <2> HIDE DEF n, new
  <2>12. LoySound(new)
    BY <2>9, <2>10, <2>11 DEF LoySound
  <2> QED BY <2>12 DEF new
<1> QED BY <1>1, <1>2

\* removeLoyCard erases a slot and counts down only for a card it found.
LEMMA TakeCardSound ==
  ASSUME NEW loy \in Loy, LoySound(loy), NEW k \in Cards
  PROVE  LoySound(TakeCard(loy, k))
<1>1. CASE k \notin CardsIn(loy)
  BY <1>1 DEF TakeCard
<1>2. CASE k \in CardsIn(loy)
  <2> DEFINE new == TakeCard(loy, k)
  <2>1. /\ new.slots = [s \in 0..MaxCards |-> IF loy.slots[s] = k THEN NoCard ELSE loy.slots[s]]
        /\ new.number = loy.number - 1
    BY <1>2 DEF TakeCard
  <2>2. /\ IsFiniteSet(CardsIn(loy)) /\ Cardinality(CardsIn(loy)) \in Nat
        /\ loy.number \in Int
    BY CardsAreFinite DEF Loy
  <2>3. \A s \in 0..MaxCards : new.slots[s] = IF loy.slots[s] = k THEN NoCard ELSE loy.slots[s]
    BY <2>1
  <2>4. CardsIn(new) = CardsIn(loy) \ {k}
    BY <2>3, MaxCardsType DEF CardsIn
  <2>5. Cardinality(CardsIn(new)) = Cardinality(CardsIn(loy)) - 1
    BY <1>2, <2>2, <2>4, FS_RemoveElement
  <2>6. Cardinality(CardsIn(loy)) <= loy.number /\ loy.number <= MaxCards
    BY DEF LoySound
  <2>7. \A r, s \in 0..MaxCards : new.slots[r] = new.slots[s] /\ new.slots[r] # NoCard => r = s
    <3>1. \A r, s \in 0..MaxCards :
            loy.slots[r] = loy.slots[s] /\ loy.slots[r] # NoCard => r = s
      BY DEF LoySound
    <3> HIDE DEF new
    <3> QED BY <2>3, <3>1
  <2>8. new.slots[MaxCards] = NoCard
    <3>1. MaxCards \in 0..MaxCards
      BY MaxCardsType
    <3> QED BY <2>3, <3>1 DEF LoySound
  <2> HIDE DEF new
  <2>9. Cardinality(CardsIn(new)) <= new.number /\ new.number <= MaxCards
    BY <2>1, <2>2, <2>5, <2>6, MaxCardsType
  <2>10. LoySound(new)
    BY <2>7, <2>8, <2>9 DEF LoySound
  <2> QED BY <2>10 DEF new
<1> QED BY <1>1, <1>2

-----------------------------------------------------------------------------
(* The rows of an item and of its barcode. *)

\* BarcodesMirrorItems, said of the goods of one cart.
MirrorSound(goods) ==
  OneBarcodePerItem =>
    \A b \in Barcodes : ItemOf[b] # NoItem => goods.barcodes[b] = goods.items[ItemOf[b]]

LEMMA FreshMirrorSound == MirrorSound(NoGoods)
<1>1. \A b \in Barcodes : ItemOf[b] # NoItem => ItemOf[b] \in Items
  BY CartAssumption
<1> QED BY <1>1 DEF MirrorSound, NoGoods

\* addItemByBarcode and removeItemByBarcode change both rows alike.
LEMMA GoodsMirrorSound ==
  ASSUME NEW goods \in Goods, MirrorSound(goods), NEW b \in KnownBarcodes
  PROVE  /\ MirrorSound(PutGoods(goods, ItemOf[b], b))
         /\ MirrorSound(TakeGoods(goods, ItemOf[b], b))
<1>1. /\ \A a \in Barcodes : ItemOf[a] # NoItem => ItemOf[a] \in Items
      /\ b \in Barcodes /\ ItemOf[b] # NoItem
  BY CartAssumption DEF KnownBarcodes
<1>2. ASSUME OneBarcodePerItem, NEW a \in Barcodes, ItemOf[a] # NoItem
      PROVE  ItemOf[a] = ItemOf[b] <=> a = b
  BY <1>1, <1>2 DEF OneBarcodePerItem
<1>3. goods.items \in [Items -> Nat] /\ goods.barcodes \in [Barcodes -> Nat]
  BY DEF Goods
<1>4. MirrorSound(PutGoods(goods, ItemOf[b], b))
  BY <1>1, <1>2, <1>3 DEF MirrorSound, PutGoods
<1>5. MirrorSound(TakeGoods(goods, ItemOf[b], b))
  BY <1>1, <1>2, <1>3 DEF MirrorSound, TakeGoods
<1> QED BY <1>4, <1>5

-----------------------------------------------------------------------------
(* What a step does to a cart. *)

Fresh(new) == new.goods = NoGoods /\ new.totals = NoTotals /\ new.loy = NoLoy

\* Goods, totals and cards stay, and so does every price copy there was.
Stays(old, new) ==
  /\ new.goods = old.goods /\ new.totals = old.totals /\ new.loy = old.loy
  /\ \A i \in Items : old.local[i] # NoCopy => new.local[i] = old.local[i]

Sells(old, new, b, d, price, discount) ==
  /\ new.goods = PutGoods(old.goods, ItemOf[b], b)
  /\ new.totals = Book(old.totals, d, 1, price, discount)
  /\ new.loy = old.loy /\ new.local = old.local

TakesOut(old, new, b, d, price, discount) ==
  /\ InCart(old, ItemOf[b])
  /\ new.goods = TakeGoods(old.goods, ItemOf[b], b)
  /\ new.totals = Book(old.totals, d, -1, price, discount)
  /\ new.loy = old.loy /\ new.local = old.local

Carded(old, new, loy) ==
  new.loy = loy /\ new.goods = old.goods /\ new.totals = old.totals /\ new.local = old.local

\* The request, or the row being replayed, that sells or voids an item.
Cause(c, kind, b, price, discount) ==
  \/ phase = "up" /\ \E t \in Threads :
       /\ PastCheck(t, c) /\ job[t].row.kind = kind /\ job[t].row.barcode = b
       /\ price = job[t].price /\ discount = job[t].discount
  \/ /\ loading # NotLoading /\ loading.cart = c /\ loading.row < Len(journal[c])
     /\ carts[c].state # "voided"
     /\ journal[c][loading.row + 1].kind = kind /\ journal[c][loading.row + 1].barcode = b
     /\ price = GetItemPrice(carts[c], ItemOf[b], b, archive[ItemOf[b]].price)
     /\ discount = 0

\* Card k is among the first n rows of the journal of c.
AddedBy(c, k, n) == \E m \in 1..n : journal[c][m] = RowLA(k)

\* What a step makes of the cart of c.
Moves(c) ==
  \/ Stays(carts[c], carts'[c])
  \/ \E b \in KnownBarcodes, d \in Departments, price \in Int, discount \in Int :
       \/ Sells(carts[c], carts'[c], b, d, price, discount) /\ Cause(c, "IA", b, price, discount)
       \/ TakesOut(carts[c], carts'[c], b, d, price, discount) /\ Cause(c, "IV", b, price, discount)
  \/ \E k \in Cards :
       \/ Carded(carts[c], carts'[c], PutCard(carts[c].loy, k)) /\ AddedBy(c, k, RowsIn(c))'
       \/ Carded(carts[c], carts'[c], TakeCard(carts[c].loy, k))

LEMMA MethodsMove ==
  ASSUME NEW cart \in CartRecord
  PROVE  /\ Stays(cart, cart) /\ Stays(cart, GetNextRequestId(cart))
         /\ \A state : Stays(cart, [cart EXCEPT !.state = state])
         /\ \A i, p : Stays(cart, UpdateLocalItemMap(cart, i, p))
         /\ \A b, d, price, discount :
              /\ Sells(cart, PutItem(cart, ItemOf[b], b, d, price, discount), b, d, price, discount)
              /\ \/ TakesOut(cart, TakeItem(cart, ItemOf[b], b, d, price, discount), b, d, price,
                             discount)
                 \/ TakeItem(cart, ItemOf[b], b, d, price, discount) = cart
         /\ \A k : /\ \/ AddLoyCard(cart, k) = cart
                      \/ Carded(cart, AddLoyCard(cart, k), PutCard(cart.loy, k))
                   /\ \/ RemoveLoyCard(cart, k) = cart
                      \/ Carded(cart, RemoveLoyCard(cart, k), TakeCard(cart.loy, k))
<1>1. Stays(cart, cart) /\ Stays(cart, GetNextRequestId(cart))
  BY DEF Stays, GetNextRequestId, CartRecord
<1>2. \A state : Stays(cart, [cart EXCEPT !.state = state])
  BY DEF Stays, CartRecord
<1>3. ASSUME NEW i, NEW p
      PROVE  Stays(cart, UpdateLocalItemMap(cart, i, p))
  <2>1. cart.local \in [Items -> Prices \cup {NoCopy}]
    BY DEF CartRecord, Copies
  <2> QED BY <2>1 DEF Stays, UpdateLocalItemMap, KeepCopy, CartRecord
<1>4. ASSUME NEW b, NEW d, NEW price, NEW discount
      PROVE  /\ Sells(cart, PutItem(cart, ItemOf[b], b, d, price, discount), b, d, price, discount)
             /\ \/ TakesOut(cart, TakeItem(cart, ItemOf[b], b, d, price, discount), b, d, price,
                            discount)
                \/ TakeItem(cart, ItemOf[b], b, d, price, discount) = cart
  <2>1. Sells(cart, PutItem(cart, ItemOf[b], b, d, price, discount), b, d, price, discount)
    BY DEF Sells, PutItem, CartRecord
  <2>2. CASE InCart(cart, ItemOf[b])
    BY <2>1, <2>2 DEF TakesOut, TakeItem, CartRecord
  <2>3. CASE ~InCart(cart, ItemOf[b])
    BY <2>1, <2>3 DEF TakeItem
  <2> QED BY <2>1, <2>2, <2>3
<1>5. \A k : /\ \/ AddLoyCard(cart, k) = cart
                \/ Carded(cart, AddLoyCard(cart, k), PutCard(cart.loy, k))
             /\ \/ RemoveLoyCard(cart, k) = cart
                \/ Carded(cart, RemoveLoyCard(cart, k), TakeCard(cart.loy, k))
  BY DEF AddLoyCard, RemoveLoyCard, Carded, CartRecord
<1> QED BY <1>1, <1>2, <1>3, <1>4, <1>5

\* Only the cart of d is written, and it stays as it is or moves.
LEMMA OneMoves ==
  ASSUME IndInv, NEW d \in CartIds, NEW new, carts' = [carts EXCEPT ![d] = new],
         d \in sessions' => Stays(carts[d], new) \/ Moves(d), NEW c \in CartIds, c \in sessions'
  PROVE  Moves(c)
<1>1. carts \in [CartIds -> CartRecord]
  BY DEF IndInv, Base, TypeOK
<1>2. CASE c = d
  BY <1>1, <1>2 DEF Moves
<1>3. CASE c # d
  BY <1>1, <1>3, MethodsMove DEF Moves
<1> QED BY <1>2, <1>3

LEMMA RequestIdMoves ==
  ASSUME IndInv, NEW d \in sessions, OnlyRequestId(d), NEW c \in CartIds, c \in sessions'
  PROVE  Moves(c)
<1>1. d \in CartIds /\ carts[d] \in CartRecord
  BY DEF IndInv, Base, TypeOK
<1>2. carts' = [carts EXCEPT ![d] = GetNextRequestId(carts[d])]
  BY DEF OnlyRequestId
<1>3. Stays(carts[d], GetNextRequestId(carts[d]))
  BY <1>1, MethodsMove
<1> HIDE DEF GetNextRequestId
<1> QED BY <1>1, <1>2, <1>3, OneMoves

LEMMA NoneMoves ==
  ASSUME IndInv, UNCHANGED carts, NEW c \in CartIds
  PROVE  Moves(c)
<1>1. carts[c] \in CartRecord
  BY DEF IndInv, Base, TypeOK
<1> QED BY <1>1, MethodsMove DEF Moves

LEMMA StartMoves ==
  ASSUME IndInv, NEW t \in Threads, Start(t), NEW c \in CartIds, c \in sessions'
  PROVE  c \in sessions /\ Moves(c)
<1>1. CASE InitSession(t)
  BY <1>1, NoneMoves DEF InitSession, memory
<1>2. ASSUME NEW d \in sessions, OnlyRequestId(d)
      PROVE  c \in sessions /\ Moves(c)
  BY <1>2, RequestIdMoves DEF OnlyRequestId
<1>3. ASSUME NEW d \in sessions, NEW k \in Cards, CustomerVoid(t, d, k)
      PROVE  c \in sessions /\ Moves(c)
  <2>1. d \in CartIds /\ carts[d] \in CartRecord
    BY DEF IndInv, Base, TypeOK
  <2>2. PICK old : old = GetNextRequestId(carts[d])
    OBVIOUS
  <2>3. old \in CartRecord /\ Stays(carts[d], old)
    BY <2>1, <2>2, RequestType, MethodsMove
  <2>4. PICK new : new = RemoveLoyCard(old, k)
    OBVIOUS
  <2>5. new = old \/ Carded(old, new, TakeCard(old.loy, k))
    BY <2>3, <2>4, MethodsMove
  <2>6. carts' = [carts EXCEPT ![d] = new] /\ sessions' = sessions
    BY <1>3, <2>2, <2>4 DEF CustomerVoid, Store
  <2>7. old.local = carts[d].local
    BY <2>1, <2>2 DEF GetNextRequestId, CartRecord
  <2>8. Stays(carts[d], new) \/ Carded(carts[d], new, TakeCard(carts[d].loy, k))
    BY <2>3, <2>5, <2>7 DEF Stays, Carded
  <2>9. Stays(carts[d], new) \/ Moves(d)
    <3>1. carts'[d] = new
      BY <2>1, <2>6 DEF IndInv, Base, TypeOK
    <3> QED BY <2>8, <3>1 DEF Moves
  <2> QED BY <2>1, <2>6, <2>9, OneMoves
<1>4. ASSUME NEW d \in sessions, NEW b \in Barcodes, ItemAdd(t, d, b) \/ ItemVoid(t, d, b)
      PROVE  OnlyRequestId(d)
  BY <1>4 DEF ItemAdd, ItemVoid, ItemRequest
<1>5. ASSUME NEW d \in sessions, Query(t, d) \/ SessionVoid(t, d)
      PROVE  OnlyRequestId(d)
  BY <1>5 DEF Query, SessionVoid
<1>6. ASSUME NEW d \in sessions, NEW k \in Cards, CustomerAdd(t, d, k)
      PROVE  OnlyRequestId(d)
  BY <1>6 DEF CustomerAdd
<1>7. ASSUME NEW d \in sessions, NEW p \in PayStations, SessionEnd(t, d, p)
      PROVE  OnlyRequestId(d)
  BY <1>7 DEF SessionEnd
<1> QED BY <1>1, <1>2, <1>3, <1>4, <1>5, <1>6, <1>7 DEF Start

LEMMA ChangeMoves ==
  ASSUME IndInv, NEW t \in Threads, Change(t), NEW c \in CartIds, c \in sessions'
  PROVE  c \in sessions /\ Moves(c)
<1>1. PICK d : job[t].cart = d
  OBVIOUS
<1>2. PICK j : j = job[t]
  OBVIOUS
<1>3. PICK new : new = Changed(carts[d], j)
  OBVIOUS
<1>4. /\ phase = "up" /\ j.pc = "change" /\ PastCheck(t, d)
      /\ carts' = [carts EXCEPT ![d] = new] /\ sessions' = sessions
  BY <1>1, <1>2, <1>3 DEF Change, PastCheck, IndInv, Base, TypeOK
<1>5. /\ j \in Job /\ JobFits(j) /\ d \in CartIds /\ carts[d] \in CartRecord
  BY <1>1, <1>2, <1>4, AtWork DEF Numbering
<1>6. /\ j.row.kind \in {"IA", "IV"} \/ j.row.kind = "CV"
      /\ j.row.kind \in {"IA", "IV"} =>
           /\ j.row.barcode \in Barcodes /\ JobItem(j) \in Items
           /\ JobItem(j) = ItemOf[j.row.barcode]
  BY <1>4, <1>5, JobRow
<1>7. PICK price \in Int, off \in Int : price = j.price /\ off = j.discount
  BY <1>5, PricesAreIntegers DEF Job
<1>8. PICK b : b = j.row.barcode
  OBVIOUS
<1>9. PICK e : e = archive[JobItem(j)].dept
  OBVIOUS
<1>10. carts'[d] = new
  BY <1>4, <1>5 DEF IndInv, Base, TypeOK
<1>11. CASE j.row.kind = "CV"
  <2>1. new = [carts[d] EXCEPT !.state = "voided"]
    BY <1>3, <1>11 DEF Changed
  <2>2. Stays(carts[d], new)
    BY <1>5, <2>1, MethodsMove
  <2> QED BY <1>4, <1>5, <2>2, OneMoves
<1>12. CASE j.row.kind \in {"IA", "IV"}
  <2>1. b \in KnownBarcodes /\ e \in Departments
    BY <1>6, <1>8, <1>9, <1>12, Archived, CartAssumption DEF KnownBarcodes
  <2>2. CASE j.row.kind = "IA"
    <3>1. new = PutItem(carts[d], ItemOf[b], b, e, price, off)
      BY <1>3, <1>6, <1>7, <1>8, <1>9, <2>2 DEF Changed
    <3>2. Sells(carts[d], new, b, e, price, off)
      BY <1>5, <3>1, MethodsMove
    <3>3. Cause(d, "IA", b, price, off)
      BY <1>2, <1>4, <1>7, <1>8, <2>2 DEF Cause
    <3>4. Moves(d)
      BY <1>7, <1>10, <2>1, <3>2, <3>3 DEF Moves
    <3> QED BY <1>4, <1>5, <3>4, OneMoves
  <2>3. CASE j.row.kind = "IV"
    <3>1. new = TakeItem(carts[d], ItemOf[b], b, e, price, off)
      BY <1>3, <1>6, <1>7, <1>8, <1>9, <2>3 DEF Changed
    <3>2. TakesOut(carts[d], new, b, e, price, off) \/ new = carts[d]
      BY <1>5, <3>1, MethodsMove
    <3>3. Cause(d, "IV", b, price, off)
      BY <1>2, <1>4, <1>7, <1>8, <2>3 DEF Cause
    <3>4. Stays(carts[d], carts[d])
      BY <1>5, MethodsMove
    <3>5. Stays(carts[d], new) \/ Moves(d)
      BY <1>7, <1>10, <2>1, <3>2, <3>3, <3>4 DEF Moves
    <3> QED BY <1>4, <1>5, <3>5, OneMoves
  <2> QED BY <1>12, <2>2, <2>3
<1> QED BY <1>6, <1>11, <1>12

LEMMA ContinueMoves ==
  ASSUME IndInv, NEW t \in Threads, Continue(t), NEW c \in CartIds, c \in sessions'
  PROVE  (c \notin sessions /\ Fresh(carts'[c])) \/ (c \in sessions /\ Moves(c))
<1>1. CASE InsertCart(t)
  <2>1. PICK n : n = job[t].cart
    OBVIOUS
  <2>2. /\ sessions' = sessions \cup {n}
        /\ carts' = IF n \in sessions THEN carts ELSE [carts EXCEPT ![n] = NewCart("ready")]
    BY <1>1, <2>1 DEF InsertCart
  <2>3. CASE n \in sessions
    BY <2>2, <2>3, NoneMoves
  <2>4. CASE n \notin sessions /\ c # n
    <3>1. carts'[c] = carts[c] /\ c \in sessions /\ carts[c] \in CartRecord
      BY <2>2, <2>4 DEF IndInv, Base, TypeOK
    <3> QED BY <3>1, MethodsMove DEF Moves
  <2>5. CASE n \notin sessions /\ c = n
    <3>1. carts'[c] = NewCart("ready")
      BY <2>2, <2>5 DEF IndInv, Base, TypeOK
    <3> QED BY <2>5, <3>1 DEF Fresh, NewCart
  <2> QED BY <2>3, <2>4, <2>5
<1>2. CASE ReadNumber(t) \/ WriteNumber(t) \/ CopyItem(t) \/ Check(t) \/ WriteRow(t) \/ Follow(t)
           \/ WriteHeader(t) \/ SendRows(t)
  <2>1. UNCHANGED <<carts, sessions>>
    BY <1>2 DEF ReadNumber, WriteNumber, CopyItem, Check, WriteRow, Follow, WriteHeader, SendRows,
                memory
  <2> QED BY <2>1, NoneMoves
<1>3. CASE CopyDepartment(t) \/ KeepItem(t)
  <2>1. PICK d : job[t].cart = d
    OBVIOUS
  <2>2. /\ sessions' = sessions
        /\ \/ carts' = [carts EXCEPT ![d] = carts[d]]
           \/ \E i, p : carts' = [carts EXCEPT ![d] = UpdateLocalItemMap(carts[d], i, p)]
    BY <1>3, <2>1 DEF CopyDepartment, KeepItem, Store
  <2>3. d \in CartIds /\ carts[d] \in CartRecord
    BY <1>3, <2>1 DEF CopyDepartment, KeepItem, IndInv, Base, TypeOK, WellFormed
  <2>4. PICK new : carts' = [carts EXCEPT ![d] = new]
                   /\ (new = carts[d] \/ \E i, p : new = UpdateLocalItemMap(carts[d], i, p))
    BY <2>2
  <2>5. Stays(carts[d], new)
    BY <2>3, <2>4, MethodsMove
  <2> QED BY <2>2, <2>3, <2>4, <2>5, OneMoves
<1>4. CASE Change(t)
  BY <1>4, ChangeMoves
<1>5. CASE Register(t)
  <2>1. PICK d, k : d = job[t].cart /\ k = job[t].row.card
    OBVIOUS
  <2>2. PICK new : new = AddLoyCard(carts[d], k)
    OBVIOUS
  <2>3. phase = "up" /\ job[t].pc = "register" /\ job[t].cart = d
    BY <1>5, <2>1 DEF Register
  <2>4. /\ d \in sessions /\ d \in CartIds /\ carts[d] \in CartRecord
        /\ job[t] \in Job /\ JobFits(job[t]) /\ carts[d].state \in {"ready", "voided"}
    BY <2>3, AtWork DEF Numbering
  <2>5. k \in Cards
    <3>1. job[t].row.kind = "LA" /\ job[t].row \in Rows
      BY <2>3, <2>4 DEF JobFits, Job, NoRow
    <3> QED BY <2>1, <3>1, RowKinds
  <2>6. /\ carts' = [carts EXCEPT ![d] = new] /\ sessions' = sessions /\ loading' = loading
        /\ carts[d].state = "ready" /\ LoyRoom(carts[d].loy, k) =>
             journal' = [journal EXCEPT ![d] = Append(@, RowLA(k))]
    BY <1>5, <2>1, <2>2 DEF Register, Store, Written
  <2>7. CASE ~(carts[d].state = "ready" /\ LoyRoom(carts[d].loy, k))
    <3>1. new = carts[d]
      BY <2>2, <2>4, <2>7 DEF AddLoyCard, Accepts, PutCard, CartRecord
    <3>2. Stays(carts[d], new)
      BY <2>4, <3>1, MethodsMove
    <3> QED BY <2>4, <2>6, <3>2, OneMoves
  <2>8. CASE carts[d].state = "ready" /\ LoyRoom(carts[d].loy, k)
    <3>1. new = carts[d] \/ Carded(carts[d], new, PutCard(carts[d].loy, k))
      BY <2>2, <2>4, MethodsMove
    <3>2. AddedBy(d, k, RowsIn(d))'
      <4>1. d # loading'.cart
        BY <2>3, <2>4, <2>6, LiveCart
      <4>2. journal[d] \in Seq(Rows) /\ RowLA(k) \in Rows
        BY <2>4, <2>5, RowsType DEF IndInv, Base, TypeOK
      <4>3. journal'[d] = Append(journal[d], RowLA(k))
        BY <2>4, <2>6, <2>8 DEF IndInv, Base, TypeOK
      <4>4. /\ Len(journal[d]) \in Nat /\ Len(journal'[d]) = Len(journal[d]) + 1
            /\ journal'[d][Len(journal[d]) + 1] = RowLA(k)
        BY <4>2, <4>3, AppendFacts
      <4>5. Len(journal[d]) + 1 \in 1..Len(journal'[d])
        BY <4>4
      <4> QED BY <4>1, <4>4, <4>5 DEF AddedBy, RowsIn
    <3>3. carts'[d] = new
      BY <2>4, <2>6 DEF IndInv, Base, TypeOK
    <3>4. Stays(carts[d], new) \/ Moves(d)
      BY <2>4, <2>5, <3>1, <3>2, <3>3, MethodsMove DEF Moves
    <3> QED BY <2>4, <2>6, <3>4, OneMoves
  <2> QED BY <2>7, <2>8
<1> QED BY <1>1, <1>2, <1>3, <1>4, <1>5 DEF Continue

LEMMA LoadRowMoves ==
  ASSUME IndInv, LoadRow, NEW c \in CartIds, c \in sessions'
  PROVE  c \in sessions /\ Moves(c)
<1>1. PICK d, n, row : d = loading.cart /\ n = loading.row /\ row = journal[d][n + 1]
  OBVIOUS
<1>2. PICK old : old = GetNextRequestId(carts[d])
  OBVIOUS
<1>3. PICK new : new = Replay(old, row)
  OBVIOUS
<1>4. /\ phase = "loading" /\ loading # NotLoading /\ n < Len(journal[d])
      /\ loading' = [loading EXCEPT !.row = @ + 1] /\ UNCHANGED <<journal, sessions>>
      /\ carts' = [carts EXCEPT ![d] = new]
  BY <1>1, <1>2, <1>3 DEF LoadRow, storage
<1>5. /\ d \in sessions /\ d \in CartIds /\ n \in Nat /\ carts[d] \in CartRecord
      /\ loading \in [cart : {0} \cup CartIds, row : Nat] /\ journal[d] \in Seq(Rows)
  BY <1>1, <1>4 DEF IndInv, Base, TypeOK, WellFormed
<1>6. n + 1 \in 1..Len(journal[d]) /\ row \in Rows
  BY <1>1, <1>4, <1>5
<1> DEFINE open == carts[d].state # "voided"
<1>7. /\ old \in CartRecord /\ Stays(carts[d], old) /\ old.local = carts[d].local
      /\ carts'[d] = new /\ old.state = carts[d].state
  <2>1. old \in CartRecord /\ Stays(carts[d], old)
    BY <1>2, <1>5, RequestType, MethodsMove
  <2>2. old.local = carts[d].local /\ old.state = carts[d].state
    BY <1>2, <1>5 DEF GetNextRequestId, CartRecord
  <2>3. carts'[d] = new
    BY <1>4, <1>5 DEF IndInv, Base, TypeOK
  <2> QED BY <2>1, <2>2, <2>3
<1>8. SUFFICES Stays(carts[d], new) \/ Moves(d)
  BY <1>4, <1>5, OneMoves
<1>9. Stays(old, new) => Stays(carts[d], new)
  BY <1>7 DEF Stays
<1>10. Stays(old, old)
  BY <1>7, MethodsMove
<1>11. CASE row.kind \in {"IA", "IV"}
  <2>1. PICK b : b = row.barcode
    OBVIOUS
  <2>2. b \in Barcodes /\ ItemOf[b] \in Items /\ b \in KnownBarcodes
    BY <1>6, <1>11, <2>1, RowKinds, CartAssumption DEF KnownBarcodes
  <2>3. PICK price : price = GetItemPrice(carts[d], ItemOf[b], b, archive[ItemOf[b]].price)
    OBVIOUS
  <2>4. price = GetItemPrice(old, ItemOf[b], b, archive[ItemOf[b]].price)
    BY <1>7, <2>3 DEF GetItemPrice
  <2>5. PICK e : e = archive[ItemOf[b]].dept
    OBVIOUS
  <2>6. price \in Int /\ e \in Departments
    BY <1>5, <2>2, <2>3, <2>5, Archived, PriceType, PricesAreIntegers
  <2>7. CASE row.kind = "IA"
    <3>1. new = AddItem(old, ItemOf[b], b, e, price, 0)
      BY <1>3, <2>1, <2>4, <2>5, <2>7 DEF Replay, ReplayItem
    <3>2. new = old \/ (open /\ new = PutItem(old, ItemOf[b], b, e, price, 0))
      BY <1>7, <3>1 DEF AddItem, Accepts
    <3>3. new = old \/ (open /\ Sells(old, new, b, e, price, 0))
      BY <1>7, <3>2, MethodsMove
    <3>4. new = old \/ (open /\ Sells(carts[d], new, b, e, price, 0))
      BY <1>7, <3>3 DEF Sells, Stays
    <3>5. open => Cause(d, "IA", b, price, 0)
      BY <1>1, <1>4, <2>1, <2>3, <2>7 DEF Cause
    <3> QED BY <1>7, <1>9, <1>10, <2>2, <2>6, <3>4, <3>5 DEF Moves
  <2>8. CASE row.kind = "IV"
    <3>1. new = RemoveItem(old, ItemOf[b], b, e, price, 0)
      BY <1>3, <2>1, <2>4, <2>5, <2>8 DEF Replay, ReplayItem
    <3>2. new = old \/ (open /\ new = TakeItem(old, ItemOf[b], b, e, price, 0))
      BY <1>7, <3>1 DEF RemoveItem, Accepts
    <3>3. new = old \/ (open /\ TakesOut(old, new, b, e, price, 0))
      BY <1>7, <3>2, MethodsMove
    <3>4. new = old \/ (open /\ TakesOut(carts[d], new, b, e, price, 0))
      BY <1>7, <3>3 DEF TakesOut, InCart, Stays
    <3>5. open => Cause(d, "IV", b, price, 0)
      BY <1>1, <1>4, <2>1, <2>3, <2>8 DEF Cause
    <3> QED BY <1>7, <1>9, <1>10, <2>2, <2>6, <3>4, <3>5 DEF Moves
  <2> QED BY <1>11, <2>7, <2>8
<1>12. CASE row.kind = "LA"
  <2>1. PICK k \in Cards : row = RowLA(k) /\ row.card = k
    BY <1>6, <1>12, RowKinds
  <2>2. new = old \/ Carded(old, new, PutCard(old.loy, k))
    <3>1. new = AddLoyCard(old, k)
      BY <1>3, <1>12, <2>1 DEF Replay
    <3> QED BY <1>7, <3>1, MethodsMove
  <2>3. new = old \/ Carded(carts[d], new, PutCard(carts[d].loy, k))
    BY <1>7, <2>2 DEF Carded, Stays
  <2>4. AddedBy(d, k, RowsIn(d))'
    <3>1. loading'.cart = d /\ loading'.row = n + 1
      BY <1>1, <1>4, <1>5
    <3>2. n + 1 \in 1..(n + 1)
      BY <1>5
    <3> QED BY <1>1, <1>4, <2>1, <3>1, <3>2 DEF AddedBy, RowsIn
  <2> QED BY <1>7, <1>9, <1>10, <2>3, <2>4 DEF Moves
<1>13. CASE row.kind = "LV"
  <2>1. PICK k \in Cards : row = RowLV(k) /\ row.card = k
    BY <1>6, <1>13 DEF Rows, RowKD, RowKI, RowIA, RowIV, RowLA, RowLV, RowCV
  <2>2. new = old \/ Carded(old, new, TakeCard(old.loy, k))
    <3>1. new = RemoveLoyCard(old, k)
      BY <1>3, <1>13, <2>1 DEF Replay
    <3> QED BY <1>7, <3>1, MethodsMove
  <2>3. new = old \/ Carded(carts[d], new, TakeCard(carts[d].loy, k))
    BY <1>7, <2>2 DEF Carded, Stays
  <2> QED BY <1>7, <1>9, <1>10, <2>3 DEF Moves
<1>14. CASE row.kind = "CV"
  <2>1. new = [old EXCEPT !.state = "voided"]
    BY <1>3, <1>14 DEF Replay
  <2> QED BY <1>7, <1>9, <2>1, MethodsMove
<1>15. CASE row.kind = "KI" /\ ~PriceChanges
  <2>1. new = UpdateLocalItemMap(old, row.item, row.price)
    BY <1>3, <1>15 DEF Replay
  <2> QED BY <1>7, <1>9, <2>1, MethodsMove
<1>16. CASE row.kind \notin {"IA", "IV", "LA", "LV", "CV"} /\ ~(row.kind = "KI" /\ ~PriceChanges)
  <2>1. new = old
    BY <1>3, <1>16 DEF Replay
  <2> QED BY <1>7, <2>1
<1> QED BY <1>11, <1>12, <1>13, <1>14, <1>15, <1>16

LEMMA RestartMoves ==
  ASSUME IndInv, Crash \/ Restart, NEW c \in CartIds, c \in sessions'
  PROVE  phase # "up" /\ (Fresh(carts'[c]) \/ (c \in sessions /\ Moves(c)))
<1>1. phase # "up"
  BY DEF Crash, Restart, Boot, LoadFile, LoadRow, FinishFile, FinishBoot
<1>2. CASE Crash
  BY <1>2 DEF Crash
<1>3. CASE Boot \/ FinishBoot
  <2>1. UNCHANGED <<carts, sessions>>
    BY <1>3 DEF Boot, FinishBoot, memory
  <2> QED BY <1>1, <2>1, NoneMoves
<1>4. CASE LoadFile
  <2>1. PICK d \in pending : /\ sessions' = sessions \cup {d}
                             /\ carts' = [carts EXCEPT ![d] = NewCart("loading")]
    BY <1>4 DEF LoadFile
  <2>2. CASE c = d
    <3>1. carts'[c] = NewCart("loading")
      BY <2>1, <2>2 DEF IndInv, Base, TypeOK
    <3> QED BY <1>1, <3>1 DEF Fresh, NewCart
  <2>3. CASE c # d
    <3>1. carts'[c] = carts[c] /\ c \in sessions /\ carts[c] \in CartRecord
      BY <2>1, <2>3 DEF IndInv, Base, TypeOK
    <3> QED BY <1>1, <3>1, MethodsMove DEF Moves
  <2> QED BY <2>2, <2>3
<1>5. CASE LoadRow
  BY <1>1, <1>5, LoadRowMoves
<1>6. CASE FinishFile
  <2>1. PICK d : d = loading.cart
    OBVIOUS
  <2>2. PICK state : state = StateAfterLoad(carts[d].state)
    OBVIOUS
  <2>3. PICK new : new = [carts[d] EXCEPT !.state = state]
    OBVIOUS
  <2>4. d \in CartIds /\ carts[d] \in CartRecord
    BY <1>6, <2>1 DEF FinishFile, IndInv, Base, TypeOK, WellFormed
  <2>5. carts' = [carts EXCEPT ![d] = new] /\ sessions' = sessions
    BY <1>6, <2>1, <2>2, <2>3, <2>4 DEF FinishFile, IndInv, Base, TypeOK
  <2>6. Stays(carts[d], new)
    BY <2>3, <2>4, MethodsMove
  <2> QED BY <1>1, <2>4, <2>5, <2>6, OneMoves
<1> QED BY <1>2, <1>3, <1>4, <1>5, <1>6 DEF Restart

\* Every step leaves a session's cart fresh, as a new one or as the next to be
\* rebuilt, or moves it.
LEMMA CartStep ==
  ASSUME IndInv, [Next]_vars, NEW c \in sessions', c \in CartIds
  PROVE  \/ (c \in sessions => phase # "up") /\ Fresh(carts'[c])
         \/ c \in sessions /\ Moves(c)
<1>1. CASE ApplyVariation \/ DumpItems \/ UNCHANGED vars
  <2>1. UNCHANGED <<carts, sessions>>
    BY <1>1 DEF ApplyVariation, DumpItems, memory, vars
  <2> QED BY <2>1, NoneMoves
<1> QED BY <1>1, StartMoves, ContinueMoves, RestartMoves DEF Next

-----------------------------------------------------------------------------
(* Cards and barcodes of every cart. *)

Sound == \A c \in sessions : LoySound(carts[c].loy) /\ MirrorSound(carts[c].goods)

LEMMA SoundStep ==
  ASSUME IndInv, IndInv', Sound, [Next]_vars
  PROVE  Sound'
<1> SUFFICES ASSUME NEW c \in sessions'
             PROVE  LoySound(carts'[c].loy) /\ MirrorSound(carts'[c].goods)
  BY DEF Sound
<1>1. /\ c \in CartIds /\ carts[c] \in CartRecord
      /\ carts[c].loy \in Loy /\ carts[c].goods \in Goods
  BY DEF IndInv, Base, TypeOK, CartRecord
<1>2. CASE Fresh(carts'[c])
  BY <1>2, FreshLoySound, FreshMirrorSound DEF Fresh
<1>3. CASE c \in sessions /\ Moves(c)
  <2>1. LoySound(carts[c].loy) /\ MirrorSound(carts[c].goods)
    BY <1>3 DEF Sound
  <2>2. CASE Stays(carts[c], carts'[c])
    BY <2>1, <2>2 DEF Stays
  <2>3. ASSUME NEW b \in KnownBarcodes, NEW d \in Departments, NEW price \in Int,
               NEW discount \in Int,
               \/ Sells(carts[c], carts'[c], b, d, price, discount)
               \/ TakesOut(carts[c], carts'[c], b, d, price, discount)
        PROVE  LoySound(carts'[c].loy) /\ MirrorSound(carts'[c].goods)
    BY <1>1, <2>1, <2>3, GoodsMirrorSound DEF Sells, TakesOut
  <2>4. ASSUME NEW k \in Cards,
               \/ Carded(carts[c], carts'[c], PutCard(carts[c].loy, k))
               \/ Carded(carts[c], carts'[c], TakeCard(carts[c].loy, k))
        PROVE  LoySound(carts'[c].loy) /\ MirrorSound(carts'[c].goods)
    BY <1>1, <2>1, <2>4, PutCardSound, TakeCardSound DEF Carded
  <2> QED BY <1>3, <2>2, <2>3, <2>4 DEF Moves
<1> QED BY <1>1, <1>2, <1>3, CartStep

LEMMA SoundHolds == Spec => []Sound
<1>1. Init => Sound
  BY DEF Init, Sound
<1> QED BY <1>1, SoundStep, Inductive, PTL DEF Spec

\* removeLoyCard goes on after erasing and erases nothing more: no sequence of
\* additions, removals and restarts puts a card in two slots.
THEOREM CardsAreHeldOnce == Spec => []CardOnce
<1>1. Sound => CardOnce
  BY DEF Sound, LoySound, CardOnce
<1> QED BY <1>1, SoundHolds, PTL

\* loy_cards_number, an unsigned counter that addLoyCard and removeLoyCard
\* change apart from the map, never wraps around nor exceeds the maximum.
THEOREM LoyCounterHolds == Spec => []LoyCounterInRange
<1>1. Sound => LoyCounterInRange
  BY DEF Sound, LoySound, LoyCounterInRange
<1> QED BY <1>1, SoundHolds, PTL

\* With one barcode per item, cart_items_map and barcodes_map agree whatever
\* was sold, voided and replayed by requests that come one at a time.
THEOREM BarcodesMirror == Spec => []BarcodesMirrorItems
<1>1. Sound => BarcodesMirrorItems
  BY DEF Sound, MirrorSound, BarcodesMirrorItems
<1> QED BY <1>1, SoundHolds, PTL

-----------------------------------------------------------------------------
(* Void sessions. *)

\* What a void session is in for in a step: a change of goods or totals is that
\* of a thread that was past its check, and no thread gets past it anew.
FrozenBut(c) ==
  /\ carts'[c].state = "voided"
  /\ \A t \in Threads : PastCheck(t, c)' => PastCheck(t, c)
  /\ carts'[c].loy = carts[c].loy
  /\ carts'[c].goods # carts[c].goods \/ carts'[c].totals # carts[c].totals =>
       \E t \in Threads : PastCheck(t, c) /\ ~PastCheck(t, c)'

\* A step of thread t that changes the cart of d, if at all, to a cart with the
\* same goods, totals and cards, if that one was void, and does not get past
\* the check of a void session.
LEMMA QuietFreeze ==
  ASSUME IndInv, NEW t \in Threads, NEW j, Goto(t, j), NEW d \in CartIds, NEW new,
         carts' = [carts EXCEPT ![d] = new],
         carts[d].state = "voided" =>
           /\ new.state = "voided" /\ new.goods = carts[d].goods
           /\ new.totals = carts[d].totals /\ new.loy = carts[d].loy
           /\ ~(j.cart = d /\ j.pc = "change"),
         j.pc = "change" => j.cart = d,
         NEW c \in CartIds, carts[c].state = "voided"
  PROVE  FrozenBut(c)
<1>1. /\ job'[t] = j /\ \A u \in Threads \ {t} : job'[u] = job[u]
      /\ carts'[d] = new /\ \A e \in CartIds \ {d} : carts'[e] = carts[e]
  BY DEF Goto, IndInv, Base, TypeOK
<1>2. /\ carts'[c].state = "voided" /\ carts'[c].loy = carts[c].loy
      /\ carts'[c].goods = carts[c].goods /\ carts'[c].totals = carts[c].totals
  BY <1>1
<1>3. \A u \in Threads : PastCheck(u, c)' => PastCheck(u, c)
  BY <1>1 DEF PastCheck
<1> QED BY <1>2, <1>3 DEF FrozenBut

LEMMA RequestIdFreeze ==
  ASSUME IndInv, NEW t \in Threads, NEW j, Goto(t, j), NEW d \in sessions, OnlyRequestId(d),
         j.pc # "change" \/ (j.cart = d /\ carts[d].state # "voided"),
         NEW c \in CartIds, carts[c].state = "voided"
  PROVE  FrozenBut(c)
<1>1. d \in CartIds /\ carts[d] \in CartRecord
  BY DEF IndInv, Base, TypeOK
<1>2. PICK new : new = GetNextRequestId(carts[d])
  OBVIOUS
<1>3. /\ new.state = carts[d].state /\ new.goods = carts[d].goods
      /\ new.totals = carts[d].totals /\ new.loy = carts[d].loy
  BY <1>1, <1>2 DEF GetNextRequestId, CartRecord
<1>4. carts' = [carts EXCEPT ![d] = new]
  BY <1>2 DEF OnlyRequestId
<1> QED BY <1>1, <1>3, <1>4, QuietFreeze

LEMMA StartFreezes ==
  ASSUME IndInv, NEW t \in Threads, Start(t), NEW c \in CartIds, carts[c].state = "voided"
  PROVE  FrozenBut(c)
<1>1. CASE InitSession(t)
  <2>1. PICK j : j = [Idle EXCEPT !.pc = "insert", !.cart = nextNumber]
    OBVIOUS
  <2>2. Goto(t, j) /\ j.pc = "insert" /\ carts' = [carts EXCEPT ![c] = carts[c]]
    BY <1>1, <2>1 DEF InitSession, memory, Idle, IndInv, Base, TypeOK
  <2> QED BY <2>2, QuietFreeze
<1>2. ASSUME NEW d \in sessions, Query(t, d)
      PROVE  FrozenBut(c)
  <2>1. Goto(t, Idle) /\ OnlyRequestId(d)
    BY <1>2 DEF Query, Serve, Goto, IndInv, Base, TypeOK
  <2> QED BY <2>1, IdleFits, RequestIdFreeze
<1>3. ASSUME NEW d \in sessions, SessionVoid(t, d)
      PROVE  FrozenBut(c)
  <2>1. PICK j : j = [Idle EXCEPT !.pc = "change", !.cart = d, !.row = RowCV]
    OBVIOUS
  <2>2. /\ j.cart = d /\ OnlyRequestId(d)
        /\ Goto(t, Idle) \/ (Goto(t, j) /\ carts[d].state # "voided")
    BY <1>3, <2>1 DEF SessionVoid, Reply, Idle
  <2> QED BY <2>2, IdleFits, RequestIdFreeze
<1>4. ASSUME NEW d \in sessions, NEW row, ItemRequest(t, d, row)
      PROVE  FrozenBut(c)
  <2>1. PICK j : j = Started([Idle EXCEPT !.cart = d, !.row = row])
    OBVIOUS
  <2>2. OnlyRequestId(d) /\ (Goto(t, Idle) \/ Goto(t, j))
    BY <1>4, <2>1 DEF ItemRequest, Reply
  <2>3. j.pc # "change"
    BY <2>1 DEF Started, Idle
  <2> QED BY <2>2, <2>3, IdleFits, RequestIdFreeze
<1>5. ASSUME NEW d \in sessions, NEW b \in Barcodes, ItemAdd(t, d, b) \/ ItemVoid(t, d, b)
      PROVE  FrozenBut(c)
  BY <1>4, <1>5 DEF ItemAdd, ItemVoid
<1>6. ASSUME NEW d \in sessions, NEW k \in Cards, CustomerAdd(t, d, k)
      PROVE  FrozenBut(c)
  <2>1. PICK j : j = [Idle EXCEPT !.pc = "register", !.cart = d, !.row = RowLA(k)]
    OBVIOUS
  <2>2. j.pc # "change" /\ OnlyRequestId(d) /\ (Goto(t, Idle) \/ Goto(t, j))
    BY <1>6, <2>1 DEF CustomerAdd, Reply, Idle
  <2> QED BY <2>2, IdleFits, RequestIdFreeze
<1>7. ASSUME NEW d \in sessions, NEW p \in PayStations, SessionEnd(t, d, p)
      PROVE  FrozenBut(c)
  <2>1. PICK j : j = [Idle EXCEPT !.pc = "header", !.cart = d, !.header.station = p]
    OBVIOUS
  <2>2. j.pc # "change" /\ OnlyRequestId(d) /\ (Goto(t, Idle) \/ Goto(t, j))
    BY <1>7, <2>1 DEF SessionEnd, Reply, Idle
  <2> QED BY <2>2, IdleFits, RequestIdFreeze
<1>8. ASSUME NEW d \in sessions, NEW k \in Cards, CustomerVoid(t, d, k)
      PROVE  FrozenBut(c)
  <2>1. d \in CartIds /\ carts[d] \in CartRecord
    BY DEF IndInv, Base, TypeOK
  <2>2. PICK new : new = RemoveLoyCard(GetNextRequestId(carts[d]), k)
    OBVIOUS
  <2>3. Goto(t, Idle) /\ carts' = [carts EXCEPT ![d] = new]
    BY <1>8, <2>2 DEF CustomerVoid, Store, Reply
  <2>4. carts[d].state = "voided" =>
           /\ new.state = "voided" /\ new.goods = carts[d].goods
           /\ new.totals = carts[d].totals /\ new.loy = carts[d].loy
    BY <2>1, <2>2 DEF RemoveLoyCard, Accepts, GetNextRequestId, CartRecord
  <2> QED BY <2>1, <2>3, <2>4, IdleFits, QuietFreeze
<1> QED BY <1>1, <1>2, <1>3, <1>5, <1>6, <1>7, <1>8 DEF Start

LEMMA ContinueFreezes ==
  ASSUME IndInv, NEW t \in Threads, Continue(t), NEW c \in CartIds, c \in sessions,
         carts[c].state = "voided"
  PROVE  FrozenBut(c)
<1>1. carts = [carts EXCEPT ![c] = carts[c]]
  BY DEF IndInv, Base, TypeOK
<1>2. job[t] \in Job
  BY DEF IndInv, Base, TypeOK
<1>3. ASSUME NEW j, Goto(t, j), j.pc # "change", UNCHANGED carts
      PROVE  FrozenBut(c)
  BY <1>1, <1>2, <1>3, QuietFreeze
<1>4. CASE InsertCart(t)
  <2>1. PICK j : j = [job[t] EXCEPT !.pc = "increment"]
    OBVIOUS
  <2>2. Goto(t, j) /\ j.pc # "change"
    BY <1>2, <1>4, <2>1 DEF InsertCart, Job
  <2>3. PICK n : n = job[t].cart
    OBVIOUS
  <2>4. n \in CartIds
    BY <1>4, <2>3 DEF InsertCart, IndInv, Base, TypeOK, WellFormed, JobFits
  <2>5. carts' = IF n \in sessions THEN carts ELSE [carts EXCEPT ![n] = NewCart("ready")]
    BY <1>4, <2>3 DEF InsertCart
  <2>6. CASE n \in sessions
    BY <1>3, <2>2, <2>5, <2>6
  <2>7. CASE n \notin sessions
    <3>1. n # c /\ job'[t] = j /\ \A u \in Threads \ {t} : job'[u] = job[u]
      BY <2>2, <2>7 DEF Goto, IndInv, Base, TypeOK
    <3>2. carts'[c] = carts[c]
      BY <2>5, <2>7, <3>1 DEF IndInv, Base, TypeOK
    <3> QED BY <2>2, <3>1, <3>2 DEF FrozenBut, PastCheck
  <2> QED BY <2>6, <2>7
<1>5. CASE ReadNumber(t) \/ WriteNumber(t)
  <2>1. \A n : [job[t] EXCEPT !.pc = "store", !.number = n].pc # "change"
    BY <1>2 DEF Job
  <2>2. \E j : Goto(t, j) /\ j.pc # "change"
    BY <1>5, <2>1, IdleFits DEF ReadNumber, WriteNumber, Reply
  <2>3. UNCHANGED carts
    BY <1>5 DEF ReadNumber, WriteNumber, memory
  <2> QED BY <1>3, <2>2, <2>3
<1>6. CASE CopyDepartment(t) \/ KeepItem(t)
  <2>1. PICK d : job[t].cart = d
    OBVIOUS
  <2>2. \A p : /\ [job[t] EXCEPT !.pc = "copyItem", !.price = p].pc # "change"
              /\ [job[t] EXCEPT !.pc = "check"].pc # "change"
              /\ [job[t] EXCEPT !.pc = "check", !.price = p].pc # "change"
    BY <1>2 DEF Job
  <2>3. \E j : Goto(t, j) /\ j.pc # "change"
    BY <1>6, <2>2 DEF CopyDepartment, KeepItem
  <2>4. \/ carts' = [carts EXCEPT ![d] = carts[d]]
        \/ \E i, p : carts' = [carts EXCEPT ![d] = UpdateLocalItemMap(carts[d], i, p)]
    BY <1>6, <2>1 DEF CopyDepartment, KeepItem, Store
  <2>5. d \in CartIds /\ carts[d] \in CartRecord
    BY <1>6, <2>1 DEF CopyDepartment, KeepItem, IndInv, Base, TypeOK, WellFormed
  <2>6. PICK new : carts' = [carts EXCEPT ![d] = new]
                   /\ (new = carts[d] \/ \E i, p : new = UpdateLocalItemMap(carts[d], i, p))
    BY <2>4
  <2>7. /\ new.state = carts[d].state /\ new.goods = carts[d].goods
        /\ new.totals = carts[d].totals /\ new.loy = carts[d].loy
    BY <2>5, <2>6 DEF UpdateLocalItemMap, CartRecord
  <2>8. PICK j : Goto(t, j) /\ j.pc # "change"
    BY <2>3
  <2> QED BY <2>5, <2>6, <2>7, <2>8, QuietFreeze
<1>7. CASE Check(t)
  <2>1. PICK d : job[t].cart = d
    OBVIOUS
  <2>2. PICK p, off : /\ p = RequestPrice(job[t], carts[d])
                      /\ off = RequestDiscount(job[t], p)
    OBVIOUS
  <2>3. PICK j : /\ Goto(t, j) /\ UNCHANGED carts
                 /\ j = Idle \/ (j.cart = d /\ carts[d].state # "voided")
    <3>1. PICK k : k = [job[t] EXCEPT !.pc = "change", !.price = p, !.discount = off]
      OBVIOUS
    <3>2. k.cart = d
      BY <1>2, <2>1, <3>1 DEF Job
    <3>3. UNCHANGED carts
      BY <1>7 DEF Check, memory
    <3>4. IF Accepts(carts[d]) THEN Goto(t, k) ELSE Goto(t, Idle)
      BY <1>7, <2>1, <2>2, <3>1 DEF Check, Reply
    <3> QED BY <3>2, <3>3, <3>4 DEF Accepts
  <2>4. CASE j.pc # "change"
    BY <1>3, <2>3, <2>4
  <2>5. CASE j.pc = "change"
    <3>1. j.cart = d /\ d # c
      BY <2>3, <2>5, IdleFits
    <3>2. job'[t] = j /\ (\A u \in Threads \ {t} : job'[u] = job[u]) /\ carts'[c] = carts[c]
      BY <2>3 DEF Goto, IndInv, Base, TypeOK
    <3> QED BY <3>1, <3>2 DEF FrozenBut, PastCheck
  <2> QED BY <2>4, <2>5
<1>8. CASE Change(t)
  <2>1. PICK d : job[t].cart = d
    OBVIOUS
  <2>2. PICK new : new = Changed(carts[d], job[t])
    OBVIOUS
  <2>3. PICK j : Goto(t, j) /\ j.pc \in {"write", "link"}
    <3>1. \A x \in {"write", "link"} : [job[t] EXCEPT !.pc = x].pc = x
      BY <1>2 DEF Job
    <3>2. PICK x \in {"write", "link"} : Goto(t, [job[t] EXCEPT !.pc = x])
      BY <1>8 DEF Change
    <3> QED BY <3>1, <3>2
  <2>4. /\ phase = "up" /\ PastCheck(t, d) /\ carts' = [carts EXCEPT ![d] = new]
    BY <1>8, <2>1, <2>2 DEF Change, PastCheck, IndInv, Base, TypeOK
  <2>5. job'[t] = j /\ \A u \in Threads \ {t} : job'[u] = job[u]
    BY <2>3 DEF Goto, IndInv, Base, TypeOK
  <2>6. \A u \in Threads : PastCheck(u, c)' => PastCheck(u, c)
    BY <2>3, <2>5 DEF PastCheck
  <2>7. CASE c # d
    <3>1. carts'[c] = carts[c]
      BY <2>4, <2>7 DEF IndInv, Base, TypeOK
    <3> QED BY <2>6, <3>1 DEF FrozenBut
  <2>8. CASE c = d
    <3>1. carts'[c] = new /\ carts[c] \in CartRecord
      BY <2>4, <2>8 DEF IndInv, Base, TypeOK
    <3>2. JobFits(job[t]) /\ job[t].pc = "change"
      BY <1>2, <2>4 DEF PastCheck, IndInv, Base, WellFormed
    <3>3. new.state = "voided"
      BY <1>2, <2>2, <2>8, <3>1, <3>2, ChangedCart
    <3>4. new.loy = carts[c].loy
      BY <2>2, <2>8, <3>1 DEF Changed, PutItem, TakeItem, CartRecord
    <3>5. PastCheck(t, c) /\ ~PastCheck(t, c)'
      BY <2>3, <2>4, <2>5, <2>8 DEF PastCheck
    <3> QED BY <2>6, <3>1, <3>3, <3>4, <3>5 DEF FrozenBut
  <2> QED BY <2>7, <2>8
<1>9. CASE CopyItem(t) \/ WriteRow(t)
  <2>1. UNCHANGED carts
    BY <1>9 DEF CopyItem, WriteRow, memory
  <2>2. \A x : [job[t] EXCEPT !.pc = x].pc = x
    BY <1>2 DEF Job
  <2>3. \E j : Goto(t, j) /\ j.pc # "change"
    BY <1>9, <2>2, IdleFits DEF CopyItem, WriteRow, Reply
  <2> QED BY <1>3, <2>1, <2>3
<1>10. CASE Follow(t)
  <2>1. UNCHANGED carts
    BY <1>10 DEF Follow, memory
  <2>2. ASSUME NEW x
        PROVE  LinkedRequest(job[t], x).pc # "change"
    BY DEF LinkedRequest, Started, Idle
  <2>3. \E j : Goto(t, j) /\ j.pc # "change"
    BY <1>10, <2>2, IdleFits DEF Follow, Reply
  <2> QED BY <1>3, <2>1, <2>3
<1>11. CASE Register(t)
  <2>1. PICK d, k : d = job[t].cart /\ k = job[t].row.card
    OBVIOUS
  <2>2. PICK new : new = AddLoyCard(carts[d], k)
    OBVIOUS
  <2>3. d \in CartIds /\ carts[d] \in CartRecord
    BY <1>11, <2>1 DEF Register, IndInv, Base, TypeOK, WellFormed
  <2>4. Goto(t, Idle) /\ carts' = [carts EXCEPT ![d] = new]
    BY <1>11, <2>1, <2>2 DEF Register, Store, Reply
  <2>5. carts[d].state = "voided" => new = carts[d]
    BY <2>2, <2>3 DEF AddLoyCard, Accepts
  <2> QED BY <2>3, <2>4, <2>5, IdleFits, QuietFreeze
<1>12. CASE WriteHeader(t) \/ SendRows(t)
  <2>1. UNCHANGED carts
    BY <1>12 DEF WriteHeader, SendRows, memory
  <2>2. \A h : [job[t] EXCEPT !.pc = "send", !.header = h].pc = "send"
    BY <1>2 DEF Job
  <2>3. \E j : Goto(t, j) /\ j.pc # "change"
    BY <1>12, <2>2, IdleFits DEF WriteHeader, SendRows, Reply
  <2> QED BY <1>3, <2>1, <2>3
<1> QED BY <1>4, <1>5, <1>6, <1>7, <1>8, <1>9, <1>10, <1>11, <1>12 DEF Continue

LEMMA FrozenStep ==
  ASSUME IndInv, [Next]_vars, phase = "up", phase' = "up", NEW c \in sessions,
         carts[c].state = "voided"
  PROVE  FrozenBut(c)
<1>1. c \in CartIds
  BY DEF IndInv, Base, TypeOK
<1>2. CASE ApplyVariation \/ DumpItems \/ Crash \/ Restart \/ UNCHANGED vars
  <2>1. UNCHANGED <<carts, job>>
    BY <1>2 DEF ApplyVariation, DumpItems, Crash, Restart, Boot, LoadFile, LoadRow, FinishFile,
                FinishBoot, memory, vars
  <2> QED BY <2>1 DEF FrozenBut, PastCheck
<1> QED BY <1>1, <1>2, StartFreezes, ContinueFreezes DEF Next

\* A request caught by voidAllCart between its look at the state and its change
\* is the only one that still changes a void session, once; the others find it
\* void, and it never reopens while the server serves.  That is so for any
\* number of requests at once.
THEOREM VoidSessionsAreFrozen == Spec => VoidedIsFrozen
<1>1. IndInv /\ [Next]_vars =>
        [phase = "up" /\ phase' = "up" =>
           \A c \in sessions : carts[c].state = "voided" =>
             /\ carts'[c].state = "voided"
             /\ \A t \in Threads : PastCheck(t, c)' => PastCheck(t, c)
             /\ carts'[c].loy = carts[c].loy
             /\ carts'[c].goods # carts[c].goods \/ carts'[c].totals # carts[c].totals =>
                  \E t \in Threads : PastCheck(t, c) /\ ~PastCheck(t, c)']_vars
  BY FrozenStep DEF FrozenBut
<1> QED BY <1>1, Inductive, PTL DEF Spec, VoidedIsFrozen

-----------------------------------------------------------------------------
(* Pay stations. *)

\* A request touches one session, and one nobody else is at if the requests of
\* a session come one at a time; only WriteHeader makes a header to send.
Touches(t, j, d) ==
  /\ phase = "up" /\ phase' = "up" /\ Goto(t, j)
  /\ j.pc = "send" => WriteHeader(t)
  /\ j.pc = "register" => registry' = registry /\ MayRegister(j.row.card, d)
  /\ \A e \in CartIds \ {d} : carts'[e] = carts[e]
  /\ \/ d \notin sessions
     \/ job[t].cart = d /\ job[t].pc \notin Numbering
     \/ job[t] = Idle /\ (OneAtATime => \A u \in Threads : ~Working(u, d))

LEMMA ServedTouches ==
  ASSUME NEW t \in Threads, NEW d, NEW kind, Serve(t, d, kind), phase' = phase, NEW new,
         carts' = [carts EXCEPT ![d] = new], carts \in [CartIds -> CartRecord],
         NEW j, Goto(t, j), j.pc \notin {"send", "register"}
  PROVE  Touches(t, j, d)
  BY DEF Serve, Touches

LEMMA StartTouches ==
  ASSUME IndInv, NEW t \in Threads, Start(t)
  PROVE  \E j, d : Touches(t, j, d)
<1>1. carts \in [CartIds -> CartRecord] /\ job \in [Threads -> Job]
  BY DEF IndInv, Base, TypeOK
<1>2. CASE InitSession(t)
  <2>1. PICK j : j = [Idle EXCEPT !.pc = "insert", !.cart = nextNumber]
    OBVIOUS
  <2>2. j.pc = "insert" /\ Goto(t, j) /\ UNCHANGED <<phase, carts>> /\ phase = "up"
    BY <1>2, <2>1 DEF InitSession, memory, Idle
  <2>3. 0 \notin sessions
    BY DEF IndInv, Base, TypeOK, CartIds
  <2>4. Touches(t, j, 0)
    BY <2>2, <2>3 DEF Touches
  <2> QED BY <2>4
<1>3. ASSUME NEW d \in sessions, NEW kind, Serve(t, d, kind), OnlyRequestId(d),
             NEW j, Goto(t, j), j.pc \notin {"send", "register"}
      PROVE  \E k, e : Touches(t, k, e)
  <2>1. PICK new : new = GetNextRequestId(carts[d])
    OBVIOUS
  <2>2. carts' = [carts EXCEPT ![d] = new] /\ phase' = phase
    BY <1>3, <2>1 DEF OnlyRequestId
  <2>3. Touches(t, j, d)
    BY <1>1, <1>3, <2>2, ServedTouches
  <2> QED BY <2>3
<1>4. ASSUME NEW d \in sessions, Query(t, d)
      PROVE  \E k, e : Touches(t, k, e)
  <2>1. Goto(t, Idle) /\ Serve(t, d, "query") /\ OnlyRequestId(d)
    BY <1>1, <1>4 DEF Query, Serve, Goto
  <2> QED BY <1>3, <2>1, IdleFits
<1>5. ASSUME NEW d \in sessions, SessionVoid(t, d)
      PROVE  \E k, e : Touches(t, k, e)
  <2>1. PICK j : j = [Idle EXCEPT !.pc = "change", !.cart = d, !.row = RowCV]
    OBVIOUS
  <2>2. /\ j.pc = "change" /\ Serve(t, d, "cancel") /\ OnlyRequestId(d)
        /\ Goto(t, Idle) \/ Goto(t, j)
    BY <1>5, <2>1 DEF SessionVoid, Reply, Idle
  <2> QED BY <1>3, <2>2, IdleFits
<1>6. ASSUME NEW d \in sessions, NEW row, NEW kind, Serve(t, d, kind), ItemRequest(t, d, row)
      PROVE  \E k, e : Touches(t, k, e)
  <2>1. PICK j : j = Started([Idle EXCEPT !.cart = d, !.row = row])
    OBVIOUS
  <2>2. OnlyRequestId(d) /\ (Goto(t, Idle) \/ Goto(t, j))
    BY <1>6, <2>1 DEF ItemRequest, Reply
  <2>3. j.pc \notin {"send", "register"}
    BY <2>1 DEF Started, Idle
  <2> QED BY <1>3, <1>6, <2>2, <2>3, IdleFits
<1>7. ASSUME NEW d \in sessions, NEW b \in Barcodes, ItemAdd(t, d, b) \/ ItemVoid(t, d, b)
      PROVE  \E k, e : Touches(t, k, e)
  BY <1>6, <1>7 DEF ItemAdd, ItemVoid
<1>8. ASSUME NEW d \in sessions, NEW k \in Cards, CustomerAdd(t, d, k)
      PROVE  \E x, e : Touches(t, x, e)
  <2>1. PICK j : j = [Idle EXCEPT !.pc = "register", !.cart = d, !.row = RowLA(k)]
    OBVIOUS
  <2>2. /\ j.pc = "register" /\ j.row.card = k /\ Serve(t, d, "card") /\ OnlyRequestId(d)
        /\ Goto(t, Idle) \/ (Goto(t, j) /\ MayRegister(k, d))
    BY <1>8, <2>1 DEF CustomerAdd, Reply, Idle, RowLA
  <2>3. CASE Goto(t, Idle)
    BY <1>3, <2>2, <2>3, IdleFits
  <2>4. CASE Goto(t, j) /\ MayRegister(k, d)
    <3>1. /\ job[t] = Idle /\ (OneAtATime => \A u \in Threads : ~Working(u, d))
          /\ phase = "up" /\ phase' = "up" /\ registry' = registry
          /\ \A e \in CartIds \ {d} : carts'[e] = carts[e]
      BY <1>1, <2>2 DEF Serve, OnlyRequestId
    <3>2. Touches(t, j, d)
      BY <2>2, <2>4, <3>1 DEF Touches
    <3> QED BY <3>2
  <2> QED BY <2>2, <2>3, <2>4
<1>9. ASSUME NEW d \in sessions, NEW p \in PayStations, SessionEnd(t, d, p)
      PROVE  \E x, e : Touches(t, x, e)
  <2>1. PICK j : j = [Idle EXCEPT !.pc = "header", !.cart = d, !.header.station = p]
    OBVIOUS
  <2>2. /\ j.pc \notin {"send", "register"} /\ Serve(t, d, "end") /\ OnlyRequestId(d)
        /\ Goto(t, Idle) \/ Goto(t, j)
    BY <1>9, <2>1 DEF SessionEnd, Reply, Idle
  <2> QED BY <1>3, <2>2, IdleFits
<1>10. ASSUME NEW d \in sessions, NEW k \in Cards, CustomerVoid(t, d, k)
       PROVE  \E x, e : Touches(t, x, e)
  <2>1. PICK new : new = RemoveLoyCard(GetNextRequestId(carts[d]), k)
    OBVIOUS
  <2>2. /\ Serve(t, d, "uncard") /\ Goto(t, Idle) /\ carts' = [carts EXCEPT ![d] = new]
        /\ phase' = phase
    BY <1>10, <2>1 DEF CustomerVoid, Store, Reply
  <2>3. Touches(t, Idle, d)
    BY <1>1, <2>2, IdleFits, ServedTouches
  <2> QED BY <2>3
<1> QED BY <1>2, <1>4, <1>5, <1>7, <1>8, <1>9, <1>10 DEF Start

LEMMA ContinueTouches ==
  ASSUME IndInv, NEW t \in Threads, Continue(t)
  PROVE  \E j, d : Touches(t, j, d)
<1>1. carts \in [CartIds -> CartRecord] /\ job[t] \in Job
  BY DEF IndInv, Base, TypeOK
<1>2. PICK c : c = job[t].cart
  OBVIOUS
<1>3. ASSUME NEW j, Goto(t, j), phase = "up", phase' = "up", j.pc \notin {"send", "register"}, UNCHANGED carts
      PROVE  \E k, d : Touches(t, k, d)
  <2>1. 0 \notin sessions
    BY DEF IndInv, Base, TypeOK, CartIds
  <2>2. Touches(t, j, 0)
    BY <1>3, <2>1 DEF Touches
  <2> QED BY <2>2
<1>4. ASSUME NEW j, Goto(t, j), phase = "up", phase' = "up", j.pc \notin {"send", "register"},
             NEW new, carts' = [carts EXCEPT ![c] = new], job[t].pc \notin Numbering
      PROVE  \E k, d : Touches(t, k, d)
  <2>1. Touches(t, j, c)
    BY <1>1, <1>2, <1>4 DEF Touches
  <2> QED BY <2>1
<1>5. CASE InsertCart(t)
  <2>1. PICK j : j = [job[t] EXCEPT !.pc = "increment"]
    OBVIOUS
  <2>2. Goto(t, j) /\ j.pc = "increment" /\ phase = "up" /\ phase' = "up"
    BY <1>1, <1>5, <2>1 DEF InsertCart, Job
  <2>3. carts' = IF c \in sessions THEN carts ELSE [carts EXCEPT ![c] = NewCart("ready")]
    BY <1>2, <1>5 DEF InsertCart
  <2>4. CASE c \in sessions
    BY <1>3, <2>2, <2>3, <2>4
  <2>5. CASE c \notin sessions
    <3>1. Touches(t, j, c)
      BY <1>1, <2>2, <2>3, <2>5 DEF Touches
    <3> QED BY <3>1
  <2> QED BY <2>4, <2>5
<1>7. CASE ReadNumber(t) \/ WriteNumber(t) \/ CopyItem(t) \/ WriteRow(t)
  <2>1. UNCHANGED carts /\ phase = "up" /\ phase' = "up"
    BY <1>7 DEF ReadNumber, WriteNumber, CopyItem, WriteRow, memory
  <2>2. PICK j : Goto(t, j) /\ j.pc \notin {"send", "register"}
    <3>1. CASE ReadNumber(t)
      <4>1. PICK k : k = [job[t] EXCEPT !.pc = "store", !.number = nextNumber]
        OBVIOUS
      <4>2. k.pc = "store"
        BY <1>1, <4>1 DEF Job
      <4>3. Goto(t, k)
        BY <3>1, <4>1 DEF ReadNumber
      <4> QED BY <4>2, <4>3
    <3>2. CASE WriteNumber(t)
      BY <3>2, IdleFits DEF WriteNumber, Reply
    <3>3. CASE CopyItem(t)
      <4>1. PICK k : k = [job[t] EXCEPT !.pc = "keep"]
        OBVIOUS
      <4> QED BY <1>1, <3>3, <4>1 DEF CopyItem, Job
    <3>4. CASE WriteRow(t)
      <4>1. PICK k : k = [job[t] EXCEPT !.pc = "link"]
        OBVIOUS
      <4>2. k.pc = "link"
        BY <1>1, <4>1 DEF Job
      <4>3. Goto(t, k) \/ Goto(t, Idle)
        BY <3>4, <4>1 DEF WriteRow, Reply
      <4> QED BY <4>2, <4>3, IdleFits
    <3> QED BY <1>7, <3>1, <3>2, <3>3, <3>4
  <2> QED BY <1>3, <2>1, <2>2
<1>8. CASE Check(t)
  <2>1. PICK p, off : /\ p = RequestPrice(job[t], carts[c])
                      /\ off = RequestDiscount(job[t], p)
    OBVIOUS
  <2>2. PICK k : k = [job[t] EXCEPT !.pc = "change", !.price = p, !.discount = off]
    OBVIOUS
  <2>3. k.pc = "change"
    BY <1>1, <2>2 DEF Job
  <2>4. UNCHANGED carts /\ phase = "up" /\ phase' = "up"
    BY <1>8 DEF Check, memory
  <2>5. Goto(t, k) \/ Goto(t, Idle)
    BY <1>2, <1>8, <2>1, <2>2 DEF Check, Reply
  <2> QED BY <1>3, <2>3, <2>4, <2>5, IdleFits
<1>9. CASE Follow(t)
  <2>1. UNCHANGED carts /\ phase = "up" /\ phase' = "up"
    BY <1>9 DEF Follow, memory
  <2>2. ASSUME NEW x
        PROVE  LinkedRequest(job[t], x).pc \notin {"send", "register"}
    BY DEF LinkedRequest, Started, Idle
  <2>3. \E j : Goto(t, j) /\ j.pc \notin {"send", "register"}
    BY <1>9, <2>2, IdleFits DEF Follow, Reply
  <2> QED BY <1>3, <2>1, <2>3
<1>10. CASE WriteHeader(t)
  <2>1. /\ UNCHANGED carts /\ phase = "up" /\ phase' = "up"
        /\ \E h : Goto(t, [job[t] EXCEPT !.pc = "send", !.header = h])
    BY <1>10 DEF WriteHeader, memory
  <2>2. PICK j : Goto(t, j) /\ j.pc = "send"
    <3>1. \A h : [job[t] EXCEPT !.pc = "send", !.header = h].pc = "send"
      BY <1>1 DEF Job
    <3> QED BY <2>1, <3>1
  <2>3. 0 \notin sessions
    BY DEF IndInv, Base, TypeOK, CartIds
  <2>4. Touches(t, j, 0)
    BY <1>10, <2>1, <2>2, <2>3 DEF Touches
  <2> QED BY <2>4
<1>11. CASE SendRows(t)
  <2>1. UNCHANGED carts /\ phase = "up" /\ phase' = "up" /\ Goto(t, Idle)
    BY <1>11 DEF SendRows, Reply, memory
  <2> QED BY <1>3, <2>1, IdleFits
<1>12. CASE CopyDepartment(t) \/ KeepItem(t) \/ Change(t) \/ Register(t)
  <2>1. job[t].pc \notin Numbering /\ phase = "up" /\ phase' = "up"
    BY <1>12 DEF CopyDepartment, KeepItem, Change, Register, Numbering
  <2>2. \E new : carts' = [carts EXCEPT ![c] = new]
    BY <1>2, <1>12 DEF CopyDepartment, KeepItem, Change, Register, Store
  <2>3. \E j : Goto(t, j) /\ j.pc \notin {"send", "register"}
    <3>1. CASE CopyDepartment(t)
      <4>1. PICK k, p : /\ k = [job[t] EXCEPT !.pc = "copyItem", !.price = p]
                        /\ p = archive[JobItem(job[t])].price
        OBVIOUS
      <4>2. PICK l : l = [job[t] EXCEPT !.pc = "check"]
        OBVIOUS
      <4>3. k.pc = "copyItem" /\ l.pc = "check"
        BY <1>1, <4>1, <4>2 DEF Job
      <4>4. Goto(t, k) \/ Goto(t, l)
        BY <3>1, <4>1, <4>2 DEF CopyDepartment
      <4> QED BY <4>3, <4>4
    <3>2. CASE KeepItem(t)
      <4>1. PICK k : k = [job[t] EXCEPT !.pc = "check", !.price = 0]
        OBVIOUS
      <4>2. k.pc = "check"
        BY <1>1, <4>1 DEF Job
      <4>3. Goto(t, k)
        BY <3>2, <4>1 DEF KeepItem
      <4> QED BY <4>2, <4>3
    <3>3. CASE Change(t)
      <4>1. PICK x \in {"write", "link"} : Goto(t, [job[t] EXCEPT !.pc = x])
        BY <3>3 DEF Change
      <4>2. PICK k : k = [job[t] EXCEPT !.pc = x]
        OBVIOUS
      <4> QED BY <1>1, <4>1, <4>2 DEF Job
    <3>4. CASE Register(t)
      BY <3>4, IdleFits DEF Register, Reply
    <3> QED BY <1>12, <3>1, <3>2, <3>3, <3>4
  <2> QED BY <1>4, <2>1, <2>2, <2>3
<1> QED BY <1>5, <1>7, <1>8, <1>9, <1>10, <1>11, <1>12 DEF Continue

\* A request that goes on has its cart to itself, if the requests of a session
\* come one at a time.
LEMMA CartToItself ==
  ASSUME IndInv, OneAtATime, NEW t \in Threads, job[t].pc \notin Numbering,
         NEW u \in Threads, u # t, Start(u) \/ Continue(u)
  PROVE  job'[t] = job[t] /\ carts'[job[t].cart] = carts[job[t].cart]
<1>1. PICK j, d : Touches(u, j, d)
  BY StartTouches, ContinueTouches
<1>2. PICK c : c = job[t].cart
  OBVIOUS
<1>3. c \in sessions /\ c \in CartIds /\ Working(t, c)
  BY <1>2, IdleFits DEF IndInv, Base, TypeOK, WellFormed, Numbering, Working
<1>4. job'[t] = job[t]
  BY <1>1 DEF Touches, Goto, IndInv, Base, TypeOK
<1>5. c # d
  <2>1. ASSUME c = d
        PROVE  FALSE
    <3>1. Working(u, c)
      BY <1>1, <1>3, <2>1 DEF Touches, Working, Numbering
    <3> QED BY <1>3, <3>1, Alone
  <2> QED BY <2>1
<1> QED BY <1>1, <1>2, <1>3, <1>4, <1>5 DEF Touches

\* The header a thread has written is still that of its cart.
HeaderFits(t) ==
  LET cart == carts[job[t].cart]
  IN /\ CardsIn(cart.loy) # {} => job[t].header.customer \in CardsIn(cart.loy)
     /\ job[t].header.count = cart.goods.itemsNumber

Headers == OneAtATime => \A t \in Threads : job[t].pc = "send" => HeaderFits(t)

LEMMA HeaderWritten ==
  ASSUME IndInv, NEW t \in Threads, WriteHeader(t)
  PROVE  HeaderFits(t)'
<1>1. PICK c : c = job[t].cart
  OBVIOUS
<1>2. PICK k \in Cards \cup {NoCard} :
        /\ IsCustomer(carts[c].loy, k)
        /\ Goto(t, [job[t] EXCEPT !.pc = "send", !.header =
             [station |-> @.station, customer |-> k, count |-> carts[c].goods.itemsNumber,
              amount |-> carts[c].totals[0].amount]])
  BY <1>1 DEF WriteHeader
<1>3. job[t] \in Job /\ job \in [Threads -> Job] /\ UNCHANGED carts
  BY DEF WriteHeader, memory, IndInv, Base, TypeOK
<1>4. PICK h : h = [station |-> job[t].header.station, customer |-> k,
                    count |-> carts[c].goods.itemsNumber, amount |-> carts[c].totals[0].amount]
  OBVIOUS
<1>5. job'[t] = [job[t] EXCEPT !.pc = "send", !.header = h]
  BY <1>2, <1>3, <1>4 DEF Goto
<1>6. job'[t].cart = c /\ job'[t].header = h
  BY <1>1, <1>3, <1>5 DEF Job
<1>7. h.customer = k /\ h.count = carts[c].goods.itemsNumber
  BY <1>4
<1>8. CardsIn(carts[c].loy) # {} => k \in CardsIn(carts[c].loy)
  BY <1>2 DEF IsCustomer, CardsIn
<1> QED BY <1>3, <1>6, <1>7, <1>8 DEF HeaderFits

LEMMA HeadersStep ==
  ASSUME IndInv, Headers, [Next]_vars
  PROVE  Headers'
<1> SUFFICES ASSUME OneAtATime, NEW t \in Threads, job'[t].pc = "send"
             PROVE  HeaderFits(t)'
  BY DEF Headers
<1>1. ASSUME job'[t] = job[t], carts'[job[t].cart] = carts[job[t].cart]
      PROVE  HeaderFits(t)'
  BY <1>1 DEF Headers, HeaderFits
<1>2. ASSUME NEW u \in Threads, Start(u) \/ Continue(u)
      PROVE  HeaderFits(t)'
  <2>1. PICK j, d : Touches(u, j, d)
    BY <1>2, StartTouches, ContinueTouches
  <2>2. CASE u = t
    <3>1. job'[t] = j
      BY <2>1, <2>2 DEF Touches, Goto, IndInv, Base, TypeOK
    <3>2. WriteHeader(t)
      BY <2>1, <2>2, <3>1 DEF Touches
    <3> QED BY <3>2, HeaderWritten
  <2>3. CASE u # t
    <3>1. job'[t] = job[t]
      BY <2>1, <2>3 DEF Touches, Goto, IndInv, Base, TypeOK
    <3>2. job[t].pc \notin Numbering
      BY <3>1 DEF Numbering
    <3> QED BY <1>1, <1>2, <2>3, <3>2, CartToItself
  <2> QED BY <2>2, <2>3
<1>3. CASE ApplyVariation \/ DumpItems \/ UNCHANGED vars
  <2>1. UNCHANGED <<job, carts>>
    BY <1>3 DEF ApplyVariation, DumpItems, memory, vars
  <2> QED BY <1>1, <2>1
<1>4. CASE Crash
  BY <1>4, IdleFits DEF Crash
<1>5. CASE Restart
  <2>1. phase # "up" /\ job' = job
    BY <1>5 DEF Restart, Boot, LoadFile, LoadRow, FinishFile, FinishBoot
  <2> QED BY <2>1, IdleFits DEF IndInv, Base, WellFormed
<1> QED BY <1>2, <1>3, <1>4, <1>5 DEF Next

LEMMA HeadersHold == Spec => []Headers
<1>1. Init => Headers
  BY IdleFits DEF Init, Headers
<1> QED BY <1>1, HeadersStep, Inductive, PTL DEF Spec

\* Only sendToPos writes a pay station's file.
LEMMA PosSender ==
  ASSUME [Next]_vars
  PROVE  posFile' = posFile \/ \E t \in Threads : SendRows(t)
<1>1. ASSUME NEW t \in Threads, Start(t)
      PROVE  posFile' = posFile
  BY <1>1 DEF Start, InitSession, Query, ItemAdd, ItemVoid, ItemRequest, CustomerAdd,
              CustomerVoid, SessionEnd, SessionVoid, OnlyRequestId, storage
<1>2. ASSUME NEW t \in Threads, Continue(t)
      PROVE  posFile' = posFile \/ SendRows(t)
  <2>1. CASE InsertCart(t) \/ ReadNumber(t) \/ WriteNumber(t)
    BY <2>1 DEF InsertCart, ReadNumber, WriteNumber, storage
  <2>2. CASE CopyDepartment(t) \/ CopyItem(t) \/ KeepItem(t)
    BY <2>2 DEF CopyDepartment, CopyItem, KeepItem, storage
  <2>3. CASE Check(t) \/ Change(t) \/ WriteRow(t) \/ Follow(t)
    BY <2>3 DEF Check, Change, WriteRow, Follow, storage
  <2>4. CASE Register(t) \/ WriteHeader(t)
    BY <2>4 DEF Register, WriteHeader, storage
  <2> QED BY <1>2, <2>1, <2>2, <2>3, <2>4 DEF Continue
<1>3. CASE ApplyVariation \/ DumpItems \/ Crash \/ Restart \/ UNCHANGED vars
  BY <1>3 DEF ApplyVariation, DumpItems, Crash, Restart, Boot, LoadFile, LoadRow, FinishFile,
              FinishBoot, storage, vars
<1> QED BY <1>1, <1>2, <1>3 DEF Next

\* The file a session is sent in has its rows under the header written before.
LEMMA PosStep ==
  ASSUME IndInv, [Next]_vars, NEW p \in PayStations, posFile'[p] # posFile[p]
  PROVE  \E t \in Threads :
           /\ job[t].pc = "send" /\ job[t].cart \in sessions
           /\ posFile'[p].cart = job[t].cart
           /\ posFile'[p].customer = job[t].header.customer
           /\ posFile'[p].count = job[t].header.count
           /\ posFile'[p].rows = carts[job[t].cart].goods.barcodes
<1>1. PICK t \in Threads : SendRows(t)
  BY PosSender
<1>2. PICK c, h : c = job[t].cart /\ h = job[t].header
  OBVIOUS
<1>3. PICK file : file = [cart |-> c, customer |-> h.customer, count |-> h.count,
                          amount |-> h.amount, rows |-> carts[c].goods.barcodes]
  OBVIOUS
<1>4. job[t].pc = "send" /\ posFile' = [posFile EXCEPT ![h.station] = file]
  BY <1>1, <1>2, <1>3 DEF SendRows
<1>5. posFile \in [PayStations -> PosDocument \cup {NoFile}] /\ job[t].cart \in sessions
  BY <1>4 DEF IndInv, Base, TypeOK, WellFormed
<1>6. posFile'[p] = file
  BY <1>4, <1>5
<1>7. /\ posFile'[p].cart = c /\ posFile'[p].customer = h.customer
      /\ posFile'[p].count = h.count /\ posFile'[p].rows = carts[c].goods.barcodes
  BY <1>3, <1>6
<1> QED BY <1>2, <1>4, <1>5, <1>7

\* sendToPos names one of the cart's cards in the header of the file whenever
\* the cart holds one, whatever slot of loy_cards_map it is in, if the requests
\* of a session come one at a time.
THEOREM PosCustomerHolds == Spec => PosCustomerHoldsTheCart
<1>1. IndInv /\ Headers /\ [Next]_vars =>
        [\A p \in PayStations :
           OneAtATime /\ posFile'[p] # posFile[p] =>
             LET held == CardsIn(carts[posFile'[p].cart].loy)
             IN held # {} => posFile'[p].customer \in held]_vars
  <2> SUFFICES ASSUME IndInv, Headers, [Next]_vars, NEW p \in PayStations, OneAtATime,
                      posFile'[p] # posFile[p]
               PROVE  LET held == CardsIn(carts[posFile'[p].cart].loy)
                      IN held # {} => posFile'[p].customer \in held
    OBVIOUS
  <2> QED BY PosStep DEF Headers, HeaderFits
<1> QED BY <1>1, HeadersHold, Inductive, PTL DEF Spec, PosCustomerHoldsTheCart

-----------------------------------------------------------------------------
(* Session numbers, with one thread in the pool.                           *)

OneThread == \A t, u \in Threads : t = u

Creating(j) == j.pc \in {"insert", "increment", "store"}

\* While a session is created its number is next_cart_number, nobody has it
\* and no file has a greater one; otherwise every file's number is below.
\* While the files are loaded, the numbers of those that are done are below.
Numbers ==
  /\ phase = "up" => \A t \in Threads :
       /\ ~Creating(job[t]) => \A c \in files : c < nextNumber
       /\ Creating(job[t]) =>
            /\ job[t].cart = nextNumber /\ issued[nextNumber] = 0
            /\ \A c \in files : c <= nextNumber
            /\ job[t].pc = "store" => job[t].number = nextNumber
  /\ phase = "loading" => \A c \in sessions \ {loading.cart} : c < nextNumber
  /\ SessionsAreNotShared

LEMMA QuietNumbers ==
  ASSUME Numbers, IndInv, phase = "up", NEW t \in Threads, NEW j,
         UNCHANGED <<phase, nextNumber, files, issued>>, Goto(t, j),
         ~Creating(job[t]), ~Creating(j)
  PROVE  Numbers'
<1>1. \A u \in Threads : job'[u] = IF u = t THEN j ELSE job[u]
  BY DEF IndInv, Base, TypeOK, Goto
<1>2. phase' = "up" /\ SessionsAreNotShared'
  BY DEF Numbers, SessionsAreNotShared
<1>3. ASSUME NEW u \in Threads
      PROVE  /\ ~Creating(job'[u]) => \A c \in files' : c < nextNumber'
             /\ Creating(job'[u]) =>
                  /\ job'[u].cart = nextNumber' /\ issued'[nextNumber'] = 0
                  /\ \A c \in files' : c <= nextNumber'
                  /\ job'[u].pc = "store" => job'[u].number = nextNumber'
  <2>1. CASE u = t
    BY <1>1, <2>1 DEF Numbers
  <2>2. CASE u # t
    BY <1>1, <2>2 DEF Numbers
  <2> QED BY <2>1, <2>2
<1> QED BY <1>2, <1>3 DEF Numbers, Creating

LEMMA StartNumbers ==
  ASSUME OneThread, Numbers, GivenHaveFiles, IndInv, NEW t \in Threads, Start(t)
  PROVE  Numbers'
<1>1. CASE InitSession(t)
  <2>1. /\ phase = "up" /\ phase' = "up" /\ job[t] = Idle /\ nextNumber \in CartIds
        /\ UNCHANGED <<nextNumber, files, issued>>
        /\ job' = [job EXCEPT ![t] = [Idle EXCEPT !.pc = "insert", !.cart = nextNumber]]
    BY <1>1 DEF InitSession, Goto, memory, storage
  <2>2. \A c \in files : c < nextNumber
    BY <2>1 DEF Numbers, Creating, Idle
  <2>3. issued[nextNumber] = 0
    <3>1. nextNumber \notin files
      BY <2>1, <2>2 DEF CartIds
    <3>2. issued[nextNumber] \in Nat
      BY <2>1 DEF IndInv, Base, TypeOK
    <3> QED BY <2>1, <3>1, <3>2 DEF GivenHaveFiles
  <2>4. /\ job'[t].pc = "insert" /\ job'[t].cart = nextNumber
        /\ \A u \in Threads : u = t
    BY <2>1 DEF IndInv, Base, TypeOK, Idle, OneThread
  <2>5. \A c \in files : c \in Int /\ nextNumber \in Int
    BY DEF IndInv, Base, TypeOK, CartIds
  <2> QED BY <2>1, <2>2, <2>3, <2>4, <2>5 DEF Numbers, Creating, SessionsAreNotShared
<1>2. ASSUME NEW c \in sessions,
             \/ Query(t, c) \/ SessionVoid(t, c)
             \/ \E b \in Barcodes : ItemAdd(t, c, b) \/ ItemVoid(t, c, b)
             \/ \E k \in Cards : CustomerAdd(t, c, k) \/ CustomerVoid(t, c, k)
             \/ \E p \in PayStations : SessionEnd(t, c, p)
      PROVE  Numbers'
  <2>1. phase = "up" /\ job[t] = Idle /\ UNCHANGED <<phase, nextNumber, files, issued>>
    BY <1>2 DEF Query, SessionVoid, ItemAdd, ItemVoid, ItemRequest, CustomerAdd, CustomerVoid,
                SessionEnd, Serve, OnlyRequestId, storage
  <2>2. \E j : Goto(t, j) /\ ~Creating(j)
    <3>1. ~Creating(Idle)
      BY IdleFits DEF Creating
    <3>2. \A row : ~Creating(Started([Idle EXCEPT !.cart = c, !.row = row]))
      BY DEF Creating, Started, Idle
    <3>3. ~Creating([Idle EXCEPT !.pc = "change", !.cart = c, !.row = RowCV])
      BY DEF Creating, Idle
    <3>4. \A k : ~Creating([Idle EXCEPT !.pc = "register", !.cart = c, !.row = RowLA(k)])
      BY DEF Creating, Idle
    <3>5. \A p : ~Creating([Idle EXCEPT !.pc = "header", !.cart = c, !.header.station = p])
      BY DEF Creating, Idle
    <3>6. CASE Query(t, c)
      BY <2>1, <3>1, <3>6 DEF Query, Goto, IndInv, Base, TypeOK
    <3>7. CASE SessionVoid(t, c)
      BY <3>1, <3>3, <3>7 DEF SessionVoid, Reply
    <3>8. CASE \E b \in Barcodes : ItemAdd(t, c, b) \/ ItemVoid(t, c, b)
      <4>1. PICK row : ItemRequest(t, c, row)
        BY <3>8 DEF ItemAdd, ItemVoid
      <4> QED BY <3>1, <3>2, <4>1 DEF ItemRequest, Reply
    <3>9. CASE \E k \in Cards : CustomerAdd(t, c, k) \/ CustomerVoid(t, c, k)
      BY <3>1, <3>4, <3>9 DEF CustomerAdd, CustomerVoid, Reply
    <3>10. CASE \E p \in PayStations : SessionEnd(t, c, p)
      BY <3>1, <3>5, <3>10 DEF SessionEnd, Reply
    <3> QED BY <1>2, <3>6, <3>7, <3>8, <3>9, <3>10
  <2>3. ~Creating(job[t])
    BY <2>1, IdleFits DEF Creating
  <2> QED BY <2>1, <2>2, <2>3, QuietNumbers
<1> QED BY <1>1, <1>2 DEF Start

LEMMA ContinueNumbers ==
  ASSUME OneThread, Numbers, IndInv, NEW t \in Threads, Continue(t)
  PROVE  Numbers'
<1>1. /\ \A u \in Threads : u = t
      /\ job \in [Threads -> Job] /\ job[t] \in Job
      /\ nextNumber \in Nat /\ files \subseteq CartIds /\ issued \in [CartIds -> Nat]
  BY DEF OneThread, IndInv, Base, TypeOK
<1>2. CASE InsertCart(t)
  <2>1. /\ phase = "up" /\ phase' = "up" /\ Creating(job[t])
        /\ files' = files \cup {job[t].cart} /\ UNCHANGED <<nextNumber, issued>>
        /\ job' = [job EXCEPT ![t] = [job[t] EXCEPT !.pc = "increment"]]
    BY <1>2 DEF InsertCart, Goto, Creating
  <2>2. job'[t].pc = "increment" /\ job'[t].cart = job[t].cart
    BY <1>1, <2>1 DEF Job
  <2>3. job[t].cart = nextNumber /\ issued[nextNumber] = 0 /\ \A c \in files : c <= nextNumber
    BY <2>1 DEF Numbers
  <2> QED BY <1>1, <2>1, <2>2, <2>3 DEF Numbers, Creating, SessionsAreNotShared
<1>3. CASE ReadNumber(t)
  <2>1. /\ phase = "up" /\ phase' = "up" /\ Creating(job[t])
        /\ UNCHANGED <<files, nextNumber, issued>>
        /\ job' = [job EXCEPT ![t] = [job[t] EXCEPT !.pc = "store", !.number = nextNumber]]
    BY <1>3 DEF ReadNumber, Goto, Creating, memory, storage
  <2>2. job'[t].pc = "store" /\ job'[t].cart = job[t].cart /\ job'[t].number = nextNumber
    BY <1>1, <2>1 DEF Job
  <2>3. job[t].cart = nextNumber /\ issued[nextNumber] = 0 /\ \A c \in files : c <= nextNumber
    BY <2>1 DEF Numbers
  <2> QED BY <1>1, <2>1, <2>2, <2>3 DEF Numbers, Creating, SessionsAreNotShared
<1>4. CASE WriteNumber(t)
  <2>1. /\ phase = "up" /\ phase' = "up" /\ Creating(job[t]) /\ job[t].pc = "store"
        /\ nextNumber' = job[t].number + 1 /\ files' = files
        /\ issued' = [issued EXCEPT ![job[t].cart] = @ + 1]
        /\ job' = [job EXCEPT ![t] = Idle]
    BY <1>4 DEF WriteNumber, IncrementedNumber, Reply, Goto, Creating, storage
  <2>2. /\ job[t].cart = nextNumber /\ issued[nextNumber] = 0 /\ job[t].number = nextNumber
        /\ \A c \in files : c <= nextNumber
    BY <2>1 DEF Numbers
  <2>3. \A c \in files' : c < nextNumber'
    BY <1>1, <2>1, <2>2 DEF CartIds
  <2>4. SessionsAreNotShared'
    BY <1>1, <2>1, <2>2 DEF Numbers, SessionsAreNotShared
  <2>5. ~Creating(job'[t])
    BY <1>1, <2>1, IdleFits DEF Creating
  <2> QED BY <1>1, <2>1, <2>3, <2>4, <2>5 DEF Numbers
<1>5. ASSUME phase = "up", ~Creating(job[t]), UNCHANGED <<phase, nextNumber, files, issued>>,
             \E j : Goto(t, j) /\ ~Creating(j)
      PROVE  Numbers'
  BY <1>5, QuietNumbers
<1>6. ~Creating(Idle)
  BY IdleFits DEF Creating
<1>7. \A x : x \notin {"insert", "increment", "store"} => ~Creating([job[t] EXCEPT !.pc = x])
  BY <1>1 DEF Creating, Job
<1>8. CASE CopyDepartment(t) \/ CopyItem(t) \/ KeepItem(t)
  <2>1. phase = "up" /\ ~Creating(job[t]) /\ UNCHANGED <<phase, nextNumber, files, issued>>
    BY <1>8 DEF CopyDepartment, CopyItem, KeepItem, Creating, memory, storage
  <2>2. \A p : /\ ~Creating([job[t] EXCEPT !.pc = "copyItem", !.price = p])
              /\ ~Creating([job[t] EXCEPT !.pc = "check", !.price = p])
    BY <1>1 DEF Creating, Job
  <2>3. \E j : Goto(t, j) /\ ~Creating(j)
    BY <1>7, <1>8, <2>2 DEF CopyDepartment, CopyItem, KeepItem
  <2> QED BY <1>5, <2>1, <2>3
<1>9. CASE Check(t)
  <2>1. phase = "up" /\ ~Creating(job[t]) /\ UNCHANGED <<phase, nextNumber, files, issued>>
    BY <1>9 DEF Check, Creating, memory, storage
  <2>2. \A p, off : ~Creating([job[t] EXCEPT !.pc = "change", !.price = p, !.discount = off])
    BY <1>1 DEF Creating, Job
  <2>3. \E j : Goto(t, j) /\ ~Creating(j)
    BY <1>6, <1>9, <2>2 DEF Check, Reply
  <2> QED BY <1>5, <2>1, <2>3
<1>10. CASE Change(t) \/ WriteRow(t)
  <2>1. phase = "up" /\ ~Creating(job[t]) /\ UNCHANGED <<phase, nextNumber, files, issued>>
    BY <1>10 DEF Change, WriteRow, Creating, memory, storage
  <2>2. \E j : Goto(t, j) /\ ~Creating(j)
    BY <1>6, <1>7, <1>10 DEF Change, WriteRow, Reply
  <2> QED BY <1>5, <2>1, <2>2
<1>11. CASE Follow(t) \/ Register(t)
  <2>1. phase = "up" /\ ~Creating(job[t]) /\ UNCHANGED <<phase, nextNumber, files, issued>>
    BY <1>11 DEF Follow, Register, Creating, memory, storage
  <2>2. \A b : ~Creating(LinkedRequest(job[t], b))
    BY DEF Creating, LinkedRequest, Started, Idle
  <2>3. \E j : Goto(t, j) /\ ~Creating(j)
    BY <1>6, <1>11, <2>2 DEF Follow, Register, Reply
  <2> QED BY <1>5, <2>1, <2>3
<1>12. CASE WriteHeader(t) \/ SendRows(t)
  <2>1. phase = "up" /\ ~Creating(job[t]) /\ UNCHANGED <<phase, nextNumber, files, issued>>
    BY <1>12 DEF WriteHeader, SendRows, Creating, memory, storage
  <2>2. \A h : ~Creating([job[t] EXCEPT !.pc = "send", !.header = h])
    BY <1>1 DEF Creating, Job
  <2>3. \E j : Goto(t, j) /\ ~Creating(j)
    BY <1>6, <1>12, <2>2 DEF WriteHeader, SendRows, Reply
  <2> QED BY <1>5, <2>1, <2>3
<1> QED BY <1>2, <1>3, <1>4, <1>8, <1>9, <1>10, <1>11, <1>12 DEF Continue

LEMMA RestartNumbers ==
  ASSUME Numbers, IndInv, Crash \/ Restart
  PROVE  Numbers'
<1>1. sessions \subseteq CartIds /\ nextNumber \in Nat /\ CartIds \subseteq Nat
  BY DEF IndInv, Base, TypeOK, CartIds
<1>2. issued' = issued
  BY DEF Crash, Restart, Boot, LoadFile, LoadRow, FinishFile, FinishBoot
<1>3. SessionsAreNotShared'
  BY <1>2 DEF Numbers, SessionsAreNotShared
<1>4. CASE Crash
  BY <1>3, <1>4 DEF Crash, Numbers
<1>5. CASE Boot
  <2>1. phase' = "loading" /\ sessions' = {}
    BY <1>5 DEF Boot, IndInv, Base, WellFormed
  <2> QED BY <1>3, <2>1 DEF Numbers
<1>6. CASE LoadFile
  <2>1. /\ phase = "loading" /\ phase' = "loading" /\ nextNumber' = nextNumber
        /\ loading.cart = 0
        /\ \E c \in pending : sessions' = sessions \cup {c} /\ loading'.cart = c
    BY <1>6 DEF LoadFile, NotLoading
  <2>2. 0 \notin sessions
    BY <1>1 DEF CartIds
  <2> QED BY <1>3, <2>1, <2>2 DEF Numbers
<1>7. CASE LoadRow
  <2>1. /\ phase = "loading" /\ phase' = "loading" /\ nextNumber' = nextNumber
        /\ sessions' = sessions /\ loading'.cart = loading.cart
    BY <1>7 DEF LoadRow, IndInv, Base, TypeOK
  <2> QED BY <1>3, <2>1 DEF Numbers
<1>8. CASE FinishFile
  <2>1. /\ phase = "loading" /\ phase' = "loading" /\ sessions' = sessions
        /\ nextNumber' = NumberAfterLoad(nextNumber, loading.cart)
    BY <1>8 DEF FinishFile
  <2>2. loading.cart \in sessions
    BY <1>8 DEF FinishFile, IndInv, Base, WellFormed
  <2>3. nextNumber' >= nextNumber /\ loading.cart < nextNumber' /\ nextNumber' \in Nat
    <3>1. loading.cart \in Nat
      BY <1>1, <2>2
    <3> QED BY <1>1, <2>1, <3>1 DEF NumberAfterLoad
  <2>4. ASSUME NEW c \in sessions
        PROVE  c < nextNumber'
    <3>1. c \in Nat
      BY <1>1
    <3>2. c # loading.cart => c < nextNumber
      BY <2>1 DEF Numbers
    <3> QED BY <1>1, <2>3, <3>1, <3>2
  <2> QED BY <1>3, <2>1, <2>4 DEF Numbers
<1>9. CASE FinishBoot
  <2>1. /\ phase = "loading" /\ phase' = "up" /\ loading.cart = 0 /\ files = sessions
        /\ UNCHANGED <<files, job, nextNumber>>
    BY <1>9 DEF FinishBoot, IndInv, Base, WellFormed, NotLoading, memory, storage
  <2>2. \A t \in Threads : ~Creating(job'[t])
    BY <2>1 DEF IndInv, Base, WellFormed, Creating, Idle
  <2>3. \A c \in sessions : c # loading.cart
    BY <1>1, <2>1 DEF CartIds
  <2>4. \A c \in files' : c < nextNumber'
    BY <2>1, <2>3 DEF Numbers
  <2> QED BY <1>3, <2>1, <2>2, <2>4 DEF Numbers
<1> QED BY <1>4, <1>5, <1>6, <1>7, <1>8, <1>9 DEF Restart

LEMMA NumbersStep ==
  ASSUME OneThread, Numbers, GivenHaveFiles, IndInv, [Next]_vars
  PROVE  Numbers'
<1>1. CASE ApplyVariation \/ DumpItems \/ UNCHANGED vars
  <2>1. UNCHANGED <<phase, sessions, nextNumber, files, job, loading, issued>>
    BY <1>1 DEF ApplyVariation, DumpItems, memory, storage, vars
  <2> QED BY <2>1 DEF Numbers, SessionsAreNotShared
<1> QED BY <1>1, StartNumbers, ContinueNumbers, RestartNumbers DEF Next

\* With one thread in the pool no session number is returned twice: not when
\* the process dies between the insertion of a session and the increment of
\* next_cart_number, nor after a restart that finds the file of a session
\* nobody was given.
THEOREM NumbersAreNotShared ==
  ASSUME OneThread
  PROVE  Spec => []SessionsAreNotShared
<1>1. Init => Numbers
  BY DEF Init, Numbers, SessionsAreNotShared
<1>2. Numbers => SessionsAreNotShared
  BY DEF Numbers
<1>3. IndInv /\ GivenHaveFiles /\ Numbers /\ [Next]_vars => Numbers'
  BY NumbersStep
<1> QED BY <1>1, <1>2, <1>3, Inductive, GivenHaveFilesHold, PTL DEF Spec

-----------------------------------------------------------------------------
(* The rows of the journals. *)

\* A request writes at most one row: only a card's methods write a card's row,
\* and only a sale writes a sale's.
WritesRow(t) ==
  \/ UNCHANGED <<journal, image>>
  \/ \E c \in sessions : \E row \in Rows : \E kept :
       /\ Grows(c, row, kept)
       /\ row.kind = "LA" => Register(t) /\ job[t].cart = c /\ job[t].row.card = row.card
       /\ row.kind = "LV" => "uncard" \in Requests
       /\ row.kind = "IA" => WriteRow(t) /\ job[t].cart = c /\ job[t].row = row

LEMMA RowKindFacts ==
  /\ RowKD.kind = "KD" /\ RowCV.kind = "CV"
  /\ \A i, p : RowKI(i, p).kind = "KI"
  /\ \A b : RowIA(b).kind = "IA" /\ RowIV(b).kind = "IV"
  /\ \A k : RowLA(k).kind = "LA" /\ RowLA(k).card = k
  /\ \A k : RowLV(k).kind = "LV" /\ RowLV(k).card = k
  BY DEF RowKD, RowCV, RowKI, RowIA, RowIV, RowLA, RowLV

LEMMA StoreGrows ==
  ASSUME NEW c, NEW cart, NEW row, NEW written, Store(c, cart, row, written)
  PROVE  UNCHANGED <<journal, image>> \/ Grows(c, row, Kept(cart))
  BY DEF Store, Written, NothingWritten, Grows

LEMMA StartRow ==
  ASSUME IndInv, NEW t \in Threads, Start(t)
  PROVE  WritesRow(t)
<1>1. ASSUME NEW c \in sessions, NEW k \in Cards, CustomerVoid(t, c, k)
      PROVE  WritesRow(t)
  <2>1. RowLV(k) \in Rows /\ RowLV(k).kind = "LV" /\ "uncard" \in Requests
    BY <1>1, RowsType, RowKindFacts DEF CustomerVoid, Serve
  <2>2. UNCHANGED <<journal, image>> \/ \E kept : Grows(c, RowLV(k), kept)
    BY <1>1, StoreGrows DEF CustomerVoid
  <2> QED BY <2>1, <2>2 DEF WritesRow
<1>2. CASE \/ InitSession(t)
           \/ \E c \in sessions :
                \/ Query(t, c) \/ SessionVoid(t, c)
                \/ \E b \in Barcodes : ItemAdd(t, c, b) \/ ItemVoid(t, c, b)
                \/ \E k \in Cards : CustomerAdd(t, c, k)
                \/ \E p \in PayStations : SessionEnd(t, c, p)
  <2>1. UNCHANGED <<journal, image>>
    BY <1>2 DEF InitSession, Query, SessionVoid, ItemAdd, ItemVoid, ItemRequest, CustomerAdd,
                SessionEnd, OnlyRequestId, storage
  <2> QED BY <2>1 DEF WritesRow
<1> QED BY <1>1, <1>2 DEF Start

LEMMA ContinueRow ==
  ASSUME IndInv, NEW t \in Threads, Continue(t)
  PROVE  WritesRow(t)
<1>1. CASE \/ InsertCart(t) \/ ReadNumber(t) \/ WriteNumber(t) \/ KeepItem(t) \/ Check(t)
           \/ Change(t) \/ Follow(t) \/ WriteHeader(t) \/ SendRows(t)
  <2>1. UNCHANGED <<journal, image>>
    BY <1>1 DEF InsertCart, ReadNumber, WriteNumber, KeepItem, Check, Change, Follow, WriteHeader,
                SendRows, storage
  <2> QED BY <2>1 DEF WritesRow
<1>2. CASE CopyDepartment(t) \/ CopyItem(t) \/ WriteRow(t) \/ Register(t)
  <2>1. PICK c, j : c = job[t].cart /\ j = job[t]
    OBVIOUS
  <2>2. /\ phase = "up" /\ j.pc \in {"copy", "copyItem", "write", "register"}
        /\ job[t].pc \notin Numbering /\ job[t].cart = c
    BY <1>2, <2>1 DEF CopyDepartment, CopyItem, WriteRow, Register, Numbering
  <2>3. c \in sessions /\ j \in Job /\ JobFits(j)
    BY <2>1, <2>2, AtWork
  <2>4. CASE CopyDepartment(t)
    <3>1. UNCHANGED <<journal, image>> \/ \E kept : Grows(c, RowKD, kept)
      BY <2>1, <2>4, StoreGrows DEF CopyDepartment
    <3> QED BY <2>3, <3>1, RowsType, RowKindFacts DEF WritesRow
  <2>5. CASE CopyItem(t)
    <3>1. PICK i, p : i = JobItem(j) /\ p = j.price
      OBVIOUS
    <3>2. j.pc = "copyItem"
      BY <2>1, <2>5 DEF CopyItem
    <3>3. i \in Items /\ p \in Prices
      BY <2>3, <3>1, <3>2, JobRow DEF JobFits
    <3>4. \E kept : Grows(c, RowKI(i, p), kept)
      BY <2>1, <2>5, <3>1 DEF CopyItem, Written, Grows
    <3>5. RowKI(i, p) \in Rows /\ RowKI(i, p).kind = "KI"
      BY <3>3, RowsType, RowKindFacts
    <3> QED BY <2>3, <3>4, <3>5 DEF WritesRow
  <2>6. CASE WriteRow(t)
    <3>1. UNCHANGED <<journal, image>> \/ \E kept : Grows(c, j.row, kept)
      BY <2>1, <2>6 DEF WriteRow, Written, NothingWritten, Grows
    <3>2. j.row \in Rows /\ j.row.kind \notin {"LA", "LV"}
      <4>1. j.row.kind \in {"IA", "IV", "CV"}
        BY <2>1, <2>3, <2>6 DEF WriteRow, JobFits
      <4> QED BY <2>3, <4>1 DEF Job, NoRow
    <3> QED BY <2>1, <2>3, <2>6, <3>1, <3>2 DEF WritesRow
  <2>7. CASE Register(t)
    <3>1. PICK k : k = j.row.card
      OBVIOUS
    <3>2. k \in Cards
      <4>1. j.row.kind = "LA" /\ j.row \in Rows
        BY <2>1, <2>3, <2>7 DEF Register, JobFits, Job, NoRow
      <4> QED BY <3>1, <4>1, RowKinds
    <3>3. UNCHANGED <<journal, image>> \/ \E kept : Grows(c, RowLA(k), kept)
      BY <2>1, <2>7, <3>1, StoreGrows DEF Register
    <3>4. RowLA(k) \in Rows /\ RowLA(k).kind = "LA" /\ RowLA(k).card = k
      BY <3>2, RowsType, RowKindFacts
    <3> QED BY <2>1, <2>3, <2>7, <3>1, <3>3, <3>4 DEF WritesRow
  <2> QED BY <1>2, <2>4, <2>5, <2>6, <2>7
<1> QED BY <1>1, <1>2 DEF Continue

\* A request does not disturb the load of a file, nor end a session.
LEMMA WorkIsLive ==
  ASSUME IndInv, NEW t \in Threads, Start(t) \/ Continue(t)
  PROVE  /\ phase = "up" /\ phase' = "up" /\ UNCHANGED loading /\ sessions \subseteq sessions'
         /\ registry' = registry \/ Register(t)
<1> DEFINE Goal == /\ phase = "up" /\ phase' = "up" /\ UNCHANGED loading
                   /\ sessions \subseteq sessions' /\ (registry' = registry \/ Register(t))
<1>1. CASE Start(t)
  BY <1>1 DEF Start, InitSession, Query, SessionVoid, ItemAdd, ItemVoid, ItemRequest, CustomerAdd,
              CustomerVoid, SessionEnd, OnlyRequestId, Serve, memory
<1>2. CASE InsertCart(t) \/ ReadNumber(t) \/ WriteNumber(t)
  BY <1>2 DEF InsertCart, ReadNumber, WriteNumber, memory
<1>3. CASE CopyDepartment(t) \/ CopyItem(t) \/ KeepItem(t)
  BY <1>3 DEF CopyDepartment, CopyItem, KeepItem, memory
<1>4. CASE Check(t) \/ Change(t) \/ WriteRow(t) \/ Follow(t)
  BY <1>4 DEF Check, Change, WriteRow, Follow, memory
<1>5. CASE Register(t) \/ WriteHeader(t) \/ SendRows(t)
  BY <1>5 DEF Register, WriteHeader, SendRows, memory
<1> QED BY <1>1, <1>2, <1>3, <1>4, <1>5 DEF Continue

LEMMA JournalGrows ==
  ASSUME IndInv, [Next]_vars
  PROVE  \/ UNCHANGED <<journal, image>>
         \/ phase = "up" /\ \E c \in sessions : \E row \in Rows : \E kept : Grows(c, row, kept)
<1>1. ASSUME NEW t \in Threads, Start(t) \/ Continue(t)
      PROVE  /\ phase = "up"
             /\ \/ UNCHANGED <<journal, image>>
                \/ \E c \in sessions : \E row \in Rows : \E kept : Grows(c, row, kept)
  BY <1>1, StartRow, ContinueRow, WorkIsLive DEF WritesRow
<1>2. CASE ApplyVariation \/ DumpItems \/ Crash \/ Restart \/ UNCHANGED vars
  BY <1>2 DEF ApplyVariation, DumpItems, Crash, Restart, Boot, LoadFile, LoadRow, FinishFile,
              FinishBoot, storage, vars
<1> QED BY <1>1, <1>2 DEF Next

\* The rows of a journal stay.
LEMMA RowsStay ==
  ASSUME IndInv, [Next]_vars, NEW c \in CartIds
  PROVE  /\ Len(journal[c]) \in Nat /\ Len(journal'[c]) \in Nat
         /\ Len(journal[c]) <= Len(journal'[c])
         /\ \A n \in 1..Len(journal[c]) : journal'[c][n] = journal[c][n]
<1>1. journal \in [CartIds -> Seq(Rows)]
  BY DEF IndInv, Base, TypeOK
<1>2. CASE journal'[c] = journal[c]
  BY <1>1, <1>2
<1>3. ASSUME NEW row \in Rows, journal'[c] = Append(journal[c], row)
      PROVE  /\ Len(journal[c]) \in Nat /\ Len(journal'[c]) \in Nat
             /\ Len(journal[c]) <= Len(journal'[c])
             /\ \A n \in 1..Len(journal[c]) : journal'[c][n] = journal[c][n]
  BY <1>1, <1>3, AppendFacts
<1>4. journal'[c] = journal[c] \/ \E row \in Rows : journal'[c] = Append(journal[c], row)
  BY <1>1, JournalGrows DEF Grows
<1> QED BY <1>2, <1>3, <1>4

-----------------------------------------------------------------------------
(* The cards a cart holds have a row. *)

CardsOwned == \A c \in sessions : \A k \in CardsIn(carts[c].loy) : AddedBy(c, k, RowsIn(c))

\* As long as a session is there its rows are too, unless its cart is made anew.
LEMMA RowsInStay ==
  ASSUME IndInv, [Next]_vars, NEW c \in sessions, c \in sessions', NEW k, AddedBy(c, k, RowsIn(c))
  PROVE  Fresh(carts'[c]) \/ AddedBy(c, k, RowsIn(c))'
<1>1. /\ c \in CartIds /\ 0 \notin CartIds /\ loading.row \in Nat
      /\ loading \in [cart : {0} \cup CartIds, row : Nat] /\ carts \in [CartIds -> CartRecord]
  BY DEF IndInv, Base, TypeOK, CartIds
<1>2. /\ Len(journal[c]) \in Nat /\ Len(journal'[c]) \in Nat
      /\ Len(journal[c]) <= Len(journal'[c])
      /\ \A n \in 1..Len(journal[c]) : journal'[c][n] = journal[c][n]
  BY <1>1, RowsStay
<1>3. c = loading.cart => loading.row <= Len(journal[c])
  BY <1>1 DEF IndInv, Base, WellFormed, NotLoading
<1>4. RowsIn(c) \in Nat /\ RowsIn(c) <= Len(journal[c])
  BY <1>1, <1>2, <1>3 DEF RowsIn
<1>5. ASSUME RowsIn(c)' \in Nat, RowsIn(c) <= RowsIn(c)'
      PROVE  AddedBy(c, k, RowsIn(c))'
  <2>1. PICK m \in 1..RowsIn(c) : journal[c][m] = RowLA(k)
    BY DEF AddedBy
  <2>2. m \in 1..Len(journal[c]) /\ m \in 1..RowsIn(c)'
    BY <1>2, <1>4, <1>5, <2>1
  <2> QED BY <1>2, <2>1, <2>2 DEF AddedBy
<1>6. CASE loading' = loading
  <2>1. CASE c = loading.cart
    BY <1>1, <1>5, <1>6, <2>1 DEF RowsIn
  <2>2. CASE c # loading.cart
    BY <1>2, <1>5, <1>6, <2>2 DEF RowsIn
  <2> QED BY <2>1, <2>2
<1>7. CASE LoadFile
  <2>1. PICK d \in pending : /\ loading.cart = 0 /\ loading' = [cart |-> d, row |-> 0]
                             /\ carts' = [carts EXCEPT ![d] = NewCart("loading")]
    BY <1>7 DEF LoadFile, NotLoading
  <2>2. CASE c = d
    <3>1. carts'[c] = NewCart("loading")
      BY <1>1, <2>1, <2>2
    <3> QED BY <3>1 DEF Fresh, NewCart
  <2>3. CASE c # d
    <3>1. RowsIn(c) = Len(journal[c]) /\ RowsIn(c)' = Len(journal'[c])
      BY <1>1, <2>1, <2>3 DEF RowsIn
    <3> QED BY <1>2, <1>5, <3>1
  <2> QED BY <2>2, <2>3
<1>8. CASE LoadRow
  <2>1. loading'.cart = loading.cart /\ loading'.row = loading.row + 1
    BY <1>1, <1>8 DEF LoadRow
  <2>2. CASE c = loading.cart
    BY <1>1, <1>5, <2>1, <2>2 DEF RowsIn
  <2>3. CASE c # loading.cart
    BY <1>2, <1>5, <2>1, <2>3 DEF RowsIn
  <2> QED BY <2>2, <2>3
<1>9. CASE FinishFile
  <2>1. loading'.cart = 0 /\ RowsIn(c)' = Len(journal'[c])
    BY <1>1, <1>9 DEF FinishFile, NotLoading, RowsIn
  <2> QED BY <1>2, <1>4, <1>5, <2>1
<1>10. CASE Crash
  BY <1>10 DEF Crash
<1>11. CASE ApplyVariation \/ DumpItems \/ Boot \/ FinishBoot \/ UNCHANGED vars
  BY <1>6, <1>11 DEF ApplyVariation, DumpItems, Boot, FinishBoot, vars
<1> QED BY <1>6, <1>7, <1>8, <1>9, <1>10, <1>11, WorkIsLive DEF Next, Restart

LEMMA CardsOwnedStep ==
  ASSUME IndInv, CardsOwned, [Next]_vars
  PROVE  CardsOwned'
<1> SUFFICES ASSUME NEW c \in sessions', NEW k \in CardsIn(carts'[c].loy), c \in CartIds
             PROVE  AddedBy(c, k, RowsIn(c))'
  <2>1. sessions' \subseteq CartIds
    BY NextIndInv DEF IndInv, Base, TypeOK
  <2> QED BY <2>1 DEF CardsOwned
<1>1. ~Fresh(carts'[c])
  <2>1. CardsIn(NoLoy) = {}
    BY DEF CardsIn, NoLoy
  <2> HIDE DEF CardsIn, NoLoy
  <2> QED BY <2>1 DEF Fresh
<1>2. c \in sessions /\ Moves(c)
  BY <1>1, CartStep
<1>3. ASSUME k \in CardsIn(carts[c].loy)
      PROVE  AddedBy(c, k, RowsIn(c))'
  BY <1>1, <1>2, <1>3, RowsInStay DEF CardsOwned
<1>4. carts[c].loy.slots \in [0..MaxCards -> Cards \cup {NoCard}]
  BY DEF IndInv, Base, TypeOK, CartRecord, Loy
<1>5. CASE carts'[c].loy = carts[c].loy
  BY <1>3, <1>5
<1>6. ASSUME NEW new \in Cards, carts'[c].loy = PutCard(carts[c].loy, new),
             AddedBy(c, new, RowsIn(c))'
      PROVE  AddedBy(c, k, RowsIn(c))'
  <2>1. CASE k = new
    BY <1>6, <2>1
  <2>2. CASE k # new
    <3>1. \A s \in 0..MaxCards : carts'[c].loy.slots[s] \in {new, carts[c].loy.slots[s]}
      BY <1>4, <1>6 DEF PutCard
    <3>2. k \in CardsIn(carts[c].loy)
      BY <2>2, <3>1 DEF CardsIn
    <3> QED BY <1>3, <3>2
  <2> QED BY <2>1, <2>2
<1>7. ASSUME NEW old \in Cards, carts'[c].loy = TakeCard(carts[c].loy, old)
      PROVE  AddedBy(c, k, RowsIn(c))'
  <2>1. \A s \in 0..MaxCards : carts'[c].loy.slots[s] \in {NoCard, carts[c].loy.slots[s]}
    BY <1>4, <1>7 DEF TakeCard
  <2>2. k \in CardsIn(carts[c].loy)
    BY <2>1 DEF CardsIn
  <2> QED BY <1>3, <2>2
<1> QED BY <1>2, <1>5, <1>6, <1>7 DEF Moves, Stays, Sells, TakesOut, Carded

LEMMA CardsOwnedHold == Spec => []CardsOwned
<1>1. Init => CardsOwned
  BY DEF Init, CardsOwned
<1> QED BY <1>1, CardsOwnedStep, Inductive, PTL DEF Spec

-----------------------------------------------------------------------------
(* Cards, with one thread in the pool, one session per card and devices    *)
(* that remove no card.                                                    *)

NoRemovals == "uncard" \notin Requests

Owns(c, k) == AddedBy(c, k, Len(journal[c]))

\* No card has a row in two journals, and all_loy_cards_map has the session of
\* every row written or replayed.
Owners ==
  /\ \A c \in CartIds : \A n \in 1..Len(journal[c]) : journal[c][n].kind # "LV"
  /\ \A k \in Cards : \A c, d \in CartIds : Owns(c, k) /\ Owns(d, k) => c = d
  /\ phase = "up" => \A k \in Cards : \A c \in CartIds : Owns(c, k) => registry[k] = c
  /\ phase = "loading" => \A k \in Cards :
       /\ \A c \in sessions \ {loading.cart} : Owns(c, k) => registry[k] = c
       /\ loading # NotLoading /\ AddedBy(loading.cart, k, loading.row)
            => registry[k] = loading.cart
  /\ phase = "up" => \A t \in Threads :
       job[t].pc = "register" => registry[job[t].row.card] = NoOwner

\* A step of a request of the only thread, which may write a row.
LEMMA RequestOwners ==
  ASSUME OneThread, IndInv, Owners, phase = "up", phase' = "up",
         NEW t \in Threads, NEW j, Goto(t, j),
         j.pc = "register" => registry'[j.row.card] = NoOwner,
         NEW c \in CartIds, NEW row \in Rows, row.kind # "LV",
         journal' = journal \/ journal' = [journal EXCEPT ![c] = Append(@, row)],
         \/ row.kind # "LA" /\ registry' = registry
         \/ /\ row.kind = "LA" /\ registry[row.card] = NoOwner
            /\ registry' = [registry EXCEPT ![row.card] = c]
  PROVE  Owners'
<1>1. /\ journal \in [CartIds -> Seq(Rows)] /\ registry \in [Cards -> CartIds \cup {NoOwner}]
      /\ NoOwner \notin CartIds
  BY DEF IndInv, Base, TypeOK, NoOwner, CartIds
<1>2. \A u \in Threads : job'[u] = j
  BY DEF OneThread, IndInv, Base, TypeOK, Goto
<1>3. ASSUME NEW d \in CartIds, NEW n \in 1..Len(journal'[d])
      PROVE  (n \in 1..Len(journal[d]) /\ journal'[d][n] = journal[d][n])
             \/ (d = c /\ journal'[d][n] = row)
  <2>1. journal'[d] = journal[d] \/ (d = c /\ journal'[d] = Append(journal[d], row))
    BY <1>1
  <2>2. journal[d] \in Seq(Rows)
    BY <1>1
  <2>3. CASE journal'[d] = journal[d]
    BY <2>3
  <2>4. CASE d = c /\ journal'[d] = Append(journal[d], row)
    <3>1. n \in 1..(Len(journal[d]) + 1)
      BY <2>2, <2>4, AppendFacts
    <3>2. n \in 1..Len(journal[d]) \/ n = Len(journal[d]) + 1
      BY <2>2, <3>1
    <3> QED BY <2>2, <2>4, <3>2, AppendFacts
  <2> QED BY <2>1, <2>3, <2>4
<1>4. ASSUME NEW d \in CartIds, NEW n \in 1..Len(journal'[d])
      PROVE  journal'[d][n].kind # "LV"
  BY <1>3 DEF Owners
<1>5. ASSUME NEW k \in Cards, NEW d \in CartIds, Owns(d, k)'
      PROVE  registry'[k] = d
  <2>1. PICK n \in 1..Len(journal'[d]) : journal'[d][n] = RowLA(k)
    BY <1>5 DEF Owns, AddedBy
  <2>2. Owns(d, k) \/ (d = c /\ row = RowLA(k))
    BY <1>3, <2>1 DEF Owns, AddedBy
  <2>3. Owns(d, k) => registry[k] = d
    BY DEF Owners
  <2>4. row = RowLA(k) => row.kind = "LA" /\ row.card = k
    BY DEF RowLA
  <2>5. CASE row.kind # "LA"
    BY <2>2, <2>3, <2>4, <2>5
  <2>6. CASE row.kind = "LA"
    <3>1. registry[row.card] = NoOwner /\ registry' = [registry EXCEPT ![row.card] = c]
      BY <2>6
    <3> QED BY <1>1, <2>2, <2>3, <2>4, <3>1
  <2> QED BY <2>5, <2>6
<1>6. \A k \in Cards : \A d, e \in CartIds : Owns(d, k)' /\ Owns(e, k)' => d = e
  BY <1>5
<1>7. \A u \in Threads : job'[u].pc = "register" => registry'[job'[u].row.card] = NoOwner
  BY <1>2
<1> QED BY <1>4, <1>5, <1>6, <1>7 DEF Owners

\* ... which may also write none.
LEMMA QuietOwners ==
  ASSUME OneThread, IndInv, Owners, phase = "up", phase' = "up",
         NEW t \in Threads, NEW j, Goto(t, j),
         j.pc = "register" => registry'[j.row.card] = NoOwner,
         UNCHANGED <<journal, registry>>
  PROVE  Owners'
<1>1. \A u \in Threads : job'[u] = j
  BY DEF OneThread, IndInv, Base, TypeOK, Goto
<1> QED BY <1>1 DEF Owners, Owns, AddedBy

\* Every step of a request.
LEMMA WorkOwners ==
  ASSUME OneThread, NoRemovals, OnlyOneSession, IndInv, Owners, NEW t \in Threads,
         Start(t) \/ Continue(t)
  PROVE  Owners'
<1>1. phase = "up" /\ phase' = "up" /\ (registry' = registry \/ Register(t))
  BY WorkIsLive
<1>2. PICK j, d : Touches(t, j, d)
  BY StartTouches, ContinueTouches
<1>3. Goto(t, j) /\ (j.pc = "register" => registry'[j.row.card] = NoOwner)
  BY <1>2 DEF Touches, MayRegister
<1>4. CASE ~Register(t)
  <2>1. CASE UNCHANGED <<journal, image>>
    BY <1>1, <1>3, <1>4, <2>1, QuietOwners
  <2>2. ASSUME NEW c \in sessions, NEW row \in Rows, NEW kept, Grows(c, row, kept),
               row.kind \notin {"LA", "LV"}
        PROVE  Owners'
    <3>1. c \in CartIds
      BY DEF IndInv, Base, TypeOK
    <3> QED BY <1>1, <1>3, <1>4, <2>2, <3>1, RequestOwners DEF Grows
  <2> QED BY <1>4, <2>1, <2>2, StartRow, ContinueRow DEF WritesRow, NoRemovals
<1>5. CASE Register(t)
  <2>1. PICK c, k : c = job[t].cart /\ k = job[t].row.card
    OBVIOUS
  <2>2. job[t].pc = "register" /\ job[t].pc \notin Numbering
    BY <1>5 DEF Register, Numbering
  <2>3. c \in CartIds /\ job[t] \in Job /\ JobFits(job[t])
    BY <1>1, <2>1, <2>2, AtWork
  <2>4. k \in Cards
    <3>1. job[t].row.kind = "LA" /\ job[t].row \in Rows
      BY <2>2, <2>3 DEF JobFits, Job, NoRow
    <3> QED BY <2>1, <3>1, RowKinds
  <2>5. registry[k] = NoOwner
    BY <1>1, <2>1, <2>2 DEF Owners
  <2>6. /\ registry' = [registry EXCEPT ![k] = c] /\ Goto(t, Idle)
        /\ \/ journal' = journal
           \/ journal' = [journal EXCEPT ![c] = Append(@, RowLA(k))]
    BY <1>5, <2>1 DEF Register, Store, Written, NothingWritten, Reply
  <2>7. RowLA(k) \in Rows
    BY <2>4, RowsType
  <2> QED BY <1>1, <2>3, <2>4, <2>5, <2>6, <2>7, IdleFits, RowKindFacts, RequestOwners
<1> QED BY <1>4, <1>5

\* Nothing is written to a journal while the process restarts.
LEMMA RestartOwners ==
  ASSUME IndInv, Owners, Crash \/ Restart
  PROVE  Owners'
<1>1. /\ sessions \subseteq CartIds /\ CartIds \subseteq Nat /\ 0 \notin CartIds
      /\ journal \in [CartIds -> Seq(Rows)]
      /\ registry \in [Cards -> CartIds \cup {NoOwner}] /\ loading.row \in Nat
  BY DEF IndInv, Base, TypeOK, CartIds
<1>2. journal' = journal
  BY DEF Crash, Restart, Boot, LoadFile, LoadRow, FinishFile, FinishBoot, storage
<1>3. /\ \A c \in CartIds : \A n \in 1..Len(journal'[c]) : journal'[c][n].kind # "LV"
      /\ \A k \in Cards : \A c, d \in CartIds : Owns(c, k)' /\ Owns(d, k)' => c = d
      /\ \A k \in Cards : \A c \in CartIds : Owns(c, k)' <=> Owns(c, k)
  BY <1>2 DEF Owners, Owns, AddedBy
<1>4. CASE Crash
  <2>1. phase' = "down"
    BY <1>4 DEF Crash
  <2> QED BY <1>3, <2>1 DEF Owners
<1>5. CASE Boot
  <2>1. phase' = "loading" /\ sessions' = {} /\ loading' = NotLoading
    BY <1>5 DEF Boot, IndInv, Base, WellFormed
  <2> QED BY <1>3, <2>1 DEF Owners
<1>6. CASE LoadFile
  <2>1. /\ phase = "loading" /\ phase' = "loading" /\ registry' = registry
        /\ loading.cart = 0 /\ loading'.row = 0
        /\ \E c \in pending : sessions' = sessions \cup {c} /\ loading'.cart = c
    BY <1>6 DEF LoadFile, NotLoading
  <2>2. \A k \in Cards : ~AddedBy(loading.cart, k, loading.row)'
    BY <2>1 DEF AddedBy
  <2>3. \A k \in Cards : \A c \in (sessions \ {loading.cart})' : Owns(c, k)' => registry'[k] = c
    <3>1. \A c \in (sessions \ {loading.cart})' : c \in sessions \ {loading.cart} /\ c \in CartIds
      BY <1>1, <2>1
    <3> QED BY <1>3, <2>1, <3>1 DEF Owners
  <2> QED BY <1>3, <2>1, <2>2, <2>3 DEF Owners
<1>7. CASE LoadRow
  <2> DEFINE c == loading.cart
             n == loading.row + 1
             row == journal[c][n]
  <2>1. /\ phase = "loading" /\ phase' = "loading" /\ loading # NotLoading
        /\ sessions' = sessions /\ loading.row < Len(journal[c])
        /\ loading'.cart = c /\ loading'.row = n
        /\ registry' = ReplayRegistry(registry, c, row)
    BY <1>7 DEF LoadRow, IndInv, Base, TypeOK
  <2>2. c \in CartIds /\ journal[c] \in Seq(Rows) /\ n \in 1..Len(journal[c]) /\ row \in Rows
    <3>1. c \in sessions
      BY <2>1 DEF IndInv, Base, WellFormed
    <3>2. c \in CartIds /\ journal[c] \in Seq(Rows)
      BY <1>1, <3>1
    <3> QED BY <1>1, <2>1, <3>2
  <2>3. row.kind # "LV"
    BY <2>2 DEF Owners
  <2>4. \A k \in Cards : (AddedBy(c, k, n) <=> AddedBy(c, k, loading.row) \/ row = RowLA(k))
    <3>1. \A m : m \in 1..n <=> m \in 1..loading.row \/ m = n
      BY <1>1
    <3> QED BY <3>1 DEF AddedBy
  <2>5. row.kind = "LA" => row.card \in Cards /\ row = RowLA(row.card) /\ Owns(c, row.card)
    <3>1. row.kind = "LA" => row.card \in Cards /\ row = RowLA(row.card)
      BY <2>2 DEF Rows, RowKD, RowKI, RowIA, RowIV, RowLA, RowLV, RowCV
    <3> QED BY <2>2, <3>1 DEF Owns, AddedBy
  <2>6. \/ row.kind # "LA" /\ registry' = registry
        \/ row.kind = "LA" /\ registry' = [registry EXCEPT ![row.card] = c]
    BY <2>1, <2>3 DEF ReplayRegistry
  <2>7. \A k \in Cards : row = RowLA(k) => row.kind = "LA" /\ row.card = k
    BY DEF RowLA
  <2>9. ASSUME NEW k \in Cards, AddedBy(c, k, n)
        PROVE  registry'[k] = c
    <3> HIDE DEF c, n, row
    <3>1. AddedBy(c, k, loading.row) => registry[k] = c
      BY <2>1 DEF Owners, c
    <3> QED BY <1>1, <2>4, <2>5, <2>6, <2>7, <2>9, <3>1
  <2>10. ASSUME NEW k \in Cards, NEW d \in sessions \ {c}, Owns(d, k)
         PROVE  registry'[k] = d
    <3>1. registry[k] = d /\ d \in CartIds
      BY <1>1, <2>1, <2>10 DEF Owners
    <3>2. row.kind = "LA" => row.card # k
      <4> HIDE DEF c, n, row
      <4> QED BY <2>2, <2>5, <2>10, <3>1 DEF Owners
    <3> HIDE DEF c, n, row
    <3> QED BY <1>1, <2>5, <2>6, <3>1, <3>2
  <2>11. \A k \in Cards : AddedBy(loading.cart, k, loading.row)' <=> AddedBy(c, k, n)
    BY <1>2, <2>1 DEF AddedBy
  <2>12. \A k \in Cards : \A d \in (sessions \ {loading.cart})' : Owns(d, k)' => registry'[k] = d
    <3>1. (sessions \ {loading.cart})' = sessions \ {c}
      BY <2>1
    <3>2. \A d \in sessions \ {c} : d \in CartIds
      BY <1>1
    <3> HIDE DEF c, n, row
    <3> QED BY <1>3, <2>10, <3>1, <3>2
  <2>13. loading'.cart = c
    BY <2>1
  <2> HIDE DEF c, n, row
  <2> QED BY <1>3, <2>1, <2>9, <2>11, <2>12, <2>13 DEF Owners
<1>8. CASE FinishFile
  <2>1. /\ phase = "loading" /\ phase' = "loading" /\ sessions' = sessions
        /\ registry' = registry /\ loading # NotLoading /\ loading' = NotLoading
        /\ loading.row = Len(journal[loading.cart])
    BY <1>8 DEF FinishFile
  <2>2. ASSUME NEW k \in Cards, NEW c \in sessions, Owns(c, k)
        PROVE  registry[k] = c
    <3>1. CASE c = loading.cart
      <4>1. AddedBy(loading.cart, k, loading.row)
        BY <2>1, <2>2, <3>1 DEF Owns
      <4> QED BY <2>1, <3>1, <4>1 DEF Owners
    <3>2. CASE c # loading.cart
      BY <2>1, <2>2, <3>2 DEF Owners
    <3> QED BY <3>1, <3>2
  <2>3. \A k \in Cards : \A c \in sessions : Owns(c, k)' => registry'[k] = c
    BY <1>1, <1>3, <2>1, <2>2
  <2> QED BY <1>3, <2>1, <2>3 DEF Owners
<1>9. CASE FinishBoot
  <2>1. /\ phase = "loading" /\ phase' = "up" /\ loading.cart = 0 /\ files = sessions
        /\ UNCHANGED <<job, registry>>
    BY <1>9 DEF FinishBoot, IndInv, Base, WellFormed, NotLoading, memory, storage
  <2>2. \A t \in Threads : job'[t].pc # "register"
    BY <2>1 DEF IndInv, Base, WellFormed, Idle
  <2>3. ASSUME NEW k \in Cards, NEW c \in CartIds, Owns(c, k)
        PROVE  registry[k] = c
    <3>1. c \in sessions
      <4>1. journal[c] # << >>
        BY <1>1, <2>3 DEF Owns, AddedBy
      <4> QED BY <2>1, <4>1 DEF IndInv, Base, WellFormed
    <3> QED BY <1>1, <2>1, <2>3, <3>1 DEF Owners
  <2>4. \A k \in Cards : \A c \in CartIds : Owns(c, k)' => registry'[k] = c
    BY <1>3, <2>1, <2>3
  <2> QED BY <1>3, <2>1, <2>2, <2>4 DEF Owners
<1> QED BY <1>4, <1>5, <1>6, <1>7, <1>8, <1>9 DEF Restart

LEMMA OwnersStep ==
  ASSUME OneThread, NoRemovals, OnlyOneSession, Owners, IndInv, [Next]_vars
  PROVE  Owners'
<1>1. CASE ApplyVariation \/ DumpItems \/ UNCHANGED vars
  <2>1. UNCHANGED <<phase, sessions, registry, journal, job, loading>>
    BY <1>1 DEF ApplyVariation, DumpItems, memory, storage, vars
  <2> QED BY <2>1 DEF Owners, Owns, AddedBy
<1> QED BY <1>1, WorkOwners, RestartOwners DEF Next

LEMMA OwnersHold ==
  ASSUME OneThread, NoRemovals
  PROVE  Spec => [](OnlyOneSession => Owners)
<1>1. Init => Owners
  BY DEF Init, Owners, Owns, AddedBy
<1>2. (OnlyOneSession => Owners) /\ IndInv /\ [Next]_vars => (OnlyOneSession => Owners')
  BY OwnersStep
<1>3. (OnlyOneSession => Owners') => (OnlyOneSession => Owners)'
  OBVIOUS
<1> QED BY <1>1, <1>2, <1>3, Inductive, PTL DEF Spec

\* A card a session holds has a row in its journal.
LEMMA HeldCardsAreOwned ==
  ASSUME IndInv, CardsOwned, phase = "up", NEW c \in sessions, NEW k \in CardsIn(carts[c].loy)
  PROVE  c \in CartIds /\ k \in Cards /\ Owns(c, k)
<1>1. c \in CartIds /\ carts[c].loy \in Loy /\ loading.cart # c
  BY DEF IndInv, Base, TypeOK, CartRecord, WellFormed, NotLoading, CartIds
<1>2. k \in Cards
  BY <1>1, CardsAreFinite
<1> QED BY <1>1, <1>2 DEF CardsOwned, Owns, RowsIn

\* With one thread and no removals the registry does what it is for, across
\* restarts too: a card is in one session at most.  With more threads, or with
\* removals and restarts, it is not so: see the runs that find it.
THEOREM CardsAreNotShared ==
  ASSUME OneThread, NoRemovals
  PROVE  Spec => []OneSessionPerCard
<1>1. IndInv /\ CardsOwned /\ (OnlyOneSession => Owners) => OneSessionPerCard
  <2> SUFFICES ASSUME IndInv, CardsOwned, Owners, phase = "up", NEW c \in sessions, NEW d \in sessions,
                      NEW k \in CardsIn(carts[c].loy) \cap CardsIn(carts[d].loy)
               PROVE  c = d
    BY DEF OneSessionPerCard
  <2>1. k \in Cards /\ c \in CartIds /\ d \in CartIds /\ Owns(c, k) /\ Owns(d, k)
    BY HeldCardsAreOwned
  <2> QED BY <2>1 DEF Owners
<1> QED BY <1>1, Inductive, CardsOwnedHold, OwnersHold, PTL

\* ... because all_loy_cards_map has that session.
THEOREM CardsAreRegistered ==
  ASSUME OneThread, NoRemovals
  PROVE  Spec => []HeldCardsAreRegistered
<1>1. IndInv /\ CardsOwned /\ (OnlyOneSession => Owners) => HeldCardsAreRegistered
  <2> SUFFICES ASSUME IndInv, CardsOwned, Owners, phase = "up", NEW c \in sessions,
                      NEW k \in CardsIn(carts[c].loy)
               PROVE  registry[k] = c
    BY DEF HeldCardsAreRegistered
  <2>1. k \in Cards /\ c \in CartIds /\ Owns(c, k)
    BY HeldCardsAreOwned
  <2> QED BY <2>1 DEF Owners
<1> QED BY <1>1, Inductive, CardsOwnedHold, OwnersHold, PTL

-----------------------------------------------------------------------------
(* The store the devices see: every step of the threads, of a crash or of  *)
(* a restart is one step of SessionStore, or none, if the requests of a    *)
(* session come one at a time.  What a session holds is then at every      *)
(* instant what its last row says; so only a step that writes a row shows, *)
(* and shows as the effect of that row.                                    *)

LEMMA ContentIsLatest ==
  ASSUME IndInv, OneAtATime, NEW c \in CartIds
  PROVE  Content(c) = Latest(c)
<1>1. CASE phase = "up" /\ c \in sessions
  <2>1. c # loading.cart
    BY <1>1 DEF IndInv, Base, WellFormed, NotLoading, CartIds
  <2> QED BY <1>1, <2>1 DEF IndInv, Accounts, SessionsAreJournalled, Content, Latest
<1> QED BY <1>1 DEF Content

LEMMA ContentIsLatestNext ==
  ASSUME IndInv', OneAtATime, NEW c \in CartIds
  PROVE  Content(c)' = Latest(c)'
<1>1. CASE phase' = "up" /\ c \in sessions'
  <2>1. c # loading'.cart
    BY <1>1 DEF IndInv, Base, WellFormed, NotLoading, CartIds
  <2> QED BY <1>1, <2>1 DEF IndInv, Accounts, SessionsAreJournalled, Content, Latest, KeptAt,
                            Settled
<1> QED BY <1>1 DEF Content, Latest, KeptAt

\* The change of one session that SessionStore allows.
SameBut(old, new, field) ==
  /\ field # "voided" => new.voided = old.voided
  /\ field # "units" => new.goods.items = old.goods.items
  /\ field # "cards" => CardsIn(new.loy) = CardsIn(old.loy)
  /\ field \notin {"voided", "shown"} => new.local = old.local

CardAdded(old, new, k) ==
  /\ k \notin CardsIn(old) /\ Cardinality(CardsIn(old)) < MaxCards
  /\ \E lost \in SUBSET CardsIn(old) :
       (\A a, b \in lost : a = b) /\ CardsIn(new) = (CardsIn(old) \ lost) \cup {k}

Promised(old, new) ==
  /\ ~old.voided
  /\ \/ SameBut(old, new, "voided") /\ new.voided /\ new.local = NoCopies
     \/ /\ SameBut(old, new, "units")
        /\ \E i \in Items :
             \/ new.goods.items = [old.goods.items EXCEPT ![i] = @ + 1]
             \/ /\ old.goods.items[i] > 0
                /\ new.goods.items = [old.goods.items EXCEPT ![i] = @ - 1]
     \/ /\ SameBut(old, new, "shown")
        /\ \E i \in Items, p \in Prices :
             old.local[i] = NoCopy /\ new.local = [old.local EXCEPT ![i] = p]
     \/ /\ SameBut(old, new, "cards")
        /\ \E k \in Cards :
             \/ CardAdded(old.loy, new.loy, k)
             \/ k \in CardsIn(old.loy) /\ CardsIn(new.loy) = CardsIn(old.loy) \ {k}

\* addLoyCard adds the card, and drops the one whose slot it takes if any.
LEMMA PutCardAdds ==
  ASSUME NEW loy \in Loy, LoySound(loy), NEW k \in Cards, LoyRoom(loy, k)
  PROVE  CardAdded(loy, PutCard(loy, k), k)
<1> DEFINE n == loy.number
           new == PutCard(loy, k)
           lost == {loy.slots[n]} \ {NoCard}
<1>1. /\ new.slots = [loy.slots EXCEPT ![n] = k]
      /\ n < MaxCards /\ k \notin CardsIn(loy)
  BY DEF PutCard, LoyRoom
<1>2. /\ Cardinality(CardsIn(loy)) \in Nat /\ n \in Int
      /\ loy.slots \in [0..MaxCards -> Cards \cup {NoCard}]
  BY CardsAreFinite DEF Loy
<1>3. Cardinality(CardsIn(loy)) <= n /\ n \in 0..MaxCards
  BY <1>1, <1>2, MaxCardsType DEF LoySound
<1>4. Cardinality(CardsIn(loy)) < MaxCards
  BY <1>1, <1>2, <1>3, MaxCardsType
<1>5. \A s \in 0..MaxCards : new.slots[s] = IF s = n THEN k ELSE loy.slots[s]
  BY <1>1, <1>2
<1>6. \A s \in 0..MaxCards : s # n /\ loy.slots[s] # NoCard => loy.slots[s] # loy.slots[n]
  BY <1>3 DEF LoySound
<1>7. lost \in SUBSET CardsIn(loy) /\ \A a, b \in lost : a = b
  BY <1>3 DEF CardsIn
<1> HIDE DEF n, new
<1>8. CardsIn(new) = (CardsIn(loy) \ lost) \cup {k}
  BY <1>3, <1>5, <1>6, MaxCardsType DEF CardsIn
<1> HIDE DEF lost
<1>9. CardAdded(loy, new, k)
  BY <1>1, <1>4, <1>7, <1>8 DEF CardAdded
<1> QED BY <1>9 DEF new

LEMMA TakeCardRemoves ==
  ASSUME NEW loy \in Loy, NEW k \in CardsIn(loy)
  PROVE  CardsIn(TakeCard(loy, k)) = CardsIn(loy) \ {k}
<1>1. \A s \in 0..MaxCards :
        TakeCard(loy, k).slots[s] = IF loy.slots[s] = k THEN NoCard ELSE loy.slots[s]
  BY DEF TakeCard
<1> QED BY <1>1 DEF CardsIn

\* Every row does to a session what some request promises, or nothing.
LEMMA EffectIsPromised ==
  ASSUME NEW kept \in KeptRecord, LoySound(kept.loy), NEW row \in Rows,
         NEW new, new = Effect(kept, row)
  PROVE  new = kept \/ Promised(kept, new)
<1>1. /\ kept.goods \in Goods /\ kept.loy \in Loy /\ kept.local \in [Items -> Prices \cup {NoCopy}]
      /\ kept.goods.items \in [Items -> Nat]
  BY DEF KeptRecord, Goods, Copies
<1>2. CASE kept.voided
  BY <1>2 DEF Effect
<1>3. ASSUME ~kept.voided, row.kind = "IA"
      PROVE  Promised(kept, new)
  <2>1. row.barcode \in Barcodes /\ ItemOf[row.barcode] \in Items
    BY <1>3, RowKinds, CartAssumption DEF KnownBarcodes
  <2>2. new = [kept EXCEPT !.goods = PutGoods(@, ItemOf[row.barcode], row.barcode)]
    BY <1>3 DEF Effect
  <2>3. new.goods.items = [kept.goods.items EXCEPT ![ItemOf[row.barcode]] = @ + 1]
    BY <2>2 DEF PutGoods, KeptRecord
  <2>4. SameBut(kept, new, "units")
    BY <2>2 DEF SameBut, KeptRecord
  <2> QED BY <1>3, <2>1, <2>3, <2>4 DEF Promised
<1>4. ASSUME ~kept.voided, row.kind = "IV", kept.goods.items[ItemOf[row.barcode]] > 0
      PROVE  Promised(kept, new)
  <2> DEFINE i == ItemOf[row.barcode]
  <2>1. row.barcode \in Barcodes /\ i \in Items
    BY <1>4, RowKinds, CartAssumption DEF KnownBarcodes
  <2>2. new = [kept EXCEPT !.goods = TakeGoods(@, i, row.barcode)]
    BY <1>4 DEF Effect
  <2>3. new.goods.items = [kept.goods.items EXCEPT ![i] = Erased(@)]
    BY <2>2 DEF TakeGoods, KeptRecord
  <2>4. Erased(kept.goods.items[i]) = kept.goods.items[i] - 1
    BY <1>1, <1>4, <2>1 DEF Erased
  <2>5. SameBut(kept, new, "units")
    BY <2>2 DEF SameBut, KeptRecord
  <2>6. new.goods.items = [kept.goods.items EXCEPT ![i] = @ - 1]
    BY <2>3, <2>4
  <2> QED BY <1>4, <2>1, <2>5, <2>6 DEF Promised
<1>5. ASSUME ~kept.voided, row.kind = "LA", LoyRoom(kept.loy, row.card)
      PROVE  Promised(kept, new)
  <2>1. row.card \in Cards
    BY <1>5, RowKinds
  <2>2. new = [kept EXCEPT !.loy = PutCard(@, row.card)]
    BY <1>5 DEF Effect
  <2>3. new.loy = PutCard(kept.loy, row.card) /\ SameBut(kept, new, "cards")
    BY <2>2 DEF SameBut, KeptRecord
  <2>4. CardAdded(kept.loy, new.loy, row.card)
    BY <1>1, <1>5, <2>1, <2>3, PutCardAdds
  <2> QED BY <1>5, <2>1, <2>3, <2>4 DEF Promised
<1>6. ASSUME ~kept.voided, row.kind = "LV", row.card \in CardsIn(kept.loy)
      PROVE  Promised(kept, new)
  <2>1. row.card \in Cards
    BY <1>6 DEF Rows, RowKD, RowKI, RowIA, RowIV, RowLA, RowLV, RowCV
  <2>2. new = [kept EXCEPT !.loy = TakeCard(@, row.card)]
    BY <1>6 DEF Effect
  <2>3. new.loy = TakeCard(kept.loy, row.card) /\ SameBut(kept, new, "cards")
    BY <2>2 DEF SameBut, KeptRecord
  <2>4. CardsIn(new.loy) = CardsIn(kept.loy) \ {row.card}
    BY <1>1, <1>6, <2>3, TakeCardRemoves
  <2> QED BY <1>6, <2>1, <2>3, <2>4 DEF Promised
<1>7. ASSUME ~kept.voided, row.kind = "KI", ~PriceChanges, kept.local[row.item] = NoCopy
      PROVE  Promised(kept, new)
  <2>1. row.item \in Items /\ row.price \in Prices
    BY <1>7 DEF Rows, RowKD, RowKI, RowIA, RowIV, RowLA, RowLV, RowCV
  <2>2. new = [kept EXCEPT !.local = KeepCopy(@, row.item, row.price)]
    BY <1>7 DEF Effect
  <2>3. /\ new.local = [kept.local EXCEPT ![row.item] = row.price]
        /\ SameBut(kept, new, "shown")
    BY <1>7, <2>2 DEF SameBut, KeptRecord, KeepCopy
  <2> QED BY <1>7, <2>1, <2>3 DEF Promised
<1>8. ASSUME ~kept.voided, row.kind = "CV"
      PROVE  Promised(kept, new)
  <2>1. new = [kept EXCEPT !.voided = TRUE, !.local = NoCopies]
    BY <1>8 DEF Effect
  <2>2. new.voided /\ new.local = NoCopies /\ SameBut(kept, new, "voided")
    BY <2>1 DEF SameBut, KeptRecord
  <2> QED BY <1>8, <2>2 DEF Promised
<1>9. CASE /\ ~kept.voided
           /\ \/ row.kind \notin {"IA", "IV", "LA", "LV", "KI", "CV"}
              \/ row.kind = "IV" /\ ~(kept.goods.items[ItemOf[row.barcode]] > 0)
              \/ row.kind = "LA" /\ ~LoyRoom(kept.loy, row.card)
              \/ row.kind = "LV" /\ row.card \notin CardsIn(kept.loy)
              \/ row.kind = "KI" /\ (PriceChanges \/ kept.local[row.item] # NoCopy)
  BY <1>9 DEF Effect, PutCard, TakeCard, KeepCopy, KeptRecord
<1> QED BY <1>2, <1>3, <1>4, <1>5, <1>6, <1>7, <1>8, <1>9

\* The cards of what a session kept at any row are sound too.
LEMMA EffectSound ==
  ASSUME NEW kept \in KeptRecord, LoySound(kept.loy), NEW row \in Rows
  PROVE  LoySound(Effect(kept, row).loy)
<1> DEFINE new == Effect(kept, row).loy
<1>1. \/ new = kept.loy
      \/ row.kind = "LA" /\ new = PutCard(kept.loy, row.card)
      \/ row.kind = "LV" /\ new = TakeCard(kept.loy, row.card)
  BY DEF Effect, KeptRecord
<1>2. kept.loy \in Loy
  BY DEF KeptRecord
<1>3. row.kind \in {"LA", "LV"} => row.card \in Cards
  BY DEF Rows, RowKD, RowKI, RowIA, RowIV, RowLA, RowLV, RowCV
<1> HIDE DEF new
<1>4. LoySound(new)
  BY <1>1, <1>2, <1>3, PutCardSound, TakeCardSound
<1> QED BY <1>4 DEF new

History ==
  OneAtATime => \A c \in CartIds : \A n \in 1..Len(image[c]) : LoySound(image[c][n].loy)

LEMMA HistoryInit == Init => History
<1> SUFFICES ASSUME Init, NEW c \in CartIds, NEW n \in 1..Len(image[c])
             PROVE  LoySound(image[c][n].loy)
  BY DEF History
<1>1. image[c] = <<Kept(NewCart("ready"))>>
  BY DEF Init
<1>2. n = 1 /\ image[c][1] = Kept(NewCart("ready"))
  BY <1>1, OneElement
<1>3. Kept(NewCart("ready")).loy = NoLoy
  BY DEF Kept, NewCart
<1> QED BY <1>2, <1>3, FreshLoySound

\* A row that is written, among the rows before it.
LEMMA RowIsLast ==
  ASSUME IndInv, IndInv', OneAtATime, NEW c \in CartIds, NEW row \in Rows, NEW kept,
         Grows(c, row, kept)
  PROVE  LET m == Len(image[c])
         IN /\ m \in Nat /\ m \in 1..m /\ Len(image'[c]) = m + 1
            /\ \A n \in 1..m : image'[c][n] = image[c][n]
            /\ Latest(c) = image[c][m] /\ Latest(c)' = image'[c][m + 1]
            /\ image[c][m] \in KeptRecord /\ image'[c][m + 1] \in KeptRecord
            /\ image'[c][m + 1] = Effect(image[c][m], row)
            /\ journal'[c] # journal[c] /\ journal'[c] # << >>
            /\ \A d \in CartIds \ {c} : Latest(d)' = Latest(d) /\ image'[d] = image[d]
<1> DEFINE m == Len(image[c])
<1>1. /\ image[c] \in Seq(KeptRecord) /\ image'[c] \in Seq(KeptRecord)
      /\ image'[c] = Append(image[c], kept) /\ journal'[c] = Append(journal[c], row)
      /\ journal[c] \in Seq(Rows) /\ m = Len(journal[c]) + 1
  BY DEF IndInv, Base, TypeOK, Grows, Accounts, JournalAccounts
<1> HIDE DEF m
<1>a. m \in Nat /\ m \in 1..m /\ Len(journal[c]) \in Nat /\ Len(journal[c]) + 1 = m
  <2>1. Len(journal[c]) \in Nat
    BY <1>1
  <2> QED BY <2>1, <1>1
<1>b. Len(journal'[c]) = m /\ journal'[c][m] = row
  BY <1>1, <1>a, AppendFacts
<1>c. Len(image'[c]) = m + 1
  <2>1. Len(Append(image[c], kept)) = Len(image[c]) + 1
    BY <1>1
  <2> QED BY <2>1, <1>1 DEF m
<1>d. \A n \in 1..m : image'[c][n] = image[c][n]
  <2>1. \A n \in 1..Len(image[c]) : Append(image[c], kept)[n] = image[c][n]
    BY <1>1
  <2> QED BY <2>1, <1>1 DEF m
<1>e. image[c][m] \in KeptRecord
  <2>1. \A n \in 1..Len(image[c]) : image[c][n] \in KeptRecord
    BY <1>1
  <2> QED BY <2>1, <1>a DEF m
<1>f. image'[c][m + 1] \in KeptRecord
  <2>1. \A n \in 1..Len(image'[c]) : image'[c][n] \in KeptRecord
    BY <1>1
  <2>2. m + 1 \in 1..Len(image'[c])
    BY <1>a, <1>c
  <2> QED BY <2>1, <2>2
<1>2. /\ m \in Nat /\ m \in 1..m /\ Len(image'[c]) = m + 1 /\ Len(journal[c]) + 1 = m
      /\ Len(journal'[c]) = m /\ journal'[c][m] = row
      /\ \A n \in 1..m : image'[c][n] = image[c][n]
      /\ image[c][m] \in KeptRecord /\ image'[c][m + 1] \in KeptRecord
  BY <1>a, <1>b, <1>c, <1>d, <1>e, <1>f
<1>3. JournalAccounts'
  BY DEF IndInv, Accounts
<1>4. image'[c][m + 1] = Effect(image'[c][m], journal'[c][m])
  BY <1>2, <1>3 DEF JournalAccounts
<1>5. Latest(c) = image[c][m] /\ Latest(c)' = image'[c][m + 1]
  BY <1>2 DEF Latest, KeptAt
<1>6. \A d \in CartIds \ {c} : Latest(d)' = Latest(d) /\ image'[d] = image[d]
  BY DEF Latest, KeptAt, Grows, IndInv, Base, TypeOK
<1>7. journal'[c] # journal[c] /\ journal'[c] # << >>
  <2>1. Len(journal'[c]) # Len(journal[c]) /\ Len(journal'[c]) # 0
    BY <1>2, <1>1
  <2> QED BY <2>1
<1>8. image'[c][m + 1] = Effect(image[c][m], row)
  BY <1>2, <1>4
<1> QED BY <1>2, <1>5, <1>6, <1>7, <1>8 DEF m

LEMMA HistoryStep ==
  ASSUME IndInv, IndInv', History, [Next]_vars
  PROVE  History'
<1> SUFFICES ASSUME OneAtATime, NEW c \in CartIds, NEW n \in 1..Len(image'[c])
             PROVE  LoySound(image'[c][n].loy)
  BY DEF History
<1>1. CASE image'[c] = image[c]
  BY <1>1 DEF History
<1>2. ASSUME NEW row \in Rows, NEW kept, Grows(c, row, kept)
      PROVE  LoySound(image'[c][n].loy)
  <2>1. PICK m : m = Len(image[c])
    OBVIOUS
  <2>2. /\ m \in Nat /\ m \in 1..m /\ Len(image'[c]) = m + 1
        /\ \A x \in 1..m : image'[c][x] = image[c][x]
        /\ image[c][m] \in KeptRecord /\ image'[c][m + 1] = Effect(image[c][m], row)
    BY <1>2, <2>1, RowIsLast
  <2>3. \A x \in 1..m : LoySound(image[c][x].loy)
    BY <2>1 DEF History
  <2>4. n \in 1..m \/ n = m + 1
    BY <2>2
  <2>5. LoySound(image'[c][m + 1].loy)
    BY <2>2, <2>3, EffectSound
  <2> QED BY <2>2, <2>3, <2>4, <2>5
<1>3. ASSUME NEW d \in CartIds, d # c, NEW row, NEW kept, Grows(d, row, kept)
      PROVE  image'[c] = image[c]
  BY <1>3 DEF Grows, IndInv, Base, TypeOK
<1>4. sessions \subseteq CartIds
  BY DEF IndInv, Base, TypeOK
<1> QED BY <1>1, <1>2, <1>3, <1>4, JournalGrows

LEMMA HistoryHolds == Spec => []History
  BY HistoryInit, HistoryStep, Inductive, PTL DEF Spec

\* Only newCart creates a file, and it writes no row.
LEMMA FilesStep ==
  ASSUME [Next]_vars
  PROVE  files' = files \/ \E t \in Threads : InsertCart(t)
<1> DEFINE Goal == files' = files \/ \E t \in Threads : InsertCart(t)
<1>1. ASSUME NEW t \in Threads, Start(t)
      PROVE  Goal
  BY <1>1 DEF Start, InitSession, Query, ItemAdd, ItemVoid, ItemRequest, CustomerAdd,
              CustomerVoid, SessionEnd, SessionVoid, OnlyRequestId, storage
<1>2. ASSUME NEW t \in Threads, Continue(t)
      PROVE  Goal
  <2>1. CASE InsertCart(t)
    BY <2>1
  <2>2. CASE ReadNumber(t) \/ WriteNumber(t) \/ CopyDepartment(t) \/ CopyItem(t) \/ KeepItem(t)
    BY <2>2 DEF ReadNumber, WriteNumber, CopyDepartment, CopyItem, KeepItem, storage
  <2>3. CASE Check(t) \/ Change(t) \/ WriteRow(t) \/ Follow(t)
    BY <2>3 DEF Check, Change, WriteRow, Follow, storage
  <2>4. CASE Register(t) \/ WriteHeader(t) \/ SendRows(t)
    BY <2>4 DEF Register, WriteHeader, SendRows, storage
  <2> QED BY <1>2, <2>1, <2>2, <2>3, <2>4 DEF Continue
<1>3. CASE ApplyVariation \/ DumpItems \/ Crash \/ Restart \/ UNCHANGED vars
  BY <1>3 DEF ApplyVariation, DumpItems, Crash, Restart, Boot, LoadFile, LoadRow, FinishFile,
              FinishBoot, storage, vars
<1> QED BY <1>1, <1>2, <1>3 DEF Next

\* One row changes one session, as promised; no other session changes.
LEMMA RowIsPromised ==
  ASSUME IndInv, IndInv', OneAtATime, History, [Next]_vars, NEW c \in CartIds, NEW row \in Rows,
         NEW kept, Grows(c, row, kept)
  PROVE  /\ c \in files /\ files' = files
         /\ \A d \in CartIds \ {c} : Latest(d)' = Latest(d)
         /\ Latest(c) \in KeptRecord /\ Latest(c)' \in KeptRecord
         /\ Latest(c)' = Latest(c) \/ Promised(Latest(c), Latest(c)')
<1>1. PICK m : m = Len(image[c])
  OBVIOUS
<1>2. /\ m \in 1..m /\ Latest(c) = image[c][m] /\ Latest(c)' = image'[c][m + 1]
      /\ image[c][m] \in KeptRecord /\ image'[c][m + 1] \in KeptRecord
      /\ image'[c][m + 1] = Effect(image[c][m], row)
      /\ journal'[c] # journal[c] /\ journal'[c] # << >>
      /\ \A d \in CartIds \ {c} : Latest(d)' = Latest(d)
  BY <1>1, RowIsLast
<1>3. LoySound(image[c][m].loy)
  BY <1>1, <1>2 DEF History
<1>4. Latest(c)' = Latest(c) \/ Promised(Latest(c), Latest(c)')
  BY <1>2, <1>3, EffectIsPromised
<1>5. c \in files /\ files' = files
  <2>1. ~\E t \in Threads : InsertCart(t)
    BY <1>2 DEF InsertCart
  <2>2. c \in files'
    BY <1>2 DEF IndInv, Base, WellFormed
  <2> QED BY <2>1, <2>2, FilesStep
<1> QED BY <1>2, <1>4, <1>5

\* A step of the store, or none, said of the contents before and after it.
LEMMA StepIsPromised ==
  ASSUME IndInv, IndInv', OneAtATime, History, [Next]_vars
  PROVE  Promise!Next \/ UNCHANGED <<files, Promise!contents>>
<1> DEFINE V == {c \in CartIds : Content(c).voided}
           U == [c \in CartIds |-> Content(c).goods.items]
           K == [c \in CartIds |-> CardsIn(Content(c).loy)]
           S == [c \in CartIds |-> Content(c).local]
<1>1. ASSUME \A c \in CartIds : Latest(c)' = Latest(c)
      PROVE  UNCHANGED <<V, U, K, S>>
  <2>1. \A c \in CartIds : Content(c)' = Content(c)
    BY <1>1, ContentIsLatest, ContentIsLatestNext
  <2> QED BY <2>1
<1>2. CASE UNCHANGED <<journal, image>>
  <2>1. \A c \in CartIds : Latest(c)' = Latest(c)
    BY <1>2 DEF Latest, KeptAt
  <2>2. UNCHANGED <<V, U, K, S>>
    BY <1>1, <2>1
  <2>3. CASE files' = files
    BY <2>2, <2>3 DEF Promise!contents
  <2>4. ASSUME NEW t \in Threads, InsertCart(t)
        PROVE  Promise!Next
    <3>1. job[t].cart \in CartIds /\ files' = files \cup {job[t].cart}
      BY <2>4 DEF InsertCart, IndInv, Base, WellFormed, JobFits
    <3>2. Promise!Open(job[t].cart)
      BY <2>2, <3>1 DEF Promise!Open, Promise!contents
    <3> QED BY <3>1, <3>2 DEF Promise!Next
  <2> QED BY <2>3, <2>4, FilesStep
<1>3. ASSUME NEW c \in CartIds, NEW row \in Rows, NEW kept, Grows(c, row, kept)
      PROVE  Promise!Next \/ UNCHANGED <<files, Promise!contents>>
  <2>1. /\ c \in files /\ files' = files
        /\ \A d \in CartIds \ {c} : Latest(d)' = Latest(d)
        /\ Latest(c) \in KeptRecord /\ Latest(c)' \in KeptRecord
        /\ Latest(c)' = Latest(c) \/ Promised(Latest(c), Latest(c)')
    BY <1>3, RowIsPromised
  <2>2. CASE Latest(c)' = Latest(c)
    <3>1. UNCHANGED <<V, U, K, S>>
      BY <1>1, <2>1, <2>2
    <3> QED BY <2>1, <3>1 DEF Promise!contents
  <2>3. ASSUME Promised(Latest(c), Latest(c)')
        PROVE  Promise!Next
    <3> DEFINE old == Content(c)
               new == Content(c)'
    <3>1. /\ Promised(old, new) /\ old \in KeptRecord /\ new \in KeptRecord
          /\ \A d \in CartIds \ {c} : Content(d)' = Content(d)
      BY <2>1, <2>3, ContentIsLatest, ContentIsLatestNext
    <3>2. new.voided = old.voided => V' = V
      BY <3>1
    <3>3. new.voided /\ ~old.voided => V' = V \cup {c}
      BY <3>1
    <3>4. U' = [U EXCEPT ![c] = new.goods.items] /\ U[c] = old.goods.items
      BY <3>1
    <3>5. K' = [K EXCEPT ![c] = CardsIn(new.loy)] /\ K[c] = CardsIn(old.loy)
      BY <3>1
    <3>6. S' = [S EXCEPT ![c] = new.local] /\ S[c] = old.local
      BY <3>1
    <3>7. old.goods.items = new.goods.items => U' = U
      BY <3>1
    <3>8. CardsIn(old.loy) = CardsIn(new.loy) => K' = K
      BY <3>1
    <3>9. old.local = new.local => S' = S
      BY <3>1
    <3>10. Promise!Live(c)
      BY <2>1, <3>1 DEF Promised, Promise!Live
    <3> HIDE DEF old, new
    <3>11. CASE SameBut(old, new, "voided") /\ new.voided /\ new.local = NoCopies
      <4>1. UNCHANGED <<U, K>> /\ V' = V \cup {c} /\ S' = [S EXCEPT ![c] = NoCopies]
        BY <3>1, <3>3, <3>6, <3>7, <3>8, <3>11 DEF SameBut, Promised
      <4>2. Promise!Void(c)
        BY <3>10, <4>1 DEF Promise!Void, Promise!Unseen, NoCopies
      <4> QED BY <4>2 DEF Promise!Next
    <3>12. ASSUME SameBut(old, new, "units"), NEW i \in Items,
                  new.goods.items = [old.goods.items EXCEPT ![i] = @ + 1]
           PROVE  Promise!Next
      <4>1. UNCHANGED <<V, K, S>> /\ U' = [U EXCEPT ![c][i] = @ + 1]
        BY <3>2, <3>4, <3>8, <3>9, <3>12 DEF SameBut
      <4>2. Promise!SellUnit(c, i)
        BY <3>10, <4>1 DEF Promise!SellUnit
      <4> QED BY <4>2 DEF Promise!Next
    <3>13. ASSUME SameBut(old, new, "units"), NEW i \in Items, old.goods.items[i] > 0,
                  new.goods.items = [old.goods.items EXCEPT ![i] = @ - 1]
           PROVE  Promise!Next
      <4>1. UNCHANGED <<V, K, S>> /\ U' = [U EXCEPT ![c][i] = @ - 1] /\ U[c][i] > 0
        BY <3>2, <3>4, <3>8, <3>9, <3>13 DEF SameBut
      <4>2. Promise!TakeBack(c, i)
        BY <3>10, <4>1 DEF Promise!TakeBack
      <4> QED BY <4>2 DEF Promise!Next
    <3>14. ASSUME SameBut(old, new, "shown"), NEW i \in Items, NEW p \in Prices,
                  old.local[i] = NoCopy, new.local = [old.local EXCEPT ![i] = p]
           PROVE  Promise!Next
      <4>1. UNCHANGED <<V, U, K>> /\ S' = [S EXCEPT ![c][i] = p] /\ S[c][i] = NoCopy
        BY <3>2, <3>6, <3>7, <3>8, <3>14 DEF SameBut
      <4>2. Promise!Show(c, i, p)
        BY <3>10, <4>1 DEF Promise!Show
      <4> QED BY <4>2 DEF Promise!Next
    <3>15. ASSUME SameBut(old, new, "cards"), NEW k \in Cards, CardAdded(old.loy, new.loy, k)
           PROVE  Promise!Next
      <4>1. PICK lost \in SUBSET CardsIn(old.loy) :
              /\ \A a, b \in lost : a = b
              /\ CardsIn(new.loy) = (CardsIn(old.loy) \ lost) \cup {k}
        BY <3>15 DEF CardAdded
      <4>2. /\ UNCHANGED <<V, U, S>> /\ K' = [K EXCEPT ![c] = (@ \ lost) \cup {k}]
            /\ lost \in SUBSET K[c] /\ k \notin K[c] /\ Cardinality(K[c]) < MaxCards
        BY <3>2, <3>5, <3>7, <3>9, <3>15, <4>1 DEF SameBut, CardAdded
      <4>3. Promise!AddCard(c, k)
        BY <3>10, <4>1, <4>2 DEF Promise!AddCard, Promise!Cardinality, Cardinality
      <4> QED BY <4>3 DEF Promise!Next
    <3>16. ASSUME SameBut(old, new, "cards"), NEW k \in Cards, k \in CardsIn(old.loy),
                  CardsIn(new.loy) = CardsIn(old.loy) \ {k}
           PROVE  Promise!Next
      <4>1. UNCHANGED <<V, U, S>> /\ K' = [K EXCEPT ![c] = @ \ {k}] /\ k \in K[c]
        BY <3>2, <3>5, <3>7, <3>9, <3>16 DEF SameBut
      <4>2. Promise!RemoveCard(c, k)
        BY <3>10, <4>1 DEF Promise!RemoveCard
      <4> QED BY <4>2 DEF Promise!Next
    <3> QED BY <3>1, <3>11, <3>12, <3>13, <3>14, <3>15, <3>16 DEF Promised
  <2> QED BY <2>1, <2>2, <2>3
<1>4. sessions \subseteq CartIds
  BY DEF IndInv, Base, TypeOK
<1> HIDE DEF V, U, K, S
<1> QED BY <1>2, <1>3, <1>4, JournalGrows

\* The threads, the journal, the crashes and the replay are out of the devices'
\* sight, if they wait for their answers: they shop in one store of sessions that
\* never forgets.
THEOREM SessionsAreAStore ==
  ASSUME OneAtATime
  PROVE  Spec => IsASessionStore
<1>1. Init => Promise!Init
  <2> SUFFICES ASSUME Init PROVE Promise!Init
    OBVIOUS
  <2>1. \A c \in CartIds : Content(c) = Kept(NewCart("ready"))
    <3> TAKE c \in CartIds
    <3>1. image[c] = <<Kept(NewCart("ready"))>> /\ journal[c] = << >> /\ sessions = {}
      BY DEF Init
    <3>2. image[c][1] = Kept(NewCart("ready"))
      BY <3>1, OneElement
    <3> QED BY <3>1, <3>2 DEF Content, Latest, KeptAt
  <2>2. /\ ~Kept(NewCart("ready")).voided
        /\ Kept(NewCart("ready")).goods.items = [i \in Items |-> 0]
        /\ Kept(NewCart("ready")).loy = NoLoy
        /\ Kept(NewCart("ready")).local = [i \in Items |-> NoCopy]
    BY DEF Kept, NewCart, NoGoods, NoCopies
  <2>3. CardsIn(NoLoy) = {}
    BY DEF CardsIn, NoLoy
  <2> HIDE DEF Content, Kept, NewCart
  <2> QED BY <2>1, <2>2, <2>3 DEF Init, Promise!Init, Promise!Unseen
<1>2. IndInv /\ IndInv' /\ History /\ [Next]_vars =>
        Promise!Next \/ UNCHANGED <<files, Promise!contents>>
  BY StepIsPromised
<1> QED BY <1>1, <1>2, Inductive, HistoryHolds, PTL
        DEF Spec, IsASessionStore, Promise!Spec

=============================================================================
