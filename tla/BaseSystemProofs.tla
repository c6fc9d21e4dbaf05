-------------------------- MODULE BaseSystemProofs --------------------------
(***************************************************************************)
(* Proofs about BaseSystem, for every store, number of threads, sessions,  *)
(* requests and crashes.                                                   *)
(***************************************************************************)
EXTENDS BaseSystemProperties, TLAPS

-----------------------------------------------------------------------------
(* The methods of Cart keep the type of a cart. *)

LEMMA NewCartType == \A state \in CartStates : NewCart(state) \in CartRecord
  BY CartAssumption
  DEF NewCart, CartRecord, Goods, Totals, Loy, Copies, NoGoods, NoTotals, NoLoy, NoCopies,
      TotalKeys, CartStates

LEMMA AddToType ==
  ASSUME NEW totals \in Totals, NEW d \in TotalKeys, NEW n \in Int, NEW amount \in Int,
         NEW discount \in Int
  PROVE  AddTo(totals, d, n, amount, discount) \in Totals
  BY DEF AddTo, Totals

LEMMA BookType ==
  ASSUME NEW totals \in Totals, NEW d \in Departments, NEW n \in {-1, 1}, NEW price \in Int,
         NEW discount \in Int
  PROVE  Book(totals, d, n, price, discount) \in Totals
<1>1. d \in TotalKeys /\ 0 \in TotalKeys
  BY DEF TotalKeys
<1>2. n * (price - discount) \in Int /\ n * discount \in Int /\ n \in Int
  OBVIOUS
<1> QED BY <1>1, <1>2, AddToType DEF Book

LEMMA GoodsType ==
  ASSUME NEW goods \in Goods, NEW i, NEW b
  PROVE  PutGoods(goods, i, b) \in Goods /\ TakeGoods(goods, i, b) \in Goods
<1>1. \A q \in Nat : q + 1 \in Nat /\ Erased(q) \in Nat
  BY DEF Erased
<1>2. goods.items \in [Items -> Nat] /\ goods.barcodes \in [Barcodes -> Nat]
      /\ goods.itemsNumber \in Int
  BY DEF Goods
<1>3. [goods.items EXCEPT ![i] = @ + 1] \in [Items -> Nat]
      /\ [goods.items EXCEPT ![i] = Erased(@)] \in [Items -> Nat]
  BY <1>1, <1>2
<1>4. [goods.barcodes EXCEPT ![b] = @ + 1] \in [Barcodes -> Nat]
      /\ [goods.barcodes EXCEPT ![b] = Erased(@)] \in [Barcodes -> Nat]
  BY <1>1, <1>2
<1> QED BY <1>2, <1>3, <1>4 DEF Goods, PutGoods, TakeGoods

LEMMA ItemType ==
  ASSUME NEW cart \in CartRecord, NEW i, NEW b, NEW d \in Departments, NEW price \in Int,
         NEW discount \in Int
  PROVE  /\ PutItem(cart, i, b, d, price, discount) \in CartRecord
         /\ TakeItem(cart, i, b, d, price, discount) \in CartRecord
         /\ AddItem(cart, i, b, d, price, discount) \in CartRecord
         /\ RemoveItem(cart, i, b, d, price, discount) \in CartRecord
<1>1. cart.goods \in Goods /\ cart.totals \in Totals
  BY DEF CartRecord
<1>2. Book(cart.totals, d, 1, price, discount) \in Totals
  BY <1>1, BookType
<1>3. Book(cart.totals, d, -1, price, discount) \in Totals
  BY <1>1, BookType
<1>4. PutGoods(cart.goods, i, b) \in Goods /\ TakeGoods(cart.goods, i, b) \in Goods
  BY <1>1, GoodsType
<1>5. PutItem(cart, i, b, d, price, discount) \in CartRecord
  BY <1>2, <1>4 DEF PutItem, CartRecord
<1>6. TakeItem(cart, i, b, d, price, discount) \in CartRecord
  BY <1>3, <1>4 DEF TakeItem, CartRecord
<1> QED BY <1>5, <1>6 DEF AddItem, RemoveItem

LEMMA CopyType ==
  ASSUME NEW cart \in CartRecord, NEW i, NEW p \in Prices
  PROVE  UpdateLocalItemMap(cart, i, p) \in CartRecord
  BY DEF UpdateLocalItemMap, KeepCopy, CartRecord, Copies

LEMMA LoyType ==
  ASSUME NEW cart \in CartRecord, NEW k \in Cards
  PROVE  AddLoyCard(cart, k) \in CartRecord /\ RemoveLoyCard(cart, k) \in CartRecord
<1>1. cart.loy \in Loy
  BY DEF CartRecord
<1>2. cart.loy.slots \in [0..MaxCards -> Cards \cup {NoCard}] /\ cart.loy.number \in Int
  BY <1>1 DEF Loy
<1>3. [cart.loy.slots EXCEPT ![cart.loy.number] = k] \in [0..MaxCards -> Cards \cup {NoCard}]
  BY <1>2
<1>4. PutCard(cart.loy, k) \in Loy
  BY <1>1, <1>2, <1>3 DEF PutCard, Loy
<1>5. [s \in 0..MaxCards |-> IF cart.loy.slots[s] = k THEN NoCard ELSE cart.loy.slots[s]]
        \in [0..MaxCards -> Cards \cup {NoCard}]
  BY <1>2
<1>6. TakeCard(cart.loy, k) \in Loy
  BY <1>1, <1>2, <1>5 DEF TakeCard, Loy
<1> QED BY <1>4, <1>6 DEF AddLoyCard, RemoveLoyCard, CartRecord

LEMMA RequestType == \A cart \in CartRecord : GetNextRequestId(cart) \in CartRecord
  BY DEF GetNextRequestId, CartRecord

LEMMA RowsType ==
  /\ RowKD \in Rows /\ RowCV \in Rows
  /\ \A i \in Items, p \in Prices : RowKI(i, p) \in Rows
  /\ \A b \in Barcodes : ItemOf[b] \in Items => RowIA(b) \in Rows /\ RowIV(b) \in Rows
  /\ \A k \in Cards : RowLA(k) \in Rows /\ RowLV(k) \in Rows
<1>1. \A i \in Items, p \in Prices : RowKI(i, p) \in {RowKI(x, q) : x \in Items, q \in Prices}
  OBVIOUS
<1>2. \A b \in Barcodes : ItemOf[b] \in Items => b \in KnownBarcodes
  BY CartAssumption DEF KnownBarcodes
<1> QED BY <1>1, <1>2 DEF Rows

LEMMA PricesAreIntegers == \A p \in Prices : p \in Int
  BY CartAssumption

LEMMA KeptType == \A cart \in CartRecord : Kept(cart) \in KeptRecord
  BY DEF Kept, KeptRecord, CartRecord, NoCopies, Copies

LEMMA PriceType ==
  ASSUME NEW cart \in CartRecord, NEW i \in Items, NEW b \in Barcodes, NEW p \in Prices
  PROVE  GetItemPrice(cart, i, b, p) \in Prices
<1>1. cart.local[i] \in Prices \cup {NoCopy}
  BY DEF CartRecord, Copies
<1>2. EmbeddedPrice[b] \in Prices \cup {NoPrice}
  BY CartAssumption
<1> QED BY <1>1, <1>2 DEF GetItemPrice

-----------------------------------------------------------------------------
(* What each method does to what a cart keeps is the effect of its row.    *)

LEMMA EffectOnVoided ==
  ASSUME NEW cart \in CartRecord, NEW row, cart.state = "voided"
  PROVE  Effect(Kept(cart), row) = Kept(cart)
  BY DEF Effect, Kept

LEMMA RequestKeeps ==
  \A cart \in CartRecord : /\ Kept(GetNextRequestId(cart)) = Kept(cart)
                           /\ GetNextRequestId(cart).state = cart.state
                           /\ GetNextRequestId(cart).goods = cart.goods
                           /\ GetNextRequestId(cart).loy = cart.loy
  BY DEF GetNextRequestId, Kept, CartRecord

LEMMA PutItemEffect ==
  ASSUME NEW cart \in CartRecord, NEW b, NEW d, NEW price, NEW discount
  PROVE  LET new == PutItem(cart, ItemOf[b], b, d, price, discount)
         IN /\ new.state = cart.state /\ new.loy = cart.loy /\ new.local = cart.local
            /\ cart.state # "voided" => Kept(new) = Effect(Kept(cart), RowIA(b))
<1> DEFINE new == PutItem(cart, ItemOf[b], b, d, price, discount)
<1>1. /\ new.state = cart.state /\ new.loy = cart.loy /\ new.local = cart.local
      /\ new.goods = PutGoods(cart.goods, ItemOf[b], b)
  BY DEF PutItem, CartRecord
<1>2. ASSUME cart.state # "voided"
      PROVE  Kept(new) = Effect(Kept(cart), RowIA(b))
  <2>1. Effect(Kept(cart), RowIA(b)) =
          [Kept(cart) EXCEPT !.goods = PutGoods(@, ItemOf[b], b)]
    BY <1>2 DEF Effect, Kept, RowIA
  <2> QED BY <1>1, <1>2, <2>1 DEF Kept
<1> QED BY <1>1, <1>2

LEMMA TakeItemEffect ==
  ASSUME NEW cart \in CartRecord, NEW b, NEW d, NEW price, NEW discount
  PROVE  LET new == TakeItem(cart, ItemOf[b], b, d, price, discount)
         IN /\ new.state = cart.state /\ new.loy = cart.loy /\ new.local = cart.local
            /\ cart.state # "voided" => Kept(new) = Effect(Kept(cart), RowIV(b))
            /\ ~InCart(cart, ItemOf[b]) => new = cart
<1> DEFINE new == TakeItem(cart, ItemOf[b], b, d, price, discount)
<1>1. CASE InCart(cart, ItemOf[b])
  <2>1. /\ new.state = cart.state /\ new.loy = cart.loy /\ new.local = cart.local
        /\ new.goods = TakeGoods(cart.goods, ItemOf[b], b)
    BY <1>1 DEF TakeItem, CartRecord
  <2>2. cart.state # "voided" => Effect(Kept(cart), RowIV(b)) =
          [Kept(cart) EXCEPT !.goods = TakeGoods(@, ItemOf[b], b)]
    BY <1>1 DEF Effect, Kept, RowIV, InCart
  <2>3. cart.state # "voided" => Kept(new) = Effect(Kept(cart), RowIV(b))
    BY <2>1, <2>2 DEF Kept
  <2> QED BY <1>1, <2>1, <2>3
<1>2. CASE ~InCart(cart, ItemOf[b])
  <2>1. new = cart
    BY <1>2 DEF TakeItem
  <2>2. Effect(Kept(cart), RowIV(b)) = Kept(cart)
    BY <1>2 DEF Effect, Kept, RowIV, InCart
  <2> QED BY <2>1, <2>2
<1> QED BY <1>1, <1>2

LEMMA AddItemEffect ==
  ASSUME NEW cart \in CartRecord, NEW b, NEW d, NEW price, NEW discount
  PROVE  LET new == AddItem(cart, ItemOf[b], b, d, price, discount)
         IN new.state = cart.state /\ Kept(new) = Effect(Kept(cart), RowIA(b))
<1>1. CASE cart.state = "voided"
  BY <1>1, EffectOnVoided DEF AddItem, Accepts
<1>2. CASE cart.state # "voided"
  <2>1. AddItem(cart, ItemOf[b], b, d, price, discount) =
          PutItem(cart, ItemOf[b], b, d, price, discount)
    BY <1>2 DEF AddItem, Accepts, CartRecord, CartStates
  <2> QED BY <1>2, <2>1, PutItemEffect
<1> QED BY <1>1, <1>2

LEMMA RemoveItemEffect ==
  ASSUME NEW cart \in CartRecord, NEW b, NEW d, NEW price, NEW discount
  PROVE  LET new == RemoveItem(cart, ItemOf[b], b, d, price, discount)
         IN new.state = cart.state /\ Kept(new) = Effect(Kept(cart), RowIV(b))
<1>1. CASE cart.state = "voided"
  BY <1>1, EffectOnVoided DEF RemoveItem, Accepts
<1>2. CASE cart.state # "voided"
  <2>1. RemoveItem(cart, ItemOf[b], b, d, price, discount) =
          TakeItem(cart, ItemOf[b], b, d, price, discount)
    BY <1>2 DEF RemoveItem, Accepts, CartRecord, CartStates
  <2> QED BY <1>2, <2>1, TakeItemEffect
<1> QED BY <1>1, <1>2

LEMMA AddLoyCardEffect ==
  ASSUME NEW cart \in CartRecord, NEW k
  PROVE  LET new == AddLoyCard(cart, k)
         IN /\ new.state = cart.state /\ Kept(new) = Effect(Kept(cart), RowLA(k))
            /\ ~LoyRoom(cart.loy, k) => Kept(new) = Kept(cart)
<1> DEFINE new == AddLoyCard(cart, k)
<1>1. CASE cart.state = "voided"
  BY <1>1, EffectOnVoided DEF AddLoyCard, Accepts
<1>2. CASE cart.state # "voided"
  <2>1. /\ new.state = cart.state /\ new.goods = cart.goods /\ new.local = cart.local
        /\ new.loy = PutCard(cart.loy, k)
    BY <1>2 DEF AddLoyCard, Accepts, CartRecord, CartStates
  <2>2. Effect(Kept(cart), RowLA(k)) = [Kept(cart) EXCEPT !.loy = PutCard(@, k)]
    BY <1>2 DEF Effect, Kept, RowLA
  <2>3. ~LoyRoom(cart.loy, k) => PutCard(cart.loy, k) = cart.loy
    BY DEF PutCard
  <2> QED BY <1>2, <2>1, <2>2, <2>3 DEF Kept
<1> QED BY <1>1, <1>2

LEMMA RemoveLoyCardEffect ==
  ASSUME NEW cart \in CartRecord, NEW k
  PROVE  LET new == RemoveLoyCard(cart, k)
         IN /\ new.state = cart.state /\ Kept(new) = Effect(Kept(cart), RowLV(k))
            /\ k \notin CardsIn(cart.loy) => Kept(new) = Kept(cart)
<1> DEFINE new == RemoveLoyCard(cart, k)
<1>1. CASE cart.state = "voided"
  BY <1>1, EffectOnVoided DEF RemoveLoyCard, Accepts
<1>2. CASE cart.state # "voided"
  <2>1. /\ new.state = cart.state /\ new.goods = cart.goods /\ new.local = cart.local
        /\ new.loy = TakeCard(cart.loy, k)
    BY <1>2 DEF RemoveLoyCard, Accepts, CartRecord, CartStates
  <2>2. Effect(Kept(cart), RowLV(k)) = [Kept(cart) EXCEPT !.loy = TakeCard(@, k)]
    BY <1>2 DEF Effect, Kept, RowLV
  <2>3. k \notin CardsIn(cart.loy) => TakeCard(cart.loy, k) = cart.loy
    BY DEF TakeCard
  <2> QED BY <1>2, <2>1, <2>2, <2>3 DEF Kept
<1> QED BY <1>1, <1>2

LEMMA CopyEffect ==
  ASSUME NEW cart \in CartRecord, NEW i, NEW p
  PROVE  LET new == UpdateLocalItemMap(cart, i, p)
         IN /\ new.state = cart.state
            /\ cart.state = "voided" => Kept(new) = Kept(cart)
            /\ ~PriceChanges => Kept(new) = Effect(Kept(cart), RowKI(i, p))
            /\ cart.local[i] # NoCopy => new = cart
<1> DEFINE new == UpdateLocalItemMap(cart, i, p)
<1>1. /\ new.state = cart.state /\ new.goods = cart.goods /\ new.loy = cart.loy
      /\ new.local = KeepCopy(cart.local, i, p)
  BY DEF UpdateLocalItemMap, CartRecord
<1>2. cart.local[i] # NoCopy => new = cart
  BY DEF UpdateLocalItemMap, KeepCopy, CartRecord
<1>3. CASE cart.state = "voided"
  BY <1>1, <1>2, <1>3, EffectOnVoided DEF Kept
<1>4. CASE cart.state # "voided"
  <2>1. ~PriceChanges => Effect(Kept(cart), RowKI(i, p)) =
                           [Kept(cart) EXCEPT !.local = KeepCopy(@, i, p)]
    BY <1>4 DEF Effect, Kept, RowKI
  <2> QED BY <1>1, <1>2, <1>4, <2>1 DEF Kept
<1> QED BY <1>3, <1>4

LEMMA VoidEffect ==
  ASSUME NEW cart \in CartRecord
  PROVE  LET new == [cart EXCEPT !.state = "voided"]
         IN /\ new.state = "voided" /\ Kept(new) = Effect(Kept(cart), RowCV)
            /\ cart.state = "voided" => Kept(new) = Kept(cart)
<1>1. CASE cart.state = "voided"
  BY <1>1, EffectOnVoided DEF Kept, CartRecord
<1>2. CASE cart.state # "voided"
  BY <1>2 DEF Effect, Kept, RowCV, CartRecord
<1> QED BY <1>1, <1>2

LEMMA DepartmentRowEffect == \A kept : Effect(kept, RowKD) = kept
  BY DEF Effect, RowKD

\* Rows of two kinds differ.
LEMMA RowKinds ==
  ASSUME NEW row \in Rows
  PROVE  /\ row = RowCV <=> row.kind = "CV"
         /\ row.kind \in {"IA", "IV"} =>
              row.barcode \in Barcodes /\ ItemOf[row.barcode] \in Items
         /\ row.kind = "IA" => row = RowIA(row.barcode)
         /\ row.kind = "IV" => row = RowIV(row.barcode)
         /\ row.kind = "LA" => row.card \in Cards /\ row = RowLA(row.card)
<1>1. \A b \in KnownBarcodes : b \in Barcodes /\ ItemOf[b] \in Items
  BY CartAssumption DEF KnownBarcodes
<1>2. CASE row = RowKD \/ row = RowCV
  BY <1>2 DEF RowKD, RowCV
<1>3. ASSUME NEW i \in Items, NEW p \in Prices, row = RowKI(i, p)
      PROVE  row.kind = "KI" /\ row # RowCV
  BY <1>3 DEF RowKI, RowCV
<1>4. ASSUME NEW b \in KnownBarcodes, row = RowIA(b)
      PROVE  row.kind = "IA" /\ row.barcode = b /\ row # RowCV
  BY <1>4 DEF RowIA, RowCV
<1>5. ASSUME NEW b \in KnownBarcodes, row = RowIV(b)
      PROVE  row.kind = "IV" /\ row.barcode = b /\ row # RowCV
  BY <1>5 DEF RowIV, RowCV
<1>6. ASSUME NEW k \in Cards, row = RowLA(k)
      PROVE  row.kind = "LA" /\ row.card = k /\ row # RowCV
  BY <1>6 DEF RowLA, RowCV
<1>7. ASSUME NEW k \in Cards, row = RowLV(k)
      PROVE  row.kind = "LV" /\ row # RowCV
  BY <1>7 DEF RowLV, RowCV
<1> QED BY <1>1, <1>2, <1>3, <1>4, <1>5, <1>6, <1>7 DEF Rows


-----------------------------------------------------------------------------
(* The inductive invariant.  Its base needs nothing of the devices; the     *)
(* account the journals give of the carts asks that the requests of a       *)
(* session come one at a time.                                              *)

\* The rows of c that are in its cart: all, or those replayed so far.
RowsIn(c) == IF c = loading.cart THEN loading.row ELSE Len(journal[c])

\* A cart that has the row C,V is void.
VoidRows ==
  \A c \in sessions :
    (\E n \in 1..RowsIn(c) : journal[c][n] = RowCV) => carts[c].state = "voided"

Base == TypeOK /\ WellFormed /\ StatesMatchPhase /\ VoidRows

Accounts == Polite /\ JournalAccounts /\ ReplayFollowsTheLiveSession /\ SessionsAreJournalled

IndInv == Base /\ (OneAtATime => Accounts)

LEMMA IdleFits ==
  /\ Idle \in Job /\ JobFits(Idle) /\ Idle.pc = "idle" /\ Idle.cart = 0
  /\ \A cart, latest : InFlight(Idle, cart, latest)
  BY DEF Idle, Job, JobFits, InFlight, NoHeader, Header

LEMMA AppendFacts ==
  ASSUME NEW S, NEW s \in Seq(S), NEW e \in S
  PROVE  /\ Append(s, e) \in Seq(S)
         /\ Len(s) \in Nat /\ Len(Append(s, e)) = Len(s) + 1
         /\ \A n \in 1..Len(s) : Append(s, e)[n] = s[n]
         /\ Append(s, e)[Len(s) + 1] = e
  OBVIOUS

\* The cart of a served session.
LEMMA LiveCart ==
  ASSUME IndInv, phase = "up", NEW c \in sessions
  PROVE  /\ c \in CartIds /\ carts[c] \in CartRecord
         /\ carts[c].state \in {"ready", "voided"}
         /\ loading = NotLoading /\ c # loading.cart
<1>1. c \in CartIds /\ carts[c] \in CartRecord
  BY DEF IndInv, Base, TypeOK
<1>2. loading = NotLoading /\ loading.cart = 0 /\ c # 0
  BY <1>1 DEF IndInv, Base, WellFormed, NotLoading, CartIds
<1> QED BY <1>1, <1>2 DEF IndInv, Base, StatesMatchPhase

\* The item of a barcode a thread is working on, and its linked barcode.
LEMMA Archived ==
  ASSUME IndInv, NEW i \in Items
  PROVE  /\ archive[i].price \in Prices /\ archive[i].dept \in Departments
         /\ archive[i].linked # NoBarcode =>
              archive[i].linked \in Barcodes /\ ItemOf[archive[i].linked] \in Items
  BY DEF IndInv, Base, TypeOK, ArchiveRecord, WellFormed

-----------------------------------------------------------------------------
(* One step of a request: thread t, which is at the request of session c or *)
(* just takes it, leaves it at job j and the cart as `cart`; `latest` is    *)
(* what stands for the last row of the journal then.                        *)

\* One row is written at a time.
Grows(c, row, kept) == /\ journal' = [journal EXCEPT ![c] = Append(@, row)]
                       /\ image' = [image EXCEPT ![c] = Append(@, kept)]

WorkStep(t, j, c, cart) ==
  /\ phase = "up" /\ Goto(t, j)
  /\ j = Idle \/ j.cart = c
  /\ job[t] = Idle \/ job[t].cart = c
  /\ carts' = [carts EXCEPT ![c] = cart]
  /\ cart.state \in {"ready", "voided"}
  /\ carts[c].state = "voided" => cart.state = "voided"
  /\ j.pc = "write" /\ j.row = RowCV => cart.state = "voided"
  /\ UNCHANGED <<phase, sessions, nextNumber, archive, disk, files, loading, pending,
                 issued, crashes>>
  /\ registry' \in [Cards -> CartIds \cup {NoOwner}]
  /\ posFile' \in [PayStations -> PosDocument \cup {NoFile}]
  /\ served' \in Nat

\* The journal of c stays, or grows by a row that is the void's only if the
\* cart is void.
Journals(c, cart, row, latest) ==
  \/ UNCHANGED <<journal, image>>
  \/ /\ Grows(c, row, latest)
     /\ row \in Rows /\ latest \in KeptRecord
     /\ row = RowCV => cart.state = "voided"

Accounted(t, j, c, cart, row, latest) ==
  /\ \A u \in Threads : Working(u, c) => u = t
  /\ InFlight(j, cart, latest)
  /\ j.pc \notin {"write", "keep"} => Kept(cart) = latest
  /\ \/ UNCHANGED <<journal, image>> /\ latest = Latest(c)
     \/ Grows(c, row, latest) /\ latest = Effect(Latest(c), row)

LEMMA WorkCarts ==
  ASSUME IndInv, NEW t \in Threads, NEW j, NEW c \in sessions, NEW cart,
         WorkStep(t, j, c, cart)
  PROVE  /\ c \in CartIds /\ sessions \subseteq CartIds
         /\ carts'[c] = cart /\ \A d \in CartIds \ {c} : carts'[d] = carts[d]
         /\ job'[t] = j /\ \A u \in Threads \ {t} : job'[u] = job[u]
  BY DEF IndInv, Base, TypeOK, WorkStep, Goto

LEMMA WorkRows ==
  ASSUME IndInv, NEW t \in Threads, NEW j, NEW c \in sessions, NEW cart,
         NEW row, NEW latest, Journals(c, cart, row, latest)
  PROVE  /\ journal' \in [CartIds -> Seq(Rows)] /\ image' \in [CartIds -> Seq(KeptRecord)]
         /\ \A d \in CartIds \ {c} : journal'[d] = journal[d] /\ image'[d] = image[d]
<1>1. CASE UNCHANGED <<journal, image>>
  BY <1>1 DEF IndInv, Base, TypeOK
<1>2. CASE Grows(c, row, latest) /\ row \in Rows /\ latest \in KeptRecord
  <2>1. c \in CartIds /\ journal[c] \in Seq(Rows) /\ image[c] \in Seq(KeptRecord)
    BY DEF IndInv, Base, TypeOK
  <2>2. Append(journal[c], row) \in Seq(Rows) /\ Append(image[c], latest) \in Seq(KeptRecord)
    BY <1>2, <2>1, AppendFacts
  <2> QED BY <1>2, <2>1, <2>2 DEF IndInv, Base, TypeOK, Grows
<1> QED BY <1>1, <1>2 DEF Journals

LEMMA WorkBase ==
  ASSUME IndInv, NEW t \in Threads, NEW j \in Job, JobFits(j), NEW c \in sessions,
         NEW cart \in CartRecord, WorkStep(t, j, c, cart),
         NEW row, NEW latest, Journals(c, cart, row, latest)
  PROVE  Base'
<1>1. /\ c \in CartIds /\ sessions \subseteq CartIds
      /\ carts'[c] = cart /\ \A d \in CartIds \ {c} : carts'[d] = carts[d]
      /\ job'[t] = j /\ \A u \in Threads \ {t} : job'[u] = job[u]
  BY WorkCarts
<1>2. /\ journal' \in [CartIds -> Seq(Rows)] /\ image' \in [CartIds -> Seq(KeptRecord)]
      /\ \A d \in CartIds \ {c} : journal'[d] = journal[d] /\ image'[d] = image[d]
  BY WorkRows
<1>3. phase = "up" /\ loading = NotLoading /\ loading' = NotLoading /\ loading.cart = 0
      /\ 0 \notin CartIds
  BY DEF WorkStep, IndInv, Base, WellFormed, NotLoading, CartIds
<1>4. TypeOK'
  <2>1. job' \in [Threads -> Job] /\ carts' \in [CartIds -> CartRecord]
    BY <1>1 DEF WorkStep, Goto, IndInv, Base, TypeOK
  <2> QED BY <1>2, <2>1 DEF WorkStep, IndInv, Base, TypeOK
<1>5. \A u \in Threads :
        /\ JobFits(job'[u])
        /\ job'[u].pc \notin {"idle", "insert"} => job'[u].cart \in sessions
        /\ job'[u].pc = "write" /\ job'[u].row = RowCV => carts'[job'[u].cart].state = "voided"
  <2> TAKE u \in Threads
  <2>1. CASE u = t
    BY <1>1, <2>1, IdleFits DEF WorkStep
  <2>2. CASE u # t
    <3>1. /\ job'[u] = job[u] /\ JobFits(job[u])
          /\ job[u].pc \notin {"idle", "insert"} => job[u].cart \in sessions
          /\ job[u].pc = "write" /\ job[u].row = RowCV => carts[job[u].cart].state = "voided"
      BY <1>1, <2>2 DEF IndInv, Base, WellFormed
    <3>2. \A d \in sessions : carts[d].state = "voided" => carts'[d].state = "voided"
      BY <1>1 DEF WorkStep
    <3> QED BY <3>1, <3>2
  <2> QED BY <2>1, <2>2
<1>6. WellFormed'
  <2>1. \A d \in CartIds \ files : journal'[d] = << >>
    BY <1>1, <1>2, <1>3 DEF IndInv, Base, WellFormed
  <2>2. UNCHANGED <<phase, sessions, archive, disk, files, pending>>
    BY DEF WorkStep
  <2>3. \A u \in Threads : JobFits(job[u])'
    BY <1>5 DEF JobFits
  <2> QED BY <1>3, <1>5, <2>1, <2>2, <2>3 DEF IndInv, Base, WellFormed
<1>7. StatesMatchPhase'
  BY <1>1, <1>3 DEF IndInv, Base, StatesMatchPhase, WorkStep
<1>8. VoidRows'
  <2> SUFFICES ASSUME NEW d \in sessions, NEW n \in 1..Len(journal'[d]), journal'[d][n] = RowCV
               PROVE  carts'[d].state = "voided"
    BY <1>1, <1>3 DEF VoidRows, RowsIn, WorkStep
  <2>1. ASSUME n \in 1..Len(journal[d]), journal[d][n] = RowCV
        PROVE  carts'[d].state = "voided"
    <3>1. d # loading.cart
      BY <1>1, <1>3
    <3>2. carts[d].state = "voided"
      BY <2>1, <3>1 DEF IndInv, Base, VoidRows, RowsIn
    <3> QED BY <1>1, <3>2 DEF WorkStep
  <2>2. CASE journal'[d] = journal[d]
    BY <2>1, <2>2
  <2>3. CASE d = c /\ Grows(c, row, latest) /\ row \in Rows /\ (row = RowCV => cart.state = "voided")
    <3>1. journal[c] \in Seq(Rows) /\ journal'[c] = Append(journal[c], row)
      BY <1>1, <2>3 DEF Grows, IndInv, Base, TypeOK
    <3>2. /\ Len(journal[c]) \in Nat /\ Len(journal'[c]) = Len(journal[c]) + 1
          /\ \A m \in 1..Len(journal[c]) : journal'[c][m] = journal[c][m]
          /\ journal'[c][Len(journal[c]) + 1] = row
      BY <2>3, <3>1, AppendFacts
    <3>3. n \in 1..Len(journal[c]) \/ n = Len(journal[c]) + 1
      BY <2>3, <3>2
    <3> QED BY <1>1, <2>1, <2>3, <3>2, <3>3
  <2> QED BY <1>1, <1>2, <2>2, <2>3 DEF Journals
<1> QED BY <1>4, <1>6, <1>7, <1>8 DEF Base

LEMMA LatestGrows ==
  ASSUME IndInv, JournalAccounts, NEW c \in CartIds, NEW row, NEW latest,
         Grows(c, row, latest), row \in Rows, latest \in KeptRecord
  PROVE  /\ Latest(c)' = latest
         /\ Len(image'[c]) = Len(journal'[c]) + 1
         /\ image'[c][1] = image[c][1]
         /\ latest = Effect(Latest(c), row) =>
              \A n \in 1..Len(journal'[c]) :
                image'[c][n + 1] = Effect(image'[c][n], journal'[c][n])
<1>1. /\ journal[c] \in Seq(Rows) /\ image[c] \in Seq(KeptRecord)
      /\ journal'[c] = Append(journal[c], row) /\ image'[c] = Append(image[c], latest)
      /\ Len(image[c]) = Len(journal[c]) + 1
  BY DEF IndInv, Base, TypeOK, Grows, JournalAccounts
<1> DEFINE m == Len(journal[c])
<1>2. /\ m \in Nat /\ Len(journal'[c]) = m + 1 /\ Len(image'[c]) = m + 2
      /\ \A n \in 1..m : journal'[c][n] = journal[c][n]
      /\ \A n \in 1..(m + 1) : image'[c][n] = image[c][n]
      /\ journal'[c][m + 1] = row /\ image'[c][m + 2] = latest
  BY <1>1, AppendFacts
<1>3. \A n \in 1..m : image[c][n + 1] = Effect(image[c][n], journal[c][n])
  BY DEF JournalAccounts
<1>4. Latest(c)' = latest /\ Latest(c) = image[c][m + 1]
  BY <1>2 DEF Latest, KeptAt
<1> HIDE DEF m
<1>5. ASSUME latest = Effect(Latest(c), row), NEW n \in 1..Len(journal'[c])
      PROVE  image'[c][n + 1] = Effect(image'[c][n], journal'[c][n])
  <2>1. CASE n \in 1..m
    <3>1. n \in 1..(m + 1) /\ n + 1 \in 1..(m + 1)
      BY <1>2, <2>1
    <3> QED BY <1>2, <1>3, <2>1, <3>1
  <2>2. CASE n = m + 1
    <3>1. n \in 1..(m + 1) /\ n + 1 = m + 2
      BY <1>2, <2>2
    <3> QED BY <1>2, <1>4, <1>5, <2>2, <3>1
  <2> QED BY <1>2, <2>1, <2>2
<1>6. 1 \in 1..(m + 1) /\ Len(image'[c]) = Len(journal'[c]) + 1
  BY <1>2
<1> QED BY <1>2, <1>4, <1>5, <1>6

LEMMA WorkAccounts ==
  ASSUME IndInv, OneAtATime, NEW t \in Threads, NEW j \in Job, NEW c \in sessions,
         NEW cart \in CartRecord, WorkStep(t, j, c, cart),
         NEW row, NEW latest, Journals(c, cart, row, latest),
         Accounted(t, j, c, cart, row, latest)
  PROVE  Accounts'
<1>1. /\ c \in CartIds /\ sessions \subseteq CartIds
      /\ carts'[c] = cart /\ \A d \in CartIds \ {c} : carts'[d] = carts[d]
      /\ job'[t] = j /\ \A u \in Threads \ {t} : job'[u] = job[u]
  BY WorkCarts
<1>2. /\ \A d \in CartIds \ {c} : journal'[d] = journal[d] /\ image'[d] = image[d]
  BY WorkRows
<1>3. Accounts /\ Polite /\ JournalAccounts /\ SessionsAreJournalled
  BY DEF IndInv, Accounts
<1>4. phase = "up" /\ loading = NotLoading /\ loading' = NotLoading /\ loading.cart = 0
      /\ 0 \notin CartIds /\ sessions' = sessions
  BY DEF WorkStep, IndInv, Base, WellFormed, NotLoading, CartIds
<1>5. /\ Latest(c)' = latest
      /\ Len(image'[c]) = Len(journal'[c]) + 1
      /\ image'[c][1] = image[c][1]
      /\ \A n \in 1..Len(journal'[c]) :
           image'[c][n + 1] = Effect(image'[c][n], journal'[c][n])
  <2> DEFINE same == UNCHANGED <<journal, image>>
  <2>1. CASE same /\ latest = Latest(c)
    BY <1>1, <1>3, <2>1 DEF JournalAccounts, Latest, KeptAt
  <2>2. CASE ~same /\ Grows(c, row, latest) /\ latest = Effect(Latest(c), row)
    <3>1. row \in Rows /\ latest \in KeptRecord
      BY <2>2 DEF Journals
    <3> QED BY <1>1, <1>3, <2>2, <3>1, LatestGrows
  <2>3. CASE same /\ Grows(c, row, latest)
    <3>1. journal[c] \in Seq(Rows) /\ journal'[c] = Append(journal[c], row)
      BY <1>1, <2>3 DEF Grows, IndInv, Base, TypeOK
    <3> QED BY <2>3, <3>1
  <2>4. \/ same /\ latest = Latest(c)
        \/ Grows(c, row, latest) /\ latest = Effect(Latest(c), row)
    BY DEF Accounted
  <2> HIDE DEF same
  <2> QED BY <2>1, <2>2, <2>3, <2>4
<1>6. \A d \in CartIds \ {c} : Latest(d)' = Latest(d)
  BY <1>2 DEF Latest, KeptAt
<1>7. JournalAccounts'
  <2> SUFFICES ASSUME NEW d \in CartIds
               PROVE  /\ Len(image'[d]) = Len(journal'[d]) + 1
                      /\ image'[d][1] = Kept(NewCart("ready"))
                      /\ \A n \in 1..Len(journal'[d]) :
                           image'[d][n + 1] = Effect(image'[d][n], journal'[d][n])
    BY DEF JournalAccounts
  <2>1. image[d][1] = Kept(NewCart("ready"))
    BY <1>3 DEF JournalAccounts
  <2>2. CASE d = c
    BY <1>5, <2>1, <2>2
  <2>3. CASE d # c
    <3>1. journal'[d] = journal[d] /\ image'[d] = image[d]
      BY <1>2, <2>3
    <3> QED BY <1>3, <3>1 DEF JournalAccounts
  <2> QED BY <2>2, <2>3
<1>8. SessionsAreJournalled'
  <2> SUFFICES ASSUME NEW d \in sessions, Settled(d)'
               PROVE  Kept(carts'[d]) = Latest(d)'
    BY <1>4 DEF SessionsAreJournalled, Latest
  <2>1. CASE d = c
    <3>1. j.pc \notin {"write", "keep"}
      BY <1>1, <2>1, IdleFits DEF Settled, WorkStep
    <3> QED BY <1>1, <1>5, <2>1, <3>1 DEF Accounted
  <2>2. CASE d # c
    <3>1. Settled(d)
      <4> SUFFICES ASSUME NEW u \in Threads, job[u].cart = d
                   PROVE  job[u].pc \notin {"write", "keep"}
        BY DEF Settled
      <4>1. CASE u = t
        BY <2>2, <4>1, IdleFits DEF WorkStep
      <4>2. CASE u # t
        BY <1>1, <4>2 DEF Settled
      <4> QED BY <4>1, <4>2
    <3>2. Kept(carts[d]) = Latest(d)
      BY <1>1, <1>3, <1>4, <3>1 DEF SessionsAreJournalled, Latest
    <3> QED BY <1>1, <1>6, <2>2, <3>2
  <2> QED BY <2>1, <2>2
<1>9. Polite'
  <2>1. ASSUME NEW u \in Threads, NEW v \in Threads, NEW d \in CartIds,
               Working(u, d)', Working(v, d)'
        PROVE  u = v
    <3>1. \A w \in Threads : Working(w, d)' => w = t \/ Working(w, d)
      BY <1>1 DEF Working
    <3>2. \A w \in Threads : Working(w, c)' => w = t
      BY <1>1, <3>1 DEF Working, Accounted
    <3>3. Working(t, d)' => d = c
      BY <1>1, IdleFits DEF Working, WorkStep
    <3>4. CASE d = c
      BY <2>1, <3>2, <3>4
    <3>5. CASE d # c
      BY <1>3, <2>1, <3>1, <3>3, <3>5 DEF Polite
    <3> QED BY <3>4, <3>5
  <2>2. ASSUME NEW u \in Threads, job'[u] # Idle
        PROVE  InFlight(job'[u], carts'[job'[u].cart], Latest(job[u].cart)')
    <3>1. CASE u = t
      <4>1. job'[u] = j /\ j.cart = c
        BY <1>1, <2>2, <3>1 DEF WorkStep
      <4>2. Latest(job[u].cart)' = latest
        BY <1>5, <4>1 DEF Latest, KeptAt
      <4> QED BY <1>1, <4>1, <4>2 DEF Accounted
    <3>2. CASE u # t
      <4>1. /\ job'[u] = job[u]
            /\ InFlight(job[u], carts[job[u].cart], Latest(job[u].cart))
            /\ job[u].pc # "idle" => job[u].cart \in CartIds
        <5>1. job'[u] = job[u] /\ job[u] # Idle
          BY <1>1, <2>2, <3>2
        <5>2. JobFits(job[u])
          BY DEF IndInv, Base, WellFormed
        <5>3. InFlight(job[u], carts[job[u].cart], Latest(job[u].cart))
          BY <1>3, <5>1 DEF Polite
        <5> QED BY <5>1, <5>2, <5>3 DEF JobFits
      <4>2. CASE job[u].cart = c \/ job[u].pc = "idle"
        <5>1. job[u].pc \in {"idle", "insert", "increment", "store"}
          BY <3>2, <4>2 DEF Accounted, Working
        <5> QED BY <4>1, <5>1 DEF InFlight
      <4>3. CASE job[u].cart # c /\ job[u].pc # "idle"
        <5>1. Latest(job[u].cart)' = Latest(job[u].cart)
          BY <1>2, <4>1, <4>3 DEF Latest, KeptAt
        <5> QED BY <1>1, <4>1, <4>3, <5>1
      <4> QED BY <4>2, <4>3
    <3> QED BY <3>1, <3>2
  <2> QED BY <2>1, <2>2 DEF Polite
<1>10. ReplayFollowsTheLiveSession'
  BY <1>4 DEF ReplayFollowsTheLiveSession
<1> QED BY <1>7, <1>8, <1>9, <1>10 DEF Accounts

\* Every step of a request on a session is an instance of this lemma.
LEMMA RequestStep ==
  ASSUME IndInv, NEW t \in Threads, NEW j \in Job, JobFits(j), NEW c \in sessions,
         NEW cart \in CartRecord, WorkStep(t, j, c, cart),
         NEW row, NEW latest, Journals(c, cart, row, latest),
         OneAtATime => Accounted(t, j, c, cart, row, latest)
  PROVE  IndInv'
  BY WorkBase, WorkAccounts DEF IndInv

-----------------------------------------------------------------------------
(* The requests, one lemma per action: first the numbers of new sessions.  *)

Numbering == {"idle", "insert", "increment", "store"}

LEMMA NumberStep ==
  ASSUME IndInv, phase = "up", NEW t \in Threads, NEW j \in Job, JobFits(j), Goto(t, j),
         job[t].pc \in Numbering, j.pc \in Numbering,
         j.pc \notin {"idle", "insert"} => j.cart \in sessions,
         UNCHANGED <<phase, sessions, carts, registry, archive, disk, files, journal, posFile,
                     loading, pending, image, served, crashes>>,
         nextNumber' \in Nat, issued' \in [CartIds -> Nat]
  PROVE  IndInv'
<1>1. /\ job' \in [Threads -> Job]
      /\ job'[t] = j /\ \A u \in Threads \ {t} : job'[u] = job[u]
  BY DEF Goto, IndInv, Base, TypeOK
<1>2. TypeOK'
  BY <1>1 DEF IndInv, Base, TypeOK
<1>3. \A u \in Threads :
        /\ JobFits(job'[u])
        /\ job'[u].pc \notin {"idle", "insert"} => job'[u].cart \in sessions
        /\ job'[u].pc = "write" /\ job'[u].row = RowCV => carts[job'[u].cart].state = "voided"
  BY <1>1 DEF IndInv, Base, WellFormed, Numbering
<1>4. WellFormed'
  <2>1. \A u \in Threads : JobFits(job[u])'
    BY <1>3 DEF JobFits
  <2> QED BY <1>3, <2>1 DEF IndInv, Base, WellFormed
<1>5. StatesMatchPhase' /\ VoidRows'
  BY DEF IndInv, Base, StatesMatchPhase, VoidRows, RowsIn
<1>6. ASSUME OneAtATime
      PROVE  Accounts'
  <2>1. Accounts
    BY <1>6 DEF IndInv
  <2>2. JournalAccounts' /\ ReplayFollowsTheLiveSession'
    BY <2>1 DEF Accounts, JournalAccounts, ReplayFollowsTheLiveSession, KeptAt
  <2>3. SessionsAreJournalled'
    <3> SUFFICES ASSUME NEW d \in sessions \ {loading.cart}, Settled(d)'
                 PROVE  Kept(carts[d]) = image[d][Len(journal[d]) + 1]
      BY DEF SessionsAreJournalled, KeptAt
    <3>1. Settled(d)
      BY <1>1 DEF Settled, Numbering
    <3> QED BY <2>1, <1>6, <3>1 DEF Accounts, SessionsAreJournalled, KeptAt
  <2>4. ASSUME NEW u \in Threads, NEW v \in Threads, NEW d \in CartIds,
               Working(u, d)', Working(v, d)'
        PROVE  u = v
    <3>1. Working(u, d) /\ Working(v, d)
      BY <1>1, <2>4 DEF Working, Numbering
    <3> QED BY <2>1, <3>1 DEF Accounts, Polite
  <2>5. ASSUME NEW u \in Threads, job'[u] # Idle
        PROVE  InFlight(job'[u], carts'[job'[u].cart], Latest(job[u].cart)')
    <3>1. CASE u = t
      BY <1>1, <3>1 DEF InFlight, Numbering
    <3>2. CASE u # t
      <4>1. InFlight(job[u], carts[job[u].cart], Latest(job[u].cart))
        BY <1>1, <2>1, <2>5, <3>2 DEF Accounts, Polite
      <4>2. Latest(job[u].cart)' = Latest(job[u].cart)
        BY <1>1, <3>2 DEF Latest, KeptAt
      <4> QED BY <1>1, <3>2, <4>1, <4>2
    <3> QED BY <3>1, <3>2
  <2> QED BY <2>2, <2>3, <2>4, <2>5 DEF Accounts, Polite
<1> QED BY <1>2, <1>4, <1>5, <1>6 DEF IndInv, Base

LEMMA InitSessionStep ==
  ASSUME IndInv, NEW t \in Threads, InitSession(t)
  PROVE  IndInv'
<1> DEFINE j == [Idle EXCEPT !.pc = "insert", !.cart = nextNumber]
<1>1. j \in Job /\ JobFits(j) /\ j.pc = "insert"
  BY IdleFits DEF InitSession, Job, JobFits
<1>2. phase = "up" /\ Goto(t, j) /\ job[t] = Idle
      /\ UNCHANGED <<phase, sessions, carts, registry, archive, disk, files, journal, posFile,
                     loading, pending, image, served, crashes, nextNumber, issued>>
  BY DEF InitSession, memory, storage
<1>3. nextNumber' \in Nat /\ issued' \in [CartIds -> Nat]
  BY <1>2 DEF IndInv, Base, TypeOK
<1> HIDE DEF j
<1> QED BY <1>1, <1>2, <1>3, IdleFits, NumberStep DEF Numbering

LEMMA ReadNumberStep ==
  ASSUME IndInv, NEW t \in Threads, ReadNumber(t)
  PROVE  IndInv'
<1> DEFINE j == [job[t] EXCEPT !.pc = "store", !.number = nextNumber]
<1>1. /\ job[t] \in Job /\ JobFits(job[t]) /\ job[t].pc = "increment" /\ nextNumber \in Nat
      /\ job[t].cart \in sessions
  BY DEF IndInv, Base, TypeOK, WellFormed, ReadNumber
<1>2. j \in Job /\ JobFits(j) /\ j.pc = "store" /\ j.cart = job[t].cart
  BY <1>1 DEF Job, JobFits
<1>3. phase = "up" /\ Goto(t, j)
      /\ UNCHANGED <<phase, sessions, carts, registry, archive, disk, files, journal, posFile,
                     loading, pending, image, served, crashes, nextNumber, issued>>
  BY DEF ReadNumber, memory, storage
<1>4. nextNumber' \in Nat /\ issued' \in [CartIds -> Nat]
  BY <1>3 DEF IndInv, Base, TypeOK
<1> HIDE DEF j
<1> QED BY <1>1, <1>2, <1>3, <1>4, NumberStep DEF Numbering

LEMMA WriteNumberStep ==
  ASSUME IndInv, NEW t \in Threads, WriteNumber(t)
  PROVE  IndInv'
<1>1. phase = "up" /\ Goto(t, Idle) /\ job[t].pc = "store"
      /\ UNCHANGED <<phase, sessions, carts, registry, archive, disk, files, journal, posFile,
                     loading, pending, image, served, crashes>>
  BY DEF WriteNumber, Reply, storage
<1>2. nextNumber' \in Nat /\ issued' \in [CartIds -> Nat]
  <2>1. nextNumber' = job[t].number + 1 /\ issued' = [issued EXCEPT ![job[t].cart] = @ + 1]
    BY DEF WriteNumber, IncrementedNumber
  <2>2. \A n \in Nat : n + 1 \in Nat
    OBVIOUS
  <2>3. issued \in [CartIds -> Nat] /\ job[t].number \in Nat
    BY DEF IndInv, Base, TypeOK, Job
  <2> QED BY <2>1, <2>2, <2>3
<1> QED BY <1>1, <1>2, IdleFits, NumberStep DEF Numbering

LEMMA InsertCartStep ==
  ASSUME IndInv, NEW t \in Threads, InsertCart(t)
  PROVE  IndInv'
<1>1. job[t] \in Job /\ job[t].cart \in CartIds /\ job[t].pc = "insert" /\ phase = "up"
  BY DEF InsertCart, IndInv, Base, TypeOK, WellFormed, JobFits
<1>2. PICK n \in CartIds : n = job[t].cart
  BY <1>1
<1>3. PICK j : j = [job[t] EXCEPT !.pc = "increment"]
  OBVIOUS
<1>4. /\ j \in Job /\ j.cart = n /\ j.pc = "increment" /\ JobFits(j)
      /\ job'[t] = j /\ \A u \in Threads \ {t} : job'[u] = job[u]
      /\ job' \in [Threads -> Job]
  BY <1>1, <1>2, <1>3 DEF InsertCart, Job, JobFits, Goto, IndInv, Base, TypeOK
<1>5. /\ sessions' = sessions \cup {n} /\ files' = files \cup {n}
      /\ UNCHANGED <<phase, registry, nextNumber, archive, disk, journal, posFile,
                     loading, pending, issued, image, served, crashes>>
      /\ carts' = IF n \in sessions THEN carts ELSE [carts EXCEPT ![n] = NewCart("ready")]
  BY <1>2 DEF InsertCart
<1>6. NewCart("ready") \in CartRecord /\ NewCart("ready").state = "ready"
  BY NewCartType DEF CartStates, NewCart
<1>7. carts' \in [CartIds -> CartRecord]
  BY <1>5, <1>6 DEF IndInv, Base, TypeOK
<1>8. /\ \A d \in sessions : d \in CartIds /\ carts'[d] = carts[d]
      /\ n \notin sessions => carts'[n] = NewCart("ready") /\ journal[n] = << >>
  BY <1>1, <1>5 DEF IndInv, Base, TypeOK, WellFormed
<1>9. loading = NotLoading /\ loading.cart = 0 /\ 0 \notin CartIds
  BY <1>1 DEF IndInv, Base, WellFormed, NotLoading, CartIds
<1>10. TypeOK'
  BY <1>4, <1>5, <1>7 DEF IndInv, Base, TypeOK
<1>11. WellFormed'
  <2>1. \A u \in Threads :
          /\ JobFits(job'[u])
          /\ job'[u].pc \notin {"idle", "insert"} => job'[u].cart \in sessions'
          /\ job'[u].pc = "write" /\ job'[u].row = RowCV =>
               carts'[job'[u].cart].state = "voided"
    BY <1>4, <1>5, <1>8 DEF IndInv, Base, WellFormed
  <2>2. \A u \in Threads : JobFits(job[u])'
    BY <2>1 DEF JobFits
  <2> QED BY <1>1, <1>5, <2>1, <2>2 DEF IndInv, Base, WellFormed
<1>12. StatesMatchPhase'
  BY <1>5, <1>6, <1>8, <1>9 DEF IndInv, Base, StatesMatchPhase
<1>13. VoidRows'
  <2> SUFFICES ASSUME NEW d \in sessions', NEW m \in 1..Len(journal[d]), journal[d][m] = RowCV
               PROVE  carts'[d].state = "voided"
    BY <1>5, <1>9 DEF VoidRows, RowsIn, IndInv, Base, TypeOK
  <2>1. d \in sessions
    BY <1>5, <1>8
  <2> QED BY <1>8, <1>9, <2>1 DEF IndInv, Base, VoidRows, RowsIn
<1>14. ASSUME OneAtATime
       PROVE  Accounts'
  <2>1. Accounts
    BY <1>14 DEF IndInv
  <2>2. \A d : Latest(d)' = Latest(d)
    BY <1>5 DEF Latest, KeptAt
  <2>3. JournalAccounts' /\ ReplayFollowsTheLiveSession'
    BY <1>5, <1>9, <2>1 DEF Accounts, JournalAccounts, ReplayFollowsTheLiveSession
  <2>4. SessionsAreJournalled'
    <3> SUFFICES ASSUME NEW d \in sessions', Settled(d)'
                 PROVE  Kept(carts'[d]) = Latest(d)
      BY <1>5, <1>9, <2>2 DEF SessionsAreJournalled, Latest
    <3>1. CASE d \in sessions
      <4>1. Settled(d) /\ d # loading.cart
        BY <1>1, <1>4, <1>8, <1>9, <3>1 DEF Settled
      <4> QED BY <1>8, <1>14, <2>1, <3>1, <4>1 DEF Accounts, SessionsAreJournalled, Latest
    <3>2. CASE d = n /\ n \notin sessions
      <4>1. Len(journal[n]) = 0
        BY <1>8, <3>2
      <4>2. image[n][1] = Kept(NewCart("ready"))
        BY <2>1 DEF Accounts, JournalAccounts
      <4> QED BY <1>8, <3>2, <4>1, <4>2 DEF Latest, KeptAt
    <3> QED BY <1>5, <3>1, <3>2
  <2>5. ASSUME NEW u \in Threads, NEW v \in Threads, NEW d \in CartIds,
               Working(u, d)', Working(v, d)'
        PROVE  u = v
    <3>1. Working(u, d) /\ Working(v, d)
      BY <1>4, <2>5 DEF Working
    <3> QED BY <2>1, <3>1 DEF Accounts, Polite
  <2>6. ASSUME NEW u \in Threads, job'[u] # Idle
        PROVE  InFlight(job'[u], carts'[job'[u].cart], Latest(job[u].cart)')
    <3>1. CASE job'[u].pc \in {"idle", "insert", "increment", "store"}
      BY <3>1 DEF InFlight
    <3>2. CASE job'[u].pc \notin {"idle", "insert", "increment", "store"}
      <4>1. job'[u] = job[u] /\ job[u].cart \in sessions
        BY <1>4, <3>2 DEF IndInv, Base, WellFormed
      <4>2. InFlight(job[u], carts[job[u].cart], Latest(job[u].cart))
        BY <2>1, <2>6, <4>1 DEF Accounts, Polite
      <4>3. Latest(job[u].cart)' = Latest(job[u].cart)
        BY <1>5, <4>1 DEF Latest, KeptAt
      <4> QED BY <1>8, <4>1, <4>2, <4>3
    <3> QED BY <3>1, <3>2
  <2> QED BY <2>3, <2>4, <2>5, <2>6 DEF Accounts, Polite
<1> QED BY <1>10, <1>11, <1>12, <1>13, <1>14 DEF IndInv, Base

-----------------------------------------------------------------------------
(* Requests on a session.                                                  *)

\* A session nobody has a change or a row at hand of is the one of its last row.
LEMMA Standing ==
  ASSUME IndInv, OneAtATime, phase = "up", NEW c \in sessions,
         \A u \in Threads : Working(u, c) => job[u].pc \notin {"write", "keep"}
  PROVE  Kept(carts[c]) = Latest(c)
<1>1. Settled(c)
  BY DEF Settled, Working
<1>2. c \in sessions \ {loading.cart}
  BY LiveCart
<1> QED BY <1>1, <1>2 DEF IndInv, Accounts, SessionsAreJournalled, Latest

\* The thread at a request of a session is the only one.
LEMMA Alone ==
  ASSUME IndInv, OneAtATime, NEW t \in Threads, NEW c \in CartIds, Working(t, c)
  PROVE  \A u \in Threads : Working(u, c) => u = t
  BY DEF IndInv, Accounts, Polite

\* A request that has just come, or has only asked.
LEMMA OnlyRequestIdStep ==
  ASSUME IndInv, NEW t \in Threads, NEW c \in sessions, NEW kind, Serve(t, c, kind),
         OnlyRequestId(c), NEW j \in Job, JobFits(j), Goto(t, j), j = Idle \/ j.cart = c,
         j.pc \notin {"copyItem", "keep", "write"},
         j.pc = "change" => carts[c].state = "ready"
  PROVE  IndInv'
<1> DEFINE cart == GetNextRequestId(carts[c])
<1>1. /\ phase = "up" /\ job[t] = Idle /\ served' \in Nat
      /\ OneAtATime => \A u \in Threads : ~Working(u, c)
  BY DEF Serve, IndInv, Base, TypeOK
<1>2. /\ c \in CartIds /\ carts[c] \in CartRecord /\ cart \in CartRecord
      /\ carts[c].state \in {"ready", "voided"}
      /\ cart.state = carts[c].state /\ Kept(cart) = Kept(carts[c])
  BY <1>1, LiveCart, RequestType, RequestKeeps
<1>3. carts' = [carts EXCEPT ![c] = cart]
      /\ UNCHANGED <<phase, sessions, registry, nextNumber, archive, disk, files, posFile,
                     journal, image, loading, pending, issued, crashes>>
  BY DEF OnlyRequestId, storage
<1> HIDE DEF cart
<1>4. WorkStep(t, j, c, cart)
  BY <1>1, <1>2, <1>3 DEF WorkStep, IndInv, Base, TypeOK
<1>5. Journals(c, cart, RowKD, Latest(c))
  BY <1>3 DEF Journals
<1>6. ASSUME OneAtATime
      PROVE  Accounted(t, j, c, cart, RowKD, Latest(c))
  <2>1. Kept(carts[c]) = Latest(c)
    BY <1>1, <1>6, Standing
  <2>2. InFlight(j, cart, Latest(c))
    BY <1>2 DEF InFlight
  <2> QED BY <1>1, <1>2, <1>3, <1>6, <2>1, <2>2 DEF Accounted
<1> QED BY <1>2, <1>4, <1>5, <1>6, RequestStep

LEMMA QueryStep ==
  ASSUME IndInv, NEW t \in Threads, NEW c \in sessions, Query(t, c)
  PROVE  IndInv'
<1>1. Goto(t, Idle) /\ Serve(t, c, "query") /\ OnlyRequestId(c)
  BY DEF Query, Serve, Goto, IndInv, Base, TypeOK
<1> QED BY <1>1, IdleFits, OnlyRequestIdStep

\* The job of a thread that starts on a row of an item.
LEMMA StartedFits ==
  ASSUME NEW k \in Job, k.cart \in CartIds, k.row.kind \in {"IA", "IV"}
  PROVE  /\ Started(k) \in Job /\ JobFits(Started(k))
         /\ Started(k).cart = k.cart /\ Started(k).row = k.row
         /\ Started(k).main = k.main /\ Started(k).pc \in {"copy", "check"}
<1>1. /\ Started(k) \in Job /\ Started(k).cart = k.cart /\ Started(k).row = k.row
      /\ Started(k).main = k.main
      /\ Started(k).pc = "copy" \/ Started(k).pc = "check"
      /\ Started(k).pc = "copy" => ~PriceChanges
  BY DEF Started, Job
<1> HIDE DEF Started
<1>2. JobFits(Started(k))
  BY <1>1 DEF JobFits
<1> QED BY <1>1, <1>2

LEMMA ItemRequestStep ==
  ASSUME IndInv, NEW t \in Threads, NEW c \in sessions, NEW b \in Barcodes, NEW row, NEW kind,
         row = RowIA(b) \/ row = RowIV(b), Serve(t, c, kind), ItemRequest(t, c, row)
  PROVE  IndInv'
<1> DEFINE k == [Idle EXCEPT !.cart = c, !.row = row]
           j == Started(k)
<1>1. OnlyRequestId(c) /\ c \in CartIds /\ row.barcode = b /\ row.kind \in {"IA", "IV"}
  BY DEF ItemRequest, RowIA, RowIV, IndInv, Base, TypeOK
<1>2. CASE ItemOf[b] = NoItem
  <2>1. Goto(t, Idle)
    BY <1>1, <1>2 DEF ItemRequest, Reply
  <2> QED BY <1>1, <2>1, IdleFits, OnlyRequestIdStep
<1>3. CASE ItemOf[b] # NoItem
  <2>1. row \in Rows
    BY <1>3, CartAssumption, RowsType
  <2>2. k \in Job /\ k.cart = c /\ k.row = row
    BY <1>1, <2>1, IdleFits DEF Job
  <2>3. Goto(t, j)
    BY <1>1, <1>3 DEF ItemRequest
  <2> HIDE DEF k
  <2>4. j \in Job /\ JobFits(j) /\ j.cart = c /\ j.pc \in {"copy", "check"}
    BY <1>1, <2>2, StartedFits
  <2> HIDE DEF j
  <2> QED BY <1>1, <2>3, <2>4, OnlyRequestIdStep
<1> QED BY <1>2, <1>3

LEMMA ItemAddStep ==
  ASSUME IndInv, NEW t \in Threads, NEW c \in sessions, NEW b \in Barcodes,
         ItemAdd(t, c, b)
  PROVE  IndInv'
  BY ItemRequestStep DEF ItemAdd

LEMMA ItemVoidStep ==
  ASSUME IndInv, NEW t \in Threads, NEW c \in sessions, NEW b \in Barcodes,
         ItemVoid(t, c, b)
  PROVE  IndInv'
  BY ItemRequestStep DEF ItemVoid

LEMMA CustomerAddStep ==
  ASSUME IndInv, NEW t \in Threads, NEW c \in sessions, NEW k \in Cards,
         CustomerAdd(t, c, k)
  PROVE  IndInv'
<1> DEFINE j == [Idle EXCEPT !.pc = "register", !.cart = c, !.row = RowLA(k)]
<1>1. /\ Serve(t, c, "card") /\ OnlyRequestId(c) /\ c \in CartIds /\ OneAtATime
      /\ Goto(t, Idle) \/ Goto(t, j)
  BY BaseAssumption DEF CustomerAdd, Serve, Reply, IndInv, Base, TypeOK
<1>2. RowLA(k) \in Rows /\ RowLA(k).kind = "LA"
  BY RowsType DEF RowLA
<1>3. j \in Job /\ JobFits(j) /\ j.cart = c /\ j.pc = "register"
  BY <1>1, <1>2, IdleFits DEF Job, JobFits
<1> HIDE DEF j
<1> QED BY <1>1, <1>3, IdleFits, OnlyRequestIdStep

LEMMA SessionEndStep ==
  ASSUME IndInv, NEW t \in Threads, NEW c \in sessions, NEW p \in PayStations,
         SessionEnd(t, c, p)
  PROVE  IndInv'
<1> DEFINE j == [Idle EXCEPT !.pc = "header", !.cart = c, !.header.station = p]
<1>1. /\ Serve(t, c, "end") /\ OnlyRequestId(c) /\ c \in CartIds
      /\ Goto(t, Idle) \/ Goto(t, j)
  BY DEF SessionEnd, Reply, IndInv, Base, TypeOK
<1>2. j \in Job /\ j.cart = c /\ j.pc = "header" /\ j.header.station = p
  <2>1. Idle \in Job /\ Idle.header \in Header
    BY IdleFits DEF Job
  <2>2. PICK h : h = [Idle.header EXCEPT !.station = p]
    OBVIOUS
  <2>3. h \in Header /\ h.station = p
    BY <2>1, <2>2 DEF Header
  <2>4. j = [Idle EXCEPT !.pc = "header", !.cart = c, !.header = h]
    BY <2>2
  <2> QED BY <1>1, <2>1, <2>3, <2>4 DEF Job
<1>3. JobFits(j)
  BY <1>1, <1>2 DEF JobFits
<1> HIDE DEF j
<1> QED BY <1>1, <1>2, <1>3, IdleFits, OnlyRequestIdStep

LEMMA SessionVoidStep ==
  ASSUME IndInv, NEW t \in Threads, NEW c \in sessions, SessionVoid(t, c)
  PROVE  IndInv'
<1> DEFINE j == [Idle EXCEPT !.pc = "change", !.cart = c, !.row = RowCV]
<1>1. /\ Serve(t, c, "cancel") /\ OnlyRequestId(c) /\ c \in CartIds
      /\ Goto(t, Idle) \/ (Goto(t, j) /\ carts[c].state # "voided")
  BY DEF SessionVoid, Reply, IndInv, Base, TypeOK
<1>2. RowCV \in Rows /\ RowCV.kind = "CV"
  BY RowsType DEF RowCV
<1>3. j \in Job /\ JobFits(j) /\ j.cart = c /\ j.pc = "change"
  BY <1>1, <1>2, IdleFits DEF Job, JobFits
<1>4. carts[c].state # "voided" => carts[c].state = "ready"
  BY <1>1, LiveCart DEF Serve
<1> HIDE DEF j
<1> QED BY <1>1, <1>3, <1>4, IdleFits, OnlyRequestIdStep

-----------------------------------------------------------------------------
(* A request in the middle of its work.                                    *)

LEMMA AtWork ==
  ASSUME IndInv, phase = "up", NEW t \in Threads, NEW c, job[t].cart = c,
         job[t].pc \notin Numbering
  PROVE  /\ job[t] \in Job /\ JobFits(job[t]) /\ job[t] # Idle
         /\ c \in sessions /\ c \in CartIds /\ carts[c] \in CartRecord
         /\ carts[c].state \in {"ready", "voided"}
         /\ OneAtATime => /\ \A u \in Threads : Working(u, c) => u = t
                          /\ InFlight(job[t], carts[c], Latest(c))
         /\ OneAtATime /\ job[t].pc \notin {"write", "keep"} => Kept(carts[c]) = Latest(c)
<1>1. job[t] \in Job /\ JobFits(job[t]) /\ job[t] # Idle /\ c \in sessions /\ Working(t, c)
  BY IdleFits DEF IndInv, Base, TypeOK, WellFormed, Numbering, Working
<1>2. c \in CartIds /\ carts[c] \in CartRecord /\ carts[c].state \in {"ready", "voided"}
  BY <1>1, LiveCart
<1>3. OneAtATime => \A u \in Threads : Working(u, c) => u = t
  BY <1>1, <1>2, Alone
<1>4. OneAtATime => InFlight(job[t], carts[c], Latest(c))
  BY <1>1 DEF IndInv, Accounts, Polite
<1>5. OneAtATime /\ job[t].pc \notin {"write", "keep"} => Kept(carts[c]) = Latest(c)
  BY <1>1, <1>3, Standing
<1> QED BY <1>1, <1>2, <1>3, <1>4, <1>5

\* The rows a job may carry, and the item of an item's row.
LEMMA JobRow ==
  ASSUME NEW j \in Job, JobFits(j)
  PROVE  /\ j.pc \in {"copy", "copyItem", "keep", "check", "link"} =>
              j.row.kind \in {"IA", "IV"}
         /\ j.pc \in {"change", "write"} => j.row.kind \in {"IA", "IV"} \/ j.row = RowCV
         /\ j.row.kind \in {"IA", "IV", "CV"} => j.row \in Rows
         /\ j.row.kind \in {"IA", "IV"} =>
              /\ j.row.barcode \in Barcodes /\ JobItem(j) \in Items
              /\ JobItem(j) = ItemOf[j.row.barcode]
         /\ j.row.kind = "IA" => j.row = RowIA(j.row.barcode)
         /\ j.row.kind = "IV" => j.row = RowIV(j.row.barcode)
         /\ j.row = RowCV => j.row.kind = "CV"
<1>1. j.row \in Rows \/ j.row.kind = "none"
  BY DEF Job, NoRow
<1>2. j.row.kind \in {"IA", "IV", "CV"} => j.row \in Rows
  BY <1>1
<1> QED BY <1>2, RowKinds DEF JobItem, JobFits, RowCV

\* The same job with another counter; what it works with stays.

LEMMA WorkRest ==
  ASSUME IndInv, UNCHANGED <<phase, sessions, registry, nextNumber, archive, disk, files, posFile,
                             loading, pending, issued, served, crashes>>
  PROVE  /\ UNCHANGED <<phase, sessions, nextNumber, archive, disk, files, loading, pending,
                        issued, crashes>>
         /\ registry' \in [Cards -> CartIds \cup {NoOwner}]
         /\ posFile' \in [PayStations -> PosDocument \cup {NoFile}]
         /\ served' \in Nat
  BY DEF IndInv, Base, TypeOK

LEMMA CopyDepartmentStep ==
  ASSUME IndInv, NEW t \in Threads, CopyDepartment(t)
  PROVE  IndInv'
<1>1. phase = "up" /\ job[t].pc = "copy"
  BY DEF CopyDepartment
<1>2. PICK c : job[t].cart = c
  OBVIOUS
<1>3. PICK i : i = JobItem(job[t])
  OBVIOUS
<1>4. /\ job[t] \in Job /\ JobFits(job[t]) /\ c \in sessions /\ c \in CartIds
      /\ carts[c] \in CartRecord /\ carts[c].state \in {"ready", "voided"}
      /\ OneAtATime => /\ \A u \in Threads : Working(u, c) => u = t
                       /\ Kept(carts[c]) = Latest(c)
  BY <1>1, <1>2, AtWork DEF Numbering
<1>5. i \in Items /\ ~PriceChanges /\ job[t].row.kind \in {"IA", "IV"} /\ job[t].row # RowCV
  BY <1>1, <1>3, <1>4, JobRow DEF JobFits, RowCV
<1>6. PICK p \in Prices : p = archive[i].price
  BY <1>5, Archived
<1>7. /\ UNCHANGED <<phase, sessions, nextNumber, archive, disk, files, loading, pending,
                     issued, crashes>>
      /\ registry' \in [Cards -> CartIds \cup {NoOwner}]
      /\ posFile' \in [PayStations -> PosDocument \cup {NoFile}]
      /\ served' \in Nat
  BY WorkRest DEF CopyDepartment
<1>8. /\ job[t].price \in {0} \cup Prices /\ job[t].discount \in Int
      /\ job[t] = [job[t] EXCEPT !.discount = job[t].discount]
      /\ job[t] = [job[t] EXCEPT !.price = job[t].price, !.discount = job[t].discount]
  BY <1>4 DEF Job
<1>9. CASE carts[c].local[i] = NoCopy /\ carts[c].state = "ready"
  <2>1. PICK j : j = [job[t] EXCEPT !.pc = "copyItem", !.price = p]
    OBVIOUS
  <2>2. /\ j \in Job /\ j.cart = c /\ j.pc = "copyItem" /\ j.row = job[t].row /\ j.price = p
    BY <1>2, <1>4, <2>1 DEF Job
  <2>3. JobFits(j)
    BY <1>4, <1>5, <2>2 DEF JobFits
  <2>4. Store(c, carts[c], RowKD, TRUE) /\ Goto(t, j)
    BY <1>2, <1>3, <1>6, <1>9, <2>1 DEF CopyDepartment
  <2>5. WorkStep(t, j, c, carts[c])
    BY <1>1, <1>2, <1>4, <1>7, <2>2, <2>4 DEF WorkStep, Store
  <2>6. Grows(c, RowKD, Kept(carts[c]))
    BY <2>4 DEF Store, Written, Grows
  <2>7. Journals(c, carts[c], RowKD, Kept(carts[c]))
    BY <1>4, <2>6, RowsType, KeptType DEF Journals, RowKD, RowCV
  <2>8. OneAtATime => Accounted(t, j, c, carts[c], RowKD, Kept(carts[c]))
    BY <1>4, <1>9, <2>2, <2>6, DepartmentRowEffect DEF Accounted, InFlight
  <2> QED BY <1>4, <2>2, <2>3, <2>5, <2>7, <2>8, RequestStep
<1>10. CASE ~(carts[c].local[i] = NoCopy /\ carts[c].state = "ready")
  <2>1. PICK j : j = [job[t] EXCEPT !.pc = "check"]
    OBVIOUS
  <2>2. /\ j \in Job /\ j.cart = c /\ j.pc = "check" /\ j.row = job[t].row
    BY <1>2, <1>4, <2>1 DEF Job
  <2>3. JobFits(j)
    BY <1>4, <1>5, <2>2 DEF JobFits
  <2>4. PICK cart : cart = UpdateLocalItemMap(carts[c], i, p)
    OBVIOUS
  <2>5. Store(c, cart, RowKD, FALSE) /\ Goto(t, j)
    BY <1>2, <1>3, <1>6, <1>10, <2>1, <2>4 DEF CopyDepartment
  <2>6. /\ cart \in CartRecord /\ cart.state = carts[c].state
        /\ Kept(cart) = Kept(carts[c])
    BY <1>4, <1>6, <1>10, <2>4, CopyType, CopyEffect
  <2>7. WorkStep(t, j, c, cart)
    BY <1>1, <1>2, <1>4, <1>7, <2>2, <2>5, <2>6 DEF WorkStep, Store
  <2>8. UNCHANGED <<journal, image>>
    BY <2>5 DEF Store, NothingWritten
  <2>9. Journals(c, cart, RowKD, Latest(c))
    BY <2>8 DEF Journals
  <2>10. OneAtATime => Accounted(t, j, c, cart, RowKD, Latest(c))
    BY <1>4, <2>2, <2>6, <2>8 DEF Accounted, InFlight
  <2> QED BY <1>4, <2>2, <2>3, <2>6, <2>7, <2>9, <2>10, RequestStep
<1> QED BY <1>9, <1>10

LEMMA CopyItemStep ==
  ASSUME IndInv, NEW t \in Threads, CopyItem(t)
  PROVE  IndInv'
<1>1. phase = "up" /\ job[t].pc = "copyItem"
  BY DEF CopyItem
<1>2. PICK c : job[t].cart = c
  OBVIOUS
<1>3. PICK i : i = JobItem(job[t])
  OBVIOUS
<1>4. PICK p : p = job[t].price
  OBVIOUS
<1>5. PICK j : j = [job[t] EXCEPT !.pc = "keep"]
  OBVIOUS
<1>6. /\ job[t] \in Job /\ JobFits(job[t]) /\ c \in sessions /\ c \in CartIds
      /\ carts[c] \in CartRecord /\ carts[c].state \in {"ready", "voided"}
      /\ OneAtATime => /\ \A u \in Threads : Working(u, c) => u = t
                       /\ Kept(carts[c]) = Latest(c) /\ carts[c].state = "ready"
  BY <1>1, <1>2, AtWork DEF Numbering, InFlight
<1>7. i \in Items /\ p \in Prices /\ ~PriceChanges /\ job[t].row.kind \in {"IA", "IV"}
  BY <1>1, <1>3, <1>4, <1>6, JobRow DEF JobFits
<1>8. /\ j \in Job /\ j.cart = c /\ j.pc = "keep" /\ j.row = job[t].row /\ j.price = p
      /\ JobItem(j) = i
  BY <1>2, <1>3, <1>4, <1>5, <1>6 DEF Job, JobItem
<1>9. JobFits(j)
  BY <1>6, <1>7, <1>8 DEF JobFits
<1>10. PICK new : new = UpdateLocalItemMap(carts[c], i, p)
  OBVIOUS
<1>11. /\ new \in CartRecord /\ Kept(new) \in KeptRecord
       /\ Kept(new) = Effect(Kept(carts[c]), RowKI(i, p))
  BY <1>6, <1>7, <1>10, CopyType, KeptType, CopyEffect
<1>12. Goto(t, j) /\ Grows(c, RowKI(i, p), Kept(new)) /\ carts' = carts
       /\ UNCHANGED <<phase, sessions, registry, nextNumber, archive, disk, files, posFile,
                      loading, pending, issued, served, crashes>>
  BY <1>2, <1>3, <1>4, <1>5, <1>10 DEF CopyItem, Written, Grows, memory
<1>13. carts' = [carts EXCEPT ![c] = carts[c]]
  BY <1>6, <1>12 DEF IndInv, Base, TypeOK
<1>14. WorkStep(t, j, c, carts[c])
  BY <1>1, <1>2, <1>6, <1>8, <1>12, <1>13, WorkRest DEF WorkStep
<1>15. Journals(c, carts[c], RowKI(i, p), Kept(new))
  BY <1>7, <1>11, <1>12, RowsType DEF Journals, RowKI, RowCV
<1>16. OneAtATime => Accounted(t, j, c, carts[c], RowKI(i, p), Kept(new))
  BY <1>6, <1>8, <1>10, <1>11, <1>12 DEF Accounted, InFlight
<1> QED BY <1>6, <1>8, <1>9, <1>14, <1>15, <1>16, RequestStep

LEMMA KeepItemStep ==
  ASSUME IndInv, NEW t \in Threads, KeepItem(t)
  PROVE  IndInv'
<1>1. phase = "up" /\ job[t].pc = "keep"
  BY DEF KeepItem
<1>2. PICK c : job[t].cart = c
  OBVIOUS
<1>3. PICK i : i = JobItem(job[t])
  OBVIOUS
<1>4. PICK p : p = job[t].price
  OBVIOUS
<1>5. PICK j : j = [job[t] EXCEPT !.pc = "check", !.price = 0]
  OBVIOUS
<1>6. /\ job[t] \in Job /\ JobFits(job[t]) /\ c \in sessions /\ c \in CartIds
      /\ carts[c] \in CartRecord /\ carts[c].state \in {"ready", "voided"}
      /\ OneAtATime => /\ \A u \in Threads : Working(u, c) => u = t
                       /\ Latest(c) = Kept(UpdateLocalItemMap(carts[c], i, p))
  BY <1>1, <1>2, <1>3, <1>4, AtWork DEF Numbering, InFlight
<1>7. i \in Items /\ p \in Prices /\ ~PriceChanges /\ job[t].row.kind \in {"IA", "IV"}
  BY <1>1, <1>3, <1>4, <1>6, JobRow DEF JobFits
<1>8. /\ j \in Job /\ j.cart = c /\ j.pc = "check" /\ j.row = job[t].row
  BY <1>2, <1>5, <1>6 DEF Job
<1>9. JobFits(j)
  BY <1>6, <1>7, <1>8 DEF JobFits
<1>10. PICK new : new = UpdateLocalItemMap(carts[c], i, p)
  OBVIOUS
<1>11. new \in CartRecord /\ new.state = carts[c].state
  BY <1>6, <1>7, <1>10, CopyType, CopyEffect
<1>12. Goto(t, j) /\ carts' = [carts EXCEPT ![c] = new]
       /\ UNCHANGED <<phase, sessions, registry, nextNumber, archive, disk, files, posFile,
                      journal, image, loading, pending, issued, served, crashes>>
  BY <1>2, <1>3, <1>4, <1>5, <1>10 DEF KeepItem, storage
<1>13. WorkStep(t, j, c, new)
  BY <1>1, <1>2, <1>6, <1>8, <1>11, <1>12, WorkRest DEF WorkStep
<1>14. Journals(c, new, RowKD, Latest(c))
  BY <1>12 DEF Journals
<1>15. OneAtATime => Accounted(t, j, c, new, RowKD, Latest(c))
  BY <1>6, <1>8, <1>10, <1>12 DEF Accounted, InFlight
<1> QED BY <1>6, <1>8, <1>9, <1>11, <1>13, <1>14, <1>15, RequestStep

LEMMA PriceAndDiscount ==
  ASSUME IndInv, NEW j \in Job, NEW cart \in CartRecord, JobItem(j) \in Items,
         j.row.barcode \in Barcodes
  PROVE  RequestPrice(j, cart) \in Prices /\ RequestDiscount(j, RequestPrice(j, cart)) \in Int
<1>1. RequestPrice(j, cart) \in Prices
  BY Archived, PriceType DEF RequestPrice
<1>2. PICK p \in Prices : p = RequestPrice(j, cart)
  BY <1>1
<1>3. Discount[JobItem(j), p] \in Int
  <2>1. Discount \in [Items \X Prices -> Int] /\ <<JobItem(j), p>> \in Items \X Prices
    BY BaseAssumption
  <2> QED BY <2>1
<1>4. RequestDiscount(j, p) = Discount[JobItem(j), p] \/ RequestDiscount(j, p) = 0
  BY Zenon DEF RequestDiscount
<1>5. 0 \in Int
  OBVIOUS
<1> QED BY <1>1, <1>2, <1>3, <1>4, <1>5, Zenon

LEMMA CheckStep ==
  ASSUME IndInv, NEW t \in Threads, Check(t)
  PROVE  IndInv'
<1>1. phase = "up" /\ job[t].pc = "check"
  BY DEF Check
<1>2. PICK c : job[t].cart = c
  OBVIOUS
<1>3. /\ job[t] \in Job /\ JobFits(job[t]) /\ c \in sessions /\ c \in CartIds
      /\ carts[c] \in CartRecord /\ carts[c].state \in {"ready", "voided"}
      /\ OneAtATime => /\ \A u \in Threads : Working(u, c) => u = t
                       /\ Kept(carts[c]) = Latest(c)
  BY <1>1, <1>2, AtWork DEF Numbering
<1>4. JobItem(job[t]) \in Items /\ job[t].row.barcode \in Barcodes
      /\ job[t].row.kind \in {"IA", "IV"}
  BY <1>1, <1>3, JobRow
<1>5. PICK price : price = RequestPrice(job[t], carts[c])
  OBVIOUS
<1>6. PICK off : off = RequestDiscount(job[t], price)
  OBVIOUS
<1>7. price \in Prices /\ off \in Int
  BY <1>3, <1>4, <1>5, <1>6, PriceAndDiscount
<1>8. PICK k : k = [job[t] EXCEPT !.pc = "change", !.price = price, !.discount = off]
  OBVIOUS
<1>9. k \in Job /\ k.cart = c /\ k.pc = "change" /\ k.row = job[t].row
  BY <1>2, <1>3, <1>7, <1>8 DEF Job
<1>10. JobFits(k)
  BY <1>3, <1>4, <1>9 DEF JobFits
<1>11. PICK j : IF Accepts(carts[c]) THEN j = k ELSE j = Idle
  OBVIOUS
<1>12. /\ j \in Job /\ JobFits(j)
       /\ j = Idle \/ j.cart = c
       /\ j.pc \in {"idle", "change"} /\ (j.pc = "change" => carts[c].state = "ready")
  BY <1>3, <1>9, <1>10, <1>11, IdleFits DEF Accepts
<1>13. Goto(t, j) /\ carts' = [carts EXCEPT ![c] = carts[c]]
       /\ UNCHANGED <<phase, sessions, registry, nextNumber, archive, disk, files, posFile,
                      journal, image, loading, pending, issued, served, crashes>>
  <2>1. carts' = carts
        /\ UNCHANGED <<phase, sessions, registry, nextNumber, archive, disk, files, posFile,
                      journal, image, loading, pending, issued, served, crashes>>
    BY DEF Check, memory, storage
  <2>2. Goto(t, j)
    BY <1>2, <1>5, <1>6, <1>8, <1>11 DEF Check, Reply
  <2> QED BY <1>3, <2>1, <2>2 DEF IndInv, Base, TypeOK
<1>14. WorkStep(t, j, c, carts[c])
  BY <1>1, <1>2, <1>3, <1>12, <1>13, WorkRest DEF WorkStep
<1>15. Journals(c, carts[c], RowKD, Latest(c))
  BY <1>13 DEF Journals
<1>16. OneAtATime => Accounted(t, j, c, carts[c], RowKD, Latest(c))
  BY <1>3, <1>12, <1>13 DEF Accounted, InFlight
<1> QED BY <1>3, <1>12, <1>14, <1>15, <1>16, RequestStep

\* What a job changes in its cart.
LEMMA ChangedCart ==
  ASSUME IndInv, NEW j \in Job, JobFits(j), j.pc = "change", NEW cart \in CartRecord
  PROVE  /\ Changed(cart, j) \in CartRecord
         /\ Changed(cart, j).state = IF j.row = RowCV THEN "voided" ELSE cart.state
         /\ cart.state # "voided" => Kept(Changed(cart, j)) = Effect(Kept(cart), j.row)
         /\ cart.state # "voided" /\ ~RowDue(cart, j.row) /\ cart.state = "ready" =>
              Kept(Changed(cart, j)) = Kept(cart)
<1>1. /\ j.row.kind \in {"IA", "IV"} \/ j.row = RowCV
      /\ j.row = RowCV => j.row.kind = "CV"
      /\ j.row.kind \in {"IA", "IV"} =>
           JobItem(j) \in Items /\ JobItem(j) = ItemOf[j.row.barcode]
      /\ j.row.kind = "IA" => j.row = RowIA(j.row.barcode)
      /\ j.row.kind = "IV" => j.row = RowIV(j.row.barcode)
  BY JobRow
<1>2. PICK price \in Int, off \in Int : price = j.price /\ off = j.discount
  BY PricesAreIntegers DEF Job
<1>3. PICK b : b = j.row.barcode
  OBVIOUS
<1>4. PICK d : d = archive[JobItem(j)].dept
  OBVIOUS
<1>5. j.row.kind \in {"IA", "IV"} => d \in Departments
  BY <1>1, <1>4, Archived
<1>6. CASE j.row.kind = "IA"
  <2>1. Changed(cart, j) = PutItem(cart, ItemOf[b], b, d, price, off)
    BY <1>1, <1>2, <1>3, <1>4, <1>6 DEF Changed
  <2>2. PutItem(cart, ItemOf[b], b, d, price, off) \in CartRecord
    BY <1>2, <1>5, <1>6, ItemType
  <2>3. RowDue(cart, j.row) \/ cart.state # "ready"
    BY <1>6 DEF RowDue
  <2> DEFINE new == PutItem(cart, ItemOf[b], b, d, price, off)
  <2>4. /\ new.state = cart.state
        /\ cart.state # "voided" => Kept(new) = Effect(Kept(cart), RowIA(b))
    <3>1. cart \in CartRecord
      OBVIOUS
    <3>2. new.state = cart.state
      BY <3>1 DEF PutItem, CartRecord
    <3>3. cart.state # "voided" => Kept(new) = Effect(Kept(cart), RowIA(b))
      BY <3>1, PutItemEffect
    <3> QED BY <3>2, <3>3
  <2>5. j.row = RowIA(b) /\ j.row # RowCV
    BY <1>1, <1>3, <1>6
  <2> HIDE DEF new
  <2> QED BY <2>1, <2>2, <2>3, <2>4, <2>5 DEF new
<1>7. CASE j.row.kind = "IV"
  <2>1. Changed(cart, j) = TakeItem(cart, ItemOf[b], b, d, price, off)
    BY <1>1, <1>2, <1>3, <1>4, <1>7 DEF Changed
  <2>2. TakeItem(cart, ItemOf[b], b, d, price, off) \in CartRecord
    BY <1>2, <1>5, <1>7, ItemType
  <2>3. RowDue(cart, j.row) \/ cart.state # "ready" \/ ~InCart(cart, ItemOf[b])
    BY <1>3 DEF RowDue
  <2> DEFINE new == TakeItem(cart, ItemOf[b], b, d, price, off)
  <2>4. /\ new.state = cart.state
        /\ cart.state # "voided" => Kept(new) = Effect(Kept(cart), RowIV(b))
        /\ ~InCart(cart, ItemOf[b]) => new = cart
    BY TakeItemEffect
  <2>5. j.row = RowIV(b) /\ j.row # RowCV
    BY <1>1, <1>3, <1>7
  <2> HIDE DEF new
  <2> QED BY <2>1, <2>2, <2>3, <2>4, <2>5 DEF new
<1>8. CASE j.row = RowCV
  <2>1. Changed(cart, j) = [cart EXCEPT !.state = "voided"]
    BY <1>1, <1>8 DEF Changed
  <2>2. [cart EXCEPT !.state = "voided"] \in CartRecord
    BY DEF CartRecord, CartStates
  <2>3. RowDue(cart, j.row)
    BY <1>1, <1>8 DEF RowDue
  <2> QED BY <1>8, <2>1, <2>2, <2>3, VoidEffect
<1> QED BY <1>1, <1>6, <1>7, <1>8

LEMMA ChangeStep ==
  ASSUME IndInv, NEW t \in Threads, Change(t)
  PROVE  IndInv'
<1>1. phase = "up" /\ job[t].pc = "change"
  BY DEF Change
<1>2. PICK c : job[t].cart = c
  OBVIOUS
<1>3. /\ job[t] \in Job /\ JobFits(job[t]) /\ c \in sessions /\ c \in CartIds
      /\ carts[c] \in CartRecord /\ carts[c].state \in {"ready", "voided"}
      /\ OneAtATime => /\ \A u \in Threads : Working(u, c) => u = t
                       /\ Kept(carts[c]) = Latest(c) /\ carts[c].state = "ready"
  BY <1>1, <1>2, AtWork DEF Numbering, InFlight
<1>4. PICK row : row = job[t].row
  OBVIOUS
<1>5. PICK new : new = Changed(carts[c], job[t])
  OBVIOUS
<1>6. /\ new \in CartRecord
      /\ new.state = IF row = RowCV THEN "voided" ELSE carts[c].state
      /\ carts[c].state # "voided" => Kept(new) = Effect(Kept(carts[c]), row)
      /\ carts[c].state = "ready" /\ ~RowDue(carts[c], row) => Kept(new) = Kept(carts[c])
  BY <1>1, <1>3, <1>4, <1>5, ChangedCart
<1>7. PICK j : j = [job[t] EXCEPT !.pc = IF RowDue(carts[c], row) THEN "write" ELSE "link"]
  OBVIOUS
<1>8. /\ j \in Job /\ j.cart = c /\ j.row = row
      /\ j.pc = IF RowDue(carts[c], row) THEN "write" ELSE "link"
  BY <1>2, <1>3, <1>4, <1>7 DEF Job
<1>9. /\ row.kind \in {"IA", "IV"} \/ row = RowCV
      /\ row = RowCV => RowDue(carts[c], row)
  BY <1>1, <1>3, <1>4, JobRow DEF RowDue
<1>10. JobFits(j)
  BY <1>3, <1>8, <1>9 DEF JobFits, RowCV
<1>11. Goto(t, j) /\ carts' = [carts EXCEPT ![c] = new]
       /\ UNCHANGED <<phase, sessions, registry, nextNumber, archive, disk, files, posFile,
                      journal, image, loading, pending, issued, served, crashes>>
  BY <1>2, <1>3, <1>4, <1>5, <1>7 DEF Change, storage, IndInv, Base, TypeOK
<1>12. WorkStep(t, j, c, new)
  BY <1>1, <1>2, <1>3, <1>6, <1>8, <1>11, WorkRest DEF WorkStep
<1>13. Journals(c, new, RowKD, Latest(c))
  BY <1>11 DEF Journals
<1>14. OneAtATime => Accounted(t, j, c, new, RowKD, Latest(c))
  BY <1>3, <1>6, <1>8, <1>11 DEF Accounted, InFlight
<1> QED BY <1>3, <1>6, <1>8, <1>10, <1>12, <1>13, <1>14, RequestStep

LEMMA WriteRowStep ==
  ASSUME IndInv, NEW t \in Threads, WriteRow(t)
  PROVE  IndInv'
<1>1. phase = "up" /\ job[t].pc = "write"
  BY DEF WriteRow
<1>2. PICK c : job[t].cart = c
  OBVIOUS
<1>3. PICK row : row = job[t].row
  OBVIOUS
<1>4. /\ job[t] \in Job /\ JobFits(job[t]) /\ c \in sessions /\ c \in CartIds
      /\ carts[c] \in CartRecord /\ carts[c].state \in {"ready", "voided"}
      /\ OneAtATime => /\ \A u \in Threads : Working(u, c) => u = t
                       /\ Kept(carts[c]) = Effect(Latest(c), row)
                       /\ row # RowCV => carts[c].state = "ready"
  BY <1>1, <1>2, <1>3, AtWork DEF Numbering, InFlight
<1>5. /\ row.kind \in {"IA", "IV"} \/ row = RowCV
      /\ row = RowCV => row.kind = "CV"
      /\ row \in Rows
  BY <1>1, <1>3, <1>4, JobRow
<1>6. row = RowCV => carts[c].state = "voided"
  BY <1>1, <1>2, <1>3 DEF IndInv, Base, WellFormed
<1>7. PICK k : k = [job[t] EXCEPT !.pc = "link"]
  OBVIOUS
<1>8. k \in Job /\ k.cart = c /\ k.row = row /\ k.pc = "link"
  BY <1>2, <1>3, <1>4, <1>7 DEF Job
<1>9. PICK j : IF row.kind = "CV" THEN j = Idle ELSE j = k
  OBVIOUS
<1>10. Goto(t, j) /\ carts' = carts
       /\ UNCHANGED <<phase, sessions, registry, nextNumber, archive, disk, files, posFile,
                      loading, pending, issued, served, crashes>>
  BY <1>2, <1>3, <1>7, <1>9 DEF WriteRow, Reply, memory
<1>11. carts' = [carts EXCEPT ![c] = carts[c]]
  BY <1>4, <1>10 DEF IndInv, Base, TypeOK
<1>12. j \in Job /\ JobFits(j) /\ (j = Idle \/ j.cart = c) /\ j.pc \in {"idle", "link"}
  <2>1. row.kind # "CV" => JobFits(k)
    BY <1>4, <1>5, <1>8 DEF JobFits
  <2> QED BY <1>8, <1>9, <2>1, IdleFits
<1>13. WorkStep(t, j, c, carts[c])
  BY <1>1, <1>2, <1>4, <1>10, <1>11, <1>12, WorkRest DEF WorkStep
<1>14. CASE Grows(c, row, Kept(carts[c]))
  <2>1. Journals(c, carts[c], row, Kept(carts[c]))
    BY <1>4, <1>5, <1>6, <1>14, KeptType DEF Journals
  <2>2. OneAtATime => Accounted(t, j, c, carts[c], row, Kept(carts[c]))
    BY <1>4, <1>12, <1>14 DEF Accounted, InFlight
  <2> QED BY <1>4, <1>12, <1>13, <2>1, <2>2, RequestStep
<1>15. CASE row.kind # "CV" /\ carts[c].state = "voided" /\ UNCHANGED <<journal, image>>
  <2>1. Journals(c, carts[c], row, Kept(carts[c]))
    BY <1>15 DEF Journals
  <2>2. ~OneAtATime
    BY <1>4, <1>5, <1>15
  <2> QED BY <1>4, <1>12, <1>13, <2>1, <2>2, RequestStep
<1> QED BY <1>2, <1>3, <1>14, <1>15 DEF WriteRow, Written, Grows, NothingWritten

LEMMA FollowStep ==
  ASSUME IndInv, NEW t \in Threads, Follow(t)
  PROVE  IndInv'
<1>1. phase = "up" /\ job[t].pc = "link"
  BY DEF Follow
<1>2. PICK c : job[t].cart = c
  OBVIOUS
<1>3. /\ job[t] \in Job /\ JobFits(job[t]) /\ c \in sessions /\ c \in CartIds
      /\ carts[c] \in CartRecord /\ carts[c].state \in {"ready", "voided"}
      /\ OneAtATime => /\ \A u \in Threads : Working(u, c) => u = t
                       /\ Kept(carts[c]) = Latest(c)
  BY <1>1, <1>2, AtWork DEF Numbering
<1>4. JobItem(job[t]) \in Items /\ job[t].row.kind \in {"IA", "IV"} /\ job[t].row \in Rows
  BY <1>1, <1>3, JobRow
<1>5. PICK linked : linked = archive[JobItem(job[t])].linked
  OBVIOUS
<1>6. PICK row : row = [job[t].row EXCEPT !.barcode = linked]
  OBVIOUS
<1>7. PICK k : k = [Idle EXCEPT !.cart = job[t].cart, !.row = row, !.main = FALSE]
  OBVIOUS
<1>8. PICK j : IF job[t].main /\ linked # NoBarcode THEN j = Started(k) ELSE j = Idle
  OBVIOUS
<1>9. j \in Job /\ JobFits(j) /\ (j = Idle \/ j.cart = c) /\ j.pc \in {"idle", "copy", "check"}
  <2>1. CASE linked # NoBarcode
    <3>1. linked \in Barcodes /\ ItemOf[linked] \in Items
      BY <1>4, <1>5, <2>1, Archived
    <3>2. row = RowIA(linked) \/ row = RowIV(linked)
      <4>1. job[t].row = RowIA(job[t].row.barcode) \/ job[t].row = RowIV(job[t].row.barcode)
        BY <1>3, <1>4, JobRow
      <4> QED BY <1>6, <4>1 DEF RowIA, RowIV
    <3>3. row \in Rows /\ row.kind \in {"IA", "IV"}
      <4>1. row \in Rows
        BY <3>1, <3>2, RowsType
      <4> QED BY <3>2, <4>1 DEF RowIA, RowIV
    <3>4. k \in Job /\ k.cart = c /\ k.row = row
      BY <1>2, <1>3, <1>7, <3>3, IdleFits DEF Job
    <3>5. Started(k) \in Job /\ JobFits(Started(k)) /\ Started(k).cart = c
          /\ Started(k).pc \in {"copy", "check"}
      BY <1>3, <3>3, <3>4, StartedFits
    <3> QED BY <1>8, <3>5, IdleFits
  <2>2. CASE linked = NoBarcode
    BY <1>8, <2>2, IdleFits
  <2> QED BY <2>1, <2>2
<1>10. Goto(t, j) /\ carts' = carts
       /\ UNCHANGED <<phase, sessions, registry, nextNumber, archive, disk, files, posFile,
                      journal, image, loading, pending, issued, served, crashes>>
  BY <1>5, <1>6, <1>7, <1>8 DEF Follow, LinkedRequest, Reply, memory, storage
<1>11. carts' = [carts EXCEPT ![c] = carts[c]]
  BY <1>3, <1>10 DEF IndInv, Base, TypeOK
<1>12. WorkStep(t, j, c, carts[c])
  BY <1>1, <1>2, <1>3, <1>9, <1>10, <1>11, WorkRest DEF WorkStep
<1>13. Journals(c, carts[c], RowKD, Latest(c))
  BY <1>10 DEF Journals
<1>14. OneAtATime => Accounted(t, j, c, carts[c], RowKD, Latest(c))
  BY <1>3, <1>9, <1>10 DEF Accounted, InFlight
<1> QED BY <1>3, <1>9, <1>12, <1>13, <1>14, RequestStep

LEMMA RegisterStep ==
  ASSUME IndInv, NEW t \in Threads, Register(t)
  PROVE  IndInv'
<1>1. phase = "up" /\ job[t].pc = "register"
  BY DEF Register
<1>2. PICK c : job[t].cart = c
  OBVIOUS
<1>3. PICK k : k = job[t].row.card
  OBVIOUS
<1>4. /\ job[t] \in Job /\ c \in sessions /\ c \in CartIds
      /\ carts[c] \in CartRecord /\ carts[c].state \in {"ready", "voided"}
      /\ OneAtATime => /\ \A u \in Threads : Working(u, c) => u = t
                       /\ Kept(carts[c]) = Latest(c)
      /\ job[t].row.kind = "LA"
  BY <1>1, <1>2, AtWork DEF Numbering, JobFits
<1>5. k \in Cards
  <2>1. job[t].row \in Rows
    BY <1>4 DEF Job, NoRow
  <2> QED BY <1>3, <1>4, <2>1, RowKinds
<1>6. PICK new : new = AddLoyCard(carts[c], k)
  OBVIOUS
<1>7. /\ new \in CartRecord /\ new.state = carts[c].state
      /\ Kept(new) = Effect(Kept(carts[c]), RowLA(k))
      /\ ~LoyRoom(carts[c].loy, k) => Kept(new) = Kept(carts[c])
      /\ carts[c].state = "voided" => Kept(new) = Kept(carts[c])
  <2>1. /\ new.state = carts[c].state /\ Kept(new) = Effect(Kept(carts[c]), RowLA(k))
        /\ ~LoyRoom(carts[c].loy, k) => Kept(new) = Kept(carts[c])
    BY <1>4, <1>6, AddLoyCardEffect
  <2> QED BY <1>4, <1>5, <1>6, <2>1, LoyType, EffectOnVoided
<1>8. /\ Goto(t, Idle)
      /\ Store(c, new, RowLA(k), carts[c].state = "ready" /\ LoyRoom(carts[c].loy, k))
      /\ registry' = [registry EXCEPT ![k] = c]
      /\ UNCHANGED <<phase, sessions, nextNumber, archive, disk, files, posFile,
                     loading, pending, issued, served, crashes>>
  BY <1>2, <1>3, <1>6 DEF Register, Reply
<1>9. carts' = [carts EXCEPT ![c] = new]
  BY <1>8 DEF Store
<1>10. WorkStep(t, Idle, c, new)
  BY <1>1, <1>2, <1>4, <1>7, <1>8, <1>9, IdleFits DEF WorkStep, IndInv, Base, TypeOK
<1>11. CASE carts[c].state = "ready" /\ LoyRoom(carts[c].loy, k)
  <2>1. Grows(c, RowLA(k), Kept(new))
    BY <1>8, <1>11 DEF Store, Written, Grows
  <2>2. Journals(c, new, RowLA(k), Kept(new))
    BY <1>5, <1>7, <2>1, RowsType, KeptType DEF Journals, RowLA, RowCV
  <2>3. OneAtATime => Accounted(t, Idle, c, new, RowLA(k), Kept(new))
    BY <1>4, <1>7, <2>1, IdleFits DEF Accounted
  <2> QED BY <1>4, <1>7, <1>10, <2>2, <2>3, IdleFits, RequestStep
<1>12. CASE ~(carts[c].state = "ready" /\ LoyRoom(carts[c].loy, k))
  <2>1. UNCHANGED <<journal, image>>
    BY <1>8, <1>12 DEF Store, NothingWritten
  <2>2. Journals(c, new, RowKD, Latest(c))
    BY <2>1 DEF Journals
  <2>3. OneAtATime => Accounted(t, Idle, c, new, RowKD, Latest(c))
    BY <1>4, <1>7, <1>12, <2>1, IdleFits DEF Accounted
  <2> QED BY <1>4, <1>7, <1>10, <2>2, <2>3, IdleFits, RequestStep
<1> QED BY <1>11, <1>12

LEMMA CustomerVoidStep ==
  ASSUME IndInv, NEW t \in Threads, NEW c \in sessions, NEW k \in Cards,
         CustomerVoid(t, c, k)
  PROVE  IndInv'
<1>1. /\ phase = "up" /\ job[t] = Idle /\ served' \in Nat
      /\ OneAtATime => \A u \in Threads : ~Working(u, c)
  BY DEF CustomerVoid, Serve, IndInv, Base, TypeOK
<1>2. PICK old : old = GetNextRequestId(carts[c])
  OBVIOUS
<1>3. PICK new : new = RemoveLoyCard(old, k)
  OBVIOUS
<1>4. /\ c \in CartIds /\ carts[c] \in CartRecord /\ old \in CartRecord
      /\ carts[c].state \in {"ready", "voided"} /\ old.state = carts[c].state
      /\ Kept(old) = Kept(carts[c])
  BY <1>1, <1>2, LiveCart, RequestType, RequestKeeps
<1>5. /\ new \in CartRecord /\ new.state = old.state
      /\ Kept(new) = Effect(Kept(old), RowLV(k))
      /\ k \notin CardsIn(old.loy) => Kept(new) = Kept(old)
      /\ old.state = "voided" => Kept(new) = Kept(old)
  <2>1. /\ new.state = old.state /\ Kept(new) = Effect(Kept(old), RowLV(k))
        /\ k \notin CardsIn(old.loy) => Kept(new) = Kept(old)
    BY <1>3, <1>4, RemoveLoyCardEffect
  <2> QED BY <1>3, <1>4, <2>1, LoyType, EffectOnVoided
<1>6. /\ Goto(t, Idle)
      /\ Store(c, new, RowLV(k), old.state = "ready" /\ k \in CardsIn(old.loy))
      /\ UNCHANGED <<phase, sessions, registry, nextNumber, archive, disk, files, posFile,
                     loading, pending, issued, crashes>>
  BY <1>2, <1>3 DEF CustomerVoid, Reply
<1>7. carts' = [carts EXCEPT ![c] = new]
  BY <1>6 DEF Store
<1>8. WorkStep(t, Idle, c, new)
  BY <1>1, <1>4, <1>5, <1>6, <1>7, IdleFits DEF WorkStep, IndInv, Base, TypeOK
<1>9. OneAtATime => Kept(carts[c]) = Latest(c)
  BY <1>1, Standing
<1>10. CASE old.state = "ready" /\ k \in CardsIn(old.loy)
  <2>1. Grows(c, RowLV(k), Kept(new))
    BY <1>6, <1>10 DEF Store, Written, Grows
  <2>2. Journals(c, new, RowLV(k), Kept(new))
    BY <1>5, <2>1, RowsType, KeptType DEF Journals, RowLV, RowCV
  <2>3. OneAtATime => Accounted(t, Idle, c, new, RowLV(k), Kept(new))
    BY <1>1, <1>4, <1>5, <1>9, <2>1, IdleFits DEF Accounted
  <2> QED BY <1>4, <1>5, <1>8, <2>2, <2>3, IdleFits, RequestStep
<1>11. CASE ~(old.state = "ready" /\ k \in CardsIn(old.loy))
  <2>1. UNCHANGED <<journal, image>>
    BY <1>6, <1>11 DEF Store, NothingWritten
  <2>2. Journals(c, new, RowKD, Latest(c))
    BY <2>1 DEF Journals
  <2>3. OneAtATime => Accounted(t, Idle, c, new, RowKD, Latest(c))
    BY <1>1, <1>4, <1>5, <1>9, <1>11, <2>1, IdleFits DEF Accounted
  <2> QED BY <1>4, <1>5, <1>8, <2>2, <2>3, IdleFits, RequestStep
<1> QED BY <1>10, <1>11

LEMMA WriteHeaderStep ==
  ASSUME IndInv, NEW t \in Threads, WriteHeader(t)
  PROVE  IndInv'
<1>1. phase = "up" /\ job[t].pc = "header"
  BY DEF WriteHeader
<1>2. PICK c : job[t].cart = c
  OBVIOUS
<1>3. /\ job[t] \in Job /\ JobFits(job[t]) /\ c \in sessions /\ c \in CartIds
      /\ carts[c] \in CartRecord /\ carts[c].state \in {"ready", "voided"}
      /\ OneAtATime => /\ \A u \in Threads : Working(u, c) => u = t
                       /\ Kept(carts[c]) = Latest(c)
  BY <1>1, <1>2, AtWork DEF Numbering
<1>4. PICK h :
        /\ \E k \in Cards \cup {NoCard} :
             h = [station |-> job[t].header.station, customer |-> k,
                  count |-> carts[c].goods.itemsNumber, amount |-> carts[c].totals[0].amount]
        /\ Goto(t, [job[t] EXCEPT !.pc = "send", !.header = h])
  BY <1>2 DEF WriteHeader
<1>5. PICK j : j = [job[t] EXCEPT !.pc = "send", !.header = h]
  OBVIOUS
<1>6. h \in Header /\ h.station = job[t].header.station
  <2>1. carts[c].goods \in Goods /\ carts[c].totals \in Totals /\ 0 \in TotalKeys
    BY <1>3 DEF CartRecord, TotalKeys
  <2>2. carts[c].goods.itemsNumber \in Int /\ carts[c].totals[0].amount \in Int
    BY <2>1 DEF Goods, Totals
  <2>3. job[t].header.station \in PayStations
    BY <1>1, <1>3 DEF JobFits
  <2> QED BY <1>4, <2>2, <2>3 DEF Header
<1>7. j \in Job /\ j.cart = c /\ j.pc = "send" /\ j.header = h
  BY <1>2, <1>3, <1>5, <1>6 DEF Job
<1>8. JobFits(j)
  BY <1>1, <1>3, <1>6, <1>7 DEF JobFits
<1>9. Goto(t, j) /\ carts' = carts
      /\ UNCHANGED <<phase, sessions, registry, nextNumber, archive, disk, files, posFile,
                     journal, image, loading, pending, issued, served, crashes>>
  BY <1>4, <1>5 DEF WriteHeader, memory, storage
<1>10. carts' = [carts EXCEPT ![c] = carts[c]]
  BY <1>3, <1>9 DEF IndInv, Base, TypeOK
<1>11. WorkStep(t, j, c, carts[c])
  BY <1>1, <1>2, <1>3, <1>7, <1>9, <1>10, WorkRest DEF WorkStep
<1>12. Journals(c, carts[c], RowKD, Latest(c))
  BY <1>9 DEF Journals
<1>13. OneAtATime => Accounted(t, j, c, carts[c], RowKD, Latest(c))
  BY <1>3, <1>7, <1>9 DEF Accounted, InFlight
<1> QED BY <1>3, <1>7, <1>8, <1>11, <1>12, <1>13, RequestStep

LEMMA SendRowsStep ==
  ASSUME IndInv, NEW t \in Threads, SendRows(t)
  PROVE  IndInv'
<1>1. phase = "up" /\ job[t].pc = "send"
  BY DEF SendRows
<1>2. PICK c : job[t].cart = c
  OBVIOUS
<1>3. /\ job[t] \in Job /\ c \in sessions /\ c \in CartIds
      /\ carts[c] \in CartRecord /\ carts[c].state \in {"ready", "voided"}
      /\ OneAtATime => /\ \A u \in Threads : Working(u, c) => u = t
                       /\ Kept(carts[c]) = Latest(c)
  BY <1>1, <1>2, AtWork DEF Numbering
<1>4. PICK document, p :
        /\ document = [cart |-> c, customer |-> job[t].header.customer,
                       count |-> job[t].header.count, amount |-> job[t].header.amount,
                       rows |-> carts[c].goods.barcodes]
        /\ posFile' = [posFile EXCEPT ![p] = document]
  BY <1>2 DEF SendRows
<1>5. document \in PosDocument
  <2>1. /\ job[t].header.customer \in Cards \cup {NoCard}
        /\ job[t].header.count \in Int /\ job[t].header.amount \in Int
    BY <1>3 DEF Job, Header
  <2>2. carts[c].goods \in Goods
    BY <1>3 DEF CartRecord
  <2>3. carts[c].goods.barcodes \in [Barcodes -> Nat]
    BY <2>2 DEF Goods
  <2> QED BY <1>3, <1>4, <2>1, <2>3 DEF PosDocument
<1>6. posFile' \in [PayStations -> PosDocument \cup {NoFile}]
  BY <1>4, <1>5 DEF IndInv, Base, TypeOK
<1>7. Goto(t, Idle) /\ carts' = carts
      /\ UNCHANGED <<phase, sessions, registry, nextNumber, archive, disk, files,
                     journal, image, loading, pending, issued, served, crashes>>
  BY DEF SendRows, Reply, memory
<1>8. carts' = [carts EXCEPT ![c] = carts[c]]
  BY <1>3, <1>7 DEF IndInv, Base, TypeOK
<1>9. WorkStep(t, Idle, c, carts[c])
  BY <1>1, <1>2, <1>3, <1>6, <1>7, <1>8, IdleFits DEF WorkStep, IndInv, Base, TypeOK
<1>10. Journals(c, carts[c], RowKD, Latest(c))
  BY <1>7 DEF Journals
<1>11. OneAtATime => Accounted(t, Idle, c, carts[c], RowKD, Latest(c))
  BY <1>3, <1>7, IdleFits DEF Accounted
<1> QED BY <1>3, <1>9, <1>10, <1>11, IdleFits, RequestStep

\* Steps that touch no session and no request.
LEMMA QuietStep ==
  ASSUME IndInv, UNCHANGED <<sessions, carts, journal, image, loading, job>>, TypeOK', WellFormed'
  PROVE  IndInv'
<1>1. StatesMatchPhase' /\ VoidRows'
  BY DEF IndInv, Base, StatesMatchPhase, VoidRows, RowsIn
<1>2. ASSUME OneAtATime
      PROVE  Accounts'
  <2>1. Accounts
    BY <1>2 DEF IndInv
  <2>2. JournalAccounts' /\ ReplayFollowsTheLiveSession' /\ SessionsAreJournalled'
    BY <2>1 DEF Accounts, JournalAccounts, ReplayFollowsTheLiveSession, SessionsAreJournalled,
                Settled, KeptAt
  <2>3. Polite'
    BY <2>1 DEF Accounts, Polite, Working, Latest, KeptAt
  <2> QED BY <2>2, <2>3 DEF Accounts
<1> QED BY <1>1, <1>2 DEF IndInv, Base

LEMMA ApplyVariationStep ==
  ASSUME IndInv, ApplyVariation
  PROVE  IndInv'
<1>1. /\ archive' \in [Items -> ArchiveRecord]
      /\ \A i \in Items : archive'[i].linked # NoBarcode => ItemOf[archive'[i].linked] \in Items
  <2>1. PICK v \in Variations :
          archive' = [archive EXCEPT ![v[1]] =
                        [price |-> v[2], dept |-> v[3], linked |-> NoBarcode]]
    BY DEF ApplyVariation
  <2> DEFINE new == [price |-> v[2], dept |-> v[3], linked |-> NoBarcode]
  <2>2. new \in ArchiveRecord /\ new.linked = NoBarcode
    BY BaseAssumption DEF ArchiveRecord
  <2> HIDE DEF new
  <2>3. archive' = [archive EXCEPT ![v[1]] = new]
    BY <2>1 DEF new
  <2> QED BY <2>2, <2>3 DEF IndInv, Base, TypeOK, WellFormed
<1>2. UNCHANGED <<phase, sessions, carts, registry, nextNumber, disk, files, journal, posFile,
                  job, loading, pending, issued, image, served, crashes>>
  BY DEF ApplyVariation, storage
<1>3. TypeOK' /\ WellFormed'
  BY <1>1, <1>2 DEF IndInv, Base, TypeOK, WellFormed, JobFits
<1> QED BY <1>2, <1>3, QuietStep

LEMMA DumpItemsStep ==
  ASSUME IndInv, DumpItems
  PROVE  IndInv'
<1>1. /\ disk' = archive
      /\ UNCHANGED <<phase, sessions, carts, registry, nextNumber, archive, files, journal,
                     posFile, job, loading, pending, issued, image, served, crashes>>
  BY DEF DumpItems, memory
<1>2. TypeOK' /\ WellFormed'
  BY <1>1 DEF IndInv, Base, TypeOK, WellFormed, JobFits
<1> QED BY <1>1, <1>2, QuietStep

-----------------------------------------------------------------------------
(* Crashes and restarts. *)

LEMMA CrashStep ==
  ASSUME IndInv, Crash
  PROVE  IndInv'
<1>1. /\ phase' = "down" /\ sessions' = {} /\ pending' = {} /\ loading' = NotLoading
      /\ carts' = [c \in CartIds |-> NewCart("ready")]
      /\ registry' = [k \in Cards |-> NoOwner] /\ nextNumber' = 1
      /\ job' = [t \in Threads |-> Idle] /\ crashes' = crashes + 1
      /\ UNCHANGED <<archive, disk, files, journal, posFile, issued, image, served>>
  BY DEF Crash, storage
<1>2. NewCart("ready") \in CartRecord
  BY NewCartType DEF CartStates
<1>3. loading' \in [cart : {0} \cup CartIds, row : Nat] /\ crashes' \in Nat
  BY <1>1 DEF NotLoading, IndInv, Base, TypeOK
<1>4. TypeOK'
  BY <1>1, <1>2, <1>3, IdleFits DEF IndInv, Base, TypeOK
<1>5. \A t \in Threads : JobFits(job[t])' /\ job'[t] = Idle
  <2> TAKE t \in Threads
  <2>1. job'[t] = Idle /\ JobFits(job'[t])
    BY <1>1, IdleFits
  <2> QED BY <2>1 DEF JobFits
<1>6. WellFormed'
  BY <1>1, <1>5, IdleFits DEF IndInv, Base, WellFormed
<1>7. StatesMatchPhase' /\ VoidRows'
  BY <1>1 DEF StatesMatchPhase, VoidRows
<1>8. ASSUME OneAtATime
      PROVE  Accounts'
  <2>1. JournalAccounts'
    <3>1. journal' = journal /\ image' = image /\ JournalAccounts
      BY <1>1, <1>8 DEF IndInv, Accounts
    <3> QED BY <3>1 DEF JournalAccounts
  <2>2. SessionsAreJournalled' /\ ReplayFollowsTheLiveSession'
    BY <1>1 DEF SessionsAreJournalled, ReplayFollowsTheLiveSession
  <2>3. Polite'
    BY <1>5, IdleFits DEF Polite, Working
  <2> QED BY <2>1, <2>2, <2>3 DEF Accounts
<1> QED BY <1>4, <1>6, <1>7, <1>8 DEF IndInv, Base

LEMMA BootStep ==
  ASSUME IndInv, Boot
  PROVE  IndInv'
<1>1. /\ phase = "down" /\ phase' = "loading" /\ archive' = disk /\ nextNumber' = 1
      /\ pending' = files
      /\ UNCHANGED <<sessions, carts, registry, disk, files, journal, posFile, job, loading,
                     issued, image, served, crashes>>
  BY DEF Boot, storage, FilesFound
<1>2. TypeOK'
  BY <1>1 DEF IndInv, Base, TypeOK
<1>3. WellFormed'
  BY <1>1 DEF IndInv, Base, WellFormed, JobFits
<1> QED BY <1>1, <1>2, <1>3, QuietStep

LEMMA FinishBootStep ==
  ASSUME IndInv, FinishBoot
  PROVE  IndInv'
<1>1. /\ phase = "loading" /\ phase' = "up" /\ loading = NotLoading /\ pending = {}
      /\ UNCHANGED <<sessions, carts, registry, nextNumber, archive, disk, files, journal,
                     posFile, job, loading, pending, issued, image, served, crashes>>
  BY DEF FinishBoot, memory, storage
<1>2. TypeOK'
  BY <1>1 DEF IndInv, Base, TypeOK
<1>3. WellFormed'
  BY <1>1 DEF IndInv, Base, WellFormed, JobFits
<1> QED BY <1>1, <1>2, <1>3, QuietStep

\* Steps of the boot that change one cart, c, while no thread works, and leave
\* it with the first n rows of its journal.
LEMMA LoadingStep ==
  ASSUME IndInv, phase = "loading", NEW c \in CartIds, NEW cart \in CartRecord, NEW n \in Nat,
         carts' = [carts EXCEPT ![c] = cart],
         sessions' = sessions \cup {c}, pending' = pending \ {c} \/ pending' = pending,
         c \in pending \cup sessions,
         UNCHANGED <<phase, archive, disk, files, journal, posFile, job, issued, image,
                     served, crashes>>,
         registry' \in [Cards -> CartIds \cup {NoOwner}], nextNumber' \in Nat,
         loading' \in [cart : {0, c}, row : Nat],
         loading' # NotLoading => loading'.cart = c /\ loading'.row = n,
         n <= Len(journal[c]), loading' = NotLoading => n = Len(journal[c]),
         loading # NotLoading => loading.cart = c,
         IF loading' = NotLoading THEN cart.state \in {"ready", "voided"}
                                  ELSE cart.state \in {"loading", "voided"},
         (\E m \in 1..n : journal[c][m] = RowCV) => cart.state = "voided",
         OneAtATime => Kept(cart) = KeptAt(c, n)
  PROVE  IndInv'
<1>1. 0 \notin CartIds /\ NotLoading.cart = 0 /\ sessions \subseteq CartIds
  BY DEF CartIds, NotLoading, IndInv, Base, TypeOK
<1>2. TypeOK'
  BY DEF IndInv, Base, TypeOK
<1>3. WellFormed'
  <2>1. \A t \in Threads : JobFits(job[t])' /\ job'[t] = Idle
    BY DEF IndInv, Base, WellFormed, JobFits
  <2>2. files = sessions' \cup pending'
    BY DEF IndInv, Base, WellFormed
  <2>3. \A d \in CartIds \ files : journal'[d] = << >>
    BY DEF IndInv, Base, WellFormed
  <2> QED BY <2>1, <2>2, <2>3, IdleFits DEF IndInv, Base, WellFormed
<1>4. carts'[c] = cart /\ \A d \in CartIds \ {c} : carts'[d] = carts[d]
  BY DEF IndInv, Base, TypeOK
<1>5. \A d \in sessions : d # c => d # loading.cart
  BY <1>1
<1>6. loading' = NotLoading \/ loading'.cart = c
  OBVIOUS
<1>7. StatesMatchPhase'
  <2> SUFFICES ASSUME NEW d \in sessions'
               PROVE  IF d = loading'.cart THEN carts'[d].state \in {"loading", "voided"}
                                           ELSE carts'[d].state \in {"ready", "voided"}
    BY DEF StatesMatchPhase
  <2>1. CASE d = c
    BY <1>1, <1>4, <1>6, <2>1
  <2>2. CASE d # c
    <3>1. d \in sessions /\ d \in CartIds /\ d # loading.cart /\ d # loading'.cart
      BY <1>1, <1>5, <1>6, <2>2
    <3> QED BY <1>4, <2>2, <3>1 DEF IndInv, Base, StatesMatchPhase
  <2> QED BY <2>1, <2>2
<1>8. VoidRows'
  <2> SUFFICES ASSUME NEW d \in sessions', \E m \in 1..RowsIn(d)' : journal[d][m] = RowCV
               PROVE  carts'[d].state = "voided"
    BY DEF VoidRows, RowsIn
  <2>1. CASE d = c
    <3>1. RowsIn(d)' = n
      BY <1>1, <1>6, <2>1 DEF RowsIn
    <3> QED BY <1>4, <2>1, <3>1
  <2>2. CASE d # c
    <3>1. d \in sessions /\ d \in CartIds /\ d # loading.cart /\ d # loading'.cart
      BY <1>1, <1>5, <1>6, <2>2
    <3>2. RowsIn(d)' = Len(journal[d]) /\ RowsIn(d) = Len(journal[d])
      BY <3>1 DEF RowsIn
    <3> QED BY <1>4, <2>2, <3>1, <3>2 DEF IndInv, Base, VoidRows
  <2> QED BY <2>1, <2>2
<1>9. ASSUME OneAtATime
      PROVE  Accounts'
  <2>1. Accounts
    BY <1>9 DEF IndInv
  <2>2. JournalAccounts'
    <3>1. journal' = journal /\ image' = image /\ JournalAccounts
      BY <2>1 DEF Accounts
    <3> QED BY <3>1 DEF JournalAccounts
  <2>3. ReplayFollowsTheLiveSession'
    <3> SUFFICES ASSUME loading' # NotLoading
                 PROVE  Kept(carts'[loading'.cart]) = image[loading'.cart][loading'.row + 1]
      BY DEF ReplayFollowsTheLiveSession, KeptAt
    <3>1. loading'.cart = c /\ loading'.row = n /\ Kept(cart) = KeptAt(c, n)
      BY <1>9
    <3> QED BY <1>4, <3>1 DEF KeptAt
  <2>4. SessionsAreJournalled'
    <3> SUFFICES ASSUME NEW d \in sessions' \ {loading'.cart}
                 PROVE  Kept(carts'[d]) = image[d][Len(journal[d]) + 1]
      BY DEF SessionsAreJournalled, KeptAt
    <3>1. CASE d = c
      BY <1>4, <1>6, <1>9, <3>1 DEF KeptAt
    <3>2. CASE d # c
      <4>1. d \in sessions \ {loading.cart} /\ d \in CartIds
        BY <1>1, <1>5, <3>2
      <4>2. Settled(d)
        BY IdleFits DEF IndInv, Base, WellFormed, Settled
      <4> QED BY <1>4, <1>9, <2>1, <3>2, <4>1, <4>2 DEF Accounts, SessionsAreJournalled, KeptAt
    <3> QED BY <3>1, <3>2
  <2>5. Polite'
    <3>1. \A t \in Threads : job'[t] = Idle
      BY DEF IndInv, Base, WellFormed
    <3> QED BY <3>1, IdleFits DEF Polite, Working
  <2> QED BY <2>2, <2>3, <2>4, <2>5 DEF Accounts
<1> QED BY <1>2, <1>3, <1>7, <1>8, <1>9 DEF IndInv, Base

LEMMA LoadFileStep ==
  ASSUME IndInv, LoadFile
  PROVE  IndInv'
<1>1. PICK c \in pending :
        /\ pending' = pending \ {c} /\ sessions' = sessions \cup {c}
        /\ loading' = [cart |-> c, row |-> 0]
        /\ carts' = [carts EXCEPT ![c] = NewCart("loading")]
  BY DEF LoadFile, FilesLeft
<1>2. /\ phase = "loading" /\ loading = NotLoading
      /\ UNCHANGED <<phase, registry, nextNumber, archive, disk, files, journal, posFile, job,
                     issued, image, served, crashes>>
      /\ registry' \in [Cards -> CartIds \cup {NoOwner}] /\ nextNumber' \in Nat
  BY DEF LoadFile, storage, IndInv, Base, TypeOK
<1> DEFINE cart == NewCart("loading")
<1>3. c \in CartIds /\ cart \in CartRecord /\ cart.state = "loading" /\ c # 0
  BY NewCartType DEF IndInv, Base, TypeOK, CartStates, NewCart, CartIds
<1>4. OneAtATime => Kept(cart) = KeptAt(c, 0)
  <2>1. Kept(cart) = Kept(NewCart("ready"))
    BY DEF Kept, NewCart
  <2>2. OneAtATime => image[c][1] = Kept(NewCart("ready"))
    BY <1>3 DEF IndInv, Accounts, JournalAccounts
  <2> QED BY <2>1, <2>2 DEF KeptAt
<1>5. /\ loading' \in [cart : {0, c}, row : Nat] /\ loading' # NotLoading
      /\ loading'.cart = c /\ loading'.row = 0
  BY <1>1, <1>3 DEF NotLoading
<1>6. 0 <= Len(journal[c])
  <2>1. journal[c] \in Seq(Rows)
    BY <1>3 DEF IndInv, Base, TypeOK
  <2> QED BY <2>1
<1> HIDE DEF cart
<1>7. carts' = [carts EXCEPT ![c] = cart]
  BY <1>1 DEF cart
<1>8. ~\E m \in 1..0 : journal[c][m] = RowCV
  OBVIOUS
<1> QED BY <1>1, <1>2, <1>3, <1>4, <1>5, <1>6, <1>7, <1>8, LoadingStep

\* Replaying a row has, on a cart being loaded, the effect of the row.
LEMMA ReplayEffect ==
  ASSUME IndInv, NEW cart \in CartRecord, NEW row \in Rows,
         cart.state \in {"loading", "voided"}
  PROVE  /\ Replay(cart, row) \in CartRecord
         /\ Replay(cart, row).state \in {"loading", "voided"}
         /\ Kept(Replay(cart, row)) = Effect(Kept(cart), row)
         /\ cart.state = "voided" \/ row = RowCV => Replay(cart, row).state = "voided"
<1>1. CASE row = RowKD
  BY <1>1, DepartmentRowEffect DEF Replay, RowKD, RowCV
<1>2. CASE row = RowCV
  <2>1. Replay(cart, row) = [cart EXCEPT !.state = "voided"]
    BY <1>2 DEF Replay, RowCV
  <2>2. [cart EXCEPT !.state = "voided"] \in CartRecord
    BY DEF CartRecord, CartStates
  <2> QED BY <1>2, <2>1, <2>2, VoidEffect
<1>3. ASSUME NEW i \in Items, NEW p \in Prices, row = RowKI(i, p)
      PROVE  /\ Replay(cart, row) \in CartRecord
             /\ Replay(cart, row).state \in {"loading", "voided"}
             /\ Kept(Replay(cart, row)) = Effect(Kept(cart), row)
             /\ row # RowCV /\ Replay(cart, row).state = cart.state
  <2>1. CASE PriceChanges
    <3>1. Replay(cart, row) = cart
      BY <1>3, <2>1 DEF Replay, RowKI
    <3>2. Effect(Kept(cart), row) = Kept(cart)
      BY <1>3, <2>1 DEF Effect, RowKI
    <3> QED BY <1>3, <3>1, <3>2 DEF RowKI, RowCV
  <2>2. CASE ~PriceChanges
    <3>1. Replay(cart, row) = UpdateLocalItemMap(cart, i, p)
      BY <1>3, <2>2 DEF Replay, RowKI
    <3>2. row # RowCV
      BY <1>3 DEF RowKI, RowCV
    <3> QED BY <1>3, <2>2, <3>1, <3>2, CopyType, CopyEffect
  <2> QED BY <2>1, <2>2
<1>4. ASSUME NEW b \in KnownBarcodes, row = RowIA(b) \/ row = RowIV(b)
      PROVE  /\ Replay(cart, row) \in CartRecord
             /\ Replay(cart, row).state \in {"loading", "voided"}
             /\ Kept(Replay(cart, row)) = Effect(Kept(cart), row)
             /\ row # RowCV /\ Replay(cart, row).state = cart.state
  <2> DEFINE i == ItemOf[b]
             d == archive[i].dept
             price == GetItemPrice(cart, i, b, archive[i].price)
             add == AddItem(cart, i, b, d, price, 0)
             rem == RemoveItem(cart, i, b, d, price, 0)
  <2>1. b \in Barcodes /\ i \in Items
    BY CartAssumption DEF KnownBarcodes
  <2>2. archive[i].price \in Prices /\ d \in Departments
    BY <2>1, Archived
  <2>3. price \in Prices
    BY <2>1, <2>2, PriceType
  <2>4. row = RowIA(b) => Replay(cart, row) = add
    BY DEF Replay, ReplayItem, RowIA
  <2>5. row = RowIV(b) => Replay(cart, row) = rem
    BY DEF Replay, ReplayItem, RowIV
  <2> HIDE DEF price, d
  <2>6. price \in Int /\ 0 \in Int
    BY <2>3, PricesAreIntegers
  <2>7. add \in CartRecord /\ rem \in CartRecord
    BY <2>2, <2>6, ItemType
  <2>8. add.state = cart.state /\ Kept(add) = Effect(Kept(cart), RowIA(b))
    BY AddItemEffect
  <2>9. rem.state = cart.state /\ Kept(rem) = Effect(Kept(cart), RowIV(b))
    BY RemoveItemEffect
  <2>10. row # RowCV
    BY <1>4 DEF RowIA, RowIV, RowCV
  <2> HIDE DEF add, rem
  <2> QED BY <1>4, <2>4, <2>5, <2>7, <2>8, <2>9, <2>10
<1>5. ASSUME NEW k \in Cards, row = RowLA(k) \/ row = RowLV(k)
      PROVE  /\ Replay(cart, row) \in CartRecord
             /\ Replay(cart, row).state \in {"loading", "voided"}
             /\ Kept(Replay(cart, row)) = Effect(Kept(cart), row)
             /\ row # RowCV /\ Replay(cart, row).state = cart.state
  <2>1. row = RowLA(k) => Replay(cart, row) = AddLoyCard(cart, k)
    BY DEF Replay, RowLA
  <2>2. row = RowLV(k) => Replay(cart, row) = RemoveLoyCard(cart, k)
    BY DEF Replay, RowLV
  <2>3. AddLoyCard(cart, k).state = cart.state
        /\ Kept(AddLoyCard(cart, k)) = Effect(Kept(cart), RowLA(k))
    BY AddLoyCardEffect
  <2>4. RemoveLoyCard(cart, k).state = cart.state
        /\ Kept(RemoveLoyCard(cart, k)) = Effect(Kept(cart), RowLV(k))
    BY RemoveLoyCardEffect
  <2>5. row # RowCV
    BY <1>5 DEF RowLA, RowLV, RowCV
  <2> QED BY <1>5, <2>1, <2>2, <2>3, <2>4, <2>5, LoyType
<1> QED BY <1>1, <1>2, <1>3, <1>4, <1>5 DEF Rows

LEMMA ReplayRegistryType ==
  ASSUME NEW reg \in [Cards -> CartIds \cup {NoOwner}], NEW c \in CartIds, NEW row \in Rows
  PROVE  ReplayRegistry(reg, c, row) \in [Cards -> CartIds \cup {NoOwner}]
  BY DEF ReplayRegistry

LEMMA LoadRowStep ==
  ASSUME IndInv, LoadRow
  PROVE  IndInv'
<1> DEFINE c == loading.cart
           n == loading.row
           row == journal[c][n + 1]
           old == GetNextRequestId(carts[c])
           cart == Replay(old, row)
<1>1. /\ phase = "loading" /\ loading # NotLoading /\ n < Len(journal[c])
      /\ loading' = [loading EXCEPT !.row = @ + 1]
      /\ registry' = ReplayRegistry(registry, c, row)
      /\ UNCHANGED <<phase, sessions, nextNumber, archive, disk, files, journal, posFile, job,
                     pending, issued, image, served, crashes>>
  BY DEF LoadRow, storage
<1>2. /\ c \in sessions /\ c \in CartIds /\ n \in Nat /\ carts[c] \in CartRecord
      /\ loading \in [cart : {0} \cup CartIds, row : Nat]
      /\ journal[c] \in Seq(Rows) /\ nextNumber' \in Nat
      /\ registry \in [Cards -> CartIds \cup {NoOwner}]
  BY <1>1 DEF IndInv, Base, TypeOK, WellFormed
<1>3. /\ carts[c].state \in {"loading", "voided"}
      /\ OneAtATime => Kept(carts[c]) = KeptAt(c, n)
      /\ (\E m \in 1..n : journal[c][m] = RowCV) => carts[c].state = "voided"
  BY <1>1, <1>2 DEF IndInv, Base, StatesMatchPhase, Accounts, ReplayFollowsTheLiveSession,
                    VoidRows, RowsIn
<1>4. n + 1 \in 1..Len(journal[c]) /\ row \in Rows
  BY <1>1, <1>2
<1>5. /\ old \in CartRecord /\ old.state \in {"loading", "voided"}
      /\ Kept(old) = Kept(carts[c]) /\ old.state = carts[c].state
  BY <1>2, <1>3, RequestType, RequestKeeps
<1>6. carts' = [carts EXCEPT ![c] = cart]
  BY DEF LoadRow
<1>7. OneAtATime => image[c][(n + 1) + 1] = Effect(image[c][n + 1], row)
  BY <1>2, <1>4 DEF IndInv, Accounts, JournalAccounts
<1> HIDE DEF old, row
<1>8. /\ cart \in CartRecord /\ cart.state \in {"loading", "voided"}
      /\ Kept(cart) = Effect(Kept(old), row)
      /\ old.state = "voided" \/ row = RowCV => cart.state = "voided"
  BY <1>4, <1>5, ReplayEffect
<1>9. OneAtATime => Kept(cart) = KeptAt(c, n + 1)
  BY <1>3, <1>5, <1>7, <1>8 DEF KeptAt
<1>10. registry' \in [Cards -> CartIds \cup {NoOwner}]
  BY <1>1, <1>2, <1>4, ReplayRegistryType
<1>11. /\ loading' \in [cart : {0, c}, row : Nat] /\ loading'.cart = c /\ loading'.row = n + 1
       /\ n + 1 <= Len(journal[c]) /\ n + 1 \in Nat
  BY <1>1, <1>2
<1>12. loading' # NotLoading /\ sessions' = sessions \cup {c} /\ pending' = pending
  BY <1>1, <1>2, <1>11 DEF NotLoading
<1>13. (\E m \in 1..(n + 1) : journal[c][m] = RowCV) => cart.state = "voided"
  <2> SUFFICES ASSUME NEW m \in 1..(n + 1), journal[c][m] = RowCV
               PROVE  cart.state = "voided"
    OBVIOUS
  <2>1. m \in 1..n \/ m = n + 1
    BY <1>2
  <2> QED BY <1>3, <1>5, <1>8, <2>1 DEF row
<1> HIDE DEF c, n, cart
<1> QED BY <1>1, <1>2, <1>6, <1>8, <1>9, <1>10, <1>11, <1>12, <1>13, LoadingStep DEF c

LEMMA FinishFileStep ==
  ASSUME IndInv, FinishFile
  PROVE  IndInv'
<1> DEFINE c == loading.cart
           cart == [carts[c] EXCEPT !.state = StateAfterLoad(@)]
<1>1. /\ phase = "loading" /\ loading # NotLoading /\ loading.row = Len(journal[c])
      /\ loading' = NotLoading /\ nextNumber' = NumberAfterLoad(nextNumber, c)
      /\ UNCHANGED <<phase, sessions, registry, archive, disk, files, journal, posFile, job,
                     pending, issued, image, served, crashes>>
  BY DEF FinishFile, storage
<1>2. /\ c \in sessions /\ c \in CartIds /\ carts[c] \in CartRecord
      /\ registry' \in [Cards -> CartIds \cup {NoOwner}] /\ nextNumber \in Nat
  BY <1>1 DEF IndInv, Base, TypeOK, WellFormed
<1>3. /\ carts[c].state \in {"loading", "voided"}
      /\ OneAtATime => Kept(carts[c]) = KeptAt(c, Len(journal[c]))
      /\ (\E m \in 1..Len(journal[c]) : journal[c][m] = RowCV) => carts[c].state = "voided"
  BY <1>1, <1>2 DEF IndInv, Base, StatesMatchPhase, Accounts, ReplayFollowsTheLiveSession,
                    VoidRows, RowsIn
<1>4. nextNumber' \in Nat
  BY <1>1, <1>2 DEF NumberAfterLoad, CartIds
<1>5. carts' = [carts EXCEPT ![c] = cart]
  BY <1>2 DEF FinishFile, IndInv, Base, TypeOK
<1>6. /\ cart \in CartRecord /\ cart.state \in {"ready", "voided"}
      /\ Kept(cart) = Kept(carts[c])
      /\ carts[c].state = "voided" => cart.state = "voided"
  BY <1>2, <1>3 DEF StateAfterLoad, CartRecord, CartStates, Kept
<1>7. loading' \in [cart : {0, c}, row : Nat]
  BY <1>1 DEF NotLoading
<1>8. sessions' = sessions \cup {c} /\ pending' = pending
  BY <1>1, <1>2
<1>9. Len(journal[c]) \in Nat
  <2>1. journal[c] \in Seq(Rows)
    BY <1>2 DEF IndInv, Base, TypeOK
  <2> QED BY <2>1
<1>10. PICK n \in Nat : n = Len(journal[c])
  BY <1>9
<1>11. (\E m \in 1..n : journal[c][m] = RowCV) => cart.state = "voided"
  BY <1>3, <1>6, <1>10
<1>12. OneAtATime => Kept(cart) = KeptAt(c, n)
  BY <1>3, <1>6, <1>10
<1>13. loading # NotLoading => loading.cart = c
  OBVIOUS
<1>14. n <= Len(journal[c]) /\ (loading' = NotLoading => n = Len(journal[c]))
  BY <1>10
<1>15. PICK d \in CartIds : d = c
  BY <1>2
<1>16. PICK k \in CartRecord : k = cart
  BY <1>6
<1> HIDE DEF c, cart
<1> QED BY <1>1, <1>2, <1>4, <1>5, <1>6, <1>7, <1>8, <1>11, <1>12, <1>13, <1>14, <1>15, <1>16,
           LoadingStep

-----------------------------------------------------------------------------
(* The theorems. *)

LEMMA OneElement ==
  ASSUME NEW x
  PROVE  Len(<< >>) = 0 /\ Len(<<x>>) = 1 /\ <<x>>[1] = x
  OBVIOUS

LEMMA InitIndInv == Init => IndInv
<1> SUFFICES ASSUME Init
             PROVE  IndInv
  OBVIOUS
<1>1. NewCart("ready") \in CartRecord /\ Kept(NewCart("ready")) \in KeptRecord
  BY NewCartType, KeptType DEF CartStates
<1>2. InitialArchive \in [Items -> ArchiveRecord] /\ CartIds \subseteq Nat
  BY BaseAssumption DEF CartIds
<1>3. image \in [CartIds -> Seq(KeptRecord)]
  <2>1. <<Kept(NewCart("ready"))>> \in Seq(KeptRecord)
    BY <1>1
  <2> QED BY <2>1 DEF Init
<1>4. journal \in [CartIds -> Seq(Rows)]
  BY DEF Init
<1>5. loading \in [cart : {0} \cup CartIds, row : Nat]
  BY DEF Init, NotLoading
<1>6. TypeOK
  BY <1>1, <1>2, <1>3, <1>4, <1>5, IdleFits DEF Init, TypeOK
<1>7. WellFormed
  <2>1. \A i \in Items : InitialArchive[i].linked # NoBarcode =>
                            ItemOf[InitialArchive[i].linked] \in Items
    <3> TAKE i \in Items
    <3> HAVE InitialArchive[i].linked # NoBarcode
    <3>1. InitialArchive[i].linked \in Barcodes /\ ItemOf[InitialArchive[i].linked] # NoItem
      BY <1>2, BaseAssumption DEF ArchiveRecord
    <3> QED BY <3>1, CartAssumption
  <2>2. archive = InitialArchive /\ disk = InitialArchive
    BY DEF Init
  <2> QED BY <2>1, <2>2, IdleFits DEF Init, WellFormed
<1>8. StatesMatchPhase /\ VoidRows
  BY DEF Init, StatesMatchPhase, VoidRows
<1>9. Accounts
  <2>1. \A c \in CartIds : journal[c] = << >> /\ image[c] = <<Kept(NewCart("ready"))>>
    BY DEF Init
  <2>2. JournalAccounts
    <3> SUFFICES ASSUME NEW c \in CartIds
                 PROVE  /\ Len(image[c]) = Len(journal[c]) + 1
                        /\ image[c][1] = Kept(NewCart("ready"))
                        /\ \A n \in 1..Len(journal[c]) :
                             image[c][n + 1] = Effect(image[c][n], journal[c][n])
      BY DEF JournalAccounts
    <3>1. Len(journal[c]) = 0 /\ Len(image[c]) = 1
      BY <2>1, OneElement
    <3>2. image[c][1] = Kept(NewCart("ready"))
      BY <2>1, OneElement
    <3>3. 1..Len(journal[c]) = {}
      BY <3>1
    <3> QED BY <3>1, <3>2, <3>3
  <2>3. SessionsAreJournalled /\ ReplayFollowsTheLiveSession
    BY DEF Init, SessionsAreJournalled, ReplayFollowsTheLiveSession
  <2>4. Polite
    <3>1. \A t \in Threads : job[t] = Idle
      BY DEF Init
    <3> QED BY <3>1, IdleFits DEF Polite, Working
  <2> QED BY <2>2, <2>3, <2>4 DEF Accounts
<1> QED BY <1>6, <1>7, <1>8, <1>9 DEF IndInv, Base

LEMMA NextIndInv == IndInv /\ [Next]_vars => IndInv'
<1> SUFFICES ASSUME IndInv, [Next]_vars
             PROVE  IndInv'
  OBVIOUS
<1>1. ASSUME NEW t \in Threads, Start(t)
      PROVE  IndInv'
  BY <1>1, InitSessionStep, QueryStep, SessionVoidStep, ItemAddStep, ItemVoidStep,
     CustomerAddStep, CustomerVoidStep, SessionEndStep DEF Start
<1>2. ASSUME NEW t \in Threads, Continue(t)
      PROVE  IndInv'
  BY <1>2, InsertCartStep, ReadNumberStep, WriteNumberStep, CopyDepartmentStep,
     CopyItemStep, KeepItemStep, CheckStep, ChangeStep, WriteRowStep, FollowStep,
     RegisterStep, WriteHeaderStep, SendRowsStep DEF Continue
<1>3. CASE ApplyVariation \/ DumpItems
  BY <1>3, ApplyVariationStep, DumpItemsStep
<1>4. CASE Crash \/ Restart
  BY <1>4, CrashStep, BootStep, LoadFileStep, LoadRowStep, FinishFileStep, FinishBootStep
  DEF Restart
<1>5. CASE UNCHANGED vars
  <2>1. UNCHANGED <<phase, sessions, carts, registry, nextNumber, archive, disk, files,
                    journal, posFile, job, loading, pending, issued, image, served, crashes>>
    BY <1>5 DEF vars, memory, storage
  <2>2. TypeOK'
    BY <2>1 DEF IndInv, Base, TypeOK
  <2>3. WellFormed'
    BY <2>1 DEF IndInv, Base, WellFormed
  <2> QED BY <2>1, <2>2, <2>3, QuietStep
<1> QED BY <1>1, <1>2, <1>3, <1>4, <1>5 DEF Next

LEMMA Inductive == Spec => []IndInv
  BY InitIndInv, NextIndInv, PTL DEF Spec

\* Every variable of BaseSystem keeps its type in every reachable state.
THEOREM TypeCorrect == Spec => []TypeOK
<1>1. IndInv => TypeOK
  BY DEF IndInv, Base
<1> QED BY <1>1, Inductive, PTL

\* If the requests of a session come one at a time, the rows written by
\* addItem, voidItem, the loyalty methods, voidAllCart and updateLocalItemMap
\* account for every change of what it keeps.
THEOREM JournalHolds == Spec => []JournalInvariant
<1>1. IndInv => JournalInvariant
  BY DEF IndInv, Base, Accounts, JournalInvariant, ReplayFollowsTheLiveSession,
         SessionsAreJournalled
<1> QED BY <1>1, Inductive, PTL

\* loadCartsInProgress rebuilds, row by row and in any order of the files,
\* what each session kept when the method that wrote the row was done, if the
\* requests of a session come one at a time.
THEOREM ReplayIsExact == Spec => []ReplayFollowsTheLiveSession
<1>1. IndInv => ReplayFollowsTheLiveSession
  BY DEF IndInv, Accounts, ReplayFollowsTheLiveSession
<1> QED BY <1>1, Inductive, PTL

\* If the requests of a session come one at a time, a crash between any two
\* steps of a request loses at most the one change the request had at hand:
\* at all other times the served session is the one its file would bring back.
THEOREM NothingInMemoryAlone == Spec => []SessionsAreJournalled
<1>1. IndInv => SessionsAreJournalled
  BY DEF IndInv, Accounts, SessionsAreJournalled
<1> QED BY <1>1, Inductive, PTL

\* A session voided by voidAllCart is void whenever the server serves, and so
\* after every restart too: loadCartsInProgress does not reopen it.  That holds
\* for requests of one session that overlap as well.
THEOREM VoidedStaysVoided == Spec => []VoidedForGood
<1>1. IndInv => VoidedForGood
  <2> SUFFICES ASSUME IndInv, phase = "up", NEW c \in sessions,
                      NEW n \in 1..Len(journal[c]), journal[c][n] = RowCV
               PROVE  carts[c].state = "voided"
    BY DEF VoidedForGood
  <2>1. c # loading.cart
    BY LiveCart
  <2>2. RowsIn(c) = Len(journal[c])
    BY <2>1 DEF RowsIn
  <2> QED BY <2>2 DEF IndInv, Base, VoidRows
<1> QED BY <1>1, Inductive, PTL

-----------------------------------------------------------------------------
(* A session given to a device stays on the disk. *)

LEMMA FilesGrow ==
  ASSUME [Next]_vars
  PROVE  files \subseteq files' /\ (issued' = issued \/ \E t \in Threads : WriteNumber(t))
<1> DEFINE Goal == /\ files \subseteq files'
                   /\ issued' = issued \/ \E t \in Threads : WriteNumber(t)
<1>1. ASSUME NEW t \in Threads, Start(t)
      PROVE  Goal
  <2>1. UNCHANGED <<files, issued>>
    BY <1>1 DEF Start, InitSession, Query, ItemAdd, ItemVoid, ItemRequest, CustomerAdd,
                CustomerVoid, SessionEnd, SessionVoid, OnlyRequestId, storage
  <2> QED BY <2>1
<1>2. ASSUME NEW t \in Threads, Continue(t)
      PROVE  Goal
  <2>1. CASE WriteNumber(t)
    BY <2>1 DEF WriteNumber, storage
  <2>2. CASE InsertCart(t)
    BY <2>2 DEF InsertCart
  <2>3. CASE ReadNumber(t) \/ CopyDepartment(t) \/ CopyItem(t) \/ KeepItem(t)
    BY <2>3 DEF ReadNumber, CopyDepartment, CopyItem, KeepItem, storage
  <2>4. CASE Check(t) \/ Change(t) \/ WriteRow(t) \/ Follow(t)
    BY <2>4 DEF Check, Change, WriteRow, Follow, storage
  <2>5. CASE Register(t) \/ WriteHeader(t) \/ SendRows(t)
    BY <2>5 DEF Register, WriteHeader, SendRows, storage
  <2> QED BY <1>2, <2>1, <2>2, <2>3, <2>4, <2>5 DEF Continue
<1>3. CASE ApplyVariation \/ DumpItems \/ Crash \/ Restart \/ UNCHANGED vars
  <2>1. UNCHANGED <<files, issued>>
    BY <1>3 DEF ApplyVariation, DumpItems, Crash, Restart, Boot, LoadFile, LoadRow, FinishFile,
                FinishBoot, storage, vars
  <2> QED BY <2>1
<1> QED BY <1>1, <1>2, <1>3 DEF Next

\* A session given to a device has a file.
GivenHaveFiles == \A c \in CartIds : issued[c] > 0 => c \in files

LEMMA GivenHaveFilesStep ==
  ASSUME IndInv, GivenHaveFiles, [Next]_vars
  PROVE  GivenHaveFiles'
<1> SUFFICES ASSUME NEW c \in CartIds, issued'[c] > 0
             PROVE  c \in files'
  BY DEF GivenHaveFiles
<1>1. files \subseteq files' /\ (issued' = issued \/ \E t \in Threads : WriteNumber(t))
  BY FilesGrow
<1>2. CASE issued' = issued
  BY <1>1, <1>2 DEF GivenHaveFiles
<1>3. ASSUME NEW t \in Threads, WriteNumber(t)
      PROVE  c \in files'
  <2>1. job[t].cart \in files
    BY <1>3 DEF WriteNumber, IndInv, Base, WellFormed
  <2>2. c = job[t].cart \/ issued'[c] = issued[c]
    BY <1>3 DEF WriteNumber, IndInv, Base, TypeOK
  <2> QED BY <1>1, <2>1, <2>2 DEF GivenHaveFiles
<1> QED BY <1>1, <1>2, <1>3

LEMMA GivenHaveFilesHold == Spec => []GivenHaveFiles
<1>1. Init => GivenHaveFiles
  BY DEF Init, GivenHaveFiles
<1>2. IndInv /\ GivenHaveFiles /\ [Next]_vars => GivenHaveFiles'
  BY GivenHaveFilesStep
<1> QED BY <1>1, <1>2, Inductive, PTL DEF Spec

\* A session whose number initSession returned is found again by every later
\* request, whatever crashes came in between.
THEOREM GivenSessionsStay == Spec => []GivenSessionsExist
<1>1. IndInv /\ GivenHaveFiles => GivenSessionsExist
  BY DEF IndInv, Base, WellFormed, GivenHaveFiles, GivenSessionsExist
<1> QED BY <1>1, Inductive, GivenHaveFilesHold, PTL

=============================================================================
