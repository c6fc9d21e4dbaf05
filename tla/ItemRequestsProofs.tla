------------------------- MODULE ItemRequestsProofs -------------------------
(***************************************************************************)
(* Proofs about ItemRequests.                                              *)
(***************************************************************************)
EXTENDS ItemRequestsProperties, SequenceTheorems, FiniteSetTheorems, WellFoundedInduction, TLAPS

LEMMA LeastOf ==
  ASSUME NEW S \in SUBSET Nat, S # {}
  PROVE  \E k \in S : \A j \in S : k <= j
<1> DEFINE R == OpToRel(<, Nat)
<1>1. IsWellFoundedOn(R, Nat)
  BY NatLessThanWellFounded
<1>2. \A x, y \in Nat : <<x, y>> \in R <=> x < y
  BY DEF OpToRel
<1> HIDE DEF R
<1>3. \E x \in S : \A y \in S : ~(<<y, x>> \in R)
  BY <1>1, WFMin
<1>4. PICK x \in S : \A y \in S : ~(<<y, x>> \in R)
  BY <1>3
<1>5. ASSUME NEW y \in S
      PROVE  x <= y
  <2>1. x \in Nat /\ y \in Nat
    OBVIOUS
  <2>2. ~(<<y, x>> \in R)
    BY <1>4
  <2>3. ~(y < x)
    BY <1>2, <2>1, <2>2
  <2> QED BY <2>1, <2>3
<1> QED BY <1>5

LEMMA UnpaddedType ==
  ASSUME NEW text \in Seq(Digits)
  PROVE  Unpadded(text) \in Seq(Digits)
<1> DEFINE significant == {k \in DOMAIN text : text[k] # 0}
           least == CHOOSE k \in significant : \A j \in significant : k <= j
<1>1. Zero \in Seq(Digits)
  BY DEF Zero, Digits
<1>2. CASE significant = {}
  BY <1>1, <1>2 DEF Unpadded
<1>3. CASE significant # {}
  <2>1. significant \in SUBSET Nat /\ significant \subseteq 1..Len(text)
    OBVIOUS
  <2>2. \E k \in significant : \A j \in significant : k <= j
    <3> HIDE DEF significant
    <3> QED BY <1>3, <2>1, LeastOf
  <2>3. least \in significant
    <3> HIDE DEF significant
    <3> QED BY <2>2
  <2>4. least \in 1..Len(text)
    BY <2>1, <2>3
  <2>5. SubSeq(text, least, Len(text)) \in Seq(Digits)
    <3> HIDE DEF least
    <3> QED BY <2>4
  <2> QED BY <1>3, <2>5 DEF Unpadded
<1> QED BY <1>2, <1>3

\* Whatever text of digits is read, a number comes out.
LEMMA DecimalType ==
  ASSUME NEW text \in Seq(Digits)
  PROVE  Decimal(text) \in Seq(Digits)
<1>1. Largest \in Seq(Digits)
  BY DEF Largest, Digits
<1> QED BY <1>1, UnpaddedType DEF Decimal

-----------------------------------------------------------------------------
(* Labels. *)

LEMMA PriceCarriers ==
  ASSUME NEW b \in Seq(Digits)
  PROVE  CarriesPrice(b) <=> Len(b) = 13 /\ b[1] = 2
<1>1. CASE Len(b) = 13
  BY <1>1 DEF CarriesPrice, Kind, HasCardPrefix
<1>2. CASE Len(b) # 13
  BY <1>2 DEF CarriesPrice, Kind
<1> QED BY <1>1, <1>2

LEMMA KeyOfCarrier ==
  ASSUME NEW b \in Seq(Digits), CarriesPrice(b)
  PROVE  /\ LookupKey(b) \in Seq(Digits) /\ Len(LookupKey(b)) = 13
         /\ \A k \in 1..7 : LookupKey(b)[k] = b[k]
         /\ \A k \in 8..13 : LookupKey(b)[k] = 0
<1> DEFINE head == SubSeq(b, 1, 7)
           zeros == <<0, 0, 0, 0, 0, 0>>
<1>1. Len(b) = 13
  BY PriceCarriers
<1>2. head \in Seq(Digits) /\ Len(head) = 7 /\ \A k \in 1..7 : head[k] = b[k]
  BY <1>1
<1>3. zeros \in Seq(Digits) /\ Len(zeros) = 6 /\ \A k \in 1..6 : zeros[k] = 0
  BY DEF Digits
<1> DEFINE key == head \o zeros
<1>4. LookupKey(b) = key
  BY DEF LookupKey
<1> HIDE DEF head, zeros
<1>5. /\ key \in Seq(Digits) /\ Len(key) = Len(head) + Len(zeros)
      /\ \A k \in 1..(Len(head) + Len(zeros)) :
           key[k] = IF k <= Len(head) THEN head[k] ELSE zeros[k - Len(head)]
  BY <1>2, <1>3, ConcatProperties
<1> HIDE DEF key
<1>6. Len(key) = 13 /\ \A k \in 1..13 : key[k] = IF k <= 7 THEN head[k] ELSE zeros[k - 7]
  BY <1>2, <1>3, <1>5
<1>7. ASSUME NEW k \in 1..7
      PROVE  key[k] = b[k]
  BY <1>2, <1>6
<1>8. ASSUME NEW k \in 8..13
      PROVE  key[k] = 0
  <2>1. k - 7 \in 1..6 /\ k \in 1..13 /\ ~(k <= 7)
    OBVIOUS
  <2> QED BY <1>3, <1>6, <2>1
<1> QED BY <1>4, <1>5, <1>6, <1>7, <1>8

\* The reader and the lookups meet exactly in the labels that are the same.
LEMMA KeysMeet ==
  ASSUME NEW a \in Seq(Digits), NEW b \in Seq(Digits)
  PROVE  SameLabel(a, b) <=> LookupKey(a) = LookupKey(b)
<1>1. CASE CarriesPrice(a) /\ CarriesPrice(b)
  <2> DEFINE p == LookupKey(a)
             q == LookupKey(b)
  <2>1. /\ p \in Seq(Digits) /\ Len(p) = 13
        /\ \A k \in 1..7 : p[k] = a[k]
        /\ \A k \in 8..13 : p[k] = 0
    BY <1>1, KeyOfCarrier
  <2>2. /\ q \in Seq(Digits) /\ Len(q) = 13
        /\ \A k \in 1..7 : q[k] = b[k]
        /\ \A k \in 8..13 : q[k] = 0
    BY <1>1, KeyOfCarrier
  <2> HIDE DEF p, q
  <2>3. ASSUME \A k \in 1..7 : a[k] = b[k]
        PROVE  p = q
    <3>1. ASSUME NEW k \in 1..13
          PROVE  p[k] = q[k]
      <4>1. CASE k \in 1..7
        BY <2>1, <2>2, <2>3, <4>1
      <4>2. CASE k \in 8..13
        BY <2>1, <2>2, <4>2
      <4> QED BY <4>1, <4>2
    <3> QED BY <2>1, <2>2, <3>1, SeqEqual
  <2>4. ASSUME p = q, NEW k \in 1..7
        PROVE  a[k] = b[k]
    BY <2>1, <2>2, <2>4
  <2> QED BY <1>1, <2>3, <2>4 DEF SameLabel, p, q
<1>2. CASE ~CarriesPrice(a) /\ ~CarriesPrice(b)
  BY <1>2 DEF SameLabel, LookupKey
<1>3. ASSUME NEW x \in Seq(Digits), NEW y \in Seq(Digits), CarriesPrice(x), ~CarriesPrice(y)
      PROVE  LookupKey(x) # LookupKey(y)
  <2>1. LookupKey(y) = y
    BY <1>3 DEF LookupKey
  <2>2. Len(LookupKey(x)) = 13 /\ LookupKey(x)[1] = x[1] /\ x[1] = 2
    BY <1>3, KeyOfCarrier, PriceCarriers
  <2> QED BY <1>3, <2>1, <2>2, PriceCarriers
<1>4. CASE CarriesPrice(a) /\ ~CarriesPrice(b)
  BY <1>3, <1>4 DEF SameLabel
<1>5. CASE CarriesPrice(b) /\ ~CarriesPrice(a)
  BY <1>3, <1>5 DEF SameLabel
<1> QED BY <1>1, <1>2, <1>4, <1>5

-----------------------------------------------------------------------------
(* The barcodes' map. *)

LEMMA RowFacts ==
  ASSUME NEW n \in 1..Len(BarcodeRows)
  PROVE  /\ Decimal(BarcodeRows[n].text) \in Seq(Digits)
         /\ BarcodeRows[n].item \in Nat \cup {Absent}
<1>1. BarcodeRows \in Seq(Row)
  BY ItemRequestsAssumption
<1>2. BarcodeRows[n] \in Row
  BY <1>1
<1> QED BY <1>2, DecimalType DEF Row

LEMMA LabelsType == Labels \subseteq Seq(Digits)
<1>1. Numbers \subseteq Seq(Digits)
  BY ItemRequestsAssumption, DecimalType DEF Numbers
<1>2. \A i \in DOMAIN ShippedItems : ShippedItems[i].link \in Seq(Digits)
  BY ItemRequestsAssumption DEF Item
<1>3. Zero \in Seq(Digits)
  BY DEF Zero, Digits
<1> QED BY <1>1, <1>2, <1>3 DEF Labels

RowKey(n) == LookupKey(Decimal(BarcodeRows[n].text))

\* The last row read with a key has its record under the key; every other
\* record is blank.  tempBarcode has the item of the last row read.
MapFollowsRows ==
  /\ read \in 0..Len(BarcodeRows)
  /\ \A m \in 1..read : Tells(m, read) => temp = BarcodeRows[m].item
  /\ \A n \in 1..read : (\A l \in 1..read : RowKey(l) = RowKey(n) => l <= n) =>
       /\ RowKey(n) \in DOMAIN barcodes /\ barcodes[RowKey(n)].code = RowKey(n)
       /\ \A m \in 1..n : Tells(m, n) => barcodes[RowKey(n)].item = BarcodeRows[m].item
  /\ \A k \in DOMAIN barcodes : (\A n \in 1..read : RowKey(n) # k) => barcodes[k] = BlankBarcode

LEMMA RowsLength == Len(BarcodeRows) \in Nat
  BY ItemRequestsAssumption

LEMMA MapInit == Init => MapFollowsRows
<1> SUFFICES ASSUME Init
             PROVE  MapFollowsRows
  OBVIOUS
<1>1. read = 0 /\ DOMAIN barcodes = {} /\ 1..read = {}
  BY DEF Init
<1> QED BY <1>1, RowsLength DEF MapFollowsRows

\* A row's record goes where the record of its label was.
LEMMA ReadRowKeepsMap ==
  ASSUME MapFollowsRows, ReadRow
  PROVE  MapFollowsRows'
<1> DEFINE r == read + 1
           row == BarcodeRows[r]
           key == RowKey(r)
           new == [code |-> key, item |-> temp']
<1>1. /\ read \in Nat /\ r \in 1..Len(BarcodeRows) /\ r \in 1..r
      /\ \A n \in 1..r : n \in 1..read \/ n = r
      /\ \A n \in 1..read : n \in 1..r /\ n # r /\ n < r
  BY RowsLength DEF MapFollowsRows, ReadRow
<1>2. /\ read' = r /\ temp' = IF row.item = Absent THEN temp ELSE row.item
      /\ barcodes' = [k \in DOMAIN barcodes \cup {key} |-> IF k = key THEN new ELSE barcodes[k]]
  BY DEF ReadRow, StoredKey, Put, RowKey
<1>3. read' \in 0..Len(BarcodeRows)
  BY <1>1, <1>2
<1>4. ASSUME NEW m \in 1..r, Tells(m, r)
      PROVE  temp' = BarcodeRows[m].item
  <2>1. CASE m = r
    BY <1>2, <1>4, <2>1 DEF Tells
  <2>2. CASE m \in 1..read
    <3>1. row.item = Absent
      <4>1. r \in (m + 1)..r
        BY <1>1, <2>2
      <4> QED BY <1>4, <4>1 DEF Tells
    <3>2. Tells(m, read)
      <4>1. \A k \in (m + 1)..read : k \in (m + 1)..r
        BY <1>1
      <4> QED BY <1>4, <2>2, <4>1 DEF Tells
    <3> QED BY <1>2, <2>2, <3>1, <3>2 DEF MapFollowsRows
  <2> QED BY <1>1, <2>1, <2>2
<1>5. new.code = key /\ new.item = temp'
  OBVIOUS
<1> HIDE DEF r, row, key, new
<1>6. ASSUME NEW n \in 1..r, \A l \in 1..r : RowKey(l) = RowKey(n) => l <= n
      PROVE  /\ RowKey(n) \in DOMAIN barcodes' /\ barcodes'[RowKey(n)].code = RowKey(n)
             /\ \A m \in 1..n : Tells(m, n) => barcodes'[RowKey(n)].item = BarcodeRows[m].item
  <2>1. CASE n = r
    <3>1. RowKey(n) = key
      BY <2>1 DEF key
    <3> QED BY <1>2, <1>4, <1>5, <2>1, <3>1
  <2>2. CASE n \in 1..read
    <3>1. RowKey(n) # key
      <4>1. ~(r <= n) /\ r \in 1..r
        BY <1>1, <2>2
      <4> QED BY <1>6, <4>1 DEF key
    <3>2. \A l \in 1..read : RowKey(l) = RowKey(n) => l <= n
      BY <1>1, <1>6
    <3>3. /\ RowKey(n) \in DOMAIN barcodes /\ barcodes[RowKey(n)].code = RowKey(n)
          /\ \A m \in 1..n : Tells(m, n) => barcodes[RowKey(n)].item = BarcodeRows[m].item
      BY <2>2, <3>2 DEF MapFollowsRows
    <3> QED BY <1>2, <3>1, <3>3
  <2> QED BY <1>1, <2>1, <2>2
<1>7. ASSUME NEW k \in DOMAIN barcodes', \A n \in 1..r : RowKey(n) # k
      PROVE  barcodes'[k] = BlankBarcode
  <2>1. k # key /\ k \in DOMAIN barcodes
    BY <1>1, <1>2, <1>7 DEF key
  <2>2. barcodes[k] = BlankBarcode
    BY <1>1, <1>7, <2>1 DEF MapFollowsRows
  <2> QED BY <1>2, <2>1, <2>2
<1> QED BY <1>2, <1>3, <1>4, <1>6, <1>7 DEF MapFollowsRows

\* Lookups add blank records.
Grown(old, new) ==
  /\ DOMAIN old \subseteq DOMAIN new
  /\ \A k \in DOMAIN new : new[k] = Element(old, k, BlankBarcode)

LEMMA LookedUpGrows == \A map, key : Grown(map, LookedUp(map, key, BlankBarcode))
  BY DEF Grown, LookedUp, Put, Element

LEMMA LookedUpTwiceGrows ==
  \A map, k, l : Grown(map, LookedUp(LookedUp(map, k, BlankBarcode), l, BlankBarcode))
<1> TAKE map, k, l
<1> DEFINE mid == LookedUp(map, k, BlankBarcode)
           new == LookedUp(mid, l, BlankBarcode)
<1>1. Grown(map, mid)
  BY LookedUpGrows
<1>2. Grown(mid, new)
  BY LookedUpGrows
<1> HIDE DEF mid, new
<1>3. Grown(map, new)
  BY <1>1, <1>2 DEF Grown, Element
<1> QED BY <1>3 DEF mid, new

LEMMA GrownKeepsMap ==
  ASSUME MapFollowsRows, Grown(barcodes, barcodes'), UNCHANGED <<read, temp>>
  PROVE  MapFollowsRows'
<1>1. \A k \in DOMAIN barcodes : k \in DOMAIN barcodes' /\ barcodes'[k] = barcodes[k]
  BY DEF Grown, Element
<1>2. \A k \in DOMAIN barcodes' : k \notin DOMAIN barcodes => barcodes'[k] = BlankBarcode
  BY DEF Grown, Element
<1> QED BY <1>1, <1>2 DEF MapFollowsRows

LEMMA PerformGrows ==
  ASSUME NEW action, NEW params, Perform(action, params)
  PROVE  Grown(barcodes, barcodes')
<1>1. Grown(barcodes, barcodes)
  BY DEF Grown, Element
<1>2. \A b, follows : Touch(b, follows) => Grown(barcodes, barcodes')
  BY LookedUpGrows, LookedUpTwiceGrows DEF Touch
<1>3. \A b : RefuseItem(action, b) => Grown(barcodes, barcodes')
  BY LookedUpGrows DEF RefuseItem
<1>4. \A b : ItemInfo(action, b) \/ AddItem(action, b) \/ VoidItem(action, b)
             => Grown(barcodes, barcodes')
  BY <1>2 DEF ItemInfo, AddItem, VoidItem
<1>5. InitSession(action) \/ NoSessionAsked(action) \/ UnknownSession(action)
      \/ GetTotals(action) \/ Query(action) \/ VoidTransaction(action)
        => barcodes' = barcodes
  BY DEF InitSession, NoSessionAsked, UnknownSession, GetTotals, Query, VoidTransaction
<1> QED BY <1>1, <1>3, <1>4, <1>5 DEF Perform

LEMMA HandleGrows ==
  ASSUME NEW u, Handle(u)
  PROVE  Grown(barcodes, barcodes') /\ UNCHANGED <<read, temp>>
<1>1. Grown(barcodes, barcodes)
  BY DEF Grown, Element
<1>2. CASE Acceptable(u)
  <2>1. \E action, params : Perform(action, params)
    BY <1>2 DEF Handle
  <2> QED BY <2>1, PerformGrows DEF Handle
<1>3. CASE ~Acceptable(u)
  BY <1>1, <1>3 DEF Handle
<1> QED BY <1>2, <1>3

LEMMA MapStep ==
  ASSUME MapFollowsRows, [Next]_vars
  PROVE  MapFollowsRows'
<1>1. CASE ReadRow
  BY <1>1, ReadRowKeepsMap
<1>2. CASE PriceVariation \/ UNCHANGED vars
  <2>1. UNCHANGED <<read, temp, barcodes>>
    BY <1>2 DEF PriceVariation, vars, archives
  <2> QED BY <2>1 DEF MapFollowsRows
<1>3. ASSUME NEW u, Handle(u)
      PROVE  MapFollowsRows'
  BY <1>3, HandleGrows, GrownKeepsMap
<1> QED BY <1>1, <1>2, <1>3 DEF Next, Stray

LEMMA MapHolds == Spec => []MapFollowsRows
  BY MapInit, MapStep, PTL DEF Spec

\* readBarcodesArchive and decodeBarcode agree on every barcode of every
\* archive: the reader stores a barcode under the key it is looked up by, the
\* last row wins, a row without an item has the one above, and the records
\* that operator[] leaves behind for unknown barcodes are found by nobody.
THEOREM LabelsFind == Spec => []LabelsFindTheirItem
<1>1. MapFollowsRows => LabelsFindTheirItem
  <2> SUFFICES ASSUME MapFollowsRows, NEW b \in Labels
               PROVE  LET rows == RowsOf[b] \cap 1..read
                      IN /\ rows = {} => CodeOf(b) = 0
                         /\ \A n \in rows : (\A m \in rows : m <= n) =>
                              \A m \in 1..n : Tells(m, n) => CodeOf(b) = BarcodeRows[m].item
    BY DEF LabelsFindTheirItem
  <2> DEFINE rows == RowsOf[b] \cap 1..read
             key == LookupKey(b)
  <2>1. b \in Seq(Digits) /\ read \in 0..Len(BarcodeRows)
    BY LabelsType DEF MapFollowsRows
  <2>2. \A n \in 1..read : n \in 1..Len(BarcodeRows)
    BY <2>1, RowsLength
  <2>3. RowsOf[b] = {n \in DOMAIN BarcodeRows : SameLabel(Decimal(BarcodeRows[n].text), b)}
    BY DEF RowsOf
  <2>4. DOMAIN BarcodeRows = 1..Len(BarcodeRows)
    BY ItemRequestsAssumption
  <2>5. \A n \in 1..read : n \in rows <=> RowKey(n) = key
    BY <2>1, <2>2, <2>3, <2>4, RowFacts, KeysMeet DEF RowKey
  <2>6. rows \subseteq 1..read
    OBVIOUS
  <2> HIDE DEF rows, key
  <2>7. CodeOf(b) = IF BarcodeAt(key).code = key THEN BarcodeAt(key).item ELSE 0
    BY DEF CodeOf, key
  <2>8. ASSUME rows = {}
        PROVE  CodeOf(b) = 0
    <3>1. BarcodeAt(key) = BlankBarcode
      BY <2>5, <2>8 DEF MapFollowsRows, BarcodeAt, Element
    <3> QED BY <2>7, <3>1 DEF BlankBarcode
  <2>9. ASSUME NEW n \in rows, \A m \in rows : m <= n, NEW m \in 1..n, Tells(m, n)
        PROVE  CodeOf(b) = BarcodeRows[m].item
    <3>1. n \in 1..read /\ RowKey(n) = key
      BY <2>5, <2>6
    <3>2. \A l \in 1..read : RowKey(l) = RowKey(n) => l <= n
      BY <2>5, <2>9, <3>1
    <3>3. /\ key \in DOMAIN barcodes /\ barcodes[key].code = key
          /\ barcodes[key].item = BarcodeRows[m].item
      BY <2>9, <3>1, <3>2 DEF MapFollowsRows
    <3> QED BY <2>7, <3>3 DEF BarcodeAt, Element
  <2> QED BY <2>8, <2>9 DEF rows
<1> QED BY <1>1, MapHolds, PTL

-----------------------------------------------------------------------------
(* A void undoes its sale: what VoidUndoesSale says of the carts that can   *)
(* be.                                                                     *)

(* Quantities.  Plus and Less are what a sale and a void do to a row. *)

Plus(f, x) == [f EXCEPT ![x] = @ + 1]
Less(f, x) == [f EXCEPT ![x] = C!Erased(@)]

LEMMA ErasedOne == \A q \in Nat : C!Erased(q) \in Nat /\ C!Erased(q + 1) = q
  BY DEF C!Erased

LEMMA RowsType ==
  ASSUME NEW S, NEW f \in [S -> Nat], NEW x \in S
  PROVE  Plus(f, x) \in [S -> Nat] /\ Less(f, x) \in [S -> Nat] /\ Plus(f, x)[x] > 0
<1>1. f[x] \in Nat
  OBVIOUS
<1>2. C!Erased(f[x]) \in Nat
  BY <1>1, ErasedOne
<1> QED BY <1>1, <1>2 DEF Plus, Less

LEMMA LessUndoesPlus ==
  ASSUME NEW S, NEW f \in [S -> Nat], NEW x \in S
  PROVE  Less(Plus(f, x), x) = f
<1>1. C!Erased(f[x] + 1) = f[x]
  BY ErasedOne
<1> QED BY <1>1 DEF Plus, Less

LEMMA LessFirstOfTwo ==
  ASSUME NEW S, NEW f \in [S -> Nat], NEW x \in S, NEW y \in S
  PROVE  Plus(Plus(f, x), y)[x] > 0 /\ Less(Plus(Plus(f, x), y), x) = Plus(f, y)
<1>1. CASE x = y
  <2>1. Plus(f, x) \in [S -> Nat]
    BY RowsType
  <2>2. Plus(Plus(f, x), x)[x] > 0 /\ Less(Plus(Plus(f, x), x), x) = Plus(f, x)
    <3> DEFINE g == Plus(f, x)
    <3> HIDE DEF g
    <3>1. g \in [S -> Nat]
      BY <2>1 DEF g
    <3>2. Plus(g, x)[x] > 0 /\ Less(Plus(g, x), x) = g
      BY <3>1, RowsType, LessUndoesPlus
    <3> QED BY <3>2 DEF g
  <2> QED BY <1>1, <2>2
<1>2. CASE x # y
  <2>1. C!Erased(f[x] + 1) = f[x] /\ f[x] \in Nat
    BY ErasedOne
  <2> QED BY <1>2, <2>1 DEF Plus, Less
<1> QED BY <1>1, <1>2

LEMMA GoodsParts ==
  ASSUME NEW g \in C!Goods, NEW i \in ItemKeys, NEW b \in Labels
  PROVE  /\ C!PutGoods(g, i, b) \in C!Goods
         /\ C!PutGoods(g, i, b).items = Plus(g.items, i)
         /\ C!PutGoods(g, i, b).barcodes = Plus(g.barcodes, b)
         /\ C!PutGoods(g, i, b).itemsNumber = g.itemsNumber + 1
         /\ C!TakeGoods(g, i, b) \in C!Goods
         /\ C!TakeGoods(g, i, b).items = Less(g.items, i)
         /\ C!TakeGoods(g, i, b).barcodes = Less(g.barcodes, b)
         /\ C!TakeGoods(g, i, b).itemsNumber = g.itemsNumber - 1
<1>1. g.items \in [ItemKeys -> Nat] /\ g.barcodes \in [Labels -> Nat] /\ g.itemsNumber \in Int
  BY DEF C!Goods
<1>2. /\ Plus(g.items, i) \in [ItemKeys -> Nat] /\ Less(g.items, i) \in [ItemKeys -> Nat]
      /\ Plus(g.barcodes, b) \in [Labels -> Nat] /\ Less(g.barcodes, b) \in [Labels -> Nat]
  BY <1>1, RowsType
<1> QED BY <1>1, <1>2 DEF C!Goods, C!PutGoods, C!TakeGoods, Plus, Less

LEMMA GoodsEqual ==
  ASSUME NEW g \in C!Goods, NEW h \in C!Goods, g.items = h.items, g.barcodes = h.barcodes,
         g.itemsNumber = h.itemsNumber
  PROVE  g = h
  BY DEF C!Goods

LEMMA TakeUndoesPut ==
  ASSUME NEW g \in C!Goods, NEW i \in ItemKeys, NEW b \in Labels
  PROVE  C!TakeGoods(C!PutGoods(g, i, b), i, b) = g
<1> DEFINE put == C!PutGoods(g, i, b)
           took == C!TakeGoods(put, i, b)
<1>1. /\ put \in C!Goods /\ put.items = Plus(g.items, i) /\ put.barcodes = Plus(g.barcodes, b)
      /\ put.itemsNumber = g.itemsNumber + 1
  BY GoodsParts
<1> HIDE DEF put
<1>2. /\ took \in C!Goods /\ took.items = Less(put.items, i)
      /\ took.barcodes = Less(put.barcodes, b) /\ took.itemsNumber = put.itemsNumber - 1
  BY <1>1, GoodsParts
<1>3. g.items \in [ItemKeys -> Nat] /\ g.barcodes \in [Labels -> Nat] /\ g.itemsNumber \in Int
  BY DEF C!Goods
<1>4. Less(Plus(g.items, i), i) = g.items /\ Less(Plus(g.barcodes, b), b) = g.barcodes
  BY <1>3, LessUndoesPlus
<1> HIDE DEF took
<1>5. took = g
  BY <1>1, <1>2, <1>3, <1>4, GoodsEqual
<1> QED BY <1>5 DEF took, put

\* Of two sales the first is taken back first.
LEMMA TakeFirstOfTwo ==
  ASSUME NEW g \in C!Goods, NEW i \in ItemKeys, NEW b \in Labels,
         NEW j \in ItemKeys, NEW c \in Labels
  PROVE  C!TakeGoods(C!PutGoods(C!PutGoods(g, i, b), j, c), i, b) = C!PutGoods(g, j, c)
<1> DEFINE one == C!PutGoods(g, i, b)
           two == C!PutGoods(one, j, c)
           took == C!TakeGoods(two, i, b)
           other == C!PutGoods(g, j, c)
<1>1. /\ one \in C!Goods /\ one.items = Plus(g.items, i) /\ one.barcodes = Plus(g.barcodes, b)
      /\ one.itemsNumber = g.itemsNumber + 1
  BY GoodsParts
<1>2. /\ other \in C!Goods /\ other.items = Plus(g.items, j)
      /\ other.barcodes = Plus(g.barcodes, c) /\ other.itemsNumber = g.itemsNumber + 1
  BY GoodsParts
<1> HIDE DEF one, other
<1>3. /\ two \in C!Goods /\ two.items = Plus(one.items, j)
      /\ two.barcodes = Plus(one.barcodes, c) /\ two.itemsNumber = one.itemsNumber + 1
  BY <1>1, GoodsParts
<1> HIDE DEF two
<1>4. /\ took \in C!Goods /\ took.items = Less(two.items, i)
      /\ took.barcodes = Less(two.barcodes, b) /\ took.itemsNumber = two.itemsNumber - 1
  BY <1>3, GoodsParts
<1>5. g.items \in [ItemKeys -> Nat] /\ g.barcodes \in [Labels -> Nat] /\ g.itemsNumber \in Int
  BY DEF C!Goods
<1>6. /\ Less(Plus(Plus(g.items, i), j), i) = Plus(g.items, j)
      /\ Less(Plus(Plus(g.barcodes, b), c), b) = Plus(g.barcodes, c)
  BY <1>5, LessFirstOfTwo
<1> HIDE DEF took
<1>7. took.itemsNumber = other.itemsNumber
  BY <1>1, <1>2, <1>3, <1>4, <1>5
<1>8. took = other
  BY <1>1, <1>2, <1>3, <1>4, <1>6, <1>7, GoodsEqual
<1> QED BY <1>8 DEF took, two, one, other

-----------------------------------------------------------------------------
(* Totals. *)

\* What a booking for department d adds to row k: the total row is row 0.
Share(k, d, n) == (IF k = 0 THEN n ELSE 0) + (IF k = d THEN n ELSE 0)
Worth(t) == t.amount + t.discount

LEMMA AddToAdds ==
  ASSUME NEW T \in C!Totals, NEW d \in C!TotalKeys, NEW n \in Int, NEW a \in Int, NEW q \in Int
  PROVE  /\ C!AddTo(T, d, n, a, q) \in C!Totals
         /\ \A k \in C!TotalKeys :
              LET t == T[k]
                  u == C!AddTo(T, d, n, a, q)[k]
              IN /\ u.items = t.items + (IF k = d THEN n ELSE 0)
                 /\ Worth(u) = Worth(t) + (IF k = d THEN a + q ELSE 0)
<1> DEFINE U == C!AddTo(T, d, n, a, q)
           new == [items |-> T[d].items + n, amount |-> T[d].amount + a,
                   discount |-> T[d].discount + q]
<1>1. /\ T \in [C!TotalKeys -> [items : Int, amount : Int, discount : Int]]
      /\ U = [T EXCEPT ![d] = new]
  BY DEF C!Totals, C!AddTo
<1>2. T[d].items \in Int /\ T[d].amount \in Int /\ T[d].discount \in Int
  BY <1>1
<1>3. new \in [items : Int, amount : Int, discount : Int]
  BY <1>2
<1> HIDE DEF U, new
<1>4. U \in C!Totals
  BY <1>1, <1>3 DEF C!Totals
<1>5. ASSUME NEW k \in C!TotalKeys
      PROVE  /\ U[k].items = T[k].items + (IF k = d THEN n ELSE 0)
             /\ Worth(U[k]) = Worth(T[k]) + (IF k = d THEN a + q ELSE 0)
  <2>1. T[k].items \in Int /\ T[k].amount \in Int /\ T[k].discount \in Int
    BY <1>1
  <2>2. CASE k = d
    <3>1. U[k] = new
      BY <1>1, <2>2
    <3> QED BY <1>2, <2>2, <3>1 DEF new, Worth
  <2>3. CASE k # d
    <3>1. U[k] = T[k]
      BY <1>1, <2>3
    <3> QED BY <2>1, <2>3, <3>1 DEF Worth
  <2> QED BY <2>2, <2>3
<1> QED BY <1>4, <1>5 DEF U

LEMMA TotalsInt ==
  ASSUME NEW T \in C!Totals, NEW k \in C!TotalKeys
  PROVE  T[k].items \in Int /\ Worth(T[k]) \in Int
<1>1. T[k] \in [items : Int, amount : Int, discount : Int]
  BY DEF C!Totals
<1> QED BY <1>1 DEF Worth

\* A sale or a void with the price p books p, however much of it is discount.
LEMMA BookAdds ==
  ASSUME NEW T \in C!Totals, NEW d \in C!TotalKeys, NEW p \in Int, NEW q \in Int
  PROVE  /\ C!Book(T, d, 1, p, q) \in C!Totals /\ C!Book(T, d, -1, p, q) \in C!Totals
         /\ \A k \in C!TotalKeys :
              /\ C!Book(T, d, 1, p, q)[k].items = T[k].items + Share(k, d, 1)
              /\ Worth(C!Book(T, d, 1, p, q)[k]) = Worth(T[k]) + Share(k, d, p)
              /\ C!Book(T, d, -1, p, q)[k].items = T[k].items - Share(k, d, 1)
              /\ Worth(C!Book(T, d, -1, p, q)[k]) = Worth(T[k]) - Share(k, d, p)
<1>0. 0 \in C!TotalKeys
  BY DEF C!TotalKeys
<1>1. ASSUME NEW n \in {1, -1}
      PROVE  LET U == C!Book(T, d, n, p, q)
             IN /\ U \in C!Totals
                /\ \A k \in C!TotalKeys :
                     /\ U[k].items = T[k].items + Share(k, d, n)
                     /\ Worth(U[k]) = Worth(T[k]) + Share(k, d, n * (p - q) + n * q)
  <2> DEFINE a == n * (p - q)
             r == n * q
             W == C!AddTo(T, 0, n, a, r)
             U == C!AddTo(W, d, n, a, r)
  <2>1. n \in Int /\ a \in Int /\ r \in Int
    <3>1. CASE n = 1
      BY <3>1
    <3>2. CASE n = -1
      BY <3>2
    <3> QED BY <3>1, <3>2
  <2>2. C!Book(T, d, n, p, q) = U
    BY DEF C!Book
  <2> HIDE DEF a, r
  <2>3. /\ W \in C!Totals
        /\ \A k \in C!TotalKeys :
             /\ W[k].items = T[k].items + (IF k = 0 THEN n ELSE 0)
             /\ Worth(W[k]) = Worth(T[k]) + (IF k = 0 THEN a + r ELSE 0)
    BY <1>0, <2>1, AddToAdds
  <2> HIDE DEF W
  <2>4. /\ U \in C!Totals
        /\ \A k \in C!TotalKeys :
             /\ U[k].items = W[k].items + (IF k = d THEN n ELSE 0)
             /\ Worth(U[k]) = Worth(W[k]) + (IF k = d THEN a + r ELSE 0)
    BY <2>1, <2>3, AddToAdds
  <2> HIDE DEF U
  <2>5. ASSUME NEW k \in C!TotalKeys
        PROVE  /\ U[k].items = T[k].items + Share(k, d, n)
               /\ Worth(U[k]) = Worth(T[k]) + Share(k, d, a + r)
    <3>1. T[k].items \in Int /\ Worth(T[k]) \in Int
      BY TotalsInt
    <3> QED BY <2>1, <2>3, <2>4, <3>1 DEF Share
  <2> QED BY <2>2, <2>4, <2>5 DEF a, r
<1>2. 1 * (p - q) + 1 * q = p /\ (-1) * (p - q) + (-1) * q = -p
  OBVIOUS
<1>3. \A k \in C!TotalKeys : T[k].items \in Int /\ Worth(T[k]) \in Int
  BY TotalsInt
<1>4. \A k : Share(k, d, -1) = -Share(k, d, 1) /\ Share(k, d, -p) = -Share(k, d, p)
             /\ Share(k, d, 1) \in Int /\ Share(k, d, p) \in Int
  BY DEF Share
<1>5. /\ C!Book(T, d, 1, p, q) \in C!Totals
      /\ \A k \in C!TotalKeys :
              /\ C!Book(T, d, 1, p, q)[k].items = T[k].items + Share(k, d, 1)
              /\ Worth(C!Book(T, d, 1, p, q)[k]) = Worth(T[k]) + Share(k, d, p)
  BY <1>1, <1>2
<1>6. /\ C!Book(T, d, -1, p, q) \in C!Totals
      /\ \A k \in C!TotalKeys :
              /\ C!Book(T, d, -1, p, q)[k].items = T[k].items + Share(k, d, -1)
              /\ Worth(C!Book(T, d, -1, p, q)[k]) = Worth(T[k]) + Share(k, d, -p)
  BY <1>1, <1>2
<1>7. ASSUME NEW k \in C!TotalKeys
      PROVE  /\ C!Book(T, d, -1, p, q)[k].items = T[k].items - Share(k, d, 1)
             /\ Worth(C!Book(T, d, -1, p, q)[k]) = Worth(T[k]) - Share(k, d, p)
  BY <1>3, <1>4, <1>6
<1> QED BY <1>5, <1>6, <1>7

-----------------------------------------------------------------------------
(* Carts. *)

LEMMA CartParts ==
  ASSUME NEW cart \in C!CartRecord
  PROVE  /\ cart.state \in C!CartStates /\ cart.requestId \in Nat /\ cart.goods \in C!Goods
         /\ cart.totals \in C!Totals /\ cart.loy \in C!Loy
         /\ cart.local \in [ItemKeys -> Nat \cup {Absent}]
         /\ cart = [state |-> cart.state, requestId |-> cart.requestId, goods |-> cart.goods,
                    totals |-> cart.totals, loy |-> cart.loy, local |-> cart.local]
  BY DEF C!CartRecord, C!Copies

LEMMA AddItemParts ==
  ASSUME NEW cart \in C!CartRecord, NEW i \in ItemKeys, NEW b \in Labels,
         NEW d \in C!TotalKeys, NEW p \in Int, NEW q \in Int
  PROVE  LET after == C!AddItem(cart, i, b, d, p, q)
         IN /\ after \in C!CartRecord /\ after.state = cart.state /\ after.local = cart.local
            /\ C!Accepts(cart) => /\ after.goods = C!PutGoods(cart.goods, i, b)
                                  /\ after.totals = C!Book(cart.totals, d, 1, p, q)
<1>1. CASE C!Accepts(cart)
  <2> DEFINE g == C!PutGoods(cart.goods, i, b)
             T == C!Book(cart.totals, d, 1, p, q)
  <2>1. g \in C!Goods /\ T \in C!Totals
    BY CartParts, GoodsParts, BookAdds
  <2>2. C!AddItem(cart, i, b, d, p, q) = [cart EXCEPT !.goods = g, !.totals = T]
    BY <1>1 DEF C!AddItem, C!PutItem
  <2> HIDE DEF g, T
  <2>3. LET after == [cart EXCEPT !.goods = g, !.totals = T]
        IN /\ after \in C!CartRecord /\ after.state = cart.state /\ after.local = cart.local
           /\ after.goods = g /\ after.totals = T
    BY <2>1 DEF C!CartRecord
  <2> QED BY <2>2, <2>3 DEF g, T
<1>2. CASE ~C!Accepts(cart)
  BY <1>2 DEF C!AddItem
<1> QED BY <1>1, <1>2

LEMMA RemoveItemParts ==
  ASSUME NEW cart \in C!CartRecord, NEW i \in ItemKeys, NEW b \in Labels,
         NEW d \in C!TotalKeys, NEW p \in Int
  PROVE  LET after == C!RemoveItem(cart, i, b, d, p, 0)
         IN /\ after \in C!CartRecord /\ after.state = cart.state /\ after.local = cart.local
            /\ C!Accepts(cart) /\ C!InCart(cart, i) =>
                 /\ after.goods = C!TakeGoods(cart.goods, i, b)
                 /\ after.totals = C!Book(cart.totals, d, -1, p, 0)
            /\ ~C!InCart(cart, i) => after = cart
<1>1. CASE C!Accepts(cart) /\ C!InCart(cart, i)
  <2> DEFINE g == C!TakeGoods(cart.goods, i, b)
             T == C!Book(cart.totals, d, -1, p, 0)
  <2>1. g \in C!Goods /\ T \in C!Totals
    BY CartParts, GoodsParts, BookAdds
  <2>2. C!RemoveItem(cart, i, b, d, p, 0) = [cart EXCEPT !.goods = g, !.totals = T]
    BY <1>1 DEF C!RemoveItem, C!TakeItem
  <2> HIDE DEF g, T
  <2>3. LET after == [cart EXCEPT !.goods = g, !.totals = T]
        IN /\ after \in C!CartRecord /\ after.state = cart.state /\ after.local = cart.local
           /\ after.goods = g /\ after.totals = T
    BY <2>1 DEF C!CartRecord
  <2> QED BY <1>1, <2>2, <2>3 DEF g, T
<1>2. CASE ~(C!Accepts(cart) /\ C!InCart(cart, i))
  BY <1>2 DEF C!RemoveItem, C!TakeItem
<1> QED BY <1>1, <1>2

-----------------------------------------------------------------------------
(* The archives' maps and the session have their types. *)

ItemRecord == [code : ItemKeys, price : Nat, department : C!TotalKeys, link : Labels]

WellTyped ==
  /\ temp \in ItemKeys
  /\ \A k \in DOMAIN barcodes : barcodes[k].item \in ItemKeys
  /\ \A k \in DOMAIN items : items[k] \in ItemRecord
  /\ session = NoSession \/ session \in C!CartRecord

LEMMA BlankTypes == BlankItem \in ItemRecord /\ BlankBarcode.item \in ItemKeys /\ Zero \in Labels
<1>1. 0 \in ItemKeys /\ Zero \in Labels /\ 0 \in C!TotalKeys
  BY DEF ItemKeys, Labels, C!TotalKeys
<1> QED BY <1>1 DEF BlankItem, BlankBarcode, ItemRecord

LEMMA CodeTypes ==
  ASSUME WellTyped
  PROVE  /\ \A k : BarcodeAt(k).item \in ItemKeys
         /\ \A b : CodeOf(b) \in ItemKeys
         /\ \A c : ItemAt(c) \in ItemRecord /\ LinkCode(c) \in ItemKeys /\ LinkOf(c) \in Labels
<1>1. \A k : BarcodeAt(k).item \in ItemKeys
  BY BlankTypes DEF WellTyped, BarcodeAt, Element
<1>2. \A c : ItemAt(c) \in ItemRecord
  BY BlankTypes DEF WellTyped, ItemAt, Element
<1>3. 0 \in ItemKeys
  BY DEF ItemKeys
<1>4. \A b : CodeOf(b) \in ItemKeys
  BY <1>1, <1>3 DEF CodeOf
<1>5. \A c : LinkCode(c) \in ItemKeys /\ LinkOf(c) \in Labels
  BY <1>1, <1>2 DEF LinkCode, LinkOf, ItemRecord
<1> QED BY <1>1, <1>2, <1>4, <1>5

\* Copying a price keeps what was copied before.
LEMMA CopiedParts ==
  ASSUME WellTyped, NEW cart \in C!CartRecord, NEW c
  PROVE  LET after == Copied(cart, c)
             i == ItemAt(c).code
         IN /\ after \in C!CartRecord /\ after.state = cart.state /\ after.goods = cart.goods
            /\ after.totals = cart.totals
            /\ \A k \in ItemKeys : cart.local[k] # Absent => after.local[k] = cart.local[k]
            /\ ~PriceChanges => after.local[i] # Absent
<1> DEFINE i == ItemAt(c).code
           p == ItemAt(c).price
           L == C!KeepCopy(cart.local, i, p)
<1>1. i \in ItemKeys /\ p \in Nat
  BY CodeTypes DEF ItemRecord
<1>2. cart.local \in [ItemKeys -> Nat \cup {Absent}]
  BY CartParts
<1> HIDE DEF i, p
<1>3. /\ L \in [ItemKeys -> Nat \cup {Absent}] /\ L[i] # Absent
      /\ \A k \in ItemKeys : cart.local[k] # Absent => L[k] = cart.local[k]
  BY <1>1, <1>2 DEF C!KeepCopy, Absent
<1> HIDE DEF L
<1>4. LET after == [cart EXCEPT !.local = L]
      IN /\ after \in C!CartRecord /\ after.state = cart.state /\ after.goods = cart.goods
         /\ after.totals = cart.totals /\ after.local = L
  BY <1>3 DEF C!CartRecord, C!Copies
<1>5. CASE PriceChanges
  BY <1>5 DEF Copied
<1>6. CASE ~PriceChanges
  <2>1. Copied(cart, c) = [cart EXCEPT !.local = L]
    BY <1>6 DEF Copied, C!UpdateLocalItemMap, L, i, p
  <2> QED BY <1>3, <1>4, <2>1 DEF i
<1> QED BY <1>5, <1>6

LEMMA SeqElements ==
  ASSUME NEW S, NEW s \in Seq(S), NEW k \in 1..Len(s)
  PROVE  s[k] \in S
  OBVIOUS

LEMMA LabelPriceType ==
  ASSUME NEW b \in Labels
  PROVE  LabelPrices[b] \in Int
<1>1. b \in Seq(Digits)
  BY LabelsType
<1>2. CASE CarriesPrice(b)
  <2>1. Len(b) = 13
    BY <1>1, <1>2, PriceCarriers
  <2>2. \A k \in 1..13 : b[k] \in 0..9
    <3>1. \A k \in 1..Len(b) : b[k] \in Digits
      BY <1>1, SeqElements
    <3> QED BY <2>1, <3>1 DEF Digits
  <2>3. b[8] \in Int /\ b[9] \in Int /\ b[10] \in Int /\ b[11] \in Int /\ b[12] \in Int
    BY <2>2
  <2>4. LabelPrice(b) \in Int
    BY <2>3 DEF LabelPrice
  <2> QED BY <1>2, <2>4 DEF LabelPrices
<1>3. CASE ~CarriesPrice(b)
  BY <1>3 DEF LabelPrices, Absent
<1> QED BY <1>2, <1>3

LEMMA PriceInType ==
  ASSUME WellTyped, NEW cart \in C!CartRecord, NEW b \in Labels
  PROVE  PriceIn(cart, b) \in Int
<1>1. ItemAt(CodeOf(b)).code \in ItemKeys /\ ItemAt(CodeOf(b)).price \in Nat
  BY CodeTypes DEF ItemRecord
<1>2. cart.local \in [ItemKeys -> Nat \cup {Absent}] /\ LabelPrices[b] \in Int
  BY CartParts, LabelPriceType
<1> QED BY <1>1, <1>2 DEF PriceIn, C!GetItemPrice, Absent

-----------------------------------------------------------------------------
(* A sale and its void. *)

LEMMA SoldLinkType ==
  ASSUME WellTyped, NEW cart \in C!CartRecord, NEW c
  PROVE  SoldLink(cart, c) \in C!CartRecord
<1> DEFINE j == LinkCode(c)
           copied == Copied(cart, j)
<1>1. /\ j \in ItemKeys /\ LinkOf(c) \in Labels
      /\ ItemAt(j).department \in C!TotalKeys /\ ItemAt(j).price \in Int
  BY CodeTypes DEF ItemRecord
<1>2. copied \in C!CartRecord
  BY CopiedParts
<1> HIDE DEF copied
<1>3. C!AddItem(copied, j, LinkOf(c), ItemAt(j).department, ItemAt(j).price, 0) \in C!CartRecord
  BY <1>1, <1>2, AddItemParts
<1> QED BY <1>3 DEF SoldLink, copied

LEMMA SoldType ==
  ASSUME WellTyped, NEW cart \in C!CartRecord, NEW b \in Labels, NEW promo,
         AsSigned(promo) \in Int
  PROVE  Sold(cart, b, promo) \in C!CartRecord
<1> DEFINE code == CodeOf(b)
           priced == Copied(cart, code)
           sold == C!AddItem(priced, code, b, ItemAt(code).department, PriceIn(priced, b),
                             AsSigned(promo))
<1>1. code \in ItemKeys /\ ItemAt(code).department \in C!TotalKeys
  BY CodeTypes DEF ItemRecord
<1>2. priced \in C!CartRecord
  BY CopiedParts
<1> HIDE DEF priced
<1>3. PriceIn(priced, b) \in Int
  BY <1>2, PriceInType
<1>4. sold \in C!CartRecord
  BY <1>1, <1>2, <1>3, AddItemParts
<1> HIDE DEF sold
<1>5. SoldLink(sold, code) \in C!CartRecord
  BY <1>4, SoldLinkType
<1> QED BY <1>5 DEF Sold, sold, priced

LEMMA VoidedType ==
  ASSUME WellTyped, NEW cart \in C!CartRecord, NEW b \in Labels
  PROVE  Voided(cart, b) \in C!CartRecord
<1> DEFINE code == CodeOf(b)
           j == LinkCode(code)
           gone == C!RemoveItem(cart, code, b, ItemAt(code).department, PriceIn(cart, b), 0)
<1>1. code \in ItemKeys /\ ItemAt(code).department \in C!TotalKeys
  BY CodeTypes DEF ItemRecord
<1>2. /\ j \in ItemKeys /\ LinkOf(code) \in Labels
      /\ ItemAt(j).department \in C!TotalKeys /\ ItemAt(j).price \in Int
  BY CodeTypes DEF ItemRecord
<1>3. PriceIn(cart, b) \in Int
  BY PriceInType
<1>4. gone \in C!CartRecord
  BY <1>1, <1>3, RemoveItemParts
<1> HIDE DEF gone
<1>5. C!RemoveItem(gone, j, LinkOf(code), ItemAt(j).department, ItemAt(j).price, 0)
        \in C!CartRecord
  BY <1>2, <1>4, RemoveItemParts
<1> QED BY <1>4, <1>5 DEF Voided, gone

\* The price depends on the cart by the copy of the item alone.
LEMMA PriceFollowsCopy ==
  ASSUME NEW cart, NEW other, NEW b,
         PriceChanges \/ cart.local[ItemAt(CodeOf(b)).code] = other.local[ItemAt(CodeOf(b)).code]
  PROVE  PriceIn(cart, b) = PriceIn(other, b)
  BY DEF PriceIn, C!GetItemPrice

\* What a booking and its reverse leave of a row.
LEMMA BookedBack ==
  ASSUME NEW T \in C!Totals, NEW d \in C!TotalKeys, NEW p \in Int, NEW q \in Int
  PROVE  LET U == C!Book(C!Book(T, d, 1, p, q), d, -1, p, 0)
         IN /\ U \in C!Totals
            /\ \A k \in C!TotalKeys : U[k].items = T[k].items /\ Worth(U[k]) = Worth(T[k])
<1> DEFINE S == C!Book(T, d, 1, p, q)
           U == C!Book(S, d, -1, p, 0)
<1>1. /\ S \in C!Totals
      /\ \A k \in C!TotalKeys : /\ S[k].items = T[k].items + Share(k, d, 1)
                                /\ Worth(S[k]) = Worth(T[k]) + Share(k, d, p)
  BY BookAdds
<1> HIDE DEF S
<1>2. /\ U \in C!Totals
      /\ \A k \in C!TotalKeys : /\ U[k].items = S[k].items - Share(k, d, 1)
                                /\ Worth(U[k]) = Worth(S[k]) - Share(k, d, p)
  BY <1>1, BookAdds
<1> HIDE DEF U
<1>3. ASSUME NEW k \in C!TotalKeys
      PROVE  U[k].items = T[k].items /\ Worth(U[k]) = Worth(T[k])
  <2>1. T[k].items \in Int /\ Worth(T[k]) \in Int
    BY TotalsInt
  <2>2. Share(k, d, 1) \in Int /\ Share(k, d, p) \in Int
    BY DEF Share
  <2> QED BY <1>1, <1>2, <2>1, <2>2
<1> QED BY <1>2, <1>3 DEF U, S

LEMMA BookedBackTwo ==
  ASSUME NEW T \in C!Totals, NEW d \in C!TotalKeys, NEW p \in Int, NEW q \in Int,
         NEW e \in C!TotalKeys, NEW r \in Int
  PROVE  LET U == C!Book(C!Book(C!Book(C!Book(T, d, 1, p, q), e, 1, r, 0), d, -1, p, 0),
                         e, -1, r, 0)
         IN \A k \in C!TotalKeys : U[k].items = T[k].items /\ Worth(U[k]) = Worth(T[k])
<1> DEFINE S == C!Book(T, d, 1, p, q)
           R == C!Book(S, e, 1, r, 0)
           V == C!Book(R, d, -1, p, 0)
           U == C!Book(V, e, -1, r, 0)
<1>1. /\ S \in C!Totals
      /\ \A k \in C!TotalKeys : /\ S[k].items = T[k].items + Share(k, d, 1)
                                /\ Worth(S[k]) = Worth(T[k]) + Share(k, d, p)
  BY BookAdds
<1> HIDE DEF S
<1>2. /\ R \in C!Totals
      /\ \A k \in C!TotalKeys : /\ R[k].items = S[k].items + Share(k, e, 1)
                                /\ Worth(R[k]) = Worth(S[k]) + Share(k, e, r)
  BY <1>1, BookAdds
<1> HIDE DEF R
<1>3. /\ V \in C!Totals
      /\ \A k \in C!TotalKeys : /\ V[k].items = R[k].items - Share(k, d, 1)
                                /\ Worth(V[k]) = Worth(R[k]) - Share(k, d, p)
  BY <1>2, BookAdds
<1> HIDE DEF V
<1>4. \A k \in C!TotalKeys : /\ U[k].items = V[k].items - Share(k, e, 1)
                             /\ Worth(U[k]) = Worth(V[k]) - Share(k, e, r)
  BY <1>3, BookAdds
<1> HIDE DEF U
<1>5. ASSUME NEW k \in C!TotalKeys
      PROVE  U[k].items = T[k].items /\ Worth(U[k]) = Worth(T[k])
  <2>1. T[k].items \in Int /\ Worth(T[k]) \in Int
    BY TotalsInt
  <2>2. /\ Share(k, d, 1) \in Int /\ Share(k, d, p) \in Int
        /\ Share(k, e, 1) \in Int /\ Share(k, e, r) \in Int
    BY DEF Share
  <2> QED BY <1>1, <1>2, <1>3, <1>4, <2>1, <2>2
<1> QED BY <1>5 DEF U, V, R, S

LEMMA Restored ==
  ASSUME WellTyped, NEW cart \in C!CartRecord, C!Accepts(cart), NEW b \in Labels,
         ItemAt(CodeOf(b)).code = CodeOf(b), NEW promo, AsSigned(promo) \in Int
  PROVE  LET after == Voided(Sold(cart, b, promo), b)
         IN /\ after.goods = cart.goods
            /\ \A k \in C!TotalKeys : /\ after.totals[k].items = cart.totals[k].items
                                      /\ Worth(after.totals[k]) = Worth(cart.totals[k])
<1> DEFINE code == CodeOf(b)
           d == ItemAt(code).department
           q == AsSigned(promo)
           priced == Copied(cart, code)
           p == PriceIn(priced, b)
           sold == C!AddItem(priced, code, b, d, p, q)
           g == C!PutGoods(cart.goods, code, b)
           S == C!Book(cart.totals, d, 1, p, q)
<1>1. code \in ItemKeys /\ d \in C!TotalKeys
  BY CodeTypes DEF ItemRecord
<1>2. cart.goods \in C!Goods /\ cart.totals \in C!Totals
  BY CartParts
<1>3. /\ priced \in C!CartRecord /\ priced.state = cart.state /\ priced.goods = cart.goods
      /\ priced.totals = cart.totals /\ (~PriceChanges => priced.local[code] # Absent)
  BY CopiedParts
<1>4. C!Accepts(priced)
  BY <1>3 DEF C!Accepts
<1> HIDE DEF priced
<1>5. p \in Int
  BY <1>3, PriceInType
<1> HIDE DEF p, q, d
<1>6. /\ sold \in C!CartRecord /\ sold.state = cart.state /\ sold.local = priced.local
      /\ sold.goods = g /\ sold.totals = S
  <2>1. q \in Int
    BY DEF q
  <2> QED BY <1>1, <1>3, <1>4, <1>5, <2>1, AddItemParts
<1>7. Sold(cart, b, promo) = SoldLink(sold, code)
  BY DEF Sold, sold, priced, p, q, d
<1>8. g \in C!Goods /\ g.items[code] > 0 /\ S \in C!Totals /\ q \in Int
  <2>1. g \in C!Goods /\ g.items = Plus(cart.goods.items, code)
    BY <1>1, <1>2, GoodsParts
  <2>2. Plus(cart.goods.items, code)[code] > 0
    <3>1. cart.goods.items \in [ItemKeys -> Nat]
      BY <1>2 DEF C!Goods
    <3> QED BY <1>1, <3>1, RowsType
  <2>3. q \in Int
    BY DEF q
  <2> QED BY <1>1, <1>2, <1>5, <2>1, <2>2, <2>3, BookAdds
<1> HIDE DEF sold, g, S, code
<1>9. code = CodeOf(b) /\ d = ItemAt(code).department /\ ItemAt(code).code = code
  BY DEF code, d
<1>10. CASE ~HasLink(code)
  <2> DEFINE gone == C!RemoveItem(sold, code, b, d, p, 0)
  <2>1. PriceIn(sold, b) = p
    BY <1>6, PriceFollowsCopy DEF p
  <2>2. Sold(cart, b, promo) = sold
    BY <1>7, <1>10 DEF SoldLink
  <2>3. Voided(sold, b) = gone
    BY <1>9, <1>10, <2>1 DEF Voided
  <2>4. C!Accepts(sold) /\ C!InCart(sold, code)
    BY <1>6, <1>8 DEF C!Accepts, C!InCart
  <2>5. /\ gone.goods = C!TakeGoods(g, code, b)
        /\ gone.totals = C!Book(S, d, -1, p, 0)
    BY <1>1, <1>5, <1>6, <2>4, RemoveItemParts
  <2> HIDE DEF gone
  <2>6. gone.goods = cart.goods
    BY <1>1, <1>2, <2>5, TakeUndoesPut DEF g
  <2>7. \A k \in C!TotalKeys : /\ gone.totals[k].items = cart.totals[k].items
                               /\ Worth(gone.totals[k]) = Worth(cart.totals[k])
    BY <1>1, <1>2, <1>5, <1>8, <2>5, BookedBack DEF S
  <2> QED BY <2>2, <2>3, <2>6, <2>7
<1>11. CASE HasLink(code)
  <2> DEFINE j == LinkCode(code)
             c == LinkOf(code)
             e == ItemAt(j).department
             r == ItemAt(j).price
             copied == Copied(sold, j)
             both == C!AddItem(copied, j, c, e, r, 0)
             h == C!PutGoods(g, j, c)
             R == C!Book(S, e, 1, r, 0)
             gone == C!RemoveItem(both, code, b, d, p, 0)
             after == C!RemoveItem(gone, j, c, e, r, 0)
  <2>1. j \in ItemKeys /\ c \in Labels /\ e \in C!TotalKeys /\ r \in Int
    BY CodeTypes DEF ItemRecord
  <2>2. /\ copied \in C!CartRecord /\ copied.state = sold.state /\ copied.goods = sold.goods
        /\ copied.totals = sold.totals
        /\ \A k \in ItemKeys : sold.local[k] # Absent => copied.local[k] = sold.local[k]
    BY <1>6, CopiedParts
  <2> HIDE DEF copied
  <2>3. C!Accepts(copied)
    BY <1>6, <2>2 DEF C!Accepts
  <2>4. Sold(cart, b, promo) = both
    BY <1>7, <1>11 DEF SoldLink, copied
  <2> HIDE DEF j, c, e, r
  <2>5. /\ both \in C!CartRecord /\ both.state = cart.state /\ both.local = copied.local
        /\ both.goods = h /\ both.totals = R
    BY <1>6, <2>1, <2>2, <2>3, AddItemParts
  <2>6. h \in C!Goods /\ R \in C!Totals
    BY <1>8, <2>1, GoodsParts, BookAdds
  <2>7. h.items[code] > 0
    <3>1. cart.goods.items \in [ItemKeys -> Nat]
      BY <1>2 DEF C!Goods
    <3>2. g.items = Plus(cart.goods.items, code)
      BY <1>1, <1>2, GoodsParts DEF g
    <3>3. h.items = Plus(g.items, j)
      BY <1>8, <2>1, GoodsParts
    <3> QED BY <1>1, <2>1, <3>1, <3>2, <3>3, LessFirstOfTwo
  <2> HIDE DEF both, h, R
  <2>8. PriceIn(both, b) = p
    <3>1. PriceChanges \/ both.local[code] = priced.local[code]
      BY <1>1, <1>3, <1>6, <2>2, <2>5
    <3> QED BY <1>9, <3>1, PriceFollowsCopy DEF p
  <2>9. C!Accepts(both) /\ C!InCart(both, code)
    BY <2>5, <2>7 DEF C!Accepts, C!InCart
  <2>10. /\ gone \in C!CartRecord /\ gone.state = cart.state
         /\ gone.goods = C!TakeGoods(h, code, b)
         /\ gone.totals = C!Book(R, d, -1, p, 0)
    BY <1>1, <1>5, <2>5, <2>9, RemoveItemParts
  <2>11. Voided(both, b) = after
    BY <1>9, <1>11, <2>8 DEF Voided, j, c, e, r
  <2> HIDE DEF gone
  <2>12. gone.goods = C!PutGoods(cart.goods, j, c)
    BY <1>1, <1>2, <2>1, <2>10, TakeFirstOfTwo DEF g, h
  <2>13. C!Accepts(gone) /\ C!InCart(gone, j)
    <3>1. cart.goods.items \in [ItemKeys -> Nat]
      BY <1>2 DEF C!Goods
    <3>2. gone.goods.items = Plus(cart.goods.items, j)
      BY <1>2, <2>1, <2>12, GoodsParts
    <3>3. gone.goods.items[j] > 0
      BY <2>1, <3>1, <3>2, RowsType
    <3> QED BY <2>10, <3>3 DEF C!Accepts, C!InCart
  <2>14. /\ after.goods = C!TakeGoods(gone.goods, j, c)
         /\ after.totals = C!Book(gone.totals, e, -1, r, 0)
    BY <2>1, <2>10, <2>13, RemoveItemParts
  <2> HIDE DEF after
  <2>15. after.goods = cart.goods
    BY <1>2, <2>1, <2>12, <2>14, TakeUndoesPut
  <2>16. \A k \in C!TotalKeys : /\ after.totals[k].items = cart.totals[k].items
                                /\ Worth(after.totals[k]) = Worth(cart.totals[k])
    BY <1>1, <1>2, <1>5, <1>8, <2>1, <2>10, <2>14, BookedBackTwo DEF R, S
  <2> QED BY <2>4, <2>11, <2>15, <2>16
<1> QED BY <1>10, <1>11

-----------------------------------------------------------------------------
(* Promotions. *)

LEMMA SignedType == \A v \in Int : AsUnsigned(v) \in Int /\ AsSigned(v) \in Int
<1>1. Word \in Nat /\ Word > 0
  BY WordAssumption
<1>2. ASSUME NEW v \in Int
      PROVE  v % Word \in Int /\ (IF 2 * v >= Word THEN v - Word ELSE v) \in Int
  BY <1>1
<1> QED BY <1>2 DEF AsUnsigned, AsSigned

LEMMA PromosType ==
  ASSUME NEW code, NEW price \in Int, NEW promo \in PromosFor(code, price)
  PROVE  AsSigned(promo) \in Int
<1>1. CASE code \in DOMAIN Promotions
  <2> DEFINE discount == Promotions[code].discount
  <2>1. Promotions[code] \in [type : PromoTypes, discount : Int]
    BY <1>1, ItemRequestsAssumption
  <2>2. discount \in Int /\ Promotions[code].type \in PromoTypes
    BY <2>1
  <2>3. promo \in PromoValues(Promotions[code], price)
    BY <1>1 DEF PromosFor
  <2>4. Percentages(price, discount) \subseteq Int
    <3> DEFINE product == price * discount
    <3>1. product \in Int
      BY <2>2
    <3> HIDE DEF product
    <3>2. product \div 100 \in Int /\ (product \div 100) - 1 \in Int
      BY <3>1
    <3> QED BY <3>2 DEF Percentages, product
  <2> HIDE DEF discount
  <2>5. promo \in Int
    <3>1. CASE Promotions[code].type = "PROMO_TYPE_DSC_VAL"
      BY <2>2, <2>3, <3>1, SignedType DEF PromoValues, discount
    <3>2. CASE Promotions[code].type = "PROMO_TYPE_DSC_PERC"
      <4>1. promo \in {AsUnsigned(v) : v \in Percentages(price, discount)}
        BY <2>3, <3>2 DEF PromoValues, discount
      <4> QED BY <2>4, <4>1, SignedType
    <3>3. CASE Promotions[code].type = "PROMO_TYPE_PRICE_CUT"
      <4>1. price - discount \in Int /\ promo = AsUnsigned(price - discount)
        BY <2>2, <2>3, <3>3 DEF PromoValues, discount
      <4> QED BY <4>1, SignedType
    <3>4. CASE Promotions[code].type = "PROMO_TYPE_POINTS"
      BY <2>3, <3>4 DEF PromoValues
    <3> QED BY <2>2, <3>1, <3>2, <3>3, <3>4 DEF PromoTypes
  <2> QED BY <2>5, SignedType
<1>2. CASE code \notin DOMAIN Promotions
  <2>1. promo = 0
    BY <1>2 DEF PromosFor
  <2> QED BY <2>1, SignedType
<1> QED BY <1>1, <1>2

-----------------------------------------------------------------------------
(* The steps keep the types. *)

LEMMA WellTypedInit == Init => WellTyped
<1> SUFFICES ASSUME Init
             PROVE  WellTyped
  OBVIOUS
<1>1. temp \in ItemKeys /\ DOMAIN barcodes = {} /\ session = NoSession /\ items = ShippedItems
  BY DEF Init
<1>2. ASSUME NEW i \in DOMAIN ShippedItems
      PROVE  ShippedItems[i] \in ItemRecord
  <2>1. ShippedItems[i] \in Item /\ ShippedItems[i].code = i
    BY ItemRequestsAssumption
  <2>2. i \in ItemKeys /\ ShippedItems[i].department \in C!TotalKeys /\ ShippedItems[i].link \in Labels
    BY DEF ItemKeys, C!TotalKeys, Departments, Labels
  <2> QED BY <2>1, <2>2 DEF Item, ItemRecord
<1> QED BY <1>1, <1>2 DEF WellTyped

LEMMA LookedUpTypes ==
  /\ \A map, key : (\A k \in DOMAIN map : map[k].item \in ItemKeys)
       => \A k \in DOMAIN LookedUp(map, key, BlankBarcode) :
            LookedUp(map, key, BlankBarcode)[k].item \in ItemKeys
  /\ \A map, key : (\A k \in DOMAIN map : map[k] \in ItemRecord)
       => \A k \in DOMAIN LookedUp(map, key, BlankItem) :
            LookedUp(map, key, BlankItem)[k] \in ItemRecord
  BY BlankTypes DEF LookedUp, Put

ArchivesTyped ==
  /\ \A k \in DOMAIN barcodes : barcodes[k].item \in ItemKeys
  /\ \A k \in DOMAIN items : items[k] \in ItemRecord

LEMMA TouchTypes ==
  ASSUME WellTyped, NEW b, NEW follows, Touch(b, follows)
  PROVE  ArchivesTyped'
<1> DEFINE found == LookedUp(barcodes, LookupKey(b), BlankBarcode)
           shown == LookedUp(items, CodeOf(b), BlankItem)
<1>1. /\ \A k \in DOMAIN found : found[k].item \in ItemKeys
      /\ \A k \in DOMAIN shown : shown[k] \in ItemRecord
  BY LookedUpTypes DEF WellTyped
<1>2. \/ barcodes' = found /\ items' = shown
      \/ /\ barcodes' = LookedUp(found, LinkOf(CodeOf(b)), BlankBarcode)
         /\ items' = LookedUp(shown, LinkCode(CodeOf(b)), BlankItem)
  BY DEF Touch
<1> HIDE DEF found, shown
<1> QED BY <1>1, <1>2, LookedUpTypes DEF ArchivesTyped

LEMMA BarcodeInType == \A params : BarcodeIn(params) \in Labels
<1>1. \A n \in Numerals : Decimal(NumberOf[n]) \in Labels
  BY DEF Labels, Numbers
<1>2. Zero \in Labels
  BY DEF Labels
<1> QED BY <1>1, <1>2 DEF BarcodeIn, NumberIn

LEMMA NewCartType == C!NewCart("ready") \in C!CartRecord
<1>1. C!NoGoods \in C!Goods
  BY DEF C!NoGoods, C!Goods
<1>2. C!NoTotals \in C!Totals
  BY DEF C!NoTotals, C!Totals
<1>3. C!NoLoy \in C!Loy
  BY DEF C!NoLoy, C!Loy
<1>4. C!NoCopies \in C!Copies
  BY DEF C!NoCopies, C!Copies
<1>5. "ready" \in C!CartStates
  BY DEF C!CartStates
<1> QED BY <1>1, <1>2, <1>3, <1>4, <1>5 DEF C!NewCart, C!CartRecord

LEMMA AskedType ==
  ASSUME WellTyped, session # NoSession
  PROVE  /\ session \in C!CartRecord /\ Asked \in C!CartRecord
         /\ [Asked EXCEPT !.state = "voided"] \in C!CartRecord
<1>1. session \in C!CartRecord
  BY DEF WellTyped
<1>2. Asked = [session EXCEPT !.requestId = @ + 1]
  BY DEF Asked, C!GetNextRequestId
<1>3. session.requestId + 1 \in Nat /\ "voided" \in C!CartStates
  BY <1>1 DEF C!CartRecord, C!CartStates
<1>4. Asked \in C!CartRecord
  BY <1>1, <1>2, <1>3 DEF C!CartRecord
<1> QED BY <1>1, <1>3, <1>4 DEF C!CartRecord

LEMMA AddItemTypes ==
  ASSUME WellTyped, session # NoSession, NEW action, NEW b \in Labels, AddItem(action, b)
  PROVE  session' \in C!CartRecord /\ ArchivesTyped'
<1>1. Asked \in C!CartRecord /\ session \in C!CartRecord
  BY AskedType
<1>2. Copied(Asked, CodeOf(b)) \in C!CartRecord
  BY <1>1, CopiedParts
<1>3. PriceIn(Copied(session, CodeOf(b)), b) \in Int
  <2>1. Copied(session, CodeOf(b)) \in C!CartRecord
    BY <1>1, CopiedParts
  <2> QED BY <2>1, PriceInType
<1>4. PICK promo \in PromosFor(CodeOf(b), PriceIn(Copied(session, CodeOf(b)), b)) :
        session' = IF C!Accepts(session) THEN Sold(Asked, b, promo) ELSE Copied(Asked, CodeOf(b))
  BY DEF AddItem
<1>5. AsSigned(promo) \in Int
  BY <1>3, PromosType
<1>6. Sold(Asked, b, promo) \in C!CartRecord
  BY <1>1, <1>5, SoldType
<1>7. ArchivesTyped'
  BY TouchTypes DEF AddItem
<1> QED BY <1>2, <1>4, <1>6, <1>7

LEMMA VoidItemTypes ==
  ASSUME WellTyped, session # NoSession, NEW action, NEW b \in Labels, VoidItem(action, b)
  PROVE  session' \in C!CartRecord /\ ArchivesTyped'
<1>1. Asked \in C!CartRecord
  BY AskedType
<1>2. Voided(Asked, b) \in C!CartRecord
  BY <1>1, VoidedType
<1>3. session' = Voided(Asked, b) \/ session' = Asked
  BY DEF VoidItem
<1>4. ArchivesTyped'
  BY TouchTypes DEF VoidItem
<1> QED BY <1>1, <1>2, <1>3, <1>4

LEMMA PerformTypes ==
  ASSUME WellTyped, NEW action, NEW params, Perform(action, params)
  PROVE  (session' = NoSession \/ session' \in C!CartRecord) /\ ArchivesTyped'
<1> DEFINE b == BarcodeIn(params)
<1>0. b \in Labels
  BY BarcodeInType
<1>1. ArchivesTyped /\ (session = NoSession \/ session \in C!CartRecord)
  BY DEF WellTyped, ArchivesTyped
<1> HIDE DEF b
<1>2. CASE InitSession(action)
  BY <1>1, <1>2, NewCartType DEF InitSession, ArchivesTyped
<1>3. CASE NoSessionAsked(action)
  BY <1>1, <1>3 DEF NoSessionAsked, ArchivesTyped
<1>4. CASE ItemInfo(action, b)
  <2>1. Touch(b, FALSE) /\ UNCHANGED session
    BY <1>4 DEF ItemInfo
  <2> QED BY <1>1, <2>1, TouchTypes
<1>5. CASE UnknownSession(action)
  BY <1>1, <1>5 DEF UnknownSession, ArchivesTyped
<1>6. CASE session # NoSession /\ GetTotals(action)
  BY <1>1, <1>6, AskedType DEF GetTotals, ArchivesTyped
<1>7. CASE session # NoSession /\ Query(action)
  BY <1>1, <1>7, AskedType DEF Query, ArchivesTyped
<1>8. CASE session # NoSession /\ VoidTransaction(action)
  BY <1>1, <1>8, AskedType DEF VoidTransaction, ArchivesTyped
<1>9. CASE session # NoSession /\ RefuseItem(action, b)
  <2>1. /\ session' = Asked /\ barcodes' = LookedUp(barcodes, LookupKey(b), BlankBarcode)
        /\ items' = LookedUp(items, 0, BlankItem) \/ items' = items
    BY <1>9 DEF RefuseItem
  <2> QED BY <1>1, <1>9, <2>1, AskedType, LookedUpTypes DEF ArchivesTyped
<1>10. CASE session # NoSession /\ AddItem(action, b)
  BY <1>0, <1>10, AddItemTypes
<1>11. CASE session # NoSession /\ VoidItem(action, b)
  BY <1>0, <1>11, VoidItemTypes
<1> QED
  BY <1>2, <1>3, <1>4, <1>5, <1>6, <1>7, <1>8, <1>9, <1>10, <1>11 DEF Perform, Finds, b

LEMMA HandleTypes ==
  ASSUME WellTyped, NEW u, Handle(u)
  PROVE  WellTyped'
<1>1. temp' = temp /\ temp \in ItemKeys
  BY DEF Handle, WellTyped
<1>2. CASE Acceptable(u)
  <2>1. \E action, params : Perform(action, params)
    BY <1>2 DEF Handle
  <2> QED BY <1>1, <2>1, PerformTypes DEF WellTyped, ArchivesTyped
<1>3. CASE ~Acceptable(u)
  <2>1. UNCHANGED <<barcodes, items, session>>
    BY <1>3 DEF Handle
  <2> QED BY <1>1, <2>1 DEF WellTyped
<1> QED BY <1>2, <1>3

LEMMA ReadRowTypes ==
  ASSUME WellTyped, MapFollowsRows, ReadRow
  PROVE  WellTyped'
<1> DEFINE r == read + 1
           row == BarcodeRows[r]
           key == StoredKey(Decimal(row.text))
<1>1. CASE r \in DOMAIN BarcodeRows
  <2>1. row.item = Absent \/ row.item \in ItemKeys
    BY <1>1 DEF ItemKeys, RowItems
  <2>2. /\ temp' = IF row.item = Absent THEN temp ELSE row.item
        /\ barcodes' = [k \in DOMAIN barcodes \cup {key} |->
                          IF k = key THEN [code |-> key, item |-> temp'] ELSE barcodes[k]]
        /\ UNCHANGED <<items, session>>
    BY DEF ReadRow, Put
  <2> HIDE DEF row, key, r
  <2>3. temp' \in ItemKeys
    BY <2>1, <2>2 DEF WellTyped
  <2>4. \A k \in DOMAIN barcodes' : barcodes'[k].item \in ItemKeys
    BY <2>2, <2>3 DEF WellTyped
  <2> QED BY <2>2, <2>3, <2>4 DEF WellTyped
<1>2. r \in DOMAIN BarcodeRows
  BY ItemRequestsAssumption, RowsLength DEF ReadRow, MapFollowsRows
<1> QED BY <1>1, <1>2

LEMMA PriceVariationTypes ==
  ASSUME WellTyped, PriceVariation
  PROVE  WellTyped'
<1>1. PICK i \in DOMAIN ShippedItems, p \in NewPrices :
        items' = [items EXCEPT ![i] = [@ EXCEPT !.price = p, !.link = Zero]]
  BY DEF PriceVariation
<1>2. p \in Nat /\ Zero \in Labels
  BY ItemRequestsAssumption, BlankTypes
<1>3. \A k \in DOMAIN items : [items[k] EXCEPT !.price = p, !.link = Zero] \in ItemRecord
  BY <1>2 DEF WellTyped, ItemRecord
<1>4. \A k \in DOMAIN items' : items'[k] \in ItemRecord
  BY <1>1, <1>3 DEF WellTyped
<1> QED BY <1>4 DEF WellTyped, PriceVariation

LEMMA WellTypedStep ==
  ASSUME WellTyped, MapFollowsRows, [Next]_vars
  PROVE  WellTyped'
<1>1. CASE ReadRow
  BY <1>1, ReadRowTypes
<1>2. CASE PriceVariation
  BY <1>2, PriceVariationTypes
<1>3. ASSUME NEW u, Handle(u)
      PROVE  WellTyped'
  BY <1>3, HandleTypes
<1>4. CASE UNCHANGED vars
  BY <1>4 DEF WellTyped, vars, archives
<1> QED BY <1>1, <1>2, <1>3, <1>4 DEF Next, Stray

\* For every archive, promotion and sequence of requests and variations: an
\* item voided by the barcode it was sold by, at once, leaves the cart's rows
\* and counters as they were, linked item included, and of its price in the
\* total and in its department only the promotion has become a discount.
THEOREM VoidRestores == Spec => []VoidUndoesSale
<1>1. Spec => [](WellTyped /\ MapFollowsRows)
  BY WellTypedInit, WellTypedStep, MapInit, MapStep, PTL DEF Spec
<1>2. WellTyped => VoidUndoesSale
  <2> SUFFICES ASSUME WellTyped, session # NoSession, C!Accepts(session), NEW b \in Numbers,
                      ItemAt(CodeOf(b)).code = CodeOf(b),
                      NEW promo \in PromosFor(CodeOf(b), PriceIn(Copied(session, CodeOf(b)), b))
               PROVE  LET after == Voided(Sold(session, b, promo), b)
                      IN /\ after.goods = session.goods
                         /\ \A d \in DOMAIN session.totals :
                              LET t == session.totals[d]
                                  u == after.totals[d]
                              IN u.items = t.items /\ u.amount + u.discount = t.amount + t.discount
    BY DEF VoidUndoesSale
  <2>1. b \in Labels
    BY DEF Labels
  <2>2. session \in C!CartRecord
    BY AskedType
  <2>3. DOMAIN session.totals = C!TotalKeys
    BY <2>2, CartParts DEF C!Totals
  <2>4. AsSigned(promo) \in Int
    <3>1. Copied(session, CodeOf(b)) \in C!CartRecord
      BY <2>2, CopiedParts
    <3>2. PriceIn(Copied(session, CodeOf(b)), b) \in Int
      BY <2>1, <3>1, PriceInType
    <3> QED BY <3>2, PromosType
  <2> QED BY <2>1, <2>2, <2>3, <2>4, Restored DEF Worth
<1> QED BY <1>1, <1>2, PTL

-----------------------------------------------------------------------------
(* The greatest and the least of a set of positions. *)

LEMMA LeastIs ==
  ASSUME NEW S \in SUBSET Nat, S # {}
  PROVE  Min(S) \in S /\ \A k \in S : Min(S) <= k
<1>1. \E k \in S : \A j \in S : k <= j
  BY LeastOf
<1>2. \E k \in S : \A j \in S : k =< j
  BY <1>1
<1> QED BY <1>2, Zenon DEF Min

LEMMA GreatestIs ==
  ASSUME NEW n \in Nat, NEW S \in SUBSET (0..n), S # {}
  PROVE  Max(S) \in S /\ \A k \in S : k <= Max(S)
<1> DEFINE T == {j \in 0..n : n - j \in S}
<1>1. T \in SUBSET Nat /\ T # {}
  <2>1. PICK k \in S : k \in 0..n
    OBVIOUS
  <2>2. n - k \in 0..n /\ n - (n - k) = k
    BY <2>1
  <2>3. n - k \in T
    BY <2>1, <2>2
  <2>4. T \in SUBSET Nat
    OBVIOUS
  <2> HIDE DEF T
  <2> QED BY <2>3, <2>4
<1>2. PICK t \in T : \A j \in T : t <= j
  <2> HIDE DEF T
  <2> QED BY <1>1, LeastOf
<1> DEFINE m == n - t
<1>3. m \in S /\ m \in Int /\ t \in Int
  BY <1>2
<1>4. ASSUME NEW k \in S
      PROVE  m >= k
  <2>1. k \in 0..n /\ n - k \in 0..n /\ n - (n - k) = k
    OBVIOUS
  <2>2. t <= n - k
    BY <1>2, <2>1 DEF T
  <2> QED BY <1>3, <2>2
<1>5. \E x \in S : \A y \in S : x >= y
  BY <1>4
<1>6. Max(S) \in S /\ \A y \in S : Max(S) >= y
  BY <1>5 DEF Max
<1> QED BY <1>6

LEMMA LastBeforeIs ==
  ASSUME NEW s \in Seq(Tokens), NEW c, NEW n \in 0..(Len(s) + 1)
  PROVE  LET m == LastBefore(s, c, n)
         IN /\ m = 0 \/ (m \in 1..(n - 1) /\ s[m] = c)
            /\ m \in 0..Len(s)
            /\ \A k \in 1..(n - 1) : s[k] = c => k <= m
<1> DEFINE S == {0} \cup {k \in 1..(n - 1) : s[k] = c}
<1>1. S \in SUBSET (0..Len(s)) /\ S # {} /\ Len(s) \in Nat
  OBVIOUS
<1>2. LastBefore(s, c, n) = Max(S)
  BY DEF LastBefore
<1>3. Max(S) \in S /\ \A k \in S : k <= Max(S)
  <2> HIDE DEF S
  <2> QED BY <1>1, GreatestIs
<1> QED BY <1>1, <1>2, <1>3

-----------------------------------------------------------------------------
(* Paths. *)

LEMMA CountSlashes ==
  ASSUME NEW p \in Seq(Tokens), NEW n \in 0..(Len(p) + 1)
  PROVE  /\ Slashes(p, n) \in SUBSET (1..Len(p))
         /\ IsFiniteSet(Slashes(p, n))
         /\ Cardinality(Slashes(p, n)) \in Nat
<1>1. Slashes(p, n) \in SUBSET (1..Len(p))
  BY DEF Slashes
<1>2. IsFiniteSet(1..Len(p))
  BY FS_Interval
<1>3. IsFiniteSet(Slashes(p, n))
  BY <1>1, <1>2, FS_Subset
<1> QED BY <1>1, <1>3, FS_CardinalityType

\* The expressions ask for a slash behind the first one and before the last:
\* the path has three.
LEMMA ThreeSlashesCounted ==
  ASSUME NEW p \in Seq(Tokens), p # << >>, p[1] = "/", NEW n \in 0..(Len(p) + 1)
  PROVE  ThreeSlashes(p, n) <=> Cardinality(Slashes(p, n)) >= 3
<1> DEFINE S == Slashes(p, n)
           a == ActionStart(p, n)
           b == LastBefore(p, "/", a)
<1>1. IsFiniteSet(S) /\ Cardinality(S) \in Nat
  BY CountSlashes
<1>2. S = {k \in 1..(n - 1) : p[k] = "/"}
  BY DEF Slashes
<1>3. /\ a = 0 \/ (a \in 1..(n - 1) /\ p[a] = "/")
      /\ a \in 0..Len(p)
      /\ \A k \in 1..(n - 1) : p[k] = "/" => k <= a
  BY LastBeforeIs DEF ActionStart
<1> HIDE DEF a
<1>4. /\ b = 0 \/ (b \in 1..(a - 1) /\ p[b] = "/")
      /\ b \in 0..Len(p)
      /\ \A k \in 1..(a - 1) : p[k] = "/" => k <= b
  BY <1>3, LastBeforeIs
<1> USE DEF a
<1>5. ThreeSlashes(p, n) <=> b > 1
  BY DEF ThreeSlashes
<1> HIDE DEF S, a, b
<1>6. ASSUME b > 1
      PROVE  Cardinality(S) >= 3
  <2>1. 1 \in S /\ b \in S /\ a \in S /\ 1 # b /\ b # a /\ 1 # a
    BY <1>2, <1>3, <1>4, <1>6
  <2> DEFINE S1 == S \ {1}
             S2 == S1 \ {b}
             S3 == S2 \ {a}
  <2>2. IsFiniteSet(S1) /\ Cardinality(S1) = Cardinality(S) - 1
    BY <1>1, <2>1, FS_RemoveElement
  <2>3. b \in S1 /\ a \in S2
    BY <2>1
  <2> HIDE DEF S1
  <2>4. IsFiniteSet(S2) /\ Cardinality(S2) = Cardinality(S1) - 1
    BY <2>2, <2>3, FS_RemoveElement
  <2> HIDE DEF S2
  <2>5. IsFiniteSet(S3) /\ Cardinality(S3) = Cardinality(S2) - 1
    BY <2>3, <2>4, FS_RemoveElement
  <2>6. Cardinality(S3) \in Nat
    BY <2>5, FS_CardinalityType
  <2> QED BY <1>1, <2>2, <2>4, <2>5, <2>6
<1>7. ASSUME Cardinality(S) >= 3
      PROVE  b > 1
  <2> DEFINE S1 == S \ {a}
             S2 == S1 \ {1}
  <2>1. S # {}
    <3>1. S = {} => Cardinality(S) = 0
      BY FS_EmptySet, Zenon
    <3> QED BY <1>7, <3>1
  <2>2. a \in S
    BY <1>2, <1>3, <2>1
  <2>3. IsFiniteSet(S1) /\ Cardinality(S1) = Cardinality(S) - 1
    BY <1>1, <2>2, FS_RemoveElement
  <2> HIDE DEF S1
  <2>4. /\ IsFiniteSet(S2)
        /\ Cardinality(S2) = IF 1 \in S1 THEN Cardinality(S1) - 1 ELSE Cardinality(S1)
    BY <2>3, FS_RemoveElement
  <2>5. Cardinality(S2) # 0
    BY <1>1, <1>7, <2>3, <2>4
  <2>6. S2 # {}
    <3> HIDE DEF S2
    <3> QED BY <2>5, FS_EmptySet
  <2> USE DEF S1
  <2>7. PICK k \in S : k # a /\ k # 1
    BY <2>6
  <2>8. k \in 1..(a - 1) /\ p[k] = "/"
    BY <1>2, <1>3, <2>7
  <2> QED BY <1>4, <2>7, <2>8
<1> QED BY <1>5, <1>6, <1>7 DEF S

LEMMA MoreSlashes ==
  ASSUME NEW p \in Seq(Tokens), NEW m \in DOMAIN p, NEW n \in DOMAIN p, m <= n
  PROVE  Cardinality(Slashes(p, m)) <= Cardinality(Slashes(p, n))
<1>1. Slashes(p, m) \in SUBSET Slashes(p, n)
  BY DEF Slashes
<1> QED BY <1>1, CountSlashes, FS_Subset

LEMMA WordsAreNoMarks ==
  \A w \in Words : w \notin Characters /\ w \notin Escapes /\ w # "%zz" /\ w \in Tokens
  BY UrlAssumption DEF Tokens

LEMMA Decoded ==
  ASSUME NEW u \in Seq(Tokens)
  PROVE  /\ Plain(u) = UrlDecode(u)
         /\ Plain(u) \in Seq(Tokens) /\ Len(Plain(u)) = Len(u)
<1>1. \A t \in Tokens : Unescaped(t) \in Tokens
  BY Zenon DEF Unescaped, Tokens, Characters
<1>2. Plain(u) = [k \in 1..Len(u) |-> Unescaped(u[k])]
  BY DEF Plain
<1>3. \A k \in 1..Len(u) : Unescaped(u[k]) \in Tokens
  BY <1>1
<1> QED BY <1>2, <1>3 DEF Plain, UrlDecode

LEMMA AcceptedOrRefusable ==
  ASSUME NEW u \in Seq(Tokens), u # << >>
  PROVE  Acceptable(u) <=> ~Refusable(u)
<1> DEFINE p == Plain(u)
<1>1. p = UrlDecode(u) /\ p \in Seq(Tokens) /\ Len(p) = Len(u) /\ Len(u) \in Nat /\ p # << >>
  BY Decoded
<1> HIDE DEF p
<1>2. (\E k \in 2..Len(p) : p[k - 1] = "." /\ p[k] = ".")
        <=> (\E k \in 1..(Len(u) - 1) : p[k] = "." /\ p[k + 1] = ".")
  <2>1. ASSUME NEW k \in 2..Len(p), p[k - 1] = ".", p[k] = "."
        PROVE  \E j \in 1..(Len(u) - 1) : p[j] = "." /\ p[j + 1] = "."
    <3>1. k - 1 \in 1..(Len(u) - 1) /\ (k - 1) + 1 = k
      BY <1>1
    <3> QED BY <2>1, <3>1
  <2>2. ASSUME NEW k \in 1..(Len(u) - 1), p[k] = ".", p[k + 1] = "."
        PROVE  \E j \in 2..Len(p) : p[j - 1] = "." /\ p[j] = "."
    <3>1. k + 1 \in 2..Len(p) /\ (k + 1) - 1 = k
      BY <1>1
    <3> QED BY <2>2, <3>1
  <2> QED BY <2>1, <2>2
<1>3. Decodes(u) <=> ~\E k \in DOMAIN u : u[k] = "%zz"
  BY DEF Decodes
<1> QED BY <1>1, <1>2, <1>3 DEF Acceptable, Refusable, p

\* A word is named before a position when it stands alone behind a slash.
LEMMA NamedIs ==
  ASSUME NEW p \in Seq(Tokens), p # << >>, p[1] = "/", NEW n \in 1..(Len(p) + 1),
         NEW known \in SUBSET Words, NEW a \in known, a # NotRecognized
  PROVE  (Named(p, n, known) = a) <=> (n > 2 /\ p[n - 1] = a /\ p[n - 2] = "/")
<1> DEFINE s == ActionStart(p, n)
           name == SubSeq(p, s + 1, n - 1)
<1>1. /\ s = 0 \/ (s \in 1..(n - 1) /\ p[s] = "/")
      /\ s \in 0..Len(p)
      /\ \A k \in 1..(n - 1) : p[k] = "/" => k <= s
  BY LastBeforeIs DEF ActionStart
<1>2. Named(p, n, known) = IF Len(name) = 1 /\ name[1] \in known THEN name[1] ELSE NotRecognized
  BY DEF Named
<1>3. a # "/"
  BY WordsAreNoMarks, Zenon DEF Characters
<1> HIDE DEF s
<1>4. s <= n - 1
  BY <1>1
<1>5. Len(name) = 1 <=> s = n - 2
  <2>1. Len(name) = n - 1 - s
    BY <1>1, <1>4
  <2> HIDE DEF name
  <2> QED BY <1>1, <2>1
<1>6. s < n - 1 => name[1] = p[s + 1]
  BY <1>1, <1>4
<1> HIDE DEF name
<1>7. ASSUME Named(p, n, known) = a
      PROVE  n > 2 /\ p[n - 1] = a /\ p[n - 2] = "/"
  <2>1. Len(name) = 1 /\ name[1] = a
    BY <1>2, <1>7
  <2>2. s = n - 2 /\ s < n - 1 /\ s + 1 = n - 1
    BY <1>5, <2>1
  <2>3. p[n - 1] = a
    BY <1>6, <2>1, <2>2
  <2>4. s # 0
    BY <1>3, <2>2, <2>3
  <2> QED BY <1>1, <2>2, <2>3, <2>4
<1>8. ASSUME n > 2, p[n - 1] = a, p[n - 2] = "/"
      PROVE  Named(p, n, known) = a
  <2>1. n - 2 <= s
    BY <1>1, <1>8
  <2>2. s # n - 1
    BY <1>1, <1>3, <1>8
  <2>3. s = n - 2
    BY <1>1, <1>4, <2>1, <2>2
  <2> QED BY <1>2, <1>5, <1>6, <1>8, <2>3
<1> QED BY <1>7, <1>8

LEMMA LastMark ==
  ASSUME NEW p \in Seq(Tokens)
  PROVE  LET q == QuestionMark(p)
         IN /\ q \in 0..Len(p) /\ (q # 0 => p[q] = "?")
            /\ \A k \in DOMAIN p : p[k] = "?" => k <= q /\ q # 0
            /\ q = Max({0} \cup {k \in DOMAIN p : p[k] = "?"})
<1>1. Len(p) + 1 \in 0..(Len(p) + 1) /\ (Len(p) + 1) - 1 = Len(p) /\ DOMAIN p = 1..Len(p)
  OBVIOUS
<1>2. QuestionMark(p) = Max({0} \cup {k \in DOMAIN p : p[k] = "?"})
  BY <1>1 DEF QuestionMark, LastBefore
<1> QED BY <1>1, <1>2, LastBeforeIs DEF QuestionMark

LEMMA ParamsFound ==
  ASSUME NEW p \in Seq(Tokens), p # << >>, p[1] = "/"
  PROVE  HasParams(p) <=> /\ QuestionMark(p) # 0
                          /\ Cardinality(Slashes(p, QuestionMark(p))) >= 3
<1>1. QuestionMark(p) \in 0..Len(p)
  BY LastMark
<1>2. QuestionMark(p) \in 0..(Len(p) + 1) /\ (QuestionMark(p) > 0 <=> QuestionMark(p) # 0)
  BY <1>1
<1> QED BY <1>2, ThreeSlashesCounted DEF HasParams

LEMMA ActionWithParams ==
  ASSUME NEW p \in Seq(Tokens), p # << >>, p[1] = "/", NEW a \in ParamActions
  PROVE  (ActionOf(p) = a) <=> NameWithParams(p, a)
<1> DEFINE q == QuestionMark(p)
<1>1. /\ q \in 0..Len(p) /\ (q # 0 => p[q] = "?")
      /\ \A k \in DOMAIN p : p[k] = "?" => k <= q /\ q # 0
  BY LastMark
<1>2. a # NotRecognized /\ a \notin PlainActions
  BY DEF ParamActions, PlainActions, NotRecognized
<1>3. ParamActions \in SUBSET Words
  BY UrlAssumption
<1>4. (ActionOf(p) = a) <=> HasParams(p) /\ Named(p, q, ParamActions) = a
  BY <1>2 DEF ActionOf, Named
<1>5. HasParams(p) <=> q # 0 /\ Cardinality(Slashes(p, q)) >= 3
  BY ParamsFound
<1> HIDE DEF q
<1>6. q # 0 => (Named(p, q, ParamActions) = a <=> (q > 2 /\ p[q - 1] = a /\ p[q - 2] = "/"))
  BY <1>1, <1>2, <1>3, NamedIs
<1>7. NameWithParams(p, a) <=> /\ q # 0 /\ q > 2 /\ p[q - 1] = a /\ p[q - 2] = "/"
                               /\ Cardinality(Slashes(p, q)) >= 3
  <2>1. \A n \in DOMAIN p : (p[n] = "?" /\ \A k \in DOMAIN p : k > n => p[k] # "?") <=> (n = q /\ q # 0)
    BY <1>1
  <2>2. q # 0 => q \in DOMAIN p
    BY <1>1
  <2> QED BY <2>1, <2>2 DEF NameWithParams
<1> QED BY <1>4, <1>5, <1>6, <1>7

LEMMA ActionAlone ==
  ASSUME NEW p \in Seq(Tokens), p # << >>, p[1] = "/", NEW a \in PlainActions
  PROVE  (ActionOf(p) = a) <=> NameAlone(p, a)
<1> DEFINE q == QuestionMark(p)
           end == Len(p) + 1
<1>1. /\ q \in 0..Len(p) /\ (q # 0 => p[q] = "?")
      /\ \A k \in DOMAIN p : p[k] = "?" => k <= q /\ q # 0
  BY LastMark
<1>2. a # NotRecognized /\ a \notin ParamActions
  BY DEF ParamActions, PlainActions, NotRecognized
<1>3. PlainActions \in SUBSET Words /\ a # "/"
  BY UrlAssumption, WordsAreNoMarks, Zenon DEF Characters
<1>4. (ActionOf(p) = a) <=> ~HasParams(p) /\ ThreeSlashes(p, end) /\ Named(p, end, PlainActions) = a
  BY <1>2 DEF ActionOf, Named
<1>5. HasParams(p) <=> q # 0 /\ Cardinality(Slashes(p, q)) >= 3
  BY ParamsFound
<1>6. ThreeSlashes(p, end) <=> Cardinality(Slashes(p, end)) >= 3
  BY ThreeSlashesCounted
<1>7. Named(p, end, PlainActions) = a <=> (end > 2 /\ p[end - 1] = a /\ p[end - 2] = "/")
  BY <1>2, <1>3, NamedIs
<1>8. p[Len(p)] = a => Slashes(p, end) = Slashes(p, Len(p))
  BY <1>3 DEF Slashes
<1>9. ~HasParams(p) <=> \A n \in DOMAIN p : p[n] = "?" => Cardinality(Slashes(p, n)) < 3
  <2> HIDE DEF q
  <2>1. \A n \in 0..(Len(p) + 1) : Cardinality(Slashes(p, n)) \in Nat
    BY CountSlashes
  <2>2. ASSUME ~HasParams(p), NEW n \in DOMAIN p, p[n] = "?"
        PROVE  Cardinality(Slashes(p, n)) < 3
    <3>1. q # 0 /\ n <= q /\ q \in DOMAIN p
      BY <1>1, <2>2
    <3>2. Cardinality(Slashes(p, n)) <= Cardinality(Slashes(p, q))
      BY <3>1, MoreSlashes
    <3> QED BY <1>5, <2>1, <2>2, <3>1, <3>2
  <2>3. ASSUME HasParams(p)
        PROVE  \E n \in DOMAIN p : p[n] = "?" /\ ~(Cardinality(Slashes(p, n)) < 3)
    <3>1. q \in DOMAIN p /\ p[q] = "?"
      BY <1>1, <1>5, <2>3
    <3> QED BY <1>5, <2>1, <2>3, <3>1
  <2> QED BY <2>2, <2>3
<1> QED BY <1>4, <1>6, <1>7, <1>8, <1>9 DEF NameAlone

-----------------------------------------------------------------------------
(* Parameters. *)

\* The pairs that are parsed from position n on, when those from later ones
\* are f's.
More(s, n) == LET e == PairAt(s, n).end IN e <= Len(s) /\ s[e] \in {"&", ";"}
PairsAt(f, s, n) ==
  IF n > Len(s) \/ s[n] \notin Words THEN << >>
  ELSE <<PairAt(s, n)>> \o (IF More(s, n) THEN f[PairAt(s, n).end + 1] ELSE << >>)

Parses(f, s) == f = [n \in 1..(Len(s) + 1) |-> PairsAt(f, s, n)]

LEMMA PairsDef == \A s : Pairs(s) = (CHOOSE f : Parses(f, s))[1]
  BY DEF Pairs, Parses, PairsAt, More

\* A run of letters and digits ends behind its start.
LEMMA RunEnds ==
  ASSUME NEW s \in Seq(Tokens), NEW n \in 1..Len(s)
  PROVE  LET e == RunEnd(s, n)
         IN /\ e \in n..(Len(s) + 1)
            /\ \A k \in n..(e - 1) : InName(s[k])
            /\ e <= Len(s) => ~InName(s[e])
<1> DEFINE S == {Len(s) + 1} \cup {k \in n..Len(s) : ~InName(s[k])}
<1>1. S \in SUBSET Nat /\ S # {} /\ \A k \in S : k \in n..(Len(s) + 1)
  OBVIOUS
<1>2. RunEnd(s, n) = Min(S)
  BY DEF RunEnd
<1>3. Min(S) \in S /\ \A k \in S : Min(S) <= k
  <2> HIDE DEF S
  <2> QED BY <1>1, LeastIs
<1> QED BY <1>1, <1>2, <1>3

\* A pair starts with a word, has an "=" at most, and ends before what is
\* neither.
LEMMA PairIs ==
  ASSUME NEW s \in Seq(Tokens), NEW n \in 1..Len(s), s[n] \in Words
  PROVE  LET p == PairAt(s, n)
             k == RunEnd(s, n)
             e == p.end
         IN /\ k \in (n + 1)..(Len(s) + 1) /\ e \in k..(Len(s) + 1)
            /\ \A i \in n..(k - 1) : InName(s[i])
            /\ k <= Len(s) => ~InName(s[k])
            /\ \/ /\ e = k /\ p.value = << >>
                  /\ ~(k < Len(s) /\ s[k] = "=" /\ InName(s[k + 1]))
               \/ /\ e > k + 1 /\ k < Len(s) /\ s[k] = "="
                  /\ p.value = SubSeq(s, k + 1, e - 1)
                  /\ \A i \in (k + 1)..(e - 1) : InName(s[i])
                  /\ e <= Len(s) => ~InName(s[e])
            /\ p.key = SubSeq(s, n, k - 1)
<1> DEFINE k == RunEnd(s, n)
           valued == k < Len(s) /\ s[k] = "=" /\ InName(s[k + 1])
           e == RunEnd(s, k + 1)
<1>1. /\ k \in n..(Len(s) + 1)
      /\ \A i \in n..(k - 1) : InName(s[i])
      /\ k <= Len(s) => ~InName(s[k])
  BY RunEnds
<1>2. PairAt(s, n) = [key |-> SubSeq(s, n, k - 1),
                      value |-> IF valued THEN SubSeq(s, k + 1, e - 1) ELSE << >>,
                      end |-> IF valued THEN e ELSE k]
  BY DEF PairAt
<1>3. k # n
  BY <1>1 DEF InName
<1> HIDE DEF k
<1>4. ASSUME valued
      PROVE  /\ e \in (k + 1)..(Len(s) + 1)
             /\ \A i \in (k + 1)..(e - 1) : InName(s[i])
             /\ e <= Len(s) => ~InName(s[e])
             /\ e # k + 1
  <2>1. k + 1 \in 1..Len(s)
    BY <1>1, <1>4
  <2>2. /\ e \in (k + 1)..(Len(s) + 1)
        /\ \A i \in (k + 1)..(e - 1) : InName(s[i])
        /\ e <= Len(s) => ~InName(s[e])
    BY <2>1, RunEnds
  <2> HIDE DEF e
  <2> QED BY <1>1, <1>4, <2>2
<1> HIDE DEF e
<1> DEFINE p == PairAt(s, n)
<1>5. /\ p.key = SubSeq(s, n, k - 1)
      /\ valued => p.value = SubSeq(s, k + 1, e - 1) /\ p.end = e
      /\ ~valued => p.value = << >> /\ p.end = k
  <2> HIDE DEF valued
  <2>1. valued => p = [key |-> SubSeq(s, n, k - 1), value |-> SubSeq(s, k + 1, e - 1), end |-> e]
    BY <1>2, Zenon
  <2>2. ~valued => p = [key |-> SubSeq(s, n, k - 1), value |-> << >>, end |-> k]
    BY <1>2, Zenon
  <2> HIDE DEF p
  <2> QED BY <2>1, <2>2
<1> HIDE DEF p
<1>6. k \in Nat /\ Len(s) \in Nat /\ k \in (n + 1)..(Len(s) + 1)
  BY <1>1, <1>3
<1>7. CASE valued
  <2>1. e \in Nat /\ e > k + 1 /\ e <= Len(s) + 1
    BY <1>4, <1>6, <1>7
  <2>2. p.end = e /\ p.value = SubSeq(s, k + 1, e - 1)
    BY <1>5, <1>7
  <2> QED BY <1>1, <1>4, <1>5, <1>6, <1>7, <2>1, <2>2 DEF k, p
<1>8. CASE ~valued
  <2>1. p.end = k /\ p.value = << >>
    BY <1>5, <1>8
  <2> QED BY <1>1, <1>5, <1>6, <1>8, <2>1 DEF k, p
<1> QED BY <1>7, <1>8

LEMMA PairsAhead ==
  ASSUME NEW s \in Seq(Tokens), NEW n \in 1..(Len(s) + 1), NEW f, NEW g,
         \A k \in (n + 1)..(Len(s) + 1) : f[k] = g[k]
  PROVE  PairsAt(f, s, n) = PairsAt(g, s, n)
<1>1. CASE n \in 1..Len(s) /\ s[n] \in Words /\ More(s, n)
  <2>1. PairAt(s, n).end \in (n + 1)..Len(s)
    <3>1. RunEnd(s, n) \in (n + 1)..(Len(s) + 1)
          /\ PairAt(s, n).end \in RunEnd(s, n)..(Len(s) + 1)
      BY <1>1, PairIs
    <3>2. PairAt(s, n).end <= Len(s)
      BY <1>1 DEF More
    <3> QED BY <3>1, <3>2
  <2>2. f[PairAt(s, n).end + 1] = g[PairAt(s, n).end + 1]
    BY <2>1
  <2> QED BY <2>2 DEF PairsAt
<1>2. CASE ~(n \in 1..Len(s) /\ s[n] \in Words /\ More(s, n))
  BY <1>2 DEF PairsAt
<1> QED BY <1>1, <1>2

\* The parse comes to an end.
LEMMA ParsesExist ==
  ASSUME NEW s \in Seq(Tokens)
  PROVE  \E f : Parses(f, s)
<1> DEFINE N == Len(s)
           From(f, m) == f = [n \in 1..(N + 1) |-> IF n >= m THEN PairsAt(f, s, n) ELSE << >>]
           Bad == {m \in 1..(N + 2) : ~\E f : From(f, m)}
<1>0. N \in Nat /\ N + 2 \in Nat
  OBVIOUS
<1> HIDE DEF N, From
<1>1. ASSUME Bad # {}
      PROVE  FALSE
  <2> DEFINE m == Max(Bad)
  <2>1. m \in Bad /\ \A k \in Bad : k <= m
    <3>1. Bad \in SUBSET (0..(N + 2))
      OBVIOUS
    <3> HIDE DEF Bad
    <3> QED BY <1>0, <1>1, <3>1, GreatestIs
  <2> HIDE DEF m
  <2>2. m # N + 2
    <3>1. From([n \in 1..(N + 1) |-> << >>], N + 2)
      BY <1>0 DEF From
    <3> QED BY <2>1, <3>1
  <2>3. m \in 1..(N + 1) /\ m + 1 \in 1..(N + 2) /\ m + 1 \notin Bad
    BY <1>0, <2>1, <2>2
  <2>4. PICK f : From(f, m + 1)
    BY <2>3
  <2> DEFINE g == [f EXCEPT ![m] = PairsAt(f, s, m)]
  <2>5. DOMAIN f = 1..(N + 1) /\ DOMAIN g = 1..(N + 1)
    BY <2>4 DEF From
  <2>6. \A n \in 1..(N + 1) : g[n] = IF n = m THEN PairsAt(f, s, m) ELSE f[n]
    BY <2>5
  <2>7. \A n \in 1..(N + 1) : f[n] = IF n >= m + 1 THEN PairsAt(f, s, n) ELSE << >>
    BY <2>4 DEF From
  <2>8. g = [n \in 1..(N + 1) |-> g[n]]
    BY <2>5
  <2> HIDE DEF g
  <2>9. ASSUME NEW n \in 1..(N + 1), n >= m
        PROVE  PairsAt(f, s, n) = PairsAt(g, s, n)
    BY <2>3, <2>6, <2>9, PairsAhead DEF N
  <2>10. ASSUME NEW n \in 1..(N + 1)
         PROVE  g[n] = IF n >= m THEN PairsAt(g, s, n) ELSE << >>
    <3>1. CASE n = m
      BY <2>3, <2>6, <2>9, <3>1
    <3>2. CASE n > m
      BY <2>3, <2>6, <2>7, <2>9, <3>2
    <3>3. CASE n < m
      BY <2>3, <2>6, <2>7, <3>3
    <3> QED BY <2>3, <3>1, <3>2, <3>3
  <2>11. From(g, m)
    BY <2>8, <2>10 DEF From
  <2> QED BY <2>1, <2>11
<1>2. PICK f : From(f, 1)
  <2>1. 1 \in 1..(N + 2)
    BY <1>0
  <2>2. Bad = {}
    BY <1>1
  <2> QED BY <2>1, <2>2
<1>3. \A n \in 1..(N + 1) : f[n] = PairsAt(f, s, n)
  BY <1>0, <1>2 DEF From
<1>4. f = [n \in 1..(N + 1) |-> PairsAt(f, s, n)]
  BY <1>2, <1>3 DEF From
<1> QED BY <1>4 DEF Parses, N

\* The first pair with a key is the first element or that of the rest.
LEMMA ParamOfRest ==
  ASSUME NEW S, NEW p, NEW rest \in Seq(S), NEW key
  PROVE  Param(<<p>> \o rest, key) = IF p.key = <<key>> THEN p.value ELSE Param(rest, key)
<1> DEFINE q == <<p>> \o rest
           T == {k \in DOMAIN rest : rest[k].key = <<key>>}
           U == {k \in DOMAIN q : q[k].key = <<key>>}
<1>1. /\ DOMAIN rest = 1..Len(rest) /\ Len(rest) \in Nat /\ DOMAIN q = 1..(Len(rest) + 1)
      /\ q[1] = p /\ \A k \in 1..Len(rest) : q[k + 1] = rest[k]
  <2>1. <<p>> \in Seq(S \cup {p}) /\ rest \in Seq(S \cup {p})
    OBVIOUS
  <2> QED BY <2>1
<1> HIDE DEF q
<1>2. \A k \in 1..(Len(rest) + 1) : k = 1 \/ (k - 1 \in 1..Len(rest) /\ q[k] = rest[k - 1])
  <2> TAKE k \in 1..(Len(rest) + 1)
  <2>1. k # 1 => k - 1 \in 1..Len(rest) /\ (k - 1) + 1 = k
    BY <1>1
  <2> QED BY <1>1, <2>1
<1>3. /\ Param(q, key) = IF U # {} THEN q[Min(U)].value ELSE << >>
      /\ Param(rest, key) = IF T # {} THEN rest[Min(T)].value ELSE << >>
  BY DEF Param, WithKey
<1>4. /\ T \in SUBSET Nat /\ (T # {} => Min(T) \in T /\ \A k \in T : Min(T) <= k)
      /\ U \in SUBSET Nat /\ (U # {} => Min(U) \in U /\ \A k \in U : Min(U) <= k)
  <2>1. T \in SUBSET Nat /\ U \in SUBSET Nat
    BY <1>1
  <2> HIDE DEF T, U
  <2> QED BY <2>1, LeastIs
<1>5. CASE p.key = <<key>>
  <2>1. 1 \in U
    BY <1>1, <1>5
  <2>2. \A k \in U : k \in Nat /\ k >= 1
    BY <1>1
  <2> HIDE DEF T, U
  <2>3. Min(U) = 1
    <3>1. Min(U) \in U /\ Min(U) <= 1
      BY <1>4, <2>1
    <3>2. Min(U) \in Nat /\ Min(U) >= 1
      BY <2>2, <3>1
    <3> QED BY <3>1, <3>2
  <2> QED BY <1>1, <1>3, <1>5, <2>1, <2>3 DEF q
<1>6. CASE p.key # <<key>>
  <2>1. \A k \in T : k + 1 \in U
    BY <1>1
  <2>2. \A k \in U : k - 1 \in T /\ k \in Nat
    BY <1>1, <1>2, <1>6
  <2>3. CASE T = {}
    <3>1. U = {}
      BY <2>2, <2>3
    <3> HIDE DEF T, U
    <3> QED BY <1>3, <1>6, <2>3, <3>1 DEF q
  <2>4. CASE T # {}
    <3> HIDE DEF T, U
    <3>1. U # {}
      BY <2>1, <2>4
    <3>2. Min(U) <= Min(T) + 1 /\ Min(T) <= Min(U) - 1
      BY <1>4, <2>1, <2>2, <2>4, <3>1
    <3>3. Min(T) \in Nat /\ Min(U) \in Nat /\ Min(T) \in DOMAIN rest
      BY <1>4, <2>4, <3>1 DEF T
    <3>4. Min(U) = Min(T) + 1
      BY <3>2, <3>3
    <3>5. q[Min(U)] = rest[Min(T)]
      BY <1>1, <3>3, <3>4
    <3> QED BY <1>3, <1>6, <2>4, <3>1, <3>5 DEF q
  <2> QED BY <2>3, <2>4
<1> QED BY <1>5, <1>6

LEMMA MarksAreNoNames == \A t : InName(t) => ~Separates(t) /\ t # "="
  BY UrlAssumption, Zenon DEF InName, Separates, Characters

LEMMA EqualsSeparatesNot == ~Separates("=")
  BY DEF Separates

\* The field before a separator starts behind the separator before it.
LEMMA FieldStart ==
  ASSUME NEW s \in Seq(Tokens), NEW n \in 1..Len(s), NEW m \in n..Len(s),
         n = 1 \/ Separates(s[n - 1]), \A k \in n..(m - 1) : ~Separates(s[k])
  PROVE  Max({0} \cup {k \in 1..(m - 1) : Separates(s[k])}) + 1 = n
<1> DEFINE S == {0} \cup {k \in 1..(m - 1) : Separates(s[k])}
<1>1. S \in SUBSET (0..Len(s)) /\ Len(s) \in Nat /\ S # {}
  OBVIOUS
<1>2. n - 1 \in S /\ \A k \in S : k <= n - 1
  <2>1. n - 1 = 0 \/ n - 1 \in 1..(m - 1)
    OBVIOUS
  <2> QED BY <2>1
<1>3. Max(S) \in S /\ \A k \in S : k <= Max(S)
  <2> HIDE DEF S
  <2> QED BY <1>1, GreatestIs
<1>4. Max(S) <= n - 1 /\ n - 1 <= Max(S) /\ Max(S) \in Nat
  <2>1. S \in SUBSET Nat
    BY <1>1
  <2> HIDE DEF S
  <2> QED BY <1>2, <1>3, <2>1
<1> QED BY <1>4

\* A field that has begun has no separator and no beginning inside.
LEMMA NothingInside ==
  ASSUME NEW s \in Seq(Tokens), NEW n \in 1..Len(s), s[n] \in Words
  PROVE  /\ \A k \in n..(PairAt(s, n).end - 1) : ~Separates(s[k])
         /\ \A k \in (n + 1)..PairAt(s, n).end : ~Begins(s, k)
<1> DEFINE k == RunEnd(s, n)
           e == PairAt(s, n).end
<1>1. /\ k \in (n + 1)..(Len(s) + 1) /\ e \in k..(Len(s) + 1)
      /\ \A i \in n..(k - 1) : InName(s[i])
      /\ \/ e = k
         \/ k < Len(s) /\ s[k] = "=" /\ \A i \in (k + 1)..(e - 1) : InName(s[i])
  BY PairIs
<1> HIDE DEF k, e
<1>2. ASSUME NEW i \in n..(e - 1)
      PROVE  ~Separates(s[i])
  <2>1. InName(s[i]) \/ s[i] = "="
    BY <1>1
  <2> QED BY <2>1, MarksAreNoNames, EqualsSeparatesNot
<1>3. ASSUME NEW i \in (n + 1)..e
      PROVE  ~Begins(s, i)
  <2>1. i - 1 \in n..(e - 1) /\ i # 1
    BY <1>1
  <2> QED BY <1>2, <2>1 DEF Begins
<1> QED BY <1>2, <1>3 DEF e

LEMMA NextBegins ==
  ASSUME NEW s \in Seq(Tokens), NEW n \in 1..Len(s), s[n] \in Words, Begins(s, n), More(s, n)
  PROVE  Begins(s, PairAt(s, n).end + 1)
<1> DEFINE k == RunEnd(s, n)
           e == PairAt(s, n).end
           from(m) == Max({0} \cup {i \in 1..(m - 1) : Separates(s[i])}) + 1
<1>1. /\ k \in (n + 1)..(Len(s) + 1) /\ e \in k..(Len(s) + 1)
      /\ \A i \in n..(k - 1) : InName(s[i])
      /\ \/ e = k
         \/ e > k + 1 /\ k < Len(s) /\ s[k] = "=" /\ \A i \in (k + 1)..(e - 1) : InName(s[i])
  BY PairIs
<1>2. e <= Len(s) /\ Separates(s[e])
  BY DEF More, Separates
<1>3. \A i \in n..(e - 1) : ~Separates(s[i])
  BY NothingInside
<1>4. n = 1 \/ Separates(s[n - 1])
  BY DEF Begins
<1> HIDE DEF k, e
<1>5. e \in n..Len(s) /\ e > n /\ e \in Nat
  BY <1>1, <1>2
<1>6. FieldFits(s, n, e)
  <2>1. CASE e = k
    BY <1>1, <1>5, <2>1 DEF FieldFits
  <2>2. CASE e > k + 1 /\ s[k] = "=" /\ \A i \in (k + 1)..(e - 1) : InName(s[i])
    <3>1. k \in (n + 1)..(e - 2)
      BY <1>1, <1>5, <2>2
    <3>2. \A i \in (n..(e - 1)) \ {k} : InName(s[i])
      BY <1>1, <1>5, <2>2
    <3> QED BY <1>5, <2>2, <3>1, <3>2 DEF FieldFits
  <2> QED BY <1>1, <2>1, <2>2
<1>7. ASSUME NEW m \in 1..((e + 1) - 1), Separates(s[m])
      PROVE  FieldFits(s, from(m), m)
  <2> HIDE DEF from
  <2>1. CASE m \in 1..(n - 1)
    BY <1>7, <2>1 DEF Begins, from
  <2>2. CASE m \in n..(e - 1)
    BY <1>3, <1>7, <2>2
  <2>3. CASE m = e
    <3>1. from(e) = n
      BY <1>3, <1>4, <1>5, FieldStart DEF from
    <3> QED BY <1>6, <2>3, <3>1
  <2> QED BY <1>5, <2>1, <2>2, <2>3
<1>8. (e + 1) - 1 = e
  BY <1>5
<1> QED BY <1>2, <1>7, <1>8 DEF Begins, e

\* Where the parse stops no field begins any more.
LEMMA NothingBegins ==
  ASSUME NEW s \in Seq(Tokens), NEW n \in 1..Len(s), Begins(s, n),
         ~(s[n] \in Words /\ More(s, n)), NEW j \in (n + 1)..Len(s), Begins(s, j)
  PROVE  FALSE
<1> DEFINE S == {i \in n..(j - 1) : Separates(s[i])}
           from(m) == Max({0} \cup {i \in 1..(m - 1) : Separates(s[i])}) + 1
<1>1. j - 1 \in S
  BY DEF Begins
<1>2. PICK m \in S : \A i \in S : m <= i
  <2>1. S \in SUBSET Nat
    OBVIOUS
  <2> HIDE DEF S
  <2> QED BY <1>1, <2>1, LeastOf
<1>3. /\ m \in n..Len(s) /\ m \in 1..(j - 1) /\ Separates(s[m])
      /\ \A i \in n..(m - 1) : ~Separates(s[i])
  BY <1>2
<1>4. from(m) = n
  <2>1. n = 1 \/ Separates(s[n - 1])
    BY DEF Begins
  <2> QED BY <1>3, <2>1, FieldStart
<1>5. FieldFits(s, from(m), m)
  <2> HIDE DEF from
  <2> QED BY <1>3 DEF Begins, from
<1>6. FieldFits(s, n, m)
  BY <1>4, <1>5
<1>7. s[n] \in Words /\ m > n
  BY <1>6 DEF FieldFits
<1> DEFINE k == RunEnd(s, n)
           e == PairAt(s, n).end
<1>8. /\ k \in (n + 1)..(Len(s) + 1) /\ e \in k..(Len(s) + 1)
      /\ k <= Len(s) => ~InName(s[k])
      /\ \A i \in n..(k - 1) : InName(s[i])
      /\ \/ /\ e = k
            /\ ~(k < Len(s) /\ s[k] = "=" /\ InName(s[k + 1]))
         \/ e > k + 1 /\ s[k] = "=" /\ (e <= Len(s) => ~InName(s[e]))
  BY <1>7, PairIs
<1>9. e <= m - 1
  <2>1. \A i \in n..(e - 1) : ~Separates(s[i])
    BY <1>7, NothingInside
  <2>2. ~(e <= Len(s) /\ Separates(s[e]))
    BY <1>7 DEF More, Separates
  <2> HIDE DEF e, k
  <2> QED BY <1>3, <1>8, <2>1, <2>2
<1> HIDE DEF k, e
<1>10. k \in n..(m - 1) /\ ~InName(s[k]) /\ e \in n..(m - 1) /\ k <= Len(s) /\ e <= Len(s)
  BY <1>3, <1>8, <1>9
<1>11. PICK q \in (n + 1)..(m - 2) : s[q] = "=" /\ \A i \in (n..(m - 1)) \ {q} : InName(s[i])
  BY <1>6, <1>10 DEF FieldFits
<1>12. k = q
  BY <1>10, <1>11
<1>13. k + 1 \in (n..(m - 1)) \ {q} /\ k < Len(s)
  BY <1>3, <1>11, <1>12
<1>14. e > k + 1 /\ ~InName(s[e])
  BY <1>8, <1>10, <1>11, <1>12, <1>13
<1>15. e \in (n..(m - 1)) \ {q}
  BY <1>10, <1>12, <1>14
<1> QED BY <1>11, <1>14, <1>15

\* A pair has a key when the field says so, and then the field's text.
LEMMA FieldNamed ==
  ASSUME NEW s \in Seq(Tokens), NEW n \in 1..Len(s), s[n] \in Words, NEW key
  PROVE  /\ (PairAt(s, n).key = <<key>>) <=> (s[n] = key /\ (n = Len(s) \/ ~InName(s[n + 1])))
         /\ PairAt(s, n).key = <<key>> => PairAt(s, n).value = Texts(s, n)
<1> DEFINE k == RunEnd(s, n)
           p == PairAt(s, n)
           e == p.end
<1>1. /\ k \in (n + 1)..(Len(s) + 1) /\ e \in k..(Len(s) + 1)
      /\ k <= Len(s) => ~InName(s[k])
      /\ \A i \in n..(k - 1) : InName(s[i])
      /\ \/ /\ e = k /\ p.value = << >>
            /\ ~(k < Len(s) /\ s[k] = "=" /\ InName(s[k + 1]))
         \/ /\ e > k + 1 /\ k < Len(s) /\ s[k] = "="
            /\ p.value = SubSeq(s, k + 1, e - 1)
            /\ \A i \in (k + 1)..(e - 1) : InName(s[i])
            /\ e <= Len(s) => ~InName(s[e])
      /\ p.key = SubSeq(s, n, k - 1)
  BY PairIs
<1> HIDE DEF k, p
<1>2. p.key = <<key>> <=> k = n + 1 /\ s[n] = key
  <2> DEFINE w == SubSeq(s, n, k - 1)
  <2>1. w \in Seq(Tokens) /\ Len(w) = k - n /\ \A i \in 1..(k - n) : w[i] = s[n + i - 1]
    BY <1>1
  <2>2. w = <<key>> <=> Len(w) = 1 /\ w[1] = key
    <3> HIDE DEF w
    <3> QED BY <2>1
  <2> HIDE DEF w
  <2>3. k - n = 1 <=> k = n + 1
    BY <1>1
  <2> QED BY <1>1, <2>1, <2>2, <2>3 DEF w
<1>3. k = n + 1 <=> n = Len(s) \/ ~InName(s[n + 1])
  BY <1>1
<1>4. ASSUME k = n + 1
      PROVE  p.value = Texts(s, n)
  <2> DEFINE valued == n < Len(s) - 1 /\ s[n + 1] = "=" /\ InName(s[n + 2])
             E == {m \in (n + 2)..Len(s) : \A i \in (n + 2)..m : InName(s[i])}
  <2>0. n + 2 = k + 1 /\ Len(s) \in Nat
    BY <1>4
  <2>1. valued <=> (k < Len(s) /\ s[k] = "=" /\ InName(s[k + 1]))
    BY <1>4
  <2>2. CASE ~valued
    <3>1. p.value = << >>
      BY <1>1, <2>0, <2>1, <2>2
    <3> QED BY <2>2, <3>1 DEF Texts
  <2>3. CASE valued
    <3> HIDE DEF e
    <3>1. /\ e > k + 1 /\ p.value = SubSeq(s, k + 1, e - 1)
          /\ \A i \in (k + 1)..(e - 1) : InName(s[i])
          /\ e <= Len(s) => ~InName(s[e])
      BY <1>1, <2>1, <2>3
    <3>2. e - 1 \in E
      BY <1>1, <2>0, <3>1
    <3>3. \A m \in E : m <= e - 1
      BY <1>1, <2>0, <3>1
    <3>4. E \in SUBSET (0..Len(s))
      OBVIOUS
    <3>5. Max(E) = e - 1
      <4> HIDE DEF E
      <4>1. Max(E) \in E /\ \A m \in E : m <= Max(E)
        BY <2>0, <3>2, <3>4, GreatestIs
      <4>2. Max(E) <= e - 1 /\ e - 1 <= Max(E)
        BY <3>2, <3>3, <4>1
      <4>3. Max(E) \in 0..Len(s) /\ e - 1 \in 0..Len(s)
        BY <3>2, <3>4, <4>1
      <4> QED BY <4>2, <4>3
    <3>6. Texts(s, n) = SubSeq(s, n + 2, Max(E))
      BY <2>3 DEF Texts
    <3> QED BY <2>0, <3>1, <3>5, <3>6
  <2> QED BY <2>2, <2>3
<1> QED BY <1>2, <1>3, <1>4 DEF p

\* The fields with a key from position n on, and what the first of them says.
Later(s, key, n) == {k \in FieldsOf(s, key) : n <= k}
Says(s, key, n) ==
  IF Later(s, key, n) = {} THEN << >> ELSE Texts(s, Min(Later(s, key, n)))

\* What is parsed from position n on says what the fields from there on say.
Agrees(f, s, key, n) ==
  Begins(s, n) => f[n] \in Seq({PairAt(s, k) : k \in DOMAIN s}) /\ Param(f[n], key) = Says(s, key, n)

LEMMA NoPairs == \A key : Param(<< >>, key) = << >>
  BY DEF Param

LEMMA AgreesStep ==
  ASSUME NEW s \in Seq(Tokens), NEW f, Parses(f, s), NEW key \in Words,
         NEW n \in 1..(Len(s) + 1),
         \A k \in (n + 1)..(Len(s) + 1) : Agrees(f, s, key, k)
  PROVE  Agrees(f, s, key, n)
<1> DEFINE S == {PairAt(s, k) : k \in DOMAIN s}
<1> SUFFICES ASSUME Begins(s, n)
             PROVE  f[n] \in Seq(S) /\ Param(f[n], key) = Says(s, key, n)
  BY DEF Agrees
<1>1. f[n] = PairsAt(f, s, n)
  BY DEF Parses
<1>2. FieldsOf(s, key) \in SUBSET (1..Len(s)) /\ \A k \in FieldsOf(s, key) : Begins(s, k) /\ s[k] = key
  BY DEF FieldsOf
<1>3. n \in 1..Len(s) => (n \in FieldsOf(s, key) <=> s[n] = key /\ (n = Len(s) \/ ~InName(s[n + 1])))
  BY DEF FieldsOf
<1>4. << >> \in Seq(S)
  OBVIOUS
<1> HIDE DEF S
<1>5. CASE n = Len(s) + 1
  <2>1. f[n] = << >>
    BY <1>1, <1>5 DEF PairsAt
  <2>2. Later(s, key, n) = {}
    BY <1>2, <1>5 DEF Later
  <2> QED BY <1>4, <2>1, <2>2, NoPairs DEF Says
<1>6. CASE n \in 1..Len(s) /\ s[n] \notin Words
  <2>1. f[n] = << >>
    BY <1>1, <1>6 DEF PairsAt
  <2>2. ASSUME NEW k \in Later(s, key, n)
        PROVE  FALSE
    <3>1. k \in n..Len(s) /\ Begins(s, k) /\ s[k] = key
      BY <1>2, <2>2 DEF Later
    <3>2. k # n
      BY <1>6, <3>1
    <3>3. k \in (n + 1)..Len(s)
      BY <3>1, <3>2
    <3> QED BY <1>6, <3>1, <3>3, NothingBegins
  <2> QED BY <1>4, <2>1, <2>2, NoPairs DEF Says
<1>7. CASE n \in 1..Len(s) /\ s[n] \in Words
  <2> DEFINE p == PairAt(s, n)
             e == p.end
             rest == IF More(s, n) THEN f[e + 1] ELSE << >>
  <2>1. f[n] = <<p>> \o rest /\ p \in S
    BY <1>1, <1>7 DEF PairsAt, S
  <2>2. e \in (n + 1)..(Len(s) + 1) /\ (More(s, n) => e + 1 \in (n + 1)..(Len(s) + 1))
    <3>1. RunEnd(s, n) \in (n + 1)..(Len(s) + 1) /\ e \in RunEnd(s, n)..(Len(s) + 1)
      BY <1>7, PairIs
    <3>2. More(s, n) => e <= Len(s)
      BY DEF More
    <3> HIDE DEF e
    <3> QED BY <3>1, <3>2
  <2>3. /\ p.key = <<key>> <=> n \in FieldsOf(s, key)
        /\ p.key = <<key>> => p.value = Texts(s, n)
    BY <1>3, <1>7, FieldNamed
  <2>4. /\ rest \in Seq(S)
        /\ Param(rest, key) = Says(s, key, n + 1)
    <3>1. CASE More(s, n)
      <4>1. Begins(s, e + 1)
        BY <1>7, <3>1, NextBegins
      <4>2. f[e + 1] \in Seq(S) /\ Param(f[e + 1], key) = Says(s, key, e + 1)
        <5> HIDE DEF e
        <5> QED BY <2>2, <3>1, <4>1 DEF Agrees, S
      <4>3. \A k \in (n + 1)..e : ~Begins(s, k)
        BY <1>7, NothingInside
      <4>4. Later(s, key, e + 1) = Later(s, key, n + 1)
        <5> HIDE DEF e
        <5> QED BY <1>2, <2>2, <4>3 DEF Later
      <4>5. Says(s, key, e + 1) = Says(s, key, n + 1)
        <5> HIDE DEF e
        <5> QED BY <4>4 DEF Says
      <4> QED BY <3>1, <4>2, <4>5
    <3>2. CASE ~More(s, n)
      <4>1. ASSUME NEW k \in Later(s, key, n + 1)
            PROVE  FALSE
        <5>1. k \in (n + 1)..Len(s) /\ Begins(s, k)
          BY <1>2, <4>1 DEF Later
        <5> QED BY <1>7, <3>2, <5>1, NothingBegins
      <4>2. Says(s, key, n + 1) = << >>
        BY <4>1 DEF Says
      <4> QED BY <1>4, <3>2, <4>2, NoPairs
    <3> QED BY <3>1, <3>2
  <2> HIDE DEF rest, p
  <2>5. f[n] \in Seq(S)
    BY <2>1, <2>4
  <2>6. Param(f[n], key) = IF p.key = <<key>> THEN p.value ELSE Param(rest, key)
    BY <2>1, <2>4, ParamOfRest
  <2>7. CASE n \in FieldsOf(s, key)
    <3>1. n \in Later(s, key, n) /\ Later(s, key, n) \in SUBSET Nat
          /\ \A k \in Later(s, key, n) : n <= k
      BY <1>2, <2>7 DEF Later
    <3>2. Min(Later(s, key, n)) = n
      <4> DEFINE L == Later(s, key, n)
      <4> HIDE DEF L
      <4>1. Min(L) \in L /\ \A k \in L : Min(L) <= k
        BY <3>1, LeastIs DEF L
      <4>2. Min(L) <= n /\ n <= Min(L) /\ Min(L) \in Nat /\ n \in Nat
        BY <3>1, <4>1 DEF L
      <4> QED BY <4>2 DEF L
    <3> QED BY <2>3, <2>5, <2>6, <2>7, <3>1, <3>2 DEF Says
  <2>8. CASE n \notin FieldsOf(s, key)
    <3>1. Later(s, key, n) = Later(s, key, n + 1)
      BY <1>2, <2>8 DEF Later
    <3> QED BY <2>3, <2>4, <2>5, <2>6, <2>8, <3>1 DEF Says
  <2> QED BY <2>7, <2>8
<1> QED BY <1>5, <1>6, <1>7

LEMMA ParamsSaid ==
  ASSUME NEW s \in Seq(Tokens), NEW key \in Words
  PROVE  Param(Pairs(s), key) = IF FieldsOf(s, key) = {} THEN << >> ELSE Texts(s, Min(FieldsOf(s, key)))
<1>1. PICK f : Parses(f, s) /\ Pairs(s) = f[1]
  <2> DEFINE f == CHOOSE f : Parses(f, s)
  <2>1. Parses(f, s)
    BY ParsesExist
  <2>2. Pairs(s) = f[1]
    BY PairsDef
  <2> HIDE DEF f
  <2> QED BY <2>1, <2>2
<1> DEFINE N == Len(s)
           Bad == {n \in 1..(N + 1) : ~Agrees(f, s, key, n)}
<1>2. ASSUME Bad # {}
      PROVE  FALSE
  <2>1. Bad \in SUBSET (0..(N + 1)) /\ N + 1 \in Nat
    OBVIOUS
  <2>2. Max(Bad) \in Bad /\ \A k \in Bad : k <= Max(Bad)
    <3> HIDE DEF Bad, N
    <3> QED BY <1>2, <2>1, GreatestIs
  <2> DEFINE m == Max(Bad)
  <2> HIDE DEF m
  <2>3. m \in 1..(N + 1) /\ ~Agrees(f, s, key, m)
    BY <2>2 DEF m
  <2>4. \A k \in (m + 1)..(N + 1) : Agrees(f, s, key, k)
    <3> TAKE k \in (m + 1)..(N + 1)
    <3>1. k \in 1..(N + 1) /\ ~(k <= m)
      BY <2>3
    <3>2. k \notin Bad
      BY <2>2, <3>1 DEF m
    <3> QED BY <3>1, <3>2
  <2> QED BY <1>1, <2>3, <2>4, AgreesStep
<1>3. Agrees(f, s, key, 1)
  <2>1. 1 \in 1..(N + 1)
    OBVIOUS
  <2>2. Bad = {}
    BY <1>2
  <2> QED BY <2>1, <2>2
<1>4. Begins(s, 1)
  BY DEF Begins
<1>5. Later(s, key, 1) = FieldsOf(s, key)
  BY DEF Later, FieldsOf
<1> QED BY <1>1, <1>3, <1>4, <1>5 DEF Agrees, Says

-----------------------------------------------------------------------------
(* Requests. *)

LEMMA ParamsWritten ==
  ASSUME NEW p \in Seq(Tokens), p # << >>, p[1] = "/", NEW key \in Words
  PROVE  Param(ParamsOf(p), key) = Written(p, key)
<1> DEFINE q == QuestionMark(p)
           s == SubSeq(p, q + 1, Len(p))
<1>1. q \in 0..Len(p) /\ q = Max({0} \cup {k \in DOMAIN p : p[k] = "?"})
  BY LastMark
<1>2. s \in Seq(Tokens)
  <2>1. q + 1 \in 1..(Len(p) + 1)
    BY <1>1
  <2> HIDE DEF q
  <2> QED BY <2>1
<1>3. Cardinality(Slashes(p, q)) \in Nat
  BY <1>1, CountSlashes
<1>4. HasParams(p) <=> ~(q = 0 \/ Cardinality(Slashes(p, q)) < 3)
  BY <1>3, ParamsFound
<1>5. Written(p, key) = IF q = 0 \/ Cardinality(Slashes(p, q)) < 3 \/ FieldsOf(s, key) = {} THEN << >>
                        ELSE Texts(s, Min(FieldsOf(s, key)))
  <2>1. Max({0} \cup {k \in DOMAIN p : p[k] = "?"}) = q
    BY <1>1
  <2> HIDE DEF q
  <2> QED BY <2>1, Zenon DEF Written
<1>6. ParamsOf(p) = IF HasParams(p) THEN Pairs(s) ELSE << >>
  BY DEF ParamsOf
<1> HIDE DEF s, q
<1> QED BY <1>2, <1>4, <1>5, <1>6, ParamsSaid, NoPairs

\* What a url gets, as UrlsNameTheirAction says it.
AsNamed(u, call, reply) ==
  LET p == IF Plain(u)[Len(u)] = "/" THEN Plain(u) \o <<"index", ".", "html">> ELSE Plain(u)
  IN IF Refusable(u) THEN reply = Only("bad_request")
     ELSE /\ \A a \in ParamActions : (call.action = a) <=> NameWithParams(p, a)
          /\ \A a \in PlainActions : (call.action = a) <=> NameAlone(p, a)
          /\ \A key \in {"barcode", "devSessId"} : Param(call.params, key) = Written(p, key)

LEMMA PathType ==
  ASSUME NEW u \in Seq(Tokens), u # << >>, Acceptable(u)
  PROVE  /\ RequestPath(u) \in Seq(Tokens) /\ RequestPath(u) # << >> /\ RequestPath(u)[1] = "/"
         /\ RequestPath(u) = IF Plain(u)[Len(u)] = "/" THEN Plain(u) \o <<"index", ".", "html">>
                             ELSE Plain(u)
<1> DEFINE p == Plain(u)
<1>1. p = UrlDecode(u) /\ p \in Seq(Tokens) /\ Len(p) = Len(u) /\ Len(u) \in Nat /\ p # << >>
  BY Decoded
<1>2. p[1] = "/"
  BY <1>1 DEF Acceptable
<1>3. <<"index", ".", "html">> \in Seq(Tokens)
  <2>1. "index" \in Tokens /\ "." \in Tokens /\ "html" \in Tokens
    BY UrlAssumption, WordsAreNoMarks, Zenon DEF Tokens, Characters
  <2> QED BY <2>1
<1>4. RequestPath(u) = IF p[Len(u)] = "/" THEN p \o <<"index", ".", "html">> ELSE p
  BY <1>1 DEF RequestPath
<1> HIDE DEF p
<1>5. CASE p[Len(u)] = "/"
  <2> DEFINE w == <<"index", ".", "html">>
  <2>1. w \in Seq(Tokens)
    BY <1>3
  <2> HIDE DEF w
  <2>2. p \o w \in Seq(Tokens) /\ Len(p \o w) = Len(p) + Len(w) /\ (p \o w)[1] = p[1]
    BY <1>1, <2>1
  <2>3. p \o w # << >>
    BY <1>1, <2>1, <2>2
  <2> QED BY <1>2, <1>4, <1>5, <2>2, <2>3 DEF w, p
<1>6. CASE p[Len(u)] # "/"
  BY <1>1, <1>2, <1>4, <1>6 DEF p
<1> QED BY <1>5, <1>6

LEMMA HandleNames ==
  ASSUME NEW u \in Seq(Tokens), u # << >>, Handle(u)
  PROVE  AsNamed(u, called', answer')
<1>1. CASE Refusable(u)
  <2>1. ~Acceptable(u)
    BY <1>1, AcceptedOrRefusable
  <2>2. answer' = Only("bad_request")
    BY <2>1 DEF Handle
  <2> QED BY <1>1, <2>2 DEF AsNamed
<1>2. CASE ~Refusable(u)
  <2> DEFINE p == RequestPath(u)
  <2>1. Acceptable(u)
    BY <1>2, AcceptedOrRefusable
  <2>2. called'.action = ActionOf(p) /\ called'.params = ParamsOf(p)
    BY <2>1 DEF Handle
  <2>3. /\ p \in Seq(Tokens) /\ p # << >> /\ p[1] = "/"
        /\ p = IF Plain(u)[Len(u)] = "/" THEN Plain(u) \o <<"index", ".", "html">> ELSE Plain(u)
    BY <2>1, PathType
  <2> HIDE DEF p
  <2>4. \A a \in ParamActions : (called'.action = a) <=> NameWithParams(p, a)
    BY <2>2, <2>3, ActionWithParams
  <2>5. \A a \in PlainActions : (called'.action = a) <=> NameAlone(p, a)
    BY <2>2, <2>3, ActionAlone
  <2>6. \A key \in {"barcode", "devSessId"} : Param(called'.params, key) = Written(p, key)
    <3>1. "barcode" \in Words /\ "devSessId" \in Words
      BY UrlAssumption, Zenon
    <3> QED BY <2>2, <2>3, <3>1, ParamsWritten
  <2> QED BY <1>2, <2>3, <2>4, <2>5, <2>6, Zenon DEF AsNamed
<1> QED BY <1>1, <1>2

LEMMA NamesInit == Init => UrlsNameTheirAction
  BY DEF Init, UrlsNameTheirAction

LEMMA NamesStep ==
  ASSUME UrlsNameTheirAction, [Next]_vars
  PROVE  UrlsNameTheirAction'
<1>1. UrlsNameTheirAction <=> (url # << >> => AsNamed(url, called, answer))
  BY Zenon DEF UrlsNameTheirAction, AsNamed
<1>2. UrlsNameTheirAction' <=> (url' # << >> => AsNamed(url', called', answer'))
  BY Zenon DEF UrlsNameTheirAction, AsNamed
<1>3. ASSUME NEW u \in Seq(Tokens), Handle(u)
      PROVE  UrlsNameTheirAction'
  <2>1. url' = u
    BY <1>3 DEF Handle
  <2> QED BY <1>2, <1>3, <2>1, HandleNames
<1>4. ASSUME UNCHANGED <<url, called, answer>>
      PROVE  UrlsNameTheirAction'
  BY <1>1, <1>2, <1>4
<1>5. StrayUrls \subseteq Seq(Tokens) /\ DeviceUrls \subseteq Seq(Tokens)
  BY ItemRequestsAssumption
<1>6. CASE ReadRow
  BY <1>4, <1>6 DEF ReadRow
<1>7. CASE PriceVariation
  BY <1>4, <1>7 DEF PriceVariation
<1>8. CASE Stray
  BY <1>3, <1>5, <1>8 DEF Stray
<1>9. CASE \E u \in DeviceUrls : Handle(u)
  BY <1>3, <1>5, <1>9
<1>10. CASE UNCHANGED vars
  BY <1>4, <1>10 DEF vars
<1> QED BY <1>6, <1>7, <1>8, <1>9, <1>10 DEF Next

\* Whatever the urls, words and sequences of requests: a url that is refused
\* reaches no session, any other calls the action its text names with the
\* parameters its first fields say.
THEOREM UrlsName == Spec => []UrlsNameTheirAction
  BY NamesInit, NamesStep, PTL DEF Spec

-----------------------------------------------------------------------------
(* The digits of a number. *)

LEMMA Tenth ==
  ASSUME NEW n \in Nat, n >= 10
  PROVE  /\ n \div 10 \in Nat /\ n \div 10 >= 1 /\ n \div 10 < n
         /\ n % 10 \in 0..9 /\ n = 10 * (n \div 10) + (n % 10)
  OBVIOUS

DigitsAt(f, n) == IF n < 10 THEN <<n>> ELSE Append(f[n \div 10], n % 10)

LEMMA DigitsDef == DigitsOf = CHOOSE f : f = [n \in Nat |-> DigitsAt(f, n)]
  BY DEF DigitsOf, DigitsAt

\* The digits of the numbers up to m.
DigitsUpto(f, m) == f = [n \in Nat |-> IF n <= m THEN DigitsAt(f, n) ELSE << >>]

LEMMA DigitsAlike ==
  ASSUME NEW f, NEW k \in Nat, DigitsUpto(f, k), NEW g, NEW m \in Nat, DigitsUpto(g, m),
         NEW n \in Nat, n <= k, n <= m
  PROVE  f[n] = g[n]
<1> DEFINE Bad == {i \in Nat : i <= k /\ i <= m /\ f[i] # g[i]}
<1>1. ASSUME Bad # {}
      PROVE  FALSE
  <2>1. PICK i \in Bad : \A j \in Bad : i <= j
    BY <1>1, LeastOf
  <2>2. i \in Nat /\ i <= k /\ i <= m /\ f[i] # g[i]
    BY <2>1
  <2>3. f[i] = DigitsAt(f, i) /\ g[i] = DigitsAt(g, i)
    BY <2>2 DEF DigitsUpto
  <2>4. CASE i < 10
    BY <2>2, <2>3, <2>4 DEF DigitsAt
  <2>5. CASE i >= 10
    <3> DEFINE t == i \div 10
    <3>1. t \in Nat /\ t < i
      BY <2>2, <2>5, Tenth
    <3> HIDE DEF t
    <3>2. f[t] = g[t]
      BY <2>1, <2>2, <3>1
    <3>3. DigitsAt(f, i) = Append(f[t], i % 10) /\ DigitsAt(g, i) = Append(g[t], i % 10)
      BY <2>2, <2>5 DEF DigitsAt, t
    <3> QED BY <2>2, <2>3, <3>2, <3>3
  <2> QED BY <2>2, <2>4, <2>5
<1> QED BY <1>1

LEMMA DigitsUptoExist ==
  ASSUME NEW m \in Nat
  PROVE  \E f : DigitsUpto(f, m)
<1> DEFINE Bad == {i \in Nat : ~\E f : DigitsUpto(f, i)}
<1>1. ASSUME Bad # {}
      PROVE  FALSE
  <2>1. PICK i \in Bad : \A j \in Bad : i <= j
    BY <1>1, LeastOf
  <2> DEFINE h == [n \in Nat |-> << >>]
  <2>2. PICK f : /\ f = [n \in Nat |-> f[n]]
                 /\ \A n \in Nat : f[n] = IF n < i THEN DigitsAt(f, n) ELSE << >>
    <3>1. CASE i = 0
      <4>1. /\ h = [n \in Nat |-> h[n]]
            /\ \A n \in Nat : h[n] = IF n < i THEN DigitsAt(h, n) ELSE << >>
        BY <3>1
      <4> QED BY <4>1
    <3>2. CASE i # 0
      <4>1. i - 1 \in Nat /\ i - 1 \notin Bad
        BY <2>1, <3>2
      <4>2. PICK f : DigitsUpto(f, i - 1)
        BY <4>1
      <4>3. \A n \in Nat : f[n] = IF n <= i - 1 THEN DigitsAt(f, n) ELSE << >>
        BY <4>2 DEF DigitsUpto
      <4>4. \A n \in Nat : n <= i - 1 <=> n < i
        BY <2>1
      <4>5. f = [n \in Nat |-> f[n]]
        BY <4>2 DEF DigitsUpto
      <4> QED BY <4>3, <4>4, <4>5
    <3> QED BY <3>1, <3>2
  <2> DEFINE g == [f EXCEPT ![i] = DigitsAt(f, i)]
  <2>3. i \in Nat /\ DOMAIN f = Nat
    BY <2>1, <2>2
  <2>4. \A n \in Nat : g[n] = IF n = i THEN DigitsAt(f, i) ELSE f[n]
    BY <2>3
  <2>5. g = [n \in Nat |-> g[n]]
    BY <2>2, <2>3
  <2> HIDE DEF g
  <2>6. ASSUME NEW n \in Nat, n <= i
        PROVE  DigitsAt(g, n) = DigitsAt(f, n)
    <3>1. CASE n < 10
      BY <3>1 DEF DigitsAt
    <3>2. CASE n >= 10
      <4> DEFINE t == n \div 10
      <4>1. t \in Nat /\ t < n
        BY <3>2, Tenth
      <4> HIDE DEF t
      <4>2. g[t] = f[t]
        BY <2>3, <2>4, <2>6, <4>1
      <4> QED BY <3>2, <4>2 DEF DigitsAt, t
    <3> QED BY <3>1, <3>2
  <2>7. \A n \in Nat : g[n] = IF n <= i THEN DigitsAt(g, n) ELSE << >>
    <3> SUFFICES ASSUME NEW n \in Nat
                 PROVE  g[n] = IF n <= i THEN DigitsAt(g, n) ELSE << >>
      OBVIOUS
    <3>1. CASE n < i
      BY <2>2, <2>3, <2>4, <2>6, <3>1
    <3>2. CASE n = i
      BY <2>3, <2>4, <2>6, <3>2
    <3>3. CASE n > i
      BY <2>2, <2>3, <2>4, <3>3
    <3> QED BY <2>3, <3>1, <3>2, <3>3
  <2>8. DigitsUpto(g, i)
    BY <2>5, <2>7 DEF DigitsUpto
  <2> QED BY <2>1, <2>8
<1> QED BY <1>1

LEMMA DigitsAre == \A n \in Nat : DigitsOf[n] = DigitsAt(DigitsOf, n)
<1> DEFINE F(n) == CHOOSE f : DigitsUpto(f, n)
           g == [n \in Nat |-> F(n)[n]]
<1>1. \A n \in Nat : DigitsUpto(F(n), n)
  BY DigitsUptoExist
<1> HIDE DEF F
<1>2. \A n \in Nat : g[n] = F(n)[n]
  OBVIOUS
<1>3. g = [n \in Nat |-> g[n]]
  BY <1>2
<1> HIDE DEF g
<1>4. ASSUME NEW n \in Nat
      PROVE  g[n] = DigitsAt(g, n)
  <2>1. F(n)[n] = DigitsAt(F(n), n)
    <3>1. DigitsUpto(F(n), n)
      BY <1>1
    <3> HIDE DEF F
    <3> QED BY <3>1 DEF DigitsUpto
  <2>2. CASE n < 10
    BY <1>2, <2>1, <2>2 DEF DigitsAt
  <2>3. CASE n >= 10
    <3> DEFINE t == n \div 10
    <3>1. t \in Nat /\ t < n
      BY <2>3, Tenth
    <3> HIDE DEF t
    <3>2. F(n)[t] = F(t)[t]
      BY <1>1, <3>1, DigitsAlike
    <3>3. DigitsAt(F(n), n) = Append(F(n)[t], n % 10) /\ DigitsAt(g, n) = Append(g[t], n % 10)
      BY <2>3 DEF DigitsAt, t
    <3> QED BY <1>2, <2>1, <3>1, <3>2, <3>3
  <2> QED BY <2>2, <2>3
<1>5. g = [n \in Nat |-> DigitsAt(g, n)]
  BY <1>3, <1>4
<1>6. DigitsOf = [n \in Nat |-> DigitsAt(DigitsOf, n)]
  BY <1>5, DigitsDef
<1> QED BY <1>6

-----------------------------------------------------------------------------
(* The number digits stand for. *)

ValueStep(f, ds, k) == IF k = 0 THEN 0 ELSE 10 * f[k - 1] + ds[k]
Values(f, ds) == f = [k \in 0..Len(ds) |-> ValueStep(f, ds, k)]

LEMMA ValueDef == \A ds : ValueOf(ds) = (CHOOSE f : Values(f, ds))[Len(ds)]
  BY DEF ValueOf, Values, ValueStep

\* The values of the first digits of ds, up to m of them.
ValuesUpto(f, ds, m) ==
  f = [k \in 0..Len(ds) |-> IF k <= m THEN ValueStep(f, ds, k) ELSE 0]

LEMMA ValuesExist ==
  ASSUME NEW ds \in Seq(Digits)
  PROVE  \E f : Values(f, ds)
<1> DEFINE N == Len(ds)
           Bad == {i \in 0..N : ~\E f : ValuesUpto(f, ds, i)}
<1>0. N \in Nat
  OBVIOUS
<1>1. ASSUME Bad # {}
      PROVE  FALSE
  <2>1. PICK i \in Bad : \A j \in Bad : i <= j
    <3>1. Bad \in SUBSET Nat
      BY <1>0
    <3> HIDE DEF Bad
    <3> QED BY <1>1, <3>1, LeastOf
  <2>2. i \in 0..N
    BY <2>1
  <2>3. CASE i = 0
    <3> DEFINE h == [k \in 0..N |-> 0]
    <3>1. \A k \in 0..N : h[k] = IF k <= 0 THEN ValueStep(h, ds, k) ELSE 0
      BY <1>0 DEF ValueStep
    <3>2. ValuesUpto(h, ds, 0)
      BY <1>0 DEF ValuesUpto, ValueStep
    <3> QED BY <2>1, <2>3, <3>2
  <2>4. CASE i # 0
    <3>1. i - 1 \in 0..N /\ i - 1 \notin Bad
      BY <1>0, <2>1, <2>2, <2>4
    <3>2. PICK f : ValuesUpto(f, ds, i - 1)
      BY <3>1
    <3> DEFINE g == [f EXCEPT ![i] = ValueStep(f, ds, i)]
    <3>3. /\ f = [k \in 0..N |-> f[k]]
          /\ \A k \in 0..N : f[k] = IF k <= i - 1 THEN ValueStep(f, ds, k) ELSE 0
      BY <3>2 DEF ValuesUpto
    <3>4. \A k \in 0..N : g[k] = IF k = i THEN ValueStep(f, ds, i) ELSE f[k]
      BY <3>3
    <3>5. g = [k \in 0..N |-> g[k]]
      BY <3>3
    <3> HIDE DEF g
    <3>6. \A k \in 0..N : k <= i => ValueStep(g, ds, k) = ValueStep(f, ds, k)
      BY <1>0, <2>2, <3>4 DEF ValueStep
    <3>7. ASSUME NEW k \in 0..N
          PROVE  g[k] = IF k <= i THEN ValueStep(g, ds, k) ELSE 0
      <4>1. CASE k < i
        <5>1. k <= i - 1 /\ k <= i /\ k # i
          BY <1>0, <2>2, <4>1
        <5>2. g[k] = f[k] /\ f[k] = ValueStep(f, ds, k)
          BY <3>3, <3>4, <5>1
        <5> QED BY <3>6, <5>1, <5>2
      <4>2. CASE k = i
        BY <1>0, <2>2, <3>4, <3>6, <4>2
      <4>3. CASE k > i
        BY <1>0, <2>2, <3>3, <3>4, <4>3
      <4> QED BY <1>0, <2>2, <4>1, <4>2, <4>3
    <3>8. ValuesUpto(g, ds, i)
      BY <3>5, <3>7 DEF ValuesUpto
    <3> QED BY <2>1, <3>8
  <2> QED BY <2>3, <2>4
<1>2. N \in 0..N /\ N \notin Bad
  BY <1>0, <1>1
<1>3. PICK f : ValuesUpto(f, ds, N)
  BY <1>2
<1>4. \A k \in 0..N : k <= N
  BY <1>0
<1>5. Values(f, ds)
  BY <1>3, <1>4 DEF ValuesUpto, Values
<1> QED BY <1>5

\* The functions for ds and for ds with one digit more agree on ds.
LEMMA ValueGrowsBy ==
  ASSUME NEW ds \in Seq(Digits), NEW d \in Digits
  PROVE  ValueOf(Append(ds, d)) = 10 * ValueOf(ds) + d
<1> DEFINE N == Len(ds)
           es == Append(ds, d)
           f == CHOOSE f : Values(f, ds)
           g == CHOOSE g : Values(g, es)
           Bad == {k \in 0..N : f[k] # g[k]}
<1>1. /\ N \in Nat /\ es \in Seq(Digits) /\ Len(es) = N + 1 /\ es[N + 1] = d
      /\ \A k \in 1..N : es[k] = ds[k]
  OBVIOUS
<1> HIDE DEF es
<1>2. Values(f, ds) /\ Values(g, es)
  BY <1>1, ValuesExist
<1>3. ValueOf(ds) = f[N] /\ ValueOf(es) = g[N + 1]
  BY <1>1, ValueDef
<1> HIDE DEF f, g
<1>4. /\ \A k \in 0..N : f[k] = ValueStep(f, ds, k)
      /\ \A k \in 0..(N + 1) : g[k] = ValueStep(g, es, k)
  BY <1>1, <1>2 DEF Values
<1> HIDE DEF N
<1>5. ASSUME Bad # {}
      PROVE  FALSE
  <2>1. PICK k \in Bad : \A j \in Bad : k <= j
    <3>1. Bad \in SUBSET Nat
      BY <1>1
    <3> QED BY <1>5, <3>1, LeastOf
  <2>2. k \in 0..N /\ f[k] # g[k] /\ f[k] = ValueStep(f, ds, k) /\ g[k] = ValueStep(g, es, k)
    BY <1>1, <1>4, <2>1
  <2>3. CASE k = 0
    BY <2>2, <2>3 DEF ValueStep
  <2>4. CASE k # 0
    <3>1. k - 1 \in 0..N /\ ~(k <= k - 1) /\ k \in 1..N
      BY <1>1, <2>2, <2>4
    <3>2. f[k - 1] = g[k - 1]
      BY <2>1, <3>1
    <3> QED BY <1>1, <2>2, <2>4, <3>1, <3>2 DEF ValueStep
  <2> QED BY <2>3, <2>4
<1>6. f[N] = g[N]
  BY <1>1, <1>5
<1>7. g[N + 1] = 10 * g[N] + d
  BY <1>1, <1>4 DEF ValueStep
<1> QED BY <1>3, <1>6, <1>7 DEF es

LEMMA ValueOfNone == ValueOf(<< >>) = 0
<1> DEFINE f == CHOOSE f : Values(f, << >>)
<1>0. << >> \in Seq(Digits) /\ Len(<< >>) = 0
  OBVIOUS
<1>1. Values(f, << >>)
  <2>1. \E g : Values(g, << >>)
    BY <1>0, ValuesExist
  <2> QED BY <2>1
<1>2. ValueOf(<< >>) = f[0]
  BY ValueDef
<1> HIDE DEF f
<1>3. f[0] = 0
  BY <1>1 DEF Values, ValueStep
<1> QED BY <1>2, <1>3

LEMMA LastDigit ==
  ASSUME NEW n \in Nat
  PROVE  /\ n < 10 => DigitsOf[n] = <<n>>
         /\ n >= 10 => DigitsOf[n] = Append(DigitsOf[n \div 10], n % 10)
<1>1. DigitsOf[n] = DigitsAt(DigitsOf, n)
  BY DigitsAre
<1>2. n >= 10 <=> ~(n < 10)
  OBVIOUS
<1> HIDE DEF DigitsOf
<1> QED BY <1>1, <1>2, Zenon DEF DigitsAt

\* The digits of a number stand for it.
LEMMA DigitsSay ==
  ASSUME NEW n \in Nat
  PROVE  LET ds == DigitsOf[n]
         IN /\ ds \in Seq(Digits) /\ ValueOf(ds) = n
            /\ IF n < 10 THEN ds = <<n>>
               ELSE Len(ds) > 1 /\ (n >= 100 <=> Len(ds) > 2)
<1> DEFINE Fine(k) ==
             LET ds == DigitsOf[k]
             IN /\ ds \in Seq(Digits) /\ ValueOf(ds) = k
                /\ IF k < 10 THEN ds = <<k>>
                   ELSE Len(ds) > 1 /\ (k >= 100 <=> Len(ds) > 2)
           Bad == {k \in Nat : ~Fine(k)}
<1>1. ASSUME Bad # {}
      PROVE  FALSE
  <2>1. PICK k \in Nat : ~Fine(k) /\ \A j \in Nat : j < k => Fine(j)
    <3> HIDE DEF Fine
    <3>1. PICK k \in Bad : \A j \in Bad : k <= j
      BY <1>1, LeastOf
    <3> QED BY <3>1
  <2>2. k \in Nat /\ ~Fine(k)
    BY <2>1
  <2> HIDE DEF Bad
  <2>3. CASE k < 10
    <3>1. DigitsOf[k] = <<k>> /\ k \in Digits
      BY <2>2, <2>3, LastDigit DEF Digits
    <3>2. <<k>> = Append(<< >>, k) /\ << >> \in Seq(Digits) /\ <<k>> \in Seq(Digits)
      BY <3>1
    <3>3. ValueOf(<<k>>) = 10 * 0 + k
      BY <3>1, <3>2, ValueGrowsBy, ValueOfNone
    <3> QED BY <2>2, <2>3, <3>1, <3>2, <3>3
  <2>4. CASE k >= 10
    <3> DEFINE t == k \div 10
               d == k % 10
               ds == DigitsOf[t]
    <3>1. /\ t \in Nat /\ t >= 1 /\ t < k /\ d \in 0..9 /\ k = 10 * t + d
      BY <2>2, <2>4, Tenth
    <3>2. DigitsOf[k] = Append(ds, d)
      BY <2>2, <2>4, LastDigit
    <3> HIDE DEF t, d
    <3>3. Fine(t)
      <4> HIDE DEF Fine
      <4> QED BY <2>1, <3>1
    <3>4. ds \in Seq(Digits) /\ ValueOf(ds) = t /\ d \in Digits
      BY <3>1, <3>3 DEF Digits
    <3>5. ValueOf(DigitsOf[k]) = k
      BY <3>1, <3>2, <3>4, ValueGrowsBy
    <3>6. t < 10 => Len(ds) = 1
      <4>1. t < 10 => ds = <<t>>
        BY <3>3
      <4> QED BY <4>1
    <3>7. t >= 10 => Len(ds) > 1
      BY <3>1, <3>3
    <3> HIDE DEF ds
    <3>8. DigitsOf[k] \in Seq(Digits) /\ Len(DigitsOf[k]) = Len(ds) + 1 /\ Len(ds) \in Nat
      BY <3>2, <3>4
    <3>9. k >= 100 <=> t >= 10
      BY <3>1
    <3>10. Len(ds) > 0 /\ (t >= 10 <=> Len(ds) > 1)
      <4>1. t < 10 \/ t >= 10
        BY <3>1
      <4>2. t < 10 => ~(t >= 10)
        BY <3>1
      <4>3. Len(ds) = 1 => ~(Len(ds) > 1) /\ Len(ds) > 0
        OBVIOUS
      <4>4. Len(ds) > 1 => Len(ds) > 0
        BY <3>8
      <4> QED BY <3>6, <3>7, <4>1, <4>2, <4>3, <4>4
    <3> QED BY <2>2, <2>4, <3>5, <3>8, <3>9, <3>10
  <2> QED BY <2>2, <2>3, <2>4
<1>2. Fine(n)
  BY <1>1
<1> QED BY <1>2

-----------------------------------------------------------------------------
(* The texts of amounts. *)

LEMMA NoMarks == Dot \notin Digits /\ Minus \notin Digits /\ Dot # Minus
  BY DEF Dot, Minus, Digits

LEMMA DigitsOnly ==
  ASSUME NEW ds \in Seq(Digits), Len(ds) > 0
  PROVE  IsDigits(ds)
<1>1. \A k \in 1..Len(ds) : ds[k] \in Digits
  BY SeqElements
<1>2. ds # << >>
  <2>1. ~(Len(<< >>) > 0)
    OBVIOUS
  <2> QED BY <2>1, Zenon
<1> QED BY <1>1, <1>2 DEF IsDigits

LEMMA PartIs ==
  ASSUME NEW S, NEW v \in Seq(S), NEW m \in 1..(Len(v) + 1), NEW n \in (m - 1)..Len(v)
  PROVE  /\ SubSeq(v, m, n) \in Seq(S) /\ Len(SubSeq(v, m, n)) = n - m + 1
         /\ \A i \in 1..(n - m + 1) : SubSeq(v, m, n)[i] = v[m + i - 1]
  OBVIOUS

\* The parts of a text with a dot before its last two symbols.
LEMMA DottedParts ==
  ASSUME NEW S, NEW a \in Seq(S), NEW c \in Seq(S), NEW z \in S, Len(a) > 0, Len(c) = 2
  PROVE  LET u == a \o <<z>> \o c
             n == Len(u)
         IN /\ u \in Seq(S) /\ n = Len(a) + 3 /\ n > 3 /\ n \in Nat /\ u[1] = a[1] /\ u[n - 2] = z
            /\ SubSeq(u, 1, n - 3) = a /\ SubSeq(u, n - 1, n) = c
<1> DEFINE u == a \o <<z>> \o c
           n == Len(u)
           m == Len(a)
<1>1. m \in Nat /\ m > 0
  OBVIOUS
<1> DEFINE h == Append(a, z)
<1>2. a \o <<z>> = h
  OBVIOUS
<1>3. /\ h \in Seq(S) /\ Len(h) = m + 1 /\ h[m + 1] = z
      /\ \A i \in 1..m : h[i] = a[i]
  OBVIOUS
<1> HIDE DEF h
<1>4. /\ h \o c \in Seq(S) /\ Len(h \o c) = m + 3
      /\ \A i \in 1..(m + 3) : (h \o c)[i] = IF i <= m + 1 THEN h[i] ELSE c[i - (m + 1)]
  <2> HIDE DEF m
  <2>1. Len(h) + Len(c) = m + 3 /\ Len(h) = m + 1
    BY <1>1, <1>3
  <2>2. /\ h \o c \in Seq(S) /\ Len(h \o c) = Len(h) + Len(c)
        /\ \A i \in 1..(Len(h) + Len(c)) :
             (h \o c)[i] = IF i <= Len(h) THEN h[i] ELSE c[i - Len(h)]
    BY <1>3, ConcatProperties
  <2> QED BY <2>1, <2>2
<1>5. u = h \o c
  BY <1>2
<1> HIDE DEF u, m
<1>6. /\ u \in Seq(S) /\ n = m + 3 /\ u[m + 1] = z
      /\ \A i \in 1..m : u[i] = a[i]
      /\ \A i \in 1..2 : u[m + 1 + i] = c[i]
  <2>1. \A i \in 1..m : i \in 1..(m + 3) /\ i \in 1..(m + 1) /\ i <= m + 1 /\ i <= m
    BY <1>1
  <2>2. \A i \in 1..m : u[i] = a[i]
    BY <1>3, <1>4, <1>5, <2>1
  <2>4. u[m + 1] = z
    <3>1. (h \o c)[m + 1] = h[m + 1]
      BY <1>1, <1>4
    <3> QED BY <1>3, <1>5, <3>1
  <2>5. \A i \in 1..2 : /\ m + 1 + i \in 1..(m + 3) /\ ~(m + 1 + i <= m + 1)
                        /\ (m + 1 + i) - (m + 1) = i
    BY <1>1
  <2>6. \A i \in 1..2 : u[m + 1 + i] = c[i]
    BY <1>4, <1>5, <2>5
  <2> QED BY <1>4, <1>5, <2>2, <2>4, <2>6
<1>7. SubSeq(u, 1, n - 3) = a
  <2>1. 1 \in 1..(Len(u) + 1) /\ m \in 0..Len(u) /\ n - 3 = m /\ m - 1 + 1 = m
    BY <1>1, <1>6
  <2>2. /\ SubSeq(u, 1, m) \in Seq(S) /\ Len(SubSeq(u, 1, m)) = m
        /\ \A i \in 1..m : SubSeq(u, 1, m)[i] = u[i]
    BY <1>1, <1>6, <2>1, PartIs
  <2>3. Len(SubSeq(u, 1, m)) = Len(a) /\ \A i \in 1..Len(a) : SubSeq(u, 1, m)[i] = a[i]
    BY <1>6, <2>2 DEF m
  <2> QED BY <2>1, <2>2, <2>3, SeqEqual
<1>8. SubSeq(u, n - 1, n) = c
  <2> DEFINE s == SubSeq(u, m + 2, m + 3)
  <2>1. m + 2 \in 1..(Len(u) + 1) /\ m + 3 \in (m + 2 - 1)..Len(u) /\ n - 1 = m + 2
        /\ m + 3 - (m + 2) + 1 = 2
    BY <1>1, <1>6
  <2>2. /\ s \in Seq(S) /\ Len(s) = 2
        /\ \A i \in 1..2 : s[i] = u[m + 2 + i - 1]
    BY <1>6, <2>1, PartIs
  <2>3. \A i \in 1..2 : m + 2 + i - 1 = m + 1 + i
    BY <1>1
  <2>4. \A i \in 1..2 : s[i] = c[i]
    BY <1>6, <2>2, <2>3
  <2>5. s = c
    <3> HIDE DEF s
    <3> QED BY <2>2, <2>4, SeqEqual
  <2> QED BY <1>6, <2>1, <2>5
<1>9. u[1] = a[1] /\ u[n - 2] = z /\ n > 3
  BY <1>1, <1>6
<1> QED BY <1>1, <1>6, <1>7, <1>8, <1>9 DEF u, m

\* A text behind a minus sign.
LEMMA SignedText ==
  ASSUME NEW S, NEW u \in Seq(S), Minus \in S
  PROVE  LET m == <<Minus>> \o u
         IN /\ m \in Seq(S) /\ Len(m) = Len(u) + 1 /\ m # << >> /\ m[1] = Minus /\ m # u
            /\ Unsigned(m) = u
<1> DEFINE m == <<Minus>> \o u
<1>1. m \in Seq(S) /\ Len(m) = Len(u) + 1 /\ Len(u) \in Nat
  OBVIOUS
<1>2. m[1] = Minus /\ \A i \in 1..Len(u) : m[i + 1] = u[i]
  OBVIOUS
<1> HIDE DEF m
<1>3. SubSeq(m, 2, Len(m)) \in Seq(S) /\ Len(SubSeq(m, 2, Len(m))) = Len(u)
  BY <1>1
<1>4. \A i \in 1..Len(u) : SubSeq(m, 2, Len(m))[i] = m[i + 1]
  BY <1>1
<1>5. SubSeq(m, 2, Len(m)) = u
  BY <1>1, <1>2, <1>3, <1>4
<1>6. m # << >> /\ m # u
  BY <1>1
<1>7. Unsigned(m) = u
  BY <1>2, <1>5, <1>6 DEF Unsigned
<1> QED BY <1>1, <1>2, <1>6, <1>7 DEF m

LEMMA DottedSays ==
  ASSUME NEW a \in Seq(Digits), NEW c \in Seq(Digits), Len(a) > 0, Len(c) = 2
  PROVE  LET u == a \o <<Dot>> \o c
             m == <<Minus>> \o u
         IN /\ TwoDecimals(u) /\ Cents(u) = ValueOf(a \o c)
            /\ TwoDecimals(m) /\ Cents(m) = -ValueOf(a \o c)
<1> DEFINE u == a \o <<Dot>> \o c
           m == <<Minus>> \o u
           n == Len(u)
<1>0. Dot \in Symbols /\ Minus \in Symbols /\ Digits \subseteq Symbols
  BY DEF Dot, Minus, Symbols, Digits
<1>1. a \in Seq(Symbols) /\ c \in Seq(Symbols)
  BY <1>0
<1>2. /\ u \in Seq(Symbols) /\ n > 3 /\ n \in Nat /\ u[1] = a[1] /\ u[n - 2] = Dot
      /\ SubSeq(u, 1, n - 3) = a /\ SubSeq(u, n - 1, n) = c
  BY <1>0, <1>1, DottedParts
<1> HIDE DEF u
<1>3. Unsigned(m) = u /\ m # u
  BY <1>0, <1>2, SignedText
<1>4. Unsigned(u) = u
  <2>1. 1 \in 1..Len(a)
    OBVIOUS
  <2>2. a[1] \in Digits
    BY <2>1, SeqElements
  <2> QED BY <1>2, <2>2, NoMarks DEF Unsigned
<1>5. IsDigits(a) /\ IsDigits(c)
  <2>1. Len(c) > 0
    OBVIOUS
  <2> QED BY <2>1, DigitsOnly
<1> HIDE DEF m
<1>6. TwoDecimals(u) /\ TwoDecimals(m)
  BY <1>2, <1>3, <1>4, <1>5 DEF TwoDecimals
<1>7. Cents(u) = ValueOf(a \o c) /\ Cents(m) = -ValueOf(a \o c)
  BY <1>2, <1>3, <1>4 DEF Cents
<1> QED BY <1>6, <1>7 DEF u, m

\* A text that shows dollars and cents, and one of each kind that does not.
IsDotted(t, v) ==
  \E a, c \in Seq(Digits) :
    Len(a) > 0 /\ Len(c) = 2 /\ t = a \o <<Dot>> \o c /\ ValueOf(a \o c) = v

LEMMA TwoDigits ==
  ASSUME NEW n \in Nat, n >= 10, n < 100
  PROVE  LET c == DigitsOf[n]
         IN c \in Seq(Digits) /\ Len(c) = 2 /\ ValueOf(<<0>> \o c) = n
<1> DEFINE t == n \div 10
           d == n % 10
<1>1. t \in Nat /\ t < 10 /\ t \in Digits /\ d \in Digits /\ n = 10 * t + d
  BY Tenth DEF Digits
<1>2. DigitsOf[n] = Append(DigitsOf[t], d)
  BY LastDigit
<1> HIDE DEF t, d
<1>3. DigitsOf[t] = <<t>>
  BY <1>1, LastDigit
<1> DEFINE p == <<0>>
           q == <<0, t>>
           r == <<0, t, d>>
<1>4. <<t, d>> = Append(<<t>>, d)
  OBVIOUS
<1>5. p = Append(<< >>, 0) /\ q = Append(p, t) /\ r = Append(q, d)
  OBVIOUS
<1>6. 0 \in Digits /\ << >> \in Seq(Digits) /\ p \in Seq(Digits) /\ q \in Seq(Digits)
  BY <1>1 DEF Digits
<1> HIDE DEF p, q, r
<1>7. ValueOf(p) = 10 * 0 + 0
  BY <1>5, <1>6, ValueGrowsBy, ValueOfNone
<1>8. ValueOf(q) = 10 * 0 + t
  <2>1. ValueOf(Append(p, t)) = 10 * ValueOf(p) + t
    BY <1>1, <1>6, ValueGrowsBy
  <2> QED BY <1>5, <1>7, <2>1
<1>9. ValueOf(r) = n
  <2>1. ValueOf(Append(q, d)) = 10 * ValueOf(q) + d
    BY <1>1, <1>6, ValueGrowsBy
  <2>2. ValueOf(r) = 10 * ValueOf(q) + d
    BY <1>5, <2>1
  <2> QED BY <1>1, <1>8, <2>2
<1> DEFINE c == <<t, d>>
<1>10. DigitsOf[n] = c
  BY <1>2, <1>3, <1>4
<1>11. c \in Seq(Digits) /\ Len(c) = 2
  BY <1>1
<1>12. p \o c = r
  BY <1>1, <1>5, <1>6
<1> HIDE DEF c
<1> QED BY <1>9, <1>10, <1>11, <1>12 DEF p

\* A text of three or more symbols is cut before its last two.
LEMMA DottedDigits ==
  ASSUME NEW n \in Nat, n >= 100
  PROVE  LET ds == DigitsOf[n]
             m == Len(ds)
         IN m > 2 /\ IsDotted(SubSeq(ds, 1, m - 2) \o <<Dot>> \o SubSeq(ds, m - 1, m), n)
<1> DEFINE ds == DigitsOf[n]
           m == Len(ds)
           a == SubSeq(ds, 1, m - 2)
           c == SubSeq(ds, m - 1, m)
<1>1. ds \in Seq(Digits) /\ ValueOf(ds) = n /\ m > 2 /\ m \in Nat
  BY DigitsSay
<1> HIDE DEF ds
<1>2. /\ a \in Seq(Digits) /\ Len(a) = m - 2 /\ c \in Seq(Digits) /\ Len(c) = 2
      /\ \A i \in 1..(m - 2) : a[i] = ds[i]
      /\ \A i \in 1..2 : c[i] = ds[m - 2 + i]
  BY <1>1
<1>3. a \o c = ds
  <2> DEFINE k == m - 2
  <2>1. /\ 1 \in 1..(Len(ds) + 1) /\ k \in (1 - 1)..Len(ds) /\ m \in k..Len(ds)
        /\ k + 1 = m - 1
    BY <1>1
  <2> HIDE DEF k, m
  <2>2. SubSeq(ds, 1, k) \o SubSeq(ds, k + 1, m) = SubSeq(ds, 1, m)
    BY <1>1, <2>1, ConcatAdjacentSubSeq
  <2> USE DEF k, m
  <2> QED BY <1>1, <2>1, <2>2, SubSeqFull
<1>4. Len(a) > 0
  BY <1>1, <1>2
<1> HIDE DEF a, c, m
<1>5. IsDotted(a \o <<Dot>> \o c, n)
  BY <1>1, <1>2, <1>3, <1>4 DEF IsDotted
<1> QED BY <1>1, <1>5 DEF a, c, m, ds

LEMMA SymbolSets ==
  /\ Dot \in Symbols /\ Minus \in Symbols /\ Digits \subseteq Symbols /\ 0 \in Symbols
  /\ \A s \in Seq(Digits) : s \in Seq(Symbols)
  BY DEF Dot, Minus, Symbols, Digits

LEMMA JoinEnds ==
  ASSUME NEW s \in Seq(Symbols), NEW t \in Seq(Symbols), Len(s) > 0, Len(t) > 0
  PROVE  /\ s \o t \in Seq(Symbols) /\ Len(s \o t) = Len(s) + Len(t)
         /\ (s \o t)[1] = s[1] /\ (s \o t)[Len(s) + 1] = t[1]
  OBVIOUS

\* Where a text behind a minus sign is cut.
LEMMA DottedBehindMinus ==
  ASSUME NEW ds \in Seq(Digits), Len(ds) > 2
  PROVE  LET m == Len(ds)
             t == <<Minus>> \o ds
         IN /\ Len(t) = m + 1
            /\ SubSeq(t, 1, m - 1) \o <<Dot>> \o SubSeq(t, m, m + 1)
                 = <<Minus>> \o (SubSeq(ds, 1, m - 2) \o <<Dot>> \o SubSeq(ds, m - 1, m))
<1> DEFINE m == Len(ds)
           w == <<Minus>>
           z == <<Dot>>
           t == w \o ds
           a == SubSeq(ds, 1, m - 2)
           c == SubSeq(ds, m - 1, m)
<1>1. m \in Nat /\ m > 2 /\ ds \in Seq(Symbols)
  BY SymbolSets
<1>2. w \in Seq(Symbols) /\ Len(w) = 1 /\ z \in Seq(Symbols)
  BY SymbolSets
<1>3. a \in Seq(Symbols) /\ c \in Seq(Symbols)
  BY <1>1
<1> HIDE DEF w, z
<1>4. t \in Seq(Symbols) /\ Len(t) = m + 1
  <2>1. t \in Seq(Symbols) /\ Len(t) = Len(w) + Len(ds)
    BY <1>1, <1>2, ConcatProperties
  <2>2. Len(w) + Len(ds) = m + 1
    BY <1>1, <1>2
  <2> QED BY <2>1, <2>2
<1>5. SubSeq(t, m, m + 1) = c
  <2> DEFINE k == m + 1
  <2>1. /\ m \in (Len(w) + 1)..(Len(w) + Len(ds)) /\ k \in (Len(w) + 1)..(Len(w) + Len(ds))
        /\ m - Len(w) = m - 1 /\ k - Len(w) = m
    BY <1>1, <1>2
  <2> HIDE DEF k
  <2>2. SubSeq(t, m, k) = SubSeq(ds, m - Len(w), k - Len(w))
    <3> HIDE DEF m
    <3> QED BY <1>1, <1>2, <2>1, SubSeqOfConcat2
  <2> QED BY <2>1, <2>2 DEF k
<1>6. SubSeq(t, 1, m - 1) = w \o a
  <2>1. SubSeq(t, 1, 1) = w
    <3>1. 1 \in 1..Len(w)
      BY <1>2
    <3>2. SubSeq(w \o ds, 1, 1) = SubSeq(w, 1, 1)
      BY <1>1, <1>2, <3>1, SubSeqOfConcat1
    <3>3. SubSeq(w, 1, 1) = w
      BY <1>2, SubSeqFull
    <3> QED BY <3>2, <3>3
  <2>2. SubSeq(t, 1 + 1, m - 1) = a
    <3>1. /\ 2 \in (Len(w) + 1)..(Len(w) + Len(ds)) /\ m - 1 \in (Len(w) + 1)..(Len(w) + Len(ds))
          /\ 2 - Len(w) = 1 /\ m - 1 - Len(w) = m - 2
      BY <1>1, <1>2
    <3>2. SubSeq(t, 2, m - 1) = SubSeq(ds, 2 - Len(w), m - 1 - Len(w))
      BY <1>1, <1>2, <3>1, SubSeqOfConcat2
    <3> QED BY <3>1, <3>2
  <2>3. SubSeq(t, 1, 1) \o SubSeq(t, 1 + 1, m - 1) = SubSeq(t, 1, m - 1)
    <3>1. 1 \in 1..(Len(t) + 1) /\ 1 \in (1 - 1)..Len(t) /\ m - 1 \in 1..Len(t)
      BY <1>1, <1>4
    <3> HIDE DEF t
    <3> QED BY <1>4, <3>1, ConcatAdjacentSubSeq
  <2> HIDE DEF a, t
  <2> QED BY <2>1, <2>2, <2>3
<1> HIDE DEF a, c, t
<1>7. ((w \o a) \o z) \o c = w \o ((a \o z) \o c)
  <2> DEFINE h == a \o z
  <2>1. (w \o a) \o z = w \o h /\ h \in Seq(Symbols)
    BY <1>2, <1>3, ConcatAssociative, ConcatProperties
  <2> HIDE DEF h
  <2>2. (w \o h) \o c = w \o (h \o c)
    <3>1. \A x, y, s \in Seq(Symbols) : (x \o y) \o s = x \o (y \o s)
      BY ConcatAssociative
    <3> QED BY <1>2, <1>3, <2>1, <3>1, Zenon
  <2> QED BY <2>1, <2>2 DEF h
<1> QED BY <1>4, <1>5, <1>6, <1>7 DEF w, z, t, a, c

\* What the text of an amount looks like.
LEMMA TextShape ==
  ASSUME NEW v \in Int
  PROVE  LET t == Text(v)
         IN \/ v >= 10 /\ IsDotted(t, v)
            \/ v \in 0..9 /\ t = <<0, Dot, v>>
            \/ v \in -9..-1 /\ t \in Seq(Symbols) /\ Len(t) = 4 /\ t[1] = 0 /\ t[3] = Minus
            \/ v \in -99..-10 /\ t \in Seq(Symbols) /\ Len(t) = 4 /\ t[1] = Minus
            \/ v <= -100 /\ \E u : IsDotted(u, -v) /\ t = <<Minus>> \o u
<1> DEFINE l == LongText(v)
           n == Len(l)
           first == <<0, Dot>>
<1>0. Text(v) = IF n < 3 THEN first \o l
                ELSE SubSeq(l, 1, n - 2) \o <<Dot>> \o SubSeq(l, n - 1, n)
  BY DEF Text, FromLongToStringWithDecimals
<1>00. v < 0 => l = <<Minus>> \o DigitsOf[-v] /\ -v \in Nat
  BY DEF LongText
<1>01. v >= 0 => l = DigitsOf[v] /\ v \in Nat
  BY DEF LongText
<1>02. first \in Seq(Symbols) /\ Len(first) = 2 /\ first[1] = 0 /\ first[2] = Dot
  BY SymbolSets
<1> HIDE DEF l
<1>1. CASE v \in 0..9
  <2>0. v >= 0 /\ v < 10
    BY <1>1
  <2>1. l = <<v>> /\ v \in Symbols
    <3>1. DigitsOf[v] = <<v>> /\ l = DigitsOf[v]
      BY <1>01, <2>0, LastDigit
    <3> QED BY <1>1, <3>1 DEF Symbols
  <2>2. Len(<<v>>) < 3 /\ first \o <<v>> = Append(first, v)
    BY <1>02, <2>1
  <2>3. <<0, Dot, v>> = Append(<<0, Dot>>, v)
    OBVIOUS
  <2> QED BY <1>0, <1>1, <2>1, <2>2, <2>3
<1>2. CASE v >= 10 /\ v < 100
  <2> DEFINE p == <<0>>
  <2>1. l \in Seq(Digits) /\ n = 2 /\ ValueOf(p \o l) = v
    BY <1>2, <1>01, TwoDigits
  <2>2. p \in Seq(Digits) /\ Len(p) > 0
    BY DEF Digits
  <2>3. first = Append(p, Dot)
    OBVIOUS
  <2> HIDE DEF p, first
  <2>4. p \o <<Dot>> = first
    BY <2>2, <2>3
  <2>5. Text(v) = p \o <<Dot>> \o l
    <3>1. n < 3
      BY <2>1
    <3> HIDE DEF n
    <3> QED BY <1>0, <2>4, <3>1
  <2>6. IsDotted(Text(v), v)
    BY <2>1, <2>2, <2>5 DEF IsDotted
  <2> QED BY <1>2, <2>6
<1>3. CASE v >= 100
  <2>1. n > 2 /\ IsDotted(SubSeq(l, 1, n - 2) \o <<Dot>> \o SubSeq(l, n - 1, n), v)
    BY <1>3, <1>01, DottedDigits
  <2>2. n \in Nat
    BY <1>3, <1>01, DigitsSay
  <2> HIDE DEF n
  <2>3. ~(n < 3)
    BY <2>1, <2>2
  <2>4. IsDotted(Text(v), v) /\ v >= 10
    BY <1>0, <1>3, <2>1, <2>3
  <2> QED BY <2>4
<1>4. CASE v \in -9..-1
  <2> DEFINE w == <<Minus>>
             d == DigitsOf[-v]
  <2>1. w \in Seq(Symbols) /\ Len(w) = 1 /\ w[1] = Minus
    BY SymbolSets
  <2>2. d \in Seq(Symbols) /\ Len(d) = 1
    <3>1. -v \in Nat /\ -v < 10 /\ -v \in Symbols
      BY <1>4 DEF Symbols
    <3>2. d = <<-v>>
      BY <3>1, LastDigit
    <3> QED BY <3>1, <3>2
  <2>3. l = w \o d
    BY <1>4, <1>00
  <2> HIDE DEF w, d, first
  <2>4. l \in Seq(Symbols) /\ n = 2 /\ l[1] = Minus
    <3>1. Len(w) > 0 /\ Len(d) > 0 /\ Len(w) + Len(d) = 2
      BY <2>1, <2>2
    <3>2. /\ w \o d \in Seq(Symbols) /\ Len(w \o d) = Len(w) + Len(d)
          /\ (w \o d)[1] = w[1]
      BY <2>1, <2>2, <3>1, JoinEnds, Zenon
    <3> QED BY <2>1, <2>3, <3>1, <3>2
  <2>5. Text(v) = first \o l
    BY <1>0, <2>4
  <2>6. /\ first \o l \in Seq(Symbols) /\ Len(first \o l) = 4
        /\ (first \o l)[1] = 0 /\ (first \o l)[3] = Minus
    <3>1. Len(first) > 0 /\ Len(l) > 0 /\ Len(first) + Len(l) = 4 /\ Len(first) + 1 = 3
      BY <1>02, <2>4
    <3>2. /\ first \o l \in Seq(Symbols) /\ Len(first \o l) = Len(first) + Len(l)
          /\ (first \o l)[1] = first[1] /\ (first \o l)[Len(first) + 1] = l[1]
      BY <1>02, <2>4, <3>1, JoinEnds, Zenon
    <3> QED BY <1>02, <2>4, <3>1, <3>2
  <2> QED BY <1>4, <2>5, <2>6
<1>5. CASE v \in -99..-10
  <2> DEFINE w == <<Minus>>
             ds == DigitsOf[-v]
             a == SubSeq(l, 1, 1)
             c == SubSeq(l, 2, 3)
  <2>1. ds \in Seq(Digits) /\ Len(ds) = 2
    BY <1>5, <1>00, TwoDigits
  <2>2. w \in Seq(Symbols) /\ Len(w) = 1 /\ w[1] = Minus /\ ds \in Seq(Symbols)
    BY <2>1, SymbolSets
  <2>3. l = w \o ds
    BY <1>5, <1>00
  <2> HIDE DEF w, ds
  <2>4. l \in Seq(Symbols) /\ n = 3 /\ l[1] = Minus
    <3>1. Len(w) > 0 /\ Len(ds) > 0 /\ Len(w) + Len(ds) = 3
      BY <2>1, <2>2
    <3>2. /\ w \o ds \in Seq(Symbols) /\ Len(w \o ds) = Len(w) + Len(ds)
          /\ (w \o ds)[1] = w[1]
      BY <2>2, <3>1, JoinEnds, Zenon
    <3> QED BY <2>2, <2>3, <3>1, <3>2
  <2>5. a \in Seq(Symbols) /\ Len(a) = 1 /\ a[1] = Minus /\ c \in Seq(Symbols) /\ Len(c) = 2
    BY <2>4, PartIs
  <2>6. Text(v) = a \o <<Dot>> \o c
    BY <1>0, <2>4
  <2> HIDE DEF a, c
  <2>7. Len(a) > 0
    BY <2>5
  <2> DEFINE u == a \o <<Dot>> \o c
  <2>8. u \in Seq(Symbols) /\ Len(u) = Len(a) + 3 /\ u[1] = a[1]
    <3> DEFINE z == <<Dot>>
               y == a \o z
    <3>1. z \in Seq(Symbols) /\ Len(z) = 1
      BY SymbolSets
    <3> HIDE DEF z
    <3>2. y \in Seq(Symbols) /\ Len(y) = Len(a) + 1 /\ y[1] = a[1] /\ Len(y) > 0
      <4>1. Len(a) > 0 /\ Len(z) > 0 /\ Len(a) + Len(z) = Len(a) + 1 /\ Len(a) + 1 > 0
        BY <2>5, <3>1
      <4>2. y \in Seq(Symbols) /\ Len(y) = Len(a) + Len(z) /\ y[1] = a[1]
        BY <2>5, <3>1, <4>1, JoinEnds, Zenon
      <4> QED BY <4>1, <4>2
    <3> HIDE DEF y
    <3>3. y \o c \in Seq(Symbols) /\ Len(y \o c) = Len(y) + Len(c) /\ (y \o c)[1] = y[1]
      <4>1. Len(c) > 0
        BY <2>5
      <4> QED BY <2>5, <3>2, <4>1, JoinEnds, Zenon
    <3>4. Len(y) + Len(c) = Len(a) + 3
      BY <2>5, <3>2
    <3> QED BY <3>2, <3>3, <3>4, Zenon DEF u, y, z
  <2>9. Text(v) \in Seq(Symbols) /\ Len(Text(v)) = 4 /\ Text(v)[1] = Minus
    <3> HIDE DEF u
    <3>1. Text(v) = u
      BY <2>6 DEF u
    <3>2. Len(a) + 3 = 4
      BY <2>5
    <3> QED BY <2>5, <2>8, <3>1, <3>2
  <2> QED BY <1>5, <2>9
<1>6. CASE v <= -100
  <2> DEFINE ds == DigitsOf[-v]
             m == Len(ds)
             u == SubSeq(ds, 1, m - 2) \o <<Dot>> \o SubSeq(ds, m - 1, m)
  <2>1. l = <<Minus>> \o ds /\ -v \in Nat /\ -v >= 100
    BY <1>6, <1>00
  <2>2. ds \in Seq(Digits) /\ m \in Nat /\ m > 2 /\ IsDotted(u, -v)
    <3>1. ds \in Seq(Digits)
      BY <2>1, DigitsSay
    <3>2. m > 2 /\ IsDotted(u, -v)
      BY <2>1, DottedDigits
    <3> HIDE DEF ds, u
    <3> QED BY <3>1, <3>2
  <2> HIDE DEF ds
  <2>3. n = m + 1 /\ SubSeq(l, 1, m - 1) \o <<Dot>> \o SubSeq(l, m, m + 1) = <<Minus>> \o u
    BY <2>1, <2>2, DottedBehindMinus
  <2>4. ~(n < 3) /\ n - 2 = m - 1 /\ n - 1 = m
    BY <2>2, <2>3
  <2> HIDE DEF n, m, u
  <2>5. Text(v) = <<Minus>> \o u
    BY <1>0, <2>3, <2>4
  <2> QED BY <1>6, <2>2, <2>5
<1> QED BY <1>1, <1>2, <1>3, <1>4, <1>5, <1>6

\* What keeps a text from having two decimals, from being empty, and from
\* being the one of nothing.
LEMMA NotTwo ==
  ASSUME NEW x, NEW u \in Seq(Symbols), Unsigned(x) = u,
         \/ Len(u) <= 3
         \/ ~IsDigits(SubSeq(u, 1, Len(u) - 3))
         \/ ~IsDigits(SubSeq(u, Len(u) - 1, Len(u)))
  PROVE  ~TwoDecimals(x)
<1>1. TwoDecimals(x) => /\ Len(u) > 3 /\ IsDigits(SubSeq(u, 1, Len(u) - 3))
                        /\ IsDigits(SubSeq(u, Len(u) - 1, Len(u)))
  BY Zenon DEF TwoDecimals
<1>2. Len(u) \in Nat
  OBVIOUS
<1> QED BY <1>1, <1>2

LEMMA MarkFirst ==
  ASSUME NEW x \in Seq(Symbols), Len(x) > 0, x[1] = Minus
  PROVE  ~IsDigits(x)
<1>1. 1 \in DOMAIN x
  OBVIOUS
<1> QED BY <1>1, NoMarks, Zenon DEF IsDigits

LEMMA UnlikeNothing ==
  ASSUME NEW x, Len(x) \in Nat, Len(x) > 0, Len(x) > 3 \/ x[1] = Minus
  PROVE  x # << >> /\ x # <<0, Dot, 0>>
<1> DEFINE o == <<0, Dot, 0>>
<1>1. Len(<< >>) = 0 /\ Len(o) = 3 /\ o[1] # Minus
  BY DEF Minus
<1> HIDE DEF o
<1>2. x # << >>
  <2> DEFINE e == << >>
  <2>1. Len(e) = 0
    BY <1>1
  <2> HIDE DEF e
  <2>2. x # e
    BY <2>1
  <2> QED BY <2>2 DEF e
<1>3. x # o
  <2>1. x = o => Len(x) = 3 /\ x[1] # Minus
    BY <1>1, Zenon
  <2> DEFINE n == Len(x)
  <2>2. n \in Nat
    OBVIOUS
  <2> HIDE DEF n
  <2>3. n > 3 => n # 3
    BY <2>2
  <2> QED BY <2>1, <2>3, Zenon DEF n
<1> QED BY <1>2, <1>3 DEF o

\* What is read from the text of an amount and from one behind a minus sign.
LEMMA TextSays ==
  ASSUME NEW v \in Int
  PROVE  /\ Clear(Text(v)) => Said(Text(v)) = v
         /\ v \notin 1..9 \cup -99..-1 => Clear(Text(v))
         /\ Clear(<<Minus>> \o Text(v)) => Said(<<Minus>> \o Text(v)) = -v
<1> DEFINE t == Text(v)
           s == <<Minus>> \o t
<1> HIDE DEF t
<1>0. ASSUME t \in Seq(Symbols)
      PROVE  /\ s \in Seq(Symbols) /\ Len(s) = Len(t) + 1 /\ s # << >> /\ s[1] = Minus
             /\ Unsigned(s) = t /\ s # <<0, Dot, 0>>
  <2>1. s \in Seq(Symbols) /\ Len(s) = Len(t) + 1 /\ s[1] = Minus /\ Unsigned(s) = t
    BY <1>0, SymbolSets, SignedText
  <2> HIDE DEF s
  <2>2. Len(t) \in Nat
    BY <1>0
  <2>3. Len(s) \in Nat /\ Len(s) > 0
    BY <2>1, <2>2
  <2> QED BY <2>1, <2>3, UnlikeNothing
<1>1. CASE v >= 10 /\ IsDotted(t, v)
  <2>1. PICK a, c \in Seq(Digits) :
          Len(a) > 0 /\ Len(c) = 2 /\ t = a \o <<Dot>> \o c /\ ValueOf(a \o c) = v
    BY <1>1 DEF IsDotted
  <2>2. TwoDecimals(t) /\ Cents(t) = ValueOf(a \o c)
        /\ TwoDecimals(s) /\ Cents(s) = -ValueOf(a \o c)
    BY <2>1, DottedSays
  <2> HIDE DEF s
  <2>3. Cents(t) = v /\ Cents(s) = -v
    BY <2>1, <2>2
  <2> QED BY <2>2, <2>3 DEF Clear, Said, t, s
<1> HIDE DEF s
<1>2. CASE v \in 0..9 /\ t = <<0, Dot, v>>
  <2>1. t \in Seq(Symbols) /\ Len(t) = 3 /\ t[1] = 0 /\ t[3] = v
    BY <1>2, SymbolSets DEF Symbols
  <2>2. t # << >>
    BY <1>2
  <2>3. t = <<0, Dot, 0>> <=> v = 0
    BY <1>2
  <2>4. Unsigned(t) = t
    <3>1. t[1] # Minus
      BY <2>1 DEF Minus
    <3> QED BY <3>1, Zenon DEF Unsigned
  <2>5. ~TwoDecimals(t) /\ ~TwoDecimals(s)
    <3>1. Len(t) <= 3 /\ Unsigned(s) = t
      BY <1>0, <2>1
    <3> QED BY <2>1, <2>4, <3>1, NotTwo
  <2>6. ~Clear(s)
    BY <1>0, <2>1, <2>5, Zenon DEF Clear
  <2>7. Clear(t) => v = 0
    BY <2>2, <2>3, <2>5, Zenon DEF Clear
  <2>8. v = 0 => Clear(t)
    BY <2>3, Zenon DEF Clear
  <2>9. Said(t) = 0
    BY <2>5, Zenon DEF Said
  <2>10. v \notin 1..9 => v = 0
    BY <1>2
  <2> QED BY <2>6, <2>7, <2>8, <2>9, <2>10 DEF s, t
<1>3. CASE v \in -9..-1 /\ t \in Seq(Symbols) /\ Len(t) = 4 /\ t[1] = 0 /\ t[3] = Minus
  <2>1. Unsigned(t) = t
    <3>1. t[1] # Minus
      BY <1>3 DEF Minus
    <3> QED BY <3>1, Zenon DEF Unsigned
  <2>2. ~TwoDecimals(t) /\ ~TwoDecimals(s)
    <3> DEFINE h == SubSeq(t, 3, 4)
    <3>1. h[1] = Minus /\ Len(h) > 0 /\ h \in Seq(Symbols)
      <4>1. 3 \in 1..(Len(t) + 1) /\ 4 \in (3 - 1)..Len(t)
        BY <1>3
      <4> DEFINE k == 4 - 3 + 1
      <4>2. /\ h \in Seq(Symbols) /\ Len(h) = k
            /\ \A i \in 1..k : h[i] = t[3 + i - 1]
        BY <1>3, <4>1, PartIs
      <4>3. k = 2 /\ 1 \in 1..k /\ 3 + 1 - 1 = 3
        OBVIOUS
      <4> HIDE DEF h, k
      <4>4. h[1] = t[3]
        BY <4>2, <4>3
      <4> QED BY <1>3, <4>2, <4>3, <4>4
    <3> HIDE DEF h
    <3>2. ~IsDigits(h)
      BY <3>1, MarkFirst
    <3>3. Len(t) - 1 = 3
      BY <1>3
    <3>4. ~IsDigits(SubSeq(t, Len(t) - 1, Len(t)))
      BY <1>3, <3>2, <3>3, Zenon DEF h
    <3>5. Unsigned(s) = t
      BY <1>0, <1>3
    <3> QED BY <1>3, <2>1, <3>4, <3>5, NotTwo
  <2>3. t # << >> /\ t # <<0, Dot, 0>>
    <3>1. Len(t) \in Nat /\ Len(t) > 0 /\ Len(t) > 3
      BY <1>3
    <3> QED BY <3>1, UnlikeNothing
  <2>4. ~Clear(t) /\ ~Clear(s)
    BY <1>0, <1>3, <2>2, <2>3, Zenon DEF Clear
  <2>5. v \in -99..-1
    BY <1>3
  <2> QED BY <2>4, <2>5 DEF s, t
<1>4. CASE v \in -99..-10 /\ t \in Seq(Symbols) /\ Len(t) = 4 /\ t[1] = Minus
  <2>1. t # << >> /\ t # <<0, Dot, 0>>
    <3>1. Len(t) \in Nat /\ Len(t) > 0 /\ Len(t) > 3
      BY <1>4
    <3> QED BY <3>1, UnlikeNothing
  <2>2. ~TwoDecimals(t)
    <3> DEFINE u == SubSeq(t, 2, Len(t))
    <3>1. u \in Seq(Symbols) /\ Len(u) <= 3
      <4> DEFINE h == SubSeq(t, 2, 4)
      <4>1. h \in Seq(Symbols) /\ Len(h) = 3
        <5>1. 2 \in 1..(Len(t) + 1) /\ 4 \in (2 - 1)..Len(t)
          BY <1>4
        <5>2. h \in Seq(Symbols) /\ Len(h) = 4 - 2 + 1
          BY <1>4, <5>1, PartIs
        <5> HIDE DEF h
        <5> QED BY <5>2
      <4>2. u = h
        BY <1>4
      <4> HIDE DEF h, u
      <4>3. 3 <= 3
        OBVIOUS
      <4> QED BY <4>1, <4>2, <4>3, Zenon
    <3>2. Unsigned(t) = u
      BY <1>4, <2>1, Zenon DEF Unsigned
    <3> HIDE DEF u
    <3> QED BY <3>1, <3>2, NotTwo
  <2>3. ~TwoDecimals(s)
    <3> DEFINE h == SubSeq(t, 1, 1)
    <3>1. h[1] = Minus /\ Len(h) = 1 /\ h \in Seq(Symbols)
      BY <1>4
    <3> HIDE DEF h
    <3>2. ~IsDigits(h)
      BY <3>1, MarkFirst
    <3>3. Len(t) - 3 = 1
      BY <1>4
    <3>4. ~IsDigits(SubSeq(t, 1, Len(t) - 3))
      BY <3>2, <3>3, Zenon DEF h
    <3>5. Unsigned(s) = t
      BY <1>0, <1>4
    <3> QED BY <1>4, <3>4, <3>5, NotTwo
  <2>4. ~Clear(t) /\ ~Clear(s)
    BY <1>0, <1>4, <2>1, <2>2, <2>3, Zenon DEF Clear
  <2>5. v \in -99..-1
    BY <1>4
  <2> QED BY <2>4, <2>5 DEF s, t
<1>5. CASE v <= -100 /\ \E u : IsDotted(u, -v) /\ t = <<Minus>> \o u
  <2>1. PICK a, c \in Seq(Digits) :
          /\ Len(a) > 0 /\ Len(c) = 2 /\ t = <<Minus>> \o (a \o <<Dot>> \o c)
          /\ ValueOf(a \o c) = -v
    BY <1>5 DEF IsDotted
  <2> DEFINE u == a \o <<Dot>> \o c
             x == ValueOf(a \o c)
  <2>2. TwoDecimals(t) /\ Cents(t) = -x
    <3>1. TwoDecimals(<<Minus>> \o u) /\ Cents(<<Minus>> \o u) = -x
      BY <2>1, DottedSays
    <3> QED BY <2>1, <3>1, Zenon
  <2>3. Cents(t) = v
    <3> HIDE DEF x
    <3>1. x = -v
      BY <2>1 DEF x
    <3> QED BY <2>2, <3>1
  <2>4. t \in Seq(Symbols) /\ Len(t) > 3 /\ t[1] = Minus /\ Len(t) \in Nat
    <3>1. u \in Seq(Symbols) /\ Len(u) \in Nat /\ Len(u) > 3
      <4>1. a \in Seq(Symbols) /\ c \in Seq(Symbols) /\ Dot \in Symbols
        BY SymbolSets
      <4> QED BY <2>1, <4>1, DottedParts
    <3> HIDE DEF u
    <3>2. t = <<Minus>> \o u
      BY <2>1 DEF u
    <3> QED BY <3>1, <3>2, SignedText, SymbolSets
  <2>5. ~TwoDecimals(s)
    <3> DEFINE h == SubSeq(t, 1, Len(t) - 3)
    <3>1. h[1] = Minus /\ Len(h) > 0 /\ h \in Seq(Symbols)
      BY <2>4
    <3> HIDE DEF h
    <3>2. ~IsDigits(h)
      BY <3>1, MarkFirst
    <3>3. Unsigned(s) = t
      BY <1>0, <2>4
    <3> QED BY <2>4, <3>2, <3>3, NotTwo DEF h
  <2>6. ~Clear(s)
    BY <1>0, <2>4, <2>5, Zenon DEF Clear
  <2>7. Clear(t) /\ Said(t) = v
    BY <2>2, <2>3, Zenon DEF Clear, Said
  <2> QED BY <2>6, <2>7 DEF s, t
<1> QED BY <1>1, <1>2, <1>3, <1>4, <1>5, TextShape DEF t

-----------------------------------------------------------------------------
(* What the answers to sales and voids say adds up. *)

LEMMA TotalInt ==
  ASSUME NEW T \in C!Totals, NEW k \in C!TotalKeys
  PROVE  T[k].amount \in Int
<1>1. T[k] \in [items : Int, amount : Int, discount : Int]
  BY DEF C!Totals
<1> QED BY <1>1

\* A department of its own: the total row is booked once.
LEMMA BookedTotal ==
  ASSUME NEW T \in C!Totals, NEW d \in C!TotalKeys, d # 0, NEW n \in {1, -1},
         NEW p \in Int, NEW q \in Int
  PROVE  C!Book(T, d, n, p, q)[0].amount = T[0].amount + (n * (p - q))
<1> DEFINE a == n * (p - q)
           r == n * q
           W == C!AddTo(T, 0, n, a, r)
           U == C!AddTo(W, d, n, a, r)
<1>1. n \in Int /\ a \in Int /\ r \in Int
  <2>1. CASE n = 1
    BY <2>1
  <2>2. CASE n = -1
    BY <2>2
  <2> QED BY <2>1, <2>2
<1>2. 0 \in C!TotalKeys
  BY DEF C!TotalKeys
<1>3. C!Book(T, d, n, p, q) = U
  BY DEF C!Book
<1> HIDE DEF a, r
<1>4. W \in C!Totals
  BY <1>1, <1>2, AddToAdds
<1>5. W[0].amount = T[0].amount + a
  <2>1. T \in [C!TotalKeys -> [items : Int, amount : Int, discount : Int]]
    BY DEF C!Totals
  <2> QED BY <1>2, <2>1 DEF C!AddTo
<1> HIDE DEF W
<1>6. U[0] = W[0]
  <2>1. W \in [C!TotalKeys -> [items : Int, amount : Int, discount : Int]]
    BY <1>4 DEF C!Totals
  <2> QED BY <1>2, <2>1 DEF C!AddTo
<1> HIDE DEF U
<1> QED BY <1>3, <1>5, <1>6 DEF a

LEMMA BookedUp ==
  ASSUME NEW T \in C!Totals, NEW d \in C!TotalKeys, d # 0, NEW p \in Int, NEW q \in Int
  PROVE  C!Book(T, d, 1, p, q)[0].amount = T[0].amount + (p - q)
<1>1. C!Book(T, d, 1, p, q)[0].amount = T[0].amount + (1 * (p - q))
  BY BookedTotal
<1>2. 1 * (p - q) = p - q
  OBVIOUS
<1> QED BY <1>1, <1>2

LEMMA BookedDown ==
  ASSUME NEW T \in C!Totals, NEW d \in C!TotalKeys, d # 0, NEW p \in Int
  PROVE  C!Book(T, d, -1, p, 0)[0].amount = T[0].amount - p
<1>1. C!Book(T, d, -1, p, 0)[0].amount = T[0].amount + (-1 * (p - 0))
  BY BookedTotal
<1>2. 0 \in C!TotalKeys
  BY DEF C!TotalKeys
<1>3. T[0].amount \in Int
  BY <1>2, TotalInt
<1>4. T[0].amount + (-1 * (p - 0)) = T[0].amount - p
  BY <1>3
<1> QED BY <1>1, <1>4

LEMMA TotalOfInt ==
  ASSUME NEW cart \in C!CartRecord
  PROVE  TotalOf(cart) \in Int
<1>1. cart.totals \in C!Totals /\ 0 \in C!TotalKeys
  BY CartParts DEF C!TotalKeys
<1> QED BY <1>1, TotalInt DEF TotalOf

\* What the linked item adds to the price.
LinkPrice(code) == IF HasLink(code) THEN ItemAt(LinkCode(code)).price ELSE 0

LEMMA SaleAdds ==
  ASSUME WellTyped, NEW cart \in C!CartRecord, C!Accepts(cart), NEW b \in Labels, NEW promo,
         AsSigned(promo) \in Int, OfADepartment(CodeOf(b))
  PROVE  TotalOf(Sold(cart, b, promo))
           = TotalOf(cart) + (PriceIn(Copied(cart, CodeOf(b)), b) - AsSigned(promo))
             + LinkPrice(CodeOf(b))
<1> DEFINE code == CodeOf(b)
           d == ItemAt(code).department
           priced == Copied(cart, code)
           p == PriceIn(priced, b)
           q == AsSigned(promo)
           sold == C!AddItem(priced, code, b, d, p, q)
           j == LinkCode(code)
           c == LinkOf(code)
           e == ItemAt(j).department
           r == ItemAt(j).price
           copied == Copied(sold, j)
           both == C!AddItem(copied, j, c, e, r, 0)
           x == TotalOf(cart)
<1>1. /\ code \in ItemKeys /\ d \in C!TotalKeys /\ j \in ItemKeys /\ c \in Labels
      /\ e \in C!TotalKeys /\ r \in Int
  BY CodeTypes DEF ItemRecord
<1>2. d # 0 /\ (HasLink(code) => e # 0)
  BY DEF OfADepartment
<1>3. priced \in C!CartRecord /\ priced.state = cart.state /\ priced.totals = cart.totals
  BY CopiedParts
<1>4. Sold(cart, b, promo) = IF HasLink(code) THEN both ELSE sold
  BY DEF Sold, SoldLink
<1>5. LinkPrice(code) = IF HasLink(code) THEN r ELSE 0
  BY DEF LinkPrice
<1>6. x \in Int
  BY TotalOfInt
<1> HIDE DEF priced
<1>7. p \in Int
  BY <1>3, PriceInType
<1> HIDE DEF code, d, j, c, e, r, p, q, x
<1>8. sold \in C!CartRecord /\ sold.state = cart.state /\ TotalOf(sold) = x + (p - q)
  <2>1. C!Accepts(priced)
    BY <1>3 DEF C!Accepts
  <2>2. q \in Int
    BY DEF q
  <2>3. /\ sold \in C!CartRecord /\ sold.state = cart.state
        /\ sold.totals = C!Book(cart.totals, d, 1, p, q)
    <3>1. b \in Labels
      OBVIOUS
    <3> QED BY <1>1, <1>3, <1>7, <2>1, <2>2, <3>1, AddItemParts
  <2>4. cart.totals \in C!Totals
    BY CartParts
  <2>5. C!Book(cart.totals, d, 1, p, q)[0].amount = cart.totals[0].amount + (p - q)
    BY <1>1, <1>2, <1>7, <2>2, <2>4, BookedUp
  <2> HIDE DEF sold
  <2> QED BY <2>3, <2>5 DEF TotalOf, x
<1> HIDE DEF sold
<1>9. CASE HasLink(code)
  <2>1. copied \in C!CartRecord /\ copied.state = sold.state /\ copied.totals = sold.totals
    BY <1>8, CopiedParts
  <2> HIDE DEF copied
  <2>2. C!Accepts(copied)
    BY <1>8, <2>1 DEF C!Accepts
  <2>3. both.totals = C!Book(sold.totals, e, 1, r, 0)
    BY <1>1, <2>1, <2>2, AddItemParts
  <2>4. sold.totals \in C!Totals
    BY <1>8, CartParts
  <2>5. C!Book(sold.totals, e, 1, r, 0)[0].amount = sold.totals[0].amount + (r - 0)
    BY <1>1, <1>2, <1>9, <2>4, BookedUp
  <2> HIDE DEF both
  <2>6. TotalOf(both) = x + (p - q) + r
    BY <1>1, <1>8, <2>3, <2>5 DEF TotalOf
  <2> QED BY <1>4, <1>5, <1>9, <2>6 DEF code, p, q, x, priced
<1>10. CASE ~HasLink(code)
  <2>1. q \in Int
    BY DEF q
  <2>2. x + (p - q) + 0 = x + (p - q)
    BY <1>6, <1>7, <2>1
  <2> QED BY <1>4, <1>5, <1>8, <1>10, <2>2 DEF code, p, q, x, priced
<1> QED BY <1>9, <1>10

\* Whether the linked item is in the cart when the item has been taken.
LinkThere(cart, code) ==
  cart.goods.items[LinkCode(code)] > (IF LinkCode(code) = code THEN 1 ELSE 0)

LEMMA NotThereIs ==
  ASSUME NEW cart, NEW b
  PROVE  NotThere(cart, b) = (IF C!InCart(cart, CodeOf(b)) THEN 0 ELSE PriceIn(cart, b))
                             + (IF HasLink(CodeOf(b)) /\ ~LinkThere(cart, CodeOf(b))
                                THEN ItemAt(LinkCode(CodeOf(b))).price ELSE 0)
  BY DEF NotThere, LinkThere

\* A void of an item takes the price from the total if the item is there.
LEMMA VoidItemTakes ==
  ASSUME NEW cart \in C!CartRecord, C!Accepts(cart), NEW i \in ItemKeys, NEW b \in Labels,
         NEW d \in C!TotalKeys, d # 0, NEW p \in Int
  PROVE  LET after == C!RemoveItem(cart, i, b, d, p, 0)
         IN /\ after \in C!CartRecord /\ after.state = cart.state
            /\ TotalOf(after) = TotalOf(cart) - (IF C!InCart(cart, i) THEN p ELSE 0)
            /\ \A j \in ItemKeys :
                 C!InCart(after, j) <=> cart.goods.items[j] > (IF j = i THEN 1 ELSE 0)
<1> DEFINE after == C!RemoveItem(cart, i, b, d, p, 0)
           x == TotalOf(cart)
<1>1. x \in Int /\ cart.totals \in C!Totals /\ cart.goods.items \in [ItemKeys -> Nat]
  BY TotalOfInt, CartParts DEF C!Goods
<1>2. /\ after \in C!CartRecord /\ after.state = cart.state
      /\ C!InCart(cart, i) => /\ after.goods = C!TakeGoods(cart.goods, i, b)
                              /\ after.totals = C!Book(cart.totals, d, -1, p, 0)
      /\ ~C!InCart(cart, i) => after = cart
  BY RemoveItemParts
<1> HIDE DEF after
<1>3. CASE C!InCart(cart, i)
  <2>1. C!Book(cart.totals, d, -1, p, 0)[0].amount = cart.totals[0].amount - p
    BY <1>1, BookedDown
  <2>2. TotalOf(after) = x - p
    BY <1>2, <1>3, <2>1 DEF TotalOf
  <2>3. after.goods.items = [cart.goods.items EXCEPT ![i] = C!Erased(@)]
    BY <1>2, <1>3 DEF C!TakeGoods
  <2>4. ASSUME NEW j \in ItemKeys
        PROVE  C!InCart(after, j) <=> cart.goods.items[j] > (IF j = i THEN 1 ELSE 0)
    BY <1>1, <2>3 DEF C!InCart, C!Erased
  <2> QED BY <1>2, <1>3, <2>2, <2>4 DEF after
<1>4. CASE ~C!InCart(cart, i)
  <2>1. TotalOf(after) = x - 0
    BY <1>1, <1>2, <1>4
  <2>2. cart.goods.items[i] = 0
    BY <1>1, <1>4 DEF C!InCart
  <2>3. ASSUME NEW j \in ItemKeys
        PROVE  C!InCart(after, j) <=> cart.goods.items[j] > (IF j = i THEN 1 ELSE 0)
    BY <1>1, <1>2, <1>4, <2>2 DEF C!InCart
  <2> QED BY <1>2, <1>4, <2>1, <2>3 DEF after
<1> QED BY <1>3, <1>4

\* What a void takes is what it shows, without what was not there.
LEMMA VoidTakes ==
  ASSUME WellTyped, NEW cart \in C!CartRecord, C!Accepts(cart), NEW b \in Labels,
         OfADepartment(CodeOf(b))
  PROVE  /\ NotThere(cart, b) \in Int
         /\ TotalOf(Voided(cart, b)) = TotalOf(cart) + NotThere(cart, b)
                                       - PriceIn(cart, b) - LinkPrice(CodeOf(b))
<1> DEFINE code == CodeOf(b)
           d == ItemAt(code).department
           p == PriceIn(cart, b)
           gone == C!RemoveItem(cart, code, b, d, p, 0)
           j == LinkCode(code)
           c == LinkOf(code)
           e == ItemAt(j).department
           r == ItemAt(j).price
           both == C!RemoveItem(gone, j, c, e, r, 0)
           x == TotalOf(cart)
           y == IF C!InCart(cart, code) THEN p ELSE 0
           z == IF C!InCart(gone, j) THEN r ELSE 0
           n == NotThere(cart, b)
           l == LinkPrice(code)
<1>1. /\ code \in ItemKeys /\ d \in C!TotalKeys /\ j \in ItemKeys /\ c \in Labels
      /\ e \in C!TotalKeys /\ r \in Int
  BY CodeTypes DEF ItemRecord
<1>2. d # 0 /\ (HasLink(code) => e # 0)
  BY DEF OfADepartment
<1>3. Voided(cart, b) = IF HasLink(code) THEN both ELSE gone
  BY DEF Voided
<1>4. l = IF HasLink(code) THEN r ELSE 0
  BY DEF LinkPrice
<1>5. n = (IF C!InCart(cart, code) THEN 0 ELSE p)
          + (IF HasLink(code) /\ ~LinkThere(cart, code) THEN r ELSE 0)
  BY NotThereIs
<1>6. x \in Int /\ p \in Int
  BY TotalOfInt, PriceInType
<1>7. LinkThere(cart, code) <=> cart.goods.items[j] > (IF j = code THEN 1 ELSE 0)
  BY DEF LinkThere
<1>8. b \in Labels
  OBVIOUS
<1> HIDE DEF code, d, j, c, e, r, p, n, l
<1>9. /\ gone \in C!CartRecord /\ gone.state = cart.state
      /\ TotalOf(gone) = TotalOf(cart) - y
      /\ C!InCart(gone, j) <=> LinkThere(cart, code)
  BY <1>1, <1>2, <1>6, <1>7, <1>8, VoidItemTakes
<1> HIDE DEF gone
<1>10. CASE HasLink(code)
  <2>1. C!Accepts(gone)
    BY <1>9 DEF C!Accepts
  <2>2. TotalOf(both) = TotalOf(gone) - z
    BY <1>1, <1>2, <1>9, <1>10, <2>1, VoidItemTakes
  <2> HIDE DEF both, x
  <2>3. TotalOf(both) = x - y - z
    BY <1>9, <2>2 DEF x
  <2>4. n \in Int /\ x - y - z = x + n - p - l
    BY <1>1, <1>4, <1>5, <1>6, <1>9, <1>10
  <2> QED BY <1>3, <1>10, <2>3, <2>4 DEF n, p, l, x, code
<1>11. CASE ~HasLink(code)
  <2> HIDE DEF x
  <2>1. n \in Int /\ x - y = x + n - p - l
    BY <1>4, <1>5, <1>6, <1>11
  <2> QED BY <1>3, <1>9, <1>11, <2>1 DEF n, p, l, x, code
<1> QED BY <1>10, <1>11

LEMMA NothingSaid == Clear(<< >>) /\ Said(<< >>) = 0
<1> DEFINE e == << >>
<1>1. e \in Seq(Symbols) /\ Len(e) <= 3 /\ Unsigned(e) = e
  BY DEF Unsigned
<1>2. Clear(e)
  BY DEF Clear
<1> HIDE DEF e
<1>3. ~TwoDecimals(e)
  BY <1>1, NotTwo
<1>4. Said(e) = 0
  BY <1>3, Zenon DEF Said
<1> QED BY <1>2, <1>4 DEF e

\* What is read from the three texts of an answer that shows them all.
Shows(reply, v) ==
  (Clear(reply.price) /\ Clear(reply.linked) /\ Clear(reply.promo))
    => Said(reply.price) + Said(reply.linked) + Said(reply.promo) = v

AnswerFields == {"status", "price", "linked", "promo", "items", "amount"}

LEMMA TotalsShown ==
  ASSUME NEW cart, NEW rc
  PROVE  LET reply == WithTotals(cart, rc)
         IN /\ DOMAIN reply = AnswerFields
            /\ reply.price = << >> /\ reply.linked = << >> /\ reply.promo = << >>
            /\ reply.amount = Text(TotalOf(cart))
<1> DEFINE t == Text(cart.totals[0].amount)
           n == cart.totals[0].items
           s == Status(rc)
           e == << >>
<1>1. WithTotals(cart, rc) = [[status |-> s, price |-> e, linked |-> e, promo |-> e, items |-> 0,
                               amount |-> e] EXCEPT !.items = n, !.amount = t]
  BY DEF WithTotals, Only
<1> HIDE DEF t, n, s, e
<1>2. /\ DOMAIN WithTotals(cart, rc) = AnswerFields
      /\ WithTotals(cart, rc).price = e /\ WithTotals(cart, rc).linked = e
      /\ WithTotals(cart, rc).promo = e /\ WithTotals(cart, rc).amount = t
  BY <1>1 DEF AnswerFields
<1> QED BY <1>2 DEF t, e, TotalOf

LEMMA PricesShown ==
  ASSUME WellTyped, NEW cart, NEW rc, NEW code, NEW price \in Int
  PROVE  LET reply == WithPrices(WithTotals(cart, rc), code, price, HasLink(code))
         IN /\ DOMAIN reply = AnswerFields /\ reply.promo = << >>
            /\ reply.amount = Text(TotalOf(cart))
            /\ Clear(reply.price) /\ Clear(reply.linked)
                 => Said(reply.price) + Said(reply.linked) = price + LinkPrice(code)
<1> DEFINE first == WithTotals(cart, rc)
           more == ItemAt(LinkCode(code)).price
           l == LinkPrice(code)
           p == Text(price)
           m == Text(more)
           b == Text(price + more)
           e == << >>
           reply == WithPrices(first, code, price, HasLink(code))
<1>1. /\ DOMAIN first = AnswerFields /\ first.price = e /\ first.linked = e /\ first.promo = e
      /\ first.amount = Text(TotalOf(cart))
  BY TotalsShown
<1>2. more \in Int
  BY CodeTypes DEF ItemRecord
<1>3. /\ Clear(p) => Said(p) = price
      /\ Clear(m) => Said(m) = more
      /\ Clear(b) => Said(b) = price + more
  <2> HIDE DEF more
  <2>1. price + more \in Int
    BY <1>2
  <2> QED BY <1>2, <2>1, TextSays
<1>4. Clear(e) /\ Said(e) = 0
  BY NothingSaid
<1>5. l = IF HasLink(code) THEN more ELSE 0
  BY DEF LinkPrice
<1>6. SeparateLinked \in BOOLEAN
  BY ItemRequestsAssumption
<1>7. \/ HasLink(code) /\ reply = [first EXCEPT !.price = p, !.linked = m]
      \/ HasLink(code) /\ reply = [first EXCEPT !.price = b]
      \/ ~HasLink(code) /\ reply = [first EXCEPT !.price = p]
  BY <1>6 DEF WithPrices
<1> HIDE DEF first, more, l, p, m, b, e, reply
<1>8. /\ DOMAIN reply = AnswerFields /\ reply.promo = e /\ reply.amount = Text(TotalOf(cart))
      /\ \/ HasLink(code) /\ reply.price = p /\ reply.linked = m
         \/ HasLink(code) /\ reply.price = b /\ reply.linked = e
         \/ ~HasLink(code) /\ reply.price = p /\ reply.linked = e
  BY <1>1, <1>7 DEF AnswerFields
<1>9. Clear(reply.price) /\ Clear(reply.linked)
        => Said(reply.price) + Said(reply.linked) = price + l
  BY <1>2, <1>3, <1>4, <1>5, <1>8
<1> QED BY <1>8, <1>9 DEF reply, first, l, e

LEMMA PromoShown ==
  ASSUME NEW reply, DOMAIN reply = AnswerFields, reply.promo = << >>, NEW promo,
         AsSigned(promo) \in Int, NEW v \in Int,
         Clear(reply.price) /\ Clear(reply.linked)
           => Said(reply.price) + Said(reply.linked) = v
  PROVE  /\ Shows(WithPromo(reply, promo), v - AsSigned(promo))
         /\ WithPromo(reply, promo).amount = reply.amount
<1> DEFINE q == AsSigned(promo)
           s == <<Minus>> \o Text(q)
           e == << >>
           out == WithPromo(reply, promo)
<1>1. CASE promo = 0
  <2>1. out = reply
    BY <1>1 DEF WithPromo
  <2>2. q = 0
    <3>1. Word \in Nat /\ Word > 0
      BY WordAssumption
    <3> QED BY <1>1, <3>1 DEF AsSigned
  <2>3. Said(reply.promo) = 0
    BY NothingSaid
  <2> HIDE DEF q, out
  <2>4. Shows(reply, v - q)
    BY <2>2, <2>3 DEF Shows
  <2> QED BY <2>1, <2>4 DEF q, out
<1>2. CASE promo # 0
  <2>1. out = [reply EXCEPT !.promo = s]
    BY <1>2 DEF WithPromo
  <2>2. q \in Int
    BY DEF q
  <2> HIDE DEF q
  <2>3. Clear(s) => Said(s) = -q
    BY <2>2, TextSays
  <2> HIDE DEF s, out
  <2>4. /\ out.price = reply.price /\ out.linked = reply.linked /\ out.promo = s
        /\ out.amount = reply.amount
    BY <2>1 DEF AnswerFields
  <2>5. Shows(out, v - q)
    BY <2>2, <2>3, <2>4 DEF Shows
  <2> QED BY <2>4, <2>5 DEF q, out
<1> QED BY <1>1, <1>2

\* A promotion is nothing else: without one the answer says the price.
LEMMA UnpromotedShown ==
  ASSUME NEW reply, reply.promo = << >>, NEW v \in Int,
         Clear(reply.price) /\ Clear(reply.linked)
           => Said(reply.price) + Said(reply.linked) = v
  PROVE  Shows(reply, v)
BY NothingSaid DEF Shows

LEMMA AmountShown ==
  ASSUME NEW cart, NEW rc, NEW code, NEW price, NEW linked, NEW promo
  PROVE  /\ WithPrices(WithTotals(cart, rc), code, price, linked).amount = Text(TotalOf(cart))
         /\ WithPromo(WithPrices(WithTotals(cart, rc), code, price, linked), promo).amount
              = Text(TotalOf(cart))
<1> DEFINE first == WithTotals(cart, rc)
           reply == WithPrices(first, code, price, linked)
           t == Text(TotalOf(cart))
<1>1. DOMAIN first = AnswerFields /\ first.amount = t
  BY TotalsShown
<1> HIDE DEF first, t
<1>2. DOMAIN reply = AnswerFields /\ reply.amount = t
  <2>1. \/ \E p : reply = [first EXCEPT !.price = p]
        \/ \E p, m : reply = [first EXCEPT !.price = p, !.linked = m]
    <3>1. CASE linked /\ SeparateLinked
      BY <3>1 DEF WithPrices
    <3>2. CASE linked /\ ~SeparateLinked
      BY <3>2 DEF WithPrices
    <3>3. CASE ~linked
      BY <3>3 DEF WithPrices
    <3> QED BY <3>1, <3>2, <3>3
  <2> HIDE DEF reply
  <2> QED BY <1>1, <2>1 DEF AnswerFields
<1> HIDE DEF reply
<1>3. WithPromo(reply, promo).amount = t
  BY <1>2 DEF WithPromo, AnswerFields
<1> QED BY <1>2, <1>3 DEF reply, first, t

LEMMA AskedKeeps ==
  ASSUME WellTyped, session # NoSession
  PROVE  /\ Asked.state = session.state /\ Asked.goods = session.goods
         /\ Asked.totals = session.totals /\ Asked.local = session.local
  BY AskedType DEF C!CartRecord, Asked, C!GetNextRequestId

LEMMA AddItemShows ==
  ASSUME WellTyped, session # NoSession, NEW action, NEW b \in Labels, AddItem(action, b)
  PROVE  /\ answer'.amount = Text(TotalOf(session'))
         /\ ~C!Accepts(session) => TotalOf(session') = TotalOf(session)
         /\ C!Accepts(session) /\ OfADepartment(CodeOf(b))
              => Shows(answer', TotalOf(session') - TotalOf(session))
<1> DEFINE code == CodeOf(b)
           open == C!Accepts(session)
           p == PriceIn(Copied(session, code), b)
           rc == IF open THEN "RC_OK" ELSE "CART_STATE_VOIDED"
           linked == open /\ HasLink(code)
<1>1. PICK promo \in PromosFor(code, p) :
        /\ session' = IF open THEN Sold(Asked, b, promo) ELSE Copied(Asked, code)
        /\ answer' = WithPromo(WithPrices(WithTotals(session', rc), code, p, linked), promo)
  BY DEF AddItem
<1>2. answer'.amount = Text(TotalOf(session'))
  <2> HIDE DEF code, p, rc, linked
  <2> QED BY <1>1, AmountShown
<1>3. ASSUME open, OfADepartment(code)
      PROVE  Shows(answer', TotalOf(session') - TotalOf(session))
  <2> DEFINE q == AsSigned(promo)
             l == LinkPrice(code)
             reply == WithPrices(WithTotals(session', rc), code, p, HasLink(code))
  <2>1. session \in C!CartRecord /\ Asked \in C!CartRecord
    BY AskedType
  <2>2. p \in Int
    BY <2>1, CopiedParts, PriceInType
  <2>3. q \in Int
    BY <2>2, PromosType
  <2>4. l \in Int
    BY CodeTypes DEF LinkPrice, ItemRecord
  <2>5. PriceIn(Copied(Asked, code), b) = p
    <3>1. Asked.local = session.local
      BY AskedKeeps
    <3>2. PriceChanges \/ Copied(Asked, code).local = Copied(session, code).local
      BY <2>1, <3>1 DEF Copied, C!UpdateLocalItemMap, C!CartRecord
    <3> QED BY <3>2, PriceFollowsCopy
  <2>6. TotalOf(session') = TotalOf(session) + (p - q) + l
    <3>1. C!Accepts(Asked) /\ TotalOf(Asked) = TotalOf(session)
      BY <1>3, AskedKeeps DEF C!Accepts, TotalOf
    <3>2. TotalOf(Sold(Asked, b, promo))
            = TotalOf(Asked) + (PriceIn(Copied(Asked, code), b) - q) + l
      BY <1>3, <2>1, <2>3, <3>1, SaleAdds
    <3> QED BY <1>1, <1>3, <2>5, <3>1, <3>2
  <2>7. TotalOf(session) \in Int
    BY <2>1, TotalOfInt
  <2>8. answer' = WithPromo(reply, promo)
    <3>1. linked = HasLink(code)
      BY <1>3 DEF HasLink
    <3> QED BY <1>1, <3>1
  <2>9. /\ DOMAIN reply = AnswerFields /\ reply.promo = << >>
        /\ Clear(reply.price) /\ Clear(reply.linked)
             => Said(reply.price) + Said(reply.linked) = p + l
    BY <2>2, PricesShown
  <2> HIDE DEF reply, l, p
  <2>10. p + l \in Int
    BY <2>2, <2>4
  <2>11. Shows(answer', (p + l) - q)
    BY <2>3, <2>8, <2>9, <2>10, PromoShown
  <2> HIDE DEF q
  <2>12. (p + l) - q = TotalOf(session') - TotalOf(session)
    BY <2>2, <2>3, <2>4, <2>6, <2>7
  <2> QED BY <2>11, <2>12
<1>4. ~open => TotalOf(session') = TotalOf(session)
  <2>1. Asked \in C!CartRecord
    BY AskedType
  <2>2. Copied(Asked, code).totals = Asked.totals
    BY <2>1, CopiedParts
  <2> HIDE DEF code, p, rc, linked
  <2> QED BY <1>1, <2>2, AskedKeeps DEF TotalOf
<1> QED BY <1>2, <1>3, <1>4

LEMMA VoidItemShows ==
  ASSUME WellTyped, session # NoSession, NEW action, NEW b \in Labels, VoidItem(action, b),
         answer'.amount # << >>
  PROVE  /\ answer'.amount = Text(TotalOf(session'))
         /\ ~C!Accepts(session) => TotalOf(session') = TotalOf(session)
         /\ C!Accepts(session) /\ OfADepartment(CodeOf(b))
              => /\ NotThere(session, b) \in Int
                 /\ Shows(answer', NotThere(session, b) - (TotalOf(session') - TotalOf(session)))
<1> DEFINE code == CodeOf(b)
           open == C!Accepts(session)
           isItem == ItemAt(code).code = code
           p == PriceIn(session, b)
           rc == IF open THEN "RC_OK" ELSE "CART_STATE_VOIDED"
           linked == open /\ HasLink(code)
<1>1. isItem
  <2>1. Only("BCODE_ITEM_NOT_FOUND").amount = << >>
    BY DEF Only
  <2> QED BY <2>1 DEF VoidItem
<1>2. /\ session' = IF open THEN Voided(Asked, b) ELSE Asked
      /\ answer' = WithPrices(WithTotals(session', rc), code, p, linked)
  BY <1>1 DEF VoidItem
<1>3. answer'.amount = Text(TotalOf(session'))
  <2> HIDE DEF code, p, rc, linked
  <2> QED BY <1>2, AmountShown
<1>4. ASSUME open, OfADepartment(code)
      PROVE  /\ NotThere(session, b) \in Int
             /\ Shows(answer', NotThere(session, b) - (TotalOf(session') - TotalOf(session)))
  <2> DEFINE l == LinkPrice(code)
             n == NotThere(session, b)
             reply == WithPrices(WithTotals(session', rc), code, p, HasLink(code))
  <2>1. session \in C!CartRecord /\ Asked \in C!CartRecord
    BY AskedType
  <2>2. p \in Int
    BY <2>1, PriceInType
  <2>3. l \in Int
    BY CodeTypes DEF LinkPrice, ItemRecord
  <2>4. PriceIn(Asked, b) = p
    <3>1. Asked.local = session.local
      BY AskedKeeps
    <3> QED BY <3>1, PriceFollowsCopy
  <2>5. n \in Int /\ TotalOf(session') = TotalOf(session) + n - p - l
    <3>1. C!Accepts(Asked) /\ TotalOf(Asked) = TotalOf(session) /\ Asked.goods = session.goods
      BY <1>4, AskedKeeps DEF C!Accepts, TotalOf
    <3>2. NotThere(Asked, b) = n
      BY <2>4, <3>1, NotThereIs DEF LinkThere, C!InCart
    <3>3. /\ NotThere(Asked, b) \in Int
          /\ TotalOf(Voided(Asked, b)) = TotalOf(Asked) + NotThere(Asked, b) - PriceIn(Asked, b) - l
      BY <1>4, <2>1, <3>1, VoidTakes
    <3> QED BY <1>2, <1>4, <2>4, <3>1, <3>2, <3>3
  <2>6. TotalOf(session) \in Int
    BY <2>1, TotalOfInt
  <2>7. answer' = reply
    <3>1. linked = HasLink(code)
      BY <1>4 DEF HasLink
    <3> QED BY <1>2, <3>1
  <2>8. /\ reply.promo = << >>
        /\ Clear(reply.price) /\ Clear(reply.linked)
             => Said(reply.price) + Said(reply.linked) = p + l
    BY <2>2, PricesShown
  <2> HIDE DEF reply, l, p, n
  <2>9. p + l \in Int
    BY <2>2, <2>3
  <2>10. Shows(answer', p + l)
    BY <2>7, <2>8, <2>9, UnpromotedShown
  <2>11. p + l = n - (TotalOf(session') - TotalOf(session))
    BY <2>2, <2>3, <2>5, <2>6
  <2> QED BY <2>5, <2>10, <2>11 DEF n
<1>5. ~open => TotalOf(session') = TotalOf(session)
  BY <1>2, AskedKeeps DEF TotalOf
<1> QED BY <1>3, <1>4, <1>5

\* What the amount to pay says.
TotalSays(cart, t) == TotalOf(cart) \notin Misread => Clear(t) /\ Said(t) = TotalOf(cart)

LEMMA TotalIsSaid ==
  ASSUME NEW cart \in C!CartRecord
  PROVE  TotalSays(cart, Text(TotalOf(cart)))
<1> DEFINE v == TotalOf(cart)
<1>1. v \in Int
  BY TotalOfInt
<1> HIDE DEF v
<1>2. /\ Clear(Text(v)) => Said(Text(v)) = v
      /\ v \notin Misread => Clear(Text(v))
  BY <1>1, TextSays DEF Misread
<1> QED BY <1>2, Zenon DEF TotalSays, v

\* The step of ShownAddsUp.
AddsUp ==
  answer'.amount # << >> =>
    LET b == BarcodeIn(called'.params)
        moved == TotalOf(session') - TotalOf(session)
        changes == C!Accepts(session) /\ called'.action \in {"addItem", "voidItem"}
    IN /\ TotalOf(session') \notin Misread
            => Clear(answer'.amount) /\ Said(answer'.amount) = TotalOf(session')
       /\ ~changes => moved = 0
       /\ changes /\ OfADepartment(CodeOf(b)) /\ AllClear =>
            moved = IF called'.action = "addItem" THEN SumShown
                    ELSE NotThere(session, b) - SumShown

LEMMA OnlyShowsNothing == \A rc : Only(rc).amount = << >>
  BY DEF Only

LEMMA PerformAddsUp ==
  ASSUME WellTyped, NEW action, NEW params, Perform(action, params),
         called'.action = action, called'.params = params
  PROVE  AddsUp
<1> DEFINE b == BarcodeIn(params)
           code == CodeOf(b)
           open == C!Accepts(session)
           x == TotalOf(session)
           y == TotalOf(session')
           n == NotThere(session, b)
<1>0. b \in Labels
  BY BarcodeInType
<1>1. SUFFICES
        ASSUME answer'.amount # << >>
        PROVE  /\ x \in Int /\ y \in Int /\ TotalSays(session', answer'.amount)
               /\ \/ action = "addItem" /\ (open /\ OfADepartment(code) => Shows(answer', y - x))
                  \/ /\ action = "voidItem"
                     /\ open /\ OfADepartment(code) => n \in Int /\ Shows(answer', n - (y - x))
                  \/ action = "getTotals" /\ y = x
               /\ ~open => y = x
  <2> SUFFICES ASSUME answer'.amount # << >>
               PROVE  /\ y \notin Misread => Clear(answer'.amount) /\ Said(answer'.amount) = y
                      /\ ~(open /\ action \in {"addItem", "voidItem"}) => y - x = 0
                      /\ open /\ action \in {"addItem", "voidItem"} /\ OfADepartment(code) /\ AllClear =>
                           y - x = IF action = "addItem" THEN SumShown ELSE n - SumShown
    BY DEF AddsUp
  <2> DEFINE s == SumShown
  <2>1. x \in Int /\ y \in Int /\ (~open => y = x) /\ TotalSays(session', answer'.amount)
    BY <1>1
  <2>2. y \notin Misread => Clear(answer'.amount) /\ Said(answer'.amount) = y
    BY <2>1 DEF TotalSays
  <2>3. \A v : Shows(answer', v) /\ AllClear => s = v
    BY DEF Shows, AllClear, SumShown
  <2>4. \/ action = "addItem" /\ (open /\ OfADepartment(code) /\ AllClear => s = y - x)
        \/ /\ action = "voidItem"
           /\ open /\ OfADepartment(code) /\ AllClear => n \in Int /\ s = n - (y - x)
        \/ action = "getTotals" /\ y = x
    BY <1>1, <2>3, Zenon
  <2> HIDE DEF x, y, s, n, open, code
  <2>5. ~(open /\ action \in {"addItem", "voidItem"}) => y - x = 0
    BY <2>1, <2>4
  <2>6. open /\ action \in {"addItem", "voidItem"} /\ OfADepartment(code) /\ AllClear =>
          y - x = IF action = "addItem" THEN s ELSE n - s
    BY <2>1, <2>4
  <2> QED BY <2>2, <2>5, <2>6 DEF s
<1> HIDE DEF b
<1>2. ~(\/ InitSession(action) \/ NoSessionAsked(action) \/ UnknownSession(action)
        \/ Query(action) \/ VoidTransaction(action) \/ RefuseItem(action, b))
  BY <1>1, OnlyShowsNothing
     DEF InitSession, NoSessionAsked, UnknownSession, Query, VoidTransaction, RefuseItem
<1>3. ~ItemInfo(action, b)
  <2>1. \A p : [Only("RC_OK") EXCEPT !.price = p].amount = << >>
    BY DEF Only
  <2> QED BY <1>1, <2>1, OnlyShowsNothing DEF ItemInfo
<1>4. /\ session # NoSession
      /\ GetTotals(action) \/ AddItem(action, b) \/ VoidItem(action, b)
  BY <1>2, <1>3 DEF Perform, Finds, b
<1>5. session \in C!CartRecord /\ x \in Int
  BY <1>4, AskedType, TotalOfInt
<1>6. CASE GetTotals(action)
  <2>1. /\ action = "getTotals" /\ session' = Asked
        /\ answer'.amount = Text(x)
    BY <1>6, TotalsShown DEF GetTotals
  <2>2. y = x
    BY <1>4, <2>1, AskedKeeps DEF TotalOf
  <2>3. TotalSays(session, answer'.amount)
    BY <1>5, <2>1, TotalIsSaid
  <2>4. TotalSays(session', answer'.amount)
    BY <2>2, <2>3 DEF TotalSays
  <2> HIDE DEF x, y, n, open, code
  <2> QED BY <1>5, <2>1, <2>2, <2>4, Zenon
<1>7. CASE AddItem(action, b)
  <2>1. session' \in C!CartRecord
    BY <1>0, <1>4, <1>7, AddItemTypes DEF b
  <2>2. action = "addItem"
    BY <1>7 DEF AddItem
  <2>3. /\ answer'.amount = Text(y)
        /\ ~open => y = x
        /\ open /\ OfADepartment(code) => Shows(answer', y - x)
    BY <1>0, <1>4, <1>7, AddItemShows DEF b
  <2>4. y \in Int /\ TotalSays(session', answer'.amount)
    BY <2>1, <2>3, TotalIsSaid, TotalOfInt
  <2> HIDE DEF x, y, n, open, code
  <2> QED BY <1>5, <2>2, <2>3, <2>4, Zenon
<1>8. CASE VoidItem(action, b)
  <2>1. session' \in C!CartRecord
    BY <1>0, <1>4, <1>8, VoidItemTypes DEF b
  <2>2. action = "voidItem"
    BY <1>8 DEF VoidItem
  <2>3. /\ answer'.amount = Text(y)
        /\ ~open => y = x
        /\ open /\ OfADepartment(code) => n \in Int /\ Shows(answer', n - (y - x))
    BY <1>0, <1>1, <1>4, <1>8, VoidItemShows DEF b
  <2>4. y \in Int /\ TotalSays(session', answer'.amount)
    BY <2>1, <2>3, TotalIsSaid, TotalOfInt
  <2> HIDE DEF x, y, n, open, code
  <2> QED BY <1>5, <2>2, <2>3, <2>4, Zenon
<1> QED BY <1>4, <1>6, <1>7, <1>8

LEMMA HandleAddsUp ==
  ASSUME WellTyped, NEW u, Handle(u)
  PROVE  AddsUp
<1>1. CASE Acceptable(u)
  <2> DEFINE call == [action |-> ActionOf(RequestPath(u)), params |-> ParamsOf(RequestPath(u))]
  <2>1. called' = call /\ Perform(call.action, call.params)
    BY <1>1 DEF Handle
  <2> HIDE DEF call
  <2> QED BY <2>1, PerformAddsUp
<1>2. CASE ~Acceptable(u)
  <2>1. answer'.amount = << >>
    BY <1>2, OnlyShowsNothing DEF Handle
  <2> QED BY <2>1 DEF AddsUp
<1> QED BY <1>1, <1>2

\* For every archive, promotion and sequence of requests and variations: the
\* amount to pay that is shown is the session's, and what has moved it is the
\* prices and the promotion shown with it, less what a void did not find; but
\* for amounts of 1 to 9 cents and -99 to -1, whose texts say something else,
\* and for sales and voids of items of department 0, which are booked twice.
THEOREM ShownAmountsAddUp == Spec => ShownAddsUp
<1>1. Spec => [](WellTyped /\ MapFollowsRows)
  BY WellTypedInit, WellTypedStep, MapInit, MapStep, PTL DEF Spec
<1>2. WellTyped /\ [Next]_vars => [requests' # requests => AddsUp]_vars
  <2> SUFFICES ASSUME WellTyped, Next, requests' # requests
               PROVE  AddsUp
    OBVIOUS
  <2>1. ~ReadRow /\ ~PriceVariation
    BY DEF ReadRow, PriceVariation
  <2>2. \E u : Handle(u)
    BY <2>1 DEF Next, Stray
  <2> QED BY <2>2, HandleAddsUp
<1> QED BY <1>1, <1>2, PTL DEF Spec, ShownAddsUp, AddsUp

=============================================================================
