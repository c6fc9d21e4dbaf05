---------------------------- MODULE AmountProofs -----------------------------
(***************************************************************************)
(* The sums of BaseSystem: counters, totals and departments' rows, and the *)
(* files of the pay stations.                                              *)
(*                                                                         *)
(* The first part is about SumFunctionOnSet itself.  An induction over a   *)
(* finite set is a choice of a smallest counterexample among its subsets.  *)
(***************************************************************************)
EXTENDS SessionProofs

-----------------------------------------------------------------------------
(* Sums over finite sets. *)

\* Among some subsets of a finite set there is a smallest one.
LEMMA SmallestSubset ==
  ASSUME NEW S, IsFiniteSet(S), NEW Bad \in SUBSET (SUBSET S), Bad # {}
  PROVE  \E T \in Bad : \A U \in SUBSET T : U # T => U \notin Bad
<1> DEFINE R == StrictSubsetOrdering(S)
<1>1. FiniteSubsetsOf(S) = SUBSET S
  BY FS_FiniteSubsetsOfFinite
<1>2. IsWellFoundedOn(R, SUBSET S)
  BY <1>1, FS_StrictSubsetOrderingWellFounded
<1> HIDE DEF R
<1>3. PICK T \in Bad : \A U \in Bad : ~(<<U, T>> \in R)
  BY <1>2, WFMin
<1>4. ASSUME NEW U \in SUBSET T, U # T
      PROVE  U \notin Bad
  <2>1. <<U, T>> \in R
    BY <1>4 DEF R, StrictSubsetOrdering
  <2> QED BY <1>3, <2>1
<1> QED BY <1>4

Pick(s) == CHOOSE x \in s : TRUE

\* g is the sum of f over the subsets of S, as the fold defines it.
Folds(g, f, S) ==
  g = [s \in SUBSET S |-> IF s = {} THEN 0 ELSE f[Pick(s)] + g[s \ {Pick(s)}]]

LEMMA SumDef == \A f, S : SumFunctionOnSet(f, S) = (CHOOSE g : Folds(g, f, S))[S]
  BY DEF SumFunctionOnSet, FoldFunctionOnSet, MapThenFoldSet, Folds, Pick

LEMMA PickIn == \A s : s # {} => Pick(s) \in s
  BY DEF Pick

\* Two such functions agree on the subsets they share.
LEMMA FoldsAgree ==
  ASSUME NEW S, NEW T, IsFiniteSet(S), NEW f, NEW g, NEW h,
         Folds(g, f, S), Folds(h, f, T), NEW U \in SUBSET S, U \subseteq T
  PROVE  g[U] = h[U]
<1> DEFINE Bad == {V \in SUBSET S : V \subseteq T /\ g[V] # h[V]}
<1> SUFFICES ASSUME Bad # {} PROVE FALSE
  OBVIOUS
<1>1. PICK V \in Bad : \A W \in SUBSET V : W # V => W \notin Bad
  BY SmallestSubset
<1>2. V # {}
  BY <1>1 DEF Folds
<1>3. Pick(V) \in V
  BY <1>2, PickIn
<1>4. g[V \ {Pick(V)}] = h[V \ {Pick(V)}]
  BY <1>1, <1>3
<1>5. g[V] = f[Pick(V)] + g[V \ {Pick(V)}] /\ h[V] = f[Pick(V)] + h[V \ {Pick(V)}]
  BY <1>1, <1>2 DEF Folds
<1> QED BY <1>1, <1>4, <1>5

\* There is such a function over every finite set.
LEMMA FoldsExist ==
  ASSUME NEW S, IsFiniteSet(S), NEW f
  PROVE  \E g : Folds(g, f, S)
<1> DEFINE Bad == {T \in SUBSET S : ~\E g : Folds(g, f, T)}
           G(T) == CHOOSE g : Folds(g, f, T)
<1> SUFFICES ASSUME Bad # {} PROVE FALSE
  OBVIOUS
<1>0. Bad \in SUBSET (SUBSET S)
  OBVIOUS
<1> HIDE DEF Bad
<1>1. PICK T \in Bad : \A U \in SUBSET T : U # T => U \notin Bad
  BY <1>0, SmallestSubset
<1> USE DEF Bad
<1>2. \A U \in SUBSET T : U # T => Folds(G(U), f, U)
  BY <1>1
<1>3. \A U \in SUBSET T : IsFiniteSet(U)
  BY <1>1, FS_Subset
<1> HIDE DEF G
<1> DEFINE rest(s) == s \ {Pick(s)}
           h == [s \in SUBSET T |-> IF s = {} THEN 0 ELSE f[Pick(s)] + G(rest(s))[rest(s)]]
<1>4. ASSUME NEW s \in SUBSET T, s # T
      PROVE  h[s] = G(s)[s]
  <2>1. Folds(G(s), f, s)
    BY <1>2, <1>4
  <2>2. CASE s = {}
    BY <2>1, <2>2 DEF Folds
  <2>3. CASE s # {}
    <3>1. rest(s) \in SUBSET s /\ rest(s) \in SUBSET T /\ rest(s) # T
      BY <1>4
    <3>2. Folds(G(rest(s)), f, rest(s))
      BY <1>2, <3>1
    <3> HIDE DEF rest
    <3>3. G(rest(s))[rest(s)] = G(s)[rest(s)]
      BY <1>3, <2>1, <3>1, <3>2, FoldsAgree
    <3> USE DEF rest
    <3>4. G(s)[s] = f[Pick(s)] + G(s)[rest(s)]
      BY <2>1, <2>3 DEF Folds
    <3> QED BY <2>3, <3>3, <3>4
  <2> QED BY <2>2, <2>3
<1>5. ASSUME NEW s \in SUBSET T, s # {}
      PROVE  rest(s) \in SUBSET T /\ rest(s) # T
  BY <1>5, PickIn
<1>6. ASSUME NEW s \in SUBSET T, s # {}
      PROVE  h[s] = f[Pick(s)] + h[rest(s)]
  <2>1. h[s] = f[Pick(s)] + G(rest(s))[rest(s)]
    BY <1>6
  <2> HIDE DEF rest, h
  <2> QED BY <1>4, <1>5, <1>6, <2>1
<1>7. h[{}] = 0
  OBVIOUS
<1>8. h = [s \in SUBSET T |-> IF s = {} THEN 0 ELSE f[Pick(s)] + h[rest(s)]]
  BY <1>6, <1>7
<1>9. Folds(h, f, T)
  BY <1>8 DEF Folds
<1> QED BY <1>1, <1>9

\* What the fold computes, one element at a time.
LEMMA SumUnfolds ==
  ASSUME NEW S, IsFiniteSet(S), NEW f
  PROVE  /\ SumFunctionOnSet(f, {}) = 0
         /\ S # {} => SumFunctionOnSet(f, S)
                        = f[Pick(S)] + SumFunctionOnSet(f, S \ {Pick(S)})
<1> DEFINE G(T) == CHOOSE g : Folds(g, f, T)
<1>1. \A T : IsFiniteSet(T) => Folds(G(T), f, T)
  BY FoldsExist
<1>2. \A T : SumFunctionOnSet(f, T) = G(T)[T]
  BY SumDef
<1> HIDE DEF G
<1>3. SumFunctionOnSet(f, {}) = 0
  <2>1. Folds(G({}), f, {})
    BY <1>1, FS_EmptySet
  <2> QED BY <1>2, <2>1 DEF Folds
<1>4. ASSUME S # {}
      PROVE  SumFunctionOnSet(f, S) = f[Pick(S)] + SumFunctionOnSet(f, S \ {Pick(S)})
  <2> DEFINE R == S \ {Pick(S)}
  <2>1. IsFiniteSet(R) /\ R \in SUBSET S
    BY FS_Subset
  <2>2. G(S)[S] = f[Pick(S)] + G(S)[R]
    BY <1>1, <1>4 DEF Folds
  <2> HIDE DEF R
  <2>3. G(S)[R] = G(R)[R]
    BY <1>1, <2>1, FoldsAgree
  <2> QED BY <1>2, <2>2, <2>3 DEF R
<1> QED BY <1>3, <1>4

LEMMA SumType ==
  ASSUME NEW S, IsFiniteSet(S), NEW f, \A x \in S : f[x] \in Int
  PROVE  SumFunctionOnSet(f, S) \in Int
<1> DEFINE Bad == {T \in SUBSET S : SumFunctionOnSet(f, T) \notin Int}
<1> SUFFICES ASSUME Bad # {} PROVE FALSE
  OBVIOUS
<1>1. Bad \in SUBSET (SUBSET S)
  OBVIOUS
<1> HIDE DEF Bad
<1>2. PICK T \in Bad : \A U \in SUBSET T : U # T => U \notin Bad
  BY <1>1, SmallestSubset
<1> USE DEF Bad
<1>3. IsFiniteSet(T)
  BY <1>2, FS_Subset
<1>4. T # {}
  <2>1. SumFunctionOnSet(f, {}) = 0
    BY <1>3, SumUnfolds
  <2>2. SumFunctionOnSet(f, T) \notin Int
    BY <1>2
  <2> QED BY <2>1, <2>2
<1>5. Pick(T) \in T
  BY <1>4, PickIn
<1>6. SumFunctionOnSet(f, T \ {Pick(T)}) \in Int
  BY <1>2, <1>5
<1>7. f[Pick(T)] \in Int
  BY <1>5
<1>8. SumFunctionOnSet(f, T) = f[Pick(T)] + SumFunctionOnSet(f, T \ {Pick(T)})
  BY <1>3, <1>4, SumUnfolds
<1> QED BY <1>2, <1>6, <1>7, <1>8

\* Any element can be taken out first.
LEMMA SumSplits ==
  ASSUME NEW S, IsFiniteSet(S), NEW f, \A x \in S : f[x] \in Int, NEW e \in S
  PROVE  SumFunctionOnSet(f, S) = f[e] + SumFunctionOnSet(f, S \ {e})
<1> DEFINE Sum(T) == SumFunctionOnSet(f, T)
           Bad == {T \in SUBSET S : \E x \in T : Sum(T) # f[x] + Sum(T \ {x})}
<1> SUFFICES ASSUME Bad # {} PROVE FALSE
  OBVIOUS
<1>1. Bad \in SUBSET (SUBSET S)
  OBVIOUS
<1>2. \A T \in SUBSET S : IsFiniteSet(T) /\ Sum(T) \in Int
  BY FS_Subset, SumType
<1>3. \A T \in SUBSET S : T # {} => Sum(T) = f[Pick(T)] + Sum(T \ {Pick(T)})
  BY <1>2, SumUnfolds
<1> HIDE DEF Bad, Sum
<1>4. PICK T \in Bad : \A U \in SUBSET T : U # T => U \notin Bad
  BY <1>1, SmallestSubset
<1>5. PICK x \in T : T \in SUBSET S /\ Sum(T) # f[x] + Sum(T \ {x})
  BY <1>4 DEF Bad
<1> DEFINE c == Pick(T)
<1>6. c \in T /\ Sum(T) = f[c] + Sum(T \ {c})
  BY <1>3, <1>5, PickIn
<1> HIDE DEF c
<1>7. x # c
  BY <1>5, <1>6
<1>8. ASSUME NEW y \in T, NEW z \in T \ {y}
      PROVE  Sum(T \ {y}) = f[z] + Sum((T \ {y}) \ {z})
  <2>1. T \ {y} \in SUBSET T /\ T \ {y} # T /\ T \ {y} \in SUBSET S
    BY <1>5
  <2>2. T \ {y} \notin Bad
    BY <1>4, <2>1
  <2> QED BY <2>1, <2>2 DEF Bad
<1>9. /\ Sum(T \ {c}) = f[x] + Sum((T \ {c}) \ {x})
      /\ Sum(T \ {x}) = f[c] + Sum((T \ {x}) \ {c})
  BY <1>6, <1>7, <1>8
<1>10. (T \ {c}) \ {x} = (T \ {x}) \ {c} /\ (T \ {c}) \ {x} \in SUBSET S
  BY <1>5
<1>11. f[x] \in Int /\ f[c] \in Int /\ Sum((T \ {c}) \ {x}) \in Int
  BY <1>2, <1>5, <1>6, <1>10
<1>12. Sum(T \ {x}) = f[c] + Sum((T \ {c}) \ {x})
  BY <1>9, <1>10
<1> QED BY <1>5, <1>6, <1>9, <1>11, <1>12

\* The elements f counts as nothing may be left out.
LEMMA SumOnSupport ==
  ASSUME NEW S, IsFiniteSet(S), NEW A \in SUBSET S, NEW f, NEW g,
         \A x \in S : g[x] \in Int,
         \A x \in A : f[x] = g[x], \A x \in S \ A : g[x] = 0
  PROVE  SumFunctionOnSet(f, A) = SumFunctionOnSet(g, S)
<1> DEFINE Bad == {T \in SUBSET S : SumFunctionOnSet(f, T \cap A) # SumFunctionOnSet(g, T)}
<1> SUFFICES ASSUME Bad # {} PROVE FALSE
  <2>1. S \cap A = A
    OBVIOUS
  <2> QED BY <2>1
<1>1. Bad \in SUBSET (SUBSET S)
  OBVIOUS
<1> HIDE DEF Bad
<1>2. PICK T \in Bad : \A U \in SUBSET T : U # T => U \notin Bad
  BY <1>1, SmallestSubset
<1>3. T \in SUBSET S /\ SumFunctionOnSet(f, T \cap A) # SumFunctionOnSet(g, T)
  BY <1>2 DEF Bad
<1>4. IsFiniteSet(T) /\ IsFiniteSet(T \cap A)
  BY <1>3, FS_Subset
<1>5. T # {}
  <2>1. {} \cap A = {}
    OBVIOUS
  <2> QED BY <1>3, <1>4, <2>1, SumUnfolds
<1>6. PICK x \in T : TRUE
  BY <1>5
<1> DEFINE U == T \ {x}
<1>7. U \in SUBSET T /\ U # T /\ U \in SUBSET S
  BY <1>3, <1>6
<1>8. SumFunctionOnSet(f, U \cap A) = SumFunctionOnSet(g, U)
  BY <1>2, <1>7 DEF Bad
<1>9. SumFunctionOnSet(g, T) = g[x] + SumFunctionOnSet(g, U)
  BY <1>3, <1>4, <1>6, SumSplits
<1>10. g[x] \in Int /\ SumFunctionOnSet(g, U) \in Int
  <2>1. IsFiniteSet(U)
    BY <1>7, FS_Subset
  <2> QED BY <1>3, <1>6, <1>7, <2>1, SumType
<1>11. CASE x \in A
  <2>1. x \in T \cap A /\ (T \cap A) \ {x} = U \cap A
    BY <1>11
  <2>2. \A y \in T \cap A : f[y] \in Int
    BY <1>3
  <2> HIDE DEF U
  <2>3. SumFunctionOnSet(f, T \cap A) = f[x] + SumFunctionOnSet(f, U \cap A)
    BY <1>4, <2>1, <2>2, SumSplits
  <2> QED BY <1>3, <1>8, <1>9, <1>11, <2>3
<1>12. CASE x \notin A
  <2>1. T \cap A = U \cap A /\ g[x] = 0
    BY <1>3, <1>12
  <2> HIDE DEF U
  <2>2. SumFunctionOnSet(f, T \cap A) = SumFunctionOnSet(f, U \cap A)
    BY <2>1
  <2>3. SumFunctionOnSet(g, T) = SumFunctionOnSet(g, U)
    BY <1>9, <1>10, <2>1
  <2> QED BY <1>3, <1>8, <2>2, <2>3
<1> QED BY <1>11, <1>12

\* A sum changes by what one of its elements changes.
LEMMA SumChanges ==
  ASSUME NEW S, IsFiniteSet(S), NEW f \in [S -> Int], NEW g \in [S -> Int], NEW x \in S,
         \A y \in S : y # x => g[y] = f[y]
  PROVE  SumFunction(g) = SumFunction(f) + (g[x] - f[x])
<1> DEFINE R == S \ {x}
<1>1. IsFiniteSet(R) /\ R \in SUBSET R
  BY FS_Subset
<1>2. SumFunctionOnSet(f, R) = SumFunctionOnSet(g, R) /\ SumFunctionOnSet(f, R) \in Int
  BY <1>1, SumOnSupport, SumType
<1>3. /\ SumFunctionOnSet(f, S) = f[x] + SumFunctionOnSet(f, R)
      /\ SumFunctionOnSet(g, S) = g[x] + SumFunctionOnSet(g, R)
  BY SumSplits
<1>4. SumFunction(f) = SumFunctionOnSet(f, S) /\ SumFunction(g) = SumFunctionOnSet(g, S)
  BY DEF SumFunction
<1>5. f[x] \in Int /\ g[x] \in Int
  OBVIOUS
<1> HIDE DEF R
<1> QED BY <1>2, <1>3, <1>4, <1>5

LEMMA SumOfZeros ==
  ASSUME NEW S, IsFiniteSet(S), NEW f \in [S -> Int], \A x \in S : f[x] = 0
  PROVE  SumFunction(f) = 0
<1>1. SumFunctionOnSet(f, {}) = SumFunctionOnSet(f, S)
  BY SumOnSupport
<1>2. SumFunctionOnSet(f, {}) = 0
  BY SumUnfolds
<1> QED BY <1>1, <1>2 DEF SumFunction

-----------------------------------------------------------------------------
(* Counters, rows and totals.                                              *)

LEMMA FiniteStore == IsFiniteSet(Items) /\ IsFiniteSet(Barcodes) /\ IsFiniteSet(Departments)
  BY CartAssumption

\* A quantity goes up or down by one, and so does their sum.
LEMMA SumOfQuantities ==
  ASSUME NEW S, IsFiniteSet(S), NEW f \in [S -> Nat], NEW x \in S
  PROVE  /\ SumFunction(f) \in Int
         /\ SumFunction([f EXCEPT ![x] = @ + 1]) = SumFunction(f) + 1
         /\ f[x] > 0 => SumFunction([f EXCEPT ![x] = Erased(@)]) = SumFunction(f) - 1
<1> DEFINE up == [f EXCEPT ![x] = @ + 1]
           down == [f EXCEPT ![x] = Erased(@)]
<1>1. f \in [S -> Int] /\ f[x] \in Nat
  OBVIOUS
<1>2. up \in [S -> Int] /\ up[x] = f[x] + 1 /\ \A y \in S : y # x => up[y] = f[y]
  BY <1>1
<1>3. /\ down \in [S -> Int] /\ (f[x] > 0 => down[x] = f[x] - 1)
      /\ \A y \in S : y # x => down[y] = f[y]
  BY <1>1 DEF Erased
<1> HIDE DEF up, down
<1>4. SumFunction(f) \in Int
  <2>1. SumFunctionOnSet(f, S) \in Int
    BY <1>1, SumType
  <2> QED BY <2>1 DEF SumFunction
<1>5. SumFunction(up) = SumFunction(f) + (up[x] - f[x])
  BY <1>1, <1>2, SumChanges
<1>6. SumFunction(down) = SumFunction(f) + (down[x] - f[x])
  BY <1>1, <1>3, SumChanges
<1>7. SumFunction(up) = SumFunction(f) + 1
  BY <1>1, <1>2, <1>4, <1>5
<1>8. f[x] > 0 => SumFunction(down) = SumFunction(f) - 1
  BY <1>1, <1>3, <1>4, <1>6
<1> QED BY <1>4, <1>7, <1>8 DEF up, down

\* The counter of the header against the item rows and the barcode rows.
GoodsCount(goods) ==
  /\ goods.itemsNumber = SumFunction(goods.items)
  /\ OneBarcodePerItem => goods.itemsNumber = SumFunction(goods.barcodes)

LEMMA FreshGoodsCount == GoodsCount(NoGoods)
<1>1. /\ [i \in Items |-> 0] \in [Items -> Int] /\ [b \in Barcodes |-> 0] \in [Barcodes -> Int]
  OBVIOUS
<1>2. SumFunction([i \in Items |-> 0]) = 0
  BY <1>1, FiniteStore, SumOfZeros
<1>3. SumFunction([b \in Barcodes |-> 0]) = 0
  BY <1>1, FiniteStore, SumOfZeros
<1> QED BY <1>2, <1>3 DEF GoodsCount, NoGoods

LEMMA GoodsCountStep ==
  ASSUME NEW goods \in Goods, GoodsCount(goods), MirrorSound(goods), NEW b \in KnownBarcodes
  PROVE  /\ GoodsCount(PutGoods(goods, ItemOf[b], b))
         /\ goods.items[ItemOf[b]] > 0 => GoodsCount(TakeGoods(goods, ItemOf[b], b))
<1>1. b \in Barcodes /\ ItemOf[b] \in Items /\ ItemOf[b] # NoItem
  BY CartAssumption DEF KnownBarcodes
<1>2. goods.items \in [Items -> Nat] /\ goods.barcodes \in [Barcodes -> Nat]
      /\ goods.itemsNumber \in Int
  BY DEF Goods
<1>3. /\ SumFunction([goods.items EXCEPT ![ItemOf[b]] = @ + 1]) = SumFunction(goods.items) + 1
      /\ goods.items[ItemOf[b]] > 0 =>
           SumFunction([goods.items EXCEPT ![ItemOf[b]] = Erased(@)])
             = SumFunction(goods.items) - 1
  BY <1>1, <1>2, FiniteStore, SumOfQuantities
<1>4. /\ SumFunction([goods.barcodes EXCEPT ![b] = @ + 1]) = SumFunction(goods.barcodes) + 1
      /\ goods.barcodes[b] > 0 =>
           SumFunction([goods.barcodes EXCEPT ![b] = Erased(@)])
             = SumFunction(goods.barcodes) - 1
  BY <1>1, <1>2, FiniteStore, SumOfQuantities
<1>5. OneBarcodePerItem => goods.barcodes[b] = goods.items[ItemOf[b]]
  BY <1>1 DEF MirrorSound
<1>6. GoodsCount(PutGoods(goods, ItemOf[b], b))
  BY <1>3, <1>4 DEF GoodsCount, PutGoods
<1>7. goods.items[ItemOf[b]] > 0 => GoodsCount(TakeGoods(goods, ItemOf[b], b))
  BY <1>3, <1>4, <1>5 DEF GoodsCount, TakeGoods
<1> QED BY <1>6, <1>7

\* The total row against the departments' rows.
ItemsOf(totals)     == [d \in Departments |-> totals[d].items]
AmountsOf(totals)   == [d \in Departments |-> totals[d].amount]
DiscountsOf(totals) == [d \in Departments |-> totals[d].discount]

TotalsAdd(totals) ==
  /\ totals[0].items    = SumFunction(ItemsOf(totals))
  /\ totals[0].amount   = SumFunction(AmountsOf(totals))
  /\ totals[0].discount = SumFunction(DiscountsOf(totals))

LEMMA RowsOfTotals ==
  ASSUME NEW totals \in Totals
  PROVE  /\ ItemsOf(totals) \in [Departments -> Int]
         /\ AmountsOf(totals) \in [Departments -> Int]
         /\ DiscountsOf(totals) \in [Departments -> Int]
         /\ \A d \in TotalKeys : /\ totals[d].items \in Int /\ totals[d].amount \in Int
                                 /\ totals[d].discount \in Int
<1>1. \A d \in TotalKeys : totals[d] \in [items : Int, amount : Int, discount : Int]
  BY DEF Totals
<1>2. \A r \in [items : Int, amount : Int, discount : Int] :
        r.items \in Int /\ r.amount \in Int /\ r.discount \in Int
  OBVIOUS
<1> QED BY <1>1, <1>2 DEF ItemsOf, AmountsOf, DiscountsOf, TotalKeys

LEMMA BookRows ==
  ASSUME 0 \notin Departments, NEW totals \in Totals, NEW d \in Departments, NEW n \in {-1, 1},
         NEW price \in Int, NEW discount \in Int,
         NEW new, new = Book(totals, d, n, price, discount)
  PROVE  /\ new \in Totals
         /\ \A e \in {0, d} : /\ new[e].items = totals[e].items + n
                              /\ new[e].amount = totals[e].amount + n * (price - discount)
                              /\ new[e].discount = totals[e].discount + n * discount
         /\ \A e \in Departments : e # d => new[e] = totals[e]
<1>1. new \in Totals
  BY BookType
<1>2. d \in TotalKeys /\ 0 \in TotalKeys /\ d # 0
  BY DEF TotalKeys
<1> DEFINE a == n * (price - discount)
           o == n * discount
<1>3. new = AddTo(AddTo(totals, 0, n, a, o), d, n, a, o)
  BY DEF Book
<1> HIDE DEF a, o
<1>4. \A e \in {0, d} : /\ new[e].items = totals[e].items + n
                        /\ new[e].amount = totals[e].amount + a
                        /\ new[e].discount = totals[e].discount + o
  BY <1>2, <1>3 DEF AddTo, Totals
<1>5. \A e \in Departments : e # d => new[e] = totals[e]
  BY <1>2, <1>3 DEF AddTo, Totals, TotalKeys
<1> QED BY <1>1, <1>4, <1>5 DEF a, o

LEMMA FreshTotalsAdd == 0 \notin Departments => TotalsAdd(NoTotals)
<1> DEFINE z == [d \in Departments |-> 0]
<1>1. ItemsOf(NoTotals) = z /\ AmountsOf(NoTotals) = z /\ DiscountsOf(NoTotals) = z
  BY DEF ItemsOf, AmountsOf, DiscountsOf, NoTotals, TotalKeys
<1>2. SumFunction(z) = 0
  <2>1. z \in [Departments -> Int] /\ \A d \in Departments : z[d] = 0
    OBVIOUS
  <2> HIDE DEF z
  <2> QED BY <2>1, FiniteStore, SumOfZeros
<1>3. NoTotals[0].items = 0 /\ NoTotals[0].amount = 0 /\ NoTotals[0].discount = 0
  BY DEF NoTotals, TotalKeys
<1> QED BY <1>1, <1>2, <1>3 DEF TotalsAdd

LEMMA BookTotalsAdd ==
  ASSUME 0 \notin Departments, NEW totals \in Totals, TotalsAdd(totals), NEW d \in Departments,
         NEW n \in {-1, 1}, NEW price \in Int, NEW discount \in Int,
         NEW new, new = Book(totals, d, n, price, discount)
  PROVE  TotalsAdd(new)
<1>1. /\ new \in Totals
      /\ \A e \in {0, d} : /\ new[e].items = totals[e].items + n
                           /\ new[e].amount = totals[e].amount + n * (price - discount)
                           /\ new[e].discount = totals[e].discount + n * discount
      /\ \A e \in Departments : e # d => new[e] = totals[e]
  BY BookRows
<1>2. d \in TotalKeys /\ 0 \in TotalKeys
  BY DEF TotalKeys
<1>3. /\ totals[0].items \in Int /\ totals[0].amount \in Int /\ totals[0].discount \in Int
      /\ totals[d].items \in Int /\ totals[d].amount \in Int /\ totals[d].discount \in Int
  BY <1>2, RowsOfTotals
<1>4. new[0].items = SumFunction(ItemsOf(new))
  <2>1. /\ ItemsOf(totals) \in [Departments -> Int] /\ ItemsOf(new) \in [Departments -> Int]
        /\ \A e \in Departments : e # d => ItemsOf(new)[e] = ItemsOf(totals)[e]
    BY <1>1, RowsOfTotals DEF ItemsOf
  <2>2. SumFunction(ItemsOf(new)) = SumFunction(ItemsOf(totals))
                                      + (ItemsOf(new)[d] - ItemsOf(totals)[d])
    BY <2>1, FiniteStore, SumChanges
  <2>3. ItemsOf(new)[d] = totals[d].items + n /\ ItemsOf(totals)[d] = totals[d].items
    BY <1>1 DEF ItemsOf
  <2>4. totals[0].items = SumFunction(ItemsOf(totals)) /\ new[0].items = totals[0].items + n
    BY <1>1 DEF TotalsAdd
  <2> QED BY <1>3, <2>2, <2>3, <2>4
<1>5. new[0].amount = SumFunction(AmountsOf(new))
  <2> DEFINE a == n * (price - discount)
  <2>1. /\ AmountsOf(totals) \in [Departments -> Int] /\ AmountsOf(new) \in [Departments -> Int]
        /\ \A e \in Departments : e # d => AmountsOf(new)[e] = AmountsOf(totals)[e]
    BY <1>1, RowsOfTotals DEF AmountsOf
  <2>2. SumFunction(AmountsOf(new)) = SumFunction(AmountsOf(totals))
                                        + (AmountsOf(new)[d] - AmountsOf(totals)[d])
    BY <2>1, FiniteStore, SumChanges
  <2>3. AmountsOf(new)[d] = totals[d].amount + a /\ AmountsOf(totals)[d] = totals[d].amount
    BY <1>1 DEF AmountsOf
  <2>4. totals[0].amount = SumFunction(AmountsOf(totals)) /\ new[0].amount = totals[0].amount + a
    BY <1>1 DEF TotalsAdd
  <2>5. a \in Int
    OBVIOUS
  <2> HIDE DEF a
  <2> QED BY <1>3, <2>2, <2>3, <2>4, <2>5
<1>6. new[0].discount = SumFunction(DiscountsOf(new))
  <2> DEFINE o == n * discount
  <2>1. /\ DiscountsOf(totals) \in [Departments -> Int] /\ DiscountsOf(new) \in [Departments -> Int]
        /\ \A e \in Departments : e # d => DiscountsOf(new)[e] = DiscountsOf(totals)[e]
    BY <1>1, RowsOfTotals DEF DiscountsOf
  <2>2. SumFunction(DiscountsOf(new)) = SumFunction(DiscountsOf(totals))
                                          + (DiscountsOf(new)[d] - DiscountsOf(totals)[d])
    BY <2>1, FiniteStore, SumChanges
  <2>3. DiscountsOf(new)[d] = totals[d].discount + o /\ DiscountsOf(totals)[d] = totals[d].discount
    BY <1>1 DEF DiscountsOf
  <2>4. /\ totals[0].discount = SumFunction(DiscountsOf(totals))
        /\ new[0].discount = totals[0].discount + o
    BY <1>1 DEF TotalsAdd
  <2>5. o \in Int
    OBVIOUS
  <2> HIDE DEF o
  <2> QED BY <1>3, <2>2, <2>3, <2>4, <2>5
<1> QED BY <1>4, <1>5, <1>6 DEF TotalsAdd

\* Every counter and total of a cart is the sum it stands for.
CartSums(cart) ==
  /\ GoodsCount(cart.goods)
  /\ 0 \notin Departments =>
       TotalsAdd(cart.totals) /\ cart.goods.itemsNumber = cart.totals[0].items

Sums == \A c \in sessions : CartSums(carts[c])

LEMMA FreshCartSums ==
  ASSUME NEW cart, Fresh(cart)
  PROVE  CartSums(cart)
<1>1. NoTotals[0].items = 0 /\ NoGoods.itemsNumber = 0
  BY DEF NoTotals, NoGoods, TotalKeys
<1> QED BY <1>1, FreshGoodsCount, FreshTotalsAdd DEF CartSums, Fresh

\* A unit more or less, at whatever price and promotion.
LEMMA BookedCartSums ==
  ASSUME NEW old \in CartRecord, MirrorSound(old.goods), CartSums(old), NEW new,
         NEW b \in KnownBarcodes, NEW d \in Departments, NEW price \in Int, NEW discount \in Int,
         \/ Sells(old, new, b, d, price, discount)
         \/ TakesOut(old, new, b, d, price, discount)
  PROVE  CartSums(new)
<1>1. old.goods \in Goods /\ old.totals \in Totals
  BY DEF CartRecord
<1>2. old.goods.itemsNumber \in Int /\ 0 \in TotalKeys
  BY <1>1 DEF Goods, TotalKeys
<1>3. PICK n \in {-1, 1} : /\ GoodsCount(new.goods)
                           /\ new.goods.itemsNumber = old.goods.itemsNumber + n
                           /\ new.totals = Book(old.totals, d, n, price, discount)
  <2>1. CASE Sells(old, new, b, d, price, discount)
    <3>1. GoodsCount(new.goods) /\ new.goods.itemsNumber = old.goods.itemsNumber + 1
      BY <1>1, <2>1, GoodsCountStep DEF CartSums, Sells, PutGoods
    <3> QED BY <2>1, <3>1 DEF Sells
  <2>2. CASE TakesOut(old, new, b, d, price, discount)
    <3>1. GoodsCount(new.goods) /\ new.goods.itemsNumber = old.goods.itemsNumber - 1
      BY <1>1, <2>2, GoodsCountStep DEF CartSums, TakesOut, TakeGoods, InCart
    <3>2. new.goods.itemsNumber = old.goods.itemsNumber + (-1)
      BY <1>2, <3>1
    <3> QED BY <2>2, <3>1, <3>2 DEF TakesOut
  <2> QED BY <2>1, <2>2
<1>4. ASSUME 0 \notin Departments
      PROVE  TotalsAdd(new.totals) /\ new.totals[0].items = old.totals[0].items + n
  BY <1>1, <1>3, <1>4, BookRows, BookTotalsAdd DEF CartSums
<1> QED BY <1>3, <1>4 DEF CartSums

LEMMA SumsStep ==
  ASSUME IndInv, IndInv', Sound, Sums, [Next]_vars
  PROVE  Sums'
<1> SUFFICES ASSUME NEW c \in sessions'
             PROVE  CartSums(carts'[c])
  BY DEF Sums, CartSums, GoodsCount, TotalsAdd
<1>1. c \in CartIds
  BY DEF IndInv, Base, TypeOK
<1>2. CASE Fresh(carts'[c])
  BY <1>2, FreshCartSums
<1>3. CASE c \in sessions /\ Moves(c)
  <2>1. carts[c] \in CartRecord /\ MirrorSound(carts[c].goods) /\ CartSums(carts[c])
    BY <1>3 DEF IndInv, Base, TypeOK, Sound, Sums
  <2>2. CASE Stays(carts[c], carts'[c])
    BY <2>1, <2>2 DEF Stays, CartSums
  <2>3. ASSUME NEW k \in Cards, NEW loy, Carded(carts[c], carts'[c], loy)
        PROVE  CartSums(carts'[c])
    BY <2>1, <2>3 DEF Carded, CartSums
  <2>4. ASSUME NEW b \in KnownBarcodes, NEW d \in Departments, NEW price \in Int,
               NEW discount \in Int,
               \/ Sells(carts[c], carts'[c], b, d, price, discount)
               \/ TakesOut(carts[c], carts'[c], b, d, price, discount)
        PROVE  CartSums(carts'[c])
    BY <2>1, <2>4, BookedCartSums
  <2> QED BY <1>3, <2>2, <2>3, <2>4 DEF Moves
<1> QED BY <1>1, <1>2, <1>3, CartStep

LEMMA SumsHold == Spec => []Sums
<1>1. Init => Sums
  BY DEF Init, Sums
<1> QED BY <1>1, SumsStep, Inductive, SoundHolds, PTL DEF Spec

\* The counter of the header, the counter of the total row and the item rows
\* are changed in three places of addItemByBarcode and removeItemByBarcode, and
\* again in the replay; for requests that come one at a time they stay one
\* number, also when a session is sent to a pay station, voided or loaded.
THEOREM CountersStayEqual == Spec => []CountersAgree
<1>1. Sums => CountersAgree
  BY DEF Sums, CartSums, GoodsCount, CountersAgree
<1> QED BY <1>1, SumsHold, PTL

\* Whatever a variation does to the department of an item between its sale and
\* its void, the total row stays the sum of the departments' rows, for requests
\* that come one at a time.
THEOREM DepartmentsStayAddedUp == Spec => []DepartmentsAddUp
<1>1. Sums => DepartmentsAddUp
  BY DEF Sums, CartSums, TotalsAdd, ItemsOf, AmountsOf, DiscountsOf, DepartmentsAddUp
<1> QED BY <1>1, SumsHold, PTL

\* A document of a pay station has the counter of its header from the cart its
\* rows come from.
LEMMA PosHeaderStep ==
  ASSUME IndInv, Headers, Sums, PosHeaderCountsRows, [Next]_vars
  PROVE  PosHeaderCountsRows'
<1> SUFFICES ASSUME OneAtATime, OneBarcodePerItem, NEW p \in PayStations, posFile'[p] # NoFile
             PROVE  posFile'[p].count = SumFunction(posFile'[p].rows)
  BY DEF PosHeaderCountsRows
<1>1. CASE posFile'[p] = posFile[p]
  BY <1>1 DEF PosHeaderCountsRows
<1>2. CASE posFile'[p] # posFile[p]
  <2>1. PICK t \in Threads : /\ job[t].pc = "send" /\ job[t].cart \in sessions
                             /\ posFile'[p].count = job[t].header.count
                             /\ posFile'[p].rows = carts[job[t].cart].goods.barcodes
    BY <1>2, PosStep
  <2>2. job[t].header.count = carts[job[t].cart].goods.itemsNumber
    BY <2>1 DEF Headers, HeaderFits
  <2> QED BY <2>1, <2>2 DEF Sums, CartSums, GoodsCount
<1> QED BY <1>1, <1>2

\* If the requests of a session come one at a time, the number of items in the
\* header of a pay station's file is that of its rows, for every document ever
\* sent, though header and rows are written one after the other.
THEOREM PosHeadersCountRows == Spec => []PosHeaderCountsRows
<1>1. Init => PosHeaderCountsRows
  BY DEF Init, PosHeaderCountsRows
<1> QED BY <1>1, PosHeaderStep, HeadersHold, SumsHold, Inductive, PTL DEF Spec

-----------------------------------------------------------------------------
(* Prices that only come from the archive once (PlainPricing): whatever    *)
(* sells or voids an item does so at the cart's copy of its price.         *)

Unlinked == \A i \in Items : archive[i].linked = NoBarcode /\ disk[i].linked = NoBarcode

\* A thread that sells has made the copy, and what a thread is to sell or void
\* has the price of the copy, if there is one.
JobPriced(j) ==
  LET copy == carts[j.cart].local[JobItem(j)]
  IN /\ j.main
     /\ j.row.kind = "IA" /\ j.pc \in {"check", "change", "write"} => copy # NoCopy
     /\ j.row.kind \in {"IA", "IV"} /\ j.pc = "change" =>
          j.discount = 0 /\ (copy # NoCopy => j.price = copy)

\* The row of a sale comes after that of the copy, if the session is not void.
RowsPriced ==
  \A c \in CartIds : \A n \in 1..Len(journal[c]) :
    journal[c][n].kind = "IA" =>
      image[c][n].voided \/ image[c][n].local[ItemOf[journal[c][n].barcode]] # NoCopy

Priced == PlainPricing => Unlinked /\ (\A t \in Threads : JobPriced(job[t])) /\ RowsPriced

LEMMA UnlinkedStep ==
  ASSUME IndInv, Unlinked, [Next]_vars
  PROVE  Unlinked'
<1>1. CASE UNCHANGED <<archive, disk>>
  BY <1>1 DEF Unlinked
<1>2. CASE ApplyVariation
  BY <1>2 DEF ApplyVariation, Unlinked, IndInv, Base, TypeOK, storage
<1>3. CASE DumpItems
  BY <1>3 DEF DumpItems, Unlinked, memory
<1>4. CASE Boot
  BY <1>4 DEF Boot, Unlinked, storage
<1>5. ASSUME NEW t \in Threads, Start(t)
      PROVE  UNCHANGED <<archive, disk>>
  BY <1>5 DEF Start, InitSession, Query, ItemAdd, ItemVoid, ItemRequest, CustomerAdd, CustomerVoid,
              SessionEnd, SessionVoid, OnlyRequestId, memory, storage
<1>6. ASSUME NEW t \in Threads, Continue(t)
      PROVE  UNCHANGED <<archive, disk>>
  <2>1. CASE InsertCart(t) \/ ReadNumber(t) \/ WriteNumber(t)
    BY <2>1 DEF InsertCart, ReadNumber, WriteNumber, memory, storage
  <2>2. CASE CopyDepartment(t) \/ CopyItem(t) \/ KeepItem(t)
    BY <2>2 DEF CopyDepartment, CopyItem, KeepItem, memory, storage
  <2>3. CASE Check(t) \/ Change(t) \/ WriteRow(t) \/ Follow(t)
    BY <2>3 DEF Check, Change, WriteRow, Follow, memory, storage
  <2>4. CASE Register(t) \/ WriteHeader(t) \/ SendRows(t)
    BY <2>4 DEF Register, WriteHeader, SendRows, memory, storage
  <2> QED BY <1>6, <2>1, <2>2, <2>3, <2>4 DEF Continue
<1>7. CASE Crash \/ LoadFile \/ LoadRow \/ FinishFile \/ FinishBoot \/ UNCHANGED vars
  BY <1>1, <1>7 DEF Crash, LoadFile, LoadRow, FinishFile, FinishBoot, memory, storage, vars
<1> QED BY <1>1, <1>2, <1>3, <1>4, <1>5, <1>6, <1>7 DEF Next, Restart

\* The row of a sale is written for a session that has the copy, and stands
\* after what the session kept then.
LEMMA SaleRowPriced ==
  ASSUME IndInv, PlainPricing, Priced, NEW t \in Threads, WriteRow(t), NEW c, job[t].cart = c,
         NEW row \in Rows, job[t].row = row, row.kind = "IA"
  PROVE  LET last == image[c][Len(journal[c]) + 1]
         IN last.voided \/ last.local[ItemOf[row.barcode]] # NoCopy
<1>1. phase = "up" /\ job[t].pc = "write" /\ OneAtATime
  BY DEF WriteRow, PlainPricing
<1>2. c \in sessions /\ InFlight(job[t], carts[c], Latest(c)) /\ carts[c] \in CartRecord
  BY <1>1, AtWork DEF Numbering
<1>3. PICK last : last = image[c][Len(journal[c]) + 1]
  OBVIOUS
<1>4. carts[c].state = "ready" /\ Kept(carts[c]) = Effect(last, row)
  BY <1>1, <1>2, <1>3, RowKinds DEF InFlight, Latest, KeptAt
<1>5. carts[c].local[ItemOf[row.barcode]] # NoCopy
  BY <1>1 DEF Priced, JobPriced, JobItem
<1>6. Kept(carts[c]).local = carts[c].local
  BY <1>4 DEF Kept
<1>7. last \in KeptRecord
  <2>1. c \in CartIds
    BY <1>2 DEF IndInv, Base, TypeOK
  <2>2. image[c] \in Seq(KeptRecord) /\ Len(journal[c]) \in Nat /\ Len(image[c]) = Len(journal[c]) + 1
    BY <1>1, <2>1 DEF IndInv, Base, TypeOK, Accounts, JournalAccounts
  <2> QED BY <1>3, <2>2
<1>8. ~last.voided => Effect(last, row).local = last.local
  BY <1>7 DEF Effect, KeptRecord
<1> QED BY <1>3, <1>4, <1>5, <1>6, <1>8

LEMMA RowsPricedStep ==
  ASSUME IndInv, PlainPricing, Priced, [Next]_vars
  PROVE  RowsPriced'
<1>1. CASE UNCHANGED <<journal, image>>
  BY <1>1 DEF Priced, RowsPriced
<1>2. ASSUME NEW t \in Threads, NEW c \in sessions, NEW row \in Rows, NEW kept,
             Grows(c, row, kept),
             row.kind = "IA" => WriteRow(t) /\ job[t].cart = c /\ job[t].row = row
      PROVE  RowsPriced'
  <2> SUFFICES ASSUME NEW d \in CartIds, NEW n \in 1..Len(journal'[d]),
                      journal'[d][n].kind = "IA"
               PROVE  \/ image'[d][n].voided
                      \/ image'[d][n].local[ItemOf[journal'[d][n].barcode]] # NoCopy
    BY DEF RowsPriced
  <2>0. c \in CartIds
    BY DEF IndInv, Base, TypeOK
  <2>1. CASE d # c
    <3>1. journal'[d] = journal[d] /\ image'[d] = image[d]
      BY <1>2, <2>1 DEF Grows, IndInv, Base, TypeOK
    <3> QED BY <3>1 DEF Priced, RowsPriced
  <2>2. CASE d = c
    <3>1. PICK m : m = Len(journal[c])
      OBVIOUS
    <3>2. /\ journal[c] \in Seq(Rows) /\ image[c] \in Seq(KeptRecord) /\ Len(image[c]) = m + 1
          /\ journal'[c] = Append(journal[c], row) /\ image'[c] = Append(image[c], kept)
      BY <1>2, <2>0, <3>1 DEF Grows, IndInv, Base, TypeOK, Accounts, JournalAccounts, PlainPricing
    <3>3. /\ m \in Nat /\ Len(journal'[c]) = m + 1
          /\ \A x \in 1..m : journal'[c][x] = journal[c][x]
          /\ journal'[c][m + 1] = row
      BY <3>1, <3>2, AppendFacts
    <3>4. \A x \in 1..m + 1 : image'[c][x] = image[c][x]
      BY <3>2, <3>3
    <3>5. n \in 1..m \/ n = m + 1
      BY <2>2, <3>3
    <3>6. CASE n \in 1..m
      <4>1. journal'[d][n] = journal[c][n]
        BY <2>2, <3>3, <3>6
      <4>2. image'[d][n] = image[c][n]
        <5>1. n \in 1..m + 1
          BY <3>3, <3>6
        <5> QED BY <2>2, <3>4, <5>1
      <4>3. journal[c][n].kind = "IA" =>
              image[c][n].voided \/ image[c][n].local[ItemOf[journal[c][n].barcode]] # NoCopy
        BY <2>2, <3>1, <3>6 DEF Priced, RowsPriced
      <4> QED BY <4>1, <4>2, <4>3
    <3>7. CASE n = m + 1
      <4>1. journal'[d][n] = row /\ image'[d][n] = image[c][m + 1]
        BY <2>2, <3>3, <3>4, <3>7
      <4> QED BY <1>2, <3>1, <4>1, SaleRowPriced
    <3> QED BY <3>5, <3>6, <3>7
  <2> QED BY <2>1, <2>2
<1>3. ASSUME NEW t \in Threads, Start(t) \/ Continue(t)
      PROVE  RowsPriced'
  BY <1>1, <1>2, <1>3, StartRow, ContinueRow DEF WritesRow
<1>4. CASE ApplyVariation \/ DumpItems \/ Crash \/ Restart \/ UNCHANGED vars
  BY <1>1, <1>4 DEF ApplyVariation, DumpItems, Crash, Restart, Boot, LoadFile, LoadRow,
                    FinishFile, FinishBoot, storage, vars
<1> QED BY <1>3, <1>4 DEF Next

LEMMA IdlePriced == JobPriced(Idle) /\ JobPriced(Idle)'
  BY DEF JobPriced, Idle, NoRow

LEMMA KeptCopy ==
  ASSUME NEW cart \in CartRecord, NEW i \in Items, NEW p \in Prices
  PROVE  UpdateLocalItemMap(cart, i, p).local[i] # NoCopy
<1>1. cart.local \in [Items -> Prices \cup {NoCopy}] /\ NoCopy \notin Prices
  BY CartAssumption DEF CartRecord, Copies
<1>2. UpdateLocalItemMap(cart, i, p).local = KeepCopy(cart.local, i, p)
  BY DEF UpdateLocalItemMap, CartRecord
<1> QED BY <1>1, <1>2 DEF KeepCopy

\* A request that only starts needs no copy yet.
LEMMA EasyJobs ==
  ASSUME NEW j, j.main, j.pc \notin {"change", "write"},
         j.pc = "check" => j.row.kind # "IA"
  PROVE  JobPriced(j)'
  BY DEF JobPriced

LEMMA StartPriced ==
  ASSUME IndInv, PlainPricing, NEW t \in Threads, Start(t)
  PROVE  \E j : Goto(t, j) /\ JobPriced(j)'
<1>1. job \in [Threads -> Job]
  BY DEF IndInv, Base, TypeOK
<1>2. ASSUME NEW j, Goto(t, j), j.main, j.pc \notin {"change", "write"},
             j.pc = "check" => j.row.kind # "IA"
      PROVE  \E k : Goto(t, k) /\ JobPriced(k)'
  BY <1>2, EasyJobs
<1>3. CASE InitSession(t)
  <2>1. PICK j : j = [Idle EXCEPT !.pc = "insert", !.cart = nextNumber]
    OBVIOUS
  <2>2. j.main /\ j.pc = "insert" /\ Goto(t, j)
    BY <1>3, <2>1 DEF InitSession, Idle
  <2> QED BY <1>2, <2>2
<1>4. ASSUME NEW c \in sessions, NEW row, ItemRequest(t, c, row)
      PROVE  \E k : Goto(t, k) /\ JobPriced(k)'
  <2>1. PICK j : j = Started([Idle EXCEPT !.cart = c, !.row = row])
    OBVIOUS
  <2>2. Goto(t, Idle) \/ Goto(t, j)
    BY <1>4, <2>1 DEF ItemRequest, Reply
  <2>3. j.main /\ j.row = row /\ j.pc = IF row.kind = "IA" /\ ~PriceChanges THEN "copy" ELSE "check"
    BY <2>1 DEF Started, Idle
  <2>4. j.pc \notin {"change", "write"} /\ (j.pc = "check" => j.row.kind # "IA")
    BY <2>3 DEF PlainPricing
  <2> QED BY <1>2, <2>2, <2>3, <2>4, IdlePriced
<1>5. ASSUME NEW c \in sessions, Query(t, c)
      PROVE  Goto(t, Idle)
  BY <1>1, <1>5 DEF Query, Serve, Goto
<1>6. ASSUME NEW c \in sessions, SessionVoid(t, c)
      PROVE  \E k : Goto(t, k) /\ JobPriced(k)'
  <2>1. PICK j : j = [Idle EXCEPT !.pc = "change", !.cart = c, !.row = RowCV]
    OBVIOUS
  <2>2. j.main /\ j.row.kind = "CV" /\ (Goto(t, Idle) \/ Goto(t, j))
    BY <1>6, <2>1 DEF SessionVoid, Reply, Idle, RowCV
  <2>3. JobPriced(j)'
    BY <2>2 DEF JobPriced
  <2> QED BY <2>2, <2>3, IdlePriced
<1>7. ASSUME NEW c \in sessions, NEW k \in Cards, CustomerAdd(t, c, k)
      PROVE  \E x : Goto(t, x) /\ JobPriced(x)'
  <2>1. PICK j : j = [Idle EXCEPT !.pc = "register", !.cart = c, !.row = RowLA(k)]
    OBVIOUS
  <2>2. j.main /\ j.pc = "register" /\ (Goto(t, Idle) \/ Goto(t, j))
    BY <1>7, <2>1 DEF CustomerAdd, Reply, Idle
  <2> QED BY <1>2, <2>2, IdlePriced
<1>8. ASSUME NEW c \in sessions, NEW p \in PayStations, SessionEnd(t, c, p)
      PROVE  \E x : Goto(t, x) /\ JobPriced(x)'
  <2>1. PICK j : j = [Idle EXCEPT !.pc = "header", !.cart = c, !.header.station = p]
    OBVIOUS
  <2>2. j.main /\ j.pc = "header" /\ (Goto(t, Idle) \/ Goto(t, j))
    BY <1>8, <2>1 DEF SessionEnd, Reply, Idle
  <2> QED BY <1>2, <2>2, IdlePriced
<1>9. ASSUME NEW c \in sessions, NEW k \in Cards, CustomerVoid(t, c, k)
      PROVE  Goto(t, Idle)
  BY <1>9 DEF CustomerVoid, Reply
<1>10. ASSUME NEW c \in sessions, NEW b \in Barcodes, ItemAdd(t, c, b) \/ ItemVoid(t, c, b)
       PROVE  \E row : ItemRequest(t, c, row)
  BY <1>10 DEF ItemAdd, ItemVoid
<1> QED BY <1>3, <1>4, <1>5, <1>6, <1>7, <1>8, <1>9, <1>10, IdlePriced DEF Start

\* The work on a sale or a void.
LEMMA ItemWorkPriced ==
  ASSUME IndInv, PlainPricing, Priced, NEW t \in Threads,
         \/ CopyDepartment(t) \/ KeepItem(t) \/ Check(t) \/ Change(t)
  PROVE  \E j : Goto(t, j) /\ JobPriced(j)'
<1>1. PICK c, i, j : c = job[t].cart /\ i = JobItem(job[t]) /\ j = job[t]
  OBVIOUS
<1>2. phase = "up" /\ job[t].pc \notin Numbering
  BY DEF CopyDepartment, KeepItem, Check, Change, Numbering
<1>3. /\ c \in sessions /\ c \in CartIds /\ carts[c] \in CartRecord /\ carts \in [CartIds -> CartRecord]
      /\ j \in Job /\ JobFits(j) /\ JobPriced(j)
  BY <1>1, <1>2, AtWork DEF IndInv, Base, TypeOK, Priced
<1>4. j.main /\ (j.row.kind \in {"IA", "IV"} => i \in Items /\ i = ItemOf[j.row.barcode])
  BY <1>1, <1>3, JobRow DEF JobPriced
<1>5. ASSUME NEW k, k.main, k.cart = c, k.row = j.row, carts'[c].local[i] # NoCopy,
             k.pc \notin {"change", "write"}, Goto(t, k)
      PROVE  \E x : Goto(t, x) /\ JobPriced(x)'
  BY <1>1, <1>5 DEF JobPriced, JobItem
<1>6. CASE CopyDepartment(t)
  <2>1. PICK p : p = archive[i].price
    OBVIOUS
  <2>2. i \in Items /\ p \in Prices
    BY <1>1, <1>3, <1>4, <1>6, <2>1, Archived DEF CopyDepartment, JobFits
  <2>3. PICK k, l, cart : /\ k = [j EXCEPT !.pc = "copyItem", !.price = p]
                          /\ l = [j EXCEPT !.pc = "check"]
                          /\ cart = UpdateLocalItemMap(carts[c], i, p)
    OBVIOUS
  <2>4. /\ k.main /\ k.pc = "copyItem"
        /\ l.main /\ l.pc = "check" /\ l.cart = c /\ l.row = j.row
    BY <1>1, <1>3, <1>4, <2>3 DEF Job
  <2>5. cart.local[i] # NoCopy
    BY <1>3, <2>2, <2>3, KeptCopy
  <2>6. Goto(t, k) \/ (Goto(t, l) /\ carts' = [carts EXCEPT ![c] = cart])
    BY <1>1, <1>6, <2>1, <2>3 DEF CopyDepartment, Store
  <2>7. CASE Goto(t, k)
    BY <2>4, <2>7, EasyJobs
  <2>8. CASE Goto(t, l) /\ carts' = [carts EXCEPT ![c] = cart]
    <3>1. carts'[c] = cart
      BY <1>3, <2>8
    <3> QED BY <1>5, <2>4, <2>5, <2>8, <3>1
  <2> QED BY <2>6, <2>7, <2>8
<1>7. CASE KeepItem(t)
  <2>1. i \in Items /\ j.price \in Prices
    BY <1>1, <1>3, <1>4, <1>7 DEF KeepItem, JobFits
  <2>2. PICK l, cart : /\ l = [j EXCEPT !.pc = "check", !.price = 0]
                       /\ cart = UpdateLocalItemMap(carts[c], i, j.price)
    OBVIOUS
  <2>3. l.main /\ l.pc = "check" /\ l.cart = c /\ l.row = j.row
    BY <1>1, <1>3, <1>4, <2>2 DEF Job
  <2>4. cart.local[i] # NoCopy
    BY <1>3, <2>1, <2>2, KeptCopy
  <2>5. Goto(t, l) /\ carts'[c] = cart
    BY <1>1, <1>3, <1>7, <2>2 DEF KeepItem
  <2> QED BY <1>5, <2>3, <2>4, <2>5
<1>8. CASE Check(t)
  <2>1. j.pc = "check" /\ i \in Items /\ j.row.kind \in {"IA", "IV"} /\ UNCHANGED carts
    BY <1>1, <1>3, <1>4, <1>8 DEF Check, JobFits, memory
  <2>2. PICK p, off : p = RequestPrice(j, carts[c]) /\ off = RequestDiscount(j, p)
    OBVIOUS
  <2>3. PICK l : l = [j EXCEPT !.pc = "change", !.price = p, !.discount = off]
    OBVIOUS
  <2>4. /\ l.main /\ l.pc = "change" /\ l.cart = c /\ l.row = j.row /\ l.price = p
        /\ l.discount = off
    BY <1>1, <1>3, <1>4, <2>3 DEF Job
  <2>5. p = GetItemPrice(carts[c], i, j.row.barcode, archive[i].price)
    BY <1>1, <1>4, <2>2 DEF RequestPrice
  <2>6. p \in Prices
    BY <1>3, <2>1, <2>5, JobRow, Archived, PriceType
  <2>7. off = 0
    BY <1>1, <2>1, <2>2, <2>6 DEF RequestDiscount, PlainPricing
  <2>8. carts[c].local[i] # NoCopy => p = carts[c].local[i]
    <3>1. EmbeddedPrice[j.row.barcode] = NoPrice /\ ~PriceChanges
      BY <1>3, <2>1, JobRow DEF PlainPricing
    <3> QED BY <2>5, <3>1 DEF GetItemPrice
  <2>9. j.row.kind = "IA" => carts[c].local[i] # NoCopy
    BY <1>1, <1>3, <2>1 DEF JobPriced
  <2>10. JobPriced(l)'
    BY <1>1, <2>1, <2>4, <2>7, <2>8, <2>9 DEF JobPriced, JobItem
  <2>11. Goto(t, l) \/ Goto(t, Idle)
    BY <1>1, <1>8, <2>2, <2>3 DEF Check, Reply
  <2> QED BY <2>10, <2>11, IdlePriced
<1>9. CASE Change(t)
  <2>1. PICK x \in {"write", "link"} : Goto(t, [j EXCEPT !.pc = x])
    BY <1>1, <1>9 DEF Change
  <2>2. PICK l : l = [j EXCEPT !.pc = x]
    OBVIOUS
  <2>3. l.main /\ l.pc = x /\ l.cart = c /\ l.row = j.row
    BY <1>1, <1>3, <1>4, <2>2 DEF Job
  <2>4. carts'[c] = Changed(carts[c], j) /\ j.pc = "change"
    BY <1>1, <1>3, <1>9 DEF Change
  <2>5. j.row.kind = "IA" => Changed(carts[c], j).local = carts[c].local
    BY <1>3 DEF Changed, PutItem, CartRecord
  <2>6. j.row.kind = "IA" => carts[c].local[i] # NoCopy
    BY <1>1, <1>3, <2>4 DEF JobPriced
  <2>7. JobPriced(l)'
    BY <1>1, <2>1, <2>3, <2>4, <2>5, <2>6 DEF JobPriced, JobItem
  <2> QED BY <2>1, <2>2, <2>7
<1> QED BY <1>6, <1>7, <1>8, <1>9

LEMMA ContinuePriced ==
  ASSUME IndInv, PlainPricing, Priced, NEW t \in Threads, Continue(t)
  PROVE  \E j : Goto(t, j) /\ JobPriced(j)'
<1>1. PICK j : j = job[t]
  OBVIOUS
<1>2. j \in Job /\ j.main /\ JobFits(j)
  BY <1>1 DEF IndInv, Base, TypeOK, WellFormed, Priced, JobPriced
<1>3. ASSUME NEW k, Goto(t, k), k.main,
             k.pc \in {"increment", "store", "keep", "link", "send"}
      PROVE  \E x : Goto(t, x) /\ JobPriced(x)'
  BY <1>3, EasyJobs
<1>4. CASE InsertCart(t)
  <2>1. PICK k : k = [j EXCEPT !.pc = "increment"]
    OBVIOUS
  <2>2. k.main /\ k.pc = "increment" /\ Goto(t, k)
    BY <1>1, <1>2, <1>4, <2>1 DEF InsertCart, Job
  <2> QED BY <1>3, <2>2
<1>5. CASE ReadNumber(t)
  <2>1. PICK k : k = [j EXCEPT !.pc = "store", !.number = nextNumber]
    OBVIOUS
  <2>2. k.main /\ k.pc = "store"
    BY <1>2, <2>1 DEF Job
  <2>3. Goto(t, k)
    BY <1>1, <1>5, <2>1 DEF ReadNumber
  <2> QED BY <1>3, <2>2, <2>3
<1>6. CASE CopyItem(t)
  <2>1. PICK k : k = [j EXCEPT !.pc = "keep"]
    OBVIOUS
  <2>2. k.main /\ k.pc = "keep" /\ Goto(t, k)
    BY <1>1, <1>2, <1>6, <2>1 DEF CopyItem, Job
  <2> QED BY <1>3, <2>2
<1>7. CASE WriteRow(t)
  <2>1. PICK k : k = [j EXCEPT !.pc = "link"]
    OBVIOUS
  <2>2. k.main /\ k.pc = "link"
    BY <1>2, <2>1 DEF Job
  <2>3. Goto(t, k) \/ Goto(t, Idle)
    BY <1>1, <1>7, <2>1 DEF WriteRow, Reply
  <2> QED BY <1>3, <2>2, <2>3, IdlePriced
<1>8. CASE Follow(t)
  <2>1. JobItem(j) \in Items
    BY <1>1, <1>2, <1>8, JobRow DEF Follow
  <2>2. archive[JobItem(j)].linked = NoBarcode
    BY <2>1 DEF Priced, Unlinked
  <2>3. Goto(t, Idle)
    BY <1>1, <1>8, <2>2 DEF Follow, Reply
  <2> QED BY <2>3, IdlePriced
<1>9. CASE WriteHeader(t)
  <2>1. PICK h : Goto(t, [j EXCEPT !.pc = "send", !.header = h])
    BY <1>1, <1>9 DEF WriteHeader
  <2>2. PICK k : k = [j EXCEPT !.pc = "send", !.header = h]
    OBVIOUS
  <2>3. k.main /\ k.pc = "send"
    BY <1>2, <2>2 DEF Job
  <2> QED BY <1>3, <2>1, <2>2, <2>3
<1>10. CASE WriteNumber(t) \/ Register(t) \/ SendRows(t)
  <2>1. Goto(t, Idle)
    BY <1>10 DEF WriteNumber, Register, SendRows, Reply
  <2> QED BY <2>1, IdlePriced
<1> QED BY <1>4, <1>5, <1>6, <1>7, <1>8, <1>9, <1>10, ItemWorkPriced DEF Continue

LEMMA JobsPricedStep ==
  ASSUME IndInv, PlainPricing, Priced, [Next]_vars, NEW t \in Threads
  PROVE  JobPriced(job[t])'
<1>1. job \in [Threads -> Job] /\ JobPriced(job[t])
  BY DEF IndInv, Base, TypeOK, Priced
<1>2. ASSUME job'[t] = job[t], carts'[job[t].cart] = carts[job[t].cart]
      PROVE  JobPriced(job[t])'
  BY <1>1, <1>2 DEF JobPriced, JobItem
<1>3. ASSUME NEW u \in Threads, Start(u) \/ Continue(u)
      PROVE  JobPriced(job[t])'
  <2>1. PICK j : Goto(u, j) /\ JobPriced(j)'
    BY <1>3, StartPriced, ContinuePriced
  <2>2. CASE t = u
    <3>1. job'[t] = j
      BY <1>1, <2>1, <2>2 DEF Goto
    <3> QED BY <2>1, <3>1 DEF JobPriced, JobItem
  <2>3. CASE t # u
    <3>1. job'[t] = job[t]
      BY <1>1, <2>1, <2>3 DEF Goto
    <3>2. CASE job[t].pc \in Numbering
      BY <1>1, <3>1, <3>2 DEF JobPriced, Numbering
    <3>3. CASE job[t].pc \notin Numbering
      BY <1>2, <1>3, <2>3, <3>3, CartToItself DEF PlainPricing
    <3> QED BY <3>2, <3>3
  <2> QED BY <2>2, <2>3
<1>4. ASSUME job'[t] = Idle
      PROVE  JobPriced(job[t])'
  BY <1>4, IdlePriced DEF JobPriced, JobItem
<1>5. CASE ApplyVariation \/ DumpItems \/ UNCHANGED vars
  <2>1. UNCHANGED <<job, carts>>
    BY <1>5 DEF ApplyVariation, DumpItems, memory, vars
  <2> QED BY <1>2, <2>1
<1>6. CASE Crash
  <2>1. job'[t] = Idle
    BY <1>6 DEF Crash
  <2> QED BY <1>4, <2>1
<1>7. CASE Restart
  <2>1. phase # "up" /\ job' = job
    BY <1>7 DEF Restart, Boot, LoadFile, LoadRow, FinishFile, FinishBoot
  <2>2. job'[t] = Idle
    BY <2>1 DEF IndInv, Base, WellFormed
  <2> QED BY <1>4, <2>2
<1> QED BY <1>3, <1>5, <1>6, <1>7 DEF Next

LEMMA PricedHolds == Spec => []Priced
<1>1. Init => Priced
  <2> SUFFICES ASSUME Init, PlainPricing
               PROVE  Unlinked /\ (\A t \in Threads : JobPriced(job[t])) /\ RowsPriced
    BY DEF Priced
  <2>1. Unlinked
    BY DEF Init, Unlinked, PlainPricing
  <2>2. ASSUME NEW t \in Threads PROVE JobPriced(job[t])
    <3>1. job[t] = Idle
      BY DEF Init
    <3> QED BY <3>1, IdlePriced
  <2>3. RowsPriced
    BY DEF Init, RowsPriced
  <2> QED BY <2>1, <2>2, <2>3
<1>2. IndInv /\ Priced /\ [Next]_vars => Priced'
  <2> SUFFICES ASSUME IndInv, Priced, [Next]_vars, PlainPricing
               PROVE  Priced'
    BY DEF Priced, PlainPricing
  <2>1. Unlinked'
    BY UnlinkedStep DEF Priced
  <2>2. RowsPriced'
    BY RowsPricedStep
  <2>3. (\A t \in Threads : JobPriced(job[t]))'
    BY JobsPricedStep
  <2> QED BY <2>1, <2>2, <2>3 DEF Priced
<1> QED BY <1>1, <1>2, Inductive, PTL DEF Spec

-----------------------------------------------------------------------------
(* The total is what the customer was shown.                               *)

\* What the units of each item are worth at the price of its copy.
Worth(cart) ==
  [i \in Items |-> IF cart.goods.items[i] > 0 THEN cart.goods.items[i] * cart.local[i] ELSE 0]

ShownCart(cart) ==
  /\ \A i \in Items : cart.goods.items[i] > 0 => cart.local[i] # NoCopy
  /\ cart.totals[0].amount = SumFunction(Worth(cart))

Shown == PlainPricing => \A c \in sessions : ShownCart(carts[c])

LEMMA Products ==
  /\ \A q \in Int, p \in Int : q * p \in Int
  /\ \A q \in Int, p \in Int : (q + 1) * p = q * p + p
  /\ \A p \in Int : 0 * p = 0 /\ 1 * p = p /\ 1 * (p - 0) = p /\ -1 * (p - 0) = 0 - p
  OBVIOUS

LEMMA FreshShownCart ==
  ASSUME NEW cart, Fresh(cart)
  PROVE  ShownCart(cart)
<1>1. /\ cart.goods.items = [i \in Items |-> 0]
      /\ cart.totals[0].amount = 0
  BY DEF Fresh, NoGoods, NoTotals, TotalKeys
<1>2. Worth(cart) \in [Items -> Int] /\ \A i \in Items : Worth(cart)[i] = 0
  BY <1>1 DEF Worth
<1>3. SumFunction(Worth(cart)) = 0
  BY <1>2, FiniteStore, SumOfZeros
<1> QED BY <1>1, <1>3 DEF ShownCart

LEMMA WorthType ==
  ASSUME NEW cart \in CartRecord, \A i \in Items : cart.goods.items[i] > 0 => cart.local[i] # NoCopy
  PROVE  Worth(cart) \in [Items -> Int] /\ SumFunction(Worth(cart)) \in Int
<1>1. /\ cart.goods.items \in [Items -> Nat]
      /\ cart.local \in [Items -> Prices \cup {NoCopy}]
  BY DEF CartRecord, Goods, Copies
<1>2. \A i \in Items : cart.goods.items[i] > 0 =>
         cart.goods.items[i] \in Int /\ cart.local[i] \in Int
  BY <1>1, PricesAreIntegers
<1>3. \A i \in Items : cart.goods.items[i] > 0 => cart.goods.items[i] * cart.local[i] \in Int
  BY <1>2, Products
<1>4. Worth(cart) \in [Items -> Int]
  BY <1>3 DEF Worth
<1>5. SumFunctionOnSet(Worth(cart), Items) \in Int
  BY <1>4, FiniteStore, SumType
<1>6. DOMAIN Worth(cart) = Items
  BY DEF Worth
<1> QED BY <1>4, <1>5, <1>6 DEF SumFunction

\* One unit more or less of an item, at the price of its copy.
LEMMA UnitShown ==
  ASSUME PlainPricing, NEW old \in CartRecord, ShownCart(old), NEW new \in CartRecord,
         NEW i \in Items, new.local = old.local, old.local[i] # NoCopy, NEW n \in {-1, 1},
         \A j \in Items : j # i => new.goods.items[j] = old.goods.items[j],
         new.goods.items[i] = old.goods.items[i] + n,
         new.totals[0].amount = old.totals[0].amount + n * (old.local[i] - 0)
  PROVE  ShownCart(new)
<1>1. /\ old.goods.items \in [Items -> Nat] /\ old.totals[0].amount \in Int
      /\ old.local \in [Items -> Prices \cup {NoCopy}]
  BY RowsOfTotals DEF CartRecord, Goods, Copies, TotalKeys
<1>2. Worth(old) \in [Items -> Int] /\ SumFunction(Worth(old)) \in Int
  BY WorthType DEF ShownCart
<1>3. \A j \in Items : new.goods.items[j] > 0 => new.local[j] # NoCopy
  <2>1. \A j \in Items : j # i /\ new.goods.items[j] > 0 => old.goods.items[j] > 0
    OBVIOUS
  <2> QED BY <2>1 DEF ShownCart
<1>4. Worth(new) \in [Items -> Int]
  BY <1>3, WorthType
<1>5. \A j \in Items : j # i => Worth(new)[j] = Worth(old)[j]
  BY DEF Worth
<1>6. SumFunction(Worth(new)) = SumFunction(Worth(old)) + (Worth(new)[i] - Worth(old)[i])
  BY <1>2, <1>4, <1>5, FiniteStore, SumChanges
<1> DEFINE q == old.goods.items[i]
           r == new.goods.items[i]
           p == old.local[i]
<1>7. q \in Nat /\ r \in Nat /\ p \in Int /\ r = q + n
  BY <1>1, PricesAreIntegers DEF CartRecord, Goods
<1>8. /\ Worth(old)[i] = IF q > 0 THEN q * p ELSE 0
      /\ Worth(new)[i] = IF r > 0 THEN r * p ELSE 0
  BY DEF Worth
<1>9. new.totals[0].amount = old.totals[0].amount + n * (p - 0)
  OBVIOUS
<1> HIDE DEF q, r, p
<1>10. Worth(old)[i] = q * p /\ Worth(new)[i] = r * p
  BY <1>7, <1>8, Products
<1>11. n * (p - 0) = r * p - q * p
  <2>1. CASE n = 1
    BY <1>7, <2>1, Products
  <2>2. CASE n = -1
    <3>1. q = r + 1 /\ r \in Int
      BY <1>7, <2>2
    <3>2. q * p = r * p + p /\ r * p \in Int
      BY <1>7, <3>1, Products
    <3>3. n * (p - 0) = 0 - p
      BY <1>7, <2>2, Products
    <3> QED BY <1>7, <3>2, <3>3
  <2> QED BY <2>1, <2>2
<1>12. old.totals[0].amount = SumFunction(Worth(old))
  BY DEF ShownCart
<1>13. new.totals[0].amount = SumFunction(Worth(new))
  <2>1. q * p \in Int /\ r * p \in Int
    BY <1>7, Products
  <2> QED BY <1>1, <1>2, <1>6, <1>9, <1>10, <1>11, <1>12, <2>1
<1> QED BY <1>3, <1>13 DEF ShownCart

\* Whatever sells or voids an item takes the price of its copy.
LEMMA CausedByCopy ==
  ASSUME IndInv, PlainPricing, Priced, NEW c \in sessions, NEW kind \in {"IA", "IV"},
         NEW b \in KnownBarcodes, NEW price, NEW discount, Cause(c, kind, b, price, discount)
  PROVE  /\ discount = 0
         /\ kind = "IA" => carts[c].local[ItemOf[b]] # NoCopy
         /\ carts[c].local[ItemOf[b]] # NoCopy => price = carts[c].local[ItemOf[b]]
<1>1. CASE \E t \in Threads : /\ PastCheck(t, c) /\ job[t].row.kind = kind
                              /\ job[t].row.barcode = b
                              /\ price = job[t].price /\ discount = job[t].discount
  BY <1>1 DEF PastCheck, Priced, JobPriced, JobItem
<1>2. ASSUME loading # NotLoading, loading.cart = c, loading.row < Len(journal[c]),
             carts[c].state # "voided",
             journal[c][loading.row + 1].kind = kind, journal[c][loading.row + 1].barcode = b,
             price = GetItemPrice(carts[c], ItemOf[b], b, archive[ItemOf[b]].price), discount = 0
      PROVE  /\ kind = "IA" => carts[c].local[ItemOf[b]] # NoCopy
             /\ carts[c].local[ItemOf[b]] # NoCopy => price = carts[c].local[ItemOf[b]]
  <2>1. PICK n : n = loading.row + 1
    OBVIOUS
  <2>2. c \in CartIds /\ n \in 1..Len(journal[c]) /\ b \in Barcodes
    BY <1>2, <2>1 DEF IndInv, Base, TypeOK, KnownBarcodes
  <2>3. Kept(carts[c]) = image[c][n]
    BY <1>2, <2>1 DEF IndInv, Accounts, ReplayFollowsTheLiveSession, KeptAt, PlainPricing
  <2>4. ~image[c][n].voided /\ image[c][n].local = carts[c].local
    <3>1. Kept(carts[c]).voided = FALSE /\ Kept(carts[c]).local = carts[c].local
      BY <1>2 DEF Kept
    <3> QED BY <2>3, <3>1
  <2>5. kind = "IA" => carts[c].local[ItemOf[b]] # NoCopy
    BY <1>2, <2>1, <2>2, <2>4 DEF Priced, RowsPriced
  <2>6. EmbeddedPrice[b] = NoPrice /\ ~PriceChanges
    BY <2>2 DEF PlainPricing
  <2> QED BY <1>2, <2>5, <2>6 DEF GetItemPrice
<1> QED BY <1>1, <1>2 DEF Cause

LEMMA MovedShownCart ==
  ASSUME IndInv, PlainPricing, Priced, NEW c \in sessions, ShownCart(carts[c]),
         carts'[c] \in CartRecord, Moves(c)
  PROVE  ShownCart(carts'[c])
<1>1. PICK old, new : old = carts[c] /\ new = carts'[c]
  OBVIOUS
<1>2. old \in CartRecord /\ new \in CartRecord /\ ShownCart(old)
  BY <1>1 DEF IndInv, Base, TypeOK
<1>3. /\ old.goods.items \in [Items -> Nat] /\ old.totals \in Totals
      /\ 0 \notin Departments /\ \A b \in KnownBarcodes : ItemOf[b] \in Items
  BY <1>2, CartAssumption DEF CartRecord, Goods, PlainPricing, KnownBarcodes
<1> SUFFICES ShownCart(new)
  BY <1>1
<1>4. ASSUME new.goods = old.goods, new.totals = old.totals,
             \A i \in Items : old.local[i] # NoCopy => new.local[i] = old.local[i]
      PROVE  ShownCart(new)
  <2>1. \A i \in Items : old.goods.items[i] > 0 => new.local[i] = old.local[i]
    BY <1>2, <1>4 DEF ShownCart
  <2>2. Worth(new) = Worth(old)
    BY <1>4, <2>1 DEF Worth
  <2> QED BY <1>2, <1>4, <2>1, <2>2 DEF ShownCart
<1>5. ASSUME NEW b \in KnownBarcodes, NEW d \in Departments, NEW price \in Int,
             NEW discount \in Int, Sells(old, new, b, d, price, discount),
             Cause(c, "IA", b, price, discount)
      PROVE  ShownCart(new)
  <2>1. PICK i : i = ItemOf[b]
    OBVIOUS
  <2>2. i \in Items /\ old.local[i] # NoCopy /\ price = old.local[i] /\ discount = 0
    BY <1>1, <1>3, <1>5, <2>1, CausedByCopy
  <2>3. new.totals[0].amount = old.totals[0].amount + 1 * (old.local[i] - 0)
    <3>1. new.totals = Book(old.totals, d, 1, price, discount) /\ 1 \in {-1, 1} /\ 0 \in {0, d}
      BY <1>5 DEF Sells
    <3>2. new.totals[0].amount = old.totals[0].amount + 1 * (price - discount)
      BY <1>3, <3>1, BookRows
    <3> QED BY <2>2, <3>2
  <2>4. /\ \A j \in Items : j # i => new.goods.items[j] = old.goods.items[j]
        /\ new.goods.items[i] = old.goods.items[i] + 1
        /\ new.local = old.local
    BY <1>3, <1>5, <2>1, <2>2 DEF Sells, PutGoods
  <2>5. 1 \in {-1, 1}
    OBVIOUS
  <2> QED BY <1>2, <2>2, <2>3, <2>4, <2>5, UnitShown
<1>6. ASSUME NEW b \in KnownBarcodes, NEW d \in Departments, NEW price \in Int,
             NEW discount \in Int, TakesOut(old, new, b, d, price, discount),
             Cause(c, "IV", b, price, discount)
      PROVE  ShownCart(new)
  <2>1. PICK i : i = ItemOf[b]
    OBVIOUS
  <2>2. i \in Items /\ old.goods.items[i] > 0 /\ old.local[i] # NoCopy
    BY <1>2, <1>3, <1>6, <2>1 DEF TakesOut, InCart, ShownCart
  <2>3. price = old.local[i] /\ discount = 0
    BY <1>1, <1>6, <2>1, <2>2, CausedByCopy
  <2>4. new.totals[0].amount = old.totals[0].amount + (-1) * (old.local[i] - 0)
    <3>1. new.totals = Book(old.totals, d, -1, price, discount) /\ -1 \in {-1, 1} /\ 0 \in {0, d}
      BY <1>6 DEF TakesOut
    <3>2. new.totals[0].amount = old.totals[0].amount + (-1) * (price - discount)
      BY <1>3, <3>1, BookRows
    <3> QED BY <2>3, <3>2
  <2>5. /\ \A j \in Items : j # i => new.goods.items[j] = old.goods.items[j]
        /\ new.goods.items[i] = old.goods.items[i] + (-1)
        /\ new.local = old.local
    BY <1>3, <1>6, <2>1, <2>2 DEF TakesOut, TakeGoods, Erased
  <2>6. -1 \in {-1, 1}
    OBVIOUS
  <2> QED BY <1>2, <2>2, <2>4, <2>5, <2>6, UnitShown
<1>7. CASE Stays(old, new)
  BY <1>4, <1>7 DEF Stays
<1>8. ASSUME NEW loy, Carded(old, new, loy)
      PROVE  ShownCart(new)
  BY <1>4, <1>8 DEF Carded
<1> QED BY <1>1, <1>5, <1>6, <1>7, <1>8 DEF Moves

LEMMA ShownHolds == Spec => []Shown
<1>1. Init => Shown
  BY DEF Init, Shown
<1>2. IndInv /\ IndInv' /\ Priced /\ Shown /\ [Next]_vars => Shown'
  <2> SUFFICES ASSUME IndInv, IndInv', Priced, Shown, [Next]_vars, PlainPricing,
                      NEW c \in sessions'
               PROVE  ShownCart(carts'[c])
    BY DEF Shown, PlainPricing, ShownCart, Worth
  <2>1. CASE Fresh(carts'[c])
    BY <2>1, FreshShownCart
  <2>2. CASE c \in sessions /\ Moves(c)
    <3>1. carts'[c] \in CartRecord /\ ShownCart(carts[c])
      BY <2>2 DEF IndInv, Base, TypeOK, Shown
    <3> QED BY <2>2, <3>1, MovedShownCart
  <2>3. c \in CartIds
    BY DEF IndInv, Base, TypeOK
  <2> QED BY <2>1, <2>2, <2>3, CartStep
<1> QED BY <1>1, <1>2, PricedHolds, Inductive, PTL DEF Spec

\* The total a customer pays is the sum of what the device showed for each item
\* when it was first sold, whatever variations, voids and restarts came in
\* between, and whatever the other sessions' requests interleave, if those of
\* the session itself come one at a time.
THEOREM TotalStaysAsShown == Spec => []TotalIsAsShown
<1>1. IndInv /\ Shown => TotalIsAsShown
  <2> SUFFICES ASSUME IndInv, Shown, PlainPricing, NEW c \in sessions
               PROVE  LET cart == carts[c]
                          units(i) == cart.goods.items[i]
                      IN /\ \A i \in Items : units(i) > 0 => cart.local[i] # NoCopy
                         /\ cart.totals[0].amount =
                              SumFunction([i \in {x \in Items : units(x) > 0} |->
                                             units(i) * cart.local[i]])
    BY DEF TotalIsAsShown
  <2> DEFINE cart == carts[c]
             sold == {x \in Items : cart.goods.items[x] > 0}
             f == [i \in sold |-> cart.goods.items[i] * cart.local[i]]
  <2>1. ShownCart(cart) /\ cart \in CartRecord
    BY DEF Shown, IndInv, Base, TypeOK
  <2>2. Worth(cart) \in [Items -> Int]
    BY <2>1, WorthType DEF ShownCart
  <2>3. /\ sold \in SUBSET Items
        /\ \A i \in sold : f[i] = Worth(cart)[i]
        /\ \A i \in Items \ sold : Worth(cart)[i] = 0
    BY DEF Worth
  <2>4. DOMAIN f = sold /\ DOMAIN Worth(cart) = Items
    BY DEF Worth
  <2> HIDE DEF f, sold
  <2>5. SumFunctionOnSet(f, sold) = SumFunctionOnSet(Worth(cart), Items)
    BY <2>2, <2>3, FiniteStore, SumOnSupport
  <2>6. SumFunction(f) = SumFunction(Worth(cart))
    BY <2>4, <2>5 DEF SumFunction
  <2>7. /\ \A i \in Items : cart.goods.items[i] > 0 => cart.local[i] # NoCopy
        /\ cart.totals[0].amount = SumFunction(f)
    BY <2>1, <2>6 DEF ShownCart
  <2> QED BY <2>7 DEF f, sold
<1> QED BY <1>1, ShownHolds, Inductive, PTL

=============================================================================
