---------------------------- MODULE MCBaseSystem ----------------------------
(***************************************************************************)
(* Small stores for TLC.                                                   *)
(***************************************************************************)
EXTENDS BaseSystemProperties, TLC

CONSTANTS milk, bag, ham,            \* items
          milkA, milkB, bagA, hamA, unknown   \* barcodes

Record(p, d, b) == [price |-> p, dept |-> d, linked |-> b]

\* A store with three items: milk (two barcodes) and bag bring each other
\* along, ham is weighed and its barcode carries the price.
LinkedItemOf  == milkA :> milk @@ milkB :> milk @@ bagA :> bag @@ hamA :> ham
                 @@ unknown :> NoItem
LinkedArchive == milk :> Record(3, 1, bagA) @@ bag :> Record(1, 2, milkB)
                 @@ ham :> Record(1, 2, NoBarcode)
HamWeighed    == [b \in Barcodes |-> IF b = hamA THEN 4 ELSE NoPrice]

\* A store with two items, one barcode each and nothing linked.
PlainItemOf  == milkA :> milk @@ bagA :> bag
PlainArchive == milk :> Record(3, 1, NoBarcode) @@ bag :> Record(1, 2, NoBarcode)

\* A store with one item.
OneItemOf      == milkA :> milk
OneItemArchive == milk :> Record(3, 1, NoBarcode)

\* Cards are only compared with each other.
CardSymmetry == Permutations(Cards)

NoEmbedded   == [b \in Barcodes |-> NoPrice]
NoDiscount   == [x \in Items \X Prices |-> 0]
OneOffMilk   == [x \in Items \X Prices |-> IF x[1] = milk THEN 1 ELSE 0]
MilkGoesUp   == {<<milk, 4, 2>>}
NoVariations == {}

=============================================================================
