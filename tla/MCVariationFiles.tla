-------------------------- MODULE MCVariationFiles --------------------------
(* Small instances of VariationFiles for TLC. *)
EXTENDS VariationFiles

CONSTANTS f1, f2, b1

\* Item 1 is linked to a barcode, item 2 is not.
ShippedMC == [i \in Items |-> [code |-> i, price |-> 1, link |-> IF i = 1 THEN b1 ELSE NoLink]]

\* f1 has two complete rows; f2 has a row of another archive and a row
\* without a price before a complete one.
ContentsMC ==
  [f \in Files |->
     IF f = f1
     THEN <<[kind |-> "I", item |-> 1, price |-> 1], [kind |-> "I", item |-> 2, price |-> 2]>>
     ELSE <<[kind |-> "other", item |-> Absent, price |-> Absent],
            [kind |-> "I", item |-> 1, price |-> Absent],
            [kind |-> "I", item |-> 2, price |-> 3]>>]

=============================================================================
