---------------------------- MODULE BarcodeRules ----------------------------
(***************************************************************************)
(* What BaseSystem::decodeBarcode (src/src/base_system.cpp) makes of a     *)
(* barcode.  A number of 64 bits is the sequence of its decimal digits,    *)
(* since the patterns look at the digits only.                             *)
(***************************************************************************)
EXTENDS Integers, Sequences

Digits == 0..9
Zero   == <<0>>

\* ULLONG_MAX: strtoull yields it for every larger number.
Largest == <<1, 8, 4, 4, 6, 7, 4, 4, 0, 7, 3, 7, 0, 9, 5, 5, 1, 6, 1, 5>>

\* m and n have the same length.
Above(m, n) == \E k \in DOMAIN m : m[k] > n[k] /\ \A j \in 1..(k - 1) : m[j] = n[j]

Unpadded(text) ==
  LET significant == {k \in DOMAIN text : text[k] # 0}
  IN IF significant = {} THEN Zero
     ELSE SubSeq(text, CHOOSE k \in significant : \A j \in significant : k <= j, Len(text))

\* strtoull and the stream operator: the digits of the number a text of
\* digits stands for, without leading zeros.
Decimal(text) ==
  LET n == Unpadded(text)
  IN IF Len(n) > Len(Largest) \/ (Len(n) = Len(Largest) /\ Above(n, Largest))
     THEN Largest ELSE n

-----------------------------------------------------------------------------

Kinds == {"BCODE_LOYCARD", "BCODE_EAN13", "BCODE_EAN13_PRICE_REQ", "BCODE_UPC",
          "BCODE_EAN8", "BCODE_NOT_RECOGNIZED"}

\* The regular expressions of the constructor, which has the prefix of the
\* cards in its text.
HasCardPrefix(b) == Len(b) \in {11, 12} /\ SubSeq(b, 1, 3) = <<2, 6, 0>>

Kind(b) ==
  CASE HasCardPrefix(b) -> "BCODE_LOYCARD"
    [] Len(b) = 13 /\ b[1] = 2 -> "BCODE_EAN13_PRICE_REQ"
    [] Len(b) = 13 /\ b[1] # 2 -> "BCODE_EAN13"
    [] Len(b) = 12 /\ ~HasCardPrefix(b) -> "BCODE_UPC"
    [] Len(b) = 8 -> "BCODE_EAN8"
    [] OTHER -> "BCODE_NOT_RECOGNIZED"

Recognized(b) == Kind(b) # "BCODE_NOT_RECOGNIZED"
CarriesPrice(b) == Kind(b) = "BCODE_EAN13_PRICE_REQ"

\* A label with a price is looked up by its first seven digits.
LookupKey(b) == IF CarriesPrice(b) THEN SubSeq(b, 1, 7) \o <<0, 0, 0, 0, 0, 0>> ELSE b

\* The five digits after them are the price; the last is a check digit.
LabelPrice(b) == 10000 * b[8] + 1000 * b[9] + 100 * b[10] + 10 * b[11] + b[12]

=============================================================================
