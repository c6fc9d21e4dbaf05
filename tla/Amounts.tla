------------------------------ MODULE Amounts -------------------------------
(***************************************************************************)
(* The discount of a promotion and the texts of amounts, as                *)
(* salesActionsFromWebInterface and fromLongToStringWithDecimals           *)
(* (src/src/base_system.cpp) work them out.  An amount is in cents; a text *)
(* is a sequence of symbols.                                               *)
(***************************************************************************)
EXTENDS Integers, Sequences

CONSTANT Word   \* the values of an unsigned 64 bit number are 0 .. Word - 1

ASSUME WordAssumption == Word \in Nat \ {0, 1} /\ Word % 2 = 0

AsUnsigned(v) == v % Word
AsSigned(v)   == IF 2 * v >= Word THEN v - Word ELSE v

-----------------------------------------------------------------------------
(* Promotions. *)

PromoTypes == {"PROMO_TYPE_DSC_VAL", "PROMO_TYPE_DSC_PERC", "PROMO_TYPE_PRICE_CUT",
               "PROMO_TYPE_POINTS"}

\* price / 100. * percent, cut to an integer.  Cents that are no whole
\* amount are not exact in a double: a product that should be a whole number
\* may come out just below it.
Percentages(price, percent) ==
  LET exact == (price * percent) \div 100
      mayBeBelow == price % 100 # 0 /\ (price * percent) % 100 = 0 /\ exact > 0
  IN IF mayBeBelow THEN {exact - 1, exact} ELSE {exact}

\* The values promo_val, which is unsigned, may get.
PromoValues(promo, price) ==
  CASE promo.type = "PROMO_TYPE_DSC_VAL" -> {AsUnsigned(promo.discount)}
    [] promo.type = "PROMO_TYPE_DSC_PERC" ->
         {AsUnsigned(v) : v \in Percentages(price, promo.discount)}
    [] promo.type = "PROMO_TYPE_PRICE_CUT" -> {AsUnsigned(price - promo.discount)}
    [] OTHER -> {0}

-----------------------------------------------------------------------------
(* Texts. *)

Dot   == 10
Minus == 11
Symbols == 0..11

\* The decimal digits of a natural number.
DigitsOf[n \in Nat] == IF n < 10 THEN <<n>> ELSE Append(DigitsOf[n \div 10], n % 10)

LongText(v) == IF v < 0 THEN <<Minus>> \o DigitsOf[-v] ELSE DigitsOf[v]

\* A text of one or two symbols is put behind "0." as it is: five cents are
\* "0.5", and minus five "0.-5".
FromLongToStringWithDecimals(v) ==
  LET t == LongText(v)
      n == Len(t)
  IN IF n < 3 THEN <<0, Dot>> \o t ELSE SubSeq(t, 1, n - 2) \o <<Dot>> \o SubSeq(t, n - 1, n)

=============================================================================
