--------------------------- MODULE MCItemRequests ---------------------------
(* A small store for ItemRequests, its devices and other clients. *)
EXTENDS ItemRequestsProperties, SequencesExt

SeqsUpTo(S, n) == UNION {[1..k -> S] : k \in 0..n}

EAN13   == <<8, 0, 0, 1, 1, 1, 1, 0, 0, 0, 0, 1, 5>>
EAN8    == <<1, 2, 3, 4, 5, 6, 7, 8>>
Cut     == <<5, 5, 5, 5, 5, 5, 5, 5>>
UPC     == <<3, 6, 0, 0, 0, 2, 9, 1, 4, 5, 2, 1>>
OddLink == <<7, 7, 7, 7, 7, 7, 7, 7>>
Ghost   == <<8, 8, 8, 8, 8, 8, 8, 8>>
Nowhere == <<9, 9, 9, 9, 9, 9, 9, 9>>
Short   == <<1, 6, 2, 5>>
Weighed(price) == <<2, 1, 2, 3, 4, 5, 6>> \o price \o <<4>>

Scanned ==
  ("1" :> <<1>>) @@ ("ean13" :> EAN13) @@ ("00ean8" :> <<0, 0>> \o EAN8) @@ ("cut" :> Cut)
  @@ ("upc" :> UPC) @@ ("oddlink" :> OddLink) @@ ("ghost" :> Ghost) @@ ("nowhere" :> Nowhere)
  @@ ("short" :> Short) @@ ("kilo" :> Weighed(<<0, 0, 1, 5, 0>>))
  @@ ("twokilos" :> Weighed(<<0, 0, 3, 0, 0>>))
  @@ ("huge" :> EAN13 \o EAN13)
NumeralsMC == DOMAIN Scanned

\* A label with a price among the rows, an empty line, and a row that a later
\* one replaces; item 9 is in no other archive.
RowsMC ==
  <<[text |-> EAN13, item |-> 2], [text |-> EAN8, item |-> 2], [text |-> UPC, item |-> 4],
    [text |-> Weighed(<<0, 9, 9, 9, 9>>), item |-> 3], [text |-> OddLink, item |-> 5],
    [text |-> Ghost, item |-> 9], [text |-> << >>, item |-> Absent], [text |-> Cut, item |-> 6],
    [text |-> Short, item |-> 1], [text |-> EAN13, item |-> 1]>>

\* Item 4 brings the deposit 1 along; the link of item 5 is no barcode.
ItemsMC ==
  [i \in 1..6 |->
     [code |-> i, price |-> CASE i = 1 -> 25 [] i = 2 -> 57 [] i = 6 -> 200 [] OTHER -> 120,
      department |-> IF i = 2 THEN 2 ELSE 1,
      link |-> CASE i = 4 -> EAN13 [] i = 5 -> Nowhere [] OTHER -> Zero]]

\* All of item 2 is given away, in percent.
PromosMC ==
  (2 :> [type |-> "PROMO_TYPE_DSC_PERC", discount |-> 100])
  @@ (4 :> [type |-> "PROMO_TYPE_DSC_VAL", discount |-> 50])
  @@ (6 :> [type |-> "PROMO_TYPE_PRICE_CUT", discount |-> 110])

WordsMC == ParamActions \cup PlainActions
           \cup {"index", "html", "kStore", "devSessId", "barcode"}

Prefix == <<"/", "kStore", "/", "kStore", "/">>
Params1 == <<"?", "devSessId", "=", "1">>
ItemUrl(a, n) == Prefix \o <<a>> \o Params1 \o <<"&", "barcode", "=", n>>

\* As in the repository's README.
DeviceUrlsMC ==
  {Prefix \o <<a>> \o Params1 : a \in {"initSession", "getTotals", "voidTransaction", "getAllCart"}}
  \cup {ItemUrl(a, n) : a \in {"addItem", "voidItem"}, n \in NumeralsMC \ {"1"}}
  \cup {ItemUrl("getItemInfo", n) : n \in {"kilo", "cut", "nowhere"}}

\* Paths of every shape, escaped or not, and parameters of every shape.
StrayUrlsMC ==
  SeqsUpTo({"/", "addItem", ".", "%2F", "%2E", "%zz", "%4/", "%-1", "+"}, 3)
  \cup {<<"/">> \o s : s \in SeqsUpTo({"/", "?", "addItem", "getStoreInfo"}, 5)}
  \cup {<<"/", "/", "/">> \o s :
          s \in SeqsUpTo({"/", "?", "addItem", "getStoreInfo", "%2F", "%3F", "%4/", "kStore"}, 4)}
  \cup {Prefix \o <<"addItem", "?">> \o s :
          s \in SeqsUpTo({"barcode", "=", "1", "devSessId", "&", ";", "%26", "%4/", "+", "/", "?"}, 3)
                \cup SeqsUpTo({"barcode", "=", "1", "&", "."}, 5)}

=============================================================================
