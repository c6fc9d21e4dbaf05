----------------------- MODULE ItemRequestsProperties -----------------------
(***************************************************************************)
(* What the requests about items promise.  The texts of urls and amounts   *)
(* are read here the way their grammar says, not the way the code goes     *)
(* through them.                                                           *)
(***************************************************************************)
EXTENDS ItemRequests

(* Urls. *)

Plain(u) == [k \in DOMAIN u |-> Unescaped(u[k])]

Refusable(u) ==
  \/ \E k \in DOMAIN u : u[k] = "%zz"
  \/ Plain(u)[1] # "/"
  \/ \E k \in 1..(Len(u) - 1) : Plain(u)[k] = "." /\ Plain(u)[k + 1] = "."

Slashes(p, n) == {k \in 1..(n - 1) : p[k] = "/"}

\* Of ".../<name>?<parameters>": no "?" but the one behind the name, no "/"
\* in the name, and two more before it.
NameWithParams(p, name) ==
  \E n \in DOMAIN p :
    /\ p[n] = "?" /\ \A k \in DOMAIN p : k > n => p[k] # "?"
    /\ n > 2 /\ p[n - 1] = name /\ p[n - 2] = "/" /\ Cardinality(Slashes(p, n)) >= 3

\* Of ".../<name>" without parameters.
NameAlone(p, name) ==
  /\ Len(p) > 1 /\ p[Len(p)] = name /\ p[Len(p) - 1] = "/"
  /\ Cardinality(Slashes(p, Len(p))) >= 3
  /\ \A n \in DOMAIN p : p[n] = "?" => Cardinality(Slashes(p, n)) < 3

Separates(t) == t \in {"&", ";"}

\* What the field before position n is made of: a name, and "=" and a text.
FieldFits(s, from, n) ==
  /\ n > from /\ s[from] \in Words
  /\ \/ \A k \in from..(n - 1) : InName(s[k])
     \/ \E e \in (from + 1)..(n - 2) :
          s[e] = "=" /\ \A k \in (from..(n - 1)) \ {e} : InName(s[k])

\* A field starts at n, and all fields before it fit.
Begins(s, n) ==
  /\ n = 1 \/ Separates(s[n - 1])
  /\ \A m \in 1..(n - 1) :
       Separates(s[m]) =>
         LET from == Max({0} \cup {k \in 1..(m - 1) : Separates(s[k])}) + 1
         IN FieldFits(s, from, m)

\* The positions of the fields with a key, as far as the fields fit.
FieldsOf(s, key) ==
  {n \in DOMAIN s : Begins(s, n) /\ s[n] = key /\ (n = Len(s) \/ ~InName(s[n + 1]))}

Texts(s, n) ==
  IF n < Len(s) - 1 /\ s[n + 1] = "=" /\ InName(s[n + 2])
  THEN LET e == Max({m \in (n + 2)..Len(s) : \A k \in (n + 2)..m : InName(s[k])})
       IN SubSeq(s, n + 2, e)
  ELSE << >>

\* What the first field with the key says.
Written(p, key) ==
  LET n == Max({0} \cup {k \in DOMAIN p : p[k] = "?"})
      s == SubSeq(p, n + 1, Len(p))
  IN IF n = 0 \/ Cardinality(Slashes(p, n)) < 3 \/ FieldsOf(s, key) = {} THEN << >>
     ELSE Texts(s, Min(FieldsOf(s, key)))

\* A url that is no url, or leaves its directory, reaches no session.  Any
\* other calls the action its text names, or none, with the parameters its
\* first fields say, whatever is escaped, doubled or cut off.
UrlsNameTheirAction ==
  url # << >> =>
    LET p == IF Plain(url)[Len(url)] = "/" THEN Plain(url) \o <<"index", ".", "html">>
             ELSE Plain(url)
    IN IF Refusable(url) THEN answer = Only("bad_request")
       ELSE /\ \A a \in ParamActions : (called.action = a) <=> NameWithParams(p, a)
            /\ \A a \in PlainActions : (called.action = a) <=> NameAlone(p, a)
            /\ \A key \in {"barcode", "devSessId"} :
                 Param(called.params, key) = Written(p, key)

-----------------------------------------------------------------------------
(* Barcodes. *)

SameLabel(a, b) ==
  \/ a = b
  \/ CarriesPrice(a) /\ CarriesPrice(b) /\ \A k \in 1..7 : a[k] = b[k]

\* Row m says the item of row n: its own, or that of the nearest row above
\* that has one.
Tells(m, n) ==
  /\ m \in 1..n /\ BarcodeRows[m].item # Absent
  /\ \A k \in (m + 1)..n : BarcodeRows[k].item = Absent

\* The rows with the label b.
RowsOf == [b \in Labels |-> {n \in DOMAIN BarcodeRows : SameLabel(Decimal(BarcodeRows[n].text), b)}]

\* A barcode stands for the item of the last row with its label, and one no
\* row has for none, whatever was looked up before: the blank records that
\* lookups leave behind are found by nobody, and labels with a price are
\* found whatever price they carry, in the file and in the hand.
LabelsFindTheirItem ==
  \A b \in Labels :
    LET rows == RowsOf[b] \cap 1..read
    IN /\ rows = {} => CodeOf(b) = 0
       /\ \A n \in rows : (\A m \in rows : m <= n) =>
            \A m \in 1..n : Tells(m, n) => CodeOf(b) = BarcodeRows[m].item

-----------------------------------------------------------------------------
(* Amounts. *)

ValueOf(ds) == LET upto[k \in 0..Len(ds)] == IF k = 0 THEN 0 ELSE 10 * upto[k - 1] + ds[k]
               IN upto[Len(ds)]

IsDigits(ds) == ds # << >> /\ \A k \in DOMAIN ds : ds[k] \in Digits

\* The text without its sign, and the amount it says if it has two decimals.
Unsigned(t) == IF t # << >> /\ t[1] = Minus THEN SubSeq(t, 2, Len(t)) ELSE t
TwoDecimals(t) ==
  LET u == Unsigned(t)
      n == Len(u)
  IN n > 3 /\ u[n - 2] = Dot /\ IsDigits(SubSeq(u, 1, n - 3)) /\ IsDigits(SubSeq(u, n - 1, n))
Cents(t) ==
  LET u == Unsigned(t)
      n == Len(u)
      v == ValueOf(SubSeq(u, 1, n - 3) \o SubSeq(u, n - 1, n))
  IN IF t = u THEN v ELSE -v

\* An amount that is not shown, nothing, or one with two decimals.
Clear(t) == t = << >> \/ t = <<0, Dot, 0>> \/ TwoDecimals(t)
Said(t) == IF TwoDecimals(t) THEN Cents(t) ELSE 0

\* Amounts whose texts say something else or are no number: "0.5" is five
\* cents, "0.-5" minus five, "-.25" minus twenty-five.
Misread == 1..9 \cup -99..-1

TotalOf(cart) == cart.totals[0].amount
OfADepartment(code) ==
  ItemAt(code).department # 0 /\ (HasLink(code) => ItemAt(LinkCode(code)).department # 0)
SumShown == Said(answer'.price) + Said(answer'.linked) + Said(answer'.promo)
AllClear == Clear(answer'.price) /\ Clear(answer'.linked) /\ Clear(answer'.promo)

\* The prices a void shows of what the cart does not have: nothing is taken
\* for them.  The linked item is looked for when the item is gone.
NotThere(cart, b) ==
  LET code == CodeOf(b)
      link == LinkCode(code)
      had == cart.goods.items[link] > (IF link = code THEN 1 ELSE 0)
  IN (IF C!InCart(cart, code) THEN 0 ELSE PriceIn(cart, b))
     + (IF HasLink(code) /\ ~had THEN ItemAt(link).price ELSE 0)

\* What the answers say adds up: the amount to pay is the session's total,
\* a sale has moved it by the prices and the promotion shown with it, a void
\* by the prices shown without those of an item or a linked item that was not
\* in the cart (the answer to such a void shows its price, the void flag and
\* status 0 all the same), and any other request, or one in a voided session,
\* not at all.  Left out: an amount or a price that is misread (see above),
\* and sales and voids of items of department 0, which are booked twice.
ShownAddsUp ==
  [][requests' # requests /\ answer'.amount # << >> =>
       LET b == BarcodeIn(called'.params)
           moved == TotalOf(session') - TotalOf(session)
           changes == C!Accepts(session) /\ called'.action \in {"addItem", "voidItem"}
       IN /\ TotalOf(session') \notin Misread
               => Clear(answer'.amount) /\ Said(answer'.amount) = TotalOf(session')
          /\ ~changes => moved = 0
          /\ changes /\ OfADepartment(CodeOf(b)) /\ AllClear =>
               moved = IF called'.action = "addItem" THEN SumShown
                       ELSE NotThere(session, b) - SumShown]_vars

\* What a barcode sells, the same barcode voids: at once after the sale the
\* void restores the rows of the cart and the counters, linked item included;
\* of each department's row and of the total only the promotion has moved
\* from the amount to the discount.
VoidUndoesSale ==
  session # NoSession /\ C!Accepts(session) =>
    \A b \in Numbers :
      LET code == CodeOf(b)
          price == PriceIn(Copied(session, code), b)
      IN Recognized(b) /\ code # 0 /\ ItemAt(code).code = code =>
           \A promo \in PromosFor(code, price) :
             LET after == Voided(Sold(session, b, promo), b)
             IN /\ after.goods = session.goods
                /\ \A d \in DOMAIN session.totals :
                     LET t == session.totals[d]
                         u == after.totals[d]
                     IN u.items = t.items /\ u.amount + u.discount = t.amount + t.discount

=============================================================================
