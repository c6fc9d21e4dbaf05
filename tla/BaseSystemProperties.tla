------------------------ MODULE BaseSystemProperties ------------------------
(***************************************************************************)
(* What the sessions of BaseSystem promise to the devices, to the pay      *)
(* stations and to the store across interleavings and restarts.            *)
(***************************************************************************)
EXTENDS BaseSystem, Functions

-----------------------------------------------------------------------------
(* Types. *)

KeptRecord == [goods : Goods, loy : Loy, voided : BOOLEAN, local : Copies]

\* Every variable holds a value of its type; carts without a key are fresh.
TypeOK ==
  /\ phase \in {"down", "loading", "up"}
  /\ sessions \subseteq CartIds /\ files \subseteq CartIds /\ pending \subseteq CartIds
  /\ carts \in [CartIds -> CartRecord]
  /\ registry \in [Cards -> CartIds \cup {NoOwner}]
  /\ nextNumber \in Nat
  /\ archive \in [Items -> ArchiveRecord] /\ disk \in [Items -> ArchiveRecord]
  /\ journal \in [CartIds -> Seq(Rows)]
  /\ posFile \in [PayStations -> PosDocument \cup {NoFile}]
  /\ job \in [Threads -> Job]
  /\ loading \in [cart : {0} \cup CartIds, row : Nat]
  /\ issued \in [CartIds -> Nat]
  /\ image \in [CartIds -> Seq(KeptRecord)]
  /\ served \in Nat /\ crashes \in Nat

-----------------------------------------------------------------------------
(* Restarts. *)

\* What session c kept when the first n rows of its journal had been written.
KeptAt(c, n) == image[c][n + 1]

\* Replaying a journal rebuilds, row by row, what the live session kept when
\* the method that wrote that row was done with it (loadCartsInProgress against
\* the methods of Cart), if its requests came one at a time.  Requests that
\* overlap in one session may write their rows in another order than they
\* change the cart, and two of them may copy two prices of an item.
ReplayFollowsTheLiveSession ==
  OneAtATime /\ loading # NotLoading =>
    Kept(carts[loading.cart]) = KeptAt(loading.cart, loading.row)

\* No thread has changed session c without its row, or written the row of a
\* price copy without making the copy.
Settled(c) == \A t \in Threads : job[t].cart = c => job[t].pc \notin {"write", "keep"}

\* Only the change a request has at hand is ever in memory alone or in the
\* journal alone: at all other times a session in memory is the one of its last
\* row, also one that was just loaded.  This asks that the requests of a
\* session come one at a time.
SessionsAreJournalled ==
  OneAtATime =>
    \A c \in sessions \ {loading.cart} :
      Settled(c) => Kept(carts[c]) = KeptAt(c, Len(journal[c]))

\* A session some device was given exists whenever the server serves.
GivenSessionsExist ==
  phase = "up" => \A c \in CartIds : issued[c] > 0 => c \in sessions

\* A session with the row C,V in its journal never sells again, not even
\* after a restart (line 820).
VoidedForGood ==
  phase = "up" => \A c \in sessions :
    (\E n \in 1..Len(journal[c]) : journal[c][n] = RowCV) => carts[c].state = "voided"

\* Thread t found session c open and has yet to change it.
PastCheck(t, c) == job[t].cart = c /\ job[t].pc = "change"

\* A session that is void takes no further sale, void or card, from any number
\* of threads: no request gets past its look at the state any more, and goods
\* and totals only change by the one change of a request that was past it when
\* the session was voided (cart.cpp:236 against 240).
VoidedIsFrozen ==
  [][phase = "up" /\ phase' = "up" =>
       \A c \in sessions : carts[c].state = "voided" =>
         /\ carts'[c].state = "voided"
         /\ \A t \in Threads : PastCheck(t, c)' => PastCheck(t, c)
         /\ carts'[c].loy = carts[c].loy
         /\ carts'[c].goods # carts[c].goods \/ carts'[c].totals # carts[c].totals =>
              \E t \in Threads : PastCheck(t, c) /\ ~PastCheck(t, c)']_vars

-----------------------------------------------------------------------------
(* The invariant behind the properties above.                              *)

\* A thread in the middle of a request has a session's number and a barcode, a
\* price or a card that step can use.
JobFits(j) ==
  /\ j.pc # "idle" => j.cart \in CartIds
  /\ j.pc \in {"copy", "copyItem", "keep", "check", "link"} => j.row.kind \in {"IA", "IV"}
  /\ j.pc \in {"change", "write"} => j.row.kind \in {"IA", "IV", "CV"}
  /\ j.pc \in {"copy", "copyItem", "keep"} => ~PriceChanges
  /\ j.pc \in {"copyItem", "keep"} => j.price \in Prices
  /\ j.pc = "register" => j.row.kind = "LA" /\ OneAtATime
  /\ j.pc \in {"header", "send"} => j.header.station \in PayStations

\* Memory holds the sessions of the files and of the threads' requests; linked
\* barcodes are in the archive; the row C,V is written for void sessions only.
WellFormed ==
  /\ \A t \in Threads :
       /\ JobFits(job[t])
       /\ job[t].pc \notin {"idle", "insert"} => job[t].cart \in sessions
       /\ job[t].pc = "write" /\ job[t].row = RowCV => carts[job[t].cart].state = "voided"
       /\ phase # "up" => job[t] = Idle
  /\ \A i \in Items :
       /\ archive[i].linked # NoBarcode => ItemOf[archive[i].linked] \in Items
       /\ disk[i].linked # NoBarcode => ItemOf[disk[i].linked] \in Items
  /\ phase = "down" => sessions = {}
  /\ phase = "loading" => files = sessions \cup pending
  /\ phase = "up" => files = sessions
  /\ phase # "loading" => pending = {} /\ loading = NotLoading
  /\ loading # NotLoading =>
       loading.cart \in sessions /\ loading.row <= Len(journal[loading.cart])
  /\ \A c \in CartIds \ files : journal[c] = << >>

\* What a journal row adds to what a session kept.
Effect(kept, row) ==
  IF kept.voided THEN kept
  ELSE CASE row.kind = "IA" -> [kept EXCEPT !.goods = PutGoods(@, ItemOf[row.barcode], row.barcode)]
         [] row.kind = "IV" /\ kept.goods.items[ItemOf[row.barcode]] > 0 ->
              [kept EXCEPT !.goods = TakeGoods(@, ItemOf[row.barcode], row.barcode)]
         [] row.kind = "LA" -> [kept EXCEPT !.loy = PutCard(@, row.card)]
         [] row.kind = "LV" -> [kept EXCEPT !.loy = TakeCard(@, row.card)]
         [] row.kind = "KI" /\ ~PriceChanges ->
              [kept EXCEPT !.local = KeepCopy(@, row.item, row.price)]
         [] row.kind = "CV" -> [kept EXCEPT !.voided = TRUE, !.local = NoCopies]
         [] OTHER -> kept

\* The rows of a journal account for everything its session kept, one by one.
JournalAccounts ==
  \A c \in CartIds :
    /\ Len(image[c]) = Len(journal[c]) + 1
    /\ image[c][1] = Kept(NewCart("ready"))
    /\ \A n \in 1..Len(journal[c]) : image[c][n + 1] = Effect(image[c][n], journal[c][n])

\* Whether a cart is being loaded shows in its state.
StatesMatchPhase ==
  \A c \in sessions :
    IF c = loading.cart THEN carts[c].state \in {"loading", "voided"}
                        ELSE carts[c].state \in {"ready", "voided"}

\* What session c kept when its last row was written.
Latest(c) == KeptAt(c, Len(journal[c]))

\* What a request at job j makes of its cart, the last row of which stands for
\* `latest`: between the look at the state and the row the cart stays open, a
\* change that has no row yet is the row's effect, and a copy that has its row
\* is still to be made.
InFlight(j, cart, latest) ==
  /\ j.pc \in {"copyItem", "keep", "change"} => cart.state = "ready"
  /\ j.pc = "write" /\ j.row # RowCV => cart.state = "ready"
  /\ j.pc = "write" => Kept(cart) = Effect(latest, j.row)
  /\ j.pc = "keep" => latest = Kept(UpdateLocalItemMap(cart, JobItem(j), j.price))

\* The requests of a session come one at a time.
Polite ==
  /\ \A t, u \in Threads : \A c \in CartIds : Working(t, c) /\ Working(u, c) => t = u
  /\ \A t \in Threads : job[t] # Idle =>
       InFlight(job[t], carts[job[t].cart], Latest(job[t].cart))

\* The inductive invariant of the proofs.
JournalInvariant ==
  /\ WellFormed /\ StatesMatchPhase
  /\ OneAtATime => Polite /\ JournalAccounts
  /\ ReplayFollowsTheLiveSession /\ SessionsAreJournalled

-----------------------------------------------------------------------------
(* The store the devices see.                                              *)

\* What session c holds: what memory holds of it while the server serves it
\* and has no change of it at hand, what a restart brings back otherwise.
Content(c) ==
  IF phase = "up" /\ c \in sessions /\ Settled(c) THEN Kept(carts[c]) ELSE Latest(c)

Promise == INSTANCE SessionStore WITH
  Numbers <- CartIds,
  opened  <- files,
  voided  <- {c \in CartIds : Content(c).voided},
  units   <- [c \in CartIds |-> Content(c).goods.items],
  cards   <- [c \in CartIds |-> CardsIn(Content(c).loy)],
  shown   <- [c \in CartIds |-> Content(c).local]

\* To devices that wait for their answers (OneAtATime) the server is one store
\* of sessions that never forgets: whatever the threads interleave, and wherever
\* the process dies, each step sells, takes back, adds or removes one thing in
\* one session, or changes nothing; a start brings back every session as it was
\* left.
IsASessionStore == Promise!Spec

-----------------------------------------------------------------------------
(* Goods and amounts.  Two changes of one cart at the same instant are a   *)
(* data race inside its maps, where one of them may be lost: what the maps *)
(* agree on is promised to requests that come one at a time.               *)

\* The counter of the header sent to the pay station, the counter of the
\* total row (if no department has its code, 0) and the quantities of the
\* item rows are one number.
CountersAgree ==
  OneAtATime =>
    \A c \in sessions :
      LET cart == carts[c] IN
        /\ cart.goods.itemsNumber = SumFunction(cart.goods.items)
        /\ 0 \notin Departments => cart.goods.itemsNumber = cart.totals[0].items

\* The total row is the sum of the departments' rows, also when a variation
\* moves an item to another department during a session.  It asks that no
\* department has the code 0.
DepartmentsAddUp ==
  OneAtATime /\ 0 \notin Departments =>
    \A c \in sessions :
      LET row == carts[c].totals IN
        /\ row[0].items    = SumFunction([d \in Departments |-> row[d].items])
        /\ row[0].amount   = SumFunction([d \in Departments |-> row[d].amount])
        /\ row[0].discount = SumFunction([d \in Departments |-> row[d].discount])

\* If every item has one barcode, its quantity is its item's.
OneBarcodePerItem ==
  \A a, b \in Barcodes : ItemOf[a] = ItemOf[b] /\ ItemOf[a] # NoItem => a = b

BarcodesMirrorItems ==
  OneAtATime /\ OneBarcodePerItem =>
    \A c \in sessions : \A b \in Barcodes :
      ItemOf[b] # NoItem => carts[c].goods.barcodes[b] = carts[c].goods.items[ItemOf[b]]

\* Without promotions, linked barcodes, embedded prices and a department 0, the
\* total is what the customer was shown: each item at the price of its first
\* sale, whatever variations and restarts came in between.  Of requests that
\* overlap, the void of an item another one is just selling would take the
\* price of the archive.
PlainPricing ==
  /\ OneAtATime
  /\ ~PriceChanges
  /\ 0 \notin Departments
  /\ \A i \in Items : InitialArchive[i].linked = NoBarcode
  /\ \A i \in Items, p \in Prices : Discount[i, p] = 0
  /\ \A b \in Barcodes : EmbeddedPrice[b] = NoPrice

TotalIsAsShown ==
  PlainPricing =>
    \A c \in sessions :
      LET cart == carts[c]
          units(i) == cart.goods.items[i]
      IN /\ \A i \in Items : units(i) > 0 => cart.local[i] # NoCopy
         /\ cart.totals[0].amount =
              SumFunction([i \in {x \in Items : units(x) > 0} |-> units(i) * cart.local[i]])

-----------------------------------------------------------------------------
(* Loyalty cards. *)

\* A card is in one slot of a cart at most: removeLoyCard, which goes on
\* after erasing, erases once.
CardOnce ==
  \A c \in sessions : \A r, s \in 0..MaxCards :
    LET slots == carts[c].loy.slots
    IN slots[r] = slots[s] /\ slots[r] # NoCard => r = s

\* loy_cards_number, which is unsigned, counts at least the cards held and
\* never exceeds the maximum; only slots below the maximum are used.
LoyCounterInRange ==
  \A c \in sessions :
    /\ Cardinality(CardsIn(carts[c].loy)) <= carts[c].loy.number
    /\ carts[c].loy.number <= MaxCards
    /\ carts[c].loy.slots[MaxCards] = NoCard

\* With LoyOnlyOneShoppingSessionPerCard a card is held by one of the sessions
\* the server serves.
OneSessionPerCard ==
  OnlyOneSession /\ phase = "up" =>
    \A c, d \in sessions :
      CardsIn(carts[c].loy) \cap CardsIn(carts[d].loy) # {} => c = d

\* ... because each card a served cart holds is registered to that cart.
HeldCardsAreRegistered ==
  OnlyOneSession /\ phase = "up" =>
    \A c \in sessions : \A k \in CardsIn(carts[c].loy) : registry[k] = c

-----------------------------------------------------------------------------
(* Session numbers. *)

\* No two devices are given the same session, before or after restarts.
SessionsAreNotShared == \A c \in CartIds : issued[c] <= 1

-----------------------------------------------------------------------------
(* Pay stations. *)

\* The number of items in a file's header is the number of its rows, when
\* every item has one barcode and the requests of a session come one at a time:
\* no lock keeps a sale from coming between header and rows.
PosHeaderCountsRows ==
  OneAtATime /\ OneBarcodePerItem =>
    \A p \in PayStations :
      posFile[p] # NoFile => posFile[p].count = SumFunction(posFile[p].rows)

\* A session sent with a loyalty card in its cart is sent under one of the
\* cart's cards, if the requests of a session come one at a time.
PosCustomerHoldsTheCart ==
  [][\A p \in PayStations :
       OneAtATime /\ posFile'[p] # posFile[p] =>
         LET held == CardsIn(carts[posFile'[p].cart].loy)
         IN held # {} => posFile'[p].customer \in held]_vars

-----------------------------------------------------------------------------
(* Progress. *)

\* A server that is started gets to serve, however many sessions it left, open,
\* void or empty, and in whatever order their files are listed, if ITEMS.CSV is
\* there and the rows are whole ones.  A torn row would stop the constructor at
\* an assertion (line 676), a missing ITEMS.CSV would end the process.
BootEnds == (phase = "down") ~> (phase = "up")

\* A request is answered, or lost with the process.
RequestsEnd == \A t \in Threads : (job[t] # Idle) ~> (job[t] = Idle)

=============================================================================
