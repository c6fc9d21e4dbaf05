----------------------------- MODULE BaseSystem -----------------------------
(***************************************************************************)
(* The class BaseSystem (src/src/base_system.cpp): the sessions (carts)    *)
(* the store's devices shop with, served by a pool of threads, journalled  *)
(* row by row to one file per session, and rebuilt from those files when   *)
(* the process starts again after a crash.                                 *)
(*                                                                         *)
(* Sessions are changed without a lock, so a request is taken in the steps *)
(* between which other threads, or a death, may come: a sale looks at the  *)
(* state of the cart, changes the goods, looks at the state again and      *)
(* writes its row.  Two accesses are one step only where nobody can tell:  *)
(* in particular a cart that serves goes from open to void and never back, *)
(* so a test that finds it open may as well have been made earlier.  The   *)
(* accesses to the maps of a cart by one change are one step too: two      *)
(* changes of one cart at the same instant are a data race there, whose    *)
(* outcomes are left out, and no property about the maps allows for them.  *)
(*                                                                         *)
(* OneAtATime is an assumption on the devices, which the server does not   *)
(* enforce: the requests of a session come one at a time, as they do from  *)
(* a device that waits for its answers.                                    *)
(***************************************************************************)
EXTENDS Cart

CONSTANTS
  Threads,        \* the threads of the HTTP server (configuration WebThreads)
  Requests,       \* the kinds of requests the devices send
  OneAtATime,     \* whether the requests of a session come one at a time
  OnlyOneSession, \* configuration LoyOnlyOneShoppingSessionPerCard
  Discount,       \* [Items \X Prices -> Int], the item's promotion at a price
  Variations,     \* rows of price variation files: <<item, price, department>>
  InitialArchive, \* [Items -> ArchiveRecord], the shipped ITEMS.CSV
  NoFile,         \* a pay station without a .IN file
  PayStations,    \* the pay stations a session may be sent to
  MaxCart,        \* bound: session numbers 1 .. MaxCart
  MaxRequests,    \* bound: requests served on existing sessions
  MaxRows,        \* bound: rows of a journal to which a sale adds one
  MaxCrashes      \* bound: crashes of the process

RequestKinds == {"add", "void", "card", "uncard", "end", "cancel", "query"}

CartIds == 1..MaxCart
NoOwner == 0      \* a card without an entry in all_loy_cards_map

ArchiveRecord == [price : Prices, dept : Departments, linked : Barcodes \cup {NoBarcode}]

ASSUME BaseAssumption ==
  /\ Requests \subseteq RequestKinds
  /\ OneAtATime \in BOOLEAN /\ OnlyOneSession \in BOOLEAN
  /\ Discount \in [Items \X Prices -> Int]
  /\ Variations \subseteq Items \X Prices \X Departments
  /\ InitialArchive \in [Items -> ArchiveRecord]
  /\ \A i \in Items : InitialArchive[i].linked # NoBarcode =>
                        ItemOf[InitialArchive[i].linked] # NoItem
  /\ (Requests \cap {"card", "uncard"} # {}) => OneAtATime
  /\ MaxCart \in Nat /\ MaxRequests \in Nat /\ MaxRows \in Nat /\ MaxCrashes \in Nat

VARIABLES
  phase,      \* "down", "loading" (the constructor) or "up" (serving)
  sessions,   \* the keys of carts_map
  carts,      \* the carts of carts_map; a fresh cart where there is no key
  registry,   \* all_loy_cards_map: the session each card is registered to
  nextNumber, \* next_cart_number
  archive,    \* items_map
  disk,       \* ITEMS.CSV
  files,      \* sessions with a .transaction_in_progress file
  journal,    \* the rows of those files
  posFile,    \* the POSnnn.IN file of each pay station
  job,        \* the request each thread is serving
  loading,    \* the file being replayed and the rows replayed so far
  pending,    \* the files not yet replayed
  issued,     \* history: how many devices were given each session number
  image,      \* history: what the cart kept when each journal row was written
  served, crashes  \* counters of the bounds

memory  == <<sessions, carts, registry, nextNumber, archive>>
storage == <<disk, files, journal, posFile>>
vars == <<phase, memory, storage, job, loading, pending, issued, image, served, crashes>>

NoRow == [kind |-> "none"]

\* The header of a pay station's file; NoFile for a thread that sends none.
Header   == [station : PayStations \cup {NoFile}, customer : Cards \cup {NoCard},
             count : Int, amount : Int]
NoHeader == [station |-> NoFile, customer |-> NoCard, count |-> 0, amount |-> 0]

\* The request a thread is at: what it does is told by the row it is to write.
Job == [pc : {"idle", "insert", "increment", "store", "copy", "copyItem", "keep", "check",
              "change", "write", "link", "register", "header", "send"},
        cart : {0} \cup CartIds, number : Nat, row : Rows \cup {NoRow}, main : BOOLEAN,
        price : {0} \cup Prices, discount : Int, header : Header]

Idle == [pc |-> "idle", cart |-> 0, number |-> 0, row |-> NoRow, main |-> TRUE,
         price |-> 0, discount |-> 0, header |-> NoHeader]

NotLoading == [cart |-> 0, row |-> 0]

PosDocument == [cart : CartIds, customer : Cards \cup {NoCard}, count : Int,
                amount : Int, rows : [Barcodes -> Nat]]

-----------------------------------------------------------------------------
(* What a restart is expected to bring back: the goods, the cards, whether *)
(* the session is void, and the prices shown to the customer as long as it *)
(* is not.                                                                 *)

Kept(cart) == [goods |-> cart.goods, loy |-> cart.loy, voided |-> cart.state = "voided",
               local |-> IF cart.state = "voided" THEN NoCopies ELSE cart.local]

Init ==
  /\ phase = "down"
  /\ sessions = {} /\ files = {} /\ pending = {}
  /\ carts = [c \in CartIds |-> NewCart("ready")]
  /\ registry = [k \in Cards |-> NoOwner]
  /\ nextNumber = 1
  /\ archive = InitialArchive /\ disk = InitialArchive
  /\ journal = [c \in CartIds |-> << >>]
  /\ posFile = [p \in PayStations |-> NoFile]
  /\ job = [t \in Threads |-> Idle]
  /\ loading = NotLoading
  /\ issued = [c \in CartIds |-> 0]
  /\ image = [c \in CartIds |-> <<Kept(NewCart("ready"))>>]
  /\ served = 0 /\ crashes = 0

-----------------------------------------------------------------------------
(* Writing a cart and its journal. *)

\* Row `row` is written to the journal of c; the method leaves `cart`.
Written(c, cart, row) ==
  /\ journal' = [journal EXCEPT ![c] = Append(@, row)]
  /\ image' = [image EXCEPT ![c] = Append(@, Kept(cart))]

NothingWritten == UNCHANGED <<journal, image>>

\* A whole method: the cart is changed, and the row written if `written`.
Store(c, cart, row, written) ==
  /\ carts' = [carts EXCEPT ![c] = cart]
  /\ IF written THEN Written(c, cart, row) ELSE NothingWritten

Goto(t, j) == job' = [job EXCEPT ![t] = j]
Reply(t) == Goto(t, Idle)

-----------------------------------------------------------------------------
(* initSession: newCart(GEN_CART_NEW). *)

InitSession(t) ==
  /\ phase = "up" /\ job[t] = Idle /\ nextNumber \in CartIds
  /\ Goto(t, [Idle EXCEPT !.pc = "insert", !.cart = nextNumber])
  /\ UNCHANGED <<phase, memory, storage, loading, pending, issued, image, served, crashes>>

\* The constructor creates the file; insert keeps a cart already there.
InsertCart(t) ==
  /\ phase = "up" /\ job[t].pc = "insert"
  /\ LET n == job[t].cart IN
       /\ sessions' = sessions \cup {n}
       /\ files' = files \cup {n}
       /\ carts' = IF n \in sessions THEN carts ELSE [carts EXCEPT ![n] = NewCart("ready")]
  /\ Goto(t, [job[t] EXCEPT !.pc = "increment"])
  /\ UNCHANGED <<phase, registry, nextNumber, archive, disk, journal, posFile,
                 loading, pending, issued, image, served, crashes>>

\* next_cart_number++ is not atomic: it is read, then written.
ReadNumber(t) ==
  /\ phase = "up" /\ job[t].pc = "increment"
  /\ Goto(t, [job[t] EXCEPT !.pc = "store", !.number = nextNumber])
  /\ UNCHANGED <<phase, memory, storage, loading, pending, issued, image, served, crashes>>

IncrementedNumber(n) == n + 1

\* The reply gives the device its session number.
WriteNumber(t) ==
  /\ phase = "up" /\ job[t].pc = "store"
  /\ nextNumber' = IncrementedNumber(job[t].number)
  /\ issued' = [issued EXCEPT ![job[t].cart] = @ + 1]
  /\ Reply(t)
  /\ UNCHANGED <<phase, sessions, carts, registry, archive, storage, loading, pending,
                 image, served, crashes>>

-----------------------------------------------------------------------------
(* Requests on an existing session.  A request for a session that is not   *)
(* in carts_map is refused and changes nothing.                            *)

Working(t, c) ==
  job[t].cart = c /\ job[t].pc \notin {"idle", "insert", "increment", "store"}

Serve(t, c, kind) ==
  /\ phase = "up" /\ job[t] = Idle /\ c \in sessions
  /\ OneAtATime => \A u \in Threads : ~Working(u, c)
  /\ kind \in Requests /\ served < MaxRequests
  /\ served' = served + 1

\* Everything a request that only starts, or only asks, leaves alone.
OnlyRequestId(c) ==
  /\ carts' = [carts EXCEPT ![c] = GetNextRequestId(@)]
  /\ UNCHANGED <<phase, sessions, registry, nextNumber, archive, storage, loading, pending,
                 issued, image, crashes>>

\* getTotals, getAllCart, getAllCartWithBarcodes, manageRescan.
Query(t, c) == Serve(t, c, "query") /\ OnlyRequestId(c) /\ UNCHANGED job

\* A sale looks for the copy of the item's record first.
Started(j) ==
  [j EXCEPT !.pc = IF j.row.kind = "IA" /\ ~PriceChanges THEN "copy" ELSE "check"]

\* An unknown barcode is refused; void, it is looked for in vain.
ItemRequest(t, c, row) ==
  /\ OnlyRequestId(c)
  /\ IF ItemOf[row.barcode] = NoItem
     THEN Reply(t)
     ELSE Goto(t, Started([Idle EXCEPT !.cart = c, !.row = row]))

ItemAdd(t, c, b)  == Serve(t, c, "add") /\ ItemRequest(t, c, RowIA(b))
ItemVoid(t, c, b) == Serve(t, c, "void") /\ ItemRequest(t, c, RowIV(b))

JobItem(j) == ItemOf[j.row.barcode]

\* updateLocalItemMap, up to its first row.  The item is passed by value.
\* The row does nothing when it is loaded, so its place does not matter.
CopyDepartment(t) ==
  /\ phase = "up" /\ job[t].pc = "copy"
  /\ LET c == job[t].cart
         i == JobItem(job[t])
         p == archive[i].price
     IN IF carts[c].local[i] = NoCopy /\ carts[c].state = "ready"
        THEN /\ Store(c, carts[c], RowKD, TRUE)
             /\ Goto(t, [job[t] EXCEPT !.pc = "copyItem", !.price = p])
        ELSE /\ Store(c, UpdateLocalItemMap(carts[c], i, p), RowKD, FALSE)
             /\ Goto(t, [job[t] EXCEPT !.pc = "check"])
  /\ UNCHANGED <<phase, sessions, registry, nextNumber, archive, disk, files, posFile,
                 loading, pending, issued, served, crashes>>

\* ... its second row, with what the copy will be once it is made ...
CopyItem(t) ==
  /\ phase = "up" /\ job[t].pc = "copyItem"
  /\ LET c == job[t].cart
         i == JobItem(job[t])
     IN Written(c, UpdateLocalItemMap(carts[c], i, job[t].price), RowKI(i, job[t].price))
  /\ Goto(t, [job[t] EXCEPT !.pc = "keep"])
  /\ UNCHANGED <<phase, memory, disk, files, posFile, loading, pending, issued, served, crashes>>

\* ... and the copy, unless another thread has made one by now.
KeepItem(t) ==
  /\ phase = "up" /\ job[t].pc = "keep"
  /\ LET c == job[t].cart
     IN carts' = [carts EXCEPT ![c] = UpdateLocalItemMap(@, JobItem(job[t]), job[t].price)]
  /\ Goto(t, [job[t] EXCEPT !.pc = "check", !.price = 0])
  /\ UNCHANGED <<phase, sessions, registry, nextNumber, archive, storage, loading, pending,
                 issued, image, served, crashes>>

\* The item itself is sold and void at the cart's price, an item linked to it
\* at the archive's price.
RequestPrice(j, cart) ==
  LET i == JobItem(j)
  IN IF j.main THEN GetItemPrice(cart, i, j.row.barcode, archive[i].price)
     ELSE archive[i].price

\* Only the sale of the item itself has a promotion; a void gives none back.
RequestDiscount(j, price) ==
  IF j.main /\ j.row.kind = "IA" THEN Discount[JobItem(j), price] ELSE 0

\* The price, the promotion and the first look at the state.
Check(t) ==
  /\ phase = "up" /\ job[t].pc = "check" /\ Len(journal[job[t].cart]) < MaxRows
  /\ LET j == job[t]
         price == RequestPrice(j, carts[j.cart])
     IN IF Accepts(carts[j.cart])
        THEN Goto(t, [j EXCEPT !.pc = "change", !.price = price,
                               !.discount = RequestDiscount(j, price)])
        ELSE Reply(t)
  /\ UNCHANGED <<phase, memory, storage, loading, pending, issued, image, served, crashes>>

\* What addItem, removeItem and voidAllCart do to the cart, whatever became of
\* its state since they looked at it.
Changed(cart, j) ==
  LET i == JobItem(j)
      b == j.row.barcode
  IN CASE j.row.kind = "IA" -> PutItem(cart, i, b, archive[i].dept, j.price, j.discount)
       [] j.row.kind = "IV" -> TakeItem(cart, i, b, archive[i].dept, j.price, j.discount)
       [] OTHER -> [cart EXCEPT !.state = "voided"]

\* Faulty: the row of a voided item is not written.
RowDueNoVoid(cart, row) == row.kind = "CV" \/ (cart.state = "ready" /\ row.kind = "IA")

\* Whether the change is to be journalled, at the second look at the state.
RowDue(cart, row) ==
  \/ row.kind = "CV"
  \/ cart.state = "ready" /\ (row.kind = "IV" => InCart(cart, ItemOf[row.barcode]))

Change(t) ==
  /\ phase = "up" /\ job[t].pc = "change"
  /\ LET j == job[t]
         cart == carts[j.cart]
     IN /\ carts' = [carts EXCEPT ![j.cart] = Changed(@, j)]
        /\ Goto(t, [j EXCEPT !.pc = IF RowDue(cart, j.row) THEN "write" ELSE "link"])
  /\ UNCHANGED <<phase, sessions, registry, nextNumber, archive, storage, loading, pending,
                 issued, image, served, crashes>>

\* A row that was due when the cart was changed may still be left out if the
\* session was voided since: the second look may have come after that.
WriteRow(t) ==
  /\ phase = "up" /\ job[t].pc = "write"
  /\ LET j == job[t]
         cart == carts[j.cart]
     IN /\ \/ Written(j.cart, cart, j.row)
           \/ j.row.kind # "CV" /\ cart.state = "voided" /\ NothingWritten
        /\ IF j.row.kind = "CV" THEN Reply(t) ELSE Goto(t, [j EXCEPT !.pc = "link"])
  /\ UNCHANGED <<phase, memory, disk, files, posFile, loading, pending, issued, served, crashes>>

\* Faulty: the linked item is sold like an item of its own.
LinkedRequestAsMain(j, b) == Started([Idle EXCEPT !.cart = j.cart, !.row = [j.row EXCEPT !.barcode = b]])

\* The same for a linked item; it is looked for once.
LinkedRequest(j, b) ==
  Started([Idle EXCEPT !.cart = j.cart, !.row = [j.row EXCEPT !.barcode = b], !.main = FALSE])

\* The linked item goes along even if the item itself was not in the cart.
Follow(t) ==
  /\ phase = "up" /\ job[t].pc = "link"
  /\ LET linked == archive[JobItem(job[t])].linked
     IN IF job[t].main /\ linked # NoBarcode
        THEN Goto(t, LinkedRequest(job[t], linked))
        ELSE Reply(t)
  /\ UNCHANGED <<phase, memory, storage, loading, pending, issued, image, served, crashes>>

\* Faulty: a card registered to another session is let through.
MayRegisterAnywhere(k, c) == registry[k] # c

\* The scan of all_loy_cards_map: no entry, or one of another session when
\* the configuration allows several.
MayRegister(k, c) == registry[k] # c /\ (OnlyOneSession => registry[k] = NoOwner)

CustomerAdd(t, c, k) ==
  /\ Serve(t, c, "card") /\ OnlyRequestId(c)
  /\ IF MayRegister(k, c)
     THEN Goto(t, [Idle EXCEPT !.pc = "register", !.cart = c, !.row = RowLA(k)])
     ELSE Reply(t)

\* The entry is set first, and stays if the cart then refuses the card.  The
\* methods for cards are taken whole: they touch nothing but their cart, which
\* no other request is at (OneAtATime).
Register(t) ==
  /\ phase = "up" /\ job[t].pc = "register"
  /\ LET c == job[t].cart
         k == job[t].row.card
     IN /\ registry' = [registry EXCEPT ![k] = c]
        /\ Store(c, AddLoyCard(carts[c], k), RowLA(k),
                 carts[c].state = "ready" /\ LoyRoom(carts[c].loy, k))
  /\ Reply(t)
  /\ UNCHANGED <<phase, sessions, nextNumber, archive, disk, files, posFile,
                 loading, pending, issued, served, crashes>>

\* removeLoyCard never returns RC_OK, so the entry of all_loy_cards_map stays.
CustomerVoid(t, c, k) ==
  /\ Serve(t, c, "uncard")
  /\ LET cart == GetNextRequestId(carts[c])
     IN Store(c, RemoveLoyCard(cart, k), RowLV(k),
              cart.state = "ready" /\ k \in CardsIn(cart.loy))
  /\ Reply(t)
  /\ UNCHANGED <<phase, sessions, registry, nextNumber, archive, disk, files, posFile,
                 loading, pending, issued, crashes>>

\* Faulty: the slot of the last card added is read.
IsLastCustomer(loy, k) ==
  IF loy.number = 0 THEN k \in Cards \cup {NoCard} ELSE loy.slots[loy.number - 1] = k

\* loy_cards_map.begin(): the card in the first slot; for an empty map the
\* code reads past the end, and any number may come out.
IsCustomer(loy, k) ==
  LET used == {s \in 0..MaxCards : loy.slots[s] # NoCard}
  IN IF used = {} THEN k \in Cards \cup {NoCard}
     ELSE \E s \in used : (\A r \in used : s <= r) /\ loy.slots[s] = k

\* sendToPos looks at the state, waits for the lock of all carts, ...
SessionEnd(t, c, p) ==
  /\ Serve(t, c, "end") /\ OnlyRequestId(c)
  /\ IF carts[c].state = "ready"
     THEN Goto(t, [Idle EXCEPT !.pc = "header", !.cart = c, !.header.station = p])
     ELSE Reply(t)

\* ... writes the header, which no other thread's lock protects ...
WriteHeader(t) ==
  /\ phase = "up" /\ job[t].pc = "header"
  /\ LET cart == carts[job[t].cart]
     IN \E k \in Cards \cup {NoCard} :
          /\ IsCustomer(cart.loy, k)
          /\ Goto(t, [job[t] EXCEPT !.pc = "send", !.header =
               [station |-> @.station, customer |-> k, count |-> cart.goods.itemsNumber,
                amount |-> cart.totals[0].amount]])
  /\ UNCHANGED <<phase, memory, storage, loading, pending, issued, image, served, crashes>>

\* ... and the rows; the file appears at once, in place of an older one.
SendRows(t) ==
  /\ phase = "up" /\ job[t].pc = "send"
  /\ LET c == job[t].cart
         h == job[t].header
     IN posFile' = [posFile EXCEPT ![h.station] =
          [cart |-> c, customer |-> h.customer, count |-> h.count, amount |-> h.amount,
           rows |-> carts[c].goods.barcodes]]
  /\ Reply(t)
  /\ UNCHANGED <<phase, memory, disk, files, journal, loading, pending, issued, image,
                 served, crashes>>

\* voidAllCart looks at the state; Change and WriteRow do the rest.  The
\* session's cards stay registered.
SessionVoid(t, c) ==
  /\ Serve(t, c, "cancel") /\ OnlyRequestId(c)
  /\ IF carts[c].state # "voided"
     THEN Goto(t, [Idle EXCEPT !.pc = "change", !.cart = c, !.row = RowCV])
     ELSE Reply(t)

-----------------------------------------------------------------------------
(* checkForVariationFiles: a row replaces the item's record, with no       *)
(* linked barcode; after the last file ITEMS.CSV is written anew.          *)

ApplyVariation ==
  /\ phase = "up"
  /\ \E v \in Variations :
       archive' = [archive EXCEPT ![v[1]] =
                     [price |-> v[2], dept |-> v[3], linked |-> NoBarcode]]
  /\ UNCHANGED <<phase, sessions, carts, registry, nextNumber, storage, job, loading, pending,
                 issued, image, served, crashes>>

DumpItems ==
  /\ phase = "up" /\ disk # archive
  /\ disk' = archive
  /\ UNCHANGED <<phase, memory, files, journal, posFile, job, loading, pending,
                 issued, image, served, crashes>>

-----------------------------------------------------------------------------
(* The process dies and is started again. *)

Crash ==
  /\ phase # "down" /\ crashes < MaxCrashes
  /\ crashes' = crashes + 1
  /\ phase' = "down"
  /\ sessions' = {} /\ pending' = {} /\ loading' = NotLoading
  /\ carts' = [c \in CartIds |-> NewCart("ready")]
  /\ registry' = [k \in Cards |-> NoOwner]
  /\ nextNumber' = 1
  /\ job' = [t \in Threads |-> Idle]
  /\ UNCHANGED <<archive, storage, issued, image, served>>

\* Faulty: the file of a session without rows is skipped.
FilesWithRows == {c \in files : journal[c] # << >>}

\* The regular files with the extension .transaction_in_progress.
FilesFound == files

\* readArchives, then loadCartsInProgress starts on the files there are.
Boot ==
  /\ phase = "down"
  /\ phase' = "loading"
  /\ archive' = disk
  /\ nextNumber' = 1
  /\ pending' = FilesFound
  /\ UNCHANGED <<sessions, carts, registry, storage, job, loading, issued, image, served, crashes>>

\* Faulty: the iterator over the directory is not advanced.
FilesLeftStill(c) == pending

FilesLeft(c) == pending \ {c}

\* newCart(GEN_CART_LOAD) for the next file, in the directory's order, which
\* is any order; next_cart_number is saved and restored around it.
LoadFile ==
  /\ phase = "loading" /\ loading = NotLoading
  /\ \E c \in pending :
       /\ pending' = FilesLeft(c)
       /\ loading' = [cart |-> c, row |-> 0]
       /\ sessions' = sessions \cup {c}
       /\ carts' = [carts EXCEPT ![c] = NewCart("loading")]
  /\ UNCHANGED <<phase, registry, nextNumber, archive, storage, job, issued, image,
                 served, crashes>>

\* Faulty: a voided item's row is replayed as a sale's.
ReplayNoVoid(cart, row) ==
  LET i == ItemOf[row.barcode]
      price == GetItemPrice(cart, i, row.barcode, archive[i].price)
  IN AddItem(cart, i, row.barcode, archive[i].dept, price, 0)

\* The rows I,A and I,V: sold and voided at the cart's price, no promotion.
ReplayItem(cart, row) ==
  LET i == ItemOf[row.barcode]
      price == GetItemPrice(cart, i, row.barcode, archive[i].price)
  IN IF row.kind = "IA"
     THEN AddItem(cart, i, row.barcode, archive[i].dept, price, 0)
     ELSE RemoveItem(cart, i, row.barcode, archive[i].dept, price, 0)

Replay(cart, row) ==
  CASE row.kind \in {"IA", "IV"} -> ReplayItem(cart, row)
    [] row.kind = "LA" -> AddLoyCard(cart, row.card)
    [] row.kind = "LV" -> RemoveLoyCard(cart, row.card)
    [] row.kind = "CV" -> [cart EXCEPT !.state = "voided"]
    [] row.kind = "KI" /\ ~PriceChanges -> UpdateLocalItemMap(cart, row.item, row.price)
    [] OTHER -> cart

\* Faulty: the registry is not rebuilt.
RegistryNotReplayed(reg, c, row) == reg

ReplayRegistry(reg, c, row) ==
  CASE row.kind = "LA" -> [reg EXCEPT ![row.card] = c]
    [] row.kind = "LV" -> [reg EXCEPT ![row.card] = NoOwner]
    [] OTHER -> reg

LoadRow ==
  /\ phase = "loading" /\ loading # NotLoading
  /\ LET c == loading.cart IN
       /\ loading.row < Len(journal[c])
       /\ LET row == journal[c][loading.row + 1] IN
            /\ carts' = [carts EXCEPT ![c] = Replay(GetNextRequestId(@), row)]
            /\ registry' = ReplayRegistry(registry, c, row)
  /\ loading' = [loading EXCEPT !.row = @ + 1]
  /\ UNCHANGED <<phase, sessions, nextNumber, archive, storage, job, pending, issued, image,
                 served, crashes>>

\* Faulty: every session is reopened.
StateAfterLoadReopened(state) == "ready"

StateAfterLoad(state) == IF state = "voided" THEN "voided" ELSE "ready"

\* Faulty: the number of the last file is taken, not the greatest.
NumberAfterLoadLast(n, c) == c + 1

NumberAfterLoad(n, c) == IF c >= n THEN c + 1 ELSE n

FinishFile ==
  /\ phase = "loading" /\ loading # NotLoading
  /\ loading.row = Len(journal[loading.cart])
  /\ LET c == loading.cart IN
       /\ carts' = [carts EXCEPT ![c].state = StateAfterLoad(@)]
       /\ nextNumber' = NumberAfterLoad(nextNumber, c)
  /\ loading' = NotLoading
  /\ UNCHANGED <<phase, sessions, registry, archive, storage, job, pending, issued, image,
                 served, crashes>>

FinishBoot ==
  /\ phase = "loading" /\ loading = NotLoading /\ pending = {}
  /\ phase' = "up"
  /\ UNCHANGED <<memory, storage, job, loading, pending, issued, image, served, crashes>>

-----------------------------------------------------------------------------

Start(t) ==
  \/ InitSession(t)
  \/ \E c \in sessions :
       \/ Query(t, c) \/ SessionVoid(t, c)
       \/ \E b \in Barcodes : ItemAdd(t, c, b) \/ ItemVoid(t, c, b)
       \/ \E k \in Cards : CustomerAdd(t, c, k) \/ CustomerVoid(t, c, k)
       \/ \E p \in PayStations : SessionEnd(t, c, p)

Continue(t) ==
  \/ InsertCart(t) \/ ReadNumber(t) \/ WriteNumber(t)
  \/ CopyDepartment(t) \/ CopyItem(t) \/ KeepItem(t)
  \/ Check(t) \/ Change(t) \/ WriteRow(t) \/ Follow(t)
  \/ Register(t) \/ WriteHeader(t) \/ SendRows(t)

Restart == Boot \/ LoadFile \/ LoadRow \/ FinishFile \/ FinishBoot

Next ==
  \/ \E t \in Threads : Start(t) \/ Continue(t)
  \/ ApplyVariation \/ DumpItems
  \/ Crash \/ Restart

Spec == Init /\ [][Next]_vars

\* A started request goes on running and a started process goes on booting;
\* no device has to send a request and nothing has to fail.
FairSpec == Spec /\ WF_vars(Restart) /\ \A t \in Threads : WF_vars(Continue(t))

=============================================================================
