# A verification project for promo-calculator

promo-calculator is a server for self-shopping in a store. Hand-held devices
open a *session* (a cart) over HTTP, sell and void items by their barcodes, add
loyalty cards, and end the session at a pay station. The server prices items
with promotions, journals every change of a session to a file of its own,
rebuilds all sessions from those files when it starts, picks up price variation
files while it runs, and hands finished sessions to pay stations as files.

This directory holds TLA+ modules of that program, the configurations that
check them with TLC, and theorems about them checked by TLAPS. Paths are those
of the repository as `src/...`; its C++ sources are `src/src/*.cpp`.

## 1. The system

| Component | Code | State it keeps | Operations |
|---|---|---|---|
| Cart | `cart.cpp` | item and barcode rows, totals by department, card slots with an unsigned counter, copies of item records, state, request id | sell, void, add/remove card, copy a price, void the session, write a journal row, send to a pay station |
| Session requests | `base_system.cpp` 859-1300 | `carts_map`, `next_cart_number` | `salesActionsFromWebInterface`, `newCart` |
| Journal and recovery | `cart.cpp` 27-99, `base_system.cpp` 645-833 | one file `<n>.transaction_in_progress` per session | `writeTransactionRow`, `loadCartsInProgress` |
| Loyalty card registry | `base_system.cpp` 1172-1216 | `all_loy_cards_map` | check, register, remove, rebuild |
| Pay station transfer | `cart.cpp` 405-480 | `POSnnn.TMP`, `POSnnn.IN`, one mutex for all carts | `sendToPos` |
| Variation files | `base_system.cpp` 461-608, `base/archive_map.h` | `items_map`, `ITEMS.CSV`, `ITEMS.OLD`, `.VAR` files | `checkForVariationFiles`, `dumpToFile`, `readItemArchive` |
| Archives | `base_system.cpp` 156-390, `base/archive_map.h`, `item.cpp`, `barcodes.cpp` | `items_map`, `barcodes_map`, `departments_map`, `promotions_map` | read a CSV file, look up (which may insert), dump |
| Barcode rules | `base_system.cpp` 409-459 | none | `decodeBarcode` |
| Promotions, amounts | `base_system.cpp` 835-857, 988-1011 | none | evaluate promotions, format amounts |
| HTTP server | `server.cpp`, `connection.cpp` | pending accept, connections, pool of threads | accept, read, write, stop |
| Request parser | `request_parser.cpp` | state, request so far | `consume` |
| Request handler | `request_handler.cpp` | none | decode the url, dispatch, reply |
| Process | `main.cpp` | none | signals, stop, join, ini file, Windows service |

How they interact. A thread of the pool reads a connection; the parser, fed byte
by byte, decides when a request is complete; `handle_request` calls
`salesActionsFromWebInterface` in the same thread; this calls methods of the
session's `Cart`, which write the journal and, when the session ends, the pay
station's file. Another thread polls for variation files and replaces records of
`items_map` under the running requests. Looking up a code in one of the
archives' maps inserts a blank record if there is none, so requests that only
read change them too. Nothing but `sendToPos` takes a lock:
sessions, registry, session number and archives are shared memory. A process
that dies leaves the journals, the archives and the pay stations' files.

What is hard, and therefore what the properties are about:

* *Recovery.* The live sale and the replay of its journal are two
  implementations, in two places, of one effect. A death may fall between any
  two rows, and may fall while a previous recovery is under way.
* *Interleaving.* A request is several unlocked steps on shared state.
* *Stale values.* The archive changes under a session whose prices were shown.
* *Sequences of legal calls.* Counters that are kept apart (units, barcode rows,
  totals, card slots) must not drift.
* *Files read by others.* Pay stations and the next start read files this
  process may die while writing.
* *Lookups that write.* Blank records for unknown codes are found by later
  lookups and by the dump of the archive.
* *Two places that must agree on a key or an amount*: the reader of
  `BARCODES.CSV` and the lookup, a sale and its void, a total and its text, the
  url a device means and the action it calls.
* *Slow, silent and departing clients* of a server with few threads.

`PROJECT.json` lists each of these at its line under `hazards`, with the
properties that would notice.

## 2. The modules

| Module | What it is |
|---|---|
| `Cart` | one session as a record; each method an operator on it; the journal's rows |
| `BaseSystem` | EXTENDS `Cart`: all sessions, the registry, the requests of the pool's threads in steps, the journals, death and recovery |
| `SessionStore` | abstract: what the sessions promise to the devices, without threads, journal or deaths; `BaseSystem` implements it |
| `BaseSystemProperties` | what `BaseSystem` promises, the mapping to `SessionStore`, and the inductive invariant |
| `BaseSystemProofs` | theorems about `BaseSystem` |
| `SessionProofs` | further theorems about `BaseSystem`: cards, barcodes, numbers, frozen sessions, the refinement of `SessionStore` |
| `AmountProofs` | theorems about sums over items and departments: counters, totals, what the customer was shown |
| `VariationFiles` | `checkForVariationFiles` in steps, while requests look items up, with death and restart |
| `VariationFilesProofs` | theorems about `VariationFiles` |
| `BarcodeRules` | `decodeBarcode`: patterns, normalised labels, embedded prices |
| `Amounts` | the value of a promotion and the texts of amounts |
| `RequestUrl` | decoding of a url, its action and its parameters |
| `ItemRequests` | EXTENDS the three: the requests about items of one session, from the url to the amounts in the answer, over the archives' maps; its session is a record of `Cart` (INSTANCE) |
| `ItemRequestsProperties` | what `ItemRequests` promises |
| `ItemRequestsProofs` | theorems about `ItemRequests` |
| `PosTransfer` | `sendToPos` in steps, under its mutex, with death |
| `PosMailbox` | abstract: what the folder promises to the pay stations; `PosTransfer` implements it |
| `PosTransferProofs` | theorems about `PosTransfer`, the refinement among them |
| `RequestParser` | `consume`, byte by byte |
| `RequestGrammar` | which inputs are requests and what they say, over the whole input |
| `RequestParserProofs` | theorems about `RequestParser`, that it follows `RequestGrammar` among them |
| `HttpServer` | accepting, reading, handling, writing, clients, pool, stop |
| `HttpServerProofs` | a theorem about `HttpServer` |
| `MC*` | small instances for TLC |

Modules meet at their abstractions: `HttpServer` knows a read by the parser's
verdict (`RequestParser`) and takes the end of a request as given (`RequestsEnd`
of `BaseSystem`, `SendsEnd` of `PosTransfer`); `BaseSystem` takes a transfer as
three looks at the cart (state, header, rows) and lets the file appear at once,
which `PosTransfer` implementing `PosMailbox` justifies, and takes variations row
by row, which `VariationFiles` refines with the files.
`BaseSystem` takes barcodes, prices and discounts from constants, which may be
any tables; `ItemRequests` works them out as the code does, from digits, files
and promotions, with one thread and no death.

Definitions marked `Faulty` in a comment are plausible slips of one line. They
are not part of any specification; `PROJECT.json` puts each in place of the
definition it precedes, to show that a property notices.

### Cart and BaseSystem

State against code: `sessions`/`carts` are `carts_map`, `registry` is
`all_loy_cards_map`, `nextNumber` is `next_cart_number`, `archive` is
`items_map`, `disk` is `ITEMS.CSV`, `files`/`journal` are the
`.transaction_in_progress` files, `posFile` the `POSnnn.IN` files, `job` the
local variables of each thread between two steps. `issued` and `image` are
history: the numbers handed out, and what a session kept when each row of its
journal was written.

`SessionStore` is what the devices are promised: sessions are opened; an open one
that is not void has a unit sold or taken back, a card added or removed, a price
shown once; it is made void. The mapping (`Promise` in `BaseSystemProperties`)
takes the files for the sessions there are, and for the content of a session what
memory holds of it while the server serves and no request has changed it without
its row yet (`Settled`), and what its last row recorded otherwise. So a start that brought back anything else would be a step of the store
that none of its actions allows. Its one odd action is the code's: a card that is
added may push out one that is held (`addLoyCard` writes into the slot of the
counter, which a removal has lowered).

| Action | Code |
|---|---|
| `InitSession`, `InsertCart`, `ReadNumber`, `WriteNumber` | `newCart(GEN_CART_NEW)`: read the number, insert the cart and create its file, increment in two halves |
| `ItemAdd`, `ItemVoid` | the barcode is looked up; an unknown one is refused |
| `CopyDepartment`, `CopyItem`, `KeepItem` | `updateLocalItemMap`: its two rows, then the entry of the copy |
| `Check`, `Change`, `WriteRow` | `addItemByBarcode` and `removeItemByBarcode`: the price, the promotion and the first look at the state; goods, totals and the second look; the row |
| `Follow` | the linked item, once, through the same steps |
| `CustomerAdd`, `Register`, `CustomerVoid` | the scan of the registry; the entry and the cart's slot; the removal |
| `SessionEnd`, `WriteHeader`, `SendRows` | `sendToPos`: the look at the state, the header, the rows |
| `SessionVoid`, then `Change`, `WriteRow` | `voidAllCart`: the look at the state, the new state, the row `C,V` |
| `Query` | requests that only count their id |
| `ApplyVariation`, `DumpItems` | a row of a variation file; `ITEMS.CSV` written anew |
| `Crash`, `Boot`, `LoadFile`, `LoadRow`, `FinishFile`, `FinishBoot` | death; the constructor, file by file and row by row |

Sessions are changed without a lock, so a request is taken in the steps between
which other threads, or a death, may come. A sale that found its session open
(`cart.cpp:236`) changes the goods whatever became of the session since, and its
row is left out if the second look (line 261) finds it void: after `Change` and
before `WriteRow` memory holds what no file does. Two accesses are one step where
nobody can tell the difference, and in the last of these cases, where the language
says nothing of what comes out:

* A cart that serves goes from open to void once and never back, so a test that
  finds it open may be taken earlier than it is made, and `WriteRow` may leave out
  a row if the session was voided at any time before it.
* The row `K,D` does nothing when it is loaded, so it is written where its price
  is read.
* `addLoyCard` and `removeLoyCard` are whole: they touch only their cart, which no
  other request is at (`OneAtATime`, below). The registry, which all sessions
  share, is read and written in steps of their own.
* The accesses of one change to the maps of its cart are one step. Two changes of
  one cart at the same instant are a data race there, which the language leaves
  undefined; its outcomes are left out, and no property about the maps allows for
  them: each of those asks for `OneAtATime`.

`OneAtATime` says that the requests of a session come one at a time, as from a
device that waits for each answer. It is an assumption on devices; the server does
not enforce it. `BaseSystem` has both behaviours, and each property says
whether it needs it. `concurrent` runs without: there `VoidedForGood` and
`VoidedIsFrozen` hold. Without the premise `SessionsAreJournalled`,
`ReplayFollowsTheLiveSession` and `TotalIsAsShown` are false in that run, as TLC shows
at once: a sale overtaken by the void of its session is in memory and in no file; two
sales may copy two prices of one item, or write their rows in another order than they
changed the cart; and the void of an item that is just being sold takes the price of
the archive.

What the code does that a reader may not expect, kept as it is:

* `removeLoyCard` never returns `RC_OK`, so the caller never clears the registry
  when a card is removed; the *replay* of the same removal does clear it.
* A card's registration is set before the cart may refuse the card, and stays
  when its session is void or sent.
* A voided item's promotion is not given back; the replay books no promotion.
* Voiding an item takes its linked item along even if the item was not there.
* A price variation drops the item's linked barcode.
* `loy_cards_map.begin()` is read without a check when the map is empty: any
  customer number may come out (`IsCustomer` with no card).
* The erasing loop of `removeLoyCard` goes on with an iterator it has
  invalidated. The usual outcome is taken; a death there is a `Crash`.

### VariationFiles

`pc` follows the polling thread: `WakeUp`, `OpenFile`, `ReadRow`, `RenameFile`
for each file, `EndScan`, then `Backup`, `DumpItem`, `EndDump`. `temp` is
`itmTemp`, declared outside the loops: a missing column keeps an earlier row's
value. `updated` is set once and never reset, as in the code. `Boot` needs
`ITEMS.CSV`: without it the program ends at once, at every start, which is where
a death between renaming the old archive and opening the new one leaves it.
`Lookup` is `operator[]` of any request's thread, at any moment. `OpenDump`,
`DumpItem`, `EndDump` go through the map in the order of its keys: a record
inserted behind the iterator is passed by, and a blank record is written as
code 0. `csv` and `old` are maps of their own, a record for each code written.

### ItemRequests, BarcodeRules, Amounts, RequestUrl

`barcodes` and `items` are `barcodes_map` and `items_map`; `read` and `temp` are
the reader's place in `BARCODES.CSV` and its `tempBarcode`, whose item is not
initialized (any code of `ItemKeys` at first). `url`, `called` and `answer` are
the last request as it came, as it called `salesActionsFromWebInterface`, and
what came back.

| Definition | Code |
|---|---|
| `ReadRow` | a row of `BARCODES.CSV`: decoded, normalised, put in place of an earlier record; a row without an item has the one above |
| `Handle` | `handle_request`: decode, refuse or add `index.html`, find the action and the parameters, call |
| `Perform` | `salesActionsFromWebInterface`, an operator for each action |
| `Touch` | the lookups a request makes, with the records they leave |
| `Sold`, `Voided` | the calls of `Cart` for an item and then for its linked item |
| `PriceVariation` | a record replaced by a variation file, without its link |

Digits are modelled where the code looks at them: a barcode is its decimal
digits (`strtoull` caps it and drops leading zeros), an amount in an answer is
its symbols. A url is a sequence of tokens. Words and numerals stand for their
letters, escaped or not; what is behind a `%` is what `url_decode` makes of the two
characters there: two digits, one digit and another character (`%4z`), a sign and a
digit (`%-1`), which are all taken and swallow both characters, and nothing that
can be read, which refuses the url. A blank cannot come there: the parser ends the
uri at it (`request_parser.cpp` 67-72). A promotion's value
is unsigned, and a percentage is a set of outcomes, since cents in a double may
come out just below a whole number.

What a reader may not expect, kept as it is:

* Amounts of 1 to 9 cents are written with one decimal (five cents are `0.5`),
  and small negative ones with the sign inside (`0.-5`, `-.50`). A promotion is
  always written behind a minus.
* An empty line in `BARCODES.CSV` is the barcode 0, with the item above it.
* A barcode whose item is not in the archive is sold for nothing under a blank
  record. An unknown barcode can be "voided": nothing happens and the answer is
  `RC_OK`.
* The void of an item that is not in the cart is answered with its price, the void
  flag and status 0, and changes nothing.
* The first `?` of a url does not end the action, the last one does.
* `getItemInfo` shows the archive's price also when a session has another copy.

### PosTransfer

`Begin` (the request), `Lock`, `Open` (create and header), `WriteRow`,
`Rename`, `Unlock`, and `Take` for the pay station, which is not part of the
repository. `Crash` keeps the files.

### RequestParser and RequestGrammar

`parser` is the parser's state and the request so far; a byte is the class of
bytes the parser can tell apart. `RequestGrammar` says what a request is by
lines and positions in the whole input, without states, so the two can disagree:
a line is found by the `LF` it ends at, its parts by the first space or colon, and
the headers are folded from the lines.

### HttpServer

`phase` is the one operation pending, or handler running, of each connection.
`phase[c] \in Holds` occupies a thread; handlers other than `handle_request`
are short and are one step. `FailAccept` is the error path of `handle_accept`,
which does not accept again. There is no action for a timeout: the code has none.

## 3. The runs

Every run has `CHECK_DEADLOCK FALSE`: bounds on requests, bytes, drops and
crashes let the models come to rest, a stopped server and a complete request
are at rest by design, and nobody has to send a request.

| Run | Question | Bounds |
|---|---|---|
| `sessions` | Does the journal rebuild a session row by row, is nothing but the change at hand in memory alone, do the counters agree, does every start serve and every request end, with items that link each other? | 1 thread, 1 session, 3 items, 5 barcodes, 3 requests, 2 crashes |
| `concurrent` | For two threads whose requests overlap in one session: does a void session stay void, and does it freeze but for the change each request had at hand? | 2 threads, 1 session, 1 item, `OneAtATime` false, 3 requests, 1 variation, 1 crash |
| `registry` | Is no session number given twice, and none lost? One session per card configured: is it so, with one thread and one restart? Is the total what the customer was shown, and the sum of the departments, while a variation changes an item's price and department? | 1 thread, 2 sessions, 3 cards, 1 item, 4 requests, 1 variation, 1 crash |
| `stations` | Cards as shipped: one slot per card, counter in range? Do header and rows of a pay station's file agree, is its customer one of the cart's, do barcodes mirror items? Is the server to its devices one store of sessions (`SessionStore`)? | 1 thread, 2 sessions, 2 items, 3 cards for 2 slots, every kind of request but the plain query, 4 of them, 1 crash |
| `variations` | Does `ITEMS.CSV` follow what is sold, also while requests look up unknown items, does a first death lose no item, was a renamed file applied, is every file processed? | 2 files, 3 drops, 2 crashes |
| `requests` | Do urls of every shape call the action they name with the parameters they give, does a barcode find the item of its last row, does a void undo its sale, do the amounts in the answers add up? | 10 rows, 6 items, 11 barcodes, 3 promotions; 1 request of any shape, 4 requests in all, 1 variation |
| `transfer` | Do pay stations find whole documents only, do all sends end? | 2 threads, 2 pay stations, 3 carts of 0, 1 and 2 units, 3 sends, 1 crash |
| `headers` | What is accepted, is it one request, and parsed as its lines say? | 25 bytes, 2 headers, folded lines |
| `rejections` | Is an input rejected exactly when no request begins with it? | 19 bytes, all classes of bytes but two |
| `server` | Is a client answered for its first request, do silent clients hold no thread, does a stop end? | 2 clients, 1 thread, 2 reads each, 1 failed accept |
| `loyalty_race` | violated: one session per card, with two threads | 2 requests, no crash |
| `loyalty_restarts` | violated: one session per card, with one thread and two restarts | 4 requests |

Why these bounds are enough for what they ask. Two crashes let a recovery
follow a recovery, and let a death fall into one. The row by row comparison
needs no long journals: each row's effect is compared where it is written and
where it is replayed, and three requests give journals of up to eleven rows (price
copies, sale, linked sale, void). Two threads are all a race on one session
needs: one request past its look at the state, one that voids the session, and a
third to find it void. No journal reaches the 16 rows of `MaxRows`: in `sessions` the guard would
show as a request that does not end. It is there so that a sale that went round
its links for ever would be a finite model, and show the same way. Three cards for two slots reach the full cart, and a removal followed by
an addition reaches the slot that is overwritten. Twenty-five bytes hold the
shortest request with two headers, or one with a folded line; nineteen reach the
second line of a header in every way an input can go wrong. `requests` asks its
first question of about ten thousand urls (every sequence of up to five tokens
after several beginnings) before a session is open, since nothing a session does
changes how a url is read; the others need a sale, a variation of its price or
link, a void and a look at the total. Its rows hold a label with a price, an
item without a record, an empty line and a row replaced by a later one; its
promotions one of each kind, and one that gives the item away. One thread in
`server` is the worst case for a pool: one connection that held it would starve
the others. The proofs of section 4 remove the bounds for the properties they
cover.

`registry` has one thread and one restart on purpose. `newCart` reads, inserts and
increments without a lock (`base_system.cpp:1282`; `cartnumber_mutex` of line 31
is declared and unused): with two threads two devices may get one number. The
model contains that interleaving (two threads and two sessions show it at once);
for the cards see `loyalty_race` and `loyalty_restarts` below. `sessions` and
`stations` have one thread because what they ask assumes `OneAtATime`; the
theorems of section 4 prove the same with any number of threads.

`BootEnds` speaks of starts that find `ITEMS.CSV` and journals of whole rows. A torn
row stops the constructor at an assertion (`base_system.cpp:676`), and without
`ITEMS.CSV` the program ends; neither is in `BaseSystem`. What a death may do to
`ITEMS.CSV` is the subject of `variations`.

**Fairness.** `BaseSystem`: a thread of the pool that has begun a request goes on
(`WF` of `Continue(t)`; no step waits for another thread), and a process that is
down is started again and boots (`WF` of `Restart`; the repository installs the
program as a service for this). `VariationFiles`: the polling thread wakes up
and goes on, the process is started again. `PosTransfer`: a thread goes on; weak
fairness of `Send(t)` suffices since sends are bounded, and a mutex is given to
a waiting thread in the end. `HttpServer`: the pool runs what is ready and a
request of the `BaseSystem` ends. Devices, clients, pay stations, the back
office and the administrator need do nothing, and nothing has to fail.

### Disagreements found

`data/promo-calculator.ini` has the setting `OnlyOneShoppingSessionPerCard`.

* `loyalty_race`: with two threads both can scan the registry before either
  enters the card; it ends in two sessions.
* `loyalty_restarts`: session 1 gives a card back and session 2 takes it; after
  a restart the file of session 2 may be loaded first, and the replay of session
  1's removal then clears the entry of session 2. Another session may take the
  card as well (in the run session 1 again, while session 2 holds it). One restart
  is not enough, since a removal leaves the registration while the server runs: the
  card is free to move only after a first restart.

`OneSessionPerCard` is read while the server serves; while it loads, a card that
moved may stand in two carts until the row of its removal is replayed.

Other behaviour of the code that no document speaks about is recorded in the
hazards' notes: totals that differ after a restart when promotions or linked
items were sold, a variation lost when the process dies between renaming the
`.VAR` file and writing `ITEMS.CSV`, an archive lost for good when it dies
between renaming and creating `ITEMS.CSV`, an accept that is not armed again
after an error.

## 4. The proofs

All theorems hold for every value of the constants that meets the `ASSUME` of
its module: any number of items, barcodes, cards, sessions, threads, requests
and crashes. The assumptions say that the special values (`NoItem`, `NoCard`,
...) are not ordinary ones, that tables have their types, that a linked
barcode in the shipped archive is a known one, that the requests of a session come
one at a time where there are requests about cards, and that items, barcodes and
departments are finitely many (they come from files).

`BaseSystemProofs`. A thread's step, the journal and the replay meet in
`JournalInvariant`, whose parts, with `VoidRows` of the proofs, are:

* `JournalAccounts`: what a session kept after row n+1 is `Effect` of that row
  on what it kept after row n. The wanted `ReplayFollowsTheLiveSession` is not
  inductive without it: a loader at row n must know what row n+1 will do.
* `SessionsAreJournalled`: a session in memory is the last image, but for the
  change at hand, so the next row's effect starts from it.
* `Polite`: at most one request is at a session, and what it has in flight is known
  (`InFlight`): between the look at the state and the row the cart stays open, a
  change without a row is the effect of the row that is to come, and a copy without
  its entry is the one its row tells.
* `StatesMatchPhase`: a cart being loaded is `loading` or `voided`, the others
  `ready` or `voided`. The live methods write their row if the state is `ready`
  and apply their effect if it is `ready` or `loading`; without this a row could
  be missing.
* `VoidRows`: a cart that has the row `C,V`, replayed or written, is void.
* `WellFormed`: threads are idle unless the server serves, they work on sessions
  that exist and barcodes that are known, `files` are the sessions in memory and
  those still to load, the linked barcodes of the archives are known.

The inductive invariant `IndInv` has two parts. `Base` is `TypeOK`, `WellFormed`,
`StatesMatchPhase` and `VoidRows`, and holds however the requests of a session overlap;
`Accounts` is `JournalAccounts`, `SessionsAreJournalled`, `Polite` and
`ReplayFollowsTheLiveSession`, and holds if they come one at a time. There is a lemma
per action for each; the central ones are that a change of a live cart is the
`Effect` of the row it is to write, and that the replay of a row has the same.
From `Accounts`: `JournalHolds`, `ReplayIsExact`, `NothingInMemoryAlone`; from `Base`
alone, so for overlapping requests too: `TypeCorrect`, `VoidedStaysVoided`, and with
the fact that a number given has a file, `GivenSessionsStay`.

`SessionProofs` builds on that invariant. `CartStep` says what a step may do to a cart,
whichever of the actions it is (`Moves`): leave its goods and cards, make it afresh,
sell or take out one unit, booked in one department, or add or remove one card; and
which request or row is the `Cause` of a sale or a void. A property of goods, cards and
totals that a fresh cart has and each of these moves keeps, holds (`Sound`). From it:

* `CardsAreHeldOnce`, `LoyCounterHolds`: the slots in use are those below the
  counter at the time of each addition, so an overwritten slot never leaves a card
  twice, and the counter counts at least the cards held.
* `BarcodesMirror`: a sale and a void change the row of the barcode and that of
  its item alike.
* `VoidSessionsAreFrozen`, for requests that overlap as they like: a void cart is
  changed only by a request that was past its look at the state, each of those makes
  its one change and is past it no more, and no request gets there anew. It is proved
  action by action, from `Base`; cards do not change at all.
* `PosCustomerHolds`: the header a request has written is still that of its cart
  when the rows follow (`Headers`), since no other request is at the session.
* `NumbersAreNotShared` assumes one thread (`OneThread`): the numbers issued are
  below the next one, except between reading and writing it, and after a death
  below the one the files give.
* `CardsAreNotShared` and `CardsAreRegistered` assume one thread and no request
  that removes a card (`NoRemovals`): then at most one journal has a row that adds
  a given card, and the registry names its session, in whatever order files are
  loaded. A card in a cart has its row in the journal (`CardsOwned`). Both
  assumptions are needed: `loyalty_race` drops the first and `loyalty_restarts` the
  second.
* `SessionsAreAStore`, if the requests of a session come one at a time, is the
  refinement of `SessionStore`. `IndInv` says that the content of a session is at all
  times its latest image (`ContentIsLatest`), so only a step that writes a row changes
  what the devices see, and it changes one session by that row's `Effect`, which is one
  action of the store (`EffectIsPromised`). A death, a start, a change without its row,
  a price copy's first row and a refused request change nothing. The case of `AddCard`
  needs that at most one card is in the slot that is overwritten, and the counter has
  room for those that are held, in every image (`History`).

`AmountProofs`. Sums over all items or departments (`SumFunction`) have no
induction the provers can use as a rule, so their laws are proved by the smallest
counterexample: among the subsets of a finite set on which a law fails there is one
with no smaller one (`SmallestSubset`), and taking an element out of it contradicts
that. This gives that a sum moves by what one of its terms moves (`SumChanges`,
`SumOfQuantities`). On this and on `CartStep` rest:

* `CountersStayEqual` and `DepartmentsStayAddedUp`, from the invariant `Sums`, which
  says them of every cart, served or loading; a row moves by one unit and by the
  same amounts in the total and in the department, whatever the price.
* `PosHeadersCountRows`: the counter is the sum of the item rows and, with one
  barcode per item, of the barcode rows, when the header is written and still when
  the rows are (`Headers`).
* `TotalStaysAsShown`, from the invariant `Priced`: a thread that is past the copy of
  a price works on a session that has the copy, and sells at it (`JobPriced`), a
  journal has a row of sale only where the session had the copy, so that a replayed
  sale finds the price of the live one (`RowsPriced`), and no item gets a link by a
  variation (`Unlinked`); so every sale and void books the copied price
  (`CausedByCopy`), and every step keeps the total at what was shown (`Shown`). The
  property alone is not inductive: a request may be between copying a price and
  selling at it.

These theorems, and `BarcodesMirror`, assume requests one at a time
(`OneAtATime`), as their properties do. `DepartmentsStayAddedUp` and
`TotalStaysAsShown` say nothing of a store with a department whose code is 0, and
`CountersStayEqual` says less of it: such a department is the total row itself, and a
sale in it is booked twice there.

`VariationFilesProofs`. The invariant `VariationInvariant` says for each place of
the polling thread how `items_map`, `ITEMS.CSV` and `ITEMS.OLD` relate: while the
thread sleeps file and map have the same records; while it dumps, the file has
those up to the iterator; what was applied since the last dump is `updated`, so the
check that found it will dump. `DiskMirrors` and `NoItemIsLost` follow, for any
lookups in between. `RenamedAfterApplied` follows the temporary item from row to
row.

`ItemRequestsProofs`. `LabelsFind`, for every archive: the reader's key and the
lookup's key meet exactly for labels that are the same (`KeysMeet`), the record
under a key is that of the last row read with it, all others are blank
(`MapFollowsRows`), and lookups only add blank ones (`Grown`).

`VoidRestores`, in the same module, for every archive, promotion and history: taking from
a row after adding to it gives the row back, also with the linked item's sale in
between, which may be of the same item or barcode; booking a price and booking it
back leaves a row's amount and discount together as they were; and the price of the
void is that of the sale, since the sale left a copy of it. The invariant is that
archives and session have their types (`WellTyped`).

`UrlsName`, there too, for urls of any length, with whole, short, signed and
unreadable escapes: the last slash, the slash before it
and the last `?` that the greedy expressions take are those the text has when it
names an action (`ThreeSlashesCounted`, `NamedIs`), and the pairs parsed from a
position on say what the fields from there on say (`AgreesStep`), from the last
position down to the first; the parse is a recursive function, so that it comes to an
end is a lemma (`ParsesExist`). The property itself is inductive.

`ShownAmountsAddUp`, there too, for amounts of any size. The digits of a number are
again a recursive function, shown to exist (`DigitsUptoExist`), and read back they
give the number (`DigitsSay`). `TextShape` goes through the five forms a text can
have; `TextSays` is what is read from each, also behind a further minus sign: the
text says the amount, or it is one of the texts of -99 to -1 and 1 to 9 cents that
say no amount, or of a negative amount behind a minus sign. `SaleAdds` and `VoidTakes`
are what a sale and a void do to the total, linked item included, and the answer
shows the same prices and promotion (`PricesShown`, `PromoShown`): a session that has
copied a price is answered with the copy. A void takes what it shows less the prices
of what was not there (`NotThere`), the item, its linked item or both; of an item
linked to itself a second unit must be there (`LinkThere`). The theorem says, as its
property does, nothing of how much a sale or a void moves the total if one of the
amounts it shows is 1 to 9 or -99 to -1 cents, which the texts misread, or if an item
is of department 0, which books it twice; and nothing of the text of a total that is
misread so. The invariant is `WellTyped`.

`PosTransferProofs`. `FileIsItsHolders` (mutual exclusion, and the holder finds
exactly its rows in the `.TMP` file, whatever an earlier process left) is
inductive together with types and the fact that a thread that has not opened the
file has written no row. `TransferIsTheMailbox` is the refinement: `Rename` maps to
`Put`, `Take` to `Take`, all else stutters.

`RequestParserProofs`. `ParserTypeCorrect` and `BackAlwaysExists`: in the five
states where the code writes to `headers.back()` there is a header, for input of
any length.

`ParserFollowsGrammar` and `ParserRejectsWhenHopeless`, there too: whatever bytes
come, an accepted input is one request of the grammar and method, uri and headers
are those of its lines, and the parser rejects at the first byte with which no
request begins. Neither property is inductive: they speak of the last byte, not of
the states between. The invariant is `ReadsInv`, and its part `Reads` says for each
state what the input so far looks like: the lines that ended fit (`Fit`), the
headers are those of these lines (`HeadersOf`), and the line at hand is as far as
the state says (`InFirstLine`, `InHeaderLine`; a continued value has two readings,
the header as it stood and the text that joined it). `ByteReads` takes it over one
byte, state by state. That what is not rejected can still become a request is shown
by finishing it: each state has a place in `Plain` from which the rest of `Plain`
completes the input (`ReadsCompletes`). That what is rejected cannot is shown at the
byte that is turned down: no input that starts so has a line that fits there
(`Hopeless`). The grammar folds its headers with a recursive function over the
positions; the proof only uses what it is at one position, given the one before.

`HttpServerProofs`. `FirstRequestIsAnswered`, for any number of clients, threads
and reads. The strengthening says, for each connection and phase, that what was
read so far is all `part` except perhaps the last, that the reply is the one
that last read deserves, and that the backlog holds a connection at most once and
only in the phase `queued`.

Only model-checked: everything under fairness (`BootEnds`, `RequestsEnd`,
`SendsEnd`, `FilesAreProcessed`, `RequestsAreAnswered`, `StopEnds`,
`GoneConnectionsClose`), which the prover does not reach. Every invariant and every
action property of a passing run is a theorem.

## 5. What is not modelled

* The JSON of answers around the amounts of `ItemRequests`, logging, `printCart`,
  `getAllCartJson`; `persist` and `close` of a cart, which nobody calls; the rescan
  flag, which nobody reads; the text of stock replies and mime types.
* The quantity of a sale, which is always 1.
* In `BaseSystem`, decoding and promotions: there they are any tables (`ItemOf`,
  `EmbeddedPrice`, `Discount`). `ItemRequests` computes them, for one thread and
  without the journal.
* The reading of `DEPARTMENTS.CSV` and `PROMOTIONS.CSV`, and the cutting of a CSV
  line into columns: pure input. `dumpArchivesFromMemory` writes copies nobody
  reads.
* Urls with characters out of the classes of `RequestUrl`; they end a key or a
  value like the ones that are there.
* A journal row torn by a death (rows are flushed whole here; a torn one stops the
  next start at `base_system.cpp:676`) and a start without `ITEMS.CSV` in `BaseSystem`.
* A `std::map` corrupted or an increment lost by a data race: two changes of one cart,
  or of the registry or `carts_map`, at the same instant.
* Requests about cards that overlap in one session: two additions may then find the
  same slot free. `BaseAssumption` asks for `OneAtATime` where there are such requests.
* Barcodes of links that are not in their normal form: a live sale looks the link up
  as it stands (`base_system.cpp:1025`), the replay of its row decodes it (759).
  `BaseAssumption` says that the links of the shipped archive are known barcodes.
* A session changed while it is being sent, in `PosTransfer`. In `BaseSystem` it may
  be, between header and rows, if its requests overlap; the properties about the file
  assume that its device waits.
* Version numbers of HTTP requests: nothing reads them.
* Renaming a `.VAR` file that fails, `.VAR` files in subfolders.
* The Windows service, the reading of the ini file, the build, the test pages.

## 6. Plan

Done, in this order: sessions, journal and recovery with the journal theorems; the
transfer and its refinement; variation files; the parser against its grammar;
connections, pool and stop; barcodes, amounts, urls and the requests about items;
the theorems on cards, numbers, frozen sessions, the archive's file, labels, voids
and urls; the parser's agreement with its grammar; the sums over items and
departments; the abstract session store; the amounts shown.

Worth doing next:

1. `ItemRequests` with two threads and the journal of `BaseSystem` in one module:
   each is checked alone now, since their product is out of TLC's reach.
2. `DEPARTMENTS.CSV` and `PROMOTIONS.CSV` read row by row like `BARCODES.CSV`.
