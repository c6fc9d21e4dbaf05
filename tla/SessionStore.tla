---------------------------- MODULE SessionStore ----------------------------
(***************************************************************************)
(* What the sessions of BaseSystem promise to the devices: a store in      *)
(* which each request takes effect at once or not at all, and which        *)
(* neither stops nor forgets.  There are no threads, no journal, no files  *)
(* and no crashes here.                                                    *)
(***************************************************************************)
EXTENDS Naturals, FiniteSets

CONSTANTS Numbers, Items, Cards, Prices, NoCopy, MaxCards

VARIABLES
  opened, \* the sessions there are
  voided, \* those the customer gave up
  units,  \* the units of each item a session holds
  cards,  \* the loyalty cards it holds
  shown   \* the prices its customer was shown, until the session is void

contents == <<voided, units, cards, shown>>

Unseen == [i \in Items |-> NoCopy]

Init ==
  /\ opened = {} /\ voided = {}
  /\ units = [n \in Numbers |-> [i \in Items |-> 0]]
  /\ cards = [n \in Numbers |-> {}]
  /\ shown = [n \in Numbers |-> Unseen]

Open(n) == opened' = opened \cup {n} /\ UNCHANGED contents

Live(n) == n \in opened \ voided /\ UNCHANGED opened

\* A price is shown once.
Show(n, i, p) ==
  /\ Live(n) /\ shown[n][i] = NoCopy
  /\ shown' = [shown EXCEPT ![n][i] = p]
  /\ UNCHANGED <<voided, units, cards>>

SellUnit(n, i) ==
  /\ Live(n)
  /\ units' = [units EXCEPT ![n][i] = @ + 1]
  /\ UNCHANGED <<voided, cards, shown>>

TakeBack(n, i) ==
  /\ Live(n) /\ units[n][i] > 0
  /\ units' = [units EXCEPT ![n][i] = @ - 1]
  /\ UNCHANGED <<voided, cards, shown>>

\* A new card may take the place of one the session holds.
AddCard(n, k) ==
  /\ Live(n) /\ k \notin cards[n] /\ Cardinality(cards[n]) < MaxCards
  /\ \E lost \in SUBSET cards[n] :
       /\ \A a, b \in lost : a = b
       /\ cards' = [cards EXCEPT ![n] = (@ \ lost) \cup {k}]
  /\ UNCHANGED <<voided, units, shown>>

RemoveCard(n, k) ==
  /\ Live(n) /\ k \in cards[n]
  /\ cards' = [cards EXCEPT ![n] = @ \ {k}]
  /\ UNCHANGED <<voided, units, shown>>

Void(n) ==
  /\ Live(n)
  /\ voided' = voided \cup {n}
  /\ shown' = [shown EXCEPT ![n] = Unseen]
  /\ UNCHANGED <<units, cards>>

Next ==
  \E n \in Numbers :
    \/ Open(n) \/ Void(n)
    \/ \E i \in Items : SellUnit(n, i) \/ TakeBack(n, i) \/ \E p \in Prices : Show(n, i, p)
    \/ \E k \in Cards : AddCard(n, k) \/ RemoveCard(n, k)

Spec == Init /\ [][Next]_<<opened, contents>>

=============================================================================
