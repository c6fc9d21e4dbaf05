----------------------------- MODULE PosMailbox -----------------------------
(***************************************************************************)
(* What the folder scanin promises to the pay stations: a station finds no *)
(* file, or the whole document of one session.  A document may be replaced *)
(* by a later one before the station takes it.                             *)
(***************************************************************************)
CONSTANTS PayStations, Carts, NoFile, Document(_)

VARIABLE box  \* the .IN file of each pay station

Init == box = [p \in PayStations |-> NoFile]

Put(p, c) == box' = [box EXCEPT ![p] = Document(c)]

Take(p) == box[p] # NoFile /\ box' = [box EXCEPT ![p] = NoFile]

Next == \E p \in PayStations : Take(p) \/ \E c \in Carts : Put(p, c)

Spec == Init /\ [][Next]_box

=============================================================================
