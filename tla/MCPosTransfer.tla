---------------------------- MODULE MCPosTransfer ---------------------------
(* A small instance of PosTransfer for TLC. *)
EXTENDS PosTransfer, TLC

CONSTANTS t1, t2, c1, c2, c3

\* One unit, two units and an empty cart.
SizeMC == c1 :> 1 @@ c2 :> 2 @@ c3 :> 0

=============================================================================
