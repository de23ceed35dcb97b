------------------------------ MODULE MCSocket ------------------------------
(* Instances of Socket.tla for TLC. *)
EXTENDS Socket

CONSTANTS m1, m2, m3

(* Bodies of 4, 5 and 6 units: one for each form of the WebSocket length   *)
(* when the limits are 5 and 6.                                            *)
JsonLenMC == [m \in Msgs |-> IF m = m3 THEN 2 ELSE 1]
BinLenMC == [m \in Msgs |-> IF m = m1 THEN 0 ELSE 1]
=============================================================================
