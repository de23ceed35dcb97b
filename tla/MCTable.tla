------------------------------- MODULE MCTable -------------------------------
(* Instances of Table.tla for TLC. *)
EXTENDS Table, TLC

CONSTANTS k1, k2, k3, k4, k5, v1, v2

(* Two keys with the same hash, one that collides with them until the      *)
(* table has grown once, one whose home they are displaced to, and one on  *)
(* its own.                                                                *)
HashMC == [k \in Keys |-> IF k \in {k1, k2} THEN 0
                          ELSE IF k = k3 THEN 4
                          ELSE IF k = k4 THEN 1 ELSE 2]

HashSymmetry == Permutations({k1, k2})
=============================================================================
