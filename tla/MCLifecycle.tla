---------------------------- MODULE MCLifecycle -----------------------------
(* Instances of Lifecycle.tla for TLC. *)
EXTENDS Lifecycle

CONSTANTS p1, p2, p3, file, port

(* Two servers that want the same file and the same port, in either order, *)
(* and one that wants the file only.                                       *)
ListensMC == [p \in Procs |-> IF p = p1 THEN <<file, port>>
                              ELSE IF p = p2 THEN <<port, file>> ELSE <<file>>]
=============================================================================
