------------------------------- MODULE MCDeque -------------------------------
(* Instances of Deque.tla for TLC. *)
EXTENDS Deque
CONSTANTS v1, v2
=============================================================================
