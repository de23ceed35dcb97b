---------------------------- MODULE MCEventLoop -----------------------------
(* Instances of EventLoop.tla for TLC. *)
EXTENDS EventLoop
=============================================================================
