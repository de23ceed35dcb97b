----------------------------- MODULE ByteQueue ------------------------------
(***************************************************************************)
(* A byte stream in memory, as ringbuffer.h describes it: bytes leave in   *)
(* the order in which they were written.                                   *)
(***************************************************************************)
EXTENDS Integers, Sequences

CONSTANTS Buffers  \* what may be written by one call

VARIABLES
  bytes,  \* the bytes written and not yet discarded
  got     \* the bytes that the last peek or read copied out

vars == <<bytes, got>>

Init == bytes = <<>> /\ got = <<>>

Write(buf) == bytes' = bytes \o buf /\ got' = <<>>

WriteFails == got' = <<>> /\ UNCHANGED bytes

Peek(n) == got' = SubSeq(bytes, 1, n) /\ UNCHANGED bytes

Discard(n) == bytes' = SubSeq(bytes, n + 1, Len(bytes)) /\ got' = <<>>

Read(n) == got' = SubSeq(bytes, 1, n) /\ bytes' = SubSeq(bytes, n + 1, Len(bytes))

Next ==
  \/ \E buf \in Buffers : Write(buf)
  \/ WriteFails
  \/ \E n \in 0..Len(bytes) : Peek(n) \/ Discard(n) \/ Read(n)

Spec == Init /\ [][Next]_vars
=============================================================================
