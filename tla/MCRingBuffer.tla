---------------------------- MODULE MCRingBuffer ----------------------------
(* Instances of RingBuffer.tla for TLC. *)
EXTENDS RingBuffer
CONSTANTS b1, b2
BuffersMC == {<<>>, <<b1>>, <<b2>>, <<b1, b2>>, <<b2, b1, b1>>}
SizesMC == 0..3
=============================================================================
