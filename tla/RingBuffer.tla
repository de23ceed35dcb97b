----------------------------- MODULE RingBuffer -----------------------------
(***************************************************************************)
(* server/ringbuffer.c: the growing circular byte buffer behind a socket's *)
(* read and write buffers.                                                 *)
(***************************************************************************)
EXTENDS Integers, Sequences

CONSTANTS
  Bytes,    \* the bytes of the stream
  Buffers,  \* what may be written by one call
  Sizes,    \* the sizes passed to peek, discard and read
  InitCap,  \* initial capacity, 1024 in dime_ringbuffer_init
  MaxLen,   \* bound: no write that would leave more than this many bytes
  Junk      \* what an array slot holds that was never written

ASSUME BuffersAssumption == Buffers \subseteq Seq(Bytes)
ASSUME SizesAssumption == Sizes \subseteq Nat
ASSUME InitCapAssumption == InitCap \in Nat /\ InitCap >= 2
ASSUME MaxLenAssumption == MaxLen \in Nat

VARIABLES
  arr, cap, begin, end, len,  \* the fields of dime_ringbuffer_t
  got                         \* the bytes the last operation copied out

ring == <<arr, cap, begin, end, len>>
vars == <<ring, got>>

Init ==
  /\ cap = InitCap
  /\ arr = [i \in 0..(InitCap - 1) |-> Junk]
  /\ len = 0
  /\ begin = 0
  /\ end = 0
  /\ got = <<>>

-----------------------------------------------------------------------------
(* Mutant: the buffer may become completely full.                          *)
GrowsLate(siz) == len + siz > cap

(* A write that would fill the buffer makes it one and a half times as     *)
(* large as what it has to hold, and moves the part behind begin.          *)
Grows(siz) == len + siz >= cap
NewCap(siz) == IF Grows(siz) THEN (3 * (len + siz)) \div 2 ELSE cap
(* Mutant: the comparison is the wrong way round.                          *)
MovedSwapped(siz) == Grows(siz) /\ begin < end

Moved(siz) == Grows(siz) /\ end < begin
NewBegin(siz) == IF Moved(siz) THEN begin + (NewCap(siz) - cap) ELSE begin
NewArr(siz) ==
  [i \in 0..(NewCap(siz) - 1) |->
     IF Moved(siz) /\ i >= NewBegin(siz) THEN arr[i - (NewCap(siz) - cap)]
     ELSE IF i < cap THEN arr[i] ELSE Junk]

(* The two memcpy of a write at slot e of an array a of c slots.           *)
CopyIn(a, c, e, buf) ==
  [j \in 0..(c - 1) |->
     IF j >= e /\ j - e < Len(buf) THEN buf[j - e + 1]
     ELSE IF j + (c - e) < Len(buf) THEN buf[j + (c - e) + 1]
     ELSE a[j]]

Write(buf) ==
  LET siz == Len(buf)
      e   == end + siz
  IN
  /\ len + siz <= MaxLen
  /\ IF siz = 0 THEN UNCHANGED ring
     ELSE /\ cap' = NewCap(siz)
          /\ begin' = NewBegin(siz)
          /\ arr' = CopyIn(NewArr(siz), NewCap(siz), end, buf)
          /\ len' = len + siz
          /\ end' = IF e >= NewCap(siz) THEN e - NewCap(siz) ELSE e
  /\ got' = <<>>

(* realloc returned NULL. *)
WriteFails(buf) ==
  /\ Len(buf) > 0
  /\ Grows(Len(buf))
  /\ got' = <<>>
  /\ UNCHANGED ring

Clamped(siz) == IF siz > len THEN len ELSE siz

(* The two memcpy of a peek. *)
CopyOut(siz) ==
  [i \in 1..siz |-> IF i <= cap - begin THEN arr[begin + i - 1] ELSE arr[i - 1 - (cap - begin)]]

Peek(siz) ==
  /\ got' = CopyOut(Clamped(siz))
  /\ UNCHANGED ring

(* Mutant: begin does not wrap around.                                     *)
DropNoWrap(siz) ==
  /\ len' = len - siz
  /\ begin' = begin + siz
  /\ UNCHANGED <<arr, cap, end>>

Drop(siz) ==
  /\ len' = len - siz
  /\ begin' = IF begin + siz >= cap THEN begin + siz - cap ELSE begin + siz
  /\ UNCHANGED <<arr, cap, end>>

Discard(siz) == Drop(Clamped(siz)) /\ got' = <<>>

Read(siz) == Drop(Clamped(siz)) /\ got' = CopyOut(Clamped(siz))

Next ==
  \/ \E buf \in Buffers : Write(buf) \/ WriteFails(buf)
  \/ \E siz \in Sizes : Peek(siz) \/ Discard(siz) \/ Read(siz)

Spec == Init /\ [][Next]_vars

-----------------------------------------------------------------------------
(* The slot of the i-th byte. *)
At(b, c, i) == IF b + i - 1 >= c THEN b + i - 1 - c ELSE b + i - 1

Contents == [i \in 1..len |-> arr[At(begin, cap, i)]]

(* The indices stay inside the array, and the length below the capacity.   *)
TypeOK ==
  /\ cap \in Nat /\ cap >= 2
  /\ len \in Nat
  /\ begin \in 0..(cap - 1)
  /\ end \in 0..(cap - 1)
  /\ arr \in [0..(cap - 1) -> Bytes \cup {Junk}]

(* The buffer is never completely full, so begin = end means empty: the    *)
(* growth of a wrapped buffer tests end < begin and relies on it.  The     *)
(* indices agree with the length and every readable byte was written.      *)
Consistent ==
  /\ len < cap
  /\ end = At(begin, cap, len + 1)
  /\ \A i \in 1..len : arr[At(begin, cap, i)] \in Bytes

Abs == INSTANCE ByteQueue WITH bytes <- Contents

(* The buffer is a byte stream: no byte is lost, duplicated or reordered   *)
(* by any mix of writes, growth, wrap-around, peeks and partial discards.  *)
ImplementsByteQueue == Abs!Spec
=============================================================================
