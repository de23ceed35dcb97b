------------------------------- MODULE Deque --------------------------------
(***************************************************************************)
(* server/deque.c: a double-ended queue in a circular array that grows.    *)
(* Every client of the server keeps its undelivered messages in one.       *)
(***************************************************************************)
EXTENDS Integers, Sequences

CONSTANTS
  Values,   \* the pointers stored in the deque
  InitCap,  \* its initial capacity, 16 in dime_deque_init
  MaxLen,   \* bound: no push at this length
  Junk,     \* what an array slot holds that was never written
  Null,     \* return value: the NULL of a pop from an empty deque
  Done,     \* return value: a push that succeeded
  NoMem     \* return value: a push whose realloc failed

ASSUME InitCapAssumption == InitCap \in Nat /\ InitCap >= 2
ASSUME MaxLenAssumption == MaxLen \in Nat
ASSUME JunkAssumption == Junk \notin Values

VARIABLES
  arr, cap, begin, end, len,  \* the fields of dime_deque_t
  ret,                        \* what the last operation returned
  phase,                      \* "idle", or an iterator that is "walking" or at its "end"
  it,                         \* the index of the iterator
  visited                     \* the elements the iterator has delivered

deck == <<arr, cap, begin, end, len>>
iter == <<phase, it, visited>>
vars == <<deck, ret, iter>>

Init ==
  /\ len = 0
  /\ cap = InitCap
  /\ arr = [i \in 0..(InitCap - 1) |-> Junk]
  /\ begin = 0
  /\ end = 0
  /\ ret = Done
  /\ phase = "idle"
  /\ it = 0
  /\ visited = <<>>

-----------------------------------------------------------------------------
(* The common start of both pushes: a full array grows by half, and the    *)
(* part from begin to the old end of the array moves to the new end.       *)
Full == len >= cap
NewCap == IF Full THEN (3 * cap) \div 2 ELSE cap
(* Mutant: a full deque that wraps around, where end = begin, stays.       *)
MovedStrict == Full /\ end < begin

Moved == Full /\ end <= begin
NewBegin == IF Moved THEN begin + (NewCap - cap) ELSE begin
(* Mutant: begin is adjusted and the part is not moved.                    *)
NewArrUnmoved == [i \in 0..(NewCap - 1) |-> IF i < cap THEN arr[i] ELSE Junk]

NewArr ==
  [i \in 0..(NewCap - 1) |->
     IF Moved /\ i >= NewBegin THEN arr[i - (NewCap - cap)]
     ELSE IF i < cap THEN arr[i] ELSE Junk]

Pushl(p) ==
  LET b == (IF NewBegin = 0 THEN NewCap ELSE NewBegin) - 1 IN
  /\ phase = "idle"
  /\ len < MaxLen
  /\ begin' = b
  /\ arr' = [NewArr EXCEPT ![b] = p]
  /\ cap' = NewCap
  /\ len' = len + 1
  /\ ret' = Done
  /\ UNCHANGED <<end, iter>>

Pushr(p) ==
  /\ phase = "idle"
  /\ len < MaxLen
  /\ begin' = NewBegin
  /\ arr' = [NewArr EXCEPT ![end] = p]
  /\ end' = IF end + 1 = NewCap THEN 0 ELSE end + 1
  /\ cap' = NewCap
  /\ len' = len + 1
  /\ ret' = Done
  /\ UNCHANGED iter

(* realloc returned NULL. *)
PushFails ==
  /\ phase = "idle"
  /\ Full
  /\ ret' = NoMem
  /\ UNCHANGED <<deck, iter>>

(* Mutant: begin does not wrap around.                                     *)
PoplNoWrap ==
  /\ phase = "idle"
  /\ len > 0
  /\ ret' = arr[begin]
  /\ begin' = begin + 1
  /\ len' = len - 1
  /\ UNCHANGED <<arr, cap, end, iter>>

Popl ==
  /\ phase = "idle"
  /\ IF len = 0
     THEN ret' = Null /\ UNCHANGED deck
     ELSE /\ ret' = arr[begin]
          /\ begin' = IF begin + 1 = cap THEN 0 ELSE begin + 1
          /\ len' = len - 1
          /\ UNCHANGED <<arr, cap, end>>
  /\ UNCHANGED iter

(* Mutant: the iterator starts on the first element, not before it.        *)
IterInitLate ==
  /\ phase = "idle"
  /\ phase' = "walking"
  /\ it' = begin
  /\ visited' = <<>>
  /\ UNCHANGED <<deck, ret>>

(* The iterator.  At begin = 0 its index starts at SIZE_MAX, which the     *)
(* first increment takes to 0: -1 here.                                    *)
IterInit ==
  /\ phase = "idle"
  /\ phase' = "walking"
  /\ it' = begin - 1
  /\ visited' = <<>>
  /\ UNCHANGED <<deck, ret>>

IterNext ==
  LET i == IF it + 1 = cap THEN 0 ELSE it + 1 IN
  /\ phase = "walking"
  /\ it' = i
  /\ IF i = end
     THEN phase' = "end" /\ UNCHANGED visited
     ELSE visited' = Append(visited, arr[i]) /\ UNCHANGED phase
  /\ UNCHANGED <<deck, ret>>

(* The iterator goes out of scope. *)
IterDone ==
  /\ phase = "end"
  /\ phase' = "idle"
  /\ it' = 0
  /\ visited' = <<>>
  /\ UNCHANGED <<deck, ret>>

Next ==
  \/ \E p \in Values : Pushl(p) \/ Pushr(p)
  \/ PushFails
  \/ Popl
  \/ IterInit
  \/ IterNext
  \/ IterDone

(* The operations that the server calls.  dime_deque_popr has no caller.    *)
Spec == Init /\ [][Next]_vars

-----------------------------------------------------------------------------
(* The slot of the i-th element of a deque that starts at slot b of c.     *)
At(b, c, i) == IF b + i - 1 >= c THEN b + i - 1 - c ELSE b + i - 1
Slot(i) == At(begin, cap, i)

Contents == [i \in 1..len |-> arr[Slot(i)]]

(* The indices stay inside the array, the length within the capacity, and  *)
(* no operation returns a slot that was never written.  The index of an    *)
(* iterator is outside the array only before its first step, in a deque    *)
(* that starts at slot 0.                                                  *)
TypeOK ==
  /\ cap \in Nat /\ cap >= 2
  /\ len \in 0..cap
  /\ begin \in 0..(cap - 1)
  /\ end \in 0..(cap - 1)
  /\ arr \in [0..(cap - 1) -> Values \cup {Junk}]
  /\ ret \in Values \cup {Null, Done, NoMem}
  /\ it \in -1..(cap - 1)
  /\ it = -1 => phase = "walking" /\ visited = <<>> /\ begin = 0

(* The indices agree with the length, also across growth and wrap-around,  *)
(* and every element between them was written.                             *)
Consistent ==
  /\ end = Slot(len + 1)
  /\ \A i \in 1..len : arr[Slot(i)] \in Values

(* What the iterator delivers is the deque's contents from the head on;    *)
(* unless the deque is full it delivers all of it.                         *)
IterSound ==
  phase # "idle" =>
    /\ Len(visited) <= len
    /\ \A i \in 1..Len(visited) : visited[i] = Contents[i]
    /\ phase = "end" /\ len < cap => Len(visited) = len

Abs == INSTANCE AbstractDeque WITH elems <- Contents

(* The circular array implements a sequence.                               *)
ImplementsDeque == Abs!Spec
=============================================================================
