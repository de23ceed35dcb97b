--------------------------- MODULE AbstractDeque ----------------------------
(***************************************************************************)
(* A double-ended queue as deque.h describes it: a sequence with a head    *)
(* and a tail, and the value the last operation returned.                  *)
(***************************************************************************)
EXTENDS Integers, Sequences

CONSTANTS Values, Null, Done, NoMem

VARIABLES elems, ret

vars == <<elems, ret>>

Init == elems = <<>> /\ ret = Done

PushL(p) == elems' = <<p>> \o elems /\ ret' = Done
PushR(p) == elems' = Append(elems, p) /\ ret' = Done
PushFails == ret' = NoMem /\ UNCHANGED elems

PopL == elems # <<>> /\ ret' = Head(elems) /\ elems' = Tail(elems)
PopR == /\ elems # <<>>
        /\ ret' = elems[Len(elems)]
        /\ elems' = SubSeq(elems, 1, Len(elems) - 1)
PopEmpty == elems = <<>> /\ ret' = Null /\ UNCHANGED elems

Next ==
  \/ \E p \in Values : PushL(p) \/ PushR(p)
  \/ PushFails
  \/ PopL
  \/ PopR
  \/ PopEmpty

Spec == Init /\ [][Next]_vars
=============================================================================
