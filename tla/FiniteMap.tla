----------------------------- MODULE FiniteMap ------------------------------
(***************************************************************************)
(* A hash table as table.h describes it: a finite map from keys to values, *)
(* and the value the last operation returned.                              *)
(***************************************************************************)
CONSTANTS Keys, Values, Null, Done, Failed

VARIABLES map, ret

vars == <<map, ret>>

Init == map = [k \in {} |-> Null] /\ ret = Done

Insert(k, v) ==
  /\ k \notin DOMAIN map
  /\ map' = [x \in DOMAIN map \cup {k} |-> IF x = k THEN v ELSE map[x]]
  /\ ret' = Done

(* No memory: the map stays as it is.                                      *)
Refuse(k) ==
  /\ k \notin DOMAIN map
  /\ ret' = Failed
  /\ UNCHANGED map

Lookup(k) == IF k \in DOMAIN map THEN map[k] ELSE Null

Search(k) == ret' = Lookup(k) /\ UNCHANGED map

Remove(k) ==
  /\ ret' = Lookup(k)
  /\ map' = [x \in DOMAIN map \ {k} |-> map[x]]

Next ==
  \E k \in Keys :
    \/ \E v \in Values : Insert(k, v)
    \/ Refuse(k)
    \/ Search(k)
    \/ Remove(k)

Spec == Init /\ [][Next]_vars
=============================================================================
