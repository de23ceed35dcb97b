-------------------------------- MODULE Table -------------------------------
(***************************************************************************)
(* server/table.c: open addressing with triangular probing, tombstones,    *)
(* growth and rehashing in place.  The server keeps its clients in one     *)
(* (fd2clnt) and its groups in another (name2clnt).                        *)
(*                                                                         *)
(* The table is one record, because relocation threads it through a        *)
(* recursion.  The key and the value that a removed slot still holds are   *)
(* never read and are left out.                                            *)
(***************************************************************************)
EXTENDS Integers, FiniteSets

CONSTANTS
  Keys,     \* descriptors or group names
  Values,   \* pointers to clients or groups
  Hash,     \* hash_fd or hash_name: any function of the key
  InitCap,  \* the initial capacity, 32 in dime_table_init
  MaxCap,   \* bound: realloc always fails beyond it
  MaxCollisions,  \* bound: no insertion once ncollisions has reached it
  Free,     \* ELEM_FREE
  Removed,  \* ELEM_REMOVED
  Null,     \* return value of a search or removal that finds nothing
  Done,     \* return value of an insertion that succeeded
  Failed    \* return value of an insertion that failed

ASSUME HashAssumption == Hash \in [Keys -> Nat]
ASSUME CapAssumption == \E e, f \in 1..31 : e <= f /\ InitCap = 2^e /\ MaxCap = 2^f

VARIABLES
  tbl,    \* dime_table_t: arr, cap, len, ncollisions and nfree
  ret,    \* what the last operation returned
  hung,   \* a search or removal is in a loop that does not end
  filled  \* history: every slot has been occupied since the last growth

vars == <<tbl, ret, hung, filled>>

Occupied == [key : Keys, val : Values]

(* The j-th slot that the probe sequence of key k visits: the step grows   *)
(* by one each time.                                                       *)
Probe(t, k, j) == (Hash[k] + (j * (j - 1)) \div 2) % t.cap

Init ==
  /\ tbl = [arr |-> [i \in 0..(InitCap - 1) |-> Free], cap |-> InitCap,
            len |-> 0, ncollisions |-> 0, nfree |-> InitCap]
  /\ ret = Done
  /\ hung = FALSE
  /\ filled = FALSE

-----------------------------------------------------------------------------
(* Relocation takes an element out and puts it into the first slot of its  *)
(* probe sequence that is not occupied, after the slots on the way have    *)
(* been relocated themselves.                                              *)
RECURSIVE Relocate(_, _), Place(_, _, _)

Place(t, e, j) ==
  LET i == Probe(t, e.key, j)
      u == Relocate(t, i)
  IN  IF u.arr[i] \in Occupied
      THEN Place(u, e, j + 1)
      ELSE [u EXCEPT !.arr[i] = e, !.ncollisions = IF j > 1 THEN @ + 1 ELSE @]

Relocate(t, i) ==
  IF t.arr[i] \notin Occupied THEN [t EXCEPT !.arr[i] = Free]
  ELSE IF Probe(t, t.arr[i].key, 1) = i THEN t
  ELSE Place([t EXCEPT !.arr[i] = Free], t.arr[i], 1)

RECURSIVE RelocateDown(_, _), RelocateUp(_, _)

(* The slots below i, from the last to the first.                          *)
RelocateDown(t, i) == IF i = 0 THEN t ELSE RelocateDown(Relocate(t, i - 1), i - 1)

(* The slots from i on, from the first to the last.                        *)
RelocateUp(t, i) == IF i = t.cap THEN t ELSE RelocateUp(Relocate(t, i), i + 1)

(* Mutant: the elements stay where they are.                               *)
GrowInPlace(t) ==
  [t EXCEPT !.cap = 2 * @,
            !.arr = [i \in 0..(2 * t.cap - 1) |-> IF i < t.cap THEN t.arr[i] ELSE Free],
            !.ncollisions = 0,
            !.nfree = 2 * t.cap - t.len]

(* The array is doubled and its old half relocated.                        *)
Grow(t) ==
  RelocateDown([t EXCEPT !.cap = 2 * @,
                         !.arr = [i \in 0..(2 * t.cap - 1) |->
                                    IF i < t.cap THEN t.arr[i] ELSE Free],
                         !.ncollisions = 0,
                         !.nfree = 2 * t.cap - t.len], t.cap)

(* The realloc of dime_table_grow may fail at any call and succeed at the  *)
(* next.                                                                   *)
Reallocs(t) == IF 2 * t.cap <= MaxCap THEN BOOLEAN ELSE {FALSE}

(* The table t after a call of dime_table_grow if the condition holds.     *)
GrownIf(cond, t, realloc) == IF cond /\ realloc THEN Grow(t) ELSE t

(* MAX_LOAD_FACTOR is 1/2 and MAX_OVERFLOW_FACTOR is about 0.20225.  A     *)
(* table with len >= cap is loaded too.                                    *)
Loaded(t) == 2 * t.len > t.cap
Overflows(t) == 100000 * t.ncollisions > 20225 * t.len
FewFree(t) == 2 * t.nfree < t.cap

(* The slot Probe(t, k, j), which was free or removed, takes the element.  *)
Stored(t, k, v, j) ==
  [t EXCEPT !.arr[Probe(t, k, j)] = [key |-> k, val |-> v],
            !.len = @ + 1,
            !.ncollisions = IF j > 1 THEN @ + 1 ELSE @]

(* Mutant: no rehashing in place.                                          *)
CountedOnly(t) == [t EXCEPT !.nfree = @ - 1]

(* A slot that was free is counted; when few are left the table is         *)
(* rehashed in place, which frees the removed ones.                        *)
Counted(t) ==
  LET u == [t EXCEPT !.nfree = @ - 1] IN
  IF FewFree(u) THEN RelocateUp([u EXCEPT !.nfree = u.cap - u.len], 0) ELSE u

IsFirst(t, k, j, P(_)) ==
  P(t.arr[Probe(t, k, j)]) /\ \A h \in 1..(j - 1) : ~P(t.arr[Probe(t, k, h)])

(* The key is not in the table: dime_client_join searches for a name       *)
(* before it inserts it, and accept returns a descriptor that is not open. *)
Insert(k, v) ==
  /\ ~hung
  /\ tbl.ncollisions < MaxCollisions
  /\ \A i \in DOMAIN tbl.arr : tbl.arr[i] \in Occupied => tbl.arr[i].key # k
  /\ \E ok \in Reallocs(tbl) :
       LET t == GrownIf(Loaded(tbl), tbl, ok) IN
       \/ /\ t.len >= t.cap
          /\ ret' = Failed
          /\ UNCHANGED tbl
       \/ \E j \in 1..t.cap :
            LET s == Stored(t, k, v, j) IN
            /\ t.len < t.cap
            /\ IsFirst(t, k, j, LAMBDA x : x \notin Occupied)
            /\ \E ok2 \in Reallocs(s) :
                 LET u == GrownIf(j > 1 /\ Overflows(s), s, ok2) IN
                 tbl' = IF t.arr[Probe(t, k, j)] = Free THEN Counted(u) ELSE u
            /\ ret' = Done
  /\ filled' = (tbl'.cap = tbl.cap /\ (filled \/ tbl'.len = tbl'.cap))
  /\ UNCHANGED hung

(* Where the loop of search and remove stops: at the key or at a free slot. *)
StopsAt(k, j) == IsFirst(tbl, k, j, LAMBDA s : s = Free \/ (s \in Occupied /\ s.key = k))

(* A search that passed removed slots moves what it found into the first   *)
(* of them.                                                                *)
Advanced(k, j, h) ==
  LET i == Probe(tbl, k, j)
      a == Probe(tbl, k, h)
  IN  [tbl EXCEPT !.arr = [@ EXCEPT ![a] = tbl.arr[i], ![i] = Removed],
                  !.ncollisions = IF h = 1 THEN @ - 1 ELSE @]

Search(k) ==
  /\ ~hung
  /\ \E j \in 1..tbl.cap :
       LET s == tbl.arr[Probe(tbl, k, j)] IN
       /\ StopsAt(k, j)
       /\ ret' = IF s = Free THEN Null ELSE s.val
       /\ \/ /\ s # Free
             /\ \E h \in 1..(j - 1) : IsFirst(tbl, k, h, LAMBDA x : x = Removed)
                                        /\ tbl' = Advanced(k, j, h)
          \/ /\ s = Free \/ \A h \in 1..(j - 1) : tbl.arr[Probe(tbl, k, h)] # Removed
             /\ UNCHANGED tbl
  /\ UNCHANGED <<hung, filled>>

(* Mutant: the slot becomes free.                                          *)
RemoveFrees(k) ==
  /\ ~hung
  /\ \E j \in 1..tbl.cap :
       LET i == Probe(tbl, k, j) IN
       /\ StopsAt(k, j)
       /\ tbl.arr[i] # Free
       /\ ret' = tbl.arr[i].val
       /\ tbl' = [tbl EXCEPT !.arr[i] = Free, !.len = @ - 1, !.nfree = @ + 1]
  /\ UNCHANGED <<hung, filled>>

(* Mutant: the length stays.                                               *)
RemoveKeepsLen(k) ==
  /\ ~hung
  /\ \E j \in 1..tbl.cap :
       LET i == Probe(tbl, k, j) IN
       /\ StopsAt(k, j)
       /\ tbl.arr[i] # Free
       /\ ret' = tbl.arr[i].val
       /\ tbl' = [tbl EXCEPT !.arr[i] = Removed]
  /\ UNCHANGED <<hung, filled>>

Remove(k) ==
  /\ ~hung
  /\ \E j \in 1..tbl.cap :
       LET i == Probe(tbl, k, j) IN
       /\ StopsAt(k, j)
       /\ IF tbl.arr[i] = Free
          THEN ret' = Null /\ UNCHANGED tbl
          ELSE /\ ret' = tbl.arr[i].val
               /\ tbl' = [tbl EXCEPT !.arr[i] = Removed, !.len = @ - 1]
  /\ UNCHANGED <<hung, filled>>

(* The probe sequence visits every slot in its first cap steps: where none *)
(* of them stops the loop of a search or a removal, nothing does.          *)
NeverStops(k) ==
  /\ ~hung
  /\ \A j \in 1..tbl.cap : ~StopsAt(k, j)
  /\ hung' = TRUE
  /\ UNCHANGED <<tbl, ret, filled>>

(* The loop goes on, and the server has no other thread.                   *)
Spin == hung /\ UNCHANGED vars

Next ==
  \/ \E k \in Keys :
       \/ \E v \in Values : Insert(k, v)
       \/ Search(k)
       \/ Remove(k)
       \/ NeverStops(k)
  \/ Spin

Spec == Init /\ [][Next]_vars

-----------------------------------------------------------------------------
(* What dime_table_iter_next delivers: the occupied slots, by index.       *)
Elements == {i \in DOMAIN tbl.arr : tbl.arr[i] \in Occupied}

(* The array has as many slots as the capacity says, and the length is the *)
(* number of occupied ones.                                                *)
TypeOK ==
  /\ tbl.cap \in InitCap..MaxCap
  /\ tbl.arr \in [0..(tbl.cap - 1) -> Occupied \cup {Free, Removed}]
  /\ tbl.len = Cardinality(Elements)
  /\ ret \in Values \cup {Null, Done, Failed}
  /\ hung \in BOOLEAN /\ filled \in BOOLEAN

(* Every element is found: no free slot lies before it in its probe        *)
(* sequence, after any insertions, removals, growth and rehashing in       *)
(* place, and no key is stored twice.                                      *)
Reachable ==
  \A i \in Elements :
    \E j \in 1..tbl.cap :
      /\ Probe(tbl, tbl.arr[i].key, j) = i
      /\ IsFirst(tbl, tbl.arr[i].key, j,
                 LAMBDA s : s = Free \/ (s \in Occupied /\ s.key = tbl.arr[i].key))

(* The counters err on one side only: nfree never exceeds the number of    *)
(* free slots, and ncollisions covers every displaced element, so that the *)
(* decrement in dime_table_search cannot wrap around.  Removed slots alone *)
(* never use up the free ones, however often realloc fails: a table is     *)
(* without a free slot, so that a search for an absent key does not end,   *)
(* exactly from when all its slots were occupied until it grows.           *)
Counters ==
  LET free == {i \in DOMAIN tbl.arr : tbl.arr[i] = Free} IN
  /\ tbl.nfree \in 0..Cardinality(free)
  /\ Cardinality({i \in Elements : Probe(tbl, tbl.arr[i].key, 1) # i}) <= tbl.ncollisions
  /\ (free = {}) <=> filled
  /\ hung => filled

Map == INSTANCE FiniteMap WITH
  map <- [k \in {tbl.arr[i].key : i \in Elements} |->
            (CHOOSE e \in {tbl.arr[i] : i \in Elements} : e.key = k).val]

(* The table implements a finite map.                                      *)
ImplementsMap == Map!Spec
=============================================================================
