-------------------------- MODULE LifecycleProofs ---------------------------
(***************************************************************************)
(* The safety properties of Lifecycle.tla, for any number of servers with  *)
(* any listeners.  The inductive invariant Inv ties three records of one   *)
(* fact together: who owns a name (owner), which names a process will      *)
(* unlink (pathnames), and how far it has come in its list (next).         *)
(***************************************************************************)
EXTENDS Lifecycle, TLAPS

USE ListensAssumption, NobodyAssumption, FaultsAssumption

(* A server that starts or runs owns what it has bound so far.             *)
OwnsBound ==
  \A p \in Procs :
    /\ pc[p] \in {"add", "bound", "loop"} =>
         \A i \in 1..Len(Listens[p]) :
           i < next[p] \/ (i = next[p] /\ pc[p] = "bound") => owner[Listens[p][i]] = p
    /\ pc[p] = "loop" => next[p] = Len(Listens[p]) + 1
    /\ pc[p] \in {"new", "init"} => next[p] = 1

(* What a process will unlink is its own, and it will unlink it once.      *)
OwnsRecorded ==
  \A p \in Procs :
    pc[p] # "dead" =>
      /\ \A i \in 1..Len(pathnames[p]) : owner[pathnames[p][i]] = p
      /\ \A i, j \in 1..Len(pathnames[p]) : pathnames[p][i] = pathnames[p][j] => i = j
      /\ pc[p] = "bound" => \A i \in 1..Len(pathnames[p]) : pathnames[p][i] # Addr(p)

(* A file of an unhurried process will be unlinked.                        *)
RecordsOwned ==
  \A p \in Procs :
    /\ \A a \in Paths :
         owner[a] = p =>
           \/ \E i \in 1..Len(pathnames[p]) : pathnames[p][i] = a
           \/ pc[p] = "bound" /\ a = Addr(p)
           \/ hurried[p]
    /\ hurried[p] => pc[p] \in {"cleanup", "dead"}
    /\ pc[p] = "dead" => hurried[p] \/ pathnames[p] = <<>>

(* Only a failed dime_server_init leaves freed parts to the exit handler.  *)
FreedByInit ==
  \A p \in Procs :
    /\ pc[p] # "dead" => \A o \in Range(Parts) : heap[p][o] = "freed" => badinit[p]
    /\ pc[p] \in {"new", "init"} => heap[p]["pathnames"] = "null"
    /\ twice[p] => badinit[p]

Inv == TypeOK /\ OwnsBound /\ OwnsRecorded /\ RecordsOwned /\ FreedByInit

-----------------------------------------------------------------------------
LEMMA InitHolds == Init => Inv
<1> SUFFICES ASSUME Init PROVE Inv
  OBVIOUS
<1>1. TypeOK
  <2>1. \A p \in Procs : Listens[p] \in Seq(Addrs) /\ Listens[p] # <<>>
    OBVIOUS
  <2>2. {badinit, twice, hurried} \subseteq [Procs -> BOOLEAN]
    BY DEF Init
  <2> QED BY <2>1, <2>2 DEF Init, TypeOK
<1>2. \A p \in Procs : pc[p] = "new" /\ pathnames[p] = <<>> /\ hurried[p] = FALSE /\ twice[p] = FALSE
  BY DEF Init
<1>3. \A a \in Addrs : owner[a] \notin Procs
  BY DEF Init
<1>4. \A p \in Procs : \A o \in Range(Parts) : heap[p][o] = "null"
  BY DEF Init
<1>5. "pathnames" \in Range(Parts)
  BY DEF Range, Parts
<1>6. OwnsBound
  BY <1>2 DEF OwnsBound, Init
<1>7. OwnsRecorded
  BY <1>2 DEF OwnsRecorded
<1>8. RecordsOwned
  BY <1>2, <1>3 DEF RecordsOwned, Addrs
<1>9. FreedByInit
  BY <1>2, <1>4, <1>5 DEF FreedByInit
<1> QED BY <1>1, <1>6, <1>7, <1>8, <1>9 DEF Inv

(* The address that dime_server_add is at is one of the process's own.     *)
LEMMA AddrType ==
  ASSUME TypeOK, NEW p \in Procs, pc[p] \in {"add", "bound"}
  PROVE  Addr(p) \in Addrs /\ next[p] \in 1..Len(Listens[p])
<1>1. Listens[p] \in Seq(Addrs) /\ next[p] \in Nat \ {0} /\ next[p] <= Len(Listens[p])
  BY DEF TypeOK
<1> QED BY <1>1 DEF Addr

(* One of the four parts of a server comes first.                          *)
LEMMA LeastOfFour ==
  ASSUME NEW T, T \subseteq 1..4, 4 \in T
  PROVE  \E k \in T : \A l \in T : k <= l
<1>1. CASE 1 \in T
  BY <1>1
<1>2. CASE 1 \notin T /\ 2 \in T
  <2>1. \A l \in T : 2 <= l
    BY <1>2
  <2> QED BY <1>2, <2>1
<1>3. CASE 1 \notin T /\ 2 \notin T /\ 3 \in T
  <2>1. \A l \in T : 3 <= l
    BY <1>3
  <2> QED BY <1>3, <2>1
<1>4. CASE 1 \notin T /\ 2 \notin T /\ 3 \notin T
  <2>1. \A l \in T : 4 <= l
    BY <1>4
  <2> QED BY <2>1
<1> QED BY <1>1, <1>2, <1>3, <1>4

(* dime_server_init finds a part that it has not allocated yet.            *)
LEMMA PartType ==
  ASSUME TypeOK, FreedByInit, NEW p \in Procs, pc[p] = "init", InitPart(p)
  PROVE  \E i \in 1..4 : /\ heap' = [heap EXCEPT ![p][Parts[i]] = "live"]
                          /\ heap[p][Parts[i]] = "null"
                          /\ pc' = IF i = 4 THEN [pc EXCEPT ![p] = "add"] ELSE pc
<1> DEFINE missing == {i \in DOMAIN Parts : heap[p][Parts[i]] = "null"}
           i == CHOOSE k \in missing : \A l \in missing : k <= l
<1>1. DOMAIN Parts = 1..4 /\ Len(Parts) = 4 /\ Parts[4] = "pathnames"
  BY DEF Parts
<1>2. 4 \in missing /\ missing \subseteq 1..4
  BY <1>1 DEF FreedByInit
<1> HIDE DEF missing
<1>3. \E k \in missing : \A l \in missing : k <= l
  <2> HIDE DEF i
  <2> QED BY <1>2, LeastOfFour
<1>4. i \in missing
  BY <1>3
<1>5. /\ heap' = [heap EXCEPT ![p][Parts[i]] = "live"]
      /\ pc' = IF i = 4 THEN [pc EXCEPT ![p] = "add"] ELSE pc
  BY <1>1 DEF InitPart, Goes, missing
<1>6. heap[p][Parts[i]] = "null" /\ i \in 1..4
  BY <1>4, <1>2 DEF missing
<1> QED BY <1>5, <1>6

-----------------------------------------------------------------------------
(* Every step keeps the types, the listener index within the list.         *)
LEMMA NextKeepsType ==
  ASSUME TypeOK, FreedByInit, OwnsBound, [Next]_vars
  PROVE  TypeOK'
<1>0. \A p \in Procs : Listens[p] \in Seq(Addrs) /\ Len(Listens[p]) \in Nat \ {0}
  OBVIOUS
<1>1. CASE UNCHANGED vars
  BY <1>1 DEF vars, TypeOK
<1>2. CASE \E a \in Addrs : RemoveStale(a)
  BY <1>2 DEF RemoveStale, TypeOK
<1>3. ASSUME NEW p \in Procs,
             Start(p) \/ ServerStep(p) \/ Fault(p) \/ Signal(p) \/ SecondSignal(p) \/ Kill(p)
      PROVE  TypeOK'
  <2>0. /\ badinit \in [Procs -> BOOLEAN] /\ twice \in [Procs -> BOOLEAN]
        /\ hurried \in [Procs -> BOOLEAN]
    BY DEF TypeOK
  <2>1. CASE Start(p)
    BY <2>1 DEF Start, Goes, TypeOK
  <2>2. CASE InitPart(p)
    <3>1. pc[p] = "init"
      BY <2>2 DEF InitPart
    <3>2. PICK i \in 1..4 : /\ heap' = [heap EXCEPT ![p][Parts[i]] = "live"]
                            /\ pc' = IF i = 4 THEN [pc EXCEPT ![p] = "add"] ELSE pc
      BY <2>2, <3>1, PartType
    <3>3. Parts[i] \in Range(Parts)
      BY DEF Range, Parts
    <3>4. heap' \in [Procs -> [Range(Parts) -> {"null", "live", "freed"}]]
      BY <3>2, <3>3 DEF TypeOK
    <3>5. UNCHANGED <<next, pathnames, owner, badinit, twice, hurried>>
      BY <2>2 DEF InitPart
    <3>6. next[p] = 1
      BY <3>1 DEF OwnsBound
    <3>7. next[p] <= Len(Listens[p])
      BY <1>0, <3>6
    <3>8. pc' \in [Procs -> {"new", "init", "add", "bound", "loop", "cleanup", "dead"}]
      BY <3>2 DEF TypeOK
    <3>9. \A q \in Procs : pc'[q] \in {"add", "bound"} => q = p \/ pc[q] \in {"add", "bound"}
      BY <3>2 DEF TypeOK
    <3> QED BY <3>4, <3>5, <3>7, <3>8, <3>9 DEF TypeOK
  <2>3. CASE Bind(p)
    <3>1. Addr(p) \in Addrs
      BY <2>3, AddrType DEF Bind
    <3>2. owner' \in [Addrs -> Procs \cup {Nobody}]
      BY <2>3, <3>1 DEF Bind, TypeOK
    <3>3. /\ pc[p] = "add" /\ UNCHANGED <<next, heap, pathnames, badinit, twice, hurried>>
          /\ pc' = [pc EXCEPT ![p] = "bound"] \/ pc' = [pc EXCEPT ![p] = "cleanup"]
      BY <2>3 DEF Bind, Goes
    <3> QED BY <3>2, <3>3 DEF TypeOK
  <2>4. CASE Record(p)
    <3>1. Addr(p) \in Addrs /\ next[p] \in 1..Len(Listens[p])
      BY <2>4, AddrType DEF Record
    <3>2. pathnames' \in [Procs -> Seq(Paths)]
      BY <2>4 DEF Record, TypeOK
    <3>3. next' = [next EXCEPT ![p] = next[p] + 1]
      BY <2>4 DEF Record
    <3>4. pc' = [pc EXCEPT ![p] = IF next[p] = Len(Listens[p]) THEN "loop" ELSE "add"]
      BY <2>4 DEF Record, Goes
    <3>5. UNCHANGED <<heap, owner, badinit, twice, hurried>>
      BY <2>4 DEF Record
    <3> QED BY <1>0, <3>1, <3>2, <3>3, <3>4, <3>5 DEF TypeOK
  <2>5. CASE Unlink(p)
    <3>1. pathnames[p] \in Seq(Paths) /\ pathnames[p] # <<>>
      BY <2>5 DEF Unlink, TypeOK
    <3>2. Tail(pathnames[p]) \in Seq(Paths)
      BY <3>1
    <3> QED BY <2>5, <3>2 DEF Unlink, TypeOK
  <2>6. CASE Destroy(p)
    <3>1. twice' \in [Procs -> BOOLEAN]
      BY <2>6, <2>0 DEF Destroy
    <3>2. owner' \in [Addrs -> Procs \cup {Nobody}]
      BY <2>6 DEF Destroy, Released, TypeOK
    <3>3. heap' \in [Procs -> [Range(Parts) -> {"null", "live", "freed"}]]
      BY <2>6 DEF Destroy, TypeOK
    <3>4. pc' = [pc EXCEPT ![p] = "dead"] /\ UNCHANGED <<next, pathnames, badinit, hurried>>
      BY <2>6 DEF Destroy, Goes
    <3> QED BY <3>1, <3>2, <3>3, <3>4 DEF TypeOK
  <2>7. CASE InitFails(p)
    <3>1. heap' \in [Procs -> [Range(Parts) -> {"null", "live", "freed"}]]
      BY <2>7 DEF InitFails, TypeOK
    <3>2. badinit' \in [Procs -> BOOLEAN]
      BY <2>7, <2>0 DEF InitFails
    <3>3. pc' = [pc EXCEPT ![p] = "cleanup"] /\ UNCHANGED <<next, pathnames, owner, twice, hurried>>
      BY <2>7 DEF InitFails, Goes
    <3> QED BY <3>1, <3>2, <3>3 DEF TypeOK
  <2>8. CASE AddFails(p) \/ LoopReturns(p)
    BY <2>8 DEF AddFails, LoopReturns, Goes, TypeOK
  <2>9. CASE Signal(p)
    <3>1. hurried' \in [Procs -> BOOLEAN]
      BY <2>9, <2>0 DEF Signal
    <3>2. pc' = [pc EXCEPT ![p] = "cleanup"] /\ UNCHANGED <<next, heap, pathnames, owner, badinit, twice>>
      BY <2>9 DEF Signal, Goes
    <3> QED BY <3>1, <3>2 DEF TypeOK
  <2>10. CASE SecondSignal(p) \/ Kill(p)
    <3>1. owner' \in [Addrs -> Procs \cup {Nobody}]
      BY <2>10 DEF SecondSignal, Kill, Released, TypeOK
    <3>2. hurried' \in [Procs -> BOOLEAN]
      BY <2>10, <2>0 DEF SecondSignal, Kill
    <3>3. pc' = [pc EXCEPT ![p] = "dead"] /\ UNCHANGED <<next, heap, pathnames, badinit, twice>>
      BY <2>10 DEF SecondSignal, Kill, Goes
    <3> QED BY <3>1, <3>2, <3>3 DEF TypeOK
  <2> QED BY <1>3, <2>1, <2>2, <2>3, <2>4, <2>5, <2>6, <2>7, <2>8, <2>9, <2>10
          DEF ServerStep, Fault
<1> QED BY <1>1, <1>2, <1>3 DEF Next

-----------------------------------------------------------------------------
(* What a step may do to the owner of a name: nothing, or a process takes  *)
(* a name that is free, or gives up its own; or a dead one's is removed.   *)
Takes(p) ==
  /\ pc[p] = "add" /\ owner[Addr(p)] = Nobody
  /\ owner' = [owner EXCEPT ![Addr(p)] = p]
GivesUp(p) ==
  \A a \in Addrs : owner'[a] # owner[a] => owner[a] = p /\ owner'[a] = Nobody

LEMMA OwnerChanges ==
  ASSUME Inv, NEW p \in Procs,
         Start(p) \/ ServerStep(p) \/ Fault(p) \/ Signal(p) \/ SecondSignal(p) \/ Kill(p)
  PROVE  \/ UNCHANGED owner
         \/ Bind(p) /\ Takes(p)
         \/ Unlink(p) /\ GivesUp(p)
         \/ (Destroy(p) \/ SecondSignal(p) \/ Kill(p)) /\ GivesUp(p)
<1>1. CASE Bind(p)
  BY <1>1 DEF Bind, Takes
<1>2. CASE Unlink(p)
  <2>1. pathnames[p] \in Seq(Paths) /\ pathnames[p] # <<>> /\ pc[p] # "dead"
    BY <1>2 DEF Unlink, Inv, TypeOK
  <2>2. owner[pathnames[p][1]] = p
    BY <2>1 DEF Inv, OwnsRecorded
  <2>3. owner' = [owner EXCEPT ![pathnames[p][1]] = Nobody]
    BY <1>2, <2>1 DEF Unlink
  <2> QED BY <1>2, <2>2, <2>3 DEF GivesUp, Inv, TypeOK
<1>3. CASE Destroy(p) \/ SecondSignal(p) \/ Kill(p)
  BY <1>3 DEF Destroy, SecondSignal, Kill, Released, GivesUp
<1>4. CASE Start(p) \/ InitPart(p) \/ Record(p) \/ Fault(p) \/ Signal(p)
  BY <1>4 DEF Start, InitPart, Record, Fault, InitFails, AddFails, LoopReturns, Signal
<1> QED BY <1>1, <1>2, <1>3, <1>4 DEF ServerStep

(* No step takes a name from a living process but its own.                 *)
LEMMA OthersKeep ==
  ASSUME Inv, Next
  PROVE  \A a \in Addrs :
           owner[a] \in Procs /\ pc[owner[a]] # "dead" /\ owner'[a] # owner[a] =>
             /\ owner'[a] = Nobody
             /\ \/ Unlink(owner[a]) /\ a = Head(pathnames[owner[a]])
                \/ Destroy(owner[a]) \/ SecondSignal(owner[a]) \/ Kill(owner[a])
<1> SUFFICES ASSUME NEW a \in Addrs, owner[a] \in Procs, pc[owner[a]] # "dead", owner'[a] # owner[a]
             PROVE  /\ owner'[a] = Nobody
                    /\ \/ Unlink(owner[a]) /\ a = Head(pathnames[owner[a]])
                       \/ Destroy(owner[a]) \/ SecondSignal(owner[a]) \/ Kill(owner[a])
  OBVIOUS
<1>1. ASSUME NEW b \in Addrs, RemoveStale(b) PROVE FALSE
  BY <1>1 DEF RemoveStale, Inv, TypeOK
<1>2. PICK p \in Procs :
        Start(p) \/ ServerStep(p) \/ Fault(p) \/ Signal(p) \/ SecondSignal(p) \/ Kill(p)
  BY <1>1 DEF Next
<1>3. ~Takes(p)
  <2>1. owner \in [Addrs -> Procs \cup {Nobody}]
    BY DEF Inv, TypeOK
  <2> QED BY <2>1 DEF Takes
<1>4. CASE Unlink(p) /\ GivesUp(p)
  <2>1. owner[a] = p /\ owner'[a] = Nobody
    BY <1>4 DEF GivesUp
  <2>2. a = Head(pathnames[p])
    BY <1>4 DEF Unlink, Inv, TypeOK
  <2> QED BY <1>4, <2>1, <2>2
<1>5. CASE (Destroy(p) \/ SecondSignal(p) \/ Kill(p)) /\ GivesUp(p)
  BY <1>5 DEF GivesUp
<1> QED BY <1>2, <1>3, <1>4, <1>5, OwnerChanges

(* What a process keeps to itself, only its own steps change.              *)
Own(p) == Start(p) \/ ServerStep(p) \/ Fault(p) \/ Signal(p) \/ SecondSignal(p) \/ Kill(p)
Private(p) == <<pc[p], next[p], heap[p], pathnames[p], badinit[p], twice[p], hurried[p]>>

LEMMA OthersRest ==
  ASSUME TypeOK, Next, NEW q \in Procs, ~Own(q)
  PROVE  UNCHANGED Private(q)
<1>1. CASE \E a \in Addrs : RemoveStale(a)
  BY <1>1 DEF RemoveStale, Private
<1>2. ASSUME NEW p \in Procs, p # q, Own(p)
      PROVE  UNCHANGED Private(q)
  <2> USE DEF Private, Goes
  <2>0. /\ badinit \in [Procs -> BOOLEAN] /\ twice \in [Procs -> BOOLEAN]
        /\ hurried \in [Procs -> BOOLEAN]
        /\ pc \in [Procs -> {"new", "init", "add", "bound", "loop", "cleanup", "dead"}]
        /\ next \in [Procs -> Nat \ {0}]
        /\ pathnames \in [Procs -> Seq(Paths)]
        /\ heap \in [Procs -> [Range(Parts) -> {"null", "live", "freed"}]]
    BY DEF TypeOK
  <2>1. CASE Start(p)
    BY <1>2, <2>0, <2>1 DEF Start
  <2>2. CASE InitPart(p)
    BY <1>2, <2>0, <2>2 DEF InitPart
  <2>3. CASE Bind(p)
    BY <1>2, <2>0, <2>3 DEF Bind
  <2>4. CASE Record(p)
    BY <1>2, <2>0, <2>4 DEF Record
  <2>5. CASE Unlink(p)
    BY <1>2, <2>0, <2>5 DEF Unlink
  <2>6. CASE Destroy(p)
    BY <1>2, <2>0, <2>6 DEF Destroy
  <2>7. CASE InitFails(p)
    BY <1>2, <2>0, <2>7 DEF InitFails
  <2>8. CASE AddFails(p) \/ LoopReturns(p)
    BY <1>2, <2>0, <2>8 DEF AddFails, LoopReturns
  <2>9. CASE Signal(p) \/ SecondSignal(p) \/ Kill(p)
    BY <1>2, <2>0, <2>9 DEF Signal, SecondSignal, Kill
  <2> QED BY <1>2, <2>1, <2>2, <2>3, <2>4, <2>5, <2>6, <2>7, <2>8, <2>9 DEF Own, ServerStep, Fault
<1> QED BY <1>1, <1>2 DEF Next, Own

(* A starting or running server keeps what it has bound.                   *)
LEMMA NextKeepsBound ==
  ASSUME Inv, Next
  PROVE  OwnsBound'
<1> SUFFICES ASSUME NEW p \in Procs
             PROVE  /\ pc'[p] \in {"add", "bound", "loop"} =>
                         \A i \in 1..Len(Listens[p]) :
                           i < next'[p] \/ (i = next'[p] /\ pc'[p] = "bound") =>
                             owner'[Listens[p][i]] = p
                    /\ pc'[p] = "loop" => next'[p] = Len(Listens[p]) + 1
                    /\ pc'[p] \in {"new", "init"} => next'[p] = 1
  BY DEF OwnsBound
<1>0. /\ \A i \in 1..Len(Listens[p]) : Listens[p][i] \in Addrs
      /\ Len(Listens[p]) \in Nat \ {0}
  <2>1. Listens[p] \in Seq(Addrs) /\ Listens[p] # <<>>
    OBVIOUS
  <2> QED BY <2>1
<1>1. TypeOK /\ OwnsBound /\ FreedByInit
  BY DEF Inv
<1>2. ASSUME NEW a \in Addrs, owner[a] = p, pc[p] # "dead",
             ~Unlink(p), ~Destroy(p), ~SecondSignal(p), ~Kill(p)
      PROVE  owner'[a] = p
  BY <1>2, OthersKeep
<1>3. CASE ~Own(p)
  <2>1. UNCHANGED <<pc[p], next[p]>>
    BY <1>1, <1>3, OthersRest DEF Private
  <2>2. ~Unlink(p) /\ ~Destroy(p) /\ ~SecondSignal(p) /\ ~Kill(p)
    BY <1>3 DEF Own, ServerStep
  <2> QED BY <1>0, <1>1, <1>2, <2>1, <2>2 DEF OwnsBound
<1>4. CASE Start(p)
  BY <1>1, <1>4 DEF Start, Goes, OwnsBound, TypeOK
<1>5. CASE InitPart(p)
  <2>1. pc[p] = "init" /\ next[p] = 1 /\ next' = next
    BY <1>1, <1>5 DEF InitPart, OwnsBound
  <2>2. pc' = [pc EXCEPT ![p] = "add"] \/ pc' = pc
    BY <1>5 DEF InitPart, Goes
  <2>3. pc'[p] \in {"init", "add"}
    BY <1>1, <2>1, <2>2 DEF TypeOK
  <2> QED BY <2>1, <2>3
<1>6. CASE Bind(p)
  <2>1. pc[p] = "add" /\ next' = next /\ next[p] \in Nat
    BY <1>1, <1>6 DEF Bind, TypeOK
  <2>2. CASE owner[Addr(p)] = Nobody
    <3>1. pc'[p] = "bound" /\ owner' = [owner EXCEPT ![Addr(p)] = p]
      BY <1>1, <1>6, <2>2 DEF Bind, Goes, TypeOK
    <3>2. \A i \in 1..Len(Listens[p]) : i < next[p] => owner[Listens[p][i]] = p
      BY <1>1, <2>1 DEF OwnsBound
    <3>3. \A i \in 1..Len(Listens[p]) : i <= next[p] => owner'[Listens[p][i]] = p
      BY <1>0, <1>1, <2>1, <3>1, <3>2 DEF Addr, TypeOK
    <3> QED BY <2>1, <3>1, <3>3
  <2>3. CASE owner[Addr(p)] # Nobody
    BY <1>1, <1>6, <2>3 DEF Bind, Goes, TypeOK
  <2> QED BY <2>2, <2>3
<1>7. CASE Record(p)
  <2>1. /\ pc[p] = "bound" /\ owner' = owner /\ next'[p] = next[p] + 1
        /\ next[p] \in 1..Len(Listens[p])
        /\ pc'[p] = IF next[p] = Len(Listens[p]) THEN "loop" ELSE "add"
    BY <1>1, <1>7, AddrType DEF Record, Goes, TypeOK
  <2>2. \A i \in 1..Len(Listens[p]) : i <= next[p] => owner[Listens[p][i]] = p
    BY <1>1, <2>1 DEF OwnsBound
  <2> QED BY <1>0, <2>1, <2>2
<1>8. CASE Unlink(p) \/ Destroy(p) \/ Fault(p) \/ Signal(p) \/ SecondSignal(p) \/ Kill(p)
  <2>1. pc'[p] \in {"cleanup", "dead"}
    BY <1>1, <1>8 DEF Unlink, Destroy, Fault, InitFails, AddFails, LoopReturns, Signal,
                      SecondSignal, Kill, Goes, TypeOK
  <2> QED BY <2>1
<1> QED BY <1>3, <1>4, <1>5, <1>6, <1>7, <1>8 DEF Own, ServerStep

(* A process still unlinks only its own files, each once.                  *)
LEMMA NextKeepsRecorded ==
  ASSUME Inv, Next
  PROVE  OwnsRecorded'
<1> DEFINE s(p) == pathnames[p]
<1> SUFFICES ASSUME NEW p \in Procs, pc'[p] # "dead"
             PROVE  /\ \A i \in 1..Len(s(p)') : owner'[s(p)'[i]] = p
                    /\ \A i, j \in 1..Len(s(p)') : s(p)'[i] = s(p)'[j] => i = j
                    /\ pc'[p] = "bound" => \A i \in 1..Len(s(p)') : s(p)'[i] # Addr(p)'
  BY DEF OwnsRecorded
<1>1. TypeOK /\ OwnsBound /\ OwnsRecorded
  BY DEF Inv
<1>2. s(p) \in Seq(Paths) /\ Paths \subseteq Addrs
  BY <1>1 DEF TypeOK, Addrs
<1>3. ASSUME NEW a \in Addrs, owner[a] = p, pc[p] # "dead",
             ~Unlink(p), ~Destroy(p), ~SecondSignal(p), ~Kill(p)
      PROVE  owner'[a] = p
  BY <1>3, OthersKeep
<1>4. pc[p] # "dead"
  <2>1. CASE ~Own(p)
    BY <1>1, <2>1, OthersRest DEF Private
  <2>2. CASE Own(p)
    BY <1>1, <2>2 DEF Own, ServerStep, Fault, Start, InitPart, Bind, Record, Unlink, Destroy,
                      InitFails, AddFails, LoopReturns, Signal, SecondSignal, Kill
  <2> QED BY <2>1, <2>2
<1>5. /\ \A i \in 1..Len(s(p)) : owner[s(p)[i]] = p
      /\ \A i, j \in 1..Len(s(p)) : s(p)[i] = s(p)[j] => i = j
      /\ pc[p] = "bound" => \A i \in 1..Len(s(p)) : s(p)[i] # Addr(p)
  BY <1>1, <1>4 DEF OwnsRecorded
<1>6. ASSUME UNCHANGED pathnames[p], ~Unlink(p), ~Destroy(p), ~SecondSignal(p), ~Kill(p),
             pc'[p] = "bound" => \A i \in 1..Len(s(p)) : s(p)[i] # Addr(p)'
      PROVE  /\ \A i \in 1..Len(s(p)') : owner'[s(p)'[i]] = p
             /\ \A i, j \in 1..Len(s(p)') : s(p)'[i] = s(p)'[j] => i = j
             /\ pc'[p] = "bound" => \A i \in 1..Len(s(p)') : s(p)'[i] # Addr(p)'
  <2>1. \A i \in 1..Len(s(p)) : s(p)[i] \in Addrs
    BY <1>2
  <2>2. \A i \in 1..Len(s(p)) : owner'[s(p)[i]] = p
    BY <1>3, <1>4, <1>5, <1>6, <2>1
  <2> QED BY <1>5, <1>6, <2>2
<1>7. CASE ~Own(p)
  <2>1. UNCHANGED <<pc[p], next[p], pathnames[p]>>
    BY <1>1, <1>7, OthersRest DEF Private
  <2>2. ~Unlink(p) /\ ~Destroy(p) /\ ~SecondSignal(p) /\ ~Kill(p)
    BY <1>7 DEF Own, ServerStep
  <2>3. Addr(p)' = Addr(p)
    BY <2>1 DEF Addr
  <2> QED BY <1>5, <1>6, <2>1, <2>2, <2>3
<1>8. CASE Own(p)
  <2>1. ~Destroy(p) /\ ~SecondSignal(p) /\ ~Kill(p)
    BY <1>1 DEF Destroy, SecondSignal, Kill, Goes, TypeOK
  <2>2. CASE Start(p) \/ InitPart(p) \/ Fault(p) \/ Signal(p)
    <3>1. UNCHANGED pathnames /\ pc'[p] # "bound" /\ ~Unlink(p)
      BY <1>1, <2>2 DEF Start, InitPart, Fault, InitFails, AddFails, LoopReturns, Signal, Unlink,
                        Goes, TypeOK
    <3> QED BY <1>6, <2>1, <3>1
  <2>3. CASE Bind(p)
    <3>1. UNCHANGED <<pathnames, next>> /\ ~Unlink(p) /\ pc[p] = "add"
      BY <2>3 DEF Bind, Unlink
    <3>2. pc'[p] = "bound" => owner[Addr(p)] = Nobody
      BY <1>1, <2>3 DEF Bind, Goes, TypeOK
    <3>3. pc'[p] = "bound" => \A i \in 1..Len(s(p)) : s(p)[i] # Addr(p)
      BY <1>5, <3>2
    <3>4. Addr(p)' = Addr(p)
      BY <3>1 DEF Addr
    <3> QED BY <1>6, <2>1, <3>1, <3>3, <3>4
  <2>4. CASE Record(p)
    <3>1. pc[p] = "bound" /\ owner' = owner /\ pc'[p] # "bound"
      BY <1>1, <2>4 DEF Record, Goes, TypeOK
    <3>2. owner[Addr(p)] = p
      BY <1>1, <3>1, AddrType DEF OwnsBound, Addr
    <3>3. s(p)' = s(p) \/ (Addr(p) \in Paths /\ s(p)' = Append(s(p), Addr(p)))
      BY <1>1, <2>4 DEF Record, TypeOK
    <3> HIDE DEF s
    <3>4. CASE s(p)' = s(p)
      BY <1>5, <3>1, <3>4
    <3>5. CASE Addr(p) \in Paths /\ s(p)' = Append(s(p), Addr(p))
      <4>1. /\ Len(s(p)') = Len(s(p)) + 1 /\ Len(s(p)) \in Nat
            /\ \A i \in 1..Len(s(p)) : s(p)'[i] = s(p)[i]
            /\ s(p)'[Len(s(p)) + 1] = Addr(p)
        BY <1>2, <3>5
      <4> QED BY <1>5, <3>1, <3>2, <4>1
    <3> QED BY <3>3, <3>4, <3>5
  <2>5. CASE Unlink(p)
    <3>1. /\ pc[p] = "cleanup" /\ pc' = pc /\ s(p) # <<>>
          /\ owner' = [owner EXCEPT ![Head(s(p))] = Nobody] /\ s(p)' = Tail(s(p))
      BY <1>1, <2>5 DEF Unlink, TypeOK
    <3>2. owner \in [Addrs -> Procs \cup {Nobody}]
      BY <1>1 DEF TypeOK
    <3> HIDE DEF s
    <3>3. /\ Len(s(p)) \in Nat \ {0} /\ Len(s(p)') = Len(s(p)) - 1 /\ Head(s(p)) = s(p)[1]
          /\ \A i \in 1..Len(s(p)') : s(p)'[i] = s(p)[i + 1]
      BY <1>2, <3>1
    <3>4. \A i \in 1..Len(s(p)') : owner'[s(p)'[i]] = p
      <4> TAKE i \in 1..Len(s(p)')
      <4>1. i + 1 \in 1..Len(s(p)) /\ i + 1 # 1 /\ 1 \in 1..Len(s(p))
        BY <3>3
      <4>2. s(p)[i + 1] # s(p)[1] /\ owner[s(p)[i + 1]] = p /\ s(p)[i + 1] \in Addrs
        BY <1>2, <1>5, <4>1
      <4> QED BY <3>1, <3>2, <3>3, <4>2
    <3>5. \A i, j \in 1..Len(s(p)') : s(p)'[i] = s(p)'[j] => i = j
      <4> TAKE i, j \in 1..Len(s(p)')
      <4>1. i + 1 \in 1..Len(s(p)) /\ j + 1 \in 1..Len(s(p))
        BY <3>3
      <4>2. s(p)[i + 1] = s(p)[j + 1] => i + 1 = j + 1
        BY <1>5, <4>1
      <4> QED BY <3>3, <4>2
    <3> QED BY <3>1, <3>4, <3>5
  <2> QED BY <1>8, <2>1, <2>2, <2>3, <2>4, <2>5 DEF Own, ServerStep
<1> QED BY <1>7, <1>8

(* A file that an unhurried process owns is still one that it will unlink. *)
LEMMA NextKeepsOwned ==
  ASSUME Inv, Next
  PROVE  RecordsOwned'
<1> DEFINE s(p) == pathnames[p]
           In(p, a) == \E i \in 1..Len(s(p)) : s(p)[i] = a
<1> SUFFICES ASSUME NEW p \in Procs
             PROVE  /\ \A a \in Paths : owner'[a] = p =>
                         In(p, a)' \/ (pc'[p] = "bound" /\ a = Addr(p)') \/ hurried'[p]
                    /\ hurried'[p] => pc'[p] \in {"cleanup", "dead"}
                    /\ pc'[p] = "dead" => hurried'[p] \/ pathnames'[p] = <<>>
  BY DEF RecordsOwned
<1>1. TypeOK /\ RecordsOwned
  BY DEF Inv
<1>2. s(p) \in Seq(Paths) /\ Paths \subseteq Addrs /\ hurried \in [Procs -> BOOLEAN]
  BY <1>1 DEF TypeOK, Addrs
<1>3. /\ \A a \in Paths : owner[a] = p =>
           In(p, a) \/ (pc[p] = "bound" /\ a = Addr(p)) \/ hurried[p]
      /\ hurried[p] => pc[p] \in {"cleanup", "dead"}
      /\ pc[p] = "dead" => hurried[p] \/ pathnames[p] = <<>>
  BY <1>1 DEF RecordsOwned
<1>4. ASSUME NEW a \in Paths, owner'[a] = p, ~Bind(p)
      PROVE  owner[a] = p
  <2>1. CASE \E b \in Addrs : RemoveStale(b)
    BY <1>1, <1>2, <1>4, <2>1 DEF RemoveStale, TypeOK
  <2>2. ASSUME NEW q \in Procs, Own(q) PROVE owner[a] = p
    <3>1. CASE UNCHANGED owner
      BY <1>4, <3>1
    <3>2. CASE Bind(q) /\ Takes(q)
      BY <1>1, <1>4, <3>2 DEF Takes, TypeOK
    <3>3. CASE GivesUp(q)
      BY <1>2, <1>4, <3>3 DEF GivesUp
    <3> QED BY <2>2, <3>1, <3>2, <3>3, OwnerChanges DEF Own
  <2> QED BY <2>1, <2>2 DEF Next, Own
<1> HIDE DEF In
<1>5. CASE ~Own(p)
  <2>1. UNCHANGED <<pc[p], next[p], pathnames[p], hurried[p]>>
    BY <1>1, <1>5, OthersRest DEF Private
  <2>2. ~Bind(p)
    BY <1>5 DEF Own, ServerStep
  <2>3. Addr(p)' = Addr(p) /\ \A a \in Paths : In(p, a)' <=> In(p, a)
    BY <2>1 DEF Addr, In
  <2> QED BY <1>3, <1>4, <2>1, <2>2, <2>3
<1>6. CASE Start(p) \/ InitPart(p) \/ Fault(p)
  <2>1. /\ UNCHANGED <<pathnames, owner, hurried>> /\ pc[p] \notin {"bound", "cleanup", "dead"}
        /\ pc'[p] # "dead"
    BY <1>1, <1>6 DEF Start, InitPart, Fault, InitFails, AddFails, LoopReturns, Goes, TypeOK
  <2>2. \A a \in Paths : In(p, a)' <=> In(p, a)
    BY <2>1 DEF In
  <2> QED BY <1>3, <2>1, <2>2
<1>7. CASE Bind(p)
  <2>1. UNCHANGED <<pathnames, hurried, next>> /\ pc[p] = "add" /\ Addr(p) \in Addrs
    BY <1>1, <1>7, AddrType DEF Bind
  <2>2. Addr(p)' = Addr(p) /\ \A a \in Paths : In(p, a)' <=> In(p, a)
    BY <2>1 DEF Addr, In
  <2>3. CASE owner[Addr(p)] = Nobody
    <3>1. pc'[p] = "bound" /\ owner' = [owner EXCEPT ![Addr(p)] = p]
      BY <1>1, <1>7, <2>3 DEF Bind, Goes, TypeOK
    <3> QED BY <1>1, <1>2, <1>3, <2>1, <2>2, <3>1 DEF TypeOK
  <2>4. CASE owner[Addr(p)] # Nobody
    <3>1. pc'[p] = "cleanup" /\ owner' = owner
      BY <1>1, <1>7, <2>4 DEF Bind, Goes, TypeOK
    <3> QED BY <1>3, <2>1, <2>2, <3>1
  <2> QED BY <2>3, <2>4
<1>8. CASE Record(p)
  <2>1. pc[p] = "bound" /\ UNCHANGED hurried /\ pc'[p] \in {"add", "loop"} /\ ~Bind(p)
    BY <1>1, <1>8 DEF Record, Bind, Goes, TypeOK
  <2>2. s(p)' = IF Addr(p) \in Paths THEN Append(s(p), Addr(p)) ELSE s(p)
    BY <1>1, <1>8 DEF Record, TypeOK
  <2> HIDE DEF s
  <2>3. \A a \in Paths : In(p, a) \/ a = Addr(p) => In(p, a)'
    <3>1. CASE Addr(p) \notin Paths
      BY <2>2, <3>1 DEF In
    <3>2. CASE Addr(p) \in Paths
      <4>1. /\ Len(s(p)') = Len(s(p)) + 1 /\ Len(s(p)) \in Nat
            /\ \A i \in 1..Len(s(p)) : s(p)'[i] = s(p)[i]
            /\ s(p)'[Len(s(p)) + 1] = Addr(p)
        BY <1>2, <2>2, <3>2
      <4>2. (Len(s(p)) + 1) \in 1..Len(s(p)') /\ \A i \in 1..Len(s(p)) : i \in 1..Len(s(p)')
        BY <4>1
      <4> QED BY <4>1, <4>2 DEF In
    <3> QED BY <3>1, <3>2
  <2> QED BY <1>3, <1>4, <2>1, <2>3
<1>9. CASE Signal(p)
  <2>1. /\ UNCHANGED <<pathnames, owner>> /\ pc'[p] = "cleanup"
        /\ pc[p] \notin {"cleanup", "dead"}
        /\ hurried'[p] = (pc[p] = "bound")
    BY <1>1, <1>2, <1>9 DEF Signal, Goes, TypeOK
  <2>2. \A a \in Paths : In(p, a)' <=> In(p, a)
    BY <2>1 DEF In
  <2> QED BY <1>3, <2>1, <2>2
<1>10. CASE SecondSignal(p) \/ Kill(p)
  <2>1. hurried'[p] /\ pc'[p] = "dead"
    BY <1>1, <1>2, <1>10 DEF SecondSignal, Kill, Goes, TypeOK
  <2> QED BY <2>1
<1>11. CASE Unlink(p)
  <2>1. /\ pc[p] = "cleanup" /\ UNCHANGED <<pc, hurried>> /\ s(p) # <<>> /\ ~Bind(p)
        /\ owner' = [owner EXCEPT ![Head(s(p))] = Nobody] /\ s(p)' = Tail(s(p))
    BY <1>1, <1>11 DEF Unlink, Bind, TypeOK
  <2>2. \A a \in Paths : owner'[a] = p => a # Head(s(p))
    BY <1>1, <1>2, <2>1 DEF TypeOK
  <2> HIDE DEF s
  <2>3. \A a \in Paths : In(p, a) /\ a # Head(s(p)) => In(p, a)'
    <3> SUFFICES ASSUME NEW a \in Paths, NEW i \in 1..Len(s(p)), s(p)[i] = a, a # Head(s(p))
                 PROVE  \E j \in 1..Len(s(p)') : s(p)'[j] = a
      BY DEF In
    <3>1. /\ Len(s(p)) \in Nat \ {0} /\ Len(s(p)') = Len(s(p)) - 1 /\ Head(s(p)) = s(p)[1]
          /\ \A j \in 1..Len(s(p)') : s(p)'[j] = s(p)[j + 1]
      BY <1>2, <2>1
    <3>2. i # 1 /\ i - 1 \in 1..Len(s(p)') /\ (i - 1) + 1 = i
      BY <3>1
    <3>3. s(p)'[i - 1] = a
      BY <3>1, <3>2
    <3> QED BY <3>2, <3>3
  <2> QED BY <1>3, <1>4, <2>1, <2>2, <2>3
<1>12. CASE Destroy(p)
  <2>1. /\ pc[p] = "cleanup" /\ UNCHANGED <<hurried, pathnames>> /\ s(p) = <<>> /\ ~Bind(p)
        /\ pc'[p] = "dead"
    BY <1>1, <1>12 DEF Destroy, Bind, Goes, TypeOK
  <2>2. \A a \in Paths : ~In(p, a)
    BY <2>1 DEF In
  <2> QED BY <1>3, <1>4, <2>1, <2>2
<1> QED BY <1>5, <1>6, <1>7, <1>8, <1>9, <1>10, <1>11, <1>12 DEF Own, ServerStep

(* Nothing but a failed dime_server_init frees a part before the exit      *)
(* handler does.                                                           *)
LEMMA NextKeepsFreed ==
  ASSUME Inv, Next
  PROVE  FreedByInit'
<1> SUFFICES ASSUME NEW p \in Procs
             PROVE  /\ pc'[p] # "dead" => \A o \in Range(Parts) : heap'[p][o] = "freed" => badinit'[p]
                    /\ pc'[p] \in {"new", "init"} => heap'[p]["pathnames"] = "null"
                    /\ twice'[p] => badinit'[p]
  BY DEF FreedByInit
<1>1. TypeOK /\ FreedByInit
  BY DEF Inv
<1>2. /\ pc[p] # "dead" => \A o \in Range(Parts) : heap[p][o] = "freed" => badinit[p]
      /\ pc[p] \in {"new", "init"} => heap[p]["pathnames"] = "null"
      /\ twice[p] => badinit[p]
  BY <1>1 DEF FreedByInit
<1>3. /\ badinit \in [Procs -> BOOLEAN] /\ twice \in [Procs -> BOOLEAN]
      /\ heap \in [Procs -> [Range(Parts) -> {"null", "live", "freed"}]]
      /\ DOMAIN heap[p] = Range(Parts)
  BY <1>1 DEF TypeOK
<1>4. CASE ~Own(p)
  <2>1. UNCHANGED <<pc[p], heap[p], badinit[p], twice[p]>>
    BY <1>1, <1>4, OthersRest DEF Private
  <2> QED BY <1>2, <2>1
<1>5. CASE InitPart(p)
  <2>1. pc[p] = "init" /\ UNCHANGED <<badinit, twice>>
    BY <1>5 DEF InitPart
  <2>2. PICK i \in 1..4 : /\ heap' = [heap EXCEPT ![p][Parts[i]] = "live"]
                          /\ pc' = IF i = 4 THEN [pc EXCEPT ![p] = "add"] ELSE pc
    BY <1>1, <1>5, <2>1, PartType
  <2>3. \A o \in Range(Parts) : heap'[p][o] = "freed" => heap[p][o] = "freed"
    BY <1>3, <2>2
  <2>4. i = 4 => pc'[p] = "add"
    BY <1>1, <2>2 DEF TypeOK
  <2>5. i # 4 => Parts[i] # "pathnames"
    BY DEF Parts
  <2>6. i # 4 => heap'[p]["pathnames"] = heap[p]["pathnames"]
    BY <1>3, <2>2, <2>5
  <2> QED BY <1>2, <2>1, <2>3, <2>4, <2>6
<1>6. CASE InitFails(p)
  <2>1. badinit'[p] /\ pc'[p] = "cleanup" /\ UNCHANGED twice
    BY <1>1, <1>3, <1>6 DEF InitFails, Goes, TypeOK
  <2> QED BY <2>1
<1>7. CASE Destroy(p)
  <2>1. /\ pc[p] = "cleanup" /\ pc'[p] = "dead" /\ UNCHANGED badinit
        /\ twice'[p] = \E o \in Range(Parts) : heap[p][o] = "freed"
    BY <1>1, <1>3, <1>7 DEF Destroy, Goes, TypeOK
  <2> QED BY <1>2, <2>1
<1>8. CASE \/ Start(p) \/ Bind(p) \/ Record(p) \/ Unlink(p) \/ AddFails(p) \/ LoopReturns(p)
           \/ Signal(p) \/ SecondSignal(p) \/ Kill(p)
  <2>1. /\ UNCHANGED <<heap, badinit, twice>> /\ pc[p] # "dead"
        /\ pc'[p] \in {"new", "init"} => pc[p] \in {"new", "init"}
    BY <1>1, <1>8 DEF Start, Bind, Record, Unlink, AddFails, LoopReturns, Signal, SecondSignal, Kill,
                      Goes, TypeOK
  <2> QED BY <1>2, <2>1
<1> QED BY <1>4, <1>5, <1>6, <1>7, <1>8 DEF Own, ServerStep, Fault

-----------------------------------------------------------------------------
LEMMA Inductive == Inv /\ [Next]_vars => Inv'
<1> SUFFICES ASSUME Inv, [Next]_vars PROVE Inv'
  OBVIOUS
<1>1. CASE Next
  BY <1>1, NextKeepsType, NextKeepsBound, NextKeepsRecorded, NextKeepsOwned, NextKeepsFreed DEF Inv
<1>2. CASE UNCHANGED vars
  BY <1>2 DEF vars, Inv, TypeOK, OwnsBound, OwnsRecorded, RecordsOwned, FreedByInit, Addr
<1> QED BY <1>1, <1>2

(* Every variable keeps its type, and main never looks beyond the end of   *)
(* its list of listeners.                                                  *)
THEOREM TypeCorrect == Spec => []TypeOK
<1>1. Inv => TypeOK
  BY DEF Inv
<1> QED BY <1>1, InitHolds, Inductive, PTL DEF Spec

(* A running server owns all its socket files and ports, whatever other    *)
(* servers with the same listeners do (bind in dime_server_add, unlink in  *)
(* dime_server_destroy).                                                   *)
THEOREM RunningStaysReachable == Spec => []RunningReachable
<1>1. Inv => RunningReachable
  <2> SUFFICES ASSUME Inv, NEW p \in Procs, pc[p] = "loop", NEW a \in Range(Listens[p])
               PROVE  owner[a] = p
    BY DEF RunningReachable
  <2>1. Listens[p] \in Seq(Addrs)
    OBVIOUS
  <2>2. PICK i \in 1..Len(Listens[p]) : Listens[p][i] = a
    BY <2>1 DEF Range
  <2>3. i < next[p]
    BY <2>1, <2>2 DEF Inv, OwnsBound
  <2> QED BY <2>2, <2>3 DEF Inv, OwnsBound
<1> QED BY <1>1, InitHolds, Inductive, PTL DEF Spec

(* An orderly exit, at whatever point the signal came, unlinks every       *)
(* socket file that the server has created (dime_server_destroy).          *)
THEOREM OrderlyExitLeavesNothing == Spec => []LeavesNothing
<1>1. Inv => LeavesNothing
  <2> SUFFICES ASSUME Inv, NEW a \in Paths, owner[a] # Nobody, pc[owner[a]] = "dead"
               PROVE  hurried[owner[a]]
    BY DEF LeavesNothing
  <2>1. owner[a] \in Procs
    BY DEF Inv, TypeOK, Addrs
  <2>2. PICK p \in Procs : p = owner[a]
    BY <2>1
  <2>3. pathnames[p] = <<>> => ~(\E i \in 1..Len(pathnames[p]) : pathnames[p][i] = a)
    OBVIOUS
  <2> QED BY <2>2, <2>3 DEF Inv, RecordsOwned
<1> QED BY <1>1, InitHolds, Inductive, PTL DEF Spec

(* The exit handler frees nothing a second time, unless dime_server_init   *)
(* has failed before (server.c frees its parts there and keeps the         *)
(* pointers).                                                              *)
THEOREM PartsFreedOnce == Spec => []FreedOnce
<1>1. Inv => FreedOnce
  BY DEF Inv, FreedByInit, FreedOnce
<1> QED BY <1>1, InitHolds, Inductive, PTL DEF Spec
=============================================================================
