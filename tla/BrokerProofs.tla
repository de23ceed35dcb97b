---------------------------- MODULE BrokerProofs ----------------------------
(***************************************************************************)
(* Theorems about Broker.tla, for every value of its constants.            *)
(***************************************************************************)
EXTENDS Broker, FiniteSetTheorems, TLAPS

(* No element occurs twice. *)
Injective(s) == \A i, j \in DOMAIN s : s[i] = s[j] => i = j

(* Removing an element that occurs once removes it and keeps the others,   *)
(* each once.                                                              *)
LEMMA SwapRemoveType ==
  ASSUME NEW S, NEW s \in Seq(S), NEW x
  PROVE  SwapRemove(s, x) \in Seq(S)
<1>1. CASE ~ \E i \in DOMAIN s : s[i] = x
  BY <1>1 DEF SwapRemove
<1>2. CASE \E i \in DOMAIN s : s[i] = x
  <2> DEFINE j == CHOOSE i \in DOMAIN s : s[i] = x /\ \A h \in 1..(i - 1) : s[h] # x
             t == [i \in 1..(Len(s) - 1) |-> IF i = j THEN s[Len(s)] ELSE s[i]]
  <2>1. SwapRemove(s, x) = t
    BY <1>2 DEF SwapRemove
  <2>2. Len(s) \in Nat /\ Len(s) >= 1 /\ \A i \in 1..Len(s) : s[i] \in S
    BY <1>2
  <2>3. Len(s) - 1 \in Nat /\ t \in [1..(Len(s) - 1) -> S]
    BY <2>2
  <2> HIDE DEF t
  <2>4. t \in Seq(S)
    BY <2>3
  <2> QED BY <2>1, <2>4
<1> QED BY <1>1, <1>2

(* An element that occurs once is removed, the others stay, each once.     *)
LEMMA SwapRemoveOnce ==
  ASSUME NEW S, NEW s \in Seq(S), NEW x, Injective(s)
  PROVE  /\ Injective(SwapRemove(s, x))
         /\ Range(SwapRemove(s, x)) = Range(s) \ {x}
<1>1. CASE ~ \E i \in DOMAIN s : s[i] = x
  BY <1>1 DEF SwapRemove, Range
<1>2. CASE \E i \in DOMAIN s : s[i] = x
  <2> DEFINE j == CHOOSE i \in DOMAIN s : s[i] = x /\ \A h \in 1..(i - 1) : s[h] # x
             n == Len(s)
             t == [i \in 1..(n - 1) |-> IF i = j THEN s[n] ELSE s[i]]
  <2>1. SwapRemove(s, x) = t
    BY <1>2 DEF SwapRemove
  <2>2. n \in Nat /\ n >= 1 /\ DOMAIN s = 1..n
    BY <1>2
  <2>3. PICK k \in 1..n : s[k] = x
    BY <1>2, <2>2
  <2>4. k \in DOMAIN s /\ s[k] = x /\ \A h \in 1..(k - 1) : s[h] # x
    BY <2>2, <2>3 DEF Injective
  <2>5. j \in DOMAIN s /\ s[j] = x
    BY <2>4
  <2>6. j \in 1..n /\ s[j] = x /\ \A i \in 1..n : s[i] = x => i = j
    BY <2>2, <2>5 DEF Injective
  <2> HIDE DEF j, n
  <2>7. Injective(t)
    BY <2>2, <2>6 DEF Injective
  <2>8. ASSUME NEW y \in Range(s) \ {x} PROVE y \in Range(t)
    <3>1. PICK i \in 1..n : s[i] = y /\ i # j
      BY <2>2, <2>6 DEF Range
    <3>2. CASE i = n
      BY <2>2, <2>6, <3>1, <3>2, j \in 1..(n - 1), t[j] = y DEF Range
    <3>3. CASE i # n
      BY <2>2, <3>1, <3>3, i \in 1..(n - 1), t[i] = y DEF Range
    <3> QED BY <3>2, <3>3
  <2>9. ASSUME NEW y \in Range(t) PROVE y \in Range(s) \ {x}
    <3>1. PICK i \in 1..(n - 1) : t[i] = y
      BY DEF Range
    <3> QED BY <2>2, <2>6, <3>1 DEF Range
  <2> QED BY <2>1, <2>7, <2>8, <2>9
<1> QED BY <1>1, <1>2

-----------------------------------------------------------------------------
(* Type correctness.                                                       *)

USE FdsAssumption, NamesAssumption, MsgsAssumption, NameListsAssumption,
    SerializationsAssumption, SyncLimitsAssumption, InitCapAssumption,
    UIntMaxAssumption, AllocMayFailAssumption

LEMMA ReplyTypes ==
  /\ Ok \in Reply /\ Err \in Reply /\ Reregister \in Reply
  /\ \A n \in Nat : Count(n) \in Reply
  /\ \A s \in AllSerializations : Registered(s) \in Reply
  /\ \A S \in SUBSET Names : Devices(S) \in Reply
  /\ \A p \in Payloads \cup {NoBody} : Data(p) \in Reply
BY DEF Ok, Err, Reregister, Count, Registered, Devices, Data, Reply, AllSerializations

OutType == out \in [Fds -> Seq(Reply)]

(* Everything a handler that answers only its own client may push.         *)
LEMMA PushTypes ==
  ASSUME NEW c \in Fds, NEW r \in Reply
  PROVE  /\ Silence \in [Fds -> Seq(Reply)]
         /\ \A rs \in Seq(Reply) : Only(c, rs) \in [Fds -> Seq(Reply)]
         /\ PushError(c) => OutType'
         /\ Push(c, r) => OutType'
<1>1. \A rs \in Seq(Reply) : Only(c, rs) \in [Fds -> Seq(Reply)]
  BY DEF Only
<1>2. Silence \in [Fds -> Seq(Reply)]
  BY DEF Silence
<1>3. <<Err>> \in Seq(Reply) /\ <<r>> \in Seq(Reply)
  BY ReplyTypes
<1> QED BY <1>1, <1>2, <1>3 DEF PushError, Push, OutType

LEMMA ReleaseType ==
  ASSUME TypeOK, NEW S, Release(S)
  PROVE  /\ refs' \in [Msgs -> 0..UIntMax]
         /\ body' \in [Msgs -> Payloads \cup {NoBody}]
<1>1. \A r \in 0..UIntMax : Decremented(r) \in 0..UIntMax
  BY DEF Decremented
<1> QED BY <1>1 DEF TypeOK, Release

LEMMA SubsetBound ==
  ASSUME NEW D \in SUBSET Fds
  PROVE  IsFiniteSet(D) /\ Cardinality(D) \in 0..UIntMax
<1>1. IsFiniteSet(D) /\ Cardinality(D) \in Nat /\ Cardinality(Fds) \in Nat
      /\ Cardinality(D) <= Cardinality(Fds)
  BY FS_Subset, FS_CardinalityType
<1> QED BY <1>1

LEMMA EnqueueType ==
  ASSUME TypeOK, NEW m \in Msgs, NEW p \in Payloads,
         NEW D \in SUBSET Fds, NEW X \in SUBSET Fds, Enqueue(m, p, D, X)
  PROVE  /\ queue' \in [Fds -> Seq(Msgs)]
         /\ qcap' \in [Fds -> Nat]
         /\ waiting' \subseteq Fds
         /\ refs' \in [Msgs -> 0..UIntMax]
         /\ body' \in [Msgs -> Payloads \cup {NoBody}]
<1>1. queue' \in [Fds -> Seq(Msgs)]
  BY DEF TypeOK, Enqueue
<1>2. \A k \in Nat, l \in Nat : Grown(k, l) \in Nat
  BY DEF Grown
<1>3. qcap' \in [Fds -> Nat]
  <2>1. \A d \in Fds : qcap[d] \in Nat /\ Len(queue[d]) \in Nat
    BY DEF TypeOK
  <2>2. \A d \in Fds : Grown(qcap[d], Len(queue[d])) \in Nat
    BY <1>2, <2>1
  <2> QED BY <2>1, <2>2 DEF Enqueue
<1>4. waiting' \subseteq Fds
  BY DEF TypeOK, Enqueue
<1>5. refs' \in [Msgs -> 0..UIntMax]
  BY SubsetBound DEF TypeOK, Enqueue
<1>6. body' \in [Msgs -> Payloads \cup {NoBody}]
  BY DEF TypeOK, Enqueue
<1> QED BY <1>1, <1>3, <1>4, <1>5, <1>6

(* What the relay loop pushes: wake-ups, and an answer to client a.        *)
LEMMA WakeUpOutType ==
  ASSUME TypeOK, NEW D, NEW a, NEW answer \in Seq(Reply),
         out' = [d \in Fds |-> WakeUp(d, D) \o (IF d = a THEN answer ELSE <<>>)]
  PROVE  OutType'
<1>1. \A d \in Fds : Len(queue[d]) + 1 \in Nat
  BY DEF TypeOK
<1>2. \A d \in Fds : WakeUp(d, D) \in Seq(Reply)
  BY <1>1, ReplyTypes DEF WakeUp
<1> QED BY <1>2 DEF OutType

(* One handler keeps the types. *)
LEMMA SendKeepsType ==
  ASSUME TypeOK, NEW c \in Fds, NEW p \in Payloads, NEW R \in SUBSET Fds,
         NEW m \in Msgs,
         \/ Relayed(c, m, p, R)
         \/ \E x \in Fds, D \in SUBSET Fds : Relay(c, m, p, D, x)
  PROVE  /\ queue' \in [Fds -> Seq(Msgs)]
         /\ qcap' \in [Fds -> Nat]
         /\ waiting' \subseteq Fds
         /\ refs' \in [Msgs -> 0..UIntMax]
         /\ body' \in [Msgs -> Payloads \cup {NoBody}]
         /\ OutType'
<1>1. <<Ok>> \in Seq(Reply) /\ <<Err>> \in Seq(Reply) /\ <<>> \in Seq(Reply)
  BY ReplyTypes
<1>2. CASE Relayed(c, m, p, R)
  <2>1. PICK answer \in {<<Ok>>, <<Err>>, <<>>} :
          out' = [d \in Fds |-> WakeUp(d, R) \o (IF d = c THEN answer ELSE <<>>)]
    BY <1>2 DEF Relayed
  <2>2. answer \in Seq(Reply)
    BY <1>1
  <2>3. OutType'
    BY <2>1, <2>2, WakeUpOutType
  <2>4. Enqueue(m, p, R, {}) /\ {} \in SUBSET Fds
    BY <1>2 DEF Relayed
  <2> QED BY <2>3, <2>4, EnqueueType
<1>3. CASE \E x \in Fds, D \in SUBSET Fds : Relay(c, m, p, D, x)
  <2>1. PICK x \in Fds, D \in SUBSET Fds : Relay(c, m, p, D, x)
    BY <1>3
  <2>2. OutType'
    <3>1. PICK a \in {c, x}, answer \in {<<Err>>, <<>>} :
            out' = [d \in Fds |-> WakeUp(d, D) \o (IF d = a THEN answer ELSE <<>>)]
      BY <2>1 DEF Relay, QueueFull, WakeUpFails
    <3>2. answer \in Seq(Reply)
      BY <1>1
    <3> QED BY <3>1, <3>2, WakeUpOutType
  <2>3. \E X \in SUBSET Fds : Enqueue(m, p, D, X)
    BY <2>1 DEF Relay, QueueFull, WakeUpFails
  <2> QED BY <2>2, <2>3, EnqueueType
<1> QED BY <1>2, <1>3

(* Type correctness is inductive as it stands. *)
LEMMA NextKeepsType == TypeOK /\ [Next]_vars => TypeOK'
<1> SUFFICES ASSUME TypeOK, [Next]_vars PROVE TypeOK'
  OBVIOUS
<1>u. CASE UNCHANGED vars
  BY <1>u DEF vars, members_vars, heap_vars, TypeOK
<1>n. CASE Next
  <2> PICK c \in Fds :
        \/ Accept(c)
        \/ Disconnect(c)
        \/ \E s \in Serializations : Handshake(c, s)
        \/ Ignored(c)
        \/ Malformed(c)
        \/ \E ns \in NameLists : Join(c, ns)
        \/ \E ns \in NameLists : Leave(c, ns)
        \/ \E n \in Names, p \in Payloads : Send(c, n, p)
        \/ \E p \in Payloads : Broadcast(c, p)
        \/ \E n \in SyncLimits : Sync(c, n)
        \/ Wait(c)
        \/ ListDevices(c)
    BY <1>n DEF Next
  <2>0. /\ Silence \in [Fds -> Seq(Reply)]
        /\ \A rs \in Seq(Reply) : Only(c, rs) \in [Fds -> Seq(Reply)]
        /\ PushError(c) => OutType'
        /\ \A r \in Reply : Push(c, r) => OutType'
    BY PushTypes, ReplyTypes
  <2>1. CASE Accept(c)
    BY <2>0, <2>1 DEF Accept, TypeOK
  <2>2. CASE Disconnect(c)
    <3>1. members' \in [Names -> Seq(Fds)]
      BY <2>2, SwapRemoveType DEF Disconnect, TypeOK
    <3>2. refs' \in [Msgs -> 0..UIntMax] /\ body' \in [Msgs -> Payloads \cup {NoBody}]
      BY <2>2, ReleaseType DEF Disconnect
    <3> QED BY <2>0, <2>2, <3>1, <3>2, SMTT(30) DEF Disconnect, TypeOK
  <2>3. ASSUME NEW s \in Serializations, Handshake(c, s) PROVE TypeOK'
    <3>1. serialization' \in AllSerializations \cup {NoSerialization}
      BY <2>3 DEF Handshake, TypeOK, AllSerializations, MustReregister, Chosen
    <3>2. /\ <<Reregister>> \in Seq(Reply) /\ <<>> \in Seq(Reply)
          /\ \A a \in AllSerializations : <<Registered(a)>> \in Seq(Reply)
      BY ReplyTypes
    <3>3. Chosen(s) \in AllSerializations
      BY DEF TypeOK, AllSerializations, Chosen
    <3>4. OutType'
      BY <2>3, <3>2, <3>3 DEF Handshake, OutType
    <3> QED BY <2>3, <3>1, <3>4 DEF Handshake, OutType, TypeOK, members_vars, heap_vars
  <2>4. CASE Ignored(c)
    BY <2>0, <2>4 DEF Ignored, TypeOK, members_vars, heap_vars
  <2>5. CASE Malformed(c)
    BY <2>0, <2>5 DEF Malformed, OutType, TypeOK, members_vars, heap_vars
  <2>6. ASSUME NEW ns \in NameLists, Join(c, ns) PROVE TypeOK'
    <3>1. PICK k \in 0..Len(ns) :
            LET done  == {ns[i] : i \in 1..k}
                stuck == {ns[i] : i \in {h \in {k + 1} \cap DOMAIN ns : Joinable(c, ns, h)}}
            IN
            /\ \A i \in 1..k : Joinable(c, ns, i)
            /\ groups' = [groups EXCEPT ![c] = @ \cup done]
            /\ members' = [n \in Names |->
                             IF n \in done THEN Append(members[n], c) ELSE members[n]]
            /\ \/ name2clnt' = name2clnt \cup done
               \/ name2clnt' = name2clnt \cup done \cup stuck
            /\ IF k = Len(ns) THEN Push(c, Ok) ELSE PushError(c)
      BY <2>6 DEF Join
    <3>2. OutType'
      BY <2>0, <3>1, ReplyTypes
    <3>3. {ns[i] : i \in 1..k} \subseteq Names
      BY <3>1 DEF Joinable
    <3>4. {ns[i] : i \in {h \in {k + 1} \cap DOMAIN ns : Joinable(c, ns, h)}} \subseteq Names
      BY DEF Joinable
    <3>5. groups' \in [Fds -> SUBSET Names] /\ name2clnt' \subseteq Names
      BY <3>1, <3>3, <3>4 DEF TypeOK
    <3>6. members' \in [Names -> Seq(Fds)]
      BY <3>1 DEF TypeOK
    <3> QED BY <2>6, <3>2, <3>5, <3>6 DEF Join, OutType, TypeOK, heap_vars
  <2>7. ASSUME NEW ns \in NameLists, Leave(c, ns) PROVE TypeOK'
    <3>1. OutType'
      BY <2>0, <2>7, ReplyTypes DEF Leave
    <3>2. members' \in [Names -> Seq(Fds)]
      <4>1. \A n \in Names : /\ members[n] \in Seq(Fds)
                             /\ SwapRemove(members[n], c) \in Seq(Fds)
        BY SwapRemoveType DEF TypeOK
      <4>2. PICK k \in 0..Len(ns) : members' = [n \in Names |->
                IF n \in {ns[i] : i \in 1..k} THEN SwapRemove(members[n], c) ELSE members[n]]
        BY <2>7 DEF Leave
      <4> QED BY <4>1, <4>2
    <3>3. groups' \in [Fds -> SUBSET Names]
      BY <2>7 DEF Leave, TypeOK
    <3> QED BY <2>7, <3>1, <3>2, <3>3 DEF Leave, OutType, TypeOK, heap_vars
  <2>8. ASSUME NEW n \in Names, NEW p \in Payloads, Send(c, n, p) PROVE TypeOK'
    <3>1. Range(members[n]) \in SUBSET Fds
          /\ \A i \in DOMAIN members[n] : /\ members[n][i] \in Fds
                                          /\ {members[n][h] : h \in 1..(i - 1)} \in SUBSET Fds
      <4>1. members[n] \in Seq(Fds)
        BY DEF TypeOK
      <4>2. \A i \in DOMAIN members[n] : members[n][i] \in Fds
        BY <4>1
      <4>3. \A i \in DOMAIN members[n] : \A h \in 1..(i - 1) : h \in DOMAIN members[n]
        BY <4>1
      <4> QED BY <4>2, <4>3 DEF Range
    <3>2. CASE PushError(c) /\ UNCHANGED <<heap_vars, waiting>>
      BY <2>0, <2>8, <3>2 DEF Send, OutType, TypeOK, heap_vars, members_vars
    <3>3. CASE \E m \in Free : \/ Relayed(c, m, p, Range(members[n]))
                               \/ \E x \in Fds, D \in SUBSET Fds : Relay(c, m, p, D, x)
      <4>1. PICK m \in Msgs : \/ Relayed(c, m, p, Range(members[n]))
                              \/ \E x \in Fds, D \in SUBSET Fds : Relay(c, m, p, D, x)
        BY <3>3 DEF Free
      <4> QED BY <2>8, <3>1, <4>1, SendKeepsType DEF Send, OutType, TypeOK, members_vars
    <3> QED BY <2>8, <3>1, <3>2, <3>3 DEF Send, NoMemory
  <2>9. ASSUME NEW p \in Payloads, Broadcast(c, p) PROVE TypeOK'
    <3>1. conn \ {c} \in SUBSET Fds
      BY DEF TypeOK
    <3>2. CASE PushError(c) /\ UNCHANGED <<heap_vars, waiting>>
      BY <2>0, <2>9, <3>2 DEF Broadcast, OutType, TypeOK, heap_vars, members_vars
    <3>3. CASE \E m \in Free : \/ Relayed(c, m, p, conn \ {c})
                               \/ \E x \in Fds, D \in SUBSET Fds : Relay(c, m, p, D, x)
      <4>1. PICK m \in Msgs : \/ Relayed(c, m, p, conn \ {c})
                              \/ \E x \in Fds, D \in SUBSET Fds : Relay(c, m, p, D, x)
        BY <3>3 DEF Free
      <4> QED BY <2>9, <3>1, <4>1, SendKeepsType DEF Broadcast, OutType, TypeOK, members_vars
    <3> QED BY <2>9, <3>1, <3>2, <3>3 DEF Broadcast, NoMemory
  <2>10. ASSUME NEW n \in SyncLimits, Sync(c, n) PROVE TypeOK'
    <3>1. PICK k \in 0..SyncLength(c, n) :
            /\ queue' = [queue EXCEPT ![c] = SubSeq(@, k + 1, Len(@))]
            /\ Release({queue[c][i] : i \in 1..k})
            /\ \E answer \in {<<Ok>>, <<Err>>, <<>>} :
                 out' = Only(c, [i \in 1..k |-> Data(body[queue[c][i]])] \o answer)
      BY <2>10 DEF Sync
    <3>2. SyncLength(c, n) \in 0..Len(queue[c]) /\ queue[c] \in Seq(Msgs) /\ k \in Nat
      BY DEF SyncLength, TypeOK
    <3>3. queue' \in [Fds -> Seq(Msgs)]
      <4>1. SubSeq(queue[c], k + 1, Len(queue[c])) \in Seq(Msgs)
        BY <3>2
      <4> QED BY <3>1, <4>1 DEF TypeOK
    <3>4. refs' \in [Msgs -> 0..UIntMax] /\ body' \in [Msgs -> Payloads \cup {NoBody}]
      BY <3>1, ReleaseType
    <3>5. \A i \in 1..k : body[queue[c][i]] \in Payloads \cup {NoBody}
      BY <3>2, SMTT(30) DEF TypeOK
    <3>6. [i \in 1..k |-> Data(body[queue[c][i]])] \in Seq(Reply)
      BY <3>2, <3>5, ReplyTypes
    <3>7. <<Ok>> \in Seq(Reply) /\ <<Err>> \in Seq(Reply) /\ <<>> \in Seq(Reply)
      BY ReplyTypes
    <3>8. OutType'
      <4> DEFINE data == [i \in 1..k |-> Data(body[queue[c][i]])]
      <4> HIDE DEF data
      <4>0. \A r \in Seq(Reply), t \in Seq(Reply) : r \o t \in Seq(Reply)
        OBVIOUS
      <4>1. \A answer \in {<<Ok>>, <<Err>>, <<>>} : data \o answer \in Seq(Reply)
        BY <3>6, <3>7, <4>0 DEF data
      <4> QED BY <2>0, <3>1, <4>1 DEF OutType, data
    <3> QED BY <2>10, <3>3, <3>4, <3>8 DEF Sync, OutType, TypeOK, members_vars
  <2>11. CASE Wait(c)
    <3>1. Count(Len(queue[c])) \in Reply
      BY ReplyTypes DEF TypeOK
    <3>2. OutType' /\ waiting' \subseteq Fds
      BY <2>0, <2>11, <3>1 DEF Wait, TypeOK, OutType
    <3> QED BY <2>11, <3>2 DEF Wait, OutType, TypeOK, members_vars, heap_vars
  <2>12. CASE ListDevices(c)
    <3>1. Devices({n \in name2clnt : members[n] # <<>>}) \in Reply
      BY ReplyTypes DEF TypeOK
    <3>2. OutType'
      BY <2>0, <2>12, <3>1 DEF ListDevices
    <3> QED BY <2>12, <3>2 DEF ListDevices, OutType, TypeOK, members_vars, heap_vars
  <2> QED BY <2>1, <2>2, <2>3, <2>4, <2>5, <2>6, <2>7, <2>8, <2>9, <2>10, <2>11, <2>12
<1> QED BY <1>u, <1>n

(* Every variable of the broker keeps its type, whatever commands arrive,  *)
(* with or without allocation failures.                                    *)
THEOREM TypeCorrect == Spec => []TypeOK
<1>1. Init => TypeOK
  BY DEF Init, TypeOK, Silence, AllSerializations, NoSerialization
<1> QED BY <1>1, NextKeepsType, PTL DEF Spec

-----------------------------------------------------------------------------
(* Group membership.                                                       *)

(* The part of MembershipOK that is about one group, and the part that is  *)
(* about the clients that are not connected.                               *)
GroupOK(n) ==
  /\ Range(members[n]) \subseteq conn
  /\ Range(members[n]) = {c \in Fds : n \in groups[c]}
  /\ Injective(members[n])
  /\ members[n] # <<>> => n \in name2clnt

GoneBlank == \A c \in Fds \ conn : groups[c] = {} /\ queue[c] = <<>> /\ c \notin waiting

LEMMA MembershipParts == MembershipOK <=> GoneBlank /\ \A n \in Names : GroupOK(n)
BY DEF MembershipOK, NoDangling, GroupOK, GoneBlank, Injective

LEMMA MembershipPartsNext == MembershipOK' <=> GoneBlank' /\ (\A n \in Names : GroupOK(n))'
BY DEF MembershipOK, NoDangling, GroupOK, GoneBlank, Injective

LEMMA GroupsUnchanged ==
  ASSUME MembershipOK, UNCHANGED <<conn, members_vars>>, GoneBlank'
  PROVE  MembershipOK'
BY MembershipParts, MembershipPartsNext DEF GroupOK, Injective, members_vars

(* Clients that are not connected are no recipients, so the relay loop     *)
(* leaves them alone.                                                      *)
LEMMA RelayKeepsGone ==
  ASSUME TypeOK, GoneBlank, UNCHANGED <<conn, members_vars>>,
         NEW m \in Msgs, NEW p \in Payloads,
         NEW D \in SUBSET conn, NEW X \in SUBSET conn, Enqueue(m, p, D, X)
  PROVE  GoneBlank'
BY DEF TypeOK, GoneBlank, Enqueue, members_vars

(* A group from which client c is removed, and no group keeps another      *)
(* client list than before.                                                *)
LEMMA RemovalKeepsGroup ==
  ASSUME TypeOK, MembershipOK, NEW c \in Fds, NEW S \in SUBSET groups[c],
         members' = [n \in Names |->
                       IF n \in S THEN SwapRemove(members[n], c) ELSE members[n]],
         groups' = [groups EXCEPT ![c] = @ \ S],
         name2clnt' = name2clnt,
         conn' = conn \/ (conn' = conn \ {c} /\ S = groups[c]),
         NEW n \in Names
  PROVE  GroupOK(n)'
<1>0. GroupOK(n) /\ members[n] \in Seq(Fds)
  BY MembershipParts DEF TypeOK
<1>1. CASE n \in S
  <2>1. members'[n] = SwapRemove(members[n], c)
    BY <1>1
  <2>2. Injective(members'[n]) /\ Range(members'[n]) = Range(members[n]) \ {c}
    BY <1>0, <2>1, SwapRemoveOnce DEF GroupOK
  <2>3. \A d \in Fds : n \in groups'[d] <=> n \in groups[d] /\ d # c
    BY <1>1 DEF TypeOK
  <2>4. n \in groups[c] /\ c \in Range(members[n])
    BY <1>0, <1>1 DEF GroupOK
  <2>5. n \in name2clnt'
    BY <1>0, <2>4 DEF GroupOK, Range
  <2> QED BY <1>0, <2>2, <2>3, <2>5 DEF GroupOK
<1>2. CASE n \notin S
  <2>1. members'[n] = members[n]
    BY <1>2
  <2>2. \A d \in Fds : n \in groups'[d] <=> n \in groups[d]
    BY <1>2 DEF TypeOK
  <2>3. Range(members[n]) \subseteq conn'
    BY <1>0, <1>2 DEF GroupOK
  <2> QED BY <1>0, <2>1, <2>2, <2>3 DEF GroupOK
<1> QED BY <1>1, <1>2

(* Appending an element that does not occur. *)
LEMMA AppendOnce ==
  ASSUME NEW S, NEW s \in Seq(S), NEW x \in S, Injective(s), x \notin Range(s)
  PROVE  Injective(Append(s, x)) /\ Range(Append(s, x)) = Range(s) \cup {x}
<1>1. Len(s) \in Nat /\ DOMAIN s = 1..Len(s) /\ DOMAIN Append(s, x) = 1..(Len(s) + 1)
      /\ (\A i \in 1..Len(s) : Append(s, x)[i] = s[i])
      /\ Append(s, x)[Len(s) + 1] = x
  OBVIOUS
<1>2. \A i \in 1..Len(s) : s[i] # x
  BY <1>1 DEF Range
<1>3. Injective(Append(s, x))
  BY <1>1, <1>2 DEF Injective
<1>4. Range(Append(s, x)) \subseteq Range(s) \cup {x}
  BY <1>1 DEF Range
<1>5. Range(s) \subseteq Range(Append(s, x))
  BY <1>1, 1..Len(s) \subseteq 1..(Len(s) + 1) DEF Range
<1>6. x \in Range(Append(s, x))
  BY <1>1, Len(s) + 1 \in 1..(Len(s) + 1) DEF Range
<1> QED BY <1>3, <1>4, <1>5, <1>6

LEMMA AdditionKeepsGroup ==
  ASSUME TypeOK, MembershipOK, NEW c \in conn, NEW S \in SUBSET (Names \ groups[c]),
         members' = [n \in Names |->
                       IF n \in S THEN Append(members[n], c) ELSE members[n]],
         groups' = [groups EXCEPT ![c] = @ \cup S],
         name2clnt \cup S \subseteq name2clnt',
         conn' = conn,
         NEW n \in Names
  PROVE  GroupOK(n)'
<1>0. GroupOK(n) /\ members[n] \in Seq(Fds) /\ c \in Fds
  BY MembershipParts DEF TypeOK
<1>1. CASE n \in S
  <2>1. members'[n] = Append(members[n], c)
    BY <1>1
  <2>2. c \notin Range(members[n])
    BY <1>0, <1>1 DEF GroupOK
  <2>3. Injective(members'[n]) /\ Range(members'[n]) = Range(members[n]) \cup {c}
    BY <1>0, <2>1, <2>2, AppendOnce DEF GroupOK
  <2>4. \A d \in Fds : n \in groups'[d] <=> n \in groups[d] \/ d = c
    BY <1>0, <1>1 DEF TypeOK
  <2> QED BY <1>0, <1>1, <2>3, <2>4 DEF GroupOK
<1>2. CASE n \notin S
  <2>1. \A d \in Fds : n \in groups'[d] <=> n \in groups[d]
    BY <1>2 DEF TypeOK
  <2> QED BY <1>0, <1>2, <2>1 DEF GroupOK
<1> QED BY <1>1, <1>2

(* Every recipient of the relay loop is connected.                         *)
LEMMA RelayStep ==
  ASSUME TypeOK, MembershipOK, NEW c, NEW p \in Payloads, NEW m \in Msgs,
         NEW R \in SUBSET conn, UNCHANGED <<conn, members_vars>>,
         \/ Relayed(c, m, p, R)
         \/ \E x \in R, D \in SUBSET R : Relay(c, m, p, D, x)
  PROVE  MembershipOK'
<1>1. \E D, X \in SUBSET conn : Enqueue(m, p, D, X)
  <2>1. CASE Relayed(c, m, p, R)
    BY <2>1, {} \in SUBSET conn DEF Relayed
  <2>2. CASE \E x \in R, D \in SUBSET R : Relay(c, m, p, D, x)
    <3>1. PICK x \in R, D \in SUBSET R : Relay(c, m, p, D, x)
      BY <2>2
    <3>2. Enqueue(m, p, D, {}) \/ Enqueue(m, p, D, {x})
      BY <3>1 DEF Relay, QueueFull, WakeUpFails
    <3> QED BY <3>2, D \in SUBSET conn, {} \in SUBSET conn, {x} \in SUBSET conn
  <2> QED BY <2>1, <2>2
<1>2. GoneBlank'
  BY <1>1, MembershipParts, RelayKeepsGone
<1> QED BY <1>2, GroupsUnchanged

LEMMA NextKeepsMembership == TypeOK /\ MembershipOK /\ [Next]_vars => MembershipOK'
<1> SUFFICES ASSUME TypeOK, MembershipOK, [Next]_vars PROVE MembershipOK'
  OBVIOUS
<1>g. GoneBlank /\ \A n \in Names : GroupOK(n)
  BY MembershipParts
<1>s. ASSUME UNCHANGED <<conn, members_vars, heap_vars, waiting>> PROVE MembershipOK'
  BY <1>s, <1>g, GroupsUnchanged DEF GoneBlank, members_vars, heap_vars
<1>u. CASE UNCHANGED vars
  BY <1>u, <1>s DEF vars
<1>n. CASE Next
  <2> PICK c \in Fds :
        \/ Accept(c)
        \/ Disconnect(c)
        \/ \E s \in Serializations : Handshake(c, s)
        \/ Ignored(c)
        \/ Malformed(c)
        \/ \E ns \in NameLists : Join(c, ns)
        \/ \E ns \in NameLists : Leave(c, ns)
        \/ \E n \in Names, p \in Payloads : Send(c, n, p)
        \/ \E p \in Payloads : Broadcast(c, p)
        \/ \E n \in SyncLimits : Sync(c, n)
        \/ Wait(c)
        \/ ListDevices(c)
    BY <1>n DEF Next
  <2>1. CASE Accept(c)
    <3>1. groups[c] = {} /\ queue[c] = <<>>
      BY <1>g, <2>1 DEF Accept, GoneBlank
    <3>2. groups' = groups
      BY <2>1, <3>1 DEF Accept, TypeOK
    <3>3. GoneBlank'
      BY <1>g, <2>1, <3>2 DEF Accept, GoneBlank, TypeOK
    <3>4. ASSUME NEW n \in Names PROVE GroupOK(n)'
      BY <1>g, <2>1, <3>2 DEF Accept, GroupOK, Injective
    <3> QED BY <3>3, <3>4, MembershipPartsNext
  <2>2. CASE Disconnect(c)
    <3>1. groups' = [groups EXCEPT ![c] = @ \ groups[c]]
      BY <2>2 DEF Disconnect, TypeOK
    <3>2. ASSUME NEW n \in Names PROVE GroupOK(n)'
      BY <2>2, <3>1, RemovalKeepsGroup DEF Disconnect
    <3>3. GoneBlank'
      BY <1>g, <2>2 DEF Disconnect, GoneBlank, TypeOK
    <3> QED BY <3>2, <3>3, MembershipPartsNext
  <2>3. ASSUME NEW s \in Serializations, Handshake(c, s) PROVE MembershipOK'
    BY <2>3, <1>s DEF Handshake
  <2>4. CASE Ignored(c)
    BY <2>4, <1>s DEF Ignored
  <2>5. CASE Malformed(c)
    BY <2>5, <1>s DEF Malformed
  <2>6. ASSUME NEW ns \in NameLists, Join(c, ns) PROVE MembershipOK'
    <3>1. PICK k \in 0..Len(ns) :
            LET done  == {ns[i] : i \in 1..k}
            IN
            /\ \A i \in 1..k : Joinable(c, ns, i)
            /\ groups' = [groups EXCEPT ![c] = @ \cup done]
            /\ members' = [n \in Names |->
                             IF n \in done THEN Append(members[n], c) ELSE members[n]]
            /\ name2clnt \cup done \subseteq name2clnt'
      BY <2>6 DEF Join
    <3>2. {ns[i] : i \in 1..k} \subseteq Names \ groups[c]
      BY <3>1 DEF Joinable
    <3>3. c \in conn /\ conn' = conn /\ queue' = queue /\ waiting' = waiting
      BY <2>6 DEF Join, heap_vars
    <3>4. ASSUME NEW n \in Names PROVE GroupOK(n)'
      BY <3>1, <3>2, <3>3, AdditionKeepsGroup
    <3>5. GoneBlank'
      BY <1>g, <3>1, <3>3 DEF GoneBlank, TypeOK
    <3> QED BY <3>4, <3>5, MembershipPartsNext
  <2>7. ASSUME NEW ns \in NameLists, Leave(c, ns) PROVE MembershipOK'
    <3>1. PICK k \in 0..Len(ns) :
            LET done == {ns[i] : i \in 1..k} IN
            /\ \A i \in 1..k : Leavable(c, ns, i)
            /\ groups' = [groups EXCEPT ![c] = @ \ done]
            /\ members' = [n \in Names |->
                             IF n \in done THEN SwapRemove(members[n], c) ELSE members[n]]
      BY <2>7 DEF Leave
    <3>2. {ns[i] : i \in 1..k} \subseteq groups[c]
      BY <3>1 DEF Leavable
    <3>3. conn' = conn /\ name2clnt' = name2clnt /\ queue' = queue /\ waiting' = waiting
      BY <2>7 DEF Leave, heap_vars
    <3>4. ASSUME NEW n \in Names PROVE GroupOK(n)'
      BY <3>1, <3>2, <3>3, RemovalKeepsGroup
    <3>5. GoneBlank'
      BY <1>g, <3>1, <3>3 DEF GoneBlank, TypeOK
    <3> QED BY <3>4, <3>5, MembershipPartsNext
  <2>8. ASSUME NEW n \in Names, NEW p \in Payloads, Send(c, n, p) PROVE MembershipOK'
    <3>0. UNCHANGED <<conn, members_vars>>
      BY <2>8 DEF Send
    <3>1. CASE UNCHANGED <<heap_vars, waiting>>
      BY <3>0, <3>1, <1>s
    <3>2. CASE \E m \in Free : \/ Relayed(c, m, p, Range(members[n]))
                               \/ \E i \in DOMAIN members[n] :
                                    Relay(c, m, p, {members[n][h] : h \in 1..(i - 1)}, members[n][i])
      <4>1. PICK m \in Msgs : \/ Relayed(c, m, p, Range(members[n]))
                              \/ \E i \in DOMAIN members[n] :
                                   Relay(c, m, p, {members[n][h] : h \in 1..(i - 1)}, members[n][i])
        BY <3>2 DEF Free
      <4>2. Range(members[n]) \in SUBSET conn
        BY <1>g DEF GroupOK
      <4>3. members[n] \in Seq(Fds)
        BY DEF TypeOK
      <4>4. ASSUME NEW i \in DOMAIN members[n]
            PROVE  /\ members[n][i] \in Range(members[n])
                   /\ {members[n][h] : h \in 1..(i - 1)} \in SUBSET Range(members[n])
        <5>1. \A h \in 1..(i - 1) : h \in DOMAIN members[n]
          BY <4>3
        <5> QED BY <5>1 DEF Range
      <4>5. \/ Relayed(c, m, p, Range(members[n]))
            \/ \E x \in Range(members[n]), D \in SUBSET Range(members[n]) : Relay(c, m, p, D, x)
        BY <4>1, <4>4
      <4> QED BY <3>0, <4>2, <4>5, RelayStep
    <3> QED BY <2>8, <3>1, <3>2 DEF Send, NoMemory
  <2>9. ASSUME NEW p \in Payloads, Broadcast(c, p) PROVE MembershipOK'
    <3>0. UNCHANGED <<conn, members_vars>>
      BY <2>9 DEF Broadcast
    <3>1. CASE UNCHANGED <<heap_vars, waiting>>
      BY <3>0, <3>1, <1>s
    <3>2. CASE \E m \in Free :
                 \/ Relayed(c, m, p, conn \ {c})
                 \/ \E x \in conn \ {c}, D \in SUBSET (conn \ {c}) : Relay(c, m, p, D, x)
      <4>1. PICK m \in Msgs :
                 \/ Relayed(c, m, p, conn \ {c})
                 \/ \E x \in conn \ {c}, D \in SUBSET (conn \ {c}) : Relay(c, m, p, D, x)
        BY <3>2 DEF Free
      <4> QED BY <3>0, <4>1, conn \ {c} \in SUBSET conn, RelayStep
    <3> QED BY <2>9, <3>1, <3>2 DEF Broadcast, NoMemory
  <2>10. ASSUME NEW n \in SyncLimits, Sync(c, n) PROVE MembershipOK'
    <3>1. UNCHANGED <<conn, members_vars, waiting>> /\ c \in conn
          /\ \A d \in Fds \ {c} : queue'[d] = queue[d]
      BY <2>10 DEF Sync, TypeOK
    <3>2. GoneBlank'
      BY <1>g, <3>1 DEF GoneBlank, members_vars
    <3> QED BY <3>1, <3>2, GroupsUnchanged
  <2>11. CASE Wait(c)
    <3>1. UNCHANGED <<conn, members_vars, queue>> /\ c \in conn /\ waiting' \subseteq waiting \cup {c}
      BY <2>11 DEF Wait, heap_vars
    <3>2. GoneBlank'
      BY <1>g, <3>1 DEF GoneBlank, members_vars
    <3> QED BY <3>1, <3>2, GroupsUnchanged
  <2>12. CASE ListDevices(c)
    BY <2>12, <1>s DEF ListDevices
  <2> QED BY <2>1, <2>2, <2>3, <2>4, <2>5, <2>6, <2>7, <2>8, <2>9, <2>10, <2>11, <2>12
<1> QED BY <1>u, <1>n

(* The arrays of clients and groups stay consistent whatever the clients   *)
(* do and wherever an allocation fails: joins, leaves and disconnects      *)
(* leave no duplicate, no dangling pointer and no half of a membership.    *)
THEOREM MembershipCorrect == Spec => []MembershipOK
<1>1. Init => MembershipOK
  <2> SUFFICES ASSUME Init PROVE MembershipOK
    OBVIOUS
  <2>1. \A n \in Names : members[n] = <<>> /\ Range(members[n]) = {} /\ DOMAIN members[n] = {}
    BY DEF Init, Range
  <2>2. \A c \in Fds : groups[c] = {} /\ queue[c] = <<>> /\ c \notin waiting
    BY DEF Init
  <2> QED BY <2>1, <2>2 DEF MembershipOK, NoDangling
<1>2. Spec => []TypeOK
  BY TypeCorrect
<1> QED BY <1>1, <1>2, NextKeepsMembership, PTL DEF Spec

-----------------------------------------------------------------------------
(* Waiting clients and reference counts, while no allocation fails: the    *)
(* runs under AllocMayFail show that both fail otherwise.                  *)

LEMMA RangeOfSubSeq ==
  ASSUME NEW S, NEW s \in Seq(S), NEW k \in 0..Len(s), Injective(s)
  PROVE  LET t == SubSeq(s, k + 1, Len(s)) IN
         /\ Injective(t)
         /\ Range(t) = Range(s) \ {s[i] : i \in 1..k}
<1> DEFINE t == SubSeq(s, k + 1, Len(s))
           l == Len(s)
<1>1. l \in Nat /\ k \in 0..l /\ DOMAIN s = 1..l
  OBVIOUS
<1>2. DOMAIN t = 1..(l - k) /\ \A i \in 1..(l - k) : t[i] = s[i + k]
  <2>0. Len(s) \in Nat /\ k \in Nat /\ k <= Len(s)
    OBVIOUS
  <2>1. Len(SubSeq(s, k + 1, Len(s))) = Len(s) - k
    BY <2>0
  <2>2. \A i \in 1..(Len(s) - k) : SubSeq(s, k + 1, Len(s))[i] = s[i + k]
    BY <2>0
  <2>3. DOMAIN SubSeq(s, k + 1, Len(s)) = 1..Len(SubSeq(s, k + 1, Len(s)))
    BY <2>0
  <2> QED BY <2>1, <2>2, <2>3
<1> HIDE DEF t, l
<1>3. Injective(t)
  <2>1. ASSUME NEW i \in 1..(l - k), NEW j \in 1..(l - k), t[i] = t[j] PROVE i = j
    <3>1. i + k \in DOMAIN s /\ j + k \in DOMAIN s /\ (i + k = j + k => i = j)
      BY <1>1
    <3>2. s[i + k] = s[j + k]
      BY <1>2, <2>1
    <3> QED BY <3>1, <3>2 DEF Injective
  <2> QED BY <1>2, <2>1 DEF Injective
<1>4. ASSUME NEW y \in Range(t) PROVE y \in Range(s) \ {s[i] : i \in 1..k}
  <2>1. PICK i \in 1..(l - k) : y = s[i + k]
    BY <1>2 DEF Range
  <2>2. i + k \in DOMAIN s /\ \A h \in 1..k : h \in DOMAIN s /\ h # i + k
    BY <1>1
  <2> QED BY <2>1, <2>2 DEF Range, Injective
<1>5. ASSUME NEW y \in Range(s) \ {s[i] : i \in 1..k} PROVE y \in Range(t)
  <2>1. PICK i \in 1..l : y = s[i] /\ i \notin 1..k
    BY <1>1 DEF Range
  <2>2. i - k \in 1..(l - k) /\ t[i - k] = y
    BY <1>1, <1>2, <2>1
  <2> QED BY <1>2, <2>2 DEF Range
<1> QED BY <1>3, <1>4, <1>5 DEF t, l

(* What a step does to queues, counts and contents, by its effect.         *)
Enqueues(m, p, D) ==
  /\ body[m] = NoBody
  /\ queue' = [d \in Fds |-> IF d \in D THEN Append(queue[d], m) ELSE queue[d]]
  /\ waiting' = waiting \ D
  /\ refs' = [refs EXCEPT ![m] = Cardinality(D)]
  /\ body' = [body EXCEPT ![m] = IF D = {} THEN NoBody ELSE p]

LEMMA RelayedEnqueues ==
  ASSUME NEW c, NEW m, NEW p, NEW R, Relayed(c, m, p, R), body[m] = NoBody
  PROVE  Enqueues(m, p, R)
<1>1. R \cup {} = R
  OBVIOUS
<1>2. Enqueue(m, p, R, {})
  BY DEF Relayed
<1> QED BY <1>1, <1>2 DEF Enqueue, Enqueues

(* Client c lets go of the messages of S, and those of V are released.     *)
LetsGo(c, S, V) ==
  /\ V \subseteq S
  /\ S \subseteq Range(queue[c])
  /\ queue' = [queue EXCEPT ![c] = queue'[c]]
  /\ Injective(queue'[c])
  /\ Range(queue'[c]) = Range(queue[c]) \ S
  /\ Release(V)
  /\ waiting' \subseteq waiting

Rests == /\ UNCHANGED <<queue, refs, body>>
         /\ \A c \in waiting' : c \in waiting \/ queue[c] = <<>>

(* Client c is disconnected while its queue is full.                       *)
FullLeaves(c) == c \in conn \ conn' /\ Len(queue[c]) = qcap[c]

LEMMA StepKinds ==
  ASSUME ~AllocMayFail, TypeOK, MembershipOK, RefsCover, [Next]_vars
  PROVE  \/ Rests
         \/ \E m \in Msgs, p \in Payloads, D \in SUBSET Fds : Enqueues(m, p, D)
         \/ \E c \in Fds : \E S, V \in SUBSET Msgs : LetsGo(c, S, V) /\ (V = S \/ FullLeaves(c))
<1>u. CASE UNCHANGED vars
  BY <1>u DEF vars, heap_vars, Rests
<1>n. CASE Next
  <2> PICK c \in Fds :
        \/ Accept(c)
        \/ Disconnect(c)
        \/ \E s \in Serializations : Handshake(c, s)
        \/ Ignored(c)
        \/ Malformed(c)
        \/ \E ns \in NameLists : Join(c, ns)
        \/ \E ns \in NameLists : Leave(c, ns)
        \/ \E n \in Names, p \in Payloads : Send(c, n, p)
        \/ \E p \in Payloads : Broadcast(c, p)
        \/ \E n \in SyncLimits : Sync(c, n)
        \/ Wait(c)
        \/ ListDevices(c)
    BY <1>n DEF Next
  <2>q. queue[c] \in Seq(Msgs) /\ Injective(queue[c]) /\ Range(queue[c]) \in SUBSET Msgs
    <3>1. queue[c] \in Seq(Msgs)
      BY DEF TypeOK
    <3> QED BY <3>1 DEF RefsCover, Injective, Range
  <2>1. CASE Accept(c)
    <3>1. queue[c] = <<>>
      BY <2>1 DEF Accept, MembershipOK, NoDangling
    <3>2. queue' = queue
      BY <2>1, <3>1 DEF Accept, TypeOK
    <3> QED BY <2>1, <3>2 DEF Accept, Rests
  <2>2. CASE Disconnect(c)
    <3>1. queue'[c] = <<>> /\ queue' = [queue EXCEPT ![c] = queue'[c]]
      BY <2>2 DEF Disconnect, TypeOK
    <3>2. Injective(<<>>) /\ Range(<<>>) = {}
      BY DEF Injective, Range
    <3>3. Visited(c) \in SUBSET Range(queue[c])
      BY DEF Visited
    <3>4. LetsGo(c, Range(queue[c]), Visited(c))
      BY <2>2, <3>1, <3>2, <3>3 DEF Disconnect, LetsGo
    <3>5. Visited(c) = Range(queue[c]) \/ FullLeaves(c)
      BY <2>2 DEF Disconnect, Visited, FullLeaves
    <3> QED BY <2>q, <3>3, <3>4, <3>5
  <2>3. ASSUME NEW s \in Serializations, Handshake(c, s) PROVE Rests
    BY <2>3 DEF Handshake, Rests, heap_vars
  <2>4. CASE Ignored(c)
    BY <2>4 DEF Ignored, Rests, heap_vars
  <2>5. CASE Malformed(c)
    BY <2>5 DEF Malformed, Rests, heap_vars
  <2>6. ASSUME NEW ns \in NameLists, Join(c, ns) PROVE Rests
    BY <2>6 DEF Join, Rests, heap_vars
  <2>7. ASSUME NEW ns \in NameLists, Leave(c, ns) PROVE Rests
    BY <2>7 DEF Leave, Rests, heap_vars
  <2>8. ASSUME NEW n \in Names, NEW p \in Payloads, Send(c, n, p)
        PROVE  Rests \/ \E m \in Msgs, D \in SUBSET Fds : Enqueues(m, p, D)
    <3>1. CASE UNCHANGED <<heap_vars, waiting>>
      BY <3>1 DEF Rests, heap_vars
    <3>2. CASE \E m \in Free : Relayed(c, m, p, Range(members[n]))
      <4>1. Range(members[n]) \in SUBSET Fds
        BY DEF MembershipOK
      <4> QED BY <3>2, <4>1, RelayedEnqueues DEF Free
    <3> QED BY <2>8, <3>1, <3>2 DEF Send, NoMemory
  <2>9. ASSUME NEW p \in Payloads, Broadcast(c, p)
        PROVE  Rests \/ \E m \in Msgs, D \in SUBSET Fds : Enqueues(m, p, D)
    <3>1. \E m \in Free : Relayed(c, m, p, conn \ {c})
      BY <2>9 DEF Broadcast, NoMemory
    <3>2. conn \ {c} \in SUBSET Fds
      BY DEF TypeOK
    <3> QED BY <3>1, <3>2, RelayedEnqueues DEF Free
  <2>10. ASSUME NEW n \in SyncLimits, Sync(c, n)
         PROVE  \E S \in SUBSET Msgs : LetsGo(c, S, S)
    <3>1. PICK k \in 0..SyncLength(c, n) :
            /\ queue' = [queue EXCEPT ![c] = SubSeq(@, k + 1, Len(@))]
            /\ Release({queue[c][i] : i \in 1..k})
      BY <2>10 DEF Sync
    <3>2. k \in 0..Len(queue[c])
      <4>1. Len(queue[c]) \in Nat /\ n \in Int
        BY <2>q
      <4>2. SyncLength(c, n) \in 0..Len(queue[c])
        BY <4>1 DEF SyncLength
      <4> QED BY <4>1, <4>2
    <3> DEFINE S == {queue[c][i] : i \in 1..k}
    <3>3. S \in SUBSET Range(queue[c])
      <4>1. \A i \in 1..k : i \in DOMAIN queue[c]
        BY <2>q, <3>2
      <4> QED BY <4>1 DEF Range
    <3>4. queue'[c] = SubSeq(queue[c], k + 1, Len(queue[c]))
          /\ queue' = [queue EXCEPT ![c] = queue'[c]]
      BY <3>1 DEF TypeOK
    <3>5. Injective(queue'[c]) /\ Range(queue'[c]) = Range(queue[c]) \ S
      <4>1. ASSUME NEW s \in Seq(Msgs), NEW j \in 0..Len(s), Injective(s)
            PROVE  /\ Injective(SubSeq(s, j + 1, Len(s)))
                   /\ Range(SubSeq(s, j + 1, Len(s))) = Range(s) \ {s[i] : i \in 1..j}
        BY <4>1, RangeOfSubSeq
      <4> QED BY <2>q, <3>2, <3>4, <4>1
    <3>6. waiting' = waiting
      BY <2>10 DEF Sync
    <3> HIDE DEF S
    <3>7. LetsGo(c, S, S)
      BY <3>1, <3>3, <3>4, <3>5, <3>6 DEF LetsGo, S
    <3> QED BY <2>q, <3>3, <3>7
  <2>11. CASE Wait(c)
    <3>1. queue[c] = <<>> \/ Len(queue[c]) > 0
      BY <2>q
    <3> QED BY <2>11, <3>1 DEF Wait, Rests, heap_vars
  <2>12. CASE ListDevices(c)
    BY <2>12 DEF ListDevices, Rests, heap_vars
  <2> QED BY <2>1, <2>2, <2>3, <2>4, <2>5, <2>6, <2>7, <2>8, <2>9, <2>10, <2>11, <2>12
<1> QED BY <1>u, <1>n

(* The holders of a message after a step of each kind.                     *)
LEMMA EnqueuesHolders ==
  ASSUME TypeOK, RefsCover, NEW m \in Msgs, NEW p \in Payloads, NEW D \in SUBSET Fds,
         Enqueues(m, p, D)
  PROVE  /\ \A c \in Fds : Injective(queue[c])'
         /\ Holders(m)' = D
         /\ \A k \in Msgs \ {m} : Holders(k)' = Holders(k)
<1>1. \A c \in Fds : queue[c] \in Seq(Msgs) /\ Injective(queue[c])
  BY DEF TypeOK, RefsCover, Injective
<1>2. \A c \in Fds : m \notin Range(queue[c])
  BY DEF RefsCover, Enqueues, Holders
<1>3. \A c \in D : /\ queue'[c] = Append(queue[c], m)
                   /\ Injective(queue'[c])
                   /\ Range(queue'[c]) = Range(queue[c]) \cup {m}
  <2> TAKE c \in D
  <2>1. queue'[c] = Append(queue[c], m)
    BY DEF Enqueues
  <2> QED BY <1>1, <1>2, <2>1, AppendOnce
<1>4. \A c \in Fds \ D : queue'[c] = queue[c]
  BY DEF Enqueues
<1>5. \A c \in Fds : Injective(queue[c])'
  BY <1>1, <1>3, <1>4 DEF Injective
<1>6. Holders(m)' = D
  BY <1>2, <1>3, <1>4 DEF Holders
<1>7. ASSUME NEW k \in Msgs \ {m} PROVE Holders(k)' = Holders(k)
  BY <1>3, <1>4 DEF Holders
<1> QED BY <1>5, <1>6, <1>7

LEMMA LetsGoHolders ==
  ASSUME TypeOK, RefsCover, NEW c \in Fds, NEW S, NEW V, LetsGo(c, S, V)
  PROVE  /\ \A d \in Fds : Injective(queue[d])'
         /\ \A m \in Msgs : Holders(m)' = IF m \in S THEN Holders(m) \ {c} ELSE Holders(m)
         /\ \A m \in Msgs : m \in S => c \in Holders(m)
<1>1. \A d \in Fds \ {c} : queue'[d] = queue[d]
  BY DEF LetsGo, TypeOK
<1>2. \A d \in Fds : Injective(queue[d])'
  BY <1>1 DEF LetsGo, RefsCover, Injective
<1>3. ASSUME NEW m \in Msgs
      PROVE  Holders(m)' = IF m \in S THEN Holders(m) \ {c} ELSE Holders(m)
  BY <1>1 DEF LetsGo, Holders
<1>4. \A m \in Msgs : m \in S => c \in Holders(m)
  BY DEF LetsGo, Holders
<1> QED BY <1>2, <1>3, <1>4

LEMMA HoldersFinite ==
  ASSUME NEW m
  PROVE  /\ Holders(m) \in SUBSET Fds
         /\ IsFiniteSet(Holders(m)) /\ Cardinality(Holders(m)) \in Nat
         /\ Cardinality(Holders(m)) = 0 <=> Holders(m) = {}
         /\ \A c \in Holders(m) : Cardinality(Holders(m) \ {c}) = Cardinality(Holders(m)) - 1
<1>1. Holders(m) \in SUBSET Fds
  BY DEF Holders
<1>2. IsFiniteSet(Holders(m)) /\ Cardinality(Holders(m)) \in Nat
  BY <1>1, SubsetBound
<1> QED BY <1>1, <1>2, FS_EmptySet, FS_RemoveElement

LEMMA NextKeepsRefs ==
  ASSUME ~AllocMayFail
  PROVE  TypeOK /\ MembershipOK /\ RefsCover /\ [Next]_vars => RefsCover'
<1> SUFFICES ASSUME TypeOK, MembershipOK, RefsCover, [Next]_vars PROVE RefsCover'
  OBVIOUS
<1>1. CASE Rests
  BY <1>1 DEF Rests, RefsCover, Holders
<1>2. ASSUME NEW m \in Msgs, NEW p \in Payloads, NEW D \in SUBSET Fds, Enqueues(m, p, D)
      PROVE  RefsCover'
  <2>1. /\ \A c \in Fds : Injective(queue[c])'
        /\ Holders(m)' = D
        /\ \A k \in Msgs \ {m} : Holders(k)' = Holders(k)
    BY <1>2, EnqueuesHolders
  <2>2. refs'[m] = Cardinality(D) /\ Cardinality(D) \in Nat /\ (D # {} => body'[m] # NoBody)
    BY <1>2, SubsetBound DEF Enqueues, TypeOK
  <2>3. \A k \in Msgs \ {m} : refs'[k] = refs[k] /\ body'[k] = body[k]
    BY <1>2 DEF Enqueues, TypeOK
  <2>4. ASSUME NEW k \in Msgs
        PROVE  (Holders(k) # {} => body[k] # NoBody)' /\ (Cardinality(Holders(k)) <= refs[k])'
    BY <2>1, <2>2, <2>3 DEF RefsCover
  <2> QED BY <2>1, <2>4 DEF RefsCover, Injective
<1>3. ASSUME NEW c \in Fds, NEW S \in SUBSET Msgs, NEW V \in SUBSET Msgs, LetsGo(c, S, V)
      PROVE  RefsCover'
  <2>1. /\ \A d \in Fds : Injective(queue[d])'
        /\ \A m \in Msgs : Holders(m)' = IF m \in S THEN Holders(m) \ {c} ELSE Holders(m)
        /\ \A m \in Msgs : m \in S => c \in Holders(m)
    BY <1>3, LetsGoHolders
  <2>2. ASSUME NEW m \in Msgs
        PROVE  (Holders(m) # {} => body[m] # NoBody)' /\ (Cardinality(Holders(m)) <= refs[m])'
    <3>1. /\ Cardinality(Holders(m)) \in Nat /\ refs[m] \in Nat
          /\ Cardinality(Holders(m)) <= refs[m]
          /\ Holders(m) # {} => body[m] # NoBody
          /\ Cardinality(Holders(m)) = 0 <=> Holders(m) = {}
      BY HoldersFinite DEF RefsCover, TypeOK
    <3>2. CASE m \notin V
      <4>1. refs'[m] = refs[m] /\ body'[m] = body[m]
        BY <1>3, <3>2 DEF LetsGo, Release
      <4>2. CASE m \in S
        BY <2>1, <3>1, <4>1, <4>2, HoldersFinite
      <4>3. CASE m \notin S
        BY <2>1, <3>1, <4>1, <4>3
      <4> QED BY <4>2, <4>3
    <3>3. CASE m \in V
      <4>1. m \in S /\ c \in Holders(m)
        BY <1>3, <2>1, <3>3 DEF LetsGo
      <4>2. Holders(m)' = Holders(m) \ {c}
            /\ Cardinality(Holders(m) \ {c}) = Cardinality(Holders(m)) - 1
        BY <2>1, <4>1, HoldersFinite
      <4>3. refs[m] # 0
        BY <3>1, <4>1
      <4>4. refs'[m] = refs[m] - 1 /\ (refs[m] - 1 # 0 => body'[m] = body[m])
        BY <1>3, <3>3, <4>3 DEF LetsGo, Release, Decremented
      <4>5. Cardinality(Holders(m) \ {c}) = 0 => Holders(m) \ {c} = {}
        <5>1. IsFiniteSet(Holders(m) \ {c})
          BY HoldersFinite, FS_Subset
        <5> QED BY <5>1, FS_EmptySet
      <4> QED BY <3>1, <4>2, <4>3, <4>4, <4>5
    <3> QED BY <3>2, <3>3
  <2> QED BY <2>1, <2>2 DEF RefsCover, Injective
<1> QED BY <1>1, <1>2, <1>3, StepKinds

LEMMA EmptyRange ==
  ASSUME NEW S, NEW s \in Seq(S), Range(s) = {}
  PROVE  s = <<>>
<1>1. CASE s # <<>>
  <2>1. 1 \in DOMAIN s
    BY <1>1
  <2> QED BY <2>1 DEF Range
<1> QED BY <1>1

LEMMA NextKeepsWakeup ==
  ASSUME ~AllocMayFail
  PROVE  TypeOK /\ MembershipOK /\ RefsCover /\ NoLostWakeup /\ [Next]_vars => NoLostWakeup'
<1> SUFFICES ASSUME TypeOK, MembershipOK, RefsCover, NoLostWakeup, [Next]_vars
             PROVE  NoLostWakeup'
  OBVIOUS
<1>1. CASE Rests
  BY <1>1 DEF Rests, NoLostWakeup
<1>2. ASSUME NEW m \in Msgs, NEW p \in Payloads, NEW D \in SUBSET Fds, Enqueues(m, p, D)
      PROVE  NoLostWakeup'
  BY <1>2 DEF Enqueues, NoLostWakeup, TypeOK
<1>3. ASSUME NEW c \in Fds, NEW S, NEW V, LetsGo(c, S, V)
      PROVE  NoLostWakeup'
  <2>0. queue' \in [Fds -> Seq(Msgs)]
    BY NextKeepsType DEF TypeOK
  <2>1. ASSUME NEW d \in waiting' PROVE queue'[d] = <<>>
    <3>1. d \in waiting /\ d \in Fds /\ queue[d] = <<>>
      BY <1>3 DEF LetsGo, NoLostWakeup, TypeOK
    <3>2. CASE d # c
      BY <1>3, <3>1, <3>2 DEF LetsGo, TypeOK
    <3>3. CASE d = c
      <4>1. Range(queue[c]) = {}
        BY <3>1, <3>3, DOMAIN <<>> = {} DEF Range
      <4>2. Range(queue'[c]) = {}
        BY <1>3, <4>1 DEF LetsGo
      <4>3. queue'[c] \in Seq(Msgs)
        BY <2>0
      <4> QED BY <3>3, <4>2, <4>3, EmptyRange
    <3> QED BY <3>2, <3>3
  <2> QED BY <2>1 DEF NoLostWakeup
<1> QED BY <1>1, <1>2, <1>3, StepKinds

(* While no allocation fails no message is freed as long as a queue points *)
(* to it, for any number of clients, groups and messages, although the     *)
(* iterator of a full deque makes dime_client_destroy skip decrements.     *)
THEOREM NoUseAfterFree ==
  ASSUME ~AllocMayFail
  PROVE  Spec => []RefsCover
<1>1. Init => RefsCover
  <2> SUFFICES ASSUME Init PROVE RefsCover
    OBVIOUS
  <2>1. \A c \in Fds : queue[c] = <<>> /\ DOMAIN queue[c] = {} /\ Range(queue[c]) = {}
    BY DEF Init, Range
  <2>2. \A m \in Msgs : Holders(m) = {} /\ refs[m] = 0
    BY <2>1 DEF Init, Holders
  <2>3. Cardinality({}) = 0
    BY FS_EmptySet
  <2>4. ASSUME NEW m \in Msgs PROVE Cardinality(Holders(m)) <= refs[m]
    <3>1. Cardinality(Holders(m)) = 0 /\ refs[m] = 0
      BY <2>2, <2>3, Zenon
    <3> QED BY <3>1
  <2> QED BY <2>1, <2>2, <2>4 DEF RefsCover
<1>2. TypeOK /\ MembershipOK /\ RefsCover /\ [Next]_vars => RefsCover'
  BY NextKeepsRefs
<1> QED BY <1>1, <1>2, TypeCorrect, MembershipCorrect, PTL DEF Spec

(* While no allocation fails no wake-up is lost.                           *)
THEOREM WakeupCorrect ==
  ASSUME ~AllocMayFail
  PROVE  Spec => []NoLostWakeup
<1>1. Init => NoLostWakeup
  BY DEF Init, NoLostWakeup
<1>2. TypeOK /\ MembershipOK /\ RefsCover /\ NoLostWakeup /\ [Next]_vars => NoLostWakeup'
  BY NextKeepsWakeup
<1>3. Spec => []RefsCover
  BY NoUseAfterFree
<1> QED BY <1>1, <1>2, <1>3, TypeCorrect, MembershipCorrect, PTL DEF Spec

-----------------------------------------------------------------------------
(* The counts are exact, but for one thing: dime_client_destroy visits     *)
(* nothing of a full queue.                                                *)
NoFullLeaves == \A c \in Fds : ~FullLeaves(c)

LEMMA NextKeepsExact ==
  ASSUME ~AllocMayFail
  PROVE  /\ TypeOK /\ MembershipOK /\ RefsCover /\ RefsExact
         /\ [Next]_vars /\ [NoFullLeaves]_vars
         => RefsExact'
<1> SUFFICES ASSUME TypeOK, MembershipOK, RefsCover, RefsExact, [Next]_vars, [NoFullLeaves]_vars
             PROVE  RefsExact'
  OBVIOUS
<1>1. CASE Rests
  BY <1>1 DEF Rests, RefsExact, Holders
<1>2. ASSUME NEW m \in Msgs, NEW p \in Payloads, NEW D \in SUBSET Fds, Enqueues(m, p, D)
      PROVE  RefsExact'
  <2>1. Holders(m)' = D /\ \A k \in Msgs \ {m} : Holders(k)' = Holders(k)
    BY <1>2, EnqueuesHolders
  <2>2. refs'[m] = Cardinality(D) /\ (body'[m] = NoBody <=> D = {})
    BY <1>2 DEF Enqueues, TypeOK
  <2>3. \A k \in Msgs \ {m} : refs'[k] = refs[k] /\ body'[k] = body[k]
    BY <1>2 DEF Enqueues, TypeOK
  <2> QED BY <2>1, <2>2, <2>3 DEF RefsExact
<1>3. ASSUME NEW c \in Fds, NEW S \in SUBSET Msgs, LetsGo(c, S, S)
      PROVE  RefsExact'
  <2>1. /\ \A m \in Msgs : Holders(m)' = IF m \in S THEN Holders(m) \ {c} ELSE Holders(m)
        /\ \A m \in Msgs : m \in S => c \in Holders(m)
    BY <1>3, LetsGoHolders
  <2>2. ASSUME NEW m \in Msgs
        PROVE  refs'[m] = Cardinality(Holders(m)') /\ (body'[m] = NoBody <=> Holders(m)' = {})
    <3>1. CASE m \notin S
      <4>1. refs'[m] = refs[m] /\ body'[m] = body[m]
        BY <1>3, <3>1 DEF LetsGo, Release
      <4> QED BY <2>1, <3>1, <4>1 DEF RefsExact
    <3>2. CASE m \in S
      <4>1. /\ Holders(m)' = Holders(m) \ {c} /\ Holders(m) # {}
            /\ Cardinality(Holders(m) \ {c}) = Cardinality(Holders(m)) - 1
            /\ Cardinality(Holders(m)) \in Nat /\ Cardinality(Holders(m)) # 0
        BY <2>1, <3>2, HoldersFinite
      <4>2. refs[m] = Cardinality(Holders(m)) /\ body[m] # NoBody
        BY <4>1 DEF RefsExact
      <4>3. refs'[m] = refs[m] - 1 /\ (body'[m] = NoBody <=> refs[m] - 1 = 0)
        BY <1>3, <3>2, <4>1, <4>2 DEF LetsGo, Release, Decremented
      <4>4. Cardinality(Holders(m) \ {c}) = 0 <=> Holders(m) \ {c} = {}
        <5>1. IsFiniteSet(Holders(m) \ {c})
          BY HoldersFinite, FS_Subset
        <5> QED BY <5>1, FS_EmptySet
      <4> QED BY <4>1, <4>2, <4>3, <4>4
    <3> QED BY <3>1, <3>2
  <2> QED BY <2>2 DEF RefsExact
<1>4. CASE UNCHANGED vars
  BY <1>4, <1>1 DEF Rests, vars, heap_vars
<1>5. CASE NoFullLeaves
  BY <1>1, <1>2, <1>3, <1>5, StepKinds DEF NoFullLeaves
<1> QED BY <1>4, <1>5

LEMMA InitExact == Init => RefsExact
<1> SUFFICES ASSUME Init, NEW m \in Msgs
             PROVE  refs[m] = Cardinality(Holders(m)) /\ (body[m] = NoBody <=> Holders(m) = {})
  BY DEF RefsExact
<1>1. \A c \in Fds : queue[c] = <<>> /\ Range(queue[c]) = {}
  BY DEF Init, Range
<1>2. Holders(m) = {}
  BY <1>1 DEF Holders
<1>3. Cardinality(Holders(m)) = 0
  BY <1>2, FS_EmptySet, Zenon
<1> QED BY <1>2, <1>3 DEF Init

(* While no allocation fails and no client leaves with a full queue, every *)
(* count is the number of queues that hold the message, and a message that *)
(* none holds is freed: the full queue in dime_client_destroy is the only  *)
(* way to leak one.                                                        *)
THEOREM OnlyFullQueuesLeak ==
  ASSUME ~AllocMayFail
  PROVE  Spec /\ [][NoFullLeaves]_vars => []RefsExact
<1>1. Init => RefsExact
  BY InitExact
<1>2. /\ TypeOK /\ MembershipOK /\ RefsCover /\ RefsExact
      /\ [Next]_vars /\ [NoFullLeaves]_vars
      => RefsExact'
  BY NextKeepsExact
<1>3. Spec => []RefsCover
  BY NoUseAfterFree
<1> QED BY <1>1, <1>2, <1>3, TypeCorrect, MembershipCorrect, PTL DEF Spec

(* No queue shrinks below its first capacity.                              *)
Roomy == \A c \in Fds : qcap[c] >= InitCap

LEMMA NextKeepsRoomy == TypeOK /\ Roomy /\ [Next]_vars => Roomy'
<1> SUFFICES ASSUME TypeOK, Roomy, [Next]_vars PROVE Roomy'
  OBVIOUS
<1>r. ASSUME UNCHANGED qcap PROVE Roomy'
  BY <1>r DEF Roomy
<1>e. ASSUME NEW m, NEW p, NEW D, NEW X, Enqueue(m, p, D, X) PROVE Roomy'
  <2>1. \A d \in Fds : qcap[d] \in Nat /\ Len(queue[d]) \in Nat /\ qcap[d] >= InitCap
    BY DEF TypeOK, Roomy
  <2>2. \A k, l \in Nat : k >= InitCap => Grown(k, l) >= InitCap
    BY DEF Grown
  <2>3. \A d \in Fds : qcap'[d] = Grown(qcap[d], Len(queue[d])) \/ qcap'[d] = qcap[d]
    BY <1>e DEF Enqueue
  <2> QED BY <2>1, <2>2, <2>3 DEF Roomy
<1>f. ASSUME NEW c \in Fds, qcap' = [qcap EXCEPT ![c] = InitCap] PROVE Roomy'
  <2>1. \A d \in Fds : qcap'[d] = InitCap \/ qcap'[d] = qcap[d]
    BY <1>f DEF TypeOK
  <2> QED BY <2>1 DEF Roomy
<1>u. CASE UNCHANGED vars
  BY <1>u, <1>r DEF vars, heap_vars
<1>n. CASE Next
  <2> PICK c \in Fds :
        \/ Accept(c)
        \/ Disconnect(c)
        \/ \E s \in Serializations : Handshake(c, s)
        \/ Ignored(c)
        \/ Malformed(c)
        \/ \E ns \in NameLists : Join(c, ns)
        \/ \E ns \in NameLists : Leave(c, ns)
        \/ \E n \in Names, p \in Payloads : Send(c, n, p)
        \/ \E p \in Payloads : Broadcast(c, p)
        \/ \E n \in SyncLimits : Sync(c, n)
        \/ Wait(c)
        \/ ListDevices(c)
    BY <1>n DEF Next
  <2>1. CASE Accept(c) \/ Disconnect(c)
    BY <2>1, <1>f DEF Accept, Disconnect
  <2>2. ASSUME NEW s \in Serializations, Handshake(c, s) PROVE Roomy'
    BY <2>2, <1>r DEF Handshake, heap_vars
  <2>3. CASE Ignored(c) \/ Malformed(c) \/ Wait(c) \/ ListDevices(c)
    BY <2>3, <1>r DEF Ignored, Malformed, Wait, ListDevices, heap_vars
  <2>4. ASSUME NEW ns \in NameLists, Join(c, ns) \/ Leave(c, ns) PROVE Roomy'
    BY <2>4, <1>r DEF Join, Leave, heap_vars
  <2>5. ASSUME NEW m, NEW p, NEW R, Relayed(c, m, p, R) PROVE Roomy'
    BY <2>5, <1>e DEF Relayed
  <2>6. ASSUME NEW m, NEW p, NEW D, NEW x, Relay(c, m, p, D, x) PROVE Roomy'
    BY <2>6, <1>e DEF Relay, QueueFull, WakeUpFails
  <2>7. ASSUME NEW n \in Names, NEW p \in Payloads, Send(c, n, p) PROVE Roomy'
    <3>1. CASE UNCHANGED <<heap_vars, waiting>>
      BY <3>1, <1>r DEF heap_vars
    <3>2. CASE \E m \in Free : Relayed(c, m, p, Range(members[n]))
      BY <3>2, <2>5
    <3>3. CASE \E m \in Free, i \in DOMAIN members[n] :
                 Relay(c, m, p, {members[n][h] : h \in 1..(i - 1)}, members[n][i])
      BY <3>3, <2>6
    <3> QED BY <2>7, <3>1, <3>2, <3>3 DEF Send, NoMemory
  <2>8. ASSUME NEW p \in Payloads, Broadcast(c, p) PROVE Roomy'
    <3>1. CASE UNCHANGED <<heap_vars, waiting>>
      BY <3>1, <1>r DEF heap_vars
    <3>2. CASE \E m \in Free : Relayed(c, m, p, conn \ {c})
      BY <3>2, <2>5
    <3>3. CASE \E m \in Free, x \in conn \ {c} : \E D \in SUBSET ((conn \ {c}) \ {x}) :
                 Relay(c, m, p, D, x)
      BY <3>3, <2>6
    <3> QED BY <2>8, <3>1, <3>2, <3>3 DEF Broadcast, NoMemory
  <2>9. ASSUME NEW n \in SyncLimits, Sync(c, n) PROVE Roomy'
    BY <2>9, <1>r DEF Sync
  <2> QED BY <2>1, <2>2, <2>3, <2>4, <2>7, <2>8, <2>9
<1> QED BY <1>u, <1>n

(* A queue holds no more messages than there are.                          *)
LEMMA QueueBound ==
  ASSUME IsFiniteSet(Msgs), TypeOK, RefsCover, NEW c \in Fds
  PROVE  Len(queue[c]) <= Cardinality(Msgs)
<1>1. queue[c] \in Seq(Msgs) /\ Len(queue[c]) \in Nat /\ DOMAIN queue[c] = 1..Len(queue[c])
  BY DEF TypeOK
<1>2. queue[c] \in Injection(1..Len(queue[c]), Msgs)
  <2>1. queue[c] \in [1..Len(queue[c]) -> Msgs]
    BY <1>1
  <2> QED BY <1>1, <2>1 DEF RefsCover, Injection, IsInjective
<1>3. Cardinality(1..Len(queue[c])) <= Cardinality(Msgs)
  BY <1>2, FS_Injection
<1>4. Cardinality(1..Len(queue[c])) = Len(queue[c])
  <2>1. ASSUME NEW k \in Nat PROVE Cardinality(1..k) = k
    BY FS_Interval
  <2> QED BY <1>1, <2>1
<1> QED BY <1>3, <1>4

(* While no allocation fails and fewer messages are in memory than a queue *)
(* has slots at first (16 in deque.c), no message leaks at all.            *)
THEOREM FewMessagesNeverLeak ==
  ASSUME ~AllocMayFail, IsFiniteSet(Msgs), Cardinality(Msgs) < InitCap
  PROVE  Spec => []RefsExact
<1>1. Init => Roomy
  BY DEF Init, Roomy
<1>2. TypeOK /\ Roomy /\ RefsCover => NoFullLeaves
  <2> SUFFICES ASSUME TypeOK, Roomy, RefsCover, NEW c \in Fds PROVE Len(queue[c]) # qcap[c]
    BY DEF NoFullLeaves, FullLeaves
  <2>1. Len(queue[c]) <= Cardinality(Msgs) /\ qcap[c] >= InitCap
    BY QueueBound DEF Roomy
  <2>2. Len(queue[c]) \in Nat /\ qcap[c] \in Nat /\ Cardinality(Msgs) \in Nat
    BY FS_CardinalityType DEF TypeOK
  <2> QED BY <2>1, <2>2
<1>3. Init => RefsExact
  BY InitExact
<1>4. /\ TypeOK /\ MembershipOK /\ RefsCover /\ RefsExact
      /\ [Next]_vars /\ [NoFullLeaves]_vars
      => RefsExact'
  BY NextKeepsExact
<1>5. Spec => []RefsCover
  BY NoUseAfterFree
<1> QED BY <1>1, <1>2, <1>3, <1>4, <1>5, NextKeepsRoomy, TypeCorrect, MembershipCorrect, PTL DEF Spec
=============================================================================
