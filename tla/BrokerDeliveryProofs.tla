----------------------- MODULE BrokerDeliveryProofs -------------------------
(***************************************************************************)
(* What the clients of Broker.tla see, for any numbers of clients, groups  *)
(* and messages: wake-ups are truthful, and the broker implements the      *)
(* mailboxes of Mailbox.tla.                                               *)
(***************************************************************************)
EXTENDS BrokerProofs

USE FdsAssumption, NamesAssumption, MsgsAssumption, NameListsAssumption, SerializationsAssumption,
    SyncLimitsAssumption, InitCapAssumption, UIntMaxAssumption, AllocMayFailAssumption

-----------------------------------------------------------------------------
(* Wake-ups.                                                               *)
WokenTruly ==
  \A c \in (waiting \ waiting') \cap conn' :
    /\ queue'[c] # <<>>
    /\ out'[c] # <<>> /\ out'[c][1] = Count(Len(queue'[c]))

(* Everybody whom the relay loop has passed completely has been told the   *)
(* length of its queue, whatever the rest of the loop comes to.            *)
LEMMA PassedAreTold ==
  ASSUME TypeOK, NEW m \in Msgs, NEW p, NEW D, NEW X, NEW a, NEW answer \in Seq(Reply),
         Enqueue(m, p, D, X),
         out' = [d \in Fds |-> WakeUp(d, D) \o (IF d = a THEN answer ELSE <<>>)]
  PROVE  WokenTruly
<1> SUFFICES ASSUME NEW c \in waiting, c \notin waiting'
             PROVE  /\ queue'[c] # <<>>
                    /\ out'[c] # <<>> /\ out'[c][1] = Count(Len(queue'[c]))
  BY DEF WokenTruly
<1>1. c \in Fds /\ c \in D /\ queue[c] \in Seq(Msgs)
  BY DEF TypeOK, Enqueue
<1>2. queue'[c] = Append(queue[c], m)
  BY <1>1 DEF Enqueue
<1>3. queue'[c] # <<>> /\ Len(queue'[c]) = Len(queue[c]) + 1 /\ Len(queue[c]) + 1 \in Nat
  <2>1. \A q \in Seq(Msgs) : Append(q, m) # <<>> /\ Len(Append(q, m)) = Len(q) + 1 /\ Len(q) \in Nat
    OBVIOUS
  <2> QED BY <1>1, <1>2, <2>1, SMTT(30)
<1> DEFINE r == Count(Len(queue[c]) + 1)
           t == IF c = a THEN answer ELSE <<>>
<1>4. out'[c] = <<r>> \o t
  BY <1>1 DEF WakeUp
<1>5. r \in Reply /\ t \in Seq(Reply)
  BY <1>3, ReplyTypes
<1> HIDE DEF r, t
<1>6. out'[c] # <<>> /\ out'[c][1] = r
  <2>1. ASSUME NEW x \in Reply, NEW u \in Seq(Reply)
        PROVE  <<x>> \o u # <<>> /\ (<<x>> \o u)[1] = x
    OBVIOUS
  <2> QED BY <1>4, <1>5, <2>1
<1> QED BY <1>3, <1>6 DEF r

LEMMA NextWakesTruly ==
  ASSUME TypeOK, MembershipOK, Next
  PROVE  WokenTruly
<1> PICK c \in Fds :
      \/ Accept(c)
      \/ Disconnect(c)
      \/ \E s \in Serializations : Handshake(c, s)
      \/ Ignored(c)
      \/ Malformed(c)
      \/ \E ns \in NameLists : Join(c, ns)
      \/ \E ns \in NameLists : Leave(c, ns)
      \/ \E n \in Names, p \in Payloads : Send(c, n, p)
      \/ \E p \in Payloads : Broadcast(c, p)
      \/ \E n \in SyncLimits : Sync(c, n)
      \/ Wait(c)
      \/ ListDevices(c)
  BY DEF Next
<1>r. ASSUME waiting \subseteq waiting' PROVE WokenTruly
  BY <1>r DEF WokenTruly
<1>a. <<Ok>> \in Seq(Reply) /\ <<Err>> \in Seq(Reply) /\ <<>> \in Seq(Reply)
  BY ReplyTypes
<1>1. CASE Accept(c)
  BY <1>1, <1>r DEF Accept, MembershipOK, NoDangling
<1>2. CASE Disconnect(c)
  BY <1>2 DEF Disconnect, WokenTruly
<1>3. ASSUME NEW s \in Serializations, Handshake(c, s) PROVE WokenTruly
  BY <1>3, <1>r DEF Handshake
<1>4. CASE Ignored(c) \/ Malformed(c) \/ Wait(c) \/ ListDevices(c)
  BY <1>4, <1>r DEF Ignored, Malformed, Wait, ListDevices
<1>5. ASSUME NEW ns \in NameLists, Join(c, ns) \/ Leave(c, ns) PROVE WokenTruly
  BY <1>5, <1>r DEF Join, Leave
<1>6. ASSUME NEW m \in Msgs, NEW p, NEW R, Relayed(c, m, p, R) PROVE WokenTruly
  <2>1. PICK answer \in {<<Ok>>, <<Err>>, <<>>} :
          out' = [d \in Fds |-> WakeUp(d, R) \o (IF d = c THEN answer ELSE <<>>)]
    BY <1>6 DEF Relayed
  <2>2. Enqueue(m, p, R, {}) /\ answer \in Seq(Reply)
    BY <1>6, <1>a DEF Relayed
  <2> QED BY <2>1, <2>2, PassedAreTold
<1>7. ASSUME NEW m \in Msgs, NEW p, NEW D, NEW x, Relay(c, m, p, D, x) PROVE WokenTruly
  <2>1. PICK answer \in {<<Err>>, <<>>}, a \in {c, x}, X \in {{}, {x}} :
          /\ Enqueue(m, p, D, X)
          /\ out' = [d \in Fds |-> WakeUp(d, D) \o (IF d = a THEN answer ELSE <<>>)]
    <3>1. CASE QueueFull(c, m, p, D, x)
      BY <3>1, c \in {c, x}, {} \in {{}, {x}} DEF QueueFull
    <3>2. CASE WakeUpFails(c, m, p, D, x)
      BY <3>2, x \in {c, x}, {x} \in {{}, {x}} DEF WakeUpFails
    <3> QED BY <1>7, <3>1, <3>2 DEF Relay
  <2>2. answer \in Seq(Reply)
    BY <1>a
  <2> QED BY <2>1, <2>2, PassedAreTold
<1>8. ASSUME NEW n \in Names, NEW p \in Payloads, Send(c, n, p) PROVE WokenTruly
  <2>1. CASE UNCHANGED <<heap_vars, waiting>>
    BY <2>1, <1>r
  <2>2. CASE \E m \in Free : Relayed(c, m, p, Range(members[n]))
    BY <2>2, <1>6 DEF Free
  <2>3. CASE \E m \in Free, i \in DOMAIN members[n] :
               Relay(c, m, p, {members[n][h] : h \in 1..(i - 1)}, members[n][i])
    BY <2>3, <1>7 DEF Free
  <2> QED BY <1>8, <2>1, <2>2, <2>3 DEF Send, NoMemory
<1>9. ASSUME NEW p \in Payloads, Broadcast(c, p) PROVE WokenTruly
  <2>1. CASE UNCHANGED <<heap_vars, waiting>>
    BY <2>1, <1>r
  <2>2. CASE \E m \in Free : Relayed(c, m, p, conn \ {c})
    BY <2>2, <1>6 DEF Free
  <2>3. CASE \E m \in Free, x \in conn \ {c} : \E D \in SUBSET ((conn \ {c}) \ {x}) :
               Relay(c, m, p, D, x)
    BY <2>3, <1>7 DEF Free
  <2> QED BY <1>9, <2>1, <2>2, <2>3 DEF Broadcast, NoMemory
<1>10. ASSUME NEW n \in SyncLimits, Sync(c, n) PROVE WokenTruly
  BY <1>10, <1>r DEF Sync
<1> QED BY <1>1, <1>2, <1>3, <1>4, <1>5, <1>8, <1>9, <1>10

(* A client that stops waiting while it is connected has been told, in the *)
(* same step, how many messages its queue holds, even where an allocation  *)
(* fails in the middle of the relay loop (dime_client_send and             *)
(* dime_client_broadcast).                                                 *)
THEOREM WakeUpsAreTrue == Spec => WakeUpTruthful
<1>1. TypeOK /\ MembershipOK /\ [Next]_vars => [WokenTruly]_vars
  BY NextWakesTruly
<1>2. [][WokenTruly]_vars => WakeUpTruthful
  BY DEF WokenTruly, WakeUpTruthful
<1> QED BY <1>1, <1>2, TypeCorrect, MembershipCorrect, PTL DEF Spec

-----------------------------------------------------------------------------
(* The refinement of Mailbox.tla.  What a step hands over: nothing, or the *)
(* messages of a sync in their order.                                      *)
NoData == \A d \in Fds : \A i \in DOMAIN out[d] : ~IsData(out[d][i])

LEMMA HandsNothing == NoData => Handed = Promise!Nothing
<1> SUFFICES ASSUME NoData, NEW c \in Fds PROVE HandedOver(c) = <<>>
  BY DEF Handed, Promise!Nothing
<1> DEFINE data == {i \in DOMAIN out[c] : IsData(out[c][i])}
           f == [j \in 1..Cardinality(data) |-> out[c][Nth(data, j)].body]
<1>1. data = {}
  BY DEF NoData
<1>2. Cardinality(data) = 0
  BY <1>1, FS_EmptySet, Zenon
<1>3. HandedOver(c) = f
  BY DEF HandedOver
<1> HIDE DEF data
<1>4. f = <<>>
  BY <1>2
<1> QED BY <1>3, <1>4

LEMMA HandsNothingNext == NoData' => Handed' = Promise!Nothing
<1> SUFFICES ASSUME NoData', NEW c \in Fds PROVE HandedOver(c)' = <<>>
  BY DEF Handed, Promise!Nothing
<1> DEFINE data == {i \in DOMAIN out'[c] : IsData(out'[c][i])}
           f == [j \in 1..Cardinality(data) |-> out'[c][Nth(data, j)].body]
<1>1. data = {}
  BY DEF NoData
<1>2. Cardinality(data) = 0
  BY <1>1, FS_EmptySet, Zenon
<1>3. HandedOver(c)' = f
  BY DEF HandedOver, Nth, IsData
<1> HIDE DEF data
<1>4. f = <<>>
  BY <1>2
<1> QED BY <1>3, <1>4

LEMMA NthOfInterval ==
  ASSUME NEW k \in Nat, NEW j \in 1..k
  PROVE  Nth(1..k, j) = j
<1>1. ASSUME NEW i \in 1..k PROVE Cardinality({h \in 1..k : h <= i}) = i
  <2>1. {h \in 1..k : h <= i} = 1..i
    OBVIOUS
  <2>2. Cardinality(1..i) = i
    BY FS_Interval
  <2> QED BY <2>1, <2>2
<1>2. \A i \in 1..k : Cardinality({h \in 1..k : h <= i}) = j <=> i = j
  BY <1>1
<1> QED BY <1>2, Zenon DEF Nth

(* The answer of a sync hands over the contents that come before its Ok.   *)
LEMMA HandsTaken ==
  ASSUME NEW c \in Fds, NEW k \in Nat, NEW b \in [1..k -> Payloads \cup {NoBody}],
         out' = Only(c, [i \in 1..k |-> Data(b[i])] \o <<Ok>>)
  PROVE  Handed' = [Promise!Nothing EXCEPT ![c] = b]
<1> DEFINE s == [i \in 1..k |-> Data(b[i])] \o <<Ok>>
<1>1. /\ DOMAIN s = 1..(k + 1)
      /\ \A i \in 1..k : s[i] = Data(b[i])
      /\ s[k + 1] = Ok
  <2>1. [i \in 1..k |-> Data(b[i])] \in Seq(Reply) /\ Len([i \in 1..k |-> Data(b[i])]) = k
    BY ReplyTypes
  <2>2. <<Ok>> \in Seq(Reply)
    BY ReplyTypes
  <2> QED BY <2>1, <2>2
<1>2. \A d \in Fds : out'[d] = IF d = c THEN s ELSE <<>>
  BY DEF Only
<1> HIDE DEF s
<1>3. ASSUME NEW d \in Fds, d # c PROVE HandedOver(d)' = <<>>
  <2> DEFINE data == {i \in DOMAIN out'[d] : IsData(out'[d][i])}
             f == [j \in 1..Cardinality(data) |-> out'[d][Nth(data, j)].body]
  <2>1. data = {}
    BY <1>2, <1>3
  <2>2. Cardinality(data) = 0
    BY <2>1, FS_EmptySet, Zenon
  <2>3. HandedOver(d)' = f
    BY DEF HandedOver, Nth, IsData
  <2> HIDE DEF data
  <2>4. f = <<>>
    BY <2>2
  <2> QED BY <2>3, <2>4
<1>4. HandedOver(c)' = b
  <2> DEFINE data == {i \in DOMAIN out'[c] : IsData(out'[c][i])}
             f == [j \in 1..Cardinality(data) |-> out'[c][Nth(data, j)].body]
  <2>1. data = 1..k
    <3>1. \A i \in 1..k : IsData(Data(b[i])) /\ Data(b[i]).body = b[i]
      BY DEF IsData, Data
    <3>2. ~IsData(Ok)
      BY DEF IsData, Ok
    <3>3. \A i : i \in 1..(k + 1) <=> i \in 1..k \/ i = k + 1
      OBVIOUS
    <3> QED BY <1>1, <1>2, <3>1, <3>2, <3>3
  <2>2. Cardinality(data) = k
    <3>1. Cardinality(1..k) = k
      BY FS_Interval
    <3> QED BY <2>1, <3>1, Zenon
  <2>3. HandedOver(c)' = f
    BY DEF HandedOver, Nth, IsData
  <2>4. \A j \in 1..k : out'[c][Nth(data, j)].body = b[j]
    <3>1. \A j \in 1..k : Nth(data, j) = j
      BY <2>1, NthOfInterval
    <3>2. \A j \in 1..k : Data(b[j]).body = b[j]
      BY DEF Data
    <3> QED BY <1>1, <1>2, <3>1, <3>2
  <2> HIDE DEF data
  <2> QED BY <2>2, <2>3, <2>4
<1>5. Handed' = [d \in Fds |-> HandedOver(d)']
  BY DEF Handed
<1> QED BY <1>3, <1>4, <1>5 DEF Promise!Nothing

(* What is left of a sequence when its first k elements are taken.         *)
LEMMA RestOfSeq ==
  ASSUME NEW X, NEW s \in Seq(X), NEW k \in 0..Len(s)
  PROVE  SubSeq(s, k + 1, Len(s)) = [i \in 1..(Len(s) - k) |-> s[k + i]]
<1>1. Len(s) \in Nat /\ k \in Nat /\ k <= Len(s)
  OBVIOUS
<1>2. Len(SubSeq(s, k + 1, Len(s))) = Len(s) - k
  BY <1>1
<1>3. \A i \in 1..(Len(s) - k) : SubSeq(s, k + 1, Len(s))[i] = s[k + i]
  BY <1>1
<1>4. SubSeq(s, k + 1, Len(s)) = [i \in 1..Len(SubSeq(s, k + 1, Len(s))) |-> SubSeq(s, k + 1, Len(s))[i]]
  BY <1>1
<1> QED BY <1>2, <1>3, <1>4

(* Reading the contents of a queue after a push.                           *)
LEMMA AppendMapped ==
  ASSUME NEW M, NEW P, NEW q \in Seq(M), NEW m \in M, NEW p \in P, NEW f, NEW g,
         \A i \in DOMAIN q : f[q[i]] \in P /\ g[q[i]] = f[q[i]],
         g[m] = p
  PROVE  [i \in DOMAIN Append(q, m) |-> g[Append(q, m)[i]]] = Append([i \in DOMAIN q |-> f[q[i]]], p)
<1> DEFINE n == Len(q)
           b == [i \in 1..n |-> f[q[i]]]
           t == Append(q, m)
<1>1. /\ n \in Nat /\ DOMAIN q = 1..n /\ DOMAIN t = 1..(n + 1)
      /\ t[n + 1] = m /\ \A i \in 1..n : t[i] = q[i]
  OBVIOUS
<1> HIDE DEF t, n
<1>2. b \in [1..n -> P]
  BY <1>1
<1>3. \A i \in 1..n : b[i] = g[q[i]]
  BY <1>1
<1>4. b = [i \in DOMAIN q |-> f[q[i]]]
  BY <1>1
<1> HIDE DEF b
<1>5. b \in Seq(P) /\ Len(b) = n
  BY <1>1, <1>2
<1>6. Append(b, p) \in [1..(n + 1) -> P]
  <2>1. Append(b, p) \in Seq(P) /\ Len(Append(b, p)) = n + 1
    BY <1>1, <1>5
  <2>2. \A x \in Seq(P) : x \in [1..Len(x) -> P]
    OBVIOUS
  <2> QED BY <2>1, <2>2
<1>7. \A i \in 1..n : Append(b, p)[i] = b[i]
  BY <1>1, <1>5
<1>8. Append(b, p)[n + 1] = p
  BY <1>1, <1>5
<1>9. \A i \in 1..(n + 1) : g[t[i]] = Append(b, p)[i]
  <2> TAKE i \in 1..(n + 1)
  <2>1. i \in 1..n \/ i = n + 1
    BY <1>1
  <2> QED BY <1>1, <1>3, <1>7, <1>8, <2>1
<1>10. [i \in DOMAIN t |-> g[t[i]]] = Append(b, p)
  BY <1>1, <1>6, <1>9
<1> QED BY <1>4, <1>10 DEF t

(* What a step that relays a message does to the mailboxes.                *)
LEMMA EnqueuesLetters ==
  ASSUME TypeOK, RefsCover, NEW m \in Msgs, NEW p \in Payloads, NEW D \in SUBSET Fds,
         Enqueues(m, p, D)
  PROVE  Letters' = [d \in Fds |-> IF d \in D THEN Append(Letters[d], p) ELSE Letters[d]]
<1>1. ASSUME NEW d \in Fds
      PROVE  /\ queue[d] \in Seq(Msgs)
             /\ \A i \in DOMAIN queue[d] : /\ body[queue[d][i]] \in Payloads \cup {NoBody}
                                          /\ body'[queue[d][i]] = body[queue[d][i]]
  <2>1. queue[d] \in Seq(Msgs)
    BY DEF TypeOK
  <2>2. m \notin Range(queue[d])
    BY DEF Enqueues, RefsCover, Holders
  <2>3. \A i \in DOMAIN queue[d] : queue[d][i] \in Msgs \ {m}
    BY <2>1, <2>2 DEF Range
  <2>4. \A k \in Msgs \ {m} : body'[k] = body[k] /\ body[k] \in Payloads \cup {NoBody}
    BY DEF Enqueues, TypeOK
  <2> QED BY <2>1, <2>3, <2>4
<1>2. ASSUME NEW d \in Fds
      PROVE  Letters'[d] = IF d \in D THEN Append(Letters[d], p) ELSE Letters[d]
  <2>0. /\ Letters'[d] = [i \in DOMAIN queue'[d] |-> body'[queue'[d][i]]]
        /\ Letters[d] = [i \in DOMAIN queue[d] |-> body[queue[d][i]]]
    BY DEF Letters
  <2>1. CASE d \notin D
    <3>1. queue'[d] = queue[d]
      BY <2>1 DEF Enqueues
    <3>2. Letters'[d] = [i \in DOMAIN queue[d] |-> body'[queue[d][i]]]
      BY <2>0, <3>1
    <3>3. Letters'[d] = Letters[d]
      BY <1>1, <2>0, <3>2
    <3> QED BY <2>1, <3>3
  <2>2. CASE d \in D
    <3>1. queue'[d] = Append(queue[d], m) /\ body'[m] = p
      BY <2>2 DEF Enqueues, TypeOK
    <3>2. Letters'[d] = [i \in DOMAIN Append(queue[d], m) |-> body'[Append(queue[d], m)[i]]]
      BY <2>0, <3>1
    <3>3. Letters'[d] = Append(Letters[d], p)
      <4>1. /\ queue[d] \in Seq(Msgs) /\ p \in Payloads \cup {NoBody} /\ body'[m] = p
            /\ \A i \in DOMAIN queue[d] : /\ body[queue[d][i]] \in Payloads \cup {NoBody}
                                           /\ body'[queue[d][i]] = body[queue[d][i]]
        BY <1>1, <3>1
      <4>2. [i \in DOMAIN Append(queue[d], m) |-> body'[Append(queue[d], m)[i]]]
              = Append([i \in DOMAIN queue[d] |-> body[queue[d][i]]], p)
        BY <4>1, AppendMapped
      <4> QED BY <2>0, <3>2, <4>2
    <3> QED BY <2>2, <3>3
  <2> QED BY <2>1, <2>2
<1>3. Letters' = [d \in Fds |-> Letters'[d]]
  BY DEF Letters
<1> QED BY <1>2, <1>3

(* Whatever c lets go of, the others' letters are still there.             *)
LEMMA OthersLetters ==
  ASSUME TypeOK, RefsCover, NEW c \in Fds, NEW S, NEW V, LetsGo(c, S, V),
         NEW d \in Fds, d # c
  PROVE  Letters'[d] = Letters[d]
<1>1. queue[d] \in Seq(Msgs) /\ queue'[d] = queue[d]
  BY DEF TypeOK, LetsGo
<1>2. ASSUME NEW i \in DOMAIN queue[d] PROVE body'[queue[d][i]] = body[queue[d][i]]
  <2> DEFINE m == queue[d][i]
  <2>1. m \in Msgs /\ d \in Holders(m)
    BY <1>1 DEF Holders, Range
  <2> HIDE DEF m
  <2>2. CASE m \notin V
    BY <2>1, <2>2 DEF LetsGo, Release, m
  <2>3. CASE m \in V
    <3>1. c \in Holders(m)
      BY <2>3 DEF LetsGo, Holders
    <3>2. Holders(m) \ {c} # {} /\ IsFiniteSet(Holders(m) \ {c})
      BY <2>1, HoldersFinite, FS_Subset
    <3>3. Cardinality(Holders(m) \ {c}) # 0 /\ Cardinality(Holders(m) \ {c}) \in Nat
      BY <3>2, FS_EmptySet, FS_CardinalityType
    <3>4. Cardinality(Holders(m)) \in Nat /\ Cardinality(Holders(m)) >= 2
      BY <3>1, <3>3, HoldersFinite
    <3>5. refs[m] \in Nat /\ refs[m] >= 2
      BY <2>1, <3>4 DEF RefsCover, TypeOK
    <3>6. Decremented(refs[m]) # 0
      BY <3>5 DEF Decremented
    <3> QED BY <2>1, <3>6 DEF LetsGo, Release, m
  <2> QED BY <2>2, <2>3
<1> QED BY <1>1, <1>2 DEF Letters

-----------------------------------------------------------------------------
(* How each handler appears in Mailbox.tla.                                *)
LEMMA OutWithoutData ==
  /\ ~IsData(Ok) /\ ~IsData(Err) /\ ~IsData(Reregister)
  /\ \A n : ~IsData(Count(n))
  /\ \A s : ~IsData(Registered(s))
  /\ \A S : ~IsData(Devices(S))
BY DEF IsData, Ok, Err, Reregister, Count, Registered, Devices

LEMMA PushesNoData ==
  ASSUME NEW c \in Fds
  PROVE  /\ out' = Silence => NoData'
         /\ PushError(c) => NoData'
         /\ \A r : Push(c, r) /\ ~IsData(r) => NoData'
<1>1. out' = Silence => NoData'
  BY DEF NoData, Silence
<1>2. ASSUME NEW r, ~IsData(r), out' = Only(c, <<r>>) PROVE NoData'
  <2>1. \A d \in Fds : out'[d] = <<r>> \/ out'[d] = <<>>
    BY <1>2 DEF Only
  <2> QED BY <1>2, <2>1 DEF NoData, IsData
<1>3. PushError(c) => NoData'
  BY <1>1, <1>2, OutWithoutData DEF PushError
<1> QED BY <1>1, <1>2, <1>3 DEF Push

LEMMA RelaysNoData ==
  ASSUME NEW c \in Fds, NEW m, NEW p, NEW R, ~AllocMayFail, Relayed(c, m, p, R)
  PROVE  NoData'
<1>1. out' = [d \in Fds |-> WakeUp(d, R) \o (IF d = c THEN <<Ok>> ELSE <<>>)]
  BY DEF Relayed
<1>2. ASSUME NEW d \in Fds
      PROVE  out'[d] \in Seq({Ok, Count(Len(queue[d]) + 1)})
  <2> DEFINE r == Count(Len(queue[d]) + 1)
             T == {Ok, r}
  <2>1. <<Ok>> \in Seq(T) /\ <<r>> \in Seq(T) /\ <<>> \in Seq(T)
    OBVIOUS
  <2>2. out'[d] = WakeUp(d, R) \o (IF d = c THEN <<Ok>> ELSE <<>>)
    BY <1>1
  <2>3. WakeUp(d, R) \in Seq(T) /\ (IF d = c THEN <<Ok>> ELSE <<>>) \in Seq(T)
    BY <2>1 DEF WakeUp
  <2> HIDE DEF T
  <2>4. \A x, y \in Seq(T) : x \o y \in Seq(T)
    OBVIOUS
  <2>5. out'[d] \in Seq(T)
    BY <2>2, <2>3, <2>4
  <2> QED BY <2>5 DEF T
<1>3. ASSUME NEW d \in Fds, NEW i \in DOMAIN out'[d]
      PROVE  out'[d][i] = Ok \/ \E n : out'[d][i] = Count(n)
  <2>1. \A T : \A x \in Seq(T) : \A j \in DOMAIN x : x[j] \in T
    OBVIOUS
  <2>2. out'[d][i] \in {Ok, Count(Len(queue[d]) + 1)}
    BY <1>2, <1>3, <2>1
  <2> QED BY <2>2
<1> QED BY <1>3, OutWithoutData DEF NoData, IsData

(* A step of the mailboxes that leaves all of them alone.                  *)
LEMMA IdleStep ==
  ASSUME NoData', UNCHANGED <<conn, groups, queue, body, waiting>>
  PROVE  Promise!Next
<1>1. UNCHANGED <<Memberships, Letters>>
  BY DEF Memberships, Letters
<1>2. Promise!Idle
  BY <1>1, HandsNothingNext DEF Promise!Idle
<1> QED BY <1>2 DEF Promise!Next

LEMMA PublishStep ==
  ASSUME ~AllocMayFail, TypeOK, RefsCover, NEW c \in conn, NEW m \in Free, NEW p \in Payloads,
         NEW R \in SUBSET Fds, Relayed(c, m, p, R), UNCHANGED <<conn, members_vars>>,
         R = conn \ {c} \/ \E n \in Names : R = {d \in Fds : n \in groups[d]}
  PROVE  Promise!Next
<1>1. c \in Fds /\ m \in Msgs /\ body[m] = NoBody
  BY DEF TypeOK, Free
<1>2. Enqueues(m, p, R)
  BY <1>1, RelayedEnqueues
<1>3. Letters' = [d \in Fds |-> IF d \in R THEN Append(Letters[d], p) ELSE Letters[d]]
  BY <1>1, <1>2, EnqueuesLetters
<1>4. waiting' = waiting \ R
  BY <1>2 DEF Enqueues
<1>5. Handed' = Promise!Nothing
  BY <1>1, RelaysNoData, HandsNothingNext
<1>6. UNCHANGED Memberships
  BY DEF Memberships, members_vars
<1>7. R \in {Promise!InGroup(n) : n \in Names} \cup {conn \ {c}}
  <2>1. \A n \in Names : Promise!InGroup(n) = {d \in Fds : n \in groups[d]}
    BY DEF Promise!InGroup, Memberships
  <2> QED BY <2>1
<1>8. Promise!Publish(c)
  BY <1>3, <1>4, <1>5, <1>6, <1>7 DEF Promise!Publish
<1> QED BY <1>1, <1>8 DEF Promise!Next

LEMMA RegroupStep ==
  ASSUME TypeOK, NEW c \in conn, groups' = [groups EXCEPT ![c] = groups'[c]],
         groups'[c] \in SUBSET Names, NoData', UNCHANGED <<conn, queue, body, waiting>>
  PROVE  Promise!Next
<1>1. c \in Fds
  BY DEF TypeOK
<1>2. Memberships' = {cn \in Memberships : cn[1] # c} \cup ({c} \X groups'[c])
  <2>1. \A d \in Fds \ {c} : groups'[d] = groups[d]
    BY DEF TypeOK
  <2> QED BY <1>1, <2>1 DEF Memberships
<1>3. UNCHANGED Letters
  BY DEF Letters
<1>4. Promise!Regroup(c)
  BY <1>2, <1>3, HandsNothingNext DEF Promise!Regroup
<1> QED BY <1>1, <1>4 DEF Promise!Next

LEMMA NextRefines ==
  ASSUME ~AllocMayFail, TypeOK, MembershipOK, RefsCover, Next
  PROVE  Promise!Next
<1> PICK c \in Fds :
      \/ Accept(c)
      \/ Disconnect(c)
      \/ \E s \in Serializations : Handshake(c, s)
      \/ Ignored(c)
      \/ Malformed(c)
      \/ \E ns \in NameLists : Join(c, ns)
      \/ \E ns \in NameLists : Leave(c, ns)
      \/ \E n \in Names, p \in Payloads : Send(c, n, p)
      \/ \E p \in Payloads : Broadcast(c, p)
      \/ \E n \in SyncLimits : Sync(c, n)
      \/ Wait(c)
      \/ ListDevices(c)
  BY DEF Next
<1>q. queue[c] \in Seq(Msgs) /\ Injective(queue[c])
  BY DEF TypeOK, RefsCover, Injective
<1>1. CASE Accept(c)
  <2>1. c \notin conn /\ groups[c] = {} /\ queue[c] = <<>> /\ c \notin waiting
    BY <1>1 DEF Accept, MembershipOK, NoDangling
  <2>2. conn' = conn \cup {c} /\ UNCHANGED <<groups, queue, body, waiting>> /\ out' = Silence
    BY <1>1, <2>1 DEF Accept, TypeOK
  <2>3. UNCHANGED <<Memberships, Letters>>
    BY <2>2 DEF Memberships, Letters
  <2>4. Handed' = Promise!Nothing
    BY <2>2, PushesNoData, HandsNothingNext
  <2>5. Promise!Connect(c)
    BY <2>1, <2>2, <2>3, <2>4 DEF Promise!Connect
  <2> QED BY <2>5 DEF Promise!Next
<1>2. CASE Disconnect(c)
  <2>1. /\ c \in conn /\ conn' = conn \ {c} /\ waiting' = waiting \ {c} /\ out' = Silence
        /\ groups' = [groups EXCEPT ![c] = {}] /\ queue' = [queue EXCEPT ![c] = <<>>]
        /\ Release(Visited(c))
    BY <1>2 DEF Disconnect
  <2>2. Memberships' = {cn \in Memberships : cn[1] # c}
    BY <2>1 DEF Memberships, TypeOK
  <2>3. LetsGo(c, Range(queue[c]), Visited(c))
    <3>1. Injective(<<>>) /\ Range(<<>>) = {} /\ Visited(c) \subseteq Range(queue[c])
      BY DEF Injective, Range, Visited
    <3>2. queue'[c] = <<>> /\ queue' = [queue EXCEPT ![c] = queue'[c]]
      BY <2>1 DEF TypeOK
    <3> QED BY <2>1, <3>1, <3>2 DEF LetsGo
  <2>4. Letters' = [Letters EXCEPT ![c] = <<>>]
    <3>1. \A d \in Fds \ {c} : Letters'[d] = Letters[d]
      BY <2>3, OthersLetters
    <3>2. Letters'[c] = <<>>
      <4>1. queue'[c] = <<>>
        BY <2>1 DEF TypeOK
      <4>2. Letters'[c] = [i \in DOMAIN queue'[c] |-> body'[queue'[c][i]]]
        BY DEF Letters
      <4>3. Letters'[c] = [i \in {} |-> body'[queue'[c][i]]]
        BY <4>1, <4>2
      <4> QED BY <4>3
    <3>3. Letters' = [d \in Fds |-> Letters'[d]] /\ DOMAIN Letters = Fds
      BY DEF Letters
    <3> QED BY <3>1, <3>2, <3>3
  <2>5. Handed' = Promise!Nothing
    BY <2>1, PushesNoData, HandsNothingNext
  <2>6. Promise!Close(c)
    BY <2>1, <2>2, <2>4, <2>5 DEF Promise!Close
  <2> QED BY <2>6 DEF Promise!Next
<1>3. ASSUME NEW s \in Serializations, Handshake(c, s) PROVE Promise!Next
  <2>1. out' = [d \in Fds |-> IF d = c THEN <<Registered(Chosen(s))>>
                              ELSE IF d \in Told(c, s) THEN <<Reregister>> ELSE <<>>]
    BY <1>3 DEF Handshake
  <2>2. NoData'
    <3>1. \A d \in Fds : out'[d] \in {<<Registered(Chosen(s))>>, <<Reregister>>, <<>>}
      BY <2>1
    <3>2. \A d \in Fds : \A i \in DOMAIN out'[d] : out'[d][i] \in {Registered(Chosen(s)), Reregister}
      BY <3>1
    <3> QED BY <3>2, OutWithoutData DEF NoData, IsData
  <2> QED BY <1>3, <2>2, IdleStep DEF Handshake, members_vars, heap_vars
<1>4. CASE Ignored(c)
  BY <1>4, PushesNoData, IdleStep DEF Ignored, members_vars, heap_vars
<1>5. CASE Malformed(c)
  BY <1>5, PushesNoData, IdleStep DEF Malformed, members_vars, heap_vars
<1>6. ASSUME NEW ns \in NameLists, Join(c, ns) PROVE Promise!Next
  <2>1. PICK k \in 0..Len(ns) :
          LET done == {ns[i] : i \in 1..k} IN
          /\ \A i \in 1..k : Joinable(c, ns, i)
          /\ groups' = [groups EXCEPT ![c] = @ \cup done]
          /\ IF k = Len(ns) THEN Push(c, Ok) ELSE PushError(c)
    BY <1>6 DEF Join
  <2>2. {ns[i] : i \in 1..k} \subseteq Names
    BY <2>1 DEF Joinable
  <2>3. groups'[c] \in SUBSET Names /\ groups' = [groups EXCEPT ![c] = groups'[c]]
    BY <2>1, <2>2 DEF TypeOK
  <2>4. NoData'
    BY <2>1, PushesNoData, OutWithoutData
  <2> QED BY <1>6, <2>3, <2>4, RegroupStep DEF Join, heap_vars
<1>7. ASSUME NEW ns \in NameLists, Leave(c, ns) PROVE Promise!Next
  <2>1. PICK k \in 0..Len(ns) :
          /\ groups' = [groups EXCEPT ![c] = @ \ {ns[i] : i \in 1..k}]
          /\ IF k = Len(ns) THEN Push(c, Ok) ELSE PushError(c)
    BY <1>7 DEF Leave
  <2>2. groups'[c] \in SUBSET Names /\ groups' = [groups EXCEPT ![c] = groups'[c]]
    BY <2>1 DEF TypeOK
  <2>3. NoData'
    BY <2>1, PushesNoData, OutWithoutData
  <2> QED BY <1>7, <2>2, <2>3, RegroupStep DEF Leave, heap_vars
<1>8. ASSUME NEW n \in Names, NEW p \in Payloads, Send(c, n, p) PROVE Promise!Next
  <2>1. CASE PushError(c) /\ UNCHANGED <<heap_vars, waiting>>
    BY <1>8, <2>1, PushesNoData, IdleStep DEF Send, members_vars, heap_vars
  <2>2. CASE \E m \in Free : Relayed(c, m, p, Range(members[n]))
    <3>1. Range(members[n]) = {d \in Fds : n \in groups[d]}
      BY DEF MembershipOK
    <3> QED BY <1>8, <2>2, <3>1, PublishStep DEF Send
  <2> QED BY <1>8, <2>1, <2>2 DEF Send, NoMemory
<1>9. ASSUME NEW p \in Payloads, Broadcast(c, p) PROVE Promise!Next
  <2>1. PICK m \in Free : Relayed(c, m, p, conn \ {c})
    BY <1>9 DEF Broadcast, NoMemory
  <2>2. conn \ {c} \in SUBSET Fds
    BY DEF TypeOK
  <2> QED BY <1>9, <2>1, <2>2, PublishStep DEF Broadcast
<1>10. ASSUME NEW n \in SyncLimits, Sync(c, n) PROVE Promise!Next
  <2>0. Len(queue[c]) \in Nat /\ SyncLength(c, n) \in 0..Len(queue[c])
    <3>1. Len(queue[c]) \in Nat /\ n \in Int
      BY <1>q
    <3> QED BY <3>1 DEF SyncLength
  <2>1. PICK k \in 0..SyncLength(c, n) :
          /\ queue' = [queue EXCEPT ![c] = SubSeq(@, k + 1, Len(@))]
          /\ Release({queue[c][i] : i \in 1..k})
          /\ out' = Only(c, [i \in 1..k |-> Data(body[queue[c][i]])] \o <<Ok>>)
    <3>1. ~(SyncLength(c, n) < SyncLength(c, n)) /\ SyncLength(c, n) \in 0..SyncLength(c, n)
      BY <2>0
    <3> QED BY <1>10, <3>1, Zenon DEF Sync
  <2>2. k \in 0..Len(queue[c]) /\ Len(queue[c]) \in Nat /\ k \in Nat
    BY <2>0, <2>1
  <2> DEFINE q == queue[c]
             l == Len(q)
             t == SubSeq(q, k + 1, l)
             S == {q[i] : i \in 1..k}
             b == [i \in 1..k |-> body[q[i]]]
  <2>3. l \in Nat /\ DOMAIN q = 1..l /\ \A i \in 1..l : q[i] \in Msgs
    BY <1>q
  <2>4. S \subseteq Range(q)
    BY <2>2, <2>3 DEF Range
  <2>5. Injective(t) /\ Range(t) = Range(q) \ S
    BY <1>q, <2>2, RangeOfSubSeq
  <2>6. queue'[c] = t /\ queue' = [queue EXCEPT ![c] = queue'[c]]
    BY <2>1 DEF TypeOK
  <2>7. c \in conn /\ UNCHANGED <<conn, groups, waiting>>
    BY <1>10 DEF Sync, members_vars
  <2>8. LetsGo(c, S, S)
    BY <2>1, <2>4, <2>5, <2>6, <2>7 DEF LetsGo
  <2>9. b \in [1..k -> Payloads \cup {NoBody}]
    BY <2>2, <2>3 DEF TypeOK
  <2>10. Handed' = [Promise!Nothing EXCEPT ![c] = b]
    <3>1. [i \in 1..k |-> Data(body[queue[c][i]])] = [i \in 1..k |-> Data(b[i])]
      OBVIOUS
    <3> HIDE DEF b
    <3> QED BY <2>1, <2>2, <2>9, <3>1, HandsTaken
  <2>11. Letters[c] \in Seq(Payloads \cup {NoBody}) /\ Len(Letters[c]) = l
         /\ \A i \in 1..l : Letters[c][i] = body[q[i]]
    <3>1. Letters[c] = [i \in 1..l |-> body[q[i]]]
      BY <2>3 DEF Letters
    <3> HIDE DEF l
    <3> QED BY <2>3, <3>1 DEF TypeOK
  <2>12. b = SubSeq(Letters[c], 1, k)
    BY <2>2, <2>11
  <2>13. Letters'[c] = SubSeq(Letters[c], k + 1, l)
    <3>1. DOMAIN t = 1..(l - k) /\ \A i \in 1..(l - k) : t[i] = q[k + i] /\ k + i \in 1..l
      BY <1>q, <2>2
    <3>2. \A i \in 1..(l - k) : body'[t[i]] = body[t[i]]
      <4> SUFFICES ASSUME NEW i \in 1..(l - k) PROVE t[i] \in Msgs /\ t[i] \notin S
        BY <2>1 DEF Release
      <4>1. t[i] \in Range(t) /\ t[i] \in Msgs
        BY <2>3, <3>1 DEF Range
      <4> QED BY <2>5, <4>1
    <3>3. Letters'[c] = [i \in 1..(l - k) |-> body'[t[i]]]
      BY <2>6, <3>1 DEF Letters
    <3>4. SubSeq(Letters[c], k + 1, l) = [i \in 1..(l - k) |-> Letters[c][k + i]]
      <4>1. k \in 0..l
        BY <2>2
      <4> HIDE DEF q, l, t, S, b
      <4>2. ASSUME NEW s \in Seq(Payloads \cup {NoBody}), Len(s) = l
            PROVE  SubSeq(s, k + 1, l) = [i \in 1..(l - k) |-> s[k + i]]
        BY <4>1, <4>2, RestOfSeq
      <4> QED BY <4>2, <2>11
    <3>5. \A i \in 1..(l - k) : body'[t[i]] = Letters[c][k + i]
      BY <2>11, <3>1, <3>2
    <3> HIDE DEF t, l
    <3> QED BY <3>3, <3>4, <3>5
  <2>14. Letters' = [Letters EXCEPT ![c] = SubSeq(Letters[c], k + 1, Len(Letters[c]))]
    <3>1. \A d \in Fds \ {c} : Letters'[d] = Letters[d]
      BY <2>8, OthersLetters
    <3>2. Letters' = [d \in Fds |-> Letters'[d]] /\ DOMAIN Letters = Fds
      BY DEF Letters
    <3> QED BY <2>11, <2>13, <3>1, <3>2
  <2>15. UNCHANGED Memberships
    BY <2>7 DEF Memberships
  <2>16. k \in 0..Len(Letters[c])
    BY <2>2, <2>11
  <2>17. Promise!Take(c)
    BY <2>7, <2>10, <2>12, <2>14, <2>15, <2>16 DEF Promise!Take
  <2> QED BY <2>17 DEF Promise!Next
<1>11. CASE Wait(c)
  <2>1. CASE Len(queue[c]) > 0
    BY <1>11, <2>1, PushesNoData, OutWithoutData, IdleStep DEF Wait, members_vars, heap_vars
  <2>2. CASE ~(Len(queue[c]) > 0)
    <3>1. queue[c] = <<>>
      BY <1>q, <2>2
    <3>2. /\ c \in conn /\ waiting' = waiting \cup {c} /\ out' = Silence
          /\ UNCHANGED <<conn, groups, queue, body>>
      BY <1>11, <2>2 DEF Wait, members_vars, heap_vars
    <3>3. UNCHANGED <<Memberships, Letters>>
      BY <3>2 DEF Memberships, Letters
    <3>4. Letters[c] = <<>>
      <4>1. Letters[c] = [i \in DOMAIN queue[c] |-> body[queue[c][i]]]
        BY DEF Letters
      <4>2. Letters[c] = [i \in {} |-> body[queue[c][i]]]
        BY <3>1, <4>1
      <4> QED BY <4>2
    <3>5. Handed' = Promise!Nothing
      BY <3>2, PushesNoData, HandsNothingNext
    <3>6. Promise!Sleep(c)
      BY <3>2, <3>3, <3>4, <3>5 DEF Promise!Sleep
    <3> QED BY <3>6 DEF Promise!Next
  <2> QED BY <2>1, <2>2
<1>12. CASE ListDevices(c)
  BY <1>12, PushesNoData, OutWithoutData, IdleStep DEF ListDevices, members_vars, heap_vars
<1> QED BY <1>1, <1>2, <1>3, <1>4, <1>5, <1>6, <1>7, <1>8, <1>9, <1>10, <1>11, <1>12

(* While no allocation fails, the arrays of members, the queues of shared  *)
(* and reference-counted messages and the waiting flags implement the      *)
(* mailboxes of Mailbox.tla, for any numbers of clients, groups and        *)
(* messages: every letter is delivered once, in order, unaltered, to those *)
(* who were members when it was sent.                                      *)
THEOREM BrokerKeepsPromise ==
  ASSUME ~AllocMayFail
  PROVE  Spec => KeepsPromise
<1>1. Init => Promise!Init
  <2> SUFFICES ASSUME Init PROVE Promise!Init
    OBVIOUS
  <2>1. Memberships = {}
    BY DEF Init, Memberships
  <2>2. Letters = Promise!Nothing
    <3>1. \A c \in Fds : queue[c] = <<>>
      BY DEF Init
    <3>2. \A c \in Fds : [i \in DOMAIN queue[c] |-> body[queue[c][i]]] = <<>>
      BY <3>1
    <3> QED BY <3>2 DEF Letters, Promise!Nothing
  <2>3. Handed = Promise!Nothing
    <3>1. NoData
      BY DEF Init, NoData, Silence
    <3> QED BY <3>1, HandsNothing
  <2> QED BY <2>1, <2>2, <2>3 DEF Init, Promise!Init
<1>2. TypeOK /\ MembershipOK /\ RefsCover /\ [Next]_vars => [Promise!Next]_(Promise!vars)
  <2> SUFFICES ASSUME TypeOK, MembershipOK, RefsCover, [Next]_vars
               PROVE  [Promise!Next]_(Promise!vars)
    OBVIOUS
  <2>1. CASE Next
    BY <2>1, NextRefines
  <2>2. CASE UNCHANGED vars
    <3>1. UNCHANGED <<conn, groups, queue, body, waiting, out>>
      BY <2>2 DEF vars, members_vars, heap_vars
    <3>2. UNCHANGED Memberships /\ UNCHANGED Letters
      BY <3>1 DEF Memberships, Letters
    <3>3. UNCHANGED Handed
      BY <3>1 DEF Handed, HandedOver, Nth, IsData
    <3> QED BY <3>1, <3>2, <3>3 DEF Promise!vars
  <2> QED BY <2>1, <2>2
<1>3. Spec => []RefsCover
  BY NoUseAfterFree
<1> QED BY <1>1, <1>2, <1>3, TypeCorrect, MembershipCorrect, PTL DEF Spec, KeepsPromise, Promise!Spec
=============================================================================
