--------------------------- MODULE SessionProofs ----------------------------
(***************************************************************************)
(* Proofs about Session.tla, for any number of clients: the composed       *)
(* system is a behaviour of the broker, clients and server stay in step    *)
(* and agree on the serialization, waits block, and no variable is lost to *)
(* a change of the serialization.                                          *)
(***************************************************************************)
EXTENDS Session, BrokerDeliveryProofs

USE FdsAssumption, NamesAssumption, MsgsAssumption, NameListsAssumption, SerializationsAssumption,
    SyncLimitsAssumption, InitCapAssumption, UIntMaxAssumption, AllocMayFailAssumption

(* The broker is ready for every command that a client can send: its       *)
(* inputs are bounded for model checking only.                             *)
AnyInput ==
  /\ Payloads = Copies
  /\ \A n \in Names : <<n>> \in NameLists
  /\ SyncLimits = Int
  /\ Serializations = AllSerializations

(* No program uses the JavaScript library, which takes notices for answers.*)
NoJavaScript == \A w \in Worlds : \A c \in Fds : w[c] # "javascript"

(* A program that survives an exception has no more than one answer        *)
(* outstanding when it is thrown.                                          *)
SafeCatch == CatchErrors => VarCounts \subseteq {1}

-----------------------------------------------------------------------------
(* What a call relies on.                                                  *)
Ready(c) ==
  /\ call[c].op \notin {"none", "handshake"} => ser[c] # NoSerialization
  /\ call[c] \in Batches =>
       /\ call[c].lo <= call[c].hi /\ call[c].lo <= call[c].next
       /\ SafeCatch /\ CatchErrors => call[c].lo = call[c].hi /\ call[c].pending = 1

Before(c) ==
  status[c] = "off" =>
    /\ inq[c] = <<>> /\ wbuf[c] = <<>>
    /\ c \notin conn
    /\ ser[c] = NoSerialization /\ call[c] = Idle

(* The conversation of client c with the server.                           *)
Talk(c) ==
  Up(c) =>
    /\ call[c].pending = Len(inq[c]) + Cardinality(Answers(c))
                           + (IF c \in waiting THEN 1 ELSE 0)
    /\ \A i \in DOMAIN inq[c] : inq[c][i].cmd = call[c].op
    /\ \A i \in DOMAIN wbuf[c] :
         /\ wbuf[c][i].reply = "data" =>
              /\ call[c].op = "sync" /\ inq[c] = <<>>
              /\ \A j \in Answers(c) : i < j
         /\ wbuf[c][i].reply = "registered" => call[c].op = "handshake"
    /\ c \in waiting => call[c].op = "wait"
    /\ c \notin conn => wbuf[c] = <<>> /\ ser[c] = NoSerialization

(* The messages that client c is sent, and has read, have a content.       *)
Genuine(c) ==
  /\ \A i \in DOMAIN wbuf[c] : wbuf[c][i].reply = "data" => wbuf[c][i].body \in Copies
  /\ seen[c] \subseteq Copies

-----------------------------------------------------------------------------
(* Records.                                                                *)
LEMMA CommandFields ==
  ASSUME NEW q \in Commands
  PROVE  /\ q.cmd = "handshake" => q.serialization \in AllSerializations
         /\ q.cmd \in {"join", "leave", "send"} => q.name \in Names
         /\ q.cmd \in {"send", "broadcast"} => q.body \in Copies
         /\ q.cmd = "sync" => q.n \in Int
BY DEF Commands

LEMMA CommandTypes ==
  /\ \A s \in AllSerializations : [cmd |-> "handshake", serialization |-> s] \in Commands
  /\ \A n \in Names : [cmd |-> "join", name |-> n] \in Commands /\ [cmd |-> "leave", name |-> n] \in Commands
  /\ \A n \in Names, p \in Copies : [cmd |-> "send", name |-> n, body |-> p] \in Commands
  /\ \A p \in Copies : [cmd |-> "broadcast", body |-> p] \in Commands
  /\ \A n \in Int : [cmd |-> "sync", n |-> n] \in Commands
  /\ [cmd |-> "wait"] \in Commands /\ [cmd |-> "devices"] \in Commands
BY DEF Commands

LEMMA ReplyFields ==
  ASSUME NEW r \in Reply
  PROVE  /\ IsNotice(r) => r.serialization \in AllSerializations
         /\ r.reply = "data" => r.body \in Payloads \cup {NoBody}
BY DEF Reply, IsNotice

LEMMA CallFields ==
  ASSUME NEW k \in Calls
  PROVE  /\ k.pending \in Nat
         /\ k.op = "none" <=> k = Idle
         /\ k.op = "none" <=> k.pending = 0
         /\ k.op \in {"send", "broadcast"} <=> k \in Batches
         /\ k.op \notin {"none", "send", "broadcast"} => k.pending = 1
         /\ k.op = "sync" => k \in [op : {"sync"}, pending : {1}, n : Int, skipped : Nat, nested : BOOLEAN]
BY DEF Calls, Batches, Idle

-----------------------------------------------------------------------------
(* Counting the answers in a socket.                                       *)
Ans(s) == {i \in DOMAIN s : IsAnswer(s[i])}

LEMMA AnsFinite ==
  ASSUME NEW s \in Seq(Reply)
  PROVE  IsFiniteSet(Ans(s)) /\ Cardinality(Ans(s)) \in Nat
<1>1. Ans(s) \subseteq 1..Len(s) /\ Len(s) \in Nat
  BY DEF Ans
<1>2. IsFiniteSet(1..Len(s))
  BY <1>1, FS_Interval
<1> QED BY <1>1, <1>2, FS_Subset, FS_CardinalityType

LEMMA AnsNone ==
  ASSUME NEW s \in Seq(Reply)
  PROVE  Cardinality(Ans(s)) = 0 <=> Ans(s) = {}
BY AnsFinite, FS_EmptySet

(* A message at the end of the socket counts if it is an answer.           *)
LEMMA AnsAppend ==
  ASSUME NEW s \in Seq(Reply), NEW r \in Reply
  PROVE  Cardinality(Ans(s \o <<r>>)) = Cardinality(Ans(s)) + (IF IsAnswer(r) THEN 1 ELSE 0)
<1> DEFINE t == s \o <<r>>
<1>1. /\ DOMAIN t = DOMAIN s \cup {Len(s) + 1} /\ Len(s) + 1 \notin DOMAIN s
      /\ t[Len(s) + 1] = r /\ \A i \in DOMAIN s : t[i] = s[i]
  OBVIOUS
<1> HIDE DEF t
<1>2. CASE IsAnswer(r)
  <2>1. Ans(t) = Ans(s) \cup {Len(s) + 1} /\ Len(s) + 1 \notin Ans(s)
    BY <1>1, <1>2 DEF Ans
  <2>2. Cardinality(Ans(s) \cup {Len(s) + 1}) = Cardinality(Ans(s)) + 1
    BY <2>1, AnsFinite, FS_AddElement
  <2> QED BY <1>2, <2>1, <2>2 DEF t
<1>3. CASE ~IsAnswer(r)
  <2>1. Ans(t) = Ans(s)
    BY <1>1, <1>3 DEF Ans
  <2> QED BY <1>3, <2>1, AnsFinite DEF t
<1> QED BY <1>2, <1>3

LEMMA ConcatItems ==
  ASSUME NEW s \in Seq(Reply), NEW t \in Seq(Reply)
  PROVE  /\ DOMAIN (s \o t) = 1..(Len(s) + Len(t)) /\ DOMAIN s = 1..Len(s) /\ DOMAIN t = 1..Len(t)
         /\ Len(s) \in Nat /\ Len(t) \in Nat
         /\ \A i \in DOMAIN s : (s \o t)[i] = s[i]
         /\ \A i \in DOMAIN (s \o t) \ DOMAIN s : i - Len(s) \in DOMAIN t /\ (s \o t)[i] = t[i - Len(s)]
OBVIOUS

(* Reading a message takes one answer away if it is one.                   *)
LEMMA AnsTail ==
  ASSUME NEW s \in Seq(Reply), s # <<>>
  PROVE  /\ \A i \in Ans(Tail(s)) : i + 1 \in Ans(s)
         /\ Cardinality(Ans(s)) = Cardinality(Ans(Tail(s))) + (IF IsAnswer(Head(s)) THEN 1 ELSE 0)
<1> DEFINE t == Tail(s)
           A == Ans(s) \ {1}
           B == Ans(t)
           f == [i \in B |-> i + 1]
<1>1. /\ t \in Seq(Reply) /\ Len(s) \in Nat /\ Len(s) >= 1 /\ DOMAIN s = 1..Len(s)
      /\ DOMAIN t = 1..(Len(s) - 1)
      /\ \A i \in 1..(Len(s) - 1) : t[i] = s[i + 1]
      /\ Head(s) = s[1]
  OBVIOUS
<1> HIDE DEF t
<1>2. \A i \in Int : i \in B <=> i + 1 \in A
  BY <1>1 DEF Ans
<1>3. B \subseteq Int /\ A \subseteq Int
  BY <1>1 DEF Ans
<1>4. f \in Bijection(B, A)
  <2>1. f \in [B -> A]
    BY <1>2, <1>3
  <2>2. \A i, j \in B : f[i] = f[j] => i = j
    BY <1>3
  <2>3. ASSUME NEW a \in A PROVE \E i \in B : f[i] = a
    <3>1. a \in Int /\ a - 1 \in Int /\ (a - 1) + 1 = a
      BY <1>3
    <3>2. a - 1 \in B
      BY <1>2, <3>1
    <3>3. f[a - 1] = a
      BY <3>1, <3>2
    <3> QED BY <3>2, <3>3
  <2> QED BY <2>1, <2>2, <2>3, Zenon DEF Bijection, Injection, Surjection, IsInjective
<1>5. IsFiniteSet(B) /\ Cardinality(B) \in Nat
  BY <1>1, AnsFinite
<1>6. Cardinality(A) = Cardinality(B) /\ IsFiniteSet(A)
  BY <1>4, <1>5, FS_Bijection DEF ExistsBijection
<1>7. CASE IsAnswer(Head(s))
  <2>1. Ans(s) = A \cup {1} /\ 1 \notin A
    BY <1>1, <1>7 DEF Ans
  <2>2. Cardinality(A \cup {1}) = Cardinality(A) + 1
    BY <1>6, <2>1, FS_AddElement
  <2> QED BY <1>2, <1>3, <1>6, <1>7, <2>1, <2>2 DEF t
<1>8. CASE ~IsAnswer(Head(s))
  <2>1. Ans(s) = A
    BY <1>1, <1>8 DEF Ans
  <2>2. Cardinality(Ans(s)) = Cardinality(Ans(t))
    BY <1>6, <2>1, Zenon
  <2> QED BY <1>2, <1>3, <1>5, <1>8, <2>1, <2>2 DEF t
<1> QED BY <1>7, <1>8

-----------------------------------------------------------------------------
(* The handlers, as the clients see them.                                  *)

(* What the handling of a command of another client means for client d.    *)
Overhears(d) ==
  \/ out'[d] = <<>> /\ (d \in waiting' <=> d \in waiting)
  \/ out'[d] = <<Reregister>> /\ (d \in waiting' <=> d \in waiting) /\ d \in conn
  \/ \E n : out'[d] = <<Count(n)>> /\ d \in waiting /\ d \notin waiting'

(* The answer to the command q of client c: one, or none to a wait that is *)
(* held back.                                                              *)
IsAnswered(c, q) ==
  \/ q.cmd = "handshake" /\ out'[c] = <<Registered(serialization')>> /\ c \notin waiting'
  \/ /\ q.cmd = "sync" /\ c \notin waiting' /\ UNCHANGED serialization
     /\ \E data \in Seq(Reply) :
          /\ out'[c] = data \o <<Ok>>
          /\ \A i \in DOMAIN data : data[i].reply = "data"
  \/ q.cmd = "wait" /\ out'[c] = <<>> /\ c \in waiting' /\ UNCHANGED serialization
  \/ /\ c \notin waiting' /\ UNCHANGED serialization
     /\ \E r : r.reply \in {"ok", "error", "n", "devices"} /\ out'[c] = <<r>>

(* A change of the serialization is announced to everybody.                *)
Announced(c) ==
  \/ serialization' = serialization /\ \A d \in Fds \ {c} : out'[d] # <<Reregister>>
  \/ serialization = NoSerialization /\ \A d \in Fds \ {c} : out'[d] # <<Reregister>>
  \/ serialization' = "dimeb" /\ \A d \in conn \ {c} : out'[d] = <<Reregister>>

LEMMA OnlyAnswers ==
  ASSUME ~AllocMayFail, NEW c \in Fds, NEW q, NEW r, r.reply \in {"ok", "error", "n", "devices"},
         out' = Only(c, <<r>>), UNCHANGED <<waiting, serialization>>
  PROVE  /\ \A d \in Fds \ {c} : Overhears(d)
         /\ c \notin waiting => IsAnswered(c, q)
         /\ Announced(c)
<1>1. out'[c] = <<r>> /\ \A d \in Fds \ {c} : out'[d] = <<>>
  BY DEF Only
<1>2. <<>> # <<Reregister>>
  OBVIOUS
<1>3. \A d \in Fds \ {c} : Overhears(d)
  BY <1>1 DEF Overhears
<1>4. c \notin waiting => IsAnswered(c, q)
  <2>1. waiting' = waiting /\ serialization' = serialization
    OBVIOUS
  <2>2. \E r1 : r1.reply \in {"ok", "error", "n", "devices"} /\ out'[c] = <<r1>>
    BY <1>1
  <2>3. SUFFICES ASSUME c \notin waiting
                 PROVE  IsAnswered(c, q)
    OBVIOUS
  <2>4. c \notin waiting'
    BY <2>1, <2>3
  <2> QED BY <2>1, <2>2, <2>4 DEF IsAnswered
<1>5. Announced(c)
  <2>1. \A d \in Fds \ {c} : out'[d] # <<Reregister>>
    BY <1>1, <1>2
  <2> QED BY <2>1 DEF Announced
<1> QED BY <1>3, <1>4, <1>5

LEMMA RelayedAnswers ==
  ASSUME ~AllocMayFail, NEW c \in Fds, NEW q, NEW m, NEW p, NEW R, Relayed(c, m, p, R),
         UNCHANGED serialization
  PROVE  /\ \A d \in Fds \ {c} : Overhears(d)
         /\ c \notin waiting => IsAnswered(c, q)
         /\ Announced(c)
<1>1. out' = [d \in Fds |-> WakeUp(d, R) \o (IF d = c THEN <<Ok>> ELSE <<>>)]
  BY DEF Relayed
<1>2. waiting' = waiting \ R
  BY DEF Relayed, Enqueue
<1>3. ASSUME NEW d \in Fds, d # c
      PROVE  Overhears(d) /\ out'[d] # <<Reregister>>
  <2>1. out'[d] = WakeUp(d, R) \o <<>>
    BY <1>1, <1>3
  <2>2. CASE d \in R \cap waiting
    <3> DEFINE n == Len(queue[d]) + 1
    <3>1. out'[d] = <<Count(n)>> \o <<>>
      BY <2>1, <2>2 DEF WakeUp
    <3> HIDE DEF n
    <3>2. \A r : <<r>> \o <<>> = <<r>>
      OBVIOUS
    <3>3. out'[d] = <<Count(n)>>
      BY <3>1, <3>2
    <3>4. Count(n) # Reregister
      BY DEF Count, Reregister
    <3> QED BY <1>2, <2>2, <3>3, <3>4 DEF Overhears
  <2>3. CASE d \notin R \cap waiting
    <3>1. out'[d] = <<>>
      BY <2>1, <2>3 DEF WakeUp
    <3> QED BY <1>2, <2>3, <3>1 DEF Overhears
  <2> QED BY <2>2, <2>3
<1>4. ASSUME c \notin waiting PROVE IsAnswered(c, q)
  <2>1. out'[c] = <<>> \o <<Ok>>
    BY <1>1, <1>4 DEF WakeUp
  <2>2. out'[c] = <<Ok>>
    BY <2>1
  <2> QED BY <1>2, <1>4, <2>2 DEF IsAnswered, Ok
<1> QED BY <1>3, <1>4 DEF Announced

(* While no allocation fails every handler answers its own client once,    *)
(* except that it holds back a wait, and tells the others no more than     *)
(* wake-ups and notices.                                                   *)
LEMMA HandlersAnswer ==
  ASSUME ~AllocMayFail, TypeOK, NEW c \in Fds, NEW q \in Commands, Dispatch(c, q)
  PROVE  /\ conn' = conn
         /\ \A d \in Fds \ {c} : Overhears(d)
         /\ c \notin waiting => IsAnswered(c, q)
         /\ Announced(c)
<1>0. Ok.reply = "ok" /\ Err.reply = "error" /\ (\A n : Count(n).reply = "n") /\ (\A S : Devices(S).reply = "devices")
  BY DEF Ok, Err, Count, Devices
<1>1. CASE q.cmd = "handshake" /\ Handshake(c, q.serialization)
  <2> DEFINE s == q.serialization
  <2>1. /\ serialization' = Chosen(s) /\ UNCHANGED <<conn, waiting>>
        /\ out' = [d \in Fds |-> IF d = c THEN <<Registered(Chosen(s))>>
                                 ELSE IF d \in Told(c, s) THEN <<Reregister>> ELSE <<>>]
    BY <1>1 DEF Handshake
  <2>2. out'[c] = <<Registered(serialization')>>
    BY <2>1
  <2>3. \A d \in Fds \ {c} : out'[d] = IF d \in Told(c, s) THEN <<Reregister>> ELSE <<>>
    BY <2>1
  <2>4. <<>> # <<Reregister>>
    OBVIOUS
  <2>5. Announced(c)
    <3>1. CASE MustReregister(s)
      <4>1. Chosen(s) = "dimeb" /\ Told(c, s) = conn \ {c}
        BY <3>1 DEF Chosen, Told, MustReregister
      <4>2. conn \subseteq Fds
        BY DEF TypeOK
      <4> QED BY <2>1, <2>3, <4>1, <4>2 DEF Announced
    <3>2. CASE ~MustReregister(s)
      <4>1. Told(c, s) = {} /\ (serialization = NoSerialization \/ Chosen(s) = serialization)
        BY <3>2 DEF Chosen, Told
      <4> QED BY <2>1, <2>3, <2>4, <4>1 DEF Announced
    <3> QED BY <3>1, <3>2
  <2>6. \A d \in Fds \ {c} : Overhears(d)
    BY <2>1, <2>3 DEF Overhears, Told
  <2> QED BY <1>1, <2>1, <2>2, <2>5, <2>6 DEF IsAnswered
<1>2. CASE Join(c, <<q.name>>) \/ Leave(c, <<q.name>>)
  <2>1. out' = Only(c, <<Ok>>) \/ out' = Only(c, <<Err>>)
    BY <1>2 DEF Join, Leave, Push, PushError
  <2>2. UNCHANGED <<conn, waiting, serialization>>
    BY <1>2 DEF Join, Leave
  <2> QED BY <1>0, <2>1, <2>2, OnlyAnswers
<1>3. CASE Send(c, q.name, q.body)
  <2>1. UNCHANGED <<conn, serialization>>
    BY <1>3 DEF Send
  <2>2. CASE PushError(c) /\ UNCHANGED waiting
    <3>1. out' = Only(c, <<Err>>)
      BY <2>2 DEF PushError
    <3> QED BY <1>0, <2>1, <2>2, <3>1, OnlyAnswers
  <2>3. CASE \E m \in Free : Relayed(c, m, q.body, Range(members[q.name]))
    BY <2>1, <2>3, RelayedAnswers
  <2> QED BY <1>3, <2>2, <2>3 DEF Send, NoMemory
<1>4. CASE Broadcast(c, q.body)
  <2>1. UNCHANGED <<conn, serialization>>
    BY <1>4 DEF Broadcast
  <2>2. \E m \in Free : Relayed(c, m, q.body, conn \ {c})
    BY <1>4 DEF Broadcast, NoMemory
  <2> QED BY <2>1, <2>2, RelayedAnswers
<1>5. CASE q.cmd = "sync" /\ Sync(c, q.n)
  <2> DEFINE k == SyncLength(c, q.n)
             data == [i \in 1..k |-> Data(body[queue[c][i]])]
  <2>1. /\ out' = Only(c, data \o <<Ok>>)
        /\ UNCHANGED <<conn, waiting, serialization>>
    BY <1>5 DEF Sync
  <2>2. k \in Nat /\ k <= Len(queue[c])
    <3>1. q.n \in Int /\ Len(queue[c]) \in Nat
      BY <1>5, CommandFields DEF TypeOK
    <3> QED BY <3>1 DEF SyncLength
  <2>3. data \in Seq(Reply) /\ \A i \in DOMAIN data : data[i].reply = "data"
    <3>1. \A i \in 1..k : Data(body[queue[c][i]]) \in Reply
      <4>1. \A i \in 1..k : queue[c][i] \in Msgs
        BY <2>2 DEF TypeOK
      <4>2. \A i \in 1..k : body[queue[c][i]] \in Payloads \cup {NoBody}
        BY <4>1 DEF TypeOK
      <4> QED BY <4>2, ReplyTypes
    <3> HIDE DEF k
    <3>2. \A i \in 1..k : data[i].reply = "data"
      BY DEF Data
    <3> QED BY <2>2, <3>1, <3>2
  <2> HIDE DEF k, data
  <2>4. out'[c] = data \o <<Ok>> /\ \A d \in Fds \ {c} : out'[d] = <<>>
    BY <2>1 DEF Only
  <2>5. <<>> # <<Reregister>>
    OBVIOUS
  <2> QED BY <1>5, <2>1, <2>3, <2>4, <2>5 DEF Overhears, IsAnswered, Announced
<1>6. CASE q.cmd = "wait" /\ Wait(c)
  <2>1. UNCHANGED <<conn, serialization>>
    BY <1>6 DEF Wait
  <2>2. CASE out' = Only(c, <<Count(Len(queue[c]))>>) /\ UNCHANGED waiting
    BY <1>0, <2>1, <2>2, OnlyAnswers
  <2>3. CASE out' = Silence /\ waiting' = waiting \cup {c}
    <3>1. \A d \in Fds : out'[d] = <<>>
      BY <2>3 DEF Silence
    <3>2. <<>> # <<Reregister>>
      OBVIOUS
    <3> QED BY <1>6, <2>1, <2>3, <3>1, <3>2 DEF Overhears, IsAnswered, Announced
  <2> QED BY <1>6, <2>2, <2>3 DEF Wait, Push
<1>7. CASE ListDevices(c)
  <2> DEFINE S == {n \in name2clnt : members[n] # <<>>}
  <2>1. out' = Only(c, <<Devices(S)>>) /\ UNCHANGED <<conn, waiting, serialization>>
    BY <1>7 DEF ListDevices, Push
  <2> HIDE DEF S
  <2>2. Devices(S).reply \in {"ok", "error", "n", "devices"}
    BY <1>0
  <2> QED BY <2>1, <2>2, OnlyAnswers
<1> QED BY <1>1, <1>2, <1>3, <1>4, <1>5, <1>6, <1>7 DEF Dispatch

-----------------------------------------------------------------------------
(* The steps of a client.                                                  *)

(* ClientTypeOK but for freed messages: while allocations fail, nothing    *)
(* says that a client cannot be handed the content of one.                 *)
Typed ==
  /\ kind \in Worlds
  /\ status \in [Fds -> {"off", "up", "down"}]
  /\ inq \in [Fds -> Seq(Commands)]
  /\ wbuf \in [Fds -> Seq(Reply)]
  /\ ser \in [Fds -> AllSerializations \cup {NoSerialization}]
  /\ call \in [Fds -> Calls]
  /\ nvars \in [Fds -> 0..MaxVars]
  /\ ncalls \in [Fds -> 0..MaxCalls]
  /\ seen \in [Fds -> SUBSET (Copies \cup {NoBody})]

(* A step from f to g that changes no more than the value at c.            *)
Own(f, g, c) == g = [f EXCEPT ![c] = g[c]]

LEMMA OwnFacts ==
  ASSUME NEW S, NEW f \in [Fds -> S], NEW c \in Fds
  PROVE  Own(f, f, c) /\ \A e : Own(f, [f EXCEPT ![c] = e], c) /\ [f EXCEPT ![c] = e][c] = e
<1>1. f = [f EXCEPT ![c] = f[c]]
  OBVIOUS
<1>2. ASSUME NEW e PROVE [f EXCEPT ![c] = e][c] = e
  OBVIOUS
<1> QED BY <1>1, <1>2, Zenon DEF Own

OwnStep(c) ==
  /\ UNCHANGED <<broker_vars, kind>>
  /\ Own(status, status', c) /\ Own(inq, inq', c) /\ Own(wbuf, wbuf', c) /\ Own(ser, ser', c)
  /\ Own(call, call', c) /\ Own(nvars, nvars', c) /\ Own(ncalls, ncalls', c) /\ Own(seen, seen', c)

(* One more batch of the call k is on its way.                             *)
Issued(c, k) ==
  \E t \in Seq(Commands) :
    /\ t # <<>> /\ \A i \in DOMAIN t : t[i].cmd = k.op
    /\ inq' = [inq EXCEPT ![c] = inq[c] \o t]
    /\ Own(call, call', c) /\ call'[c] \in Batches
    /\ call'[c].op = k.op /\ call'[c].pending = Len(t)
    /\ call'[c].lo = k.lo /\ call'[c].hi = k.hi /\ k.lo <= call'[c].next
    /\ k.lo = k.hi => Len(t) = 1

Drafts ==
  [op : {"send"}, pending : Nat, to : Names, began : AllSerializations,
   lo : 1..MaxVars, hi : 1..MaxVars, next : Nat \ {0}]
    \cup [op : {"broadcast"}, pending : Nat, to : {Everyone}, began : AllSerializations,
          lo : 1..MaxVars, hi : 1..MaxVars, next : Nat \ {0}]

LEMMA DraftFields ==
  ASSUME NEW k \in Drafts
  PROVE  /\ k.lo \in 1..MaxVars /\ k.hi \in 1..MaxVars /\ k.next \in Nat \ {0}
         /\ k.op \in {"send", "broadcast"} /\ (k.op = "send" => k.to \in Names)
         /\ k.began \in AllSerializations
BY DEF Drafts, Batches

LEMMA Redrafted ==
  ASSUME NEW k \in Drafts, NEW s \in AllSerializations
  PROVE  LET l == [k EXCEPT !.began = s, !.next = k.lo] IN
         l \in Drafts /\ l.op = k.op /\ l.lo = k.lo /\ l.hi = k.hi /\ l.next = k.lo
<1> DEFINE l == [k EXCEPT !.began = s, !.next = k.lo]
<1>1. k.lo \in Nat \ {0}
  BY BoundsAssumption, DraftFields
<1>2. l.op = k.op /\ l.lo = k.lo /\ l.hi = k.hi /\ l.next = k.lo
  BY DEF Drafts
<1>3. ASSUME NEW m \in Nat \ {0} PROVE [k EXCEPT !.began = s, !.next = m] \in Drafts
  BY DEF Drafts
<1>4. l \in Drafts
  BY <1>1, <1>3
<1> QED BY <1>2, <1>4

LEMMA BatchFields ==
  ASSUME NEW k \in Batches
  PROVE  /\ k \in Drafts /\ k \in Calls /\ k.pending \in Nat \ {0}
         /\ k.pending # 1 => [k EXCEPT !.pending = k.pending - 1] \in Batches
         /\ LET l == [k EXCEPT !.pending = k.pending - 1] IN
            l.op = k.op /\ l.pending = k.pending - 1 /\ l.lo = k.lo /\ l.hi = k.hi /\ l.next = k.next
BY DEF Drafts, Batches, Calls

LEMMA CopyType ==
  ASSUME Typed, NEW c \in Fds, ser[c] \in AllSerializations, NEW v \in 1..MaxVars
  PROVE  Copy(c, v) \in Copies
BY DEF Copy, Copies

LEMMA IssueFacts ==
  ASSUME Typed, NEW c \in Fds, ser[c] \in AllSerializations,
         NEW k \in Drafts, k.lo <= k.next, k.next <= k.hi, Issue(c, k)
  PROVE  Issued(c, k)
<1> USE StrideAssumption, BoundsAssumption
<1> DEFINE size == BatchEnd(c, k) - k.next + 1
           next == k.next + BatchSize(c)
           Cmd(i) == IF k.op = "send"
                     THEN [cmd |-> "send", name |-> k.to, body |-> Copy(c, k.next + i - 1)]
                     ELSE [cmd |-> "broadcast", body |-> Copy(c, k.next + i - 1)]
           t == [i \in 1..size |-> Cmd(i)]
<1>1. /\ k.lo \in 1..MaxVars /\ k.hi \in 1..MaxVars /\ k.next \in Nat \ {0}
      /\ k.op \in {"send", "broadcast"} /\ (k.op = "send" => k.to \in Names)
  BY DraftFields
<1>2. BatchSize(c) \in Nat \ {0}
  BY DEF BatchSize
<1>3. BatchEnd(c, k) \in Nat /\ k.next <= BatchEnd(c, k) /\ BatchEnd(c, k) <= k.hi
  BY <1>1, <1>2, SMTT(30) DEF BatchEnd
<1>4. /\ size \in Nat \ {0} /\ next \in Nat \ {0} /\ k.lo <= next
      /\ (k.lo = k.hi => size = 1)
  <2>1. k.lo \in Nat /\ k.hi \in Nat /\ k.next \in Nat /\ k.next > 0 /\ k.lo <= k.next
    BY <1>1
  <2>2. BatchSize(c) \in Nat /\ BatchSize(c) > 0
    BY <1>2
  <2>3. size \in Nat \ {0}
    BY <1>3, <2>1
  <2>4. next \in Nat \ {0} /\ k.lo <= next
    BY <2>1, <2>2
  <2>5. k.lo = k.hi => size = 1
    BY <1>3, <2>1
  <2> QED BY <2>3, <2>4, <2>5
<1>5. ASSUME NEW i \in 1..size PROVE Cmd(i) \in Commands /\ Cmd(i).cmd = k.op
  <2>1. k.next + i - 1 \in 1..MaxVars
    BY <1>1, <1>3, SMTT(30)
  <2>2. Copy(c, k.next + i - 1) \in Copies
    BY <2>1, CopyType
  <2> QED BY <1>1, <2>2, CommandTypes
<1>6. /\ call' = [call EXCEPT ![c] = [k EXCEPT !.pending = size, !.next = next]]
      /\ inq' = [inq EXCEPT ![c] = inq[c] \o t]
  <2>1. call' = [call EXCEPT ![c] = [k EXCEPT !.pending = size, !.next = k.next + BatchSize(c)]]
    BY Zenon DEF Issue
  <2>2. inq' = [inq EXCEPT ![c] = inq[c] \o t]
    BY Zenon DEF Issue, Transmit
  <2> QED BY <2>1, <2>2
<1> HIDE DEF size, next, Cmd
<1>7. t \in Seq(Commands) /\ Len(t) = size /\ t # <<>> /\ \A i \in DOMAIN t : t[i].cmd = k.op
  BY <1>4, <1>5
<1>8. Own(call, call', c) /\ call'[c] = [k EXCEPT !.pending = size, !.next = next]
  BY <1>6, OwnFacts DEF Typed
<1>9. /\ call'[c] \in Batches /\ call'[c].op = k.op /\ call'[c].pending = size
      /\ call'[c].lo = k.lo /\ call'[c].hi = k.hi /\ call'[c].next = next
  <2> DEFINE l == [k EXCEPT !.pending = size, !.next = next]
  <2>2. l \in Batches /\ l.op = k.op /\ l.pending = size /\ l.lo = k.lo /\ l.hi = k.hi /\ l.next = next
    BY <1>4 DEF Drafts, Batches
  <2>3. call'[c] = l
    BY <1>8
  <2> HIDE DEF l
  <2> QED BY <2>2, <2>3
<1> HIDE DEF t
<1> QED BY <1>4, <1>6, <1>7, <1>8, <1>9 DEF Issued

TypedAt(c) ==
  /\ status[c] \in {"off", "up", "down"}
  /\ inq[c] \in Seq(Commands) /\ wbuf[c] \in Seq(Reply)
  /\ ser[c] \in AllSerializations \cup {NoSerialization}
  /\ call[c] \in Calls
  /\ nvars[c] \in 0..MaxVars /\ ncalls[c] \in 0..MaxCalls
  /\ seen[c] \in SUBSET (Copies \cup {NoBody})

LEMMA OwnTyped ==
  ASSUME Typed, NEW c \in Fds, OwnStep(c), TypedAt(c)'
  PROVE  Typed'
<1>0. \A S : \A f \in [Fds -> S] : \A g : Own(f, g, c) /\ g[c] \in S => g \in [Fds -> S]
  BY DEF Own
<1>1. kind' \in Worlds
  BY DEF Typed, OwnStep
<1>2. status' \in [Fds -> {"off", "up", "down"}]
  BY <1>0 DEF Typed, OwnStep, TypedAt
<1>3. inq' \in [Fds -> Seq(Commands)]
  BY <1>0 DEF Typed, OwnStep, TypedAt
<1>4. wbuf' \in [Fds -> Seq(Reply)]
  BY <1>0 DEF Typed, OwnStep, TypedAt
<1>5. ser' \in [Fds -> AllSerializations \cup {NoSerialization}]
  BY <1>0 DEF Typed, OwnStep, TypedAt
<1>6. call' \in [Fds -> Calls]
  BY <1>0 DEF Typed, OwnStep, TypedAt
<1>7. nvars' \in [Fds -> 0..MaxVars] /\ ncalls' \in [Fds -> 0..MaxCalls]
  BY <1>0 DEF Typed, OwnStep, TypedAt
<1>8. seen' \in [Fds -> SUBSET (Copies \cup {NoBody})]
  <2> DEFINE S == SUBSET (Copies \cup {NoBody})
  <2>1. seen \in [Fds -> S] /\ Own(seen, seen', c) /\ seen'[c] \in S
    BY DEF Typed, OwnStep, TypedAt
  <2> HIDE DEF S
  <2>2. seen' \in [Fds -> S]
    BY <1>0, <2>1
  <2> QED BY <2>2 DEF S
<1> QED BY <1>1, <1>2, <1>3, <1>4, <1>5, <1>6, <1>7, <1>8 DEF Typed

(* Nothing that concerns client d changes but the server.                  *)
Bystander(d) ==
  /\ status'[d] = status[d] /\ inq'[d] = inq[d] /\ wbuf'[d] = wbuf[d] /\ ser'[d] = ser[d]
  /\ call'[d] = call[d] /\ seen'[d] = seen[d]

LEMMA OwnOthers ==
  ASSUME Typed, NEW c \in Fds, OwnStep(c), NEW d \in Fds, d # c
  PROVE  Bystander(d)
<1>0. \A S : \A f \in [Fds -> S] : \A g : Own(f, g, c) => g[d] = f[d]
  BY DEF Own
<1>1. status'[d] = status[d]
  <2>1. \A f \in [Fds -> {"off", "up", "down"}] : \A g : Own(f, g, c) => g[d] = f[d]
    BY <1>0
  <2> QED BY <2>1 DEF Typed, OwnStep
<1>2. inq'[d] = inq[d]
  BY <1>0 DEF Typed, OwnStep
<1>3. wbuf'[d] = wbuf[d]
  BY <1>0 DEF Typed, OwnStep
<1>4. ser'[d] = ser[d]
  BY <1>0 DEF Typed, OwnStep
<1>5. call'[d] = call[d]
  BY <1>0 DEF Typed, OwnStep
<1>6. seen'[d] = seen[d]
  BY <1>0 DEF Typed, OwnStep
<1> QED BY <1>1, <1>2, <1>3, <1>4, <1>5, <1>6 DEF Bystander

LEMMA AsksType ==
  ASSUME Typed, NEW c \in Fds
  PROVE  Asks(c) \in AllSerializations
BY WorldsAssumption DEF Typed, Asks, JavaScript, Kinds, AllSerializations

LEMMA PlainCalls ==
  /\ Idle \in Calls
  /\ \A op \in {"handshake", "join", "leave", "wait", "devices"} :
        Ask(op) \in Calls /\ Ask(op).op = op /\ Ask(op).pending = 1
  /\ \A n \in Int, nested \in BOOLEAN :
        LET k == [op |-> "sync", pending |-> 1, n |-> n, skipped |-> 0, nested |-> nested] IN
        k \in Calls /\ k.op = "sync" /\ k.pending = 1
BY DEF Calls, Idle, Ask

LEMMA OpenFacts ==
  ASSUME Typed, NEW c \in Fds, Open(c)
  PROVE  /\ OwnStep(c) /\ TypedAt(c)'
         /\ call'[c] = Ask("handshake") /\ status'[c] = "up"
         /\ ser'[c] = ser[c] /\ wbuf'[c] = wbuf[c] /\ seen'[c] = seen[c]
         /\ \E q \in Commands : q.cmd = "handshake" /\ inq'[c] = inq[c] \o <<q>>
<1> DEFINE q == [cmd |-> "handshake", serialization |-> Asks(c)]
<1>1. q \in Commands /\ q.cmd = "handshake"
  BY AsksType, CommandTypes
<1>2. /\ status' = [status EXCEPT ![c] = "up"] /\ call' = [call EXCEPT ![c] = Ask("handshake")]
      /\ inq' = [inq EXCEPT ![c] = inq[c] \o <<q>>]
      /\ UNCHANGED <<broker_vars, kind, wbuf, ser, nvars, ncalls, seen>>
  BY DEF Open, Transmit
<1> HIDE DEF q
<1>3. inq[c] \o <<q>> \in Seq(Commands)
  <2>1. inq[c] \in Seq(Commands)
    BY DEF Typed
  <2> QED BY <1>1, <2>1
<1>4. Own(status, status', c) /\ status'[c] = "up"
  BY <1>2, OwnFacts DEF Typed
<1>5. Own(inq, inq', c) /\ inq'[c] = inq[c] \o <<q>>
  BY <1>2, OwnFacts DEF Typed
<1>6. Own(call, call', c) /\ call'[c] = Ask("handshake")
  BY <1>2, OwnFacts DEF Typed
<1>7. Own(wbuf, wbuf', c) /\ Own(ser, ser', c)
  BY <1>2, OwnFacts DEF Typed
<1>8. Own(nvars, nvars', c) /\ Own(ncalls, ncalls', c) /\ Own(seen, seen', c)
  BY <1>2, OwnFacts DEF Typed
<1>9. TypedAt(c)'
  BY <1>2, <1>3, <1>4, <1>5, <1>6, PlainCalls DEF TypedAt, Typed
<1> QED BY <1>1, <1>2, <1>4, <1>5, <1>6, <1>7, <1>8, <1>9 DEF OwnStep

(* A call that sends one command and awaits one answer.                    *)
LEMMA RequestFacts ==
  ASSUME Typed, NEW c \in Fds, NEW op, NEW q \in Commands, q.cmd = op, CanCall(c, op),
         NEW k \in Calls, k.op = op, k.pending = 1, k \notin Batches,
         call' = [call EXCEPT ![c] = k], Transmit(c, <<q>>),
         ncalls' = [ncalls EXCEPT ![c] = ncalls[c] + 1],
         UNCHANGED <<broker_vars, kind, status, wbuf, ser, nvars, seen>>
  PROVE  /\ OwnStep(c) /\ TypedAt(c)'
         /\ call[c] = Idle /\ ser[c] # NoSerialization /\ Up(c)
         /\ call'[c] = k /\ inq'[c] = inq[c] \o <<q>>
         /\ status'[c] = status[c] /\ ser'[c] = ser[c] /\ wbuf'[c] = wbuf[c] /\ seen'[c] = seen[c]
<1>1. inq' = [inq EXCEPT ![c] = inq[c] \o <<q>>]
  BY DEF Transmit
<1>2. inq[c] \o <<q>> \in Seq(Commands)
  <2>1. inq[c] \in Seq(Commands)
    BY DEF Typed
  <2> QED BY <2>1
<1>3. Own(inq, inq', c) /\ inq'[c] = inq[c] \o <<q>>
  BY <1>1, OwnFacts DEF Typed
<1>4. Own(call, call', c) /\ call'[c] = k
  BY OwnFacts DEF Typed
<1>5. Own(ncalls, ncalls', c) /\ ncalls'[c] = ncalls[c] + 1
  BY OwnFacts DEF Typed
<1>6. ncalls[c] + 1 \in 0..MaxCalls
  BY BoundsAssumption DEF Typed, CanCall
<1>7. Own(wbuf, wbuf', c) /\ Own(ser, ser', c) /\ Own(status, status', c)
  BY OwnFacts DEF Typed
<1>8. Own(nvars, nvars', c) /\ Own(seen, seen', c)
  BY OwnFacts DEF Typed
<1>9. TypedAt(c)'
  BY <1>2, <1>3, <1>4, <1>5, <1>6 DEF TypedAt, Typed
<1> QED BY <1>3, <1>4, <1>5, <1>7, <1>8, <1>9 DEF OwnStep, CanCall

LEMMA IssuedTyped ==
  ASSUME Typed, NEW c \in Fds, NEW k, Issued(c, k)
  PROVE  /\ Own(inq, inq', c) /\ inq'[c] \in Seq(Commands)
         /\ Own(call, call', c) /\ call'[c] \in Calls
<1>1. PICK t \in Seq(Commands) : inq' = [inq EXCEPT ![c] = inq[c] \o t]
  BY DEF Issued
<1>2. Own(inq, inq', c) /\ inq'[c] = inq[c] \o t
  BY <1>1, OwnFacts DEF Typed
<1>3. inq[c] \in Seq(Commands)
  BY DEF Typed
<1>4. inq'[c] \in Seq(Commands)
  BY <1>2, <1>3
<1> QED BY <1>2, <1>4 DEF Issued, Calls

(* An exception: the call ends, and perhaps the program.                   *)
Raised(c) ==
  /\ Own(call, call', c) /\ call'[c] = Idle
  /\ Own(status, status', c) /\ status'[c] \in {status[c], "down"}
  /\ status'[c] = "down" \/ CatchErrors
  /\ UNCHANGED inq

LEMMA RaiseFacts ==
  ASSUME Typed, NEW c \in Fds, Raise(c)
  PROVE  Raised(c)
<1>1. call' = [call EXCEPT ![c] = Idle] /\ UNCHANGED inq
      /\ (status' = [status EXCEPT ![c] = "down"] \/ (CatchErrors /\ status' = status))
  BY DEF Raise
<1>2. Own(call, call', c) /\ call'[c] = Idle
  BY <1>1, OwnFacts DEF Typed
<1>3. CASE status' = [status EXCEPT ![c] = "down"]
  <2>1. Own(status, status', c) /\ status'[c] = "down"
    BY <1>3, OwnFacts DEF Typed
  <2> QED BY <1>1, <1>2, <2>1 DEF Raised
<1>4. CASE CatchErrors /\ status' = status
  <2>1. Own(status, status', c) /\ status'[c] = status[c]
    BY <1>4, OwnFacts DEF Typed
  <2> QED BY <1>1, <1>2, <1>4, <2>1 DEF Raised
<1> QED BY <1>1, <1>3, <1>4

LEMMA StartSendFacts ==
  ASSUME Typed, NEW c \in Fds, NEW op, NEW to, NEW k \in VarCounts, StartSend(c, op, to, k),
         \/ op = "send" /\ to \in Names
         \/ op = "broadcast" /\ to = Everyone
  PROVE  /\ OwnStep(c) /\ TypedAt(c)'
         /\ call[c] = Idle /\ ser[c] # NoSerialization /\ Up(c)
         /\ ser'[c] = ser[c] /\ wbuf'[c] = wbuf[c] /\ seen'[c] = seen[c]
         /\ \/ /\ status'[c] = status[c]
               /\ \E l \in Drafts : Issued(c, l) /\ l.lo <= l.hi /\ (k = 1 => l.lo = l.hi)
            \/ Raised(c)
<1> USE VarCountsAssumption, BoundsAssumption
<1> DEFINE lo == nvars[c] + 1
           hi == nvars[c] + k
           l == [op |-> op, pending |-> 0, to |-> to, began |-> ser[c],
                 lo |-> nvars[c] + 1, hi |-> nvars[c] + k, next |-> nvars[c] + 1]
<1>1. /\ call[c] = Idle /\ ser[c] # NoSerialization /\ Up(c) /\ ncalls[c] < MaxCalls
      /\ nvars[c] + k <= MaxVars
      /\ nvars' = [nvars EXCEPT ![c] = nvars[c] + k]
      /\ ncalls' = [ncalls EXCEPT ![c] = ncalls[c] + 1]
      /\ UNCHANGED <<broker_vars, kind, wbuf, ser, seen>>
  BY DEF StartSend, CanCall
<1>2. (Issue(c, l) /\ UNCHANGED status) \/ Raise(c)
  BY DEF StartSend
<1>3. Own(nvars, nvars', c) /\ nvars'[c] = nvars[c] + k
  BY <1>1, OwnFacts DEF Typed
<1>4. Own(ncalls, ncalls', c) /\ ncalls'[c] = ncalls[c] + 1
  BY <1>1, OwnFacts DEF Typed
<1>5. nvars[c] + k \in 0..MaxVars /\ ncalls[c] + 1 \in 0..MaxCalls
      /\ lo \in 1..MaxVars /\ hi \in 1..MaxVars /\ lo <= hi /\ (k = 1 => lo = hi)
  <2>1. nvars[c] \in Nat /\ k \in Nat \ {0} /\ ncalls[c] \in Nat
    BY DEF Typed
  <2>2. nvars[c] + k <= MaxVars /\ ncalls[c] < MaxCalls
    BY <1>1
  <2>3. ASSUME NEW v \in Nat, NEW j \in Nat \ {0}, v + j <= MaxVars
        PROVE  v + j \in 0..MaxVars /\ v + 1 \in 1..MaxVars /\ v + j \in 1..MaxVars
               /\ v + 1 <= v + j /\ (j = 1 => v + 1 = v + j)
    BY <2>3
  <2>4. ncalls[c] + 1 \in 0..MaxCalls
    BY <2>1, <2>2
  <2> QED BY <2>1, <2>2, <2>3, <2>4
<1>6. Own(wbuf, wbuf', c) /\ Own(ser, ser', c)
  BY <1>1, OwnFacts DEF Typed
<1>7. Own(seen, seen', c)
  BY <1>1, OwnFacts DEF Typed
<1>8. ser[c] \in AllSerializations
  BY <1>1 DEF Typed
<1>9. CASE Issue(c, l) /\ UNCHANGED status
  <2>1. l \in Drafts /\ l.lo = lo /\ l.hi = hi /\ l.next = lo
    BY <1>5, <1>8 DEF Drafts
  <2> HIDE DEF l
  <2>2. Issued(c, l)
    BY <1>5, <1>8, <1>9, <2>1, IssueFacts
  <2>3. Own(status, status', c) /\ status'[c] = status[c]
    BY <1>9, OwnFacts DEF Typed
  <2>4. TypedAt(c)'
    BY <1>1, <1>3, <1>4, <1>5, <2>2, <2>3, IssuedTyped DEF TypedAt, Typed
  <2> QED BY <1>1, <1>3, <1>4, <1>5, <1>6, <1>7, <2>1, <2>2, <2>3, <2>4, IssuedTyped DEF OwnStep
<1>10. CASE Raise(c)
  <2>1. Raised(c)
    BY <1>10, RaiseFacts
  <2>2. Own(inq, inq', c)
    BY <2>1, OwnFacts DEF Typed, Raised
  <2>3. TypedAt(c)'
    BY <1>1, <1>3, <1>4, <1>5, <2>1, PlainCalls DEF TypedAt, Typed, Raised
  <2> QED BY <1>1, <1>3, <1>4, <1>6, <1>7, <2>1, <2>2, <2>3 DEF OwnStep, Raised
<1> QED BY <1>2, <1>9, <1>10

LEMMA CloseFacts ==
  ASSUME Typed, NEW c \in Fds, Close(c)
  PROVE  OwnStep(c) /\ TypedAt(c)' /\ status'[c] = "down" /\ call'[c] = Idle
         /\ wbuf'[c] = wbuf[c] /\ seen'[c] = seen[c]
<1>1. /\ status' = [status EXCEPT ![c] = "down"] /\ call' = [call EXCEPT ![c] = Idle]
      /\ UNCHANGED <<broker_vars, kind, inq, wbuf, ser, nvars, ncalls, seen>>
  BY DEF Close
<1>2. Own(status, status', c) /\ status'[c] = "down"
  BY <1>1, OwnFacts DEF Typed
<1>3. Own(call, call', c) /\ call'[c] = Idle
  BY <1>1, OwnFacts DEF Typed
<1>4. Own(inq, inq', c) /\ Own(wbuf, wbuf', c)
  BY <1>1, OwnFacts DEF Typed
<1>5. Own(ser, ser', c) /\ Own(nvars, nvars', c)
  BY <1>1, OwnFacts DEF Typed
<1>6. Own(ncalls, ncalls', c) /\ Own(seen, seen', c)
  BY <1>1, OwnFacts DEF Typed
<1>7. TypedAt(c)'
  BY <1>1, <1>2, <1>3, PlainCalls DEF TypedAt, Typed
<1> QED BY <1>1, <1>2, <1>3, <1>4, <1>5, <1>6, <1>7 DEF OwnStep

LEMMA AcceptsHandshake ==
  ASSUME NEW c \in Fds, NEW r, call[c].op = "handshake"
  PROVE  /\ Accepts(c, r) => IsNotice(r)
         /\ ~JavaScript(c) => (Accepts(c, r) <=> r.reply = "registered")
BY DEF Accepts, IsNotice

(* The ways in which a call goes on after an answer.                       *)
Ended(c) == call[c].pending = 1 /\ call'[c] = Idle /\ inq'[c] = inq[c] /\ status'[c] = status[c]

SyncsAgain(c) ==
  /\ call[c].op = "sync" /\ call'[c].op = "sync" /\ status'[c] = status[c]
  /\ \E q \in Commands : q.cmd = "sync" /\ inq'[c] = inq[c] \o <<q>>

SendsAgain(c) ==
  /\ call[c] \in Batches /\ call[c].pending = 1 /\ status'[c] = status[c]
  /\ \E l \in Drafts : /\ Issued(c, l)
                       /\ l.op = call[c].op /\ l.lo = call[c].lo /\ l.hi = call[c].hi

CountsDown(c) ==
  /\ call[c] \in Batches /\ call[c].pending # 1
  /\ call'[c] = [call[c] EXCEPT !.pending = call[c].pending - 1]
  /\ inq'[c] = inq[c] /\ status'[c] = status[c]

AnswerTaken(c) == Raised(c) \/ Ended(c) \/ SyncsAgain(c) \/ SendsAgain(c) \/ CountsDown(c)

OwnCall(c) ==
  /\ Own(call, call', c) /\ call'[c] \in Calls
  /\ Own(inq, inq', c) /\ inq'[c] \in Seq(Commands)
  /\ Own(status, status', c) /\ status'[c] \in {status[c], "down"}

LEMMA IdleFacts ==
  ASSUME Typed, NEW c \in Fds, call[c].pending = 1,
         call' = [call EXCEPT ![c] = Idle], UNCHANGED <<status, inq>>
  PROVE  Ended(c) /\ OwnCall(c)
<1>1. Own(call, call', c) /\ call'[c] = Idle
  BY OwnFacts DEF Typed
<1>2. Own(inq, inq', c)
  BY OwnFacts DEF Typed
<1>3. Own(status, status', c)
  BY OwnFacts DEF Typed
<1> QED BY <1>1, <1>2, <1>3, PlainCalls DEF Ended, OwnCall, Typed

LEMMA RaisedCall ==
  ASSUME Typed, NEW c \in Fds, Raised(c)
  PROVE  AnswerTaken(c) /\ OwnCall(c)
<1>1. Own(inq, inq', c)
  BY OwnFacts DEF Typed, Raised
<1> QED BY <1>1, PlainCalls DEF AnswerTaken, OwnCall, Raised, Typed

LEMMA IssuedCall ==
  ASSUME Typed, NEW c \in Fds, Ready(c), call[c] \in Batches, call[c].pending = 1,
         NEW l \in Drafts, Issue(c, l), UNCHANGED status,
         l.op = call[c].op, l.lo = call[c].lo, l.hi = call[c].hi, l.lo <= l.next, l.next <= l.hi
  PROVE  AnswerTaken(c) /\ OwnCall(c)
<1>1. ser[c] \in AllSerializations
  BY CallFields DEF Ready, Typed, Batches
<1>2. Issued(c, l)
  BY <1>1, IssueFacts
<1>3. Own(status, status', c)
  BY OwnFacts DEF Typed
<1> QED BY <1>2, <1>3, IssuedTyped DEF AnswerTaken, SendsAgain, OwnCall

LEMMA SyncForFacts ==
  ASSUME Typed, NEW c \in Fds, call[c].op = "sync", NEW n \in Int, SyncFor(c, n, TRUE), UNCHANGED status
  PROVE  AnswerTaken(c) /\ OwnCall(c)
<1> DEFINE k == [op |-> "sync", pending |-> 1, n |-> n, skipped |-> 0, nested |-> TRUE]
           q == [cmd |-> "sync", n |-> n]
<1>1. k \in Calls /\ k.op = "sync"
  BY DEF Calls
<1>2. q \in Commands /\ q.cmd = "sync"
  BY CommandTypes
<1>3. call' = [call EXCEPT ![c] = k] /\ inq' = [inq EXCEPT ![c] = inq[c] \o <<q>>]
  BY DEF SyncFor, Transmit
<1> HIDE DEF k, q
<1>4. Own(call, call', c) /\ call'[c] = k
  BY <1>3, OwnFacts DEF Typed
<1>5. Own(inq, inq', c) /\ inq'[c] = inq[c] \o <<q>>
  BY <1>3, OwnFacts DEF Typed
<1>6. inq'[c] \in Seq(Commands)
  <2>1. inq[c] \in Seq(Commands)
    BY DEF Typed
  <2> QED BY <1>2, <1>5, <2>1
<1>7. Own(status, status', c)
  BY OwnFacts DEF Typed
<1> QED BY <1>1, <1>2, <1>4, <1>5, <1>6, <1>7 DEF AnswerTaken, SyncsAgain, OwnCall

LEMMA AnswerFacts ==
  ASSUME Typed, NEW c \in Fds, Ready(c), call[c] # Idle, NEW r \in Reply, ReadAnswer(c, r)
  PROVE  AnswerTaken(c) /\ OwnCall(c)
<1> DEFINE k == call[c]
<1>0. k \in Calls
  BY DEF Typed
<1>1. CASE Raise(c)
  BY <1>1, RaiseFacts, RaisedCall
<1>2. CASE k.op = "sync" /\ EndSync(c, k)
  <2>1. k.skipped \in Int /\ k.pending = 1
    BY <1>0, <1>2, CallFields
  <2>2. CASE SyncFor(c, k.skipped, TRUE) /\ UNCHANGED status
    BY <1>2, <2>1, <2>2, SyncForFacts
  <2>3. CASE call' = [call EXCEPT ![c] = Idle] /\ UNCHANGED <<status, inq>>
    BY <2>1, <2>3, IdleFacts DEF AnswerTaken
  <2> QED BY <1>1, <1>2, <2>2, <2>3 DEF EndSync
<1>3. CASE k.op \in {"send", "broadcast"} /\ k.pending = 1 /\ EndBatch(c, k)
  <2>1. k \in Batches /\ k \in Drafts
    BY <1>0, <1>3, CallFields, BatchFields
  <2>2. k.lo <= k.hi /\ k.lo <= k.next /\ ser[c] # NoSerialization
    BY <1>3, <2>1 DEF Ready
  <2>3. CASE Issue(c, [k EXCEPT !.began = ser[c], !.next = k.lo]) /\ UNCHANGED status
    <3> DEFINE l == [k EXCEPT !.began = ser[c], !.next = k.lo]
    <3>1. ser[c] \in AllSerializations
      BY <2>2 DEF Typed
    <3>2. l \in Drafts /\ l.op = k.op /\ l.lo = k.lo /\ l.hi = k.hi /\ l.next = k.lo
      BY <2>1, <3>1, Redrafted
    <3>3. k.lo \in Nat
      BY <2>1, DraftFields
    <3> HIDE DEF l
    <3>4. Issue(c, l)
      BY <2>3 DEF l
    <3> QED BY <1>3, <2>1, <2>2, <2>3, <3>2, <3>3, <3>4, IssuedCall
  <2>4. CASE k.next <= k.hi /\ Issue(c, k) /\ UNCHANGED status
    BY <1>3, <2>1, <2>2, <2>4, IssuedCall
  <2>5. CASE call' = [call EXCEPT ![c] = Idle] /\ UNCHANGED <<status, inq>>
    BY <1>3, <2>5, IdleFacts DEF AnswerTaken
  <2> QED BY <1>1, <1>3, <2>3, <2>4, <2>5 DEF EndBatch
<1>4. CASE /\ k.op # "sync" /\ ~(k.op \in {"send", "broadcast"} /\ k.pending = 1)
           /\ call' = [call EXCEPT ![c] = IF k.pending = 1 THEN Idle ELSE [k EXCEPT !.pending = k.pending - 1]]
           /\ UNCHANGED <<status, inq>>
  <2>1. CASE k.pending = 1
    BY <1>4, <2>1, IdleFacts DEF AnswerTaken
  <2>2. CASE k.pending # 1
    <3> DEFINE l == [k EXCEPT !.pending = k.pending - 1]
    <3>1. k \in Batches
      BY <1>0, <2>2, CallFields
    <3>2. l \in Calls
      BY <2>2, <3>1, BatchFields DEF Calls
    <3>3. call' = [call EXCEPT ![c] = l]
      BY <1>4, <2>2
    <3> HIDE DEF l
    <3>4. Own(call, call', c) /\ call'[c] = l
      BY <3>3, OwnFacts DEF Typed
    <3>5. Own(inq, inq', c)
      BY <1>4, OwnFacts DEF Typed
    <3>6. Own(status, status', c)
      BY <1>4, OwnFacts DEF Typed
    <3>7. CountsDown(c)
      BY <1>4, <2>2, <3>1, <3>4 DEF CountsDown, l
    <3> QED BY <1>4, <3>2, <3>4, <3>5, <3>6, <3>7 DEF AnswerTaken, OwnCall, Typed
  <2> QED BY <2>1, <2>2
<1> QED BY <1>1, <1>2, <1>3, <1>4 DEF ReadAnswer

MetaRead(c, r) ==
  /\ IsMeta(c, r) /\ ser'[c] = r.serialization
  /\ call'[c] = call[c] /\ inq'[c] = inq[c] /\ status'[c] = status[c] /\ seen'[c] = seen[c]

DataRead(c, r) ==
  /\ r.reply = "data" /\ call[c].op = "sync" /\ call'[c].op = "sync"
  /\ ser'[c] = ser[c] /\ inq'[c] = inq[c] /\ status'[c] = status[c]
  /\ seen'[c] = seen[c] \cup {r.body}

AnswerRead(c, r) ==
  /\ ~IsMeta(c, r) /\ ~(r.reply = "data" /\ call[c].op = "sync")
  /\ AnswerTaken(c)
  /\ ser'[c] = IF call[c].op = "handshake" /\ Accepts(c, r) THEN r.serialization ELSE ser[c]
  /\ seen'[c] = seen[c]

LEMMA ReceiveFacts ==
  ASSUME AnyInput, Typed, NEW c \in Fds, Ready(c), Receive(c)
  PROVE  /\ OwnStep(c) /\ TypedAt(c)'
         /\ Up(c) /\ call[c] # Idle /\ wbuf[c] # <<>> /\ wbuf'[c] = Tail(wbuf[c])
         /\ LET r == Head(wbuf[c]) IN
            r \in Reply /\ (MetaRead(c, r) \/ DataRead(c, r) \/ AnswerRead(c, r))
<1> DEFINE r == Head(wbuf[c])
<1>1. /\ Up(c) /\ call[c] # Idle /\ wbuf[c] # <<>>
      /\ wbuf' = [wbuf EXCEPT ![c] = Tail(wbuf[c])]
      /\ UNCHANGED <<broker_vars, kind, nvars, ncalls>>
  BY DEF Receive
<1>2. ReadMeta(c, r) \/ ReadData(c, r) \/ ReadAnswer(c, r)
  BY DEF Receive
<1>3. wbuf[c] \in Seq(Reply) /\ call[c] \in Calls
  BY DEF Typed
<1>4. r \in Reply /\ Tail(wbuf[c]) \in Seq(Reply)
  BY <1>1, <1>3
<1> HIDE DEF r
<1>5. Own(wbuf, wbuf', c) /\ wbuf'[c] = Tail(wbuf[c])
  BY <1>1, OwnFacts DEF Typed
<1>6. Own(nvars, nvars', c) /\ Own(ncalls, ncalls', c)
  BY <1>1, OwnFacts DEF Typed
<1> DEFINE Rest == /\ Own(ser, ser', c) /\ ser'[c] \in AllSerializations \cup {NoSerialization}
                   /\ Own(seen, seen', c) /\ seen'[c] \in SUBSET (Copies \cup {NoBody})
                   /\ OwnCall(c)
<1>7. ASSUME Rest PROVE OwnStep(c) /\ TypedAt(c)'
  <2>1. OwnStep(c)
    BY <1>1, <1>5, <1>6, <1>7 DEF OwnStep, OwnCall
  <2>2. TypedAt(c)'
    BY <1>1, <1>4, <1>5, <1>7 DEF TypedAt, Typed, OwnCall
  <2> QED BY <2>1, <2>2
<1>8. CASE ReadMeta(c, r)
  <2>1. /\ IsMeta(c, r) /\ ser' = [ser EXCEPT ![c] = r.serialization]
        /\ UNCHANGED <<status, inq, call, seen>>
    BY <1>8 DEF ReadMeta
  <2>2. Own(ser, ser', c) /\ ser'[c] = r.serialization
    BY <2>1, OwnFacts DEF Typed
  <2>3. r.serialization \in AllSerializations
    BY <1>4, <2>1, ReplyFields DEF IsMeta, IsNotice
  <2>4. Own(seen, seen', c) /\ Own(call, call', c)
    BY <2>1, OwnFacts DEF Typed
  <2>5. Own(inq, inq', c) /\ Own(status, status', c)
    BY <2>1, OwnFacts DEF Typed
  <2>6. Rest
    BY <2>1, <2>2, <2>3, <2>4, <2>5 DEF OwnCall, Typed
  <2>7. MetaRead(c, r)
    BY <2>1, <2>2 DEF MetaRead
  <2> QED BY <1>1, <1>4, <1>5, <1>7, <2>6, <2>7 DEF r
<1>9. CASE ReadData(c, r)
  <2> DEFINE k == call[c]
             l == [k EXCEPT !.skipped = IF r.body.ser \in Understands(c) THEN k.skipped ELSE k.skipped + 1]
  <2>1. /\ r.reply = "data" /\ call[c].op = "sync"
        /\ seen' = [seen EXCEPT ![c] = seen[c] \cup {r.body}]
        /\ UNCHANGED <<status, inq, ser>>
    BY <1>9 DEF ReadData
  <2>2. call' = [call EXCEPT ![c] = l]
    BY <1>9, Zenon DEF ReadData
  <2>3. k \in [op : {"sync"}, pending : {1}, n : Int, skipped : Nat, nested : BOOLEAN]
    BY <1>3, <2>1, CallFields
  <2>4. l \in Calls /\ l.op = "sync"
    <3> HIDE DEF k
    <3>1. \A x \in Nat : [k EXCEPT !.skipped = x] \in Calls /\ [k EXCEPT !.skipped = x].op = "sync"
      BY <2>3 DEF Calls
    <3>2. (IF r.body.ser \in Understands(c) THEN k.skipped ELSE k.skipped + 1) \in Nat
      BY <2>3
    <3> QED BY <3>1, <3>2
  <2> HIDE DEF l, k
  <2>5. Own(call, call', c) /\ call'[c] = l
    BY <2>2, OwnFacts DEF Typed
  <2>6. Own(seen, seen', c) /\ seen'[c] = seen[c] \cup {r.body}
    BY <2>1, OwnFacts DEF Typed
  <2>7. seen[c] \cup {r.body} \in SUBSET (Copies \cup {NoBody})
    <3>1. r.body \in Copies \cup {NoBody}
      BY <1>4, <2>1, ReplyFields DEF AnyInput
    <3>2. seen[c] \in SUBSET (Copies \cup {NoBody})
      BY DEF Typed
    <3> QED BY <3>1, <3>2
  <2>8. Own(inq, inq', c) /\ Own(status, status', c)
    BY <2>1, OwnFacts DEF Typed
  <2>9. Own(ser, ser', c)
    BY <2>1, OwnFacts DEF Typed
  <2>10. Rest
    BY <2>1, <2>4, <2>5, <2>6, <2>7, <2>8, <2>9 DEF OwnCall, Typed
  <2>11. DataRead(c, r)
    BY <2>1, <2>4, <2>5, <2>6 DEF DataRead
  <2> QED BY <1>1, <1>4, <1>5, <1>7, <2>10, <2>11 DEF r
<1>10. CASE ReadAnswer(c, r)
  <2>1. AnswerTaken(c) /\ OwnCall(c)
    BY <1>1, <1>4, <1>10, AnswerFacts
  <2>2. /\ ~IsMeta(c, r) /\ ~(r.reply = "data" /\ call[c].op = "sync")
        /\ ser' = IF call[c].op = "handshake" /\ Accepts(c, r)
                  THEN [ser EXCEPT ![c] = r.serialization] ELSE ser
        /\ UNCHANGED seen
    BY <1>10 DEF ReadAnswer
  <2>3. /\ Own(ser, ser', c)
        /\ ser'[c] = IF call[c].op = "handshake" /\ Accepts(c, r) THEN r.serialization ELSE ser[c]
    BY <2>2, OwnFacts DEF Typed
  <2>4. ser'[c] \in AllSerializations \cup {NoSerialization}
    BY <1>4, <2>3, AcceptsHandshake, ReplyFields DEF Typed
  <2>5. Own(seen, seen', c)
    BY <2>2, OwnFacts DEF Typed
  <2>6. Rest
    BY <2>1, <2>2, <2>3, <2>4, <2>5 DEF Typed
  <2>7. AnswerRead(c, r)
    BY <2>1, <2>2, <2>3 DEF AnswerRead
  <2> QED BY <1>1, <1>4, <1>5, <1>7, <2>6, <2>7 DEF r
<1> QED BY <1>2, <1>8, <1>9, <1>10

-----------------------------------------------------------------------------
(* The composed system takes the broker's steps.                           *)
ClientStep(c) ==
  \/ Open(c)
  \/ AskServer(c)
  \/ \E n \in SyncLimits : StartSync(c, n)
  \/ \E n \in Names, k \in VarCounts : StartSend(c, "send", n, k)
  \/ \E k \in VarCounts : StartSend(c, "broadcast", Everyone, k)
  \/ Close(c)
  \/ Receive(c)

LEMMA SessionSteps ==
  ASSUME [SessionNext]_all_vars
  PROVE  \/ \E c \in Fds : ClientStep(c) \/ ServerAccept(c) \/ Serve(c) \/ Hangup(c)
         \/ UNCHANGED all_vars
BY DEF SessionNext, ClientStep, Quiescent

(* A call of join, leave, wait, devices or sync.                           *)
LEMMA AskFacts ==
  ASSUME Typed, NEW c \in Fds, AskServer(c) \/ \E n \in SyncLimits : StartSync(c, n)
  PROVE  /\ OwnStep(c) /\ TypedAt(c)'
         /\ call[c] = Idle /\ ser[c] # NoSerialization /\ Up(c)
         /\ status'[c] = status[c] /\ ser'[c] = ser[c] /\ wbuf'[c] = wbuf[c] /\ seen'[c] = seen[c]
         /\ call'[c] \notin Batches /\ call'[c].op \notin {"none", "handshake"} /\ call'[c].pending = 1
         /\ \E q \in Commands : q.cmd = call'[c].op /\ inq'[c] = inq[c] \o <<q>>
<1>1. ASSUME NEW op, NEW q \in Commands, q.cmd = op, op \in {"join", "leave", "wait", "devices"},
             Request(c, op, q)
      PROVE  /\ OwnStep(c) /\ TypedAt(c)'
             /\ call[c] = Idle /\ ser[c] # NoSerialization /\ Up(c)
             /\ call'[c] = Ask(op) /\ inq'[c] = inq[c] \o <<q>>
             /\ status'[c] = status[c] /\ ser'[c] = ser[c] /\ wbuf'[c] = wbuf[c] /\ seen'[c] = seen[c]
  <2>1. Ask(op) \in Calls /\ Ask(op).op = op /\ Ask(op).pending = 1 /\ Ask(op) \notin Batches
    BY <1>1, PlainCalls, CallFields
  <2>2. /\ CanCall(c, op) /\ call' = [call EXCEPT ![c] = Ask(op)] /\ Transmit(c, <<q>>)
        /\ ncalls' = [ncalls EXCEPT ![c] = ncalls[c] + 1]
        /\ UNCHANGED <<broker_vars, kind, status, wbuf, ser, nvars, seen>>
    BY <1>1 DEF Request
  <2> QED BY <1>1, <2>1, <2>2, RequestFacts
<1>2. ASSUME NEW op \in {"join", "leave", "wait", "devices"}
      PROVE  Ask(op).op = op /\ Ask(op).pending = 1 /\ Ask(op) \notin Batches
  BY PlainCalls, CallFields
<1>3. CASE \E op \in {"join", "leave"}, n \in Names : Request(c, op, [cmd |-> op, name |-> n])
  <2>1. PICK op \in {"join", "leave"}, n \in Names : Request(c, op, [cmd |-> op, name |-> n])
    BY <1>3
  <2>2. [cmd |-> op, name |-> n] \in Commands /\ [cmd |-> op, name |-> n].cmd = op
    BY CommandTypes
  <2>3. Ask(op).op = op /\ Ask(op).pending = 1 /\ Ask(op) \notin Batches /\ op \notin {"none", "handshake"}
    BY <1>2
  <2>4. PICK q \in Commands : q.cmd = op /\ Request(c, op, q)
    BY <2>1, <2>2
  <2>5. op \in {"join", "leave", "wait", "devices"}
    OBVIOUS
  <2>6. /\ OwnStep(c) /\ TypedAt(c)'
        /\ call[c] = Idle /\ ser[c] # NoSerialization /\ Up(c)
        /\ call'[c] = Ask(op) /\ inq'[c] = inq[c] \o <<q>>
        /\ status'[c] = status[c] /\ ser'[c] = ser[c] /\ wbuf'[c] = wbuf[c] /\ seen'[c] = seen[c]
    BY <1>1, <2>4, <2>5
  <2>7. \E r \in Commands : r.cmd = call'[c].op /\ inq'[c] = inq[c] \o <<r>>
    BY <2>3, <2>4, <2>6
  <2> QED BY <2>3, <2>6, <2>7
<1>4. CASE \E op \in {"wait", "devices"} : Request(c, op, [cmd |-> op])
  <2>1. PICK op \in {"wait", "devices"} : Request(c, op, [cmd |-> op])
    BY <1>4
  <2>2. [cmd |-> op] \in Commands /\ [cmd |-> op].cmd = op
    BY CommandTypes
  <2>3. Ask(op).op = op /\ Ask(op).pending = 1 /\ Ask(op) \notin Batches /\ op \notin {"none", "handshake"}
    BY <1>2
  <2>4. PICK q \in Commands : q.cmd = op /\ Request(c, op, q)
    BY <2>1, <2>2
  <2>5. op \in {"join", "leave", "wait", "devices"}
    OBVIOUS
  <2>6. /\ OwnStep(c) /\ TypedAt(c)'
        /\ call[c] = Idle /\ ser[c] # NoSerialization /\ Up(c)
        /\ call'[c] = Ask(op) /\ inq'[c] = inq[c] \o <<q>>
        /\ status'[c] = status[c] /\ ser'[c] = ser[c] /\ wbuf'[c] = wbuf[c] /\ seen'[c] = seen[c]
    BY <1>1, <2>4, <2>5
  <2>7. \E r \in Commands : r.cmd = call'[c].op /\ inq'[c] = inq[c] \o <<r>>
    BY <2>3, <2>4, <2>6
  <2> QED BY <2>3, <2>6, <2>7
<1>5. ASSUME NEW n \in SyncLimits, StartSync(c, n)
      PROVE  /\ OwnStep(c) /\ TypedAt(c)'
             /\ call[c] = Idle /\ ser[c] # NoSerialization /\ Up(c)
             /\ status'[c] = status[c] /\ ser'[c] = ser[c] /\ wbuf'[c] = wbuf[c] /\ seen'[c] = seen[c]
             /\ call'[c] \notin Batches /\ call'[c].op \notin {"none", "handshake"} /\ call'[c].pending = 1
             /\ \E q \in Commands : q.cmd = call'[c].op /\ inq'[c] = inq[c] \o <<q>>
  <2> DEFINE k == [op |-> "sync", pending |-> 1, n |-> n, skipped |-> 0, nested |-> FALSE]
             q == [cmd |-> "sync", n |-> n]
  <2>1. k \in Calls /\ k.op = "sync" /\ k.pending = 1 /\ k \notin Batches
    BY CallFields DEF Calls
  <2>2. q \in Commands /\ q.cmd = "sync"
    BY CommandTypes
  <2>3. /\ CanCall(c, "sync") /\ call' = [call EXCEPT ![c] = k] /\ Transmit(c, <<q>>)
        /\ ncalls' = [ncalls EXCEPT ![c] = ncalls[c] + 1]
        /\ UNCHANGED <<broker_vars, kind, status, wbuf, ser, nvars, seen>>
    BY <1>5 DEF StartSync, SyncFor
  <2> HIDE DEF k, q
  <2>4. /\ OwnStep(c) /\ TypedAt(c)'
        /\ call[c] = Idle /\ ser[c] # NoSerialization /\ Up(c)
        /\ call'[c] = k /\ inq'[c] = inq[c] \o <<q>>
        /\ status'[c] = status[c] /\ ser'[c] = ser[c] /\ wbuf'[c] = wbuf[c] /\ seen'[c] = seen[c]
    BY <2>1, <2>2, <2>3, RequestFacts, Zenon
  <2> QED BY <2>1, <2>2, <2>4
<1> QED BY <1>3, <1>4, <1>5 DEF AskServer

LEMMA ClientKeepsReady ==
  ASSUME AnyInput, Typed, NEW c \in Fds, Ready(c), ClientStep(c)
  PROVE  OwnStep(c) /\ TypedAt(c)' /\ Ready(c)'
<1>i. Idle \notin Batches /\ Idle.op = "none"
  BY DEF Idle, Batches
<1>t. NoSerialization \notin AllSerializations
  BY DEF NoSerialization, AllSerializations
<1>r. ASSUME Raised(c) PROVE Ready(c)'
  BY <1>i, <1>r DEF Raised, Ready
<1>1. CASE Open(c)
  <2>1. Ask("handshake") \notin Batches /\ Ask("handshake").op = "handshake"
    BY PlainCalls, CallFields
  <2> QED BY <1>1, <2>1, OpenFacts DEF Ready
<1>2. CASE AskServer(c) \/ \E n \in SyncLimits : StartSync(c, n)
  BY <1>2, AskFacts DEF Ready
<1>3. ASSUME NEW op, NEW to, NEW k \in VarCounts, StartSend(c, op, to, k),
             \/ op = "send" /\ to \in Names
             \/ op = "broadcast" /\ to = Everyone
      PROVE  OwnStep(c) /\ TypedAt(c)' /\ Ready(c)'
  <2>1. ASSUME NEW l \in Drafts, Issued(c, l), l.lo <= l.hi, k = 1 => l.lo = l.hi, ser'[c] # NoSerialization
        PROVE  Ready(c)'
    <3>1. SafeCatch /\ CatchErrors => k = 1
      BY DEF SafeCatch
    <3> QED BY <2>1, <3>1 DEF Issued, Ready, SafeCatch
  <2>2. /\ OwnStep(c) /\ TypedAt(c)' /\ ser'[c] # NoSerialization
        /\ \/ \E l \in Drafts : Issued(c, l) /\ l.lo <= l.hi /\ (k = 1 => l.lo = l.hi)
           \/ Raised(c)
    BY <1>3, StartSendFacts
  <2> QED BY <1>r, <2>1, <2>2
<1>4. CASE Close(c)
  BY <1>4, <1>i, CloseFacts DEF Ready
<1>5. CASE Receive(c)
  <2> DEFINE r == Head(wbuf[c])
  <2>1. OwnStep(c) /\ TypedAt(c)' /\ r \in Reply /\ call[c] # Idle
        /\ (MetaRead(c, r) \/ DataRead(c, r) \/ AnswerRead(c, r))
    BY <1>5, ReceiveFacts
  <2>0. call[c] \in Calls
    BY DEF Typed
  <2> HIDE DEF r
  <2>2. CASE MetaRead(c, r)
    <3>1. ser'[c] \in AllSerializations
      BY <2>1, <2>2, ReplyFields DEF MetaRead, IsMeta, IsNotice
    <3> QED BY <1>t, <2>1, <2>2, <3>1 DEF MetaRead, Ready
  <2>3. CASE DataRead(c, r)
    <3>1. call'[c] \notin Batches
      BY <2>3 DEF DataRead, Batches
    <3> QED BY <2>1, <2>3, <3>1 DEF DataRead, Ready
  <2>4. CASE AnswerRead(c, r)
    <3>0. call[c].op # "handshake" => ser'[c] = ser[c]
      BY <2>4 DEF AnswerRead
    <3>1. CASE Raised(c)
      BY <1>r, <2>1, <3>1
    <3>2. CASE Ended(c)
      BY <1>i, <2>1, <3>2 DEF Ended, Ready
    <3>3. CASE SyncsAgain(c)
      <4>1. call'[c] \notin Batches
        BY <3>3 DEF SyncsAgain, Batches
      <4> QED BY <2>1, <3>0, <3>3, <4>1 DEF SyncsAgain, Ready
    <3>4. CASE SendsAgain(c)
      <4>1. call[c].op \in {"send", "broadcast"} /\ call[c] \in Batches
        BY <2>0, <3>4, CallFields DEF SendsAgain
      <4>2. ser'[c] # NoSerialization
        BY <3>0, <4>1 DEF Ready
      <4>3. PICK l \in Drafts : Issued(c, l) /\ l.lo = call[c].lo /\ l.hi = call[c].hi
        BY <3>4 DEF SendsAgain
      <4>4. l.lo <= l.hi /\ (SafeCatch /\ CatchErrors => l.lo = l.hi)
        BY <4>1, <4>3 DEF Ready
      <4> QED BY <2>1, <4>2, <4>3, <4>4 DEF Issued, Ready
    <3>5. CASE CountsDown(c)
      <4>1. call[c].op \in {"send", "broadcast"} /\ call[c] \in Batches /\ call[c].pending # 1
        BY <2>0, <3>5, CallFields DEF CountsDown
      <4>2. ser'[c] # NoSerialization /\ ~(SafeCatch /\ CatchErrors)
        BY <3>0, <4>1 DEF Ready
      <4>3. /\ call'[c].lo = call[c].lo /\ call'[c].hi = call[c].hi /\ call'[c].next = call[c].next
        BY <3>5, <4>1, BatchFields DEF CountsDown
      <4> QED BY <2>1, <4>1, <4>2, <4>3 DEF Ready
    <3> QED BY <2>4, <3>1, <3>2, <3>3, <3>4, <3>5 DEF AnswerRead, AnswerTaken
  <2> QED BY <2>1, <2>2, <2>3, <2>4
<1> QED BY <1>1, <1>2, <1>3, <1>4, <1>5 DEF ClientStep

LEMMA DispatchIsNext ==
  ASSUME AnyInput, NEW c \in Fds, NEW q \in Commands, Dispatch(c, q)
  PROVE  Next
<1>1. CASE q.cmd = "handshake" /\ Handshake(c, q.serialization)
  BY <1>1, CommandFields DEF Next, AnyInput
<1>2. CASE q.cmd = "join" /\ Join(c, <<q.name>>)
  <2>1. <<q.name>> \in NameLists
    BY <1>2, CommandFields DEF AnyInput
  <2> QED BY <1>2, <2>1 DEF Next
<1>3. CASE q.cmd = "leave" /\ Leave(c, <<q.name>>)
  <2>1. <<q.name>> \in NameLists
    BY <1>3, CommandFields DEF AnyInput
  <2> QED BY <1>3, <2>1 DEF Next
<1>4. CASE q.cmd = "send" /\ Send(c, q.name, q.body)
  <2>1. q.name \in Names /\ q.body \in Payloads
    BY <1>4, CommandFields DEF AnyInput
  <2> QED BY <1>4, <2>1 DEF Next
<1>5. CASE q.cmd = "broadcast" /\ Broadcast(c, q.body)
  <2>1. q.body \in Payloads
    BY <1>5, CommandFields DEF AnyInput
  <2> QED BY <1>5, <2>1 DEF Next
<1>6. CASE q.cmd = "sync" /\ Sync(c, q.n)
  <2>1. q.n \in SyncLimits
    BY <1>6, CommandFields DEF AnyInput
  <2> QED BY <1>6, <2>1 DEF Next
<1>7. CASE Wait(c) \/ ListDevices(c)
  BY <1>7 DEF Next
<1> QED BY <1>1, <1>2, <1>3, <1>4, <1>5, <1>6, <1>7 DEF Dispatch

LEMMA HeadCommand ==
  ASSUME Typed, NEW c \in Fds, inq[c] # <<>>
  PROVE  /\ Head(inq[c]) \in Commands /\ Tail(inq[c]) \in Seq(Commands)
         /\ Len(Tail(inq[c])) = Len(inq[c]) - 1 /\ Len(inq[c]) \in Nat \ {0}
         /\ Head(inq[c]) = inq[c][1] /\ 1 \in DOMAIN inq[c]
         /\ \A i \in DOMAIN Tail(inq[c]) : i + 1 \in DOMAIN inq[c] /\ Tail(inq[c])[i] = inq[c][i + 1]
<1>1. inq[c] \in Seq(Commands)
  BY DEF Typed
<1> QED BY <1>1

LEMMA FlushType ==
  ASSUME Typed, TypeOK', Flush
  PROVE  wbuf' \in [Fds -> Seq(Reply)]
<1>1. ASSUME NEW d \in Fds PROVE wbuf[d] \o out'[d] \in Seq(Reply)
  <2>1. wbuf[d] \in Seq(Reply) /\ out'[d] \in Seq(Reply)
    BY DEF Typed, TypeOK
  <2> QED BY <2>1
<1> QED BY <1>1 DEF Flush

LEMMA SessionKeepsTypes ==
  ASSUME AnyInput, TypeOK, Typed, \A c \in Fds : Ready(c), [SessionNext]_all_vars
  PROVE  [Next]_vars /\ TypeOK' /\ Typed' /\ (\A c \in Fds : Ready(c))'
<1>1. ASSUME UNCHANGED vars PROVE [Next]_vars /\ TypeOK'
  <2>1. [Next]_vars
    BY <1>1
  <2> QED BY <2>1, NextKeepsType
<1>2. ASSUME Next PROVE [Next]_vars /\ TypeOK'
  <2>1. [Next]_vars
    BY <1>2
  <2> QED BY <2>1, NextKeepsType
<1>3. ASSUME NEW c \in Fds, ClientStep(c)
      PROVE  [Next]_vars /\ TypeOK' /\ Typed' /\ (\A d \in Fds : Ready(d))'
  <2>1. OwnStep(c) /\ TypedAt(c)' /\ Ready(c)'
    BY <1>3, ClientKeepsReady
  <2>2. UNCHANGED vars
    BY <2>1 DEF OwnStep, broker_vars
  <2>3. Typed'
    BY <2>1, OwnTyped
  <2>4. ASSUME NEW d \in Fds, d # c PROVE Ready(d)'
    <3>1. Bystander(d)
      BY <2>1, <2>4, OwnOthers
    <3> QED BY <3>1 DEF Bystander, Ready
  <2> QED BY <1>1, <2>1, <2>2, <2>3, <2>4
<1>4. ASSUME UNCHANGED client_vars PROVE (\A d \in Fds : Ready(d))'
  BY <1>4 DEF client_vars, Ready
<1>5. ASSUME NEW c \in Fds, ServerAccept(c)
      PROVE  [Next]_vars /\ TypeOK' /\ Typed' /\ (\A d \in Fds : Ready(d))'
  <2>1. Next
    BY <1>5 DEF ServerAccept, Next
  <2>2. Typed'
    BY <1>5 DEF ServerAccept, Typed, client_vars
  <2> QED BY <1>2, <1>4, <1>5, <2>1, <2>2 DEF ServerAccept
<1>6. ASSUME NEW c \in Fds, Serve(c)
      PROVE  [Next]_vars /\ TypeOK' /\ Typed' /\ (\A d \in Fds : Ready(d))'
  <2>1. /\ inq[c] # <<>> /\ Dispatch(c, Head(inq[c])) /\ inq' = [inq EXCEPT ![c] = Tail(inq[c])]
        /\ Flush /\ UNCHANGED <<status, client_vars>>
    BY <1>6 DEF Serve
  <2>2. Next
    BY <2>1, HeadCommand, DispatchIsNext
  <2>3. wbuf' \in [Fds -> Seq(Reply)]
    BY <1>2, <2>1, <2>2, FlushType
  <2>4. inq' \in [Fds -> Seq(Commands)]
    BY <2>1, HeadCommand DEF Typed
  <2>5. Typed'
    BY <2>1, <2>3, <2>4 DEF Typed, client_vars
  <2> QED BY <1>2, <1>4, <2>1, <2>2, <2>5
<1>7. ASSUME NEW c \in Fds, Hangup(c)
      PROVE  [Next]_vars /\ TypeOK' /\ Typed' /\ (\A d \in Fds : Ready(d))'
  <2>1. /\ Disconnect(c) /\ inq' = [inq EXCEPT ![c] = <<>>]
        /\ Flush /\ UNCHANGED <<status, client_vars>>
    BY <1>7 DEF Hangup
  <2>2. Next
    BY <2>1 DEF Next
  <2>3. wbuf' \in [Fds -> Seq(Reply)]
    BY <1>2, <2>1, <2>2, FlushType
  <2>4. inq' \in [Fds -> Seq(Commands)]
    BY <2>1 DEF Typed
  <2>5. Typed'
    BY <2>1, <2>3, <2>4 DEF Typed, client_vars
  <2> QED BY <1>2, <1>4, <2>1, <2>2, <2>5
<1>8. ASSUME UNCHANGED all_vars
      PROVE  [Next]_vars /\ TypeOK' /\ Typed' /\ (\A d \in Fds : Ready(d))'
  <2>1. Typed'
    BY <1>8 DEF all_vars, client_vars, Typed
  <2> QED BY <1>1, <1>4, <1>8, <2>1 DEF all_vars, broker_vars
<1> QED BY <1>3, <1>5, <1>6, <1>7, <1>8, SessionSteps

LEMMA SessionInitTypes ==
  ASSUME SessionInit
  PROVE  Init /\ TypeOK /\ Typed /\ \A c \in Fds : Ready(c)
<1>1. Init
  BY DEF SessionInit
<1>2. TypeOK
  BY <1>1 DEF Init, TypeOK, Silence, AllSerializations, NoSerialization
<1>3. Typed
  <2>1. <<>> \in Seq(Commands) /\ <<>> \in Seq(Reply) /\ {} \in SUBSET (Copies \cup {NoBody})
    OBVIOUS
  <2>2. 0 \in 0..MaxVars /\ 0 \in 0..MaxCalls
    BY BoundsAssumption
  <2> QED BY <2>1, <2>2, PlainCalls DEF SessionInit, Typed
<1>4. \A c \in Fds : Ready(c)
  BY DEF SessionInit, Ready, Idle, Batches
<1> QED BY <1>1, <1>2, <1>3, <1>4

(* Whatever the clients do, the server of the composed system behaves as   *)
(* the broker of Broker.tla does: dispatch (server.c) calls the handlers   *)
(* with arguments that the broker is prepared for.  What is proved of the  *)
(* broker holds of the composed system.                                    *)
THEOREM SessionImplementsBroker ==
  ASSUME AnyInput
  PROVE  SessionSpec => Spec
<1> DEFINE I == TypeOK /\ Typed /\ \A c \in Fds : Ready(c)
<1>1. SessionInit => Init /\ I
  BY SessionInitTypes
<1>2. I /\ [SessionNext]_all_vars => I' /\ [Next]_vars
  BY SessionKeepsTypes
<1> HIDE DEF I
<1> QED BY <1>1, <1>2, PTL DEF SessionSpec, Spec

-----------------------------------------------------------------------------
(* Client and server in step.                                              *)

(* ViewAgrees for one client.                                              *)
View(c) ==
  c \in conn /\ Up(c) =>
    /\ \A i \in Notices(c) :
         (\A j \in Notices(c) : j <= i) => wbuf[c][i].serialization = serialization
    /\ Notices(c) = {} => ser[c] \in {NoSerialization, serialization}
    /\ serialization = NoSerialization => Notices(c) = {}

Good(c) == Before(c) /\ Talk(c) /\ View(c)

(* The assumptions under which the conversations are proved.               *)
Orderly == AnyInput /\ ~AllocMayFail /\ NoJavaScript /\ SafeCatch

LEMMA AnswersAre ==
  ASSUME NEW c \in Fds
  PROVE  Answers(c) = Ans(wbuf[c]) /\ Answers(c)' = Ans(wbuf'[c])
BY DEF Answers, Ans, IsAnswer

LEMMA BystanderGood ==
  ASSUME NEW d \in Fds, Good(d), Bystander(d), UNCHANGED serialization,
         d \in waiting' <=> d \in waiting, d \in conn' <=> d \in conn
  PROVE  Good(d)'
<1>1. Answers(d)' = Answers(d) /\ Notices(d)' = Notices(d)
  BY DEF Bystander, Answers, Notices, IsAnswer, IsNotice
<1>2. Before(d)'
  BY DEF Good, Before, Bystander
<1>3. Talk(d)'
  BY <1>1 DEF Good, Talk, Up, Bystander
<1>4. View(d)'
  BY <1>1 DEF Good, View, Up, Bystander
<1> QED BY <1>2, <1>3, <1>4 DEF Good

(* What the server appends to a socket, message by message.                *)
LEMMA AppendNotices ==
  ASSUME NEW d \in Fds, wbuf[d] \in Seq(Reply), NEW r \in Reply, wbuf'[d] = wbuf[d] \o <<r>>
  PROVE  LET n == Len(wbuf[d]) + 1 IN
         /\ DOMAIN wbuf'[d] = DOMAIN wbuf[d] \cup {n} /\ n \in Nat
         /\ \A i \in DOMAIN wbuf[d] : wbuf'[d][i] = wbuf[d][i] /\ i < n /\ i \in Nat
         /\ wbuf'[d][n] = r
         /\ Notices(d) \subseteq DOMAIN wbuf[d]
         /\ IsNotice(r) => Notices(d)' = Notices(d) \cup {n}
         /\ ~IsNotice(r) => Notices(d)' = Notices(d)
         /\ Answers(d) \subseteq DOMAIN wbuf[d]
         /\ Cardinality(Answers(d)) \in Nat
         /\ IsAnswer(r) => /\ Answers(d)' = Answers(d) \cup {n}
                           /\ Cardinality(Answers(d)') = Cardinality(Answers(d)) + 1
         /\ ~IsAnswer(r) => Answers(d)' = Answers(d)
<1> DEFINE s == wbuf[d]
           t == s \o <<r>>
           n == Len(s) + 1
<1>1. /\ DOMAIN t = DOMAIN s \cup {n} /\ n \in Nat
      /\ \A i \in DOMAIN s : t[i] = s[i] /\ i < n /\ i \in Nat
      /\ t[n] = r
  OBVIOUS
<1>2. Cardinality(Ans(t)) = Cardinality(Ans(s)) + (IF IsAnswer(r) THEN 1 ELSE 0)
  BY AnsAppend
<1>3. Answers(d) = Ans(s) /\ Answers(d)' = Ans(t)
  BY AnswersAre
<1>4. Cardinality(Ans(s)) \in Nat
  BY AnsFinite
<1>5. wbuf'[d] = t /\ wbuf[d] = s
  OBVIOUS
<1> HIDE DEF s, t, n
<1>6. /\ IsNotice(r) => Notices(d)' = Notices(d) \cup {n}
      /\ ~IsNotice(r) => Notices(d)' = Notices(d)
      /\ Notices(d) \subseteq DOMAIN s
  BY <1>1, <1>5 DEF Notices, IsNotice
<1>7. /\ IsAnswer(r) => Ans(t) = Ans(s) \cup {n}
      /\ ~IsAnswer(r) => Ans(t) = Ans(s)
      /\ Ans(s) \subseteq DOMAIN s
  BY <1>1 DEF Ans
<1>8. IsAnswer(r) => Cardinality(Answers(d)') = Cardinality(Answers(d)) + 1
  BY <1>2, <1>3
<1>9. n = Len(wbuf[d]) + 1
  BY DEF n, s
<1> QED BY <1>1, <1>3, <1>4, <1>5, <1>6, <1>7, <1>8, <1>9

(* A step of the server that handles the command of another client.        *)
LEMMA OverhearerGood ==
  ASSUME TypeOK, TypeOK', MembershipOK, Typed, NEW d \in Fds, Good(d), NEW c \in Fds, d # c,
         Overhears(d), Announced(c), conn' = conn,
         status'[d] = status[d], inq'[d] = inq[d], ser'[d] = ser[d], call'[d] = call[d], seen'[d] = seen[d],
         wbuf'[d] = IF status[d] = "down" THEN <<>> ELSE wbuf[d] \o out'[d]
  PROVE  Good(d)'
<1>0. wbuf[d] \in Seq(Reply)
  BY DEF Typed
<1>1. CASE status[d] = "down"
  BY <1>1 DEF Good, Before, Talk, View, Up
<1>2. CASE status[d] # "down" /\ out'[d] = <<>> /\ (d \in waiting' <=> d \in waiting)
  <2>1. wbuf'[d] = wbuf[d]
    BY <1>0, <1>2
  <2>2. Answers(d)' = Answers(d) /\ Notices(d)' = Notices(d)
    BY <2>1 DEF Answers, Notices, IsAnswer, IsNotice
  <2>3. Before(d)'
    BY <2>1 DEF Good, Before
  <2>4. Talk(d)'
    BY <1>2, <2>1, <2>2 DEF Good, Talk, Up
  <2>5. View(d)'
    <3>1. <<>> # <<Reregister>>
      OBVIOUS
    <3>2. d \in conn => serialization' = serialization \/ serialization = NoSerialization
      BY <1>2, <3>1 DEF Announced
    <3> QED BY <2>1, <2>2, <3>2 DEF Good, View, Up
  <2> QED BY <2>3, <2>4, <2>5 DEF Good
<1>3. CASE status[d] # "down" /\ out'[d] = <<Reregister>> /\ (d \in waiting' <=> d \in waiting) /\ d \in conn
  <2>1. Reregister \in Reply /\ IsNotice(Reregister) /\ ~IsAnswer(Reregister) /\ Reregister.reply = "reregister"
        /\ Reregister.serialization = "dimeb"
    BY ReplyTypes DEF Reregister, IsNotice, IsAnswer
  <2>2. wbuf'[d] = wbuf[d] \o <<Reregister>>
    BY <1>3
  <2> DEFINE n == Len(wbuf[d]) + 1
  <2>3. /\ DOMAIN wbuf'[d] = DOMAIN wbuf[d] \cup {n} /\ wbuf'[d][n] = Reregister
        /\ \A i \in DOMAIN wbuf[d] : wbuf'[d][i] = wbuf[d][i] /\ i < n /\ i \in Nat
        /\ Notices(d)' = Notices(d) \cup {n} /\ Answers(d)' = Answers(d)
    BY <1>0, <2>1, <2>2, AppendNotices
  <2> HIDE DEF n
  <2>4. Before(d)'
    BY <1>3 DEF Good, Before
  <2>5. Talk(d)'
    BY <1>3, <2>1, <2>3 DEF Good, Talk, Up
  <2>6. View(d)'
    <3>1. serialization' = "dimeb"
      BY <1>3 DEF Announced
    <3>2. Notices(d) \subseteq DOMAIN wbuf[d] /\ n \in Nat
      BY <1>0 DEF Notices, n
    <3>3. ASSUME NEW i \in Notices(d)', \A j \in Notices(d)' : j <= i
          PROVE  wbuf'[d][i].serialization = serialization'
      <4>1. n \in Nat /\ n <= i /\ (i = n \/ (i \in Nat /\ i < n))
        BY <1>0, <2>3, <3>2, <3>3
      <4>2. i = n
        BY <4>1
      <4> QED BY <2>1, <2>3, <3>1, <4>2
    <3>4. Notices(d)' # {} /\ serialization' # NoSerialization
      BY <2>3, <3>1 DEF NoSerialization
    <3> QED BY <3>3, <3>4 DEF View
  <2> QED BY <2>4, <2>5, <2>6 DEF Good
<1>4. CASE status[d] # "down" /\ \E x : out'[d] = <<Count(x)>> /\ d \in waiting /\ d \notin waiting'
  <2>0. PICK x : out'[d] = <<Count(x)>>
    BY <1>4
  <2>1. Count(x) \in Reply /\ ~IsNotice(Count(x)) /\ IsAnswer(Count(x)) /\ Count(x).reply = "n"
        /\ Count(x) # Reregister
    <3>1. out'[d] \in Seq(Reply)
      BY DEF TypeOK
    <3> QED BY <2>0, <3>1 DEF Count, IsNotice, IsAnswer, Reregister
  <2>2. wbuf'[d] = wbuf[d] \o <<Count(x)>>
    BY <1>4, <2>0
  <2> DEFINE n == Len(wbuf[d]) + 1
  <2>3. /\ DOMAIN wbuf'[d] = DOMAIN wbuf[d] \cup {n} /\ wbuf'[d][n] = Count(x)
        /\ \A i \in DOMAIN wbuf[d] : wbuf'[d][i] = wbuf[d][i] /\ i < n
        /\ Notices(d)' = Notices(d) /\ Answers(d)' = Answers(d) \cup {n}
        /\ Cardinality(Answers(d)') = Cardinality(Answers(d)) + 1 /\ Cardinality(Answers(d)) \in Nat
    BY <1>0, <2>1, <2>2, AppendNotices
  <2> HIDE DEF n
  <2>c. d \in conn
    BY <1>4 DEF MembershipOK, NoDangling
  <2>4. Before(d)'
    BY <2>c DEF Good, Before
  <2>5. Talk(d)'
    <3>1. CASE ~Up(d)
      BY <3>1 DEF Talk, Up
    <3>2. CASE Up(d)
      <4>1. inq[d] \in Seq(Commands) /\ call[d].pending \in Nat
        BY CallFields DEF Typed
      <4>2. Len(inq[d]) \in Nat
        BY <4>1
      <4>3. call[d].pending = Len(inq[d]) + Cardinality(Answers(d)) + 1
        BY <1>4, <3>2 DEF Good, Talk
      <4>4. call'[d].pending = Len(inq'[d]) + Cardinality(Answers(d)') + 0
        BY <2>3, <4>2, <4>3
      <4>5. \A i \in DOMAIN wbuf[d] :
              /\ wbuf[d][i].reply = "data" =>
                   /\ call[d].op = "sync" /\ inq[d] = <<>>
                   /\ \A j \in Answers(d) : i < j
              /\ wbuf[d][i].reply = "registered" => call[d].op = "handshake"
        BY <3>2 DEF Good, Talk
      <4>6. \A i \in DOMAIN wbuf'[d] :
              /\ wbuf'[d][i].reply = "data" =>
                   /\ call'[d].op = "sync" /\ inq'[d] = <<>>
                   /\ \A j \in Answers(d)' : i < j
              /\ wbuf'[d][i].reply = "registered" => call'[d].op = "handshake"
        <5>1. ASSUME NEW i \in DOMAIN wbuf[d]
              PROVE  /\ wbuf'[d][i].reply = "data" =>
                          /\ call'[d].op = "sync" /\ inq'[d] = <<>>
                          /\ \A j \in Answers(d)' : i < j
                     /\ wbuf'[d][i].reply = "registered" => call'[d].op = "handshake"
          <6>1. wbuf'[d][i] = wbuf[d][i] /\ i < n
            BY <2>3
          <6>2. (\A j \in Answers(d) : i < j) => \A j \in Answers(d)' : i < j
            BY <2>3, <6>1
          <6> QED BY <4>5, <6>1, <6>2
        <5>2. wbuf'[d][n].reply = "n"
          BY <2>1, <2>3
        <5> QED BY <2>3, <5>1, <5>2
      <4>7. \A i \in DOMAIN inq'[d] : inq'[d][i].cmd = call'[d].op
        BY <3>2 DEF Good, Talk
      <4> QED BY <1>4, <2>c, <4>4, <4>6, <4>7 DEF Talk
    <3> QED BY <3>1, <3>2
  <2>6. View(d)'
    <3>1. <<Count(x)>> # <<Reregister>>
      BY <2>1
    <3>2. serialization' = serialization \/ serialization = NoSerialization
      BY <2>0, <2>c, <3>1 DEF Announced
    <3>3. Notices(d)' = Notices(d) /\ \A i \in Notices(d) : wbuf'[d][i] = wbuf[d][i]
      BY <2>3 DEF Notices
    <3>4. CASE serialization' = serialization
      BY <2>c, <3>3, <3>4 DEF Good, View, Up
    <3>5. CASE serialization = NoSerialization
      BY <2>c, <3>3, <3>5 DEF Good, View, Up
    <3> QED BY <3>2, <3>4, <3>5
  <2> QED BY <2>4, <2>5, <2>6 DEF Good
<1> QED BY <1>1, <1>2, <1>3, <1>4 DEF Overhears

(* The clauses of Talk and View for a client that is up.                   *)
LEMMA UpGood ==
  ASSUME NEW c \in Fds, status'[c] = "up",
         call'[c].pending = Len(inq'[c]) + Cardinality(Answers(c)') + (IF c \in waiting' THEN 1 ELSE 0),
         \A i \in DOMAIN inq'[c] : inq'[c][i].cmd = call'[c].op,
         \A i \in DOMAIN wbuf'[c] :
           /\ wbuf'[c][i].reply = "data" =>
                /\ call'[c].op = "sync" /\ inq'[c] = <<>>
                /\ \A j \in Answers(c)' : i < j
           /\ wbuf'[c][i].reply = "registered" => call'[c].op = "handshake",
         c \in waiting' => call'[c].op = "wait",
         c \notin conn' => wbuf'[c] = <<>> /\ ser'[c] = NoSerialization,
         View(c)'
  PROVE  Good(c)'
<1>1. Before(c)'
  BY DEF Before
<1>2. Talk(c)'
  BY DEF Talk
<1> QED BY <1>1, <1>2 DEF Good

(* The messages that a sync hands over and its answer, after what is in    *)
(* the socket.                                                             *)
SyncedTo(s, t) ==
  \E n \in Nat :
    /\ DOMAIN t = 1..n /\ t[n] = Ok /\ n \notin DOMAIN s
    /\ DOMAIN s \subseteq DOMAIN t /\ \A i \in DOMAIN s : t[i] = s[i]
    /\ \A i \in DOMAIN t \ DOMAIN s : i # n => t[i].reply = "data"
    /\ Ans(t) = {n} /\ Cardinality(Ans(t)) = 1

LEMMA SyncAnswer ==
  ASSUME NEW s \in Seq(Reply), NEW data \in Seq(Reply), \A i \in DOMAIN data : data[i].reply = "data",
         Ans(s) = {}, NEW t, t = s \o (data \o <<Ok>>)
  PROVE  SyncedTo(s, t)
<1> DEFINE n == Len(s) + Len(data) + 1
           l == Len(s)
<1>0. Ok \in Reply /\ Ok.reply = "ok"
  BY ReplyTypes DEF Ok
<1>1. /\ DOMAIN t = 1..n /\ n \in Nat /\ DOMAIN s = 1..l /\ DOMAIN data = 1..(n - l - 1)
      /\ l \in Nat /\ l < n
      /\ t[n] = Ok
      /\ \A i \in 1..l : t[i] = s[i]
      /\ \A i \in (l + 1)..(n - 1) : t[i] = data[i - l]
  BY <1>0
<1> HIDE DEF n, l
<1>2. ASSUME NEW i \in (l + 1)..(n - 1) PROVE t[i].reply = "data"
  <2>1. i - l \in DOMAIN data
    BY <1>1
  <2>2. t[i] = data[i - l]
    BY <1>1
  <2> QED BY <2>1, <2>2
<1>3. \A i \in DOMAIN t \ DOMAIN s : i # n => i \in (l + 1)..(n - 1)
  BY <1>1
<1>4. n \notin DOMAIN s /\ n \in DOMAIN t /\ DOMAIN s \subseteq DOMAIN t
  BY <1>1
<1>5. Ans(t) = {n}
  <2>1. \A i \in DOMAIN s : ~IsAnswer(t[i])
    BY <1>1 DEF Ans
  <2>2. \A i \in DOMAIN t \ DOMAIN s : i # n => ~IsAnswer(t[i])
    BY <1>2, <1>3 DEF IsAnswer
  <2>3. IsAnswer(t[n])
    BY <1>0, <1>1 DEF IsAnswer
  <2> QED BY <1>4, <2>1, <2>2, <2>3 DEF Ans
<1>6. Cardinality({n}) = 1
  BY FS_Singleton
<1>7. \A i \in DOMAIN t \ DOMAIN s : i # n => t[i].reply = "data"
  BY <1>2, <1>3
<1> QED BY <1>1, <1>4, <1>5, <1>6, <1>7 DEF SyncedTo

(* A step of the server that handles a command of the client itself.       *)
LEMMA ServedGood ==
  ASSUME ~AllocMayFail, TypeOK, TypeOK', Typed, NEW c \in Fds, Good(c), Serve(c)
  PROVE  Good(c)'
<1> DEFINE q == Head(inq[c])
<1>1. /\ c \in conn /\ inq[c] # <<>> /\ Dispatch(c, q)
      /\ inq' = [inq EXCEPT ![c] = Tail(inq[c])] /\ Flush /\ UNCHANGED <<status, client_vars>>
  BY DEF Serve
<1>2. /\ status'[c] = status[c] /\ call'[c] = call[c] /\ ser'[c] = ser[c]
      /\ inq'[c] = Tail(inq[c])
      /\ wbuf'[c] = IF status[c] = "down" THEN <<>> ELSE wbuf[c] \o out'[c]
  BY <1>1 DEF client_vars, Flush, Typed
<1>3. CASE ~Up(c)
  <2>1. status[c] = "down"
    BY <1>1, <1>3 DEF Good, Before, Typed, Up
  <2> QED BY <1>2, <2>1 DEF Good, Before, Talk, View, Up
<1>4. CASE Up(c)
  <2>1. /\ q \in Commands /\ Len(inq'[c]) = Len(inq[c]) - 1 /\ Len(inq[c]) \in Nat \ {0}
        /\ q = inq[c][1] /\ 1 \in DOMAIN inq[c]
        /\ \A i \in DOMAIN inq'[c] : i + 1 \in DOMAIN inq[c] /\ inq'[c][i] = inq[c][i + 1]
    BY <1>1, <1>2, HeadCommand
  <2>2. /\ call[c].pending = Len(inq[c]) + Cardinality(Answers(c)) + (IF c \in waiting THEN 1 ELSE 0)
        /\ \A i \in DOMAIN inq[c] : inq[c][i].cmd = call[c].op
        /\ \A i \in DOMAIN wbuf[c] : wbuf[c][i].reply # "data"
        /\ \A i \in DOMAIN wbuf[c] : wbuf[c][i].reply = "registered" => call[c].op = "handshake"
        /\ c \in waiting => call[c].op = "wait"
    BY <1>1, <1>4 DEF Good, Talk
  <2>3. /\ wbuf[c] \in Seq(Reply) /\ call[c] \in Calls /\ inq'[c] \in Seq(Commands)
    BY <1>1, <1>2, HeadCommand DEF Typed
  <2>4. Answers(c) = Ans(wbuf[c]) /\ Cardinality(Answers(c)) \in Nat
    BY <2>3, AnswersAre, AnsFinite
  <2>5. c \notin waiting
    <3> SUFFICES ASSUME c \in waiting PROVE FALSE
      OBVIOUS
    <3>1. call[c].op = "wait" /\ call[c].pending = 1
      BY <2>2, <2>3, CallFields
    <3> QED BY <2>1, <2>2, <2>4, <3>1
  <2>6. call[c].pending = Len(inq'[c]) + Cardinality(Answers(c)) + 1
    BY <2>1, <2>2, <2>4, <2>5
  <2>7. \A i \in DOMAIN inq'[c] : inq'[c][i].cmd = call'[c].op
    BY <1>2, <2>1, <2>2
  <2>8. IsAnswered(c, q) /\ conn' = conn /\ q.cmd = call[c].op
    <3> HIDE DEF q
    <3> QED BY <1>1, <2>1, <2>2, <2>5, HandlersAnswer
  <2> DEFINE n == Len(wbuf[c]) + 1
  <2>r. ASSUME NEW r, out'[c] = <<r>>, c \notin waiting', IsAnswer(r),
               r.reply # "data", r.reply = "registered" => call[c].op = "handshake",
               IsNotice(r) => r.serialization = serialization',
               ~IsNotice(r) => UNCHANGED serialization
        PROVE  Good(c)'
    <3>1. r \in Reply
      <4>1. out'[c] \in Seq(Reply)
        BY DEF TypeOK
      <4> QED BY <2>r, <4>1
    <3>2. wbuf'[c] = wbuf[c] \o <<r>>
      BY <1>2, <1>4, <2>r DEF Up
    <3>3. /\ DOMAIN wbuf'[c] = DOMAIN wbuf[c] \cup {n} /\ n \in Nat
          /\ \A i \in DOMAIN wbuf[c] : wbuf'[c][i] = wbuf[c][i] /\ i < n /\ i \in Nat
          /\ wbuf'[c][n] = r
          /\ Notices(c) \subseteq DOMAIN wbuf[c]
          /\ IsNotice(r) => Notices(c)' = Notices(c) \cup {n}
          /\ ~IsNotice(r) => Notices(c)' = Notices(c)
          /\ Answers(c)' = Answers(c) \cup {n}
          /\ Cardinality(Answers(c)') = Cardinality(Answers(c)) + 1
      BY <2>3, <2>r, <3>1, <3>2, AppendNotices
    <3> HIDE DEF n, q
    <3>4. call'[c].pending = Len(inq'[c]) + Cardinality(Answers(c)') + 0
      BY <1>2, <2>1, <2>4, <2>6, <3>3
    <3>5. \A i \in DOMAIN wbuf'[c] : wbuf'[c][i].reply # "data"
      BY <2>2, <2>r, <3>3
    <3>6. \A i \in DOMAIN wbuf'[c] : wbuf'[c][i].reply = "registered" => call'[c].op = "handshake"
      BY <1>2, <2>2, <2>r, <3>3
    <3>7. View(c)'
      <4>1. CASE IsNotice(r)
        <5>1. ASSUME NEW i \in Notices(c)', \A j \in Notices(c)' : j <= i
              PROVE  wbuf'[c][i].serialization = serialization'
          <6>1. n <= i /\ n \in Nat /\ (i = n \/ (i \in Nat /\ i < n))
            BY <3>3, <4>1, <5>1
          <6>2. i = n
            BY <6>1
          <6> QED BY <2>r, <3>3, <4>1, <6>2
        <5>2. r.serialization # NoSerialization
          BY <3>1, <4>1, ReplyFields DEF NoSerialization, AllSerializations
        <5> QED BY <2>r, <3>3, <4>1, <5>1, <5>2 DEF View
      <4>2. CASE ~IsNotice(r)
        <5>1. UNCHANGED serialization /\ Notices(c)' = Notices(c)
          BY <2>r, <3>3, <4>2
        <5> QED BY <1>1, <1>2, <1>4, <3>3, <5>1 DEF Good, View, Up
      <4> QED BY <4>1, <4>2
    <3>8. status'[c] = "up" /\ c \in conn'
      BY <1>1, <1>2, <1>4, <2>8 DEF Up
    <3> QED BY <2>7, <2>r, <3>4, <3>5, <3>6, <3>7, <3>8, UpGood
  <2>9. CASE q.cmd = "handshake" /\ out'[c] = <<Registered(serialization')>> /\ c \notin waiting'
    <3> DEFINE r == Registered(serialization')
    <3>1. /\ IsAnswer(r) /\ r.reply = "registered" /\ IsNotice(r) /\ r.serialization = serialization'
      BY DEF Registered, IsAnswer, IsNotice
    <3> HIDE DEF r, q
    <3>2. out'[c] = <<r>>
      BY <2>9 DEF r
    <3> QED BY <2>8, <2>9, <2>r, <3>1, <3>2
  <2>10. CASE /\ c \notin waiting' /\ UNCHANGED serialization
              /\ \E r : r.reply \in {"ok", "error", "n", "devices"} /\ out'[c] = <<r>>
    <3>1. PICK r : r.reply \in {"ok", "error", "n", "devices"} /\ out'[c] = <<r>>
      BY <2>10
    <3>2. IsAnswer(r) /\ ~IsNotice(r) /\ r.reply \notin {"data", "registered"}
      BY <3>1 DEF IsAnswer, IsNotice
    <3> QED BY <2>10, <2>r, <3>1, <3>2
  <2>11. CASE q.cmd = "wait" /\ out'[c] = <<>> /\ c \in waiting' /\ UNCHANGED serialization
    <3>1. wbuf'[c] = wbuf[c]
      BY <1>2, <1>4, <2>3, <2>11 DEF Up
    <3>2. Answers(c)' = Answers(c) /\ Notices(c)' = Notices(c)
      BY <3>1 DEF Answers, Notices, IsAnswer, IsNotice
    <3>3. View(c)'
      BY <1>1, <1>2, <1>4, <2>8, <2>11, <3>1, <3>2 DEF Good, View, Up
    <3>4. status'[c] = "up" /\ c \in conn'
      BY <1>1, <1>2, <1>4, <2>8 DEF Up
    <3>5. call'[c].pending = Len(inq'[c]) + Cardinality(Answers(c)') + 1
      BY <1>2, <2>6, <3>2
    <3>6. call'[c].op = "wait"
      BY <1>2, <2>8, <2>11
    <3>7. call'[c] = call[c] /\ c \in waiting'
      BY <1>2, <2>11
    <3>8. \A i \in DOMAIN wbuf'[c] : /\ wbuf'[c][i].reply # "data"
                                     /\ wbuf'[c][i].reply = "registered" => call'[c].op = "handshake"
      BY <2>2, <3>1, <3>7
    <3> HIDE DEF n, q
    <3> QED BY <2>7, <3>3, <3>4, <3>5, <3>6, <3>7, <3>8, UpGood
  <2>12. CASE /\ q.cmd = "sync" /\ c \notin waiting' /\ UNCHANGED serialization
              /\ \E data \in Seq(Reply) : /\ out'[c] = data \o <<Ok>>
                                          /\ \A i \in DOMAIN data : data[i].reply = "data"
    <3> HIDE DEF q, n
    <3>1. PICK data \in Seq(Reply) : /\ out'[c] = data \o <<Ok>>
                                     /\ \A i \in DOMAIN data : data[i].reply = "data"
      BY <2>12
    <3>2. wbuf'[c] = wbuf[c] \o (data \o <<Ok>>)
      BY <1>2, <1>4, <3>1 DEF Up
    <3>3. call[c].op = "sync" /\ call[c].pending = 1
      BY <2>3, <2>8, <2>12, CallFields
    <3>4. Len(inq'[c]) \in Nat /\ Cardinality(Answers(c)) = 0 /\ Len(inq'[c]) = 0
      <4>1. \A a, b \in Nat : 1 = a + b + 1 => a = 0 /\ b = 0
        OBVIOUS
      <4>2. Len(inq'[c]) \in Nat
        BY <2>3
      <4> QED BY <2>4, <2>6, <3>3, <4>1, <4>2
    <3>5. inq'[c] = <<>> /\ Ans(wbuf[c]) = {}
      BY <2>3, <2>4, <3>4, AnsNone
    <3>6. PICK m \in Nat :
           /\ DOMAIN wbuf'[c] = 1..m /\ wbuf'[c][m] = Ok /\ m \notin DOMAIN wbuf[c]
           /\ DOMAIN wbuf[c] \subseteq DOMAIN wbuf'[c]
           /\ \A i \in DOMAIN wbuf[c] : wbuf'[c][i] = wbuf[c][i]
           /\ \A i \in DOMAIN wbuf'[c] \ DOMAIN wbuf[c] : i # m => wbuf'[c][i].reply = "data"
           /\ Ans(wbuf'[c]) = {m} /\ Cardinality(Ans(wbuf'[c])) = 1
      <4> DEFINE t == wbuf'[c]
                 s == wbuf[c]
      <4>1. s \in Seq(Reply) /\ t = s \o (data \o <<Ok>>) /\ Ans(s) = {}
        BY <2>3, <3>2, <3>5
      <4> HIDE DEF s, t
      <4>2. SyncedTo(s, t)
        BY <3>1, <4>1, SyncAnswer
      <4> QED BY <4>2 DEF s, t, SyncedTo
    <3>7. Answers(c)' = {m} /\ Cardinality(Answers(c)') = 1
      BY <3>6, AnswersAre
    <3>8. Ok.reply = "ok"
      BY DEF Ok
    <3>9. Notices(c)' = Notices(c) /\ Notices(c) \subseteq DOMAIN wbuf[c]
      <4>1. \A i \in DOMAIN wbuf'[c] \ DOMAIN wbuf[c] : ~IsNotice(wbuf'[c][i])
        BY <3>6, <3>8 DEF IsNotice
      <4> QED BY <3>6, <4>1 DEF Notices, IsNotice
    <3>10. View(c)'
      <4>1. \A i \in Notices(c) : wbuf'[c][i] = wbuf[c][i]
        BY <3>6, <3>9
      <4>2. UNCHANGED serialization /\ ser'[c] = ser[c] /\ c \in conn
        BY <1>1, <1>2, <2>12
      <4> QED BY <1>4, <3>9, <4>1, <4>2 DEF Good, View
    <3>11. status'[c] = "up" /\ c \in conn'
      BY <1>1, <1>2, <1>4, <2>8 DEF Up
    <3>12. ASSUME NEW i \in DOMAIN wbuf'[c]
           PROVE  /\ wbuf'[c][i].reply = "data" => \A j \in Answers(c)' : i < j
                  /\ wbuf'[c][i].reply # "registered"
      <4>1. i <= m /\ i \in Nat
        BY <3>6
      <4>2. wbuf'[c][i].reply = "data" => i # m
        BY <3>6, <3>8
      <4>3. wbuf'[c][i].reply # "registered"
        BY <2>2, <3>3, <3>6, <3>8
      <4> QED BY <3>7, <4>1, <4>2, <4>3
    <3>13. call'[c].pending = Len(inq'[c]) + Cardinality(Answers(c)') + 0 /\ call'[c].op = "sync"
      <4>1. 1 = 0 + 1 + 0
        OBVIOUS
      <4> QED BY <1>2, <3>3, <3>4, <3>7, <4>1
    <3> QED BY <2>7, <2>12, <3>5, <3>10, <3>11, <3>12, <3>13, UpGood
  <2> QED BY <2>8, <2>9, <2>10, <2>11, <2>12 DEF IsAnswered
<1> QED BY <1>3, <1>4

LEMMA DownGood ==
  ASSUME NEW c \in Fds, status'[c] = "down"
  PROVE  Good(c)'
BY DEF Good, Before, Talk, View, Up

(* A client that reads the notices one by one arrives at the last one.     *)
LEMMA TailView ==
  ASSUME NEW c \in Fds, wbuf[c] \in Seq(Reply), wbuf[c] # <<>>, wbuf'[c] = Tail(wbuf[c]),
         View(c), Up(c), UNCHANGED <<conn, serialization>>,
         IsNotice(Head(wbuf[c])) => ser'[c] = Head(wbuf[c]).serialization,
         ~IsNotice(Head(wbuf[c])) => ser'[c] = ser[c]
  PROVE  View(c)'
<1> DEFINE s == wbuf[c]
           r == Head(s)
           N == Notices(c)
           M == Notices(c)'
<1>1. /\ Len(s) \in Nat /\ 1 \in DOMAIN s /\ s[1] = r
      /\ DOMAIN s = 1..Len(s) /\ DOMAIN Tail(s) = 1..(Len(s) - 1)
      /\ \A i \in 1..(Len(s) - 1) : Tail(s)[i] = s[i + 1]
  OBVIOUS
<1>2. /\ N = {i \in DOMAIN s : IsNotice(s[i])} /\ M = {i \in DOMAIN Tail(s) : IsNotice(Tail(s)[i])}
      /\ wbuf'[c] = Tail(s) /\ wbuf[c] = s
  BY DEF Notices, IsNotice
<1>3. /\ IsNotice(r) => ser'[c] = r.serialization
      /\ ~IsNotice(r) => ser'[c] = ser[c]
  OBVIOUS
<1>4. /\ \A i \in M : i \in Nat /\ i + 1 \in N /\ wbuf'[c][i] = wbuf[c][i + 1]
      /\ \A i \in N : i \in Nat /\ (i = 1 \/ (i - 1 \in M /\ i > 1))
      /\ 1 \in N <=> IsNotice(r)
  <2> HIDE DEF s, r, N, M
  <2> QED BY <1>1, <1>2
<1>5. wbuf[c][1] = r
  BY <1>1
<1> HIDE DEF s, r, N, M
<1> SUFFICES ASSUME c \in conn PROVE View(c)'
  BY DEF View
<1>6. /\ \A i \in N : (\A j \in N : j <= i) => wbuf[c][i].serialization = serialization
      /\ N = {} => ser[c] \in {NoSerialization, serialization}
      /\ serialization = NoSerialization => N = {}
  BY DEF View, N
<1>7. ASSUME NEW i \in M, \A j \in M : j <= i
      PROVE  wbuf'[c][i].serialization = serialization
  <2>1. i \in Nat /\ i + 1 \in N /\ wbuf'[c][i] = wbuf[c][i + 1]
    BY <1>4
  <2>2. \A j \in N : j <= i + 1
    BY <1>4, <1>7, <2>1
  <2> QED BY <1>6, <2>1, <2>2
<1>8. M = {} => ser'[c] \in {NoSerialization, serialization}
  <2> SUFFICES ASSUME M = {} PROVE ser'[c] \in {NoSerialization, serialization}
    OBVIOUS
  <2>1. CASE IsNotice(r)
    <3>1. 1 \in N /\ \A j \in N : j = 1
      BY <1>4, <2>1
    <3>2. \A j \in N : j <= 1
      BY <3>1
    <3> QED BY <1>3, <1>5, <1>6, <2>1, <3>1, <3>2
  <2>2. CASE ~IsNotice(r)
    <3>1. N = {}
      BY <1>4, <2>2
    <3> QED BY <1>3, <1>6, <2>2, <3>1
  <2> QED BY <2>1, <2>2
<1>9. serialization = NoSerialization => M = {}
  BY <1>4, <1>6
<1> QED BY <1>7, <1>8, <1>9 DEF View, M

(* A call that starts, or goes on, in a conversation with nothing under    *)
(* way: no command, no answer, no wait.                                    *)
LEMMA FreshCall ==
  ASSUME NEW c \in Fds, status'[c] = "up", inq[c] \in Seq(Commands), inq[c] = <<>>,
         Ans(wbuf'[c]) = {}, \A i \in DOMAIN wbuf'[c] : wbuf'[c][i].reply # "data",
         c \notin waiting', c \notin conn' => wbuf'[c] = <<>> /\ ser'[c] = NoSerialization, View(c)',
         NEW t \in Seq(Commands), inq'[c] = inq[c] \o t,
         \A i \in DOMAIN t : t[i].cmd = call'[c].op, call'[c].pending = Len(t)
  PROVE  Good(c)'
<1>1. inq'[c] = t /\ Len(t) \in Nat
  OBVIOUS
<1>2. Answers(c)' = {} /\ Cardinality(Answers(c)') = 0
  BY AnswersAre, FS_EmptySet
<1>3. call'[c].pending = Len(inq'[c]) + Cardinality(Answers(c)') + 0
  BY <1>1, <1>2
<1>4. \A i \in DOMAIN wbuf'[c] : wbuf'[c][i].reply # "registered"
  BY DEF Ans, IsAnswer
<1>5. \A i \in DOMAIN inq'[c] : inq'[c][i].cmd = call'[c].op
  BY <1>1
<1> QED BY <1>3, <1>4, <1>5, UpGood

(* Nothing is under way for a client that is in no call.                   *)
LEMMA IdleQuiet ==
  ASSUME Typed, NEW c \in Fds, Good(c), Up(c), call[c] = Idle
  PROVE  /\ inq[c] = <<>> /\ Ans(wbuf[c]) = {} /\ c \notin waiting
         /\ \A i \in DOMAIN wbuf[c] : wbuf[c][i].reply # "data"
<1>1. inq[c] \in Seq(Commands) /\ wbuf[c] \in Seq(Reply) /\ Len(inq[c]) \in Nat
  BY DEF Typed
<1>2. Answers(c) = Ans(wbuf[c]) /\ Cardinality(Answers(c)) \in Nat
  BY <1>1, AnswersAre, AnsFinite
<1>3. 0 = Len(inq[c]) + Cardinality(Answers(c)) + (IF c \in waiting THEN 1 ELSE 0)
  BY DEF Good, Talk, Idle
<1>4. Len(inq[c]) = 0 /\ Cardinality(Answers(c)) = 0 /\ c \notin waiting
  BY <1>1, <1>2, <1>3
<1>5. Ans(wbuf[c]) = {} /\ inq[c] = <<>>
  BY <1>1, <1>2, <1>4, AnsNone
<1>6. \A i \in DOMAIN wbuf[c] : wbuf[c][i].reply # "data"
  BY DEF Good, Talk, Idle
<1> QED BY <1>4, <1>5, <1>6

(* Nor is anything under way once a client has read the last answer.       *)
LEMMA LastQuiet ==
  ASSUME Typed, NEW c \in Fds, Good(c), Up(c), wbuf[c] # <<>>, IsAnswer(Head(wbuf[c])),
         call[c].pending = 1
  PROVE  /\ inq[c] = <<>> /\ Ans(Tail(wbuf[c])) = {} /\ c \notin waiting
         /\ \A i \in DOMAIN Tail(wbuf[c]) : Tail(wbuf[c])[i].reply # "data"
<1> DEFINE s == wbuf[c]
<1>1. inq[c] \in Seq(Commands) /\ s \in Seq(Reply) /\ Len(inq[c]) \in Nat
  BY DEF Typed
<1>2. /\ Tail(s) \in Seq(Reply) /\ s # <<>> /\ 1 \in DOMAIN s /\ s[1] = Head(s)
      /\ \A i \in DOMAIN Tail(s) : i \in Nat /\ i >= 1 /\ i + 1 \in DOMAIN s /\ Tail(s)[i] = s[i + 1]
  BY <1>1
<1>3. Cardinality(Ans(s)) = Cardinality(Ans(Tail(s))) + 1 /\ Cardinality(Ans(Tail(s))) \in Nat
  <2> HIDE DEF s
  <2>1. Cardinality(Ans(s)) = Cardinality(Ans(Tail(s))) + 1
    BY <1>1, <1>2, AnsTail DEF s
  <2> QED BY <1>2, <2>1, AnsFinite
<1>4. 1 = Len(inq[c]) + Cardinality(Ans(s)) + (IF c \in waiting THEN 1 ELSE 0)
  BY AnswersAre DEF Good, Talk
<1> HIDE DEF s
<1>5. Len(inq[c]) = 0 /\ Cardinality(Ans(Tail(s))) = 0 /\ c \notin waiting
  BY <1>1, <1>3, <1>4
<1>6. Ans(Tail(s)) = {} /\ inq[c] = <<>>
  <2>1. inq[c] = <<>>
    BY <1>1, <1>5
  <2> DEFINE u == Tail(s)
  <2>2. u \in Seq(Reply) /\ Cardinality(Ans(u)) = 0
    BY <1>2, <1>5
  <2> HIDE DEF u
  <2>3. Ans(u) = {}
    BY <2>2, AnsNone
  <2> QED BY <2>1, <2>3 DEF u
<1>7. 1 \in Answers(c)
  <2>1. s = wbuf[c] /\ IsAnswer(Head(s))
    BY DEF s
  <2> QED BY <1>2, <2>1 DEF Answers
<1>8. \A i \in DOMAIN s : s[i].reply = "data" => i < 1
  BY <1>7 DEF Good, Talk, s
<1>9. \A i \in DOMAIN Tail(s) : Tail(s)[i].reply # "data"
  BY <1>2, <1>8
<1> QED BY <1>5, <1>6, <1>9 DEF s

(* A client reads a message and its call goes on.                          *)
LEMMA CallGoesOn ==
  ASSUME Typed, NEW c \in Fds, Good(c), Up(c), wbuf[c] # <<>>, wbuf'[c] = Tail(wbuf[c]),
         status'[c] = status[c], inq'[c] = inq[c], call'[c].op = call[c].op, UNCHANGED <<conn, waiting>>,
         IsAnswer(Head(wbuf[c])) => call'[c].pending = call[c].pending - 1,
         ~IsAnswer(Head(wbuf[c])) => call'[c].pending = call[c].pending,
         View(c)'
  PROVE  Good(c)'
<1> DEFINE s == wbuf[c]
           a == Cardinality(Ans(s))
           b == Cardinality(Ans(Tail(s)))
           l == Len(inq[c])
           w == IF c \in waiting THEN 1 ELSE 0
<1>1. inq[c] \in Seq(Commands) /\ s \in Seq(Reply) /\ l \in Nat /\ call[c].pending \in Nat
  BY CallFields DEF Typed
<1>2. /\ Tail(s) \in Seq(Reply) /\ s # <<>>
      /\ \A i \in DOMAIN Tail(s) : i \in Nat /\ i + 1 \in DOMAIN s /\ Tail(s)[i] = s[i + 1]
  BY <1>1
<1>3. /\ wbuf'[c] = Tail(s) /\ wbuf[c] = s /\ Answers(c) = Ans(s) /\ Answers(c)' = Ans(Tail(s))
      /\ w \in Nat
  BY AnswersAre
<1>4. /\ call[c].pending = l + a + w
      /\ \A i \in DOMAIN inq[c] : inq[c][i].cmd = call[c].op
      /\ \A i \in DOMAIN s :
           /\ s[i].reply = "data" => call[c].op = "sync" /\ inq[c] = <<>> /\ \A j \in Ans(s) : i < j
           /\ s[i].reply = "registered" => call[c].op = "handshake"
      /\ c \in waiting => call[c].op = "wait"
      /\ c \in conn
  BY <1>3 DEF Good, Talk
<1> HIDE DEF s
<1>5. /\ \A i \in Ans(Tail(s)) : i + 1 \in Ans(s)
      /\ a = b + (IF IsAnswer(Head(s)) THEN 1 ELSE 0)
  BY <1>1, <1>2, AnsTail
<1>6. a \in Nat /\ b \in Nat
  BY <1>1, <1>2, AnsFinite
<1>7. /\ IsAnswer(Head(s)) => call'[c].pending = call[c].pending - 1
      /\ ~IsAnswer(Head(s)) => call'[c].pending = call[c].pending
  BY DEF s
<1> HIDE DEF a, b, l, w
<1>8. call'[c].pending = l + b + w
  BY <1>1, <1>3, <1>4, <1>5, <1>6, <1>7
<1>9. \A i \in DOMAIN Tail(s) :
        /\ Tail(s)[i].reply = "data" =>
             call'[c].op = "sync" /\ inq'[c] = <<>> /\ \A j \in Ans(Tail(s)) : i < j
        /\ Tail(s)[i].reply = "registered" => call'[c].op = "handshake"
  <2>1. \A j \in Ans(Tail(s)) : j \in Nat
    BY <1>2 DEF Ans
  <2> QED BY <1>2, <1>4, <1>5, <2>1
<1>10. call'[c].pending = Len(inq'[c]) + Cardinality(Answers(c)') + (IF c \in waiting' THEN 1 ELSE 0)
  BY <1>3, <1>8 DEF l, b, w
<1> QED BY <1>3, <1>4, <1>9, <1>10, UpGood DEF Up

-----------------------------------------------------------------------------
(* The steps of client c keep its own conversation in order.               *)
LEMMA OpenGood ==
  ASSUME Typed, MembershipOK, NEW c \in Fds, Good(c), Open(c)
  PROVE  Good(c)'
<1>1. PICK q \in Commands : q.cmd = "handshake" /\ inq'[c] = inq[c] \o <<q>>
  BY OpenFacts
<1>2. /\ OwnStep(c) /\ call'[c] = Ask("handshake") /\ status'[c] = "up"
      /\ ser'[c] = ser[c] /\ wbuf'[c] = wbuf[c]
  BY OpenFacts
<1>3. inq[c] = <<>> /\ wbuf[c] = <<>> /\ c \notin conn /\ ser[c] = NoSerialization
  BY DEF Open, Good, Before
<1>4. c \notin waiting' /\ c \notin conn'
  BY <1>2, <1>3 DEF OwnStep, broker_vars, vars, MembershipOK, NoDangling
<1>5. View(c)'
  BY <1>4 DEF View
<1>6. Ans(wbuf'[c]) = {} /\ \A i \in DOMAIN wbuf'[c] : wbuf'[c][i].reply # "data"
  BY <1>2, <1>3 DEF Ans
<1>7. call'[c].op = "handshake" /\ call'[c].pending = 1
  BY <1>2, PlainCalls
<1>8. <<q>> \in Seq(Commands) /\ Len(<<q>>) = 1 /\ \A i \in DOMAIN <<q>> : <<q>>[i] = q
  OBVIOUS
<1>9. inq[c] \in Seq(Commands)
  BY DEF Typed
<1> QED BY <1>1, <1>2, <1>3, <1>4, <1>5, <1>6, <1>7, <1>8, <1>9, FreshCall

(* A client that is in no call and makes one, or fails to.                 *)
LEMMA StartGood ==
  ASSUME Typed, NEW c \in Fds, Good(c), Up(c), call[c] = Idle, OwnStep(c),
         status'[c] = "up", wbuf'[c] = wbuf[c], ser'[c] = ser[c],
         NEW t \in Seq(Commands), inq'[c] = inq[c] \o t,
         \A i \in DOMAIN t : t[i].cmd = call'[c].op, call'[c].pending = Len(t)
  PROVE  Good(c)'
<1>1. /\ inq[c] = <<>> /\ Ans(wbuf[c]) = {} /\ c \notin waiting
      /\ \A i \in DOMAIN wbuf[c] : wbuf[c][i].reply # "data"
  BY IdleQuiet
<1>2. UNCHANGED <<waiting, conn, serialization>>
  BY DEF OwnStep, broker_vars, vars
<1>3. View(c)'
  <2>1. Notices(c)' = Notices(c)
    BY DEF Notices, IsNotice
  <2> QED BY <1>2, <2>1 DEF Good, View, Up
<1>4. c \notin conn' => wbuf'[c] = <<>> /\ ser'[c] = NoSerialization
  BY <1>2 DEF Good, Talk
<1>5. inq[c] \in Seq(Commands)
  BY DEF Typed
<1> QED BY <1>1, <1>2, <1>3, <1>4, <1>5, FreshCall

LEMMA AskGood ==
  ASSUME Typed, NEW c \in Fds, Good(c), AskServer(c) \/ \E n \in SyncLimits : StartSync(c, n)
  PROVE  Good(c)'
<1>1. /\ OwnStep(c) /\ call[c] = Idle /\ Up(c) /\ status'[c] = status[c] /\ ser'[c] = ser[c]
      /\ wbuf'[c] = wbuf[c] /\ call'[c].pending = 1
  BY AskFacts
<1>2. PICK q \in Commands : q.cmd = call'[c].op /\ inq'[c] = inq[c] \o <<q>>
  BY AskFacts
<1>3. <<q>> \in Seq(Commands) /\ Len(<<q>>) = 1 /\ \A i \in DOMAIN <<q>> : <<q>>[i] = q
  OBVIOUS
<1> QED BY <1>1, <1>2, <1>3, StartGood DEF Up

LEMMA SendGood ==
  ASSUME Typed, NEW c \in Fds, Good(c), NEW op, NEW to, NEW k \in VarCounts, StartSend(c, op, to, k),
         \/ op = "send" /\ to \in Names
         \/ op = "broadcast" /\ to = Everyone
  PROVE  Good(c)'
<1>1. /\ OwnStep(c) /\ call[c] = Idle /\ Up(c) /\ ser'[c] = ser[c] /\ wbuf'[c] = wbuf[c]
      /\ \/ status'[c] = status[c] /\ \E l : Issued(c, l)
         \/ Raised(c)
  BY StartSendFacts
<1>2. CASE status'[c] = status[c] /\ \E l : Issued(c, l)
  <2>1. PICK l : Issued(c, l)
    BY <1>2
  <2>2. PICK t \in Seq(Commands) :
          /\ \A i \in DOMAIN t : t[i].cmd = l.op
          /\ inq' = [inq EXCEPT ![c] = inq[c] \o t]
          /\ call'[c].op = l.op /\ call'[c].pending = Len(t)
    BY <2>1 DEF Issued
  <2>3. inq'[c] = inq[c] \o t
    BY <2>2 DEF Typed
  <2> QED BY <1>1, <1>2, <2>2, <2>3, StartGood DEF Up
<1>3. CASE Raised(c)
  <2>1. CASE status'[c] = "down"
    BY <2>1, DownGood
  <2>2. CASE status'[c] = status[c]
    <3>1. <<>> \in Seq(Commands) /\ Len(<<>>) = 0 /\ DOMAIN <<>> = {}
      OBVIOUS
    <3>2. inq[c] \in Seq(Commands) /\ inq'[c] = inq[c] /\ call'[c].pending = 0
      BY <1>3 DEF Typed, Raised, Idle
    <3>3. inq'[c] = inq[c] \o <<>>
      BY <3>2
    <3> QED BY <1>1, <2>2, <3>1, <3>2, <3>3, StartGood DEF Up
  <2> QED BY <1>3, <2>1, <2>2 DEF Raised
<1> QED BY <1>1, <1>2, <1>3

LEMMA NotJavaScript ==
  ASSUME NoJavaScript, Typed, NEW c \in Fds
  PROVE  ~JavaScript(c)
BY DEF NoJavaScript, Typed, JavaScript

(* The last answer of a batch, or the only one of a call.                  *)
LEMMA LastGood ==
  ASSUME Typed, NEW c \in Fds, Good(c), Up(c), OwnStep(c), wbuf[c] # <<>>, IsAnswer(Head(wbuf[c])),
         call[c].pending = 1, wbuf'[c] = Tail(wbuf[c]), View(c)', status'[c] = "up",
         NEW t \in Seq(Commands), inq'[c] = inq[c] \o t,
         \A i \in DOMAIN t : t[i].cmd = call'[c].op, call'[c].pending = Len(t)
  PROVE  Good(c)'
<1>1. /\ inq[c] = <<>> /\ Ans(wbuf'[c]) = {} /\ c \notin waiting
      /\ \A i \in DOMAIN wbuf'[c] : wbuf'[c][i].reply # "data"
  BY LastQuiet
<1>2. UNCHANGED <<waiting, conn>> /\ c \in conn
  BY DEF OwnStep, broker_vars, vars, Good, Talk
<1>3. inq[c] \in Seq(Commands)
  BY DEF Typed
<1> QED BY <1>1, <1>2, <1>3, FreshCall

(* A call that ends with its last answer.                                  *)
LEMMA EndGood ==
  ASSUME Typed, NEW c \in Fds, Good(c), Up(c), OwnStep(c), wbuf[c] # <<>>, IsAnswer(Head(wbuf[c])),
         call[c].pending = 1, wbuf'[c] = Tail(wbuf[c]), View(c)', status'[c] = "up",
         inq'[c] = inq[c], call'[c] = Idle
  PROVE  Good(c)'
<1>1. <<>> \in Seq(Commands) /\ Len(<<>>) = 0 /\ DOMAIN <<>> = {}
  OBVIOUS
<1>2. inq[c] \in Seq(Commands) /\ call'[c].pending = 0
  BY DEF Typed, Idle
<1>3. inq'[c] = inq[c] \o <<>>
  BY <1>2
<1> QED BY <1>1, <1>2, <1>3, LastGood

LEMMA AnswerGood ==
  ASSUME NoJavaScript, SafeCatch, Typed, NEW c \in Fds, Ready(c), Good(c), Up(c), call[c] # Idle,
         OwnStep(c), call'[c] \in Calls, wbuf[c] # <<>>, wbuf'[c] = Tail(wbuf[c]),
         AnswerRead(c, Head(wbuf[c]))
  PROVE  Good(c)'
<1> DEFINE r == Head(wbuf[c])
<1>1. ~JavaScript(c)
  BY NotJavaScript
<1>2. wbuf[c] \in Seq(Reply) /\ r = wbuf[c][1] /\ 1 \in DOMAIN wbuf[c] /\ r \in Reply
  BY DEF Typed
<1>3. r.reply # "reregister" /\ ~(r.reply = "data" /\ call[c].op = "sync")
  BY <1>1 DEF AnswerRead, IsMeta
<1>4. /\ r.reply = "data" => call[c].op = "sync"
      /\ r.reply = "registered" => call[c].op = "handshake"
  <2> HIDE DEF r
  <2> QED BY <1>2 DEF Good, Talk
<1>5. IsAnswer(r)
  BY <1>3, <1>4 DEF IsAnswer
<1>6. /\ IsNotice(r) => ser'[c] = r.serialization
      /\ ~IsNotice(r) => ser'[c] = ser[c]
  <2>1. ser'[c] = IF call[c].op = "handshake" /\ Accepts(c, r) THEN r.serialization ELSE ser[c]
    BY DEF AnswerRead
  <2>2. call[c].op = "handshake" => (Accepts(c, r) <=> r.reply = "registered")
    BY <1>1, AcceptsHandshake
  <2>3. IsNotice(r) <=> r.reply = "registered"
    BY <1>3 DEF IsNotice
  <2> HIDE DEF r
  <2> QED BY <1>4, <2>1, <2>2, <2>3
<1>7. UNCHANGED <<conn, waiting, serialization>>
  BY DEF OwnStep, broker_vars, vars
<1>8. View(c)'
  BY <1>2, <1>6, <1>7, TailView DEF Good
<1>9. AnswerTaken(c)
  BY DEF AnswerRead
<1>10. call[c] \in Calls /\ status[c] = "up"
  BY DEF Typed, Up
<1>a. IsAnswer(Head(wbuf[c]))
  BY <1>5
<1> HIDE DEF r
<1>11. CASE Raised(c)
  <2>1. CASE status'[c] = "down"
    BY <2>1, DownGood
  <2>2. CASE status'[c] = status[c] /\ CatchErrors
    <3>1. call[c].pending = 1
      <4>1. call[c] \in Batches => call[c].pending = 1
        BY <2>2 DEF Ready
      <4> QED BY <1>10, <4>1, CallFields
    <3>2. inq'[c] = inq[c] /\ call'[c] = Idle
      BY <1>11 DEF Raised
    <3> QED BY <1>a, <1>8, <1>10, <2>2, <3>1, <3>2, EndGood
  <2> QED BY <1>10, <1>11, <2>1, <2>2 DEF Raised
<1>12. CASE Ended(c)
  <2>1. call[c].pending = 1 /\ call'[c] = Idle /\ inq'[c] = inq[c] /\ status'[c] = "up"
    BY <1>10, <1>12 DEF Ended
  <2> QED BY <1>a, <1>8, <2>1, EndGood
<1>13. CASE SyncsAgain(c)
  <2>1. PICK q \in Commands : q.cmd = "sync" /\ inq'[c] = inq[c] \o <<q>>
    BY <1>13 DEF SyncsAgain
  <2>2. call[c].pending = 1 /\ call'[c].op = "sync" /\ call'[c].pending = 1 /\ status'[c] = "up"
    BY <1>10, <1>13, CallFields DEF SyncsAgain
  <2>3. <<q>> \in Seq(Commands) /\ Len(<<q>>) = 1 /\ \A i \in DOMAIN <<q>> : <<q>>[i] = q
    OBVIOUS
  <2> QED BY <1>a, <1>8, <2>1, <2>2, <2>3, LastGood
<1>14. CASE SendsAgain(c)
  <2>1. PICK l : Issued(c, l)
    BY <1>14 DEF SendsAgain
  <2>2. PICK t \in Seq(Commands) :
          /\ \A i \in DOMAIN t : t[i].cmd = l.op
          /\ inq' = [inq EXCEPT ![c] = inq[c] \o t]
          /\ call'[c].op = l.op /\ call'[c].pending = Len(t)
    BY <2>1 DEF Issued
  <2>3. inq'[c] = inq[c] \o t
    BY <2>2 DEF Typed
  <2>4. call[c].pending = 1 /\ status'[c] = "up"
    BY <1>10, <1>14 DEF SendsAgain
  <2> QED BY <1>a, <1>8, <2>2, <2>3, <2>4, LastGood
<1>15. CASE CountsDown(c)
  <2>1. /\ call'[c] = [call[c] EXCEPT !.pending = call[c].pending - 1] /\ call[c] \in Batches
        /\ inq'[c] = inq[c] /\ status'[c] = status[c]
    BY <1>15 DEF CountsDown
  <2>2. call'[c].pending = call[c].pending - 1 /\ call'[c].op = call[c].op
    BY <2>1 DEF Batches
  <2> QED BY <1>a, <1>7, <1>8, <2>1, <2>2, CallGoesOn
<1> QED BY <1>9, <1>11, <1>12, <1>13, <1>14, <1>15 DEF AnswerTaken

LEMMA ReceiveGood ==
  ASSUME AnyInput, NoJavaScript, SafeCatch, Typed, NEW c \in Fds, Ready(c), Good(c), Receive(c)
  PROVE  Good(c)'
<1> DEFINE r == Head(wbuf[c])
<1>1. /\ OwnStep(c) /\ TypedAt(c)'
      /\ Up(c) /\ call[c] # Idle /\ wbuf[c] # <<>> /\ wbuf'[c] = Tail(wbuf[c])
      /\ r \in Reply
      /\ MetaRead(c, r) \/ DataRead(c, r) \/ AnswerRead(c, r)
  BY ReceiveFacts
<1>2. /\ UNCHANGED <<conn, waiting, serialization>> /\ call'[c] \in Calls /\ call[c] \in Calls
      /\ wbuf[c] \in Seq(Reply)
  BY <1>1 DEF OwnStep, broker_vars, vars, TypedAt, Typed
<1>3. CASE MetaRead(c, r)
  <2>1. IsNotice(r) /\ ~IsAnswer(r) /\ ser'[c] = r.serialization
    BY <1>3 DEF MetaRead, IsMeta, IsNotice, IsAnswer
  <2>2. View(c)'
    BY <1>1, <1>2, <2>1, TailView DEF Good
  <2>3. call'[c] = call[c] /\ inq'[c] = inq[c] /\ status'[c] = status[c]
    BY <1>3 DEF MetaRead
  <2> QED BY <1>1, <1>2, <2>1, <2>2, <2>3, CallGoesOn
<1>4. CASE DataRead(c, r)
  <2>1. ~IsNotice(r) /\ ~IsAnswer(r) /\ ser'[c] = ser[c]
    BY <1>4 DEF DataRead, IsNotice, IsAnswer
  <2>2. View(c)'
    BY <1>1, <1>2, <2>1, TailView DEF Good
  <2>3. call'[c].op = "sync" /\ call[c].op = "sync" /\ inq'[c] = inq[c] /\ status'[c] = status[c]
    BY <1>4 DEF DataRead
  <2>4. call'[c].pending = call[c].pending
    BY <1>2, <2>3, CallFields
  <2> QED BY <1>1, <1>2, <2>1, <2>2, <2>3, <2>4, CallGoesOn
<1>5. CASE AnswerRead(c, r)
  BY <1>1, <1>2, <1>5, AnswerGood
<1> QED BY <1>1, <1>3, <1>4, <1>5

LEMMA ClientGood ==
  ASSUME Orderly, Typed, MembershipOK, NEW c \in Fds, Ready(c), Good(c), ClientStep(c)
  PROVE  Good(c)'
<1>1. CASE Open(c)
  BY <1>1, OpenGood
<1>2. CASE AskServer(c) \/ \E n \in SyncLimits : StartSync(c, n)
  BY <1>2, AskGood
<1>3. CASE \E n \in Names, k \in VarCounts : StartSend(c, "send", n, k)
  BY <1>3, SendGood
<1>4. CASE \E k \in VarCounts : StartSend(c, "broadcast", Everyone, k)
  BY <1>4, SendGood
<1>5. CASE Close(c)
  BY <1>5, CloseFacts, DownGood
<1>6. CASE Receive(c)
  BY <1>6, ReceiveGood DEF Orderly
<1> QED BY <1>1, <1>2, <1>3, <1>4, <1>5, <1>6 DEF ClientStep

-----------------------------------------------------------------------------
(* The steps of the server, and all steps.                                 *)
LEMMA AcceptGood ==
  ASSUME Typed, MembershipOK, NEW c \in Fds, ServerAccept(c), NEW d \in Fds, Good(d)
  PROVE  Good(d)'
<1>1. /\ c \notin conn /\ conn' = conn \cup {c} /\ waiting' = waiting \ {c}
      /\ UNCHANGED <<serialization, status, inq, wbuf, ser, call, seen>> /\ status[c] # "off"
  BY DEF ServerAccept, Accept, client_vars
<1>2. Bystander(d)
  BY <1>1 DEF Bystander
<1>3. d \in waiting' <=> d \in waiting
  BY <1>1 DEF MembershipOK, NoDangling
<1>4. CASE d # c
  BY <1>1, <1>2, <1>3, <1>4, BystanderGood
<1>5. CASE d = c
  <2>1. Answers(d)' = Answers(d) /\ Notices(d)' = Notices(d)
    BY <1>1 DEF Answers, Notices, IsAnswer, IsNotice
  <2>2. Before(d)'
    BY <1>1, <1>5 DEF Before
  <2>3. Talk(d)'
    BY <1>1, <1>3, <2>1 DEF Good, Talk, Up
  <2>4. View(d)'
    <3>1. CASE Up(d)
      <4>1. wbuf[d] = <<>> /\ ser[d] = NoSerialization
        BY <1>1, <1>5, <3>1 DEF Good, Talk
      <4>2. Notices(d) = {}
        BY <4>1 DEF Notices
      <4> QED BY <1>1, <2>1, <4>1, <4>2 DEF View
    <3>2. CASE ~Up(d)
      BY <1>1, <3>2 DEF View, Up
    <3> QED BY <3>1, <3>2
  <2> QED BY <2>2, <2>3, <2>4 DEF Good
<1> QED BY <1>4, <1>5

LEMMA HangupGood ==
  ASSUME Typed, NEW c \in Fds, Hangup(c), NEW d \in Fds, Good(d)
  PROVE  Good(d)'
<1>1. /\ status[c] = "down" /\ conn' = conn \ {c} /\ waiting' = waiting \ {c} /\ out' = Silence
      /\ inq' = [inq EXCEPT ![c] = <<>>] /\ Flush
      /\ UNCHANGED <<serialization, status, ser, call, seen>>
  BY DEF Hangup, Disconnect, client_vars
<1>2. CASE status[d] = "down"
  BY <1>1, <1>2, DownGood
<1>3. CASE status[d] # "down"
  <2>1. d # c /\ wbuf[d] \in Seq(Reply) /\ out'[d] = <<>>
    BY <1>1, <1>3 DEF Typed, Silence
  <2>2. wbuf'[d] = wbuf[d] \o <<>>
    BY <1>1, <1>3, <2>1 DEF Flush
  <2>3. wbuf'[d] = wbuf[d]
    BY <2>1, <2>2
  <2>4. inq'[d] = inq[d]
    BY <1>1, <2>1 DEF Typed
  <2>5. Bystander(d)
    BY <1>1, <2>3, <2>4 DEF Bystander
  <2> QED BY <1>1, <2>1, <2>5, BystanderGood
<1> QED BY <1>2, <1>3

LEMMA ServeGood ==
  ASSUME ~AllocMayFail, TypeOK, TypeOK', MembershipOK, Typed, NEW c \in Fds, Serve(c),
         NEW d \in Fds, Good(c), Good(d)
  PROVE  Good(d)'
<1>1. CASE d = c
  BY <1>1, ServedGood
<1>2. CASE d # c
  <2> DEFINE q == Head(inq[c])
  <2>1. /\ inq[c] # <<>> /\ Dispatch(c, q) /\ inq' = [inq EXCEPT ![c] = Tail(inq[c])] /\ Flush
        /\ UNCHANGED <<status, ser, call, seen>>
    BY DEF Serve, client_vars
  <2>2. q \in Commands
    BY <2>1, HeadCommand
  <2> HIDE DEF q
  <2>3. conn' = conn /\ Overhears(d) /\ Announced(c)
    BY <1>2, <2>1, <2>2, HandlersAnswer
  <2>4. /\ inq'[d] = inq[d] /\ status'[d] = status[d] /\ ser'[d] = ser[d] /\ call'[d] = call[d]
        /\ seen'[d] = seen[d]
    BY <1>2, <2>1 DEF Typed
  <2>5. wbuf'[d] = IF status[d] = "down" THEN <<>> ELSE wbuf[d] \o out'[d]
    BY <2>1 DEF Flush
  <2> QED BY <1>2, <2>3, <2>4, <2>5, OverhearerGood
<1> QED BY <1>1, <1>2

LEMMA SessionKeepsGood ==
  ASSUME Orderly, TypeOK, TypeOK', MembershipOK, Typed, \A c \in Fds : Ready(c),
         \A c \in Fds : Good(c), [SessionNext]_all_vars
  PROVE  (\A c \in Fds : Good(c))'
<1> SUFFICES ASSUME NEW d \in Fds PROVE Good(d)'
  OBVIOUS
<1>1. ASSUME NEW c \in Fds, ClientStep(c) PROVE Good(d)'
  <2>1. CASE d = c
    BY <1>1, <2>1, ClientGood
  <2>2. CASE d # c
    <3>1. OwnStep(c)
      BY <1>1, ClientKeepsReady DEF Orderly
    <3>2. Bystander(d) /\ UNCHANGED <<conn, waiting, serialization>>
      BY <2>2, <3>1, OwnOthers DEF OwnStep, broker_vars, vars
    <3> QED BY <3>2, BystanderGood
  <2> QED BY <2>1, <2>2
<1>2. ASSUME NEW c \in Fds, ServerAccept(c) PROVE Good(d)'
  BY <1>2, AcceptGood
<1>3. ASSUME NEW c \in Fds, Serve(c) PROVE Good(d)'
  BY <1>3, ServeGood DEF Orderly
<1>4. ASSUME NEW c \in Fds, Hangup(c) PROVE Good(d)'
  BY <1>4, HangupGood
<1>5. CASE UNCHANGED all_vars
  <2>1. Bystander(d) /\ UNCHANGED <<conn, waiting, serialization>>
    BY <1>5 DEF all_vars, broker_vars, vars, client_vars, Bystander
  <2> QED BY <2>1, BystanderGood
<1> QED BY <1>1, <1>2, <1>3, <1>4, <1>5, SessionSteps

LEMMA SessionInitGood ==
  ASSUME SessionInit
  PROVE  \A c \in Fds : Good(c)
<1> SUFFICES ASSUME NEW c \in Fds PROVE Good(c)
  OBVIOUS
<1>1. /\ status[c] = "off" /\ inq[c] = <<>> /\ wbuf[c] = <<>> /\ ser[c] = NoSerialization
      /\ call[c] = Idle /\ c \notin conn
  BY DEF SessionInit, Init
<1> QED BY <1>1 DEF Good, Before, Talk, View, Up

(* Every conversation is in order, always.                                 *)
LEMMA Conversations ==
  ASSUME Orderly
  PROVE  SessionSpec => [](Typed /\ \A c \in Fds : Good(c))
<1> DEFINE I == Typed /\ \A c \in Fds : Ready(c)
           J == \A c \in Fds : Good(c)
<1>1. SessionSpec => [](TypeOK /\ MembershipOK)
  <2>1. SessionSpec => Spec
    BY SessionImplementsBroker DEF Orderly
  <2> QED BY <2>1, TypeCorrect, MembershipCorrect, PTL
<1>2. SessionInit => I /\ J
  BY SessionInitTypes, SessionInitGood
<1>3. TypeOK /\ TypeOK' /\ MembershipOK /\ I /\ J /\ [SessionNext]_all_vars => I' /\ J'
  BY SessionKeepsTypes, SessionKeepsGood DEF Orderly
<1> HIDE DEF J
<1>4. I => Typed
  OBVIOUS
<1> HIDE DEF I
<1>5. SessionSpec => [](I /\ J)
  BY <1>1, <1>2, <1>3, PTL DEF SessionSpec
<1>6. SessionSpec => []Typed /\ []J
  BY <1>4, <1>5, PTL
<1> QED BY <1>6, PTL DEF J

(* However the clients and the server interleave, a client is blocked for  *)
(* exactly the answers that are still to come: the counting of answers in  *)
(* client.py and dime.m is sound.  This needs four things: that no         *)
(* allocation of the server fails, since the server leaves a command       *)
(* unanswered otherwise; that nobody uses dime.js, which takes notices for *)
(* answers; that a program that goes on after an exception has sent no     *)
(* batches; and a server prepared for all inputs (AnyInput).               *)
THEOREM StaysInStep ==
  ASSUME Orderly
  PROVE  SessionSpec => []InStep
<1>1. (\A c \in Fds : Good(c)) => InStep
  BY DEF Good, Talk, InStep
<1> QED BY <1>1, Conversations, PTL

(* Under the same assumptions a registered client that has read its socket *)
(* uses the serialization of the server: of all reregister notices and     *)
(* registrations none is lost or overtaken (dime_client_handshake).        *)
THEOREM ViewsAgree ==
  ASSUME Orderly
  PROVE  SessionSpec => []ViewAgrees
<1>1. TypeOK /\ (\A c \in Fds : Good(c)) => ViewAgrees
  BY DEF Good, View, ViewAgrees, TypeOK
<1>2. SessionSpec => []TypeOK
  BY SessionImplementsBroker, TypeCorrect, PTL DEF Orderly
<1> QED BY <1>1, <1>2, Conversations, PTL

-----------------------------------------------------------------------------
(* A wait of a Python or Matlab client ends with the answer to it.         *)
LEMMA WaitEnds ==
  ASSUME Orderly, Typed, \A c \in Fds : Ready(c) /\ Good(c), [SessionNext]_all_vars,
         NEW c \in Fds, call[c].op = "wait", call'[c].op # "wait", status'[c] = "up"
  PROVE  inq[c] = <<>> /\ c \notin waiting
<1>1. call'[c] # call[c] /\ call[c] # Idle /\ call[c].pending = 1
  <2>1. call[c] \in Calls
    BY DEF Typed
  <2> QED BY <2>1, CallFields
<1>2. AnyInput /\ NoJavaScript
  BY DEF Orderly
<1>3. PICK b \in Fds : ClientStep(b)
  BY <1>1, SessionSteps DEF ServerAccept, Serve, Hangup, client_vars, all_vars
<1>4. b = c
  <2>1. OwnStep(b)
    BY <1>2, <1>3, ClientKeepsReady
  <2> QED BY <1>1, <2>1, OwnOthers DEF Bystander
<1>5. CASE Receive(c)
  <2> DEFINE r == Head(wbuf[c])
  <2>1. /\ Up(c) /\ wbuf[c] # <<>>
        /\ MetaRead(c, r) \/ DataRead(c, r) \/ AnswerRead(c, r)
    BY <1>2, <1>5, ReceiveFacts
  <2>2. AnswerRead(c, r)
    BY <1>1, <2>1 DEF MetaRead, DataRead
  <2>3. 1 \in DOMAIN wbuf[c] /\ wbuf[c][1] = r
    <3>1. wbuf[c] \in Seq(Reply)
      BY DEF Typed
    <3> QED BY <2>1, <3>1
  <2> HIDE DEF r
  <2>4. r.reply # "data"
    BY <2>1, <2>3 DEF Good, Talk
  <2>5. IsAnswer(r)
    BY <1>2, <2>2, <2>4, NotJavaScript DEF AnswerRead, IsMeta, IsAnswer
  <2> QED BY <1>1, <2>1, <2>5, LastQuiet DEF r
<1>6. CASE Open(c)
  <2>1. call[c] = Idle
    BY <1>6 DEF Open, Good, Before
  <2> QED BY <1>1, <2>1
<1>7. CASE AskServer(c) \/ \E n \in SyncLimits : StartSync(c, n)
  BY <1>1, <1>7, AskFacts
<1>8. CASE Close(c)
  BY <1>8, CloseFacts
<1> QED BY <1>1, <1>3, <1>4, <1>5, <1>6, <1>7, <1>8 DEF ClientStep, StartSend, CanCall

(* wait of client.py and dime.m blocks until the server has answered it,   *)
(* under the assumptions of StaysInStep.  That nobody uses dime.js is      *)
(* needed: there a reregister notice ends a wait that the server holds     *)
(* back.                                                                   *)
THEOREM WaitsBlock ==
  ASSUME Orderly
  PROVE  SessionSpec => WaitBlocks
<1> DEFINE I == Typed /\ \A c \in Fds : Ready(c)
           J == \A c \in Fds : Good(c)
           Blocks == \A c \in Fds : call[c].op = "wait" /\ call'[c].op # "wait" /\ status'[c] = "up" =>
                       inq[c] = <<>> /\ c \notin waiting
<1>1. SessionSpec => [](TypeOK /\ MembershipOK)
  <2>1. SessionSpec => Spec
    BY SessionImplementsBroker DEF Orderly
  <2> QED BY <2>1, TypeCorrect, MembershipCorrect, PTL
<1>2. SessionInit => I /\ J
  BY SessionInitTypes, SessionInitGood
<1>3. TypeOK /\ TypeOK' /\ MembershipOK /\ I /\ J /\ [SessionNext]_all_vars => I' /\ J'
  BY SessionKeepsTypes, SessionKeepsGood DEF Orderly
<1>4. I /\ J /\ [SessionNext]_all_vars => Blocks
  BY WaitEnds
<1>5. WaitBlocks <=> [][Blocks]_all_vars
  BY DEF WaitBlocks
<1> HIDE DEF I, J, Blocks
<1> QED BY <1>1, <1>2, <1>3, <1>4, <1>5, PTL DEF SessionSpec

-----------------------------------------------------------------------------
(* What clients are handed is never a message that was freed.              *)
LEMMA HandsMessages ==
  ASSUME AnyInput, ~AllocMayFail, TypeOK, RefsCover, NEW c \in Fds, NEW q \in Commands, Dispatch(c, q),
         NEW d \in Fds, NEW i \in DOMAIN out'[d], out'[d][i].reply = "data"
  PROVE  out'[d][i].body \in Copies
<1>n. ASSUME NoData' PROVE FALSE
  BY <1>n DEF NoData, IsData
<1>1. CASE Handshake(c, q.serialization)
  <2> DEFINE s == q.serialization
  <2>1. out' = [e \in Fds |-> IF e = c THEN <<Registered(Chosen(s))>>
                              ELSE IF e \in Told(c, s) THEN <<Reregister>> ELSE <<>>]
    BY <1>1 DEF Handshake
  <2> DEFINE r == Registered(Chosen(s))
  <2> HIDE DEF s
  <2>2. \A e \in Fds : out'[e] = <<r>> \/ out'[e] = <<Reregister>> \/ out'[e] = <<>>
    BY <2>1
  <2>3. ~IsData(r) /\ ~IsData(Reregister)
    BY OutWithoutData
  <2> HIDE DEF r
  <2>4. NoData'
    BY <2>2, <2>3 DEF NoData, IsData
  <2> QED BY <1>n, <2>4
<1>2. CASE Join(c, <<q.name>>) \/ Leave(c, <<q.name>>)
  <2>1. Push(c, Ok) \/ PushError(c)
    BY <1>2 DEF Join, Leave
  <2> QED BY <1>n, <2>1, OutWithoutData, PushesNoData
<1>3. CASE Send(c, q.name, q.body)
  <2>1. PushError(c) \/ \E m \in Free : Relayed(c, m, q.body, Range(members[q.name]))
    BY <1>3 DEF Send, NoMemory
  <2> QED BY <1>n, <2>1, PushesNoData, RelaysNoData
<1>4. CASE Broadcast(c, q.body)
  <2>1. \E m \in Free : Relayed(c, m, q.body, conn \ {c})
    BY <1>4 DEF Broadcast, NoMemory
  <2> QED BY <1>n, <2>1, RelaysNoData
<1>5. CASE q.cmd = "sync" /\ Sync(c, q.n)
  <2> DEFINE k == SyncLength(c, q.n)
             data == [j \in 1..k |-> Data(body[queue[c][j]])]
  <2>1. out' = Only(c, data \o <<Ok>>)
    BY <1>5 DEF Sync
  <2>2. k \in Nat /\ k <= Len(queue[c])
    <3>1. q.n \in Int /\ Len(queue[c]) \in Nat
      BY <1>5, CommandFields DEF TypeOK
    <3> QED BY <3>1 DEF SyncLength
  <2>3. \A j \in 1..k : body[queue[c][j]] \in Copies
    <3> SUFFICES ASSUME NEW j \in 1..k PROVE body[queue[c][j]] \in Copies
      OBVIOUS
    <3>1. j \in DOMAIN queue[c] /\ queue[c][j] \in Msgs
      BY <2>2 DEF TypeOK
    <3>2. c \in Holders(queue[c][j])
      BY <3>1 DEF Holders, Range
    <3>3. body[queue[c][j]] # NoBody
      BY <3>1, <3>2 DEF RefsCover
    <3> QED BY <3>1, <3>3 DEF TypeOK, AnyInput
  <2>4. d = c /\ out'[c] = data \o <<Ok>>
    <3> DEFINE rs == data \o <<Ok>>
    <3>1. out' = Only(c, rs)
      BY <2>1
    <3> HIDE DEF rs
    <3>2. out'[c] = rs /\ (d # c => out'[d] = <<>>)
      BY <3>1 DEF Only
    <3>3. d = c
      BY <3>2
    <3> QED BY <3>2, <3>3 DEF rs
  <2>5. Ok.reply = "ok" /\ \A p : Data(p).body = p
    BY DEF Ok, Data
  <2> DEFINE Item(j) == Data(body[queue[c][j]])
  <2>6. \A j \in 1..k : Item(j).body \in Copies
    BY <2>3, <2>5
  <2>7. data = [j \in 1..k |-> Item(j)]
    OBVIOUS
  <2> HIDE DEF k, Item, data
  <2>8. data \in Seq({Item(j) : j \in 1..k}) /\ Len(data) = k /\ \A j \in 1..k : data[j] = Item(j)
    BY <2>2, <2>7
  <2>9. i \in 1..(k + 1) /\ (i = k + 1 => out'[d][i] = Ok) /\ (i # k + 1 => out'[d][i] = data[i])
    BY <2>2, <2>4, <2>8
  <2>10. i \in 1..k /\ out'[d][i] = Item(i)
    BY <2>2, <2>5, <2>8, <2>9
  <2> QED BY <2>6, <2>10
<1>6. CASE Wait(c)
  <2>1. Push(c, Count(Len(queue[c]))) \/ out' = Silence
    BY <1>6 DEF Wait
  <2> QED BY <1>n, <2>1, OutWithoutData, PushesNoData
<1>7. CASE ListDevices(c)
  <2>1. \E S : Push(c, Devices(S))
    BY <1>7 DEF ListDevices
  <2> QED BY <1>n, <2>1, OutWithoutData, PushesNoData
<1> QED BY <1>1, <1>2, <1>3, <1>4, <1>5, <1>6, <1>7 DEF Dispatch

LEMMA FlushGenuine ==
  ASSUME Typed, TypeOK', NEW d \in Fds, Genuine(d), UNCHANGED seen, Flush,
         \A i \in DOMAIN out'[d] : out'[d][i].reply = "data" => out'[d][i].body \in Copies
  PROVE  Genuine(d)'
<1>1. wbuf'[d] = <<>> \/ wbuf'[d] = wbuf[d] \o out'[d]
  BY DEF Flush
<1>2. wbuf[d] \in Seq(Reply) /\ out'[d] \in Seq(Reply)
  BY DEF Typed, TypeOK
<1> DEFINE s == wbuf[d]
           t == out'[d]
<1>3. /\ DOMAIN (s \o t) = 1..(Len(s) + Len(t)) /\ DOMAIN s = 1..Len(s) /\ DOMAIN t = 1..Len(t)
      /\ Len(s) \in Nat /\ Len(t) \in Nat
      /\ \A i \in DOMAIN s : (s \o t)[i] = s[i]
      /\ \A i \in DOMAIN (s \o t) \ DOMAIN s : i - Len(s) \in DOMAIN t /\ (s \o t)[i] = t[i - Len(s)]
  BY <1>2, ConcatItems
<1>4. \A i \in DOMAIN (s \o t) : (s \o t)[i].reply = "data" => (s \o t)[i].body \in Copies
  <2>1. /\ \A i \in DOMAIN s : s[i].reply = "data" => s[i].body \in Copies
        /\ \A i \in DOMAIN t : t[i].reply = "data" => t[i].body \in Copies
    BY DEF Genuine
  <2> HIDE DEF s, t
  <2> QED BY <1>3, <2>1
<1>5. DOMAIN <<>> = {}
  OBVIOUS
<1> QED BY <1>1, <1>4, <1>5 DEF Genuine

LEMMA ClientGenuine ==
  ASSUME AnyInput, Typed, NEW c \in Fds, Ready(c), Genuine(c), ClientStep(c)
  PROVE  Genuine(c)'
<1>1. CASE ~Receive(c)
  <2>1. wbuf'[c] = wbuf[c] /\ seen'[c] = seen[c]
    <3>1. ASSUME NEW op, NEW to, NEW k \in VarCounts, StartSend(c, op, to, k)
          PROVE  wbuf'[c] = wbuf[c] /\ seen'[c] = seen[c]
      BY <3>1 DEF StartSend
    <3>2. CASE AskServer(c) \/ \E n \in SyncLimits : StartSync(c, n)
      BY <3>2, AskFacts
    <3> QED BY <1>1, <3>1, <3>2, OpenFacts, CloseFacts DEF ClientStep
  <2> QED BY <2>1 DEF Genuine
<1>2. CASE Receive(c)
  <2> DEFINE s == wbuf[c]
             r == Head(s)
  <2>1. /\ s # <<>> /\ wbuf'[c] = Tail(s)
        /\ MetaRead(c, r) \/ DataRead(c, r) \/ AnswerRead(c, r)
    BY <1>2, ReceiveFacts
  <2>2. s \in Seq(Reply)
    BY DEF Typed
  <2>3. \A i \in DOMAIN s : s[i].reply = "data" => s[i].body \in Copies
    BY DEF Genuine
  <2> HIDE DEF s
  <2>4. /\ \A i \in DOMAIN Tail(s) : i + 1 \in DOMAIN s /\ Tail(s)[i] = s[i + 1]
        /\ 1 \in DOMAIN s /\ s[1] = r
    BY <2>1, <2>2
  <2> HIDE DEF r
  <2>5. \A i \in DOMAIN wbuf'[c] : wbuf'[c][i].reply = "data" => wbuf'[c][i].body \in Copies
    BY <2>1, <2>3, <2>4
  <2>6. seen'[c] \in {seen[c], seen[c] \cup {r.body}} /\ (r.reply # "data" => seen'[c] = seen[c])
    BY <2>1 DEF MetaRead, DataRead, AnswerRead
  <2>7. r.reply = "data" => r.body \in Copies
    BY <2>3, <2>4
  <2> QED BY <2>5, <2>6, <2>7 DEF Genuine
<1> QED BY <1>1, <1>2

LEMMA SessionKeepsGenuine ==
  ASSUME AnyInput, ~AllocMayFail, TypeOK, TypeOK', RefsCover, Typed, \A c \in Fds : Ready(c),
         \A c \in Fds : Genuine(c), [SessionNext]_all_vars
  PROVE  (\A c \in Fds : Genuine(c))'
<1> SUFFICES ASSUME NEW d \in Fds PROVE Genuine(d)'
  OBVIOUS
<1>1. ASSUME NEW c \in Fds, ClientStep(c) PROVE Genuine(d)'
  <2>1. CASE d = c
    BY <1>1, <2>1, ClientGenuine
  <2>2. CASE d # c
    <3>1. Bystander(d)
      BY <1>1, <2>2, ClientKeepsReady, OwnOthers
    <3> QED BY <3>1 DEF Bystander, Genuine
  <2> QED BY <2>1, <2>2
<1>2. ASSUME NEW c \in Fds, ServerAccept(c) PROVE Genuine(d)'
  BY <1>2 DEF ServerAccept, client_vars, Genuine
<1>3. ASSUME NEW c \in Fds, Serve(c) PROVE Genuine(d)'
  <2> DEFINE q == Head(inq[c])
  <2>1. inq[c] # <<>> /\ Dispatch(c, q) /\ Flush /\ UNCHANGED seen
    BY <1>3 DEF Serve, client_vars
  <2>2. q \in Commands
    BY <2>1, HeadCommand
  <2> HIDE DEF q
  <2>3. \A i \in DOMAIN out'[d] : out'[d][i].reply = "data" => out'[d][i].body \in Copies
    BY <2>1, <2>2, HandsMessages
  <2> QED BY <2>1, <2>3, FlushGenuine
<1>4. ASSUME NEW c \in Fds, Hangup(c) PROVE Genuine(d)'
  <2>1. out' = Silence /\ Flush /\ UNCHANGED seen
    BY <1>4 DEF Hangup, Disconnect, client_vars
  <2>2. DOMAIN out'[d] = {}
    BY <2>1 DEF Silence
  <2> QED BY <2>1, <2>2, FlushGenuine
<1>5. CASE UNCHANGED all_vars
  BY <1>5 DEF all_vars, client_vars, Genuine
<1> QED BY <1>1, <1>2, <1>3, <1>4, <1>5, SessionSteps

(* While no allocation of the server fails, clients and channels keep      *)
(* their types, whatever the clients are and do.  That is more than it     *)
(* looks: every message that sync_r reads has a content, so that a message *)
(* is never freed while a queue holds it (RefsCover) matters here, and the *)
(* batches of send_r and broadcast_r never leave the variables of the call.*)
THEOREM ClientsTypeCorrect ==
  ASSUME AnyInput, ~AllocMayFail
  PROVE  SessionSpec => []ClientTypeOK
<1> DEFINE I == Typed /\ \A c \in Fds : Ready(c)
           J == \A c \in Fds : Genuine(c)
<1>1. SessionSpec => [](TypeOK /\ RefsCover)
  BY SessionImplementsBroker, TypeCorrect, NoUseAfterFree, PTL
<1>2. SessionInit => I /\ J
  <2>1. SessionInit => J
    BY DEF SessionInit, Genuine
  <2> QED BY <2>1, SessionInitTypes
<1>3. TypeOK /\ TypeOK' /\ RefsCover /\ I /\ J /\ [SessionNext]_all_vars => I' /\ J'
  BY SessionKeepsTypes, SessionKeepsGenuine
<1>4. I /\ J => ClientTypeOK
  <2> SUFFICES ASSUME I, J PROVE ClientTypeOK
    OBVIOUS
  <2>1. \A c \in Fds : seen[c] \in SUBSET Copies
    BY DEF Genuine
  <2>2. seen \in [Fds -> SUBSET Copies]
    BY <2>1 DEF Typed
  <2> QED BY <2>2 DEF Typed, ClientTypeOK
<1> HIDE DEF I, J
<1> QED BY <1>1, <1>2, <1>3, <1>4, PTL DEF SessionSpec

-----------------------------------------------------------------------------
(* No variable is lost to a change of the serialization.                   *)

(* No client asks for JSON, which the server then keeps, in the company of *)
(* a Matlab client, which cannot decode it.                                *)
NoMix == \A w \in Worlds : \A c, d \in Fds : ~(w[c] = "json" /\ w[d] = "matlab")

(* Nobody leaves a group or broadcasts: a resend reaches who is in the     *)
(* group by then, and a broadcast those who have not registered yet.       *)
SendsToGroups == \A c \in Fds : "leave" \notin MayCall[c] /\ "broadcast" \notin MayCall[c]

(* The conversations are in order, and programs die of exceptions.         *)
Lossless == Orderly /\ ~CatchErrors /\ NoMix /\ SendsToGroups

LEMMA KindFacts ==
  ASSUME NoJavaScript, Typed, NEW c \in Fds
  PROVE  /\ Asks(c) = kind[c] /\ kind[c] \in {"pickle", "json", "matlab"}
         /\ "dimeb" \in Understands(c) /\ kind[c] \in Understands(c)
         /\ kind[c] # "matlab" => "json" \in Understands(c)
<1>1. kind[c] \in Kinds /\ kind[c] # "javascript"
  BY WorldsAssumption DEF Typed, NoJavaScript
<1> QED BY <1>1 DEF Kinds, Asks, Understands, Matlab, JavaScript

(* What a client knows of the serialization, and will know.                *)
NoticeTrue(c, r) ==
  /\ r.reply = "registered" => serialization \in Understands(c)
  /\ serialization \in {r.serialization, "dimeb"}
  /\ r.reply = "reregister" => r.serialization = "dimeb"

Fluent(c) ==
  Up(c) =>
    /\ ser[c] # NoSerialization => serialization \in Understands(c) /\ serialization \in {ser[c], "dimeb"}
    /\ \A i \in Notices(c) : NoticeTrue(c, wbuf[c][i])
    /\ groups[c] # {} => ser[c] # NoSerialization

(* The commands of a send carry what the call says.                        *)
Carries(c, q) ==
  /\ q.name = call[c].to /\ q.body.ser = call[c].began
  /\ q.body.var \in call[c].lo..call[c].hi

Sending(c) ==
  Up(c) =>
    /\ call[c].op \notin {"leave", "broadcast"}
    /\ call[c].op = "send" =>
         /\ ser[c] \in {call[c].began, "dimeb"}
         /\ \A i \in DOMAIN inq[c] : Carries(c, inq[c][i])

(* Every command is what its sender makes it.                              *)
Signed(c, q) ==
  /\ q.cmd = "handshake" => q.serialization = kind[c]
  /\ q.cmd \in {"send", "broadcast"} => q.body.from = c

Honest(c) == \A i \in DOMAIN inq[c] : Signed(c, inq[c][i])

(* JSON is only chosen where everybody can decode it.                      *)
JsonKnown == serialization = "json" => \A c \in Fds : kind[c] # "matlab"

-----------------------------------------------------------------------------
(* One more batch of the call k, in detail.                                *)
Sends(c, k, q) ==
  /\ q.cmd = k.op /\ (k.op = "send" => q.name = k.to)
  /\ q.body.from = c /\ q.body.ser = ser[c] /\ q.body.var \in k.lo..k.hi

Batched(c, k) ==
  \E t \in Seq(Commands) :
    /\ inq'[c] = inq[c] \o t
    /\ \A i \in DOMAIN t : Sends(c, k, t[i])
    /\ \A v \in k.next..k.hi : v >= call'[c].next \/ \E i \in DOMAIN t : t[i].body = Copy(c, v)
    /\ call'[c].op = k.op /\ call'[c].to = k.to /\ call'[c].began = k.began
    /\ call'[c].lo = k.lo /\ call'[c].hi = k.hi

LEMMA IssueBatch ==
  ASSUME Typed, NEW c \in Fds, ser[c] \in AllSerializations,
         NEW k \in Drafts, k.lo <= k.next, k.next <= k.hi, Issue(c, k)
  PROVE  Batched(c, k)
<1> USE StrideAssumption, BoundsAssumption
<1> DEFINE end == BatchEnd(c, k)
           size == end - k.next + 1
           next == k.next + BatchSize(c)
           Cmd(i) == IF k.op = "send"
                     THEN [cmd |-> "send", name |-> k.to, body |-> Copy(c, k.next + i - 1)]
                     ELSE [cmd |-> "broadcast", body |-> Copy(c, k.next + i - 1)]
           t == [i \in 1..size |-> Cmd(i)]
<1>1. /\ k.lo \in 1..MaxVars /\ k.hi \in 1..MaxVars /\ k.next \in Nat \ {0}
      /\ k.op \in {"send", "broadcast"} /\ (k.op = "send" => k.to \in Names)
  BY DraftFields
<1>2. BatchSize(c) \in Nat \ {0}
  BY DEF BatchSize
<1>3. end \in Nat /\ k.next <= end /\ end <= k.hi
  BY <1>1, <1>2, SMTT(30) DEF BatchEnd
<1>4. end < k.hi => next <= end + 1
  BY <1>1, <1>2, SMTT(30) DEF BatchEnd, BatchSize, Matlab, JavaScript
<1>5. size \in Nat \ {0} /\ next \in Nat
  BY <1>1, <1>2, <1>3
<1>6. /\ call' = [call EXCEPT ![c] = [k EXCEPT !.pending = size, !.next = next]]
      /\ inq' = [inq EXCEPT ![c] = inq[c] \o t]
  <2>1. call' = [call EXCEPT ![c] = [k EXCEPT !.pending = size, !.next = k.next + BatchSize(c)]]
    BY Zenon DEF Issue
  <2>2. inq' = [inq EXCEPT ![c] = inq[c] \o t]
    BY Zenon DEF Issue, Transmit
  <2> QED BY <2>1, <2>2
<1> HIDE DEF end, next
<1>7. ASSUME NEW i \in 1..size
      PROVE  Cmd(i) \in Commands /\ Sends(c, k, Cmd(i)) /\ Cmd(i).body = Copy(c, k.next + i - 1)
  <2> DEFINE v == k.next + i - 1
  <2>1. v \in 1..MaxVars /\ v \in k.lo..k.hi
    BY <1>1, <1>3, <1>5, SMTT(30)
  <2> HIDE DEF v
  <2>2. Copy(c, v) \in Copies /\ Copy(c, v).from = c /\ Copy(c, v).ser = ser[c] /\ Copy(c, v).var = v
    BY <2>1, CopyType DEF Copy
  <2> DEFINE p == Copy(c, v)
  <2> HIDE DEF p
  <2>3. Cmd(i) = IF k.op = "send" THEN [cmd |-> "send", name |-> k.to, body |-> p]
                 ELSE [cmd |-> "broadcast", body |-> p]
    BY DEF p, v
  <2>4. Cmd(i) \in Commands
    <3>1. p \in Copies
      BY <2>2 DEF p
    <3> QED BY <1>1, <2>3, <3>1, CommandTypes
  <2>5. Cmd(i).body = p /\ Cmd(i).cmd = k.op /\ (k.op = "send" => Cmd(i).name = k.to)
    <3> HIDE DEF Cmd
    <3> QED BY <1>1, <2>3
  <2> QED BY <2>1, <2>2, <2>4, <2>5 DEF Sends, p, v
<1> HIDE DEF size, Cmd
<1>8. t \in Seq(Commands) /\ DOMAIN t = 1..size /\ \A i \in DOMAIN t : t[i] = Cmd(i)
  BY <1>5, <1>7
<1>9. inq'[c] = inq[c] \o t /\ call'[c] = [k EXCEPT !.pending = size, !.next = next]
  BY <1>6 DEF Typed
<1>10. /\ call'[c].op = k.op /\ call'[c].to = k.to /\ call'[c].began = k.began
       /\ call'[c].lo = k.lo /\ call'[c].hi = k.hi /\ call'[c].next = next
  <2> DEFINE l == [k EXCEPT !.pending = size, !.next = next]
  <2>1. /\ l.op = k.op /\ l.to = k.to /\ l.began = k.began /\ l.lo = k.lo /\ l.hi = k.hi /\ l.next = next
    BY DEF Drafts
  <2>2. call'[c] = l
    BY <1>9
  <2> HIDE DEF l
  <2> QED BY <2>1, <2>2
<1> HIDE DEF t
<1>11. ASSUME NEW v \in k.next..k.hi
       PROVE  v >= call'[c].next \/ \E i \in DOMAIN t : t[i].body = Copy(c, v)
  <2>1. CASE v <= end
    <3> DEFINE i == v - k.next + 1
    <3>0. k.next \in Nat /\ end \in Nat /\ v \in Nat /\ k.next <= v
      BY <1>1, <1>3
    <3>1. i \in 1..size /\ k.next + i - 1 = v
      BY <2>1, <3>0 DEF size
    <3> HIDE DEF i
    <3> QED BY <1>7, <1>8, <3>1
  <2>2. CASE v > end
    <3>1. v >= next
      BY <1>1, <1>3, <1>4, <1>5, <2>2
    <3> QED BY <1>10, <3>1
  <2> QED BY <1>1, <1>3, <2>1, <2>2
<1>12. \A i \in DOMAIN t : Sends(c, k, t[i])
  BY <1>7, <1>8
<1>13. t \in Seq(Commands) /\ inq'[c] = inq[c] \o t
  BY <1>8, <1>9
<1> QED BY <1>10, <1>11, <1>12, <1>13 DEF Batched

(* How a send goes on after an answer.                                     *)
Restarts(c) ==
  \E l \in Drafts :
    /\ Batched(c, l) /\ l.op = "send" /\ l.to = call[c].to /\ l.began = ser[c]
    /\ l.lo = call[c].lo /\ l.hi = call[c].hi
    /\ l.next = IF call[c].began = ser[c] THEN call[c].next ELSE l.lo

Returns(c) ==
  /\ call[c].began = ser[c] /\ call[c].next > call[c].hi
  /\ call'[c] = Idle /\ inq'[c] = inq[c]

LEMMA SendAnswered ==
  ASSUME ~CatchErrors, Typed, NEW c \in Fds, Ready(c), call[c].op = "send",
         NEW r, ReadAnswer(c, r)
  PROVE  \/ status'[c] = "down" /\ inq'[c] = inq[c]
         \/ CountsDown(c)
         \/ call[c].pending = 1 /\ status'[c] = status[c] /\ (Returns(c) \/ Restarts(c))
<1> DEFINE k == call[c]
<1>1. k \in Batches /\ k \in Drafts
  <2>1. k \in Calls
    BY DEF Typed
  <2> QED BY <2>1, CallFields, BatchFields
<1>2. /\ k.lo <= k.hi /\ k.lo <= k.next /\ ser[c] \in AllSerializations
      /\ k.lo \in Nat /\ k.hi \in Nat /\ k.next \in Nat
  BY <1>1, DraftFields DEF Ready, Typed
<1>3. CASE Raise(c)
  BY <1>3, RaiseFacts DEF Raised
<1>4. CASE k.pending = 1 /\ EndBatch(c, k)
  <2>1. CASE k.began # ser[c]
    <3> DEFINE l == [k EXCEPT !.began = ser[c], !.next = k.lo]
    <3>1. Issue(c, l) /\ UNCHANGED status
      BY <1>4, <2>1, Zenon DEF EndBatch
    <3>2. /\ l \in Drafts /\ l.op = k.op /\ l.lo = k.lo /\ l.hi = k.hi /\ l.next = k.lo
          /\ l.to = k.to /\ l.began = ser[c]
      <4>1. l \in Drafts /\ l.op = k.op /\ l.lo = k.lo /\ l.hi = k.hi /\ l.next = k.lo
        BY <1>1, <1>2, Redrafted
      <4>2. l.to = k.to /\ l.began = ser[c]
        BY <1>1 DEF Drafts
      <4> QED BY <4>1, <4>2
    <3> HIDE DEF l
    <3>3. Batched(c, l)
      BY <1>2, <3>1, <3>2, IssueBatch
    <3>4. Restarts(c)
      BY <2>1, <3>2, <3>3 DEF Restarts
    <3> QED BY <1>4, <3>1, <3>4
  <2>2. CASE k.began = ser[c] /\ k.next <= k.hi
    <3>1. Issue(c, k) /\ UNCHANGED status
      BY <1>4, <2>2 DEF EndBatch
    <3>2. Batched(c, k)
      BY <1>1, <1>2, <2>2, <3>1, IssueBatch
    <3>3. Restarts(c)
      BY <1>1, <2>2, <3>2 DEF Restarts
    <3> QED BY <1>4, <3>1, <3>3
  <2>3. CASE k.began = ser[c] /\ ~(k.next <= k.hi)
    <3>1. call' = [call EXCEPT ![c] = Idle] /\ UNCHANGED <<inq, status>>
      BY <1>4, <2>3 DEF EndBatch
    <3>2. call'[c] = Idle
      BY <3>1 DEF Typed
    <3>3. Returns(c)
      BY <1>2, <2>3, <3>1, <3>2 DEF Returns
    <3> QED BY <1>4, <3>1, <3>3
  <2> QED BY <2>1, <2>2, <2>3
<1>5. CASE /\ k.pending # 1
           /\ call' = [call EXCEPT ![c] = IF k.pending = 1 THEN Idle ELSE [k EXCEPT !.pending = k.pending - 1]]
           /\ UNCHANGED <<status, inq>>
  <2> DEFINE l == [k EXCEPT !.pending = k.pending - 1]
  <2>1. call' = [call EXCEPT ![c] = l]
    BY <1>5
  <2> HIDE DEF l
  <2>2. call'[c] = l
    BY <2>1 DEF Typed
  <2> QED BY <1>1, <1>5, <2>2 DEF CountsDown, l
<1> QED BY <1>3, <1>4, <1>5 DEF ReadAnswer

-----------------------------------------------------------------------------
(* The steps of a client.                                                  *)
LEMMA ConcatCommands ==
  ASSUME NEW s \in Seq(Commands), NEW t \in Seq(Commands)
  PROVE  /\ \A i \in DOMAIN s : i \in DOMAIN (s \o t) /\ (s \o t)[i] = s[i]
         /\ \A i \in DOMAIN t : Len(s) + i \in DOMAIN (s \o t) /\ (s \o t)[Len(s) + i] = t[i]
         /\ \A i \in DOMAIN (s \o t) :
              (i \in DOMAIN s /\ (s \o t)[i] = s[i]) \/ \E j \in DOMAIN t : (s \o t)[i] = t[j]
<1>1. /\ Len(s) \in Nat /\ Len(t) \in Nat /\ DOMAIN s = 1..Len(s) /\ DOMAIN t = 1..Len(t)
      /\ DOMAIN (s \o t) = 1..(Len(s) + Len(t))
      /\ \A i \in 1..(Len(s) + Len(t)) : (s \o t)[i] = IF i <= Len(s) THEN s[i] ELSE t[i - Len(s)]
  OBVIOUS
<1> DEFINE u == s \o t
           m == Len(s)
           n == Len(t)
<1> HIDE DEF u, m, n
<1>2. /\ m \in Nat /\ n \in Nat /\ DOMAIN s = 1..m /\ DOMAIN t = 1..n /\ DOMAIN u = 1..(m + n)
      /\ \A i \in 1..(m + n) : u[i] = IF i <= m THEN s[i] ELSE t[i - m]
  BY <1>1 DEF u, m, n
<1>3. \A i \in DOMAIN s : i \in DOMAIN u /\ u[i] = s[i]
  BY <1>2
<1>4. \A i \in DOMAIN t : m + i \in DOMAIN u /\ u[m + i] = t[i]
  BY <1>2
<1>5. ASSUME NEW i \in DOMAIN u
      PROVE  (i \in DOMAIN s /\ u[i] = s[i]) \/ \E j \in DOMAIN t : u[i] = t[j]
  <2>1. CASE i <= m
    BY <1>2, <2>1
  <2>2. CASE ~(i <= m)
    <3>1. i - m \in DOMAIN t /\ u[i] = t[i - m]
      BY <1>2, <2>2
    <3> QED BY <3>1
  <2> QED BY <2>1, <2>2
<1> QED BY <1>3, <1>4, <1>5 DEF u, m

LEMMA SentSigned ==
  ASSUME NEW c, NEW k \in Drafts, NEW q, Sends(c, k, q)
  PROVE  Signed(c, q)
BY DraftFields DEF Sends, Signed

(* The only other commands of a client step are handshakes and requests.   *)
Signing(c) ==
  \E t \in Seq(Commands) : inq'[c] = inq[c] \o t /\ \A i \in DOMAIN t : Signed(c, t[i])

LEMMA OneSigned ==
  ASSUME NEW c, NEW q \in Commands, Signed(c, q), inq'[c] = inq[c] \o <<q>>
  PROVE  Signing(c)
<1>1. <<q>> \in Seq(Commands) /\ \A i \in DOMAIN <<q>> : <<q>>[i] = q
  OBVIOUS
<1> QED BY <1>1 DEF Signing

LEMMA NoneSigned ==
  ASSUME NEW c, inq[c] \in Seq(Commands), inq'[c] = inq[c]
  PROVE  Signing(c)
<1>1. <<>> \in Seq(Commands) /\ inq[c] \o <<>> = inq[c] /\ DOMAIN <<>> = {}
  OBVIOUS
<1> QED BY <1>1 DEF Signing

LEMMA BatchSigned ==
  ASSUME NEW c, NEW k \in Drafts, Batched(c, k)
  PROVE  Signing(c)
BY SentSigned DEF Batched, Signing

(* A send that starts.                                                     *)
LEMMA StartSendBatch ==
  ASSUME Typed, NEW c \in Fds, NEW to \in Names, NEW k \in VarCounts, StartSend(c, "send", to, k),
         ~CatchErrors
  PROVE  \/ status'[c] = "down" /\ inq'[c] = inq[c]
         \/ \E l \in Drafts : Batched(c, l) /\ l.op = "send" /\ l.began = ser[c]
<1> USE VarCountsAssumption, BoundsAssumption
<1> DEFINE lo == nvars[c] + 1
           hi == nvars[c] + k
           l == [op |-> "send", pending |-> 0, to |-> to, began |-> ser[c],
                 lo |-> nvars[c] + 1, hi |-> nvars[c] + k, next |-> nvars[c] + 1]
<1>1. ser[c] \in AllSerializations /\ nvars[c] + k <= MaxVars
  BY DEF StartSend, CanCall, Typed
<1>2. Issue(c, l) \/ Raise(c)
  BY DEF StartSend
<1>3. lo \in 1..MaxVars /\ hi \in 1..MaxVars /\ lo <= hi
  <2>1. nvars[c] \in Nat /\ k \in Nat \ {0}
    BY DEF Typed
  <2> QED BY <1>1, <2>1
<1>4. /\ l \in Drafts /\ l.op = "send" /\ l.began = ser[c] /\ l.lo = lo /\ l.hi = hi /\ l.next = lo
  BY <1>1, <1>3 DEF Drafts
<1> HIDE DEF l
<1>5. CASE Issue(c, l)
  <2>1. Batched(c, l)
    BY <1>1, <1>3, <1>4, <1>5, IssueBatch
  <2> QED BY <1>4, <2>1
<1>6. CASE Raise(c)
  BY <1>6, RaiseFacts DEF Raised
<1> QED BY <1>2, <1>5, <1>6

(* A call of send is a batch, and an answer that it reads.                 *)
LEMMA ReadsAnswer ==
  ASSUME Typed, NEW c \in Fds, Receive(c), call[c].op = "send"
  PROVE  \/ ReadMeta(c, Head(wbuf[c]))
         \/ ReadAnswer(c, Head(wbuf[c]))
<1>1. call[c].op # "sync"
  OBVIOUS
<1> QED BY <1>1 DEF Receive, ReadData

LEMMA ClientSigns ==
  ASSUME Lossless, Typed, NEW c \in Fds, Ready(c), Sending(c), ClientStep(c)
  PROVE  Signing(c)
<1>1. AnyInput /\ NoJavaScript /\ ~CatchErrors /\ SendsToGroups
  BY DEF Lossless, Orderly
<1>2. inq[c] \in Seq(Commands) /\ call[c] \in Calls
  BY DEF Typed
<1>3. CASE Open(c)
  <2> DEFINE q == [cmd |-> "handshake", serialization |-> Asks(c)]
  <2>1. inq' = [inq EXCEPT ![c] = inq[c] \o <<q>>]
    BY <1>3 DEF Open, Transmit
  <2>2. q \in Commands /\ q.cmd = "handshake" /\ q.serialization = kind[c]
    BY <1>1, AsksType, CommandTypes, KindFacts
  <2> HIDE DEF q
  <2>3. inq'[c] = inq[c] \o <<q>>
    BY <2>1 DEF Typed
  <2> QED BY <2>2, <2>3, OneSigned DEF Signed
<1>4. CASE AskServer(c) \/ \E n \in SyncLimits : StartSync(c, n)
  <2>1. /\ TypedAt(c)' /\ call'[c] \notin Batches /\ call'[c].op \notin {"none", "handshake"}
        /\ \E q \in Commands : q.cmd = call'[c].op /\ inq'[c] = inq[c] \o <<q>>
    BY <1>4, AskFacts
  <2>2. PICK q \in Commands : q.cmd = call'[c].op /\ inq'[c] = inq[c] \o <<q>>
    BY <2>1
  <2>3. q.cmd \notin {"handshake", "send", "broadcast"}
    <3>1. call'[c] \in Calls
      BY <2>1 DEF TypedAt
    <3> QED BY <2>1, <2>2, <3>1, CallFields
  <2> QED BY <2>2, <2>3, OneSigned DEF Signed
<1>5. ASSUME NEW n \in Names, NEW k \in VarCounts, StartSend(c, "send", n, k) PROVE Signing(c)
  BY <1>1, <1>2, <1>5, StartSendBatch, BatchSigned, NoneSigned
<1>6. ASSUME NEW k \in VarCounts, StartSend(c, "broadcast", Everyone, k) PROVE FALSE
  BY <1>1, <1>6 DEF StartSend, CanCall, SendsToGroups
<1>7. CASE Close(c)
  BY <1>2, <1>7, NoneSigned DEF Close
<1>8. CASE Receive(c)
  <2> DEFINE r == Head(wbuf[c])
  <2>1. MetaRead(c, r) \/ DataRead(c, r) \/ AnswerRead(c, r)
    BY <1>1, <1>8, ReceiveFacts
  <2>2. Up(c)
    BY <1>8 DEF Receive
  <2>3. CASE call[c].op = "send"
    <3>1. CASE ReadMeta(c, r)
      BY <1>2, <3>1, NoneSigned DEF ReadMeta
    <3>2. CASE ReadAnswer(c, r)
      <4>1. \/ status'[c] = "down" /\ inq'[c] = inq[c]
            \/ CountsDown(c)
            \/ Returns(c) \/ Restarts(c)
        <5> HIDE DEF r
        <5> QED BY <1>1, <2>3, <3>2, SendAnswered
      <4>2. CASE Restarts(c)
        BY <4>2, BatchSigned DEF Restarts
      <4> QED BY <1>2, <4>1, <4>2, NoneSigned DEF CountsDown, Returns
    <3> QED BY <1>8, <2>3, <3>1, <3>2, ReadsAnswer
  <2>4. CASE call[c].op # "send"
    <3>1. call[c] \notin Batches
      BY <1>2, <2>2, <2>4, CallFields DEF Sending
    <3>2. CASE MetaRead(c, r) \/ DataRead(c, r)
      BY <1>2, <3>2, NoneSigned DEF MetaRead, DataRead
    <3>3. CASE AnswerRead(c, r)
      <4>1. Raised(c) \/ Ended(c) \/ SyncsAgain(c)
        BY <3>1, <3>3 DEF AnswerRead, AnswerTaken, SendsAgain, CountsDown
      <4>2. CASE SyncsAgain(c)
        BY <4>2, OneSigned DEF SyncsAgain, Signed
      <4> QED BY <1>2, <4>1, <4>2, NoneSigned DEF Raised, Ended
    <3> QED BY <2>1, <3>2, <3>3
  <2> QED BY <2>3, <2>4
<1> QED BY <1>3, <1>4, <1>5, <1>6, <1>7, <1>8 DEF ClientStep

LEMMA ClientHonest ==
  ASSUME Lossless, Typed, NEW c \in Fds, Ready(c), Sending(c), Honest(c), ClientStep(c)
  PROVE  Honest(c)'
<1>1. OwnStep(c)
  BY ClientKeepsReady DEF Lossless, Orderly
<1>2. kind' = kind /\ inq[c] \in Seq(Commands)
  BY <1>1 DEF OwnStep, Typed
<1>3. PICK t \in Seq(Commands) : inq'[c] = inq[c] \o t /\ \A i \in DOMAIN t : Signed(c, t[i])
  BY ClientSigns DEF Signing
<1> SUFFICES ASSUME NEW i \in DOMAIN inq'[c] PROVE Signed(c, inq'[c][i])
  BY <1>2 DEF Honest, Signed
<1>4. (i \in DOMAIN inq[c] /\ inq'[c][i] = inq[c][i]) \/ \E j \in DOMAIN t : inq'[c][i] = t[j]
  BY <1>2, <1>3, ConcatCommands
<1> QED BY <1>3, <1>4 DEF Honest

(* The commands of a batch carry what the call says, if nothing else is on *)
(* its way.                                                                *)
LEMMA BatchCarries ==
  ASSUME NEW c \in Fds, inq[c] = <<>>, NEW l \in Drafts, Batched(c, l), l.op = "send", l.began = ser[c],
         ser'[c] = ser[c]
  PROVE  Sending(c)'
<1>1. PICK t \in Seq(Commands) :
        /\ inq'[c] = inq[c] \o t
        /\ \A i \in DOMAIN t : Sends(c, l, t[i])
        /\ call'[c].op = l.op /\ call'[c].to = l.to /\ call'[c].began = l.began
        /\ call'[c].lo = l.lo /\ call'[c].hi = l.hi
  BY DEF Batched
<1>2. inq'[c] = t
  BY <1>1
<1>3. \A i \in DOMAIN inq'[c] : Carries(c, inq[c][i])'
  BY <1>1, <1>2 DEF Sends, Carries
<1> QED BY <1>1, <1>3 DEF Sending

LEMMA ClientSending ==
  ASSUME Lossless, Typed, NEW c \in Fds, Ready(c), Good(c), Fluent(c), Sending(c), ClientStep(c)
  PROVE  Sending(c)'
<1>1. AnyInput /\ NoJavaScript /\ ~CatchErrors /\ SendsToGroups
  BY DEF Lossless, Orderly
<1>2. call[c] \in Calls /\ call'[c] \in Calls /\ wbuf[c] \in Seq(Reply)
  BY <1>1, ClientKeepsReady DEF Typed, TypedAt
<1>3. ASSUME call'[c].op \notin {"leave", "broadcast", "send"} PROVE Sending(c)'
  BY <1>3 DEF Sending
<1>4. ASSUME status'[c] = "down" PROVE Sending(c)'
  BY <1>4 DEF Sending, Up
<1>5. CASE Open(c)
  <2>1. call'[c] = Ask("handshake")
    BY <1>5, OpenFacts
  <2> QED BY <1>3, <2>1, PlainCalls
<1>6. CASE AskServer(c)
  <2>1. PICK op \in {"join", "leave", "wait", "devices"} : CanCall(c, op) /\ call' = [call EXCEPT ![c] = Ask(op)]
    BY <1>6 DEF AskServer, Request
  <2>2. op # "leave"
    BY <1>1, <2>1 DEF CanCall, SendsToGroups
  <2>3. call'[c] = Ask(op)
    BY <2>1 DEF Typed
  <2> QED BY <1>3, <2>1, <2>2, <2>3, PlainCalls
<1>7. ASSUME NEW n \in SyncLimits, StartSync(c, n) PROVE Sending(c)'
  <2> DEFINE k == [op |-> "sync", pending |-> 1, n |-> n, skipped |-> 0, nested |-> FALSE]
  <2>1. call' = [call EXCEPT ![c] = k]
    BY <1>7 DEF StartSync, SyncFor
  <2>2. k.op = "sync"
    OBVIOUS
  <2> HIDE DEF k
  <2>3. call'[c] = k
    BY <2>1 DEF Typed
  <2> QED BY <1>3, <2>2, <2>3
<1>8. ASSUME NEW n \in Names, NEW k \in VarCounts, StartSend(c, "send", n, k) PROVE Sending(c)'
  <2>1. call[c] = Idle /\ Up(c) /\ ser'[c] = ser[c]
    BY <1>8, StartSendFacts
  <2>2. inq[c] = <<>>
    BY <2>1, IdleQuiet
  <2> QED BY <1>1, <1>4, <1>8, <2>1, <2>2, StartSendBatch, BatchCarries
<1>9. ASSUME NEW k \in VarCounts, StartSend(c, "broadcast", Everyone, k) PROVE FALSE
  BY <1>1, <1>9 DEF StartSend, CanCall, SendsToGroups
<1>10. CASE Close(c)
  BY <1>4, <1>10, CloseFacts
<1>11. CASE Receive(c)
  <2> DEFINE r == Head(wbuf[c])
  <2>1. /\ Up(c) /\ wbuf[c] # <<>> /\ wbuf'[c] = Tail(wbuf[c])
        /\ MetaRead(c, r) \/ DataRead(c, r) \/ AnswerRead(c, r)
    BY <1>1, <1>11, ReceiveFacts
  <2>2. call[c].op \notin {"leave", "broadcast"}
    BY <2>1 DEF Sending
  <2>3. r = wbuf[c][1] /\ 1 \in DOMAIN wbuf[c]
    BY <1>2, <2>1
  <2> HIDE DEF r
  <2>4. CASE call[c].op # "send"
    <3>1. call[c] \notin Batches
      BY <1>2, <2>2, <2>4, CallFields
    <3>2. CASE MetaRead(c, r)
      BY <1>3, <2>2, <2>4, <3>2 DEF MetaRead
    <3>3. CASE DataRead(c, r)
      BY <1>3, <3>3 DEF DataRead
    <3>4. CASE AnswerRead(c, r)
      <4>1. Raised(c) \/ Ended(c) \/ SyncsAgain(c)
        BY <3>1, <3>4 DEF AnswerRead, AnswerTaken, SendsAgain, CountsDown
      <4> QED BY <1>3, <4>1 DEF Raised, Ended, SyncsAgain, Idle
    <3> QED BY <2>1, <3>2, <3>3, <3>4
  <2>5. CASE call[c].op = "send"
    <3>1. CASE MetaRead(c, r)
      <4>1. /\ r.reply = "reregister" /\ ser'[c] = r.serialization /\ call'[c] = call[c] /\ inq'[c] = inq[c]
        BY <3>1 DEF MetaRead, IsMeta
      <4>2. 1 \in Notices(c)
        BY <2>3, <4>1 DEF Notices, IsNotice
      <4>3. ser'[c] = "dimeb"
        BY <2>1, <2>3, <4>1, <4>2 DEF Fluent, NoticeTrue
      <4> QED BY <2>1, <2>2, <2>5, <4>1, <4>3 DEF Sending, Carries
    <3>2. CASE AnswerRead(c, r)
      <4>1. ReadAnswer(c, r)
        <5>1. ~IsMeta(c, r)
          BY <3>2 DEF AnswerRead
        <5> QED BY <1>11, <2>5, <5>1, ReadsAnswer DEF ReadMeta, r
      <4>2. ser'[c] = ser[c]
        BY <2>5, <3>2 DEF AnswerRead
      <4>3. \/ status'[c] = "down" /\ inq'[c] = inq[c]
            \/ CountsDown(c)
            \/ call[c].pending = 1 /\ status'[c] = status[c] /\ (Returns(c) \/ Restarts(c))
        BY <1>1, <2>5, <4>1, SendAnswered
      <4>4. CASE CountsDown(c)
        <5>1. /\ call[c] \in Batches /\ inq'[c] = inq[c]
              /\ call'[c] = [call[c] EXCEPT !.pending = call[c].pending - 1]
          BY <4>4 DEF CountsDown
        <5>2. /\ call'[c].op = call[c].op /\ call'[c].began = call[c].began /\ call'[c].to = call[c].to
              /\ call'[c].lo = call[c].lo /\ call'[c].hi = call[c].hi
          BY <5>1 DEF Batches
        <5> QED BY <2>1, <2>2, <4>2, <5>1, <5>2 DEF Sending, Carries
      <4>5. CASE Returns(c)
        BY <1>3, <4>5 DEF Returns, Idle
      <4>6. CASE call[c].pending = 1 /\ Restarts(c)
        <5>1. ~JavaScript(c)
          BY <1>1, NotJavaScript
        <5>2. IsAnswer(r)
          <6>1. r.reply # "reregister"
            BY <3>2, <5>1 DEF AnswerRead, IsMeta
          <6>2. r.reply # "data"
            BY <2>1, <2>3, <2>5 DEF Good, Talk
          <6> QED BY <6>1, <6>2 DEF IsAnswer
        <5>3. inq[c] = <<>>
          BY <2>1, <4>6, <5>2, LastQuiet DEF r
        <5> QED BY <4>2, <4>6, <5>3, BatchCarries DEF Restarts
      <4> QED BY <1>4, <4>3, <4>4, <4>5, <4>6
    <3>3. ~DataRead(c, r)
      BY <2>5 DEF DataRead
    <3> QED BY <2>1, <3>1, <3>2, <3>3
  <2> QED BY <2>4, <2>5
<1> QED BY <1>5, <1>6, <1>7, <1>8, <1>9, <1>10, <1>11 DEF ClientStep

LEMMA TailNotices ==
  ASSUME NEW c \in Fds, wbuf[c] \in Seq(Reply), wbuf[c] # <<>>, wbuf'[c] = Tail(wbuf[c])
  PROVE  /\ 1 \in DOMAIN wbuf[c] /\ wbuf[c][1] = Head(wbuf[c])
         /\ \A i \in DOMAIN wbuf'[c] : i + 1 \in DOMAIN wbuf[c] /\ wbuf'[c][i] = wbuf[c][i + 1] /\ i \in Nat
         /\ \A i \in DOMAIN wbuf[c] : i # 1 => i - 1 \in DOMAIN wbuf'[c] /\ wbuf'[c][i - 1] = wbuf[c][i] /\ i \in Nat
         /\ \A i \in Notices(c)' : i + 1 \in Notices(c)
         /\ \A i \in Notices(c) : i # 1 => i - 1 \in Notices(c)'
         /\ \A i \in Answers(c) : i # 1 => i - 1 \in Answers(c)'
<1> DEFINE s == wbuf[c]
           t == wbuf'[c]
<1>1. s \in Seq(Reply) /\ s # <<>> /\ t = Tail(s)
  OBVIOUS
<1> HIDE DEF s, t
<1>2. /\ 1 \in DOMAIN s /\ s[1] = Head(s)
      /\ \A i \in DOMAIN t : i + 1 \in DOMAIN s /\ t[i] = s[i + 1] /\ i \in Nat
      /\ \A i \in DOMAIN s : i # 1 => i - 1 \in DOMAIN t /\ t[i - 1] = s[i] /\ i \in Nat
  BY <1>1
<1>3. /\ Notices(c) = {i \in DOMAIN s : IsNotice(s[i])} /\ Notices(c)' = {i \in DOMAIN t : IsNotice(t[i])}
      /\ Answers(c) = {i \in DOMAIN s : IsAnswer(s[i])} /\ Answers(c)' = {i \in DOMAIN t : IsAnswer(t[i])}
  BY DEF Notices, Answers, s, t, IsNotice, IsAnswer
<1>4. /\ \A i \in Notices(c)' : i + 1 \in Notices(c)
      /\ \A i \in Notices(c) : i # 1 => i - 1 \in Notices(c)'
      /\ \A i \in Answers(c) : i # 1 => i - 1 \in Answers(c)'
  BY <1>2, <1>3
<1> QED BY <1>2, <1>4 DEF s, t

LEMMA ClientFluent ==
  ASSUME Lossless, TypeOK, MembershipOK, Typed, NEW c \in Fds, Ready(c), Good(c), Fluent(c), ClientStep(c)
  PROVE  Fluent(c)'
<1>1. AnyInput /\ NoJavaScript
  BY DEF Lossless, Orderly
<1>2. OwnStep(c)
  BY <1>1, ClientKeepsReady
<1>3. /\ UNCHANGED <<serialization, groups>> /\ Understands(c)' = Understands(c)
  BY <1>2 DEF OwnStep, broker_vars, vars, members_vars, Understands, Matlab, JavaScript
<1>5. CASE Open(c)
  <2>1. wbuf'[c] = <<>> /\ ser'[c] = NoSerialization
    BY <1>5, OpenFacts DEF Open, Good, Before
  <2>2. groups'[c] = {}
    BY <1>3, <1>5 DEF Open, Good, Before, MembershipOK, NoDangling
  <2>3. DOMAIN <<>> = {}
    OBVIOUS
  <2> QED BY <2>1, <2>2, <2>3 DEF Fluent, Notices
<1>6. ASSUME Up(c), wbuf'[c] = wbuf[c], ser'[c] = ser[c] PROVE Fluent(c)'
  <2>1. Notices(c)' = Notices(c)
    BY <1>6 DEF Notices, IsNotice
  <2> QED BY <1>3, <1>6, <2>1 DEF Fluent, NoticeTrue
<1>7. CASE AskServer(c) \/ \E n \in SyncLimits : StartSync(c, n)
  BY <1>6, <1>7, AskFacts
<1>8. ASSUME NEW n \in Names, NEW k \in VarCounts, StartSend(c, "send", n, k) PROVE Fluent(c)'
  BY <1>6, <1>8, StartSendFacts
<1>9. ASSUME NEW k \in VarCounts, StartSend(c, "broadcast", Everyone, k) PROVE Fluent(c)'
  BY <1>6, <1>9, StartSendFacts
<1>10. CASE Close(c)
  BY <1>10, CloseFacts DEF Fluent, Up
<1>11. CASE Receive(c)
  <2> DEFINE r == Head(wbuf[c])
  <2>1. /\ Up(c) /\ wbuf[c] # <<>> /\ wbuf'[c] = Tail(wbuf[c]) /\ r \in Reply
        /\ MetaRead(c, r) \/ DataRead(c, r) \/ AnswerRead(c, r)
    BY <1>1, <1>11, ReceiveFacts
  <2>2. wbuf[c] \in Seq(Reply)
    BY DEF Typed
  <2>3. /\ 1 \in DOMAIN wbuf[c] /\ wbuf[c][1] = r
        /\ \A i \in DOMAIN wbuf'[c] : i + 1 \in DOMAIN wbuf[c] /\ wbuf'[c][i] = wbuf[c][i + 1] /\ i \in Nat
        /\ \A i \in Notices(c)' : i + 1 \in Notices(c)
    BY <2>1, <2>2, TailNotices
  <2> HIDE DEF r
  <2>4. IsNotice(r) => NoticeTrue(c, r)
    BY <2>1, <2>3 DEF Fluent, Notices
  <2>5. \A i \in Notices(c)' : NoticeTrue(c, wbuf[c][i])'
    <3>1. ASSUME NEW i \in Notices(c)' PROVE NoticeTrue(c, wbuf'[c][i])
      <4>1. i + 1 \in Notices(c) /\ wbuf'[c][i] = wbuf[c][i + 1]
        BY <2>3 DEF Notices
      <4> QED BY <2>1, <4>1 DEF Fluent
    <3> QED BY <1>3, <3>1 DEF NoticeTrue
  <2>6. \/ ser'[c] = ser[c]
        \/ /\ ser'[c] = r.serialization /\ IsNotice(r) /\ r.reply \in {"registered", "reregister"}
    <3>1. CASE MetaRead(c, r)
      BY <3>1 DEF MetaRead, IsMeta, IsNotice
    <3>2. CASE DataRead(c, r)
      BY <3>2 DEF DataRead
    <3>3. CASE AnswerRead(c, r)
      BY <3>3, AcceptsHandshake DEF AnswerRead, IsNotice
    <3> QED BY <2>1, <3>1, <3>2, <3>3
  <2>7. CASE ser'[c] = ser[c]
    BY <1>3, <2>1, <2>5, <2>7 DEF Fluent
  <2>8. CASE ser'[c] = r.serialization /\ IsNotice(r) /\ r.reply \in {"registered", "reregister"}
    <3>1. r.serialization # NoSerialization
      BY <2>1, <2>8, ReplyFields DEF NoSerialization, AllSerializations
    <3>2. serialization \in Understands(c) /\ serialization \in {ser'[c], "dimeb"}
      <4>1. "dimeb" \in Understands(c)
        BY <1>1, KindFacts
      <4> QED BY <2>4, <2>8, <4>1 DEF NoticeTrue
    <3> QED BY <1>3, <2>5, <2>8, <3>1, <3>2 DEF Fluent
  <2> QED BY <2>6, <2>7, <2>8
<1> QED BY <1>5, <1>7, <1>8, <1>9, <1>10, <1>11 DEF ClientStep

-----------------------------------------------------------------------------
(* The steps of the server.                                                *)
LEMMA HandlersSettle ==
  ASSUME ~AllocMayFail, TypeOK, NEW c \in Fds, NEW q \in Commands, Dispatch(c, q)
  PROVE  /\ \/ serialization' = serialization
            \/ q.cmd = "handshake" /\ serialization' = Chosen(q.serialization)
         /\ \A d \in Fds \ {c} : groups'[d] = groups[d]
         /\ q.cmd \notin {"join", "leave"} => groups' = groups
         /\ q.cmd # "leave" => groups[c] \subseteq groups'[c]
<1>1. CASE q.cmd = "handshake" /\ Handshake(c, q.serialization)
  BY <1>1 DEF Handshake, members_vars
<1>2. CASE q.cmd = "join" /\ Join(c, <<q.name>>)
  <2>1. PICK S : groups' = [groups EXCEPT ![c] = groups[c] \cup S]
    BY <1>2 DEF Join
  <2>2. groups'[c] = groups[c] \cup S /\ \A d \in Fds \ {c} : groups'[d] = groups[d]
    BY <2>1 DEF TypeOK
  <2>3. UNCHANGED serialization
    BY <1>2 DEF Join
  <2> QED BY <1>2, <2>2, <2>3
<1>3. CASE q.cmd = "leave" /\ Leave(c, <<q.name>>)
  <2>1. PICK S : groups' = [groups EXCEPT ![c] = groups[c] \ S]
    BY <1>3 DEF Leave
  <2>2. \A d \in Fds \ {c} : groups'[d] = groups[d]
    BY <2>1 DEF TypeOK
  <2>3. UNCHANGED serialization
    BY <1>3 DEF Leave
  <2> QED BY <1>3, <2>2, <2>3
<1>4. CASE q.cmd = "send" /\ Send(c, q.name, q.body)
  BY <1>4 DEF Send, members_vars
<1>5. CASE q.cmd = "broadcast" /\ Broadcast(c, q.body)
  BY <1>5 DEF Broadcast, members_vars
<1>6. CASE q.cmd = "sync" /\ Sync(c, q.n)
  BY <1>6 DEF Sync, members_vars
<1>7. CASE q.cmd = "wait" /\ Wait(c)
  BY <1>7 DEF Wait, members_vars
<1>8. CASE q.cmd = "devices" /\ ListDevices(c)
  BY <1>8 DEF ListDevices, members_vars
<1> QED BY <1>1, <1>2, <1>3, <1>4, <1>5, <1>6, <1>7, <1>8 DEF Dispatch

(* What is added to a socket.                                              *)
LEMMA AppendedNotices ==
  ASSUME NEW d \in Fds, wbuf[d] \in Seq(Reply), NEW t \in Seq(Reply), wbuf'[d] = wbuf[d] \o t
  PROVE  /\ \A i \in Notices(d)' : \/ i \in Notices(d) /\ wbuf'[d][i] = wbuf[d][i]
                                   \/ \E j \in DOMAIN t : IsNotice(t[j]) /\ wbuf'[d][i] = t[j]
         /\ Notices(d) \subseteq Notices(d)' /\ Answers(d) \subseteq Answers(d)'
         /\ \A j \in DOMAIN t : IsAnswer(t[j]) =>
              \E a \in Answers(d)' : \A i \in Notices(d) : i < a
<1> DEFINE s == wbuf[d]
           u == wbuf'[d]
<1>1. /\ DOMAIN u = 1..(Len(s) + Len(t)) /\ DOMAIN s = 1..Len(s) /\ DOMAIN t = 1..Len(t)
      /\ Len(s) \in Nat /\ Len(t) \in Nat
      /\ \A i \in DOMAIN s : u[i] = s[i]
      /\ \A i \in DOMAIN u \ DOMAIN s : i - Len(s) \in DOMAIN t /\ u[i] = t[i - Len(s)]
  BY ConcatItems
<1>2. /\ Notices(d) = {i \in DOMAIN s : IsNotice(s[i])} /\ Notices(d)' = {i \in DOMAIN u : IsNotice(u[i])}
      /\ Answers(d) = {i \in DOMAIN s : IsAnswer(s[i])} /\ Answers(d)' = {i \in DOMAIN u : IsAnswer(u[i])}
  BY DEF Notices, Answers, IsNotice, IsAnswer
<1> HIDE DEF s, u
<1>3. ASSUME NEW i \in Notices(d)'
      PROVE  \/ i \in Notices(d) /\ u[i] = s[i]
             \/ \E j \in DOMAIN t : IsNotice(t[j]) /\ u[i] = t[j]
  BY <1>1, <1>2
<1>4. Notices(d) \subseteq Notices(d)' /\ Answers(d) \subseteq Answers(d)'
  BY <1>1, <1>2
<1>5. ASSUME NEW j \in DOMAIN t, IsAnswer(t[j])
      PROVE  \E a \in Answers(d)' : \A i \in Notices(d) : i < a
  <2> DEFINE a == Len(s) + j
  <2>1. a \in DOMAIN u \ DOMAIN s /\ a - Len(s) = j
    BY <1>1
  <2>2. u[a] = t[j]
    BY <1>1, <2>1
  <2>3. \A i \in DOMAIN s : i < a
    BY <1>1
  <2> HIDE DEF a
  <2> QED BY <1>2, <1>5, <2>1, <2>2, <2>3
<1> QED BY <1>3, <1>4, <1>5 DEF s, u

(* Nothing is known of the serialization before there is one.              *)
LEMMA NobodyKnows ==
  ASSUME Typed, NEW d \in Fds, Fluent(d), Up(d), serialization = NoSerialization
  PROVE  Notices(d) = {} /\ ser[d] = NoSerialization /\ groups[d] = {}
<1>1. NoSerialization \notin AllSerializations /\ NoSerialization # "dimeb"
  BY DEF NoSerialization, AllSerializations
<1>2. ser[d] = NoSerialization /\ groups[d] = {}
  BY <1>1 DEF Fluent
<1>3. ASSUME NEW i \in Notices(d) PROVE FALSE
  <2>1. wbuf[d][i].serialization \in AllSerializations
    <3>1. wbuf[d][i] \in Reply /\ IsNotice(wbuf[d][i])
      BY DEF Typed, Notices
    <3> QED BY <3>1, ReplyFields
  <2>2. NoticeTrue(d, wbuf[d][i])
    BY DEF Fluent
  <2> QED BY <1>1, <2>1, <2>2 DEF NoticeTrue
<1> QED BY <1>2, <1>3

(* A notice is true after the step.                                        *)
NewsTrue(d, r) ==
  /\ r.reply = "registered" => serialization' \in Understands(d)
  /\ serialization' \in {r.serialization, "dimeb"}
  /\ r.reply = "reregister" => r.serialization = "dimeb"

(* The serialization changes from none to one, or to dimeb, and what the   *)
(* clients know stays true.                                                *)
LEMMA NewsFluent ==
  ASSUME NoJavaScript, Typed, NEW d \in Fds, Fluent(d), Up(d), UNCHANGED kind,
         serialization' \in {serialization, "dimeb"} \/ serialization = NoSerialization,
         NEW t \in Seq(Reply), wbuf'[d] = wbuf[d] \o t,
         \A j \in DOMAIN t : IsNotice(t[j]) => NewsTrue(d, t[j]),
         ser'[d] = ser[d], groups'[d] # {} => ser[d] # NoSerialization
  PROVE  Fluent(d)'
<1>1. Understands(d)' = Understands(d) /\ "dimeb" \in Understands(d)
  BY KindFacts DEF Understands, Matlab, JavaScript
<1>2. wbuf[d] \in Seq(Reply)
  BY DEF Typed
<1>3. \A i \in Notices(d)' : \/ i \in Notices(d) /\ wbuf'[d][i] = wbuf[d][i]
                             \/ \E j \in DOMAIN t : IsNotice(t[j]) /\ wbuf'[d][i] = t[j]
  BY <1>2, AppendedNotices
<1>4. ASSUME NEW i \in Notices(d)', NewsTrue(d, wbuf'[d][i]) PROVE NoticeTrue(d, wbuf[d][i])'
  BY <1>1, <1>4 DEF NewsTrue, NoticeTrue
<1>5. CASE serialization = NoSerialization
  <2>1. Notices(d) = {} /\ ser[d] = NoSerialization
    BY <1>5, NobodyKnows
  <2>2. \A i \in Notices(d)' : NoticeTrue(d, wbuf[d][i])'
    BY <1>3, <1>4, <2>1
  <2> QED BY <2>1, <2>2 DEF Fluent
<1>6. CASE serialization' \in {serialization, "dimeb"}
  <2>1. ASSUME NEW r, NoticeTrue(d, r) PROVE NewsTrue(d, r)
    BY <1>1, <1>6, <2>1 DEF NoticeTrue, NewsTrue
  <2>2. \A i \in Notices(d)' : NewsTrue(d, wbuf'[d][i])
    <3> SUFFICES ASSUME NEW i \in Notices(d)' PROVE NewsTrue(d, wbuf'[d][i])
      OBVIOUS
    <3>1. CASE i \in Notices(d) /\ wbuf'[d][i] = wbuf[d][i]
      <4>1. NoticeTrue(d, wbuf[d][i])
        BY <3>1 DEF Fluent
      <4> QED BY <2>1, <3>1, <4>1
    <3>2. CASE \E j \in DOMAIN t : IsNotice(t[j]) /\ wbuf'[d][i] = t[j]
      BY <3>2
    <3> QED BY <1>3, <3>1, <3>2
  <2>3. \A i \in Notices(d)' : NoticeTrue(d, wbuf[d][i])'
    BY <1>4, <2>2
  <2>4. ser'[d] # NoSerialization => serialization' \in Understands(d) /\ serialization' \in {ser[d], "dimeb"}
    BY <1>1, <1>6 DEF Fluent
  <2> QED BY <1>1, <2>3, <2>4 DEF Fluent
<1> QED BY <1>5, <1>6

LEMMA ChosenFacts ==
  ASSUME NEW s
  PROVE  /\ Chosen(s) \in {serialization, "dimeb"} \/ (serialization = NoSerialization /\ Chosen(s) = s)
         /\ Chosen(s) = "json" => serialization = "json" \/ s = "json"
         /\ Chosen(s) \in {s, "dimeb", "json"}
BY DEF Chosen, MustReregister

(* Serving a command of another client.                                    *)
LEMMA OthersFluent ==
  ASSUME Lossless, TypeOK, TypeOK', Typed, NEW c \in Fds, Serve(c), NEW d \in Fds, d # c, Fluent(d)
  PROVE  Fluent(d)'
<1>1. NoJavaScript /\ ~AllocMayFail
  BY DEF Lossless, Orderly
<1> DEFINE q == Head(inq[c])
<1>2. /\ inq[c] # <<>> /\ Dispatch(c, q) /\ Flush /\ UNCHANGED <<status, ser, kind>>
  BY DEF Serve, client_vars
<1>3. q \in Commands
  BY <1>2, HeadCommand
<1> HIDE DEF q
<1>4. /\ Overhears(d) /\ Announced(c) /\ conn' = conn
      /\ serialization' = serialization \/ serialization' = Chosen(q.serialization)
      /\ groups'[d] = groups[d]
  BY <1>1, <1>2, <1>3, HandlersAnswer, HandlersSettle
<1>5. CASE ~Up(d)
  BY <1>2, <1>5 DEF Fluent, Up
<1>6. CASE Up(d)
  <2>1. serialization' \in {serialization, "dimeb"} \/ serialization = NoSerialization
    BY <1>4, ChosenFacts
  <2>2. wbuf'[d] = wbuf[d] \o out'[d] /\ out'[d] \in Seq(Reply)
    BY <1>2, <1>6 DEF Flush, Up, TypeOK
  <2>3. ASSUME NEW j \in DOMAIN out'[d], IsNotice(out'[d][j]) PROVE NewsTrue(d, out'[d][j])
    <3>1. out'[d] = <<Reregister>>
      <4>1. DOMAIN <<>> = {} /\ \A n : \A i \in DOMAIN <<Count(n)>> : <<Count(n)>>[i] = Count(n)
        OBVIOUS
      <4>2. \A n : ~IsNotice(Count(n))
        BY DEF Count, IsNotice
      <4> QED BY <1>4, <2>3, <4>1, <4>2 DEF Overhears
    <3>2. out'[d][j] = Reregister
      BY <2>3, <3>1
    <3>3. serialization' = "dimeb"
      <4>1. d \in conn \/ serialization' = "dimeb"
        BY <1>4, <3>1 DEF Overhears, Announced
      <4> QED BY <1>4, <3>1, <4>1 DEF Announced
    <3>4. "dimeb" \in Understands(d)
      BY <1>1, KindFacts
    <3>5. Reregister.reply = "reregister" /\ Reregister.serialization = "dimeb"
      BY DEF Reregister
    <3> QED BY <3>2, <3>3, <3>4, <3>5 DEF NewsTrue
  <2>4. groups'[d] # {} => ser[d] # NoSerialization
    BY <1>4, <1>6 DEF Fluent
  <2> QED BY <1>1, <1>2, <1>6, <2>1, <2>2, <2>3, <2>4, NewsFluent
<1> QED BY <1>5, <1>6

(* A client whose commands are served is not in a wait.                    *)
LEMMA ServedAwake ==
  ASSUME Typed, NEW c \in Fds, Good(c), Up(c), inq[c] # <<>>
  PROVE  c \notin waiting
<1> SUFFICES ASSUME c \in waiting PROVE FALSE
  OBVIOUS
<1>1. Len(inq[c]) \in Nat \ {0}
  BY HeadCommand
<1>2. /\ call[c].pending = Len(inq[c]) + Cardinality(Answers(c)) + 1
      /\ call[c].op = "wait"
  BY DEF Good, Talk
<1>3. call[c] \in Calls /\ wbuf[c] \in Seq(Reply)
  BY DEF Typed
<1>4. call[c].pending = 1
  BY <1>2, <1>3, CallFields
<1>5. Cardinality(Answers(c)) \in Nat
  BY <1>3, AnswersAre, AnsFinite
<1> QED BY <1>1, <1>2, <1>4, <1>5

(* A client is told of the serialization by its handshake only.            *)
LEMMA AnswerNews ==
  ASSUME NEW c \in Fds, NEW q, IsAnswered(c, q), NEW j \in DOMAIN out'[c], IsNotice(out'[c][j])
  PROVE  q.cmd = "handshake" /\ out'[c][j] = Registered(serialization')
<1>1. CASE q.cmd = "handshake" /\ out'[c] = <<Registered(serialization')>>
  <2> DEFINE r == Registered(serialization')
  <2> HIDE DEF r
  <2>1. out'[c] = <<r>>
    BY <1>1 DEF r
  <2>2. out'[c][j] = r
    BY <2>1
  <2> QED BY <1>1, <2>2 DEF r
<1>2. ASSUME NEW data \in Seq(Reply), out'[c] = data \o <<Ok>>,
             \A i \in DOMAIN data : data[i].reply = "data"
      PROVE  FALSE
  <2>1. Ok \in Reply /\ Ok.reply = "ok"
    BY ReplyTypes DEF Ok
  <2> DEFINE r == Ok
  <2> HIDE DEF r
  <2>2. out'[c] = data \o <<r>> /\ r \in Reply
    BY <1>2, <2>1 DEF r
  <2>3. j \in 1..(Len(data) + 1) /\ Len(data) \in Nat /\ DOMAIN data = 1..Len(data)
        /\ out'[c][j] = IF j <= Len(data) THEN data[j] ELSE r
    BY <2>2
  <2>4. out'[c][j].reply \in {"data", "ok"}
    BY <1>2, <2>1, <2>3 DEF r
  <2> QED BY <2>4 DEF IsNotice
<1>3. out'[c] # <<>>
  OBVIOUS
<1>4. ASSUME NEW r, r.reply \in {"ok", "error", "n", "devices"}, out'[c] = <<r>> PROVE FALSE
  <2>1. out'[c][j] = r
    BY <1>4
  <2> QED BY <1>4, <2>1 DEF IsNotice
<1> QED BY <1>1, <1>2, <1>3, <1>4 DEF IsAnswered

(* Everybody understands what is chosen at its handshake.                  *)
LEMMA ChosenKnown ==
  ASSUME NoJavaScript, NoMix, Typed, NEW c \in Fds, JsonKnown
  PROVE  Chosen(kind[c]) \in Understands(c)
<1>1. /\ "dimeb" \in Understands(c) /\ kind[c] \in Understands(c)
      /\ kind[c] # "matlab" => "json" \in Understands(c)
  BY KindFacts
<1>2. Chosen(kind[c]) = "json" => serialization = "json" \/ kind[c] = "json"
  BY ChosenFacts
<1> QED BY <1>1, <1>2, ChosenFacts DEF JsonKnown

LEMMA OwnFluent ==
  ASSUME Lossless, TypeOK, TypeOK', Typed, NEW c \in Fds, Serve(c), Ready(c), Good(c),
         Fluent(c), Honest(c), JsonKnown
  PROVE  Fluent(c)'
<1>1. NoJavaScript /\ NoMix /\ ~AllocMayFail
  BY DEF Lossless, Orderly
<1> DEFINE q == Head(inq[c])
<1>2. /\ inq[c] # <<>> /\ Dispatch(c, q) /\ Flush /\ UNCHANGED <<status, ser, kind>>
  BY DEF Serve, client_vars
<1>3. q \in Commands /\ q = inq[c][1] /\ 1 \in DOMAIN inq[c]
  BY <1>2, HeadCommand
<1> HIDE DEF q
<1>4. /\ serialization' = serialization \/ (q.cmd = "handshake" /\ serialization' = Chosen(q.serialization))
      /\ q.cmd \notin {"join", "leave"} => groups' = groups
  BY <1>1, <1>2, <1>3, HandlersSettle
<1>5. CASE ~Up(c)
  BY <1>2, <1>5 DEF Fluent, Up
<1>6. CASE Up(c)
  <2>1. serialization' \in {serialization, "dimeb"} \/ serialization = NoSerialization
    BY <1>4, ChosenFacts
  <2>2. wbuf'[c] = wbuf[c] \o out'[c] /\ out'[c] \in Seq(Reply)
    BY <1>2, <1>6 DEF Flush, Up, TypeOK
  <2>3. IsAnswered(c, q)
    BY <1>1, <1>2, <1>3, <1>6, ServedAwake, HandlersAnswer
  <2>4. ASSUME NEW j \in DOMAIN out'[c], IsNotice(out'[c][j]) PROVE NewsTrue(c, out'[c][j])
    <3>1. q.cmd = "handshake" /\ out'[c][j] = Registered(serialization')
      BY <2>3, <2>4, AnswerNews
    <3>2. Registered(serialization').reply = "registered"
          /\ Registered(serialization').serialization = serialization'
      BY DEF Registered
    <3>3. serialization' \in Understands(c)
      <4>1. q.serialization = kind[c]
        BY <1>3, <3>1 DEF Honest, Signed
      <4>2. Handshake(c, q.serialization)
        BY <1>2, <3>1 DEF Dispatch
      <4>3. serialization' = Chosen(kind[c])
        BY <1>1, <4>1, <4>2 DEF Handshake
      <4> QED BY <1>1, <4>3, ChosenKnown
    <3> QED BY <3>1, <3>2, <3>3 DEF NewsTrue
  <2>5. groups'[c] # {} => ser[c] # NoSerialization
    <3>1. q.cmd = call[c].op
      BY <1>3, <1>6 DEF Good, Talk
    <3>2. CASE q.cmd \in {"join", "leave"}
      BY <3>1, <3>2 DEF Ready
    <3>3. CASE q.cmd \notin {"join", "leave"}
      BY <1>4, <1>6, <3>3 DEF Fluent
    <3> QED BY <3>2, <3>3
  <2> QED BY <1>1, <1>2, <1>6, <2>1, <2>2, <2>4, <2>5, NewsFluent
<1> QED BY <1>5, <1>6

LEMMA ServeJson ==
  ASSUME Lossless, TypeOK, Typed, NEW c \in Fds, Serve(c), Honest(c), JsonKnown
  PROVE  JsonKnown'
<1>1. NoMix /\ ~AllocMayFail
  BY DEF Lossless, Orderly
<1> DEFINE q == Head(inq[c])
<1>2. inq[c] # <<>> /\ Dispatch(c, q) /\ UNCHANGED kind
  BY DEF Serve, client_vars
<1>3. q \in Commands /\ q = inq[c][1] /\ 1 \in DOMAIN inq[c]
  BY <1>2, HeadCommand
<1> HIDE DEF q
<1>4. serialization' = serialization \/ (q.cmd = "handshake" /\ serialization' = Chosen(q.serialization))
  BY <1>1, <1>2, <1>3, HandlersSettle
<1>5. CASE serialization' = serialization
  BY <1>2, <1>5 DEF JsonKnown
<1>6. CASE q.cmd = "handshake" /\ serialization' = Chosen(q.serialization)
  <2>1. q.serialization = kind[c]
    BY <1>3, <1>6 DEF Honest, Signed
  <2>2. serialization' = "json" => serialization = "json" \/ kind[c] = "json"
    BY <1>6, <2>1, ChosenFacts
  <2>3. kind[c] = "json" => \A d \in Fds : kind[d] # "matlab"
    BY <1>1 DEF NoMix, Typed
  <2> QED BY <1>2, <2>2, <2>3 DEF JsonKnown
<1> QED BY <1>4, <1>5, <1>6

(* The other parts, for all steps of the server.                           *)
LEMMA ServeSending ==
  ASSUME Typed, NEW c \in Fds, Serve(c), NEW d \in Fds, Sending(d), Honest(d)
  PROVE  Sending(d)' /\ Honest(d)'
<1>1. /\ inq[c] # <<>> /\ inq' = [inq EXCEPT ![c] = Tail(inq[c])]
      /\ UNCHANGED <<status, ser, kind, call>>
  BY DEF Serve, client_vars
<1>2. \A i \in DOMAIN inq'[d] : \E j \in DOMAIN inq[d] : inq'[d][i] = inq[d][j]
  <2>1. CASE d = c
    <3>1. inq'[d] = Tail(inq[d])
      BY <1>1, <2>1 DEF Typed
    <3> QED BY <1>1, <2>1, <3>1, HeadCommand
  <2>2. CASE d # c
    <3>1. inq'[d] = inq[d]
      BY <1>1, <2>2 DEF Typed
    <3> QED BY <3>1
  <2> QED BY <2>1, <2>2
<1>3. Sending(d)'
  BY <1>1, <1>2 DEF Sending, Up, Carries
<1>4. Honest(d)'
  BY <1>1, <1>2 DEF Honest, Signed
<1> QED BY <1>3, <1>4

LEMMA QuietKeeps ==
  ASSUME NEW d \in Fds, Fluent(d), Sending(d), Honest(d), UNCHANGED kind,
         status'[d] = status[d], ser'[d] = ser[d], call'[d] = call[d], wbuf'[d] = wbuf[d],
         inq'[d] = inq[d], groups'[d] = groups[d], UNCHANGED serialization
  PROVE  Fluent(d)' /\ Sending(d)' /\ Honest(d)'
<1>1. Understands(d)' = Understands(d) /\ Notices(d)' = Notices(d)
  BY DEF Understands, Matlab, JavaScript, Notices, IsNotice
<1>2. Fluent(d)'
  BY <1>1 DEF Fluent, Up, NoticeTrue
<1>3. Sending(d)'
  BY DEF Sending, Up, Carries
<1>4. Honest(d)'
  BY DEF Honest, Signed
<1> QED BY <1>2, <1>3, <1>4

LEMMA HangupQuiet ==
  ASSUME TypeOK, Typed, NEW c \in Fds, Hangup(c), NEW d \in Fds, status[d] # "down"
  PROVE  /\ d # c /\ status'[d] = status[d] /\ ser'[d] = ser[d] /\ call'[d] = call[d] /\ wbuf'[d] = wbuf[d]
         /\ inq'[d] = inq[d] /\ groups'[d] = groups[d] /\ seen'[d] = seen[d]
<1>1. /\ status[c] = "down" /\ Disconnect(c) /\ inq' = [inq EXCEPT ![c] = <<>>] /\ Flush
      /\ UNCHANGED <<status, client_vars>>
  BY DEF Hangup
<1>2. d # c
  BY <1>1
<1>3. out'[d] = <<>> /\ wbuf[d] \in Seq(Reply)
  BY <1>1 DEF Disconnect, Silence, Typed
<1>4. wbuf'[d] = wbuf[d] \o out'[d]
  BY <1>1 DEF Flush
<1>5. wbuf'[d] = wbuf[d]
  BY <1>3, <1>4
<1>6. groups'[d] = groups[d]
  BY <1>1, <1>2 DEF Disconnect, TypeOK
<1>7. inq'[d] = inq[d]
  BY <1>1, <1>2 DEF Typed
<1> QED BY <1>1, <1>2, <1>5, <1>6, <1>7 DEF client_vars

LEMMA HangupKeeps ==
  ASSUME TypeOK, Typed, NEW c \in Fds, Hangup(c), NEW d \in Fds, Fluent(d), Sending(d), Honest(d)
  PROVE  Fluent(d)' /\ Sending(d)' /\ Honest(d)'
<1>1. UNCHANGED <<kind, status, serialization>> /\ inq' = [inq EXCEPT ![c] = <<>>]
  BY DEF Hangup, client_vars, Disconnect
<1>2. CASE Up(d)
  BY <1>1, <1>2, HangupQuiet, QuietKeeps DEF Up
<1>3. CASE ~Up(d)
  <2>1. inq'[d] = <<>> \/ inq'[d] = inq[d]
    BY <1>1 DEF Typed
  <2>2. DOMAIN <<>> = {}
    OBVIOUS
  <2>3. Honest(d)'
    BY <1>1, <2>1, <2>2 DEF Honest, Signed
  <2> QED BY <1>1, <1>3, <2>3 DEF Fluent, Sending, Up
<1> QED BY <1>2, <1>3

LEMMA AcceptQuiet ==
  ASSUME TypeOK, MembershipOK, NEW c \in Fds, ServerAccept(c)
  PROVE  /\ UNCHANGED <<status, inq, wbuf, kind, ser, call, seen, serialization, groups, queue, body>>
<1>1. /\ c \notin conn /\ groups' = [groups EXCEPT ![c] = {}] /\ queue' = [queue EXCEPT ![c] = <<>>]
      /\ UNCHANGED <<serialization, body, status, inq, wbuf, client_vars>>
  BY DEF ServerAccept, Accept
<1>2. groups[c] = {} /\ queue[c] = <<>>
  BY <1>1 DEF MembershipOK, NoDangling
<1>3. groups' = groups /\ queue' = queue
  BY <1>1, <1>2 DEF TypeOK
<1> QED BY <1>1, <1>3 DEF client_vars

(* All of it, in every step.                                               *)
Attentive == JsonKnown /\ \A c \in Fds : Fluent(c) /\ Sending(c) /\ Honest(c)

LEMMA StepAttentive ==
  ASSUME Lossless, TypeOK, TypeOK', MembershipOK, Typed, \A c \in Fds : Ready(c) /\ Good(c),
         Attentive, [SessionNext]_all_vars
  PROVE  Attentive'
<1>1. \A d \in Fds : Fluent(d) /\ Sending(d) /\ Honest(d)
  BY DEF Attentive
<1>2. ASSUME UNCHANGED <<kind, serialization>>, \A d \in Fds : (Fluent(d) /\ Sending(d) /\ Honest(d))'
      PROVE  Attentive'
  BY <1>2 DEF Attentive, JsonKnown
<1>3. ASSUME NEW c \in Fds, ClientStep(c) PROVE Attentive'
  <2>1. OwnStep(c)
    BY <1>3, ClientKeepsReady DEF Lossless, Orderly
  <2>2. UNCHANGED <<kind, serialization, groups>>
    BY <2>1 DEF OwnStep, broker_vars, vars, members_vars
  <2>3. (Fluent(c) /\ Sending(c) /\ Honest(c))'
    BY <1>1, <1>3, ClientFluent, ClientSending, ClientHonest
  <2>4. ASSUME NEW d \in Fds, d # c PROVE (Fluent(d) /\ Sending(d) /\ Honest(d))'
    <3>1. Bystander(d)
      BY <2>1, <2>4, OwnOthers
    <3> QED BY <1>1, <2>2, <3>1, QuietKeeps DEF Bystander
  <2> QED BY <1>2, <2>2, <2>3, <2>4
<1>4. ASSUME NEW c \in Fds, ServerAccept(c) PROVE Attentive'
  <2>1. UNCHANGED <<status, inq, wbuf, kind, ser, call, serialization, groups>>
    BY <1>4, AcceptQuiet
  <2>2. ASSUME NEW d \in Fds PROVE (Fluent(d) /\ Sending(d) /\ Honest(d))'
    BY <1>1, <2>1, QuietKeeps
  <2> QED BY <1>2, <2>1, <2>2
<1>5. ASSUME NEW c \in Fds, Serve(c) PROVE Attentive'
  <2>1. JsonKnown'
    BY <1>1, <1>5, ServeJson DEF Attentive
  <2>2. ASSUME NEW d \in Fds PROVE Fluent(d)'
    BY <1>1, <1>5, OthersFluent, OwnFluent DEF Attentive
  <2>3. ASSUME NEW d \in Fds PROVE Sending(d)' /\ Honest(d)'
    BY <1>1, <1>5, ServeSending
  <2> QED BY <2>1, <2>2, <2>3 DEF Attentive
<1>6. ASSUME NEW c \in Fds, Hangup(c) PROVE Attentive'
  <2>1. UNCHANGED <<kind, serialization>>
    BY <1>6 DEF Hangup, client_vars, Disconnect
  <2>2. ASSUME NEW d \in Fds PROVE (Fluent(d) /\ Sending(d) /\ Honest(d))'
    BY <1>1, <1>6, HangupKeeps
  <2> QED BY <1>2, <2>1, <2>2
<1>7. CASE UNCHANGED all_vars
  <2>1. UNCHANGED <<status, inq, wbuf, kind, ser, call, serialization, groups>>
    BY <1>7 DEF all_vars, broker_vars, vars, members_vars, client_vars
  <2>2. ASSUME NEW d \in Fds PROVE (Fluent(d) /\ Sending(d) /\ Honest(d))'
    BY <1>1, <2>1, QuietKeeps
  <2> QED BY <1>2, <2>1, <2>2
<1> QED BY <1>3, <1>4, <1>5, <1>6, <1>7, SessionSteps

-----------------------------------------------------------------------------
(* Where the copies are.                                                   *)
Held(d) == {body[m] : m \in Range(queue[d])}
DataIn(s) == {r.body : r \in {x \in Range(s) : x.reply = "data"}}

LEMMA CopiesParts == \A d : CopiesFor(d) = Held(d) \cup DataIn(wbuf[d]) \cup seen[d]
BY DEF CopiesFor, Held, DataIn

LEMMA HeldLetters ==
  ASSUME NEW d \in Fds
  PROVE  Held(d) = Range(Letters[d])
<1>1. DOMAIN Letters[d] = DOMAIN queue[d] /\ \A i \in DOMAIN queue[d] : Letters[d][i] = body[queue[d][i]]
  BY DEF Letters
<1> QED BY <1>1 DEF Held, Range

LEMMA HeldLettersNext ==
  ASSUME NEW d \in Fds
  PROVE  Held(d)' = Range(Letters'[d])
<1>1. DOMAIN Letters'[d] = DOMAIN queue'[d] /\ \A i \in DOMAIN queue'[d] : Letters'[d][i] = body'[queue'[d][i]]
  BY DEF Letters
<1> QED BY <1>1 DEF Held, Range

LEMMA NoDataOut ==
  ASSUME NoData', NEW d \in Fds
  PROVE  DataIn(out'[d]) = {}
BY DEF NoData, IsData, DataIn, Range

LEMMA LettersType ==
  ASSUME TypeOK, NEW d \in Fds
  PROVE  Letters[d] \in Seq(Payloads \cup {NoBody})
<1>1. queue[d] \in Seq(Msgs)
  BY DEF TypeOK
<1>2. Len(queue[d]) \in Nat /\ DOMAIN queue[d] = 1..Len(queue[d]) /\ \A i \in DOMAIN queue[d] : queue[d][i] \in Msgs
  BY <1>1
<1> DEFINE n == Len(queue[d])
<1>3. Letters[d] = [i \in 1..n |-> body[queue[d][i]]]
  BY <1>2 DEF Letters
<1>4. \A i \in 1..n : body[queue[d][i]] \in Payloads \cup {NoBody}
  BY <1>2 DEF TypeOK
<1> HIDE DEF n
<1>5. n \in Nat
  BY <1>2 DEF n
<1> QED BY <1>3, <1>4, <1>5

LEMMA AppendRange ==
  ASSUME NEW S, NEW s \in Seq(S), NEW x \in S
  PROVE  Range(Append(s, x)) = Range(s) \cup {x}
<1>1. /\ Len(s) \in Nat /\ DOMAIN s = 1..Len(s) /\ DOMAIN Append(s, x) = 1..(Len(s) + 1)
      /\ \A i \in 1..Len(s) : Append(s, x)[i] = s[i]
      /\ Append(s, x)[Len(s) + 1] = x
  OBVIOUS
<1> DEFINE t == Append(s, x)
           n == Len(s)
<1> HIDE DEF t, n
<1>2. /\ n \in Nat /\ DOMAIN s = 1..n /\ DOMAIN t = 1..(n + 1) /\ t[n + 1] = x
      /\ \A i \in 1..n : t[i] = s[i]
  BY <1>1 DEF t, n
<1>3. ASSUME NEW i \in DOMAIN t PROVE t[i] \in Range(s) \cup {x}
  <2>1. i \in 1..n \/ i = n + 1
    BY <1>2
  <2> QED BY <1>2, <2>1 DEF Range
<1>4. \A i \in DOMAIN s : i \in DOMAIN t /\ t[i] = s[i]
  BY <1>2
<1>5. n + 1 \in DOMAIN t
  BY <1>2
<1> QED BY <1>2, <1>3, <1>4, <1>5 DEF Range, t

(* A message that is relayed to R.                                         *)
Relays(d, p, R) ==
  /\ DataIn(out'[d]) = {}
  /\ Held(d)' = IF d \in R THEN Held(d) \cup {p} ELSE Held(d)

LEMMA RelayedHeld ==
  ASSUME ~AllocMayFail, TypeOK, RefsCover, NEW c \in Fds, NEW m \in Free, NEW p \in Payloads,
         NEW R \in SUBSET Fds, Relayed(c, m, p, R), NEW d \in Fds
  PROVE  Relays(d, p, R)
<1>1. Letters' = [e \in Fds |-> IF e \in R THEN Append(Letters[e], p) ELSE Letters[e]]
  BY RelayedEnqueues, EnqueuesLetters DEF Free
<1>2. Letters'[d] = IF d \in R THEN Append(Letters[d], p) ELSE Letters[d]
  BY <1>1
<1>3. Range(Append(Letters[d], p)) = Range(Letters[d]) \cup {p}
  <2>1. Letters[d] \in Seq(Payloads \cup {NoBody}) /\ p \in Payloads \cup {NoBody}
    BY LettersType
  <2> QED BY <2>1, AppendRange
<1>4. DataIn(out'[d]) = {}
  BY RelaysNoData, NoDataOut
<1> QED BY <1>2, <1>3, <1>4, HeldLetters, HeldLettersNext DEF Relays

LEMMA ConcatData ==
  ASSUME NEW s \in Seq(Reply), NEW t \in Seq(Reply)
  PROVE  DataIn(s \o t) = DataIn(s) \cup DataIn(t)
<1>1. /\ DOMAIN (s \o t) = 1..(Len(s) + Len(t)) /\ DOMAIN s = 1..Len(s) /\ DOMAIN t = 1..Len(t)
      /\ Len(s) \in Nat /\ Len(t) \in Nat
      /\ \A i \in DOMAIN s : (s \o t)[i] = s[i]
      /\ \A i \in DOMAIN (s \o t) \ DOMAIN s : i - Len(s) \in DOMAIN t /\ (s \o t)[i] = t[i - Len(s)]
  BY ConcatItems
<1> DEFINE u == s \o t
<1> HIDE DEF u
<1>2. /\ DOMAIN u = 1..(Len(s) + Len(t)) /\ \A i \in DOMAIN s : u[i] = s[i]
      /\ \A i \in DOMAIN u \ DOMAIN s : i - Len(s) \in DOMAIN t /\ u[i] = t[i - Len(s)]
  BY <1>1 DEF u
<1>3. \A i \in DOMAIN u : u[i] \in Range(s) \cup Range(t)
  BY <1>2 DEF Range
<1>4. \A i \in DOMAIN s : i \in DOMAIN u /\ u[i] = s[i]
  BY <1>1, <1>2
<1>5. ASSUME NEW i \in DOMAIN t PROVE Len(s) + i \in DOMAIN u /\ u[Len(s) + i] = t[i]
  <2>1. Len(s) + i \in DOMAIN u \ DOMAIN s /\ (Len(s) + i) - Len(s) = i
    BY <1>1, <1>2
  <2> QED BY <1>2, <2>1
<1>6. Range(u) = Range(s) \cup Range(t)
  BY <1>3, <1>4, <1>5 DEF Range
<1> QED BY <1>6 DEF DataIn, u

(* A sync moves messages from the queue to the socket.                     *)
LEMMA SyncHeld ==
  ASSUME ~AllocMayFail, TypeOK, RefsCover, NEW c \in Fds, NEW n \in Int, Sync(c, n), NEW d \in Fds
  PROVE  Held(d)' \cup DataIn(out'[d]) = Held(d)
<1>q. queue[c] \in Seq(Msgs) /\ Injective(queue[c])
  BY DEF TypeOK, RefsCover, Injective
<1>1. Len(queue[c]) \in Nat /\ SyncLength(c, n) \in 0..Len(queue[c])
  <2>1. Len(queue[c]) \in Nat
    BY <1>q
  <2> QED BY <2>1 DEF SyncLength
<1>2. PICK k \in 0..SyncLength(c, n) :
        /\ queue' = [queue EXCEPT ![c] = SubSeq(@, k + 1, Len(@))]
        /\ Release({queue[c][i] : i \in 1..k})
        /\ out' = Only(c, [i \in 1..k |-> Data(body[queue[c][i]])] \o <<Ok>>)
  <2>1. ~(SyncLength(c, n) < SyncLength(c, n)) /\ SyncLength(c, n) \in 0..SyncLength(c, n)
    BY <1>1
  <2> QED BY <2>1, Zenon DEF Sync
<1>3. k \in 0..Len(queue[c]) /\ k \in Nat
  BY <1>1, <1>2
<1> DEFINE q == queue[c]
           l == Len(q)
           t == SubSeq(q, k + 1, l)
           S == {q[i] : i \in 1..k}
           Item(i) == Data(body[q[i]])
           data == [i \in 1..k |-> Item(i)]
<1>4. l \in Nat /\ DOMAIN q = 1..l /\ \A i \in 1..l : q[i] \in Msgs
  BY <1>q
<1>5. S \subseteq Range(q) /\ Range(q) \subseteq Msgs
  BY <1>3, <1>4 DEF Range
<1>6. Injective(t) /\ Range(t) = Range(q) \ S
  BY <1>q, <1>3, RangeOfSubSeq
<1>7. queue'[c] = t /\ queue' = [queue EXCEPT ![c] = queue'[c]]
  BY <1>2 DEF TypeOK
<1>8. LetsGo(c, S, S)
  BY <1>2, <1>5, <1>6, <1>7 DEF LetsGo, Sync
<1>9. out' = Only(c, data \o <<Ok>>)
  BY <1>2
<1>10. CASE d # c
  <2>1. Letters'[d] = Letters[d]
    BY <1>8, <1>10, OthersLetters
  <2> DEFINE rs == data \o <<Ok>>
  <2>2. out' = Only(c, rs)
    BY <1>9
  <2> HIDE DEF rs
  <2>3. out'[d] = <<>>
    BY <1>10, <2>2 DEF Only
  <2>4. DataIn(<<>>) = {}
    BY DEF DataIn, Range
  <2> QED BY <2>1, <2>3, <2>4, HeldLetters, HeldLettersNext
<1>11. CASE d = c
  <2>1. Held(c)' = {body[m] : m \in Range(q) \ S}
    <3>1. \A m \in Range(q) \ S : body'[m] = body[m]
      BY <1>2, <1>5 DEF Release
    <3>2. Held(c)' = {body'[m] : m \in Range(q) \ S}
      BY <1>6, <1>7 DEF Held
    <3> QED BY <3>1, <3>2
  <2>2. DataIn(data) = {body[m] : m \in S}
    <3>1. \A x : Data(x).reply = "data" /\ Data(x).body = x
      BY DEF Data
    <3>2. Range(data) = {Item(i) : i \in 1..k}
      BY DEF Range
    <3>3. \A r \in Range(data) : r.reply = "data"
      BY <3>1, <3>2
    <3>4. DataIn(data) = {r.body : r \in Range(data)}
      BY <3>3 DEF DataIn
    <3>5. \A i \in 1..k : Item(i) \in Range(data) /\ Item(i).body = body[q[i]]
      BY <3>1, <3>2
    <3>6. \A r \in Range(data) : \E i \in 1..k : r = Item(i)
      BY <3>2
    <3> HIDE DEF data, Item, q
    <3>7. DataIn(data) = {body[q[i]] : i \in 1..k}
      BY <3>4, <3>5, <3>6
    <3> QED BY <3>7 DEF S
  <2>3. data \in Seq(Reply)
    <3>1. \A i \in 1..k : Item(i) \in Reply
      <4> SUFFICES ASSUME NEW i \in 1..k PROVE Item(i) \in Reply
        OBVIOUS
      <4>1. i \in 1..l
        BY <1>3, <1>4
      <4>2. body[q[i]] \in Payloads \cup {NoBody}
        BY <1>4, <4>1 DEF TypeOK
      <4> QED BY <4>2, ReplyTypes
    <3> HIDE DEF Item
    <3> QED BY <1>3, <3>1
  <2>4. DataIn(<<Ok>>) = {}
    <3>1. Ok.reply = "ok" /\ Range(<<Ok>>) = {Ok}
      BY DEF Ok, Range
    <3> QED BY <3>1 DEF DataIn
  <2>5. out'[c] = data \o <<Ok>> /\ <<Ok>> \in Seq(Reply)
    <3> DEFINE rs == data \o <<Ok>>
    <3>1. out' = Only(c, rs)
      BY <1>9
    <3> HIDE DEF rs
    <3>2. out'[c] = rs
      BY <3>1 DEF Only
    <3>3. Ok \in Reply
      BY ReplyTypes
    <3> QED BY <3>2, <3>3 DEF rs
  <2> HIDE DEF data
  <2>6. DataIn(out'[c]) = {body[m] : m \in S}
    <3>1. DataIn(out'[c]) = DataIn(data) \cup DataIn(<<Ok>>)
      <4>1. DataIn(data \o <<Ok>>) = DataIn(data) \cup DataIn(<<Ok>>)
        BY <2>3, <2>5, ConcatData
      <4> QED BY <2>5, <4>1, Zenon
    <3> HIDE DEF S
    <3> QED BY <2>2, <2>4, <3>1, Zenon
  <2>7. Held(c) = {body[m] : m \in Range(q)}
    BY DEF Held
  <2> HIDE DEF q, S
  <2> QED BY <1>5, <1>11, <2>1, <2>6, <2>7
<1> QED BY <1>10, <1>11

(* What the handling of the command q does to the messages for client d.   *)
Moves(d) == Held(d)' \cup DataIn(out'[d]) = Held(d)
Gains(d, p) == Held(d)' \cup DataIn(out'[d]) = Held(d) \cup {p}

LEMMA StillMoves ==
  ASSUME NoData', UNCHANGED <<queue, body>>, NEW d \in Fds
  PROVE  Moves(d)
<1>1. Held(d)' = Held(d)
  BY DEF Held
<1> QED BY <1>1, NoDataOut DEF Moves

LEMMA HandlersMove ==
  ASSUME AnyInput, ~AllocMayFail, TypeOK, MembershipOK, RefsCover, NEW c \in Fds,
         NEW q \in Commands, Dispatch(c, q), NEW d \in Fds
  PROVE  \/ Moves(d) /\ ~(q.cmd = "send" /\ q.name \in groups[d])
         \/ /\ q.cmd \in {"send", "broadcast"} /\ d \in conn /\ Gains(d, q.body)
            /\ q.cmd = "send" => q.name \in groups[d]
<1>1. CASE q.cmd = "handshake" /\ Handshake(c, q.serialization)
  <2> DEFINE s == q.serialization
  <2>1. out' = [e \in Fds |-> IF e = c THEN <<Registered(Chosen(s))>>
                              ELSE IF e \in Told(c, s) THEN <<Reregister>> ELSE <<>>]
    BY <1>1 DEF Handshake
  <2> DEFINE r == Registered(Chosen(s))
  <2> HIDE DEF s
  <2>2. \A e \in Fds : out'[e] = <<r>> \/ out'[e] = <<Reregister>> \/ out'[e] = <<>>
    BY <2>1
  <2>3. ~IsData(r) /\ ~IsData(Reregister)
    BY OutWithoutData
  <2> HIDE DEF r
  <2>4. NoData'
    BY <2>2, <2>3 DEF NoData, IsData
  <2> QED BY <1>1, <2>4, StillMoves DEF Handshake, heap_vars
<1>2. CASE q.cmd \in {"join", "leave"} /\ (Join(c, <<q.name>>) \/ Leave(c, <<q.name>>))
  <2>1. Push(c, Ok) \/ PushError(c)
    BY <1>2 DEF Join, Leave
  <2>2. NoData'
    BY <2>1, OutWithoutData, PushesNoData
  <2> QED BY <1>2, <2>2, StillMoves DEF Join, Leave, heap_vars
<1>3. CASE q.cmd = "send" /\ Send(c, q.name, q.body)
  <2>1. q.name \in Names /\ q.body \in Payloads
    BY <1>3, CommandFields DEF AnyInput
  <2>2. Range(members[q.name]) = {e \in Fds : q.name \in groups[e]} /\ Range(members[q.name]) \subseteq conn
    BY <2>1 DEF MembershipOK, NoDangling
  <2>3. CASE members[q.name] = <<>>
    <3>1. PushError(c) /\ UNCHANGED <<queue, body>>
      BY <1>3, <2>3 DEF Send, heap_vars
    <3>2. Range(members[q.name]) = {}
      BY <2>3 DEF Range
    <3> QED BY <2>2, <3>1, <3>2, PushesNoData, StillMoves
  <2>4. CASE members[q.name] # <<>>
    <3>1. PICK m \in Free : Relayed(c, m, q.body, Range(members[q.name]))
      BY <1>3, <2>4 DEF Send, NoMemory
    <3>2. PICK R \in SUBSET Fds : R = Range(members[q.name])
      BY <2>2
    <3>3. (d \in R <=> q.name \in groups[d]) /\ (d \in R => d \in conn) /\ Relayed(c, m, q.body, R)
      BY <2>2, <3>1, <3>2
    <3>5. PICK p \in Payloads : p = q.body
      BY <2>1
    <3>6. Relayed(c, m, p, R)
      BY <3>3, <3>5
    <3>4. Relays(d, p, R)
      BY <3>6, RelayedHeld
    <3> QED BY <1>3, <3>3, <3>4, <3>5 DEF Moves, Gains, Relays
  <2> QED BY <2>3, <2>4
<1>4. CASE q.cmd = "broadcast" /\ Broadcast(c, q.body)
  <2>1. q.body \in Payloads
    BY <1>4, CommandFields DEF AnyInput
  <2>2. PICK m \in Free : Relayed(c, m, q.body, conn \ {c})
    BY <1>4 DEF Broadcast, NoMemory
  <2> DEFINE R == conn \ {c}
  <2>3. R \in SUBSET Fds /\ (d \in R => d \in conn)
    BY DEF TypeOK
  <2>4. Relayed(c, m, q.body, R)
    BY <2>2
  <2> HIDE DEF R
  <2>5. Relays(d, q.body, R)
    BY <2>1, <2>3, <2>4, RelayedHeld
  <2> QED BY <1>4, <2>3, <2>5 DEF Moves, Gains, Relays
<1>5. CASE q.cmd = "sync" /\ Sync(c, q.n)
  <2>1. q.n \in Int
    BY <1>5, CommandFields
  <2> QED BY <1>5, <2>1, SyncHeld DEF Moves
<1>6. CASE q.cmd \in {"wait", "devices"} /\ (Wait(c) \/ ListDevices(c))
  <2>1. (\E r : Push(c, r) /\ ~IsData(r)) \/ out' = Silence
    BY <1>6, OutWithoutData DEF Wait, ListDevices
  <2>2. NoData'
    BY <2>1, PushesNoData
  <2> QED BY <1>6, <2>2, StillMoves DEF Wait, ListDevices, heap_vars
<1> QED BY <1>1, <1>2, <1>3, <1>4, <1>5, <1>6 DEF Dispatch

-----------------------------------------------------------------------------
(* Copies are never lost on their way: no step takes one away from a       *)
(* client that is not down, and only a send or a broadcast adds one.       *)
LEMMA CopiesPartsNext == \A d : CopiesFor(d)' = Held(d)' \cup DataIn(wbuf'[d]) \cup seen'[d]
BY DEF CopiesFor, Held, DataIn

LEMMA DataTail ==
  ASSUME NEW s \in Seq(Reply), s # <<>>
  PROVE  DataIn(s) = DataIn(Tail(s)) \cup (IF Head(s).reply = "data" THEN {Head(s).body} ELSE {})
<1>1. /\ 1 \in DOMAIN s /\ s[1] = Head(s)
      /\ \A i \in DOMAIN Tail(s) : i + 1 \in DOMAIN s /\ Tail(s)[i] = s[i + 1]
      /\ \A i \in DOMAIN s : i # 1 => i - 1 \in DOMAIN Tail(s) /\ Tail(s)[i - 1] = s[i]
  OBVIOUS
<1> DEFINE t == Tail(s)
           h == Head(s)
<1>2. /\ 1 \in DOMAIN s /\ s[1] = h
      /\ \A i \in DOMAIN t : i + 1 \in DOMAIN s /\ t[i] = s[i + 1]
      /\ \A i \in DOMAIN s : i # 1 => i - 1 \in DOMAIN t /\ t[i - 1] = s[i]
  BY <1>1
<1> HIDE DEF t, h
<1>3. Range(s) = Range(t) \cup {h}
  BY <1>2 DEF Range
<1> QED BY <1>3 DEF DataIn, t, h

LEMMA ClientCopies ==
  ASSUME AnyInput, Typed, NEW c \in Fds, Ready(c), Good(c), ClientStep(c), NEW d \in Fds
  PROVE  CopiesFor(d)' = CopiesFor(d)
<1>1. OwnStep(c) /\ TypedAt(c)'
  BY ClientKeepsReady
<1>2. Held(d)' = Held(d)
  BY <1>1 DEF OwnStep, broker_vars, vars, heap_vars, Held
<1>3. CASE d # c
  <2>1. wbuf'[d] = wbuf[d] /\ seen'[d] = seen[d]
    BY <1>1, <1>3, OwnOthers DEF Bystander
  <2> QED BY <1>2, <2>1, CopiesParts, CopiesPartsNext
<1>4. CASE wbuf'[c] = wbuf[c] /\ seen'[c] = seen[c]
  BY <1>2, <1>3, <1>4, CopiesParts, CopiesPartsNext
<1>5. CASE Receive(c)
  <2> DEFINE r == Head(wbuf[c])
  <2>1. /\ Up(c) /\ wbuf[c] # <<>> /\ wbuf'[c] = Tail(wbuf[c])
        /\ MetaRead(c, r) \/ DataRead(c, r) \/ AnswerRead(c, r)
    BY <1>5, ReceiveFacts
  <2>2. wbuf[c] \in Seq(Reply)
    BY DEF Typed
  <2>3. 1 \in DOMAIN wbuf[c] /\ wbuf[c][1] = r
    BY <2>1, <2>2
  <2>4. r.reply = "data" => call[c].op = "sync"
    BY <2>1, <2>3 DEF Good, Talk
  <2> HIDE DEF r
  <2>5. IF r.reply = "data" THEN seen'[c] = seen[c] \cup {r.body} ELSE seen'[c] = seen[c]
    BY <2>1, <2>4 DEF MetaRead, DataRead, AnswerRead, IsMeta
  <2>6. DataIn(wbuf[c]) = DataIn(wbuf'[c]) \cup (IF r.reply = "data" THEN {r.body} ELSE {})
    BY <2>1, <2>2, DataTail DEF r
  <2>7. DataIn(wbuf[c]) \cup seen[c] = DataIn(wbuf'[c]) \cup seen'[c]
    BY <2>5, <2>6
  <2> QED BY <1>2, <1>3, <2>7, CopiesParts, CopiesPartsNext
<1>6. CASE Open(c)
  BY <1>4, <1>6, OpenFacts
<1>7. CASE AskServer(c) \/ \E n \in SyncLimits : StartSync(c, n)
  BY <1>4, <1>7, AskFacts
<1>8. ASSUME NEW n \in Names, NEW k \in VarCounts, StartSend(c, "send", n, k)
      PROVE  CopiesFor(d)' = CopiesFor(d)
  BY <1>4, <1>8, StartSendFacts
<1>9. ASSUME NEW k \in VarCounts, StartSend(c, "broadcast", Everyone, k)
      PROVE  CopiesFor(d)' = CopiesFor(d)
  BY <1>4, <1>9, StartSendFacts
<1>10. CASE Close(c)
  BY <1>4, <1>10, CloseFacts
<1> QED BY <1>5, <1>6, <1>7, <1>8, <1>9, <1>10 DEF ClientStep

LEMMA AcceptCopies ==
  ASSUME TypeOK, MembershipOK, NEW c \in Fds, ServerAccept(c), NEW d \in Fds
  PROVE  CopiesFor(d)' = CopiesFor(d)
<1>1. UNCHANGED <<queue, body, wbuf, seen>>
  BY AcceptQuiet
<1> QED BY <1>1 DEF CopiesFor

LEMMA HangupCopies ==
  ASSUME TypeOK, RefsCover, Typed, NEW c \in Fds, Hangup(c), NEW d \in Fds, status[d] # "down"
  PROVE  CopiesFor(d)' = CopiesFor(d)
<1>1. d # c /\ wbuf'[d] = wbuf[d] /\ seen'[d] = seen[d]
  BY HangupQuiet
<1>2. queue' = [queue EXCEPT ![c] = <<>>] /\ Release(Visited(c)) /\ waiting' \subseteq waiting
  BY DEF Hangup, Disconnect
<1>3. LetsGo(c, Range(queue[c]), Visited(c))
  <2>1. Injective(<<>>) /\ Range(<<>>) = {} /\ Visited(c) \subseteq Range(queue[c])
    BY DEF Injective, Range, Visited
  <2>2. queue'[c] = <<>> /\ queue' = [queue EXCEPT ![c] = queue'[c]]
    BY <1>2 DEF TypeOK
  <2> QED BY <1>2, <2>1, <2>2 DEF LetsGo
<1>4. Letters'[d] = Letters[d]
  BY <1>1, <1>3, OthersLetters
<1> QED BY <1>1, <1>4, HeldLetters, HeldLettersNext, CopiesParts, CopiesPartsNext

(* What the command q does to the copies for client d.                     *)
Spares(d, q) == CopiesFor(d)' = CopiesFor(d) /\ ~(q.cmd = "send" /\ q.name \in groups[d])
Delivers(d, q) ==
  /\ q.cmd \in {"send", "broadcast"} /\ d \in conn
  /\ q.cmd = "send" => q.name \in groups[d]
  /\ CopiesFor(d)' = CopiesFor(d) \cup {q.body}

LEMMA ServeCopies ==
  ASSUME AnyInput, ~AllocMayFail, TypeOK, TypeOK', MembershipOK, RefsCover, Typed,
         NEW c \in Fds, Serve(c), NEW d \in Fds, status[d] # "down"
  PROVE  Spares(d, Head(inq[c])) \/ Delivers(d, Head(inq[c]))
<1> DEFINE q == Head(inq[c])
<1>1. q \in Commands /\ Dispatch(c, q)
  BY HeadCommand DEF Serve
<1> HIDE DEF q
<1>2. wbuf'[d] = wbuf[d] \o out'[d] /\ seen'[d] = seen[d]
  BY DEF Serve, Flush, client_vars
<1>3. wbuf[d] \in Seq(Reply) /\ out'[d] \in Seq(Reply)
  BY DEF Typed, TypeOK
<1>4. DataIn(wbuf'[d]) = DataIn(wbuf[d]) \cup DataIn(out'[d])
  BY <1>2, <1>3, ConcatData
<1>5. CopiesFor(d)' = (Held(d)' \cup DataIn(out'[d])) \cup DataIn(wbuf[d]) \cup seen[d]
  BY <1>2, <1>4, CopiesPartsNext
<1>6. \/ Moves(d) /\ ~(q.cmd = "send" /\ q.name \in groups[d])
      \/ /\ q.cmd \in {"send", "broadcast"} /\ d \in conn /\ Gains(d, q.body)
         /\ q.cmd = "send" => q.name \in groups[d]
  BY <1>1, HandlersMove
<1>7. Moves(d) => CopiesFor(d)' = CopiesFor(d)
  BY <1>5, CopiesParts DEF Moves
<1>8. Gains(d, q.body) => CopiesFor(d)' = CopiesFor(d) \cup {q.body}
  BY <1>5, CopiesParts DEF Gains
<1>9. Spares(d, q) \/ Delivers(d, q)
  BY <1>6, <1>7, <1>8 DEF Spares, Delivers
<1> QED BY <1>9 DEF q

-----------------------------------------------------------------------------
(* The debts of a sender.  A call that began with another serialization    *)
(* than dimeb will start again if it has read the notice, or will read it  *)
(* before its last answer.  One that began with dimeb has its commands for *)
(* a variable still to be handled, or to be sent.                          *)
Overdue(c) == ser[c] = "dimeb" \/ \E i \in Notices(c), j \in Answers(c) : i < j

Resent(c, v) == [from |-> c, var |-> v, ser |-> "dimeb"]

Resends(c, v) == v >= call[c].next \/ \E i \in DOMAIN inq[c] : inq[c][i].body = Resent(c, v)

Owes(c, v) ==
  /\ call[c].op = "send" /\ v \in call[c].lo..call[c].hi
  /\ IF call[c].began = "dimeb" THEN Resends(c, v) ELSE Overdue(c)

(* The step leaves a debt of c as it is.                                   *)
StillOwes(c, v) == Owes(c, v)' /\ call'[c].to = call[c].to

LEMMA OwesQuiet ==
  ASSUME NEW c \in Fds, NEW v, Owes(c, v), ser'[c] = ser[c], call'[c] = call[c], inq'[c] = inq[c],
         wbuf'[c] = wbuf[c]
  PROVE  StillOwes(c, v)
BY DEF Owes, Overdue, Resends, Notices, Answers, StillOwes

(* A call that starts again, or goes on, sends what it owes.               *)
LEMMA RestartOwes ==
  ASSUME NEW c \in Fds, Typed, NEW v, Owes(c, v), ser'[c] = ser[c], inq[c] = <<>>,
         call[c].began = "dimeb" \/ ser[c] = "dimeb", ser[c] \in {call[c].began, "dimeb"}, Restarts(c)
  PROVE  StillOwes(c, v)
<1>1. PICK l \in Drafts :
        /\ Batched(c, l) /\ l.op = "send" /\ l.to = call[c].to /\ l.began = ser[c]
        /\ l.lo = call[c].lo /\ l.hi = call[c].hi
        /\ l.next = IF call[c].began = ser[c] THEN call[c].next ELSE l.lo
  BY DEF Restarts
<1>2. PICK t \in Seq(Commands) :
        /\ inq'[c] = inq[c] \o t
        /\ \A u \in l.next..l.hi : u >= call'[c].next \/ \E i \in DOMAIN t : t[i].body = Copy(c, u)
        /\ call'[c].op = l.op /\ call'[c].to = l.to /\ call'[c].began = l.began
        /\ call'[c].lo = l.lo /\ call'[c].hi = l.hi
  BY <1>1, Zenon DEF Batched
<1>3. ser[c] = "dimeb"
  OBVIOUS
<1>4. inq'[c] = t
  BY <1>2
<1>5. v \in l.lo..l.hi /\ l.lo \in Nat /\ l.hi \in Nat /\ l.next \in Nat
  BY <1>1, DraftFields, BoundsAssumption DEF Owes
<1>6. v \in l.next..l.hi
  <2>1. CASE call[c].began = ser[c]
    <3>1. Resends(c, v)
      BY <1>3, <2>1 DEF Owes
    <3>2. v >= call[c].next
      BY <3>1 DEF Resends
    <3> QED BY <1>1, <1>5, <2>1, <3>2
  <2>2. CASE call[c].began # ser[c]
    BY <1>1, <1>5, <2>2
  <2> QED BY <2>1, <2>2
<1>7. Copy(c, v) = Resent(c, v)
  BY <1>3 DEF Copy, Resent
<1>8. Resends(c, v)'
  <2>1. v >= call'[c].next \/ \E i \in DOMAIN inq'[c] : inq'[c][i].body = Resent(c, v)
    BY <1>2, <1>4, <1>6, <1>7
  <2> QED BY <2>1 DEF Resends, Resent
<1>9. /\ call'[c].op = "send" /\ call'[c].to = call[c].to /\ call'[c].began = "dimeb"
      /\ v \in call'[c].lo..call'[c].hi
  BY <1>1, <1>2, <1>3, <1>5
<1> QED BY <1>8, <1>9 DEF Owes, StillOwes

LEMMA ClientOwes ==
  ASSUME Lossless, Typed, NEW c \in Fds, Ready(c), Good(c), Fluent(c), Sending(c), Up(c),
         ClientStep(c), NEW v, Owes(c, v)
  PROVE  status'[c] = "down" \/ StillOwes(c, v)
<1>1. call[c].op = "send" /\ call[c] \in Calls /\ wbuf[c] \in Seq(Reply)
  BY DEF Owes, Typed
<1>2. call[c] # Idle /\ call[c] \in Batches
  BY <1>1, CallFields DEF Idle
<1>3. CASE Close(c)
  BY <1>3, CloseFacts
<1>4. CASE Receive(c)
  <2> DEFINE r == Head(wbuf[c])
  <2>1. wbuf[c] # <<>> /\ wbuf'[c] = Tail(wbuf[c])
    BY <1>4, <1>1 DEF Receive, Typed
  <2>2. /\ 1 \in DOMAIN wbuf[c] /\ wbuf[c][1] = Head(wbuf[c])
        /\ \A i \in Notices(c) : i # 1 => i - 1 \in Notices(c)'
        /\ \A i \in Answers(c) : i # 1 => i - 1 \in Answers(c)'
    BY <1>1, <2>1, TailNotices
  <2>3. 1 \in DOMAIN wbuf[c] /\ wbuf[c][1] = r
    BY <2>2
  <2> HIDE DEF r
  <2>4. ReadMeta(c, r) \/ ReadAnswer(c, r)
    BY <1>1, <1>4, ReadsAnswer DEF r
  <2>5. CASE ReadMeta(c, r)
    <3>1. ser'[c] = r.serialization /\ call'[c] = call[c] /\ inq'[c] = inq[c] /\ r.reply = "reregister"
      BY <2>5 DEF ReadMeta, IsMeta, Typed
    <3>2. 1 \in Notices(c)
      BY <2>3, <3>1 DEF Notices, IsNotice
    <3>3. r.serialization = "dimeb"
      BY <2>3, <3>1, <3>2 DEF Fluent, NoticeTrue
    <3>4. Overdue(c)'
      BY <3>1, <3>3 DEF Overdue
    <3>5. Resends(c, v) => Resends(c, v)'
      BY <3>1 DEF Resends, Resent
    <3> QED BY <3>1, <3>4, <3>5 DEF Owes, StillOwes
  <2>6. CASE ReadAnswer(c, r)
    <3>1. ser'[c] = ser[c]
      BY <1>1, <2>6 DEF ReadAnswer
    <3>2. ~JavaScript(c)
      BY NotJavaScript DEF Lossless, Orderly
    <3>3. r.reply \notin {"registered", "reregister", "data"}
      BY <1>1, <2>3, <2>6, <3>2 DEF ReadAnswer, IsMeta, Good, Talk
    <3>4. 1 \notin Notices(c) /\ 1 \in Answers(c)
      BY <2>3, <3>3 DEF Notices, IsNotice, Answers, IsAnswer
    <3>5. \/ status'[c] = "down"
          \/ CountsDown(c)
          \/ call[c].pending = 1 /\ status'[c] = status[c] /\ (Returns(c) \/ Restarts(c))
      BY <1>1, <2>6, SendAnswered DEF Lossless
    <3>6. CASE CountsDown(c)
      <4>1. /\ call'[c].op = call[c].op /\ call'[c].lo = call[c].lo /\ call'[c].hi = call[c].hi
            /\ call'[c].next = call[c].next /\ call'[c].began = call[c].began /\ call'[c].to = call[c].to
        BY <3>6 DEF CountsDown, Batches
      <4>2. Resends(c, v) => Resends(c, v)'
        BY <3>6, <4>1 DEF CountsDown, Resends, Resent
      <4>3. Overdue(c) => Overdue(c)'
        <5>1. ASSUME NEW i \in Notices(c), NEW j \in Answers(c), i < j
              PROVE  \E h \in Notices(c)', k \in Answers(c)' : h < k
          <6>1. i \in Nat /\ j \in Nat /\ i # 1 /\ i # 0 /\ j # 0
            BY <1>1, <3>4 DEF Notices, Answers
          <6>2. j # 1 /\ i - 1 < j - 1
            BY <5>1, <6>1
          <6> QED BY <2>2, <6>1, <6>2
        <5> QED BY <3>1, <5>1 DEF Overdue
      <4> QED BY <4>1, <4>2, <4>3 DEF Owes, StillOwes
    <3>7. CASE call[c].pending = 1 /\ (Returns(c) \/ Restarts(c))
      <4>1. inq[c] = <<>> /\ Ans(Tail(wbuf[c])) = {}
        <5>1. IsAnswer(Head(wbuf[c]))
          BY <2>2, <2>3, <3>3 DEF IsAnswer
        <5> QED BY <2>1, <3>7, <5>1, LastQuiet
      <4>2. \A i \in Notices(c), j \in Answers(c) : ~(i < j)
        <5>1. Answers(c)' = {}
          BY <2>1, <4>1, AnswersAre
        <5>2. \A j \in Answers(c) : j = 1
          BY <2>2, <5>1
        <5>3. \A i \in Notices(c) : i \in Nat /\ i # 0
          BY <1>1 DEF Notices
        <5> QED BY <5>2, <5>3
      <4>3. call[c].began = "dimeb" \/ ser[c] = "dimeb"
        BY <4>2 DEF Owes, Overdue
      <4>4. ser[c] \in {call[c].began, "dimeb"}
        BY <1>1 DEF Sending
      <4>5. CASE Restarts(c)
        BY <3>1, <4>1, <4>3, <4>4, <4>5, RestartOwes
      <4>6. CASE Returns(c)
        <5>1. call[c].began = "dimeb" /\ call[c].next > call[c].hi
          BY <4>3, <4>4, <4>6 DEF Returns
        <5>2. Resends(c, v) /\ v \in call[c].lo..call[c].hi
          BY <5>1 DEF Owes
        <5>3. v >= call[c].next
          BY <4>1, <5>2 DEF Resends
        <5>4. call[c].hi \in Nat /\ call[c].lo \in Nat /\ call[c].next \in Nat
          BY <1>2, BoundsAssumption DEF Batches
        <5> QED BY <5>1, <5>2, <5>3, <5>4
      <4> QED BY <3>7, <4>5, <4>6
    <3> QED BY <3>5, <3>6, <3>7
  <2> QED BY <2>4, <2>5, <2>6
<1>5. CASE Open(c)
  BY <1>5 DEF Open, Up
<1>6. CASE AskServer(c) \/ \E n \in SyncLimits : StartSync(c, n)
  BY <1>2, <1>6, AskFacts
<1>7. ASSUME NEW n \in Names, NEW k \in VarCounts, StartSend(c, "send", n, k)
      PROVE  FALSE
  BY <1>2, <1>7 DEF StartSend, CanCall
<1>8. ASSUME NEW k \in VarCounts, StartSend(c, "broadcast", Everyone, k)
      PROVE  FALSE
  BY <1>2, <1>8 DEF StartSend, CanCall
<1> QED BY <1>3, <1>4, <1>5, <1>6, <1>7, <1>8 DEF ClientStep

(* The server handles a command: of c itself, or of another client.        *)
LEMMA FlushOverdue ==
  ASSUME Typed, TypeOK', NEW c \in Fds, Up(c), Flush, ser'[c] = ser[c], Overdue(c)
  PROVE  Overdue(c)'
<1>1. wbuf'[c] = wbuf[c] \o out'[c]
  BY DEF Flush, Up
<1>2. wbuf[c] \in Seq(Reply) /\ out'[c] \in Seq(Reply)
  BY DEF Typed, TypeOK
<1>3. Notices(c) \subseteq Notices(c)' /\ Answers(c) \subseteq Answers(c)'
  BY <1>1, <1>2, AppendedNotices
<1> QED BY <1>3 DEF Overdue

LEMMA ServeOwes ==
  ASSUME Typed, TypeOK', NEW c \in Fds, Up(c), NEW b \in Fds, Serve(b), NEW v, Owes(c, v)
  PROVE  StillOwes(c, v) \/ (b = c /\ Head(inq[c]).body = Resent(c, v))
<1>1. /\ ser'[c] = ser[c] /\ call'[c] = call[c] /\ Flush
      /\ inq'[c] = IF b = c THEN Tail(inq[c]) ELSE inq[c]
  BY DEF Serve, client_vars, Typed
<1>2. Overdue(c) => Overdue(c)'
  BY <1>1, FlushOverdue
<1>3. Resends(c, v) => Resends(c, v)' \/ (b = c /\ Head(inq[c]).body = Resent(c, v))
  <2>1. CASE v >= call[c].next
    BY <1>1, <2>1 DEF Resends
  <2>2. CASE b # c
    BY <1>1, <2>2 DEF Resends, Resent
  <2>3. ASSUME b = c, NEW i \in DOMAIN inq[c], inq[c][i].body = Resent(c, v)
        PROVE  Resends(c, v)' \/ Head(inq[c]).body = Resent(c, v)
    <3>1. inq[c] \in Seq(Commands) /\ inq[c] # <<>>
      BY <2>3 DEF Typed, Serve
    <3>2. \/ i = 1 /\ inq[c][i] = Head(inq[c])
          \/ i - 1 \in DOMAIN Tail(inq[c]) /\ Tail(inq[c])[i - 1] = inq[c][i]
      BY <3>1
    <3>3. CASE i = 1 /\ inq[c][i] = Head(inq[c])
      BY <2>3, <3>3
    <3>4. CASE i - 1 \in DOMAIN Tail(inq[c]) /\ Tail(inq[c])[i - 1] = inq[c][i]
      <4>1. i - 1 \in DOMAIN inq'[c] /\ inq'[c][i - 1].body = Resent(c, v)
        BY <1>1, <2>3, <3>4
      <4> QED BY <4>1 DEF Resends, Resent
    <3> QED BY <3>2, <3>3, <3>4
  <2> QED BY <2>1, <2>2, <2>3 DEF Resends
<1> QED BY <1>1, <1>2, <1>3 DEF Owes, StillOwes

LEMMA DownStays ==
  ASSUME AnyInput, Typed, \A c \in Fds : Ready(c), [SessionNext]_all_vars, NEW d \in Fds, status[d] = "down"
  PROVE  status'[d] = "down"
<1>1. ASSUME NEW c \in Fds, ClientStep(c) PROVE status'[d] = "down"
  <2>1. CASE d # c
    <3>1. OwnStep(c)
      BY <1>1, ClientKeepsReady
    <3> QED BY <2>1, <3>1, OwnOthers DEF Bystander
  <2>2. CASE d = c
    <3>1. CASE AskServer(c) \/ \E n \in SyncLimits : StartSync(c, n)
      BY <2>2, <3>1, AskFacts DEF Up
    <3> QED BY <1>1, <2>2, <3>1 DEF ClientStep, Open, Close, Receive, StartSend, CanCall, Up
  <2> QED BY <2>1, <2>2
<1>2. ASSUME NEW c \in Fds, ServerAccept(c) \/ Serve(c) \/ Hangup(c) PROVE status'[d] = "down"
  BY <1>2 DEF ServerAccept, Serve, Hangup
<1>3. CASE UNCHANGED all_vars
  BY <1>3 DEF all_vars
<1> QED BY <1>1, <1>2, <1>3, SessionSteps

(* A client whose commands are served has started, and what the head of    *)
(* its commands says is what its call says.                                *)
LEMMA ServedHead ==
  ASSUME Typed, NEW c \in Fds, Good(c), Sending(c), Serve(c), status[c] # "down"
  PROVE  /\ Up(c) /\ Head(inq[c]).cmd = call[c].op
         /\ call[c].op \notin {"leave", "broadcast"}
         /\ call[c].op = "send" => Carries(c, Head(inq[c]))
<1>1. Head(inq[c]) = inq[c][1] /\ 1 \in DOMAIN inq[c] /\ inq[c] # <<>>
  BY HeadCommand DEF Serve
<1>2. Up(c)
  BY <1>1 DEF Good, Before, Typed, Up
<1> DEFINE q == Head(inq[c])
<1>3. inq[c][1] = q
  BY <1>1
<1> HIDE DEF q
<1>4. q.cmd = call[c].op
  BY <1>1, <1>2, <1>3 DEF Good, Talk
<1>5. call[c].op \notin {"leave", "broadcast"} /\ (call[c].op = "send" => Carries(c, q))
  BY <1>1, <1>2, <1>3 DEF Sending
<1> QED BY <1>2, <1>4, <1>5 DEF q

LEMMA GroupsGrow ==
  ASSUME Lossless, TypeOK, MembershipOK, Typed, \A c \in Fds : Ready(c) /\ Good(c) /\ Sending(c),
         [SessionNext]_all_vars, NEW d \in Fds, status[d] # "down"
  PROVE  groups[d] \subseteq groups'[d]
<1>1. ASSUME NEW c \in Fds, ClientStep(c) PROVE groups'[d] = groups[d]
  <2>1. OwnStep(c)
    BY <1>1, ClientKeepsReady DEF Lossless, Orderly
  <2> QED BY <2>1 DEF OwnStep, broker_vars, vars, members_vars
<1>2. ASSUME NEW c \in Fds, ServerAccept(c) PROVE groups'[d] = groups[d]
  BY <1>2, AcceptQuiet
<1>3. ASSUME NEW c \in Fds, Hangup(c) PROVE groups'[d] = groups[d]
  BY <1>3, HangupQuiet
<1>4. ASSUME NEW c \in Fds, Serve(c) PROVE groups[d] \subseteq groups'[d]
  <2> DEFINE q == Head(inq[c])
  <2>1. q \in Commands /\ Dispatch(c, q)
    BY <1>4, HeadCommand DEF Serve
  <2>2. d = c => q.cmd # "leave"
    BY <1>4, ServedHead
  <2> HIDE DEF q
  <2> QED BY <2>1, <2>2, HandlersSettle DEF Lossless, Orderly
<1>5. CASE UNCHANGED all_vars
  BY <1>5 DEF all_vars, broker_vars, vars, members_vars
<1> QED BY <1>1, <1>2, <1>3, <1>4, <1>5, SessionSteps

-----------------------------------------------------------------------------
(* What becomes of a copy p for client d.                                  *)
Owed(d, p) == Owes(p.from, p.var) /\ call[p.from].to \in groups[d]

Decoded(d, p) == \E q \in CopiesFor(d) : q.from = p.from /\ q.var = p.var /\ q.ser \in Understands(d)

Settled(d, p) ==
  p.ser \in Understands(d) \/ status[p.from] = "down" \/ Owed(d, p) \/ Decoded(d, p)

AllSettled(d) == status[d] # "down" => \A p \in CopiesFor(d) : Settled(d, p)

LEMMA CopiesGenuine ==
  ASSUME AnyInput, TypeOK, RefsCover, NEW d \in Fds, Genuine(d)
  PROVE  CopiesFor(d) \subseteq Copies
<1>1. Held(d) \subseteq Copies
  <2> SUFFICES ASSUME NEW m \in Range(queue[d]) PROVE body[m] \in Copies
    BY DEF Held
  <2>1. m \in Msgs
    <3>1. queue[d] \in Seq(Msgs)
      BY DEF TypeOK
    <3> QED BY <3>1 DEF Range
  <2>2. d \in Holders(m)
    BY DEF Holders
  <2>3. body[m] # NoBody
    BY <2>1, <2>2 DEF RefsCover
  <2> QED BY <2>1, <2>3 DEF TypeOK, AnyInput
<1>2. DataIn(wbuf[d]) \subseteq Copies
  BY DEF DataIn, Range, Genuine
<1>3. seen[d] \subseteq Copies
  BY DEF Genuine
<1> QED BY <1>1, <1>2, <1>3, CopiesParts

(* A copy that the server has just queued for d.                           *)
LEMMA NewCopy ==
  ASSUME Lossless, TypeOK, TypeOK', MembershipOK, Typed, \A c \in Fds : Ready(c) /\ Good(c),
         Attentive, [SessionNext]_all_vars, NEW c \in Fds, Serve(c), NEW d \in Fds, status[d] # "down",
         Delivers(d, Head(inq[c])), NEW p, p = Head(inq[c]).body
  PROVE  Settled(d, p)'
<1> DEFINE q == Head(inq[c])
<1>1. q \in Commands /\ Dispatch(c, q) /\ inq[c] # <<>> /\ q = inq[c][1] /\ 1 \in DOMAIN inq[c]
  BY HeadCommand DEF Serve
<1>2. p = q.body
  OBVIOUS
<1>3. /\ UNCHANGED <<status, kind>> /\ ser'[c] = ser[c] /\ call'[c] = call[c] /\ c \in conn /\ Flush
  BY DEF Serve, client_vars
<1>4. ~AllocMayFail /\ AnyInput /\ NoJavaScript
  BY DEF Lossless, Orderly
<1>5. Good(c) /\ Sending(c) /\ Fluent(c) /\ Fluent(d) /\ Good(d) /\ Honest(c) /\ Ready(c)
  BY DEF Attentive
<1>6. CASE status[c] = "down"
  <2>1. p.from = c
    <3>1. Signed(c, inq[c][1])
      BY <1>1, <1>5 DEF Honest
    <3>2. Signed(c, q)
      BY <1>1, <3>1
    <3> HIDE DEF q
    <3> QED BY <1>2, <3>2 DEF Signed, Delivers, q
  <2> QED BY <1>3, <1>6, <2>1 DEF Settled
<1>7. CASE status[c] # "down"
  <2>1. /\ Up(c) /\ q.cmd = call[c].op
        /\ call[c].op \notin {"leave", "broadcast"}
        /\ call[c].op = "send" => Carries(c, q)
    BY <1>5, <1>7, ServedHead
  <2>2. q.cmd \in {"send", "broadcast"} /\ d \in conn /\ (q.cmd = "send" => q.name \in groups[d])
    BY DEF Delivers
  <2>3. p.from = c
    <3>1. Signed(c, inq[c][1])
      BY <1>1, <1>5 DEF Honest
    <3>2. Signed(c, q)
      BY <1>1, <3>1
    <3> HIDE DEF q
    <3> QED BY <1>2, <2>2, <3>2 DEF Signed
  <2> HIDE DEF q
  <2>4. call[c].op = "send" /\ q.cmd = "send" /\ Carries(c, q) /\ q.name \in groups[d]
    BY <2>1, <2>2
  <2>5. q.name = call[c].to /\ p.ser = call[c].began /\ p.var \in call[c].lo..call[c].hi
    BY <1>2, <2>4 DEF Carries
  <2>6. Up(d)
    BY <1>5, <2>2 DEF Good, Before, Typed, Up
  <2>7. serialization \in Understands(d)
    BY <1>5, <2>4, <2>6 DEF Fluent
  <2>8. Understands(d)' = Understands(d)
    BY <1>3 DEF Understands, Matlab, JavaScript
  <2>9. CASE p.ser \in Understands(d)
    BY <2>8, <2>9 DEF Settled
  <2>10. CASE p.ser \notin Understands(d)
    <3>1. ser[c] # NoSerialization
      BY <1>5, <2>4 DEF Ready
    <3>2. serialization \in {ser[c], "dimeb"} /\ ser[c] \in {call[c].began, "dimeb"}
      BY <1>5, <2>1, <2>4, <3>1 DEF Fluent, Sending
    <3>3. serialization = "dimeb" /\ call[c].began # "dimeb"
      BY <2>5, <2>7, <2>10, <3>2
    <3>4. Overdue(c)'
      <4>1. CASE ser[c] = "dimeb"
        BY <1>3, <4>1 DEF Overdue
      <4>2. CASE ser[c] # "dimeb"
        <5>1. Notices(c) # {}
          BY <1>3, <1>5, <2>1, <3>1, <3>3, <4>2 DEF Good, View
        <5>2. c \notin waiting
          BY <1>1, <1>5, <2>1, ServedAwake
        <5>3. IsAnswered(c, q)
          BY <1>1, <1>4, <5>2, HandlersAnswer
        <5>4. PICK r : r.reply \in {"ok", "error", "n", "devices"} /\ out'[c] = <<r>>
          BY <2>4, <5>3 DEF IsAnswered
        <5>5. wbuf'[c] = wbuf[c] \o out'[c] /\ wbuf[c] \in Seq(Reply) /\ out'[c] \in Seq(Reply)
          BY <1>3, <1>7 DEF Flush, Typed, TypeOK
        <5>6. 1 \in DOMAIN out'[c] /\ IsAnswer(out'[c][1])
          BY <5>4 DEF IsAnswer
        <5>7. \E a \in Answers(c)' : \A i \in Notices(c) : i < a
          BY <5>5, <5>6, AppendedNotices
        <5>8. Notices(c) \subseteq Notices(c)'
          BY <5>5, AppendedNotices
        <5> QED BY <5>1, <5>7, <5>8 DEF Overdue
      <4> QED BY <4>1, <4>2
    <3>5. Owes(c, p.var)'
      BY <1>3, <2>4, <2>5, <3>3, <3>4 DEF Owes
    <3>6. call'[c].to \in groups'[d]
      <4>1. groups[d] \subseteq groups'[d]
        BY GroupsGrow DEF Attentive
      <4> QED BY <1>3, <2>4, <2>5, <4>1
    <3>7. Owed(d, p)'
      BY <2>3, <3>5, <3>6 DEF Owed
    <3> QED BY <3>7 DEF Settled
  <2> QED BY <2>9, <2>10
<1> QED BY <1>6, <1>7

(* What a step does to the copies for a client that is not down.           *)
LEMMA StepCopies ==
  ASSUME Lossless, TypeOK, TypeOK', MembershipOK, RefsCover, Typed,
         \A c \in Fds : Ready(c) /\ Good(c), [SessionNext]_all_vars, NEW d \in Fds, status[d] # "down"
  PROVE  /\ UNCHANGED kind
         /\ \/ CopiesFor(d)' = CopiesFor(d)
            \/ \E c \in Fds : Serve(c) /\ Delivers(d, Head(inq[c]))
<1>1. AnyInput /\ ~AllocMayFail
  BY DEF Lossless, Orderly
<1>2. ASSUME NEW c \in Fds, ClientStep(c) PROVE UNCHANGED kind /\ CopiesFor(d)' = CopiesFor(d)
  <2>1. OwnStep(c)
    BY <1>1, <1>2, ClientKeepsReady
  <2> QED BY <1>1, <1>2, <2>1, ClientCopies DEF OwnStep
<1>3. ASSUME NEW c \in Fds, ServerAccept(c) PROVE UNCHANGED kind /\ CopiesFor(d)' = CopiesFor(d)
  BY <1>3, AcceptCopies, AcceptQuiet
<1>4. ASSUME NEW c \in Fds, Hangup(c) PROVE UNCHANGED kind /\ CopiesFor(d)' = CopiesFor(d)
  <2>1. UNCHANGED kind
    BY <1>4 DEF Hangup, client_vars
  <2> QED BY <1>4, <2>1, HangupCopies
<1>5. ASSUME NEW c \in Fds, Serve(c)
      PROVE  UNCHANGED kind /\ (CopiesFor(d)' = CopiesFor(d) \/ Delivers(d, Head(inq[c])))
  <2>1. UNCHANGED kind
    BY <1>5 DEF Serve, client_vars
  <2> QED BY <1>1, <1>5, <2>1, ServeCopies DEF Spares
<1>6. CASE UNCHANGED all_vars
  BY <1>6 DEF all_vars, broker_vars, vars, heap_vars, client_vars, CopiesFor
<1> QED BY <1>2, <1>3, <1>4, <1>5, <1>6, SessionSteps

LEMMA OldCopy ==
  ASSUME Lossless, TypeOK, TypeOK', MembershipOK, RefsCover, Typed, \A c \in Fds : Ready(c) /\ Good(c),
         Attentive, [SessionNext]_all_vars, NEW d \in Fds, status[d] # "down", Genuine(d),
         NEW p \in CopiesFor(d), Settled(d, p)
  PROVE  Settled(d, p)'
<1>1. AnyInput /\ ~AllocMayFail /\ NoJavaScript
  BY DEF Lossless, Orderly
<1>2. UNCHANGED kind /\ CopiesFor(d) \subseteq CopiesFor(d)'
  BY StepCopies DEF Delivers
<1>3. Understands(d)' = Understands(d)
  BY <1>2 DEF Understands, Matlab, JavaScript
<1>4. p \in Copies
  BY <1>1, CopiesGenuine
<1> DEFINE c == p.from
           v == p.var
<1>5. c \in Fds
  BY <1>4 DEF Copies
<1>6. CASE p.ser \in Understands(d)
  BY <1>3, <1>6 DEF Settled
<1>7. CASE status[c] = "down"
  <2>1. status'[c] = "down"
    BY <1>1, <1>5, <1>7, DownStays
  <2> QED BY <2>1 DEF Settled
<1>8. CASE Decoded(d, p)
  BY <1>2, <1>3, <1>8 DEF Decoded, Settled
<1>9. CASE Owed(d, p) /\ status[c] # "down"
  <2>1. Owes(c, v) /\ call[c].to \in groups[d]
    BY <1>9 DEF Owed
  <2> HIDE DEF c, v
  <2>2. Good(c) /\ Ready(c) /\ Fluent(c) /\ Sending(c)
    BY <1>5 DEF Attentive
  <2>3. Up(c)
    <3>1. call[c] # Idle
      BY <2>1 DEF Owes, Idle
    <3> QED BY <1>5, <1>9, <2>2, <3>1 DEF Good, Before, Typed, Up
  <2>4. groups[d] \subseteq groups'[d]
    BY GroupsGrow DEF Attentive
  <2>5. CASE StillOwes(c, v)
    <3>1. Owed(d, p)'
      BY <2>1, <2>4, <2>5 DEF StillOwes, Owed, c, v
    <3> QED BY <3>1 DEF Settled
  <2>6. CASE status'[c] = "down"
    BY <2>6 DEF Settled, c
  <2>7. CASE Serve(c) /\ Head(inq[c]).body = Resent(c, v)
    <3> DEFINE q == Head(inq[c])
    <3>1. q.cmd = "send" /\ q.name = call[c].to
      BY <1>5, <1>9, <2>1, <2>2, <2>7, ServedHead DEF Owes, Carries
    <3>2. Spares(d, q) \/ Delivers(d, q)
      BY <1>1, <1>5, <2>7, ServeCopies
    <3>3. CopiesFor(d)' = CopiesFor(d) \cup {Resent(c, v)}
      BY <2>1, <2>7, <3>1, <3>2 DEF Spares, Delivers
    <3>4. Resent(c, v).from = c /\ Resent(c, v).var = v /\ Resent(c, v).ser = "dimeb"
      BY DEF Resent
    <3>5. "dimeb" \in Understands(d)
      BY <1>1, KindFacts
    <3>6. Decoded(d, p)'
      BY <1>3, <3>3, <3>4, <3>5 DEF Decoded, c, v
    <3> QED BY <3>6 DEF Settled
  <2>8. ASSUME NEW b \in Fds, ClientStep(b) PROVE status'[c] = "down" \/ StillOwes(c, v)
    <3>1. CASE b = c
      BY <1>5, <2>1, <2>2, <2>3, <2>8, <3>1, ClientOwes
    <3>2. CASE b # c
      <4>1. OwnStep(b)
        BY <1>1, <2>8, ClientKeepsReady
      <4>2. Bystander(c)
        BY <1>5, <3>2, <4>1, OwnOthers
      <4> QED BY <1>5, <2>1, <4>2, OwesQuiet DEF Bystander
    <3> QED BY <3>1, <3>2
  <2>9. ASSUME NEW b \in Fds, ServerAccept(b) PROVE StillOwes(c, v)
    <3>1. UNCHANGED <<inq, wbuf, ser, call>>
      BY <2>9, AcceptQuiet
    <3> QED BY <1>5, <2>1, <3>1, OwesQuiet
  <2>10. ASSUME NEW b \in Fds, Hangup(b) PROVE StillOwes(c, v)
    <3>1. ser'[c] = ser[c] /\ call'[c] = call[c] /\ inq'[c] = inq[c] /\ wbuf'[c] = wbuf[c]
      BY <1>5, <1>9, <2>10, HangupQuiet
    <3> QED BY <1>5, <2>1, <3>1, OwesQuiet
  <2>11. ASSUME NEW b \in Fds, Serve(b)
         PROVE  StillOwes(c, v) \/ (Serve(c) /\ Head(inq[c]).body = Resent(c, v))
    BY <1>5, <2>1, <2>3, <2>11, ServeOwes
  <2>12. CASE UNCHANGED all_vars
    <3>1. UNCHANGED <<inq, wbuf, ser, call>>
      BY <2>12 DEF all_vars, client_vars
    <3>2. StillOwes(c, v)
      BY <1>5, <2>1, <3>1, OwesQuiet
    <3> QED BY <2>5, <3>2
  <2> QED BY <2>5, <2>6, <2>7, <2>8, <2>9, <2>10, <2>11, <2>12, SessionSteps
<1> QED BY <1>6, <1>7, <1>8, <1>9 DEF Settled

LEMMA StepSettles ==
  ASSUME Lossless, TypeOK, TypeOK', MembershipOK, RefsCover, Typed, \A c \in Fds : Ready(c) /\ Good(c),
         Attentive, [SessionNext]_all_vars, NEW d \in Fds, Genuine(d), AllSettled(d)
  PROVE  AllSettled(d)'
<1> SUFFICES ASSUME status'[d] # "down", NEW p \in CopiesFor(d)' PROVE Settled(d, p)'
  BY DEF AllSettled
<1>1. status[d] # "down"
  BY DownStays DEF Lossless, Orderly
<1>2. CASE p \in CopiesFor(d)
  <2>1. Settled(d, p)
    BY <1>1, <1>2 DEF AllSettled
  <2> QED BY <1>1, <1>2, <2>1, OldCopy
<1>3. CASE p \notin CopiesFor(d)
  <2>1. PICK c \in Fds : Serve(c) /\ Delivers(d, Head(inq[c]))
    BY <1>1, <1>3, StepCopies
  <2>2. p = Head(inq[c]).body
    BY <1>3, <2>1 DEF Delivers
  <2> QED BY <1>1, <2>1, <2>2, NewCopy
<1> QED BY <1>2, <1>3

LEMMA SessionInitSettled ==
  ASSUME SessionInit
  PROVE  /\ Attentive /\ \A d \in Fds : AllSettled(d) /\ Genuine(d)
<1>1. \A c \in Fds : /\ status[c] = "off" /\ inq[c] = <<>> /\ wbuf[c] = <<>> /\ seen[c] = {}
                     /\ queue[c] = <<>>
  BY DEF SessionInit, Init
<1>2. \A c \in Fds : Fluent(c) /\ Sending(c) /\ Honest(c) /\ Genuine(c)
  BY <1>1 DEF Fluent, Sending, Honest, Genuine, Up
<1>3. JsonKnown
  BY DEF JsonKnown, SessionInit, Init, NoSerialization
<1>4. \A d \in Fds : CopiesFor(d) = {}
  BY <1>1 DEF CopiesFor, Range
<1> QED BY <1>2, <1>3, <1>4 DEF Attentive, AllSettled

(* No variable is lost to a change of the serialization, however many      *)
(* clients change it while others are in the middle of their batches: a    *)
(* copy that its recipient cannot decode was sent by a call that has not   *)
(* returned, or is followed by one that the recipient can decode (the      *)
(* restart of send_r in client.py and of send in dime.m).  Lossless asks   *)
(* for more than StaysInStep, and each of it is needed: a program that     *)
(* survives an exception never resends; the server keeps JSON, which       *)
(* dime.m cannot decode; a broadcast reaches a client before its           *)
(* handshake; and a resend misses a client that has left the group.        *)
THEOREM NothingIsLost ==
  ASSUME Lossless
  PROVE  SessionSpec => []NothingLost
<1> DEFINE I == Typed /\ \A c \in Fds : Ready(c)
           J == \A c \in Fds : Good(c)
           K == \A c \in Fds : Genuine(c)
           L == \A c \in Fds : AllSettled(c)
<1>0. AnyInput /\ ~AllocMayFail /\ Orderly
  BY DEF Lossless, Orderly
<1>1. SessionSpec => [](TypeOK /\ MembershipOK /\ RefsCover)
  BY <1>0, SessionImplementsBroker, TypeCorrect, MembershipCorrect, NoUseAfterFree, PTL
<1>2. SessionInit => I /\ J /\ K /\ Attentive /\ L
  BY SessionInitTypes, SessionInitGood, SessionInitSettled
<1>3. TypeOK /\ TypeOK' /\ I /\ [SessionNext]_all_vars => I'
  BY <1>0, SessionKeepsTypes
<1>4. TypeOK /\ TypeOK' /\ MembershipOK /\ I /\ J /\ [SessionNext]_all_vars => J'
  BY <1>0, SessionKeepsGood
<1>5. TypeOK /\ TypeOK' /\ RefsCover /\ I /\ K /\ [SessionNext]_all_vars => K'
  BY <1>0, SessionKeepsGenuine
<1>6. TypeOK /\ TypeOK' /\ MembershipOK /\ I /\ J /\ Attentive /\ [SessionNext]_all_vars => Attentive'
  BY StepAttentive
<1>7. TypeOK /\ TypeOK' /\ MembershipOK /\ RefsCover /\ I /\ J /\ K /\ Attentive /\ L /\ [SessionNext]_all_vars
        => L'
  BY StepSettles
<1>8. L => NothingLost
  <2> SUFFICES ASSUME L, NEW d \in Fds, Up(d), NEW p \in CopiesFor(d)
               PROVE  \/ p.ser \in Understands(d)
                      \/ ~Up(p.from)
                      \/ StillSending(p.from, p.var)
                      \/ \E q \in CopiesFor(d) :
                           q.from = p.from /\ q.var = p.var /\ q.ser \in Understands(d)
    BY DEF NothingLost
  <2>1. Settled(d, p)
    BY DEF AllSettled, Up
  <2>2. Owed(d, p) => StillSending(p.from, p.var)
    BY DEF Owed, Owes, StillSending
  <2>3. status[p.from] = "down" => ~Up(p.from)
    BY DEF Up
  <2> QED BY <2>1, <2>2, <2>3 DEF Settled, Decoded
<1> HIDE DEF I, J, K, L
<1> QED BY <1>1, <1>2, <1>3, <1>4, <1>5, <1>6, <1>7, <1>8, PTL DEF SessionSpec
=============================================================================
