------------------------------- MODULE Broker -------------------------------
(***************************************************************************)
(* The message broker of the DiME server: the state that the command       *)
(* handlers of server/client.c keep about clients, groups and queued       *)
(* messages, and one action per handler.                                   *)
(*                                                                         *)
(* The server is single threaded and runs every handler to completion, so  *)
(* a handler is one atomic step.  What a handler pushes into the sockets'  *)
(* write buffers is the value of `out' after its step: out[c] is the       *)
(* sequence of DiME messages the last step pushed to client c.  No handler *)
(* reads a write buffer back; Session.tla appends `out' to the buffers.    *)
(***************************************************************************)
EXTENDS Integers, Sequences, FiniteSets, Functions

CONSTANTS
  Fds,            \* file descriptors accept() may return: one client each
  Names,          \* group names
  Msgs,           \* heap addresses malloc may return for a dime_rcmessage_t
  Payloads,       \* contents of a message (its jsondata and bindata)
  NoBody,         \* the content of an address that is not allocated
  NotAString,     \* an element of a "name" array that is no JSON string
  NameLists,      \* the "name" arrays of the join and leave commands
  Serializations, \* serializations that handshakes ask for
  SyncLimits,     \* the n of a sync command
  InitCap,        \* initial capacity of a client's queue (16 in deque.c)
  UIntMax,        \* the largest unsigned int, the type of refs
  AllocMayFail    \* may malloc, realloc and json_pack return NULL?

ASSUME FdsAssumption == IsFiniteSet(Fds) /\ Cardinality(Fds) <= UIntMax
ASSUME NamesAssumption == NotAString \notin Names
ASSUME MsgsAssumption == NoBody \notin Payloads
ASSUME NameListsAssumption == NameLists \subseteq Seq(Names \cup {NotAString})
ASSUME SerializationsAssumption ==
         Serializations \subseteq {"matlab", "pickle", "dimeb", "json"}
ASSUME SyncLimitsAssumption == SyncLimits \subseteq Int
ASSUME InitCapAssumption == InitCap \in Nat /\ InitCap >= 2
ASSUME UIntMaxAssumption == UIntMax \in Nat
ASSUME AllocMayFailAssumption == AllocMayFail \in BOOLEAN

VARIABLES
  conn,          \* srv->fd2clnt: the connected clients
  groups,        \* clnt->groups; the array is only searched, so it is a set
  name2clnt,     \* srv->name2clnt: the groups ever created
  members,       \* group->clnts, an array in the order the code keeps it
  queue,         \* clnt->queue: the messages not yet synced, oldest first
  qcap,          \* the capacity of that deque
  waiting,       \* the clients whose clnt->waiting flag is set
  refs,          \* msg->refs by address
  body,          \* the content by address, NoBody where nothing is allocated
  serialization, \* srv->serialization
  out            \* what the last step pushed to each client's socket

members_vars == <<groups, name2clnt, members>>
heap_vars == <<queue, qcap, refs, body>>
vars == <<conn, members_vars, heap_vars, waiting, serialization, out>>

-----------------------------------------------------------------------------
(* The DiME messages the server pushes.                                    *)

Ok == [reply |-> "ok"]
Err == [reply |-> "error"]
Count(n) == [reply |-> "n", n |-> n]
Registered(s) == [reply |-> "registered", serialization |-> s]
Reregister == [reply |-> "reregister", serialization |-> "dimeb"]
Devices(S) == [reply |-> "devices", devices |-> S]
Data(p) == [reply |-> "data", body |-> p]

NoSerialization == "none"
AllSerializations == {"matlab", "pickle", "dimeb", "json"}

Reply ==
  [reply : {"ok", "error"}]
    \cup [reply : {"n"}, n : Nat]
    \cup [reply : {"registered", "reregister"}, serialization : AllSerializations]
    \cup [reply : {"devices"}, devices : SUBSET Names]
    \cup [reply : {"data"}, body : Payloads \cup {NoBody}]

Silence == [d \in Fds |-> <<>>]
Only(c, rs) == [d \in Fds |-> IF d = c THEN rs ELSE <<>>]

(* An error answer is best effort: nothing is pushed when it cannot be     *)
(* allocated.  Any other answer falls back to an error answer.             *)
PushError(c) ==
  \/ out' = Only(c, <<Err>>)
  \/ AllocMayFail /\ out' = Silence

Push(c, r) ==
  \/ out' = Only(c, <<r>>)
  \/ AllocMayFail /\ PushError(c)

-----------------------------------------------------------------------------
(* Mutant: the last element is dropped and not moved into the freed slot.  *)
SwapRemoveNoMove(s, x) ==
  IF \E i \in DOMAIN s : s[i] = x THEN SubSeq(s, 1, Len(s) - 1) ELSE s

(* Removal from an unordered array: the last element takes the freed slot. *)
SwapRemove(s, x) ==
  IF \E i \in DOMAIN s : s[i] = x
  THEN LET j == CHOOSE i \in DOMAIN s :
                  s[i] = x /\ \A h \in 1..(i - 1) : s[h] # x
       IN  [i \in 1..(Len(s) - 1) |-> IF i = j THEN s[Len(s)] ELSE s[i]]
  ELSE s

(* The capacity of a deque of capacity cap and length len after a push.    *)
Grown(cap, len) == IF len >= cap THEN (3 * cap) \div 2 ELSE cap

(* msg->refs-- on an unsigned int, and the free() at zero, for every       *)
(* message of the set S.                                                   *)
Decremented(r) == IF r = 0 THEN UIntMax ELSE r - 1

(* Mutant: a message is freed whatever its count.                          *)
ReleaseAlways(S) ==
  /\ refs' = [m \in Msgs |-> IF m \in S THEN Decremented(refs[m]) ELSE refs[m]]
  /\ body' = [m \in Msgs |-> IF m \in S THEN NoBody ELSE body[m]]

Release(S) ==
  /\ refs' = [m \in Msgs |-> IF m \in S THEN Decremented(refs[m]) ELSE refs[m]]
  /\ body' = [m \in Msgs |->
                IF m \in S /\ Decremented(refs[m]) = 0 THEN NoBody ELSE body[m]]

-----------------------------------------------------------------------------
Init ==
  /\ conn = {}
  /\ groups = [c \in Fds |-> {}]
  /\ name2clnt = {}
  /\ members = [n \in Names |-> <<>>]
  /\ queue = [c \in Fds |-> <<>>]
  /\ qcap = [c \in Fds |-> InitCap]
  /\ waiting = {}
  /\ refs = [m \in Msgs |-> 0]
  /\ body = [m \in Msgs |-> NoBody]
  /\ serialization = NoSerialization
  /\ out = Silence

(* accept() returned fd c: a fresh client is entered into fd2clnt.         *)
Accept(c) ==
  /\ c \notin conn
  /\ conn' = conn \cup {c}
  /\ groups' = [groups EXCEPT ![c] = {}]
  /\ queue' = [queue EXCEPT ![c] = <<>>]
  /\ qcap' = [qcap EXCEPT ![c] = InitCap]
  /\ waiting' = waiting \ {c}
  /\ out' = Silence
  /\ UNCHANGED <<name2clnt, members, refs, body, serialization>>

(* Mutant: the queue of a destroyed client is not walked at all.           *)
VisitedNone(c) == {}

(* The messages dime_client_destroy visits: the deque iterator stops where *)
(* its index meets `end', which is at once when begin = end, and that is   *)
(* the case for a full deque as well as for an empty one.                  *)
Visited(c) == IF Len(queue[c]) = qcap[c] THEN {} ELSE Range(queue[c])

(* The connection is closed, or a read or a write on it failed.  Then the  *)
(* client's memory is freed: the model blanks it.                          *)
Disconnect(c) ==
  /\ c \in conn
  /\ conn' = conn \ {c}
  /\ members' = [n \in Names |->
                   IF n \in groups[c] THEN SwapRemove(members[n], c) ELSE members[n]]
  /\ Release(Visited(c))
  /\ groups' = [groups EXCEPT ![c] = {}]
  /\ queue' = [queue EXCEPT ![c] = <<>>]
  /\ qcap' = [qcap EXCEPT ![c] = InitCap]
  /\ waiting' = waiting \ {c}
  /\ out' = Silence
  /\ UNCHANGED <<name2clnt, serialization>>

(* The first client chooses the serialization.  A later client that asks   *)
(* for another one moves everybody to dimeb, unless the server is already  *)
(* at dimeb or json.                                                       *)
MustReregister(s) ==
  serialization \notin {NoSerialization, s, "dimeb", "json"}

(* Mutant: only clients that have joined a group are told.                 *)
ToldMembers(c, s) ==
  IF MustReregister(s) THEN {d \in conn \ {c} : groups[d] # {}} ELSE {}

(* Mutant: the first choice is not recorded.                               *)
ChosenNever(s) == IF MustReregister(s) THEN "dimeb" ELSE serialization

Chosen(s) ==
  IF serialization = NoSerialization THEN s
  ELSE IF MustReregister(s) THEN "dimeb" ELSE serialization

Told(c, s) == IF MustReregister(s) THEN conn \ {c} ELSE {}

Handshake(c, s) ==
  LET chosen == Chosen(s)
      told   == Told(c, s)
  IN
  /\ c \in conn
  /\ \/ /\ serialization' = chosen
        /\ \E answer \in {<<Registered(chosen)>>}
                            \cup (IF AllocMayFail THEN {<<>>} ELSE {}) :
             out' = [d \in Fds |-> IF d = c THEN answer
                                   ELSE IF d \in told THEN <<Reregister>> ELSE <<>>]
     \/ /\ AllocMayFail                 \* one of the notices cannot be pushed
        /\ MustReregister(s)
        /\ \E T \in {{}} \cup (SUBSET told \ {told}) :
             out' = [d \in Fds |-> IF d \in T THEN <<Reregister>> ELSE <<>>]
        /\ UNCHANGED serialization
  /\ UNCHANGED <<conn, members_vars, heap_vars, waiting>>

(* A handshake for an unknown serialization and a sync without an integer  *)
(* n: the handler returns before it pushes anything.                       *)
Ignored(c) ==
  /\ c \in conn
  /\ out' = Silence
  /\ UNCHANGED <<conn, members_vars, heap_vars, waiting, serialization>>

(* An unknown command, or a handshake, join, leave or send whose arguments *)
(* do not unpack.                                                          *)
Malformed(c) ==
  /\ c \in conn
  /\ PushError(c)
  /\ UNCHANGED <<conn, members_vars, heap_vars, waiting, serialization>>

(* Names are handled in order; the first that is no string or already      *)
(* joined ends the handler, and the names before it stay joined.           *)
Joinable(c, ns, i) ==
  /\ ns[i] \in Names \ groups[c]
  /\ \A h \in 1..(i - 1) : ns[h] # ns[i]

Join(c, ns) ==
  /\ c \in conn
  /\ \E k \in 0..Len(ns) :
       LET done  == {ns[i] : i \in 1..k}
           stuck == {ns[i] : i \in {h \in {k + 1} \cap DOMAIN ns : Joinable(c, ns, h)}}
       IN
       /\ \A i \in 1..k : Joinable(c, ns, i)
       /\ ~AllocMayFail => stuck = {}
       /\ groups' = [groups EXCEPT ![c] = @ \cup done]
       /\ members' = [n \in Names |->
                        IF n \in done THEN Append(members[n], c) ELSE members[n]]
       /\ \/ name2clnt' = name2clnt \cup done
          \/ AllocMayFail /\ name2clnt' = name2clnt \cup done \cup stuck
       /\ IF k = Len(ns) THEN Push(c, Ok) ELSE PushError(c)
  /\ UNCHANGED <<conn, heap_vars, waiting, serialization>>

Leavable(c, ns, i) ==
  /\ ns[i] \in groups[c]
  /\ \A h \in 1..(i - 1) : ns[h] # ns[i]

Leave(c, ns) ==
  /\ c \in conn
  /\ \E k \in 0..Len(ns) :
       LET done == {ns[i] : i \in 1..k} IN
       /\ \A i \in 1..k : Leavable(c, ns, i)
       /\ k < Len(ns) => ~Leavable(c, ns, k + 1)
       /\ groups' = [groups EXCEPT ![c] = @ \ done]
       /\ members' = [n \in Names |->
                        IF n \in done THEN SwapRemove(members[n], c) ELSE members[n]]
       /\ IF k = Len(ns) THEN Push(c, Ok) ELSE PushError(c)
  /\ UNCHANGED <<conn, name2clnt, heap_vars, waiting, serialization>>

-----------------------------------------------------------------------------
(* Mutant: the waiting flag is not reset.                                  *)
EnqueueNoReset(m, p, D, X) ==
  /\ queue' = [d \in Fds |-> IF d \in D \cup X THEN Append(queue[d], m) ELSE queue[d]]
  /\ qcap' = [d \in Fds |-> IF d \in D \cup X THEN Grown(qcap[d], Len(queue[d])) ELSE qcap[d]]
  /\ refs' = [refs EXCEPT ![m] = Cardinality(D)]
  /\ body' = [body EXCEPT ![m] = IF D \cup X = {} THEN NoBody ELSE p]
  /\ UNCHANGED waiting

(* Mutant: the message is pushed at the wrong end.                         *)
EnqueueLeft(m, p, D, X) ==
  /\ queue' = [d \in Fds |-> IF d \in D \cup X THEN <<m>> \o queue[d] ELSE queue[d]]
  /\ qcap' = [d \in Fds |-> IF d \in D \cup X THEN Grown(qcap[d], Len(queue[d])) ELSE qcap[d]]
  /\ waiting' = waiting \ D
  /\ refs' = [refs EXCEPT ![m] = Cardinality(D)]
  /\ body' = [body EXCEPT ![m] = IF D \cup X = {} THEN NoBody ELSE p]

(* The loop that send and broadcast share.  The clients of D have been     *)
(* passed completely (queued, woken up, counted), those of X were queued   *)
(* and the loop was left before refs++.                                    *)
Enqueue(m, p, D, X) ==
  /\ queue' = [d \in Fds |-> IF d \in D \cup X THEN Append(queue[d], m) ELSE queue[d]]
  /\ qcap' = [d \in Fds |-> IF d \in D \cup X THEN Grown(qcap[d], Len(queue[d])) ELSE qcap[d]]
  /\ waiting' = waiting \ D
  /\ refs' = [refs EXCEPT ![m] = Cardinality(D)]
  /\ body' = [body EXCEPT ![m] = IF D \cup X = {} THEN NoBody ELSE p]

(* Mutant: the flag is reset and nobody is told.                           *)
WakeUpSilent(d, D) == <<>>

(* Mutant: the length is read before the push.                             *)
WakeUpEarly(d, D) ==
  IF d \in D \cap waiting THEN <<Count(Len(queue[d]))>> ELSE <<>>

WakeUp(d, D) ==
  IF d \in D \cap waiting THEN <<Count(Len(queue[d]) + 1)>> ELSE <<>>

(* All recipients R are served and the sender is answered.                 *)
Relayed(c, m, p, R) ==
  /\ Enqueue(m, p, R, {})
  /\ \E answer \in {<<Ok>>} \cup (IF AllocMayFail THEN {<<Err>>, <<>>} ELSE {}) :
       out' = [d \in Fds |-> WakeUp(d, R) \o (IF d = c THEN answer ELSE <<>>)]

(* The push into x's queue, which has to grow, fails: the sender may get   *)
(* an error answer.                                                        *)
QueueFull(c, m, p, D, x) ==
  /\ Len(queue[x]) = qcap[x]
  /\ Enqueue(m, p, D, {})
  /\ \E answer \in {<<Err>>, <<>>} :
       out' = [d \in Fds |-> WakeUp(d, D) \o (IF d = c THEN answer ELSE <<>>)]

(* The wake-up of x fails: x may get the error answer, the sender none.    *)
WakeUpFails(c, m, p, D, x) ==
  /\ x \in waiting
  /\ Enqueue(m, p, D, {x})
  /\ \E answer \in {<<Err>>, <<>>} :
       out' = [d \in Fds |-> WakeUp(d, D) \o (IF d = x THEN answer ELSE <<>>)]

Relay(c, m, p, D, x) == QueueFull(c, m, p, D, x) \/ WakeUpFails(c, m, p, D, x)

NoMemory(c) ==
  /\ AllocMayFail
  /\ PushError(c)
  /\ UNCHANGED <<heap_vars, waiting>>

(* malloc returns any address that is not allocated.                       *)
Free == {m \in Msgs : body[m] = NoBody}

Send(c, n, p) ==
  /\ c \in conn
  /\ IF members[n] = <<>>               \* no such group, or an empty one
     THEN /\ PushError(c)
          /\ UNCHANGED <<heap_vars, waiting>>
     ELSE \/ \E m \in Free : Relayed(c, m, p, Range(members[n]))
          \/ /\ AllocMayFail
             /\ \E m \in Free, i \in DOMAIN members[n] :
                  Relay(c, m, p, {members[n][h] : h \in 1..(i - 1)}, members[n][i])
          \/ NoMemory(c)
  /\ UNCHANGED <<conn, members_vars, serialization>>

(* Everybody but the sender, in the order of the hash table's slots.       *)
Broadcast(c, p) ==
  LET others == conn \ {c} IN
  /\ c \in conn
  /\ \/ \E m \in Free : Relayed(c, m, p, others)
     \/ /\ AllocMayFail
        /\ \E m \in Free, x \in others : \E D \in SUBSET (others \ {x}) :
             Relay(c, m, p, D, x)
     \/ NoMemory(c)
  /\ UNCHANGED <<conn, members_vars, serialization>>

(* Up to n messages, all of them for a negative n, oldest first.  When the *)
(* push of one fails it is put back and the handler returns unanswered.    *)
SyncLength(c, n) == IF n < 0 \/ n > Len(queue[c]) THEN Len(queue[c]) ELSE n

Sync(c, n) ==
  /\ c \in conn
  /\ \E k \in 0..SyncLength(c, n) :
       LET data == [i \in 1..k |-> Data(body[queue[c][i]])] IN
       /\ ~AllocMayFail => k = SyncLength(c, n)
       /\ queue' = [queue EXCEPT ![c] = SubSeq(@, k + 1, Len(@))]
       /\ Release({queue[c][i] : i \in 1..k})
       /\ \E answer \in IF k < SyncLength(c, n) THEN {<<>>}
                        ELSE {<<Ok>>} \cup (IF AllocMayFail THEN {<<Err>>, <<>>} ELSE {}) :
            out' = Only(c, data \o answer)
  /\ UNCHANGED <<conn, members_vars, qcap, waiting, serialization>>

Wait(c) ==
  /\ c \in conn
  /\ IF Len(queue[c]) > 0
     THEN Push(c, Count(Len(queue[c]))) /\ UNCHANGED waiting
     ELSE waiting' = waiting \cup {c} /\ out' = Silence
  /\ UNCHANGED <<conn, members_vars, heap_vars, serialization>>

ListDevices(c) ==
  /\ c \in conn
  /\ Push(c, Devices({n \in name2clnt : members[n] # <<>>}))
  /\ UNCHANGED <<conn, members_vars, heap_vars, waiting, serialization>>

Next ==
  \E c \in Fds :
    \/ Accept(c)
    \/ Disconnect(c)
    \/ \E s \in Serializations : Handshake(c, s)
    \/ Ignored(c)
    \/ Malformed(c)
    \/ \E ns \in NameLists : Join(c, ns)
    \/ \E ns \in NameLists : Leave(c, ns)
    \/ \E n \in Names, p \in Payloads : Send(c, n, p)
    \/ \E p \in Payloads : Broadcast(c, p)
    \/ \E n \in SyncLimits : Sync(c, n)
    \/ Wait(c)
    \/ ListDevices(c)

Spec == Init /\ [][Next]_vars

-----------------------------------------------------------------------------
(* Every variable of the server keeps its type.                            *)
TypeOK ==
  /\ conn \subseteq Fds
  /\ groups \in [Fds -> SUBSET Names]
  /\ name2clnt \subseteq Names
  /\ members \in [Names -> Seq(Fds)]
  /\ queue \in [Fds -> Seq(Msgs)]
  /\ qcap \in [Fds -> Nat]
  /\ waiting \subseteq Fds
  /\ refs \in [Msgs -> 0..UIntMax]
  /\ body \in [Msgs -> Payloads \cup {NoBody}]
  /\ serialization \in AllSerializations \cup {NoSerialization}
  /\ out \in [Fds -> Seq(Reply)]

(* A client record that was freed is in no group and owns no messages, so  *)
(* no array holds a dangling dime_client_t pointer (dime_client_destroy).  *)
NoDangling ==
  /\ \A c \in Fds \ conn : groups[c] = {} /\ queue[c] = <<>> /\ c \notin waiting
  /\ \A n \in Names : Range(members[n]) \subseteq conn

(* The two arrays that record membership agree and have no duplicates,     *)
(* over any sequence of joins, leaves, partly failing joins and leaves,    *)
(* and disconnects: each client of a group lists the group and is listed   *)
(* once, so the assert(0) of dime_client_leave is unreachable and a send   *)
(* queues one copy per member.                                             *)
MembershipOK ==
  /\ NoDangling
  /\ \A n \in Names :
       /\ Range(members[n]) = {c \in Fds : n \in groups[c]}
       /\ \A i, j \in DOMAIN members[n] : members[n][i] = members[n][j] => i = j
       /\ members[n] # <<>> => n \in name2clnt

(* No lost wake-up: a client whose wait is unanswered has nothing to sync. *)
(* Holds because wait tests the queue and sets the flag in one handler,    *)
(* and every push into a queue answers and clears the flag.                *)
NoLostWakeup == \A c \in waiting : queue[c] = <<>>

Holders(m) == {c \in Fds : m \in Range(queue[c])}

(* No message is freed while a queue points to it, so sync and disconnect  *)
(* never touch freed memory: a queued message is allocated, is queued once *)
(* per client, and its count covers every queue that holds it.             *)
RefsCover ==
  /\ \A c \in Fds : \A i, j \in DOMAIN queue[c] : queue[c][i] = queue[c][j] => i = j
  /\ \A m \in Msgs :
       /\ Holders(m) # {} => body[m] # NoBody
       /\ Cardinality(Holders(m)) <= refs[m]

(* The count is exact, and a message nobody holds is freed: client.h calls *)
(* refs "a count of how many references it has in memory".                 *)
RefsExact ==
  \A m \in Msgs :
    /\ refs[m] = Cardinality(Holders(m))
    /\ body[m] = NoBody <=> Holders(m) = {}

(* Whoever stops waiting while connected has just been told how many       *)
(* messages its queue holds, and there is at least one.                    *)
WakeUpTruthful ==
  [][\A c \in (waiting \ waiting') \cap conn' :
         /\ queue'[c] # <<>>
         /\ out'[c] # <<>> /\ out'[c][1] = Count(Len(queue'[c]))]_vars

-----------------------------------------------------------------------------
(* The promise of the broker: a mailbox per client (Mailbox.tla).          *)

IsData(r) == r.reply = "data"

(* The j-th smallest number of S.                                          *)
Nth(S, j) == CHOOSE i \in S : Cardinality({h \in S : h <= i}) = j

(* The contents that a step hands over to client c, in their order.        *)
HandedOver(c) ==
  LET data == {i \in DOMAIN out[c] : IsData(out[c][i])}
  IN  [j \in 1..Cardinality(data) |-> out[c][Nth(data, j)].body]

Memberships == {cn \in Fds \X Names : cn[2] \in groups[cn[1]]}
Letters == [c \in Fds |-> [i \in DOMAIN queue[c] |-> body[queue[c][i]]]]
Handed == [c \in Fds |-> HandedOver(c)]

Promise == INSTANCE Mailbox WITH
  Clients  <- Fds,
  member   <- Memberships,
  mailbox  <- Letters,
  asleep   <- waiting,
  handed   <- Handed

(* The array, the reference counts and the reuse of freed addresses        *)
(* implement mailboxes: nothing is lost, duplicated, reordered, delivered  *)
(* to a non-member or altered between a send and the sync that returns it. *)
KeepsPromise == Promise!Spec
=============================================================================
