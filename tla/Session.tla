------------------------------ MODULE Session -------------------------------
(***************************************************************************)
(* Clients and broker together.  Every client is a program that uses the   *)
(* blocking Python class DimeClient (client/python/dime/client.py), the    *)
(* Matlab class dime (client/matlab/dime.m), or the JavaScript class       *)
(* DimeClient (client/javascript/dime.js), whose every promise it awaits,  *)
(* on one connection.  The server dispatches the commands in its sockets   *)
(* to the handlers of Broker.tla (the select loop of server/server.c).     *)
(*                                                                         *)
(* A connection is two reliable FIFO channels: inq[c] holds the commands   *)
(* that c has sent and the server has not popped, wbuf[c] what the server  *)
(* has pushed and c has not read.  A client may send its next command only *)
(* when it has read the answers of the last one, except within a batch of  *)
(* send or broadcast commands.                                             *)
(***************************************************************************)
EXTENDS Broker

CONSTANTS
  Worlds,       \* assignments of kinds to clients; one of them is the case
  MayCall,      \* the operations that each client's program uses
  MayClose,     \* the clients that may close, or crash, at any time
  VarCounts,    \* numbers of variables in one call of send_r or broadcast_r
  MaxVars,      \* bound: variables that one client sends in all its calls
  MaxCalls,     \* bound: calls of one client after its handshake
  Stride,       \* the batch size, 16 in both clients
  CatchErrors   \* do programs catch the exceptions, or die of them?

(* A Python client is named for the serialization that it asks for.        *)
Kinds == {"pickle", "json", "matlab", "javascript"}

ASSUME WorldsAssumption == Worlds \subseteq [Fds -> Kinds]
ASSUME StrideAssumption == Stride \in Nat \ {0}
ASSUME VarCountsAssumption == VarCounts \subseteq Nat \ {0}
ASSUME BoundsAssumption == MaxVars \in Nat /\ MaxCalls \in Nat

VARIABLES
  kind,    \* which client library each client uses
  status,  \* a client is "off", "up", or "down": its socket is closed
  inq,     \* commands on their way to the server, oldest first
  wbuf,    \* answers and notices on their way to the client, oldest first
  ser,     \* self.serialization
  call,    \* the call in which the client is blocked
  nvars,   \* variables sent so far, the names of the next ones
  ncalls,  \* calls made so far
  seen     \* the messages that sync_r has read, those it skipped too

client_vars == <<kind, ser, call, nvars, ncalls, seen>>
broker_vars == vars
all_vars == <<broker_vars, status, inq, wbuf, client_vars>>

-----------------------------------------------------------------------------
Everyone == "everyone"  \* the addressees of a broadcast, which names no group

Idle == [op |-> "none", pending |-> 0]
Ask(op) == [op |-> op, pending |-> 1]

Up(c) == status[c] = "up"
CanCall(c, op) ==
  /\ Up(c) /\ call[c] = Idle /\ ser[c] # NoSerialization
  /\ op \in MayCall[c]
  /\ ncalls[c] < MaxCalls

Matlab(c) == kind[c] = "matlab"
JavaScript(c) == kind[c] = "javascript"

(* What the handshake asks for.                                            *)
Asks(c) == IF JavaScript(c) THEN "json" ELSE kind[c]

(* The serializations that sync_r can decode.                              *)
Understands(c) ==
  IF Matlab(c) THEN {"matlab", "dimeb"}
  ELSE IF JavaScript(c) THEN {"dimeb", "json"}
  ELSE {"pickle", "dimeb", "json"}

(* One variable of one client in one serialization: a message's content.   *)
Copies == [from : Fds, var : 1..MaxVars, ser : AllSerializations]
Copy(c, v) == [from |-> c, var |-> v, ser |-> ser[c]]

SessionInit ==
  /\ Init
  /\ kind \in Worlds
  /\ status = [c \in Fds |-> "off"]
  /\ inq = [c \in Fds |-> <<>>]
  /\ wbuf = [c \in Fds |-> <<>>]
  /\ ser = [c \in Fds |-> NoSerialization]
  /\ call = [c \in Fds |-> Idle]
  /\ nvars = [c \in Fds |-> 0]
  /\ ncalls = [c \in Fds |-> 0]
  /\ seen = [c \in Fds |-> {}]

-----------------------------------------------------------------------------
(* The server.                                                             *)

(* What a handler pushed ends up in the sockets; nobody reads the socket   *)
(* of a client that is down.                                               *)
Flush == wbuf' = [d \in Fds |-> IF status[d] = "down" THEN <<>> ELSE wbuf[d] \o out'[d]]

(* A connection request in the backlog is accepted.  The handshake that    *)
(* every client sends first is unread until then.                          *)
ServerAccept(c) ==
  /\ status[c] # "off" /\ inq[c] # <<>>
  /\ Accept(c)
  /\ UNCHANGED <<status, inq, wbuf, client_vars>>

Dispatch(c, q) ==
  \/ q.cmd = "handshake" /\ Handshake(c, q.serialization)
  \/ q.cmd = "join"      /\ Join(c, <<q.name>>)
  \/ q.cmd = "leave"     /\ Leave(c, <<q.name>>)
  \/ q.cmd = "send"      /\ Send(c, q.name, q.body)
  \/ q.cmd = "broadcast" /\ Broadcast(c, q.body)
  \/ q.cmd = "sync"      /\ Sync(c, q.n)
  \/ q.cmd = "wait"      /\ Wait(c)
  \/ q.cmd = "devices"   /\ ListDevices(c)

(* recvpartial and pop: how the bytes arrive decides how many commands one *)
(* pass of the loop handles for a client, so any number may be handled     *)
(* before another client's turn.                                           *)
Serve(c) ==
  /\ c \in conn
  /\ inq[c] # <<>>
  /\ Dispatch(c, Head(inq[c]))
  /\ inq' = [inq EXCEPT ![c] = Tail(@)]
  /\ Flush
  /\ UNCHANGED <<status, client_vars>>

(* recv returns 0, or recv or send fails since the peer is gone, possibly  *)
(* before the commands that the peer had sent were read.                   *)
Hangup(c) ==
  /\ status[c] = "down"
  /\ Disconnect(c)
  /\ inq' = [inq EXCEPT ![c] = <<>>]
  /\ Flush
  /\ UNCHANGED <<status, client_vars>>

-----------------------------------------------------------------------------
(* The calls of a client program.                                          *)

Transmit(c, qs) == inq' = [inq EXCEPT ![c] = @ \o qs]

Open(c) ==
  /\ status[c] = "off"
  /\ status' = [status EXCEPT ![c] = "up"]
  /\ call' = [call EXCEPT ![c] = Ask("handshake")]
  /\ Transmit(c, <<[cmd |-> "handshake", serialization |-> Asks(c)]>>)
  /\ UNCHANGED <<broker_vars, kind, wbuf, ser, nvars, ncalls, seen>>

(* join, leave, wait and devices: one command, one answer.                 *)
Request(c, op, q) ==
  /\ CanCall(c, op)
  /\ call' = [call EXCEPT ![c] = Ask(op)]
  /\ Transmit(c, <<q>>)
  /\ ncalls' = [ncalls EXCEPT ![c] = @ + 1]
  /\ UNCHANGED <<broker_vars, kind, status, wbuf, ser, nvars, seen>>

AskServer(c) ==
  \/ \E op \in {"join", "leave"}, n \in Names : Request(c, op, [cmd |-> op, name |-> n])
  \/ \E op \in {"wait", "devices"} : Request(c, op, [cmd |-> op])

(* sync_r(n), and the recursive call for the messages that were skipped.   *)
SyncFor(c, n, nested) ==
  /\ call' = [call EXCEPT ![c] =
                [op |-> "sync", pending |-> 1, n |-> n, skipped |-> 0, nested |-> nested]]
  /\ Transmit(c, <<[cmd |-> "sync", n |-> n]>>)

StartSync(c, n) ==
  /\ CanCall(c, "sync")
  /\ SyncFor(c, n, FALSE)
  /\ ncalls' = [ncalls EXCEPT ![c] = @ + 1]
  /\ UNCHANGED <<broker_vars, kind, status, wbuf, ser, nvars, seen>>

(* send_r and broadcast_r send a batch of commands before they read the    *)
(* answers; dime.js sends one command at a time.  The batches of dime.m    *)
(* overlap: each ends with the variable that the next one starts with.     *)
BatchSize(c) == IF JavaScript(c) THEN 1 ELSE Stride
BatchEnd(c, k) ==
  LET last == IF Matlab(c) THEN k.next + Stride ELSE k.next + BatchSize(c) - 1
  IN  IF last < k.hi THEN last ELSE k.hi

Issue(c, k) ==
  LET size == BatchEnd(c, k) - k.next + 1 IN
  /\ call' = [call EXCEPT ![c] = [k EXCEPT !.pending = size, !.next = @ + BatchSize(c)]]
  /\ Transmit(c, [i \in 1..size |->
                    IF k.op = "send"
                    THEN [cmd |-> "send", name |-> k.to, body |-> Copy(c, k.next + i - 1)]
                    ELSE [cmd |-> "broadcast", body |-> Copy(c, k.next + i - 1)]])

(* An exception ends the call; a program that does not catch it ends too.  *)
(* Answers that the call has not read stay in the socket.                  *)
Raise(c) ==
  /\ call' = [call EXCEPT ![c] = Idle]
  /\ status' = IF CatchErrors THEN status ELSE [status EXCEPT ![c] = "down"]
  /\ UNCHANGED inq

(* dime.m has no encoder for "json": it fails before it sends anything.    *)
StartSend(c, op, to, k) ==
  /\ CanCall(c, op)
  /\ nvars[c] + k <= MaxVars
  /\ IF ser[c] \in Understands(c)
     THEN /\ Issue(c, [op |-> op, pending |-> 0, to |-> to, began |-> ser[c],
                       lo |-> nvars[c] + 1, hi |-> nvars[c] + k, next |-> nvars[c] + 1])
          /\ UNCHANGED status
     ELSE Raise(c)
  /\ nvars' = [nvars EXCEPT ![c] = @ + k]
  /\ ncalls' = [ncalls EXCEPT ![c] = @ + 1]
  /\ UNCHANGED <<broker_vars, kind, wbuf, ser, seen>>

(* The program closes the connection, or dies.                             *)
Close(c) ==
  /\ Up(c)
  /\ c \in MayClose
  /\ status' = [status EXCEPT ![c] = "down"]
  /\ call' = [call EXCEPT ![c] = Idle]
  /\ UNCHANGED <<broker_vars, kind, inq, wbuf, ser, nvars, ncalls, seen>>

-----------------------------------------------------------------------------
(* The read loop of a call: the client takes one message from its socket.  *)

(* A status that does not make the call fail.  A field that the call needs *)
(* and the answer lacks raises, too.  dime.m takes any answer of a sync    *)
(* without a variable name for its end.  dime.js looks for a negative      *)
(* status only, except that its handshake needs a serialization.           *)
Accepts(c, r) ==
  IF JavaScript(c)
  THEN IF call[c].op = "handshake" THEN r.reply \in {"registered", "reregister"}
                                   ELSE r.reply # "error"
  ELSE
  CASE call[c].op = "handshake" -> r.reply = "registered"
    [] call[c].op = "wait"      -> r.reply = "n"
    [] call[c].op = "devices"   -> r.reply = "devices"
    [] call[c].op = "sync"      -> r.reply # "error" \/ Matlab(c)
    [] OTHER                    -> r.reply \notin {"error", "data"}

(* Mutant: the notice is taken for the answer of the call.                 *)
ReadMetaAsAnswer(c, r) ==
  /\ r.reply = "reregister" /\ kind[c] # "javascript"
  /\ ser' = [ser EXCEPT ![c] = r.serialization]
  /\ call' = [call EXCEPT ![c] = Idle]
  /\ UNCHANGED <<status, inq, seen>>

(* A notice changes the serialization and is no answer.  dime.js does not  *)
(* know about notices and takes one for an answer.                         *)
IsMeta(c, r) == r.reply = "reregister" /\ ~JavaScript(c)

ReadMeta(c, r) ==
  /\ IsMeta(c, r)
  /\ ser' = [ser EXCEPT ![c] = r.serialization]
  /\ UNCHANGED <<status, inq, call, seen>>

(* A message of a sync is decoded if its serialization is known, and is    *)
(* skipped otherwise.                                                      *)
ReadData(c, r) ==
  /\ r.reply = "data" /\ call[c].op = "sync"
  /\ seen' = [seen EXCEPT ![c] = @ \cup {r.body}]
  /\ call' = [call EXCEPT ![c].skipped =
                IF r.body.ser \in Understands(c) THEN @ ELSE @ + 1]
  /\ UNCHANGED <<status, inq, ser>>

(* Mutant: the call goes on with the new serialization where it was.       *)
EndBatchGoesOn(c, k) ==
  /\ IF k.next <= k.hi
     THEN Issue(c, [k EXCEPT !.began = ser[c]])
     ELSE call' = [call EXCEPT ![c] = Idle] /\ UNCHANGED inq
  /\ UNCHANGED status

(* The last answer of a batch: the whole call starts again if the server's *)
(* serialization changed.  broadcast_r of client.py then uses a name that  *)
(* is not defined.  For dime.js, which learns of no change, it never did.  *)
EndBatch(c, k) ==
  IF k.began # ser[c]
  THEN IF k.op = "broadcast" /\ ~Matlab(c)
       THEN Raise(c)
       ELSE Issue(c, [k EXCEPT !.began = ser[c], !.next = k.lo]) /\ UNCHANGED status
  ELSE /\ IF k.next <= k.hi
          THEN Issue(c, k)
          ELSE call' = [call EXCEPT ![c] = Idle] /\ UNCHANGED inq
       /\ UNCHANGED status

(* Mutant: a sync with a limit asks again whether anything was skipped or not. *)
EndSyncAgain(c, k) ==
  IF k.n > 0
  THEN SyncFor(c, k.n, TRUE) /\ UNCHANGED status
  ELSE call' = [call EXCEPT ![c] = Idle] /\ UNCHANGED <<status, inq>>

(* The end of a sync with a limit asks again for as many messages as were  *)
(* skipped.  dime.m then fails to merge the two results; dime.js fails at  *)
(* the call, which it makes on an object that has no such method.          *)
EndSync(c, k) ==
  IF k.n > 0 /\ k.skipped > 0
  THEN IF JavaScript(c)
       THEN Raise(c)
       ELSE SyncFor(c, k.skipped, TRUE) /\ UNCHANGED status
  ELSE IF k.nested /\ Matlab(c)
  THEN Raise(c)
  ELSE call' = [call EXCEPT ![c] = Idle] /\ UNCHANGED <<status, inq>>

ReadAnswer(c, r) ==
  LET k == call[c] IN
  /\ ~IsMeta(c, r)
  /\ ~(r.reply = "data" /\ k.op = "sync")
  /\ IF ~Accepts(c, r) THEN Raise(c)
     ELSE IF k.op = "sync" THEN EndSync(c, k)
     ELSE IF k.op \in {"send", "broadcast"} /\ k.pending = 1 THEN EndBatch(c, k)
     ELSE /\ call' = [call EXCEPT ![c] =
                        IF k.pending = 1 THEN Idle ELSE [k EXCEPT !.pending = @ - 1]]
          /\ UNCHANGED <<status, inq>>
  /\ ser' = IF k.op = "handshake" /\ Accepts(c, r)
            THEN [ser EXCEPT ![c] = r.serialization] ELSE ser
  /\ UNCHANGED seen

Receive(c) ==
  /\ Up(c) /\ call[c] # Idle
  /\ wbuf[c] # <<>>
  /\ wbuf' = [wbuf EXCEPT ![c] = Tail(@)]
  /\ LET r == Head(wbuf[c]) IN ReadMeta(c, r) \/ ReadData(c, r) \/ ReadAnswer(c, r)
  /\ UNCHANGED <<broker_vars, kind, nvars, ncalls>>

-----------------------------------------------------------------------------
(* Nobody is owed an answer: every client that is blocked has a wait that  *)
(* the server holds back.                                                  *)
Quiescent ==
  /\ \A c \in Fds :
       /\ Up(c) => call[c] = Idle \/ (call[c].op = "wait" /\ c \in waiting)
       /\ inq[c] = <<>>
  /\ UNCHANGED all_vars

SessionNext ==
  \/ \E c \in Fds :
       \/ Open(c)
       \/ ServerAccept(c)
       \/ Serve(c)
       \/ Hangup(c)
       \/ AskServer(c)
       \/ \E n \in SyncLimits : StartSync(c, n)
       \/ \E n \in Names, k \in VarCounts : StartSend(c, "send", n, k)
       \/ \E k \in VarCounts : StartSend(c, "broadcast", Everyone, k)
       \/ Close(c)
       \/ Receive(c)
  \/ Quiescent

SessionSpec == SessionInit /\ [][SessionNext]_all_vars

(* The loop serves every ready descriptor in each pass and no handler      *)
(* blocks; a client blocked in recv is woken up when data is there.        *)
Fairness ==
  \A c \in Fds :
    /\ WF_all_vars(ServerAccept(c))
    /\ WF_all_vars(Serve(c))
    /\ WF_all_vars(Receive(c))

FairSpec == SessionSpec /\ Fairness
-----------------------------------------------------------------------------
(* The commands that the libraries send.                                   *)
Commands ==
  [cmd : {"handshake"}, serialization : AllSerializations]
    \cup [cmd : {"join", "leave"}, name : Names]
    \cup [cmd : {"send"}, name : Names, body : Copies]
    \cup [cmd : {"broadcast"}, body : Copies]
    \cup [cmd : {"sync"}, n : Int]
    \cup [cmd : {"wait", "devices"}]

(* The calls that a client may be in: none, one that awaits one answer, or *)
(* a batch of send or broadcast.                                           *)
Batches ==
  [op : {"send"}, pending : Nat \ {0}, to : Names, began : AllSerializations,
   lo : 1..MaxVars, hi : 1..MaxVars, next : Nat \ {0}]
    \cup [op : {"broadcast"}, pending : Nat \ {0}, to : {Everyone}, began : AllSerializations,
          lo : 1..MaxVars, hi : 1..MaxVars, next : Nat \ {0}]
Calls ==
  {Idle}
    \cup [op : {"handshake", "join", "leave", "wait", "devices"}, pending : {1}]
    \cup [op : {"sync"}, pending : {1}, n : Int, skipped : Nat, nested : BOOLEAN]
    \cup Batches

(* Every variable of the clients and the channels keeps its type.          *)
ClientTypeOK ==
  /\ kind \in Worlds
  /\ status \in [Fds -> {"off", "up", "down"}]
  /\ inq \in [Fds -> Seq(Commands)]
  /\ wbuf \in [Fds -> Seq(Reply)]
  /\ ser \in [Fds -> AllSerializations \cup {NoSerialization}]
  /\ call \in [Fds -> Calls]
  /\ nvars \in [Fds -> 0..MaxVars]
  /\ ncalls \in [Fds -> 0..MaxCalls]
  /\ seen \in [Fds -> SUBSET Copies]

IsAnswer(r) == r.reply \notin {"reregister", "data"}
Answers(c) == {i \in DOMAIN wbuf[c] : IsAnswer(wbuf[c][i])}

(* Client and server stay in step: the answers a client is blocked for are *)
(* exactly its commands that the server has not handled, the answers it    *)
(* has not read, and a wait that the server holds back.  No call can take  *)
(* the answer of another one for its own, and none waits for an answer     *)
(* that will not come (client.py counts answers, it has no other way of    *)
(* telling them apart).                                                    *)
InStep ==
  \A c \in Fds : Up(c) =>
    call[c].pending = Len(inq[c]) + Cardinality(Answers(c))
                       + (IF c \in waiting THEN 1 ELSE 0)

IsNotice(r) == r.reply \in {"registered", "reregister"}
Notices(c) == {i \in DOMAIN wbuf[c] : IsNotice(wbuf[c][i])}

(* The serialization of a registered client once it has read its socket is *)
(* the server's: the last notice in the socket names it, or the client has *)
(* it already.  A reregister notice overtakes no registration, and every   *)
(* client that is connected when the serialization changes gets one.       *)
ViewAgrees ==
  \A c \in conn : Up(c) =>
    /\ \A i \in Notices(c) :
         (\A j \in Notices(c) : j <= i) => wbuf[c][i].serialization = serialization
    /\ Notices(c) = {} => ser[c] \in {NoSerialization, serialization}

(* The messages for client d: in its queue, in its socket, or read.        *)
CopiesFor(d) ==
  {body[m] : m \in Range(queue[d])}
    \cup {r.body : r \in {q \in Range(wbuf[d]) : q.reply = "data"}}
    \cup seen[d]

StillSending(c, v) ==
  call[c].op \in {"send", "broadcast"} /\ v \in call[c].lo..call[c].hi

(* No variable is lost to a change of the serialization: a copy that its   *)
(* recipient cannot decode is followed by one that it can, or the call     *)
(* that sent it has not returned yet, or the sender died.                  *)
NothingLost ==
  \A d \in Fds : Up(d) =>
    \A p \in CopiesFor(d) :
      \/ p.ser \in Understands(d)
      \/ ~Up(p.from)
      \/ StillSending(p.from, p.var)
      \/ \E q \in CopiesFor(d) :
           q.from = p.from /\ q.var = p.var /\ q.ser \in Understands(d)

(* wait blocks "until the message is received" (client.py, and the page of *)
(* dime.js in docs): it ends after the server has answered it.             *)
WaitBlocks ==
  [][\A c \in Fds : call[c].op = "wait" /\ call'[c].op # "wait" /\ status'[c] = "up" =>
        inq[c] = <<>> /\ c \notin waiting]_all_vars

(* Every call but wait returns, so a resend does not go on for ever.       *)
CallsReturn ==
  \A c \in Fds : call[c].op \notin {"none", "wait"} ~> call[c].op = "none"

(* wait returns once there is a message (client.h: "as soon as another     *)
(* client has queued a message").                                          *)
WaitReturns ==
  \A c \in Fds : (call[c].op = "wait" /\ queue[c] # <<>>) ~> call[c].op = "none"
=============================================================================
