----------------------------- MODULE EventLoop ------------------------------
(***************************************************************************)
(* dime_server_loop of server/server.c, the select loop of the default     *)
(* build: accepting, reading, writing and closing connections.  What a     *)
(* command does is left to Broker.tla; here it may push output to any      *)
(* clients.  Input is counted in commands and output in pieces.            *)
(***************************************************************************)
EXTENDS Integers, FiniteSets, FiniteSetsExt

CONSTANTS
  Listeners,    \* srv->fds: the listening descriptors
  WsListeners,  \* those that speak WebSocket
  UnixListeners, \* those of Unix sockets, whose connections stay blocking
  MaxFd,        \* the highest descriptor that the process may have
  MaxConns,     \* bound: connection requests
  MaxCmds,      \* bound: commands sent by all peers
  Faults        \* may memory be short, or a message malformed?

FirstFd == 3
Fds == FirstFd..MaxFd

ASSUME ListenersAssumption ==
  /\ Listeners \subseteq Fds /\ Listeners # {}
  /\ WsListeners \cup UnixListeners \subseteq Listeners
ASSUME MaxFdAssumption == MaxFd \in Nat
ASSUME FaultsAssumption == Faults \in BOOLEAN

VARIABLES
  pc,         \* "select", "scan", "ended", or "hung": it will not return to select
  rfds,       \* rfds[0]
  wfds,       \* wfds[0]
  maxfd,
  rready,     \* rfds[1], less what this pass has read from
  wready,     \* wfds[1]
  todo,       \* the ready descriptors that this pass has not finished with
  clnts,      \* the descriptors in fd2clnt
  open,       \* the descriptors of accepted connections
  blocking,   \* those that are not O_NONBLOCK
  unsent,     \* pieces in the outbuffer of a client's socket
  fault,      \* has memory been short, or a message malformed?
  backlog,    \* connection requests waiting at each listener
  input,      \* commands that have arrived and are not yet received
  hup,        \* has the peer closed the connection?
  full,       \* is the kernel's send buffer full?
  nconns,     \* connection requests so far
  ncmds       \* commands sent so far

server_vars == <<pc, rfds, wfds, maxfd, rready, wready, todo, clnts, open, blocking, unsent, fault>>
net_vars == <<backlog, input, hup, full, nconns, ncmds>>
vars == <<server_vars, net_vars>>

Init ==
  /\ pc = "select"
  /\ rfds = Listeners
  /\ wfds = {}
  /\ maxfd = Max(Listeners) + 1
  /\ rready = {} /\ wready = {} /\ todo = {}
  /\ clnts = {} /\ open = {} /\ blocking = {}
  /\ unsent = [d \in Fds |-> 0]
  /\ fault = FALSE
  /\ backlog = [l \in Listeners |-> 0]
  /\ input = [d \in Fds |-> 0]
  /\ hup = [d \in Fds |-> FALSE]
  /\ full = [d \in Fds |-> FALSE]
  /\ nconns = 0 /\ ncmds = 0

-----------------------------------------------------------------------------
(* The peers, while there is a server.                                     *)
Up == pc \in {"select", "scan"}

Connect(l) ==
  /\ Up /\ nconns < MaxConns
  /\ nconns' = nconns + 1
  /\ backlog' = [backlog EXCEPT ![l] = @ + 1]
  /\ UNCHANGED <<server_vars, input, hup, full, ncmds>>

PeerSend(d) ==
  /\ Up /\ d \in open /\ ~hup[d]
  /\ ncmds < MaxCmds
  /\ ncmds' = ncmds + 1
  /\ input' = [input EXCEPT ![d] = @ + 1]
  /\ UNCHANGED <<server_vars, backlog, hup, full, nconns>>

PeerClose(d) ==
  /\ Up /\ d \in open /\ ~hup[d]
  /\ hup' = [hup EXCEPT ![d] = TRUE]
  /\ UNCHANGED <<server_vars, backlog, input, full, nconns, ncmds>>

PeerReads(d) ==
  /\ Up /\ d \in open /\ full[d]
  /\ full' = [full EXCEPT ![d] = FALSE]
  /\ UNCHANGED <<server_vars, backlog, input, hup, nconns, ncmds>>

-----------------------------------------------------------------------------
(* The server.                                                             *)
Readable(d) == IF d \in Listeners THEN backlog[d] > 0 ELSE input[d] > 0 \/ hup[d]
Writable(d) == ~full[d] \/ hup[d]
Watched == {d \in rfds \cup wfds : d < maxfd}

(* select sleeps until something is ready.  One descriptor that is not     *)
(* open makes it fail, and the loop returns.                               *)
Select ==
  /\ pc = "select"
  /\ \/ /\ ~(Watched \subseteq Listeners \cup open)
        /\ pc' = "ended"
        /\ UNCHANGED <<rready, wready, todo>>
     \/ /\ Watched \subseteq Listeners \cup open
        /\ rready' = {d \in rfds \cap Watched : Readable(d)}
        /\ wready' = {d \in wfds \cap Watched : Writable(d)}
        /\ todo' = rready' \cup wready'
        /\ todo' # {}
        /\ pc' = "scan"
  /\ UNCHANGED <<rfds, wfds, maxfd, clnts, open, blocking, unsent, fault, net_vars>>

(* The scan is at descriptor d, and d is to be read from.                  *)
ReadsFrom(d) == pc = "scan" /\ todo # {} /\ d = Min(todo) /\ d \in rready
(* It is to be written to, and any reading is done.                        *)
WritesTo(d) == pc = "scan" /\ todo # {} /\ d = Min(todo) /\ d \notin rready

FreeFds == Fds \ (Listeners \cup open)

(* The connection at the head of the backlog becomes descriptor Min(FreeFds). *)
Accepting(l) == ReadsFrom(l) /\ l \in Listeners /\ FreeFds # {}
Taken(l) ==
  /\ backlog' = [backlog EXCEPT ![l] = @ - 1]
  /\ todo' = todo \ {l}
  /\ UNCHANGED <<pc, wfds, rready, wready, unsent, input, hup, full, nconns, ncmds>>

(* Mutant: the new descriptor is taken for one that select reported.       *)
AcceptReady(l) ==
  LET new == Min(FreeFds) IN
  /\ Accepting(l)
  /\ open' = open \cup {new}
  /\ blocking' = IF l \in UnixListeners THEN blocking \cup {new} ELSE blocking
  /\ clnts' = clnts \cup {new}
  /\ rfds' = rfds \cup {new}
  /\ maxfd' = Max({maxfd, new + 1})
  /\ backlog' = [backlog EXCEPT ![l] = @ - 1]
  /\ todo' = (todo \cup {new}) \ {l}
  /\ rready' = rready \cup {new}
  /\ UNCHANGED <<pc, wfds, wready, unsent, fault, input, hup, full, nconns, ncmds>>

Accept(l) ==
  LET new == Min(FreeFds) IN
  /\ Accepting(l)
  /\ open' = open \cup {new}
  /\ blocking' = IF l \in UnixListeners THEN blocking \cup {new} ELSE blocking
  /\ clnts' = clnts \cup {new}
  /\ rfds' = rfds \cup {new}
  /\ maxfd' = Max({maxfd, new + 1})
  /\ Taken(l)
  /\ UNCHANGED fault

(* Mutant: the listener is not watched any more.                           *)
AcceptFailsForGood(l) ==
  /\ ReadsFrom(l) /\ l \in Listeners /\ FreeFds = {}
  /\ todo' = todo \ {l}
  /\ rfds' = rfds \ {l}
  /\ UNCHANGED <<pc, wfds, maxfd, rready, wready, clnts, open, blocking, unsent, fault, net_vars>>

(* accept fails for want of a descriptor; the request stays.               *)
AcceptFails(l) ==
  /\ ReadsFrom(l) /\ l \in Listeners /\ FreeFds = {}
  /\ todo' = todo \ {l}
  /\ UNCHANGED <<pc, rfds, wfds, maxfd, rready, wready, clnts, open, blocking, unsent, fault, net_vars>>

(* Mutant: the client's socket is not closed.                              *)
AcceptNoWebSocketLeaks(l) ==
  /\ Accepting(l) /\ l \in WsListeners
  /\ open' = open \cup {Min(FreeFds)}
  /\ Taken(l)
  /\ UNCHANGED <<rfds, maxfd, clnts, blocking, fault>>

(* dime_socket_init_ws fails, and the client is destroyed.                 *)
AcceptNoWebSocket(l) ==
  /\ Accepting(l) /\ l \in WsListeners
  /\ Taken(l)
  /\ UNCHANGED <<rfds, maxfd, clnts, open, blocking, fault>>

(* The peer has left before the end of its HTTP request: recv returns 0    *)
(* for ever, and dime_socket_init_ws does not return.                      *)
AcceptHangs(l) ==
  /\ Accepting(l) /\ l \in WsListeners
  /\ pc' = "hung"
  /\ UNCHANGED <<rfds, wfds, maxfd, rready, wready, todo, clnts, open, blocking, unsent, fault, net_vars>>

(* fd2clnt cannot take the client, which is destroyed, its descriptor      *)
(* closed; the descriptor is watched all the same.                         *)
AcceptNotInserted(l) ==
  /\ Faults
  /\ Accepting(l)
  /\ fault' = TRUE
  /\ rfds' = rfds \cup {Min(FreeFds)}
  /\ maxfd' = Max({maxfd, Min(FreeFds) + 1})
  /\ Taken(l)
  /\ UNCHANGED <<clnts, open, blocking>>

(* The loop returns: malloc or dime_client_init failed in an accept, or    *)
(* dime_socket_pop returned -1.                                            *)
LoopReturns(d) ==
  /\ Faults
  /\ ReadsFrom(d) /\ d \in Listeners \cup clnts
  /\ fault' = TRUE
  /\ pc' = "ended"
  /\ UNCHANGED <<rfds, wfds, maxfd, rready, wready, todo, clnts, open, blocking, unsent, net_vars>>

(* Mutant: the descriptor is still watched for writing.                    *)
CloseKeepsWriting(d) ==
  /\ clnts' = clnts \ {d}
  /\ rfds' = rfds \ {d}
  /\ open' = open \ {d}
  /\ blocking' = blocking \ {d}
  /\ unsent' = [unsent EXCEPT ![d] = 0]
  /\ input' = [input EXCEPT ![d] = 0]
  /\ hup' = [hup EXCEPT ![d] = FALSE]
  /\ full' = [full EXCEPT ![d] = FALSE]
  /\ todo' = todo \ {d}
  /\ UNCHANGED <<pc, wfds, maxfd, rready, wready, fault, backlog, nconns, ncmds>>

(* A connection is forgotten, its client destroyed and its descriptor      *)
(* closed, and the scan goes on.                                           *)
Close(d) ==
  /\ clnts' = clnts \ {d}
  /\ rfds' = rfds \ {d}
  /\ wfds' = wfds \ {d}
  /\ open' = open \ {d}
  /\ blocking' = blocking \ {d}
  /\ unsent' = [unsent EXCEPT ![d] = 0]
  /\ input' = [input EXCEPT ![d] = 0]
  /\ hup' = [hup EXCEPT ![d] = FALSE]
  /\ full' = [full EXCEPT ![d] = FALSE]
  /\ todo' = todo \ {d}
  /\ UNCHANGED <<pc, maxfd, rready, wready, fault, backlog, nconns, ncmds>>

(* recv returns 0, or fails since the connection was reset.                *)
RecvCloses(d) ==
  /\ ReadsFrom(d) /\ d \in clnts
  /\ hup[d]
  /\ Close(d)

(* What has arrived is received and every command in it handled, which     *)
(* may push output to any clients.                                         *)
RecvHandles(d) ==
  /\ ReadsFrom(d) /\ d \in clnts
  /\ input[d] > 0
  /\ \E S \in SUBSET clnts :
       unsent' = [c \in Fds |-> IF c \in S THEN unsent[c] + 1 ELSE unsent[c]]
  /\ input' = [input EXCEPT ![d] = 0]
  /\ rready' = rready \ {d}
  /\ todo' = IF d \in wready THEN todo ELSE todo \ {d}
  /\ UNCHANGED <<pc, rfds, wfds, maxfd, wready, clnts, open, blocking, fault,
                 backlog, hup, full, nconns, ncmds>>

(* sendpartial sends what fits into the kernel's buffer.  A blocking send  *)
(* stays there until all is sent, and nobody else is served meanwhile.     *)
Sends(d) ==
  /\ WritesTo(d) /\ d \in clnts
  /\ Writable(d)
  /\ \E n \in 0..unsent[d], f \in BOOLEAN :
       /\ n < unsent[d] => f /\ n > 0
       /\ unsent' = [unsent EXCEPT ![d] = @ - n]
       /\ full' = [full EXCEPT ![d] = f]
  /\ todo' = IF d \in blocking /\ unsent'[d] > 0 THEN todo ELSE todo \ {d}
  /\ UNCHANGED <<pc, rfds, wfds, maxfd, rready, wready, clnts, open, blocking, fault,
                 backlog, input, hup, nconns, ncmds>>

(* It fails: the peer is gone.                                             *)
SendCloses(d) ==
  /\ WritesTo(d) /\ d \in clnts
  /\ hup[d]
  /\ Close(d)

(* Mutant: a client is watched for writing for ever.                       *)
EndPassNeverClears ==
  /\ pc = "scan" /\ todo = {}
  /\ wfds' = wfds \cup {d \in rfds \cap clnts : unsent[d] > 0}
  /\ pc' = "select"
  /\ UNCHANGED <<rfds, maxfd, rready, wready, todo, clnts, open, blocking, unsent, fault, net_vars>>

(* Mutant: the comparison is off by one.                                   *)
EndPassOffByOne ==
  /\ pc = "scan" /\ todo = {}
  /\ wfds' = {d \in rfds \cap clnts : unsent[d] > 1}
  /\ pc' = "select"
  /\ UNCHANGED <<rfds, maxfd, rready, wready, todo, clnts, open, blocking, unsent, fault, net_vars>>

(* The second loop of a pass: a client is watched for writing when it has  *)
(* something to send.                                                      *)
EndPass ==
  /\ pc = "scan" /\ todo = {}
  /\ LET scanned == {d \in rfds \cap clnts : d < maxfd}
     IN  wfds' = (wfds \ scanned) \cup {d \in scanned : unsent[d] > 0}
  /\ pc' = "select"
  /\ UNCHANGED <<rfds, maxfd, rready, wready, todo, clnts, open, blocking, unsent, fault, net_vars>>

ServerStep ==
  \/ Select
  \/ \E l \in Listeners :
       Accept(l) \/ AcceptFails(l) \/ AcceptNoWebSocket(l) \/ AcceptHangs(l) \/ AcceptNotInserted(l)
  \/ \E d \in Fds : LoopReturns(d) \/ RecvCloses(d) \/ RecvHandles(d) \/ Sends(d) \/ SendCloses(d)
  \/ EndPass

PeerStep ==
  \/ \E l \in Listeners : Connect(l)
  \/ \E d \in Fds : PeerSend(d) \/ PeerClose(d) \/ PeerReads(d)

Next == ServerStep \/ PeerStep

Spec == Init /\ [][Next]_vars

(* The server is one thread that runs whenever select returns; a peer that *)
(* stays connected reads what it is sent, and completes its HTTP request.  *)
FairSpec == Spec /\ WF_vars(ServerStep) /\ \A d \in Fds : WF_vars(PeerReads(d))

-----------------------------------------------------------------------------
(* Every open descriptor belongs to a client in the table.                 *)
TypeOK ==
  /\ pc \in {"select", "scan", "ended", "hung"}
  /\ {rfds, wfds, clnts, open} \subseteq SUBSET Fds
  /\ rready \subseteq Fds /\ wready \subseteq Fds /\ todo \subseteq rready \cup wready
  /\ maxfd \in (FirstFd + 1)..(MaxFd + 1)
  /\ clnts = open /\ blocking \subseteq open
  /\ unsent \in [Fds -> Nat] /\ input \in [Fds -> Nat] /\ backlog \in [Listeners -> Nat]
  /\ hup \in [Fds -> BOOLEAN] /\ full \in [Fds -> BOOLEAN] /\ fault \in BOOLEAN

(* Nothing waits unwatched: when the loop sleeps in select, it would wake  *)
(* up for every listener, for every client, and for the output of every    *)
(* client that has some.                                                   *)
NothingUnwatched ==
  pc = "select" =>
    /\ Listeners \cup clnts \subseteq rfds
    /\ wfds = {d \in clnts : unsent[d] > 0}
    /\ \A d \in rfds : d < maxfd

(* The thread only calls accept, recv or send on a connection on which     *)
(* this pass's select has found something to do, although connections are  *)
(* closed and their descriptors reused within the pass.  A blocking send   *)
(* may still wait in the middle.                                           *)
NeverBlocks ==
  pc = "scan" =>
    /\ \A d \in todo \cap rready : d \in Listeners \cup clnts /\ Readable(d)
    /\ \A d \in todo \cap wready : d \in clnts /\ (Writable(d) \/ d \in blocking)

(* No peer that comes, goes, resets its connection or stops reading makes  *)
(* the loop return for the others.                                         *)
EndsOnlyByFault == pc = "ended" => fault

(* Input is handled and output sent, whoever else comes, leaves or sends,  *)
(* as long as the connected peers go on reading and none leaves in the     *)
(* middle of its WebSocket handshake.                                      *)
Served ==
  \A d \in Fds :
    /\ input[d] > 0 ~> input[d] = 0 \/ ~Up
    /\ unsent[d] > 0 ~> unsent[d] = 0 \/ ~Up

(* A connection request is accepted unless all descriptors are in use.     *)
Accepted ==
  \A l \in Listeners : backlog[l] > 0 ~> backlog[l] = 0 \/ FreeFds = {} \/ ~Up
=============================================================================
