----------------------------- MODULE Lifecycle ------------------------------
(***************************************************************************)
(* server/main.c and the functions of server/server.c that set a server up *)
(* and take it down: dime_server_init, dime_server_add and                 *)
(* dime_server_destroy.  Several server processes share the socket files   *)
(* and the ports of one machine; a restart is another process with the     *)
(* same listeners.  A signal may arrive between any two steps.             *)
(***************************************************************************)
EXTENDS Integers, Sequences, SequencesExt, FiniteSets

CONSTANTS
  Procs,    \* processes
  Paths,    \* names of socket files
  Ports,    \* TCP and WebSocket ports
  Listens,  \* the -l options of each process, or the default
  Nobody,   \* the owner of a name that is not in use
  Faults    \* may memory, descriptors or another resource run out?

Addrs == Paths \cup Ports

ASSUME ListensAssumption == Listens \in [Procs -> Seq(Addrs) \ {<<>>}]
ASSUME NobodyAssumption == Nobody \notin Procs
ASSUME FaultsAssumption == Faults \in BOOLEAN

(* What dime_server_init allocates, in its order.                          *)
Parts == <<"fd2clnt", "name2clnt", "fds", "pathnames">>

VARIABLES
  pc,         \* where main is: "new", "init", "add", "bound" (in dime_server_add,
              \* after bind), "loop", "cleanup", or "dead"
  next,       \* the index of the next listener
  heap,       \* each of Parts is "null", "live" or "freed"
  pathnames,  \* srv->pathnames
  owner,      \* who has bound a port, or whose socket file has that name
  badinit,    \* has dime_server_init failed?
  twice,      \* has something been freed twice?
  hurried     \* has the process been killed, or interrupted in a short window?

vars == <<pc, next, heap, pathnames, owner, badinit, twice, hurried>>

Init ==
  /\ pc = [p \in Procs |-> "new"]
  /\ next = [p \in Procs |-> 1]
  /\ heap = [p \in Procs |-> [o \in Range(Parts) |-> "null"]]
  /\ pathnames = [p \in Procs |-> <<>>]
  /\ owner = [a \in Addrs |-> Nobody]
  /\ badinit = [p \in Procs |-> FALSE]
  /\ twice = [p \in Procs |-> FALSE]
  /\ hurried = [p \in Procs |-> FALSE]

Goes(p, place) == pc' = [pc EXCEPT ![p] = place]

-----------------------------------------------------------------------------
(* The options are read.  main returns when they are wrong, and every      *)
(* return goes through the exit handler.                                   *)
Start(p) ==
  /\ pc[p] = "new"
  /\ Goes(p, "init") \/ Goes(p, "cleanup")
  /\ UNCHANGED <<next, heap, pathnames, owner, badinit, twice, hurried>>

(* dime_server_init allocates its parts one after the other.               *)
InitPart(p) ==
  LET missing == {i \in DOMAIN Parts : heap[p][Parts[i]] = "null"}
      i == CHOOSE k \in missing : \A l \in missing : k <= l
  IN
  /\ pc[p] = "init"
  /\ heap' = [heap EXCEPT ![p][Parts[i]] = "live"]
  /\ IF i = Len(Parts) THEN Goes(p, "add") ELSE UNCHANGED pc
  /\ UNCHANGED <<next, pathnames, owner, badinit, twice, hurried>>

(* When one cannot be allocated, the ones before it are freed.             *)
InitFails(p) ==
  /\ Faults
  /\ pc[p] = "init"
  /\ heap' = [heap EXCEPT ![p] = [o \in DOMAIN @ |-> IF @[o] = "live" THEN "freed" ELSE @[o]]]
  /\ badinit' = [badinit EXCEPT ![p] = TRUE]
  /\ Goes(p, "cleanup")
  /\ UNCHANGED <<next, pathnames, owner, twice, hurried>>

Addr(p) == Listens[p][next[p]]

(* Mutant: the name is recorded before bind.                               *)
BindRecordsFirst(p) ==
  /\ pc[p] = "add"
  /\ pathnames' = IF Addr(p) \in Paths
                  THEN [pathnames EXCEPT ![p] = Append(@, Addr(p))] ELSE pathnames
  /\ IF owner[Addr(p)] = Nobody
     THEN owner' = [owner EXCEPT ![Addr(p)] = p] /\ Goes(p, "bound")
     ELSE UNCHANGED owner /\ Goes(p, "cleanup")
  /\ UNCHANGED <<next, heap, badinit, twice, hurried>>

(* Mutant: the failure frees srv->fds.                                     *)
BindFrees(p) ==
  /\ pc[p] = "add"
  /\ IF owner[Addr(p)] = Nobody
     THEN owner' = [owner EXCEPT ![Addr(p)] = p] /\ Goes(p, "bound") /\ UNCHANGED heap
     ELSE UNCHANGED owner /\ Goes(p, "cleanup") /\ heap' = [heap EXCEPT ![p]["fds"] = "freed"]
  /\ UNCHANGED <<next, pathnames, badinit, twice, hurried>>

(* Mutant: bind is tried again and again.                                  *)
BindRetries(p) ==
  /\ pc[p] = "add"
  /\ IF owner[Addr(p)] = Nobody
     THEN owner' = [owner EXCEPT ![Addr(p)] = p] /\ Goes(p, "bound")
     ELSE UNCHANGED <<owner, pc>>
  /\ UNCHANGED <<next, heap, pathnames, badinit, twice, hurried>>

(* dime_server_add: bind creates the socket file, and fails when there is  *)
(* a file of that name, even one that nobody listens on; or it takes the   *)
(* port, and fails when another process has it.                            *)
Bind(p) ==
  /\ pc[p] = "add"
  /\ IF owner[Addr(p)] = Nobody
     THEN owner' = [owner EXCEPT ![Addr(p)] = p] /\ Goes(p, "bound")
     ELSE UNCHANGED owner /\ Goes(p, "cleanup")
  /\ UNCHANGED <<next, heap, pathnames, badinit, twice, hurried>>

(* Something that comes before bind fails, or bind for another reason.     *)
AddFails(p) ==
  /\ Faults
  /\ pc[p] = "add"
  /\ Goes(p, "cleanup")
  /\ UNCHANGED <<next, heap, pathnames, owner, badinit, twice, hurried>>

(* Mutant: there is always another listener.                               *)
RecordGoesOn(p) ==
  /\ pc[p] = "bound"
  /\ pathnames' = IF Addr(p) \in Paths
                  THEN [pathnames EXCEPT ![p] = Append(@, Addr(p))] ELSE pathnames
  /\ next' = [next EXCEPT ![p] = @ + 1]
  /\ Goes(p, "add")
  /\ UNCHANGED <<heap, owner, badinit, twice, hurried>>

(* Mutant: the first name is not recorded.                                 *)
RecordOffByOne(p) ==
  /\ pc[p] = "bound"
  /\ pathnames' = IF Addr(p) \in Paths /\ next[p] > 1
                  THEN [pathnames EXCEPT ![p] = Append(@, Addr(p))] ELSE pathnames
  /\ next' = [next EXCEPT ![p] = @ + 1]
  /\ Goes(p, IF next[p] = Len(Listens[p]) THEN "loop" ELSE "add")
  /\ UNCHANGED <<heap, owner, badinit, twice, hurried>>

(* After bind, a socket file is recorded; main goes on with the next       *)
(* listener, or starts the loop.                                           *)
Record(p) ==
  /\ pc[p] = "bound"
  /\ pathnames' = IF Addr(p) \in Paths
                  THEN [pathnames EXCEPT ![p] = Append(@, Addr(p))] ELSE pathnames
  /\ next' = [next EXCEPT ![p] = @ + 1]
  /\ Goes(p, IF next[p] = Len(Listens[p]) THEN "loop" ELSE "add")
  /\ UNCHANGED <<heap, owner, badinit, twice, hurried>>

(* dime_server_loop returns an error (EventLoop.tla).                      *)
LoopReturns(p) ==
  /\ Faults
  /\ pc[p] = "loop"
  /\ Goes(p, "cleanup")
  /\ UNCHANGED <<next, heap, pathnames, owner, badinit, twice, hurried>>

-----------------------------------------------------------------------------
(* The ports of a process are free once it is gone; its files stay.        *)
Released(p) == [a \in Addrs |-> IF a \in Ports /\ owner[a] = p THEN Nobody ELSE owner[a]]

(* SIGTERM, SIGINT or SIGHUP: the handler calls exit, which runs the exit  *)
(* handler.                                                                *)
Signal(p) ==
  /\ pc[p] \in {"init", "add", "bound", "loop"}
  /\ Goes(p, "cleanup")
  /\ hurried' = [hurried EXCEPT ![p] = pc[p] = "bound"]
  /\ UNCHANGED <<next, heap, pathnames, owner, badinit, twice>>

(* A second one, of another kind, while the exit handler runs: exit does   *)
(* not start the handler again, and the process ends.                      *)
SecondSignal(p) ==
  /\ pc[p] = "cleanup"
  /\ Goes(p, "dead")
  /\ owner' = Released(p)
  /\ hurried' = [hurried EXCEPT ![p] = TRUE]
  /\ UNCHANGED <<next, heap, pathnames, badinit, twice>>

(* SIGKILL, or a crash.                                                    *)
Kill(p) ==
  /\ pc[p] \notin {"new", "dead"}
  /\ Goes(p, "dead")
  /\ owner' = Released(p)
  /\ hurried' = [hurried EXCEPT ![p] = TRUE]
  /\ UNCHANGED <<next, heap, pathnames, badinit, twice>>

(* dime_server_destroy unlinks the files, whoever they belong to,          *)
Unlink(p) ==
  /\ pc[p] = "cleanup" /\ pathnames[p] # <<>>
  /\ owner' = [owner EXCEPT ![Head(pathnames[p])] = Nobody]
  /\ pathnames' = [pathnames EXCEPT ![p] = Tail(@)]
  /\ UNCHANGED <<pc, next, heap, badinit, twice, hurried>>

(* closes the listeners, and frees everything.  The process ends.          *)
Destroy(p) ==
  /\ pc[p] = "cleanup" /\ pathnames[p] = <<>>
  /\ twice' = [twice EXCEPT ![p] = \E o \in Range(Parts) : heap[p][o] = "freed"]
  /\ heap' = [heap EXCEPT ![p] = [o \in DOMAIN @ |-> IF @[o] = "null" THEN "null" ELSE "freed"]]
  /\ owner' = Released(p)
  /\ Goes(p, "dead")
  /\ UNCHANGED <<next, pathnames, badinit, hurried>>

(* Somebody removes the file that a dead process left.                     *)
RemoveStale(a) ==
  /\ a \in Paths /\ owner[a] # Nobody /\ pc[owner[a]] = "dead"
  /\ owner' = [owner EXCEPT ![a] = Nobody]
  /\ UNCHANGED <<pc, next, heap, pathnames, badinit, twice, hurried>>

ServerStep(p) ==
  InitPart(p) \/ Bind(p) \/ Record(p) \/ Unlink(p) \/ Destroy(p)

Fault(p) == InitFails(p) \/ AddFails(p) \/ LoopReturns(p)

Next ==
  \/ \E p \in Procs :
       Start(p) \/ ServerStep(p) \/ Fault(p) \/ Signal(p) \/ SecondSignal(p) \/ Kill(p)
  \/ \E a \in Addrs : RemoveStale(a)

Spec == Init /\ [][Next]_vars

(* A process runs; nothing has to fail, and nobody has to send a signal.   *)
FairSpec == Spec /\ \A p \in Procs : WF_vars(ServerStep(p))

-----------------------------------------------------------------------------
TypeOK ==
  /\ pc \in [Procs -> {"new", "init", "add", "bound", "loop", "cleanup", "dead"}]
  /\ next \in [Procs -> Nat \ {0}]
  /\ pathnames \in [Procs -> Seq(Paths)]
  /\ heap \in [Procs -> [Range(Parts) -> {"null", "live", "freed"}]]
  /\ owner \in [Addrs -> Procs \cup {Nobody}]
  /\ {badinit, twice, hurried} \subseteq [Procs -> BOOLEAN]
  /\ \A p \in Procs :
       /\ next[p] <= Len(Listens[p]) + 1
       /\ pc[p] \in {"add", "bound"} => next[p] <= Len(Listens[p])

(* A running server can be reached on all its listeners: no other server   *)
(* that starts, fails to start, or ends takes its socket files away.       *)
RunningReachable ==
  \A p \in Procs : pc[p] = "loop" => \A a \in Range(Listens[p]) : owner[a] = p

(* A server that ends leaves no socket file behind, so that the next one   *)
(* can start, unless it was killed, or signalled between bind and the      *)
(* recording of the name or during the exit handler.                       *)
LeavesNothing ==
  \A a \in Paths :
    owner[a] # Nobody /\ pc[owner[a]] = "dead" => hurried[owner[a]]

(* Whenever the signal comes, nothing is freed twice, except after a       *)
(* dime_server_init that failed and freed its parts itself.                *)
FreedOnce == \A p \in Procs : twice[p] => badinit[p]

(* A start succeeds or fails, and an exit ends.                            *)
Settles ==
  \A p \in Procs : pc[p] \notin {"new", "loop"} ~> pc[p] \in {"loop", "dead"}
=============================================================================
