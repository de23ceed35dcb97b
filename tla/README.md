# A verification project for DiME

DiME (Distributed Messaging Environment) relays variables between numerical
programs. A single-threaded server written in C (`server/`) accepts
connections over Unix, TCP and WebSocket sockets; client libraries for Python,
Matlab and JavaScript (`client/`) join named groups, send variables to a group
or to everybody, and collect what was sent to them.

This directory holds TLA+ models of the server and of the three clients,
the TLC configurations that check them on small instances, and proofs, checked
by TLAPS, for every size. Paths below are relative to the repository; `src/`
in `PROJECT.json` is its root.

## 1. Inventory

| Part | State | Operations | Interacts with |
|---|---|---|---|
| Broker (`server/client.c`) | clients with `groups`, `queue`, `waiting`; groups with `clnts`; messages with `refs`; the server's `serialization` | handshake, join, leave, send, broadcast, sync, wait, devices; init and destroy of a client | called by the loop; pushes answers into sockets; owns deques; looks up tables |
| Deque (`server/deque.c`) | `arr, cap, begin, end, len`, an iterator | pushl, pushr, popl, popr, iterate | a client's queue of messages |
| Ring buffer (`server/ringbuffer.c`) | `arr, cap, begin, end, len` | write, peek, discard, read | both directions of a socket |
| Socket (`server/socket.c`) | read and write buffers, WebSocket state | push, pop, sendpartial, recvpartial, WebSocket handshake | loop and broker |
| Event loop (`server/server.c`) | descriptor sets, `fd2clnt` | listen, accept, read and dispatch, write, close | sockets, broker |
| Hash table (`server/table.c`) | open addressing with tombstones | insert, search, remove, iterate | `fd2clnt`, `name2clnt` |
| Python client (`client/python/dime/client.py`) | serialization, workspace | open, join, leave, send, broadcast, sync, wait, devices | one blocking connection |
| Matlab client (`client/matlab/dime.m`) | serialization | the same | one blocking connection |
| JavaScript client (`client/javascript/dime.js`) | workspace, one callback slot | the same, asynchronously | one WebSocket |
| Startup (`server/main.c`) | options, signal handlers, names of socket files | parse, listen, run, clean up | loop, file system |

What is hard in it:

* **Shared, reference-counted messages.** One message sits in the queues of
  several clients that sync, leave and disconnect in any order, and the counts
  are maintained by hand in four functions.
* **Membership kept twice**, in the client's and in the group's array, with
  swap-removal, partial joins and partial leaves, and raw pointers.
* **Circular arrays** that grow while they are wrapped around.
* **Answers without identifiers.** A client tells answers apart by counting
  them; notices (`reregister`) arrive between them at any time.
* **A change of serialization under way.** When clients of different languages
  meet, the server tells everybody to use `dimeb`; copies already sent cannot
  be decoded by some recipients, and the sender has to send them again.
* **Waiting**: a flag set by one client's command and reset by another's.
* **Allocation failures** in the middle of a loop that has already had effects.
* **A stream cut anywhere**, into WebSocket frames by the peer and into reads by
  the network, by a parser that one malformed header turns into the end of the
  server.
* **One thread for everyone**, with descriptor sets that are a copy of what was
  ready, while descriptors are closed and reused; some calls block.
* **Signals between any two steps** of the start, with an exit handler that
  removes files and frees memory; files that a killed process leaves behind.

What makes each part correct: the deque is a sequence and the ring buffer a
byte stream; the two membership arrays agree and hold live clients only; no
message is freed while a queue holds it, and none survives its last holder;
nothing is lost, duplicated or reordered between a send and the sync that
returns it; no wake-up is lost; the hash table is a map, and its
searches end unless it could not grow and is full;
messages are popped as they were sent, and none waits in a buffer that nobody
looks at; the loop watches all that it has to and calls nothing that blocks; a
server that ends leaves no file behind and takes none from another; client and server stay in step; a client's view
of the serialization converges to the server's and no variable is lost on the
way; every call returns.

`PROJECT.json` lists the hazards with their lines under `hazards`.

## 2. Modules

| Module | Models | Says |
|---|---|---|
| `Broker` | the handlers of `client.c`, one action each | `TypeOK`, `MembershipOK`, `NoLostWakeup`, `RefsCover`, `RefsExact`, `WakeUpTruthful`, `KeepsPromise` |
| `Mailbox` | what the broker promises, without arrays, counts and addresses | the abstract specification behind `KeepsPromise` |
| `Deque`, `AbstractDeque` | `deque.c`; a double-ended sequence | `Consistent`, `IterSound`, `ImplementsDeque` |
| `RingBuffer`, `ByteQueue` | `ringbuffer.c`; a byte stream | `Consistent`, `ImplementsByteQueue` |
| `Table`, `FiniteMap` | `table.c`; a finite map | `Reachable`, `Counters`, `ImplementsMap` |
| `Socket` | `socket.c` with a peer at the other end | `InOrder`, `NoneStuck`, `IntactUntilTorn`, `AllDelivered` |
| `EventLoop` | the select loop of `server.c` with its peers | `NothingUnwatched`, `NeverBlocks`, `EndsOnlyByFault`, `Served`, `Accepted` |
| `Lifecycle` | `main.c`, init, add and destroy of the server, in several processes | `RunningReachable`, `LeavesNothing`, `FreedOnce`, `Settles` |
| `Session` | composes `Broker` with the loop's dispatch, the connections, and Python, Matlab and JavaScript clients | `InStep`, `ViewAgrees`, `NothingLost`, `WaitBlocks`, `CallsReturn`, `WaitReturns` |
| `MCBroker`, `MCDeque`, `MCRingBuffer`, `MCTable`, `MCSocket`, `MCEventLoop`, `MCLifecycle`, `MCSession` | | values for the constants |
| `BrokerProofs`, `BrokerDeliveryProofs`, `SessionProofs`, `DequeProofs`, `RingBufferProofs`, `EventLoopProofs`, `LifecycleProofs`, `SocketProofs` | | theorems |

The modules stand on each other: `Socket` treats the ring buffers as the
sequences that `RingBuffer` is shown to implement, `Broker` uses sequences and
finite maps where the code has deques and tables, `EventLoop` leaves commands to
`Broker` and bytes to `Socket`, and `Session` takes from these two that a
connection is a pair of reliable channels of whole messages.

Operators whose comment starts with "Mutant" are faulty variants of the
definition that follows them. No specification uses them; substituting one for
that definition makes TLC report a violation of the property that is meant to
catch it (`mutants` in `PROJECT.json`).

### Broker

The server handles one command at a time and runs each handler to its end, so
an action is a whole handler. The state is that of the C structures:

* `conn` is the table `fd2clnt`; a client is named by its descriptor, and a
  descriptor may be accepted again after a close.
* `members[n]` is the array `clnts` of group `n`, in the order the code keeps
  it; `groups[c]` is a set, since the client's array is only searched.
* `queue[c]` holds addresses of messages; `refs` and `body` are the heap.
  `malloc` returns any address that is not allocated, so reuse of freed memory
  happens. `qcap[c]` is kept because `dime_client_destroy` depends on it:
  `Visited` is what the deque iterator visits.
* `out[c]` is what the last step pushed to client `c`.

`AllocMayFail` allows every allocation to fail at any point, with the answers
and partial effects that the code then leaves behind. A malformed command, an
unknown one, and the two commands that are never answered (a handshake for an
unknown serialization and a sync without `n`) are actions as well. A push that
fails is taken to push nothing; what it really leaves behind is in `Socket`.

### Deque and RingBuffer

The arrays, indices and growth are modelled literally; capacities start small
so that several growths happen. `Deque!Spec` has the operations that the server
calls; `popr` and `apply` have no caller and are left out (`popr` adjusts the
wrong index when `end` is 0 and would have to be mended first). An iterator is a sequence of steps, during which
the deque does not change, as in its only use. `size_t` wrap-around matters in
one place, the iterator that starts at `begin - 1`, and there `-1` stands for
`SIZE_MAX`. The capacity computations overflow only beyond the address space
and are not bounded.

### Table

`tbl` is the C structure. `Relocate` and `Place` follow the recursion of
`dime_table_relocate`, which evicts the slots that it probes; `Grow` runs it
downwards over the old slots, and `Counted` upwards when few free slots are
left. `Search` includes the move of the element into the first removed slot that
it passed, with the decrement of `ncollisions`. `Hash` is any function: the
instance makes three keys collide, one of which parts from the others when the
table grows. An insertion may call `dime_table_grow` twice, before and after it
stores the element, and at each call realloc fails or succeeds (`Reallocs`;
beyond the bound `MaxCap` it fails). The code ignores a failure unless all slots
are occupied, when the insertion is refused (`Failed`). An inserted key is not
in the table, as both callers see to. Iterating is visiting the occupied slots
(`Elements`).

A table whose growth keeps failing fills up, and without a free slot the loop of
a search or a removal of an absent key goes on for ever: `NeverStops` sets
`hung`, and then nothing but `Spin` happens. The history variable `filled` says
that all slots have been occupied since the last growth. `nfree` and
`ncollisions` are not exact: `Counters` says on which side they err, and that
`filled` is the only reason for a table without a free slot. Removed slots never
bring that about, because the table is rehashed in place in time, but they do
not mend it either: a table that was full stays without a free slot, however
many elements are removed, until it grows. `table.h` (line 129) has a search
return `NULL` for an absent key without this exception. `fd2clnt` is only
searched for descriptors that it holds; `name2clnt` is searched for absent names
by join and send.

### Socket

One connection with the server at one end. The buffers are sequences of units,
coarser than bytes: three for a DiME header, one to three for the header of a
frame and one for its mask. Transfers are cut between any two units in both
directions. Everything the code reads from a header is read from these units, so
a wrong length shifts the parser as it would shift the real one, and a mask is
removed only with the right key. The constants `Len7` and `Len16` stand for 126
and 65536, `LenMod` for 2^32.

From the peer: `PeerSend` (in one frame or two), `PeerSendBad` (once; then
nothing is promised but the order), `Recv`, and the loop of `pop` turn by turn
(`PopFrame`, `Pop`, `PopFails`, `PopNothing`). From the server: `Push`,
`SendPartial`, and a peer that reads frames as a browser and messages as
`dime.js` does. With `NoMemory` each write of `push_str` may fail on its own.
Its comparisons with `size_t` lengths take the -1 for a large number, so only a
failing header is noticed and a message without its JSON or data counts as
pushed; `IntactUntilTorn` says what is left of the stream.

`ends` is a history variable: the places where the messages of the peer end in
all that it has sent. `NoneStuck` compares with it how much payload is still
under way, so that it can be stated, and proved, without taking the stream
apart again.

### EventLoop

The descriptor sets, `maxfd`, the table's descriptors and the kernel's side:
backlogs, unread input, full send buffers, hang-ups. `Select` copies what is
ready into `todo`, and the scan works it off from the lowest descriptor; an
accept takes the lowest free one, so reuse within a pass happens. Each early
exit of the accept branch is an action: no descriptor left, a failed WebSocket
handshake, a client that `fd2clnt` does not take (its closed descriptor is
watched all the same, and the next `select` fails), the returns of the whole
loop, and the peer that leaves during its WebSocket handshake, in which the
thread then stays for ever (`AcceptHangs`). `Sends` keeps the thread at a
blocking connection (Unix sockets) until all is sent.

### Lifecycle

Processes share ports and socket files; `owner` says whose they are. A process
allocates part by part, binds and records listener by listener, runs, and cleans
up in its exit handler. `Signal` is possible at every one of these steps,
`SecondSignal` during the exit handler, `Kill` always; a restart is another
process with the same listeners, and `RemoveStale` somebody who removes the file
of a dead one. The two exceptions that the properties make are in the code:
a signal between `bind` and the recording of the name leaves the file, and
after a failed `dime_server_init` the exit handler frees again what was freed.

### Session

A connection is two FIFO channels of messages, `inq` and `wbuf`. `Serve`
handles one command of one client: the loop handles all complete commands of a
readable descriptor before the next one, but how the bytes are cut into reads
is up to the network, so every interleaving at this granularity can happen. A
client is a program that opens a connection and makes calls; a call blocks it
until `Receive` steps have read what it waits for. A batch of commands goes out
in one step, since the client does nothing between two sends of a batch that
depends on anything else. Variables get fresh names, and `seen` remembers what
a client has read, those messages included that it skipped because it cannot
decode them.

The libraries are modelled with their differences: Matlab's batches overlap by
one variable, Matlab cannot encode `json`, broadcast in Python fails when it
has to resend, and sync with a limit in Matlab fails when it has to ask again.
JavaScript sends one command at a time, asks for `json`, does not resend, takes
a notice for an answer, and fails where sync with a limit would ask again; its
programs await every promise before the next call, so that a call blocks them
as it does the others. `Worlds` is the set of assignments of libraries to
clients of which the initial state picks one.
`CatchErrors` says whether a program survives an exception. Closing, or
crashing, is possible at any time for the clients in `MayClose`; the server may
then serve commands that are still in the socket or lose them.

`Quiescent` lets the system rest when nobody is owed an answer. Deadlock
checking therefore shows that no client is ever blocked without reason, and
that the bounds on addresses are never what stops the server.

## 3. Runs

| Run | Shows | Instance |
|---|---|---|
| `delivery` | `NoLostWakeup`, `RefsCover`, `RefsExact`, `WakeUpTruthful`, `KeepsPromise` | 3 clients, 1 group, name lists of up to 2 elements with duplicates and a non-string, 2 addresses, 2 contents, queues of capacity 3, so that no queue is full |
| `no_memory` | `TypeOK`, `MembershipOK` with failing allocations | 2 clients, 2 serializations, 3 addresses and queues of capacity 2, so that a queue has to grow |
| `leak` | `RefsExact` is violated | capacity 2 |
| `deque` | `Consistent`, `IterSound`, `ImplementsDeque` | capacity 2, up to 5 elements: growth to 3, 4 and 6 |
| `ringbuffer` | `Consistent`, `ImplementsByteQueue` | capacity 3, up to 5 bytes, writes of 0 to 3 bytes |
| `table` | `Reachable`, `Counters`, `ImplementsMap` | 5 keys, 2 values, capacity 4 that fills up or grows to 8, growth failing at any call, insertions up to 6 collisions |
| `socket` | `InOrder`, `NoneStuck`, `IntactUntilTorn`, `AllDelivered` | 2 messages in either direction or one in each, of three sizes, one for each form of the frame length; any cut; failing writes |
| `loop` | `NothingUnwatched`, `NeverBlocks`, `EndsOnlyByFault`, `Served`, `Accepted` | a Unix and a WebSocket listener, 2 free descriptors, 3 connection requests, 2 commands |
| `lifecycle` | `RunningReachable`, `LeavesNothing`, `FreedOnce`, `Settles` | 3 processes that want the same file and port in either order, or the file only |
| `session_step` | `InStep`, `ViewAgrees` | a json and a Matlab client, or a JavaScript and a Python one, any 3 calls each (only the second leaves groups and lists devices), exceptions caught, a client that may crash |
| `session_live` | `NothingLost`, `CallsReturn`, `WaitReturns` | up to 2 calls each of a sender with 2 variables in batches of 1 (Matlab's overlap) and a reader that joins, waits, syncs with a limit and may close: Python to Matlab, Matlab to Python, Python to JavaScript |
| `js_wait` | `WaitBlocks` is violated | one client of each library |

Every module's type invariant is checked as well.

Why these bounds: three clients are the least at which a third party's removal
moves another member's slot and two readers share a message; two addresses are
the least at which one is freed and reused while another is live; the
arrays grow at least twice and wrap at every offset. A serialization changes at
most once in a server's life, so two parties and two calls show every order of
the change and a call; the notice that misleads a JavaScript client needs a
third party, since the two others have to disagree. Five keys in a table of four
slots overflow it, grow it, fill it when it cannot grow, with one key left that
is refused or searched for in vain, and fill it with removed slots. Two messages are the
least at which one can be taken for a part of the other. One more request than
there are descriptors makes accept fail, and two descriptors are closed and
reused within a pass. Three processes are a running one, one that fails to start
and one that starts after both. Clients, groups, addresses and contents are
symmetric in the safety runs of the broker. `MembershipOK` is checked with two
clients only, because it is proved for any number. The run `no_memory` stops
exploring a behaviour once a count is wrong (`CONSTRAINT RefsCover`): what
follows is a use of freed memory. `socket`, `loop` and `lifecycle` do not check
for deadlock, because a server that has ended, and peers whose bounded number of
messages is used up, rightly stop.

Fairness. `session_live`: weak fairness of accepting and of serving each
client, because each pass of the select loop serves every ready descriptor and
no handler blocks; weak fairness of each client's reads, because a blocked
`recv` returns when data is there. No fairness is assumed of programs: they
need not call anything. `loop`: weak fairness of the thread, and of peers'
reading: a client that is connected and never reads does stop everybody when
its socket is blocking. That each pass serves everyone is shown there and not
assumed. `socket`: weak fairness of the steps of the loop and of the peer's
reading. `lifecycle`: a process runs; faults, signals and kills need not happen.

### What the runs found

Two runs expect a violation, with the lines under `findings`. The iterator
treats a full deque as empty, and so `dime_client_destroy` leaks messages
(`leak`). A JavaScript client that is told of a new serialization between its
accept and the handling of its handshake takes the notice for the answer of the
handshake, and from then on every call gets the answer of the call before
(`js_wait`).

The models show more of the kind, which the properties exempt and the hazards
describe: an allocation failure between queueing and counting leads to a use
after free; an exception in a batch leaves answers that the next call takes for
its own; Python's `broadcast_r` uses an undefined name when it has to resend,
Matlab's and JavaScript's `sync_r` when they have to ask again; a broadcast to a
client that is not registered yet may be lost; a push that is short of memory
leaves a torn message and often does not say so; a hash table that could not
grow and became full searches for an absent key for ever; a client that does not
read its Unix socket stops the thread; a malformed message, and a
client that cannot be inserted, end the server for all; a peer that leaves
during its WebSocket handshake hangs it.

## 4. Proofs

| Module | Theorem | States |
|---|---|---|
| `BrokerProofs` | `TypeCorrect` | `Spec => []TypeOK` |
| | `MembershipCorrect` | `Spec => []MembershipOK`, also with failing allocations |
| | `NoUseAfterFree` | `Spec => []RefsCover`, if no allocation fails |
| | `WakeupCorrect` | `Spec => []NoLostWakeup`, if no allocation fails |
| | `OnlyFullQueuesLeak` | `Spec /\ [][NoFullLeaves]_vars => []RefsExact`, if no allocation fails |
| | `FewMessagesNeverLeak` | `Spec => []RefsExact`, if no allocation fails and there are fewer messages than a queue's initial capacity |
| `BrokerDeliveryProofs` | `WakeUpsAreTrue` | `Spec => WakeUpTruthful`, also with failing allocations |
| | `BrokerKeepsPromise` | `Spec => KeepsPromise` (the broker implements `Mailbox`), if no allocation fails |
| `SessionProofs` | `SessionImplementsBroker` | `SessionSpec => Spec` |
| | `StaysInStep`, `ViewsAgree` | `SessionSpec => []InStep`, `SessionSpec => []ViewAgrees`, under `Orderly` (below) |
| | `WaitsBlock` | `SessionSpec => WaitBlocks`, under `Orderly` |
| | `ClientsTypeCorrect` | `SessionSpec => []ClientTypeOK`, if no allocation fails |
| | `NothingIsLost` | `SessionSpec => []NothingLost`, under `Lossless` (below) |
| `EventLoopProofs` | `TypeCorrect`, `AllIsWatched`, `ScanNeverBlocks`, `OnlyFaultsEnd` | `TypeOK`, `NothingUnwatched`, `NeverBlocks`, `EndsOnlyByFault` always hold |
| `LifecycleProofs` | `TypeCorrect`, `RunningStaysReachable`, `OrderlyExitLeavesNothing`, `PartsFreedOnce` | `TypeOK`, `RunningReachable`, `LeavesNothing`, `FreedOnce` always hold |
| `SocketProofs` | `InOrderHolds`, `NoneStuckHolds`, `IntactUntilTornHolds`, `TypeCorrect` | `InOrder`, `NoneStuck`, `IntactUntilTorn`, `TypeOK` always hold |
| `DequeProofs` | `TypeCorrect`, `DequeConsistent`, `IteratorSound` | `TypeOK`, `Consistent`, `IterSound` always hold |
| | `DequeRefinement` | `Spec => AbstractDeque!Spec` |
| `RingBufferProofs` | `TypeCorrect`, `RingConsistent`, `RingRefinement` | the same for the ring buffer and the byte stream |

They hold for every value of the constants that meets the assumptions named in
the modules: finitely many descriptors, no more of them than an `unsigned int`
counts; initial capacities of at least two (with one, growth by half would not
grow); model values that differ; at least one listener for every server, since
`main` has a default; a batch size of at least one; a JSON part in every
message, messages that are shorter than 2^32, and the three forms of a frame's
length in this order.

**Broker.**

* `MembershipOK` is inductive with `TypeOK`. The proof rests on `SwapRemove`:
  it removes exactly one element from a sequence without duplicates and leaves
  no duplicates (a lemma), so both arrays change alike.
* `RefsCover` needs `MembershipOK`: a send queues one copy per client only
  because the group's array has no duplicates. That a queue holds no message
  twice is part of it, since a sync decrements once per entry. It is `<=`
  rather than `=`, because a full queue is not visited on disconnect; the
  equality is false (`leak`).
* How far it is false is the subject of `OnlyFullQueuesLeak`: in a behaviour in
  which no client disconnects while its queue is full (`NoFullLeaves`, a
  condition on steps) the counts stay exact. `FewMessagesNeverLeak` has no
  condition on the behaviour: with fewer addresses than the capacity no queue
  can fill up, because none holds a message twice.
* `NoLostWakeup` is inductive by itself given types: `Wait` sets the flag only
  on an empty queue, and `Enqueue` removes every recipient from the set.
* `BrokerKeepsPromise` maps a queue of addresses to the sequence of their
  contents and `out` to the contents handed over. Every handler is shown to take
  a step of `Mailbox` under this mapping. `RefsCover` is what makes it go
  through: the address of a new message is in no queue, and releasing messages
  changes the content of no address that another queue holds.

**Session.** `SessionImplementsBroker` shows that every step of the composed
system is a step of the broker or leaves it alone, so that all of the above
holds of it. Its hypothesis `AnyInput` undoes the bounds on inputs that
`Broker.tla` has for TLC: every copy is a payload, every name may be joined by
itself, every integer is a limit. It needs that the commands on their way are
well formed, whence the types of the calls and channels (`Typed`) and what a
batch relies on (`Ready`: it starts within the variables of the call, and the
client has a serialization).

`InStep` and `ViewAgrees` are not inductive. The strengthening `Good` says of
each client that, before it connects, nothing is under way; that all commands
under way belong to its call; that data is in its socket only during a sync,
after the command was handled and in front of the answer; that a registration
is in it only during a handshake; that the server holds back no wait but that of
the call; that nothing has been pushed to it before it was accepted; and that
there are no notices before there is a serialization. The proof has
one lemma for what the handlers do as clients see it (`HandlersAnswer`: one
answer to the client itself, a held-back wait excepted, and no more than
wake-ups and notices to the others), one for each kind of client step, and
facts on counting answers in a sequence to which messages are appended and from
which the first is taken. `Orderly` collects the hypotheses, and each is needed:

* no allocation fails: the server leaves commands unanswered otherwise;
* nobody uses `dime.js`, which takes a notice for an answer (`js_wait` shows
  what comes of it; `session_step` includes a case without notices);
* programs that catch exceptions send one variable per call (`SafeCatch`): an
  exception in a larger batch leaves answers unread;
* `AnyInput`.

`ClientsTypeCorrect` needs only the first and the last of these. It includes
that every message that a client reads has a content, and so rests on
`NoUseAfterFree`. `WaitsBlock` follows from `Good`: a client that has read the
last answer of its call has nothing under way.

`NothingLost` needs to know why a copy that its recipient cannot decode will be
followed by another one. The invariant has three parts.

* `Attentive`. The server's serialization is one that every registered client
  can decode, and is the one that the client knows or `dimeb`; every notice on
  the way says so (`Fluent`). The commands of a send carry what the call says:
  its group, the serialization that it began with, one of its variables
  (`Sending`), and they are signed by their sender (`Honest`).
* Where the copies are: no step takes one away from a client that is not down.
  A sync moves it from the queue to the socket and a read from the socket to
  `seen`; only a send or a broadcast adds one (`StepCopies`).
* `AllSettled`. A copy that its recipient cannot decode is followed by one that
  it can, or its sender is down, or it is still *owed* to a recipient that is a
  member of the group (`Owes`). A call that began with another serialization
  than `dimeb` owes as long as it has read the notice of the change, or will
  read it before its last answer, since then it starts again; one that began
  with `dimeb` owes the variables whose commands are still to be handled or
  sent. The point of the proof is that a send whose copy is already out of date
  when the server handles it finds the notice in its socket before the answer
  (`NewCopy`), and that the last answer is not read before it (`ClientOwes`).

`Lossless` adds to `Orderly` what this depends on. TLC refutes `NothingLost` on
small instances if one of these is dropped:

* programs die of exceptions: one that goes on after a failed send does not
  resend;
* nobody asks for JSON in the company of a Matlab client (`NoMix`): the server
  keeps JSON once it is chosen, and `dime.m` cannot decode it;
* nobody broadcasts: a broadcast reaches clients that have not registered yet,
  and has returned when their handshake changes the serialization;
* nobody leaves a group: the resend no longer reaches a client that has left
  (`SendsToGroups` states both).

**Event loop.** The inductive invariant is `TypeOK /\ Watches /\ NeverBlocks`.
`Watches` carries `NothingUnwatched` through the scan, where descriptors are
being closed and accepted, and says when a descriptor may be watched that is
nobody's: only after a fault.

**Lifecycle.** The inductive invariant adds to the types that a process owns
what it has bound (`OwnsBound`), that it owns what it has recorded, each file
once (`OwnsRecorded`), that a file without a record has an owner that is between
the two or was hurried (`RecordsOwned`), and that only a failed
`dime_server_init` leaves freed parts to the exit handler (`FreedByInit`).

**Socket.** A buffer holds any number of messages, cut anywhere, and "the
concatenation of the bodies of these messages" is a recursive notion, on which
nothing can be proved here by induction. The invariants therefore carry the
decomposition along: a `Chain` is a function `r` with `r[i-1] = p[i] \o r[i]`,
where `p[i]` is the i-th part and `r[i]` what is left behind it. A step adds a
part at the end (`AppendChain`), extends the last rest (`ExtendChain`) or takes
the first part away, which needs no induction.

* `InInv`, of the input. On a plain connection `rbuf \o net` is the bodies of
  the messages that were sent and not popped (`Bodies`). On a WebSocket
  `wsrbuf \o net` is a chain of masked frames (`Frames`), and `rbuf` with the
  payload of these frames is the bodies. Behind them there is nothing as long as
  the peer is honest, and otherwise something that is no message (`NoMessage`)
  or no masked frame (`NoFrame`). `FrontMessage` and `FrontFrame` say that what
  the code reads from a partly filled buffer is what was put there: the size is
  known as soon as the header is complete, the message is taken as soon as it
  is all there and not earlier, and it is no other message.
* `NoneStuck` needs in addition that the units of payload in a frame are as many
  as the payload (`SamePayload`), that no message ends inside a frame
  (`Aligned`), and what the loop has established when it goes back to select
  (`InDone`): a frame that is not complete lacks some of its payload, or all.
* `OutInv`, of the output. Until the peer has read all messages that were pushed
  before the first failed write, what it has in its buffer and what is on the
  way to it start with the pieces of these messages (`Pieces`). Of what follows
  it is only known that the length of a frame can be read from its header
  (`Framed`), which is written as a whole. Nothing is said once the peer has
  read on behind these messages.

**Deque and ring buffer.** They are proved with `TypeOK /\ Consistent`, which
ties `end` to `begin` and `len`. Each push is shown to keep the contents
through the move (`At` of the old and the new array agree), and the contents
after the step are the abstract operation on the contents before it.

Model-checked only: the properties of `Table` (its relocation is a recursive
operator, which the prover cannot handle); `NothingLost` for a JavaScript
recipient; and liveness, which is out of the prover's reach, as is `ENABLED`.

## 5. Not modelled, and plan

Left out:

* TLS, which cannot be enabled in this version (the code that creates its
  context is commented out), and zlib, which nothing enables;
* the libev loop, which the default build does not contain, and the poll loop,
  which is disabled;
* the text of the HTTP exchange that opens a WebSocket: that it succeeds, fails
  or hangs is in `EventLoop`;
* the fork of `-d`: the parent leaves as if signalled before it has bound
  anything, and the child is the process that `Lifecycle` describes;
* overlapping calls of the JavaScript client, which replace each other's
  callback;
* `dime_deque_popr`, `dime_deque_apply` and `dime_table_apply`, which nothing
  calls;
* logging; the byte formats of `dimeb`, `json` and `pickle`, of which only
  matters here who can decode what; the system-call wrappers of the Matlab
  client, which keep no state.

Worth proving next: `NothingLost` with JavaScript recipients, which take a
notice for an answer, so that `InStep` is not available for them.
