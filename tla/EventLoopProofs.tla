-------------------------- MODULE EventLoopProofs ---------------------------
(***************************************************************************)
(* The safety properties of EventLoop.tla, for any listeners, any limit on *)
(* descriptors, and any number of connections and commands.                *)
(***************************************************************************)
EXTENDS EventLoop, WellFoundedInduction, TLAPS

USE ListenersAssumption, MaxFdAssumption, FaultsAssumption

(* What select is asked to watch: every listener and every client, below   *)
(* maxfd, for writing only clients; and nothing that is not open, unless   *)
(* an accept has left a closed descriptor behind.                          *)
Watches ==
  /\ clnts \cap Listeners = {}
  /\ Listeners \cup clnts \subseteq rfds
  /\ \A d \in rfds : d < maxfd
  /\ wfds \subseteq clnts
  /\ pc = "select" => wfds = {d \in clnts : unsent[d] > 0}
  /\ fault \/ rfds \subseteq Listeners \cup clnts
  /\ pc = "ended" => fault

Inv == TypeOK /\ Watches /\ NeverBlocks

-----------------------------------------------------------------------------
(* A set of natural numbers that is not empty has a least element.         *)
LEMMA MinOfNats ==
  ASSUME NEW T, T \subseteq Nat, T # {}
  PROVE  Min(T) \in T /\ \A y \in T : Min(T) <= y
<1>1. PICK x \in T : \A y \in T : ~(<<y, x>> \in OpToRel(<, Nat))
  BY NatLessThanWellFounded, WFMin
<1>2. \A y \in T : x <= y
  <2> TAKE y \in T
  <2>1. x \in Nat /\ y \in Nat
    OBVIOUS
  <2>2. y < x => <<y, x>> \in OpToRel(<, Nat)
    BY <2>1, Zenon DEF OpToRel
  <2>3. ~(y < x)
    BY <1>1, <2>2
  <2> QED BY <2>1, <2>3
<1> QED BY <1>2 DEF Min

(* A set of natural numbers that has a bound has a greatest element.       *)
LEMMA MaxOfBounded ==
  ASSUME NEW T, NEW n \in Nat, T \subseteq 0..n, T # {}
  PROVE  Max(T) \in T /\ \A y \in T : y <= Max(T)
<1> DEFINE R == {n - y : y \in T}
<1>1. R \subseteq Nat /\ R # {}
  <2>1. \A y \in T : n - y \in Nat
    OBVIOUS
  <2> QED BY <2>1, Zenon
<1>2. Min(R) \in R /\ \A z \in R : Min(R) <= z
  BY <1>1, MinOfNats
<1>3. PICK x \in T : Min(R) = n - x
  BY <1>2
<1>4. \A y \in T : x >= y
  <2> TAKE y \in T
  <2>1. n - y \in R
    OBVIOUS
  <2>2. n - x <= n - y
    BY <1>2, <1>3, <2>1
  <2> QED BY <2>2
<1> QED BY <1>4 DEF Max

LEMMA MaxOfTwo ==
  ASSUME NEW a \in Nat, NEW b \in Nat
  PROVE  Max({a, b}) \in {a, b} /\ a <= Max({a, b}) /\ b <= Max({a, b})
<1>1. a <= a + b /\ b <= a + b /\ {a, b} \subseteq 0..(a + b)
  OBVIOUS
<1> QED BY <1>1, MaxOfBounded

LEMMA FdsAreNats == Fds \subseteq Nat /\ \A d \in Fds : 3 <= d /\ d <= MaxFd
BY DEF Fds, FirstFd

(* The descriptor that the scan is at is one of those still to do, and the *)
(* descriptor that accept returns is neither a listener nor a client.      *)
LEMMA ScanAt ==
  ASSUME TypeOK, NEW d, ReadsFrom(d) \/ WritesTo(d)
  PROVE  /\ pc = "scan" /\ d \in todo /\ d \in Fds
         /\ ReadsFrom(d) => d \in todo \cap rready
         /\ WritesTo(d) => d \in todo \cap wready /\ d \notin rready
<1>1. todo \subseteq Fds /\ todo # {} /\ d = Min(todo)
  BY DEF TypeOK, ReadsFrom, WritesTo
<1>2. d \in todo
  BY <1>1, FdsAreNats, MinOfNats
<1> QED BY <1>1, <1>2 DEF TypeOK, ReadsFrom, WritesTo

LEMMA NewFd ==
  ASSUME FreeFds # {}
  PROVE  Min(FreeFds) \in Fds /\ Min(FreeFds) \notin Listeners \cup open
<1>1. FreeFds \subseteq Nat
  BY FdsAreNats DEF FreeFds
<1>2. Min(FreeFds) \in FreeFds
  BY <1>1, MinOfNats
<1> QED BY <1>2 DEF FreeFds

LEMMA InitHolds == Init => Inv
<1> SUFFICES ASSUME Init PROVE Inv
  OBVIOUS
<1>1. Max(Listeners) \in Listeners /\ \A l \in Listeners : l <= Max(Listeners)
  <2>1. Listeners \subseteq 0..MaxFd
    BY FdsAreNats
  <2> QED BY <2>1, MaxOfBounded
<1>2. maxfd \in (FirstFd + 1)..(MaxFd + 1) /\ \A d \in Listeners : d < maxfd
  <2>1. maxfd = Max(Listeners) + 1 /\ \A l \in Listeners : l \in Nat /\ 3 <= l /\ l <= MaxFd
    BY FdsAreNats DEF Init
  <2> QED BY <1>1, <2>1 DEF FirstFd
<1>3. TypeOK
  BY <1>2 DEF Init, TypeOK
<1>4. Watches
  BY <1>2 DEF Init, Watches
<1> QED BY <1>3, <1>4 DEF Inv, Init, NeverBlocks

-----------------------------------------------------------------------------
(* The peers only add to what the loop has to do.                          *)
LEMMA PeersKeep ==
  ASSUME Inv, PeerStep
  PROVE  Inv'
<1>0. TypeOK /\ Watches /\ NeverBlocks
  BY DEF Inv
<1>1. ASSUME UNCHANGED server_vars,
             backlog' \in [Listeners -> Nat], input' \in [Fds -> Nat],
             hup' \in [Fds -> BOOLEAN], full' \in [Fds -> BOOLEAN],
             \A d \in Fds : Readable(d) => Readable(d)',
             \A d \in Fds : Writable(d) => Writable(d)'
      PROVE  Inv'
  <2>1. TypeOK'
    BY <1>0, <1>1 DEF TypeOK, server_vars
  <2>2. Watches'
    BY <1>0, <1>1 DEF Watches, server_vars
  <2>3. NeverBlocks'
    BY <1>0, <1>1 DEF NeverBlocks, TypeOK, server_vars
  <2> QED BY <2>1, <2>2, <2>3 DEF Inv
<1>2. ASSUME NEW l \in Listeners, Connect(l) PROVE Inv'
  <2>1. /\ UNCHANGED <<server_vars, input, hup, full>>
        /\ backlog' = [backlog EXCEPT ![l] = backlog[l] + 1]
    BY <1>2 DEF Connect
  <2>2. backlog \in [Listeners -> Nat] /\ input \in [Fds -> Nat]
        /\ hup \in [Fds -> BOOLEAN] /\ full \in [Fds -> BOOLEAN]
    BY <1>0 DEF TypeOK
  <2>3. backlog' \in [Listeners -> Nat] /\ \A k \in Listeners : backlog[k] > 0 => backlog'[k] > 0
    BY <2>1, <2>2
  <2> QED BY <1>1, <2>1, <2>2, <2>3 DEF Readable, Writable
<1>3. ASSUME NEW d \in Fds, PeerSend(d) PROVE Inv'
  <2>1. /\ UNCHANGED <<server_vars, backlog, hup, full>>
        /\ input' = [input EXCEPT ![d] = input[d] + 1]
    BY <1>3 DEF PeerSend
  <2>2. backlog \in [Listeners -> Nat] /\ input \in [Fds -> Nat]
        /\ hup \in [Fds -> BOOLEAN] /\ full \in [Fds -> BOOLEAN]
    BY <1>0 DEF TypeOK
  <2>3. input' \in [Fds -> Nat] /\ \A e \in Fds : input[e] > 0 => input'[e] > 0
    BY <2>1, <2>2
  <2> QED BY <1>1, <2>1, <2>2, <2>3 DEF Readable, Writable
<1>4. ASSUME NEW d \in Fds, PeerClose(d) PROVE Inv'
  <2>1. /\ UNCHANGED <<server_vars, backlog, input, full>>
        /\ hup' = [hup EXCEPT ![d] = TRUE]
    BY <1>4 DEF PeerClose
  <2>2. backlog \in [Listeners -> Nat] /\ input \in [Fds -> Nat]
        /\ hup \in [Fds -> BOOLEAN] /\ full \in [Fds -> BOOLEAN]
    BY <1>0 DEF TypeOK
  <2>3. hup' \in [Fds -> BOOLEAN] /\ \A e \in Fds : hup[e] => hup'[e]
    BY <2>1, <2>2
  <2> QED BY <1>1, <2>1, <2>2, <2>3 DEF Readable, Writable
<1>5. ASSUME NEW d \in Fds, PeerReads(d) PROVE Inv'
  <2>1. /\ UNCHANGED <<server_vars, backlog, input, hup>>
        /\ full' = [full EXCEPT ![d] = FALSE]
    BY <1>5 DEF PeerReads
  <2>2. backlog \in [Listeners -> Nat] /\ input \in [Fds -> Nat]
        /\ hup \in [Fds -> BOOLEAN] /\ full \in [Fds -> BOOLEAN]
    BY <1>0 DEF TypeOK
  <2>3. full' \in [Fds -> BOOLEAN] /\ \A e \in Fds : ~full[e] => ~full'[e]
    BY <2>1, <2>2
  <2> QED BY <1>1, <2>1, <2>2, <2>3 DEF Readable, Writable
<1> QED BY <1>2, <1>3, <1>4, <1>5 DEF PeerStep

(* select reports descriptors that are open, and fails only when a closed  *)
(* one has been left in rfds.                                              *)
LEMMA SelectKeeps ==
  ASSUME Inv, Select
  PROVE  Inv'
<1>0. TypeOK /\ Watches /\ NeverBlocks
  BY DEF Inv
<1>1. /\ UNCHANGED <<rfds, wfds, maxfd, clnts, open, blocking, unsent, fault>>
      /\ UNCHANGED <<backlog, input, hup, full>>
      /\ pc = "select"
  BY DEF Select, net_vars
<1>2. CASE ~(Watched \subseteq Listeners \cup open)
  <2>1. pc' = "ended" /\ UNCHANGED <<rready, wready, todo>>
    BY <1>2 DEF Select
  <2>2. fault
    BY <1>0, <1>2 DEF Watches, Watched, TypeOK
  <2>3. TypeOK'
    BY <1>0, <1>1, <2>1 DEF TypeOK
  <2>4. Watches'
    BY <1>0, <1>1, <2>1, <2>2 DEF Watches
  <2> QED BY <2>1, <2>3, <2>4 DEF Inv, NeverBlocks
<1>3. CASE Watched \subseteq Listeners \cup open
  <2>1. /\ rready' = {d \in rfds \cap Watched : Readable(d)}
        /\ wready' = {d \in wfds \cap Watched : Writable(d)}
        /\ todo' = rready' \cup wready' /\ pc' = "scan"
    BY <1>3 DEF Select
  <2>2. TypeOK'
    BY <1>0, <1>1, <2>1 DEF TypeOK
  <2>3. Watches'
    BY <1>0, <1>1, <2>1 DEF Watches
  <2>4. NeverBlocks'
    <3>1. \A d : (Readable(d)' <=> Readable(d)) /\ (Writable(d)' <=> Writable(d))
      BY <1>1 DEF Readable, Writable
    <3>2. \A d \in rready' : d \in Listeners \cup clnts' /\ Readable(d)
      BY <1>0, <1>1, <1>3, <2>1 DEF TypeOK
    <3>3. \A d \in wready' : d \in clnts' /\ Writable(d)
      BY <1>0, <1>1, <2>1 DEF Watches
    <3> QED BY <3>1, <3>2, <3>3 DEF NeverBlocks
  <2> QED BY <2>2, <2>3, <2>4 DEF Inv
<1> QED BY <1>2, <1>3

(* The second loop of a pass reaches every client, since all are in rfds   *)
(* and below maxfd.                                                        *)
LEMMA EndPassKeeps ==
  ASSUME Inv, EndPass
  PROVE  Inv'
<1>0. TypeOK /\ Watches
  BY DEF Inv
<1> DEFINE scanned == {d \in rfds \cap clnts : d < maxfd}
<1>1. /\ UNCHANGED <<rfds, maxfd, rready, wready, todo, clnts, open, blocking, unsent, fault>>
      /\ UNCHANGED <<backlog, input, hup, full>>
      /\ pc' = "select"
      /\ wfds' = (wfds \ scanned) \cup {d \in scanned : unsent[d] > 0}
  BY DEF EndPass, net_vars
<1>2. scanned = clnts
  BY <1>0 DEF Watches
<1>3. wfds' = {d \in clnts : unsent[d] > 0}
  BY <1>0, <1>1, <1>2 DEF Watches
<1>4. TypeOK'
  BY <1>0, <1>1, <1>3 DEF TypeOK
<1>5. Watches'
  BY <1>0, <1>1, <1>3 DEF Watches
<1> QED BY <1>1, <1>4, <1>5 DEF Inv, NeverBlocks

(* What the accept actions share: the listener is done with, its backlog   *)
(* one shorter, and the others keep what select has found.                 *)
LEMMA TakenKeeps ==
  ASSUME Inv, NEW l \in Listeners, Accepting(l), Taken(l), clnts \subseteq clnts',
         blocking \subseteq blocking'
  PROVE  /\ pc = "scan" /\ pc' = "scan" /\ todo' \subseteq todo
         /\ backlog' \in [Listeners -> Nat]
         /\ UNCHANGED <<wfds, rready, wready, unsent, input, hup, full>>
         /\ NeverBlocks'
<1>0. TypeOK /\ NeverBlocks
  BY DEF Inv
<1>1. pc = "scan" /\ l \in todo \cap rready
  BY <1>0, ScanAt DEF Accepting
<1>2. /\ backlog' = [backlog EXCEPT ![l] = backlog[l] - 1] /\ todo' = todo \ {l}
      /\ UNCHANGED <<pc, wfds, rready, wready, unsent, input, hup, full>>
  BY DEF Taken
<1>3. backlog \in [Listeners -> Nat] /\ backlog[l] > 0
  BY <1>0, <1>1 DEF NeverBlocks, Readable, TypeOK
<1>4. backlog' \in [Listeners -> Nat] /\ \A k \in Listeners : k # l => backlog'[k] = backlog[k]
  BY <1>2, <1>3
<1>5. \A d \in todo' : (Readable(d) => Readable(d)') /\ (Writable(d) => Writable(d)')
  BY <1>2, <1>4 DEF Readable, Writable
<1>6. NeverBlocks'
  BY <1>0, <1>1, <1>2, <1>5 DEF NeverBlocks
<1> QED BY <1>1, <1>2, <1>4, <1>6

(* A new descriptor is watched, a client's or not.                         *)
LEMMA NewWatched ==
  ASSUME TypeOK, Watches, FreeFds # {}, maxfd' = Max({maxfd, Min(FreeFds) + 1}),
         rfds' = rfds \cup {Min(FreeFds)}
  PROVE  /\ maxfd' \in (FirstFd + 1)..(MaxFd + 1)
         /\ \A d \in rfds' : d < maxfd'
         /\ rfds' \subseteq Fds
<1> DEFINE new == Min(FreeFds)
<1>1. new \in Fds /\ new \in Nat /\ 3 <= new /\ new <= MaxFd
  BY NewFd, FdsAreNats
<1>2. maxfd \in Nat /\ maxfd \in (FirstFd + 1)..(MaxFd + 1) /\ rfds \subseteq Fds
  BY DEF TypeOK, FirstFd
<1> HIDE DEF new
<1>3. maxfd' \in {maxfd, new + 1} /\ maxfd <= maxfd' /\ new + 1 <= maxfd'
  <2>1. new + 1 \in Nat
    BY <1>1
  <2> QED BY <1>2, <2>1, MaxOfTwo DEF new
<1>4. \A d \in rfds : d \in Nat /\ d < maxfd
  BY <1>2, FdsAreNats DEF Watches
<1>5. \A d \in rfds \cup {new} : d < maxfd'
  BY <1>1, <1>2, <1>3, <1>4
<1>6. maxfd' \in (FirstFd + 1)..(MaxFd + 1)
  BY <1>1, <1>2, <1>3 DEF FirstFd
<1> QED BY <1>1, <1>2, <1>5, <1>6 DEF new

LEMMA AcceptKeeps ==
  ASSUME Inv, NEW l \in Listeners,
         \/ Accept(l) \/ AcceptFails(l) \/ AcceptNoWebSocket(l) \/ AcceptHangs(l)
         \/ AcceptNotInserted(l)
  PROVE  Inv'
<1>0. TypeOK /\ Watches /\ NeverBlocks
  BY DEF Inv
<1> DEFINE new == Min(FreeFds)
<1>1. CASE Accept(l)
  <2>1. /\ Accepting(l) /\ Taken(l) /\ FreeFds # {} /\ UNCHANGED fault
        /\ open' = open \cup {new} /\ clnts' = clnts \cup {new} /\ rfds' = rfds \cup {new}
        /\ maxfd' = Max({maxfd, new + 1})
        /\ blocking \subseteq blocking' /\ blocking' \subseteq blocking \cup {new}
    BY <1>1 DEF Accept, Accepting
  <2>2. new \in Fds /\ new \notin Listeners \cup open
    BY <2>1, NewFd
  <2>3. /\ maxfd' \in (FirstFd + 1)..(MaxFd + 1) /\ \A d \in rfds' : d < maxfd'
        /\ rfds' \subseteq Fds
    BY <1>0, <2>1, NewWatched
  <2> HIDE DEF new
  <2>4. /\ pc = "scan" /\ pc' = "scan" /\ todo' \subseteq todo
        /\ backlog' \in [Listeners -> Nat]
        /\ UNCHANGED <<wfds, rready, wready, unsent, input, hup, full>>
        /\ NeverBlocks'
    BY <2>1, TakenKeeps
  <2>5. TypeOK'
    BY <1>0, <2>1, <2>2, <2>3, <2>4 DEF TypeOK
  <2>6. Watches'
    BY <1>0, <2>1, <2>2, <2>3, <2>4 DEF Watches
  <2> QED BY <2>4, <2>5, <2>6 DEF Inv
<1>2. CASE AcceptFails(l)
  <2>1. /\ UNCHANGED <<pc, rfds, wfds, maxfd, rready, wready, clnts, open, blocking, unsent, fault>>
        /\ UNCHANGED <<backlog, input, hup, full>> /\ todo' = todo \ {l}
    BY <1>2 DEF AcceptFails, net_vars
  <2>2. TypeOK'
    BY <1>0, <2>1 DEF TypeOK
  <2>3. Watches'
    BY <1>0, <2>1 DEF Watches
  <2>4. NeverBlocks'
    BY <1>0, <2>1 DEF NeverBlocks, Readable, Writable
  <2> QED BY <2>2, <2>3, <2>4 DEF Inv
<1>3. CASE AcceptNoWebSocket(l)
  <2>1. Accepting(l) /\ Taken(l) /\ UNCHANGED <<rfds, maxfd, clnts, open, blocking, fault>>
    BY <1>3 DEF AcceptNoWebSocket
  <2>2. /\ pc = "scan" /\ pc' = "scan" /\ todo' \subseteq todo
        /\ backlog' \in [Listeners -> Nat]
        /\ UNCHANGED <<wfds, rready, wready, unsent, input, hup, full>>
        /\ NeverBlocks'
    BY <2>1, TakenKeeps
  <2>3. TypeOK'
    BY <1>0, <2>1, <2>2 DEF TypeOK
  <2>4. Watches'
    BY <1>0, <2>1, <2>2 DEF Watches
  <2> QED BY <2>2, <2>3, <2>4 DEF Inv
<1>4. CASE AcceptHangs(l)
  <2>1. /\ UNCHANGED <<rfds, wfds, maxfd, rready, wready, todo, clnts, open, blocking, unsent, fault>>
        /\ UNCHANGED <<backlog, input, hup, full>> /\ pc' = "hung"
    BY <1>4 DEF AcceptHangs, net_vars
  <2>2. TypeOK'
    BY <1>0, <2>1 DEF TypeOK
  <2>3. Watches'
    BY <1>0, <2>1 DEF Watches
  <2> QED BY <2>1, <2>2, <2>3 DEF Inv, NeverBlocks
<1>5. CASE AcceptNotInserted(l)
  <2>1. /\ Accepting(l) /\ Taken(l) /\ FreeFds # {} /\ fault' = TRUE
        /\ rfds' = rfds \cup {new} /\ maxfd' = Max({maxfd, new + 1})
        /\ UNCHANGED <<clnts, open, blocking>>
    BY <1>5 DEF AcceptNotInserted, Accepting
  <2>2. /\ maxfd' \in (FirstFd + 1)..(MaxFd + 1) /\ \A d \in rfds' : d < maxfd'
        /\ rfds' \subseteq Fds
    BY <1>0, <2>1, NewWatched
  <2> HIDE DEF new
  <2>3. /\ pc = "scan" /\ pc' = "scan" /\ todo' \subseteq todo
        /\ backlog' \in [Listeners -> Nat]
        /\ UNCHANGED <<wfds, rready, wready, unsent, input, hup, full>>
        /\ NeverBlocks'
    BY <2>1, TakenKeeps
  <2>4. TypeOK'
    BY <1>0, <2>1, <2>2, <2>3 DEF TypeOK
  <2>5. Watches'
    BY <1>0, <2>1, <2>2, <2>3 DEF Watches
  <2> QED BY <2>3, <2>4, <2>5 DEF Inv
<1> QED BY <1>1, <1>2, <1>3, <1>4, <1>5

(* A descriptor that is closed is forgotten everywhere.                    *)
LEMMA CloseKeeps ==
  ASSUME Inv, pc = "scan", NEW d \in clnts, Close(d)
  PROVE  Inv'
<1>0. TypeOK /\ Watches /\ NeverBlocks /\ d \in Fds
  BY DEF Inv, TypeOK
<1>1. /\ UNCHANGED <<pc, maxfd, rready, wready, fault, backlog>>
      /\ clnts' = clnts \ {d} /\ rfds' = rfds \ {d} /\ wfds' = wfds \ {d} /\ open' = open \ {d}
      /\ blocking' = blocking \ {d} /\ todo' = todo \ {d}
      /\ unsent' = [unsent EXCEPT ![d] = 0] /\ input' = [input EXCEPT ![d] = 0]
      /\ hup' = [hup EXCEPT ![d] = FALSE] /\ full' = [full EXCEPT ![d] = FALSE]
  BY DEF Close
<1>2. d \notin Listeners
  BY <1>0 DEF Watches
<1>3. TypeOK'
  BY <1>0, <1>1 DEF TypeOK
<1>4. Watches'
  BY <1>0, <1>1, <1>2 DEF Watches
<1>5. \A e \in todo' : e \in Fds /\ e # d /\ (Readable(e) => Readable(e)') /\ (Writable(e) => Writable(e)')
  BY <1>0, <1>1 DEF Readable, Writable, TypeOK
<1>6. NeverBlocks'
  BY <1>0, <1>1, <1>5 DEF NeverBlocks
<1> QED BY <1>3, <1>4, <1>6 DEF Inv

LEMMA RecvKeeps ==
  ASSUME Inv, NEW d \in Fds, RecvHandles(d)
  PROVE  Inv'
<1>0. TypeOK /\ Watches /\ NeverBlocks
  BY DEF Inv
<1>1. pc = "scan" /\ d \in clnts
  BY DEF RecvHandles, ReadsFrom
<1>2. /\ UNCHANGED <<pc, rfds, wfds, maxfd, wready, clnts, open, blocking, fault, backlog, hup, full>>
      /\ input' = [input EXCEPT ![d] = 0] /\ rready' = rready \ {d}
      /\ todo' = IF d \in wready THEN todo ELSE todo \ {d}
  BY DEF RecvHandles
<1>3. unsent' \in [Fds -> Nat]
  <2>1. PICK S \in SUBSET clnts :
          unsent' = [c \in Fds |-> IF c \in S THEN unsent[c] + 1 ELSE unsent[c]]
    BY DEF RecvHandles
  <2> QED BY <1>0, <2>1 DEF TypeOK
<1>4. TypeOK'
  BY <1>0, <1>2, <1>3 DEF TypeOK
<1>5. Watches'
  BY <1>0, <1>1, <1>2 DEF Watches
<1>6. \A e \in todo' : (e # d /\ Readable(e) => Readable(e)') /\ (Writable(e) => Writable(e)')
  BY <1>0, <1>2 DEF Readable, Writable, TypeOK
<1>7. NeverBlocks'
  BY <1>0, <1>1, <1>2, <1>6 DEF NeverBlocks
<1> QED BY <1>4, <1>5, <1>7 DEF Inv

LEMMA SendsKeeps ==
  ASSUME Inv, NEW d \in Fds, Sends(d)
  PROVE  Inv'
<1>0. TypeOK /\ Watches /\ NeverBlocks
  BY DEF Inv
<1>1. pc = "scan" /\ d \in clnts /\ d \notin rready
  BY DEF Sends, WritesTo
<1>2. /\ UNCHANGED <<pc, rfds, wfds, maxfd, rready, wready, clnts, open, blocking, fault, backlog>>
      /\ UNCHANGED <<input, hup>>
      /\ todo' = IF d \in blocking /\ unsent'[d] > 0 THEN todo ELSE todo \ {d}
  BY DEF Sends
<1>3. unsent' \in [Fds -> Nat] /\ full' \in [Fds -> BOOLEAN] /\ \A e \in Fds : e # d => full'[e] = full[e]
  <2>1. PICK n \in 0..unsent[d], f \in BOOLEAN :
          unsent' = [unsent EXCEPT ![d] = unsent[d] - n] /\ full' = [full EXCEPT ![d] = f]
    BY DEF Sends
  <2>2. unsent \in [Fds -> Nat] /\ full \in [Fds -> BOOLEAN]
    BY <1>0 DEF TypeOK
  <2>3. unsent' \in [Fds -> Nat]
    BY <2>1, <2>2
  <2> QED BY <2>1, <2>2, <2>3
<1>4. TypeOK'
  BY <1>0, <1>2, <1>3 DEF TypeOK
<1>5. Watches'
  BY <1>0, <1>1, <1>2 DEF Watches
<1>6. \A e \in todo' : (Readable(e) => Readable(e)') /\ (e # d /\ Writable(e) => Writable(e)')
  BY <1>0, <1>2, <1>3 DEF Readable, Writable, TypeOK
<1>7. NeverBlocks'
  BY <1>0, <1>1, <1>2, <1>6 DEF NeverBlocks
<1> QED BY <1>4, <1>5, <1>7 DEF Inv

LEMMA LoopReturnsKeeps ==
  ASSUME Inv, NEW d \in Fds, LoopReturns(d)
  PROVE  Inv'
<1>1. /\ UNCHANGED <<rfds, wfds, maxfd, rready, wready, todo, clnts, open, blocking, unsent>>
      /\ UNCHANGED <<backlog, input, hup, full>> /\ pc' = "ended" /\ fault' = TRUE
  BY DEF LoopReturns, net_vars
<1>2. TypeOK' /\ Watches'
  BY <1>1 DEF Inv, TypeOK, Watches
<1> QED BY <1>1, <1>2 DEF Inv, NeverBlocks

LEMMA Inductive == Inv /\ [Next]_vars => Inv'
<1> SUFFICES ASSUME Inv, [Next]_vars PROVE Inv'
  OBVIOUS
<1>1. CASE UNCHANGED vars
  BY <1>1 DEF vars, server_vars, net_vars, Inv, TypeOK, Watches, NeverBlocks, Readable, Writable
<1>2. CASE PeerStep
  BY <1>2, PeersKeep
<1>3. CASE Select \/ EndPass
  BY <1>3, SelectKeeps, EndPassKeeps
<1>4. ASSUME NEW l \in Listeners,
             \/ Accept(l) \/ AcceptFails(l) \/ AcceptNoWebSocket(l) \/ AcceptHangs(l)
             \/ AcceptNotInserted(l)
      PROVE  Inv'
  BY <1>4, AcceptKeeps
<1>5. ASSUME NEW d \in Fds, RecvCloses(d) \/ SendCloses(d) PROVE Inv'
  BY <1>5, CloseKeeps DEF RecvCloses, SendCloses, ReadsFrom, WritesTo
<1>6. ASSUME NEW d \in Fds, LoopReturns(d) \/ RecvHandles(d) \/ Sends(d) PROVE Inv'
  BY <1>6, LoopReturnsKeeps, RecvKeeps, SendsKeeps
<1> QED BY <1>1, <1>2, <1>3, <1>4, <1>5, <1>6 DEF Next, ServerStep

-----------------------------------------------------------------------------
(* Every variable keeps its type, every open descriptor is one of a client *)
(* in the table fd2clnt, and no backlog is counted below zero.             *)
THEOREM TypeCorrect == Spec => []TypeOK
<1>1. Inv => TypeOK
  BY DEF Inv
<1> QED BY <1>1, InitHolds, Inductive, PTL DEF Spec

(* Whenever dime_server_loop sleeps in select it watches every listener,   *)
(* every client, and the output of every client that has some, below the   *)
(* number that select is given.                                            *)
THEOREM AllIsWatched == Spec => []NothingUnwatched
<1>1. Inv => NothingUnwatched
  BY DEF Inv, Watches, NothingUnwatched
<1> QED BY <1>1, InitHolds, Inductive, PTL DEF Spec

(* Whatever is closed and accepted during a pass, dime_server_loop only    *)
(* reads from and writes to connections that this pass's select has found  *)
(* ready, and only accepts where a request waits.                          *)
THEOREM ScanNeverBlocks == Spec => []NeverBlocks
<1>1. Inv => NeverBlocks
  BY DEF Inv
<1> QED BY <1>1, InitHolds, Inductive, PTL DEF Spec

(* dime_server_loop returns only after memory was short or a message was   *)
(* malformed, never for what well-formed peers do.                         *)
THEOREM OnlyFaultsEnd == Spec => []EndsOnlyByFault
<1>1. Inv => EndsOnlyByFault
  BY DEF Inv, Watches, EndsOnlyByFault
<1> QED BY <1>1, InitHolds, Inductive, PTL DEF Spec
=============================================================================
