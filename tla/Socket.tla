------------------------------- MODULE Socket -------------------------------
(***************************************************************************)
(* server/socket.c: DiME messages over one connection, plain or as         *)
(* WebSocket frames.                                                       *)
(*                                                                         *)
(* The ring buffers are sequences (RingBuffer.tla implements ByteQueue).   *)
(* A sequence's elements are units, coarser than bytes: a DiME header is   *)
(* three of them (magic and two lengths, 12 bytes), a WebSocket header is  *)
(* a lead with the 7-bit length, one or two units of extended length, and  *)
(* a mask when a client sends it (6, 8 or 14 bytes).  A transfer may be    *)
(* cut between any two units.                                              *)
(***************************************************************************)
EXTENDS Integers, Sequences, SequencesExt, FiniteSets

CONSTANTS
  Msgs,       \* messages; each stands for one JSON part and one binary part
  JsonLen,    \* the length of a message's JSON part
  BinLen,     \* the length of its binary part
  LenMod,     \* 2^32: a length in a header is a uint32_t
  Len7,       \* 126: a payload shorter than this needs no extended length
  Len16,      \* 2^16: a payload shorter than this has the short extended one
  Masks,      \* the keys with which a WebSocket client masks its frames
  MaxMsgs,    \* bound: messages sent or pushed in both directions together
  NoMemory    \* may realloc fail in dime_ringbuffer_write?

ASSUME LenAssumption ==
  /\ LenMod \in Nat \ {0}
  /\ JsonLen \in [Msgs -> Nat \ {0}]
  /\ BinLen \in [Msgs -> Nat]
  /\ \A m \in Msgs : 3 + JsonLen[m] + BinLen[m] < LenMod
ASSUME ClassAssumption == Len7 \in Nat /\ Len16 \in Nat /\ Len7 < Len16
ASSUME BoundAssumption == MaxMsgs \in Nat
ASSUME NoMemoryAssumption == NoMemory \in BOOLEAN

VARIABLES
  ws,      \* ws.enabled
  pc,      \* the server's loop: "idle" or "pop"; it ended because a message was
           \* malformed, "failed", or because memory was short, "nomemory"
  ntries,  \* messages sent by the peer and calls of push
  honest,  \* has the peer followed the protocol so far?
  sent,    \* the messages that the peer has sent
  ends,    \* where their bodies end in all that the peer has sent, first 0
  net,     \* their units, on the way to the server
  wsrbuf,  \* ws.rbuf
  rbuf,
  got,     \* the messages that dime_socket_pop has delivered
  pushed,  \* the messages that dime_socket_push has accepted
  torn,    \* has a write of push failed?
  intact,  \* how many messages had been pushed until then
  wbuf,
  line,    \* units on the way to the peer
  recvbuffer,  \* the peer's buffer of payload
  seen,    \* the messages that the peer has read
  peer     \* "ok", or "failed": the peer met something it cannot read

in_vars == <<honest, sent, ends, net, wsrbuf, rbuf, got, pc>>
out_vars == <<pushed, torn, intact, wbuf, line, recvbuffer, seen, peer>>
vars == <<ws, ntries, in_vars, out_vars>>

-----------------------------------------------------------------------------
(* Units.                                                                  *)
Magic == <<"magic", 0>>
Length(n) == <<"length", n % LenMod>>
Json(m) == <<"json", m>>
Bin(m) == <<"bin", m>>
Lead(n) == <<"lead", n>>                \* the mask bit is set
BareLead(n) == <<"bare", n>>            \* it is not
Extended(n) == <<"extended", n>>
Mask(k) == <<"mask", k>>
Masked(k, u) == <<"masked", <<k, u>>>>

Garbage == <<"garbage", 0>>             \* anything else

Header(m) == <<Magic, Length(JsonLen[m]), Length(BinLen[m])>>
JsonPart(m) == [i \in 1..JsonLen[m] |-> Json(m)]
BinPart(m) == [i \in 1..BinLen[m] |-> Bin(m)]
Body(m) == Header(m) \o JsonPart(m) \o BinPart(m)

(* The 7-bit length for a payload of n: the length itself, 126 or 127.     *)
Len7Code(n) == IF n < Len7 THEN n ELSE IF n < Len16 THEN Len7 ELSE Len7 + 1
ExtendedPart(n) ==
  IF n < Len7 THEN <<>>
  ELSE IF n < Len16 THEN <<Extended(n)>>
  ELSE <<Extended(n), Extended(n)>>

(* Mutant: the longest payload of the short form is one too long.          *)
WsHeaderLong(n) ==
  IF n = Len7 THEN <<BareLead(n)>> ELSE <<BareLead(Len7Code(n))>> \o ExtendedPart(n)

WsHeader(n) == <<BareLead(Len7Code(n))>> \o ExtendedPart(n)

(* What a browser makes of a payload p.                                    *)
ClientFrame(k, p) ==
  <<Lead(Len7Code(Len(p)))>> \o ExtendedPart(Len(p)) \o <<Mask(k)>>
    \o [i \in 1..Len(p) |-> Masked(k, p[i])]

Init ==
  /\ ws \in BOOLEAN
  /\ pc = "idle"
  /\ ntries = 0
  /\ honest = TRUE
  /\ sent = <<>> /\ ends = <<0>> /\ net = <<>> /\ wsrbuf = <<>> /\ rbuf = <<>> /\ got = <<>>
  /\ torn = FALSE /\ intact = 0
  /\ pushed = <<>> /\ wbuf = <<>> /\ line = <<>>
  /\ recvbuffer = <<>> /\ seen = <<>>
  /\ peer = "ok"

-----------------------------------------------------------------------------
Running == pc \in {"idle", "pop"}

(* From the peer to the server.                                            *)

(* The peer sends a message.  A WebSocket client may spread it over two    *)
(* frames.                                                                 *)
PeerSend(m) ==
  /\ Running /\ honest /\ ntries < MaxMsgs
  /\ ntries' = ntries + 1
  /\ sent' = Append(sent, m)
  /\ ends' = Append(ends, ends[Len(ends)] + Len(Body(m)))
  /\ \/ ~ws /\ net' = net \o Body(m)
     \/ /\ ws
        /\ \E k \in Masks : net' = net \o ClientFrame(k, Body(m))
     \/ /\ ws
        /\ \E k, l \in Masks, n \in 0..Len(Body(m)) :
             net' = net \o ClientFrame(k, SubSeq(Body(m), 1, n))
                        \o ClientFrame(l, SubSeq(Body(m), n + 1, Len(Body(m))))
  /\ UNCHANGED <<ws, honest, wsrbuf, rbuf, got, pc, out_vars>>

(* A peer that does not: it sends no DiME header, no JSON where the header *)
(* says it is, or a frame that is not masked.                              *)
PeerSendBad ==
  /\ Running /\ honest /\ ntries < MaxMsgs
  /\ ntries' = ntries + 1
  /\ honest' = FALSE
  /\ \E p \in {<<Garbage, Garbage, Garbage>>, <<Magic, Length(1), Length(0), Garbage>>} :
       \/ ~ws /\ net' = net \o p
       \/ ws /\ \E k \in Masks : net' = net \o ClientFrame(k, p)
       \/ ws /\ net' = net \o WsHeader(Len(p)) \o p
  /\ UNCHANGED <<ws, sent, ends, wsrbuf, rbuf, got, pc, out_vars>>

(* Mutant: the bytes always go where a WebSocket's frames are collected.   *)
RecvIntoFrames ==
  \E n \in 1..Len(net) :
    /\ pc = "idle"
    /\ net' = SubSeq(net, n + 1, Len(net))
    /\ pc' = "pop"
    /\ wsrbuf' = wsrbuf \o SubSeq(net, 1, n)
    /\ UNCHANGED <<ws, ntries, honest, sent, ends, rbuf, got, out_vars>>

(* dime_socket_recvpartial takes what has arrived; the loop then pops.     *)
Recv ==
  \E n \in 1..Len(net) :
    /\ pc = "idle"
    /\ net' = SubSeq(net, n + 1, Len(net))
    /\ pc' = "pop"
    /\ IF ws
       THEN wsrbuf' = wsrbuf \o SubSeq(net, 1, n) /\ UNCHANGED rbuf
       ELSE rbuf' = rbuf \o SubSeq(net, 1, n) /\ UNCHANGED wsrbuf
    /\ UNCHANGED <<ws, ntries, honest, sent, ends, got, out_vars>>

(* recvpartial cannot store what it received; the connection is closed.    *)
RecvNoMemory ==
  /\ NoMemory
  /\ pc = "idle" /\ net # <<>>
  /\ pc' = "nomemory"
  /\ UNCHANGED <<ws, ntries, honest, sent, ends, net, wsrbuf, rbuf, got, out_vars>>

(* The frame at the front of b, read from the units that are there.        *)
FrameHeaderLen(b) ==
  IF b[1][2] < Len7 THEN 2 ELSE IF b[1][2] = Len7 THEN 3 ELSE 4
FrameLen(b) == IF b[1][2] < Len7 THEN b[1][2] ELSE b[2][2]
FrameMask(b) == b[FrameHeaderLen(b)][2]

(* Mutant: every header is awaited at its full length.                     *)
HasFrameHeaderFull(b) == Len(b) >= 4

HasFrameHeader(b) == b # <<>> /\ Len(b) >= FrameHeaderLen(b)
HasFrame(b) == HasFrameHeader(b) /\ Len(b) >= FrameHeaderLen(b) + FrameLen(b)

(* frame[i] ^= mask[i & 3]                                                 *)
Unmask(k, u) == IF u[1] = "masked" /\ u[2][1] = k THEN u[2][2] ELSE Garbage
FramePayload(b) == [i \in 1..FrameLen(b) |-> Unmask(FrameMask(b), b[FrameHeaderLen(b) + i])]

(* One turn of the first loop of dime_socket_pop.                          *)
PopFrame ==
  /\ pc = "pop"
  /\ ws /\ HasFrameHeader(wsrbuf)
  /\ \/ /\ wsrbuf[1][1] = "bare"
        /\ pc' = "failed"
        /\ UNCHANGED <<wsrbuf, rbuf>>
     \/ /\ wsrbuf[1][1] # "bare"
        /\ HasFrame(wsrbuf)
        /\ rbuf' = rbuf \o FramePayload(wsrbuf)
        /\ wsrbuf' = SubSeq(wsrbuf, FrameHeaderLen(wsrbuf) + FrameLen(wsrbuf) + 1, Len(wsrbuf))
        /\ UNCHANGED pc
  /\ UNCHANGED <<ws, ntries, honest, sent, ends, net, got, out_vars>>

FramesDone ==
  ws /\ HasFrameHeader(wsrbuf) => wsrbuf[1][1] # "bare" /\ ~HasFrame(wsrbuf)

HasHeader(b) == Len(b) >= 3

(* Mutant: the binary part is left out.                                    *)
MsgSizeJson(b) == (3 + b[2][2]) % LenMod

(* msgsiz of the message at the front of b; sums of uint32_t wrap around.  *)
MsgSize(b) == (3 + b[2][2] + b[3][2]) % LenMod
HasMessage(b) == HasHeader(b) /\ b[1] = Magic /\ Len(b) >= MsgSize(b)
IsMessage(b, m) == SubSeq(b, 1, MsgSize(b)) = Body(m)

(* Mutant: one message for each piece received.                            *)
PopOnce ==
  /\ pc = "pop" /\ FramesDone
  /\ HasMessage(rbuf)
  /\ \E m \in Msgs : IsMessage(rbuf, m) /\ got' = Append(got, m)
  /\ rbuf' = SubSeq(rbuf, MsgSize(rbuf) + 1, Len(rbuf))
  /\ pc' = "idle"
  /\ UNCHANGED <<ws, ntries, honest, sent, ends, net, wsrbuf, out_vars>>

(* dime_socket_pop delivers a message, and the loop calls it again.        *)
Pop ==
  /\ pc = "pop" /\ FramesDone
  /\ HasMessage(rbuf)
  /\ \E m \in Msgs : IsMessage(rbuf, m) /\ got' = Append(got, m)
  /\ rbuf' = SubSeq(rbuf, MsgSize(rbuf) + 1, Len(rbuf))
  /\ UNCHANGED <<ws, ntries, honest, sent, ends, net, wsrbuf, pc, out_vars>>

(* It finds no DiME header, or no JSON where the header says it is, and    *)
(* the loop returns.                                                       *)
PopFails ==
  /\ pc = "pop" /\ FramesDone
  /\ HasHeader(rbuf)
  /\ rbuf[1] # Magic \/ (HasMessage(rbuf) /\ \A m \in Msgs : ~IsMessage(rbuf, m))
  /\ pc' = "failed"
  /\ UNCHANGED <<ws, ntries, honest, sent, ends, net, wsrbuf, rbuf, got, out_vars>>

(* It returns 0.                                                           *)
PopNothing ==
  /\ pc = "pop" /\ FramesDone
  /\ HasHeader(rbuf) => rbuf[1] = Magic /\ ~HasMessage(rbuf)
  /\ pc' = "idle"
  /\ UNCHANGED <<ws, ntries, honest, sent, ends, net, wsrbuf, rbuf, got, out_vars>>

(* pop cannot allocate the message or store the frame, and the loop        *)
(* returns.                                                                *)
PopNoMemory ==
  /\ NoMemory
  /\ pc = "pop"
  /\ (ws /\ HasFrameHeader(wsrbuf)) \/ HasHeader(rbuf)
  /\ pc' = "nomemory"
  /\ UNCHANGED <<ws, ntries, honest, sent, ends, net, wsrbuf, rbuf, got, out_vars>>

-----------------------------------------------------------------------------
(* From the server to the peer.                                            *)

(* A write is all or nothing, and writing nothing needs no memory.         *)
Written(s) == IF NoMemory /\ s # <<>> THEN {s, <<>>} ELSE {s}

(* What a push adds to the outbuffer when no write fails.                  *)
PushedUnits(m) == (IF ws THEN WsHeader(Len(Body(m))) ELSE <<>>) \o Body(m)

(* dime_socket_push_str.  dime_ringbuffer_write returns -1 as an ssize_t.  *)
(* Only the comparison with the constant 12 sees it; the comparisons with  *)
(* ws_len, jsondata_len and bindata_len are between unsigned values.       *)
Push(m) ==
  LET n == Len(Body(m)) IN
  /\ Running /\ ntries < MaxMsgs
  /\ ntries' = ntries + 1
  /\ \E w \in Written(IF ws THEN WsHeader(n) ELSE <<>>), h \in Written(Header(m)) :
       \/ /\ h = <<>>
          /\ wbuf' = wbuf \o w
          /\ torn' = TRUE
          /\ UNCHANGED <<pushed, intact>>
       \/ /\ h # <<>>
          /\ \E j \in Written(JsonPart(m)), b \in Written(BinPart(m)) :
               /\ wbuf' = wbuf \o w \o h \o j \o b
               /\ torn' = (torn \/ wbuf' # wbuf \o PushedUnits(m))
          /\ pushed' = Append(pushed, m)
          /\ intact' = IF torn' THEN intact ELSE intact + 1
  /\ UNCHANGED <<ws, in_vars, line, recvbuffer, seen, peer>>

(* dime_socket_sendpartial: the kernel takes a part of the buffer.         *)
SendPartial ==
  \E n \in 1..Len(wbuf) :
    /\ Running
    /\ line' = line \o SubSeq(wbuf, 1, n)
    /\ wbuf' = SubSeq(wbuf, n + 1, Len(wbuf))
    /\ UNCHANGED <<ws, ntries, in_vars, pushed, torn, intact, recvbuffer, seen, peer>>

(* What the browser makes of a server's frame: its header has no mask.     *)
BareHeaderLen(b) == FrameHeaderLen(b) - 1
HasBareFrame(b) ==
  /\ b # <<>> /\ Len(b) >= BareHeaderLen(b)
  /\ Len(b) >= BareHeaderLen(b) + FrameLen(b)

(* Payload reaches the peer's program: by recv, or as a frame that the     *)
(* browser hands to onmessage.                                             *)
PeerRecv ==
  /\ peer = "ok"
  /\ line # <<>>
  /\ \/ /\ ~ws
        /\ recvbuffer' = recvbuffer \o line
        /\ line' = <<>>
        /\ UNCHANGED peer
     \/ /\ ws /\ line[1][1] = "bare" /\ HasBareFrame(line)
        /\ recvbuffer' = recvbuffer \o
             SubSeq(line, BareHeaderLen(line) + 1, BareHeaderLen(line) + FrameLen(line))
        /\ line' = SubSeq(line, BareHeaderLen(line) + FrameLen(line) + 1, Len(line))
        /\ UNCHANGED peer
     \/ /\ ws /\ line[1][1] # "bare"
        /\ peer' = "failed"
        /\ UNCHANGED <<recvbuffer, line>>
  /\ UNCHANGED <<ws, ntries, in_vars, pushed, torn, intact, wbuf, seen>>

(* The peer takes a message out of its buffer, also after the browser has  *)
(* given up the connection.                                                *)
PeerRead ==
  /\ HasHeader(recvbuffer)
  /\ \/ /\ HasMessage(recvbuffer)
        /\ \E m \in Msgs : IsMessage(recvbuffer, m) /\ seen' = Append(seen, m)
        /\ recvbuffer' = SubSeq(recvbuffer, MsgSize(recvbuffer) + 1, Len(recvbuffer))
        /\ UNCHANGED peer
     \/ /\ \/ recvbuffer[1] # Magic
           \/ HasMessage(recvbuffer) /\ \A m \in Msgs : ~IsMessage(recvbuffer, m)
        /\ peer' = "failed"
        /\ UNCHANGED <<recvbuffer, seen>>
  /\ UNCHANGED <<ws, ntries, in_vars, pushed, torn, intact, wbuf, line>>

Next ==
  \/ \E m \in Msgs : PeerSend(m) \/ Push(m)
  \/ PeerSendBad
  \/ Recv \/ RecvNoMemory
  \/ PopFrame \/ Pop \/ PopFails \/ PopNothing \/ PopNoMemory
  \/ SendPartial \/ PeerRecv \/ PeerRead

Spec == Init /\ [][Next]_vars

(* The loop runs as long as there is input or output, and the peer reads.  *)
Fairness ==
  /\ WF_vars(Recv) /\ WF_vars(PopFrame) /\ WF_vars(Pop) /\ WF_vars(PopNothing)
  /\ WF_vars(SendPartial) /\ WF_vars(PeerRecv) /\ WF_vars(PeerRead)

FairSpec == Spec /\ Fairness

-----------------------------------------------------------------------------
Units ==
  {Magic, Garbage} \cup {Length(n) : n \in 0..(LenMod - 1)}
          \cup {Json(m) : m \in Msgs} \cup {Bin(m) : m \in Msgs}

(* The message buffer holds units of message bodies only, and the frame    *)
(* buffer of a plain connection is unused.                                 *)
TypeOK ==
  /\ {ws, honest, torn} \subseteq BOOLEAN
  /\ {ntries, intact} \subseteq 0..MaxMsgs
  /\ pc \in {"idle", "pop", "failed", "nomemory"}
  /\ peer \in {"ok", "failed"}
  /\ {sent, got, pushed, seen} \subseteq Seq(Msgs)
  /\ rbuf \in Seq(Units)
  /\ ~ws => wsrbuf = <<>>

(* Whatever the cuts, the messages of a peer that follows the protocol are *)
(* popped as they were sent, in order, and pop never takes the stream for  *)
(* a malformed one, which would end the server.                            *)
InOrder ==
  /\ IsPrefix(got, sent)
  /\ honest => pc # "failed"

(* The units of message bodies in s.                                       *)
Payload(s) == Cardinality({i \in DOMAIN s : s[i][1] \in {"magic", "length", "json", "bin", "masked"}})

(* When the loop goes back to select, every message that has been received *)
(* to its last byte has been delivered: a unit of the next message, or     *)
(* more, is still under way beside the messages behind it.  No later event *)
(* would make the server look for what it has already received.            *)
NoneStuck ==
  honest /\ pc = "idle" /\ Len(got) < Len(sent) =>
    Payload(net) > ends[Len(sent) + 1] - ends[Len(got) + 2]

(* The peer reads what was pushed until a write failed, in order and       *)
(* undamaged, and meets nothing unreadable before that.                    *)
IntactUntilTorn ==
  /\ ~torn => peer = "ok" /\ IsPrefix(seen, pushed)
  /\ \A i \in 1..intact : i <= Len(seen) => seen[i] = pushed[i]

(* Every message arrives while the server runs: at the server unless the   *)
(* peer breaks the protocol, and at the peer if it was pushed before a     *)
(* write failed.                                                           *)
AllDelivered ==
  \A n \in 1..MaxMsgs :
    /\ Len(sent) >= n ~> Len(got) >= n \/ ~honest \/ ~Running
    /\ intact >= n ~> Len(seen) >= n \/ ~Running
=============================================================================
