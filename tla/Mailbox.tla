------------------------------ MODULE Mailbox -------------------------------
(***************************************************************************)
(* What the DiME broker promises its clients, without its data structures: *)
(* clients join named groups, every client owns a mailbox, a send puts one *)
(* copy in the mailbox of each member of a group, a broadcast one in the   *)
(* mailbox of each other client, and a sync takes the oldest letters out.  *)
(* A client may sleep while its mailbox is empty and no longer.            *)
(***************************************************************************)
EXTENDS Integers, Sequences

CONSTANTS Clients, Names, Payloads

VARIABLES
  conn,     \* the connected clients
  member,   \* pairs <<client, group>>
  mailbox,  \* the letters of each client, oldest first
  asleep,   \* clients with an unanswered wait
  handed    \* the letters that the last step handed over to each client

vars == <<conn, member, mailbox, asleep, handed>>

Nothing == [c \in Clients |-> <<>>]

Init ==
  /\ conn = {}
  /\ member = {}
  /\ mailbox = Nothing
  /\ asleep = {}
  /\ handed = Nothing

Connect(c) ==
  /\ c \notin conn
  /\ conn' = conn \cup {c}
  /\ handed' = Nothing
  /\ UNCHANGED <<member, mailbox, asleep>>

Close(c) ==
  /\ c \in conn
  /\ conn' = conn \ {c}
  /\ member' = {cn \in member : cn[1] # c}
  /\ mailbox' = [mailbox EXCEPT ![c] = <<>>]
  /\ asleep' = asleep \ {c}
  /\ handed' = Nothing

Regroup(c) ==
  /\ c \in conn
  /\ \E S \in SUBSET Names :
       member' = {cn \in member : cn[1] # c} \cup ({c} \X S)
  /\ handed' = Nothing
  /\ UNCHANGED <<conn, mailbox, asleep>>

(* The recipients of a send to group n, and of a broadcast by c.           *)
InGroup(n) == {c \in Clients : <<c, n>> \in member}

Publish(c) ==
  /\ c \in conn
  /\ \E R \in {InGroup(n) : n \in Names} \cup {conn \ {c}}, p \in Payloads :
       /\ mailbox' = [d \in Clients |->
                        IF d \in R THEN Append(mailbox[d], p) ELSE mailbox[d]]
       /\ asleep' = asleep \ R
  /\ handed' = Nothing
  /\ UNCHANGED <<conn, member>>

Take(c) ==
  /\ c \in conn
  /\ \E k \in 0..Len(mailbox[c]) :
       /\ handed' = [Nothing EXCEPT ![c] = SubSeq(mailbox[c], 1, k)]
       /\ mailbox' = [mailbox EXCEPT ![c] = SubSeq(@, k + 1, Len(@))]
  /\ UNCHANGED <<conn, member, asleep>>

Sleep(c) ==
  /\ c \in conn
  /\ mailbox[c] = <<>>
  /\ asleep' = asleep \cup {c}
  /\ handed' = Nothing
  /\ UNCHANGED <<conn, member, mailbox>>

(* Handshakes, device lists and rejected commands hand over nothing.       *)
Idle == handed' = Nothing /\ UNCHANGED <<conn, member, mailbox, asleep>>

Next ==
  \/ \E c \in Clients : Connect(c) \/ Close(c) \/ Regroup(c) \/ Publish(c) \/ Take(c) \/ Sleep(c)
  \/ Idle

Spec == Init /\ [][Next]_vars
=============================================================================
