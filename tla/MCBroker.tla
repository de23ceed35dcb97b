------------------------------ MODULE MCBroker ------------------------------
(* Instances of Broker.tla for TLC. *)
EXTENDS Broker, TLC

CONSTANTS c1, c2, c3, g1, m1, m2, m3, p1, p2

(* Up to two names: joining the same name twice, joining a name that is    *)
(* already joined after a new one, and an element that is no string.       *)
NameListsMC ==
  {<<>>} \cup {<<n>> : n \in Names} \cup {<<n, k>> : n \in Names, k \in Names \cup {NotAString}}

SyncLimitsMC == {-1, 0, 1}

(* Clients, groups, addresses and contents are never told apart.           *)
Symmetry ==
  Permutations(Fds) \cup Permutations(Names) \cup Permutations(Msgs) \cup Permutations(Payloads)
=============================================================================
