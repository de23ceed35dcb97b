----------------------------- MODULE MCSession ------------------------------
(* Instances of Session.tla for TLC. *)
EXTENDS Session, TLC

CONSTANTS c1, c2, c3, g1, m1, m2, m3, m4, m5, m6

SyncLimitsMC == {-1, 1}
NameListsMC == {}

FirstIs(k, l) == [c \in Fds |-> IF c = c1 THEN k ELSE l]

(* A Python client that asks for JSON, which everyone then uses, and one   *)
(* that does not, with a client of each other kind.                        *)
StepWorlds == {FirstIs("json", "matlab"), FirstIs("javascript", "pickle")}

(* A Python sender with a Matlab receiver, the other way round, and a      *)
(* Python sender with a JavaScript receiver.                               *)
LiveWorlds == {FirstIs("pickle", "matlab"), FirstIs("matlab", "pickle"),
               FirstIs("pickle", "javascript")}

(* One client of each kind.                                                *)
ThreeKinds ==
  {[c \in Fds |-> IF c = c1 THEN "javascript" ELSE IF c = c2 THEN "pickle" ELSE "matlab"]}

(* Any call; the first client makes no use of leave and devices, which are *)
(* answered like join.                                                     *)
Anything ==
  [c \in Fds |-> {"join", "wait", "sync", "send", "broadcast"}
                    \cup (IF c = c1 THEN {} ELSE {"leave", "devices"})]

(* The first client sends, the others listen.                              *)
SenderAndSleepers ==
  [c \in Fds |-> IF c = c1 THEN {"send"} ELSE {"join", "sync", "wait"}]

SendAndWait == [c \in Fds |-> {"send", "wait"}]

HeapSymmetry == Permutations(Msgs)
=============================================================================
