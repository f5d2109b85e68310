------------------------------ MODULE MCDaemon ------------------------------
(* Instances of Daemon for TLC. *)
EXTENDS Daemon

CONSTANTS c1, c2, d1, d2, d3, j1

TwoClients == {c1, c2}
ThreeDaemons == {d1, d2, d3}

Old == [protocol |-> 1, core |-> 1, pre |-> 1, cache |-> 2]
New == [protocol |-> 1, core |-> 1, pre |-> 0, cache |-> 1]
OldAndNew == [c \in Clients |-> IF c = c1 THEN Old ELSE New]
=============================================================================
