---------------------------- MODULE MCClientLogs ----------------------------
(* Instances of ClientLogs for TLC. *)
EXTENDS ClientLogs

CONSTANTS roomA, roomB, l1, l2, l3

\* Two lines are of the same room.
MCLineRoom == [l \in Line |-> IF l = l3 THEN roomB ELSE roomA]
=============================================================================
