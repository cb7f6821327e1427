-------------------------- MODULE MCSnapshotStore --------------------------
(* Instances of SnapshotStore for TLC. *)
EXTENDS SnapshotStore, TLC

CONSTANTS roomA, roomB, u1, u2, u3

\* Two uploads of one room, the second the longer; a third has a room of its own.
MCRoomOf == [u \in Upload |-> IF u = u3 THEN roomB ELSE roomA]
MCLength == [u \in Upload |-> IF u = u2 THEN 2 ELSE 1]
=============================================================================
