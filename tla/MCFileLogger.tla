---------------------------- MODULE MCFileLogger ----------------------------
(* Instances of FileLogger for TLC. *)
EXTENDS FileLogger

CONSTANTS l1, l2, l3, l4

\* One line is as long as two others.
MCLineBytes == [l \in Line |-> IF l = l2 THEN 2 ELSE 1]
=============================================================================
