--------------------------- MODULE MCCleanupPlan ---------------------------
(* Instances of CleanupPlan for TLC. *)
EXTENDS CleanupPlan, FiniteSetsExt

CONSTANTS h1, h2, c1, r1, l1, s1

MCKindOf ==
    [f \in File |-> CASE f \in {h1, h2} -> "history-snapshot"
                      [] f = c1 -> "client-log"
                      [] f = r1 -> "rotated-server-log"
                      [] f = l1 -> "latest-snapshot"
                      [] f = s1 -> "active-server-log"]

MCTotalSize(sz, S) == MapThenSumSet(LAMBDA f : sz[f], S)
=============================================================================
