--------------------------- MODULE RetentionPlan ---------------------------
(***************************************************************************)
(* What a cleanup plan promises, whatever the order in which its files     *)
(* were found: it only ever grows by files the retention policy lets go,   *)
(* and it is not handed to the deletion loop while a file past its         *)
(* retention age is missing from it.                                       *)
(* CleanupPlan (the planner) refines this specification; SnapshotStore and *)
(* ClientLogs (the files being planned about while requests write them)    *)
(* take it as all they know of a plan.                                     *)
(***************************************************************************)
EXTENDS Integers

CONSTANTS File,           \* the managed files of one scan
          KindOf,         \* [File -> Kind]
          MaxHistoryAge,  \* maxSnapshotHistoryAgeDays
          MaxLogAge,      \* maxLogAgeDays
          LatestAge       \* deleteLatestAfterDays

VARIABLES policy,    \* [enabled, allowDeleteLatestSnapshot : BOOLEAN]
          age,       \* [File -> age at planning time]
          active,    \* client logs some stream was writing when the run began
          marked,    \* the plan
          finished   \* the plan has been handed over

vars == <<policy, age, active, marked, finished>>

\* A file the policy lets the cleaner take at all.
Erasable(f) ==
    /\ f \notin active
    /\ \/ KindOf[f] \in {"history-snapshot", "rotated-server-log", "client-log"}
       \/ /\ KindOf[f] = "latest-snapshot"
          /\ policy.allowDeleteLatestSnapshot
          /\ age[f] > LatestAge

\* A file the policy obliges the cleaner to take.
Overdue(f) ==
    /\ f \notin active
    /\ \/ KindOf[f] = "history-snapshot" /\ age[f] > MaxHistoryAge
       \/ KindOf[f] \in {"rotated-server-log", "client-log"} /\ age[f] > MaxLogAge

Init ==
    /\ policy \in [enabled : BOOLEAN, allowDeleteLatestSnapshot : BOOLEAN]
    /\ age \in [File -> Int]
    /\ active \in SUBSET File
    /\ marked = {}
    /\ finished = ~policy.enabled

Mark(f) ==
    /\ ~finished
    /\ Erasable(f)
    /\ marked' = marked \cup {f}
    /\ UNCHANGED <<policy, age, active, finished>>

HandOver ==
    /\ ~finished
    /\ \A f \in File : Overdue(f) => f \in marked
    /\ finished' = TRUE
    /\ UNCHANGED <<policy, age, active, marked>>

Next == HandOver \/ \E f \in File : Mark(f)

Spec == Init /\ [][Next]_vars
=============================================================================
