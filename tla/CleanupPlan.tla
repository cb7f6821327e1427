---------------------------- MODULE CleanupPlan ----------------------------
(***************************************************************************)
(* planDiskCleanup (src/src/disk-cleaner.ts): the seven passes that choose *)
(* what one cleanup run deletes, one step per file looked at.  A pass is a *)
(* forEach or a for loop over a list sorted oldest first; files of equal   *)
(* age come in readdir order, which is any order.                          *)
(* Ages are in units of the policy's days, sizes and free space in units   *)
(* of its gigabytes; both are numbers the code only compares and adds.     *)
(***************************************************************************)
EXTENDS Integers

CONSTANTS File, KindOf,
          MaxHistoryAge, MaxLogAge, LatestAge,
          MaxSnapshotBytes, MaxLogBytes, MinFree,
          Ages, Sizes, FreeReadings,  \* the inputs a plan is made from
          Missing,                    \* statfs found no such path
          TotalSize(_, _)             \* TotalSize(size, S): sum of size[f] over f \in S

Kind == {"history-snapshot", "latest-snapshot", "active-server-log",
         "rotated-server-log", "client-log"}

ASSUME KindAssumption == KindOf \in [File -> Kind]
ASSUME LimitAssumption ==
    /\ {MaxHistoryAge, MaxLogAge, LatestAge} \subseteq Int
    /\ {MaxSnapshotBytes, MaxLogBytes, MinFree} \subseteq Int
ASSUME InputAssumption == Ages \subseteq Int /\ Sizes \subseteq Nat /\ FreeReadings \subseteq Int
ASSUME MissingAssumption == Missing \notin FreeReadings
\* All that is used of a sum: nothing weighs nothing, and a file its size.
ASSUME TotalSizeAssumption ==
    \A sz \in [File -> Sizes], S \in SUBSET File :
        /\ TotalSize(sz, S) \in Int
        /\ TotalSize(sz, {}) = 0
        /\ \A f \in S : TotalSize(sz, S \ {f}) = TotalSize(sz, S) - sz[f]

VARIABLES policy, age, size, active,
          initialFree,   \* what minFreeBytes returned
          shared,        \* the data and the log directory are on one volume
          pass, visited, deleted,
          snapshotSize, logSize, freeByMount,
          overLimit

inputs == <<policy, age, size, active, initialFree, shared>>
vars == <<inputs, pass, visited, deleted, snapshotSize, logSize, freeByMount, overLimit>>

OfKind(kinds) == {f \in File : KindOf[f] \in kinds}
SnapshotFiles == OfKind({"history-snapshot", "latest-snapshot"})
LogFiles      == OfKind({"active-server-log", "rotated-server-log", "client-log"})

Mount(f) == IF f \in SnapshotFiles THEN "snapshot" ELSE "log"

-----------------------------------------------------------------------------
(* The free space a run plans with *)

Paths == {"snapshot", "serverLog", "clientLog"}

\* Fault: no fallback when the paths do not exist yet.
MinFreeBytesNoFallback(readings) ==
    [snapshot |-> readings["snapshot"], log |-> readings["serverLog"],
     split |-> readings["snapshot"] # readings["serverLog"]]

\* minFreeBytes: readings[p] is what statfs said of path p, or Missing.
MinFreeBytes(readings) ==
    LET found    == {p \in Paths : readings[p] # Missing}
        logFound == found \ {"snapshot"}
        logFree  == IF logFound = {} THEN readings["snapshot"]
                    ELSE CHOOSE n \in {readings[p] : p \in logFound} :
                            \A p \in logFound : n <= readings[p]
        snapshotFree == IF "snapshot" \in found THEN readings["snapshot"] ELSE logFree
    IN IF found = {}
       THEN [snapshot |-> MinFree, log |-> MinFree, split |-> FALSE]
       ELSE [snapshot |-> snapshotFree, log |-> logFree, split |-> snapshotFree # logFree]

\* Fault: the larger mount speaks for both, whether they are one volume or two.
EffectiveFreeBytesLarger(free) ==
    IF free.snapshot >= free.log THEN free.snapshot ELSE free.log

EffectiveFreeBytes(free) ==
    LET larger == IF free.snapshot >= free.log THEN free.snapshot ELSE free.log
        least  == IF free.snapshot <= free.log THEN free.snapshot ELSE free.log
    IN IF initialFree.split THEN least ELSE larger

LimitingMount == IF freeByMount.snapshot <= freeByMount.log THEN "snapshot" ELSE "log"

-----------------------------------------------------------------------------
(* The passes *)

\* Fault: the streams being written are not taken out of the candidates.
CandidatesWithActive == File

Candidates == File \ active
HistoryCandidates == Candidates \cap OfKind({"history-snapshot"})
LogCandidates     == Candidates \cap OfKind({"rotated-server-log", "client-log"})
OldLatest == {f \in Candidates \cap OfKind({"latest-snapshot"}) :
                  policy.allowDeleteLatestSnapshot /\ age[f] > LatestAge}

EmergencyPasses == {"freeHistory", "freeLogs", "freeLatest"}
Passes == EmergencyPasses \cup {"agedHistory", "agedLogs", "sizeHistory", "sizeLogs"}

\* Faults: old latest snapshots tried before the logs; the emergency loop
\* started over until enough is free.
NextPassOfLatestEarly ==
    [agedHistory |-> "agedLogs",   agedLogs    |-> "sizeHistory",
     sizeHistory |-> "sizeLogs",   sizeLogs    |-> "freeHistory",
     freeHistory |-> "freeLatest", freeLatest  |-> "freeLogs",
     freeLogs    |-> "done"]

NextPassOf == [agedHistory |-> "agedLogs",    agedLogs    |-> "sizeHistory",
               sizeHistory |-> "sizeLogs",    sizeLogs    |-> "freeHistory",
               freeHistory |-> "freeLogs",    freeLogs    |-> "freeLatest",
               freeLatest  |-> "done"]

\* The list a pass walks.
Queue(p) ==
    CASE p = "agedHistory" -> {f \in HistoryCandidates : age[f] > MaxHistoryAge}
      [] p = "agedLogs"    -> {f \in LogCandidates : age[f] > MaxLogAge}
      [] p \in {"sizeHistory", "freeHistory"} -> HistoryCandidates
      [] p \in {"sizeLogs", "freeLogs"}       -> LogCandidates
      [] p = "freeLatest"  -> OldLatest
      [] OTHER -> {}

\* Fault: the emergency pass does not ask which mount a file is on.
WantedAnyMount(f) ==
    CASE pass = "sizeHistory" -> snapshotSize > MaxSnapshotBytes
      [] pass = "sizeLogs"    -> logSize > MaxLogBytes
      [] OTHER -> TRUE

\* Whether the pass asks for the file it looks at.
Wanted(f) ==
    CASE pass = "sizeHistory" -> snapshotSize > MaxSnapshotBytes
      [] pass = "sizeLogs"    -> logSize > MaxLogBytes
      [] pass \in EmergencyPasses -> initialFree.split => Mount(f) = LimitingMount
      [] OTHER -> TRUE

\* The emergency loop breaks once enough is free.
EnoughFree == EffectiveFreeBytes(freeByMount) >= MinFree
Breaks == pass \in EmergencyPasses /\ EnoughFree

\* Fault: a file met again by a later pass is counted again.
MarkDeleteTwice(f) ==
    /\ deleted' = deleted \cup {f}
    /\ freeByMount' = [freeByMount EXCEPT ![Mount(f)] = @ + size[f]]
    /\ snapshotSize' = IF f \in SnapshotFiles THEN snapshotSize - size[f] ELSE snapshotSize
    /\ logSize' = IF f \in LogFiles THEN logSize - size[f] ELSE logSize

\* markDelete: a file already marked changes nothing.
MarkDelete(f) ==
    /\ deleted' = deleted \cup {f}
    /\ IF f \in deleted
       THEN UNCHANGED <<snapshotSize, logSize, freeByMount>>
       ELSE /\ freeByMount' = [freeByMount EXCEPT ![Mount(f)] = @ + size[f]]
            /\ snapshotSize' = IF f \in SnapshotFiles THEN snapshotSize - size[f] ELSE snapshotSize
            /\ logSize' = IF f \in LogFiles THEN logSize - size[f] ELSE logSize

\* Fault: the lists are not sorted.
VisitUnsorted(f) ==
    /\ pass \in Passes /\ ~Breaks
    /\ f \in Queue(pass) \ visited
    /\ visited' = visited \cup {f}
    /\ IF Wanted(f) THEN MarkDelete(f)
                    ELSE UNCHANGED <<deleted, snapshotSize, logSize, freeByMount>>
    /\ UNCHANGED <<inputs, pass, overLimit>>

Visit(f) ==
    /\ pass \in Passes /\ ~Breaks
    /\ f \in Queue(pass) \ visited
    /\ \A g \in Queue(pass) \ visited : age[g] <= age[f]
    /\ visited' = visited \cup {f}
    /\ IF Wanted(f) THEN MarkDelete(f)
                    ELSE UNCHANGED <<deleted, snapshotSize, logSize, freeByMount>>
    /\ UNCHANGED <<inputs, pass, overLimit>>

Remaining(S) == TotalSize(size, S \ deleted)

\* The next pass, or the end of planDiskCleanup with its verdict.
NextPass ==
    /\ pass \in Passes
    /\ Breaks \/ Queue(pass) \subseteq visited
    /\ pass' = IF Breaks THEN "done" ELSE NextPassOf[pass]
    /\ visited' = {}
    /\ overLimit' = IF pass' = "done"
                    THEN \/ Remaining(SnapshotFiles) > MaxSnapshotBytes
                         \/ Remaining(LogFiles) > MaxLogBytes
                         \/ ~EnoughFree
                    ELSE overLimit
    /\ UNCHANGED <<inputs, deleted, snapshotSize, logSize, freeByMount>>

\* The function has returned.
Returned == pass = "done" /\ UNCHANGED vars

Init ==
    /\ policy \in [enabled : BOOLEAN, allowDeleteLatestSnapshot : BOOLEAN]
    /\ age \in [File -> Ages]
    /\ size \in [File -> Sizes]
    /\ active \in SUBSET OfKind({"client-log"})
    /\ initialFree \in {MinFreeBytes(r) : r \in [Paths -> FreeReadings \cup {Missing}]}
    /\ shared \in BOOLEAN
    /\ pass = IF policy.enabled THEN "agedHistory" ELSE "done"
    /\ visited = {}
    /\ deleted = {}
    /\ snapshotSize = TotalSize(size, SnapshotFiles)
    /\ logSize = TotalSize(size, LogFiles)
    /\ freeByMount = [snapshot |-> initialFree.snapshot, log |-> initialFree.log]
    /\ overLimit = FALSE

Next == NextPass \/ Returned \/ \E f \in File : Visit(f)

Spec == Init /\ [][Next]_vars

-----------------------------------------------------------------------------
(* Properties *)

TypeOK ==
    /\ policy \in [enabled : BOOLEAN, allowDeleteLatestSnapshot : BOOLEAN]
    /\ age \in [File -> Ages] /\ size \in [File -> Sizes]
    /\ active \in SUBSET File
    /\ initialFree \in [snapshot : Int, log : Int, split : BOOLEAN]
    /\ shared \in BOOLEAN
    /\ pass \in Passes \cup {"done"}
    /\ visited \in SUBSET File /\ deleted \in SUBSET File
    /\ snapshotSize \in Int /\ logSize \in Int
    /\ freeByMount \in [{"snapshot", "log"} -> Int]
    /\ overLimit \in BOOLEAN

Planned == pass = "done" /\ policy.enabled

\* The planner keeps the promises of RetentionPlan: nothing protected, active
\* or too young a latest.snapshot is ever marked, and every file past its
\* retention age is marked by the time planDiskCleanup returns.
Contract == INSTANCE RetentionPlan WITH marked <- deleted, finished <- (pass = "done")
KeepsContract == Contract!Spec

\* The size passes give up on a capacity limit only when nothing deletable of
\* that kind is left: what the protected files weigh is then the excess.
CapsExhausted ==
    Planned =>
        /\ Remaining(SnapshotFiles) > MaxSnapshotBytes => HistoryCandidates \subseteq deleted
        /\ Remaining(LogFiles) > MaxLogBytes => LogCandidates \subseteq deleted

\* The documented order of the low-space pass (src/README.md:173), where data
\* and logs report one free-space figure: a latest.snapshot is given up only
\* when no history snapshot and no deletable log is left.
EmergencyOrder ==
    (~initialFree.split /\ deleted \cap OldLatest # {}) =>
        HistoryCandidates \cup LogCandidates \subseteq deleted

\* Whichever passes chose them, the deleted files of a class are its oldest:
\* the emergency loop that skips files of the healthy mount never comes back
\* for a younger one.
OldestFirst ==
    \A class \in {HistoryCandidates, LogCandidates, OldLatest} :
        \A f \in class \cap deleted, g \in class :
            age[g] > age[f] => g \in deleted

\* Free space on the volume of mount m once the plan has been carried out.
FreedBytes(S) == TotalSize(size, S \cap deleted)
FreeOnVolume(m) ==
    IF shared
    THEN (IF initialFree.snapshot <= initialFree.log
          THEN initialFree.snapshot ELSE initialFree.log) + FreedBytes(File)
    ELSE initialFree[m] + FreedBytes(IF m = "snapshot" THEN SnapshotFiles ELSE LogFiles)

\* No false all-clear: when the plan says overLimit = false, carrying it out
\* leaves both directories under their caps and minFreeGB free on each volume.
\* (Two separate volumes that report the same number of free bytes are taken
\* for one by minFreeBytes, and are left out here.)
AllClearIsTrue ==
    (Planned /\ ~overLimit /\ (shared \/ initialFree.split)) =>
        /\ Remaining(SnapshotFiles) <= MaxSnapshotBytes
        /\ Remaining(LogFiles) <= MaxLogBytes
        /\ \A m \in {"snapshot", "log"} : FreeOnVolume(m) >= MinFree

\* Every file marked has a reason that holds at that moment, told from the
\* files themselves and not from the planner's running totals: it is too old,
\* its directory is over its cap, or its own mount is short of free space.
ShortOfSpace(m) ==
    initialFree[m] + FreedBytes(IF m = "snapshot" THEN SnapshotFiles ELSE LogFiles) < MinFree
DeletionJustified ==
    [][\A f \in deleted' \ deleted :
          \/ f \in Queue("agedHistory") \cup Queue("agedLogs")
          \/ f \in HistoryCandidates /\ Remaining(SnapshotFiles) > MaxSnapshotBytes
          \/ f \in LogCandidates /\ Remaining(LogFiles) > MaxLogBytes
          \/ ShortOfSpace(Mount(f))]_vars
=============================================================================
