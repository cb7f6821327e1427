-------------------------- MODULE CleanupPlanProofs --------------------------
(***************************************************************************)
(* Proofs about CleanupPlan, for any files, limits, ages, sizes and free   *)
(* space.                                                                  *)
(***************************************************************************)
EXTENDS CleanupPlan, TLAPS

-----------------------------------------------------------------------------
(* The inputs *)

\* A file is managed on the snapshot side or on the log side, never on both.
LEMMA KindsPartition ==
    /\ SnapshotFiles \cup LogFiles = File
    /\ SnapshotFiles \cap LogFiles = {}
    /\ HistoryCandidates \subseteq SnapshotFiles /\ OldLatest \subseteq SnapshotFiles
    /\ LogCandidates \subseteq LogFiles
    /\ HistoryCandidates \cap OldLatest = {}
  BY KindAssumption DEF Kind, SnapshotFiles, LogFiles, OfKind, HistoryCandidates, LogCandidates,
                        OldLatest, Candidates

\* A pass walks deletable files only.
LEMMA QueueInFile == ASSUME NEW p PROVE Queue(p) \subseteq HistoryCandidates \cup LogCandidates \cup OldLatest
  BY DEF Queue

\* minFreeBytes returns numbers whatever paths exist.
LEMMA MinFreeBytesType ==
    ASSUME NEW r \in [Paths -> FreeReadings \cup {Missing}]
    PROVE  MinFreeBytes(r) \in [snapshot : Int, log : Int, split : BOOLEAN]
  <1> DEFINE found == {p \in Paths : r[p] # Missing}
             logFound == found \ {"snapshot"}
             least == CHOOSE n \in {r[p] : p \in logFound} : \A p \in logFound : n <= r[p]
  <1>1. \A p \in found : r[p] \in Int
    BY InputAssumption
  <1>2. logFound # {} => least \in Int
    <2>1. SUFFICES ASSUME logFound # {} PROVE least \in Int
      OBVIOUS
    <2>2. logFound \subseteq {"serverLog", "clientLog"}
      BY DEF Paths
    <2>3. \E n \in {r[p] : p \in logFound} : \A p \in logFound : n <= r[p]
      <3>1. CASE logFound = {"serverLog", "clientLog"}
        <4>1. CASE r["serverLog"] <= r["clientLog"]
          BY <1>1, <3>1, <4>1
        <4>2. CASE r["clientLog"] <= r["serverLog"]
          BY <1>1, <3>1, <4>2
        <4> QED BY <1>1, <3>1, <4>1, <4>2
      <3>2. CASE logFound = {"serverLog"}
        BY <1>1, <3>2
      <3>3. CASE logFound = {"clientLog"}
        BY <1>1, <3>3
      <3> QED BY <2>1, <2>2, <3>1, <3>2, <3>3
    <2>4. least \in {r[p] : p \in logFound}
      BY <2>3
    <2> QED BY <1>1, <2>4
  <1>3. CASE found = {}
    BY <1>3, LimitAssumption DEF MinFreeBytes
  <1>4. CASE found # {}
    <2> DEFINE logFree == IF logFound = {} THEN r["snapshot"] ELSE least
               snapshotFree == IF "snapshot" \in found THEN r["snapshot"] ELSE logFree
    <2>1. logFree \in Int
      BY <1>1, <1>2, <1>4 DEF Paths
    <2>2. snapshotFree \in Int
      BY <1>1, <2>1
    <2>3. MinFreeBytes(r) = [snapshot |-> snapshotFree, log |-> logFree,
                             split |-> snapshotFree # logFree]
      BY <1>4 DEF MinFreeBytes
    <2> HIDE DEF logFree, snapshotFree
    <2> QED BY <2>1, <2>2, <2>3
  <1> QED BY <1>3, <1>4

\* It calls the mounts split exactly when it reports different numbers.
LEMMA SplitTellsApart ==
    ASSUME NEW r
    PROVE  MinFreeBytes(r).split <=> MinFreeBytes(r).snapshot # MinFreeBytes(r).log
  <1> DEFINE found == {p \in Paths : r[p] # Missing}
             logFound == found \ {"snapshot"}
             logFree == IF logFound = {} THEN r["snapshot"]
                        ELSE CHOOSE n \in {r[p] : p \in logFound} : \A p \in logFound : n <= r[p]
             snapshotFree == IF "snapshot" \in found THEN r["snapshot"] ELSE logFree
  <1>1. MinFreeBytes(r) = IF found = {}
                          THEN [snapshot |-> MinFree, log |-> MinFree, split |-> FALSE]
                          ELSE [snapshot |-> snapshotFree, log |-> logFree,
                                split |-> snapshotFree # logFree]
    BY DEF MinFreeBytes
  <1> HIDE DEF found, logFree, snapshotFree
  <1>2. CASE found = {}
    BY <1>1, <1>2
  <1>3. CASE found # {}
    <2>1. MinFreeBytes(r) = [snapshot |-> snapshotFree, log |-> logFree,
                             split |-> snapshotFree # logFree]
      BY <1>1, <1>3
    <2>2. MinFreeBytes(r).snapshot = snapshotFree /\ MinFreeBytes(r).log = logFree
      BY <2>1
    <2>3. MinFreeBytes(r).split <=> snapshotFree # logFree
      <3>1. CASE snapshotFree = logFree
        <4>1. (snapshotFree # logFree) = FALSE
          BY <3>1
        <4>2. MinFreeBytes(r) = [snapshot |-> snapshotFree, log |-> logFree, split |-> FALSE]
          BY <2>1, <4>1
        <4> QED BY <3>1, <4>2
      <3>2. CASE snapshotFree # logFree
        <4>1. (snapshotFree # logFree) = TRUE
          BY <3>2
        <4>2. MinFreeBytes(r) = [snapshot |-> snapshotFree, log |-> logFree, split |-> TRUE]
          BY <2>1, <4>1
        <4> QED BY <3>2, <4>2
      <3> QED BY <3>1, <3>2
    <2> QED BY <2>2, <2>3
  <1> QED BY <1>2, <1>3

-----------------------------------------------------------------------------
(* Types *)

\* The inputs planDiskCleanup is called with, and its first state, have their types.
LEMMA InitTypeOK == Init => TypeOK
  <1> SUFFICES ASSUME Init PROVE TypeOK
    OBVIOUS
  <1>1. initialFree \in [snapshot : Int, log : Int, split : BOOLEAN]
    BY MinFreeBytesType DEF Init
  <1>2. snapshotSize \in Int /\ logSize \in Int
    BY TotalSizeAssumption DEF Init, SnapshotFiles, LogFiles, OfKind
  <1>3. freeByMount \in [{"snapshot", "log"} -> Int]
    BY <1>1 DEF Init
  <1>4. pass \in Passes \cup {"done"}
    BY DEF Init, Passes
  <1> QED BY <1>1, <1>2, <1>3, <1>4 DEF Init, TypeOK, OfKind

\* markDelete on a file of the plan's lists.
LEMMA MarkDeleteTypeOK ==
    ASSUME TypeOK, NEW f \in File, MarkDelete(f)
    PROVE  /\ deleted' \in SUBSET File
           /\ snapshotSize' \in Int /\ snapshotSize' <= snapshotSize
           /\ logSize' \in Int /\ logSize' <= logSize
           /\ freeByMount' \in [{"snapshot", "log"} -> Int]
  <1>1. size[f] \in Nat
    BY InputAssumption DEF TypeOK
  <1>2. Mount(f) \in {"snapshot", "log"}
    BY DEF Mount
  <1> QED BY <1>1, <1>2 DEF TypeOK, MarkDelete

\* Every step of a pass keeps the types.
LEMMA NextTypeOK == TypeOK /\ [Next]_vars => TypeOK'
  <1> SUFFICES ASSUME TypeOK, [Next]_vars PROVE TypeOK'
    OBVIOUS
  <1>1. ASSUME NEW f \in File, Visit(f) PROVE TypeOK'
    <2>1. CASE Wanted(f)
      BY <1>1, <2>1, MarkDeleteTypeOK DEF Visit, TypeOK, inputs
    <2>2. CASE ~Wanted(f)
      BY <1>1, <2>2 DEF Visit, TypeOK, inputs
    <2> QED BY <2>1, <2>2
  <1>2. CASE NextPass
    <2>1. pass' \in Passes \cup {"done"}
      BY <1>2 DEF NextPass, NextPassOf, Passes, EmergencyPasses
    <2>2. overLimit' \in BOOLEAN
      BY <1>2 DEF NextPass, TypeOK
    <2> QED BY <1>2, <2>1, <2>2 DEF NextPass, TypeOK, inputs
  <1>3. CASE UNCHANGED vars
    BY <1>3 DEF TypeOK, vars, inputs
  <1> QED BY <1>1, <1>2, <1>3 DEF Next, Returned

\* Sizes, free space and the plan keep their types in every reachable state,
\* whatever files, ages, sizes and readings the run was given.
THEOREM TypeCorrectness == Spec => []TypeOK
  BY InitTypeOK, NextTypeOK, PTL DEF Spec

-----------------------------------------------------------------------------
(* The running totals are the sums they stand for *)

Accounting ==
    /\ snapshotSize = Remaining(SnapshotFiles)
    /\ logSize = Remaining(LogFiles)
    /\ freeByMount["snapshot"] = initialFree.snapshot + FreedBytes(SnapshotFiles)
    /\ freeByMount["log"] = initialFree.log + FreedBytes(LogFiles)
    /\ FreedBytes(File) = FreedBytes(SnapshotFiles) + FreedBytes(LogFiles)
    /\ FreedBytes(SnapshotFiles) >= 0 /\ FreedBytes(LogFiles) >= 0

\* What one more deleted file takes from what remains ...
LEMMA OneLessRemains ==
    ASSUME NEW sz \in [File -> Sizes], NEW S \in SUBSET File, NEW D \in SUBSET File,
           NEW f \in S \ D
    PROVE  TotalSize(sz, S \ (D \cup {f})) = TotalSize(sz, S \ D) - sz[f]
  <1>1. S \ (D \cup {f}) = (S \ D) \ {f} /\ f \in S \ D /\ S \ D \in SUBSET File
    OBVIOUS
  <1> QED BY <1>1, TotalSizeAssumption

\* ... and adds to what is freed.
LEMMA OneMoreFreed ==
    ASSUME NEW sz \in [File -> Sizes], NEW S \in SUBSET File, NEW D \in SUBSET File,
           NEW f \in S \ D
    PROVE  TotalSize(sz, S \cap (D \cup {f})) = TotalSize(sz, S \cap D) + sz[f]
  <1> DEFINE before == TotalSize(sz, S \cap D)
             after  == TotalSize(sz, S \cap (D \cup {f}))
             n      == sz[f]
  <1>1. (S \cap (D \cup {f})) \ {f} = S \cap D /\ f \in S \cap (D \cup {f})
    OBVIOUS
  <1>2. S \cap (D \cup {f}) \in SUBSET File /\ S \cap D \in SUBSET File
    OBVIOUS
  <1>3. before = after - n
    BY <1>1, <1>2, TotalSizeAssumption
  <1>4. before \in Int /\ after \in Int
    BY <1>2, TotalSizeAssumption
  <1>5. n \in Nat
    <2>1. sz[f] \in Sizes
      OBVIOUS
    <2> QED BY <2>1, InputAssumption
  <1> HIDE DEF before, after, n
  <1>6. after = before + n
    BY <1>3, <1>4, <1>5
  <1> QED BY <1>6 DEF before, after, n

\* A file of the other directory changes neither sum.
LEMMA OtherDirectory ==
    ASSUME NEW S, NEW D, NEW f, f \notin S
    PROVE  S \ (D \cup {f}) = S \ D /\ S \cap (D \cup {f}) = S \cap D
  OBVIOUS

\* markDelete keeps the running totals in step with the set of marked files.
LEMMA MarkDeleteAccounting ==
    ASSUME TypeOK, Accounting, NEW f \in File, MarkDelete(f), UNCHANGED inputs
    PROVE  Accounting'
  <1> USE DEF Remaining, FreedBytes
  <1>1. /\ SnapshotFiles \in SUBSET File /\ LogFiles \in SUBSET File
        /\ SnapshotFiles' = SnapshotFiles /\ LogFiles' = LogFiles
        /\ deleted \in SUBSET File /\ size \in [File -> Sizes]
        /\ deleted' = deleted \cup {f} /\ size' = size /\ initialFree' = initialFree
    BY DEF TypeOK, SnapshotFiles, LogFiles, OfKind, MarkDelete, inputs
  <1>2. CASE f \in deleted
    BY <1>1, <1>2 DEF MarkDelete, Accounting
  <1>3. CASE f \notin deleted
    <2> DEFINE n == size[f]
               freedS == TotalSize(size, SnapshotFiles \cap deleted)
               freedL == TotalSize(size, LogFiles \cap deleted)
               freed  == TotalSize(size, File \cap deleted)
    <2>1. n \in Nat /\ freedS \in Int /\ freedL \in Int /\ freed \in Int
      <3>1. size[f] \in Sizes
        BY <1>1
      <3>2. /\ SnapshotFiles \cap deleted \in SUBSET File
            /\ LogFiles \cap deleted \in SUBSET File
            /\ File \cap deleted \in SUBSET File
        BY <1>1
      <3> QED BY <1>1, <3>1, <3>2, InputAssumption, TotalSizeAssumption
    <2>2. initialFree.snapshot \in Int /\ initialFree.log \in Int
      BY DEF TypeOK
    <2>3. freed' = freed + n
      BY <1>1, <1>3, OneMoreFreed
    <2>4. freeByMount \in [{"snapshot", "log"} -> Int]
      BY DEF TypeOK
    <2>5. /\ freeByMount' = [freeByMount EXCEPT ![Mount(f)] = @ + n]
          /\ snapshotSize' = IF f \in SnapshotFiles THEN snapshotSize - n ELSE snapshotSize
          /\ logSize' = IF f \in LogFiles THEN logSize - n ELSE logSize
      BY <1>3 DEF MarkDelete
    <2>6. /\ freeByMount["snapshot"] = initialFree.snapshot + freedS
          /\ freeByMount["log"] = initialFree.log + freedL
          /\ freed = freedS + freedL /\ freedS >= 0 /\ freedL >= 0
      BY DEF Accounting
    <2>7. CASE f \in SnapshotFiles
      <3>1. f \notin LogFiles /\ Mount(f) = "snapshot"
        BY <2>7, KindsPartition DEF Mount
      <3>2. snapshotSize' = Remaining(SnapshotFiles)'
        BY <1>1, <1>3, <2>5, <2>7, OneLessRemains DEF Accounting
      <3>3. logSize' = Remaining(LogFiles)' /\ freedL' = freedL
        BY <1>1, <2>5, <3>1, OtherDirectory DEF Accounting
      <3>4. freedS' = freedS + n
        BY <1>1, <1>3, <2>7, OneMoreFreed
      <3>5. freeByMount'["snapshot"] = freeByMount["snapshot"] + n
            /\ freeByMount'["log"] = freeByMount["log"]
        BY <2>4, <2>5, <3>1
      <3>6. /\ freeByMount'["snapshot"] = initialFree.snapshot + freedS'
            /\ freeByMount'["log"] = initialFree.log + freedL'
            /\ freed' = freedS' + freedL' /\ freedS' >= 0 /\ freedL' >= 0
        <4> HIDE DEF n, freedS, freedL, freed
        <4> QED BY <2>1, <2>2, <2>3, <2>6, <3>3, <3>4, <3>5
      <3> QED BY <1>1, <3>2, <3>3, <3>6 DEF Accounting
    <2>8. CASE f \in LogFiles
      <3>1. f \notin SnapshotFiles /\ Mount(f) = "log"
        BY <2>8, KindsPartition DEF Mount
      <3>2. logSize' = Remaining(LogFiles)'
        BY <1>1, <1>3, <2>5, <2>8, OneLessRemains DEF Accounting
      <3>3. snapshotSize' = Remaining(SnapshotFiles)' /\ freedS' = freedS
        BY <1>1, <2>5, <3>1, OtherDirectory DEF Accounting
      <3>4. freedL' = freedL + n
        BY <1>1, <1>3, <2>8, OneMoreFreed
      <3>5. freeByMount'["log"] = freeByMount["log"] + n
            /\ freeByMount'["snapshot"] = freeByMount["snapshot"]
        BY <2>4, <2>5, <3>1
      <3>6. /\ freeByMount'["snapshot"] = initialFree.snapshot + freedS'
            /\ freeByMount'["log"] = initialFree.log + freedL'
            /\ freed' = freedS' + freedL' /\ freedS' >= 0 /\ freedL' >= 0
        <4> HIDE DEF n, freedS, freedL, freed
        <4> QED BY <2>1, <2>2, <2>3, <2>6, <3>3, <3>4, <3>5
      <3> QED BY <1>1, <3>2, <3>3, <3>6 DEF Accounting
    <2> QED BY <2>7, <2>8, KindsPartition
  <1> QED BY <1>2, <1>3

-----------------------------------------------------------------------------
(* The greedy passes *)

PassMount == IF pass = "freeLogs" THEN "log" ELSE "snapshot"

\* Whether the pass would take the next file it looks at.
WantsMore ==
    CASE pass = "sizeHistory" -> snapshotSize > MaxSnapshotBytes
      [] pass = "sizeLogs"    -> logSize > MaxLogBytes
      [] pass \in EmergencyPasses -> initialFree.split => PassMount = LimitingMount
      [] OTHER -> TRUE

\* A pass that still wants files has taken all it has looked at.
Greedy == WantsMore => visited \subseteq deleted

\* For the file it looks at, a pass wants it exactly when its kind is still wanted.
LEMMA WantedIsWantsMore ==
    ASSUME NEW f \in Queue(pass), pass \in Passes
    PROVE  /\ Wanted(f) <=> WantsMore
           /\ pass \in EmergencyPasses => Mount(f) = PassMount
  <1>1. pass \in EmergencyPasses => Mount(f) = PassMount
    BY KindsPartition DEF EmergencyPasses, Queue, Mount, PassMount
  <1> QED BY <1>1 DEF Wanted, WantsMore, EmergencyPasses

\* Taking a file never makes a pass want more than before.
LEMMA VisitWantsMore ==
    ASSUME TypeOK, NEW f \in File, Visit(f), WantsMore'
    PROVE  WantsMore
  <1>1. CASE ~Wanted(f)
    BY <1>1 DEF Visit, WantsMore, LimitingMount, PassMount, inputs
  <1>2. CASE Wanted(f)
    BY <1>2, WantedIsWantsMore DEF Visit
  <1> QED BY <1>1, <1>2

\* Looking at one more file keeps the passes greedy.
LEMMA VisitGreedy ==
    ASSUME TypeOK, Greedy, NEW f \in File, Visit(f)
    PROVE  Greedy'
  <1> SUFFICES ASSUME WantsMore' PROVE visited' \subseteq deleted'
    BY DEF Greedy
  <1>1. WantsMore /\ Wanted(f)
    BY VisitWantsMore, WantedIsWantsMore DEF Visit
  <1> QED BY <1>1 DEF Visit, MarkDelete, Greedy

\* Moving on to the next pass keeps the passes greedy.
LEMMA NextPassGreedy == ASSUME NextPass PROVE Greedy'
  BY DEF NextPass, Greedy

-----------------------------------------------------------------------------
(* What the passes already over have achieved *)

\* A disabled policy plans nothing, so whoever is in a pass is enabled.
Enabled == pass \in Passes => policy.enabled

Chosen == deleted \subseteq HistoryCandidates \cup LogCandidates \cup OldLatest

AgedGone ==
    policy.enabled =>
        /\ pass # "agedHistory" => Queue("agedHistory") \subseteq deleted
        /\ pass \notin {"agedHistory", "agedLogs"} => Queue("agedLogs") \subseteq deleted

CapsTried ==
    policy.enabled =>
        /\ (pass \in EmergencyPasses \cup {"sizeLogs", "done"} /\ snapshotSize > MaxSnapshotBytes)
              => HistoryCandidates \subseteq deleted
        /\ (pass \in EmergencyPasses \cup {"done"} /\ logSize > MaxLogBytes)
              => LogCandidates \subseteq deleted

EmergencyTried ==
    ~initialFree.split =>
        /\ pass \in {"freeLogs", "freeLatest"} => HistoryCandidates \subseteq deleted
        /\ pass = "freeLatest" => LogCandidates \subseteq deleted

Verdict ==
    Planned => (overLimit <=> \/ Remaining(SnapshotFiles) > MaxSnapshotBytes
                              \/ Remaining(LogFiles) > MaxLogBytes
                              \/ ~EnoughFree)

\* minFreeBytes says "split" exactly when it returns two different numbers.
SplitMeansDifferent == initialFree.split <=> initialFree.snapshot # initialFree.log

IInv == /\ TypeOK /\ Accounting /\ Greedy
        /\ Enabled /\ Chosen /\ AgedGone /\ CapsTried /\ EmergencyTried
        /\ OldestFirst /\ EmergencyOrder /\ Verdict /\ SplitMeansDifferent

\* The lists a plan works from do not change while it is made.
LEMMA ListsFixed ==
    ASSUME UNCHANGED inputs
    PROVE  /\ HistoryCandidates' = HistoryCandidates /\ LogCandidates' = LogCandidates
           /\ OldLatest' = OldLatest
           /\ SnapshotFiles' = SnapshotFiles /\ LogFiles' = LogFiles
           /\ \A p : Queue(p)' = Queue(p)
  <1>1. /\ HistoryCandidates' = HistoryCandidates /\ LogCandidates' = LogCandidates
        /\ OldLatest' = OldLatest
        /\ SnapshotFiles' = SnapshotFiles /\ LogFiles' = LogFiles
    BY DEF inputs, HistoryCandidates, LogCandidates, OldLatest, Candidates, OfKind,
           SnapshotFiles, LogFiles
  <1> QED BY <1>1 DEF Queue, inputs

\* What a pass that still wants files leaves behind: nothing.
LEMMA PassExhausted ==
    ASSUME Greedy, NextPass, ~Breaks, WantsMore
    PROVE  Queue(pass) \subseteq deleted
  BY DEF Greedy, NextPass

\* A visit in one formula: the file is taken exactly when the pass wants more,
\* and everything of the list that is older has been taken before it.
LEMMA VisitTakes ==
    ASSUME TypeOK, Greedy, NEW f \in File, Visit(f)
    PROVE  /\ UNCHANGED <<inputs, pass, overLimit>>
           /\ f \in Queue(pass)
           /\ deleted' = IF WantsMore THEN deleted \cup {f} ELSE deleted
           /\ WantsMore => \A g \in Queue(pass) : age[g] > age[f] => g \in deleted
           /\ snapshotSize' <= snapshotSize /\ logSize' <= logSize
  <1>1. f \in Queue(pass) /\ pass \in Passes /\ (Wanted(f) <=> WantsMore)
    BY WantedIsWantsMore DEF Visit
  <1>2. ASSUME WantsMore, NEW g \in Queue(pass), age[g] > age[f] PROVE g \in deleted
    <2>1. g \in File /\ age[g] \in Int /\ age[f] \in Int
      <3>1. g \in File
        BY QueueInFile DEF HistoryCandidates, LogCandidates, OldLatest, Candidates
      <3>2. age[g] \in Ages /\ age[f] \in Ages
        BY <3>1 DEF TypeOK
      <3> QED BY <3>1, <3>2, InputAssumption
    <2>2. g \in visited
      BY <1>2, <2>1 DEF Visit
    <2> QED BY <1>2, <2>2 DEF Greedy
  <1>3. snapshotSize' <= snapshotSize /\ logSize' <= logSize
    BY MarkDeleteTypeOK DEF Visit, TypeOK
  <1>4. deleted' = IF WantsMore THEN deleted \cup {f} ELSE deleted
    BY <1>1 DEF Visit, MarkDelete
  <1> QED BY <1>1, <1>2, <1>3, <1>4 DEF Visit

-----------------------------------------------------------------------------
(* Looking at one file *)

\* Looking at a file, marked or skipped, keeps the accounting.
LEMMA VisitAccounting ==
    ASSUME TypeOK, Accounting, NEW f \in File, Visit(f)
    PROVE  Accounting'
  <1>1. CASE Wanted(f)
    BY <1>1, MarkDeleteAccounting DEF Visit
  <1>2. CASE ~Wanted(f)
    BY <1>2 DEF Visit, Accounting, Remaining, FreedBytes, inputs, SnapshotFiles, LogFiles, OfKind
  <1> QED BY <1>1, <1>2

\* Looking at a file undoes nothing that earlier passes have finished.
LEMMA VisitProgress ==
    ASSUME IInv, NEW f \in File, Visit(f)
    PROVE  (Enabled /\ Chosen /\ AgedGone /\ CapsTried /\ EmergencyTried
            /\ Verdict /\ SplitMeansDifferent)'
  <1>1. /\ UNCHANGED <<inputs, pass, overLimit>>
        /\ f \in Queue(pass)
        /\ deleted \subseteq deleted' /\ deleted' \subseteq deleted \cup {f}
        /\ snapshotSize' <= snapshotSize /\ logSize' <= logSize
    BY VisitTakes DEF IInv
  <1>2. pass \in Passes /\ pass # "done"
    BY DEF Visit, Passes, EmergencyPasses
  <1>3. Enabled' /\ SplitMeansDifferent'
    BY <1>1 DEF IInv, Enabled, SplitMeansDifferent, inputs
  <1>4. Chosen'
    BY <1>1, ListsFixed, QueueInFile DEF IInv, Chosen
  <1>5. AgedGone'
    BY <1>1, ListsFixed DEF IInv, AgedGone, inputs
  <1>6. CapsTried'
    <2>1. /\ snapshotSize' > MaxSnapshotBytes => snapshotSize > MaxSnapshotBytes
          /\ logSize' > MaxLogBytes => logSize > MaxLogBytes
      <3>1. /\ snapshotSize \in Int /\ logSize \in Int
            /\ snapshotSize' \in Int /\ logSize' \in Int
        BY NextTypeOK DEF IInv, TypeOK, Next
      <3>2. MaxSnapshotBytes \in Int /\ MaxLogBytes \in Int
        BY LimitAssumption
      <3> QED BY <1>1, <3>1, <3>2
    <2> QED BY <1>1, <2>1, ListsFixed DEF IInv, CapsTried, inputs
  <1>7. EmergencyTried'
    BY <1>1, ListsFixed DEF IInv, EmergencyTried, inputs
  <1>8. Verdict'
    BY <1>1, <1>2 DEF Verdict, Planned
  <1> QED BY <1>3, <1>4, <1>5, <1>6, <1>7, <1>8

\* Looking at a file keeps the marked files of each class its oldest.
LEMMA VisitOldestFirst ==
    ASSUME IInv, NEW f \in File, Visit(f)
    PROVE  OldestFirst'
  <1> DEFINE Classes == {HistoryCandidates, LogCandidates, OldLatest}
  <1>1. /\ UNCHANGED inputs /\ f \in Queue(pass)
        /\ deleted' = IF WantsMore THEN deleted \cup {f} ELSE deleted
        /\ WantsMore => \A g \in Queue(pass) : age[g] > age[f] => g \in deleted
    BY VisitTakes DEF IInv
  <1>2. age' = age /\ Classes' = Classes
    BY <1>1, ListsFixed DEF inputs
  <1>3. SUFFICES ASSUME NEW class \in Classes, NEW d \in class \cap deleted', NEW g \in class,
                        age[g] > age[d]
                 PROVE  g \in deleted'
    BY <1>2 DEF OldestFirst
  <1>4. CASE d \in deleted
    BY <1>1, <1>3, <1>4 DEF IInv, OldestFirst
  <1>5. CASE d \notin deleted
    <2>1. d = f /\ WantsMore
      BY <1>1, <1>3, <1>5
    <2>2. g \in Queue(pass)
      <3>1. /\ f \in HistoryCandidates => class = HistoryCandidates
            /\ f \in LogCandidates => class = LogCandidates
            /\ f \in OldLatest => class = OldLatest
        BY <1>3, <2>1, KindsPartition
      <3>2. CASE pass = "agedHistory"
        <4>1. age[g] \in Int /\ age[f] \in Int /\ MaxHistoryAge \in Int
          <5>1. g \in File
            BY <1>3, KindsPartition DEF SnapshotFiles, LogFiles, OfKind
          <5>2. age[g] \in Ages /\ age[f] \in Ages
            BY <5>1 DEF IInv, TypeOK
          <5> QED BY <5>2, InputAssumption, LimitAssumption
        <4> QED BY <1>1, <1>3, <2>1, <3>1, <3>2, <4>1 DEF Queue
      <3>3. CASE pass = "agedLogs"
        <4>1. age[g] \in Int /\ age[f] \in Int /\ MaxLogAge \in Int
          <5>1. g \in File
            BY <1>3, KindsPartition DEF SnapshotFiles, LogFiles, OfKind
          <5>2. age[g] \in Ages /\ age[f] \in Ages
            BY <5>1 DEF IInv, TypeOK
          <5> QED BY <5>2, InputAssumption, LimitAssumption
        <4> QED BY <1>1, <1>3, <2>1, <3>1, <3>3, <4>1 DEF Queue
      <3>4. CASE pass \notin {"agedHistory", "agedLogs"}
        BY <1>1, <1>3, <3>1, <3>4 DEF Queue
      <3> QED BY <3>2, <3>3, <3>4
    <2> QED BY <1>1, <1>3, <2>1, <2>2
  <1> QED BY <1>4, <1>5

\* On one volume, a latest.snapshot is marked only after all else is.
LEMMA VisitEmergencyOrder ==
    ASSUME IInv, NEW f \in File, Visit(f)
    PROVE  EmergencyOrder'
  <1>1. /\ UNCHANGED inputs /\ f \in Queue(pass)
        /\ deleted' = IF WantsMore THEN deleted \cup {f} ELSE deleted
    BY VisitTakes DEF IInv
  <1>2. SUFFICES ASSUME ~initialFree.split, deleted' \cap OldLatest # {}
                 PROVE  HistoryCandidates \cup LogCandidates \subseteq deleted'
    BY <1>1, ListsFixed DEF EmergencyOrder, inputs
  <1>3. CASE deleted \cap OldLatest # {}
    BY <1>1, <1>2, <1>3 DEF IInv, EmergencyOrder
  <1>4. CASE deleted \cap OldLatest = {}
    <2>1. f \in OldLatest
      BY <1>1, <1>2, <1>4
    <2>2. pass = "freeLatest"
      BY <1>1, <2>1, KindsPartition DEF Queue, Visit, Passes, EmergencyPasses
    <2> QED BY <1>1, <1>2, <2>2 DEF IInv, EmergencyTried
  <1> QED BY <1>3, <1>4

\* Looking at a file keeps the inductive invariant.
LEMMA VisitIInv == ASSUME IInv, NEW f \in File, Visit(f) PROVE IInv'
  BY VisitGreedy, VisitAccounting, VisitProgress, VisitOldestFirst, VisitEmergencyOrder,
     NextTypeOK DEF IInv, Next

-----------------------------------------------------------------------------
(* Going on to the next pass *)

\* Moving on marks nothing, so what only speaks of the plan stays.
LEMMA NextPassFrame ==
    ASSUME NextPass
    PROVE  /\ UNCHANGED inputs /\ deleted' = deleted
           /\ snapshotSize' = snapshotSize /\ logSize' = logSize /\ freeByMount' = freeByMount
           /\ pass \in Passes /\ pass' = IF Breaks THEN "done" ELSE NextPassOf[pass]
           /\ pass' # "agedHistory"
  BY DEF NextPass, NextPassOf, Passes, EmergencyPasses

\* A pass that is left has done what it is there for.
LEMMA NextPassProgress ==
    ASSUME IInv, NextPass
    PROVE  (AgedGone /\ CapsTried /\ EmergencyTried)'
  <1>1. /\ UNCHANGED inputs /\ deleted' = deleted
        /\ snapshotSize' = snapshotSize /\ logSize' = logSize
        /\ pass \in Passes /\ pass' = IF Breaks THEN "done" ELSE NextPassOf[pass]
    BY NextPassFrame
  <1>2. AgedGone'
    <2>1. SUFFICES ASSUME policy.enabled
                   PROVE  /\ pass' # "agedHistory" => Queue("agedHistory") \subseteq deleted
                          /\ pass' \notin {"agedHistory", "agedLogs"} => Queue("agedLogs") \subseteq deleted
      BY <1>1, ListsFixed DEF AgedGone, inputs
    <2>2. CASE pass = "agedHistory"
      <3>1. pass' = "agedLogs" /\ Queue("agedHistory") \subseteq deleted
        BY <1>1, <2>2, PassExhausted DEF IInv, Breaks, EmergencyPasses, NextPassOf, WantsMore
      <3> QED BY <3>1
    <2>3. CASE pass = "agedLogs"
      BY <2>1, <2>3, PassExhausted DEF IInv, AgedGone, Breaks, EmergencyPasses, WantsMore
    <2>4. CASE pass \notin {"agedHistory", "agedLogs"}
      BY <2>1, <2>4 DEF IInv, AgedGone
    <2> QED BY <2>2, <2>3, <2>4
  <1>3. CapsTried'
    <2>1. SUFFICES ASSUME policy.enabled
                   PROVE  /\ (pass' \in EmergencyPasses \cup {"sizeLogs", "done"} /\ snapshotSize > MaxSnapshotBytes)
                                => HistoryCandidates \subseteq deleted
                          /\ (pass' \in EmergencyPasses \cup {"done"} /\ logSize > MaxLogBytes)
                                => LogCandidates \subseteq deleted
      BY <1>1, ListsFixed DEF CapsTried, inputs
    <2>2. CASE pass \in {"agedHistory", "agedLogs"}
      <3>1. pass' \in {"agedLogs", "sizeHistory"}
        BY <1>1, <2>2 DEF Breaks, EmergencyPasses, NextPassOf
      <3> QED BY <3>1 DEF EmergencyPasses
    <2>3. CASE pass = "sizeHistory"
      <3>1. pass' = "sizeLogs" /\ Queue(pass) = HistoryCandidates
        BY <1>1, <2>3 DEF Breaks, EmergencyPasses, NextPassOf, Queue
      <3> QED BY <2>3, <3>1, PassExhausted DEF IInv, Breaks, EmergencyPasses, WantsMore
    <2>4. CASE pass = "sizeLogs"
      <3>1. Queue(pass) = LogCandidates
        BY <2>4 DEF Queue
      <3> QED BY <2>1, <2>4, <3>1, PassExhausted DEF IInv, CapsTried, Breaks, EmergencyPasses, WantsMore
    <2>5. CASE pass \in EmergencyPasses
      BY <2>1, <2>5 DEF IInv, CapsTried
    <2> QED BY <1>1, <2>2, <2>3, <2>4, <2>5 DEF Passes
  <1>4. EmergencyTried'
    <2>1. SUFFICES ASSUME ~initialFree.split
                   PROVE  /\ pass' \in {"freeLogs", "freeLatest"} => HistoryCandidates \subseteq deleted
                          /\ pass' = "freeLatest" => LogCandidates \subseteq deleted
      BY <1>1, ListsFixed DEF EmergencyTried, inputs
    <2>2. CASE pass' \in {"freeLogs", "freeLatest"}
      <3>1. ~Breaks /\ \/ pass = "freeHistory" /\ pass' = "freeLogs"
                       \/ pass = "freeLogs" /\ pass' = "freeLatest"
        BY <1>1, <2>2 DEF NextPassOf, Passes, EmergencyPasses
      <3>2. Queue(pass) \subseteq deleted
        BY <2>1, <3>1, PassExhausted DEF IInv, WantsMore, EmergencyPasses
      <3> QED BY <2>1, <3>1, <3>2 DEF IInv, EmergencyTried, Queue
    <2>3. CASE pass' \notin {"freeLogs", "freeLatest"}
      BY <2>3
    <2> QED BY <2>2, <2>3
  <1> QED BY <1>2, <1>3, <1>4

\* Moving on to the next pass keeps the inductive invariant.
LEMMA NextPassIInv == ASSUME IInv, NextPass PROVE IInv'
  <1>1. /\ UNCHANGED inputs /\ deleted' = deleted
        /\ snapshotSize' = snapshotSize /\ logSize' = logSize /\ freeByMount' = freeByMount
        /\ pass \in Passes
    BY NextPassFrame
  <1>2. TypeOK' /\ Greedy'
    BY NextTypeOK, NextPassGreedy DEF IInv, Next
  <1>3. Accounting'
    BY <1>1, ListsFixed DEF IInv, Accounting, Remaining, FreedBytes, inputs
  <1>4. Enabled' /\ SplitMeansDifferent' /\ Chosen'
    BY <1>1, ListsFixed DEF IInv, Enabled, SplitMeansDifferent, Chosen, inputs
  <1>5. OldestFirst' /\ EmergencyOrder'
    BY <1>1, ListsFixed DEF IInv, OldestFirst, EmergencyOrder, inputs
  <1>6. Verdict'
    <2>1. /\ Remaining(SnapshotFiles)' = Remaining(SnapshotFiles)
          /\ Remaining(LogFiles)' = Remaining(LogFiles)
          /\ EnoughFree' = EnoughFree
      BY <1>1, ListsFixed DEF Remaining, EnoughFree, EffectiveFreeBytes, inputs
    <2> QED BY <2>1 DEF Verdict, Planned, NextPass
  <1> QED BY <1>2, <1>3, <1>4, <1>5, <1>6, NextPassProgress DEF IInv

-----------------------------------------------------------------------------
(* The invariant holds of every plan *)

\* The totals start out as the sums over the scanned files.
LEMMA InitAccounting == ASSUME Init PROVE Accounting
  <1>1. /\ SnapshotFiles \ deleted = SnapshotFiles /\ LogFiles \ deleted = LogFiles
        /\ \A S : S \cap deleted = {}
    BY DEF Init
  <1>2. TotalSize(size, {}) = 0
    BY TotalSizeAssumption DEF Init
  <1>3. /\ initialFree.snapshot \in Int /\ initialFree.log \in Int
    BY InitTypeOK DEF TypeOK
  <1>4. /\ FreedBytes(SnapshotFiles) = 0 /\ FreedBytes(LogFiles) = 0 /\ FreedBytes(File) = 0
    BY <1>1, <1>2 DEF FreedBytes
  <1> QED BY <1>1, <1>3, <1>4 DEF Init, Accounting, Remaining

\* The inductive invariant holds when the first pass begins.
LEMMA InitIInv == Init => IInv
  <1> SUFFICES ASSUME Init PROVE IInv
    OBVIOUS
  <1>1. deleted = {} /\ visited = {}
    BY DEF Init
  <1>2. pass = IF policy.enabled THEN "agedHistory" ELSE "done"
    BY DEF Init
  <1>3. Enabled /\ Chosen /\ AgedGone /\ CapsTried /\ EmergencyTried /\ Verdict
    BY <1>1, <1>2 DEF Enabled, Chosen, AgedGone, CapsTried, EmergencyTried, Verdict, Planned,
                      Passes, EmergencyPasses
  <1>4. OldestFirst /\ EmergencyOrder /\ Greedy
    BY <1>1 DEF OldestFirst, EmergencyOrder, Greedy
  <1>5. SplitMeansDifferent
    <2>1. PICK r \in [Paths -> FreeReadings \cup {Missing}] : initialFree = MinFreeBytes(r)
      BY DEF Init
    <2>2. MinFreeBytes(r).split <=> MinFreeBytes(r).snapshot # MinFreeBytes(r).log
      BY SplitTellsApart
    <2> QED BY <2>1, <2>2 DEF SplitMeansDifferent
  <1> QED BY <1>3, <1>4, <1>5, InitTypeOK, InitAccounting DEF IInv

\* The inductive invariant only reads the variables.
LEMMA StutterIInv == ASSUME IInv, UNCHANGED vars PROVE IInv'
  <1>1. UNCHANGED inputs /\ UNCHANGED <<pass, visited, deleted, snapshotSize, logSize, freeByMount, overLimit>>
    BY DEF vars
  <1>2. /\ Remaining(SnapshotFiles)' = Remaining(SnapshotFiles)
        /\ Remaining(LogFiles)' = Remaining(LogFiles)
        /\ EnoughFree' = EnoughFree
    BY <1>1, ListsFixed DEF Remaining, EnoughFree, EffectiveFreeBytes, inputs
  <1>3. TypeOK' /\ Accounting' /\ Greedy'
    BY <1>1, ListsFixed, NextTypeOK
    DEF IInv, Accounting, Remaining, FreedBytes, Greedy, WantsMore, PassMount, LimitingMount, inputs
  <1>4. (Enabled /\ SplitMeansDifferent /\ Chosen /\ OldestFirst /\ EmergencyOrder)'
    BY <1>1, ListsFixed DEF IInv, Enabled, SplitMeansDifferent, Chosen, OldestFirst, EmergencyOrder, inputs
  <1>5. (AgedGone /\ CapsTried /\ EmergencyTried)'
    BY <1>1, ListsFixed DEF IInv, AgedGone, CapsTried, EmergencyTried, inputs
  <1>6. Verdict'
    BY <1>1, <1>2 DEF IInv, Verdict, Planned, inputs
  <1> QED BY <1>3, <1>4, <1>5, <1>6 DEF IInv

\* Every step keeps the inductive invariant.
LEMMA NextIInv == IInv /\ [Next]_vars => IInv'
  BY VisitIInv, NextPassIInv, StutterIInv DEF Next, Returned

\* The strengthening every result below is drawn from.
THEOREM Invariance == Spec => []IInv
  BY InitIInv, NextIInv, PTL DEF Spec

\* OldestFirst, whatever the layout of volumes: no pass takes a file while it
\* spares an older one of the same class.
THEOREM OldestFirstHolds == Spec => []OldestFirst
  <1>1. IInv => OldestFirst
    BY DEF IInv
  <1> QED BY <1>1, Invariance, PTL

\* EmergencyOrder: on one free-space figure, a latest.snapshot is the last
\* resort.
THEOREM EmergencyOrderHolds == Spec => []EmergencyOrder
  <1>1. IInv => EmergencyOrder
    BY DEF IInv
  <1> QED BY <1>1, Invariance, PTL

\* CapsExhausted: a capacity limit the plan leaves exceeded is exceeded by
\* files it may not delete.
THEOREM CapsExhaustedHolds == Spec => []CapsExhausted
  <1>1. IInv => CapsExhausted
    BY DEF IInv, CapsTried, CapsExhausted, Planned, Accounting
  <1> QED BY <1>1, Invariance, PTL

\* What effectiveFreeBytes calls enough is enough on each volume.
LEMMA EnoughFreeOnVolumes ==
    ASSUME IInv, EnoughFree, shared \/ initialFree.split, NEW m \in {"snapshot", "log"}
    PROVE  FreeOnVolume(m) >= MinFree
  <1> DEFINE s == initialFree.snapshot
             l == initialFree.log
             ds == FreedBytes(SnapshotFiles)
             dl == FreedBytes(LogFiles)
  <1>1. s \in Int /\ l \in Int /\ MinFree \in Int /\ (initialFree.split <=> s # l)
    BY LimitAssumption DEF IInv, TypeOK, SplitMeansDifferent
  <1>2. ds \in Int /\ dl \in Int /\ ds >= 0 /\ dl >= 0
    <2>1. SnapshotFiles \cap deleted \in SUBSET File /\ LogFiles \cap deleted \in SUBSET File
      BY DEF SnapshotFiles, LogFiles, OfKind
    <2>2. size \in [File -> Sizes]
      BY DEF IInv, TypeOK
    <2> QED BY <2>1, <2>2, TotalSizeAssumption DEF IInv, Accounting, FreedBytes
  <1>3. FreedBytes(File) = ds + dl /\ freeByMount.snapshot = s + ds /\ freeByMount.log = l + dl
    BY DEF IInv, Accounting
  <1>4. \/ initialFree.split /\ s + ds >= MinFree /\ l + dl >= MinFree
        \/ ~initialFree.split /\ (s + ds >= MinFree \/ l + dl >= MinFree)
    <2> HIDE DEF s, l, ds, dl
    <2> QED BY <1>1, <1>2, <1>3 DEF EnoughFree, EffectiveFreeBytes
  <1>5. CASE shared
    <2>1. FreeOnVolume(m) = (IF s <= l THEN s ELSE l) + (ds + dl)
      BY <1>3, <1>5 DEF FreeOnVolume
    <2> HIDE DEF s, l, ds, dl
    <2> QED BY <1>1, <1>2, <1>4, <2>1
  <1>6. CASE ~shared
    <2>1. FreeOnVolume(m) = IF m = "snapshot" THEN s + ds ELSE l + dl
      BY <1>6 DEF FreeOnVolume
    <2> HIDE DEF s, l, ds, dl
    <2> QED BY <1>4, <1>6, <2>1
  <1> QED BY <1>5, <1>6

\* AllClearIsTrue: a plan that does not say overLimit does end the shortage.
THEOREM AllClearHolds == Spec => []AllClearIsTrue
  <1>1. IInv => AllClearIsTrue
    <2> SUFFICES ASSUME IInv, Planned, ~overLimit, shared \/ initialFree.split
                 PROVE  /\ Remaining(SnapshotFiles) <= MaxSnapshotBytes
                        /\ Remaining(LogFiles) <= MaxLogBytes
                        /\ \A m \in {"snapshot", "log"} : FreeOnVolume(m) >= MinFree
      BY DEF AllClearIsTrue
    <2>1. EnoughFree /\ ~(Remaining(SnapshotFiles) > MaxSnapshotBytes)
                     /\ ~(Remaining(LogFiles) > MaxLogBytes)
      BY DEF IInv, Verdict
    <2>2. Remaining(SnapshotFiles) \in Int /\ Remaining(LogFiles) \in Int
      BY DEF IInv, TypeOK, Accounting
    <2>3. MaxSnapshotBytes \in Int /\ MaxLogBytes \in Int
      BY LimitAssumption
    <2> QED BY <2>1, <2>2, <2>3, EnoughFreeOnVolumes
  <1> QED BY <1>1, Invariance, PTL

-----------------------------------------------------------------------------
(* What a step may do *)

\* A volume the emergency pass takes a file from is short of space by the sum
\* over the files themselves.
LEMMA EmergencyTakesWhereShort ==
    ASSUME IInv, NEW f \in File, Visit(f), WantsMore, pass \in EmergencyPasses
    PROVE  ShortOfSpace(Mount(f))
  <1> DEFINE fs == freeByMount["snapshot"]
             fl == freeByMount["log"]
  <1>1. fs \in Int /\ fl \in Int /\ MinFree \in Int
    BY LimitAssumption DEF IInv, TypeOK
  <1>2. ~EnoughFree /\ f \in Queue(pass) /\ pass \in Passes
    BY DEF Visit, Breaks
  <1>3. initialFree.split => Mount(f) = LimitingMount
    BY <1>2, WantedIsWantsMore DEF WantsMore, EmergencyPasses
  <1>4. Mount(f) \in {"snapshot", "log"}
    BY DEF Mount
  <1>5. freeByMount[Mount(f)] < MinFree
    BY <1>1, <1>2, <1>3, <1>4 DEF EnoughFree, EffectiveFreeBytes, LimitingMount
  <1>6. freeByMount[Mount(f)] = initialFree[Mount(f)]
            + FreedBytes(IF Mount(f) = "snapshot" THEN SnapshotFiles ELSE LogFiles)
    BY <1>4 DEF IInv, Accounting
  <1> QED BY <1>5, <1>6 DEF ShortOfSpace

\* A file marked by a step had a reason, told from the files themselves.
LEMMA StepJustified ==
    ASSUME IInv, [Next]_vars, NEW f \in deleted' \ deleted
    PROVE  \/ f \in Queue("agedHistory") \cup Queue("agedLogs")
           \/ f \in HistoryCandidates /\ Remaining(SnapshotFiles) > MaxSnapshotBytes
           \/ f \in LogCandidates /\ Remaining(LogFiles) > MaxLogBytes
           \/ ShortOfSpace(Mount(f))
  <1>1. f \in File /\ Visit(f) /\ WantsMore /\ f \in Queue(pass)
    <2>1. PICK g \in File : Visit(g)
      BY DEF Next, NextPass, Returned, vars
    <2>2. g = f /\ WantsMore /\ f \in Queue(pass)
      BY <2>1, VisitTakes DEF IInv
    <2> QED BY <2>1, <2>2
  <1>2. CASE pass \in {"agedHistory", "agedLogs"}
    BY <1>1, <1>2
  <1>3. CASE pass \in {"sizeHistory", "sizeLogs"}
    <2>1. snapshotSize = Remaining(SnapshotFiles) /\ logSize = Remaining(LogFiles)
      BY DEF IInv, Accounting
    <2>2. CASE pass = "sizeHistory"
      <3>1. f \in HistoryCandidates
        BY <1>1, <2>2 DEF Queue
      <3>2. snapshotSize > MaxSnapshotBytes
        BY <1>1, <2>2, LimitAssumption DEF WantsMore, EmergencyPasses, IInv, TypeOK
      <3> QED BY <2>1, <3>1, <3>2
    <2>3. CASE pass = "sizeLogs"
      <3>1. f \in LogCandidates
        BY <1>1, <2>3 DEF Queue
      <3>2. logSize > MaxLogBytes
        BY <1>1, <2>3, LimitAssumption DEF WantsMore, EmergencyPasses, IInv, TypeOK
      <3> QED BY <2>1, <3>1, <3>2
    <2> QED BY <1>3, <2>2, <2>3
  <1>4. CASE pass \in EmergencyPasses
    BY <1>1, <1>4, EmergencyTakesWhereShort
  <1> QED BY <1>1, <1>2, <1>3, <1>4 DEF Visit, Passes

\* DeletionJustified: a file is marked only while a reason to do so holds, by
\* the files themselves.
THEOREM DeletionJustifiedHolds == Spec => DeletionJustified
  <1>1. IInv /\ [Next]_vars =>
            [\A f \in deleted' \ deleted :
                \/ f \in Queue("agedHistory") \cup Queue("agedLogs")
                \/ f \in HistoryCandidates /\ Remaining(SnapshotFiles) > MaxSnapshotBytes
                \/ f \in LogCandidates /\ Remaining(LogFiles) > MaxLogBytes
                \/ ShortOfSpace(Mount(f))]_vars
    BY StepJustified
  <1> QED BY <1>1, Invariance, PTL DEF Spec, DeletionJustified

-----------------------------------------------------------------------------
(* CleanupPlan implements RetentionPlan *)

\* The planner starts where the promise starts.
LEMMA RefinesInit == Init => Contract!Init
  <1> SUFFICES ASSUME Init PROVE Contract!Init
    OBVIOUS
  <1>1. age \in [File -> Int]
    BY InputAssumption DEF Init
  <1> QED BY <1>1 DEF Init, Contract!Init, OfKind

\* Looking at a file marks an erasable file or changes nothing the promise sees.
LEMMA RefinesVisit ==
    ASSUME IInv, NEW f \in File, Visit(f)
    PROVE  [Contract!Next]_(Contract!vars)
  <1>1. /\ UNCHANGED <<inputs, pass, overLimit>>
        /\ f \in Queue(pass)
        /\ deleted' = IF WantsMore THEN deleted \cup {f} ELSE deleted
    BY VisitTakes DEF IInv
  <1>2. CASE WantsMore
    <2>1. pass # "done"
      BY DEF Visit, Passes, EmergencyPasses
    <2>2. Contract!Erasable(f)
      BY <1>1, QueueInFile
      DEF Contract!Erasable, HistoryCandidates, LogCandidates, OldLatest, Candidates, OfKind
    <2>3. Contract!Mark(f)
      BY <1>1, <1>2, <2>1, <2>2 DEF Contract!Mark, inputs
    <2> QED BY <2>3 DEF Contract!Next
  <1>3. CASE ~WantsMore
    BY <1>1, <1>3 DEF Contract!vars, inputs
  <1> QED BY <1>2, <1>3

\* Moving on hands the plan over, or changes nothing the promise sees.
LEMMA RefinesNextPass ==
    ASSUME IInv, NextPass
    PROVE  [Contract!Next]_(Contract!vars)
  <1>1. /\ UNCHANGED inputs /\ deleted' = deleted
        /\ pass \in Passes /\ pass' = IF Breaks THEN "done" ELSE NextPassOf[pass]
    BY NextPassFrame
  <1>2. pass # "done"
    BY <1>1 DEF Passes, EmergencyPasses
  <1>3. CASE pass' = "done"
    <2>1. pass \in EmergencyPasses
      BY <1>1, <1>3 DEF Breaks, NextPassOf, Passes
    <2>2. Queue("agedHistory") \cup Queue("agedLogs") \subseteq deleted
      BY <1>1, <2>1 DEF IInv, Enabled, AgedGone, EmergencyPasses
    <2>3. \A f \in File : Contract!Overdue(f) => f \in deleted
      BY <2>2 DEF Contract!Overdue, Queue, HistoryCandidates, LogCandidates, Candidates, OfKind
    <2>4. Contract!HandOver
      BY <1>1, <1>2, <1>3, <2>3 DEF Contract!HandOver, inputs
    <2> QED BY <2>4 DEF Contract!Next
  <1>4. CASE pass' # "done"
    BY <1>1, <1>2, <1>4 DEF Contract!vars, inputs
  <1> QED BY <1>3, <1>4

\* KeepsContract: the seven passes together are one RetentionPlan.
THEOREM Refinement == Spec => KeepsContract
  <1>1. IInv /\ [Next]_vars => [Contract!Next]_(Contract!vars)
    <2> SUFFICES ASSUME IInv, [Next]_vars PROVE [Contract!Next]_(Contract!vars)
      OBVIOUS
    <2>1. CASE UNCHANGED vars
      BY <2>1 DEF vars, inputs, Contract!vars
    <2> QED BY <2>1, RefinesVisit, RefinesNextPass DEF Next, Returned
  <1> QED BY <1>1, RefinesInit, Invariance, PTL DEF Spec, KeepsContract, Contract!Spec
=============================================================================
