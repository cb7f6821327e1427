-------------------------- MODULE DiskCleanerProofs --------------------------
(***************************************************************************)
(* Proofs about DiskCleaner, for any sets of runs and callers and any      *)
(* intervals.  The inductive invariant adds to the three checked ones what *)
(* links a run's phase to its outcome and to the status fields: without it *)
(* nothing says that the run whose error is shown is the one that failed.  *)
(***************************************************************************)
EXTENDS DiskCleaner, TLAPS

\* The run in progress gave the status page its reason, and its phase tells
\* what the page already shows of it.
RunInProgress ==
    \A r \in Run :
        /\ startedAt[r] <= clock
        /\ phase[r] # "settled" => reasonOf[r] = lastReason /\ LastStarted(r)
        /\ phase[r] \in BodyPhases \cup {"rejected", "caught"} => lastRunAt <= startedAt[r]
        /\ phase[r] \in BodyPhases => r \notin {lastResult, lastError}
        /\ phase[r] \in {"rejected", "caught"} => outcome[r] = "failed" /\ r # lastResult
        /\ phase[r] = "rejected" => r # lastError
        /\ phase[r] = "caught" => lastError = r
        /\ phase[r] = "returned" => lastResult = r /\ lastError = None

\* What the status page shows is the end of the runs it names.
ShownRuns ==
    /\ lastRunAt <= clock
    /\ lastError # None => outcome[lastError] = "failed"
    /\ lastResult # None =>
           /\ outcome[lastResult] \in {"withinLimits", "overLimit"}
           /\ startedAt[lastResult] <= lastRunAt
           /\ lastRunAt # 0

IInv == TypeOK /\ clock >= 1 /\ SingleFlight /\ RunInProgress /\ ShownRuns /\ StatusTellsLastRun

\* Which run was started last only changes when one is started.
LEMMA StartedFrame ==
    ASSUME UNCHANGED startedAt, NEW r PROVE LastStarted(r)' <=> LastStarted(r)
  BY DEF LastStarted

\* What is said between two runs is not disturbed by what changes none of it.
LEMMA StatusFrame ==
    ASSUME StatusTellsLastRun, UNCHANGED <<running, status, reasonOf, startedAt, outcome>>
    PROVE  StatusTellsLastRun'
  BY StartedFrame DEF StatusTellsLastRun, status

\* Nor does what is said of the run in progress move with time or callers.
LEMMA RunFrame ==
    ASSUME RunInProgress, clock' >= clock, clock \in Nat, clock' \in Nat, startedAt \in [Run -> Nat],
           UNCHANGED <<status, phase, reasonOf, startedAt, outcome>>
    PROVE  RunInProgress'
  <1> SUFFICES ASSUME NEW r \in Run
               PROVE  /\ startedAt'[r] <= clock'
                      /\ phase'[r] # "settled" => reasonOf'[r] = lastReason' /\ LastStarted(r)'
                      /\ phase'[r] \in BodyPhases \cup {"rejected", "caught"} => lastRunAt' <= startedAt'[r]
                      /\ phase'[r] \in BodyPhases => r \notin {lastResult', lastError'}
                      /\ phase'[r] \in {"rejected", "caught"} => outcome'[r] = "failed" /\ r # lastResult'
                      /\ phase'[r] = "rejected" => r # lastError'
                      /\ phase'[r] = "caught" => lastError' = r
                      /\ phase'[r] = "returned" => lastResult' = r /\ lastError' = None
    BY DEF RunInProgress
  <1>1. startedAt'[r] <= clock'
    BY DEF RunInProgress
  <1> QED BY <1>1, StartedFrame DEF RunInProgress, status

\* The inductive invariant holds of a freshly constructed DiskCleaner.
LEMMA InitIInv == Init => IInv
  <1> SUFFICES ASSUME Init PROVE IInv
    OBVIOUS
  <1> USE ConstantAssumption DEF Init
  <1>1. TypeOK
    BY DEF TypeOK, Phases
  <1>2. clock >= 1
    OBVIOUS
  <1>3. SingleFlight
    BY DEF SingleFlight
  <1>4. RunInProgress
    <2>1. ASSUME NEW r \in Run
          PROVE  phase[r] = "settled" /\ startedAt[r] <= clock
      OBVIOUS
    <2> QED BY ONLY <2>1 DEF RunInProgress, BodyPhases
  <1>5. ShownRuns /\ StatusTellsLastRun
    BY DEF ShownRuns, StatusTellsLastRun
  <1> QED BY <1>1, <1>2, <1>3, <1>4, <1>5 DEF IInv

\* Starting a run from an empty slot, whatever the reason.
LEMMA StartRunIInv ==
    ASSUME IInv, NEW r \in Run, NEW reason \in Reasons, currentRun = None,
           StartRun(r, reason), UNCHANGED clock, nextFire' \in Nat,
           awaiting' \in [Caller -> Run \cup {None}]
    PROVE  IInv'
  <1> USE ConstantAssumption DEF IInv, StartRun, Unreferenced
  <1>1. TypeOK'
    BY DEF TypeOK, Phases, BodyPhases
  <1>2. SingleFlight'
    BY DEF TypeOK, SingleFlight
  <1>3. RunInProgress'
    <2>1. \A q \in Run \ {r} : phase'[q] = "settled" /\ startedAt'[q] = startedAt[q]
      BY DEF TypeOK, SingleFlight
    <2>2. phase'[r] = "measuring" /\ startedAt'[r] = clock /\ reasonOf'[r] = lastReason' /\ clock' = clock
      BY DEF TypeOK
    <2>3. \A q \in Run : startedAt'[q] <= clock
      BY <2>1, <2>2 DEF TypeOK, RunInProgress
    <2>4. LastStarted(r)' /\ lastRunAt' <= startedAt'[r]
      BY <2>2, <2>3 DEF LastStarted, ShownRuns
    <2> QED BY <2>1, <2>2, <2>3, <2>4 DEF RunInProgress, BodyPhases
  <1>4. ShownRuns'
    BY DEF TypeOK, ShownRuns
  <1>5. StatusTellsLastRun'
    BY DEF StatusTellsLastRun
  <1> QED BY <1>1, <1>2, <1>3, <1>4, <1>5

-----------------------------------------------------------------------------
\* One step of each action.

\* requestRun after a write keeps it.
LEMMA WriteTriggerIInv ==
    ASSUME IInv, NEW reason \in WriteReasons, WriteTrigger(reason)
    PROVE  IInv'
  BY StartRunIInv DEF WriteTrigger, MayRequest, IInv, TypeOK, SingleFlight, Reasons

\* POST /admin/disk/cleanup that starts a run keeps it.
LEMMA ManualStartIInv ==
    ASSUME IInv, NEW c \in Caller, ManualStart(c)
    PROVE  IInv'
  BY StartRunIInv DEF ManualStart, IInv, TypeOK, Reasons

\* The interval timer keeps it.
LEMMA TimerFiresIInv ==
    ASSUME IInv, TimerFires
    PROVE  IInv'
  <1>1. nextFire' \in Nat
    BY ConstantAssumption DEF IInv, TypeOK, TimerFires, Period
  <1>2. CASE MayRequest
    BY <1>1, <1>2, StartRunIInv DEF TimerFires, MayRequest, IInv, TypeOK, SingleFlight, Reasons
  <1>3. CASE ~MayRequest
    <2>1. /\ UNCHANGED <<clock, running, currentRun, status, phase, reasonOf, startedAt, outcome, awaiting>>
      BY <1>3 DEF TimerFires
    <2>2. TypeOK' /\ SingleFlight' /\ ShownRuns' /\ clock' >= 1
      BY <1>1, <2>1 DEF IInv, TypeOK, SingleFlight, ShownRuns, status
    <2> QED BY <2>1, <2>2, StatusFrame, RunFrame DEF IInv, TypeOK
  <1> QED BY <1>2, <1>3

\* Time, and callers that join a run or leave, keep it.
LEMMA EnvironmentIInv ==
    ASSUME IInv, Tick \/ Start \/ \E c \in Caller : ManualJoin(c) \/ Answer(c)
    PROVE  IInv'
  <1>1. clock' \in Nat /\ clock' >= clock /\ nextFire' \in Nat
    BY ConstantAssumption DEF IInv, TypeOK, Tick, Start, ManualJoin, Answer, Period
  <1>2. awaiting' \in [Caller -> Run \cup {None}]
    BY DEF IInv, TypeOK, Tick, Start, ManualJoin, Answer
  <1>3. UNCHANGED <<running, currentRun, status, phase, reasonOf, startedAt, outcome>>
    BY DEF Tick, Start, ManualJoin, Answer
  <1>4. TypeOK' /\ SingleFlight' /\ ShownRuns' /\ clock' >= 1
    BY <1>1, <1>2, <1>3 DEF IInv, TypeOK, SingleFlight, ShownRuns, status
  <1> QED BY <1>1, <1>3, <1>4, StatusFrame, RunFrame DEF IInv, TypeOK

\* The steps of a run's body: the run is the one in the slot.
LEMMA RunStepIInv ==
    ASSUME IInv, NEW r \in Run, RunStep(r)
    PROVE  IInv'
  <1> USE ConstantAssumption DEF IInv, Goto, BodyUnchanged
  <1>0. phase[r] # "settled" /\ currentRun = r /\ running
    BY DEF SingleFlight, RunStep, Advance, Throw, Finish, Catch, Settle
  <1>9. \A q \in Run : q # r => phase[q] = "settled"
    BY <1>0 DEF SingleFlight
  <1>10. UNCHANGED startedAt => \A q : LastStarted(q)' <=> LastStarted(q)
    BY StartedFrame
  <1>1. CASE Advance(r)
    <2>1. TypeOK' /\ SingleFlight' /\ ShownRuns' /\ clock' >= 1
      BY <1>0, <1>1 DEF Advance, TypeOK, SingleFlight, ShownRuns, Phases, BodyPhases, status
    <2>2. RunInProgress'
      BY <1>0, <1>1, <1>9, <1>10 DEF Advance, TypeOK, RunInProgress, BodyPhases, status
    <2>3. StatusTellsLastRun'
      BY <1>0, <1>1 DEF Advance, StatusTellsLastRun
    <2> QED BY <2>1, <2>2, <2>3
  <1>2. CASE Throw(r)
    <2>1. TypeOK' /\ SingleFlight' /\ clock' >= 1
      BY <1>0, <1>2 DEF Throw, TypeOK, SingleFlight, Phases, BodyPhases, status
    <2>2. RunInProgress'
      BY <1>0, <1>2, <1>9, <1>10 DEF Throw, TypeOK, RunInProgress, BodyPhases, status
    <2>3. StatusTellsLastRun'
      BY <1>0, <1>2 DEF Throw, StatusTellsLastRun
    <2>4. r \notin {lastResult, lastError}
      BY <1>2 DEF Throw, RunInProgress, BodyPhases
    <2>5. ShownRuns'
      BY <1>2, <2>4 DEF Throw, TypeOK, ShownRuns, status
    <2> QED BY <2>1, <2>2, <2>3, <2>5
  <1>3. CASE Finish(r)
    <2>1. TypeOK'
      BY <1>3 DEF Finish, TypeOK, Phases
    <2>2. SingleFlight'
      BY <1>0, <1>3 DEF Finish, TypeOK, SingleFlight
    <2>3. RunInProgress'
      BY <1>0, <1>3, <1>9, <1>10 DEF Finish, TypeOK, RunInProgress, BodyPhases
    <2>4. clock \in Nat /\ clock >= 1 /\ startedAt[r] <= clock
      BY DEF TypeOK, RunInProgress
    <2>5. ShownRuns'
      BY <1>3, <2>4 DEF Finish, TypeOK, ShownRuns
    <2>6. StatusTellsLastRun'
      BY <1>0, <1>3 DEF Finish, StatusTellsLastRun
    <2> QED BY <1>3, <2>1, <2>2, <2>3, <2>4, <2>5, <2>6 DEF Finish
  <1>4. CASE Catch(r)
    <2>1. TypeOK' /\ SingleFlight' /\ clock' >= 1
      BY <1>0, <1>4 DEF Catch, TypeOK, SingleFlight, Phases, BodyPhases
    <2>2. RunInProgress'
      BY <1>0, <1>4, <1>9, <1>10 DEF Catch, TypeOK, RunInProgress, BodyPhases
    <2>3. StatusTellsLastRun'
      BY <1>0, <1>4 DEF Catch, StatusTellsLastRun
    <2>4. ShownRuns'
      BY <1>4 DEF Catch, TypeOK, ShownRuns, RunInProgress
    <2> QED BY <2>1, <2>2, <2>3, <2>4
  <1>5. CASE Settle(r)
    <2>1. TypeOK'
      BY <1>5 DEF Settle, TypeOK, Phases, status
    <2>2. SingleFlight'
      BY <1>0, <1>5 DEF Settle, TypeOK, SingleFlight
    <2>3. RunInProgress'
      BY <1>0, <1>5, <1>9, <1>10 DEF Settle, TypeOK, RunInProgress, BodyPhases, status
    <2>4. ShownRuns'
      BY <1>5 DEF Settle, ShownRuns, status
    <2>5. reasonOf[r] = lastReason /\ LastStarted(r)
      BY <1>0 DEF RunInProgress
    <2>6. r = IF lastError = None THEN lastResult ELSE lastError
      BY <1>5, ConstantAssumption DEF Settle, RunInProgress
    <2>7. lastError # None /\ lastResult # None => lastRunAt <= startedAt[lastError]
      BY <1>5, <2>6 DEF Settle, RunInProgress
    <2>8. UNCHANGED <<status, reasonOf, startedAt, outcome>>
      BY <1>5 DEF Settle
    <2>9. StatusTellsLastRun'
      BY <1>10, <2>5, <2>6, <2>7, <2>8 DEF StatusTellsLastRun, ShownRuns, status
    <2> QED BY <1>5, <2>1, <2>2, <2>3, <2>4, <2>9 DEF Settle
  <1> QED BY <1>1, <1>2, <1>3, <1>4, <1>5 DEF RunStep

\* Every step keeps the inductive invariant.
LEMMA NextIInv == IInv /\ [Next]_vars => IInv'
  <1> SUFFICES ASSUME IInv, [Next]_vars PROVE IInv'
    OBVIOUS
  <1>1. CASE Tick \/ Start \/ \E c \in Caller : ManualJoin(c) \/ Answer(c)
    BY <1>1, EnvironmentIInv
  <1>2. CASE TimerFires
    BY <1>2, TimerFiresIInv
  <1>3. CASE \E reason \in WriteReasons : WriteTrigger(reason)
    BY <1>3, WriteTriggerIInv
  <1>4. CASE \E c \in Caller : ManualStart(c)
    BY <1>4, ManualStartIInv
  <1>5. CASE \E r \in Run : RunStep(r)
    BY <1>5, RunStepIInv
  <1>6. CASE UNCHANGED vars
    <2>1. TypeOK' /\ SingleFlight' /\ ShownRuns' /\ clock' >= 1
      BY <1>6 DEF vars, status, IInv, TypeOK, SingleFlight, ShownRuns
    <2>2. clock' >= clock
      BY <1>6 DEF vars, IInv, TypeOK
    <2> QED BY <1>6, <2>1, <2>2, StatusFrame, RunFrame DEF vars, status, IInv, TypeOK
  <1> QED BY <1>1, <1>2, <1>3, <1>4, <1>5, <1>6 DEF Next

\* The inductive invariant holds in every reachable state.
THEOREM Invariance == Spec => []IInv
  BY InitIInv, NextIInv, PTL DEF Spec

\* No two cleanup runs are ever in progress at once, and the running flag that
\* requestRun reads and the slot that run() reads never disagree.
THEOREM SingleFlightHolds == Spec => []SingleFlight
  BY Invariance, PTL DEF IInv

\* Between runs the status page names the last run's reason together with that
\* run's result or error, and beside an error the last success before it.
THEOREM StatusHolds == Spec => []StatusTellsLastRun
  BY Invariance, PTL DEF IInv

\* The cleaner's state keeps its types, for any number of callers, any
\* interval and any bound on time.
THEOREM TypeCorrectness == Spec => []TypeOK
  BY Invariance, PTL DEF IInv

\* The throttle: an automatic run starts at least MinInterval after the start
\* of the last run that succeeded.
THEOREM AutoRunsSpacedHolds == Spec => AutoRunsSpaced
  <1>1. IInv /\ [Next]_vars =>
           [(AutomaticStart /\ lastResult # None) => clock - startedAt[lastResult] >= MinInterval]_vars
    <2> SUFFICES ASSUME IInv, Next, AutomaticStart, lastResult # None
                 PROVE  clock - startedAt[lastResult] >= MinInterval
      OBVIOUS
    <2>1. MayRequest
      BY DEF AutomaticStart, Next, RunStep, Tick, Start, TimerFires, WriteTrigger, ManualStart,
             ManualJoin, Answer, StartRun, Advance, Throw, Finish, Catch, Settle, BodyUnchanged
    <2>2. /\ startedAt[lastResult] <= lastRunAt /\ lastRunAt # 0
          /\ {clock, lastRunAt, startedAt[lastResult]} \subseteq Nat
      BY DEF IInv, TypeOK, ShownRuns
    <2> QED BY <2>1, <2>2, ConstantAssumption DEF MayRequest
  <1> QED BY <1>1, Invariance, PTL DEF Spec, AutoRunsSpaced
=============================================================================
