---------------------------- MODULE DiskCleaner ----------------------------
(***************************************************************************)
(* The DiskCleaner object (src/src/disk-cleaner.ts): who may start a       *)
(* cleanup run, who joins the one in progress, and what the status page    *)
(* remembers.  Node runs one handler at a time; a run gives way at each of *)
(* its awaits (statfs, scan, deletions) and at the microtasks that settle  *)
(* its promise, and there any other handler may come in.                   *)
(* What a run deletes is CleanupPlan's and SnapshotStore's matter; here a  *)
(* run only succeeds or fails, early or late.                              *)
(***************************************************************************)
EXTENDS Integers

CONSTANTS Run,          \* identities for runs; one is reused once nothing refers to it
          Caller,       \* requests to POST /admin/disk/cleanup
          Enabled,      \* policy.enabled
          MinInterval,  \* minRunIntervalMinutes
          Interval,     \* intervalHours
          TimeoutMax,   \* Node's longest timer, 2^31 - 1 ms; a longer one fires after 1 ms
          MaxTime,      \* bound of the clock
          None

ASSUME ConstantAssumption ==
    /\ Enabled \in BOOLEAN
    /\ {MinInterval, Interval, TimeoutMax, MaxTime} \subseteq Nat
    /\ None \notin Run

VARIABLES clock,
          nextFire,     \* when the interval timer is due; 0: start() not called yet
          running, currentRun,
          lastRunAt,    \* 0: undefined
          lastReason,
          lastResult,   \* the run whose result getStatus shows
          lastError,    \* the run whose error getStatus shows
          phase,        \* where the body of each run is
          reasonOf, startedAt,
          outcome,      \* how each run ended
          awaiting      \* the run each manual caller awaits

status == <<lastRunAt, lastReason, lastResult, lastError>>
vars == <<clock, nextFire, running, currentRun, status,
          phase, reasonOf, startedAt, outcome, awaiting>>

WriteReasons == {"snapshot-write", "client-log-write"}
Reasons == WriteReasons \cup {"interval", "manual"}
BodyPhases == {"measuring", "scanning", "deleting"}
Phases == BodyPhases \cup {"rejected", "caught", "returned", "settled"}

Init ==
    /\ clock = 1
    /\ nextFire = 0
    /\ running = FALSE
    /\ currentRun = None
    /\ lastRunAt = 0
    /\ lastReason = None
    /\ lastResult = None
    /\ lastError = None
    /\ phase = [r \in Run |-> "settled"]
    /\ reasonOf = [r \in Run |-> None]
    /\ startedAt = [r \in Run |-> 0]
    /\ outcome = [r \in Run |-> None]
    /\ awaiting = [c \in Caller |-> None]

-----------------------------------------------------------------------------
(* Starting a run *)

Unreferenced(r) ==
    /\ phase[r] = "settled"
    /\ r \notin {lastResult, lastError}
    /\ \A c \in Caller : awaiting[c] # r

\* run(reason) when no run is in progress, up to its first await.
StartRun(r, reason) ==
    /\ Unreferenced(r)
    /\ running' = TRUE
    /\ lastReason' = reason
    /\ currentRun' = r
    /\ phase' = [phase EXCEPT ![r] = "measuring"]
    /\ reasonOf' = [reasonOf EXCEPT ![r] = reason]
    /\ startedAt' = [startedAt EXCEPT ![r] = clock]
    /\ outcome' = [outcome EXCEPT ![r] = None]
    /\ UNCHANGED <<lastRunAt, lastResult, lastError>>

\* Fault: the interval is not looked at.
MayRequestAnyTime == Enabled /\ ~running

\* requestRun's two early returns.
MayRequest ==
    /\ Enabled
    /\ ~running
    /\ ~(lastRunAt # 0 /\ clock - lastRunAt < MinInterval)

\* A write request has been stored: requestRun("snapshot-write" or "client-log-write").
WriteTrigger(reason) ==
    /\ MayRequest
    /\ \E r \in Run : StartRun(r, reason)
    /\ UNCHANGED <<clock, nextFire, awaiting>>

\* Fault: run() starts a body without asking whether one is in progress.
ManualStartAlways(c) ==
    /\ awaiting[c] = None
    /\ \E r \in Run : StartRun(r, "manual") /\ awaiting' = [awaiting EXCEPT ![c] = r]
    /\ UNCHANGED <<clock, nextFire>>

\* POST /admin/disk/cleanup: run("manual") asks neither policy.enabled nor the
\* interval, and hands out the promise of the run in progress if there is one.
ManualStart(c) ==
    /\ awaiting[c] = None
    /\ currentRun = None
    /\ \E r \in Run : StartRun(r, "manual") /\ awaiting' = [awaiting EXCEPT ![c] = r]
    /\ UNCHANGED <<clock, nextFire>>

ManualJoin(c) ==
    /\ awaiting[c] = None
    /\ currentRun # None
    /\ awaiting' = [awaiting EXCEPT ![c] = currentRun]
    /\ UNCHANGED <<clock, nextFire, running, currentRun, status, phase, reasonOf, startedAt, outcome>>

-----------------------------------------------------------------------------
(* The interval timer *)

Period == IF Interval > TimeoutMax THEN 1 ELSE Interval

\* start(), called once the server listens.
Start ==
    /\ Enabled
    /\ nextFire = 0
    /\ nextFire' = clock + Period
    /\ UNCHANGED <<clock, running, currentRun, status, phase, reasonOf, startedAt, outcome, awaiting>>

TimerFires ==
    /\ nextFire # 0 /\ clock >= nextFire
    /\ nextFire' = clock + Period
    /\ IF MayRequest
       THEN \E r \in Run : StartRun(r, "interval")
       ELSE UNCHANGED <<running, currentRun, status, phase, reasonOf, startedAt, outcome>>
    /\ UNCHANGED <<clock, awaiting>>

Tick ==
    /\ clock < MaxTime
    /\ clock' = clock + 1
    /\ UNCHANGED <<nextFire, running, currentRun, status, phase, reasonOf, startedAt, outcome, awaiting>>

-----------------------------------------------------------------------------
(* The body of a run *)

Goto(r, p) == phase' = [phase EXCEPT ![r] = p]
BodyUnchanged == UNCHANGED <<clock, nextFire, reasonOf, startedAt, awaiting>>

\* minFreeBytes, then cleanupDisk's scan; the plan is synchronous.
Advance(r) ==
    /\ \/ phase[r] = "measuring" /\ Goto(r, "scanning")
       \/ phase[r] = "scanning" /\ Goto(r, "deleting")
    /\ BodyUnchanged
    /\ UNCHANGED <<running, currentRun, status, outcome>>

\* statfs, readdir or stat failed with something other than ENOENT.
Throw(r) ==
    /\ phase[r] \in {"measuring", "scanning"}
    /\ Goto(r, "rejected")
    /\ outcome' = [outcome EXCEPT ![r] = "failed"]
    /\ BodyUnchanged
    /\ UNCHANGED <<running, currentRun, status>>

\* Fault: a success does not clear the error of an earlier run.
FinishKeepingError(r) ==
    /\ phase[r] = "deleting"
    /\ \E o \in {"withinLimits", "overLimit"} : outcome' = [outcome EXCEPT ![r] = o]
    /\ Goto(r, "returned")
    /\ lastRunAt' = clock
    /\ lastResult' = r
    /\ BodyUnchanged
    /\ UNCHANGED <<running, currentRun, lastReason, lastError>>

\* The deletion loop is over: a file that could not be deleted is in
\* result.errors and makes overLimit true, but the run succeeds.
Finish(r) ==
    /\ phase[r] = "deleting"
    /\ \E o \in {"withinLimits", "overLimit"} : outcome' = [outcome EXCEPT ![r] = o]
    /\ Goto(r, "returned")
    /\ lastRunAt' = clock
    /\ lastResult' = r
    /\ lastError' = None
    /\ BodyUnchanged
    /\ UNCHANGED <<running, currentRun, lastReason>>

\* The catch clause, one microtask after the throw.
Catch(r) ==
    /\ phase[r] = "rejected"
    /\ Goto(r, "caught")
    /\ lastError' = r
    /\ BodyUnchanged
    /\ UNCHANGED <<running, currentRun, lastRunAt, lastReason, lastResult, outcome>>

\* Fault: the slot is cleared after a success only.
SettleOnlySuccess(r) ==
    /\ phase[r] = "returned"
    /\ Goto(r, "settled")
    /\ running' = FALSE
    /\ currentRun' = None
    /\ BodyUnchanged
    /\ UNCHANGED <<status, outcome>>

\* The finally clause.
Settle(r) ==
    /\ phase[r] \in {"returned", "caught"}
    /\ Goto(r, "settled")
    /\ running' = FALSE
    /\ currentRun' = None
    /\ BodyUnchanged
    /\ UNCHANGED <<status, outcome>>

\* The awaited promise is settled: the request is answered 200 or 500.
Answer(c) ==
    /\ awaiting[c] # None
    /\ phase[awaiting[c]] = "settled"
    /\ awaiting' = [awaiting EXCEPT ![c] = None]
    /\ UNCHANGED <<clock, nextFire, running, currentRun, status, phase, reasonOf, startedAt, outcome>>

-----------------------------------------------------------------------------
RunStep(r) == Advance(r) \/ Throw(r) \/ Finish(r) \/ Catch(r) \/ Settle(r)

Next ==
    \/ Tick \/ Start \/ TimerFires
    \/ \E reason \in WriteReasons : WriteTrigger(reason)
    \/ \E c \in Caller : ManualStart(c) \/ ManualJoin(c) \/ Answer(c)
    \/ \E r \in Run : RunStep(r)

\* File system calls complete, with a result or an error, and the event loop
\* runs what is ready: every run keeps going and every settled promise resumes
\* who awaits it.  Nothing is assumed of clients, of the timer or of the clock.
Fairness ==
    /\ \A r \in Run : WF_vars(RunStep(r))
    /\ \A c \in Caller : WF_vars(Answer(c))

Spec == Init /\ [][Next]_vars /\ Fairness

-----------------------------------------------------------------------------
(* Properties *)

TypeOK ==
    /\ clock \in Nat /\ nextFire \in Nat /\ lastRunAt \in Nat
    /\ running \in BOOLEAN
    /\ {currentRun, lastResult, lastError} \subseteq Run \cup {None}
    /\ lastReason \in Reasons \cup {None}
    /\ phase \in [Run -> Phases]
    /\ reasonOf \in [Run -> Reasons \cup {None}]
    /\ startedAt \in [Run -> Nat]
    /\ outcome \in [Run -> {None, "failed", "withinLimits", "overLimit"}]
    /\ awaiting \in [Caller -> Run \cup {None}]

\* Two runs never work on the files at once: the one slot, the running flag
\* that requestRun reads and the bodies in progress agree in every state, also
\* between a body's end and its finally clause.
SingleFlight ==
    /\ running = (currentRun # None)
    /\ \A r \in Run : phase[r] # "settled" <=> r = currentRun

LastStarted(r) == \A q \in Run : startedAt[q] <= startedAt[r]

\* Between runs the reason on the status page is that of the last run started,
\* and so is the error, if there is one, and else the result.  A result shown
\* beside an error, and its lastRunAt, are those of the last success: a run that
\* was over when the failed one started.  (During a run the page shows the new
\* reason beside the previous end.)
StatusTellsLastRun ==
    ~running /\ lastReason # None =>
        /\ \E r \in Run :
               /\ r = IF lastError = None THEN lastResult ELSE lastError
               /\ LastStarted(r) /\ reasonOf[r] = lastReason
        /\ lastError # None => outcome[lastError] = "failed"
        /\ lastResult # None =>
               /\ outcome[lastResult] \in {"withinLimits", "overLimit"}
               /\ startedAt[lastResult] <= lastRunAt
               /\ lastError # None => lastRunAt <= startedAt[lastError]

\* A run that a write or the timer starts comes at least MinInterval after the
\* start of the last run that succeeded, whoever asked for that one.
AutomaticStart == currentRun = None /\ currentRun' # None /\ lastReason' # "manual"
AutoRunsSpaced ==
    [][(AutomaticStart /\ lastResult # None) =>
          clock - startedAt[lastResult] >= MinInterval]_vars

\* A run in progress when a caller joins is one the caller waits for: nobody is
\* left waiting for a run that was forgotten, and a failing run answers too.
CallsAnswered == \A c \in Caller : awaiting[c] # None ~> awaiting[c] = None
=============================================================================
