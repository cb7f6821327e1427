CONSTANTS
    Run = {r1, r2, r3}
    Caller = {c1}
    Enabled = TRUE
    MinInterval = 2
    Interval = 2
    TimeoutMax = 9
    MaxTime = 3
    None = None
SPECIFICATION Spec
INVARIANTS SingleFlight StatusTellsLastRun
PROPERTIES AutoRunsSpaced CallsAnswered
