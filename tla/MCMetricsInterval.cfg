SPECIFICATION Spec
CONSTANTS
    Period = 2
    Pollings = {1, 2}
    MaxTime = 14
INVARIANTS PollsKeepPace SteadySenderSeen
CHECK_DEADLOCK FALSE
