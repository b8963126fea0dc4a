SPECIFICATION Spec
CONSTANTS
    Second = 2
    MaxClock = 5
    None = None
INVARIANTS TypeOK ElapsedIsRunTime
PROPERTIES StoppedIsFinal
