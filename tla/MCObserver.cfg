SPECIFICATION FairSpec
CONSTANTS
    Capacity = 2
    Budget = 2
    MaxEvents = 3
INVARIANTS NoEventMissing
PROPERTIES StreamImplemented EventsReachClient WorkerReleased
CHECK_DEADLOCK FALSE
