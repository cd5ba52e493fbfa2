CONSTANTS
    Executions = {x1, x2}
    First = x1
    Tasks = {t1, t2, t3}
    Workers = {w1, w2}
    MaxConcurrency = 2
    MaxAttempts = 2
    Faults <- AllKinds
    MaxFaults = 3

SPECIFICATION FairSpec
CHECK_DEADLOCK FALSE
INVARIANTS
    AnnouncedSound
    OneMap
PROPERTIES
    ExecutionEnds
    FanOutDelivered
