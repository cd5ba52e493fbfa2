CONSTANTS
    Processes = {w1, w2}
    Preprocessing = prep
    Tasks = {t1, t2}
    Recordings = 2
    Cap = 3
    Price = 1
    FailureThreshold = 2
    MaxRetries = 1
    MaxReceives = 3
    MaxErrors = 6

SPECIFICATION FairSpec
CHECK_DEADLOCK FALSE
INVARIANTS
    OvershootBounded
    LedgerExact
PROPERTIES
    BreakerTrips
    Settles
