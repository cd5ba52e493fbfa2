CONSTANTS
    Requests = {p1, p2}
    Forms <- SomeForms
    MaxReceives = 2
    Faults <- AllKinds
    MaxFaults = 1

SPECIFICATION FairSpec
CHECK_DEADLOCK FALSE
INVARIANTS
    FailureCause
PROPERTIES
    ClaimsHaveJobs
    RequestsEnd
    SubmittedIsSeen
