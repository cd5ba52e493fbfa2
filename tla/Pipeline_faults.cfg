CONSTANTS
    TaskIds <- TwoTasks
    Completion <- Completions
    Faults <- AllButAmbiguous
    MaxFaults = 2

SPECIFICATION FairSpec
INVARIANTS
    TypeOK
    ChainSound
    CompletedSound
    OnlyIntakeDeadlocks
    StatusesAgree
PROPERTIES
    FailureFinal
    Settles
