CONSTANTS
    TaskIds <- TwoTasks
    Completion <- Completions
    Faults <- StreamKinds
    MaxFaults = 1
    MaxDisconnects = 1
    NotSent = NotSent

SPECIFICATION FairStreamSpec
INVARIANTS
    EndConsistent
    EndFinal
PROPERTIES
    StreamEnds
