\* Declared by MCStageRun
CONSTANTS
    m1 = m1
    m2 = m2
    w1 = w1
    w2 = w2
    d1 = d1
    d2 = d2

\* Declared by StageRun
CONSTANTS
    Stage = "preprocessing"
    Messages = {m1, m2}
    Malformed = {m2}
    StageWorkers = {w1, w2}
    DlqWorkers = {d1}
    MaxReceive = 2
    BatchesReady = TRUE
    Budget <- AllFaults
    NoMessage = NoMessage

SPECIFICATION FairSpec
INVARIANTS
    TypeOK
    ClaimExclusive
    OutputAfterCommit
PROPERTIES
    Drains
    DlqRecords
