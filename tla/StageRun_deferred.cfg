\* Declared by MCStageRun
CONSTANTS
    m1 = m1
    m2 = m2
    w1 = w1
    w2 = w2
    d1 = d1
    d2 = d2

\* Declared by StageRun
CONSTANTS
    Stage = "export"
    Messages = {m1, m2}
    Malformed = {}
    StageWorkers = {w1, w2}
    DlqWorkers = {d1}
    MaxReceive = 2
    BatchesReady = FALSE
    Budget <- AllFaults
    NoMessage = NoMessage

SPECIFICATION Spec
SYMMETRY Symmetry
INVARIANTS
    DeferredUntouched
