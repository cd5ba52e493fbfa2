\* Declared by MCAnnotationStage
CONSTANTS
    w1 = w1
    w2 = w2

\* Declared by AnnotationStage
CONSTANTS
    TaskCount = 2
    Workers = {w1, w2}
    Budget <- NoFaults
    Plan = Plan
    NoItem = NoItem

SPECIFICATION Spec
INVARIANTS
    FanInAnnounced
