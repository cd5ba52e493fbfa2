\* Declared by MCAnnotationStage
CONSTANTS
    w1 = w1
    w2 = w2

\* Declared by AnnotationStage
CONSTANTS
    TaskCount = 3
    Workers = {w1, w2}
    Budget <- LossyFaults
    Plan = Plan
    NoItem = NoItem

SPECIFICATION Spec
SYMMETRY Symmetry
INVARIANTS
    TypeOK
    AllCompletedSound
    EveryTaskLabelled
