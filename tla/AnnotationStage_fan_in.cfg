\* Declared by MCAnnotationStage
CONSTANTS
    w1 = w1
    w2 = w2

\* Declared by AnnotationStage
CONSTANTS
    TaskCount = 3
    Workers = {w1}
    Budget <- BenignFaults
    Plan = Plan
    NoItem = NoItem

SPECIFICATION FairSpec
PROPERTIES
    FanInHappens
