-------------------------- MODULE MCAnnotationStage --------------------------
EXTENDS AnnotationStage, TLC

CONSTANTS w1, w2

Symmetry == Permutations({w1, w2})

NoFaults == [kind \in FaultKinds |-> 0]
LossyFaults == [publish |-> 1, transient |-> 0, reload |-> 1, duplicate |-> 1, crash |-> 1]
BenignFaults == [publish |-> 2, transient |-> 1, reload |-> 0, duplicate |-> 1, crash |-> 0]
=============================================================================
