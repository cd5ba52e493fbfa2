----------------------------- MODULE MCStageRun -----------------------------
EXTENDS StageRun, TLC

CONSTANTS m1, m2, w1, w2, d1, d2

\* The copies of the event are interchangeable, and so are the workers of a queue.
Symmetry == Permutations({m1, m2}) \cup Permutations({w1, w2})

\* Every fault but those of the lossy kinds.
BenignFaults == [publish |-> 2, delete |-> 1, record |-> 1,
                 expire |-> 0, crash |-> 0, release |-> 0]
AllFaults == [kind \in FaultKinds |-> 1]
=============================================================================
