------------------------ MODULE MCProjectSubmission ------------------------
EXTENDS ProjectSubmission

SomeForms ==
    LET good == [name |-> "a", valid |-> TRUE]
        bad == [name |-> "b", valid |-> FALSE]
    IN  {<<good>>, <<good, good>>, <<good, bad>>}

AllKinds == FaultKinds
=============================================================================
