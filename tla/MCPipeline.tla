----------------------------- MODULE MCPipeline -----------------------------
EXTENDS Pipeline

\* Two tasks race for the last place.
TwoTasks == <<"task1", "task2">>
Completions == [task1 |-> "completed1", task2 |-> "completed2"]

\* A publish that fails although the event got through repeats all that follows
\* and triples the states.
AllButAmbiguous == FaultKinds \ {"ambiguous"}
=============================================================================
