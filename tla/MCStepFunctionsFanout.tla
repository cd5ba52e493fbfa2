----------------------- MODULE MCStepFunctionsFanout -----------------------
EXTENDS StepFunctionsFanout

AllKinds == FaultKinds
=============================================================================
