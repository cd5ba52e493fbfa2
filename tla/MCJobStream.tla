---------------------------- MODULE MCJobStream ----------------------------
EXTENDS JobStream, MCPipeline

\* Failures that are final, some that are undone, and redriven messages.
StreamKinds == {"terminal", "publish", "duplicate", "redrive"}
=============================================================================
