SPECIFICATION Spec
CONSTANTS
    Wide <- MCWide
    Overrides <- MCOverrides
    UploadLists <- MCUploadLists
    MaxBytes = 10
    MaxSeconds = 300
    ChunkSize = 4
    Overlap = 2
    MaxTurn = 10
    TaskSizes = {0, 2}
    MaxUtterances = 3
    Replies <- MCReplies
INVARIANTS
    NothingLost OffsetsFaithful TranscriptKept ExportComplete SuspectsFlagged
\* A project ends: refused, failed or exported.
CHECK_DEADLOCK FALSE
