----------------------------- MODULE JobStream -----------------------------
(***************************************************************************)
(* The server-sent events of one job beside the running Pipeline: the poll *)
(* loop of iter_job_stream_events and the browser's useJobStream.          *)
(*                                                                         *)
(* Each poll reads the job's row and then, in a statement of its own, the  *)
(* rows of its stages; READ COMMITTED lets a commit fall in between.  The  *)
(* broker only makes a poll happen earlier: what it delivers is dropped,   *)
(* and the workers' stage events are emitted in another process.  So a     *)
(* poll may happen at any time, and keepalives leave no trace.             *)
(***************************************************************************)
EXTENDS Pipeline

CONSTANTS
    MaxDisconnects,  \* how often the connection may break
    NotSent          \* nothing was read on this connection

ASSUME DisconnectsAssumption == MaxDisconnects \in Nat

VARIABLES
    conn,      \* the connection: none, or where its poll loop is
    readJob,   \* jobs.status as the poll read it
    last,      \* last_fingerprint: the stages of the poll before
    shown,     \* what the browser shows: job status and stages
    breaks     \* disconnects so far

streamVars == <<conn, readJob, last, shown, breaks>>
allVars == <<vars, streamVars>>

Nothing == [job |-> "none", stages |-> NotSent]

StreamInit ==
    /\ Init
    /\ conn = "closed"
    /\ readJob = "pending"
    /\ last = NotSent
    /\ shown = Nothing
    /\ breaks = 0

-----------------------------------------------------------------------------
(* stream_project_events: the job is there and the user's; subscribe.      *)
Connect ==
    /\ conn = "closed"
    /\ conn' = "open"
    /\ UNCHANGED <<vars, readJob, last, shown, breaks>>

(* get_by_id: the job's row first.                                         *)
ReadJob ==
    /\ conn = "open"
    /\ readJob' = job
    /\ conn' = "read"
    /\ UNCHANGED <<vars, last, shown, breaks>>

(* What the browser makes of the events of one poll: a snapshot or a       *)
(* job_complete replaces the view, a stage_update per changed row patches  *)
(* it; without a changed row nothing is sent.                              *)
View(j, rowsRead) ==
    IF last = NotSent \/ j \in Terminal \/ rowsRead # last
    THEN [job |-> j, stages |-> rowsRead]
    ELSE shown

MutStaleComplete ==
    /\ conn = "read"
    /\ shown' = IF readJob \in Terminal /\ last # NotSent
                THEN [job |-> readJob, stages |-> last]
                ELSE View(readJob, stage)
    /\ last' = stage
    /\ conn' = IF readJob \in Terminal THEN "ended" ELSE "open"
    /\ readJob' = "pending"
    /\ UNCHANGED <<vars, breaks>>

MutEndUnlessRunning ==
    /\ conn = "read"
    /\ shown' = View(readJob, stage)
    /\ last' = stage
    /\ conn' = IF readJob # "running" THEN "ended" ELSE "open"
    /\ readJob' = "pending"
    /\ UNCHANGED <<vars, breaks>>

MutIgnoreFailed ==
    /\ conn = "read"
    /\ shown' = View(readJob, stage)
    /\ last' = stage
    /\ conn' = IF readJob = "completed" THEN "ended" ELSE "open"
    /\ readJob' = "pending"
    /\ UNCHANGED <<vars, breaks>>

(* selectinload: then its stages.  The events go out, and a terminal       *)
(* status, sent as job_complete, ends the stream for good: the browser     *)
(* aborts and does not reconnect.                                          *)
ReadStages ==
    /\ conn = "read"
    /\ shown' = View(readJob, stage)
    /\ last' = stage
    /\ conn' = IF readJob \in Terminal THEN "ended" ELSE "open"
    /\ readJob' = "pending"
    /\ UNCHANGED <<vars, breaks>>

(* The connection breaks; useJobStream backs off and connects again.  (A   *)
(* stream that ends in order but without job_complete, as for a deleted    *)
(* job, is not connected again; no job is deleted here.)                   *)
Disconnect ==
    /\ conn \in {"open", "read"}
    /\ breaks < MaxDisconnects
    /\ breaks' = breaks + 1
    /\ conn' = "closed"
    /\ readJob' = "pending"
    /\ last' = NotSent
    /\ UNCHANGED <<vars, shown>>

-----------------------------------------------------------------------------
Stream == Connect \/ ReadJob \/ ReadStages

StreamNext ==
    \/ Next /\ UNCHANGED streamVars
    \/ Stream
    \/ Disconnect

StreamSpec == StreamInit /\ [][StreamNext]_allVars

(* The poll loop has a timeout of a second, the browser a back-off timer.  *)
FairStreamSpec == StreamSpec /\ Fairness /\ WF_allVars(Stream)

-----------------------------------------------------------------------------
(* Properties.                                                             *)

(* The last event does not contradict itself, whatever was committed       *)
(* between its two reads: it says "completed" only of a job whose export   *)
(* stage it shows as completed.  One thing may fail that stage again, also *)
(* between the two reads: the dead-letter queue holds export responsible   *)
(* for a redriven annotation.task.completed.                               *)
EndConsistent ==
    conn = "ended" =>
        /\ shown.job \in Terminal
        /\ shown.job = "completed" =>
              \/ shown.stages["export"] = "completed"
              \/ shown.stages["export"] = "failed" /\ "redrive" \in spent

(* The stream ends at the first terminal status it reads.  For an          *)
(* undisturbed job that is the last one: the browser, which never asks     *)
(* again, shows what is stored.                                            *)
EndFinal ==
    Undisturbed /\ conn = "ended" => shown = [job |-> job, stages |-> stage]

(* Every job that comes to rest ends its stream.                           *)
StreamEnds == <>[](job \in Terminal) => <>(conn = "ended")
=============================================================================
