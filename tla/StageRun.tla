------------------------------ MODULE StageRun ------------------------------
(***************************************************************************)
(* One hop of the EventForge pipeline: the SQS copies of one inbound event *)
(* of one job, the worker processes that poll the stage's queue, the       *)
(* dead-letter queue with its DlqWorker, and the Postgres rows they share. *)
(*                                                                         *)
(* A stage worker claims (event_id, worker_name) in processed_events,      *)
(* works inside the claiming transaction, commits, and only then publishes *)
(* the completion event; a failed publish releases the claim again.  A     *)
(* terminal exception is recorded from a fresh transaction by              *)
(* process_pipeline_failure, which the DlqWorker uses too.                 *)
(*                                                                         *)
(* An open transaction is invisible to the others except for its claim     *)
(* row, on which a concurrent INSERT ... ON CONFLICT waits; so what a      *)
(* transaction writes is applied by the action that commits it, and a      *)
(* process holds an uncommitted claim exactly while its pc is in InTx.     *)
(***************************************************************************)
EXTENDS Naturals

CONSTANTS
    Stage,         \* the stage this hop runs; also its worker_name
    Messages,      \* SQS messages that carry the inbound event
    Malformed,     \* those of them whose detail is not a valid event envelope
    StageWorkers,  \* processes polling the stage's queue
    DlqWorkers,    \* processes polling the dead-letter queue
    MaxReceive,    \* maxReceiveCount of the queue's redrive policy
    BatchesReady,  \* all payload.task_count annotation batches are stored
    Budget,        \* how many faults of each kind a behaviour may contain
    NoMessage

FaultKinds == {"publish", "delete", "record", "expire", "crash", "release"}

ASSUME StageAssumption ==
    Stage \in {"intake", "preprocessing", "planning", "export"}
ASSUME MessagesAssumption ==
    /\ Malformed \subseteq Messages
    /\ Messages \ Malformed # {}
    /\ NoMessage \notin Messages
ASSUME ProcsAssumption == StageWorkers \cap DlqWorkers = {}
ASSUME BoundsAssumption ==
    /\ MaxReceive \in Nat
    /\ BatchesReady \in BOOLEAN
    /\ Budget \in [FaultKinds -> Nat]

Procs == StageWorkers \cup DlqWorkers
Events == Messages \ Malformed
QueueOf(p) == IF p \in DlqWorkers THEN "dlq" ELSE "queue"
WorkerName(p) == IF p \in DlqWorkers THEN "dlq" ELSE Stage
Statuses == {"pending", "running", "completed", "failed"}

(* The event types each stage consumes.                                    *)
InboundDetailType ==
    [intake        |-> "project.submitted",
     preprocessing |-> "intake.completed",
     planning      |-> "preprocessing.completed",
     export        |-> "annotation.all_completed"]

MutTableWithoutIntakeCompleted ==
    {"project.submitted", "preprocessing.completed", "planning.completed"}

(* The table that names the stage a failed event belongs to; it has no     *)
(* entry for annotation.all_completed.                                     *)
DetailTypesWithFailedStage ==
    {"project.submitted", "intake.completed", "preprocessing.completed",
     "planning.completed", "annotation.task.dispatched",
     "annotation.task.completed"}

HasFailedStage == InboundDetailType[Stage] \in DetailTypesWithFailedStage

VARIABLES
    where,      \* where each message is: "queue", "dlq" or deleted ("gone")
    visible,    \* whether SQS would deliver it now
    receives,   \* its ApproximateReceiveCount on the stage's queue
    inbox,      \* the received messages a process has not finished with
    current,    \* the message a process is handling
    pc,         \* where its handler is
    loaded,     \* job and stage status as its open transaction read them
    claims,     \* committed processed_events rows, by worker_name
    rows,       \* the stage's own rows are stored (segments, tasks, export)
    stage,      \* committed job_stages.status of this stage
    job,        \* committed jobs.status
    published,  \* verdicts of this hop that reached the event bus
    faults      \* faults still available

sqsVars == <<where, visible, receives>>
procVars == <<inbox, current, pc, loaded>>
dbVars == <<claims, rows, stage, job>>
vars == <<where, visible, receives, inbox, current, pc, loaded,
          claims, rows, stage, job, published, faults>>

InTx == {"work", "recording"}
Committed == {"publish", "release", "publishFailed", "releaseFailed"}
Locations == InTx \cup Committed \cup {"idle", "record", "ack"}

TypeOK ==
    /\ where \in [Messages -> {"queue", "dlq", "gone"}]
    /\ visible \in [Messages -> BOOLEAN]
    /\ receives \in [Messages -> 0..MaxReceive]
    /\ inbox \in [Procs -> SUBSET Messages]
    /\ current \in [Procs -> Messages \cup {NoMessage}]
    /\ pc \in [Procs -> Locations]
    /\ loaded \in [Procs -> [job : Statuses, stage : Statuses]]
    /\ claims \subseteq {Stage, "dlq"}
    /\ rows \in BOOLEAN
    /\ stage \in Statuses
    /\ job \in Statuses
    /\ published \subseteq {"completed", "failed"}
    /\ faults \in [FaultKinds -> Nat]

Init ==
    /\ where = [m \in Messages |-> "queue"]
    /\ visible = [m \in Messages |-> TRUE]
    /\ receives = [m \in Messages |-> 0]
    /\ inbox = [p \in Procs |-> {}]
    /\ current = [p \in Procs |-> NoMessage]
    /\ pc = [p \in Procs |-> "idle"]
    /\ loaded = [p \in Procs |-> [job |-> "pending", stage |-> "pending"]]
    /\ claims = {}
    /\ rows = FALSE
    /\ stage = "pending"
    /\ job = IF Stage = "intake" THEN "pending" ELSE "running"
    /\ published = {}
    /\ faults = Budget

-----------------------------------------------------------------------------
(* Steps shared by the handlers.  A definition named Mut... is the bug the *)
(* definition after it could have; it belongs to no specification.         *)

Spend(kind) ==
    /\ faults[kind] > 0
    /\ faults' = [faults EXCEPT ![kind] = @ - 1]

Goto(p, l) == pc' = [pc EXCEPT ![p] = l]

(* The handler is over for this message, deleted or not; the loop in       *)
(* poll_once goes on with the rest of the batch.                           *)
Finish(p) ==
    /\ Goto(p, "idle")
    /\ inbox' = [inbox EXCEPT ![p] = @ \ {current[p]}]
    /\ current' = [current EXCEPT ![p] = NoMessage]

(* An exception leaves handle_message: poll_once logs it and does not      *)
(* delete the message.  Leaving the session rolls its transaction back.    *)
Raise(p) ==
    /\ Finish(p)
    /\ UNCHANGED <<sqsVars, loaded>>

MutClaimWithoutRowLock(name) == TRUE

(* A concurrent INSERT of the same claim waits for the transaction that    *)
(* holds the row uncommitted.                                              *)
ClaimFree(name) ==
    \A q \in Procs : WorkerName(q) = name => pc[q] \notin InTx

(* try_claim followed by _load_job: lose to a committed claim, or insert   *)
(* the row and read the job in the same transaction.                       *)
TryClaim(p, lost, won) ==
    /\ ClaimFree(WorkerName(p))
    /\ \/ /\ WorkerName(p) \in claims
          /\ Goto(p, lost)
          /\ UNCHANGED loaded
       \/ /\ WorkerName(p) \notin claims
          /\ Goto(p, won)
          /\ loaded' = [loaded EXCEPT ![p] = [job |-> job, stage |-> stage]]

(* The ORM emits an UPDATE only for an attribute that differs from what    *)
(* the transaction loaded.                                                 *)
Assign(old, new, db) == IF old = new THEN db ELSE new

-----------------------------------------------------------------------------
(* SqsConsumer: receive a batch, handle its messages one by one.           *)

MutDeliverWithoutLimit(p) ==
    {m \in Messages : where[m] = QueueOf(p) /\ visible[m]}

Deliverable(p) ==
    {m \in Messages : /\ where[m] = QueueOf(p)
                      /\ visible[m]
                      /\ where[m] = "queue" => receives[m] < MaxReceive}

Receive(p) ==
    /\ pc[p] = "idle"
    /\ inbox[p] = {}
    /\ \E batch \in (SUBSET Deliverable(p)) \ {{}} :
         /\ inbox' = [inbox EXCEPT ![p] = batch]
         /\ visible' = [m \in Messages |-> visible[m] /\ m \notin batch]
         /\ receives' = [m \in Messages |->
                           IF m \in batch /\ where[m] = "queue"
                           THEN receives[m] + 1 ELSE receives[m]]
    /\ UNCHANGED <<where, current, pc, loaded, dbVars, published, faults>>

(* StageRun.begin for a stage worker.                                      *)
Begin(p) ==
    /\ p \in StageWorkers
    /\ pc[p] = "idle"
    /\ \E m \in inbox[p] \ Malformed :
         /\ current' = [current EXCEPT ![p] = m]
         /\ TryClaim(p, "ack", "work")
    /\ UNCHANGED <<sqsVars, inbox, dbVars, published, faults>>

(* DlqWorker.process_message goes straight to process_pipeline_failure.    *)
BeginDlq(p) ==
    /\ p \in DlqWorkers
    /\ pc[p] = "idle"
    /\ \E m \in inbox[p] \ Malformed :
         current' = [current EXCEPT ![p] = m]
    /\ Goto(p, "record")
    /\ UNCHANGED <<sqsVars, inbox, loaded, dbVars, published, faults>>

(* A body that does not parse: the stage worker re-raises it, which leaves *)
(* the message on the queue; the DlqWorker discards it.                    *)
RejectMalformed(p) ==
    /\ p \in StageWorkers
    /\ pc[p] = "idle"
    /\ \E m \in inbox[p] \cap Malformed :
         inbox' = [inbox EXCEPT ![p] = @ \ {m}]
    /\ UNCHANGED <<sqsVars, current, pc, loaded, dbVars, published, faults>>

DiscardMalformed(p) ==
    /\ p \in DlqWorkers
    /\ pc[p] = "idle"
    /\ \E m \in inbox[p] \cap Malformed :
         current' = [current EXCEPT ![p] = m]
    /\ Goto(p, "ack")
    /\ UNCHANGED <<sqsVars, inbox, loaded, dbVars, published, faults>>

-----------------------------------------------------------------------------
(* The stage handler, inside the claiming transaction and after it.        *)

Defers == Stage = "export" /\ ~BatchesReady

(* Load or create the stage's rows: what an earlier run stored is reused.  *)
StoreRows == rows' = TRUE

(* Only intake leaves a stage it found completed alone; the others pass it *)
(* through mark_running first, so their completion is always written.      *)
StageOnSuccess(old) ==
    IF Stage = "intake" THEN Assign(old, "completed", stage) ELSE "completed"

(* What the stage does to jobs.status when it succeeds.                    *)
JobOnSuccess(old) ==
    CASE Stage = "intake" -> Assign(old, "running", job)
      [] Stage = "export" -> Assign(old, "completed", job)
      [] OTHER            -> job

MutPublishWithoutCommit(p) ==
    /\ pc[p] = "work"
    /\ ~Defers
    /\ Goto(p, "publish")
    /\ UNCHANGED <<sqsVars, inbox, current, loaded, dbVars, published, faults>>

(* The stage's rows, complete_stage, commit.                               *)
CommitStage(p) ==
    /\ pc[p] = "work"
    /\ ~Defers
    /\ StoreRows
    /\ stage' = StageOnSuccess(loaded[p].stage)
    /\ job' = JobOnSuccess(loaded[p].job)
    /\ claims' = claims \cup {WorkerName(p)}
    /\ Goto(p, "publish")
    /\ UNCHANGED <<sqsVars, inbox, current, loaded, published, faults>>

MutDeferKeepsClaim(p) ==
    /\ pc[p] = "work"
    /\ Defers
    /\ claims' = claims \cup {WorkerName(p)}
    /\ Goto(p, "ack")
    /\ UNCHANGED <<sqsVars, inbox, current, loaded, rows, stage, job, published, faults>>

(* Export without all its batches: release the claim and return None,      *)
(* which the worker acknowledges.                                          *)
Defer(p) ==
    /\ pc[p] = "work"
    /\ Defers
    /\ Goto(p, "ack")
    /\ UNCHANGED <<sqsVars, inbox, current, loaded, dbVars, published, faults>>

(* ValueError or RuntimeError before the commit.                           *)
FailTerminally(p) ==
    /\ pc[p] = "work"
    /\ Goto(p, "record")
    /\ UNCHANGED <<sqsVars, inbox, current, loaded, dbVars, published, faults>>

(* Any other exception before the commit.                                  *)
FailTransiently(p) ==
    /\ pc[p] = "work"
    /\ Raise(p)
    /\ UNCHANGED <<dbVars, published, faults>>

Announce(p, from, verdict) ==
    /\ pc[p] = from
    /\ published' = published \cup {verdict}
    /\ Goto(p, "ack")
    /\ UNCHANGED <<sqsVars, inbox, current, loaded, dbVars, faults>>

(* PutEvents raised or reported a failed entry: the event may or may not   *)
(* have reached the bus.                                                   *)
AnnounceFails(p, from, verdict, to) ==
    /\ pc[p] = from
    /\ Spend("publish")
    /\ published' \in {published, published \cup {verdict}}
    /\ Goto(p, to)
    /\ UNCHANGED <<sqsVars, inbox, current, loaded, dbVars>>

MutRaiseWithoutRelease(p) ==
    /\ pc[p] \in {"release", "releaseFailed"}
    /\ Raise(p)
    /\ UNCHANGED <<dbVars, published, faults>>

(* release_claim and its commit, after which EventPublishError goes on up. *)
ReleaseClaim(p) ==
    /\ pc[p] \in {"release", "releaseFailed"}
    /\ claims' = claims \ {WorkerName(p)}
    /\ Raise(p)
    /\ UNCHANGED <<rows, stage, job, published, faults>>

(* The database refuses the release: its own exception goes up instead and *)
(* the claim stays.                                                        *)
ReleaseFails(p) ==
    /\ pc[p] \in {"release", "releaseFailed"}
    /\ Spend("release")
    /\ Raise(p)
    /\ UNCHANGED <<dbVars, published>>

-----------------------------------------------------------------------------
(* process_pipeline_failure, from a fresh session.                         *)

BeginRecord(p) ==
    /\ pc[p] = "record"
    /\ TryClaim(p, "ack", "recording")
    /\ UNCHANGED <<sqsVars, inbox, current, dbVars, published, faults>>

(* stage_for_failed_detail_type found nothing: ValueError, left on the     *)
(* queue.                                                                  *)
RecordUnmapped(p) ==
    /\ pc[p] = "recording"
    /\ ~HasFailedStage
    /\ Raise(p)
    /\ UNCHANGED <<dbVars, published, faults>>

MutFailStageOnly(p) ==
    /\ pc[p] = "recording"
    /\ HasFailedStage
    /\ stage' = "failed"
    /\ claims' = claims \cup {WorkerName(p)}
    /\ Goto(p, "publishFailed")
    /\ UNCHANGED <<sqsVars, inbox, current, loaded, rows, job, published, faults>>

(* Mark stage and job failed, unless the job was read as failed already.   *)
CommitFailure(p) ==
    /\ pc[p] = "recording"
    /\ HasFailedStage
    /\ IF loaded[p].job # "failed"
       THEN /\ stage' = Assign(loaded[p].stage, "failed", stage)
            /\ job' = "failed"
       ELSE UNCHANGED <<stage, job>>
    /\ claims' = claims \cup {WorkerName(p)}
    /\ Goto(p, "publishFailed")
    /\ UNCHANGED <<sqsVars, inbox, current, loaded, rows, published, faults>>

(* The database fails while the failure is recorded.                       *)
RecordFails(p) ==
    /\ pc[p] = "recording"
    /\ Spend("record")
    /\ Raise(p)
    /\ UNCHANGED <<dbVars, published>>

-----------------------------------------------------------------------------
(* Acknowledgement: _delete_message swallows its errors, and a receipt of  *)
(* one queue deletes nothing from another.                                 *)

MutAckAnywhere(p) ==
    /\ pc[p] \in {"ack", "record"}
    /\ where' = [where EXCEPT ![current[p]] = IF @ = QueueOf(p) THEN "gone" ELSE @]
    /\ Finish(p)
    /\ UNCHANGED <<visible, receives, loaded, dbVars, published, faults>>

Ack(p) ==
    /\ pc[p] = "ack"
    /\ where' = [where EXCEPT ![current[p]] = IF @ = QueueOf(p) THEN "gone" ELSE @]
    /\ Finish(p)
    /\ UNCHANGED <<visible, receives, loaded, dbVars, published, faults>>

AckFails(p) ==
    /\ pc[p] = "ack"
    /\ Spend("delete")
    /\ Finish(p)
    /\ UNCHANGED <<sqsVars, loaded, dbVars, published>>

-----------------------------------------------------------------------------
(* The environment: SQS timers and redrive, process crashes.               *)

Held(m) == \E p \in Procs : m \in inbox[p]

(* The visibility timeout of a message nobody is handling any more.        *)
Reappear(m) ==
    /\ where[m] # "gone"
    /\ ~visible[m]
    /\ ~Held(m)
    /\ visible' = [visible EXCEPT ![m] = TRUE]
    /\ UNCHANGED <<where, receives, procVars, dbVars, published, faults>>

(* The visibility timeout runs out while a process still has the message.  *)
Expire(m) ==
    /\ where[m] # "gone"
    /\ ~visible[m]
    /\ Held(m)
    /\ Spend("expire")
    /\ visible' = [visible EXCEPT ![m] = TRUE]
    /\ UNCHANGED <<where, receives, procVars, dbVars, published>>

MutNoRedrive(m) == FALSE /\ UNCHANGED vars

Redrive(m) ==
    /\ where[m] = "queue"
    /\ visible[m]
    /\ receives[m] = MaxReceive
    /\ where' = [where EXCEPT ![m] = "dlq"]
    /\ UNCHANGED <<visible, receives, procVars, dbVars, published, faults>>

(* A process dies and is started again: its batch is forgotten and its     *)
(* open transaction rolled back.                                           *)
Crash(p) ==
    /\ inbox[p] # {}
    /\ Spend("crash")
    /\ inbox' = [inbox EXCEPT ![p] = {}]
    /\ current' = [current EXCEPT ![p] = NoMessage]
    /\ Goto(p, "idle")
    /\ UNCHANGED <<sqsVars, loaded, dbVars, published>>

-----------------------------------------------------------------------------
Handle(p) ==
    \/ Begin(p) \/ BeginDlq(p) \/ RejectMalformed(p) \/ DiscardMalformed(p)
    \/ CommitStage(p) \/ Defer(p) \/ FailTerminally(p) \/ FailTransiently(p)
    \/ Announce(p, "publish", "completed")
    \/ AnnounceFails(p, "publish", "completed", "release")
    \/ BeginRecord(p) \/ RecordUnmapped(p) \/ CommitFailure(p) \/ RecordFails(p)
    \/ Announce(p, "publishFailed", "failed")
    \/ AnnounceFails(p, "publishFailed", "failed", "releaseFailed")
    \/ ReleaseClaim(p) \/ ReleaseFails(p)
    \/ Ack(p) \/ AckFails(p)

Settled ==
    /\ \A m \in Messages : where[m] = "gone"
    /\ \A p \in Procs : inbox[p] = {}

(* Every copy deleted and every process idle: nothing is left to do.       *)
Terminated == Settled /\ UNCHANGED vars

Next ==
    \/ \E p \in Procs : Receive(p) \/ Handle(p) \/ Crash(p)
    \/ \E m \in Messages : Reappear(m) \/ Expire(m) \/ Redrive(m)
    \/ Terminated

(* Processes keep polling and running, SQS keeps its timers; no fault is   *)
(* ever obliged to happen.                                                 *)
Fairness ==
    /\ \A p \in Procs : WF_vars(Receive(p)) /\ WF_vars(Handle(p))
    /\ \A m \in Messages : WF_vars(Reappear(m)) /\ WF_vars(Redrive(m))

Spec == Init /\ [][Next]_vars
FairSpec == Spec /\ Fairness

-----------------------------------------------------------------------------
(* Properties.                                                             *)

Owns(p) == pc[p] \in InTx \cup Committed

(* The claim is a lock: of the processes that share a worker name at most  *)
(* one is between its try_claim and the end of its publish, whatever is    *)
(* redelivered, crashes or is released meanwhile.                          *)
ClaimExclusive ==
    \A p, q \in Procs :
        Owns(p) /\ Owns(q) /\ WorkerName(p) = WorkerName(q) => p = q

(* Nothing downstream hears of rows that are not stored: the completion    *)
(* event and the completed stage come with the rows of the stage.          *)
OutputAfterCommit ==
    "completed" \in published \/ stage = "completed" => rows

Undisturbed ==
    \A kind \in {"expire", "crash", "release"} : faults[kind] = Budget[kind]

Drained == \A m \in Events : where[m] = "gone"

(* Publish errors, failed deletes, duplicates and handler exceptions never *)
(* lose the event: once its last copy is deleted, a verdict was published. *)
NoEventLost ==
    Undisturbed /\ ~Defers /\ Drained => published # {}

(* ... and where pipeline.failed is the only verdict, the job says so.     *)
FailureRecorded ==
    Undisturbed /\ Drained /\ published = {"failed"} => job = "failed"

(* An export that finds batches missing leaves nothing behind, through any *)
(* number of redeliveries: no export, no verdict, no finished job, and no  *)
(* claim that would keep a later delivery from being worked on.            *)
DeferredUntouched ==
    Defers => /\ Stage \notin claims
              /\ ~rows
              /\ published = {}
              /\ job # "completed"

(* The queues empty: every copy of the event is worked off for good, by    *)
(* the stage or through the dead-letter queue, whatever faults occur.      *)
Drains == <>[](\A m \in Messages : where[m] = "gone")

(* DlqWorker's promise: a well-formed event that reaches the dead-letter   *)
(* queue ends in a failed job.                                             *)
DlqRecords == (\E m \in Events : where[m] = "dlq") ~> job = "failed"

-----------------------------------------------------------------------------
(* The hop as the rest of the pipeline sees it: the event is open while a  *)
(* copy of it is in a queue.                                               *)
Contract == INSTANCE StageContract WITH
    open      <- ~Drained,
    rows      <- rows,
    published <- published

(* Without lossy faults the hop keeps its contract: rows before the        *)
(* completion event, a verdict before the event is given up, and nothing   *)
(* stored or announced after that.                                         *)
ContractKept == Contract!Spec
=============================================================================
