------------------------------ MODULE Pipeline ------------------------------
(***************************************************************************)
(* The whole pipeline of one job: the handlers of the five stages, each    *)
(* woken by the event the one before published, the failure records of the *)
(* workers and of the dead-letter queue, and the rows all of them write.   *)
(*                                                                         *)
(* The annotation stage is a fan-out and the tasks it dispatches, in local *)
(* mode.  An event is named after the hop it wakes.  One worker polls for  *)
(* each hop and one for the dead-letter queue: as many annotation workers  *)
(* as there is work for at once.                                           *)
(*                                                                         *)
(* A hop is StageRun seen from a distance: the acknowledgement is part of  *)
(* the last step, the release of a claim part of the failed publish, and   *)
(* whether a returned message is redriven is left open.  What StageRun     *)
(* does not have are the row locks of jobs and job_stages and what one hop *)
(* does to the statuses another hop has read.                              *)
(***************************************************************************)
EXTENDS Naturals, Sequences

CONSTANTS
    TaskIds,     \* the annotation tasks in dispatch order: payload.task_ids
    Completion,  \* the annotation.task.completed event of each task
    Faults,      \* the kinds of faults a behaviour may contain
    MaxFaults    \* and how many faults in all

Tasks == {TaskIds[i] : i \in DOMAIN TaskIds}
Dones == {Completion[t] : t \in Tasks}

(* The hops with one event in a job, and all hops.                         *)
Line == {"intake", "preprocessing", "planning", "fanout", "export"}
Hops == Line \cup Tasks
Procs == Hops \cup {"dlq"}
Events == Hops \cup Dones

JobStatuses == {"pending", "running", "completed", "failed"}
Statuses == {"pending", "running", "completed", "failed"}
Terminal == {"completed", "failed"}

(* publish: PutEvents fails outside the annotation stage; taskPublish:     *)
(* inside; ambiguous: it fails but the event got through; record: the      *)
(* publish of pipeline.failed fails; terminal: ValueError or RuntimeError; *)
(* transient: any other exception; redrive: a message reaches the dead-    *)
(* letter queue beside being handled, its receives spent by failed deletes *)
(* or visibility timeouts.                                                 *)
FaultKinds == {"publish", "taskPublish", "ambiguous", "record", "terminal",
               "transient", "duplicate", "crash", "redrive"}

(* planning.completed names at least one task; tasks and events have ids.  *)
ASSUME TasksAssumption ==
    /\ TaskIds \in Seq(Tasks) /\ Tasks # {}
    /\ \A t, u \in Tasks : Completion[t] = Completion[u] => t = u
    /\ Tasks \cap Line = {} /\ Dones \cap Hops = {}
    /\ (Tasks \cup Dones) \cap {"dlq", "export.completed"} = {}

ASSUME FaultsAssumption == Faults \subseteq FaultKinds /\ MaxFaults \in Nat

(* PIPELINE_STAGE_NAMES, in order.                                         *)
PipelineStageNames == <<"intake", "preprocessing", "planning", "annotation", "export">>
Stages == {PipelineStageNames[i] : i \in 1..5}

(* DETAIL_TYPE_TO_FAILED_STAGE: the stage of each event.                   *)
StageOf == [e \in Events |->
    CASE e \in Tasks \cup {"fanout"} -> "annotation"
      [] e \in Dones -> "export"
      [] OTHER -> e]

(* It has no entry for annotation.all_completed.                           *)
Mapped == Events \ {"export"}

(* The rows of a stage; each annotation task stores its own.               *)
Outputs == Hops \ {"fanout"}

(* The worker_name a handler claims its event under, and the one the       *)
(* worker records a terminal failure under.                                *)
ClaimName == [h \in Hops |-> CASE h = "fanout" -> "annotation-orchestrator"
                               [] h \in Tasks -> "annotation"
                               [] OTHER -> h]
FailureClaimName == [p \in Procs |-> IF p \in Tasks \cup {"fanout"} THEN "annotation" ELSE p]
WorkerNames == {"intake", "preprocessing", "planning", "annotation-orchestrator",
                "annotation", "export", "dlq"}

VARIABLES
    queue,     \* copies of each event waiting in its stage's queue
    dead,      \* copies of each event in the dead-letter queue
    pc,        \* where each worker is
    dlqItem,   \* the event the DLQ worker is recording
    loaded,    \* the statuses a worker's open transaction has read
    locked,    \* how many of its row locks it holds
    lastTasks,     \* the tasks whose handler has counted every batch
    claims,    \* committed processed_events rows: event and worker_name
    rows,      \* the hops whose output is committed
    stage,     \* committed job_stages.status
    job,       \* committed jobs.status
    spent,     \* the kinds of faults that have happened
    left       \* how many faults may still happen

msgVars == <<queue, dead>>
txVars == <<pc, dlqItem, loaded, locked, lastTasks>>
dbVars == <<claims, rows, stage, job>>
faultVars == <<spent, left>>
vars == <<msgVars, txVars, dbVars, faultVars>>

Places == {"idle", "tx", "counted", "publish", "record"}

TypeOK ==
    /\ queue \in [Events -> Nat] /\ dead \in [Events -> Nat]
    /\ pc \in [Procs -> Places]
    /\ dlqItem \in Events
    /\ loaded \in [Procs -> [job : JobStatuses, stage : Statuses]]
    /\ locked \in [Procs -> 0..2]
    /\ lastTasks \subseteq Tasks
    /\ claims \subseteq Events \X WorkerNames
    /\ rows \subseteq Outputs
    /\ stage \in [Stages -> Statuses]
    /\ job \in JobStatuses
    /\ spent \subseteq Faults
    /\ left \in 0..MaxFaults

NothingLoaded == [job |-> "pending", stage |-> "pending"]

(* The project was submitted and project.submitted published.              *)
Init ==
    /\ queue = [e \in Events |-> IF e = "intake" THEN 1 ELSE 0]
    /\ dead = [e \in Events |-> 0]
    /\ pc = [p \in Procs |-> "idle"]
    /\ dlqItem = "intake"
    /\ loaded = [p \in Procs |-> NothingLoaded]
    /\ locked = [p \in Procs |-> 0]
    /\ lastTasks = {}
    /\ claims = {}
    /\ rows = {}
    /\ stage = [s \in Stages |-> "pending"]
    /\ job = "pending"
    /\ spent = {}
    /\ left = MaxFaults

-----------------------------------------------------------------------------
(* A definition named Mut... is the bug the definition after it could      *)
(* have; it belongs to no specification.                                   *)

Spend(kind) ==
    /\ kind \in Faults /\ left > 0
    /\ spent' = spent \cup {kind}
    /\ left' = left - 1

Item(p) == IF p = "dlq" THEN dlqItem ELSE p

(* The ORM writes an attribute only if it differs from what was loaded.    *)
Assign(old, new, db) == IF old = new THEN db ELSE new

Load(p, e) == loaded' = [loaded EXCEPT ![p] = [job |-> job, stage |-> stage[StageOf[e]]]]

(* The transaction ends: its locks are gone, what it had read is forgotten,*)
(* but what a task has counted only when its handler is left.              *)
Leave(p, l) ==
    /\ pc' = [pc EXCEPT ![p] = l]
    /\ locked' = [locked EXCEPT ![p] = 0]
    /\ loaded' = [loaded EXCEPT ![p] = NothingLoaded]
    /\ lastTasks' = IF l = "idle" THEN lastTasks \ {p} ELSE lastTasks

(* A message whose handler raised, with the queues being q otherwise: SQS  *)
(* delivers it again or, when it was received often enough, moves it to    *)
(* the dead-letter queue.                                                  *)
ReturnInto(q, p) ==
    \/ /\ p # "dlq"
       /\ queue' = [q EXCEPT ![Item(p)] = @ + 1]
       /\ UNCHANGED dead
    \/ /\ dead' = [dead EXCEPT ![Item(p)] = @ + 1]
       /\ queue' = q

Return(p) == ReturnInto(queue, p)

-----------------------------------------------------------------------------
(* Row locks.  A flush locks the rows it updates until the commit.         *)

MutTouchJobFirst(p) ==
    CASE pc[p] = "record" -> <<StageOf[Item(p)], "job">>
      [] pc[p] = "tx" /\ p \in Line -> <<"job", StageOf[p]>>
      [] OTHER -> <<>>

(* The rows the transaction of p locks, in order.  The first flush of      *)
(* run_intake holds the job's update already, and the unit of work writes  *)
(* jobs before job_stages; run_export and process_pipeline_failure change  *)
(* the job after the stage was flushed.  Every mark_... updates a time of  *)
(* its stage, so that row is always written, the job only if its status    *)
(* changes.  A task writes its stage only if it counted every batch.       *)
LockOrder(p) ==
    LET ifJob(new) == IF loaded[p].job # new THEN <<"job">> ELSE <<>> IN
    CASE pc[p] = "record" /\ loaded[p].job = "failed" -> <<>>
      [] pc[p] = "record" /\ loaded[p].job # "failed" -> <<StageOf[Item(p)], "job">>
      [] pc[p] = "tx" /\ p = "intake" -> ifJob("running") \o <<"intake">>
      [] pc[p] = "tx" /\ p = "export" -> <<"export">> \o ifJob("completed")
      [] pc[p] = "tx" /\ p \in Line \ {"intake", "export"} -> <<StageOf[p]>>
      [] pc[p] = "counted" /\ p \in lastTasks -> <<"annotation">>
      [] OTHER -> <<>>

InTx == {p \in Procs : pc[p] \in {"tx", "counted", "record"}}
Holds(p, r) == \E i \in 1..locked[p] : LockOrder(p)[i] = r
AllLocked(p) == locked[p] = Len(LockOrder(p))

Waits(p, q) ==
    /\ ~AllLocked(p)
    /\ Holds(q, LockOrder(p)[locked[p] + 1])

Lock(p) ==
    /\ p \in InTx /\ ~AllLocked(p)
    /\ \A q \in InTx : ~Waits(p, q)
    /\ locked' = [locked EXCEPT ![p] = @ + 1]
    /\ UNCHANGED <<msgVars, pc, dlqItem, loaded, lastTasks, dbVars, faultVars>>

(* Postgres finds the cycle and aborts one of the two: its handler raises, *)
(* and the other is given the row it waited for.                           *)
DeadlockAbort(p) ==
    \E q \in InTx :
        /\ p \in InTx /\ Waits(p, q) /\ Waits(q, p)
        /\ Return(p)
        /\ pc' = [pc EXCEPT ![p] = "idle"]
        /\ locked' = [locked EXCEPT ![p] = 0, ![q] = @ + 1]
        /\ loaded' = [loaded EXCEPT ![p] = NothingLoaded]
        /\ lastTasks' = lastTasks \ {p}
        /\ UNCHANGED <<dlqItem, dbVars, faultVars>>

-----------------------------------------------------------------------------
(* The stage handlers.                                                     *)

MutTakeEmpty(h) ==
    /\ pc[h] = "idle"
    /\ queue' = [queue EXCEPT ![h] = @ - 1]
    /\ IF <<h, ClaimName[h]>> \in claims
       THEN UNCHANGED <<pc, loaded>>
       ELSE pc' = [pc EXCEPT ![h] = "tx"] /\ Load(h, h)
    /\ UNCHANGED <<dead, dlqItem, locked, lastTasks, dbVars, faultVars>>

(* Receive a message, claim its event and load the job: StageRun.begin.    *)
(* An event claimed before is skipped and acknowledged.                    *)
Take(h) ==
    /\ pc[h] = "idle"
    /\ queue[h] > 0
    /\ queue' = [queue EXCEPT ![h] = @ - 1]
    /\ IF <<h, ClaimName[h]>> \in claims
       THEN UNCHANGED <<pc, loaded>>
       ELSE pc' = [pc EXCEPT ![h] = "tx"] /\ Load(h, h)
    /\ UNCHANGED <<dead, dlqItem, locked, lastTasks, dbVars, faultVars>>

(* annotation.task.completed comes to the export queue, too; its worker    *)
(* acknowledges it and does nothing.                                       *)
Skip(d) ==
    /\ pc["export"] = "idle"
    /\ queue[d] > 0
    /\ queue' = [queue EXCEPT ![d] = @ - 1]
    /\ UNCHANGED <<dead, txVars, dbVars, faultVars>>

MutCount(t) ==
    /\ pc[t] = "tx"
    /\ pc' = [pc EXCEPT ![t] = "counted"]
    /\ lastTasks' = IF rows \cap Tasks # {} \/ Tasks = {t} THEN lastTasks \cup {t} ELSE lastTasks
    /\ UNCHANGED <<msgVars, dlqItem, loaded, locked, dbVars, faultVars>>

(* Label the segments and count the batches: those that are committed and  *)
(* the task's own.                                                         *)
Count(t) ==
    /\ pc[t] = "tx"
    /\ pc' = [pc EXCEPT ![t] = "counted"]
    /\ lastTasks' = IF Tasks \subseteq rows \cup {t} THEN lastTasks \cup {t} ELSE lastTasks
    /\ UNCHANGED <<msgVars, dlqItem, loaded, locked, dbVars, faultVars>>

(* What complete_stage, or the commit of fan-out and task, leaves in the   *)
(* stage row.  A handler that marked the stage running before has written  *)
(* it anyway; a task marks it only if it counted every batch.              *)
StageAfter(h) ==
    LET old == loaded[h].stage
        db == stage[StageOf[h]]
    IN  CASE h = "fanout" -> Assign(old, "running", db)
          [] h = "intake" \/ h \in lastTasks -> Assign(old, "completed", db)
          [] h \in Tasks \ lastTasks -> db
          [] OTHER -> "completed"

MutJobAfter(h) ==
    CASE h = "intake" -> Assign(loaded[h].job, "running", job)
      [] h \in Tasks \cup {"export"} -> Assign(loaded[h].job, "completed", job)
      [] OTHER -> job

JobAfter(h) ==
    CASE h = "intake" -> Assign(loaded[h].job, "running", job)
      [] h = "export" -> Assign(loaded[h].job, "completed", job)
      [] OTHER -> job

Commit(h) ==
    /\ pc[h] = (IF h \in Tasks THEN "counted" ELSE "tx")
    /\ AllLocked(h)
    /\ claims' = claims \cup {<<h, ClaimName[h]>>}
    /\ rows' = IF h = "fanout" THEN rows ELSE rows \cup {h}
    /\ stage' = [stage EXCEPT ![StageOf[h]] = StageAfter(h)]
    /\ job' = JobAfter(h)
    /\ Leave(h, "publish")
    /\ UNCHANGED <<msgVars, dlqItem, faultVars>>

(* What a handler publishes, in order, and the events it thereby wakes: the*)
(* detail types and the queues the rules of the bus copy them to.  No queue*)
(* gets export.completed.                                                  *)
Outbox(h) ==
    CASE h = "intake" -> <<"preprocessing">>
      [] h = "preprocessing" -> <<"planning">>
      [] h = "planning" -> <<"fanout">>
      [] h = "fanout" -> TaskIds
      [] h \in Tasks \ lastTasks -> <<Completion[h]>>
      [] h \in Tasks \cap lastTasks -> <<Completion[h], "export">>
      [] OTHER -> <<"export.completed">>

(* The first n of them got through.                                        *)
Sent(h, n) == {Outbox(h)[i] : i \in 1..n}
Deliver(h, n) == [e \in Events |-> IF e \in Sent(h, n) THEN queue[e] + 1 ELSE queue[e]]

(* Publish the completion event, or one after the other, and acknowledge.  *)
(* (A handler that starts on an early one might as well start later.)      *)
Publish(h) ==
    /\ pc[h] = "publish"
    /\ queue' = Deliver(h, Len(Outbox(h)))
    /\ Leave(h, "idle")
    /\ UNCHANGED <<dead, dlqItem, dbVars, faultVars>>

PublishFault(h) == IF h \in Tasks \cup {"fanout"} THEN "taskPublish" ELSE "publish"

MutKeepClaim(h) ==
    /\ pc[h] = "publish"
    /\ \E n \in 1..Len(Outbox(h)) :
          \/ Spend(PublishFault(h)) /\ ReturnInto(Deliver(h, n - 1), h)
          \/ Spend("ambiguous") /\ ReturnInto(Deliver(h, n), h)
    /\ Leave(h, "idle")
    /\ UNCHANGED <<dlqItem, dbVars>>

(* A publish fails: release the claim, leave the message.  The events      *)
(* before are out, and the failed one may be, too.                         *)
PublishFails(h) ==
    /\ pc[h] = "publish"
    /\ \E n \in 1..Len(Outbox(h)) :
          \/ Spend(PublishFault(h)) /\ ReturnInto(Deliver(h, n - 1), h)
          \/ Spend("ambiguous") /\ ReturnInto(Deliver(h, n), h)
    /\ claims' = claims \ {<<h, ClaimName[h]>>}
    /\ Leave(h, "idle")
    /\ UNCHANGED <<dlqItem, rows, stage, job>>

FailTransiently(h) ==
    /\ pc[h] \in {"tx", "counted"}
    /\ Spend("transient")
    /\ Return(h)
    /\ Leave(h, "idle")
    /\ UNCHANGED <<dlqItem, dbVars>>

-----------------------------------------------------------------------------
(* Failure records: process_pipeline_failure, from the stage worker with   *)
(* its own name or from the DLQ worker as "dlq".                           *)

(* ValueError or RuntimeError in a handler: roll back, then claim and load *)
(* in a fresh session.  With the claim taken the failure is a duplicate; a *)
(* detail type that maps to no stage raises again.                         *)
FailTerminally(h) ==
    /\ pc[h] = "tx"
    /\ Spend("terminal")
    /\ IF <<h, FailureClaimName[h]>> \in claims
       THEN Leave(h, "idle") /\ UNCHANGED msgVars
       ELSE IF h \in Mapped
            THEN /\ pc' = [pc EXCEPT ![h] = "record"]
                 /\ locked' = [locked EXCEPT ![h] = 0]
                 /\ Load(h, h)
                 /\ UNCHANGED <<msgVars, lastTasks>>
            ELSE Leave(h, "idle") /\ Return(h)
    /\ UNCHANGED <<dlqItem, dbVars>>

(* The DLQ worker takes a message it can map; one it cannot stays.         *)
TakeDead(e) ==
    /\ pc["dlq"] = "idle"
    /\ dead[e] > 0 /\ e \in Mapped
    /\ dead' = [dead EXCEPT ![e] = @ - 1]
    /\ IF <<e, "dlq">> \in claims
       THEN UNCHANGED <<pc, dlqItem, loaded>>
       ELSE /\ pc' = [pc EXCEPT !["dlq"] = "record"]
            /\ dlqItem' = e
            /\ Load("dlq", e)
    /\ UNCHANGED <<queue, locked, lastTasks, dbVars, faultVars>>

MutRecordStageOnly(p) ==
    IF loaded[p].job = "failed"
    THEN UNCHANGED <<stage, job>>
    ELSE /\ stage' = [stage EXCEPT ![StageOf[Item(p)]] = "failed"]
         /\ UNCHANGED job

(* A job that is failed already keeps the stage it failed in.              *)
MarkFailed(p) ==
    IF loaded[p].job = "failed"
    THEN UNCHANGED <<stage, job>>
    ELSE /\ stage' = [stage EXCEPT ![StageOf[Item(p)]] = Assign(loaded[p].stage, "failed", @)]
         /\ job' = "failed"

MutRecordLeavesMessage(p) ==
    /\ pc[p] = "record" /\ AllLocked(p)
    /\ MarkFailed(p)
    /\ claims' = claims \cup {<<Item(p), FailureClaimName[p]>>}
    /\ Return(p)
    /\ Leave(p, "idle")
    /\ UNCHANGED <<dlqItem, rows, faultVars>>

(* Commit the failure, publish pipeline.failed, acknowledge.               *)
Record(p) ==
    /\ pc[p] = "record" /\ AllLocked(p)
    /\ MarkFailed(p)
    /\ claims' = claims \cup {<<Item(p), FailureClaimName[p]>>}
    /\ Leave(p, "idle")
    /\ UNCHANGED <<msgVars, dlqItem, rows, faultVars>>

(* The failure is committed, its publish fails: the claim is released and  *)
(* the message left, to be handled as if nothing had happened.             *)
RecordFails(p) ==
    /\ pc[p] = "record" /\ AllLocked(p)
    /\ Spend("record")
    /\ MarkFailed(p)
    /\ Return(p)
    /\ Leave(p, "idle")
    /\ UNCHANGED <<dlqItem, claims, rows>>

-----------------------------------------------------------------------------
(* The surroundings.                                                       *)

(* A process dies and is started again; its transaction is rolled back and *)
(* its message reappears.  What it has published by then is out.           *)
Crash(p) ==
    /\ pc[p] # "idle"
    /\ Spend("crash")
    /\ \/ Return(p)
       \/ /\ p \in Hops /\ pc[p] = "publish"
          /\ \E n \in 1..Len(Outbox(p)) : ReturnInto(Deliver(p, n), p)
    /\ Leave(p, "idle")
    /\ UNCHANGED <<dlqItem, dbVars>>

(* At-least-once delivery, by the bus or by SQS.                           *)
Duplicate(e) ==
    /\ queue[e] > 0
    /\ Spend("duplicate")
    /\ queue' = [queue EXCEPT ![e] = @ + 1]
    /\ UNCHANGED <<dead, txVars, dbVars>>

(* A message has been received too often when its handler gets to it, or   *)
(* is never deleted although it was handled.                               *)
Redrive(e) ==
    /\ queue[e] > 0
    /\ Spend("redrive")
    /\ dead' = [dead EXCEPT ![e] = @ + 1]
    /\ UNCHANGED <<queue, txVars, dbVars>>

Quiescent ==
    /\ \A p \in Procs : pc[p] = "idle"
    /\ \A e \in Events : queue[e] = 0 /\ (e \in Mapped => dead[e] = 0)

Terminated == Quiescent /\ UNCHANGED vars

Work(h) ==
    \/ Take(h) \/ Lock(h) \/ Commit(h) \/ Publish(h) \/ PublishFails(h)
    \/ FailTransiently(h) \/ FailTerminally(h) \/ Record(h) \/ RecordFails(h)
    \/ h \in Tasks /\ Count(h)
    \/ h = "export" /\ \E d \in Dones : Skip(d)

WorkDlq ==
    \/ \E e \in Events : TakeDead(e)
    \/ Lock("dlq") \/ Record("dlq") \/ RecordFails("dlq")

Next ==
    \/ \E h \in Hops : Work(h)
    \/ WorkDlq
    \/ \E p \in Procs : DeadlockAbort(p) \/ Crash(p)
    \/ \E e \in Events : Duplicate(e) \/ Redrive(e)
    \/ Terminated

Spec == Init /\ [][Next]_vars

(* Workers keep polling and handling, and Postgres detects deadlocks.      *)
Fairness ==
    /\ \A h \in Hops : WF_vars(Work(h))
    /\ WF_vars(WorkDlq)
    /\ WF_vars(\E p \in Procs : DeadlockAbort(p))

FairSpec == Spec /\ Fairness
-----------------------------------------------------------------------------
(* Properties.                                                             *)

(* The outputs that are to be there before an event is.                    *)
Upstream == [e \in Events |->
    CASE e = "intake" -> {}
      [] e = "preprocessing" -> {"intake"}
      [] e = "planning" -> {"intake", "preprocessing"}
      [] e \in Tasks \cup {"fanout"} -> {"intake", "preprocessing", "planning"}
      [] e = "export" -> Outputs \ {"export"}
      [] OTHER -> {"intake", "preprocessing", "planning"}
                      \cup {t \in Tasks : Completion[t] = e}]

InHand(e) ==
    \/ queue[e] > 0 \/ dead[e] > 0
    \/ e \in Hops /\ pc[e] # "idle"
    \/ pc["dlq"] # "idle" /\ dlqItem = e

(* Whatever is retried, redelivered, recorded or crashed, an event exists  *)
(* only while everything the stages before it had to store is stored: no   *)
(* handler finds its input missing, and export need not wait for batches.  *)
ChainSound == \A e \in Events : InHand(e) => Upstream[e] \subseteq rows

(* A job shown as completed has the output of every stage and every task.  *)
CompletedSound == job = "completed" => rows = Outputs

(* Postgres need not break up two transactions of which none is intake's:  *)
(* every other handler locks its stage before the job.                     *)
OnlyIntakeDeadlocks ==
    \A p, q \in InTx : Waits(p, q) /\ Waits(q, p) => "intake" \in {p, q}

(* Every event was delivered once, no handler was cut short after its      *)
(* commit, and every publish of the annotation stage succeeded.  (A task   *)
(* that has stored its batch but cannot announce it is both: the others    *)
(* count its batch, and the dead-letter queue records its failure.)        *)
Undisturbed ==
    spent \cap {"ambiguous", "taskPublish", "record", "duplicate", "crash", "redrive"} = {}

(* A failed job stays failed, tasks that finish beside the one that failed *)
(* included.  The exempted faults each resurrect it: a second copy of an   *)
(* event that runs, the failure's own message left after the failure was   *)
(* committed, or a task that counts the batch of a failed one.             *)
FailureFinal == [][Undisturbed' /\ job = "failed" => job' = "failed"]_vars

FailedIn(i) ==
    \A j \in 1..5 : stage[PipelineStageNames[j]] =
        (IF j < i THEN "completed" ELSE IF j = i THEN "failed" ELSE "pending")

(* Every batch is stored and no task has seen that it is the last one.     *)
LostFanIn == Tasks \subseteq rows /\ stage["annotation"] = "running"

(* How an undisturbed job comes to rest: completed in every stage; failed  *)
(* with one failed stage, those before it completed and those after it     *)
(* untouched, however many of its tasks failed; or running: stranded in    *)
(* export with its event in the dead-letter queue, where no stage is       *)
(* recorded for it, or short of its fan-in.                                *)
StatusesAgree ==
    Undisturbed /\ Quiescent =>
        \/ job = "completed" /\ \A s \in Stages : stage[s] = "completed"
        \/ job = "failed" /\ \E i \in 1..5 : FailedIn(i)
        \/ job = "running" /\ dead["export"] > 0
        \/ job = "running" /\ LostFanIn /\ stage["export"] = "pending"

(* The job gets to a terminal status and keeps it, unless a crash lost an  *)
(* event, its last event is stranded, its fan-in was lost, or an intake    *)
(* that ran again put it back to running: after its publish had got        *)
(* through, or after the dead-letter queue has recorded its event, which   *)
(* it does only once.                                                      *)
Settles ==
    <>[](\/ job \in Terminal
         \/ dead["export"] > 0
         \/ LostFanIn
         \/ spent \cap {"ambiguous", "crash"} # {}
         \/ <<"intake", "dlq">> \in claims)
=============================================================================
