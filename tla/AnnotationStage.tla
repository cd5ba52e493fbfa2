--------------------------- MODULE AnnotationStage ---------------------------
(***************************************************************************)
(* The annotation stage in local mode: planning.completed is fanned out    *)
(* into one annotation.task.dispatched event per task on the same queue,   *)
(* and the handler that finds every task's batch stored completes the      *)
(* stage and publishes annotation.all_completed.                           *)
(*                                                                         *)
(* Each handler runs in one READ COMMITTED transaction: its count of the   *)
(* batches sees the committed rows and its own, not those another worker   *)
(* has flushed but not committed.                                          *)
(*                                                                         *)
(* Delivery is reduced to what the fan-in depends on, a queue of copies    *)
(* per event: a message is taken when its claim can be decided and goes    *)
(* back when its handler raises.  Receipts, timeouts and the dead-letter   *)
(* queue are the subject of StageRun.                                      *)
(***************************************************************************)
EXTENDS Naturals, FiniteSets

CONSTANTS
    TaskCount,  \* annotation tasks of the job, numbered by task_index
    Workers,    \* processes polling the annotation queue
    Budget,     \* how many faults of each kind a behaviour may contain
    Plan,       \* the planning.completed event
    NoItem

FaultKinds == {"publish", "transient", "reload", "duplicate", "crash"}
Tasks == 1..TaskCount
Items == Tasks \cup {Plan}
Statuses == {"pending", "running", "completed", "failed"}

ASSUME TaskCountAssumption == TaskCount \in Nat \ {0}
ASSUME ItemsAssumption == Plan \notin Tasks /\ NoItem \notin Items
ASSUME BudgetAssumption == Budget \in [FaultKinds -> Nat]

VARIABLES
    queue,         \* copies of each event waiting in the queue
    current,       \* the event a worker is handling
    pc,            \* where its handler is
    next,          \* the task publish_many is about to dispatch
    last,          \* the handler counted a batch for every task
    loaded,        \* the stage status its transaction read
    claims,        \* events with a committed claim of their handler
    batches,       \* tasks with a committed annotation batch
    stage,         \* committed job_stages.status of the annotation stage
    job,           \* committed jobs.status
    allCompleted,  \* annotation.all_completed reached the bus
    faults         \* faults still available

workerVars == <<current, pc, next, last, loaded>>
dbVars == <<claims, batches, stage, job>>
vars == <<queue, workerVars, dbVars, allCompleted, faults>>

InTx == {"plan", "label", "counted"}
Locations == InTx \cup
    {"idle", "wrap", "dispatch", "announce", "announceAll", "release", "ack"}

TypeOK ==
    /\ queue \in [Items -> Nat]
    /\ current \in [Workers -> Items \cup {NoItem}]
    /\ pc \in [Workers -> Locations]
    /\ next \in [Workers -> 1..(TaskCount + 1)]
    /\ last \in [Workers -> BOOLEAN]
    /\ loaded \in [Workers -> Statuses]
    /\ claims \subseteq Items
    /\ batches \subseteq Tasks
    /\ stage \in Statuses
    /\ job \in {"running", "failed"}
    /\ allCompleted \in BOOLEAN
    /\ faults \in [FaultKinds -> Nat]

(* Planning has finished and published planning.completed.                 *)
Init ==
    /\ queue = [i \in Items |-> IF i = Plan THEN 1 ELSE 0]
    /\ current = [w \in Workers |-> NoItem]
    /\ pc = [w \in Workers |-> "idle"]
    /\ next = [w \in Workers |-> 1]
    /\ last = [w \in Workers |-> FALSE]
    /\ loaded = [w \in Workers |-> "pending"]
    /\ claims = {}
    /\ batches = {}
    /\ stage = "pending"
    /\ job = "running"
    /\ allCompleted = FALSE
    /\ faults = Budget

-----------------------------------------------------------------------------
(* A definition named Mut... is the bug the definition after it could      *)
(* have; it belongs to no specification.                                   *)

Spend(kind) ==
    /\ faults[kind] > 0
    /\ faults' = [faults EXCEPT ![kind] = @ - 1]

Goto(w, l) == pc' = [pc EXCEPT ![w] = l]

Send(i) == queue' = [queue EXCEPT ![i] = @ + 1]

(* The handler raised: its transaction is rolled back and the message will *)
(* be delivered again.                                                     *)
Return(w) ==
    /\ Send(current[w])
    /\ Goto(w, "idle")
    /\ current' = [current EXCEPT ![w] = NoItem]
    /\ UNCHANGED <<next, last, loaded>>

(* The ORM writes an attribute only if it differs from what was loaded.    *)
Assign(old, new, db) == IF old = new THEN db ELSE new

(* Receive a message, try_claim its event and load the job with its        *)
(* stages.  A claim another transaction holds uncommitted is waited for.   *)
Take(w, i) ==
    /\ pc[w] = "idle"
    /\ queue[i] > 0
    /\ \A v \in Workers : current[v] = i => pc[v] \notin InTx
    /\ queue' = [queue EXCEPT ![i] = @ - 1]
    /\ current' = [current EXCEPT ![w] = i]
    /\ \/ /\ i \in claims
          /\ Goto(w, "ack")
          /\ UNCHANGED loaded
       \/ /\ i \notin claims
          /\ Goto(w, IF i = Plan THEN "plan" ELSE "label")
          /\ loaded' = [loaded EXCEPT ![w] = stage]
    /\ UNCHANGED <<next, last, dbVars, allCompleted, faults>>

-----------------------------------------------------------------------------
(* run_annotation_fanout: prepare_annotation_fanout marks the stage        *)
(* running and commits, wrap_claimed loads the job again, then             *)
(* publish_many dispatches the tasks in order.                             *)

PrepareFanout(w) ==
    /\ pc[w] = "plan"
    /\ stage' = Assign(loaded[w], "running", stage)
    /\ claims' = claims \cup {Plan}
    /\ next' = [next EXCEPT ![w] = 1]
    /\ Goto(w, "wrap")
    /\ UNCHANGED <<queue, current, last, loaded, batches, job, allCompleted, faults>>

WrapClaimed(w) ==
    /\ pc[w] = "wrap"
    /\ Goto(w, "dispatch")
    /\ UNCHANGED <<queue, current, next, last, loaded, dbVars, allCompleted, faults>>

(* The second load fails: the exception leaves the handler and the claim,  *)
(* committed already, is not released.                                     *)
WrapFails(w) ==
    /\ pc[w] = "wrap"
    /\ Spend("reload")
    /\ Return(w)
    /\ UNCHANGED <<dbVars, allCompleted>>

MutDispatchOneMore(w) ==
    /\ pc[w] = "dispatch"
    /\ Send(next[w])
    /\ next' = [next EXCEPT ![w] = @ + 1]
    /\ Goto(w, IF next[w] > TaskCount THEN "ack" ELSE "dispatch")
    /\ UNCHANGED <<current, last, loaded, dbVars, allCompleted, faults>>

Dispatch(w) ==
    /\ pc[w] = "dispatch"
    /\ Send(next[w])
    /\ next' = [next EXCEPT ![w] = @ + 1]
    /\ Goto(w, IF next[w] = TaskCount THEN "ack" ELSE "dispatch")
    /\ UNCHANGED <<current, last, loaded, dbVars, allCompleted, faults>>

MutSwallowDispatchError(w) ==
    /\ pc[w] = "dispatch"
    /\ Spend("publish")
    /\ Send(next[w]) \/ UNCHANGED queue
    /\ Goto(w, "ack")
    /\ UNCHANGED <<current, next, last, loaded, dbVars, allCompleted>>

(* A failed PutEvents may have delivered its event all the same.           *)
DispatchFails(w) ==
    /\ pc[w] = "dispatch"
    /\ Spend("publish")
    /\ Send(next[w]) \/ UNCHANGED queue
    /\ Goto(w, "release")
    /\ UNCHANGED <<current, next, last, loaded, dbVars, allCompleted>>

-----------------------------------------------------------------------------
(* run_annotation_task.                                                    *)

(* _load_or_create_batch: the batches as the handler's transaction sees    *)
(* them, its own stored before or flushed now.                             *)
WithOwnBatch(w) == batches \cup {current[w]}

MutCountAlmostAll(w) ==
    /\ pc[w] = "label"
    /\ last' = [last EXCEPT ![w] = Cardinality(WithOwnBatch(w)) + 1 >= TaskCount]
    /\ Goto(w, "counted")
    /\ UNCHANGED <<queue, current, next, loaded, dbVars, allCompleted, faults>>

(* With the batch flushed, count the batches of the job.                   *)
LabelAndCount(w) ==
    /\ pc[w] = "label"
    /\ last' = [last EXCEPT ![w] = Cardinality(WithOwnBatch(w)) >= TaskCount]
    /\ Goto(w, "counted")
    /\ UNCHANGED <<queue, current, next, loaded, dbVars, allCompleted, faults>>

CommitTask(w) ==
    /\ pc[w] = "counted"
    /\ batches' = WithOwnBatch(w)
    /\ claims' = claims \cup {current[w]}
    /\ stage' = IF last[w] THEN Assign(loaded[w], "completed", stage) ELSE stage
    /\ Goto(w, "announce")
    /\ UNCHANGED <<queue, current, next, last, loaded, job, allCompleted, faults>>

(* annotation.task.completed; nobody acts on it.                           *)
AnnounceTask(w) ==
    /\ pc[w] = "announce"
    /\ Goto(w, IF last[w] THEN "announceAll" ELSE "ack")
    /\ UNCHANGED <<queue, current, next, last, loaded, dbVars, allCompleted, faults>>

AnnounceAll(w) ==
    /\ pc[w] = "announceAll"
    /\ allCompleted' = TRUE
    /\ Goto(w, "ack")
    /\ UNCHANGED <<queue, current, next, last, loaded, dbVars, faults>>

AnnounceFails(w) ==
    /\ pc[w] \in {"announce", "announceAll"}
    /\ Spend("publish")
    /\ \/ UNCHANGED allCompleted
       \/ pc[w] = "announceAll" /\ allCompleted' = TRUE
    /\ Goto(w, "release")
    /\ UNCHANGED <<queue, current, next, last, loaded, dbVars>>

-----------------------------------------------------------------------------
(* Common to both handlers.                                                *)

MutKeepClaim(w) ==
    /\ pc[w] = "release"
    /\ Return(w)
    /\ UNCHANGED <<dbVars, allCompleted, faults>>

(* publish and publish_many release the claim, then re-raise.              *)
ReleaseClaim(w) ==
    /\ pc[w] = "release"
    /\ claims' = claims \ {current[w]}
    /\ Return(w)
    /\ UNCHANGED <<batches, stage, job, allCompleted, faults>>

Ack(w) ==
    /\ pc[w] = "ack"
    /\ Goto(w, "idle")
    /\ current' = [current EXCEPT ![w] = NoItem]
    /\ UNCHANGED <<queue, next, last, loaded, dbVars, allCompleted, faults>>

(* An LLM or database error before the commit.                             *)
FailTransiently(w) ==
    /\ pc[w] \in InTx
    /\ Spend("transient")
    /\ Return(w)
    /\ UNCHANGED <<dbVars, allCompleted>>

(* ValueError or RuntimeError before the commit: roll back, record the     *)
(* failure and acknowledge.  The failure is claimed as "annotation", which *)
(* is the task handler's claim but not the fan-out's.                      *)
FailTerminally(w) ==
    /\ pc[w] \in InTx
    /\ IF job # "failed"
       THEN stage' = "failed" /\ job' = "failed"
       ELSE UNCHANGED <<stage, job>>
    /\ claims' = IF current[w] = Plan THEN claims ELSE claims \cup {current[w]}
    /\ Goto(w, "ack")
    /\ UNCHANGED <<queue, current, next, last, loaded, batches, allCompleted, faults>>

Crash(w) ==
    /\ pc[w] # "idle"
    /\ Spend("crash")
    /\ Return(w)
    /\ UNCHANGED <<dbVars, allCompleted>>

(* At-least-once delivery of a message that is still queued.               *)
Duplicate(i) ==
    /\ queue[i] > 0
    /\ Spend("duplicate")
    /\ Send(i)
    /\ UNCHANGED <<workerVars, dbVars, allCompleted>>

-----------------------------------------------------------------------------
Handle(w) ==
    \/ \E i \in Items : Take(w, i)
    \/ PrepareFanout(w) \/ WrapClaimed(w) \/ WrapFails(w)
    \/ Dispatch(w) \/ DispatchFails(w)
    \/ LabelAndCount(w) \/ CommitTask(w)
    \/ AnnounceTask(w) \/ AnnounceAll(w) \/ AnnounceFails(w)
    \/ ReleaseClaim(w) \/ Ack(w)
    \/ FailTransiently(w) \/ FailTerminally(w)

Quiescent ==
    /\ \A i \in Items : queue[i] = 0
    /\ \A w \in Workers : pc[w] = "idle"

Terminated == Quiescent /\ UNCHANGED vars

Next ==
    \/ \E w \in Workers : Handle(w) \/ Crash(w)
    \/ \E i \in Items : Duplicate(i)
    \/ Terminated

Spec == Init /\ [][Next]_vars

(* Workers keep running.                                                   *)
FairSpec == Spec /\ \A w \in Workers : WF_vars(Handle(w))

-----------------------------------------------------------------------------
(* Properties.                                                             *)

(* Export is never started early: annotation.all_completed is out, or the  *)
(* stage shown as completed, only with the batch of every task committed.  *)
AllCompletedSound == allCompleted \/ stage = "completed" => batches = Tasks

Undisturbed == \A kind \in {"crash", "reload"} : faults[kind] = Budget[kind]

(* No task is forgotten: unless a committed handler was cut short or the   *)
(* job failed, the stage comes to rest only with every batch stored,       *)
(* whatever dispatches failed half way, were repeated or delivered twice.  *)
EveryTaskLabelled == Undisturbed /\ Quiescent /\ job # "failed" => batches = Tasks

(* The fan-in fires: ... and with annotation.all_completed published.      *)
FanInAnnounced == Undisturbed /\ Quiescent /\ job # "failed" => allCompleted

(* The stage gets there.                                                   *)
FanInHappens == <>(allCompleted \/ job = "failed")
=============================================================================
