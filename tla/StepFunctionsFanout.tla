------------------------ MODULE StepFunctionsFanout ------------------------
(***************************************************************************)
(* The annotation stage orchestrated by Step Functions: an execution runs  *)
(* the prepare task, maps over the tasks it returned, sends each as a      *)
(* queue message with a task token, waits for every token and announces    *)
(* annotation.all_completed itself.  The annotation workers answer the     *)
(* tokens; an unanswered one is waited for without a timeout.              *)
(*                                                                         *)
(* AnnotationStage is the same stage in local mode.                        *)
(***************************************************************************)
EXTENDS Naturals, FiniteSets

CONSTANTS
    Executions,     \* executions of the state machine for this job
    First,          \* the one its planning.completed event starts
    Tasks,          \* the annotation tasks of the job
    Workers,        \* annotation workers
    MaxConcurrency, \* of the Map state
    MaxAttempts,    \* retries of PrepareFanout
    Faults,         \* the kinds of faults a behaviour may contain
    MaxFaults       \* and how many faults in all

FaultKinds == {"start", "prepare", "prepareAnswer", "prepareDies",
               "dispatch", "announce", "terminal", "transient", "publish", "cap", "answer", "crash",
               "redrive", "duplicate"}
Ended == {"announced", "skipped", "failed"}

(* planning.completed names at least one task.                             *)
ASSUME FanoutAssumption ==
    /\ First \in Executions
    /\ Tasks # {}
    /\ MaxConcurrency \in Nat \ {0} /\ MaxAttempts \in Nat
    /\ Faults \subseteq FaultKinds /\ MaxFaults \in Nat

VARIABLES
    phase,    \* the state each execution is in
    retries,  \* of its PrepareFanout
    prepare,  \* where its prepare container is
    sent,     \* tasks it has sent to the queue
    answered, \* tasks whose token was answered
    copies,   \* messages waiting: copies of each execution's task
    at,       \* where each worker is
    token,    \* the execution and task of the message it handles
    counted,  \* the batches it counted
    prepared, \* planning.completed is claimed by the orchestrator, committed
    claims,   \* tasks whose event is claimed as "annotation", committed
    batches,  \* tasks whose batch is committed
    stage,    \* job_stages.status of the annotation stage
    job,      \* jobs.status
    spent,    \* the kinds of faults that have happened
    left      \* how many faults may still happen

machineVars == <<phase, retries, prepare, sent, answered>>
workVars == <<copies, at, token, counted>>
dbVars == <<prepared, claims, batches, stage, job>>
faultVars == <<spent, left>>
vars == <<machineVars, workVars, dbVars, faultVars>>

(* The domain of each variable.                                           *)
TypeOK ==
    /\ phase \in [Executions -> {"unstarted", "preparing", "mapping"} \cup Ended]
    /\ retries \in [Executions -> 0..MaxAttempts]
    /\ prepare \in [Executions -> {"idle", "begun", "committed", "dead"}]
    /\ \A x \in Executions :
          /\ answered[x] \subseteq sent[x] /\ sent[x] \subseteq Tasks
          /\ Cardinality(sent[x] \ answered[x]) <= MaxConcurrency
    /\ copies \in [Executions \X Tasks -> Nat]
    /\ at \in [Workers -> {"idle", "tx", "counted", "publish", "answer", "skip"}]
    /\ token \in [Workers -> Executions \X Tasks]
    /\ counted \in [Workers -> SUBSET Tasks]
    /\ prepared \in BOOLEAN
    /\ claims \subseteq Tasks /\ batches \subseteq Tasks
    /\ stage \in {"pending", "running", "completed", "failed"}
    /\ job \in {"running", "failed"}
    /\ spent \subseteq Faults /\ left \in 0..MaxFaults

Init ==
    /\ phase = [x \in Executions |-> IF x = First THEN "preparing" ELSE "unstarted"]
    /\ retries = [x \in Executions |-> 0]
    /\ prepare = [x \in Executions |-> "idle"]
    /\ sent = [x \in Executions |-> {}] /\ answered = [x \in Executions |-> {}]
    /\ copies = [m \in Executions \X Tasks |-> 0]
    /\ at = [w \in Workers |-> "idle"]
    /\ token \in [Workers -> {<<First, CHOOSE t \in Tasks : TRUE>>}]
    /\ counted = [w \in Workers |-> {}]
    /\ prepared = FALSE /\ claims = {} /\ batches = {}
    /\ stage = "pending" /\ job = "running"
    /\ spent = {} /\ left = MaxFaults

Spend(kind) ==
    /\ kind \in Faults /\ left > 0
    /\ spent' = spent \cup {kind}
    /\ left' = left - 1

-----------------------------------------------------------------------------
(* A definition named Mut... is the bug the definition after it could      *)
(* have; it belongs to no specification.                                   *)

(* The bus delivers planning.completed twice: a second execution.          *)
Start(x) ==
    /\ phase[x] = "unstarted"
    /\ Spend("start")
    /\ phase' = [phase EXCEPT ![x] = "preparing"]
    /\ UNCHANGED <<retries, prepare, sent, answered, workVars, dbVars>>

MutPrepareBegin(x) ==
    /\ phase[x] = "preparing" /\ prepare[x] = "idle"
    /\ \A y \in Executions : prepare[y] # "begun"
    /\ IF prepared
       THEN phase' = [phase EXCEPT ![x] = "skipped"] /\ UNCHANGED <<prepare, prepared>>
       ELSE /\ prepare' = [prepare EXCEPT ![x] = "begun"]
            /\ prepared' = TRUE
            /\ UNCHANGED phase
    /\ UNCHANGED <<retries, sent, answered, workVars, claims, batches, stage, job, faultVars>>

MutPrepareAgain(x) ==
    /\ phase[x] = "preparing" /\ prepare[x] = "idle"
    /\ prepare' = [prepare EXCEPT ![x] = "begun"]
    /\ UNCHANGED <<phase, retries, sent, answered, workVars, dbVars, faultVars>>

(* prepare_annotation_fanout claims the event; the insert of the claim     *)
(* waits for an uncommitted one.  With the event claimed the output is     *)
(* skipped, and the execution has succeeded.                               *)
PrepareBegin(x) ==
    /\ phase[x] = "preparing" /\ prepare[x] = "idle"
    /\ \A y \in Executions : prepare[y] # "begun"
    /\ IF prepared
       THEN phase' = [phase EXCEPT ![x] = "skipped"] /\ UNCHANGED prepare
       ELSE prepare' = [prepare EXCEPT ![x] = "begun"] /\ UNCHANGED phase
    /\ UNCHANGED <<retries, sent, answered, workVars, dbVars, faultVars>>

PrepareCommit(x) ==
    /\ prepare[x] = "begun"
    /\ prepare' = [prepare EXCEPT ![x] = "committed"]
    /\ prepared' = TRUE
    /\ stage' = "running"
    /\ UNCHANGED <<phase, retries, sent, answered, workVars, claims, batches, job, faultVars>>

PrepareAnswer(x) ==
    /\ prepare[x] = "committed"
    /\ prepare' = [prepare EXCEPT ![x] = "idle"]
    /\ phase' = [phase EXCEPT ![x] = "mapping"]
    /\ UNCHANGED <<retries, sent, answered, workVars, dbVars, faultVars>>

(* An exception, in the stage or in SendTaskSuccess, is answered with      *)
(* SendTaskFailure, and the state machine retries: a new container.        *)
PrepareFails(x) ==
    /\ \/ prepare[x] = "begun" /\ Spend("prepare")
       \/ prepare[x] = "committed" /\ Spend("prepareAnswer")
    /\ prepare' = [prepare EXCEPT ![x] = "idle"]
    /\ IF retries[x] < MaxAttempts
       THEN retries' = [retries EXCEPT ![x] = @ + 1] /\ UNCHANGED phase
       ELSE phase' = [phase EXCEPT ![x] = "failed"] /\ UNCHANGED retries
    /\ UNCHANGED <<sent, answered, workVars, dbVars>>

(* The container is gone and with it the only holder of the token.         *)
PrepareDies(x) ==
    /\ prepare[x] \in {"begun", "committed"}
    /\ Spend("prepareDies")
    /\ prepare' = [prepare EXCEPT ![x] = "dead"]
    /\ UNCHANGED <<phase, retries, sent, answered, workVars, dbVars>>

(* An iteration of the Map state.                                          *)
Dispatch(x) ==
    \E t \in Tasks \ sent[x] :
        /\ phase[x] = "mapping"
        /\ Cardinality(sent[x] \ answered[x]) < MaxConcurrency
        /\ sent' = [sent EXCEPT ![x] = @ \cup {t}]
        /\ copies' = [copies EXCEPT ![<<x, t>>] = @ + 1]
        /\ UNCHANGED <<phase, retries, prepare, answered, at, token, counted, dbVars, faultVars>>

(* sendMessage fails, and with it the Map state and the execution: neither *)
(* has a Retry or a Catch.  The messages it has sent stay in the queue.    *)
DispatchFails(x) ==
    /\ phase[x] = "mapping" /\ sent[x] # Tasks
    /\ Cardinality(sent[x] \ answered[x]) < MaxConcurrency
    /\ Spend("dispatch")
    /\ phase' = [phase EXCEPT ![x] = "failed"]
    /\ UNCHANGED <<retries, prepare, sent, answered, workVars, dbVars>>

(* BuildAllCompleted and PublishAllCompleted, under a fresh event_id.      *)
Announce(x) ==
    /\ phase[x] = "mapping" /\ answered[x] = Tasks
    /\ phase' = [phase EXCEPT ![x] = "announced"]
    /\ UNCHANGED <<retries, prepare, sent, answered, workVars, dbVars, faultVars>>

(* putEvents fails, and the execution with it: no Retry, no Catch.         *)
AnnounceFails(x) ==
    /\ phase[x] = "mapping" /\ answered[x] = Tasks
    /\ Spend("announce")
    /\ phase' = [phase EXCEPT ![x] = "failed"]
    /\ UNCHANGED <<retries, prepare, sent, answered, workVars, dbVars>>

-----------------------------------------------------------------------------
(* The annotation workers.  (The copy of planning.completed their queue    *)
(* receives is acknowledged without being claimed in this mode.)           *)

Task(w) == token[w][2]
Goto(w, l) == at' = [at EXCEPT ![w] = l]
Return(w) == copies' = [copies EXCEPT ![token[w]] = @ + 1] /\ Goto(w, "idle")

(* Receive, and claim in the task's transaction; an insert of the same     *)
(* claim waits.  A claimed event is a duplicate.                           *)
Take(w, m) ==
    /\ at[w] = "idle" /\ copies[m] > 0
    /\ \A v \in Workers : at[v] \in {"tx", "counted"} => Task(v) # m[2]
    /\ copies' = [copies EXCEPT ![m] = @ - 1]
    /\ token' = [token EXCEPT ![w] = m]
    /\ Goto(w, IF m[2] \in claims THEN "skip" ELSE "tx")
    /\ UNCHANGED <<machineVars, counted, dbVars, faultVars>>

(* Label, flush the batch, count: its own batch and the committed ones.    *)
CountBatches(w) ==
    /\ at[w] = "tx"
    /\ counted' = [counted EXCEPT ![w] = batches \cup {Task(w)}]
    /\ Goto(w, "counted")
    /\ UNCHANGED <<machineVars, copies, token, dbVars, faultVars>>

CommitTask(w) ==
    /\ at[w] = "counted"
    /\ claims' = claims \cup {Task(w)}
    /\ batches' = batches \cup {Task(w)}
    /\ stage' = IF counted[w] = Tasks THEN "completed" ELSE stage
    /\ counted' = [counted EXCEPT ![w] = {}]
    /\ Goto(w, "publish")
    /\ UNCHANGED <<machineVars, copies, token, prepared, job, faultVars>>

Publish(w) ==
    /\ at[w] = "publish"
    /\ Goto(w, "answer")
    /\ UNCHANGED <<machineVars, copies, token, counted, dbVars, faultVars>>

(* The claim is released and the message left; the batch stays.            *)
PublishFails(w) ==
    /\ at[w] = "publish"
    /\ Spend("publish")
    /\ claims' = claims \ {Task(w)}
    /\ Return(w)
    /\ UNCHANGED <<machineVars, token, counted, prepared, batches, stage, job>>

(* The token is waited for: it was not answered and its execution is not   *)
(* over.                                                                   *)
TokenOpen(w) ==
    phase[token[w][1]] = "mapping" /\ Task(w) \notin answered[token[w][1]]

MutAnswer(w) ==
    /\ at[w] \in {"answer", "skip"} /\ TokenOpen(w)
    /\ answered' = IF at[w] = "skip" THEN answered
                   ELSE [answered EXCEPT ![token[w][1]] = @ \cup {Task(w)}]
    /\ Goto(w, "idle")
    /\ UNCHANGED <<phase, retries, prepare, sent, copies, token, counted, dbVars, faultVars>>

(* SendTaskSuccess, with the completed event or with skipped, and          *)
(* acknowledge.                                                            *)
Answer(w) ==
    /\ at[w] \in {"answer", "skip"} /\ TokenOpen(w)
    /\ answered' = [answered EXCEPT ![token[w][1]] = @ \cup {Task(w)}]
    /\ Goto(w, "idle")
    /\ UNCHANGED <<phase, retries, prepare, sent, copies, token, counted, dbVars, faultVars>>

(* process_pipeline_failure: with the claim taken, nothing; the message is *)
(* acknowledged and its token is nobody's.                                 *)
RecordFailure(w) ==
    /\ claims' = claims \cup {Task(w)}
    /\ job' = IF Task(w) \in claims THEN job ELSE "failed"
    /\ stage' = IF Task(w) \in claims \/ job = "failed" THEN stage ELSE "failed"
    /\ counted' = [counted EXCEPT ![w] = {}]
    /\ Goto(w, "idle")
    /\ UNCHANGED <<copies, prepared, batches>>

(* ValueError or RuntimeError in the stage, or from SendTaskSuccess, which *)
(* also raises for a token that is not waited for any more.                *)
FailTerminally(w) ==
    /\ \/ at[w] \in {"tx", "counted"} /\ Spend("terminal")
       \/ at[w] \in {"answer", "skip"} /\ Spend("answer")
       \/ at[w] \in {"answer", "skip"} /\ ~TokenOpen(w) /\ UNCHANGED faultVars
    /\ RecordFailure(w)
    /\ UNCHANGED <<machineVars, token>>

MutCapBreached(w) ==
    /\ at[w] = "tx"
    /\ Spend("cap")
    /\ Goto(w, "skip")
    /\ UNCHANGED <<machineVars, copies, token, counted, dbVars>>

(* A breach of the cost cap is recorded under the name of the DLQ worker,  *)
(* and the token is answered like a duplicate's.                           *)
CapBreached(w) ==
    /\ at[w] = "tx"
    /\ Spend("cap")
    /\ job' = "failed"
    /\ stage' = IF job = "failed" THEN stage ELSE "failed"
    /\ Goto(w, "skip")
    /\ UNCHANGED <<machineVars, copies, token, counted, prepared, claims, batches>>

(* Any other exception, or the death of the process at any point.          *)
Interrupt(w) ==
    /\ \/ at[w] \in {"tx", "counted"} /\ Spend("transient")
       \/ at[w] # "idle" /\ Spend("crash")
    /\ Return(w)
    /\ counted' = [counted EXCEPT ![w] = {}]
    /\ UNCHANGED <<machineVars, token, dbVars>>

(* A message received too often is recorded by the DLQ worker.             *)
Redrive(m) ==
    /\ copies[m] > 0
    /\ Spend("redrive")
    /\ copies' = [copies EXCEPT ![m] = @ - 1]
    /\ job' = "failed"
    /\ stage' = IF job = "failed" THEN stage ELSE "failed"
    /\ UNCHANGED <<machineVars, at, token, counted, prepared, claims, batches>>

Duplicate(m) ==
    /\ copies[m] > 0
    /\ Spend("duplicate")
    /\ copies' = [copies EXCEPT ![m] = @ + 1]
    /\ UNCHANGED <<machineVars, at, token, counted, dbVars>>

-----------------------------------------------------------------------------
Orchestrate(x) ==
    \/ PrepareBegin(x) \/ PrepareCommit(x) \/ PrepareAnswer(x) \/ PrepareFails(x)
    \/ Dispatch(x) \/ DispatchFails(x) \/ Announce(x) \/ AnnounceFails(x)

Work(w) ==
    \/ \E m \in Executions \X Tasks : Take(w, m)
    \/ CountBatches(w) \/ CommitTask(w) \/ Publish(w) \/ PublishFails(w)
    \/ Answer(w) \/ FailTerminally(w) \/ CapBreached(w)

Next ==
    \/ \E x \in Executions : Orchestrate(x) \/ Start(x) \/ PrepareDies(x)
    \/ \E w \in Workers : Work(w) \/ Interrupt(w)
    \/ \E m \in Executions \X Tasks : Redrive(m) \/ Duplicate(m)

Spec == Init /\ [][Next]_vars

(* The service advances its executions and the workers poll.               *)
FairSpec ==
    /\ Spec
    /\ \A x \in Executions : WF_vars(Orchestrate(x))
    /\ \A w \in Workers : WF_vars(Work(w))

-----------------------------------------------------------------------------
(* Properties.                                                             *)

(* The stage is completed only with the batches of all tasks, in whatever  *)
(* order they count and commit; and annotation.all_completed is announced  *)
(* only then or for a failed job: a token answered "skipped" never stands  *)
(* for work that nobody did.                                               *)
AnnouncedSound ==
    /\ stage = "completed" => batches = Tasks
    /\ \A x \in Executions :
        phase[x] = "announced" => batches = Tasks \/ job = "failed"

(* The event of an execution has a random event_id, so export could not    *)
(* tell a second one from a new event: of all executions started for the   *)
(* job and all their retries at most one ever gets past PrepareFanout, not *)
(* even one after another has failed in its Map state.                     *)
OneMap ==
    Cardinality({x \in Executions :
        phase[x] \in {"mapping", "announced"} \/ sent[x] # {}}) <= 1

(* No execution waits for ever, as long as nothing happened to the holder  *)
(* of a token that leaves it unanswered: a terminal failure, a redrive, a  *)
(* failed SendTaskSuccess of a worker or a prepare task that died.         *)
ExecutionEnds ==
    <>(\/ spent \cap {"terminal", "redrive", "answer", "prepareDies"} # {}
       \/ \A x \in Executions : phase[x] \in Ended \cup {"unstarted"})

(* A job does not come to a halt unseen: the stage is announced, the job   *)
(* is failed, or the execution is: after three failed prepare tasks, a     *)
(* message or an announcement that could not be sent.  (Then the job is    *)
(* left running; nothing records it.)  Exempt are lost tokens, as above,   *)
(* and a lost answer of the prepare task: its retry finds the event        *)
(* claimed, and the execution succeeds without a task.                     *)
FanOutDelivered ==
    <>(\/ \E x \in Executions : phase[x] \in {"announced", "failed"}
       \/ job = "failed"
       \/ spent \cap {"answer", "prepareDies", "prepareAnswer"} # {})
=============================================================================
