------------------------------ MODULE LlmCalls ------------------------------
(***************************************************************************)
(* The calls of one job to a language model: the cost cap before and after *)
(* each call, the circuit breaker and the retries around it, the usage row *)
(* in the caller's transaction, and what a worker does when one of them    *)
(* raises.                                                                 *)
(*                                                                         *)
(* Every process has its own breaker and calls one at a time.  The job has *)
(* one preprocessing message, which asks for the speaker roles of its      *)
(* recordings one after the other, and then the messages of its annotation *)
(* tasks, one call each.                                                   *)
(***************************************************************************)
EXTENDS Naturals, FiniteSets, FiniteSetsExt

CONSTANTS
    Processes,        \* worker processes
    Preprocessing,    \* the preprocessing message
    Tasks,            \* the messages of the annotation tasks
    Recordings,       \* audio assets, one call each
    Cap,              \* job_max_cost_usd
    Price,            \* what a call to a model in the pricing table costs
    FailureThreshold, \* circuit_breaker_failure_threshold
    MaxRetries,       \* llm_max_retries
    MaxReceives,      \* maxReceiveCount of the queues
    MaxErrors         \* bound on everything that goes wrong

Messages == {Preprocessing} \cup Tasks
Calls(m) == IF m = Preprocessing THEN Recordings ELSE 1

ASSUME LlmAssumption ==
    /\ IsFiniteSet(Processes) /\ Processes # {}
    /\ IsFiniteSet(Tasks) /\ Preprocessing \notin Tasks
    /\ {Recordings, Cap, Price, FailureThreshold, MaxReceives} \subseteq Nat \ {0}
    /\ {MaxRetries, MaxErrors} \subseteq Nat

VARIABLES
    msg,       \* where each message is
    receives,  \* how often it was received
    at,        \* where each process is
    holds,     \* the message it handles
    made,      \* calls that returned in this delivery
    attempt,   \* retries of the call it is making
    usage,     \* cost of the usage rows in its transaction
    paid,      \* what the calls of this delivery cost
    failures,  \* _failure_count of its breaker
    breaker,   \* _opened_at: unset, set, or recovery_timeout ago
    halfOpen,  \* _half_open
    ledger,    \* cost of the committed usage rows
    accounted, \* what the delivery that completed a message had paid
    job,       \* whether the job was marked failed
    streak,    \* calls of a process that failed since one succeeded
    errors     \* what has gone wrong so far

txVars == <<at, holds, made, attempt, usage, paid>>
breakerVars == <<failures, breaker, halfOpen, streak>>
vars == <<msg, receives, txVars, breakerVars, ledger, accounted, job, errors>>

(* The domain of each variable.                                           *)
TypeOK ==
    /\ msg \in [Messages -> {"unsent", "waiting", "held", "done", "failed", "dead"}]
    /\ receives \in [Messages -> 0..MaxReceives]
    /\ at \in [Processes -> {"idle", "check", "call", "log", "commit", "doomed", "capped"}]
    /\ holds \in [Processes -> Messages]
    /\ \A w \in Processes : made[w] \in 0..Calls(holds[w])
    /\ attempt \in [Processes -> 0..MaxRetries]
    /\ \A f \in {usage, paid} : f \in [Processes -> Nat]
    /\ failures \in [Processes -> 0..FailureThreshold]
    /\ breaker \in [Processes -> {"closed", "open", "elapsed"}]
    /\ halfOpen \in [Processes -> BOOLEAN]
    /\ ledger \in Nat /\ accounted \in [Messages -> Nat]
    /\ job \in {"running", "failed"}
    /\ errors \in 0..MaxErrors

Init ==
    /\ msg = [m \in Messages |-> IF m = Preprocessing THEN "waiting" ELSE "unsent"]
    /\ receives = [m \in Messages |-> 0]
    /\ at = [w \in Processes |-> "idle"]
    /\ holds = [w \in Processes |-> Preprocessing]
    /\ made = [w \in Processes |-> 0] /\ attempt = [w \in Processes |-> 0]
    /\ usage = [w \in Processes |-> 0] /\ paid = [w \in Processes |-> 0]
    /\ failures = [w \in Processes |-> 0]
    /\ breaker = [w \in Processes |-> "closed"]
    /\ halfOpen = [w \in Processes |-> FALSE]
    /\ ledger = 0
    /\ accounted = [m \in Messages |-> 0]
    /\ job = "running"
    /\ streak = [w \in Processes |-> 0]
    /\ errors = 0

GoesWrong == errors < MaxErrors /\ errors' = errors + 1
Goto(w, l) == at' = [at EXCEPT ![w] = l]

-----------------------------------------------------------------------------
(* A definition named Mut... is the bug the definition after it could      *)
(* have; it belongs to no specification.                                   *)

(* Back to the poll loop: the transaction is over, its message is left     *)
(* where "where" says.                                                     *)
Finish(w, where) ==
    /\ msg' = [msg EXCEPT ![holds[w]] = where]
    /\ Goto(w, "idle")
    /\ made' = [made EXCEPT ![w] = 0] /\ attempt' = [attempt EXCEPT ![w] = 0]
    /\ usage' = [usage EXCEPT ![w] = 0] /\ paid' = [paid EXCEPT ![w] = 0]
    /\ UNCHANGED holds

(* An exception the worker does not know: roll back, leave the message.    *)
GiveUp(w) ==
    Finish(w, IF receives[holds[w]] < MaxReceives THEN "waiting" ELSE "dead")

(* ValueError: process_pipeline_failure in a session of its own, message   *)
(* acknowledged.                                                           *)
FailTerminally(w) == Finish(w, "failed") /\ job' = "failed"

Receive(w, m) ==
    /\ at[w] = "idle" /\ msg[m] = "waiting"
    /\ msg' = [msg EXCEPT ![m] = "held"]
    /\ receives' = [receives EXCEPT ![m] = @ + 1]
    /\ holds' = [holds EXCEPT ![w] = m]
    /\ Goto(w, "check")
    /\ UNCHANGED <<made, attempt, usage, paid, breakerVars, ledger, accounted, job, errors>>

(* total_cost_by_job_id: committed rows and those of this transaction.     *)
Seen(w) == ledger + usage[w]

(* assert_job_under_cost_cap, then the breaker: open, it refuses; after    *)
(* the recovery time it lets one call through, half open.                  *)
Check(w) ==
    /\ at[w] = "check"
    /\ IF Seen(w) >= Cap
       THEN /\ Goto(w, "capped")
            /\ UNCHANGED <<msg, holds, made, attempt, usage, paid, halfOpen>>
       ELSE IF breaker[w] = "open"
       THEN GiveUp(w) /\ UNCHANGED halfOpen
       ELSE /\ Goto(w, "call")
            /\ halfOpen' = [halfOpen EXCEPT ![w] = @ \/ breaker[w] = "elapsed"]
            /\ UNCHANGED <<msg, holds, made, attempt, usage, paid>>
    /\ UNCHANGED <<receives, failures, breaker, streak, ledger, accounted, job, errors>>

RecordSuccess(w) ==
    /\ failures' = [failures EXCEPT ![w] = 0]
    /\ breaker' = [breaker EXCEPT ![w] = "closed"]
    /\ halfOpen' = [halfOpen EXCEPT ![w] = FALSE]
    /\ streak' = [streak EXCEPT ![w] = 0]

MutRecordFailure(w) ==
    LET n == failures[w] + 1 IN
    /\ streak' = [streak EXCEPT ![w] = @ + 1]
    /\ halfOpen' = [halfOpen EXCEPT ![w] = FALSE]
    /\ IF n >= FailureThreshold
       THEN /\ breaker' = [breaker EXCEPT ![w] = "open"]
            /\ failures' = [failures EXCEPT ![w] = 0]
       ELSE /\ failures' = [failures EXCEPT ![w] = n]
            /\ UNCHANGED breaker

(* A failed probe opens the breaker again; the count stays where it was.   *)
RecordFailure(w) ==
    LET n == failures[w] + 1 IN
    /\ streak' = [streak EXCEPT ![w] = @ + 1]
    /\ failures' = [failures EXCEPT ![w] = IF halfOpen[w] THEN @ ELSE n]
    /\ IF halfOpen[w] \/ n >= FailureThreshold
       THEN /\ breaker' = [breaker EXCEPT ![w] = "open"]
            /\ halfOpen' = [halfOpen EXCEPT ![w] = FALSE]
       ELSE UNCHANGED <<breaker, halfOpen>>

(* The provider answers; a model the pricing table does not know is free.  *)
Answer(w) ==
    /\ at[w] = "call"
    /\ RecordSuccess(w)
    /\ \E cost \in {0, Price} : paid' = [paid EXCEPT ![w] = @ + cost]
    /\ Goto(w, "log")
    /\ UNCHANGED <<msg, receives, holds, made, attempt, usage, ledger, accounted, job, errors>>

(* A retryable error with retries left: the breaker does not see it.       *)
Retry(w) ==
    /\ at[w] = "call" /\ attempt[w] < MaxRetries
    /\ GoesWrong
    /\ attempt' = [attempt EXCEPT ![w] = @ + 1]
    /\ UNCHANGED <<msg, receives, at, holds, made, usage, paid, breakerVars,
                   ledger, accounted, job>>

(* A retryable error with none left.                                       *)
CallFails(w) ==
    /\ at[w] = "call" /\ attempt[w] = MaxRetries
    /\ GoesWrong
    /\ RecordFailure(w) /\ GiveUp(w)
    /\ UNCHANGED <<receives, ledger, accounted, job>>

(* No choices in the answer: a ValueError, never retried.                  *)
CallIsRefused(w) ==
    /\ at[w] = "call"
    /\ GoesWrong
    /\ RecordFailure(w) /\ FailTerminally(w)
    /\ UNCHANGED <<receives, ledger, accounted>>

MutLog(w) ==
    /\ at[w] = "log"
    /\ usage' = [usage EXCEPT ![w] = paid[w]]
    /\ made' = [made EXCEPT ![w] = @ + 1]
    /\ attempt' = [attempt EXCEPT ![w] = 0]
    /\ Goto(w, IF made'[w] < Calls(holds[w]) THEN "check" ELSE "commit")
    /\ UNCHANGED <<msg, receives, holds, paid, breakerVars, ledger, accounted, job, errors>>

(* Add the usage row and look at the cap again.                            *)
Log(w) ==
    /\ at[w] = "log"
    /\ usage' = [usage EXCEPT ![w] = paid[w]]
    /\ made' = [made EXCEPT ![w] = @ + 1]
    /\ attempt' = [attempt EXCEPT ![w] = 0]
    /\ Goto(w, IF ledger + paid[w] >= Cap THEN "capped"
               ELSE IF made'[w] < Calls(holds[w]) THEN "check" ELSE "commit")
    /\ UNCHANGED <<msg, receives, holds, paid, breakerVars, ledger, accounted, job, errors>>

MutLogFails(w) ==
    /\ at[w] = "log"
    /\ GoesWrong
    /\ made' = [made EXCEPT ![w] = @ + 1]
    /\ Goto(w, IF made'[w] < Calls(holds[w]) THEN "check" ELSE "commit")
    /\ UNCHANGED <<msg, receives, holds, attempt, usage, paid, breakerVars,
                   ledger, accounted, job>>

(* The flush of the usage row fails.  The client logs that and goes on,    *)
(* but the session refuses everything until it is rolled back.             *)
LogFails(w) ==
    /\ at[w] = "log"
    /\ GoesWrong
    /\ Goto(w, "doomed")
    /\ UNCHANGED <<msg, receives, holds, made, attempt, usage, paid, breakerVars,
                   ledger, accounted, job>>

(* PendingRollbackError at the next statement.                             *)
Doomed(w) ==
    /\ at[w] = "doomed"
    /\ GiveUp(w)
    /\ UNCHANGED <<receives, breakerVars, ledger, accounted, job, errors>>

(* The roles cannot be parsed: a ValueError.  Labels that cannot are       *)
(* replaced by a fallback instead.                                         *)
RolesUnreadable(w) ==
    /\ at[w] \in {"check", "commit"} /\ made[w] > 0
    /\ holds[w] = Preprocessing
    /\ GoesWrong
    /\ FailTerminally(w)
    /\ UNCHANGED <<receives, breakerVars, ledger, accounted>>

MutCapped(w) ==
    /\ at[w] = "capped"
    /\ IF holds[w] \in Tasks THEN Finish(w, "failed") ELSE GiveUp(w)
    /\ UNCHANGED <<receives, breakerVars, ledger, accounted, job, errors>>

(* JobCostCapExceededError: the transaction is rolled back with its usage  *)
(* rows.  The annotation worker records the failure and acknowledges; the  *)
(* preprocessing worker knows nothing of it.                               *)
Capped(w) ==
    /\ at[w] = "capped"
    /\ IF holds[w] \in Tasks THEN FailTerminally(w) ELSE GiveUp(w) /\ UNCHANGED job
    /\ UNCHANGED <<receives, breakerVars, ledger, accounted, errors>>

(* The failure is committed, but its event cannot be published.            *)
CappedUnannounced(w) ==
    /\ at[w] = "capped" /\ holds[w] \in Tasks
    /\ GoesWrong
    /\ GiveUp(w) /\ job' = "failed"
    /\ UNCHANGED <<receives, breakerVars, ledger, accounted>>

(* Commit and acknowledge; after preprocessing the tasks are planned and   *)
(* fanned out.                                                             *)
Commit(w) ==
    LET m == holds[w] IN
    /\ at[w] = "commit"
    /\ msg' = [n \in Messages |->
                  IF n = m THEN "done"
                  ELSE IF m = Preprocessing THEN "waiting" ELSE msg[n]]
    /\ ledger' = Seen(w)
    /\ accounted' = [accounted EXCEPT ![m] = paid[w]]
    /\ Goto(w, "idle")
    /\ made' = [made EXCEPT ![w] = 0]
    /\ usage' = [usage EXCEPT ![w] = 0] /\ paid' = [paid EXCEPT ![w] = 0]
    /\ UNCHANGED <<receives, holds, attempt, breakerVars, job, errors>>

(* The process dies and is started again, with a new breaker.              *)
Crash(w) ==
    /\ at[w] # "idle"
    /\ GoesWrong
    /\ GiveUp(w) /\ RecordSuccess(w)
    /\ UNCHANGED <<receives, ledger, accounted, job>>

(* recovery_timeout_seconds pass.                                          *)
Elapse(w) ==
    /\ breaker[w] = "open"
    /\ breaker' = [breaker EXCEPT ![w] = "elapsed"]
    /\ UNCHANGED <<msg, receives, txVars, failures, halfOpen, streak, ledger,
                   accounted, job, errors>>

(* The DLQ worker records the job as failed.                               *)
RecordDead(m) ==
    /\ msg[m] = "dead"
    /\ msg' = [msg EXCEPT ![m] = "failed"]
    /\ job' = "failed"
    /\ UNCHANGED <<receives, txVars, breakerVars, ledger, accounted, errors>>

-----------------------------------------------------------------------------
Work(w) ==
    \/ \E m \in Messages : Receive(w, m)
    \/ Check(w) \/ Answer(w) \/ Retry(w) \/ CallFails(w) \/ CallIsRefused(w)
    \/ Log(w) \/ LogFails(w) \/ Doomed(w) \/ RolesUnreadable(w)
    \/ Capped(w) \/ CappedUnannounced(w) \/ Commit(w)

Next ==
    \/ \E w \in Processes : Work(w) \/ Crash(w) \/ Elapse(w)
    \/ \E m \in Messages : RecordDead(m)

Spec == Init /\ [][Next]_vars

(* Processes keep working and the DLQ is polled.                           *)
FairSpec ==
    /\ Spec
    /\ \A w \in Processes : WF_vars(Work(w))
    /\ WF_vars(\E m \in Messages : RecordDead(m))

-----------------------------------------------------------------------------
(* Properties.                                                             *)

(* Processes that look at the cap at the same time do not see each other's *)
(* rows, so the committed cost can reach the cap, but each can add at most *)
(* its own call: the overshoot is bounded by the other processes.          *)
OvershootBounded == ledger < Cap + (Cardinality(Processes) - 1) * Price

(* The usage rows of a job are exactly what its completed messages paid:   *)
(* a usage row that cannot be written costs the whole transaction, though  *)
(* the client goes on without it.                                          *)
LedgerExact == ledger = MapThenSumSet(LAMBDA m : accounted[m], Messages)

(* A call that fails after as many failures in a row as the threshold      *)
(* leaves the breaker open, a failed probe included.                       *)
BreakerTrips ==
    [][\A w \in Processes :
        streak'[w] > streak[w] /\ streak'[w] >= FailureThreshold
            => breaker'[w] = "open"]_vars

(* Every call of the job is made and committed, or the job is failed: an   *)
(* open breaker, a doomed session or a breached cap never just ends it.    *)
Settles == <>(job = "failed" \/ \A m \in Messages : msg[m] = "done")
=============================================================================
