------------------------- MODULE ProjectSubmission -------------------------
(***************************************************************************)
(* POST and DELETE /projects, and what the event of a project meets when   *)
(* its job is not there: the request validates and saves its files one by  *)
(* one, publishes project.submitted and only then commits the job, so the  *)
(* intake worker and the dead-letter queue may be earlier than the commit, *)
(* and a failed commit or a delete leaves them an event without a job.     *)
(*                                                                         *)
(* One intake worker and one DLQ worker poll for all projects.  A handler  *)
(* is seen from a distance: what follows its commit is Pipeline's subject. *)
(***************************************************************************)
EXTENDS Naturals, Sequences, FiniteSets

CONSTANTS
    Requests,    \* the requests to create a project, each of its own project
    Forms,       \* what a request may upload: sequences of files
    MaxReceives, \* maxReceiveCount of the intake queue
    Faults,      \* the faults a behaviour may contain, each once
    MaxFaults    \* and how many of them in all

FaultKinds == {"publish", "ambiguous", "commit", "crash", "transient", "loss"}
Workers == {"intake", "dlq"}
Ended == {"created", "rejected"}

ASSUME SubmissionAssumption ==
    /\ Requests # {}
    /\ MaxReceives \in Nat \ {0}
    /\ Faults \subseteq FaultKinds /\ MaxFaults \in Nat
    /\ \A f \in Forms :
          /\ f # <<>> /\ f \in Seq({f[i] : i \in DOMAIN f})
          /\ \A i \in DOMAIN f : DOMAIN f[i] = {"name", "valid"}

VARIABLES
    pc,       \* where each request is
    form,     \* the files it brought
    saved,    \* how many of them it has saved
    disk,     \* the file names in the directory of its project
    user,     \* the committed users row exists
    inserts,  \* requests whose transaction has inserted it, uncommitted
    jobs,     \* committed jobs (with their stages and assets)
    status,   \* their status
    claims,   \* committed processed_events rows: event and worker_name
    queue,    \* copies of each project.submitted waiting for intake
    dead,     \* and in the dead-letter queue
    receives, \* how often each was received from the intake queue
    at,       \* where each worker is
    item,     \* the project whose event it handles
    early,    \* projects whose event was handled before their commit
    spent     \* the faults that have happened

reqVars == <<pc, form, saved, disk, user, inserts>>
dbVars == <<jobs, status, claims>>
msgVars == <<queue, dead, receives>>
workVars == <<at, item>>
vars == <<reqVars, dbVars, msgVars, workVars, early, spent>>

(* The domain of each variable.                                           *)
TypeOK ==
    /\ pc \in [Requests -> {"user", "save", "publish", "commit"} \cup Ended]
    /\ \A r \in Requests : form[r] \in Forms /\ saved[r] \in 0..Len(form[r])
    /\ \A r \in Requests : disk[r] \subseteq {form[r][i].name : i \in 1..saved[r]}
    /\ user \in BOOLEAN
    /\ inserts \subseteq Requests /\ Cardinality(inserts) <= 1
    /\ jobs \subseteq Requests
    /\ status \in [Requests -> {"pending", "running", "failed"}]
    /\ claims \subseteq Requests \X {"api", "intake", "dlq"}
    /\ queue \in [Requests -> 0..1] /\ dead \in [Requests -> 0..1]
    /\ receives \in [Requests -> 0..MaxReceives]
    /\ at \in [Workers -> {"idle", "loaded", "locked", "failing", "record"}]
    /\ item \in [Workers -> Requests]
    /\ early \subseteq Requests
    /\ spent \subseteq Faults

Init ==
    /\ pc = [r \in Requests |-> "user"]
    /\ form \in [Requests -> Forms]
    /\ saved = [r \in Requests |-> 0]
    /\ disk = [r \in Requests |-> {}]
    /\ user = FALSE /\ inserts = {}
    /\ jobs = {}
    /\ status = [r \in Requests |-> "pending"]
    /\ claims = {}
    /\ queue = [r \in Requests |-> 0] /\ dead = [r \in Requests |-> 0]
    /\ receives = [r \in Requests |-> 0]
    /\ at = [w \in Workers |-> "idle"]
    /\ item \in [Workers -> {CHOOSE r \in Requests : TRUE}]
    /\ early = {} /\ spent = {}

Spend(kind) ==
    /\ kind \in Faults \ spent
    /\ Cardinality(spent) < MaxFaults
    /\ spent' = spent \cup {kind}

-----------------------------------------------------------------------------
(* A definition named Mut... is the bug the definition after it could      *)
(* have; it belongs to no specification.                                   *)

(* get_current_user: everyone is the one mock user, created on demand.     *)
(* The insert waits while another request's is uncommitted; when that one  *)
(* commits it violates the unique subject, and the user is read again.     *)
Authenticate(r) ==
    /\ pc[r] = "user"
    /\ user \/ inserts = {}
    /\ inserts' = IF user THEN inserts ELSE {r}
    /\ pc' = [pc EXCEPT ![r] = "save"]
    /\ UNCHANGED <<form, saved, disk, user, dbVars, msgVars, workVars, early, spent>>

MutSaveNothing(r) ==
    LET file == form[r][saved[r] + 1] IN
    /\ pc[r] = "save" /\ saved[r] < Len(form[r])
    /\ file.valid
    /\ saved' = [saved EXCEPT ![r] = @ + 1]
    /\ UNCHANGED <<pc, form, disk, user, inserts, dbVars, msgVars, workVars, early, spent>>

(* validate_upload and save_bytes, file by file: a name that sanitises to  *)
(* one saved before overwrites it.                                         *)
Save(r) ==
    LET file == form[r][saved[r] + 1] IN
    /\ pc[r] = "save" /\ saved[r] < Len(form[r])
    /\ file.valid
    /\ disk' = [disk EXCEPT ![r] = @ \cup {file.name}]
    /\ saved' = [saved EXCEPT ![r] = @ + 1]
    /\ UNCHANGED <<pc, form, user, inserts, dbVars, msgVars, workVars, early, spent>>

(* The transaction ends without a job; the files saved so far stay.        *)
Rollback(r) ==
    /\ pc' = [pc EXCEPT ![r] = "rejected"]
    /\ inserts' = inserts \ {r}
    /\ UNCHANGED <<form, saved, disk, user, dbVars>>

MutReject(r) ==
    /\ pc[r] = "save" /\ saved[r] < Len(form[r])
    /\ ~form[r][saved[r] + 1].valid
    /\ pc' = [pc EXCEPT ![r] = "rejected"]
    /\ UNCHANGED <<form, saved, disk, user, inserts, dbVars, msgVars, workVars, early, spent>>

Reject(r) ==
    /\ pc[r] = "save" /\ saved[r] < Len(form[r])
    /\ ~form[r][saved[r] + 1].valid
    /\ Rollback(r)
    /\ UNCHANGED <<msgVars, workVars, early, spent>>

(* Flush the rows and claim the new event as "api", both uncommitted.      *)
Flush(r) ==
    /\ pc[r] = "save" /\ saved[r] = Len(form[r])
    /\ pc' = [pc EXCEPT ![r] = "publish"]
    /\ UNCHANGED <<form, saved, disk, user, inserts, dbVars, msgVars, workVars, early, spent>>

Publish(r) ==
    /\ pc[r] = "publish"
    /\ queue' = [queue EXCEPT ![r] = 1]
    /\ pc' = [pc EXCEPT ![r] = "commit"]
    /\ UNCHANGED <<form, saved, disk, user, inserts, dbVars, dead, receives,
                   workVars, early, spent>>

(* EventPublishError, with or without the event delivered.                 *)
PublishFails(r) ==
    /\ pc[r] = "publish"
    /\ \/ Spend("publish") /\ UNCHANGED queue
       \/ Spend("ambiguous") /\ queue' = [queue EXCEPT ![r] = 1]
    /\ Rollback(r)
    /\ UNCHANGED <<dead, receives, workVars, early>>

Commit(r) ==
    /\ pc[r] = "commit"
    /\ jobs' = jobs \cup {r} /\ claims' = claims \cup {<<r, "api">>}
    /\ user' = TRUE /\ inserts' = inserts \ {r}
    /\ pc' = [pc EXCEPT ![r] = "created"]
    /\ UNCHANGED <<form, saved, disk, status, msgVars, workVars, early, spent>>

(* The commit fails or the process dies: the event has no job.             *)
CommitFails(r) ==
    /\ pc[r] = "commit"
    /\ Spend("commit")
    /\ Rollback(r)
    /\ UNCHANGED <<msgVars, workVars, early>>

(* delete_project: the rows go, waiting for a handler that has locked      *)
(* them; files, claims and events stay.                                    *)
Delete(r) ==
    /\ r \in jobs
    /\ \A w \in Workers : item[w] = r => at[w] # "locked"
    /\ jobs' = jobs \ {r}
    /\ UNCHANGED <<reqVars, status, claims, msgVars, workVars, early, spent>>

-----------------------------------------------------------------------------
(* The workers.                                                            *)

(* A message whose handler raised; dead letters are redelivered for ever.  *)
Return(w) ==
    LET r == item[w] IN
    /\ IF w = "intake" /\ receives[r] < MaxReceives
       THEN queue' = [queue EXCEPT ![r] = 1] /\ UNCHANGED dead
       ELSE dead' = [dead EXCEPT ![r] = 1] /\ UNCHANGED queue
    /\ UNCHANGED receives

Goto(w, l) == at' = [at EXCEPT ![w] = l] /\ UNCHANGED item

(* Receive and begin.  A claimed event is a duplicate and acknowledged; an *)
(* event without a job is a ValueError, to be recorded as a failure.       *)
Take(r) ==
    /\ at["intake"] = "idle" /\ queue[r] = 1
    /\ queue' = [queue EXCEPT ![r] = 0]
    /\ receives' = [receives EXCEPT ![r] = @ + 1]
    /\ item' = [item EXCEPT !["intake"] = r]
    /\ at' = [at EXCEPT !["intake"] =
                  IF <<r, "intake">> \in claims THEN "idle"
                  ELSE IF r \in jobs THEN "loaded" ELSE "failing"]
    /\ early' = IF r \in jobs \/ pc[r] \in Ended THEN early ELSE early \cup {r}
    /\ UNCHANGED <<reqVars, dbVars, dead, spent>>

(* The first flush updates the job and locks it; the row may be gone.      *)
MutTouch ==
    LET r == item["intake"] IN
    /\ at["intake"] = "loaded"
    /\ Goto("intake", "locked")
    /\ UNCHANGED <<reqVars, dbVars, msgVars, early, spent>>

Touch ==
    LET r == item["intake"] IN
    /\ at["intake"] = "loaded"
    /\ IF r \in jobs
       THEN Goto("intake", "locked") /\ UNCHANGED msgVars
       ELSE Goto("intake", "idle") /\ Return("intake")
    /\ UNCHANGED <<reqVars, dbVars, early, spent>>

(* _finalize_assets: at least one asset must have its file.                *)
OnDisk(r) == {i \in DOMAIN form[r] : form[r][i].name \in disk[r]}

CommitIntake ==
    LET r == item["intake"] IN
    /\ at["intake"] = "locked"
    /\ OnDisk(r) # {}
    /\ status' = [status EXCEPT ![r] = "running"]
    /\ claims' = claims \cup {<<r, "intake">>}
    /\ Goto("intake", "idle")
    /\ UNCHANGED <<reqVars, jobs, msgVars, early, spent>>

NoFiles ==
    /\ at["intake"] = "locked"
    /\ OnDisk(item["intake"]) = {}
    /\ Goto("intake", "failing")
    /\ UNCHANGED <<reqVars, dbVars, msgVars, early, spent>>

(* The DLQ worker receives; a claimed event is acknowledged.               *)
TakeDead(r) ==
    /\ at["dlq"] = "idle" /\ dead[r] = 1
    /\ dead' = [dead EXCEPT ![r] = 0]
    /\ item' = [item EXCEPT !["dlq"] = r]
    /\ at' = [at EXCEPT !["dlq"] = IF <<r, "dlq">> \in claims THEN "idle" ELSE "failing"]
    /\ UNCHANGED <<reqVars, dbVars, queue, receives, early, spent>>

MutFailing(w) ==
    LET r == item[w] IN
    /\ at[w] = "failing"
    /\ IF r \in jobs
       THEN Goto(w, "record") /\ UNCHANGED <<msgVars, claims>>
       ELSE Goto(w, "idle") /\ claims' = claims \cup {<<r, w>>} /\ UNCHANGED msgVars
    /\ UNCHANGED <<reqVars, jobs, status, early, spent>>

(* process_pipeline_failure loads the job in a transaction of its own, so  *)
(* it may find the job its handler had not found.  Without one it raises   *)
(* and the message is left.                                                *)
Failing(w) ==
    LET r == item[w] IN
    /\ at[w] = "failing"
    /\ IF <<r, w>> \in claims
       THEN Goto(w, "idle") /\ UNCHANGED msgVars
       ELSE IF r \in jobs
       THEN Goto(w, "record") /\ UNCHANGED msgVars
       ELSE Goto(w, "idle") /\ Return(w)
    /\ UNCHANGED <<reqVars, dbVars, early, spent>>

(* Its updates find the rows, or the job was deleted since.                *)
Record(w) ==
    LET r == item[w] IN
    /\ at[w] = "record"
    /\ IF r \in jobs
       THEN /\ status' = [status EXCEPT ![r] = "failed"]
            /\ claims' = claims \cup {<<r, w>>}
            /\ UNCHANGED msgVars
       ELSE Return(w) /\ UNCHANGED <<status, claims>>
    /\ Goto(w, "idle")
    /\ UNCHANGED <<reqVars, jobs, early, spent>>

(* Any other exception in a handler, a deadlock with a delete among them,  *)
(* or the death of the process.                                            *)
WorkerFails(w) ==
    /\ at[w] # "idle"
    /\ Spend("transient") \/ Spend("crash")
    /\ Return(w) /\ Goto(w, "idle")
    /\ UNCHANGED <<reqVars, dbVars, early>>

(* A file is not there for the worker: its volume is not the one of the    *)
(* API, or was emptied.                                                    *)
LoseFile(r) ==
    /\ Spend("loss")
    /\ \E n \in disk[r] : disk' = [disk EXCEPT ![r] = @ \ {n}]
    /\ UNCHANGED <<pc, form, saved, user, inserts, dbVars, msgVars, workVars, early>>

-----------------------------------------------------------------------------
Serve(r) ==
    \/ Authenticate(r) \/ Save(r) \/ Reject(r) \/ Flush(r)
    \/ Publish(r) \/ PublishFails(r) \/ Commit(r) \/ CommitFails(r)

WorkIntake ==
    \/ \E r \in Requests : Take(r)
    \/ Touch \/ CommitIntake \/ NoFiles
    \/ Failing("intake") \/ Record("intake") \/ WorkerFails("intake")

WorkDlq(r) ==
    \/ TakeDead(r)
    \/ item["dlq"] = r /\ (Failing("dlq") \/ Record("dlq") \/ WorkerFails("dlq"))

Next ==
    \/ \E r \in Requests : Serve(r) \/ Delete(r) \/ WorkDlq(r) \/ LoseFile(r)
    \/ WorkIntake

Spec == Init /\ [][Next]_vars

(* The server finishes its requests; the workers poll.  A dead letter that *)
(* can never be recorded comes back again and again, without keeping the   *)
(* others from their turn.                                                 *)
FairSpec ==
    /\ Spec
    /\ \A r \in Requests : WF_vars(Serve(r)) /\ SF_vars(WorkDlq(r))
    /\ WF_vars(WorkIntake)

-----------------------------------------------------------------------------
(* Properties.                                                             *)

(* An event is consumed, by intake or by a failure record, only while its  *)
(* job is there: one that is earlier than its commit is not swallowed.     *)
ClaimsHaveJobs ==
    [][\A r \in Requests, w \in Workers :
        <<r, w>> \in claims' \ claims => r \in jobs']_vars

(* What submission accepted fails in intake only through a fault, or by    *)
(* losing the race of its own commit against the worker.                   *)
FailureCause ==
    \A r \in Requests :
        status[r] = "failed" => r \in early \/ spent # {}

(* Two first requests at once both come to an end: the insert of the one   *)
(* user they share blocks neither for ever.                                *)
RequestsEnd == \A r \in Requests : <>(pc[r] \in Ended)

(* Every committed project is taken up or recorded as failed, or deleted,  *)
(* however early its event came.                                           *)
SubmittedIsSeen ==
    \A r \in Requests : r \in jobs ~> r \notin jobs \/ status[r] # "pending"
=============================================================================
