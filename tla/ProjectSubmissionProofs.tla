---------------------- MODULE ProjectSubmissionProofs ----------------------
(***************************************************************************)
(* What holds of the submission of projects for every number of requests,  *)
(* whatever they upload, and every number of receives and faults.          *)
(***************************************************************************)
EXTENDS ProjectSubmission, FiniteSetTheorems, TLAPS

(* The names a file may be saved under.                                    *)
FileNames == UNION {{f[i].name : i \in DOMAIN f} : f \in Forms}

(* The types, with the insert of the one user said as a set.               *)
Shape ==
    /\ pc \in [Requests -> {"user", "save", "publish", "commit"} \cup Ended]
    /\ form \in [Requests -> Forms] /\ saved \in [Requests -> Nat]
    /\ disk \in [Requests -> SUBSET FileNames]
    /\ user \in BOOLEAN
    /\ inserts = {} \/ \E r \in Requests : inserts = {r}
    /\ jobs \subseteq Requests
    /\ status \in [Requests -> {"pending", "running", "failed"}]
    /\ claims \subseteq Requests \X {"api", "intake", "dlq"}
    /\ queue \in [Requests -> 0..1] /\ dead \in [Requests -> 0..1]
    /\ receives \in [Requests -> 0..MaxReceives]
    /\ at \in [Workers -> {"idle", "loaded", "locked", "failing", "record"}]
    /\ item \in [Workers -> Requests]
    /\ early \subseteq Requests
    /\ spent \subseteq Faults

(* The files of a request: saved in order, under their names.              *)
FilesInv ==
    \A r \in Requests : /\ saved[r] <= Len(form[r])
                        /\ disk[r] \subseteq {form[r][i].name : i \in 1..saved[r]}

(* Before it publishes.                                                    *)
Early == {"user", "save", "publish"}

(* A request: nothing of its event exists before it publishes, its files   *)
(* are saved by then, and its job has been committed.                      *)
RequestInv ==
    \A r \in Requests :
        /\ pc[r] \in Early => queue[r] = 0 /\ dead[r] = 0 /\ receives[r] = 0
        /\ pc[r] \in {"publish", "commit", "created"} => saved[r] = Len(form[r])
        /\ r \in jobs => pc[r] = "created"
        /\ queue[r] = 1 => receives[r] < MaxReceives

(* A handler: its event was published; it has loaded a job that was there, *)
(* and keeps one that it has locked.                                       *)
HandlerInv ==
    /\ \A w \in Workers : at[w] # "idle" => pc[item[w]] \notin Early
    /\ at["intake"] = "loaded" => pc[item["intake"]] = "created"
    /\ at["intake"] = "locked" => item["intake"] \in jobs

(* Projects whose failure can be no surprise: their event came before the  *)
(* commit, or there is no job to fail, now or later.                       *)
Hopeless == early \cup {r \in Requests : pc[r] \in Ended /\ r \notin jobs}

(* Without faults the files of a request stay on disk.                     *)
FilesKept ==
    spent = {} => \A r \in Requests : disk[r] = {form[r][i].name : i \in 1..saved[r]}

(* Without faults only a hopeless event comes to be recorded.              *)
CauseInv ==
    spent = {} =>
        /\ \A r \in Requests : /\ dead[r] = 1 => r \in Hopeless
                               /\ status[r] = "failed" => r \in early
        /\ \A w \in Workers : at[w] \in {"failing", "record"} => item[w] \in Hopeless

Submission == Shape /\ FilesInv /\ RequestInv /\ HandlerInv

(* A form is a sequence of at least one file.                              *)
LEMMA FormShape ==
    ASSUME NEW f \in Forms
    PROVE  Len(f) \in Nat /\ DOMAIN f = 1..Len(f) /\ Len(f) > 0
<1>1. f \in Seq({f[i] : i \in DOMAIN f}) /\ f # <<>>
  BY SubmissionAssumption
<1>. QED BY <1>1

(* A file's name is a file name.                                           *)
LEMMA NamesOfForms ==
    ASSUME NEW f \in Forms, NEW i \in 1..Len(f)
    PROVE  f[i].name \in FileNames
BY FormShape DEF FileNames

(* Messages that are left keep their types.                                *)
LEMMA ReturnShape ==
    ASSUME Shape, NEW w \in Workers,
           Return(w) \/ UNCHANGED msgVars
    PROVE  /\ queue' \in [Requests -> 0..1] /\ dead' \in [Requests -> 0..1]
           /\ receives' \in [Requests -> 0..MaxReceives]
BY DEF Shape, Return, msgVars

(* So does a handler that goes on.                                         *)
LEMMA GotoShape ==
    ASSUME Shape, NEW w \in Workers, NEW l \in {"idle", "locked", "record", "failing"},
           Goto(w, l)
    PROVE  /\ at' \in [Workers -> {"idle", "loaded", "locked", "failing", "record"}]
           /\ item' \in [Workers -> Requests]
BY DEF Shape, Goto

(* At most one request inserts the user.                                   *)
LEMMA InsertGone ==
    ASSUME Shape, NEW r, inserts' = inserts \ {r}
    PROVE  inserts' = {} \/ \E q \in Requests : inserts' = {q}
<1>1. CASE inserts = {}
  BY <1>1
<1>2. ASSUME NEW q \in Requests, inserts = {q}
      PROVE  inserts' = {} \/ inserts' = {q}
  BY <1>2
<1>. QED BY <1>1, <1>2 DEF Shape

(* Every step keeps the types.                                             *)
LEMMA StepShape == Shape /\ RequestInv /\ HandlerInv /\ [Next]_vars => Shape'
<1>. SUFFICES ASSUME Shape, RequestInv, HandlerInv, [Next]_vars PROVE Shape'
  OBVIOUS
<1>. USE SubmissionAssumption DEF Shape, Ended, Workers
<1>1. ASSUME NEW r \in Requests, Authenticate(r)
      PROVE  Shape'
  BY <1>1 DEF Authenticate, reqVars, dbVars, msgVars, workVars
<1>2. ASSUME NEW r \in Requests, Save(r)
      PROVE  Shape'
  <2>. DEFINE file == form[r][saved[r] + 1]
  <2>2. file.name \in FileNames
    <3>1. form[r] \in Forms /\ saved[r] \in Nat /\ saved[r] < Len(form[r])
      BY <1>2 DEF Save
    <3>2. saved[r] + 1 \in 1..Len(form[r])
      BY <3>1, FormShape
    <3>. QED BY <3>1, <3>2, NamesOfForms
  <2>3. disk' \in [Requests -> SUBSET FileNames] /\ saved' \in [Requests -> Nat]
    BY <1>2, <2>2 DEF Save
  <2>. QED BY <1>2, <2>3 DEF Save, dbVars, msgVars, workVars
<1>3. ASSUME NEW r \in Requests, Reject(r)
      PROVE  Shape'
  BY <1>3 DEF Reject, Rollback, reqVars, dbVars, msgVars, workVars
<1>4. ASSUME NEW r \in Requests, Flush(r)
      PROVE  Shape'
  BY <1>4 DEF Flush, reqVars, dbVars, msgVars, workVars
<1>5. ASSUME NEW r \in Requests, Publish(r)
      PROVE  Shape'
  BY <1>5 DEF Publish, reqVars, dbVars, msgVars, workVars
<1>6. ASSUME NEW r \in Requests, PublishFails(r)
      PROVE  Shape'
  <2>1. queue' \in [Requests -> 0..1]
    <3>1. CASE queue' = queue
      BY <3>1
    <3>2. CASE queue' = [queue EXCEPT ![r] = 1]
      BY <3>2
    <3>. QED BY <1>6, <3>1, <3>2 DEF PublishFails
  <2>2. spent' \subseteq Faults
    BY <1>6 DEF PublishFails, Spend
  <2>3. pc' \in [Requests -> {"user", "save", "publish", "commit"} \cup Ended]
    BY <1>6 DEF PublishFails, Rollback
  <2>4. inserts' = {} \/ \E q \in Requests : inserts' = {q}
    BY <1>6, InsertGone DEF PublishFails, Rollback
  <2>. QED BY <1>6, <2>1, <2>2, <2>3, <2>4 DEF PublishFails, Rollback, dbVars, workVars
<1>7. ASSUME NEW r \in Requests, Commit(r)
      PROVE  Shape'
  <2>1. claims' \subseteq Requests \X {"api", "intake", "dlq"}
    BY <1>7 DEF Commit
  <2>2. inserts' = {} \/ \E q \in Requests : inserts' = {q}
    BY <1>7 DEF Commit
  <2>. QED BY <1>7, <2>1, <2>2 DEF Commit, msgVars, workVars
<1>8. ASSUME NEW r \in Requests, CommitFails(r)
      PROVE  Shape'
  BY <1>8 DEF CommitFails, Rollback, Spend, reqVars, dbVars, msgVars, workVars
<1>9. ASSUME NEW r \in Requests, Delete(r)
      PROVE  Shape'
  BY <1>9 DEF Delete, reqVars, dbVars, msgVars, workVars
<1>10. ASSUME NEW r \in Requests, Take(r)
      PROVE  Shape'
  <2>1. receives' \in [Requests -> 0..MaxReceives] /\ queue' \in [Requests -> 0..1]
    BY <1>10 DEF Take, RequestInv
  <2>2. /\ at' \in [Workers -> {"idle", "loaded", "locked", "failing", "record"}]
        /\ item' \in [Workers -> Requests] /\ early' \subseteq Requests
    BY <1>10 DEF Take
  <2>. QED BY <1>10, <2>1, <2>2 DEF Take, reqVars, dbVars
<1>11. ASSUME NEW r \in Requests, TakeDead(r)
      PROVE  Shape'
  BY <1>11 DEF TakeDead, reqVars, dbVars, msgVars, workVars
<1>12. ASSUME NEW r \in Requests, LoseFile(r)
      PROVE  Shape'
  BY <1>12 DEF LoseFile, Spend, reqVars, dbVars, msgVars, workVars
<1>13. ASSUME NEW w \in Workers, Failing(w)
      PROVE  Shape'
  BY <1>13, ReturnShape, GotoShape DEF Failing, reqVars, dbVars
<1>14. ASSUME NEW w \in Workers, Record(w)
      PROVE  Shape'
  <2>1. /\ status' \in [Requests -> {"pending", "running", "failed"}]
        /\ claims' \subseteq Requests \X {"api", "intake", "dlq"}
    <3>1. item[w] \in Requests /\ w \in {"intake", "dlq"}
      OBVIOUS
    <3>2. CASE UNCHANGED <<status, claims>>
      BY <3>2
    <3>3. CASE /\ status' = [status EXCEPT ![item[w]] = "failed"]
               /\ claims' = claims \cup {<<item[w], w>>}
      BY <3>1, <3>3
    <3>. QED BY <1>14, <3>2, <3>3 DEF Record
  <2>2. Return(w) \/ UNCHANGED msgVars
    BY <1>14 DEF Record
  <2>. QED BY <1>14, <2>1, <2>2, ReturnShape, GotoShape DEF Record, reqVars
<1>15. ASSUME NEW w \in Workers, WorkerFails(w)
      PROVE  Shape'
  BY <1>15, ReturnShape, GotoShape DEF WorkerFails, Spend, reqVars, dbVars
<1>16. CASE Touch
  BY <1>16, ReturnShape, GotoShape DEF Touch, reqVars, dbVars
<1>17. CASE CommitIntake
  BY <1>17 DEF CommitIntake, Goto, reqVars, dbVars, msgVars
<1>18. CASE NoFiles
  BY <1>18 DEF NoFiles, Goto, reqVars, dbVars, msgVars
<1>19. CASE UNCHANGED vars
  BY <1>19 DEF vars, reqVars, dbVars, msgVars, workVars
<1>. QED BY <1>1, <1>2, <1>3, <1>4, <1>5, <1>6, <1>7, <1>8, <1>9,
            <1>10, <1>11, <1>12, <1>13, <1>14, <1>15, <1>16, <1>17,
            <1>18, <1>19
         DEF Next, Serve, WorkIntake, WorkDlq, Workers

(* Every step keeps the requests.                                          *)
LEMMA StepRequest == Shape /\ RequestInv /\ HandlerInv /\ [Next]_vars => RequestInv'
<1>. SUFFICES ASSUME Shape, RequestInv, HandlerInv, [Next]_vars PROVE RequestInv'
  OBVIOUS
<1>. USE SubmissionAssumption DEF Shape, RequestInv, HandlerInv, Early, Ended, Workers
<1>1. ASSUME NEW r \in Requests, Authenticate(r)
      PROVE  RequestInv'
  BY <1>1 DEF Authenticate, reqVars, dbVars, msgVars, workVars
<1>2. ASSUME NEW r \in Requests, Save(r)
      PROVE  RequestInv'
  BY <1>2 DEF Save, reqVars, dbVars, msgVars, workVars
<1>3. ASSUME NEW r \in Requests, Reject(r)
      PROVE  RequestInv'
  BY <1>3 DEF Reject, Rollback, reqVars, dbVars, msgVars, workVars
<1>4. ASSUME NEW r \in Requests, Flush(r)
      PROVE  RequestInv'
  BY <1>4 DEF Flush, reqVars, dbVars, msgVars, workVars
<1>5. ASSUME NEW r \in Requests, Publish(r)
      PROVE  RequestInv'
  BY <1>5 DEF Publish, reqVars, dbVars, msgVars, workVars
<1>6. ASSUME NEW r \in Requests, PublishFails(r)
      PROVE  RequestInv'
  BY <1>6 DEF PublishFails, Rollback, Spend, reqVars, dbVars, msgVars, workVars
<1>7. ASSUME NEW r \in Requests, Commit(r)
      PROVE  RequestInv'
  BY <1>7 DEF Commit, reqVars, dbVars, msgVars, workVars
<1>8. ASSUME NEW r \in Requests, CommitFails(r)
      PROVE  RequestInv'
  BY <1>8 DEF CommitFails, Rollback, Spend, reqVars, dbVars, msgVars, workVars
<1>9. ASSUME NEW r \in Requests, Delete(r)
      PROVE  RequestInv'
  BY <1>9 DEF Delete, reqVars, dbVars, msgVars, workVars
<1>10. ASSUME NEW r \in Requests, Take(r)
      PROVE  RequestInv'
  BY <1>10 DEF Take, reqVars, dbVars, msgVars, workVars
<1>11. ASSUME NEW r \in Requests, TakeDead(r)
      PROVE  RequestInv'
  BY <1>11 DEF TakeDead, reqVars, dbVars, msgVars, workVars
<1>12. ASSUME NEW r \in Requests, LoseFile(r)
      PROVE  RequestInv'
  BY <1>12 DEF LoseFile, Spend, reqVars, dbVars, msgVars, workVars
<1>13. ASSUME NEW w \in Workers, Failing(w)
      PROVE  RequestInv'
  BY <1>13 DEF Failing, Goto, Return, reqVars, dbVars, msgVars
<1>14. ASSUME NEW w \in Workers, Record(w)
      PROVE  RequestInv'
  BY <1>14 DEF Record, Goto, Return, reqVars, dbVars, msgVars
<1>15. ASSUME NEW w \in Workers, WorkerFails(w)
      PROVE  RequestInv'
  BY <1>15 DEF WorkerFails, Goto, Return, Spend, reqVars, dbVars, msgVars
<1>16. CASE Touch
  BY <1>16 DEF Touch, Goto, Return, reqVars, dbVars, msgVars
<1>17. CASE CommitIntake
  BY <1>17 DEF CommitIntake, Goto, reqVars, dbVars, msgVars
<1>18. CASE NoFiles
  BY <1>18 DEF NoFiles, Goto, reqVars, dbVars, msgVars
<1>19. CASE UNCHANGED vars
  BY <1>19 DEF vars, reqVars, dbVars, msgVars, workVars
<1>. QED BY <1>1, <1>2, <1>3, <1>4, <1>5, <1>6, <1>7, <1>8, <1>9,
            <1>10, <1>11, <1>12, <1>13, <1>14, <1>15, <1>16, <1>17,
            <1>18, <1>19
         DEF Next, Serve, WorkIntake, WorkDlq, Workers

(* Every step keeps the handlers.                                          *)
LEMMA StepHandler == Shape /\ RequestInv /\ HandlerInv /\ [Next]_vars => HandlerInv'
<1>. SUFFICES ASSUME Shape, RequestInv, HandlerInv, [Next]_vars PROVE HandlerInv'
  OBVIOUS
<1>. USE SubmissionAssumption DEF Shape, RequestInv, HandlerInv, Early, Ended, Workers
<1>1. ASSUME NEW r \in Requests, Authenticate(r)
      PROVE  HandlerInv'
  BY <1>1 DEF Authenticate, reqVars, dbVars, msgVars, workVars
<1>2. ASSUME NEW r \in Requests, Save(r)
      PROVE  HandlerInv'
  BY <1>2 DEF Save, reqVars, dbVars, msgVars, workVars
<1>3. ASSUME NEW r \in Requests, Reject(r)
      PROVE  HandlerInv'
  BY <1>3 DEF Reject, Rollback, reqVars, dbVars, msgVars, workVars
<1>4. ASSUME NEW r \in Requests, Flush(r)
      PROVE  HandlerInv'
  BY <1>4 DEF Flush, reqVars, dbVars, msgVars, workVars
<1>5. ASSUME NEW r \in Requests, Publish(r)
      PROVE  HandlerInv'
  BY <1>5 DEF Publish, reqVars, dbVars, msgVars, workVars
<1>6. ASSUME NEW r \in Requests, PublishFails(r)
      PROVE  HandlerInv'
  BY <1>6 DEF PublishFails, Rollback, Spend, reqVars, dbVars, msgVars, workVars
<1>7. ASSUME NEW r \in Requests, Commit(r)
      PROVE  HandlerInv'
  BY <1>7 DEF Commit, reqVars, dbVars, msgVars, workVars
<1>8. ASSUME NEW r \in Requests, CommitFails(r)
      PROVE  HandlerInv'
  BY <1>8 DEF CommitFails, Rollback, Spend, reqVars, dbVars, msgVars, workVars
<1>9. ASSUME NEW r \in Requests, Delete(r)
      PROVE  HandlerInv'
  BY <1>9 DEF Delete, reqVars, dbVars, msgVars, workVars
<1>10. ASSUME NEW r \in Requests, Take(r)
      PROVE  HandlerInv'
  BY <1>10 DEF Take, reqVars, dbVars, msgVars, workVars
<1>11. ASSUME NEW r \in Requests, TakeDead(r)
      PROVE  HandlerInv'
  BY <1>11 DEF TakeDead, reqVars, dbVars, msgVars, workVars
<1>12. ASSUME NEW r \in Requests, LoseFile(r)
      PROVE  HandlerInv'
  BY <1>12 DEF LoseFile, Spend, reqVars, dbVars, msgVars, workVars
<1>13. ASSUME NEW w \in Workers, Failing(w)
      PROVE  HandlerInv'
  BY <1>13 DEF Failing, Goto, Return, reqVars, dbVars, msgVars
<1>14. ASSUME NEW w \in Workers, Record(w)
      PROVE  HandlerInv'
  BY <1>14 DEF Record, Goto, Return, reqVars, dbVars, msgVars
<1>15. ASSUME NEW w \in Workers, WorkerFails(w)
      PROVE  HandlerInv'
  BY <1>15 DEF WorkerFails, Goto, Return, Spend, reqVars, dbVars, msgVars
<1>16. CASE Touch
  BY <1>16 DEF Touch, Goto, Return, reqVars, dbVars, msgVars
<1>17. CASE CommitIntake
  BY <1>17 DEF CommitIntake, Goto, reqVars, dbVars, msgVars
<1>18. CASE NoFiles
  BY <1>18 DEF NoFiles, Goto, reqVars, dbVars, msgVars
<1>19. CASE UNCHANGED vars
  BY <1>19 DEF vars, reqVars, dbVars, msgVars, workVars
<1>. QED BY <1>1, <1>2, <1>3, <1>4, <1>5, <1>6, <1>7, <1>8, <1>9,
            <1>10, <1>11, <1>12, <1>13, <1>14, <1>15, <1>16, <1>17,
            <1>18, <1>19
         DEF Next, Serve, WorkIntake, WorkDlq, Workers

(* Only saving and losing a file change what is on disk.                   *)
LEMMA OtherSteps ==
    ASSUME [Next]_vars,
           \A r \in Requests : ~Save(r) /\ ~LoseFile(r)
    PROVE  UNCHANGED <<form, saved, disk>>
<1>. USE DEF reqVars
<1>1. ASSUME NEW r \in Requests, Serve(r) \/ Delete(r) \/ WorkDlq(r)
      PROVE  UNCHANGED <<form, saved, disk>>
  <2>1. CASE Serve(r)
    BY <2>1 DEF Serve, Authenticate, Reject, Flush, Publish, PublishFails, Commit,
                CommitFails, Rollback
  <2>2. CASE Delete(r)
    BY <2>2 DEF Delete
  <2>3. CASE WorkDlq(r)
    BY <2>3 DEF WorkDlq, TakeDead, Failing, Record, WorkerFails
  <2>. QED BY <1>1, <2>1, <2>2, <2>3
<1>2. CASE WorkIntake
  BY <1>2 DEF WorkIntake, Take, Touch, CommitIntake, NoFiles, Failing, Record, WorkerFails
<1>. QED BY <1>1, <1>2 DEF Next, vars

(* A saved file is the next of its form.                                   *)
LEMMA SaveNext ==
    ASSUME Shape, NEW r \in Requests, Save(r)
    PROVE  /\ form' = form /\ saved[r] \in Nat /\ saved[r] < Len(form[r])
           /\ saved' = [saved EXCEPT ![r] = saved[r] + 1]
           /\ disk' = [disk EXCEPT ![r] = disk[r] \cup {form[r][saved[r] + 1].name}]
           /\ 1..(saved[r] + 1) = (1..saved[r]) \cup {saved[r] + 1}
BY DEF Shape, Save

(* Every step keeps the files.                                             *)
LEMMA StepFiles == Shape /\ FilesInv /\ [Next]_vars => FilesInv'
<1>. SUFFICES ASSUME Shape, FilesInv, [Next]_vars, NEW q \in Requests
              PROVE  (/\ saved[q] <= Len(form[q])
                      /\ disk[q] \subseteq {form[q][i].name : i \in 1..saved[q]})'
  BY DEF FilesInv
<1>1. CASE UNCHANGED <<form, saved, disk>>
  BY <1>1 DEF FilesInv
<1>2. ASSUME NEW r \in Requests, Save(r)
      PROVE  /\ saved'[q] <= Len(form'[q])
             /\ disk'[q] \subseteq {form'[q][i].name : i \in 1..saved'[q]}
  <2>1. CASE q = r
    <3>1. form'[r] \in Forms /\ Len(form'[r]) \in Nat
      BY <1>2, SaveNext, FormShape DEF Shape
    <3>2. saved'[r] = saved[r] + 1 /\ disk'[r] = disk[r] \cup {form[r][saved[r] + 1].name}
      BY <1>2, SaveNext DEF Shape
    <3>. QED BY <1>2, <2>1, <3>1, <3>2, SaveNext DEF FilesInv
  <2>2. CASE q # r
    <3>1. saved'[q] = saved[q] /\ disk'[q] = disk[q]
      BY <1>2, <2>2, SaveNext DEF Shape
    <3>. QED BY <1>2, <3>1, SaveNext DEF FilesInv
  <2>. QED BY <2>1, <2>2
<1>3. ASSUME NEW r \in Requests, LoseFile(r)
      PROVE  /\ saved'[q] <= Len(form'[q])
             /\ disk'[q] \subseteq {form'[q][i].name : i \in 1..saved'[q]}
  <2>1. form' = form /\ saved' = saved /\ disk'[q] \subseteq disk[q]
    BY <1>3 DEF LoseFile, Shape
  <2>. QED BY <2>1 DEF FilesInv
<1>. QED BY <1>1, <1>2, <1>3, OtherSteps

(* Faults are never forgotten.                                             *)
LEMMA SpentGrows == ASSUME [Next]_vars, spent' = {} PROVE spent = {}
<1>1. ASSUME NEW kind, Spend(kind) PROVE FALSE
  BY <1>1 DEF Spend
<1>2. ASSUME NEW r \in Requests, Serve(r) \/ Delete(r) \/ WorkDlq(r) \/ LoseFile(r)
      PROVE  spent' = spent
  <2>1. CASE Serve(r)
    BY <1>1, <2>1 DEF Serve, Authenticate, Save, Reject, Flush, Publish, PublishFails,
                      Commit, CommitFails
  <2>2. CASE Delete(r) \/ LoseFile(r)
    BY <1>1, <2>2 DEF Delete, LoseFile
  <2>3. CASE WorkDlq(r)
    BY <1>1, <2>3 DEF WorkDlq, TakeDead, Failing, Record, WorkerFails
  <2>. QED BY <1>2, <2>1, <2>2, <2>3
<1>3. CASE WorkIntake
  BY <1>1, <1>3 DEF WorkIntake, Take, Touch, CommitIntake, NoFiles, Failing, Record,
                    WorkerFails
<1>. QED BY <1>2, <1>3 DEF Next, vars

(* Every step that is no fault keeps the files on disk.                    *)
LEMMA StepKept == Shape /\ FilesKept /\ [Next]_vars => FilesKept'
<1>. SUFFICES ASSUME Shape, FilesKept, [Next]_vars, spent' = {}, NEW q \in Requests
              PROVE  (disk[q] = {form[q][i].name : i \in 1..saved[q]})'
  BY DEF FilesKept
<1>. USE SpentGrows
<1>1. CASE UNCHANGED <<form, saved, disk>>
  BY <1>1 DEF FilesKept
<1>2. ASSUME NEW r \in Requests, Save(r)
      PROVE  disk'[q] = {form'[q][i].name : i \in 1..saved'[q]}
  <2>1. CASE q = r
    <3>1. saved'[r] = saved[r] + 1 /\ disk'[r] = disk[r] \cup {form[r][saved[r] + 1].name}
      BY <1>2, SaveNext DEF Shape
    <3>. QED BY <1>2, <2>1, <3>1, SaveNext DEF FilesKept
  <2>2. CASE q # r
    <3>1. saved'[q] = saved[q] /\ disk'[q] = disk[q]
      BY <1>2, <2>2, SaveNext DEF Shape
    <3>. QED BY <1>2, <3>1, SaveNext DEF FilesKept
  <2>. QED BY <2>1, <2>2
<1>3. ASSUME NEW r \in Requests, LoseFile(r) PROVE FALSE
  BY <1>3 DEF LoseFile, Spend
<1>. QED BY <1>1, <1>2, <1>3, OtherSteps

(* A job that is there has a file there.                                   *)
LEMMA JobHasFile ==
    ASSUME Submission, FilesKept, spent = {}, NEW r \in jobs
    PROVE  OnDisk(r) # {}
<1>1. r \in Requests /\ saved[r] = Len(form[r]) /\ form[r] \in Forms
  BY DEF Submission, Shape, RequestInv
<1>2. 1 \in DOMAIN form[r] /\ 1 \in 1..saved[r]
  BY <1>1, FormShape
<1>3. form[r][1].name \in disk[r]
  BY <1>1, <1>2 DEF FilesKept
<1>. QED BY <1>2, <1>3 DEF OnDisk

(* Every step that is no fault lets only hopeless events come to be recorded.*)
LEMMA StepCause == Submission /\ FilesKept /\ CauseInv /\ [Next]_vars => CauseInv'
<1>. SUFFICES ASSUME Submission, FilesKept, CauseInv, [Next]_vars,
                     spent' = {}, spent = {}
              PROVE  CauseInv'
  BY SpentGrows DEF CauseInv
<1>. USE SubmissionAssumption DEF CauseInv, Hopeless, Ended, Workers, Shape, RequestInv, HandlerInv, Submission
<1>1. ASSUME NEW r \in Requests, Authenticate(r)
      PROVE  CauseInv'
  BY <1>1 DEF Authenticate, reqVars, dbVars, msgVars, workVars
<1>2. ASSUME NEW r \in Requests, Save(r)
      PROVE  CauseInv'
  BY <1>2 DEF Save, reqVars, dbVars, msgVars, workVars
<1>3. ASSUME NEW r \in Requests, Reject(r)
      PROVE  CauseInv'
  <2>1. \A q \in Requests : pc'[q] = pc[q] \/ (q = r /\ pc'[q] = "rejected")
    BY <1>3 DEF Reject, Rollback
  <2>2. Hopeless \subseteq Hopeless'
    BY <1>3, <2>1 DEF Reject, Rollback, dbVars
  <2>. HIDE DEF Hopeless, Shape, RequestInv, HandlerInv, Submission
  <2>. QED BY <1>3, <2>2 DEF Reject, Rollback, dbVars, msgVars, workVars
<1>4. ASSUME NEW r \in Requests, Flush(r)
      PROVE  CauseInv'
  BY <1>4 DEF Flush, reqVars, dbVars, msgVars, workVars
<1>5. ASSUME NEW r \in Requests, Publish(r)
      PROVE  CauseInv'
  BY <1>5 DEF Publish, reqVars, dbVars, msgVars, workVars
<1>6. ASSUME NEW r \in Requests, PublishFails(r)
      PROVE  CauseInv'
  BY <1>6 DEF PublishFails, Rollback, Spend, reqVars, dbVars, msgVars, workVars
<1>7. ASSUME NEW r \in Requests, Commit(r)
      PROVE  CauseInv'
  BY <1>7 DEF Commit, reqVars, dbVars, msgVars, workVars
<1>8. ASSUME NEW r \in Requests, CommitFails(r)
      PROVE  CauseInv'
  BY <1>8 DEF CommitFails, Rollback, Spend, reqVars, dbVars, msgVars, workVars
<1>9. ASSUME NEW r \in Requests, Delete(r)
      PROVE  CauseInv'
  <2>1. Hopeless \subseteq Hopeless'
    BY <1>9 DEF Delete, reqVars
  <2>. HIDE DEF Hopeless, Shape, RequestInv, HandlerInv, Submission
  <2>. QED BY <1>9, <2>1 DEF Delete, reqVars, msgVars, workVars
<1>10. ASSUME NEW r \in Requests, Take(r)
      PROVE  CauseInv'
  BY <1>10 DEF Take, reqVars, dbVars, msgVars, workVars
<1>11. ASSUME NEW r \in Requests, TakeDead(r)
      PROVE  CauseInv'
  <2>1. Hopeless' = Hopeless
    BY <1>11 DEF TakeDead, reqVars, dbVars
  <2>2. /\ dead[r] = 1 /\ status' = status /\ early' = early
        /\ \A q \in Requests : dead'[q] = 1 => dead[q] = 1
    BY <1>11 DEF TakeDead, dbVars
  <2>3. \A w \in Workers : at'[w] \in {"failing", "record"}
                               => item'[w] = r \/ (at'[w] = at[w] /\ item'[w] = item[w])
    BY <1>11 DEF TakeDead
  <2>. HIDE DEF Hopeless, Shape, RequestInv, HandlerInv, Submission
  <2>. QED BY <2>1, <2>2, <2>3
<1>12. ASSUME NEW r \in Requests, LoseFile(r)
      PROVE  CauseInv'
  BY <1>12 DEF LoseFile, Spend, reqVars, dbVars, msgVars, workVars
<1>13. ASSUME NEW w \in Workers, Failing(w)
      PROVE  CauseInv'
  BY <1>13 DEF Failing, Goto, Return, reqVars, dbVars, msgVars
<1>14. ASSUME NEW w \in Workers, Record(w)
      PROVE  CauseInv'
  BY <1>14 DEF Record, Goto, Return, reqVars, dbVars, msgVars
<1>15. ASSUME NEW w \in Workers, WorkerFails(w)
      PROVE  CauseInv'
  BY <1>15 DEF WorkerFails, Goto, Return, Spend, reqVars, dbVars, msgVars
<1>16. CASE Touch
  BY <1>16 DEF Touch, Goto, Return, reqVars, dbVars, msgVars
<1>17. CASE CommitIntake
  BY <1>17 DEF CommitIntake, Goto, reqVars, dbVars, msgVars
<1>18. CASE NoFiles
  BY <1>18, JobHasFile DEF NoFiles
<1>19. CASE UNCHANGED vars
  BY <1>19 DEF vars, reqVars, dbVars, msgVars, workVars
<1>. QED BY <1>1, <1>2, <1>3, <1>4, <1>5, <1>6, <1>7, <1>8, <1>9,
            <1>10, <1>11, <1>12, <1>13, <1>14, <1>15, <1>16, <1>17,
            <1>18, <1>19
         DEF Next, Serve, WorkIntake, WorkDlq, Workers

-----------------------------------------------------------------------------
(* The invariants hold initially.                                          *)
LEMMA InitSubmission == Init => Submission /\ FilesKept /\ CauseInv
<1>. SUFFICES ASSUME Init PROVE Submission /\ FilesKept /\ CauseInv
  OBVIOUS
<1>. USE SubmissionAssumption DEF Init
<1>1. (CHOOSE r \in Requests : TRUE) \in Requests
  OBVIOUS
<1>2. item \in [Workers -> Requests]
  BY <1>1
<1>3. Shape
  <2>1. /\ queue \in [Requests -> 0..1] /\ dead \in [Requests -> 0..1]
        /\ receives \in [Requests -> 0..MaxReceives]
    OBVIOUS
  <2>2. disk \in [Requests -> SUBSET FileNames]
    OBVIOUS
  <2>3. pc \in [Requests -> {"user", "save", "publish", "commit"} \cup Ended]
    BY DEF Ended
  <2>4. at \in [Workers -> {"idle", "loaded", "locked", "failing", "record"}]
    OBVIOUS
  <2>. QED BY <1>2, <2>1, <2>2, <2>3, <2>4 DEF Shape
<1>4. FilesInv /\ FilesKept
  <2>1. \A r \in Requests : 1..saved[r] = {} /\ disk[r] = {} /\ form[r] \in Forms /\ saved[r] = 0
    OBVIOUS
  <2>. QED BY <2>1, FormShape DEF FilesInv, FilesKept
<1>5. RequestInv /\ HandlerInv
  BY DEF RequestInv, HandlerInv, Early, Workers
<1>6. CauseInv
  BY DEF CauseInv
<1>. QED BY <1>3, <1>4, <1>5, <1>6 DEF Submission

(* They are invariants.                                                    *)
LEMMA SubmissionInvariant == Spec => [](Submission /\ FilesKept /\ CauseInv)
<1>1. Submission /\ [Next]_vars => Submission'
  BY StepShape, StepFiles, StepRequest, StepHandler DEF Submission
<1>2. Submission /\ FilesKept /\ [Next]_vars => FilesKept'
  BY StepKept DEF Submission
<1>. QED BY InitSubmission, <1>1, <1>2, StepCause, PTL DEF Spec

(* Every variable keeps its domain: one request at a time inserts the      *)
(* user, nothing is on disk but what was saved, and no event is received   *)
(* more often than the queue allows.                                       *)
THEOREM TypeCorrect == Spec => []TypeOK
<1>1. Submission => TypeOK
  <2>. SUFFICES ASSUME Submission PROVE TypeOK
    OBVIOUS
  <2>1. inserts \subseteq Requests /\ Cardinality(inserts) <= 1
    <3>1. CASE inserts = {}
      BY <3>1, FS_EmptySet
    <3>2. ASSUME NEW r \in Requests, inserts = {r}
          PROVE  inserts \subseteq Requests /\ Cardinality(inserts) = 1
      BY <3>2, FS_Singleton
    <3>. QED BY <3>1, <3>2 DEF Submission, Shape
  <2>2. \A r \in Requests : form[r] \in Forms /\ saved[r] \in 0..Len(form[r])
    BY FormShape DEF Submission, Shape, FilesInv
  <2>3. \A r \in Requests : disk[r] \subseteq {form[r][i].name : i \in 1..saved[r]}
    BY DEF Submission, FilesInv
  <2>. QED BY <2>1, <2>2, <2>3 DEF Submission, Shape, TypeOK
<1>. QED BY <1>1, SubmissionInvariant, PTL

(* An event is consumed only while its job is there: the intake commit     *)
(* holds the row lock that a delete waits for, and a failure is recorded   *)
(* only of a job that was found (intake.py; base.py, _handle_terminal).    *)
THEOREM ClaimsOfJobs == Spec => ClaimsHaveJobs
<1>1. Submission /\ [Next]_vars =>
        [\A r \in Requests, w \in Workers :
            <<r, w>> \in claims' \ claims => r \in jobs']_vars
  <2>. SUFFICES ASSUME Submission, [Next]_vars, NEW q \in Requests, NEW v \in Workers,
                       <<q, v>> \in claims' \ claims
                PROVE  q \in jobs'
    OBVIOUS
  <2>. USE DEF dbVars
  <2>1. ASSUME NEW r \in Requests, Serve(r) PROVE q \in jobs'
    <3>1. CASE Commit(r)
      BY <3>1 DEF Commit, Workers
    <3>. QED BY <2>1, <3>1 DEF Serve, Authenticate, Save, Reject, Flush, Publish,
                               PublishFails, CommitFails, Rollback
  <2>2. ASSUME NEW w \in Workers, Record(w) PROVE q \in jobs'
    BY <2>2 DEF Record
  <2>3. CASE CommitIntake
    BY <2>3 DEF CommitIntake, Submission, HandlerInv
  <2>4. ASSUME NEW r \in Requests, WorkDlq(r) PROVE q \in jobs'
    BY <2>2, <2>4 DEF WorkDlq, TakeDead, Failing, WorkerFails, Workers
  <2>5. CASE WorkIntake
    BY <2>2, <2>3, <2>5 DEF WorkIntake, Take, Touch, NoFiles, Failing, WorkerFails, Workers
  <2>6. ASSUME NEW r \in Requests, Delete(r) \/ LoseFile(r) PROVE q \in jobs'
    BY <2>6 DEF Delete, LoseFile
  <2>. QED BY <2>1, <2>4, <2>5, <2>6 DEF Next, vars
<1>. QED BY <1>1, SubmissionInvariant, PTL DEF Spec, ClaimsHaveJobs

(* In a behaviour without faults intake fails no project but one whose     *)
(* event the worker received before the request had committed its job      *)
(* (services/project.py publishes first).                                  *)
THEOREM FailuresHaveCauses == Spec => []FailureCause
<1>1. CauseInv => FailureCause
  BY DEF CauseInv, FailureCause
<1>. QED BY <1>1, SubmissionInvariant, PTL
=============================================================================
