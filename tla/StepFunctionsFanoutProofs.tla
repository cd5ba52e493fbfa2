--------------------- MODULE StepFunctionsFanoutProofs ---------------------
(***************************************************************************)
(* What the annotation stage under Step Functions guarantees for every set *)
(* of executions, tasks and workers, every concurrency of the Map state    *)
(* and every set and budget of faults.                                     *)
(***************************************************************************)
EXTENDS StepFunctionsFanout, FiniteSetTheorems, TLAPS

(* The claim of planning.completed as a lock: one prepare transaction is   *)
(* open at a time, it found no claim, and whoever is past it committed it. *)
Past(x) ==
    prepare[x] = "committed" \/ phase[x] \in {"mapping", "announced"} \/ sent[x] # {}

ClaimInv ==
    /\ phase \in [Executions -> {"unstarted", "preparing", "mapping"} \cup Ended]
    /\ prepare \in [Executions -> {"idle", "begun", "committed", "dead"}]
    /\ DOMAIN sent = Executions
    /\ \A x, y \in Executions : prepare[x] = "begun" /\ prepare[y] = "begun" => x = y
    /\ \A x \in Executions : prepare[x] = "begun" => ~prepared
    /\ \A x \in Executions : Past(x) => prepared
    /\ \A x, y \in Executions : Past(x) /\ Past(y) => x = y

(* Nobody has prepared anything.                                           *)
LEMMA InitClaim == Init => ClaimInv
BY FanoutAssumption DEF Init, ClaimInv, Past, Ended

(* The lock passes from one execution to the next only by rolling back.    *)
LEMMA StepClaim == ClaimInv /\ [Next]_vars => ClaimInv'
<1>. SUFFICES ASSUME ClaimInv, [Next]_vars PROVE ClaimInv'
  OBVIOUS
<1>. USE DEF ClaimInv, Past, Ended
<1>1. ASSUME NEW x \in Executions, PrepareBegin(x) PROVE ClaimInv'
  BY <1>1 DEF PrepareBegin, dbVars
<1>2. ASSUME NEW x \in Executions, PrepareCommit(x) PROVE ClaimInv'
  BY <1>2 DEF PrepareCommit
<1>3. ASSUME NEW x \in Executions, PrepareAnswer(x) PROVE ClaimInv'
  BY <1>3 DEF PrepareAnswer, dbVars
<1>4. ASSUME NEW x \in Executions, PrepareFails(x) PROVE ClaimInv'
  BY <1>4 DEF PrepareFails, dbVars
<1>5. ASSUME NEW x \in Executions, PrepareDies(x) PROVE ClaimInv'
  BY <1>5 DEF PrepareDies, dbVars
<1>6. ASSUME NEW x \in Executions, Dispatch(x) PROVE ClaimInv'
  BY <1>6 DEF Dispatch, dbVars
<1>7. ASSUME NEW x \in Executions, Announce(x) \/ DispatchFails(x) \/ AnnounceFails(x)
      PROVE  ClaimInv'
  BY <1>7 DEF Announce, DispatchFails, AnnounceFails, dbVars
<1>8. ASSUME NEW x \in Executions, Start(x) PROVE ClaimInv'
  BY <1>8 DEF Start, dbVars
<1>9. ASSUME NEW w \in Workers, Work(w) \/ Interrupt(w) PROVE UNCHANGED <<phase, prepare, sent, prepared>>
  BY <1>9 DEF Work, Take, CountBatches, CommitTask, Publish, PublishFails, Answer,
              FailTerminally, RecordFailure, CapBreached, Interrupt, machineVars, dbVars
<1>10. ASSUME NEW m \in Executions \X Tasks, Redrive(m) \/ Duplicate(m)
       PROVE  UNCHANGED <<phase, prepare, sent, prepared>>
  BY <1>10 DEF Redrive, Duplicate, machineVars, dbVars
<1>11. CASE UNCHANGED <<phase, prepare, sent, prepared>>
  BY <1>11
<1>. QED BY <1>1, <1>2, <1>3, <1>4, <1>5, <1>6, <1>7, <1>8, <1>9, <1>10, <1>11
         DEF Next, Orchestrate, vars, machineVars, dbVars

(* Whoever maps or announced is past the claim.                            *)
LEMMA ClaimOneMap == ClaimInv => OneMap
<1>. SUFFICES ASSUME ClaimInv PROVE OneMap
  OBVIOUS
<1>. DEFINE S == {x \in Executions : phase[x] \in {"mapping", "announced"} \/ sent[x] # {}}
<1>1. CASE S = {}
  BY <1>1, FS_EmptySet DEF OneMap
<1>2. CASE S # {}
  <2>1. PICK x \in Executions : x \in S
    BY <1>2
  <2>2. S = {x}
    BY <2>1 DEF ClaimInv, Past
  <2>. QED BY <2>2, FS_Singleton DEF OneMap
<1>. QED BY <1>1, <1>2

(* Of all executions started for the job and all retries of their prepare  *)
(* tasks, at most one gets to dispatch the tasks and announce the stage.   *)
THEOREM AtMostOneMap == Spec => []OneMap
BY InitClaim, StepClaim, ClaimOneMap, PTL DEF Spec

-----------------------------------------------------------------------------
(* The types, and what they rest on: a message, waiting or in a worker's   *)
(* hands, is for a task its execution has sent.                            *)
SentFirst ==
    /\ \A m \in Executions \X Tasks : copies[m] > 0 => m[2] \in sent[m[1]]
    /\ \A w \in Workers : at[w] # "idle" => Task(w) \in sent[token[w][1]]

Waited == \A x \in Executions : IsFiniteSet(sent[x] \ answered[x])

Typed ==
    /\ TypeOK /\ SentFirst /\ Waited
    /\ sent \in [Executions -> SUBSET Tasks] /\ answered \in [Executions -> SUBSET Tasks]

(* A fault is one of the Faults.                                           *)
LEMMA SpendType ==
    ASSUME Typed, NEW kind, Spend(kind)
    PROVE  spent' \subseteq Faults /\ left' \in 0..MaxFaults
BY FanoutAssumption DEF Typed, TypeOK, Spend

(* Nothing was sent.                                                       *)
LEMMA InitTyped == Init => Typed
<1>. SUFFICES ASSUME Init PROVE Typed
  OBVIOUS
<1>1. \A x \in Executions : sent[x] \ answered[x] = {}
  BY DEF Init
<1>2. \A x \in Executions : /\ IsFiniteSet(sent[x] \ answered[x])
                            /\ Cardinality(sent[x] \ answered[x]) = 0
  BY <1>1, FS_EmptySet
<1>3. token \in [Workers -> Executions \X Tasks]
  BY FanoutAssumption DEF Init
<1>4. /\ phase \in [Executions -> {"unstarted", "preparing", "mapping"} \cup Ended]
      /\ retries \in [Executions -> 0..MaxAttempts]
      /\ prepare \in [Executions -> {"idle", "begun", "committed", "dead"}]
      /\ sent \in [Executions -> SUBSET Tasks] /\ answered \in [Executions -> SUBSET Tasks]
  BY FanoutAssumption DEF Init, Ended
<1>5. \A x \in Executions : Cardinality(sent[x] \ answered[x]) <= MaxConcurrency
  BY <1>2, FanoutAssumption
<1>6. left \in 0..MaxFaults
  BY FanoutAssumption DEF Init
<1>7. TypeOK
  BY <1>3, <1>4, <1>5, <1>6 DEF Init, TypeOK
<1>8. SentFirst
  BY DEF Init, SentFirst
<1>. QED BY <1>2, <1>4, <1>7, <1>8 DEF Typed, Waited

(* The orchestration leaves the messages alone, but for Dispatch.          *)
LEMMA OrchestrateTyped ==
    ASSUME Typed, NEW x \in Executions,
           \/ PrepareBegin(x) \/ PrepareCommit(x) \/ PrepareAnswer(x) \/ PrepareFails(x)
           \/ PrepareDies(x) \/ Announce(x) \/ Start(x)
           \/ DispatchFails(x) \/ AnnounceFails(x)
    PROVE  Typed'
<1>. USE FanoutAssumption DEF Typed, TypeOK, Ended
<1>1. UNCHANGED <<sent, answered, workVars, claims, batches, job>>
  BY DEF PrepareBegin, PrepareCommit, PrepareAnswer, PrepareFails, PrepareDies, Announce, DispatchFails, AnnounceFails,
         Start, dbVars
<1>2. SentFirst' /\ Waited'
  BY <1>1 DEF SentFirst, Waited, Task, workVars
<1>3. spent' \subseteq Faults /\ left' \in 0..MaxFaults
  BY SpendType DEF faultVars, PrepareBegin, PrepareCommit, PrepareAnswer, PrepareFails, PrepareDies,
                   Announce, DispatchFails, AnnounceFails, Start
<1>4. phase' \in [Executions -> {"unstarted", "preparing", "mapping"} \cup Ended]
  BY DEF PrepareBegin, PrepareCommit, PrepareAnswer, PrepareFails, PrepareDies, Announce, DispatchFails, AnnounceFails, Start
<1>5. retries' \in [Executions -> 0..MaxAttempts]
  <2>1. CASE PrepareFails(x) /\ retries[x] < MaxAttempts
    <3>1. retries' = [retries EXCEPT ![x] = @ + 1] /\ retries[x] + 1 \in 0..MaxAttempts
      BY <2>1 DEF PrepareFails
    <3>. QED BY <3>1
  <2>2. CASE ~(PrepareFails(x) /\ retries[x] < MaxAttempts)
    BY <2>2 DEF PrepareBegin, PrepareCommit, PrepareAnswer, PrepareFails, PrepareDies,
                Announce, DispatchFails, AnnounceFails, Start
  <2>. QED BY <2>1, <2>2
<1>6. prepare' \in [Executions -> {"idle", "begun", "committed", "dead"}]
  BY DEF PrepareBegin, PrepareCommit, PrepareAnswer, PrepareFails, PrepareDies, Announce, DispatchFails, AnnounceFails, Start
<1>7. prepared' \in BOOLEAN /\ stage' \in {"pending", "running", "completed", "failed"}
  BY DEF PrepareBegin, PrepareCommit, PrepareAnswer, PrepareFails, PrepareDies, Announce, DispatchFails, AnnounceFails,
         Start, dbVars
<1>. QED BY <1>1, <1>2, <1>3, <1>4, <1>5, <1>6, <1>7 DEF workVars

(* The Map state sends one task more than it has had answers for, within   *)
(* its concurrency.                                                        *)
LEMMA DispatchTyped ==
    ASSUME Typed, NEW x \in Executions, Dispatch(x)
    PROVE  Typed'
<1>. USE FanoutAssumption DEF Typed, TypeOK
<1>1. PICK t \in Tasks \ sent[x] :
        /\ Cardinality(sent[x] \ answered[x]) < MaxConcurrency
        /\ sent' = [sent EXCEPT ![x] = @ \cup {t}]
        /\ copies' = [copies EXCEPT ![<<x, t>>] = @ + 1]
        /\ UNCHANGED <<phase, retries, prepare, answered, at, token, counted, dbVars, faultVars>>
  BY DEF Dispatch
<1>2. sent' \in [Executions -> SUBSET Tasks] /\ copies' \in [Executions \X Tasks -> Nat]
  BY <1>1
<1>3. sent'[x] \ answered'[x] = (sent[x] \ answered[x]) \cup {t} /\ t \notin sent[x] \ answered[x]
  BY <1>1
<1>4. IsFiniteSet(sent[x] \ answered[x])
  BY DEF Waited
<1>5. /\ IsFiniteSet(sent'[x] \ answered'[x])
      /\ Cardinality(sent'[x] \ answered'[x]) = Cardinality(sent[x] \ answered[x]) + 1
      /\ Cardinality(sent[x] \ answered[x]) \in Nat
  <2>. DEFINE W == sent[x] \ answered[x]
  <2>1. IsFiniteSet(W) /\ t \notin W /\ sent'[x] \ answered'[x] = W \cup {t}
    BY <1>3, <1>4
  <2>. HIDE DEF W
  <2>2. Cardinality(W) \in Nat
    BY <2>1, FS_CardinalityType
  <2>3. IsFiniteSet(W \cup {t}) /\ Cardinality(W \cup {t}) = Cardinality(W) + 1
    BY <2>1, FS_AddElement
  <2>. QED BY <2>1, <2>2, <2>3 DEF W
<1>6. \A y \in Executions \ {x} : sent'[y] = sent[y] /\ answered'[y] = answered[y]
  BY <1>1
<1>7. \A y \in Executions : /\ answered'[y] \subseteq sent'[y] /\ sent'[y] \subseteq Tasks
                            /\ Cardinality(sent'[y] \ answered'[y]) <= MaxConcurrency
  <2>1. Cardinality(sent'[x] \ answered'[x]) <= MaxConcurrency
    BY <1>1, <1>5
  <2>. QED BY <1>1, <1>2, <1>6, <2>1
<1>8. Waited'
  BY <1>5, <1>6 DEF Waited
<1>9. SentFirst'
  <2>1. \A y \in Executions : sent[y] \subseteq sent'[y]
    BY <1>1
  <2>2. t \in sent'[x]
    BY <1>1
  <2>3. \A m \in Executions \X Tasks : m # <<x, t>> => copies'[m] = copies[m]
    BY <1>1
  <2>4. \A m \in Executions \X Tasks : m[1] \in Executions
    OBVIOUS
  <2>. QED BY <1>1, <2>1, <2>2, <2>3, <2>4 DEF SentFirst, Task
<1>. QED BY <1>1, <1>2, <1>7, <1>8, <1>9 DEF dbVars, faultVars

(* A message that goes back to the queue or loses a copy is still for a    *)
(* task that was sent.                                                     *)
LEMMA MessageTyped ==
    ASSUME Typed, NEW m \in Executions \X Tasks, UNCHANGED <<sent, answered, at, token>>,
           \/ copies' = [copies EXCEPT ![m] = @ + 1]
           \/ copies' = [copies EXCEPT ![m] = @ - 1],
           copies[m] > 0
    PROVE  /\ copies' \in [Executions \X Tasks -> Nat]
           /\ SentFirst' /\ Waited'
<1>. USE DEF Typed, TypeOK
<1>1. copies[m] \in Nat /\ copies[m] - 1 \in Nat
  OBVIOUS
<1>2. copies' \in [Executions \X Tasks -> Nat]
  BY <1>1
<1>3. \A n \in Executions \X Tasks : copies'[n] > 0 => copies[n] > 0
  BY <1>1
<1>. QED BY <1>2, <1>3 DEF SentFirst, Waited, Task

(* A worker takes a message, and one that is done with it for now leaves   *)
(* it acknowledged or returned.                                            *)
LEMMA WorkerTyped ==
    ASSUME Typed, NEW w \in Workers, Work(w) \/ Interrupt(w)
    PROVE  Typed'
<1>. USE DEF Typed, TypeOK
<1>0. /\ token[w] \in Executions \X Tasks /\ token[w][1] \in Executions /\ Task(w) \in Tasks
      /\ token[w] = <<token[w][1], Task(w)>>
  BY DEF Task
<1>1. UNCHANGED <<phase, retries, prepare, sent, prepared>>
  BY DEF Work, Take, CountBatches, CommitTask, Publish, PublishFails, Answer,
         FailTerminally, RecordFailure, CapBreached, Interrupt, machineVars, dbVars
<1>2. spent' \subseteq Faults /\ left' \in 0..MaxFaults
  BY SpendType DEF faultVars, Work, Take, CountBatches, CommitTask, Publish, PublishFails, Answer,
         FailTerminally, CapBreached, Interrupt
<1>3. /\ claims' \subseteq Tasks /\ batches' \subseteq Tasks
      /\ stage' \in {"pending", "running", "completed", "failed"}
      /\ job' \in {"running", "failed"}
  BY <1>0 DEF Work, Take, CountBatches, CommitTask, Publish, PublishFails, Answer,
         FailTerminally, RecordFailure, CapBreached, Interrupt, dbVars
<1>4. counted' \in [Workers -> SUBSET Tasks]
  BY <1>0 DEF Work, Take, CountBatches, CommitTask, Publish, PublishFails, Answer,
         FailTerminally, RecordFailure, CapBreached, Interrupt
<1>5. at' \in [Workers -> {"idle", "tx", "counted", "publish", "answer", "skip"}]
  BY DEF Work, Take, CountBatches, CommitTask, Publish, PublishFails, Answer,
         FailTerminally, RecordFailure, CapBreached, Interrupt, Goto, Return
<1>6. /\ copies' \in [Executions \X Tasks -> Nat]
      /\ token' \in [Workers -> Executions \X Tasks]
      /\ SentFirst'
  <2>1. ASSUME NEW m \in Executions \X Tasks, Take(w, m)
        PROVE  /\ copies' \in [Executions \X Tasks -> Nat]
               /\ token' \in [Workers -> Executions \X Tasks]
               /\ SentFirst'
    <3>1. copies[m] \in Nat /\ copies[m] - 1 \in Nat /\ m[2] \in sent[m[1]]
      BY <2>1 DEF Take, SentFirst
    <3>2. copies' \in [Executions \X Tasks -> Nat] /\ token' \in [Workers -> Executions \X Tasks]
      BY <2>1, <3>1 DEF Take
    <3>3. \A n \in Executions \X Tasks : copies'[n] > 0 => copies[n] > 0
      BY <2>1, <3>1 DEF Take
    <3>4. token'[w] = m /\ \A v \in Workers \ {w} : token'[v] = token[v] /\ at'[v] = at[v]
      BY <2>1 DEF Take, Goto
    <3>. QED BY <1>1, <3>1, <3>2, <3>3, <3>4 DEF SentFirst, Task
  <2>2. ASSUME copies' = copies, token' = token, \A v \in Workers : at'[v] # "idle" => at[v] # "idle"
        PROVE  /\ copies' \in [Executions \X Tasks -> Nat]
               /\ token' \in [Workers -> Executions \X Tasks]
               /\ SentFirst'
    BY <1>1, <2>2 DEF SentFirst, Task
  <2>3. ASSUME Return(w), token' = token, at[w] # "idle"
        PROVE  /\ copies' \in [Executions \X Tasks -> Nat]
               /\ token' \in [Workers -> Executions \X Tasks]
               /\ SentFirst'
    <3>1. copies' \in [Executions \X Tasks -> Nat]
      BY <1>0, <2>3 DEF Return
    <3>2. \A n \in Executions \X Tasks : n # token[w] => copies'[n] = copies[n]
      BY <1>0, <2>3 DEF Return
    <3>3. \A v \in Workers : at'[v] # "idle" => at[v] # "idle"
      BY <2>3 DEF Return, Goto
    <3>4. Task(w) \in sent[token[w][1]]
      BY <2>3 DEF SentFirst
    <3>. QED BY <1>1, <2>3, <3>1, <3>2, <3>3, <3>4 DEF SentFirst, Task
  <2>4. CASE CountBatches(w) \/ CommitTask(w) \/ Publish(w) \/ Answer(w)
             \/ FailTerminally(w) \/ CapBreached(w)
    BY <2>2, <2>4 DEF CountBatches, CommitTask, Publish, Answer, FailTerminally,
                      RecordFailure, CapBreached, Goto
  <2>5. CASE PublishFails(w) \/ Interrupt(w)
    BY <2>3, <2>5 DEF PublishFails, Interrupt
  <2>. QED BY <2>1, <2>4, <2>5 DEF Work
<1>7. /\ answered' \in [Executions -> SUBSET Tasks] /\ Waited'
      /\ \A x \in Executions : /\ answered'[x] \subseteq sent'[x]
                               /\ Cardinality(sent'[x] \ answered'[x]) <= MaxConcurrency
  <2>1. CASE Answer(w)
    <3>1. answered' = [answered EXCEPT ![token[w][1]] = @ \cup {Task(w)}]
          /\ Task(w) \in sent[token[w][1]]
      BY <2>1 DEF Answer, SentFirst
    <3>2. \A x \in Executions : /\ answered[x] \subseteq answered'[x] /\ answered'[x] \subseteq sent[x]
      BY <1>0, <3>1
    <3>3. ASSUME NEW x \in Executions
          PROVE  /\ IsFiniteSet(sent[x] \ answered'[x])
                 /\ Cardinality(sent[x] \ answered'[x]) <= MaxConcurrency
      <4>. DEFINE S == sent[x] \ answered[x]
                  T == sent[x] \ answered'[x]
      <4>1. IsFiniteSet(S) /\ T \in SUBSET S /\ Cardinality(S) <= MaxConcurrency
        BY <3>2 DEF Waited
      <4>. HIDE DEF S, T
      <4>2. IsFiniteSet(T) /\ Cardinality(T) <= Cardinality(S)
        BY <4>1, FS_Subset
      <4>3. Cardinality(S) \in Nat /\ Cardinality(T) \in Nat
        BY <4>1, <4>2, FS_CardinalityType
      <4>4. Cardinality(T) <= MaxConcurrency
        BY <4>1, <4>2, <4>3, FanoutAssumption
      <4>. QED BY <4>2, <4>4 DEF T
    <3>. QED BY <1>0, <1>1, <3>1, <3>2, <3>3 DEF Waited
  <2>2. CASE ~Answer(w)
    <3>1. answered' = answered
      BY <2>2 DEF Work, Take, CountBatches, CommitTask, Publish, PublishFails, FailTerminally,
                  RecordFailure, CapBreached, Interrupt, machineVars
    <3>. QED BY <1>1, <3>1 DEF Waited
  <2>. QED BY <2>1, <2>2
<1>. QED BY <1>1, <1>2, <1>3, <1>4, <1>5, <1>6, <1>7

(* Every step of the executions, the workers and the queue.                *)
LEMMA StepTyped == Typed /\ [Next]_vars => Typed'
<1>. SUFFICES ASSUME Typed, [Next]_vars PROVE Typed'
  OBVIOUS
<1>1. ASSUME NEW x \in Executions, Orchestrate(x) \/ Start(x) \/ PrepareDies(x) PROVE Typed'
  BY <1>1, OrchestrateTyped, DispatchTyped DEF Orchestrate
<1>2. ASSUME NEW w \in Workers, Work(w) \/ Interrupt(w) PROVE Typed'
  BY <1>2, WorkerTyped
<1>3. ASSUME NEW m \in Executions \X Tasks, Redrive(m) \/ Duplicate(m) PROVE Typed'
  <2>1. /\ copies' \in [Executions \X Tasks -> Nat] /\ SentFirst' /\ Waited'
    BY <1>3, MessageTyped DEF Redrive, Duplicate, machineVars
  <2>2. spent' \subseteq Faults /\ left' \in 0..MaxFaults
    BY <1>3, SpendType DEF Redrive, Duplicate
  <2>. QED BY <1>3, <2>1, <2>2 DEF Redrive, Duplicate, machineVars, dbVars, Typed, TypeOK
<1>4. CASE UNCHANGED vars
  BY <1>4 DEF vars, machineVars, workVars, dbVars, faultVars, Typed, TypeOK, SentFirst, Waited, Task
<1>. QED BY <1>1, <1>2, <1>3, <1>4 DEF Next

(* The Map state never waits for more tokens than its concurrency allows,  *)
(* and an answer is for a task it has sent.                                *)
THEOREM TypeCorrect == Spec => []TypeOK
<1>1. Typed => TypeOK
  BY DEF Typed
<1>. QED BY <1>1, InitTyped, StepTyped, PTL DEF Spec

-----------------------------------------------------------------------------
(* Work that is answered for was done, or the job has failed: of a task    *)
(* that was claimed, a worker that passes its event over, and a token.     *)
Done(t) == t \in batches \/ job = "failed"

AnswersInv ==
    /\ \A t \in claims : Done(t)
    /\ \A w \in Workers : at[w] \in {"publish", "answer"} => Task(w) \in batches
    /\ \A w \in Workers : at[w] = "skip" => Done(Task(w))
    /\ \A x \in Executions : \A t \in answered[x] : Done(t)

(* What a worker counted is committed, but for its own batch.              *)
CountInv ==
    \A w \in Workers : at[w] = "counted" => counted[w] \subseteq batches \cup {Task(w)}

AnnouncedInv == Typed /\ AnswersInv /\ CountInv /\ AnnouncedSound

(* Nothing was claimed, counted or answered.                               *)
LEMMA InitAnnounced == Init => AnnouncedInv
<1>. SUFFICES ASSUME Init PROVE AnnouncedInv
  OBVIOUS
<1>1. AnswersInv /\ CountInv
  BY DEF Init, AnswersInv, CountInv
<1>2. AnnouncedSound
  BY DEF Init, AnnouncedSound
<1>. QED BY <1>1, <1>2, InitTyped DEF AnnouncedInv

(* What is done stays done: batches are only added, and a failed job stays *)
(* failed.                                                                 *)
LEMMA DoneStays ==
    ASSUME Typed, [Next]_vars
    PROVE  batches \subseteq batches' /\ (job = "failed" => job' = "failed")
<1>1. ASSUME NEW x \in Executions, Orchestrate(x) \/ Start(x) \/ PrepareDies(x)
      PROVE  UNCHANGED <<batches, job>>
  BY <1>1 DEF Orchestrate, Start, PrepareDies, PrepareBegin, PrepareCommit, PrepareAnswer,
              PrepareFails, Dispatch, Announce, DispatchFails, AnnounceFails, dbVars
<1>2. ASSUME NEW w \in Workers, Work(w) \/ Interrupt(w)
      PROVE  batches \subseteq batches' /\ (job = "failed" => job' = "failed")
  BY <1>2 DEF Work, Take, CountBatches, CommitTask, Publish, PublishFails, Answer,
         FailTerminally, RecordFailure, CapBreached, Interrupt, dbVars
<1>3. ASSUME NEW m \in Executions \X Tasks, Redrive(m) \/ Duplicate(m)
      PROVE  batches' = batches /\ (job = "failed" => job' = "failed")
  BY <1>3 DEF Redrive, Duplicate, dbVars
<1>. QED BY <1>1, <1>2, <1>3 DEF Next, vars, dbVars

(* An execution announces when every token is answered.                    *)
LEMMA OrchestrateAnnounced ==
    ASSUME AnnouncedInv, Typed', NEW x \in Executions,
           Orchestrate(x) \/ Start(x) \/ PrepareDies(x)
    PROVE  AnnouncedInv'
<1>. USE DEF AnnouncedInv
<1>1. UNCHANGED <<answered, at, token, counted, claims, batches, job>>
  BY DEF Orchestrate, Start, PrepareDies, PrepareBegin, PrepareCommit, PrepareAnswer,
         PrepareFails, Dispatch, Announce, DispatchFails, AnnounceFails, workVars, dbVars
<1>2. AnswersInv' /\ CountInv'
  BY <1>1 DEF AnswersInv, CountInv, Done, Task
<1>3. stage' = "completed" => stage = "completed"
  BY DEF Orchestrate, Start, PrepareDies, PrepareBegin, PrepareCommit, PrepareAnswer,
         PrepareFails, Dispatch, Announce, DispatchFails, AnnounceFails, dbVars
<1>4. ASSUME NEW y \in Executions, phase'[y] = "announced"
      PROVE  batches' = Tasks \/ job' = "failed"
  <2>1. CASE phase[y] = "announced"
    BY <1>1, <2>1 DEF AnnouncedSound
  <2>2. CASE phase[y] # "announced"
    <3>1. Announce(x) /\ y = x
      <4>1. ASSUME ~Announce(x) PROVE phase'[y] # "announced" \/ phase'[y] = phase[y]
        <5>1. phase \in [Executions -> {"unstarted", "preparing", "mapping"} \cup Ended]
          BY DEF Typed, TypeOK
        <5>2. CASE PrepareBegin(x)
          BY <5>1, <5>2 DEF PrepareBegin
        <5>3. CASE PrepareCommit(x) \/ PrepareDies(x) \/ Dispatch(x)
          BY <5>3 DEF PrepareCommit, PrepareDies, Dispatch
        <5>4. CASE PrepareAnswer(x) \/ Start(x)
          BY <5>1, <5>4 DEF PrepareAnswer, Start
        <5>5. CASE PrepareFails(x)
          BY <5>1, <5>5 DEF PrepareFails
        <5>6. CASE DispatchFails(x) \/ AnnounceFails(x)
          BY <5>1, <5>6 DEF DispatchFails, AnnounceFails
        <5>. QED BY <4>1, <5>2, <5>3, <5>4, <5>5, <5>6 DEF Orchestrate
      <4>2. ASSUME Announce(x), y # x PROVE phase'[y] = phase[y]
        BY <4>2 DEF Announce, Typed, TypeOK
      <4>. QED BY <1>4, <2>2, <4>1, <4>2
    <3>2. answered[x] = Tasks
      BY <3>1 DEF Announce
    <3>3. Tasks \subseteq batches \/ job = "failed"
      BY <3>2 DEF AnswersInv, Done
    <3>. QED BY <1>1, <3>3 DEF Typed, TypeOK
  <2>. QED BY <2>1, <2>2
<1>5. AnnouncedSound'
  BY <1>1, <1>3, <1>4 DEF AnnouncedSound
<1>. QED BY <1>2, <1>5

(* A worker's step keeps the books of what was answered.                   *)
LEMMA WorkerAnswers ==
    ASSUME AnnouncedInv, Typed', NEW w \in Workers, Work(w) \/ Interrupt(w),
           batches \subseteq batches', job = "failed" => job' = "failed"
    PROVE  AnswersInv'
<1>. USE DEF AnnouncedInv
<1>0. /\ token[w][1] \in Executions
      /\ \A t : Done(t) => Done(t)'
  BY DEF Done, Typed, TypeOK
<1>1. ASSUME NEW v \in Workers \ {w}
      PROVE  at'[v] = at[v] /\ Task(v)' = Task(v)
  BY DEF Work, Take, CountBatches, CommitTask, Publish, PublishFails, Answer, FailTerminally,
         RecordFailure, CapBreached, Interrupt, Goto, Return, Task, Typed, TypeOK
<1>2. \A t \in claims' : Done(t)'
  BY <1>0 DEF AnswersInv, Done, Work, Take, CountBatches, CommitTask, Publish, PublishFails,
         Answer, FailTerminally, RecordFailure, CapBreached, Interrupt, dbVars
<1>3. /\ at'[w] \in {"publish", "answer"} => Task(w)' \in batches'
      /\ at'[w] = "skip" => Done(Task(w))'
  <2>1. ASSUME NEW m \in Executions \X Tasks, Take(w, m)
        PROVE  /\ at'[w] \in {"tx", "skip"}
               /\ at'[w] = "skip" => Done(Task(w))'
    <3>1. Task(w)' = m[2] /\ at'[w] = (IF m[2] \in claims THEN "skip" ELSE "tx")
      BY <2>1 DEF Take, Goto, Task, Typed, TypeOK
    <3>2. at'[w] = "skip" => m[2] \in claims
      BY <3>1
    <3>3. at'[w] = "skip" => m[2] \in batches \/ job = "failed"
      BY <3>2 DEF AnswersInv, Done
    <3>. QED BY <3>1, <3>3 DEF Done
  <2>2. CASE CommitTask(w) \/ Publish(w)
    BY <2>2 DEF AnswersInv, CommitTask, Publish, Goto, Task, Typed, TypeOK, dbVars
  <2>3. CASE CapBreached(w)
    BY <2>3 DEF CapBreached, Goto, Done, Typed, TypeOK
  <2>4. CASE CountBatches(w) \/ PublishFails(w) \/ Answer(w) \/ FailTerminally(w) \/ Interrupt(w)
    BY <2>4 DEF CountBatches, PublishFails, Answer, FailTerminally, RecordFailure, Interrupt,
                Goto, Return, Typed, TypeOK
  <2>. QED BY <2>1, <2>2, <2>3, <2>4 DEF Work
<1>4. ASSUME NEW x \in Executions, NEW t \in answered'[x] PROVE Done(t)'
  <2>1. CASE t \in answered[x]
    BY <1>0, <2>1 DEF AnswersInv
  <2>2. CASE t \notin answered[x]
    <3>1. Answer(w) /\ x = token[w][1] /\ t = Task(w)
      BY <1>0, <1>4, <2>2 DEF Work, Take, CountBatches, CommitTask, Publish, PublishFails,
         Answer, FailTerminally, RecordFailure, CapBreached, Interrupt, machineVars, Typed, TypeOK
    <3>. QED BY <1>0, <3>1 DEF Answer, AnswersInv, Done
  <2>. QED BY <2>1, <2>2
<1>5. \A v \in Workers : /\ at'[v] \in {"publish", "answer"} => Task(v)' \in batches'
                         /\ at'[v] = "skip" => Done(Task(v))'
  BY <1>1, <1>3 DEF AnswersInv, Done
<1>. QED BY <1>2, <1>4, <1>5 DEF AnswersInv

(* And of what was counted and announced.                                  *)
LEMMA WorkerAnnounced ==
    ASSUME AnnouncedInv, Typed', NEW w \in Workers, Work(w) \/ Interrupt(w),
           batches \subseteq batches', job = "failed" => job' = "failed"
    PROVE  AnnouncedInv'
<1>. USE DEF AnnouncedInv
<1>1. ASSUME NEW v \in Workers \ {w}
      PROVE  at'[v] = at[v] /\ Task(v)' = Task(v) /\ counted'[v] = counted[v]
  BY DEF Work, Take, CountBatches, CommitTask, Publish, PublishFails, Answer, FailTerminally,
         RecordFailure, CapBreached, Interrupt, Goto, Return, Task, Typed, TypeOK
<1>2. at'[w] = "counted" => counted'[w] \subseteq batches' \cup {Task(w)'}
  BY DEF Work, Take, CountBatches, CommitTask, Publish, PublishFails, Answer, FailTerminally,
         RecordFailure, CapBreached, Interrupt, Goto, Return, Task, Typed, TypeOK, dbVars
<1>3. CountInv'
  BY <1>1, <1>2 DEF CountInv
<1>4. stage' = "completed" => batches' = Tasks
  <2>1. CASE CommitTask(w) /\ counted[w] = Tasks
    <3>1. Tasks \subseteq batches \cup {Task(w)}
      BY <2>1 DEF CommitTask, CountInv
    <3>. QED BY <2>1, <3>1 DEF CommitTask, Typed, TypeOK
  <2>2. CASE ~(CommitTask(w) /\ counted[w] = Tasks)
    <3>1. stage' = "completed" => stage = "completed"
      BY <2>2 DEF Work, Take, CountBatches, CommitTask, Publish, PublishFails, Answer,
         FailTerminally, RecordFailure, CapBreached, Interrupt, dbVars
    <3>. QED BY <3>1 DEF AnnouncedSound, Typed, TypeOK
  <2>. QED BY <2>1, <2>2
<1>5. phase' = phase
  BY DEF Work, Take, CountBatches, CommitTask, Publish, PublishFails, Answer,
         FailTerminally, RecordFailure, CapBreached, Interrupt, machineVars
<1>6. AnnouncedSound'
  BY <1>4, <1>5 DEF AnnouncedSound, Typed, TypeOK
<1>. QED BY <1>3, <1>6, WorkerAnswers

(* All steps together.                                                     *)
LEMMA StepAnnounced == AnnouncedInv /\ [Next]_vars => AnnouncedInv'
<1>. SUFFICES ASSUME AnnouncedInv, [Next]_vars PROVE AnnouncedInv'
  OBVIOUS
<1>0. Typed' /\ batches \subseteq batches' /\ (job = "failed" => job' = "failed")
  BY StepTyped, DoneStays DEF AnnouncedInv
<1>1. ASSUME NEW x \in Executions, Orchestrate(x) \/ Start(x) \/ PrepareDies(x)
      PROVE  AnnouncedInv'
  BY <1>0, <1>1, OrchestrateAnnounced
<1>2. ASSUME NEW w \in Workers, Work(w) \/ Interrupt(w) PROVE AnnouncedInv'
  BY <1>0, <1>2, WorkerAnnounced
<1>3. ASSUME NEW m \in Executions \X Tasks, Redrive(m) \/ Duplicate(m) PROVE AnnouncedInv'
  <2>1. /\ UNCHANGED <<phase, answered, at, token, counted, claims, batches>>
        /\ stage' = "completed" => stage = "completed"
    BY <1>3 DEF Redrive, Duplicate, machineVars, dbVars
  <2>2. AnswersInv'
    BY <1>0, <2>1 DEF AnnouncedInv, AnswersInv, Done, Task
  <2>3. CountInv' /\ AnnouncedSound'
    BY <1>0, <2>1 DEF AnnouncedInv, CountInv, AnnouncedSound, Task
  <2>. QED BY <1>0, <2>2, <2>3 DEF AnnouncedInv
<1>4. CASE UNCHANGED vars
  <2>. USE <1>4 DEF vars, machineVars, workVars, dbVars, AnnouncedInv
  <2>1. AnswersInv' /\ CountInv'
    BY DEF AnswersInv, CountInv, Done, Task
  <2>. QED BY <1>0, <2>1 DEF AnnouncedSound
<1>. QED BY <1>1, <1>2, <1>3, <1>4 DEF Next

(* The stage is completed with the batches of all tasks, and announced     *)
(* with them or for a failed job, whatever was skipped, retried or redriven*)
(* in between.                                                             *)
THEOREM AnnouncedIsSound == Spec => []AnnouncedSound
<1>1. AnnouncedInv => AnnouncedSound
  BY DEF AnnouncedInv
<1>. QED BY <1>1, InitAnnounced, StepAnnounced, PTL DEF Spec
=============================================================================
