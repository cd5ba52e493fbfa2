----------------------- MODULE AnnotationStageProofs -----------------------
(***************************************************************************)
(* What AnnotationStage guarantees for every number of tasks and workers   *)
(* and every budget of faults: the fan-in may be missed, but it never      *)
(* fires early.                                                            *)
(***************************************************************************)
EXTENDS AnnotationStage, FiniteSetTheorems, TLAPS

(* The fan-out is inside its list of tasks; a task handler has a task.     *)
Working ==
    \A w \in Workers :
        /\ pc[w] \in {"plan", "wrap", "dispatch"} => current[w] = Plan
        /\ pc[w] \in {"wrap", "dispatch"} => next[w] \in Tasks
        /\ pc[w] \in {"label", "counted", "announce", "announceAll"} => current[w] \in Tasks

(* A handler that counted every batch is the only one whose own batch can  *)
(* still be uncommitted; once it has committed, none is missing.           *)
Counted ==
    \A w \in Workers :
        /\ pc[w] = "counted" /\ last[w] => batches \cup {current[w]} = Tasks
        /\ pc[w] = "announce" /\ last[w] => batches = Tasks
        /\ pc[w] = "announceAll" => batches = Tasks

(* Counting as many batches as there are tasks means having them all.      *)
LEMMA CountingAll ==
    ASSUME NEW S, S \subseteq Tasks, Cardinality(S) >= TaskCount
    PROVE  S = Tasks
<1>1. IsFiniteSet(Tasks) /\ Cardinality(Tasks) = TaskCount
  BY TaskCountAssumption, FS_Interval DEF Tasks
<1>2. IsFiniteSet(S) /\ Cardinality(S) <= Cardinality(Tasks)
  BY <1>1, FS_Subset
<1>3. Cardinality(S) \in Nat
  BY <1>2, FS_CardinalityType
<1>4. Cardinality(S) = Cardinality(Tasks)
  BY <1>1, <1>2, <1>3, TaskCountAssumption
<1>. QED BY <1>1, <1>4, FS_Subset

(* A message goes back, or is sent on.                                     *)
LEMMA SendType ==
    ASSUME queue \in [Items -> Nat], NEW i, Send(i)
    PROVE  queue' \in [Items -> Nat]
<1>1. \A j \in Items : (IF j = i THEN queue[j] + 1 ELSE queue[j]) \in Nat
  OBVIOUS
<1>2. queue' = [j \in Items |-> IF j = i THEN queue[j] + 1 ELSE queue[j]]
  BY DEF Send
<1>. QED BY <1>1, <1>2

(* Spending a fault keeps the counters of faults numbers.                  *)
LEMMA SpendType ==
    ASSUME faults \in [FaultKinds -> Nat], NEW kind, Spend(kind)
    PROVE  faults' \in [FaultKinds -> Nat]
<1>. SUFFICES ASSUME kind \in FaultKinds PROVE faults' \in [FaultKinds -> Nat]
  BY DEF Spend
<1>1. faults[kind] - 1 \in Nat
  BY DEF Spend
<1>. QED BY <1>1 DEF Spend

(* TypeOK, with Working for the tasks' bounds, holds in every state.       *)
THEOREM TypeCorrect == Spec => [](TypeOK /\ Working)
<1>. USE TaskCountAssumption, ItemsAssumption, BudgetAssumption DEF Tasks
<1>1. Init => TypeOK /\ Working
  <2>. SUFFICES ASSUME Init PROVE TypeOK /\ Working
    OBVIOUS
  <2>1. /\ queue \in [Items -> Nat]
        /\ current \in [Workers -> Items \cup {NoItem}]
        /\ pc \in [Workers -> Locations]
        /\ next \in [Workers -> 1..(TaskCount + 1)]
    BY DEF Init, Locations
  <2>2. /\ last \in [Workers -> BOOLEAN]
        /\ loaded \in [Workers -> Statuses]
        /\ stage \in Statuses
        /\ faults \in [FaultKinds -> Nat]
    BY DEF Init, Statuses
  <2>. QED BY <2>1, <2>2 DEF Init, TypeOK, Working
<1>2. TypeOK /\ Working /\ [Next]_vars => (TypeOK /\ Working)'
  <2>. SUFFICES ASSUME TypeOK, Working, [Next]_vars PROVE TypeOK' /\ Working'
    OBVIOUS
  <2>. USE DEF TypeOK, Working, Goto, dbVars, workerVars
  <2>1. ASSUME NEW w \in Workers, Return(w) PROVE
          /\ queue' \in [Items -> Nat]
          /\ current' \in [Workers -> Items \cup {NoItem}]
          /\ pc' \in [Workers -> Locations]
          /\ UNCHANGED <<next, last, loaded>>
          /\ Working'
    BY <2>1, SendType DEF Return, Locations
  <2>2. ASSUME NEW w \in Workers, Handle(w) PROVE TypeOK' /\ Working'
    <3>. USE DEF Locations, InTx
    <3>1. ASSUME NEW i \in Items, Take(w, i) PROVE TypeOK' /\ Working'
      <4>1. /\ queue' \in [Items -> Nat]
            /\ current' \in [Workers -> Items \cup {NoItem}]
            /\ UNCHANGED <<next, last, claims, batches, stage, job, allCompleted, faults>>
        BY <3>1 DEF Take
      <4>2. /\ pc' \in [Workers -> Locations]
            /\ loaded' \in [Workers -> Statuses]
        BY <3>1 DEF Take
      <4>3. Working'
        BY <3>1 DEF Take, Items
      <4>. QED BY <4>1, <4>2, <4>3
    <3>2. CASE PrepareFanout(w)
      <4>1. stage' \in Statuses
        BY <3>2 DEF PrepareFanout, Assign, Statuses
      <4>2. claims' \subseteq Items
        BY <3>2 DEF PrepareFanout, Items
      <4>3. next' \in [Workers -> 1..(TaskCount + 1)]
        BY <3>2 DEF PrepareFanout
      <4>. QED BY <3>2, <4>1, <4>2, <4>3 DEF PrepareFanout
    <3>3. CASE WrapClaimed(w)
      BY <3>3 DEF WrapClaimed
    <3>4. CASE WrapFails(w)
      BY <3>4, <2>1, SpendType DEF WrapFails
    <3>5. CASE Dispatch(w)
      <4>1. queue' \in [Items -> Nat]
        BY <3>5, SendType DEF Dispatch
      <4>2. next' \in [Workers -> 1..(TaskCount + 1)]
        BY <3>5 DEF Dispatch
      <4>. QED BY <3>5, <4>1, <4>2 DEF Dispatch
    <3>6. CASE DispatchFails(w)
      <4>1. queue' \in [Items -> Nat]
        BY <3>6, SendType DEF DispatchFails
      <4>. QED BY <3>6, <4>1, SpendType DEF DispatchFails
    <3>7. CASE LabelAndCount(w)
      BY <3>7 DEF LabelAndCount
    <3>8. CASE CommitTask(w)
      <4>1. current[w] \in Tasks
        BY <3>8 DEF CommitTask
      <4>2. claims' \subseteq Items /\ batches' \subseteq Tasks
        BY <3>8, <4>1 DEF CommitTask, WithOwnBatch, Items
      <4>3. stage' \in Statuses
        BY <3>8 DEF CommitTask, Assign, Statuses
      <4>. QED BY <3>8, <4>2, <4>3 DEF CommitTask
    <3>9. CASE AnnounceTask(w) \/ AnnounceAll(w)
      BY <3>9 DEF AnnounceTask, AnnounceAll
    <3>10. CASE AnnounceFails(w)
      BY <3>10, SpendType DEF AnnounceFails
    <3>11. CASE ReleaseClaim(w)
      BY <3>11, <2>1 DEF ReleaseClaim
    <3>12. CASE Ack(w)
      BY <3>12 DEF Ack
    <3>13. CASE FailTransiently(w)
      BY <3>13, <2>1, SpendType DEF FailTransiently
    <3>14. CASE FailTerminally(w)
      <4>1. current[w] \in Items
        BY <3>14, ItemsAssumption DEF FailTerminally, Items
      <4>2. stage' \in Statuses /\ job' \in {"running", "failed"} /\ claims' \subseteq Items
        BY <3>14, <4>1 DEF FailTerminally, Statuses
      <4>. QED BY <3>14, <4>2 DEF FailTerminally
    <3>. QED BY <2>2, <3>1, <3>2, <3>3, <3>4, <3>5, <3>6, <3>7, <3>8, <3>9, <3>10,
                <3>11, <3>12, <3>13, <3>14 DEF Handle
  <2>3. ASSUME NEW w \in Workers, Crash(w) PROVE TypeOK' /\ Working'
    BY <2>3, <2>1, SpendType DEF Crash
  <2>4. ASSUME NEW i \in Items, Duplicate(i) PROVE TypeOK' /\ Working'
    BY <2>4, SendType, SpendType DEF Duplicate
  <2>5. CASE Terminated \/ UNCHANGED vars
    BY <2>5 DEF Terminated, vars
  <2>. QED BY <2>2, <2>3, <2>4, <2>5 DEF Next
<1>. QED BY <1>1, <1>2, PTL DEF Spec

(* A worker that stops handling, or moves on to a place that promises      *)
(* nothing, disturbs nobody.                                               *)
LEMMA IdleStep ==
    ASSUME TypeOK, Counted, AllCompletedSound, NEW w \in Workers,
           NEW l \in Locations \ {"counted", "announce", "announceAll"}, Goto(w, l),
           \A v \in Workers : v # w => current'[v] = current[v],
           UNCHANGED <<last, batches>>,
           stage' = "completed" => stage = "completed" \/ batches = Tasks,
           allCompleted' => allCompleted \/ batches = Tasks
    PROVE  (Counted /\ AllCompletedSound)'
<1>1. \A v \in Workers : v # w => pc'[v] = pc[v]
  BY DEF TypeOK, Goto
<1>2. pc'[w] = l
  BY DEF TypeOK, Goto
<1>3. Counted'
  BY <1>1, <1>2 DEF Counted
<1>4. AllCompletedSound'
  BY DEF AllCompletedSound
<1>. QED BY <1>3, <1>4

(* AllCompletedSound for every number of tasks and workers, whatever is    *)
(* redelivered, fails or crashes: export never starts on a partial set.    *)
THEOREM FanInSound == Spec => []AllCompletedSound
<1>1. Init => Counted /\ AllCompletedSound
  BY DEF Init, Counted, AllCompletedSound
<1>2. TypeOK /\ Working /\ Counted /\ AllCompletedSound /\ [Next]_vars
        => (Counted /\ AllCompletedSound)'
  <2>. SUFFICES ASSUME TypeOK, Working, Counted, AllCompletedSound, [Next]_vars
                PROVE  (Counted /\ AllCompletedSound)'
    OBVIOUS
  <2>. USE DEF dbVars, workerVars
  <2>1. ASSUME UNCHANGED <<pc, current, last, batches, stage, allCompleted>>
        PROVE  (Counted /\ AllCompletedSound)'
    BY <2>1 DEF Counted, AllCompletedSound
  <2>2. ASSUME NEW w \in Workers, Return(w), UNCHANGED <<batches, stage, allCompleted>>
        PROVE  (Counted /\ AllCompletedSound)'
    BY <2>2, IdleStep DEF Return, Locations, TypeOK
  <2>3. ASSUME NEW w \in Workers, Handle(w) PROVE (Counted /\ AllCompletedSound)'
    <3>. USE DEF Locations, InTx
    <3>1. ASSUME NEW i \in Items, Take(w, i) PROVE (Counted /\ AllCompletedSound)'
      <4>1. PICK l \in {"ack", "plan", "label"} : Goto(w, l)
        BY <3>1 DEF Take
      <4>. QED BY <3>1, <4>1, IdleStep DEF Take, TypeOK
    <3>2. CASE PrepareFanout(w)
      BY <3>2, IdleStep DEF PrepareFanout, Assign
    <3>3. CASE WrapClaimed(w)
      BY <3>3, IdleStep DEF WrapClaimed
    <3>4. CASE Dispatch(w)
      <4>1. PICK l \in {"ack", "dispatch"} : Goto(w, l)
        BY <3>4 DEF Dispatch
      <4>. QED BY <3>4, <4>1, IdleStep DEF Dispatch
    <3>5. CASE DispatchFails(w)
      BY <3>5, IdleStep DEF DispatchFails
    <3>6. CASE LabelAndCount(w)
      <4>1. current[w] \in Tasks /\ batches \subseteq Tasks
        BY <3>6 DEF LabelAndCount, Working, TypeOK
      <4>2. last'[w] => batches \cup {current[w]} = Tasks
        <5>1. last'[w] = (Cardinality(batches \cup {current[w]}) >= TaskCount)
          BY <3>6 DEF LabelAndCount, WithOwnBatch, TypeOK
        <5>2. batches \cup {current[w]} \subseteq Tasks
          BY <4>1
        <5>. QED BY <5>1, <5>2, CountingAll
      <4>3. /\ pc'[w] = "counted"
            /\ \A v \in Workers : v # w => pc'[v] = pc[v] /\ last'[v] = last[v]
            /\ UNCHANGED <<current, batches, stage, allCompleted>>
        BY <3>6 DEF LabelAndCount, Goto, TypeOK
      <4>. QED BY <4>2, <4>3 DEF Counted, AllCompletedSound
    <3>7. CASE CommitTask(w)
      <4>1. current[w] \in Tasks /\ batches \subseteq Tasks
        BY <3>7 DEF CommitTask, Working, TypeOK
      <4>2. last[w] => batches' = Tasks
        BY <3>7 DEF CommitTask, WithOwnBatch, Counted
      <4>3. batches = Tasks => batches' = Tasks
        BY <3>7, <4>1 DEF CommitTask, WithOwnBatch
      <4>4. \A v \in Workers : batches \cup {current[v]} = Tasks
                              => batches' \cup {current[v]} = Tasks
        BY <3>7, <4>1 DEF CommitTask, WithOwnBatch
      <4>5. /\ pc'[w] = "announce"
            /\ \A v \in Workers : v # w => pc'[v] = pc[v]
            /\ UNCHANGED <<current, last, allCompleted>>
        BY <3>7 DEF CommitTask, Goto, TypeOK
      <4>6. Counted'
        BY <4>2, <4>3, <4>4, <4>5 DEF Counted
      <4>7. AllCompletedSound'
        BY <3>7, <4>2, <4>3, <4>5 DEF CommitTask, Assign, AllCompletedSound
      <4>. QED BY <4>6, <4>7
    <3>8. CASE AnnounceTask(w)
      BY <3>8 DEF AnnounceTask, Goto, TypeOK, Counted, AllCompletedSound
    <3>9. CASE AnnounceAll(w)
      BY <3>9, IdleStep DEF AnnounceAll, Counted
    <3>10. CASE AnnounceFails(w)
      BY <3>10, IdleStep DEF AnnounceFails, Counted
    <3>11. CASE Ack(w)
      BY <3>11, IdleStep DEF Ack, TypeOK
    <3>12. CASE FailTerminally(w)
      BY <3>12, IdleStep DEF FailTerminally
    <3>13. CASE WrapFails(w) \/ ReleaseClaim(w) \/ FailTransiently(w)
      BY <3>13, <2>2 DEF WrapFails, ReleaseClaim, FailTransiently
    <3>. QED BY <2>3, <3>1, <3>2, <3>3, <3>4, <3>5, <3>6, <3>7, <3>8, <3>9, <3>10,
                <3>11, <3>12, <3>13 DEF Handle
  <2>4. ASSUME NEW w \in Workers, Crash(w) PROVE (Counted /\ AllCompletedSound)'
    BY <2>4, <2>2 DEF Crash
  <2>5. ASSUME NEW i \in Items, Duplicate(i) PROVE (Counted /\ AllCompletedSound)'
    BY <2>5, <2>1 DEF Duplicate
  <2>6. CASE Terminated \/ UNCHANGED vars
    BY <2>6, <2>1 DEF Terminated, vars
  <2>. QED BY <2>3, <2>4, <2>5, <2>6 DEF Next
<1>. QED BY <1>1, <1>2, TypeCorrect, PTL DEF Spec

-----------------------------------------------------------------------------
(* Why no task is forgotten.                                               *)

FaultsBounded == \A kind \in FaultKinds : faults[kind] <= Budget[kind]

(* The claim as a lock: one open transaction for an event, and none while  *)
(* its claim is committed.                                                 *)
LockInv ==
    /\ \A v, w \in Workers :
          pc[v] \in InTx /\ pc[w] \in InTx /\ current[v] = current[w] => v = w
    /\ \A w \in Workers : pc[w] \in InTx => current[w] \notin claims

(* What a worker is doing will lead to the batch of task t: it labels t,   *)
(* or it runs the fan-out and has not come as far as t, or is about to     *)
(* give the fan-out's claim back.                                          *)
Carries(w, t) ==
    \/ pc[w] \in {"label", "counted"} /\ current[w] = t
    \/ pc[w] \in {"plan", "wrap", "release"} /\ current[w] = Plan
    \/ pc[w] = "dispatch" /\ next[w] <= t

(* A task is stored or under way: its batch or its event is there, or a    *)
(* fan-out that can still be claimed, or a worker in between.              *)
UnderWay(t) ==
    \/ t \in batches
    \/ queue[t] > 0
    \/ queue[Plan] > 0 /\ Plan \notin claims
    \/ \E w \in Workers : Carries(w, t)

TasksInv ==
    /\ \A w \in Workers : pc[w] # "idle" => current[w] \in Items
    /\ \A w \in Workers : pc[w] = "wrap" => next[w] = 1
    /\ job # "failed" => claims \cap Tasks \subseteq batches
    /\ Undisturbed /\ job # "failed" => \A t \in Tasks : UnderWay(t)

(* A lost reload or a crash is a disturbance.                              *)
LEMMA LossySpend ==
    ASSUME TypeOK, FaultsBounded, NEW kind \in {"crash", "reload"}, Spend(kind)
    PROVE  FaultsBounded' /\ ~Undisturbed'
<1>1. /\ faults'[kind] = faults[kind] - 1
      /\ \A k \in FaultKinds : k # kind => faults'[k] = faults[k]
  BY DEF Spend, TypeOK, FaultKinds
<1>2. \A k \in FaultKinds : faults[k] \in Nat /\ Budget[k] \in Nat
  BY BudgetAssumption DEF TypeOK
<1>3. FaultsBounded'
  BY <1>1, <1>2 DEF FaultsBounded, FaultKinds
<1>4. faults'[kind] # Budget[kind]
  BY <1>1, <1>2 DEF FaultsBounded, FaultKinds
<1>. QED BY <1>3, <1>4 DEF Undisturbed

(* Any other fault is none.                                                *)
LEMMA BenignSpend ==
    ASSUME TypeOK, FaultsBounded, NEW kind \in {"publish", "transient", "duplicate"},
           Spend(kind)
    PROVE  FaultsBounded' /\ (Undisturbed' => Undisturbed)
<1>1. /\ faults'[kind] = faults[kind] - 1
      /\ \A k \in FaultKinds : k # kind => faults'[k] = faults[k]
  BY DEF Spend, TypeOK, FaultKinds
<1>2. \A k \in FaultKinds : faults[k] \in Nat /\ Budget[k] \in Nat
  BY BudgetAssumption DEF TypeOK
<1>3. FaultsBounded'
  BY <1>1, <1>2 DEF FaultsBounded, FaultKinds
<1>4. Undisturbed' => Undisturbed
  BY <1>1 DEF Undisturbed, FaultKinds
<1>. QED BY <1>3, <1>4

(* The claims an action adds are those of its own open transaction, or it  *)
(* adds none and opens none.                                               *)
LEMMA LockKept ==
    ASSUME TypeOK, LockInv, NEW w \in Workers, NEW l \in Locations, Goto(w, l),
           \A v \in Workers : v # w => current'[v] = current[v],
           claims' \subseteq claims
             \/ (pc[w] \in InTx /\ claims' = claims \cup {current[w]} /\ l \notin InTx),
           l \in InTx => pc[w] \in InTx /\ current'[w] = current[w]
    PROVE  LockInv'
<1>1. pc'[w] = l /\ \A v \in Workers : v # w => pc'[v] = pc[v]
  BY DEF TypeOK, Goto
<1>2. ASSUME NEW u \in Workers, NEW v \in Workers, pc'[u] \in InTx, pc'[v] \in InTx,
             current'[u] = current'[v]
      PROVE  u = v
  <2>1. /\ pc[u] \in InTx /\ current'[u] = current[u]
        /\ pc[v] \in InTx /\ current'[v] = current[v]
    BY <1>1, <1>2
  <2>. QED BY <1>2, <2>1 DEF LockInv
<1>3. ASSUME NEW v \in Workers, pc'[v] \in InTx PROVE current'[v] \notin claims'
  <2>1. pc[v] \in InTx /\ current'[v] = current[v] /\ current[v] \notin claims
    BY <1>1, <1>3 DEF LockInv
  <2>2. CASE claims' \subseteq claims
    BY <2>1, <2>2
  <2>3. CASE pc[w] \in InTx /\ claims' = claims \cup {current[w]} /\ l \notin InTx
    <3>1. v # w
      BY <1>1, <1>3, <2>3
    <3>. QED BY <2>1, <2>3, <3>1 DEF LockInv
  <2>. QED BY <2>2, <2>3
<1>. QED BY <1>2, <1>3 DEF LockInv

(* A step of one worker that takes no event, batch or free claim away      *)
(* leaves every task under way, except one that this worker was carrying.  *)
LEMMA OthersCarry ==
    ASSUME TypeOK, NEW w \in Workers, NEW l \in Locations, Goto(w, l),
           \A v \in Workers : v # w => current'[v] = current[v] /\ next'[v] = next[v],
           \A i \in Items : queue[i] > 0 => queue'[i] > 0,
           batches \subseteq batches',
           Plan \in claims' => Plan \in claims,
           NEW t \in Tasks, UnderWay(t), ~Carries(w, t)
    PROVE  UnderWay(t)'
<1>1. pc'[w] = l /\ \A v \in Workers : v # w => pc'[v] = pc[v]
  BY DEF TypeOK, Goto
<1>2. ASSUME NEW v \in Workers, v # w, Carries(v, t) PROVE Carries(v, t)'
  BY <1>1, <1>2 DEF Carries
<1>. QED BY <1>2 DEF UnderWay, Items

(* A message that is sent leaves every other message where it is.          *)
LEMMA SendAdds ==
    ASSUME TypeOK, NEW i \in Items, Send(i)
    PROVE  queue'[i] > 0 /\ \A j \in Items : queue[j] > 0 => queue'[j] > 0
BY DEF Send, TypeOK

(* A message that goes back is there to be taken: the tasks its worker     *)
(* carried are under way if it was an event of theirs, or of a fan-out     *)
(* whose claim is free.                                                    *)
LEMMA ReturnCarries ==
    ASSUME TypeOK, Working, NEW w \in Workers, pc[w] # "idle", Return(w),
           current[w] \in Items,
           batches \subseteq batches', Plan \in claims' => Plan \in claims,
           current[w] = Plan => Plan \notin claims',
           NEW t \in Tasks, UnderWay(t)
    PROVE  UnderWay(t)'
<1>1. /\ queue'[current[w]] > 0
      /\ \A j \in Items : queue[j] > 0 => queue'[j] > 0
  BY SendAdds DEF Return
<1>2. CASE Carries(w, t)
  <2>1. current[w] = t \/ current[w] = Plan
    BY <1>2 DEF Carries, Working
  <2>. QED BY <1>1, <2>1 DEF UnderWay
<1>3. CASE ~Carries(w, t)
  <2>1. "idle" \in Locations
    BY DEF Locations
  <2>2. \A v \in Workers : v # w => current'[v] = current[v] /\ next'[v] = next[v]
    BY DEF Return, TypeOK
  <2>. QED BY <1>1, <1>3, <2>1, <2>2, OthersCarry DEF Return
<1>. QED BY <1>2, <1>3

FanOutInv == FaultsBounded /\ LockInv /\ TasksInv

(* FanOutInv holds in the first state.                                     *)
LEMMA FanOutInit == Init => FanOutInv
<1>. SUFFICES ASSUME Init PROVE FanOutInv
  OBVIOUS
<1>1. FaultsBounded
  BY BudgetAssumption DEF Init, FaultsBounded
<1>2. LockInv
  BY DEF Init, LockInv, InTx
<1>3. queue[Plan] > 0 /\ Plan \notin claims
  BY DEF Init, Items
<1>4. TasksInv
  BY <1>3 DEF Init, TasksInv, UnderWay
<1>. QED BY <1>1, <1>2, <1>4 DEF FanOutInv

(* A message that goes back after an undisturbed handler keeps FanOutInv:  *)
(* the fan-out's claim is free by then.                                    *)
LEMMA ReturnKeeps ==
    ASSUME TypeOK, Working, FanOutInv, NEW w \in Workers, pc[w] # "idle", Return(w),
           FaultsBounded', claims' \subseteq claims,
           UNCHANGED <<batches, job>>,
           Undisturbed' => Undisturbed /\ (current[w] = Plan => Plan \notin claims')
    PROVE  FanOutInv'
<1>. USE DEF FanOutInv
<1>1. /\ "idle" \in Locations
      /\ pc'[w] = "idle"
      /\ \A v \in Workers : v # w => /\ pc'[v] = pc[v]
                                     /\ current'[v] = current[v]
                                     /\ next'[v] = next[v]
  BY DEF Return, Goto, TypeOK, Locations
<1>2. LockInv'
  BY <1>1, LockKept DEF Return, InTx
<1>3. ASSUME Undisturbed', job' # "failed", NEW t \in Tasks PROVE UnderWay(t)'
  <2>1. UnderWay(t) /\ current[w] \in Items
    BY <1>3 DEF TasksInv
  <2>. QED BY <1>3, <2>1, ReturnCarries
<1>4. TasksInv'
  BY <1>1, <1>3 DEF TasksInv
<1>. QED BY <1>2, <1>4

(* A step of one worker within its handler keeps FanOutInv, if the tasks   *)
(* it carried are under way afterwards.                                    *)
LEMMA WorkKeeps ==
    ASSUME TypeOK, FanOutInv, NEW w \in Workers, NEW l \in Locations \ InTx, Goto(w, l),
           l # "idle" => pc[w] # "idle" /\ current'[w] = current[w],
           l = "wrap" => next'[w] = 1,
           \A v \in Workers : v # w => current'[v] = current[v] /\ next'[v] = next[v],
           FaultsBounded', Undisturbed' => Undisturbed,
           claims' = claims \/ (pc[w] \in InTx /\ claims' = claims \cup {current[w]}),
           job' # "failed" => /\ job # "failed"
                              /\ claims' \cap Tasks \subseteq batches',
           Plan \in claims' => Plan \in claims,
           batches \subseteq batches',
           \A i \in Items : queue[i] > 0 => queue'[i] > 0,
           job' # "failed" => \A t \in Tasks : Carries(w, t) => UnderWay(t)'
    PROVE  FanOutInv'
<1>. USE DEF FanOutInv
<1>1. pc'[w] = l /\ \A v \in Workers : v # w => pc'[v] = pc[v]
  BY DEF TypeOK, Goto
<1>2. LockInv'
  BY LockKept
<1>3. ASSUME Undisturbed', job' # "failed", NEW t \in Tasks PROVE UnderWay(t)'
  <2>1. UnderWay(t)
    BY <1>3 DEF TasksInv
  <2>. QED BY <1>3, <2>1, OthersCarry
<1>4. TasksInv'
  BY <1>1, <1>3 DEF TasksInv
<1>. QED BY <1>2, <1>4

(* Taking a message moves its task from the queue to a worker.             *)
LEMMA TakeKeeps ==
    ASSUME TypeOK, Working, FanOutInv, NEW w \in Workers, NEW i \in Items, Take(w, i)
    PROVE  FanOutInv'
<1>. USE DEF FanOutInv
<1>0. UNCHANGED <<next, last, claims, batches, stage, job, allCompleted, faults>>
  BY DEF Take, dbVars
<1>1. /\ pc[w] = "idle" /\ queue[i] > 0
      /\ \A v \in Workers : current[v] = i => pc[v] \notin InTx
      /\ queue'[i] = queue[i] - 1
      /\ \A j \in Items : j # i => queue'[j] = queue[j]
      /\ current'[w] = i
      /\ \A v \in Workers : v # w => pc'[v] = pc[v] /\ current'[v] = current[v]
  BY DEF Take, TypeOK, Goto
<1>2. \/ i \in claims /\ pc'[w] = "ack"
      \/ i \notin claims /\ pc'[w] = IF i = Plan THEN "plan" ELSE "label"
  BY DEF Take, TypeOK, Goto
<1>3. FaultsBounded' /\ (Undisturbed' <=> Undisturbed)
  BY <1>0 DEF FaultsBounded, Undisturbed
<1>4. LockInv'
  BY <1>0, <1>1, <1>2 DEF LockInv, InTx
<1>5. ASSUME Undisturbed, job # "failed", NEW t \in Tasks PROVE UnderWay(t)'
  <2>1. UnderWay(t) /\ claims \cap Tasks \subseteq batches
    BY <1>5 DEF TasksInv
  <2>2. \A v \in Workers : Carries(v, t) => Carries(v, t)'
    BY <1>0, <1>1 DEF Carries
  <2>3. CASE i = t
    <3>1. t \in batches \/ Carries(w, t)'
      BY <1>1, <1>2, <2>1, <2>3, ItemsAssumption DEF Carries
    <3>. QED BY <1>0, <3>1 DEF UnderWay
  <2>4. CASE i = Plan
    <3>1. Plan \in claims \/ Carries(w, t)'
      BY <1>1, <1>2, <2>4 DEF Carries
    <3>2. t # Plan
      BY ItemsAssumption
    <3>. QED BY <1>0, <1>1, <2>1, <2>2, <2>4, <3>1, <3>2 DEF UnderWay, Items
  <2>5. CASE i # t /\ i # Plan
    BY <1>0, <1>1, <2>1, <2>2, <2>5 DEF UnderWay, Items
  <2>. QED BY <2>3, <2>4, <2>5
<1>6. TasksInv'
  BY <1>0, <1>1, <1>2, <1>3, <1>5 DEF TasksInv
<1>. QED BY <1>3, <1>4, <1>6

(* Opening the fan-out: the claim is taken and the first task is next.     *)
LEMMA PrepareKeeps ==
    ASSUME TypeOK, Working, FanOutInv, NEW w \in Workers, PrepareFanout(w)
    PROVE  FanOutInv'
<1>. USE DEF FanOutInv
<1>0. UNCHANGED <<queue, current, batches, job, faults>> /\ claims' = claims \cup {Plan}
  BY DEF PrepareFanout
<1>1. /\ pc[w] = "plan" /\ current[w] = Plan
      /\ pc'[w] = "wrap" /\ next'[w] = 1
      /\ \A v \in Workers : v # w => pc'[v] = pc[v] /\ next'[v] = next[v]
  BY DEF PrepareFanout, TypeOK, Goto, Working
<1>2. FaultsBounded'
  BY <1>0 DEF FaultsBounded
<1>3. LockInv'
  BY <1>0, <1>1, LockKept DEF PrepareFanout, Locations, InTx
<1>4. \A t \in Tasks : UnderWay(t)'
  BY <1>0, <1>1 DEF UnderWay, Carries
<1>5. Plan \notin Tasks
  BY ItemsAssumption
<1>6. TasksInv'
  BY <1>0, <1>1, <1>4, <1>5 DEF TasksInv
<1>. QED BY <1>2, <1>3, <1>6

(* Counting stays inside the transaction.                                  *)
LEMMA CountKeeps ==
    ASSUME TypeOK, FanOutInv, NEW w \in Workers, LabelAndCount(w)
    PROVE  FanOutInv'
<1>. USE DEF FanOutInv
<1>0. UNCHANGED <<queue, current, next, claims, batches, job, faults>>
  BY DEF LabelAndCount, dbVars
<1>1. /\ pc[w] = "label" /\ pc'[w] = "counted"
      /\ \A v \in Workers : v # w => pc'[v] = pc[v]
  BY DEF LabelAndCount, TypeOK, Goto
<1>2. FaultsBounded' /\ (Undisturbed' <=> Undisturbed)
  BY <1>0 DEF FaultsBounded, Undisturbed
<1>3. LockInv'
  BY <1>0, <1>1 DEF LockInv, InTx
<1>4. \A t \in Tasks, v \in Workers : Carries(v, t) => Carries(v, t)'
  BY <1>0, <1>1 DEF Carries
<1>5. \A t \in Tasks : UnderWay(t) => UnderWay(t)'
  BY <1>0, <1>4 DEF UnderWay
<1>6. TasksInv'
  BY <1>0, <1>1, <1>2, <1>5 DEF TasksInv
<1>. QED BY <1>2, <1>3, <1>6

(* Dispatching a task puts its event on the queue and goes on to the next. *)
LEMMA DispatchKeeps ==
    ASSUME TypeOK, Working, FanOutInv, NEW w \in Workers, Dispatch(w)
    PROVE  FanOutInv'
<1>. USE DEF FanOutInv
<1>0. UNCHANGED <<current, claims, batches, job, faults>>
  BY DEF Dispatch, dbVars
<1>1. pc[w] = "dispatch" /\ current[w] = Plan /\ next[w] \in Tasks
  BY DEF Dispatch, Working
<1>2. /\ queue'[next[w]] > 0
      /\ \A j \in Items : queue[j] > 0 => queue'[j] > 0
  BY <1>1, SendAdds DEF Dispatch, Items
<1>3. PICK l \in {"ack", "dispatch"} :
        Goto(w, l) /\ l = IF next[w] = TaskCount THEN "ack" ELSE "dispatch"
  BY DEF Dispatch
<1>4. /\ pc'[w] = l
      /\ next'[w] = next[w] + 1
      /\ \A v \in Workers : v # w => next'[v] = next[v]
  BY <1>3 DEF Dispatch, Goto, TypeOK
<1>5. FaultsBounded' /\ (Undisturbed' <=> Undisturbed)
  BY <1>0 DEF FaultsBounded, Undisturbed
<1>6. ASSUME NEW t \in Tasks, Carries(w, t) PROVE UnderWay(t)'
  <2>1. next[w] <= t
    BY <1>1, <1>6, ItemsAssumption DEF Carries
  <2>2. CASE t = next[w]
    BY <1>2, <2>2 DEF UnderWay
  <2>3. CASE t # next[w]
    <3>1. next[w] + 1 <= t /\ next[w] # TaskCount
      BY <1>1, <2>1, <2>3, TaskCountAssumption DEF Tasks
    <3>2. Carries(w, t)'
      BY <1>3, <1>4, <3>1 DEF Carries
    <3>. QED BY <3>2 DEF UnderWay
  <2>. QED BY <2>2, <2>3
<1>7. job # "failed" => claims' \cap Tasks \subseteq batches'
  BY <1>0 DEF TasksInv
<1>. QED BY <1>0, <1>1, <1>2, <1>3, <1>4, <1>5, <1>6, <1>7, WorkKeeps DEF Locations, InTx

(* A failed dispatch gives the fan-out's claim back.                       *)
LEMMA DispatchFailsKeeps ==
    ASSUME TypeOK, Working, FanOutInv, NEW w \in Workers, DispatchFails(w)
    PROVE  FanOutInv'
<1>. USE DEF FanOutInv
<1>0. UNCHANGED <<current, next, claims, batches, job>>
  BY DEF DispatchFails, dbVars
<1>1. pc[w] = "dispatch" /\ current[w] = Plan /\ next[w] \in Tasks
  BY DEF DispatchFails, Working
<1>2. \A j \in Items : queue[j] > 0 => queue'[j] > 0
  BY <1>1, SendAdds DEF DispatchFails, Items
<1>3. FaultsBounded' /\ (Undisturbed' => Undisturbed)
  BY BenignSpend DEF DispatchFails
<1>4. pc'[w] = "release"
  BY DEF DispatchFails, Goto, TypeOK
<1>5. \A t \in Tasks : UnderWay(t)'
  BY <1>0, <1>1, <1>4 DEF UnderWay, Carries
<1>6. job # "failed" => claims' \cap Tasks \subseteq batches'
  BY <1>0 DEF TasksInv
<1>. QED BY <1>0, <1>1, <1>2, <1>3, <1>5, <1>6, WorkKeeps DEF DispatchFails, Locations, InTx

(* Committing a task stores the batch under its claim.                     *)
LEMMA CommitKeeps ==
    ASSUME TypeOK, Working, FanOutInv, NEW w \in Workers, CommitTask(w)
    PROVE  FanOutInv'
<1>. USE DEF FanOutInv
<1>0. /\ UNCHANGED <<queue, current, next, job, faults>>
      /\ claims' = claims \cup {current[w]}
      /\ batches' = batches \cup {current[w]}
  BY DEF CommitTask, WithOwnBatch
<1>1. pc[w] = "counted" /\ current[w] \in Tasks /\ current[w] # Plan
  BY ItemsAssumption DEF CommitTask, Working
<1>2. FaultsBounded' /\ (Undisturbed' <=> Undisturbed)
  BY <1>0 DEF FaultsBounded, Undisturbed
<1>3. \A t \in Tasks : Carries(w, t) => UnderWay(t)'
  BY <1>0, <1>1 DEF Carries, UnderWay
<1>4. job # "failed" => claims' \cap Tasks \subseteq batches'
  BY <1>0 DEF TasksInv
<1>. QED BY <1>0, <1>1, <1>2, <1>3, <1>4, WorkKeeps DEF CommitTask, Locations, InTx

(* The handlers' other steps.                                              *)
LEMMA HandleKeeps ==
    ASSUME TypeOK, Working, FanOutInv, NEW w \in Workers, Handle(w)
    PROVE  FanOutInv'
<1>. USE DEF FanOutInv
<1>0. job # "failed" => claims \cap Tasks \subseteq batches
  BY DEF TasksInv
<1>1. ASSUME UNCHANGED faults PROVE FaultsBounded' /\ (Undisturbed' => Undisturbed)
  BY <1>1 DEF FaultsBounded, Undisturbed
<1>2. CASE WrapClaimed(w)
  <2>1. UNCHANGED <<queue, current, next, claims, batches, job, faults>>
    BY <1>2 DEF WrapClaimed, dbVars
  <2>2. pc[w] = "wrap" /\ pc'[w] = "dispatch" /\ next[w] = 1
    BY <1>2 DEF WrapClaimed, Goto, TypeOK, TasksInv
  <2>3. \A t \in Tasks : UnderWay(t)'
    BY <2>1, <2>2 DEF UnderWay, Carries, Tasks
  <2>. QED BY <1>0, <1>1, <1>2, <2>1, <2>2, <2>3, WorkKeeps DEF WrapClaimed, Locations, InTx
<1>3. CASE WrapFails(w)
  <2>1. FaultsBounded' /\ ~Undisturbed'
    BY <1>3, LossySpend DEF WrapFails
  <2>. QED BY <1>3, <2>1, ReturnKeeps DEF WrapFails, dbVars
<1>4. CASE AnnounceTask(w)
  <2>1. PICK l \in {"announceAll", "ack"} : Goto(w, l)
    BY <1>4 DEF AnnounceTask
  <2>2. \A t \in Tasks : ~Carries(w, t)
    BY <1>4 DEF AnnounceTask, Carries
  <2>. QED BY <1>0, <1>1, <1>4, <2>1, <2>2, WorkKeeps
           DEF AnnounceTask, dbVars, Locations, InTx
<1>5. CASE AnnounceAll(w)
  <2>1. \A t \in Tasks : ~Carries(w, t)
    BY <1>5 DEF AnnounceAll, Carries
  <2>. QED BY <1>0, <1>1, <1>5, <2>1, WorkKeeps DEF AnnounceAll, dbVars, Locations, InTx
<1>6. CASE AnnounceFails(w)
  <2>1. FaultsBounded' /\ (Undisturbed' => Undisturbed)
    BY <1>6, BenignSpend DEF AnnounceFails
  <2>2. \A t \in Tasks : ~Carries(w, t)
    BY <1>6 DEF AnnounceFails, Carries
  <2>. QED BY <1>0, <1>6, <2>1, <2>2, WorkKeeps DEF AnnounceFails, dbVars, Locations, InTx
<1>7. CASE ReleaseClaim(w)
  BY <1>1, <1>7, ReturnKeeps DEF ReleaseClaim
<1>8. CASE Ack(w)
  <2>1. \A t \in Tasks : ~Carries(w, t)
    BY <1>8 DEF Ack, Carries
  <2>. QED BY <1>0, <1>1, <1>8, <2>1, WorkKeeps DEF Ack, dbVars, TypeOK, Locations, InTx
<1>9. CASE FailTransiently(w)
  <2>1. FaultsBounded' /\ (Undisturbed' => Undisturbed)
    BY <1>9, BenignSpend DEF FailTransiently
  <2>2. pc[w] # "idle" /\ current[w] \notin claims
    BY <1>9 DEF FailTransiently, InTx, LockInv
  <2>. QED BY <1>9, <2>1, <2>2, ReturnKeeps DEF FailTransiently, dbVars
<1>10. CASE FailTerminally(w)
  <2>1. job' = "failed"
    BY <1>10 DEF FailTerminally
  <2>2. /\ Plan \in claims' => Plan \in claims
        /\ claims' = claims \/ (pc[w] \in InTx /\ claims' = claims \cup {current[w]})
    BY <1>10 DEF FailTerminally
  <2>. QED BY <1>1, <1>10, <2>1, <2>2, WorkKeeps DEF FailTerminally, Locations, InTx
<1>. QED BY <1>2, <1>3, <1>4, <1>5, <1>6, <1>7, <1>8, <1>9, <1>10, TakeKeeps, PrepareKeeps,
            CountKeeps, DispatchKeeps, DispatchFailsKeeps, CommitKeeps DEF Handle

(* EveryTaskLabelled for every number of tasks and workers: as long as no  *)
(* worker crashes and no reload fails after the fan-out's commit, a queue  *)
(* that has run dry of an unfailed job has every batch stored, however     *)
(* often dispatches failed half way, were repeated or delivered twice.     *)
THEOREM NoTaskForgotten == Spec => []EveryTaskLabelled
<1>1. TypeOK /\ Working /\ FanOutInv /\ [Next]_vars => FanOutInv'
  <2>. SUFFICES ASSUME TypeOK, Working, FanOutInv, [Next]_vars PROVE FanOutInv'
    OBVIOUS
  <2>1. ASSUME NEW w \in Workers, Crash(w) PROVE FanOutInv'
    <3>1. FaultsBounded' /\ ~Undisturbed'
      BY <2>1, LossySpend DEF Crash, FanOutInv
    <3>. QED BY <2>1, <3>1, ReturnKeeps DEF Crash, dbVars
  <2>2. ASSUME NEW i \in Items, Duplicate(i) PROVE FanOutInv'
    <3>1. FaultsBounded' /\ (Undisturbed' => Undisturbed)
      BY <2>2, BenignSpend DEF Duplicate, FanOutInv
    <3>2. \A j \in Items : queue[j] > 0 => queue'[j] > 0
      BY <2>2, SendAdds DEF Duplicate
    <3>3. UNCHANGED <<current, pc, next, claims, batches, job>>
      BY <2>2 DEF Duplicate, workerVars, dbVars
    <3>4. LockInv'
      BY <3>3 DEF FanOutInv, LockInv
    <3>5. \A t \in Tasks, v \in Workers : Carries(v, t) => Carries(v, t)'
      BY <3>3 DEF Carries
    <3>6. \A t \in Tasks : UnderWay(t) => UnderWay(t)'
      BY <3>2, <3>3, <3>5 DEF UnderWay, Items
    <3>7. TasksInv'
      BY <3>1, <3>3, <3>6 DEF FanOutInv, TasksInv
    <3>. QED BY <3>1, <3>4, <3>7 DEF FanOutInv
  <2>3. CASE Terminated \/ UNCHANGED vars
    <3>. SUFFICES ASSUME UNCHANGED vars PROVE FanOutInv'
      BY <2>3 DEF Terminated
    <3>1. UNCHANGED <<queue, current, pc, next, claims, batches, job, faults>>
      BY DEF vars, workerVars, dbVars
    <3>2. \A t \in Tasks : UnderWay(t) => UnderWay(t)'
      BY <3>1 DEF UnderWay, Carries
    <3>. QED BY <3>1, <3>2 DEF FanOutInv, FaultsBounded, LockInv, TasksInv, Undisturbed
  <2>. QED BY <2>1, <2>2, <2>3, HandleKeeps DEF Next
<1>2. TypeOK /\ FanOutInv => EveryTaskLabelled
  <2>. SUFFICES ASSUME TypeOK, FanOutInv, Undisturbed, Quiescent, job # "failed"
                PROVE  batches = Tasks
    BY DEF EveryTaskLabelled
  <2>1. \A w \in Workers, t \in Tasks : ~Carries(w, t)
    BY DEF Quiescent, Carries
  <2>2. ASSUME NEW t \in Tasks PROVE t \in batches
    <3>1. UnderWay(t) /\ queue[t] = 0 /\ queue[Plan] = 0
      BY DEF FanOutInv, TasksInv, Quiescent, Items
    <3>. QED BY <2>1, <3>1 DEF UnderWay
  <2>. QED BY <2>2 DEF TypeOK
<1>. QED BY <1>1, <1>2, FanOutInit, TypeCorrect, PTL DEF Spec

=============================================================================
