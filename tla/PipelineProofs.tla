--------------------------- MODULE PipelineProofs ---------------------------
(***************************************************************************)
(* What the pipeline of one job guarantees for every number of annotation  *)
(* tasks, every set of fault kinds and every budget of faults.             *)
(***************************************************************************)
EXTENDS Pipeline, SequenceTheorems, TLAPS

(* Tasks, hops of the line and completions have names of their own.        *)
LEMMA Names ==
    /\ Hops \subseteq Procs /\ Hops \subseteq Events /\ Dones \subseteq Events
    /\ Tasks \subseteq Hops /\ Line \subseteq Hops
    /\ "dlq" \in Procs /\ "dlq" \notin Hops /\ "dlq" \notin Events
    /\ \A t \in Tasks : t \notin Line /\ t \notin Dones
    /\ \A d \in Dones : d \notin Hops
    /\ \A p \in Procs : p = "dlq" \/ p \in Hops
BY TasksAssumption DEF Hops, Procs, Events, Line

(* The stage of each event.                                                *)
LEMMA StagesOf ==
    /\ \A e \in Events : StageOf[e] \in Stages /\ StageOf[e] # "job"
    /\ \A t \in Tasks : StageOf[t] = "annotation"
    /\ \A d \in Dones : StageOf[d] = "export"
    /\ StageOf["fanout"] = "annotation" /\ StageOf["export"] = "export"
    /\ StageOf["intake"] = "intake" /\ StageOf["planning"] = "planning"
    /\ StageOf["preprocessing"] = "preprocessing"
<1>1. Stages = {"intake", "preprocessing", "planning", "annotation", "export"}
  BY DEF Stages, PipelineStageNames
<1>2. \A e \in Events : StageOf[e] =
        (CASE e \in Tasks \cup {"fanout"} -> "annotation"
           [] e \in Dones -> "export"
           [] OTHER -> e)
  BY DEF StageOf
<1>3. \A e \in Events : e \in Tasks \/ e \in Dones \/ e \in Line
  BY DEF Events, Hops
<1>. QED BY <1>1, <1>2, <1>3, Names DEF Line

(* What a worker works on.                                                 *)
LEMMA Items ==
    ASSUME TypeOK, NEW p \in Procs
    PROVE  Item(p) \in Events /\ (p \in Hops => Item(p) = p)
BY Names DEF TypeOK, Item

(* A returned message goes back to its queue or to the dead-letter queue.  *)
LEMMA ReturnType ==
    ASSUME TypeOK, NEW q \in [Events -> Nat], NEW p \in Procs, ReturnInto(q, p)
    PROVE  queue' \in [Events -> Nat] /\ dead' \in [Events -> Nat]
BY Items DEF TypeOK, ReturnInto

(* What a worker has loaded is a status of the job and one of the stage.   *)
LEMMA LoadType ==
    ASSUME TypeOK, NEW p \in Procs, NEW e \in Events, Load(p, e)
    PROVE  loaded' \in [Procs -> [job : JobStatuses, stage : Statuses]]
BY StagesOf DEF TypeOK, Load

(* A worker that leaves its transaction keeps its domains.                 *)
LEMMA LeaveType ==
    ASSUME TypeOK, NEW p \in Procs, NEW l \in {"idle", "publish"}, Leave(p, l)
    PROVE  /\ pc' \in [Procs -> Places]
           /\ loaded' \in [Procs -> [job : JobStatuses, stage : Statuses]]
           /\ locked' \in [Procs -> 0..2]
           /\ lastTasks' \subseteq Tasks
BY DEF TypeOK, Leave, NothingLoaded, JobStatuses, Statuses, Places

(* The faults spent are faults of the behaviour, and within its budget.    *)
LEMMA SpendType ==
    ASSUME TypeOK, NEW kind, Spend(kind)
    PROVE  spent' \subseteq Faults /\ left' \in 0..MaxFaults
BY FaultsAssumption DEF TypeOK, Spend

(* Publishing adds copies of events.                                       *)
LEMMA DeliverType ==
    ASSUME TypeOK, NEW h, NEW n
    PROVE  Deliver(h, n) \in [Events -> Nat]
BY DEF TypeOK, Deliver

-----------------------------------------------------------------------------
(* Two one-element sequences make a pair.                                  *)
LEMMA PairOfSingles ==
    ASSUME NEW x, NEW y
    PROVE  <<x>> \o <<y>> = <<x, y>>
<1>. DEFINE S == {x, y}
<1>1. <<x>> \in Seq(S) /\ <<y>> \in Seq(S) /\ <<x, y>> \in Seq(S)
  OBVIOUS
<1>2. /\ <<x>> \o <<y>> \in Seq(S)
      /\ Len(<<x>> \o <<y>>) = 2
      /\ (<<x>> \o <<y>>)[1] = x /\ (<<x>> \o <<y>>)[2] = y
  <2>1. Len(<<x>>) = 1 /\ Len(<<y>>) = 1 /\ <<x>>[1] = x /\ <<y>>[1] = y
    OBVIOUS
  <2>2. /\ <<x>> \o <<y>> \in Seq(S)
        /\ Len(<<x>> \o <<y>>) = Len(<<x>>) + Len(<<y>>)
        /\ \A i \in 1 .. Len(<<x>>) + Len(<<y>>) : (<<x>> \o <<y>>)[i] =
                IF i <= Len(<<x>>) THEN <<x>>[i] ELSE <<y>>[i - Len(<<x>>)]
    BY <1>1, ConcatProperties, Zenon
  <2>. QED BY <2>1, <2>2
<1>3. Len(<<x, y>>) = 2 /\ <<x, y>>[1] = x /\ <<x, y>>[2] = y
  OBVIOUS
<1>4. \A i \in 1 .. 2 : (<<x>> \o <<y>>)[i] = <<x, y>>[i]
  BY <1>2, <1>3
<1>. QED BY <1>1, <1>2, <1>3, <1>4, SeqEqual

(* The rows a transaction locks: at most its stage and the job, in this    *)
(* order except in intake.                                                 *)
LEMMA LockOrderShape ==
    ASSUME TypeOK, NEW p \in Procs
    PROVE  /\ pc[p] \in {"idle", "publish"} => LockOrder(p) = <<>>
           /\ pc[p] = "record" => \/ LockOrder(p) = <<>>
                                  \/ LockOrder(p) = <<StageOf[Item(p)], "job">>
           /\ pc[p] = "tx" /\ p = "intake" => \/ LockOrder(p) = <<"intake">>
                                              \/ LockOrder(p) = <<"job", "intake">>
           /\ pc[p] = "tx" /\ p # "intake" => \/ LockOrder(p) = <<>>
                                              \/ LockOrder(p) = <<StageOf[p]>>
                                              \/ LockOrder(p) = <<"export", "job">>
           /\ pc[p] = "tx" /\ p \notin Line => LockOrder(p) = <<>>
           /\ pc[p] = "counted" => \/ LockOrder(p) = <<>>
                                   \/ LockOrder(p) = <<"annotation">>
<1>0. "export" \in Hops /\ StageOf["export"] = "export"
  BY StagesOf DEF Hops, Line
<1>1. pc[p] \in {"idle", "publish"} => LockOrder(p) = <<>>
  BY DEF LockOrder
<1>2. ASSUME pc[p] = "record"
      PROVE  LockOrder(p) = <<>> \/ LockOrder(p) = <<StageOf[Item(p)], "job">>
  BY <1>2 DEF LockOrder
<1>3. ASSUME pc[p] = "tx", p = "intake"
      PROVE  LockOrder(p) = <<"intake">> \/ LockOrder(p) = <<"job", "intake">>
  <2>1. LockOrder(p) = (IF loaded[p].job # "running" THEN <<"job">> ELSE <<>>)
                           \o <<"intake">>
    BY <1>3 DEF LockOrder
  <2>2. <<>> \o <<"intake">> = <<"intake">>
    OBVIOUS
  <2>3. <<"job">> \o <<"intake">> = <<"job", "intake">>
    BY PairOfSingles
  <2>. QED BY <2>1, <2>2, <2>3
<1>4. ASSUME pc[p] = "tx", p # "intake"
      PROVE  \/ LockOrder(p) = <<>> \/ LockOrder(p) = <<StageOf[p]>>
             \/ LockOrder(p) = <<"export", "job">>
  <2>1. CASE p = "export"
    <3>1. LockOrder(p) = <<"export">>
                 \o (IF loaded[p].job # "completed" THEN <<"job">> ELSE <<>>)
      BY <1>4, <2>1 DEF LockOrder
    <3>2. <<"export">> \o <<>> = <<"export">>
      OBVIOUS
    <3>3. <<"export">> \o <<"job">> = <<"export", "job">>
      BY PairOfSingles
    <3>. QED BY <1>0, <2>1, <3>1, <3>2, <3>3
  <2>2. CASE p # "export"
    BY <1>4, <2>2 DEF LockOrder
  <2>. QED BY <2>1, <2>2
<1>5. pc[p] = "tx" /\ p \notin Line => LockOrder(p) = <<>>
  BY DEF LockOrder, Line
<1>6. pc[p] = "counted" => LockOrder(p) = <<>> \/ LockOrder(p) = <<"annotation">>
  BY DEF LockOrder
<1>. QED BY <1>1, <1>2, <1>3, <1>4, <1>5, <1>6

TwoLocks == \A p \in Procs :
    /\ Len(LockOrder(p)) \in 0..2
    /\ Len(LockOrder(p)) = 2 => LockOrder(p)[1] # LockOrder(p)[2]

(* No order has more than two of them.                                    *)
LEMMA LockOrderLength == TypeOK => TwoLocks
<1>. SUFFICES ASSUME TypeOK, NEW p \in Procs
              PROVE  /\ Len(LockOrder(p)) \in 0..2
                     /\ Len(LockOrder(p)) = 2 => LockOrder(p)[1] # LockOrder(p)[2]
  BY DEF TwoLocks
<1>1. pc[p] \in {"idle", "tx", "counted", "publish", "record"}
  BY DEF TypeOK, Places
<1>2. CASE LockOrder(p) = <<>>
  BY <1>2
<1>3. ASSUME NEW x, LockOrder(p) = <<x>> PROVE Len(LockOrder(p)) = 1
  BY <1>3
<1>4. ASSUME NEW x, NEW y, x # y, LockOrder(p) = <<x, y>>
      PROVE  Len(LockOrder(p)) = 2 /\ LockOrder(p)[1] # LockOrder(p)[2]
  BY <1>4
<1>5. CASE pc[p] = "record"
  <2>1. StageOf[Item(p)] # "job"
    BY Items, StagesOf
  <2>. QED BY <1>2, <1>4, <1>5, <2>1, LockOrderShape
<1>6. CASE pc[p] = "tx" /\ p = "intake"
  BY <1>3, <1>4, <1>6, LockOrderShape
<1>7. CASE pc[p] = "tx" /\ p # "intake"
  BY <1>2, <1>3, <1>4, <1>7, LockOrderShape
<1>8. CASE pc[p] = "counted"
  BY <1>2, <1>3, <1>8, LockOrderShape
<1>. QED BY <1>1, <1>2, <1>5, <1>6, <1>7, <1>8, LockOrderShape

(* No transaction holds more locks than it takes.                          *)
LocksBounded == \A p \in Procs : locked[p] <= Len(LockOrder(p))

(* A step of one worker that ends with none of its locks leaves the other  *)
(* transactions with what they hold.                                       *)
LEMMA OthersKeepLocks ==
    ASSUME TypeOK, TypeOK', LocksBounded, NEW p \in Procs,
           locked'[p] = 0,
           dlqItem' = dlqItem \/ p = "dlq",
           \A q \in Procs \ {p} : /\ pc'[q] = pc[q]
                                  /\ loaded'[q] = loaded[q]
                                  /\ locked'[q] = locked[q]
                                  /\ q \in lastTasks' <=> q \in lastTasks
    PROVE  LocksBounded'
<1>. SUFFICES ASSUME NEW q \in Procs PROVE (locked[q] <= Len(LockOrder(q)))'
  BY DEF LocksBounded
<1>1. CASE q = p
  <2>1. TwoLocks'
    BY LockOrderLength, PTL
  <2>. QED BY <1>1, <2>1 DEF TwoLocks
<1>2. CASE q # p
  <2>1. Item(q)' = Item(q)
    BY <1>2 DEF Item
  <2>2. LockOrder(q)' = LockOrder(q)
    BY <1>2, <2>1 DEF LockOrder
  <2>. QED BY <1>2, <2>2 DEF LocksBounded
<1>. QED BY <1>1, <1>2

(* The types of the program, and the locks a transaction holds.            *)
Typed == TypeOK /\ LocksBounded

(* It holds initially.                                                     *)
LEMMA InitTyped == Init => Typed
<1>. SUFFICES ASSUME Init PROVE Typed
  OBVIOUS
<1>1. TypeOK
  BY FaultsAssumption
  DEF Init, TypeOK, NothingLoaded, JobStatuses, Statuses, Hops, Line, Events, Procs, Stages,
      Places, Outputs
<1>2. TwoLocks
  BY <1>1, LockOrderLength
<1>3. LocksBounded
  BY <1>2 DEF Init, LocksBounded, TwoLocks
<1>. QED BY <1>1, <1>3 DEF Typed

(* There is room for the next lock of a transaction that has not all.      *)
LEMMA NextLock ==
    ASSUME NEW held \in 0..2, NEW all \in 0..2, held <= all, held # all
    PROVE  /\ held + 1 \in 0..2 /\ held + 1 <= all
           /\ held # 0 => held = 1 /\ all = 2
OBVIOUS

(* Taking one more lock of one's own order.                                *)
LEMMA LockTyped ==
    ASSUME Typed, NEW p \in Procs, Lock(p)
    PROVE  Typed'
<1>1. Len(LockOrder(p)) \in 0..2
  BY LockOrderLength DEF Typed, TwoLocks
<1>2. /\ locked[p] \in 0..2
      /\ locked[p] <= Len(LockOrder(p)) /\ locked[p] # Len(LockOrder(p))
  BY DEF Typed, TypeOK, LocksBounded, Lock, AllLocked
<1>3. locked[p] + 1 \in 0..2 /\ locked[p] + 1 <= Len(LockOrder(p))
  BY <1>1, <1>2, NextLock
<1>4. TypeOK'
  BY <1>3 DEF Typed, TypeOK, Lock, msgVars, dbVars, faultVars
<1>5. ASSUME NEW q \in Procs PROVE LockOrder(q)' = LockOrder(q)
  BY DEF Lock, LockOrder, Item
<1>6. LocksBounded'
  BY <1>3, <1>5 DEF Typed, TypeOK, LocksBounded, Lock
<1>. QED BY <1>4, <1>6 DEF Typed

(* A transaction waits for no row of its own.                              *)
LEMMA NoSelfWait ==
    ASSUME Typed, NEW p \in Procs
    PROVE  ~Waits(p, p)
<1>. SUFFICES ASSUME Waits(p, p) PROVE FALSE
  OBVIOUS
<1>1. PICK i \in 1..locked[p] : LockOrder(p)[i] = LockOrder(p)[locked[p] + 1]
  BY DEF Waits, Holds
<1>2. /\ Len(LockOrder(p)) \in 0..2
      /\ Len(LockOrder(p)) = 2 => LockOrder(p)[1] # LockOrder(p)[2]
  BY LockOrderLength DEF Typed, TwoLocks
<1>3. locked[p] \in 0..2 /\ locked[p] <= Len(LockOrder(p)) /\ locked[p] # Len(LockOrder(p))
  BY DEF Waits, AllLocked, Typed, TypeOK, LocksBounded
<1>4. locked[p] # 0
  BY <1>1
<1>5. locked[p] = 1 /\ Len(LockOrder(p)) = 2
  BY <1>2, <1>3, <1>4, NextLock
<1>. QED BY <1>1, <1>2, <1>5

(* The victim of a deadlock starts over, the other gets its row.           *)
LEMMA DeadlockAbortTyped ==
    ASSUME Typed, NEW p \in Procs, DeadlockAbort(p)
    PROVE  Typed'
<1>. USE DEF Typed
<1>1. PICK q \in InTx :
        /\ p \in InTx /\ Waits(p, q) /\ Waits(q, p)
        /\ Return(p)
        /\ pc' = [pc EXCEPT ![p] = "idle"]
        /\ locked' = [locked EXCEPT ![p] = 0, ![q] = @ + 1]
        /\ loaded' = [loaded EXCEPT ![p] = NothingLoaded]
        /\ lastTasks' = lastTasks \ {p}
        /\ UNCHANGED <<dlqItem, dbVars, faultVars>>
  BY DEF DeadlockAbort
<1>2. q \in Procs
  BY DEF InTx
<1>3. Len(LockOrder(q)) \in 0..2
  BY <1>2, LockOrderLength DEF TwoLocks
<1>4. /\ locked[q] \in 0..2
      /\ locked[q] <= Len(LockOrder(q)) /\ locked[q] # Len(LockOrder(q))
  BY <1>1, <1>2 DEF TypeOK, LocksBounded, Waits, AllLocked
<1>5. locked[q] + 1 \in 0..2 /\ locked[q] + 1 <= Len(LockOrder(q))
  BY <1>3, <1>4, NextLock
<1>6. p # q
  BY <1>1, NoSelfWait
<1>7. TypeOK'
  <2>1. queue' \in [Events -> Nat] /\ dead' \in [Events -> Nat]
    BY <1>1, ReturnType DEF Return, TypeOK
  <2>2. locked' \in [Procs -> 0..2]
    <3>1. locked' = [r \in Procs |-> IF r = q THEN locked[q] + 1
                                     ELSE IF r = p THEN 0 ELSE locked[r]]
      BY <1>1, <1>2, <1>6 DEF TypeOK
    <3>. QED BY <1>5, <3>1 DEF TypeOK
  <2>3. /\ pc' \in [Procs -> Places]
        /\ loaded' \in [Procs -> [job : JobStatuses, stage : Statuses]]
    BY <1>1 DEF TypeOK, NothingLoaded, JobStatuses, Statuses, Places
  <2>. QED BY <1>1, <2>1, <2>2, <2>3 DEF TypeOK, dbVars, faultVars
<1>8. ASSUME NEW r \in Procs \ {p} PROVE LockOrder(r)' = LockOrder(r)
  BY <1>1, <1>8 DEF LockOrder, Item
<1>9. ASSUME NEW r \in Procs PROVE (locked[r] <= Len(LockOrder(r)))'
  <2>1. CASE r = p
    <3>1. TwoLocks'
      BY <1>7, LockOrderLength, PTL
    <3>2. Len(LockOrder(p))' \in 0..2
      BY <3>1 DEF TwoLocks
    <3>3. locked'[p] = 0
      BY <1>1, <1>6 DEF TypeOK
    <3>. QED BY <2>1, <3>2, <3>3
  <2>2. CASE r = q /\ r # p
    BY <1>1, <1>2, <1>5, <1>8, <2>2 DEF TypeOK
  <2>3. CASE r # q /\ r # p
    BY <1>1, <1>8, <2>3 DEF TypeOK, LocksBounded
  <2>. QED BY <2>1, <2>2, <2>3
<1>. QED BY <1>7, <1>9 DEF LocksBounded

(* A worker without an open transaction holds no lock.                     *)
LEMMA IdleHoldsNothing ==
    ASSUME Typed, NEW p \in Procs, LockOrder(p) = <<>>
    PROVE  locked[p] = 0
<1>1. Len(LockOrder(p)) = 0
  OBVIOUS
<1>2. locked[p] \in 0..2 /\ locked[p] <= 0
  BY <1>1 DEF Typed, TypeOK, LocksBounded
<1>. QED BY <1>2

(* A step that closes a worker's transaction.                              *)
LEMMA LeaveTyped ==
    ASSUME Typed, TypeOK', NEW p \in Procs, NEW l \in {"idle", "publish"},
           Leave(p, l), UNCHANGED dlqItem
    PROVE  Typed'
<1>1. /\ locked'[p] = 0
      /\ \A q \in Procs \ {p} : /\ pc'[q] = pc[q]
                                /\ loaded'[q] = loaded[q]
                                /\ locked'[q] = locked[q]
                                /\ q \in lastTasks' <=> q \in lastTasks
  BY DEF Leave, Typed, TypeOK
<1>. QED BY <1>1, OthersKeepLocks DEF Typed

(* Recording a failure, its publish failing or not.                        *)
LEMMA RecordTyped ==
    ASSUME Typed, NEW p \in Procs, Record(p) \/ RecordFails(p)
    PROVE  Typed'
<1>1. MarkFailed(p) /\ Leave(p, "idle") /\ UNCHANGED <<dlqItem, rows>>
  BY DEF Record, RecordFails
<1>2. Item(p) \in Events /\ StageOf[Item(p)] \in Stages
  BY Items, StagesOf DEF Typed
<1>3. stage' \in [Stages -> Statuses] /\ job' \in JobStatuses
  BY <1>1, <1>2 DEF MarkFailed, Assign, Typed, TypeOK, Statuses, JobStatuses
<1>4. claims' \subseteq Events \X WorkerNames
  <2>1. FailureClaimName[p] \in WorkerNames
    BY DEF FailureClaimName, Procs, Hops, Line, WorkerNames
  <2>. QED BY <1>2, <2>1 DEF Record, RecordFails, Typed, TypeOK
<1>5. queue' \in [Events -> Nat] /\ dead' \in [Events -> Nat]
  BY ReturnType DEF Record, RecordFails, Typed, TypeOK, msgVars, Return
<1>6. spent' \subseteq Faults /\ left' \in 0..MaxFaults
  BY SpendType DEF Record, RecordFails, Typed, TypeOK, faultVars
<1>7. TypeOK'
  BY <1>1, <1>3, <1>4, <1>5, <1>6, LeaveType DEF Typed, TypeOK
<1>. QED BY <1>1, <1>7, LeaveTyped

(* The steps of a stage worker, the waiting for locks aside.               *)
LEMMA WorkTyped ==
    ASSUME Typed, NEW h \in Hops, Work(h)
    PROVE  Typed'
<1>. USE DEF Typed
<1>0. h \in Procs /\ h \in Events /\ Item(h) = h /\ StageOf[h] \in Stages /\ h # "dlq"
  BY Names, Items, StagesOf
<1>1. CASE Take(h)
  <2>1. TypeOK'
    <3>1. queue' \in [Events -> Nat]
      BY <1>0, <1>1 DEF Take, TypeOK
    <3>2. /\ pc' \in [Procs -> Places]
          /\ loaded' \in [Procs -> [job : JobStatuses, stage : Statuses]]
      BY <1>0, <1>1, LoadType DEF Take, TypeOK, Places
    <3>. QED BY <1>1, <3>1, <3>2 DEF Take, TypeOK, dbVars, faultVars
  <2>2. locked' = locked /\ locked[h] = 0
    BY <1>0, <1>1, IdleHoldsNothing, LockOrderShape DEF Take
  <2>3. \A q \in Procs \ {h} : pc'[q] = pc[q] /\ loaded'[q] = loaded[q]
    BY <1>1 DEF Take, Load, TypeOK
  <2>. QED BY <1>0, <1>1, <2>1, <2>2, <2>3, OthersKeepLocks DEF Take
<1>2. CASE Lock(h)
  BY <1>0, <1>2, LockTyped
<1>3. CASE h = "export" /\ \E d \in Dones : Skip(d)
  <2>1. PICK d \in Dones : Skip(d)
    BY <1>3
  <2>2. d \in Events
    BY Names
  <2>3. TypeOK'
    BY <2>1, <2>2 DEF Skip, TypeOK, txVars, dbVars, faultVars
  <2>4. \A p \in Procs : LockOrder(p)' = LockOrder(p)
    BY <2>1 DEF Skip, txVars, LockOrder, Item
  <2>. QED BY <2>1, <2>3, <2>4 DEF LocksBounded, Skip, txVars
<1>4. CASE Commit(h)
  <2>1. job' \in JobStatuses /\ rows' \subseteq Outputs
    BY <1>4 DEF Commit, JobAfter, Assign, TypeOK, JobStatuses, Outputs
  <2>2. stage' \in [Stages -> Statuses]
    BY <1>0, <1>4 DEF Commit, StageAfter, Assign, TypeOK, Statuses
  <2>3. claims' \subseteq Events \X WorkerNames
    BY <1>0, <1>4 DEF Commit, ClaimName, TypeOK, WorkerNames, Hops, Line
  <2>4. TypeOK'
    BY <1>0, <1>4, <2>1, <2>2, <2>3, LeaveType DEF Commit, TypeOK, msgVars, faultVars
  <2>. QED BY <1>0, <1>4, <2>4, LeaveTyped DEF Commit
<1>5. CASE Publish(h)
  <2>1. TypeOK'
    BY <1>0, <1>5, LeaveType, DeliverType DEF Publish, TypeOK, dbVars, faultVars
  <2>. QED BY <1>0, <1>5, <2>1, LeaveTyped DEF Publish
<1>6. CASE PublishFails(h)
  <2>1. queue' \in [Events -> Nat] /\ dead' \in [Events -> Nat]
    BY <1>0, <1>6, ReturnType, DeliverType DEF PublishFails
  <2>2. spent' \subseteq Faults /\ left' \in 0..MaxFaults
    BY <1>6, SpendType DEF PublishFails
  <2>3. TypeOK'
    BY <1>0, <1>6, <2>1, <2>2, LeaveType DEF PublishFails, TypeOK
  <2>. QED BY <1>0, <1>6, <2>3, LeaveTyped DEF PublishFails
<1>7. CASE FailTransiently(h)
  <2>1. queue' \in [Events -> Nat] /\ dead' \in [Events -> Nat]
    BY <1>0, <1>7, ReturnType DEF FailTransiently, Return, TypeOK
  <2>2. TypeOK'
    BY <1>0, <1>7, <2>1, LeaveType, SpendType DEF FailTransiently, TypeOK, dbVars
  <2>. QED BY <1>0, <1>7, <2>2, LeaveTyped DEF FailTransiently
<1>8. CASE FailTerminally(h)
  <2>1. CASE Leave(h, "idle") /\ (UNCHANGED msgVars \/ Return(h))
    <3>1. queue' \in [Events -> Nat] /\ dead' \in [Events -> Nat]
      BY <1>0, <2>1, ReturnType DEF Return, TypeOK, msgVars
    <3>2. TypeOK'
      BY <1>0, <1>8, <2>1, <3>1, LeaveType, SpendType
      DEF FailTerminally, TypeOK, dbVars, msgVars
    <3>. QED BY <1>0, <1>8, <2>1, <3>2, LeaveTyped DEF FailTerminally
  <2>2. CASE /\ pc' = [pc EXCEPT ![h] = "record"]
             /\ locked' = [locked EXCEPT ![h] = 0]
             /\ Load(h, h)
             /\ UNCHANGED <<msgVars, lastTasks>>
    <3>1. TypeOK'
      <4>1. pc' \in [Procs -> Places] /\ locked' \in [Procs -> 0..2]
        <5>1. "record" \in Places /\ 0 \in 0..2
          BY DEF Places
        <5>. QED BY <2>2, <5>1 DEF TypeOK
      <4>2. loaded' \in [Procs -> [job : JobStatuses, stage : Statuses]]
        BY <1>0, <2>2, LoadType
      <4>. QED BY <1>8, <2>2, <4>1, <4>2, SpendType
           DEF FailTerminally, TypeOK, dbVars, msgVars
    <3>2. /\ locked'[h] = 0
          /\ \A q \in Procs \ {h} : /\ pc'[q] = pc[q]
                                    /\ loaded'[q] = loaded[q]
                                    /\ locked'[q] = locked[q]
      BY <1>0, <2>2 DEF Load, TypeOK
    <3>. QED BY <1>0, <1>8, <2>2, <3>1, <3>2, OthersKeepLocks DEF FailTerminally
  <2>. QED BY <1>8, <2>1, <2>2 DEF FailTerminally
<1>9. CASE Record(h) \/ RecordFails(h)
  BY <1>0, <1>9, RecordTyped
<1>10. CASE h \in Tasks /\ Count(h)
  <2>1. TypeOK'
    BY <1>0, <1>10 DEF Count, TypeOK, Places, msgVars, dbVars, faultVars
  <2>2. LockOrder(h) = <<>>
    BY <1>0, <1>10, LockOrderShape, Names DEF Count
  <2>3. locked'[h] = 0
    BY <1>0, <1>10, <2>2, IdleHoldsNothing DEF Count
  <2>4. \A q \in Procs \ {h} : /\ pc'[q] = pc[q] /\ loaded'[q] = loaded[q]
                               /\ q \in lastTasks' <=> q \in lastTasks
    BY <1>10 DEF Count, TypeOK
  <2>. QED BY <1>0, <1>10, <2>1, <2>3, <2>4, OthersKeepLocks DEF Count
<1>. QED BY <1>1, <1>2, <1>3, <1>4, <1>5, <1>6, <1>7, <1>8, <1>9, <1>10 DEF Work

(* The DLQ worker takes an event.                                          *)
LEMMA TakeDeadTyped ==
    ASSUME Typed, NEW e \in Events, TakeDead(e)
    PROVE  Typed'
<1>. USE DEF Typed
<1>0. "dlq" \in Procs
  BY Names
<1>1. dead' \in [Events -> Nat]
  BY DEF TakeDead, TypeOK
<1>2. /\ pc' \in [Procs -> Places]
      /\ loaded' \in [Procs -> [job : JobStatuses, stage : Statuses]]
      /\ dlqItem' \in Events
  BY <1>0, LoadType DEF TakeDead, TypeOK, Places
<1>3. TypeOK'
  BY <1>1, <1>2 DEF TakeDead, TypeOK, dbVars, faultVars
<1>4. locked' = locked /\ locked["dlq"] = 0
  BY <1>0, IdleHoldsNothing, LockOrderShape DEF TakeDead
<1>5. \A q \in Procs \ {"dlq"} : pc'[q] = pc[q] /\ loaded'[q] = loaded[q]
  BY DEF TakeDead, Load, TypeOK
<1>. QED BY <1>0, <1>3, <1>4, <1>5, OthersKeepLocks DEF TakeDead

(* A worker dies with its transaction.                                     *)
LEMMA CrashTyped ==
    ASSUME Typed, NEW p \in Procs, Crash(p)
    PROVE  Typed'
<1>1. queue' \in [Events -> Nat] /\ dead' \in [Events -> Nat]
  BY ReturnType, DeliverType DEF Typed, TypeOK, Crash, Return
<1>2. TypeOK'
  BY <1>1, SpendType, LeaveType DEF Typed, TypeOK, Crash, dbVars
<1>. QED BY <1>2, LeaveTyped DEF Crash

(* Another copy of an event appears.                                       *)
LEMMA CopyTyped ==
    ASSUME Typed, NEW e \in Events, Duplicate(e) \/ Redrive(e)
    PROVE  Typed'
<1>1. queue' \in [Events -> Nat] /\ dead' \in [Events -> Nat]
  BY DEF Typed, TypeOK, Duplicate, Redrive
<1>2. TypeOK'
  BY <1>1, SpendType DEF Typed, TypeOK, Duplicate, Redrive, txVars, dbVars
<1>3. UNCHANGED txVars
  BY DEF Duplicate, Redrive
<1>4. \A p \in Procs : LockOrder(p)' = LockOrder(p)
  BY <1>3 DEF txVars, LockOrder, Item
<1>. QED BY <1>2, <1>3, <1>4 DEF Typed, LocksBounded, txVars

(* Every step keeps it.                                                    *)
LEMMA StepTyped == Typed /\ [Next]_vars => Typed'
<1>. SUFFICES ASSUME Typed, [Next]_vars PROVE Typed'
  OBVIOUS
<1>0. "dlq" \in Procs
  BY Names
<1>1. ASSUME NEW h \in Hops, Work(h) PROVE Typed'
  BY <1>1, WorkTyped
<1>2. CASE WorkDlq
  BY <1>0, <1>2, TakeDeadTyped, LockTyped, RecordTyped DEF WorkDlq
<1>3. ASSUME NEW p \in Procs, DeadlockAbort(p) \/ Crash(p) PROVE Typed'
  BY <1>3, DeadlockAbortTyped, CrashTyped
<1>4. ASSUME NEW e \in Events, Duplicate(e) \/ Redrive(e) PROVE Typed'
  BY <1>4, CopyTyped
<1>5. CASE UNCHANGED vars
  <2>. USE <1>5 DEF vars, msgVars, txVars, dbVars, faultVars
  <2>1. TypeOK'
    BY DEF Typed, TypeOK
  <2>2. \A p \in Procs : LockOrder(p)' = LockOrder(p)
    BY DEF LockOrder, Item
  <2>. QED BY <2>1, <2>2 DEF Typed, LocksBounded
<1>. QED BY <1>1, <1>2, <1>3, <1>4, <1>5 DEF Next, Terminated

(* Every behaviour keeps to the types, and no transaction takes more locks *)
(* than its statements ask for.                                            *)
THEOREM TypeCorrect == Spec => []TypeOK
<1>1. Spec => []Typed
  BY InitTyped, StepTyped, PTL DEF Spec
<1>2. Typed => TypeOK
  BY DEF Typed
<1>. QED BY <1>1, <1>2, PTL

-----------------------------------------------------------------------------
(* A transaction that is waited for and itself waits holds one lock and    *)
(* waits for a second.  Unless it is intake's, the second is the job's row *)
(* and the first is not, so two of these do not wait for each other.       *)
LEMMA HalfLocked ==
    ASSUME Typed, NEW p \in Procs, NEW q \in Procs, Waits(p, q), Waits(q, p)
    PROVE  locked[p] = 1 /\ Len(LockOrder(p)) = 2
<1>. USE DEF Typed
<1>1. PICK i \in 1..locked[p] : LockOrder(p)[i] = LockOrder(q)[locked[q] + 1]
  BY DEF Waits, Holds
<1>2. locked[p] \in 0..2 /\ locked[p] <= Len(LockOrder(p)) /\ locked[p] # Len(LockOrder(p))
  BY DEF TypeOK, LocksBounded, Waits, AllLocked
<1>3. Len(LockOrder(p)) \in 0..2
  BY LockOrderLength DEF TwoLocks
<1>4. locked[p] # 0
  BY <1>1, <1>2
<1>. QED BY <1>2, <1>3, <1>4, NextLock

(* The two halves.                                                         *)
LEMMA TypedOnlyIntakeDeadlocks == Typed => OnlyIntakeDeadlocks
<1>. SUFFICES ASSUME Typed, NEW p \in Procs, NEW q \in Procs,
                     p # "intake", q # "intake", Waits(p, q), Waits(q, p)
              PROVE  FALSE
  BY DEF OnlyIntakeDeadlocks, InTx
<1>1. /\ locked[p] = 1 /\ Len(LockOrder(p)) = 2
      /\ locked[q] = 1 /\ Len(LockOrder(q)) = 2
  BY HalfLocked
<1>2. ASSUME NEW r \in Procs, r # "intake", Len(LockOrder(r)) = 2
      PROVE  LockOrder(r)[2] = "job" /\ LockOrder(r)[1] # "job"
  <2>1. pc[r] \in {"idle", "tx", "counted", "publish", "record"} /\ StageOf[Item(r)] # "job"
    BY Items, StagesOf DEF Typed, TypeOK, Places
  <2>2. LockOrder(r) # <<>> /\ \A x : LockOrder(r) # <<x>>
    <3>1. Len(<<>>) # 2 /\ \A x : Len(<<x>>) # 2
      OBVIOUS
    <3>. QED BY <1>2, <3>1
  <2>3. \/ LockOrder(r) = <<StageOf[Item(r)], "job">>
        \/ LockOrder(r) = <<"export", "job">>
    BY <1>2, <2>1, <2>2, LockOrderShape DEF Typed
  <2>. QED BY <2>1, <2>3
<1>3. Holds(p, LockOrder(q)[2])
  BY <1>1 DEF Waits
<1>4. PICK i \in 1..1 : LockOrder(p)[i] = LockOrder(q)[2]
  BY <1>1, <1>3 DEF Holds
<1>. QED BY <1>1, <1>2, <1>4

(* Postgres has to break up two transactions only if one is intake's, the  *)
(* only handler that may lock the job before its stage.                    *)
THEOREM DeadlocksAreIntakes == Spec => []OnlyIntakeDeadlocks
<1>1. Spec => []Typed
  BY InitTyped, StepTyped, PTL DEF Spec
<1>. QED BY <1>1, TypedOnlyIntakeDeadlocks, PTL

-----------------------------------------------------------------------------
(* The outputs each event needs.                                           *)
LEMMA Upstreams ==
    /\ Upstream["intake"] = {} /\ Upstream["preprocessing"] = {"intake"}
    /\ Upstream["planning"] = {"intake", "preprocessing"}
    /\ Upstream["fanout"] = {"intake", "preprocessing", "planning"}
    /\ \A t \in Tasks : Upstream[t] = {"intake", "preprocessing", "planning"}
    /\ \A t \in Tasks : Upstream[Completion[t]] = {"intake", "preprocessing", "planning", t}
    /\ Upstream["export"] = {"intake", "preprocessing", "planning"} \cup Tasks
    /\ Outputs = Upstream["export"] \cup {"export"}
<1>0. Line \subseteq Events /\ Tasks \subseteq Events /\ Dones \subseteq Events
  BY Names
<1>1. /\ Upstream["intake"] = {} /\ Upstream["preprocessing"] = {"intake"}
      /\ Upstream["planning"] = {"intake", "preprocessing"}
      /\ Upstream["fanout"] = {"intake", "preprocessing", "planning"}
      /\ Upstream["export"] = Outputs \ {"export"}
  BY <1>0, Names DEF Upstream, Line
<1>2. \A t \in Tasks : Upstream[t] = {"intake", "preprocessing", "planning"}
  BY <1>0, Names DEF Upstream, Line
<1>3. ASSUME NEW t \in Tasks
      PROVE  Upstream[Completion[t]] = {"intake", "preprocessing", "planning", t}
  <2>1. Completion[t] \in Dones
    BY DEF Dones
  <2>2. Completion[t] \notin Hops
    BY <2>1, Names
  <2>3. {u \in Tasks : Completion[u] = Completion[t]} = {t}
    BY TasksAssumption
  <2>4. Upstream[Completion[t]] = {"intake", "preprocessing", "planning"}
                                      \cup {u \in Tasks : Completion[u] = Completion[t]}
    BY <1>0, <2>1, <2>2 DEF Upstream, Hops, Line
  <2>. QED BY <2>3, <2>4
<1>4. Outputs = {"intake", "preprocessing", "planning", "export"} \cup Tasks
  BY Names DEF Outputs, Hops, Line
<1>5. "export" \notin Tasks
  BY Names DEF Line
<1>. QED BY <1>1, <1>2, <1>3, <1>4, <1>5

(* What a worker announces is stored, and a task that takes itself for the *)
(* last one is: between a commit and its acknowledgement no rollback,      *)
(* redelivery or failure record takes a row away.                          *)
Announced == \A h \in Hops \ {"fanout"} : pc[h] = "publish" => h \in rows
LastCounted ==
    \A t \in lastTasks :
        \/ pc[t] = "counted" /\ Tasks \subseteq rows \cup {t}
        \/ pc[t] = "publish" /\ Tasks \subseteq rows

ChainInv == Typed /\ ChainSound /\ Announced /\ LastCounted /\ CompletedSound

(* It holds initially.                                                     *)
LEMMA InitChain == Init => ChainInv
<1>. SUFFICES ASSUME Init PROVE ChainInv
  OBVIOUS
<1>1. Typed
  BY InitTyped
<1>2. \A p \in Procs : pc[p] = "idle"
  BY DEF Init
<1>3. ASSUME NEW e \in Events, InHand(e) PROVE e = "intake"
  BY <1>2, <1>3, Names DEF InHand, Init
<1>4. ChainSound
  BY <1>3, Upstreams DEF ChainSound
<1>5. Announced /\ LastCounted /\ CompletedSound
  BY <1>2, Names DEF Announced, LastCounted, CompletedSound, Init
<1>. QED BY <1>1, <1>4, <1>5 DEF ChainInv

(* A step that creates no event, announces nothing, takes no row away,     *)
(* makes no task the last one and completes no job.                        *)
LEMMA ChainKept ==
    ASSUME ChainInv, Typed', rows \subseteq rows',
           \A e \in Events : InHand(e)' => InHand(e),
           \A h \in Hops : pc'[h] = "publish" => pc[h] = "publish",
           \A t \in lastTasks' : t \in lastTasks /\ pc'[t] = pc[t],
           job' = "completed" => job = "completed"
    PROVE  ChainInv'
<1>1. rows' \subseteq Outputs
  BY DEF Typed, TypeOK
<1>2. ChainSound' /\ Announced' /\ CompletedSound'
  BY <1>1 DEF ChainInv, ChainSound, Announced, CompletedSound
<1>3. LastCounted'
  BY DEF ChainInv, LastCounted
<1>. QED BY <1>2, <1>3 DEF ChainInv

(* The returned message was in the worker's hands.                         *)
LEMMA ReturnedInHand ==
    ASSUME Typed, NEW p \in Procs, pc[p] # "idle", Return(p)
    PROVE  \A e \in Events : queue'[e] > 0 \/ dead'[e] > 0 => InHand(e)
<1>. SUFFICES ASSUME NEW e \in Events, queue'[e] > 0 \/ dead'[e] > 0 PROVE InHand(e)
  OBVIOUS
<1>1. CASE e = Item(p)
  BY <1>1, Names DEF InHand, Item
<1>2. CASE e # Item(p)
  <2>1. queue'[e] = queue[e] /\ dead'[e] = dead[e]
    BY <1>2 DEF Return, ReturnInto, Typed, TypeOK
  <2>. QED BY <2>1 DEF InHand
<1>. QED BY <1>1, <1>2

(* So it was if some of what the worker announces got through before.      *)
LEMMA SentInHand ==
    ASSUME Typed, NEW p \in Procs, pc[p] # "idle", NEW n,
           \/ ReturnInto(Deliver(p, n), p)
           \/ queue' = Deliver(p, n) /\ UNCHANGED dead
    PROVE  \A e \in Events : queue'[e] > 0 \/ dead'[e] > 0 => InHand(e) \/ e \in Sent(p, n)
<1>. SUFFICES ASSUME NEW e \in Events, queue'[e] > 0 \/ dead'[e] > 0, e \notin Sent(p, n)
              PROVE  InHand(e)
  OBVIOUS
<1>1. Deliver(p, n)[e] = queue[e] /\ Deliver(p, n) \in [Events -> Nat]
  BY DeliverType DEF Deliver, Typed
<1>2. CASE e = Item(p)
  <2>1. CASE ReturnInto(Deliver(p, n), p)
    BY <1>2, Names DEF InHand, Item
  <2>2. CASE queue' = Deliver(p, n) /\ UNCHANGED dead
    BY <1>1, <2>2 DEF InHand
  <2>. QED BY <2>1, <2>2
<1>3. CASE e # Item(p)
  <2>1. queue'[e] = queue[e] /\ dead'[e] = dead[e]
    BY <1>1, <1>3 DEF ReturnInto, Typed, TypeOK
  <2>. QED BY <2>1 DEF InHand
<1>. QED BY <1>2, <1>3

(* Whatever part of its events a hop publishes, what they need is stored:  *)
(* what the hop needed, its own output, and of the last task all batches.  *)
LEMMA SentSound ==
    ASSUME ChainInv, NEW h \in Hops, pc[h] = "publish",
           NEW n \in Nat, n <= Len(Outbox(h)), NEW e \in Events, e \in Sent(h, n)
    PROVE  Upstream[e] \subseteq rows
<1>1. Upstream[h] \subseteq rows
  BY Names DEF ChainInv, ChainSound, InHand
<1>2. h # "fanout" => h \in rows
  BY DEF ChainInv, Announced
<1>3. PICK i \in 1..n : e = Outbox(h)[i]
  BY DEF Sent
<1>4. h \in Line \/ h \in Tasks
  BY DEF Hops
<1>5. CASE h = "intake"
  <2>1. Outbox(h) = <<"preprocessing">>
    BY <1>5, Names DEF Outbox, Line
  <2>2. e = "preprocessing"
    BY <1>3, <2>1
  <2>. QED BY <1>1, <1>2, <1>5, <2>2, Upstreams
<1>6. CASE h = "preprocessing"
  <2>1. Outbox(h) = <<"planning">>
    BY <1>6, Names DEF Outbox, Line
  <2>2. e = "planning"
    BY <1>3, <2>1
  <2>. QED BY <1>1, <1>2, <1>6, <2>2, Upstreams
<1>7. CASE h = "planning"
  <2>1. Outbox(h) = <<"fanout">>
    BY <1>7, Names DEF Outbox, Line
  <2>2. e = "fanout"
    BY <1>3, <2>1
  <2>. QED BY <1>1, <1>2, <1>7, <2>2, Upstreams
<1>8. CASE h = "fanout"
  <2>1. Outbox(h) = TaskIds
    BY <1>8, Names DEF Outbox, Line
  <2>2. i \in DOMAIN TaskIds
    BY <2>1, TasksAssumption
  <2>3. e \in Tasks
    BY <1>3, <2>1, <2>2 DEF Tasks
  <2>. QED BY <1>1, <1>8, <2>3, Upstreams
<1>9. CASE h \in Tasks
  <2>0. h # "intake" /\ h # "preprocessing" /\ h # "planning" /\ h # "fanout"
    BY <1>9, Names DEF Line
  <2>1. Upstream[h] = {"intake", "preprocessing", "planning"} /\ h \in rows
    BY <1>2, <1>9, Names, Upstreams DEF Line
  <2>2. CASE e = Completion[h]
    BY <1>1, <1>9, <2>1, <2>2, Upstreams
  <2>3. CASE h \notin lastTasks
    <3>1. Outbox(h) = <<Completion[h]>>
      BY <1>9, <2>0, <2>3 DEF Outbox
    <3>2. e = Completion[h]
      BY <1>3, <3>1
    <3>. QED BY <2>2, <3>2
  <2>4. CASE h \in lastTasks
    <3>1. Outbox(h) = <<Completion[h], "export">>
      BY <1>9, <2>0, <2>4 DEF Outbox
    <3>2. e = Completion[h] \/ e = "export"
      BY <1>3, <3>1
    <3>3. Tasks \subseteq rows
      BY <2>4 DEF ChainInv, LastCounted
    <3>. QED BY <1>1, <2>1, <2>2, <3>2, <3>3, Upstreams
  <2>. QED BY <2>3, <2>4
<1>10. CASE h = "export"
  <2>1. Outbox(h) = <<"export.completed">>
    BY <1>10, Names DEF Outbox, Line
  <2>2. e = "export.completed"
    BY <1>3, <2>1
  <2>3. e \notin Events
    BY <2>2, TasksAssumption DEF Events, Hops, Line
  <2>. QED BY <2>3
<1>. QED BY <1>4, <1>5, <1>6, <1>7, <1>8, <1>9, <1>10 DEF Line

(* A step that ends a worker's handling and creates events whose inputs    *)
(* are stored.                                                             *)
LEMMA ChainSent ==
    ASSUME ChainInv, Typed', NEW p \in Procs, pc[p] # "idle", Leave(p, "idle"),
           UNCHANGED <<dlqItem, rows, job>>,
           \A e \in Events : queue'[e] > 0 \/ dead'[e] > 0 => InHand(e) \/ Upstream[e] \subseteq rows
    PROVE  ChainInv'
<1>1. pc' = [pc EXCEPT ![p] = "idle"] /\ lastTasks' = lastTasks \ {p}
  BY DEF Leave
<1>2. \A q \in Procs : pc'[q] = IF q = p THEN "idle" ELSE pc[q]
  BY <1>1 DEF ChainInv, Typed, TypeOK
<1>3. \A e \in Events : InHand(e)' => InHand(e) \/ Upstream[e] \subseteq rows
  BY <1>2, Names DEF InHand
<1>4. ChainSound'
  BY <1>3 DEF ChainInv, ChainSound
<1>5. Announced' /\ CompletedSound'
  BY <1>2, Names DEF ChainInv, Announced, CompletedSound
<1>6. LastCounted'
  <2>1. lastTasks \subseteq Procs
    BY Names DEF ChainInv, Typed, TypeOK
  <2>. QED BY <1>1, <1>2, <2>1 DEF ChainInv, LastCounted
<1>. QED BY <1>4, <1>5, <1>6 DEF ChainInv

(* Failing and recording a failure only give messages back.                *)
LEMMA FailureChain ==
    ASSUME ChainInv, Typed', NEW p \in Procs,
           \/ p \in Hops /\ (FailTransiently(p) \/ FailTerminally(p))
           \/ Record(p) \/ RecordFails(p) \/ DeadlockAbort(p)
    PROVE  ChainInv'
<1>. USE DEF ChainInv
<1>1. pc[p] # "idle"
  BY DEF FailTransiently, FailTerminally, Record, RecordFails, DeadlockAbort, InTx
<1>2. UNCHANGED msgVars \/ Return(p)
  BY DEF FailTransiently, FailTerminally, Record, RecordFails, DeadlockAbort
<1>3. \/ pc' = [pc EXCEPT ![p] = "idle"] /\ lastTasks' = lastTasks \ {p}
      \/ pc[p] = "tx" /\ pc' = [pc EXCEPT ![p] = "record"] /\ lastTasks' = lastTasks
  BY DEF FailTransiently, FailTerminally, Record, RecordFails, DeadlockAbort, Leave
<1>4. UNCHANGED <<dlqItem, rows>>
  BY DEF FailTransiently, FailTerminally, Record, RecordFails, DeadlockAbort, dbVars
<1>5. job' = job \/ job' = "failed"
  BY DEF FailTransiently, FailTerminally, Record, RecordFails, DeadlockAbort, dbVars,
         MarkFailed
<1>6. \A e \in Events : InHand(e)' => InHand(e)
  <2>1. \A e \in Events : queue'[e] > 0 \/ dead'[e] > 0 => InHand(e)
    BY <1>1, <1>2, ReturnedInHand DEF msgVars, InHand
  <2>2. \A q \in Procs : pc'[q] # "idle" => pc[q] # "idle"
    BY <1>1, <1>3 DEF Typed, TypeOK
  <2>. QED BY <1>4, <2>1, <2>2, Names DEF InHand
<1>7. \A h \in Hops : pc'[h] = "publish" => pc[h] = "publish"
  BY <1>3, Names DEF Typed, TypeOK
<1>8. \A t \in lastTasks' : t \in lastTasks /\ pc'[t] = pc[t]
  <2>1. lastTasks \subseteq Procs
    BY Names DEF Typed, TypeOK
  <2>2. pc[p] = "tx" => p \notin lastTasks
    BY DEF LastCounted
  <2>. QED BY <1>3, <2>1, <2>2 DEF Typed, TypeOK
<1>. QED BY <1>4, <1>5, <1>6, <1>7, <1>8, ChainKept

(* The commit of a hop: its output is stored, and with the last task's all *)
(* batches are.                                                            *)
LEMMA CommitChain ==
    ASSUME ChainInv, Typed', NEW h \in Hops, Commit(h)
    PROVE  ChainInv'
<1>. USE DEF ChainInv
<1>0. h \in Procs
  BY Names
<1>1. /\ pc[h] = (IF h \in Tasks THEN "counted" ELSE "tx") /\ pc[h] # "idle"
      /\ pc' = [pc EXCEPT ![h] = "publish"]
      /\ lastTasks' = lastTasks /\ UNCHANGED <<queue, dead, dlqItem>>
  BY DEF Commit, Leave, msgVars
<1>2. \A k \in Procs : pc'[k] = IF k = h THEN "publish" ELSE pc[k]
  BY <1>1 DEF Typed, TypeOK
<1>3. \A e \in Events : InHand(e)' => InHand(e)
  BY <1>1, <1>2, Names DEF InHand
<1>4. /\ rows' = IF h = "fanout" THEN rows ELSE rows \cup {h}
      /\ rows \subseteq rows' /\ rows' \subseteq Outputs
  BY DEF Commit, Typed, TypeOK
<1>5. ChainSound'
  BY <1>3, <1>4 DEF ChainSound
<1>6. Announced'
  BY <1>2, <1>4, Names DEF Announced
<1>7. LastCounted'
  <2>. SUFFICES ASSUME NEW t \in lastTasks
                PROVE  \/ pc'[t] = "counted" /\ Tasks \subseteq rows' \cup {t}
                       \/ pc'[t] = "publish" /\ Tasks \subseteq rows'
    BY <1>1 DEF LastCounted
  <2>1. t \in Tasks /\ t \in Procs /\ t # "fanout"
    BY Names DEF Typed, TypeOK, Line
  <2>. QED BY <1>2, <1>4, <2>1 DEF LastCounted
<1>8. CompletedSound'
  <2>1. CASE h = "export"
    <3>1. Upstream[h] \subseteq rows
      BY <1>1, Names DEF ChainSound, InHand
    <3>2. rows' = rows \cup {"export"}
      BY <1>4, <2>1
    <3>. QED BY <1>4, <2>1, <3>1, <3>2, Upstreams DEF CompletedSound
  <2>2. CASE h # "export"
    <3>1. job' = "completed" => job = "completed"
      BY <2>2 DEF Commit, JobAfter, Assign
    <3>. QED BY <1>4, <3>1 DEF CompletedSound, Typed, TypeOK
  <2>. QED BY <2>1, <2>2
<1>. QED BY <1>5, <1>6, <1>7, <1>8

(* The steps of a stage worker.                                            *)
LEMMA WorkChain ==
    ASSUME ChainInv, Typed', NEW h \in Hops, Work(h)
    PROVE  ChainInv'
<1>. USE DEF ChainInv
<1>0. h \in Procs /\ h # "dlq" /\ h \in Events /\ Hops \subseteq Procs
  BY Names
<1>1. CASE Take(h)
  <2>1. /\ \A k \in Procs \ {h} : pc'[k] = pc[k]
        /\ \A e \in Events \ {h} : queue'[e] = queue[e]
    BY <1>1 DEF Take, Typed, TypeOK
  <2>2. pc'[h] # "publish" /\ InHand(h) /\ pc'["dlq"] = pc["dlq"] /\ h \notin lastTasks
    BY <1>0, <1>1, <2>1, Names DEF Take, Typed, TypeOK, InHand, LastCounted
  <2>3. \A e \in Events : InHand(e)' => InHand(e)
    BY <1>0, <1>1, <2>1, <2>2 DEF Take, InHand
  <2>4. \A t \in lastTasks' : t \in lastTasks /\ pc'[t] = pc[t]
    BY <1>0, <1>1, <2>1, <2>2, Names DEF Take, Typed, TypeOK
  <2>5. \A k \in Hops : pc'[k] = "publish" => pc[k] = "publish"
    BY <1>0, <2>1, <2>2
  <2>6. UNCHANGED <<rows, job>>
    BY <1>1 DEF Take, dbVars
  <2>. QED BY <2>3, <2>4, <2>5, <2>6, ChainKept
<1>2. CASE Lock(h)
  BY <1>2, ChainKept DEF Lock, InHand, msgVars, dbVars
<1>3. CASE Commit(h)
  BY <1>3, CommitChain
<1>4. CASE Publish(h) \/ PublishFails(h)
  <2>1. pc[h] = "publish" /\ Leave(h, "idle") /\ UNCHANGED <<dlqItem, rows, job>>
    BY <1>4 DEF Publish, PublishFails, dbVars
  <2>2. PICK n \in Nat : /\ n <= Len(Outbox(h))
                         /\ \/ ReturnInto(Deliver(h, n), h)
                            \/ queue' = Deliver(h, n) /\ UNCHANGED dead
    <3>1. Len(Outbox(h)) \in Nat
      BY TasksAssumption DEF Outbox
    <3>2. CASE Publish(h)
      BY <3>1, <3>2 DEF Publish
    <3>3. CASE PublishFails(h)
      <4>1. PICK m \in 1..Len(Outbox(h)) : \/ ReturnInto(Deliver(h, m - 1), h)
                                           \/ ReturnInto(Deliver(h, m), h)
        BY <3>3 DEF PublishFails
      <4>2. m \in Nat /\ m - 1 \in Nat /\ m <= Len(Outbox(h)) /\ m - 1 <= Len(Outbox(h))
        BY <3>1
      <4>. QED BY <4>1, <4>2
    <3>. QED BY <1>4, <3>2, <3>3
  <2>3. \A e \in Events : queue'[e] > 0 \/ dead'[e] > 0 => InHand(e) \/ e \in Sent(h, n)
    BY <1>0, <2>1, <2>2, SentInHand
  <2>4. \A e \in Events : e \in Sent(h, n) => Upstream[e] \subseteq rows
    BY <2>1, <2>2, SentSound
  <2>. QED BY <1>0, <2>1, <2>3, <2>4, ChainSent
<1>5. CASE FailTransiently(h) \/ FailTerminally(h) \/ Record(h) \/ RecordFails(h)
  BY <1>0, <1>5, FailureChain
<1>6. CASE h \in Tasks /\ Count(h)
  <2>1. /\ \A k \in Procs : pc'[k] = IF k = h THEN "counted" ELSE pc[k]
        /\ pc[h] = "tx" /\ UNCHANGED <<queue, dead, dlqItem, rows, job>>
    BY <1>6 DEF Count, Typed, TypeOK, msgVars, dbVars
  <2>2. ChainSound'
    <3>1. \A e \in Events : InHand(e)' => InHand(e)
      BY <1>0, <2>1, Names DEF InHand
    <3>. QED BY <2>1, <3>1 DEF ChainSound
  <2>3. Announced' /\ CompletedSound'
    BY <1>0, <2>1 DEF Announced, CompletedSound
  <2>4. LastCounted'
    <3>1. lastTasks \subseteq Procs
      BY Names DEF Typed, TypeOK
    <3>2. lastTasks' = lastTasks \/ (lastTasks' = lastTasks \cup {h} /\ Tasks \subseteq rows \cup {h})
      BY <1>6 DEF Count
    <3>3. h \notin lastTasks
      BY <2>1 DEF LastCounted
    <3>. QED BY <1>0, <2>1, <3>1, <3>2, <3>3 DEF LastCounted
  <2>. QED BY <2>2, <2>3, <2>4
<1>7. CASE \E d \in Dones : Skip(d)
  <2>1. PICK d \in Dones : Skip(d)
    BY <1>7
  <2>2. \A e \in Events : queue'[e] > 0 => queue[e] > 0
    BY <2>1, Names DEF Skip, Typed, TypeOK
  <2>. QED BY <2>1, <2>2, ChainKept DEF Skip, txVars, dbVars, InHand
<1>. QED BY <1>1, <1>2, <1>3, <1>4, <1>5, <1>6, <1>7 DEF Work

(* Every step of every worker and of the surroundings.                     *)
LEMMA StepChain == ChainInv /\ [Next]_vars => ChainInv'
<1>. SUFFICES ASSUME ChainInv, [Next]_vars PROVE ChainInv'
  OBVIOUS
<1>0. Typed'
  BY StepTyped DEF ChainInv
<1>1. ASSUME NEW h \in Hops, Work(h) PROVE ChainInv'
  BY <1>0, <1>1, WorkChain
<1>2. ASSUME NEW c \in Events, Duplicate(c) \/ Redrive(c) PROVE ChainInv'
  <2>1. \A e \in Events : InHand(e)' => InHand(e)
    BY <1>2 DEF Duplicate, Redrive, InHand, txVars, ChainInv, Typed, TypeOK
  <2>. QED BY <1>0, <1>2, <2>1, ChainKept DEF Duplicate, Redrive, txVars, dbVars
<1>3. ASSUME NEW c \in Events, TakeDead(c) PROVE ChainInv'
  <2>1. \A e \in Events : InHand(e)' => InHand(e)
    <3>1. /\ \A k \in Procs \ {"dlq"} : pc'[k] = pc[k]
          /\ \A e \in Events : dead'[e] > 0 => dead[e] > 0
          /\ queue' = queue
          /\ pc["dlq"] = "idle"
          /\ pc'["dlq"] # "idle" => dlqItem' = c
          /\ InHand(c)
      BY <1>3 DEF TakeDead, InHand, ChainInv, Typed, TypeOK
    <3>. QED BY <3>1, Names DEF InHand
  <2>2. \A h \in Hops : pc'[h] = pc[h]
    BY <1>3, Names DEF TakeDead, ChainInv, Typed, TypeOK
  <2>3. \A t \in lastTasks' : t \in lastTasks /\ pc'[t] = pc[t]
    BY <1>3, <2>2, Names DEF TakeDead, ChainInv, Typed, TypeOK
  <2>. QED BY <1>0, <1>3, <2>1, <2>2, <2>3, ChainKept DEF TakeDead, dbVars
<1>4. CASE Lock("dlq")
  BY <1>0, <1>4, ChainKept DEF Lock, InHand, msgVars, dbVars
<1>5. CASE Record("dlq") \/ RecordFails("dlq")
  BY <1>0, <1>5, FailureChain, Names
<1>6. ASSUME NEW p \in Procs, DeadlockAbort(p) \/ Crash(p) PROVE ChainInv'
  <2>1. CASE DeadlockAbort(p)
    BY <1>0, <2>1, FailureChain
  <2>2. CASE Crash(p)
    <3>1. pc[p] # "idle" /\ Leave(p, "idle") /\ UNCHANGED <<dlqItem, rows, job>>
      BY <2>2 DEF Crash, dbVars
    <3>2. CASE Return(p)
      BY <1>0, <3>1, <3>2, ReturnedInHand, ChainSent DEF ChainInv
    <3>3. CASE /\ p \in Hops /\ pc[p] = "publish"
               /\ \E n \in 1..Len(Outbox(p)) : ReturnInto(Deliver(p, n), p)
      <4>1. PICK n \in 1..Len(Outbox(p)) : ReturnInto(Deliver(p, n), p)
        BY <3>3
      <4>2. Len(Outbox(p)) \in Nat
        BY TasksAssumption DEF Outbox
      <4>3. n \in Nat /\ n <= Len(Outbox(p))
        BY <4>1, <4>2
      <4>4. \A e \in Events : queue'[e] > 0 \/ dead'[e] > 0 => InHand(e) \/ e \in Sent(p, n)
        BY <3>1, <4>1, SentInHand DEF ChainInv
      <4>5. \A e \in Events : e \in Sent(p, n) => Upstream[e] \subseteq rows
        BY <3>3, <4>3, SentSound
      <4>. QED BY <1>0, <3>1, <4>4, <4>5, ChainSent
    <3>. QED BY <2>2, <3>2, <3>3 DEF Crash
  <2>. QED BY <1>6, <2>1, <2>2
<1>7. CASE UNCHANGED vars
  BY <1>0, <1>7, ChainKept DEF vars, msgVars, txVars, dbVars, InHand
<1>. QED BY <1>1, <1>2, <1>3, <1>4, <1>5, <1>6, <1>7 DEF Next, WorkDlq, Terminated

(* The chain holds throughout.                                             *)
LEMMA ChainHolds == Spec => []ChainInv
BY InitChain, StepChain, PTL DEF Spec

(* Under every fault, no handler is woken before what the stages ahead of  *)
(* it had to store is stored, and export not before every batch is.        *)
THEOREM ChainIsSound == Spec => []ChainSound
<1>1. ChainInv => ChainSound
  BY DEF ChainInv
<1>. QED BY <1>1, ChainHolds, PTL

(* A job shown as completed has the output of every stage and every task.  *)
THEOREM CompletedIsSound == Spec => []CompletedSound
<1>1. ChainInv => CompletedSound
  BY DEF ChainInv
<1>. QED BY <1>1, ChainHolds, PTL

-----------------------------------------------------------------------------
(* The one message of an undisturbed job.  Outside the annotation tasks,   *)
(* whatever may fail in between, it is in one place: a queue, the dead-    *)
(* letter queue or a worker's hands.  Beside it there may be completions   *)
(* of tasks for the export worker to skip, and tasks that have stored      *)
(* their batch, were not the last and still have to announce themselves.   *)
LineProcs == Line \cup {"dlq"}
Quiet(es) == \A e \in es : dead[e] = 0 /\ (e \in Hops => queue[e] = 0)
Resting(ps) == \A q \in ps : pc[q] = "idle"
TasksOver == \A t \in Tasks : pc[t] \in {"idle", "publish"} /\ t \notin lastTasks
TasksUntouched == \A t \in Tasks : pc[t] = "idle" /\ t \notin rows /\ t \notin lastTasks
TasksBeside(h) == IF h = "export" THEN TasksOver ELSE TasksUntouched

(* The stages before a hop's own, and the hops that handled their events   *)
(* before this one was published.                                          *)
StagesBefore == [h \in Line |->
    CASE h = "intake" -> {}
      [] h = "preprocessing" -> {"intake"}
      [] h = "planning" -> {"intake", "preprocessing"}
      [] h = "fanout" -> {"intake", "preprocessing", "planning"}
      [] h = "export" -> Stages \ {"export"}]
Before == [h \in Line |->
    CASE h = "intake" -> {}
      [] h = "preprocessing" -> {"intake"}
      [] h = "planning" -> {"intake", "preprocessing"}
      [] h = "fanout" -> {"intake", "preprocessing", "planning"}
      [] h = "export" -> Hops \ {"export"}]

(* The stages beyond the hop's own are as no handler has touched them.     *)
Around(h) ==
    /\ \A s \in StagesBefore[h] : stage[s] = "completed"
    /\ \A s \in Stages \ (StagesBefore[h] \cup {StageOf[h]}) : stage[s] = "pending"

(* The statuses that hop h finds: its own stage is as the hop before left  *)
(* it, or as h itself did before its publish failed.                       *)
Arrived(h) ==
    /\ Around(h)
    /\ stage[StageOf[h]] \in {"pending", IF h = "fanout" THEN "running" ELSE "completed"}
    /\ \/ job = "running"
       \/ h = "intake" /\ job = "pending"
       \/ h = "export" /\ job = "completed" /\ stage["export"] = "completed"
    /\ \A c \in claims : c[1] \in Before[h]

(* And those it leaves.                                                    *)
Handled(h) ==
    /\ Around(h)
    /\ stage[StageOf[h]] = (IF h = "fanout" THEN "running" ELSE "completed")
    /\ job = (IF h = "export" THEN "completed" ELSE "running")
    /\ \A c \in claims : c[1] \in Before[h] \/ c = <<h, ClaimName[h]>>

Current(h) == [job |-> job, stage |-> stage[StageOf[h]]]

Alone(h, p) == Quiet(Events \ {h}) /\ Resting(LineProcs \ {p}) /\ TasksBeside(h)
InHands(h, p, l) == Alone(h, p) /\ queue[h] = 0 /\ dead[h] = 0 /\ pc[p] = l

Waiting(h) == Alone(h, "nobody") /\ queue[h] = 1 /\ dead[h] = 0 /\ Arrived(h)
Buried(h) == Alone(h, "nobody") /\ queue[h] = 0 /\ dead[h] = 1 /\ Arrived(h)
Working(h) == InHands(h, h, "tx") /\ Arrived(h) /\ loaded[h] = Current(h)
Announcing(h) == InHands(h, h, "publish") /\ Handled(h)
Recording(h, p) ==
    /\ InHands(h, p, "record")
    /\ h \in Mapped /\ Item(p) = h
    /\ Arrived(h) /\ loaded[p] = Current(h)

(* What is left when the message is gone.                                  *)
Outcome ==
    \/ job = "completed" /\ \A s \in Stages : stage[s] = "completed"
    \/ job = "failed" /\ \E i \in 1..5 : FailedIn(i)
AtRest == Quiet(Events) /\ Resting(LineProcs) /\ TasksOver /\ Outcome

(* The annotation tasks: each of them has its own message, which is in one *)
(* place until its batch is stored or its failure recorded.                *)
Fresh(t) == t \notin rows /\ \A c \in claims : c[1] # t
OfDlq(t) == pc["dlq"] = "record" /\ dlqItem = t
Nowhere(t) == queue[t] = 0 /\ dead[t] = 0 /\ ~OfDlq(t)

Returned(t) ==
    /\ \/ queue[t] = 1 /\ dead[t] = 0
       \/ queue[t] = 0 /\ dead[t] = 1
    /\ pc[t] = "idle" /\ ~OfDlq(t) /\ Fresh(t)
Labelling(t) ==
    pc[t] \in {"tx", "counted"} /\ Nowhere(t) /\ Fresh(t) /\ loaded[t].stage # "completed"
Readied(p) ==
    /\ loaded[p].job \in {"running", "failed"}
    /\ loaded[p].job = "failed" => job = "failed"
    /\ loaded[p].job = "running" => loaded[p].stage = "running"
Failing(t) ==
    /\ Fresh(t) /\ queue[t] = 0 /\ dead[t] = 0
    /\ \/ pc[t] = "record" /\ ~OfDlq(t) /\ Readied(t)
       \/ pc[t] = "idle" /\ OfDlq(t) /\ Readied("dlq")
Stored(t) == t \in rows /\ pc[t] \in {"idle", "publish"} /\ Nowhere(t)
Failed(t) == t \notin rows /\ pc[t] = "idle" /\ Nowhere(t) /\ job = "failed"

TaskPlace(t) == Returned(t) \/ Labelling(t) \/ Failing(t) \/ Stored(t) \/ Failed(t)

(* The stage is running until the one last task has committed; it fails    *)
(* with the job, and with a task that is not stored.                       *)
AnnotationStatuses ==
    \/ /\ job = "running"
       /\ stage["annotation"] = (IF lastTasks \cap rows = {} THEN "running" ELSE "completed")
    \/ /\ job = "failed" /\ stage["annotation"] = "failed"
       /\ \E t \in Tasks : Failed(t)

Elsewhere ==
    /\ Quiet(Line \cup Dones) /\ Resting(Line)
    /\ pc["dlq"] = "idle" \/ (pc["dlq"] = "record" /\ dlqItem \in Tasks)

Annotating ==
    /\ Elsewhere
    /\ \A t \in Tasks : TaskPlace(t)
    /\ \A t, u \in lastTasks : t = u
    /\ \A s \in StagesBefore["fanout"] : stage[s] = "completed"
    /\ stage["export"] = "pending"
    /\ AnnotationStatuses
    /\ \A c \in claims : c[1] \in Hops \ {"export"}

OneMessage ==
    \/ AtRest
    \/ Annotating
    \/ \E h \in Line :
          \/ Waiting(h) \/ Buried(h) \/ Working(h) \/ Announcing(h)
          \/ \E p \in LineProcs : Recording(h, p)

Single == Undisturbed => OneMessage

-----------------------------------------------------------------------------
(* The faults that disturb a job.                                          *)
LEMMA SpendDisturbs ==
    ASSUME NEW kind \in {"ambiguous", "taskPublish", "record", "duplicate", "crash", "redrive"},
           Spend(kind)
    PROVE  ~Undisturbed'
BY DEF Spend, Undisturbed

(* What the surroundings do disturbs a job.                                *)
LEMMA Disturbing ==
    ASSUME NEW p, RecordFails(p) \/ Crash(p) \/ Duplicate(p) \/ Redrive(p)
    PROVE  ~Undisturbed'
BY SpendDisturbs DEF RecordFails, Crash, Duplicate, Redrive

(* The processes on the line and the tasks.                                *)
LEMMA LineNames ==
    /\ LineProcs \subseteq Procs /\ Line \subseteq LineProcs /\ "dlq" \in LineProcs
    /\ \A h \in Line : h \in Hops /\ h \in Procs /\ h # "dlq" /\ h \notin Tasks /\ h \in Events
    /\ \A t \in Tasks : t \in Hops /\ t \in Procs /\ t \notin LineProcs /\ t \in Events
    /\ \A p \in Procs : p \in LineProcs \/ p \in Tasks
    /\ \A h \in Hops : h \in Line \/ h \in Tasks
    /\ "export" \in Line /\ "fanout" \in Line /\ "intake" \in Line
    /\ "nobody" \notin LineProcs
BY Names DEF LineProcs, Line, Hops

(* The submitted event waits in the first queue.                           *)
LEMMA InitSingle == Init => Single
<1>. SUFFICES ASSUME Init PROVE Waiting("intake")
  BY LineNames DEF Single, OneMessage
<1>1. Alone("intake", "nobody") /\ queue["intake"] = 1 /\ dead["intake"] = 0
  BY LineNames DEF Init, Alone, Quiet, Resting, TasksBeside, TasksUntouched
<1>2. Arrived("intake")
  BY LineNames, StagesOf DEF Init, Arrived, Around, StagesBefore
<1>. QED BY <1>1, <1>2 DEF Waiting

(* A step that moves no message and no transaction of the line.            *)
Beside ==
    /\ UNCHANGED <<dead, dlqItem, dbVars>>
    /\ \A e \in Hops : queue'[e] = queue[e]
    /\ \A q \in LineProcs : pc'[q] = pc[q] /\ loaded'[q] = loaded[q]
    /\ \A t \in Tasks : pc'[t] = pc[t] \/ pc'[t] = "idle"
    /\ lastTasks' \subseteq lastTasks

(* The statuses decide whether an event has arrived or been handled.       *)
LEMMA ArrivedKept ==
    ASSUME NEW h \in Line, UNCHANGED <<stage, job, claims>>
    PROVE  Arrived(h)' = Arrived(h) /\ Handled(h)' = Handled(h) /\ Current(h)' = Current(h)
BY DEF Arrived, Handled, Around, Current

(* It leaves the one message where it is.                                  *)
LEMMA BesideKeeps ==
    ASSUME Beside,
           \/ AtRest
           \/ \E h \in Line :
                 \/ Waiting(h) \/ Buried(h) \/ Working(h) \/ Announcing(h)
                 \/ \E p \in LineProcs : Recording(h, p)
    PROVE  OneMessage'
<1>0. UNCHANGED <<dead, stage, job, claims, rows, dlqItem>>
  BY DEF Beside, dbVars
<1>1. \A es : Quiet(es) => Quiet(es)'
  BY DEF Beside, Quiet
<1>2. \A ps : ps \subseteq LineProcs /\ Resting(ps) => Resting(ps)'
  BY DEF Beside, Resting
<1>3. TasksOver => TasksOver'
  BY DEF Beside, TasksOver
<1>4. TasksUntouched => TasksUntouched'
  BY <1>0 DEF Beside, TasksUntouched
<1>5. CASE AtRest
  <2>1. Outcome'
    BY <1>0, <1>5 DEF AtRest, Outcome, FailedIn
  <2>. QED BY <1>1, <1>2, <1>3, <1>5, <2>1 DEF AtRest, OneMessage
<1>6. ASSUME NEW h \in Line,
             \/ Waiting(h) \/ Buried(h) \/ Working(h) \/ Announcing(h)
             \/ \E p \in LineProcs : Recording(h, p)
      PROVE  OneMessage'
  <2>1. queue'[h] = queue[h] /\ pc'[h] = pc[h] /\ loaded'[h] = loaded[h]
    BY LineNames DEF Beside
  <2>2. \A p : Alone(h, p) => Alone(h, p)'
    <3>1. TasksBeside(h) => TasksBeside(h)'
      BY <1>3, <1>4 DEF TasksBeside
    <3>. QED BY <1>1, <1>2, <3>1 DEF Alone
  <2>3. (Arrived(h) => Arrived(h)') /\ (Handled(h) => Handled(h)') /\ Current(h)' = Current(h)
    BY <1>0, ArrivedKept
  <2>4. CASE Waiting(h)
    BY <1>0, <2>1, <2>2, <2>3, <2>4 DEF Waiting, OneMessage
  <2>5. CASE Buried(h)
    BY <1>0, <2>1, <2>2, <2>3, <2>5 DEF Buried, OneMessage
  <2>6. CASE Working(h)
    <3>1. Working(h)'
      BY <1>0, <2>1, <2>2, <2>3, <2>6 DEF Working, InHands
    <3>. QED BY <3>1 DEF OneMessage
  <2>7. CASE Announcing(h)
    <3>1. Announcing(h)'
      BY <1>0, <2>1, <2>2, <2>3, <2>7 DEF Announcing, InHands
    <3>. QED BY <3>1 DEF OneMessage
  <2>8. ASSUME NEW p \in LineProcs, Recording(h, p) PROVE OneMessage'
    <3>1. pc'[p] = pc[p] /\ loaded'[p] = loaded[p] /\ Item(p)' = Item(p)
      BY <1>0 DEF Beside, Item
    <3>2. InHands(h, p, "record")'
      BY <1>0, <2>1, <2>2, <2>8, <3>1 DEF Recording, InHands
    <3>3. Recording(h, p)'
      BY <2>3, <2>8, <3>1, <3>2 DEF Recording
    <3>. QED BY <3>3 DEF OneMessage
  <2>. QED BY <1>6, <2>4, <2>5, <2>6, <2>7, <2>8
<1>. QED BY <1>5, <1>6

-----------------------------------------------------------------------------
(* Steps that only go beside the message: nothing at all, waiting for a    *)
(* lock, skipping a completion.                                            *)
LEMMA StillBeside ==
    ASSUME Typed, UNCHANGED vars \/ (\E p \in Procs : Lock(p)) \/ (\E d \in Dones : Skip(d))
    PROVE  Beside
<1>1. CASE UNCHANGED vars \/ \E p \in Procs : Lock(p)
  BY <1>1 DEF Beside, vars, msgVars, txVars, Lock
<1>2. ASSUME NEW d \in Dones, Skip(d) PROVE Beside
  <2>1. \A e \in Hops : queue'[e] = queue[e]
    BY <1>2, Names DEF Skip, Typed, TypeOK
  <2>. QED BY <1>2, <2>1 DEF Beside, Skip, txVars
<1>. QED BY <1>1, <1>2

(* A task announces that it is stored.                                     *)
LEMMA DoneSent ==
    ASSUME Typed, NEW t \in Tasks, t \notin lastTasks, Publish(t)
    PROVE  \A e \in Hops : queue'[e] = queue[e]
<1>1. Outbox(t) = <<Completion[t]>>
  BY LineNames DEF Outbox, Line
<1>2. Sent(t, Len(Outbox(t))) = {Completion[t]}
  BY <1>1 DEF Sent
<1>3. Completion[t] \notin Hops
  BY Names DEF Dones
<1>. QED BY <1>2, <1>3, Names DEF Publish, Deliver

(* What a task that is over, or has not begun, may do.                     *)
LEMMA TaskBeside ==
    ASSUME Typed, Undisturbed', NEW t \in Tasks, Work(t),
           pc[t] \in {"idle", "publish"}, queue[t] = 0, t \notin lastTasks
    PROVE  Beside
<1>0. t \in Procs /\ t \notin LineProcs /\ t # "export"
  BY LineNames
<1>1. CASE Publish(t)
  <2>1. \A e \in Hops : queue'[e] = queue[e]
    BY <1>1, DoneSent
  <2>2. \A q \in Procs \ {t} : pc'[q] = pc[q] /\ loaded'[q] = loaded[q]
    BY <1>1 DEF Publish, Leave, Typed, TypeOK
  <2>3. pc'[t] = "idle"
    BY <1>0, <1>1 DEF Publish, Leave, Typed, TypeOK
  <2>4. lastTasks' \subseteq lastTasks /\ UNCHANGED <<dead, dlqItem, dbVars>>
    BY <1>1 DEF Publish, Leave
  <2>. QED BY <1>0, <2>1, <2>2, <2>3, <2>4, LineNames DEF Beside
<1>2. ~PublishFails(t)
  BY SpendDisturbs DEF PublishFails, PublishFault
<1>3. /\ ~Take(t) /\ ~Lock(t) /\ ~Commit(t) /\ ~FailTransiently(t) /\ ~FailTerminally(t)
      /\ ~Record(t) /\ ~RecordFails(t) /\ ~Count(t)
  BY DEF Take, Lock, InTx, Commit, FailTransiently, FailTerminally, Record, RecordFails, Count
<1>. QED BY <1>0, <1>1, <1>2, <1>3 DEF Work

(* What an idle worker of the line may do without an event of its own.     *)
LEMMA LineBeside ==
    ASSUME Typed, NEW h \in Line, pc[h] = "idle", Work(h)
    PROVE  Beside \/ (queue[h] > 0 /\ Take(h))
<1>1. /\ ~Lock(h) /\ ~Commit(h) /\ ~FailTransiently(h) /\ ~FailTerminally(h)
      /\ ~Record(h) /\ ~RecordFails(h) /\ ~Publish(h) /\ ~PublishFails(h) /\ ~Count(h)
  BY LineNames
  DEF Lock, InTx, Commit, FailTransiently, FailTerminally, Record, RecordFails, Count,
      Publish, PublishFails
<1>. QED BY <1>1, StillBeside DEF Work, Take

(* With nobody but intake's worker in a transaction, or no intake's, there *)
(* is no deadlock.                                                         *)
LEMMA NoDeadlock ==
    ASSUME Typed, NEW r \in Procs,
           \/ pc["intake"] \in {"idle", "publish"}
           \/ \A q \in Procs : q = "intake" \/ pc[q] \in {"idle", "publish"}
    PROVE  ~DeadlockAbort(r)
<1>. SUFFICES ASSUME DeadlockAbort(r) PROVE FALSE
  OBVIOUS
<1>1. PICK q \in InTx : r \in InTx /\ Waits(r, q) /\ Waits(q, r)
  BY DEF DeadlockAbort
<1>2. "intake" \in {r, q}
  BY <1>1, TypedOnlyIntakeDeadlocks DEF OnlyIntakeDeadlocks
<1>3. r = q
  BY <1>1, <1>2 DEF InTx
<1>. QED BY <1>1, <1>3, NoSelfWait

(* With the message in a queue its worker takes it, with the message gone  *)
(* none does.                                                              *)
LEMMA FromIdle ==
    ASSUME Typed, Undisturbed', [Next]_vars, Resting(LineProcs),
           \A t \in Tasks : /\ pc[t] \in {"idle", "publish"} /\ t \notin lastTasks
                            /\ queue[t] = 0
    PROVE  \/ Beside
           \/ \E h \in Line : queue[h] > 0 /\ Take(h)
           \/ \E e \in Events : dead[e] > 0 /\ TakeDead(e)
<1>1. \A q \in LineProcs : pc[q] = "idle"
  BY DEF Resting
<1>2. ASSUME NEW h \in Hops, Work(h)
      PROVE  Beside \/ \E k \in Line : queue[k] > 0 /\ Take(k)
  BY <1>1, <1>2, LineBeside, TaskBeside, LineNames
<1>3. WorkDlq => \E e \in Events : dead[e] > 0 /\ TakeDead(e)
  BY <1>1, LineNames DEF WorkDlq, TakeDead, Lock, Record, RecordFails, InTx
<1>4. ASSUME NEW p \in Procs PROVE ~DeadlockAbort(p)
  BY <1>1, LineNames, NoDeadlock
<1>5. CASE UNCHANGED vars
  BY <1>5, StillBeside
<1>. QED BY <1>2, <1>3, <1>4, <1>5, Disturbing DEF Next, Terminated

(* With the message in its hands only one worker of the line has anything  *)
(* to do, and no one to wait for.                                          *)
LEMMA FromWorker ==
    ASSUME Typed, Undisturbed', [Next]_vars,
           NEW h \in Line, NEW p \in LineProcs, NEW l \in {"tx", "publish", "record"},
           InHands(h, p, l)
    PROVE  \/ Beside
           \/ p \in Line /\ Work(p)
           \/ p = "dlq" /\ Record("dlq")
<1>1. \A q \in LineProcs \ {p} : pc[q] = "idle"
  BY DEF InHands, Alone, Resting
<1>2. \A e \in Events : dead[e] = 0 /\ (e \in Hops => queue[e] = 0)
  BY DEF InHands, Alone, Quiet
<1>3. \A t \in Tasks : pc[t] \in {"idle", "publish"} /\ t \notin lastTasks /\ queue[t] = 0
  BY <1>2, LineNames DEF InHands, Alone, TasksBeside, TasksOver, TasksUntouched
<1>4. ASSUME NEW k \in Hops, Work(k), k # p PROVE Beside
  <2>1. queue[k] = 0
    BY <1>2, Names
  <2>2. CASE k \in Tasks
    BY <1>3, <1>4, <2>2, TaskBeside
  <2>3. CASE k \in Line
    <3>1. pc[k] = "idle"
      BY <1>1, <1>4, <2>3, LineNames
    <3>2. Beside \/ queue[k] > 0
      BY <1>4, <2>3, <3>1, LineBeside
    <3>. QED BY <2>1, <3>2
  <2>. QED BY <2>2, <2>3, LineNames
<1>5. ASSUME WorkDlq PROVE Beside \/ (p = "dlq" /\ Record("dlq"))
  <2>1. \A e \in Events : ~TakeDead(e)
    BY <1>2 DEF TakeDead
  <2>2. Lock("dlq") => Beside
    BY LineNames, StillBeside
  <2>3. Record("dlq") => p = "dlq"
    BY <1>1, LineNames DEF Record
  <2>. QED BY <1>5, <2>1, <2>2, <2>3, Disturbing DEF WorkDlq
<1>6. ASSUME NEW r \in Procs PROVE ~DeadlockAbort(r)
  <2>1. \A q \in Procs : q = p \/ pc[q] \in {"idle", "publish"}
    BY <1>1, <1>3, LineNames
  <2>. QED BY <2>1, LineNames, NoDeadlock
<1>7. CASE UNCHANGED vars
  BY <1>7, StillBeside
<1>8. ASSUME NEW k \in Hops, Work(k), k = p PROVE p \in Line
  BY <1>8, LineNames
<1>. QED BY <1>4, <1>5, <1>6, <1>7, <1>8, Disturbing DEF Next, Terminated

-----------------------------------------------------------------------------
(* A step of one worker of the line leaves the tasks and the other workers *)
(* of the line alone.                                                      *)
LEMMA OwnStep ==
    ASSUME Typed, NEW h \in Line, NEW b \in {"nobody"} \cup LineProcs, Alone(h, b),
           NEW p \in LineProcs, NEW l \in Places, b = p \/ b = "nobody",
           pc' = [pc EXCEPT ![p] = l],
           lastTasks' = lastTasks \/ lastTasks' = lastTasks \ {p},
           \A t \in Tasks : t \in rows' <=> t \in rows,
           \A e \in Events \ {h} : dead'[e] = dead[e] /\ queue'[e] = queue[e]
    PROVE  Alone(h, p)' /\ pc'[p] = l /\ (l = "idle" => Alone(h, "nobody")')
<1>1. \A q \in Procs : pc'[q] = IF q = p THEN l ELSE pc[q]
  BY DEF Typed, TypeOK
<1>2. \A t \in Tasks : pc'[t] = pc[t] /\ (t \in lastTasks' => t \in lastTasks)
  BY <1>1, LineNames
<1>3. TasksBeside(h)'
  BY <1>2 DEF Alone, TasksBeside, TasksOver, TasksUntouched
<1>4. Quiet(Events \ {h})'
  BY DEF Alone, Quiet
<1>5. \A q \in LineProcs \ {p} : pc'[q] = "idle"
  BY <1>1, LineNames DEF Alone, Resting
<1>6. l = "idle" => \A q \in LineProcs : pc'[q] = "idle"
  BY <1>1, <1>5, LineNames
<1>. QED BY <1>1, <1>3, <1>4, <1>5, <1>6, LineNames DEF Alone, Resting

(* A hop's event was not claimed before it arrived.                        *)
LEMMA NotClaimed ==
    ASSUME NEW h \in Line, Arrived(h), NEW name
    PROVE  <<h, name>> \notin claims
<1>1. h \notin Before[h]
  BY DEF Before, Line
<1>2. <<h, name>>[1] = h
  OBVIOUS
<1>. QED BY <1>1, <1>2 DEF Arrived

(* The event was not claimed before: its worker handles it.                *)
LEMMA TakeWaiting ==
    ASSUME Typed, Typed', NEW h \in Line, Waiting(h), NEW k \in Line, queue[k] > 0, Take(k)
    PROVE  Working(h)'
<1>. USE DEF Waiting
<1>1. k = h
  BY LineNames DEF Alone, Quiet
<1>2. /\ queue'[h] = 0 /\ dead'[h] = 0
      /\ \A e \in Events \ {h} : dead'[e] = dead[e] /\ queue'[e] = queue[e]
  BY <1>1, LineNames DEF Take, Typed, TypeOK
<1>3. pc' = [pc EXCEPT ![h] = "tx"] /\ Load(h, h)
  BY <1>1, NotClaimed DEF Take
<1>4. UNCHANGED <<stage, job, claims, rows, lastTasks>>
  BY DEF Take, dbVars
<1>5. Alone(h, h)' /\ pc'[h] = "tx"
  BY <1>2, <1>3, <1>4, OwnStep, LineNames DEF Places
<1>6. Arrived(h)'
  BY <1>4, ArrivedKept
<1>7. loaded'[h] = Current(h)'
  BY <1>3, <1>4, LineNames DEF Load, Current, Typed, TypeOK
<1>. QED BY <1>2, <1>5, <1>6, <1>7 DEF Working, InHands

(* Nor was its failure recorded: the DLQ worker records it.                *)
LEMMA TakeBuried ==
    ASSUME Typed, NEW h \in Line, Buried(h), NEW k \in Events, dead[k] > 0, TakeDead(k)
    PROVE  Recording(h, "dlq")'
<1>. USE DEF Buried
<1>1. k = h /\ h \in Mapped
  BY LineNames DEF TakeDead, Alone, Quiet
<1>2. /\ queue'[h] = 0 /\ dead'[h] = 0
      /\ \A e \in Events \ {h} : dead'[e] = dead[e] /\ queue'[e] = queue[e]
  BY <1>1, LineNames DEF TakeDead, Typed, TypeOK
<1>3. pc' = [pc EXCEPT !["dlq"] = "record"] /\ dlqItem' = h /\ Load("dlq", h)
  BY <1>1, NotClaimed DEF TakeDead
<1>4. UNCHANGED <<stage, job, claims, rows, lastTasks>>
  BY DEF TakeDead, dbVars
<1>5. Alone(h, "dlq")' /\ pc'["dlq"] = "record"
  BY <1>2, <1>3, <1>4, OwnStep, LineNames DEF Places
<1>6. Item("dlq")' = h
  BY <1>3 DEF Item
<1>7. Arrived(h)'
  BY <1>4, ArrivedKept
<1>8. loaded'["dlq"] = Current(h)'
  BY <1>3, <1>4, LineNames DEF Load, Current, Typed, TypeOK
<1>. QED BY <1>1, <1>2, <1>5, <1>6, <1>7, <1>8 DEF Recording, InHands

(* A worker returns the message as it found it.                            *)
LEMMA ReturnArrived ==
    ASSUME Typed, NEW h \in Line, NEW l, InHands(h, h, l),
           Return(h), Leave(h, "idle"), UNCHANGED rows, Arrived(h)'
    PROVE  OneMessage'
<1>1. Item(h) = h
  BY LineNames DEF Item
<1>2. /\ \/ queue'[h] = 1 /\ dead'[h] = 0
         \/ queue'[h] = 0 /\ dead'[h] = 1
      /\ \A e \in Events \ {h} : dead'[e] = dead[e] /\ queue'[e] = queue[e]
  BY <1>1, LineNames DEF Return, ReturnInto, InHands, Typed, TypeOK
<1>3. Alone(h, "nobody")'
  BY <1>2, OwnStep, LineNames DEF InHands, Leave, Places
<1>. QED BY <1>2, <1>3 DEF OneMessage, Waiting, Buried

(* The commit of a hop that found the statuses of an arrived event.        *)
LEMMA CommitWorking ==
    ASSUME Typed, Typed', NEW h \in Line, Working(h), Commit(h)
    PROVE  Announcing(h)'
<1>. USE DEF Working
<1>0. /\ StageOf[h] \in Stages \ StagesBefore[h] /\ StagesBefore[h] \subseteq Stages
      /\ h \notin Tasks /\ h \notin lastTasks
  BY StagesOf, LineNames DEF Stages, PipelineStageNames, StagesBefore, Line, Typed, TypeOK
<1>1. InHands(h, h, "publish")'
  <2>1. UNCHANGED <<queue, dead>> /\ pc' = [pc EXCEPT ![h] = "publish"]
        /\ lastTasks' = lastTasks
    BY DEF Commit, Leave, msgVars
  <2>2. \A t \in Tasks : t \in rows' <=> t \in rows
    BY LineNames DEF Commit
  <2>. QED BY <2>1, <2>2, OwnStep, LineNames DEF InHands, Places
<1>2. loaded[h].job = job /\ loaded[h].stage = stage[StageOf[h]]
  BY DEF Current
<1>3. stage' = [stage EXCEPT ![StageOf[h]] = IF h = "fanout" THEN "running" ELSE "completed"]
  BY <1>0, <1>2 DEF Commit, StageAfter, Assign
<1>4. /\ stage'[StageOf[h]] = (IF h = "fanout" THEN "running" ELSE "completed")
      /\ \A s \in Stages \ {StageOf[h]} : stage'[s] = stage[s]
  BY <1>0, <1>3 DEF Typed, TypeOK
<1>5. Around(h)'
  BY <1>0, <1>4 DEF Around, Arrived
<1>6. job' = (IF h = "export" THEN "completed" ELSE "running")
  BY <1>2 DEF Commit, JobAfter, Assign, Arrived
<1>7. \A c \in claims' : c[1] \in Before[h] \/ c = <<h, ClaimName[h]>>
  BY DEF Commit, Arrived
<1>. QED BY <1>1, <1>4, <1>5, <1>6, <1>7 DEF Announcing, Handled

(* What a worker with an open transaction does next.                       *)
LEMMA FromWorking ==
    ASSUME Typed, Typed', Undisturbed', NEW h \in Line, Working(h), Work(h)
    PROVE  OneMessage'
<1>. USE DEF Working
<1>0. h \in Procs /\ h \notin Tasks /\ h \in LineProcs /\ pc[h] = "tx"
  BY LineNames DEF InHands
<1>1. CASE Lock(h) \/ \E d \in Dones : Skip(d)
  BY <1>0, <1>1, StillBeside, BesideKeeps
<1>2. CASE Commit(h)
  BY <1>2, CommitWorking DEF OneMessage
<1>3. CASE FailTransiently(h)
  <2>1. Arrived(h)' /\ UNCHANGED rows
    BY <1>3, ArrivedKept DEF FailTransiently, dbVars
  <2>. QED BY <1>3, <2>1, ReturnArrived DEF FailTransiently
<1>4. CASE FailTerminally(h)
  <2>1. Arrived(h)' /\ Current(h)' = Current(h) /\ UNCHANGED dbVars
    BY <1>4, ArrivedKept DEF FailTerminally, dbVars
  <2>2. <<h, FailureClaimName[h]>> \notin claims
    BY NotClaimed
  <2>3. CASE h \in Mapped
    <3>1. /\ pc' = [pc EXCEPT ![h] = "record"]
          /\ Load(h, h) /\ UNCHANGED <<msgVars, lastTasks>>
      BY <1>4, <2>2, <2>3 DEF FailTerminally
    <3>2. InHands(h, h, "record")'
      BY <2>1, <3>1, OwnStep, LineNames DEF InHands, msgVars, dbVars, Places
    <3>3. Item(h)' = h
      BY <1>0, LineNames DEF Item
    <3>4. loaded'[h] = Current(h)'
      BY <1>0, <2>1, <3>1 DEF Load, Current, Typed, TypeOK
    <3>5. Recording(h, h)'
      BY <2>1, <2>3, <3>2, <3>3, <3>4 DEF Recording
    <3>. QED BY <1>0, <3>5 DEF OneMessage
  <2>4. CASE h \notin Mapped
    <3>1. Leave(h, "idle") /\ Return(h)
      BY <1>4, <2>2, <2>4 DEF FailTerminally
    <3>. QED BY <2>1, <3>1, ReturnArrived DEF dbVars
  <2>. QED BY <2>3, <2>4
<1>5. ~Take(h) /\ ~Publish(h) /\ ~PublishFails(h) /\ ~Record(h) /\ ~RecordFails(h)
  BY <1>0 DEF Take, Publish, PublishFails, Record, RecordFails
<1>. QED BY <1>0, <1>1, <1>2, <1>3, <1>4, <1>5 DEF Work

-----------------------------------------------------------------------------
(* What the hops of the line publish.                                      *)
LEMMA LineOutbox ==
    /\ Outbox("intake") = <<"preprocessing">> /\ Outbox("preprocessing") = <<"planning">>
    /\ Outbox("planning") = <<"fanout">> /\ Outbox("fanout") = TaskIds
    /\ Outbox("export") = <<"export.completed">>
BY Names DEF Outbox, Line

(* A hop of the line that publishes one event.                             *)
LEMMA SentNext ==
    ASSUME Typed, NEW h \in Line, NEW e, Outbox(h) = <<e>>, Publish(h)
    PROVE  queue' = [k \in Events |-> IF k = e THEN queue[k] + 1 ELSE queue[k]]
<1>1. Sent(h, Len(Outbox(h))) = {e}
  BY DEF Sent
<1>. QED BY <1>1 DEF Publish, Deliver

(* The dispatch wakes every task.                                          *)
LEMMA SentTasks ==
    ASSUME Typed, Publish("fanout")
    PROVE  queue' = [k \in Events |-> IF k \in Tasks THEN queue[k] + 1 ELSE queue[k]]
<1>1. Sent("fanout", Len(Outbox("fanout"))) = {TaskIds[i] : i \in 1..Len(TaskIds)}
  BY LineOutbox DEF Sent
<1>2. DOMAIN TaskIds = 1..Len(TaskIds)
  BY TasksAssumption
<1>3. Sent("fanout", Len(Outbox("fanout"))) = Tasks
  BY <1>1, <1>2 DEF Tasks
<1>. QED BY <1>3 DEF Publish, Deliver

(* What a hop leaves is what the next one finds.                           *)
LEMMA HandledArrives ==
    ASSUME NEW h \in Line, NEW k \in Line, Handled(h),
           \/ h = "intake" /\ k = "preprocessing"
           \/ h = "preprocessing" /\ k = "planning"
           \/ h = "planning" /\ k = "fanout"
    PROVE  Arrived(k)
<1>. USE StagesOf, LineNames DEF Handled, Arrived, Around, StagesBefore, Before,
             Stages, PipelineStageNames, Line
<1>1. CASE h = "intake"
  BY <1>1
<1>2. CASE h = "preprocessing"
  BY <1>2
<1>3. CASE h = "planning"
  BY <1>3
<1>. QED BY <1>1, <1>2, <1>3

(* And what it finds again if its publish failed.                          *)
LEMMA HandledAgain ==
    ASSUME NEW h \in Line, Handled(h), UNCHANGED <<stage, job>>,
           claims' = claims \ {<<h, ClaimName[h]>>}
    PROVE  Arrived(h)'
<1>1. Around(h)'
  BY DEF Handled, Around
<1>2. stage'[StageOf[h]] = (IF h = "fanout" THEN "running" ELSE "completed")
  BY DEF Handled
<1>3. h = "export" => StageOf[h] = "export"
  BY StagesOf
<1>4. job' = (IF h = "export" THEN "completed" ELSE "running")
  BY DEF Handled
<1>5. \A c \in claims' : c[1] \in Before[h]
  BY DEF Handled
<1>. QED BY <1>1, <1>2, <1>3, <1>4, <1>5 DEF Arrived

(* The next hop's event waits.                                             *)
LEMMA PublishNext ==
    ASSUME Typed, NEW h \in Line \ {"fanout", "export"}, NEW k \in Line \ {"export"},
           Announcing(h), Publish(h), Outbox(h) = <<k>>, h # k, Arrived(k)
    PROVE  Waiting(k)'
<1>. USE DEF Announcing
<1>1. queue' = [e \in Events |-> IF e = k THEN queue[e] + 1 ELSE queue[e]]
  BY SentNext
<1>2. UNCHANGED <<dead, rows, stage, job, claims>> /\ Leave(h, "idle")
  BY DEF Publish, dbVars
<1>3. \A e \in Events : dead[e] = 0 /\ (e \in Hops => queue[e] = 0)
  BY DEF InHands, Alone, Quiet
<1>4. Quiet(Events \ {k})' /\ queue'[k] = 1 /\ dead'[k] = 0
  BY <1>1, <1>2, <1>3, LineNames DEF Quiet
<1>5. \A q \in Procs : pc'[q] = IF q = h THEN "idle" ELSE pc[q]
  BY <1>2 DEF Leave, Typed, TypeOK
<1>6. Resting(LineProcs)' /\ TasksUntouched'
  BY <1>2, <1>5, LineNames DEF InHands, Alone, Resting, TasksBeside, TasksUntouched, Leave
<1>7. Arrived(k)'
  BY <1>2, ArrivedKept
<1>. QED BY <1>4, <1>6, <1>7 DEF Waiting, Alone, TasksBeside, Resting

(* The dispatched tasks wait.                                              *)
LEMMA PublishTasks ==
    ASSUME Typed, Announcing("fanout"), Publish("fanout")
    PROVE  Annotating'
<1>. USE DEF Announcing
<1>1. queue' = [e \in Events |-> IF e \in Tasks THEN queue[e] + 1 ELSE queue[e]]
  BY SentTasks
<1>2. UNCHANGED <<dead, rows, stage, job, claims, dlqItem>> /\ Leave("fanout", "idle")
  BY DEF Publish, dbVars
<1>3. \A e \in Events : dead[e] = 0 /\ (e \in Hops => queue[e] = 0)
  BY DEF InHands, Alone, Quiet
<1>4. \A q \in Procs : pc'[q] = IF q = "fanout" THEN "idle" ELSE pc[q]
  BY <1>2 DEF Leave, Typed, TypeOK
<1>5. Resting(LineProcs)' /\ TasksUntouched'
  BY <1>2, <1>4, LineNames DEF InHands, Alone, Resting, TasksBeside, TasksUntouched, Leave
<1>6. lastTasks' = {}
  BY <1>2, <1>5 DEF TasksUntouched, Leave, Typed, TypeOK
<1>7. Elsewhere'
  BY <1>1, <1>2, <1>3, <1>5, LineNames, Names DEF Elsewhere, Quiet, Resting
<1>8. \A c \in claims' : c[1] \in Line /\ c[1] \in Hops \ {"export"}
  <2>1. \A c \in claims : c[1] \in Before["fanout"] \/ c = <<"fanout", ClaimName["fanout"]>>
    BY DEF Handled
  <2>2. <<"fanout", ClaimName["fanout"]>>[1] = "fanout"
    OBVIOUS
  <2>3. Before["fanout"] \subseteq Line \ {"export"} /\ "fanout" \in Line \ {"export"}
    BY DEF Before, Line
  <2>. QED BY <1>2, <2>1, <2>2, <2>3, LineNames
<1>9. ASSUME NEW t \in Tasks PROVE Returned(t)'
  <2>1. queue'[t] = 1 /\ dead'[t] = 0
    BY <1>1, <1>2, <1>3, LineNames
  <2>2. pc'[t] = "idle" /\ ~OfDlq(t)' /\ Fresh(t)'
    BY <1>5, <1>8, LineNames DEF TasksUntouched, Resting, OfDlq, Fresh
  <2>. QED BY <2>1, <2>2 DEF Returned
<1>10. /\ \A s \in StagesBefore["fanout"] : stage[s] = "completed"
       /\ stage["export"] = "pending" /\ stage["annotation"] = "running" /\ job = "running"
  BY StagesOf DEF Handled, Around, StagesBefore, Line, Stages, PipelineStageNames
<1>11. AnnotationStatuses'
  BY <1>2, <1>6, <1>10 DEF AnnotationStatuses
<1>. QED BY <1>2, <1>6, <1>7, <1>8, <1>9, <1>10, <1>11 DEF Annotating, TaskPlace

(* Publishing, or failing to.                                              *)
LEMMA FromAnnouncing ==
    ASSUME Typed, Typed', Undisturbed', NEW h \in Line, Announcing(h), Work(h)
    PROVE  OneMessage'
<1>. USE DEF Announcing
<1>0. h \in Procs /\ h \notin Tasks /\ h \in LineProcs /\ pc[h] = "publish"
  BY LineNames DEF InHands
<1>1. CASE Publish(h)
  <2>1. ASSUME NEW k \in Line, Outbox(h) = <<k>>, Arrived(k), h # k,
               h \notin {"fanout", "export"}, k # "export"
        PROVE  OneMessage'
    BY <1>1, <2>1, PublishNext DEF OneMessage
  <2>2. CASE h = "intake"
    BY <2>1, <2>2, LineOutbox, HandledArrives DEF Line
  <2>3. CASE h = "preprocessing"
    BY <2>1, <2>3, LineOutbox, HandledArrives DEF Line
  <2>4. CASE h = "planning"
    BY <2>1, <2>4, LineOutbox, HandledArrives DEF Line
  <2>5. CASE h = "fanout"
    BY <1>1, <2>5, PublishTasks DEF OneMessage
  <2>6. CASE h = "export"
    <3>1. UNCHANGED <<dead, stage, job>> /\ Leave(h, "idle")
      BY <1>1 DEF Publish, dbVars
    <3>2. Outcome'
      BY <2>6, <3>1, StagesOf, LineNames DEF Handled, Around, Outcome, StagesBefore
    <3>3. \A e \in Hops : queue'[e] = queue[e]
      <4>1. queue' = [k \in Events |-> IF k = "export.completed" THEN queue[k] + 1 ELSE queue[k]]
        BY <1>1, <2>6, LineOutbox, SentNext
      <4>2. "export.completed" \notin Events
        BY TasksAssumption DEF Events, Hops, Line
      <4>. QED BY <4>1, <4>2, Names
    <3>4. \A e \in Events : dead[e] = 0 /\ (e \in Hops => queue[e] = 0)
      BY DEF InHands, Alone, Quiet
    <3>5. \A q \in Procs : pc'[q] = IF q = h THEN "idle" ELSE pc[q]
      BY <3>1 DEF Leave, Typed, TypeOK
    <3>6. Resting(LineProcs)' /\ TasksOver'
      BY <2>6, <3>1, <3>5, LineNames DEF InHands, Alone, Resting, TasksBeside, TasksOver, Leave
    <3>. QED BY <3>1, <3>2, <3>3, <3>4, <3>6 DEF OneMessage, AtRest, Quiet
  <2>. QED BY <2>2, <2>3, <2>4, <2>5, <2>6 DEF Line
<1>2. CASE PublishFails(h)
  <2>1. /\ \E n \in 1..Len(Outbox(h)) : ReturnInto(Deliver(h, n - 1), h)
        /\ h # "fanout"
    BY <1>2, SpendDisturbs DEF PublishFails, PublishFault
  <2>2. Len(Outbox(h)) = 1
    BY <2>1, LineOutbox DEF Line
  <2>3. ReturnInto(Deliver(h, 0), h)
    <3>1. \A n \in 1..1 : n - 1 = 0
      OBVIOUS
    <3>. QED BY <2>1, <2>2, <3>1
  <2>4. Deliver(h, 0) = queue
    <3>1. Sent(h, 0) = {}
      BY DEF Sent
    <3>. QED BY <3>1 DEF Deliver, Typed, TypeOK
  <2>5. Arrived(h)' /\ UNCHANGED rows /\ Leave(h, "idle")
    BY <1>2, HandledAgain DEF PublishFails
  <2>. QED BY <2>3, <2>4, <2>5, ReturnArrived DEF Return
<1>3. CASE \E d \in Dones : Skip(d)
  BY <1>3, StillBeside, BesideKeeps
<1>4. /\ ~Take(h) /\ ~Lock(h) /\ ~Commit(h) /\ ~FailTransiently(h) /\ ~FailTerminally(h)
      /\ ~Record(h) /\ ~RecordFails(h)
  BY <1>0 DEF Take, Lock, InTx, Commit, FailTransiently, FailTerminally, Record, RecordFails
<1>. QED BY <1>0, <1>1, <1>2, <1>3, <1>4 DEF Work

(* The stage of a recorded failure is the only one that failed.            *)
LEMMA RecordedOutcome ==
    ASSUME NEW h \in Line, h \in Mapped, Arrived(h), stage \in [Stages -> Statuses],
           stage' = [stage EXCEPT ![StageOf[h]] = "failed"], job' = "failed"
    PROVE  Outcome'
<1>0. \A s \in Stages : stage'[s] = IF s = StageOf[h] THEN "failed" ELSE stage[s]
  OBVIOUS
<1>. USE <1>0, StagesOf
     DEF Arrived, Around, StagesBefore, Stages, PipelineStageNames, Line, Mapped
<1>1. CASE h = "intake"
  <2>1. FailedIn(1)'
    BY <1>1 DEF FailedIn
  <2>. QED BY <2>1 DEF Outcome
<1>2. CASE h = "preprocessing"
  <2>1. FailedIn(2)'
    BY <1>2 DEF FailedIn
  <2>. QED BY <2>1 DEF Outcome
<1>3. CASE h = "planning"
  <2>1. FailedIn(3)'
    BY <1>3 DEF FailedIn
  <2>. QED BY <2>1 DEF Outcome
<1>4. CASE h = "fanout"
  <2>1. FailedIn(4)'
    BY <1>4 DEF FailedIn
  <2>. QED BY <2>1 DEF Outcome
<1>. QED BY <1>1, <1>2, <1>3, <1>4

(* Recording the failure of the one message there is.                      *)
LEMMA FromRecording ==
    ASSUME Typed, Typed', NEW h \in Line, NEW p \in LineProcs, Recording(h, p), Record(p)
    PROVE  OneMessage'
<1>. USE DEF Recording
<1>1. UNCHANGED <<queue, dead, rows>> /\ Leave(p, "idle")
  BY DEF Record, msgVars
<1>2. h # "export"
  BY DEF Mapped
<1>3. loaded[p].job = job /\ job # "failed"
      /\ loaded[p].stage = stage[StageOf[h]] /\ stage[StageOf[h]] # "failed"
  BY DEF Current, Arrived
<1>4. stage' = [stage EXCEPT ![StageOf[h]] = "failed"] /\ job' = "failed"
  BY <1>3 DEF Record, MarkFailed, Assign
<1>5. Outcome'
  BY <1>4, RecordedOutcome DEF Typed, TypeOK
<1>6. Alone(h, "nobody")'
  BY <1>1, OwnStep, LineNames DEF InHands, Leave, Places
<1>7. TasksOver'
  BY <1>2, <1>6 DEF Alone, TasksBeside, TasksUntouched, TasksOver
<1>8. Quiet(Events)'
  BY <1>1, <1>6 DEF InHands, Alone, Quiet
<1>9. Resting(LineProcs)'
  BY <1>6, LineNames DEF Alone, Resting
<1>. QED BY <1>5, <1>7, <1>8, <1>9 DEF OneMessage, AtRest

-----------------------------------------------------------------------------
(* The annotation tasks.  While a task's batch is not stored, no other     *)
(* task has taken itself for the last one and committed.                   *)
LEMMA Pending ==
    ASSUME ChainInv, Annotating, NEW t \in Tasks, t \notin rows
    PROVE  /\ lastTasks \cap rows = {}
           /\ job \in {"running", "failed"}
           /\ job = "running" => stage["annotation"] = "running"
           /\ stage["annotation"] # "completed"
<1>1. lastTasks \cap rows = {}
  BY DEF ChainInv, LastCounted
<1>. QED BY <1>1 DEF Annotating, AnnotationStatuses

(* A job that has failed has no last task.                                 *)
LEMMA FailedNoLast ==
    ASSUME ChainInv, Annotating, job = "failed"
    PROVE  lastTasks = {}
<1>1. PICK t \in Tasks : Failed(t)
  BY DEF Annotating, AnnotationStatuses
<1>2. t \notin lastTasks
  BY <1>1 DEF Failed, ChainInv, LastCounted
<1>. QED BY <1>1, <1>2 DEF Failed, ChainInv, LastCounted

(* A step of one task, or of the DLQ worker about it, leaves the others in *)
(* their places.                                                           *)
LEMMA OtherTasks ==
    ASSUME NEW t \in Tasks, NEW u \in Tasks, u # t, TaskPlace(u),
           queue'[u] = queue[u], dead'[u] = dead[u], pc'[u] = pc[u],
           loaded'[u] = loaded[u], u \in rows' <=> u \in rows,
           OfDlq(u)' = OfDlq(u), OfDlq(u) => loaded'["dlq"] = loaded["dlq"],
           \A c \in claims' : c \in claims \/ c[1] = t,
           job = "failed" => job' = "failed"
    PROVE  TaskPlace(u)'
<1>1. Fresh(u) => Fresh(u)'
  BY DEF Fresh
<1>2. Nowhere(u) => Nowhere(u)'
  BY DEF Nowhere
<1>3. Returned(u) => Returned(u)'
  BY <1>1 DEF Returned
<1>4. Labelling(u) => Labelling(u)'
  BY <1>1, <1>2 DEF Labelling
<1>5. Failing(u) => Failing(u)'
  <2>1. Readied(u) => Readied(u)'
    BY DEF Readied
  <2>2. OfDlq(u) /\ Readied("dlq") => Readied("dlq")'
    BY DEF Readied
  <2>. QED BY <1>1, <2>1, <2>2 DEF Failing
<1>6. Stored(u) => Stored(u)'
  BY <1>2 DEF Stored
<1>7. Failed(u) => Failed(u)'
  BY <1>2 DEF Failed
<1>. QED BY <1>3, <1>4, <1>5, <1>6, <1>7 DEF TaskPlace

(* A step of one task that leaves the statuses as they are.                *)
LEMMA TaskStep ==
    ASSUME ChainInv, ChainInv', Annotating, NEW t \in Tasks, TaskPlace(t)', Elsewhere',
           \A u \in Tasks \ {t} :
              /\ queue'[u] = queue[u] /\ dead'[u] = dead[u] /\ pc'[u] = pc[u]
              /\ loaded'[u] = loaded[u] /\ (u \in rows' <=> u \in rows)
              /\ OfDlq(u)' = OfDlq(u) /\ (OfDlq(u) => loaded'["dlq"] = loaded["dlq"])
              /\ u \in lastTasks' <=> u \in lastTasks,
           \A c \in claims' : c \in claims \/ c[1] = t,
           UNCHANGED <<stage, job>>,
           ~Failed(t) \/ Failed(t)',
           t \in lastTasks' \cap rows' <=> t \in lastTasks \cap rows,
           t \in lastTasks' => t \in lastTasks \/ t \notin rows
    PROVE  Annotating'
<1>1. \A u \in Tasks : TaskPlace(u)'
  <2>. SUFFICES ASSUME NEW u \in Tasks, u # t PROVE TaskPlace(u)'
    OBVIOUS
  <2>1. TaskPlace(u)
    BY DEF Annotating
  <2>. QED BY <2>1, OtherTasks
<1>2. lastTasks \subseteq Tasks /\ lastTasks' \subseteq Tasks
  BY DEF ChainInv, Typed, TypeOK
<1>3. \A u, v \in lastTasks' : u = v
  <2>1. CASE t \in lastTasks' /\ t \notin lastTasks
    <3>1. \A u \in lastTasks : u = t
      BY <1>2, <2>1 DEF ChainInv, LastCounted
    <3>. QED BY <1>2, <2>1, <3>1
  <2>2. CASE t \notin lastTasks' \/ t \in lastTasks
    BY <1>2, <2>2 DEF Annotating
  <2>. QED BY <2>1, <2>2
<1>4. lastTasks' \cap rows' = {} <=> lastTasks \cap rows = {}
  BY <1>2
<1>5. \A u \in Tasks : Failed(u) => Failed(u)'
  BY DEF Failed, Nowhere
<1>6. AnnotationStatuses'
  BY <1>4, <1>5 DEF Annotating, AnnotationStatuses
<1>7. \A c \in claims' : c[1] \in Hops \ {"export"}
  BY LineNames DEF Annotating
<1>. QED BY <1>1, <1>3, <1>6, <1>7 DEF Annotating

(* A step of one worker leaves the others where they are.                  *)
LEMMA Apart ==
    ASSUME Typed, Annotating, NEW t \in Tasks, NEW l \in Places,
           pc' = [pc EXCEPT ![t] = l],
           \A e \in Events \ {t} : dead'[e] = dead[e] /\ (e \in Hops => queue'[e] = queue[e]),
           UNCHANGED dlqItem
    PROVE  /\ pc'[t] = l
           /\ Elsewhere'
           /\ \A u \in Tasks \ {t} : /\ queue'[u] = queue[u] /\ dead'[u] = dead[u]
                                     /\ pc'[u] = pc[u]
           /\ \A u \in Tasks : OfDlq(u)' = OfDlq(u)
<1>1. \A q \in Procs : pc'[q] = IF q = t THEN l ELSE pc[q]
  BY DEF Typed, TypeOK
<1>2. pc'["dlq"] = pc["dlq"] /\ \A q \in Line : pc'[q] = pc[q]
  BY <1>1, LineNames
<1>3. Elsewhere'
  <2>1. Quiet(Line \cup Dones)'
    BY LineNames, Names DEF Annotating, Elsewhere, Quiet
  <2>. QED BY <1>2, <2>1 DEF Annotating, Elsewhere, Resting
<1>. QED BY <1>1, <1>2, <1>3, LineNames DEF OfDlq

(* A task's worker takes its event.                                        *)
LEMMA TaskTake ==
    ASSUME ChainInv, ChainInv', Annotating, NEW t \in Tasks, Take(t)
    PROVE  Annotating'
<1>. USE DEF ChainInv
<1>0. t \in Procs /\ t \in Events /\ StageOf[t] = "annotation"
  BY LineNames, StagesOf
<1>1. Returned(t) /\ queue[t] = 1 /\ dead[t] = 0 /\ pc[t] = "idle"
  BY DEF Annotating, TaskPlace, Returned, Labelling, Failing, Stored, Failed, Nowhere, Take
<1>2. <<t, ClaimName[t]>> \notin claims
  <2>1. <<t, ClaimName[t]>>[1] = t
    OBVIOUS
  <2>. QED BY <1>1, <2>1 DEF Returned, Fresh
<1>3. /\ pc' = [pc EXCEPT ![t] = "tx"] /\ Load(t, t)
      /\ UNCHANGED <<dead, dlqItem, lastTasks, claims, rows, stage, job>>
  BY <1>2 DEF Take, dbVars
<1>4. queue'[t] = 0 /\ \A e \in Events \ {t} : queue'[e] = queue[e]
  BY <1>0, <1>1 DEF Take, Typed, TypeOK
<1>5. /\ pc'[t] = "tx" /\ Elsewhere'
      /\ \A u \in Tasks \ {t} : queue'[u] = queue[u] /\ dead'[u] = dead[u] /\ pc'[u] = pc[u]
      /\ \A u \in Tasks : OfDlq(u)' = OfDlq(u)
  BY <1>3, <1>4, Apart DEF Places
<1>6. loaded'[t].stage = stage["annotation"] /\ \A q \in Procs \ {t} : loaded'[q] = loaded[q]
  BY <1>0, <1>3 DEF Load, Typed, TypeOK
<1>7. Labelling(t)'
  <2>1. stage["annotation"] # "completed"
    BY <1>1, Pending DEF Returned, Fresh
  <2>. QED BY <1>1, <1>3, <1>4, <1>5, <1>6, <2>1 DEF Labelling, Nowhere, Fresh, Returned
<1>8. t \notin rows /\ ~Failed(t)
  BY <1>1 DEF Returned, Fresh, Failed, Nowhere
<1>. QED BY <1>3, <1>5, <1>6, <1>7, <1>8, TaskStep, LineNames DEF TaskPlace

(* A task that works on its batch.                                         *)
LEMMA AtWork ==
    ASSUME Annotating, NEW t \in Tasks, pc[t] \in {"tx", "counted"}
    PROVE  Labelling(t) /\ t \notin rows /\ ~Failed(t)
BY DEF Annotating, TaskPlace, Returned, Labelling, Failing, Stored, Failed, Fresh

(* It counts the batches.                                                  *)
LEMMA TaskCount ==
    ASSUME ChainInv, ChainInv', Annotating, NEW t \in Tasks, Count(t)
    PROVE  Annotating'
<1>. USE DEF ChainInv
<1>1. Labelling(t) /\ t \notin rows /\ ~Failed(t)
  BY AtWork DEF Count
<1>2. /\ pc' = [pc EXCEPT ![t] = "counted"]
      /\ lastTasks' = lastTasks \/ lastTasks' = lastTasks \cup {t}
      /\ UNCHANGED <<queue, dead, dlqItem, loaded, claims, rows, stage, job>>
  BY DEF Count, msgVars, dbVars
<1>3. /\ pc'[t] = "counted" /\ Elsewhere'
      /\ \A u \in Tasks \ {t} : queue'[u] = queue[u] /\ dead'[u] = dead[u] /\ pc'[u] = pc[u]
      /\ \A u \in Tasks : OfDlq(u)' = OfDlq(u)
  BY <1>2, Apart DEF Places
<1>4. Labelling(t)'
  BY <1>1, <1>2, <1>3 DEF Labelling, Nowhere, Fresh
<1>. QED BY <1>1, <1>2, <1>3, <1>4, TaskStep, LineNames DEF TaskPlace

(* It fails and its message returns.                                       *)
LEMMA TaskReturns ==
    ASSUME ChainInv, ChainInv', Annotating, NEW t \in Tasks, FailTransiently(t)
    PROVE  Annotating'
<1>. USE DEF ChainInv
<1>0. t \in Procs /\ t \in Events /\ Item(t) = t /\ t # "dlq"
  BY LineNames, Names DEF Item
<1>1. Labelling(t) /\ t \notin rows /\ ~Failed(t)
  BY AtWork DEF FailTransiently
<1>2. /\ pc' = [pc EXCEPT ![t] = "idle"] /\ lastTasks' = lastTasks \ {t}
      /\ \A q \in Procs \ {t} : loaded'[q] = loaded[q]
      /\ UNCHANGED <<dlqItem, claims, rows, stage, job>>
  BY DEF FailTransiently, Leave, dbVars, Typed, TypeOK
<1>3. /\ \/ queue'[t] = 1 /\ dead'[t] = 0
         \/ queue'[t] = 0 /\ dead'[t] = 1
      /\ \A e \in Events \ {t} : dead'[e] = dead[e] /\ queue'[e] = queue[e]
  BY <1>0, <1>1 DEF FailTransiently, Return, ReturnInto, Labelling, Nowhere, Typed, TypeOK
<1>4. /\ pc'[t] = "idle" /\ Elsewhere'
      /\ \A u \in Tasks \ {t} : queue'[u] = queue[u] /\ dead'[u] = dead[u] /\ pc'[u] = pc[u]
      /\ \A u \in Tasks : OfDlq(u)' = OfDlq(u)
  BY <1>2, <1>3, Apart DEF Places
<1>5. Returned(t)'
  BY <1>1, <1>2, <1>3, <1>4 DEF Labelling, Nowhere, Fresh, Returned
<1>. QED BY <1>1, <1>2, <1>4, <1>5, TaskStep, LineNames DEF TaskPlace

(* It fails for good: its worker loads the statuses to record that.        *)
LEMMA TaskFails ==
    ASSUME ChainInv, ChainInv', Annotating, NEW t \in Tasks, FailTerminally(t)
    PROVE  Annotating'
<1>. USE DEF ChainInv
<1>0. t \in Procs /\ t \in Events /\ t \in Mapped /\ StageOf[t] = "annotation" /\ t # "dlq"
  BY LineNames, StagesOf, Names DEF Mapped
<1>1. Labelling(t) /\ t \notin rows /\ ~Failed(t) /\ pc[t] = "tx"
  BY AtWork DEF FailTerminally
<1>2. <<t, FailureClaimName[t]>> \notin claims
  <2>1. <<t, FailureClaimName[t]>>[1] = t
    OBVIOUS
  <2>. QED BY <1>1, <2>1 DEF Labelling, Fresh
<1>3. /\ pc' = [pc EXCEPT ![t] = "record"] /\ Load(t, t)
      /\ UNCHANGED <<queue, dead, dlqItem, lastTasks, claims, rows, stage, job>>
  BY <1>0, <1>2 DEF FailTerminally, msgVars, dbVars
<1>4. /\ pc'[t] = "record" /\ Elsewhere'
      /\ \A u \in Tasks \ {t} : queue'[u] = queue[u] /\ dead'[u] = dead[u] /\ pc'[u] = pc[u]
      /\ \A u \in Tasks : OfDlq(u)' = OfDlq(u)
  BY <1>3, Apart DEF Places
<1>5. /\ loaded'[t].job = job /\ loaded'[t].stage = stage["annotation"]
      /\ \A q \in Procs \ {t} : loaded'[q] = loaded[q]
  BY <1>0, <1>3 DEF Load, Typed, TypeOK
<1>6. Failing(t)'
  <2>1. Readied(t)'
    BY <1>1, <1>3, <1>5, Pending DEF Readied
  <2>. QED BY <1>1, <1>3, <1>4, <2>1 DEF Failing, Labelling, Nowhere, Fresh
<1>. QED BY <1>1, <1>3, <1>4, <1>5, <1>6, TaskStep, LineNames DEF TaskPlace

(* A task that is not the last announces its batch.                        *)
LEMMA TaskAnnounces ==
    ASSUME ChainInv, ChainInv', Annotating, NEW t \in Tasks, t \notin lastTasks, Publish(t)
    PROVE  Annotating'
<1>. USE DEF ChainInv
<1>1. Stored(t)
  BY DEF Annotating, TaskPlace, Returned, Labelling, Failing, Failed, Publish
<1>2. /\ pc' = [pc EXCEPT ![t] = "idle"] /\ lastTasks' = lastTasks \ {t}
      /\ \A q \in Procs \ {t} : loaded'[q] = loaded[q]
      /\ UNCHANGED <<dead, dlqItem, claims, rows, stage, job>>
  BY DEF Publish, Leave, dbVars, Typed, TypeOK
<1>3. \A e \in Hops : queue'[e] = queue[e]
  BY DoneSent
<1>4. /\ pc'[t] = "idle" /\ Elsewhere'
      /\ \A u \in Tasks \ {t} : queue'[u] = queue[u] /\ dead'[u] = dead[u] /\ pc'[u] = pc[u]
      /\ \A u \in Tasks : OfDlq(u)' = OfDlq(u)
  BY <1>2, <1>3, Apart DEF Places
<1>5. Stored(t)'
  BY <1>1, <1>2, <1>3, <1>4, LineNames DEF Stored, Nowhere
<1>6. ~Failed(t)
  BY <1>1 DEF Stored, Failed
<1>. QED BY <1>1, <1>2, <1>4, <1>5, <1>6, TaskStep, LineNames DEF TaskPlace, Stored

(* The last one announces that the stage is complete, and export's event   *)
(* waits.                                                                  *)
LEMMA LastAnnounces ==
    ASSUME ChainInv, ChainInv', Annotating, NEW t \in Tasks, t \in lastTasks, Publish(t)
    PROVE  Waiting("export")'
<1>. USE DEF ChainInv
<1>1. Tasks \subseteq rows /\ pc[t] = "publish"
  BY DEF LastCounted, Publish
<1>2. \A u \in Tasks : Stored(u)
  BY <1>1 DEF Annotating, TaskPlace, Returned, Labelling, Failing, Failed, Fresh
<1>3. /\ pc' = [pc EXCEPT ![t] = "idle"] /\ lastTasks' = lastTasks \ {t}
      /\ UNCHANGED <<dead, dlqItem, claims, rows, stage, job>>
  BY DEF Publish, Leave, dbVars
<1>4. lastTasks' = {}
  BY <1>3 DEF Annotating
<1>5. \A e \in Hops : queue'[e] = IF e = "export" THEN queue[e] + 1 ELSE queue[e]
  <2>1. Outbox(t) = <<Completion[t], "export">>
    BY LineNames DEF Outbox, Line
  <2>2. Sent(t, Len(Outbox(t))) = {Completion[t], "export"}
    <3>1. Len(Outbox(t)) = 2 /\ Outbox(t)[1] = Completion[t] /\ Outbox(t)[2] = "export"
      BY <2>1
    <3>2. 1..2 = {1, 2}
      OBVIOUS
    <3>. QED BY <3>1, <3>2 DEF Sent
  <2>3. Completion[t] \notin Hops
    BY Names DEF Dones
  <2>. QED BY <2>2, <2>3, Names DEF Publish, Deliver
<1>6. \A q \in Procs : pc'[q] = IF q = t THEN "idle" ELSE pc[q]
  BY <1>3 DEF Typed, TypeOK
<1>7. pc["dlq"] = "idle"
  BY <1>2 DEF Annotating, Elsewhere, Stored, Nowhere, OfDlq
<1>8. Resting(LineProcs)'
  BY <1>6, <1>7, LineNames DEF Annotating, Elsewhere, Resting, LineProcs
<1>9. TasksOver'
  BY <1>2, <1>4, <1>6, LineNames DEF TasksOver, Stored
<1>10. \A e \in Events : dead[e] = 0 /\ (e \in Hops => queue[e] = 0)
  BY <1>2, LineNames DEF Annotating, Elsewhere, Quiet, Stored, Nowhere, Events
<1>11. Quiet(Events \ {"export"})' /\ queue'["export"] = 1 /\ dead'["export"] = 0
  BY <1>3, <1>5, <1>10, LineNames DEF Quiet
<1>12. Arrived("export")'
  <2>1. job = "running" /\ stage["annotation"] = "completed"
    BY <1>1, <1>2 DEF Annotating, AnnotationStatuses, Stored, Failed
  <2>2. /\ stage["intake"] = "completed" /\ stage["preprocessing"] = "completed"
        /\ stage["planning"] = "completed" /\ stage["export"] = "pending"
    BY LineNames DEF Annotating, StagesBefore
  <2>3. \A c \in claims : c[1] \in Before["export"]
    BY LineNames DEF Annotating, Before
  <2>4. /\ StagesBefore["export"] = Stages \ {"export"} /\ StageOf["export"] = "export"
        /\ Stages = {"intake", "preprocessing", "planning", "annotation", "export"}
    BY StagesOf, LineNames DEF StagesBefore, Stages, PipelineStageNames
  <2>. QED BY <1>3, <2>1, <2>2, <2>3, <2>4 DEF Arrived, Around
<1>. QED BY <1>8, <1>9, <1>11, <1>12 DEF Waiting, Alone, TasksBeside, Resting

(* A task commits its batch, the last one the stage with it.               *)
LEMMA TaskCommits ==
    ASSUME ChainInv, ChainInv', Annotating, NEW t \in Tasks, Commit(t)
    PROVE  Annotating'
<1>. USE DEF ChainInv
<1>0. t \in Procs /\ t \in Events /\ StageOf[t] = "annotation" /\ "annotation" \in Stages
      /\ t # "fanout" /\ t # "intake" /\ t # "export"
  BY LineNames, StagesOf
<1>1. Labelling(t) /\ t \notin rows /\ ~Failed(t)
  BY AtWork DEF Commit
<1>2. /\ pc' = [pc EXCEPT ![t] = "publish"] /\ lastTasks' = lastTasks
      /\ rows' = rows \cup {t}
      /\ claims' = claims \cup {<<t, ClaimName[t]>>}
      /\ \A q \in Procs \ {t} : loaded'[q] = loaded[q]
      /\ UNCHANGED <<queue, dead, dlqItem, job>>
  BY <1>0 DEF Commit, Leave, JobAfter, msgVars, Typed, TypeOK
<1>3. /\ pc'[t] = "publish" /\ Elsewhere'
      /\ \A u \in Tasks \ {t} : queue'[u] = queue[u] /\ dead'[u] = dead[u] /\ pc'[u] = pc[u]
      /\ \A u \in Tasks : OfDlq(u)' = OfDlq(u)
  BY <1>2, Apart DEF Places
<1>4. Stored(t)'
  BY <1>1, <1>2, <1>3 DEF Stored, Labelling, Nowhere
<1>5. \A c \in claims' : c \in claims \/ c[1] = t
  <2>1. <<t, ClaimName[t]>>[1] = t
    OBVIOUS
  <2>. QED BY <1>2, <2>1
<1>6. /\ t \notin lastTasks => stage' = stage
      /\ t \in lastTasks => stage' = [stage EXCEPT !["annotation"] = "completed"]
  BY <1>0, <1>1 DEF Commit, StageAfter, Assign, Labelling, Typed, TypeOK
<1>7. CASE t \notin lastTasks
  BY <1>1, <1>2, <1>3, <1>4, <1>5, <1>6, <1>7, TaskStep, LineNames DEF TaskPlace
<1>8. CASE t \in lastTasks
  <2>1. job = "running"
    BY <1>8, FailedNoLast DEF Annotating, AnnotationStatuses
  <2>2. \A u \in Tasks : TaskPlace(u)'
    <3>. SUFFICES ASSUME NEW u \in Tasks, u # t PROVE TaskPlace(u)'
      BY <1>4 DEF TaskPlace
    <3>1. TaskPlace(u) /\ loaded'[u] = loaded[u] /\ loaded'["dlq"] = loaded["dlq"]
      BY <1>2, LineNames, Names DEF Annotating
    <3>. QED BY <1>2, <1>3, <1>5, <3>1, OtherTasks
  <2>3. \A s \in Stages : stage'[s] = IF s = "annotation" THEN "completed" ELSE stage[s]
    BY <1>0, <1>6, <1>8 DEF Typed, TypeOK
  <2>4. AnnotationStatuses'
    BY <1>0, <1>2, <1>8, <2>1, <2>3 DEF AnnotationStatuses
  <2>5. /\ \A s \in StagesBefore["fanout"] : stage'[s] = "completed"
        /\ stage'["export"] = "pending"
    BY <2>3, StagesOf, LineNames DEF Annotating, StagesBefore, Stages, PipelineStageNames
  <2>6. \A c \in claims' : c[1] \in Hops \ {"export"}
    BY <1>5, LineNames DEF Annotating
  <2>. QED BY <1>2, <1>3, <2>2, <2>4, <2>5, <2>6 DEF Annotating
<1>. QED BY <1>7, <1>8

(* The DLQ worker takes a task's event.                                    *)
LEMMA TaskBuried ==
    ASSUME ChainInv, ChainInv', Annotating, NEW e \in Events, TakeDead(e)
    PROVE  Annotating'
<1>. USE DEF ChainInv
<1>1. e \in Tasks
  BY DEF TakeDead, Annotating, Elsewhere, Quiet, Events, Hops
<1>0. e \in Procs /\ StageOf[e] = "annotation" /\ "dlq" \in Procs
  BY <1>1, LineNames, Names, StagesOf
<1>2. Returned(e) /\ queue[e] = 0 /\ dead[e] = 1 /\ pc["dlq"] = "idle"
  BY <1>1 DEF Annotating, TaskPlace, Returned, Labelling, Failing, Stored, Failed, Nowhere,
              TakeDead
<1>3. <<e, "dlq">> \notin claims
  <2>1. <<e, "dlq">>[1] = e
    OBVIOUS
  <2>. QED BY <1>2, <2>1 DEF Returned, Fresh
<1>4. /\ pc' = [pc EXCEPT !["dlq"] = "record"] /\ dlqItem' = e /\ Load("dlq", e)
      /\ UNCHANGED <<queue, lastTasks, claims, rows, stage, job>>
  BY <1>3 DEF TakeDead, dbVars
<1>5. dead'[e] = 0 /\ \A k \in Events \ {e} : dead'[k] = dead[k]
  BY <1>2 DEF TakeDead, Typed, TypeOK
<1>6. pc'["dlq"] = "record" /\ \A q \in Procs \ {"dlq"} : pc'[q] = pc[q] /\ loaded'[q] = loaded[q]
  BY <1>0, <1>4 DEF Load, Typed, TypeOK
<1>7. loaded'["dlq"].job = job /\ loaded'["dlq"].stage = stage["annotation"]
  BY <1>0, <1>4 DEF Load, Typed, TypeOK
<1>8. Elsewhere'
  <2>1. Quiet(Line \cup Dones)'
    BY <1>1, <1>4, <1>5, LineNames, Names DEF Annotating, Elsewhere, Quiet
  <2>2. Resting(Line)'
    BY <1>6, LineNames DEF Annotating, Elsewhere, Resting
  <2>. QED BY <1>1, <1>4, <1>6, <2>1, <2>2 DEF Elsewhere
<1>9. Failing(e)'
  <2>1. Readied("dlq")'
    BY <1>1, <1>2, <1>4, <1>7, Pending DEF Readied, Returned, Fresh
  <2>2. pc'[e] = "idle"
    BY <1>0, <1>1, <1>2, <1>6, LineNames DEF Returned, LineProcs
  <2>. QED BY <1>2, <1>4, <1>5, <1>6, <2>1, <2>2 DEF Failing, Returned, Fresh, OfDlq
<1>10. \A u \in Tasks \ {e} : OfDlq(u)' = OfDlq(u) /\ ~OfDlq(u)
  BY <1>2, <1>4, <1>6 DEF OfDlq
<1>11. e \notin rows /\ ~Failed(e)
  BY <1>2 DEF Returned, Fresh, Failed, Nowhere
<1>. QED BY <1>1, <1>4, <1>5, <1>6, <1>8, <1>9, <1>10, <1>11, TaskStep, LineNames, Names
     DEF TaskPlace, LineProcs

(* A task's failure is recorded, by its own worker or by the DLQ worker:   *)
(* stage and job have failed, whatever they were.                          *)
LEMMA TaskRecorded ==
    ASSUME ChainInv, ChainInv', Annotating, NEW p \in Procs, Record(p)
    PROVE  Annotating' /\ (job = "failed" => UNCHANGED <<stage, job>>)
<1>. USE DEF ChainInv
<1>1. PICK t \in Tasks : p = t \/ (p = "dlq" /\ dlqItem = t)
  BY LineNames DEF Record, Annotating, Elsewhere, Resting, LineProcs
<1>0. /\ t \in Procs /\ t # "dlq" /\ Item(p) = t /\ StageOf[t] = "annotation"
      /\ "annotation" \in Stages /\ "dlq" \in Procs
  BY <1>1, LineNames, Names, StagesOf DEF Item
<1>2. Failing(t) /\ Readied(p) /\ (p = t => ~OfDlq(t)) /\ (p = "dlq" => OfDlq(t) /\ pc[t] = "idle")
  <2>1. pc[p] = "record"
    BY DEF Record
  <2>2. pc[t] = "record" \/ OfDlq(t)
    BY <1>1, <2>1 DEF OfDlq
  <2>3. Failing(t)
    BY <2>2 DEF Annotating, TaskPlace, Returned, Labelling, Stored, Failed, Nowhere
  <2>. QED BY <1>0, <1>1, <2>1, <2>3 DEF Failing, OfDlq
<1>3. /\ pc' = [pc EXCEPT ![p] = "idle"] /\ lastTasks' = lastTasks \ {p}
      /\ claims' = claims \cup {<<t, FailureClaimName[p]>>}
      /\ \A q \in Procs \ {p} : loaded'[q] = loaded[q]
      /\ UNCHANGED <<queue, dead, dlqItem, rows>>
  BY <1>0 DEF Record, Leave, msgVars, Typed, TypeOK
<1>4. \A q \in Procs : pc'[q] = IF q = p THEN "idle" ELSE pc[q]
  BY <1>3 DEF Typed, TypeOK
<1>5. /\ job' = "failed" /\ stage'["annotation"] = "failed"
      /\ \A s \in Stages \ {"annotation"} : stage'[s] = stage[s]
      /\ job = "failed" => stage' = stage
  <2>1. CASE loaded[p].job = "failed"
    BY <1>0, <1>2, <2>1 DEF Record, MarkFailed, Readied, Annotating, AnnotationStatuses
  <2>2. CASE loaded[p].job = "running"
    <3>1. stage' = [stage EXCEPT !["annotation"] = "failed"] /\ job' = "failed"
      BY <1>0, <1>2, <2>2 DEF Record, MarkFailed, Assign, Readied
    <3>2. job = "failed" => stage' = stage
      BY <1>0, <3>1 DEF Annotating, AnnotationStatuses, Typed, TypeOK
    <3>. QED BY <1>0, <3>1, <3>2 DEF Typed, TypeOK
  <2>. QED BY <1>2, <2>1, <2>2 DEF Readied
<1>6. \A c \in claims' : c \in claims \/ c[1] = t
  <2>1. <<t, FailureClaimName[p]>>[1] = t
    OBVIOUS
  <2>. QED BY <1>3, <2>1
<1>7. pc'[t] = "idle" /\ ~OfDlq(t)' /\ \A u \in Tasks \ {t} : OfDlq(u)' = OfDlq(u)
  BY <1>0, <1>1, <1>2, <1>3, <1>4 DEF Failing, OfDlq
<1>8. Failed(t)'
  BY <1>2, <1>3, <1>5, <1>7 DEF Failing, Failed, Fresh, Nowhere
<1>9. ASSUME NEW u \in Tasks PROVE TaskPlace(u)'
  <2>1. CASE u = t
    BY <1>8, <2>1 DEF TaskPlace
  <2>2. CASE u # t
    <3>0. u \in Procs \ {p} /\ TaskPlace(u)
      BY <1>1, <2>2, LineNames, Names DEF Annotating
    <3>1. OfDlq(u) => loaded'["dlq"] = loaded["dlq"]
      BY <1>0, <1>1, <1>3, <2>2 DEF OfDlq
    <3>2. pc'[u] = pc[u] /\ loaded'[u] = loaded[u]
      BY <1>3, <1>4, <3>0
    <3>. QED BY <1>3, <1>5, <1>6, <1>7, <2>2, <3>0, <3>1, <3>2, OtherTasks
  <2>. QED BY <2>1, <2>2
<1>10. Elsewhere'
  <2>1. Quiet(Line \cup Dones)'
    BY <1>3 DEF Annotating, Elsewhere, Quiet
  <2>2. Resting(Line)'
    BY <1>4, LineNames DEF Annotating, Elsewhere, Resting
  <2>3. pc'["dlq"] = "idle" \/ (pc'["dlq"] = "record" /\ dlqItem' \in Tasks)
    BY <1>0, <1>3, <1>4 DEF Annotating, Elsewhere
  <2>. QED BY <2>1, <2>2, <2>3 DEF Elsewhere
<1>11. /\ \A s \in StagesBefore["fanout"] : stage'[s] = "completed"
       /\ stage'["export"] = "pending"
  BY <1>5, LineNames DEF Annotating, StagesBefore, Stages, PipelineStageNames
<1>12. \A c \in claims' : c[1] \in Hops \ {"export"}
  BY <1>6, LineNames DEF Annotating
<1>13. AnnotationStatuses'
  BY <1>5, <1>8 DEF AnnotationStatuses
<1>14. \A u, v \in lastTasks' : u = v
  BY <1>3 DEF Annotating
<1>. QED BY <1>5, <1>9, <1>10, <1>11, <1>12, <1>13, <1>14 DEF Annotating

(* Nothing but the message to a waiting lock or a skipped completion.      *)
LEMMA AnnotatingStill ==
    ASSUME Typed, Annotating,
           UNCHANGED vars \/ (\E p \in Procs : Lock(p)) \/ (\E d \in Dones : Skip(d))
    PROVE  Annotating'
<1>1. /\ UNCHANGED <<dead, pc, dlqItem, loaded, lastTasks, claims, rows, stage, job>>
  BY DEF vars, msgVars, txVars, dbVars, Lock, Skip
<1>2. \A e \in Hops : queue'[e] = queue[e]
  BY StillBeside DEF Beside
<1>3. Elsewhere'
  BY <1>1, <1>2 DEF Annotating, Elsewhere, Quiet, Resting
<1>4. \A t \in Tasks : TaskPlace(t)' = TaskPlace(t) /\ Failed(t)' = Failed(t)
  BY <1>1, <1>2, LineNames
  DEF TaskPlace, Returned, Labelling, Failing, Stored, Failed, Nowhere, Fresh, OfDlq, Readied
<1>5. AnnotationStatuses'
  BY <1>1, <1>4 DEF Annotating, AnnotationStatuses
<1>. QED BY <1>1, <1>3, <1>4, <1>5 DEF Annotating

(* What happens while tasks are under way.                                 *)
LEMMA FromAnnotating ==
    ASSUME ChainInv, ChainInv', Undisturbed', Annotating, [Next]_vars
    PROVE  /\ Annotating' \/ Waiting("export")'
           /\ job = "failed" => UNCHANGED <<stage, job>>
<1>0. Typed
  BY DEF ChainInv
<1>1. CASE UNCHANGED vars \/ (\E p \in Procs : Lock(p)) \/ (\E d \in Dones : Skip(d))
  BY <1>0, <1>1, AnnotatingStill DEF vars, dbVars, Lock, Skip
<1>2. ASSUME NEW p \in Procs, Record(p)
      PROVE  Annotating' /\ (job = "failed" => UNCHANGED <<stage, job>>)
  BY <1>2, TaskRecorded
<1>3. ASSUME NEW t \in Tasks, Work(t)
      PROVE  /\ Annotating' \/ Waiting("export")'
             /\ job = "failed" => UNCHANGED <<stage, job>>
  <2>0. t \in Procs /\ ~PublishFails(t) /\ ~RecordFails(t)
    BY LineNames, SpendDisturbs DEF PublishFails, PublishFault, RecordFails
  <2>1. CASE Take(t) \/ Count(t) \/ FailTransiently(t) \/ FailTerminally(t)
    BY <2>1, TaskTake, TaskCount, TaskReturns, TaskFails
    DEF Take, Count, FailTransiently, FailTerminally, dbVars
  <2>2. CASE Publish(t)
    BY <2>2, TaskAnnounces, LastAnnounces DEF Publish, dbVars
  <2>3. CASE Commit(t)
    <3>1. job = "failed" => UNCHANGED <<stage, job>>
      <4>. SUFFICES ASSUME job = "failed" PROVE UNCHANGED <<stage, job>>
        OBVIOUS
      <4>1. t \notin lastTasks
        BY FailedNoLast
      <4>2. t # "fanout" /\ t # "intake" /\ t # "export" /\ StageOf[t] = "annotation"
        BY LineNames, StagesOf
      <4>3. StageAfter(t) = stage["annotation"] /\ JobAfter(t) = job
        BY <4>1, <4>2 DEF StageAfter, JobAfter
      <4>4. stage' = [stage EXCEPT !["annotation"] = stage["annotation"]] /\ job' = job
        BY <2>3, <4>2, <4>3 DEF Commit
      <4>. QED BY <1>0, <4>4 DEF Typed, TypeOK
    <3>. QED BY <2>3, <3>1, TaskCommits
  <2>. QED BY <1>1, <1>2, <1>3, <2>0, <2>1, <2>2, <2>3, LineNames DEF Work
<1>4. ASSUME NEW h \in Line, Work(h)
      PROVE  Annotating' /\ (job = "failed" => UNCHANGED <<stage, job>>)
  <2>1. pc[h] = "idle" /\ queue[h] = 0
    BY LineNames DEF Annotating, Elsewhere, Resting, Quiet
  <2>2. \E d \in Dones : Skip(d)
    BY <1>4, <2>1, LineNames
    DEF Work, Take, Lock, InTx, Commit, FailTransiently, FailTerminally, Record, RecordFails,
        Publish, PublishFails
  <2>3. Annotating'
    BY <1>0, <2>2, AnnotatingStill
  <2>4. UNCHANGED <<stage, job>>
    BY <2>2 DEF Skip, dbVars
  <2>. QED BY <2>3, <2>4
<1>5. ASSUME NEW e \in Events, TakeDead(e)
      PROVE  Annotating' /\ (job = "failed" => UNCHANGED <<stage, job>>)
  BY <1>5, TaskBuried DEF TakeDead, dbVars
<1>6. ASSUME NEW p \in Procs PROVE ~DeadlockAbort(p)
  BY <1>0, NoDeadlock, LineNames DEF Annotating, Elsewhere, Resting
<1>. QED BY <1>1, <1>2, <1>3, <1>4, <1>5, <1>6, Disturbing, LineNames, Names
     DEF Next, WorkDlq, Terminated

-----------------------------------------------------------------------------
(* A fault that happened has happened.                                     *)
LEMMA SpentGrows ==
    ASSUME [Next]_vars
    PROVE  spent \subseteq spent'
<1>1. ASSUME NEW h \in Hops, Work(h) PROVE spent \subseteq spent'
  BY <1>1 DEF Work, Take, Lock, Commit, Publish, PublishFails, FailTransiently,
              FailTerminally, Record, RecordFails, Spend, Count, Skip, faultVars
<1>2. ASSUME NEW e \in Events, Duplicate(e) \/ Redrive(e) \/ TakeDead(e)
      PROVE  spent \subseteq spent'
  BY <1>2 DEF Duplicate, Redrive, TakeDead, Spend, faultVars
<1>3. CASE WorkDlq
  BY <1>2, <1>3 DEF WorkDlq, Lock, Record, RecordFails, Spend, faultVars
<1>4. ASSUME NEW p \in Procs, DeadlockAbort(p) \/ Crash(p) PROVE spent \subseteq spent'
  BY <1>4 DEF DeadlockAbort, Crash, Spend, faultVars
<1>. QED BY <1>1, <1>2, <1>3, <1>4 DEF Next, Terminated, vars, faultVars

(* The inductive invariant of an undisturbed job.                          *)
SingleInv == ChainInv /\ Single

(* Every step takes the one message, or one of the tasks', to its next     *)
(* place.                                                                  *)
LEMMA StepSingle == SingleInv /\ [Next]_vars => SingleInv'
<1>. SUFFICES ASSUME SingleInv, [Next]_vars, Undisturbed' PROVE OneMessage'
  BY StepChain DEF SingleInv, Single
<1>1. ChainInv /\ ChainInv' /\ Typed /\ Typed'
  BY StepChain DEF SingleInv, ChainInv
<1>2. OneMessage
  BY SpentGrows DEF SingleInv, Single, Undisturbed
<1>3. ASSUME Beside, ~Annotating PROVE OneMessage'
  BY <1>2, <1>3, BesideKeeps DEF OneMessage
<1>4. CASE Annotating
  BY <1>1, <1>4, FromAnnotating, LineNames DEF OneMessage
<1>5. CASE AtRest
  <2>1. /\ \A e \in Events : dead[e] = 0 /\ (e \in Hops => queue[e] = 0)
        /\ \A t \in Tasks : pc[t] \in {"idle", "publish"} /\ t \notin lastTasks
        /\ Resting(LineProcs)
    BY <1>5 DEF AtRest, Quiet, TasksOver
  <2>2. Beside
    BY <1>1, <2>1, FromIdle, LineNames
  <2>. QED BY <1>5, <2>2, BesideKeeps
<1>6. ASSUME NEW h \in Line, Waiting(h) \/ Buried(h) PROVE OneMessage'
  <2>1. /\ \A e \in Events \ {h} : dead[e] = 0 /\ (e \in Hops => queue[e] = 0)
        /\ \A t \in Tasks : pc[t] \in {"idle", "publish"} /\ t \notin lastTasks
        /\ Resting(LineProcs)
    BY <1>6, LineNames
    DEF Waiting, Buried, Alone, Quiet, TasksBeside, TasksOver, TasksUntouched, Resting
  <2>2. \/ Beside
        \/ \E k \in Line : queue[k] > 0 /\ Take(k)
        \/ \E e \in Events : dead[e] > 0 /\ TakeDead(e)
    BY <1>1, <2>1, FromIdle, LineNames
  <2>3. CASE Beside
    BY <1>6, <2>3, BesideKeeps
  <2>4. ASSUME NEW k \in Line, queue[k] > 0, Take(k) PROVE OneMessage'
    <3>1. k = h
      BY <2>1, <2>4, LineNames
    <3>2. Waiting(h)
      BY <1>6, <2>4, <3>1 DEF Buried
    <3>. QED BY <1>1, <2>4, <3>2, TakeWaiting DEF OneMessage
  <2>5. ASSUME NEW e \in Events, dead[e] > 0, TakeDead(e) PROVE OneMessage'
    <3>1. e = h
      BY <2>1, <2>5
    <3>2. Buried(h)
      BY <1>6, <2>5, <3>1 DEF Waiting
    <3>. QED BY <1>1, <2>5, <3>2, TakeBuried, LineNames DEF OneMessage
  <2>. QED BY <2>2, <2>3, <2>4, <2>5
<1>7. ASSUME NEW h \in Line, Working(h) \/ Announcing(h) PROVE OneMessage'
  <2>1. h \in LineProcs /\ h # "dlq" /\ (InHands(h, h, "tx") \/ InHands(h, h, "publish"))
    BY <1>7, LineNames DEF Working, Announcing
  <2>2. Beside \/ Work(h)
    BY <1>1, <2>1, FromWorker
  <2>. QED BY <1>1, <1>7, <2>2, BesideKeeps, FromWorking, FromAnnouncing
<1>8. ASSUME NEW h \in Line, NEW p \in LineProcs, Recording(h, p) PROVE OneMessage'
  <2>1. InHands(h, p, "record") /\ pc[p] = "record"
    BY <1>8 DEF Recording, InHands
  <2>2. Beside \/ (p \in Line /\ Work(p)) \/ (p = "dlq" /\ Record("dlq"))
    BY <1>1, <2>1, FromWorker
  <2>3. ASSUME p \in Line, Work(p)
        PROVE  Record(p) \/ Lock(p) \/ \E d \in Dones : Skip(d)
    BY <2>1, <2>3, SpendDisturbs, LineNames
    DEF Work, Take, Commit, Publish, PublishFails, FailTransiently, FailTerminally, RecordFails
  <2>4. Beside \/ Record(p)
    BY <1>1, <2>2, <2>3, StillBeside, LineNames
  <2>. QED BY <1>1, <1>8, <2>4, BesideKeeps, FromRecording
<1>. QED BY <1>2, <1>4, <1>5, <1>6, <1>7, <1>8 DEF OneMessage

(* The message is single throughout.                                       *)
LEMMA SingleHolds == Spec => []SingleInv
<1>1. Init => SingleInv
  BY InitChain, InitSingle DEF SingleInv
<1>. QED BY <1>1, StepSingle, PTL DEF Spec

(* Where tasks may rest, all of them are stored without one being the last *)
(* or one has failed.                                                      *)
LEMMA AnnotatingAgrees ==
    ASSUME ChainInv, Annotating, Quiescent
    PROVE  \/ job = "failed" /\ FailedIn(4)
           \/ job = "running" /\ LostFanIn /\ stage["export"] = "pending"
<1>1. \A t \in Tasks : Stored(t) \/ Failed(t)
  <2>. SUFFICES ASSUME NEW t \in Tasks PROVE Stored(t) \/ Failed(t)
    OBVIOUS
  <2>1. pc[t] = "idle" /\ queue[t] = 0 /\ dead[t] = 0 /\ pc["dlq"] = "idle"
    BY LineNames, Names DEF Quiescent, Mapped
  <2>. QED BY <2>1 DEF Annotating, TaskPlace, Returned, Labelling, Failing, OfDlq
<1>2. lastTasks = {}
  <2>1. lastTasks \subseteq Procs
    BY LineNames DEF ChainInv, Typed, TypeOK
  <2>. QED BY <2>1 DEF ChainInv, LastCounted, Quiescent
<1>3. CASE job = "failed"
  <2>1. /\ stage["intake"] = "completed" /\ stage["preprocessing"] = "completed"
        /\ stage["planning"] = "completed" /\ stage["export"] = "pending"
    BY LineNames DEF Annotating, StagesBefore
  <2>2. stage["annotation"] = "failed"
    BY <1>3 DEF Annotating, AnnotationStatuses
  <2>. QED BY <1>3, <2>1, <2>2 DEF FailedIn, PipelineStageNames
<1>4. CASE job # "failed"
  <2>1. Tasks \subseteq rows
    BY <1>1, <1>4 DEF Stored, Failed
  <2>. QED BY <1>2, <1>4, <2>1 DEF Annotating, AnnotationStatuses, LostFanIn
<1>. QED BY <1>3, <1>4

(* Where a message may rest, the statuses agree.                           *)
LEMMA SingleAgrees == SingleInv => StatusesAgree
<1>. SUFFICES ASSUME SingleInv, Undisturbed, Quiescent
              PROVE  \/ job = "completed" /\ \A s \in Stages : stage[s] = "completed"
                     \/ job = "failed" /\ \E i \in 1..5 : FailedIn(i)
                     \/ job = "running" /\ dead["export"] > 0
                     \/ job = "running" /\ LostFanIn /\ stage["export"] = "pending"
  BY DEF StatusesAgree
<1>1. OneMessage
  BY DEF SingleInv, Single
<1>2. CASE AtRest
  BY <1>2 DEF AtRest, Outcome
<1>3. CASE Annotating
  BY <1>3, AnnotatingAgrees DEF SingleInv
<1>4. ASSUME NEW h \in Line
      PROVE  ~Waiting(h) /\ ~Working(h) /\ ~Announcing(h) /\ \A p \in LineProcs : ~Recording(h, p)
  BY LineNames DEF Waiting, Working, Announcing, Recording, InHands, Quiescent
<1>5. ASSUME NEW h \in Line, Buried(h)
      PROVE  \/ job = "completed" /\ \A s \in Stages : stage[s] = "completed"
             \/ job = "running" /\ dead["export"] > 0
  <2>1. h = "export" /\ dead["export"] = 1
    BY <1>5, LineNames DEF Buried, Quiescent, Mapped
  <2>2. StagesBefore["export"] = Stages \ {"export"}
    BY LineNames DEF StagesBefore
  <2>. QED BY <1>5, <2>1, <2>2 DEF Buried, Arrived, Around
<1>. QED BY <1>1, <1>2, <1>3, <1>4, <1>5 DEF OneMessage

(* An undisturbed job comes to rest completed everywhere, failed in one    *)
(* stage with those before it completed and those after it untouched, or   *)
(* running: with export's event in the dead-letter queue, or with its last *)
(* tasks' counts each short of the other's batch.                          *)
THEOREM StatusesAlwaysAgree == Spec => []StatusesAgree
BY SingleHolds, SingleAgrees, PTL

-----------------------------------------------------------------------------
(* A job with a message on the line has not failed; one with a message and *)
(* completed is in export, for which every stage is completed.             *)
LEMMA TerminalStates ==
    ASSUME OneMessage, job \in Terminal
    PROVE  \/ AtRest
           \/ Annotating /\ job = "failed"
           \/ /\ job = "completed"
              /\ \A s \in Stages : stage[s] = "completed"
              /\ Waiting("export") \/ Buried("export") \/ Working("export")
                 \/ Announcing("export")
<1>. USE DEF Terminal
<1>0. StagesBefore["export"] = Stages \ {"export"} /\ StageOf["export"] = "export"
  BY StagesOf, LineNames DEF StagesBefore
<1>1. ASSUME NEW h \in Line, Arrived(h)
      PROVE  /\ h = "export" /\ job = "completed"
             /\ \A s \in Stages : stage[s] = "completed"
  <2>1. h = "export" /\ job = "completed" /\ stage["export"] = "completed"
    BY <1>1 DEF Arrived
  <2>. QED BY <1>0, <1>1, <2>1 DEF Arrived, Around
<1>2. ASSUME NEW h \in Line, Handled(h)
      PROVE  /\ h = "export" /\ job = "completed"
             /\ \A s \in Stages : stage[s] = "completed"
  <2>1. h = "export" /\ job = "completed"
    BY <1>2 DEF Handled
  <2>. QED BY <1>0, <1>2, <2>1 DEF Handled, Around
<1>3. ASSUME NEW h \in Line, NEW p \in LineProcs PROVE ~Recording(h, p)
  BY <1>1 DEF Recording, Mapped
<1>4. Annotating => job = "failed"
  BY DEF Annotating, AnnotationStatuses
<1>. QED BY <1>1, <1>2, <1>3, <1>4 DEF OneMessage, Waiting, Buried, Working, Announcing

(* Nothing changes the statuses of an undisturbed job once it is terminal, *)
(* neither a second run of export nor the tasks beside the failed one.     *)
LEMMA TerminalFrozen ==
    ASSUME SingleInv, Undisturbed', job \in Terminal, [Next]_vars
    PROVE  UNCHANGED <<job, stage>>
<1>1. ChainInv /\ ChainInv' /\ Typed /\ OneMessage
  BY SpentGrows, StepChain DEF SingleInv, Single, Undisturbed, ChainInv
<1>2. CASE Beside
  BY <1>2 DEF Beside, dbVars
<1>3. CASE Annotating /\ job = "failed"
  BY <1>1, <1>3, FromAnnotating
<1>4. CASE AtRest \/ Waiting("export") \/ Buried("export")
  <2>1. /\ \A t \in Tasks : pc[t] \in {"idle", "publish"} /\ t \notin lastTasks /\ queue[t] = 0
        /\ Resting(LineProcs)
    BY <1>4, LineNames
    DEF AtRest, Waiting, Buried, Alone, Quiet, TasksBeside, TasksOver, Resting
  <2>2. \/ Beside
        \/ \E k \in Line : Take(k)
        \/ \E e \in Events : TakeDead(e)
    BY <1>1, <2>1, FromIdle
  <2>. QED BY <1>2, <2>2 DEF Take, TakeDead, dbVars
<1>5. ASSUME Working("export") \/ Announcing("export"), job = "completed",
             \A s \in Stages : stage[s] = "completed"
      PROVE  UNCHANGED <<job, stage>>
  <2>1. /\ "export" \in LineProcs /\ "export" \in Line /\ StageOf["export"] = "export"
        /\ "export" # "dlq" /\ "export" \in Stages /\ "export" \notin Tasks
    BY LineNames, StagesOf
  <2>2. Beside \/ Work("export")
    BY <1>1, <1>5, <2>1, FromWorker DEF Working, Announcing
  <2>3. CASE Commit("export")
    <3>1. "export" \notin lastTasks
      BY <1>1, <2>1 DEF Typed, TypeOK
    <3>2. stage' = [stage EXCEPT !["export"] = "completed"]
      BY <2>1, <2>3, <3>1 DEF Commit, StageAfter
    <3>3. stage \in [Stages -> Statuses]
      BY <1>1 DEF Typed, TypeOK
    <3>4. stage' = stage
      BY <1>5, <2>1, <3>2, <3>3
    <3>. QED BY <1>5, <2>3, <3>4 DEF Commit, JobAfter, Assign
  <2>4. pc["export"] # "record"
    BY <1>5 DEF Working, Announcing, InHands
  <2>. QED BY <1>2, <2>1, <2>2, <2>3, <2>4
       DEF Work, Take, Lock, Publish, PublishFails, FailTransiently, FailTerminally,
           Record, RecordFails, Skip, dbVars
<1>. QED BY <1>1, <1>3, <1>4, <1>5, TerminalStates

(* Nothing that is still under way can change a failed job.                *)
LEMMA FailedStays == SingleInv /\ [Next]_vars => (Undisturbed' /\ job = "failed" => job' = "failed")
BY TerminalFrozen DEF Terminal

(* A failed job stays failed, whatever the tasks beside the failed one,    *)
(* or the one that failed, still do, as long as the job is undisturbed.    *)
THEOREM FailureIsFinal == Spec => FailureFinal
<1>1. SingleInv /\ [Next]_vars => [Undisturbed' /\ job = "failed" => job' = "failed"]_vars
  BY FailedStays
<1>. QED BY <1>1, SingleHolds, PTL DEF Spec, FailureFinal

=============================================================================
