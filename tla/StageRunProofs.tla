--------------------------- MODULE StageRunProofs ---------------------------
(***************************************************************************)
(* What StageRun guarantees for every set of copies and processes, every   *)
(* maxReceiveCount and every budget of faults.                             *)
(***************************************************************************)
EXTENDS StageRun, TLAPS

(* Spending a fault leaves a budget.                                       *)
LEMMA SpendType ==
    ASSUME faults \in [FaultKinds -> Nat], NEW kind \in FaultKinds, Spend(kind)
    PROVE  /\ faults' \in [FaultKinds -> Nat]
           /\ faults'[kind] < faults[kind]
           /\ \A k \in FaultKinds : faults'[k] <= faults[k]
<1>1. faults[kind] \in Nat /\ faults[kind] > 0
  BY DEF Spend
<1>2. faults' = [faults EXCEPT ![kind] = faults[kind] - 1]
  BY DEF Spend
<1>. QED BY <1>1, <1>2

(* What try_claim leaves in the two variables it touches.                  *)
LEMMA TryClaimType ==
    ASSUME TypeOK, NEW p \in Procs, NEW lost \in Locations, NEW won \in Locations,
           TryClaim(p, lost, won)
    PROVE  /\ pc' \in [Procs -> Locations]
           /\ loaded' \in [Procs -> [job : Statuses, stage : Statuses]]
<1>1. pc' \in [Procs -> Locations]
  BY DEF TypeOK, TryClaim, Goto
<1>2. loaded' \in [Procs -> [job : Statuses, stage : Statuses]]
  BY DEF TypeOK, TryClaim
<1>. QED BY <1>1, <1>2

(* TypeOK is inductive on its own.                                         *)
THEOREM TypeCorrect == Spec => []TypeOK
<1>. USE StageAssumption, MessagesAssumption, BoundsAssumption
<1>1. Init => TypeOK
  <2>. SUFFICES ASSUME Init PROVE TypeOK
    OBVIOUS
  <2>1. loaded \in [Procs -> [job : Statuses, stage : Statuses]]
    BY DEF Init, Statuses
  <2>2. pc \in [Procs -> Locations]
    BY DEF Init, Locations
  <2>3. /\ where \in [Messages -> {"queue", "dlq", "gone"}]
        /\ visible \in [Messages -> BOOLEAN]
        /\ receives \in [Messages -> 0..MaxReceive]
    BY DEF Init
  <2>4. /\ inbox \in [Procs -> SUBSET Messages]
        /\ current \in [Procs -> Messages \cup {NoMessage}]
        /\ faults \in [FaultKinds -> Nat]
    BY DEF Init
  <2>5. stage \in Statuses /\ job \in Statuses
    BY DEF Init, Statuses
  <2>. QED BY <2>1, <2>2, <2>3, <2>4, <2>5 DEF Init, TypeOK
<1>2. TypeOK /\ [Next]_vars => TypeOK'
  <2>. SUFFICES ASSUME TypeOK, [Next]_vars PROVE TypeOK'
    OBVIOUS
  <2>. USE DEF TypeOK
  <2>1. ASSUME NEW p \in Procs, Receive(p) PROVE TypeOK'
    <3>1. PICK batch \in (SUBSET Deliverable(p)) \ {{}} :
            /\ inbox' = [inbox EXCEPT ![p] = batch]
            /\ visible' = [m \in Messages |-> visible[m] /\ m \notin batch]
            /\ receives' = [m \in Messages |->
                               IF m \in batch /\ where[m] = "queue"
                               THEN receives[m] + 1 ELSE receives[m]]
      BY <2>1 DEF Receive
    <3>2. batch \subseteq Messages
      BY DEF Deliverable
    <3>3. visible' \in [Messages -> BOOLEAN]
      BY <3>1
    <3>4. ASSUME NEW m \in Messages PROVE receives'[m] \in 0..MaxReceive
      BY <3>1 DEF Deliverable
    <3>5. receives' \in [Messages -> 0..MaxReceive]
      BY <3>1, <3>4
    <3>. QED BY <2>1, <3>1, <3>2, <3>3, <3>5 DEF Receive, dbVars
  <2>2. ASSUME NEW p \in Procs, Handle(p) PROVE TypeOK'
    <3>. USE DEF sqsVars, dbVars, Goto, Raise, Finish, Locations, InTx, Committed
    <3>1. CASE Begin(p)
      <4>1. TryClaim(p, "ack", "work")
        BY <3>1 DEF Begin
      <4>2. /\ pc' \in [Procs -> Locations]
            /\ loaded' \in [Procs -> [job : Statuses, stage : Statuses]]
        BY <4>1, TryClaimType
      <4>3. current' \in [Procs -> Messages \cup {NoMessage}]
        BY <3>1 DEF Begin
      <4>. QED BY <3>1, <4>2, <4>3 DEF Begin
    <3>2. CASE BeginDlq(p)
      BY <3>2 DEF BeginDlq
    <3>3. CASE RejectMalformed(p)
      BY <3>3 DEF RejectMalformed
    <3>17. CASE DiscardMalformed(p)
      BY <3>17 DEF DiscardMalformed
    <3>4. CASE CommitStage(p)
      BY <3>4 DEF CommitStage, StoreRows, StageOnSuccess, JobOnSuccess, Assign,
                  Statuses, WorkerName
    <3>5. CASE Defer(p) \/ FailTerminally(p)
      BY <3>5 DEF Defer, FailTerminally
    <3>6. CASE FailTransiently(p)
      BY <3>6 DEF FailTransiently
    <3>7. CASE Announce(p, "publish", "completed") \/ Announce(p, "publishFailed", "failed")
      BY <3>7 DEF Announce
    <3>8. CASE \/ AnnounceFails(p, "publish", "completed", "release")
               \/ AnnounceFails(p, "publishFailed", "failed", "releaseFailed")
      BY <3>8, SpendType DEF AnnounceFails, FaultKinds
    <3>9. CASE BeginRecord(p)
      BY <3>9, TryClaimType DEF BeginRecord
    <3>10. CASE RecordUnmapped(p)
      BY <3>10 DEF RecordUnmapped
    <3>11. CASE CommitFailure(p)
      BY <3>11 DEF CommitFailure, Assign, Statuses, WorkerName
    <3>12. CASE RecordFails(p)
      BY <3>12, SpendType DEF RecordFails, FaultKinds
    <3>13. CASE ReleaseClaim(p)
      BY <3>13 DEF ReleaseClaim
    <3>14. CASE ReleaseFails(p)
      BY <3>14, SpendType DEF ReleaseFails, FaultKinds
    <3>15. CASE Ack(p)
      BY <3>15 DEF Ack
    <3>16. CASE AckFails(p)
      BY <3>16, SpendType DEF AckFails, FaultKinds
    <3>. QED BY <2>2, <3>1, <3>2, <3>3, <3>4, <3>5, <3>6, <3>7, <3>8, <3>9,
                <3>10, <3>11, <3>12, <3>13, <3>14, <3>15, <3>16, <3>17 DEF Handle
  <2>3. ASSUME NEW p \in Procs, Crash(p) PROVE TypeOK'
    BY <2>3, SpendType DEF Crash, Goto, sqsVars, dbVars, Locations, FaultKinds
  <2>4. ASSUME NEW m \in Messages, Reappear(m) \/ Expire(m) \/ Redrive(m) PROVE TypeOK'
    <3>1. CASE Reappear(m)
      BY <3>1 DEF Reappear, procVars, dbVars
    <3>2. CASE Expire(m)
      BY <3>2, SpendType DEF Expire, procVars, dbVars, FaultKinds
    <3>3. CASE Redrive(m)
      BY <3>3 DEF Redrive, procVars, dbVars
    <3>. QED BY <2>4, <3>1, <3>2, <3>3
  <2>5. CASE Terminated \/ UNCHANGED vars
    BY <2>5 DEF Terminated, vars
  <2>. QED BY <2>1, <2>2, <2>3, <2>4, <2>5 DEF Next
<1>. QED BY <1>1, <1>2, PTL DEF Spec

-----------------------------------------------------------------------------
(* The claim as a lock.  A process that committed its claim still finds it *)
(* in the table, and a process with an open claim found none there.        *)
ClaimBacked == \A p \in Procs : pc[p] \in Committed => WorkerName(p) \in claims
ClaimUnseen == \A p \in Procs : pc[p] \in InTx => WorkerName(p) \notin claims

LockInv == ClaimExclusive /\ ClaimBacked /\ ClaimUnseen

(* Winning a claim keeps the lock invariant: nobody has the row open, and  *)
(* nobody has committed it.                                                *)
LEMMA WinClaim ==
    ASSUME TypeOK, LockInv, NEW p \in Procs, NEW won \in InTx,
           UNCHANGED claims, TryClaim(p, "ack", won)
    PROVE  LockInv'
<1>. USE DEF LockInv, ClaimExclusive, ClaimBacked, ClaimUnseen, Owns, InTx, Committed,
             TypeOK, Goto
<1>1. CASE WorkerName(p) \in claims /\ Goto(p, "ack")
  BY <1>1
<1>2. CASE WorkerName(p) \notin claims /\ Goto(p, won)
  <2>1. \A q \in Procs : WorkerName(q) = WorkerName(p) => ~Owns(q)
    BY <1>2 DEF TryClaim, ClaimFree
  <2>. QED BY <1>2, <2>1
<1>. QED BY <1>1, <1>2 DEF TryClaim

(* Committing publishes the row the process already owned.                 *)
LEMMA CommitClaim ==
    ASSUME TypeOK, LockInv, NEW p \in Procs, pc[p] \in InTx,
           NEW l \in Committed, Goto(p, l),
           claims' = claims \cup {WorkerName(p)}
    PROVE  LockInv'
  BY DEF LockInv, ClaimExclusive, ClaimBacked, ClaimUnseen, Owns, InTx, Committed,
         TypeOK, Goto

(* Giving up ownership, or moving on within the committed part, keeps it.  *)
LEMMA StepDown ==
    ASSUME TypeOK, LockInv, NEW p \in Procs, NEW l \in Locations \ InTx, Goto(p, l),
           l \in Committed => pc[p] \in Committed,
           UNCHANGED claims
    PROVE  LockInv'
  BY DEF LockInv, ClaimExclusive, ClaimBacked, ClaimUnseen, Owns, InTx, Committed,
         TypeOK, Goto, Locations

(* Releasing takes away the process's own row and no other's.              *)
LEMMA DropClaim ==
    ASSUME TypeOK, LockInv, NEW p \in Procs, pc[p] \in Committed, Goto(p, "idle"),
           claims' = claims \ {WorkerName(p)}
    PROVE  LockInv'
  BY DEF LockInv, ClaimExclusive, ClaimBacked, ClaimUnseen, Owns, InTx, Committed,
         TypeOK, Goto

(* ClaimExclusive for every number of copies and workers and every fault:  *)
(* two processes with one worker_name never run the same event together.   *)
THEOREM ClaimIsLock == Spec => []ClaimExclusive
<1>1. Init => LockInv
  BY DEF Init, LockInv, ClaimExclusive, ClaimBacked, ClaimUnseen, Owns, InTx, Committed
<1>2. TypeOK /\ LockInv /\ [Next]_vars => LockInv'
  <2>. SUFFICES ASSUME TypeOK, LockInv, [Next]_vars PROVE LockInv'
    OBVIOUS
  <2>1. ASSUME UNCHANGED <<pc, claims>> PROVE LockInv'
    BY <2>1 DEF LockInv, ClaimExclusive, ClaimBacked, ClaimUnseen, Owns
  <2>2. ASSUME NEW p \in Procs, Handle(p) PROVE LockInv'
    <3>. USE DEF Locations, InTx, Committed, dbVars
    <3>1. CASE Begin(p)
      <4>1. TryClaim(p, "ack", "work") /\ UNCHANGED claims
        BY <3>1 DEF Begin
      <4>. QED BY <4>1, WinClaim
    <3>2. CASE BeginRecord(p)
      BY <3>2, WinClaim DEF BeginRecord
    <3>3. CASE CommitStage(p) \/ CommitFailure(p)
      BY <3>3, CommitClaim DEF CommitStage, CommitFailure
    <3>4. CASE ReleaseClaim(p)
      BY <3>4, DropClaim DEF ReleaseClaim, Raise, Finish
    <3>5. CASE BeginDlq(p) \/ DiscardMalformed(p)
      BY <3>5, StepDown DEF BeginDlq, DiscardMalformed
    <3>6. CASE RejectMalformed(p)
      BY <3>6, <2>1 DEF RejectMalformed
    <3>7. CASE Defer(p) \/ FailTerminally(p) \/ FailTransiently(p)
      BY <3>7, StepDown DEF Defer, FailTerminally, FailTransiently, Raise, Finish
    <3>8. CASE Announce(p, "publish", "completed") \/ Announce(p, "publishFailed", "failed")
      BY <3>8, StepDown DEF Announce
    <3>9. CASE \/ AnnounceFails(p, "publish", "completed", "release")
               \/ AnnounceFails(p, "publishFailed", "failed", "releaseFailed")
      BY <3>9, StepDown DEF AnnounceFails
    <3>10. CASE RecordUnmapped(p) \/ RecordFails(p) \/ ReleaseFails(p)
      BY <3>10, StepDown DEF RecordUnmapped, RecordFails, ReleaseFails, Raise, Finish
    <3>11. CASE Ack(p) \/ AckFails(p)
      BY <3>11, StepDown DEF Ack, AckFails, Finish
    <3>. QED BY <2>2, <3>1, <3>2, <3>3, <3>4, <3>5, <3>6, <3>7, <3>8, <3>9,
                <3>10, <3>11 DEF Handle
  <2>3. ASSUME NEW p \in Procs, Crash(p) PROVE LockInv'
    BY <2>3, StepDown DEF Crash, dbVars, Locations, InTx, Committed
  <2>4. ASSUME NEW p \in Procs, Receive(p) PROVE LockInv'
    BY <2>4, <2>1 DEF Receive, dbVars
  <2>5. ASSUME NEW m \in Messages, Reappear(m) \/ Expire(m) \/ Redrive(m) PROVE LockInv'
    BY <2>5, <2>1 DEF Reappear, Expire, Redrive, procVars, dbVars
  <2>6. CASE Terminated \/ UNCHANGED vars
    BY <2>6, <2>1 DEF Terminated, vars
  <2>. QED BY <2>2, <2>3, <2>4, <2>5, <2>6 DEF Next
<1>3. LockInv => ClaimExclusive
  BY DEF LockInv
<1>. QED BY <1>1, <1>2, <1>3, TypeCorrect, PTL DEF Spec

-----------------------------------------------------------------------------
(* Why no event is lost.                                                   *)

FaultsBounded == \A kind \in FaultKinds : faults[kind] <= Budget[kind]

(* A handler works on a message of its batch; only a discarded poison      *)
(* message gets to the acknowledgement without being an event.             *)
Handling ==
    \A p \in Procs :
        /\ pc[p] # "idle" => current[p] \in inbox[p]
        /\ pc[p] \notin {"idle", "ack"} => current[p] \in Events

(* Until the first expiry a received message is invisible, still in its    *)
(* queue, and in the hands of one process.                                 *)
Receipts ==
    Undisturbed =>
        \A p \in Procs : \A m \in inbox[p] :
            /\ ~visible[m]
            /\ where[m] = QueueOf(p)
            /\ \A q \in Procs : m \in inbox[q] => q = p

(* A committed claim stands for a published verdict, or for a process that *)
(* is still publishing it.                                                 *)
ClaimAnswered ==
    Undisturbed =>
        \A name \in claims :
            \/ published # {}
            \/ \E p \in Procs : WorkerName(p) = name /\ pc[p] \in Committed

(* Some copy is neither deleted nor about to be.                           *)
Open(m) == where[m] # "gone" /\ \A p \in Procs : pc[p] = "ack" => current[p] # m

EventOpen ==
    Undisturbed /\ ~Defers => published # {} \/ \E m \in Events : Open(m)

DeliveryInv == FaultsBounded /\ Handling /\ Receipts /\ ClaimAnswered /\ EventOpen

(* Budgets only shrink, and a lossy fault shows in them for good.          *)
LEMMA LossySpend ==
    ASSUME TypeOK, FaultsBounded, NEW kind \in {"expire", "crash", "release"}, Spend(kind)
    PROVE  FaultsBounded' /\ ~Undisturbed'
<1>1. kind \in FaultKinds
  BY DEF FaultKinds
<1>2. /\ faults' \in [FaultKinds -> Nat]
      /\ faults'[kind] < faults[kind]
      /\ \A k \in FaultKinds : faults'[k] <= faults[k]
  BY <1>1, SpendType DEF TypeOK
<1>3. FaultsBounded'
  BY <1>2, BoundsAssumption DEF FaultsBounded, TypeOK
<1>4. faults'[kind] # Budget[kind]
  BY <1>1, <1>2, BoundsAssumption DEF FaultsBounded, TypeOK
<1>. QED BY <1>3, <1>4 DEF Undisturbed

(* The other faults stay within their bounds and disturb nothing.          *)
LEMMA BenignSpend ==
    ASSUME TypeOK, FaultsBounded,
           UNCHANGED faults \/ \E kind \in {"publish", "delete", "record"} : Spend(kind)
    PROVE  FaultsBounded' /\ (Undisturbed' => Undisturbed)
<1>1. CASE UNCHANGED faults
  BY <1>1 DEF FaultsBounded, Undisturbed
<1>2. ASSUME NEW kind \in {"publish", "delete", "record"}, Spend(kind)
      PROVE  FaultsBounded' /\ (Undisturbed' => Undisturbed)
  <2>1. kind \in FaultKinds
    BY DEF FaultKinds
  <2>2. /\ faults' \in [FaultKinds -> Nat]
        /\ \A k \in FaultKinds : faults'[k] <= faults[k]
    BY <1>2, <2>1, SpendType DEF TypeOK
  <2>3. FaultsBounded'
    BY <2>2, BoundsAssumption DEF FaultsBounded, TypeOK
  <2>4. \A k \in {"expire", "crash", "release"} : faults'[k] = faults[k]
    BY <1>2 DEF Spend, TypeOK, FaultKinds
  <2>. QED BY <2>3, <2>4 DEF Undisturbed
<1>. QED BY <1>1, <1>2

(* A handler that finishes without touching the queues keeps the batch     *)
(* bookkeeping, and what its message was is what it still is.              *)
LEMMA FinishStep ==
    ASSUME TypeOK, Handling, NEW p \in Procs, Finish(p)
    PROVE  /\ Handling'
           /\ \A q \in Procs : inbox'[q] \subseteq inbox[q]
           /\ \A m : Open(m) /\ UNCHANGED where => Open(m)'
<1>. USE DEF TypeOK, Finish, Goto
<1>1. \A q \in Procs : q # p => /\ pc'[q] = pc[q]
                                /\ current'[q] = current[q]
                                /\ inbox'[q] = inbox[q]
  OBVIOUS
<1>2. pc'[p] = "idle" /\ inbox'[p] \subseteq inbox[p]
  OBVIOUS
<1>3. Handling'
  BY <1>1, <1>2 DEF Handling
<1>4. \A m : Open(m) /\ UNCHANGED where => Open(m)'
  BY <1>1, <1>2 DEF Open
<1>. QED BY <1>1, <1>2, <1>3, <1>4

(* Losing or winning the claim.  Whoever loses it leaves the owner's copy  *)
(* open, or a verdict behind.                                              *)
LEMMA TryClaimStep ==
    ASSUME TypeOK, DeliveryInv, NEW p \in Procs, pc[p] \notin Committed,
           NEW won \in InTx, TryClaim(p, "ack", won),
           \A q \in Procs : q # p => current'[q] = current[q],
           current'[p] \in inbox[p] \cap Events,
           UNCHANGED <<where, visible, inbox, claims, published, faults>>
    PROVE  DeliveryInv'
<1>. USE DEF TypeOK, Goto
<1>1. \A q \in Procs : q # p => pc'[q] = pc[q]
  BY DEF TryClaim
<1>2. pc'[p] = "ack" \/ pc'[p] \in InTx
  BY DEF TryClaim
<1>3. FaultsBounded' /\ (Undisturbed' => Undisturbed)
  BY BenignSpend DEF DeliveryInv
<1>4. Handling'
  BY <1>1 DEF DeliveryInv, Handling
<1>5. Receipts'
  BY <1>3 DEF DeliveryInv, Receipts
<1>6. ClaimAnswered'
  BY <1>1, <1>3 DEF DeliveryInv, ClaimAnswered
<1>7. EventOpen'
  <2>. SUFFICES ASSUME Undisturbed, ~Defers, published = {}
                PROVE  \E m \in Events : Open(m)'
    BY <1>3 DEF EventOpen
  <2>1. CASE pc'[p] = "ack"
    <3>1. WorkerName(p) \in claims
      BY <2>1 DEF TryClaim, InTx
    <3>2. PICK q \in Procs : pc[q] \in Committed
      BY <3>1 DEF DeliveryInv, ClaimAnswered
    <3>3. q # p /\ current[q] \in inbox[q] \cap Events
      BY <3>2 DEF DeliveryInv, Handling, Committed
    <3>4. where[current[q]] # "gone"
      BY <3>3 DEF DeliveryInv, Receipts, QueueOf
    <3>5. \A r \in Procs : current[q] \in inbox[r] => r = q
      BY <3>3 DEF DeliveryInv, Receipts
    <3>6. ASSUME NEW r \in Procs, pc'[r] = "ack" PROVE current'[r] # current[q]
      <4>1. r # q
        BY <1>1, <3>2, <3>3, <3>6 DEF Committed
      <4>2. current'[r] \in inbox[r]
        BY <1>1, <3>6 DEF DeliveryInv, Handling
      <4>. QED BY <3>5, <4>1, <4>2
    <3>. QED BY <3>3, <3>4, <3>6 DEF Open
  <2>2. CASE pc'[p] # "ack"
    <3>1. PICK m \in Events : Open(m)
      BY DEF DeliveryInv, EventOpen
    <3>2. Open(m)'
      BY <1>1, <2>2, <3>1 DEF Open
    <3>. QED BY <3>2
  <2>. QED BY <2>1, <2>2
<1>. QED BY <1>3, <1>4, <1>5, <1>6, <1>7 DEF DeliveryInv

(* A step of one process that keeps its message, the queues, the claims    *)
(* and the ownership, and does not reach the acknowledgement.              *)
LEMMA MoveStep ==
    ASSUME TypeOK, DeliveryInv, NEW p \in Procs, NEW l \in Locations \ {"idle", "ack"},
           pc[p] \notin {"idle", "ack"}, Goto(p, l),
           pc[p] \in Committed => l \in Committed,
           UNCHANGED <<where, visible, inbox, current>>,
           claims' \subseteq claims \cup (IF l \in Committed THEN {WorkerName(p)} ELSE {}),
           published \subseteq published',
           UNCHANGED faults \/ \E kind \in {"publish", "delete", "record"} : Spend(kind)
    PROVE  DeliveryInv'
<1>. USE DEF TypeOK, Goto
<1>1. \A q \in Procs : q # p => pc'[q] = pc[q]
  OBVIOUS
<1>2. pc'[p] = l
  OBVIOUS
<1>3. FaultsBounded' /\ (Undisturbed' => Undisturbed)
  BY BenignSpend DEF DeliveryInv
<1>4. Handling'
  BY <1>1, <1>2 DEF DeliveryInv, Handling
<1>5. Receipts'
  BY <1>3 DEF DeliveryInv, Receipts
<1>6. ClaimAnswered'
  <2>. SUFFICES ASSUME Undisturbed, published = {}, NEW name \in claims'
                PROVE  \E q \in Procs : WorkerName(q) = name /\ pc'[q] \in Committed
    BY <1>3 DEF ClaimAnswered
  <2>1. CASE name \in claims
    BY <1>1, <1>2, <2>1 DEF DeliveryInv, ClaimAnswered
  <2>2. CASE name \notin claims
    BY <1>2, <2>2
  <2>. QED BY <2>1, <2>2
<1>7. EventOpen'
  <2>1. \A m : Open(m) => Open(m)'
    BY <1>1, <1>2 DEF Open
  <2>. QED BY <1>3, <2>1 DEF DeliveryInv, EventOpen
<1>. QED BY <1>3, <1>4, <1>5, <1>6, <1>7 DEF DeliveryInv

(* A handler that finishes without deleting its message: it did not own    *)
(* the claim, or it takes its own claim with it.                           *)
LEMMA RaiseStep ==
    ASSUME TypeOK, DeliveryInv, NEW p \in Procs, Finish(p),
           UNCHANGED <<where, visible, published>>,
           UNCHANGED faults \/ \E kind \in {"publish", "delete", "record"} : Spend(kind),
           claims' \subseteq claims,
           pc[p] \in Committed => WorkerName(p) \notin claims'
    PROVE  DeliveryInv'
<1>. USE DEF TypeOK
<1>1. FaultsBounded' /\ (Undisturbed' => Undisturbed)
  BY BenignSpend DEF DeliveryInv
<1>2. /\ Handling'
      /\ \A q \in Procs : inbox'[q] \subseteq inbox[q]
      /\ \A m : Open(m) => Open(m)'
  BY FinishStep DEF DeliveryInv
<1>3. Receipts'
  BY <1>1, <1>2 DEF DeliveryInv, Receipts
<1>4. ClaimAnswered'
  BY <1>1 DEF DeliveryInv, ClaimAnswered, Finish, Goto
<1>5. EventOpen'
  BY <1>1, <1>2 DEF DeliveryInv, EventOpen
<1>. QED BY <1>1, <1>2, <1>3, <1>4, <1>5 DEF DeliveryInv

(* DeliveryInv is kept by every step.                                      *)
LEMMA DeliveryKept ==
    ASSUME TypeOK, DeliveryInv, [Next]_vars
    PROVE  DeliveryInv'
<1>. USE DEF TypeOK
<1>1. ASSUME UNCHANGED <<where, visible, inbox, current, pc, claims, published, faults>>
      PROVE  DeliveryInv'
  BY <1>1 DEF DeliveryInv, FaultsBounded, Handling, Receipts, ClaimAnswered, EventOpen,
              Open, Undisturbed, Defers, Events
<1>2. ASSUME NEW p \in Procs, Handle(p) PROVE DeliveryInv'
  <2>. USE DEF sqsVars, dbVars
  <2>1. CASE Begin(p)
    <3>1. PICK m \in inbox[p] \ Malformed : current' = [current EXCEPT ![p] = m]
      BY <2>1 DEF Begin
    <3>2. m \in inbox[p] \cap Events
      BY DEF Events
    <3>3. pc[p] \notin Committed /\ "work" \in InTx /\ TryClaim(p, "ack", "work")
      BY <2>1 DEF Begin, Committed, InTx
    <3>. QED BY <2>1, <3>1, <3>2, <3>3, TryClaimStep DEF Begin
  <2>2. CASE BeginRecord(p)
    <3>1. current[p] \in inbox[p] \cap Events
      BY <2>2 DEF BeginRecord, DeliveryInv, Handling
    <3>2. /\ pc[p] \notin Committed /\ "recording" \in InTx
          /\ TryClaim(p, "ack", "recording")
      BY <2>2 DEF BeginRecord, Committed, InTx
    <3>. QED BY <2>2, <3>1, <3>2, TryClaimStep DEF BeginRecord
  <2>3. CASE BeginDlq(p) \/ DiscardMalformed(p)
    <3>1. \A q \in Procs : q # p => pc'[q] = pc[q] /\ current'[q] = current[q]
      BY <2>3 DEF BeginDlq, DiscardMalformed, Goto
    <3>2. /\ current'[p] \in inbox[p]
          /\ pc'[p] \in {"record", "ack"}
          /\ pc'[p] = "record" => current'[p] \in Events
          /\ pc'[p] = "ack" => current'[p] \notin Events
          /\ pc[p] = "idle"
      BY <2>3 DEF BeginDlq, DiscardMalformed, Goto, Events
    <3>3. UNCHANGED <<where, visible, inbox, claims, published, faults>>
      BY <2>3 DEF BeginDlq, DiscardMalformed
    <3>4. FaultsBounded' /\ (Undisturbed' => Undisturbed)
      BY <3>3, BenignSpend DEF DeliveryInv
    <3>5. Handling'
      BY <3>1, <3>2, <3>3 DEF DeliveryInv, Handling
    <3>6. Receipts' /\ ClaimAnswered'
      BY <3>1, <3>2, <3>3, <3>4 DEF DeliveryInv, Receipts, ClaimAnswered, Committed
    <3>7. \A m \in Events : Open(m) => Open(m)'
      BY <3>1, <3>2, <3>3 DEF Open
    <3>8. EventOpen'
      BY <3>3, <3>4, <3>7 DEF DeliveryInv, EventOpen
    <3>. QED BY <3>4, <3>5, <3>6, <3>8 DEF DeliveryInv
  <2>4. CASE RejectMalformed(p)
    <3>1. /\ UNCHANGED <<where, visible, current, pc, claims, published, faults>>
          /\ \A q \in Procs : q # p => inbox'[q] = inbox[q]
          /\ inbox'[p] \subseteq inbox[p]
          /\ pc[p] = "idle"
      BY <2>4 DEF RejectMalformed
    <3>2. FaultsBounded' /\ (Undisturbed' => Undisturbed)
      BY <3>1, BenignSpend DEF DeliveryInv
    <3>3. Handling' /\ Receipts'
      BY <3>1, <3>2 DEF DeliveryInv, Handling, Receipts
    <3>4. ClaimAnswered' /\ EventOpen'
      BY <3>1, <3>2 DEF DeliveryInv, ClaimAnswered, EventOpen, Open
    <3>. QED BY <3>2, <3>3, <3>4 DEF DeliveryInv
  <2>5. CASE CommitStage(p)
    BY <2>5, MoveStep DEF CommitStage, Locations, Committed, InTx
  <2>6. CASE CommitFailure(p)
    BY <2>6, MoveStep DEF CommitFailure, Locations, Committed, InTx
  <2>7. CASE FailTerminally(p)
    BY <2>7, MoveStep DEF FailTerminally, Locations, Committed, InTx
  <2>8. CASE \/ AnnounceFails(p, "publish", "completed", "release")
             \/ AnnounceFails(p, "publishFailed", "failed", "releaseFailed")
    BY <2>8, MoveStep DEF AnnounceFails, Locations, Committed, InTx
  <2>9. CASE FailTransiently(p) \/ RecordUnmapped(p) \/ RecordFails(p)
    BY <2>9, RaiseStep DEF FailTransiently, RecordUnmapped, RecordFails, Raise, Committed
  <2>10. CASE ReleaseClaim(p)
    BY <2>10, RaiseStep DEF ReleaseClaim, Raise
  <2>11. CASE AckFails(p)
    BY <2>11, RaiseStep DEF AckFails, Committed
  <2>12. CASE ReleaseFails(p)
    <3>1. FaultsBounded' /\ ~Undisturbed'
      BY <2>12, LossySpend DEF ReleaseFails, DeliveryInv
    <3>2. Handling'
      BY <2>12, FinishStep DEF ReleaseFails, Raise, DeliveryInv
    <3>. QED BY <3>1, <3>2 DEF DeliveryInv, Receipts, ClaimAnswered, EventOpen
  <2>13. CASE Defer(p)
    <3>1. FaultsBounded' /\ (Undisturbed' => Undisturbed)
      BY <2>13, BenignSpend DEF Defer, DeliveryInv
    <3>2. Handling' /\ Receipts' /\ ClaimAnswered'
      BY <2>13, <3>1 DEF Defer, Goto, DeliveryInv, Handling, Receipts, ClaimAnswered,
                         Committed
    <3>3. EventOpen'
      BY <2>13 DEF Defer, Defers, EventOpen
    <3>. QED BY <3>1, <3>2, <3>3 DEF DeliveryInv
  <2>14. CASE Announce(p, "publish", "completed") \/ Announce(p, "publishFailed", "failed")
    <3>1. FaultsBounded' /\ (Undisturbed' => Undisturbed)
      BY <2>14, BenignSpend DEF Announce, DeliveryInv
    <3>2. Handling' /\ Receipts'
      BY <2>14, <3>1 DEF Announce, Goto, DeliveryInv, Handling, Receipts
    <3>3. ClaimAnswered' /\ EventOpen'
      BY <2>14 DEF Announce, ClaimAnswered, EventOpen
    <3>. QED BY <3>1, <3>2, <3>3 DEF DeliveryInv
  <2>15. CASE Ack(p)
    <3>1. /\ pc[p] = "ack"
          /\ Finish(p)
          /\ UNCHANGED <<visible, claims, published, faults>>
          /\ \A m \in Messages : m # current[p] => where'[m] = where[m]
      BY <2>15 DEF Ack
    <3>2. FaultsBounded' /\ (Undisturbed' => Undisturbed)
      BY <3>1, BenignSpend DEF DeliveryInv
    <3>3. /\ Handling'
          /\ \A q \in Procs : inbox'[q] \subseteq inbox[q]
      BY <3>1, FinishStep DEF DeliveryInv
    <3>4. Receipts'
      <4>. SUFFICES ASSUME Undisturbed, NEW q \in Procs, NEW m \in inbox'[q]
                    PROVE  /\ ~visible[m]
                           /\ where'[m] = QueueOf(q)
                           /\ \A r \in Procs : m \in inbox'[r] => r = q
        BY <3>1, <3>2 DEF Receipts, QueueOf
      <4>1. m \in inbox[q]
        BY <3>3
      <4>2. m # current[p]
        <5>1. current[p] \in inbox[p] /\ current[p] \notin inbox'[p]
          BY <3>1 DEF DeliveryInv, Handling, Finish
        <5>. QED BY <5>1, <4>1 DEF DeliveryInv, Receipts
      <4>. QED BY <3>1, <3>3, <4>1, <4>2 DEF DeliveryInv, Receipts
    <3>5. ClaimAnswered'
      BY <3>1, <3>2 DEF DeliveryInv, ClaimAnswered, Finish, Goto, Committed
    <3>6. \A m \in Messages : Open(m) => Open(m)'
      <4>1. \A q \in Procs : pc'[q] = "ack" => pc[q] = "ack" /\ current'[q] = current[q]
        BY <3>1 DEF Finish, Goto
      <4>. QED BY <3>1, <4>1 DEF Open
    <3>7. EventOpen'
      BY <3>1, <3>2, <3>6 DEF DeliveryInv, EventOpen, Events
    <3>. QED BY <3>2, <3>3, <3>4, <3>5, <3>7 DEF DeliveryInv
  <2>. QED BY <1>2, <2>1, <2>2, <2>3, <2>4, <2>5, <2>6, <2>7, <2>8, <2>9, <2>10,
              <2>11, <2>12, <2>13, <2>14, <2>15 DEF Handle
<1>3. ASSUME NEW p \in Procs, Receive(p) PROVE DeliveryInv'
  <2>1. PICK batch \in (SUBSET Deliverable(p)) \ {{}} :
          /\ inbox' = [inbox EXCEPT ![p] = batch]
          /\ visible' = [m \in Messages |-> visible[m] /\ m \notin batch]
    BY <1>3 DEF Receive
  <2>2. /\ UNCHANGED <<where, current, pc, claims, published, faults>>
        /\ pc[p] = "idle"
    BY <1>3 DEF Receive, dbVars
  <2>3. FaultsBounded' /\ (Undisturbed' => Undisturbed)
    BY <2>2, BenignSpend DEF DeliveryInv
  <2>4. Handling'
    BY <2>1, <2>2 DEF DeliveryInv, Handling
  <2>5. Receipts'
    <3>1. \A m \in batch : m \in Messages /\ visible[m] /\ where[m] = QueueOf(p)
      BY DEF Deliverable
    <3>2. \A q \in Procs : q # p => inbox'[q] = inbox[q]
      BY <2>1
    <3>3. inbox'[p] = batch
      BY <2>1
    <3>4. \A q \in Procs : \A m \in inbox'[q] : Undisturbed => ~visible'[m]
      BY <2>1, <3>1, <3>2, <3>3 DEF DeliveryInv, Receipts
    <3>5. \A q \in Procs : \A m \in inbox'[q] : Undisturbed => where'[m] = QueueOf(q)
      BY <2>2, <3>1, <3>2, <3>3 DEF DeliveryInv, Receipts
    <3>6. \A q, r \in Procs : \A m \in inbox'[q] : Undisturbed /\ m \in inbox'[r] => r = q
      BY <3>1, <3>2, <3>3 DEF DeliveryInv, Receipts
    <3>. QED BY <2>3, <3>4, <3>5, <3>6 DEF Receipts, QueueOf
  <2>6. ClaimAnswered' /\ EventOpen'
    BY <2>2, <2>3 DEF DeliveryInv, ClaimAnswered, EventOpen, Open
  <2>. QED BY <2>3, <2>4, <2>5, <2>6 DEF DeliveryInv
<1>4. ASSUME NEW p \in Procs, Crash(p) PROVE DeliveryInv'
  <2>1. FaultsBounded' /\ ~Undisturbed'
    BY <1>4, LossySpend DEF Crash, DeliveryInv
  <2>2. Handling'
    BY <1>4 DEF Crash, Goto, DeliveryInv, Handling
  <2>. QED BY <2>1, <2>2 DEF DeliveryInv, Receipts, ClaimAnswered, EventOpen
<1>5. ASSUME NEW m \in Messages, Expire(m) PROVE DeliveryInv'
  <2>1. FaultsBounded' /\ ~Undisturbed'
    BY <1>5, LossySpend DEF Expire, DeliveryInv
  <2>2. Handling'
    BY <1>5 DEF Expire, procVars, DeliveryInv, Handling
  <2>. QED BY <2>1, <2>2 DEF DeliveryInv, Receipts, ClaimAnswered, EventOpen
<1>6. ASSUME NEW m \in Messages, Reappear(m) \/ Redrive(m) PROVE DeliveryInv'
  <2>1. /\ UNCHANGED <<inbox, current, pc, claims, published, faults>>
        /\ \A n \in Messages : n # m => where'[n] = where[n] /\ visible'[n] = visible[n]
        /\ where'[m] # "gone"
    BY <1>6 DEF Reappear, Redrive, procVars, dbVars
  <2>2. FaultsBounded' /\ (Undisturbed' => Undisturbed)
    BY <2>1, BenignSpend DEF DeliveryInv
  <2>3. Undisturbed => \A p \in Procs : m \notin inbox[p]
    BY <1>6 DEF Reappear, Held, Redrive, DeliveryInv, Receipts
  <2>4. Handling' /\ Receipts'
    BY <2>1, <2>2, <2>3 DEF DeliveryInv, Handling, Receipts, QueueOf
  <2>5. \A n \in Messages : Open(n) => Open(n)'
    BY <2>1 DEF Open
  <2>6. ClaimAnswered' /\ EventOpen'
    BY <2>1, <2>2, <2>5 DEF DeliveryInv, ClaimAnswered, EventOpen, Events
  <2>. QED BY <2>2, <2>4, <2>6 DEF DeliveryInv
<1>7. CASE Terminated \/ UNCHANGED vars
  BY <1>7, <1>1 DEF Terminated, vars
<1>. QED BY <1>2, <1>3, <1>4, <1>5, <1>6, <1>7 DEF Next

(* DeliveryInv holds from the first message on.                            *)
THEOREM DeliveryHolds == Spec => []DeliveryInv
<1>1. Init => DeliveryInv
  <2>. SUFFICES ASSUME Init PROVE DeliveryInv
    OBVIOUS
  <2>. USE DEF Init
  <2>1. FaultsBounded
    BY BoundsAssumption DEF FaultsBounded
  <2>2. Handling /\ Receipts /\ ClaimAnswered
    BY DEF Handling, Receipts, ClaimAnswered
  <2>3. EventOpen
    BY MessagesAssumption DEF EventOpen, Open, Events
  <2>. QED BY <2>1, <2>2, <2>3 DEF DeliveryInv
<1>2. TypeOK /\ DeliveryInv /\ [Next]_vars => DeliveryInv'
  BY DeliveryKept
<1>. QED BY <1>1, <1>2, TypeCorrect, PTL DEF Spec

(* No event is lost, for every number of copies and workers: up to the     *)
(* first crash, expiry or refused release, an event whose copies are all   *)
(* deleted has had its verdict published.                                  *)
THEOREM NoLoss == Spec => []NoEventLost
<1>1. DeliveryInv => NoEventLost
  BY DEF DeliveryInv, EventOpen, Open, NoEventLost, Drained
<1>. QED BY <1>1, DeliveryHolds, PTL

-----------------------------------------------------------------------------
(* Why a recorded failure stays.  Of the hops only intake and export write *)
(* jobs.status when they succeed, and export records no failure: its event *)
(* has no stage to fail.                                                   *)

Failing(p) == pc[p] \in {"publishFailed", "releaseFailed"}

FailureInv ==
    /\ Stage = "export" => "failed" \notin published /\ \A p \in Procs : ~Failing(p)
    /\ Stage \in {"preprocessing", "planning"} =>
          \/ job = "failed"
          \/ /\ "failed" \notin published
             /\ \A p \in Procs : ~Failing(p)
             /\ \A p \in Procs : pc[p] \in InTx => loaded[p].job # "failed"

(* The type of the event that export consumes names no stage.              *)
LEMMA ExportIsUnmapped == Stage = "export" => ~HasFailedStage
BY DEF HasFailedStage, InboundDetailType, DetailTypesWithFailedStage

(* A process that goes anywhere but to the publish of a failure, or that   *)
(* goes on with one.                                                       *)
LEMMA QuietFailure ==
    ASSUME TypeOK, FailureInv, Stage # "intake", NEW p \in Procs,
           NEW l \in Locations \ InTx, Goto(p, l),
           l \in {"publishFailed", "releaseFailed"} => Failing(p),
           job = "failed" /\ Stage # "export" => job' = "failed",
           "failed" \in published' => "failed" \in published \/ Failing(p),
           UNCHANGED loaded
    PROVE  FailureInv'
BY StageAssumption DEF TypeOK, FailureInv, Failing, Goto, Locations, InTx

(* Claiming loads the status that is committed.                            *)
LEMMA ClaimFailure ==
    ASSUME TypeOK, FailureInv, NEW p \in Procs, NEW won \in InTx,
           TryClaim(p, "ack", won), UNCHANGED <<job, published>>
    PROVE  FailureInv'
<1>1. CASE Goto(p, "ack") /\ UNCHANGED loaded
  BY <1>1 DEF TypeOK, FailureInv, Failing, Goto, InTx
<1>2. CASE Goto(p, won) /\ loaded' = [loaded EXCEPT ![p] = [job |-> job, stage |-> stage]]
  BY <1>2 DEF TypeOK, FailureInv, Failing, Goto, InTx
<1>. QED BY <1>1, <1>2 DEF TryClaim

(* A failure is committed with the job failed, by this handler or before.  *)
LEMMA RecordedFailure ==
    ASSUME TypeOK, FailureInv, Stage # "intake", NEW p \in Procs, CommitFailure(p)
    PROVE  FailureInv'
<1>1. Stage \in {"preprocessing", "planning"}
  BY StageAssumption, ExportIsUnmapped DEF CommitFailure
<1>2. job' = "failed"
  BY <1>1 DEF CommitFailure, FailureInv, InTx
<1>. QED BY <1>1, <1>2 DEF FailureInv

(* Every step keeps it.                                                    *)
LEMMA FailureKept ==
    ASSUME TypeOK, FailureInv, Stage # "intake", [Next]_vars
    PROVE  FailureInv'
<1>1. ASSUME UNCHANGED <<pc, loaded, job, published>> PROVE FailureInv'
  BY <1>1 DEF FailureInv, Failing
<1>2. ASSUME NEW p \in Procs, Handle(p) PROVE FailureInv'
  <2>. USE DEF Locations, InTx, Committed, dbVars, Failing
  <2>1. CASE Begin(p)
    <3>1. TryClaim(p, "ack", "work") /\ UNCHANGED <<job, published>>
      BY <2>1 DEF Begin
    <3>. QED BY <3>1, ClaimFailure
  <2>2. CASE BeginRecord(p)
    BY <2>2, ClaimFailure DEF BeginRecord
  <2>3. CASE CommitStage(p)
    <3>1. job = "failed" /\ Stage # "export" => job' = "failed"
      BY <2>3, StageAssumption DEF CommitStage, JobOnSuccess
    <3>. QED BY <2>3, <3>1, QuietFailure DEF CommitStage
  <2>4. CASE CommitFailure(p)
    BY <2>4, RecordedFailure
  <2>5. CASE BeginDlq(p) \/ DiscardMalformed(p) \/ Defer(p) \/ FailTerminally(p)
    BY <2>5, QuietFailure DEF BeginDlq, DiscardMalformed, Defer, FailTerminally
  <2>6. CASE RejectMalformed(p)
    BY <2>6, <1>1 DEF RejectMalformed
  <2>7. CASE FailTransiently(p) \/ RecordUnmapped(p) \/ RecordFails(p)
    BY <2>7, QuietFailure DEF FailTransiently, RecordUnmapped, RecordFails, Raise, Finish
  <2>8. CASE ReleaseClaim(p) \/ ReleaseFails(p) \/ Ack(p) \/ AckFails(p)
    BY <2>8, QuietFailure DEF ReleaseClaim, ReleaseFails, Ack, AckFails, Raise, Finish
  <2>9. CASE \/ Announce(p, "publish", "completed")
             \/ AnnounceFails(p, "publish", "completed", "release")
    BY <2>9, QuietFailure DEF Announce, AnnounceFails
  <2>10. CASE \/ Announce(p, "publishFailed", "failed")
              \/ AnnounceFails(p, "publishFailed", "failed", "releaseFailed")
    BY <2>10, QuietFailure DEF Announce, AnnounceFails
  <2>. QED BY <1>2, <2>1, <2>2, <2>3, <2>4, <2>5, <2>6, <2>7, <2>8, <2>9, <2>10 DEF Handle
<1>3. ASSUME NEW p \in Procs, Crash(p) PROVE FailureInv'
  BY <1>3, QuietFailure DEF Crash, dbVars, Locations, InTx
<1>4. ASSUME NEW p \in Procs, Receive(p) PROVE FailureInv'
  BY <1>4, <1>1 DEF Receive, dbVars
<1>5. ASSUME NEW m \in Messages, Reappear(m) \/ Expire(m) \/ Redrive(m) PROVE FailureInv'
  BY <1>5, <1>1 DEF Reappear, Expire, Redrive, procVars, dbVars
<1>6. CASE Terminated \/ UNCHANGED vars
  BY <1>6, <1>1 DEF Terminated, vars
<1>. QED BY <1>2, <1>3, <1>4, <1>5, <1>6 DEF Next

(* An event whose only verdict is a failure leaves a failed job, at every  *)
(* hop but intake, for every number of copies and workers and every fault. *)
(* Intake is another matter: a copy that succeeds after the failure of an  *)
(* earlier one sets the job running, and if its publish fails until it is  *)
(* redriven, the dead-letter queue's claim skips it.                       *)
THEOREM FailureStays ==
    ASSUME Stage # "intake"
    PROVE  Spec => []FailureRecorded
<1>1. Init => FailureInv
  BY DEF Init, FailureInv, Failing, InTx
<1>2. TypeOK /\ FailureInv /\ [Next]_vars => FailureInv'
  BY FailureKept
<1>3. FailureInv => FailureRecorded
  BY StageAssumption DEF FailureInv, FailureRecorded
<1>. QED BY <1>1, <1>2, <1>3, TypeCorrect, PTL DEF Spec

-----------------------------------------------------------------------------
(* What a deferred export leaves behind, in full: no claim of the stage or *)
(* of the dead-letter queue, and nobody who could make one.                *)
DeferredInv ==
    Defers => /\ claims = {} /\ ~rows /\ published = {} /\ job = "running"
              /\ \A p \in Procs : pc[p] \notin Committed

(* A process that commits nothing.                                         *)
LEMMA QuietDeferred ==
    ASSUME TypeOK, DeferredInv, NEW p \in Procs, NEW l \in Locations \ Committed,
           Goto(p, l), UNCHANGED <<rows, published, job>>, claims' \subseteq claims
    PROVE  DeferredInv'
BY DEF TypeOK, DeferredInv, Goto, Defers, Locations, Committed, InTx

(* Every step keeps it.                                                    *)
LEMMA DeferredKept ==
    ASSUME TypeOK, DeferredInv, Defers, [Next]_vars
    PROVE  DeferredInv'
<1>1. ASSUME UNCHANGED <<pc, claims, rows, job, published>> PROVE DeferredInv'
  BY <1>1 DEF DeferredInv
<1>2. ASSUME NEW p \in Procs, Handle(p) PROVE DeferredInv'
  <2>. USE DEF Locations, InTx, Committed, dbVars
  <2>1. CASE Begin(p) \/ BeginRecord(p)
    <3>1. PICK l \in Locations \ Committed : Goto(p, l)
      BY <2>1 DEF Begin, BeginRecord, TryClaim
    <3>. QED BY <2>1, <3>1, QuietDeferred DEF Begin, BeginRecord
  <2>2. CASE CommitStage(p) \/ CommitFailure(p)
    BY <2>2, ExportIsUnmapped DEF CommitStage, CommitFailure, Defers
  <2>3. CASE BeginDlq(p) \/ DiscardMalformed(p) \/ Defer(p) \/ FailTerminally(p)
    BY <2>3, QuietDeferred DEF BeginDlq, DiscardMalformed, Defer, FailTerminally
  <2>4. CASE RejectMalformed(p)
    BY <2>4, <1>1 DEF RejectMalformed
  <2>5. CASE FailTransiently(p) \/ RecordUnmapped(p) \/ RecordFails(p)
    BY <2>5, QuietDeferred DEF FailTransiently, RecordUnmapped, RecordFails, Raise, Finish
  <2>6. CASE Ack(p) \/ AckFails(p)
    BY <2>6, QuietDeferred DEF Ack, AckFails, Finish
  <2>7. CASE \/ Announce(p, "publish", "completed") \/ Announce(p, "publishFailed", "failed")
             \/ AnnounceFails(p, "publish", "completed", "release")
             \/ AnnounceFails(p, "publishFailed", "failed", "releaseFailed")
             \/ ReleaseClaim(p) \/ ReleaseFails(p)
    BY <2>7 DEF Announce, AnnounceFails, ReleaseClaim, ReleaseFails, DeferredInv
  <2>. QED BY <1>2, <2>1, <2>2, <2>3, <2>4, <2>5, <2>6, <2>7 DEF Handle
<1>3. ASSUME NEW p \in Procs, Crash(p) PROVE DeferredInv'
  BY <1>3, QuietDeferred DEF Crash, dbVars, Locations, Committed, InTx
<1>4. ASSUME NEW p \in Procs, Receive(p) PROVE DeferredInv'
  BY <1>4, <1>1 DEF Receive, dbVars
<1>5. ASSUME NEW m \in Messages, Reappear(m) \/ Expire(m) \/ Redrive(m) PROVE DeferredInv'
  BY <1>5, <1>1 DEF Reappear, Expire, Redrive, procVars, dbVars
<1>6. CASE Terminated \/ UNCHANGED vars
  BY <1>6, <1>1 DEF Terminated, vars
<1>. QED BY <1>2, <1>3, <1>4, <1>5, <1>6 DEF Next

(* An export that finds batches missing leaves no claim, no export, no     *)
(* verdict and no finished job, whatever is redelivered, redriven or       *)
(* crashes (stages/export.py, defer).                                      *)
THEOREM DeferLeavesNothing == Spec => []DeferredUntouched
<1>1. Init => DeferredInv
  BY DEF Init, DeferredInv, Defers, Committed
<1>2. TypeOK /\ DeferredInv /\ [Next]_vars => DeferredInv'
  <2>1. ~Defers => DeferredInv'
    BY DEF DeferredInv, Defers
  <2>. QED BY <2>1, DeferredKept
<1>3. DeferredInv => DeferredUntouched
  BY DEF DeferredInv, DeferredUntouched
<1>. QED BY <1>1, <1>2, <1>3, TypeCorrect, PTL DEF Spec

-----------------------------------------------------------------------------
(* StageRun implements StageContract as long as no lossy fault happens.    *)

(* Rows are stored before anything says so, and are never taken back.      *)
AnnouncedWithRows == \A p \in Procs : pc[p] \in {"publish", "release"} => rows

OutputInv == AnnouncedWithRows /\ OutputAfterCommit

(* A process that moves to a place where no completion is announced.       *)
LEMMA QuietStep ==
    ASSUME TypeOK, OutputInv, NEW p \in Procs,
           NEW l \in Locations \ {"publish", "release"}, Goto(p, l),
           rows => rows', stage' = "completed" => stage = "completed",
           "completed" \in published' => "completed" \in published
    PROVE  OutputInv'
  BY DEF TypeOK, OutputInv, AnnouncedWithRows, OutputAfterCommit, Goto

(* OutputInv needs no more than the types to be inductive.                 *)
THEOREM OutputHolds == Spec => []OutputInv
<1>1. Init => OutputInv
  BY DEF Init, OutputInv, AnnouncedWithRows, OutputAfterCommit
<1>2. TypeOK /\ OutputInv /\ [Next]_vars => OutputInv'
  <2>. SUFFICES ASSUME TypeOK, OutputInv, [Next]_vars PROVE OutputInv'
    OBVIOUS
  <2>1. ASSUME UNCHANGED <<pc, rows, stage, published>> PROVE OutputInv'
    BY <2>1 DEF OutputInv, AnnouncedWithRows, OutputAfterCommit
  <2>2. ASSUME NEW p \in Procs, Handle(p) PROVE OutputInv'
    <3>. USE DEF Locations, InTx, Committed, dbVars
    <3>1. CASE Begin(p)
      BY <3>1 DEF Begin, TryClaim, Goto, TypeOK, OutputInv, AnnouncedWithRows,
                  OutputAfterCommit
    <3>2. CASE BeginRecord(p)
      BY <3>2 DEF BeginRecord, TryClaim, Goto, TypeOK, OutputInv, AnnouncedWithRows,
                  OutputAfterCommit
    <3>3. CASE CommitStage(p)
      BY <3>3 DEF CommitStage, StoreRows, OutputInv, AnnouncedWithRows, OutputAfterCommit
    <3>4. CASE CommitFailure(p)
      BY <3>4, QuietStep DEF CommitFailure, Assign
    <3>5. CASE BeginDlq(p) \/ DiscardMalformed(p) \/ Defer(p) \/ FailTerminally(p)
      BY <3>5, QuietStep DEF BeginDlq, DiscardMalformed, Defer, FailTerminally
    <3>6. CASE RejectMalformed(p)
      BY <3>6, <2>1 DEF RejectMalformed
    <3>7. CASE FailTransiently(p) \/ RecordUnmapped(p) \/ RecordFails(p)
      BY <3>7, QuietStep DEF FailTransiently, RecordUnmapped, RecordFails, Raise, Finish
    <3>8. CASE ReleaseClaim(p) \/ ReleaseFails(p) \/ Ack(p) \/ AckFails(p)
      BY <3>8, QuietStep DEF ReleaseClaim, ReleaseFails, Ack, AckFails, Raise, Finish
    <3>9. CASE Announce(p, "publish", "completed")
      BY <3>9 DEF Announce, Goto, TypeOK, OutputInv, AnnouncedWithRows, OutputAfterCommit
    <3>10. CASE AnnounceFails(p, "publish", "completed", "release")
      BY <3>10 DEF AnnounceFails, Goto, TypeOK, OutputInv, AnnouncedWithRows,
                   OutputAfterCommit
    <3>11. CASE \/ Announce(p, "publishFailed", "failed")
                \/ AnnounceFails(p, "publishFailed", "failed", "releaseFailed")
      BY <3>11, QuietStep DEF Announce, AnnounceFails
    <3>. QED BY <2>2, <3>1, <3>2, <3>3, <3>4, <3>5, <3>6, <3>7, <3>8, <3>9,
                <3>10, <3>11 DEF Handle
  <2>3. ASSUME NEW p \in Procs, Crash(p) PROVE OutputInv'
    BY <2>3, QuietStep DEF Crash, dbVars, Locations
  <2>4. ASSUME NEW p \in Procs, Receive(p) PROVE OutputInv'
    BY <2>4, <2>1 DEF Receive, dbVars
  <2>5. ASSUME NEW m \in Messages, Reappear(m) \/ Expire(m) \/ Redrive(m) PROVE OutputInv'
    BY <2>5, <2>1 DEF Reappear, Expire, Redrive, procVars, dbVars
  <2>6. CASE Terminated \/ UNCHANGED vars
    BY <2>6, <2>1 DEF Terminated, vars
  <2>. QED BY <2>2, <2>3, <2>4, <2>5, <2>6 DEF Next
<1>. QED BY <1>1, <1>2, TypeCorrect, PTL DEF Spec

(* OutputAfterCommit whatever fails, crashes or is delivered twice: the    *)
(* completion event and the completed stage never precede the rows.        *)
THEOREM RowsFirst == Spec => []OutputAfterCommit
<1>1. OutputInv => OutputAfterCommit
  BY DEF OutputInv
<1>. QED BY <1>1, OutputHolds, PTL

-----------------------------------------------------------------------------
(* The refinement.  A step that leaves the event's copies, the rows and    *)
(* the verdicts alone is a stutter of the contract.                        *)

Reliable == \A kind \in {"expire", "crash", "release"} : Budget[kind] = 0

(* A budget of zero is never spent.                                        *)
LEMMA StaysUndisturbed ==
    ASSUME TypeOK, FaultsBounded, Reliable
    PROVE  Undisturbed
<1>. SUFFICES ASSUME NEW kind \in {"expire", "crash", "release"}
              PROVE  faults[kind] = Budget[kind]
  BY DEF Undisturbed
<1>1. kind \in FaultKinds
  BY DEF FaultKinds
<1>2. faults[kind] \in Nat /\ faults[kind] <= 0 /\ Budget[kind] = 0
  BY <1>1 DEF TypeOK, FaultsBounded, Reliable
<1>. QED BY <1>2

(* While a handler is at work on an event, a copy of it is in its queue.   *)
LEMMA WorkedOnIsOpen ==
    ASSUME TypeOK, DeliveryInv, Undisturbed, NEW p \in Procs, pc[p] \notin {"idle", "ack"}
    PROVE  ~Drained
<1>1. current[p] \in inbox[p] \cap Events
  BY DEF DeliveryInv, Handling
<1>2. where[current[p]] = QueueOf(p)
  BY <1>1 DEF DeliveryInv, Receipts
<1>. QED BY <1>1, <1>2 DEF Drained, QueueOf

(* ContractKept, for every number of copies and workers: where no lossy    *)
(* fault happens and the export is not deferred, each step of the hop is a *)
(* step of StageContract or changes nothing it shows.                      *)
THEOREM KeepsContract ==
    ASSUME Reliable, ~Defers
    PROVE  Spec => ContractKept
<1>1. Init => Contract!Init
  BY MessagesAssumption DEF Init, Contract!Init, Drained, Events
<1>2. ASSUME TypeOK, DeliveryInv, DeliveryInv', Undisturbed, Undisturbed', OutputInv,
             [Next]_vars
      PROVE  [Contract!Next]_Contract!vars
  <2>1. ASSUME UNCHANGED <<where, rows, published>> PROVE UNCHANGED Contract!vars
    BY <2>1 DEF Contract!vars, Drained
  <2>2. ASSUME NEW p \in Procs, Handle(p) PROVE [Contract!Next]_Contract!vars
    <3>. USE DEF dbVars, sqsVars
    <3>1. CASE \/ Begin(p) \/ BeginDlq(p) \/ RejectMalformed(p) \/ DiscardMalformed(p)
               \/ Defer(p) \/ FailTerminally(p) \/ FailTransiently(p)
      BY <3>1, <2>1 DEF Begin, BeginDlq, RejectMalformed, DiscardMalformed,
                        Defer, FailTerminally, FailTransiently, Raise
    <3>2. CASE \/ BeginRecord(p) \/ RecordUnmapped(p) \/ CommitFailure(p) \/ RecordFails(p)
               \/ ReleaseClaim(p) \/ ReleaseFails(p) \/ AckFails(p)
      BY <3>2, <2>1 DEF BeginRecord, RecordUnmapped, CommitFailure, RecordFails,
                        ReleaseClaim, ReleaseFails, AckFails, Raise
    <3>3. CASE CommitStage(p)
      <4>1. ~Drained
        BY <1>2, <3>3, WorkedOnIsOpen DEF CommitStage
      <4>2. Contract!Store
        BY <3>3, <4>1 DEF CommitStage, StoreRows, Contract!Store, Drained
      <4>. QED BY <4>2 DEF Contract!Next
    <3>4. ASSUME NEW verdict \in {"completed", "failed"},
                 verdict = "completed" => rows,
                 pc[p] \notin {"idle", "ack"},
                 published' \in {published, published \cup {verdict}},
                 UNCHANGED <<where, rows>>
          PROVE  [Contract!Next]_Contract!vars
      <4>1. ~Drained
        BY <1>2, <3>4, WorkedOnIsOpen
      <4>2. CASE published' = published
        BY <4>2, <3>4, <2>1
      <4>3. CASE published' = published \cup {verdict}
        <5>1. Contract!Announce(verdict)
          BY <3>4, <4>1, <4>3 DEF Contract!Announce, Drained
        <5>. QED BY <5>1 DEF Contract!Next
      <4>. QED BY <3>4, <4>2, <4>3
    <3>5. CASE \/ Announce(p, "publish", "completed")
               \/ AnnounceFails(p, "publish", "completed", "release")
      <4>1. rows
        BY <1>2, <3>5 DEF Announce, AnnounceFails, OutputInv, AnnouncedWithRows
      <4>. QED BY <3>5, <3>4, <4>1 DEF Announce, AnnounceFails
    <3>6. CASE \/ Announce(p, "publishFailed", "failed")
               \/ AnnounceFails(p, "publishFailed", "failed", "releaseFailed")
      BY <3>6, <3>4 DEF Announce, AnnounceFails
    <3>7. CASE Ack(p)
      <4>1. UNCHANGED <<rows, published>>
        BY <3>7 DEF Ack
      <4>2. Drained => Drained'
        BY <3>7 DEF Ack, Drained, TypeOK, Events
      <4>3. CASE ~Drained /\ Drained'
        <5>1. published' # {}
          BY <1>2, <4>3 DEF DeliveryInv, EventOpen, Open, Drained
        <5>2. Contract!Close
          BY <4>1, <4>3, <5>1 DEF Contract!Close
        <5>. QED BY <5>2 DEF Contract!Next
      <4>. QED BY <4>1, <4>2, <4>3 DEF Contract!vars
    <3>. QED BY <2>2, <3>1, <3>2, <3>3, <3>5, <3>6, <3>7 DEF Handle
  <2>3. ASSUME NEW p \in Procs, Crash(p) \/ Receive(p) PROVE [Contract!Next]_Contract!vars
    BY <2>3, <2>1 DEF Crash, Receive, dbVars, sqsVars
  <2>4. ASSUME NEW m \in Messages, Reappear(m) \/ Expire(m) PROVE [Contract!Next]_Contract!vars
    BY <2>4, <2>1 DEF Reappear, Expire, dbVars
  <2>5. ASSUME NEW m \in Messages, Redrive(m) PROVE [Contract!Next]_Contract!vars
    <3>1. \A n \in Messages : where[n] = "gone" <=> where'[n] = "gone"
      BY <2>5 DEF Redrive, TypeOK
    <3>. QED BY <2>5, <3>1 DEF Redrive, dbVars, Contract!vars, Drained, Events
  <2>6. CASE Terminated \/ UNCHANGED vars
    BY <2>6, <2>1 DEF Terminated, vars
  <2>. QED BY <1>2, <2>2, <2>3, <2>4, <2>5, <2>6 DEF Next
<1>3. TypeOK /\ DeliveryInv => Undisturbed
  BY StaysUndisturbed DEF DeliveryInv
<1>. QED BY <1>1, <1>2, <1>3, TypeCorrect, DeliveryHolds, OutputHolds, PTL
        DEF Spec, ContractKept, Contract!Spec
=============================================================================
