--------------------------- MODULE LlmCallsProofs ---------------------------
(***************************************************************************)
(* What holds of the model calls of a job for every number of processes,   *)
(* recordings and tasks, every cap, price, threshold and number of         *)
(* retries.                                                                *)
(***************************************************************************)
EXTENDS LlmCalls, FiniteSetTheorems, WellFoundedInduction, TLAPS

(* The constants, one by one.                                              *)
LEMMA Constants ==
    /\ Recordings \in Nat /\ Recordings > 0 /\ Cap \in Nat /\ Cap > 0
    /\ Price \in Nat /\ Price > 0 /\ FailureThreshold \in Nat /\ FailureThreshold > 0
    /\ MaxReceives \in Nat /\ MaxReceives > 0 /\ MaxRetries \in Nat /\ MaxErrors \in Nat
BY LlmAssumption

(* The types that TypeOK leaves open.                                      *)
Functions ==
    /\ made \in [Processes -> Nat]
    /\ usage \in [Processes -> Nat] /\ paid \in [Processes -> Nat]
    /\ streak \in [Processes -> Nat]
    /\ msg \in [Messages -> {"unsent", "waiting", "held", "done", "failed", "dead"}]
    /\ receives \in [Messages -> 0..MaxReceives]
    /\ at \in [Processes -> {"idle", "check", "call", "log", "commit", "doomed", "capped"}]
    /\ holds \in [Processes -> Messages]
    /\ attempt \in [Processes -> 0..MaxRetries]
    /\ failures \in [Processes -> 0..FailureThreshold]
    /\ breaker \in [Processes -> {"closed", "open", "elapsed"}]
    /\ halfOpen \in [Processes -> BOOLEAN]
    /\ ledger \in Nat /\ accounted \in [Messages -> Nat]
    /\ job \in {"running", "failed"}
    /\ errors \in 0..MaxErrors

(* The breaker: closed below the threshold, where it counts every failure  *)
(* in a row; half open only for a call past an elapsed one.                *)
BreakerInv ==
    \A w \in Processes :
        /\ breaker[w] = "closed" <=> failures[w] < FailureThreshold
        /\ breaker[w] = "closed" => streak[w] <= failures[w]
        /\ halfOpen[w] => breaker[w] = "elapsed"
        /\ at[w] = "call" => breaker[w] = "closed" \/ halfOpen[w]

(* The messages: held by one process at a time, received less often than   *)
(* maxReceiveCount while they wait, and sent for the tasks only when       *)
(* preprocessing is done.                                                  *)
HeldInv ==
    /\ \A w \in Processes : at[w] # "idle" => msg[holds[w]] = "held"
    /\ \A v, w \in Processes :
          at[v] # "idle" /\ at[w] # "idle" /\ holds[v] = holds[w] => v = w
    /\ msg[Preprocessing] # "done" => \A t \in Tasks : msg[t] = "unsent"
    /\ \A m \in Messages : /\ msg[m] = "waiting" => receives[m] < MaxReceives
                           /\ msg[m] = "unsent" => receives[m] = 0

(* The calls of a delivery: the usage rows are what it paid except between *)
(* an answer and its row, and a call to come is one more than were made.   *)
CallsInv ==
    \A w \in Processes :
        /\ at[w] \in {"idle", "check", "call", "commit"} => usage[w] = paid[w]
        /\ at[w] = "log" => paid[w] <= usage[w] + Price
        /\ at[w] = "idle" => made[w] = 0 /\ paid[w] = 0
        /\ at[w] \in {"check", "call", "log"} => made[w] < Calls(holds[w])
        /\ made[w] <= Calls(holds[w])
        /\ made[w] = 0 => usage[w] = 0
        /\ holds[w] \in Tasks /\ at[w] = "commit" => usage[w] <= Price

CallInv == Functions /\ BreakerInv /\ HeldInv /\ CallsInv

(* It holds initially.                                                     *)
LEMMA InitCall == Init => CallInv
<1>. SUFFICES ASSUME Init PROVE CallInv
  OBVIOUS
<1>. USE Constants
<1>1. Functions
  BY DEF Init, Functions, Messages
<1>2. BreakerInv
  BY DEF Init, BreakerInv
<1>3. HeldInv
  BY LlmAssumption DEF Init, HeldInv, Messages
<1>4. CallsInv
  BY DEF Init, CallsInv, Calls
<1>. QED BY <1>1, <1>2, <1>3, <1>4 DEF CallInv

(* A failure of a call that was let through is counted up to the threshold *)
(* and no further.                                                         *)
LEMMA CountedFailure ==
    ASSUME Functions, BreakerInv, NEW w \in Processes, at[w] = "call", RecordFailure(w)
    PROVE  /\ failures' \in [Processes -> 0..FailureThreshold]
           /\ breaker' \in [Processes -> {"closed", "open", "elapsed"}]
           /\ halfOpen' \in [Processes -> BOOLEAN]
           /\ streak' \in [Processes -> Nat]
<1>. USE Constants DEF Functions
<1>1. streak' \in [Processes -> Nat]
  BY DEF RecordFailure
<1>2. breaker' \in [Processes -> {"closed", "open", "elapsed"}]
  BY DEF RecordFailure
<1>3. halfOpen' \in [Processes -> BOOLEAN]
  BY DEF RecordFailure
<1>4. failures' \in [Processes -> 0..FailureThreshold]
  <2>1. CASE halfOpen[w]
    BY <2>1 DEF RecordFailure
  <2>2. CASE ~halfOpen[w]
    <3>1. failures[w] + 1 \in 0..FailureThreshold
      BY <2>2 DEF BreakerInv
    <3>. QED BY <2>2, <3>1 DEF RecordFailure
  <2>. QED BY <2>1, <2>2
<1>. QED BY <1>1, <1>2, <1>3, <1>4

(* Every step keeps the types.                                            *)
LEMMA StepFunctions == Functions /\ BreakerInv /\ HeldInv /\ CallsInv /\ [Next]_vars => Functions'
<1>. SUFFICES ASSUME Functions, BreakerInv, HeldInv, CallsInv, [Next]_vars PROVE Functions'
  OBVIOUS
<1>. USE Constants DEF Functions, BreakerInv, HeldInv, CallsInv, Messages
<1>1. ASSUME NEW w \in Processes, NEW m \in Messages, Receive(w, m)
      PROVE  Functions'
  BY <1>1 DEF Receive, Goto, breakerVars
<1>2. ASSUME NEW w \in Processes, Check(w)
      PROVE  Functions'
  <2>1. halfOpen' \in [Processes -> BOOLEAN]
    <3>1. CASE UNCHANGED halfOpen
      BY <3>1
    <3>2. CASE halfOpen' = [halfOpen EXCEPT ![w] = @ \/ breaker[w] = "elapsed"]
      <4>1. (halfOpen[w] \/ breaker[w] = "elapsed") \in BOOLEAN
        OBVIOUS
      <4>. HIDE DEF Functions
      <4>2. halfOpen \in [Processes -> BOOLEAN]
        BY DEF Functions
      <4>. QED BY <4>1, <4>2, <3>2, Zenon
    <3>. QED BY <3>1, <3>2, <1>2 DEF Check
  <2>. QED BY <2>1, <1>2 DEF Check, GiveUp, Finish, Goto
<1>3. ASSUME NEW w \in Processes, Answer(w)
      PROVE  Functions'
  <2>. PICK cost \in {0, Price} : paid' = [paid EXCEPT ![w] = @ + cost]
    BY <1>3 DEF Answer
  <2>1. paid' \in [Processes -> Nat]
    OBVIOUS
  <2>. QED BY <2>1, <1>3 DEF Answer, RecordSuccess, Goto
<1>4. ASSUME NEW w \in Processes, Retry(w)
      PROVE  Functions'
  BY <1>4 DEF Retry, GoesWrong, breakerVars
<1>5. ASSUME NEW w \in Processes, CallFails(w)
      PROVE  Functions'
  <2>1. /\ failures' \in [Processes -> 0..FailureThreshold]
        /\ breaker' \in [Processes -> {"closed", "open", "elapsed"}]
        /\ halfOpen' \in [Processes -> BOOLEAN]
        /\ streak' \in [Processes -> Nat]
    BY <1>5, CountedFailure DEF CallFails
  <2>. QED BY <2>1, <1>5 DEF CallFails, GoesWrong, GiveUp, Finish, Goto
<1>6. ASSUME NEW w \in Processes, CallIsRefused(w)
      PROVE  Functions'
  <2>1. /\ failures' \in [Processes -> 0..FailureThreshold]
        /\ breaker' \in [Processes -> {"closed", "open", "elapsed"}]
        /\ halfOpen' \in [Processes -> BOOLEAN]
        /\ streak' \in [Processes -> Nat]
    BY <1>6, CountedFailure DEF CallIsRefused
  <2>. QED BY <2>1, <1>6 DEF CallIsRefused, GoesWrong, FailTerminally, Finish, Goto
<1>7. ASSUME NEW w \in Processes, Log(w)
      PROVE  Functions'
  BY <1>7 DEF Log, Goto, breakerVars
<1>8. ASSUME NEW w \in Processes, LogFails(w)
      PROVE  Functions'
  BY <1>8 DEF LogFails, GoesWrong, Goto, breakerVars
<1>9. ASSUME NEW w \in Processes, Doomed(w)
      PROVE  Functions'
  BY <1>9 DEF Doomed, GiveUp, Finish, Goto, breakerVars
<1>10. ASSUME NEW w \in Processes, RolesUnreadable(w)
      PROVE  Functions'
  BY <1>10 DEF RolesUnreadable, GoesWrong, FailTerminally, Finish, Goto, breakerVars
<1>11. ASSUME NEW w \in Processes, Capped(w)
      PROVE  Functions'
  BY <1>11 DEF Capped, FailTerminally, GiveUp, Finish, Goto, breakerVars
<1>12. ASSUME NEW w \in Processes, CappedUnannounced(w)
      PROVE  Functions'
  BY <1>12 DEF CappedUnannounced, GoesWrong, GiveUp, Finish, Goto, breakerVars
<1>13. ASSUME NEW w \in Processes, Commit(w)
      PROVE  Functions'
  BY <1>13 DEF Commit, Goto, breakerVars, Seen
<1>14. ASSUME NEW w \in Processes, Crash(w)
      PROVE  Functions'
  BY <1>14 DEF Crash, GoesWrong, GiveUp, Finish, Goto, RecordSuccess
<1>15. ASSUME NEW w \in Processes, Elapse(w)
      PROVE  Functions'
  BY <1>15 DEF Elapse, txVars
<1>16. ASSUME NEW m \in Messages, RecordDead(m)
      PROVE  Functions'
  BY <1>16 DEF RecordDead, txVars, breakerVars
<1>17. CASE UNCHANGED vars
  BY <1>17 DEF vars, txVars, breakerVars
<1>. QED BY <1>1, <1>2, <1>3, <1>4, <1>5, <1>6, <1>7, <1>8, <1>9,
            <1>10, <1>11, <1>12, <1>13, <1>14, <1>15, <1>16, <1>17
         DEF Next, Work

(* Every step keeps the breaker.                                          *)
LEMMA StepBreaker == Functions /\ BreakerInv /\ [Next]_vars => BreakerInv'
<1>. SUFFICES ASSUME Functions, BreakerInv, [Next]_vars PROVE BreakerInv'
  OBVIOUS
<1>. USE Constants DEF Functions, BreakerInv
<1>1. ASSUME NEW w \in Processes, NEW m \in Messages, Receive(w, m)
      PROVE  BreakerInv'
  BY <1>1 DEF Receive, Goto, breakerVars
<1>2. ASSUME NEW w \in Processes, Check(w)
      PROVE  BreakerInv'
  <2>1. /\ UNCHANGED <<failures, breaker, streak>>
        /\ halfOpen' \in {halfOpen, [halfOpen EXCEPT ![w] = @ \/ breaker[w] = "elapsed"]}
    BY <1>2 DEF Check
  <2>2. \/ Goto(w, "capped") /\ halfOpen' = halfOpen
        \/ GiveUp(w) /\ halfOpen' = halfOpen
        \/ /\ breaker[w] # "open" /\ Goto(w, "call")
           /\ halfOpen' = [halfOpen EXCEPT ![w] = @ \/ breaker[w] = "elapsed"]
    BY <1>2 DEF Check
  <2>. QED BY <2>1, <2>2 DEF GiveUp, Finish, Goto
<1>3. ASSUME NEW w \in Processes, Answer(w)
      PROVE  BreakerInv'
  BY <1>3 DEF Answer, RecordSuccess, Goto
<1>4. ASSUME NEW w \in Processes, Retry(w)
      PROVE  BreakerInv'
  BY <1>4 DEF Retry, GoesWrong, breakerVars
<1>5. ASSUME NEW w \in Processes, CallFails(w)
      PROVE  BreakerInv'
  BY <1>5 DEF CallFails, GoesWrong, RecordFailure, GiveUp, Finish, Goto
<1>6. ASSUME NEW w \in Processes, CallIsRefused(w)
      PROVE  BreakerInv'
  BY <1>6 DEF CallIsRefused, GoesWrong, RecordFailure, FailTerminally, Finish, Goto
<1>7. ASSUME NEW w \in Processes, Log(w)
      PROVE  BreakerInv'
  BY <1>7 DEF Log, Goto, breakerVars
<1>8. ASSUME NEW w \in Processes, LogFails(w)
      PROVE  BreakerInv'
  BY <1>8 DEF LogFails, GoesWrong, Goto, breakerVars
<1>9. ASSUME NEW w \in Processes, Doomed(w)
      PROVE  BreakerInv'
  BY <1>9 DEF Doomed, GiveUp, Finish, Goto, breakerVars
<1>10. ASSUME NEW w \in Processes, RolesUnreadable(w)
      PROVE  BreakerInv'
  BY <1>10 DEF RolesUnreadable, GoesWrong, FailTerminally, Finish, Goto, breakerVars
<1>11. ASSUME NEW w \in Processes, Capped(w)
      PROVE  BreakerInv'
  BY <1>11 DEF Capped, FailTerminally, GiveUp, Finish, Goto, breakerVars
<1>12. ASSUME NEW w \in Processes, CappedUnannounced(w)
      PROVE  BreakerInv'
  BY <1>12 DEF CappedUnannounced, GoesWrong, GiveUp, Finish, Goto, breakerVars
<1>13. ASSUME NEW w \in Processes, Commit(w)
      PROVE  BreakerInv'
  BY <1>13 DEF Commit, Goto, breakerVars, Seen
<1>14. ASSUME NEW w \in Processes, Crash(w)
      PROVE  BreakerInv'
  BY <1>14 DEF Crash, GoesWrong, GiveUp, Finish, Goto, RecordSuccess
<1>15. ASSUME NEW w \in Processes, Elapse(w)
      PROVE  BreakerInv'
  BY <1>15 DEF Elapse, txVars
<1>16. ASSUME NEW m \in Messages, RecordDead(m)
      PROVE  BreakerInv'
  BY <1>16 DEF RecordDead, txVars, breakerVars
<1>17. CASE UNCHANGED vars
  BY <1>17 DEF vars, txVars, breakerVars
<1>. QED BY <1>1, <1>2, <1>3, <1>4, <1>5, <1>6, <1>7, <1>8, <1>9,
            <1>10, <1>11, <1>12, <1>13, <1>14, <1>15, <1>16, <1>17
         DEF Next, Work

(* Every step keeps the messages.                                         *)
LEMMA StepHeld == Functions /\ HeldInv /\ [Next]_vars => HeldInv'
<1>. SUFFICES ASSUME Functions, HeldInv, [Next]_vars PROVE HeldInv'
  OBVIOUS
<1>. USE Constants DEF Functions, HeldInv, Messages
<1>1. ASSUME NEW w \in Processes, NEW m \in Messages, Receive(w, m)
      PROVE  HeldInv'
  BY <1>1 DEF Receive, Goto, breakerVars
<1>2. ASSUME NEW w \in Processes, Check(w)
      PROVE  HeldInv'
  BY <1>2 DEF Check, GiveUp, Finish, Goto, breakerVars, Seen
<1>3. ASSUME NEW w \in Processes, Answer(w)
      PROVE  HeldInv'
  BY <1>3 DEF Answer, RecordSuccess, Goto
<1>4. ASSUME NEW w \in Processes, Retry(w)
      PROVE  HeldInv'
  BY <1>4 DEF Retry, GoesWrong, breakerVars
<1>5. ASSUME NEW w \in Processes, CallFails(w)
      PROVE  HeldInv'
  BY <1>5 DEF CallFails, GoesWrong, RecordFailure, GiveUp, Finish, Goto
<1>6. ASSUME NEW w \in Processes, CallIsRefused(w)
      PROVE  HeldInv'
  BY <1>6 DEF CallIsRefused, GoesWrong, RecordFailure, FailTerminally, Finish, Goto
<1>7. ASSUME NEW w \in Processes, Log(w)
      PROVE  HeldInv'
  BY <1>7 DEF Log, Goto, breakerVars
<1>8. ASSUME NEW w \in Processes, LogFails(w)
      PROVE  HeldInv'
  BY <1>8 DEF LogFails, GoesWrong, Goto, breakerVars
<1>9. ASSUME NEW w \in Processes, Doomed(w)
      PROVE  HeldInv'
  BY <1>9 DEF Doomed, GiveUp, Finish, Goto, breakerVars
<1>10. ASSUME NEW w \in Processes, RolesUnreadable(w)
      PROVE  HeldInv'
  BY <1>10 DEF RolesUnreadable, GoesWrong, FailTerminally, Finish, Goto, breakerVars
<1>11. ASSUME NEW w \in Processes, Capped(w)
      PROVE  HeldInv'
  BY <1>11 DEF Capped, FailTerminally, GiveUp, Finish, Goto, breakerVars
<1>12. ASSUME NEW w \in Processes, CappedUnannounced(w)
      PROVE  HeldInv'
  BY <1>12 DEF CappedUnannounced, GoesWrong, GiveUp, Finish, Goto, breakerVars
<1>13. ASSUME NEW w \in Processes, Commit(w)
      PROVE  HeldInv'
  BY <1>13 DEF Commit, Goto, breakerVars, Seen
<1>14. ASSUME NEW w \in Processes, Crash(w)
      PROVE  HeldInv'
  BY <1>14 DEF Crash, GoesWrong, GiveUp, Finish, Goto, RecordSuccess
<1>15. ASSUME NEW w \in Processes, Elapse(w)
      PROVE  HeldInv'
  BY <1>15 DEF Elapse, txVars
<1>16. ASSUME NEW m \in Messages, RecordDead(m)
      PROVE  HeldInv'
  BY <1>16 DEF RecordDead, txVars, breakerVars
<1>17. CASE UNCHANGED vars
  BY <1>17 DEF vars, txVars, breakerVars
<1>. QED BY <1>1, <1>2, <1>3, <1>4, <1>5, <1>6, <1>7, <1>8, <1>9,
            <1>10, <1>11, <1>12, <1>13, <1>14, <1>15, <1>16, <1>17
         DEF Next, Work

(* Every step keeps the calls of the deliveries.                          *)
LEMMA StepCalls == Functions /\ CallsInv /\ [Next]_vars => CallsInv'
<1>. SUFFICES ASSUME Functions, CallsInv, [Next]_vars PROVE CallsInv'
  OBVIOUS
<1>. USE Constants DEF Functions, CallsInv, Calls, Messages
<1>1. ASSUME NEW w \in Processes, NEW m \in Messages, Receive(w, m)
      PROVE  CallsInv'
  BY <1>1 DEF Receive, Goto, breakerVars
<1>2. ASSUME NEW w \in Processes, Check(w)
      PROVE  CallsInv'
  BY <1>2 DEF Check, GiveUp, Finish, Goto, breakerVars, Seen
<1>3. ASSUME NEW w \in Processes, Answer(w)
      PROVE  CallsInv'
  BY <1>3 DEF Answer, RecordSuccess, Goto
<1>4. ASSUME NEW w \in Processes, Retry(w)
      PROVE  CallsInv'
  BY <1>4 DEF Retry, GoesWrong, breakerVars
<1>5. ASSUME NEW w \in Processes, CallFails(w)
      PROVE  CallsInv'
  BY <1>5 DEF CallFails, GoesWrong, RecordFailure, GiveUp, Finish, Goto
<1>6. ASSUME NEW w \in Processes, CallIsRefused(w)
      PROVE  CallsInv'
  BY <1>6 DEF CallIsRefused, GoesWrong, RecordFailure, FailTerminally, Finish, Goto
<1>7. ASSUME NEW w \in Processes, Log(w)
      PROVE  CallsInv'
  <2>1. /\ at[w] = "log" /\ holds' = holds
        /\ \A v \in Processes \ {w} :
              /\ at'[v] = at[v] /\ usage'[v] = usage[v]
              /\ paid'[v] = paid[v] /\ made'[v] = made[v]
        /\ usage'[w] = paid[w] /\ paid'[w] = paid[w] /\ made'[w] = made[w] + 1
        /\ at'[w] \in {"capped", "check", "commit"}
        /\ at'[w] = "check" => made'[w] < Calls(holds[w])
    BY <1>7 DEF Log, Goto
  <2>2. made'[w] <= Calls(holds[w])
    BY <2>1
  <2>3. holds[w] \in Tasks => made[w] = 0 /\ usage[w] = 0 /\ paid[w] <= Price
    BY <2>1, LlmAssumption
  <2>4. \A v \in Processes \ {w} : CallsInv!(v)'
    BY <2>1
  <2>. QED BY <2>1, <2>2, <2>3, <2>4
<1>8. ASSUME NEW w \in Processes, LogFails(w)
      PROVE  CallsInv'
  BY <1>8 DEF LogFails, GoesWrong, Goto, breakerVars
<1>9. ASSUME NEW w \in Processes, Doomed(w)
      PROVE  CallsInv'
  BY <1>9 DEF Doomed, GiveUp, Finish, Goto, breakerVars
<1>10. ASSUME NEW w \in Processes, RolesUnreadable(w)
      PROVE  CallsInv'
  BY <1>10 DEF RolesUnreadable, GoesWrong, FailTerminally, Finish, Goto, breakerVars
<1>11. ASSUME NEW w \in Processes, Capped(w)
      PROVE  CallsInv'
  BY <1>11 DEF Capped, FailTerminally, GiveUp, Finish, Goto, breakerVars
<1>12. ASSUME NEW w \in Processes, CappedUnannounced(w)
      PROVE  CallsInv'
  BY <1>12 DEF CappedUnannounced, GoesWrong, GiveUp, Finish, Goto, breakerVars
<1>13. ASSUME NEW w \in Processes, Commit(w)
      PROVE  CallsInv'
  BY <1>13 DEF Commit, Goto, breakerVars, Seen
<1>14. ASSUME NEW w \in Processes, Crash(w)
      PROVE  CallsInv'
  BY <1>14 DEF Crash, GoesWrong, GiveUp, Finish, Goto, RecordSuccess
<1>15. ASSUME NEW w \in Processes, Elapse(w)
      PROVE  CallsInv'
  BY <1>15 DEF Elapse, txVars
<1>16. ASSUME NEW m \in Messages, RecordDead(m)
      PROVE  CallsInv'
  BY <1>16 DEF RecordDead, txVars, breakerVars
<1>17. CASE UNCHANGED vars
  BY <1>17 DEF vars, txVars, breakerVars
<1>. QED BY <1>1, <1>2, <1>3, <1>4, <1>5, <1>6, <1>7, <1>8, <1>9,
            <1>10, <1>11, <1>12, <1>13, <1>14, <1>15, <1>16, <1>17
         DEF Next, Work

(* The four together are kept.                                            *)
LEMMA StepCall == CallInv /\ [Next]_vars => CallInv'
BY StepFunctions, StepBreaker, StepHeld, StepCalls DEF CallInv

(* They are an invariant.                                                  *)
LEMMA CallInvariant == Spec => []CallInv
BY InitCall, StepCall, PTL DEF Spec

(* Every variable keeps its domain; a process never makes more calls for a *)
(* message than it has recordings, and its breaker never counts past the   *)
(* threshold.                                                              *)
THEOREM TypeCorrect == Spec => []TypeOK
<1>1. CallInv => TypeOK
  BY DEF CallInv, Functions, CallsInv, TypeOK, Calls
<1>. QED BY <1>1, CallInvariant, PTL

-----------------------------------------------------------------------------
(* The call that fails as the threshold's failure in a row, or as a probe  *)
(* after the recovery time, leaves the breaker open, in every process: the *)
(* count is reset by nothing but an answer or a new process, and a probe   *)
(* needs no count (resilience.py, record_failure).                         *)
THEOREM AThresholdTrips == Spec => BreakerTrips
<1>. DEFINE Trips(w) == streak'[w] > streak[w] /\ streak'[w] >= FailureThreshold
                           => breaker'[w] = "open"
<1>1. ASSUME CallInv, [Next]_vars, NEW v \in Processes
      PROVE  Trips(v)
  <2>. USE Constants, <1>1 DEF CallInv, Functions
  <2>1. ASSUME NEW w \in Processes, at[w] = "call", RecordFailure(w)
        PROVE  Trips(v)
    <3>1. CASE w = v
      BY <2>1, <3>1 DEF RecordFailure, BreakerInv
    <3>2. CASE w # v
      BY <2>1, <3>2 DEF RecordFailure
    <3>. QED BY <3>1, <3>2
  <2>2. ASSUME NEW w \in Processes, RecordSuccess(w)
        PROVE  Trips(v)
    BY <2>2 DEF RecordSuccess
  <2>3. CASE streak' = streak
    BY <2>3
  <2>4. ASSUME NEW w \in Processes, Work(w)
        PROVE  Trips(v)
    <3>1. ASSUME NEW m \in Messages, Receive(w, m) PROVE Trips(v)
      BY <2>3, <3>1 DEF Receive, breakerVars
    <3>2. CASE Answer(w)
      BY <2>2, <3>2 DEF Answer
    <3>3. CASE CallFails(w)
      BY <2>1, <3>3 DEF CallFails
    <3>4. CASE CallIsRefused(w)
      BY <2>1, <3>4 DEF CallIsRefused
    <3>5. CASE Check(w) \/ Retry(w) \/ Log(w) \/ LogFails(w) \/ Doomed(w)
      BY <2>3, <3>5 DEF Check, Retry, Log, LogFails, Doomed, breakerVars
    <3>6. CASE RolesUnreadable(w) \/ Capped(w) \/ CappedUnannounced(w) \/ Commit(w)
      BY <2>3, <3>6 DEF RolesUnreadable, Capped, CappedUnannounced, Commit, breakerVars
    <3>. QED BY <2>4, <3>1, <3>2, <3>3, <3>4, <3>5, <3>6 DEF Work
  <2>5. ASSUME NEW w \in Processes, Crash(w) PROVE Trips(v)
    BY <2>2, <2>5 DEF Crash
  <2>6. ASSUME NEW w \in Processes, Elapse(w) PROVE Trips(v)
    BY <2>3, <2>6 DEF Elapse
  <2>7. ASSUME NEW m \in Messages, RecordDead(m) PROVE Trips(v)
    BY <2>3, <2>7 DEF RecordDead, breakerVars
  <2>8. CASE UNCHANGED vars
    BY <2>3, <2>8 DEF vars, breakerVars
  <2>. QED BY <2>4, <2>5, <2>6, <2>7, <2>8 DEF Next
<1>2. CallInv /\ [Next]_vars =>
        [\A w \in Processes :
            streak'[w] > streak[w] /\ streak'[w] >= FailureThreshold
                => breaker'[w] = "open"]_vars
  BY <1>1
<1>. QED BY <1>2, CallInvariant, PTL DEF Spec, BreakerTrips

-----------------------------------------------------------------------------
(* A message that is not done has paid for no committed row.               *)
Unpaid == \A m \in Messages : msg[m] # "done" => accounted[m] = 0

(* The sum of what completed messages paid grows by the same amount as the *)
(* ledger: a step leaves both alone, or completes one message.             *)
LedgerFollows ==
    [][\/ ledger' = ledger /\ accounted' = accounted
       \/ \E m \in Messages :
             /\ accounted[m] = 0
             /\ accounted' = [accounted EXCEPT ![m] = ledger' - ledger]]_vars

(* The steps that commit nothing.                                          *)
LEMMA OnlyCommitPays ==
    ASSUME [Next]_vars, ~\E w \in Processes : Commit(w)
    PROVE  ledger' = ledger /\ accounted' = accounted
<1>1. ASSUME NEW w \in Processes, Work(w)
      PROVE  ledger' = ledger /\ accounted' = accounted
  <2>1. ASSUME NEW m \in Messages, Receive(w, m)
        PROVE  ledger' = ledger /\ accounted' = accounted
    BY <2>1 DEF Receive
  <2>2. CASE Check(w) \/ Answer(w) \/ Retry(w) \/ CallFails(w) \/ CallIsRefused(w)
    BY <2>2 DEF Check, Answer, Retry, CallFails, CallIsRefused
  <2>3. CASE Log(w) \/ LogFails(w) \/ Doomed(w) \/ RolesUnreadable(w)
    BY <2>3 DEF Log, LogFails, Doomed, RolesUnreadable
  <2>4. CASE Capped(w) \/ CappedUnannounced(w)
    BY <2>4 DEF Capped, CappedUnannounced
  <2>. QED BY <1>1, <2>1, <2>2, <2>3, <2>4 DEF Work
<1>2. ASSUME NEW w \in Processes, Crash(w) \/ Elapse(w)
      PROVE  ledger' = ledger /\ accounted' = accounted
  BY <1>2 DEF Crash, Elapse
<1>3. ASSUME NEW m \in Messages, RecordDead(m)
      PROVE  ledger' = ledger /\ accounted' = accounted
  BY <1>3 DEF RecordDead
<1>. QED BY <1>1, <1>2, <1>3 DEF Next, vars

(* A message that is done stays done.                                      *)
LEMMA DoneIsDone ==
    ASSUME CallInv, [Next]_vars, NEW m \in Messages, msg[m] = "done"
    PROVE  msg'[m] = "done"
<1>. USE DEF CallInv, Functions
<1>1. ASSUME NEW w \in Processes, NEW to, at[w] # "idle",
             msg' = [msg EXCEPT ![holds[w]] = to]
      PROVE  msg'[m] = "done"
  BY <1>1 DEF HeldInv
<1>2. CASE msg' = msg
  BY <1>2
<1>3. ASSUME NEW w \in Processes, Work(w)
      PROVE  msg'[m] = "done"
  <2>1. ASSUME NEW n \in Messages, Receive(w, n) PROVE msg'[m] = "done"
    BY <2>1 DEF Receive
  <2>2. CASE Check(w) \/ Doomed(w)
    BY <1>1, <1>2, <2>2 DEF Check, Doomed, GiveUp, Finish
  <2>3. CASE Answer(w) \/ Retry(w) \/ Log(w) \/ LogFails(w)
    BY <1>2, <2>3 DEF Answer, Retry, Log, LogFails
  <2>4. CASE CallFails(w) \/ CallIsRefused(w) \/ RolesUnreadable(w)
    BY <1>1, <2>4 DEF CallFails, CallIsRefused, RolesUnreadable,
                      GiveUp, FailTerminally, Finish
  <2>5. CASE Capped(w) \/ CappedUnannounced(w)
    BY <1>1, <2>5 DEF Capped, CappedUnannounced, GiveUp, FailTerminally, Finish
  <2>6. CASE Commit(w)
    BY <2>6 DEF Commit, HeldInv, Messages
  <2>. QED BY <1>3, <2>1, <2>2, <2>3, <2>4, <2>5, <2>6 DEF Work
<1>4. ASSUME NEW w \in Processes, Crash(w) PROVE msg'[m] = "done"
  BY <1>1, <1>4 DEF Crash, GiveUp, Finish
<1>5. ASSUME NEW w \in Processes, Elapse(w) PROVE msg'[m] = "done"
  BY <1>2, <1>5 DEF Elapse
<1>6. ASSUME NEW n \in Messages, RecordDead(n) PROVE msg'[m] = "done"
  BY <1>6 DEF RecordDead
<1>7. CASE UNCHANGED vars
  BY <1>2, <1>7 DEF vars
<1>. QED BY <1>3, <1>4, <1>5, <1>6, <1>7 DEF Next

(* Every step keeps it.                                                    *)
LEMMA StepUnpaid == CallInv /\ Unpaid /\ [Next]_vars => Unpaid'
<1>. SUFFICES ASSUME CallInv, Unpaid, [Next]_vars,
                     NEW m \in Messages, msg'[m] # "done"
              PROVE  accounted'[m] = 0
  BY DEF Unpaid
<1>1. msg[m] # "done"
  BY DoneIsDone
<1>2. accounted[m] = 0
  BY <1>1 DEF Unpaid
<1>3. ASSUME NEW w \in Processes, Commit(w)
      PROVE  accounted'[m] = accounted[m]
  <2>1. holds[w] # m
    BY <1>3 DEF Commit
  <2>. QED BY <1>3, <2>1 DEF Commit, CallInv, Functions
<1>. QED BY <1>2, <1>3, OnlyCommitPays

(* What LedgerExact says of a sum, step by step: the usage rows that are   *)
(* committed with a message are all that was paid for it in the delivery   *)
(* that completes it, once (llm_client.py: the usage row and the caller's  *)
(* work share a transaction).                                              *)
THEOREM LedgerFollowsPayment == Spec => LedgerFollows
<1>1. CallInv /\ Unpaid /\ [Next]_vars =>
        [\/ ledger' = ledger /\ accounted' = accounted
         \/ \E m \in Messages :
               /\ accounted[m] = 0
               /\ accounted' = [accounted EXCEPT ![m] = ledger' - ledger]]_vars
  <2>. SUFFICES ASSUME CallInv, Unpaid, [Next]_vars, NEW w \in Processes, Commit(w)
                PROVE  /\ holds[w] \in Messages /\ accounted[holds[w]] = 0
                       /\ accounted' = [accounted EXCEPT ![holds[w]] = ledger' - ledger]
    BY OnlyCommitPays
  <2>1. holds[w] \in Messages /\ msg[holds[w]] = "held"
    BY DEF Commit, CallInv, Functions, HeldInv
  <2>2. accounted[holds[w]] = 0
    BY <2>1 DEF Unpaid
  <2>3. ledger' - ledger = paid[w]
    BY DEF Commit, Seen, CallInv, Functions, CallsInv
  <2>. QED BY <2>1, <2>2, <2>3 DEF Commit
<1>2. Init => Unpaid
  BY DEF Init, Unpaid
<1>. QED BY <1>1, <1>2, StepUnpaid, CallInvariant, PTL DEF Spec, LedgerFollows

-----------------------------------------------------------------------------
(* The recursion behind MapThenSumSet: g has the sum of f over every       *)
(* subset s of S, taking its elements one by one.                          *)
Pick(s) == CHOOSE m \in s : TRUE
Sums(g, f, S) ==
    g = [s \in SUBSET S |-> IF s = {} THEN 0 ELSE f[Pick(s)] + g[s \ {Pick(s)}]]

(* MapThenSumSet is a function that satisfies that recursion.              *)
LEMMA SumUnfolds ==
    ASSUME NEW f, NEW S
    PROVE  MapThenSumSet(LAMBDA m : f[m], S) = (CHOOSE g : Sums(g, f, S))[S]
BY DEF MapThenSumSet, MapThenFoldSet, Sums, Pick

(* What the recursion says of the subsets.                                 *)
SumRule(g, f, S) ==
    \A s \in SUBSET S :
        /\ s = {} => g[s] = 0
        /\ s # {} => /\ Pick(s) \in s /\ s \ {Pick(s)} \in SUBSET S
                     /\ g[s] = f[Pick(s)] + g[s \ {Pick(s)}]

(* A function that satisfies the recursion obeys that rule.                *)
LEMMA SumOf ==
    ASSUME NEW f, NEW S, NEW g, Sums(g, f, S)
    PROVE  SumRule(g, f, S)
<1>. SUFFICES ASSUME NEW s \in SUBSET S
              PROVE  /\ s = {} => g[s] = 0
                     /\ s # {} => /\ Pick(s) \in s /\ s \ {Pick(s)} \in SUBSET S
                                  /\ g[s] = f[Pick(s)] + g[s \ {Pick(s)}]
  BY DEF SumRule
<1>1. g[s] = IF s = {} THEN 0 ELSE f[Pick(s)] + g[s \ {Pick(s)}]
  <2>. DEFINE h == [r \in SUBSET S |-> IF r = {} THEN 0 ELSE f[Pick(r)] + g[r \ {Pick(r)}]]
  <2>1. h[s] = IF s = {} THEN 0 ELSE f[Pick(s)] + g[s \ {Pick(s)}]
    OBVIOUS
  <2>2. g = h
    BY DEF Sums
  <2>. HIDE DEF h
  <2>. QED BY <2>1, <2>2
<1>2. s # {} => Pick(s) \in s
  BY DEF Pick
<1>. QED BY <1>1, <1>2

(* On a finite set only one function does: of the subsets on which two     *)
(* differ, one would hold no smaller one.                                  *)
LEMMA SumsUnique ==
    ASSUME NEW f, NEW S, IsFiniteSet(S), NEW g, NEW h, Sums(g, f, S), Sums(h, f, S)
    PROVE  g[S] = h[S]
<1>. DEFINE Differ == {s \in SUBSET S : g[s] # h[s]}
<1>. SUFFICES ASSUME Differ # {} PROVE FALSE
  OBVIOUS
<1>1. IsWellFoundedOn(StrictSubsetOrdering(S), SUBSET S)
  BY FS_StrictSubsetOrderingWellFounded, FS_FiniteSubsetsOfFinite
<1>2. PICK s \in Differ : \A r \in Differ : <<r, s>> \notin StrictSubsetOrdering(S)
  <2>1. Differ \subseteq SUBSET S
    OBVIOUS
  <2>. HIDE DEF Differ
  <2>. QED BY <1>1, <2>1, WFMin
<1>3. s \in SUBSET S /\ g[s] # h[s]
  OBVIOUS
<1>4. SumRule(g, f, S) /\ SumRule(h, f, S)
  BY SumOf
<1>5. s # {}
  BY <1>3, <1>4 DEF SumRule
<1>6. Pick(s) \in s /\ s \ {Pick(s)} \in SUBSET S
  BY <1>3, <1>5 DEF Pick
<1>7. <<s \ {Pick(s)}, s>> \in StrictSubsetOrdering(S)
  BY <1>6 DEF StrictSubsetOrdering
<1>8. g[s \ {Pick(s)}] = h[s \ {Pick(s)}]
  <2>1. s \ {Pick(s)} \notin Differ
    <3>. HIDE DEF Differ
    <3>. QED BY <1>2, <1>7
  <2>. QED BY <1>6, <2>1
<1>9. g[s] = f[Pick(s)] + g[s \ {Pick(s)}] /\ h[s] = f[Pick(s)] + h[s \ {Pick(s)}]
  BY <1>3, <1>4, <1>5 DEF SumRule
<1>. QED BY <1>3, <1>8, <1>9

(* The sum of f over S is n.                                               *)
Total(f, S, n) == \E g \in [SUBSET S -> Nat] : Sums(g, f, S) /\ g[S] = n

(* A number in a place that had none is as much more in the sum.           *)
LEMMA TotalGrows ==
    ASSUME NEW S, NEW f \in [S -> Nat], NEW k \in Nat, Total(f, S, k),
           NEW m \in S, f[m] = 0, NEW n \in Nat,
           NEW e, e[m] = n, \A x \in S \ {m} : e[x] = f[x]
    PROVE  Total(e, S, k + n)
<1>1. PICK g \in [SUBSET S -> Nat] : Sums(g, f, S) /\ g[S] = k
  BY DEF Total
<1>2. \A s \in SUBSET S :
         /\ s = {} => g[s] = 0
         /\ s # {} => /\ Pick(s) \in s /\ s \ {Pick(s)} \in SUBSET S
                      /\ g[s] = f[Pick(s)] + g[s \ {Pick(s)}]
  <2>1. SumRule(g, f, S)
    BY <1>1, SumOf
  <2>. QED BY <2>1 DEF SumRule
<1>. DEFINE h == [s \in SUBSET S |-> g[s] + (IF m \in s THEN n ELSE 0)]
<1>3. h \in [SUBSET S -> Nat] /\ h[S] = k + n
  BY <1>1
<1>4. ASSUME NEW s \in SUBSET S
      PROVE  h[s] = IF s = {} THEN 0 ELSE e[Pick(s)] + h[s \ {Pick(s)}]
  <2>1. CASE s = {}
    <3>1. g[s] = 0
      BY <1>2, <2>1
    <3>2. h[s] = g[s]
      BY <1>1, <2>1, <3>1
    <3>. HIDE DEF h
    <3>. QED BY <2>1, <3>1, <3>2
  <2>2. CASE s # {}
    <3>1. /\ Pick(s) \in s /\ s \ {Pick(s)} \in SUBSET S
          /\ g[s] = f[Pick(s)] + g[s \ {Pick(s)}]
      BY <1>2, <2>2
    <3>. DEFINE x == Pick(s)
                r == s \ {x}
    <3>. HIDE DEF x
    <3>2. x \in s /\ x \in S /\ r \in SUBSET S /\ g[s] = f[x] + g[r]
      BY <3>1 DEF x
    <3>3. g[r] \in Nat /\ f[x] \in Nat /\ g[s] \in Nat
      BY <3>2
    <3>4. h[s] = g[s] + (IF m \in s THEN n ELSE 0)
      OBVIOUS
    <3>5. h[r] = g[r] + (IF m \in r THEN n ELSE 0)
      BY <3>2
    <3>6. e[x] = IF x = m THEN n ELSE f[x]
      BY <3>2
    <3>7. m \in r <=> m \in s /\ m # x
      OBVIOUS
    <3>. HIDE DEF h, r
    <3>8. h[s] = e[x] + h[r]
      <4>1. CASE x = m
        BY <3>2, <3>3, <3>4, <3>5, <3>6, <3>7, <4>1
      <4>2. CASE x # m
        BY <3>2, <3>3, <3>4, <3>5, <3>6, <3>7, <4>2
      <4>. QED BY <4>1, <4>2
    <3>. QED BY <2>2, <3>8 DEF r, x
  <2>. QED BY <2>1, <2>2
<1>5. Sums(h, e, S)
  <2>1. h = [s \in SUBSET S |-> h[s]]
    OBVIOUS
  <2>. HIDE DEF h
  <2>2. [s \in SUBSET S |-> h[s]]
          = [s \in SUBSET S |-> IF s = {} THEN 0 ELSE e[Pick(s)] + h[s \ {Pick(s)}]]
    BY <1>4
  <2>. QED BY <2>1, <2>2 DEF Sums
<1>. HIDE DEF h
<1>. QED BY <1>3, <1>5 DEF Total

(* The ledger is the total of what was accounted.                          *)
SumInv == Total(accounted, Messages, ledger)

(* It is enough for LedgerExact.                                           *)
LEMMA SumInvSuffices == SumInv => LedgerExact
<1>. SUFFICES ASSUME SumInv PROVE LedgerExact
  OBVIOUS
<1>1. PICK g : Sums(g, accounted, Messages) /\ g[Messages] = ledger
  BY DEF SumInv, Total
<1>2. IsFiniteSet(Messages)
  BY LlmAssumption, FS_Union, FS_Singleton DEF Messages
<1>. DEFINE h == CHOOSE h : Sums(h, accounted, Messages)
<1>3. Sums(h, accounted, Messages)
  BY <1>1
<1>. HIDE DEF h
<1>4. h[Messages] = ledger
  BY <1>1, <1>2, <1>3, SumsUnique
<1>. QED BY <1>4, SumUnfolds DEF LedgerExact, h

(* Every step keeps it.                                                    *)
LEMMA StepSum ==
    ASSUME CallInv, SumInv, [Next]_vars, Unpaid
    PROVE  SumInv'
<1>1. CASE ledger' = ledger /\ accounted' = accounted
  BY <1>1 DEF SumInv, Total, Sums, Messages
<1>2. ASSUME NEW w \in Processes, Commit(w)
      PROVE  SumInv'
  <2>1. /\ holds[w] \in Messages /\ accounted[holds[w]] = 0
        /\ accounted' = [accounted EXCEPT ![holds[w]] = paid[w]]
        /\ ledger' = ledger + paid[w] /\ paid[w] \in Nat /\ ledger \in Nat
        /\ accounted \in [Messages -> Nat]
    BY <1>2 DEF Commit, Seen, CallInv, Functions, HeldInv, CallsInv, Unpaid
  <2>2. /\ accounted'[holds[w]] = paid[w]
        /\ \A x \in Messages \ {holds[w]} : accounted'[x] = accounted[x]
    BY <2>1
  <2>3. Total(accounted', Messages, ledger + paid[w])
    BY <2>1, <2>2, TotalGrows DEF SumInv
  <2>. QED BY <2>1, <2>3 DEF SumInv, Total, Sums, Messages
<1>. QED BY <1>1, <1>2, OnlyCommitPays

(* The committed cost of a job is exactly the sum of what the deliveries   *)
(* that completed its messages paid, for every number of messages: no row  *)
(* of a delivery that was rolled back stays, none of one that counts is    *)
(* lost, and none is there twice (llm_client.py: the usage row is added in *)
(* the caller's transaction).                                              *)
THEOREM TheLedgerIsExact == Spec => []LedgerExact
<1>1. Init => SumInv
  <2>. SUFFICES ASSUME Init PROVE SumInv
    OBVIOUS
  <2>. DEFINE g == [s \in SUBSET Messages |-> 0]
  <2>1. ASSUME NEW s \in SUBSET Messages, s # {}
        PROVE  accounted[Pick(s)] + g[s \ {Pick(s)}] = 0
    BY <2>1 DEF Init, Pick
  <2>2. Sums(g, accounted, Messages)
    BY <2>1 DEF Sums
  <2>3. g \in [SUBSET Messages -> Nat] /\ g[Messages] = ledger
    BY DEF Init
  <2>. HIDE DEF g
  <2>. QED BY <2>2, <2>3 DEF SumInv, Total
<1>2. CallInv /\ Unpaid /\ SumInv /\ [Next]_vars => SumInv'
  BY StepSum
<1>3. Init => Unpaid
  BY DEF Init, Unpaid
<1>. QED BY <1>1, <1>2, <1>3, SumInvSuffices, InitCall, StepCall, StepUnpaid, PTL DEF Spec

-----------------------------------------------------------------------------
(* Processes that passed the last look at the cap and have yet to commit.  *)
Committing == {w \in Processes : at[w] = "commit"}

Limit == Cap + (Cardinality(Processes) - 1) * Price

(* What keeps the overshoot bounded: room for everyone about to commit. At *)
(* least one of them may bring any amount below the cap, and each of the   *)
(* others one call.                                                        *)
Headroom ==
    /\ Committing = {} => ledger < Limit
    /\ Committing # {} =>
          \E v \in Committing :
              ledger + usage[v] + (Cardinality(Committing) - 1) * Price < Limit

(* Arithmetic of one process more, or less.                                *)
LEMMA Times ==
    ASSUME NEW n \in Nat, NEW k \in Nat, n <= k, NEW p \in Nat
    PROVE  n * p <= k * p /\ (n + 1) * p = n * p + p /\ n * p \in Nat
<1>1. k * p - n * p = (k - n) * p /\ (k - n) \in Nat
  OBVIOUS
<1>2. \A i, j \in Nat : i * j \in Nat
  OBVIOUS
<1>. QED BY <1>1, <1>2

(* The processes about to commit are finitely many, at most all of them.   *)
LEMMA CommittingFinite ==
    /\ IsFiniteSet(Processes) /\ Cardinality(Processes) \in Nat /\ Cardinality(Processes) >= 1
    /\ IsFiniteSet(Committing) /\ Cardinality(Committing) \in Nat
    /\ Cardinality(Committing) <= Cardinality(Processes)
    /\ Committing # {} => Cardinality(Committing) >= 1
<1>1. IsFiniteSet(Processes) /\ Processes # {}
  BY LlmAssumption
<1>2. Committing \subseteq Processes
  BY DEF Committing
<1>. HIDE DEF Committing
<1>. QED BY <1>1, <1>2, FS_Subset, FS_CardinalityType, FS_EmptySet

(* It is enough for the bound.                                             *)
LEMMA HeadroomSuffices == CallInv /\ Headroom => OvershootBounded
<1>. SUFFICES ASSUME CallInv, Headroom PROVE ledger < Limit
  BY DEF OvershootBounded, Limit
<1>. USE Constants, CommittingFinite
<1>1. Limit \in Int
  BY DEF Limit
<1>2. CASE Committing # {}
  <2>1. PICK v \in Committing :
            ledger + usage[v] + (Cardinality(Committing) - 1) * Price < Limit
    BY <1>2 DEF Headroom
  <2>2. usage[v] \in Nat /\ ledger \in Nat
    BY DEF Committing, CallInv, Functions
  <2>3. (Cardinality(Committing) - 1) * Price \in Nat
    BY <1>2, Times, Cardinality(Committing) - 1 \in Nat
  <2>. QED BY <1>1, <2>1, <2>2, <2>3
<1>. QED BY <1>2 DEF Headroom

(* Two processes about to commit hold tasks, with one call each: while     *)
(* preprocessing is held, no task is sent.                                 *)
LEMMA TogetherIsCheap ==
    ASSUME CallInv, NEW u \in Committing, NEW v \in Committing, u # v
    PROVE  usage[u] <= Price
<1>1. u \in Processes /\ v \in Processes /\ at[u] = "commit" /\ at[v] = "commit"
  BY DEF Committing
<1>2. msg[holds[u]] = "held" /\ msg[holds[v]] = "held" /\ holds[u] # holds[v]
  BY <1>1 DEF CallInv, HeldInv
<1>3. holds[u] \in Messages /\ holds[v] \in Messages
  BY <1>1 DEF CallInv, Functions
<1>4. holds[u] \in Tasks
  BY <1>2, <1>3 DEF CallInv, HeldInv, Messages
<1>. QED BY <1>1, <1>4 DEF CallInv, CallsInv

(* One of them goes, committing its rows or not.                           *)
LEMMA OneLeaves ==
    ASSUME CallInv, CallInv', Headroom, NEW w \in Committing,
           Committing' = Committing \ {w},
           \A v \in Committing' : usage'[v] = usage[v],
           ledger' <= ledger + usage[w]
    PROVE  Headroom'
<1>. DEFINE n == Cardinality(Committing)
<1>1. Cardinality(Committing') = n - 1
  BY CommittingFinite, FS_RemoveElement
<1>2. n \in Nat /\ n >= 1
  BY CommittingFinite
<1>3. /\ ledger \in Nat /\ ledger' \in Nat
      /\ \A v \in Committing : usage[v] \in Nat
      /\ Limit \in Int /\ Limit' = Limit
  BY Constants, CommittingFinite DEF CallInv, Functions, Committing, Limit
<1>4. PICK v \in Committing : ledger + usage[v] + (n - 1) * Price < Limit
  BY DEF Headroom
<1>5. CASE Committing' = {}
  <2>1. v = w
    BY <1>5
  <2>2. (n - 1) * Price \in Nat
    BY <1>2, Constants, Times, n - 1 \in Nat
  <2>3. ledger' < Limit
    <3>. HIDE DEF n
    <3>. QED BY <1>3, <1>4, <2>1, <2>2
  <2>. QED BY <1>3, <1>5, <2>3 DEF Headroom
<1>6. CASE Committing' # {}
  <2>1. n >= 2
    BY <1>1, <1>2, <1>6, FS_EmptySet, CommittingFinite, FS_RemoveElement
  <2>2. (n - 1) * Price = (n - 2) * Price + Price /\ (n - 2) * Price \in Nat
    <3>. HIDE DEF n
    <3>1. n - 2 \in Nat /\ (n - 2) + 1 = n - 1
      BY <1>2, <2>1
    <3>. QED BY <3>1, Constants, Times
  <2>3. PICK u \in Committing' : ledger' + usage[u] <= ledger + usage[v] + Price
    <3>1. CASE v = w
      <4>1. PICK u \in Committing' : TRUE
        BY <1>6
      <4>2. u \in Committing /\ u # w
        OBVIOUS
      <4>. QED BY <1>3, <3>1, <4>1, <4>2, Constants, TogetherIsCheap
    <3>2. CASE v # w
      <4>1. usage[w] <= Price
        BY <3>2, TogetherIsCheap
      <4>. QED BY <1>3, <3>2, <4>1, Constants
    <3>. QED BY <3>1, <3>2
  <2>4. ledger' + usage'[u] + ((n - 1) - 1) * Price < Limit
    <3>1. (n - 1) - 1 = n - 2 /\ usage'[u] = usage[u] /\ u \in Committing
      BY <1>2
    <3>. HIDE DEF n
    <3>. QED BY <1>3, <1>4, <2>2, <2>3, <3>1, Constants
  <2>. QED BY <1>1, <1>3, <1>6, <2>4 DEF Headroom
<1>. QED BY <1>5, <1>6

(* One more is about to commit, having seen less than the cap.             *)
LEMMA OneJoins ==
    ASSUME CallInv', NEW w \in Processes, w \in Committing',
           ledger' + usage'[w] < Cap
    PROVE  Headroom'
<1>. DEFINE n == Cardinality(Committing)'
<1>1. /\ n \in Nat /\ n >= 1 /\ n <= Cardinality(Processes)
      /\ Cardinality(Processes) \in Nat
  <2>1. (/\ IsFiniteSet(Processes) /\ Cardinality(Processes) \in Nat /\ Cardinality(Processes) >= 1
         /\ IsFiniteSet(Committing) /\ Cardinality(Committing) \in Nat
         /\ Cardinality(Committing) <= Cardinality(Processes)
         /\ Committing # {} => Cardinality(Committing) >= 1)'
    BY CommittingFinite, PTL
  <2>. QED BY <2>1
<1>2. ledger' \in Nat /\ usage'[w] \in Nat
  BY DEF CallInv, Functions
<1>. HIDE DEF n
<1>3. (n - 1) * Price <= (Cardinality(Processes) - 1) * Price
  BY <1>1, Constants, Times, n - 1 \in Nat, Cardinality(Processes) - 1 \in Nat
<1>4. (n - 1) * Price \in Nat /\ (Cardinality(Processes) - 1) * Price \in Nat
  BY <1>1, Constants, Times, n - 1 \in Nat, Cardinality(Processes) - 1 \in Nat
<1>5. ledger' + usage'[w] + (n - 1) * Price < Limit
  BY <1>2, <1>3, <1>4, Constants DEF Limit
<1>. QED BY <1>5 DEF Headroom, n, Limit

(* Nobody comes or goes.                                                   *)
LEMMA NobodyMoves ==
    ASSUME CallInv, Headroom, ledger' = ledger,
           \A v \in Processes : /\ at'[v] = "commit" <=> at[v] = "commit"
                                /\ at[v] = "commit" => usage'[v] = usage[v]
    PROVE  Headroom'
<1>1. Committing' = Committing
  BY DEF Committing
<1>2. \A v \in Committing : usage'[v] = usage[v]
  BY DEF Committing
<1>. HIDE DEF Committing
<1>. QED BY <1>1, <1>2 DEF Headroom, Limit

(* A process at "commit" leaves it, its transaction rolled back.           *)
LEMMA OneGivesUp ==
    ASSUME CallInv, CallInv', Headroom, NEW w \in Processes, at[w] = "commit",
           NEW to, Finish(w, to), ledger' = ledger
    PROVE  Headroom'
<1>1. Committing' = Committing \ {w} /\ w \in Committing
  BY DEF Committing, Finish, Goto, CallInv, Functions
<1>2. \A v \in Committing' : usage'[v] = usage[v]
  BY <1>1 DEF Committing, Finish, Goto, CallInv, Functions
<1>3. ledger' <= ledger + usage[w]
  BY DEF CallInv, Functions
<1>. QED BY <1>1, <1>2, <1>3, OneLeaves

(* Every step keeps it.                                                    *)
LEMMA StepHeadroom == CallInv /\ CallInv' /\ Headroom /\ [Next]_vars => Headroom'
<1>. SUFFICES ASSUME CallInv, CallInv', Headroom, [Next]_vars PROVE Headroom'
  OBVIOUS
<1>. DEFINE Still == /\ ledger' = ledger
                     /\ \A v \in Processes :
                           /\ at'[v] = "commit" <=> at[v] = "commit"
                           /\ at[v] = "commit" => usage'[v] = usage[v]
<1>1. Still => Headroom'
  BY NobodyMoves
<1>2. ASSUME NEW w \in Processes, NEW to, at[w] # "commit", Finish(w, to), ledger' = ledger
      PROVE  Still
  BY <1>2 DEF Finish, Goto, CallInv, Functions
<1>3. ASSUME NEW w \in Processes, Work(w)
      PROVE  Headroom'
  <2>1. ASSUME NEW m \in Messages, Receive(w, m) PROVE Still
    BY <2>1 DEF Receive, Goto, CallInv, Functions
  <2>2. CASE Check(w)
    <3>1. CASE Goto(w, "capped") /\ UNCHANGED usage
      BY <1>1, <2>2, <3>1 DEF Check, Goto, CallInv, Functions
    <3>2. CASE GiveUp(w)
      BY <2>2, <3>2, <1>1, <1>2 DEF Check, GiveUp
    <3>3. CASE Goto(w, "call") /\ UNCHANGED usage
      BY <1>1, <2>2, <3>3 DEF Check, Goto, CallInv, Functions
    <3>. QED BY <2>2, <3>1, <3>2, <3>3 DEF Check
  <2>3. CASE Answer(w)
    BY <1>1, <2>3 DEF Answer, Goto, CallInv, Functions
  <2>4. CASE Retry(w)
    BY <1>1, <2>4 DEF Retry
  <2>5. CASE CallFails(w) \/ CallIsRefused(w)
    BY <2>5, <1>1, <1>2 DEF CallFails, CallIsRefused, GiveUp, FailTerminally
  <2>6. CASE Log(w)
    <3>1. CASE ledger + paid[w] < Cap /\ at'[w] = "commit"
      <4>1. w \in Committing' /\ ledger' = ledger /\ usage'[w] = paid[w]
        BY <2>6, <3>1 DEF Log, Committing, CallInv, Functions
      <4>. QED BY <3>1, <4>1, OneJoins
    <3>2. CASE at'[w] # "commit"
      BY <1>1, <2>6, <3>2 DEF Log, Goto, CallInv, Functions
    <3>3. ledger + paid[w] < Cap \/ at'[w] # "commit"
      BY <2>6, Constants DEF Log, Goto, CallInv, Functions
    <3>. QED BY <1>1, <3>1, <3>2, <3>3
  <2>7. CASE LogFails(w)
    BY <1>1, <2>7 DEF LogFails, Goto, CallInv, Functions
  <2>8. CASE Doomed(w)
    BY <2>8, <1>1, <1>2 DEF Doomed, GiveUp
  <2>9. CASE RolesUnreadable(w)
    <3>1. Finish(w, "failed") /\ ledger' = ledger
      BY <2>9 DEF RolesUnreadable, FailTerminally
    <3>. QED BY <1>1, <1>2, <3>1, OneGivesUp
  <2>10. CASE Capped(w) \/ CappedUnannounced(w)
    BY <2>10, <1>1, <1>2 DEF Capped, CappedUnannounced, GiveUp, FailTerminally
  <2>11. CASE Commit(w)
    <3>1. Committing' = Committing \ {w} /\ w \in Committing
      BY <2>11 DEF Commit, Goto, Committing, CallInv, Functions
    <3>2. \A v \in Committing' : usage'[v] = usage[v]
      BY <2>11, <3>1 DEF Commit, Committing, CallInv, Functions
    <3>3. ledger' <= ledger + usage[w]
      BY <2>11 DEF Commit, Seen, CallInv, Functions
    <3>. QED BY <3>1, <3>2, <3>3, OneLeaves
  <2>. QED BY <1>1, <1>3, <2>1, <2>2, <2>3, <2>4, <2>5, <2>6, <2>7, <2>8, <2>9,
              <2>10, <2>11 DEF Work
<1>4. ASSUME NEW w \in Processes, Crash(w) PROVE Headroom'
  <2>1. PICK to : Finish(w, to) /\ ledger' = ledger
    BY <1>4 DEF Crash, GiveUp
  <2>. QED BY <1>1, <1>2, <2>1, OneGivesUp
<1>5. ASSUME NEW w \in Processes, Elapse(w) PROVE Still
  BY <1>5 DEF Elapse, txVars
<1>6. ASSUME NEW m \in Messages, RecordDead(m) PROVE Still
  BY <1>6 DEF RecordDead, txVars
<1>7. CASE UNCHANGED vars
  BY <1>1, <1>7 DEF vars, txVars
<1>. QED BY <1>1, <1>3, <1>4, <1>5, <1>6, <1>7 DEF Next

(* Whatever the number of workers that look at the cap at the same moment, *)
(* the cost committed for a job exceeds the cap by less than one call of   *)
(* each of the others (llm_client.py, assert_job_under_cost_cap before and *)
(* after each call).                                                       *)
THEOREM OvershootIsBounded == Spec => []OvershootBounded
<1>1. Init => Headroom
  <2>. SUFFICES ASSUME Init PROVE Headroom
    OBVIOUS
  <2>1. Committing = {} /\ ledger = 0
    BY DEF Init, Committing
  <2>2. (Cardinality(Processes) - 1) * Price \in Nat
    BY CommittingFinite, Constants, Times, Cardinality(Processes) - 1 \in Nat
  <2>. QED BY <2>1, <2>2, Constants DEF Headroom, Limit
<1>. QED BY <1>1, StepHeadroom, StepCall, InitCall, HeadroomSuffices, PTL DEF Spec
=============================================================================
