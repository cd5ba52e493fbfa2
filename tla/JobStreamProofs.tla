-------------------------- MODULE JobStreamProofs --------------------------
(***************************************************************************)
(* What the event stream of a job guarantees beside the running pipeline,  *)
(* for every set and budget of faults and any number of disconnects.       *)
(***************************************************************************)
EXTENDS JobStream, PipelineProofs

(* The stream only looks: whatever it does, the pipeline either takes a    *)
(* step of its own or does not notice.                                     *)
LEMMA StreamLooks == [StreamNext]_allVars => [Next]_vars
<1>. SUFFICES ASSUME [StreamNext]_allVars PROVE [Next]_vars
  OBVIOUS
<1>1. CASE Next /\ UNCHANGED streamVars
  BY <1>1
<1>2. CASE Stream \/ Disconnect
  BY <1>2 DEF Stream, Connect, ReadJob, ReadStages, Disconnect
<1>3. CASE UNCHANGED allVars
  BY <1>3 DEF allVars
<1>. QED BY <1>1, <1>2, <1>3 DEF StreamNext

(* So every theorem about the pipeline holds beside a stream.              *)
THEOREM PipelineUndisturbed == StreamSpec => Spec
<1>1. StreamInit => Init
  BY DEF StreamInit
<1>. QED BY <1>1, StreamLooks, PTL DEF StreamSpec, Spec

-----------------------------------------------------------------------------
(* Export's stage is left pending until its handler or, blaming it for a   *)
(* redriven annotation.task.completed, the DLQ worker commits; a job is    *)
(* completed only with it.                                                 *)
Redriven == "redrive" \in spent
RedrivenDead == \A d \in Dones : dead[d] > 0 => Redriven
RecordsMapped ==
    /\ \A p \in Procs : pc[p] = "record" => Item(p) \in Mapped
    /\ pc["dlq"] # "idle" /\ dlqItem \in Dones => Redriven
ExportWritten ==
    /\ stage["export"] \in {"pending", "completed", "failed"}
    /\ stage["export"] = "failed" => Redriven
    /\ job = "completed" => stage["export"] = "completed"

ExportInv == Typed /\ RedrivenDead /\ RecordsMapped /\ ExportWritten

(* What every step does to it: once written, the stage is not pending.     *)
StillWritten == stage["export"] # "pending" => stage'["export"] # "pending"

(* Only the completions of tasks and its own event are put down to export. *)
LEMMA ExportsEvents ==
    \A e \in Events : StageOf[e] = "export" => e \in Dones \/ e = "export"
BY Names, StagesOf DEF Events, Hops, Line

(* It holds initially.                                                     *)
LEMMA InitExport == Init => ExportInv
<1>. SUFFICES ASSUME Init PROVE ExportInv
  OBVIOUS
<1>1. "export" \in Stages
  BY DEF Stages, PipelineStageNames
<1>. QED BY <1>1, InitTyped, Names
     DEF Init, ExportInv, RedrivenDead, RecordsMapped, ExportWritten

(* A step that leaves the statuses alone, opens no new failure record and  *)
(* buries no completion.                                                   *)
LEMMA ExportKept ==
    ASSUME ExportInv, Typed', [Next]_vars, UNCHANGED <<stage, job>>,
           \A p \in Procs : pc'[p] = "record" => pc[p] = "record",
           UNCHANGED dlqItem, pc'["dlq"] # "idle" => pc["dlq"] # "idle",
           \A d \in Dones : dead'[d] > 0 => dead[d] > 0 \/ Redriven'
    PROVE  ExportInv' /\ StillWritten
<1>1. Redriven => Redriven'
  BY SpentGrows DEF Redriven
<1>2. RecordsMapped'
  BY <1>1 DEF ExportInv, RecordsMapped, Item
<1>. QED BY <1>1, <1>2 DEF ExportInv, RedrivenDead, ExportWritten, StillWritten

(* A message that is returned is a completion only if the DLQ worker       *)
(* returns it.                                                             *)
LEMMA ReturnedDone ==
    ASSUME ExportInv, NEW p \in Procs, NEW q, ReturnInto(q, p), p = "dlq" => pc[p] # "idle"
    PROVE  \A d \in Dones : dead'[d] > 0 => dead[d] > 0 \/ Redriven
<1>1. Item(p) \in Dones => p = "dlq"
  BY Names DEF Item
<1>2. Item(p) \in Dones => Redriven
  BY <1>1 DEF ExportInv, RecordsMapped, Item
<1>3. dead \in [Events -> Nat]
  BY DEF ExportInv, Typed, TypeOK
<1>. QED BY <1>2, <1>3, Names DEF ReturnInto

(* The commit of a hop.                                                    *)
LEMMA ExportCommitted ==
    ASSUME ExportInv, Typed', NEW h \in Hops, Commit(h)
    PROVE  ExportInv' /\ StillWritten
<1>. USE DEF ExportInv
<1>0. h \in Procs /\ h \in Events /\ h \notin Dones /\ "export" \in Stages
  BY Names DEF Stages, PipelineStageNames
<1>1. UNCHANGED <<dead, spent, dlqItem>>
  BY DEF Commit, msgVars, faultVars
<1>2. RecordsMapped' /\ RedrivenDead'
  BY <1>0, <1>1, Names
  DEF RecordsMapped, RedrivenDead, Redriven, Commit, Leave, Item, Typed, TypeOK
<1>3. CASE h = "export"
  <2>1. stage'["export"] = "completed"
    <3>1. StageAfter(h) = "completed" /\ StageOf[h] = "export"
      BY <1>3, StagesOf, LineNames DEF StageAfter, Typed, TypeOK
    <3>. QED BY <1>0, <3>1 DEF Commit, Typed, TypeOK
  <2>. QED BY <1>2, <2>1 DEF ExportWritten, StillWritten
<1>4. CASE h # "export"
  <2>1. StageOf[h] # "export"
    BY <1>0, <1>4, ExportsEvents
  <2>2. stage'["export"] = stage["export"]
    BY <1>0, <2>1, StagesOf DEF Commit, Typed, TypeOK
  <2>3. job' = "completed" => job = "completed"
    BY <1>4 DEF Commit, JobAfter, Assign
  <2>. QED BY <1>1, <1>2, <2>2, <2>3 DEF ExportWritten, StillWritten, Redriven
<1>. QED BY <1>3, <1>4

(* A failure record.                                                       *)
LEMMA ExportRecorded ==
    ASSUME ExportInv, Typed', [Next]_vars, NEW p \in Procs, Record(p) \/ RecordFails(p)
    PROVE  ExportInv' /\ StillWritten
<1>. USE DEF ExportInv
<1>1. /\ Item(p) \in Mapped /\ pc[p] = "record"
      /\ MarkFailed(p) /\ Leave(p, "idle") /\ dlqItem' = dlqItem
      /\ Item(p) \in Dones => Redriven
  BY Names DEF Record, RecordFails, RecordsMapped, Item
<1>2. Redriven => Redriven'
  BY SpentGrows DEF Redriven
<1>3. RecordsMapped'
  BY <1>1, <1>2, Names DEF RecordsMapped, Leave, Item, Typed, TypeOK
<1>4. RedrivenDead'
  <2>1. CASE Record(p)
    BY <1>2, <2>1 DEF Record, msgVars, RedrivenDead
  <2>2. CASE RecordFails(p)
    BY <1>1, <1>2, <2>2, ReturnedDone DEF RecordFails, Return, RedrivenDead
  <2>. QED BY <2>1, <2>2
<1>5. CASE StageOf[Item(p)] = "export"
  <2>1. Redriven
    BY <1>1, <1>5, ExportsEvents DEF Mapped
  <2>2. \/ UNCHANGED <<stage, job>>
        \/ /\ job' = "failed"
           /\ \/ stage' = stage
              \/ stage' = [stage EXCEPT !["export"] = "failed"]
    BY <1>1, <1>5 DEF MarkFailed, Assign, Typed, TypeOK
  <2>3. "export" \in Stages
    BY DEF Stages, PipelineStageNames
  <2>. QED BY <1>2, <1>3, <1>4, <2>1, <2>2, <2>3
       DEF ExportWritten, StillWritten, Typed, TypeOK
<1>6. CASE StageOf[Item(p)] # "export"
  <2>1. stage'["export"] = stage["export"] /\ (job' = job \/ job' = "failed")
    <3>1. StageOf[Item(p)] \in Stages /\ "export" \in Stages
      BY <1>1, StagesOf DEF Mapped, Stages, PipelineStageNames
    <3>. QED BY <1>1, <1>6, <3>1 DEF MarkFailed, Typed, TypeOK
  <2>. QED BY <1>2, <1>3, <1>4, <2>1 DEF ExportWritten, StillWritten
<1>. QED BY <1>5, <1>6

(* A worker of a hop.                                                      *)
LEMMA ExportWorked ==
    ASSUME ExportInv, Typed', [Next]_vars, NEW h \in Hops, Work(h)
    PROVE  ExportInv' /\ StillWritten
<1>. USE DEF ExportInv
<1>0. h \in Procs /\ h # "dlq" /\ h \notin Dones /\ Item(h) = h
  BY Names DEF Item
<1>1. CASE Commit(h)
  BY <1>1, ExportCommitted
<1>2. CASE Record(h) \/ RecordFails(h)
  BY <1>0, <1>2, ExportRecorded
<1>3. CASE FailTerminally(h)
  <2>1. UNCHANGED <<stage, job, dlqItem>> /\ (Redriven => Redriven')
    BY <1>3, SpentGrows DEF FailTerminally, dbVars, Redriven
  <2>2. \A p \in Procs \ {h} : pc'[p] = pc[p]
    BY <1>3 DEF FailTerminally, Leave, Typed, TypeOK
  <2>3. pc'[h] = "record" => h \in Mapped
    BY <1>0, <1>3 DEF FailTerminally, Leave, Typed, TypeOK
  <2>4. RecordsMapped'
    BY <1>0, <2>1, <2>2, <2>3, Names DEF RecordsMapped, Item
  <2>5. RedrivenDead'
    <3>1. dead' = dead \/ ReturnInto(queue, h)
      BY <1>3 DEF FailTerminally, msgVars, Return
    <3>. QED BY <1>0, <2>1, <3>1, ReturnedDone DEF RedrivenDead
  <2>. QED BY <2>1, <2>4, <2>5 DEF ExportWritten, StillWritten
<1>4. CASE \/ Take(h) \/ Lock(h) \/ Publish(h) \/ Count(h) \/ PublishFails(h)
           \/ FailTransiently(h) \/ \E d \in Dones : Skip(d)
  <2>1. UNCHANGED <<stage, job, dlqItem>>
    BY <1>4 DEF Take, Lock, Publish, Count, PublishFails, FailTransiently, Skip, txVars, dbVars
  <2>2. \A p \in Procs : pc'[p] = "record" => pc[p] = "record"
    BY <1>0, <1>4 DEF Take, Lock, Publish, Count, PublishFails, FailTransiently, Skip, txVars,
                      Leave, Typed, TypeOK
  <2>5. pc'["dlq"] = pc["dlq"]
    BY <1>0, <1>4, Names
    DEF Take, Lock, Publish, Count, PublishFails, FailTransiently, Skip, txVars, Leave, Typed, TypeOK
  <2>3. dead' = dead \/ \E q : ReturnInto(q, h)
    BY <1>4 DEF Take, Lock, Publish, Count, PublishFails, FailTransiently, Return, Skip, msgVars
  <2>4. \A d \in Dones : dead'[d] > 0 => dead[d] > 0 \/ Redriven'
    BY <1>0, <2>3, ReturnedDone, SpentGrows DEF Redriven
  <2>. QED BY <2>1, <2>2, <2>4, <2>5, ExportKept
<1>. QED BY <1>1, <1>2, <1>3, <1>4 DEF Work

(* The DLQ worker takes a message.                                         *)
LEMMA ExportBlamed ==
    ASSUME ExportInv, Typed', NEW e \in Events, TakeDead(e)
    PROVE  ExportInv' /\ StillWritten
<1>. USE DEF ExportInv
<1>1. UNCHANGED <<stage, job, spent>> /\ e \in Mapped /\ dead[e] > 0
  BY DEF TakeDead, dbVars, faultVars
<1>2. \A p \in Procs \ {"dlq"} : pc'[p] = pc[p]
  BY DEF TakeDead, Typed, TypeOK
<1>3. pc'["dlq"] # "idle" => dlqItem' = e
  BY Names DEF TakeDead, Typed, TypeOK
<1>4. RecordsMapped'
  BY <1>1, <1>2, <1>3 DEF RecordsMapped, Item, RedrivenDead, Redriven
<1>5. \A d \in Dones : dead'[d] > 0 => dead[d] > 0
  BY <1>1, Names DEF TakeDead, Typed, TypeOK
<1>. QED BY <1>1, <1>4, <1>5 DEF RedrivenDead, ExportWritten, StillWritten, Redriven

(* Every step of the pipeline keeps it.                                    *)
LEMMA StepExport ==
    ASSUME ExportInv, [Next]_vars
    PROVE  ExportInv' /\ StillWritten
<1>0. Typed /\ Typed'
  BY StepTyped DEF ExportInv
<1>1. CASE WorkDlq
  <2>1. CASE Lock("dlq")
    <3>1. UNCHANGED <<stage, job, dlqItem, pc, dead>>
      BY <2>1 DEF Lock, dbVars, msgVars
    <3>. QED BY <1>0, <3>1, ExportKept
  <2>2. CASE Record("dlq") \/ RecordFails("dlq")
    BY <1>0, <2>2, Names, ExportRecorded
  <2>. QED BY <1>0, <1>1, <2>1, <2>2, ExportBlamed DEF WorkDlq
<1>2. ASSUME NEW e \in Events, Duplicate(e) \/ Redrive(e) PROVE ExportInv' /\ StillWritten
  <2>1. UNCHANGED <<stage, job, dlqItem, pc>>
    BY <1>2 DEF Duplicate, Redrive, txVars, dbVars
  <2>2. dead' = dead \/ Redriven'
    BY <1>2 DEF Duplicate, Redrive, Spend, Redriven
  <2>. QED BY <1>0, <2>1, <2>2, ExportKept
<1>3. ASSUME NEW p \in Procs, DeadlockAbort(p) \/ Crash(p) PROVE ExportInv' /\ StillWritten
  <2>1. UNCHANGED <<stage, job, dlqItem>>
    BY <1>3 DEF DeadlockAbort, Crash, dbVars
  <2>2. \A q \in Procs : pc'[q] = "record" => pc[q] = "record"
    BY <1>0, <1>3 DEF DeadlockAbort, Crash, Leave, Typed, TypeOK
  <2>3. \E q : ReturnInto(q, p)
    BY <1>3 DEF DeadlockAbort, Crash, Return
  <2>4. pc[p] # "idle" /\ (pc'["dlq"] # "idle" => pc["dlq"] # "idle")
    BY <1>0, <1>3, Names DEF DeadlockAbort, Crash, InTx, Leave, Typed, TypeOK
  <2>5. \A d \in Dones : dead'[d] > 0 => dead[d] > 0 \/ Redriven'
    BY <2>3, <2>4, ReturnedDone, SpentGrows DEF Redriven
  <2>. QED BY <1>0, <2>1, <2>2, <2>4, <2>5, ExportKept
<1>4. CASE UNCHANGED vars
  <2>1. UNCHANGED <<stage, job, dlqItem, pc, dead>>
    BY <1>4 DEF vars, txVars, dbVars, msgVars
  <2>. QED BY <1>0, <2>1, ExportKept
<1>. QED BY <1>0, <1>1, <1>2, <1>3, <1>4, ExportWorked DEF Next, Terminated

-----------------------------------------------------------------------------
(* What the stream has read of a completed job stays true while it reads   *)
(* on, and what it has ended with is what it read.                         *)
ReadSound == readJob = "completed" => stage["export"] # "pending"

ConsistentInv == ExportInv /\ ReadSound /\ EndConsistent

(* A terminal job is shown as the stages were read.                        *)
LEMMA TerminalView ==
    ASSUME readJob \in Terminal
    PROVE  View(readJob, stage) = [job |-> readJob, stages |-> stage]
BY DEF View

(* It holds initially.                                                     *)
LEMMA InitConsistent == StreamInit => ConsistentInv
BY InitExport DEF StreamInit, ConsistentInv, ReadSound, EndConsistent

(* Every step of the pipeline and of the stream keeps it.                  *)
LEMMA StepConsistent == ConsistentInv /\ [StreamNext]_allVars => ConsistentInv'
<1>. SUFFICES ASSUME ConsistentInv, [StreamNext]_allVars PROVE ConsistentInv'
  OBVIOUS
<1>1. ExportInv' /\ StillWritten /\ (Redriven => Redriven')
  BY StreamLooks, StepExport, SpentGrows DEF ConsistentInv, Redriven
<1>2. CASE (Next /\ UNCHANGED streamVars) \/ UNCHANGED allVars
  BY <1>1, <1>2
  DEF ConsistentInv, ReadSound, EndConsistent, StillWritten, Redriven, streamVars, allVars
<1>3. CASE Connect \/ Disconnect
  BY <1>1, <1>3
  DEF ConsistentInv, ReadSound, EndConsistent, StillWritten, Redriven, Connect, Disconnect
<1>4. CASE ReadJob
  BY <1>1, <1>4 DEF ConsistentInv, ExportInv, ExportWritten, ReadSound, EndConsistent,
                    ReadJob, vars, dbVars
<1>5. CASE ReadStages
  <2>1. ReadSound'
    BY <1>5 DEF ReadSound, ReadStages
  <2>2. readJob \in Terminal => View(readJob, stage) = [job |-> readJob, stages |-> stage]
    BY TerminalView
  <2>3. readJob = "completed" => \/ stage["export"] = "completed"
                                 \/ stage["export"] = "failed" /\ "redrive" \in spent
    BY DEF ConsistentInv, ReadSound, ExportInv, ExportWritten, Redriven
  <2>4. UNCHANGED vars /\ spent' = spent
    BY <1>5 DEF ReadStages, vars, faultVars
  <2>5. conn' = "ended" => readJob \in Terminal /\ shown' = [job |-> readJob, stages |-> stage]
    BY <1>5, <2>2 DEF ReadStages
  <2>6. EndConsistent'
    BY <2>3, <2>4, <2>5 DEF EndConsistent
  <2>. QED BY <1>1, <2>1, <2>6 DEF ConsistentInv
<1>. QED BY <1>2, <1>3, <1>4, <1>5 DEF StreamNext, Stream

(* The last event of a stream does not contradict itself, whatever was     *)
(* committed between its two reads and whatever faults the job met.        *)
THEOREM EndIsConsistent == StreamSpec => []EndConsistent
<1>1. ConsistentInv => EndConsistent
  BY DEF ConsistentInv
<1>. QED BY <1>1, InitConsistent, StepConsistent, PTL DEF StreamSpec

-----------------------------------------------------------------------------
(* Of an undisturbed job, a terminal status that was read is the job's for *)
(* good, and the stages read after it are too.                             *)
ReadFinal ==
    Undisturbed =>
        /\ readJob \in Terminal => readJob = job
        /\ conn = "ended" => shown = [job |-> job, stages |-> stage] /\ job \in Terminal

(* It holds initially.                                                     *)
LEMMA InitFinal == StreamInit => ReadFinal
BY DEF StreamInit, ReadFinal, Terminal

(* Every step of the pipeline and of the stream keeps it.                  *)
LEMMA StepFinal == SingleInv /\ ReadFinal /\ [StreamNext]_allVars => ReadFinal'
<1>. SUFFICES ASSUME SingleInv, ReadFinal, [StreamNext]_allVars, Undisturbed'
              PROVE  /\ readJob' \in Terminal => readJob' = job'
                     /\ conn' = "ended" => /\ shown' = [job |-> job', stages |-> stage']
                                           /\ job' \in Terminal
  BY DEF ReadFinal
<1>1. [Next]_vars
  BY StreamLooks
<1>2. Undisturbed
  BY <1>1, SpentGrows DEF Undisturbed
<1>3. job \in Terminal => UNCHANGED <<job, stage>>
  BY <1>1, TerminalFrozen
<1>4. CASE (Next /\ UNCHANGED streamVars) \/ UNCHANGED allVars
  BY <1>2, <1>3, <1>4 DEF ReadFinal, streamVars, allVars
<1>5. CASE Connect \/ Disconnect
  BY <1>2, <1>3, <1>5 DEF ReadFinal, Connect, Disconnect, Terminal
<1>6. CASE ReadJob
  BY <1>2, <1>3, <1>6 DEF ReadFinal, ReadJob, vars, dbVars
<1>7. CASE ReadStages
  BY <1>2, <1>3, <1>7, TerminalView DEF ReadFinal, ReadStages, Terminal
<1>. QED BY <1>4, <1>5, <1>6, <1>7 DEF StreamNext, Stream

(* The stream of an undisturbed job ends with what is stored.              *)
THEOREM EndIsFinal == StreamSpec => []EndFinal
<1>1. StreamSpec => []SingleInv
  BY PipelineUndisturbed, SingleHolds, PTL
<1>2. StreamSpec => []ReadFinal
  BY <1>1, InitFinal, StepFinal, PTL DEF StreamSpec
<1>3. ReadFinal => EndFinal
  BY DEF ReadFinal, EndFinal
<1>. QED BY <1>2, <1>3, PTL
=============================================================================
