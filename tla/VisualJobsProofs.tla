------------------------- MODULE VisualJobsProofs --------------------------
(***************************************************************************)
(* Proofs about VisualJobs for any number of jobs, callers, worker         *)
(* processes and limits.                                                   *)
(*                                                                         *)
(* An attempt is fresh until its call is sent.  Once something proves that *)
(* the worker has let go of it - an answer to its cancellation, its        *)
(* artifact, its never having been sent - it is gone: it does not compute  *)
(* and whatever is still under way cannot make it.  Being gone is stable,  *)
(* and a job is settled only on such a proof.                              *)
(***************************************************************************)
EXTENDS VisualJobs, TLAPS

\* Nothing about this attempt has left the coordinator.
Fresh(j) ==
  /\ j \notin sent
  /\ record[j] = NoRecord
  /\ j \notin acks
  /\ ~wire[j].artifact
  /\ \A m \in cancels : m.job # j
  /\ \A w \in late : w.job # j

\* The worker does not compute this attempt, and never will.
Gone(j) ==
  /\ record[j].task # "running"
  /\ record[j].handler = "admitting" => record[j].revoked
  /\ j \in sent => record[j].known

\* What a state of a job says about its two generations.
Shaped(job) ==
  /\ job.state \in {"none", "queued"} => job.gen = 0 /\ job.att = 0
  /\ job.state = "running" => job.gen = 1 /\ job.att = 1
  /\ job.state = "cancel_requested" => job.gen = 2 /\ job.att = 1

ShapeInv == \A j \in Jobs : Shaped(jobs[j])

Fenced(j) == jobs[j].state = "cancel_requested" \/ Terminal(j)

\* Where the execution is, and what its job may be.
ExecInv ==
  /\ phase = "down" => exec.pc = "none" /\ loop = "done"
  /\ exec.pc # "none" =>
       /\ loop = "executing"
       /\ exec.job \in Jobs
       /\ jobs[exec.job].state \notin {"none", "queued"}
  /\ exec.pc = "resolving" => exec.drained
  /\ exec.pc \in {"claimed", "reading", "read"} =>
       jobs[exec.job].state \in {"running", "cancel_requested"}
  /\ exec.pc \in {"resolving", "barrier", "settling"} => Fenced(exec.job)
  /\ exec.pc = "over" /\ exec.drained => Terminal(exec.job)

\* The call of the execution has not been sent.
Unsent == exec.pc \in {"claimed", "reading", "read", "abandon"}

\* Attempts that were not sent.
FreshInv ==
  \A j \in Jobs :
    jobs[j].state \in {"none", "queued"} \/ (Unsent /\ exec.job = j) => Fresh(j)

\* What counts as a proof that the worker has let go of an attempt: an answer
\* to its cancellation, its artifact, a write that is on its way, an execution
\* that knows, and a settled job.
Evidence(j) ==
  \/ Terminal(j)
  \/ j \in acks
  \/ wire[j].artifact
  \/ \E w \in late : w.job = j
  \/ exec.job = j /\ exec.pc = "completing"
  \/ exec.job = j /\ exec.pc \in {"resolving", "settling"} /\ exec.drained

GoneInv == \A j \in Jobs : Evidence(j) => Gone(j)

\* The handlers of the worker.
HandlerInv ==
  /\ \A j \in Jobs : record[j].handler # "none" \/ record[j].revoked =>
       record[j].known
  /\ \A j \in Jobs : record[j].task = "running" =>
       record[j].handler \in {"computing", "leaving"}
  /\ \A i, j \in Jobs :
       record[i].handler # "none" /\ record[j].handler # "none" => i = j

IInv == TypeOK /\ ShapeInv /\ ExecInv /\ FreshInv /\ GoneInv /\ HandlerInv

-----------------------------------------------------------------------------
(* The three writes *)

\* request_cancel leaves nothing queued or running, and what is settled alone.
LEMMA FenceJob ==
  ASSUME NEW job \in Job, Shaped(job)
  PROVE  /\ FencedBy(job) \in Job
         /\ Shaped(FencedBy(job))
         /\ job.state \in {"queued"} => FencedBy(job).state = "cancelled"
         /\ job.state = "running" => FencedBy(job).state = "cancel_requested"
         /\ job.state \notin {"queued", "running"} => FencedBy(job) = job
BY DEF Job, Shaped, FencedBy, States, PendingStates, TerminalStates

\* complete settles what is running and nothing else.
LEMMA CompleteJob ==
  ASSUME NEW job \in Job, Shaped(job)
  PROVE  /\ CompletedBy(job) \in Job
         /\ Shaped(CompletedBy(job))
         /\ Completable(job) <=> job.state = "running"
         /\ job.state = "running" => CompletedBy(job).state = "succeeded"
         /\ job.state # "running" => CompletedBy(job) = job
BY DEF Job, Shaped, CompletedBy, Completable, States, PendingStates,
       TerminalStates

\* finish_cancel settles what was fenced, on a proof of the drain only.
LEMMA FinishJob ==
  ASSUME NEW job \in Job, Shaped(job), NEW drained \in BOOLEAN,
         NEW outcome \in {"cancelled", "failed"}
  PROVE  LET new == FinishedBy(job, drained, outcome) IN
         /\ new \in Job
         /\ Shaped(new)
         /\ job.state = "cancel_requested" /\ drained => new.state = outcome
         /\ ~drained => new = job
         /\ job.state # "cancel_requested" => new = job
BY DEF Job, Shaped, FinishedBy, Cancellable, States, PendingStates,
       TerminalStates

-----------------------------------------------------------------------------
(* Types and shapes *)

\* The steps of the dispatch loop and of the task it awaits keep all types.
LEMMA TypeDispatch ==
  ASSUME TypeOK, ShapeInv, ExecInv, DispatchStep
  PROVE  TypeOK' /\ ShapeInv'
<1> USE DEF store, coordinator, worker, network
<1>0. exec.pc # "none" => exec.job \in Jobs /\ jobs[exec.job] \in Job
                          /\ Shaped(jobs[exec.job])
  BY DEF ExecInv, TypeOK, ShapeInv
<1>1. CASE Turn \/ ClaimNothing
  BY <1>1 DEF TypeOK, ShapeInv, Turn, ClaimNothing
<1>2. CASE ClaimNext
  <2>1. PICK j \in Jobs :
          /\ jobs[j].state = "queued"
          /\ jobs' = [jobs EXCEPT ![j] =
               [state |-> "running", gen |-> @.gen + 1, att |-> @.gen + 1]]
          /\ exec' = [NoExec EXCEPT !.pc = "claimed", !.job = j]
    BY <1>2 DEF ClaimNext
  <2>2. jobs[j].gen = 0
    BY <2>1 DEF ShapeInv, Shaped
  <2>3. [state |-> "running", gen |-> jobs[j].gen + 1,
         att |-> jobs[j].gen + 1] = [state |-> "running", gen |-> 1, att |-> 1]
    BY <2>2
  <2>4. /\ [state |-> "running", gen |-> 1, att |-> 1] \in Job
        /\ Shaped([state |-> "running", gen |-> 1, att |-> 1])
    BY DEF Job, Shaped, States, PendingStates
  <2>5. exec' \in Execution
    <3>1. exec' = [pc |-> "claimed", job |-> j, seen |-> "none", worker |-> 0,
                   started |-> FALSE, drained |-> FALSE,
                   outcome |-> "cancelled"]
      BY <2>1 DEF NoExec
    <3> QED
      BY <3>1, VisualAssumption DEF Execution, ExecPc, States
  <2> QED
    BY <1>2, <2>1, <2>3, <2>4, <2>5 DEF ClaimNext, TypeOK, ShapeInv
<1>3. CASE \/ Dispatch \/ ReadState \/ Decide \/ ReceiveAdmitted
           \/ ReceiveArtifact \/ BarrierFails \/ StreamFails \/ ReceiveAck
           \/ WriteFails \/ Gather
  <2>1. exec' \in Execution
    <3> USE VisualAssumption DEF TypeOK, Execution, ExecPc, TryPc, CleanupPc
    <3>1. CASE Dispatch \/ ReceiveArtifact \/ BarrierFails
      BY ZenonT(30), <3>1 DEF Dispatch, ReceiveArtifact, BarrierFails, ExecAt
    <3>2. CASE ReadState
      BY <1>0, <3>2 DEF ReadState, Job
    <3>3. CASE Decide
      <4>1. \/ exec' = [exec EXCEPT !.pc = "abandon"]
            \/ exec' = [exec EXCEPT !.pc = "streaming", !.started = TRUE]
        BY <3>3 DEF Decide, ExecAt
      <4> QED
        BY <4>1
    <3>4. CASE ReceiveAdmitted
      BY <1>0, <3>4 DEF ReceiveAdmitted, Frames
    <3>5. CASE StreamFails \/ ReceiveAck
      BY ZenonT(30), <3>5 DEF StreamFails, ReceiveAck
    <3>6. CASE WriteFails
      <4>1. \/ exec' = [exec EXCEPT !.pc = "fencing", !.outcome = "failed"]
            \/ exec' = [exec EXCEPT !.pc = "over", !.drained = FALSE]
        BY <3>6 DEF WriteFails
      <4> QED
        BY <4>1
    <3>7. CASE Gather
      BY <3>7 DEF Gather, NoExec, States
    <3> QED
      BY <1>3, <3>1, <3>2, <3>3, <3>4, <3>5, <3>6, <3>7
  <2> QED
    BY <1>0, <1>3, <2>1
       DEF TypeOK, ShapeInv, Dispatch, ReadState, Decide, ReceiveAdmitted,
           ReceiveArtifact, BarrierFails, StreamFails, ReceiveAck, WriteFails,
           Gather
<1>4. CASE Abandon \/ Complete \/ Fence \/ Settle
  <2>1. exec.job \in Jobs /\ jobs[exec.job] \in Job /\ Shaped(jobs[exec.job])
    BY <1>0, <1>4 DEF Abandon, Complete, Fence, Settle
  <2>2. exec' \in Execution
    <3> USE DEF TypeOK, Execution, ExecPc, TryPc, CleanupPc
    <3>1. CASE Abandon
      BY <3>1 DEF Abandon
    <3>2. CASE Complete
      BY <3>2 DEF Complete
    <3>3. CASE Fence
      BY <3>3 DEF Fence
    <3>4. CASE Settle
      BY <3>4 DEF Settle, ExecAt
    <3> QED
      BY <1>4, <3>1, <3>2, <3>3, <3>4
  <2>3. PICK new \in Job : Shaped(new) /\ jobs' = [jobs EXCEPT ![exec.job] = new]
    <3>1. exec.drained \in BOOLEAN /\ exec.outcome \in {"cancelled", "failed"}
      BY DEF TypeOK, Execution
    <3> QED
      BY <1>4, <2>1, <3>1, FenceJob, CompleteJob, FinishJob
         DEF Abandon, Complete, Fence, Settle
  <2>4. cancels' \subseteq [job : Jobs, worker : 1 .. MaxInstances]
    BY <1>4, <2>1, VisualAssumption
       DEF TypeOK, Execution, Abandon, Complete, Fence, Settle
  <2> QED
    BY <1>4, <2>1, <2>2, <2>3, <2>4
       DEF TypeOK, ShapeInv, Abandon, Complete, Fence, Settle
<1> QED
  BY <1>1, <1>2, <1>3, <1>4 DEF DispatchStep

\* The steps of a handler of the worker keep all types.
LEMMA TypeWorker ==
  ASSUME TypeOK, NEW j \in Jobs, WorkerStep(j)
  PROVE  TypeOK' /\ UNCHANGED jobs
<1> USE DEF HandlerAt, store, coordinator, worker, network
<1>1. record[j] \in Record
  BY DEF TypeOK
<1>2. record' \in [Jobs -> Record]
  <2>0. NewRecord \in Record
    BY DEF NewRecord, Record
  <2>1. CASE Deliver(j)
    BY <2>0, <2>1 DEF TypeOK, Deliver
  <2> USE DEF TypeOK, Record
  <2>2. CASE Admit(j) \/ Ack(j)
    BY <2>2 DEF Admit, Ack
  <2>3. CASE StartTask(j)
    BY <2>3 DEF StartTask
  <2>4. CASE TaskEnds(j)
    BY <2>4 DEF TaskEnds
  <2>5. CASE Write(j)
    BY <2>5 DEF Write
  <2>6. CASE HandlerStops(j)
    BY <2>6 DEF HandlerStops
  <2>7. CASE HandlerEnds(j)
    BY <2>7 DEF HandlerEnds
  <2> QED
    BY <2>1, <2>2, <2>3, <2>4, <2>5, <2>6, <2>7 DEF WorkerStep
<1>3. wire' \in [Jobs -> Frames]
  BY VisualAssumption
     DEF TypeOK, Frames, WorkerStep, Deliver, Admit, StartTask, TaskEnds, Write,
         HandlerStops, HandlerEnds, Ack
<1> QED
  BY <1>2, <1>3
     DEF TypeOK, WorkerStep, Deliver, Admit, StartTask, TaskEnds, Write,
         HandlerStops, HandlerEnds, Ack

\* Task.cancel() keeps the types of the execution and of the late writes.
LEMMA TypeInterrupt ==
  ASSUME TypeOK, ExecInv, Interrupt
  PROVE  /\ exec' \in Execution
         /\ late' \subseteq [op : {"complete", "finish"}, job : Jobs]
<1>1. CASE exec.started /\ exec.pc \in TryPc
  <2>1. exec.job \in Jobs
    BY <1>1 DEF ExecInv, TryPc
  <2>2. exec' \in Execution
    BY <1>1 DEF TypeOK, Interrupt, Execution, ExecPc, CleanupPc
  <2> QED
    BY <1>1, <2>1, <2>2 DEF TypeOK, Interrupt
<1> QED
  BY <1>1 DEF Interrupt, TypeOK

\* Every step keeps every type and every shape.
LEMMA TypeStep ==
  ASSUME TypeOK, ShapeInv, ExecInv, [Next]_vars
  PROVE  TypeOK' /\ ShapeInv'
<1> USE DEF store, coordinator, worker, network
<1>1. ASSUME NEW j \in Jobs, Submit(j)
      PROVE  TypeOK' /\ ShapeInv'
  <2>1. /\ [jobs[j] EXCEPT !.state = "queued"] \in Job
        /\ Shaped([jobs[j] EXCEPT !.state = "queued"])
    BY <1>1 DEF TypeOK, ShapeInv, Submit, Job, Shaped, States, PendingStates
  <2> QED
    BY <1>1, <2>1 DEF TypeOK, ShapeInv, Submit
<1>2. CASE DispatchStep
  BY <1>2, TypeDispatch
<1>3. CASE LateWrite
  <2>1. PICK w \in late :
          jobs' = [jobs EXCEPT ![w.job] =
            IF w.op = "complete" THEN CompletedBy(@)
                                 ELSE FinishedBy(@, TRUE, "cancelled")]
    BY <1>3 DEF LateWrite
  <2>2. w.job \in Jobs /\ jobs[w.job] \in Job /\ Shaped(jobs[w.job])
    BY DEF TypeOK, ShapeInv
  <2>3. PICK new \in Job : Shaped(new) /\ jobs' = [jobs EXCEPT ![w.job] = new]
    BY <2>1, <2>2, CompleteJob, FinishJob
  <2> QED
    BY <1>3, <2>2, <2>3 DEF TypeOK, ShapeInv, LateWrite
<1>4. ASSUME NEW c \in Callers, NEW j \in Jobs, CancelFence(c, j)
      PROVE  TypeOK' /\ ShapeInv'
  <2>1. FencedBy(jobs[j]) \in Job /\ Shaped(FencedBy(jobs[j]))
    BY FenceJob DEF TypeOK, ShapeInv
  <2>2. [pc |-> "fenced", job |-> j, state |-> FencedBy(jobs[j]).state] \in Call
    BY <2>1 DEF Job, Call
  <2> QED
    BY <1>4, <2>1, <2>2 DEF TypeOK, ShapeInv, CancelFence
<1>5. ASSUME NEW c \in Callers, CancelStep(c)
      PROVE  TypeOK' /\ ShapeInv'
  <2>1. caller' \in [Callers -> Call]
    BY <1>5 DEF TypeOK, CancelStep, CancelResume, CancelReturn, IdleCaller,
                Call, States
  <2> QED
    BY <1>5, <2>1, TypeInterrupt
       DEF TypeOK, ShapeInv, CancelStep, CancelResume, CancelReturn
<1>6. CASE Close
  BY <1>6, TypeInterrupt DEF TypeOK, ShapeInv, Close
<1>7. CASE Closed \/ Crash \/ Start
  <2>1. NoExec \in Execution /\ IdleCaller \in Call
    BY VisualAssumption
       DEF NoExec, IdleCaller, Execution, Call, ExecPc, States
  <2> QED
    BY <1>7, <2>1 DEF TypeOK, ShapeInv, Closed, Crash, Start
<1>8. ASSUME NEW j \in Jobs, WorkerStep(j)
      PROVE  TypeOK' /\ ShapeInv'
  BY <1>8, TypeWorker DEF ShapeInv
<1>9. CASE Revoke
  <2>1. PICK m \in cancels :
          IF Revocable(m)
          THEN record' = [record EXCEPT ![m.job].known = TRUE,
                                        ![m.job].revoked = TRUE]
          ELSE UNCHANGED record
    BY <1>9 DEF Revoke
  <2>2. record' \in [Jobs -> Record]
    <3>1. m.job \in Jobs /\ record[m.job] \in Record
      BY DEF TypeOK
    <3>2. CASE Revocable(m)
      <4>1. PICK new \in Record : record' = [record EXCEPT ![m.job] = new]
        BY <2>1, <3>1, <3>2 DEF TypeOK, Record
      <4> QED
        BY <3>1, <4>1 DEF TypeOK
    <3> QED
      BY <2>1, <3>2 DEF TypeOK
  <2> QED
    BY <1>9, <2>2 DEF TypeOK, ShapeInv, Revoke
<1>10. CASE Replace
  <2>1. NoRecord \in Record
    BY DEF NoRecord, Record
  <2> QED
    BY <1>10, <2>1, VisualAssumption DEF TypeOK, ShapeInv, Replace
<1>11. CASE UNCHANGED vars
  BY <1>11 DEF TypeOK, ShapeInv, vars
<1> QED
  BY <1>1, <1>2, <1>3, <1>4, <1>5, <1>6, <1>7, <1>8, <1>9, <1>10, <1>11
     DEF Next

-----------------------------------------------------------------------------
(* The execution *)

\* What others may do to the job of an execution: fence it, or settle it when
\* its attempt has left a write behind.
LEMMA ExecOutside ==
  ASSUME TypeOK, ExecInv, exec' = exec, loop' = loop,
         phase' = "down" => phase = "down",
         NEW k \in Jobs, NEW new \in Job,
         jobs' = [jobs EXCEPT ![k] = new],
         jobs[k].state \notin {"none", "queued"} =>
           new.state \notin {"none", "queued"},
         Fenced(k) => new.state = "cancel_requested" \/ new.state \in TerminalStates,
         Terminal(k) => new.state \in TerminalStates,
         k = exec.job /\ exec.pc \in {"claimed", "reading", "read"} =>
           new.state \in {"running", "cancel_requested"}
  PROVE  ExecInv'
<1>1. \A j \in Jobs : jobs'[j] = IF j = k THEN new ELSE jobs[j]
  BY DEF TypeOK
<1> QED
  BY <1>1 DEF ExecInv, Fenced, Terminal

\* The dispatch loop and its task.
LEMMA ExecDispatch ==
  ASSUME TypeOK, ShapeInv, ExecInv, DispatchStep
  PROVE  ExecInv'
<1> USE DEF store, coordinator, worker, network, ExecInv
<1>0. exec.pc # "none" => exec.job \in Jobs /\ jobs[exec.job] \in Job
                          /\ Shaped(jobs[exec.job])
  BY DEF TypeOK, ShapeInv
<1>1. CASE Turn \/ ClaimNothing
  BY <1>1 DEF Turn, ClaimNothing
<1>2. CASE ClaimNext
  <2>1. PICK j \in Jobs :
          /\ jobs' = [jobs EXCEPT ![j] =
               [state |-> "running", gen |-> @.gen + 1, att |-> @.gen + 1]]
          /\ exec' = [NoExec EXCEPT !.pc = "claimed", !.job = j]
    BY <1>2 DEF ClaimNext
  <2>2. jobs'[j].state = "running"
    BY <2>1 DEF TypeOK
  <2>3. exec'.pc = "claimed" /\ exec'.job = j
    BY <2>1 DEF NoExec
  <2>4. phase' # "down"
    BY <1>2 DEF ClaimNext
  <2> QED
    BY <1>2, <2>2, <2>3, <2>4 DEF ClaimNext
<1>3. CASE Dispatch \/ ReadState \/ ReceiveAdmitted \/ ReceiveArtifact
  BY <1>3 DEF Dispatch, ReadState, ReceiveAdmitted, ReceiveArtifact, ExecAt,
              TypeOK, Execution, Fenced, Terminal
<1>4. CASE Decide \/ StreamFails
  BY <1>4 DEF Decide, StreamFails, ExecAt, TypeOK, Execution, Fenced, Terminal
<1>5. CASE BarrierFails \/ ReceiveAck \/ WriteFails
  BY <1>5 DEF BarrierFails, ReceiveAck, WriteFails, ExecAt, TypeOK, Execution,
              Fenced, Terminal
<1>6. CASE Gather
  BY <1>6 DEF Gather, NoExec
<1>7. CASE Abandon \/ Fence
  <2>1. exec.job \in Jobs /\ jobs[exec.job] \in Job /\ Shaped(jobs[exec.job])
        /\ jobs[exec.job].state \notin {"none", "queued"}
    BY <1>0, <1>7 DEF Abandon, Fence
  <2>2. jobs'[exec.job] = FencedBy(jobs[exec.job])
    BY <1>7, <2>1 DEF Abandon, Fence, TypeOK
  <2>3. jobs'[exec.job].state \in {"cancel_requested"} \cup TerminalStates
    BY <2>1, <2>2, FenceJob DEF Job, States, PendingStates
  <2>4. /\ exec'.job = exec.job /\ loop' = loop /\ phase' = phase
        /\ exec'.pc \in {"resolving", "settling", "barrier"}
        /\ exec'.pc = "resolving" => exec'.drained
    BY <1>7 DEF Abandon, Fence, TypeOK, Execution
  <2>5. phase # "down" /\ loop = "executing"
    BY <1>7 DEF Abandon, Fence
  <2> QED
    BY <2>1, <2>3, <2>4, <2>5 DEF Fenced, Terminal, TerminalStates
<1>8. CASE Complete \/ Settle
  <2>1. exec.job \in Jobs /\ jobs[exec.job] \in Job /\ Shaped(jobs[exec.job])
        /\ jobs[exec.job].state \notin {"none", "queued"}
        /\ phase # "down" /\ loop = "executing"
    BY <1>0, <1>8 DEF Complete, Settle
  <2>2. exec.drained \in BOOLEAN /\ exec.outcome \in {"cancelled", "failed"}
    BY DEF TypeOK, Execution
  <2>3. CASE Complete
    <3>1. jobs'[exec.job] = CompletedBy(jobs[exec.job])
      BY <2>1, <2>3 DEF Complete, TypeOK
    <3>2. /\ exec'.job = exec.job /\ loop' = loop /\ phase' = phase
          /\ exec'.drained
          /\ exec'.pc = IF jobs[exec.job].state = "running"
                        THEN "over" ELSE "resolving"
      BY <2>1, <2>3, CompleteJob DEF Complete, TypeOK, Execution
    <3>3. IF jobs[exec.job].state = "running"
          THEN jobs'[exec.job].state = "succeeded"
          ELSE jobs'[exec.job].state \in {"cancel_requested"} \cup TerminalStates
      BY <2>1, <3>1, CompleteJob DEF Job, States, PendingStates
    <3> QED
      BY <2>1, <3>2, <3>3 DEF Fenced, Terminal, TerminalStates
  <2>4. CASE Settle
    <3>1. jobs'[exec.job] = FinishedBy(jobs[exec.job], exec.drained, exec.outcome)
      BY <2>1, <2>4 DEF Settle, TypeOK
    <3>2. /\ exec'.job = exec.job /\ loop' = loop /\ phase' = phase
          /\ exec'.drained = exec.drained /\ exec'.pc = "over"
      BY <2>4 DEF Settle, ExecAt, TypeOK, Execution
    <3>3. Fenced(exec.job)
      BY <2>4 DEF Settle
    <3>4. /\ jobs'[exec.job].state \notin {"none", "queued"}
          /\ exec.drained => jobs'[exec.job].state \in TerminalStates
      BY <2>1, <2>2, <3>1, <3>3, FinishJob DEF Fenced, Terminal, TerminalStates
    <3> QED
      BY <2>1, <3>2, <3>4 DEF Terminal
  <2> QED
    BY <1>8, <2>3, <2>4
<1> QED
  BY <1>1, <1>2, <1>3, <1>4, <1>5, <1>6, <1>7, <1>8 DEF DispatchStep

\* Task.cancel() moves an execution to its cleanup and keeps its job.
LEMMA ExecInterrupt ==
  ASSUME TypeOK, ExecInv, Interrupt, UNCHANGED <<jobs, loop>>,
         phase' = "down" => phase = "down"
  PROVE  ExecInv'
BY DEF TypeOK, Execution, ExecInv, Interrupt, TryPc, Fenced, Terminal

\* Every step keeps the coherence of loop, execution and job.
LEMMA ExecStep ==
  ASSUME TypeOK, ShapeInv, ExecInv, FreshInv, [Next]_vars
  PROVE  ExecInv'
<1> USE DEF store, coordinator, worker, network
<1>1. ASSUME NEW j \in Jobs, Submit(j)
      PROVE  ExecInv'
  <2>1. \A k \in Jobs : k # j => jobs'[k] = jobs[k]
    BY <1>1 DEF Submit, TypeOK
  <2>2. exec.pc # "none" => exec.job # j
    BY <1>1 DEF Submit, ExecInv
  <2> QED
    BY <1>1, <2>1, <2>2 DEF Submit, ExecInv, Fenced, Terminal
<1>2. CASE DispatchStep
  BY <1>2, ExecDispatch
<1>3. CASE LateWrite
  <2>1. PICK w \in late :
          jobs' = [jobs EXCEPT ![w.job] =
            IF w.op = "complete" THEN CompletedBy(@)
                                 ELSE FinishedBy(@, TRUE, "cancelled")]
    BY <1>3 DEF LateWrite
  <2>2. w.job \in Jobs /\ jobs[w.job] \in Job /\ Shaped(jobs[w.job])
    BY DEF TypeOK, ShapeInv
  <2>3. exec.pc \in {"claimed", "reading", "read"} => w.job # exec.job
    BY <2>2 DEF FreshInv, Fresh, Unsent
  <2>4. PICK new \in Job :
          /\ jobs' = [jobs EXCEPT ![w.job] = new]
          /\ new = jobs[w.job] \/ new.state \in TerminalStates
    <3>1. TRUE \in BOOLEAN /\ "cancelled" \in {"cancelled", "failed"}
      OBVIOUS
    <3>2. LET new == CompletedBy(jobs[w.job])
          IN  new \in Job /\ (new = jobs[w.job] \/ new.state \in TerminalStates)
      BY <2>2, CompleteJob DEF TerminalStates
    <3>3. LET new == FinishedBy(jobs[w.job], TRUE, "cancelled")
          IN  new \in Job /\ (new = jobs[w.job] \/ new.state \in TerminalStates)
      BY <2>2, <3>1, FinishJob DEF TerminalStates
    <3>4. CASE w.op = "complete"
      <4>1. jobs' = [jobs EXCEPT ![w.job] = CompletedBy(jobs[w.job])]
        BY <2>1, <3>4
      <4> QED
        BY <3>2, <4>1
    <3>5. CASE w.op # "complete"
      <4>1. jobs' = [jobs EXCEPT ![w.job] =
                       FinishedBy(jobs[w.job], TRUE, "cancelled")]
        BY <2>1, <3>5
      <4> QED
        BY <3>3, <4>1
    <3> QED
      BY <3>4, <3>5
  <2> QED
    BY <1>3, <2>2, <2>3, <2>4, ExecOutside
       DEF LateWrite, Fenced, Terminal, TerminalStates
<1>4. ASSUME NEW c \in Callers, NEW j \in Jobs, CancelFence(c, j)
      PROVE  ExecInv'
  <2>1. jobs[j] \in Job /\ Shaped(jobs[j])
    BY DEF TypeOK, ShapeInv
  <2> DEFINE new == FencedBy(jobs[j])
  <2>2. /\ new \in Job
        /\ jobs[j].state = "queued" => new.state = "cancelled"
        /\ jobs[j].state = "running" => new.state = "cancel_requested"
        /\ jobs[j].state \notin {"queued", "running"} => new = jobs[j]
    BY <2>1, FenceJob
  <2>3. jobs' = [jobs EXCEPT ![j] = new]
    BY <1>4 DEF CancelFence
  <2>4. exec.pc # "none" => jobs[exec.job].state \notin {"none", "queued"}
    BY DEF ExecInv
  <2>5. exec.pc \in {"claimed", "reading", "read"} =>
          jobs[exec.job].state \in {"running", "cancel_requested"}
    BY DEF ExecInv
  <2> HIDE DEF new
  <2> QED
    BY <1>4, <2>2, <2>3, <2>4, <2>5, ExecOutside
       DEF CancelFence, Fenced, Terminal, TerminalStates
<1>5. ASSUME NEW c \in Callers, CancelStep(c)
      PROVE  ExecInv'
  <2>1. CASE Interrupt
    BY <1>5, <2>1, ExecInterrupt DEF CancelStep, CancelResume, CancelReturn
  <2>2. CASE UNCHANGED exec
    BY <1>5, <2>2
       DEF CancelStep, CancelResume, CancelReturn, ExecInv, Fenced, Terminal
  <2> QED
    BY <1>5, <2>1, <2>2 DEF CancelStep, CancelResume, CancelReturn
<1>6. CASE Close
  <2>1. CASE Interrupt
    BY <1>6, <2>1, ExecInterrupt DEF Close
  <2>2. CASE UNCHANGED exec
    BY <1>6, <2>2 DEF Close, ExecInv, Fenced, Terminal
  <2> QED
    BY <1>6, <2>1, <2>2 DEF Close
<1>7. CASE Closed \/ Crash \/ Start
  BY <1>7 DEF Closed, Crash, Start, ExecInv, NoExec, Fenced, Terminal
<1>8. ASSUME NEW j \in Jobs, WorkerStep(j)
      PROVE  ExecInv'
  BY <1>8 DEF WorkerStep, Deliver, Admit, StartTask, TaskEnds, Write, HandlerAt,
              HandlerStops, HandlerEnds, Ack, ExecInv, Fenced, Terminal
<1>9. CASE Revoke \/ Replace
  BY <1>9 DEF Revoke, Replace, ExecInv, Fenced, Terminal
<1>10. CASE UNCHANGED vars
  BY <1>10 DEF vars, ExecInv, Fenced, Terminal
<1> QED
  BY <1>1, <1>2, <1>3, <1>4, <1>5, <1>6, <1>7, <1>8, <1>9, <1>10 DEF Next

-----------------------------------------------------------------------------
(* The worker *)

\* What a step of the coordinator leaves alone at the worker.
CoordinatorStep ==
  \/ \E j \in Jobs : Submit(j)
  \/ DispatchStep
  \/ LateWrite
  \/ \E c \in Callers : CancelStep(c) \/ \E j \in Jobs : CancelFence(c, j)
  \/ Close
  \/ Closed
  \/ Crash
  \/ Start

\* The coordinator computes nothing and acknowledges nothing.
LEMMA WorkerAlone ==
  ASSUME CoordinatorStep
  PROVE  UNCHANGED <<record, instance, wire, acks>>
BY DEF CoordinatorStep, Submit, DispatchStep, Turn, ClaimNext, ClaimNothing,
       Dispatch, ReadState, Decide, Abandon, ReceiveAdmitted, ReceiveArtifact,
       StreamFails, Complete, Fence, ReceiveAck, BarrierFails, Settle,
       WriteFails, Gather, LateWrite, CancelStep, CancelResume, CancelReturn,
       CancelFence, Close, Closed, Crash, Start, worker, network

\* One handler at a time, which outlives its native thread.
LEMMA HandlerStep ==
  ASSUME TypeOK, HandlerInv, [Next]_vars
  PROVE  HandlerInv'
<1> USE DEF store, coordinator, worker, network, HandlerAt
<1>1. CASE CoordinatorStep
  BY <1>1, WorkerAlone DEF HandlerInv
<1>2. ASSUME NEW j \in Jobs, WorkerStep(j)
      PROVE  HandlerInv'
  <2> USE DEF HandlerInv, TypeOK, Record
  <2>1. CASE Deliver(j)
    <3>1. CASE UNCHANGED record
      BY <3>1
    <3>2. CASE Acceptable(j) /\ record' = [record EXCEPT ![j] = NewRecord]
      <4>1. \A i \in Jobs : record[i].handler = "none"
        BY <3>2 DEF Acceptable, Active
      <4>2. record'[j] = NewRecord /\ \A i \in Jobs : i # j => record'[i] = record[i]
        BY <3>2
      <4>3. /\ NewRecord.known
            /\ NewRecord.task = "none"
        BY DEF NewRecord
      <4> QED
        BY <4>1, <4>2, <4>3
    <3> QED
      BY <2>1, <3>1, <3>2 DEF Deliver
  <2>2. CASE StartTask(j)
    BY <2>2 DEF StartTask
  <2>3. CASE TaskEnds(j)
    BY <2>3 DEF TaskEnds
  <2>4. CASE Write(j)
    BY <2>4 DEF Write
  <2>5. CASE HandlerStops(j)
    BY <2>5 DEF HandlerStops
  <2>6. CASE HandlerEnds(j)
    BY <2>6 DEF HandlerEnds
  <2>7. CASE Admit(j) \/ Ack(j)
    BY <2>7 DEF Admit, Ack
  <2> QED
    BY <1>2, <2>1, <2>2, <2>3, <2>4, <2>5, <2>6, <2>7 DEF WorkerStep
<1>3. CASE Revoke
  <2>1. PICK m \in cancels :
          IF Revocable(m)
          THEN record' = [record EXCEPT ![m.job].known = TRUE,
                                        ![m.job].revoked = TRUE]
          ELSE UNCHANGED record
    BY <1>3 DEF Revoke
  <2>2. m.job \in Jobs
    BY DEF TypeOK
  <2>3. /\ \A j \in Jobs : /\ record'[j].handler = record[j].handler
                           /\ record'[j].task = record[j].task
                           /\ record[j].known => record'[j].known
        /\ \A j \in Jobs : record'[j].revoked => record[j].revoked \/ record'[j].known
    <3>1. CASE Revocable(m)
      <4>1. record' = [record EXCEPT ![m.job].known = TRUE, ![m.job].revoked = TRUE]
        BY <2>1, <3>1
      <4> QED
        BY <2>2, <4>1 DEF TypeOK, Record
    <3>2. CASE ~Revocable(m)
      BY <2>1, <3>2
    <3> QED
      BY <3>1, <3>2
  <2> QED
    BY <2>3 DEF HandlerInv
<1>4. CASE Replace
  BY <1>4 DEF Replace, HandlerInv, NoRecord
<1>5. CASE UNCHANGED vars
  BY <1>5 DEF vars, HandlerInv
<1> QED
  BY <1>1, <1>2, <1>3, <1>4, <1>5 DEF Next, CoordinatorStep

\* No step of the worker brings an attempt back.
LEMMA WorkerGone ==
  ASSUME TypeOK, HandlerInv, NEW j \in Jobs, Gone(j),
         \/ \E i \in Jobs : WorkerStep(i)
         \/ Revoke
         \/ Replace
  PROVE  Gone(j)'
<1> USE DEF store, coordinator, worker, network, HandlerAt
<1>1. ASSUME NEW i \in Jobs, WorkerStep(i)
      PROVE  Gone(j)'
  <2> USE DEF Gone, TypeOK, Record
  <2>1. CASE Deliver(i)
    BY <2>1 DEF Deliver, Acceptable, NewRecord
  <2>2. CASE StartTask(i)
    BY <2>2 DEF StartTask
  <2>3. CASE TaskEnds(i)
    BY <2>3 DEF TaskEnds
  <2>4. CASE Write(i)
    BY <2>4 DEF Write
  <2>5. CASE HandlerStops(i)
    BY <2>5 DEF HandlerStops
  <2>6. CASE HandlerEnds(i)
    BY <2>6 DEF HandlerEnds
  <2>7. CASE Admit(i) \/ Ack(i)
    BY <2>7 DEF Admit, Ack
  <2> QED
    BY <1>1, <2>1, <2>2, <2>3, <2>4, <2>5, <2>6, <2>7 DEF WorkerStep
<1>2. CASE Revoke
  BY SMTT(30), <1>2 DEF Revoke, Gone, TypeOK, Record
<1>3. CASE Replace
  BY <1>3 DEF Replace, Gone, NoRecord
<1> QED
  BY <1>1, <1>2, <1>3

\* The worker does not touch an attempt it has not been sent.
LEMMA WorkerFresh ==
  ASSUME TypeOK, NEW j \in Jobs, Fresh(j),
         \/ \E i \in Jobs : WorkerStep(i)
         \/ Revoke
         \/ Replace
  PROVE  Fresh(j)'
<1> USE DEF store, coordinator, worker, network, HandlerAt
<1>1. ASSUME NEW i \in Jobs, WorkerStep(i)
      PROVE  Fresh(j)'
  <2>0. /\ record[j].handler = "none"
        /\ record[j].task = "none"
        /\ ~record[j].revoked
    BY DEF Fresh, NoRecord
  <2> USE <2>0 DEF Fresh, TypeOK
  <2>1. CASE Deliver(i)
    BY <2>1 DEF Deliver
  <2>2. CASE StartTask(i)
    BY <2>2 DEF StartTask
  <2>3. CASE TaskEnds(i)
    BY <2>3 DEF TaskEnds
  <2>4. CASE Write(i)
    BY <2>4 DEF Write, Frames
  <2>5. CASE HandlerStops(i)
    BY <2>5 DEF HandlerStops
  <2>6. CASE HandlerEnds(i)
    BY <2>6 DEF HandlerEnds
  <2>7. CASE Admit(i)
    BY <2>7 DEF Admit, Frames
  <2>8. CASE Ack(i)
    BY <2>8 DEF Ack
  <2> QED
    BY <1>1, <2>1, <2>2, <2>3, <2>4, <2>5, <2>6, <2>7, <2>8 DEF WorkerStep
<1>2. CASE Revoke
  <2>1. PICK m \in cancels :
          IF Revocable(m)
          THEN record' = [record EXCEPT ![m.job].known = TRUE,
                                        ![m.job].revoked = TRUE]
          ELSE UNCHANGED record
    BY <1>2 DEF Revoke
  <2>2. m.job # j
    BY DEF Fresh
  <2>3. record'[j] = record[j]
    BY <2>1, <2>2 DEF TypeOK
  <2> QED
    BY <1>2, <2>3 DEF Revoke, Fresh
<1>3. CASE Replace
  BY <1>3 DEF Replace, Fresh
<1> QED
  BY <1>1, <1>2, <1>3

-----------------------------------------------------------------------------
(* Jobs *)

\* The life of a job: what is settled stays, what is fenced does not succeed.
LEMMA JobStep ==
  ASSUME TypeOK, ShapeInv, ExecInv, [Next]_vars, NEW j \in Jobs
  PROVE  \/ jobs'[j] = jobs[j]
         \/ jobs[j].state = "none" /\ jobs'[j].state = "queued"
         \/ jobs[j].state = "queued" /\ jobs'[j].state \in {"running", "cancelled"}
         \/ /\ jobs[j].state = "running"
            /\ jobs'[j].state \in {"cancel_requested", "succeeded"}
         \/ /\ jobs[j].state = "cancel_requested"
            /\ jobs'[j].state \in {"cancelled", "failed"}
<1> USE DEF store, coordinator, worker, network
<1>0. jobs[j] \in Job /\ Shaped(jobs[j])
  BY DEF TypeOK, ShapeInv
<1>1. ASSUME NEW k \in Jobs, Submit(k)
      PROVE  \/ jobs'[j] = jobs[j]
             \/ jobs[j].state = "none" /\ jobs'[j].state = "queued"
  <2>1. CASE k = j
    <3>1. jobs'[j] = [jobs[j] EXCEPT !.state = "queued"]
      BY <1>1, <2>1 DEF Submit, TypeOK
    <3> QED
      BY <1>0, <1>1, <2>1, <3>1 DEF Submit, Job
  <2>2. CASE k # j
    <3>1. jobs' = [jobs EXCEPT ![k].state = "queued"]
      BY <1>1 DEF Submit
    <3> QED
      BY <2>2, <3>1 DEF TypeOK
  <2> QED
    BY <2>1, <2>2
<1>2. CASE ClaimNext
  <2>1. PICK k \in Jobs :
          /\ jobs[k].state = "queued"
          /\ jobs' = [jobs EXCEPT ![k] =
               [state |-> "running", gen |-> @.gen + 1, att |-> @.gen + 1]]
    BY <1>2 DEF ClaimNext
  <2>2. CASE k = j
    <3>1. jobs'[j] = [state |-> "running", gen |-> jobs[j].gen + 1,
                      att |-> jobs[j].gen + 1]
      BY <2>1, <2>2 DEF TypeOK
    <3> QED
      BY <2>1, <2>2, <3>1
  <2>3. CASE k # j
    BY <2>1, <2>3 DEF TypeOK
  <2> QED
    BY <2>2, <2>3
<1>3. CASE Abandon \/ Fence
  <2>1. jobs'[j] = jobs[j] \/ jobs'[j] = FencedBy(jobs[j])
    BY <1>3 DEF Abandon, Fence, TypeOK
  <2> QED
    BY <1>0, <2>1, FenceJob
<1>4. CASE Complete
  <2>1. jobs'[j] = jobs[j] \/ jobs'[j] = CompletedBy(jobs[j])
    BY <1>4 DEF Complete, TypeOK
  <2> QED
    BY <1>0, <2>1, CompleteJob
<1>5. CASE Settle
  <2>1. jobs'[j] = jobs[j]
        \/ jobs'[j] = FinishedBy(jobs[j], exec.drained, exec.outcome)
    BY <1>5 DEF Settle, TypeOK
  <2>2. exec.drained \in BOOLEAN /\ exec.outcome \in {"cancelled", "failed"}
    BY DEF TypeOK, Execution
  <2> QED
    BY <1>0, <2>1, <2>2, FinishJob
<1>6. CASE LateWrite
  <2>1. \/ jobs'[j] = jobs[j]
        \/ jobs'[j] = CompletedBy(jobs[j])
        \/ jobs'[j] = FinishedBy(jobs[j], TRUE, "cancelled")
    BY <1>6 DEF LateWrite, TypeOK
  <2>2. CASE jobs'[j] = FinishedBy(jobs[j], TRUE, "cancelled")
    <3>1. TRUE \in BOOLEAN /\ "cancelled" \in {"cancelled", "failed"}
      OBVIOUS
    <3>2. \/ jobs[j].state = "cancel_requested" /\ jobs'[j].state = "cancelled"
          \/ jobs'[j] = jobs[j]
      BY ZenonT(30), <1>0, <2>2, <3>1, FinishJob
    <3> QED
      BY <3>2
  <2>3. CASE jobs'[j] = CompletedBy(jobs[j])
    BY <1>0, <2>3, CompleteJob
  <2> QED
    BY <2>1, <2>2, <2>3
<1>7. ASSUME NEW c \in Callers, NEW k \in Jobs, CancelFence(c, k)
      PROVE  jobs'[j] = jobs[j] \/ jobs'[j] = FencedBy(jobs[j])
  BY <1>7 DEF CancelFence, TypeOK
<1>8. CASE UNCHANGED jobs
  BY <1>8
<1>9. \/ \E k \in Jobs : Submit(k)
      \/ ClaimNext \/ Abandon \/ Fence \/ Complete \/ Settle \/ LateWrite
      \/ \E c \in Callers, k \in Jobs : CancelFence(c, k)
      \/ UNCHANGED jobs
  <2>1. CASE DispatchStep
    BY <2>1 DEF DispatchStep, Turn, ClaimNothing, Dispatch, ReadState, Decide,
       ReceiveAdmitted, ReceiveArtifact, StreamFails, ReceiveAck, BarrierFails,
       WriteFails, Gather
  <2>2. ASSUME NEW k \in Jobs, WorkerStep(k)
        PROVE  UNCHANGED jobs
    BY <2>2, TypeWorker
  <2>3. ASSUME NEW c \in Callers, CancelStep(c)
        PROVE  UNCHANGED jobs
    BY <2>3 DEF CancelStep, CancelResume, CancelReturn
  <2>4. CASE Close \/ Closed \/ Crash \/ Start \/ Revoke \/ Replace
    BY <2>4 DEF Close, Closed, Crash, Start, Revoke, Replace
  <2>5. CASE UNCHANGED vars
    BY <2>5 DEF vars
  <2> QED
    BY <2>1, <2>2, <2>3, <2>4, <2>5 DEF Next
<1> QED
  BY <1>0, <1>1, <1>2, <1>3, <1>4, <1>5, <1>6, <1>7, <1>8, <1>9, FenceJob

-----------------------------------------------------------------------------
(* Fresh attempts *)

\* What the actions of the dispatch loop add to the network, and to the unsent.
LEMMA DispatchSends ==
  ASSUME TypeOK, ExecInv, DispatchStep
  PROVE  /\ UNCHANGED <<record, instance, wire, acks, late>>
         /\ \/ UNCHANGED <<sent, cancels>>
            \/ /\ exec.pc \notin {"none", "claimed", "reading", "abandon"}
               /\ ~Unsent'
               /\ sent' \subseteq sent \cup {exec.job}
               /\ \A m \in cancels' : m \in cancels \/ m.job = exec.job
         /\ Unsent' => \/ Unsent /\ exec'.job = exec.job
                       \/ exec.pc = "none" /\ jobs[exec'.job].state = "queued"
<1> USE DEF store, coordinator, worker, network, TypeOK, Execution, Unsent, ExecAt
<1>1. CASE Turn \/ ClaimNothing
  BY <1>1 DEF Turn, ClaimNothing
<1>2. CASE ClaimNext
  <2>1. PICK j \in Jobs : jobs[j].state = "queued"
                          /\ exec' = [NoExec EXCEPT !.pc = "claimed", !.job = j]
    BY <1>2 DEF ClaimNext
  <2>2. exec'.job = j
    BY <2>1 DEF NoExec
  <2> QED
    BY <1>2, <2>1, <2>2 DEF ClaimNext, ExecInv
<1>3. CASE Dispatch \/ ReadState \/ ReceiveAdmitted \/ ReceiveArtifact
  BY <1>3 DEF Dispatch, ReadState, ReceiveAdmitted, ReceiveArtifact
<1>4. CASE Decide
  BY <1>4 DEF Decide
<1>5. CASE Abandon \/ Complete \/ Settle
  BY <1>5 DEF Abandon, Complete, Settle
<1>6. CASE Fence
  <2>1. exec'.pc \in {"settling", "barrier"}
    BY <1>6 DEF Fence
  <2>2. cancels' = cancels
        \/ cancels' = cancels \cup {[job |-> exec.job, worker |-> exec.worker]}
    BY <1>6 DEF Fence
  <2> QED
    BY <1>6, <2>1, <2>2 DEF Fence
<1>7. CASE StreamFails \/ ReceiveAck \/ BarrierFails \/ WriteFails
  BY <1>7 DEF StreamFails, ReceiveAck, BarrierFails, WriteFails
<1>8. CASE Gather
  BY <1>8 DEF Gather, NoExec
<1> QED
  BY <1>1, <1>2, <1>3, <1>4, <1>5, <1>6, <1>7, <1>8 DEF DispatchStep

\* What the other steps of the coordinator do: nothing to the network, and to
\* the execution only what Task.cancel() does, or the end of the process.
LEMMA OthersSend ==
  ASSUME CoordinatorStep, ~DispatchStep
  PROVE  /\ UNCHANGED <<record, instance, wire, acks, sent, cancels>>
         /\ \/ Interrupt
            \/ late' \subseteq late /\ exec' = exec
            \/ late' = {} /\ exec' = NoExec
<1> USE DEF store, coordinator, worker, network
<1>1. CASE \E j \in Jobs : Submit(j)
  BY <1>1 DEF Submit
<1>2. CASE LateWrite
  BY <1>2 DEF LateWrite
<1>3. ASSUME NEW c \in Callers, CancelStep(c) \/ \E j \in Jobs : CancelFence(c, j)
      PROVE  /\ UNCHANGED <<record, instance, wire, acks, sent, cancels>>
             /\ Interrupt \/ (late' \subseteq late /\ exec' = exec)
  BY <1>3 DEF CancelStep, CancelResume, CancelReturn, CancelFence
<1>4. CASE Close \/ Closed \/ Crash \/ Start
  BY <1>4 DEF Close, Closed, Crash, Start
<1> QED
  BY <1>1, <1>2, <1>3, <1>4 DEF CoordinatorStep

\* What Task.cancel() does to an execution that has started.
LEMMA InterruptSends ==
  ASSUME TypeOK, Interrupt
  PROVE  \/ UNCHANGED <<exec, late>>
         \/ /\ exec.pc # "none"
            /\ ~Unsent'
            /\ \A w \in late' : w \in late \/ w.job = exec.job
<1>1. CASE exec.started /\ exec.pc \in TryPc
  <2>1. exec'.pc = "fencing"
    BY <1>1 DEF Interrupt, TypeOK, Execution
  <2>2. \A w \in late' : w \in late \/ w.job = exec.job
    BY <1>1 DEF Interrupt
  <2> QED
    BY <1>1, <2>1, <2>2 DEF Unsent, TryPc
<1> QED
  BY <1>1 DEF Interrupt

\* An attempt stays fresh until the execution of its job has sent the call.
LEMMA FreshKept ==
  ASSUME TypeOK, ExecInv, [Next]_vars, NEW j \in Jobs, Fresh(j)
  PROVE  Fresh(j)' \/ (j = exec.job /\ exec.pc # "none" /\ ~Unsent')
<1> USE DEF store, coordinator, worker, network
<1>1. CASE DispatchStep
  BY <1>1, DispatchSends DEF Fresh
<1>2. CASE \/ \E i \in Jobs : WorkerStep(i)
           \/ Revoke
           \/ Replace
  BY <1>2, WorkerFresh
<1>3. CASE CoordinatorStep /\ ~DispatchStep
  <2>1. CASE late' \subseteq late
    BY <1>3, <2>1, OthersSend DEF Fresh
  <2>2. CASE Interrupt
    BY <1>3, <2>2, OthersSend, InterruptSends DEF Fresh
  <2> QED
    BY <1>3, <2>1, <2>2, OthersSend
<1>4. CASE UNCHANGED vars
  BY <1>4 DEF vars, Fresh
<1> QED
  BY <1>1, <1>2, <1>3, <1>4 DEF Next, CoordinatorStep

\* An execution that has not sent its call is the one that had not, or the one
\* claim_next has just made of a queued job.
LEMMA UnsentStep ==
  ASSUME TypeOK, ExecInv, [Next]_vars, Unsent'
  PROVE  \/ Unsent /\ exec'.job = exec.job
         \/ exec.pc = "none" /\ jobs[exec'.job].state = "queued"
<1> USE DEF store, coordinator, worker, network
<1>1. CASE DispatchStep
  BY <1>1, DispatchSends
<1>2. CASE \/ \E i \in Jobs : WorkerStep(i)
           \/ Revoke
           \/ Replace
  BY <1>2 DEF Unsent, WorkerStep, Deliver, Admit, StartTask, TaskEnds, Write,
              HandlerAt, HandlerStops, HandlerEnds, Ack, Revoke, Replace
<1>3. CASE CoordinatorStep /\ ~DispatchStep
  <2>1. CASE exec' = exec
    BY <2>1 DEF Unsent
  <2>2. CASE exec' = NoExec
    BY <2>2 DEF Unsent, NoExec
  <2>3. CASE Interrupt
    BY <2>1, <2>3, InterruptSends
  <2> QED
    BY <1>3, <2>1, <2>2, <2>3, OthersSend
<1>4. CASE UNCHANGED vars
  BY <1>4 DEF vars, Unsent
<1> QED
  BY <1>1, <1>2, <1>3, <1>4 DEF Next, CoordinatorStep

\* Every step keeps what is queued or unsent fresh.
LEMMA FreshStep ==
  ASSUME TypeOK, ShapeInv, ExecInv, FreshInv, [Next]_vars
  PROVE  FreshInv'
<1> SUFFICES ASSUME NEW j \in Jobs,
                    jobs'[j].state \in {"none", "queued"}
                      \/ (Unsent' /\ exec'.job = j)
             PROVE  Fresh(j)'
  BY DEF FreshInv
<1>1. CASE jobs'[j].state \in {"none", "queued"}
  <2>1. jobs[j].state \in {"none", "queued"}
    BY <1>1, JobStep
  <2>2. exec.pc # "none" => exec.job # j
    BY <2>1 DEF ExecInv
  <2>3. Fresh(j)
    BY <2>1 DEF FreshInv
  <2> QED
    BY <2>2, <2>3, FreshKept
<1>2. CASE Unsent' /\ exec'.job = j
  <2>1. Fresh(j)
    BY <1>2, UnsentStep DEF FreshInv
  <2> QED
    BY <1>2, <2>1, FreshKept
<1> QED
  BY <1>1, <1>2

-----------------------------------------------------------------------------
(* Attempts that are gone *)

\* What was never sent is not computing.
LEMMA FreshGone ==
  ASSUME NEW j \in Jobs, Fresh(j)
  PROVE  Gone(j)
BY DEF Fresh, Gone, NoRecord

\* The writes of the execution settle a job only on a proof, or on a job that
\* was never sent; Abandon, which needs no proof, is one of those.
LEMMA EvidenceDispatch ==
  ASSUME TypeOK, ShapeInv, ExecInv, FreshInv, DispatchStep, NEW j \in Jobs,
         Evidence(j)'
  PROVE  Evidence(j) \/ Fresh(j)
<1> USE DEF store, coordinator, worker, network, Evidence, Terminal
<1>0. /\ jobs[j] \in Job /\ Shaped(jobs[j])
      /\ exec.pc # "none" => jobs[exec.job].state \notin {"none", "queued"}
  BY DEF TypeOK, ShapeInv, ExecInv
<1>1. CASE Turn \/ ClaimNothing
  BY <1>1 DEF Turn, ClaimNothing
<1>2. CASE ClaimNext
  <2>1. PICK k \in Jobs :
          /\ jobs[k].state = "queued"
          /\ jobs' = [jobs EXCEPT ![k] =
               [state |-> "running", gen |-> @.gen + 1, att |-> @.gen + 1]]
          /\ exec' = [NoExec EXCEPT !.pc = "claimed", !.job = k]
    BY <1>2 DEF ClaimNext
  <2>2. exec'.pc = "claimed"
    BY <2>1 DEF NoExec
  <2>3. jobs'[j] = jobs[j] \/ jobs'[j].state = "running"
    <3>1. CASE k = j
      <4>1. jobs'[j] = [state |-> "running", gen |-> jobs[j].gen + 1,
                        att |-> jobs[j].gen + 1]
        BY <2>1, <3>1 DEF TypeOK
      <4> QED
        BY <4>1
    <3>2. CASE k # j
      BY <2>1, <3>2 DEF TypeOK
    <3> QED
      BY <3>1, <3>2
  <2> QED
    BY <1>2, <2>2, <2>3 DEF ClaimNext, TerminalStates
<1>3. CASE Dispatch \/ ReadState \/ Decide \/ ReceiveAdmitted
  BY <1>3 DEF Dispatch, ReadState, Decide, ReceiveAdmitted, ExecAt, TypeOK, Execution
<1>4. CASE ReceiveArtifact
  BY <1>4 DEF ReceiveArtifact, ExecAt, TypeOK, Execution
<1>5. CASE StreamFails \/ ReceiveAck \/ BarrierFails \/ WriteFails
  BY ZenonT(30), <1>5 DEF StreamFails, ReceiveAck, BarrierFails, WriteFails, TypeOK, Execution
<1>6. CASE Gather
  BY <1>6 DEF Gather, NoExec
<1>7. CASE Abandon
  <2>1. CASE j = exec.job
    BY <1>7, <2>1 DEF Abandon, FreshInv, Unsent
  <2>2. CASE j # exec.job
    BY <1>7, <2>2 DEF Abandon, TypeOK, Execution
  <2> QED
    BY <2>1, <2>2
<1>8. CASE Complete
  <2>1. CASE j # exec.job
    BY <1>8, <2>1 DEF Complete, TypeOK, Execution
  <2> QED
    BY <1>8, <2>1 DEF Complete
<1>9. CASE Settle
  <2>1. CASE j # exec.job
    BY <1>9, <2>1 DEF Settle, ExecAt, TypeOK, Execution
  <2>2. CASE j = exec.job /\ ~exec.drained
    <3>1. jobs'[j] = FinishedBy(jobs[j], exec.drained, exec.outcome)
      BY <1>9, <2>2 DEF Settle, TypeOK
    <3>2. jobs'[j] = jobs[j]
      BY <2>2, <3>1 DEF FinishedBy
    <3>3. exec'.pc = "over"
      BY <1>9 DEF Settle, ExecAt, TypeOK, Execution
    <3> QED
      BY <1>9, <3>2, <3>3 DEF Settle
  <2> QED
    BY <1>9, <2>1, <2>2 DEF Settle
<1>10. CASE Fence
  <2>1. jobs'[j] = jobs[j] \/ (j = exec.job /\ jobs'[j] = FencedBy(jobs[j]))
    BY <1>10 DEF Fence, TypeOK
  <2>2. Terminal(j)' => Terminal(j)
    BY <1>0, <1>10, <2>1, FenceJob DEF Fence, TerminalStates
  <2>3. exec'.pc \in {"barrier", "settling"} /\ ~exec'.drained
    BY <1>10 DEF Fence, TypeOK, Execution
  <2> QED
    BY <1>10, <2>2, <2>3 DEF Fence
<1> QED
  BY <1>1, <1>2, <1>3, <1>4, <1>5, <1>6, <1>7, <1>8, <1>9, <1>10 DEF DispatchStep

\* So do the other steps of the coordinator: late writes carry the proof their
\* task had, and a cancellation settles at once only what is still queued.
LEMMA EvidenceOthers ==
  ASSUME TypeOK, ShapeInv, ExecInv, FreshInv, CoordinatorStep, ~DispatchStep,
         NEW j \in Jobs, Evidence(j)'
  PROVE  Evidence(j) \/ Fresh(j)
<1> USE DEF store, coordinator, worker, network, Evidence, Terminal
<1>0. jobs[j] \in Job /\ Shaped(jobs[j])
  BY DEF TypeOK, ShapeInv
<1>1. ASSUME NEW k \in Jobs, Submit(k)
      PROVE  Evidence(j)
  <2>1. jobs' = [jobs EXCEPT ![k].state = "queued"]
    BY <1>1 DEF Submit
  <2>2. Terminal(j)' => Terminal(j)
    <3>1. CASE k = j
      <4>1. jobs'[j].state = "queued"
        BY <1>0, <2>1, <3>1 DEF TypeOK, Job
      <4> QED
        BY <4>1 DEF TerminalStates
    <3>2. CASE k # j
      BY <2>1, <3>2 DEF TypeOK
    <3> QED
      BY <3>1, <3>2
  <2> QED
    BY <1>1, <2>2 DEF Submit
<1>2. CASE LateWrite
  <2>1. PICK w \in late :
          /\ late' = late \ {w}
          /\ jobs' = [jobs EXCEPT ![w.job] =
               IF w.op = "complete" THEN CompletedBy(@)
                                    ELSE FinishedBy(@, TRUE, "cancelled")]
    BY <1>2 DEF LateWrite
  <2>2. CASE w.job = j
    BY <2>2
  <2>3. CASE w.job # j
    BY <1>2, <2>1, <2>3 DEF LateWrite, TypeOK
  <2> QED
    BY <2>2, <2>3
<1>3. ASSUME NEW c \in Callers, NEW k \in Jobs, CancelFence(c, k)
      PROVE  Evidence(j) \/ Fresh(j)
  <2>1. jobs'[j] = jobs[j] \/ jobs'[j] = FencedBy(jobs[j])
    BY <1>3 DEF CancelFence, TypeOK
  <2>2. jobs[j].state = "queued" => Fresh(j)
    BY DEF FreshInv
  <2>3. Terminal(j)' => Terminal(j) \/ jobs[j].state = "queued"
    BY <1>0, <2>1, FenceJob DEF TerminalStates
  <2> QED
    BY <1>3, <2>2, <2>3 DEF CancelFence
<1>4. ASSUME Interrupt, UNCHANGED <<jobs, wire, acks>>
      PROVE  Evidence(j)
  <2>1. CASE exec.started /\ exec.pc \in TryPc
    <3>1. exec'.pc = "fencing"
      BY <1>4, <2>1 DEF Interrupt, TypeOK, Execution
    <3>2. \A w \in late' :
            \/ w \in late
            \/ w.job = exec.job /\ exec.pc \in {"completing", "resolving"}
      BY <1>4, <2>1 DEF Interrupt
    <3> QED
      BY <1>4, <3>1, <3>2 DEF ExecInv
  <2> QED
    BY <1>4, <2>1 DEF Interrupt
<1>5. ASSUME NEW c \in Callers, CancelStep(c)
      PROVE  Evidence(j)
  BY <1>4, <1>5 DEF CancelStep, CancelResume, CancelReturn
<1>6. CASE Close \/ Closed \/ Start
  BY <1>4, <1>6 DEF Close, Closed, Start
<1>7. CASE Crash
  BY <1>7 DEF Crash, NoExec
<1> QED
  BY <1>1, <1>2, <1>3, <1>5, <1>6, <1>7 DEF CoordinatorStep

\* No step of the coordinator brings an attempt back: what it sends is fresh.
LEMMA CoordinatorGone ==
  ASSUME TypeOK, ExecInv, FreshInv, CoordinatorStep, NEW j \in Jobs, Gone(j),
         Evidence(j)'
  PROVE  Gone(j)'
<1> USE DEF store, coordinator, worker, network
<1>1. CASE sent' = sent
  BY <1>1, WorkerAlone DEF Gone
<1>2. CASE Decide
  <2>1. \/ /\ exec' = [exec EXCEPT !.pc = "streaming", !.started = TRUE]
           /\ sent' = sent \cup {exec.job}
        \/ sent' = sent
    BY <1>2 DEF Decide
  <2>2. CASE j = exec.job /\ sent' # sent
    <3>1. Fresh(j)
      BY <1>2, <2>2 DEF Decide, FreshInv, Unsent
    <3>2. ~Terminal(j)
      BY <1>2, <2>2 DEF Decide, ExecInv, Terminal, TerminalStates
    <3>3. exec'.pc = "streaming"
      BY <2>1, <2>2 DEF TypeOK, Execution
    <3> QED
      BY <1>2, <3>1, <3>2, <3>3 DEF Decide, Evidence, Fresh, Terminal
  <2>3. CASE j # exec.job
    BY <1>2, <2>1, <2>3, WorkerAlone DEF Gone
  <2> QED
    BY <1>1, <2>2, <2>3
<1>3. sent' = sent \/ Decide
  <2>1. CASE DispatchStep
    BY <2>1 DEF DispatchStep, Turn, ClaimNext, ClaimNothing, Dispatch, ReadState,
       Abandon, ReceiveAdmitted, ReceiveArtifact, StreamFails, Complete, Fence,
       ReceiveAck, BarrierFails, Settle, WriteFails, Gather
  <2> QED
    BY <2>1, OthersSend
<1> QED
  BY <1>1, <1>2, <1>3

\* What the worker adds to the evidence: an answer for an attempt that was
\* revoked, and an artifact as the handler leaves.
LEMMA EvidenceWorker ==
  ASSUME TypeOK, HandlerInv, NEW j \in Jobs, Evidence(j)', ~Evidence(j),
         \/ \E i \in Jobs : WorkerStep(i)
         \/ Revoke
         \/ Replace
  PROVE  Gone(j)'
<1> USE DEF store, coordinator, worker, network, HandlerAt, Evidence, Terminal
<1>1. ASSUME NEW i \in Jobs, WorkerStep(i)
      PROVE  Gone(j)'
  <2>1. CASE Ack(i)
    BY <2>1 DEF Ack, Gone, HandlerInv
  <2>2. CASE Write(i)
    BY <2>2 DEF Write, Gone, HandlerInv, TypeOK, Record, Frames
  <2>3. CASE Admit(i)
    BY <2>3 DEF Admit, TypeOK, Frames
  <2>4. CASE Deliver(i) \/ StartTask(i) \/ TaskEnds(i) \/ HandlerStops(i)
             \/ HandlerEnds(i)
    BY <2>4 DEF Deliver, StartTask, TaskEnds, HandlerStops, HandlerEnds
  <2> QED
    BY <1>1, <2>1, <2>2, <2>3, <2>4 DEF WorkerStep
<1>2. CASE Revoke \/ Replace
  BY <1>2 DEF Revoke, Replace
<1> QED
  BY <1>1, <1>2

\* Every step keeps what is proved to be gone.
LEMMA GoneStep ==
  ASSUME IInv, [Next]_vars
  PROVE  GoneInv'
<1> USE DEF IInv
<1> SUFFICES ASSUME NEW j \in Jobs, Evidence(j)'
             PROVE  Gone(j)'
  BY DEF GoneInv
<1>1. CASE CoordinatorStep
  <2>1. Evidence(j) \/ Fresh(j)
    BY <1>1, EvidenceDispatch, EvidenceOthers
  <2>2. Gone(j)
    BY <2>1, FreshGone DEF GoneInv
  <2> QED
    BY <1>1, <2>2, CoordinatorGone
<1>2. CASE \/ \E i \in Jobs : WorkerStep(i)
           \/ Revoke
           \/ Replace
  BY <1>2, EvidenceWorker, WorkerGone DEF GoneInv
<1>3. CASE UNCHANGED vars
  BY <1>3 DEF vars, store, coordinator, worker, network, GoneInv, Evidence,
              Terminal, Gone
<1> QED
  BY <1>1, <1>2, <1>3 DEF Next, CoordinatorStep

-----------------------------------------------------------------------------
(* Theorems *)

\* The invariant holds before anything is submitted.
LEMMA InitInv ==
  ASSUME Init
  PROVE  IInv
<1> USE DEF Init
<1>1. MaxInstances \in Nat \ {0}
  BY VisualAssumption
<1>2. TypeOK
  BY <1>1 DEF TypeOK, Absent, NoExec, IdleCaller, NoRecord, NoFrames, Job,
              Execution, Call, Record, Frames, States, ExecPc, TryPc, CleanupPc
<1>3. ShapeInv /\ ExecInv /\ FreshInv /\ HandlerInv
  BY DEF ShapeInv, Shaped, ExecInv, FreshInv, HandlerInv, Fresh, Unsent, Absent,
         NoExec, NoRecord, NoFrames
<1>4. GoneInv
  BY DEF GoneInv, Evidence, Terminal, TerminalStates, Absent, NoExec, NoFrames
<1> QED
  BY <1>2, <1>3, <1>4 DEF IInv

\* Every step preserves the invariant.
LEMMA StepInv ==
  ASSUME IInv, [Next]_vars
  PROVE  IInv'
<1> USE DEF IInv
<1>1. TypeOK' /\ ShapeInv'
  BY TypeStep
<1>2. ExecInv'
  BY ExecStep
<1>3. FreshInv'
  BY FreshStep
<1>4. GoneInv'
  BY GoneStep
<1>5. HandlerInv'
  BY HandlerStep
<1> QED
  BY <1>1, <1>2, <1>3, <1>4, <1>5

\* The inductive invariant, which the theorems below read off.
THEOREM VisualInductive == Spec => []IInv
<1>1. Init => IInv
  BY InitInv
<1>2. IInv /\ [Next]_vars => IInv'
  BY StepInv
<1> QED
  BY <1>1, <1>2, PTL DEF Spec

\* Records, executions, calls and frames keep their types.
THEOREM JobsTypeCorrect == Spec => []TypeOK
<1>1. IInv => TypeOK
  BY DEF IInv
<1> QED
  BY <1>1, VisualInductive, PTL

\* max_pending counts every job whose computation may still run: a job that is
\* settled (finish_cancel, complete, request_cancel of queued work) has none.
THEOREM DrainedCorrect == Spec => []TerminalIsDrained
<1>1. IInv => TerminalIsDrained
  BY DEF IInv, GoneInv, Evidence, Gone, TerminalIsDrained
<1> QED
  BY <1>1, VisualInductive, PTL

\* VisualWorker.generate computes one image at a time.
THEOREM OneComputationCorrect == Spec => []OneComputation
<1>1. IInv => OneComputation
  BY DEF IInv, HandlerInv, OneComputation
<1> QED
  BY <1>1, VisualInductive, PTL

\* An execution that ends with the proof of the drain has settled its job.
THEOREM SettleCorrect == Spec => []ProvenDrainSettles
<1>1. IInv => ProvenDrainSettles
  BY DEF IInv, ExecInv, ProvenDrainSettles
<1> QED
  BY <1>1, VisualInductive, PTL

\* The conditional updates of complete and finish_cancel respect the fence that
\* request_cancel has moved, whenever they are executed.
THEOREM FenceCorrect == Spec => FenceHolds
<1>1. ASSUME IInv, [Next]_vars
      PROVE  [\A j \in Jobs :
                /\ Terminal(j) => jobs'[j] = jobs[j]
                /\ jobs[j].state = "cancel_requested" =>
                     jobs'[j].state # "succeeded"]_vars
  BY <1>1, JobStep DEF IInv, Terminal, TerminalStates
<1> QED
  BY <1>1, VisualInductive, PTL DEF Spec, FenceHolds

-----------------------------------------------------------------------------
(* Implementation of Board *)

StateOf == [j \in Jobs |-> jobs[j].state]
Computing == {j \in Jobs : record[j].task = "running"}
board == <<StateOf, Computing>>

\* The limits of the board count the same jobs.
LEMMA SameCounts ==
  /\ Posted!Pending = Pending /\ Posted!Known = Known
  /\ \A S : Posted!Cardinality(S) = Cardinality(S)
<1>1. Posted!Pending = Pending /\ Posted!Known = Known
  BY DEF Posted!Pending, Posted!Known, Pending, Known, PendingStates
<1> QED
  BY <1>1 DEF Posted!Cardinality, Cardinality

\* A write to one job, seen from outside.
LEMMA OneState ==
  ASSUME TypeOK, UNCHANGED record, NEW j \in Jobs, NEW new,
         jobs' = [jobs EXCEPT ![j] = new]
  PROVE  /\ StateOf' = [StateOf EXCEPT ![j] = jobs'[j].state]
         /\ StateOf[j] = jobs[j].state
         /\ Computing' = Computing
BY DEF StateOf, Computing, TypeOK

\* Whoever writes to a job that exists takes it, calls it off or ends it; where
\* it ends, nothing computes it, now that GoneInv holds of its new state.
LEMMA WriteFits ==
  ASSUME IInv, IInv', [Next]_vars, UNCHANGED record, NEW j \in Jobs, NEW new,
         jobs' = [jobs EXCEPT ![j] = new], jobs[j].state # "none"
  PROVE  [Posted!Next]_board
<1> DEFINE from == jobs[j].state
           to == jobs'[j].state
<1>1. \A a, b : from = a /\ to = b => Posted!Becomes(j, a, b)
  BY OneState DEF IInv, Posted!Becomes, StateOf, Computing
<1>2. CASE from = "queued" /\ to = "running"
  <2>1. Posted!Take(j)
    BY <1>1, <1>2 DEF Posted!Take
  <2> QED BY <2>1 DEF Posted!Next
<1>3. CASE \/ from = "queued" /\ to = "cancelled"
           \/ from = "running" /\ to = "cancel_requested"
  <2>1. Posted!CallOff(j)
    BY <1>1, <1>3 DEF Posted!CallOff
  <2> QED BY <2>1 DEF Posted!Next
<1>4. CASE \/ from = "running" /\ to = "succeeded"
           \/ from = "cancel_requested" /\ to \in {"cancelled", "failed"}
  <2>1. record[j].task # "running"
    BY <1>4 DEF IInv, GoneInv, Evidence, Gone, Terminal, TerminalStates
  <2>2. Posted!End(j)
    BY <1>1, <1>4, <2>1 DEF Posted!End
  <2> QED BY <2>2 DEF Posted!Next
<1>5. CASE jobs'[j] = jobs[j]
  <2>1. StateOf' = StateOf
    BY <1>5, OneState DEF IInv, StateOf
  <2> QED BY <2>1, OneState DEF IInv, board
<1>6. from # "none"
  OBVIOUS
<1>7. \/ jobs'[j] = jobs[j]
      \/ from = "queued" /\ to \in {"running", "cancelled"}
      \/ from = "running" /\ to \in {"cancel_requested", "succeeded"}
      \/ from = "cancel_requested" /\ to \in {"cancelled", "failed"}
  BY <1>6, JobStep DEF IInv
<1> HIDE DEF from, to
<1> QED
  BY <1>2, <1>3, <1>4, <1>5, <1>7

\* The coordinator writes to one job at a time.
LEMMA OneWrite ==
  ASSUME IInv, CoordinatorStep
  PROVE  \/ UNCHANGED jobs
         \/ \E j \in Jobs : Submit(j)
         \/ \E j \in Jobs : /\ jobs[j].state # "none"
                            /\ \E new : jobs' = [jobs EXCEPT ![j] = new]
<1> USE DEF store, coordinator, worker, network
<1>1. CASE ClaimNext
  BY <1>1 DEF ClaimNext
<1>2. CASE Abandon \/ Complete \/ Fence \/ Settle
  <2>1. exec.job \in Jobs /\ jobs[exec.job].state # "none"
    BY <1>2 DEF IInv, ExecInv, Abandon, Complete, Fence, Settle
  <2>2. \E new : jobs' = [jobs EXCEPT ![exec.job] = new]
    BY <1>2 DEF Abandon, Complete, Fence, Settle
  <2> QED BY <2>1, <2>2
<1>3. CASE LateWrite
  <2>1. PICK w \in late : \E new : jobs' = [jobs EXCEPT ![w.job] = new]
    BY <1>3 DEF LateWrite
  <2>2. w.job \in Jobs
    BY DEF IInv, TypeOK
  <2>3. jobs[w.job].state # "none"
    BY <2>2 DEF IInv, FreshInv, Fresh
  <2> QED BY <2>1, <2>2, <2>3
<1>4. ASSUME NEW c \in Callers, NEW j \in Jobs, CancelFence(c, j)
      PROVE  /\ jobs[j].state # "none"
             /\ \E new : jobs' = [jobs EXCEPT ![j] = new]
  BY <1>4 DEF CancelFence
<1>5. CASE DispatchStep /\ ~(ClaimNext \/ Abandon \/ Complete \/ Fence \/ Settle)
  BY <1>5 DEF DispatchStep, Turn, ClaimNothing, Dispatch, ReadState, Decide,
     ReceiveAdmitted, ReceiveArtifact, StreamFails, ReceiveAck, BarrierFails,
     WriteFails, Gather
<1>6. CASE \/ Close \/ Closed \/ Crash \/ Start
           \/ \E c \in Callers : CancelStep(c)
  BY <1>6 DEF Close, Closed, Crash, Start, CancelStep, CancelResume, CancelReturn
<1> QED
  BY <1>1, <1>2, <1>3, <1>4, <1>5, <1>6 DEF CoordinatorStep

LEMMA CoordinatorFits ==
  ASSUME IInv, IInv', [Next]_vars, CoordinatorStep
  PROVE  [Posted!Next]_board
<1>1. UNCHANGED record
  BY WorkerAlone
<1>2. CASE UNCHANGED jobs
  BY <1>1, <1>2 DEF board, StateOf, Computing
<1>3. ASSUME NEW j \in Jobs, Submit(j)
      PROVE  [Posted!Next]_board
  <2>1. /\ jobs[j].state = "none" /\ jobs' = [jobs EXCEPT ![j].state = "queued"]
        /\ Cardinality(Pending) < MaxPending
        /\ Cardinality(Known) < MaxRecords
    BY <1>3 DEF Submit
  <2>2. jobs'[j].state = "queued"
    BY <2>1 DEF IInv, TypeOK, Job
  <2>3. Posted!Becomes(j, "none", "queued")
    BY <1>1, <2>1, <2>2, OneState DEF IInv, Posted!Becomes, StateOf, Computing
  <2>4. Posted!Submit(j)
    BY <2>1, <2>3, SameCounts DEF Posted!Submit
  <2> QED BY <2>4 DEF Posted!Next
<1>4. ASSUME NEW j \in Jobs, jobs[j].state # "none",
             NEW new, jobs' = [jobs EXCEPT ![j] = new]
      PROVE  [Posted!Next]_board
  BY <1>1, <1>4, WriteFits
<1> QED
  BY <1>2, <1>3, <1>4, OneWrite

\* The worker works for one job at a time, for one that was claimed and that
\* nothing has settled: what was settled before is gone.
LEMMA WorkerFits ==
  ASSUME IInv, NEW j \in Jobs, WorkerStep(j)
  PROVE  [Posted!Next]_board
<1> USE DEF store, coordinator, worker, network, HandlerAt
<1>0. StateOf' = StateOf
  BY TypeWorker DEF IInv, StateOf
<1>1. record \in [Jobs -> Record]
  BY DEF IInv, TypeOK
<1>2. CASE StartTask(j) /\ ~record[j].revoked
  <2>1. /\ record[j].handler = "admitting"
        /\ record' = [record EXCEPT ![j].task = "running",
                                    ![j].handler = "computing"]
    BY <1>2 DEF StartTask
  <2>2. \A i \in Jobs : record[i].task # "running"
    BY <2>1 DEF IInv, HandlerInv
  <2>3. Computing = {} /\ Computing' = {j}
    BY <1>1, <2>1, <2>2 DEF Computing, Record
  <2>4. jobs[j].state \in {"running", "cancel_requested"}
    <3>1. ~Fresh(j)
      BY <2>1 DEF Fresh, NoRecord
    <3>2. ~Terminal(j)
      BY <1>2, <2>1 DEF IInv, GoneInv, Evidence, Gone
    <3> QED
      BY <3>1, <3>2 DEF IInv, FreshInv, Terminal, TerminalStates, TypeOK, Job,
         States, PendingStates
  <2>5. Posted!Compute(j)
    BY <1>0, <2>3, <2>4 DEF Posted!Compute, StateOf, Computing
  <2> QED BY <2>5 DEF Posted!Next
<1>3. CASE TaskEnds(j)
  <2>1. \A i \in Jobs : record[i].task = "running" => i = j
    BY <1>3 DEF TaskEnds, IInv, HandlerInv
  <2>2. Computing' = {}
    BY <1>1, <1>3, <2>1 DEF TaskEnds, Computing, Record
  <2>3. Posted!LetGo
    BY <1>0, <2>2 DEF Posted!LetGo, StateOf, Computing
  <2> QED BY <2>3 DEF Posted!Next
<1>4. CASE Deliver(j)
  <2>1. ~record[j].known => record[j].task # "running"
    BY DEF IInv, HandlerInv
  <2>2. Computing' = Computing
    BY <1>1, <1>4, <2>1 DEF Deliver, Acceptable, Computing, NewRecord
  <2> QED BY <1>0, <2>2 DEF board
<1>5. CASE \/ StartTask(j) /\ record[j].revoked
           \/ Admit(j) \/ Write(j) \/ HandlerStops(j) \/ HandlerEnds(j) \/ Ack(j)
  <2>1. \A i \in Jobs : record'[i].task = record[i].task
    BY <1>1, <1>5 DEF StartTask, Admit, Write, HandlerStops, HandlerEnds, Ack, Record
  <2>2. Computing' = Computing
    BY <2>1 DEF Computing
  <2> QED BY <1>0, <2>2 DEF board
<1> QED
  BY <1>2, <1>3, <1>4, <1>5 DEF WorkerStep

\* Store, dispatch and worker implement Board, whatever is lost, late, executed
\* twice or restarted: a claim, a fence and a settlement each happen once, the
\* worker computes one claimed and unsettled job, and what has ended is let go.
THEOREM BoardCorrect == Spec => KeepsBoard
<1>1. Init => Posted!Init
  BY DEF Init, Posted!Init, Absent, NoRecord
<1>2. IInv /\ IInv' /\ [Next]_vars => [Posted!Next]_board
  <2> SUFFICES ASSUME IInv, IInv', [Next]_vars PROVE [Posted!Next]_board
    OBVIOUS
  <2>1. CASE Revoke
    <3>1. \A i \in Jobs : record'[i].task = record[i].task
      BY <2>1 DEF Revoke, IInv, TypeOK, Record
    <3> QED BY <2>1, <3>1 DEF Revoke, store, board, StateOf, Computing
  <2>2. CASE Replace
    <3>1. Computing' = {} /\ StateOf' = StateOf
      BY <2>2 DEF Replace, store, StateOf, Computing, NoRecord
    <3>2. Posted!LetGo
      BY <3>1 DEF Posted!LetGo, StateOf, Computing
    <3> QED BY <3>2 DEF Posted!Next
  <2>3. CASE UNCHANGED vars
    BY <2>3 DEF vars, store, worker, board, StateOf, Computing
  <2> QED
    BY <2>1, <2>2, <2>3, CoordinatorFits, WorkerFits DEF Next, CoordinatorStep
<1> QED
  BY <1>1, <1>2, VisualInductive, PTL
     DEF Spec, KeepsBoard, Posted!Spec, board, StateOf, Computing
=============================================================================
