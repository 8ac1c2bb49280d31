----------------------------- MODULE VisualJobs -----------------------------
(***************************************************************************)
(* Durable visual jobs: a queue in SQLite (VisualJobStore), one process    *)
(* that dispatches it (VisualJobCoordinator, multimodal/jobs.py) and a     *)
(* separate worker process that computes one image at a time               *)
(* (VisualWorker, multimodal/visual_rpc.py), reached by two gRPC calls.    *)
(*                                                                         *)
(* Every database write runs in a thread: its commit and the moment the    *)
(* coroutine that awaits it resumes are separate steps, and a cancelled    *)
(* coroutine leaves its thread behind (late).  A job is claimed at most    *)
(* once, so an attempt (job, generation) is named by its job.  Calls       *)
(* travel on one connection, which dies with the worker process.           *)
(***************************************************************************)
EXTENDS Integers, FiniteSets

CONSTANTS
  Jobs,          \* jobs that may be submitted, by tenant and idempotency key
  Callers,       \* requests that cancel a job
  None,          \* no job
  MaxPending,    \* max_pending: jobs that are not settled
  MaxRecords,    \* max_records: jobs the table keeps
  MaxAttempts,   \* max_attempts: attempts one worker process remembers
  MaxInstances   \* worker processes that are explored

ASSUME VisualAssumption ==
  /\ None \notin Jobs
  /\ IsFiniteSet(Jobs)
  /\ {MaxPending, MaxRecords, MaxAttempts, MaxInstances} \subseteq Nat \ {0}

VARIABLES
  jobs,      \* visual_jobs: state, generation, attempt_generation
  phase,     \* the coordinator process
  loop,      \* the dispatch loop, VisualJobCoordinator._run
  exec,      \* _execution and _execution_task
  late,      \* writes whose coroutine was cancelled
  caller,    \* calls of VisualJobCoordinator.cancel
  instance,  \* the worker process
  record,    \* VisualWorker._records and the generate handler of each attempt
  sent,      \* GenerateVisual requests under way
  wire,      \* the frames a generate handler has written
  cancels,   \* CancelAttempt requests under way
  acks       \* attempts the worker has reported drained

store == jobs
coordinator == <<phase, loop, exec, late, caller>>
worker == <<instance, record>>
network == <<sent, wire, cancels, acks>>
vars == <<store, coordinator, worker, network>>

-----------------------------------------------------------------------------
(* The store *)

Absent == [state |-> "none", gen |-> 0, att |-> 0]

PendingStates == {"queued", "running", "cancel_requested"}
TerminalStates == {"succeeded", "cancelled", "failed"}
States == PendingStates \cup TerminalStates \cup {"none"}

Terminal(j) == jobs[j].state \in TerminalStates

\* Fault: asking twice moves the fence twice.
RefencedBy(job) ==
  IF job.state \in PendingStates
  THEN [job EXCEPT !.state = IF @ = "queued" THEN "cancelled" ELSE "cancel_requested",
                   !.gen = @ + 1]
  ELSE job

\* request_cancel: queued work is cancelled, running work is fenced.
FencedBy(job) ==
  IF job.state \in {"queued", "running"}
  THEN [state |-> IF job.state = "queued" THEN "cancelled" ELSE "cancel_requested",
        gen |-> job.gen + 1, att |-> job.att]
  ELSE job

\* Fault: the attempt may complete what it is still named by.
CompletableByAttempt(job) == job.state \in {"running", "cancel_requested"}

\* complete: the attempt still owns the job.
Completable(job) == job.state = "running" /\ job.gen = job.att

\* finish_cancel: the attempt was fenced, once.
Cancellable(job) == job.state = "cancel_requested" /\ job.gen = job.att + 1

CompletedBy(job) ==
  IF Completable(job) THEN [job EXCEPT !.state = "succeeded"] ELSE job

FinishedBy(job, drained, outcome) ==
  IF drained /\ Cancellable(job) THEN [job EXCEPT !.state = outcome] ELSE job

Pending == {j \in Jobs : jobs[j].state \in PendingStates}
Known == {j \in Jobs : jobs[j].state # "none"}

-----------------------------------------------------------------------------
(* The coordinator *)

\* An execution: what its task awaits, the state it read, the worker that
\* admitted it, whether the call was begun, whether the worker is known to be
\* drained, and how it will be settled.
NoExec == [pc |-> "none", job |-> None, seen |-> "none", worker |-> 0,
           started |-> FALSE, drained |-> FALSE, outcome |-> "cancelled"]

\* What the task of the execution awaits: inside its "try", or in its cleanup.
TryPc == {"reading", "read", "abandon", "streaming", "completing", "resolving"}
CleanupPc == {"fencing", "barrier", "settling"}
ExecPc == TryPc \cup CleanupPc \cup {"none", "claimed", "over"}

IdleCaller == [pc |-> "idle", job |-> None, state |-> "none"]

NoRecord == [known |-> FALSE, revoked |-> FALSE, task |-> "none",
             handler |-> "none"]

NewRecord == [known |-> TRUE, revoked |-> FALSE, task |-> "none",
              handler |-> "admitting"]

NoFrames == [admitted |-> 0, artifact |-> FALSE]

Job == [state : States, gen : 0 .. 2, att : 0 .. 1]

Execution ==
  [pc : ExecPc, job : Jobs \cup {None}, seen : States,
   worker : 0 .. MaxInstances, started : BOOLEAN, drained : BOOLEAN,
   outcome : {"cancelled", "failed"}]

Call == [pc : {"idle", "fenced", "waiting"}, job : Jobs \cup {None},
         state : States]

Record == [known : BOOLEAN, revoked : BOOLEAN,
           task : {"none", "running", "done"},
           handler : {"none", "admitting", "computing", "leaving"}]

Frames == [admitted : 0 .. MaxInstances, artifact : BOOLEAN]

TypeOK ==
  /\ jobs \in [Jobs -> Job]
  /\ phase \in {"up", "closing", "closed", "down"}
  /\ loop \in {"top", "claiming", "executing", "done"}
  /\ exec \in Execution
  /\ late \subseteq [op : {"complete", "finish"}, job : Jobs]
  /\ caller \in [Callers -> Call]
  /\ instance \in 1 .. MaxInstances
  /\ record \in [Jobs -> Record]
  /\ sent \subseteq Jobs
  /\ wire \in [Jobs -> Frames]
  /\ cancels \subseteq [job : Jobs, worker : 1 .. MaxInstances]
  /\ acks \subseteq Jobs

Alive == phase \in {"up", "closing"}

\* The execution other coroutines see: it is not set yet while claim_next has
\* committed and the loop has not resumed.
Executing(j) == exec.job = j /\ exec.pc \notin {"none", "claimed"}

\* submit.  A caller that found the coordinator open may commit after its loop
\* or close() has ended it.  A repeated key returns the job and changes nothing.
Submit(j) ==
  /\ Alive
  /\ jobs[j].state = "none"
  /\ Cardinality(Pending) < MaxPending
  /\ Cardinality(Known) < MaxRecords
  /\ jobs' = [jobs EXCEPT ![j].state = "queued"]
  /\ UNCHANGED <<coordinator, worker, network>>

\* Fault: the loop does not look whether it is asked to end.
TurnAlways ==
  /\ loop = "top"
  /\ Alive
  /\ loop' = "claiming"
  /\ UNCHANGED <<store, phase, exec, late, caller, worker, network>>

\* The head of the loop of _run.
Turn ==
  /\ loop = "top"
  /\ Alive
  /\ loop' = IF phase = "closing" THEN "done" ELSE "claiming"
  /\ UNCHANGED <<store, phase, exec, late, caller, worker, network>>

\* claim_next commits.  Which job is the oldest is left open.
ClaimNext ==
  /\ loop = "claiming"
  /\ \E j \in Jobs :
       /\ jobs[j].state = "queued"
       /\ jobs' = [jobs EXCEPT ![j] =
            [state |-> "running", gen |-> @.gen + 1, att |-> @.gen + 1]]
       /\ exec' = [NoExec EXCEPT !.pc = "claimed", !.job = j]
  /\ loop' = "executing"
  /\ UNCHANGED <<phase, late, caller, worker, network>>

\* Nothing is queued (the loop looks again after a second, or when woken), or
\* the database fails and the loop with it.
ClaimNothing ==
  /\ loop = "claiming"
  /\ \/ (\A j \in Jobs : jobs[j].state # "queued") /\ loop' = "top"
     \/ loop' = "done"
  /\ UNCHANGED <<store, phase, exec, late, caller, worker, network>>

ExecAt(pc) == exec' = [exec EXCEPT !.pc = pc]

\* The loop resumes with the claim and creates the task.
Dispatch ==
  /\ exec.pc = "claimed"
  /\ ExecAt("reading")
  /\ UNCHANGED <<store, phase, loop, late, caller, worker, network>>

ReadState ==
  /\ exec.pc = "reading"
  /\ exec' = [exec EXCEPT !.pc = "read", !.seen = jobs[exec.job].state]
  /\ UNCHANGED <<store, phase, loop, late, caller, worker, network>>

\* The task decides on what it has read; started is set as the call begins.
Decide ==
  /\ exec.pc = "read"
  /\ \/ /\ exec.seen # "running" \/ phase = "closing"
        /\ ExecAt("abandon")
        /\ UNCHANGED sent
     \/ /\ exec.seen = "running" /\ phase # "closing"
        /\ exec' = [exec EXCEPT !.pc = "streaming", !.started = TRUE]
        /\ sent' = sent \cup {exec.job}
  /\ UNCHANGED <<store, phase, loop, late, caller, worker, wire, cancels, acks>>

\* The call was never made: nothing to drain.
Abandon ==
  /\ exec.pc = "abandon"
  /\ jobs' = [jobs EXCEPT ![exec.job] = FencedBy(@)]
  /\ exec' = [exec EXCEPT !.pc = "resolving", !.drained = TRUE]
  /\ UNCHANGED <<phase, loop, late, caller, worker, network>>

ReceiveAdmitted ==
  /\ exec.pc = "streaming"
  /\ exec.worker = 0
  /\ wire[exec.job].admitted # 0
  /\ exec' = [exec EXCEPT !.worker = wire[exec.job].admitted]
  /\ UNCHANGED <<store, phase, loop, late, caller, worker, network>>

ReceiveArtifact ==
  /\ exec.pc = "streaming"
  /\ exec.worker # 0
  /\ wire[exec.job].artifact
  /\ ExecAt("completing")
  /\ UNCHANGED <<store, phase, loop, late, caller, worker, network>>

\* Fault: the call has no deadline.
StreamWaits == FALSE

\* A deadline, a failure frame, a refused or broken call, a wrong digest.
StreamFails ==
  /\ exec.pc = "streaming"
  /\ exec' = [exec EXCEPT !.pc = "fencing", !.outcome = "failed"]
  /\ UNCHANGED <<store, phase, loop, late, caller, worker, network>>

\* complete.  When the fence has moved, the finished attempt is drained.
Complete ==
  /\ exec.pc = "completing"
  /\ jobs' = [jobs EXCEPT ![exec.job] = CompletedBy(@)]
  /\ exec' = [exec EXCEPT !.pc = IF Completable(jobs[exec.job])
                                 THEN "over" ELSE "resolving",
                          !.drained = TRUE]
  /\ UNCHANGED <<phase, loop, late, caller, worker, network>>

\* _cleanup: the fence, then the barrier of the worker that admitted it.
Fence ==
  /\ exec.pc = "fencing"
  /\ jobs' = [jobs EXCEPT ![exec.job] = FencedBy(@)]
  /\ \/ /\ exec.worker = 0
        /\ exec' = [exec EXCEPT !.pc = "settling", !.drained = FALSE]
        /\ UNCHANGED cancels
     \/ /\ exec.worker # 0
        /\ exec' = [exec EXCEPT !.pc = "barrier", !.drained = FALSE]
        /\ cancels' = cancels \cup {[job |-> exec.job, worker |-> exec.worker]}
  /\ UNCHANGED <<phase, loop, late, caller, worker, sent, wire, acks>>

\* The answer of CancelAttempt, a call without answer or an unknown instance.
ReceiveAck ==
  /\ exec.pc = "barrier"
  /\ exec.job \in acks
  /\ exec' = [exec EXCEPT !.pc = "settling", !.drained = TRUE]
  /\ UNCHANGED <<store, phase, loop, late, caller, worker, network>>

\* Fault: the barrier has no deadline.
BarrierWaits == FALSE

BarrierFails ==
  /\ exec.pc = "barrier"
  /\ exec' = [exec EXCEPT !.pc = "settling", !.drained = FALSE]
  /\ UNCHANGED <<store, phase, loop, late, caller, worker, network>>

\* finish_cancel.
Settle ==
  /\ exec.pc \in {"resolving", "settling"}
  /\ jobs' = [jobs EXCEPT ![exec.job] = FinishedBy(@, exec.drained, exec.outcome)]
  /\ ExecAt("over")
  /\ UNCHANGED <<phase, loop, late, caller, worker, network>>

\* A write fails: inside the "try" the cleanup begins, in the cleanup the task
\* ends and leaves the job as it is.
WriteFails ==
  /\ \/ /\ exec.pc \in {"reading", "abandon", "completing", "resolving"}
        /\ exec' = [exec EXCEPT !.pc = "fencing", !.outcome = "failed"]
     \/ /\ exec.pc \in {"fencing", "settling"}
        /\ exec' = [exec EXCEPT !.pc = "over", !.drained = FALSE]
  /\ UNCHANGED <<store, phase, loop, late, caller, worker, network>>

\* The loop gathers the task.
Gather ==
  /\ exec.pc = "over"
  /\ exec' = NoExec
  /\ loop' = "top"
  /\ UNCHANGED <<store, phase, late, caller, worker, network>>

\* Task.cancel() of an execution that has started: the cleanup begins, and a
\* write that was awaited goes on.  The cleanup itself is shielded.
Interrupt ==
  IF exec.started /\ exec.pc \in TryPc
  THEN /\ exec' = [exec EXCEPT !.pc = "fencing", !.outcome = "cancelled"]
       /\ late' = late \cup
            {[op |-> IF exec.pc = "completing" THEN "complete" ELSE "finish",
              job |-> exec.job] : x \in {exec.pc} \cap {"completing", "resolving"}}
  ELSE UNCHANGED <<exec, late>>

LateWrite ==
  /\ \E w \in late :
       /\ late' = late \ {w}
       /\ jobs' = [jobs EXCEPT ![w.job] =
            IF w.op = "complete" THEN CompletedBy(@)
                                 ELSE FinishedBy(@, TRUE, "cancelled")]
  /\ UNCHANGED <<phase, loop, exec, caller, worker, network>>

\* cancel: the fence commits ...
CancelFence(c, j) ==
  /\ Alive
  /\ caller[c].pc = "idle"
  /\ jobs[j].state # "none"
  /\ jobs' = [jobs EXCEPT ![j] = FencedBy(@)]
  /\ caller' = [caller EXCEPT ![c] = [pc |-> "fenced", job |-> j,
                                      state |-> FencedBy(jobs[j]).state]]
  /\ UNCHANGED <<phase, loop, exec, late, worker, network>>

\* ... the coroutine resumes and looks for the execution of this job ...
CancelResume(c) ==
  /\ caller[c].pc = "fenced"
  /\ \/ /\ Executing(caller[c].job)
        /\ caller' = [caller EXCEPT ![c].pc = "waiting"]
        /\ IF caller[c].state = "cancel_requested"
           THEN Interrupt ELSE UNCHANGED <<exec, late>>
     \/ /\ ~Executing(caller[c].job)
        /\ caller' = [caller EXCEPT ![c] = IdleCaller]
        /\ UNCHANGED <<exec, late>>
  /\ UNCHANGED <<store, phase, loop, worker, network>>

\* ... and waits for its task.
CancelReturn(c) ==
  /\ caller[c].pc = "waiting"
  /\ ~Executing(caller[c].job) \/ exec.pc = "over"
  /\ caller' = [caller EXCEPT ![c] = IdleCaller]
  /\ UNCHANGED <<store, phase, loop, exec, late, worker, network>>

\* close and _shutdown.
Close ==
  /\ phase = "up"
  /\ phase' = "closing"
  /\ IF exec.pc \notin {"none", "claimed"} THEN Interrupt
                                            ELSE UNCHANGED <<exec, late>>
  /\ UNCHANGED <<store, loop, caller, worker, network>>

Closed ==
  /\ phase = "closing"
  /\ loop = "done"
  /\ phase' = "closed"
  /\ UNCHANGED <<store, loop, exec, late, caller, worker, network>>

\* The process ends.  Its calls are reset, what it sent may still arrive.
Crash ==
  /\ phase # "down"
  /\ phase' = "down"
  /\ loop' = "done"
  /\ exec' = NoExec
  /\ late' = {}
  /\ caller' = [c \in Callers |-> IdleCaller]
  /\ UNCHANGED <<store, worker, network>>

Start ==
  /\ phase = "down"
  /\ phase' = "up"
  /\ loop' = "top"
  /\ UNCHANGED <<store, exec, late, caller, worker, network>>

-----------------------------------------------------------------------------
(* The worker *)

Active == {j \in Jobs : record[j].handler # "none"}
Remembered == {j \in Jobs : record[j].known}

HandlerAt(j, handler) == record' = [record EXCEPT ![j].handler = handler]

\* A new attempt, nobody computing, and room in the table.
Acceptable(j) ==
  /\ ~record[j].known
  /\ Active = {}
  /\ Cardinality(Remembered) < MaxAttempts

\* A generate request arrives, perhaps not for the last time.
Deliver(j) ==
  /\ j \in sent
  /\ sent' \in {sent, sent \ {j}}
  /\ \/ /\ Acceptable(j)
        /\ record' = [record EXCEPT ![j] = NewRecord]
     \/ /\ ~Acceptable(j)
        /\ UNCHANGED record
  /\ UNCHANGED <<store, coordinator, instance, wire, cancels, acks>>

\* The admitted frame is written.
Admit(j) ==
  /\ record[j].handler = "admitting"
  /\ wire[j].admitted = 0
  /\ wire' = [wire EXCEPT ![j].admitted = instance]
  /\ UNCHANGED <<store, coordinator, worker, sent, cancels, acks>>

\* Fault: the attempt is not asked for again after the write.
StartAnyway(j) ==
  /\ record[j].handler = "admitting"
  /\ wire[j].admitted # 0
  /\ record' = [record EXCEPT ![j].task = "running", ![j].handler = "computing"]
  /\ UNCHANGED <<store, coordinator, instance, network>>

\* After the write: compute, unless the attempt was revoked meanwhile.
StartTask(j) ==
  /\ record[j].handler = "admitting"
  /\ wire[j].admitted # 0
  /\ \/ record[j].revoked /\ HandlerAt(j, "leaving")
     \/ /\ ~record[j].revoked
        /\ record' = [record EXCEPT ![j].task = "running",
                                    ![j].handler = "computing"]
  /\ UNCHANGED <<store, coordinator, instance, network>>

\* The native thread ends, with a result or an exception.
TaskEnds(j) ==
  /\ record[j].task = "running"
  /\ record' = [record EXCEPT ![j].task = "done"]
  /\ UNCHANGED <<store, coordinator, instance, network>>

\* The last frame: the artifact, a failure, or nothing for a revoked attempt.
Write(j) ==
  /\ record[j].handler = "computing"
  /\ record[j].task = "done"
  /\ HandlerAt(j, "leaving")
  /\ \E artifact \in BOOLEAN :
       /\ artifact => ~record[j].revoked
       /\ wire' = [wire EXCEPT ![j].artifact = artifact]
  /\ UNCHANGED <<store, coordinator, instance, sent, cancels, acks>>

\* The budget is exceeded, a write fails or the client is gone.
HandlerStops(j) ==
  /\ record[j].handler \in {"admitting", "computing"}
  /\ HandlerAt(j, "leaving")
  /\ UNCHANGED <<store, coordinator, instance, network>>

\* Fault: the slot is free before the native thread ends.
HandlerLeaves(j) ==
  /\ record[j].handler = "leaving"
  /\ HandlerAt(j, "none")
  /\ UNCHANGED <<store, coordinator, instance, network>>

\* The "finally" of generate: the native thread is drained first.
HandlerEnds(j) ==
  /\ record[j].handler = "leaving"
  /\ record[j].task # "running"
  /\ HandlerAt(j, "none")
  /\ UNCHANGED <<store, coordinator, instance, network>>

\* The call names this process, which remembers the attempt or has room to.
Revocable(m) ==
  /\ m.worker = instance
  /\ record[m.job].known \/ Cardinality(Remembered) < MaxAttempts

\* CancelAttempt arrives: this process revokes it, another one answers unknown.
Revoke ==
  /\ \E m \in cancels :
       /\ cancels' = cancels \ {m}
       /\ IF Revocable(m)
          THEN record' = [record EXCEPT ![m.job].known = TRUE,
                                        ![m.job].revoked = TRUE]
          ELSE UNCHANGED record
  /\ UNCHANGED <<store, coordinator, instance, sent, wire, acks>>

\* ... and answers when its native thread is gone.
Ack(j) ==
  /\ record[j].revoked
  /\ record[j].task # "running"
  /\ acks' = acks \cup {j}
  /\ UNCHANGED <<store, coordinator, worker, sent, wire, cancels>>

\* The worker process is replaced; requests under way are lost.
Replace ==
  /\ instance < MaxInstances
  /\ instance' = instance + 1
  /\ record' = [j \in Jobs |-> NoRecord]
  /\ sent' = {}
  /\ cancels' = {}
  /\ UNCHANGED <<store, coordinator, wire, acks>>

-----------------------------------------------------------------------------
Init ==
  /\ jobs = [j \in Jobs |-> Absent]
  /\ phase = "up"
  /\ loop = "top"
  /\ exec = NoExec
  /\ late = {}
  /\ caller = [c \in Callers |-> IdleCaller]
  /\ instance = 1
  /\ record = [j \in Jobs |-> NoRecord]
  /\ sent = {}
  /\ wire = [j \in Jobs |-> NoFrames]
  /\ cancels = {}
  /\ acks = {}

\* The dispatch loop and the task it awaits: one thread of control.
DispatchStep ==
  \/ Turn
  \/ ClaimNext
  \/ ClaimNothing
  \/ Dispatch
  \/ ReadState
  \/ Decide
  \/ Abandon
  \/ ReceiveAdmitted
  \/ ReceiveArtifact
  \/ StreamFails
  \/ Complete
  \/ Fence
  \/ ReceiveAck
  \/ BarrierFails
  \/ Settle
  \/ WriteFails
  \/ Gather

CancelStep(c) ==
  \/ CancelResume(c)
  \/ CancelReturn(c)

WorkerStep(j) ==
  \/ Deliver(j)
  \/ Admit(j)
  \/ StartTask(j)
  \/ TaskEnds(j)
  \/ Write(j)
  \/ HandlerStops(j)
  \/ HandlerEnds(j)
  \/ Ack(j)

Next ==
  \/ \E j \in Jobs : Submit(j)
  \/ DispatchStep
  \/ LateWrite
  \/ \E c \in Callers : CancelStep(c) \/ \E j \in Jobs : CancelFence(c, j)
  \/ Close
  \/ Closed
  \/ Crash
  \/ Start
  \/ \E j \in Jobs : WorkerStep(j)
  \/ Revoke
  \/ Replace

Spec == Init /\ [][Next]_vars

\* Every await of the coordinator ends by itself: writes finish, calls have
\* deadlines.  The worker, the network and crashes are under no obligation.
Fairness ==
  /\ WF_vars(DispatchStep)
  /\ WF_vars(Closed)
  /\ \A c \in Callers : WF_vars(CancelStep(c))

FairSpec == Spec /\ Fairness

-----------------------------------------------------------------------------
(* Properties *)

\* A settled job has no native computation, neither now nor later: a cancelled
\* or failed job does not give its place in max_pending back before the worker
\* has really let go of it, whatever was lost, late or restarted.
TerminalIsDrained ==
  \A j \in Jobs : Terminal(j) => record[j].task # "running"

\* The worker computes one image at a time, also when a deadline or a
\* disconnect ends the call of the first one early.
OneComputation ==
  \A i, j \in Jobs :
    record[i].task = "running" /\ record[j].task = "running" => i = j

\* Once a cancellation was accepted the job does not succeed any more, and what
\* is settled stays as it is, although writes of cancelled tasks come late.
FenceHolds ==
  [][\A j \in Jobs :
       /\ Terminal(j) => jobs'[j] = jobs[j]
       /\ jobs[j].state = "cancel_requested" => jobs'[j].state # "succeeded"]_vars

\* When the task of an attempt ends with the proof that the worker is drained,
\* the job is settled: the fence of the attempt still matches, however many
\* callers have cancelled meanwhile.
ProvenDrainSettles ==
  exec.pc = "over" /\ exec.drained => Terminal(exec.job)

\* Queued work is dispatched while the coordinator is ready: a lost worker, a
\* cancelled job or a failed write before it does not hold the queue up.
QueuedIsDispatched ==
  \A j \in Jobs :
    jobs[j].state = "queued" ~>
      jobs[j].state # "queued" \/ phase # "up" \/ loop = "done"

\* A call of cancel returns, although it waits for a task it has cancelled.
CancelReturns ==
  \A c \in Callers : caller[c].pc = "waiting" ~> caller[c].pc = "idle"

\* A shutdown ends: its task waits for the loop, the loop for the execution.
ShutdownEnds == phase = "closing" ~> phase \in {"closed", "down"}

\* The store, the dispatch and the worker, which only share two calls, look like
\* one board: what max_pending has room for is what the worker has let go of.
Posted == INSTANCE Board WITH
  state <- [j \in Jobs |-> jobs[j].state],
  computing <- {j \in Jobs : record[j].task = "running"}

KeepsBoard == Posted!Spec
=============================================================================
