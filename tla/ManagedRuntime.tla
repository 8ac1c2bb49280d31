---------------------------- MODULE ManagedRuntime ----------------------------
(***************************************************************************)
(* One managed container: its launch, the abort of a launch that did not   *)
(* succeed and the stop of one that did (registry/runtime_stages.py,       *)
(* runtime_abort.py, managed_runtime.py), over the journal of producer     *)
(* stages and the Docker daemon.                                           *)
(*                                                                         *)
(* Any number of processes may run any of the three operations, fail,      *)
(* time out or die at every await.  A flock per attempt (the fence) is     *)
(* released when its owner leaves; a request the daemon has accepted is    *)
(* not: it stays on the wire and may take effect at any later time.        *)
(* Containers that somebody else restarts are left out.                    *)
(***************************************************************************)
EXTENDS Integers, FiniteSets

CONSTANTS
  Workers,       \* executions of launch, abort and stop
  None,          \* nobody
  MaxAttempts    \* attempts of one stage (32 in StageState)

ASSUME RuntimeAssumption ==
  /\ None \notin Workers
  /\ IsFiniteSet(Workers)
  /\ MaxAttempts \in Nat \ {0}

VARIABLES
  journal,   \* producer_stages: the launch, abort and stop stage of one runtime
  disk,      \* the files of each attempt directory
  fence,     \* who holds the flock of each attempt directory
  box,       \* the container of each attempt, as the daemon knows it
  wire,      \* requests to the daemon that are not answered
  worker     \* what each execution does next

vars == <<journal, disk, fence, box, wire, worker>>

Stages == {"launch", "abort", "stop"}
Attempts == 1 .. MaxAttempts

-----------------------------------------------------------------------------
(* The journal: StageState and ProducerStages *)

\* "input" is the launch attempt an abort or a stop is declared for.
Undeclared == [status |-> "absent", attempt |-> 0, error |-> "none", input |-> 0]

Declared(s, a) ==
  IF journal[s].status = "absent"
  THEN [Undeclared EXCEPT !.status = "planned", !.input = a]
  ELSE journal[s]

\* Fault: the number of attempts is not bounded.
StartableAgain(row) == row.status \in {"planned", "failed"}

Startable(row) == row.status \in {"planned", "failed"} /\ row.attempt < MaxAttempts

Joinable(row) == row.status \in {"running", "completed"}

Runs(s, a) == journal[s].status = "running" /\ journal[s].attempt = a

StageStarted(row) ==
  [row EXCEPT !.status = "running", !.attempt = @ + 1, !.error = "none"]

StageFailed(row, error) == [row EXCEPT !.status = "failed", !.error = error]

StageCompleted(row) == [row EXCEPT !.status = "completed"]

\* The launch attempt a has neither succeeded nor been superseded.
Incomplete(a) ==
  journal["launch"].attempt = a /\ journal["launch"].status \in {"running", "failed"}

-----------------------------------------------------------------------------
(* The attempt directory and the daemon *)

\* 0 where there is no file, else the container and the start it binds.
NoFiles == [createRequest |-> FALSE, createComplete |-> FALSE, allocation |-> 0,
            startRequest |-> FALSE, firstStart |-> 0, intent |-> FALSE]

\* id and start count the containers and the starts of an attempt: they stand
\* for the full container ID and for State.StartedAt.
NoBox == [state |-> "absent", id |-> 0, start |-> 0]

\* docker container ls --all
Found(a) == box[a].state # "absent"

Commands == {"create", "start", "stop", "rm"}
Message == [cmd : Commands, attempt : Attempts, id : Nat, by : Workers]

\* The request worker w sends about the container its files name.
Request(w, cmd) ==
  LET a == worker[w].target
  IN  [cmd |-> cmd, attempt |-> a, id |-> disk[a].allocation, by |-> w]

Sent(m, cmds, a) == m.cmd \in cmds /\ m.attempt = a

NonePending(cmds, a) == \A m \in wire : ~Sent(m, cmds, a)

Effective(m) ==
  LET b == box[m.attempt]
  IN  CASE m.cmd = "create" -> b.state = "absent"
        [] m.cmd = "start"  -> b.state \in {"created", "exited"} /\ b.id = m.id
        [] m.cmd = "stop"   -> b.state # "absent" /\ b.id = m.id
        [] m.cmd = "rm"     -> b.state \in {"created", "exited"} /\ b.id = m.id

Effect(m) ==
  LET b == box[m.attempt]
  IN  CASE m.cmd = "create" -> [b EXCEPT !.state = "created", !.id = @ + 1]
        [] m.cmd = "start"  -> [b EXCEPT !.state = "running", !.start = @ + 1]
        [] m.cmd = "stop"   -> [b EXCEPT !.state = IF @ = "running" THEN "exited" ELSE @]
        [] m.cmd = "rm"     -> [b EXCEPT !.state = "absent"]

-----------------------------------------------------------------------------
(* The workers *)

\* op: the operation; target: the launch attempt; own: the attempt of the
\* stage of op; seen: how the launch stood when an abort took the fence.
Idle == [op |-> "none", pc |-> "idle", target |-> 0, own |-> 0, seen |-> "none"]

StartPc == {"start", "cancelled"}
LaunchPc == {"find", "create", "creating", "adopt", "request", "run", "running",
             "observe", "probe", "publish"}
AbortPc == {"declare", "intent", "reconcile", "absent", "fail"}
RemovePc == {"halt", "halting", "check", "remove", "removing"}
Pc == StartPc \cup LaunchPc \cup AbortPc \cup RemovePc
        \cup {"idle", "enter", "lookup", "finish"}

Step(w, pc) == worker' = [worker EXCEPT ![w].pc = pc]

\* The operation ends, by its return or by an exception: the fence is released.
Quit(w) ==
  /\ worker' = [worker EXCEPT ![w] = Idle]
  /\ fence' = [a \in Attempts |-> IF fence[a] = w THEN None ELSE fence[a]]

Target(w) == worker[w].target
At(w, op, pc) == worker[w].op = op /\ worker[w].pc = pc

Write(a, file, content) == disk' = [disk EXCEPT ![a][file] = content]

Row == [status : {"absent", "planned", "running", "failed", "completed"},
        attempt : 0 .. MaxAttempts, error : {"none", "cancelled", "aborted"},
        input : 0 .. MaxAttempts]

Files == [createRequest : BOOLEAN, createComplete : BOOLEAN, allocation : Nat,
          startRequest : BOOLEAN, firstStart : Nat, intent : BOOLEAN]

Container == [state : {"absent", "created", "running", "exited"}, id : Nat, start : Nat]

Execution == [op : Stages \cup {"none"}, pc : Pc, target : 0 .. MaxAttempts,
              own : 0 .. MaxAttempts, seen : {"none", "running", "cancelled", "aborted"}]

TypeOK ==
  /\ journal \in [Stages -> Row]
  /\ disk \in [Attempts -> Files]
  /\ fence \in [Attempts -> Workers \cup {None}]
  /\ box \in [Attempts -> Container]
  /\ wire \subseteq Message
  /\ worker \in [Workers -> Execution]

-----------------------------------------------------------------------------
(* What every operation does *)

\* An exception, a deadline, a cancellation or the death of the process: what
\* was sent to the daemon stays sent.
Leave(w) ==
  /\ worker[w].pc # "idle"
  /\ Quit(w)
  /\ UNCHANGED <<journal, disk, box, wire>>

\* start_owned: the transaction commits a new attempt.
NewAttempt(w, pc) ==
  LET s == worker[w].op
      n == journal[s].attempt + 1
  IN  /\ worker[w].pc = "start"
      /\ Startable(journal[s])
      /\ journal' = [journal EXCEPT ![s] = StageStarted(@)]
      /\ worker' = [worker EXCEPT ![w].pc = pc, ![w].own = n,
                                  ![w].target = IF s = "launch" THEN n ELSE @]
      /\ UNCHANGED <<disk, fence, box, wire>>

\* It is returned to its owner,
StartStage(w) ==
  NewAttempt(w, CASE worker[w].op = "launch" -> "enter"
                  [] worker[w].op = "abort"  -> "intent"
                  [] worker[w].op = "stop"   -> "lookup")

\* ... or the owner is cancelled before it is,
CancelStart(w) == NewAttempt(w, "cancelled")

\* ... and records, in a later transaction, that nothing was done.
FailAfterDrain(w) ==
  LET s == worker[w].op
  IN  /\ worker[w].pc = "cancelled"
      /\ journal' = IF Runs(s, worker[w].own)
                    THEN [journal EXCEPT ![s] = StageFailed(@, "cancelled")]
                    ELSE journal
      /\ Quit(w)
      /\ UNCHANGED <<disk, box, wire>>

\* A docker command is handed to the daemon.
Send(w, from, cmd, to) ==
  /\ worker[w].pc = from
  /\ wire' = wire \cup {Request(w, cmd)}
  /\ Step(w, to)
  /\ UNCHANGED <<journal, disk, fence, box>>

\* It has been executed: had it failed, w would have raised (Refuse).
Done(w, cmd) == \A m \in wire : Sent(m, {cmd}, Target(w)) => m.by # w

Awaits(w, m) ==
  /\ m.by = w
  /\ Target(w) = m.attempt
  /\ worker[w].pc = CASE m.cmd = "create" -> "creating"
                      [] m.cmd = "start"  -> "running"
                      [] m.cmd = "stop"   -> "halting"
                      [] m.cmd = "rm"     -> "removing"

-----------------------------------------------------------------------------
(* launch_runtime_stage *)

\* The stage is declared and its state is read.
ReadLaunch(w) ==
  LET row == Declared("launch", 0)
  IN  /\ worker[w].pc = "idle"
      /\ row.status # "completed"
      /\ row.error # "aborted"
      /\ journal' = [journal EXCEPT !["launch"] = row]
      /\ worker' = [worker EXCEPT ![w] =
                     IF row.status = "running"
                     THEN [Idle EXCEPT !.op = "launch", !.pc = "enter",
                                       !.target = row.attempt, !.own = row.attempt]
                     ELSE [Idle EXCEPT !.op = "launch", !.pc = "start"]]
      /\ UNCHANGED <<disk, fence, box, wire>>

\* Fault: the intent to abort is not looked for.
LaunchableAnyway(a) == Runs("launch", a)

Launchable(a) == Runs("launch", a) /\ ~disk[a].intent

\* The fence is acquired and the attempt is still to be launched.
EnterLaunch(w) ==
  /\ At(w, "launch", "enter")
  /\ fence[Target(w)] = None
  /\ Launchable(Target(w))
  /\ fence' = [fence EXCEPT ![Target(w)] = w]
  /\ Step(w, "find")
  /\ UNCHANGED <<journal, disk, box, wire>>

\* Fault: a create that is requested and not yet seen does not count.
CreatableAgain(a) == disk[a].allocation = 0

Creatable(a) == disk[a].allocation = 0 /\ ~disk[a].createRequest

RequestCreate(w) ==
  /\ At(w, "launch", "find")
  /\ ~Found(Target(w))
  /\ Creatable(Target(w))
  /\ Write(Target(w), "createRequest", TRUE)
  /\ Step(w, "create")
  /\ UNCHANGED <<journal, fence, box, wire>>

SendCreate(w) == Send(w, "create", "create", "creating")

CreateDone(w) ==
  /\ At(w, "launch", "creating")
  /\ Done(w, "create")
  /\ Write(Target(w), "createComplete", TRUE)
  /\ Step(w, "find")
  /\ UNCHANGED <<journal, fence, box, wire>>

\* The container found is inspected and bound to the attempt.
Adopt(w) ==
  LET a == Target(w)
  IN  /\ At(w, "launch", "find")
      /\ Found(a)
      /\ disk[a].allocation \in {0, box[a].id}
      /\ Write(a, "allocation", box[a].id)
      /\ \/ box[a].state = "created" /\ Step(w, "request") /\ UNCHANGED fence
         \/ box[a].state = "running" /\ Step(w, "observe") /\ UNCHANGED fence
         \/ box[a].state = "exited" /\ Quit(w)
      /\ UNCHANGED <<journal, box, wire>>

RequestStart(w) ==
  LET a == Target(w)
  IN  /\ At(w, "launch", "request")
      /\ disk[a].firstStart = 0
      /\ ~disk[a].startRequest
      /\ Write(a, "startRequest", TRUE)
      /\ Step(w, "run")
      /\ UNCHANGED <<journal, fence, box, wire>>

SendStart(w) == Send(w, "run", "start", "running")

StartDone(w) ==
  /\ At(w, "launch", "running")
  /\ Done(w, "start")
  /\ Step(w, "observe")
  /\ UNCHANGED <<journal, disk, fence, box, wire>>

\* One round of the readiness loop: the start is bound before it is probed.
Observe(w) ==
  LET a == Target(w)
  IN  /\ At(w, "launch", "observe")
      /\ disk[a].firstStart \in {0, box[a].start}
      /\ Write(a, "firstStart", box[a].start)
      /\ \/ box[a].state = "running" /\ Step(w, "probe") /\ UNCHANGED fence
         \/ box[a].state # "running" /\ Quit(w)
      /\ UNCHANGED <<journal, box, wire>>

\* The probe answers and the container still runs as it did.
Ready(w) ==
  LET a == Target(w)
  IN  /\ At(w, "launch", "probe")
      /\ box[a].state = "running"
      /\ box[a].start = disk[a].firstStart
      /\ Step(w, "publish")
      /\ UNCHANGED <<journal, disk, fence, box, wire>>

\* The receipt names the container and the start that the files bind.
PublishLaunch(w) ==
  LET a == Target(w)
  IN  /\ At(w, "launch", "publish")
      /\ Runs("launch", a)
      /\ journal' = [journal EXCEPT !["launch"] = StageCompleted(@)]
      /\ Quit(w)
      /\ UNCHANGED <<disk, box, wire>>

-----------------------------------------------------------------------------
(* abort_runtime_stage *)

ReadAbort(w) ==
  LET a == journal["launch"].attempt
  IN  /\ worker[w].pc = "idle"
      /\ Incomplete(a)
      /\ worker' = [worker EXCEPT ![w] =
                     [Idle EXCEPT !.op = "abort", !.pc = "enter", !.target = a]]
      /\ UNCHANGED <<journal, disk, fence, box, wire>>

\* Fault: the launch is not read again once the fence is held.
AbortableAnyway(a) == TRUE

Abortable(a) == Incomplete(a)

EnterAbort(w) ==
  LET a == Target(w)
  IN  /\ At(w, "abort", "enter")
      /\ fence[a] = None
      /\ Abortable(a)
      /\ fence' = [fence EXCEPT ![a] = w]
      /\ worker' = [worker EXCEPT ![w].pc = "declare",
                                  ![w].seen = IF journal["launch"].status = "failed"
                                              THEN journal["launch"].error ELSE "running"]
      /\ UNCHANGED <<journal, disk, box, wire>>

\* The stage is declared for this attempt and no other; one that has been
\* started, by whomever, is joined.
DeclareAbort(w) ==
  LET row == Declared("abort", Target(w))
  IN  /\ At(w, "abort", "declare")
      /\ row.input = Target(w)
      /\ journal' = [journal EXCEPT !["abort"] = row]
      /\ worker' = [worker EXCEPT ![w].own = row.attempt,
                                  ![w].pc = IF Joinable(row) THEN "intent" ELSE "start"]
      /\ UNCHANGED <<disk, fence, box, wire>>

RecordIntent(w) ==
  /\ At(w, "abort", "intent")
  /\ Write(Target(w), "intent", TRUE)
  /\ Step(w, "reconcile")
  /\ UNCHANGED <<journal, fence, box, wire>>

\* The launch was aborted before: its container has to be gone.
ReplayAbort(w) ==
  /\ At(w, "abort", "reconcile")
  /\ worker[w].seen = "aborted"
  /\ Step(w, "absent")
  /\ UNCHANGED <<journal, disk, fence, box, wire>>

\* Fault: an absent container was never created.
NeverUnacknowledged(a) == FALSE

Unacknowledged(a) == disk[a].createRequest /\ ~disk[a].createComplete

\* reconcile_container where there is no container,
ReconcileAbsent(w) ==
  LET a == Target(w)
  IN  /\ At(w, "abort", "reconcile")
      /\ worker[w].seen = "running"
      /\ ~Found(a)
      /\ disk[a].allocation # 0 \/ ~Unacknowledged(a)
      /\ Step(w, "absent")
      /\ UNCHANGED <<journal, disk, fence, box, wire>>

\* The container is in its first start, or has none that may come.
FirstStart(a) ==
  IF disk[a].firstStart = 0
  THEN ~disk[a].startRequest /\ box[a].state = "created"
  ELSE disk[a].firstStart = box[a].start

\* ... and where there is one.
ReconcileFound(w) ==
  LET a == Target(w)
  IN  /\ At(w, "abort", "reconcile")
      /\ worker[w].seen = "running"
      /\ Found(a)
      /\ disk[a].allocation \in {0, box[a].id}
      /\ FirstStart(a)
      /\ Write(a, "allocation", box[a].id)
      /\ Step(w, IF box[a].state = "running" THEN "halt" ELSE "check")
      /\ UNCHANGED <<journal, fence, box, wire>>

VerifyAbsent(w) ==
  /\ At(w, "abort", "absent")
  /\ ~Found(Target(w))
  /\ Step(w, IF worker[w].seen = "running" THEN "fail" ELSE "finish")
  /\ UNCHANGED <<journal, disk, fence, box, wire>>

FailLaunch(w) ==
  /\ At(w, "abort", "fail")
  /\ Runs("launch", Target(w))
  /\ journal' = [journal EXCEPT !["launch"] = StageFailed(@, "aborted")]
  /\ Step(w, "finish")
  /\ UNCHANGED <<disk, fence, box, wire>>

\* The stage is completed, by this attempt or by one that shares it.
FinishStage(w, s) ==
  LET n == worker[w].own
  IN  /\ At(w, s, "finish")
      /\ \/ /\ Runs(s, n)
            /\ journal' = [journal EXCEPT ![s] = StageCompleted(@)]
         \/ /\ journal[s].status = "completed"
            /\ journal[s].attempt = n
            /\ UNCHANGED journal
      /\ Quit(w)
      /\ UNCHANGED <<disk, box, wire>>

-----------------------------------------------------------------------------
(* stop_runtime_stage, which takes no fence *)

DeclareStop(w) ==
  LET a == journal["launch"].attempt
      row == Declared("stop", a)
  IN  /\ worker[w].pc = "idle"
      /\ journal["launch"].status = "completed"
      /\ row.input = a
      /\ journal' = [journal EXCEPT !["stop"] = row]
      /\ worker' = [worker EXCEPT ![w] =
                     [Idle EXCEPT !.op = "stop", !.target = a, !.own = row.attempt,
                                  !.pc = IF Joinable(row) THEN "lookup" ELSE "start"]]
      /\ UNCHANGED <<disk, fence, box, wire>>

\* Fault: a container that does not run needs no cleanup.
LookupStopped(w) ==
  /\ At(w, "stop", "lookup")
  /\ box[Target(w)].state # "running"
  /\ Step(w, "finish")
  /\ UNCHANGED <<journal, disk, fence, box, wire>>

LookupAbsent(w) ==
  /\ At(w, "stop", "lookup")
  /\ ~Found(Target(w))
  /\ Step(w, "finish")
  /\ UNCHANGED <<journal, disk, fence, box, wire>>

LookupFound(w) ==
  LET a == Target(w)
  IN  /\ At(w, "stop", "lookup")
      /\ Found(a)
      /\ box[a].id = disk[a].allocation
      /\ box[a].start = disk[a].firstStart
      /\ Step(w, IF box[a].state = "running" THEN "halt" ELSE "check")
      /\ UNCHANGED <<journal, disk, fence, box, wire>>

-----------------------------------------------------------------------------
(* Stop and removal, of an abort and of a stop alike *)

SendStop(w) == Send(w, "halt", "stop", "halting")

StopDone(w) ==
  /\ worker[w].pc = "halting"
  /\ Done(w, "stop")
  /\ Step(w, "check")
  /\ UNCHANGED <<journal, disk, fence, box, wire>>

\* The container is inspected again before it is removed.
CheckStopped(w) ==
  /\ worker[w].pc = "check"
  /\ box[Target(w)].state \in {"created", "exited"}
  /\ worker[w].op = "abort" => box[Target(w)].start = disk[Target(w)].firstStart
  /\ Step(w, "remove")
  /\ UNCHANGED <<journal, disk, fence, box, wire>>

SendRemove(w) == Send(w, "remove", "rm", "removing")

RemoveDone(w) ==
  /\ worker[w].pc = "removing"
  /\ Done(w, "rm")
  /\ Step(w, IF worker[w].op = "abort" THEN "absent" ELSE "finish")
  /\ UNCHANGED <<journal, disk, fence, box, wire>>

-----------------------------------------------------------------------------
(* The daemon *)

Execute(m) ==
  /\ Effective(m)
  /\ box' = [box EXCEPT ![m.attempt] = Effect(m)]
  /\ wire' = wire \ {m}
  /\ UNCHANGED <<journal, disk, fence, worker>>

\* The request fails, or was never accepted: its client was killed first.
Refuse(m) ==
  /\ wire' = wire \ {m}
  /\ IF Awaits(m.by, m) THEN Quit(m.by) ELSE UNCHANGED <<worker, fence>>
  /\ UNCHANGED <<journal, disk, box>>

\* The process in the container ends by itself.
Exit(a) ==
  /\ box[a].state = "running"
  /\ box' = [box EXCEPT ![a].state = "exited"]
  /\ UNCHANGED <<journal, disk, fence, wire, worker>>

-----------------------------------------------------------------------------
Init ==
  /\ journal = [s \in Stages |-> Undeclared]
  /\ disk = [a \in Attempts |-> NoFiles]
  /\ fence = [a \in Attempts |-> None]
  /\ box = [a \in Attempts |-> NoBox]
  /\ wire = {}
  /\ worker = [w \in Workers |-> Idle]

StartStep(w) ==
  StartStage(w) \/ CancelStart(w) \/ FailAfterDrain(w)

LaunchStep(w) ==
  \/ ReadLaunch(w) \/ EnterLaunch(w) \/ RequestCreate(w) \/ SendCreate(w)
  \/ CreateDone(w) \/ Adopt(w) \/ RequestStart(w) \/ SendStart(w)
  \/ StartDone(w) \/ Observe(w) \/ Ready(w) \/ PublishLaunch(w)

AbortStep(w) ==
  \/ ReadAbort(w) \/ EnterAbort(w) \/ DeclareAbort(w) \/ RecordIntent(w)
  \/ ReplayAbort(w) \/ ReconcileAbsent(w) \/ ReconcileFound(w)
  \/ VerifyAbsent(w) \/ FailLaunch(w) \/ FinishStage(w, "abort")

StopStep(w) ==
  \/ DeclareStop(w) \/ LookupAbsent(w) \/ LookupFound(w) \/ FinishStage(w, "stop")

RemoveStep(w) ==
  SendStop(w) \/ StopDone(w) \/ CheckStopped(w) \/ SendRemove(w) \/ RemoveDone(w)

Next ==
  \/ \E w \in Workers :
       StartStep(w) \/ LaunchStep(w) \/ AbortStep(w) \/ StopStep(w)
         \/ RemoveStep(w) \/ Leave(w)
  \/ \E m \in wire : Execute(m) \/ Refuse(m)
  \/ \E a \in Attempts : Exit(a)

Spec == Init /\ [][Next]_vars

-----------------------------------------------------------------------------
(* Properties *)

CompletedLaunch(a) ==
  journal["launch"].status = "completed" /\ journal["launch"].attempt = a

AbortedLaunch(a) ==
  \/ journal["launch"].error = "aborted" /\ journal["launch"].attempt = a
  \/ journal["abort"].status = "completed" /\ journal["abort"].input = a

\* No container, and none that could still come or start.
Gone(a) == ~Found(a) /\ NonePending({"create", "start"}, a)

\* A deterministic name permits reconciliation without starting an untracked
\* replacement: however often launches are killed and repeated, an attempt is
\* given one container and one start, those still under way included.
OneContainer ==
  \A a \in Attempts :
    /\ box[a].id <= 1 /\ box[a].start <= 1
    /\ \A m, n \in wire :
         /\ Sent(m, {"create"}, a) /\ Sent(n, {"create"}, a) => m = n /\ box[a].id = 0
         /\ Sent(m, {"start"}, a) /\ Sent(n, {"start"}, a) => m = n /\ box[a].start = 0

\* RuntimeAborted is a claim of terminal absence: nothing of the attempt is
\* left, and nothing the daemon has accepted can bring it back.
AbortedIsGone == \A a \in Attempts : AbortedLaunch(a) => Gone(a)

\* A completed launch is never torn down by an abort that raced with it or
\* crashed before it: without a stop stage its container is there, and no
\* stop or removal is under way.
OnlyStopRemoves ==
  \A a \in Attempts :
    CompletedLaunch(a) /\ journal["stop"].attempt = 0
      => Found(a) /\ NonePending({"stop", "rm"}, a)

\* The receipt of a stop stage, which takes no fence and may be published by
\* one of several executions, says that the container is gone.
StoppedIsGone ==
  \A a \in Attempts :
    journal["stop"].status = "completed" /\ journal["stop"].input = a => Gone(a)

\* The durable intent to abort permanently blocks the attempt: from then on,
\* whoever dies, it is never created or started again.
IntentBlocks ==
  [][\A a \in Attempts :
       disk[a].intent =>
         \A m \in wire' : Sent(m, {"create", "start"}, a) => m \in wire]_vars

\* A failed attempt is one whose work is drained or reconciled: only then is
\* another attempt allowed.  The code breaks it: an attempt whose owner is
\* cancelled may have been taken over before the owner records its failure.
FailedIsDrained ==
  \A a \in Attempts :
    journal["launch"].status = "failed" /\ journal["launch"].attempt = a => Gone(a)

\* An attempt is there when the daemon has its container, and has gone when that
\* was removed, or can no longer be created.
Standing(a) ==
  IF Found(a) THEN "there"
  ELSE IF box[a].id > 0 \/ (disk[a].intent /\ NonePending({"create"}, a)) THEN "gone"
  ELSE "off"

\* Launch, abort and stop together keep the promise of Lifetime for every attempt.
Contract == INSTANCE Lifetime WITH
  Runtimes <- Attempts,
  life <- [a \in Attempts |-> Standing(a)],
  ending <- {a \in Attempts :
               disk[a].intent \/ (CompletedLaunch(a) /\ journal["stop"].attempt > 0)},
  launched <- {a \in Attempts : CompletedLaunch(a)},
  ended <- {a \in Attempts : \E s \in {"abort", "stop"} :
              journal[s].status = "completed" /\ journal[s].input = a}

KeepsLifetime == Contract!Spec
=============================================================================
