-------------------------- MODULE ManagedRuntimeProofs --------------------------
(***************************************************************************)
(* The managed runtime keeps its promises for any number of executions and *)
(* attempts.  The invariant IInv says who may be inside an attempt         *)
(* directory, what the files there say about the daemon, and which         *)
(* requests may still be on the wire when an operation draws a conclusion. *)
(***************************************************************************)
EXTENDS ManagedRuntime, TLAPS

-----------------------------------------------------------------------------
(* The inductive invariant *)

NoCreate(a) == NonePending({"create"}, a)
NoStart(a) == NonePending({"start"}, a)
Quiet(a) == NonePending({"create", "start"}, a)

\* The container has been found and bound, and has been started.
BoundPc == {"request", "run", "running", "observe", "probe", "publish"}
StartedPc == {"observe", "probe", "publish"}
\* The intent to abort has been recorded.
IntentPc == {"reconcile", "absent", "fail", "finish"} \cup RemovePc

JournalOK ==
  /\ \A s \in Stages :
       journal[s].status \in {"absent", "planned"} <=> journal[s].attempt = 0
  /\ journal["launch"].error = "aborted" => journal["launch"].status = "failed"
  /\ journal["stop"].status # "absent" => CompletedLaunch(journal["stop"].input)

\* What the files of an attempt and the daemon know of each other.
FilesInv(a) ==
  /\ Found(a) => box[a].id = 1
  /\ box[a].state = "running" => box[a].start = 1
  /\ disk[a].createRequest \/ (box[a].id = 0 /\ NoCreate(a))
  /\ disk[a].createComplete => box[a].id = 1
  /\ disk[a].allocation \in {0, box[a].id}
  /\ disk[a].startRequest => disk[a].allocation = 1
  /\ disk[a].startRequest \/ (box[a].start = 0 /\ NoStart(a))
  /\ disk[a].firstStart \in {0, box[a].start}
  /\ ~Found(a) /\ box[a].id = 1 => Quiet(a)

\* Who may have the container of attempt a stopped and removed.
MayRemove(a) ==
  disk[a].intent \/ (CompletedLaunch(a) /\ journal["stop"].attempt > 0)

\* OneContainer, for a.
Single(a) ==
  /\ box[a].id <= 1 /\ box[a].start <= 1
  /\ \A m, n \in wire :
       /\ Sent(m, {"create"}, a) /\ Sent(n, {"create"}, a) => m = n /\ box[a].id = 0
       /\ Sent(m, {"start"}, a) /\ Sent(n, {"start"}, a) => m = n /\ box[a].start = 0

RemovalInv(a) ==
  \A m \in wire : Sent(m, {"stop", "rm"}, a) => Quiet(a) /\ MayRemove(a)

OutcomeInv(a) ==
  /\ CompletedLaunch(a) =>
       /\ ~disk[a].intent
       /\ box[a].id = 1
       /\ Quiet(a)
       /\ journal["stop"].attempt = 0 => Found(a)
  /\ AbortedLaunch(a) => Gone(a) /\ disk[a].intent
  /\ journal["stop"].status = "completed" /\ journal["stop"].input = a => Gone(a)

AttemptInv(a) == FilesInv(a) /\ Single(a) /\ RemovalInv(a) /\ OutcomeInv(a)

Shape(w) ==
  /\ worker[w].pc = "idle" <=> worker[w].op = "none"
  /\ worker[w].pc \in LaunchPc => worker[w].op = "launch"
  /\ worker[w].pc \in AbortPc => worker[w].op = "abort"
  /\ worker[w].pc \in RemovePc \cup {"finish"} => worker[w].op \in {"abort", "stop"}
  /\ worker[w].pc = "lookup" => worker[w].op = "stop"
  /\ worker[w].pc = "enter" => worker[w].op \in {"launch", "abort"}
  /\ worker[w].op \in {"abort", "stop"} => Target(w) \in Attempts
  /\ worker[w].pc \in LaunchPc \cup {"cancelled", "enter"}
       => Target(w) \in Attempts

Holds(w) ==
  \/ worker[w].pc \in LaunchPc
  \/ worker[w].op = "abort" /\ worker[w].pc # "enter"

Fenced(w) == Holds(w) => fence[Target(w)] = w

LaunchInv(w) ==
  LET a == Target(w)
  IN  worker[w].pc \in LaunchPc =>
        /\ ~disk[a].intent
        /\ ~CompletedLaunch(a)
        /\ worker[w].pc = "create" =>
             disk[a].createRequest /\ box[a].id = 0 /\ NoCreate(a)
        /\ worker[w].pc = "creating" =>
             /\ \A m \in wire : Sent(m, {"create"}, a) => m.by = w
             /\ NoCreate(a) => box[a].id = 1
        /\ worker[w].pc \in BoundPc => Found(a) /\ disk[a].allocation = 1
        /\ worker[w].pc = "run" =>
             disk[a].startRequest /\ box[a].start = 0 /\ NoStart(a)
        /\ worker[w].pc = "running" =>
             /\ \A m \in wire : Sent(m, {"start"}, a) => m.by = w
             /\ NoStart(a) => box[a].start = 1
        /\ worker[w].pc \in StartedPc => box[a].start = 1

AbortInv(w) ==
  LET a == Target(w)
  IN  worker[w].op = "abort" /\ worker[w].pc # "enter" =>
        /\ ~CompletedLaunch(a)
        /\ worker[w].pc \in IntentPc => disk[a].intent
        /\ worker[w].pc # "declare" =>
             journal["abort"].status # "absent" /\ journal["abort"].input = a
        /\ worker[w].seen = "aborted" => Gone(a) /\ disk[a].intent
        /\ worker[w].pc = "absent" => Quiet(a)
        /\ worker[w].pc \in {"fail", "finish"} => Gone(a)

RemoveInv(w) ==
  LET a == Target(w)
  IN  worker[w].pc \in RemovePc =>
        /\ Quiet(a)
        /\ MayRemove(a)
        /\ worker[w].pc = "removing" /\ Done(w, "rm") => ~Found(a)

StopInv(w) ==
  LET a == Target(w)
  IN  worker[w].op = "stop" =>
        /\ CompletedLaunch(a)
        /\ journal["stop"].status # "absent" /\ journal["stop"].input = a
        /\ worker[w].pc # "start" => journal["stop"].attempt > 0
        /\ worker[w].pc = "finish" => Gone(a)

WorkerInv(w) ==
  Shape(w) /\ Fenced(w) /\ LaunchInv(w) /\ AbortInv(w) /\ RemoveInv(w) /\ StopInv(w)

IInv ==
  /\ TypeOK
  /\ JournalOK
  /\ \A a \in Attempts : AttemptInv(a)
  /\ \A w \in Workers : WorkerInv(w)

-----------------------------------------------------------------------------
(* Types: what the helpers return, and each operation leaves behind *)

LEMMA RowTypes ==
  ASSUME NEW row \in Row
  PROVE  /\ Startable(row) => StageStarted(row) \in Row
         /\ \A e \in {"none", "cancelled", "aborted"} : StageFailed(row, e) \in Row
         /\ StageCompleted(row) \in Row
<1> USE RuntimeAssumption
<1>1. Startable(row) => StageStarted(row) \in Row
  <2> SUFFICES ASSUME Startable(row)  PROVE StageStarted(row) \in Row
    OBVIOUS
  <2>1. row.attempt + 1 \in 0 .. MaxAttempts
    BY DEF Row, Startable
  <2>2. \A n \in 0 .. MaxAttempts :
          [row EXCEPT !.status = "running", !.attempt = n, !.error = "none"] \in Row
    BY DEF Row
  <2> QED
    BY <2>1, <2>2 DEF StageStarted
<1>2. ASSUME NEW e \in {"none", "cancelled", "aborted"}
      PROVE  StageFailed(row, e) \in Row
  BY DEF Row, StageFailed
<1>3. StageCompleted(row) \in Row
  BY DEF Row, StageCompleted
<1> QED
  BY <1>1, <1>2, <1>3

LEMMA DeclaredType ==
  ASSUME TypeOK, NEW s \in Stages, NEW a \in 0 .. MaxAttempts
  PROVE  Declared(s, a) \in Row
<1>1. journal[s] \in Row
  BY DEF TypeOK
<1>2. Undeclared \in Row
  BY RuntimeAssumption DEF Row, Undeclared
<1>3. [Undeclared EXCEPT !.status = "planned", !.input = a] \in Row
  BY <1>2 DEF Row
<1> QED
  BY <1>1, <1>3 DEF Declared

LEMMA IdleType == Idle \in Execution
BY RuntimeAssumption DEF Idle, Execution, Pc

LEMMA QuitType ==
  ASSUME TypeOK, NEW w \in Workers, Quit(w)
  PROVE  worker' \in [Workers -> Execution] /\ fence' \in [Attempts -> Workers \cup {None}]
BY IdleType DEF TypeOK, Quit

\* Moving on to the next step.
LEMMA StepType ==
  ASSUME TypeOK, NEW w \in Workers, NEW pc \in Pc, Step(w, pc)
  PROVE  worker' \in [Workers -> Execution]
<1>1. worker[w] \in Execution
  BY DEF TypeOK
<1>2. [worker[w] EXCEPT !.pc = pc] \in Execution
  BY <1>1 DEF Execution
<1>3. worker' = [worker EXCEPT ![w] = [worker[w] EXCEPT !.pc = pc]]
  BY DEF Step, TypeOK
<1> QED
  BY <1>2, <1>3 DEF TypeOK

LEMMA WriteTypes ==
  ASSUME TypeOK, NEW a \in Attempts,
         \/ \E f \in {"createRequest", "createComplete", "startRequest", "intent"} :
              Write(a, f, TRUE)
         \/ \E f \in {"allocation", "firstStart"}, n \in Nat : Write(a, f, n)
  PROVE  disk' \in [Attempts -> Files]
<1>1. disk[a] \in Files
  BY DEF TypeOK
<1>2. \E x \in Files : disk' = [disk EXCEPT ![a] = x]
  <2>1. CASE \E f \in {"createRequest", "createComplete", "startRequest", "intent"} :
               Write(a, f, TRUE)
    BY <1>1, <2>1 DEF Write, Files, TypeOK
  <2>2. CASE \E f \in {"allocation", "firstStart"}, n \in Nat : Write(a, f, n)
    BY <1>1, <2>2 DEF Write, Files, TypeOK
  <2> QED
    BY <2>1, <2>2
<1> QED
  BY <1>2 DEF TypeOK

LEMMA EffectType ==
  ASSUME TypeOK, NEW m \in wire
  PROVE  Effect(m) \in Container /\ m.attempt \in Attempts /\ m.by \in Workers
<1>1. m \in Message /\ m.attempt \in Attempts /\ m.cmd \in Commands /\ m.by \in Workers
  BY DEF TypeOK, Message
<1>2. box[m.attempt] \in Container
  BY <1>1 DEF TypeOK
<1> DEFINE b == box[m.attempt]
<1>3. b.id + 1 \in Nat /\ b.start + 1 \in Nat
  BY <1>2 DEF Container
<1>4. \A n \in Nat : /\ [b EXCEPT !.state = "created", !.id = n] \in Container
                      /\ [b EXCEPT !.state = "running", !.start = n] \in Container
  BY <1>2 DEF Container
<1>5. [b EXCEPT !.state = "created", !.id = @ + 1] \in Container
  BY <1>3, <1>4
<1>6. [b EXCEPT !.state = "running", !.start = @ + 1] \in Container
  BY <1>3, <1>4
<1>7. [b EXCEPT !.state = IF @ = "running" THEN "exited" ELSE @] \in Container
  BY <1>2 DEF Container
<1>8. [b EXCEPT !.state = "absent"] \in Container
  BY <1>2 DEF Container
<1> QED
  BY <1>1, <1>5, <1>6, <1>7, <1>8 DEF Effect, Commands

\* A request names an attempt and its author.
LEMMA SendType ==
  ASSUME TypeOK, NEW w \in Workers, Target(w) \in Attempts,
         NEW cmd \in Commands, NEW from, NEW to \in Pc, Send(w, from, cmd, to)
  PROVE  TypeOK'
<1>1. disk[Target(w)].allocation \in Nat
  BY DEF TypeOK, Files
<1>2. Request(w, cmd) \in Message
  BY <1>1 DEF Request, Message, Target
<1>3. worker' \in [Workers -> Execution]
  BY StepType DEF Send
<1> QED
  BY <1>2, <1>3 DEF Send, TypeOK

\* The steps of a worker that change nothing else keep its type.
LEMMA TypeMoves ==
  ASSUME TypeOK, NEW w \in Workers,
         \/ StartDone(w) \/ Ready(w) \/ ReplayAbort(w) \/ ReconcileAbsent(w)
         \/ VerifyAbsent(w) \/ LookupAbsent(w) \/ LookupFound(w) \/ StopDone(w)
         \/ CheckStopped(w) \/ RemoveDone(w)
  PROVE  TypeOK'
<1> USE DEF Pc, StartPc, LaunchPc, AbortPc, RemovePc
<1>1. \E pc \in Pc : Step(w, pc)
  BY DEF StartDone, Ready, ReplayAbort, ReconcileAbsent, VerifyAbsent, LookupAbsent, LookupFound, StopDone, CheckStopped, RemoveDone
<1>2. worker' \in [Workers -> Execution]
  BY <1>1, StepType
<1>3. UNCHANGED <<journal, disk, fence, box, wire>>
  BY DEF StartDone, Ready, ReplayAbort, ReconcileAbsent, VerifyAbsent, LookupAbsent, LookupFound, StopDone, CheckStopped, RemoveDone
<1> QED
  BY <1>2, <1>3 DEF TypeOK

\* The files an operation writes.
LEMMA TypeWrites ==
  ASSUME TypeOK, NEW w \in Workers, Target(w) \in Attempts,
         \/ RequestCreate(w) \/ CreateDone(w) \/ Adopt(w) \/ RequestStart(w)
         \/ Observe(w) \/ RecordIntent(w) \/ ReconcileFound(w)
  PROVE  TypeOK'
<1> DEFINE a == Target(w)
<1>1. box[a].id \in Nat /\ box[a].start \in Nat
  BY DEF TypeOK, Container
<1>2. disk' \in [Attempts -> Files]
  BY <1>1, WriteTypes
     DEF RequestCreate, CreateDone, Adopt, RequestStart, Observe, RecordIntent, ReconcileFound
<1>3. (\E pc \in Pc : Step(w, pc) /\ UNCHANGED fence) \/ Quit(w)
  <2> USE DEF Pc, LaunchPc, AbortPc, RemovePc
  <2>1. CASE RequestCreate(w) \/ CreateDone(w) \/ RequestStart(w) \/ RecordIntent(w)
    BY <2>1 DEF RequestCreate, CreateDone, RequestStart, RecordIntent
  <2>2. CASE Adopt(w)
    BY <2>2 DEF Adopt
  <2>3. CASE Observe(w)
    BY <2>3 DEF Observe
  <2>4. CASE ReconcileFound(w)
    BY <2>4 DEF ReconcileFound
  <2> QED
    BY <2>1, <2>2, <2>3, <2>4
<1>4. worker' \in [Workers -> Execution] /\ fence' \in [Attempts -> Workers \cup {None}]
  BY <1>3, StepType, QuitType DEF TypeOK
<1> QED
  BY <1>2, <1>4 DEF TypeOK, RequestCreate, CreateDone, Adopt, RequestStart, Observe,
                    RecordIntent, ReconcileFound

LEMMA TypeDaemon ==
  ASSUME TypeOK,
         \/ \E m \in wire : Execute(m) \/ Refuse(m)
         \/ \E a \in Attempts : Exit(a)
  PROVE  TypeOK'
<1>1. ASSUME NEW m \in wire, Execute(m)  PROVE TypeOK'
  <2>1. box' \in [Attempts -> Container]
    BY <1>1, EffectType DEF Execute, TypeOK
  <2> QED
    BY <1>1, <2>1 DEF Execute, TypeOK
<1>2. ASSUME NEW m \in wire, Refuse(m)  PROVE TypeOK'
  <2>1. m.by \in Workers
    BY EffectType
  <2>2. worker' \in [Workers -> Execution] /\ fence' \in [Attempts -> Workers \cup {None}]
    BY <1>2, <2>1, QuitType DEF Refuse, TypeOK
  <2> QED
    BY <1>2, <2>2 DEF Refuse, TypeOK
<1>3. ASSUME NEW a \in Attempts, Exit(a)  PROVE TypeOK'
  <2>1. box[a] \in Container
    BY DEF TypeOK
  <2>2. [box[a] EXCEPT !.state = "exited"] \in Container
    BY <2>1 DEF Container
  <2>3. box' = [box EXCEPT ![a] = [box[a] EXCEPT !.state = "exited"]]
    BY <1>3 DEF Exit, TypeOK
  <2>4. box' \in [Attempts -> Container]
    BY <2>2, <2>3 DEF TypeOK
  <2> QED
    BY <1>3, <2>4 DEF Exit, TypeOK
<1> QED
  BY <1>1, <1>2, <1>3

LEMMA TypeEnds ==
  ASSUME TypeOK, NEW w \in Workers,
         \/ Leave(w) \/ FailAfterDrain(w) \/ PublishLaunch(w) \/ FailLaunch(w)
         \/ \E s \in {"abort", "stop"} : FinishStage(w, s)
  PROVE  TypeOK'
<1>1. \A s \in Stages : journal[s] \in Row
  BY DEF TypeOK
<1>2. worker' \in [Workers -> Execution] /\ fence' \in [Attempts -> Workers \cup {None}]
  <2>1. CASE FailLaunch(w)
    BY <2>1, StepType DEF FailLaunch, Pc, TypeOK
  <2>2. CASE ~FailLaunch(w)
    <3>1. Quit(w)
      BY <2>2 DEF Leave, FailAfterDrain, PublishLaunch, FinishStage
    <3> QED
      BY <3>1, QuitType
  <2> QED
    BY <2>1, <2>2
<1>3. journal' \in [Stages -> Row]
  <2>1. CASE FailAfterDrain(w)
    <3>1. worker[w].op \in Stages => StageFailed(journal[worker[w].op], "cancelled") \in Row
      BY <1>1, RowTypes
    <3> QED
      BY <2>1, <3>1 DEF FailAfterDrain, TypeOK
  <2>2. CASE PublishLaunch(w)
    BY <1>1, <2>2, RowTypes DEF PublishLaunch, TypeOK, Stages
  <2>3. CASE FailLaunch(w)
    BY <1>1, <2>3, RowTypes DEF FailLaunch, TypeOK, Stages
  <2>4. CASE \E s \in {"abort", "stop"} : FinishStage(w, s)
    BY <1>1, <2>4, RowTypes DEF FinishStage, TypeOK, Stages
  <2>5. CASE Leave(w)
    BY <2>5 DEF Leave, TypeOK
  <2> QED
    BY <2>1, <2>2, <2>3, <2>4, <2>5
<1> QED
  BY <1>2, <1>3 DEF TypeOK, Leave, FailAfterDrain, PublishLaunch, FailLaunch,
                          FinishStage

LEMMA TypeStarts ==
  ASSUME TypeOK, NEW w \in Workers, Shape(w),
         \/ StartStage(w) \/ CancelStart(w) \/ ReadLaunch(w) \/ EnterLaunch(w) \/ ReadAbort(w)
         \/ EnterAbort(w) \/ DeclareAbort(w) \/ DeclareStop(w)
  PROVE  TypeOK'
<1> USE RuntimeAssumption
<1>1. /\ \A s \in Stages : journal[s] \in Row
      /\ worker[w] \in Execution
      /\ "launch" \in Stages /\ "abort" \in Stages /\ "stop" \in Stages
  BY DEF TypeOK, Stages
<1>2. CASE StartStage(w) \/ CancelStart(w)
  <2> DEFINE s == worker[w].op
             n == journal[s].attempt + 1
  <2>1. s \in Stages
    BY <1>1, <1>2 DEF StartStage, CancelStart, NewAttempt, Shape, Execution
  <2>2. \E pc \in Pc : NewAttempt(w, pc)
    BY <1>2, <2>1 DEF StartStage, CancelStart, Pc, StartPc, AbortPc, Stages
  <2>3. PICK pc \in Pc : NewAttempt(w, pc)
    BY <2>2
  <2>4. StageStarted(journal[s]) \in Row /\ n \in 0 .. MaxAttempts
    <3>1. StageStarted(journal[s]) \in Row
      BY <1>1, <2>1, <2>3, RowTypes DEF NewAttempt
    <3> QED
      BY <1>1, <2>1, <2>3, <3>1 DEF NewAttempt, Startable, Row
  <2>5. worker' \in [Workers -> Execution]
    <3> DEFINE t == IF s = "launch" THEN n ELSE worker[w].target
    <3>1. t \in 0 .. MaxAttempts
      BY <1>1, <2>4 DEF Execution
    <3>2. [worker[w] EXCEPT !.pc = pc, !.own = n, !.target = t] \in Execution
      BY <1>1, <2>4, <3>1 DEF Execution
    <3>3. worker' = [worker EXCEPT ![w] =
                       [worker[w] EXCEPT !.pc = pc, !.own = n, !.target = t]]
      BY <2>3 DEF NewAttempt, TypeOK
    <3> QED
      BY <3>2, <3>3 DEF TypeOK
  <2> QED
    BY <2>1, <2>3, <2>4, <2>5 DEF NewAttempt, TypeOK
<1>3. CASE ReadLaunch(w)
  <2>1. Declared("launch", 0) \in Row
    BY <1>1, DeclaredType
  <2>2. worker' \in [Workers -> Execution]
    <3>1. \A x \in Execution, n \in 0 .. MaxAttempts :
            [x EXCEPT !.op = "launch", !.pc = "enter", !.target = n, !.own = n] \in Execution
      BY DEF Execution, Pc, Stages
    <3>2. \A x \in Execution : [x EXCEPT !.op = "launch", !.pc = "start"] \in Execution
      BY DEF Execution, Pc, StartPc, Stages
    <3>3. Declared("launch", 0).attempt \in 0 .. MaxAttempts
      BY <2>1 DEF Row
    <3> QED
      BY <1>3, <3>1, <3>3, <3>2, IdleType DEF ReadLaunch, TypeOK
  <2> QED
    BY <1>1, <1>3, <2>1, <2>2 DEF ReadLaunch, TypeOK
<1>4. CASE EnterLaunch(w)
  <2>1. worker' \in [Workers -> Execution]
    BY <1>4, StepType DEF EnterLaunch, Pc, LaunchPc
  <2> QED
    BY <1>4, <2>1 DEF EnterLaunch, TypeOK
<1>5. CASE ReadAbort(w)
  <2>1. journal["launch"].attempt \in 0 .. MaxAttempts
    BY <1>1 DEF Row
  <2>2. \A x \in Execution, n \in 0 .. MaxAttempts :
          [x EXCEPT !.op = "abort", !.pc = "enter", !.target = n] \in Execution
    BY DEF Execution, Pc, Stages
  <2> QED
    BY <1>5, <2>1, <2>2, IdleType DEF ReadAbort, TypeOK
<1>6. CASE EnterAbort(w)
  <2>1. journal["launch"].error \in {"none", "cancelled", "aborted"}
    BY <1>1 DEF Row
  <2>2. \A e \in {"none", "running", "cancelled", "aborted"} :
          [worker[w] EXCEPT !.pc = "declare", !.seen = e] \in Execution
    BY <1>1 DEF Execution, Pc, AbortPc
  <2>3. \E e \in {"none", "running", "cancelled", "aborted"} :
          worker' = [worker EXCEPT ![w] = [worker[w] EXCEPT !.pc = "declare", !.seen = e]]
    BY <1>6, <2>1 DEF EnterAbort, TypeOK
  <2>4. worker' \in [Workers -> Execution]
    <3>1. PICK e \in {"none", "running", "cancelled", "aborted"} :
            worker' = [worker EXCEPT ![w] = [worker[w] EXCEPT !.pc = "declare", !.seen = e]]
      BY <2>3
    <3>2. [worker[w] EXCEPT !.pc = "declare", !.seen = e] \in Execution
      BY <2>2
    <3> QED
      BY <3>1, <3>2 DEF TypeOK
  <2> QED
    BY <1>6, <2>4 DEF EnterAbort, TypeOK
<1>7. CASE DeclareAbort(w)
  <2>1. Declared("abort", Target(w)) \in Row
    BY <1>1, DeclaredType DEF Target, Execution
  <2>2. \A pc \in {"intent", "start"}, n \in 0 .. MaxAttempts :
          [worker[w] EXCEPT !.own = n, !.pc = pc] \in Execution
    BY <1>1 DEF Execution, Pc, AbortPc, StartPc
  <2>3. \E pc \in {"intent", "start"}, n \in 0 .. MaxAttempts :
          worker' = [worker EXCEPT ![w] = [worker[w] EXCEPT !.own = n, !.pc = pc]]
    BY <1>7, <2>1 DEF DeclareAbort, TypeOK, Row
  <2>4. worker' \in [Workers -> Execution]
    <3>1. PICK pc \in {"intent", "start"}, n \in 0 .. MaxAttempts :
            worker' = [worker EXCEPT ![w] = [worker[w] EXCEPT !.own = n, !.pc = pc]]
      BY <2>3
    <3>2. [worker[w] EXCEPT !.own = n, !.pc = pc] \in Execution
      BY <2>2
    <3> QED
      BY <3>1, <3>2 DEF TypeOK
  <2> QED
    BY <1>1, <1>7, <2>1, <2>4 DEF DeclareAbort, TypeOK
<1>8. CASE DeclareStop(w)
  <2> DEFINE a == journal["launch"].attempt
             row == Declared("stop", a)
  <2>1. a \in 0 .. MaxAttempts
    BY <1>1 DEF Row
  <2>2. row \in Row /\ row.attempt \in 0 .. MaxAttempts
    <3>1. row \in Row
      BY <1>1, <2>1, DeclaredType
    <3> QED
      BY <3>1 DEF Row
  <2>3. \A x \in Execution, t, n \in 0 .. MaxAttempts, pc \in {"lookup", "start"} :
          [x EXCEPT !.op = "stop", !.target = t, !.own = n, !.pc = pc] \in Execution
    BY DEF Execution, Pc, StartPc, Stages
  <2>4. \A pc \in {"lookup", "start"} :
          [Idle EXCEPT !.op = "stop", !.target = a, !.own = row.attempt, !.pc = pc]
            \in Execution
    BY <2>1, <2>2, <2>3, IdleType
  <2>5. worker' \in [Workers -> Execution]
    BY <1>8, <2>4 DEF DeclareStop, TypeOK
  <2> QED
    BY <1>1, <1>8, <2>2, <2>5 DEF DeclareStop, TypeOK
<1> QED
  BY <1>2, <1>3, <1>4, <1>5, <1>6, <1>7, <1>8

-----------------------------------------------------------------------------
(* What an operation leaves alone *)

\* Nothing of attempt a changes but the journal's rows.
SameAttempt(a) ==
  /\ disk'[a] = disk[a] /\ box'[a] = box[a]
  /\ \A m \in wire \cup wire' : m.attempt = a => (m \in wire' <=> m \in wire)

\* The other executions stay where they are and keep what they hold.
OthersKeep(w) ==
  \A v \in Workers \ {w} :
    /\ worker'[v] = worker[v]
    /\ \A a \in Attempts : fence[a] = v => fence'[a] = v

LEMMA Stepped ==
  ASSUME TypeOK, NEW w \in Workers, NEW pc, Step(w, pc)
  PROVE  /\ worker'[w].pc = pc
         /\ worker'[w].op = worker[w].op
         /\ worker'[w].target = worker[w].target
         /\ worker'[w].own = worker[w].own
         /\ worker'[w].seen = worker[w].seen
         /\ UNCHANGED fence => OthersKeep(w)
<1>1. worker[w] \in Execution
  BY DEF TypeOK
<1>2. worker' = [worker EXCEPT ![w] = [worker[w] EXCEPT !.pc = pc]]
  BY DEF Step, TypeOK
<1>3. worker'[w] = [worker[w] EXCEPT !.pc = pc]
  BY <1>2 DEF TypeOK
<1>4. OthersKeep(w) \/ ~UNCHANGED fence
  BY <1>2 DEF TypeOK, OthersKeep
<1> QED
  BY <1>1, <1>3, <1>4 DEF Execution

LEMMA Quitted ==
  ASSUME TypeOK, NEW w \in Workers, Quit(w)
  PROVE  WorkerInv(w)' /\ OthersKeep(w)
<1>1. worker'[w] = Idle
  BY DEF Quit, TypeOK
<1>2. worker'[w].op = "none" /\ worker'[w].pc = "idle"
  BY <1>1 DEF Idle
<1>3. WorkerInv(w)'
  BY <1>2 DEF WorkerInv, Shape, Holds, Fenced, LaunchInv, AbortInv, RemoveInv, StopInv,
              LaunchPc, AbortPc, RemovePc
<1>4. OthersKeep(w)
  BY DEF Quit, TypeOK, OthersKeep
<1> QED
  BY <1>3, <1>4

LEMMA Written ==
  ASSUME TypeOK, NEW a \in Attempts, NEW file, NEW content, Write(a, file, content),
         file \in {"createRequest", "createComplete", "allocation", "startRequest",
                   "firstStart", "intent"}
  PROVE  /\ disk'[a][file] = content
         /\ file # "createRequest" => disk'[a].createRequest = disk[a].createRequest
         /\ file # "createComplete" => disk'[a].createComplete = disk[a].createComplete
         /\ file # "allocation" => disk'[a].allocation = disk[a].allocation
         /\ file # "startRequest" => disk'[a].startRequest = disk[a].startRequest
         /\ file # "firstStart" => disk'[a].firstStart = disk[a].firstStart
         /\ file # "intent" => disk'[a].intent = disk[a].intent
         /\ \A b \in Attempts : b # a => disk'[b] = disk[b]
<1>1. disk[a] \in Files
  BY DEF TypeOK
<1>2. disk' = [disk EXCEPT ![a] = [disk[a] EXCEPT ![file] = content]]
  BY DEF Write, TypeOK
<1>3. disk'[a] = [disk[a] EXCEPT ![file] = content]
  BY <1>2 DEF TypeOK
<1>4. \A b \in Attempts : b # a => disk'[b] = disk[b]
  BY <1>2 DEF TypeOK
<1> QED
  BY <1>1, <1>3, <1>4 DEF Files

LEMMA Marked ==
  ASSUME TypeOK, NEW a \in Attempts, NEW file, Write(a, file, TRUE),
         file \in {"createRequest", "createComplete", "startRequest", "intent"}
  PROVE  disk'[a][file]
<1>1. disk[a] \in Files
  BY DEF TypeOK
<1>2. disk' = [disk EXCEPT ![a] = [disk[a] EXCEPT ![file] = TRUE]]
  BY DEF Write, TypeOK
<1>3. disk'[a] = [disk[a] EXCEPT ![file] = TRUE]
  BY <1>2 DEF TypeOK
<1> QED
  BY <1>1, <1>3 DEF Files

\* What an execution relies on depends on its attempt only.
LEMMA WorkerFrame ==
  ASSUME TypeOK, NEW v \in Workers, WorkerInv(v), worker'[v] = worker[v],
         \A a \in Attempts : fence[a] = v => fence'[a] = v,
         UNCHANGED journal, Target(v) \in Attempts => SameAttempt(Target(v))
  PROVE  WorkerInv(v)'
<1> USE DEF Target, WorkerInv
<1>1. Shape(v)'
  BY DEF Shape
<1>2. Fenced(v)'
  BY DEF Shape, Holds, Fenced, LaunchPc
<1>3. CASE Target(v) \notin Attempts
  BY <1>1, <1>2, <1>3 DEF Shape, LaunchInv, AbortInv, RemoveInv, StopInv
<1>4. CASE Target(v) \in Attempts
  <2> USE DEF SameAttempt, Found, Sent, NonePending, NoCreate, NoStart, Quiet,
              CompletedLaunch, MayRemove, Gone, Done
  <2>1. LaunchInv(v)'
    BY <1>4 DEF LaunchInv
  <2>2. AbortInv(v)'
    BY <1>4 DEF AbortInv
  <2>3. RemoveInv(v)'
    BY <1>4 DEF RemoveInv
  <2>4. StopInv(v)'
    BY <1>4 DEF StopInv
  <2> QED
    BY <1>1, <1>2, <2>1, <2>2, <2>3, <2>4
<1> QED
  BY <1>3, <1>4

LEMMA AttemptFrame ==
  ASSUME NEW a \in Attempts, AttemptInv(a), UNCHANGED journal, SameAttempt(a)
  PROVE  AttemptInv(a)'
<1> USE DEF SameAttempt, Found, Sent, NonePending, NoCreate, NoStart, Quiet, Gone,
            CompletedLaunch, AbortedLaunch, MayRemove, AttemptInv
<1>1. FilesInv(a)'
  BY DEF FilesInv
<1>2. Single(a)'
  BY DEF Single
<1>3. RemovalInv(a)'
  BY DEF RemovalInv
<1>4. OutcomeInv(a)'
  BY DEF OutcomeInv
<1> QED
  BY <1>1, <1>2, <1>3, <1>4

\* An operation that changes one attempt and no row of the journal.
LEMMA OneAttempt ==
  ASSUME IInv, TypeOK', UNCHANGED journal, NEW w \in Workers, OthersKeep(w),
         NEW a \in Attempts, \A b \in Attempts : b # a => SameAttempt(b),
         AttemptInv(a)', WorkerInv(w)',
         \A v \in Workers : v # w /\ Target(v) = a => WorkerInv(v)'
  PROVE  IInv'
<1>1. JournalOK'
  BY DEF IInv, JournalOK, CompletedLaunch
<1>2. \A b \in Attempts : AttemptInv(b)'
  BY AttemptFrame DEF IInv
<1>3. ASSUME NEW v \in Workers  PROVE WorkerInv(v)'
  <2>1. CASE v # w /\ Target(v) # a
    BY <2>1, WorkerFrame DEF IInv, OthersKeep
  <2> QED
    BY <2>1
<1> QED
  BY <1>1, <1>2, <1>3 DEF IInv

\* An operation that changes nothing but its own state and the fence.
LEMMA NoAttempt ==
  ASSUME IInv, TypeOK', UNCHANGED <<journal, disk, box, wire>>,
         NEW w \in Workers, OthersKeep(w), WorkerInv(w)'
  PROVE  IInv'
<1>1. JournalOK'
  BY DEF IInv, JournalOK, CompletedLaunch
<1>2. \A b \in Attempts : SameAttempt(b)
  BY DEF SameAttempt
<1>3. \A b \in Attempts : AttemptInv(b)'
  BY <1>2, AttemptFrame DEF IInv
<1>4. ASSUME NEW v \in Workers, v # w  PROVE WorkerInv(v)'
  BY <1>2, <1>4, WorkerFrame DEF IInv, OthersKeep
<1> QED
  BY <1>1, <1>3, <1>4 DEF IInv

\* An operation that changes the journal, but not which launch is completed.
LEMMA JournalFrame ==
  ASSUME IInv, TypeOK', JournalOK', UNCHANGED <<disk, box, wire>>,
         NEW w \in Workers, OthersKeep(w), WorkerInv(w)',
         \A a \in Attempts :
           /\ CompletedLaunch(a)' <=> CompletedLaunch(a)
           /\ AbortedLaunch(a)' => AbortedLaunch(a) \/ (Gone(a) /\ disk[a].intent)
           /\ journal'["stop"].status = "completed" /\ journal'["stop"].input = a
                => (journal["stop"].status = "completed" /\ journal["stop"].input = a) \/ Gone(a),
         \A s \in {"abort", "stop"} :
           journal[s].status # "absent" =>
             journal'[s].status # "absent" /\ journal'[s].input = journal[s].input,
         journal["stop"].attempt > 0 => journal'["stop"].attempt > 0
  PROVE  IInv'
<1>1. journal["stop"].attempt \in Nat /\ journal'["stop"].attempt \in Nat
  <2>1. journal["stop"] \in Row /\ journal'["stop"] \in Row
    BY DEF IInv, TypeOK, Stages
  <2> QED
    BY <2>1, RuntimeAssumption DEF Row
<1> USE DEF Found, Sent, NonePending, NoCreate, NoStart, Quiet, Gone, MayRemove
<1>2. ASSUME NEW a \in Attempts  PROVE AttemptInv(a)'
  <2>1. AttemptInv(a)
    BY DEF IInv
  <2>2. FilesInv(a)'
    BY <2>1 DEF AttemptInv, FilesInv
  <2>3. Single(a)'
    BY <2>1 DEF AttemptInv, Single
  <2>4. RemovalInv(a)'
    BY <2>1 DEF AttemptInv, RemovalInv
  <2>5. OutcomeInv(a)'
    BY <1>1, <2>1 DEF AttemptInv, OutcomeInv
  <2> QED
    BY <2>2, <2>3, <2>4, <2>5 DEF AttemptInv
<1>3. ASSUME NEW v \in Workers, v # w  PROVE WorkerInv(v)'
  <2> USE DEF Target, WorkerInv, Done
  <2>1. worker'[v] = worker[v] /\ WorkerInv(v)
    BY <1>3 DEF IInv, OthersKeep
  <2>2. Shape(v)'
    BY <2>1 DEF Shape
  <2>3. Fenced(v)'
    BY <1>3, <2>1 DEF Shape, Holds, Fenced, LaunchPc, OthersKeep
  <2>4. LaunchInv(v)'
    BY <2>1 DEF LaunchInv, Shape
  <2>5. AbortInv(v)'
    BY <2>1 DEF AbortInv, Shape
  <2>6. RemoveInv(v)'
    BY <2>1 DEF RemoveInv, Shape
  <2>7. StopInv(v)'
    BY <2>1 DEF StopInv, Shape
  <2> QED
    BY <2>2, <2>3, <2>4, <2>5, <2>6, <2>7
<1> QED
  BY <1>2, <1>3 DEF IInv

-----------------------------------------------------------------------------
(* Every step keeps the invariant *)

\* The steps that only move on.
LEMMA MoveSteps ==
  ASSUME IInv, NEW w \in Workers,
         \/ StartDone(w) \/ Ready(w) \/ ReplayAbort(w) \/ ReconcileAbsent(w)
         \/ VerifyAbsent(w) \/ LookupAbsent(w) \/ LookupFound(w) \/ StopDone(w)
         \/ CheckStopped(w) \/ RemoveDone(w)
  PROVE  IInv'
<1>1. TypeOK'
  BY TypeMoves DEF IInv
<1>2. /\ UNCHANGED <<journal, disk, fence, box, wire>>
      /\ worker'[w].op = worker[w].op
      /\ worker'[w].target = worker[w].target
      /\ worker'[w].own = worker[w].own
      /\ worker'[w].seen = worker[w].seen
      /\ OthersKeep(w)
  BY Stepped DEF IInv, StartDone, Ready, ReplayAbort, ReconcileAbsent, VerifyAbsent, LookupAbsent, LookupFound, StopDone, CheckStopped, RemoveDone
<1>3. WorkerInv(w) /\ (Target(w) \in Attempts => AttemptInv(Target(w)))
  BY DEF IInv
<1> USE DEF Target, At, Done, Found, Sent, NonePending, NoCreate, NoStart, Quiet, Gone,
            CompletedLaunch, MayRemove, WorkerInv,
            LaunchPc, BoundPc, StartedPc, AbortPc, IntentPc, RemovePc
<1>4. StartDone(w) => WorkerInv(w)'
  BY <1>2, <1>3, Stepped
     DEF StartDone, IInv, AttemptInv, FilesInv, OutcomeInv, Shape, Holds, Fenced, LaunchInv, AbortInv,
         RemoveInv, StopInv
<1>5. Ready(w) => WorkerInv(w)'
  BY <1>2, <1>3, Stepped
     DEF Ready, IInv, AttemptInv, FilesInv, OutcomeInv, Shape, Holds, Fenced, LaunchInv, AbortInv,
         RemoveInv, StopInv
<1>6. ReplayAbort(w) => WorkerInv(w)'
  BY <1>2, <1>3, Stepped
     DEF ReplayAbort, IInv, AttemptInv, FilesInv, OutcomeInv, Shape, Holds, Fenced, LaunchInv, AbortInv,
         RemoveInv, StopInv
<1>7. ASSUME ReconcileAbsent(w)  PROVE WorkerInv(w)'
  <2> DEFINE a == Target(w)
  <2>1. a \in Attempts /\ ~Found(a)
    BY <1>3, <1>7 DEF ReconcileAbsent, Shape
  <2>2. box[a].id \in Nat /\ box[a].id <= 1
    BY <1>3, <2>1 DEF IInv, TypeOK, Container, AttemptInv, Single
  <2>3. Quiet(a)
    BY <1>3, <1>7, <2>1, <2>2 DEF ReconcileAbsent, Unacknowledged, AttemptInv, FilesInv
  <2> QED
    BY <1>2, <1>3, <1>7, <2>3, Stepped
       DEF ReconcileAbsent, IInv, Shape, Holds, Fenced, LaunchInv, AbortInv, RemoveInv, StopInv
<1>8. ASSUME VerifyAbsent(w)  PROVE WorkerInv(w)'
  <2>1. /\ worker[w].op = "abort" /\ worker[w].pc = "absent" /\ ~Found(Target(w))
        /\ worker'[w].pc \in {"fail", "finish"}
        /\ worker'[w].pc = "finish" => worker[w].seen # "running"
    BY <1>2, <1>8, Stepped DEF VerifyAbsent, IInv
  <2>2. Shape(w)' /\ Fenced(w)' /\ LaunchInv(w)' /\ RemoveInv(w)'
    BY <1>2, <1>3, <2>1 DEF Shape, Holds, Fenced, LaunchInv, RemoveInv
  <2>3. AbortInv(w)' /\ StopInv(w)'
    BY <1>2, <1>3, <2>1 DEF AbortInv, StopInv
  <2> QED
    BY <2>2, <2>3
<1>9. ASSUME LookupAbsent(w)  PROVE WorkerInv(w)'
  <2>1. /\ worker[w].op = "stop" /\ worker[w].pc = "lookup" /\ ~Found(Target(w))
        /\ worker'[w].pc = "finish"
    BY <1>2, <1>9, Stepped DEF LookupAbsent, IInv
  <2>2. Gone(Target(w))
    BY <1>3, <2>1 DEF AttemptInv, OutcomeInv, Shape, StopInv
  <2>3. Shape(w)' /\ Fenced(w)' /\ LaunchInv(w)' /\ RemoveInv(w)'
    BY <1>2, <1>3, <2>1 DEF Shape, Holds, Fenced, LaunchInv, RemoveInv
  <2>4. AbortInv(w)' /\ StopInv(w)'
    BY <1>2, <1>3, <2>1, <2>2 DEF AbortInv, StopInv
  <2> QED
    BY <2>3, <2>4
<1>10. ASSUME LookupFound(w)  PROVE WorkerInv(w)'
  <2>1. /\ worker[w].op = "stop" /\ worker[w].pc = "lookup"
        /\ worker'[w].pc \in {"halt", "check"}
    BY <1>2, <1>10, Stepped DEF LookupFound, IInv
  <2>2. /\ Target(w) \in Attempts /\ Quiet(Target(w)) /\ MayRemove(Target(w))
        /\ Shape(w)' /\ Fenced(w)'
    BY <1>2, <1>3, <2>1 DEF AttemptInv, OutcomeInv, Shape, StopInv, Holds, Fenced
  <2>3. LaunchInv(w)' /\ AbortInv(w)' /\ RemoveInv(w)'
    BY <1>2, <2>1, <2>2 DEF LaunchInv, AbortInv, RemoveInv
  <2>4. StopInv(w)'
    BY <1>2, <1>3, <2>1 DEF StopInv
  <2> QED
    BY <2>2, <2>3, <2>4
<1>11. ASSUME StopDone(w)  PROVE WorkerInv(w)'
  <2>1. worker[w].pc = "halting" /\ worker'[w].pc = "check"
    BY <1>2, <1>11, Stepped DEF StopDone, IInv
  <2>2. Shape(w)' /\ Fenced(w)' /\ LaunchInv(w)' /\ RemoveInv(w)'
    BY <1>2, <1>3, <2>1 DEF Shape, Holds, Fenced, LaunchInv, RemoveInv
  <2>3. AbortInv(w)' /\ StopInv(w)'
    BY <1>2, <1>3, <2>1 DEF AbortInv, StopInv
  <2> QED
    BY <2>2, <2>3
<1>12. ASSUME CheckStopped(w)  PROVE WorkerInv(w)'
  <2>1. worker[w].pc = "check" /\ worker'[w].pc = "remove"
    BY <1>2, <1>12, Stepped DEF CheckStopped, IInv
  <2>2. Shape(w)' /\ Fenced(w)' /\ LaunchInv(w)' /\ RemoveInv(w)'
    BY <1>2, <1>3, <2>1 DEF Shape, Holds, Fenced, LaunchInv, RemoveInv
  <2>3. AbortInv(w)' /\ StopInv(w)'
    BY <1>2, <1>3, <2>1 DEF AbortInv, StopInv
  <2> QED
    BY <2>2, <2>3
<1>13. ASSUME RemoveDone(w)  PROVE WorkerInv(w)'
  <2>1. /\ worker[w].pc = "removing" /\ Done(w, "rm")
        /\ worker'[w].pc = IF worker[w].op = "abort" THEN "absent" ELSE "finish"
    BY <1>2, <1>13, Stepped DEF RemoveDone, IInv
  <2>2. worker[w].op \in {"abort", "stop"} /\ Quiet(Target(w)) /\ ~Found(Target(w))
    BY <1>3, <2>1 DEF Shape, RemoveInv
  <2>3. Shape(w)' /\ Fenced(w)' /\ LaunchInv(w)' /\ RemoveInv(w)'
    BY <1>2, <1>3, <2>1, <2>2 DEF Shape, Holds, Fenced, LaunchInv, RemoveInv
  <2>4. AbortInv(w)' /\ StopInv(w)'
    BY <1>2, <1>3, <2>1, <2>2 DEF AbortInv, StopInv
  <2> QED
    BY <2>3, <2>4
<1> QED
  BY <1>1, <1>2, NoAttempt, <1>4, <1>5, <1>6, <1>7, <1>8, <1>9, <1>10, <1>11, <1>12, <1>13

\* Leaving, and entering the fence.
LEMMA EnterSteps ==
  ASSUME IInv, NEW w \in Workers,
         Leave(w) \/ EnterLaunch(w) \/ EnterAbort(w) \/ ReadAbort(w)
  PROVE  IInv'
<1>1. WorkerInv(w) /\ TypeOK /\ JournalOK /\ worker[w] \in Execution /\ journal["launch"] \in Row
  BY DEF IInv, TypeOK, Stages
<1>2. TypeOK'
  BY <1>1, TypeEnds, TypeStarts DEF WorkerInv
<1>3. UNCHANGED <<journal, disk, box, wire>>
  BY DEF Leave, EnterLaunch, EnterAbort, ReadAbort
<1> USE DEF Target, At, Found, Sent, NonePending, Gone, CompletedLaunch, AbortedLaunch,
            LaunchPc, BoundPc, StartedPc, AbortPc, IntentPc, RemovePc
<1>4. CASE Leave(w)
  BY <1>1, <1>2, <1>3, <1>4, Quitted, NoAttempt DEF Leave
<1>5. CASE EnterLaunch(w)
  <2>1. /\ worker'[w].pc = "find"
        /\ worker'[w].op = worker[w].op /\ worker'[w].target = worker[w].target
    BY <1>1, <1>5, Stepped DEF EnterLaunch
  <2>2. OthersKeep(w)
    BY <1>1, <1>5, RuntimeAssumption DEF EnterLaunch, Step, TypeOK, OthersKeep
  <2>3. Target(w) \in Attempts /\ fence'[Target(w)] = w
    BY <1>1, <1>5 DEF EnterLaunch, WorkerInv, Shape, TypeOK
  <2>4. WorkerInv(w)'
    BY <1>1, <1>3, <1>5, <2>1, <2>3
       DEF EnterLaunch, Launchable, Runs, WorkerInv, Shape, Fenced, Holds, LaunchInv, AbortInv,
           RemoveInv, StopInv
  <2> QED
    BY <1>2, <1>3, <2>2, <2>4, NoAttempt
<1>6. CASE EnterAbort(w)
  <2>1. worker'[w] = [worker[w] EXCEPT !.pc = "declare",
                        !.seen = IF journal["launch"].status = "failed"
                                 THEN journal["launch"].error ELSE "running"]
    BY <1>1, <1>6 DEF EnterAbort, TypeOK
  <2>2. /\ worker'[w].pc = "declare"
        /\ worker'[w].op = worker[w].op /\ worker'[w].target = worker[w].target
        /\ worker'[w].seen = "aborted" => journal["launch"].error = "aborted"
    BY <1>1, <2>1 DEF Execution
  <2>3. OthersKeep(w)
    BY <1>1, <1>6, RuntimeAssumption DEF EnterAbort, TypeOK, OthersKeep
  <2>4. Target(w) \in Attempts /\ fence'[Target(w)] = w
    BY <1>1, <1>6 DEF EnterAbort, WorkerInv, Shape, TypeOK
  <2>5. OutcomeInv(Target(w)) /\ Incomplete(Target(w))
    BY <1>6, <2>4 DEF EnterAbort, Abortable, IInv, AttemptInv
  <2>6. WorkerInv(w)'
    BY <1>1, <1>3, <1>6, <2>2, <2>4, <2>5
       DEF EnterAbort, Incomplete, OutcomeInv, WorkerInv, Shape, Fenced, Holds,
           LaunchInv, AbortInv, RemoveInv, StopInv
  <2> QED
    BY <1>2, <1>3, <2>3, <2>6, NoAttempt
<1>7. CASE ReadAbort(w)
  <2>1. Idle \in Execution /\ journal["launch"].attempt \in Attempts
    BY <1>1, <1>7, IdleType, RuntimeAssumption
       DEF ReadAbort, Incomplete, Row, JournalOK, Attempts, Stages
  <2>2. /\ worker'[w].pc = "enter" /\ worker'[w].op = "abort"
        /\ worker'[w].target = journal["launch"].attempt
    BY <1>1, <1>7, <2>1 DEF ReadAbort, TypeOK, Execution
  <2>3. OthersKeep(w)
    BY <1>1, <1>7 DEF ReadAbort, TypeOK, OthersKeep
  <2>4. WorkerInv(w)'
    BY <2>1, <2>2 DEF WorkerInv, Shape, Fenced, Holds, LaunchInv, AbortInv, RemoveInv, StopInv
  <2> QED
    BY <1>2, <1>3, <2>3, <2>4, NoAttempt
<1> QED
  BY <1>4, <1>5, <1>6, <1>7

\* Whoever is inside the fence of an attempt is alone with it.
LEMMA Alone ==
  ASSUME IInv, NEW w \in Workers, Holds(w)
  PROVE  /\ Target(w) \in Attempts /\ ~CompletedLaunch(Target(w))
         /\ journal["stop"].status # "absent" => journal["stop"].input # Target(w)
         /\ \A v \in Workers :
              v # w /\ Target(v) = Target(w) =>
                ~Holds(v) /\ worker[v].pc \notin RemovePc /\ worker[v].op # "stop"
<1> DEFINE a == Target(w)
<1>1. WorkerInv(w) /\ JournalOK
  BY DEF IInv
<1>2. a \in Attempts /\ ~CompletedLaunch(a)
  BY <1>1 DEF WorkerInv, Shape, Holds, LaunchInv, AbortInv
<1>3. journal["stop"].status # "absent" => journal["stop"].input # a
  BY <1>1, <1>2 DEF JournalOK
<1>4. ASSUME NEW v \in Workers, v # w, Target(v) = a
      PROVE  ~Holds(v) /\ worker[v].pc \notin RemovePc /\ worker[v].op # "stop"
  <2>1. WorkerInv(v)
    BY DEF IInv
  <2>2. ~Holds(v)
    BY <1>1, <1>4, <2>1 DEF WorkerInv, Fenced
  <2>3. worker[v].op # "stop"
    BY <1>2, <1>4, <2>1 DEF WorkerInv, StopInv
  <2>4. worker[v].pc \notin RemovePc
    BY <2>1, <2>2, <2>3 DEF WorkerInv, Shape, Holds, RemovePc
  <2> QED
    BY <2>2, <2>3, <2>4
<1> QED
  BY <1>2, <1>3, <1>4

\* The attempt of a launch is neither aborted nor being removed.
LEMMA Launching ==
  ASSUME IInv, NEW w \in Workers, worker[w].pc \in LaunchPc
  PROVE  /\ Holds(w) /\ ~disk[Target(w)].intent
         /\ NonePending({"stop", "rm"}, Target(w)) /\ ~AbortedLaunch(Target(w))
<1> DEFINE a == Target(w)
<1>1. Holds(w)
  BY DEF Holds
<1>2. a \in Attempts /\ ~CompletedLaunch(a) /\ ~disk[a].intent
  BY <1>1, Alone DEF IInv, WorkerInv, LaunchInv
<1>3. AttemptInv(a)
  BY <1>2 DEF IInv
<1> QED
  BY <1>1, <1>2, <1>3 DEF AttemptInv, RemovalInv, OutcomeInv, MayRemove, NonePending

LEMMA Bystander ==
  ASSUME NEW v \in Workers, WorkerInv(v), worker'[v] = worker[v],
         ~Holds(v), worker[v].pc \notin RemovePc, worker[v].op # "stop"
  PROVE  WorkerInv(v)'
BY DEF WorkerInv, Shape, Holds, Fenced, LaunchInv, AbortInv, RemoveInv, StopInv, Target, LaunchPc

\* What the holder of the fence does to its attempt disturbs nobody.
LEMMA HolderFrame ==
  ASSUME IInv, TypeOK', NEW w \in Workers, Holds(w), OthersKeep(w),
         NEW a \in Attempts, a = Target(w),
         UNCHANGED journal, \A b \in Attempts : b # a => SameAttempt(b),
         AttemptInv(a)', WorkerInv(w)'
  PROVE  IInv'
<1>1. \A v \in Workers : v # w /\ Target(v) = a => WorkerInv(v)'
  BY Alone, Bystander DEF IInv, OthersKeep
<1> QED
  BY <1>1, OneAttempt

\* A launch writes a file of its attempt.
LEMMA LaunchWrites ==
  ASSUME IInv, NEW w \in Workers,
         RequestCreate(w) \/ CreateDone(w) \/ Adopt(w) \/ RequestStart(w) \/ Observe(w)
  PROVE  IInv'
<1>1. worker[w].pc \in LaunchPc
  BY DEF RequestCreate, CreateDone, Adopt, RequestStart, Observe, At, LaunchPc
<1> DEFINE t == Target(w)
<1>2. t \in Attempts /\ WorkerInv(w) /\ AttemptInv(t) /\ TypeOK
  BY <1>1, Launching, Alone DEF IInv
<1>3. PICK a \in Attempts : a = t
  BY <1>2
<1>4. box[a].id \in Nat /\ box[a].start \in Nat
  BY <1>2 DEF TypeOK, Container
<1>5. TypeOK'
  BY <1>2, TypeWrites
<1>6. UNCHANGED <<journal, box, wire>>
  BY DEF RequestCreate, CreateDone, Adopt, RequestStart, Observe
<1>7. \A b \in Attempts : b # a => disk'[b] = disk[b]
  BY <1>2, <1>3, Written DEF RequestCreate, CreateDone, Adopt, RequestStart, Observe
<1>8. \A b \in Attempts : b # a => SameAttempt(b)
  BY <1>6, <1>7 DEF SameAttempt
<1>9. SUFFICES AttemptInv(a)' /\ WorkerInv(w)' /\ OthersKeep(w)
  BY <1>1, <1>3, <1>5, <1>6, <1>8, Launching, HolderFrame
<1>10. /\ ~disk[a].intent /\ NonePending({"stop", "rm"}, a)
       /\ ~CompletedLaunch(a) /\ ~AbortedLaunch(a)
       /\ journal["stop"].status # "absent" => journal["stop"].input # a
  BY <1>1, <1>3, Launching, Alone
<1> USE DEF Target, At, Done, Found, Sent, NonePending, NoCreate, NoStart, Quiet, Gone,
            LaunchPc, BoundPc, StartedPc, AbortPc, IntentPc, RemovePc
<1>11. RemovalInv(a)' /\ OutcomeInv(a)' /\ Single(a)'
  BY <1>2, <1>3, <1>6, <1>10
     DEF RemovalInv, OutcomeInv, AttemptInv, Single, CompletedLaunch, AbortedLaunch
<1>12. ASSUME Step(w, "find") \/ Step(w, "create") \/ Step(w, "request") \/ Step(w, "run")
                \/ Step(w, "observe") \/ Step(w, "probe"), UNCHANGED fence,
              FilesInv(a)', LaunchInv(w)'
       PROVE  AttemptInv(a)' /\ WorkerInv(w)' /\ OthersKeep(w)
  <2>1. /\ worker'[w].pc \in LaunchPc /\ worker'[w].op = "launch"
        /\ worker'[w].pc \notin {"creating", "running", "finish"}
        /\ Target(w)' = a /\ OthersKeep(w)
    BY <1>1, <1>2, <1>3, <1>12, Stepped DEF WorkerInv, Shape
  <2>2. Shape(w)' /\ Fenced(w)' /\ AbortInv(w)' /\ RemoveInv(w)' /\ StopInv(w)'
    BY <1>1, <1>2, <1>3, <1>12, <2>1
       DEF WorkerInv, Shape, Holds, Fenced, AbortInv, RemoveInv, StopInv
  <2> QED
    BY <1>11, <1>12, <2>1, <2>2 DEF AttemptInv, WorkerInv
<1> USE <1>2, <1>3, <1>4, <1>6, <1>10
<1>13. CASE RequestCreate(w)
  <2>1. disk'[a].createRequest
    BY <1>13, Marked DEF RequestCreate
  <2>2. /\ disk'[a].allocation = 0
        /\ disk'[a].createComplete = disk[a].createComplete
        /\ disk'[a].startRequest = disk[a].startRequest
        /\ disk'[a].firstStart = disk[a].firstStart /\ disk'[a].intent = disk[a].intent
        /\ ~disk[a].createRequest /\ ~Found(a)
    BY <1>13, Written DEF RequestCreate, Creatable
  <2>3. worker'[w].pc = "create" /\ worker'[w].target = a
    BY <1>13, Stepped DEF RequestCreate
  <2>4. FilesInv(a)' /\ LaunchInv(w)'
    BY <2>1, <2>2, <2>3 DEF AttemptInv, FilesInv, LaunchInv, CompletedLaunch
  <2> QED
    BY <1>12, <1>13, <2>4 DEF RequestCreate
<1>14. CASE CreateDone(w)
  <2>1. disk'[a].createComplete
    BY <1>14, Marked DEF CreateDone
  <2>2. /\ disk'[a].allocation = disk[a].allocation
        /\ disk'[a].createRequest = disk[a].createRequest
        /\ disk'[a].startRequest = disk[a].startRequest
        /\ disk'[a].firstStart = disk[a].firstStart /\ disk'[a].intent = disk[a].intent
    BY <1>14, Written DEF CreateDone
  <2>3. worker'[w].pc = "find" /\ worker'[w].target = a
    BY <1>14, Stepped DEF CreateDone
  <2>4. box[a].id = 1
    BY <1>14 DEF CreateDone, WorkerInv, LaunchInv
  <2>5. FilesInv(a)' /\ LaunchInv(w)'
    BY <2>1, <2>2, <2>3, <2>4 DEF AttemptInv, FilesInv, LaunchInv, CompletedLaunch
  <2> QED
    BY <1>12, <1>14, <2>5 DEF CreateDone
<1>15. CASE Adopt(w)
  <2>1. /\ disk'[a].allocation = box[a].id
        /\ disk'[a].createComplete = disk[a].createComplete
        /\ disk'[a].createRequest = disk[a].createRequest
        /\ disk'[a].startRequest = disk[a].startRequest
        /\ disk'[a].firstStart = disk[a].firstStart /\ disk'[a].intent = disk[a].intent
    BY <1>15, Written DEF Adopt
  <2>2. box[a].id = 1 /\ Found(a)
    BY <1>15 DEF Adopt, AttemptInv, FilesInv
  <2>3. FilesInv(a)'
    BY <2>1, <2>2 DEF AttemptInv, FilesInv
  <2>4. CASE Step(w, "request") /\ UNCHANGED fence
    <3>1. worker'[w].pc = "request" /\ worker'[w].target = a
      BY <2>4, Stepped
    <3>2. LaunchInv(w)'
      BY <2>1, <2>2, <3>1 DEF LaunchInv, CompletedLaunch
    <3> QED
      BY <1>12, <2>3, <2>4, <3>2
  <2>5. CASE box[a].state = "running" /\ Step(w, "observe") /\ UNCHANGED fence
    <3>1. worker'[w].pc = "observe" /\ worker'[w].target = a
      BY <2>5, Stepped
    <3>2. LaunchInv(w)'
      BY <2>1, <2>2, <2>5, <3>1 DEF LaunchInv, CompletedLaunch, AttemptInv, FilesInv
    <3> QED
      BY <1>12, <2>3, <2>5, <3>2
  <2>6. CASE Quit(w)
    BY <1>11, <2>3, <2>6, Quitted DEF AttemptInv
  <2> QED
    BY <1>15, <2>4, <2>5, <2>6 DEF Adopt
<1>16. CASE RequestStart(w)
  <2>1. disk'[a].startRequest
    BY <1>16, Marked DEF RequestStart
  <2>2. /\ ~disk[a].startRequest
        /\ disk'[a].createComplete = disk[a].createComplete
        /\ disk'[a].createRequest = disk[a].createRequest
        /\ disk'[a].allocation = disk[a].allocation
        /\ disk'[a].firstStart = disk[a].firstStart /\ disk'[a].intent = disk[a].intent
    <3>1. Write(a, "startRequest", TRUE) /\ ~disk[a].startRequest
      BY <1>3, <1>16 DEF RequestStart
    <3> QED
      BY <1>2, <3>1, Written
  <2>3. worker'[w].pc = "run" /\ worker'[w].target = a
    BY <1>16, Stepped DEF RequestStart
  <2>4. Found(a) /\ disk[a].allocation = 1
    BY <1>16 DEF RequestStart, WorkerInv, LaunchInv
  <2>5. FilesInv(a)' /\ LaunchInv(w)'
    BY <2>1, <2>2, <2>3, <2>4 DEF AttemptInv, FilesInv, LaunchInv, CompletedLaunch
  <2> QED
    BY <1>12, <1>16, <2>5 DEF RequestStart
<1>17. CASE Observe(w)
  <2>1. /\ disk'[a].firstStart = box[a].start
        /\ disk'[a].createComplete = disk[a].createComplete
        /\ disk'[a].createRequest = disk[a].createRequest
        /\ disk'[a].startRequest = disk[a].startRequest
        /\ disk'[a].allocation = disk[a].allocation /\ disk'[a].intent = disk[a].intent
    BY <1>17, Written DEF Observe
  <2>2. Found(a) /\ disk[a].allocation = 1 /\ box[a].start = 1
    BY <1>17 DEF Observe, WorkerInv, LaunchInv
  <2>3. FilesInv(a)'
    BY <2>1, <2>2 DEF AttemptInv, FilesInv
  <2>4. CASE Step(w, "probe") /\ UNCHANGED fence
    <3>1. worker'[w].pc = "probe" /\ worker'[w].target = a
      BY <2>4, Stepped
    <3>2. LaunchInv(w)'
      BY <2>1, <2>2, <3>1 DEF LaunchInv, CompletedLaunch
    <3> QED
      BY <1>12, <2>3, <2>4, <3>2
  <2>5. CASE Quit(w)
    BY <1>11, <2>3, <2>5, Quitted DEF AttemptInv
  <2> QED
    BY <1>17, <2>4, <2>5 DEF Observe
<1> QED
  BY <1>13, <1>14, <1>15, <1>16, <1>17

\* What a request does to the wire.
LEMMA Requested ==
  ASSUME TypeOK, NEW w \in Workers, Target(w) \in Attempts, NEW cmd \in Commands,
         NEW from, NEW to \in Pc, Send(w, from, cmd, to)
  PROVE  /\ TypeOK'
         /\ UNCHANGED <<journal, disk, fence, box>> /\ OthersKeep(w)
         /\ worker[w].pc = from /\ worker'[w].pc = to
         /\ worker'[w].op = worker[w].op /\ worker'[w].target = worker[w].target
         /\ worker'[w].seen = worker[w].seen
         /\ \A b \in Attempts : b # Target(w) => SameAttempt(b)
         /\ \E r \in wire' : /\ wire' = wire \cup {r}
                             /\ r.cmd = cmd /\ r.attempt = Target(w) /\ r.by = w
<1>1. TypeOK'
  BY SendType
<1>2. UNCHANGED <<journal, disk, fence, box>> /\ worker[w].pc = from
  BY DEF Send
<1>3. /\ worker'[w].pc = to /\ OthersKeep(w)
      /\ worker'[w].op = worker[w].op /\ worker'[w].target = worker[w].target
      /\ worker'[w].seen = worker[w].seen
  BY Stepped DEF Send
<1> DEFINE r == Request(w, cmd)
<1>4. wire' = wire \cup {r} /\ r.cmd = cmd /\ r.attempt = Target(w) /\ r.by = w
  BY DEF Send, Request, Target
<1>5. \A b \in Attempts : b # Target(w) => SameAttempt(b)
  BY <1>2, <1>4 DEF SameAttempt
<1> QED
  BY <1>1, <1>2, <1>3, <1>4, <1>5

LEMMA LaunchSends ==
  ASSUME IInv, NEW w \in Workers, SendCreate(w) \/ SendStart(w)
  PROVE  IInv'
<1>1. worker[w].pc \in LaunchPc
  BY DEF SendCreate, SendStart, Send, LaunchPc
<1> DEFINE t == Target(w)
<1>2. t \in Attempts /\ Holds(w) /\ WorkerInv(w) /\ AttemptInv(t) /\ TypeOK
  BY <1>1, Launching, Alone DEF IInv
<1>3. PICK a \in Attempts : a = t
  BY <1>2
<1>4. /\ ~disk[a].intent /\ NonePending({"stop", "rm"}, a)
      /\ ~CompletedLaunch(a) /\ ~AbortedLaunch(a)
      /\ journal["stop"].status # "absent" => journal["stop"].input # a
  BY <1>1, <1>2, <1>3, Launching, Alone
<1> USE DEF Target, Found, Sent, NonePending, NoCreate, NoStart, Quiet, Gone,
            LaunchPc, BoundPc, StartedPc, AbortPc, IntentPc, RemovePc
<1>5. CASE SendCreate(w)
  <2>1. /\ TypeOK' /\ OthersKeep(w) /\ UNCHANGED <<journal, disk, fence, box>>
        /\ worker[w].pc = "create" /\ worker'[w].pc = "creating"
        /\ worker'[w].op = worker[w].op /\ worker'[w].target = worker[w].target
        /\ \A b \in Attempts : b # a => SameAttempt(b)
    BY <1>2, <1>3, <1>5, Requested DEF SendCreate, Commands, Pc
  <2>2. PICK r \in wire' : wire' = wire \cup {r} /\ r.cmd = "create" /\ r.attempt = a /\ r.by = w
    BY <1>2, <1>3, <1>5, Requested DEF SendCreate, Commands, Pc
  <2>3. disk[a].createRequest /\ box[a].id = 0 /\ NoCreate(a)
    BY <1>2, <1>3, <2>1 DEF WorkerInv, LaunchInv
  <2>4. FilesInv(a)'
    BY <1>2, <1>3, <2>1, <2>2, <2>3 DEF AttemptInv, FilesInv
  <2>5. Single(a)'
    BY <1>2, <1>3, <2>1, <2>2, <2>3 DEF AttemptInv, Single
  <2>6. RemovalInv(a)' /\ OutcomeInv(a)'
    BY <1>4, <2>1, <2>2 DEF RemovalInv, OutcomeInv, CompletedLaunch, AbortedLaunch
  <2>7. WorkerInv(w)'
    BY <1>2, <1>3, <1>4, <2>1, <2>2, <2>3
       DEF WorkerInv, Shape, Holds, Fenced, LaunchInv, AbortInv, RemoveInv, StopInv,
           CompletedLaunch
  <2> QED
    BY <1>2, <1>3, <2>1, <2>4, <2>5, <2>6, <2>7, HolderFrame DEF AttemptInv
<1>6. CASE SendStart(w)
  <2>1. /\ TypeOK' /\ OthersKeep(w) /\ UNCHANGED <<journal, disk, fence, box>>
        /\ worker[w].pc = "run" /\ worker'[w].pc = "running"
        /\ worker'[w].op = worker[w].op /\ worker'[w].target = worker[w].target
        /\ \A b \in Attempts : b # a => SameAttempt(b)
    BY <1>2, <1>3, <1>6, Requested DEF SendStart, Commands, Pc
  <2>2. PICK r \in wire' : wire' = wire \cup {r} /\ r.cmd = "start" /\ r.attempt = a /\ r.by = w
    BY <1>2, <1>3, <1>6, Requested DEF SendStart, Commands, Pc
  <2>3. /\ disk[a].startRequest /\ box[a].start = 0 /\ NoStart(a)
        /\ Found(a) /\ disk[a].allocation = 1
    BY <1>2, <1>3, <2>1 DEF WorkerInv, LaunchInv
  <2>4. FilesInv(a)'
    BY <1>2, <1>3, <2>1, <2>2, <2>3 DEF AttemptInv, FilesInv
  <2>5. Single(a)'
    BY <1>2, <1>3, <2>1, <2>2, <2>3 DEF AttemptInv, Single
  <2>6. RemovalInv(a)' /\ OutcomeInv(a)'
    BY <1>4, <2>1, <2>2 DEF RemovalInv, OutcomeInv, CompletedLaunch, AbortedLaunch
  <2>7. WorkerInv(w)'
    BY <1>2, <1>3, <1>4, <2>1, <2>2, <2>3
       DEF WorkerInv, Shape, Holds, Fenced, LaunchInv, AbortInv, RemoveInv, StopInv,
           CompletedLaunch
  <2> QED
    BY <1>2, <1>3, <2>1, <2>4, <2>5, <2>6, <2>7, HolderFrame DEF AttemptInv
<1> QED
  BY <1>5, <1>6

\* A container is stopped and removed by an abort or by a stop.
LEMMA RemoveSends ==
  ASSUME IInv, NEW w \in Workers, SendStop(w) \/ SendRemove(w)
  PROVE  IInv'
<1> USE DEF Target, Found, Sent, NonePending, NoCreate, NoStart, Quiet, Gone, MayRemove,
            CompletedLaunch, AbortedLaunch, Done, LaunchPc, AbortPc, IntentPc, RemovePc
<1>1. WorkerInv(w) /\ TypeOK /\ worker[w].pc \in {"halt", "remove"}
  BY DEF IInv, SendStop, SendRemove, Send
<1>2. Target(w) \in Attempts /\ AttemptInv(Target(w))
  BY <1>1 DEF IInv, WorkerInv, Shape
<1>3. PICK a \in Attempts : a = Target(w)
  BY <1>2
<1>4. Quiet(a) /\ MayRemove(a)
  BY <1>1, <1>3 DEF WorkerInv, RemoveInv
<1>5. /\ TypeOK' /\ OthersKeep(w) /\ UNCHANGED <<journal, disk, fence, box>>
      /\ worker'[w].op = worker[w].op /\ worker'[w].target = worker[w].target
      /\ worker'[w].seen = worker[w].seen
      /\ worker'[w].pc \in {"halting", "removing"}
      /\ \A b \in Attempts : b # a => SameAttempt(b)
  BY <1>1, <1>2, <1>3, Requested DEF SendStop, SendRemove, Commands, Pc
<1>6. PICK r \in wire' :
        /\ wire' = wire \cup {r} /\ r.cmd \in {"stop", "rm"} /\ r.attempt = a /\ r.by = w
        /\ worker'[w].pc = "removing" => r.cmd = "rm"
  <2>1. CASE SendStop(w)
    BY <1>1, <1>2, <1>3, <2>1, Requested DEF SendStop, Commands, Pc
  <2>2. CASE SendRemove(w)
    BY <1>1, <1>2, <1>3, <2>2, Requested DEF SendRemove, Commands, Pc
  <2> QED
    BY <2>1, <2>2
<1>7. AttemptInv(a)'
  <2>1. FilesInv(a)' /\ OutcomeInv(a)'
    BY <1>2, <1>3, <1>5, <1>6 DEF AttemptInv, FilesInv, OutcomeInv
  <2>2. Single(a)'
    BY <1>2, <1>3, <1>5, <1>6 DEF AttemptInv, Single
  <2>3. RemovalInv(a)'
    BY <1>2, <1>3, <1>4, <1>5, <1>6 DEF AttemptInv, RemovalInv
  <2> QED
    BY <2>1, <2>2, <2>3 DEF AttemptInv
<1>8. WorkerInv(w)'
  <2>1. Shape(w)' /\ Fenced(w)' /\ LaunchInv(w)'
    BY <1>1, <1>3, <1>5 DEF WorkerInv, Shape, Fenced, Holds, LaunchInv
  <2>2. AbortInv(w)' /\ StopInv(w)'
    BY <1>1, <1>3, <1>5, <1>6 DEF WorkerInv, AbortInv, StopInv
  <2>3. RemoveInv(w)'
    BY <1>3, <1>4, <1>5, <1>6 DEF RemoveInv
  <2> QED
    BY <2>1, <2>2, <2>3 DEF WorkerInv
<1>9. ASSUME NEW v \in Workers, v # w, Target(v) = a  PROVE WorkerInv(v)'
  <2>1. WorkerInv(v) /\ worker'[v] = worker[v]
    BY <1>5, <1>9 DEF IInv, OthersKeep
  <2>2. Shape(v)' /\ Fenced(v)'
    BY <1>5, <1>9, <2>1 DEF WorkerInv, Shape, Fenced, Holds
  <2>3. LaunchInv(v)'
    BY <1>5, <1>6, <1>9, <2>1 DEF WorkerInv, LaunchInv
  <2>4. AbortInv(v)' /\ StopInv(v)'
    BY <1>5, <1>6, <1>9, <2>1 DEF WorkerInv, AbortInv, StopInv
  <2>5. RemoveInv(v)'
    BY <1>5, <1>6, <1>9, <2>1 DEF WorkerInv, RemoveInv
  <2> QED
    BY <2>2, <2>3, <2>4, <2>5 DEF WorkerInv
<1> QED
  BY <1>5, <1>7, <1>8, <1>9, OneAttempt

\* The files an abort writes.
LEMMA AbortWrites ==
  ASSUME IInv, NEW w \in Workers, RecordIntent(w) \/ ReconcileFound(w)
  PROVE  IInv'
<1> USE DEF Target, At, Found, Sent, NonePending, NoCreate, NoStart, Quiet, Gone, MayRemove,
            Done, LaunchPc, AbortPc, IntentPc, RemovePc
<1>1. Holds(w) /\ WorkerInv(w) /\ TypeOK
  BY DEF IInv, Holds, RecordIntent, ReconcileFound
<1>2. Target(w) \in Attempts /\ AttemptInv(Target(w)) /\ ~CompletedLaunch(Target(w))
  BY <1>1, Alone DEF IInv
<1>3. PICK a \in Attempts : a = Target(w)
  BY <1>2
<1>4. box[a].id \in Nat /\ box[a].start \in Nat /\ box[a].id <= 1
  BY <1>1, <1>2, <1>3 DEF TypeOK, Container, AttemptInv, Single
<1>5. TypeOK' /\ UNCHANGED <<journal, box, wire, fence>>
  BY <1>1, <1>2, TypeWrites DEF RecordIntent, ReconcileFound
<1>6. \A b \in Attempts : b # a => SameAttempt(b)
  BY <1>1, <1>3, <1>5, Written DEF RecordIntent, ReconcileFound, SameAttempt
<1>7. /\ worker'[w].op = worker[w].op /\ worker'[w].target = worker[w].target
      /\ worker'[w].seen = worker[w].seen /\ OthersKeep(w)
  BY <1>1, <1>5, Stepped DEF RecordIntent, ReconcileFound
<1>8. SUFFICES AttemptInv(a)' /\ WorkerInv(w)'
  BY <1>1, <1>3, <1>5, <1>6, <1>7, HolderFrame
<1>9. CASE RecordIntent(w)
  <2>1. disk'[a].intent
    BY <1>1, <1>3, <1>9, Marked DEF RecordIntent
  <2>2. /\ disk'[a].createRequest = disk[a].createRequest
        /\ disk'[a].createComplete = disk[a].createComplete
        /\ disk'[a].allocation = disk[a].allocation
        /\ disk'[a].startRequest = disk[a].startRequest
        /\ disk'[a].firstStart = disk[a].firstStart
    <3>1. Write(a, "intent", TRUE)
      BY <1>3, <1>9 DEF RecordIntent
    <3> QED
      BY <1>1, <3>1, Written
  <2>3. worker'[w].pc = "reconcile"
    BY <1>1, <1>9, Stepped DEF RecordIntent
  <2>4. AttemptInv(a)'
    BY <1>2, <1>3, <1>5, <2>1, <2>2
       DEF AttemptInv, FilesInv, Single, RemovalInv, OutcomeInv, CompletedLaunch, AbortedLaunch
  <2>5. WorkerInv(w)'
    BY <1>1, <1>3, <1>5, <1>7, <1>9, <2>1, <2>3
       DEF RecordIntent, WorkerInv, Shape, Fenced, Holds, LaunchInv, AbortInv, RemoveInv,
           StopInv, CompletedLaunch
  <2> QED
    BY <2>4, <2>5
<1>10. CASE ReconcileFound(w)
  <2>1. /\ disk'[a].allocation = box[a].id
        /\ disk'[a].createRequest = disk[a].createRequest
        /\ disk'[a].createComplete = disk[a].createComplete
        /\ disk'[a].startRequest = disk[a].startRequest
        /\ disk'[a].firstStart = disk[a].firstStart
        /\ disk'[a].intent = disk[a].intent
    BY <1>1, <1>3, <1>10, Written DEF ReconcileFound
  <2>2. worker'[w].pc \in {"halt", "check"}
    BY <1>1, <1>10, Stepped DEF ReconcileFound
  <2>3. box[a].id = 1 /\ disk[a].intent
    BY <1>1, <1>2, <1>3, <1>10
       DEF ReconcileFound, AttemptInv, FilesInv, WorkerInv, AbortInv
  <2>4. Quiet(a)
    <3>1. NoCreate(a)
      BY <1>2, <1>3, <2>3 DEF AttemptInv, Single
    <3>2. NoStart(a)
      BY <1>2, <1>3, <1>10 DEF ReconcileFound, FirstStart, AttemptInv, FilesInv, Single
    <3> QED
      BY <3>1, <3>2
  <2>5. AttemptInv(a)'
    BY <1>2, <1>3, <1>5, <2>1, <2>3
       DEF AttemptInv, FilesInv, Single, RemovalInv, OutcomeInv, CompletedLaunch, AbortedLaunch
  <2>6. WorkerInv(w)'
    BY <1>1, <1>3, <1>5, <1>7, <1>10, <2>1, <2>2, <2>3, <2>4
       DEF ReconcileFound, WorkerInv, Shape, Fenced, Holds, LaunchInv, AbortInv, RemoveInv,
           StopInv, CompletedLaunch
  <2> QED
    BY <2>5, <2>6
<1> QED
  BY <1>9, <1>10

\* A stage is started, whether or not its owner learns of it.
LEMMA StartSteps ==
  ASSUME IInv, NEW w \in Workers, StartStage(w) \/ CancelStart(w)
  PROVE  IInv'
<1> DEFINE s == worker[w].op
           n == journal[s].attempt + 1
<1>1. WorkerInv(w) /\ TypeOK /\ JournalOK /\ worker[w] \in Execution
  BY DEF IInv, TypeOK
<1>2. TypeOK'
  BY <1>1, TypeStarts DEF WorkerInv
<1>3. PICK pc \in {"enter", "intent", "lookup", "cancelled"} :
        /\ NewAttempt(w, pc)
        /\ pc \in {"enter", "cancelled"} \/ (pc = "intent" /\ s = "abort") \/ (pc = "lookup" /\ s = "stop")
        /\ pc = "enter" => s = "launch"
  <2>1. s \in {"launch", "abort", "stop"}
    BY <1>1 DEF StartStage, CancelStart, NewAttempt, WorkerInv, Shape, Execution, Stages
  <2> QED
    BY <2>1 DEF StartStage, CancelStart
<1>4. s \in Stages /\ worker[w].pc = "start" /\ Startable(journal[s])
  BY <1>1, <1>3 DEF NewAttempt, WorkerInv, Shape, Execution
<1>5. journal[s] \in Row /\ n \in Attempts
  BY <1>1, <1>4, RuntimeAssumption DEF TypeOK, Row, Startable, Attempts
<1>6. /\ UNCHANGED <<disk, fence, box, wire>>
      /\ journal' = [journal EXCEPT ![s] = StageStarted(journal[s])]
  BY <1>3 DEF NewAttempt
<1>7. /\ journal'[s].status = "running" /\ journal'[s].attempt = n
      /\ journal'[s].error = "none" /\ journal'[s].input = journal[s].input
      /\ \A r \in Stages : r # s => journal'[r] = journal[r]
  BY <1>1, <1>4, <1>5, <1>6 DEF StageStarted, TypeOK, Row
<1>8. /\ worker'[w].pc = pc /\ worker'[w].op = s /\ worker'[w].seen = worker[w].seen
      /\ worker'[w].target = (IF s = "launch" THEN n ELSE worker[w].target)
      /\ OthersKeep(w)
  <2> DEFINE t == IF s = "launch" THEN n ELSE worker[w].target
             x == [worker[w] EXCEPT !.pc = pc, !.own = n, !.target = t]
  <2>1. worker' = [worker EXCEPT ![w] = x]
    BY <1>1, <1>3 DEF NewAttempt, TypeOK
  <2>2. x.pc = pc /\ x.op = s /\ x.seen = worker[w].seen /\ x.target = t
    BY <1>1 DEF Execution
  <2> HIDE DEF x, t
  <2>3. worker'[w] = x /\ OthersKeep(w)
    BY <1>1, <1>6, <2>1 DEF OthersKeep, TypeOK
  <2> QED
    BY <2>2, <2>3 DEF t
<1>9. journal[s].status \in {"planned", "failed"}
  BY <1>4 DEF Startable
<1>10. n > 0 /\ n # 0
  BY <1>5 DEF Attempts
<1> HIDE DEF n
<1> USE DEF CompletedLaunch, AbortedLaunch, Stages
<1>11. JournalOK'
  BY <1>1, <1>4, <1>7, <1>9, <1>10 DEF JournalOK
<1>12. WorkerInv(w)'
  BY <1>1, <1>3, <1>4, <1>5, <1>6, <1>7, <1>8, <1>9, <1>10
     DEF WorkerInv, Shape, Fenced, Holds, LaunchInv, AbortInv, RemoveInv, StopInv, Target,
         Found, Sent, NonePending, Gone, LaunchPc, AbortPc, IntentPc, RemovePc
<1>13. \A a \in Attempts :
         /\ CompletedLaunch(a)' <=> CompletedLaunch(a)
         /\ AbortedLaunch(a)' => AbortedLaunch(a)
         /\ journal'["stop"].status = "completed" /\ journal'["stop"].input = a
              => journal["stop"].status = "completed" /\ journal["stop"].input = a
  BY <1>4, <1>7, <1>9
<1>14. /\ \A r \in {"abort", "stop"} :
            journal[r].status # "absent" =>
              journal'[r].status # "absent" /\ journal'[r].input = journal[r].input
       /\ journal["stop"].attempt > 0 => journal'["stop"].attempt > 0
  BY <1>4, <1>7, <1>10
<1> QED
  BY <1>2, <1>6, <1>8, <1>11, <1>12, <1>13, <1>14, JournalFrame

\* A failure, of a start or of an aborted launch.
LEMMA FailSteps ==
  ASSUME IInv, NEW w \in Workers, FailAfterDrain(w) \/ FailLaunch(w)
  PROVE  IInv'
<1>1. WorkerInv(w) /\ TypeOK /\ JournalOK /\ worker[w] \in Execution
  BY DEF IInv, TypeOK
<1>2. TypeOK' /\ UNCHANGED <<disk, box, wire>>
  BY <1>1, TypeEnds DEF FailAfterDrain, FailLaunch
<1>3. \A s \in Stages : journal[s] \in Row
  BY <1>1 DEF TypeOK
<1> USE DEF Stages
<1>4. CASE FailAfterDrain(w)
  <2> DEFINE s == worker[w].op
  <2>1. WorkerInv(w)' /\ OthersKeep(w)
    BY <1>1, <1>4, Quitted DEF FailAfterDrain
  <2>2. s \in Stages
    BY <1>1, <1>4 DEF FailAfterDrain, WorkerInv, Shape, Execution
  <2>3. CASE UNCHANGED journal
    BY <1>2, <2>1, <2>3, NoAttempt
  <2>4. CASE Runs(s, worker[w].own) /\ journal' = [journal EXCEPT ![s] = StageFailed(journal[s], "cancelled")]
    <3>1. /\ journal[s].status = "running"
          /\ journal'[s].status = "failed" /\ journal'[s].attempt = journal[s].attempt
          /\ journal'[s].error = "cancelled" /\ journal'[s].input = journal[s].input
          /\ \A r \in Stages : r # s => journal'[r] = journal[r]
      BY <1>1, <1>3, <2>2, <2>4 DEF Runs, StageFailed, TypeOK, Row
    <3> USE DEF CompletedLaunch, AbortedLaunch
    <3>2. JournalOK'
      BY <1>1, <2>2, <3>1 DEF JournalOK
    <3>3. \A a \in Attempts :
            /\ CompletedLaunch(a)' <=> CompletedLaunch(a)
            /\ AbortedLaunch(a)' => AbortedLaunch(a)
            /\ journal'["stop"].status = "completed" /\ journal'["stop"].input = a
                 => journal["stop"].status = "completed" /\ journal["stop"].input = a
      BY <2>2, <3>1
    <3>4. /\ \A r \in {"abort", "stop"} :
               journal[r].status # "absent" =>
                 journal'[r].status # "absent" /\ journal'[r].input = journal[r].input
          /\ journal["stop"].attempt > 0 => journal'["stop"].attempt > 0
      BY <2>2, <3>1
    <3> QED
      BY <1>2, <2>1, <3>2, <3>3, <3>4, JournalFrame
  <2> QED
    BY <1>4, <2>3, <2>4 DEF FailAfterDrain
<1>5. CASE FailLaunch(w)
  <2>1. /\ journal["launch"].status = "running"
        /\ journal'["launch"].status = "failed"
        /\ journal'["launch"].attempt = journal["launch"].attempt
        /\ journal'["abort"] = journal["abort"] /\ journal'["stop"] = journal["stop"]
        /\ journal["launch"].attempt = Target(w)
    BY <1>1, <1>3, <1>5 DEF FailLaunch, Runs, StageFailed, TypeOK, Row
  <2>2. /\ worker'[w].pc = "finish" /\ UNCHANGED fence /\ OthersKeep(w)
        /\ worker'[w].op = worker[w].op /\ worker'[w].target = worker[w].target
        /\ worker'[w].seen = worker[w].seen
    BY <1>1, <1>5, Stepped DEF FailLaunch
  <2>3. Gone(Target(w)) /\ disk[Target(w)].intent
    BY <1>1, <1>5 DEF FailLaunch, At, WorkerInv, AbortInv, IntentPc
  <2> USE DEF CompletedLaunch, AbortedLaunch
  <2>4. JournalOK'
    BY <1>1, <2>1 DEF JournalOK
  <2>5. \A a \in Attempts :
          /\ CompletedLaunch(a)' <=> CompletedLaunch(a)
          /\ AbortedLaunch(a)' => AbortedLaunch(a) \/ (Gone(a) /\ disk[a].intent)
    BY <2>1, <2>3
  <2>6. WorkerInv(w)'
    BY <1>1, <1>2, <1>5, <2>1, <2>2, <2>3
       DEF FailLaunch, At, WorkerInv, Shape, Fenced, Holds, LaunchInv, AbortInv, RemoveInv,
           StopInv, Target, Found, Sent, NonePending, Gone, LaunchPc, AbortPc, IntentPc, RemovePc
  <2> QED
    BY <1>2, <2>1, <2>2, <2>4, <2>5, <2>6, JournalFrame
<1> QED
  BY <1>4, <1>5

\* A stage is declared, and its row is read.
LEMMA DeclareSteps ==
  ASSUME IInv, NEW w \in Workers, ReadLaunch(w) \/ DeclareAbort(w) \/ DeclareStop(w)
  PROVE  IInv'
<1>1. WorkerInv(w) /\ TypeOK /\ JournalOK /\ worker[w] \in Execution /\ Idle \in Execution
  BY IdleType DEF IInv, TypeOK
<1>2. TypeOK' /\ UNCHANGED <<disk, fence, box, wire>>
  BY <1>1, TypeStarts DEF WorkerInv, ReadLaunch, DeclareAbort, DeclareStop
<1>3. \A s \in Stages : journal[s] \in Row
  BY <1>1 DEF TypeOK
<1> USE DEF Stages, CompletedLaunch, AbortedLaunch
<1>4. ASSUME NEW s \in Stages, NEW i \in 0 .. MaxAttempts,
             journal' = [journal EXCEPT ![s] = Declared(s, i)]
      PROVE  /\ \A r \in Stages : r # s => journal'[r] = journal[r]
             /\ journal'[s] = Declared(s, i)
             /\ \/ journal'[s] = journal[s]
                \/ /\ journal[s].status = "absent" /\ journal'[s].status = "planned"
                   /\ journal'[s].attempt = 0 /\ journal'[s].error = "none"
                   /\ journal'[s].input = i
  BY <1>1, <1>4 DEF TypeOK, Declared, Undeclared
<1>5. ASSUME NEW s \in Stages, NEW i \in 0 .. MaxAttempts,
             journal' = [journal EXCEPT ![s] = Declared(s, i)],
             s = "stop" => CompletedLaunch(i)
      PROVE  /\ JournalOK'
             /\ \A a \in Attempts :
                  /\ CompletedLaunch(a)' <=> CompletedLaunch(a)
                  /\ AbortedLaunch(a)' => AbortedLaunch(a)
                  /\ journal'["stop"].status = "completed" /\ journal'["stop"].input = a
                       => journal["stop"].status = "completed" /\ journal["stop"].input = a
             /\ \A r \in {"abort", "stop"} :
                  journal[r].status # "absent" =>
                    journal'[r].status # "absent" /\ journal'[r].input = journal[r].input
             /\ journal["stop"].attempt > 0 => journal'["stop"].attempt > 0
  <2>1. /\ \A r \in Stages : r # s => journal'[r] = journal[r]
        /\ \/ journal'[s] = journal[s]
           \/ /\ journal[s].status = "absent" /\ journal'[s].status = "planned"
              /\ journal'[s].attempt = 0 /\ journal'[s].error = "none"
              /\ journal'[s].input = i
    BY <1>4, <1>5
  <2>2. journal[s].status = "absent" => journal[s].attempt = 0
    BY <1>1 DEF JournalOK
  <2>3. JournalOK'
    BY <1>1, <1>5, <2>1 DEF JournalOK
  <2>4. \A a \in Attempts :
          /\ CompletedLaunch(a)' <=> CompletedLaunch(a)
          /\ AbortedLaunch(a)' => AbortedLaunch(a)
          /\ journal'["stop"].status = "completed" /\ journal'["stop"].input = a
               => journal["stop"].status = "completed" /\ journal["stop"].input = a
    BY <2>1
  <2> QED
    BY <2>1, <2>2, <2>3, <2>4
<1> USE DEF Target, At, Found, Sent, NonePending, Gone, Quiet,
            WorkerInv, Shape, Fenced, Holds, LaunchInv, AbortInv, RemoveInv, StopInv,
            LaunchPc, AbortPc, IntentPc, RemovePc
<1>6. CASE ReadLaunch(w)
  <2>1. journal' = [journal EXCEPT !["launch"] = Declared("launch", 0)] /\ 0 \in 0 .. MaxAttempts
    BY <1>6, RuntimeAssumption DEF ReadLaunch
  <2> DEFINE row == Declared("launch", 0)
  <2>2. row \in Row /\ row.status = "running" => row.attempt \in Attempts
    BY <1>1, RuntimeAssumption DEF JournalOK, Declared, Undeclared, Row, Attempts
  <2>3. row \in Row
    BY <1>1, <2>1, DeclaredType
  <2>4. /\ OthersKeep(w) /\ worker'[w].op = "launch"
        /\ \/ worker'[w].pc = "start"
           \/ worker'[w].pc = "enter" /\ worker'[w].target = row.attempt /\ row.status = "running"
    BY <1>1, <1>2, <1>6 DEF ReadLaunch, TypeOK, OthersKeep, Execution
  <2>5. WorkerInv(w)'
    BY <2>2, <2>3, <2>4
  <2> QED
    BY <1>2, <1>5, <2>1, <2>4, <2>5, JournalFrame
<1>7. CASE DeclareAbort(w)
  <2> DEFINE a == Target(w)
             row == Declared("abort", a)
  <2>1. journal' = [journal EXCEPT !["abort"] = row] /\ a \in 0 .. MaxAttempts /\ row.input = a
    BY <1>1, <1>7 DEF DeclareAbort, Execution
  <2>2. row \in Row
    BY <1>1, <2>1, DeclaredType
  <2>3. worker'[w] = [worker[w] EXCEPT !.own = row.attempt,
                        !.pc = IF Joinable(row) THEN "intent" ELSE "start"]
    BY <1>1, <1>7 DEF DeclareAbort, TypeOK
  <2>4. /\ OthersKeep(w) /\ worker'[w].op = worker[w].op /\ worker'[w].target = worker[w].target
        /\ worker'[w].seen = worker[w].seen /\ worker'[w].pc \in {"start", "intent"}
    <3>1. OthersKeep(w)
      BY <1>1, <1>2, <1>7 DEF DeclareAbort, TypeOK, OthersKeep
    <3> QED
      BY <1>1, <2>3, <3>1 DEF Execution
  <2>5. journal'["abort"].status # "absent" /\ journal'["abort"].input = a
        /\ journal'["launch"] = journal["launch"]
    <3>1. journal'["abort"] = row /\ journal'["launch"] = journal["launch"]
      BY <1>1, <2>1 DEF TypeOK
    <3>2. row.status # "absent"
      BY DEF Declared, Undeclared
    <3> QED
      BY <2>1, <3>1, <3>2
  <2>6. WorkerInv(w)'
    BY ZenonT(30), <1>1, <1>2, <1>7, <2>4, <2>5 DEF DeclareAbort
  <2> QED
    BY <1>2, <1>5, <2>1, <2>4, <2>6, JournalFrame
<1>8. CASE DeclareStop(w)
  <2> DEFINE a == journal["launch"].attempt
             row == Declared("stop", a)
  <2>1. /\ journal' = [journal EXCEPT !["stop"] = row] /\ a \in 0 .. MaxAttempts
        /\ row.input = a /\ CompletedLaunch(a)
    BY <1>3, <1>8 DEF DeclareStop, Row
  <2>2. a \in Attempts
    BY <1>1, <2>1, RuntimeAssumption DEF JournalOK, Attempts
  <2>3. row \in Row
    BY <1>1, <2>1, DeclaredType
  <2>4. /\ OthersKeep(w) /\ worker'[w].op = "stop" /\ worker'[w].target = a
        /\ worker'[w].pc = IF Joinable(row) THEN "lookup" ELSE "start"
    BY <1>1, <1>2, <1>8 DEF DeclareStop, TypeOK, OthersKeep, Execution
  <2>5. /\ journal'["stop"] = row /\ journal'["stop"].status # "absent"
        /\ journal'["launch"] = journal["launch"]
    <3>1. journal'["stop"] = row /\ journal'["launch"] = journal["launch"]
      BY <1>1, <2>1 DEF TypeOK
    <3>2. row.status # "absent"
      BY DEF Declared, Undeclared
    <3> QED
      BY <3>1, <3>2
  <2>6. JournalOK'
    BY <1>5, <2>1
  <2>7. Joinable(row) => journal'["stop"].attempt > 0
    BY <2>3, <2>5, <2>6, RuntimeAssumption DEF JournalOK, Joinable, Row
  <2>8. WorkerInv(w)'
    BY <1>2, <2>1, <2>2, <2>4, <2>5, <2>7
  <2> QED
    BY <1>2, <1>5, <2>1, <2>4, <2>8, JournalFrame
<1> QED
  BY <1>6, <1>7, <1>8


\* A launch is completed: its container is there, and nothing of it is pending.
LEMMA PublishStep ==
  ASSUME IInv, NEW w \in Workers, PublishLaunch(w)
  PROVE  IInv'
<1>1. WorkerInv(w) /\ TypeOK /\ JournalOK /\ journal["launch"] \in Row
  BY DEF IInv, TypeOK, Stages
<1>2. TypeOK' /\ UNCHANGED <<disk, box, wire>> /\ Quit(w)
  BY <1>1, TypeEnds DEF PublishLaunch
<1>3. WorkerInv(w)' /\ OthersKeep(w)
  BY <1>1, <1>2, Quitted
<1> DEFINE t == Target(w)
<1>4. /\ worker[w].pc = "publish" /\ worker[w].pc \in LaunchPc /\ Holds(w)
      /\ t \in Attempts
  BY <1>1 DEF PublishLaunch, At, LaunchPc, Holds, WorkerInv, Shape
<1>5. PICK a \in Attempts : a = t
  BY <1>4
<1>6. /\ journal["launch"].status = "running" /\ journal["launch"].attempt = a
      /\ journal'["launch"].status = "completed" /\ journal'["launch"].attempt = a
      /\ journal'["launch"].error = journal["launch"].error
      /\ journal'["abort"] = journal["abort"] /\ journal'["stop"] = journal["stop"]
  BY <1>1, <1>5 DEF PublishLaunch, Runs, StageCompleted, TypeOK, Row, Stages
<1>7. /\ \A b \in Attempts : ~CompletedLaunch(b) /\ (CompletedLaunch(b)' <=> b = a)
      /\ journal["launch"].error # "aborted" /\ journal["stop"].status = "absent"
  BY <1>1, <1>6 DEF JournalOK, CompletedLaunch
<1>8. JournalOK' /\ journal["stop"].attempt = 0
  <2>1. \A s \in {"abort", "stop"} :
          journal'[s].status \in {"absent", "planned"} <=> journal'[s].attempt = 0
    BY <1>1, <1>6 DEF JournalOK, Stages
  <2>2. journal["launch"].attempt # 0 /\ journal["stop"].attempt = 0
    BY <1>1, <1>6, <1>7 DEF JournalOK, Stages
  <2> QED
    BY <1>6, <1>7, <2>1, <2>2 DEF JournalOK, Stages
<1>9. /\ ~disk[a].intent /\ Found(a) /\ box[a].start = 1
      /\ AttemptInv(a) /\ ~AbortedLaunch(a)
  BY <1>1, <1>4, <1>5, Launching DEF WorkerInv, LaunchInv, BoundPc, StartedPc, IInv
<1> USE DEF Found, Sent, NonePending, NoCreate, NoStart, Quiet, Gone, MayRemove
<1>10. box[a].id = 1 /\ Quiet(a)
  BY <1>9 DEF AttemptInv, FilesInv, Single
<1>11. ASSUME NEW b \in Attempts  PROVE AttemptInv(b)'
  <2>1. AttemptInv(b)
    BY DEF IInv
  <2>2. FilesInv(b)' /\ Single(b)'
    BY <1>2, <2>1 DEF AttemptInv, FilesInv, Single
  <2>3. RemovalInv(b)'
    BY <1>2, <1>7, <2>1 DEF AttemptInv, RemovalInv
  <2>4. OutcomeInv(b)'
    BY <1>2, <1>6, <1>7, <1>9, <1>10, <2>1
       DEF AttemptInv, OutcomeInv, AbortedLaunch
  <2> QED
    BY <2>2, <2>3, <2>4 DEF AttemptInv
<1>12. ASSUME NEW v \in Workers, v # w  PROVE WorkerInv(v)'
  <2> USE DEF Target, Done
  <2>1. worker'[v] = worker[v] /\ WorkerInv(v)
    BY <1>3, <1>12 DEF IInv, OthersKeep
  <2>2. Target(v) = a => ~Holds(v) /\ worker[v].pc \notin RemovePc
    BY <1>4, <1>5, <1>12, Alone
  <2>3. Shape(v)'
    BY <2>1 DEF WorkerInv, Shape
  <2>4. Fenced(v)'
    BY <1>3, <1>12, <2>1 DEF WorkerInv, Shape, Holds, Fenced, LaunchPc, OthersKeep
  <2>5. LaunchInv(v)'
    BY <1>2, <1>7, <2>1, <2>2 DEF WorkerInv, LaunchInv, Shape, Holds
  <2>6. AbortInv(v)'
    BY <1>2, <1>6, <1>7, <2>1, <2>2 DEF WorkerInv, AbortInv, Shape, Holds
  <2>7. RemoveInv(v)'
    <3>1. worker[v].pc \in RemovePc => Target(v) \in Attempts
      BY <2>1 DEF WorkerInv, Shape
    <3> QED
      BY <1>2, <1>7, <2>1, <3>1 DEF WorkerInv, RemoveInv
  <2>8. StopInv(v)'
    <3>1. worker[v].op # "stop"
      BY <1>7, <2>1 DEF WorkerInv, StopInv
    <3> QED
      BY <2>1, <3>1 DEF StopInv
  <2> QED
    BY <2>3, <2>4, <2>5, <2>6, <2>7, <2>8 DEF WorkerInv
<1> QED
  BY <1>2, <1>3, <1>8, <1>11, <1>12 DEF IInv

\* An abort or a stop is completed: what it was declared for is gone.
LEMMA FinishSteps ==
  ASSUME IInv, NEW w \in Workers, NEW s \in {"abort", "stop"}, FinishStage(w, s)
  PROVE  IInv'
<1>1. WorkerInv(w) /\ TypeOK /\ JournalOK /\ journal[s] \in Row
  BY DEF IInv, TypeOK, Stages
<1>2. TypeOK' /\ UNCHANGED <<disk, box, wire>> /\ Quit(w)
  BY <1>1, TypeEnds DEF FinishStage
<1>3. WorkerInv(w)' /\ OthersKeep(w)
  BY <1>1, <1>2, Quitted
<1>4. CASE UNCHANGED journal
  BY <1>2, <1>3, <1>4, NoAttempt
<1>5. CASE journal[s].status = "running" /\ journal' = [journal EXCEPT ![s] = StageCompleted(journal[s])]
  <2>1. /\ journal'[s].status = "completed" /\ journal'[s].attempt = journal[s].attempt
        /\ journal'[s].error = journal[s].error /\ journal'[s].input = journal[s].input
        /\ \A r \in Stages : r # s => journal'[r] = journal[r]
    BY <1>1, <1>5 DEF StageCompleted, TypeOK, Row, Stages
  <2>2. worker[w].op = s /\ worker[w].pc = "finish"
    BY DEF FinishStage, At
  <2>3. /\ journal[s].input = Target(w) /\ Gone(Target(w))
        /\ s = "abort" => disk[Target(w)].intent
    BY <1>1, <2>2 DEF WorkerInv, AbortInv, StopInv, IntentPc
  <2> USE DEF CompletedLaunch, AbortedLaunch, Stages
  <2>4. JournalOK'
    BY <1>1, <1>5, <2>1 DEF JournalOK
  <2>5. \A a \in Attempts :
          /\ CompletedLaunch(a)' <=> CompletedLaunch(a)
          /\ AbortedLaunch(a)' => AbortedLaunch(a) \/ (Gone(a) /\ disk[a].intent)
          /\ journal'["stop"].status = "completed" /\ journal'["stop"].input = a
               => (journal["stop"].status = "completed" /\ journal["stop"].input = a) \/ Gone(a)
    BY <2>1, <2>3
  <2>6. /\ \A r \in {"abort", "stop"} :
             journal[r].status # "absent" =>
               journal'[r].status # "absent" /\ journal'[r].input = journal[r].input
        /\ journal["stop"].attempt > 0 => journal'["stop"].attempt > 0
    BY <2>1
  <2> QED
    BY <1>2, <1>3, <2>4, <2>5, <2>6, JournalFrame
<1> QED
  BY <1>4, <1>5 DEF FinishStage, Runs

\* The daemon changes one container and answers one request.
LEMMA DaemonFrame ==
  ASSUME IInv, TypeOK', UNCHANGED <<journal, disk, fence, worker>>,
         NEW a \in Attempts, \A b \in Attempts : b # a => SameAttempt(b),
         AttemptInv(a)',
         \A v \in Workers :
           Target(v) = a => LaunchInv(v)' /\ AbortInv(v)' /\ RemoveInv(v)' /\ StopInv(v)'
  PROVE  IInv'
<1>1. JournalOK'
  BY DEF IInv, JournalOK, CompletedLaunch
<1>2. \A b \in Attempts : AttemptInv(b)'
  BY AttemptFrame DEF IInv
<1>3. ASSUME NEW v \in Workers  PROVE WorkerInv(v)'
  <2>1. WorkerInv(v)
    BY DEF IInv
  <2>2. Shape(v)' /\ Fenced(v)'
    BY <2>1 DEF WorkerInv, Shape, Fenced, Holds, Target
  <2>3. CASE Target(v) # a
    BY <2>1, <2>3, WorkerFrame DEF IInv
  <2> QED
    BY <2>2, <2>3 DEF WorkerInv
<1> QED
  BY <1>1, <1>2, <1>3 DEF IInv

LEMMA ExitStep ==
  ASSUME IInv, NEW a \in Attempts, Exit(a)
  PROVE  IInv'
<1>1. TypeOK /\ AttemptInv(a) /\ box[a] \in Container
  BY DEF IInv, TypeOK
<1>2. TypeOK' /\ UNCHANGED <<journal, disk, fence, wire, worker>>
  BY <1>1, TypeDaemon DEF Exit
<1>3. /\ box[a].state = "running" /\ box'[a].state = "exited"
      /\ box'[a].id = box[a].id /\ box'[a].start = box[a].start
      /\ \A b \in Attempts : b # a => box'[b] = box[b]
  BY <1>1 DEF Exit, TypeOK, Container
<1>4. \A b \in Attempts : b # a => SameAttempt(b)
  BY <1>2, <1>3 DEF SameAttempt
<1> USE DEF Found, Sent, NonePending, NoCreate, NoStart, Quiet, Gone, MayRemove,
            CompletedLaunch, AbortedLaunch
<1>5. AttemptInv(a)'
  BY <1>1, <1>2, <1>3 DEF AttemptInv, FilesInv, Single, RemovalInv, OutcomeInv
<1>6. ASSUME NEW v \in Workers, Target(v) = a
      PROVE  LaunchInv(v)' /\ AbortInv(v)' /\ RemoveInv(v)' /\ StopInv(v)'
  <2>1. WorkerInv(v) /\ Target(v)' = a
    BY <1>2, <1>6 DEF IInv, Target
  <2>2. LaunchInv(v)' /\ AbortInv(v)' /\ StopInv(v)'
    BY <1>2, <1>3, <1>6, <2>1 DEF WorkerInv, LaunchInv, AbortInv, StopInv
  <2>3. RemoveInv(v)'
    BY <1>2, <1>3, <1>6, <2>1 DEF WorkerInv, RemoveInv, Done
  <2> QED
    BY <2>2, <2>3
<1> QED
  BY <1>2, <1>4, <1>5, <1>6, DaemonFrame

\* Each command, as the daemon executes it.
LEMMA Executed ==
  ASSUME TypeOK, NEW m \in wire, NEW a \in Attempts, a = m.attempt, Execute(m)
  PROVE  /\ TypeOK' /\ UNCHANGED <<journal, disk, fence, worker>>
         /\ wire' = wire \ {m} /\ Effective(m)
         /\ m.cmd \in Commands
         /\ \A b \in Attempts : b # a => SameAttempt(b)
         /\ m.cmd = "create" =>
              box'[a].state = "created" /\ box'[a].id = box[a].id + 1 /\ box'[a].start = box[a].start
         /\ m.cmd = "start" =>
              box'[a].state = "running" /\ box'[a].id = box[a].id /\ box'[a].start = box[a].start + 1
         /\ m.cmd = "stop" =>
              /\ box'[a].state = (IF box[a].state = "running" THEN "exited" ELSE box[a].state)
              /\ box'[a].id = box[a].id /\ box'[a].start = box[a].start
         /\ m.cmd = "rm" =>
              box'[a].state = "absent" /\ box'[a].id = box[a].id /\ box'[a].start = box[a].start
<1>1. m \in Message /\ m.cmd \in Commands /\ box[a] \in Container
  BY DEF TypeOK, Message
<1>2. TypeOK' /\ UNCHANGED <<journal, disk, fence, worker>> /\ wire' = wire \ {m} /\ Effective(m)
  BY TypeDaemon DEF Execute
<1>3. box' = [box EXCEPT ![a] = Effect(m)]
  BY DEF Execute
<1>4. box'[a] = Effect(m) /\ \A b \in Attempts : b # a => box'[b] = box[b]
  BY <1>3 DEF TypeOK
<1>5. \A b \in Attempts : b # a => SameAttempt(b)
  BY <1>2, <1>4 DEF SameAttempt
<1> DEFINE b == box[a]
<1>6. CASE m.cmd = "create"
  <2>1. box'[a] = [b EXCEPT !.state = "created", !.id = b.id + 1]
    BY <1>4, <1>6 DEF Effect
  <2> QED
    BY <1>1, <1>2, <1>5, <1>6, <2>1 DEF Container
<1>7. CASE m.cmd = "start"
  <2>1. box'[a] = [b EXCEPT !.state = "running", !.start = b.start + 1]
    BY <1>4, <1>7 DEF Effect
  <2> QED
    BY <1>1, <1>2, <1>5, <1>7, <2>1 DEF Container
<1>8. CASE m.cmd = "stop"
  <2>1. box'[a] = [b EXCEPT !.state = IF b.state = "running" THEN "exited" ELSE b.state]
    BY <1>4, <1>8 DEF Effect
  <2> QED
    BY <1>1, <1>2, <1>5, <1>8, <2>1 DEF Container
<1>9. CASE m.cmd = "rm"
  <2>1. box'[a] = [b EXCEPT !.state = "absent"]
    BY <1>4, <1>9 DEF Effect
  <2> QED
    BY <1>1, <1>2, <1>5, <1>9, <2>1 DEF Container
<1> QED
  BY <1>1, <1>6, <1>7, <1>8, <1>9 DEF Commands

LEMMA ExecuteStep ==
  ASSUME IInv, NEW m \in wire, Execute(m)
  PROVE  IInv'
<1>1. TypeOK /\ m \in Message /\ m.attempt \in Attempts
  BY DEF IInv, TypeOK, Message
<1>2. PICK a \in Attempts : a = m.attempt
  BY <1>1
<1>3. AttemptInv(a) /\ box[a] \in Container
  BY <1>1 DEF IInv, TypeOK
<1>4. /\ TypeOK' /\ UNCHANGED <<journal, disk, fence, worker>>
      /\ wire' = wire \ {m} /\ Effective(m) /\ m.cmd \in Commands
      /\ \A b \in Attempts : b # a => SameAttempt(b)
  BY <1>1, <1>2, Executed
<1> USE DEF Found, Sent, NonePending, NoCreate, NoStart, Quiet, Gone, MayRemove,
            CompletedLaunch, AbortedLaunch
<1>5. SUFFICES
        /\ AttemptInv(a)'
        /\ \A v \in Workers :
             Target(v) = a => LaunchInv(v)' /\ AbortInv(v)' /\ RemoveInv(v)' /\ StopInv(v)'
  BY <1>4, DaemonFrame
<1>6. \A v \in Workers : WorkerInv(v) /\ Target(v)' = Target(v)
  BY <1>4 DEF IInv, Target
\* While it may still be created or started, nobody aborts, stops or removes it.
<1>7. ASSUME ~Quiet(a)
      PROVE  /\ \A n \in wire : ~Sent(n, {"stop", "rm"}, a)
             /\ ~CompletedLaunch(a) /\ ~AbortedLaunch(a)
             /\ ~(journal["stop"].status = "completed" /\ journal["stop"].input = a)
             /\ \A v \in Workers :
                  Target(v) = a =>
                    /\ worker[v].pc \notin RemovePc /\ worker[v].op # "stop"
                    /\ ~(worker[v].op = "abort" /\ worker[v].pc \in {"absent", "fail", "finish"})
                    /\ ~(worker[v].op = "abort" /\ worker[v].pc # "enter" /\ worker[v].seen = "aborted")
  <2>1. ~CompletedLaunch(a)
    BY <1>3, <1>7 DEF AttemptInv, OutcomeInv
  <2>2. /\ \A n \in wire : ~Sent(n, {"stop", "rm"}, a)
        /\ ~AbortedLaunch(a)
        /\ ~(journal["stop"].status = "completed" /\ journal["stop"].input = a)
    BY <1>3, <1>7 DEF AttemptInv, RemovalInv, OutcomeInv
  <2>3. ASSUME NEW v \in Workers, Target(v) = a
        PROVE  /\ worker[v].pc \notin RemovePc /\ worker[v].op # "stop"
               /\ ~(worker[v].op = "abort" /\ worker[v].pc \in {"absent", "fail", "finish"})
               /\ ~(worker[v].op = "abort" /\ worker[v].pc # "enter" /\ worker[v].seen = "aborted")
    BY <1>6, <1>7, <2>1, <2>3 DEF WorkerInv, RemoveInv, StopInv, AbortInv
  <2> QED
    BY <2>1, <2>2, <2>3
<1>8. CASE m.cmd = "create"
  <2>1. box'[a].state = "created" /\ box'[a].id = box[a].id + 1 /\ box'[a].start = box[a].start
    BY <1>1, <1>2, <1>8, Executed
  <2>2. ~Quiet(a) /\ ~NoCreate(a)
    BY <1>2, <1>8
  <2>3. /\ box[a].id = 0 /\ box'[a].id = 1 /\ disk[a].allocation = 0
        /\ box[a].start = 0 /\ NoStart(a) /\ disk[a].createRequest
        /\ \A n \in wire' : ~Sent(n, {"create"}, a)
    BY <1>2, <1>3, <1>4, <1>8, <2>1 DEF AttemptInv, Single, FilesInv
  <2>4. AttemptInv(a)'
    BY <1>3, <1>4, <1>7, <2>1, <2>2, <2>3
       DEF AttemptInv, FilesInv, Single, RemovalInv, OutcomeInv
  <2>5. ASSUME NEW v \in Workers, Target(v) = a
        PROVE  LaunchInv(v)' /\ AbortInv(v)' /\ RemoveInv(v)' /\ StopInv(v)'
    <3>1. LaunchInv(v)'
      BY <1>4, <1>6, <2>1, <2>2, <2>3, <2>5 DEF WorkerInv, LaunchInv, BoundPc, StartedPc
    <3>2. AbortInv(v)'
      BY <1>4, <1>6, <1>7, <2>2, <2>5 DEF WorkerInv, AbortInv
    <3>3. RemoveInv(v)' /\ StopInv(v)'
      BY <1>4, <1>7, <2>2, <2>5 DEF RemoveInv, StopInv
    <3> QED
      BY <3>1, <3>2, <3>3
  <2> QED
    BY <2>4, <2>5
<1>9. CASE m.cmd = "start"
  <2>1. box'[a].state = "running" /\ box'[a].id = box[a].id /\ box'[a].start = box[a].start + 1
    BY <1>1, <1>2, <1>9, Executed
  <2>2. ~Quiet(a) /\ ~NoStart(a) /\ Found(a)
    BY <1>2, <1>4, <1>9 DEF Effective
  <2>3. /\ box[a].start = 0 /\ box'[a].start = 1 /\ box[a].id = 1
        /\ \A n \in wire' : ~Sent(n, {"start"}, a)
    BY <1>2, <1>3, <1>4, <1>9, <2>1, <2>2 DEF AttemptInv, Single, FilesInv
  <2>4. AttemptInv(a)'
    BY <1>3, <1>4, <1>7, <2>1, <2>2, <2>3
       DEF AttemptInv, FilesInv, Single, RemovalInv, OutcomeInv
  <2>5. ASSUME NEW v \in Workers, Target(v) = a
        PROVE  LaunchInv(v)' /\ AbortInv(v)' /\ RemoveInv(v)' /\ StopInv(v)'
    <3>1. LaunchInv(v)'
      BY <1>4, <1>6, <2>1, <2>2, <2>3, <2>5 DEF WorkerInv, LaunchInv, BoundPc, StartedPc
    <3>2. AbortInv(v)'
      BY <1>4, <1>6, <1>7, <2>2, <2>5 DEF WorkerInv, AbortInv
    <3>3. RemoveInv(v)' /\ StopInv(v)'
      BY <1>4, <1>7, <2>2, <2>5 DEF RemoveInv, StopInv
    <3> QED
      BY <3>1, <3>2, <3>3
  <2> QED
    BY <2>4, <2>5
<1>10. CASE m.cmd = "stop"
  <2>1. /\ box'[a].state = (IF box[a].state = "running" THEN "exited" ELSE box[a].state)
        /\ box'[a].id = box[a].id /\ box'[a].start = box[a].start
    BY <1>1, <1>2, <1>10, Executed
  <2>2. AttemptInv(a)'
    BY <1>3, <1>4, <1>10, <2>1 DEF AttemptInv, FilesInv, Single, RemovalInv, OutcomeInv
  <2>3. ASSUME NEW v \in Workers, Target(v) = a
        PROVE  LaunchInv(v)' /\ AbortInv(v)' /\ RemoveInv(v)' /\ StopInv(v)'
    <3>1. LaunchInv(v)'
      BY <1>4, <1>6, <1>10, <2>1, <2>3 DEF WorkerInv, LaunchInv
    <3>2. AbortInv(v)' /\ StopInv(v)'
      BY <1>4, <1>6, <1>10, <2>1, <2>3 DEF WorkerInv, AbortInv, StopInv
    <3>3. RemoveInv(v)'
      BY <1>4, <1>6, <1>10, <2>1, <2>3 DEF WorkerInv, RemoveInv, Done
    <3> QED
      BY <3>1, <3>2, <3>3
  <2> QED
    BY <2>2, <2>3
<1>11. CASE m.cmd = "rm"
  <2>1. box'[a].state = "absent" /\ box'[a].id = box[a].id /\ box'[a].start = box[a].start
    BY <1>1, <1>2, <1>11, Executed
  <2>2. Quiet(a) /\ MayRemove(a)
    BY <1>2, <1>3, <1>11 DEF AttemptInv, RemovalInv
  <2>3. journal["stop"].attempt # 0 \/ ~CompletedLaunch(a)
    <3>1. CompletedLaunch(a) => ~disk[a].intent
      BY <1>3 DEF AttemptInv, OutcomeInv
    <3>2. journal["stop"] \in Row
      BY <1>1 DEF TypeOK, Stages
    <3> QED
      BY <2>2, <3>1, <3>2, RuntimeAssumption DEF Row
  <2>4. AttemptInv(a)'
    BY <1>3, <1>4, <1>11, <2>1, <2>2, <2>3
       DEF AttemptInv, FilesInv, Single, RemovalInv, OutcomeInv
  <2>5. ASSUME NEW v \in Workers, Target(v) = a
        PROVE  LaunchInv(v)' /\ AbortInv(v)' /\ RemoveInv(v)' /\ StopInv(v)'
    <3>1. LaunchInv(v)'
      BY <1>4, <1>6, <2>2, <2>5 DEF WorkerInv, LaunchInv
    <3>2. AbortInv(v)' /\ StopInv(v)'
      BY <1>4, <1>6, <1>11, <2>1, <2>2, <2>5 DEF WorkerInv, AbortInv, StopInv
    <3>3. RemoveInv(v)'
      BY <1>4, <1>6, <2>1, <2>2, <2>5 DEF WorkerInv, RemoveInv
    <3> QED
      BY <3>1, <3>2, <3>3
  <2> QED
    BY <2>4, <2>5
<1> QED
  BY <1>4, <1>8, <1>9, <1>10, <1>11 DEF Commands

\* A request fails: whoever waits for it gives up, so that nobody concludes from
\* its end that it took effect.
LEMMA RefuseStep ==
  ASSUME IInv, NEW m \in wire, Refuse(m)
  PROVE  IInv'
<1>1. TypeOK /\ m.by \in Workers
  BY EffectType DEF IInv
<1>2. TypeOK' /\ UNCHANGED <<journal, disk, box>> /\ wire' = wire \ {m}
  BY <1>1, TypeDaemon DEF Refuse
<1>3. /\ OthersKeep(m.by)
      /\ IF Awaits(m.by, m) THEN WorkerInv(m.by)' ELSE UNCHANGED <<worker, fence>>
  BY <1>1, Quitted DEF Refuse, OthersKeep
<1>4. JournalOK'
  BY <1>2 DEF IInv, JournalOK, CompletedLaunch
<1> USE DEF Found, Sent, NonePending, NoCreate, NoStart, Quiet, Gone, MayRemove,
            CompletedLaunch, AbortedLaunch
<1>5. ASSUME NEW a \in Attempts  PROVE AttemptInv(a)'
  <2>1. AttemptInv(a)
    BY DEF IInv
  <2> QED
    BY <1>2, <2>1 DEF AttemptInv, FilesInv, Single, RemovalInv, OutcomeInv
<1>6. ASSUME NEW v \in Workers  PROVE WorkerInv(v)'
  <2>1. CASE v = m.by /\ Awaits(v, m)
    BY <1>3, <2>1
  <2>2. CASE ~(v = m.by /\ Awaits(v, m))
    <3>1. /\ worker'[v] = worker[v] /\ WorkerInv(v)
          /\ \A a \in Attempts : fence[a] = v => fence'[a] = v
      BY <1>3, <2>2 DEF OthersKeep, IInv
    <3> USE DEF Target
    <3>2. Shape(v)'
      BY <3>1 DEF WorkerInv, Shape
    <3>3. Fenced(v)'
      BY <3>1 DEF WorkerInv, Shape, Holds, Fenced, LaunchPc
    <3>4. LaunchInv(v)'
      BY <1>2, <2>2, <3>1 DEF WorkerInv, LaunchInv, Awaits
    <3>5. AbortInv(v)' /\ StopInv(v)'
      BY <1>2, <3>1 DEF WorkerInv, AbortInv, StopInv
    <3>6. RemoveInv(v)'
      BY <1>2, <2>2, <3>1 DEF WorkerInv, RemoveInv, Done, Awaits
    <3> QED
      BY <3>2, <3>3, <3>4, <3>5, <3>6 DEF WorkerInv
  <2> QED
    BY <2>1, <2>2
<1> QED
  BY <1>2, <1>4, <1>5, <1>6 DEF IInv

-----------------------------------------------------------------------------
(* The invariant holds *)

LEMMA InitInv == Init => IInv
<1> SUFFICES ASSUME Init  PROVE IInv
  OBVIOUS
<1> USE RuntimeAssumption DEF Init
<1>1. TypeOK
  <2>1. Undeclared \in Row /\ NoFiles \in Files /\ NoBox \in Container
    BY DEF Undeclared, Row, NoFiles, Files, NoBox, Container
  <2> QED
    BY <2>1, IdleType DEF TypeOK
<1>2. JournalOK
  BY DEF JournalOK, Undeclared, Stages
<1>3. \A a \in Attempts : AttemptInv(a)
  BY DEF AttemptInv, FilesInv, Single, RemovalInv, OutcomeInv, CompletedLaunch, AbortedLaunch,
         Undeclared, Stages, NoFiles, NoBox, Found, NonePending, NoCreate, NoStart, Quiet
<1>4. \A w \in Workers : worker[w].op = "none" /\ worker[w].pc = "idle"
  BY DEF Idle
<1>5. \A w \in Workers : WorkerInv(w)
  BY <1>4 DEF WorkerInv, Shape, Holds, Fenced, LaunchInv, AbortInv, RemoveInv, StopInv,
              LaunchPc, AbortPc, RemovePc
<1> QED
  BY <1>1, <1>2, <1>3, <1>5 DEF IInv

LEMMA StepInv == IInv /\ [Next]_vars => IInv'
<1> SUFFICES ASSUME IInv, [Next]_vars  PROVE IInv'
  OBVIOUS
<1>1. ASSUME NEW w \in Workers, StartStep(w)  PROVE IInv'
  BY <1>1, StartSteps, FailSteps DEF StartStep
<1>2. ASSUME NEW w \in Workers, LaunchStep(w)  PROVE IInv'
  BY <1>2, DeclareSteps, EnterSteps, LaunchWrites, LaunchSends, MoveSteps, PublishStep
     DEF LaunchStep
<1>3. ASSUME NEW w \in Workers, AbortStep(w)  PROVE IInv'
  BY <1>3, EnterSteps, DeclareSteps, AbortWrites, MoveSteps, FailSteps, FinishSteps
     DEF AbortStep
<1>4. ASSUME NEW w \in Workers, StopStep(w)  PROVE IInv'
  BY <1>4, DeclareSteps, MoveSteps, FinishSteps DEF StopStep
<1>5. ASSUME NEW w \in Workers, RemoveStep(w)  PROVE IInv'
  BY <1>5, RemoveSends, MoveSteps DEF RemoveStep
<1>6. ASSUME NEW w \in Workers, Leave(w)  PROVE IInv'
  BY <1>6, EnterSteps
<1>7. ASSUME NEW m \in wire, Execute(m) \/ Refuse(m)  PROVE IInv'
  BY <1>7, ExecuteStep, RefuseStep
<1>8. ASSUME NEW a \in Attempts, Exit(a)  PROVE IInv'
  BY <1>8, ExitStep
<1>9. CASE UNCHANGED vars
  BY <1>9 DEF vars, IInv, TypeOK, JournalOK, AttemptInv, FilesInv, Single, RemovalInv,
              OutcomeInv, WorkerInv, Shape, Holds, Fenced, LaunchInv, AbortInv, RemoveInv,
              StopInv, MayRemove, CompletedLaunch, AbortedLaunch, Gone, Found, NonePending,
              NoCreate, NoStart, Quiet, Done, Target
<1> QED
  BY <1>1, <1>2, <1>3, <1>4, <1>5, <1>6, <1>7, <1>8, <1>9 DEF Next

\* The inductive invariant, which the theorems below read off.
THEOREM RuntimeInductive == Spec => []IInv
<1>1. Init => IInv
  BY InitInv
<1>2. IInv /\ [Next]_vars => IInv'
  BY StepInv
<1> QED
  BY <1>1, <1>2, PTL DEF Spec

-----------------------------------------------------------------------------
(* What follows *)

\* The journal, the files, the containers and the requests keep their types.
THEOREM RuntimeTypeCorrect == Spec => []TypeOK
<1>1. IInv => TypeOK
  BY DEF IInv
<1> QED
  BY <1>1, RuntimeInductive, PTL

\* create and start_runtime leave a request file behind before they call docker,
\* and nobody calls it again for the same attempt: one container, one start.
THEOREM OneContainerCorrect == Spec => []OneContainer
<1>1. IInv => OneContainer
  BY DEF IInv, AttemptInv, Single, OneContainer
<1> QED
  BY <1>1, RuntimeInductive, PTL

\* A launch that abort_runtime_stage has aborted has no container, and no request
\* under way can give it one.
THEOREM AbortedCorrect == Spec => []AbortedIsGone
<1>1. IInv => AbortedIsGone
  BY DEF IInv, AttemptInv, OutcomeInv, AbortedIsGone
<1> QED
  BY <1>1, RuntimeInductive, PTL

\* Before stop_runtime_stage has started an attempt of its own, a completed launch
\* keeps its container, whatever aborts have begun or died.
THEOREM OnlyStopCorrect == Spec => []OnlyStopRemoves
<1>1. ASSUME IInv, NEW a \in Attempts, CompletedLaunch(a), journal["stop"].attempt = 0
      PROVE  Found(a) /\ NonePending({"stop", "rm"}, a)
  <2>1. AttemptInv(a)
    BY <1>1 DEF IInv
  <2>2. Found(a) /\ ~disk[a].intent
    BY <1>1, <2>1 DEF AttemptInv, OutcomeInv
  <2>3. ~MayRemove(a)
    BY <1>1, <2>2 DEF MayRemove
  <2> QED
    BY <2>1, <2>2, <2>3 DEF AttemptInv, RemovalInv, NonePending
<1>2. IInv => OnlyStopRemoves
  BY <1>1 DEF OnlyStopRemoves
<1> QED
  BY <1>2, RuntimeInductive, PTL

\* The receipt of stop_runtime_stage, published without a fence, tells the truth.
THEOREM StoppedCorrect == Spec => []StoppedIsGone
<1>1. IInv => StoppedIsGone
  BY DEF IInv, AttemptInv, OutcomeInv, StoppedIsGone
<1> QED
  BY <1>1, RuntimeInductive, PTL

\* After record_abort_intent, no create or start of that attempt is sent.
THEOREM IntentCorrect == Spec => IntentBlocks
<1>1. ASSUME IInv, Next, NEW a \in Attempts, disk[a].intent, NEW m \in wire',
             Sent(m, {"create", "start"}, a), m \notin wire
      PROVE  FALSE
  <2>1. PICK w \in Workers :
               SendCreate(w) \/ SendStart(w) \/ SendStop(w) \/ SendRemove(w)
    <3>1. \/ wire' \subseteq wire
          \/ \E w \in Workers :
               SendCreate(w) \/ SendStart(w) \/ SendStop(w) \/ SendRemove(w)
      BY ZenonT(30), <1>1
         DEF Next, StartStep, LaunchStep, AbortStep, StopStep, RemoveStep, Leave, StartStage,
             CancelStart, NewAttempt, FailAfterDrain, ReadLaunch, EnterLaunch, RequestCreate,
             CreateDone, Adopt, RequestStart, StartDone, Observe, Ready, PublishLaunch,
             ReadAbort, EnterAbort, DeclareAbort, RecordIntent, ReplayAbort, ReconcileAbsent,
             ReconcileFound, VerifyAbsent, FailLaunch, FinishStage, DeclareStop, LookupAbsent,
             LookupFound, StopDone, CheckStopped, RemoveDone, Execute, Refuse, Exit
    <3> QED
      BY <1>1, <3>1
  <2>2. WorkerInv(w)
    BY <1>1 DEF IInv
  <2>3. CASE SendCreate(w) \/ SendStart(w)
    <3>1. worker[w].pc \in LaunchPc
      BY <2>3 DEF SendCreate, SendStart, Send, LaunchPc
    <3>2. m.attempt = Target(w)
      BY <1>1, <2>3 DEF SendCreate, SendStart, Send, Request, Target
    <3>3. ~disk[m.attempt].intent
      BY <2>2, <3>1, <3>2 DEF WorkerInv, LaunchInv
    <3> QED
      BY <1>1, <3>3 DEF Sent
  <2>4. CASE SendStop(w) \/ SendRemove(w)
    <3>1. m.cmd \in {"stop", "rm"}
      BY <1>1, <2>4 DEF SendStop, SendRemove, Send, Request
    <3> QED
      BY <1>1, <3>1 DEF Sent
  <2> QED
    BY <2>1, <2>3, <2>4
<1>2. ASSUME IInv, [Next]_vars
      PROVE  [\A a \in Attempts :
                disk[a].intent =>
                  \A m \in wire' : Sent(m, {"create", "start"}, a) => m \in wire]_vars
  BY <1>1, <1>2
<1> QED
  BY <1>2, RuntimeInductive, PTL DEF Spec, IntentBlocks

-----------------------------------------------------------------------------
(* Implementation of Lifetime *)

Lives == [a \in Attempts |-> Standing(a)]
Ending == {a \in Attempts :
             disk[a].intent \/ (CompletedLaunch(a) /\ journal["stop"].attempt > 0)}
Launched == {a \in Attempts : CompletedLaunch(a)}
Ended == {a \in Attempts : \E s \in {"abort", "stop"} :
            journal[s].status = "completed" /\ journal[s].input = a}
contract == <<Lives, Ending, Launched, Ended>>

\* What the standing of an attempt depends on.
LEMMA StandingFrame ==
  ASSUME NEW a \in Attempts, Found(a)' <=> Found(a), box'[a].id = box[a].id,
         disk'[a].intent <=> disk[a].intent,
         disk[a].intent => (NoCreate(a)' <=> NoCreate(a))
  PROVE  Standing(a)' = Standing(a)
BY DEF Standing, NoCreate

LEMMA SameStanding ==
  ASSUME NEW a \in Attempts, SameAttempt(a)
  PROVE  Standing(a)' = Standing(a)
BY StandingFrame DEF SameAttempt, Found, NoCreate, NonePending, Sent

\* What the receipts and the decisions depend on.
LEMMA ReceiptFrame ==
  ASSUME UNCHANGED journal
  PROVE  /\ UNCHANGED <<Launched, Ended>>
         /\ (\A a \in Attempts : disk'[a].intent <=> disk[a].intent) => Ending' = Ending
BY DEF Launched, Ended, Ending, CompletedLaunch

LEMMA ContractStays ==
  ASSUME UNCHANGED journal,
         \A a \in Attempts : /\ disk'[a].intent <=> disk[a].intent
                             /\ Standing(a)' = Standing(a)
  PROVE  UNCHANGED contract
BY ReceiptFrame DEF contract, Lives

LEMMA LivesFrame ==
  ASSUME UNCHANGED <<disk, box, wire>>
  PROVE  Lives' = Lives
<1>1. \A a \in Attempts : Standing(a)' = Standing(a)
  BY SameStanding DEF SameAttempt
<1> QED
  BY <1>1 DEF Lives

LEMMA OneLife ==
  ASSUME NEW a \in Attempts, \A b \in Attempts : b # a => Standing(b)' = Standing(b),
         NEW v, Standing(a)' = v
  PROVE  Lives' = [Lives EXCEPT ![a] = v]
BY DEF Lives

\* The steps that only move on, and those that write a file other than the intent.
LEMMA SilentSteps ==
  ASSUME IInv, NEW w \in Workers,
         \/ UNCHANGED <<journal, disk, box, wire>>
         \/ RequestCreate(w) \/ CreateDone(w) \/ Adopt(w) \/ RequestStart(w) \/ Observe(w)
         \/ ReconcileFound(w)
  PROVE  UNCHANGED contract
<1>1. CASE UNCHANGED <<journal, disk, box, wire>>
  BY <1>1, SameStanding, ContractStays DEF SameAttempt
<1>2. CASE \/ RequestCreate(w) \/ CreateDone(w) \/ Adopt(w) \/ RequestStart(w) \/ Observe(w)
           \/ ReconcileFound(w)
  <2>1. Target(w) \in Attempts
    BY <1>2 DEF IInv, WorkerInv, Shape, RequestCreate, CreateDone, Adopt, RequestStart, Observe,
                ReconcileFound, At, LaunchPc
  <2>2. UNCHANGED <<journal, box, wire>>
    BY <1>2 DEF RequestCreate, CreateDone, Adopt, RequestStart, Observe, ReconcileFound
  <2>3. \E file \in {"createRequest", "createComplete", "allocation", "startRequest",
                     "firstStart"} :
          \E content : Write(Target(w), file, content)
    BY <1>2 DEF RequestCreate, CreateDone, Adopt, RequestStart, Observe, ReconcileFound
  <2>4. \A a \in Attempts : disk'[a].intent = disk[a].intent
    BY <2>1, <2>3, Written DEF IInv
  <2>5. \A a \in Attempts : Standing(a)' = Standing(a)
    BY <2>2, <2>4, StandingFrame DEF Found, NoCreate, NonePending
  <2> QED
    BY <2>2, <2>4, <2>5, ContractStays
<1> QED
  BY <1>1, <1>2

\* record_abort_intent is the decision, and the end of an attempt that nobody
\* has asked the daemon for.
LEMMA IntentStep ==
  ASSUME IInv, NEW w \in Workers, RecordIntent(w)
  PROVE  \E a \in Attempts : Contract!Decide(a)
<1>1. PICK a \in Attempts : a = Target(w)
  BY DEF IInv, WorkerInv, Shape, RecordIntent, At
<1>2. /\ UNCHANGED <<journal, box, wire>>
      /\ disk'[a].intent
      /\ \A b \in Attempts : b # a => disk'[b] = disk[b]
  BY <1>1, Written, Marked DEF RecordIntent, IInv
<1>3. \A b \in Attempts : b # a => Standing(b)' = Standing(b)
  BY <1>2, SameStanding DEF SameAttempt
<1>4. Standing(a)' = Standing(a) \/ (Standing(a) = "off" /\ Standing(a)' = "gone")
  BY <1>2 DEF Standing, Found, NonePending
<1>5. \/ Lives' = Lives
      \/ Lives' = [Lives EXCEPT ![a] = IF @ = "off" THEN "gone" ELSE @]
  BY <1>3, <1>4 DEF Lives
<1>6. Ending' = Ending \cup {a}
  BY <1>2 DEF Ending, CompletedLaunch
<1> QED
  BY <1>2, <1>5, <1>6, ReceiptFrame DEF Contract!Decide, Lives, Ending, Launched, Ended

\* A create is sent only where there is no intent; the other requests say nothing.
LEMMA SendSteps ==
  ASSUME IInv, NEW w \in Workers,
         SendCreate(w) \/ SendStart(w) \/ SendStop(w) \/ SendRemove(w)
  PROVE  UNCHANGED contract
<1>1. PICK a \in Attempts : a = Target(w)
  BY DEF IInv, WorkerInv, Shape, SendCreate, SendStart, SendStop, SendRemove, Send, LaunchPc,
         RemovePc
<1>2. PICK cmd \in Commands : /\ wire' = wire \cup {Request(w, cmd)}
                              /\ cmd = "create" => worker[w].pc = "create"
                              /\ UNCHANGED <<journal, disk, box>>
  BY DEF SendCreate, SendStart, SendStop, SendRemove, Send, Commands
<1>3. cmd = "create" => ~disk[a].intent
  BY <1>1, <1>2 DEF IInv, WorkerInv, LaunchInv, LaunchPc
<1>4. Request(w, cmd).cmd = cmd /\ Request(w, cmd).attempt = a
  BY <1>1 DEF Request, Target
<1>5. ASSUME NEW b \in Attempts  PROVE Standing(b)' = Standing(b)
  <2>1. disk[b].intent => (NoCreate(b)' <=> NoCreate(b))
    BY <1>2, <1>3, <1>4 DEF NoCreate, NonePending, Sent
  <2> QED
    BY <1>2, <2>1, StandingFrame DEF Found
<1> QED
  BY <1>2, <1>5, ContractStays

\* The daemon: a create makes the attempt come, a removal makes it go.
LEMMA ExecuteSeen ==
  ASSUME IInv, NEW m \in wire, Execute(m)
  PROVE  \/ UNCHANGED contract
         \/ \E a \in Attempts : Contract!Come(a) \/ Contract!Go(a)
<1>1. TypeOK /\ m.attempt \in Attempts
  BY DEF IInv, TypeOK, Message
<1>2. PICK a \in Attempts : a = m.attempt
  BY <1>1
<1>3. /\ UNCHANGED <<journal, disk>> /\ wire' = wire \ {m} /\ Effective(m)
      /\ m.cmd \in Commands
      /\ \A b \in Attempts : b # a => SameAttempt(b)
  BY <1>1, <1>2, Executed
<1>4. \A b \in Attempts : b # a => Standing(b)' = Standing(b)
  BY <1>3, SameStanding
<1>5. UNCHANGED <<Ending, Launched, Ended>>
  BY <1>3, ReceiptFrame
<1>6. AttemptInv(a) /\ box[a].id \in Nat
  BY <1>1 DEF IInv, TypeOK, Container
<1>7. CASE m.cmd = "create"
  <2>1. box[a].id = 0 /\ ~Found(a) /\ Found(a)'
    BY <1>1, <1>2, <1>3, <1>6, <1>7, Executed
       DEF AttemptInv, Single, Sent, Effective, Found
  <2>2. Standing(a) = "off" /\ Standing(a)' = "there"
    BY <1>2, <1>7, <2>1 DEF Standing, NonePending, Sent
  <2>3. Lives' = [Lives EXCEPT ![a] = "there"]
    BY <1>4, <2>2, OneLife
  <2> QED
    BY <1>5, <2>2, <2>3 DEF Contract!Come, Lives, Ending, Launched, Ended
<1>8. CASE m.cmd = "rm"
  <2>1. box[a].id = 1 /\ box'[a].id = 1 /\ ~Found(a)'
    BY <1>1, <1>2, <1>3, <1>6, <1>8, Executed DEF AttemptInv, FilesInv, Effective, Found
  <2>2. Standing(a)' = "gone"
    BY <2>1 DEF Standing
  <2>3. a \in Ending
    BY <1>2, <1>6, <1>8 DEF AttemptInv, RemovalInv, Sent, MayRemove, Ending
  <2>4. Lives' = [Lives EXCEPT ![a] = "gone"]
    BY <1>4, <2>2, OneLife
  <2> QED
    BY <1>5, <2>3, <2>4 DEF Contract!Go, Lives, Ending, Launched, Ended
<1>9. CASE m.cmd \in {"start", "stop"}
  <2>1. (Found(a)' <=> Found(a)) /\ box'[a].id = box[a].id
    BY <1>1, <1>2, <1>3, <1>9, Executed DEF Effective, Found
  <2>2. NoCreate(a)' <=> NoCreate(a)
    BY <1>3, <1>9 DEF NoCreate, NonePending, Sent
  <2>3. Standing(a)' = Standing(a)
    BY <1>3, <2>1, <2>2, StandingFrame
  <2> QED
    BY <1>3, <1>4, <2>3, ContractStays
<1> QED
  BY <1>3, <1>7, <1>8, <1>9 DEF Commands

\* A create that is refused after the intent leaves nothing that could come.
LEMMA RefuseSeen ==
  ASSUME IInv, NEW m \in wire, Refuse(m)
  PROVE  UNCHANGED contract \/ \E a \in Attempts : Contract!Go(a)
<1>1. TypeOK /\ m.attempt \in Attempts
  BY DEF IInv, TypeOK, Message
<1>2. PICK a \in Attempts : a = m.attempt
  BY <1>1
<1>3. UNCHANGED <<journal, disk, box>> /\ wire' = wire \ {m}
  BY DEF Refuse
<1>4. \A b \in Attempts : b # a => Standing(b)' = Standing(b)
  BY <1>2, <1>3, SameStanding DEF SameAttempt
<1>5. UNCHANGED <<Ending, Launched, Ended>>
  BY <1>3, ReceiptFrame
<1>6. CASE Standing(a)' = Standing(a)
  BY <1>3, <1>4, <1>6, ContractStays
<1>7. CASE Standing(a)' # Standing(a)
  <2>1. disk[a].intent /\ Standing(a)' = "gone"
    BY <1>3, <1>7 DEF Standing, Found, NonePending
  <2>2. a \in Ending
    BY <2>1 DEF Ending
  <2>3. Lives' = [Lives EXCEPT ![a] = "gone"]
    BY <1>4, <2>1, OneLife
  <2> QED
    BY <1>5, <2>2, <2>3 DEF Contract!Go, Lives, Ending, Launched, Ended
<1> QED
  BY <1>6, <1>7

LEMMA ExitSeen ==
  ASSUME IInv, NEW a \in Attempts, Exit(a)
  PROVE  UNCHANGED contract
<1>1. box[a] \in Container
  BY DEF IInv, TypeOK
<1>2. /\ box[a].state = "running" /\ box'[a].state = "exited" /\ box'[a].id = box[a].id
      /\ \A b \in Attempts : b # a => box'[b] = box[b]
  BY <1>1 DEF Exit, IInv, TypeOK, Container
<1>3. UNCHANGED <<journal, disk, wire>>
  BY DEF Exit
<1>4. \A b \in Attempts : Standing(b)' = Standing(b)
  BY <1>2, <1>3, StandingFrame DEF Found, NoCreate, NonePending
<1> QED
  BY <1>3, <1>4, ContractStays

LEMMA RowFields ==
  ASSUME NEW row \in Row, NEW e
  PROVE  /\ StageStarted(row).status = "running"
         /\ StageStarted(row).attempt = row.attempt + 1
         /\ StageFailed(row, e).status = "failed"
         /\ StageFailed(row, e).attempt = row.attempt
         /\ StageCompleted(row).status = "completed"
         /\ StageCompleted(row).attempt = row.attempt
         /\ StageCompleted(row).input = row.input
BY DEF StageStarted, StageFailed, StageCompleted, Row

\* A row of the journal changes, and is not completed before or after.
LEMMA RowSteps ==
  ASSUME IInv, NEW w \in Workers,
         \/ CancelStart(w) \/ StartStage(w) \/ FailAfterDrain(w) \/ ReadLaunch(w)
         \/ DeclareAbort(w) \/ DeclareStop(w) \/ FailLaunch(w)
  PROVE  UNCHANGED contract \/ \E a \in Attempts : Contract!Decide(a)
<1>0. UNCHANGED <<disk, box, wire>>
  BY DEF CancelStart, StartStage, NewAttempt, FailAfterDrain, ReadLaunch, DeclareAbort,
         DeclareStop, FailLaunch
<1>1. Lives' = Lives
  BY <1>0, LivesFrame
<1>2. \A s \in Stages : journal[s] \in Row
  BY DEF IInv, TypeOK
<1>3. ASSUME CancelStart(w) \/ StartStage(w)
      PROVE  /\ worker[w].op \in Stages
             /\ journal[worker[w].op].status \in {"planned", "failed"}
             /\ journal' = [journal EXCEPT ![worker[w].op] = StageStarted(@)]
             /\ worker[w].pc = "start"
  <2>1. PICK pc : NewAttempt(w, pc)
    BY <1>3 DEF CancelStart, StartStage
  <2>2. worker[w].pc = "start" /\ worker[w].op \in Stages
    BY <2>1 DEF NewAttempt, IInv, TypeOK, Execution, WorkerInv, Shape
  <2> QED
    BY <2>1, <2>2 DEF NewAttempt, Startable
<1>4. \A s \in Stages : \/ journal'[s] = journal[s]
                        \/ journal[s].status # "completed" /\ journal'[s].status # "completed"
  <2>1. CASE CancelStart(w) \/ StartStage(w)
    <3>1. PICK o \in Stages : o = worker[w].op
      BY <1>3, <2>1
    <3>2. /\ journal' = [journal EXCEPT ![o] = StageStarted(journal[o])]
          /\ journal[o].status # "completed"
      BY <1>3, <2>1, <3>1
    <3> QED
      BY <1>2, <3>2, RowFields DEF IInv, TypeOK
  <2>2. CASE FailAfterDrain(w)
    BY <1>2, <2>2, RowFields DEF FailAfterDrain, Runs, IInv, TypeOK
  <2>3. CASE ReadLaunch(w)
    <3>1. Declared("launch", 0).status # "completed"
      BY <2>3 DEF ReadLaunch
    <3>2. journal' = [journal EXCEPT !["launch"] = Declared("launch", 0)]
      BY <2>3 DEF ReadLaunch
    <3> QED
      BY <1>2, <3>1, <3>2 DEF Declared, IInv, TypeOK, Stages
  <2>4. CASE DeclareAbort(w) \/ DeclareStop(w)
    <3>0. PICK s \in Stages : \E a : journal' = [journal EXCEPT ![s] = Declared(s, a)]
      BY <2>4 DEF DeclareAbort, DeclareStop, Stages
    <3>1. PICK a : journal' = [journal EXCEPT ![s] = Declared(s, a)]
      BY <3>0
    <3>2. [Undeclared EXCEPT !.status = "planned", !.input = a].status = "planned"
      BY DEF Undeclared
    <3>3. \/ Declared(s, a) = journal[s]
          \/ journal[s].status = "absent" /\ Declared(s, a).status = "planned"
      BY <3>2 DEF Declared
    <3> QED
      BY <1>2, <3>1, <3>3 DEF IInv, TypeOK
  <2>5. CASE FailLaunch(w)
    BY <1>2, <2>5, RowFields DEF FailLaunch, Runs, IInv, TypeOK, Stages
  <2> QED
    BY <2>1, <2>2, <2>3, <2>4, <2>5
<1>5. Launched' = Launched /\ Ended' = Ended
  BY <1>4 DEF Launched, Ended, CompletedLaunch, Stages
<1>6. CASE journal'["stop"].attempt = journal["stop"].attempt
  <2>1. Ending' = Ending
    BY <1>0, <1>4, <1>6 DEF Ending, CompletedLaunch, Stages
  <2> QED
    BY <1>1, <1>5, <2>1 DEF contract
<1>7. CASE journal'["stop"].attempt # journal["stop"].attempt
  <2>1. CancelStart(w) \/ StartStage(w)
    <3>1. ~FailAfterDrain(w)
      BY <1>2, <1>7, RowFields DEF FailAfterDrain, IInv, TypeOK, Stages
    <3>2. ~(ReadLaunch(w) \/ DeclareAbort(w) \/ FailLaunch(w))
      BY <1>7 DEF ReadLaunch, DeclareAbort, FailLaunch, IInv, TypeOK, Stages
    <3>3. ~DeclareStop(w)
      <4> SUFFICES ASSUME NEW a, journal' = [journal EXCEPT !["stop"] = Declared("stop", a)]
                   PROVE  FALSE
        BY DEF DeclareStop
      <4>1. [Undeclared EXCEPT !.status = "planned", !.input = a].attempt = 0
        BY DEF Undeclared
      <4>2. Declared("stop", a).attempt = journal["stop"].attempt
        BY <1>2, <4>1 DEF Declared, IInv, JournalOK, Stages
      <4> QED
        BY <1>7, <4>2 DEF IInv, TypeOK, Stages
    <3> QED
      BY <3>1, <3>2, <3>3
  <2>2. worker[w].op = "stop"
    BY <1>3, <1>7, <2>1 DEF IInv, TypeOK, Stages
  <2>3. PICK a \in Attempts : a = Target(w)
    BY <2>2 DEF IInv, WorkerInv, Shape
  <2>4. CompletedLaunch(a)
    BY <2>2, <2>3 DEF IInv, WorkerInv, StopInv
  <2>5. journal'["stop"].attempt > 0
    <3>1. journal' = [journal EXCEPT !["stop"] = StageStarted(journal["stop"])]
      BY <1>3, <2>1, <2>2
    <3>2. journal["stop"] \in Row /\ journal["stop"].attempt \in Nat
      BY <1>2, RuntimeAssumption DEF Row, Stages
    <3> QED
      BY <3>1, <3>2, RowFields DEF IInv, TypeOK, Stages
  <2>6. \A b \in Attempts : CompletedLaunch(b)' <=> CompletedLaunch(b)
    BY <1>4 DEF CompletedLaunch, Stages
  <2>7. \A b \in Attempts : CompletedLaunch(b) => b = a
    BY <2>4 DEF CompletedLaunch
  <2>8. Ending' = Ending \cup {a}
    BY <1>0, <2>4, <2>5, <2>6, <2>7 DEF Ending
  <2> QED
    BY <1>1, <1>5, <2>8 DEF Contract!Decide, Lives, Ending, Launched, Ended
<1> QED
  BY <1>6, <1>7

\* The receipt of launch_runtime_stage: the container is there, no abort has left
\* an intent, and no stop has begun.
LEMMA PublishSeen ==
  ASSUME IInv, NEW w \in Workers, PublishLaunch(w)
  PROVE  \E a \in Attempts : Contract!ReportLaunched(a)
<1>1. PICK a \in Attempts : a = Target(w)
  BY DEF IInv, WorkerInv, Shape, PublishLaunch, At, LaunchPc
<1>2. /\ UNCHANGED <<disk, box, wire>>
      /\ Runs("launch", a)
      /\ journal' = [journal EXCEPT !["launch"] = StageCompleted(@)]
  BY <1>1 DEF PublishLaunch
<1>3. Found(a) /\ ~disk[a].intent
  BY <1>1 DEF PublishLaunch, At, IInv, WorkerInv, LaunchInv, LaunchPc, BoundPc
<1>4. ~CompletedLaunch(a) /\ journal["stop"].attempt = 0
  BY <1>2 DEF IInv, JournalOK, CompletedLaunch, Runs, Stages
<1>5. /\ journal'["launch"].status = "completed" /\ journal'["launch"].attempt = a
      /\ journal'["stop"] = journal["stop"] /\ journal'["abort"] = journal["abort"]
  BY <1>2, RowFields DEF Runs, IInv, TypeOK, Stages
<1>6. Lives' = Lives /\ Standing(a) = "there"
  BY <1>2, <1>3, LivesFrame DEF Standing
<1>7. Ending' = Ending /\ a \notin Ending
  BY <1>2, <1>3, <1>4, <1>5 DEF Ending
<1>8. Launched' = Launched \cup {a}
  BY <1>2, <1>5 DEF Launched, CompletedLaunch, Runs
<1>9. Ended' = Ended
  BY <1>5 DEF Ended
<1> QED
  BY <1>6, <1>7, <1>8, <1>9 DEF Contract!ReportLaunched, Lives, Ending, Launched, Ended

\* The receipts of abort_runtime_stage and of stop_runtime_stage.
LEMMA FinishSeen ==
  ASSUME IInv, NEW w \in Workers, NEW s \in {"abort", "stop"}, FinishStage(w, s)
  PROVE  UNCHANGED contract \/ \E a \in Attempts : Contract!ReportEnded(a)
<1>1. PICK a \in Attempts : a = Target(w)
  BY DEF IInv, WorkerInv, Shape, FinishStage, At
<1>2. UNCHANGED <<disk, box, wire>>
  BY DEF FinishStage
<1>3. CASE UNCHANGED journal
  BY <1>2, <1>3, SilentSteps
<1>4. CASE /\ Runs(s, worker[w].own)
           /\ journal' = [journal EXCEPT ![s] = StageCompleted(@)]
  <2>1. /\ Gone(a) /\ journal[s].input = a
        /\ disk[a].intent \/ CompletedLaunch(a)
    BY <1>1 DEF FinishStage, At, IInv, WorkerInv, AbortInv, StopInv, IntentPc
  <2>2. box[a].id = 1 \/ disk[a].intent
    BY <2>1 DEF IInv, AttemptInv, OutcomeInv
  <2>3. Standing(a) = "gone" /\ Lives' = Lives
    BY <1>2, <2>1, <2>2, LivesFrame DEF Standing, Gone, NonePending, Sent
  <2>4. /\ journal'[s].status = "completed" /\ journal'[s].input = a
        /\ journal'[s].attempt = journal[s].attempt
        /\ \A t \in Stages \ {s} : journal'[t] = journal[t]
    BY <1>4, <2>1, RowFields DEF IInv, TypeOK, Stages
  <2>5. Ended' = Ended \cup {a}
    BY <1>4, <2>4 DEF Ended, Runs, Stages
  <2>6. Ending' = Ending /\ Launched' = Launched
    BY <1>2, <2>4 DEF Ending, Launched, CompletedLaunch, Stages
  <2> QED
    BY <2>3, <2>5, <2>6 DEF Contract!ReportEnded, Lives, Ending, Launched, Ended
<1> QED
  BY <1>3, <1>4 DEF FinishStage

\* launch_runtime_stage, abort_runtime_stage and stop_runtime_stage implement
\* Lifetime, for any number of executions and attempts: a container comes at most
\* once for an attempt, goes only after an intent to abort or the start of a stop,
\* and never comes back; each receipt is published only when it is true.
THEOREM LifetimeCorrect == Spec => KeepsLifetime
<1>1. Init => Contract!Init
  <2> SUFFICES ASSUME Init PROVE Contract!Init
    OBVIOUS
  <2>1. \A a \in Attempts : Standing(a) = "off"
    BY DEF Init, Standing, Found, NoBox, NoFiles
  <2>2. \A s \in Stages : journal[s].status = "absent"
    BY DEF Init, Undeclared
  <2>3. \A a \in Attempts : ~disk[a].intent
    BY DEF Init, NoFiles
  <2> QED
    BY <2>1, <2>2, <2>3 DEF Contract!Init, CompletedLaunch, Stages
<1>2. IInv /\ [Next]_vars => [Contract!Next]_contract
  <2> SUFFICES ASSUME IInv, [Next]_vars
               PROVE  UNCHANGED contract \/ Contract!Next
    OBVIOUS
  <2>1. ASSUME NEW w \in Workers, StartStep(w) PROVE UNCHANGED contract \/ Contract!Next
    BY <2>1, RowSteps DEF StartStep, Contract!Next
  <2>2. ASSUME NEW w \in Workers, LaunchStep(w) PROVE UNCHANGED contract \/ Contract!Next
    <3>1. CASE EnterLaunch(w) \/ StartDone(w) \/ Ready(w)
      BY <3>1, SilentSteps DEF EnterLaunch, StartDone, Ready
    <3> QED
      BY <2>2, <3>1, SilentSteps, SendSteps, RowSteps, PublishSeen DEF LaunchStep, Contract!Next
  <2>3. ASSUME NEW w \in Workers, AbortStep(w) PROVE UNCHANGED contract \/ Contract!Next
    <3>1. CASE \/ ReadAbort(w) \/ EnterAbort(w) \/ ReplayAbort(w) \/ ReconcileAbsent(w)
               \/ VerifyAbsent(w)
      BY <3>1, SilentSteps DEF ReadAbort, EnterAbort, ReplayAbort, ReconcileAbsent, VerifyAbsent
    <3> QED
      BY <2>3, <3>1, SilentSteps, IntentStep, RowSteps, FinishSeen DEF AbortStep, Contract!Next
  <2>4. ASSUME NEW w \in Workers, StopStep(w) \/ RemoveStep(w) \/ Leave(w)
        PROVE  UNCHANGED contract \/ Contract!Next
    <3>1. CASE \/ LookupAbsent(w) \/ LookupFound(w) \/ StopDone(w) \/ CheckStopped(w)
               \/ RemoveDone(w) \/ Leave(w)
      BY <3>1, SilentSteps
         DEF LookupAbsent, LookupFound, StopDone, CheckStopped, RemoveDone, Leave
    <3> QED
      BY <2>4, <3>1, SendSteps, RowSteps, FinishSeen DEF StopStep, RemoveStep, Contract!Next
  <2>5. ASSUME NEW m \in wire, Execute(m) \/ Refuse(m)
        PROVE  UNCHANGED contract \/ Contract!Next
    BY <2>5, ExecuteSeen, RefuseSeen DEF Contract!Next
  <2>6. ASSUME NEW a \in Attempts, Exit(a) PROVE UNCHANGED contract
    BY <2>6, ExitSeen
  <2>7. CASE UNCHANGED vars
    BY <2>7, ContractStays, SameStanding DEF vars, SameAttempt
  <2> QED
    BY <2>1, <2>2, <2>3, <2>4, <2>5, <2>6, <2>7 DEF Next
<1> QED
  BY <1>1, <1>2, RuntimeInductive, PTL
     DEF Spec, KeepsLifetime, Contract!Spec, contract, Lives, Ending, Launched, Ended
=============================================================================
