------------------------ MODULE ProducerPipelineProofs ------------------------
(***************************************************************************)
(* Proofs about ProducerPipeline for any number of processes, any cohorts, *)
(* attempts, starts and mishaps.                                           *)
(*                                                                         *)
(* Two facts about the journal carry everything: a completed stage is never *)
(* written again, and attempts only grow (JournalGrows).  So an attempt of *)
(* a stage that drains its own work belongs to one process for good, which *)
(* alone can end it; what that process has open is an attempt that runs;   *)
(* and the start in a launch receipt is fixed before anybody is asked.     *)
(***************************************************************************)
EXTENDS ProducerPipeline, FiniteSetTheorems, TLAPS

WorkerRecord == [pc : Pc, stage : Stages, own : 0 .. MaxAttempts, seen : Row,
                 served : SUBSET (1 .. MaxStarts), raw : BOOLEAN]

Owns(w) == worker[w].pc \in {"work", "collect", "wait", "publish", "done"}

\* What the position of a process says of its other fields.
Position(w) ==
  /\ At(w, "idle") => worker[w] = Idle
  /\ worker[w].pc \in {"start", "save", "clean"} => Own(w) = 0
  /\ At(w, "save") => Startable(worker[w].seen)
  /\ At(w, "clean") => Stage(w) \in {Launch(c) : c \in Cohorts}
  /\ At(w, "join") => Stage(w) \in {Launch(c) : c \in Cohorts}
  /\ Owns(w) \/ At(w, "join") => Own(w) \in 1 .. journal[Stage(w)].attempt
  /\ worker[w].pc \in {"collect", "wait"} => Drains(Stage(w))

\* A stage that was never declared has no attempt, one that runs has.
Numbered(s) ==
  /\ journal[s].status = "absent" => journal[s] = Undeclared
  /\ journal[s].status = "running" => journal[s].attempt > 0

PositionInv ==
  /\ \A w \in Workers : Position(w)
  /\ \A s \in Stages : Numbered(s)
  /\ \A c \in Cohorts : box[c].state # "absent" => box[c].start > 0

\* An attempt that drains its own work has one owner, and runs until it ends it.
OwnerInv ==
  /\ \A v, w \in Workers :
       Drains(Stage(w)) /\ Own(w) > 0 /\ Request(v) = Request(w) => v = w
  /\ \A w \in Workers :
       Drains(Stage(w)) /\ worker[w].pc \in {"work", "collect", "wait", "publish"}
         => require_attempt(Stage(w), Own(w))

\* A request is open only for the running attempt, and as long as its owner
\* waits or when it has gone.
OpenInv ==
  /\ \A r \in open : /\ Drains(r[1])
                     /\ journal[r[1]].status = "running"
                     /\ journal[r[1]].attempt = r[2]
  /\ \A w \in Workers : Request(w) \in open => At(w, "wait")

\* Between the two observations nothing but the recorded start can answer.
Served(w) ==
  IF Stage(w) \in Collections
  THEN /\ Done(Launch(Cohort(Stage(w))))
       /\ worker[w].served \subseteq
            launched[Cohort(Stage(w))] .. box[Cohort(Stage(w))].start
       /\ worker[w].pc \in {"publish", "done"}
            => worker[w].served \subseteq {launched[Cohort(Stage(w))]}
  ELSE worker[w].served = {}

ServedInv ==
  /\ \A c \in Cohorts : launched[c] <= box[c].start
  /\ \A w \in Workers : Served(w)

EvidenceInv ==
  \A s \in Collections :
    /\ evidence[s] # {} => Done(Launch(Cohort(s)))
    /\ evidence[s] \subseteq {launched[Cohort(s)]}

IInv == TypeOK /\ PositionInv /\ OwnerInv /\ OpenInv /\ ServedInv /\ EvidenceInv

-----------------------------------------------------------------------------
(* Names of stages *)

LEMMA StageNames ==
  /\ Model \in Stages /\ Build \in Stages /\ Plan \in Stages /\ Execution \in Stages
  /\ \A c \in Cohorts : Launch(c) \in Stages
  /\ Collections \subseteq Stages
  /\ Execution # Model /\ Plan # Model /\ Build # Model
  /\ Execution[1] = "execution" /\ Model[1] = "model" /\ Build[1] = "build" /\ Plan[1] = "plan"
BY DEF Stages, Model, Build, Plan, Execution, Launch

LEMMA CollectionNames ==
  ASSUME NEW s \in Collections
  PROVE  /\ Cohort(s) \in Cohorts
         /\ s # Model /\ s # Build /\ s # Plan /\ s # Execution
         /\ s[1] \in {"quality", "performance"}
         /\ \A c \in Cohorts : s # Launch(c)
<1>1. PICK k \in {"quality", "performance"}, c \in Cohorts : s = <<k, c>>
  BY DEF Collections
<1> QED
  BY <1>1 DEF Cohort, Model, Build, Plan, Execution, Launch

LEMMA LaunchNames ==
  ASSUME NEW c \in Cohorts
  PROVE  /\ Launch(c) # Model /\ Launch(c) # Build /\ Launch(c) # Plan
         /\ Launch(c) # Execution
         /\ Launch(c)[1] = "launch" /\ Cohort(Launch(c)) = c
         /\ Launch(c) \notin Collections
         /\ ~Drains(Launch(c))
<1>1. Launch(c)[1] = "launch" /\ Cohort(Launch(c)) = c
  BY DEF Launch, Cohort
<1>2. Launch(c) \notin Collections
  BY CollectionNames
<1> QED
  BY <1>1, <1>2 DEF Launch, Model, Build, Plan, Execution, Drains

LEMMA StageKinds ==
  ASSUME NEW s \in Stages
  PROVE  /\ s[1] = "launch" => \E c \in Cohorts : s = Launch(c)
         /\ s[1] \in {"performance", "quality"} => s \in Collections
         /\ s \in {Model, Build, Plan, Execution} \cup {Launch(c) : c \in Cohorts}
              \cup Collections
<1>1. s \in {Model, Build, Plan, Execution} \cup {Launch(c) : c \in Cohorts} \cup Collections
  BY DEF Stages
<1>2. CASE s \in {Model, Build, Plan, Execution}
  BY <1>1, <1>2, StageNames
<1>3. CASE s \in {Launch(c) : c \in Cohorts}
  BY <1>1, <1>3, LaunchNames
<1>4. CASE s \in Collections
  BY <1>1, <1>4, CollectionNames
<1> QED
  BY <1>1, <1>2, <1>3, <1>4

LEMMA DrainNames ==
  /\ ~Drains(Plan) /\ ~Drains(Build) /\ ~Drains(Execution) /\ Drains(Model)
  /\ \A s \in Collections : Drains(s)
BY StageNames, CollectionNames DEF Drains

\* A collection is declared after its launch has been completed.
LEMMA CollectedAfterLaunch ==
  ASSUME NEW s \in Collections, Upstream(s)
  PROVE  Done(Launch(Cohort(s)))
BY CollectionNames DEF Upstream, load_launch

LEMMA IdleRecord == Idle \in WorkerRecord /\ Undeclared \in Row
BY StageNames, PipelineAssumption DEF Idle, WorkerRecord, Undeclared, Row, Pc

-----------------------------------------------------------------------------
(* The steps *)

\* A step of a process, by what it does to the process.
Starts(w) ==
  \/ \E s \in Stages \ {Execution} : produce_step(w, s)
  \/ StartReads(w)
  \/ save(w)
  \/ \E c \in Cohorts : CleanupReads(w, c)

Works(w) ==
  \/ Sends(w)
  \/ Receives(w)
  \/ fetch_verified_model(w)
  \/ publish_snapshot(w)
  \/ build_runtime(w)
  \/ launch_runtime_stage(w)
  \/ ObservesBefore(w)
  \/ ObservesAfter(w)
  \/ register_run(w)

Ends(w) ==
  \/ start_owned(w)
  \/ verify_local_http_closure(w)
  \/ Publish(w)
  \/ PublishLate(w)
  \/ Returns(w)
  \/ Fails(w)
  \/ Dies(w)
  \/ cleanup_unserved(w)

LEMMA StepCases ==
  ASSUME Next
  PROVE  \/ freeze_stage
         \/ register_produced_release
         \/ Environment
         \/ \E w \in Workers : Starts(w) \/ Works(w) \/ Ends(w)
<1>1. ASSUME NEW w \in Workers, WorkerStep(w)
      PROVE  Starts(w) \/ Works(w) \/ Ends(w)
  <2>1. CASE fetch_stage(w)
    BY <2>1 DEF fetch_stage, Requests, Works, Ends
  <2>2. CASE managed_quality_stage(w)
    BY <2>2 DEF managed_quality_stage, Requests, Works, Ends
  <2>3. CASE performance_stage(w)
    BY <2>3 DEF performance_stage, Requests, Works, Ends
  <2> QED
    BY <1>1, <2>1, <2>2, <2>3 DEF WorkerStep, Starts, Works, Ends
<1> QED
  BY <1>1 DEF Next

\* A completed stage is never written again; attempts only grow.
LEMMA JournalGrows ==
  ASSUME TypeOK, PositionInv, Next, NEW s \in Stages
  PROVE  /\ journal'[s].attempt >= journal[s].attempt
         /\ Done(s) => journal'[s] = journal[s]
<1> USE PipelineAssumption
<1>0. /\ journal \in [Stages -> Row] /\ journal[s] \in Row
      /\ worker \in [Workers -> WorkerRecord]
  BY DEF TypeOK, WorkerRecord
<1>1. CASE UNCHANGED journal
  BY <1>0, <1>1 DEF Row
<1>2. CASE freeze_stage
  BY <1>0, <1>2 DEF freeze_stage, declare_input, Undeclared, Row, Done, PositionInv, Numbered
<1>3. CASE register_produced_release \/ Environment
  BY <1>1, <1>3 DEF register_produced_release, Environment, RuntimeDies, RuntimeRestarts,
     DiskFails, OtherFetches, RouteMoves
<1>4. ASSUME NEW w \in Workers, failed_after_drain(w)
      PROVE  /\ journal'[s].attempt >= journal[s].attempt
             /\ Done(s) => journal'[s] = journal[s]
  BY <1>0, <1>4 DEF failed_after_drain, require_attempt, Row, Done
<1>5. ASSUME NEW w \in Workers, Starts(w)
      PROVE  /\ journal'[s].attempt >= journal[s].attempt
             /\ Done(s) => journal'[s] = journal[s]
  <2>1. ASSUME NEW t \in Stages \ {Execution}, produce_step(w, t)
        PROVE  /\ journal'[s].attempt >= journal[s].attempt
               /\ Done(s) => journal'[s] = journal[s]
    BY <1>0, <2>1 DEF produce_step, declare_input, Undeclared, Row, Done, PositionInv, Numbered
  <2>2. CASE StartReads(w)
    BY <1>1, <2>2 DEF StartReads
  <2>3. CASE save(w)
    <3>1. Startable(worker[w].seen)
      BY <2>3 DEF save, PositionInv, Position
    <3>2. worker[w] \in WorkerRecord
      BY <1>0
    <3>3. CASE UNCHANGED journal
      BY <1>1, <3>3
    <3>4. CASE journal[Stage(w)] = worker[w].seen
               /\ journal' = [journal EXCEPT ![Stage(w)] =
                    [status |-> "running", attempt |-> worker[w].seen.attempt + 1]]
      BY <1>0, <3>1, <3>2, <3>4 DEF Startable, Row, WorkerRecord, Done
    <3> QED
      BY <2>3, <3>3, <3>4 DEF save
  <2>4. ASSUME NEW c \in Cohorts, CleanupReads(w, c)
        PROVE  UNCHANGED journal
    BY <2>4 DEF CleanupReads
  <2> QED
    BY <1>1, <1>5, <2>1, <2>2, <2>3, <2>4 DEF Starts
<1>6. ASSUME NEW w \in Workers, Works(w)
      PROVE  UNCHANGED journal \/ failed_after_drain(w)
  BY <1>6 DEF Works, Sends, Receives, fetch_verified_model, publish_snapshot, build_runtime,
     launch_runtime_stage, ObservesBefore, ObservesAfter, register_run
<1>7. ASSUME NEW w \in Workers, Ends(w)
      PROVE  /\ journal'[s].attempt >= journal[s].attempt
             /\ Done(s) => journal'[s] = journal[s]
  <2>1. CASE Publish(w)
    BY <1>0, <2>1 DEF Publish, require_attempt, SetStage, Row, Done
  <2>2. CASE cleanup_unserved(w)
    BY <1>0, <2>2 DEF cleanup_unserved, SetStage, Row, Done
  <2>3. CASE start_owned(w) \/ PublishLate(w) \/ Fails(w)
    BY <1>4, <2>3 DEF start_owned, PublishLate, Fails
  <2>4. CASE verify_local_http_closure(w) \/ Returns(w) \/ Dies(w)
    BY <1>1, <2>4 DEF verify_local_http_closure, Returns, Dies
  <2> QED
    BY <1>7, <2>1, <2>2, <2>3, <2>4 DEF Ends
<1> QED
  BY <1>1, <1>2, <1>3, <1>4, <1>5, <1>6, <1>7, StepCases

-----------------------------------------------------------------------------
(* Types *)

LEMMA InitTypes == Init => TypeOK
<1> SUFFICES ASSUME Init PROVE TypeOK
  OBVIOUS
<1> USE PipelineAssumption
<1>1. journal \in [Stages -> Row]
  BY IdleRecord DEF Init, Row
<1>2. worker \in [Workers -> WorkerRecord]
  BY IdleRecord DEF Init
<1>3. box \in [Cohorts -> [state : {"absent", "up", "down"}, start : 0 .. MaxStarts]]
  BY DEF Init
<1>4. evidence \in [Collections -> SUBSET (1 .. MaxStarts)]
  BY DEF Init
<1> QED
  BY <1>1, <1>2, <1>3, <1>4 DEF Init, TypeOK, WorkerRecord

\* What unwinding an attempt leaves is well typed.
LEMMA DrainTypes ==
  ASSUME TypeOK, NEW w \in Workers, failed_after_drain(w)
  PROVE  /\ journal' \in [Stages -> Row]
         /\ worker' \in [Workers -> WorkerRecord]
         /\ open' \subseteq (Stages \X (1 .. MaxAttempts))
BY IdleRecord DEF failed_after_drain, Quit, TypeOK, WorkerRecord, Row

LEMMA StartTypes ==
  ASSUME TypeOK, PositionInv, NEW w \in Workers, Starts(w)
  PROVE  TypeOK'
<1> USE PipelineAssumption
<1>0. worker \in [Workers -> WorkerRecord] /\ worker[w] \in WorkerRecord
  BY DEF TypeOK, WorkerRecord
<1>1. ASSUME NEW s \in Stages \ {Execution}, produce_step(w, s)
      PROVE  TypeOK'
  <2>1. journal' \in [Stages -> Row]
    BY <1>1, IdleRecord DEF produce_step, declare_input, TypeOK, Undeclared, Row
  <2>2. worker' \in [Workers -> WorkerRecord]
    <3>1. journal[s] \in Row
      BY DEF TypeOK
    <3> QED
      BY <1>0, <1>1, <3>1 DEF produce_step, WorkerRecord, Row, Pc
  <2> QED
    BY <1>1, <2>1, <2>2 DEF produce_step, TypeOK, WorkerRecord
<1>2. CASE StartReads(w)
  <2>1. worker' \in [Workers -> WorkerRecord]
    <3>1. Stage(w) \in Stages /\ journal[Stage(w)] \in Row
      BY <1>0 DEF TypeOK, WorkerRecord, Stage
    <3> QED
      BY <1>0, <1>2, <3>1, IdleRecord DEF StartReads, Quit, WorkerRecord, Pc
  <2> QED
    BY <1>2, <2>1 DEF StartReads, TypeOK, WorkerRecord
<1>3. CASE save(w)
  <2>1. Startable(worker[w].seen) /\ worker[w].seen \in Row /\ Stage(w) \in Stages
    BY <1>0, <1>3 DEF save, PositionInv, Position, WorkerRecord, Stage
  <2>2. worker[w].seen.attempt + 1 \in 0 .. MaxAttempts
    BY <2>1 DEF Startable, Row
  <2>3. journal' \in [Stages -> Row]
    BY <1>3, <2>1, <2>2 DEF save, TypeOK, Row
  <2>4. worker' \in [Workers -> WorkerRecord]
    BY <1>0, <1>3, <2>2, IdleRecord DEF save, Quit, WorkerRecord, Pc
  <2> QED
    BY <1>3, <2>3, <2>4 DEF save, TypeOK, WorkerRecord
<1>4. ASSUME NEW c \in Cohorts, CleanupReads(w, c)
      PROVE  TypeOK'
  <2>1. Launch(c) \in Stages /\ journal[Launch(c)] \in Row
    BY StageNames DEF TypeOK
  <2>2. worker' \in [Workers -> WorkerRecord]
    BY <1>0, <1>4, <2>1 DEF CleanupReads, WorkerRecord, Pc
  <2> QED
    BY <1>4, <2>2 DEF CleanupReads, TypeOK, WorkerRecord
<1> QED
  BY <1>1, <1>2, <1>3, <1>4 DEF Starts

LEMMA WorkTypes ==
  ASSUME TypeOK, PositionInv, NEW w \in Workers, Works(w)
  PROVE  TypeOK'
<1> USE PipelineAssumption
<1>0. /\ worker \in [Workers -> WorkerRecord] /\ worker[w] \in WorkerRecord
      /\ Stage(w) \in Stages /\ Own(w) \in 0 .. MaxAttempts
  BY DEF TypeOK, WorkerRecord, Stage, Own
<1>1. ASSUME NEW pc \in Pc, Goto(w, pc)
      PROVE  worker' \in [Workers -> WorkerRecord]
  BY <1>0, <1>1 DEF Goto, WorkerRecord
<1>2. ASSUME Owns(w)
      PROVE  Own(w) \in 1 .. MaxAttempts
  BY <1>0, <1>2 DEF PositionInv, Position, TypeOK, Row
<1>3. CASE Sends(w)
  <2>1. Request(w) \in Stages \X (1 .. MaxAttempts)
    BY <1>0, <1>2, <1>3 DEF Sends, Request, Owns, At
  <2>2. worker' \in [Workers -> WorkerRecord]
    BY <1>1, <1>3 DEF Sends, Pc
  <2> QED
    BY <1>3, <2>1, <2>2 DEF Sends, TypeOK, WorkerRecord
<1>4. CASE Receives(w)
  <2>1. Drains(Stage(w))
    BY <1>4 DEF Receives, PositionInv, Position, At
  <2>2. ASSUME Stage(w) # Model, box[Cohort(Stage(w))].state = "up"
        PROVE  box[Cohort(Stage(w))].start \in 1 .. MaxStarts
    <3>1. Cohort(Stage(w)) \in Cohorts
      BY <2>1, <2>2, CollectionNames DEF Drains
    <3> QED
      BY <2>2, <3>1 DEF TypeOK, PositionInv
  <2>3. worker' \in [Workers -> WorkerRecord]
    BY <1>0, <1>4, <2>2 DEF Receives, WorkerRecord, Pc
  <2> QED
    BY <1>4, <2>3 DEF Receives, TypeOK, WorkerRecord
<1>5. ASSUME journal' \in [Stages -> Row],
             worker' \in [Workers -> WorkerRecord],
             open' \subseteq (Stages \X (1 .. MaxAttempts)),
             snapshot' \in {"absent", "whole", "damaged"},
             UNCHANGED <<launched, evidence, job, runs, box, stable, mishaps>>
      PROVE  TypeOK'
  BY <1>5 DEF TypeOK, WorkerRecord
<1>6. ASSUME UNCHANGED journal
      PROVE  journal' \in [Stages -> Row]
  BY <1>6 DEF TypeOK
<1>7. CASE fetch_verified_model(w)
  BY <1>1, <1>5, <1>6, <1>7, DrainTypes DEF fetch_verified_model, TypeOK, Pc
<1>8. CASE publish_snapshot(w)
  BY <1>1, <1>5, <1>6, <1>8, DrainTypes DEF publish_snapshot, TypeOK, Pc
<1>9. CASE build_runtime(w)
  BY <1>1, <1>5, <1>6, <1>9 DEF build_runtime, TypeOK, Pc
<1>10. CASE launch_runtime_stage(w)
  <2>1. Cohort(Stage(w)) \in Cohorts
    BY <1>0, <1>10, StageKinds, LaunchNames DEF launch_runtime_stage
  <2>2. box' \in [Cohorts -> [state : {"absent", "up", "down"}, start : 0 .. MaxStarts]]
    <3>1. CASE UNCHANGED box
      BY <3>1 DEF TypeOK
    <3>2. CASE box[Cohort(Stage(w))].start < MaxStarts
               /\ box' = [box EXCEPT ![Cohort(Stage(w))] = [state |-> "up", start |-> @.start + 1]]
      BY <2>1, <3>2 DEF TypeOK
    <3> QED
      BY <1>10, <3>1, <3>2 DEF launch_runtime_stage
  <2>3. worker' \in [Workers -> WorkerRecord]
    <3>1. CASE Goto(w, "publish")
      BY <1>1, <3>1 DEF Pc
    <3>2. CASE Quit(w)
      BY <1>0, <3>2, IdleRecord DEF Quit
    <3> QED
      BY <1>10, <3>1, <3>2 DEF launch_runtime_stage
  <2> QED
    BY <1>10, <2>2, <2>3 DEF launch_runtime_stage, TypeOK, WorkerRecord
<1>11. CASE ObservesBefore(w)
  BY <1>1, <1>5, <1>6, <1>11, DrainTypes DEF ObservesBefore, TypeOK, Pc
<1>12. CASE ObservesAfter(w)
  BY <1>1, <1>5, <1>6, <1>12, DrainTypes DEF ObservesAfter, TypeOK, Pc
<1>13. CASE register_run(w)
  <2>1. Request(w) \in Collections \X (1 .. MaxAttempts)
    BY <1>0, <1>2, <1>13, StageKinds DEF register_run, Request, Owns, At
  <2> QED
    BY <1>13, <2>1 DEF register_run, TypeOK, WorkerRecord
<1> QED
  BY <1>3, <1>4, <1>7, <1>8, <1>9, <1>10, <1>11, <1>12, <1>13 DEF Works

LEMMA EndTypes ==
  ASSUME TypeOK, PositionInv, NEW w \in Workers, Ends(w)
  PROVE  TypeOK'
<1> USE PipelineAssumption
<1>0. /\ worker \in [Workers -> WorkerRecord] /\ worker[w] \in WorkerRecord
      /\ Stage(w) \in Stages /\ Own(w) \in 0 .. MaxAttempts
  BY DEF TypeOK, WorkerRecord, Stage, Own
<1>1. ASSUME Quit(w)
      PROVE  worker' \in [Workers -> WorkerRecord]
  BY <1>0, <1>1, IdleRecord DEF Quit
<1>2. ASSUME Mishap
      PROVE  mishaps' \in 0 .. MaxMishaps
  BY <1>2 DEF Mishap, TypeOK
<1>3. CASE start_owned(w) \/ Fails(w)
  BY <1>2, <1>3, DrainTypes DEF start_owned, Fails, TypeOK, WorkerRecord
<1>4. CASE verify_local_http_closure(w) \/ Dies(w)
  BY <1>1, <1>2, <1>4 DEF verify_local_http_closure, Dies, TypeOK, WorkerRecord
<1>5. CASE PublishLate(w)
  BY <1>5, DrainTypes DEF PublishLate, TypeOK, WorkerRecord
<1>6. CASE Returns(w)
  BY <1>1, <1>6 DEF Returns, TypeOK, WorkerRecord
<1>7. CASE Publish(w)
  <2>1. journal' \in [Stages -> Row]
    BY <1>0, <1>7 DEF Publish, SetStage, TypeOK, Row
  <2>2. evidence' \in [Collections -> SUBSET (1 .. MaxStarts)]
    BY <1>0, <1>7 DEF Publish, TypeOK, WorkerRecord
  <2>3. launched' \in [Cohorts -> 0 .. MaxStarts]
    <3>1. CASE Stage(w)[1] = "launch"
      <4>1. PICK c \in Cohorts : Stage(w) = Launch(c)
        BY <1>0, <3>1, StageKinds
      <4>2. Stage(w)[2] = c /\ box[c].start \in 0 .. MaxStarts
        BY <4>1 DEF Launch, TypeOK
      <4> QED
        BY <1>7, <3>1, <4>2 DEF Publish, TypeOK
    <3>2. CASE Stage(w)[1] # "launch"
      BY <1>7, <3>2 DEF Publish, TypeOK
    <3> QED
      BY <3>1, <3>2
  <2>4. worker' \in [Workers -> WorkerRecord]
    BY <1>0, <1>1, <1>7 DEF Publish, Goto, WorkerRecord, Pc
  <2> QED
    BY <1>7, <2>1, <2>2, <2>3, <2>4 DEF Publish, TypeOK, WorkerRecord
<1>8. CASE cleanup_unserved(w)
  <2>1. journal' \in [Stages -> Row]
    BY <1>0, <1>8 DEF cleanup_unserved, SetStage, TypeOK, Row
  <2>2. box' \in [Cohorts -> [state : {"absent", "up", "down"}, start : 0 .. MaxStarts]]
    BY SMTT(30), <1>8 DEF cleanup_unserved, TypeOK
  <2> QED
    BY <1>1, <1>8, <2>1, <2>2 DEF cleanup_unserved, TypeOK, WorkerRecord
<1> QED
  BY <1>3, <1>4, <1>5, <1>6, <1>7, <1>8 DEF Ends

LEMMA OutsideTypes ==
  ASSUME TypeOK, freeze_stage \/ register_produced_release \/ Environment
  PROVE  TypeOK'
<1> USE PipelineAssumption
<1>1. CASE freeze_stage
  <2>1. journal' \in [Stages -> Row]
    BY <1>1, IdleRecord, StageNames DEF freeze_stage, declare_input, TypeOK, Undeclared, Row
  <2> QED
    BY <1>1, <2>1 DEF freeze_stage, TypeOK
<1>2. CASE register_produced_release
  BY <1>2 DEF register_produced_release, TypeOK
<1>3. CASE Environment
  <2>1. ASSUME NEW c \in Cohorts, RuntimeDies(c)
        PROVE  TypeOK'
    <3>1. /\ box \in [Cohorts -> [state : {"absent", "up", "down"}, start : 0 .. MaxStarts]]
          /\ box' = [box EXCEPT ![c].state = "down"]
      BY <2>1 DEF RuntimeDies, TypeOK
    <3>2. box' \in [Cohorts -> [state : {"absent", "up", "down"}, start : 0 .. MaxStarts]]
      BY <3>1
    <3>3. mishaps' \in 0 .. MaxMishaps
      BY <2>1 DEF RuntimeDies, Mishap, TypeOK
    <3> QED
      BY <2>1, <3>2, <3>3 DEF RuntimeDies, TypeOK
  <2>2. ASSUME NEW c \in Cohorts, RuntimeRestarts(c)
        PROVE  TypeOK'
    <3>1. box' \in [Cohorts -> [state : {"absent", "up", "down"}, start : 0 .. MaxStarts]]
      BY <2>2 DEF RuntimeRestarts, TypeOK
    <3> QED
      BY <2>2, <3>1 DEF RuntimeRestarts, Mishap, TypeOK
  <2>3. CASE DiskFails \/ OtherFetches \/ RouteMoves
    <3>1. mishaps' \in 0 .. MaxMishaps
      BY <2>3 DEF DiskFails, OtherFetches, RouteMoves, Mishap, TypeOK
    <3>2. snapshot' \in {"absent", "whole", "damaged"}
      BY <2>3 DEF DiskFails, OtherFetches, RouteMoves, TypeOK
    <3>3. stable' \in BOOLEAN
      BY <2>3 DEF DiskFails, OtherFetches, RouteMoves, TypeOK
    <3> QED
      BY <2>3, <3>1, <3>2, <3>3 DEF DiskFails, OtherFetches, RouteMoves, TypeOK
  <2> QED
    BY <1>3, <2>1, <2>2, <2>3 DEF Environment
<1> QED
  BY <1>1, <1>2, <1>3

LEMMA TypeStep ==
  ASSUME TypeOK, PositionInv, Next
  PROVE  TypeOK'
BY StepCases, StartTypes, WorkTypes, EndTypes, OutsideTypes

-----------------------------------------------------------------------------
(* Positions *)

LEMMA PositionInit == Init => PositionInv
BY PipelineAssumption DEF Init, PositionInv, Position, Numbered, At, Owns, Own, Idle,
   Undeclared

\* Only the process that takes a step has another position.
LEMMA OthersKeepPosition ==
  ASSUME TypeOK, TypeOK', PositionInv, Next, NEW v \in Workers, worker'[v] = worker[v]
  PROVE  Position(v)'
<1>1. Stage(v) \in Stages /\ Own(v) \in Nat
  BY PipelineAssumption DEF TypeOK, Stage, Own
<1>2. journal'[Stage(v)].attempt >= journal[Stage(v)].attempt
  BY <1>1, JournalGrows
<1>3. journal'[Stage(v)].attempt \in Nat /\ journal[Stage(v)].attempt \in Nat
  BY <1>1, PipelineAssumption DEF TypeOK, Row
<1> QED
  BY <1>1, <1>2, <1>3 DEF PositionInv, Position, At, Own, Owns, Stage, Drains, Startable

LEMMA IdlePosition ==
  ASSUME NEW w \in Workers, worker'[w] = Idle
  PROVE  Position(w)'
BY DEF Position, At, Own, Owns, Idle

LEMMA StartPosition ==
  ASSUME TypeOK, TypeOK', PositionInv, NEW w \in Workers, Starts(w)
  PROVE  Position(w)' /\ \A v \in Workers \ {w} : worker'[v] = worker[v]
<1> USE PipelineAssumption
<1>0. /\ worker \in [Workers -> WorkerRecord] /\ worker[w] \in WorkerRecord
      /\ Position(w) /\ (At(w, "idle") => worker[w] = Idle)
  BY DEF TypeOK, WorkerRecord, PositionInv, Position
<1>1. ASSUME NEW s \in Stages \ {Execution}, produce_step(w, s)
      PROVE  Position(w)' /\ \A v \in Workers \ {w} : worker'[v] = worker[v]
  <2>0. \A v \in Workers \ {w} : worker'[v] = worker[v]
    BY <1>0, <1>1 DEF produce_step
  <2>1. worker[w] = Idle
    BY <1>0, <1>1 DEF produce_step
  <2>2. CASE worker' = [worker EXCEPT ![w].pc = "start", ![w].stage = s]
    <3>1. worker'[w].pc = "start" /\ worker'[w].own = 0
      BY <1>0, <2>1, <2>2 DEF Idle
    <3> QED
      BY <2>0, <3>1 DEF Position, At, Own, Owns
  <2>3. CASE /\ journal[s].status = "running"
             /\ s = Plan \/ s[1] = "launch"
             /\ worker' = [worker EXCEPT ![w].pc = IF s = Plan THEN "publish" ELSE "join",
                                         ![w].stage = s, ![w].own = journal[s].attempt]
    <3>1. /\ worker'[w].pc = IF s = Plan THEN "publish" ELSE "join"
          /\ worker'[w].stage = s /\ worker'[w].own = journal[s].attempt
      BY <1>0, <2>3
    <3>2. journal'[s] = journal[s] /\ journal[s].attempt \in 1 .. MaxAttempts
      BY <1>1, <2>3 DEF produce_step, declare_input, TypeOK, Row, PositionInv, Numbered
    <3>3. s # Plan => s \in {Launch(c) : c \in Cohorts}
      BY <2>3, StageKinds
    <3> QED
      BY <2>0, <3>1, <3>2, <3>3 DEF Position, At, Own, Owns, Stage
  <2> QED
    BY <1>1, <2>2, <2>3 DEF produce_step
<1>2. CASE StartReads(w)
  <2>1. \A v \in Workers \ {w} : worker'[v] = worker[v]
    BY <1>0, <1>2 DEF StartReads, Quit
  <2>2. CASE Quit(w)
    BY <1>0, <2>1, <2>2, IdlePosition DEF Quit
  <2>3. CASE /\ Startable(journal[Stage(w)])
             /\ worker' = [worker EXCEPT ![w].pc = "save", ![w].seen = journal[Stage(w)]]
    <3>1. /\ worker'[w].pc = "save" /\ worker'[w].own = 0
          /\ worker'[w].seen = journal[Stage(w)]
      BY <1>0, <1>2, <2>3 DEF StartReads, Position, At, Own, WorkerRecord
    <3> QED
      BY <2>1, <2>3, <3>1 DEF Position, At, Own, Owns, Startable
  <2> QED
    BY <1>2, <2>2, <2>3 DEF StartReads
<1>3. CASE save(w)
  <2>1. \A v \in Workers \ {w} : worker'[v] = worker[v]
    BY <1>0, <1>3 DEF save, Quit
  <2>2. CASE Quit(w)
    BY <1>0, <2>1, <2>2, IdlePosition DEF Quit
  <2>3. CASE ~Quit(w)
    <3>1. Stage(w) \in Stages /\ worker[w].seen.attempt \in 0 .. MaxAttempts
      BY <1>0 DEF WorkerRecord, Row, Stage
    <3>2. /\ worker'[w].pc \in {"publish", "work"} /\ worker'[w].stage = Stage(w)
          /\ worker'[w].own = worker[w].seen.attempt + 1
          /\ journal'[Stage(w)].attempt = worker[w].seen.attempt + 1
      BY <1>0, <1>3, <2>3, <3>1 DEF save, Stage, WorkerRecord, TypeOK
    <3> QED
      BY <2>1, <3>1, <3>2 DEF Position, At, Own, Owns, Stage
  <2> QED
    BY <2>2, <2>3
<1>4. ASSUME NEW c \in Cohorts, CleanupReads(w, c)
      PROVE  Position(w)' /\ \A v \in Workers \ {w} : worker'[v] = worker[v]
  <2>1. \A v \in Workers \ {w} : worker'[v] = worker[v]
    BY <1>0, <1>4 DEF CleanupReads
  <2>2. worker'[w].pc = "clean" /\ worker'[w].stage = Launch(c) /\ worker'[w].own = 0
    BY <1>0, <1>4 DEF CleanupReads, WorkerRecord, Idle
  <2> QED
    BY <2>1, <2>2 DEF Position, At, Own, Owns, Stage
<1> QED
  BY <1>1, <1>2, <1>3, <1>4 DEF Starts

\* A step inside a stage keeps stage and attempt, or ends both.
LEMMA WorkKeeps ==
  ASSUME TypeOK, NEW w \in Workers, Works(w)
  PROVE  /\ \A v \in Workers \ {w} : worker'[v] = worker[v]
         /\ \/ worker'[w] = Idle
            \/ /\ worker'[w].stage = worker[w].stage
               /\ worker'[w].own = worker[w].own
               /\ worker'[w].pc \in {"collect", "wait", "publish"} \cup {worker[w].pc}
<1>0. worker \in [Workers -> WorkerRecord] /\ worker[w] \in WorkerRecord
  BY DEF TypeOK, WorkerRecord
<1>1. ASSUME NEW pc \in {"collect", "wait", "publish"}, Goto(w, pc)
      PROVE  /\ \A v \in Workers \ {w} : worker'[v] = worker[v]
             /\ worker'[w] = [worker[w] EXCEPT !.pc = pc]
  BY <1>0, <1>1 DEF Goto
<1>2. ASSUME NEW pc \in {"collect", "wait", "publish"}
      PROVE  LET x == [worker[w] EXCEPT !.pc = pc]
             IN x.stage = worker[w].stage /\ x.own = worker[w].own /\ x.pc = pc
  BY <1>0 DEF WorkerRecord
<1>3. ASSUME Quit(w) \/ failed_after_drain(w)
      PROVE  /\ \A v \in Workers \ {w} : worker'[v] = worker[v]
             /\ worker'[w] = Idle
  BY <1>0, <1>3 DEF Quit, failed_after_drain
<1>4. CASE Sends(w) \/ build_runtime(w) \/ fetch_verified_model(w) \/ publish_snapshot(w)
           \/ launch_runtime_stage(w) \/ ObservesBefore(w) \/ ObservesAfter(w)
  BY <1>1, <1>2, <1>3, <1>4 DEF Sends, build_runtime, fetch_verified_model, publish_snapshot,
     launch_runtime_stage, ObservesBefore, ObservesAfter
<1>5. CASE Receives(w)
  BY <1>0, <1>5 DEF Receives, WorkerRecord
<1>6. CASE register_run(w)
  BY <1>0, <1>6 DEF register_run
<1> QED
  BY <1>4, <1>5, <1>6 DEF Works

LEMMA EndKeeps ==
  ASSUME TypeOK, NEW w \in Workers, Ends(w)
  PROVE  /\ \A v \in Workers \ {w} : worker'[v] = worker[v]
         /\ \/ worker'[w] = Idle
            \/ /\ Publish(w)
               /\ Drains(Stage(w))
               /\ worker'[w] = [worker[w] EXCEPT !.pc = "done"]
<1>0. worker \in [Workers -> WorkerRecord]
  BY DEF TypeOK, WorkerRecord
<1>1. ASSUME Quit(w) \/ failed_after_drain(w)
      PROVE  /\ \A v \in Workers \ {w} : worker'[v] = worker[v]
             /\ worker'[w] = Idle
  BY <1>0, <1>1 DEF Quit, failed_after_drain
<1>2. CASE Publish(w)
  BY <1>0, <1>1, <1>2 DEF Publish, Goto
<1> QED
  BY <1>1, <1>2 DEF Ends, start_owned, verify_local_http_closure, PublishLate, Returns, Fails,
     Dies, cleanup_unserved

\* A step inside a stage is taken by a process that owns an attempt or joins one.
LEMMA WorkPosition ==
  ASSUME TypeOK, TypeOK', PositionInv, Next, NEW w \in Workers, Works(w)
  PROVE  Position(w)'
<1> USE PipelineAssumption
<1>0. /\ worker[w] \in WorkerRecord /\ worker'[w] \in WorkerRecord /\ Position(w)
      /\ Stage(w) \in Stages /\ Own(w) \in Nat
  BY DEF TypeOK, WorkerRecord, PositionInv, Stage, Own
<1>1. CASE worker'[w] = Idle
  BY <1>1, IdlePosition
<1>2. CASE /\ worker'[w].stage = worker[w].stage
           /\ worker'[w].own = worker[w].own
           /\ worker'[w].pc \in {"collect", "wait", "publish"} \cup {worker[w].pc}
  <2>1. Owns(w) \/ At(w, "join")
    BY DEF Works, Sends, Receives, fetch_verified_model, publish_snapshot, build_runtime,
       launch_runtime_stage, ObservesBefore, ObservesAfter, register_run, At, Owns
  <2>2. Own(w) \in 1 .. journal[Stage(w)].attempt
    BY <1>0, <2>1 DEF Position
  <2>3. Own(w)' \in 1 .. journal'[Stage(w)'].attempt
    <3>1. journal'[Stage(w)].attempt >= journal[Stage(w)].attempt
      BY <1>0, JournalGrows
    <3>2. journal'[Stage(w)].attempt \in Nat /\ journal[Stage(w)].attempt \in Nat
      BY <1>0 DEF TypeOK, Row
    <3> QED
      BY <1>0, <1>2, <2>2, <3>1, <3>2 DEF Own, Stage
  <2>4. worker'[w].pc \in {"collect", "wait"} => Drains(Stage(w))
    <3>1. worker[w].pc \in {"collect", "wait"} => Drains(Stage(w))
      BY <1>0 DEF Position
    <3>2. CASE Sends(w) \/ Receives(w)
      BY <3>1, <3>2 DEF Sends, Receives, At
    <3>3. CASE fetch_verified_model(w) \/ ObservesBefore(w) \/ ObservesAfter(w)
               \/ publish_snapshot(w)
      BY <3>3, DrainNames DEF fetch_verified_model, ObservesBefore, ObservesAfter,
         publish_snapshot
    <3>4. CASE build_runtime(w)
      BY <1>0, <3>4 DEF build_runtime, Goto, TypeOK
    <3>5. CASE launch_runtime_stage(w)
      BY <1>0, <3>5 DEF launch_runtime_stage, Goto, Quit, Idle, TypeOK
    <3>6. CASE register_run(w)
      BY <3>1, <3>6 DEF register_run
    <3> QED
      BY <3>2, <3>3, <3>4, <3>5, <3>6 DEF Works
  <2>5. worker'[w].pc \in {"collect", "wait", "publish", "work", "join", "done"}
    BY <1>2, <2>1 DEF Owns, At
  <2>6. worker'[w].pc = "join" => Stage(w) \in {Launch(c) : c \in Cohorts}
    BY <1>0, <1>2 DEF Position, At
  <2> QED
    BY <1>2, <2>3, <2>4, <2>5, <2>6 DEF Position, At, Own, Owns, Stage, Drains
<1> QED
  BY <1>1, <1>2, WorkKeeps

LEMMA EndPosition ==
  ASSUME TypeOK, TypeOK', PositionInv, Next, NEW w \in Workers, Ends(w)
  PROVE  Position(w)'
<1> USE PipelineAssumption
<1>0. /\ worker[w] \in WorkerRecord /\ Position(w)
      /\ Stage(w) \in Stages /\ Own(w) \in Nat
  BY DEF TypeOK, WorkerRecord, PositionInv, Stage, Own
<1>1. CASE worker'[w] = Idle
  BY <1>1, IdlePosition
<1>2. CASE Publish(w) /\ worker'[w] = [worker[w] EXCEPT !.pc = "done"]
  <2>1. worker'[w].pc = "done" /\ worker'[w].stage = Stage(w) /\ worker'[w].own = Own(w)
    BY <1>0, <1>2 DEF WorkerRecord, Stage, Own
  <2>2. Own(w) \in 1 .. journal[Stage(w)].attempt
    BY <1>0, <1>2 DEF Publish, Position, At, Owns
  <2>3. journal'[Stage(w)].attempt = journal[Stage(w)].attempt
    BY <1>0, <1>2 DEF Publish, SetStage, TypeOK, Row
  <2> QED
    BY <2>1, <2>2, <2>3 DEF Position, At, Own, Owns, Stage
<1> QED
  BY <1>1, <1>2, EndKeeps

\* A step never leaves a row that runs without an attempt, nor a container that
\* was not started.
LEMMA NumberedStep ==
  ASSUME TypeOK, PositionInv, Next
  PROVE  /\ \A s \in Stages : Numbered(s)'
         /\ \A c \in Cohorts : box'[c].state # "absent" => box'[c].start > 0
<1> USE PipelineAssumption
<1> DEFINE Started == \A c \in Cohorts : box'[c].state # "absent" => box'[c].start > 0
<1>0. /\ journal \in [Stages -> Row] /\ worker \in [Workers -> WorkerRecord]
      /\ box \in [Cohorts -> [state : {"absent", "up", "down"}, start : 0 .. MaxStarts]]
      /\ \A s \in Stages : Numbered(s)
      /\ \A c \in Cohorts : box[c].state # "absent" => box[c].start > 0
  BY DEF TypeOK, WorkerRecord, PositionInv
<1>1. ASSUME UNCHANGED journal, NEW s \in Stages
      PROVE  Numbered(s)'
  BY <1>0, <1>1 DEF Numbered
<1>2. ASSUME NEW t \in Stages, journal' = [journal EXCEPT ![t] = declare_input(t)],
             NEW s \in Stages
      PROVE  Numbered(s)'
  BY <1>0, <1>2 DEF Numbered, declare_input, Undeclared, Row
<1>3. ASSUME NEW t \in Stages, NEW status \in {"failed", "aborted", "completed"},
             journal' = [journal EXCEPT ![t].status = status], NEW s \in Stages
      PROVE  Numbered(s)'
  BY <1>0, <1>3 DEF Numbered, Undeclared, Row
<1>4. ASSUME NEW w \in Workers PROVE Stage(w) \in Stages
  BY <1>0 DEF WorkerRecord, Stage
<1>5. CASE freeze_stage \/ register_produced_release \/ Environment
  <2>1. \A s \in Stages : Numbered(s)'
    BY <1>1, <1>2, <1>5, StageNames DEF freeze_stage, register_produced_release, Environment,
       RuntimeDies, RuntimeRestarts, DiskFails, OtherFetches, RouteMoves
  <2>2. Started
    <3>1. ASSUME NEW d \in Cohorts, RuntimeDies(d) \/ RuntimeRestarts(d)
          PROVE  Started
      BY <1>0, <3>1 DEF RuntimeDies, RuntimeRestarts
    <3> QED
      BY <1>0, <1>5, <3>1 DEF freeze_stage, register_produced_release, Environment,
         DiskFails, OtherFetches, RouteMoves
  <2> QED
    BY <2>1, <2>2
<1>6. ASSUME NEW w \in Workers, failed_after_drain(w), NEW s \in Stages
      PROVE  Numbered(s)'
  BY <1>1, <1>3, <1>4, <1>6 DEF failed_after_drain
<1>7. ASSUME NEW w \in Workers, Starts(w)
      PROVE  (\A s \in Stages : Numbered(s)') /\ Started
  <2>1. UNCHANGED box
    BY <1>7 DEF Starts, produce_step, StartReads, save, CleanupReads
  <2>2. CASE save(w) /\ ~UNCHANGED journal
    <3>1. /\ journal' = [journal EXCEPT ![Stage(w)] =
               [status |-> "running", attempt |-> worker[w].seen.attempt + 1]]
          /\ worker[w].seen.attempt \in Nat
      BY <1>0, <2>2 DEF save, WorkerRecord, Row
    <3> QED
      BY <1>0, <1>4, <2>1, <3>1 DEF Numbered
  <2>3. ASSUME NEW t \in Stages \ {Execution}, produce_step(w, t)
        PROVE  \A s \in Stages : Numbered(s)'
    BY <1>2, <2>3 DEF produce_step
  <2>4. CASE UNCHANGED journal
    BY <1>0, <1>1, <2>1, <2>4
  <2> QED
    BY <1>0, <1>7, <2>1, <2>2, <2>3, <2>4 DEF Starts, StartReads, CleanupReads
<1>8. ASSUME NEW w \in Workers, Works(w)
      PROVE  (\A s \in Stages : Numbered(s)') /\ Started
  <2>1. \A s \in Stages : Numbered(s)'
    BY <1>1, <1>6, <1>8 DEF Works, Sends, Receives, fetch_verified_model, publish_snapshot,
       build_runtime, launch_runtime_stage, ObservesBefore, ObservesAfter, register_run
  <2>2. CASE UNCHANGED box
    BY <1>0, <2>1, <2>2
  <2>3. CASE launch_runtime_stage(w)
    <3>1. Cohort(Stage(w)) \in Cohorts
      BY <1>4, <2>3, StageKinds, LaunchNames DEF launch_runtime_stage
    <3>2. Started
      BY <1>0, <2>3, <3>1 DEF launch_runtime_stage
    <3> QED
      BY <2>1, <3>2
  <2> QED
    BY <1>8, <2>2, <2>3 DEF Works, Sends, Receives, fetch_verified_model, publish_snapshot,
       build_runtime, ObservesBefore, ObservesAfter, register_run
<1>9. ASSUME NEW w \in Workers, Ends(w)
      PROVE  (\A s \in Stages : Numbered(s)') /\ Started
  <2>1. \A s \in Stages : Numbered(s)'
    BY <1>1, <1>3, <1>4, <1>6, <1>9 DEF Ends, SetStage, start_owned,
       verify_local_http_closure, Publish, PublishLate, Returns, Fails, Dies, cleanup_unserved
  <2>2. CASE UNCHANGED box
    BY <1>0, <2>1, <2>2
  <2>3. CASE cleanup_unserved(w)
    BY <1>0, <2>1, <2>3 DEF cleanup_unserved
  <2> QED
    BY <1>9, <2>2, <2>3 DEF Ends, start_owned, verify_local_http_closure, Publish,
       PublishLate, Returns, Fails, Dies
<1> QED
  BY <1>5, <1>7, <1>8, <1>9, StepCases

LEMMA PositionStep ==
  ASSUME TypeOK, TypeOK', PositionInv, Next
  PROVE  PositionInv'
<1>1. ASSUME NEW v \in Workers
      PROVE  Position(v)'
  <2>1. CASE freeze_stage \/ register_produced_release \/ Environment
    BY <2>1, OthersKeepPosition DEF freeze_stage, register_produced_release, Environment,
       RuntimeDies, RuntimeRestarts, DiskFails, OtherFetches, RouteMoves
  <2>2. ASSUME NEW w \in Workers, Starts(w) \/ Works(w) \/ Ends(w)
        PROVE  Position(v)'
    <3>1. Position(w)'
      BY <2>2, StartPosition, WorkPosition, EndPosition
    <3>2. v # w => worker'[v] = worker[v]
      BY <2>2, StartPosition, WorkKeeps, EndKeeps
    <3> QED
      BY <3>1, <3>2, OthersKeepPosition
  <2> QED
    BY <2>1, <2>2, StepCases
<1> QED
  BY <1>1, NumberedStep DEF PositionInv

-----------------------------------------------------------------------------
(* One owner of each attempt *)

\* What a process may know of its attempt: it has none, or it was given.
LEMMA OwnBelow ==
  ASSUME TypeOK, PositionInv, NEW v \in Workers, Own(v) > 0
  PROVE  Own(v) <= journal[Stage(v)].attempt
<1>1. worker[v].pc \in Pc /\ Position(v)
  BY DEF TypeOK, PositionInv
<1>2. Owns(v) \/ At(v, "join")
  BY <1>1 DEF Position, Pc, Owns, At, Own, Idle
<1> QED
  BY <1>1, <1>2 DEF Position

\* The row of a stage that drains its own work is written, while it runs, only by
\* a process that holds the running attempt.
LEMMA RunningKept ==
  ASSUME TypeOK, PositionInv, NEW w \in Workers, Starts(w) \/ Works(w) \/ Ends(w),
         NEW s \in Stages, Drains(s), journal[s].status = "running",
         Stage(w) # s \/ journal[s].attempt # Own(w)
  PROVE  journal'[s] = journal[s]
<1>0. journal \in [Stages -> Row] /\ Stage(w) \in Stages
  BY DEF TypeOK, Stage
<1>1. CASE UNCHANGED journal
  BY <1>1
<1>2. CASE failed_after_drain(w)
  BY <1>0, <1>2 DEF failed_after_drain, require_attempt
<1>3. ASSUME NEW t \in Stages \ {Execution}, produce_step(w, t)
      PROVE  journal'[s] = journal[s]
  BY <1>0, <1>3 DEF produce_step, declare_input
<1>4. CASE save(w)
  <2>1. Startable(worker[w].seen)
    BY <1>4 DEF save, PositionInv, Position
  <2> QED
    BY <1>0, <1>4, <2>1 DEF save, Startable
<1>5. CASE Publish(w)
  BY <1>0, <1>5 DEF Publish, require_attempt, SetStage
<1>6. CASE cleanup_unserved(w)
  <2>1. Stage(w) # s
    BY <1>6, LaunchNames DEF cleanup_unserved, PositionInv, Position
  <2> QED
    BY <1>0, <1>6, <2>1 DEF cleanup_unserved, SetStage
<1>7. CASE Starts(w)
  BY <1>1, <1>3, <1>4, <1>7 DEF Starts, StartReads, CleanupReads
<1>8. CASE Works(w)
  BY <1>1, <1>2, <1>8 DEF Works, Sends, Receives, fetch_verified_model, publish_snapshot,
     build_runtime, launch_runtime_stage, ObservesBefore, ObservesAfter, register_run
<1>9. CASE Ends(w)
  BY <1>1, <1>2, <1>5, <1>6, <1>9 DEF Ends, start_owned, verify_local_http_closure,
     PublishLate, Returns, Fails, Dies
<1> QED
  BY <1>7, <1>8, <1>9

LEMMA OutsideKeeps ==
  ASSUME TypeOK, freeze_stage \/ register_produced_release \/ Environment
  PROVE  /\ UNCHANGED <<worker, open, launched, evidence>>
         /\ \A s \in Stages : journal[s].status = "running" => journal'[s] = journal[s]
<1>0. journal \in [Stages -> Row]
  BY DEF TypeOK
<1>1. CASE freeze_stage
  BY <1>0, <1>1, StageNames DEF freeze_stage, declare_input
<1>2. CASE register_produced_release \/ Environment
  BY <1>2 DEF register_produced_release, Environment, RuntimeDies, RuntimeRestarts, DiskFails,
     OtherFetches, RouteMoves
<1> QED
  BY <1>1, <1>2

\* What a process that starts something may be about to do: nothing that drains,
\* or nothing yet, or the attempt it has just added to a row nobody was running.
LEMMA StartOutcome ==
  ASSUME TypeOK, PositionInv, NEW w \in Workers, Starts(w)
  PROVE  \/ worker'[w].own = 0 /\ worker'[w].pc \in {"idle", "start", "save", "clean"}
         \/ ~Drains(worker'[w].stage)
         \/ /\ journal[Stage(w)].status # "running"
            /\ worker'[w].stage = Stage(w)
            /\ worker'[w].own = journal[Stage(w)].attempt + 1
            /\ journal'[Stage(w)] = [status |-> "running",
                                     attempt |-> journal[Stage(w)].attempt + 1]
            /\ worker'[w].pc = "work"
<1> USE PipelineAssumption
<1>0. /\ worker \in [Workers -> WorkerRecord] /\ worker[w] \in WorkerRecord
      /\ Position(w) /\ (At(w, "idle") => worker[w] = Idle)
      /\ journal \in [Stages -> Row] /\ Stage(w) \in Stages
  BY DEF TypeOK, WorkerRecord, PositionInv, Position, Stage
<1>1. ASSUME NEW s \in Stages \ {Execution}, produce_step(w, s)
      PROVE  \/ worker'[w].own = 0 /\ worker'[w].pc = "start"
             \/ ~Drains(worker'[w].stage)
  <2>1. worker[w] = Idle
    BY <1>0, <1>1 DEF produce_step
  <2>2. CASE worker' = [worker EXCEPT ![w].pc = "start", ![w].stage = s]
    BY <1>0, <2>1, <2>2 DEF Idle
  <2>3. CASE /\ s = Plan \/ s[1] = "launch"
             /\ worker' = [worker EXCEPT ![w].pc = IF s = Plan THEN "publish" ELSE "join",
                                         ![w].stage = s, ![w].own = journal[s].attempt]
    <3>1. worker'[w].stage = s
      BY <1>0, <2>3
    <3> QED
      BY <2>3, <3>1, StageKinds, LaunchNames, DrainNames
  <2> QED
    BY <1>1, <2>2, <2>3 DEF produce_step
<1>2. ASSUME Quit(w)
      PROVE  worker'[w].own = 0 /\ worker'[w].pc = "idle"
  BY <1>0, <1>2 DEF Quit, Idle
<1>3. CASE StartReads(w)
  BY <1>0, <1>2, <1>3 DEF StartReads, WorkerRecord, Position, At, Own
<1>4. CASE save(w) /\ ~Quit(w)
  <2>1. Startable(worker[w].seen) /\ worker[w].seen = journal[Stage(w)]
    BY <1>0, <1>4 DEF save, Position
  <2>2. /\ worker'[w].stage = Stage(w)
        /\ worker'[w].own = worker[w].seen.attempt + 1
        /\ worker'[w].pc = IF Stage(w) = Plan THEN "publish" ELSE "work"
        /\ journal'[Stage(w)] = [status |-> "running", attempt |-> worker[w].seen.attempt + 1]
    BY <1>0, <1>4 DEF save, Stage, WorkerRecord
  <2> QED
    BY <2>1, <2>2, DrainNames DEF Startable
<1>5. ASSUME NEW c \in Cohorts, CleanupReads(w, c)
      PROVE  worker'[w].own = 0 /\ worker'[w].pc = "clean"
  BY <1>0, <1>5 DEF CleanupReads, WorkerRecord, Idle
<1> QED
  BY <1>1, <1>2, <1>3, <1>4, <1>5 DEF Starts

\* A step inside a stage writes the row only to end the attempt, and is taken
\* from a position where the attempt runs, or by a launch.
LEMMA WorkOutcome ==
  ASSUME TypeOK, PositionInv, NEW w \in Workers, Works(w)
  PROVE  /\ worker[w].pc \in {"work", "collect", "wait", "publish"} \/ ~Drains(Stage(w))
         /\ worker'[w] = Idle \/ UNCHANGED journal
<1>0. worker \in [Workers -> WorkerRecord] /\ Stage(w) \in Stages
  BY DEF TypeOK, WorkerRecord, Stage
<1>1. worker[w].pc \in {"work", "collect", "wait", "publish"} \/ ~Drains(Stage(w))
  <2>1. CASE launch_runtime_stage(w)
    BY <1>0, <2>1, StageKinds, LaunchNames DEF launch_runtime_stage
  <2> QED
    BY <2>1 DEF Works, Sends, Receives, fetch_verified_model, publish_snapshot, build_runtime,
       ObservesBefore, ObservesAfter, register_run, At
<1>2. failed_after_drain(w) => worker'[w] = Idle
  BY <1>0 DEF failed_after_drain, Quit
<1> QED
  BY <1>1, <1>2 DEF Works, Sends, Receives, fetch_verified_model, publish_snapshot,
     build_runtime, launch_runtime_stage, ObservesBefore, ObservesAfter, register_run

\* A process that has the running attempt of a stage that drains its own work.
Holds(w) ==
  Drains(Stage(w)) /\ worker[w].pc \in {"work", "collect", "wait", "publish"}

LEMMA HoldsOwn ==
  ASSUME TypeOK, PositionInv, NEW w \in Workers, Holds(w)
  PROVE  Own(w) > 0
BY PipelineAssumption DEF Holds, PositionInv, Position, Owns, TypeOK, Row

LEMMA OneOwner ==
  ASSUME TypeOK, TypeOK', PositionInv, OwnerInv, Next
  PROVE  \A v, w \in Workers :
           (Drains(Stage(w)) /\ Own(w) > 0 /\ Request(v) = Request(w) => v = w)'
<1> USE PipelineAssumption
<1> DEFINE Same(u) == worker'[u].stage = worker[u].stage /\ worker'[u].own = worker[u].own
<1>0. \A u \in Workers : Own(u) \in Nat /\ journal[Stage(u)].attempt \in Nat
  BY DEF TypeOK, Own, Stage, Row
<1>1. ASSUME NEW w \in Workers,
             \A u \in Workers \ {w} : worker'[u] = worker[u],
             worker'[w].own = 0 \/ ~Drains(worker'[w].stage) \/ Same(w),
             NEW u \in Workers, NEW v \in Workers,
             Drains(Stage(u))', (Own(u) > 0)', (Request(v) = Request(u))'
      PROVE  u = v
  <2>1. Same(u)
    BY <1>0, <1>1 DEF Stage, Own, Drains
  <2>2. Same(v)
    BY <1>0, <1>1 DEF Stage, Own, Drains, Request
  <2> QED
    BY <1>1, <2>1, <2>2 DEF Stage, Own, Drains, Request, OwnerInv
<1>2. CASE freeze_stage \/ register_produced_release \/ Environment
  BY <1>2, OutsideKeeps DEF OwnerInv, Stage, Own, Drains, Request
<1>3. ASSUME NEW w \in Workers, Starts(w), NEW u \in Workers, NEW v \in Workers,
             Drains(Stage(u))', (Own(u) > 0)', (Request(v) = Request(u))'
      PROVE  u = v
  <2>1. \A x \in Workers \ {w} : worker'[x] = worker[x]
    BY <1>3, StartPosition
  <2>2. CASE worker'[w].own = 0 \/ ~Drains(worker'[w].stage)
    BY <1>1, <1>3, <2>1, <2>2
  <2>3. CASE /\ worker'[w].stage = Stage(w)
             /\ worker'[w].own = journal[Stage(w)].attempt + 1
    <3>1. \A x \in Workers \ {w} : Request(x)' # Request(w)'
      <4> SUFFICES ASSUME NEW x \in Workers \ {w}, Request(x)' = Request(w)' PROVE FALSE
        OBVIOUS
      <4>1. Stage(x) = Stage(w) /\ Own(x) = journal[Stage(w)].attempt + 1
        BY <2>1, <2>3 DEF Request, Stage, Own
      <4> QED
        BY <1>0, <4>1, OwnBelow
    <3>2. CASE u = w \/ v = w
      BY <1>3, <3>1, <3>2
    <3>3. CASE u # w /\ v # w
      BY <1>3, <2>1, <3>3 DEF Stage, Own, Drains, Request, OwnerInv
    <3> QED
      BY <3>2, <3>3
  <2> QED
    BY <1>3, <2>2, <2>3, StartOutcome
<1>4. ASSUME NEW w \in Workers, Works(w) \/ Ends(w), NEW u \in Workers, NEW v \in Workers,
             Drains(Stage(u))', (Own(u) > 0)', (Request(v) = Request(u))'
      PROVE  u = v
  <2>1. \A x \in Workers \ {w} : worker'[x] = worker[x]
    BY <1>4, WorkKeeps, EndKeeps
  <2>2. worker'[w].own = 0 \/ Same(w)
    <3>1. worker[w] \in WorkerRecord
      BY DEF TypeOK, WorkerRecord
    <3>2. CASE worker'[w] = Idle
      BY <3>2 DEF Idle
    <3>3. CASE worker'[w] = [worker[w] EXCEPT !.pc = "done"]
      BY <3>1, <3>3 DEF WorkerRecord
    <3> QED
      BY <1>4, <3>2, <3>3, WorkKeeps, EndKeeps
  <2> QED
    BY <1>1, <1>4, <2>1, <2>2
<1> QED
  BY <1>2, <1>3, <1>4, StepCases

LEMMA HolderRuns ==
  ASSUME TypeOK, TypeOK', PositionInv, OwnerInv, Next, NEW v \in Workers, Holds(v)'
  PROVE  require_attempt(Stage(v), Own(v))'
<1>0. /\ Stage(v) \in Stages
      /\ \A u \in Workers : Holds(u) => require_attempt(Stage(u), Own(u))
  BY DEF TypeOK, Stage, OwnerInv, Holds
<1>1. ASSUME worker'[v] = worker[v], journal'[Stage(v)] = journal[Stage(v)]
      PROVE  require_attempt(Stage(v), Own(v))'
  BY <1>0, <1>1 DEF Holds, Stage, Own, Drains, require_attempt
<1>2. CASE freeze_stage \/ register_produced_release \/ Environment
  BY <1>0, <1>1, <1>2, OutsideKeeps DEF Holds, Stage, Own, Drains, require_attempt
<1>3. ASSUME NEW w \in Workers, Starts(w) \/ Works(w) \/ Ends(w), v # w
      PROVE  require_attempt(Stage(v), Own(v))'
  <2>1. worker'[v] = worker[v]
    BY <1>3, StartPosition, WorkKeeps, EndKeeps
  <2>2. Holds(v) /\ require_attempt(Stage(v), Own(v))
    BY <1>0, <2>1 DEF Holds, Stage, Drains
  <2>3. Stage(w) # Stage(v) \/ journal[Stage(v)].attempt # Own(w)
    BY <1>3, <2>2, HoldsOwn DEF require_attempt, OwnerInv, Request, Holds
  <2> QED
    BY <1>0, <1>1, <1>3, <2>1, <2>2, <2>3, RunningKept DEF require_attempt, Holds
<1>4. CASE Starts(v)
  <2>1. Drains(worker'[v].stage) /\ worker'[v].pc \in {"work", "collect", "wait", "publish"}
    BY DEF Holds, Stage, Drains
  <2>2. /\ worker'[v].stage = Stage(v)
        /\ worker'[v].own = journal[Stage(v)].attempt + 1
        /\ journal'[Stage(v)] = [status |-> "running", attempt |-> journal[Stage(v)].attempt + 1]
    BY <1>4, <2>1, StartOutcome
  <2> QED
    BY <2>2 DEF Stage, Own, require_attempt
<1>5. CASE Works(v)
  <2>1. /\ worker'[v].stage = worker[v].stage /\ worker'[v].own = worker[v].own
        /\ UNCHANGED journal
    BY <1>5, WorkKeeps, WorkOutcome DEF Holds, Idle
  <2>2. Holds(v)
    BY <1>5, <2>1, WorkOutcome DEF Holds, Stage, Drains
  <2> QED
    BY <1>0, <2>1, <2>2 DEF Stage, Own, require_attempt
<1>6. CASE Ends(v)
  <2>1. worker[v] \in WorkerRecord
    BY DEF TypeOK, WorkerRecord
  <2>2. worker'[v].pc \in {"idle", "done"}
    <3>1. Idle.pc = "idle"
      BY DEF Idle
    <3>2. [worker[v] EXCEPT !.pc = "done"].pc = "done"
      BY <2>1 DEF WorkerRecord
    <3> QED
      BY <1>6, <3>1, <3>2, EndKeeps
  <2> QED
    BY <2>2 DEF Holds
<1> QED
  BY <1>2, <1>3, <1>4, <1>5, <1>6, StepCases

LEMMA OwnerStep ==
  ASSUME TypeOK, TypeOK', PositionInv, OwnerInv, Next
  PROVE  OwnerInv'
<1>1. \A w \in Workers : Holds(w)' => require_attempt(Stage(w), Own(w))'
  BY HolderRuns
<1> QED
  BY <1>1, OneOwner DEF OwnerInv, Holds

-----------------------------------------------------------------------------
(* Open requests *)

\* What a step does to the requests that are open.
LEMMA OpenChange ==
  ASSUME TypeOK, NEW w \in Workers, Starts(w) \/ Works(w) \/ Ends(w)
  PROVE  \/ UNCHANGED open
         \/ /\ Sends(w)
            /\ open' = open \cup {Request(w)}
         \/ /\ open' = open \ {Request(w)}
            /\ Receives(w) \/ failed_after_drain(w)
<1>1. failed_after_drain(w) => open' = open \ {Request(w)}
  BY DEF failed_after_drain
<1>2. CASE Starts(w)
  BY <1>2 DEF Starts, produce_step, StartReads, save, CleanupReads
<1>3. CASE Works(w)
  BY <1>1, <1>3 DEF Works, Sends, Receives, fetch_verified_model, publish_snapshot,
     build_runtime, launch_runtime_stage, ObservesBefore, ObservesAfter, register_run
<1>4. CASE Ends(w)
  BY <1>1, <1>4 DEF Ends, start_owned, verify_local_http_closure, Publish, PublishLate,
     Returns, Fails, Dies, cleanup_unserved
<1> QED
  BY <1>2, <1>3, <1>4

\* The row of an open request is written only when its owner unwinds.
LEMMA OpenRunsOn ==
  ASSUME TypeOK, PositionInv, OwnerInv, OpenInv, NEW r \in open,
         NEW w \in Workers, Starts(w) \/ Works(w) \/ Ends(w)
  PROVE  journal'[r[1]] = journal[r[1]] \/ (failed_after_drain(w) /\ r = Request(w))
<1>0. /\ r \in Stages \X (1 .. MaxAttempts) /\ r = <<r[1], r[2]>> /\ r[1] \in Stages
      /\ Drains(r[1]) /\ journal[r[1]].status = "running" /\ journal[r[1]].attempt = r[2]
      /\ journal \in [Stages -> Row] /\ worker \in [Workers -> WorkerRecord]
  BY DEF TypeOK, OpenInv, WorkerRecord
<1>1. CASE Stage(w) # r[1] \/ Own(w) # r[2]
  BY <1>0, <1>1, RunningKept
<1>2. CASE Stage(w) = r[1] /\ Own(w) = r[2]
  <2>1. Request(w) = r /\ At(w, "wait")
    BY <1>0, <1>2 DEF Request, OpenInv
  <2>2. CASE UNCHANGED journal
    BY <2>2
  <2>3. CASE failed_after_drain(w)
    BY <2>1, <2>3
  <2>4. ~Publish(w) /\ ~cleanup_unserved(w) /\ ~Starts(w)
    <3>1. ~Publish(w) /\ ~cleanup_unserved(w) /\ ~save(w) /\ ~StartReads(w)
      BY <2>1 DEF Publish, cleanup_unserved, save, StartReads, At
    <3>2. \A s \in Stages \ {Execution} : ~produce_step(w, s)
      BY <2>1 DEF produce_step, At
    <3>3. \A c \in Cohorts : ~CleanupReads(w, c)
      BY <2>1 DEF CleanupReads, At
    <3> QED
      BY <3>1, <3>2, <3>3 DEF Starts
  <2>5. CASE Works(w)
    BY <2>2, <2>3, <2>5 DEF Works, Sends, Receives, fetch_verified_model, publish_snapshot,
       build_runtime, launch_runtime_stage, ObservesBefore, ObservesAfter, register_run
  <2>6. CASE Ends(w)
    BY <2>2, <2>3, <2>4, <2>6 DEF Ends, start_owned, verify_local_http_closure, PublishLate,
       Returns, Fails, Dies
  <2> QED
    BY <2>4, <2>5, <2>6
<1> QED
  BY <1>1, <1>2

\* A request that is open belongs to the running attempt of a stage.
OpenRuns == \A r \in open : /\ Drains(r[1])
                            /\ journal[r[1]].status = "running"
                            /\ journal[r[1]].attempt = r[2]

LEMMA OpenRunsStep ==
  ASSUME TypeOK, PositionInv, OwnerInv, OpenInv, Next
  PROVE  OpenRuns'
<1>0. /\ OpenRuns /\ open \subseteq Stages \X (1 .. MaxAttempts)
      /\ \A r \in open : r[1] \in Stages
  BY DEF OpenInv, OpenRuns, TypeOK
<1>1. CASE freeze_stage \/ register_produced_release \/ Environment
  BY <1>0, <1>1, OutsideKeeps DEF OpenRuns, Drains
<1>2. ASSUME NEW w \in Workers, Starts(w) \/ Works(w) \/ Ends(w), NEW r \in open'
      PROVE  /\ Drains(r[1])
             /\ journal'[r[1]].status = "running"
             /\ journal'[r[1]].attempt = r[2]
  <2>1. CASE r \in open /\ ~(failed_after_drain(w) /\ r = Request(w))
    BY <1>0, <1>2, <2>1, OpenRunsOn DEF OpenRuns
  <2>2. CASE failed_after_drain(w) /\ r = Request(w)
    BY <1>2, <2>2 DEF failed_after_drain
  <2>3. CASE Sends(w) /\ r = Request(w)
    <3>1. Drains(Stage(w)) /\ require_attempt(Stage(w), Own(w))
      BY <2>3 DEF Sends, PositionInv, Position, OwnerInv, At
    <3>2. journal' = journal /\ r[1] = Stage(w) /\ r[2] = Own(w)
      BY <2>3 DEF Sends, Request
    <3> QED
      BY <3>1, <3>2 DEF require_attempt
  <2> QED
    BY <1>2, <2>1, <2>2, <2>3, OpenChange
<1>3. ASSUME NEW w \in Workers, Starts(w) \/ Works(w) \/ Ends(w)
      PROVE  OpenRuns'
  BY <1>2, <1>3 DEF OpenRuns, Drains
<1> QED
  BY <1>1, <1>3, StepCases

LEMMA OpenWaitsStep ==
  ASSUME TypeOK, TypeOK', PositionInv, OwnerInv, OpenInv, Next, NEW v \in Workers,
         Request(v)' \in open'
  PROVE  At(v, "wait")'
<1> USE PipelineAssumption
<1>0. /\ open \subseteq Stages \X (1 .. MaxAttempts)
      /\ open' \subseteq Stages \X (1 .. MaxAttempts)
      /\ Request(v)' = <<worker'[v].stage, worker'[v].own>>
      /\ worker'[v].own > 0
      /\ \A u \in Workers : Request(u) \in open => At(u, "wait")
  BY DEF TypeOK, OpenInv, Request, Stage, Own
<1>1. CASE freeze_stage \/ register_produced_release \/ Environment
  BY <1>0, <1>1, OutsideKeeps DEF Request, Stage, Own, At
<1>2. ASSUME NEW w \in Workers, Starts(w) \/ Works(w) \/ Ends(w), w # v
      PROVE  At(v, "wait")'
  <2>1. worker'[v] = worker[v]
    BY ZenonT(30), <1>2, StartPosition, WorkKeeps, EndKeeps
  <2>2. CASE Request(v) \in open
    BY <1>0, <2>1, <2>2 DEF At
  <2>3. CASE Request(v) \notin open
    <3>1. Sends(w) /\ Request(v) = Request(w)
      BY <1>0, <1>2, <2>1, <2>3, OpenChange DEF Request, Stage, Own
    <3>2. Holds(w)
      BY <3>1 DEF Sends, Holds, PositionInv, Position, At
    <3> QED
      BY <1>2, <3>1, <3>2, HoldsOwn DEF OwnerInv, Holds
  <2> QED
    BY <2>2, <2>3
<1>3. CASE Starts(v)
  <2>1. open' = open
    BY <1>3 DEF Starts, produce_step, StartReads, save, CleanupReads
  <2>2. Drains(worker'[v].stage) /\ journal[worker'[v].stage].status = "running"
        /\ journal[worker'[v].stage].attempt = worker'[v].own
    BY <1>0, <2>1 DEF OpenInv
  <2>3. worker'[v].own # 0
    BY <1>0
  <2> QED
    BY <1>3, <2>2, <2>3, StartOutcome
<1>4. CASE Works(v)
  <2>1. /\ worker'[v].stage = worker[v].stage /\ worker'[v].own = worker[v].own
    BY <1>0, <1>4, WorkKeeps DEF Idle
  <2>2. Request(v) \in open' /\ ~failed_after_drain(v)
    <3>1. worker'[v] # Idle
      BY <1>0 DEF Idle
    <3> QED
      BY <1>0, <2>1, <3>1 DEF Request, Stage, Own, failed_after_drain, Quit, TypeOK
  <2>3. CASE Sends(v)
    BY <2>3 DEF Sends, Goto, At, TypeOK
  <2>4. CASE open' = open
    <3>1. At(v, "wait")
      BY <1>0, <2>2, <2>4
    <3> QED
      BY <1>4, <2>2, <2>4, <3>1 DEF Works, Sends, Receives, fetch_verified_model,
         publish_snapshot, build_runtime, launch_runtime_stage, ObservesBefore, ObservesAfter,
         register_run, At
  <2> QED
    BY <1>4, <2>2, <2>3, <2>4, OpenChange
<1>5. CASE Ends(v)
  <2>1. Publish(v) /\ worker'[v].stage = worker[v].stage /\ worker'[v].own = worker[v].own
    BY <1>0, <1>5, EndKeeps DEF Idle, TypeOK
  <2>2. Request(v) \in open
    BY <1>0, <2>1 DEF Publish, Request, Stage, Own
  <2> QED
    BY <1>0, <2>1, <2>2 DEF Publish, At
<1> QED
  BY <1>1, <1>2, <1>3, <1>4, <1>5, StepCases

LEMMA OpenStep ==
  ASSUME TypeOK, TypeOK', PositionInv, OwnerInv, OpenInv, Next
  PROVE  OpenInv'
BY OpenRunsStep, OpenWaitsStep DEF OpenInv, OpenRuns

-----------------------------------------------------------------------------
(* What has answered *)

LEMMA BoxGrows ==
  ASSUME TypeOK, PositionInv, Next, NEW c \in Cohorts
  PROVE  box'[c].start >= box[c].start
<1> USE PipelineAssumption
<1>0. /\ box \in [Cohorts -> [state : {"absent", "up", "down"}, start : 0 .. MaxStarts]]
      /\ box[c].start \in Nat
  BY DEF TypeOK
<1>1. CASE UNCHANGED box
  BY <1>0, <1>1
<1>2. ASSUME NEW d \in Cohorts, RuntimeDies(d) \/ RuntimeRestarts(d)
      PROVE  box'[c].start >= box[c].start
  BY <1>0, <1>2 DEF RuntimeDies, RuntimeRestarts
<1>3. ASSUME NEW w \in Workers, launch_runtime_stage(w)
      PROVE  box'[c].start >= box[c].start
  BY <1>0, <1>3 DEF launch_runtime_stage
<1>4. ASSUME NEW w \in Workers, cleanup_unserved(w)
      PROVE  box'[c].start >= box[c].start
  BY <1>0, <1>4 DEF cleanup_unserved
<1>5. CASE freeze_stage \/ register_produced_release \/ Environment
  BY <1>1, <1>2, <1>5 DEF freeze_stage, register_produced_release, Environment, DiskFails,
     OtherFetches, RouteMoves
<1>6. ASSUME NEW w \in Workers, Starts(w)
      PROVE  UNCHANGED box
  BY <1>6 DEF Starts, produce_step, StartReads, save, CleanupReads
<1>7. ASSUME NEW w \in Workers, Works(w)
      PROVE  UNCHANGED box \/ launch_runtime_stage(w)
  BY <1>7 DEF Works, Sends, Receives, fetch_verified_model, publish_snapshot, build_runtime,
     ObservesBefore, ObservesAfter, register_run
<1>8. ASSUME NEW w \in Workers, Ends(w)
      PROVE  UNCHANGED box \/ cleanup_unserved(w)
  BY <1>8 DEF Ends, start_owned, verify_local_http_closure, Publish, PublishLate, Returns,
     Fails, Dies
<1> QED
  BY <1>1, <1>3, <1>4, <1>5, <1>6, <1>7, <1>8, StepCases

\* Launch receipts and evidence are written by Publish alone.
LEMMA ReceiptCases ==
  ASSUME TypeOK, Next
  PROVE  UNCHANGED <<launched, evidence>> \/ \E w \in Workers : Publish(w)
<1>1. CASE freeze_stage \/ register_produced_release \/ Environment
  BY <1>1, OutsideKeeps
<1>2. ASSUME NEW w \in Workers, Starts(w)
      PROVE  UNCHANGED <<launched, evidence>>
  BY <1>2 DEF Starts, produce_step, StartReads, save, CleanupReads
<1>3. ASSUME NEW w \in Workers, Works(w)
      PROVE  UNCHANGED <<launched, evidence>>
  BY <1>3 DEF Works, Sends, Receives, fetch_verified_model, publish_snapshot, build_runtime,
     launch_runtime_stage, ObservesBefore, ObservesAfter, register_run
<1>4. ASSUME NEW w \in Workers, Ends(w)
      PROVE  UNCHANGED <<launched, evidence>> \/ Publish(w)
  BY <1>4 DEF Ends, start_owned, verify_local_http_closure, PublishLate, Returns, Fails, Dies,
     cleanup_unserved
<1> QED
  BY <1>1, <1>2, <1>3, <1>4, StepCases

\* The receipt of a completed launch is fixed, and so is its place in the journal.
LEMMA LaunchFixed ==
  ASSUME TypeOK, PositionInv, Next, NEW c \in Cohorts, Done(Launch(c))
  PROVE  launched'[c] = launched[c] /\ Done(Launch(c))'
<1>1. Done(Launch(c))'
  BY JournalGrows, StageNames DEF Done
<1>2. ASSUME NEW w \in Workers, Publish(w)
      PROVE  launched'[c] = launched[c]
  <2>1. Stage(w) # Launch(c)
    BY <1>2 DEF Publish, require_attempt, Done
  <2>2. Stage(w) \in Stages /\ launched \in [Cohorts -> 0 .. MaxStarts]
    BY DEF TypeOK, Stage
  <2>3. Stage(w)[1] = "launch" => Stage(w)[2] # c
    BY <2>1, <2>2, StageKinds, LaunchNames DEF Launch
  <2> QED
    BY <1>2, <2>2, <2>3 DEF Publish
<1> QED
  BY <1>1, <1>2, ReceiptCases

LEMMA LaunchedBelow ==
  ASSUME TypeOK, PositionInv, Next, \A c \in Cohorts : launched[c] <= box[c].start,
         NEW c \in Cohorts
  PROVE  launched'[c] <= box'[c].start
<1>0. /\ launched \in [Cohorts -> 0 .. MaxStarts] /\ launched[c] \in Int
      /\ box[c].start \in Int /\ box'[c].start >= box[c].start
  BY BoxGrows, PipelineAssumption DEF TypeOK
<1>1. CASE UNCHANGED launched
  <2>1. box'[c].start \in Int
    BY <1>0, TypeStep, PipelineAssumption DEF TypeOK
  <2> QED
    BY <1>0, <1>1, <2>1
<1>2. ASSUME NEW w \in Workers, Publish(w)
      PROVE  launched'[c] <= box'[c].start
  <2>1. box' = box
    BY <1>2 DEF Publish
  <2>2. CASE Stage(w)[1] = "launch" /\ Stage(w)[2] = c
    BY <1>0, <1>2, <2>1, <2>2 DEF Publish
  <2>3. CASE ~(Stage(w)[1] = "launch" /\ Stage(w)[2] = c)
    BY <1>0, <1>2, <2>1, <2>3 DEF Publish
  <2> QED
    BY <2>2, <2>3
<1> QED
  BY <1>1, <1>2, ReceiptCases

\* A process that does not move keeps what it may have been answered by.
LEMMA ServedKept ==
  ASSUME TypeOK, TypeOK', PositionInv, ServedInv, Next, NEW w \in Workers,
         worker'[w].stage = worker[w].stage, worker'[w].served = worker[w].served,
         worker'[w].pc \in {"publish", "done"}
           => worker[w].pc \in {"publish", "done"}
  PROVE  Served(w)'
<1> USE PipelineAssumption
<1>0. Served(w)
  BY DEF ServedInv
<1>1. CASE Stage(w) \notin Collections
  BY <1>0, <1>1 DEF Served, Stage
<1>2. CASE Stage(w) \in Collections
  <2>1. PICK c \in Cohorts : Cohort(Stage(w)) = c
    BY <1>2, CollectionNames
  <2>2. Done(Launch(c))
    BY <1>0, <1>2, <2>1 DEF Served
  <2>3. launched'[c] = launched[c] /\ Done(Launch(c))' /\ box'[c].start >= box[c].start
    BY <2>2, LaunchFixed, BoxGrows
  <2>4. box'[c].start \in Int /\ box[c].start \in Int /\ launched[c] \in Int
    BY DEF TypeOK
  <2>5. Stage(w)' = Stage(w) /\ Cohort(Stage(w)') = c
    BY <2>1 DEF Stage
  <2>6. worker'[w].served \subseteq launched'[c] .. box'[c].start
    BY <1>0, <1>2, <2>1, <2>3, <2>4 DEF Served
  <2>7. worker'[w].pc \in {"publish", "done"} => worker'[w].served \subseteq {launched'[c]}
    BY <1>0, <1>2, <2>1, <2>3 DEF Served
  <2> QED
    BY <1>2, <2>3, <2>5, <2>6, <2>7 DEF Served, Cohort, Stage
<1> QED
  BY <1>1, <1>2

LEMMA IdleServed ==
  ASSUME NEW w \in Workers, worker'[w] = Idle
  PROVE  Served(w)'
<1>1. Execution \notin Collections
  BY CollectionNames
<1> QED
  BY <1>1 DEF Served, Stage, Idle

LEMMA StartServed ==
  ASSUME TypeOK, TypeOK', PositionInv, ServedInv, Next, NEW w \in Workers, Starts(w)
  PROVE  Served(w)'
<1> USE PipelineAssumption
<1>0. /\ worker \in [Workers -> WorkerRecord] /\ worker[w] \in WorkerRecord
      /\ (At(w, "idle") => worker[w] = Idle) /\ Stage(w) \in Stages
  BY DEF TypeOK, WorkerRecord, PositionInv, Position, Stage
<1>1. ASSUME NEW s \in Stages \ {Execution}, produce_step(w, s)
      PROVE  Served(w)'
  <2>1. worker[w] = Idle
    BY <1>0, <1>1 DEF produce_step
  <2>2. worker'[w].stage = s /\ worker'[w].served = {}
    BY <1>0, <1>1, <2>1 DEF produce_step, Idle
  <2>3. CASE s \notin Collections
    BY <2>2, <2>3 DEF Served, Stage
  <2>4. CASE s \in Collections
    <3>1. Done(Launch(Cohort(s)))'
      BY <1>1, <2>4, CollectedAfterLaunch, CollectionNames, LaunchFixed DEF produce_step
    <3> QED
      BY <2>2, <2>4, <3>1 DEF Served, Stage, Cohort, Launch, Done
  <2> QED
    BY <2>3, <2>4
<1>2. CASE StartReads(w)
  <2>1. CASE Quit(w)
    BY <1>0, <2>1, IdleServed DEF Quit
  <2>2. CASE worker' = [worker EXCEPT ![w].pc = "save", ![w].seen = journal[Stage(w)]]
    BY <1>0, <2>2, ServedKept DEF WorkerRecord
  <2> QED
    BY <1>2, <2>1, <2>2 DEF StartReads
<1>3. CASE save(w)
  <2>1. CASE Quit(w)
    BY <1>0, <2>1, IdleServed DEF Quit
  <2>2. CASE ~Quit(w)
    <3>1. /\ worker'[w].stage = worker[w].stage /\ worker'[w].served = worker[w].served
          /\ worker'[w].pc = IF Stage(w) = Plan THEN "publish" ELSE "work"
      BY <1>0, <1>3, <2>2 DEF save, WorkerRecord
    <3>2. CASE Stage(w) # Plan
      BY <3>1, <3>2, ServedKept
    <3>3. CASE Stage(w) = Plan
      <4>1. Stage(w) \notin Collections
        BY <3>3, CollectionNames
      <4> QED
        BY <3>1, <4>1 DEF ServedInv, Served, Stage
    <3> QED
      BY <3>2, <3>3
  <2> QED
    BY <2>1, <2>2
<1>4. ASSUME NEW c \in Cohorts, CleanupReads(w, c)
      PROVE  Served(w)'
  <2>1. worker'[w].stage = Launch(c) /\ worker'[w].served = {}
    BY <1>0, <1>4 DEF CleanupReads, WorkerRecord, Idle
  <2> QED
    BY <2>1, LaunchNames DEF Served, Stage
<1> QED
  BY <1>1, <1>2, <1>3, <1>4 DEF Starts

LEMMA WorkServed ==
  ASSUME TypeOK, TypeOK', PositionInv, ServedInv, Next, NEW w \in Workers, Works(w)
  PROVE  Served(w)'
<1> USE PipelineAssumption
<1>0. /\ worker \in [Workers -> WorkerRecord] /\ worker[w] \in WorkerRecord
      /\ Position(w) /\ Served(w) /\ Stage(w) \in Stages
  BY DEF TypeOK, WorkerRecord, PositionInv, ServedInv, Stage
<1>1. ASSUME Quit(w) \/ failed_after_drain(w)
      PROVE  Served(w)'
  BY <1>0, <1>1, IdleServed DEF Quit, failed_after_drain
<1>2. ASSUME NEW pc \in {"collect", "wait", "publish"}, Goto(w, pc)
      PROVE  /\ worker'[w].stage = worker[w].stage
             /\ worker'[w].served = worker[w].served
             /\ worker'[w].pc = pc
  BY <1>0, <1>2 DEF Goto, WorkerRecord
<1>3. ASSUME NEW pc \in {"collect", "wait"}, Goto(w, pc)
      PROVE  Served(w)'
  BY <1>2, <1>3, ServedKept
<1>4. ASSUME Stage(w) \notin Collections, Goto(w, "publish")
      PROVE  Served(w)'
  BY <1>0, <1>2, <1>4 DEF Served, Stage
<1>5. CASE Sends(w)
  BY <1>3, <1>5 DEF Sends
<1>6. CASE Receives(w)
  <2>1. Drains(Stage(w)) /\ At(w, "wait")
    BY <1>0, <1>6 DEF Receives, Position, At
  <2>2. /\ worker'[w].stage = worker[w].stage /\ worker'[w].pc = "collect"
        /\ Stage(w)' = Stage(w)
    BY <1>0, <1>6 DEF Receives, WorkerRecord, Stage
  <2>3. CASE Stage(w) = Model
    <3>1. worker'[w].served = worker[w].served
      BY <1>0, <1>6, <2>3 DEF Receives, WorkerRecord
    <3> QED
      BY <2>2, <3>1, ServedKept
  <2>4. CASE Stage(w) \in Collections
    <3>1. PICK c \in Cohorts : Cohort(Stage(w)) = c
      BY <2>4, CollectionNames
    <3>2. Done(Launch(c)) /\ worker[w].served \subseteq launched[c] .. box[c].start
      BY <1>0, <2>4, <3>1 DEF Served
    <3>3. launched'[c] = launched[c] /\ Done(Launch(c))' /\ box'[c] = box[c]
      BY <1>6, <3>2, LaunchFixed DEF Receives
    <3>4. /\ launched[c] \in Int /\ box[c].start \in Int /\ launched[c] <= box[c].start
      BY DEF TypeOK, ServedInv
    <3>5. worker'[w].served \subseteq worker[w].served \cup {box[c].start}
      BY <1>0, <1>6, <3>1 DEF Receives, WorkerRecord
    <3>6. worker'[w].served \subseteq launched'[c] .. box'[c].start
      BY <3>2, <3>3, <3>4, <3>5
    <3> QED
      BY <2>2, <2>4, <3>1, <3>3, <3>6 DEF Served, Cohort, Stage
  <2> QED
    BY <2>1, <2>3, <2>4 DEF Drains
<1>7. CASE fetch_verified_model(w)
  BY <1>1, <1>3, <1>4, <1>7, CollectionNames DEF fetch_verified_model
<1>8. CASE publish_snapshot(w)
  BY <1>1, <1>4, <1>8, CollectionNames DEF publish_snapshot
<1>9. CASE build_runtime(w)
  BY <1>4, <1>9, CollectionNames DEF build_runtime
<1>10. CASE launch_runtime_stage(w)
  BY <1>0, <1>1, <1>4, <1>10, StageKinds, LaunchNames DEF launch_runtime_stage
<1>11. CASE ObservesBefore(w)
  BY <1>1, <1>3, <1>11 DEF ObservesBefore
<1>12. CASE ObservesAfter(w)
  <2>1. CASE failed_after_drain(w)
    BY <1>1, <2>1
  <2>2. CASE observe(Cohort(Stage(w))) /\ Goto(w, "publish")
    <3>1. PICK c \in Cohorts : Cohort(Stage(w)) = c
      BY <1>12, CollectionNames DEF ObservesAfter
    <3>2. Done(Launch(c)) /\ worker[w].served \subseteq launched[c] .. box[c].start
      BY <1>0, <1>12, <3>1 DEF Served, ObservesAfter
    <3>3. /\ launched'[c] = launched[c] /\ Done(Launch(c))' /\ box'[c] = box[c]
          /\ box[c].start = launched[c] /\ launched[c] \in Int
      BY <1>12, <2>2, <3>1, <3>2, LaunchFixed DEF ObservesAfter, observe, TypeOK
    <3>4. /\ worker'[w].served \subseteq launched'[c] .. box'[c].start
          /\ worker'[w].served \subseteq {launched'[c]}
      BY <1>2, <2>2, <3>2, <3>3
    <3>5. Stage(w)' = Stage(w)
      BY <1>2, <2>2 DEF Stage
    <3> QED
      BY <1>12, <3>1, <3>3, <3>4, <3>5 DEF ObservesAfter, Served, Cohort, Stage
  <2> QED
    BY <1>12, <2>1, <2>2 DEF ObservesAfter
<1>13. CASE register_run(w)
  BY <1>13, ServedKept DEF register_run
<1> QED
  BY <1>5, <1>6, <1>7, <1>8, <1>9, <1>10, <1>11, <1>12, <1>13 DEF Works

LEMMA EndServed ==
  ASSUME TypeOK, TypeOK', PositionInv, ServedInv, Next, NEW w \in Workers, Ends(w)
  PROVE  Served(w)'
<1>1. CASE worker'[w] = Idle
  BY <1>1, IdleServed
<1>2. CASE Publish(w) /\ worker'[w] = [worker[w] EXCEPT !.pc = "done"]
  <2>1. /\ worker'[w].stage = worker[w].stage /\ worker'[w].served = worker[w].served
        /\ worker[w].pc = "publish"
    BY <1>2 DEF Publish, At, TypeOK
  <2> QED
    BY <2>1, ServedKept
<1> QED
  BY <1>1, <1>2, EndKeeps

LEMMA ServedStep ==
  ASSUME TypeOK, TypeOK', PositionInv, ServedInv, Next
  PROVE  ServedInv'
<1>1. \A c \in Cohorts : launched'[c] <= box'[c].start
  BY LaunchedBelow DEF ServedInv
<1>2. ASSUME NEW v \in Workers
      PROVE  Served(v)'
  <2>1. CASE worker'[v] = worker[v]
    BY <2>1, ServedKept
  <2>2. CASE freeze_stage \/ register_produced_release \/ Environment
    BY <2>1, <2>2, OutsideKeeps
  <2>3. ASSUME NEW w \in Workers, Starts(w) \/ Works(w) \/ Ends(w)
        PROVE  Served(v)'
    BY <2>1, <2>3, StartPosition, WorkKeeps, EndKeeps, StartServed, WorkServed, EndServed
  <2> QED
    BY <2>2, <2>3, StepCases
<1> QED
  BY <1>1, <1>2 DEF ServedInv

LEMMA EvidenceStep ==
  ASSUME TypeOK, PositionInv, ServedInv, EvidenceInv, Next
  PROVE  EvidenceInv'
<1> SUFFICES ASSUME NEW s \in Collections
             PROVE  /\ evidence'[s] # {} => Done(Launch(Cohort(s)))'
                    /\ evidence'[s] \subseteq {launched'[Cohort(s)]}
  BY DEF EvidenceInv, Cohort
<1>1. PICK c \in Cohorts : Cohort(s) = c
  BY CollectionNames
<1>2. evidence[s] # {} => Done(Launch(c)) /\ evidence[s] \subseteq {launched[c]}
  BY <1>1 DEF EvidenceInv
<1>3. CASE evidence'[s] = evidence[s]
  <2>1. CASE evidence[s] = {}
    BY <1>3, <2>1
  <2>2. CASE evidence[s] # {}
    BY <1>1, <1>2, <1>3, <2>2, LaunchFixed DEF Cohort
  <2> QED
    BY <2>1, <2>2
<1>4. ASSUME NEW w \in Workers, Publish(w), Stage(w) = s
      PROVE  /\ evidence'[s] # {} => Done(Launch(Cohort(s)))'
             /\ evidence'[s] \subseteq {launched'[Cohort(s)]}
  <2>1. evidence'[s] = worker[w].served
    BY <1>4 DEF Publish, TypeOK
  <2>2. Done(Launch(c)) /\ worker[w].served \subseteq {launched[c]}
    BY <1>1, <1>4 DEF Publish, At, ServedInv, Served
  <2> QED
    BY <1>1, <2>1, <2>2, LaunchFixed DEF Cohort
<1>5. ASSUME NEW w \in Workers, Publish(w), Stage(w) # s
      PROVE  evidence'[s] = evidence[s]
  BY <1>5 DEF Publish, TypeOK
<1> QED
  BY <1>3, <1>4, <1>5, ReceiptCases

-----------------------------------------------------------------------------
(* The theorems *)

LEMMA InitInductive == Init => IInv
<1> SUFFICES ASSUME Init PROVE IInv
  OBVIOUS
<1>1. OwnerInv /\ OpenInv
  <2>1. \A w \in Workers : worker[w] = Idle /\ ~Holds(w) /\ Own(w) = 0
    BY DEF Init, Idle, Holds, Own
  <2> QED
    BY <2>1 DEF Init, OwnerInv, OpenInv, Holds
<1>2. ServedInv /\ EvidenceInv
  <2>1. \A w \in Workers : Served(w)
    <3>1. Execution \notin Collections
      BY CollectionNames
    <3> QED
      BY <3>1 DEF Init, Served, Stage, Idle
  <2> QED
    BY <2>1 DEF Init, ServedInv, EvidenceInv
<1> QED
  BY <1>1, <1>2, InitTypes, PositionInit DEF IInv

LEMMA StepInductive ==
  ASSUME IInv, [Next]_vars
  PROVE  IInv'
<1>1. CASE Next
  BY <1>1, TypeStep, PositionStep, OwnerStep, OpenStep, ServedStep, EvidenceStep DEF IInv
<1>2. CASE UNCHANGED vars
  <2>1. TypeOK'
    BY <1>2 DEF IInv, TypeOK, vars
  <2>2. PositionInv'
    BY <1>2 DEF IInv, PositionInv, Position, Numbered, At, Own, Owns, Stage, vars
  <2>3. OwnerInv' /\ OpenInv'
    BY <1>2 DEF IInv, OwnerInv, OpenInv, Request, At, Own, Stage, require_attempt, vars
  <2>4. ServedInv' /\ EvidenceInv'
    BY <1>2 DEF IInv, ServedInv, Served, EvidenceInv, Stage, Done, vars
  <2> QED
    BY <2>1, <2>2, <2>3, <2>4 DEF IInv
<1> QED
  BY <1>1, <1>2

\* An attempt that drains its own work has one owner and runs until that owner
\* ends it, its requests are open only while it runs, and the answers it has
\* counted come from starts since the launch receipt (ProducerStages.start,
\* require_attempt, failed_after_drain, observe).
THEOREM PipelineInductive == Spec => []IInv
<1>1. Init => IInv
  BY InitInductive
<1>2. IInv /\ [Next]_vars => IInv'
  BY StepInductive
<1> QED
  BY <1>1, <1>2, PTL DEF Spec

\* Every variable keeps its type: attempts stay below their limit, requests
\* belong to stages, and what answered is a start of a container (StageState,
\* ProducerStages.start).
THEOREM PipelineTypeCorrect == Spec => []TypeOK
<1>1. IInv => TypeOK
  BY DEF IInv
<1> QED
  BY <1>1, PipelineInductive, PTL

\* The evidence of a completed collection comes from the start in the launch
\* receipt, whoever restarts the container between two requests: the
\* observation before and the one after enclose every request (performance_stage,
\* managed_quality_stage).
THEOREM EvidenceCorrect == Spec => []EvidenceFromOneStart
<1>1. IInv => EvidenceFromOneStart
  BY DEF IInv, EvidenceInv, EvidenceFromOneStart
<1> QED
  BY <1>1, PipelineInductive, PTL

\* However many processes execute one collection or download, requests of at most
\* one of its attempts are open: an attempt ends only when its owner has drained
\* it (start_owned, failed_after_drain, verify_local_http_closure).
THEOREM CollectorCorrect == Spec => []OneCollector
<1>1. IInv => OneCollector
  <2> SUFFICES ASSUME IInv, NEW s \in Stages
               PROVE  Cardinality({r \in open : r[1] = s}) <= 1
    BY DEF OneCollector
  <2> DEFINE one == {<<s, journal[s].attempt>>}
  <2>1. {r \in open : r[1] = s} \subseteq one
    <3> SUFFICES ASSUME NEW r \in open, r[1] = s PROVE r = <<s, journal[s].attempt>>
      OBVIOUS
    <3>1. r \in Stages \X (1 .. MaxAttempts) /\ r[2] = journal[s].attempt
      BY DEF IInv, TypeOK, OpenInv
    <3> QED
      BY <3>1
  <2>2. IsFiniteSet(one) /\ Cardinality(one) = 1
    BY FS_Singleton
  <2>3. Cardinality({r \in open : r[1] = s}) <= Cardinality(one)
    BY <2>1, <2>2, FS_Subset
  <2> QED
    BY <2>2, <2>3
<1> QED
  BY <1>1, PipelineInductive, PTL

\* What the release job was registered from stays in the journal: a collection
\* that is completed is never started, failed or aborted again
\* (register_produced_release, failed_after_drain, require_attempt).
THEOREM RegistrationCorrect == Spec => []RegistrationStands
<1> DEFINE JInv == TypeOK /\ PositionInv /\ RegistrationStands
<1>1. Init => JInv
  BY InitTypes, PositionInit DEF Init, RegistrationStands
<1>2. JInv /\ [Next]_vars => JInv'
  <2> SUFFICES ASSUME JInv, [Next]_vars PROVE JInv'
    OBVIOUS
  <2>1. CASE Next
    <3>1. TypeOK' /\ PositionInv'
      BY <2>1, TypeStep, PositionStep
    <3>2. \A s \in Collections : Done(s) => journal'[s] = journal[s]
      BY <2>1, JournalGrows, StageNames
    <3>3. \A c \in Cohorts : <<"quality", c>> \in Collections /\ <<"performance", c>> \in Collections
      BY DEF Collections
    <3>4. ASSUME job' = job PROVE RegistrationStands'
      <4> SUFFICES ASSUME job # None, NEW c \in Cohorts
                   PROVE  job[c] = cohort_evidence(c)' /\ \A s \in Collections : Done(s)'
        BY <3>4 DEF RegistrationStands, cohort_evidence, Done
      <4>1. job[c] = cohort_evidence(c) /\ \A s \in Collections : Done(s)
        BY DEF RegistrationStands
      <4>2. \A s \in Collections : journal'[s] = journal[s]
        BY <3>2, <4>1
      <4>3. \A s \in Collections : Done(s)'
        BY <4>1, <4>2 DEF Done
      <4>4. cohort_evidence(c)' = cohort_evidence(c)
        BY <3>3, <4>2 DEF cohort_evidence
      <4> QED
        BY <4>1, <4>3, <4>4
    <3>5. ASSUME register_produced_release PROVE RegistrationStands'
      <4>1. \A s \in Collections : Done(s)'
        BY <3>5 DEF register_produced_release, collection_state, Done
      <4>2. \A c \in Cohorts : job'[c] = cohort_evidence(c)'
        BY <3>5 DEF register_produced_release, cohort_evidence
      <4> QED
        BY <4>1, <4>2 DEF RegistrationStands, cohort_evidence, Done
    <3>6. job' = job \/ register_produced_release
      <4>1. ASSUME NEW w \in Workers, Starts(w) \/ Works(w) \/ Ends(w)
            PROVE  job' = job
        BY <4>1 DEF Starts, Works, Ends, produce_step, StartReads, save, CleanupReads, Sends,
           Receives, fetch_verified_model, publish_snapshot, build_runtime,
           launch_runtime_stage, ObservesBefore, ObservesAfter, register_run, start_owned,
           verify_local_http_closure, Publish, PublishLate, Returns, Fails, Dies,
           cleanup_unserved
      <4> QED
        BY <2>1, <4>1, StepCases DEF freeze_stage, Environment, RuntimeDies, RuntimeRestarts,
           DiskFails, OtherFetches, RouteMoves
    <3> QED
      BY <3>1, <3>4, <3>5, <3>6
  <2>2. CASE UNCHANGED vars
    <3>1. TypeOK'
      BY <2>2 DEF TypeOK, vars
    <3>2. PositionInv'
      BY <2>2 DEF PositionInv, Position, Numbered, At, Own, Owns, Stage, vars
    <3>3. RegistrationStands'
      BY <2>2 DEF RegistrationStands, cohort_evidence, Done, vars
    <3> QED
      BY <3>1, <3>2, <3>3
  <2> QED
    BY <2>1, <2>2
<1>3. JInv => RegistrationStands
  OBVIOUS
<1> QED
  BY <1>1, <1>2, <1>3, PTL DEF Spec
=============================================================================
