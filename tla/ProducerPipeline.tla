--------------------------- MODULE ProducerPipeline ---------------------------
(***************************************************************************)
(* One producer job: fetch the model, build the image, freeze the release  *)
(* plan, launch the runtimes, collect the evidence of each cohort, register *)
(* it for the release gate and clean up (registry/producer_pipeline.py,    *)
(* producer_runtime.py, producer_tasks.py, performance_stages.py,          *)
(* managed_quality.py, produced_release.py).                               *)
(*                                                                         *)
(* A worker is a process that executes one task.  Nothing but the journal  *)
(* orders the tasks: a scheduler may run one again while a process it has  *)
(* given up is still at work.  What lies below a launch, an abort and a    *)
(* stop is in ManagedRuntime; the routes and leases that let cleanup go on *)
(* are in WarmDrain.                                                       *)
(***************************************************************************)
EXTENDS Integers, FiniteSets

CONSTANTS
  Workers,       \* processes that execute tasks
  Cohorts,       \* baseline and candidate
  Borrowed,      \* the cohorts whose runtime another job has launched
  None,          \* no cohort, no job
  MaxAttempts,   \* attempts of one stage (32 in StageState)
  MaxStarts,     \* bound: starts of a container
  MaxMishaps     \* bound: failures, deaths, restarts and damages of a behaviour

ASSUME PipelineAssumption ==
  /\ None \notin Workers \cup Cohorts
  /\ Borrowed \subseteq Cohorts
  /\ MaxAttempts \in Nat \ {0}
  /\ MaxStarts \in Nat \ {0}
  /\ MaxMishaps \in Nat

VARIABLES
  journal,    \* producer_stages
  launched,   \* the container start in the receipt of each launch, or 0
  evidence,   \* the starts that answered the requests of each completed collection
  job,        \* the lifecycle job: the attempts its evidence comes from
  runs,       \* the performance runs in the registry, by attempt
  box,        \* the container of each cohort; the code has one per attempt of its
              \* launch, so a later attempt may adopt here what it would not there
  snapshot,   \* the model directory on disk
  stable,     \* the borrowed runtime is this deployment's stable route
  open,       \* attempts with a request that a server may still be answering
  worker,     \* what each process does next
  mishaps     \* how many there were

vars == <<journal, launched, evidence, job, runs, box, snapshot, stable, open,
          worker, mishaps>>

Execution == <<"execution", None>>
Model == <<"model", None>>
Build == <<"build", None>>
Plan == <<"plan", None>>
Launch(c) == <<"launch", c>>
Collections == {"quality", "performance"} \X Cohorts
Stages == {Execution, Model, Build, Plan} \cup {Launch(c) : c \in Cohorts} \cup Collections

Cohort(s) == s[2]

-----------------------------------------------------------------------------
(* The journal.  A save changes status or attempt, so that a row stands for *)
(* its version; a token stands for the attempt it was used for.             *)

Row == [status : {"absent", "planned", "running", "failed", "aborted", "completed"},
        attempt : 0 .. MaxAttempts]

Undeclared == [status |-> "absent", attempt |-> 0]

declare_input(s) ==
  IF journal[s].status = "absent" THEN [Undeclared EXCEPT !.status = "planned"]
  ELSE journal[s]

\* ProducerStages.start reads a failure of any kind.
Startable(row) == row.status \in {"planned", "failed", "aborted"} /\ row.attempt < MaxAttempts

\* Fault: a stale attempt passes.
NoSuchAttempt(s, a) == journal[s].attempt = a

require_attempt(s, a) == journal[s].status = "running" /\ journal[s].attempt = a

Done(s) == journal[s].status = "completed"

SetStage(s, status) == journal' = [journal EXCEPT ![s].status = status]

-----------------------------------------------------------------------------
(* What a task looks at before it starts *)

verified_model_receipt == Done(Model) /\ snapshot = "whole"

prepared_cohorts == verified_model_receipt /\ Done(Build)

load_launch(c) == Done(Launch(c))

verify_borrowed_baseline == Borrowed = {} \/ stable

execution_input == journal[Execution].status # "absent"

Upstream(s) ==
  CASE s = Model         -> TRUE
    [] s = Build         -> verified_model_receipt
    [] s = Plan          -> prepared_cohorts
    [] s \in Collections -> prepared_cohorts /\ Done(Plan) /\ load_launch(Cohort(s))
    [] OTHER             -> prepared_cohorts /\ Done(Plan)

\* The recorded start lives, and answers.
\* Fault: the start is not compared.
SomeStart(c) == box[c].state = "up"

observe(c) == box[c].state = "up" /\ box[c].start = launched[c]

-----------------------------------------------------------------------------
(* The workers *)

\* stage and own: the stage and the attempt it executes; seen: the row it has
\* read; served: the starts that answered it; raw: its records are complete.
Idle == [pc |-> "idle", stage |-> Execution, own |-> 0, seen |-> Undeclared,
         served |-> {}, raw |-> FALSE]

Pc == {"idle", "start", "save", "work", "join", "collect", "wait", "publish",
       "done", "clean"}

At(w, pc) == worker[w].pc = pc
Goto(w, pc) == worker' = [worker EXCEPT ![w].pc = pc]
Quit(w) == worker' = [worker EXCEPT ![w] = Idle]
Mishap == mishaps < MaxMishaps /\ mishaps' = mishaps + 1

Stage(w) == worker[w].stage
Own(w) == worker[w].own
Request(w) == <<Stage(w), Own(w)>>

\* The stages whose owner drains its own work.
Drains(s) == s = Model \/ s \in Collections

\* Owned work is unwound, then the attempt fails if it still is the current one.
failed_after_drain(w) ==
  /\ journal' = IF require_attempt(Stage(w), Own(w))
                THEN [journal EXCEPT ![Stage(w)].status = "failed"]
                ELSE journal
  /\ open' = open \ {Request(w)}
  /\ Quit(w)

-----------------------------------------------------------------------------
(* Freezing the request, and the start of a stage *)

freeze_stage ==
  /\ ~execution_input
  /\ verify_borrowed_baseline
  /\ journal' = [journal EXCEPT ![Execution] = declare_input(Execution)]
  /\ UNCHANGED <<launched, evidence, job, runs, box, snapshot, stable, open, worker, mishaps>>

\* A completed stage is verified again and returned: nothing changes.  The step
\* for the launch of a borrowed runtime only observes it.
produce_step(w, s) ==
  /\ At(w, "idle")
  /\ execution_input /\ verify_borrowed_baseline /\ Upstream(s)
  /\ s \notin {Launch(c) : c \in Borrowed}
  /\ \/ /\ declare_input(s).status \in {"planned", "failed"}
        /\ worker' = [worker EXCEPT ![w].pc = "start", ![w].stage = s]
     \/ /\ journal[s].status = "running"
        /\ s = Plan \/ s[1] = "launch"
        /\ worker' = [worker EXCEPT ![w].pc = IF s = Plan THEN "publish" ELSE "join",
                                    ![w].stage = s, ![w].own = journal[s].attempt]
  /\ journal' = [journal EXCEPT ![s] = declare_input(s)]
  /\ UNCHANGED <<launched, evidence, job, runs, box, snapshot, stable, open, mishaps>>

StartReads(w) ==
  /\ At(w, "start")
  /\ IF Startable(journal[Stage(w)])
     THEN worker' = [worker EXCEPT ![w].pc = "save", ![w].seen = journal[Stage(w)]]
     ELSE Quit(w)
  /\ UNCHANGED <<journal, launched, evidence, job, runs, box, snapshot, stable, open, mishaps>>

save(w) ==
  LET s == Stage(w)
      a == worker[w].seen.attempt + 1
  IN  /\ At(w, "save")
      /\ IF journal[s] = worker[w].seen
         THEN /\ journal' = [journal EXCEPT ![s] = [status |-> "running", attempt |-> a]]
              /\ worker' = [worker EXCEPT ![w].pc = IF s = Plan THEN "publish" ELSE "work",
                                          ![w].own = a, ![w].seen = Undeclared]
         ELSE Quit(w) /\ UNCHANGED journal
      /\ UNCHANGED <<launched, evidence, job, runs, box, snapshot, stable, open, mishaps>>

\* Cancelled while the start was on its way: no work was issued.
start_owned(w) ==
  /\ At(w, "work") /\ ~Drains(Stage(w)) /\ Mishap
  /\ failed_after_drain(w)
  /\ UNCHANGED <<launched, evidence, job, runs, box, snapshot, stable>>

-----------------------------------------------------------------------------
(* Requests of a download or of a collection *)

Sends(w) ==
  /\ At(w, "collect")
  /\ open' = open \cup {Request(w)}
  /\ Goto(w, "wait")
  /\ UNCHANGED <<journal, launched, evidence, job, runs, box, snapshot, stable, mishaps>>

\* Whatever listens at the address answers; a runtime that is down answers with
\* an error, which is recorded as well.
Receives(w) ==
  LET c == Cohort(Stage(w))
      by == IF Stage(w) # Model /\ box[c].state = "up" THEN {box[c].start} ELSE {}
  IN  /\ At(w, "wait")
      /\ open' = open \ {Request(w)}
      /\ worker' = [worker EXCEPT ![w].pc = "collect", ![w].raw = TRUE,
                                  ![w].served = @ \cup by]
      /\ UNCHANGED <<journal, launched, evidence, job, runs, box, snapshot, stable, mishaps>>

\* Fault: a stream that could not be closed is a failure like any other.
ClosedAnyway(w) ==
  /\ At(w, "wait") /\ Mishap
  /\ SetStage(Stage(w), "failed")
  /\ Quit(w)
  /\ UNCHANGED <<launched, evidence, job, runs, box, snapshot, stable, open>>

\* HTTPClosureError, in preference to any other reason: the stage stays running.
verify_local_http_closure(w) ==
  /\ At(w, "wait") /\ Mishap
  /\ Quit(w)
  /\ UNCHANGED <<journal, launched, evidence, job, runs, box, snapshot, stable, open>>

-----------------------------------------------------------------------------
(* Fetching the model *)

\* verify_snapshot refuses a directory whose bytes are not the expected ones.
verify_snapshot == snapshot = "whole"

fetch_verified_model(w) ==
  /\ At(w, "work") /\ Stage(w) = Model
  /\ \/ snapshot = "absent" /\ Goto(w, "collect") /\ UNCHANGED <<journal, open>>
     \/ verify_snapshot /\ Goto(w, "publish") /\ UNCHANGED <<journal, open>>
     \/ snapshot = "damaged" /\ failed_after_drain(w)
  /\ UNCHANGED <<launched, evidence, job, runs, box, snapshot, stable, mishaps>>

\* The staging directory is renamed; a directory that is there already is verified.
publish_snapshot(w) ==
  /\ At(w, "collect") /\ Stage(w) = Model /\ worker[w].raw
  /\ \/ /\ snapshot = "absent" \/ verify_snapshot
        /\ snapshot' = "whole"
        /\ Goto(w, "publish")
        /\ UNCHANGED <<journal, open>>
     \/ /\ snapshot = "damaged"
        /\ failed_after_drain(w)
        /\ UNCHANGED snapshot
  /\ UNCHANGED <<launched, evidence, job, runs, box, stable, mishaps>>

-----------------------------------------------------------------------------
(* Building the image and launching a runtime *)

build_runtime(w) ==
  /\ At(w, "work") /\ Stage(w) = Build
  /\ Goto(w, "publish")
  /\ UNCHANGED <<journal, launched, evidence, job, runs, box, snapshot, stable, open, mishaps>>

\* Nobody holds the fence of attempt a.
Unfenced(c, a) ==
  \A w \in Workers : ~(At(w, "publish") /\ Stage(w) = Launch(c) /\ Own(w) = a)

\* Under the fence the attempt is read again, then its container is found or started.
launch_runtime_stage(w) ==
  LET c == Cohort(Stage(w))
  IN  /\ At(w, "work") \/ At(w, "join")
      /\ Stage(w)[1] = "launch"
      /\ Unfenced(c, Own(w))
      /\ \/ /\ require_attempt(Stage(w), Own(w))
            /\ \/ box[c].state = "up" /\ UNCHANGED box
               \/ /\ box[c].state = "absent" /\ box[c].start < MaxStarts
                  /\ box' = [box EXCEPT ![c] = [state |-> "up", start |-> @.start + 1]]
            /\ Goto(w, "publish")
         \/ /\ ~require_attempt(Stage(w), Own(w))
            /\ Quit(w)
            /\ UNCHANGED box
      /\ UNCHANGED <<journal, launched, evidence, job, runs, snapshot, stable, open, mishaps>>

-----------------------------------------------------------------------------
(* Collecting evidence: an observation, the requests, another observation *)

ObservesBefore(w) ==
  /\ At(w, "work") /\ Stage(w) \in Collections
  /\ \/ observe(Cohort(Stage(w))) /\ Goto(w, "collect") /\ UNCHANGED <<journal, open>>
     \/ ~observe(Cohort(Stage(w))) /\ failed_after_drain(w)
  /\ UNCHANGED <<launched, evidence, job, runs, box, snapshot, stable, mishaps>>

ObservesAfter(w) ==
  /\ At(w, "collect") /\ Stage(w) \in Collections /\ worker[w].raw
  /\ \/ observe(Cohort(Stage(w))) /\ Goto(w, "publish") /\ UNCHANGED <<journal, open>>
     \/ ~observe(Cohort(Stage(w))) /\ failed_after_drain(w)
  /\ UNCHANGED <<launched, evidence, job, runs, box, snapshot, stable, mishaps>>

-----------------------------------------------------------------------------
(* The end of a stage *)

\* The raw records are complete, and none of them is an unresolved stream.
verify_experiment(w) == worker[w].raw /\ Request(w) \notin open

load_quality_collection(w) == worker[w].raw

\* The run is registered under an identity of its own before the stage is
\* finished: an execution that ends in between leaves a run without a stage.
register_run(w) ==
  /\ At(w, "publish") /\ Stage(w)[1] = "performance"
  /\ Request(w) \notin runs
  /\ verify_experiment(w)
  /\ runs' = runs \cup {Request(w)}
  /\ UNCHANGED <<journal, launched, evidence, job, box, snapshot, stable, open, worker,
                 mishaps>>

\* verify_observations adds nothing: an observation repeats the start of the
\* launch receipt it was compared with.
Verified(w) ==
  /\ Stage(w)[1] = "performance" => Request(w) \in runs
  /\ Stage(w)[1] = "quality" => load_quality_collection(w)

\* The receipt becomes the output of the stage.
Publish(w) ==
  LET s == Stage(w)
  IN  /\ At(w, "publish") /\ require_attempt(s, Own(w)) /\ Verified(w)
      /\ SetStage(s, "completed")
      /\ evidence' = IF s \in Collections
                     THEN [evidence EXCEPT ![s] = worker[w].served]
                     ELSE evidence
      /\ launched' = IF s[1] = "launch"
                     THEN [launched EXCEPT ![s[2]] = box[s[2]].start]
                     ELSE launched
      /\ IF Drains(s) THEN Goto(w, "done") ELSE Quit(w)
      /\ UNCHANGED <<job, runs, box, snapshot, stable, open, mishaps>>

\* Another execution has finished the attempt, or failed it.
PublishLate(w) ==
  /\ At(w, "publish") /\ ~require_attempt(Stage(w), Own(w))
  /\ failed_after_drain(w)
  /\ UNCHANGED <<launched, evidence, job, runs, box, snapshot, stable, mishaps>>

Returns(w) ==
  /\ At(w, "done")
  /\ Quit(w)
  /\ UNCHANGED <<journal, launched, evidence, job, runs, box, snapshot, stable, open, mishaps>>

\* A cancellation, a deadline or an error anywhere between start and return.
Fails(w) ==
  /\ ~At(w, "idle") /\ Drains(Stage(w)) /\ Own(w) > 0 /\ Mishap
  /\ failed_after_drain(w)
  /\ UNCHANGED <<launched, evidence, job, runs, box, snapshot, stable>>

\* The process dies; a build or a launch that fails leaves the same behind.
Dies(w) ==
  /\ ~At(w, "idle") /\ Mishap
  /\ Quit(w)
  /\ UNCHANGED <<journal, launched, evidence, job, runs, box, snapshot, stable, open>>

-----------------------------------------------------------------------------
(* Registration and cleanup *)

\* No attempt of a collection can have started before the plan was frozen.
collection_state(s) == Done(s)

load_performance_receipt(c) ==
  <<<<"performance", c>>, journal[<<"performance", c>>].attempt>> \in runs

cohort_evidence(c) ==
  [quality |-> journal[<<"quality", c>>].attempt,
   performance |-> journal[<<"performance", c>>].attempt]

register_produced_release ==
  /\ job = None
  /\ Done(Plan)
  /\ \A s \in Collections : collection_state(s)
  /\ \A c \in Cohorts : load_performance_receipt(c)
  /\ job' = [c \in Cohorts |-> cohort_evidence(c)]
  /\ UNCHANGED <<journal, launched, evidence, runs, box, snapshot, stable, open, worker, mishaps>>

\* The immutable receipts suffice: the model directory may be damaged.
cleanup_launch == Done(Build) /\ Done(Model)

\* Borrowed runtimes and launches that have not started are left alone.
CleanupReads(w, c) ==
  /\ At(w, "idle") /\ execution_input
  /\ c \notin Borrowed
  /\ journal[Launch(c)].status \notin {"absent", "planned"}
  /\ cleanup_launch
  /\ worker' = [worker EXCEPT ![w].pc = "clean", ![w].stage = Launch(c),
                              ![w].seen = journal[Launch(c)]]
  /\ UNCHANGED <<journal, launched, evidence, job, runs, box, snapshot, stable, open, mishaps>>

\* A launch that was read as completed is stopped, any other one is aborted,
\* unless another attempt has taken its place, it has succeeded meanwhile, or it
\* failed by itself: a failure that no abort has reconciled is refused, and the
\* container stays.
cleanup_unserved(w) ==
  LET s == Stage(w)
      seen == worker[w].seen
  IN  /\ At(w, "clean")
      /\ \/ /\ seen.status = "completed"
            /\ box' = [box EXCEPT ![Cohort(s)].state = "absent"]
            /\ UNCHANGED journal
         \/ /\ seen.status # "completed"
            /\ Unfenced(Cohort(s), seen.attempt)
            /\ journal[s].attempt = seen.attempt /\ ~Done(s)
            /\ journal[s].status # "failed"
            /\ SetStage(s, "aborted")
            /\ box' = [box EXCEPT ![Cohort(s)].state = "absent"]
         \/ /\ seen.status # "completed"
            /\ journal[s].attempt # seen.attempt \/ journal[s].status \in {"failed", "completed"}
            /\ UNCHANGED <<journal, box>>
      /\ Quit(w)
      /\ UNCHANGED <<launched, evidence, job, runs, snapshot, stable, open, mishaps>>

-----------------------------------------------------------------------------
(* What nobody in the pipeline does *)

RuntimeDies(c) ==
  /\ launched[c] > 0 /\ box[c].state = "up" /\ Mishap
  /\ box' = [box EXCEPT ![c].state = "down"]
  /\ UNCHANGED <<journal, launched, evidence, job, runs, snapshot, stable, open, worker>>

\* Somebody restarts the container: it keeps its name and its address.
RuntimeRestarts(c) ==
  /\ launched[c] > 0 /\ box[c].state # "absent" /\ box[c].start < MaxStarts /\ Mishap
  /\ box' = [box EXCEPT ![c] = [state |-> "up", start |-> @.start + 1]]
  /\ UNCHANGED <<journal, launched, evidence, job, runs, snapshot, stable, open, worker>>

DiskFails ==
  /\ snapshot = "whole" /\ Mishap
  /\ snapshot' = "damaged"
  /\ UNCHANGED <<journal, launched, evidence, job, runs, box, stable, open, worker>>

\* Another job fetches the same model to the same root.
OtherFetches ==
  /\ snapshot = "absent"
  /\ snapshot' = "whole"
  /\ UNCHANGED <<journal, launched, evidence, job, runs, box, stable, open, worker, mishaps>>

\* A cutover makes another revision the stable one.
RouteMoves ==
  /\ stable /\ Mishap
  /\ stable' = FALSE
  /\ UNCHANGED <<journal, launched, evidence, job, runs, box, snapshot, open, worker>>

-----------------------------------------------------------------------------

Init ==
  /\ journal = [s \in Stages |-> IF s \in {Launch(c) : c \in Borrowed}
                                 THEN [status |-> "completed", attempt |-> 1]
                                 ELSE Undeclared]
  /\ launched = [c \in Cohorts |-> IF c \in Borrowed THEN 1 ELSE 0]
  /\ evidence = [s \in Collections |-> {}]
  /\ job = None
  /\ runs = {}
  /\ box = [c \in Cohorts |-> IF c \in Borrowed THEN [state |-> "up", start |-> 1]
                              ELSE [state |-> "absent", start |-> 0]]
  /\ snapshot = "absent"
  /\ stable = (Borrowed # {})
  /\ open = {}
  /\ worker = [w \in Workers |-> Idle]
  /\ mishaps = 0

Requests(w) == Sends(w) \/ Receives(w) \/ verify_local_http_closure(w)

fetch_stage(w) ==
  /\ Stage(w) = Model
  /\ fetch_verified_model(w) \/ Requests(w) \/ publish_snapshot(w)

managed_quality_stage(w) ==
  /\ Stage(w)[1] = "quality"
  /\ ObservesBefore(w) \/ Requests(w) \/ ObservesAfter(w)

performance_stage(w) ==
  /\ Stage(w)[1] = "performance"
  /\ ObservesBefore(w) \/ Requests(w) \/ ObservesAfter(w) \/ register_run(w)

WorkerStep(w) ==
  \/ \E s \in Stages \ {Execution} : produce_step(w, s)
  \/ StartReads(w) \/ save(w) \/ start_owned(w)
  \/ fetch_stage(w) \/ build_runtime(w) \/ launch_runtime_stage(w)
  \/ managed_quality_stage(w) \/ performance_stage(w)
  \/ Publish(w) \/ PublishLate(w) \/ Returns(w) \/ Fails(w) \/ Dies(w)
  \/ \E c \in Cohorts : CleanupReads(w, c)
  \/ cleanup_unserved(w)

Environment ==
  \/ \E c \in Cohorts : RuntimeDies(c) \/ RuntimeRestarts(c)
  \/ DiskFails
  \/ OtherFetches
  \/ RouteMoves

Next ==
  \/ freeze_stage
  \/ \E w \in Workers : WorkerStep(w)
  \/ register_produced_release
  \/ Environment

Spec == Init /\ [][Next]_vars

-----------------------------------------------------------------------------
(* Properties *)

TypeOK ==
  /\ journal \in [Stages -> Row]
  /\ launched \in [Cohorts -> 0 .. MaxStarts]
  /\ evidence \in [Collections -> SUBSET (1 .. MaxStarts)]
  /\ job = None \/ DOMAIN job = Cohorts
  /\ runs \subseteq (Collections \X (1 .. MaxAttempts))
  /\ box \in [Cohorts -> [state : {"absent", "up", "down"}, start : 0 .. MaxStarts]]
  /\ snapshot \in {"absent", "whole", "damaged"}
  /\ stable \in BOOLEAN
  /\ open \subseteq (Stages \X (1 .. MaxAttempts))
  /\ worker \in [Workers -> [pc : Pc, stage : Stages, own : 0 .. MaxAttempts, seen : Row,
                           served : SUBSET (1 .. MaxStarts), raw : BOOLEAN]]
  /\ mishaps \in 0 .. MaxMishaps

\* The evidence of a completed collection comes from one start of the runtime,
\* the one its launch has recorded, although anybody may restart the container
\* between two requests (performance_stage, managed_quality_stage: an
\* observation before and one after).
EvidenceFromOneStart ==
  \A s \in Collections : evidence[s] \subseteq {launched[Cohort(s)]}

\* A stage offers no request while one of an earlier attempt may still be
\* answered: a stream whose close failed, or whose process died, keeps the
\* stage running for good (HTTPClosureError in fetch_stage, performance_stage).
OneCollector ==
  \A s \in Stages : Cardinality({r \in open : r[1] = s}) <= 1

\* What the release job was registered from is what the journal still shows: no
\* late cancellation reopens a completed collection (failed_after_drain).
RegistrationStands ==
  job # None => \A c \in Cohorts : /\ job[c] = cohort_evidence(c)
                                  /\ \A s \in Collections : Done(s)
=============================================================================
