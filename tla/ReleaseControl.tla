--------------------------- MODULE ReleaseControl ---------------------------
(***************************************************************************)
(* The release path of one FinServe deployment: the route store that       *)
(* decides where new requests go (reliability/warm_routes.py), the control *)
(* store that remembers what may be rolled back to                         *)
(* (reliability/rollback.py), the lifecycle jobs that move traffic to a    *)
(* candidate (registry/lifecycle.py, registry/metadata.py), the rollback   *)
(* operations that move it back, and the rollout task of each job, which   *)
(* prepares the stores, acknowledges the cutover and closes probation      *)
(* (registry/release_activation.py, registry/producer_rollout.py).         *)
(*                                                                         *)
(* The three stores are separate databases.  One action is one             *)
(* transaction, so every await of the code is a point where any other      *)
(* process may run, and a worker may stall, fail or die.                   *)
(*                                                                         *)
(* Covered: stale workers and leases that lapse, crashes between any two   *)
(* transactions, cutovers that commit although the caller sees a timeout,  *)
(* late and repeated signals, health observations used after the route     *)
(* moved on, adapters with and without idempotent replay.                  *)
(* Left out: the digests that name a request or a revision, for which the  *)
(* identity itself stands; timestamps; last_error, which no later step     *)
(* reads while the status it belongs to can still change; store identity   *)
(* checks; retirement of revisions and the capacity pool, which belong to  *)
(* other components.                                                       *)
(***************************************************************************)
EXTENDS Integers, FiniteSets

CONSTANTS
  Jobs,          \* lifecycle jobs; the detector of a job raises one signal
  Revisions,     \* immutable revisions, baselines and candidates alike
  Workers,       \* processes that run LifecycleService or RollbackController
  None,          \* absent
  ProducerOnly,  \* every job comes from the producer pipeline
  Idempotent,    \* adapter.supports_idempotency
  AttemptBound   \* apply_attempts is counted up to this bound

ASSUME ReleaseAssumption ==
  /\ None \notin Jobs \cup Revisions \cup Workers
  /\ ProducerOnly \in BOOLEAN
  /\ Idempotent \in BOOLEAN
  /\ AttemptBound \in Nat

VARIABLES
  route,      \* warm_routes: the revision and generation that take traffic
  history,    \* warm_events: every route ever saved
  actions,    \* warm_actions: the route each idempotency key installed
  control,    \* deployments: active and known-good revision, rollback owner
  activated,  \* activations: jobs whose activation has a receipt
  probation,  \* probation: which job's evidence closed which generation
  goal,       \* rollbacks: target_revision of each rollback operation
  spec,       \* the lifecycle specification of each job
  task,       \* status, attempts and lease owner of each job and rollback
  lapsed,     \* leases whose deadline has passed
  locked,     \* jobs that hold the deployment lock (locked_deployment)
  prepared,   \* jobs whose rollout task has passed "prepare"
  held,       \* the health observation the rollout task of a job carries
  worker      \* what each worker is doing

routeStore   == <<route, history, actions>>
controlStore == <<control, activated, probation, goal>>
rolloutTask  == <<prepared, held>>
leases       == <<task, lapsed, locked>>
vars == <<routeStore, controlStore, rolloutTask, leases, spec, worker>>

-----------------------------------------------------------------------------
(* Records *)

NoRoute   == [rev |-> None, gen |-> -1]
NoControl == [active |-> None, good |-> None, gen |-> -1, rollback |-> None]
NoSpec    == [from |-> None, gen |-> -1, target |-> None, approved |-> FALSE]
NoTask    == [status |-> "none", attempts |-> 0, owner |-> None]
NoKey     == <<"none", None>>
Idle      == [pc |-> "idle", key |-> NoKey, seen |-> None]

\* Idempotency keys: "lifecycle-" + job_id, and the id of the operation.
Keys == {"lifecycle", "rollback"} \X Jobs
Deploy(j) == <<"lifecycle", j>>
Undo(j)   == <<"rollback", j>>

LifecycleStatus == {"registered", "evaluated", "deploying", "verifying",
                    "needs_reconciliation", "promoted", "rejected"}
RollbackStatus  == {"detected", "applying", "verifying",
                    "needs_reconciliation", "restored"}

Snapshots == [rev : Revisions, gen : Nat]

TypeOK ==
  /\ route \in Snapshots \cup {NoRoute}
  /\ history \subseteq Snapshots
  /\ actions \in [Keys -> Snapshots \cup {NoRoute}]
  /\ control \in [active : Revisions, good : Revisions, gen : Nat,
                  rollback : Jobs \cup {None}] \cup {NoControl}
  /\ activated \subseteq Jobs
  /\ probation \subseteq [gen : Nat, job : Jobs]
  /\ goal \in [Jobs -> Revisions \cup {None}]
  /\ spec \in [Jobs -> [from : Revisions, gen : Nat, target : Revisions,
                        approved : BOOLEAN] \cup {NoSpec}]
  /\ task \in [Keys -> [status : LifecycleStatus \cup RollbackStatus
                                   \cup {"none"},
                        attempts : 0 .. AttemptBound,
                        owner : Workers \cup {None}]]
  /\ lapsed \subseteq Keys
  /\ locked \subseteq Jobs
  /\ prepared \subseteq Jobs
  /\ held \in [Jobs -> Revisions \cup {None}]
  /\ worker \in [Workers -> [pc : {"idle", "claimed", "probed", "apply",
                                   "applied", "verify", "verified", "done"},
                             key : Keys \cup {NoKey},
                             seen : Revisions \cup {None}]]

-----------------------------------------------------------------------------
(* The request a key stands for, and the states a status belongs to *)

\* ApplyRequest of a job and of its rollback.  The signal of job j names the
\* revision and generation that j installed.
Request(k) ==
  LET s == spec[k[2]] IN
  IF k[1] = "lifecycle"
  THEN [from |-> s.from, gen |-> s.gen, target |-> s.target]
  ELSE [from |-> s.target, gen |-> s.gen + 1, target |-> goal[k[2]]]

Status(k) == task[k].status
Attempted(k) == IF k[1] = "lifecycle" THEN "deploying" ELSE "applying"
Settled(k)   == IF k[1] = "lifecycle" THEN "promoted" ELSE "restored"

\* An action was started and its effect is not yet known.
Unresolved(k) ==
  Status(k) \in {Attempted(k), "verifying", "needs_reconciliation"}

\* Nothing is under way and a first attempt may start.
Startable(k) == Status(k) = IF k[1] = "lifecycle" THEN "evaluated"
                                                  ELSE "detected"

-----------------------------------------------------------------------------
(* Jobs enter the registry *)

\* The producer pipeline names the candidate of a release after its job, so
\* no other specification has mentioned it.
Fresh(j, r) == \A i \in Jobs \ {j} : r \notin {spec[i].from, spec[i].target}

\* Registry.create_job.  The specification expects the traffic its author
\* saw; before the first release that is a baseline not yet served.  Whether
\* the frozen evidence passes the gate is a fact about the job.
CreateJob(j, from, target, approved) ==
  /\ Status(Deploy(j)) = "none"
  /\ from # target
  /\ route # NoRoute => from = route.rev
  /\ ProducerOnly => /\ Fresh(j, target)
                     /\ \/ from = route.rev
                        \/ \A i \in Jobs : from # spec[i].target
  /\ spec' = [spec EXCEPT ![j] =
                [from |-> from, target |-> target, approved |-> approved,
                 gen |-> IF route = NoRoute THEN 0 ELSE route.gen]]
  /\ task' = [task EXCEPT ![Deploy(j)].status = "registered"]
  /\ UNCHANGED <<routeStore, controlStore, rolloutTask, lapsed, locked,
                 worker>>

-----------------------------------------------------------------------------
(* The rollout task of a job: prepare, (deploy,) acknowledge, probation *)

\* prepare_release seeds the route of a deployment that never had one.
BootstrapRoute(j) ==
  /\ spec[j].approved
  /\ route = NoRoute
  /\ spec[j].gen = 0
  /\ route' = [rev |-> spec[j].from, gen |-> 0]
  /\ history' = history \cup {route'}
  /\ UNCHANGED <<actions, controlStore, rolloutTask, leases, spec, worker>>

\* WarmRouteAdapter.health, called by the rollout task: the observation says
\* which revision answered, not at which generation, and is used later.
ObserveHealth(j) ==
  /\ spec[j].approved
  /\ route # NoRoute
  /\ held' = [held EXCEPT ![j] = route.rev]
  /\ UNCHANGED <<routeStore, controlStore, prepared, leases, spec, worker>>

\* The state acknowledge_baseline finds or creates in the control store.
Baseline(j) ==
  IF control = NoControl
  THEN [active |-> spec[j].from, good |-> spec[j].from, gen |-> 0,
        rollback |-> None]
  ELSE control

\* Fault: the acknowledgement checks what is active, not that it is stable.
ActiveAt(c, r, g) == c.active = r /\ c.gen = g

\* Baseline traffic is acknowledged only while it is active, known good, of
\* this generation and nobody's rollback.
StableAt(c, r, g) ==
  c = [active |-> r, good |-> r, gen |-> g, rollback |-> None]

\* WarmRouteStore.acknowledge_baseline, under the route's write lock.
AcknowledgeBaseline(j) ==
  /\ spec[j].approved
  /\ j \notin prepared
  /\ held[j] = spec[j].from
  /\ route = [rev |-> spec[j].from, gen |-> spec[j].gen]
  /\ control = NoControl => spec[j].gen = 0
  /\ StableAt(Baseline(j), spec[j].from, spec[j].gen)
  /\ control' = Baseline(j)
  /\ prepared' = prepared \cup {j}
  /\ held' = [held EXCEPT ![j] = None]
  /\ UNCHANGED <<routeStore, activated, probation, goal, leases, spec, worker>>

\* approved_activation and _verified_action: the job is promoted, its own
\* action installed the current route, and the observation names the target.
VerifiedAction(j) ==
  /\ Status(Deploy(j)) = "promoted"
  /\ actions[Deploy(j)] = route
  /\ route # NoRoute
  /\ held[j] = spec[j].target

\* Fault: a rollback that owns the deployment is ignored.
IgnoreFreeze == TRUE

\* No rollback operation owns the deployment.
NotFrozen == control.rollback = None

\* WarmRouteStore.acknowledge_candidate.  A replay finds the receipt of
\* activate_candidate and changes nothing.
AcknowledgeCandidate(j) ==
  /\ VerifiedAction(j)
  /\ NotFrozen
  /\ \/ /\ j \notin activated
        /\ control.gen = spec[j].gen
        /\ control.active = spec[j].from
        /\ control' = [active |-> spec[j].target, good |-> control.good,
                       gen |-> control.gen + 1, rollback |-> None]
        /\ activated' = activated \cup {j}
     \/ /\ j \in activated
        /\ control.gen = route.gen
        /\ control.active = route.rev
        /\ UNCHANGED <<control, activated>>
  /\ held' = [held EXCEPT ![j] = None]
  /\ UNCHANGED <<routeStore, probation, goal, prepared, leases, spec, worker>>

\* complete_probation, stabilize_candidate and mark_stable.  The healthy
\* window it needs was observed while control and route named the candidate,
\* as they do again (or still) when this commits, so the window itself needs
\* no variable: it may have completed at any moment since.
StabilizeCandidate(j) ==
  /\ VerifiedAction(j)
  /\ control.gen = route.gen
  /\ NotFrozen
  /\ control.active = spec[j].target
  /\ \A p \in probation : p.gen = route.gen => p.job = j
  /\ probation' = probation \cup {[gen |-> route.gen, job |-> j]}
  /\ control' = [control EXCEPT !.good = control.active]
  /\ held' = [held EXCEPT ![j] = None]
  /\ UNCHANGED <<routeStore, activated, goal, prepared, leases, spec, worker>>

\* DeploymentStore.detect.  The signal names what the monitor's policy names,
\* the candidate of the job and the generation it installed, and the control
\* store has named them since the acknowledgement the monitor waited for; a
\* delivery may be as late as it likes.  A repeated one finds its operation.
Detect(j) ==
  /\ Status(Undo(j)) = "none"
  /\ control.active = spec[j].target
  /\ control.gen = spec[j].gen + 1
  /\ NotFrozen
  /\ control.active # control.good
  /\ goal' = [goal EXCEPT ![j] = control.good]
  /\ task' = [task EXCEPT ![Undo(j)].status = "detected"]
  /\ control' = [control EXCEPT !.rollback = j]
  /\ UNCHANGED <<routeStore, activated, probation, rolloutTask, lapsed,
                 locked, spec, worker>>

-----------------------------------------------------------------------------
(* Workers.  LifecycleService.run and RollbackController.resume have the    *)
(* same shape: claim a lease, look at the traffic if an earlier attempt may *)
(* have had an effect, record an attempt, apply, record that it returned,   *)
(* look at the traffic again, record the outcome, release the lease.        *)

Key(w)  == worker[w].key
Goto(w, pc) == worker' = [worker EXCEPT ![w].pc = pc]

\* A lease can be taken when nobody owns it or its deadline has passed.
Free(k) == task[k].owner = None \/ k \in lapsed

\* Registry.advance and DeploymentStore.update accept only the owner of a
\* lease that has not lapsed.
Holds(w) == task[Key(w)].owner = w /\ Key(w) \notin lapsed

\* DeploymentStore._fence: the operation still owns the deployment it saw.
Fenced(k) == k[1] = "rollback" =>
  /\ control.rollback = k[2]
  /\ control.gen = Request(k).gen
  /\ control.active = Request(k).from

Advance(k, status) == task' = [task EXCEPT ![k].status = status]

TakeLease(w, k) ==
  /\ worker[w].pc = "idle"
  /\ Free(k)
  /\ task' = [task EXCEPT ![k].owner = w]
  /\ lapsed' = lapsed \ {k}
  /\ worker' = [worker EXCEPT ![w] = [pc |-> "claimed", key |-> k,
                                      seen |-> None]]

\* Registry.claim: the job's lease and, unless another job holds it, the
\* deployment lock (a unique column).  run looked at the status in an earlier
\* transaction: the job may have been settled since, and is claimed all the
\* same, after which only Release is possible.
ClaimJob(w, j) ==
  /\ Status(Deploy(j)) # "none"
  /\ locked \subseteq {j}
  /\ TakeLease(w, Deploy(j))
  /\ locked' = {j}
  /\ UNCHANGED <<routeStore, controlStore, rolloutTask, spec>>

\* DeploymentStore.claim.
ClaimRollback(w, j) ==
  /\ Status(Undo(j)) \notin {"none", "restored"}
  /\ Fenced(Undo(j))
  /\ TakeLease(w, Undo(j))
  /\ UNCHANGED <<routeStore, controlStore, rolloutTask, locked, spec>>

\* LifecycleService.run records the decision the evidence compels.
Decide(w) ==
  LET k == Key(w) IN
  /\ worker[w].pc = "claimed"
  /\ Status(k) = "registered"
  /\ Holds(w)
  /\ IF spec[k[2]].approved
     THEN Advance(k, "evaluated") /\ UNCHANGED worker
     ELSE Advance(k, "rejected") /\ Goto(w, "done")
  /\ UNCHANGED <<routeStore, controlStore, rolloutTask, lapsed, locked, spec>>

\* A health probe of the traffic route: before deciding about an attempt
\* whose effect is unknown, and again after an apply that returned.  A probe
\* that fails proves nothing.
Probe(w, seen) ==
  /\ route # NoRoute
  /\ seen \in {route.rev, None}
  /\ \/ /\ worker[w].pc = "claimed"
        /\ Unresolved(Key(w))
        /\ worker' = [worker EXCEPT ![w].pc = "probed", ![w].seen = seen]
     \/ /\ worker[w].pc = "verify"
        /\ worker' = [worker EXCEPT ![w].pc = "verified", ![w].seen = seen]
  /\ UNCHANGED <<routeStore, controlStore, rolloutTask, leases, spec>>

\* Fault: any healthy answer counts.
AnyRevisionVerifies(w) == worker[w].seen # None

\* health.verifies(target): the observed revision is the one asked for.
Verifies(w) == worker[w].seen = Request(Key(w)).target

\* May the action be applied (again)?  A call that was never made, or one
\* whose effect is unknown and whose repetition the adapter suppresses.
Attemptable(w) ==
  \/ worker[w].pc = "claimed" /\ Startable(Key(w))
  \/ /\ worker[w].pc = "probed"
     /\ ~Verifies(w)
     /\ Status(Key(w)) # "verifying"
     /\ Idempotent

\* apply_attempts, counted up to AttemptBound.
OneMore(n) == IF n < AttemptBound THEN n + 1 ELSE n

\* The intent and the attempt are durable before the adapter is called.  A
\* producer release is deployed only after its rollout task prepared it.
StartAttempt(w) ==
  LET k == Key(w) IN
  /\ Attemptable(w)
  /\ ProducerOnly /\ k[1] = "lifecycle" => k[2] \in prepared
  /\ Holds(w)
  /\ Fenced(k)
  /\ task' = [task EXCEPT ![k].status = Attempted(k),
                          ![k].attempts = OneMore(@)]
  /\ Goto(w, "apply")
  /\ UNCHANGED <<routeStore, controlStore, rolloutTask, lapsed, locked, spec>>

\* Fault: the compare-and-swap compares revisions and forgets generations.
SameRevision(q) == route.rev = q.from

\* The compare-and-swap: the request names the current route.
Current(q) == route = [rev |-> q.from, gen |-> q.gen]

\* WarmRouteStore.apply.  No lease is checked here: a worker that stalled
\* before the call still makes it.  A known key returns its receipt; a new
\* one must name the current revision and generation.  When the request is
\* stale, or the call times out after the commit, the worker leaves by
\* Release.
Apply(w) ==
  LET k == Key(w)
      q == Request(k) IN
  /\ worker[w].pc = "apply"
  /\ \/ /\ actions[k] # NoRoute
        /\ UNCHANGED routeStore
     \/ /\ actions[k] = NoRoute
        /\ Current(q)
        /\ route' = [rev |-> q.target, gen |-> route.gen + 1]
        /\ history' = history \cup {route'}
        /\ actions' = [actions EXCEPT ![k] = route']
  /\ Goto(w, "applied")
  /\ UNCHANGED <<controlStore, rolloutTask, leases, spec>>

\* The adapter returned; only health can now settle the operation.
RecordApplied(w) ==
  /\ worker[w].pc = "applied"
  /\ Holds(w)
  /\ Fenced(Key(w))
  /\ Advance(Key(w), "verifying")
  /\ Goto(w, "verify")
  /\ UNCHANGED <<routeStore, controlStore, rolloutTask, lapsed, locked, spec>>

\* Faults: the restored row keeps no fallback, or the failed candidate as one.
RestoredForgetsTrust(j) == [active |-> goal[j], good |-> None,
                            gen |-> control.gen + 1, rollback |-> None]
RestoredTrustsCandidate(j) == [active |-> goal[j], good |-> control.active,
                               gen |-> control.gen + 1, rollback |-> None]

\* The control state a restored rollback leaves behind.
Restored(j) == [active |-> goal[j], good |-> goal[j],
                gen |-> control.gen + 1, rollback |-> None]

\* The traffic is what the operation wanted: promoted, or restored together
\* with the deployment row.
Conclude(w) ==
  LET k == Key(w) IN
  /\ worker[w].pc \in {"probed", "verified"}
  /\ Verifies(w)
  /\ Holds(w)
  /\ Fenced(k)
  /\ Advance(k, Settled(k))
  /\ control' = IF k[1] = "rollback" THEN Restored(k[2]) ELSE control
  /\ Goto(w, "done")
  /\ UNCHANGED <<routeStore, activated, probation, goal, rolloutTask, lapsed,
                 locked, spec>>

\* Health did not verify: an apply that returned stays "verifying", and an
\* ambiguous call of an adapter that cannot replay waits for an operator.
Defer(w) ==
  LET k == Key(w) IN
  /\ \/ worker[w].pc = "verified"
     \/ /\ worker[w].pc = "probed"
        /\ Status(k) = "verifying" \/ ~Idempotent
  /\ ~Verifies(w)
  /\ Holds(w)
  /\ Fenced(k)
  /\ Advance(k, IF Status(k) = "verifying" THEN "verifying"
                                           ELSE "needs_reconciliation")
  /\ Goto(w, "done")
  /\ UNCHANGED <<routeStore, controlStore, rolloutTask, lapsed, locked, spec>>

\* The "finally" of both loops, reached from any point: every await can time
\* out, be cancelled or raise.  Only the owner's lease is given up, and an
\* unresolved job keeps the deployment lock.
Release(w) ==
  LET k == Key(w)
      mine == task[k].owner = w IN
  /\ worker[w].pc # "idle"
  /\ task' = IF mine THEN [task EXCEPT ![k].owner = None] ELSE task
  /\ lapsed' = IF mine THEN lapsed \ {k} ELSE lapsed
  /\ locked' = IF mine /\ k[1] = "lifecycle" /\ ~Unresolved(k)
               THEN locked \ {k[2]} ELSE locked
  /\ worker' = [worker EXCEPT ![w] = Idle]
  /\ UNCHANGED <<routeStore, controlStore, rolloutTask, spec>>

\* The process dies; its lease and lock stay in the database.
Crash(w) ==
  /\ worker[w].pc # "idle"
  /\ worker' = [worker EXCEPT ![w] = Idle]
  /\ UNCHANGED <<routeStore, controlStore, rolloutTask, leases, spec>>

\* The deadline of a lease passes, whatever its owner is doing.
Lapse(k) ==
  /\ task[k].owner # None
  /\ k \notin lapsed
  /\ lapsed' = lapsed \cup {k}
  /\ UNCHANGED <<routeStore, controlStore, rolloutTask, task, locked, spec,
                 worker>>

-----------------------------------------------------------------------------
Init ==
  /\ route = NoRoute
  /\ history = {}
  /\ actions = [k \in Keys |-> NoRoute]
  /\ control = NoControl
  /\ activated = {}
  /\ probation = {}
  /\ goal = [j \in Jobs |-> None]
  /\ spec = [j \in Jobs |-> NoSpec]
  /\ task = [k \in Keys |-> NoTask]
  /\ lapsed = {}
  /\ locked = {}
  /\ prepared = {}
  /\ held = [j \in Jobs |-> None]
  /\ worker = [w \in Workers |-> Idle]

RolloutStep(j) ==
  \/ \E from, target \in Revisions, approved \in BOOLEAN :
        CreateJob(j, from, target, approved)
  \/ BootstrapRoute(j)
  \/ ObserveHealth(j)
  \/ AcknowledgeBaseline(j)
  \/ AcknowledgeCandidate(j)
  \/ StabilizeCandidate(j)
  \/ Detect(j)

WorkerStep(w) ==
  \/ \E j \in Jobs : ClaimJob(w, j) \/ ClaimRollback(w, j)
  \/ Decide(w)
  \/ \E seen \in Revisions \cup {None} : Probe(w, seen)
  \/ StartAttempt(w)
  \/ Apply(w)
  \/ RecordApplied(w)
  \/ Conclude(w)
  \/ Defer(w)
  \/ Release(w)
  \/ Crash(w)

Next ==
  \/ \E j \in Jobs : RolloutStep(j)
  \/ \E w \in Workers : WorkerStep(w)
  \/ \E k \in Keys : Lapse(k)

Spec == Init /\ [][Next]_vars

-----------------------------------------------------------------------------
(* Properties *)

\* The deployment row names a route that really was installed, under the
\* generation it was installed with, and is at most one cutover behind the
\* traffic: between the two databases a release or a rollback is either
\* acknowledged or the only one that still has to be.
ControlNamesTraffic ==
  control # NoControl =>
    /\ [rev |-> control.active, gen |-> control.gen] \in history
    /\ route.gen \in {control.gen, control.gen + 1}

\* A job that ends "promoted", and a rollback that ends "restored", moved the
\* traffic themselves.  Both conclude from a health observation, which names
\* a revision but no generation, so another action could have produced it.
SettledByItsOwnAction ==
  \A k \in Keys : Status(k) = Settled(k) => actions[k] # NoRoute

\* The revision a rollback falls back to was the initial baseline or passed
\* probation as the route of some generation.
KnownGoodIsProven ==
  control # NoControl =>
    \/ [rev |-> control.good, gen |-> 0] \in history
    \/ \E p \in probation : [rev |-> control.good, gen |-> p.gen] \in history

\* A candidate with a rollback operation, open or restored, is not what a
\* later rollback falls back to.
RolledBackIsNotTrusted ==
  \A j \in Jobs : Status(Undo(j)) # "none" => control.good # spec[j].target

\* While a rollback owns the deployment no lifecycle job moves the traffic
\* ("rollback ownership freezes concurrent promotion").
RollbackFreezesPromotion ==
  [][control.rollback # None =>
       \A j \in Jobs : actions'[Deploy(j)] = actions[Deploy(j)]]_vars

\* The durable action log explains every route: a generation has one route, a
\* route after the first was installed by one action, and each action that is
\* recorded took the traffic from exactly the route its request named, whatever
\* else was requested, replayed or settled in between.
CutoversChain ==
  /\ \A g, h \in history : g.gen = h.gen => g = h
  /\ \A h \in history : h.gen > 0 => \E k \in Keys : actions[k] = h
  /\ \A k \in Keys : actions[k] # NoRoute =>
       /\ actions[k] = [rev |-> Request(k).target, gen |-> Request(k).gen + 1]
       /\ {actions[k], [rev |-> Request(k).from, gen |-> Request(k).gen]} \subseteq history
  /\ \A k, l \in Keys : actions[k] # NoRoute /\ actions[k] = actions[l] => k = l

\* "Non-idempotent adapters are never blindly retried": whatever crashes,
\* lapses and retries do, such an adapter is asked once for an operation.
NoBlindReplay == ~Idempotent => \A k \in Keys : task[k].attempts < 2

\* A rollback that owns the deployment can always be finished by whoever resumes
\* it: its fence still accepts it (DeploymentStore._fence), and the traffic is
\* either what its request expects, so that apply moves it, or what its own apply
\* has made of it, so that a probe can verify it.  Otherwise the deployment would
\* stay frozen, promotions and later rollbacks included, until somebody repairs
\* the rows by hand.
RollbackCanFinish ==
  \A j \in Jobs : control.rollback = j =>
    /\ Fenced(Undo(j))
    /\ \/ actions[Undo(j)] = NoRoute /\ Current(Request(Undo(j)))
       \/ actions[Undo(j)] = route
    /\ Status(Undo(j)) = "verifying" => actions[Undo(j)] = route

\* "Ambiguity keeps the lock until reconciled": once a job is promoted or
\* rejected nothing is ambiguous, and only a worker that is just about to
\* release the lock may still hold it.
OnlyAmbiguityKeepsTheLock ==
  \A j \in locked : Status(Deploy(j)) \in {"promoted", "rejected"} =>
    \E w \in Workers : Key(w) = Deploy(j)

\* The three stores together keep the promise of Rollout.
Promise == INSTANCE Rollout
  WITH traffic <- route.rev, trusted <- control.good, cutover <- route.gen
KeepsPromise == Promise!Spec
=============================================================================
