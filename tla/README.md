# FinServe in TLA+

This directory models the parts of FinServe (`src/src/finserve`) whose
correctness depends on order: several processes, several databases, leases,
timeouts, retries and crashes. Paths below are relative to `src/src/finserve`.

Contents: [inventory](#1-inventory) · [plan](#2-plan) ·
[the release path](#3-the-release-path-releasecontrol-and-monitoredrelease) ·
[drain](#4-admission-drain-and-retirement-warmdrain) ·
[visual jobs](#5-visual-jobs-visualjobs) ·
[routing](#6-routing-rayrouting) ·
[managed runtime](#7-the-managed-runtime-managedruntime) ·
[local capacity](#8-local-capacity-localcapacity) ·
[gateway](#9-the-gateway-gateway-and-enginestreams) ·
[producer pipeline](#10-the-producer-pipeline-producerpipeline) ·
[runs](#11-the-runs) · [proofs](#12-the-proofs) ·
[disagreements](#13-where-code-and-documentation-disagree) ·
[limits](#14-what-is-not-modelled)

## 1. Inventory

FinServe serves financial language, image and voice models. New revisions are
built, evaluated, started as containers, promoted to take traffic, watched, and
rolled back when they misbehave. Several processes share SQLite/SQL databases;
there is no message broker. What follows is each part, its state, its
operations, what makes it hard and what makes it correct.

### The release path

| part | state | operations |
|---|---|---|
| **Warm route store** (`reliability/warm_routes.py`) | the current revision and generation, an event log of every route saved, one receipt per idempotency key, the admissions under way, the retired revisions | `bootstrap`, `apply` (compare-and-swap of the route), `acknowledge_baseline`, `acknowledge_candidate`, `stabilize_candidate`, `register`, `admit`, `finish_admission`, `retire_drained`, `retire_unserved` |
| **Deployment control and rollback** (`reliability/rollback.py`, `contracts/deployment.py`) | per deployment: active and known-good revision, generation, the owner of a rollback; per rollback: target, status, attempts, lease | `bootstrap`, `activate_candidate`, `mark_stable`, `detect`, `claim`, `update`, `release`; the loop `RollbackController.resume` |
| **Lifecycle jobs** (`registry/lifecycle.py`, `registry/metadata.py`) | per job: specification, status, attempts, lease, the deployment lock (a unique column) | `create_job`, `claim`, `advance`, `release`; the loop `LifecycleService.run` |
| **Release activation and rollout task** (`registry/release_activation.py`, `producer_rollout.py`) | nothing of its own: it holds a health observation between two transactions | `prepare_release`, `acknowledge_release`, `complete_probation`, in the order of `rollout_stage` |
| **Promotion gate** (`reliability/promotion.py`, `registry/release_gate.py`) | immutable evidence and decisions | `decide`, `gate` |
| **Probe monitor** (`reliability/monitor.py`) | a window of probe outcomes of one revision at one generation | `observe`, `signal`, `stable`, `run` |
| **Pipeline entry points** (`registry/pipeline.py`, `pipelines/`) | none | register, evaluate, deploy; two DAGs: the producer pipeline and `finserve_lifecycle`, which deploys without preparing |

They interact through three separate databases: the route store, the control
store and the registry. `acknowledge_*` and `stabilize_candidate` write the
control store while holding the route store's write lock; everything else is
one transaction in one database, with awaits in between. Workers are Airflow
tasks: any number, restarted at any time, holding leases that may expire while
they sleep.

*Hard*: a worker that stalls past its lease and then still makes its call; a
cutover that commits although its caller timed out; a crash between the call
and its record, and between the record and the release of the lease; a health
observation that names a revision but no generation; a late failure signal
against a stale generation; two deployments jobs and a rollback of the same
deployment at once.

*Correct when*: the control store names a route that was really installed and
lags the traffic by at most one cutover; `promoted` and `restored` are true
statements about what this operation did; a rollback never falls back to
something unproven; a rollback freezes promotion; an adapter that cannot replay
is asked once; a rollback that was started can always be finished; a lock is
given back.

### Drain and admission

`reliability/warm_drain.py`, `gateway/warm_route_app.py`, `http_ownership.py`.
State: rows of the admission table (at most 4096), the routed revisions, the
retired revisions, open HTTP responses. A request is admitted to the current
route, dispatched, and finished only when its upstream connection is verified
closed. A revision is retired only when nothing admitted to it is open and it
is neither current, active, known good nor a rollback target.
*Hard*: the cutover between reading the route and inserting the admission; a
client that goes away; a cancelled close, of a call or of an evicted pool; a
restart with admissions in the table. *Correct when*: a drained revision has no
request now and never gets one again; no admission is finished before its
transport is closed; no call runs on a closed pool; what was retired can be
stopped and released.

### Local capacity

`reliability/capacity_store.py`, `capacity_policy.py`,
`registry/local_capacity.py`. State: per plan a phase, a cycle and the memory
of the policy; one slot per deployment; the pool members, ready or not; the
containers. *Hard*: a runner dies or is cancelled between two of its
transactions; the anchor changes while an extra runtime starts; two runners, or
two plans, want the same deployment; streaks of samples survive in the row.
*Correct when*: at most one extra runtime exists and the plan that owns it can
still reach it; what the gateway may choose serves; a request keeps its
runtime; scaling is decided on fresh samples of one process.

### Visual jobs

`multimodal/jobs.py`, `visual_rpc.py`, `gateway/visual_routes.py`. State: jobs
in a SQLite queue with a worker generation, the coordinator's one running task,
the worker's request table. *Hard*: cancel against completion, an RPC client
that goes away while the worker computes, coordinator shutdown.
*Correct when*: terminal states absorb; a cancelled job ends and its worker
stops; the worker computes one request once.

### Ray routing

`scheduler/policy.py`, `scheduler/router.py`, `engines/ray_serve.py`,
`ray_backends.py`. State: replica snapshots, reservations, the allowlist and
the producers of each replica. *Hard*: a refresh crossing a reservation; a
retire that fails; a caller cancelled between reserve and admit; a backend
disabled while heartbeats are under way. *Correct when*: reservations of a
replica never exceed its capacity; a reservation is released only when nothing
of the request is left at the replica and nothing can come.

### Producer stages and managed runtimes

`registry/producer_stages.py`, `producer_tasks.py`, `producer_pipeline.py`,
`producer_runtime.py`, `managed_runtime.py`, `runtime_abort.py`,
`runtime_fence.py`, `runtime_stages.py`, `runtime_probe.py`,
`runtime_build.py`, `model_assets.py`. State: a journal of stages with
compare-and-swap attempts, container labels, port and abort fences. *Hard*: a
launch whose outcome is unknown, an abort racing a launch, a container that
exists without a journal row. *Correct when*: one container per attempt; no
launch after the abort intent; a finished stage names what really runs.

### Gateway

`gateway/app.py`, `admission.py`, `vision.py`, `body_limit.py`,
`cache/redis_state.py`, and the adapters `engines/openai_adapter.py`,
`chat_protocol.py`, `vision_openai.py`, `ray_http.py`. State: a counter of
slots and the lease of each request, the quota key in Redis, the state of each
engine stream. *Hard*: a client that leaves, stops reading or is cut by a
deadline at any await; a decoding thread that cannot be cancelled; a quota key
that lost its expiry; a backend stream that breaks after its last token.
*Correct when*: slots cover all work under way and every slot comes back; DONE
means a complete answer; a used-up quota opens again.

### Producer jobs and evidence

`registry/producer_pipeline.py`, `producer_tasks.py`, `producer_runtime.py`,
`performance_stages.py`, `managed_quality.py`, `produced_release.py`. State: the
journal of the stages of a job, the model directory, the runs in the registry,
the containers that are measured. *Hard*: two executions of one task; a process
its scheduler has given up that publishes late; a container that is restarted
while it is measured; a stream that cannot be closed. *Correct when*: the
evidence of a release comes from one start of each runtime, nothing is measured
beside an unresolved request, and registered evidence stands.

### The rest

The content of evidence (`registry/quality_collection.py`,
`performance_collection.py`, `evaluation/`), exports
and browsing (`registry/explorer.py`, `annotations.py`, `artifacts.py`,
MLflow), `benchmark/`, `telemetry/`, image and audio preprocessing, the web
applications, infrastructure and scripts: sequential computation, pure I/O,
read-only views or measurement, without a protocol to check.

The hazards of all of these, at the line where each bites, are in
`PROJECT.json`.

## 2. Plan

Ordered by what a fault would cost.

1. **ReleaseControl** with the abstract **Rollout** — *done*. Route store,
   control store, jobs, rollbacks and rollout tasks, with crashes and stale
   workers. Theorems: type correctness, the inductive invariant and the five
   safety invariants, the freeze, the log of cutovers, the implementation of
   Rollout.
2. **WarmDrain** with the abstract **Retirement** — *done*. Admission, dispatch,
   close, drain, retirement and the client pools, over any sequence of cutovers
   and acknowledgements the stores accept. Theorems: connected calls keep their
   runtime, what is in use runs, a drain receipt is final, a call runs on an open
   pool, a retirement can be completed, the implementation of Retirement.
3. **VisualJobs** with the abstract **Board** — *done*. The queue, the
   coordinator and the worker RPC, with cancel, shutdown and the loss of either
   process anywhere. Theorems: a settled job is drained, the worker computes one
   image at a time, a fenced job never succeeds, a proven drain settles, the
   implementation of Board.
4. **RayRouting** with the abstract **Slots** — *done*. Router, replicas and the
   protocol refresh, reserve, admit, generate, retire, release. Theorems:
   reservations fit, admission never refuses, a released request is gone, a
   disabled backend gets nothing, the implementation of Slots.
5. **ManagedRuntime** with the abstract **Lifetime** — *done*. The stage journal
   with launch, abort and stop of one runtime, any number of executions that die
   anywhere, and a daemon that executes accepted requests late. Theorems: one
   container and one start per attempt, an aborted launch is gone, only a stop
   removes a completed launch, a stop receipt is true, the intent to abort
   blocks the attempt, the implementation of Lifetime.
6. **LocalCapacity** — *done*. Enrolment, policy, slot, launch, publication,
   withdrawal, cleanup and shutdown, with runners that die anywhere and the
   admissions of the gateway. Theorems: one extra runtime, a slot that can be
   given back, members that run, requests that keep their replica, a removal
   only on the evidence of one runner, the implementation of Retirement, and
   that a runtime is used as Lifetime says.
7. **Gateway** over **EngineStreams** — *done*. Quota, slots, streams,
   deadlines, cancellation. Theorems: slots count leases and cover all work,
   DONE follows a complete answer, the implementation of Slots.
8. **ProducerPipeline** — *done*. All stages of a producer job, two executions
   of any task, restarts and damages, registration and cleanup. Theorems: type
   correctness, evidence from one start, one collector at a time, a registration
   that stands.
9. **MonitoredRelease** — *done*. The probe monitors composed with
   ReleaseControl. Theorems: the verdicts that count are steady, the composition
   implements ReleaseControl and so keeps the promise of Rollout.

Composition: WarmDrain restates the route and control stores of ReleaseControl
as its environment, without the jobs that drive them, and adds retirement;
LocalCapacity keeps of them a generation and whether it is stable.
MonitoredRelease EXTENDS ReleaseControl and conjoins its steps. ManagedRuntime
is the inside of the launch, abort and stop of ProducerPipeline and
LocalCapacity. What passes between the two sides is Lifetime: ManagedRuntime
implements it for its attempts, and LocalCapacity, which has one container per
replica instead, is proved to do with it only what Lifetime allows. Slots and
Retirement are promises that two components make, each in its own way: the
routing actor and the gateway about slots, the warm store and the capacity pool
about runtimes that are withdrawn while they are in use. Modules that carry
theorems use functions and folds, never RECURSIVE operators.

## 3. The release path: `ReleaseControl` and `MonitoredRelease`

### State

| variable | in the code |
|---|---|
| `route` | row of `warm_routes`: revision and generation |
| `history` | `warm_events`: every route ever saved |
| `actions` | `warm_actions`: the receipt of each idempotency key |
| `control` | row of `deployments`: `active_revision`, `known_good_revision`, `generation`, `rollback_id` |
| `activated`, `probation` | the tables `activations` and `probation` |
| `goal` | `rollbacks.target_revision` |
| `spec`, `task`, `locked` | `lifecycle_jobs`: specification; status, attempts and lease owner; `locked_deployment`. `task` also holds the same columns of `rollbacks` |
| `lapsed` | leases with `lease_until` in the past |
| `prepared`, `held` | how far the rollout task of a job is, and the health observation it carries from one transaction to the next |
| `worker` | the program counter and the local variables of one run of `LifecycleService.run` or `RollbackController.resume` |

A `Deploy(j)` key stands for the job and for its idempotency key
(`"lifecycle-" + job_id`), an `Undo(j)` key for the rollback of the candidate
that job j released. `Request(k)` is the `ApplyRequest` of either. The digest
that guards a replay (`request_sha256`) is left out: a key fixes its request.

### Actions

One action is one transaction or one call that touches shared state. Between
any two of them every other process may run.

| action | code |
|---|---|
| `CreateJob` | `Registry.create_job` |
| `BootstrapRoute`, `ObserveHealth`, `AcknowledgeBaseline` | `prepare_release`: seeds the route, probes, acknowledges the baseline in the control store under the route's write lock |
| `AcknowledgeCandidate` | `acknowledge_release` → `WarmRouteStore.acknowledge_candidate` → `activate_candidate`, replay included |
| `StabilizeCandidate` | `complete_probation` → `stabilize_candidate` → `mark_stable` |
| `Detect` | `DeploymentStore.detect`, called with the monitor's signal |
| `ClaimJob`, `ClaimRollback` | `Registry.claim` (lease and lock), `DeploymentStore.claim` (lease and fence) |
| `Decide` | `run`: a registered job becomes evaluated or rejected |
| `Probe` | `adapter.health` before an ambiguous attempt is decided, and after an apply |
| `StartAttempt` | the durable `deploying` / `applying` record, before the call |
| `Apply` | `WarmRouteStore.apply`: receipt, or compare-and-swap |
| `RecordApplied`, `Conclude`, `Defer` | the records after the call: `verifying`; `promoted` or `restored`; still `verifying` or `needs_reconciliation` |
| `Release` | the `finally` of both loops, reachable from every point because every await may raise or time out. A refused compare-and-swap and a call that times out after its commit leave this way |
| `Crash` | the process dies with its lease and its lock in the database |
| `Lapse` | a lease deadline passes, whatever its owner is doing |

`Apply` checks no lease, as the code does not: a worker that slept through its
lease still makes its call, and only the compare-and-swap can stop it. A health
check reads the route before and after the network probe and fails unless both
are equal, so it takes effect at its last read, with the revision then
current. It returns no generation: that is what makes `Conclude` worth
checking.

`ProducerOnly` chooses between the two ways jobs arrive. TRUE: the producer
pipeline, whose rollout task deploys only after `prepare_release` and names a
candidate no other release has named. FALSE: also `deploy_stage` of the
`finserve_lifecycle` DAG, which prepares nothing. `Idempotent` is the adapter's
`supports_idempotency`.

### Abstract specification

`Rollout` says what a client of the deployment may rely on: one revision has
the traffic, one is trusted; traffic leaves the trusted revision for one
candidate at a time; a candidate can only give it back or become trusted
itself. The refinement maps `traffic` to the route's revision, `trusted` to the
known-good revision and `cutover` to the route's generation: two databases and
any number of workers look like three variables that change one step at a time.

`RollbackCanFinish` is what the frozen deployment depends on: whenever a rollback
owns it, a resume passes the fence, and the traffic is what `apply` still accepts
or what the rollback's own `apply` has made of it. Whether it is resumed is up to
the schedulers, and the code promises nothing there: the monitor tries
`recovery_attempts` times (`reliability/monitor.py:286`), the rollout task of the
DAG has `retries=0`, `monitor_cli` runs once. So convergence is not claimed.

`CutoversChain` says what the store alone promises, whatever the pipeline: the
log of actions explains every route. Each route but the first has the action
that installed it, each recorded action took the traffic from exactly the route
its request named, and no two operations account for the same cutover.

### The probe monitor

`MonitoredRelease` adds what decides that a candidate passes or fails: windows
of probes in the stage journal, one per frozen policy. A candidate may have
several, that of its probation and those operators start (`monitor_cli.py`), and
a process may stop and another go on with the window.

| variable | in the code |
|---|---|
| `window` | the completed probe stages of a policy, classified: healthy, failed (or slow), stale |
| `probe` | who runs the stage of the next probe |
| `monitor` | a process in `ProbeMonitor.observe` and `run`: the position, the window it has replayed, what it has compared |
| `steady` | history: monitors for which control and traffic have named the candidate ever since they began their request |

`ReadsHistory` is `_history`, `StartsProbe` and `CancelsProbe` are
`start_owned`, `ReadsControl` and `ReadsRoute` are `_matches`, which reads two
databases one after the other, before the request and after it;
`PublishesProbe` is `publish` and `_result`; `RaisesSignal` calls
`DeploymentStore.detect` when the last probes in a row are failed;
`complete_probation` asks for a complete healthy window. `MonitorDies` stands
for the end of the process and for a stream that cannot be closed: both leave
the stage running, so that the window is never completed. `ReleaseControl` lets
`Detect` and `StabilizeCandidate` happen at any moment; here they have the
reasons of the code, and everything else of `ReleaseControl` goes on at the
same time.

`SteadyVerdicts` is the reason why a verdict about one revision cannot enter
the window of another although no lock spans the probe: the generation grows
with each cutover, a rollback and the end of probation are final for the
candidate, so what matches before and after has matched all the time.

Left out: clocks, so the probes of a complete window count as spaced, and slow
counts as failed.

## 4. Admission, drain and retirement: `WarmDrain`

`ReleaseControl` says which revision gets the traffic. `WarmDrain` says who may
still be using the others, and when a container may be stopped and its port
reused.

### State

| variable | in the code |
|---|---|
| `route`, `cutovers`, `served` | `warm_routes`: revision, generation; `warm_events`: revisions that were ever routed |
| `control` | `deployments`: active and known-good revision; `frozen` is `rollback_id is not None` |
| `base` | `warm_backends.base_url`: the endpoint, or `"retired:" + revision` once it is free |
| `retired`, `drained` | `warm_retirements`, `warm_drain_receipts` |
| `rows` | `warm_admissions`: the revision each row pins |
| `request` | the position of a request in the middleware and the engine, and its `AdmissionLease` with the counters `backend_started` and `backend_closed` |
| `clients`, `users` | `WarmRouteEngine.clients` and `client_users` |
| `shut`, `closing` | cached clients that are closed or about to be; the one whose `close` is awaited under `client_lock` |
| `runtime` | the container of a revision: not started, running, stopped |
| `cleaner` | where a call of `cleanup_unserved` is |

### Actions

| action | code |
|---|---|
| `Admit` | `WarmRouteStore.admit`, from the middleware; its timeout may lose the lease of a committed row |
| `Enter`, `GetClient`, `SendCall`, `Answer`, `CloseCall`, `Leave` | `WarmRouteEngine.stream`, `_client` and `_evict_retired`, `AdmissionTransport`, `AdmissionCloseStream.aclose` |
| `Evict`, `EvictFails` | the two ends of `await client.close()` in `_evict_retired`: the entry is deleted, or an error or a cancellation leaves it |
| `Abandon` | a cancellation before the call, the client limit, a missing credential |
| `Reject` | a request that is refused after its admission and before the engine |
| `Finish` | the `finally` of the middleware and `finish_admission` |
| `Borrow`, `Return` | `require_stable_baseline` with a reservation; the end of `borrowed_collection` |
| `CrashGateway` | the process dies: its memory is gone, its rows and its calls stay |
| `RetireUnserved`, `RetireDrained` | one transaction each of `cleanup_unserved` |
| `StopRuntime`, `ReleaseEndpoint`, `CrashCleaner` | its remaining steps, or its death between two of them |
| `Launch`, `Register`, `Bootstrap`, `Cutover`, `Acknowledge` | the environment: any launch, any route change and any change of the deployment row that the stores accept, in any order |

The environment is weaker than `ReleaseControl` on purpose. It does not follow
jobs, leases or receipts, so what holds here holds for every order in which
release paths call the stores. Two facts about the code are kept: a container
starts only on a free port and a rollback is restored only for the deployment
it froze. A container that nobody stops keeps running. `Acknowledge` restores
a rollback whatever the route is, because the observation it rests on is older.

A call counts as *connected* from the moment `AdmissionTransport` counts it
until `AdmissionCloseStream` has seen its close succeed. That is what the
process knows; the backend may have finished earlier, never later. If the
process dies, or the close fails, nobody will ever know, and the row stays. The
repository accepts that price (`docs/LLD.md` calls it a lost
acknowledgement and demands an operator), and safety must hold beside such a row
for ever.

An eviction is two steps. While `client.close()` is awaited nobody else gets a
client (`closing`: the code holds `client_lock`), but the close may raise, and
the request that awaits it may be cancelled; then the closed client stays in
`clients` and a request that was admitted before the retirement finds it there.
`PoolStaysOpen` therefore does not say that no closed pool is handed out, which
would be false (section 13), but what still holds: no call runs on one. A closed
client raises before its transport counts a call.

That a retired revision is stopped and released in the end is not claimed: the
cleanup task of the DAG runs once, with `retries=0`, and gives up on a pending
drain. `RetiredStaysReclaimable` says that somebody who calls it again can go on:
no retired revision comes back as route, active or known good, which
`retire_drained` and `retire_unserved` would refuse, it stays registered, and
its endpoint is nobody else's while its container runs.

`Retirement` is what those who use a runtime may rely on, without rows, leases
and receipts: a user borrows a runtime before it calls and returns it after the
call has ended; one that is retired is lent to nobody again, and is stopped only
when everybody has returned it. The refinement maps a loan to an admission row
and a call to a request that may still be connected. An orphaned row is a loan
that is never returned.

## 5. Visual jobs: `VisualJobs`

A job is a row of SQLite, a task of the coordinator process and a computation
of the worker process. They learn of each other by a stream and by one call
that cancels, and any of the three may go on after the others have given up.

### State

| variable | in the code |
|---|---|
| `jobs` | `visual_jobs`: `state`, `generation`, `attempt_generation` |
| `phase` | the coordinator process: up, `_closing`, closed, down |
| `loop` | `_run`: head of the loop, in `claim_next`, gathering the execution, ended |
| `exec` | `_execution` and the position of `_execution_task` in `_execute` and `_cleanup`, with what it has read, `worker_instance`, `started`, and the arguments of its `finish_cancel` |
| `late` | writes in a thread whose coroutine was cancelled |
| `caller` | calls of `cancel` |
| `instance` | `VisualWorker.instance` of the running worker process |
| `record` | `_records`: `revoked`, the native task; and where the `generate` handler of the attempt is |
| `sent`, `wire`, `cancels`, `acks` | the two calls on their way: requests, frames written, barriers, answers |

A job is claimed at most once — only queued jobs are claimed and nothing becomes
queued again — so its attempt needs no name of its own.

### Actions

| action | code |
|---|---|
| `Submit`, `ClaimNext`, `CancelFence`, `Complete`, `Settle`, `Abandon` | the transactions of `VisualJobStore`, at their commit |
| `Turn`, `ClaimNothing`, `Dispatch`, `Gather` | `_run` around them |
| `ReadState`, `Decide`, `ReceiveAdmitted`, `ReceiveArtifact`, `StreamFails` | `_execute` and `VisualRPCClient.generate` |
| `Fence`, `ReceiveAck`, `BarrierFails` | `_cleanup` and `VisualRPCClient.cancel` |
| `WriteFails` | SQLite refuses one of these writes |
| `CancelResume`, `CancelReturn` | `cancel` after its fence: `Task.cancel()` and the wait |
| `Close`, `Closed` | `_shutdown` |
| `LateWrite` | a thread that outlived its coroutine commits |
| `Deliver`, `Admit`, `StartTask`, `Write`, `HandlerStops`, `HandlerEnds` | `VisualWorker.generate` and `_produce` |
| `TaskEnds` | the native thread |
| `Revoke`, `Ack` | `VisualWorker.cancel`, before and after its drain |
| `Crash`, `Start`, `Replace` | the coordinator process ends and begins; the worker process is replaced |

`Interrupt` is `Task.cancel()`. asyncio delivers it at the await the task is in,
so a task that awaits `to_thread` leaves its thread behind: the write is put in
`late` and may commit at any later time, or never. The cleanup is shielded and
swallows further cancellations, which is why only the positions inside the
`try` can be interrupted.

The network delivers a request late, twice or never, and a request dies with
the worker process it was sent to: both calls use one connection to a loopback
address. Answers may arrive after the process that sent them is gone.

Left out: the column `worker_instance` (`record_worker`), which only
`unresolved` reports; image bytes and digests (a wrong digest is a failing
stream); the wake event, since the loop looks again after a second anyway;
`VisualWorker.close`, which drains before the process ends and so does less
harm than `Replace`.

`Board` is what those who submit jobs and whoever owns the GPU may rely on: a
job waits, is taken once, may be called off, and ends once; the machine works
for one job at a time, which was taken and has not ended; a job ends only when
the machine has let go of it. The refinement maps the state of a job to that of
its row and `computing` to the native threads of the worker process: a database
and a process that share two unreliable calls look like one table. That a
computation is lost with its process is part of the promise; that the job is
then settled is not, since nobody can tell what became of it.

## 6. Routing: `RayRouting`

One routing actor sends requests to named replicas. Its picture of a replica is
a heartbeat plus its own reservations; the replica has its own count. The module
is about what keeps the two together while calls are slow, fail or cross.

### State

| variable | in the code |
|---|---|
| `snapshots`, `leases` | `ReplicaRouter._snapshots`, `_leases` with `_replica_leases` |
| `disabled` | `RoutedBackends._disabled` |
| `decision` | the replica of a reservation; it outlives the release, because calls made under it do |
| `phase`, `heartbeat` | where `_generate` is with a request, and the `state` calls of its refresh |
| `admission`, `result`, `retirement` | the remote calls `admit`, `generate` and `retire` of a request |
| `active`, `producers` | the sets of the same names of a replica |
| `closing` | what is left of the loop of `_close_pools` |

A request reserves at most once and a `lease_id` is used once, so a reservation
is named by its request. A snapshot keeps what a reservation changes: the load,
the identifiers it reflects, and one Boolean for everything else `is_eligible`
asks (health, model, GPU, memory, age). It may be FALSE at any heartbeat. The
score only ranks what is eligible: `Reserve` takes any.

### Actions

| action | code |
|---|---|
| `Arrive`, `Wait`, `Refuse` | `RoutedBackends.reserve_request`: at most 128 wait; saturation refreshes again; everything else ends the request |
| `Hear`, `Store` | `state` at the replica, and what `_refresh_one` makes of the answer or of its failure. Heartbeats of several requests are under way at once |
| `Reserve` | `ReplicaRouter.reserve`, atomic, followed by the call of `admit` without an await between them |
| `Stream`, `Finish` | `_generate`: the admission is acknowledged; the stream ends for any reason, also by cancellation, and the cleanup begins |
| `Retire`, `Release`, `GiveUp` | `_release_after_worker`: the outcome of the admission, `retire`, `release`; five seconds for all of it |
| `Disable`, `Enable` | `set_enabled` |
| `Admit`, `AdmissionFails`, `Generate`, `Produced`, `Retired` | the replica |
| `Close`, `CloseRetires`, `Restart` | `close` of a replica; a new actor under the same name, after a close or a crash |

A call that has not been executed may be executed at any later time, also when
its caller has given up waiting and also by a new actor. A call that *failed* is
not executed afterwards: Serve reports a failure when the request was refused
or its replica died. `Finish` covers the end of the stream, since the routing
actor sees it later than the replica. Failure of `record_selection`, before the
admission is sent, releases at once and is the same as no reservation
(`Refuse`). Answers of `admit` may be lost while somebody waits for them
(`AdmissionFails`).

`Slots` is what an owner of a replica may rely on: a request that occupies it
holds one of its slots, from before it enters until after it has left, and
there are `Capacity` of them. The refinement maps `held` to the reservations of
the routing actor and `using` to the replicas' own sets: two sides that only
talk by unreliable calls look like one table. The gateway keeps the same promise
about the pool of an engine (section 9).

## 7. The managed runtime: `ManagedRuntime`

A runtime is one Docker container per launch attempt. Launching it, aborting a
launch that did not complete and stopping one that did are three operations of
separate processes over one journal of stages. Everything they do to the daemon
may outlive them.

### State

| variable | in the code |
|---|---|
| `journal` | `StageState` of the launch, abort and stop stage: status, attempt, `error_code`, and the launch attempt an abort or a stop is declared for |
| `disk` | the files of an attempt directory: `create-request`, `create-complete`, `allocation`, `start-request`, `first-start`, `abort-intent` |
| `fence` | who holds the `flock` of `operation.lock` |
| `box` | the container of an attempt as the daemon knows it; `id` and `start` count its creations and starts and stand for the full container ID and `State.StartedAt` |
| `wire` | docker commands that were handed over and not answered |
| `worker` | the operation, program counter and local variables of one execution |

### Actions

| action | code |
|---|---|
| `ReadLaunch`, `StartStage`, `CancelStart`, `FailAfterDrain` | `launch_runtime_stage` up to `start_owned`: declare, join a running attempt or start a new one; the owner may be cancelled after the commit and records its failure later |
| `EnterLaunch` | `attempt_fence`, the journal again, and `DockerRuntime.launch`, which refuses after an abort intent |
| `RequestCreate`, `SendCreate`, `CreateDone` | a request file, `docker create`, a completion file |
| `Adopt` | the container found by its name is inspected and bound, whoever created it |
| `RequestStart`, `SendStart`, `StartDone`, `Observe`, `Ready` | the same for `docker start`, then the readiness loop |
| `PublishLaunch` | the receipt and `ProducerStages.finish` |
| `ReadAbort`, `EnterAbort`, `DeclareAbort`, `RecordIntent` | `abort_runtime_stage` up to its durable intent: the launch is read before the fence and again inside |
| `ReconcileAbsent`, `ReconcileFound`, `ReplayAbort`, `VerifyAbsent` | `reconcile_container`, the branch of a launch aborted before, `verify_absent` |
| `FailLaunch`, `FinishStage` | the two records at the end of an abort, and the one of a stop |
| `DeclareStop`, `LookupAbsent`, `LookupFound` | `stop_runtime_stage`, which takes no fence |
| `SendStop`, `StopDone`, `CheckStopped`, `SendRemove`, `RemoveDone` | stop and removal, of an abort and of a stop alike |
| `Leave` | an exception, a deadline, a cancellation or the death of the process at any await |
| `Execute`, `Refuse`, `Exit` | the daemon executes a request, or does not; the process in the container ends |

`Leave` releases the fence, because a `flock` dies with its holder, and leaves
the requests of the worker on the wire: killing a docker client does not call
back what the daemon has accepted. A request that is *refused* is not executed
later, and its author, if it still waits, raises; a request that was never
accepted because its client died first is refused as well. Any number of
workers may run any operation, again and again.

Left out: containers that somebody outside restarts (the code detects them by
`StartedAt` and gives up: `ProducerPipeline` has them); the replay of a
completed launch, which only observes; log capture, inspection details, ports,
GPUs and digests; inputs of the older operation protocol, which are refused;
the other stages of the producer, which use the same journal without an abort
and are in `ProducerPipeline`.

`Lifetime` is what the receipts of the three operations are worth to those who
never see Docker: a runtime comes at most once; it is reported as launched while
it is there and nobody has decided to end it; it goes only after such a
decision, and for good; it is reported as ended only when it has gone. The
refinement takes it as *there* from the first execution of a create until that
of a removal, as *ending* from the intent to abort or the declaration of a stop,
and as *gone* also when the intent came first and no create is on the wire, so
that it can no longer come. An exit of the process is not an end: the container
is still there to be inspected.

## 8. Local capacity: `LocalCapacity`

A plan adds one runtime at a time to a deployment whose primary serves a stable
route. Any number of processes may run `run_plan`, ticks exclude each other by
a fence per plan, and a process may die, fail or be cancelled between any two
transactions of its tick.

| variable | in the code |
|---|---|
| `route` | the generation of `warm_routes`, and whether `deployments` has it as stable, unacknowledged or under a rollback |
| `authority`, `plan`, `slot` | `warm_capacity_authority`; `warm_capacity_plans` with phase, cycle, samples and `CapacityMemory`; `warm_capacity_slots` |
| `published`, `ready` | rows of `warm_capacity_members`, and the eligible ones |
| `backend`, `retired` | registration of the endpoint of a replica; `warm_retirements` |
| `launch`, `box` | the journal of the launch stage and the container of a replica |
| `rows`, `refused` | admissions of the gateway; `warm_capacity_demand` |
| `runner` | a process in `run_plan`, `tick` or `close` |
| `quiet` | history: idle samples a runner has itself taken in a row |

| action | code |
|---|---|
| `Cutover`, `Acknowledge`, `BeginRollback` | what the release path does to the anchor |
| `Admit`, `Refuse`, `Dispatch`, `Finish` | `select_admission`, `mark_dispatched`, `finish_admission` |
| `Freeze` | `freeze_capacity`: one plan owns a deployment, another one only after it is closed |
| `BeginTick`, `BeginClose`, `Retire`, `AdvanceIdle`, `AdvanceEnds`, `AdvanceSamples` | `tick` up to its decision; `decide_capacity` is `Decide` |
| `Register`, `StartLaunch`, `Request`, `ContainerStarts`, `ReceiveReceipt`, `Publish`, `Reread` | `_launch`: declared, started, published only while the anchor is stable |
| `RetireDrained`, `RetireUnserved`, `RuntimeGone`, `Release`, `Settle`, `EndCleanup` | `_cleanup` and `_settled` |
| `Interrupt`, `Block`, `Crash` | an exception or cancellation inside the `try`, `_blocked`, death |

Time is the class of the gap between two samples: too early, due, or late; and
whether the cooldown is over. Thresholds are those of the smallest policy: all
slots in use or a refusal is high, none in use is low. Left out: primary probes
and their tokens, the opt-in of a new store, identity checks of bytes.

Two abstract specifications meet here. Towards the gateway the pool implements
`Retirement`, as the warm store does: `select_admission` lends a member,
`finish_admission` returns it. Towards the launcher the runners stay within
`Lifetime`, on which the one container per replica rests: they record a launch
only of a replica that nobody has retired, and nothing goes that was not retired
before.

## 9. The gateway: `Gateway` and `EngineStreams`

`EngineStreams` is what the adapters believe of a backend: which event is
accepted after which, when the count of tokens is trusted, when a stream that
ended is complete. `Gateway` puts a request around it. A behaviour has one
endpoint with its engine (completions, the Ray relay, or images), since the
pools are separate.

| variable | in the code |
|---|---|
| `active` | `Admission.active` |
| `req` | per request: the await it is in, its lease, the answer of the quota, whether its deadline has passed, the work under way (a decoding thread, an open engine stream), the state of the engine stream, what the client has been told |
| `quota`, `sent`, `losses` | the key in Redis, its count up to the limit and whether it expires; the commands on their way; how often the expiry was lost |

| action | code |
|---|---|
| `Arrive`, `RunScript`, `QuotaFails`, `Refuse`, `Admit` | `RedisState.allow` with `QUOTA_SCRIPT`, then `Admission.acquire`; an image request takes its slot first |
| `WindowExpires`, `ExpiryIsLost` | Redis |
| `BodyArrives`, `BodyFails`, `DecodeEnds` | `vision.py`: upload and decoding in a thread that is drained whoever interrupts |
| `BackendFrame`, `BackendEnds`, `BackendBreaks` | the adapter's next event |
| `EngineCloses`, `Deliver`, `Return` | the generators and their `finally`, the sends of the response, the release of the lease |
| `Tick`, `DeadlineFires`, `Cancel` | the deadline of a request and its consequences at each await; cancellation by the client or by the server |

Four facts the model shows that a reader may not expect. For text, the deadline
bounds the wait for a token and the send of a delta; headers, the usage, error
and DONE frames are sent without one, so a client that neither reads nor leaves
keeps its slot there (`SlotReturns` assumes that it reads or leaves). All sends
of an image response are bounded (`bounded_send`). When the deadline passes
during the send of a delta the stream is cut without an error frame. A text
body is buffered before a slot is taken.

The pool of an endpoint implements `Slots`, the specification RayRouting
implements for a replica: `held` are the leases, `using` the requests with a
decoding thread or an open engine stream. The two ways to give a lease back, in
the generator's `finally` and after the response, do not show there.

Left out: the response cache of `RedisState` (no caller under `src/`), the
buffering of text bodies, authentication and model checks, which refuse
without state, metrics and spans, bytes and framing.

## 10. The producer pipeline: `ProducerPipeline`

A producer job is a DAG of tasks over one journal. The scheduler may run a task
again while a process it has given up is still at work; only the journal keeps
them apart.

| variable | in the code |
|---|---|
| `journal` | `producer_stages`: status and attempt of every stage of the job |
| `launched`, `evidence` | the container start in a launch receipt; history: the starts that answered the requests of a completed collection |
| `job`, `runs` | the attempts whose evidence a release was registered with; the runs in the registry |
| `box`, `snapshot`, `stable` | the container of a cohort, the model directory, whether a borrowed baseline is still the stable route |
| `open` | requests a server may still be answering |
| `worker` | a process: the stage it executes, its attempt, the row it has read, its records |

| action | code |
|---|---|
| `freeze_stage`, `produce_step` | the frozen request; declaring a stage after verifying what it needs; joining one that runs |
| `StartReads`, `save`, `start_owned` | `ProducerStages.start` (read, compare-and-swap), and its cancellation |
| `Sends`, `Receives`, `verify_local_http_closure` | the requests of a download or a collection, and a stream that stays unresolved |
| `fetch_verified_model`, `publish_snapshot`, `build_runtime`, `launch_runtime_stage` | the stages of these names |
| `ObservesBefore`, `ObservesAfter`, `register_run` | collection: an observation of the recorded start before and after, the run registered before its stage is finished |
| `Publish`, `PublishLate`, `Fails`, `Dies` | the four ends of an attempt |
| `register_produced_release`, `CleanupReads`, `cleanup_unserved` | registration for the gate, and cleanup, at any time |
| `RuntimeDies`, `RuntimeRestarts`, `DiskFails`, `OtherFetches`, `RouteMoves` | what nobody in the pipeline does |

Three checks of the code are absent because they follow from what is there:
`verify_observations` compares two observations with each other that were both
compared with the launch receipt; the history check of `collection_state`
repeats what `produce_step` asked for; the fetch stage's manifest is that of
the verified directory. Clocks, and a restart during a launch, are left out.

A cohort has one container where the code has one for each attempt of its
launch. So a later attempt may adopt here the container of an earlier one, and a
cleanup removes whichever there is: more than the code can do, for properties
about what answered, which must hold all the same. An abort of a launch that
failed by itself is refused, as in `abort_runtime_stage`.

## 11. The runs

| run | instance | checks | result |
|---|---|---|---|
| `release_producer` | 2 jobs, 3 revisions, 2 workers, producer pipeline, an adapter with replay, at most `MaxCutovers` = 2 | `ControlNamesTraffic`, `SettledByItsOwnAction`, `KnownGoodIsProven`, `RolledBackIsNotTrusted`, `RollbackCanFinish`, `RollbackFreezesPromotion`, `KeepsPromise` | hold; 1.06 million states |
| `release_monitored` | `MonitoredRelease`: 1 direct job, 2 revisions, 1 worker, 2 monitors, 2 policies of 2 probes | `SteadyVerdicts` | hold; 1.05 million states |
| `drain` | 3 revisions on 2 endpoints, 3 requests, 1 cleanup task, 2 cutovers, 2 rows, 1 client pool | `ConnectedRuns`, `InUseRuns`, `DrainIsFinal`, `PoolStaysOpen`, `RetiredStaysReclaimable` | hold; 3.34 million states |
| `visual` | 2 jobs, 1 caller, 2 worker processes, 2 pending, 2 records, 1 attempt each, fairness | `TerminalIsDrained`, `FenceHolds`, `QueuedIsDispatched`, `CancelReturns`, `ShutdownEnds` | hold; 363 thousand states |
| `routing` | 2 requests, 1 replica, capacity 1, fairness | `ReservationsFit`, `ReleasedIsGone`, `DisabledIsQuarantined`, `KeepsSlots`, `RequestEnds` | hold; 27,894 states |
| `runtime_safety` | 2 executions, 2 attempts of each stage, 3 together | `OneContainer`, `AbortedIsGone`, `OnlyStopRemoves`, `StoppedIsGone`, `IntentBlocks` | hold; 1.09 million states |
| `capacity` | 2 plans of 2 replicas, 2 runners, 2 requests, 2 generations | `SlotOwnsRuntime`, `SlotIsReachable`, `PooledRuns`, `RowsKeepRuntime`, `PatientRemoval` | hold; 1.65 million states |
| `gateway` | 2 requests, 1 slot, quota 1, 1 lost expiry, each endpoint, fairness | `SlotsCoverWork`, `HonestDone`, `SlotReturns`, `QuotaReopens` | hold; 80 thousand states |
| `pipeline` | a borrowed baseline and a candidate, 2 processes, 2 attempts, 2 starts, 2 mishaps | `EvidenceFromOneStart`, `OneCollector`, `RegistrationStands` | hold; 723 thousand states |
| `runtime_drained` | as `runtime_safety`, without its bound | `FailedIsDrained` | violated, see 13 |
| `release_lock` | 2 jobs, 2 workers | `OnlyAmbiguityKeepsTheLock` | violated, see 13 |
| `capacity_blocked` | as `capacity`, 1 replica, 1 request | `BlockedKeepsSlot` | violated, see 13 |

Where a theorem states a fact for every instance and no run of this list is
needed for it, the run leaves it out: the type invariants, `NoBlindReplay`,
`CutoversChain`, `OneComputation`, `ProvenDrainSettles`, `AdmissionFits` and the
implementations of Board, Retirement, Lifetime and, by the gateway, of Slots are
proved (section 12). TLC agrees on instances of the sizes above.

**Bounds.** Two jobs and their two rollbacks are four operations that compete
for one route; two workers are the fewest that give a stale one and the one
that took over. Three revisions are a baseline and two candidates. `MaxCutovers`
ends a behaviour after the traffic has moved twice: to a candidate and back, or
to one candidate and the next, each with stale calls of the other operations
still to come. The adapter is the one the code has (`WarmRouteAdapter` supports
replay), so a worker that takes over applies again; `AttemptBound` only limits
the counter `apply_attempts`: attempts go on, the count stays. Jobs, revisions and workers are
interchangeable. Symmetry is used in safety runs only.

`release_monitored` has one job and one worker (any number in sequence, since one
may crash while its lease lives on) but two monitors and two policies: the end of
a probation, or a rollback one window asks for, falls into a probe of the other,
and two processes go on with the same window. Two probes are the shortest window
that may be healthy, two failures in a row the threshold. Monitors are
interchangeable.

For `drain`: two cutovers make one revision a fallback, superseded and, when it
is chosen again, current once more; two of the three revisions share an endpoint,
so one can only be registered when the other is released. One client pool forces
an eviction with the second revision, and three requests are one that awaits its
close, one that is left with a closed pool and one that pins a third revision;
two rows make `AdmissionLimit` reachable together with an orphan. Requests are
interchangeable. The theorems cover any number of each.

For `visual`: two jobs are one that is computing or stuck and one that waits
for its place; two worker processes are one that is lost and its successor,
which knows nothing of the first. A successor is explored with one job
(`MaxJobsLater`). One caller can cancel again and again, also a job whose
cancellation is under way; `Close` is a second source of `Task.cancel()`. The
worker has room for one attempt, so that a full attempt table is one of the
things that must not hold up the queue.

For `routing`: with one slot two requests compete for it, a stale view counts
a request too often or not at all, and a restarted or disabled replica meets
calls meant for its predecessor. External load needs no bound of its own: a
view at `Capacity` is full whatever the rest. Replicas do not share state; the
theorems cover any number of them, of requests and of slots.

For `runtime_*`: two executions are one that is inside the fence, or stalls
before it, and one that takes over, aborts or stops; what a third process left
behind is on the wire and on disk, since a worker that leaves begins again as
somebody new. Two attempts are one that failed and its successor; launch, abort
and stop have three together (`MaxStarts` of `MCManagedRuntime`), so each of
them may be retried, but one only. Workers are interchangeable (symmetry).

For `capacity`: two plans for one primary compete for its authority and slot;
two replicas are one that is settled and the next cycle; two runners are one
that stalls or dies and one that goes on. `Bounded` keeps the product small and
names each part: a second replica is explored with one request
(`MaxBusyLater`) and before a cutover, a second plan up to its first sample
(`SecondPlanSamples`). The thresholds are 1 sample up and 2 down, so a streak of
two must survive or be broken; `MaxSamples` ends a plan.

For `gateway`: two requests over one slot are one that holds it, in whatever
clean-up, and one that wants it. A request that ended may come back, without a
bound. A frame has every combination of text, end and usage; counts and
lengths are none, zero, within or above the limit, which is all the adapters
compare. The key may lose its expiry once (`MaxLosses`).

For `pipeline`: two processes are one that was given up and one that retries
its stage, or cleans up, or collects the other evidence. `MaxMishaps` allows
two of: a failure, a death, an unresolved stream, a restart, a death of the
container, a damaged disk, a cutover. The candidate is launched after the
baseline was collected, as in the DAG (`Bounded` of `MCProducerPipeline`);
executions of the same task are not kept apart. Two attempts are one that
failed and its successor.

**Deadlock** is checked where the system never stops. The release path stops when every job and rollback is
settled and nothing is left to observe, and also in the state of the lost lock
below; visual jobs stop when all records are used and the process has ended;
a drained deployment, a closed plan and a finished producer job have nothing
left to do. The `runtime_*` runs and `gateway` do check it: whatever happened,
some operation can be begun or left.

**Fairness.** The release path and the drain have none: what their progress needs
is that somebody runs a task again, which the code leaves to its operators. There
the runs say that it is possible, `RollbackCanFinish` and
`RetiredStaysReclaimable`.

In `visual` the dispatch loop with its task, the end of the shutdown and
the callers of `cancel` are weakly fair: the stream has the deadline of the
request, the barrier one of 120 seconds, a database write a busy timeout of 5.
Nothing is assumed of the worker, the network, late threads and crashes, so the
queue moves on although an image is never finished.

In `routing` the routing actor's own deadlines are weakly fair: that of the
request and the five seconds of its cleanup. Nothing is assumed of the
replicas, and a consumer that does not read is left to end by its own deadline or
close: while the generator is suspended at a `yield` (`ray_serve.py:238`) no
deadline of the routing actor runs. `RequestEnds` allows a reservation to be kept for ever (`"stuck"`):
the code does that deliberately when a retirement is not confirmed.

In `gateway` timers fire and local clean-up ends (weak fairness); a quota
command that keeps reaching Redis is executed in the end (strong, because a
caller may time out and its command be lost each time). Nothing is assumed of
the engine and of the reader of an image; the reader of a text stream takes the
frames no deadline bounds, or leaves.

Each property of a passing run has a mutant in `PROJECT.json`: an operator of
the model with one plausible fault (an acknowledgement that does not ask for
stability, a compare-and-swap without generation, any healthy answer taken for
the right one, a restored row with the wrong fallback, a row deleted whatever became of the
call, a drain that forgets the fallback, a cutover to a retired revision, a slot given
back while a thread decodes, streaks that survive a restart, a probe compared
only before its request), with which TLC
finds the property violated.

## 12. The proofs

`ReleaseControlProofs` is checked by TLAPS for all
sets of jobs, revisions and workers, any `AttemptBound` and both adapters.

| theorem | statement | assumes |
|---|---|---|
| `TypeCorrect` | `Spec => []TypeOK` | `ReleaseAssumption` |
| `ReplayCorrect` | `Spec => []NoBlindReplay` | `ReleaseAssumption` |
| `ChainCorrect` | `Spec => []CutoversChain` | `ReleaseAssumption` |
| `FallbackCorrect` | `Spec => []KnownGoodIsProven` | `ReleaseAssumption` |
| `Inductive` | `Spec => []IInv` | also `ProducerOnly` |
| `ControlCorrect` | `Spec => []ControlNamesTraffic` | also `ProducerOnly` |
| `SettlementCorrect` | `Spec => []SettledByItsOwnAction` | also `ProducerOnly` |
| `TrustCorrect` | `Spec => []RolledBackIsNotTrusted` | also `ProducerOnly` |
| `FreezeCorrect` | `Spec => RollbackFreezesPromotion` | also `ProducerOnly` |
| `RollbackFinishCorrect` | `Spec => []RollbackCanFinish` | also `ProducerOnly` |
| `PromiseKept` | `Spec => KeepsPromise` (implements Rollout) | also `ProducerOnly` |
| `SteadyCorrect` | `MonitoredSpec => []SteadyVerdicts` | also `MonitorAssumption`, not `ProducerOnly` |
| `MonitorsImplement` | `MonitoredSpec => Spec` | also `MonitorAssumption`, not `ProducerOnly` |
| `MonitoredPromise` | `MonitoredSpec` implements Rollout, freezes promotion, keeps `KnownGoodIsProven` and `RolledBackIsNotTrusted` | also `MonitorAssumption` and `ProducerOnly` |

`ReleaseAssumption` says that `None` is not a job, revision or worker, that the
two switches are Booleans and that the bound is a natural number. With
`ProducerOnly = FALSE` several of these statements are false (section 13), so
the assumption is needed, not convenient. Where it is not needed it is not made.

The argument of the inductive invariant of `ReleaseControl`. `TypeOK` is not inductive: it does not
say that a job that exists has a specification, that a worker's key is a real
one or that a rollback has a target. `Bookkeeping` adds exactly that, and
`TypeInv` is the sum. The core is one fact about time: *a prepared job that has
not moved the traffic yet either still names the current route, on a stable
control store, or can never move it any more* (`PreparedInv`). Preparation
checks stability; the route's generation only grows, so once someone else has
moved it the compare-and-swap of the stale request fails for ever. Hence while
a rollback or an unacknowledged cutover is open no second cutover is possible,
and the control store lags by at most one. `WorkerInv` carries what a worker
observed across its transactions: that a worker saw its target on the route
implies that its own action put it there, because a candidate's name is fresh
and because a rollback that owns the deployment is alone in moving it. Each
preservation proof has one step per action and one lemma per conjunct that the
action can disturb.

`RollbackFinishCorrect` reads the same invariant from the other side. The
controller names what the rollback's request expects (`OwnerInv`); if the traffic
is level with it, the request names the current route and cannot have been applied
yet, since an applied one has a later generation (`ActionInv`); if it is one
cutover ahead, that cutover was the rollback's own. Only the status `verifying`
needs more: it is recorded behind an apply that returned, which has its row in
the action log (`AppliedInv`).

What holds for direct jobs as well rests on the log. Only the compare-and-swap
of `Apply` adds to it, and what it adds has the generation after the largest one
there (`LogInv`). So an entry is fixed by its generation, and an action with the
same receipt as another is that other. The fallback changes when a probation
ends, and `StabilizeCandidate` asks for what the controller calls active at the
route's generation, and for the receipt of the job; `TrustInv` adds to
`KnownGoodIsProven` that a rollback restores the fallback it was opened with.

The monitors read the databases of the release and write to them only through
`Detect` and `StabilizeCandidate`, with a job that exists, because their policy
names one (`WatchInv`). Hence `MonitorsImplement`, and with it every safety
theorem of `Spec` holds with any number of monitors.

The argument of `SteadyCorrect` needs no more of ReleaseControl than its types,
so it holds for direct jobs too. The route moves by one generation at a time, and
so does the deployment row, except for a rollback that takes it or a revision
that becomes known good (`StoresMoveSlowly`); neither is undone within a
generation. Hence a store that has reached the generation of a job and does not
name its candidate never names it again (`MismatchStays`), and a comparison that
holds after the answer must have held ever since the one before it. `WatchInv`
keeps, for each place of a monitor, which of the two stores that is known of.

`WarmDrainProofs` proves the safety of admission and drain for any number of
revisions, endpoints, cleanup tasks and cutovers and any finite number of
requests. It assumes `DrainAssumption` alone: `None` and `Released` are nobody's
name, limits are natural numbers, every revision has an endpoint.

| theorem | statement |
|---|---|
| `DrainInductive` | `Spec => []IInv` |
| `ConnectionCorrect` | `Spec => []ConnectedRuns` |
| `UseCorrect` | `Spec => []InUseRuns` |
| `DrainCorrect` | `Spec => []DrainIsFinal` |
| `PoolCorrect` | `Spec => [](TypeOK /\ PoolStaysOpen)` |
| `ReclaimableCorrect` | `Spec => []RetiredStaysReclaimable` |
| `LoansCorrect` | `Spec => KeepsLoans` (implements Retirement) |

Its argument: a container is stopped only when its revision is *reclaimable*,
that is retired, and drained or never served. Retirement is for ever and every
way to get traffic asks for it in the same transaction, so a reclaimable
revision stays reclaimable. A call that may be connected has a row (`RowInv`),
rows pin only revisions that were served, and a drained revision has no row;
hence no connected call is on a reclaimable revision. `PoolCorrect` needs
counting: the number of users of a pool is at least the number of streams
inside the engine for it, so it never drops below zero and an eviction at zero
closes a pool nobody is in. A user that comes while the pool is being closed
waits for the lock; one that finds it closed afterwards starts nothing.
`ReclaimableCorrect` needs `EndpointInv`: an endpoint is given back only behind a
stop, and a container that was stopped is not started again. For `LoansCorrect` each step is one of Retirement or
is not seen: a row is deleted only when nothing of its request is connected
(`Deletable`), so no call outlasts its loan, and a reclaimable revision has no
row at all.

`VisualJobsProofs` proves every safety property of `VisualJobs` for any number
of jobs, callers, worker processes and limits. It assumes `VisualAssumption`:
`None` is not a job, there are finitely many jobs, the limits are positive.

| theorem | statement |
|---|---|
| `VisualInductive` | `Spec => []IInv` |
| `JobsTypeCorrect` | `Spec => []TypeOK` |
| `DrainedCorrect` | `Spec => []TerminalIsDrained` |
| `OneComputationCorrect` | `Spec => []OneComputation` |
| `SettleCorrect` | `Spec => []ProvenDrainSettles` |
| `FenceCorrect` | `Spec => FenceHolds` |
| `BoardCorrect` | `Spec => KeepsBoard` (implements Board) |

Its argument: an attempt is *fresh* as long as its job is queued or its
execution has not sent the call (`FreshInv`), and *gone* when it does not
compute and neither a request under way nor a handler can make it: a request
would be refused because the attempt is remembered, a handler has been revoked.
Being gone is stable. `Evidence` collects everything on which the code settles
a job or is about to: the answer of a barrier, an artifact, a write already in
its thread, an execution that knows, a settled job. `GoneInv` says that evidence
implies gone; the step that needs care is `Decide`, the only one that sends,
and what it sends is fresh and has no evidence yet. `ShapeInv` ties the state
of a job to its two generations, so that the comparisons of `complete` and
`finish_cancel` decide by the state alone. For `BoardCorrect`, a computation
begins only for an attempt that is not fresh, so its job was claimed, and not
gone, so its job is not settled; a write that settles a job finds the attempt
gone already.

`RayRoutingProofs` proves every safety property of `RayRouting` for any finite
number of requests, any replicas and any capacity. It assumes
`RoutingAssumption`: `None` is not a replica, the requests are finitely many,
the limits are positive.

| theorem | statement |
|---|---|
| `RoutingInductive` | `Spec => []IInv` |
| `RoutingTypeCorrect` | `Spec => []TypeOK` |
| `ReservationsCorrect` | `Spec => []ReservationsFit` |
| `AdmissionCorrect` | `Spec => []AdmissionFits` |
| `ReleasedCorrect` | `Spec => ReleasedIsGone` |
| `QuarantineCorrect` | `Spec => DisabledIsQuarantined` |
| `SlotsCorrect` | `Spec => KeepsSlots` (implements Slots) |

Its argument: a view counts at least what it lists (`TypeOK`), so the load that
`reserve` compares with the capacity is at least the number of reservations
(`LoadCounts`), whatever the age of the view: heartbeats may make the router
too careful, never too bold. `Accounted` says that whatever a replica holds of a
request, or may still be asked to admit, is covered by its reservation, and
that a confirmed retirement comes after the outcome of the admission; so a
release finds nothing and leaves no call that could bring something back.
`active` is then a subset of the reservations without the one being admitted,
which leaves room for it.

`ManagedRuntimeProofs` proves every safety property of `ManagedRuntime` for any
finite number of executions and any number of attempts. It assumes
`RuntimeAssumption`: `None` is not an execution, there are finitely many, at
least one attempt is allowed.

| theorem | statement |
|---|---|
| `RuntimeInductive` | `Spec => []IInv` |
| `RuntimeTypeCorrect` | `Spec => []TypeOK` |
| `OneContainerCorrect` | `Spec => []OneContainer` |
| `AbortedCorrect` | `Spec => []AbortedIsGone` |
| `OnlyStopCorrect` | `Spec => []OnlyStopRemoves` |
| `StoppedCorrect` | `Spec => []StoppedIsGone` |
| `IntentCorrect` | `Spec => IntentBlocks` |
| `LifetimeCorrect` | `Spec => KeepsLifetime` (implements Lifetime) |

Its argument: a file is written before the command it announces, and only
whoever holds the fence writes or sends a create or a start. Without the file
there is nothing on the wire (`FilesInv`), with it nobody sends again; so a
create is either pending or has happened, and the same for a start (`Single`).
A worker inside the fence is alone with its attempt (`Alone`: another holder is
excluded by the `flock`, a stop by the journal, since it needs a completed
launch and a completed launch has no holder). Two more facts make conclusions
last. Nobody sends a stop or a removal before the attempt is *quiet*, without a
create or start on the wire, and *claimed*, by a durable intent or a stop stage
(`RemoveInv`, `RemovalInv`). And intent and completion exclude each other:
`EnterLaunch` refuses after the intent, `EnterAbort` after the completion, both
inside the fence. So `Execute` of a late create or start finds nobody who has
concluded anything, and `Execute` of a late removal finds only attempts that
are claimed. `RefuseStep` is where it matters that a failed command raises:
otherwise a removal that failed would be taken for an absence.

`LifetimeCorrect` takes the steps by what they write. Most write no more than a
file or a position (`SilentSteps`). The intent is a decision; it ends at once
what was never asked for, and what is on the wire stays to come until the create
is executed or refused. The declaration of a stop is one too, since it needs a
completed launch. A launch is reported while its container is there and nobody
has decided: that is `LaunchInv` and the exclusion of intent and completion. An
abort or a stop finishes behind a removal or an absence that lasts.

`ProducerPipelineProofs` proves every safety property of `ProducerPipeline` for
any processes and cohorts, any number of attempts, starts and mishaps, and
without the constraint `Bounded` of its run. It assumes `PipelineAssumption`:
`None` is no process and no cohort, borrowed cohorts are cohorts, an attempt and
a start are allowed.

| theorem | statement |
|---|---|
| `PipelineInductive` | `Spec => []IInv` |
| `PipelineTypeCorrect` | `Spec => []TypeOK` |
| `EvidenceCorrect` | `Spec => []EvidenceFromOneStart` |
| `CollectorCorrect` | `Spec => []OneCollector` |
| `RegistrationCorrect` | `Spec => []RegistrationStands` |

Its argument: a completed stage is never written again and attempts only grow
(`JournalGrows`), which is all that `RegistrationStands` needs. The new attempt
of a start is larger than what any process has, so an attempt of a stage that
drains its own work has one owner, which alone can end it (`OwnerInv`,
`RunningKept`); launches and the plan are left out, because a second execution
may join them. What is open then belongs to the running attempt and stays open
as long as it runs, also when its process has gone (`OpenInv`). The evidence
needs two monotone facts. The receipt of a completed launch is fixed
(`LaunchFixed`) and starts of a container only grow (`BoxGrows`); so whatever
answered lies between the recorded start and the current one (`ServedInv`), and
the second observation says that the two are equal.

`LocalCapacityProofs` proves every safety property of `LocalCapacity` for any
plans and runners, any number of replicas, samples and routes and any finite
number of requests, and without the constraint `Bounded` of its run. It assumes
`CapacityAssumption`: each plan expects a generation that exists, limits are
positive and a removal waits for at least as many samples as an addition,
`Primary` is no plan, `None` is no plan, runner or replica.

| theorem | statement |
|---|---|
| `CapacityInductive` | `Spec => []IInv` |
| `CapacityTypeCorrect` | `Spec => []TypeOK` |
| `SlotCorrect` | `Spec => []SlotOwnsRuntime` |
| `ReachableCorrect` | `Spec => []SlotIsReachable` |
| `PooledCorrect` | `Spec => []PooledRuns` |
| `RowsCorrect` | `Spec => []RowsKeepRuntime` |
| `PatienceCorrect` | `Spec => PatientRemoval` |
| `LoansCorrect` | `Spec => KeepsLoans` (implements Retirement) |
| `ContractCorrect` | `Spec => UsesContract` (uses Lifetime) |

Its argument: steps are *outside* (route, gateway, daemon), *around* the fence
or *inside* it. One runner holds the fence of a plan (`FenceInv`), and a plan
that is not closed has the authority (`OwnedPlan`), so of all steps inside only
the runner's own change what it relies on (`OthersPosition`). `PositionInv` says
what that is, between any two transactions of a tick: while it launches, the
plan is `warming` at the replica in hand, so the slot is that replica and nothing
else is alive; while it cleans up, the plan is `draining` or `blocked`, so none
of its replicas is a member. Hence no request can be added to a replica on which
`retire_drained` has seen none (`stop`), and a replica reaches `_settled` only
when it is not alive, which is when the slot may be given back. Neither is
affected by a cutover: a route only decides who may be chosen among members that
all serve (`ReadyInv`). A streak in the memory of a plan belongs to the process
of its epoch and is never longer than what that process has watched itself
(`PatienceInv`): every process starts with an epoch nobody has written.

The two refinements need one fact each that no other property asks for. Whoever
is about to stop or abort a replica has retired it (`RetiredInv`), so that a
container goes only after the decision, and nobody waits for the launch of a
replica that is retired (`LaunchingInv`), so that a launch is not reported after
it. Both are kept by the fence: only the runner inside it retires.

`GatewayProofs` proves the safety of `Gateway` for any finite number of
requests, any limits and each endpoint. It assumes `GatewayAssumption`: the
requests are finite and the two limits positive.

| theorem | statement |
|---|---|
| `GatewayInductive` | `Spec => []IInv` |
| `GatewayTypeCorrect` | `Spec => []TypeOK` |
| `SlotsCorrect` | `Spec => []SlotsCoverWork` |
| `DoneCorrect` | `Spec => []HonestDone` |
| `PoolCorrect` | `Spec => KeepsSlots` (implements Slots) |

Its argument: neither property is inductive, because neither says where a
request is. `LeaseInv` does: in which places the lease is held, given back or
not there yet, and which work may be under way there; in `tail` and `return`
that depends on the endpoint, since the text generator releases in its own
`finally` and the image response after it. `StreamInv` says the same of the
answer: the account of an engine, once it is there, comes with a finish reason
and covers the text (`Accounted`), and a request gets to `final` or `done` only
with an ended stream. Both speak of one request, and every step changes one
request (`Moves`), so the counter is dealt with once, in `OneRequestMoves`:
it goes up with a lease that is taken while a slot is free and down with the
first release of one. The same split gives `PoolCorrect`: what a request does to
its lease and its work takes a slot, enters it, leaves it or gives it back
(`RequestSlots`).

Only model-checked: the liveness properties `QueuedIsDispatched`,
`CancelReturns`, `ShutdownEnds`, `RequestEnds`, `SlotReturns` and `QuotaReopens`
(fairness and ENABLED are out of the prover's reach).

## 13. Where code and documentation disagree

**A settled job can keep the deployment lock for ever** (`release_lock`).
`Registry.advance` commits `promoted` or `rejected`, and a later transaction,
`Registry.release`, clears `locked_deployment`. `run` returns early for a job
in either status (`registry/lifecycle.py:121`), so after a crash between the
two no code path clears the column, and `claim` refuses every other job of the
deployment with "another lifecycle owns this deployment"
(`registry/metadata.py:436`). The docstring of `claim` promises "ambiguity
keeps the lock until reconciled": here nothing is ambiguous. TLC needs four
steps: create, claim, reject, crash.

**Rollback ownership does not freeze promotion outside the producer pipeline**
(no run; four steps in the model with
`ProducerOnly = FALSE`). The docstring of `DeploymentState` says "rollback ownership
freezes concurrent promotion" (`contracts/deployment.py:59`).
`WarmRouteStore.apply` compares revision and generation of the route only; the
check of the control store is in `acknowledge_baseline`, which direct lifecycle
jobs never call. In the producer pipeline the property holds and is proved. For
the same reason `ControlNamesTraffic` and `SettledByItsOwnAction` are claimed
for the producer pipeline only: direct jobs cut over as often as they like
without an acknowledgement, and one of them may conclude `promoted` from a
health observation of a revision that another job installed.

**A failed attempt may still be at work** (`runtime_drained`). The docstring of
`ProducerStages.fail` says "Retain proof of drained or reconciled work before
allowing a new attempt." (`registry/producer_stages.py:188`), that of
`failed_after_drain` "Only the known owner can record that its controlled
async/file work has fully unwound." (`producer_tasks.py:62`). `start_owned`
commits a running attempt, and when it is cancelled records the failure in a
later transaction (`producer_tasks.py:89`). In between
`launch_runtime_stage` joins any running attempt (`runtime_stages.py:147`): TLC
lets a second execution join it and create its container before the first
records that the attempt is drained. A new attempt may then start beside the
old container, and an abort of the old one refuses, because its error is not
`RuntimeAborted` (`runtime_abort.py:229`).

**A settled replica may be blocked** (`capacity_blocked`). The docstring of
`_blocked` says "Failure retains the global allocation and removes eligibility
before reconciliation." (`registry/local_capacity.py:362`). `tick` calls it for
every exception and cancellation inside its `try`, also when `_settled` has
committed: `owned_disk` lets the transaction under way finish and then raises
(`model_assets.py:35`). `_settled` has deleted the slot and moved on to the next
replica; `_blocked` overwrites the phase without looking. The next cleanup
retires a replica that was never launched; after the last one `tick` raises
`IndexError` for ever, and no other plan can take the deployment.

Three remarks on code that no run of this project reports as a violation.
*Heartbeats that cross*: `update_snapshot` means to reject out-of-order
telemetry (`scheduler/router.py:50`), but compares `received_at`, which
`_refresh_one` sets when it stores (`engines/ray_serve.py:143`); of two that
cross, the older one stays. No reservation is miscounted, because unreflected
ones are added (`ReservationsFit` is proved); only load that bypasses the
routing actor can be missed until the next one. *An aborted launch may start
again*: `launch_runtime_stage` refuses a stage whose failure is `RuntimeAborted`
(`runtime_stages.py:146`), but reads it before it starts it, so an execution
that read it earlier starts another attempt after the abort. That attempt has a
container and an abort of its own, and the promises hold for each. *A closed
client stays in the cache*: the comment in `_evict_retired` says "New users wait
for this lock and cannot obtain the closing adapter."
(`gateway/warm_route_app.py:94`), but the entry is deleted after
`await client.close()`. If that raises or is cancelled, the next request with an
older admission gets the closed client and fails; TLC finds it in 21 steps with
two revisions and three requests. No call is lost by it (`PoolStaysOpen` is
proved), and the request that fails was bound for a retired revision.

## 14. What is not modelled

In the release path: the content of evidence, decisions and digests (facts of
a job); `last_error`, timestamps and wording; the store identity check, which
compares constants; retirement, which is `WarmDrain`'s, and the capacity pool,
whose guards in `acknowledge_*` and `apply` only refuse more than the model
does; the clocks of the monitor. Operator intervention by hand in a database is
outside.

In admission and drain: several gateways and several deployments (rows and
retirements of different deployments do not meet, several gateways differ from
one only in their pools); stores that run the capacity protocol, whose
admissions carry a kind and a phase; the content of requests and responses;
how `stop_runtime_stage` finds the container.

In visual jobs: the HTTP routes, which call the coordinator and check tenants;
request validation; what an operator does with `unresolved` attempts.

In routing: scores and tie-breaking, `forget_replica` (no caller), GPU sampling,
the HTTP framing, and `RoutedFixture` without waiting, which is a special case.

In local capacity, containers that exit by themselves: that a replica runs means
in `PooledRuns` and `RowsKeepRuntime` that nobody has removed it. In managed
runtimes, local capacity, the gateway and the producer pipeline, besides: what
sections 7 to 10 list. "May still be answered" (`OneCollector`) is about the
local end of a stream, which is what `http_ownership.py` can know.

Never modelled: the rest of section 1, for the reasons given there and in
`PROJECT.json`.
