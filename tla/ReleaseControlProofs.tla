----------------------- MODULE ReleaseControlProofs -----------------------
(***************************************************************************)
(* Proofs about ReleaseControl for any number of jobs, revisions and       *)
(* workers, for releases of the producer pipeline (ProducerOnly).          *)
(*                                                                         *)
(* The safety properties follow from one inductive invariant, IInv.  Its   *)
(* heart is PreparedInv: a job that was prepared and whose action has not  *)
(* been applied can only still be applied while the controller is stable   *)
(* on exactly the traffic the job expects.  This is what lets apply, which *)
(* looks at the route alone, respect a rollback that only the control      *)
(* store knows about.                                                      *)
(*                                                                         *)
(* The types (TypeInv), the log of cutovers and the fallback (LogInv) and  *)
(* the part about the probe monitors of MonitoredRelease hold for every    *)
(* kind of pipeline.                                                       *)
(***************************************************************************)
EXTENDS MonitoredRelease, TLAPS

(***************************************************************************)
(* Facts that hold for every kind of pipeline and adapter: types, and that *)
(* an adapter without idempotent replay is asked once.  Most steps of a    *)
(* worker only keep books (they move a status or a lease); they are        *)
(* treated together, by Bookkeeping.                                       *)
(***************************************************************************)

\* An idempotency key is the one of a job or the one of its rollback, never both.
LEMMA KeyFacts ==
  /\ \A j \in Jobs : Deploy(j) \in Keys /\ Undo(j) \in Keys
  /\ \A j \in Jobs : Deploy(j)[1] = "lifecycle" /\ Deploy(j)[2] = j
  /\ \A j \in Jobs : Undo(j)[1] = "rollback" /\ Undo(j)[2] = j
  /\ \A i, j \in Jobs : Deploy(i) # Undo(j) 
  /\ \A i, j \in Jobs : Deploy(i) = Deploy(j) => i = j
  /\ \A i, j \in Jobs : Undo(i) = Undo(j) => i = j
  /\ \A k \in Keys :
       /\ k[2] \in Jobs
       /\ \/ k[1] = "lifecycle" /\ k = Deploy(k[2])
          \/ k[1] = "rollback" /\ k = Undo(k[2])
  /\ NoKey \notin Keys
<1>1. \A k \in Keys :
       /\ k[2] \in Jobs
       /\ \/ k[1] = "lifecycle" /\ k = Deploy(k[2])
          \/ k[1] = "rollback" /\ k = Undo(k[2])
  BY DEF Keys, Deploy, Undo
<1>2. NoKey \notin Keys
  BY DEF Keys, NoKey
<1> QED BY <1>1, <1>2 DEF Keys, Deploy, Undo

\* None is no revision, job or worker.
LEMMA NotNone ==
  /\ \A r \in Revisions : r # None
  /\ \A j \in Jobs : j # None
  /\ \A w \in Workers : w # None
  BY ReleaseAssumption

\* The columns of a job or rollback row, and what a worker remembers.
Tasks == [status : LifecycleStatus \cup RollbackStatus \cup {"none"},
          attempts : 0 .. AttemptBound,
          owner : Workers \cup {None}]
Works == [pc : {"idle", "claimed", "probed", "apply", "applied", "verify",
                "verified", "done"},
          key : Keys \cup {NoKey},
          seen : Revisions \cup {None}]
\* The states of a rollback that still owns the deployment.
Open == {"detected", "applying", "verifying", "needs_reconciliation"}

\* Rows exist together with what they refer to.
TaskInv ==
  /\ \A j \in Jobs : Status(Deploy(j)) = "none" <=> spec[j] = NoSpec
  /\ \A j \in Jobs : Status(Deploy(j)) \in LifecycleStatus \cup {"none"}
  /\ \A j \in Jobs : Status(Undo(j)) \in Open \cup {"none", "restored"}
  /\ \A j \in Jobs : Status(Undo(j)) # "none" => goal[j] \in Revisions
  /\ \A j \in Jobs : control.rollback = j => Status(Undo(j)) # "none"

\* A worker works for a row that exists.
Busy == \A w \in Workers : worker[w].pc # "idle" =>
          Key(w) \in Keys /\ Status(Key(w)) # "none"

TypeInv == TypeOK /\ TaskInv /\ Busy

\* The step changes no store: statuses may move, but a row neither appears nor
\* settles, and only the owner of the deployment moves the status of a rollback.
Bookkeeping ==
  /\ UNCHANGED <<route, history, actions, control, activated, probation, goal,
                 spec, prepared>>
  /\ \A k \in Keys :
       \/ task'[k].status = task[k].status
       \/ /\ task[k].status # "none"
          /\ task'[k].status # Settled(k)
          /\ k[1] = "lifecycle" => task'[k].status \in LifecycleStatus
          /\ k[1] = "rollback" =>
               control.rollback = k[2] /\ task'[k].status \in Open

\* The two task tables in the shape the lemmas use.
LEMMA WorkTypes ==
  /\ TypeOK => task \in [Keys -> Tasks] /\ worker \in [Workers -> Works]
  /\ "none" \notin Open
  /\ "none" \notin LifecycleStatus
  BY DEF TypeOK, Tasks, Works, Open, LifecycleStatus

\* Recording one more attempt keeps a task record well typed.
LEMMA TaskUpdate ==
  ASSUME NEW t \in Tasks, NEW s \in LifecycleStatus \cup RollbackStatus,
         NEW n \in 0 .. AttemptBound
  PROVE  [t EXCEPT !.status = s, !.attempts = n] \in Tasks
BY DEF Tasks

\* A step that only keeps books preserves TypeInv.
LEMMA BookkeepingType ==
  ASSUME TypeInv, Bookkeeping, task' \in [Keys -> Tasks],
         worker' \in [Workers -> Works], lapsed' \subseteq Keys,
         locked' \subseteq Jobs, held' \in [Jobs -> Revisions \cup {None}],
         \A w \in Workers : worker'[w].pc # "idle" =>
           worker'[w].key \in Keys /\ task[worker'[w].key].status # "none"
  PROVE  TypeInv'
<1>1. TypeOK'
  BY DEF TypeInv, TypeOK, Bookkeeping, Tasks, Works
<1>2. \A k \in Keys : task'[k].status = "none" <=> task[k].status = "none"
  BY KeyFacts, WorkTypes DEF Bookkeeping
<1>3. TaskInv'
  <2>1. \A j \in Jobs : task'[Deploy(j)].status = "none" <=> spec'[j] = NoSpec
    BY <1>2, KeyFacts DEF TypeInv, TaskInv, Bookkeeping, Status
  <2>2. \A j \in Jobs : task'[Deploy(j)].status \in LifecycleStatus \cup {"none"}
    BY KeyFacts DEF TypeInv, TaskInv, Bookkeeping, Status
  <2>3. \A j \in Jobs : task'[Undo(j)].status \in Open \cup {"none", "restored"}
    BY KeyFacts DEF TypeInv, TaskInv, Bookkeeping, Status
  <2>4. \A j \in Jobs : task'[Undo(j)].status # "none" => goal'[j] \in Revisions
    BY <1>2, KeyFacts DEF TypeInv, TaskInv, Bookkeeping, Status
  <2>5. \A j \in Jobs : control'.rollback = j => task'[Undo(j)].status # "none"
    BY <1>2, KeyFacts DEF TypeInv, TaskInv, Bookkeeping, Status
  <2> QED BY <2>1, <2>2, <2>3, <2>4, <2>5 DEF TaskInv, Status
<1>4. Busy'
  BY <1>2 DEF Busy, Key, Status
<1> QED BY <1>1, <1>3, <1>4 DEF TypeInv

\* What taking a lease (the claim of both services) does to the tables.
LEMMA Lease ==
  ASSUME TypeInv, NEW w \in Workers, NEW k \in Keys, TakeLease(w, k)
  PROVE  /\ task' \in [Keys -> Tasks]
         /\ \A i \in Keys : task'[i].status = task[i].status
         /\ worker' \in [Workers -> Works]
         /\ worker'[w].key = k
         /\ worker'[w].pc = "claimed"
         /\ worker'[w].seen = None
         /\ \A v \in Workers \ {w} : worker'[v] = worker[v]
         /\ lapsed' \subseteq Keys
<1>1. TypeOK /\ task \in [Keys -> Tasks] /\ worker \in [Workers -> Works]
  BY WorkTypes DEF TypeInv
<1>2. /\ task' = [task EXCEPT ![k] = [task[k] EXCEPT !.owner = w]]
      /\ lapsed' = lapsed \ {k}
      /\ worker' = [worker EXCEPT ![w] = [pc |-> "claimed", key |-> k, seen |-> None]]
  BY DEF TakeLease
<1>3. task[k] \in Tasks /\ [task[k] EXCEPT !.owner = w] \in Tasks
      /\ [task[k] EXCEPT !.owner = w].status = task[k].status
  BY <1>1 DEF Tasks
<1>4. [pc |-> "claimed", key |-> k, seen |-> None] \in Works
  BY DEF Works
<1>5. lapsed \subseteq Keys
  BY <1>1 DEF TypeOK
<1> QED BY <1>1, <1>2, <1>3, <1>4, <1>5

\* What recording a status, and moving on, do to the tables.
LEMMA AdvanceType ==
  ASSUME TypeInv, NEW k \in Keys, NEW status \in LifecycleStatus \cup RollbackStatus,
         Advance(k, status)
  PROVE  task' \in [Keys -> Tasks]
<1>1. task \in [Keys -> Tasks]
  BY WorkTypes DEF TypeInv
<1>2. task' = [task EXCEPT ![k] = [task[k] EXCEPT !.status = status]]
  BY DEF Advance
<1>3. [task[k] EXCEPT !.status = status] \in Tasks
  BY <1>1 DEF Tasks
<1> QED BY <1>1, <1>2, <1>3

LEMMA GotoType ==
  ASSUME TypeInv, NEW w \in Workers, NEW pc \in {"verify", "done"}, Goto(w, pc)
  PROVE  worker' \in [Workers -> Works]
<1>1. worker \in [Workers -> Works]
  BY WorkTypes DEF TypeInv
<1>2. worker' = [worker EXCEPT ![w] = [worker[w] EXCEPT !.pc = pc]]
  BY DEF Goto
<1>3. [worker[w] EXCEPT !.pc = pc] \in Works
  BY <1>1 DEF Works
<1> QED BY <1>1, <1>2, <1>3

\* Every worker step but Apply and Conclude only keeps books.
LEMMA WorkerBookkeeping ==
  ASSUME TypeInv, NEW w \in Workers,
         \/ \E j \in Jobs : ClaimJob(w, j) \/ ClaimRollback(w, j)
         \/ Decide(w)
         \/ \E seen \in Revisions \cup {None} : Probe(w, seen)
         \/ StartAttempt(w)
         \/ RecordApplied(w)
         \/ Defer(w)
         \/ Release(w)
         \/ Crash(w)
  PROVE  TypeInv' /\ Bookkeeping
<1> USE WorkTypes, KeyFacts
<1>1. TypeOK /\ task \in [Keys -> Tasks] /\ worker \in [Workers -> Works]
  BY DEF TypeInv
<1>2. worker[w].pc # "idle" => Key(w) \in Keys /\ task[Key(w)].status # "none"
  BY DEF TypeInv, Busy, Status
<1>3. \A v \in Workers : worker[v].pc # "idle" =>
        worker[v].key \in Keys /\ task[worker[v].key].status # "none"
  BY DEF TypeInv, Busy, Status, Key
<1>4. lapsed \subseteq Keys /\ locked \subseteq Jobs /\ held \in [Jobs -> Revisions \cup {None}]
  BY <1>1 DEF TypeOK
<1>a. ASSUME NEW j \in Jobs, ClaimJob(w, j) PROVE TypeInv' /\ Bookkeeping
  <2>1. TakeLease(w, Deploy(j)) /\ task[Deploy(j)].status # "none"
    BY <1>a DEF ClaimJob, Status
  <2>2. Bookkeeping
    BY <1>a, <2>1, Lease DEF ClaimJob, Bookkeeping, routeStore, controlStore,
       rolloutTask
  <2>3. locked' \subseteq Jobs /\ held' = held
    BY <1>a DEF ClaimJob, rolloutTask
  <2>4. /\ task' \in [Keys -> Tasks] /\ worker' \in [Workers -> Works]
        /\ lapsed' \subseteq Keys
        /\ worker'[w].key = Deploy(j)
        /\ \A v \in Workers \ {w} : worker'[v] = worker[v]
    <3> Deploy(j) \in Keys
      BY KeyFacts
    <3> QED BY <2>1, Lease
  <2>5. ASSUME NEW v \in Workers, worker'[v].pc # "idle"
        PROVE  worker'[v].key \in Keys /\ task[worker'[v].key].status # "none"
    BY <1>3, <2>1, <2>4, <2>5
<2> QED BY <1>4, <2>2, <2>3, <2>4, <2>5, BookkeepingType
<1>b. ASSUME NEW j \in Jobs, ClaimRollback(w, j) PROVE TypeInv' /\ Bookkeeping
  <2>1. TakeLease(w, Undo(j)) /\ task[Undo(j)].status # "none"
    BY <1>b DEF ClaimRollback, Status
  <2>2. Bookkeeping
    BY <1>b, <2>1, Lease DEF ClaimRollback, Bookkeeping, routeStore,
       controlStore, rolloutTask
  <2>3. locked' = locked /\ held' = held
    BY <1>b DEF ClaimRollback, rolloutTask
  <2>4. /\ task' \in [Keys -> Tasks] /\ worker' \in [Workers -> Works]
        /\ lapsed' \subseteq Keys
        /\ worker'[w].key = Undo(j)
        /\ \A v \in Workers \ {w} : worker'[v] = worker[v]
    <3> Undo(j) \in Keys
      BY KeyFacts
    <3> QED BY <2>1, Lease
  <2>5. ASSUME NEW v \in Workers, worker'[v].pc # "idle"
        PROVE  worker'[v].key \in Keys /\ task[worker'[v].key].status # "none"
    BY <1>3, <2>1, <2>4, <2>5
<2> QED BY <1>4, <2>2, <2>3, <2>4, <2>5, BookkeepingType
<1>c. CASE Decide(w)
  <2>1. worker[w].pc # "idle" /\ task[Key(w)].status = "registered"
    BY <1>c DEF Decide, Status
  <2>2. Key(w)[1] = "lifecycle"
    BY <1>2, <2>1 DEF TypeInv, TaskInv, Status, Open
  <2>3. task' \in [Keys -> Tasks] /\ worker' \in [Workers -> Works]
    <3> DEFINE s == task'[Key(w)].status
    <3>1. /\ s \in LifecycleStatus
          /\ task' = [task EXCEPT ![Key(w)] = [@ EXCEPT !.status = s]]
      BY <1>c, <1>1, <1>2, <2>1 DEF Decide, Advance, Tasks, LifecycleStatus
    <3>2. worker' \in [Workers -> Works]
      BY <1>c, <1>1, <1>2 DEF Decide, Goto, Works
    <3> HIDE DEF s
    <3>3. [task[Key(w)] EXCEPT !.status = s] \in Tasks
      BY <1>1, <1>2, <2>1, <3>1 DEF Tasks
    <3> QED BY <1>1, <1>2, <2>1, <3>1, <3>2, <3>3
  <2>4. Bookkeeping
    BY <1>c, <1>1, <1>2, <2>1, <2>2 DEF Decide, Advance, Tasks, Bookkeeping,
       Settled, LifecycleStatus, routeStore, controlStore, rolloutTask
  <2>5. \A v \in Workers : worker'[v].pc # "idle" =>
          worker'[v].key \in Keys /\ task[worker'[v].key].status # "none"
    BY <1>c, <1>1, <1>3, <2>1 DEF Decide, Goto, Works
  <2> QED BY <2>3, <2>4, <2>5, <1>c, <1>4, BookkeepingType DEF Decide,
             rolloutTask
<1>d. ASSUME NEW seen \in Revisions \cup {None}, Probe(w, seen) PROVE TypeInv' /\ Bookkeeping
  <2>1. worker' \in [Workers -> Works]
    BY <1>d, <1>1, <1>2 DEF Probe, Works
  <2>2. Bookkeeping
    BY <1>d DEF Probe, Bookkeeping, routeStore, controlStore, rolloutTask,
       leases
  <2>3. \A v \in Workers : worker'[v].pc # "idle" =>
          worker'[v].key \in Keys /\ task[worker'[v].key].status # "none"
    BY <1>d, <1>1, <1>3 DEF Probe, Works
  <2> QED BY <2>1, <2>2, <2>3, <1>d, <1>1, <1>4, BookkeepingType DEF Probe,
             rolloutTask, leases
<1>e. CASE StartAttempt(w)
  <2>1. worker[w].pc # "idle" /\ task[Key(w)].status # "none"
    BY <1>e, <1>2 DEF StartAttempt, Attemptable
  <2>2. task' \in [Keys -> Tasks] /\ worker' \in [Workers -> Works]
    <3>1. /\ task[Key(w)] \in Tasks
          /\ OneMore(task[Key(w)].attempts) \in 0 .. AttemptBound
      BY <1>1, <1>2, <2>1, ReleaseAssumption DEF Tasks, OneMore
    <3>2. Attempted(Key(w)) \in LifecycleStatus \cup RollbackStatus
      BY DEF Attempted, LifecycleStatus, RollbackStatus
    <3>3. task' = [task EXCEPT ![Key(w)] = [task[Key(w)] EXCEPT
                     !.status = Attempted(Key(w)),
                     !.attempts = OneMore(task[Key(w)].attempts)]]
      BY <1>e, <1>1, <1>2, <2>1 DEF StartAttempt, Tasks
    <3>4. task' \in [Keys -> Tasks]
      BY <1>1, <1>2, <2>1, <3>1, <3>2, <3>3, TaskUpdate
    <3> QED BY <1>1, <1>e, <3>4 DEF StartAttempt, Goto, Works
  <2>3. Bookkeeping
    BY <1>e, <1>1, <2>1, <1>2 DEF StartAttempt, Attempted, Goto, Tasks,
       Bookkeeping, Settled, Fenced, Open, LifecycleStatus, routeStore,
       controlStore, rolloutTask
  <2> QED BY <2>2, <2>3, <1>e, <1>1, <2>1, <1>2, <1>3, <1>4, BookkeepingType
             DEF StartAttempt, Goto, Works, Key, rolloutTask
<1>f. CASE RecordApplied(w)
  <2>1. task' \in [Keys -> Tasks] /\ worker' \in [Workers -> Works]
    <3>1. Key(w) \in Keys /\ "verifying" \in LifecycleStatus
      BY <1>f, <1>2 DEF RecordApplied, LifecycleStatus
    <3>2. Advance(Key(w), "verifying") /\ Goto(w, "verify")
      BY <1>f DEF RecordApplied
    <3> QED BY <3>1, <3>2, AdvanceType, GotoType
  <2>2. Bookkeeping
    BY <1>f, <1>1, <1>2 DEF RecordApplied, Advance, Tasks, Bookkeeping,
       Settled, Fenced, Open, LifecycleStatus, routeStore, controlStore,
       rolloutTask
  <2> QED BY <2>1, <2>2, <1>f, <1>1, <1>2, <1>3, <1>4, BookkeepingType DEF
             RecordApplied, Goto, Works, Key, rolloutTask
<1>g. CASE Defer(w)
  <2>1. task' \in [Keys -> Tasks] /\ worker' \in [Workers -> Works]
    <3>1. Key(w) \in Keys /\ {"verifying", "needs_reconciliation"} \subseteq LifecycleStatus
      BY <1>g, <1>2 DEF Defer, LifecycleStatus
    <3>2. \/ Advance(Key(w), "verifying")
          \/ Advance(Key(w), "needs_reconciliation")
      BY <1>g DEF Defer
    <3>3. Goto(w, "done")
      BY <1>g DEF Defer
    <3> QED BY <3>1, <3>2, <3>3, AdvanceType, GotoType
  <2>2. Bookkeeping
    BY <1>g, <1>1, <1>2 DEF Defer, Advance, Tasks, Bookkeeping, Settled,
       Fenced, Open, LifecycleStatus, routeStore, controlStore, rolloutTask
  <2> QED BY <2>1, <2>2, <1>g, <1>1, <1>2, <1>3, <1>4, BookkeepingType DEF
             Defer, Goto, Works, Key, rolloutTask
<1>h. CASE Release(w)
  <2>1. task' \in [Keys -> Tasks] /\ worker' \in [Workers -> Works]
    BY <1>h, <1>1, <1>2 DEF Release, Tasks, Works, Idle
  <2>2. Bookkeeping
    BY <1>h, <1>1, <1>2 DEF Release, Tasks, Bookkeeping, routeStore,
       controlStore, rolloutTask
  <2>3. lapsed' \subseteq Keys /\ locked' \subseteq Jobs /\ held' = held
    BY <1>h, <1>4 DEF Release, rolloutTask
  <2>4. \A v \in Workers : worker'[v].pc # "idle" =>
          worker'[v].key \in Keys /\ task[worker'[v].key].status # "none"
    BY <1>h, <1>1, <1>3 DEF Release, Works, Idle
  <2> QED BY <2>1, <2>2, <2>3, <2>4, <1>4, BookkeepingType
<1>i. CASE Crash(w)
  <2>1. worker' \in [Workers -> Works]
    BY <1>i, <1>1 DEF Crash, Works, Idle
  <2>2. Bookkeeping
    BY <1>i DEF Crash, Bookkeeping, routeStore, controlStore, rolloutTask,
       leases
  <2>3. \A v \in Workers : worker'[v].pc # "idle" =>
          worker'[v].key \in Keys /\ task[worker'[v].key].status # "none"
    BY <1>i, <1>1, <1>3 DEF Crash, Works, Idle
  <2> QED BY <2>1, <2>2, <2>3, <1>i, <1>1, <1>4, BookkeepingType DEF Crash,
             rolloutTask, leases
<1> QED BY <1>a, <1>b, <1>c, <1>d, <1>e, <1>f, <1>g, <1>h, <1>i

\* TypeInv holds initially.
LEMMA TypeInit == Init => TypeInv
<1> SUFFICES ASSUME Init PROVE TypeInv
  OBVIOUS
<1> USE KeyFacts, NotNone, ReleaseAssumption
        DEF Init, NoRoute, NoControl, NoSpec, NoTask, Idle
<1>1. TypeOK
  BY DEF TypeOK
<1>2. TaskInv /\ Busy
  BY DEF TaskInv, Busy, Status
<1> QED BY <1>1, <1>2 DEF TypeInv

\* Specifications of created jobs.
Specs == [from : Revisions, gen : Nat, target : Revisions, approved : BOOLEAN]

\* TypeInv is inductive.
LEMMA TypeStep == TypeInv /\ [Next]_vars => TypeInv'
<1> SUFFICES ASSUME TypeInv, [Next]_vars PROVE TypeInv'
  OBVIOUS
<1> USE WorkTypes, KeyFacts, NotNone
<1>a. /\ TypeOK /\ TaskInv /\ Busy
      /\ task \in [Keys -> Tasks] /\ worker \in [Workers -> Works]
      /\ spec \in [Jobs -> Specs \cup {NoSpec}]
      /\ NoSpec \notin Specs
  BY DEF TypeInv, TypeOK, Specs, NoSpec
<1>b. \A v \in Workers : worker[v].pc # "idle" =>
        worker[v].key \in Keys /\ task[worker[v].key].status # "none"
  BY <1>a DEF Busy, Key, Status
<1>1. ASSUME NEW j \in Jobs, NEW from \in Revisions, NEW target \in Revisions,
             NEW approved \in BOOLEAN, CreateJob(j, from, target, approved)
      PROVE  TypeInv'
  <2>1. \A i \in Jobs : spec'[i] = IF i = j THEN spec'[j] ELSE spec[i]
    BY <1>1, <1>a DEF CreateJob
  <2>2. spec'[j] \in Specs
    BY <1>1, <1>a DEF CreateJob, TypeOK, Snapshots, Specs
  <2>3. spec' \in [Jobs -> Specs \cup {NoSpec}]
    BY <1>1, <1>a, <2>2 DEF CreateJob
  <2>4. task' \in [Keys -> Tasks] /\ task[Deploy(j)].status = "none"
        /\ task'[Deploy(j)].status = "registered"
        /\ \A k \in Keys \ {Deploy(j)} : task'[k] = task[k]
    BY <1>1, <1>a DEF CreateJob, Tasks, LifecycleStatus, Status
  <2>5. TypeOK'
    BY <1>1, <1>a, <2>3, <2>4 DEF CreateJob, TypeOK, routeStore, controlStore,
       rolloutTask, Specs, Tasks
  <2>6. TaskInv'
    BY <1>1, <1>a, <2>1, <2>2, <2>4 DEF CreateJob, TaskInv, Status,
       LifecycleStatus, routeStore, controlStore, rolloutTask
  <2>7. Busy'
    BY <1>1, <1>b, <2>4 DEF CreateJob, Busy, Key, Status
  <2> QED BY <2>5, <2>6, <2>7 DEF TypeInv
<1>2. ASSUME NEW j \in Jobs, BootstrapRoute(j) PROVE TypeInv'
  <2>1. TypeOK'
    BY <1>2, <1>a DEF BootstrapRoute, TypeOK, Specs, NoSpec, Snapshots,
       controlStore, rolloutTask, leases
  <2> QED BY <1>2, <1>a, <2>1 DEF BootstrapRoute, TypeInv, TaskInv, Busy,
             Status, Key, controlStore, leases
<1>3. ASSUME NEW j \in Jobs, ObserveHealth(j) PROVE TypeInv'
  <2>1. TypeOK'
    BY <1>3, <1>a DEF ObserveHealth, TypeOK, Snapshots, routeStore,
       controlStore, leases
  <2> QED BY <1>3, <1>a, <2>1 DEF ObserveHealth, TypeInv, TaskInv, Busy,
             Status, Key, controlStore, leases
<1>4. ASSUME NEW j \in Jobs, AcknowledgeBaseline(j) PROVE TypeInv'
  <2>1. spec[j] \in Specs
    BY <1>4, <1>a DEF AcknowledgeBaseline, NoSpec
  <2>2. TypeOK' /\ control'.rollback = None
    BY <1>4, <1>a, <2>1 DEF AcknowledgeBaseline, Baseline, StableAt, TypeOK,
       Specs, routeStore, leases
  <2> QED BY <1>4, <1>a, <2>2 DEF AcknowledgeBaseline, TypeInv, TaskInv, Busy,
             Status, Key, leases
<1>5. ASSUME NEW j \in Jobs, AcknowledgeCandidate(j) PROVE TypeInv'
  <2>1. spec[j] \in Specs
    BY <1>5, <1>a DEF AcknowledgeCandidate, VerifiedAction, TaskInv
  <2>2. TypeOK' /\ control'.rollback = None
    BY <1>5, <1>a, <2>1 DEF AcknowledgeCandidate, NotFrozen, NoControl,
       TypeOK, Specs, routeStore, leases
  <2> QED BY <1>5, <1>a, <2>2 DEF AcknowledgeCandidate, TypeInv, TaskInv,
             Busy, Status, Key, leases
<1>6. ASSUME NEW j \in Jobs, StabilizeCandidate(j) PROVE TypeInv'
  <2>1. route.gen \in Nat
    BY <1>6, <1>a DEF StabilizeCandidate, VerifiedAction, TypeOK, Snapshots
  <2>2. TypeOK' /\ control'.rollback = None
    <3>1. /\ control' = [control EXCEPT !.good = control.active]
          /\ control.active \in Revisions /\ control.rollback = None
          /\ control # NoControl
      BY <1>6, <1>a, <2>1 DEF StabilizeCandidate, NotFrozen, NoControl, TypeOK
    <3>2. /\ control' \in [active : Revisions, good : Revisions, gen : Nat,
                           rollback : Jobs \cup {None}]
          /\ control'.rollback = None
      BY <1>a, <3>1 DEF TypeOK
    <3> QED BY <1>6, <1>a, <2>1, <3>2 DEF StabilizeCandidate, TypeOK, routeStore, leases
  <2> QED BY <1>6, <1>a, <2>2 DEF StabilizeCandidate, TypeInv, TaskInv, Busy,
             Status, Key, leases
<1>7. ASSUME NEW j \in Jobs, Detect(j) PROVE TypeInv'
  <2>1. control # NoControl /\ control.good \in Revisions
    BY <1>7, <1>a DEF Detect, TypeOK, Specs, NoSpec, NoControl
  <2>2. /\ task' \in [Keys -> Tasks] /\ task'[Undo(j)].status = "detected"
        /\ task[Undo(j)].status = "none"
        /\ \A k \in Keys \ {Undo(j)} : task'[k] = task[k]
    <3>1. Undo(j) \in Keys /\ task[Undo(j)] \in Tasks
      BY <1>a
    <3>2. /\ task' = [task EXCEPT ![Undo(j)] = [task[Undo(j)] EXCEPT !.status = "detected"]]
          /\ task[Undo(j)].status = "none"
      BY <1>7 DEF Detect, Status
    <3>3. /\ [task[Undo(j)] EXCEPT !.status = "detected"] \in Tasks
          /\ [task[Undo(j)] EXCEPT !.status = "detected"].status = "detected"
      BY <3>1 DEF Tasks, RollbackStatus
    <3> QED BY <1>a, <3>1, <3>2, <3>3
  <2>G. \A i \in Jobs : goal'[i] = IF i = j THEN control.good ELSE goal[i]
    BY <1>7, <1>a DEF Detect, TypeOK
  <2>R. control'.rollback = j
    BY <1>7, <1>a, <2>1 DEF Detect, TypeOK
  <2>3. TypeOK'
    BY <1>7, <1>a, <2>1, <2>2 DEF Detect, TypeOK, Tasks, routeStore,
       rolloutTask
  <2>4. TaskInv'
    BY <1>7, <1>a, <2>1, <2>2, <2>G, <2>R DEF Detect, TaskInv, Status, Open
  <2>5. Busy'
    BY <1>7, <1>b, <2>2 DEF Detect, Busy, Key, Status
  <2> QED BY <2>3, <2>4, <2>5 DEF TypeInv
<1>8. ASSUME NEW w \in Workers, Apply(w) PROVE TypeInv'
  <2>1. worker' \in [Workers -> Works] /\ worker'[w].key = worker[w].key
        /\ \A v \in Workers \ {w} : worker'[v] = worker[v]
    BY <1>8, <1>a DEF Apply, Goto, Works
  <2>2. Busy'
    BY <1>8, <1>b, <2>1 DEF Apply, Busy, Key, Status, leases
  <2>3. Key(w) \in Keys /\ Status(Key(w)) # "none"
    BY <1>8, <1>a DEF Apply, Busy
  <2>4. Request(Key(w)).target \in Revisions
    BY <1>a, <2>3 DEF Request, TaskInv, TypeOK, Specs
  <2>5. ASSUME ~ UNCHANGED routeStore
        PROVE  /\ route' \in Snapshots
               /\ history' \subseteq Snapshots
               /\ actions' \in [Keys -> Snapshots \cup {NoRoute}]
    <3>1. /\ Current(Request(Key(w))) /\ route' = [rev |-> Request(Key(w)).target, gen |-> route.gen + 1]
          /\ history' = history \cup {route'}
          /\ actions' = [actions EXCEPT ![Key(w)] = route']
      BY <1>8, <2>5 DEF Apply
    <3>2. route.gen \in Nat
      <4>1. route.gen = Request(Key(w)).gen
        BY <3>1 DEF Current
      <4>2. spec[Key(w)[2]].gen \in Nat \/ spec[Key(w)[2]] = NoSpec
        BY <1>a, <2>3 DEF Specs
      <4>3. Key(w)[1] = "lifecycle" => spec[Key(w)[2]] # NoSpec
        BY <1>a, <2>3 DEF TaskInv
      <4> QED BY <4>1, <4>2, <4>3 DEF Request, NoSpec
    <3> QED BY <1>a, <2>3, <2>4, <3>1, <3>2 DEF TypeOK, Snapshots
  <2>6. TypeOK'
    BY <1>8, <1>a, <2>1, <2>5 DEF Apply, TypeOK, Works, routeStore,
       controlStore, rolloutTask, leases
  <2> QED BY <1>8, <1>a, <2>2, <2>6 DEF Apply, TypeInv, TaskInv, Status,
             controlStore, leases
<1>9. ASSUME NEW w \in Workers, Conclude(w) PROVE TypeInv'
  <2>1. worker' \in [Workers -> Works] /\ worker'[w].key = worker[w].key
        /\ \A v \in Workers \ {w} : worker'[v] = worker[v]
    <3>1. worker' = [worker EXCEPT ![w].pc = "done"]
      BY <1>9 DEF Conclude, Goto
    <3> QED BY <1>a, <3>1 DEF Works
  <2>2. worker[w].pc # "idle" /\ Key(w) \in Keys /\ Status(Key(w)) # "none"
    BY <1>9, <1>a DEF Conclude, Busy
  <2>3. /\ task' \in [Keys -> Tasks]
        /\ task'[Key(w)].status = Settled(Key(w))
        /\ \A k \in Keys \ {Key(w)} : task'[k] = task[k]
    <3>1. task' = [task EXCEPT ![Key(w)].status = Settled(Key(w))]
      BY <1>9 DEF Conclude, Advance
    <3>2. Settled(Key(w)) \in LifecycleStatus \cup RollbackStatus
      BY DEF Settled, LifecycleStatus, RollbackStatus
    <3> QED BY <1>a, <2>2, <3>1, <3>2 DEF Tasks
  <2>4. Busy'
    BY <1>9, <1>b, <2>1, <2>2, <2>3 DEF Conclude, Busy, Key, Status, Settled
  <2>5. TaskInv'
    <3>1. \A j \in Jobs : control'.rollback = j => control.rollback = j
      BY <1>9 DEF Conclude, Restored
    <3> QED BY <1>9, <1>a, <2>2, <2>3, <3>1 DEF Conclude, TaskInv, Status,
               Settled, Open, LifecycleStatus
  <2>6. Key(w)[1] = "rollback" =>
          /\ goal[Key(w)[2]] \in Revisions
          /\ control # NoControl
    BY <1>9, <1>a, <2>2 DEF Conclude, Fenced, TaskInv, NoControl
  <2>7. TypeOK'
    BY <1>9, <1>a, <2>1, <2>3, <2>6 DEF Conclude, Restored, TypeOK, Tasks,
       Works, routeStore, rolloutTask
  <2> QED BY <2>4, <2>5, <2>7 DEF TypeInv
<1>10. ASSUME NEW k \in Keys, Lapse(k) PROVE TypeInv'
  BY <1>10, <1>a DEF Lapse, TypeInv, TypeOK, TaskInv, Busy, Status, Key,
     routeStore, controlStore, rolloutTask
<1>11. ASSUME UNCHANGED vars PROVE TypeInv'
  BY <1>11, <1>a DEF vars, TypeInv, TypeOK, TaskInv, Busy, Status, Key,
     routeStore, controlStore, rolloutTask, leases
<1> QED
  BY <1>1, <1>2, <1>3, <1>4, <1>5, <1>6, <1>7, <1>8, <1>9, <1>10, <1>11,
     WorkerBookkeeping DEF Next, RolloutStep, WorkerStep

\* Every store, task table and worker record keeps its type, for any number of
\* jobs, revisions and workers and for every kind of adapter and pipeline: no
\* guard of a handler lets a value through that the columns could not hold.
THEOREM TypeCorrect == Spec => []TypeOK
<1>1. TypeInv => TypeOK
  BY DEF TypeInv
<1> QED BY <1>1, TypeInit, TypeStep, PTL DEF Spec

\* The statuses before a first attempt.
Untried == {"none", "registered", "evaluated", "detected"}

\* Without idempotent replay an untried task has no attempt and no task has two.
AttemptInv ==
  /\ TypeInv
  /\ ~Idempotent =>
       \A k \in Keys : /\ Status(k) \in Untried => task[k].attempts = 0
                       /\ task[k].attempts < 2

\* Only StartAttempt counts an attempt, and nothing makes a task startable
\* again.
LEMMA AttemptsKept ==
  ASSUME TypeInv, [Next]_vars, ~ \E w \in Workers : StartAttempt(w),
         NEW k \in Keys
  PROVE  /\ task'[k].attempts = task[k].attempts
         /\ Status(k)' \in Untried => Status(k) \in Untried
<1> USE KeyFacts, WorkTypes DEF Status, TypeInv, Untried
<1>1. ASSUME UNCHANGED task
      PROVE  /\ task'[k].attempts = task[k].attempts
             /\ Status(k)' \in Untried => Status(k) \in Untried
  BY <1>1
<1>2. ASSUME NEW j \in Jobs, RolloutStep(j)
      PROVE  /\ task'[k].attempts = task[k].attempts
             /\ Status(k)' \in Untried => Status(k) \in Untried
  <2>1. CASE UNCHANGED task
    BY <1>1, <2>1
  <2>2. CASE ~ UNCHANGED task
    <3>1. \/ /\ task' = [task EXCEPT ![Deploy(j)].status = "registered"]
             /\ task[Deploy(j)].status = "none"
          \/ /\ task' = [task EXCEPT ![Undo(j)].status = "detected"]
             /\ task[Undo(j)].status = "none"
      BY <1>2, <2>2 DEF RolloutStep, CreateJob, BootstrapRoute, ObserveHealth,
         AcknowledgeBaseline, AcknowledgeCandidate, StabilizeCandidate, Detect,
         leases
    <3> QED BY <3>1 DEF Tasks
  <2> QED BY <2>1, <2>2
<1>3. ASSUME NEW w \in Workers, WorkerStep(w)
      PROVE  /\ task'[k].attempts = task[k].attempts
             /\ Status(k)' \in Untried => Status(k) \in Untried
  <2>1. CASE UNCHANGED task
    BY <1>1, <2>1
  <2>2. CASE \E i \in Keys : TakeLease(w, i)
    BY <2>2 DEF TakeLease, Tasks
  <2>3. CASE Release(w)
    BY <2>3 DEF Release, Tasks
  <2>4. CASE Decide(w)
    <3>1. worker[w].pc # "idle" /\ task[Key(w)].status = "registered"
          /\ \E s \in {"evaluated", "rejected"} :
               task' = [task EXCEPT ![Key(w)].status = s]
      BY <2>4 DEF Decide, Advance
    <3> QED BY <3>1 DEF Tasks
  <2>5. CASE RecordApplied(w) \/ Conclude(w) \/ Defer(w)
    <3>1. PICK s \in {"verifying", "promoted", "restored", "needs_reconciliation"} :
            task' = [task EXCEPT ![Key(w)].status = s]
      BY <2>5 DEF RecordApplied, Conclude, Defer, Advance, Settled
    <3> QED BY <3>1 DEF Tasks
  <2>6. \/ UNCHANGED task
        \/ \E i \in Keys : TakeLease(w, i)
        \/ Release(w) \/ Decide(w) \/ RecordApplied(w) \/ Conclude(w) \/ Defer(w)
    BY <1>3 DEF WorkerStep, ClaimJob, ClaimRollback, Probe, Apply, Crash,
       leases
  <2> QED BY <2>1, <2>2, <2>3, <2>4, <2>5, <2>6
<1>4. (\E i \in Keys : Lapse(i)) \/ UNCHANGED vars => UNCHANGED task
  BY DEF Lapse, vars, leases
<1> QED BY <1>1, <1>2, <1>3, <1>4 DEF Next

\* An adapter that does not promise idempotent replay is asked once for an
\* operation: the attempt is durable before the call (start attempt in
\* LifecycleService.run and RollbackController._run), and no status that allows
\* a first attempt can be reached again.
THEOREM ReplayCorrect == Spec => []NoBlindReplay
<1>1. Init => AttemptInv
  BY TypeInit, KeyFacts DEF Init, AttemptInv, NoTask
<1>2. ASSUME AttemptInv, [Next]_vars PROVE AttemptInv'
  <2>1. TypeInv /\ TypeInv'
    BY <1>2, TypeStep DEF AttemptInv
  <2>2. ASSUME ~Idempotent, NEW k \in Keys
        PROVE  /\ Status(k)' \in Untried => task'[k].attempts = 0
               /\ task'[k].attempts < 2
    <3>1. CASE \E w \in Workers : StartAttempt(w) /\ Key(w) = k
      <4>1. PICK w \in Workers : StartAttempt(w) /\ Key(w) = k
        BY <3>1
      <4>2. task[k].status \in {"evaluated", "detected"}
        BY <2>2, <4>1 DEF StartAttempt, Attemptable, Startable, Status
      <4>3. task[k].attempts = 0
        BY <1>2, <2>2, <4>2 DEF AttemptInv, Untried, Status
      <4>4. /\ task'[k].status = Attempted(k)
            /\ task'[k].attempts = OneMore(task[k].attempts)
        BY <2>1, <2>2, <4>1, WorkTypes DEF StartAttempt, TypeInv, Tasks
      <4> QED BY <4>3, <4>4 DEF OneMore, Attempted, Status, Untried
    <3>2. CASE \E w \in Workers : StartAttempt(w) /\ Key(w) # k
      <4>1. PICK w \in Workers : StartAttempt(w) /\ Key(w) # k
        BY <3>2
      <4>2. task'[k] = task[k]
        BY <2>1, <2>2, <4>1, WorkTypes DEF StartAttempt, TypeInv
      <4> QED BY <1>2, <2>2, <4>2 DEF AttemptInv, Status
    <3>3. CASE ~ \E w \in Workers : StartAttempt(w)
      BY <1>2, <2>1, <2>2, <3>3, AttemptsKept DEF AttemptInv
    <3> QED BY <3>1, <3>2, <3>3
  <2> QED BY <2>1, <2>2 DEF AttemptInv
<1>3. AttemptInv => NoBlindReplay
  BY DEF AttemptInv, NoBlindReplay
<1> QED BY <1>1, <1>2, <1>3, PTL DEF Spec

-----------------------------------------------------------------------------
(* Releases of the producer pipeline *)

\* Before the first cutover, and where the current route comes from.
RouteInv ==
  /\ route = NoRoute => history = {}
  /\ route # NoRoute => route \in history
  /\ control = NoControl =>
       /\ prepared = {}
       /\ \A k \in Keys : actions[k] = NoRoute
       /\ \A j \in Jobs : Status(Undo(j)) = "none"

\* A job changes the revision, and no two jobs have the same candidate.
SpecInv ==
  /\ \A j \in Jobs : spec[j] # NoSpec => spec[j].from # spec[j].target
  /\ \A i, j \in Jobs :
       i # j /\ spec[i] # NoSpec => spec[i].target # spec[j].target

\* A candidate is seen in traffic, or as a baseline, only once its job has been
\* applied.
CandidateInv ==
  /\ \A h \in history : \E i \in Jobs : h.rev \in {spec[i].from, spec[i].target}
  /\ \A h \in history, j \in Jobs :
       h.rev = spec[j].target => actions[Deploy(j)] # NoRoute
  /\ \A i, j \in Jobs :
       spec[j] # NoSpec /\ spec[i].from = spec[j].target =>
         actions[Deploy(j)] # NoRoute

\* An action that was applied installed what its request names.
ActionInv ==
  \A k \in Keys : actions[k] # NoRoute =>
    /\ actions[k] \in history
    /\ actions[k].rev = Request(k).target
    /\ actions[k].gen = Request(k).gen + 1
    /\ actions[k].gen <= route.gen
    /\ Status(k) # "none"

\* The controller is level with the traffic or one cutover behind; behind and
\* not owned, it is stable.
ControlInv ==
  control # NoControl =>
    /\ route # NoRoute
    /\ [rev |-> control.active, gen |-> control.gen] \in history
    /\ route.gen \in {control.gen, control.gen + 1}
    /\ route.gen = control.gen => route.rev = control.active
    /\ route.gen = control.gen + 1 /\ control.rollback = None =>
         control.active = control.good
    /\ \/ [rev |-> control.good, gen |-> 0] \in history
       \/ \E p \in probation : [rev |-> control.good, gen |-> p.gen] \in history

\* The operation that owns the deployment is open, fits the deployment row, and
\* is the only one that can have moved the traffic since.
OwnerInv ==
  \A j \in Jobs : control.rollback = j =>
    /\ Status(Undo(j)) \in Open
    /\ control.gen = spec[j].gen + 1
    /\ control.active = spec[j].target
    /\ control.good = goal[j]
    /\ control.good # control.active
    /\ route.gen = control.gen + 1 => actions[Undo(j)] = route

\* Every other rollback is closed, and no rolled-back candidate is trusted.
UndoInv ==
  \A j \in Jobs : Status(Undo(j)) # "none" =>
    /\ spec[j] # NoSpec
    /\ control.good # spec[j].target
    /\ control.rollback = j \/ Status(Undo(j)) = "restored"

\* A prepared job that can still be applied finds a stable controller.
PreparedInv ==
  \A j \in prepared :
    /\ spec[j] # NoSpec
    /\ spec[j].gen <= route.gen
    /\ actions[Deploy(j)] = NoRoute
         /\ route = [rev |-> spec[j].from, gen |-> spec[j].gen] =>
       StableAt(control, spec[j].from, spec[j].gen)

\* A worker about to deploy was prepared for, and one that has seen the revision
\* it wants has seen its own effect.
Knows(w) ==
  worker[w].pc # "idle" =>
    /\ worker[w].pc = "apply" /\ Key(w)[1] = "lifecycle" =>
         Key(w)[2] \in prepared
    /\ worker[w].seen # None /\ Verifies(w) => actions[Key(w)] # NoRoute

WorkerInv == \A w \in Workers : Knows(w)

\* What the stores guarantee together.
Core == /\ RouteInv
        /\ SpecInv
        /\ CandidateInv
        /\ ActionInv
        /\ ControlInv
        /\ OwnerInv
        /\ UndoInv
        /\ PreparedInv
        /\ SettledByItsOwnAction

\* The typing facts the lemmas below use most.
LEMMA TypeFacts ==
  TypeInv =>
    /\ TypeOK /\ TaskInv
    /\ spec \in [Jobs -> Specs \cup {NoSpec}]
    /\ route \in Snapshots \cup {NoRoute}
    /\ NoSpec \notin Specs
    /\ NoRoute \notin Snapshots
    /\ actions \in [Keys -> Snapshots \cup {NoRoute}]
    /\ history \subseteq Snapshots
  BY DEF TypeInv, TypeOK, Specs, NoSpec, Snapshots, NoRoute

\* A step that only keeps books preserves the store invariant.
LEMMA CoreBookkeeping == TypeInv /\ Core /\ Bookkeeping => Core'
<1> SUFFICES ASSUME TypeInv, Core, Bookkeeping PROVE Core'
  OBVIOUS
<1> USE KeyFacts, WorkTypes, NotNone DEF Core
<1>1. \A k \in Keys : (Status(k) = "none")' <=> Status(k) = "none"
  BY DEF Bookkeeping, Status
<1>2. RouteInv'
  BY <1>1 DEF Bookkeeping, RouteInv
<1>3. SpecInv' /\ CandidateInv' /\ ControlInv' /\ PreparedInv'
  BY DEF Bookkeeping, SpecInv, CandidateInv, ControlInv, PreparedInv, StableAt
<1>4. ActionInv'
  BY <1>1 DEF Bookkeeping, ActionInv, Request
<1>5. OwnerInv'
  BY DEF Bookkeeping, OwnerInv, Status
<1>6. UndoInv'
  BY <1>1 DEF Bookkeeping, UndoInv, Status
<1>7. SettledByItsOwnAction'
  BY DEF Bookkeeping, SettledByItsOwnAction, Status, Settled
<1> QED BY <1>2, <1>3, <1>4, <1>5, <1>6, <1>7

\* Registry.create_job: the fresh candidate has not been seen anywhere.
LEMMA CoreCreate ==
  ASSUME ProducerOnly, TypeInv, TypeInv', Core, NEW j \in Jobs,
         NEW from \in Revisions, NEW target \in Revisions,
         NEW approved \in BOOLEAN, CreateJob(j, from, target, approved)
  PROVE  Core'
<1> USE KeyFacts, TypeFacts, NotNone DEF Core, Status
<1>1. /\ UNCHANGED <<route, history, actions, control, probation, goal, prepared>>
      /\ spec'[j].from = from /\ spec'[j].target = target
      /\ \A i \in Jobs \ {j} : spec'[i] = spec[i]
      /\ from # target
      /\ spec[j] = NoSpec
      /\ spec'[j] # NoSpec
      /\ \A i \in Jobs \ {j} : spec[i].from # target /\ spec[i].target # target
      /\ from = route.rev \/ \A i \in Jobs : from # spec[i].target
  BY DEF CreateJob, routeStore, controlStore, rolloutTask, Fresh, TaskInv,
     NoSpec
<1>2. /\ \A k \in Keys \ {Deploy(j)} : task'[k].status = task[k].status
      /\ task[Deploy(j)].status = "none"
      /\ task'[Deploy(j)].status = "registered"
  BY DEF CreateJob, TypeOK
<1>3. RouteInv'
  BY <1>1, <1>2 DEF RouteInv
<1>4. SpecInv'
  BY <1>1 DEF SpecInv
<1>5. CandidateInv'
  <2>1. \A h \in history : \E i \in Jobs \ {j} : h.rev \in {spec[i].from, spec[i].target}
    BY <1>1 DEF CandidateInv, Snapshots, NoSpec
  <2>2. \A h \in history : h.rev # target
    BY <1>1, <2>1
  <2>3. \A i \in Jobs : from = spec[i].target => actions[Deploy(i)] # NoRoute
    BY <1>1 DEF RouteInv, CandidateInv, NoRoute
  <2>4. (\A h \in history : \E i \in Jobs : h.rev \in {spec[i].from, spec[i].target})'
    BY <1>1, <2>1
  <2>5. (\A h \in history, i \in Jobs : h.rev = spec[i].target => actions[Deploy(i)] # NoRoute)'
    BY <1>1, <2>2 DEF CandidateInv
  <2>6. (\A i, k \in Jobs : spec[k] # NoSpec /\ spec[i].from = spec[k].target =>
           actions[Deploy(k)] # NoRoute)'
    BY <1>1, <2>3 DEF CandidateInv
  <2> QED BY <2>4, <2>5, <2>6 DEF CandidateInv
<1>6. Status(Undo(j)) = "none"
  BY <1>1 DEF UndoInv
<1>7. ActionInv'
  <2>1. actions[Deploy(j)] = NoRoute /\ actions[Undo(j)] = NoRoute
    BY <1>2, <1>6 DEF ActionInv
  <2>2. \A k \in Keys : actions[k] # NoRoute => k[2] # j
    BY <2>1
  <2> QED BY <1>1, <1>2, <2>2 DEF ActionInv, Request
<1>8. ControlInv'
  BY <1>1 DEF ControlInv
<1>9. OwnerInv'
  BY <1>1, <1>2, <1>6 DEF OwnerInv, TaskInv
<1>10. UndoInv'
  BY <1>1, <1>2, <1>6 DEF UndoInv
<1>11. PreparedInv'
  BY <1>1 DEF PreparedInv, StableAt, TypeOK
<1>12. SettledByItsOwnAction'
  BY <1>1, <1>2 DEF SettledByItsOwnAction, Settled
<1> QED BY <1>3, <1>4, <1>5, <1>7, <1>8, <1>9, <1>10, <1>11, <1>12

\* prepare_release seeding the route: everything else is still empty.
LEMMA CoreBootstrap ==
  ASSUME TypeInv, TypeInv', Core, NEW j \in Jobs, BootstrapRoute(j)
  PROVE  Core'
<1> USE KeyFacts, TypeFacts, NotNone DEF Core, Status
<1>1. /\ UNCHANGED <<actions, control, probation, goal, spec, task, prepared>>
      /\ route = NoRoute
      /\ route' = [rev |-> spec[j].from, gen |-> 0]
      /\ history' = {route'}
      /\ spec[j] # NoSpec
  BY DEF BootstrapRoute, controlStore, rolloutTask, leases, RouteInv, NoSpec
<1>2. control = NoControl
  BY <1>1 DEF ControlInv
<1>3. RouteInv'
  <2>1. route' # NoRoute
    BY <1>1 DEF NoRoute
  <2> QED BY <1>1, <1>2, <2>1 DEF RouteInv
<1>4. SpecInv'
  BY <1>1 DEF SpecInv
<1>5. CandidateInv'
  <2>1. \A i \in Jobs : spec[j].from = spec[i].target => actions[Deploy(i)] # NoRoute
    BY <1>1 DEF CandidateInv, Specs, NoSpec
  <2> QED BY <1>1, <2>1 DEF CandidateInv
<1>6. ActionInv' /\ ControlInv' /\ OwnerInv' /\ UndoInv' /\ PreparedInv'
  BY <1>1, <1>2 DEF RouteInv, ActionInv, ControlInv, OwnerInv, UndoInv,
     PreparedInv, TaskInv
<1>7. SettledByItsOwnAction'
  BY <1>1 DEF SettledByItsOwnAction, Settled
<1> QED BY <1>3, <1>4, <1>5, <1>6, <1>7

\* acknowledge_baseline leaves the controller stable on the traffic.
LEMMA CoreBaseline ==
  ASSUME TypeInv, TypeInv', Core, NEW j \in Jobs, AcknowledgeBaseline(j)
  PROVE  Core'
<1> USE KeyFacts, TypeFacts, NotNone DEF Core, Status
<1>1. /\ UNCHANGED <<route, history, actions, probation, goal, spec, task>>
      /\ prepared' = prepared \cup {j}
      /\ spec[j] # NoSpec
      /\ route = [rev |-> spec[j].from, gen |-> spec[j].gen]
      /\ route \in history
      /\ control = NoControl => spec[j].gen = 0
      /\ control' = [active |-> route.rev, good |-> route.rev,
                     gen |-> route.gen, rollback |-> None]
      /\ control # NoControl => control' = control
  BY DEF AcknowledgeBaseline, Baseline, StableAt, routeStore, leases,
     RouteInv, NoSpec, NoRoute, Specs
<1>2. SpecInv' /\ CandidateInv' /\ ActionInv'
  BY <1>1 DEF SpecInv, CandidateInv, ActionInv, Request
<1>3. RouteInv'
  BY <1>1 DEF RouteInv, NoControl
<1>4. ControlInv'
  BY <1>1 DEF ControlInv, Specs, NoRoute, Snapshots
<1>5. OwnerInv' /\ UndoInv'
  BY <1>1 DEF OwnerInv, UndoInv, RouteInv
<1>6. PreparedInv'
  <2>1. ASSUME NEW i \in prepared
        PROVE  /\ spec[i] # NoSpec /\ spec[i].gen <= route.gen
               /\ control' = control
    BY <1>1, <2>1 DEF PreparedInv, RouteInv
  <2>2. spec[j].gen <= route.gen
    BY <1>1 DEF Specs
  <2>3. StableAt(control', route.rev, route.gen)
    BY <1>1 DEF StableAt
  <2> QED BY <1>1, <2>1, <2>2, <2>3 DEF PreparedInv
<1>7. SettledByItsOwnAction'
  BY <1>1 DEF SettledByItsOwnAction, Settled
<1> QED BY <1>2, <1>3, <1>4, <1>5, <1>6, <1>7

\* acknowledge_candidate follows the cutover of its own job; no prepared job
\* can still be applied at that generation.
LEMMA CoreAcknowledge ==
  ASSUME TypeInv, TypeInv', Core, NEW j \in Jobs, AcknowledgeCandidate(j)
  PROVE  Core'
<1> USE KeyFacts, TypeFacts, NotNone DEF Core, Status
<1>1. CASE UNCHANGED control
  <2>1. UNCHANGED <<route, history, actions, probation, goal, spec, task,
                    prepared, control>>
    BY <1>1 DEF AcknowledgeCandidate, routeStore, leases
  <2> QED BY <2>1 DEF RouteInv, SpecInv, CandidateInv, ActionInv, Request,
       ControlInv, OwnerInv, UndoInv, PreparedInv, StableAt, SettledByItsOwnAction, Settled
<1>2. CASE ~ UNCHANGED control
  <2>1. /\ UNCHANGED <<route, history, actions, probation, goal, spec, task, prepared>>
        /\ actions[Deploy(j)] = route /\ route # NoRoute
        /\ control.rollback = None
        /\ control.gen = spec[j].gen
        /\ control.active = spec[j].from
        /\ control' = [active |-> spec[j].target, good |-> control.good,
                       gen |-> control.gen + 1, rollback |-> None]
    BY <1>2 DEF AcknowledgeCandidate, VerifiedAction, NotFrozen, routeStore,
       leases
  <2>2. /\ spec[j] \in Specs
        /\ route.rev = spec[j].target
        /\ route.gen = spec[j].gen + 1
        /\ route \in history
    BY <2>1 DEF ActionInv, TaskInv, RouteInv, Request
  <2>3. control # NoControl /\ control' # NoControl
    BY <2>1, <2>2 DEF NoControl, Specs
  <2>4. SpecInv' /\ CandidateInv' /\ ActionInv' /\ RouteInv'
    BY <2>1, <2>3 DEF SpecInv, CandidateInv, ActionInv, RouteInv, Request
  <2>5. ControlInv'
    BY <2>1, <2>2, <2>3 DEF ControlInv, Snapshots, Specs
  <2>6. OwnerInv' /\ UndoInv'
    BY <2>1 DEF OwnerInv, UndoInv
  <2>7. PreparedInv'
    <3>1. ASSUME NEW i \in prepared, actions[Deploy(i)] = NoRoute,
                 route = [rev |-> spec[i].from, gen |-> spec[i].gen]
          PROVE  FALSE
      BY <2>1, <2>2, <3>1 DEF PreparedInv, StableAt, Specs
    <3> QED BY <2>1, <3>1 DEF PreparedInv
  <2>8. SettledByItsOwnAction'
    BY <2>1 DEF SettledByItsOwnAction, Settled
  <2> QED BY <2>4, <2>5, <2>6, <2>7, <2>8
<1> QED BY <1>1, <1>2

\* stabilize_candidate trusts the traffic, and no rollback ever named it.
LEMMA CoreStabilize ==
  ASSUME TypeInv, TypeInv', Core, NEW j \in Jobs, StabilizeCandidate(j)
  PROVE  Core'
<1> USE KeyFacts, TypeFacts, NotNone DEF Core, Status
<1>1. /\ UNCHANGED <<route, history, actions, goal, spec, task, prepared>>
      /\ actions[Deploy(j)] = route /\ route # NoRoute
      /\ control.rollback = None
      /\ control.gen = route.gen
      /\ control.active = spec[j].target
      /\ probation' = probation \cup {[gen |-> route.gen, job |-> j]}
      /\ control' = [control EXCEPT !.good = control.active]
  BY DEF StabilizeCandidate, VerifiedAction, NotFrozen, routeStore, leases
<1>2. /\ spec[j] \in Specs
      /\ route.rev = spec[j].target
      /\ route.gen = spec[j].gen + 1
      /\ route \in history /\ route.gen \in Nat
  BY <1>1 DEF ActionInv, TaskInv, RouteInv, Request, Snapshots
<1>3. /\ control # NoControl
      /\ control' = [active |-> spec[j].target, good |-> spec[j].target,
                     gen |-> route.gen, rollback |-> None]
  <2>1. control \in [active : Revisions, good : Revisions, gen : Nat,
                     rollback : Jobs \cup {None}]
    BY <1>1, <1>2 DEF NoControl, TypeOK
  <2>2. control # NoControl
    BY <2>1 DEF NoControl
  <2> QED BY <1>1, <2>1, <2>2
<1>4. SpecInv' /\ CandidateInv' /\ ActionInv' /\ RouteInv'
  BY <1>1, <1>2, <1>3 DEF SpecInv, CandidateInv, ActionInv, RouteInv, Request,
     NoControl
<1>5. ControlInv'
  <2>1. [rev |-> spec[j].target, gen |-> route.gen] = route
    BY <1>2 DEF Snapshots
  <2>2. [gen |-> route.gen, job |-> j] \in probation'
    BY <1>1
  <2>3. \E p \in probation' : [rev |-> control'.good, gen |-> p.gen] \in history
    BY <1>2, <1>3, <2>1, <2>2
  <2> QED BY <1>1, <1>2, <1>3, <2>1, <2>3 DEF ControlInv
<1>6. OwnerInv'
  BY <1>3 DEF OwnerInv
<1>7. UndoInv'
  <2>1. Status(Undo(j)) = "none"
    <3> SUFFICES ASSUME Status(Undo(j)) # "none" PROVE FALSE
      OBVIOUS
    <3>1. Status(Undo(j)) = "restored"
      BY <1>1 DEF UndoInv
    <3>2. actions[Undo(j)] # NoRoute
      BY <3>1 DEF SettledByItsOwnAction, Settled
    <3>3. actions[Undo(j)].gen = spec[j].gen + 2 /\ actions[Undo(j)].gen <= route.gen
      BY <1>2, <3>2 DEF ActionInv, Request, Specs
    <3> QED BY <1>2, <3>3 DEF Specs
  <2> QED BY <1>1, <1>2, <1>3, <2>1 DEF UndoInv, SpecInv
<1>8. PreparedInv'
  <2>1. ASSUME NEW i \in prepared, StableAt(control, spec[i].from, spec[i].gen)
        PROVE  control' = control
    BY <1>1, <1>3, <2>1 DEF StableAt
  <2> QED BY <1>1, <2>1 DEF PreparedInv
<1>9. SettledByItsOwnAction'
  BY <1>1 DEF SettledByItsOwnAction, Settled
<1> QED BY <1>4, <1>5, <1>6, <1>7, <1>8, <1>9

\* detect fires only while the controller is level with the traffic and not
\* stable, so no prepared job can be applied either.
LEMMA CoreDetect ==
  ASSUME TypeInv, TypeInv', Core, NEW j \in Jobs, Detect(j)
  PROVE  Core'
<1> USE KeyFacts, TypeFacts, NotNone DEF Core, Status
<1>1. /\ UNCHANGED <<route, history, actions, probation, spec, prepared>>
      /\ task[Undo(j)].status = "none"
      /\ control.rollback = None
      /\ control.gen = spec[j].gen + 1
      /\ control.active = spec[j].target
      /\ control.active # control.good
      /\ goal' = [goal EXCEPT ![j] = control.good]
      /\ task' = [task EXCEPT ![Undo(j)].status = "detected"]
      /\ control' = [control EXCEPT !.rollback = j]
  BY DEF Detect, NotFrozen, routeStore, rolloutTask
<1>2. control # NoControl /\ spec[j] \in Specs
  BY <1>1 DEF NoControl, NoSpec, Specs, TypeOK
<1>3. /\ control'.active = control.active /\ control'.good = control.good
      /\ control'.gen = control.gen /\ control'.rollback = j
      /\ control' # NoControl
  BY <1>1, <1>2 DEF TypeOK, NoControl
<1>4. /\ task'[Undo(j)].status = "detected"
      /\ \A k \in Keys \ {Undo(j)} : task'[k].status = task[k].status
      /\ goal'[j] = control.good
      /\ \A i \in Jobs \ {j} : goal'[i] = goal[i]
  BY <1>1 DEF TypeOK
<1>5. RouteInv' /\ SpecInv' /\ CandidateInv'
  BY <1>1, <1>3 DEF RouteInv, SpecInv, CandidateInv
<1>6. ActionInv'
  <2>1. actions[Undo(j)] = NoRoute
    BY <1>1 DEF ActionInv
  <2>2. \A k \in Keys : actions[k] # NoRoute =>
          k # Undo(j) /\ (k[1] = "lifecycle" \/ k[2] # j)
    BY <2>1
  <2> QED BY <1>1, <1>4, <2>2 DEF ActionInv, Request
<1>7. control.gen = route.gen
  BY <1>1, <1>2 DEF ControlInv
<1>8. ControlInv'
  BY <1>1, <1>2, <1>3, <1>7 DEF ControlInv, Specs
<1>9. OwnerInv'
  BY <1>1, <1>3, <1>4, <1>7, <1>2 DEF OwnerInv, Open, Specs
<1>10. UndoInv'
  BY <1>1, <1>2, <1>3, <1>4 DEF UndoInv
<1>11. PreparedInv'
  BY <1>1 DEF PreparedInv, StableAt
<1>12. SettledByItsOwnAction'
  BY <1>1, <1>4 DEF SettledByItsOwnAction, Settled
<1> QED BY <1>5, <1>6, <1>8, <1>9, <1>10, <1>11, <1>12

\* The situation in which a first apply can succeed: the controller is level
\* with the traffic, and either nobody owns the deployment and the trusted
\* revision has the traffic, or the rollback that owns it restores the trusted
\* revision.
LEMMA Deployable ==
  ASSUME TypeInv, Core, WorkerInv, NEW w \in Workers, Apply(w),
         actions[Key(w)] = NoRoute
  PROVE  LET k == Key(w)
             j == k[2] IN
         /\ k \in Keys
         /\ j \in Jobs
         /\ spec[j] \in Specs
         /\ control # NoControl
         /\ control.gen = route.gen
         /\ control.active = route.rev
         /\ Request(k).target \in Revisions \ {route.rev}
         /\ \/ /\ k = Deploy(j)
               /\ control.rollback = None
               /\ control.good = route.rev
               /\ Request(k).target = spec[j].target
            \/ /\ k = Undo(j)
               /\ control.rollback = j
               /\ Request(k).target = control.good
<1> DEFINE k == Key(w)
           j == k[2]
<1> USE KeyFacts, TypeFacts, NotNone DEF Core, Status
<1>1. worker[w].pc = "apply" /\ Current(Request(k))
  BY DEF Apply
<1>2. k \in Keys /\ Status(k) # "none" /\ j \in Jobs
  BY <1>1 DEF TypeInv, Busy
<1>3. CASE k = Deploy(j)
  <2>1. j \in prepared /\ spec[j] \in Specs
    BY <1>1, <1>2, <1>3 DEF WorkerInv, Knows, PreparedInv
  <2>2. route = [rev |-> spec[j].from, gen |-> spec[j].gen]
    BY <1>1, <1>2, <1>3 DEF Current, Request
  <2>3. StableAt(control, spec[j].from, spec[j].gen)
    BY <1>3, <2>1, <2>2 DEF PreparedInv
  <2>4. Request(k).target = spec[j].target
    BY <1>2, <1>3 DEF Request
  <2>5. control # NoControl
    BY <2>1, <2>3 DEF StableAt, NoControl, Specs
  <2> QED BY <1>2, <1>3, <2>1, <2>2, <2>3, <2>4, <2>5 DEF StableAt, SpecInv,
             Specs
<1>4. CASE k = Undo(j)
  <2>1. control.rollback = j /\ spec[j] \in Specs
    BY <1>2, <1>4 DEF UndoInv, SettledByItsOwnAction, Settled
  <2>2. route = [rev |-> spec[j].target, gen |-> spec[j].gen + 1]
    BY <1>1, <1>2, <1>4 DEF Current, Request
  <2>3. Request(k).target = goal[j]
    BY <1>2, <1>4 DEF Request
  <2>4. control # NoControl
    BY <1>2, <2>1 DEF NoControl
  <2>5. goal[j] \in Revisions
    BY <1>2, <1>4 DEF TaskInv
  <2> QED BY <1>2, <1>4, <2>1, <2>2, <2>3, <2>4, <2>5 DEF OwnerInv
<1> QED BY <1>2, <1>3, <1>4

\* A cutover preserves the store invariant.
LEMMA CoreApply ==
  ASSUME TypeInv, TypeInv', Core, WorkerInv, NEW w \in Workers, Apply(w)
  PROVE  Core'
<1> DEFINE k == Key(w)
           j == k[2]
           q == Request(k)
<1> USE KeyFacts, TypeFacts, NotNone DEF Core, Status
<1>1. UNCHANGED <<control, probation, goal, spec, task, prepared>>
  BY DEF Apply, controlStore, rolloutTask, leases
<1>2. CASE UNCHANGED routeStore
  BY <1>1, <1>2 DEF routeStore, RouteInv, SpecInv, CandidateInv, ActionInv,
     Request, ControlInv, OwnerInv, UndoInv, PreparedInv, StableAt,
     SettledByItsOwnAction, Settled
<1>3. CASE ~ UNCHANGED routeStore
  <2>1. /\ worker[w].pc = "apply"
        /\ actions[k] = NoRoute
        /\ Current(q)
        /\ route' = [rev |-> q.target, gen |-> route.gen + 1]
        /\ history' = history \cup {route'}
        /\ actions' = [actions EXCEPT ![k] = route']
    BY <1>3 DEF Apply
  <2>2. /\ k \in Keys /\ j \in Jobs /\ spec[j] \in Specs
        /\ control # NoControl
        /\ control.gen = route.gen /\ control.active = route.rev
        /\ q.target \in Revisions \ {route.rev}
        /\ \/ /\ k = Deploy(j) /\ control.rollback = None
              /\ control.good = route.rev
              /\ q.target = spec[j].target
           \/ /\ k = Undo(j) /\ control.rollback = j
              /\ q.target = control.good
    BY <2>1, Deployable
  <2> HIDE DEF k, j, q
  <2>3. /\ route.gen \in Nat /\ route \in history
        /\ route' # NoRoute /\ route'.rev = q.target
        /\ route'.gen = route.gen + 1
        /\ actions'[k] = route'
        /\ \A i \in Keys \ {k} : actions'[i] = actions[i]
        /\ \A i \in Keys : actions[i] # NoRoute => actions'[i] # NoRoute
    BY <2>1, <2>2 DEF ControlInv, RouteInv, Snapshots, NoRoute
  <2>4. RouteInv' /\ SpecInv'
    BY <1>1, <2>1, <2>2, <2>3 DEF RouteInv, SpecInv
  <2>5. CandidateInv'
    <3>1. /\ \E i \in Jobs : q.target \in {spec[i].from, spec[i].target}
          /\ \A i \in Jobs : q.target = spec[i].target => actions'[Deploy(i)] # NoRoute
      <4>1. CASE k = Deploy(j) /\ q.target = spec[j].target
        BY <2>2, <2>3, <4>1 DEF SpecInv
      <4>2. CASE q.target = control.good
        <5>1. PICK h \in history : h.rev = control.good
          BY <2>2 DEF ControlInv
        <5> QED BY <2>3, <4>2, <5>1 DEF CandidateInv
      <4> QED BY <2>2, <4>1, <4>2
    <3> QED BY <1>1, <2>1, <2>3, <3>1 DEF CandidateInv
  <2>6. ActionInv'
    <3>1. ASSUME NEW i \in Keys \ {k}, actions[i] # NoRoute
          PROVE  /\ actions[i] \in history'
                 /\ actions[i].gen <= route'.gen
      BY <2>1, <2>3, <3>1 DEF ActionInv, Snapshots
    <3>2. q.gen = route.gen
      BY <2>1 DEF Current
    <3>3. \A i \in Keys : Request(i)' = Request(i)
      BY <1>1 DEF Request
    <3>4. Status(k) # "none"
      BY <2>1 DEF TypeInv, Busy, k
    <3>5. /\ actions'[k] \in history' /\ actions'[k].rev = q.target
          /\ actions'[k].gen = q.gen + 1 /\ actions'[k].gen <= route'.gen
      BY <2>1, <2>3, <3>2
    <3> QED BY <1>1, <2>2, <2>3, <3>1, <3>3, <3>4, <3>5 DEF ActionInv, q
  <2>7. ControlInv'
    BY <1>1, <2>1, <2>2, <2>3 DEF ControlInv
  <2>8. OwnerInv'
    BY <1>1, <2>1, <2>2, <2>3 DEF OwnerInv
  <2>9. UndoInv'
    BY <1>1 DEF UndoInv
  <2>10. PreparedInv'
    <3>1. ASSUME NEW i \in prepared
          PROVE  /\ spec[i] # NoSpec /\ spec[i].gen < route'.gen
      BY <2>3, <3>1 DEF PreparedInv, Specs, TypeOK
    <3> QED BY <1>1, <2>3, <3>1 DEF PreparedInv, Specs, TypeOK
  <2>11. SettledByItsOwnAction'
    BY <1>1, <2>3 DEF SettledByItsOwnAction, Settled
  <2> QED BY <2>4, <2>5, <2>6, <2>7, <2>8, <2>9, <2>10, <2>11
<1> QED BY <1>2, <1>3

\* promoted is backed by an action; restored finds its action to be the route.
LEMMA CoreConclude ==
  ASSUME TypeInv, TypeInv', Core, WorkerInv, NEW w \in Workers, Conclude(w)
  PROVE  Core'
<1> DEFINE k == Key(w)
           j == k[2]
<1> USE KeyFacts, TypeFacts, NotNone DEF Core, Status
<1>1. /\ UNCHANGED <<route, history, actions, probation, goal, spec, prepared>>
      /\ worker[w].pc # "idle"
      /\ Verifies(w) /\ Fenced(k)
      /\ task' = [task EXCEPT ![k].status = Settled(k)]
      /\ control' = IF k[1] = "rollback" THEN Restored(j) ELSE control
  BY DEF Conclude, Advance, routeStore, rolloutTask
<1>2. k \in Keys /\ Status(k) # "none" /\ j \in Jobs
  BY <1>1 DEF TypeInv, Busy
<1>3. /\ task'[k].status = Settled(k)
      /\ \A i \in Keys \ {k} : task'[i].status = task[i].status
  BY <1>1, <1>2 DEF TypeOK
<1>4. actions[k] # NoRoute
  <2>1. Request(k).target \in Revisions
    BY <1>2 DEF Request, TaskInv, Specs
  <2> QED BY <1>1, <2>1 DEF WorkerInv, Knows, Verifies
<1>5. SettledByItsOwnAction'
  BY <1>1, <1>3, <1>4 DEF SettledByItsOwnAction, Settled
<1>6. SpecInv' /\ CandidateInv'
  BY <1>1 DEF SpecInv, CandidateInv
<1>7. ActionInv'
  <2>1. \A i \in Keys : Request(i)' = Request(i)
    BY <1>1 DEF Request
  <2>2. \A i \in Keys : Status(i) # "none" => Status(i)' # "none"
    BY <1>3 DEF Settled
  <2> QED BY <1>1, <2>1, <2>2 DEF ActionInv
<1>8. CASE k = Deploy(j)
  <2>1. control' = control
    BY <1>1, <1>2, <1>8
  <2>2. \A i \in Jobs : Status(Undo(i))' = Status(Undo(i))
    BY <1>2, <1>3, <1>8
  <2>3. RouteInv' /\ ControlInv' /\ OwnerInv' /\ UndoInv' /\ PreparedInv'
    BY <1>1, <2>1, <2>2 DEF RouteInv, ControlInv, OwnerInv, UndoInv,
       PreparedInv, StableAt
  <2> QED BY <1>5, <1>6, <1>7, <2>3
<1>9. CASE k = Undo(j)
  <2>1. /\ control.rollback = j
        /\ control' = [active |-> goal[j], good |-> goal[j],
                       gen |-> control.gen + 1, rollback |-> None]
        /\ task'[Undo(j)].status = "restored"
        /\ \A i \in Jobs \ {j} : task'[Undo(i)].status = task[Undo(i)].status
    BY <1>1, <1>2, <1>3, <1>9 DEF Fenced, Restored, Settled
  <2>2. control # NoControl
    BY <1>2, <2>1 DEF NoControl
  <2>3. /\ control.good = goal[j] /\ control.gen = spec[j].gen + 1
        /\ spec[j] \in Specs /\ goal[j] \in Revisions
    BY <1>2, <1>9, <2>1 DEF OwnerInv, UndoInv, TaskInv
  <2>4. /\ actions[Undo(j)].rev = goal[j]
        /\ actions[Undo(j)].gen = control.gen + 1
        /\ actions[Undo(j)].gen <= route.gen
    BY <1>2, <1>4, <1>9, <2>3 DEF ActionInv, Request
  <2>5. /\ route.gen = control.gen + 1
        /\ route.rev = goal[j]
        /\ route \in history /\ route \in Snapshots
    BY <2>1, <2>2, <2>3, <2>4, <1>2 DEF ControlInv, OwnerInv, RouteInv, Specs
  <2>6. control' # NoControl /\ control'.gen = route.gen
        /\ control'.active = route.rev /\ control'.good = control.good
        /\ control'.rollback = None
    BY <2>1, <2>3, <2>5 DEF NoControl
  <2>7. RouteInv'
    BY <1>1, <2>6 DEF RouteInv
  <2>8. ControlInv'
    <3>1. [rev |-> route.rev, gen |-> route.gen] = route
      BY <2>5 DEF Snapshots
    <3> QED BY <1>1, <2>2, <2>5, <2>6, <3>1 DEF ControlInv, Snapshots
  <2>9. OwnerInv'
    BY <2>6 DEF OwnerInv
  <2>10. UndoInv'
    <3>1. ASSUME NEW i \in Jobs, task'[Undo(i)].status # "none"
          PROVE  /\ spec[i] # NoSpec /\ control.good # spec[i].target
                 /\ task'[Undo(i)].status = "restored"
      BY <1>2, <1>9, <2>1, <3>1 DEF UndoInv
    <3> QED BY <1>1, <2>6, <3>1 DEF UndoInv
  <2>11. PreparedInv'
    BY <1>1, <1>2, <2>1 DEF PreparedInv, StableAt
  <2> QED BY <1>5, <1>6, <1>7, <2>7, <2>8, <2>9, <2>10, <2>11
<1> QED BY <1>2, <1>8, <1>9

\* A probe that sees the revision an operation asks for sees the effect of
\* that very operation.
LEMMA ProbeSeesTheAction ==
  ASSUME TypeInv, Core, NEW k \in Keys, Status(k) # "none",
         route.rev \in Revisions, route.rev = Request(k).target
  PROVE  actions[k] # NoRoute
<1> USE KeyFacts, TypeFacts, NotNone DEF Core, Status
<1>1. route \in history
  BY DEF RouteInv, NoRoute
<1>2. CASE k = Deploy(k[2])
  BY <1>1, <1>2 DEF CandidateInv, Request
<1>3. CASE k = Undo(k[2]) /\ control.rollback = k[2]
  <2>1. control # NoControl
    BY <1>3 DEF NoControl
  <2>2. route.rev = goal[k[2]]
    BY <1>3 DEF Request
  <2> QED BY <1>3, <2>1, <2>2 DEF OwnerInv, ControlInv, NoRoute
<1>4. CASE k = Undo(k[2]) /\ control.rollback # k[2]
  BY <1>4 DEF UndoInv, SettledByItsOwnAction, Settled
<1> QED BY <1>2, <1>3, <1>4

\* What a worker knows survives the steps of the others.
LEMMA WorkerFrame ==
  ASSUME TypeInv, Core, WorkerInv, prepared \subseteq prepared',
         \A k \in Keys : actions[k] # NoRoute => actions'[k] # NoRoute,
         \A k \in Keys : Status(k) # "none" =>
           Request(k)' = Request(k) \/ actions[k] # NoRoute,
         NEW v \in Workers, worker'[v] = worker[v]
  PROVE  Knows(v)'
<1> SUFFICES ASSUME worker[v].pc # "idle"
             PROVE  Knows(v)'
  BY DEF Knows
<1>1. Key(v) \in Keys /\ Status(Key(v)) # "none" /\ Key(v)' = Key(v)
  BY DEF TypeInv, Busy, Key
<1>2. worker'[v].seen # None /\ Verifies(v)' => actions'[Key(v)] # NoRoute
  <2>1. CASE actions[Key(v)] # NoRoute
    BY <1>1, <2>1
  <2>2. CASE Request(Key(v))' = Request(Key(v))
    BY <1>1, <2>2 DEF Verifies, WorkerInv, Knows
  <2> QED BY <1>1, <2>1, <2>2
<1> QED BY <1>1, <1>2 DEF Knows, WorkerInv

\* The rollout tasks do not disturb what workers know.
LEMMA WorkerInvRollout ==
  ASSUME TypeInv, Core, WorkerInv,
         NEW j \in Jobs, RolloutStep(j)
  PROVE  WorkerInv'
<1> USE KeyFacts, TypeFacts, NotNone DEF Status
<1>1. UNCHANGED <<actions, worker>>
  BY DEF RolloutStep, CreateJob, BootstrapRoute, ObserveHealth, Detect,
     AcknowledgeBaseline, AcknowledgeCandidate, StabilizeCandidate, routeStore
<1>2. prepared \subseteq prepared'
  BY DEF RolloutStep, CreateJob, BootstrapRoute, ObserveHealth, Detect,
     AcknowledgeBaseline, AcknowledgeCandidate, StabilizeCandidate, rolloutTask
<1>3. ASSUME NEW k \in Keys, Status(k) # "none"
      PROVE  Request(k)' = Request(k)
  <2>1. CASE \E from, target \in Revisions, approved \in BOOLEAN :
               CreateJob(j, from, target, approved)
    <3>1. spec[j] = NoSpec /\ goal' = goal
          /\ \A i \in Jobs \ {j} : spec'[i] = spec[i]
      BY <2>1 DEF CreateJob, TaskInv, controlStore
    <3>2. k[2] # j
      BY <1>3, <3>1 DEF TaskInv, Core, UndoInv
    <3> QED BY <3>1, <3>2 DEF Request
  <2>2. CASE Detect(j)
    <3>1. spec' = spec /\ goal' = [goal EXCEPT ![j] = control.good]
          /\ Status(Undo(j)) = "none"
      BY <2>2 DEF Detect
    <3> QED BY <1>3, <3>1 DEF Request, TypeOK
  <2>3. CASE \/ BootstrapRoute(j) \/ ObserveHealth(j) \/ AcknowledgeBaseline(j)
             \/ AcknowledgeCandidate(j) \/ StabilizeCandidate(j)
    <3> spec' = spec /\ goal' = goal
      BY <2>3 DEF BootstrapRoute, ObserveHealth, AcknowledgeBaseline,
         AcknowledgeCandidate, StabilizeCandidate, controlStore
    <3> QED BY DEF Request
  <2> QED BY <2>1, <2>2, <2>3 DEF RolloutStep
<1> QED BY <1>1, <1>2, <1>3, WorkerFrame DEF WorkerInv

\* Nor do the steps of the workers.
LEMMA WorkerInvWorker ==
  ASSUME ProducerOnly, TypeInv, Core, WorkerInv,
         NEW w \in Workers, WorkerStep(w)
  PROVE  WorkerInv'
<1> USE KeyFacts, TypeFacts, WorkTypes, NotNone DEF Status
<1>1. worker \in [Workers -> Works] /\ Knows(w)
  BY DEF TypeInv, WorkerInv
<1>2. worker[w].pc # "idle" => Key(w) \in Keys /\ Status(Key(w)) # "none"
  BY DEF TypeInv, Busy
<1>3. /\ UNCHANGED <<spec, goal, prepared>>
      /\ \A k \in Keys : actions[k] # NoRoute => actions'[k] # NoRoute
      /\ \A v \in Workers \ {w} : worker'[v] = worker[v]
  <2>1. UNCHANGED <<spec, goal, prepared>>
    BY DEF WorkerStep, ClaimJob, ClaimRollback, Decide, Probe, StartAttempt,
       Apply, RecordApplied, Conclude, Defer, Release, Crash, controlStore,
       rolloutTask
  <2>2. \A v \in Workers \ {w} : worker'[v] = worker[v]
    BY <1>1 DEF WorkerStep, ClaimJob, ClaimRollback, TakeLease, Decide, Probe,
       StartAttempt, Apply, RecordApplied, Conclude, Defer, Release, Crash,
       Goto, Works
  <2>3. \A k \in Keys : actions[k] # NoRoute => actions'[k] # NoRoute
    <3>1. CASE Apply(w)
      BY <3>1 DEF Apply, routeStore
    <3>2. CASE ~Apply(w)
      BY <3>2 DEF WorkerStep, ClaimJob, ClaimRollback, Decide, Probe,
         StartAttempt, RecordApplied, Conclude, Defer, Release, Crash, routeStore
    <3> QED BY <3>1, <3>2
  <2> QED BY <2>1, <2>2, <2>3
<1>4. \A k \in Keys : Request(k)' = Request(k)
  BY <1>3 DEF Request
<1>5. \A v \in Workers \ {w} : Knows(v)'
  BY <1>3, <1>4, WorkerFrame
<1>6. ASSUME worker[w].pc # "idle", worker'[w].key = Key(w),
             worker'[w].seen = worker[w].seen,
             worker'[w].pc = "apply" /\ Key(w)[1] = "lifecycle" => Key(w)[2] \in prepared
      PROVE  Knows(w)'
  <2>1. Key(w)' = Key(w)
    BY <1>6 DEF Key
  <2>2. Verifies(w)' <=> Verifies(w)
    BY <1>2, <1>4, <1>6, <2>1 DEF Verifies
  <2> QED BY <1>1, <1>2, <1>3, <1>6, <2>1, <2>2 DEF Knows
<1>7. ASSUME NEW k \in Keys, TakeLease(w, k) PROVE Knows(w)'
  BY <1>1, <1>7, Lease DEF Knows
<1>8. ASSUME NEW seen \in Revisions \cup {None}, Probe(w, seen) PROVE Knows(w)'
  <2>1. /\ worker[w].pc # "idle" /\ UNCHANGED actions
        /\ worker'[w].pc \in {"probed", "verified"}
        /\ worker'[w].key = Key(w) /\ worker'[w].seen = seen
        /\ route # NoRoute /\ seen \in {route.rev, None}
    BY <1>1, <1>8 DEF Probe, Works, Key, routeStore
  <2>2. Key(w)' = Key(w)
    BY <2>1 DEF Key
  <2>3. seen # None /\ Verifies(w)' => actions[Key(w)] # NoRoute
    BY <1>2, <1>4, <2>1, <2>2, ProbeSeesTheAction DEF Verifies, Snapshots
  <2> QED BY <2>1, <2>2, <2>3 DEF Knows
<1>9. ASSUME \/ Decide(w) \/ Apply(w) \/ RecordApplied(w)
             \/ Conclude(w) \/ Defer(w)
      PROVE  Knows(w)'
  <2>1. \/ UNCHANGED worker /\ worker[w].pc # "apply"
        \/ \E pc \in {"done", "verify", "applied"} : Goto(w, pc)
    BY <1>9 DEF Decide, RecordApplied, Defer, Conclude, Apply, Goto
  <2>2. worker[w].pc # "idle"
    BY <1>9 DEF Decide, RecordApplied, Defer, Conclude, Apply
  <2>3. worker'[w].key = Key(w) /\ worker'[w].seen = worker[w].seen
        /\ worker'[w].pc # "apply"
    BY <1>1, <2>1 DEF Goto, Works, Key
  <2> QED BY <1>6, <2>2, <2>3
<1>10. ASSUME StartAttempt(w) PROVE Knows(w)'
  <2>1. worker[w].pc # "idle" /\ Goto(w, "apply")
        /\ (Key(w)[1] = "lifecycle" => Key(w)[2] \in prepared)
    BY <1>10 DEF StartAttempt, Attemptable
  <2>2. worker'[w].key = Key(w) /\ worker'[w].seen = worker[w].seen
    BY <1>1, <2>1 DEF Goto, Works, Key
  <2> QED BY <1>6, <2>1, <2>2
<1>11. ASSUME Release(w) \/ Crash(w) PROVE Knows(w)'
  BY <1>1, <1>11 DEF Release, Crash, Idle, Knows
<1>12. Knows(w)'
  BY <1>7, <1>8, <1>9, <1>10, <1>11 DEF WorkerStep, ClaimJob, ClaimRollback
<1> QED BY <1>5, <1>12 DEF WorkerInv

\* The inductive invariant.
IInv == TypeInv /\ Core /\ WorkerInv

\* The invariant holds initially.
LEMMA InitIInv == Init => IInv
<1> SUFFICES ASSUME Init PROVE IInv
  OBVIOUS
<1> USE KeyFacts DEF Init, Status
<1>1. TypeInv
  BY TypeInit
<1>2. RouteInv /\ SpecInv /\ CandidateInv /\ ControlInv
  BY DEF RouteInv, SpecInv, CandidateInv, ControlInv, NoTask
<1>3. ActionInv /\ UndoInv /\ PreparedInv
  BY DEF ActionInv, UndoInv, PreparedInv, NoTask
<1>4. OwnerInv
  BY NotNone DEF OwnerInv, NoControl
<1>5. SettledByItsOwnAction
  BY DEF SettledByItsOwnAction, Settled, NoTask
<1>6. WorkerInv
  BY DEF WorkerInv, Knows, Idle
<1> QED BY <1>1, <1>2, <1>3, <1>4, <1>5, <1>6 DEF IInv, Core

\* The invariant is inductive.
LEMMA NextIInv == ASSUME ProducerOnly, IInv, [Next]_vars PROVE IInv'
<1> USE DEF IInv
<1>1. TypeInv'
  BY TypeStep
<1>2. ASSUME NEW j \in Jobs, RolloutStep(j) PROVE Core' /\ WorkerInv'
  <2>1. CASE ObserveHealth(j)
    <3>1. Bookkeeping
      BY <2>1 DEF ObserveHealth, Bookkeeping, routeStore, controlStore, leases
    <3> QED BY <1>2, <3>1, CoreBookkeeping, WorkerInvRollout
  <2>2. CASE ~ObserveHealth(j)
    BY <1>1, <1>2, <2>2, CoreCreate, CoreBootstrap, CoreBaseline,
       CoreAcknowledge, CoreStabilize, CoreDetect, WorkerInvRollout
       DEF RolloutStep
  <2> QED BY <2>1, <2>2
<1>3. ASSUME NEW w \in Workers, WorkerStep(w) PROVE Core' /\ WorkerInv'
  <2>1. CASE Apply(w) \/ Conclude(w)
    BY <1>1, <1>3, <2>1, CoreApply, CoreConclude, WorkerInvWorker
  <2>2. CASE ~(Apply(w) \/ Conclude(w))
    <3>1. Bookkeeping
      BY <1>3, <2>2, WorkerBookkeeping DEF WorkerStep
    <3> QED BY <1>3, <3>1, CoreBookkeeping, WorkerInvWorker
  <2> QED BY <2>1, <2>2
<1>4. ASSUME (\E k \in Keys : Lapse(k)) \/ UNCHANGED vars PROVE Core' /\ WorkerInv'
  <2>1. Bookkeeping /\ UNCHANGED worker
    BY <1>4 DEF Lapse, vars, Bookkeeping, routeStore, controlStore,
       rolloutTask, leases
  <2>2. WorkerInv'
    BY <2>1, WorkerFrame DEF Bookkeeping, Request, WorkerInv
  <2> QED BY <2>1, <2>2, CoreBookkeeping
<1> QED BY <1>1, <1>2, <1>3, <1>4 DEF Next

\* IInv holds in every reachable state of the producer pipeline.
THEOREM Inductive == ASSUME ProducerOnly PROVE Spec => []IInv
  BY InitIInv, NextIInv, PTL DEF Spec

\* The deployment row of rollback.py names a route of warm_routes.py that was
\* installed with that generation and is at most one cutover behind.
THEOREM ControlCorrect ==
  ASSUME ProducerOnly PROVE Spec => []ControlNamesTraffic
<1>1. IInv => ControlNamesTraffic
  BY DEF IInv, Core, ControlInv, ControlNamesTraffic
<1> QED BY <1>1, Inductive, PTL

\* promoted and restored are concluded from a probe that names no generation,
\* and still only by the operation that moved the traffic.
THEOREM SettlementCorrect ==
  ASSUME ProducerOnly PROVE Spec => []SettledByItsOwnAction
<1>1. IInv => SettledByItsOwnAction
  BY DEF IInv, Core
<1> QED BY <1>1, Inductive, PTL

\* A candidate that was ever rolled back is never what a later rollback
\* returns to.
THEOREM TrustCorrect ==
  ASSUME ProducerOnly PROVE Spec => []RolledBackIsNotTrusted
<1>1. IInv => RolledBackIsNotTrusted
  BY DEF IInv, Core, UndoInv, RolledBackIsNotTrusted
<1> QED BY <1>1, Inductive, PTL

\* While a rollback owns the deployment no lifecycle job moves the traffic,
\* although WarmRouteStore.apply never looks at the control store.
THEOREM FreezeCorrect ==
  ASSUME ProducerOnly PROVE Spec => RollbackFreezesPromotion
<1>1. ASSUME IInv, [Next]_vars, control.rollback # None, NEW j \in Jobs
      PROVE  actions'[Deploy(j)] = actions[Deploy(j)]
  <2>1. CASE UNCHANGED actions
    BY <2>1
  <2>2. CASE ~ UNCHANGED actions
    <3>1. PICK w \in Workers : Apply(w)
      <4>1. ASSUME NEW i \in Jobs, RolloutStep(i) PROVE UNCHANGED actions
        BY <4>1 DEF RolloutStep, CreateJob, BootstrapRoute, ObserveHealth,
           AcknowledgeBaseline, AcknowledgeCandidate, StabilizeCandidate,
           Detect, routeStore
      <4>2. ASSUME NEW v \in Workers, WorkerStep(v), ~Apply(v)
            PROVE  UNCHANGED actions
        BY <4>2 DEF WorkerStep, ClaimJob, ClaimRollback, Decide, Probe,
           StartAttempt, RecordApplied, Conclude, Defer, Release, Crash,
           routeStore
      <4>3. ASSUME (\E k \in Keys : Lapse(k)) \/ UNCHANGED vars
            PROVE  UNCHANGED actions
        BY <4>3 DEF Lapse, vars, routeStore
      <4> QED BY <1>1, <2>2, <4>1, <4>2, <4>3 DEF Next
    <3>2. /\ actions[Key(w)] = NoRoute
          /\ actions' = [actions EXCEPT ![Key(w)] = route']
      BY <2>2, <3>1 DEF Apply, routeStore
    <3>3. Key(w) \in Keys /\ Key(w) = Undo(Key(w)[2])
      BY <1>1, <3>1, <3>2, Deployable DEF IInv
    <3>4. Deploy(j) # Key(w)
      BY <3>3, KeyFacts
    <3> QED BY <3>2, <3>4
  <2> QED BY <2>1, <2>2
<1>2. IInv /\ [Next]_vars =>
        [control.rollback # None =>
           \A j \in Jobs : actions'[Deploy(j)] = actions[Deploy(j)]]_vars
  BY <1>1
<1> QED BY <1>2, Inductive, PTL DEF Spec, RollbackFreezesPromotion

\* Rollout tasks seed, trust or stutter.
LEMMA RolloutRefines ==
  ASSUME ProducerOnly, IInv, IInv', NEW j \in Jobs, RolloutStep(j)
  PROVE  [Promise!Next]_(Promise!vars)
<1> USE KeyFacts, TypeFacts, NotNone DEF IInv, Core
<1>1. CASE BootstrapRoute(j)
  <2>1. spec[j] \in Specs
    BY <1>1 DEF BootstrapRoute, NoSpec
  <2>2. /\ route.rev = None /\ route'.rev = spec[j].from /\ route'.gen = 0
        /\ control' = control
    BY <1>1 DEF BootstrapRoute, NoRoute, controlStore
  <2> QED BY <2>1, <2>2 DEF Specs, Promise!Next, Promise!Seed
<1>2. CASE AcknowledgeBaseline(j)
  <2>1. /\ route' = route /\ spec[j] # NoSpec
        /\ route = [rev |-> spec[j].from, gen |-> spec[j].gen]
        /\ control'.good = spec[j].from
    BY <1>2 DEF AcknowledgeBaseline, Baseline, StableAt, NoSpec, routeStore
  <2> QED BY <2>1 DEF Specs, Promise!Next, Promise!Trust
<1>3. CASE StabilizeCandidate(j)
  <2>1. /\ route' = route /\ route # NoRoute /\ actions[Deploy(j)] = route
        /\ control.active = spec[j].target /\ control.gen = route.gen
        /\ control' = [control EXCEPT !.good = control.active]
    BY <1>3 DEF StabilizeCandidate, VerifiedAction, routeStore
  <2>2. control # NoControl /\ route \in Snapshots
    BY <2>1 DEF NoControl, Snapshots
  <2>3. control'.good = route.rev
    BY <2>1, <2>2 DEF ControlInv, TypeOK
  <2> QED BY <2>1, <2>2, <2>3 DEF Snapshots, Promise!Next, Promise!Trust
<1>4. CASE AcknowledgeCandidate(j) \/ Detect(j) \/ ObserveHealth(j)
           \/ \E from, target \in Revisions, approved \in BOOLEAN :
                CreateJob(j, from, target, approved)
  <2>1. route' = route
    BY <1>4 DEF AcknowledgeCandidate, Detect, ObserveHealth, CreateJob,
       routeStore
  <2>2. control'.good = control.good
    <3>1. CASE Detect(j)
      <4>1. control' = [control EXCEPT !.rollback = j]
        BY <3>1 DEF Detect
      <4> QED BY <4>1 DEF TypeOK, NoControl
    <3> QED BY <1>4, <3>1 DEF AcknowledgeCandidate, ObserveHealth, CreateJob,
               controlStore
  <2> QED BY <2>1, <2>2 DEF Promise!vars
<1> QED BY <1>1, <1>2, <1>3, <1>4 DEF RolloutStep

\* A worker that moves the traffic makes a Cutover or a Restore.
LEMMA ApplyRefines ==
  ASSUME ProducerOnly, IInv, NEW w \in Workers, Apply(w)
  PROVE  [Promise!Next]_(Promise!vars)
<1> USE KeyFacts, TypeFacts, NotNone DEF IInv, Core
<1>1. control' = control
  BY DEF Apply, controlStore
<1>2. CASE UNCHANGED routeStore
  BY <1>1, <1>2 DEF routeStore, Promise!vars
<1>3. CASE ~ UNCHANGED routeStore
  <2> DEFINE q == Request(Key(w))
  <2>1. /\ actions[Key(w)] = NoRoute
        /\ route' = [rev |-> q.target, gen |-> route.gen + 1]
    BY <1>3 DEF Apply
  <2>2. /\ q.target \in Revisions \ {route.rev}
        /\ control.good = route.rev \/ q.target = control.good
        /\ control # NoControl /\ route # NoRoute
    BY <2>1, Deployable DEF ControlInv
  <2>3. route.rev \in Revisions /\ control.good \in Revisions
    BY <2>2 DEF Snapshots, TypeOK
  <2> HIDE DEF q
  <2> QED BY <1>1, <2>1, <2>2, <2>3 DEF Promise!Next, Promise!Cutover,
             Promise!Restore
<1> QED BY <1>2, <1>3

\* Everything else a worker does is invisible.
LEMMA WorkerRefines ==
  ASSUME ProducerOnly, IInv, NEW w \in Workers, WorkerStep(w)
  PROVE  [Promise!Next]_(Promise!vars)
<1> USE KeyFacts, TypeFacts, NotNone DEF IInv, Core
<1>1. CASE Apply(w)
  BY <1>1, ApplyRefines
<1>2. CASE Conclude(w)
  <2>1. route' = route
    BY <1>2 DEF Conclude, routeStore
  <2>2. control'.good = control.good
    <3>1. CASE Key(w)[1] = "rollback"
      <4>1. control.rollback = Key(w)[2] /\ control'.good = goal[Key(w)[2]]
        BY <1>2, <3>1 DEF Conclude, Fenced, Restored
      <4>2. Key(w)[2] \in Jobs
        BY <1>2 DEF Conclude, TypeInv, Busy
      <4> QED BY <4>1, <4>2 DEF OwnerInv
    <3>2. CASE Key(w)[1] # "rollback"
      BY <1>2, <3>2 DEF Conclude
    <3> QED BY <3>1, <3>2
  <2> QED BY <2>1, <2>2 DEF Promise!vars
<1>3. CASE ~(Apply(w) \/ Conclude(w))
  <2>1. UNCHANGED <<route, control>>
    BY <1>3 DEF WorkerStep, ClaimJob, ClaimRollback, Decide, Probe,
       StartAttempt,
       RecordApplied, Defer, Release, Crash, routeStore, controlStore
  <2> QED BY <2>1 DEF Promise!vars
<1> QED BY <1>1, <1>2, <1>3

\* The three databases together implement Rollout: traffic goes from the
\* trusted revision to one candidate, and from it only back, unless it is
\* trusted first.
THEOREM PromiseKept == ASSUME ProducerOnly PROVE Spec => KeepsPromise
<1>1. Init => Promise!Init
  BY DEF Init, Promise!Init, NoRoute, NoControl
<1>2. ASSUME IInv, IInv', [Next]_vars PROVE [Promise!Next]_(Promise!vars)
  <2>1. ASSUME (\E k \in Keys : Lapse(k)) \/ UNCHANGED vars
        PROVE  [Promise!Next]_(Promise!vars)
    BY <2>1 DEF Lapse, vars, routeStore, controlStore, Promise!vars
  <2> QED BY <1>2, <2>1, RolloutRefines, WorkerRefines DEF Next
<1> QED BY <1>1, <1>2, Inductive, PTL DEF Spec, KeepsPromise, Promise!Spec

(***************************************************************************)
(* The log of cutovers, for every kind of pipeline.  A step moves the      *)
(* traffic, and then it adds the next route to the log, or it leaves route,*)
(* log and the requests of all operations alone (Unmoved).                 *)
(***************************************************************************)

\* The route is the end of the chain, and rows outlive what refers to them.
LogInv ==
  /\ CutoversChain
  /\ route = NoRoute => history = {}
  /\ route # NoRoute => route \in history
  /\ \A h \in history : h.gen <= route.gen
  /\ \A k \in Keys : actions[k] # NoRoute => Status(k) # "none"
  /\ \A j \in Jobs : Status(Undo(j)) # "none" => spec[j] # NoSpec

\* The revision the row trusts is the one a rollback was promised.
TrustInv ==
  /\ KnownGoodIsProven
  /\ \A j \in Jobs : control.rollback = j => goal[j] = control.good

\* A step that moves neither traffic nor the request of an operation.
Unmoved ==
  /\ UNCHANGED <<route, history, actions>>
  /\ \A k \in Keys : Status(k) # "none" => Request(k)' = Request(k) /\ Status(k)' # "none"
  /\ \A j \in Jobs : Status(Undo(j))' # "none" => spec'[j] # NoSpec

LEMMA UnmovedKeeps ==
  ASSUME TypeInv, LogInv, Unmoved
  PROVE  LogInv'
<1>1. CutoversChain'
  BY DEF LogInv, Unmoved, CutoversChain
<1> QED BY <1>1 DEF LogInv, Unmoved

\* The request of an operation is fixed with its row.
LEMMA RolloutUnmoved ==
  ASSUME TypeInv, LogInv, NEW j \in Jobs, RolloutStep(j), ~BootstrapRoute(j)
  PROVE  Unmoved
<1> USE KeyFacts, TypeFacts, NotNone DEF Status
<1>1. UNCHANGED <<route, history, actions>>
  BY DEF RolloutStep, CreateJob, ObserveHealth, Detect,
     AcknowledgeBaseline, AcknowledgeCandidate, StabilizeCandidate, routeStore
<1>2. CASE \E from, target \in Revisions, approved \in BOOLEAN :
             CreateJob(j, from, target, approved)
  <2>1. PICK from \in Revisions, target \in Revisions, approved \in BOOLEAN :
          CreateJob(j, from, target, approved)
    BY <1>2
  <2>2. /\ spec[j] = NoSpec /\ goal' = goal /\ spec'[j] # NoSpec
        /\ \A i \in Jobs \ {j} : spec'[i] = spec[i]
        /\ task[Deploy(j)].status = "none"
        /\ \A k \in Keys \ {Deploy(j)} : task'[k].status = task[k].status
    <3>1. /\ spec[j] = NoSpec /\ goal' = goal /\ task[Deploy(j)].status = "none"
          /\ task' = [task EXCEPT ![Deploy(j)].status = "registered"]
          /\ \E s \in Specs : spec' = [spec EXCEPT ![j] = s]
      <4>1. [from |-> from, target |-> target, approved |-> approved,
             gen |-> IF route = NoRoute THEN 0 ELSE route.gen] \in Specs
        BY <2>1 DEF CreateJob, Specs, Snapshots
      <4> QED BY <2>1, <4>1 DEF CreateJob, TaskInv, controlStore
    <3> QED BY <3>1, WorkTypes DEF TypeInv
  <2>3. task[Undo(j)].status = "none"
    BY <2>2 DEF LogInv
  <2>4. ASSUME NEW k \in Keys, task[k].status # "none"
        PROVE  Request(k)' = Request(k) /\ task'[k].status # "none"
    <3>1. k[2] # j
      BY <2>2, <2>3, <2>4
    <3> QED BY <2>2, <2>4, <3>1 DEF Request
  <2> QED BY <1>1, <2>2, <2>3, <2>4 DEF Unmoved, LogInv
<1>3. CASE Detect(j)
  <2>1. /\ spec' = spec /\ goal' = [goal EXCEPT ![j] = control.good]
        /\ task[Undo(j)].status = "none"
        /\ \A k \in Keys \ {Undo(j)} : task'[k].status = task[k].status
        /\ control.active = spec[j].target /\ control.gen = spec[j].gen + 1
    BY <1>3, WorkTypes DEF Detect, TypeInv
  <2>2. spec[j] # NoSpec
    BY <2>1 DEF NoSpec, NoControl, TypeOK
  <2>3. ASSUME NEW k \in Keys, task[k].status # "none"
        PROVE  Request(k)' = Request(k)
    <3>1. k[1] = "lifecycle" \/ k[2] # j
      BY <2>1, <2>3
    <3> QED BY <2>1, <3>1 DEF Request, TypeOK
  <2> QED BY <1>1, <2>1, <2>2, <2>3 DEF Unmoved, LogInv
<1>4. CASE \/ ObserveHealth(j) \/ AcknowledgeBaseline(j)
           \/ AcknowledgeCandidate(j) \/ StabilizeCandidate(j)
  <2> spec' = spec /\ goal' = goal /\ task' = task
    BY <1>4 DEF ObserveHealth, AcknowledgeBaseline,
       AcknowledgeCandidate, StabilizeCandidate, controlStore, leases
  <2> QED BY <1>1 DEF Request, Unmoved, LogInv
<1> QED BY <1>2, <1>3, <1>4 DEF RolloutStep

LEMMA BookkeepingUnmoved ==
  ASSUME TypeInv, LogInv, Bookkeeping
  PROVE  Unmoved
<1> USE KeyFacts
<1>1. \A k \in Keys : (Status(k) = "none")' <=> Status(k) = "none"
  BY WorkTypes DEF Bookkeeping, Status
<1>2. \A k \in Keys : Request(k)' = Request(k)
  BY DEF Bookkeeping, Request
<1> QED BY <1>1, <1>2 DEF Bookkeeping, Unmoved, LogInv

LEMMA ConcludeUnmoved ==
  ASSUME TypeInv, LogInv, NEW w \in Workers, Conclude(w)
  PROVE  Unmoved
<1> USE KeyFacts DEF Status
<1>1. UNCHANGED <<route, history, actions, goal, spec>>
  BY DEF Conclude, routeStore
<1>2. \A k \in Keys : Request(k)' = Request(k)
  BY <1>1 DEF Request
<1>3. Key(w) \in Keys /\ task[Key(w)].status # "none"
  BY DEF Conclude, TypeInv, Busy
<1>4. \A k \in Keys : (Status(k) = "none")' <=> Status(k) = "none"
  BY <1>3, WorkTypes DEF Conclude, Advance, Settled, TypeInv, Tasks
<1> QED BY <1>1, <1>2, <1>4 DEF Unmoved, LogInv

\* The first route starts the chain.
LEMMA BootstrapKeeps ==
  ASSUME TypeInv, TypeInv', LogInv, NEW j \in Jobs, BootstrapRoute(j)
  PROVE  LogInv'
<1> USE KeyFacts, TypeFacts DEF Status
<1>1. /\ UNCHANGED <<actions, goal, spec, task>>
      /\ route' = [rev |-> spec[j].from, gen |-> 0]
      /\ history' = {route'}
  BY DEF BootstrapRoute, controlStore, leases, LogInv
<1>2. \A k \in Keys : actions[k] = NoRoute
  BY DEF BootstrapRoute, LogInv, CutoversChain
<1>3. CutoversChain'
  BY <1>1, <1>2 DEF CutoversChain
<1> QED BY <1>1, <1>2, <1>3 DEF LogInv, NoRoute

\* A cutover makes it one longer.
LEMMA ApplyKeeps ==
  ASSUME TypeInv, TypeInv', LogInv, NEW w \in Workers, Apply(w)
  PROVE  LogInv'
<1> DEFINE k == Key(w)
           q == Request(k)
<1> USE KeyFacts, TypeFacts DEF Status
<1>1. UNCHANGED <<goal, spec, task>> /\ \A i \in Keys : Request(i)' = Request(i)
  BY DEF Apply, controlStore, leases, Request
<1>2. k \in Keys /\ task[k].status # "none"
  BY DEF Apply, TypeInv, Busy
<1>3. CASE UNCHANGED routeStore
  <2>1. Unmoved
    BY <1>1, <1>3 DEF routeStore, Unmoved, LogInv
  <2> QED BY <2>1, UnmovedKeeps
<1>4. CASE ~ UNCHANGED routeStore
  <2>1. /\ actions[k] = NoRoute
        /\ route = [rev |-> q.from, gen |-> q.gen]
        /\ route' = [rev |-> q.target, gen |-> q.gen + 1]
        /\ history' = history \cup {route'}
        /\ actions' = [actions EXCEPT ![k] = route']
    BY <1>4 DEF Apply, Current
  <2> HIDE DEF q, k
  <2>2. q.gen \in Nat
    BY <1>2 DEF q, Request, TaskInv, Specs, LogInv
  <2>3. /\ route # NoRoute /\ route \in history /\ route' # NoRoute
        /\ route'.gen = q.gen + 1 /\ route.gen = q.gen
    BY <2>1, <2>2 DEF NoRoute, LogInv
  <2>4. \A h \in history : h.gen \in Nat /\ h.gen < route'.gen /\ h # route'
    BY <2>2, <2>3 DEF LogInv, Snapshots
  <2>5. /\ actions'[k] = route'
        /\ \A i \in Keys \ {k} : actions'[i] = actions[i]
        /\ \A i \in Keys : actions[i] # NoRoute => actions[i] \in history /\ i # k
    <3>1. actions \in [Keys -> Snapshots \cup {NoRoute}]
      BY TypeFacts
    <3>2. \A i \in Keys : actions[i] # NoRoute => actions[i] \in history /\ i # k
      BY <2>1 DEF LogInv, CutoversChain
    <3> QED BY <1>2, <2>1, <3>1, <3>2
  <2>6. CutoversChain'
    <3>1. \A g, h \in history' : g.gen = h.gen => g = h
      BY <2>1, <2>4 DEF LogInv, CutoversChain
    <3>2. \A h \in history' : h.gen > 0 => \E i \in Keys : actions'[i] = h
      <4>1. ASSUME NEW h \in history, h.gen > 0 PROVE \E i \in Keys : actions'[i] = h
        <5>1. PICK i \in Keys : actions[i] = h
          BY <4>1 DEF LogInv, CutoversChain
        <5>2. h # NoRoute
          BY <4>1 DEF NoRoute
        <5> QED BY <2>5, <5>1, <5>2
      <4> QED BY <1>2, <2>1, <2>5, <4>1
    <3>3. ASSUME NEW i \in Keys, actions'[i] # NoRoute
          PROVE  /\ actions'[i] = [rev |-> Request(i)'.target, gen |-> Request(i)'.gen + 1]
                 /\ actions'[i] \in history'
                 /\ [rev |-> Request(i)'.from, gen |-> Request(i)'.gen] \in history'
      <4>1. CASE i = k
        BY <1>1, <1>2, <2>1, <2>3, <2>5, <4>1 DEF q
      <4>2. CASE i # k
        BY <1>1, <2>1, <2>5, <3>3, <4>2 DEF LogInv, CutoversChain
      <4> QED BY <4>1, <4>2
    <3>4. ASSUME NEW i \in Keys, NEW l \in Keys, actions'[i] # NoRoute, actions'[i] = actions'[l]
          PROVE  i = l
      BY <2>4, <2>5, <3>4 DEF LogInv, CutoversChain
    <3> QED BY <3>1, <3>2, <3>3, <3>4 DEF CutoversChain
  <2> QED BY <1>1, <1>2, <2>1, <2>2, <2>3, <2>4, <2>5, <2>6 DEF LogInv
<1> QED BY <1>3, <1>4

LEMMA LogStep ==
  ASSUME TypeInv, LogInv, [Next]_vars
  PROVE  LogInv'
<1>1. TypeInv'
  BY TypeStep
<1>2. ASSUME NEW j \in Jobs, RolloutStep(j) PROVE LogInv'
  BY <1>1, <1>2, BootstrapKeeps, RolloutUnmoved, UnmovedKeeps
<1>3. ASSUME NEW w \in Workers, WorkerStep(w) PROVE LogInv'
  <2>1. CASE Apply(w)
    BY <1>1, <2>1, ApplyKeeps
  <2>2. CASE Conclude(w)
    BY <2>2, ConcludeUnmoved, UnmovedKeeps
  <2>3. CASE ~Apply(w) /\ ~Conclude(w)
    <3>1. Bookkeeping
      BY <1>3, <2>3, WorkerBookkeeping DEF WorkerStep
    <3> QED BY <3>1, BookkeepingUnmoved, UnmovedKeeps
  <2> QED BY <2>1, <2>2, <2>3
<1>4. ASSUME (\E k \in Keys : Lapse(k)) \/ UNCHANGED vars PROVE LogInv'
  <2>1. Bookkeeping
    BY <1>4 DEF Lapse, vars, Bookkeeping, routeStore, controlStore, rolloutTask, leases
  <2> QED BY <2>1, BookkeepingUnmoved, UnmovedKeeps
<1> QED BY <1>2, <1>3, <1>4 DEF Next

\* Who changes what the row trusts has seen it proven.
LEMMA TrustStep ==
  ASSUME TypeInv, LogInv, TrustInv, [Next]_vars
  PROVE  TrustInv'
<1> USE KeyFacts, TypeFacts, NotNone DEF routeStore, controlStore
<1>1. history \subseteq history' /\ probation \subseteq probation'
  <2>1. ASSUME NEW j \in Jobs, RolloutStep(j) PROVE history \subseteq history' /\ probation \subseteq probation'
    BY <2>1 DEF RolloutStep, CreateJob, BootstrapRoute, ObserveHealth, Detect,
       AcknowledgeBaseline, AcknowledgeCandidate, StabilizeCandidate
  <2>2. ASSUME NEW w \in Workers, WorkerStep(w) PROVE history \subseteq history' /\ probation \subseteq probation'
    BY <2>2 DEF WorkerStep, ClaimJob, ClaimRollback, Decide, Probe, StartAttempt,
       Apply, RecordApplied, Conclude, Defer, Release, Crash
  <2>3. ASSUME (\E k \in Keys : Lapse(k)) \/ UNCHANGED vars PROVE history \subseteq history' /\ probation \subseteq probation'
    BY <2>3 DEF Lapse, vars
  <2> QED BY <2>1, <2>2, <2>3 DEF Next
<1>2. ASSUME control # NoControl, control' # NoControl => control'.good = control.good,
             \A j \in Jobs : control'.rollback = j => goal'[j] = control'.good
      PROVE  TrustInv'
  BY <1>1, <1>2 DEF TrustInv, KnownGoodIsProven
<1>3. ASSUME UNCHANGED <<control, goal>> PROVE TrustInv'
  BY <1>1, <1>3 DEF TrustInv, KnownGoodIsProven
<1>4. ASSUME NEW j \in Jobs, AcknowledgeBaseline(j) PROVE TrustInv'
  <2>1. CASE control = NoControl
    <3>1. spec[j] # NoSpec /\ spec[j].gen = 0 /\ route = [rev |-> spec[j].from, gen |-> spec[j].gen]
          /\ history' = history /\ control'.good = spec[j].from /\ control'.rollback = None
      BY <1>4, <2>1 DEF AcknowledgeBaseline, Baseline, NoSpec
    <3>2. route \in history
      BY <3>1 DEF LogInv, NoRoute
    <3> QED BY <3>1, <3>2 DEF TrustInv, KnownGoodIsProven
  <2>2. CASE control # NoControl
    BY <1>3, <1>4, <2>2 DEF AcknowledgeBaseline, Baseline
  <2> QED BY <2>1, <2>2
<1>5. ASSUME NEW j \in Jobs, AcknowledgeCandidate(j) PROVE TrustInv'
  <2>1. CASE UNCHANGED control
    BY <1>3, <1>5, <2>1 DEF AcknowledgeCandidate
  <2>2. CASE ~UNCHANGED control
    <3>1. /\ Status(Deploy(j)) = "promoted" /\ control.gen = spec[j].gen
          /\ control'.good = control.good /\ control'.rollback = None
      BY <1>5, <2>2 DEF AcknowledgeCandidate, VerifiedAction
    <3>2. control # NoControl
      BY <3>1 DEF TaskInv, Specs, NoControl
    <3> QED BY <1>2, <3>1, <3>2
  <2> QED BY <2>1, <2>2
<1>6. ASSUME NEW j \in Jobs, StabilizeCandidate(j) PROVE TrustInv'
  <2>1. /\ actions[Deploy(j)] = route /\ route # NoRoute
        /\ control.active = spec[j].target /\ control.gen = route.gen
        /\ control' = [control EXCEPT !.good = control.active]
        /\ control.rollback = None /\ UNCHANGED history
        /\ [gen |-> route.gen, job |-> j] \in probation'
    BY <1>6 DEF StabilizeCandidate, VerifiedAction, NotFrozen
  <2>2. route.rev = spec[j].target /\ route \in history /\ route = [rev |-> route.rev, gen |-> route.gen]
    <3>1. actions[Deploy(j)].rev = Request(Deploy(j)).target
      <4>1. Deploy(j) \in Keys /\ actions[Deploy(j)] # NoRoute
        BY <2>1
      <4>2. actions[Deploy(j)] = [rev |-> Request(Deploy(j)).target,
                                  gen |-> Request(Deploy(j)).gen + 1]
        BY <4>1 DEF LogInv, CutoversChain
      <4> HIDE DEF Request
      <4> QED BY <4>2
    <3>2. Request(Deploy(j)).target = spec[j].target
      BY DEF Request
    <3> QED BY <2>1, <3>1, <3>2 DEF LogInv, Snapshots
  <2>3. control'.good = route.rev /\ control'.rollback = None
    BY <2>1, <2>2 DEF TypeOK, NoControl
  <2>4. \E p \in probation' : [rev |-> control'.good, gen |-> p.gen] \in history'
    BY <2>1, <2>2, <2>3
  <2> QED BY <2>3, <2>4 DEF TrustInv, KnownGoodIsProven
<1>7. ASSUME NEW j \in Jobs, Detect(j) PROVE TrustInv'
  <2>1. /\ control.active = spec[j].target /\ control.gen = spec[j].gen + 1
        /\ control' = [control EXCEPT !.rollback = j]
        /\ goal' = [goal EXCEPT ![j] = control.good]
    BY <1>7 DEF Detect
  <2>2. control # NoControl
    BY <2>1 DEF NoControl, NoSpec, Specs
  <2>3. control'.good = control.good /\ control'.rollback = j /\ goal'[j] = control.good
    BY <2>1, <2>2 DEF TypeOK
  <2> QED BY <1>2, <2>2, <2>3
<1>8. ASSUME NEW w \in Workers, Conclude(w) PROVE TrustInv'
  <2>1. goal' = goal /\ control' = IF Key(w)[1] = "rollback" THEN Restored(Key(w)[2]) ELSE control
    BY <1>8 DEF Conclude
  <2>2. CASE Key(w)[1] = "rollback"
    <3>1. Key(w)[2] \in Jobs /\ control.rollback = Key(w)[2]
      BY <1>8, <2>2 DEF Conclude, TypeInv, Busy, Fenced
    <3>2. control'.good = control.good /\ control'.rollback = None /\ control # NoControl
      BY <2>1, <2>2, <3>1 DEF Restored, TrustInv, NoControl
    <3> QED BY <1>2, <3>2
  <2>3. CASE Key(w)[1] # "rollback"
    BY <1>3, <2>1, <2>3
  <2> QED BY <2>2, <2>3
<1>9. ASSUME \/ \E j \in Jobs : RolloutStep(j) /\ ~(\/ AcknowledgeBaseline(j) \/ AcknowledgeCandidate(j)
                                                    \/ StabilizeCandidate(j) \/ Detect(j))
             \/ \E w \in Workers : WorkerStep(w) /\ ~Conclude(w)
             \/ \E k \in Keys : Lapse(k)
             \/ UNCHANGED vars
      PROVE  TrustInv'
  <2>1. UNCHANGED <<control, goal>>
    BY <1>9 DEF RolloutStep, CreateJob, BootstrapRoute, ObserveHealth,
       WorkerStep, ClaimJob, ClaimRollback, Decide, Probe, StartAttempt,
       Apply, RecordApplied, Defer, Release, Crash, Lapse, vars
  <2> QED BY <1>3, <2>1
<1> QED BY <1>4, <1>5, <1>6, <1>7, <1>8, <1>9 DEF Next

LEMMA LogInductive == Spec => [](TypeInv /\ LogInv /\ TrustInv)
<1>1. Init => TypeInv /\ LogInv /\ TrustInv
  <2> SUFFICES ASSUME Init PROVE TypeInv /\ LogInv /\ TrustInv
    OBVIOUS
  <2>1. LogInv
    BY KeyFacts DEF Init, LogInv, CutoversChain, Status, NoTask
  <2>2. TrustInv
    BY NotNone DEF Init, TrustInv, KnownGoodIsProven, NoControl
  <2> QED BY <2>1, <2>2, TypeInit
<1>2. TypeInv /\ LogInv /\ TrustInv /\ [Next]_vars => (TypeInv /\ LogInv /\ TrustInv)'
  BY TypeStep, LogStep, TrustStep
<1> QED BY <1>1, <1>2, PTL DEF Spec

\* For every kind of pipeline: the log of cutovers has no gap, no fork and no
\* entry twice (WarmRouteStore.apply compares revision and generation).
THEOREM ChainCorrect == Spec => []CutoversChain
<1>1. LogInv => CutoversChain
  BY DEF LogInv
<1> QED BY <1>1, LogInductive, PTL

\* What a rollback falls back to was the first baseline or passed probation,
\* for every kind of pipeline: only StabilizeCandidate changes it, under an
\* action of the log whose target is what the controller calls active.
THEOREM FallbackCorrect == Spec => []KnownGoodIsProven
<1>1. TrustInv => KnownGoodIsProven
  BY DEF TrustInv
<1> QED BY <1>1, LogInductive, PTL

-----------------------------------------------------------------------------
(* The probe monitors *)

\* How the traffic and the deployment row move in one step of the release.
StoresMove ==
  /\ \/ route' = route
     \/ route = NoRoute /\ route'.gen = 0
     \/ route'.gen = route.gen + 1
  /\ \/ control' = control
     \/ control = NoControl
     \/ control'.gen = control.gen + 1
     \/ control' = [control EXCEPT !.good = control.active]
     \/ control.rollback = None /\ \E j \in Jobs : control' = [control EXCEPT !.rollback = j]
  /\ \A j \in Jobs : spec[j] # NoSpec => spec'[j] = spec[j]

LEMMA StoresMoveSlowly ==
  ASSUME TypeInv, [Next]_vars
  PROVE  StoresMove
<1> USE DEF routeStore, controlStore
<1>1. ASSUME NEW j \in Jobs, NEW from \in Revisions, NEW target \in Revisions,
             NEW approved \in BOOLEAN, CreateJob(j, from, target, approved)
      PROVE  StoresMove
  <2>1. spec[j] = NoSpec /\ spec \in [Jobs -> Specs \cup {NoSpec}]
    BY <1>1, TypeFacts DEF CreateJob, TaskInv
  <2> QED BY <1>1, <2>1 DEF CreateJob, StoresMove
<1>2. ASSUME NEW j \in Jobs, BootstrapRoute(j) PROVE StoresMove
  BY <1>2 DEF BootstrapRoute, StoresMove
<1>3. ASSUME NEW j \in Jobs, ObserveHealth(j) PROVE StoresMove
  BY <1>3 DEF ObserveHealth, StoresMove
<1>4. ASSUME NEW j \in Jobs, AcknowledgeBaseline(j) PROVE StoresMove
  BY <1>4 DEF AcknowledgeBaseline, Baseline, StoresMove
<1>5. ASSUME NEW j \in Jobs, AcknowledgeCandidate(j) PROVE StoresMove
  BY <1>5 DEF AcknowledgeCandidate, StoresMove
<1>6. ASSUME NEW j \in Jobs, StabilizeCandidate(j) PROVE StoresMove
  BY <1>6 DEF StabilizeCandidate, StoresMove
<1>7. ASSUME NEW j \in Jobs, Detect(j) PROVE StoresMove
  BY <1>7 DEF Detect, NotFrozen, StoresMove
<1>8. ASSUME NEW w \in Workers, WorkerStep(w) PROVE StoresMove
  <2>1. CASE Apply(w)
    BY <2>1 DEF Apply, StoresMove
  <2>2. CASE Conclude(w)
    BY <2>2 DEF Conclude, Restored, StoresMove
  <2>3. CASE ~Apply(w) /\ ~Conclude(w)
    <3>1. Bookkeeping
      BY <1>8, <2>3, WorkerBookkeeping DEF WorkerStep
    <3> QED BY <3>1 DEF Bookkeeping, StoresMove
  <2> QED BY <2>1, <2>2, <2>3
<1>9. ASSUME (\E k \in Keys : Lapse(k)) \/ UNCHANGED vars PROVE StoresMove
  BY <1>9 DEF Lapse, vars, StoresMove
<1> QED
  BY <1>1, <1>2, <1>3, <1>4, <1>5, <1>6, <1>7, <1>8, <1>9 DEF Next, RolloutStep

\* The stores have reached the generation a job installs.
ControlReached(j) == control.gen > spec[j].gen
RouteReached(j) == route.gen > spec[j].gen

\* Generations are not used twice: what has stopped naming a candidate never
\* names it again.
LEMMA MismatchStays ==
  ASSUME TypeInv, [Next]_vars, NEW j \in Jobs, spec[j] \in Specs
  PROVE  /\ spec'[j] = spec[j]
         /\ ControlReached(j) => /\ ControlReached(j)'
                                 /\ ~ControlMatches(j) => ~ControlMatches(j)'
         /\ RouteReached(j) => /\ RouteReached(j)'
                               /\ ~RouteMatches(j) => ~RouteMatches(j)'
<1>1. StoresMove
  BY StoresMoveSlowly
<1>2. spec'[j] = spec[j] /\ spec[j].gen \in Nat /\ spec[j].target \in Revisions
  BY <1>1, TypeFacts DEF StoresMove, Specs
<1>3. ASSUME RouteReached(j)
      PROVE  RouteReached(j)' /\ (~RouteMatches(j) => ~RouteMatches(j)')
  <2>1. route # NoRoute /\ route.gen \in Nat
    BY <1>2, <1>3, TypeFacts DEF RouteReached, NoRoute, Snapshots
  <2>2. route' = route \/ route'.gen = route.gen + 1
    BY <1>1, <2>1 DEF StoresMove
  <2> QED BY <1>2, <1>3, <2>1, <2>2 DEF RouteReached, RouteMatches
<1>4. ASSUME ControlReached(j)
      PROVE  ControlReached(j)' /\ (~ControlMatches(j) => ~ControlMatches(j)')
  <2>1. /\ control \in [active : Revisions, good : Revisions, gen : Nat,
                        rollback : Jobs \cup {None}]
        /\ control # NoControl /\ control.gen \in Nat
    BY <1>2, <1>4, TypeFacts DEF TypeOK, ControlReached, NoControl
  <2>2. CASE control' = control
    BY <1>2, <1>4, <2>2 DEF ControlReached, ControlMatches
  <2>3. CASE control'.gen = control.gen + 1
    BY <1>2, <1>4, <2>1, <2>3 DEF ControlReached, ControlMatches
  <2>4. CASE control' = [control EXCEPT !.good = control.active]
    BY <1>2, <1>4, <2>1, <2>4 DEF ControlReached, ControlMatches
  <2>5. CASE \E i \in Jobs : control' = [control EXCEPT !.rollback = i]
    BY <1>2, <1>4, <2>1, <2>5, NotNone DEF ControlReached, ControlMatches
  <2> QED BY <1>1, <2>1, <2>2, <2>3, <2>4, <2>5 DEF StoresMove
<1> QED BY <1>2, <1>3, <1>4

MonitorRecord ==
  [pc : {"idle", "start", "control", "route", "probe", "control again", "route again",
         "publish", "signal"},
   win : Windows \cup {<<None, None>>}, at : Nat, match : BOOLEAN, health : Verdicts]

Answering(m) == MonitorAt(m, "probe") \/ MonitorAt(m, "control again")

\* What a monitor has seen so far still says something: while it waits for the
\* answer, a candidate that was named before and is not now is not steady.
Watches(m) ==
  /\ ~MonitorAt(m, "idle") => Win(m) \in Windows /\ spec[Job(m)] \in Specs
  /\ MonitorAt(m, "route") /\ monitor[m].match => ControlReached(Job(m))
  /\ Answering(m) => /\ ControlReached(Job(m)) /\ RouteReached(Job(m))
                     /\ m \notin steady => ~Matches(Job(m))
  /\ MonitorAt(m, "route again") /\ monitor[m].match =>
       RouteReached(Job(m)) /\ (m \notin steady => ~RouteMatches(Job(m)))
  /\ MonitorAt(m, "publish") /\ monitor[m].match => m \in steady

WatchInv ==
  /\ TypeInv
  /\ window \in [Windows -> Seq(Verdicts)]
  /\ monitor \in [Monitors -> MonitorRecord]
  /\ \A m \in Monitors : Watches(m)

LEMMA WatchFacts ==
  ASSUME WatchInv, NEW m \in Monitors
  PROVE  /\ TypeInv /\ Watches(m) /\ monitor[m] \in MonitorRecord
         /\ monitor \in [Monitors -> MonitorRecord]
         /\ Watching \in MonitorRecord /\ Watching.pc = "idle"
         /\ ~MonitorAt(m, "idle") =>
              Win(m) \in Windows /\ Job(m) \in Jobs /\ spec[Job(m)] \in Specs
<1>1. Watching \in MonitorRecord /\ Watching.pc = "idle"
  BY DEF Watching, MonitorRecord, Verdicts
<1> QED BY <1>1 DEF WatchInv, Watches, Windows, Job

\* A monitor that waits while the release goes on.
LEMMA ReleaseGoesOn ==
  ASSUME WatchInv, [Next]_vars, NEW m \in Monitors, monitor'[m] = monitor[m],
         (m \in steady) => (m \in steady') \/ (Answering(m) /\ ~Matches(Job(m))')
  PROVE  Watches(m)'
<1> DEFINE j == Job(m)
<1>1. UNCHANGED <<Win(m), j, MonitorAt(m, "idle"), MonitorAt(m, "route"),
                  Answering(m), MonitorAt(m, "route again"),
                  MonitorAt(m, "publish"), monitor[m].match>>
  BY DEF Win, Job, MonitorAt, Answering
<1>2. CASE MonitorAt(m, "idle")
  BY <1>1, <1>2 DEF Watches, MonitorAt, Answering
<1>3. CASE ~MonitorAt(m, "idle")
  <2>1. TypeInv /\ Watches(m) /\ j \in Jobs /\ spec[j] \in Specs /\ Win(m) \in Windows
    BY <1>3, WatchFacts
  <2>2. /\ spec'[j] = spec[j]
        /\ ControlReached(j) => /\ ControlReached(j)'
                                /\ ~ControlMatches(j) => ~ControlMatches(j)'
        /\ RouteReached(j) => /\ RouteReached(j)'
                              /\ ~RouteMatches(j) => ~RouteMatches(j)'
    BY <2>1, MismatchStays, <1>1
  <2> HIDE DEF j
  <2>3. j' = j
    BY <1>1
  <2>4. (~MonitorAt(m, "idle") => Win(m) \in Windows /\ spec[Job(m)] \in Specs)'
    BY <1>1, <2>1, <2>2, <2>3 DEF j
  <2>5. (MonitorAt(m, "route") /\ monitor[m].match => ControlReached(j))'
    BY <1>1, <2>1, <2>2, <2>3 DEF Watches, j
  <2>6. (Answering(m) => /\ ControlReached(j) /\ RouteReached(j)
                         /\ m \notin steady => ~Matches(j))'
    BY <1>1, <2>1, <2>2, <2>3 DEF Watches, Matches, j
  <2>7. (MonitorAt(m, "route again") /\ monitor[m].match =>
           RouteReached(j) /\ (m \notin steady => ~RouteMatches(j)))'
    BY <1>1, <2>1, <2>2, <2>3 DEF Watches, j, Answering, MonitorAt
  <2>8. (MonitorAt(m, "publish") /\ monitor[m].match => m \in steady)'
    BY <1>1, <2>1, <2>2, <2>3 DEF Watches, j, Answering, MonitorAt
  <2> QED BY <2>4, <2>5, <2>6, <2>7, <2>8 DEF Watches, j
<1> QED BY <1>2, <1>3

\* A step of one monitor, which touches no store.
Probing(m) ==
  /\ UNCHANGED vars
  /\ window' \in [Windows -> Seq(Verdicts)]
  /\ \E q \in MonitorRecord : monitor' = [monitor EXCEPT ![m] = q]
  /\ \A n \in Monitors \ {m} : n \in steady <=> n \in steady'
  /\ Watches(m)'

LEMMA ProbingKeeps ==
  ASSUME WatchInv, NEW m \in Monitors, Probing(m)
  PROVE  WatchInv'
<1>1. TypeInv'
  BY TypeStep DEF WatchInv, Probing
<1>2. monitor' \in [Monitors -> MonitorRecord]
      /\ \A n \in Monitors \ {m} : monitor'[n] = monitor[n]
  BY DEF WatchInv, Probing
<1>3. ASSUME NEW n \in Monitors \ {m} PROVE Watches(n)'
  BY <1>2, <1>3, ReleaseGoesOn DEF Probing
<1> QED BY <1>1, <1>2, <1>3 DEF WatchInv, Probing

\* The stores as the monitor of the step sees them, before and after.
LEMMA StoresStay ==
  ASSUME UNCHANGED vars, NEW j
  PROVE  /\ spec'[j] = spec[j]
         /\ ControlReached(j)' = ControlReached(j) /\ RouteReached(j)' = RouteReached(j)
         /\ ControlMatches(j)' = ControlMatches(j) /\ RouteMatches(j)' = RouteMatches(j)
         /\ Matches(j)' = Matches(j)
BY DEF vars, routeStore, controlStore, ControlReached, RouteReached, ControlMatches,
       RouteMatches, Matches

\* The monitor stops here, or has not compared anything yet.
LEMMA NothingSeen ==
  ASSUME WatchInv, NEW m \in Monitors, UNCHANGED vars,
         window' \in [Windows -> Seq(Verdicts)],
         NEW q \in MonitorRecord, monitor' = [monitor EXCEPT ![m] = q],
         q.pc \in {"idle", "start", "control", "signal"},
         q.pc # "idle" => q.win \in Windows /\ spec[q.win[1]] \in Specs,
         \A n \in Monitors \ {m} : n \in steady <=> n \in steady'
  PROVE  Probing(m)
<1>1. monitor'[m] = q
  BY WatchFacts
<1>2. spec' = spec
  BY DEF vars
<1>3. Watches(m)'
  BY <1>1, <1>2 DEF Watches, MonitorAt, Answering, Win, Job
<1> QED BY <1>3 DEF Probing

LEMMA ReadsHistoryProbing ==
  ASSUME WatchInv, NEW m \in Monitors, NEW win \in Windows, ReadsHistory(m, win)
  PROVE  Probing(m)
<1>1. win[1] \in Jobs /\ spec[win[1]] \in Specs
  BY TypeFacts DEF WatchInv, Windows, ReadsHistory, NoSpec
<1>2. window \in [Windows -> Seq(Verdicts)] /\ Len(window[win]) + 1 \in Nat
  BY DEF WatchInv
<1> DEFINE start == [Watching EXCEPT !.pc = "start", !.win = win, !.at = Len(window[win]) + 1]
           signal == [Watching EXCEPT !.pc = "signal", !.win = win]
<1>3. start \in MonitorRecord /\ start.pc = "start" /\ start.win = win
  BY <1>2, WatchFacts DEF MonitorRecord, Watching
<1>4. signal \in MonitorRecord /\ signal.pc = "signal" /\ signal.win = win
  BY WatchFacts DEF MonitorRecord, Watching
<1>5. monitor' = [monitor EXCEPT ![m] = start] \/ monitor' = [monitor EXCEPT ![m] = signal]
  BY DEF ReadsHistory
<1>6. UNCHANGED <<vars, window, steady>>
  BY DEF ReadsHistory
<1> HIDE DEF start, signal
<1> QED BY <1>1, <1>2, <1>3, <1>4, <1>5, <1>6, NothingSeen

\* The steps that give up: the stage is another's, cancelled, or the process dies.
LEMMA SettlesProbing ==
  ASSUME WatchInv, NEW m \in Monitors, Settles(m), UNCHANGED <<vars, window>>,
         \A n \in Monitors \ {m} : n \in steady <=> n \in steady'
  PROVE  Probing(m)
<1>1. monitor' = [monitor EXCEPT ![m] = Watching] /\ window' \in [Windows -> Seq(Verdicts)]
  BY DEF Settles, WatchInv
<1> QED BY <1>1, WatchFacts, NothingSeen

LEMMA StartsProbeProbing ==
  ASSUME WatchInv, NEW m \in Monitors, StartsProbe(m)
  PROVE  Probing(m)
<1> DEFINE q == [monitor[m] EXCEPT !.pc = "control"]
<1>1. CASE Settles(m)
  BY <1>1, SettlesProbing DEF StartsProbe
<1>2. CASE monitor' = [monitor EXCEPT ![m].pc = "control"]
  <2>1. q \in MonitorRecord /\ q.pc = "control" /\ q.win = Win(m)
        /\ monitor' = [monitor EXCEPT ![m] = q]
    BY <1>2, WatchFacts DEF MonitorRecord, Win
  <2>2. Win(m) \in Windows /\ spec[Win(m)[1]] \in Specs
    BY WatchFacts DEF StartsProbe, MonitorAt, Job
  <2>3. UNCHANGED <<vars, window, steady>> /\ window' \in [Windows -> Seq(Verdicts)]
    BY DEF StartsProbe, WatchInv
  <2> HIDE DEF q
  <2> QED BY <2>1, <2>2, <2>3, NothingSeen
<1> QED BY <1>1, <1>2 DEF StartsProbe

LEMMA GivesUpProbing ==
  ASSUME WatchInv, NEW m \in Monitors, CancelsProbe(m) \/ MonitorDies(m)
  PROVE  Probing(m)
<1>1. Settles(m) /\ UNCHANGED <<vars, window>>
      /\ \A n \in Monitors \ {m} : n \in steady <=> n \in steady'
  BY DEF CancelsProbe, MonitorDies
<1> QED BY <1>1, SettlesProbing

LEMMA PublishesProbing ==
  ASSUME WatchInv, NEW m \in Monitors, PublishesProbe(m)
  PROVE  Probing(m)
<1> DEFINE seq == Append(window[Win(m)], IF monitor[m].match THEN monitor[m].health ELSE "stale")
           signal == [Watching EXCEPT !.pc = "signal", !.win = Win(m)]
<1>1. Win(m) \in Windows /\ spec[Win(m)[1]] \in Specs
  BY WatchFacts DEF PublishesProbe, MonitorAt, Job
<1>2. seq \in Seq(Verdicts)
  <2>1. (IF monitor[m].match THEN monitor[m].health ELSE "stale") \in Verdicts
    BY WatchFacts DEF MonitorRecord, Verdicts
  <2>2. window[Win(m)] \in Seq(Verdicts)
    BY <1>1 DEF WatchInv
  <2> QED BY <2>1, <2>2
<1>3. /\ window' = [window EXCEPT ![Win(m)] = seq] /\ UNCHANGED vars
      /\ \A n \in Monitors \ {m} : n \in steady <=> n \in steady'
      /\ \/ monitor' = [monitor EXCEPT ![m] = signal]
         \/ monitor' = [monitor EXCEPT ![m] = Watching]
  BY DEF PublishesProbe
<1>4. signal \in MonitorRecord /\ signal.pc = "signal" /\ signal.win = Win(m)
  BY <1>1, WatchFacts DEF MonitorRecord, Watching
<1> HIDE DEF seq, signal
<1>5. window' \in [Windows -> Seq(Verdicts)]
  BY <1>2, <1>3 DEF WatchInv
<1> QED BY <1>1, <1>3, <1>4, <1>5, WatchFacts, NothingSeen

LEMMA ReadsControlProbing ==
  ASSUME WatchInv, NEW m \in Monitors, ReadsControl(m)
  PROVE  Probing(m)
<1> DEFINE j == Job(m)
           first == [monitor[m] EXCEPT !.pc = "route", !.match = ControlMatches(j)]
           again == [monitor[m] EXCEPT !.pc = "route again", !.match = ControlMatches(j)]
<1>1. /\ UNCHANGED <<vars, window, steady>> /\ window' \in [Windows -> Seq(Verdicts)]
      /\ ControlMatches(j) \in BOOLEAN
  BY DEF ReadsControl, WatchInv, ControlMatches
<1>2. ~MonitorAt(m, "idle")
  BY DEF ReadsControl, MonitorAt
<1>3. Win(m) \in Windows /\ j \in Jobs /\ spec[j] \in Specs /\ Watches(m)
  BY <1>2, WatchFacts
<1>4. CASE MonitorAt(m, "control")
  <2>1. /\ first \in MonitorRecord /\ first.pc = "route" /\ first.win = Win(m)
        /\ first.match = ControlMatches(j)
    BY <1>1, WatchFacts DEF MonitorRecord, Win
  <2>2. monitor' = [monitor EXCEPT ![m] = first] /\ monitor'[m] = first
    BY <1>4, WatchFacts DEF ReadsControl, MonitorAt
  <2>3. Job(m)' = j /\ Win(m)' = Win(m)
    BY <2>1, <2>2 DEF Job, Win
  <2>4. ControlMatches(j) => ControlReached(j)
    BY <1>3 DEF ControlMatches, ControlReached, Specs
  <2> HIDE DEF first, j
  <2>5. Watches(m)'
    BY <1>1, <1>3, <2>1, <2>2, <2>3, <2>4, StoresStay DEF Watches, MonitorAt, Answering
  <2> QED BY <1>1, <2>1, <2>2, <2>5 DEF Probing
<1>5. CASE MonitorAt(m, "control again")
  <2>1. /\ again \in MonitorRecord /\ again.pc = "route again" /\ again.win = Win(m)
        /\ again.match = ControlMatches(j)
    BY <1>1, WatchFacts DEF MonitorRecord, Win
  <2>2. monitor' = [monitor EXCEPT ![m] = again] /\ monitor'[m] = again
    BY <1>5, WatchFacts DEF ReadsControl, MonitorAt
  <2>3. Job(m)' = j /\ Win(m)' = Win(m)
    BY <2>1, <2>2 DEF Job, Win
  <2>4. RouteReached(j) /\ (ControlMatches(j) /\ m \notin steady => ~RouteMatches(j))
    BY <1>3, <1>5 DEF Watches, Answering, Matches
  <2> HIDE DEF again, j
  <2>5. Watches(m)'
    BY <1>1, <1>3, <2>1, <2>2, <2>3, <2>4, StoresStay DEF Watches, MonitorAt, Answering
  <2> QED BY <1>1, <2>1, <2>2, <2>5 DEF Probing
<1> QED BY <1>4, <1>5 DEF ReadsControl

LEMMA ReadsRouteProbing ==
  ASSUME WatchInv, NEW m \in Monitors, ReadsRoute(m)
  PROVE  Probing(m)
<1> DEFINE j == Job(m)
           asks == [monitor[m] EXCEPT !.pc = "probe"]
           not == [monitor[m] EXCEPT !.pc = "publish", !.match = FALSE]
<1>1. UNCHANGED <<vars, window>> /\ window' \in [Windows -> Seq(Verdicts)]
      /\ MonitorAt(m, "route")
  BY DEF ReadsRoute, WatchInv
<1>2. Win(m) \in Windows /\ j \in Jobs /\ spec[j] \in Specs /\ Watches(m)
  BY <1>1, WatchFacts DEF MonitorAt
<1>3. CASE monitor[m].match /\ RouteMatches(j)
  <2>1. asks \in MonitorRecord /\ asks.pc = "probe" /\ asks.win = Win(m)
    BY WatchFacts DEF MonitorRecord, Win
  <2>2. monitor' = [monitor EXCEPT ![m] = asks] /\ monitor'[m] = asks
    BY <1>3, WatchFacts DEF ReadsRoute
  <2>3. Job(m)' = j /\ Win(m)' = Win(m)
    BY <2>1, <2>2 DEF Job, Win
  <2>4. ControlReached(j) /\ RouteReached(j)
    <3>1. spec[j].gen \in Nat /\ route.gen = spec[j].gen + 1
      BY <1>2, <1>3 DEF RouteMatches, Specs
    <3>2. ControlReached(j)
      BY <1>1, <1>2, <1>3 DEF Watches
    <3> QED BY <3>1, <3>2 DEF RouteReached
  <2>5. steady' = IF Matches(j) THEN steady \cup {m} ELSE steady \ {m}
    BY <1>3 DEF ReadsRoute
  <2> HIDE DEF asks, j
  <2>6. Watches(m)'
    BY <1>1, <1>2, <2>1, <2>2, <2>3, <2>4, <2>5, StoresStay
       DEF Watches, MonitorAt, Answering
  <2> QED BY <1>1, <2>1, <2>2, <2>5, <2>6 DEF Probing
<1>4. CASE ~(monitor[m].match /\ RouteMatches(j))
  <2>1. /\ not \in MonitorRecord /\ not.pc = "publish" /\ not.win = Win(m)
        /\ not.match = FALSE
    BY WatchFacts DEF MonitorRecord, Win
  <2>2. monitor' = [monitor EXCEPT ![m] = not] /\ monitor'[m] = not /\ UNCHANGED steady
    BY <1>4, WatchFacts DEF ReadsRoute
  <2>3. Job(m)' = j /\ Win(m)' = Win(m)
    BY <2>1, <2>2 DEF Job, Win
  <2> HIDE DEF not, j
  <2>4. Watches(m)'
    BY <1>1, <1>2, <2>1, <2>2, <2>3, StoresStay DEF Watches, MonitorAt, Answering
  <2> QED BY <1>1, <2>1, <2>2, <2>4 DEF Probing
<1> QED BY <1>3, <1>4

LEMMA ProbesHealthProbing ==
  ASSUME WatchInv, NEW m \in Monitors, ProbesHealth(m)
  PROVE  Probing(m)
<1> DEFINE j == Job(m)
<1>1. PICK health \in {"healthy", "failed"} :
        monitor' = [monitor EXCEPT ![m].pc = "control again", ![m].health = health]
  BY DEF ProbesHealth
<1> DEFINE q == [monitor[m] EXCEPT !.pc = "control again", !.health = health]
<1>2. UNCHANGED <<vars, window, steady>> /\ window' \in [Windows -> Seq(Verdicts)]
      /\ MonitorAt(m, "probe")
  BY DEF ProbesHealth, WatchInv
<1>3. Win(m) \in Windows /\ j \in Jobs /\ spec[j] \in Specs /\ Watches(m)
  BY <1>2, WatchFacts DEF MonitorAt
<1>4. q \in MonitorRecord /\ q.pc = "control again" /\ q.win = Win(m)
  BY WatchFacts DEF MonitorRecord, Win, Verdicts
<1>5. monitor' = [monitor EXCEPT ![m] = q] /\ monitor'[m] = q
  BY <1>1, WatchFacts
<1>6. Job(m)' = j /\ Win(m)' = Win(m)
  BY <1>4, <1>5 DEF Job, Win
<1>7. ControlReached(j) /\ RouteReached(j) /\ (m \notin steady => ~Matches(j))
  BY <1>2, <1>3 DEF Watches, Answering
<1> HIDE DEF q, j
<1>8. Watches(m)'
  BY <1>2, <1>3, <1>4, <1>5, <1>6, <1>7, StoresStay DEF Watches, MonitorAt, Answering
<1> QED BY <1>2, <1>4, <1>5, <1>8 DEF Probing

\* The second comparison: a route that still names the candidate has named it
\* all the time, and so has the row that was read just before.
LEMMA ReadsRouteAgainProbing ==
  ASSUME WatchInv, NEW m \in Monitors, ReadsRouteAgain(m)
  PROVE  Probing(m)
<1> DEFINE j == Job(m)
           q == [monitor[m] EXCEPT !.pc = "publish", !.match = MatchesAgain(m)]
<1>1. UNCHANGED <<vars, window, steady>> /\ window' \in [Windows -> Seq(Verdicts)]
      /\ MonitorAt(m, "route again")
  BY DEF ReadsRouteAgain, WatchInv
<1>2. Win(m) \in Windows /\ j \in Jobs /\ spec[j] \in Specs /\ Watches(m)
  BY <1>1, WatchFacts DEF MonitorAt
<1>3. MatchesAgain(m) \in BOOLEAN
  BY WatchFacts DEF MonitorRecord, MatchesAgain, RouteMatches
<1>4. /\ q \in MonitorRecord /\ q.pc = "publish" /\ q.win = Win(m)
      /\ q.match = MatchesAgain(m)
  BY <1>3, WatchFacts DEF MonitorRecord, Win
<1>5. monitor' = [monitor EXCEPT ![m] = q] /\ monitor'[m] = q
  BY WatchFacts DEF ReadsRouteAgain
<1>6. Job(m)' = j /\ Win(m)' = Win(m)
  BY <1>4, <1>5 DEF Job, Win
<1>7. MatchesAgain(m) => m \in steady
  BY <1>1, <1>2 DEF Watches, MatchesAgain
<1> HIDE DEF q, j
<1>8. Watches(m)'
  BY <1>1, <1>2, <1>4, <1>5, <1>6, <1>7, StoresStay DEF Watches, MonitorAt, Answering
<1> QED BY <1>1, <1>4, <1>5, <1>8 DEF Probing

LEMMA WatchStep ==
  ASSUME WatchInv, [MonitoredNext]_allVars
  PROVE  WatchInv'
<1>1. ASSUME NEW m \in Monitors, ProbeStep(m) PROVE WatchInv'
  <2>1. Probing(m)
    BY <1>1, ReadsHistoryProbing, StartsProbeProbing, GivesUpProbing, ReadsControlProbing,
       ReadsRouteProbing, ProbesHealthProbing, ReadsRouteAgainProbing, PublishesProbing
       DEF ProbeStep
  <2> QED BY <2>1, ProbingKeeps
<1>2. ASSUME ReleaseStep, UNCHANGED <<window, probe, monitor>>, StillSteady
      PROVE  WatchInv'
  <2>1. [Next]_vars
    BY <1>2 DEF ReleaseStep, complete_probation, Next, RolloutStep
  <2>2. ASSUME NEW m \in Monitors PROVE Watches(m)'
    <3>1. (m \in steady) => (m \in steady') \/ (Answering(m) /\ ~Matches(Job(m))')
      <4>1. Answering(m) => Job(m) \in Jobs
        BY WatchFacts DEF Answering, MonitorAt
      <4>2. Job(m)' = Job(m)
        BY <1>2 DEF Job, Win
      <4> QED BY <1>2, <4>1, <4>2 DEF StillSteady, Answering
    <3> QED BY <1>2, <2>1, <3>1, ReleaseGoesOn
  <2>3. TypeInv'
    BY <2>1, TypeStep DEF WatchInv
  <2> QED BY <1>2, <2>2, <2>3 DEF WatchInv
<1>3. ASSUME NEW k \in Monitors, RaisesSignal(k), StillSteady
      PROVE  WatchInv'
  <2>1. [Next]_vars
    <3>1. Job(k) \in Jobs
      BY <1>3, WatchFacts DEF RaisesSignal, MonitorAt
    <3>2. Detect(Job(k)) \/ UNCHANGED vars
      BY <1>3 DEF RaisesSignal
    <3> QED BY <3>1, <3>2 DEF Next, RolloutStep
  <2>2. /\ monitor' = [monitor EXCEPT ![k] = Watching] /\ UNCHANGED window
        /\ monitor' \in [Monitors -> MonitorRecord] /\ monitor'[k].pc = "idle"
    BY <1>3, WatchFacts DEF RaisesSignal, Settles
  <2>3. ASSUME NEW m \in Monitors \ {k} PROVE Watches(m)'
    <3>1. monitor'[m] = monitor[m]
      BY <2>2, WatchFacts
    <3>2. (m \in steady) => (m \in steady') \/ (Answering(m) /\ ~Matches(Job(m))')
      <4>1. Answering(m) => Job(m) \in Jobs
        BY WatchFacts DEF Answering, MonitorAt
      <4>2. Job(m)' = Job(m)
        BY <3>1 DEF Job, Win
      <4> QED BY <1>3, <4>1, <4>2 DEF StillSteady, Answering
    <3> QED BY <2>1, <3>1, <3>2, ReleaseGoesOn
  <2>4. Watches(k)'
    BY <2>2 DEF Watches, MonitorAt, Answering
  <2>5. TypeInv'
    BY <2>1, TypeStep DEF WatchInv
  <2> QED BY <2>2, <2>3, <2>4, <2>5 DEF WatchInv
<1>4. ASSUME UNCHANGED allVars
      PROVE  WatchInv'
  <2>1. UNCHANGED <<vars, window, monitor, steady>>
    BY <1>4 DEF allVars, monitorVars
  <2>2. ASSUME NEW m \in Monitors PROVE Watches(m)'
    BY <2>1, ReleaseGoesOn
  <2>3. TypeInv'
    BY <2>1, TypeStep DEF WatchInv
  <2> QED BY <2>1, <2>2, <2>3 DEF WatchInv
<1> QED BY <1>1, <1>2, <1>3, <1>4 DEF MonitoredNext

\* WatchInv holds in every reachable state of the monitored release.
LEMMA WatchInductive == MonitoredSpec => []WatchInv
<1>1. MonitoredInit => WatchInv
  <2> SUFFICES ASSUME MonitoredInit PROVE WatchInv
    OBVIOUS
  <2>1. TypeInv
    BY TypeInit DEF MonitoredInit
  <2>2. Watching \in MonitorRecord /\ Watching.pc = "idle"
    BY DEF Watching, MonitorRecord, Verdicts
  <2>3. window \in [Windows -> Seq(Verdicts)]
    BY DEF MonitoredInit
  <2>4. \A m \in Monitors : Watches(m)
    BY <2>2 DEF MonitoredInit, Watches, MonitorAt, Answering
  <2> QED BY <2>1, <2>2, <2>3, <2>4 DEF WatchInv, MonitoredInit
<1>2. WatchInv /\ [MonitoredNext]_allVars => WatchInv'
  BY WatchStep
<1> QED BY <1>1, <1>2, PTL DEF MonitoredSpec

\* For any number of jobs, workers and monitors, and for every kind of
\* pipeline: a verdict that counts was answered while control and traffic named
\* the candidate without a gap, although the two stores are only compared before
\* and after the request, one after the other.
THEOREM SteadyCorrect == MonitoredSpec => []SteadyVerdicts
<1>1. WatchInv => SteadyVerdicts
  BY DEF WatchInv, Watches, SteadyVerdicts
<1> QED BY <1>1, WatchInductive, PTL

\* A step of the monitored release is a step of the release, or one it does not
\* see: the monitors choose among the detections and stabilisations it allows.
LEMMA MonitoredStep ==
  ASSUME WatchInv, [MonitoredNext]_allVars
  PROVE  [Next]_vars
<1>1. CASE ReleaseStep
  BY <1>1 DEF ReleaseStep, complete_probation, Next, RolloutStep
<1>2. ASSUME NEW m \in Monitors, RaisesSignal(m) PROVE [Next]_vars
  <2>1. Job(m) \in Jobs
    BY <1>2, WatchFacts DEF RaisesSignal, MonitorAt
  <2>2. Detect(Job(m)) \/ UNCHANGED vars
    BY <1>2 DEF RaisesSignal
  <2> QED BY <2>1, <2>2 DEF Next, RolloutStep
<1>3. ASSUME NEW m \in Monitors, ProbeStep(m) PROVE UNCHANGED vars
  BY <1>3 DEF ProbeStep, ReadsHistory, StartsProbe, CancelsProbe, ReadsControl, ReadsRoute,
     ProbesHealth, ReadsRouteAgain, PublishesProbe, MonitorDies
<1> QED BY <1>1, <1>2, <1>3 DEF MonitoredNext, allVars

\* monitor.py adds no behaviour to the release: whatever is proved about Spec
\* for detections and stabilisations of any kind holds with the monitors.
THEOREM MonitorsImplement == MonitoredSpec => Spec
<1>1. MonitoredInit => Init
  BY DEF MonitoredInit
<1> QED BY <1>1, WatchInductive, MonitoredStep, PTL DEF MonitoredSpec, Spec

\* So with any number of probe monitors running, whatever they observe and
\* wherever they die, the release keeps the promise of Rollout, a rollback
\* freezes promotion and the fallback can be trusted.
THEOREM MonitoredPromise ==
  ASSUME ProducerOnly
  PROVE  MonitoredSpec => /\ KeepsPromise
                          /\ RollbackFreezesPromotion
                          /\ [](KnownGoodIsProven /\ RolledBackIsNotTrusted)
  BY MonitorsImplement, PromiseKept, FreezeCorrect, FallbackCorrect, TrustCorrect, PTL

-----------------------------------------------------------------------------
(* An open rollback can be finished *)

\* "verifying" is recorded only behind an apply that returned, and an apply that
\* returned has its row in the action log, its own or the one it found there.
AppliedInv ==
  /\ \A k \in Keys : Status(k) = "verifying" => actions[k] # NoRoute
  /\ \A w \in Workers : worker[w].pc = "applied" => actions[Key(w)] # NoRoute

\* A step that neither records an apply nor returns from one.
AppliesNothing ==
  /\ UNCHANGED actions
  /\ \A k \in Keys : Status(k)' = "verifying" => Status(k) = "verifying"
  /\ \A w \in Workers : worker'[w].pc = "applied" => worker'[w] = worker[w]

LEMMA AppliesNothingKeeps == AppliedInv /\ AppliesNothing => AppliedInv'
  BY DEF AppliedInv, AppliesNothing, Key

LEMMA AppliedRollout ==
  ASSUME TypeInv, NEW j \in Jobs, RolloutStep(j)
  PROVE  AppliesNothing
<1> USE KeyFacts, WorkTypes DEF Status, TypeInv
<1>1. UNCHANGED <<actions, worker>>
  BY DEF RolloutStep, CreateJob, BootstrapRoute, ObserveHealth, AcknowledgeBaseline,
     AcknowledgeCandidate, StabilizeCandidate, Detect, routeStore
<1>2. \/ UNCHANGED task
      \/ task' = [task EXCEPT ![Deploy(j)].status = "registered"]
      \/ task' = [task EXCEPT ![Undo(j)].status = "detected"]
  BY DEF RolloutStep, CreateJob, BootstrapRoute, ObserveHealth, AcknowledgeBaseline,
     AcknowledgeCandidate, StabilizeCandidate, Detect, leases
<1>3. \A k \in Keys : task'[k].status = "verifying" => task[k].status = "verifying"
  BY <1>2 DEF Tasks
<1> QED BY <1>1, <1>3 DEF AppliesNothing

\* The steps of a worker around the adapter call and its record.
LEMMA AppliedWorker ==
  ASSUME TypeInv, NEW w \in Workers, WorkerStep(w), ~Apply(w), ~RecordApplied(w)
  PROVE  AppliesNothing
<1> USE KeyFacts, WorkTypes DEF Status, TypeInv
<1>1. UNCHANGED actions
  BY DEF WorkerStep, ClaimJob, ClaimRollback, Decide, Probe, StartAttempt, Conclude,
     Defer, Release, Crash, routeStore
<1>2. \A k \in Keys : task'[k].status = "verifying" => task[k].status = "verifying"
  <2>1. CASE UNCHANGED task \/ \E i \in Keys : TakeLease(w, i)
    BY <2>1 DEF TakeLease, Tasks
  <2>2. CASE Release(w)
    BY <2>2 DEF Release, Tasks
  <2>3. CASE StartAttempt(w)
    BY <2>3 DEF StartAttempt, Attempted, Tasks
  <2>4. CASE Decide(w) \/ Conclude(w)
    <3>1. PICK s \in {"evaluated", "rejected", "promoted", "restored"} :
            task' = [task EXCEPT ![Key(w)].status = s]
      BY <2>4 DEF Decide, Conclude, Advance, Settled
    <3> QED BY <3>1 DEF Tasks
  <2>5. CASE Defer(w)
    <3>1. CASE task[Key(w)].status = "verifying"
      BY <2>5, <3>1 DEF Defer, Advance, Tasks
    <3>2. CASE task[Key(w)].status # "verifying"
      <4>1. task' = [task EXCEPT ![Key(w)].status = "needs_reconciliation"]
        BY <2>5, <3>2 DEF Defer, Advance
      <4> QED BY <4>1 DEF Tasks
    <3> QED BY <3>1, <3>2
  <2>6. \/ UNCHANGED task
        \/ \E i \in Keys : TakeLease(w, i)
        \/ Release(w) \/ StartAttempt(w) \/ Decide(w) \/ Conclude(w) \/ Defer(w)
    BY DEF WorkerStep, ClaimJob, ClaimRollback, Probe, Crash, leases
  <2> QED BY <2>1, <2>2, <2>3, <2>4, <2>5, <2>6
<1>3. \A v \in Workers : worker'[v].pc = "applied" => worker'[v] = worker[v]
  <2>1. \/ UNCHANGED worker
        \/ \E x : x.pc # "applied" /\ worker' = [worker EXCEPT ![w] = x]
        \/ \E pc \in {"apply", "done"} : worker' = [worker EXCEPT ![w].pc = pc]
        \/ \E pc \in {"probed", "verified"}, seen \in Revisions \cup {None} :
             worker' = [worker EXCEPT ![w].pc = pc, ![w].seen = seen]
    BY DEF WorkerStep, ClaimJob, ClaimRollback, TakeLease, Decide, Probe, StartAttempt,
       Conclude, Defer, Release, Crash, Goto, Idle
  <2> QED BY <2>1 DEF Works
<1> QED BY <1>1, <1>2, <1>3 DEF AppliesNothing

LEMMA AppliedInductive == Spec => [](TypeInv /\ AppliedInv)
<1>1. Init => TypeInv /\ AppliedInv
  BY TypeInit DEF Init, AppliedInv, Status, NoTask, Idle
<1>2. ASSUME TypeInv, AppliedInv, [Next]_vars PROVE TypeInv' /\ AppliedInv'
  <2> USE <1>2, KeyFacts, WorkTypes DEF TypeInv
  <2>1. TypeInv'
    BY TypeStep
  <2>2. ASSUME NEW j \in Jobs, RolloutStep(j) PROVE AppliedInv'
    BY <2>2, AppliedRollout, AppliesNothingKeeps
  <2>3. ASSUME NEW w \in Workers, Apply(w) PROVE AppliedInv'
    <3>1. worker[w].pc = "apply" /\ Key(w) \in Keys
      BY <2>3 DEF Apply, Busy
    <3>2. worker' = [worker EXCEPT ![w].pc = "applied"] /\ UNCHANGED task
      BY <2>3 DEF Apply, Goto, leases
    <3>3. \/ UNCHANGED actions /\ actions[Key(w)] # NoRoute
          \/ actions' = [actions EXCEPT ![Key(w)] = route'] /\ route' # NoRoute
      <4>1. route.gen + 1 # -1
        BY DEF TypeOK, Snapshots, NoRoute
      <4> QED BY <2>3, <4>1 DEF Apply, routeStore, NoRoute
    <3>4. actions \in [Keys -> Snapshots \cup {NoRoute}]
      BY DEF TypeOK
    <3>5. /\ \A k \in Keys : actions[k] # NoRoute => actions'[k] # NoRoute
          /\ actions'[Key(w)] # NoRoute
      BY <3>1, <3>3, <3>4
    <3>6. ASSUME NEW v \in Workers, worker'[v].pc = "applied"
          PROVE  actions'[Key(v)'] # NoRoute
      <4>1. CASE v = w
        BY <3>2, <3>5, <4>1 DEF Key, Works
      <4>2. CASE v # w
        BY <3>2, <3>5, <3>6, <4>2 DEF Key, Works, AppliedInv, Busy
      <4> QED BY <4>1, <4>2
    <3> QED BY <3>2, <3>5, <3>6 DEF AppliedInv, Status
  <2>4. ASSUME NEW w \in Workers, RecordApplied(w) PROVE AppliedInv'
    <3>1. /\ actions[Key(w)] # NoRoute /\ UNCHANGED actions
          /\ task' = [task EXCEPT ![Key(w)].status = "verifying"]
          /\ worker' = [worker EXCEPT ![w].pc = "verify"]
      BY <2>4 DEF RecordApplied, Advance, Goto, AppliedInv, routeStore
    <3>2. \A k \in Keys : task'[k].status = "verifying" => actions[k] # NoRoute
      BY <3>1 DEF AppliedInv, Status, Tasks
    <3>3. \A v \in Workers : worker'[v].pc = "applied" => worker'[v] = worker[v]
      BY <3>1 DEF Works
    <3> QED BY <3>1, <3>2, <3>3 DEF AppliedInv, Status, Key
  <2>5. ASSUME NEW w \in Workers, WorkerStep(w), ~Apply(w), ~RecordApplied(w)
        PROVE  AppliedInv'
    BY <2>5, AppliedWorker, AppliesNothingKeeps
  <2>6. ASSUME (\E k \in Keys : Lapse(k)) \/ UNCHANGED vars PROVE AppliedInv'
    BY <2>6 DEF Lapse, vars, routeStore, leases, AppliedInv, Status, Key
  <2> QED BY <2>1, <2>2, <2>3, <2>4, <2>5, <2>6 DEF Next
<1> QED BY <1>1, <1>2, PTL DEF Spec

\* A rollback that owns the deployment is never stuck: whoever claims it passes the
\* fence of DeploymentStore._fence, and either WarmRouteStore.apply still accepts
\* its request or its own apply is the current traffic.
THEOREM RollbackFinishCorrect ==
  ASSUME ProducerOnly PROVE Spec => []RollbackCanFinish
<1>1. ASSUME IInv, AppliedInv, NEW j \in Jobs, control.rollback = j
      PROVE  /\ Fenced(Undo(j))
             /\ \/ actions[Undo(j)] = NoRoute /\ Current(Request(Undo(j)))
                \/ actions[Undo(j)] = route
             /\ Status(Undo(j)) = "verifying" => actions[Undo(j)] = route
  <2> USE <1>1 DEF IInv, Core
  <2>1. Undo(j) \in Keys /\ Undo(j)[1] = "rollback" /\ Undo(j)[2] = j
    BY KeyFacts DEF Undo
  <2>2. Request(Undo(j)) = [from |-> spec[j].target, gen |-> spec[j].gen + 1,
                            target |-> goal[j]]
    BY <2>1 DEF Request
  <2>3. /\ control.gen = spec[j].gen + 1
        /\ control.active = spec[j].target
        /\ route.gen = control.gen + 1 => actions[Undo(j)] = route
    BY DEF OwnerInv
  <2>4. Fenced(Undo(j))
    BY <2>1, <2>2, <2>3 DEF Fenced
  <2>5. control # NoControl
    BY NotNone DEF NoControl
  <2>6. /\ control.gen \in Nat
        /\ route \in Snapshots
    BY <2>5 DEF ControlInv, TypeInv, TypeOK
  <2>7. /\ route.gen \in {control.gen, control.gen + 1}
        /\ route.gen = control.gen => route.rev = control.active
    BY <2>5 DEF ControlInv
  <2>8. CASE route.gen = control.gen
    <3>1. Current(Request(Undo(j)))
      BY <2>2, <2>3, <2>6, <2>7, <2>8 DEF Current, Snapshots
    <3>2. actions[Undo(j)] = NoRoute
      <4>1. SUFFICES ASSUME actions[Undo(j)] # NoRoute PROVE FALSE
        OBVIOUS
      <4>2. actions[Undo(j)].gen = control.gen + 1 /\ actions[Undo(j)].gen <= route.gen
        BY <2>1, <2>2, <2>3, <4>1 DEF ActionInv
      <4> QED BY <2>6, <2>8, <4>2
    <3> QED BY <2>1, <2>4, <3>1, <3>2 DEF AppliedInv
  <2>9. CASE route.gen = control.gen + 1
    BY <2>3, <2>4, <2>9
  <2> QED BY <2>7, <2>8, <2>9
<1>2. IInv /\ AppliedInv => RollbackCanFinish
  BY <1>1 DEF RollbackCanFinish
<1> QED BY <1>2, Inductive, AppliedInductive, PTL
=============================================================================
