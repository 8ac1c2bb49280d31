---------------------------- MODULE LocalCapacity ----------------------------
(***************************************************************************)
(* One extra local runtime per deployment: registry/local_capacity.py,     *)
(* reliability/capacity_store.py and reliability/capacity_policy.py.       *)
(*                                                                         *)
(* A plan names the primary it extends, by the generation of the route,    *)
(* and up to eight replicas, one per cycle.  Runners of the plan sample    *)
(* the load of the gateway and, one tick at a time under the fence of the  *)
(* plan, launch a replica, publish it as a pool member, withdraw it, and   *)
(* stop it once its requests are gone.  What is durable is the plan row,   *)
(* the slot of the deployment, the member rows, the admission rows and the *)
(* stage journal; a runner may die between any two transactions, and the   *)
(* daemon may start a container after the runner that asked for it died.   *)
(*                                                                         *)
(* Abstracted: the stages of a launch, a stop and an abort are one row and *)
(* one container per replica, which keeps and is used within Lifetime, the *)
(* specification ManagedRuntime implements; the route and its control      *)
(* record are a generation and whether it is stable, which                 *)
(* ReleaseControl models; time is the class of the gap between two         *)
(* samples.  Left out: primary probes and their tokens, enrolment of a     *)
(* store, byte-level identity checks.                                      *)
(***************************************************************************)
EXTENDS Naturals, FiniteSets

CONSTANTS
  Plans,        \* CapacityPlan: each with a workspace, so a fence, of its own
  Expected,     \* expected_generation of each plan
  Cycles,       \* number of replicas of a plan
  Runners,      \* processes that execute run_plan
  Requests,     \* requests at the gateway
  Primary,      \* marks the runtime the route itself names
  None,
  PerMember,    \* per_member_requests
  HighSamples, LowSamples,   \* dwell of CapacityPolicy
  MaxSamples,   \* max_samples
  MaxGen        \* bound on the generations of the route

ASSUME CapacityAssumption ==
  /\ Expected \in [Plans -> 1 .. MaxGen]
  /\ {Cycles, PerMember, HighSamples, MaxSamples, MaxGen} \subseteq Nat \ {0}
  /\ LowSamples \in Nat /\ LowSamples >= HighSamples
  /\ Primary \notin Plans
  /\ None \notin Plans \cup Runners \cup (Plans \X (0 .. Cycles - 1))
  /\ IsFiniteSet(Requests)

VARIABLES
  route,      \* generation of the route, and what control says of it
  authority,  \* warm_capacity_authority: the plan that owns the deployment
  plan,       \* warm_capacity_plans: the row of each plan
  slot,       \* warm_capacity_slots: the replica that may be allocated
  published,  \* warm_capacity_members: replicas with a row ...
  ready,      \* ... and those of them that are eligible
  backend,    \* warm_backends: the registration of the endpoint
  retired,    \* warm_retirements
  launch,     \* the journal row of the launch stage of each replica
  box,        \* the container of each replica
  rows,       \* warm_admissions: the row of each request
  refused,    \* warm_capacity_demand has grown since the last sample
  runner,     \* the control state of each runner
  quiet       \* idle samples a runner has itself taken in a row (history)

pool == <<published, ready>>
store == <<plan, slot, authority>>
endpoints == <<backend, retired>>
runtime == <<launch, box>>
traffic == <<rows, refused>>
vars == <<route, store, pool, endpoints, runtime, traffic, runner, quiet>>

Replica == Plans \X (0 .. Cycles - 1)
Phases == {"one", "warming", "two", "draining", "blocked", "closed"}

\* CapacityMemory: whose sample was the last one, how many members it saw, and
\* the streaks.  Only the runner that wrote it shares its epoch.
NoMemory == [epoch |-> None, members |-> 1, high |-> 0, low |-> 0]

Absent == [known |-> FALSE, phase |-> "one", cycle |-> 0, samples |-> 0,
           memory |-> NoMemory]

Idle == [pc |-> "idle", plan |-> None, cycle |-> 0, closing |-> FALSE]

\* Inside the "try" of tick, and all of what runs under the fence.
TryPc == {"register", "launching", "publish", "reread", "cleaning", "stop",
          "abort", "release", "settle", "settled"}
FencedPc == TryPc \cup {"retire", "advance", "failing"}

Memory == [epoch : Runners \cup {None}, members : 1 .. 2,
           high : 0 .. HighSamples, low : 0 .. LowSamples]

TypeOK ==
  /\ route \in [gen : 1 .. MaxGen, control : {"pending", "stable", "rollback"}]
  /\ authority \in Plans \cup {None}
  /\ plan \in [Plans -> [known : BOOLEAN, phase : Phases, cycle : Nat,
                         samples : 0 .. MaxSamples, memory : Memory]]
  /\ slot \in Replica \cup {None}
  /\ published \subseteq Replica
  /\ ready \subseteq published
  /\ backend \in [Replica -> {"none", "registered", "released"}]
  /\ retired \subseteq Replica
  /\ launch \in [Replica -> {"none", "running", "completed"}]
  /\ box \in [Replica -> {"none", "requested", "up", "gone"}]
  /\ rows \in [Requests -> [at : Replica \cup ({Primary} \X (1 .. MaxGen))
                                   \cup {None},
                            dispatched : BOOLEAN]]
  /\ refused \in BOOLEAN
  /\ runner \in [Runners -> [pc : FencedPc \cup {"idle", "freeze", "ready"},
                             plan : Plans \cup {None}, cycle : Nat,
                             closing : BOOLEAN]]
  /\ quiet \in [Runners -> 0 .. LowSamples]

-----------------------------------------------------------------------------
(* The deployment *)

\* stable_anchor: the route serves exactly the primary of the plan and control
\* has it as active and known good, with no rollback.
Stable(p) == route = [gen |-> Expected[p], control |-> "stable"]

\* A candidate or a rollback is applied; control does not know it yet.
Cutover ==
  /\ route.gen < MaxGen
  /\ route' = [gen |-> route.gen + 1, control |-> "pending"]
  /\ UNCHANGED <<store, pool, endpoints, runtime, traffic, runner, quiet>>

\* Control accepts what the route serves.
Acknowledge ==
  /\ route.control = "pending"
  /\ route' = [route EXCEPT !.control = "stable"]
  /\ UNCHANGED <<store, pool, endpoints, runtime, traffic, runner, quiet>>

\* A rollback comes to own the deployment; it ends with a cutover.
BeginRollback ==
  /\ route.control = "stable"
  /\ route' = [route EXCEPT !.control = "rollback"]
  /\ UNCHANGED <<store, pool, endpoints, runtime, traffic, runner, quiet>>

-----------------------------------------------------------------------------
(* The gateway *)

Load(m) == Cardinality({q \in Requests : rows[q].at = m})

\* The enrolled plan extends exactly the route that is served.
Anchored == authority # None /\ Expected[authority] = route.gen

Members == {r \in ready : Anchored /\ Expected[r[1]] = route.gen}
Candidates == {<<Primary, route.gen>>} \cup Members

\* Candidates below the limit; without an anchored plan 128 never fills here.
Open == {m \in Candidates : Anchored => Load(m) < PerMember}

\* select_admission: the least loaded candidate, atomically with its row.  A
\* retired candidate would refuse the whole deployment.
Admit(q) ==
  /\ rows[q].at = None
  /\ Candidates \cap retired = {}
  /\ \E m \in Open :
       /\ \A n \in Open : Load(m) <= Load(n)
       /\ rows' = [rows EXCEPT ![q] = [at |-> m, dispatched |-> FALSE]]
  /\ UNCHANGED <<route, store, pool, endpoints, runtime, refused, runner,
                 quiet>>

\* All are full: the demand is recorded and the request refused.
Refuse(q) ==
  /\ rows[q].at = None
  /\ Candidates \cap retired = {}
  /\ Open = {}
  /\ refused' = TRUE
  /\ UNCHANGED <<route, store, pool, endpoints, runtime, rows, runner, quiet>>

\* mark_dispatched: the backend has answered.
Dispatch(q) ==
  /\ rows[q].at # None
  /\ ~rows[q].dispatched
  /\ rows' = [rows EXCEPT ![q].dispatched = TRUE]
  /\ UNCHANGED <<route, store, pool, endpoints, runtime, refused, runner,
                 quiet>>

\* finish_admission: the response is closed.
Finish(q) ==
  /\ rows[q].at # None
  /\ rows' = [rows EXCEPT ![q] = [at |-> None, dispatched |-> FALSE]]
  /\ UNCHANGED <<route, store, pool, endpoints, runtime, refused, runner,
                 quiet>>

-----------------------------------------------------------------------------
(* The policy *)

\* The sample becomes the baseline: streaks restart.
Baseline(obs) == [epoch |-> obs.epoch, members |-> obs.members,
                  high |-> 0, low |-> 0]

Extended(streak, obs, bound) ==
  LET next == (IF obs.gap = "due" THEN streak ELSE 0) + 1
  IN IF next > bound THEN bound ELSE next

\* Fault: streaks survive a change of the process.
FreshAnyEpoch(memory, obs) ==
  /\ memory.epoch # None
  /\ obs.members = memory.members
  /\ obs.gap # "early"

\* A sample that may extend a streak: same process, same membership, not early.
Fresh(memory, obs) ==
  /\ obs.epoch = memory.epoch
  /\ obs.members = memory.members
  /\ obs.gap # "early"

\* decide_capacity.  A gap of more than two periods ("late") breaks a streak;
\* whether the cooldown is over is the clock's choice.
Decide(memory, obs) ==
  IF ~Fresh(memory, obs) THEN [memory |-> Baseline(obs), action |-> "hold"]
  ELSE LET high == IF obs.members = 1 /\ obs.busy
                   THEN Extended(memory.high, obs, HighSamples) ELSE 0
           low == IF obs.members = 2 /\ obs.idle
                  THEN Extended(memory.low, obs, LowSamples) ELSE 0
           action == CASE obs.cooled /\ high >= HighSamples -> "up"
                       [] obs.cooled /\ low >= LowSamples -> "down"
                       [] OTHER -> "hold"
       IN [memory |-> IF action = "hold"
                      THEN [Baseline(obs) EXCEPT !.high = high, !.low = low]
                      ELSE Baseline(obs),
           action |-> action]

\* _observation: what runner c of plan p sees, with thresholds "all slots in
\* use, or a refusal" and "none in use".  A row that is only reserved makes
\* idleness unknown.
Sample(c, p, gap, cooled) ==
  LET own == {r \in ready : r[1] = p}
      all == {<<Primary, Expected[p]>>} \cup own
      mine == {q \in Requests : rows[q].at \in all}
      active == {q \in mine : rows[q].dispatched}
  IN [epoch |-> c, gap |-> gap, cooled |-> cooled,
      members |-> IF own = {} THEN 1 ELSE 2,
      busy |-> refused \/ Cardinality(active) >= Cardinality(all) * PerMember,
      idle |-> ~refused /\ mine = {}]

-----------------------------------------------------------------------------
(* The runner: run_plan, tick and close *)

At(c, pc) == runner[c].pc = pc
Goto(c, pc) == runner' = [runner EXCEPT ![c].pc = pc]
Current(c) == <<runner[c].plan, runner[c].cycle>>

\* attempt_fence of the directory of the plan.
Unfenced(p) == \A c \in Runners : runner[c].plan = p => ~(runner[c].pc \in FencedPc)

\* tick returns: the runner goes on, or ends after close().
EndTick(c) ==
  runner' = [runner EXCEPT ![c] = IF @.closing THEN Idle
                                  ELSE [@ EXCEPT !.pc = "ready"]]

\* _state raises: the plan no longer owns the deployment.
Disowned(c) == authority # runner[c].plan

\* Fault: the members stay eligible.
RemoveNone(p) == ready' = ready

\* remove_members
Remove(p) == ready' = {r \in ready : r[1] # p}

\* Start of run_plan; the constructor reads the state of a plan that exists,
\* and begins an epoch of its own.
Start(c) ==
  /\ At(c, "idle")
  /\ plan' = [p \in Plans |->
       IF plan[p].memory.epoch = c THEN [plan[p] EXCEPT !.memory.epoch = None]
       ELSE plan[p]]
  /\ quiet' = [quiet EXCEPT ![c] = 0]
  /\ \E p \in Plans :
       /\ plan[p].known => authority = p
       /\ runner' = [runner EXCEPT ![c] =
            [pc |-> IF plan[p].known THEN "ready" ELSE "freeze",
             plan |-> p, cycle |-> 0, closing |-> FALSE]]
  /\ UNCHANGED <<route, slot, authority, pool, endpoints, runtime, traffic>>

\* Fault: the slot of the owner is not looked at.
EnrollableAnyway(p) == Stable(p)

\* The deployment is free for plan p: the owner is closed and holds no slot.
Enrollable(p) ==
  /\ Stable(p)
  /\ authority \notin {None, p} =>
       plan[authority].phase = "closed" /\ slot = None

\* freeze_capacity
Freeze(c) ==
  LET p == runner[c].plan
  IN /\ At(c, "freeze")
     /\ IF Enrollable(p)
        THEN /\ plan' = [plan EXCEPT ![p].known = TRUE]
             /\ authority' = p
             /\ Goto(c, "ready")
        ELSE /\ runner' = [runner EXCEPT ![c] = Idle]
             /\ UNCHANGED <<plan, authority>>
     /\ UNCHANGED <<route, slot, pool, endpoints, runtime, traffic, quiet>>

\* tick takes the fence.
BeginTick(c) ==
  /\ At(c, "ready")
  /\ Unfenced(runner[c].plan)
  /\ Goto(c, "advance")
  /\ UNCHANGED <<route, store, pool, endpoints, runtime, traffic, quiet>>

\* close() takes it and keeps it for its last tick.
BeginClose(c) ==
  /\ At(c, "ready")
  /\ Unfenced(runner[c].plan)
  /\ runner' = [runner EXCEPT ![c].pc = "retire", ![c].closing = TRUE]
  /\ UNCHANGED <<route, store, pool, endpoints, runtime, traffic, quiet>>

Stop(c) == runner' = [runner EXCEPT ![c] = Idle]

\* retire() of close: persist the shutdown before any wait.
Retire(c) ==
  LET p == runner[c].plan
  IN /\ At(c, "retire")
     /\ IF Disowned(c)
        THEN Stop(c) /\ UNCHANGED <<plan, ready>>
        ELSE /\ Goto(c, "advance")
             /\ IF plan[p].phase = "closed" THEN UNCHANGED <<plan, ready>>
                ELSE /\ plan' = [plan EXCEPT
                          ![p].phase = IF @ = "one" THEN "closed" ELSE "draining",
                          ![p].samples = MaxSamples]
                     /\ Remove(p)
     /\ UNCHANGED <<route, authority, slot, published, endpoints, runtime,
                    traffic, quiet>>

\* What tick does with the phase _advance returns.
Continue(c, phase) ==
  IF phase \in {"warming", "draining", "blocked"}
  THEN runner' = [runner EXCEPT
         ![c].pc = IF phase = "warming" THEN "register" ELSE "cleaning",
         ![c].cycle = plan[runner[c].plan].cycle]
  ELSE EndTick(c)

\* _advance finds nothing to do, or that the plan is not its own any more.
AdvanceIdle(c) ==
  LET p == runner[c].plan
  IN /\ At(c, "advance")
     /\ \/ Disowned(c) /\ Stop(c)
        \/ /\ ~Disowned(c)
           /\ \/ plan[p].phase = "closed"
              \/ /\ plan[p].phase \in {"warming", "draining", "blocked"}
                 /\ Stable(p)
                 /\ plan[p].samples < MaxSamples
           /\ Continue(c, plan[p].phase)
     /\ UNCHANGED <<route, store, pool, endpoints, runtime, traffic, quiet>>

\* _advance on a changed anchor or a spent sample budget.
AdvanceEnds(c) ==
  LET p == runner[c].plan
      phase == IF plan[p].phase = "one" THEN "closed" ELSE "draining"
  IN /\ At(c, "advance")
     /\ ~Disowned(c)
     /\ plan[p].phase # "closed"
     /\ ~Stable(p) \/ plan[p].samples >= MaxSamples
     /\ plan' = [plan EXCEPT ![p].phase = phase]
     /\ IF phase = "draining" THEN Remove(p) ELSE UNCHANGED ready
     /\ Continue(c, phase)
     /\ UNCHANGED <<route, authority, slot, published, endpoints, runtime,
                    traffic, quiet>>

Judged(c, p, phase, decision) ==
  plan' = [plan EXCEPT ![p].phase = phase, ![p].samples = @ + 1,
                       ![p].memory = decision.memory]

\* History: idle samples in a row that the runner took while two served.
Watched(c, obs) ==
  quiet' = [quiet EXCEPT ![c] =
              CASE obs.members # 2 \/ ~obs.idle -> 0
                [] obs.gap = "late" -> 1
                [] OTHER -> IF @ < LowSamples THEN @ + 1 ELSE @]

\* _advance takes a sample and acts on it; the slot is reserved before any
\* command can reach the daemon.  A plan without a replica left closes.
AdvanceSamples(c) ==
  LET p == runner[c].plan
  IN /\ At(c, "advance")
     /\ ~Disowned(c)
     /\ plan[p].phase \in {"one", "two"}
     /\ Stable(p)
     /\ plan[p].samples < MaxSamples
     /\ \E gap \in {"early", "due", "late"}, cooled \in BOOLEAN :
          LET obs == Sample(c, p, gap, cooled)
              decision == Decide(plan[p].memory, obs)
              up == decision.action = "up" /\ plan[p].phase = "one"
              down == decision.action = "down" /\ plan[p].phase = "two"
              left == plan[p].cycle < Cycles
              phase == CASE up /\ left -> "warming"
                         [] up /\ ~left -> "closed"
                         [] down -> "draining"
                         [] OTHER -> plan[p].phase
          IN /\ up /\ left => slot = None
             /\ slot' = IF up /\ left THEN <<p, plan[p].cycle>> ELSE slot
             /\ IF down THEN Remove(p) ELSE UNCHANGED ready
             /\ Judged(c, p, phase, decision)
             /\ Continue(c, phase)
             /\ Watched(c, obs)
     /\ refused' = FALSE
     /\ UNCHANGED <<route, authority, published, endpoints, runtime, rows>>

\* The endpoint of a plan is one port: another registration refuses it.
PortFree(r) ==
  \A o \in Replica : o[1] = r[1] /\ o # r => backend[o] # "registered"

\* _launch: the primary was observed; register the backend of the replica.
Register(c) ==
  LET r == Current(c)
  IN /\ At(c, "register")
     /\ r \notin retired
     /\ backend[r] # "none" \/ PortFree(r)
     /\ backend' = [backend EXCEPT ![r] = IF @ = "none" THEN "registered" ELSE @]
     /\ Goto(c, "launching")
     /\ UNCHANGED <<route, store, pool, retired, runtime, traffic, quiet>>

\* launch_runtime_stage: the attempt is journaled, then the daemon is asked.
StartLaunch(c) ==
  LET r == Current(c)
  IN /\ At(c, "launching")
     /\ launch[r] = "none"
     /\ launch' = [launch EXCEPT ![r] = "running"]
     /\ UNCHANGED <<route, store, pool, endpoints, box, traffic, runner, quiet>>

Request(c) ==
  LET r == Current(c)
  IN /\ At(c, "launching")
     /\ launch[r] = "running"
     /\ box[r] = "none"
     /\ box' = [box EXCEPT ![r] = "requested"]
     /\ UNCHANGED <<route, store, pool, endpoints, launch, traffic, runner,
                    quiet>>

\* The daemon obeys, also when nobody waits for it any more.
ContainerStarts(r) ==
  /\ box[r] = "requested"
  /\ box' = [box EXCEPT ![r] = "up"]
  /\ UNCHANGED <<route, store, pool, endpoints, launch, traffic, runner, quiet>>

\* The runtime answers and the receipt is journaled, or was journaled before.
ReceiveReceipt(c) ==
  LET r == Current(c)
  IN /\ At(c, "launching")
     /\ launch[r] # "none"
     /\ box[r] = "up"
     /\ launch' = [launch EXCEPT ![r] = "completed"]
     /\ Goto(c, "publish")
     /\ UNCHANGED <<route, store, pool, endpoints, box, traffic, quiet>>

\* _publish_ready: the member row and its eligibility, unless the anchor was
\* lost during the launch.
Publish(c) ==
  LET p == runner[c].plan
      r == Current(c)
  IN /\ At(c, "publish")
     /\ ~Disowned(c)
     /\ plan[p].phase = "warming" /\ plan[p].cycle = runner[c].cycle
     /\ slot = r
     /\ IF Stable(p)
        THEN /\ r \notin retired
             /\ published' = published \cup {r}
             /\ ready' = ready \cup {r}
             /\ plan' = [plan EXCEPT ![p].phase = "two"]
        ELSE /\ plan' = [plan EXCEPT ![p].phase = "draining"]
             /\ UNCHANGED pool
     /\ Goto(c, "reread")
     /\ UNCHANGED <<route, slot, authority, endpoints, runtime, traffic, quiet>>

\* tick reads the state again after the launch.
Reread(c) ==
  LET p == runner[c].plan
  IN /\ At(c, "reread")
     /\ ~Disowned(c)
     /\ IF plan[p].phase \in {"draining", "blocked"}
        THEN runner' = [runner EXCEPT ![c].pc = "cleaning",
                                      ![c].cycle = plan[p].cycle]
        ELSE EndTick(c)
     /\ UNCHANGED <<route, store, pool, endpoints, runtime, traffic, quiet>>

\* retirement_blocked for a drain: the member is eligible under this anchor.
Eligible(r) == r \in ready /\ Expected[r[1]] = route.gen

\* Fault: rows of the member do not hold its retirement up.
DrainedAnyway(r) == TRUE

\* No admission row names the replica.
Drained(r) == Load(r) = 0

\* _cleanup of a replica that was launched: retire_drained refuses further
\* admissions at once and reports when the last row has gone.
RetireDrained(c) ==
  LET r == Current(c)
  IN /\ At(c, "cleaning")
     /\ runner[c].cycle < Cycles
     /\ launch[r] = "completed"
     /\ IF Eligible(r)
        THEN EndTick(c) /\ UNCHANGED retired
        ELSE /\ retired' = retired \cup {r}
             /\ IF Drained(r) THEN Goto(c, "stop") ELSE EndTick(c)
     /\ UNCHANGED <<route, store, pool, backend, runtime, traffic, quiet>>

\* Fault: an attempt is aborted only if its container is seen to run.
AttemptSeen(r) == box[r] = "up"

\* An attempt was journaled, whatever has become of it.
Attempted(r) == launch[r] = "running"

\* _cleanup of a replica that was not: retire_unserved, then abort the attempt
\* if there is one.  A replica that was a member is refused.
RetireUnserved(c) ==
  LET r == Current(c)
  IN /\ At(c, "cleaning")
     /\ runner[c].cycle < Cycles
     /\ launch[r] # "completed"
     /\ r \notin published
     /\ backend[r] # "none" \/ PortFree(r)
     /\ backend' = [backend EXCEPT ![r] = IF @ = "none" THEN "registered" ELSE @]
     /\ retired' = retired \cup {r}
     /\ Goto(c, IF Attempted(r) THEN "abort" ELSE "release")
     /\ UNCHANGED <<route, store, pool, runtime, traffic, quiet>>

\* stop_runtime_stage and abort_runtime_stage: the container is gone for good,
\* and so is a request to start it that the daemon had not obeyed yet.
RuntimeGone(c) ==
  LET r == Current(c)
  IN /\ At(c, "stop") \/ At(c, "abort")
     /\ box' = [box EXCEPT ![r] = "gone"]
     /\ Goto(c, "release")
     /\ UNCHANGED <<route, store, pool, endpoints, launch, traffic, quiet>>

\* release_retired_endpoint
Release(c) ==
  LET r == Current(c)
  IN /\ At(c, "release")
     /\ r \in retired
     /\ backend' = [backend EXCEPT ![r] = "released"]
     /\ Goto(c, "settle")
     /\ UNCHANGED <<route, store, pool, retired, runtime, traffic, quiet>>

\* _settled: the slot is given back, the next cycle starts without memory.
Settle(c) ==
  LET p == runner[c].plan
      cycle == runner[c].cycle + 1
      closed == \/ cycle >= Cycles
                \/ plan[p].samples >= MaxSamples
                \/ ~Stable(p)
  IN /\ At(c, "settle")
     /\ ~Disowned(c)
     /\ plan[p].cycle = runner[c].cycle
     /\ slot' = IF slot = Current(c) THEN None ELSE slot
     /\ plan' = [plan EXCEPT ![p] =
          [@ EXCEPT !.phase = IF closed THEN "closed" ELSE "one",
                    !.cycle = cycle, !.memory = NoMemory]]
     /\ Goto(c, "settled")
     /\ UNCHANGED <<route, authority, pool, endpoints, runtime, traffic, quiet>>

EndCleanup(c) ==
  /\ At(c, "settled")
  /\ EndTick(c)
  /\ UNCHANGED <<route, store, pool, endpoints, runtime, traffic, quiet>>

\* An exception, or the cancellation of the runner, anywhere inside the "try"
\* of tick: owned_disk lets a transaction under way commit first.
Interrupt(c) ==
  /\ runner[c].pc \in TryPc
  /\ Goto(c, "failing")
  /\ UNCHANGED <<route, store, pool, endpoints, runtime, traffic, quiet>>

\* _blocked: no more eligibility, the allocation is left as it is.
Block(c) ==
  LET p == runner[c].plan
  IN /\ At(c, "failing")
     /\ IF Disowned(c)
        THEN Stop(c) /\ UNCHANGED <<plan, ready>>
        ELSE /\ plan' = [plan EXCEPT ![p].phase = "blocked"]
             /\ Remove(p)
             /\ EndTick(c)
     /\ UNCHANGED <<route, authority, slot, published, endpoints, runtime,
                    traffic, quiet>>

\* The process dies; the kernel drops its fence.
Crash(c) ==
  /\ ~At(c, "idle")
  /\ Stop(c)
  /\ UNCHANGED <<route, store, pool, endpoints, runtime, traffic, quiet>>

-----------------------------------------------------------------------------
Init ==
  /\ route = [gen |-> 1, control |-> "stable"]
  /\ authority = None
  /\ plan = [p \in Plans |-> Absent]
  /\ slot = None
  /\ published = {}
  /\ ready = {}
  /\ backend = [r \in Replica |-> "none"]
  /\ retired = {}
  /\ launch = [r \in Replica |-> "none"]
  /\ box = [r \in Replica |-> "none"]
  /\ rows = [q \in Requests |-> [at |-> None, dispatched |-> FALSE]]
  /\ refused = FALSE
  /\ runner = [c \in Runners |-> Idle]
  /\ quiet = [c \in Runners |-> 0]

TickStep(c) ==
  \/ BeginTick(c) \/ BeginClose(c) \/ Retire(c)
  \/ AdvanceIdle(c) \/ AdvanceEnds(c) \/ AdvanceSamples(c)
  \/ Reread(c) \/ EndCleanup(c) \/ Interrupt(c) \/ Block(c)

LaunchStep(c) ==
  Register(c) \/ StartLaunch(c) \/ Request(c) \/ ReceiveReceipt(c) \/ Publish(c)

CleanupStep(c) ==
  RetireDrained(c) \/ RetireUnserved(c) \/ RuntimeGone(c) \/ Release(c) \/ Settle(c)

Next ==
  \/ Cutover \/ Acknowledge \/ BeginRollback
  \/ \E q \in Requests : Admit(q) \/ Refuse(q) \/ Dispatch(q) \/ Finish(q)
  \/ \E r \in Replica : ContainerStarts(r)
  \/ \E c \in Runners :
       \/ Start(c) \/ Freeze(c) \/ Crash(c)
       \/ TickStep(c) \/ LaunchStep(c) \/ CleanupStep(c)

Spec == Init /\ [][Next]_vars

-----------------------------------------------------------------------------
(* Properties *)

\* An attempt was journaled for the replica and it is not proved gone: its
\* container exists, or may still be started.
Live(r) == launch[r] # "none" /\ box[r] # "gone"

\* At most one extra runtime exists or can still appear, whichever runners die
\* and however late the daemon obeys: it is the replica in the slot, and its
\* plan has the authority that the cleanup needs.
SlotOwnsRuntime == \A r \in Replica : Live(r) => slot = r /\ authority = r[1]

\* A slot is never orphaned: the plan that holds it is not at rest, and its
\* cycle names the replica that the next cleanup must settle.
SlotIsReachable ==
  slot # None =>
    LET p == slot[1]
    IN /\ authority = p
       /\ plan[p].cycle = slot[2]
       /\ plan[p].phase \in {"warming", "two", "draining", "blocked"}

\* What select_admission may choose beside the primary serves: nobody has removed
\* its container (one that exits by itself is a matter of health, not of this
\* protocol), it is not retired (which would refuse the whole deployment) and is
\* not being withdrawn.
PooledRuns ==
  \A r \in Members :
    box[r] = "up" /\ r \notin retired /\ slot = r /\ plan[r[1]].phase = "two"

\* A request that was given to a replica keeps its container from being removed
\* until its response is closed, through withdrawal, cutover, shutdown and crashes
\* of the runner.
RowsKeepRuntime ==
  \A q \in Requests : rows[q].at \in Replica => box[rows[q].at] = "up"

\* The policy withdraws a member only after one and the same runner has found
\* it idle in so many samples in a row: a restart, a late sample or another
\* runner cannot lend it theirs.
PatientRemoval ==
  [][\A c \in Runners, p \in Plans :
       /\ At(c, "advance") /\ runner[c].plan = p
       /\ plan[p].phase = "two" /\ plan'[p].phase = "draining"
       /\ plan'[p].samples > plan[p].samples
       => quiet'[c] >= LowSamples]_vars

\* What the docstring of _blocked says: failure retains the global allocation.
BlockedKeepsSlot ==
  \A p \in Plans :
    plan[p].phase = "blocked" => slot = <<p, plan[p].cycle>>

\* Pool, gateway and runners together keep the promise of Retirement for the
\* replicas: a member is lent by select_admission, and finish_admission returns
\* it when the response is closed.
Lending == INSTANCE Retirement WITH
  Users <- Requests, Runtimes <- Replica,
  life <- [r \in Replica |-> CASE box[r] = "up" -> "running"
                               [] box[r] = "gone" -> "stopped"
                               [] OTHER -> "off"],
  pin <- [q \in Requests |-> IF rows[q].at \in Replica THEN rows[q].at ELSE None],
  using <- {q \in Requests : rows[q].at \in Replica}

KeepsLoans == Lending!Spec

\* The runners rely on Lifetime for the container of each replica, and use it as
\* it promises: launch_runtime_stage reports the launch, a retirement is the
\* decision to end it, and a stop or an abort reports that it has gone.
Contract == INSTANCE Lifetime WITH
  Runtimes <- Replica,
  life <- [r \in Replica |-> CASE box[r] = "up" -> "there"
                               [] box[r] = "gone" -> "gone"
                               [] OTHER -> "off"],
  ending <- retired,
  launched <- {r \in Replica : launch[r] = "completed"},
  ended <- {r \in Replica : box[r] = "gone"}

UsesContract == Contract!Spec
=============================================================================
