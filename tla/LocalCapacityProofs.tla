-------------------------- MODULE LocalCapacityProofs --------------------------
(***************************************************************************)
(* Proofs about LocalCapacity for any plans, runners, cycles and routes    *)
(* and any finite set of requests.                                         *)
(*                                                                         *)
(* Whoever changes a plan, its replicas or the slot holds the fence of the *)
(* plan, and a plan that is not closed has the authority over the          *)
(* deployment.  So what a runner has seen inside the fence still holds     *)
(* when it acts: the slot is given back only for a replica that is gone,   *)
(* and a container is stopped only when no request can be on it.           *)
(***************************************************************************)
EXTENDS LocalCapacity, FiniteSetTheorems, TLAPS

RunnerRecord == [pc : FencedPc \cup {"idle", "freeze", "ready"},
                 plan : Plans \cup {None}, cycle : Nat, closing : BOOLEAN]

PlanRecord == [known : BOOLEAN, phase : Phases, cycle : Nat,
               samples : 0 .. MaxSamples, memory : Memory]

Fenced(c) == runner[c].pc \in FencedPc

\* One runner at a time holds the fence of a plan, and the plan exists.
FenceInv ==
  /\ \A c, d \in Runners :
       Fenced(c) /\ Fenced(d) /\ runner[c].plan = runner[d].plan => c = d
  /\ \A c \in Runners :
       /\ At(c, "idle") \/ runner[c].plan \in Plans
       /\ At(c, "idle") \/ At(c, "freeze") \/ plan[runner[c].plan].known

\* A plan that is not closed owns the deployment; one that needs a replica has
\* the slot.
OwnedPlan(p) ==
  /\ plan[p].known => authority # None
  /\ plan[p].known /\ plan[p].phase # "closed" => authority = p
  /\ ~plan[p].known => plan[p].phase = "one"
  /\ plan[p].phase \in {"warming", "two"}
       => slot = <<p, plan[p].cycle>> /\ slot \in Replica

LiveInv == \A r \in Replica : Live(r) => slot = r

OwnerInv == (\A p \in Plans : OwnedPlan(p)) /\ SlotIsReachable /\ LiveInv

\* What a runner inside the fence relies on.
Position(c) ==
  LET p == runner[c].plan
      r == Current(c)
  IN /\ runner[c].pc \in {"register", "launching", "publish"}
          => plan[p].phase = "warming" /\ plan[p].cycle = runner[c].cycle
     /\ At(c, "publish") => box[r] = "up" /\ launch[r] = "completed"
     /\ At(c, "reread") => plan[p].phase \in {"two", "draining"}
     /\ runner[c].pc \in {"cleaning", "stop", "abort", "release", "settle"}
          => plan[p].phase \in {"draining", "blocked"} /\ plan[p].cycle = runner[c].cycle
     /\ runner[c].pc \in {"stop", "abort", "release", "settle"} => r \in Replica
     /\ At(c, "stop") => \A q \in Requests : rows[q].at # r
     /\ At(c, "abort") => launch[r] = "running"
     /\ runner[c].pc \in {"release", "settle"} => ~Live(r)

\* A member serves, and so does a replica that a request was given to.
Serves(r) == box[r] = "up" /\ launch[r] = "completed"

ReadyInv ==
  \A r \in ready : Serves(r) /\ r \notin retired /\ slot = r /\ plan[r[1]].phase = "two"

RowsInv == \A q \in Requests : rows[q].at \in Replica => Serves(rows[q].at)

\* The streak in the memory of a plan was watched by the runner of its epoch.
PatienceInv ==
  \A p \in Plans, c \in Runners :
    plan[p].memory.epoch = c
      => /\ At(c, "idle") \/ runner[c].plan = p
         /\ plan[p].memory.low <= quiet[c]

PositionInv == \A c \in Runners : Position(c)

IInv == /\ TypeOK /\ FenceInv /\ OwnerInv /\ PositionInv
        /\ ReadyInv /\ RowsInv /\ PatienceInv

-----------------------------------------------------------------------------
(* The steps *)

\* A step under the fence.
Inside(c) ==
  \/ Retire(c) \/ AdvanceIdle(c) \/ AdvanceEnds(c) \/ AdvanceSamples(c)
  \/ Reread(c) \/ EndCleanup(c) \/ Interrupt(c) \/ Block(c)
  \/ LaunchStep(c)
  \/ CleanupStep(c)

\* A step that only moves a runner in or out.
Around(c) == Start(c) \/ Freeze(c) \/ Crash(c) \/ BeginTick(c) \/ BeginClose(c)

\* A step of the route, of the gateway or of the daemon.
Outside ==
  \/ Cutover \/ Acknowledge \/ BeginRollback
  \/ \E q \in Requests : Admit(q) \/ Refuse(q) \/ Dispatch(q) \/ Finish(q)
  \/ \E r \in Replica : ContainerStarts(r)

LEMMA StepCases == Next => Outside \/ \E c \in Runners : Around(c) \/ Inside(c)
BY DEF Next, Outside, Around, Inside, TickStep

LEMMA RecordTypes ==
  /\ Idle \in RunnerRecord /\ NoMemory \in Memory /\ Absent \in PlanRecord
BY CapacityAssumption
   DEF Idle, RunnerRecord, NoMemory, Memory, Absent, PlanRecord, Phases

\* What the runner of a step is, and what becomes of it.
LEMMA RunnerTypes ==
  ASSUME TypeOK, NEW c \in Runners
  PROVE  /\ runner \in [Runners -> RunnerRecord] /\ runner[c] \in RunnerRecord
         /\ \A pc \in FencedPc \cup {"ready"} :
              /\ [runner[c] EXCEPT !.pc = pc] \in RunnerRecord
              /\ [runner[c] EXCEPT !.pc = pc].pc = pc
              /\ [runner[c] EXCEPT !.pc = pc].plan = runner[c].plan
              /\ [runner[c] EXCEPT !.pc = pc].cycle = runner[c].cycle
<1>1. runner \in [Runners -> RunnerRecord] /\ runner[c] \in RunnerRecord
  BY DEF TypeOK, RunnerRecord
<1> QED
  BY <1>1 DEF RunnerRecord

LEMMA GotoEffect ==
  ASSUME TypeOK, NEW c \in Runners, NEW pc \in FencedPc \cup {"ready"}, Goto(c, pc)
  PROVE  /\ \A d \in Runners \ {c} : runner'[d] = runner[d]
         /\ runner' \in [Runners -> RunnerRecord]
         /\ runner'[c].pc = pc /\ runner'[c].plan = runner[c].plan
         /\ runner'[c].cycle = runner[c].cycle
<1>1. runner \in [Runners -> RunnerRecord]
  BY RunnerTypes
<1>2. runner' = [runner EXCEPT ![c] = [runner[c] EXCEPT !.pc = pc]]
  BY <1>1 DEF Goto
<1> QED
  BY <1>1, <1>2, RunnerTypes

LEMMA StopEffect ==
  ASSUME TypeOK, NEW c \in Runners, Stop(c)
  PROVE  /\ \A d \in Runners \ {c} : runner'[d] = runner[d]
         /\ runner' \in [Runners -> RunnerRecord]
         /\ runner'[c] = Idle
BY RunnerTypes, RecordTypes DEF Stop

LEMMA EndTickEffect ==
  ASSUME TypeOK, NEW c \in Runners, EndTick(c)
  PROVE  /\ \A d \in Runners \ {c} : runner'[d] = runner[d]
         /\ runner' \in [Runners -> RunnerRecord]
         /\ \/ runner'[c] = Idle
            \/ runner'[c].pc = "ready" /\ runner'[c].plan = runner[c].plan
<1>1. runner \in [Runners -> RunnerRecord]
  BY RunnerTypes
<1>2. \/ runner' = [runner EXCEPT ![c] = Idle]
      \/ runner' = [runner EXCEPT ![c] = [runner[c] EXCEPT !.pc = "ready"]]
  BY <1>1 DEF EndTick
<1>3. CASE runner' = [runner EXCEPT ![c] = Idle]
  BY <1>1, <1>3, RecordTypes
<1>4. CASE runner' = [runner EXCEPT ![c] = [runner[c] EXCEPT !.pc = "ready"]]
  BY <1>1, <1>4, RunnerTypes
<1> QED
  BY <1>2, <1>3, <1>4

\* The runner goes on as tick does with a phase, and takes the cycle of its plan.
LEMMA ContinueEffect ==
  ASSUME TypeOK, NEW c \in Runners, NEW phase \in Phases, Continue(c, phase),
         runner[c].plan \in Plans
  PROVE  /\ \A d \in Runners \ {c} : runner'[d] = runner[d]
         /\ runner' \in [Runners -> RunnerRecord]
         /\ \/ /\ phase \in {"warming", "draining", "blocked"}
               /\ runner'[c].pc = IF phase = "warming" THEN "register" ELSE "cleaning"
               /\ runner'[c].plan = runner[c].plan
               /\ runner'[c].cycle = plan[runner[c].plan].cycle
            \/ runner'[c] = Idle
            \/ runner'[c].pc = "ready" /\ runner'[c].plan = runner[c].plan
<1>1. runner \in [Runners -> RunnerRecord] /\ runner[c] \in RunnerRecord
      /\ plan[runner[c].plan].cycle \in Nat
  BY RunnerTypes DEF TypeOK
<1>2. CASE EndTick(c)
  BY <1>2, EndTickEffect
<1>3. CASE /\ phase \in {"warming", "draining", "blocked"}
           /\ runner' = [runner EXCEPT
                ![c].pc = IF phase = "warming" THEN "register" ELSE "cleaning",
                ![c].cycle = plan[runner[c].plan].cycle]
  BY <1>1, <1>3 DEF RunnerRecord, FencedPc, TryPc
<1> QED
  BY <1>2, <1>3 DEF Continue

\* The same for whatever a runner does under the fence.
LEMMA InsideRunner ==
  ASSUME TypeOK, FenceInv, NEW c \in Runners, Inside(c)
  PROVE  /\ Fenced(c) /\ runner[c].plan \in Plans
         /\ \A d \in Runners \ {c} : runner'[d] = runner[d]
         /\ runner' \in [Runners -> RunnerRecord]
         /\ \/ runner'[c] = Idle
            \/ /\ runner'[c].pc \in FencedPc \cup {"ready"}
               /\ runner'[c].plan = runner[c].plan
<1>1. Fenced(c)
  BY DEF Inside, LaunchStep, CleanupStep, Retire, AdvanceIdle, AdvanceEnds, AdvanceSamples,
     Reread, EndCleanup, Interrupt, Block, Register, StartLaunch, Request, ReceiveReceipt,
     Publish, RetireDrained, RetireUnserved, RuntimeGone, Release, Settle, At, Fenced,
     FencedPc, TryPc
<1>2. runner[c].plan \in Plans
  BY <1>1 DEF FenceInv, Fenced, FencedPc, TryPc, At
<1> DEFINE Result == /\ \A d \in Runners \ {c} : runner'[d] = runner[d]
                     /\ runner' \in [Runners -> RunnerRecord]
                     /\ \/ runner'[c] = Idle
                        \/ /\ runner'[c].pc \in FencedPc \cup {"ready"}
                           /\ runner'[c].plan = runner[c].plan
<1>3. ASSUME Stop(c) \/ EndTick(c) PROVE Result
  BY <1>3, StopEffect, EndTickEffect
<1>4. ASSUME NEW pc \in FencedPc, Goto(c, pc) PROVE Result
  BY <1>4, GotoEffect
<1>5. ASSUME NEW phase \in Phases, Continue(c, phase) PROVE Result
  BY <1>2, <1>5, ContinueEffect DEF FencedPc, TryPc
<1>6. ASSUME UNCHANGED runner PROVE Result
  BY <1>1, <1>6, RunnerTypes DEF Fenced
<1>7. plan[runner[c].plan].phase \in Phases
  BY <1>2 DEF TypeOK
<1>8. CASE Retire(c) \/ AdvanceIdle(c) \/ AdvanceEnds(c) \/ AdvanceSamples(c)
  <2>1. CASE AdvanceSamples(c)
    <3>1. PICK phase \in Phases : Continue(c, phase)
      BY <1>7, <2>1 DEF AdvanceSamples, Phases
    <3> QED
      BY <1>1, <1>2, <1>5, <3>1
  <2>2. CASE AdvanceEnds(c)
    <3>1. PICK phase \in Phases : Continue(c, phase)
      BY <2>2 DEF AdvanceEnds, Phases
    <3> QED
      BY <1>1, <1>2, <1>5, <3>1
  <2>3. CASE AdvanceIdle(c)
    BY <1>1, <1>2, <1>3, <1>5, <1>7, <2>3 DEF AdvanceIdle
  <2>4. CASE Retire(c)
    BY <1>1, <1>2, <1>3, <1>4, <2>4 DEF Retire, FencedPc
  <2> QED
    BY <1>8, <2>1, <2>2, <2>3, <2>4
<1>9. CASE Reread(c)
  <2>1. CASE EndTick(c)
    BY <1>1, <1>2, <1>3, <2>1
  <2>2. CASE runner' = [runner EXCEPT ![c].pc = "cleaning", ![c].cycle = plan[runner[c].plan].cycle]
    <3>1. plan[runner[c].plan].cycle \in Nat
      BY <1>2 DEF TypeOK
    <3>2. runner \in [Runners -> RunnerRecord] /\ runner[c] \in RunnerRecord
      BY RunnerTypes
    <3>3. /\ runner'[c].pc = "cleaning" /\ runner'[c].plan = runner[c].plan
          /\ \A d \in Runners \ {c} : runner'[d] = runner[d]
          /\ runner' \in [Runners -> RunnerRecord]
      BY <2>2, <3>1, <3>2 DEF RunnerRecord, FencedPc, TryPc
    <3> QED
      BY <1>1, <1>2, <3>3 DEF FencedPc, TryPc
  <2> QED
    BY <1>9, <2>1, <2>2 DEF Reread
<1>10. CASE EndCleanup(c) \/ Interrupt(c) \/ Block(c)
  BY <1>1, <1>2, <1>3, <1>4, <1>10 DEF EndCleanup, Interrupt, Block, FencedPc
<1>11. CASE LaunchStep(c)
  BY <1>1, <1>2, <1>4, <1>6, <1>11 DEF LaunchStep, Register, StartLaunch, Request,
     ReceiveReceipt, Publish, FencedPc, TryPc
<1>12. CASE CleanupStep(c)
  BY <1>1, <1>2, <1>3, <1>4, <1>12 DEF CleanupStep, RetireDrained, RetireUnserved,
     RuntimeGone, Release, Settle, FencedPc, TryPc
<1> QED
  BY <1>8, <1>9, <1>10, <1>11, <1>12 DEF Inside

LEMMA AroundEffect ==
  ASSUME TypeOK, FenceInv, NEW c \in Runners, Around(c)
  PROVE  /\ \A d \in Runners \ {c} : runner'[d] = runner[d]
         /\ runner' \in [Runners -> RunnerRecord]
         /\ plan' \in [Plans -> PlanRecord]
         /\ \A p \in Plans : /\ plan'[p].phase = plan[p].phase
                             /\ plan'[p].cycle = plan[p].cycle
                             /\ plan[p].known => plan'[p].known
         /\ \/ runner'[c] = Idle
            \/ runner'[c].pc = "freeze" /\ runner'[c].plan \in Plans
            \/ runner'[c].pc = "ready" /\ runner'[c].plan \in Plans
               /\ plan'[runner'[c].plan].known
            \/ /\ runner'[c].pc \in {"advance", "retire"} /\ At(c, "ready")
               /\ runner'[c].plan = runner[c].plan /\ Unfenced(runner[c].plan)
<1>0. /\ runner \in [Runners -> RunnerRecord] /\ runner[c] \in RunnerRecord
      /\ plan \in [Plans -> PlanRecord]
  BY RunnerTypes DEF TypeOK, PlanRecord
<1>1. CASE Start(c)
  <2>1. PICK p \in Plans : runner' = [runner EXCEPT ![c] =
             [pc |-> IF plan[p].known THEN "ready" ELSE "freeze",
              plan |-> p, cycle |-> 0, closing |-> FALSE]]
    BY <1>1 DEF Start
  <2>2. [pc |-> IF plan[p].known THEN "ready" ELSE "freeze",
         plan |-> p, cycle |-> 0, closing |-> FALSE] \in RunnerRecord
    BY DEF RunnerRecord
  <2>3. /\ \A d \in Runners \ {c} : runner'[d] = runner[d]
        /\ runner' \in [Runners -> RunnerRecord]
        /\ runner'[c].pc = (IF plan[p].known THEN "ready" ELSE "freeze")
        /\ runner'[c].plan = p
    BY <1>0, <2>1, <2>2
  <2>4. ASSUME NEW q \in Plans
        PROVE  /\ plan'[q] \in PlanRecord
               /\ plan'[q].phase = plan[q].phase
               /\ plan'[q].cycle = plan[q].cycle
               /\ plan[q].known = plan'[q].known
    <3>1. plan'[q] = IF plan[q].memory.epoch = c THEN [plan[q] EXCEPT !.memory.epoch = None]
                     ELSE plan[q]
      BY <1>1 DEF Start
    <3> QED
      BY <1>0, <3>1 DEF PlanRecord, Memory
  <2>5. plan' \in [Plans -> PlanRecord]
    BY <1>1, <2>4 DEF Start
  <2> QED
    BY <2>3, <2>4, <2>5
<1>2. CASE Freeze(c)
  <2>1. runner[c].plan \in Plans
    BY <1>2 DEF Freeze, FenceInv, At
  <2>2. CASE runner' = [runner EXCEPT ![c] = Idle] /\ UNCHANGED plan
    BY <1>0, <2>2, RecordTypes
  <2>3. CASE plan' = [plan EXCEPT ![runner[c].plan].known = TRUE] /\ Goto(c, "ready")
    <3>1. plan'[runner[c].plan].known
      BY <1>0, <2>1, <2>3 DEF PlanRecord
    <3>2. /\ plan' \in [Plans -> PlanRecord]
          /\ \A p \in Plans : /\ plan'[p].phase = plan[p].phase
                              /\ plan'[p].cycle = plan[p].cycle
                              /\ plan[p].known => plan'[p].known
      BY <1>0, <2>1, <2>3 DEF PlanRecord
    <3>3. /\ \A d \in Runners \ {c} : runner'[d] = runner[d]
          /\ runner' \in [Runners -> RunnerRecord]
          /\ runner'[c].pc = "ready" /\ runner'[c].plan = runner[c].plan
      BY <2>3, GotoEffect
    <3> QED
      BY <2>1, <3>1, <3>2, <3>3
  <2> QED
    BY <1>2, <2>2, <2>3 DEF Freeze
<1>3. CASE Crash(c)
  BY <1>0, <1>3, StopEffect DEF Crash, store
<1>4. CASE BeginTick(c)
  <2>1. Goto(c, "advance") /\ At(c, "ready") /\ Unfenced(runner[c].plan) /\ plan' = plan
    BY <1>4 DEF BeginTick, store
  <2>2. /\ \A d \in Runners \ {c} : runner'[d] = runner[d]
        /\ runner' \in [Runners -> RunnerRecord]
        /\ runner'[c].pc = "advance" /\ runner'[c].plan = runner[c].plan
    BY <2>1, GotoEffect DEF FencedPc
  <2> QED
    BY <1>0, <2>1, <2>2
<1>5. CASE BeginClose(c)
  <2>1. At(c, "ready") /\ Unfenced(runner[c].plan) /\ plan' = plan
    BY <1>5 DEF BeginClose, store
  <2>2. /\ \A d \in Runners \ {c} : runner'[d] = runner[d]
        /\ runner' \in [Runners -> RunnerRecord]
        /\ runner'[c].pc = "retire" /\ runner'[c].plan = runner[c].plan
    BY <1>0, <1>5 DEF BeginClose, RunnerRecord, FencedPc
  <2> QED
    BY <1>0, <2>1, <2>2
<1> QED
  BY <1>1, <1>2, <1>3, <1>4, <1>5 DEF Around

\* The fence stays with one runner, and its plan exists.
LEMMA FenceStep ==
  ASSUME TypeOK, FenceInv, Next, plan' \in [Plans -> PlanRecord],
         \A p \in Plans : plan[p].known => plan'[p].known
  PROVE  FenceInv'
<1>1. CASE Outside
  <2>1. runner' = runner
    BY <1>1 DEF Outside, Cutover, Acknowledge, BeginRollback, Admit, Refuse, Dispatch, Finish,
       ContainerStarts
  <2> QED
    BY <2>1 DEF FenceInv, Fenced, At
<1>2. ASSUME NEW c \in Runners, Inside(c)
      PROVE  FenceInv'
  <2>1. Idle.pc = "idle" /\ "idle" \notin FencedPc
    BY DEF Idle, FencedPc, TryPc
  <2> QED
    BY <1>2, <2>1, InsideRunner DEF FenceInv, Fenced, At, FencedPc, TryPc
<1>3. ASSUME NEW c \in Runners, Around(c)
      PROVE  FenceInv'
  <2>1. /\ Idle.pc = "idle" /\ "idle" \notin FencedPc /\ "ready" \notin FencedPc
        /\ "freeze" \notin FencedPc
    BY DEF Idle, FencedPc, TryPc
  <2>2. CASE runner'[c].pc \in {"idle", "freeze", "ready"}
    BY <1>3, <2>1, <2>2, AroundEffect DEF FenceInv, Fenced, At
  <2>3. CASE /\ runner'[c].pc \in {"advance", "retire"} /\ At(c, "ready")
             /\ runner'[c].plan = runner[c].plan /\ Unfenced(runner[c].plan)
    <3>1. \A d \in Runners \ {c} :
             runner[d].plan = runner[c].plan => runner'[d].pc \notin FencedPc
      BY <1>3, <2>3, AroundEffect DEF Unfenced
    <3> QED
      BY <1>3, <2>3, <3>1, AroundEffect DEF FenceInv, Fenced, At
  <2> QED
    BY <1>3, <2>1, <2>2, <2>3, AroundEffect
<1> QED
  BY <1>1, <1>2, <1>3, StepCases

-----------------------------------------------------------------------------
(* Types *)

LEMMA DecideTypes ==
  ASSUME NEW memory \in Memory, NEW obs, obs.epoch \in Runners, obs.members \in 1 .. 2
  PROVE  Decide(memory, obs).memory \in Memory
<1> USE CapacityAssumption
<1>1. Baseline(obs) \in Memory
  BY DEF Baseline, Memory
<1>2. ASSUME NEW bound \in Nat, bound > 0, NEW streak \in 0 .. bound
      PROVE  Extended(streak, obs, bound) \in 0 .. bound
  BY <1>2 DEF Extended
<1>3. ASSUME NEW high \in 0 .. HighSamples, NEW low \in 0 .. LowSamples
      PROVE  [Baseline(obs) EXCEPT !.high = high, !.low = low] \in Memory
  BY <1>1, <1>3 DEF Memory
<1> DEFINE high == IF obs.members = 1 /\ obs.busy
                   THEN Extended(memory.high, obs, HighSamples) ELSE 0
           low == IF obs.members = 2 /\ obs.idle
                  THEN Extended(memory.low, obs, LowSamples) ELSE 0
<1>4. high \in 0 .. HighSamples /\ low \in 0 .. LowSamples
  <2>1. memory.high \in 0 .. HighSamples /\ memory.low \in 0 .. LowSamples
        /\ HighSamples \in Nat /\ HighSamples > 0 /\ LowSamples \in Nat /\ LowSamples > 0
    BY DEF Memory
  <2> QED
    BY <1>2, <2>1
<1> HIDE DEF high, low
<1>5. CASE ~Fresh(memory, obs)
  BY <1>1, <1>5 DEF Decide
<1>6. CASE Fresh(memory, obs)
  <2>1. \/ Decide(memory, obs).memory = Baseline(obs)
        \/ Decide(memory, obs).memory = [Baseline(obs) EXCEPT !.high = high, !.low = low]
    <3> DEFINE action == CASE obs.cooled /\ high >= HighSamples -> "up"
                           [] obs.cooled /\ low >= LowSamples -> "down"
                           [] OTHER -> "hold"
    <3>1. Decide(memory, obs) =
            [memory |-> IF action = "hold"
                        THEN [Baseline(obs) EXCEPT !.high = high, !.low = low]
                        ELSE Baseline(obs),
             action |-> action]
      BY <1>6 DEF Decide, high, low
    <3> HIDE DEF action
    <3> QED
      BY <3>1
  <2>2. [Baseline(obs) EXCEPT !.high = high, !.low = low] \in Memory
    BY <1>3, <1>4
  <2> QED
    BY <1>1, <2>1, <2>2
<1> QED
  BY <1>5, <1>6

LEMMA SampleTypes ==
  ASSUME NEW c \in Runners, NEW p \in Plans, NEW gap, NEW cooled
  PROVE  /\ Sample(c, p, gap, cooled).epoch = c
         /\ Sample(c, p, gap, cooled).members \in 1 .. 2
         /\ Sample(c, p, gap, cooled).gap = gap
BY DEF Sample

\* What a sample leads to: a launch, the end of the plan, a withdrawal, or
\* nothing.
LEMMA SampleCases ==
  ASSUME TypeOK, NEW c \in Runners, runner[c].plan \in Plans, AdvanceSamples(c)
  PROVE  LET p == runner[c].plan
         IN \E gap \in {"early", "due", "late"}, cooled \in BOOLEAN, phase \in Phases :
              LET decision == Decide(plan[p].memory, Sample(c, p, gap, cooled))
              IN /\ Judged(c, p, phase, decision)
                 /\ Continue(c, phase)
                 /\ Watched(c, Sample(c, p, gap, cooled))
                 /\ \/ /\ plan[p].phase = "one" /\ phase = "warming"
                       /\ plan[p].cycle < Cycles
                       /\ slot = None /\ slot' = <<p, plan[p].cycle>>
                       /\ ready' = ready
                    \/ /\ plan[p].phase = "one" /\ phase = "closed"
                       /\ UNCHANGED <<slot, ready>>
                    \/ /\ plan[p].phase = "two" /\ phase = "draining"
                       /\ decision.action = "down"
                       /\ slot' = slot /\ Remove(p)
                    \/ /\ phase = plan[p].phase
                       /\ UNCHANGED <<slot, ready>>
<1> DEFINE p == runner[c].plan
<1>1. PICK gap \in {"early", "due", "late"}, cooled \in BOOLEAN :
        LET obs == Sample(c, p, gap, cooled)
            decision == Decide(plan[p].memory, obs)
            up == decision.action = "up" /\ plan[p].phase = "one"
            down == decision.action = "down" /\ plan[p].phase = "two"
            left == plan[p].cycle < Cycles
            phase == CASE up /\ left -> "warming"
                       [] up /\ ~left -> "closed"
                       [] down -> "draining"
                       [] OTHER -> plan[p].phase
        IN /\ up /\ left => slot = None
           /\ slot' = IF up /\ left THEN <<p, plan[p].cycle>> ELSE slot
           /\ IF down THEN Remove(p) ELSE UNCHANGED ready
           /\ Judged(c, p, phase, decision)
           /\ Continue(c, phase)
           /\ Watched(c, obs)
  BY DEF AdvanceSamples
<1> DEFINE decision == Decide(plan[p].memory, Sample(c, p, gap, cooled))
           up == decision.action = "up" /\ plan[p].phase = "one"
           down == decision.action = "down" /\ plan[p].phase = "two"
           left == plan[p].cycle < Cycles
           phase == CASE up /\ left -> "warming"
                      [] up /\ ~left -> "closed"
                      [] down -> "draining"
                      [] OTHER -> plan[p].phase
<1>2. /\ up /\ left => slot = None
      /\ slot' = IF up /\ left THEN <<p, plan[p].cycle>> ELSE slot
      /\ IF down THEN Remove(p) ELSE UNCHANGED ready
      /\ Judged(c, p, phase, decision)
      /\ Continue(c, phase)
      /\ Watched(c, Sample(c, p, gap, cooled))
  BY <1>1
<1>3. plan[p].phase \in Phases
  BY DEF TypeOK
<1>4. /\ ~(up /\ down)
      /\ up /\ left => phase = "warming"
      /\ up /\ ~left => phase = "closed"
      /\ down => phase = "draining"
      /\ ~up /\ ~down => phase = plan[p].phase
      /\ up => plan[p].phase = "one"
      /\ down => plan[p].phase = "two" /\ decision.action = "down"
  OBVIOUS
<1>5. phase \in Phases
  BY <1>3, <1>4 DEF Phases
<1> DEFINE Outcome ==
             \/ /\ plan[p].phase = "one" /\ phase = "warming"
                /\ plan[p].cycle < Cycles
                /\ slot = None /\ slot' = <<p, plan[p].cycle>>
                /\ ready' = ready
             \/ /\ plan[p].phase = "one" /\ phase = "closed"
                /\ UNCHANGED <<slot, ready>>
             \/ /\ plan[p].phase = "two" /\ phase = "draining"
                /\ decision.action = "down"
                /\ slot' = slot /\ Remove(p)
             \/ /\ phase = plan[p].phase
                /\ UNCHANGED <<slot, ready>>
<1>6. Outcome
  <2> HIDE DEF phase, up, down, decision
  <2>1. CASE up /\ left
    BY <1>2, <1>4, <2>1
  <2>2. CASE up /\ ~left
    BY <1>2, <1>4, <2>2
  <2>3. CASE ~up /\ down
    BY <1>2, <1>4, <2>3
  <2>4. CASE ~up /\ ~down
    BY <1>2, <1>4, <2>4
  <2> QED
    BY <2>1, <2>2, <2>3, <2>4
<1> HIDE DEF phase
<1> QED
  BY <1>2, <1>5, <1>6

\* What a step under the fence does to the plans.
LEMMA InsidePlan ==
  ASSUME TypeOK, FenceInv, NEW c \in Runners, Inside(c)
  PROVE  /\ plan' \in [Plans -> PlanRecord]
         /\ \A p \in Plans \ {runner[c].plan} : plan'[p] = plan[p]
         /\ \A p \in Plans : plan'[p].known = plan[p].known
<1> USE CapacityAssumption
<1>0. plan \in [Plans -> PlanRecord] /\ runner[c].plan \in Plans
  BY InsideRunner DEF TypeOK, PlanRecord
<1>1. CASE UNCHANGED plan
  BY <1>0, <1>1
<1>2. ASSUME NEW phase \in Phases, plan' = [plan EXCEPT ![runner[c].plan].phase = phase]
      PROVE  /\ plan' \in [Plans -> PlanRecord]
             /\ \A p \in Plans \ {runner[c].plan} : plan'[p] = plan[p]
             /\ \A p \in Plans : plan'[p].known = plan[p].known
  BY <1>0, <1>2 DEF PlanRecord
<1>3. CASE Retire(c) /\ ~UNCHANGED plan
  <2>1. PICK phase \in Phases :
          plan' = [plan EXCEPT ![runner[c].plan].phase = phase,
                               ![runner[c].plan].samples = MaxSamples]
    <3>1. plan' = [plan EXCEPT ![runner[c].plan].phase = IF @ = "one" THEN "closed" ELSE "draining",
                               ![runner[c].plan].samples = MaxSamples]
      BY <1>3 DEF Retire
    <3>2. CASE plan[runner[c].plan].phase = "one"
      BY <1>0, <3>1, <3>2 DEF Phases
    <3>3. CASE plan[runner[c].plan].phase # "one"
      BY <1>0, <3>1, <3>3 DEF Phases
    <3> QED
      BY <3>2, <3>3
  <2> QED
    BY <1>0, <2>1 DEF PlanRecord
<1>4. CASE AdvanceEnds(c)
  <2>1. PICK phase \in Phases : plan' = [plan EXCEPT ![runner[c].plan].phase = phase]
    BY <1>4 DEF AdvanceEnds, Phases
  <2> QED
    BY <1>2, <2>1
<1>5. CASE AdvanceSamples(c)
  <2>0. /\ plan[runner[c].plan] \in PlanRecord
        /\ plan[runner[c].plan].samples < MaxSamples
    BY <1>0, <1>5 DEF AdvanceSamples
  <2>1. PICK phase \in Phases, gap \in {"early", "due", "late"}, cooled \in BOOLEAN :
          Judged(c, runner[c].plan, phase,
                 Decide(plan[runner[c].plan].memory, Sample(c, runner[c].plan, gap, cooled)))
    BY ZenonT(30), <1>5, <2>0 DEF AdvanceSamples, Phases, PlanRecord
  <2>2. Decide(plan[runner[c].plan].memory, Sample(c, runner[c].plan, gap, cooled)).memory
          \in Memory
    BY <1>0, <2>0, SampleTypes, DecideTypes DEF PlanRecord
  <2>3. PICK memory \in Memory :
          plan' = [plan EXCEPT ![runner[c].plan].phase = phase,
                               ![runner[c].plan].samples = @ + 1,
                               ![runner[c].plan].memory = memory]
    BY <2>1, <2>2 DEF Judged
  <2>4. plan[runner[c].plan].samples + 1 \in 0 .. MaxSamples
    BY <2>0 DEF PlanRecord
  <2> QED
    BY SMTT(30), <1>0, <2>3, <2>4 DEF PlanRecord
<1>6. CASE Publish(c)
  <2>1. PICK phase \in Phases : plan' = [plan EXCEPT ![runner[c].plan].phase = phase]
    BY <1>6 DEF Publish, Phases
  <2> QED
    BY <1>2, <2>1
<1>7. CASE Settle(c)
  <2>1. PICK phase \in Phases :
          plan' = [plan EXCEPT ![runner[c].plan] = [@ EXCEPT !.phase = phase,
                     !.cycle = runner[c].cycle + 1, !.memory = NoMemory]]
    BY <1>7 DEF Settle, Phases
  <2>2. runner[c].cycle + 1 \in Nat
    BY RunnerTypes DEF RunnerRecord
  <2> QED
    BY <1>0, <2>1, <2>2, RecordTypes DEF PlanRecord
<1>8. CASE Block(c) /\ ~UNCHANGED plan
  <2>1. plan' = [plan EXCEPT ![runner[c].plan].phase = "blocked"] /\ "blocked" \in Phases
    BY <1>8 DEF Block, Phases
  <2> QED
    BY <1>2, <2>1
<1>9. CASE AdvanceIdle(c) \/ Reread(c) \/ EndCleanup(c) \/ Interrupt(c)
  BY <1>1, <1>9 DEF AdvanceIdle, Reread, EndCleanup, Interrupt, store
<1>10. CASE LaunchStep(c)
  BY <1>1, <1>6, <1>10 DEF LaunchStep, Register, StartLaunch, Request, ReceiveReceipt, store
<1>11. CASE CleanupStep(c)
  BY <1>1, <1>7, <1>11 DEF CleanupStep, RetireDrained, RetireUnserved, RuntimeGone, Release,
     store
<1> QED
  BY <1>1, <1>3, <1>4, <1>5, <1>8, <1>9, <1>10, <1>11 DEF Inside

\* The replica that a runner works on.
LEMMA CurrentReplica ==
  ASSUME TypeOK, FenceInv, NEW c \in Runners, Fenced(c), runner[c].cycle < Cycles
  PROVE  Current(c) \in Replica
<1>1. runner[c].plan \in Plans /\ runner[c].cycle \in Nat
  BY RunnerTypes DEF FenceInv, Fenced, FencedPc, TryPc, At, RunnerRecord
<1> QED
  BY <1>1, CapacityAssumption DEF Current, Replica

OtherTypes ==
  /\ route \in [gen : 1 .. MaxGen, control : {"pending", "stable", "rollback"}]
  /\ authority \in Plans \cup {None}
  /\ slot \in Replica \cup {None}
  /\ published \subseteq Replica
  /\ ready \subseteq published
  /\ backend \in [Replica -> {"none", "registered", "released"}]
  /\ retired \subseteq Replica
  /\ launch \in [Replica -> {"none", "running", "completed"}]
  /\ box \in [Replica -> {"none", "requested", "up", "gone"}]
  /\ rows \in [Requests -> [at : Replica \cup ({Primary} \X (1 .. MaxGen)) \cup {None},
                            dispatched : BOOLEAN]]
  /\ refused \in BOOLEAN
  /\ quiet \in [Runners -> 0 .. LowSamples]

LEMMA OutsideTypes ==
  ASSUME TypeOK, Outside
  PROVE  OtherTypes' /\ UNCHANGED <<plan, runner>>
<1> USE CapacityAssumption
<1>0. OtherTypes
  BY DEF TypeOK, OtherTypes
<1>1. CASE Cutover \/ Acknowledge \/ BeginRollback
  <2>1. route' \in [gen : 1 .. MaxGen, control : {"pending", "stable", "rollback"}]
    BY <1>0, <1>1 DEF Cutover, Acknowledge, BeginRollback, OtherTypes
  <2> QED
    BY <1>0, <1>1, <2>1 DEF Cutover, Acknowledge, BeginRollback, OtherTypes, store, pool,
       endpoints, runtime, traffic
<1>2. ASSUME NEW q \in Requests, Admit(q) \/ Dispatch(q) \/ Finish(q)
      PROVE  OtherTypes' /\ UNCHANGED <<plan, runner>>
  <2>1. Candidates \subseteq Replica \cup ({Primary} \X (1 .. MaxGen))
    BY <1>0 DEF Candidates, Members, OtherTypes
  <2>2. rows' \in [Requests -> [at : Replica \cup ({Primary} \X (1 .. MaxGen)) \cup {None},
                                dispatched : BOOLEAN]]
    <3> DEFINE Places == Replica \cup ({Primary} \X (1 .. MaxGen)) \cup {None}
    <3>1. rows \in [Requests -> [at : Places, dispatched : BOOLEAN]]
      BY <1>0 DEF OtherTypes
    <3>2. CASE Admit(q)
      <4>1. PICK m \in Places : rows' = [rows EXCEPT ![q] = [at |-> m, dispatched |-> FALSE]]
        BY <2>1, <3>2 DEF Admit, Open
      <4> QED
        BY <3>1, <4>1
    <3>3. CASE Dispatch(q)
      BY <3>1, <3>3 DEF Dispatch
    <3>4. CASE Finish(q)
      BY <3>1, <3>4 DEF Finish
    <3> QED
      BY <1>2, <3>2, <3>3, <3>4
  <2> QED
    BY <1>0, <1>2, <2>2 DEF Admit, Dispatch, Finish, OtherTypes, store, pool, endpoints,
       runtime, traffic
<1>3. ASSUME NEW q \in Requests, Refuse(q)
      PROVE  OtherTypes' /\ UNCHANGED <<plan, runner>>
  BY <1>0, <1>3 DEF Refuse, OtherTypes, store, pool, endpoints, runtime
<1>4. ASSUME NEW r \in Replica, ContainerStarts(r)
      PROVE  OtherTypes' /\ UNCHANGED <<plan, runner>>
  BY <1>0, <1>4 DEF ContainerStarts, OtherTypes, store, pool, endpoints, traffic
<1> QED
  BY <1>1, <1>2, <1>3, <1>4 DEF Outside

LEMMA AroundTypes ==
  ASSUME TypeOK, FenceInv, NEW c \in Runners, Around(c)
  PROVE  OtherTypes'
<1>0. OtherTypes /\ (At(c, "freeze") => runner[c].plan \in Plans)
  BY DEF TypeOK, OtherTypes, FenceInv, At
<1>1. CASE Start(c)
  BY <1>0, <1>1, CapacityAssumption DEF Start, OtherTypes, pool, endpoints, runtime, traffic
<1>2. CASE Freeze(c)
  BY <1>0, <1>2 DEF Freeze, OtherTypes, pool, endpoints, runtime, traffic
<1>3. CASE Crash(c) \/ BeginTick(c) \/ BeginClose(c)
  BY <1>0, <1>3 DEF Crash, BeginTick, BeginClose, OtherTypes, store, pool, endpoints, runtime,
     traffic
<1> QED
  BY <1>1, <1>2, <1>3 DEF Around

LEMMA InsideTypes ==
  ASSUME TypeOK, FenceInv, OwnerInv, PositionInv, NEW c \in Runners, Inside(c)
  PROVE  OtherTypes'
<1> USE CapacityAssumption
<1>0. /\ OtherTypes /\ Fenced(c) /\ runner[c].plan \in Plans
  BY InsideRunner DEF TypeOK, OtherTypes
<1>1. ASSUME NEW p \in Plans, Remove(p)
      PROVE  ready' \subseteq published
  BY <1>0, <1>1 DEF Remove, OtherTypes
<1>2. CASE Retire(c) \/ AdvanceIdle(c) \/ AdvanceEnds(c) \/ Block(c)
  <2>1. ready' \subseteq published
    BY <1>0, <1>1, <1>2 DEF Retire, AdvanceIdle, AdvanceEnds, Block, pool, OtherTypes
  <2> QED
    BY <1>0, <1>2, <2>1 DEF Retire, AdvanceIdle, AdvanceEnds, Block, OtherTypes, store, pool,
       endpoints, runtime, traffic
<1>3. CASE AdvanceSamples(c)
  <2>1. ready' \subseteq published
    BY <1>0, <1>1, <1>3 DEF AdvanceSamples, OtherTypes
  <2>2. slot' \in Replica \cup {None}
    <3>1. plan[runner[c].plan].cycle \in Nat
      BY <1>0 DEF TypeOK
    <3>2. slot' = slot \/ (slot' = <<runner[c].plan, plan[runner[c].plan].cycle>>
                           /\ plan[runner[c].plan].cycle < Cycles)
      BY <1>3 DEF AdvanceSamples
    <3> QED
      BY <1>0, <3>1, <3>2 DEF OtherTypes, Replica
  <2>3. quiet' \in [Runners -> 0 .. LowSamples]
    <3>1. PICK obs : Watched(c, obs)
      BY <1>3 DEF AdvanceSamples
    <3>2. quiet[c] \in 0 .. LowSamples /\ LowSamples \in Nat /\ LowSamples > 0
      BY <1>0 DEF OtherTypes
    <3>3. (CASE obs.members # 2 \/ ~obs.idle -> 0
             [] obs.gap = "late" -> 1
             [] OTHER -> IF quiet[c] < LowSamples THEN quiet[c] + 1 ELSE quiet[c])
            \in 0 .. LowSamples
      BY <3>2
    <3>4. quiet' = [quiet EXCEPT ![c] =
              CASE obs.members # 2 \/ ~obs.idle -> 0
                [] obs.gap = "late" -> 1
                [] OTHER -> IF quiet[c] < LowSamples THEN quiet[c] + 1 ELSE quiet[c]]
      BY <3>1 DEF Watched
    <3> QED
      BY <1>0, <3>3, <3>4 DEF OtherTypes
  <2> QED
    BY <1>0, <1>3, <2>1, <2>2, <2>3 DEF AdvanceSamples, OtherTypes, store, pool, endpoints,
       runtime, traffic
<1>4. CASE Reread(c) \/ EndCleanup(c) \/ Interrupt(c)
  BY <1>0, <1>4 DEF Reread, EndCleanup, Interrupt, OtherTypes, store, pool, endpoints,
     runtime, traffic
<1>5. CASE Register(c) \/ StartLaunch(c) \/ Request(c) \/ ReceiveReceipt(c)
  BY <1>0, <1>5 DEF Register, StartLaunch, Request, ReceiveReceipt, OtherTypes, store, pool,
     endpoints, runtime, traffic
<1>6. CASE Publish(c)
  <2>1. Current(c) \in Replica
    BY <1>0, <1>6 DEF Publish, OwnerInv, OwnedPlan, Current
  <2> QED
    BY <1>0, <1>6, <2>1 DEF Publish, OtherTypes, store, pool, endpoints, runtime, traffic
<1>7. CASE RetireDrained(c) \/ RetireUnserved(c)
  <2>1. Current(c) \in Replica
    BY <1>0, <1>7, CurrentReplica DEF RetireDrained, RetireUnserved
  <2> QED
    BY <1>0, <1>7, <2>1 DEF RetireDrained, RetireUnserved, OtherTypes, store, pool,
       endpoints, runtime, traffic
<1>8. CASE RuntimeGone(c) \/ Release(c) \/ Settle(c)
  BY <1>0, <1>8 DEF RuntimeGone, Release, Settle, OtherTypes, store, pool, endpoints, runtime,
     traffic
<1> QED
  BY <1>2, <1>3, <1>4, <1>5, <1>6, <1>7, <1>8 DEF Inside, LaunchStep, CleanupStep

LEMMA TypeStep ==
  ASSUME TypeOK, FenceInv, OwnerInv, PositionInv, Next
  PROVE  TypeOK' /\ FenceInv'
<1>1. OtherTypes'
  BY StepCases, OutsideTypes, AroundTypes, InsideTypes
<1>2. /\ plan' \in [Plans -> PlanRecord] /\ runner' \in [Runners -> RunnerRecord]
      /\ \A p \in Plans : plan[p].known => plan'[p].known
  <2>1. plan \in [Plans -> PlanRecord] /\ runner \in [Runners -> RunnerRecord]
    BY DEF TypeOK, PlanRecord, RunnerRecord
  <2> QED
    BY <2>1, StepCases, OutsideTypes, AroundEffect, InsideRunner, InsidePlan
<1> QED
  BY <1>1, <1>2, FenceStep DEF TypeOK, OtherTypes, PlanRecord, RunnerRecord

-----------------------------------------------------------------------------
(* Authority and slot *)

\* What the store says of plans and slot.
Reserved == (\A p \in Plans : OwnedPlan(p)) /\ SlotIsReachable

\* A plan that owns the deployment takes another phase.
LEMMA PhaseChange ==
  ASSUME TypeOK, TypeOK', Reserved, NEW p \in Plans, plan[p].known, authority = p,
         UNCHANGED <<slot, authority>>,
         \A q \in Plans \ {p} : plan'[q] = plan[q],
         plan'[p].known, plan'[p].cycle = plan[p].cycle,
         plan'[p].phase \in {"warming", "two"}
           => slot = <<p, plan[p].cycle>> /\ slot \in Replica,
         slot # None => plan'[p].phase \in {"warming", "two", "draining", "blocked"}
  PROVE  Reserved'
<1>1. ASSUME NEW q \in Plans
      PROVE  OwnedPlan(q)'
  <2>1. CASE q = p
    BY <2>1, CapacityAssumption DEF OwnedPlan
  <2>2. CASE q # p
    BY <2>2 DEF OwnedPlan, Reserved
  <2> QED
    BY <2>1, <2>2
<1>2. SlotIsReachable'
  BY DEF SlotIsReachable, Reserved
<1> QED
  BY <1>1, <1>2 DEF Reserved

\* The owner of the slot is the plan with the authority, at its own cycle.
LEMMA SlotOwner ==
  ASSUME TypeOK, Reserved, NEW p \in Plans, authority = p, slot # None
  PROVE  /\ slot = <<p, plan[p].cycle>>
         /\ plan[p].phase \in {"warming", "two", "draining", "blocked"}
<1>1. slot \in Replica
  BY DEF TypeOK
<1>2. slot = <<slot[1], slot[2]>>
  BY <1>1 DEF Replica
<1> QED
  BY <1>1, <1>2 DEF Reserved, SlotIsReachable

LEMMA OutsideOwner ==
  ASSUME TypeOK, OwnerInv, Outside
  PROVE  OwnerInv'
<1>1. UNCHANGED <<store, launch>>
  BY DEF Outside, Cutover, Acknowledge, BeginRollback, Admit, Refuse, Dispatch, Finish,
     ContainerStarts, runtime
<1>2. ASSUME NEW r \in Replica, Live(r)'
      PROVE  Live(r)
  <2>1. CASE UNCHANGED box
    BY <1>1, <1>2, <2>1 DEF Live
  <2>2. ASSUME NEW o \in Replica, ContainerStarts(o)
        PROVE  Live(r)
    BY <1>1, <1>2, <2>2 DEF ContainerStarts, Live, TypeOK
  <2> QED
    BY <2>1, <2>2 DEF Outside, Cutover, Acknowledge, BeginRollback, Admit, Refuse, Dispatch,
       Finish, runtime
<1>3. \A p \in Plans : OwnedPlan(p)'
  BY <1>1 DEF OwnerInv, OwnedPlan, store
<1>4. SlotIsReachable' /\ slot' = slot
  BY <1>1 DEF OwnerInv, SlotIsReachable, store
<1> QED
  BY <1>2, <1>3, <1>4 DEF OwnerInv, LiveInv

\* A plan is enrolled only when nobody else needs the authority.
LEMMA AroundOwner ==
  ASSUME TypeOK, TypeOK', FenceInv, OwnerInv, NEW c \in Runners, Around(c)
  PROVE  OwnerInv'
<1> USE CapacityAssumption
<1>1. UNCHANGED <<slot, launch, box>>
  BY DEF Around, Start, Freeze, Crash, BeginTick, BeginClose, store, runtime
<1>2. LiveInv'
  BY <1>1 DEF OwnerInv, LiveInv, Live
<1>3. ASSUME authority' = authority, \A p \in Plans : plan'[p].known = plan[p].known
      PROVE  OwnerInv'
  <2>1. \A p \in Plans : OwnedPlan(p)'
    BY <1>1, <1>3, AroundEffect DEF OwnerInv, OwnedPlan
  <2>2. SlotIsReachable'
    <3>1. slot # None => slot[1] \in Plans
      BY DEF TypeOK, Replica
    <3> QED
      BY <1>1, <1>3, <3>1, AroundEffect DEF OwnerInv, SlotIsReachable
  <2> QED
    BY <1>2, <2>1, <2>2 DEF OwnerInv
<1>4. CASE Crash(c) \/ BeginTick(c) \/ BeginClose(c)
  BY <1>3, <1>4 DEF Crash, BeginTick, BeginClose, store
<1>5. CASE Start(c)
  <2>1. \A p \in Plans : plan'[p].known = plan[p].known
    <3>1. plan' = [p \in Plans |-> IF plan[p].memory.epoch = c
                                   THEN [plan[p] EXCEPT !.memory.epoch = None] ELSE plan[p]]
      BY <1>5 DEF Start
    <3>2. \A p \in Plans : plan[p] \in PlanRecord
      BY DEF TypeOK, PlanRecord
    <3> QED
      BY <3>1, <3>2 DEF PlanRecord
  <2> QED
    BY <1>3, <1>5, <2>1 DEF Start
<1>6. CASE Freeze(c)
  <2>1. CASE UNCHANGED <<plan, authority>>
    BY <1>3, <2>1
  <2>2. CASE ~UNCHANGED <<plan, authority>>
    <3> DEFINE p == runner[c].plan
    <3>1. /\ p \in Plans /\ Enrollable(p) /\ authority' = p
          /\ plan' = [plan EXCEPT ![p].known = TRUE]
      BY <1>6, <2>2 DEF Freeze, FenceInv, At
    <3>2. plan \in [Plans -> PlanRecord]
      BY DEF TypeOK, PlanRecord
    <3>3. /\ \A q \in Plans : plan'[q].phase = plan[q].phase /\ plan'[q].cycle = plan[q].cycle
          /\ \A q \in Plans \ {p} : plan'[q].known = plan[q].known
          /\ plan'[p].known
      BY <3>1, <3>2 DEF PlanRecord
    <3> HIDE DEF p
    <3>4. ASSUME NEW q \in Plans
          PROVE  OwnedPlan(q)'
      <4>1. CASE q = p
        BY <1>1, <3>1, <3>3, <4>1 DEF OwnerInv, OwnedPlan
      <4>2. CASE q # p
        <5>1. plan[q].known /\ plan[q].phase # "closed" => FALSE
          BY <3>1, <4>2 DEF OwnerInv, OwnedPlan, Enrollable
        <5> QED
          BY <1>1, <3>1, <3>3, <4>2, <5>1 DEF OwnerInv, OwnedPlan
      <4> QED
        BY <4>1, <4>2
    <3>5. slot # None => authority = p
      BY <3>1 DEF Enrollable, OwnerInv, SlotIsReachable, TypeOK, Replica
    <3>6. SlotIsReachable'
      BY <1>1, <3>1, <3>3, <3>5 DEF OwnerInv, SlotIsReachable
    <3> QED
      BY <1>2, <3>4, <3>6 DEF OwnerInv
  <2> QED
    BY <2>1, <2>2
<1> QED
  BY <1>4, <1>5, <1>6 DEF Around

\* A plan that is fenced and not closed owns the deployment.
LEMMA FencedOwns ==
  ASSUME TypeOK, FenceInv, Reserved, NEW c \in Runners, Fenced(c)
  PROVE  /\ runner[c].plan \in Plans /\ plan[runner[c].plan].known
         /\ plan[runner[c].plan].phase # "closed" => authority = runner[c].plan
BY DEF FenceInv, Fenced, FencedPc, TryPc, At, Reserved, OwnedPlan

LEMMA InsideReserved ==
  ASSUME TypeOK, TypeOK', FenceInv, OwnerInv, PositionInv, NEW c \in Runners, Inside(c)
  PROVE  Reserved'
<1> USE CapacityAssumption
<1> DEFINE p == runner[c].plan
<1>0. /\ Reserved /\ p \in Plans /\ plan[p].known /\ Fenced(c)
      /\ plan \in [Plans -> PlanRecord]
      /\ plan[p].phase # "closed" => authority = p
  BY InsideRunner, FencedOwns DEF OwnerInv, Reserved, TypeOK, PlanRecord
<1>1. \A q \in Plans \ {p} : plan'[q] = plan[q]
  BY InsidePlan
<1>2. \A q \in Plans : plan'[q].known = plan[q].known
  BY InsidePlan
<1> HIDE DEF p
<1>3. CASE UNCHANGED store
  BY <1>0, <1>3 DEF Reserved, OwnedPlan, SlotIsReachable, store
<1>4. ASSUME authority = p, UNCHANGED <<slot, authority>>,
             plan'[p].cycle = plan[p].cycle,
             plan'[p].phase \in {"draining", "blocked"}
               \/ (plan'[p].phase = "closed" /\ plan[p].phase \in {"one", "closed"})
      PROVE  Reserved'
  <2>1. slot # None => plan'[p].phase \in {"warming", "two", "draining", "blocked"}
    BY <1>0, <1>4, SlotOwner
  <2> QED
    BY <1>0, <1>1, <1>2, <1>4, <2>1, PhaseChange
<1>5. CASE Retire(c) /\ ~UNCHANGED plan
  <2>1. /\ authority = p /\ UNCHANGED <<slot, authority>>
        /\ plan' = [plan EXCEPT ![p].phase = IF @ = "one" THEN "closed" ELSE "draining",
                                ![p].samples = MaxSamples]
    BY <1>5 DEF Retire, Disowned, p
  <2> QED
    BY <1>0, <1>4, <2>1 DEF PlanRecord
<1>6. CASE AdvanceEnds(c)
  <2>1. /\ authority = p /\ UNCHANGED <<slot, authority>>
        /\ plan' = [plan EXCEPT ![p].phase = IF plan[p].phase = "one" THEN "closed" ELSE "draining"]
    BY <1>6 DEF AdvanceEnds, Disowned, p
  <2> QED
    BY <1>0, <1>4, <2>1 DEF PlanRecord
<1>7. CASE Block(c) /\ ~UNCHANGED plan
  <2>1. /\ authority = p /\ UNCHANGED <<slot, authority>>
        /\ plan' = [plan EXCEPT ![p].phase = "blocked"]
    BY <1>7 DEF Block, Disowned, p
  <2> QED
    BY <1>0, <1>4, <2>1 DEF PlanRecord
<1>8. CASE AdvanceSamples(c)
  <2>1. PICK gap \in {"early", "due", "late"}, cooled \in BOOLEAN, phase \in Phases :
          /\ Judged(c, p, phase, Decide(plan[p].memory, Sample(c, p, gap, cooled)))
          /\ \/ /\ plan[p].phase = "one" /\ phase = "warming" /\ plan[p].cycle < Cycles
                /\ slot = None /\ slot' = <<p, plan[p].cycle>>
             \/ /\ slot' = slot
                /\ \/ plan[p].phase = "one" /\ phase = "closed"
                   \/ plan[p].phase = "two" /\ phase = "draining"
                   \/ phase = plan[p].phase
    BY <1>0, <1>8, SampleCases DEF p
  <2>2. /\ authority = p /\ authority' = authority /\ plan[p].phase \in {"one", "two"}
    BY <1>8 DEF AdvanceSamples, Disowned, p
  <2>3. plan'[p].phase = phase /\ plan'[p].cycle = plan[p].cycle
    BY <1>0, <2>1 DEF Judged, PlanRecord
  <2>4. CASE slot' # slot
    <3>1. slot' = <<p, plan[p].cycle>> /\ slot' \in Replica /\ slot = None
          /\ plan'[p].phase = "warming"
      BY <1>0, <2>1, <2>3, <2>4 DEF Replica, PlanRecord
    <3>2. ASSUME NEW q \in Plans
          PROVE  OwnedPlan(q)'
      <4>1. CASE q = p
        BY <1>0, <1>2, <2>2, <2>3, <3>1, <4>1 DEF OwnedPlan
      <4>2. CASE q # p
        BY <1>0, <1>1, <2>2, <3>1, <4>2 DEF OwnedPlan, Reserved
      <4> QED
        BY <4>1, <4>2
    <3>3. SlotIsReachable'
      BY <2>2, <2>3, <3>1 DEF SlotIsReachable
    <3> QED
      BY <3>2, <3>3 DEF Reserved
  <2>5. CASE slot' = slot
    <3>1. \/ plan[p].phase = "one" /\ phase = "closed"
          \/ plan[p].phase = "two" /\ phase = "draining"
          \/ phase = plan[p].phase
      <4>1. plan[p].cycle < Cycles => <<p, plan[p].cycle>> \in Replica /\ None \notin Replica
        BY <1>0 DEF Replica, PlanRecord
      <4> QED
        BY <2>1, <2>5, <4>1
    <3>2. slot # None => plan[p].phase = "two" /\ slot = <<p, plan[p].cycle>>
      BY <1>0, <2>2, SlotOwner
    <3>3. plan[p].phase = "two" => slot = <<p, plan[p].cycle>> /\ slot \in Replica
      BY <1>0 DEF Reserved, OwnedPlan
    <3>4. /\ plan'[p].phase \in {"warming", "two"}
               => slot = <<p, plan[p].cycle>> /\ slot \in Replica
          /\ slot # None => plan'[p].phase \in {"warming", "two", "draining", "blocked"}
      BY <2>2, <2>3, <3>1, <3>2, <3>3
    <3> QED
      BY <1>0, <1>1, <1>2, <2>2, <2>3, <2>5, <3>4, PhaseChange
  <2> QED
    BY <2>4, <2>5
<1>9. CASE Publish(c)
  <2>1. /\ authority = p /\ UNCHANGED <<slot, authority>> /\ slot = Current(c)
        /\ plan[p].phase = "warming" /\ plan[p].cycle = runner[c].cycle
    BY <1>9 DEF Publish, Disowned, p
  <2>2. PICK phase \in {"two", "draining"} : plan' = [plan EXCEPT ![p].phase = phase]
    BY <1>9 DEF Publish, p
  <2>3. plan'[p].phase = phase /\ plan'[p].cycle = plan[p].cycle
    BY <1>0, <2>2 DEF PlanRecord
  <2>4. slot = <<p, plan[p].cycle>> /\ slot \in Replica
    BY <1>0, <2>1 DEF Reserved, OwnedPlan
  <2> QED
    BY <1>0, <1>1, <1>2, <2>1, <2>3, <2>4, PhaseChange
<1>10. CASE Settle(c)
  <2>1. /\ authority = p /\ authority' = authority /\ plan[p].cycle = runner[c].cycle
        /\ slot' = IF slot = Current(c) THEN None ELSE slot
    BY <1>10 DEF Settle, Disowned, p
  <2>2. slot' = None
    BY <1>0, <2>1, SlotOwner DEF Current, p
  <2>3. plan'[p].phase \in {"closed", "one"}
    BY <1>0, <1>10 DEF Settle, PlanRecord, p
  <2>4. ASSUME NEW q \in Plans
        PROVE  OwnedPlan(q)'
    <3>1. CASE q = p
      BY <1>0, <1>2, <2>1, <2>3, <3>1 DEF OwnedPlan
    <3>2. CASE q # p
      <4>1. ~(plan[q].known /\ plan[q].phase # "closed")
        BY <2>1, <3>2 DEF OwnerInv, OwnedPlan
      <4> QED
        BY <1>0, <1>1, <2>1, <3>2, <4>1 DEF OwnedPlan, Reserved
    <3> QED
      BY <3>1, <3>2
  <2> QED
    BY <2>2, <2>4 DEF Reserved, SlotIsReachable
<1> QED
  <2>1. CASE Retire(c) \/ AdvanceIdle(c) \/ Reread(c) \/ EndCleanup(c) \/ Interrupt(c) \/ Block(c)
    BY <1>3, <1>5, <1>7, <2>1 DEF Retire, AdvanceIdle, Reread, EndCleanup, Interrupt, Block,
       store
  <2>2. CASE LaunchStep(c)
    BY <1>3, <1>9, <2>2 DEF LaunchStep, Register, StartLaunch, Request, ReceiveReceipt
  <2>3. CASE CleanupStep(c)
    BY <1>3, <1>10, <2>3 DEF CleanupStep, RetireDrained, RetireUnserved, RuntimeGone, Release
  <2> QED
    BY <1>6, <1>8, <2>1, <2>2, <2>3 DEF Inside

\* A step under the fence touches the runtime of its own replica only.
LEMMA InsideRuntime ==
  ASSUME TypeOK, FenceInv, NEW c \in Runners, Inside(c)
  PROVE  /\ UNCHANGED <<route, rows>>
         /\ \A r \in Replica \ {Current(c)} : box'[r] = box[r] /\ launch'[r] = launch[r]
<1>0. /\ box \in [Replica -> {"none", "requested", "up", "gone"}]
      /\ launch \in [Replica -> {"none", "running", "completed"}]
  BY DEF TypeOK
<1>1. CASE UNCHANGED runtime /\ UNCHANGED <<route, rows>>
  BY <1>1 DEF runtime
<1>2. CASE LaunchStep(c)
  BY <1>0, <1>1, <1>2 DEF LaunchStep, Register, StartLaunch, Request, ReceiveReceipt, Publish,
     runtime, traffic
<1>3. CASE CleanupStep(c)
  BY <1>0, <1>1, <1>3 DEF CleanupStep, RetireDrained, RetireUnserved, RuntimeGone, Release,
     Settle, runtime, traffic
<1> QED
  BY <1>1, <1>2, <1>3 DEF Inside, Retire, AdvanceIdle, AdvanceEnds, AdvanceSamples, Reread,
     EndCleanup, Interrupt, Block, traffic

\* What the slot of a launching runner is.
LEMMA LaunchSlot ==
  ASSUME TypeOK, FenceInv, OwnerInv, PositionInv, NEW c \in Runners,
         runner[c].pc \in {"register", "launching", "publish"}
  PROVE  slot = Current(c) /\ Current(c) \in Replica
<1>1. runner[c].plan \in Plans
  BY DEF FenceInv, At
<1> QED
  BY <1>1 DEF PositionInv, Position, OwnerInv, OwnedPlan, Current

LEMMA InsideLive ==
  ASSUME TypeOK, FenceInv, OwnerInv, PositionInv, NEW c \in Runners, Inside(c)
  PROVE  LiveInv'
<1> USE CapacityAssumption
<1>0. /\ box \in [Replica -> {"none", "requested", "up", "gone"}]
      /\ launch \in [Replica -> {"none", "running", "completed"}]
      /\ LiveInv /\ None \notin Replica
  BY DEF TypeOK, OwnerInv, Replica
<1> SUFFICES ASSUME NEW r \in Replica, Live(r)' PROVE slot' = r
  BY DEF LiveInv
<1>1. CASE AdvanceSamples(c)
  BY <1>0, <1>1 DEF AdvanceSamples, LiveInv, Live, runtime
<1>2. CASE Settle(c)
  <2>1. Live(r) /\ ~Live(Current(c))
    BY <1>2 DEF Settle, Live, runtime, PositionInv, Position, At
  <2> QED
    BY <1>0, <1>2, <2>1 DEF Settle, LiveInv
<1>3. CASE StartLaunch(c)
  <2>1. slot = Current(c) /\ slot' = slot
    BY <1>3, LaunchSlot DEF StartLaunch, store, At
  <2>2. CASE r = Current(c)
    BY <2>1, <2>2
  <2>3. CASE r # Current(c)
    BY <1>0, <1>3, <2>1, <2>3 DEF StartLaunch, LiveInv, Live
  <2> QED
    BY <2>2, <2>3
<1>4. CASE Request(c) \/ ReceiveReceipt(c) \/ RuntimeGone(c)
  BY <1>0, <1>4 DEF Request, ReceiveReceipt, RuntimeGone, LiveInv, Live, store
<1>5. CASE UNCHANGED <<slot, runtime>>
  BY <1>0, <1>5 DEF LiveInv, Live, runtime
<1> QED
  BY <1>1, <1>2, <1>3, <1>4, <1>5 DEF Inside, LaunchStep, CleanupStep, Retire, AdvanceIdle,
     AdvanceEnds, Reread, EndCleanup, Interrupt, Block, Register, Publish, RetireDrained,
     RetireUnserved, Release, store

LEMMA OwnerStep ==
  ASSUME TypeOK, TypeOK', FenceInv, OwnerInv, PositionInv, Next
  PROVE  OwnerInv'
BY StepCases, OutsideOwner, AroundOwner, InsideReserved, InsideLive DEF OwnerInv, Reserved

-----------------------------------------------------------------------------
(* What a runner relies on *)

\* Only its own steps change what a runner under the fence relies on.
LEMMA OthersPosition ==
  ASSUME TypeOK, FenceInv, OwnerInv, PositionInv, NEW d \in Runners,
         runner'[d] = runner[d], rows' = rows,
         Fenced(d) => /\ plan'[runner[d].plan].phase = plan[runner[d].plan].phase
                      /\ plan'[runner[d].plan].cycle = plan[runner[d].plan].cycle
                      /\ Current(d) \in Replica => /\ box'[Current(d)] = box[Current(d)]
                                                   /\ launch'[Current(d)] = launch[Current(d)]
  PROVE  Position(d)'
<1>1. CASE ~Fenced(d)
  BY <1>1 DEF Fenced, FencedPc, TryPc, Position, At
<1>2. CASE Fenced(d)
  <2>1. At(d, "publish") => Current(d) \in Replica
    BY LaunchSlot DEF At
  <2>2. Position(d)
    BY DEF PositionInv
  <2>3. Current(d)' = Current(d)
    BY DEF Current
  <2> QED
    BY <1>2, <2>1, <2>2, <2>3 DEF Position, At, Live
<1> QED
  BY <1>1, <1>2

LEMMA AroundPosition ==
  ASSUME TypeOK, FenceInv, OwnerInv, PositionInv, NEW c \in Runners, Around(c),
         NEW d \in Runners
  PROVE  Position(d)'
<1>1. UNCHANGED <<rows, box, launch>>
  BY DEF Around, Start, Freeze, Crash, BeginTick, BeginClose, store, runtime, traffic
<1>2. CASE d # c
  <2>1. Fenced(d) => runner[d].plan \in Plans
    BY FencedOwns DEF OwnerInv, Reserved
  <2> QED
    BY <1>1, <1>2, <2>1, AroundEffect, OthersPosition
<1>3. CASE d = c
  <2>1. runner'[c].pc \in {"idle", "freeze", "ready", "advance", "retire"}
    BY AroundEffect DEF Idle
  <2> QED
    BY <1>3, <2>1 DEF Position, At
<1> QED
  BY <1>2, <1>3

LEMMA OutsidePosition ==
  ASSUME TypeOK, FenceInv, OwnerInv, PositionInv, ReadyInv, Outside, NEW d \in Runners
  PROVE  Position(d)'
<1>0. /\ UNCHANGED <<runner, plan, launch>> /\ Position(d)
      /\ Current(d)' = Current(d)
  BY DEF Outside, Cutover, Acknowledge, BeginRollback, Admit, Refuse, Dispatch, Finish,
     ContainerStarts, store, runtime, PositionInv, Current
<1>1. CASE UNCHANGED <<box, rows>>
  BY <1>0, <1>1, OthersPosition
<1>2. ASSUME NEW o \in Replica, ContainerStarts(o)
      PROVE  Position(d)'
  <2>1. /\ rows' = rows
        /\ \A r \in Replica : box'[r] = box[r] \/ (box[r] = "requested" /\ box'[r] = "up")
    BY <1>2 DEF ContainerStarts, traffic, TypeOK
  <2>2. At(d, "publish") => Current(d) \in Replica
    BY LaunchSlot DEF At
  <2> QED
    BY <1>0, <2>1, <2>2 DEF Position, At, Live
<1>3. ASSUME NEW q \in Requests, Admit(q) \/ Dispatch(q) \/ Finish(q)
      PROVE  Position(d)'
  <2>1. box' = box
    BY <1>3 DEF Admit, Dispatch, Finish, runtime
  <2>2. ASSUME At(d, "stop"), NEW k \in Requests, rows'[k].at = Current(d)
        PROVE  FALSE
    <3>1. /\ Current(d) \in Replica /\ rows[k].at # Current(d)
          /\ plan[runner[d].plan].phase \in {"draining", "blocked"}
      BY <1>0, <2>2 DEF Position, At
    <3>2. Current(d) # None
      BY <3>1, CapacityAssumption DEF Replica
    <3>3. CASE Admit(q)
      <4>1. Current(d) \in Candidates
        BY <2>2, <3>1, <3>3 DEF Admit, Open, TypeOK
      <4>2. Current(d) # <<Primary, route.gen>>
        BY <3>1, CapacityAssumption DEF Replica
      <4>3. Current(d) \in ready /\ Current(d)[1] = runner[d].plan
        BY <4>1, <4>2 DEF Candidates, Members, Current
      <4> QED
        BY <3>1, <4>3 DEF ReadyInv
    <3>4. CASE Dispatch(q)
      <4>1. rows'[k].at = rows[k].at
        BY <3>4 DEF Dispatch, TypeOK
      <4> QED
        BY <2>2, <3>1, <4>1
    <3>5. CASE Finish(q)
      <4>1. rows'[k].at = rows[k].at \/ rows'[k].at = None
        BY <3>5 DEF Finish, TypeOK
      <4> QED
        BY <2>2, <3>1, <3>2, <4>1
    <3> QED
      BY <1>3, <3>3, <3>4, <3>5
  <2> QED
    BY <1>0, <2>1, <2>2 DEF Position, At, Live
<1> QED
  BY <1>1, <1>2, <1>3 DEF Outside, Cutover, Acknowledge, BeginRollback, Refuse, runtime,
     traffic

LEMMA RestPosition ==
  ASSUME NEW c \in Runners,
         runner'[c].pc \notin {"register", "launching", "publish", "reread", "cleaning",
                               "stop", "abort", "release", "settle"}
  PROVE  Position(c)'
BY DEF Position, At

\* The runner goes on under the phase that its plan has now.
LEMMA ContinuePosition ==
  ASSUME TypeOK, NEW c \in Runners, NEW phase \in Phases, Continue(c, phase),
         runner[c].plan \in Plans,
         plan'[runner[c].plan].phase = phase,
         plan'[runner[c].plan].cycle = plan[runner[c].plan].cycle
  PROVE  Position(c)'
<1>1. CASE runner'[c].pc \in {"idle", "ready"}
  BY <1>1, RestPosition
<1>2. CASE /\ phase \in {"warming", "draining", "blocked"}
           /\ runner'[c].pc = IF phase = "warming" THEN "register" ELSE "cleaning"
           /\ runner'[c].plan = runner[c].plan
           /\ runner'[c].cycle = plan[runner[c].plan].cycle
  BY <1>2 DEF Position, At
<1> QED
  BY <1>1, <1>2, ContinueEffect DEF Idle

\* A replica without load is on no row.
LEMMA NoLoad ==
  ASSUME NEW r, Drained(r)
  PROVE  \A q \in Requests : rows[q].at # r
<1>1. IsFiniteSet({q \in Requests : rows[q].at = r})
  BY FS_Subset, CapacityAssumption
<1>2. {q \in Requests : rows[q].at = r} = {}
  BY <1>1, FS_EmptySet DEF Drained, Load
<1> QED
  BY <1>2

LEMMA LaunchPosition ==
  ASSUME TypeOK, TypeOK', FenceInv, OwnerInv, PositionInv, NEW c \in Runners, LaunchStep(c)
  PROVE  Position(c)'
<1> DEFINE p == runner[c].plan
           r == Current(c)
<1>0. /\ p \in Plans /\ Position(c)
      /\ plan \in [Plans -> PlanRecord]
      /\ box \in [Replica -> {"none", "requested", "up", "gone"}]
      /\ launch \in [Replica -> {"none", "running", "completed"}]
  BY InsideRunner DEF Inside, PositionInv, TypeOK, PlanRecord
<1> HIDE DEF p, r
<1>1. CASE Register(c)
  <2>1. /\ Goto(c, "launching") /\ plan' = plan
        /\ plan[p].phase = "warming" /\ plan[p].cycle = runner[c].cycle
    BY <1>0, <1>1 DEF Register, Position, At, store, p
  <2>2. runner'[c].pc = "launching" /\ runner'[c].plan = p /\ runner'[c].cycle = runner[c].cycle
    BY <2>1, GotoEffect DEF p, FencedPc, TryPc
  <2> QED
    BY <2>1, <2>2 DEF Position, At
<1>2. CASE StartLaunch(c) \/ Request(c)
  <2>1. /\ runner' = runner /\ plan' = plan /\ runner[c].pc = "launching"
        /\ plan[p].phase = "warming" /\ plan[p].cycle = runner[c].cycle
    BY <1>0, <1>2 DEF StartLaunch, Request, Position, At, store, p
  <2> QED
    BY <2>1 DEF Position, At, p
<1>3. CASE ReceiveReceipt(c)
  <2>1. /\ Goto(c, "publish") /\ plan' = plan /\ box' = box
        /\ launch' = [launch EXCEPT ![r] = "completed"] /\ box[r] = "up"
        /\ plan[p].phase = "warming" /\ plan[p].cycle = runner[c].cycle
    BY <1>0, <1>3 DEF ReceiveReceipt, Position, At, store, p, r
  <2>2. runner'[c].pc = "publish" /\ runner'[c].plan = p /\ runner'[c].cycle = runner[c].cycle
    BY <2>1, GotoEffect DEF p, FencedPc, TryPc
  <2>3. r \in Replica
    BY <1>3, LaunchSlot DEF ReceiveReceipt, At, r
  <2>4. launch'[r] = "completed" /\ box'[r] = "up" /\ Current(c)' = r
    BY <1>0, <2>1, <2>2, <2>3 DEF Current, r, p
  <2> QED
    BY <2>1, <2>2, <2>4 DEF Position, At
<1>4. CASE Publish(c)
  <2>1. Goto(c, "reread")
    BY <1>4 DEF Publish
  <2>2. plan'[p].phase \in {"two", "draining"}
    BY <1>0, <1>4 DEF Publish, PlanRecord, p
  <2>3. runner'[c].pc = "reread" /\ runner'[c].plan = p
    BY <2>1, GotoEffect DEF p, FencedPc, TryPc
  <2> QED
    BY <2>2, <2>3 DEF Position, At
<1> QED
  BY <1>1, <1>2, <1>3, <1>4 DEF LaunchStep

\* A container is stopped only when no request is on it, and the slot is given
\* back only when it is gone.
LEMMA CleanupPosition ==
  ASSUME TypeOK, FenceInv, OwnerInv, PositionInv, NEW c \in Runners, CleanupStep(c)
  PROVE  Position(c)'
<1> DEFINE p == runner[c].plan
           r == Current(c)
<1>0. /\ p \in Plans /\ Position(c) /\ Fenced(c)
      /\ box \in [Replica -> {"none", "requested", "up", "gone"}]
      /\ launch \in [Replica -> {"none", "running", "completed"}]
  BY InsideRunner DEF Inside, PositionInv, TypeOK
<1> HIDE DEF p, r
<1>1. ASSUME EndTick(c) PROVE Position(c)'
  BY <1>1, EndTickEffect, RestPosition DEF Idle
<1>2. ASSUME NEW pc \in {"stop", "abort", "release", "settle"}, Goto(c, pc), plan' = plan,
             runner[c].pc \in {"cleaning", "stop", "abort", "release", "settle"}
      PROVE  /\ runner'[c].pc = pc /\ Current(c)' = r /\ runner'[c].plan = p
             /\ runner'[c].cycle = runner[c].cycle
             /\ plan'[p].phase \in {"draining", "blocked"} /\ plan'[p].cycle = runner'[c].cycle
  <2>1. /\ runner'[c].pc = pc /\ runner'[c].plan = p
        /\ runner'[c].cycle = runner[c].cycle
    BY <1>2, GotoEffect DEF p, FencedPc, TryPc
  <2>2. plan[p].phase \in {"draining", "blocked"} /\ plan[p].cycle = runner[c].cycle
    BY <1>0, <1>2 DEF Position, p
  <2> QED
    BY <1>2, <2>1, <2>2 DEF Current, r, p
<1>3. CASE RetireDrained(c)
  <2>1. CASE EndTick(c)
    BY <1>1, <2>1
  <2>2. CASE Goto(c, "stop") /\ Drained(r)
    <3>1. /\ plan' = plan /\ rows' = rows /\ r \in Replica /\ runner[c].pc = "cleaning"
      BY <1>0, <1>3, CurrentReplica DEF RetireDrained, store, traffic, At, r
    <3>2. \A q \in Requests : rows'[q].at # r
      BY <2>2, <3>1, NoLoad
    <3>3. /\ runner'[c].pc = "stop" /\ Current(c)' = r /\ runner'[c].plan = p
          /\ plan'[p].phase \in {"draining", "blocked"} /\ plan'[p].cycle = runner'[c].cycle
      BY <1>2, <2>2, <3>1
    <3> QED
      BY <3>1, <3>2, <3>3 DEF Position, At
  <2> QED
    BY <1>3, <2>1, <2>2 DEF RetireDrained, r
<1>4. CASE RetireUnserved(c)
  <2>1. /\ plan' = plan /\ launch' = launch /\ r \in Replica /\ runner[c].pc = "cleaning"
        /\ launch[r] # "completed"
        /\ \/ Goto(c, "abort") /\ launch[r] = "running"
           \/ Goto(c, "release") /\ launch[r] # "running"
    BY <1>0, <1>4, CurrentReplica DEF RetireUnserved, Attempted, store, runtime, At, r
  <2>2. CASE Goto(c, "abort") /\ launch[r] = "running"
    <3>1. /\ runner'[c].pc = "abort" /\ Current(c)' = r /\ runner'[c].plan = p
          /\ plan'[p].phase \in {"draining", "blocked"} /\ plan'[p].cycle = runner'[c].cycle
      BY <1>2, <2>1, <2>2
    <3> QED
      BY <2>1, <2>2, <3>1 DEF Position, At
  <2>3. CASE Goto(c, "release") /\ launch[r] # "running"
    <3>1. /\ runner'[c].pc = "release" /\ Current(c)' = r /\ runner'[c].plan = p
          /\ plan'[p].phase \in {"draining", "blocked"} /\ plan'[p].cycle = runner'[c].cycle
      BY <1>2, <2>1, <2>3
    <3>2. launch'[r] = "none"
      BY <1>0, <2>1, <2>3
    <3> QED
      BY <2>1, <3>1, <3>2 DEF Position, At, Live
  <2> QED
    BY <2>1, <2>2, <2>3
<1>5. CASE RuntimeGone(c)
  <2>1. /\ plan' = plan /\ Goto(c, "release") /\ runner[c].pc \in {"stop", "abort"}
        /\ r \in Replica /\ box' = [box EXCEPT ![r] = "gone"]
    BY <1>0, <1>5 DEF RuntimeGone, store, At, Position, r
  <2>2. /\ runner'[c].pc = "release" /\ Current(c)' = r /\ runner'[c].plan = p
        /\ plan'[p].phase \in {"draining", "blocked"} /\ plan'[p].cycle = runner'[c].cycle
    BY <1>2, <2>1
  <2>3. box'[r] = "gone"
    BY <1>0, <2>1
  <2> QED
    BY <2>1, <2>2, <2>3 DEF Position, At, Live
<1>6. CASE Release(c)
  <2>1. /\ plan' = plan /\ Goto(c, "settle") /\ runner[c].pc = "release"
        /\ r \in Replica /\ box' = box /\ launch' = launch /\ ~Live(r)
    BY <1>0, <1>6 DEF Release, store, runtime, At, Position, r
  <2>2. /\ runner'[c].pc = "settle" /\ Current(c)' = r /\ runner'[c].plan = p
        /\ plan'[p].phase \in {"draining", "blocked"} /\ plan'[p].cycle = runner'[c].cycle
    BY <1>2, <2>1
  <2> QED
    BY <2>1, <2>2 DEF Position, At, Live
<1>7. CASE Settle(c)
  <2>1. runner'[c].pc = "settled"
    BY <1>7, GotoEffect DEF Settle, FencedPc, TryPc
  <2> QED
    BY <2>1, RestPosition
<1> QED
  BY <1>3, <1>4, <1>5, <1>6, <1>7 DEF CleanupStep

LEMMA AdvancePosition ==
  ASSUME TypeOK, TypeOK', FenceInv, NEW c \in Runners,
         AdvanceIdle(c) \/ AdvanceEnds(c) \/ AdvanceSamples(c)
  PROVE  Position(c)'
<1> DEFINE p == runner[c].plan
<1>0. p \in Plans /\ plan \in [Plans -> PlanRecord]
  BY InsideRunner DEF Inside, TypeOK, PlanRecord
<1>1. ASSUME Stop(c) PROVE Position(c)'
  BY <1>1, StopEffect, RestPosition DEF Idle
<1> HIDE DEF p
<1>2. ASSUME NEW phase \in Phases, Continue(c, phase), plan'[p].phase = phase,
             plan'[p].cycle = plan[p].cycle
      PROVE  Position(c)'
  BY <1>0, <1>2, ContinuePosition DEF p
<1>3. CASE AdvanceIdle(c)
  <2>1. plan' = plan /\ plan[p].phase \in Phases
        /\ (Stop(c) \/ Continue(c, plan[p].phase))
    BY <1>0, <1>3 DEF AdvanceIdle, PlanRecord, store, p
  <2> QED
    BY <1>1, <1>2, <2>1
<1>4. CASE AdvanceEnds(c)
  <2>1. PICK phase \in Phases :
          plan' = [plan EXCEPT ![p].phase = phase] /\ Continue(c, phase)
    BY <1>4 DEF AdvanceEnds, Phases, p
  <2>2. plan'[p].phase = phase /\ plan'[p].cycle = plan[p].cycle
    BY <1>0, <2>1 DEF PlanRecord
  <2> QED
    BY <1>2, <2>1, <2>2
<1>5. CASE AdvanceSamples(c)
  <2>0. plan[p].phase \in Phases
    BY <1>0 DEF PlanRecord
  <2>1. PICK phase, decision :
          phase \in Phases /\ Judged(c, p, phase, decision) /\ Continue(c, phase)
    BY <1>5, <2>0 DEF AdvanceSamples, Phases, p
  <2>2. plan'[p].phase = phase /\ plan'[p].cycle = plan[p].cycle
    BY <1>0, <2>1 DEF Judged, PlanRecord
  <2> QED
    BY <1>2, <2>1, <2>2
<1> QED
  BY <1>3, <1>4, <1>5

LEMMA OwnPosition ==
  ASSUME TypeOK, TypeOK', FenceInv, OwnerInv, PositionInv, NEW c \in Runners, Inside(c)
  PROVE  Position(c)'
<1>1. ASSUME Stop(c) \/ EndTick(c) PROVE Position(c)'
  BY <1>1, StopEffect, EndTickEffect, RestPosition DEF Idle
<1>2. ASSUME NEW pc \in {"advance", "failing"}, Goto(c, pc) PROVE Position(c)'
  BY <1>2, GotoEffect, RestPosition DEF FencedPc
<1>3. CASE Retire(c) \/ EndCleanup(c) \/ Interrupt(c) \/ Block(c)
  BY <1>1, <1>2, <1>3 DEF Retire, EndCleanup, Interrupt, Block
<1>4. CASE AdvanceIdle(c) \/ AdvanceEnds(c) \/ AdvanceSamples(c)
  BY <1>4, AdvancePosition
<1>5. CASE Reread(c)
  <2>1. CASE EndTick(c)
    BY <1>1, <2>1
  <2>2. CASE ~EndTick(c)
    <3>1. /\ plan[runner[c].plan].phase \in {"draining", "blocked"} /\ plan' = plan
          /\ runner' = [runner EXCEPT ![c].pc = "cleaning", ![c].cycle = plan[runner[c].plan].cycle]
      BY <1>5, <2>2 DEF Reread, store
    <3>2. /\ runner'[c].pc = "cleaning" /\ runner'[c].plan = runner[c].plan
          /\ runner'[c].cycle = plan[runner[c].plan].cycle
      BY <3>1, RunnerTypes DEF RunnerRecord
    <3> QED
      BY <3>1, <3>2 DEF Position, At
  <2> QED
    BY <2>1, <2>2
<1> QED
  BY <1>3, <1>4, <1>5, LaunchPosition, CleanupPosition DEF Inside

LEMMA PositionStep ==
  ASSUME TypeOK, TypeOK', FenceInv, OwnerInv, PositionInv, ReadyInv, Next
  PROVE  PositionInv'
<1> SUFFICES ASSUME NEW d \in Runners PROVE Position(d)'
  BY DEF PositionInv
<1>1. ASSUME NEW c \in Runners, Inside(c)
      PROVE  Position(d)'
  <2>1. CASE d = c
    BY <1>1, <2>1, OwnPosition
  <2>2. CASE d # c
    <3>1. runner'[d] = runner[d] /\ rows' = rows
      BY <1>1, <2>2, InsideRunner, InsideRuntime
    <3>2. ASSUME Fenced(d)
          PROVE  /\ runner[d].plan \in Plans \ {runner[c].plan}
                 /\ Current(d) # Current(c)
      <4>1. Fenced(c) /\ runner[d].plan \in Plans
        BY <1>1, <3>2, InsideRunner, FencedOwns DEF OwnerInv, Reserved
      <4>2. runner[d].plan # runner[c].plan
        BY <2>2, <3>2, <4>1 DEF FenceInv
      <4> QED
        BY <4>1, <4>2 DEF Current
    <3> QED
      BY <1>1, <3>1, <3>2, InsidePlan, InsideRuntime, OthersPosition
  <2> QED
    BY <2>1, <2>2
<1> QED
  BY <1>1, StepCases, OutsidePosition, AroundPosition

-----------------------------------------------------------------------------
(* Members and requests *)

LEMMA OutsideServes ==
  ASSUME TypeOK, Outside, NEW r \in Replica, Serves(r)
  PROVE  Serves(r)'
<1>1. CASE UNCHANGED runtime
  BY <1>1 DEF Serves, runtime
<1>2. ASSUME NEW o \in Replica, ContainerStarts(o)
      PROVE  Serves(r)'
  BY <1>2 DEF ContainerStarts, Serves, TypeOK
<1> QED
  BY <1>1, <1>2 DEF Outside, Cutover, Acknowledge, BeginRollback, Admit, Refuse, Dispatch,
     Finish

LEMMA OutsideReady ==
  ASSUME TypeOK, ReadyInv, Outside
  PROVE  ReadyInv'
<1>1. UNCHANGED <<store, pool, endpoints>>
  BY DEF Outside, Cutover, Acknowledge, BeginRollback, Admit, Refuse, Dispatch, Finish,
     ContainerStarts
<1> QED
  BY <1>1, OutsideServes DEF ReadyInv, store, pool, endpoints, TypeOK

LEMMA AroundReady ==
  ASSUME TypeOK, FenceInv, ReadyInv, NEW c \in Runners, Around(c)
  PROVE  ReadyInv'
<1>1. UNCHANGED <<slot, pool, endpoints, runtime>>
  BY DEF Around, Start, Freeze, Crash, BeginTick, BeginClose, store
<1>2. \A r \in ready : r[1] \in Plans
  BY DEF TypeOK, Replica
<1> QED
  BY <1>1, <1>2, AroundEffect DEF ReadyInv, Serves, pool, endpoints, runtime

\* Members of a plan that is withdrawn are gone from the pool; the others have
\* not been touched.
LEMMA Withdrawn ==
  ASSUME TypeOK, ReadyInv, NEW p \in Plans, UNCHANGED <<slot, retired, box, launch>>,
         Remove(p) \/ (ready' = ready /\ plan[p].phase # "two"),
         \A q \in Plans \ {p} : plan'[q] = plan[q]
  PROVE  ReadyInv'
<1>1. \A r \in ready' : r \in ready /\ r[1] \in Plans \ {p}
  BY DEF TypeOK, Replica, Remove, ReadyInv
<1> QED
  BY <1>1 DEF ReadyInv, Serves

\* While a runner cleans up, its plan has no member.
LEMMA NoneReady ==
  ASSUME PositionInv, ReadyInv, NEW c \in Runners,
         runner[c].pc \in {"cleaning", "stop", "abort", "release", "settle"}
  PROVE  \A r \in ready : r[1] # runner[c].plan
BY DEF PositionInv, Position, ReadyInv

\* A runner leaves what serves alone until no request is on it and it is no
\* member any more.
LEMMA InsideServes ==
  ASSUME TypeOK, FenceInv, OwnerInv, PositionInv, NEW c \in Runners, Inside(c),
         NEW r \in Replica, Serves(r),
         RuntimeGone(c) => r # Current(c) \/ \E q \in Requests : rows[q].at = r
  PROVE  Serves(r)'
<1>0. /\ box \in [Replica -> {"none", "requested", "up", "gone"}]
      /\ launch \in [Replica -> {"none", "running", "completed"}]
  BY DEF TypeOK
<1>1. CASE r # Current(c)
  BY <1>1, InsideRuntime DEF Serves
<1>2. CASE r = Current(c)
  <2>1. CASE RuntimeGone(c)
    BY <1>2, <2>1 DEF RuntimeGone, PositionInv, Position, At, Serves
  <2>2. CASE StartLaunch(c) \/ Request(c) \/ ReceiveReceipt(c)
    BY <1>0, <1>2, <2>2 DEF StartLaunch, Request, ReceiveReceipt, Serves
  <2>3. CASE UNCHANGED runtime
    BY <2>3 DEF Serves, runtime
  <2> QED
    BY <2>1, <2>2, <2>3 DEF Inside, LaunchStep, CleanupStep, Retire, AdvanceIdle,
       AdvanceEnds, AdvanceSamples, Reread, EndCleanup, Interrupt, Block, Register, Publish,
       RetireDrained, RetireUnserved, Release, Settle
<1> QED
  BY <1>1, <1>2

LEMMA RowsStep ==
  ASSUME TypeOK, FenceInv, OwnerInv, PositionInv, ReadyInv, RowsInv, Next
  PROVE  RowsInv'
<1>1. CASE Outside
  <2>1. ASSUME NEW k \in Requests, rows'[k].at \in Replica
        PROVE  Serves(rows'[k].at)
    <3>0. None \notin Replica /\ Primary \notin Plans
      BY CapacityAssumption DEF Replica
    <3>1. CASE rows' = rows
      BY <2>1, <3>1 DEF RowsInv
    <3>2. ASSUME NEW q \in Requests, Admit(q)
          PROVE  Serves(rows'[k].at)
      <4>1. PICK m \in Candidates : rows' = [rows EXCEPT ![q] = [at |-> m, dispatched |-> FALSE]]
        BY <3>2 DEF Admit, Open
      <4>2. rows'[k].at = m \/ rows'[k].at = rows[k].at
        BY <4>1 DEF TypeOK
      <4>3. m \in Replica => m \in ready
        BY <3>0, <4>1 DEF Candidates, Members, Replica
      <4> QED
        BY <2>1, <4>2, <4>3 DEF RowsInv, ReadyInv
    <3>3. ASSUME NEW q \in Requests, Dispatch(q)
          PROVE  Serves(rows'[k].at)
      <4>1. rows'[k].at = rows[k].at
        BY <3>3 DEF Dispatch, TypeOK
      <4> QED
        BY <2>1, <4>1 DEF RowsInv
    <3>4. ASSUME NEW q \in Requests, Finish(q)
          PROVE  Serves(rows'[k].at)
      <4>1. rows'[k].at = rows[k].at \/ rows'[k].at = None
        BY <3>4 DEF Finish, TypeOK
      <4> QED
        BY <2>1, <3>0, <4>1 DEF RowsInv
    <3> QED
      BY <1>1, <3>1, <3>2, <3>3, <3>4 DEF Outside, Cutover, Acknowledge, BeginRollback, Refuse,
         ContainerStarts, traffic
  <2> QED
    BY <1>1, <2>1, OutsideServes DEF RowsInv, Serves
<1>2. ASSUME NEW c \in Runners, Around(c)
      PROVE  RowsInv'
  BY <1>2 DEF Around, Start, Freeze, Crash, BeginTick, BeginClose, runtime, traffic, RowsInv,
     Serves
<1>3. ASSUME NEW c \in Runners, Inside(c)
      PROVE  RowsInv'
  <2>1. rows' = rows
    BY <1>3, InsideRuntime
  <2>2. ASSUME NEW q \in Requests, rows[q].at \in Replica
        PROVE  Serves(rows[q].at)'
    <3>1. Serves(rows[q].at)
      BY <2>2 DEF RowsInv
    <3>2. PICK r \in Replica : r = rows[q].at
      BY <2>2
    <3>3. Serves(r)'
      BY <1>3, <3>1, <3>2, InsideServes
    <3> QED
      BY <2>1, <3>2, <3>3 DEF Serves
  <2> QED
    BY <2>1, <2>2 DEF RowsInv, Serves
<1> QED
  BY <1>1, <1>2, <1>3, StepCases

LEMMA InsideReady ==
  ASSUME TypeOK, FenceInv, OwnerInv, PositionInv, ReadyInv, NEW c \in Runners, Inside(c)
  PROVE  ReadyInv'
<1> DEFINE p == runner[c].plan
<1>0. /\ p \in Plans /\ plan \in [Plans -> PlanRecord]
      /\ \A q \in Plans \ {p} : plan'[q] = plan[q]
      /\ \A r \in ready : r \in Replica /\ r[1] \in Plans
      /\ None \notin Replica
  BY InsideRunner, InsidePlan, CapacityAssumption DEF TypeOK, PlanRecord, Replica
<1> HIDE DEF p
<1>1. ASSUME \A r \in ready : Serves(r)', ready' = ready, slot' = slot, plan' = plan,
             retired' = retired
      PROVE  ReadyInv'
  BY <1>1 DEF ReadyInv, Serves
<1>2. CASE Retire(c) \/ AdvanceEnds(c) \/ Block(c)
  <2>1. CASE UNCHANGED <<plan, ready>>
    BY <1>2, <2>1 DEF Retire, AdvanceEnds, Block, ReadyInv, Serves, endpoints, runtime
  <2>2. CASE ~UNCHANGED <<plan, ready>>
    <3>1. UNCHANGED <<slot, retired, box, launch>>
      BY <1>2 DEF Retire, AdvanceEnds, Block, endpoints, runtime
    <3>2. Remove(p) \/ (ready' = ready /\ plan[p].phase # "two")
      BY <1>2, <2>2 DEF Retire, AdvanceEnds, Block, p
    <3> QED
      BY <1>0, <3>1, <3>2, Withdrawn
  <2> QED
    BY <2>1, <2>2
<1>3. CASE AdvanceSamples(c)
  <2>1. PICK phase, decision :
          /\ phase \in Phases /\ Judged(c, p, phase, decision)
          /\ \/ slot = None /\ ready' = ready
             \/ /\ slot' = slot /\ ready' = ready
                /\ plan[p].phase = "one"
             \/ slot' = slot /\ Remove(p)
             \/ phase = plan[p].phase /\ UNCHANGED <<slot, ready>>
    BY <1>0, <1>3, SampleCases DEF p
  <2>2. UNCHANGED <<retired, box, launch>>
    BY <1>3 DEF AdvanceSamples, endpoints, runtime
  <2>3. CASE slot = None /\ ready' = ready
    BY <1>0, <2>3 DEF ReadyInv
  <2>4. CASE slot' = slot /\ (Remove(p) \/ (ready' = ready /\ plan[p].phase = "one"))
    BY <1>0, <2>2, <2>4, Withdrawn
  <2>5. CASE phase = plan[p].phase /\ UNCHANGED <<slot, ready>>
    <3>1. \A q \in Plans : plan'[q].phase = plan[q].phase
      BY <1>0, <2>1, <2>5 DEF Judged, PlanRecord
    <3> QED
      BY <1>0, <2>2, <2>5, <3>1 DEF ReadyInv, Serves
  <2> QED
    BY <2>1, <2>3, <2>4, <2>5
<1>4. CASE AdvanceIdle(c) \/ Reread(c) \/ EndCleanup(c) \/ Interrupt(c)
  BY <1>4 DEF AdvanceIdle, Reread, EndCleanup, Interrupt, ReadyInv, Serves, store, pool,
     endpoints, runtime
<1>5. CASE Register(c) \/ StartLaunch(c) \/ Request(c) \/ ReceiveReceipt(c)
  <2>1. \A r \in ready : Serves(r)'
    <3>1. ~RuntimeGone(c)
      BY <1>5 DEF Register, StartLaunch, Request, ReceiveReceipt, RuntimeGone, At
    <3>2. \A r \in ready : r \in Replica /\ Serves(r)
      BY <1>0 DEF ReadyInv
    <3> QED
      BY <3>1, <3>2, InsideServes
  <2> QED
    BY <1>1, <1>5, <2>1 DEF Register, StartLaunch, Request, ReceiveReceipt, store, pool,
       endpoints
<1>6. CASE Publish(c)
  <2>1. /\ slot = Current(c) /\ slot' = slot /\ plan[p].phase = "warming"
        /\ UNCHANGED <<retired, box, launch>>
    BY <1>6 DEF Publish, endpoints, runtime, p
  <2>2. CASE Stable(p)
    <3>1. /\ Current(c) \notin retired /\ ready' = ready \cup {Current(c)}
          /\ plan' = [plan EXCEPT ![p].phase = "two"]
      BY <1>6, <2>2 DEF Publish, p
    <3>2. Serves(Current(c))
      BY <1>6 DEF Publish, PositionInv, Position, Serves
    <3>3. plan'[p].phase = "two" /\ Current(c)[1] = p
      BY <1>0, <3>1 DEF PlanRecord, Current, p
    <3>4. \A r \in ready' : r = Current(c)
      BY <2>1, <3>1 DEF ReadyInv
    <3> QED
      BY <2>1, <3>1, <3>2, <3>3, <3>4 DEF ReadyInv, Serves
  <2>3. CASE ~Stable(p)
    <3>1. ready' = ready
      BY <1>6, <2>3 DEF Publish, pool, p
    <3> QED
      BY <1>0, <2>1, <3>1, Withdrawn
  <2> QED
    BY <2>2, <2>3
<1>7. CASE CleanupStep(c)
  <2>1. \A r \in ready : r[1] # p /\ r # Current(c)
    BY <1>7, NoneReady DEF CleanupStep, RetireDrained, RetireUnserved, RuntimeGone, Release,
       Settle, At, Current, p
  <2>2. ready' = ready
    BY <1>7 DEF CleanupStep, RetireDrained, RetireUnserved, RuntimeGone, Release, Settle, pool
  <2>3. \A r \in ready : Serves(r)'
    <3>1. \A r \in ready : r \in Replica /\ Serves(r)
      BY <1>0 DEF ReadyInv
    <3> QED
      BY <1>7, <2>1, <3>1, InsideRuntime DEF Inside, Serves
  <2>4. \A r \in ready : r \notin retired'
    BY <1>7, <2>1 DEF ReadyInv, CleanupStep, RetireDrained, RetireUnserved, RuntimeGone,
       Release, Settle, endpoints
  <2>5. \A r \in ready : slot' = r
    BY <1>7, <2>1 DEF ReadyInv, CleanupStep, RetireDrained, RetireUnserved, RuntimeGone,
       Release, Settle, store
  <2>6. \A r \in ready : plan'[r[1]].phase = "two"
    BY <1>0, <2>1 DEF ReadyInv
  <2> QED
    BY <2>2, <2>3, <2>4, <2>5, <2>6 DEF ReadyInv, Serves
<1> QED
  BY <1>2, <1>3, <1>4, <1>5, <1>6, <1>7 DEF Inside, LaunchStep

LEMMA ReadyStep ==
  ASSUME TypeOK, FenceInv, OwnerInv, PositionInv, ReadyInv, Next
  PROVE  ReadyInv'
BY StepCases, OutsideReady, AroundReady, InsideReady

-----------------------------------------------------------------------------
(* The policy *)

\* A streak of the policy is never longer than what its runner has watched.
LEMMA DecidePatience ==
  ASSUME NEW c \in Runners, NEW p \in Plans, NEW memory \in Memory,
         NEW gap \in {"early", "due", "late"}, NEW cooled \in BOOLEAN,
         quiet \in [Runners -> 0 .. LowSamples],
         memory.epoch = c => memory.low <= quiet[c],
         Watched(c, Sample(c, p, gap, cooled))
  PROVE  LET decision == Decide(memory, Sample(c, p, gap, cooled))
         IN /\ decision.memory.epoch = c
            /\ decision.memory.low <= quiet'[c]
            /\ decision.action = "down" => quiet'[c] >= LowSamples
<1> USE CapacityAssumption
<1> DEFINE obs == Sample(c, p, gap, cooled)
           decision == Decide(memory, obs)
<1> SUFFICES /\ decision.memory.epoch = c
             /\ decision.memory.low <= quiet'[c]
             /\ decision.action = "down" => quiet'[c] >= LowSamples
  OBVIOUS
<1>1. obs.epoch = c /\ obs.members \in 1 .. 2 /\ obs.gap = gap /\ obs.cooled = cooled
  BY DEF Sample
<1>2. /\ LowSamples \in Nat /\ LowSamples > 0
      /\ quiet[c] \in 0 .. LowSamples /\ memory.low \in 0 .. LowSamples
  BY DEF Memory
<1>3. quiet'[c] = CASE obs.members # 2 \/ ~obs.idle -> 0
                    [] obs.gap = "late" -> 1
                    [] OTHER -> IF quiet[c] < LowSamples THEN quiet[c] + 1 ELSE quiet[c]
  BY DEF Watched
<1> HIDE DEF obs
<1>4. quiet'[c] \in 0 .. LowSamples
  BY <1>2, <1>3
<1>5. Baseline(obs).epoch = c /\ Baseline(obs).low = 0
  BY <1>1 DEF Baseline
<1>6. CASE ~Fresh(memory, obs)
  BY <1>4, <1>5, <1>6 DEF Decide
<1>7. CASE Fresh(memory, obs)
  <2> DEFINE high == IF obs.members = 1 /\ obs.busy
                     THEN Extended(memory.high, obs, HighSamples) ELSE 0
             low == IF obs.members = 2 /\ obs.idle
                    THEN Extended(memory.low, obs, LowSamples) ELSE 0
             action == CASE obs.cooled /\ high >= HighSamples -> "up"
                         [] obs.cooled /\ low >= LowSamples -> "down"
                         [] OTHER -> "hold"
  <2>1. decision = [memory |-> IF action = "hold"
                               THEN [Baseline(obs) EXCEPT !.high = high, !.low = low]
                               ELSE Baseline(obs),
                    action |-> action]
    BY <1>7 DEF Decide
  <2>2. low \in Nat /\ low <= quiet'[c]
    <3>1. CASE ~(obs.members = 2 /\ obs.idle)
      BY <1>4, <3>1
    <3>2. CASE obs.members = 2 /\ obs.idle
      <4>1. memory.low <= quiet[c] /\ obs.gap \in {"due", "late"}
        BY <1>1, <1>7 DEF Fresh
      <4>2. CASE obs.gap = "late"
        BY <1>2, <1>3, <3>2, <4>2 DEF Extended
      <4>3. CASE obs.gap = "due"
        BY <1>2, <1>3, <3>2, <4>1, <4>3 DEF Extended
      <4> QED
        BY <4>1, <4>2, <4>3
    <3> QED
      BY <3>1, <3>2
  <2>3. action = "down" => low >= LowSamples
    <3> HIDE DEF low, high
    <3> QED
      OBVIOUS
  <2>4. [Baseline(obs) EXCEPT !.high = high, !.low = low].epoch = c
        /\ [Baseline(obs) EXCEPT !.high = high, !.low = low].low = low
    <3> HIDE DEF low, high
    <3> QED
      BY <1>1 DEF Baseline
  <2> HIDE DEF action, low, high
  <2> QED
    BY <1>2, <1>4, <1>5, <2>1, <2>2, <2>3, <2>4
<1> QED
  BY <1>6, <1>7 DEF obs

\* The streaks of the other plans are not the runner's, and its own one grows
\* with what it watches.
LEMMA SamplePatience ==
  ASSUME TypeOK, FenceInv, PatienceInv, NEW c \in Runners, AdvanceSamples(c)
  PROVE  /\ \A d \in Runners \ {c} : quiet'[d] = quiet[d]
         /\ plan'[runner[c].plan].memory.epoch = c
         /\ plan'[runner[c].plan].memory.low <= quiet'[c]
         /\ plan[runner[c].plan].phase = "two" /\ plan'[runner[c].plan].phase = "draining"
              => quiet'[c] >= LowSamples
<1> DEFINE p == runner[c].plan
<1>0. /\ p \in Plans /\ plan \in [Plans -> PlanRecord]
      /\ quiet \in [Runners -> 0 .. LowSamples]
  BY InsideRunner DEF Inside, TypeOK, PlanRecord
<1> HIDE DEF p
<1>1. PICK gap \in {"early", "due", "late"}, cooled \in BOOLEAN, phase \in Phases :
        /\ Judged(c, p, phase, Decide(plan[p].memory, Sample(c, p, gap, cooled)))
        /\ Watched(c, Sample(c, p, gap, cooled))
        /\ \/ plan[p].phase = "one"
           \/ Decide(plan[p].memory, Sample(c, p, gap, cooled)).action = "down"
           \/ phase = plan[p].phase
  BY <1>0, SampleCases DEF p
<1> DEFINE decision == Decide(plan[p].memory, Sample(c, p, gap, cooled))
<1>2. /\ decision.memory.epoch = c
      /\ decision.memory.low <= quiet'[c]
      /\ decision.action = "down" => quiet'[c] >= LowSamples
  <2>1. plan[p].memory \in Memory
    BY <1>0 DEF PlanRecord
  <2>2. plan[p].memory.epoch = c => plan[p].memory.low <= quiet[c]
    BY <1>0 DEF PatienceInv
  <2> QED
    BY <1>0, <1>1, <2>1, <2>2, DecidePatience
<1>3. /\ plan'[p].memory = decision.memory /\ plan'[p].phase = phase
  <2> HIDE DEF decision
  <2>1. plan' = [plan EXCEPT ![p].phase = phase, ![p].samples = @ + 1,
                             ![p].memory = decision.memory]
    BY <1>1 DEF Judged, decision
  <2> QED
    BY <1>0, <2>1 DEF PlanRecord
<1>4. \A d \in Runners \ {c} : quiet'[d] = quiet[d]
  BY <1>0, <1>1 DEF Watched
<1>5. plan[p].phase = "two" /\ phase = "draining" => decision.action = "down"
  BY <1>1
<1> HIDE DEF decision
<1> QED
  BY <1>2, <1>3, <1>4, <1>5 DEF p

\* No other step under the fence gives a plan a streak.
LEMMA OtherMemory ==
  ASSUME TypeOK, FenceInv, NEW c \in Runners, Inside(c), ~AdvanceSamples(c)
  PROVE  /\ UNCHANGED quiet
         /\ \A q \in Plans : \/ plan'[q].memory = plan[q].memory
                             \/ plan'[q].memory = NoMemory
<1>0. runner[c].plan \in Plans /\ plan \in [Plans -> PlanRecord]
  BY InsideRunner DEF TypeOK, PlanRecord
<1>1. UNCHANGED quiet
  BY DEF Inside, LaunchStep, CleanupStep, Retire, AdvanceIdle, AdvanceEnds, Reread,
     EndCleanup, Interrupt, Block, Register, StartLaunch, Request, ReceiveReceipt, Publish,
     RetireDrained, RetireUnserved, RuntimeGone, Release, Settle
<1>2. CASE UNCHANGED plan
  BY <1>1, <1>2
<1>3. CASE Retire(c) /\ ~UNCHANGED plan
  <2>1. plan' = [plan EXCEPT ![runner[c].plan].phase = IF @ = "one" THEN "closed" ELSE "draining",
                             ![runner[c].plan].samples = MaxSamples]
    BY <1>3 DEF Retire
  <2> QED
    BY <1>0, <1>1, <2>1 DEF PlanRecord
<1>4. CASE AdvanceEnds(c) \/ Publish(c) \/ (Block(c) /\ ~UNCHANGED plan)
  <2>1. PICK phase : plan' = [plan EXCEPT ![runner[c].plan].phase = phase]
    BY <1>4 DEF AdvanceEnds, Publish, Block
  <2> QED
    BY <1>0, <1>1, <2>1 DEF PlanRecord
<1>5. CASE Settle(c)
  <2>1. PICK phase :
          plan' = [plan EXCEPT ![runner[c].plan] = [@ EXCEPT !.phase = phase,
                     !.cycle = runner[c].cycle + 1, !.memory = NoMemory]]
    BY <1>5 DEF Settle
  <2> QED
    BY <1>0, <1>1, <2>1 DEF PlanRecord
<1> QED
  BY <1>1, <1>2, <1>3, <1>4, <1>5 DEF Inside, LaunchStep, CleanupStep, AdvanceIdle, Reread,
     EndCleanup, Interrupt, Block, Register, StartLaunch, Request, ReceiveReceipt,
     RetireDrained, RetireUnserved, RuntimeGone, Release, store

LEMMA AroundPatience ==
  ASSUME TypeOK, FenceInv, PatienceInv, NEW c \in Runners, Around(c)
  PROVE  PatienceInv'
<1> USE CapacityAssumption
<1>0. plan \in [Plans -> PlanRecord] /\ quiet \in [Runners -> 0 .. LowSamples]
  BY DEF TypeOK, PlanRecord
<1> SUFFICES ASSUME NEW p \in Plans, NEW d \in Runners, plan'[p].memory.epoch = d
             PROVE  /\ runner'[d].pc = "idle" \/ runner'[d].plan = p
                    /\ plan'[p].memory.low <= quiet'[d]
  BY DEF PatienceInv, At
<1>1. CASE Start(c)
  <2>1. plan'[p] = IF plan[p].memory.epoch = c THEN [plan[p] EXCEPT !.memory.epoch = None]
                   ELSE plan[p]
    BY <1>1 DEF Start
  <2>2. plan[p].memory.epoch # c /\ plan'[p] = plan[p]
    <3>1. CASE plan[p].memory.epoch = c
      <4>1. plan'[p].memory.epoch = None
        BY <1>0, <2>1, <3>1 DEF PlanRecord, Memory
      <4> QED
        BY <4>1
    <3> QED
      BY <2>1, <3>1
  <2>3. d # c /\ quiet'[d] = quiet[d]
    BY <1>0, <1>1, <2>2 DEF Start
  <2> QED
    BY <2>2, <2>3, AroundEffect DEF PatienceInv, At
<1>2. CASE ~Start(c)
  <2>1. UNCHANGED quiet
    BY <1>2 DEF Around, Freeze, Crash, BeginTick, BeginClose
  <2>2. plan'[p].memory = plan[p].memory
    <3>1. CASE Freeze(c) /\ plan' = [plan EXCEPT ![runner[c].plan].known = TRUE]
      BY <1>0, <3>1 DEF PlanRecord
    <3>2. CASE UNCHANGED plan
      BY <3>2
    <3> QED
      BY <1>2, <3>1, <3>2 DEF Around, Freeze, Crash, BeginTick, BeginClose, store
  <2>3. runner'[d].pc = "idle" \/ (runner'[d].plan = runner[d].plan /\ runner[d].pc # "idle")
          \/ runner'[d] = runner[d]
    <3>1. ASSUME Stop(c) PROVE runner'[d].pc = "idle" \/ runner'[d] = runner[d]
      BY <3>1, StopEffect DEF Idle
    <3>2. ASSUME NEW pc \in {"ready", "advance"}, Goto(c, pc), ~At(c, "idle")
          PROVE  (runner'[d].plan = runner[d].plan /\ runner[d].pc # "idle")
                   \/ runner'[d] = runner[d]
      BY <3>2, GotoEffect DEF At, FencedPc
    <3>3. CASE BeginClose(c)
      BY <3>3, RunnerTypes DEF BeginClose, RunnerRecord, At
    <3>4. CASE Freeze(c)
      BY <3>1, <3>2, <3>4 DEF Freeze, At, Stop
    <3>5. CASE Crash(c) \/ BeginTick(c)
      BY <3>1, <3>2, <3>5 DEF Crash, BeginTick, At
    <3> QED
      BY <1>2, <3>3, <3>4, <3>5 DEF Around
  <2> QED
    BY <2>1, <2>2, <2>3 DEF PatienceInv, At
<1> QED
  BY <1>1, <1>2

LEMMA InsidePatience ==
  ASSUME TypeOK, FenceInv, PatienceInv, NEW c \in Runners, Inside(c)
  PROVE  PatienceInv'
<1> USE CapacityAssumption
<1>0. /\ Fenced(c) /\ runner[c].plan \in Plans /\ runner[c].pc # "idle"
      /\ \A q \in Plans \ {runner[c].plan} : plan'[q] = plan[q]
      /\ plan \in [Plans -> PlanRecord]
      /\ runner'[c].pc = "idle" \/ runner'[c].plan = runner[c].plan
      /\ \A d \in Runners \ {c} : runner'[d] = runner[d]
  BY InsideRunner, InsidePlan DEF Fenced, FencedPc, TryPc, TypeOK, PlanRecord, Idle
<1> SUFFICES ASSUME NEW p \in Plans, NEW d \in Runners, plan'[p].memory.epoch = d
             PROVE  /\ runner'[d].pc = "idle" \/ runner'[d].plan = p
                    /\ plan'[p].memory.low <= quiet'[d]
  BY DEF PatienceInv, At
<1>1. CASE AdvanceSamples(c)
  <2>1. CASE p = runner[c].plan
    BY <1>0, <1>1, <2>1, SamplePatience
  <2>2. CASE p # runner[c].plan
    <3>1. plan'[p] = plan[p]
      BY <1>0, <2>2
    <3>2. d # c
      BY <1>0, <2>2, <3>1 DEF PatienceInv, At
    <3> QED
      BY <1>0, <1>1, <3>1, <3>2, SamplePatience DEF PatienceInv, At
  <2> QED
    BY <2>1, <2>2
<1>2. CASE ~AdvanceSamples(c)
  <2>1. plan'[p].memory = plan[p].memory /\ UNCHANGED quiet
    BY <1>2, OtherMemory DEF NoMemory
  <2>2. CASE d = c
    BY <1>0, <2>1, <2>2 DEF PatienceInv, At
  <2>3. CASE d # c
    BY <1>0, <2>1, <2>3 DEF PatienceInv, At
  <2> QED
    BY <2>2, <2>3
<1> QED
  BY <1>1, <1>2

LEMMA PatienceStep ==
  ASSUME TypeOK, FenceInv, PatienceInv, Next
  PROVE  PatienceInv'
<1>1. CASE Outside
  <2>1. UNCHANGED <<plan, runner, quiet>>
    BY <1>1 DEF Outside, Cutover, Acknowledge, BeginRollback, Admit, Refuse, Dispatch, Finish,
       ContainerStarts, store
  <2> QED
    BY <2>1 DEF PatienceInv, At
<1> QED
  BY <1>1, StepCases, AroundPatience, InsidePatience

-----------------------------------------------------------------------------
(* Theorems *)

LEMMA InitInductive == Init => IInv
<1> USE CapacityAssumption DEF Init
<1> SUFFICES ASSUME Init PROVE IInv
  OBVIOUS
<1>0. /\ \A c \in Runners : runner[c].pc = "idle" /\ runner[c].plan = None
      /\ \A p \in Plans : plan[p] = Absent
      /\ Absent.known = FALSE /\ Absent.phase = "one" /\ Absent.memory.epoch = None
  BY DEF Idle, Absent, NoMemory
<1>1. TypeOK
  <2>1. plan \in [Plans -> PlanRecord] /\ runner \in [Runners -> RunnerRecord]
    BY RecordTypes
  <2>2. /\ route \in [gen : 1 .. MaxGen, control : {"pending", "stable", "rollback"}]
        /\ quiet \in [Runners -> 0 .. LowSamples]
    OBVIOUS
  <2>3. rows \in [Requests -> [at : Replica \cup ({Primary} \X (1 .. MaxGen)) \cup {None},
                               dispatched : BOOLEAN]]
    OBVIOUS
  <2>4. /\ authority \in Plans \cup {None} /\ slot \in Replica \cup {None}
        /\ published \subseteq Replica /\ ready \subseteq published /\ retired \subseteq Replica
        /\ backend \in [Replica -> {"none", "registered", "released"}]
        /\ launch \in [Replica -> {"none", "running", "completed"}]
        /\ box \in [Replica -> {"none", "requested", "up", "gone"}]
        /\ refused \in BOOLEAN
    OBVIOUS
  <2> QED
    BY <2>1, <2>2, <2>3, <2>4 DEF TypeOK, PlanRecord, RunnerRecord
<1>2. FenceInv
  BY <1>0 DEF FenceInv, Fenced, FencedPc, TryPc, At
<1>3. OwnerInv
  BY <1>0 DEF OwnerInv, OwnedPlan, SlotIsReachable, LiveInv, Live
<1>4. PositionInv
  BY <1>0 DEF PositionInv, Position, At
<1>5. ReadyInv /\ RowsInv /\ PatienceInv
  <2>1. ReadyInv
    BY DEF ReadyInv
  <2>2. RowsInv
    BY DEF RowsInv, Replica
  <2>3. ASSUME NEW p \in Plans, NEW c \in Runners
        PROVE  plan[p].memory.epoch # c
    BY <1>0
  <2>4. PatienceInv
    BY <2>3 DEF PatienceInv
  <2> QED
    BY <2>1, <2>2, <2>4
<1> QED
  BY <1>1, <1>2, <1>3, <1>4, <1>5 DEF IInv

LEMMA StepInductive == IInv /\ [Next]_vars => IInv'
<1> SUFFICES ASSUME IInv, [Next]_vars PROVE IInv'
  OBVIOUS
<1>1. CASE Next
  <2>1. TypeOK' /\ FenceInv'
    BY <1>1, TypeStep DEF IInv
  <2> QED
    BY <1>1, <2>1, OwnerStep, PositionStep, ReadyStep, RowsStep, PatienceStep DEF IInv
<1>2. CASE UNCHANGED vars
  <2>1. UNCHANGED <<route, authority, plan, slot, published, ready, backend, retired, launch,
                    box, rows, refused, runner, quiet>>
    BY <1>2 DEF vars, store, pool, endpoints, runtime, traffic
  <2>2. TypeOK' /\ FenceInv'
    BY <2>1 DEF IInv, TypeOK, FenceInv, Fenced, At
  <2>3. OwnerInv'
    BY <2>1 DEF IInv, OwnerInv, OwnedPlan, SlotIsReachable, LiveInv, Live
  <2>4. PositionInv'
    BY <2>1 DEF IInv, PositionInv, Position, At, Current, Live
  <2>5. ReadyInv' /\ RowsInv' /\ PatienceInv'
    BY <2>1 DEF IInv, ReadyInv, RowsInv, PatienceInv, Serves, At
  <2> QED
    BY <2>2, <2>3, <2>4, <2>5 DEF IInv
<1> QED
  BY <1>1, <1>2

\* The inductive invariant: however the transactions of runners interleave,
\* wherever they die and whenever the daemon obeys, a runner inside the fence
\* finds the plan, the slot and the replica as its last transaction left them.
THEOREM CapacityInductive == Spec => []IInv
BY InitInductive, StepInductive, PTL DEF Spec

\* The tables, the journal and the runners keep their types: a sample budget is
\* never exceeded and a slot never names a replica the plan does not have.
THEOREM CapacityTypeCorrect == Spec => []TypeOK
<1>1. IInv => TypeOK
  BY DEF IInv
<1> QED
  BY <1>1, CapacityInductive, PTL

\* Whatever was journaled as launching and is not proved gone is the replica in
\* the slot, and its plan has the authority to clean it up: launch_runtime_stage
\* never runs for a second replica of a deployment, not even after a crash.
THEOREM SlotCorrect == Spec => []SlotOwnsRuntime
<1>1. IInv => SlotOwnsRuntime
  <2> SUFFICES ASSUME IInv, NEW r \in Replica, Live(r)
               PROVE  slot = r /\ authority = r[1]
    BY DEF SlotOwnsRuntime
  <2>1. slot = r
    BY DEF IInv, OwnerInv, LiveInv
  <2>2. slot # None
    BY <2>1, CapacityAssumption DEF Replica
  <2> QED
    BY <2>1, <2>2 DEF IInv, OwnerInv, SlotIsReachable
<1> QED
  BY <1>1, CapacityInductive, PTL

\* The slot of a deployment always belongs to the plan with the authority, at the
\* cycle that _cleanup settles, and never to a plan at rest: it can be given back.
THEOREM ReachableCorrect == Spec => []SlotIsReachable
<1>1. IInv => SlotIsReachable
  BY DEF IInv, OwnerInv
<1> QED
  BY <1>1, CapacityInductive, PTL

\* What select_admission may choose beside the primary runs, is not retired and is
\* not being withdrawn.
THEOREM PooledCorrect == Spec => []PooledRuns
<1>1. IInv => PooledRuns
  BY DEF IInv, ReadyInv, Serves, PooledRuns, Members
<1> QED
  BY <1>1, CapacityInductive, PTL

\* A request that select_admission gave to a replica keeps it running until
\* finish_admission deletes its row: retire_drained never lets stop_runtime_stage
\* pass it.
THEOREM RowsCorrect == Spec => []RowsKeepRuntime
<1>1. IInv => RowsKeepRuntime
  BY DEF IInv, RowsInv, Serves, RowsKeepRuntime
<1> QED
  BY <1>1, CapacityInductive, PTL

\* decide_capacity withdraws a member only after the same runner has found it idle
\* in low_samples samples in a row, none of them from another process.
THEOREM PatienceCorrect == Spec => PatientRemoval
<1> DEFINE Patient == \A c \in Runners, p \in Plans :
       /\ At(c, "advance") /\ runner[c].plan = p
       /\ plan[p].phase = "two" /\ plan'[p].phase = "draining"
       /\ plan'[p].samples > plan[p].samples
       => quiet'[c] >= LowSamples
<1>1. IInv /\ [Next]_vars => Patient
  <2> SUFFICES ASSUME IInv, [Next]_vars, NEW c \in Runners,
                      At(c, "advance"), runner[c].plan \in Plans,
                      plan[runner[c].plan].phase = "two",
                      plan'[runner[c].plan].phase = "draining",
                      plan'[runner[c].plan].samples > plan[runner[c].plan].samples
               PROVE  quiet'[c] >= LowSamples
    OBVIOUS
  <2> DEFINE p == runner[c].plan
  <2>0. /\ TypeOK /\ FenceInv /\ PatienceInv /\ Fenced(c) /\ plan[p].samples \in 0 .. MaxSamples
        /\ plan'[p].phase # plan[p].phase
    BY DEF IInv, Fenced, At, FencedPc, TypeOK
  <2>1. Next
    BY <2>0 DEF vars, store
  <2>2. PICK d \in Runners : Inside(d)
    <3>1. ~Outside
      BY <2>0, OutsideTypes
    <3>2. \A d \in Runners : ~Around(d)
      BY <2>0, AroundEffect
    <3> QED
      BY <2>1, <3>1, <3>2, StepCases
  <2>3. d = c
    <3>1. Fenced(d) /\ runner[d].plan = p
      BY <2>0, <2>2, InsideRunner, InsidePlan
    <3> QED
      BY <2>0, <3>1 DEF FenceInv
  <2>4. AdvanceSamples(c)
    <3>1. Retire(c) \/ AdvanceIdle(c) \/ AdvanceEnds(c) \/ AdvanceSamples(c)
      BY <2>2, <2>3 DEF Inside, LaunchStep, CleanupStep, Reread, EndCleanup, Interrupt, Block,
         Register, StartLaunch, Request, ReceiveReceipt, Publish, RetireDrained, RetireUnserved,
         RuntimeGone, Release, Settle, At, TryPc
    <3>2. ~Retire(c) /\ ~AdvanceIdle(c)
      BY <2>0 DEF Retire, AdvanceIdle, At, store
    <3>3. ~AdvanceEnds(c)
      <4>1. ASSUME AdvanceEnds(c) PROVE plan'[p].samples = plan[p].samples
        BY <4>1 DEF AdvanceEnds, TypeOK, IInv
      <4> QED
        BY <2>0, <4>1
    <3> QED
      BY <3>1, <3>2, <3>3
  <2> QED
    BY <2>0, <2>4, SamplePatience
<1>2. IInv /\ [Next]_vars => [Patient]_vars
  BY <1>1
<1> QED
  BY <1>2, CapacityInductive, PTL DEF Spec, PatientRemoval

-----------------------------------------------------------------------------
(* Implementation of Retirement *)

\* Whoever is about to stop or abort a replica has retired it before.
RetiredInv ==
  \A c \in Runners : runner[c].pc \in {"stop", "abort"} => Current(c) \in retired

LEMMA StopsRetired ==
  ASSUME TypeOK, FenceInv, NEW c \in Runners, Inside(c),
         runner'[c].pc \in {"stop", "abort"}
  PROVE  Current(c)' \in retired'
<1>0. runner[c].plan \in Plans /\ plan[runner[c].plan].phase \in Phases
  BY InsideRunner DEF TypeOK
<1>1. ~EndTick(c) /\ ~Stop(c)
  BY EndTickEffect, StopEffect DEF Idle
<1>2. \A phase \in Phases : ~Continue(c, phase)
  BY <1>0, ContinueEffect DEF Idle
<1>3. \A pc \in FencedPc \cup {"ready"} :
        Goto(c, pc) => pc = runner'[c].pc /\ Current(c)' = Current(c)
  BY GotoEffect DEF Current
<1>4. ~(Retire(c) \/ AdvanceIdle(c) \/ AdvanceEnds(c) \/ AdvanceSamples(c))
  <2>1. ~AdvanceSamples(c) /\ ~AdvanceEnds(c)
    BY <1>0, <1>2 DEF AdvanceSamples, AdvanceEnds, Phases
  <2>2. ~AdvanceIdle(c)
    BY <1>0, <1>1, <1>2 DEF AdvanceIdle
  <2>3. ~Retire(c)
    BY <1>1, <1>3 DEF Retire, FencedPc
  <2> QED BY <2>1, <2>2, <2>3
<1>5. ~(Reread(c) \/ EndCleanup(c) \/ Interrupt(c) \/ Block(c))
  <2>1. ~Reread(c)
    BY <1>1, RunnerTypes DEF Reread, RunnerRecord
  <2> QED BY <1>1, <1>3, <2>1 DEF EndCleanup, Interrupt, Block, FencedPc
<1>6. ~LaunchStep(c)
  BY <1>3 DEF LaunchStep, Register, StartLaunch, Request, ReceiveReceipt, Publish, At,
     FencedPc, TryPc
<1>7. RetireDrained(c) \/ RetireUnserved(c)
  <2>1. ~RuntimeGone(c) /\ ~Release(c) /\ ~Settle(c)
    BY <1>3 DEF RuntimeGone, Release, Settle, FencedPc, TryPc
  <2> QED BY <1>4, <1>5, <1>6, <2>1 DEF Inside, CleanupStep
<1>8. CASE RetireDrained(c)
  BY <1>1, <1>3, <1>8 DEF RetireDrained, FencedPc, TryPc
<1>9. CASE RetireUnserved(c)
  BY <1>3, <1>9 DEF RetireUnserved, FencedPc, TryPc
<1> QED BY <1>7, <1>8, <1>9

LEMMA RetiredStep ==
  ASSUME IInv, RetiredInv, [Next]_vars
  PROVE  RetiredInv'
<1>1. retired \subseteq retired'
  <2>1. CASE Outside
    BY <2>1 DEF Outside, Cutover, Acknowledge, BeginRollback, Admit, Refuse, Dispatch,
       Finish, ContainerStarts, runtime, endpoints
  <2>2. ASSUME NEW c \in Runners, Around(c) PROVE retired \subseteq retired'
    BY <2>2 DEF Around, Start, Freeze, Crash, BeginTick, BeginClose, endpoints
  <2>3. ASSUME NEW c \in Runners, Inside(c) PROVE retired \subseteq retired'
    <3>1. LaunchStep(c) => retired \subseteq retired'
      BY DEF LaunchStep, Register, StartLaunch, Request, ReceiveReceipt, Publish, endpoints
    <3>2. CleanupStep(c) => retired \subseteq retired'
      BY DEF CleanupStep, RetireDrained, RetireUnserved, RuntimeGone, Release, Settle,
         endpoints
    <3>3. Inside(c) /\ ~LaunchStep(c) /\ ~CleanupStep(c) => retired \subseteq retired'
      BY DEF Inside, Retire, AdvanceIdle, AdvanceEnds, AdvanceSamples, Reread, EndCleanup,
         Interrupt, Block, endpoints
    <3> QED BY <2>3, <3>1, <3>2, <3>3
  <2>4. CASE UNCHANGED vars
    BY <2>4 DEF vars, endpoints
  <2> QED BY <2>1, <2>2, <2>3, <2>4, StepCases
<1> SUFFICES ASSUME NEW d \in Runners, runner'[d].pc \in {"stop", "abort"}
             PROVE  Current(d)' \in retired'
  BY DEF RetiredInv
<1>2. CASE runner'[d] = runner[d]
  BY <1>1, <1>2 DEF RetiredInv, Current
<1>3. CASE runner'[d] # runner[d]
  <2>1. Next
    BY <1>3 DEF vars
  <2>2. ~Outside
    BY <1>3 DEF Outside, Cutover, Acknowledge, BeginRollback, Admit, Refuse, Dispatch,
       Finish, ContainerStarts
  <2>3. PICK c \in Runners : Around(c) \/ Inside(c)
    BY <2>1, <2>2, StepCases
  <2>4. TypeOK /\ FenceInv
    BY DEF IInv
  <2>5. d = c
    BY <1>3, <2>3, <2>4, AroundEffect, InsideRunner
  <2>6. ~Around(c)
    BY <2>4, <2>5, AroundEffect DEF Idle
  <2> QED BY <2>3, <2>4, <2>5, <2>6, StopsRetired
<1> QED BY <1>2, <1>3

Life == [r \in Replica |-> CASE box[r] = "up" -> "running"
                             [] box[r] = "gone" -> "stopped"
                             [] OTHER -> "off"]
Loan == [q \in Requests |-> IF rows[q].at \in Replica THEN rows[q].at ELSE None]
Lent == {q \in Requests : rows[q].at \in Replica}
loans == <<Life, retired, Loan, Lent>>

\* A step that loses no row, stops nothing and retires nothing is not seen.
LEMMA LoansStay ==
  ASSUME UNCHANGED <<box, rows, retired>>
  PROVE  UNCHANGED loans
BY DEF loans, Life, Loan, Lent

\* Whether the box of a replica changes to up or to gone shows in its life alone.
LEMMA LifeMoves ==
  ASSUME TypeOK, NEW r \in Replica, NEW b \in {"none", "requested", "up", "gone"},
         box' = [box EXCEPT ![r] = b]
  PROVE  Life' = [Life EXCEPT ![r] = IF b = "up" THEN "running"
                                     ELSE IF b = "gone" THEN "stopped" ELSE "off"]
<1>1. box \in [Replica -> {"none", "requested", "up", "gone"}]
  BY DEF TypeOK
<1> QED BY <1>1 DEF Life

\* The steps of Retirement that the pool and the runners take.
LEMMA LendingSteps ==
  /\ \A r \in Replica : Lending!Start(r) \/ Lending!Retire(r) \/ Lending!Stop(r)
                        => Lending!Next
  /\ \A q \in Requests : Lending!Return(q) => Lending!Next
  /\ \A q \in Requests, r \in Replica : Lending!Borrow(q, r) => Lending!Next
BY DEF Lending!Next

\* The gateway lends and takes back, the daemon starts.
LEMMA OutsideLoans ==
  ASSUME IInv, Outside
  PROVE  [Lending!Next]_loans
<1>0. /\ None \notin Replica /\ Primary \notin Plans
      /\ rows \in [Requests -> [at : Replica \cup ({Primary} \X (1 .. MaxGen)) \cup {None},
                                dispatched : BOOLEAN]]
      /\ TypeOK
  BY CapacityAssumption DEF IInv, TypeOK, Replica
<1>1. ASSUME NEW q \in Requests, Admit(q) PROVE [Lending!Next]_loans
  <2>1. PICK m \in Candidates : rows' = [rows EXCEPT ![q] = [at |-> m, dispatched |-> FALSE]]
    BY <1>1 DEF Admit, Open
  <2>2. rows[q].at = None /\ UNCHANGED <<box, retired>> /\ Candidates \cap retired = {}
    BY <1>1 DEF Admit, runtime, endpoints
  <2>3. /\ \A p \in Requests \ {q} : rows'[p] = rows[p]
        /\ rows'[q].at = m
    BY <1>0, <2>1
  <2>4. CASE m \in Replica
    <3>1. m \in ready
      BY <1>0, <2>1, <2>4 DEF Candidates, Members, Replica
    <3>2. Life[m] = "running" /\ m \notin retired
      BY <2>4, <3>1 DEF IInv, ReadyInv, Serves, Life
    <3>3. Loan[q] = None /\ Loan' = [Loan EXCEPT ![q] = m] /\ Lent' = Lent \cup {q}
      <4>1. Loan[q] = None
        BY <1>0, <2>2 DEF Loan
      <4>2. Loan' = [Loan EXCEPT ![q] = m]
        BY <1>0, <2>3, <2>4 DEF Loan
      <4>3. Lent' = Lent \cup {q}
        BY <1>0, <2>3, <2>4 DEF Lent
      <4> QED BY <4>1, <4>2, <4>3
    <3>4. Life' = Life
      BY <2>2 DEF Life
    <3>5. Lending!Borrow(q, m)
      BY <2>2, <3>2, <3>3, <3>4 DEF Lending!Borrow, Life, Loan, Lent
    <3> QED BY <2>4, <3>5, LendingSteps
  <2>5. CASE m \notin Replica
    <3>1. Loan' = Loan /\ Lent' = Lent
      BY <1>0, <2>2, <2>3, <2>5 DEF Loan, Lent
    <3> QED BY <2>2, <3>1 DEF loans, Life
  <2> QED BY <2>4, <2>5
<1>2. ASSUME NEW q \in Requests, Finish(q) PROVE Lending!Return(q)
  <2>1. /\ \A p \in Requests \ {q} : rows'[p] = rows[p]
        /\ rows'[q].at = None
    BY <1>0, <1>2 DEF Finish
  <2>2. Loan' = [Loan EXCEPT ![q] = None] /\ Lent' = Lent \ {q}
    BY <1>0, <2>1 DEF Loan, Lent
  <2>3. Life' = Life /\ retired' = retired
    BY <1>2 DEF Finish, Life, runtime, endpoints
  <2> QED BY <2>2, <2>3 DEF Lending!Return, Life, Loan, Lent
<1>3. ASSUME NEW q \in Requests, Dispatch(q) PROVE UNCHANGED loans
  <2>1. \A p \in Requests : rows'[p].at = rows[p].at
    BY <1>0, <1>3 DEF Dispatch
  <2>2. Loan' = Loan /\ Lent' = Lent
    BY <2>1 DEF Loan, Lent
  <2> QED BY <1>3, <2>2 DEF Dispatch, loans, Life, runtime, endpoints
<1>4. ASSUME NEW r \in Replica, ContainerStarts(r) PROVE Lending!Start(r)
  <2>1. Life' = [Life EXCEPT ![r] = "running"]
    BY <1>0, <1>4, LifeMoves DEF ContainerStarts
  <2>2. Life[r] = "off" /\ UNCHANGED <<retired, Loan, Lent>>
    BY <1>4 DEF ContainerStarts, Life, Loan, Lent, endpoints, traffic
  <2> QED BY <2>1, <2>2 DEF Lending!Start, Life, Loan, Lent
<1>5. ASSUME \/ Cutover \/ Acknowledge \/ BeginRollback
             \/ \E q \in Requests : Refuse(q)
      PROVE  UNCHANGED loans
  BY <1>5, LoansStay DEF Cutover, Acknowledge, BeginRollback, Refuse, runtime, endpoints,
     traffic
<1> QED BY <1>1, <1>2, <1>3, <1>4, <1>5, LendingSteps DEF Outside

\* A runner retires a replica, and stops it when nobody can have it.
LEMMA InsideLoans ==
  ASSUME IInv, RetiredInv, NEW c \in Runners, Inside(c)
  PROVE  [Lending!Next]_loans
<1>m. PICK r : r = Current(c)
  OBVIOUS
<1>0. /\ TypeOK /\ FenceInv /\ Position(c) /\ rows' = rows
      /\ Fenced(c)
  BY InsideRunner, InsideRuntime DEF IInv, PositionInv
<1>1. UNCHANGED <<Loan, Lent>>
  BY <1>0 DEF Loan, Lent
<1>2. CASE RuntimeGone(c)
  <2>1. r \in Replica /\ r \in retired
    BY <1>0, <1>2, <1>m DEF RuntimeGone, At, Position, RetiredInv
  <2>2. \A q \in Requests : rows[q].at # r
    BY <1>0, <1>2, <1>m, <2>1 DEF RuntimeGone, At, Position, IInv, RowsInv, Serves
  <2>3. \A q \in Requests : Loan[q] # r
    BY <2>1, <2>2, CapacityAssumption DEF Loan, Replica
  <2>4. Life' = [Life EXCEPT ![r] = "stopped"] /\ retired' = retired
    BY <1>0, <1>2, <1>m, <2>1, LifeMoves DEF RuntimeGone, endpoints
  <2>5. Lending!Stop(r)
    BY <1>1, <2>1, <2>3, <2>4 DEF Lending!Stop, Life, Loan, Lent
  <2> QED BY <2>1, <2>5, LendingSteps
<1>3. CASE RetireDrained(c) \/ RetireUnserved(c)
  <2>1. r \in Replica
    BY <1>0, <1>3, <1>m, CurrentReplica DEF RetireDrained, RetireUnserved
  <2>2. retired' = retired \/ retired' = retired \cup {r}
    BY <1>3, <1>m DEF RetireDrained, RetireUnserved
  <2>3. Life' = Life
    BY <1>3, <1>m DEF RetireDrained, RetireUnserved, runtime, Life
  <2>4. CASE retired' = retired
    BY <1>1, <2>3, <2>4 DEF loans
  <2>5. CASE retired' = retired \cup {r}
    <3>1. Lending!Retire(r)
      BY <1>1, <2>3, <2>5 DEF Lending!Retire, Life, Loan, Lent
    <3> QED BY <2>1, <3>1, LendingSteps
  <2> QED BY <2>2, <2>4, <2>5
<1>4. CASE Request(c)
  <2>1. r \in Replica
    BY <1>4, <1>m, LaunchSlot DEF Request, At, IInv
  <2>2. Life' = [Life EXCEPT ![r] = "off"]
    BY <1>0, <1>4, <1>m, <2>1, LifeMoves DEF Request
  <2>3. Life[r] = "off"
    BY <1>4, <1>m, <2>1 DEF Request, Life
  <2>4. Life' = Life
    BY <2>2, <2>3 DEF Life
  <2> QED BY <1>1, <1>4, <2>4 DEF Request, loans, endpoints
<1>5. CASE UNCHANGED <<box, retired>>
  BY <1>0, <1>5, LoansStay
<1> QED
  BY <1>2, <1>3, <1>4, <1>5 DEF Inside, LaunchStep, CleanupStep, Retire, AdvanceIdle,
     AdvanceEnds, AdvanceSamples, Reread, EndCleanup, Interrupt, Block, Register,
     StartLaunch, ReceiveReceipt, Publish, Release, Settle, runtime, endpoints

\* Pool, gateway and runners implement Retirement for the replicas, for any plans,
\* runners, routes and requests: a replica is lent to nobody after retire_drained
\* or retire_unserved, and it is stopped or aborted only when no admission row
\* names it, wherever runners die and however late the daemon obeys.
THEOREM LoansCorrect == Spec => KeepsLoans
<1>1. Init => RetiredInv /\ Lending!Init
  <2> SUFFICES ASSUME Init PROVE RetiredInv /\ Lending!Init
    OBVIOUS
  <2>1. RetiredInv
    BY DEF Init, RetiredInv, Idle
  <2>2. None \notin Replica
    BY CapacityAssumption DEF Replica
  <2> QED BY <2>1, <2>2 DEF Init, Lending!Init
<1>2. IInv /\ RetiredInv /\ [Next]_vars => [Lending!Next]_loans
  <2> SUFFICES ASSUME IInv, RetiredInv, [Next]_vars PROVE [Lending!Next]_loans
    OBVIOUS
  <2>1. ASSUME NEW c \in Runners, Around(c) PROVE UNCHANGED loans
    BY <2>1, LoansStay DEF Around, Start, Freeze, Crash, BeginTick, BeginClose, runtime,
       endpoints, traffic
  <2>2. CASE UNCHANGED vars
    BY <2>2, LoansStay DEF vars, runtime, endpoints, traffic
  <2> QED BY <2>1, <2>2, StepCases, OutsideLoans, InsideLoans
<1>3. IInv /\ RetiredInv /\ [Next]_vars => RetiredInv'
  BY RetiredStep
<1> QED BY <1>1, <1>2, <1>3, CapacityInductive, PTL
        DEF Spec, KeepsLoans, Lending!Spec, loans, Life, Loan, Lent

-----------------------------------------------------------------------------
(* Use of Lifetime *)

\* Nobody waits for the launch of a replica that is retired.
LaunchingInv ==
  \A c \in Runners : runner[c].pc = "launching" => Current(c) \notin retired

LEMMA RetiresItsOwn ==
  ASSUME NEW c \in Runners, Inside(c)
  PROVE  retired' \subseteq retired \cup {Current(c)}
<1>1. LaunchStep(c) => retired' = retired
  BY DEF LaunchStep, Register, StartLaunch, Request, ReceiveReceipt, Publish, endpoints
<1>2. CleanupStep(c) => retired' \subseteq retired \cup {Current(c)}
  BY DEF CleanupStep, RetireDrained, RetireUnserved, RuntimeGone, Release, Settle, endpoints
<1>3. Inside(c) /\ ~LaunchStep(c) /\ ~CleanupStep(c) => retired' = retired
  BY DEF Inside, Retire, AdvanceIdle, AdvanceEnds, AdvanceSamples, Reread, EndCleanup,
     Interrupt, Block, endpoints
<1> QED BY <1>1, <1>2, <1>3

\* A runner comes to wait for a launch by registering the replica.
LEMMA LaunchesUnretired ==
  ASSUME TypeOK, FenceInv, LaunchingInv, NEW c \in Runners, Inside(c),
         runner'[c].pc = "launching"
  PROVE  Current(c)' \notin retired'
<1>0. runner[c].plan \in Plans /\ plan[runner[c].plan].phase \in Phases
  BY InsideRunner DEF TypeOK
<1>1. ~EndTick(c) /\ ~Stop(c)
  BY EndTickEffect, StopEffect DEF Idle
<1>2. \A phase \in Phases : ~Continue(c, phase)
  BY <1>0, ContinueEffect DEF Idle
<1>3. \A pc \in FencedPc \cup {"ready"} :
        Goto(c, pc) => pc = "launching" /\ Current(c)' = Current(c)
  BY GotoEffect DEF Current
<1>4. ~(Retire(c) \/ AdvanceIdle(c) \/ AdvanceEnds(c) \/ AdvanceSamples(c))
  <2>1. ~AdvanceSamples(c) /\ ~AdvanceEnds(c)
    BY <1>0, <1>2 DEF AdvanceSamples, AdvanceEnds, Phases
  <2>2. ~AdvanceIdle(c)
    BY <1>0, <1>1, <1>2 DEF AdvanceIdle
  <2>3. ~Retire(c)
    BY <1>1, <1>3 DEF Retire, FencedPc
  <2> QED BY <2>1, <2>2, <2>3
<1>5. ~(Reread(c) \/ EndCleanup(c) \/ Interrupt(c) \/ Block(c))
  <2>1. ~Reread(c)
    BY <1>1, RunnerTypes DEF Reread, RunnerRecord
  <2> QED BY <1>1, <1>3, <2>1 DEF EndCleanup, Interrupt, Block, FencedPc
<1>6. ~CleanupStep(c)
  <2>1. ~RuntimeGone(c) /\ ~Release(c) /\ ~Settle(c)
    BY <1>3 DEF RuntimeGone, Release, Settle, FencedPc, TryPc
  <2>2. ~RetireDrained(c)
    BY <1>1, <1>3 DEF RetireDrained, FencedPc, TryPc
  <2>3. ~RetireUnserved(c)
    BY <1>3 DEF RetireUnserved, FencedPc, TryPc
  <2> QED BY <2>1, <2>2, <2>3 DEF CleanupStep
<1>7. CASE Register(c)
  BY <1>3, <1>7 DEF Register, FencedPc, TryPc
<1>8. CASE StartLaunch(c) \/ Request(c)
  BY <1>8 DEF StartLaunch, Request, LaunchingInv, Current, endpoints, At
<1>9. ~ReceiveReceipt(c) /\ ~Publish(c)
  BY <1>3 DEF ReceiveReceipt, Publish, FencedPc, TryPc
<1> QED
  BY <1>4, <1>5, <1>6, <1>7, <1>8, <1>9 DEF Inside, LaunchStep

LEMMA LaunchingStep ==
  ASSUME IInv, LaunchingInv, [Next]_vars
  PROVE  LaunchingInv'
<1> SUFFICES ASSUME NEW d \in Runners, runner'[d].pc = "launching"
             PROVE  Current(d)' \notin retired'
  BY DEF LaunchingInv
<1>0. TypeOK /\ FenceInv
  BY DEF IInv
<1>1. CASE UNCHANGED <<runner, retired>>
  BY <1>1 DEF LaunchingInv, Current
<1>2. CASE Outside
  BY <1>1, <1>2 DEF Outside, Cutover, Acknowledge, BeginRollback, Admit, Refuse, Dispatch,
     Finish, ContainerStarts, endpoints
<1>3. ASSUME NEW c \in Runners, Around(c) PROVE Current(d)' \notin retired'
  <2>1. retired' = retired
    BY <1>3 DEF Around, Start, Freeze, Crash, BeginTick, BeginClose, endpoints
  <2>2. runner'[d] = runner[d]
    BY <1>0, <1>3, AroundEffect DEF Idle
  <2> QED BY <2>1, <2>2 DEF LaunchingInv, Current
<1>4. ASSUME NEW c \in Runners, Inside(c) PROVE Current(d)' \notin retired'
  <2>1. CASE d = c
    BY <1>0, <1>4, <2>1, LaunchesUnretired
  <2>2. CASE d # c
    <3>1. runner'[d] = runner[d] /\ Fenced(c)
      BY <1>0, <1>4, <2>2, InsideRunner
    <3>2. Fenced(d)
      BY <3>1 DEF Fenced, FencedPc, TryPc
    <3>3. Current(c) # Current(d)
      BY <1>0, <2>2, <3>1, <3>2 DEF FenceInv, Current
    <3>4. Current(d)' = Current(d) /\ Current(d) \notin retired
      BY <3>1 DEF LaunchingInv, Current
    <3> QED BY <1>4, <3>3, <3>4, RetiresItsOwn
  <2> QED BY <2>1, <2>2
<1> QED BY <1>1, <1>2, <1>3, <1>4, StepCases DEF vars, endpoints

Presence == [r \in Replica |-> CASE box[r] = "up" -> "there"
                                 [] box[r] = "gone" -> "gone"
                                 [] OTHER -> "off"]
Launched == {r \in Replica : launch[r] = "completed"}
Ended == {r \in Replica : box[r] = "gone"}
contract == <<Presence, retired, Launched, Ended>>

LEMMA ContractStays ==
  ASSUME UNCHANGED <<box, launch, retired>>
  PROVE  UNCHANGED contract
BY DEF contract, Presence, Launched, Ended

LEMMA PresenceMoves ==
  ASSUME TypeOK, NEW r \in Replica, NEW b \in {"none", "requested", "up", "gone"},
         box' = [box EXCEPT ![r] = b]
  PROVE  /\ Presence' = [Presence EXCEPT ![r] = IF b = "up" THEN "there"
                                                ELSE IF b = "gone" THEN "gone" ELSE "off"]
         /\ b = "gone" => Ended' = Ended \cup {r}
         /\ b # "gone" /\ box[r] # "gone" => Ended' = Ended
<1>1. box \in [Replica -> {"none", "requested", "up", "gone"}]
  BY DEF TypeOK
<1>2. \A s \in Replica : box'[s] = IF s = r THEN b ELSE box[s]
  BY <1>1
<1> QED BY <1>1, <1>2 DEF Presence, Ended

LEMMA LaunchMoves ==
  ASSUME TypeOK, NEW r \in Replica, NEW status \in {"none", "running", "completed"},
         launch' = [launch EXCEPT ![r] = status]
  PROVE  /\ status = "completed" => Launched' = Launched \cup {r}
         /\ status # "completed" /\ launch[r] # "completed" => Launched' = Launched
<1>1. launch \in [Replica -> {"none", "running", "completed"}]
  BY DEF TypeOK
<1>2. \A s \in Replica : launch'[s] = IF s = r THEN status ELSE launch[s]
  BY <1>1
<1> QED BY <1>2 DEF Launched

LEMMA ContractSteps ==
  \A r \in Replica : \/ Contract!Come(r) \/ Contract!ReportLaunched(r)
                     \/ Contract!Decide(r) \/ Contract!Go(r)
                     => Contract!Next
BY DEF Contract!Next

\* The replica of the plan of a runner, through its launch and its end.
LEMMA InsideContract ==
  ASSUME IInv, RetiredInv, LaunchingInv, NEW c \in Runners, Inside(c)
  PROVE  [Contract!Next]_contract
<1>0. TypeOK /\ FenceInv /\ Position(c) /\ Fenced(c)
  BY InsideRunner DEF IInv, PositionInv
<1>1. PICK r : r = Current(c)
  OBVIOUS
<1>2. CASE RuntimeGone(c)
  <2>1. r \in Replica /\ r \in retired
    BY <1>0, <1>1, <1>2 DEF RuntimeGone, At, Position, RetiredInv
  <2>2. Presence' = [Presence EXCEPT ![r] = "gone"] /\ Ended' = Ended \cup {r}
    BY <1>0, <1>1, <1>2, <2>1, PresenceMoves DEF RuntimeGone
  <2>3. retired' = retired /\ Launched' = Launched
    BY <1>2 DEF RuntimeGone, endpoints, Launched
  <2>4. Contract!Go(r)
    BY <2>1, <2>2, <2>3 DEF Contract!Go, Presence, Launched, Ended
  <2> QED BY <2>1, <2>4, ContractSteps
<1>3. CASE RetireDrained(c) \/ RetireUnserved(c)
  <2>1. r \in Replica
    BY <1>0, <1>1, <1>3, CurrentReplica DEF RetireDrained, RetireUnserved
  <2>2. retired' = retired \/ retired' = retired \cup {r}
    BY <1>1, <1>3 DEF RetireDrained, RetireUnserved
  <2>3. UNCHANGED <<Presence, Launched, Ended>>
    BY <1>3 DEF RetireDrained, RetireUnserved, runtime, Presence, Launched, Ended
  <2>4. CASE retired' = retired
    BY <2>3, <2>4 DEF contract
  <2>5. CASE retired' = retired \cup {r}
    <3>1. Contract!Decide(r)
      BY <2>3, <2>5 DEF Contract!Decide, Presence, Launched, Ended
    <3> QED BY <2>1, <3>1, ContractSteps
  <2> QED BY <2>2, <2>4, <2>5
<1>4. CASE Request(c)
  <2>1. r \in Replica
    BY <1>1, <1>4, LaunchSlot DEF Request, At, IInv
  <2>2. Presence' = [Presence EXCEPT ![r] = "off"] /\ Ended' = Ended
    BY <1>0, <1>1, <1>4, <2>1, PresenceMoves DEF Request
  <2>3. Presence[r] = "off"
    BY <1>1, <1>4, <2>1 DEF Request, Presence
  <2>4. Presence' = Presence
    BY <2>2, <2>3 DEF Presence
  <2> QED BY <1>4, <2>2, <2>4 DEF Request, contract, Launched, endpoints
<1>5. CASE StartLaunch(c)
  <2>1. r \in Replica
    BY <1>1, <1>5, LaunchSlot DEF StartLaunch, At, IInv
  <2>2. Launched' = Launched
    BY <1>0, <1>1, <1>5, <2>1, LaunchMoves DEF StartLaunch
  <2> QED BY <1>5, <2>2 DEF StartLaunch, contract, Presence, Ended, endpoints
<1>6. CASE ReceiveReceipt(c)
  <2>1. r \in Replica /\ r \notin retired
    BY <1>1, <1>6, LaunchSlot DEF ReceiveReceipt, At, IInv, LaunchingInv
  <2>2. Launched' = Launched \cup {r}
    BY <1>0, <1>1, <1>6, <2>1, LaunchMoves DEF ReceiveReceipt
  <2>3. Presence[r] = "there"
    BY <1>1, <1>6, <2>1 DEF ReceiveReceipt, Presence
  <2>4. UNCHANGED <<Presence, retired, Ended>>
    BY <1>6 DEF ReceiveReceipt, Presence, Ended, endpoints
  <2>5. Contract!ReportLaunched(r)
    BY <2>1, <2>2, <2>3, <2>4 DEF Contract!ReportLaunched, Presence, Launched, Ended
  <2> QED BY <2>1, <2>5, ContractSteps
<1>7. CASE UNCHANGED <<box, launch, retired>>
  BY <1>7, ContractStays
<1> QED
  BY <1>2, <1>3, <1>4, <1>5, <1>6, <1>7 DEF Inside, LaunchStep, CleanupStep, Retire,
     AdvanceIdle, AdvanceEnds, AdvanceSamples, Reread, EndCleanup, Interrupt, Block,
     Register, Publish, Release, Settle, runtime, endpoints

\* The runners use the runtimes as Lifetime, which launch, abort and stop implement
\* (ManagedRuntimeProofs), promises and demands: a receipt of a launch is taken
\* only for a replica nobody has retired, and a replica is stopped or aborted only
\* after its retirement is durable.
THEOREM ContractCorrect == Spec => UsesContract
<1>1. Init => RetiredInv /\ LaunchingInv /\ Contract!Init
  <2> SUFFICES ASSUME Init PROVE RetiredInv /\ LaunchingInv /\ Contract!Init
    OBVIOUS
  <2>1. RetiredInv /\ LaunchingInv
    BY DEF Init, RetiredInv, LaunchingInv, Idle
  <2> QED BY <2>1 DEF Init, Contract!Init
<1>2. IInv /\ RetiredInv /\ LaunchingInv /\ [Next]_vars => [Contract!Next]_contract
  <2> SUFFICES ASSUME IInv, RetiredInv, LaunchingInv, [Next]_vars
               PROVE  [Contract!Next]_contract
    OBVIOUS
  <2>1. ASSUME NEW c \in Runners, Around(c) PROVE UNCHANGED contract
    BY <2>1, ContractStays DEF Around, Start, Freeze, Crash, BeginTick, BeginClose, runtime,
       endpoints
  <2>2. ASSUME NEW r \in Replica, ContainerStarts(r) PROVE Contract!Come(r)
    <3>1. Presence' = [Presence EXCEPT ![r] = "there"] /\ Ended' = Ended
      BY <2>2, PresenceMoves DEF ContainerStarts, IInv
    <3>2. Presence[r] = "off" /\ UNCHANGED <<retired, Launched>>
      BY <2>2 DEF ContainerStarts, Presence, Launched, endpoints
    <3> QED BY <3>1, <3>2 DEF Contract!Come, Presence, Launched, Ended
  <2>3. CASE \/ Cutover \/ Acknowledge \/ BeginRollback
             \/ \E q \in Requests : Admit(q) \/ Refuse(q) \/ Dispatch(q) \/ Finish(q)
    BY <2>3, ContractStays DEF Cutover, Acknowledge, BeginRollback, Admit, Refuse, Dispatch,
       Finish, runtime, endpoints
  <2>4. CASE UNCHANGED vars
    BY <2>4, ContractStays DEF vars, runtime, endpoints
  <2>5. Outside => [Contract!Next]_contract
    BY <2>2, <2>3, ContractSteps DEF Outside
  <2> QED BY <2>1, <2>4, <2>5, StepCases, InsideContract
<1>3. IInv /\ RetiredInv /\ LaunchingInv /\ [Next]_vars => RetiredInv' /\ LaunchingInv'
  BY RetiredStep, LaunchingStep
<1> QED BY <1>1, <1>2, <1>3, CapacityInductive, PTL
        DEF Spec, UsesContract, Contract!Spec, contract, Presence, Launched, Ended
================================================================================
