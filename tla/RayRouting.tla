----------------------------- MODULE RayRouting -----------------------------
(***************************************************************************)
(* One routing actor (RoutedBackends with its ReplicaRouter) sends         *)
(* requests to replica actors (OpenAIEngineReplica) in                     *)
(* engines/ray_serve.py, engines/ray_backends.py and scheduler/router.py.  *)
(*                                                                         *)
(* The actor reserves a slot from heartbeats that may be old, has the      *)
(* replica admit the reservation, streams, retires the reservation at the  *)
(* replica and only then releases it.  Each of these is a remote call that *)
(* may be slow, fail or lose its answer.  A reservation (RoutingLease) is  *)
(* made at most once for a request and is named by it.  Conditions of a    *)
(* replica that no reservation changes (model, GPU, memory, age of its     *)
(* snapshot, and whether it is closing) are one Boolean.                   *)
(***************************************************************************)
EXTENDS Integers, FiniteSets

CONSTANTS
  Requests,     \* requests, each of them routed once
  Replicas,     \* the named backends
  None,         \* no replica
  Capacity,     \* capacity_per_worker
  MaxPending    \* requests that may wait for admission (128)

ASSUME RoutingAssumption ==
  /\ None \notin Replicas
  /\ IsFiniteSet(Requests)
  /\ {Capacity, MaxPending} \subseteq Nat \ {0}

VARIABLES
  snapshots,  \* ReplicaRouter._snapshots
  leases,     \* ReplicaRouter._leases: the requests that have a reservation
  disabled,   \* RoutedBackends._disabled
  decision,   \* the replica that was reserved for a request
  phase,      \* where the routing actor is with a request
  heartbeat,  \* the snapshots this request has asked for
  admission,  \* the calls admit ...
  result,     \* ... generate ...
  retirement, \* ... and retire of a request
  active,     \* FixtureReplica.active
  producers,  \* FixtureReplica._producers
  closing     \* what the close of a replica has left to retire

router == <<snapshots, leases, disabled>>
routing == <<decision, phase, heartbeat>>
calls == <<admission, result, retirement>>
replica == <<active, producers, closing>>
vars == <<router, routing, calls, replica>>

-----------------------------------------------------------------------------
(* Snapshots *)

\* A count smaller than the reservations it lists is refused.
View ==
  {view \in [load : 0 .. Capacity, reflected : SUBSET Requests, healthy : BOOLEAN] :
     Cardinality(view.reflected) <= view.load}

\* Before the first snapshot, and after one that failed.
Unknown == [load |-> 0, reflected |-> {}, healthy |-> FALSE]

Asked == [at |-> "asked", view |-> Unknown]
Stored == [at |-> "stored", view |-> Unknown]

Phases == {"idle", "refreshing", "admitting", "streaming", "settling",
           "retiring", "stuck", "done"}

Open == [shut |-> FALSE, left |-> {}]

TypeOK ==
  /\ snapshots \in [Replicas -> View]
  /\ leases \subseteq Requests
  /\ disabled \subseteq Replicas
  /\ decision \in [Requests -> Replicas \cup {None}]
  /\ phase \in [Requests -> Phases]
  /\ heartbeat \in
       [Requests -> [Replicas -> [at : {"asked", "heard", "stored"}, view : View]]]
  /\ admission \in [Requests -> {"none", "sent", "ok", "failed"}]
  /\ result \in [Requests -> {"none", "sent", "running", "ended"}]
  /\ retirement \in [Requests -> {"none", "sent", "ok"}]
  /\ active \in [Replicas -> SUBSET Requests]
  /\ producers \in [Replicas -> SUBSET Requests]
  /\ closing \in [Replicas -> [shut : BOOLEAN, left : SUBSET Requests]]

LeasesOn(r) == {q \in leases : decision[q] = r}

\* Fault: reservations the snapshot does not know of are forgotten.
ReportedLoad(r) == snapshots[r].load

\* _candidate: what the snapshot reports and the reservations it does not
\* reflect yet.
EffectiveLoad(r) ==
  snapshots[r].load + Cardinality(LeasesOn(r) \ snapshots[r].reflected)

\* is_eligible.
Eligible(r) == snapshots[r].healthy /\ EffectiveLoad(r) < Capacity

Pending == {q \in Requests : phase[q] = "refreshing"}

-----------------------------------------------------------------------------
(* The routing actor *)

Arrive(q) ==
  /\ phase[q] = "idle"
  /\ Cardinality(Pending) < MaxPending
  /\ phase' = [phase EXCEPT ![q] = "refreshing"]
  /\ heartbeat' = [heartbeat EXCEPT ![q] = [r \in Replicas |-> Asked]]
  /\ UNCHANGED <<router, decision, calls, replica>>

\* Fault: the gauges of the engine replace the count of the proxy.
EngineGauges(r) == 0 .. Capacity

\* The larger of both; calls that bypass the proxy count.
ReportedLoads(r) == Cardinality(active[r]) .. Capacity

\* state at the replica; its probe may fail.
Hear(q, r) ==
  /\ heartbeat[q][r].at = "asked"
  /\ phase[q] = "refreshing"
  /\ \E load \in ReportedLoads(r), healthy \in BOOLEAN :
       heartbeat' = [heartbeat EXCEPT ![q][r] =
         [at |-> "heard",
          view |-> [load |-> load, reflected |-> active[r], healthy |-> healthy]]]
  /\ UNCHANGED <<router, decision, phase, calls, replica>>

\* Fault: a backend disabled while its heartbeat was under way is not noticed.
AsHeard(r, view) == view

\* read_snapshot: what was disabled meanwhile is not healthy.
Judged(r, view) == [view EXCEPT !.healthy = @ /\ r \notin disabled]

\* _refresh_one: the answer or, after a failure, an unhealthy replica.  That
\* also stands for a backend that was disabled when the refresh began.
Store(q, r) ==
  /\ phase[q] = "refreshing"
  /\ \/ /\ heartbeat[q][r].at = "heard"
        /\ snapshots' = [snapshots EXCEPT ![r] = Judged(r, heartbeat[q][r].view)]
     \/ /\ heartbeat[q][r].at # "stored"
        /\ snapshots' = [snapshots EXCEPT ![r] = Unknown]
  /\ heartbeat' = [heartbeat EXCEPT ![q][r] = Stored]
  /\ UNCHANGED <<leases, disabled, decision, phase, calls, replica>>

Refreshed(q) ==
  /\ phase[q] = "refreshing"
  /\ \A r \in Replicas : heartbeat[q][r].at = "stored"

\* reserve, and the call of admit; which eligible replica is the policy's.
Reserve(q, r) ==
  /\ Refreshed(q)
  /\ Eligible(r)
  /\ leases' = leases \cup {q}
  /\ decision' = [decision EXCEPT ![q] = r]
  /\ phase' = [phase EXCEPT ![q] = "admitting"]
  /\ admission' = [admission EXCEPT ![q] = "sent"]
  /\ UNCHANGED <<snapshots, disabled, heartbeat, result, retirement, replica>>

\* Healthy replicas are saturated: look again soon.
Wait(q) ==
  /\ Refreshed(q)
  /\ \A r \in Replicas : ~Eligible(r)
  /\ \E r \in Replicas : snapshots[r].healthy
  /\ heartbeat' = [heartbeat EXCEPT ![q] = [r \in Replicas |-> Asked]]
  /\ UNCHANGED <<router, decision, phase, calls, replica>>

\* No healthy replica, the deadline, or the caller has gone.
Refuse(q) ==
  /\ phase[q] = "refreshing"
  /\ phase' = [phase EXCEPT ![q] = "done"]
  /\ heartbeat' = [heartbeat EXCEPT ![q] = [r \in Replicas |-> Stored]]
  /\ UNCHANGED <<router, decision, calls, replica>>

\* The admission is acknowledged: generate.
Stream(q) ==
  /\ phase[q] = "admitting"
  /\ admission[q] = "ok"
  /\ phase' = [phase EXCEPT ![q] = "streaming"]
  /\ result' = [result EXCEPT ![q] = "sent"]
  /\ UNCHANGED <<router, decision, heartbeat, admission, retirement, replica>>

\* The stream or the caller ends, a call fails, the deadline passes: cleanup.
Finish(q) ==
  /\ phase[q] \in {"admitting", "streaming"}
  /\ phase' = [phase EXCEPT ![q] = "settling"]
  /\ UNCHANGED <<router, decision, heartbeat, calls, replica>>

\* Fault: the outcome of the admission is not awaited.
RetireAtOnce(q) ==
  /\ phase[q] = "settling"
  /\ phase' = [phase EXCEPT ![q] = "retiring"]
  /\ retirement' = [retirement EXCEPT ![q] = "sent"]
  /\ UNCHANGED <<router, decision, heartbeat, admission, result, replica>>

\* _release_after_worker: the outcome of the admission, then retire.
Retire(q) ==
  /\ phase[q] = "settling"
  /\ admission[q] \in {"ok", "failed"}
  /\ phase' = [phase EXCEPT ![q] = "retiring"]
  /\ retirement' = [retirement EXCEPT ![q] = "sent"]
  /\ UNCHANGED <<router, decision, heartbeat, admission, result, replica>>

\* Fault: the answer of retire is not awaited.
ReleaseAtOnce(q) ==
  /\ phase[q] = "retiring"
  /\ leases' = leases \ {q}
  /\ phase' = [phase EXCEPT ![q] = "done"]
  /\ UNCHANGED <<snapshots, disabled, decision, heartbeat, calls, replica>>

Release(q) ==
  /\ phase[q] = "retiring"
  /\ retirement[q] = "ok"
  /\ leases' = leases \ {q}
  /\ phase' = [phase EXCEPT ![q] = "done"]
  /\ UNCHANGED <<snapshots, disabled, decision, heartbeat, calls, replica>>

\* Fault: the cleanup has no deadline of its own.
NeverGiveUp(q) == FALSE

\* Five seconds have passed or a call of the cleanup has failed: the
\* reservation is kept.
GiveUp(q) ==
  /\ phase[q] \in {"settling", "retiring"}
  /\ phase' = [phase EXCEPT ![q] = "stuck"]
  /\ UNCHANGED <<router, decision, heartbeat, calls, replica>>

Disable(r) ==
  /\ disabled' = disabled \cup {r}
  /\ snapshots' = [snapshots EXCEPT ![r].healthy = FALSE]
  /\ UNCHANGED <<leases, routing, calls, replica>>

Enable(r) ==
  /\ disabled' = disabled \ {r}
  /\ UNCHANGED <<snapshots, leases, routing, calls, replica>>

-----------------------------------------------------------------------------
(* The replica actors *)

Discard(q, r) == active' = [active EXCEPT ![r] = @ \ {q}]

\* admit: an allowlist no longer than the capacity.
Admissible(q, r) == q \notin active[r] /\ Cardinality(active[r]) < Capacity

Admit(q) ==
  /\ admission[q] = "sent"
  /\ LET r == decision[q] IN
       \/ /\ Admissible(q, r)
          /\ active' = [active EXCEPT ![r] = @ \cup {q}]
          /\ admission' = [admission EXCEPT ![q] = "ok"]
       \/ /\ ~Admissible(q, r)
          /\ admission' = [admission EXCEPT ![q] = "failed"]
          /\ UNCHANGED active
  /\ UNCHANGED <<router, routing, result, retirement, producers, closing>>

\* A call fails before it is executed, or its answer is lost.
AdmissionFails(q) ==
  /\ admission[q] = "sent" \/ (admission[q] = "ok" /\ phase[q] = "admitting")
  /\ admission' = [admission EXCEPT ![q] = "failed"]
  /\ UNCHANGED <<router, routing, result, retirement, replica>>

\* generate: only an admitted reservation produces, and only once.
Generate(q) ==
  /\ result[q] = "sent"
  /\ LET r == decision[q] IN
       \/ /\ q \in active[r] /\ q \notin producers[r]
          /\ producers' = [producers EXCEPT ![r] = @ \cup {q}]
          /\ result' = [result EXCEPT ![q] = "running"]
       \/ /\ q \notin active[r]
          /\ result' = [result EXCEPT ![q] = "ended"]
          /\ UNCHANGED producers
  /\ UNCHANGED <<router, routing, admission, retirement, active, closing>>

\* The stream ends, fails or is cancelled.
Produced(q, r) ==
  /\ q \in producers[r]
  /\ Discard(q, r)
  /\ producers' = [producers EXCEPT ![r] = @ \ {q}]
  /\ result' = [result EXCEPT ![q] = "ended"]
  /\ UNCHANGED <<router, routing, admission, retirement, closing>>

\* retire answers once no producer is left.
Retired(q) ==
  /\ retirement[q] = "sent"
  /\ LET r == decision[q] IN
       /\ q \notin producers[r]
       /\ Discard(q, r)
  /\ retirement' = [retirement EXCEPT ![q] = "ok"]
  /\ UNCHANGED <<router, routing, admission, result, producers, closing>>

\* close retires what is active when it begins ...
Close(r) ==
  /\ ~closing[r].shut
  /\ closing' = [closing EXCEPT ![r] = [shut |-> TRUE, left |-> active[r]]]
  /\ UNCHANGED <<router, routing, calls, active, producers>>

CloseRetires(q, r) ==
  /\ q \in closing[r].left \ producers[r]
  /\ Discard(q, r)
  /\ closing' = [closing EXCEPT ![r].left = @ \ {q}]
  /\ UNCHANGED <<router, routing, calls, producers>>

\* ... and a new actor takes its place, as it does after a crash.
Restart(r) ==
  /\ active' = [active EXCEPT ![r] = {}]
  /\ producers' = [producers EXCEPT ![r] = {}]
  /\ closing' = [closing EXCEPT ![r] = Open]
  /\ result' = [q \in Requests |-> IF q \in producers[r] THEN "ended" ELSE result[q]]
  /\ UNCHANGED <<router, routing, admission, retirement>>

-----------------------------------------------------------------------------
Init ==
  /\ snapshots = [r \in Replicas |-> Unknown]
  /\ leases = {}
  /\ disabled = {}
  /\ decision = [q \in Requests |-> None]
  /\ phase = [q \in Requests |-> "idle"]
  /\ heartbeat = [q \in Requests |-> [r \in Replicas |-> Asked]]
  /\ admission = [q \in Requests |-> "none"]
  /\ result = [q \in Requests |-> "none"]
  /\ retirement = [q \in Requests |-> "none"]
  /\ active = [r \in Replicas |-> {}]
  /\ producers = [r \in Replicas |-> {}]
  /\ closing = [r \in Replicas |-> Open]

\* What the routing actor does by itself within its deadlines.
RouterStep(q) ==
  \/ \E r \in Replicas : Store(q, r) \/ Reserve(q, r)
  \/ Wait(q)
  \/ Refuse(q)
  \/ Stream(q)
  \/ Finish(q)
  \/ Retire(q)
  \/ Release(q)
  \/ GiveUp(q)

ReplicaStep(q) ==
  \/ Admit(q)
  \/ AdmissionFails(q)
  \/ Generate(q)
  \/ Retired(q)
  \/ \E r \in Replicas : Hear(q, r) \/ Produced(q, r) \/ CloseRetires(q, r)

Next ==
  \/ \E q \in Requests : Arrive(q) \/ RouterStep(q) \/ ReplicaStep(q)
  \/ \E r \in Replicas : Disable(r) \/ Enable(r) \/ Close(r) \/ Restart(r)

Spec == Init /\ [][Next]_vars

\* Waiting for admission ends by the deadline of the request, a stream too, a
\* cleanup after five seconds.  Nothing is assumed of the replicas.
Fairness ==
  \A q \in Requests :
    /\ WF_vars(Refuse(q))
    /\ WF_vars(Finish(q))
    /\ WF_vars(Retire(q) \/ Release(q) \/ GiveUp(q))

FairSpec == Spec /\ Fairness

-----------------------------------------------------------------------------
(* Properties *)

\* However old the heartbeats are and in whatever order they are applied, a
\* replica never has more reservations than capacity.
ReservationsFit == \A r \in Replicas : Cardinality(LeasesOn(r)) <= Capacity

\* The replica has room for every reservation it is asked to admit, whatever
\* became of earlier ones: admit never refuses.
AdmissionFits ==
  \A q \in Requests : admission[q] = "sent" => Admissible(q, decision[q])

\* Once a reservation is released nothing of the request is at a replica, and
\* no late call can bring it back.
ReleasedIsGone ==
  [][\A q \in Requests : phase[q] = "done" =>
       \A r \in Replicas : q \notin active'[r] \cup producers'[r]]_vars

\* A disabled backend gets no new reservation, although heartbeats from before
\* it was disabled are still under way.
DisabledIsQuarantined ==
  [][\A q \in leases' \ leases : decision'[q] \notin disabled]_vars

\* The routing actor and its replicas together are slots with one owner each.
SlotsOf == INSTANCE Slots WITH
  held <- [q \in Requests |-> IF q \in leases THEN decision[q] ELSE None],
  using <- active

KeepsSlots == SlotsOf!Spec

\* A request leaves the routing actor, although its cleanup ignores
\* cancellations: with its reservation released, or kept for an operator.
RequestEnds ==
  \A q \in Requests : phase[q] # "idle" ~> phase[q] \in {"done", "stuck"}

=============================================================================
