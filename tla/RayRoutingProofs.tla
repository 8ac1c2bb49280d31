-------------------------- MODULE RayRoutingProofs --------------------------
(***************************************************************************)
(* Proofs about RayRouting for any number of requests and replicas and any *)
(* capacity.                                                               *)
(*                                                                         *)
(* A snapshot counts at least the reservations it lists, so the load that  *)
(* reserve compares with the capacity counts each reservation, however old *)
(* the snapshot is.  A reservation is kept as long as the replica may hold *)
(* or may still be asked to admit the request: what is active has a        *)
(* reservation, so there is room for one that is about to be admitted.     *)
(***************************************************************************)
EXTENDS RayRouting, FiniteSetTheorems, TLAPS

Settled == {"ok", "failed"}

Reserved == {"admitting", "streaming", "settling", "retiring", "stuck"}

\* The reservation of a request covers all that is known of it elsewhere.
Accounted(q) ==
  /\ q \in leases <=> phase[q] \in Reserved
  /\ q \in leases => decision[q] \in Replicas
  /\ admission[q] = "sent" => q \in leases
  /\ phase[q] \in {"streaming", "retiring"} => admission[q] \in Settled
  /\ retirement[q] # "none" =>
       phase[q] \in {"retiring", "stuck", "done"} /\ admission[q] \in Settled
  /\ \A r \in Replicas :
       /\ q \in producers[r] => q \in active[r]
       /\ q \in active[r] => /\ q \in LeasesOn(r)
                             /\ admission[q] \in Settled
                             /\ retirement[q] # "ok"

AllAccounted == \A q \in Requests : Accounted(q)

\* A disabled backend is not healthy in the eyes of the routing actor.
Quarantine == \A r \in disabled : ~snapshots[r].healthy

IInv == TypeOK /\ AllAccounted /\ Quarantine /\ ReservationsFit

-----------------------------------------------------------------------------
(* Types *)

LEMMA UnknownIsView ==
  /\ Unknown \in View
  /\ Unknown.healthy = FALSE
  /\ Asked \in [at : {"asked", "heard", "stored"}, view : View]
  /\ Stored \in [at : {"asked", "heard", "stored"}, view : View]
BY RoutingAssumption, FS_EmptySet DEF View, Unknown, Asked, Stored

\* An answer of state is a view: it counts what it lists.
LEMMA AnswerIsView ==
  ASSUME TypeOK, NEW r \in Replicas, NEW load \in ReportedLoads(r),
         NEW healthy \in BOOLEAN
  PROVE  [load |-> load, reflected |-> active[r], healthy |-> healthy] \in View
<1>1. active[r] \subseteq Requests /\ IsFiniteSet(active[r])
  BY RoutingAssumption, FS_Subset DEF TypeOK
<1>2. Cardinality(active[r]) \in Nat
  BY <1>1, FS_CardinalityType
<1> QED
  BY <1>1, <1>2, RoutingAssumption DEF View, ReportedLoads

LEMMA JudgedIsView ==
  ASSUME NEW r \in Replicas, NEW view \in View
  PROVE  /\ Judged(r, view) \in View
         /\ r \in disabled => ~Judged(r, view).healthy
BY DEF Judged, View

LEMMA TypeStep ==
  ASSUME TypeOK, [Next]_vars
  PROVE  TypeOK'
<1> DEFINE Call == [at : {"asked", "heard", "stored"}, view : View]
           Fresh == [r \in Replicas |-> Asked]
           Over == [r \in Replicas |-> Stored]
<1> USE RoutingAssumption DEF router, routing, calls, replica
<1>1. Fresh \in [Replicas -> Call] /\ Over \in [Replicas -> Call]
  BY UnknownIsView
<1>2. ASSUME NEW q \in Requests, Arrive(q)  PROVE TypeOK'
  BY <1>1, <1>2 DEF TypeOK, Arrive, Phases
<1>3. ASSUME NEW q \in Requests, NEW r \in Replicas, Store(q, r)  PROVE TypeOK'
  <2>1. heartbeat[q][r] \in Call
    BY DEF TypeOK
  <2>2. /\ Judged(r, heartbeat[q][r].view) \in View
        /\ Unknown \in View
    BY <2>1, UnknownIsView, JudgedIsView
  <2>2a. \E view \in View : snapshots' = [snapshots EXCEPT ![r] = view]
    BY <2>2, <1>3 DEF Store
  <2>2b. snapshots' \in [Replicas -> View]
    BY <2>2a DEF TypeOK
  <2>3. heartbeat' \in [Requests -> [Replicas -> Call]]
    BY <1>3, UnknownIsView DEF Store, TypeOK
  <2> QED
    BY <1>3, <2>2b, <2>3 DEF Store, TypeOK
<1>4. ASSUME NEW q \in Requests, NEW r \in Replicas, Reserve(q, r)
      PROVE  TypeOK'
  BY <1>4 DEF TypeOK, Reserve, Phases
<1>5. ASSUME NEW q \in Requests, Wait(q)  PROVE TypeOK'
  BY <1>1, <1>5 DEF TypeOK, Wait
<1>6. ASSUME NEW q \in Requests, Refuse(q)  PROVE TypeOK'
  BY <1>1, <1>6 DEF TypeOK, Refuse, Phases
<1>7. ASSUME NEW q \in Requests,
             Stream(q) \/ Finish(q) \/ Retire(q) \/ Release(q) \/ GiveUp(q)
      PROVE  TypeOK'
  <2>1. CASE Stream(q)  BY <2>1 DEF TypeOK, Stream, Phases
  <2>2. CASE Finish(q)  BY <2>2 DEF TypeOK, Finish, Phases
  <2>3. CASE Retire(q)  BY <2>3 DEF TypeOK, Retire, Phases
  <2>4. CASE Release(q)  BY <2>4 DEF TypeOK, Release, Phases
  <2>5. CASE GiveUp(q)  BY <2>5 DEF TypeOK, GiveUp, Phases
  <2> QED
    BY <1>7, <2>1, <2>2, <2>3, <2>4, <2>5
<1>8. ASSUME NEW q \in Requests,
             Admit(q) \/ AdmissionFails(q) \/ Generate(q) \/ Retired(q)
      PROVE  TypeOK'
  <2>1. CASE Admit(q)
    <3>1. \/ active' = active
          \/ active' = [active EXCEPT ![decision[q]] = @ \cup {q}]
      BY <2>1 DEF Admit
    <3>2. active' \in [Replicas -> SUBSET Requests]
      <4>1. active \in [Replicas -> SUBSET Requests]
        BY DEF TypeOK
      <4>2. decision[q] \in Replicas => active[decision[q]] \cup {q} \subseteq Requests
        BY <4>1
      <4> QED
        BY <3>1, <4>1, <4>2
    <3>3. \E answer \in Settled : admission' = [admission EXCEPT ![q] = answer]
      BY <2>1 DEF Admit, Settled
    <3>4. admission' \in [Requests -> {"none", "sent", "ok", "failed"}]
      BY <3>3 DEF TypeOK, Settled
    <3> QED
      BY <2>1, <3>2, <3>4 DEF TypeOK, Admit
  <2>2. CASE AdmissionFails(q)  BY <2>2 DEF TypeOK, AdmissionFails
  <2>3. CASE Generate(q)
    <3>1. \/ producers' = producers
          \/ producers' = [producers EXCEPT ![decision[q]] = @ \cup {q}]
      BY <2>3 DEF Generate
    <3>2. producers' \in [Replicas -> SUBSET Requests]
      <4>1. producers \in [Replicas -> SUBSET Requests]
        BY DEF TypeOK
      <4>2. decision[q] \in Replicas => producers[decision[q]] \cup {q} \subseteq Requests
        BY <4>1
      <4> QED
        BY <3>1, <4>1, <4>2
    <3>3. \E answer \in {"running", "ended"} :
            result' = [result EXCEPT ![q] = answer]
      BY <2>3 DEF Generate
    <3>4. result' \in [Requests -> {"none", "sent", "running", "ended"}]
      BY <3>3 DEF TypeOK
    <3> QED
      BY <2>3, <3>2, <3>4 DEF TypeOK, Generate
  <2>4. CASE Retired(q)  BY <2>4 DEF TypeOK, Retired, Discard
  <2> QED
    BY <1>8, <2>1, <2>2, <2>3, <2>4
<1>9. ASSUME NEW q \in Requests, NEW r \in Replicas, Hear(q, r)  PROVE TypeOK'
  <2>1. PICK load \in ReportedLoads(r), healthy \in BOOLEAN :
          heartbeat' = [heartbeat EXCEPT ![q][r] =
            [at |-> "heard",
             view |-> [load |-> load, reflected |-> active[r],
                       healthy |-> healthy]]]
    BY <1>9 DEF Hear
  <2> DEFINE answer == [load |-> load, reflected |-> active[r],
                        healthy |-> healthy]
  <2>2. answer \in View
    BY AnswerIsView
  <2>3. [at |-> "heard", view |-> answer] \in Call
    BY <2>2
  <2>4. heartbeat' \in [Requests -> [Replicas -> Call]]
    BY <2>1, <2>3 DEF TypeOK
  <2> QED
    BY <1>9, <2>4 DEF Hear, TypeOK
<1>10. ASSUME NEW q \in Requests, NEW r \in Replicas,
              Produced(q, r) \/ CloseRetires(q, r)
       PROVE  TypeOK'
  <2>1. CASE Produced(q, r)  BY <2>1 DEF TypeOK, Produced, Discard
  <2>2. CASE CloseRetires(q, r)
    <3>1. closing' \in [Replicas -> [shut : BOOLEAN, left : SUBSET Requests]]
      BY <2>2 DEF TypeOK, CloseRetires
    <3> QED
      BY <2>2, <3>1 DEF TypeOK, CloseRetires, Discard
  <2> QED
    BY <1>10, <2>1, <2>2
<1>11. ASSUME NEW r \in Replicas, Disable(r)  PROVE TypeOK'
  <2>1. snapshots' \in [Replicas -> View]
    BY ZenonT(30), <1>11 DEF Disable, TypeOK, View
  <2> QED
    BY <1>11, <2>1 DEF Disable, TypeOK
<1>12. ASSUME NEW r \in Replicas, Enable(r) \/ Close(r) \/ Restart(r)
       PROVE  TypeOK'
  <2>1. CASE Enable(r)  BY <2>1 DEF TypeOK, Enable
  <2>2. CASE Close(r)
    <3>1. closing' \in [Replicas -> [shut : BOOLEAN, left : SUBSET Requests]]
      BY <2>2 DEF TypeOK, Close
    <3> QED
      BY <2>2, <3>1 DEF TypeOK, Close
  <2>3. CASE Restart(r)
    <3>1. result' \in [Requests -> {"none", "sent", "running", "ended"}]
      BY <2>3 DEF TypeOK, Restart
    <3>2. closing' \in [Replicas -> [shut : BOOLEAN, left : SUBSET Requests]]
      BY <2>3 DEF TypeOK, Restart, Open
    <3> QED
      BY <2>3, <3>1, <3>2 DEF TypeOK, Restart
  <2> QED
    BY <1>12, <2>1, <2>2, <2>3
<1>13. CASE UNCHANGED vars
  BY <1>13 DEF TypeOK, vars
<1> QED
  BY <1>2, <1>3, <1>4, <1>5, <1>6, <1>7, <1>8, <1>9, <1>10, <1>11, <1>12, <1>13
  DEF Next, RouterStep, ReplicaStep

-----------------------------------------------------------------------------
(* Reservations *)

\* What a step that concerns one request at most leaves alone.
Untouched(p) ==
  /\ p \in leases' <=> p \in leases
  /\ UNCHANGED <<decision[p], phase[p], admission[p], retirement[p]>>
  /\ \A r \in Replicas : /\ p \in active'[r] <=> p \in active[r]
                         /\ p \in producers'[r] <=> p \in producers[r]

LEMMA UntouchedStays ==
  ASSUME NEW p, Accounted(p), Untouched(p)
  PROVE  Accounted(p)'
BY DEF Accounted, Untouched, LeasesOn

\* What the routing actor does keeps the account of a request.
LEMMA RouterAccounted ==
  ASSUME TypeOK, AllAccounted, NEW q \in Requests, Arrive(q) \/ RouterStep(q)
  PROVE  AllAccounted'
<1> USE DEF router, routing, calls, replica, TypeOK
<1>1. Accounted(q)
  BY DEF AllAccounted
<1>2. UNCHANGED <<active, producers>>
  BY DEF Arrive, RouterStep, Store, Reserve, Wait, Refuse, Stream, Finish,
         Retire, Release, GiveUp
<1>3. \A p \in Requests \ {q} : Untouched(p)
  BY DEF Untouched, Arrive, RouterStep, Store, Reserve, Wait, Refuse, Stream,
         Finish, Retire, Release, GiveUp
<1>4. Accounted(q)'
  <2> USE <1>1, <1>2 DEF Accounted, Reserved, Settled, LeasesOn
  <2>1. CASE Arrive(q)  BY <2>1 DEF Arrive
  <2>2. ASSUME NEW r \in Replicas, Store(q, r)  PROVE Accounted(q)'
    BY <2>2 DEF Store
  <2>3. ASSUME NEW r \in Replicas, Reserve(q, r)  PROVE Accounted(q)'
    BY <2>3 DEF Reserve, Refreshed
  <2>4. CASE Wait(q)  BY <2>4 DEF Wait
  <2>5. CASE Refuse(q)  BY <2>5 DEF Refuse
  <2>6. CASE Stream(q)  BY <2>6 DEF Stream
  <2>7. CASE Finish(q)  BY <2>7 DEF Finish
  <2>8. CASE Retire(q)  BY <2>8 DEF Retire
  <2>9. CASE Release(q)  BY <2>9 DEF Release
  <2>10. CASE GiveUp(q)  BY <2>10 DEF GiveUp
  <2> QED
    BY <2>1, <2>2, <2>3, <2>4, <2>5, <2>6, <2>7, <2>8, <2>9, <2>10 DEF RouterStep
<1> QED
  BY <1>3, <1>4, UntouchedStays DEF AllAccounted

\* So does what a replica does for it.
LEMMA ReplicaAccounted ==
  ASSUME TypeOK, AllAccounted, NEW q \in Requests, ReplicaStep(q)
  PROVE  AllAccounted'
<1> USE DEF router, routing, calls, replica, TypeOK
<1>1. Accounted(q)
  BY DEF AllAccounted
<1>2. UNCHANGED <<leases, decision, phase>>
  BY DEF ReplicaStep, Admit, AdmissionFails, Generate, Retired, Hear, Produced,
         CloseRetires
<1> USE <1>1, <1>2 DEF Accounted, Reserved, Settled, LeasesOn
<1>3. ASSUME Admit(q)
      PROVE  Accounted(q)' /\ \A p \in Requests \ {q} : Untouched(p)
  <2> DEFINE r == decision[q]
  <2>1. q \in leases /\ r \in Replicas
    BY <1>3 DEF Admit
  <2>2. /\ \/ active' = [active EXCEPT ![r] = @ \cup {q}]
           \/ active' = active
        /\ \E answer \in Settled : admission' = [admission EXCEPT ![q] = answer]
        /\ UNCHANGED <<retirement, producers>>
        /\ active' # active => admission'[q] = "ok"
    BY <1>3 DEF Admit
  <2>3. /\ \A s \in Replicas : /\ active[s] \subseteq active'[s]
                               /\ active'[s] \subseteq active[s] \cup {q}
                               /\ s # r => active'[s] = active[s]
        /\ admission'[q] \in Settled
        /\ \A p \in Requests \ {q} : admission'[p] = admission[p]
    BY <2>1, <2>2
  <2>4. retirement[q] = "none"
    BY <1>3 DEF Admit
  <2>5. Accounted(q)'
    BY <1>3, <2>1, <2>2, <2>3, <2>4 DEF Admit
  <2> QED
    BY <2>1, <2>2, <2>3, <2>5 DEF Untouched
<1>4. ASSUME AdmissionFails(q)
      PROVE  Accounted(q)' /\ \A p \in Requests \ {q} : Untouched(p)
  BY <1>4 DEF AdmissionFails, Untouched
<1>5. ASSUME Generate(q)
      PROVE  Accounted(q)' /\ \A p \in Requests \ {q} : Untouched(p)
  <2>1. UNCHANGED <<admission, retirement, active>>
    BY <1>5 DEF Generate
  <2>2. \A r \in Replicas :
          /\ q \in producers'[r] => q \in active[r]
          /\ \A p \in Requests \ {q} : p \in producers'[r] <=> p \in producers[r]
    <3>1. \/ producers' = producers
          \/ /\ producers' = [producers EXCEPT ![decision[q]] = @ \cup {q}]
             /\ q \in active[decision[q]]
      BY <1>5 DEF Generate
    <3> QED
      BY <3>1
  <2> QED
    BY <2>1, <2>2 DEF Untouched
<1>6. ASSUME Retired(q)
      PROVE  Accounted(q)' /\ \A p \in Requests \ {q} : Untouched(p)
  BY <1>6 DEF Retired, Discard, Untouched
<1>7. ASSUME NEW r \in Replicas, Hear(q, r)
      PROVE  Accounted(q)' /\ \A p \in Requests \ {q} : Untouched(p)
  BY <1>7 DEF Hear, Untouched
<1>8. ASSUME NEW r \in Replicas, Produced(q, r)
      PROVE  Accounted(q)' /\ \A p \in Requests \ {q} : Untouched(p)
  BY <1>8 DEF Produced, Discard, Untouched
<1>9. ASSUME NEW r \in Replicas, CloseRetires(q, r)
      PROVE  Accounted(q)' /\ \A p \in Requests \ {q} : Untouched(p)
  BY <1>9 DEF CloseRetires, Discard, Untouched
<1>10. Accounted(q)' /\ \A p \in Requests \ {q} : Untouched(p)
  BY <1>3, <1>4, <1>5, <1>6, <1>7, <1>8, <1>9 DEF ReplicaStep
<1>11. \A p \in Requests \ {q} : Accounted(p)'
  <2> HIDE DEF Accounted
  <2> QED
    BY <1>10, UntouchedStays DEF AllAccounted
<1> QED
  BY <1>10, <1>11 DEF AllAccounted

LEMMA AccountedStep ==
  ASSUME TypeOK, AllAccounted, [Next]_vars
  PROVE  AllAccounted'
<1> USE DEF router, routing, calls, replica
<1>1. ASSUME NEW q \in Requests, Arrive(q) \/ RouterStep(q) \/ ReplicaStep(q)
      PROVE  AllAccounted'
  BY <1>1, RouterAccounted, ReplicaAccounted
<1>2. ASSUME NEW r \in Replicas, Disable(r) \/ Enable(r) \/ Close(r)
      PROVE  AllAccounted'
  BY <1>2, UntouchedStays DEF AllAccounted, Untouched, Disable, Enable, Close
<1>3. ASSUME NEW r \in Replicas, Restart(r)  PROVE AllAccounted'
  BY <1>3 DEF AllAccounted, Accounted, LeasesOn, Restart, TypeOK
<1>4. CASE UNCHANGED vars
  BY <1>4, UntouchedStays DEF AllAccounted, Untouched, vars
<1> QED
  BY <1>1, <1>2, <1>3, <1>4 DEF Next

-----------------------------------------------------------------------------
(* Quarantine and capacity *)

LEMMA QuarantineStep ==
  ASSUME TypeOK, Quarantine, [Next]_vars
  PROVE  Quarantine'
<1> USE DEF Quarantine, TypeOK
<1>1. ASSUME NEW q \in Requests, NEW r \in Replicas, Store(q, r)
      PROVE  Quarantine'
  <2>1. UNCHANGED disabled
    BY <1>1 DEF Store
  <2>2. PICK view : /\ snapshots' = [snapshots EXCEPT ![r] = view]
                    /\ r \in disabled => ~view.healthy
    <3>1. CASE snapshots' =
                 [snapshots EXCEPT ![r] = Judged(r, heartbeat[q][r].view)]
      BY ZenonT(30), <3>1, JudgedIsView
    <3>2. CASE snapshots' = [snapshots EXCEPT ![r] = Unknown]
      BY <3>2, UnknownIsView
    <3> QED
      BY <1>1, <3>1, <3>2 DEF Store
  <2>3. /\ snapshots'[r] = view
        /\ \A s \in Replicas \ {r} : snapshots'[s] = snapshots[s]
    BY <2>2
  <2>4. disabled \subseteq Replicas
    OBVIOUS
  <2> QED
    BY <2>1, <2>2, <2>3, <2>4
<1>2. ASSUME NEW r \in Replicas, Disable(r)  PROVE Quarantine'
  BY <1>2 DEF Disable, View
<1>3. ASSUME NEW r \in Replicas, Enable(r)  PROVE Quarantine'
  BY <1>3 DEF Enable
<1>4. CASE UNCHANGED <<snapshots, disabled>>
  BY <1>4
<1>5. \/ \E q \in Requests, r \in Replicas : Store(q, r)
      \/ \E r \in Replicas : Disable(r) \/ Enable(r)
      \/ UNCHANGED <<snapshots, disabled>>
  BY DEF Next, RouterStep, ReplicaStep, vars, router, routing, calls, replica,
         Arrive, Reserve, Wait, Refuse, Stream, Finish, Retire, Release,
         GiveUp, Admit, AdmissionFails, Generate, Retired, Hear, Produced,
         CloseRetires, Close, Restart
<1> QED
  BY <1>1, <1>2, <1>3, <1>4, <1>5

LEMMA LeasesFinite ==
  ASSUME leases \subseteq Requests, NEW r
  PROVE  IsFiniteSet(LeasesOn(r)) /\ Cardinality(LeasesOn(r)) \in Nat
BY RoutingAssumption, FS_Subset, FS_CardinalityType DEF LeasesOn

\* The load that reserve compares counts every reservation.
LEMMA LoadCounts ==
  ASSUME TypeOK, NEW r \in Replicas
  PROVE  /\ EffectiveLoad(r) \in Nat
         /\ Cardinality(LeasesOn(r)) <= EffectiveLoad(r)
<1> DEFINE L == LeasesOn(r)
           R == snapshots[r].reflected
<1>1. /\ snapshots[r].load \in Nat
      /\ R \subseteq Requests
      /\ Cardinality(R) <= snapshots[r].load
  BY RoutingAssumption DEF TypeOK, View
<1>2. IsFiniteSet(L) /\ IsFiniteSet(R)
  BY <1>1, LeasesFinite, RoutingAssumption, FS_Subset DEF TypeOK
<1>3. /\ IsFiniteSet(L \ R)
      /\ Cardinality(L \ R) = Cardinality(L) - Cardinality(L \cap R)
  BY <1>2, FS_Difference
<1>4. IsFiniteSet(L \cap R) /\ Cardinality(L \cap R) <= Cardinality(R)
  BY <1>2, FS_Intersection
<1>5. /\ Cardinality(L) \in Nat
      /\ Cardinality(R) \in Nat
      /\ Cardinality(L \ R) \in Nat
      /\ Cardinality(L \cap R) \in Nat
  BY <1>2, <1>3, <1>4, FS_CardinalityType
<1> QED
  BY <1>1, <1>3, <1>4, <1>5 DEF EffectiveLoad

LEMMA FitStep ==
  ASSUME TypeOK, AllAccounted, ReservationsFit, [Next]_vars
  PROVE  ReservationsFit'
<1> USE RoutingAssumption DEF TypeOK
<1>1. ASSUME NEW q \in Requests, NEW r \in Replicas, Reserve(q, r)
      PROVE  ReservationsFit'
  <2>1. /\ q \notin leases
        /\ leases' = leases \cup {q}
        /\ decision' = [decision EXCEPT ![q] = r]
    BY <1>1 DEF Reserve, Refreshed, AllAccounted, Accounted, Reserved
  <2>2. LeasesOn(r)' = LeasesOn(r) \cup {q}
    BY <2>1 DEF LeasesOn
  <2>3. \A s \in Replicas \ {r} : LeasesOn(s)' = LeasesOn(s)
    BY <2>1 DEF LeasesOn
  <2>4. Cardinality(LeasesOn(r)) < Capacity
    BY <1>1, LoadCounts, LeasesFinite DEF Reserve, Eligible
  <2>5. Cardinality(LeasesOn(r)') <= Capacity
    <3>1. IsFiniteSet(LeasesOn(r)) /\ Cardinality(LeasesOn(r)) \in Nat
      BY LeasesFinite
    <3>2. Cardinality(LeasesOn(r) \cup {q}) = Cardinality(LeasesOn(r)) + 1
      <4>1. q \notin LeasesOn(r)
        BY <2>1 DEF LeasesOn
      <4> HIDE DEF LeasesOn
      <4> QED
        BY <3>1, <4>1, FS_AddElement
    <3>3. Cardinality(LeasesOn(r) \cup {q}) \in Nat
      BY <3>1, FS_AddElement, FS_CardinalityType
    <3> QED
      BY <2>2, <2>4, <3>1, <3>2, <3>3
  <2> QED
    BY <2>3, <2>5 DEF ReservationsFit
<1>2. ASSUME NEW q \in Requests, Release(q)  PROVE ReservationsFit'
  <2>1. \A r \in Replicas : LeasesOn(r)' \subseteq LeasesOn(r)
    BY <1>2 DEF Release, LeasesOn
  <2>2. \A r \in Replicas : /\ Cardinality(LeasesOn(r)') \in Nat
                            /\ Cardinality(LeasesOn(r)') <= Cardinality(LeasesOn(r))
    BY <2>1, LeasesFinite, FS_Subset, FS_CardinalityType
  <2> QED
    BY <2>2, LeasesFinite DEF ReservationsFit
<1>3. CASE UNCHANGED <<leases, decision>>
  BY <1>3 DEF ReservationsFit, LeasesOn
<1>4. \/ \E q \in Requests : Release(q) \/ \E r \in Replicas : Reserve(q, r)
      \/ UNCHANGED <<leases, decision>>
  BY DEF Next, RouterStep, ReplicaStep, vars, router, routing, calls, replica,
         Arrive, Store, Wait, Refuse, Stream, Finish, Retire, GiveUp, Admit,
         AdmissionFails, Generate, Retired, Hear, Produced, CloseRetires,
         Disable, Enable, Close, Restart
<1> QED
  BY <1>1, <1>2, <1>3, <1>4

LEMMA InitIInv ==
  ASSUME Init
  PROVE  IInv
<1>1. TypeOK
  BY UnknownIsView DEF Init, TypeOK, Phases, Open
<1>2. AllAccounted
  BY DEF Init, AllAccounted, Accounted, Reserved, Settled
<1>3. Quarantine
  BY DEF Init, Quarantine
<1>4. ReservationsFit
  <2>1. \A r : LeasesOn(r) = {}
    BY DEF Init, LeasesOn
  <2> QED
    BY <2>1, FS_EmptySet, RoutingAssumption DEF ReservationsFit
<1> QED
  BY <1>1, <1>2, <1>3, <1>4 DEF IInv

\* The invariant that the theorems below read their facts from.
THEOREM RoutingInductive == Spec => []IInv
<1>1. IInv /\ [Next]_vars => IInv'
  BY TypeStep, AccountedStep, QuarantineStep, FitStep DEF IInv
<1> QED
  BY <1>1, InitIInv, PTL DEF Spec

-----------------------------------------------------------------------------
(* Theorems *)

\* Types: in particular a snapshot counts what it lists.
THEOREM RoutingTypeCorrect == Spec => []TypeOK
<1>1. IInv => TypeOK
  BY DEF IInv
<1> QED
  BY <1>1, RoutingInductive, PTL

\* No replica has more reservations than capacity, whatever the order and the
\* age of the heartbeats.
THEOREM ReservationsCorrect == Spec => []ReservationsFit
<1>1. IInv => ReservationsFit
  BY DEF IInv
<1> QED
  BY <1>1, RoutingInductive, PTL

\* What is active on a replica and what is about to be admitted has a
\* reservation there.
LEMMA RoomForOne ==
  ASSUME IInv, NEW q \in Requests, admission[q] = "sent"
  PROVE  Admissible(q, decision[q])
<1> DEFINE r == decision[q]
<1>1. q \in leases /\ r \in Replicas /\ q \notin active[r]
  BY DEF IInv, AllAccounted, Accounted, Settled
<1>2. active[r] \subseteq LeasesOn(r) \ {q}
  BY <1>1 DEF IInv, AllAccounted, Accounted, TypeOK
<1>3. q \in LeasesOn(r)
  BY <1>1 DEF LeasesOn
<1>4. /\ IsFiniteSet(LeasesOn(r) \ {q})
      /\ Cardinality(LeasesOn(r) \ {q}) = Cardinality(LeasesOn(r)) - 1
  <2>1. IsFiniteSet(LeasesOn(r))
    BY LeasesFinite DEF IInv, TypeOK
  <2> QED
    BY <1>3, <2>1, FS_RemoveElement
<1>5. /\ Cardinality(active[r]) \in Nat
      /\ Cardinality(active[r]) <= Cardinality(LeasesOn(r) \ {q})
  BY <1>2, <1>4, FS_Subset, FS_CardinalityType
<1>6. /\ Cardinality(LeasesOn(r)) \in Nat
      /\ Cardinality(LeasesOn(r)) <= Capacity
  BY <1>1, LeasesFinite DEF IInv, TypeOK, ReservationsFit
<1> QED
  BY <1>1, <1>4, <1>5, <1>6, RoutingAssumption DEF Admissible

\* The replica never refuses an admission that the routing actor has reserved.
THEOREM AdmissionCorrect == Spec => []AdmissionFits
<1>1. IInv => AdmissionFits
  BY RoomForOne DEF AdmissionFits
<1> QED
  BY <1>1, RoutingInductive, PTL

\* A released request never comes back on a replica.
THEOREM ReleasedCorrect == Spec => ReleasedIsGone
<1>1. IInv /\ IInv' /\ [Next]_vars =>
        [\A q \in Requests : phase[q] = "done" =>
           \A r \in Replicas : q \notin active'[r] \cup producers'[r]]_vars
  <2> SUFFICES ASSUME IInv, IInv', Next, NEW q \in Requests, phase[q] = "done"
               PROVE  \A r \in Replicas : q \notin active'[r] \cup producers'[r]
    OBVIOUS
  <2>1. phase'[q] = "done"
    BY DEF Next, RouterStep, ReplicaStep, router, routing, calls, replica,
           IInv, TypeOK, Arrive, Store, Reserve, Refreshed, Wait, Refuse,
           Stream, Finish, Retire, Release, GiveUp, Admit, AdmissionFails,
           Generate, Retired, Hear, Produced, CloseRetires, Disable, Enable,
           Close, Restart
  <2> QED
    BY <2>1 DEF IInv, AllAccounted, Accounted, Reserved, LeasesOn
<1> QED
  BY <1>1, RoutingInductive, PTL DEF Spec, ReleasedIsGone

\* A disabled backend gets no new reservation.
THEOREM QuarantineCorrect == Spec => DisabledIsQuarantined
<1>1. IInv /\ [Next]_vars =>
        [\A q \in leases' \ leases : decision'[q] \notin disabled]_vars
  <2> SUFFICES ASSUME IInv, Next, NEW q \in leases' \ leases
               PROVE  decision'[q] \notin disabled
    OBVIOUS
  <2>1. PICK p \in Requests, r \in Replicas : Reserve(p, r)
    BY DEF Next, RouterStep, ReplicaStep, router, routing, calls, replica,
           Arrive, Store, Wait, Refuse, Stream, Finish, Retire, Release,
           GiveUp, Admit, AdmissionFails, Generate, Retired, Hear, Produced,
           CloseRetires, Disable, Enable, Close, Restart
  <2>2. q = p /\ decision'[q] = r /\ snapshots[r].healthy
    BY <2>1 DEF Reserve, Eligible, IInv, TypeOK
  <2> QED
    BY <2>2 DEF IInv, Quarantine
<1> QED
  BY <1>1, RoutingInductive, PTL DEF Spec, DisabledIsQuarantined

-----------------------------------------------------------------------------
(* Implementation of Slots *)

Held == [q \in Requests |-> IF q \in leases THEN decision[q] ELSE None]

LEMMA SameCardinality == \A S : SlotsOf!Cardinality(S) = Cardinality(S)
BY DEF SlotsOf!Cardinality, Cardinality

LEMMA HeldOnIsLeasesOn ==
  ASSUME leases \subseteq Requests, NEW r \in Replicas
  PROVE  SlotsOf!HeldOn(r) = LeasesOn(r)
BY RoutingAssumption DEF SlotsOf!HeldOn, LeasesOn

LEMMA InitHoldsNothing ==
  ASSUME Init
  PROVE  SlotsOf!Init
BY DEF Init, SlotsOf!Init

\* Each step takes, enters, leaves or gives a slot, or leaves the slots alone.
LEMMA SlotStep ==
  ASSUME IInv, [Next]_vars
  PROVE  [SlotsOf!Next]_<<Held, active>>
<1> USE DEF Held, router, routing, calls, replica
<1>0. TypeOK /\ AllAccounted
  BY DEF IInv
<1>1. ASSUME NEW q \in Requests, NEW r \in Replicas, Reserve(q, r)
      PROVE  SlotsOf!Take(q, r)
  <2>1. q \notin leases
    BY <1>0, <1>1 DEF Reserve, Refreshed, AllAccounted, Accounted, Reserved
  <2>2. /\ leases' = leases \cup {q}
        /\ decision' = [decision EXCEPT ![q] = r]
        /\ UNCHANGED active
    BY <1>1 DEF Reserve
  <2>3. Held[q] = None
    BY <2>1
  <2>4. Held' = [Held EXCEPT ![q] = r]
    BY <1>0, <2>2 DEF TypeOK
  <2>5. Cardinality(SlotsOf!HeldOn(r)) < Capacity
    <3>1. Cardinality(LeasesOn(r)) < Capacity
      BY <1>0, <1>1, LoadCounts, LeasesFinite, RoutingAssumption
      DEF Reserve, Eligible, TypeOK
    <3> QED
      BY <1>0, <3>1, HeldOnIsLeasesOn DEF TypeOK
  <2> QED
    BY <2>2, <2>3, <2>4, <2>5, SameCardinality DEF SlotsOf!Take
<1>2. ASSUME NEW q \in Requests, Release(q)  PROVE SlotsOf!Give(q)
  <2>1. \A r \in Replicas : q \notin active[r]
    BY <1>0, <1>2 DEF Release, AllAccounted, Accounted
  <2>2. /\ leases' = leases \ {q}
        /\ UNCHANGED <<decision, active>>
    BY <1>2 DEF Release
  <2>3. Held' = [Held EXCEPT ![q] = None]
    BY <2>2
  <2>4. active' = [r \in Replicas |-> active[r] \ {q}]
    BY <1>0, <2>1, <2>2 DEF TypeOK
  <2> QED
    BY <2>3, <2>4 DEF SlotsOf!Give
<1>3. CASE UNCHANGED <<leases, decision>>
  <2>1. UNCHANGED Held
    BY <1>3
  <2>2. ASSUME NEW q \in Requests, Admit(q)
        PROVE  [SlotsOf!Next]_<<Held, active>>
    <3>1. q \in leases /\ decision[q] \in Replicas
      BY <1>0, <2>2 DEF Admit, AllAccounted, Accounted
    <3>2. Held[q] = decision[q]
      BY <3>1
    <3>3. \/ UNCHANGED active
          \/ active' = [active EXCEPT ![decision[q]] = @ \cup {q}]
      BY <2>2 DEF Admit
    <3> QED
      BY <2>1, <3>1, <3>2, <3>3 DEF SlotsOf!Next, SlotsOf!Enter
  <2>3. ASSUME NEW r \in Replicas, NEW left \in SUBSET active[r],
               active' = [active EXCEPT ![r] = left]
        PROVE  SlotsOf!Leave(r)
    BY <2>1, <2>3 DEF SlotsOf!Leave
  <2>4. ASSUME NEW q \in Requests, NEW r \in Replicas, Discard(q, r)
        PROVE  SlotsOf!Leave(r)
    BY <2>3, <2>4 DEF Discard
  <2>5. ASSUME NEW q \in Requests, Retired(q)
        PROVE  [SlotsOf!Next]_<<Held, active>>
    <3>1. Discard(q, decision[q])
      BY <2>5 DEF Retired
    <3>2. CASE decision[q] \in Replicas
      BY <2>4, <3>1, <3>2 DEF SlotsOf!Next
    <3>3. CASE decision[q] \notin Replicas
      BY <1>0, <2>1, <3>1, <3>3 DEF Discard, TypeOK
    <3> QED
      BY <3>2, <3>3
  <2>6. ASSUME NEW r \in Replicas, Restart(r)  PROVE SlotsOf!Leave(r)
    BY <2>3, <2>6 DEF Restart
  <2>7. \/ UNCHANGED active
        \/ \E q \in Requests : Admit(q) \/ Retired(q)
        \/ \E q \in Requests, r \in Replicas : Discard(q, r)
        \/ \E r \in Replicas : Restart(r)
    BY DEF Next, RouterStep, ReplicaStep, vars, Arrive, Store, Reserve, Wait,
           Refuse, Stream, Finish, Retire, Release, GiveUp, AdmissionFails,
           Generate, Hear, Produced, CloseRetires, Disable, Enable, Close
  <2> QED
    BY <2>1, <2>2, <2>4, <2>5, <2>6, <2>7 DEF SlotsOf!Next
<1>4. \/ \E q \in Requests : Release(q) \/ \E r \in Replicas : Reserve(q, r)
      \/ UNCHANGED <<leases, decision>>
  BY DEF Next, RouterStep, ReplicaStep, vars, Arrive, Store, Wait, Refuse,
         Stream, Finish, Retire, GiveUp, Admit, AdmissionFails, Generate,
         Retired, Hear, Produced, CloseRetires, Disable, Enable, Close, Restart
<1> QED
  BY <1>1, <1>2, <1>3, <1>4 DEF SlotsOf!Next

\* The routing actor with its replicas implements Slots: every request at a
\* replica holds one of its slots from before it is admitted until after it
\* has gone.
THEOREM SlotsCorrect == Spec => KeepsSlots
<1>1. Init => SlotsOf!Init
  BY InitHoldsNothing
<1>2. IInv /\ [Next]_vars => [SlotsOf!Next]_<<Held, active>>
  BY SlotStep
<1> QED
  BY <1>1, <1>2, RoutingInductive, PTL DEF Spec, KeepsSlots, SlotsOf!Spec, Held
=============================================================================
