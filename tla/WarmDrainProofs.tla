-------------------------- MODULE WarmDrainProofs --------------------------
(***************************************************************************)
(* Proofs about WarmDrain for any number of revisions, requests, cleanup   *)
(* tasks and cutovers.                                                     *)
(*                                                                         *)
(* A container is stopped only when its revision is reclaimable: retired,  *)
(* and drained or never served.  Retirement fences new traffic, so a       *)
(* reclaimable revision stays reclaimable; and a request that may still be *)
(* connected has a row, which a drained revision has not.                  *)
(***************************************************************************)
EXTENDS WarmDrain, FiniteSetTheorems, TLAPS

\* Nobody can be sent to this revision again and nobody is.
Reclaimable(r) == r \in retired /\ (r \in drained \/ r \notin served)

\* The requests inside the stream of the engine for one revision.
InsideOf(r) == {q \in Requests : request[q].pc \in Inside /\ request[q].rev = r}

\* The types of everything but the client pools, whose users need counting.
StoreTypes ==
  /\ route \in Revisions \cup {None}
  /\ cutovers \in 0 .. CutoverBound
  /\ served \subseteq Revisions
  /\ control \in [active : Revisions, good : Revisions, frozen : BOOLEAN]
                   \cup {NoControl}
  /\ base \in [Revisions -> Endpoints \cup {None, Released}]
  /\ retired \subseteq Revisions
  /\ drained \subseteq Revisions
  /\ rows \in [Requests -> Revisions \cup {None}]
  /\ request \in [Requests -> [pc : RequestPc, rev : Revisions \cup {None},
                               started : {0, 1}, closed : {0, 1}]]
  /\ runtime \in [Revisions -> {"off", "running", "stopped"}]
  /\ cleaner \in [Cleaners -> [pc : {"idle", "fenced", "stopped"},
                               rev : Revisions \cup {None}]]

\* A lease and its row name the same revision as long as the request lives or
\* its call may be connected; rows only pin revisions that were served.
Pinned(q) ==
  /\ request[q].pc = "new" =>
       rows[q] = None /\ request[q].started = 0 /\ request[q].closed = 0
  /\ request[q].pc = "collecting" => request[q].started = 1
  /\ request[q].pc \notin {"new", "gone"} \/ Connected(q) =>
       rows[q] = request[q].rev /\ rows[q] # None
  /\ rows[q] # None => rows[q] \in served

RowInv == \A q \in Requests : Pinned(q)

\* What has traffic, or may get it back, is registered, running and not retired.
UseInv ==
  /\ route # None => route \in served
  /\ route # None => base[route] # None
  /\ control # NoControl => route # None
  /\ \A r \in {route, control.active, control.good} \ {None} :
       r \in Revisions /\ r \notin retired /\ runtime[r] = "running"
  /\ \A r \in Revisions : base[r] # None => runtime[r] # "off"
  /\ \A r \in served : runtime[r] # "off"

\* Only reclaimable revisions are stopped, and drained ones have no rows.
ReclaimInv ==
  /\ drained \subseteq retired
  /\ \A r \in retired : runtime[r] # "off"
  /\ \A r \in drained, q \in Requests : rows[q] # r
  /\ \A r \in Revisions : runtime[r] = "stopped" => Reclaimable(r)
  /\ \A c \in Cleaners : cleaner[c].pc # "idle" =>
       /\ cleaner[c].rev \in Revisions
       /\ Reclaimable(cleaner[c].rev)

IInv == StoreTypes /\ RowInv /\ UseInv /\ ReclaimInv

-----------------------------------------------------------------------------
(* The gateway *)

\* A step of the gateway that deletes rows at most disturbs only its own part
\* of the invariant.
LEMMA GatewayStep ==
  ASSUME IInv, UNCHANGED <<release, reclaim, runtime, cleaner>>,
         StoreTypes', RowInv', \A q \in Requests : rows'[q] \in {rows[q], None}
  PROVE  IInv'
<1> USE DrainAssumption DEF IInv
<1>1. UseInv'
  BY DEF UseInv, release, reclaim
<1>2. ReclaimInv'
  <2>1. \A r \in Revisions : Reclaimable(r)' <=> Reclaimable(r)
    BY DEF Reclaimable, release, reclaim
  <2>2. \A r \in drained', q \in Requests : rows'[q] # r
    BY DEF ReclaimInv, StoreTypes, reclaim
  <2> QED
    BY <2>1, <2>2 DEF ReclaimInv, reclaim
<1> QED
  BY <1>1, <1>2

\* A step of one request that changes its place alone.
LEMMA StepTypes ==
  ASSUME StoreTypes, NEW q \in Requests, NEW pc \in RequestPc, Step(q, pc)
  PROVE  /\ \A p \in Requests : p # q => request'[p] = request[p]
         /\ request'[q].rev = request[q].rev
         /\ request'[q].pc = pc
         /\ request' \in [Requests ->
              [pc : RequestPc, rev : Revisions \cup {None}, started : {0, 1},
               closed : {0, 1}]]
BY DEF StoreTypes, Step

\* What a request does inside the gateway keeps its row until Finish.
LEMMA ServeStep ==
  ASSUME IInv, NEW q \in Requests, Serve(q)
  PROVE  IInv'
<1> USE DrainAssumption DEF IInv, Step, Inside, RequestPc
<1>0. UNCHANGED <<release, reclaim, runtime, cleaner>>
  BY DEF Serve, Enter, Reject, GetClient, Evict, EvictFails, Abandon,
         SendCall, Answer, CloseCall, Leave, Finish
<1>1. CASE rows' = rows
  <2>1. request[q].pc \notin {"new", "gone", "collecting"}
    BY DEF Serve, Enter, Reject, GetClient, Evict, EvictFails, Abandon,
           SendCall, Answer, CloseCall, Leave, Finish
  <2>2. /\ \A p \in Requests : p # q => request'[p] = request[p]
        /\ request'[q].rev = request[q].rev
        /\ request'[q].pc \notin {"new", "collecting"}
        /\ request' \in [Requests ->
             [pc : RequestPc, rev : Revisions \cup {None}, started : {0, 1},
              closed : {0, 1}]]
    <3>1. CASE \/ Enter(q) \/ Reject(q) \/ GetClient(q) \/ Evict(q)
               \/ EvictFails(q) \/ Abandon(q) \/ Answer(q) \/ Leave(q) \/ Finish(q)
               \/ SendCall(q) /\ request[q].rev \in shut
      <4>1. \E pc \in RequestPc \ {"new", "collecting"} :
              request' = [request EXCEPT ![q].pc = pc]
        BY <3>1 DEF Enter, Reject, GetClient, Evict, EvictFails, Abandon, Answer,
                    Leave, Finish, SendCall
      <4>2. PICK pc \in RequestPc \ {"new", "collecting"} : Step(q, pc)
        BY <4>1
      <4> HIDE DEF RequestPc, Inside, Step
      <4> QED
        BY <4>2, StepTypes
    <3>2. CASE SendCall(q) /\ request[q].rev \notin shut
      BY <3>2 DEF SendCall, Lease, StoreTypes
    <3>3. CASE CloseCall(q)  BY <3>3 DEF CloseCall, Lease, StoreTypes
    <3> QED
      BY <3>1, <3>2, <3>3 DEF Serve
  <2>4. StoreTypes'
    BY <1>0, <1>1, <2>2 DEF StoreTypes, release, reclaim
  <2>5. RowInv'
    <3> SUFFICES ASSUME NEW p \in Requests PROVE Pinned(p)'
      BY DEF RowInv
    <3>1. CASE p = q
      BY <1>0, <1>1, <2>1, <2>2, <3>1
         DEF RowInv, Pinned, Connected, VerifiedClosed, release
    <3>2. CASE p # q
      BY <1>0, <1>1, <2>2, <3>2
         DEF RowInv, Pinned, Connected, VerifiedClosed, release
    <3> QED
      BY <3>1, <3>2
  <2> QED
    BY <1>0, <1>1, <2>4, <2>5, GatewayStep
<1>2. CASE Finish(q) /\ rows' = [rows EXCEPT ![q] = None] /\ Deletable(q)
  <2>1. StoreTypes'
    BY SMTT(30), <1>0, <1>2 DEF Finish, StoreTypes, release, reclaim
  <2>2. RowInv'
    BY <1>0, <1>2 DEF Finish, StoreTypes, RowInv, Pinned, Connected,
                      VerifiedClosed, Deletable, release
  <2>3. \A p \in Requests : rows'[p] \in {rows[p], None}
    BY <1>2 DEF StoreTypes
  <2> QED
    BY <1>0, <2>1, <2>2, <2>3, GatewayStep
<1> QED
  BY <1>1, <1>2 DEF Serve, Enter, Reject, GetClient, Evict, EvictFails, Abandon,
                    SendCall, Answer, CloseCall, Leave, Finish

\* A collector that ends leaves its row or takes it along.
LEMMA ReturnStep ==
  ASSUME IInv, NEW q \in Requests, Return(q)
  PROVE  IInv'
<1> USE DrainAssumption DEF IInv, RequestPc, Inside, Lease
<1>1. UNCHANGED <<release, reclaim, runtime, cleaner>>
  BY DEF Return
<1>2. StoreTypes'
  BY SMTT(30), <1>1 DEF Return, StoreTypes, release, reclaim
<1>3. RowInv'
  BY <1>1 DEF Return, StoreTypes, RowInv, Pinned, Connected, VerifiedClosed,
              release
<1>4. \A p \in Requests : rows'[p] \in {rows[p], None}
  BY DEF Return, StoreTypes
<1> QED
  BY <1>1, <1>2, <1>3, <1>4, GatewayStep

\* A dead gateway leaves every row where it is.
LEMMA CrashStep ==
  ASSUME IInv, CrashGateway
  PROVE  IInv'
<1> USE DrainAssumption DEF IInv, RequestPc, Inside
<1>1. UNCHANGED <<release, reclaim, runtime, cleaner, rows>>
  BY DEF CrashGateway
<1>2. \A q \in Requests :
        /\ request'[q].rev = request[q].rev
        /\ request'[q].started = request[q].started
        /\ request'[q].closed = request[q].closed
        /\ request'[q].pc \in {"new", "collecting"} =>
             request'[q].pc = request[q].pc
        /\ request'[q].pc \in {"new", "collecting", "gone"}
  BY DEF CrashGateway, StoreTypes
<1>3. StoreTypes'
  <2>1. request' \in [Requests -> [pc : RequestPc, rev : Revisions \cup {None},
                                  started : {0, 1}, closed : {0, 1}]]
    <3>1. "gone" \in RequestPc
      OBVIOUS
    <3>2. \A q \in Requests :
            request'[q] \in {request[q], [request[q] EXCEPT !.pc = "gone"]}
      BY DEF CrashGateway
    <3>3. request' = [q \in Requests |-> request'[q]]
      BY DEF CrashGateway
    <3> HIDE DEF RequestPc, Inside
    <3>4. \A q \in Requests :
            request'[q] \in [pc : RequestPc, rev : Revisions \cup {None},
                            started : {0, 1}, closed : {0, 1}]
      BY <3>1, <3>2 DEF StoreTypes
    <3> QED
      BY <3>3, <3>4
  <2> QED
    BY <1>1, <2>1 DEF StoreTypes, release, reclaim
<1>4. RowInv'
  <2> SUFFICES ASSUME NEW q \in Requests PROVE Pinned(q)'
    BY DEF RowInv
  <2> QED
    BY <1>1, <1>2 DEF RowInv, Pinned, Connected, VerifiedClosed, release
<1> QED
  BY <1>1, <1>3, <1>4, GatewayStep

\* A row is inserted for the current route alone, which is not drained.
LEMMA InsertStep ==
  ASSUME IInv, NEW q \in Requests, Admit(q) \/ Borrow(q)
  PROVE  IInv'
<1> USE DrainAssumption DEF IInv, RequestPc, Inside, Lease
<1>1. /\ UNCHANGED <<release, reclaim, runtime, cleaner>>
      /\ route # None
      /\ rows' = [rows EXCEPT ![q] = route]
  BY DEF Admit, Borrow, Insert
<1>2. StoreTypes'
  BY <1>1 DEF Admit, Borrow, StoreTypes, release, reclaim
<1>3. RowInv'
  BY <1>1 DEF Admit, Borrow, StoreTypes, RowInv, Pinned, Connected,
              VerifiedClosed, release, UseInv
<1>4. UseInv'
  BY <1>1 DEF UseInv, release, reclaim
<1>5. ReclaimInv'
  <2>1. \A r \in Revisions : Reclaimable(r)' <=> Reclaimable(r)
    BY <1>1 DEF Reclaimable, release, reclaim
  <2>2. \A r \in drained', p \in Requests : rows'[p] # r
    BY <1>1 DEF ReclaimInv, StoreTypes, reclaim, UseInv
  <2> QED
    BY <1>1, <2>1, <2>2 DEF ReclaimInv, reclaim
<1> QED
  BY <1>2, <1>3, <1>4, <1>5

-----------------------------------------------------------------------------
(* Releases and cleanup.  Neither touches a row or a request. *)

\* A step that keeps rows and requests and only adds to served keeps RowInv.
LEMMA RowsKept ==
  ASSUME RowInv, UNCHANGED <<rows, request>>, served \subseteq served'
  PROVE  RowInv'
BY DEF RowInv, Pinned, Connected, VerifiedClosed

\* A release step never touches a reclaimable revision.
LEMMA ReleaseKeeps ==
  ASSUME IInv, ReleaseStep
  PROVE  IInv'
<1> USE DrainAssumption DEF IInv
<1>1. ASSUME NEW r \in Revisions, Launch(r) PROVE IInv'
  <2>1. StoreTypes'
    BY <1>1 DEF Launch, StoreTypes, release, reclaim, gateway
  <2>2. RowInv'
    BY <1>1, RowsKept DEF Launch, release, gateway
  <2>3. UseInv'
    BY <1>1 DEF Launch, UseInv, StoreTypes, release, reclaim
  <2>4. ReclaimInv'
    BY <1>1 DEF Launch, ReclaimInv, Reclaimable, StoreTypes, release, reclaim
  <2> QED
    BY <2>1, <2>2, <2>3, <2>4
<1>2. ASSUME NEW r \in Revisions, Register(r) PROVE IInv'
  <2>1. StoreTypes'
    BY <1>2 DEF Register, StoreTypes, release, gateway
  <2>2. RowInv'
    BY <1>2, RowsKept DEF Register, release, gateway
  <2>3. UseInv'
    BY <1>2 DEF Register, UseInv, StoreTypes, release
  <2>4. ReclaimInv'
    BY <1>2 DEF Register, ReclaimInv, Reclaimable, release
  <2> QED
    BY <2>1, <2>2, <2>3, <2>4
<1>3. ASSUME NEW r \in Revisions, Bootstrap(r) \/ Cutover(r) PROVE IInv'
  <2>1. /\ route' = r
        /\ served' = served \cup {r}
        /\ base[r] # None
        /\ r \notin retired
        /\ UNCHANGED <<control, reclaim, rows, gateway, runtime, cleaner>>
    BY <1>3 DEF Bootstrap, Cutover, Available
  <2>2. cutovers' \in 0 .. CutoverBound
    BY <1>3 DEF Bootstrap, Cutover, StoreTypes
  <2>3. runtime[r] = "running"
    BY <2>1 DEF UseInv, ReclaimInv, Reclaimable, StoreTypes
  <2>4. StoreTypes'
    BY <2>1, <2>2 DEF StoreTypes, reclaim, gateway
  <2>5. RowInv'
    BY <2>1, RowsKept DEF gateway
  <2>6. UseInv'
    BY <2>1, <2>3 DEF UseInv, reclaim
  <2>7. ReclaimInv'
    BY <2>1 DEF ReclaimInv, Reclaimable, reclaim
  <2> QED
    BY <2>4, <2>5, <2>6, <2>7
<1>4. ASSUME Acknowledge PROVE IInv'
  <2>1. /\ UNCHANGED <<route, cutovers, served, reclaim, rows, gateway,
                       runtime, cleaner>>
        /\ route # None
        /\ {control'.active, control'.good} \subseteq
             {route, control.active, control.good} \ {None}
        /\ control' \in [active : Revisions, good : Revisions,
                          frozen : BOOLEAN]
    <3>1. route \in Revisions
      BY <1>4 DEF Acknowledge, StoreTypes
    <3>2. control # NoControl => control \in [active : Revisions,
                                    good : Revisions, frozen : BOOLEAN]
      BY DEF StoreTypes
    <3>3. ~NoControl.frozen
      BY DEF NoControl
    <3>4. CASE control = NoControl
      <4>1. control' = [active |-> route, good |-> route, frozen |-> FALSE]
        BY <1>4, <3>3, <3>4 DEF Acknowledge
      <4> QED
        BY <1>4, <3>1, <4>1 DEF Acknowledge
    <3>5. CASE control # NoControl /\ ~control.frozen
      <4>1. PICK s \in {[control EXCEPT !.active = route],
                        [control EXCEPT !.good = control.active],
                        [control EXCEPT !.frozen = TRUE]} : control' = s
        BY <1>4, <3>5 DEF Acknowledge
      <4>2. control' \in [active : Revisions, good : Revisions,
                          frozen : BOOLEAN]
        BY <3>1, <3>2, <3>5, <4>1
      <4>3. {control'.active, control'.good} \subseteq
              {route, control.active, control.good}
        BY <3>2, <3>5, <4>1
      <4> QED
        BY <1>4, <4>2, <4>3 DEF Acknowledge
    <3>6. CASE control # NoControl /\ control.frozen
      <4>1. control' = [active |-> control.good, good |-> control.good,
                        frozen |-> FALSE]
        BY <1>4, <3>6 DEF Acknowledge
      <4> QED
        BY <1>4, <3>2, <3>6, <4>1 DEF Acknowledge
    <3> QED
      BY <3>4, <3>5, <3>6
  <2>2. StoreTypes'
    BY <2>1 DEF StoreTypes, reclaim, gateway
  <2>3. RowInv'
    BY <2>1, RowsKept DEF gateway
  <2>4. UseInv'
    BY <2>1 DEF UseInv, reclaim
  <2>5. ReclaimInv'
    BY <2>1 DEF ReclaimInv, Reclaimable, reclaim
  <2> QED
    BY <2>2, <2>3, <2>4, <2>5
<1> QED
  BY <1>1, <1>2, <1>3, <1>4 DEF ReleaseStep

\* Cleanup retires and stops only what nobody uses.
LEMMA CleanupKeeps ==
  ASSUME IInv, NEW c \in Cleaners, CleanupStep(c)
  PROVE  IInv'
<1> USE DrainAssumption DEF IInv
<1>1. UNCHANGED <<release, rows, gateway>>
  BY DEF CleanupStep, RetireUnserved, RetireDrained, StopRuntime,
         ReleaseEndpoint, CrashCleaner, reclaim
<1>2. RowInv'
  BY <1>1, RowsKept DEF release, gateway
<1>3. ASSUME NEW r \in Revisions, RetireUnserved(c, r) PROVE IInv'
  <2>1. StoreTypes'
    BY <1>3 DEF RetireUnserved, CleanerAt, StoreTypes, release, gateway
  <2>2. r # route
    BY <1>3 DEF RetireUnserved, UseInv
  <2>3. UseInv'
    BY <1>3, <2>2 DEF RetireUnserved, Uncontrolled, UseInv, StoreTypes, release
  <2>4. ReclaimInv'
    BY <1>3 DEF RetireUnserved, CleanerAt, ReclaimInv, Reclaimable, StoreTypes,
                release
  <2> QED
    BY <1>2, <2>1, <2>3, <2>4
<1>4. ASSUME NEW r \in Revisions, RetireDrained(c, r) PROVE IInv'
  <2>1. StoreTypes'
    BY <1>4 DEF RetireDrained, CleanerAt, StoreTypes, release, gateway
  <2>2. UseInv'
    BY <1>4 DEF RetireDrained, Uncontrolled, UseInv, release
  <2>3. CASE Unpinned(r)
    <3>1. ReclaimInv'
      BY <1>4, <2>3 DEF RetireDrained, CleanerAt, Unpinned, ReclaimInv,
                        Reclaimable, StoreTypes, release
    <3> QED
      BY <1>2, <2>1, <2>2, <3>1
  <2>4. CASE ~Unpinned(r)
    <3>1. ReclaimInv'
      BY <1>4, <2>4 DEF RetireDrained, ReclaimInv, Reclaimable, release
    <3> QED
      BY <1>2, <2>1, <2>2, <3>1
  <2> QED
    BY <2>3, <2>4
<1>5. ASSUME StopRuntime(c) PROVE IInv'
  <2> DEFINE r == cleaner[c].rev
  <2>1. r \in Revisions /\ Reclaimable(r)
    BY <1>5 DEF StopRuntime, ReclaimInv
  <2>2. StoreTypes'
    BY <1>5, <2>1 DEF StopRuntime, CleanerAt, StoreTypes, release, reclaim,
                      gateway
  <2>3. UseInv'
    BY <1>5, <2>1 DEF StopRuntime, UseInv, StoreTypes, Reclaimable, release,
                      reclaim
  <2>4. ReclaimInv'
    BY <1>5, <2>1 DEF StopRuntime, CleanerAt, ReclaimInv, Reclaimable,
                      StoreTypes, release, reclaim
  <2> QED
    BY <1>2, <2>2, <2>3, <2>4
<1>6. ASSUME ReleaseEndpoint(c) PROVE IInv'
  <2>1. StoreTypes'
    BY <1>6 DEF ReleaseEndpoint, Idle, StoreTypes, release, gateway
  <2>2. cleaner[c].rev \in Revisions /\ Reclaimable(cleaner[c].rev)
    BY <1>6 DEF ReleaseEndpoint, ReclaimInv
  <2>3. UseInv'
    BY <1>6, <2>2 DEF ReleaseEndpoint, UseInv, ReclaimInv, StoreTypes,
                      Reclaimable, release
  <2>4. ReclaimInv'
    BY <1>6 DEF ReleaseEndpoint, Idle, ReclaimInv, Reclaimable, StoreTypes,
                release
  <2> QED
    BY <1>2, <2>1, <2>3, <2>4
<1>7. ASSUME CrashCleaner(c) PROVE IInv'
  <2>1. StoreTypes'
    BY <1>7 DEF CrashCleaner, Idle, StoreTypes, release, reclaim, gateway
  <2>2. UseInv'
    BY <1>7 DEF CrashCleaner, UseInv, release, reclaim
  <2>3. ReclaimInv'
    BY <1>7 DEF CrashCleaner, Idle, ReclaimInv, Reclaimable, StoreTypes,
                release, reclaim
  <2> QED
    BY <1>2, <2>1, <2>2, <2>3
<1> QED
  BY <1>3, <1>4, <1>5, <1>6, <1>7 DEF CleanupStep

-----------------------------------------------------------------------------
(* Theorems *)

\* Nothing is registered, admitted or running at the start.
LEMMA InitInv == Init => IInv
BY DrainAssumption
   DEF Init, IInv, StoreTypes, RowInv, Pinned, Connected, VerifiedClosed, UseInv,
       ReclaimInv, Reclaimable, NoControl, New, Lease, Idle, RequestPc

\* Every step of releases, requests and cleanups keeps the invariant.
LEMMA StepInv == IInv /\ [Next]_vars => IInv'
<1> SUFFICES ASSUME IInv, [Next]_vars PROVE IInv'
  OBVIOUS
<1>1. CASE ReleaseStep
  BY <1>1, ReleaseKeeps
<1>2. ASSUME NEW q \in Requests, RequestStep(q) PROVE IInv'
  BY <1>2, InsertStep, ServeStep, ReturnStep DEF RequestStep
<1>3. CASE CrashGateway
  BY <1>3, CrashStep
<1>4. ASSUME NEW c \in Cleaners, CleanupStep(c) PROVE IInv'
  BY <1>4, CleanupKeeps
<1>5. CASE UNCHANGED vars
  BY <1>5 DEF vars, release, reclaim, gateway, IInv, StoreTypes, RowInv, Pinned,
              Connected, VerifiedClosed, UseInv, ReclaimInv, Reclaimable
<1> QED
  BY <1>1, <1>2, <1>3, <1>4, <1>5 DEF Next

\* The inductive invariant holds in every reachable state.
THEOREM DrainInductive == Spec => []IInv
BY InitInv, StepInv, PTL DEF Spec

\* No runtime is stopped under a call that nobody has seen closed: such a call
\* has a row, a revision with a row is neither drained nor unserved.
THEOREM ConnectionCorrect == Spec => []ConnectedRuns
<1>1. IInv => ConnectedRuns
  <2> SUFFICES ASSUME IInv, NEW q \in Requests, Connected(q)
               PROVE  runtime[request[q].rev] = "running"
    BY DEF ConnectedRuns
  <2> DEFINE r == request[q].rev
  <2>1. rows[q] = r /\ r \in served
    BY DEF IInv, RowInv, Pinned
  <2>2. r \in Revisions /\ runtime[r] \in {"off", "running", "stopped"}
    BY <2>1 DEF IInv, StoreTypes
  <2>3. runtime[r] # "off"
    BY <2>1 DEF IInv, UseInv
  <2>4. runtime[r] # "stopped"
    BY <2>1, <2>2 DEF IInv, ReclaimInv, Reclaimable
  <2> QED
    BY <2>2, <2>3, <2>4
<1> QED
  BY <1>1, DrainInductive, PTL

\* Traffic, the active revision and the rollback target run.
THEOREM UseCorrect == Spec => []InUseRuns
<1>1. IInv => InUseRuns
  BY DEF IInv, UseInv, InUseRuns
<1> QED
  BY <1>1, DrainInductive, PTL

\* A drain receipt stays true.
THEOREM DrainCorrect == Spec => []DrainIsFinal
<1>1. IInv => DrainIsFinal
  <2> SUFFICES ASSUME IInv, NEW r \in drained
               PROVE  /\ \A q \in Requests : rows[q] # r
                      /\ r \notin {route, control.active, control.good}
    BY DEF DrainIsFinal
  <2>1. r \in Revisions /\ r \in retired
    BY DEF IInv, StoreTypes, ReclaimInv
  <2>2. r # None
    BY <2>1, DrainAssumption
  <2> QED
    BY <2>1, <2>2 DEF IInv, UseInv, ReclaimInv
<1> QED
  BY <1>1, DrainInductive, PTL

-----------------------------------------------------------------------------
(* What a retirement leaves to be done *)

\* A retired revision is registered, a running one under its own endpoint, and
\* an endpoint is given free only after its container was stopped.
EndpointInv ==
  /\ \A r \in retired : base[r] # None
  /\ \A r \in Revisions :
       runtime[r] = "running" /\ base[r] # None => base[r] = EndpointOf[r]
  /\ \A c \in Cleaners :
       cleaner[c].pc = "stopped" => runtime[cleaner[c].rev] = "stopped"

\* Registration, retirement, stop and release keep the order of their steps.
LEMMA EndpointStep == IInv /\ EndpointInv /\ [Next]_vars => EndpointInv'
<1> SUFFICES ASSUME IInv, EndpointInv, [Next]_vars PROVE EndpointInv'
  OBVIOUS
<1> USE DrainAssumption
<1>1. CASE UNCHANGED <<base, retired, runtime, cleaner>>
  BY <1>1 DEF EndpointInv
<1>2. ASSUME NEW r \in Revisions, Launch(r) PROVE EndpointInv'
  BY <1>2 DEF Launch, EndpointInv, IInv, StoreTypes, UseInv, ReclaimInv, reclaim
<1>3. ASSUME NEW r \in Revisions, Register(r) PROVE EndpointInv'
  BY <1>3 DEF Register, EndpointInv, IInv, StoreTypes
<1>4. ASSUME NEW c \in Cleaners, NEW r \in Revisions, RetireUnserved(c, r)
      PROVE  EndpointInv'
  BY <1>4 DEF RetireUnserved, CleanerAt, EndpointInv, IInv, StoreTypes
<1>5. ASSUME NEW c \in Cleaners, NEW r \in Revisions, RetireDrained(c, r)
      PROVE  EndpointInv'
  BY <1>5 DEF RetireDrained, CleanerAt, EndpointInv, IInv, StoreTypes
<1>6. ASSUME NEW c \in Cleaners, StopRuntime(c) PROVE EndpointInv'
  <2>1. cleaner[c].rev \in Revisions
    BY <1>6 DEF StopRuntime, IInv, ReclaimInv
  <2> QED
    BY <1>6, <2>1 DEF StopRuntime, CleanerAt, EndpointInv, IInv, StoreTypes, reclaim
<1>7. ASSUME NEW c \in Cleaners, ReleaseEndpoint(c) PROVE EndpointInv'
  <2>1. cleaner[c].rev \in Revisions /\ runtime[cleaner[c].rev] = "stopped"
    BY <1>7 DEF ReleaseEndpoint, EndpointInv, IInv, ReclaimInv
  <2> QED
    BY <1>7, <2>1 DEF ReleaseEndpoint, Idle, EndpointInv, IInv, StoreTypes
<1>8. ASSUME NEW c \in Cleaners, CrashCleaner(c) PROVE EndpointInv'
  BY <1>8 DEF CrashCleaner, Idle, EndpointInv, IInv, StoreTypes, reclaim
<1>9. CASE UNCHANGED vars
  BY <1>1, <1>9 DEF vars, reclaim
<1>10. ASSUME NEW r \in Revisions, Bootstrap(r) \/ Cutover(r) PROVE EndpointInv'
  BY <1>1, <1>10 DEF Bootstrap, Cutover, reclaim
<1>11. CASE Acknowledge \/ CrashGateway
  BY <1>1, <1>11 DEF Acknowledge, CrashGateway, reclaim
<1>12. ASSUME NEW q \in Requests, RequestStep(q) PROVE EndpointInv'
  BY <1>1, <1>12
     DEF RequestStep, Serve, Admit, Borrow, Return, Enter, Reject, GetClient,
         Evict, EvictFails, Abandon, SendCall, Answer, CloseCall, Leave, Finish,
         reclaim
<1> QED
  BY <1>2, <1>3, <1>4, <1>5, <1>6, <1>7, <1>8, <1>9, <1>10, <1>11, <1>12
     DEF Next, ReleaseStep, CleanupStep

\* Whatever was retired can be stopped and released by a later cleanup as soon
\* as no row pins it: retire_drained and retire_unserved never refuse it again.
THEOREM ReclaimableCorrect == Spec => []RetiredStaysReclaimable
<1>1. Init => EndpointInv
  BY DEF Init, EndpointInv, Idle
<1>2. IInv /\ EndpointInv => RetiredStaysReclaimable
  <2> SUFFICES ASSUME IInv, EndpointInv, NEW r \in retired
               PROVE  /\ r \notin {route, control.active, control.good}
                      /\ base[r] # None
                      /\ runtime[r] = "running" => base[r] = EndpointOf[r]
    BY DEF RetiredStaysReclaimable
  <2>1. r \in Revisions /\ r # None
    BY DrainAssumption DEF IInv, StoreTypes
  <2> QED
    BY <2>1 DEF IInv, UseInv, EndpointInv
<1> QED
  BY <1>1, <1>2, InitInv, StepInv, EndpointStep, PTL DEF Spec

-----------------------------------------------------------------------------
(* The client pools *)

PoolTypes ==
  /\ clients \subseteq Revisions
  /\ shut \subseteq clients
  /\ closing \in Revisions \cup {None}

\* A pool that was handed out stays in the cache and is not the one that is
\* being closed, and a call was only sent on one that is open.
HandedOut ==
  \A q \in Requests :
    /\ request[q].pc \in {"ready", "sent", "open"} =>
         request[q].rev \in clients /\ request[q].rev # closing
    /\ request[q].pc \in {"sent", "open"} => request[q].rev \notin shut

\* A pool counts at least the requests that are inside the engine for it (an
\* unresolved close is counted for ever), so at zero it is in nobody's hands.
PoolInv ==
  /\ users \in [Revisions -> Nat]
  /\ \A r \in Revisions : Cardinality(InsideOf(r)) <= users[r]
  /\ PoolTypes
  /\ HandedOut

\* The requests inside are finitely many.
LEMMA InsideFinite ==
  \A r \in Revisions : /\ IsFiniteSet(InsideOf(r))
                       /\ Cardinality(InsideOf(r)) \in Nat
<1> TAKE r \in Revisions
<1>1. InsideOf(r) \subseteq Requests
  BY DEF InsideOf
<1> QED
  BY <1>1, DrainAssumption, FS_Subset, FS_CardinalityType

\* A step that neither enters nor leaves the engine, and keeps the pools of the
\* requests inside.
LEMMA PoolKept ==
  ASSUME PoolInv, users' = users,
         \A r \in Revisions : InsideOf(r)' = InsideOf(r),
         PoolTypes', HandedOut'
  PROVE  PoolInv'
BY DEF PoolInv

\* Every step of a request keeps the pools of all requests inside.
LEMMA PoolServe ==
  ASSUME IInv, IInv', PoolInv, NEW q \in Requests, RequestStep(q)
  PROVE  PoolInv'
<1> USE DEF Inside, RequestPc
<1>0. request \in [Requests -> [pc : RequestPc, rev : Revisions \cup {None},
                               started : {0, 1}, closed : {0, 1}]]
  BY DEF IInv, StoreTypes
<1>1. CASE Enter(q)
  <2>1. PICK s \in Revisions : s = request[q].rev
    BY <1>1 DEF Enter, IInv, StoreTypes, RowInv, Pinned
  <2>2. InsideOf(s)' = InsideOf(s) \cup {q} /\ q \notin InsideOf(s)
    BY <1>0, <2>1, <1>1 DEF Enter, Step, InsideOf
  <2>3. \A r \in Revisions \ {s} : InsideOf(r)' = InsideOf(r)
    BY <1>0, <2>1, <1>1 DEF Enter, Step, InsideOf
  <2>4. Cardinality(InsideOf(s)') = Cardinality(InsideOf(s)) + 1
    <3>1. IsFiniteSet(InsideOf(s))
      BY <2>1, InsideFinite
    <3> QED
      BY <2>2, <3>1, FS_AddElement
  <2>5. users' = [users EXCEPT ![s] = @ + 1]
    BY <2>1, <1>1 DEF Enter
  <2>6. PoolTypes' /\ HandedOut'
    BY <1>0, <2>1, <1>1 DEF Enter, Step, PoolInv, PoolTypes, HandedOut, pools
  <2>7. \A r \in Revisions : Cardinality(InsideOf(r)') <= users'[r]
    BY <2>1, <2>3, <2>4, <2>5, InsideFinite DEF PoolInv
  <2> QED
    BY <2>1, <2>5, <2>6, <2>7 DEF PoolInv
<1>2. CASE Leave(q)
  <2>1. PICK s \in Revisions : s = request[q].rev
    BY <1>2 DEF Leave, IInv, StoreTypes, RowInv, Pinned
  <2>2. InsideOf(s)' = InsideOf(s) \ {q} /\ q \in InsideOf(s)
    BY <1>0, <2>1, <1>2 DEF Leave, Step, InsideOf
  <2>3. \A r \in Revisions \ {s} : InsideOf(r)' = InsideOf(r)
    BY <1>0, <2>1, <1>2 DEF Leave, Step, InsideOf
  <2>4. Cardinality(InsideOf(s)') = Cardinality(InsideOf(s)) - 1
    <3>1. IsFiniteSet(InsideOf(s))
      BY <2>1, InsideFinite
    <3> QED
      BY <2>2, <3>1, FS_RemoveElement
  <2>5. \/ users' = users
        \/ users' = [users EXCEPT ![s] = @ - 1]
    BY <2>1, <1>2 DEF Leave, PoolInv
  <2>6. PoolTypes' /\ HandedOut'
    BY <1>0, <2>1, <1>2 DEF Leave, Step, PoolInv, PoolTypes, HandedOut, pools
  <2>7. users[s] - 1 \in Nat
    <3>1. Cardinality(InsideOf(s)') \in Nat
      BY <2>1, <2>2, InsideFinite, FS_RemoveElement, FS_CardinalityType
    <3> QED
      BY <2>1, <2>4, <3>1, InsideFinite DEF PoolInv
  <2>8. users' \in [Revisions -> Nat]
    BY <2>1, <2>5, <2>7 DEF PoolInv
  <2>9. \A r \in Revisions : Cardinality(InsideOf(r)') <= users'[r]
    BY <2>1, <2>3, <2>4, <2>5, <2>7, InsideFinite DEF PoolInv
  <2> QED
    BY <2>6, <2>8, <2>9 DEF PoolInv
<1>3. CASE GetClient(q)
  <2>1. \A r \in Revisions : InsideOf(r)' = InsideOf(r)
    BY <1>0, <1>3 DEF GetClient, Step, InsideOf
  <2>2. \A s \in Revisions : Evictable(s) => InsideOf(s) = {}
    BY InsideFinite, FS_EmptySet DEF Evictable, PoolInv
  <2>3. request[q].rev \in Revisions /\ closing = None
    BY <1>3 DEF GetClient, IInv, StoreTypes, RowInv, Pinned
  <2>4. PoolTypes'
    BY <1>3, <2>3 DEF GetClient, PoolInv, PoolTypes, Evictable, pools
  <2>5. \A p \in Requests : p # q => request'[p] = request[p]
    BY <1>0, <1>3 DEF GetClient, Step
  <2>6. CASE \E s \in Revisions : /\ Evictable(s)
                                  /\ shut' = shut \cup {s}
                                  /\ closing' = s
                                  /\ clients' = clients
                                  /\ request'[q].pc = "evicting"
    <3>1. PICK s \in Revisions : /\ Evictable(s)
                                 /\ shut' = shut \cup {s}
                                 /\ closing' = s
                                 /\ clients' = clients
                                 /\ request'[q].pc = "evicting"
      BY <2>6
    <3>2. \A p \in Requests :
            request[p].pc \in {"ready", "sent", "open"} => request[p].rev # s
      BY <2>2, <3>1 DEF InsideOf
    <3> QED
      BY <2>1, <2>4, <2>5, <3>1, <3>2, <1>3, PoolKept
         DEF GetClient, PoolInv, HandedOut
  <2>7. CASE /\ request[q].rev \in clients'
             /\ clients \subseteq clients'
             /\ UNCHANGED <<shut, closing>>
             /\ request'[q].pc = "ready"
             /\ request'[q].rev = request[q].rev
    <3>1. HandedOut'
      BY <2>3, <2>5, <2>7, DrainAssumption DEF PoolInv, HandedOut
    <3> QED
      BY <1>3, <2>1, <2>4, <3>1, PoolKept DEF GetClient
  <2> QED
    BY <1>0, <1>3, <2>6, <2>7 DEF GetClient, Step, pools
<1>4. CASE SendCall(q) \/ Answer(q) \/ CloseCall(q) \/ Abandon(q)
  <2>1. /\ UNCHANGED <<pools, users>>
        /\ \A p \in Requests : p # q => request'[p] = request[p]
        /\ request'[q].rev = request[q].rev
        /\ request[q].pc \in Inside
        /\ request'[q].pc \in {"sent", "open", "unwinding"}
        /\ request'[q].pc \in {"sent", "open"} =>
             \/ request[q].pc = "sent"
             \/ request[q].pc = "ready" /\ request[q].rev \notin shut
    BY <1>0, <1>4 DEF SendCall, Answer, CloseCall, Abandon, Step, Lease
  <2>2. \A r \in Revisions : InsideOf(r)' = InsideOf(r)
    BY <2>1 DEF InsideOf
  <2>3. PoolTypes' /\ HandedOut'
    BY <2>1 DEF PoolInv, PoolTypes, HandedOut, pools
  <2> QED
    BY <2>1, <2>2, <2>3, PoolKept
<1>5. CASE Admit(q) \/ Reject(q) \/ Finish(q) \/ Borrow(q) \/ Return(q)
  <2>1. /\ UNCHANGED <<pools, users>>
        /\ \A p \in Requests : p # q => request'[p] = request[p]
        /\ request[q].pc \notin Inside
        /\ request'[q].pc \notin Inside
    BY <1>0, <1>5 DEF Admit, Reject, Finish, Borrow, Return, Step, Lease
  <2>2. \A r \in Revisions : InsideOf(r)' = InsideOf(r)
    BY <2>1 DEF InsideOf
  <2>3. PoolTypes' /\ HandedOut'
    BY <2>1 DEF PoolInv, PoolTypes, HandedOut, pools
  <2> QED
    BY <2>1, <2>2, <2>3, PoolKept
<1>6. CASE Evict(q) \/ EvictFails(q)
  <2>1. /\ users' = users
        /\ \A p \in Requests : p # q => request'[p] = request[p]
        /\ request'[q].rev = request[q].rev
        /\ request[q].pc = "evicting"
        /\ request'[q].pc \in {"ready", "unwinding"}
        /\ request'[q].pc = "ready" => request[q].rev \in clients'
        /\ closing' = None
        /\ clients \ {closing} \subseteq clients'
        /\ shut' \subseteq shut
    BY <1>0, <1>6 DEF Evict, EvictFails, Step
  <2>2. \A r \in Revisions : InsideOf(r)' = InsideOf(r)
    BY <2>1 DEF InsideOf
  <2>3. request[q].rev \in Revisions
    BY <2>1 DEF IInv, StoreTypes, RowInv, Pinned
  <2>4. PoolTypes'
    BY <1>6, <2>1, <2>3 DEF Evict, EvictFails, PoolInv, PoolTypes
  <2>5. HandedOut'
    BY <2>1, <2>4, DrainAssumption DEF PoolInv, PoolTypes, HandedOut
  <2> QED
    BY <2>1, <2>2, <2>4, <2>5, PoolKept
<1> QED
  BY <1>1, <1>2, <1>3, <1>4, <1>5, <1>6 DEF RequestStep, Serve

\* All steps of the system keep the pools.
LEMMA PoolStep == IInv /\ IInv' /\ PoolInv /\ [Next]_vars => PoolInv'
<1> SUFFICES ASSUME IInv, IInv', PoolInv, [Next]_vars PROVE PoolInv'
  OBVIOUS
<1>1. CASE CrashGateway
  <2>1. \A q \in Requests : request'[q].pc \in {"new", "collecting", "gone"}
    BY <1>1 DEF CrashGateway, IInv, StoreTypes, RequestPc, Inside
  <2>2. \A r \in Revisions : InsideOf(r)' = {}
    BY <2>1 DEF InsideOf, Inside
  <2>3. users' = [r \in Revisions |-> 0]
    BY <1>1 DEF CrashGateway
  <2>4. PoolTypes' /\ HandedOut'
    BY <1>1, <2>1 DEF CrashGateway, PoolTypes, HandedOut
  <2> QED
    BY <2>2, <2>3, <2>4, FS_EmptySet DEF PoolInv
<1>2. CASE UNCHANGED gateway
  <2>1. \A r \in Revisions : InsideOf(r)' = InsideOf(r)
    BY <1>2 DEF InsideOf, gateway
  <2>2. PoolTypes' /\ HandedOut'
    BY <1>2 DEF PoolInv, PoolTypes, HandedOut, gateway, pools
  <2> QED
    BY <1>2, <2>1, <2>2, PoolKept DEF gateway
<1>3. ASSUME NEW q \in Requests, RequestStep(q) PROVE PoolInv'
  BY <1>3, PoolServe
<1>4. ReleaseStep => UNCHANGED gateway
  BY DEF ReleaseStep, Launch, Register, Bootstrap, Cutover, Acknowledge
<1>5. ASSUME NEW c \in Cleaners, CleanupStep(c) PROVE UNCHANGED gateway
  BY <1>5 DEF CleanupStep, RetireUnserved, RetireDrained, StopRuntime,
              ReleaseEndpoint, CrashCleaner
<1>6. UNCHANGED vars => UNCHANGED gateway
  BY DEF vars, gateway
<1> QED
  BY <1>1, <1>2, <1>3, <1>4, <1>5, <1>6 DEF Next

\* Nothing is mistyped and a call runs on an open pool, even though a close that
\* failed leaves a closed pool in the cache: the count of its users never falls
\* below the streams inside, so it never falls below zero and a close that begins
\* at zero finds nobody, and no call starts on a pool whose close has begun.
THEOREM PoolCorrect == Spec => [](TypeOK /\ PoolStaysOpen)
<1>1. Init => PoolInv
  <2> SUFFICES ASSUME Init PROVE PoolInv
    OBVIOUS
  <2>1. \A r \in Revisions : InsideOf(r) = {}
    BY DEF Init, InsideOf, New, Lease, Inside
  <2>2. PoolTypes /\ HandedOut
    BY DEF Init, PoolTypes, HandedOut, New, Lease
  <2> QED
    BY <2>1, <2>2, FS_EmptySet DEF Init, PoolInv
<1>2. IInv /\ PoolInv => TypeOK /\ PoolStaysOpen
  BY DEF IInv, StoreTypes, PoolInv, PoolTypes, HandedOut, TypeOK, PoolStaysOpen
<1> QED
  BY <1>1, <1>2, InitInv, StepInv, PoolStep, PTL DEF Spec

-----------------------------------------------------------------------------
(* Implementation of Retirement *)

Calls == {q \in Requests : Connected(q)}
loans == <<runtime, retired, rows, Calls>>

\* Launch starts a container, StopRuntime ends one that nobody can borrow or has
\* borrowed; registration, routes and the controller are not seen.
LEMMA OwnerLoans ==
  ASSUME IInv, ReleaseStep \/ \E c \in Cleaners : CleanupStep(c)
  PROVE  [Lending!Next]_loans
<1>1. rows' = rows /\ Calls' = Calls
  BY DEF ReleaseStep, Launch, Register, Bootstrap, Cutover, Acknowledge, CleanupStep,
     RetireUnserved, RetireDrained, StopRuntime, ReleaseEndpoint, CrashCleaner, gateway,
     Calls, Connected, VerifiedClosed
<1>2. ASSUME NEW r \in Revisions, Launch(r) PROVE Lending!Start(r)
  BY <1>1, <1>2 DEF Launch, reclaim, Lending!Start, Calls
<1>3. ASSUME NEW c \in Cleaners, NEW r \in Revisions,
             RetireUnserved(c, r) \/ RetireDrained(c, r)
      PROVE  Lending!Retire(r)
  BY <1>1, <1>3 DEF RetireUnserved, RetireDrained, Lending!Retire, Calls
<1>4. ASSUME NEW c \in Cleaners, StopRuntime(c)
      PROVE  \E r \in Revisions : Lending!Stop(r)
  <2> DEFINE r == cleaner[c].rev
  <2>1. r \in Revisions /\ r \in retired /\ (r \in drained \/ r \notin served)
    BY <1>4 DEF StopRuntime, IInv, ReclaimInv, Reclaimable
  <2>2. \A q \in Requests : rows[q] # r
    BY <2>1, DrainAssumption DEF IInv, ReclaimInv, RowInv, Pinned
  <2>3. Lending!Stop(r)
    BY <1>1, <1>4, <2>1, <2>2 DEF StopRuntime, reclaim, Lending!Stop, Calls
  <2> QED BY <2>1, <2>3
<1>5. ASSUME \/ \E r \in Revisions : Register(r) \/ Bootstrap(r) \/ Cutover(r)
             \/ Acknowledge
             \/ \E c \in Cleaners : ReleaseEndpoint(c) \/ CrashCleaner(c)
      PROVE  UNCHANGED loans
  BY <1>1, <1>5 DEF Register, Bootstrap, Cutover, Acknowledge, ReleaseEndpoint,
     CrashCleaner, reclaim, loans
<1> QED BY <1>2, <1>3, <1>4, <1>5 DEF ReleaseStep, CleanupStep, Lending!Next

\* A request borrows the runtime of the route with its row, calls once, and
\* returns it with the row, if at all.
LEMMA RequestLoans ==
  ASSUME IInv, NEW q \in Requests, RequestStep(q)
  PROVE  [Lending!Next]_loans
<1>1. UNCHANGED <<runtime, retired>>
  BY DEF RequestStep, Serve, Admit, Borrow, Return, Enter, Reject, GetClient,
     Evict, EvictFails, Abandon, SendCall, Answer, CloseCall, Leave, Finish, reclaim
<1>2. request \in [Requests -> [pc : RequestPc, rev : Revisions \cup {None},
                               started : {0, 1}, closed : {0, 1}]]
      /\ rows \in [Requests -> Revisions \cup {None}]
  BY DEF IInv, StoreTypes
<1>3. Pinned(q)
  BY DEF IInv, RowInv
<1>4. \A p \in Requests : p # q => request'[p] = request[p]
  BY <1>2 DEF RequestStep, Serve, Admit, Borrow, Return, Enter, Reject, GetClient,
     Evict, EvictFails, Abandon, SendCall, Answer, CloseCall, Leave, Finish, Step
<1>5. Calls' = IF request'[q].started = request'[q].closed THEN Calls \ {q}
                                                           ELSE Calls \cup {q}
  BY <1>4 DEF Calls, Connected, VerifiedClosed
<1> USE DEF Calls
<1>6. ASSUME Admit(q) \/ Borrow(q) PROVE Lending!Borrow(q, route) /\ route \in Revisions
  <2>1. /\ rows[q] = None /\ q \notin Calls
    BY <1>3, <1>6 DEF Admit, Borrow, Pinned, Connected, VerifiedClosed
  <2>2. route \in Revisions /\ runtime[route] = "running" /\ route \notin retired
    BY <1>6 DEF Admit, Borrow, IInv, UseInv
  <2>3. rows' = [rows EXCEPT ![q] = route]
    BY <1>6 DEF Admit, Borrow, Insert
  <2>4. Calls' \in {Calls, Calls \cup {q}}
    BY <1>5, <2>1
  <2> QED BY <1>1, <2>1, <2>2, <2>3, <2>4 DEF Lending!Borrow
<1>7. ASSUME Serve(q), rows' = rows PROVE [Lending!Next]_loans
  <2>1. CASE SendCall(q) /\ request[q].rev \notin shut
    <3>1. rows[q] # None
      BY <1>3, <2>1 DEF SendCall, Pinned
    <3>2. Calls' = Calls \cup {q}
      BY <1>2, <1>5, <2>1 DEF SendCall, Lease
    <3>3. Lending!Call(q)
      BY <1>1, <1>7, <3>1, <3>2 DEF Lending!Call
    <3> QED BY <3>3 DEF Lending!Next
  <2>2. CASE CloseCall(q) /\ q \in Calls'
    <3>1. rows[q] # None
      BY <1>3, <2>2 DEF CloseCall, Pinned
    <3>2. Calls' = Calls \cup {q}
      BY <1>5, <2>2
    <3>3. Lending!Call(q)
      BY <1>1, <1>7, <3>1, <3>2 DEF Lending!Call
    <3> QED BY <3>3 DEF Lending!Next
  <2>3. CASE CloseCall(q) /\ q \notin Calls'
    <3>1. Calls' = Calls \ {q}
      BY <1>5, <2>3
    <3>2. Lending!End(q)
      BY <1>1, <1>7, <3>1 DEF Lending!End
    <3> QED BY <3>2 DEF Lending!Next
  <2>4. CASE ~CloseCall(q) /\ (SendCall(q) => request[q].rev \in shut)
    <3>1. /\ request'[q].started = request[q].started
          /\ request'[q].closed = request[q].closed
      BY <1>2, <1>7, <2>4 DEF Serve, Enter, Reject, GetClient, Evict, EvictFails,
         Abandon, SendCall, Answer, Leave, Finish, Step
    <3>2. Calls' = Calls
      BY <1>5, <3>1 DEF Connected, VerifiedClosed
    <3> QED BY <1>1, <1>7, <3>2 DEF loans
  <2> QED BY <2>1, <2>2, <2>3, <2>4
<1>8. ASSUME rows' = [rows EXCEPT ![q] = None],
             request'[q].started = request'[q].closed
      PROVE  Lending!Return(q)
  BY <1>1, <1>5, <1>8 DEF Lending!Return
<1>9. ASSUME Serve(q), rows' # rows PROVE Lending!Return(q)
  <2>1. /\ Finish(q) /\ Deletable(q) /\ rows' = [rows EXCEPT ![q] = None]
    BY <1>9 DEF Serve, Enter, Reject, GetClient, Evict, EvictFails, Abandon, SendCall,
       Answer, CloseCall, Leave, Finish
  <2>2. request'[q].started = request'[q].closed
    BY <1>2, <2>1 DEF Finish, Step, Deletable, VerifiedClosed
  <2> QED BY <1>8, <2>1, <2>2
<1>10. ASSUME Return(q) PROVE [Lending!Next]_loans
  <2>1. CASE rows' = [rows EXCEPT ![q] = None]
             /\ request' = [request EXCEPT ![q] = Lease("gone", @.rev, 1, 1)]
    <3>1. request'[q].started = request'[q].closed
      BY <1>2, <2>1 DEF Lease
    <3> QED BY <1>8, <2>1, <3>1 DEF Lending!Next
  <2>2. CASE rows' = rows
    <3>1. rows[q] # None
      BY <1>3, <1>10 DEF Return, Pinned
    <3>2. Lending!Call(q) \/ Lending!End(q)
      BY <1>1, <1>5, <2>2, <3>1 DEF Lending!Call, Lending!End
    <3> QED BY <3>2 DEF Lending!Next
  <2> QED BY <1>10, <2>1, <2>2 DEF Return
<1> QED
  BY <1>6, <1>7, <1>9, <1>10 DEF RequestStep, Lending!Next

\* Routes, cleanup, gateway and collectors implement Retirement, for any number
\* of each, whatever closes fail, rows stay behind and processes die: a runtime
\* is lent to nobody after its retirement and stopped only when all loans are
\* returned, and no call outlasts its loan.
THEOREM LoansCorrect == Spec => KeepsLoans
<1>1. Init => Lending!Init
  BY DEF Init, Lending!Init, New, Lease, Connected, VerifiedClosed
<1>2. IInv /\ [Next]_vars => [Lending!Next]_loans
  <2> SUFFICES ASSUME IInv, [Next]_vars PROVE [Lending!Next]_loans
    OBVIOUS
  <2>1. CASE CrashGateway
    <3>1. \A q \in Requests : /\ request'[q].started = request[q].started
                              /\ request'[q].closed = request[q].closed
      BY <2>1 DEF CrashGateway, IInv, StoreTypes
    <3> QED BY <2>1, <3>1 DEF CrashGateway, reclaim, loans, Calls, Connected, VerifiedClosed
  <2>2. CASE UNCHANGED vars
    BY <2>2 DEF vars, reclaim, gateway, loans, Calls, Connected, VerifiedClosed
  <2> QED BY <2>1, <2>2, OwnerLoans, RequestLoans DEF Next
<1> QED BY <1>1, <1>2, DrainInductive, PTL
        DEF Spec, KeepsLoans, Lending!Spec, loans, Calls
=============================================================================
