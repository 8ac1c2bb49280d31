----------------------------- MODULE WarmDrain -----------------------------
(***************************************************************************)
(* Who may still be using a warm runtime, and when it may be stopped.      *)
(*                                                                         *)
(* A gateway pins every request to the revision that has the traffic by a  *)
(* durable row (warm_admissions) and deletes the row only after it has     *)
(* seen the backend connection closed (gateway/warm_route_app.py,          *)
(* reliability/warm_drain.py).  The cleanup task of a job retires a        *)
(* revision that nobody can be sent to any more, waits until no row names  *)
(* it, stops its runtime and gives its endpoint free                       *)
(* (reliability/warm_routes.py, registry/producer_runtime.py).  Collectors *)
(* borrow the stable baseline by a row of their own                        *)
(* (registry/producer_pipeline.py).                                        *)
(*                                                                         *)
(* Releases are the environment here: ReleaseControl says which cutovers   *)
(* and acknowledgements a release path makes, this module lets any of them *)
(* happen that the stores accept.  One deployment, one gateway process;    *)
(* stores of the capacity protocol are another component.  A runtime that  *)
(* nobody stops keeps running and keeps its port.                          *)
(***************************************************************************)
EXTENDS Integers, FiniteSets

CONSTANTS
  Revisions,       \* immutable revisions
  Endpoints,       \* base URLs
  EndpointOf,      \* the endpoint the profile of a revision names
  Requests,        \* requests and collector tasks
  Cleaners,        \* processes that run cleanup_unserved
  None,            \* absent
  Released,        \* the base_url "retired:" + revision of a freed endpoint
  AdmissionLimit,  \* rows warm_admissions may hold (4096)
  ClientLimit,     \* client_limit: pools the gateway may keep (32)
  CutoverBound     \* cutovers that are explored

ASSUME DrainAssumption ==
  /\ None \notin Revisions \cup Endpoints \cup Requests \cup Cleaners
  /\ Released \notin Revisions \cup Endpoints \cup {None}
  /\ IsFiniteSet(Requests)
  /\ EndpointOf \in [Revisions -> Endpoints]
  /\ AdmissionLimit \in Nat
  /\ ClientLimit \in Nat
  /\ CutoverBound \in Nat

VARIABLES
  route,      \* warm_routes: the revision that takes new requests
  cutovers,   \* its generation
  served,     \* warm_events: revisions that ever were the route
  control,    \* deployments: active and known-good revision, frozen or not
  base,       \* warm_backends: the endpoint each registered revision holds
  retired,    \* warm_retirements
  drained,    \* warm_drain_receipts
  rows,       \* warm_admissions: the revision each row pins
  request,    \* what each request is doing, and its AdmissionLease
  clients,    \* WarmRouteEngine.clients: revisions with a cached pool
  shut,       \* those of them whose close() has begun, or failed
  closing,    \* the pool that is being closed under client_lock, or None
  users,      \* WarmRouteEngine.client_users
  runtime,    \* the container of each revision
  cleaner     \* what each cleanup task is doing

release == <<route, cutovers, served, control>>
reclaim == <<base, retired, drained>>
pools == <<clients, shut, closing>>
gateway == <<request, pools, users>>
vars == <<release, reclaim, rows, gateway, runtime, cleaner>>

-----------------------------------------------------------------------------
NoControl == [active |-> None, good |-> None, frozen |-> FALSE]

\* Where a request is, and what its AdmissionLease holds.
Lease(pc, rev, started, closed) ==
  [pc |-> pc, rev |-> rev, started |-> started, closed |-> closed]

New == Lease("new", None, 0, 0)

Idle == [pc |-> "idle", rev |-> None]

\* Where a request is: admitted by the middleware, inside the engine's stream
\* (waiting for the client lock, closing another pool under it, ready to send,
\* sent, answered and open), its stream finished, or handed back to the
\* middleware; a collector at work; or gone, with its process or after its last
\* step.
Inside == {"waiting", "evicting", "ready", "sent", "open", "unwinding"}
RequestPc == Inside \cup {"new", "admitted", "leaving", "collecting", "gone"}

TypeOK ==
  /\ route \in Revisions \cup {None}
  /\ cutovers \in 0 .. CutoverBound
  /\ served \subseteq Revisions
  /\ control \in [active : Revisions, good : Revisions, frozen : BOOLEAN]
                   \cup {NoControl}
  /\ base \in [Revisions -> Endpoints \cup {None, Released}]
  /\ retired \subseteq Revisions
  /\ drained \subseteq Revisions
  /\ rows \in [Requests -> Revisions \cup {None}]
  /\ request \in [Requests -> [pc : RequestPc, rev : Revisions \cup {None},
                               started : {0, 1}, closed : {0, 1}]]
  /\ clients \subseteq Revisions
  /\ shut \subseteq clients
  /\ closing \in Revisions \cup {None}
  /\ users \in [Revisions -> Nat]
  /\ runtime \in [Revisions -> {"off", "running", "stopped"}]
  /\ cleaner \in [Cleaners -> [pc : {"idle", "fenced", "stopped"},
                               rev : Revisions \cup {None}]]

-----------------------------------------------------------------------------
(* Releases *)

\* Fault: whatever is registered is a target, retired or not.
AnyTarget(r) == TRUE

\* _require_available: a retired revision is nobody's target any more.
Available(r) == r \notin retired

\* A producer starts the container of a new revision.  Its port must be free.
Launch(r) ==
  /\ runtime[r] = "off"
  /\ \A s \in Revisions :
       runtime[s] = "running" => EndpointOf[s] # EndpointOf[r]
  /\ runtime' = [runtime EXCEPT ![r] = "running"]
  /\ UNCHANGED <<release, reclaim, rows, gateway, cleaner>>

\* No revision holds this endpoint (base_url is a unique column).
Unreserved(e) == \A s \in Revisions : base[s] # e

\* WarmRouteStore.register, called by the rollout of a launched revision.
Register(r) ==
  /\ runtime[r] # "off"
  /\ Available(r)
  /\ base[r] = None
  /\ Unreserved(EndpointOf[r])
  /\ base' = [base EXCEPT ![r] = EndpointOf[r]]
  /\ UNCHANGED <<release, retired, drained, rows, gateway, runtime, cleaner>>

\* WarmRouteStore.bootstrap.
Bootstrap(r) ==
  /\ route = None
  /\ base[r] # None
  /\ Available(r)
  /\ route' = r
  /\ served' = served \cup {r}
  /\ UNCHANGED <<cutovers, control, reclaim, rows, gateway, runtime, cleaner>>

\* WarmRouteStore.apply with a request that names the current route.
Cutover(r) ==
  /\ route \notin {None, r}
  /\ cutovers < CutoverBound
  /\ base[r] # None
  /\ Available(r)
  /\ route' = r
  /\ cutovers' = cutovers + 1
  /\ served' = served \cup {r}
  /\ UNCHANGED <<control, reclaim, rows, gateway, runtime, cleaner>>

\* Every change of the deployment row: a baseline is adopted, a candidate is
\* acknowledged while the route names it, a candidate is found stable, a
\* rollback takes the deployment, a rollback is restored.  The last rests on
\* an observation made earlier, so the route may have moved on.
Acknowledge ==
  /\ route # None
  /\ \/ /\ control = NoControl
        /\ cutovers = 0
        /\ control' = [active |-> route, good |-> route, frozen |-> FALSE]
     \/ /\ control # NoControl
        /\ ~control.frozen
        /\ control' \in {[control EXCEPT !.active = route],
                         [control EXCEPT !.good = control.active],
                         [control EXCEPT !.frozen = TRUE]}
        /\ control'.good # control.good => route = control.active
        /\ control'.frozen => control.active # control.good
     \/ /\ control.frozen
        /\ control' = [active |-> control.good, good |-> control.good,
                       frozen |-> FALSE]
  /\ UNCHANGED <<route, cutovers, served, reclaim, rows, gateway, runtime,
                 cleaner>>

-----------------------------------------------------------------------------
(* Requests.  The backend call of a request is entered (started) before it is *)
(* sent and positively closed (closed) by AdmissionCloseStream.               *)

RowCount == Cardinality({q \in Requests : rows[q] # None})

Step(q, pc) == request' = [request EXCEPT ![q].pc = pc]

\* verified_closed: no call was entered, or its close was seen to succeed.
VerifiedClosed(q) == request[q].started = request[q].closed

\* A backend call was entered and nobody has seen it closed.  The backend may
\* still be working on it, whatever became of the caller.
Connected(q) == ~VerifiedClosed(q)

Insert(q, r) ==
  /\ Available(r)
  /\ RowCount < AdmissionLimit
  /\ rows' = [rows EXCEPT ![q] = r]

\* The middleware admits a request to the current route.  When its timeout
\* strikes while the row is written, the row is written all the same and the
\* lease is lost: the request is refused and the row stays.
Admit(q) ==
  /\ request[q].pc = "new"
  /\ route # None
  /\ Insert(q, route)
  /\ \E pc \in {"admitted", "gone"} :
       request' = [request EXCEPT ![q] = Lease(pc, route, 0, 0)]
  /\ UNCHANGED <<release, reclaim, pools, users, runtime, cleaner>>

\* Fault: the user of the pool is not counted.
EnterUncounted(q) ==
  /\ request[q].pc = "admitted"
  /\ Step(q, "waiting")
  /\ UNCHANGED <<release, reclaim, rows, pools, users, runtime, cleaner>>

\* WarmRouteEngine.stream begins, and waits for the client lock.
Enter(q) ==
  /\ request[q].pc = "admitted"
  /\ Step(q, "waiting")
  /\ users' = [users EXCEPT ![request[q].rev] = @ + 1]
  /\ UNCHANGED <<release, reclaim, rows, pools, runtime, cleaner>>

\* Authentication, validation, quota or a full gateway ends it before that.
Reject(q) ==
  /\ request[q].pc = "admitted"
  /\ Step(q, "leaving")
  /\ UNCHANGED <<release, reclaim, rows, pools, users, runtime, cleaner>>

\* Fault: any retired pool may be closed, whoever uses it.
EvictableIfRetired(r) == r \in clients /\ r \in retired

\* Only the idle pool of a revision that can never be admitted again.
Evictable(r) == r \in clients /\ r \in retired /\ users[r] = 0

\* _client, under the client lock: the pool is cached, or there is room for it,
\* or an evictable pool has to go first and its close begins.
GetClient(q) ==
  LET r == request[q].rev IN
  /\ request[q].pc = "waiting"
  /\ closing = None
  /\ \/ /\ r \in clients
        /\ Step(q, "ready")
        /\ UNCHANGED pools
     \/ /\ r \notin clients
        /\ Cardinality(clients) < ClientLimit
        /\ Step(q, "ready")
        /\ clients' = clients \cup {r}
        /\ UNCHANGED <<shut, closing>>
     \/ /\ r \notin clients
        /\ Cardinality(clients) >= ClientLimit
        /\ \E s \in Revisions :
             /\ Evictable(s)
             /\ shut' = shut \cup {s}
             /\ closing' = s
        /\ Step(q, "evicting")
        /\ UNCHANGED clients
  /\ UNCHANGED <<release, reclaim, rows, users, runtime, cleaner>>

\* The close has returned: the pool is forgotten, the new one takes its place.
Evict(q) ==
  /\ request[q].pc = "evicting"
  /\ clients' = (clients \ {closing}) \cup {request[q].rev}
  /\ shut' = shut \ {closing}
  /\ closing' = None
  /\ Step(q, "ready")
  /\ UNCHANGED <<release, reclaim, rows, users, runtime, cleaner>>

\* The close raises or the request is cancelled meanwhile: the pool stays in
\* the cache, closed.
EvictFails(q) ==
  /\ request[q].pc = "evicting"
  /\ closing' = None
  /\ Step(q, "unwinding")
  /\ UNCHANGED <<release, reclaim, rows, clients, shut, users, runtime, cleaner>>

\* A cancellation before anything is sent; the limit without an evictable
\* pool, a missing credential and an unreadable store end the same way.
Abandon(q) ==
  /\ request[q].pc \in {"waiting", "ready"}
  /\ Step(q, "unwinding")
  /\ UNCHANGED <<release, reclaim, rows, pools, users, runtime, cleaner>>

\* AdmissionTransport counts the call before it is sent.  A closed HTTP client
\* raises before it reaches the transport: nothing was started.
SendCall(q) ==
  /\ request[q].pc = "ready"
  /\ IF request[q].rev \in shut
     THEN Step(q, "unwinding")
     ELSE request' = [request EXCEPT ![q] = Lease("sent", @.rev, 1, 0)]
  /\ UNCHANGED <<release, reclaim, rows, pools, users, runtime, cleaner>>

\* A response arrives, or the send fails and leaves its effect unknown.
Answer(q) ==
  /\ request[q].pc = "sent"
  /\ \E pc \in {"open", "unwinding"} : Step(q, pc)
  /\ UNCHANGED <<release, reclaim, rows, pools, users, runtime, cleaner>>

\* AdmissionCloseStream.aclose: the close task succeeded, or it did not.
CloseCall(q) ==
  /\ request[q].pc = "open"
  /\ \E closed \in {0, 1} :
       request' = [request EXCEPT ![q] =
                     Lease("unwinding", @.rev, 1, closed)]
  /\ UNCHANGED <<release, reclaim, rows, pools, users, runtime, cleaner>>

\* The "finally" of stream: an unresolved close keeps the pool pinned.
Leave(q) ==
  LET r == request[q].rev IN
  /\ request[q].pc = "unwinding"
  /\ Step(q, "leaving")
  /\ users' = [users EXCEPT ![r] = IF VerifiedClosed(q) THEN @ - 1 ELSE @]
  /\ UNCHANGED <<release, reclaim, rows, pools, runtime, cleaner>>

\* Fault: the row is deleted with the request, whatever became of the call.
DeletedAnyway(q) == TRUE

\* finish_admission deletes the row of a lease that is verified closed.
Deletable(q) == VerifiedClosed(q)

\* The "finally" of the middleware.  The deletion itself may fail, or its
\* acknowledgement be lost.
Finish(q) ==
  /\ request[q].pc = "leaving"
  /\ Step(q, "gone")
  /\ \/ Deletable(q) /\ rows' = [rows EXCEPT ![q] = None]
     \/ UNCHANGED rows
  /\ UNCHANGED <<release, reclaim, pools, users, runtime, cleaner>>

\* require_stable_baseline with reserve: a collector borrows the stable route.
Borrow(q) ==
  /\ request[q].pc = "new"
  /\ route # None
  /\ control = [active |-> route, good |-> route, frozen |-> FALSE]
  /\ Insert(q, route)
  /\ request' = [request EXCEPT ![q] = Lease("collecting", route, 1, 0)]
  /\ UNCHANGED <<release, reclaim, pools, users, runtime, cleaner>>

\* borrowed_collection ends: after success, clients closed, the row is
\* deleted; after any failure it stays.
Return(q) ==
  /\ request[q].pc = "collecting"
  /\ \/ /\ request' = [request EXCEPT ![q] = Lease("gone", @.rev, 1, 1)]
        /\ rows' = [rows EXCEPT ![q] = None]
     \/ /\ \E closed \in {0, 1} :
             request' = [request EXCEPT ![q] =
                           Lease("gone", @.rev, 1, closed)]
        /\ UNCHANGED rows
  /\ UNCHANGED <<release, reclaim, pools, users, runtime, cleaner>>

\* The gateway process dies and starts again with an empty memory.  What its
\* calls are still doing in the backends nobody knows.
CrashGateway ==
  /\ \E q \in Requests : request[q].pc \in Inside \cup {"admitted", "leaving"}
  /\ request' = [q \in Requests |->
       IF request[q].pc \in {"new", "collecting"} THEN request[q]
       ELSE [request[q] EXCEPT !.pc = "gone"]]
  /\ clients' = {}
  /\ shut' = {}
  /\ closing' = None
  /\ users' = [r \in Revisions |-> 0]
  /\ UNCHANGED <<release, reclaim, rows, runtime, cleaner>>

-----------------------------------------------------------------------------
(* Cleanup: cleanup_unserved retires, stops and releases a launched revision *)

\* Fault: the cleanup asks for the traffic and forgets the rollback target.
NotActive(r) == r # control.active

\* No controller counts on this revision.
Uncontrolled(r) == r \notin {control.active, control.good}

CleanerAt(c, pc, r) == cleaner' = [cleaner EXCEPT ![c] = [pc |-> pc, rev |-> r]]

\* retire_unserved: a revision that never had traffic needs no drain.  It is
\* registered if it was not, so that its endpoint stays reserved.
RetireUnserved(c, r) ==
  /\ cleaner[c].pc = "idle"
  /\ runtime[r] # "off"
  /\ r \notin served
  /\ Uncontrolled(r)
  /\ \/ base[r] # None /\ UNCHANGED base
     \/ /\ base[r] = None
        /\ Unreserved(EndpointOf[r])
        /\ base' = [base EXCEPT ![r] = EndpointOf[r]]
  /\ retired' = retired \cup {r}
  /\ CleanerAt(c, "fenced", r)
  /\ UNCHANGED <<release, drained, rows, gateway, runtime>>

\* Fault: the rows of a process that is gone expire.
NoneLeft(r) == \A q \in Requests : rows[q] = r => request[q].pc = "gone"

\* No row pins this revision.
Unpinned(r) == \A q \in Requests : rows[q] # r

\* retire_drained: the revision is retired for ever, and if no row is left
\* the receipt is written in the same transaction.
RetireDrained(c, r) ==
  /\ cleaner[c].pc = "idle"
  /\ runtime[r] # "off"
  /\ r # route
  /\ Uncontrolled(r)
  /\ base[r] # None
  /\ retired' = retired \cup {r}
  /\ IF Unpinned(r)
     THEN drained' = drained \cup {r} /\ CleanerAt(c, "fenced", r)
     ELSE UNCHANGED <<drained, cleaner>>
  /\ UNCHANGED <<release, base, rows, gateway, runtime>>

\* stop_runtime_stage; a second stop finds the container gone.
StopRuntime(c) ==
  /\ cleaner[c].pc = "fenced"
  /\ runtime' = [runtime EXCEPT ![cleaner[c].rev] = "stopped"]
  /\ CleanerAt(c, "stopped", cleaner[c].rev)
  /\ UNCHANGED <<release, reclaim, rows, gateway>>

\* release_retired_endpoint.
ReleaseEndpoint(c) ==
  /\ cleaner[c].pc = "stopped"
  /\ base' = [base EXCEPT ![cleaner[c].rev] = Released]
  /\ cleaner' = [cleaner EXCEPT ![c] = Idle]
  /\ UNCHANGED <<release, retired, drained, rows, gateway, runtime>>

\* The cleanup task dies or fails between two steps.
CrashCleaner(c) ==
  /\ cleaner[c].pc # "idle"
  /\ cleaner' = [cleaner EXCEPT ![c] = Idle]
  /\ UNCHANGED <<release, reclaim, rows, gateway, runtime>>

-----------------------------------------------------------------------------
Init ==
  /\ route = None
  /\ cutovers = 0
  /\ served = {}
  /\ control = NoControl
  /\ base = [r \in Revisions |-> None]
  /\ retired = {}
  /\ drained = {}
  /\ rows = [q \in Requests |-> None]
  /\ request = [q \in Requests |-> New]
  /\ clients = {}
  /\ shut = {}
  /\ closing = None
  /\ users = [r \in Revisions |-> 0]
  /\ runtime = [r \in Revisions |-> "off"]
  /\ cleaner = [c \in Cleaners |-> Idle]

ReleaseStep ==
  \/ \E r \in Revisions : Launch(r) \/ Register(r) \/ Bootstrap(r) \/ Cutover(r)
  \/ Acknowledge

\* What the gateway does for a request it has admitted.
Serve(q) ==
  \/ Enter(q)
  \/ Reject(q)
  \/ GetClient(q)
  \/ Evict(q)
  \/ EvictFails(q)
  \/ Abandon(q)
  \/ SendCall(q)
  \/ Answer(q)
  \/ CloseCall(q)
  \/ Leave(q)
  \/ Finish(q)

RequestStep(q) ==
  \/ Admit(q)
  \/ Serve(q)
  \/ Borrow(q)
  \/ Return(q)

CleanupStep(c) ==
  \/ \E r \in Revisions : RetireUnserved(c, r) \/ RetireDrained(c, r)
  \/ StopRuntime(c)
  \/ ReleaseEndpoint(c)
  \/ CrashCleaner(c)

Next ==
  \/ ReleaseStep
  \/ \E q \in Requests : RequestStep(q)
  \/ CrashGateway
  \/ \E c \in Cleaners : CleanupStep(c)

Spec == Init /\ [][Next]_vars

-----------------------------------------------------------------------------
(* Properties *)

\* A runtime is not stopped under a request: as long as a call was entered and
\* not seen closed, in this process or in one that died, the container that
\* received it runs.  (Its endpoint is then nobody else's either.)
ConnectedRuns ==
  \A q \in Requests : Connected(q) => runtime[request[q].rev] = "running"

\* The revision that has the traffic, the one the controller believes active
\* and the one a rollback falls back to all have a running container, however
\* cleanups of several jobs interleave with cutovers and acknowledgements.
InUseRuns ==
  \A r \in {route, control.active, control.good} \ {None} :
    runtime[r] = "running"

\* A drain receipt is final: "zero durable pins" stays true, because no later
\* admission, collector or rollback reaches the revision again.
DrainIsFinal ==
  \A r \in drained :
    /\ \A q \in Requests : rows[q] # r
    /\ r \notin {route, control.active, control.good}

\* A backend call runs on an open pool: however eviction, its failure, a
\* cancellation of the evicting request, retirement and late requests to the
\* retired revision interleave, a pool that was handed out closed starts no
\* call and a pool with a call is not closed.
PoolStaysOpen ==
  \A q \in Requests :
    request[q].pc \in {"sent", "open"} => request[q].rev \in clients \ shut

\* A retirement can always be completed: whatever died after it, no cleanup of
\* a retired revision is refused (retire_drained and retire_unserved return
\* False for the route, for the active and for the known-good revision and
\* raise without a registration), and its endpoint is kept from other
\* revisions until its container is stopped.  Rows are all it may wait for.
RetiredStaysReclaimable ==
  \A r \in retired :
    /\ r \notin {route, control.active, control.good}
    /\ base[r] # None
    /\ runtime[r] = "running" => base[r] = EndpointOf[r]

\* The stores, the gateway and the cleanup together keep the promise of
\* Retirement: a row is a loan, a call is over when its close was seen.
Lending == INSTANCE Retirement WITH
  Users <- Requests, Runtimes <- Revisions,
  life <- runtime, pin <- rows, using <- {q \in Requests : Connected(q)}

KeepsLoans == Lending!Spec
=============================================================================
