------------------------------- MODULE Gateway -------------------------------
(***************************************************************************)
(* Serving one request at the gateway: the quota in Redis                  *)
(* (cache/redis_state.py), the bounded admission (gateway/admission.py),   *)
(* the text endpoints (gateway/app.py) and the image endpoint              *)
(* (gateway/vision.py) over an engine adapter (EngineStreams).             *)
(*                                                                         *)
(* The two endpoints have separate pools and share nothing, so a behaviour *)
(* exercises one of them, with the engine it is configured with.  Every    *)
(* await is a state of its request, at which the deadline may pass, the    *)
(* task may be cancelled (the client left, or the server is stopping) and  *)
(* a client that does not read may keep a send waiting.                    *)
(***************************************************************************)
EXTENDS EngineStreams, FiniteSets

CONSTANTS
  Requests,    \* requests under way at once; a request that ended may come back
  Capacity,    \* Admission.limit
  QuotaLimit,  \* RedisState.limit
  MaxLosses    \* times the quota key loses its expiry

ASSUME GatewayAssumption ==
  /\ IsFiniteSet(Requests)
  /\ {Capacity, QuotaLimit} \subseteq Nat \ {0}
  /\ MaxLosses \in Nat

Endpoints == {"completions", "ray", "vision"}

VARIABLES
  endpoint,  \* the endpoint and its engine, as deployed
  active,    \* Admission.active
  req,       \* what each request is doing
  quota,     \* the quota key: its count, up to the limit, and whether it has an expiry
  sent,      \* requests whose quota command Redis has not executed
  losses     \* how often the key lost its expiry

vars == <<endpoint, active, req, quota, sent, losses>>

Vision == endpoint = "vision"

Places == {"idle", "quota", "body", "decode", "undecode", "start", "pull", "push",
           "close", "final", "done", "error", "tail", "return"}

\* Suspended in a send of the response.
Sending == {"start", "push", "final", "done", "error", "tail"}

Idle == [pc |-> "idle", streams |-> FALSE, lease |-> "none", reply |-> "none",
         late |-> FALSE, work |-> "none", up |-> Fresh, after |-> "none", wire |-> "none"]

TypeOK ==
  /\ endpoint \in Endpoints
  /\ active \in 0..Capacity
  /\ req \in [Requests -> [pc : Places, streams : BOOLEAN,
                           lease : {"none", "held", "released"},
                           reply : {"none", "yes", "no"}, late : BOOLEAN,
                           work : {"none", "decode", "open"}, up : Upstreams,
                           after : {"none", "final", "error", "end"},
                           wire : {"none", "final", "done", "error"}]]
  /\ quota \in [count : 0..QuotaLimit, expires : BOOLEAN]
  /\ sent \subseteq Requests
  /\ losses \in 0..MaxLosses

Init ==
  /\ endpoint \in Endpoints
  /\ active = 0
  /\ req = [r \in Requests |-> Idle]
  /\ quota = [count |-> 0, expires |-> FALSE]
  /\ sent = {}
  /\ losses = 0

-----------------------------------------------------------------------------
(* Helpers *)

\* The request goes on as q; its lease and the counter stay.
Becomes(r, q) ==
  /\ req' = [req EXCEPT ![r] = q]
  /\ UNCHANGED <<endpoint, active, quota, sent, losses>>

\* Admission.acquire and the lease of the request.
Acquired(r, q) ==
  /\ active < Capacity
  /\ active' = active + 1
  /\ req' = [req EXCEPT ![r] = [q EXCEPT !.lease = "held"]]

\* Fault: a second release gives the slot back again.
GivenBackAgain(q) == IF q.lease = "none" THEN active ELSE active - 1

\* Lease.release: only the first one counts.
GivenBack(q) == IF q.lease = "held" THEN active - 1 ELSE active

\* The request goes on as q after a release of its lease.
Releases(r, q) ==
  /\ active' = GivenBack(req[r])
  /\ req' = [req EXCEPT ![r] = [q EXCEPT !.lease = IF @ = "held" THEN "released" ELSE @]]
  /\ UNCHANGED <<endpoint, quota, sent, losses>>

\* The request is over with an answer of its own; nothing of it is left.
Answered(r) ==
  /\ active' = GivenBack(req[r])
  /\ req' = [req EXCEPT ![r] = Idle]
  /\ UNCHANGED <<endpoint, quota, losses>>

\* The engine's iterator is closed first; then comes a frame, or the end.
Closing(q, next) ==
  [q EXCEPT !.pc = "close", !.after = next, !.up = IF next = "final" THEN @ ELSE Fresh]

\* The text generator releases in its finally, the image response after it.
Ended(r, q) ==
  LET last == [Idle EXCEPT !.pc = "return", !.lease = q.lease]
  IN IF Vision THEN Becomes(r, last) ELSE Releases(r, last)

\* The generator is left where it is suspended, and closed.
Abandoned(r) ==
  IF req[r].work = "open" THEN Becomes(r, Closing(req[r], "end"))
                          ELSE Ended(r, req[r])

-----------------------------------------------------------------------------
(* Admission *)

\* A text request asks for its quota; an image request takes its slot first.
Arrive(r, streams) ==
  /\ req[r].pc = "idle" /\ req[r].work = "none" /\ r \notin sent
  /\ IF Vision
     THEN Acquired(r, [Idle EXCEPT !.pc = "body", !.streams = streams]) /\ UNCHANGED sent
     ELSE /\ req' = [req EXCEPT ![r] = [Idle EXCEPT !.pc = "quota", !.streams = streams]]
          /\ sent' = sent \cup {r}
          /\ UNCHANGED active
  /\ UNCHANGED <<endpoint, quota, losses>>

\* Fault: a key without an expiry stays so.
Unrepaired(expires) == expires

\* QUOTA_SCRIPT: a key that has no expiry after all gets one.
Repaired(expires) == IF expires THEN expires ELSE TRUE

\* Redis executes the command, whether or not anybody still waits for it.
RunScript(r) ==
  /\ r \in sent
  /\ LET count == quota.count + 1
     IN quota' = [count |-> IF count > QuotaLimit THEN QuotaLimit ELSE count,
                  expires |-> Repaired(count = 1 \/ quota.expires)]
  /\ sent' = sent \ {r}
  /\ req' = IF req[r].pc = "quota"
            THEN [req EXCEPT ![r].reply = IF quota.count < QuotaLimit THEN "yes" ELSE "no"]
            ELSE req
  /\ UNCHANGED <<endpoint, active, losses>>

\* Redis is late or away; its command may have been lost on the way.
QuotaFails(r) ==
  /\ req[r].pc = "quota" /\ req[r].reply = "none"
  /\ sent' \in {sent, sent \ {r}}
  /\ Answered(r)

\* 429: over the quota, or no slot is free.
Refuse(r) ==
  /\ req[r].pc = "quota"
  /\ \/ req[r].reply = "no"
     \/ req[r].reply = "yes" /\ active >= Capacity
  /\ UNCHANGED sent
  /\ Answered(r)

Admit(r) ==
  /\ req[r].pc = "quota" /\ req[r].reply = "yes"
  /\ Acquired(r, [req[r] EXCEPT !.pc = "start", !.reply = "none"])
  /\ UNCHANGED <<endpoint, quota, sent, losses>>

WindowExpires ==
  /\ quota.expires
  /\ quota' = [count |-> 0, expires |-> FALSE]
  /\ UNCHANGED <<endpoint, active, req, sent, losses>>

\* The key is restored or edited without its expiry.
ExpiryIsLost ==
  /\ quota.expires /\ losses < MaxLosses
  /\ quota' = [quota EXCEPT !.expires = FALSE]
  /\ losses' = losses + 1
  /\ UNCHANGED <<endpoint, active, req, sent>>

-----------------------------------------------------------------------------
(* The image: upload and decoding under the slot *)

\* The upload is complete and valid in time: a thread decodes the image.
BodyArrives(r) ==
  /\ req[r].pc = "body" /\ ~req[r].late
  /\ Becomes(r, [req[r] EXCEPT !.pc = "decode", !.work = "decode"])

\* Too large, invalid, too slow (408), past its deadline, or the client left.
BodyFails(r) ==
  /\ req[r].pc = "body"
  /\ UNCHANGED sent
  /\ Answered(r)

\* Fault: a cancelled request does not wait for its thread.
LeftDecoding(q) == [q EXCEPT !.pc = "return"]

\* _prepare: whoever interrupts, the thread is drained first.
Undecoded(q) == [q EXCEPT !.pc = "undecode"]

\* The thread ends: with an image, or without one (422).
DecodeEnds(r) ==
  /\ req[r].work = "decode"
  /\ \/ Becomes(r, [req[r] EXCEPT !.work = "none",
                    !.pc = CASE @ = "decode" -> "start" [] @ = "undecode" -> "return"
                           [] OTHER -> @])
     \/ /\ req[r].pc = "decode"
        /\ Becomes(r, [req[r] EXCEPT !.work = "none", !.pc = "return"])

-----------------------------------------------------------------------------
(* The stream *)

\* The generator starts: past its deadline it does not ask the engine at all.
Begun(q) ==
  IF q.late THEN [q EXCEPT !.pc = "error"]
            ELSE [q EXCEPT !.pc = "pull", !.work = "open"]

Trusted(q, f) == IF endpoint = "ray" THEN TrustsRay(q.up, f) ELSE Trusts(q.up, f)

\* The adapter's next token: text at once, accounting only at the end.
BackendFrame(r, f) ==
  LET q == req[r]
      ray == endpoint = "ray"
  IN /\ q.pc = "pull" /\ ~q.late
     /\ IF Trusted(q, f)
        THEN Becomes(r, [q EXCEPT !.up = IF ray THEN ConsumedRay(@, f) ELSE Consumed(@, f),
                                  !.pc = IF f.text \/ (ray /\ ~f.finish)
                                         THEN "push" ELSE "pull"])
        ELSE Becomes(r, Closing(q, "error"))

\* DONE, or the clean end of the relay's stream: the adapter's last token.
BackendEnds(r) ==
  LET q == req[r]
      last == [q EXCEPT !.up.ended = TRUE]
  IN /\ q.pc = "pull" /\ ~q.late
     /\ IF ~Complete(q.up) THEN Becomes(r, Closing(q, "error"))
        ELSE IF Vision THEN Becomes(r, Closing(last, "final"))
        ELSE Becomes(r, [last EXCEPT !.pc = "push"])

\* Status, media type, transport, an invalid or oversized event, a cut stream.
BackendBreaks(r) ==
  /\ req[r].pc = "pull" /\ ~req[r].late
  /\ Becomes(r, Closing(req[r], "error"))

\* The response of the engine is closed, and the generator goes on.
EngineCloses(r) ==
  LET q == [req[r] EXCEPT !.work = "none"]
  IN /\ q.pc = "close"
     /\ IF q.after = "end" THEN Ended(r, q) ELSE Becomes(r, [q EXCEPT !.pc = q.after])

\* The client has taken what was sent; a collected answer is taken at once.
Deliver(r) ==
  LET q == req[r]
  IN /\ q.pc \in Sending
     /\ CASE q.pc = "start" -> Becomes(r, Begun(q))
          [] q.pc = "push"  -> Becomes(r, IF q.up.ended THEN Closing(q, "final")
                                                        ELSE [q EXCEPT !.pc = "pull"])
          [] q.pc = "final" -> Becomes(r, [q EXCEPT !.pc = "done", !.wire = "final"])
          [] q.pc \in {"done", "error"} ->
               LET last == [q EXCEPT !.pc = "tail", !.wire = q.pc]
               IN IF Vision THEN Becomes(r, last) ELSE Releases(r, last)
          [] q.pc = "tail"  -> Becomes(r, [Idle EXCEPT !.pc = "return", !.lease = q.lease])

\* The finally of the response, or of the route.
Return(r) ==
  /\ req[r].pc = "return"
  /\ active' = GivenBack(req[r])
  /\ req' = [req EXCEPT ![r] = [Idle EXCEPT !.work = req[r].work]]
  /\ UNCHANGED <<endpoint, quota, sent, losses>>

-----------------------------------------------------------------------------
(* Deadline and cancellation *)

\* The deadline of a request passes.
Tick(r) ==
  /\ req[r].pc # "idle" /\ ~req[r].late
  /\ Becomes(r, [req[r] EXCEPT !.late = TRUE])

\* Fault: no deadline on a send of the image response.
NeverBounded(q) == q.streams /\ q.pc = "push" /\ ~Vision

\* A send the deadline ends: of the image response any, of text a delta only.
SendBounded(q) == q.streams /\ (Vision \/ q.pc = "push")

DeadlineFires(r) ==
  LET q == req[r]
  IN /\ q.late
     /\ \/ q.pc = "decode" /\ Becomes(r, Undecoded(q))
        \/ q.pc = "pull" /\ Becomes(r, Closing(q, "error"))
        \/ q.pc = "close" /\ q.after = "final" /\ Becomes(r, Closing(q, "error"))
        \/ q.pc \in Sending /\ SendBounded(q) /\ Abandoned(r)

\* CancelledError at the await; what drain() waits for swallows it.
Cancel(r) ==
  LET q == req[r]
  IN \/ q.pc = "quota" /\ UNCHANGED sent /\ Answered(r)
     \/ q.pc = "decode" /\ Becomes(r, Undecoded(q))
     \/ q.pc = "pull" /\ Becomes(r, Closing(q, "end"))
     \/ /\ q.pc = "close" /\ (Vision => q.after # "end")
        /\ Ended(r, [q EXCEPT !.work = "none"])
     \/ q.pc \in Sending /\ q.streams /\ Abandoned(r)

Next ==
  \/ WindowExpires
  \/ ExpiryIsLost
  \/ \E r \in Requests :
       \/ \E streams \in BOOLEAN : Arrive(r, streams)
       \/ RunScript(r) \/ QuotaFails(r) \/ Refuse(r) \/ Admit(r)
       \/ BodyArrives(r) \/ BodyFails(r) \/ DecodeEnds(r)
       \/ \E f \in Frames : BackendFrame(r, f)
       \/ BackendEnds(r) \/ BackendBreaks(r) \/ EngineCloses(r)
       \/ Deliver(r) \/ Return(r)
       \/ Tick(r) \/ DeadlineFires(r) \/ Cancel(r)

Spec == Init /\ [][Next]_vars

-----------------------------------------------------------------------------
(* Fairness: timers fire, local cleanup ends, Redis executes what reached   *)
(* it, a collected answer needs no reader.  A reader of an image stream     *)
(* need not read; one of a text stream takes the frames that no deadline    *)
(* bounds, or leaves.                                                       *)

Collects(r) == ~req[r].streams /\ Deliver(r)

ReadsOrLeaves(r) ==
  /\ ~Vision /\ req[r].pc \in Sending \ {"push"} /\ req[r].streams
  /\ Deliver(r) \/ Cancel(r)

Fairness ==
  /\ WF_vars(WindowExpires)
  /\ \A r \in Requests :
       /\ SF_vars(RunScript(r))
       /\ WF_vars(BodyFails(r)) /\ WF_vars(DecodeEnds(r))
       /\ WF_vars(EngineCloses(r)) /\ WF_vars(Return(r))
       /\ WF_vars(Tick(r)) /\ WF_vars(DeadlineFires(r))
       /\ WF_vars(Collects(r)) /\ WF_vars(ReadsOrLeaves(r))

FairSpec == Spec /\ Fairness

-----------------------------------------------------------------------------
(* Properties *)

\* The slots count the leases that are held, and no decoding thread and no
\* engine stream goes on without one: releasing twice, in the generator and
\* in the response, must give one slot back, and not before the work ended.
SlotsCoverWork ==
  /\ active = Cardinality({r \in Requests : req[r].lease = "held"})
  /\ \A r \in Requests : req[r].work # "none" => req[r].lease = "held"

\* A client that reads DONE has a complete answer: the engine finished, it
\* reported its usage, and the count is not zero when there was text.
HonestDone ==
  \A r \in Requests :
    req[r].wire = "done" =>
      /\ req[r].up.ended /\ req[r].up.finish
      /\ req[r].up.usage \in {"zero", "fits"}
      /\ req[r].up.visible => req[r].up.usage = "fits"

\* A slot comes back, whatever the engine and the decoder do and whether the
\* client of an image stream reads or not.  Between two frames of a text stream
\* no deadline runs: there a client is assumed to read on or to leave.
SlotReturns ==
  \A r \in Requests : (req[r].lease = "held") ~> (req[r].lease # "held")

\* As long as callers ask, a quota that was used up opens again, although
\* the key lost its expiry.
QuotaReopens == []<>(quota.count < QuotaLimit) \/ <>[](sent = {})

\* The pool of an endpoint is a set of slots: a request that decodes or has
\* the engine's stream open took one of Capacity slots before and gives it
\* back when that has ended, whoever releases its lease.
Pool == INSTANCE Slots WITH
  held <- [r \in Requests |-> IF req[r].lease = "held" THEN "pool" ELSE "none"],
  using <- [p \in {"pool"} |-> {r \in Requests : req[r].work # "none"}],
  Replicas <- {"pool"}, None <- "none"

KeepsSlots == Pool!Spec
=============================================================================
