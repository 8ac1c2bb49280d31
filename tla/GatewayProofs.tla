--------------------------- MODULE GatewayProofs ---------------------------
(***************************************************************************)
(* Proofs about Gateway for any finite set of requests, any limits and     *)
(* each of the endpoints.                                                  *)
(*                                                                         *)
(* A step changes one request.  What the safety properties need of it can  *)
(* be said of that request alone: where it is, it holds the lease its work *)
(* needs (LeaseInv), and what it has taken from the engine is consistent   *)
(* (StreamInv).  The slots are then counted once for all steps, by         *)
(* OneRequestMoves.                                                        *)
(***************************************************************************)
EXTENDS Gateway, FiniteSetTheorems, TLAPS

RequestRecord ==
  [pc : Places, streams : BOOLEAN, lease : {"none", "held", "released"},
   reply : {"none", "yes", "no"}, late : BOOLEAN, work : {"none", "decode", "open"},
   up : Upstreams, after : {"none", "final", "error", "end"},
   wire : {"none", "final", "done", "error"}]

\* Where the work of a request is done, and its lease is held.
LeaseInv(q) ==
  /\ q.pc \in {"idle", "quota"} => q.lease = "none"
  /\ q.pc \in {"body", "decode", "undecode", "start", "pull", "push", "close",
               "final", "done", "error"} => q.lease = "held"
  /\ q.pc \in {"tail", "return"} => q.lease = IF Vision THEN "held" ELSE "released"
  /\ q.pc \in {"body", "decode", "undecode"} => Vision
  /\ q.work = "decode" => q.pc \in {"decode", "undecode"}
  /\ q.work = "open" => q.pc \in {"pull", "push", "close"}

\* A usage report is the last thing an engine says, and it covers its text.
Accounted(u) ==
  u.usage # "none" => /\ u.finish
                      /\ u.usage # "over"
                      /\ u.visible => u.usage = "fits"

StreamInv(q) ==
  /\ Accounted(q.up)
  /\ q.up.ended => Complete(q.up)
  /\ q.pc \in {"quota", "body", "decode", "undecode", "start", "pull"}
       => ~q.up.ended
  /\ q.pc \in {"final", "done"} \/ (q.pc = "close" /\ q.after = "final") => q.up.ended
  /\ q.pc = "close" => q.after # "none"
  /\ q.wire = "done" => q.pc = "tail" /\ q.up.ended

RequestInv(q) == q \in RequestRecord /\ LeaseInv(q) /\ StreamInv(q)

Holders == {r \in Requests : req[r].lease = "held"}

IInv ==
  /\ TypeOK
  /\ \A r \in Requests : RequestInv(req[r])
  /\ active = Cardinality(Holders)

-----------------------------------------------------------------------------
(* Counting the slots *)

\* The slots a request holds.
Held(q) == IF q.lease = "held" THEN 1 ELSE 0

\* One request changes: the slots are counted right, and within the limit.
LEMMA OneRequestCounts ==
  ASSUME IInv, NEW r \in Requests, NEW q \in RequestRecord,
         req' = [req EXCEPT ![r] = q]
  PROVE  /\ Cardinality(Holders') = active + Held(q) - Held(req[r])
         /\ Cardinality(Holders') \in Nat
<1>1. IsFiniteSet(Holders) /\ IsFiniteSet(Holders') /\ active = Cardinality(Holders)
  BY GatewayAssumption, FS_Subset DEF IInv, Holders
<1>2. req \in [Requests -> RequestRecord] /\ req'[r] = q
      /\ \A s \in Requests \ {r} : req'[s] = req[s]
  BY DEF IInv, TypeOK, RequestRecord
<1>3. active \in Nat /\ Cardinality(Holders') \in Nat
  BY <1>1, FS_CardinalityType
<1>4. CASE q.lease = "held" /\ req[r].lease # "held"
  <2>1. Holders' = Holders \cup {r} /\ r \notin Holders
    BY <1>2, <1>4 DEF Holders
  <2> QED BY <1>1, <1>3, <1>4, <2>1, FS_AddElement DEF Held
<1>5. CASE q.lease # "held" /\ req[r].lease = "held"
  <2>1. Holders' = Holders \ {r} /\ r \in Holders
    BY <1>2, <1>5 DEF Holders
  <2> QED BY <1>1, <1>3, <1>5, <2>1, FS_RemoveElement DEF Held
<1>6. CASE q.lease = "held" <=> req[r].lease = "held"
  <2>1. Holders' = Holders
    BY <1>2, <1>6 DEF Holders
  <2> QED BY <1>1, <1>3, <1>6, <2>1 DEF Held
<1> QED BY <1>4, <1>5, <1>6

\* What every step of a request r comes to: it goes on as q, and the counter
\* moves with its lease.
Moves(r, q) ==
  /\ req' = [req EXCEPT ![r] = q]
  /\ RequestInv(q)
  /\ active' = active + Held(q) - Held(req[r])
  /\ Held(q) > Held(req[r]) => active < Capacity /\ q.work = "none"
  /\ endpoint' = endpoint

\* The shared state of the steps: the quota key and the commands under way.
SharedType ==
  /\ quota \in [count : 0..QuotaLimit, expires : BOOLEAN]
  /\ sent \subseteq Requests
  /\ losses \in 0..MaxLosses

LEMMA OneRequestMoves ==
  ASSUME IInv, NEW r \in Requests, NEW q, Moves(r, q), SharedType'
  PROVE  IInv'
<1>1. q \in RequestRecord
  BY DEF Moves, RequestInv
<1>2. req \in [Requests -> RequestRecord]
  BY DEF IInv, TypeOK, RequestRecord
<1>3. req' \in [Requests -> RequestRecord]
  BY <1>1, <1>2 DEF Moves
<1>4. active' = Cardinality(Holders') /\ active' \in Nat
  BY <1>1, OneRequestCounts DEF Moves
<1>5. active \in 0..Capacity /\ Capacity \in Nat
  BY GatewayAssumption DEF IInv, TypeOK
<1>6. active' \in 0..Capacity
  BY <1>4, <1>5 DEF Moves, Held
<1>7. \A s \in Requests : RequestInv(req[s])'
  <2> SUFFICES ASSUME NEW s \in Requests PROVE RequestInv(req[s])'
    OBVIOUS
  <2>1. req'[s] = IF s = r THEN q ELSE req[s]
    BY <1>2 DEF Moves
  <2>2. RequestInv(req'[s])
    BY <2>1 DEF Moves, IInv
  <2> QED
    BY <2>2 DEF RequestInv, RequestRecord, LeaseInv, StreamInv, Vision, Moves
<1>8. TypeOK'
  BY <1>3, <1>6 DEF TypeOK, RequestRecord, SharedType, Moves, IInv
<1> QED BY <1>4, <1>7, <1>8 DEF IInv

\* A step of r, whatever it makes of it.
Steps(r) == SharedType' /\ \E q : Moves(r, q)

-----------------------------------------------------------------------------
(* The helpers of the steps *)

LEMMA RequestFacts ==
  ASSUME IInv, NEW r \in Requests
  PROVE  RequestInv(req[r]) /\ req[r] \in RequestRecord /\ active \in Nat /\ SharedType
BY DEF IInv, TypeOK, RequestInv, SharedType

LEMMA BecomesSteps ==
  ASSUME IInv, NEW r \in Requests, NEW q, RequestInv(q), q.lease = req[r].lease,
         Becomes(r, q)
  PROVE  Steps(r)
<1>1. active' = active + Held(q) - Held(req[r]) /\ ~(Held(q) > Held(req[r]))
  BY RequestFacts DEF Held, Becomes
<1>2. Moves(r, q)
  BY <1>1 DEF Becomes, Moves
<1> QED BY <1>2, RequestFacts DEF Steps, Becomes, SharedType

\* The lease is given back as q goes on.
LEMMA ReleasesSteps ==
  ASSUME IInv, NEW r \in Requests, NEW q, req[r].lease = "held", q.lease = "held",
         RequestInv([q EXCEPT !.lease = "released"]), q \in RequestRecord, Releases(r, q)
  PROVE  Steps(r)
<1> DEFINE p == [q EXCEPT !.lease = "released"]
<1>1. p = [q EXCEPT !.lease = IF @ = "held" THEN "released" ELSE @] /\ p.lease = "released"
  BY DEF RequestRecord
<1>2. active' = active + Held(p) - Held(req[r]) /\ ~(Held(p) > Held(req[r]))
  BY <1>1, RequestFacts DEF Held, Releases, GivenBack
<1>3. Moves(r, p)
  BY <1>1, <1>2 DEF Releases, Moves
<1> QED BY <1>3, RequestFacts DEF Steps, Releases, SharedType

LEMMA IdleInv ==
  /\ RequestInv(Idle) /\ Idle.lease = "none" /\ Idle \in RequestRecord
  /\ Fresh \in Upstreams /\ Accounted(Fresh) /\ ~Fresh.ended
BY DEF RequestInv, RequestRecord, LeaseInv, StreamInv, Accounted, Idle, Fresh,
       Upstreams, Usages, Places

\* A request that has given its slot back, or never had one, leaves.
LEMMA AnsweredSteps ==
  ASSUME IInv, NEW r \in Requests, sent' \subseteq Requests, Answered(r)
  PROVE  Steps(r)
<1>1. active' = active + Held(Idle) - Held(req[r]) /\ ~(Held(Idle) > Held(req[r]))
  BY IdleInv, RequestFacts DEF Held, Answered, GivenBack
<1>2. Moves(r, Idle)
  BY <1>1, IdleInv DEF Answered, Moves
<1> QED BY <1>2, RequestFacts DEF Steps, Answered, SharedType

LEMMA ClosingInv ==
  ASSUME NEW q \in RequestRecord, Accounted(q.up), q.up.ended => Complete(q.up),
         q.lease = "held", q.work # "decode", q.wire # "done",
         NEW next \in {"final", "error", "end"}, next = "final" => q.up.ended
  PROVE  RequestInv(Closing(q, next)) /\ Closing(q, next).lease = "held"
<1> DEFINE p == Closing(q, next)
<1>1. p \in RequestRecord
  <2> DEFINE up == IF next = "final" THEN q.up ELSE Fresh
  <2>1. "close" \in Places /\ up \in Upstreams
    BY IdleInv DEF Places, RequestRecord
  <2>2. p = [q EXCEPT !.pc = "close", !.after = next, !.up = up]
    BY DEF Closing
  <2> HIDE DEF up, p
  <2> QED BY <2>1, <2>2 DEF RequestRecord
<1>2. /\ p.pc = "close" /\ p.after = next /\ p.lease = "held" /\ p.work = q.work
      /\ p.wire = q.wire /\ p.up = IF next = "final" THEN q.up ELSE Fresh
  BY DEF RequestRecord, Closing
<1>3. LeaseInv(p)
  BY <1>2 DEF LeaseInv, RequestRecord
<1>4. StreamInv(p)
  BY <1>2, IdleInv DEF StreamInv
<1> QED BY <1>1, <1>2, <1>3, <1>4 DEF RequestInv

\* The response is over: its finally, or the generator's own, comes next.
LEMMA EndedSteps ==
  ASSUME IInv, NEW r \in Requests, NEW q \in RequestRecord,
         req[r].lease = "held", q.lease = "held", Ended(r, q)
  PROVE  Steps(r)
<1> DEFINE last == [Idle EXCEPT !.pc = "return", !.lease = q.lease]
           gone == [last EXCEPT !.lease = "released"]
<1>1. last.lease = "held" /\ last \in RequestRecord
  BY IdleInv DEF RequestRecord, Places, Idle
<1>2. CASE Vision
  <2>1. RequestInv(last)
    BY <1>1, <1>2, IdleInv DEF RequestInv, LeaseInv, StreamInv, Idle
  <2> QED BY <1>1, <1>2, <2>1, BecomesSteps DEF Ended
<1>3. CASE ~Vision
  <2>1. gone \in RequestRecord
    BY <1>1 DEF RequestRecord
  <2>2. /\ gone.pc = "return" /\ gone.lease = "released" /\ gone.work = "none"
        /\ gone.up = Fresh /\ gone.wire = "none"
    BY DEF Idle
  <2>3. RequestInv(gone)
    BY <1>3, <2>1, <2>2, IdleInv DEF RequestInv, LeaseInv, StreamInv
  <2> QED BY <1>1, <1>3, <2>3, ReleasesSteps DEF Ended
<1> QED BY <1>2, <1>3

LEMMA AbandonedSteps ==
  ASSUME IInv, NEW r \in Requests, req[r].lease = "held", req[r].work # "decode",
         req[r].wire # "done", Abandoned(r)
  PROVE  Steps(r)
<1>1. CASE req[r].work = "open"
  <2>1. RequestInv(Closing(req[r], "end")) /\ Closing(req[r], "end").lease = "held"
    BY RequestFacts, ClosingInv DEF RequestInv, StreamInv
  <2> QED BY <1>1, <2>1, BecomesSteps DEF Abandoned
<1>2. CASE req[r].work # "open"
  BY <1>2, RequestFacts, EndedSteps DEF Abandoned
<1> QED BY <1>1, <1>2

-----------------------------------------------------------------------------
(* Admission and the image *)

LEMMA ArriveSteps ==
  ASSUME IInv, NEW r \in Requests, NEW streams \in BOOLEAN, Arrive(r, streams)
  PROVE  Steps(r)
<1> DEFINE asks == [Idle EXCEPT !.pc = "quota", !.streams = streams]
           body == [Idle EXCEPT !.pc = "body", !.streams = streams]
           q == [body EXCEPT !.lease = "held"]
<1>1. req[r].lease = "none"
  BY RequestFacts DEF Arrive, RequestInv, LeaseInv
<1>2. CASE Vision
  <2>1. q \in RequestRecord
    BY IdleInv DEF RequestRecord, Places, Idle
  <2>2. /\ q.pc = "body" /\ q.lease = "held" /\ q.work = "none"
        /\ q.up = Fresh /\ q.wire = "none"
    BY DEF Idle
  <2>3. RequestInv(q)
    BY <1>2, <2>1, <2>2, IdleInv DEF RequestInv, LeaseInv, StreamInv
  <2>4. Moves(r, q)
    BY <1>1, <1>2, <2>2, <2>3, RequestFacts DEF Arrive, Acquired, Moves, Held
  <2> QED BY <1>2, <2>4, RequestFacts DEF Steps, Arrive, SharedType
<1>3. CASE ~Vision
  <2>1. asks \in RequestRecord
    BY IdleInv DEF RequestRecord, Places, Idle
  <2>2. /\ asks.pc = "quota" /\ asks.lease = "none" /\ asks.work = "none"
        /\ asks.up = Fresh /\ asks.wire = "none"
    BY DEF Idle
  <2>3. RequestInv(asks)
    BY <2>1, <2>2, IdleInv DEF RequestInv, LeaseInv, StreamInv
  <2>4. Moves(r, asks)
    BY <1>1, <1>3, <2>2, <2>3, RequestFacts DEF Arrive, Moves, Held
  <2> QED BY <1>3, <2>4, RequestFacts DEF Steps, Arrive, SharedType
<1> QED BY <1>2, <1>3

\* An answer of Redis moves no slot.
LEMMA RunScriptSteps ==
  ASSUME IInv, NEW r \in Requests, RunScript(r)
  PROVE  Steps(r)
<1> DEFINE q == IF req[r].pc = "quota"
                THEN [req[r] EXCEPT !.reply = IF quota.count < QuotaLimit THEN "yes" ELSE "no"]
                ELSE req[r]
<1>1. q \in RequestRecord
  BY RequestFacts DEF RequestRecord
<1>2. /\ q.pc = req[r].pc /\ q.lease = req[r].lease /\ q.work = req[r].work
      /\ q.up = req[r].up /\ q.wire = req[r].wire /\ q.after = req[r].after
  BY RequestFacts DEF RequestRecord
<1>3. RequestInv(q)
  BY <1>1, <1>2, RequestFacts DEF RequestInv, LeaseInv, StreamInv
<1>4. req' = [req EXCEPT ![r] = q]
  BY DEF RunScript, IInv, TypeOK
<1>5. Moves(r, q)
  <2>1. active' = active /\ endpoint' = endpoint /\ Held(q) = Held(req[r])
    BY <1>2 DEF RunScript, Held
  <2>2. Held(req[r]) \in {0, 1} /\ active \in Nat
    BY RequestFacts DEF Held
  <2> HIDE DEF q
  <2> QED BY <1>3, <1>4, <2>1, <2>2 DEF Moves
<1>6. quota' \in [count : 0..QuotaLimit, expires : BOOLEAN]
  <2>1. QuotaLimit \in Nat \ {0} /\ quota \in [count : 0..QuotaLimit, expires : BOOLEAN]
    BY RequestFacts, GatewayAssumption DEF SharedType
  <2>2. Repaired(quota.count + 1 = 1 \/ quota.expires) \in BOOLEAN
    BY <2>1 DEF Repaired
  <2> QED BY <2>1, <2>2 DEF RunScript
<1> QED BY <1>5, <1>6, RequestFacts DEF Steps, RunScript, SharedType

LEMMA AdmitSteps ==
  ASSUME IInv, NEW r \in Requests, Admit(r)
  PROVE  Steps(r)
<1> DEFINE q == [[req[r] EXCEPT !.pc = "start", !.reply = "none"] EXCEPT !.lease = "held"]
<1>1. /\ q \in RequestRecord
      /\ q.pc = "start" /\ q.lease = "held" /\ q.work = req[r].work
      /\ q.up = req[r].up /\ q.wire = req[r].wire
  <2>1. "start" \in Places /\ req[r] \in RequestRecord
    BY RequestFacts DEF Places
  <2> QED BY <2>1 DEF RequestRecord
<1>2. req[r].pc = "quota" /\ req[r].lease = "none" /\ req[r].work = "none"
      /\ req[r].wire # "done" /\ req[r].work # "open"
  BY RequestFacts DEF Admit, RequestInv, RequestRecord, LeaseInv, StreamInv
<1>3. RequestInv(q)
  BY <1>1, <1>2, RequestFacts DEF RequestInv, LeaseInv, StreamInv
<1>4. Moves(r, q)
  BY <1>1, <1>2, <1>3, RequestFacts DEF Admit, Acquired, Moves, Held
<1> QED BY <1>4, RequestFacts DEF Steps, Admit, SharedType

\* The steps that answer a request at once.
LEMMA RefusalSteps ==
  ASSUME IInv, NEW r \in Requests, QuotaFails(r) \/ Refuse(r) \/ BodyFails(r)
  PROVE  Steps(r)
<1>1. sent' \subseteq Requests
  BY RequestFacts DEF QuotaFails, Refuse, BodyFails, SharedType
<1> QED BY <1>1, AnsweredSteps DEF QuotaFails, Refuse, BodyFails

\* The request goes on from place to place with what it has.
LEMMA PlaceSteps ==
  ASSUME IInv, NEW r \in Requests, NEW pc \in Places, NEW work \in {"none", "decode", "open"},
         LET q == [req[r] EXCEPT !.pc = pc, !.work = work]
         IN (LeaseInv(q) /\ StreamInv(q)) /\ Becomes(r, q)
  PROVE  Steps(r)
<1> DEFINE q == [req[r] EXCEPT !.pc = pc, !.work = work]
<1>1. q \in RequestRecord /\ q.lease = req[r].lease
  BY RequestFacts DEF RequestRecord
<1>2. RequestInv(q)
  BY <1>1 DEF RequestInv
<1> QED BY <1>1, <1>2, BecomesSteps

LEMMA BodyArrivesSteps ==
  ASSUME IInv, NEW r \in Requests, BodyArrives(r)
  PROVE  Steps(r)
<1> DEFINE q == [req[r] EXCEPT !.pc = "decode", !.work = "decode"]
<1>1. /\ q.pc = "decode" /\ q.lease = req[r].lease /\ q.work = "decode"
      /\ q.up = req[r].up /\ q.wire = req[r].wire
  BY RequestFacts DEF RequestRecord
<1>2. req[r].pc = "body" /\ Becomes(r, q)
  BY DEF BodyArrives
<1>3. LeaseInv(q) /\ StreamInv(q)
  BY <1>1, <1>2, RequestFacts DEF RequestInv, LeaseInv, StreamInv
<1> QED BY <1>2, <1>3, PlaceSteps DEF Places

\* The thread ends where its request still waits for it.
LEMMA DecodeEndsSteps ==
  ASSUME IInv, NEW r \in Requests, DecodeEnds(r)
  PROVE  Steps(r)
<1>1. PICK pc \in {"start", "return"} :
        Becomes(r, [req[r] EXCEPT !.work = "none", !.pc = pc])
  <2>1. req[r].pc \in {"decode", "undecode"}
    BY RequestFacts DEF DecodeEnds, RequestInv, LeaseInv
  <2>2. CASE req[r].pc = "decode"
    BY <2>2 DEF DecodeEnds
  <2>3. CASE req[r].pc = "undecode"
    BY <2>3 DEF DecodeEnds
  <2> QED BY <2>1, <2>2, <2>3
<1> DEFINE q == [req[r] EXCEPT !.pc = pc, !.work = "none"]
<1>2. q = [req[r] EXCEPT !.work = "none", !.pc = pc]
  BY RequestFacts DEF RequestRecord
<1>3. /\ q.pc = pc /\ q.lease = req[r].lease /\ q.work = "none"
      /\ q.up = req[r].up /\ q.wire = req[r].wire
  BY RequestFacts DEF RequestRecord
<1>4. req[r].lease = "held" /\ req[r].pc \in {"decode", "undecode"}
  BY RequestFacts DEF DecodeEnds, RequestInv, LeaseInv
<1>5. Vision
  BY <1>4, RequestFacts DEF RequestInv, LeaseInv
<1>6. LeaseInv(q) /\ StreamInv(q)
  BY <1>3, <1>4, <1>5, RequestFacts DEF RequestInv, LeaseInv, StreamInv
<1> QED BY <1>1, <1>2, <1>6, PlaceSteps DEF Places

-----------------------------------------------------------------------------
(* The stream *)

\* What an adapter takes leaves an account that covers the text.
LEMMA ConsumedAccounts ==
  ASSUME NEW u \in Upstreams, NEW f \in Frames, Accounted(u), ~u.ended
  PROVE  /\ Trusts(u, f) => /\ Consumed(u, f) \in Upstreams
                            /\ Accounted(Consumed(u, f)) /\ ~Consumed(u, f).ended
         /\ TrustsRay(u, f) => /\ ConsumedRay(u, f) \in Upstreams
                               /\ Accounted(ConsumedRay(u, f)) /\ ~ConsumedRay(u, f).ended
<1>1. ASSUME Trusts(u, f)
      PROVE  Consumed(u, f) \in Upstreams /\ Accounted(Consumed(u, f)) /\ ~Consumed(u, f).ended
  <2>1. Consumed(u, f) \in Upstreams /\ ~Consumed(u, f).ended
    BY DEF Consumed, Upstreams, Frames
  <2>2. /\ Consumed(u, f).finish <=> (u.finish \/ f.finish)
        /\ Consumed(u, f).visible <=> (u.visible \/ f.text)
        /\ Consumed(u, f).usage = f.usage
    BY DEF Consumed, Upstreams, Frames
  <2>3. f.usage \in Usages
    BY DEF Frames
  <2>4. f.usage # "none" => /\ u.finish \/ f.finish
                            /\ f.usage # "over"
                            /\ u.visible \/ f.text => f.usage # "zero"
    BY <1>1 DEF Trusts, Consistent
  <2>5. f.usage # "none" => /\ f.usage # "over"
                            /\ u.visible \/ f.text => f.usage = "fits"
    BY <2>3, <2>4 DEF Usages
  <2>6. Accounted(Consumed(u, f))
    BY <2>2, <2>4, <2>5 DEF Accounted
  <2> QED BY <2>1, <2>6
<1>2. ASSUME TrustsRay(u, f)
      PROVE  ConsumedRay(u, f) \in Upstreams /\ Accounted(ConsumedRay(u, f)) /\ ~ConsumedRay(u, f).ended
  <2>1. ConsumedRay(u, f) \in Upstreams /\ ~ConsumedRay(u, f).ended
    BY DEF ConsumedRay, Upstreams, Frames, Usages
  <2>2. /\ ConsumedRay(u, f).finish <=> f.finish
        /\ ConsumedRay(u, f).visible <=> (u.visible \/ f.text)
        /\ ConsumedRay(u, f).usage = IF f.finish THEN f.usage ELSE "none"
    BY DEF ConsumedRay, Upstreams, Frames
  <2>3. f.usage \in Usages
    BY DEF Frames
  <2>4. f.finish => /\ ~f.text
                    /\ f.usage # "over"
                    /\ u.visible => f.usage # "zero"
    BY <1>2 DEF TrustsRay, Consistent
  <2>5. f.finish => /\ f.usage # "over"
                    /\ f.usage # "none"
                    /\ u.visible \/ f.text => f.usage = "fits"
    BY <1>2, <2>3, <2>4 DEF TrustsRay, Usages
  <2>6. Accounted(ConsumedRay(u, f))
    BY <2>2, <2>5 DEF Accounted
  <2> QED BY <2>1, <2>6
<1> QED BY <1>1, <1>2

\* What a request at the engine has: the slot, and no answer yet.
LEMMA AtEngine ==
  ASSUME IInv, NEW r \in Requests, req[r].pc \in {"pull", "push"}
  PROVE  /\ req[r] \in RequestRecord /\ req[r].lease = "held"
         /\ req[r].work # "decode" /\ req[r].wire # "done"
         /\ req[r].up \in Upstreams /\ Accounted(req[r].up)
         /\ req[r].up.ended => Complete(req[r].up)
         /\ req[r].pc = "pull" => ~req[r].up.ended
BY RequestFacts DEF RequestInv, RequestRecord, LeaseInv, StreamInv

LEMMA CloseSteps ==
  ASSUME IInv, NEW r \in Requests, req[r].pc \in {"pull", "push"},
         NEW next \in {"error", "end"}, Becomes(r, Closing(req[r], next))
  PROVE  Steps(r)
BY AtEngine, ClosingInv, BecomesSteps

LEMMA BackendFrameSteps ==
  ASSUME IInv, NEW r \in Requests, NEW f \in Frames, BackendFrame(r, f)
  PROVE  Steps(r)
<1>1. req[r].pc = "pull"
  BY DEF BackendFrame
<1>2. CASE Trusted(req[r], f)
  <2> DEFINE up == IF endpoint = "ray" THEN ConsumedRay(req[r].up, f) ELSE Consumed(req[r].up, f)
             pc == IF f.text \/ (endpoint = "ray" /\ ~f.finish) THEN "push" ELSE "pull"
  <2>0. Becomes(r, [req[r] EXCEPT !.up = up, !.pc = pc])
    BY <1>2 DEF BackendFrame
  <2>1. up \in Upstreams /\ Accounted(up) /\ ~up.ended
    <3>1. CASE endpoint = "ray"
      BY <1>1, <1>2, <3>1, AtEngine, ConsumedAccounts DEF Trusted
    <3>2. CASE endpoint # "ray"
      BY <1>1, <1>2, <3>2, AtEngine, ConsumedAccounts DEF Trusted
    <3> QED BY <3>1, <3>2
  <2>. pc \in {"push", "pull"}
    OBVIOUS
  <2> HIDE DEF up, pc
  <2> DEFINE q == [req[r] EXCEPT !.up = up, !.pc = pc]
  <2>2. /\ q \in RequestRecord /\ q.pc = pc /\ q.lease = "held" /\ q.up = up
        /\ q.work = req[r].work /\ q.wire = req[r].wire
    BY <1>1, <2>1, AtEngine DEF RequestRecord, Places
  <2>3. RequestInv(q)
    BY <1>1, <2>1, <2>2, AtEngine DEF RequestInv, LeaseInv, StreamInv
  <2> QED BY <1>1, <2>0, <2>2, <2>3, AtEngine, BecomesSteps
<1>3. CASE ~Trusted(req[r], f)
  BY <1>1, <1>3, CloseSteps DEF BackendFrame
<1> QED BY <1>2, <1>3

LEMMA BackendEndsSteps ==
  ASSUME IInv, NEW r \in Requests, BackendEnds(r)
  PROVE  Steps(r)
<1> DEFINE last == [req[r] EXCEPT !.up.ended = TRUE]
           pushed == [last EXCEPT !.pc = "push"]
<1>1. req[r].pc = "pull"
  BY DEF BackendEnds
<1>2. CASE ~Complete(req[r].up)
  BY <1>1, <1>2, CloseSteps DEF BackendEnds
<1>3. CASE Complete(req[r].up)
  <2>1. /\ last \in RequestRecord /\ last.lease = "held" /\ last.work = req[r].work
        /\ last.wire = req[r].wire /\ last.up = [req[r].up EXCEPT !.ended = TRUE]
    <3> DEFINE ended == [req[r].up EXCEPT !.ended = TRUE]
    <3>1. req[r] \in RequestRecord /\ req[r].lease = "held" /\ req[r].up \in Upstreams
      BY <1>1, AtEngine
    <3>2. ended \in Upstreams
      BY <3>1 DEF Upstreams
    <3>3. last = [req[r] EXCEPT !.up = ended]
      BY <3>1 DEF RequestRecord
    <3> HIDE DEF ended, last
    <3>4. last \in RequestRecord /\ last.lease = req[r].lease /\ last.work = req[r].work
          /\ last.wire = req[r].wire /\ last.up = ended
      BY <3>1, <3>2, <3>3 DEF RequestRecord
    <3> QED BY <3>1, <3>4 DEF ended
  <2>2. last.up.ended /\ Complete(last.up) /\ Accounted(last.up)
    BY <1>1, <1>3, <2>1, AtEngine DEF Upstreams, Complete, Accounted
  <2>3. CASE Vision
    <3>1. RequestInv(Closing(last, "final")) /\ Closing(last, "final").lease = "held"
      BY <1>1, <2>1, <2>2, AtEngine, ClosingInv
    <3> QED BY <1>1, <1>3, <2>3, <3>1, AtEngine, BecomesSteps DEF BackendEnds
  <2>4. CASE ~Vision
    <3>1. /\ pushed \in RequestRecord /\ pushed.pc = "push" /\ pushed.lease = "held"
          /\ pushed.work = req[r].work /\ pushed.wire = req[r].wire /\ pushed.up = last.up
      BY <2>1 DEF RequestRecord, Places
    <3>2. RequestInv(pushed)
      BY <1>1, <2>2, <3>1, AtEngine DEF RequestInv, LeaseInv, StreamInv
    <3> QED BY <1>1, <1>3, <2>4, <3>1, <3>2, AtEngine, BecomesSteps DEF BackendEnds
  <2> QED BY <2>3, <2>4
<1> QED BY <1>2, <1>3

LEMMA BackendBreaksSteps ==
  ASSUME IInv, NEW r \in Requests, BackendBreaks(r)
  PROVE  Steps(r)
BY CloseSteps DEF BackendBreaks

\* The engine is closed: what comes next was decided before.
LEMMA EngineClosesSteps ==
  ASSUME IInv, NEW r \in Requests, EngineCloses(r)
  PROVE  Steps(r)
<1> DEFINE q == [req[r] EXCEPT !.work = "none"]
           next == [q EXCEPT !.pc = q.after]
<1>1. /\ req[r].pc = "close" /\ req[r].lease = "held" /\ req[r].wire # "done"
      /\ req[r].after \in {"final", "error", "end"}
      /\ req[r].after = "final" => req[r].up.ended
  BY RequestFacts DEF EngineCloses, RequestInv, RequestRecord, LeaseInv, StreamInv
<1>2. /\ q \in RequestRecord /\ q.lease = "held" /\ q.work = "none" /\ q.pc = "close"
      /\ q.up = req[r].up /\ q.wire = req[r].wire /\ q.after = req[r].after
  BY <1>1, RequestFacts DEF RequestRecord
<1>3. CASE q.after = "end"
  BY <1>1, <1>2, <1>3, EndedSteps DEF EngineCloses
<1>4. CASE q.after \in {"final", "error"}
  <2>1. /\ next \in RequestRecord /\ next.pc = q.after /\ next.lease = "held"
        /\ next.work = "none" /\ next.up = req[r].up /\ next.wire = req[r].wire
    BY <1>2, <1>4 DEF RequestRecord, Places
  <2>2. RequestInv(next)
    BY <1>1, <1>2, <1>4, <2>1, RequestFacts DEF RequestInv, LeaseInv, StreamInv
  <2> QED BY <1>1, <1>2, <1>4, <2>1, <2>2, BecomesSteps DEF EngineCloses
<1> QED BY <1>1, <1>2, <1>3, <1>4

\* What a request in a send of its response has.
LEMMA AtSend ==
  ASSUME IInv, NEW r \in Requests, req[r].pc \in Sending
  PROVE  /\ req[r] \in RequestRecord /\ req[r].work # "decode"
         /\ req[r].pc # "tail" => req[r].lease = "held" /\ req[r].wire # "done"
         /\ req[r].pc = "tail" => req[r].lease = IF Vision THEN "held" ELSE "released"
         /\ req[r].pc # "push" => req[r].work = "none"
         /\ req[r].pc \in {"final", "done"} => req[r].up.ended
         /\ req[r].pc = "start" => ~req[r].up.ended
         /\ req[r].up \in Upstreams /\ Accounted(req[r].up)
         /\ req[r].up.ended => Complete(req[r].up)
BY RequestFacts DEF Sending, RequestInv, RequestRecord, LeaseInv, StreamInv

LEMMA StartSteps ==
  ASSUME IInv, NEW r \in Requests, req[r].pc = "start",
         Becomes(r, Begun(req[r]))
  PROVE  Steps(r)
<1> DEFINE late == [req[r] EXCEPT !.pc = "error"]
           asks == [req[r] EXCEPT !.pc = "pull", !.work = "open"]
<1>1. req[r].pc \in Sending
  BY DEF Sending
<1>2. CASE req[r].late
  <2>1. /\ late \in RequestRecord /\ late.pc = "error" /\ late.lease = "held"
        /\ late.work = "none" /\ late.up = req[r].up /\ late.wire = req[r].wire
    BY <1>1, AtSend DEF RequestRecord, Places
  <2>2. RequestInv(late)
    BY <1>1, <2>1, AtSend DEF RequestInv, LeaseInv, StreamInv
  <2> QED BY <1>1, <1>2, <2>1, <2>2, AtSend, BecomesSteps DEF Begun
<1>3. CASE ~req[r].late
  <2>1. /\ asks \in RequestRecord /\ asks.pc = "pull" /\ asks.lease = "held"
        /\ asks.work = "open" /\ asks.up = req[r].up /\ asks.wire = req[r].wire
    BY <1>1, AtSend DEF RequestRecord, Places
  <2>2. RequestInv(asks)
    BY <1>1, <2>1, AtSend DEF RequestInv, LeaseInv, StreamInv
  <2> QED BY <1>1, <1>3, <2>1, <2>2, AtSend, BecomesSteps DEF Begun
<1> QED BY <1>2, <1>3

LEMMA PushSteps ==
  ASSUME IInv, NEW r \in Requests, req[r].pc = "push",
         Becomes(r, IF req[r].up.ended THEN Closing(req[r], "final")
                                       ELSE [req[r] EXCEPT !.pc = "pull"])
  PROVE  Steps(r)
<1> DEFINE q == [req[r] EXCEPT !.pc = "pull"]
<1>1. CASE req[r].up.ended
  <2>1. RequestInv(Closing(req[r], "final")) /\ Closing(req[r], "final").lease = "held"
    BY <1>1, AtEngine, ClosingInv
  <2> QED BY <1>1, <2>1, AtEngine, BecomesSteps
<1>2. CASE ~req[r].up.ended
  <2>1. /\ q \in RequestRecord /\ q.pc = "pull" /\ q.lease = "held"
        /\ q.work = req[r].work /\ q.up = req[r].up /\ q.wire = req[r].wire
    BY AtEngine DEF RequestRecord, Places
  <2>2. RequestInv(q)
    BY <1>2, <2>1, AtEngine DEF RequestInv, LeaseInv, StreamInv
  <2> QED BY <1>2, <2>1, <2>2, AtEngine, BecomesSteps
<1> QED BY <1>1, <1>2

LEMMA FinalSteps ==
  ASSUME IInv, NEW r \in Requests, req[r].pc = "final",
         Becomes(r, [req[r] EXCEPT !.pc = "done", !.wire = "final"])
  PROVE  Steps(r)
<1> DEFINE q == [req[r] EXCEPT !.pc = "done", !.wire = "final"]
<1>1. req[r].pc \in Sending
  BY DEF Sending
<1>2. /\ q \in RequestRecord /\ q.pc = "done" /\ q.lease = "held"
      /\ q.work = "none" /\ q.up = req[r].up /\ q.wire = "final"
  BY <1>1, AtSend DEF RequestRecord, Places
<1>3. RequestInv(q)
  BY <1>1, <1>2, AtSend DEF RequestInv, LeaseInv, StreamInv
<1> QED BY <1>1, <1>2, <1>3, AtSend, BecomesSteps

\* The last frame is out: DONE, or an error.
LEMMA LastFrameSteps ==
  ASSUME IInv, NEW r \in Requests, req[r].pc \in {"done", "error"},
         LET last == [req[r] EXCEPT !.pc = "tail", !.wire = req[r].pc]
         IN IF Vision THEN Becomes(r, last) ELSE Releases(r, last)
  PROVE  Steps(r)
<1> DEFINE q == [req[r] EXCEPT !.pc = "tail", !.wire = req[r].pc]
           gone == [q EXCEPT !.lease = "released"]
<1>1. req[r].pc \in Sending /\ req[r].lease = "held"
  BY AtSend DEF Sending
<1>2. /\ q \in RequestRecord /\ q.pc = "tail" /\ q.lease = "held"
      /\ q.work = "none" /\ q.up = req[r].up /\ q.wire = req[r].pc
  BY <1>1, AtSend DEF RequestRecord, Places
<1>3. CASE Vision
  <2>1. RequestInv(q)
    BY <1>1, <1>2, <1>3, AtSend DEF RequestInv, LeaseInv, StreamInv
  <2> QED BY <1>1, <1>2, <1>3, <2>1, BecomesSteps
<1>4. CASE ~Vision
  <2>1. /\ gone \in RequestRecord /\ gone.pc = "tail" /\ gone.lease = "released"
        /\ gone.work = "none" /\ gone.up = req[r].up /\ gone.wire = req[r].pc
    BY <1>2 DEF RequestRecord
  <2>2. RequestInv(gone)
    BY <1>1, <1>4, <2>1, AtSend DEF RequestInv, LeaseInv, StreamInv
  <2> QED BY <1>1, <1>2, <1>4, <2>2, ReleasesSteps
<1> QED BY <1>3, <1>4

LEMMA TailSteps ==
  ASSUME IInv, NEW r \in Requests, req[r].pc = "tail",
         Becomes(r, [Idle EXCEPT !.pc = "return", !.lease = req[r].lease])
  PROVE  Steps(r)
<1> DEFINE q == [Idle EXCEPT !.pc = "return", !.lease = req[r].lease]
<1>1. req[r].pc \in Sending
  BY DEF Sending
<1>2. /\ q.pc = "return" /\ q.lease = req[r].lease /\ q.work = "none"
      /\ q.up = Fresh /\ q.wire = "none"
  BY DEF Idle
<1>3. q \in RequestRecord
  BY <1>1, AtSend, IdleInv DEF RequestRecord, Places
<1>4. RequestInv(q)
  BY <1>1, <1>2, <1>3, AtSend, IdleInv DEF RequestInv, LeaseInv, StreamInv
<1> QED BY <1>2, <1>4, BecomesSteps

LEMMA DeliverSteps ==
  ASSUME IInv, NEW r \in Requests, Deliver(r)
  PROVE  Steps(r)
<1>1. CASE req[r].pc = "start"
  BY <1>1, AtSend, StartSteps DEF Deliver
<1>2. CASE req[r].pc = "push"
  BY <1>2, PushSteps DEF Deliver
<1>3. CASE req[r].pc = "final"
  BY <1>3, FinalSteps DEF Deliver
<1>4. CASE req[r].pc \in {"done", "error"}
  BY <1>4, LastFrameSteps DEF Deliver
<1>5. CASE req[r].pc = "tail"
  BY <1>5, TailSteps DEF Deliver
<1> QED BY <1>1, <1>2, <1>3, <1>4, <1>5 DEF Deliver, Sending

LEMMA ReturnSteps ==
  ASSUME IInv, NEW r \in Requests, Return(r)
  PROVE  Steps(r)
<1>1. req[r].pc = "return" /\ req[r].work = "none"
  BY RequestFacts DEF Return, RequestInv, RequestRecord, LeaseInv
<1>2. [Idle EXCEPT !.work = req[r].work] = Idle
  <2>1. Idle.work = "none"
    BY DEF Idle
  <2> QED BY <1>1, <2>1, IdleInv DEF RequestRecord
<1>3. Answered(r) /\ sent' \subseteq Requests
  BY <1>2, RequestFacts DEF Return, Answered, SharedType
<1> QED BY <1>3, AnsweredSteps

-----------------------------------------------------------------------------
(* Deadline and cancellation *)

LEMMA TickSteps ==
  ASSUME IInv, NEW r \in Requests, Tick(r)
  PROVE  Steps(r)
<1> DEFINE q == [req[r] EXCEPT !.late = TRUE]
<1>1. /\ q \in RequestRecord /\ q.pc = req[r].pc /\ q.lease = req[r].lease
      /\ q.work = req[r].work /\ q.up = req[r].up /\ q.wire = req[r].wire
      /\ q.after = req[r].after
  BY RequestFacts DEF RequestRecord
<1>2. RequestInv(q)
  BY <1>1, RequestFacts DEF RequestInv, LeaseInv, StreamInv
<1> QED BY <1>1, <1>2, BecomesSteps DEF Tick

\* Whoever interrupts a decoding request, it waits for its thread.
LEMMA UndecodedSteps ==
  ASSUME IInv, NEW r \in Requests, req[r].pc = "decode", Becomes(r, Undecoded(req[r]))
  PROVE  Steps(r)
<1> DEFINE q == [req[r] EXCEPT !.pc = "undecode"]
<1>1. /\ q \in RequestRecord /\ q.pc = "undecode" /\ q.lease = req[r].lease
      /\ q.work = req[r].work /\ q.up = req[r].up /\ q.wire = req[r].wire
  BY RequestFacts DEF RequestRecord, Places
<1>2. RequestInv(q)
  BY <1>1, RequestFacts DEF RequestInv, LeaseInv, StreamInv
<1> QED BY <1>1, <1>2, BecomesSteps DEF Undecoded

\* What a request that is closing its engine has.
LEMMA AtClose ==
  ASSUME IInv, NEW r \in Requests, req[r].pc = "close"
  PROVE  /\ req[r] \in RequestRecord /\ req[r].lease = "held"
         /\ req[r].work # "decode" /\ req[r].wire # "done"
         /\ Accounted(req[r].up)
         /\ req[r].up.ended => Complete(req[r].up)
BY RequestFacts DEF RequestInv, LeaseInv, StreamInv

\* A place is left: the deadline passed, or the client did.
LEMMA LeftSteps ==
  ASSUME IInv, NEW r \in Requests, req[r].pc \in Sending, req[r].lease = "held",
         Abandoned(r)
  PROVE  Steps(r)
<1>1. CASE req[r].wire # "done"
  BY <1>1, AtSend, AbandonedSteps
<1>2. CASE req[r].wire = "done"
  <2>1. req[r].work = "none"
    BY <1>2, AtSend
  <2> QED BY <2>1, AtSend, EndedSteps DEF Abandoned
<1> QED BY <1>1, <1>2

\* The text generator has released before its response ends.
LEMMA LeftTailSteps ==
  ASSUME IInv, NEW r \in Requests, req[r].pc = "tail", ~Vision, Abandoned(r)
  PROVE  Steps(r)
<1> DEFINE q == [Idle EXCEPT !.pc = "return", !.lease = req[r].lease]
<1>1. req[r].pc \in Sending
  BY DEF Sending
<1>2. req[r].lease = "released" /\ req[r].work = "none"
  BY <1>1, AtSend
<1>3. q.lease = "released" /\ q = [q EXCEPT !.lease = IF @ = "held" THEN "released" ELSE @]
  BY <1>2 DEF Idle
<1>4. active' = active /\ req' = [req EXCEPT ![r] = q]
      /\ UNCHANGED <<endpoint, quota, sent, losses>>
  BY <1>2, <1>3 DEF Abandoned, Ended, Releases, GivenBack
<1>5. Becomes(r, q)
  BY <1>4 DEF Becomes
<1> QED BY <1>5, TailSteps

LEMMA DeadlineSteps ==
  ASSUME IInv, NEW r \in Requests, DeadlineFires(r)
  PROVE  Steps(r)
<1>1. CASE req[r].pc = "decode" /\ Becomes(r, Undecoded(req[r]))
  BY <1>1, UndecodedSteps
<1>2. CASE req[r].pc = "pull" /\ Becomes(r, Closing(req[r], "error"))
  BY <1>2, CloseSteps
<1>3. CASE req[r].pc = "close" /\ Becomes(r, Closing(req[r], "error"))
  <2>1. RequestInv(Closing(req[r], "error")) /\ Closing(req[r], "error").lease = "held"
    BY <1>3, AtClose, ClosingInv
  <2> QED BY <1>3, <2>1, AtClose, BecomesSteps
<1>4. CASE req[r].pc \in Sending /\ SendBounded(req[r]) /\ Abandoned(r)
  <2>1. req[r].lease = "held"
    BY <1>4, AtSend DEF SendBounded
  <2> QED BY <1>4, <2>1, LeftSteps
<1> QED BY <1>1, <1>2, <1>3, <1>4 DEF DeadlineFires

LEMMA CancelSteps ==
  ASSUME IInv, NEW r \in Requests, Cancel(r)
  PROVE  Steps(r)
<1>1. CASE UNCHANGED sent /\ Answered(r)
  BY <1>1, RequestFacts, AnsweredSteps DEF SharedType
<1>2. CASE req[r].pc = "decode" /\ Becomes(r, Undecoded(req[r]))
  BY <1>2, UndecodedSteps
<1>3. CASE req[r].pc = "pull" /\ Becomes(r, Closing(req[r], "end"))
  BY <1>3, CloseSteps
<1>4. CASE req[r].pc = "close" /\ Ended(r, [req[r] EXCEPT !.work = "none"])
  <2> DEFINE q == [req[r] EXCEPT !.work = "none"]
  <2>1. q \in RequestRecord /\ q.lease = "held"
    BY <1>4, AtClose DEF RequestRecord
  <2> QED BY <1>4, <2>1, AtClose, EndedSteps
<1>5. CASE req[r].pc \in Sending /\ Abandoned(r)
  <2>1. CASE req[r].lease = "held"
    BY <1>5, <2>1, LeftSteps
  <2>2. CASE req[r].lease # "held"
    <3>1. req[r].pc = "tail" /\ ~Vision
      BY <1>5, <2>2, AtSend
    <3> QED BY <1>5, <3>1, LeftTailSteps
  <2> QED BY <2>1, <2>2
<1> QED BY <1>1, <1>2, <1>3, <1>4, <1>5 DEF Cancel

-----------------------------------------------------------------------------
(* The invariant *)

\* The window opens again, or the key loses its expiry: no request moves.
LEMMA QuotaKeyKeeps ==
  ASSUME IInv, WindowExpires \/ ExpiryIsLost
  PROVE  IInv'
<1>1. UNCHANGED <<endpoint, active, req, sent>>
  BY DEF WindowExpires, ExpiryIsLost
<1>2. quota' \in [count : 0..QuotaLimit, expires : BOOLEAN] /\ losses' \in 0..MaxLosses
  <2>1. /\ quota \in [count : 0..QuotaLimit, expires : BOOLEAN]
        /\ losses \in 0..MaxLosses /\ QuotaLimit \in Nat /\ MaxLosses \in Nat
    BY GatewayAssumption DEF IInv, TypeOK
  <2>2. CASE WindowExpires
    <3>1. quota' = [count |-> 0, expires |-> FALSE] /\ losses' = losses
      BY <2>2 DEF WindowExpires
    <3> QED BY <2>1, <3>1
  <2>3. CASE ExpiryIsLost
    <3>1. losses' \in 0..MaxLosses
      BY <2>1, <2>3 DEF ExpiryIsLost
    <3>2. quota' = [quota EXCEPT !.expires = FALSE]
      BY <2>3 DEF ExpiryIsLost
    <3> QED BY <2>1, <3>1, <3>2
  <2> QED BY <2>2, <2>3
<1>3. TypeOK'
  BY <1>1, <1>2 DEF IInv, TypeOK
<1>4. \A r \in Requests : RequestInv(req[r])'
  BY <1>1 DEF IInv, RequestInv, RequestRecord, LeaseInv, StreamInv, Vision
<1>5. Holders' = Holders
  BY <1>1 DEF Holders
<1> QED BY <1>1, <1>3, <1>4, <1>5 DEF IInv

LEMMA EveryRequestSteps ==
  ASSUME IInv, NEW r \in Requests,
         \/ \E streams \in BOOLEAN : Arrive(r, streams)
         \/ RunScript(r) \/ QuotaFails(r) \/ Refuse(r) \/ Admit(r)
         \/ BodyArrives(r) \/ BodyFails(r) \/ DecodeEnds(r)
         \/ \E f \in Frames : BackendFrame(r, f)
         \/ BackendEnds(r) \/ BackendBreaks(r) \/ EngineCloses(r)
         \/ Deliver(r) \/ Return(r)
         \/ Tick(r) \/ DeadlineFires(r) \/ Cancel(r)
  PROVE  Steps(r)
BY ArriveSteps, RunScriptSteps, RefusalSteps, AdmitSteps, BodyArrivesSteps,
   DecodeEndsSteps, BackendFrameSteps, BackendEndsSteps, BackendBreaksSteps,
   EngineClosesSteps, DeliverSteps, ReturnSteps, TickSteps, DeadlineSteps, CancelSteps

\* No request holds a slot at the start, and every step keeps the invariant.
THEOREM GatewayInductive == Spec => []IInv
<1>1. Init => IInv
  <2> SUFFICES ASSUME Init PROVE IInv
    OBVIOUS
  <2>1. TypeOK
    BY GatewayAssumption, IdleInv DEF Init, TypeOK, RequestRecord
  <2>2. \A r \in Requests : RequestInv(req[r])
    BY IdleInv DEF Init
  <2>3. Holders = {}
    BY IdleInv DEF Init, Holders
  <2> QED BY <2>1, <2>2, <2>3, FS_EmptySet DEF IInv, Init
<1>2. IInv /\ [Next]_vars => IInv'
  <2> SUFFICES ASSUME IInv, [Next]_vars PROVE IInv'
    OBVIOUS
  <2>1. CASE WindowExpires \/ ExpiryIsLost
    BY <2>1, QuotaKeyKeeps
  <2>2. CASE \E r \in Requests :
                \/ \E streams \in BOOLEAN : Arrive(r, streams)
                \/ RunScript(r) \/ QuotaFails(r) \/ Refuse(r) \/ Admit(r)
                \/ BodyArrives(r) \/ BodyFails(r) \/ DecodeEnds(r)
                \/ \E f \in Frames : BackendFrame(r, f)
                \/ BackendEnds(r) \/ BackendBreaks(r) \/ EngineCloses(r)
                \/ Deliver(r) \/ Return(r)
                \/ Tick(r) \/ DeadlineFires(r) \/ Cancel(r)
    BY <2>2, EveryRequestSteps, OneRequestMoves DEF Steps
  <2>3. CASE UNCHANGED vars
    BY <2>3 DEF vars, IInv, TypeOK, RequestInv, RequestRecord, LeaseInv, StreamInv,
                Vision, Holders
  <2> QED BY <2>1, <2>2, <2>3 DEF Next
<1> QED BY <1>1, <1>2, PTL DEF Spec

\* The counter of the pool stays within its limit, and every request is in a
\* state of the endpoint it came to.
THEOREM GatewayTypeCorrect == Spec => []TypeOK
<1>1. IInv => TypeOK
  BY DEF IInv
<1> QED BY <1>1, GatewayInductive, PTL

\* Admission counts each lease once, and nothing works without one, for any
\* number of requests and whoever releases first.
THEOREM SlotsCorrect == Spec => []SlotsCoverWork
<1>1. IInv => SlotsCoverWork
  <2> SUFFICES ASSUME IInv PROVE SlotsCoverWork
    OBVIOUS
  <2>1. active = Cardinality({r \in Requests : req[r].lease = "held"})
    BY DEF IInv, Holders
  <2>2. \A r \in Requests : req[r].work # "none" => req[r].lease = "held"
    BY DEF IInv, RequestInv, RequestRecord, LeaseInv
  <2> QED BY <2>1, <2>2 DEF SlotsCoverWork
<1> QED BY <1>1, GatewayInductive, PTL

\* Whatever frames an engine sends in whatever order, DONE follows a complete
\* and accounted answer only.
THEOREM DoneCorrect == Spec => []HonestDone
<1>1. IInv => HonestDone
  <2> SUFFICES ASSUME IInv, NEW r \in Requests, req[r].wire = "done"
               PROVE  /\ req[r].up.ended /\ req[r].up.finish
                      /\ req[r].up.usage \in {"zero", "fits"}
                      /\ req[r].up.visible => req[r].up.usage = "fits"
    BY DEF HonestDone
  <2>1. /\ req[r].up.ended /\ Complete(req[r].up) /\ Accounted(req[r].up)
        /\ req[r].up.usage \in Usages
    BY RequestFacts DEF RequestInv, RequestRecord, StreamInv, Upstreams
  <2> QED BY <2>1 DEF Complete, Accounted, Usages
<1> QED BY <1>1, GatewayInductive, PTL

-----------------------------------------------------------------------------
(* Implementation of Slots *)

SlotOf(q) == IF q.lease = "held" THEN "pool" ELSE "none"
Slotted == [r \in Requests |-> SlotOf(req[r])]
Working == {r \in Requests : req[r].work # "none"}
InUse == [p \in {"pool"} |-> Working]

LEMMA SamePool ==
  /\ Pool!HeldOn("pool") = Holders
  /\ \A S : Pool!Cardinality(S) = Cardinality(S)
<1>1. Pool!HeldOn("pool") = Holders
  BY DEF Pool!HeldOn, Holders
<1> QED BY <1>1 DEF Pool!Cardinality, Cardinality

\* A step of one request takes, enters, leaves or gives back a slot.
LEMMA RequestSlots ==
  ASSUME IInv, NEW r \in Requests, NEW q, Moves(r, q)
  PROVE  [Pool!Next]_<<Slotted, InUse>>
<1>1. /\ req \in [Requests -> RequestRecord] /\ q \in RequestRecord
      /\ req'[r] = q /\ \A s \in Requests \ {r} : req'[s] = req[s]
  BY DEF IInv, TypeOK, RequestRecord, Moves, RequestInv
<1>2. /\ req[r].work # "none" => req[r].lease = "held"
      /\ q.work # "none" => q.lease = "held"
  BY <1>1, RequestFacts DEF Moves, RequestInv, LeaseInv, RequestRecord
<1>3. Slotted' = [Slotted EXCEPT ![r] = SlotOf(q)] /\ Slotted[r] = SlotOf(req[r])
  BY <1>1 DEF Slotted
<1>4. InUse' = [InUse EXCEPT !["pool"] = Working'] /\ InUse["pool"] = Working
  BY DEF InUse
<1>5. Working' = IF q.work = "none" THEN Working \ {r} ELSE Working \cup {r}
  BY <1>1 DEF Working
<1>6. CASE Held(q) > Held(req[r])
  <2>1. q.lease = "held" /\ req[r].lease # "held" /\ q.work = "none" /\ active < Capacity
    BY <1>6 DEF Moves, Held
  <2>2. InUse' = InUse
    BY <1>2, <1>5, <2>1 DEF InUse, Working
  <2>3. Cardinality(Holders) < Capacity
    BY <2>1 DEF IInv
  <2>4. Pool!Take(r, "pool")
    BY <1>3, <2>1, <2>2, <2>3, SamePool DEF Pool!Take, Slotted, InUse, Working, SlotOf
  <2> QED BY <2>4 DEF Pool!Next
<1>7. CASE q.lease # "held" /\ req[r].lease = "held"
  <2>1. Slotted' = [Slotted EXCEPT ![r] = "none"]
    BY <1>3, <1>7 DEF SlotOf
  <2>2. InUse' = [p \in {"pool"} |-> InUse[p] \ {r}]
    BY <1>2, <1>5, <1>7 DEF InUse
  <2>3. Pool!Give(r)
    BY <2>1, <2>2 DEF Pool!Give, Slotted, InUse, Working, SlotOf
  <2> QED BY <2>3 DEF Pool!Next
<1>8. CASE q.lease = "held" <=> req[r].lease = "held"
  <2>1. Slotted' = Slotted
    BY <1>3, <1>8 DEF SlotOf, Slotted
  <2>2. CASE q.work = "none"
    <3>1. Pool!Leave("pool")
      BY <1>4, <1>5, <2>1, <2>2 DEF Pool!Leave, Slotted, InUse, Working, SlotOf
    <3> QED BY <3>1 DEF Pool!Next
  <2>3. CASE q.work # "none"
    <3>1. Slotted[r] = "pool"
      BY <1>2, <1>3, <1>8, <2>3 DEF SlotOf
    <3>2. Pool!Enter(r, "pool")
      BY <1>4, <1>5, <2>1, <2>3, <3>1 DEF Pool!Enter, Slotted, InUse, Working, SlotOf
    <3> QED BY <3>2 DEF Pool!Next
  <2> QED BY <2>2, <2>3
<1> QED BY <1>6, <1>7, <1>8 DEF Held

\* The gateway implements Slots for each endpoint: a decoding thread and an
\* engine stream have one of Capacity slots from before they begin until they
\* have ended, although generator and response both release the lease.
THEOREM PoolCorrect == Spec => KeepsSlots
<1>1. Init => Pool!Init
  BY DEF Init, Pool!Init, Idle
<1>2. ASSUME IInv, [Next]_vars PROVE [Pool!Next]_<<Slotted, InUse>>
  <2>1. ASSUME NEW r \in Requests,
               \/ \E streams \in BOOLEAN : Arrive(r, streams)
               \/ RunScript(r) \/ QuotaFails(r) \/ Refuse(r) \/ Admit(r)
               \/ BodyArrives(r) \/ BodyFails(r) \/ DecodeEnds(r)
               \/ \E f \in Frames : BackendFrame(r, f)
               \/ BackendEnds(r) \/ BackendBreaks(r) \/ EngineCloses(r)
               \/ Deliver(r) \/ Return(r)
               \/ Tick(r) \/ DeadlineFires(r) \/ Cancel(r)
        PROVE  [Pool!Next]_<<Slotted, InUse>>
    BY <1>2, <2>1, EveryRequestSteps, RequestSlots DEF Steps
  <2>2. CASE WindowExpires \/ ExpiryIsLost \/ UNCHANGED vars
    BY <2>2 DEF WindowExpires, ExpiryIsLost, vars, Slotted, InUse, Working
  <2> QED BY <1>2, <2>1, <2>2 DEF Next
<1> QED BY <1>1, <1>2, GatewayInductive, PTL
        DEF Spec, KeepsSlots, Pool!Spec, Slotted, InUse, Working, SlotOf
=============================================================================
