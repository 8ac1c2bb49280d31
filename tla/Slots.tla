------------------------------- MODULE Slots --------------------------------
(***************************************************************************)
(* What a bounded admission promises to whoever owns the resource behind   *)
(* it (the routing actor to a replica, the gateway to its engine): every   *)
(* request that uses it holds one of its slots, from before it begins      *)
(* until it has ended, and there are never more than Capacity.             *)
(***************************************************************************)
EXTENDS Integers, FiniteSets

CONSTANTS Requests, Replicas, None, Capacity

VARIABLES
  held,   \* the replica of which a request holds a slot
  using   \* the requests that occupy a replica

HeldOn(r) == {q \in Requests : held[q] = r}

Init ==
  /\ held = [q \in Requests |-> None]
  /\ using = [r \in Replicas |-> {}]

Take(q, r) ==
  /\ held[q] = None
  /\ Cardinality(HeldOn(r)) < Capacity
  /\ held' = [held EXCEPT ![q] = r]
  /\ UNCHANGED using

Enter(q, r) ==
  /\ held[q] = r
  /\ using' = [using EXCEPT ![r] = @ \cup {q}]
  /\ UNCHANGED held

\* One request ends, or all of them as the replica is lost.
Leave(r) ==
  /\ \E left \in SUBSET using[r] : using' = [using EXCEPT ![r] = left]
  /\ UNCHANGED held

\* Nothing of a request outlasts its slot.
Give(q) ==
  /\ held' = [held EXCEPT ![q] = None]
  /\ using' = [r \in Replicas |-> using[r] \ {q}]

Next ==
  \/ \E q \in Requests, r \in Replicas : Take(q, r) \/ Enter(q, r)
  \/ \E r \in Replicas : Leave(r)
  \/ \E q \in Requests : Give(q)

Spec == Init /\ [][Next]_<<held, using>>
=============================================================================
