--------------------------- MODULE MCLocalCapacity ---------------------------
(* LocalCapacity for TLC: two plans with two replicas each. *)
EXTENDS LocalCapacity, TLC

CONSTANTS p1, p2

\* The second plan extends the same primary.
SameAnchor == (p1 :> 1) @@ (p2 :> 1)

\* Requests and runners are interchangeable.
Symmetry == Permutations(Requests) \cup Permutations(Runners)

Busy == {q \in Requests : rows[q].at # None}

\* What control makes of a generation that no plan extends does not matter.  A
\* second replica is explored with one request and without a cutover, a second
\* plan up to its first sample.
MaxBusyLater == 1
SecondPlanSamples == 0
Bounded ==
  /\ route.gen = MaxGen => route.control = "pending"
  /\ plan[p1].cycle > 0 => route.gen = 1 /\ Cardinality(Busy) <= MaxBusyLater
  /\ plan[p2].known => /\ plan[p2].samples <= SecondPlanSamples
                       /\ plan[p1].memory = NoMemory
                       /\ route.gen = 1
=============================================================================
