---------------------------- MODULE MCWarmDrain ----------------------------
(* Instances of WarmDrain for TLC. *)
EXTENDS WarmDrain, TLC

CONSTANTS r1, r2, r3, e1, e2

\* The third revision reuses the endpoint of the first.
SharedEndpoint == (r1 :> e1) @@ (r2 :> e2) @@ (r3 :> e1)

\* Requests are interchangeable.
Symmetry == Permutations(Requests)
=============================================================================
