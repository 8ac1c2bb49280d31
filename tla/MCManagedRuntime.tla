--------------------------- MODULE MCManagedRuntime ---------------------------
(* ManagedRuntime for TLC. *)
EXTENDS ManagedRuntime, TLC

Symmetry == Permutations(Workers)

\* The attempts of the three stages together: each may be retried, but not all.
MaxStarts == 3
Bounded ==
  journal["launch"].attempt + journal["abort"].attempt
    + journal["stop"].attempt <= MaxStarts
=============================================================================
