-------------------------- MODULE MCReleaseControl --------------------------
(* Instances of ReleaseControl for TLC. *)
EXTENDS ReleaseControl, TLC

\* Jobs, revisions and workers are interchangeable.
Symmetry == Permutations(Jobs) \cup Permutations(Revisions)
              \cup Permutations(Workers)

\* The traffic is moved at most twice: to a candidate and away from it, or to
\* one candidate after the other.
MaxCutovers == 2
Bounded == route.gen <= MaxCutovers
=============================================================================
