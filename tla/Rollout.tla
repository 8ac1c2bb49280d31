------------------------------ MODULE Rollout ------------------------------
(***************************************************************************)
(* What a FinServe deployment promises to whoever sends it traffic,        *)
(* whatever stores, workers and probes are behind it.  One revision takes  *)
(* the traffic and one is trusted.  Traffic leaves the trusted revision    *)
(* for a single candidate at a time; from a candidate it can only be given *)
(* back to the trusted revision, unless that very candidate becomes        *)
(* trusted first.  Every cutover is numbered.                              *)
(***************************************************************************)
EXTENDS Integers

CONSTANTS Revisions,  \* immutable revision identities
          None        \* "not yet": neither traffic nor trust

VARIABLES traffic,    \* the revision new requests are sent to
          trusted,    \* the revision a failed candidate gives way to
          cutover     \* the number of the last cutover, -1 before the first

vars == <<traffic, trusted, cutover>>

Init == traffic = None /\ trusted = None /\ cutover = -1

\* The first revision to take traffic.
Seed == /\ traffic = None
        /\ traffic' \in Revisions
        /\ cutover' = 0
        /\ UNCHANGED trusted

\* The revision that has the traffic has been proven.
Trust == /\ traffic # None
         /\ trusted' = traffic
         /\ UNCHANGED <<traffic, cutover>>

\* A candidate takes the traffic, but only from a trusted revision.
Cutover == /\ traffic = trusted
           /\ traffic # None
           /\ traffic' \in Revisions \ {traffic}
           /\ cutover' = cutover + 1
           /\ UNCHANGED trusted

\* The candidate failed: the trusted revision takes the traffic back.
Restore == /\ traffic # trusted
           /\ trusted # None
           /\ traffic' = trusted
           /\ cutover' = cutover + 1
           /\ UNCHANGED trusted

Next == Seed \/ Trust \/ Cutover \/ Restore

Spec == Init /\ [][Next]_vars
=============================================================================
