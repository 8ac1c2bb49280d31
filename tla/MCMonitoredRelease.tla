-------------------------- MODULE MCMonitoredRelease --------------------------
(* MonitoredRelease for TLC. *)
EXTENDS MonitoredRelease, TLC

\* Monitors are interchangeable.
Symmetry == Permutations(Monitors)
=============================================================================
