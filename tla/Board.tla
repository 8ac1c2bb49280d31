-------------------------------- MODULE Board ---------------------------------
(***************************************************************************)
(* What a bounded board of jobs promises to those who submit them, and to  *)
(* whoever owns the machine that computes.  A job waits, is taken once,    *)
(* may be called off, and ends once; the machine works for one job at a    *)
(* time, only for one that was taken and has not ended, and a job ends     *)
(* only when the machine has let go of it.                                 *)
(***************************************************************************)
EXTENDS Integers, FiniteSets

CONSTANTS Jobs, MaxPending, MaxRecords

VARIABLES
  state,     \* what has become of each job
  computing  \* the jobs the machine works for

Pending == {j \in Jobs : state[j] \in {"queued", "running", "cancel_requested"}}
Known == {j \in Jobs : state[j] # "none"}

Init ==
  /\ state = [j \in Jobs |-> "none"]
  /\ computing = {}

Becomes(j, from, to) ==
  /\ state[j] = from
  /\ state' = [state EXCEPT ![j] = to]
  /\ UNCHANGED computing

Submit(j) ==
  /\ Cardinality(Pending) < MaxPending
  /\ Cardinality(Known) < MaxRecords
  /\ Becomes(j, "none", "queued")

Take(j) == Becomes(j, "queued", "running")

CallOff(j) ==
  \/ Becomes(j, "queued", "cancelled")
  \/ Becomes(j, "running", "cancel_requested")

End(j) ==
  /\ j \notin computing
  /\ \/ Becomes(j, "running", "succeeded")
     \/ Becomes(j, "cancel_requested", "cancelled")
     \/ Becomes(j, "cancel_requested", "failed")

Compute(j) ==
  /\ state[j] \in {"running", "cancel_requested"}
  /\ computing = {}
  /\ computing' = {j}
  /\ UNCHANGED state

\* The computation ends, or is lost with the machine.
LetGo ==
  /\ computing' = {}
  /\ UNCHANGED state

Next ==
  \/ \E j \in Jobs : Submit(j) \/ Take(j) \/ CallOff(j) \/ End(j) \/ Compute(j)
  \/ LetGo

Spec == Init /\ [][Next]_<<state, computing>>
=============================================================================
