-------------------------- MODULE MCProducerPipeline --------------------------
(* ProducerPipeline for TLC: a borrowed baseline and a candidate. *)
EXTENDS ProducerPipeline, TLC

CONSTANTS baseline, candidate

\* Processes are interchangeable.
Symmetry == Permutations(Workers)

\* The DAG launches the candidate once the baseline has been collected; what it
\* does not keep apart is two executions of one task.
Bounded ==
  journal[Launch(candidate)].status # "absent"
    => \A s \in Collections : Cohort(s) = baseline => Done(s)
=============================================================================
