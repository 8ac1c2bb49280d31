---------------------------- MODULE MCVisualJobs ----------------------------
(* VisualJobs for TLC. *)
EXTENDS VisualJobs, TLC

\* A replaced worker process is explored with one job, the queue of two with
\* one worker process.
MaxJobsLater == 1
Bounded == instance > 1 => Cardinality(Known) <= MaxJobsLater
=============================================================================
