------------------------------- MODULE Lifetime -------------------------------
(***************************************************************************)
(* What the receipts of a managed runtime promise, and what those who act  *)
(* on them rely on.  A runtime comes at most once; it is reported as       *)
(* launched while it is there and before anybody has decided to end it;    *)
(* only after such a decision does it go, and then for good; it is         *)
(* reported as ended only when it has gone.                                *)
(***************************************************************************)

CONSTANT Runtimes

VARIABLES
  life,      \* whether each runtime is still to come, is there or has gone
  ending,    \* the runtimes that somebody has decided to end
  launched,  \* the runtimes reported as launched
  ended      \* the runtimes reported as ended

Init ==
  /\ life = [r \in Runtimes |-> "off"]
  /\ ending = {}
  /\ launched = {}
  /\ ended = {}

Come(r) ==
  /\ life[r] = "off"
  /\ life' = [life EXCEPT ![r] = "there"]
  /\ UNCHANGED <<ending, launched, ended>>

ReportLaunched(r) ==
  /\ life[r] = "there"
  /\ r \notin ending
  /\ launched' = launched \cup {r}
  /\ UNCHANGED <<life, ending, ended>>

\* A decision that is taken before the runtime was asked for is its end.
Decide(r) ==
  /\ ending' = ending \cup {r}
  /\ life' \in {life, [life EXCEPT ![r] = IF @ = "off" THEN "gone" ELSE @]}
  /\ UNCHANGED <<launched, ended>>

Go(r) ==
  /\ r \in ending
  /\ life' = [life EXCEPT ![r] = "gone"]
  /\ ended' \in {ended, ended \cup {r}}
  /\ UNCHANGED <<ending, launched>>

ReportEnded(r) ==
  /\ life[r] = "gone"
  /\ ended' = ended \cup {r}
  /\ UNCHANGED <<life, ending, launched>>

Next ==
  \E r \in Runtimes :
    Come(r) \/ ReportLaunched(r) \/ Decide(r) \/ Go(r) \/ ReportEnded(r)

Spec == Init /\ [][Next]_<<life, ending, launched, ended>>
=============================================================================
