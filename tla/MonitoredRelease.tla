--------------------------- MODULE MonitoredRelease ---------------------------
(***************************************************************************)
(* ReleaseControl together with the probe monitors of each candidate       *)
(* (reliability/monitor.py, release_activation.py): what lets a candidate  *)
(* pass probation, and what raises the signal that rolls it back, is a     *)
(* window of probes in the stage journal.  A candidate has the window of   *)
(* its probation and those of operators (monitor_cli.py); any number of    *)
(* processes extend one, a probe after the other.                          *)
(*                                                                         *)
(* Detection and stabilisation, which ReleaseControl allows at any moment, *)
(* happen here for the reasons the monitor has.  Clocks are left out: the  *)
(* probes of a complete window count as spaced.                            *)
(***************************************************************************)
EXTENDS ReleaseControl, Sequences

CONSTANTS
  Monitors,    \* processes that run ProbeMonitor
  Policies,    \* frozen policies for each candidate
  Probation,   \* the one complete_probation relies on
  MaxProbes,   \* maximum_probes
  Threshold    \* consecutive_regressions

ASSUME MonitorAssumption ==
  /\ None \notin Monitors
  /\ Probation \in Policies
  /\ MaxProbes \in Nat \ {0, 1}
  /\ Threshold \in 1 .. MaxProbes

VARIABLES
  window,    \* the verdicts of the completed probes of each policy
  probe,     \* the stage of the next one: who runs it, or None
  monitor,   \* what each monitor process does next
  steady     \* monitors whose candidate has not moved since they began to probe

monitorVars == <<window, probe, monitor, steady>>
allVars == <<vars, monitorVars>>

Verdicts == {"healthy", "failed", "stale"}
Windows == Jobs \X Policies
Watching == [pc |-> "idle", win |-> <<None, None>>, at |-> 0, match |-> FALSE, health |-> "stale"]

Win(m) == monitor[m].win
Job(m) == Win(m)[1]
MonitorAt(m, pc) == monitor[m].pc = pc
Settles(m) == monitor' = [monitor EXCEPT ![m] = Watching]

-----------------------------------------------------------------------------
(* What a probe compares and what a window says *)

\* The control store and the route store are read one after the other.
ControlMatches(j) ==
  /\ control.active = spec[j].target
  /\ control.gen = spec[j].gen + 1
  /\ control.rollback = None
  /\ control.active # control.good

RouteMatches(j) == route = [rev |-> spec[j].target, gen |-> spec[j].gen + 1]

Matches(j) == ControlMatches(j) /\ RouteMatches(j)

\* The last probes in a row were failed or slow.
Signals(seq) ==
  /\ Len(seq) >= Threshold
  /\ \A i \in Len(seq) - Threshold + 1 .. Len(seq) : seq[i] = "failed"

Finished(seq) ==
  \/ Signals(seq)
  \/ Len(seq) = MaxProbes
  \/ Len(seq) > 0 /\ seq[Len(seq)] = "stale"

healthy_window(win) ==
  /\ Len(window[win]) = MaxProbes
  /\ \A i \in 1 .. MaxProbes : window[win][i] = "healthy"

-----------------------------------------------------------------------------
(* One probe *)

\* The window is replayed from the journal: a finished one is not extended.
ReadsHistory(m, win) ==
  /\ MonitorAt(m, "idle")
  /\ spec[win[1]].approved
  /\ \/ /\ ~Finished(window[win])
        /\ monitor' = [monitor EXCEPT ![m] = [Watching EXCEPT !.pc = "start", !.win = win,
                                                              !.at = Len(window[win]) + 1]]
     \/ /\ Signals(window[win])
        /\ monitor' = [monitor EXCEPT ![m] = [Watching EXCEPT !.pc = "signal", !.win = win]]
  /\ UNCHANGED <<vars, window, probe, steady>>

\* start_owned: a probe that runs, or has been completed meanwhile, is refused.
StartsProbe(m) ==
  /\ MonitorAt(m, "start")
  /\ IF probe[Win(m)] = None /\ Len(window[Win(m)]) + 1 = monitor[m].at
     THEN /\ probe' = [probe EXCEPT ![Win(m)] = m]
          /\ monitor' = [monitor EXCEPT ![m].pc = "control"]
     ELSE Settles(m) /\ UNCHANGED probe
  /\ UNCHANGED <<vars, window, steady>>

\* Cancelled before it has learnt of its start: the attempt has failed.
CancelsProbe(m) ==
  /\ MonitorAt(m, "control")
  /\ probe' = [probe EXCEPT ![Win(m)] = None]
  /\ Settles(m)
  /\ UNCHANGED <<vars, window, steady>>

ReadsControl(m) ==
  /\ \/ /\ MonitorAt(m, "control")
        /\ monitor' = [monitor EXCEPT ![m].pc = "route", ![m].match = ControlMatches(Job(m))]
     \/ /\ MonitorAt(m, "control again")
        /\ monitor' = [monitor EXCEPT ![m].pc = "route again",
                                      ![m].match = ControlMatches(Job(m))]
  /\ UNCHANGED <<vars, window, probe, steady>>

\* Without a match no request is sent.
ReadsRoute(m) ==
  /\ MonitorAt(m, "route")
  /\ IF monitor[m].match /\ RouteMatches(Job(m))
     THEN /\ monitor' = [monitor EXCEPT ![m].pc = "probe"]
          /\ steady' = IF Matches(Job(m)) THEN steady \cup {m} ELSE steady \ {m}
     ELSE /\ monitor' = [monitor EXCEPT ![m].pc = "publish", ![m].match = FALSE]
          /\ UNCHANGED steady
  /\ UNCHANGED <<vars, window, probe>>

\* Whoever takes the traffic answers; only the candidate can be healthy.
ProbesHealth(m) ==
  /\ MonitorAt(m, "probe")
  /\ \E health \in {"healthy", "failed"} :
       /\ health = "healthy" => route.rev = spec[Job(m)].target
       /\ monitor' = [monitor EXCEPT ![m].pc = "control again", ![m].health = health]
  /\ UNCHANGED <<vars, window, probe, steady>>

\* Fault: what was compared before the request is not compared after it.
MatchedBefore(m) == TRUE

MatchesAgain(m) == monitor[m].match /\ RouteMatches(Job(m))

ReadsRouteAgain(m) ==
  /\ MonitorAt(m, "route again")
  /\ monitor' = [monitor EXCEPT ![m].pc = "publish", ![m].match = MatchesAgain(m)]
  /\ UNCHANGED <<vars, window, probe, steady>>

PublishesProbe(m) ==
  LET seq == Append(window[Win(m)],
                    IF monitor[m].match THEN monitor[m].health ELSE "stale")
  IN  /\ MonitorAt(m, "publish")
      /\ window' = [window EXCEPT ![Win(m)] = seq]
      /\ probe' = [probe EXCEPT ![Win(m)] = None]
      /\ monitor' = [monitor EXCEPT ![m] =
                       IF Signals(seq) THEN [Watching EXCEPT !.pc = "signal", !.win = Win(m)]
                       ELSE Watching]
      /\ steady' = steady \ {m}
      /\ UNCHANGED vars

\* The process dies, or the stream of the probe could not be closed: the stage
\* stays running and the window is never completed.
MonitorDies(m) ==
  /\ ~MonitorAt(m, "idle")
  /\ Settles(m)
  /\ steady' = steady \ {m}
  /\ UNCHANGED <<vars, window, probe>>

-----------------------------------------------------------------------------
(* What the window is for *)

\* The signal is raised, or it is refused or repeated and changes nothing.
RaisesSignal(m) ==
  /\ MonitorAt(m, "signal")
  /\ \/ Detect(Job(m))
     \/ ~(Status(Undo(Job(m))) = "none" /\ ControlMatches(Job(m))) /\ UNCHANGED vars
  /\ Settles(m)
  /\ UNCHANGED <<window, probe>>

complete_probation(j) == healthy_window(<<j, Probation>>) /\ StabilizeCandidate(j)

ReleaseStep ==
  \/ \E j \in Jobs :
       \/ \E from, target \in Revisions, approved \in BOOLEAN :
             CreateJob(j, from, target, approved)
       \/ BootstrapRoute(j) \/ ObserveHealth(j) \/ AcknowledgeBaseline(j)
       \/ AcknowledgeCandidate(j) \/ complete_probation(j)
  \/ \E w \in Workers : WorkerStep(w)
  \/ \E k \in Keys : Lapse(k)

ProbeStep(m) ==
  \/ \E win \in Windows : ReadsHistory(m, win)
  \/ StartsProbe(m) \/ CancelsProbe(m)
  \/ ReadsControl(m) \/ ReadsRoute(m) \/ ProbesHealth(m) \/ ReadsRouteAgain(m)
  \/ PublishesProbe(m) \/ MonitorDies(m)

\* Until the answer has been compared.
StillSteady ==
  steady' = {m \in steady : MonitorAt(m, "probe") \/ MonitorAt(m, "control again")
                              => \E j \in Jobs : j = Job(m) /\ Matches(j)'}

MonitoredNext ==
  \/ ReleaseStep /\ UNCHANGED <<window, probe, monitor>> /\ StillSteady
  \/ \E m \in Monitors : RaisesSignal(m) /\ StillSteady
  \/ \E m \in Monitors : ProbeStep(m)

MonitoredInit ==
  /\ Init
  /\ window = [win \in Windows |-> <<>>]
  /\ probe = [win \in Windows |-> None]
  /\ monitor = [m \in Monitors |-> Watching]
  /\ steady = {}

MonitoredSpec == MonitoredInit /\ [][MonitoredNext]_allVars

-----------------------------------------------------------------------------
(* Properties *)

\* A probe that will count as healthy or failed was answered while control and
\* traffic named the candidate, unproven and under no rollback, without a gap:
\* the two stores are compared before and after it, one after the other
\* (ProbeMonitor.observe and _matches).
SteadyVerdicts ==
  \A m \in Monitors :
    MonitorAt(m, "publish") /\ monitor[m].match => m \in steady
=============================================================================
