------------------------------ MODULE Retirement ------------------------------
(***************************************************************************)
(* What the retirement of a warm runtime promises to those who use it.  A  *)
(* user borrows a runtime before it calls and returns it after its call    *)
(* has ended; a runtime that is retired is lent to nobody again, and it is *)
(* stopped, for good, only when everybody has returned it.                 *)
(***************************************************************************)

CONSTANTS Users, Runtimes, None

VARIABLES
  life,     \* what each runtime is
  retired,  \* the runtimes that are lent to nobody any more
  pin,      \* the runtime each user has borrowed
  using     \* the users whose call has begun and not ended

Init ==
  /\ life = [r \in Runtimes |-> "off"]
  /\ retired = {}
  /\ pin = [u \in Users |-> None]
  /\ using = {}

Start(r) ==
  /\ life[r] = "off"
  /\ life' = [life EXCEPT ![r] = "running"]
  /\ UNCHANGED <<retired, pin, using>>

Borrow(u, r) ==
  /\ pin[u] = None
  /\ life[r] = "running"
  /\ r \notin retired
  /\ pin' = [pin EXCEPT ![u] = r]
  /\ using' \in {using, using \cup {u}}
  /\ UNCHANGED <<life, retired>>

Call(u) ==
  /\ pin[u] # None
  /\ using' = using \cup {u}
  /\ UNCHANGED <<life, retired, pin>>

End(u) ==
  /\ using' = using \ {u}
  /\ UNCHANGED <<life, retired, pin>>

\* No call outlasts its loan.
Return(u) ==
  /\ pin' = [pin EXCEPT ![u] = None]
  /\ using' = using \ {u}
  /\ UNCHANGED <<life, retired>>

Retire(r) ==
  /\ retired' = retired \cup {r}
  /\ UNCHANGED <<life, pin, using>>

Stop(r) ==
  /\ r \in retired
  /\ \A u \in Users : pin[u] # r
  /\ life' = [life EXCEPT ![r] = "stopped"]
  /\ UNCHANGED <<retired, pin, using>>

Next ==
  \/ \E r \in Runtimes : Start(r) \/ Retire(r) \/ Stop(r)
  \/ \E u \in Users : \/ Call(u) \/ End(u) \/ Return(u)
                      \/ \E r \in Runtimes : Borrow(u, r)

Spec == Init /\ [][Next]_<<life, retired, pin, using>>
=============================================================================
