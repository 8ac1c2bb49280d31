---------------------------- MODULE EngineStreams ----------------------------
(***************************************************************************)
(* What the engine adapters believe of a backend's token stream: the       *)
(* completion and chat adapters (engines/openai_adapter.py,                *)
(* chat_protocol.py, vision_openai.py) and the Ray relay                   *)
(* (engines/ray_http.py).  A frame is what its parser leaves of it; a      *)
(* malformed frame, a bad status, a transport error and a stream that is   *)
(* cut are one thing, a broken stream.                                     *)
(***************************************************************************)
EXTENDS Integers

\* The token count of a usage report: none, zero, within or above max_tokens.
Usages == {"none", "zero", "fits", "over"}

\* One event of the backend after parsing.
Frames == [text : BOOLEAN, finish : BOOLEAN, usage : Usages]

\* CompletionState, or the locals of the Ray relay.
Upstreams == [finish : BOOLEAN, usage : Usages, visible : BOOLEAN, ended : BOOLEAN]
Fresh == [finish |-> FALSE, usage |-> "none", visible |-> FALSE, ended |-> FALSE]

\* The reported count covers the text that was seen.
Consistent(usage, visible) ==
  /\ usage # "over"
  /\ visible => usage # "zero"

\* CompletionState.consume: finish before usage, and nothing after either.
Trusts(s, f) ==
  /\ s.usage = "none"
  /\ f.text \/ f.finish => ~s.finish
  /\ f.usage # "none" => /\ s.finish \/ f.finish
                         /\ Consistent(f.usage, s.visible \/ f.text)

\* The Ray relay: one terminal token, without text, that carries the count.
TrustsRay(s, f) ==
  /\ ~s.finish
  /\ f.usage # "none"
  /\ IF f.finish THEN ~f.text /\ Consistent(f.usage, s.visible)
                 ELSE f.usage = "zero"

Consumed(s, f) ==
  [s EXCEPT !.finish = @ \/ f.finish, !.visible = @ \/ f.text, !.usage = f.usage]

\* A delta of the relay counts nothing; the terminal token is kept back.
ConsumedRay(s, f) ==
  [s EXCEPT !.finish = f.finish, !.visible = @ \/ f.text,
            !.usage = IF f.finish THEN f.usage ELSE "none"]

\* Fault: a finish reason is enough.
CompleteAtFinish(s) == s.finish

\* final_token, and the relay's end of stream: both parts have arrived.
Complete(s) == s.finish /\ s.usage # "none"
=============================================================================
