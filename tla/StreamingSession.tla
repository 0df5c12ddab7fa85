------------------------- MODULE StreamingSession --------------------------
(***************************************************************************)
(* What IStreamingAsrSession promises the application, whichever provider  *)
(* is behind it: one final per session, a text only once the recording was *)
(* stopped or the buffer of its audio overran, no end without a final      *)
(* unless the session was cancelled, and silence for good once Abort() has *)
(* returned.                                                               *)
(***************************************************************************)

VARIABLES
  phase,      \* "idle", "recording", "finishing" or "closed"
  overran,    \* audio was lost: the session may give up listening
  cancelled,  \* Abort() was called
  final       \* the final the application got: "none", "text" or "other"

vars == <<phase, overran, cancelled, final>>

Init ==
  /\ phase = "idle"
  /\ overran = FALSE
  /\ cancelled = FALSE
  /\ final = "none"

Start ==
  /\ phase = "idle"
  /\ phase' = "recording"
  /\ UNCHANGED <<overran, cancelled, final>>

Overrun ==
  /\ phase \in {"recording", "closed"}
  /\ ~cancelled
  /\ overran' = TRUE
  /\ UNCHANGED <<phase, cancelled, final>>

StopInput ==
  /\ phase = "recording"
  /\ phase' = "finishing"
  /\ UNCHANGED <<overran, cancelled, final>>

Abort ==
  /\ phase \in {"recording", "finishing"}
  /\ cancelled' = TRUE
  /\ UNCHANGED <<phase, overran, final>>

\* A text needs a stopped recording, or one with a loss; an error may come at
\* any time.
Deliver ==
  /\ phase \in {"recording", "finishing"}
  /\ final = "none"
  /\ final' \in {"text", "other"}
  /\ final' = "text" => phase = "finishing" \/ overran
  /\ UNCHANGED <<phase, overran, cancelled>>

\* The worker is gone: IsRunning() is false from here on.
End ==
  /\ phase \in {"recording", "finishing"}
  /\ cancelled \/ final # "none"
  /\ phase' = "closed"
  /\ UNCHANGED <<overran, cancelled, final>>

Next == Start \/ Overrun \/ StopInput \/ Abort \/ Deliver \/ End

Spec == Init /\ [][Next]_vars
=============================================================================
