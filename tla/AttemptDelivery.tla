-------------------------- MODULE AttemptDelivery --------------------------
(***************************************************************************)
(* What VoxType promises its user about one voice input, whatever          *)
(* providers, watchdogs, fallbacks and LLM corrections do underneath:      *)
(* a recording that was stopped is either pasted once, or ends without a   *)
(* paste; a newer recording replaces an older one for good; and nothing is *)
(* pasted while the microphone is recording.                               *)
(*                                                                         *)
(* The promise is the abstract specification that AsrAttempt implements.   *)
(***************************************************************************)
EXTENDS Naturals, Sequences

VARIABLES
  current,   \* the attempt the user is waiting for (0: none was started)
  phase,     \* what the user sees of it
  pasted     \* the attempts whose text was pasted, oldest first

vars == <<current, phase, pasted>>

Phases == {"idle", "recording", "recognizing"}

TypeOK ==
  /\ current \in Nat
  /\ phase \in Phases
  /\ pasted \in Seq(Nat)

Init ==
  /\ current = 0
  /\ phase = "idle"
  /\ pasted = <<>>

\* A recording starts; whatever was being recognized is given up.  Numbers
\* may be skipped: a microphone that fails to open uses one up.
Begin ==
  /\ phase # "recording"
  /\ current' \in Nat
  /\ current' > current
  /\ phase' = "recording"
  /\ UNCHANGED pasted

Stop ==
  /\ phase = "recording"
  /\ phase' = "recognizing"
  /\ UNCHANGED <<current, pasted>>

\* The text of the current attempt is pasted, which ends it.
Deliver ==
  /\ phase = "recognizing"
  /\ phase' = "idle"
  /\ pasted' = Append(pasted, current)
  /\ UNCHANGED current

\* It ends without text: too short, silence, an error, a device failure.
GiveUp ==
  /\ phase # "idle"
  /\ phase' = "idle"
  /\ UNCHANGED <<current, pasted>>

Next == Begin \/ Stop \/ Deliver \/ GiveUp

Spec == Init /\ [][Next]_vars

\* No attempt is pasted twice, and never after a later one.
PastedInOrder ==
  \A i, j \in 1..Len(pasted) : i < j => pasted[i] < pasted[j]
=============================================================================
