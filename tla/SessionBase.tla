---------------------------- MODULE SessionBase ----------------------------
(***************************************************************************)
(* The part every streaming recognition session shares: its interface to   *)
(* the application (IStreamingAsrSession), the buffer of PCM the capture   *)
(* thread fills (PendingPcmBuffer), the copy kept for a second attempt     *)
(* (CloudAsrReplayBuffer), and the end of the worker thread                *)
(* (StreamingAsrSessionBase::DispatchFinal).                               *)
(*                                                                         *)
(* PCM is a sequence of numbered units, so a recognized text is the        *)
(* sequence of the units it stands for.  The unit 0 marks the text of an   *)
(* error that a server sends in place of a transcript.                     *)
(***************************************************************************)
EXTENDS Naturals, Sequences

CONSTANTS
  MaxAudio,    \* units the microphone delivers at most
  ChunkUnits,  \* units of a full chunk of the protocol
  PendingMax,  \* capacity of the pending buffer
  ReplayMax,   \* capacity of the replay buffer
  ShortUnits   \* a recording this short is not recognized a second time

ASSUME SessionAssumption ==
  /\ MaxAudio \in Nat \ {0}
  /\ ChunkUnits \in Nat \ {0}
  /\ PendingMax \in Nat
  /\ ReplayMax \in Nat
  /\ ShortUnits \in Nat

VARIABLES
  app,     \* what the application did: mic, aborted, running, captured, taken
  audio,   \* the PCM buffers: pending, overflowed, chunk, replay, kept
  pc,      \* where the worker thread is
  net,     \* sockets, drain thread and peer: a record of the provider's own
  work,    \* what the worker found out: text, failure, retry, finished
  finals   \* the finals handed to the application

vars == <<app, audio, pc, net, work, finals>>

Units == 1..MaxAudio
NoText == <<>>
ErrorText == <<0>>

Kinds == {"text", "noSpeech", "error"}

(***************************************************************************)
(* Pure helpers.                                                           *)
(***************************************************************************)

\* Nonempty prefixes: what a server may have understood so far.
Prefixes(s) == {SubSeq(s, 1, n) : n \in 1..Len(s)}

Increasing(s) == \A i, j \in 1..Len(s) : i < j => s[i] < s[j]

Smaller(m, n) == IF m < n THEN m ELSE n

\* PendingPcmBuffer::Append: a unit that does not fit is dropped for good.
PendingAppend(a, unit) ==
  IF Len(a.pending) < PendingMax
  THEN [a EXCEPT !.pending = Append(@, unit)]
  ELSE [a EXCEPT !.overflowed = TRUE]

\* PendingPcmBuffer::DrainTo the chunk in hand, up to a full one.
DrainToChunk(a) ==
  LET take == Smaller(ChunkUnits - Len(a.chunk), Len(a.pending))
  IN  [a EXCEPT !.chunk = @ \o SubSeq(a.pending, 1, take),
                !.pending = SubSeq(@, take + 1, Len(@))]

\* CloudAsrReplayBuffer::Append: data that does not fit ends the recording of
\* the replay for good, what is stored stays.
Keep(a, units) ==
  IF units = <<>> \/ ~a.kept THEN a
  ELSE IF Len(a.replay) + Len(units) > ReplayMax THEN [a EXCEPT !.kept = FALSE]
  ELSE [a EXCEPT !.replay = @ \o units]

\* SwapTo(buffered), then the buffered PCM goes to the replay buffer.
KeepPending(a) == [Keep(a, a.pending) EXCEPT !.pending = <<>>]

\* ShouldRetryEmptyCloudFinal and IsShortClosedWithoutText.
ShortClosedWithoutText(text, closedByPeer, a) ==
  text = NoText /\ closedByPeer /\ Len(a.replay) <= ShortUnits

RetriesEmptyFinal(text, closedByPeer, a) ==
  /\ text = NoText
  /\ a.kept
  /\ a.replay # <<>>
  /\ ~ShortClosedWithoutText(text, closedByPeer, a)

(***************************************************************************)
(* The interface.                                                          *)
(***************************************************************************)

Streaming == app.mic = "open" /\ ~app.aborted

InitBase ==
  /\ app = [mic |-> "idle", aborted |-> FALSE, running |-> FALSE,
            captured |-> 0, taken |-> <<>>]
  /\ audio = [pending |-> <<>>, overflowed |-> FALSE, chunk |-> <<>>,
              replay |-> <<>>, kept |-> TRUE]
  /\ pc = "idle"
  /\ work = [text |-> NoText, verdict |-> "none", primary |-> "open",
             retries |-> 0, recover |-> FALSE]
  /\ finals = <<>>

\* Start(): flags reset, the worker thread begins at the provider's first step.
StartAt(first) ==
  /\ pc = "idle"
  /\ app' = [app EXCEPT !.mic = "open", !.running = TRUE]
  /\ pc' = first
  /\ UNCHANGED <<audio, net, work, finals>>

\* The capture thread hands over one unit: EnqueuePcmChunk().
Enqueue ==
  /\ Streaming
  /\ app.captured < MaxAudio
  /\ LET unit == app.captured + 1
         fits == Len(audio.pending) < PendingMax
     IN  /\ audio' = PendingAppend(audio, unit)
         /\ app' = [app EXCEPT !.captured = unit,
                               !.taken = IF fits THEN Append(@, unit) ELSE @]
  /\ UNCHANGED <<pc, net, work, finals>>

StopInput ==
  /\ Streaming
  /\ app' = [app EXCEPT !.mic = "stopped"]
  /\ UNCHANGED <<audio, pc, net, work, finals>>

\* Abort() up to its join: the flags, and what the provider closes at once.
AbortWith(closed) ==
  /\ app.mic # "idle"
  /\ app.running
  /\ ~app.aborted
  /\ app' = [app EXCEPT !.aborted = TRUE]
  /\ net' = closed
  /\ UNCHANGED <<audio, pc, work, finals>>

\* DispatchFinal() hands the verdict over; the check of abort_ came before.
Dispatch ==
  /\ pc = "dispatch"
  /\ finals' = Append(finals, [kind |-> work.verdict, text |-> work.text])
  /\ pc' = "stop"
  /\ UNCHANGED <<app, audio, net, work>>

\* The worker's last statement, which also lets a waiting Abort() return.
Stopped ==
  /\ pc = "stop"
  /\ app' = [app EXCEPT !.running = FALSE]
  /\ pc' = "ended"
  /\ UNCHANGED <<audio, net, work, finals>>

\* The worker goes on to hand out its verdict, unless the session is aborted.
Conclude(w, kind, text) ==
  /\ work' = [w EXCEPT !.verdict = kind, !.text = text]
  /\ pc' = IF app.aborted THEN "stop" ELSE "dispatch"

\* CompletePrimary(): the diagnostic stage of the first attempt gets its end.
Primary(w) == [w EXCEPT !.primary = "done"]
PrimaryUnlessAborted == IF app.aborted THEN work ELSE Primary(work)

BaseNext == Enqueue \/ StopInput \/ Dispatch \/ Stopped

(***************************************************************************)
(* What every provider owes the application.                               *)
(***************************************************************************)

\* The interface as the application sees it.
Interface == INSTANCE StreamingSession WITH
  phase <- IF app.mic = "idle" THEN "idle"
           ELSE IF ~app.running THEN "closed"
           ELSE IF app.mic = "open" THEN "recording" ELSE "finishing",
  overran <- app.captured > Len(app.taken),
  cancelled <- app.aborted,
  final <- IF finals = <<>> THEN "none"
           ELSE IF Len(finals) > 1 THEN "several"
           ELSE IF finals[1].kind = "text" /\ finals[1].text # ErrorText
           THEN "text" ELSE "other"
=============================================================================
