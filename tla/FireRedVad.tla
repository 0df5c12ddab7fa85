----------------------------- MODULE FireRedVad -----------------------------
(***************************************************************************)
(* The postprocessor of the FireRed VAD: from the speech probability of    *)
(* every frame to the segments of the recording worth recognising.         *)
(*                                                                         *)
(* Frames are numbered from 1 (the code counts from 0) and start = 0 says  *)
(* that no segment is open.  A frame's probability is 1 (voiced) or 0.     *)
(***************************************************************************)
EXTENDS Integers, Sequences, FiniteSets, SequencesExt

CONSTANTS
  SmoothWindow,    \* smoothWindowSize, at least 1
  PadStartConfig,  \* padStart of the configuration, in frames
  MinSpeech,       \* minSpeechFrame
  MaxSpeech,       \* maxSpeechFrame
  MinSilence,      \* minSilenceFrame
  ThresholdNum,    \* speechThreshold = ThresholdNum / ThresholdDen, at most 1
  ThresholdDen

ASSUME VadAssumption ==
  /\ {SmoothWindow, MaxSpeech, ThresholdNum, ThresholdDen} \subseteq Nat \ {0}
  /\ {PadStartConfig, MinSpeech, MinSilence} \subseteq Nat
  /\ ThresholdNum <= ThresholdDen

Larger(a, b) == IF a > b THEN a ELSE b

PadStart == Larger(SmoothWindow, PadStartConfig)

FreshPost ==
  [state |-> "SILENCE", window |-> <<>>, frames |-> 0, speech |-> 0,
   silence |-> 0, hitMax |-> FALSE, start |-> 0, lastEnd |-> 0,
   segments |-> <<>>]

Voiced(window) == Cardinality({i \in DOMAIN window : window[i]})

SmoothProb(p, voice) ==
  LET longer == Append(p.window, voice)
  IN  IF Len(longer) > SmoothWindow THEN Tail(longer) ELSE longer

IsSpeech(window) == Voiced(window) * ThresholdDen >= ThresholdNum * Len(window)

\* A segment never reaches into the one before it (lastEnd = 0: none yet).
AfterLast(p, frame) == Larger(frame, p.lastEnd + 1)

CloseSegment(p) ==
  [p EXCEPT !.segments = Append(@, <<p.start, p.frames>>),
            !.lastEnd = p.frames, !.start = 0, !.speech = 0]

\* A segment at its maximum is closed; the next frame opens another.
SplitAtMax(p) ==
  IF p.speech >= MaxSpeech THEN [CloseSegment(p) EXCEPT !.hitMax = TRUE] ELSE p

Reopen(p) ==
  IF p.hitMax THEN [p EXCEPT !.start = AfterLast(p, p.frames), !.hitMax = FALSE]
  ELSE p

OpenSegment(p) ==
  [p EXCEPT !.start = AfterLast(p, Larger(1, p.frames - p.speech + 1 - PadStart))]

InSilence(p, speech) ==
  IF speech THEN [p EXCEPT !.state = "POSSIBLE_SPEECH", !.speech = 1]
  ELSE [p EXCEPT !.silence = @ + 1, !.speech = 0]

InPossibleSpeech(p, speech) ==
  LET longer == [p EXCEPT !.speech = @ + 1]
  IN  IF ~speech THEN [p EXCEPT !.state = "SILENCE", !.silence = 1, !.speech = 0]
      ELSE IF longer.speech < MinSpeech THEN longer
      ELSE [OpenSegment(longer) EXCEPT !.state = "SPEECH", !.silence = 0]

InSpeech(p, speech) ==
  LET longer == [p EXCEPT !.speech = @ + 1]
  IN  IF speech THEN SplitAtMax([longer EXCEPT !.silence = 0])
      ELSE [longer EXCEPT !.state = "POSSIBLE_SILENCE", !.silence = 1]

InPossibleSilence(p, speech) ==
  LET longer == [p EXCEPT !.speech = @ + 1]
      quiet  == [longer EXCEPT !.silence = @ + 1]
  IN  IF speech THEN SplitAtMax([longer EXCEPT !.state = "SPEECH", !.silence = 0])
      ELSE IF quiet.silence < MinSilence THEN quiet
      ELSE [CloseSegment(quiet) EXCEPT !.state = "SILENCE"]

ProcessOneFrame(p, voice) ==
  LET window == SmoothProb(p, voice)
      q == Reopen([p EXCEPT !.frames = @ + 1, !.window = window])
  IN  CASE q.state = "SILENCE"          -> InSilence(q, IsSpeech(window))
        [] q.state = "POSSIBLE_SPEECH"  -> InPossibleSpeech(q, IsSpeech(window))
        [] q.state = "SPEECH"           -> InSpeech(q, IsSpeech(window))
        [] q.state = "POSSIBLE_SILENCE" -> InPossibleSilence(q, IsSpeech(window))

Process(p, voices) ==
  LET after[i \in 0 .. Len(voices)] ==
        IF i = 0 THEN p ELSE ProcessOneFrame(after[i - 1], voices[i])
  IN  after[Len(voices)]

Flush(p) ==
  IF p.start = 0 THEN p
  ELSE [p EXCEPT !.segments = Append(@, <<p.start, p.frames>>), !.start = 0]

IsInSpeech(p) == p.state \in {"SPEECH", "POSSIBLE_SPEECH"}

\* The segments cut out of the recording; none reaches past its end.
GetConcatenatedSamples(p, samples) ==
  FlattenSeq([i \in DOMAIN p.segments |->
    SubSeq(samples, p.segments[i][1],
           IF p.segments[i][2] < Len(samples) THEN p.segments[i][2]
           ELSE Len(samples))])

(***************************************************************************)
(* What the segments promise of a recording the VAD heard from its start:  *)
(* a run of voiced frames long enough to be confirmed although smoothing   *)
(* delays it (SmoothWindow - 1 frames) lies in them entirely.              *)
(***************************************************************************)

ConfirmedAfter == Larger(2, MinSpeech) + SmoothWindow - 1

Runs(voices) ==
  {run \in (DOMAIN voices) \X (DOMAIN voices) :
     /\ run[2] - run[1] + 1 >= ConfirmedAfter
     /\ \A i \in run[1] .. run[2] : voices[i]}

Selected(p) == UNION {p.segments[i][1] .. p.segments[i][2] : i \in DOMAIN p.segments}

=============================================================================
