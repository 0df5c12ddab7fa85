------------------------------ MODULE VadTrim -------------------------------
(***************************************************************************)
(* VadTrimCore: of the chunks of a recording, each with the verdict of the *)
(* VAD, those that are sent.  A chunk is a sequence of capture blocks.     *)
(***************************************************************************)
EXTENDS Integers, Sequences, SequencesExt

CONSTANTS
  PreSpeechKeep,       \* kPreSpeechKeep
  TailSilentThreshold  \* kTailSilentThreshold

ASSUME TrimAssumption ==
  /\ PreSpeechKeep \in Nat
  /\ TailSilentThreshold \in Nat \ {0}

FreshCore ==
  [state |-> "PreSpeech", silent |-> 0, speech |-> FALSE,
   pre |-> <<>>, tail |-> <<>>]

\* The last PreSpeechKeep chunks that wait for speech.
PreKept(pre) ==
  SubSeq(pre, IF Len(pre) > PreSpeechKeep THEN Len(pre) - PreSpeechKeep + 1 ELSE 1,
         Len(pre))

(***************************************************************************)
(* ProcessChunk: the core after a chunk, and the chunks it puts out.       *)
(***************************************************************************)

ChunkBeforeSpeech(core, chunk, voice) ==
  IF voice
  THEN [core |-> [core EXCEPT !.state = "InSpeech", !.pre = <<>>],
        out  |-> Append(PreKept(core.pre), chunk)]
  ELSE [core |-> [core EXCEPT !.pre = Append(@, chunk)], out |-> <<>>]

ChunkInSpeech(core, chunk, voice) ==
  LET silent == IF voice THEN 0 ELSE core.silent + 1
  IN  [core |-> IF silent >= TailSilentThreshold
                THEN [core EXCEPT !.state = "PossibleTail", !.silent = silent,
                                  !.tail = <<>>]
                ELSE [core EXCEPT !.silent = silent],
       out  |-> <<chunk>>]

ChunkInTail(core, chunk, voice) ==
  LET tail == Append(core.tail, chunk)
  IN  IF voice
      THEN [core |-> [core EXCEPT !.state = "InSpeech", !.silent = 0,
                                  !.tail = <<>>],
            out  |-> tail]
      ELSE [core |-> [core EXCEPT !.tail = tail], out |-> <<>>]

ProcessChunk(core, chunk, voice) ==
  LET heard == [core EXCEPT !.speech = @ \/ voice]
  IN  CASE core.state = "PreSpeech"    -> ChunkBeforeSpeech(heard, chunk, voice)
        [] core.state = "InSpeech"     -> ChunkInSpeech(heard, chunk, voice)
        [] core.state = "PossibleTail" -> ChunkInTail(heard, chunk, voice)

FinishTrim(core) == [core EXCEPT !.pre = <<>>, !.tail = <<>>, !.silent = 0]

(***************************************************************************)
(* What the trimmer promises, without its states: of the chunks so far,    *)
(* those from PreSpeechKeep before the first voiced one to                 *)
(* TailSilentThreshold after the last.                                     *)
(***************************************************************************)

Kept(decided) ==
  LET voiced == {i \in DOMAIN decided : decided[i].voice}
      first  == CHOOSE i \in voiced : \A j \in voiced : i <= j
      last   == CHOOSE i \in voiced : \A j \in voiced : i >= j
      kept   == {i \in DOMAIN decided :
                   /\ i >= first - PreSpeechKeep
                   /\ i <= last + TailSilentThreshold}
  IN  IF voiced = {} THEN <<>>
      ELSE FlattenSeq([i \in DOMAIN decided |->
             IF i \in kept THEN decided[i].chunk ELSE <<>>])

=============================================================================
