---------------------------- MODULE AudioCapture ----------------------------
(***************************************************************************)
(* From the microphone to what a recognizer hears: the capture callback,   *)
(* the main thread that starts and ends recordings, the trimmer in front   *)
(* of a streaming session and the VAD of the engine, which every thread    *)
(* shares.                                                                 *)
(*                                                                         *)
(* The callback looks at the suppression flag, then records a block under  *)
(* g_audioLock and g_streamingSessionCs, then feeds the VAD under the      *)
(* engine's lock only: three steps, with the main thread in between.  A    *)
(* step of the main thread is what it does under one lock, or between two. *)
(*                                                                         *)
(* A block is what the callback makes of a packet of the device; it has    *)
(* the packet's number and is voiced or not.  CaptureThread makes none of  *)
(* a packet flagged silent or of a format that it cannot convert.  The VAD *)
(* is FireRed; a block is one frame of it.                                 *)
(***************************************************************************)
EXTENDS FireRedVad, VadTrim, FiniteSets

CONSTANTS
  Devices,     \* the capture APIs that may come up
  Modes,       \* how the recordings are recognized
  Short,       \* a recording of fewer blocks is too short
  MaxBlocks,   \* bound: blocks the device delivers
  MaxCaptures, \* bound: captures begun
  MaxOthers    \* bound: settings saved and older recordings' threads

\* trim: Qwen or Volcengine with the VAD on.  plain: a session that gets the
\* raw PCM.  local: the local recognizer with the VAD on.  batch: the others.
CaptureModes == {"trim", "plain", "local", "batch"}

ASSUME CaptureAssumption ==
  /\ Devices # {} /\ Devices \subseteq {"wasapi", "wavein"}
  /\ Modes # {} /\ Modes \subseteq CaptureModes
  /\ {Short, MaxBlocks, MaxCaptures, MaxOthers} \subseteq Nat

VARIABLES
  device,     \* the open device, or "closed"
  suppressed, \* g_captureSuppressed
  audio,      \* g_audioData
  delivered,  \* packets the device has handed to the callback
  leftOut,    \* history: the packets that CaptureThread made no block of
  packet,     \* the callback's progress with a block
  session,    \* g_activeStreamingSession
  trimmer,    \* g_streamingVadTrimmer
  vadReady,   \* g_streamingVadReady
  vad,        \* g_asrEngine.fireRedVad
  main,       \* the main thread
  stale,      \* g_captureConfigStale
  captures,   \* captures begun
  reloads,    \* settings saved
  job,        \* an older recording's thread in TrimBatchPcm16WithVad
  jobs,       \* how many there were
  crashed     \* a missing VAD was used

world == <<device, suppressed, audio, delivered, leftOut, packet>>
speech == <<session, trimmer, vadReady, vad>>
others == <<stale, captures, reloads, job, jobs>>
vars == <<world, speech, main, others, crashed>>

Voices(blocks) == [i \in DOMAIN blocks |-> blocks[i].voice]

(***************************************************************************)
(* The VAD.  heard is history: the blocks fed since the last Reset, and    *)
(* shared says that an older recording's thread fed it as well.            *)
(***************************************************************************)

NoVad == [there |-> FALSE, post |-> FreshPost, heard |-> <<>>, shared |-> FALSE]
ResetVad == [NoVad EXCEPT !.there = TRUE]

FedVad(blocks) ==
  [vad EXCEPT !.post = Process(@, Voices(blocks)),
              !.heard = IF vad.shared THEN @ ELSE @ \o blocks]

(***************************************************************************)
(* The trimmer and the session.  decided is history: the chunks with the   *)
(* VAD's verdicts; heard is what EnqueuePcmChunk accepted, due what it was *)
(* at StopInput.                                                           *)
(***************************************************************************)

NoTrimmer == [active |-> FALSE, core |-> FreshCore, decided |-> <<>>]

NoSession ==
  [on |-> FALSE, running |-> FALSE, open |-> FALSE, heard |-> <<>>,
   due |-> <<>>]

EnqueuePcmChunk(s, blocks) ==
  IF s.open THEN [s EXCEPT !.heard = @ \o blocks] ELSE s

\* ProcessPcm16: feed the VAD, decide, hand the chunks that are due to s.
Trimmed(s, blocks) ==
  LET voice == IsInSpeech(FedVad(blocks).post)
      step  == ProcessChunk(trimmer.core, blocks, voice)
  IN  [session |-> EnqueuePcmChunk(s, FlattenSeq(step.out)),
       trimmer |-> [trimmer EXCEPT !.core = step.core,
                      !.decided = Append(@, [chunk |-> blocks, voice |-> voice])]]

(***************************************************************************)
(* The capture callback: WaveInProc, and CaptureThread of WasapiCapture.   *)
(***************************************************************************)

Silent == [n |-> 0, voice |-> FALSE]
Waiting == [at |-> "wait", api |-> "closed", block |-> Silent]

\* The device delivers a packet, and the callback sees no suppression.
Deliver ==
  /\ ~crashed /\ packet.at = "wait"
  /\ device # "closed" /\ ~suppressed /\ delivered < MaxBlocks
  /\ \E voice \in BOOLEAN :
       packet' = [at |-> "got", api |-> device,
                  block |-> [n |-> delivered + 1, voice |-> voice]]
  /\ delivered' = delivered + 1
  /\ UNCHANGED <<device, suppressed, audio, leftOut, speech, main, others, crashed>>

\* CaptureThread makes no block of a packet flagged silent, of a format it
\* cannot convert, or too short to be resampled.
LeaveOut ==
  /\ ~crashed /\ packet.at = "got" /\ packet.api = "wasapi"
  /\ packet' = Waiting
  /\ leftOut' = leftOut \union {packet.block.n}
  /\ UNCHANGED <<device, suppressed, audio, delivered, speech, main, others,
                 crashed>>

\* A pause came between the two looks at the flag: the block is dropped.
Drop ==
  /\ ~crashed /\ packet.at = "got" /\ suppressed
  /\ packet' = Waiting
  /\ UNCHANGED <<device, suppressed, audio, delivered, leftOut, speech, main,
                 others, crashed>>

Listening == session.on /\ session.running

\* WASAPI feeds the VAD itself where no trimmer does.
FeedsVad ==
  /\ packet.api = "wasapi"
  /\ vadReady /\ ~(session.on /\ trimmer.active)

\* Mutant: the trimmer moves on although no session listens.
RecordTrimmingFirst ==
  /\ ~crashed /\ packet.at = "got" /\ ~suppressed
  /\ ~(trimmer.active /\ ~vad.there)
  /\ audio' = Append(audio, packet.block)
  /\ packet' = IF FeedsVad THEN [packet EXCEPT !.at = "feed"] ELSE Waiting
  /\ LET one  == <<packet.block>>
         step == Trimmed(session, one)
     IN  IF trimmer.active
         THEN /\ session' = IF Listening THEN step.session ELSE session
              /\ trimmer' = step.trimmer /\ vad' = FedVad(one)
         ELSE /\ session' = IF Listening THEN EnqueuePcmChunk(session, one)
                            ELSE session
              /\ UNCHANGED <<trimmer, vad>>
  /\ UNCHANGED <<device, suppressed, delivered, leftOut, vadReady, main, others,
                 crashed>>

\* Under both locks: append the block and give it to the session.
Record ==
  /\ ~crashed /\ packet.at = "got" /\ ~suppressed
  /\ ~(Listening /\ trimmer.active /\ ~vad.there)
  /\ audio' = Append(audio, packet.block)
  /\ packet' = IF FeedsVad THEN [packet EXCEPT !.at = "feed"] ELSE Waiting
  /\ LET one  == <<packet.block>>
         step == Trimmed(session, one)
     IN  IF Listening /\ trimmer.active
         THEN /\ session' = step.session /\ trimmer' = step.trimmer
              /\ vad' = FedVad(one)
         ELSE /\ session' = IF Listening THEN EnqueuePcmChunk(session, one)
                            ELSE session
              /\ UNCHANGED <<trimmer, vad>>
  /\ UNCHANGED <<device, suppressed, delivered, leftOut, vadReady, main, others,
                 crashed>>

\* After the locks, from what it saw under them.
FeedVad ==
  /\ ~crashed /\ packet.at = "feed" /\ vad.there
  /\ vad' = FedVad(<<packet.block>>)
  /\ packet' = Waiting
  /\ UNCHANGED <<device, suppressed, audio, delivered, leftOut, session, trimmer,
                 vadReady, main, others, crashed>>

\* The VAD is used through a null pointer.
MissesVad ==
  \/ packet.at = "got" /\ ~suppressed /\ Listening /\ trimmer.active
  \/ packet.at = "feed"
  \/ main.at = "built" /\ main.mode = "local" /\ audio # <<>>
  \/ main.at = "built" /\ main.mode = "trim" /\ trimmer.active /\ audio # <<>>
  \/ main.at = "stopped" /\ ~session.on /\ vadReady /\ Len(main.pcm) >= Short
  \/ job.left > 0

Crash ==
  /\ ~crashed /\ ~vad.there /\ MissesVad
  /\ crashed' = TRUE
  /\ UNCHANGED <<world, speech, main, others>>

(***************************************************************************)
(* The main thread.                                                        *)
(***************************************************************************)

NoOutcome ==
  [verdict |-> "none", pcm |-> <<>>, heard |-> <<>>, shared |-> FALSE,
   api |-> "closed", exact |-> FALSE, samples |-> <<>>]

Idle ==
  [at |-> "idle", mode |-> "batch", first |-> 1, pcm |-> <<>>,
   next |-> "idle", outcome |-> NoOutcome]

Goes(place) == main' = [main EXCEPT !.at = place]

\* StartAudioCapture: a device kept alive is resumed, else one is opened.
StartAudioCapture ==
  /\ captures < MaxCaptures
  /\ captures' = captures + 1
  /\ suppressed' = FALSE
  /\ audio' = IF device = "closed" \/ suppressed THEN <<>> ELSE audio
  /\ IF device = "closed" THEN device' \in Devices ELSE UNCHANGED device

\* Mutant: the capture hands out its audio and goes on.
StopUnsuppressed ==
  /\ audio' = <<>>
  /\ UNCHANGED <<suppressed, device>>

\* StopAudioCapture: suppress and hand out, under g_audioLock.
StopAudioCapture ==
  /\ suppressed' = TRUE
  /\ audio' = <<>>
  /\ UNCHANGED device

\* CapsLock goes down: capture begins before it is known to be a recording.
BeginCaptureOnly ==
  /\ ~crashed /\ main.at = "idle"
  /\ StartAudioCapture
  /\ main' = [Idle EXCEPT !.at = "pending", !.first = delivered + 1]
  /\ UNCHANGED <<delivered, leftOut, packet, speech, stale, reloads, job, jobs,
                 crashed>>

\* It was a tap.  A device whose settings changed is closed.
DiscardPendingCapture ==
  /\ ~crashed /\ main.at = "pending"
  /\ StopAudioCapture
  /\ main' = [main EXCEPT !.at = IF stale THEN "closing" ELSE "idle",
                          !.next = "idle"]
  /\ stale' = FALSE
  /\ UNCHANGED <<delivered, leftOut, packet, speech, captures, reloads, job, jobs,
                 crashed>>

\* StartRecordingSession: the older session is detached, and the trimmer
\* reset, before the capture begins.
Detach ==
  /\ ~crashed /\ main.at \in {"idle", "pending"}
  /\ main.at = "idle" => captures < MaxCaptures
  /\ session' = NoSession /\ trimmer' = NoTrimmer /\ vadReady' = FALSE
  /\ \E mode \in Modes :
       main' = [main EXCEPT !.at = IF @ = "idle" THEN "detached" ELSE "opened",
                            !.mode = mode, !.outcome = NoOutcome, !.pcm = <<>>]
  /\ UNCHANGED <<world, vad, others, crashed>>

OpenCapture ==
  /\ ~crashed /\ main.at = "detached"
  /\ StartAudioCapture
  /\ main' = [main EXCEPT !.at = "opened", !.first = delivered + 1]
  /\ UNCHANGED <<delivered, leftOut, packet, speech, stale, reloads, job, jobs,
                 crashed>>

\* The session's Start() fails: the recording goes on without one.
SessionStartFails ==
  /\ ~crashed /\ main.at = "opened" /\ main.mode \in {"trim", "plain"}
  /\ Goes("recording")
  /\ UNCHANGED <<world, speech, others, crashed>>

\* Mutant: a trimmer whose VAD could not be loaded counts as active.
TrimmerStartsAnyway ==
  /\ ~crashed /\ main.at = "opened" /\ main.mode = "trim"
  /\ \E loaded \in {TRUE, vad.there} :
       vad' = IF loaded THEN ResetVad ELSE vad
  /\ trimmer' = [NoTrimmer EXCEPT !.active = TRUE]
  /\ vadReady' = FALSE
  /\ Goes("built")
  /\ UNCHANGED <<world, session, others, crashed>>

\* StreamingVadTrimmer::Start.  A VAD that is not there may fail to load.
TrimmerStarts ==
  /\ ~crashed /\ main.at = "opened" /\ main.mode = "trim"
  /\ \E loaded \in {TRUE, vad.there} :
       /\ vad' = IF loaded THEN ResetVad ELSE vad
       /\ trimmer' = [NoTrimmer EXCEPT !.active = loaded]
  /\ vadReady' = FALSE
  /\ Goes("built")
  /\ UNCHANGED <<world, session, others, crashed>>

\* A session without a trimmer is activated right after its Start().
PlainStarts ==
  /\ ~crashed /\ main.at = "opened" /\ main.mode = "plain"
  /\ Goes("built")
  /\ UNCHANGED <<world, speech, others, crashed>>

NewSession == [NoSession EXCEPT !.on = TRUE, !.running = TRUE, !.open = TRUE]

\* ActivateStreamingSession: replay the audio so far, as one chunk, and
\* install the session, under both locks.
ActivateStreamingSession ==
  /\ ~crashed /\ main.at = "built" /\ main.mode \in {"trim", "plain"}
  /\ ~(trimmer.active /\ audio # <<>> /\ ~vad.there)
  /\ LET step == Trimmed(NewSession, audio)
     IN  IF trimmer.active /\ audio # <<>>
         THEN /\ session' = step.session /\ trimmer' = step.trimmer
              /\ vad' = FedVad(audio)
         ELSE /\ session' = EnqueuePcmChunk(NewSession, audio)
              /\ UNCHANGED <<trimmer, vad>>
  /\ vadReady' = trimmer.active
  /\ Goes("recording")
  /\ UNCHANGED <<world, others, crashed>>

\* The local recognizer's VAD is loaded and reset, outside g_audioLock.
LocalVadResets ==
  /\ ~crashed /\ main.at = "opened" /\ main.mode = "local"
  /\ \E loaded \in {TRUE, vad.there} :
       /\ vad' = IF loaded THEN ResetVad ELSE vad
       /\ Goes(IF loaded THEN "built" ELSE "recording")
  /\ vadReady' = FALSE
  /\ UNCHANGED <<world, session, trimmer, others, crashed>>

\* Mutant: only the blocks to come are fed.
PrimeNothing ==
  /\ ~crashed /\ main.at = "built" /\ main.mode = "local"
  /\ vadReady' = TRUE
  /\ Goes("recording")
  /\ UNCHANGED <<world, session, trimmer, vad, others, crashed>>

\* The blocks so far are fed and the callbacks told to go on from there.
LocalVadPrimed ==
  /\ ~crashed /\ main.at = "built" /\ main.mode = "local"
  /\ vad.there \/ audio = <<>>
  /\ vad' = IF audio = <<>> THEN vad ELSE FedVad(audio)
  /\ vadReady' = TRUE
  /\ Goes("recording")
  /\ UNCHANGED <<world, session, trimmer, others, crashed>>

BatchBegins ==
  /\ ~crashed /\ main.at = "opened" /\ main.mode = "batch"
  /\ Goes("recording")
  /\ UNCHANGED <<world, speech, others, crashed>>

StopRecordingSession ==
  /\ ~crashed /\ main.at = "recording"
  /\ StopAudioCapture
  /\ main' = [main EXCEPT !.at = IF stale THEN "closing" ELSE "stopped",
                          !.next = "stopped", !.pcm = audio]
  /\ stale' = FALSE
  /\ UNCHANGED <<delivered, leftOut, packet, speech, captures, reloads, job, jobs,
                 crashed>>

\* CloseAudioCapture.  WASAPI's thread is joined, so its packet is done.
CloseAudioCapture ==
  /\ ~crashed /\ main.at = "closing"
  /\ device = "wasapi" => packet.api # "wasapi"
  /\ device' = "closed"
  /\ audio' = <<>> /\ suppressed' = FALSE
  /\ Goes(main.next)
  /\ UNCHANGED <<delivered, leftOut, packet, speech, others, crashed>>

Ends(verdict) ==
  main' = [main EXCEPT !.at = "idle", !.outcome.verdict = verdict,
                       !.outcome.pcm = main.pcm]

\* The PCM is too short; a session is aborted.
TooShort ==
  /\ ~crashed /\ main.at = "stopped" /\ Len(main.pcm) < Short
  /\ session' = NoSession
  /\ Ends("short")
  /\ UNCHANGED <<world, trimmer, vadReady, vad, others, crashed>>

\* The trimmer is finished; without speech the session is aborted, else its
\* input ends.
StreamingStops ==
  /\ ~crashed /\ main.at = "stopped" /\ Len(main.pcm) >= Short /\ session.on
  /\ trimmer' = IF trimmer.active
                THEN [trimmer EXCEPT !.core = FinishTrim(@)] ELSE trimmer
  /\ IF trimmer.active /\ ~trimmer.core.speech
     THEN session' = NoSession /\ Ends("noSpeech")
     ELSE /\ session' = [session EXCEPT !.open = FALSE, !.due = session.heard]
          /\ Ends("recognize")
  /\ UNCHANGED <<world, vadReady, vad, others, crashed>>

\* What a VAD that heard the recording leaves of it for the recognizer.
LocalOutcome(post, samples) ==
  [verdict |-> IF samples = <<>> THEN "noSpeech" ELSE "recognize",
   pcm |-> main.pcm, api |-> device, heard |-> vad.heard, shared |-> vad.shared,
   exact |-> vad.heard = main.pcm /\ ~vad.shared, samples |-> samples]

\* Mutant: the segment still open at the end is forgotten.
LocalStopsUnflushed ==
  /\ ~crashed /\ main.at = "stopped" /\ Len(main.pcm) >= Short
  /\ ~session.on /\ vadReady /\ vad.there
  /\ main' = [main EXCEPT !.at = "idle",
       !.outcome = LocalOutcome(vad.post,
                     GetConcatenatedSamples(vad.post, main.pcm))]
  /\ vadReady' = FALSE
  /\ UNCHANGED <<world, session, trimmer, vad, others, crashed>>

\* The local VAD is flushed and its segments are the recognizer's input.
LocalStops ==
  /\ ~crashed /\ main.at = "stopped" /\ Len(main.pcm) >= Short
  /\ ~session.on /\ vadReady /\ vad.there
  /\ LET post == Flush(vad.post)
     IN  /\ vad' = [vad EXCEPT !.post = post]
         /\ main' = [main EXCEPT !.at = "idle",
              !.outcome = LocalOutcome(post, GetConcatenatedSamples(post, main.pcm))]
  /\ vadReady' = FALSE
  /\ UNCHANGED <<world, session, trimmer, others, crashed>>

\* Without a session or a VAD the recognizer is given all of the PCM.
BatchStops ==
  /\ ~crashed /\ main.at = "stopped" /\ Len(main.pcm) >= Short
  /\ ~session.on /\ ~vadReady
  /\ Ends("recognize")
  /\ UNCHANGED <<world, speech, others, crashed>>

\* kMicKeepAliveTimer: the device is closed some time after a recording.
KeepAliveExpires ==
  /\ ~crashed /\ main.at = "idle" /\ device # "closed"
  /\ main' = [main EXCEPT !.at = "closing", !.next = "idle"]
  /\ UNCHANGED <<world, speech, others, crashed>>

\* Handling the final takes a session that is finalizing.
FinalTakesSession ==
  /\ ~crashed /\ main.at \in {"idle", "pending"} /\ session.on /\ ~session.open
  /\ session' = NoSession
  /\ UNCHANGED <<world, trimmer, vadReady, vad, main, others, crashed>>

\* kReloadMessage: the settings were saved.  A busy device is closed later.
ReloadMessage ==
  /\ ~crashed /\ main.at \in {"idle", "pending", "recording"}
  /\ reloads + jobs < MaxOthers /\ reloads' = reloads + 1
  /\ vad' = NoVad
  /\ IF main.at = "idle"
     THEN /\ main' = [main EXCEPT !.at = "closing", !.next = "idle"]
          /\ UNCHANGED stale
     ELSE stale' = TRUE /\ UNCHANGED main
  /\ UNCHANGED <<world, session, trimmer, vadReady, captures, job, jobs, crashed>>

(***************************************************************************)
(* The other threads.                                                      *)
(***************************************************************************)

\* The preload thread of the start of the application, or of a reload.
PreloadAsrEngine ==
  /\ ~crashed /\ ~vad.there
  /\ vad' = ResetVad
  /\ UNCHANGED <<world, session, trimmer, vadReady, main, others, crashed>>

\* The session's worker ends while the recording goes on.
SessionStops ==
  /\ ~crashed /\ session.running
  /\ session' = [session EXCEPT !.running = FALSE]
  /\ UNCHANGED <<world, trimmer, vadReady, vad, main, others, crashed>>

\* TrimBatchPcm16WithVad for an older recording: the VAD is reset...
JobResetsVad ==
  /\ ~crashed /\ job.left = 0 /\ reloads + jobs < MaxOthers
  /\ vad' = [ResetVad EXCEPT !.shared = TRUE]
  /\ job' = [left |-> 1] /\ jobs' = jobs + 1
  /\ UNCHANGED <<world, session, trimmer, vadReady, main, stale, captures,
                 reloads, crashed>>

\* ... and fed, frame by frame, under the engine's lock only: one frame, voiced.
JobFeedsVad ==
  /\ ~crashed /\ job.left > 0 /\ vad.there
  /\ vad' = [vad EXCEPT !.post = ProcessOneFrame(@, TRUE), !.shared = TRUE,
                        !.heard = <<>>]
  /\ job' = [left |-> job.left - 1]
  /\ UNCHANGED <<world, session, trimmer, vadReady, main, stale, captures,
                 reloads, jobs, crashed>>

Init ==
  /\ device = "closed" /\ suppressed = FALSE /\ audio = <<>>
  /\ delivered = 0 /\ leftOut = {}
  /\ packet = Waiting
  /\ session = NoSession /\ trimmer = NoTrimmer /\ vadReady = FALSE
  /\ vad = NoVad
  /\ main = Idle
  /\ stale = FALSE /\ captures = 0 /\ reloads = 0 /\ job = [left |-> 0] /\ jobs = 0
  /\ crashed = FALSE

Callback == Deliver \/ LeaveOut \/ Drop \/ Record \/ FeedVad

Starts ==
  \/ BeginCaptureOnly \/ DiscardPendingCapture \/ Detach \/ OpenCapture
  \/ SessionStartFails \/ TrimmerStarts \/ PlainStarts
  \/ ActivateStreamingSession \/ LocalVadResets \/ LocalVadPrimed \/ BatchBegins

Stops ==
  \/ StopRecordingSession \/ CloseAudioCapture \/ TooShort \/ StreamingStops
  \/ LocalStops \/ BatchStops \/ KeepAliveExpires \/ FinalTakesSession
  \/ ReloadMessage

Engine == PreloadAsrEngine \/ SessionStops \/ JobResetsVad \/ JobFeedsVad

Next == Callback \/ Starts \/ Stops \/ Engine \/ Crash

Spec == Init /\ [][Next]_vars

(***************************************************************************)
(* Properties.                                                             *)
(***************************************************************************)

\* All that was recorded since the capture began: what the stop took, and
\* what a waveIn callback recorded during the close of the device after it.
Captured == IF main.at \in {"stopped", "closing"} THEN main.pcm \o audio ELSE audio

Capturing == main.at \in {"pending", "opened", "built", "recording"}

\* The audio of a recording has every packet since its capture began that
\* became a block, in order and none twice: all but those the callback made
\* no block of and the one still in its hands.  In front of them there is at
\* most one other, the very packet before the capture: the callback had it in
\* its hands when the capture was resumed, and sees no pause any more.  The
\* comments (wasapi_capture.cpp:359, engine.cpp:915) rule that block out, the
\* code does not (StopAudioCapture and StartAudioCapture of engine.cpp).
CaptureIsComplete ==
  Capturing =>
    LET first == main.first
        last  == IF packet.at = "got" THEN delivered - 1 ELSE delivered
        early == audio # <<>> /\ audio[1].n = first - 1
        own   == IF early THEN Tail(audio) ELSE audio
    IN  /\ \A i, j \in DOMAIN own : i < j => own[i].n < own[j].n
        /\ {own[i].n : i \in DOMAIN own} = (first .. last) \ leftOut

\* A session that runs was given the whole recording, each block once and
\* in order, however its creation, the replay of the earlier blocks and the
\* callback interleave; with a trimmer, exactly the chunks from a little
\* before the first voiced one to a little after the last.  Once its input
\* ended it is given nothing of the next recording (ActivateStreamingSession
\* of main.cpp, Record in both callbacks).
SessionHearsCapture ==
  /\ session.on /\ session.open =>
       LET chunks == FlattenSeq([i \in DOMAIN trimmer.decided |->
                                   trimmer.decided[i].chunk])
           given  == IF trimmer.active THEN chunks ELSE session.heard
       IN  /\ IsPrefix(given, Captured)
           /\ session.running => given = Captured
           /\ trimmer.active => session.heard = Kept(trimmer.decided)
  /\ session.on /\ ~session.open => session.heard = session.due

\* s without one of its elements.
OneLess(s) == {RemoveAt(s, i) : i \in DOMAIN s}

\* At the end of a local WASAPI recording the VAD has heard its blocks in
\* order, those captured before it was a recording included.  Only the last
\* one may still be on its way, and the one that waveIn had in its hands
\* before the capture began is not fed.  At most one block comes in addition,
\* the one that was in the callback's hands when the VAD was reset
\* (LocalVadPrimed, and the callback that feeds the VAD outside the locks).
VadHearsRecording ==
  LET o   == main.outcome
      due == {o.pcm} \union
             {Tail(p) : p \in {q \in {o.pcm} : q # <<>> /\ q[1].n < main.first}}
  IN  o.api = "wasapi" /\ ~o.shared /\ reloads = 0 =>
        \E fed \in {o.heard} \union OneLess(o.heard), whole \in due :
          fed = whole \/ (whole # <<>> /\ fed = Front(whole))

\* Speech long enough to be confirmed is never trimmed away by the local
\* VAD if it heard the recording as it is, and the segments it cuts out are
\* in order and disjoint, so that nothing is recognized twice (Flush and
\* GetConcatenatedSamples of FireRedVad, StopRecordingSession).
SpeechIsKept ==
  main.outcome.exact =>
    LET o == main.outcome
        kept == {o.samples[i].n : i \in DOMAIN o.samples}
    IN  /\ \A run \in Runs(Voices(o.pcm)) :
             \A i \in run[1] .. run[2] : o.pcm[i].n \in kept
        /\ \A i, j \in DOMAIN o.samples :
             i < j => o.samples[i].n < o.samples[j].n

\* The VAD is only ever missing where it is used if the settings were saved
\* in the meantime: a model that does not load keeps the trimmer inactive
\* and vadReady FALSE (StreamingVadTrimmer::Start, EnsureVadForConfig).
VadIsThere == crashed => reloads > 0

\* What README.md and the comment above the priming of the local VAD take for
\* granted: a recording that is dropped as "No speech detected" has no run
\* of voiced blocks the VAD would have confirmed, not counting its last
\* block, which may come too late for the VAD (WaveInProc, LocalStops).
NoSpeechIsSilence ==
  LET pcm == main.outcome.pcm
  IN  main.outcome.verdict = "noSpeech" /\ pcm # <<>> =>
        Runs(Voices(Front(pcm))) = {}

=============================================================================
