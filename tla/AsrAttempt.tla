----------------------------- MODULE AsrAttempt -----------------------------
(***************************************************************************)
(* The life of a recognition attempt in src/app/main.cpp: from the start   *)
(* of a recording to the paste of its text, or to the verdict shown in its *)
(* place.                                                                  *)
(*                                                                         *)
(* The main thread owns the attempt (g_activeAttempt), the streaming       *)
(* session, the watchdog timer and the HUD.  It learns what other threads  *)
(* did from the messages they post to its window, in FIFO order: provider  *)
(* workers post partials, statuses and a final, detached threads run batch *)
(* recognition, fallback and LLM refinement, and the capture thread posts  *)
(* a device failure.  A newer recording supersedes an attempt while any of *)
(* them is still at work for it.                                           *)
(*                                                                         *)
(* A handler of the main thread is one action.  What a worker posts while  *)
(* the handler runs (also while Abort() joins it) is what the model has it *)
(* post just before: the handlers read nothing the worker writes after     *)
(* that.  For the same reason, timers and keys are taken at any moment,    *)
(* whatever is still queued.                                               *)
(***************************************************************************)
EXTENDS Naturals, Sequences

CONSTANTS
  MaxAttempts,   \* bound: how many attempt numbers are used up
  MaxNotices,    \* bound: how many partials and statuses are posted
  Configs        \* the configurations a recording may start with

\* What of a Config the control flow depends on: the kind of the primary
\* backend, whether a fallback backend is set, whether LLM refinement is on,
\* and which of the two backends, if any, is Qwen Free with its bundled
\* post-processing.
PossibleConfigs ==
  {c \in [mode : {"stream", "batch"}, fallback : BOOLEAN, llm : BOOLEAN,
          qwenFree : {"none", "primary", "fallback"}] :
     /\ c.qwenFree = "primary" => c.mode = "stream"
     /\ c.qwenFree = "fallback" => c.fallback}

ASSUME BoundsAssumption == MaxAttempts \in Nat /\ MaxNotices \in Nat
ASSUME ConfigsAssumption == Configs # {} /\ Configs \subseteq PossibleConfigs

VARIABLES
  seq,           \* g_asrAttemptSeq
  attempt,       \* g_activeAttempt
  session,       \* the attempt whose session is g_activeStreamingSession
  provider,      \* what the worker of each attempt's session is doing
  watchdog,      \* whether kStreamingWatchdogTimer is armed
  recording,     \* g_recording
  captureFault,  \* g_audioCaptureFailurePending
  queue,         \* the messages posted to the main window
  jobs,          \* the detached threads that are running
  hud,           \* what the HUD shows
  hideArmed,     \* whether kHudHideTimer is armed
  diagOpen,      \* the attempts audio_diagnostics has not finalized
  alive,         \* false once the main window is destroyed
  notices,       \* how many partials and statuses were posted
  pasted,        \* history: the attempts whose text was pasted
  silenced       \* history: the attempts ended by a local verdict

vars == <<seq, attempt, session, provider, watchdog, recording, captureFault,
          queue, jobs, hud, hideArmed, diagOpen, alive, notices, pasted,
          silenced>>

---------------------------------------------------------------------------
\* Data.

Ids == 1..MaxAttempts

\* The outcomes of a recognition that the program tells apart; "polished" is
\* text that already went through the provider's bundled post-processing,
\* "utdid" the Qwen Free error that falls back to Qwen ASR by itself when a
\* key for it is configured.
Texts == {"plain", "polished", "noSpeech", "error", "utdid"}

UsableText == {"plain", "polished"}
OperationalError == {"error", "utdid"}

PrimaryTexts(config) ==
  {"plain", "noSpeech", "error"}
    \union (IF config.qwenFree = "primary" THEN {"polished", "utdid"} ELSE {})

FallbackTexts(config) ==
  {"plain", "noSpeech", "error"}
    \union (IF config.qwenFree = "fallback" THEN {"polished"} ELSE {})

FinalMessages ==
  [kind : {"final"}, id : Ids, text : Texts, allowCancelled : BOOLEAN]
ResultMessages ==
  [kind : {"result"}, id : Ids, text : Texts, refine : BOOLEAN,
   allowCancelled : BOOLEAN]
LlmMessages ==
  [kind : {"llm"}, id : Ids, text : {"plain", "error"},
   allowCancelled : BOOLEAN]
Notices == [kind : {"partial", "status", "captureError"}, id : Ids]

Messages == FinalMessages \union ResultMessages \union LlmMessages
              \union Notices

NoFinal == [kind |-> "none"]

\* AsrAttemptFinalMessage, as a provider callback and as the watchdog post it.
Final(id, text, allow) ==
  [kind |-> "final", id |-> id, text |-> text, allowCancelled |-> allow]

Notice(kind, id) == [kind |-> kind, id |-> id]

\* A detached thread: the batch recognition of RecognizeAsync, with its own
\* fallback; a streaming fallback; an LLM refinement.  "step" is the call it
\* is in, "text" the result it holds when it is about to dispatch.
Job(kind, step, id, config, allow) ==
  [kind |-> kind, step |-> step, id |-> id, config |-> config,
   allowCancelled |-> allow, text |-> "noSpeech"]

Jobs ==
  [kind : {"batch", "fallback", "llm"},
   step : {"primary", "start", "fallback", "dispatch", "refine"},
   id : Ids, config : Configs, allowCancelled : BOOLEAN, text : Texts]

FreshAttempt(id, config) ==
  [id |-> id, config |-> config, stopped |-> FALSE, finalHandled |-> FALSE,
   cancelled |-> FALSE, invalidated |-> FALSE, fallbackStarted |-> FALSE,
   deferred |-> NoFinal, pcm |-> "none"]

Attempts ==
  [id : {0} \union Ids, config : Configs, stopped : BOOLEAN,
   finalHandled : BOOLEAN, cancelled : BOOLEAN, invalidated : BOOLEAN,
   fallbackStarted : BOOLEAN, deferred : FinalMessages \union {NoFinal},
   pcm : {"none", "short", "long"}]

TypeOK ==
  /\ seq \in {0} \union Ids
  /\ attempt \in Attempts
  /\ session \in {0} \union Ids
  /\ provider \in [Ids -> {"none", "running", "posted", "finished"}]
  /\ watchdog \in BOOLEAN
  /\ recording \in BOOLEAN
  /\ captureFault \in BOOLEAN
  /\ queue \in Seq(Messages)
  /\ jobs \subseteq Jobs
  /\ hud \in {"hidden", "listening", "partial", "recognizing", "status",
              "refining", "verdict"}
  /\ hideArmed \in BOOLEAN
  /\ diagOpen \subseteq Ids
  /\ alive \in BOOLEAN
  /\ notices \in 0..MaxNotices
  /\ pasted \in Seq(Ids)
  /\ silenced \subseteq Ids

---------------------------------------------------------------------------
\* The helpers of main.cpp that read or update g_activeAttempt.

\* Mutant: a result of any attempt counts as one of the current attempt.
IsActiveWithoutId(id, allow) ==
  ~attempt.invalidated /\ (allow \/ ~attempt.cancelled)

\* Mutant: "invalidated" is not looked at.
IsActiveWithoutInvalidated(id, allow) ==
  id = attempt.id /\ (allow \/ ~attempt.cancelled)

IsActiveAsrAttempt(id, allow) ==
  /\ id = attempt.id
  /\ ~attempt.invalidated
  /\ allow \/ ~attempt.cancelled

\* Mutant: the "invalidate" argument is ignored.
CancelWithoutInvalidate(a, invalidate) ==
  IF a.id = 0 THEN a ELSE [a EXCEPT !.cancelled = TRUE]

CancelActiveAsrAttempt(a, invalidate) ==
  IF a.id = 0 THEN a
  ELSE [a EXCEPT !.cancelled = TRUE, !.invalidated = @ \/ invalidate]

CompleteActiveAttemptRecording(a, length) ==
  [a EXCEPT !.stopped = TRUE, !.pcm = length, !.deferred = NoFinal]

\* Mutant: it releases the PCM and the deferred final, but leaves the flags.
MarkWithoutFlags(a) == [a EXCEPT !.pcm = "none", !.deferred = NoFinal]

MarkActiveAttemptFinalHandled(a) ==
  [a EXCEPT !.finalHandled = TRUE, !.cancelled = TRUE, !.pcm = "none",
            !.deferred = NoFinal]

\* AttemptFinalDisposition: a final that comes while the microphone records
\* waits for its release (the first one is kept), and one final per attempt
\* is ready to be handled.
FinalRejected(m, a) ==
  \/ m.id # a.id
  \/ a.finalHandled
  \/ a.invalidated
  \/ a.cancelled /\ ~m.allowCancelled

PrepareAttemptFinal(m, a) ==
  IF FinalRejected(m, a) THEN "Rejected"
  ELSE IF a.stopped THEN "Ready"
  ELSE IF a.deferred = NoFinal THEN "DeferredUntilStop"
  ELSE "Rejected"

TryMarkAttemptFallbackStarted(a, allow) ==
  /\ a.finalHandled
  /\ ~a.invalidated
  /\ allow \/ ~a.cancelled
  /\ ~a.fallbackStarted

\* The fallback that is configured, and the one to Qwen ASR that a failed
\* UTDID acquisition starts whether or not one is configured.
ShouldRunFallback(config, text) ==
  \/ text \in OperationalError /\ config.fallback
  \/ text = "utdid"

\* Mutant: the session is dropped without being aborted.
ProvidersNotAborted == provider

\* IStreamingAsrSession::Abort of the installed session joins its worker.
AbortedProviders ==
  [i \in Ids |-> IF i = session THEN "finished" ELSE provider[i]]

\* The needLlm of DispatchAsrFinalText.
ShouldRunLlmRefine(config, text, bundled) ==
  config.llm /\ text \in UsableText /\ ~bundled

\* DispatchAsrFinalText: close the diagnostics of the attempt, post the
\* result and, if it is to be refined, start the LLM thread; q and js are the
\* queue and the threads it starts from.
DispatchAsrFinalText(id, text, bundled, allow, config, q, js) ==
  LET refine == ShouldRunLlmRefine(config, text, bundled) IN
  /\ diagOpen' = diagOpen \ {id}
  /\ queue' = Append(q, [kind |-> "result", id |-> id, text |-> text,
                         refine |-> refine, allowCancelled |-> allow])
  /\ jobs' = IF refine
               THEN js \union {Job("llm", "refine", id, config, allow)}
               ELSE js

---------------------------------------------------------------------------
\* The final of the primary backend.

RejectFinal(m, a, q) ==
  /\ PrepareAttemptFinal(m, a) = "Rejected"
  /\ attempt' = a
  /\ queue' = q
  /\ UNCHANGED <<session, provider, jobs, diagOpen>>

DeferFinal(m, a, q) ==
  /\ PrepareAttemptFinal(m, a) = "DeferredUntilStop"
  /\ attempt' = [a EXCEPT !.deferred = m]
  /\ queue' = q
  /\ UNCHANGED <<session, provider, jobs, diagOpen>>

\* The one final that claims the attempt: the session is aborted, and the
\* text goes to the fallback or to dispatch.
ClaimFinal(m, a, q) ==
  LET claimed == [a EXCEPT !.finalHandled = TRUE, !.pcm = "none"]
      fallback == ShouldRunFallback(a.config, m.text) /\ a.pcm = "long"
  IN /\ PrepareAttemptFinal(m, a) = "Ready"
     /\ session' = 0
     /\ provider' = AbortedProviders
     /\ IF ~fallback
          THEN /\ attempt' = claimed
               /\ DispatchAsrFinalText(m.id, m.text, m.text = "polished",
                                       m.allowCancelled, a.config, q, jobs)
          ELSE IF TryMarkAttemptFallbackStarted(claimed, m.allowCancelled)
          THEN /\ attempt' = [claimed EXCEPT !.fallbackStarted = TRUE]
               /\ queue' = Append(q, Notice("status", m.id))
               /\ jobs' = jobs \union
                    {Job("fallback", "start", m.id, a.config, m.allowCancelled)}
               /\ UNCHANGED diagOpen
          ELSE /\ attempt' = claimed
               /\ queue' = q
               /\ UNCHANGED <<jobs, diagOpen>>

HandleAsrAttemptFinal(m, a, q) ==
  \/ RejectFinal(m, a, q)
  \/ DeferFinal(m, a, q)
  \/ ClaimFinal(m, a, q)

---------------------------------------------------------------------------
\* Start and stop of a recording.

\* The microphone cannot be opened: the old attempt is gone all the same.
StartRecordingFails ==
  /\ alive
  /\ ~recording
  /\ seq < MaxAttempts
  /\ seq' = seq + 1
  /\ attempt' = CancelActiveAsrAttempt(attempt, TRUE)
  /\ session' = 0
  /\ provider' = AbortedProviders
  /\ hud' = "verdict"
  /\ hideArmed' = TRUE
  /\ UNCHANGED <<watchdog, recording, captureFault, queue, jobs, diagOpen,
                 alive, notices, pasted, silenced>>

\* Mutant: BeginAsrAttempt leaves the superseded attempt open.
BeginWithoutDiscard(id) == diagOpen \union {id}

\* What BeginAsrAttempt does in audio_diagnostics.
BeginDiagnostics(id) == (diagOpen \ {attempt.id}) \union {id}

\* BeginAsrAttempt replaces the old attempt, whose session is aborted once
\* the new capture runs; a streaming backend gets its session at once.
StartRecordingSession(config) ==
  LET id == seq + 1
      streaming == config.mode = "stream"
  IN /\ alive
     /\ ~recording
     /\ seq < MaxAttempts
     /\ seq' = id
     /\ attempt' = FreshAttempt(id, config)
     /\ recording' = TRUE
     /\ session' = IF streaming THEN id ELSE 0
     /\ provider' = [AbortedProviders EXCEPT
                       ![id] = IF streaming THEN "running" ELSE "none"]
     /\ watchdog' = (streaming \/ watchdog)
     /\ diagOpen' = BeginDiagnostics(id)
     /\ hud' = "listening"
     /\ hideArmed' = FALSE
     /\ UNCHANGED <<captureFault, queue, jobs, alive, notices, pasted, silenced>>

\* An attempt that ends without a final: MarkActiveAttemptFinalHandled, the
\* end of its session and of its diagnostics, and the verdict on the HUD.
EndSilently(a, killWatchdog) ==
  /\ recording' = FALSE
  /\ attempt' = MarkActiveAttemptFinalHandled(a)
  /\ diagOpen' = diagOpen \ {a.id}
  /\ watchdog' = (watchdog /\ ~killWatchdog)
  /\ session' = 0
  /\ provider' = AbortedProviders
  /\ hud' = "verdict"
  /\ hideArmed' = TRUE
  /\ silenced' = silenced \union {a.id}

FinishAudioCaptureFailure(q) ==
  LET completed == CompleteActiveAttemptRecording(attempt, "short") IN
  /\ EndSilently(CancelActiveAsrAttempt(completed, TRUE), TRUE)
  /\ captureFault' = FALSE
  /\ queue' = q
  /\ UNCHANGED <<seq, jobs, alive, notices, pasted>>

\* StopRecordingSession runs when the stop-delay timer fires after the key is
\* released, or when the watchdog finds the recording limit reached.  It may
\* find that the capture has failed in the meantime,
StopFailedCapture ==
  /\ alive
  /\ recording
  /\ captureFault
  /\ FinishAudioCaptureFailure(queue)

\* that the recording is too short, or that the local VAD heard no speech,
StopWithoutSpeech ==
  /\ alive
  /\ recording
  /\ ~captureFault
  /\ \E length \in {"short", "long"} :
       /\ length = "long" => attempt.config.qwenFree # "primary"
       /\ EndSilently(CompleteActiveAttemptRecording(attempt, length),
                      attempt.config.mode = "stream")
  /\ UNCHANGED <<seq, captureFault, queue, jobs, alive, notices, pasted>>

\* that the provider has already given its final,
StopWithDeferredFinal ==
  /\ alive
  /\ recording
  /\ ~captureFault
  /\ attempt.config.mode = "stream" /\ session # 0
  /\ attempt.deferred # NoFinal
  /\ recording' = FALSE
  /\ watchdog' = FALSE
  /\ HandleAsrAttemptFinal(attempt.deferred,
                           CompleteActiveAttemptRecording(attempt, "long"),
                           queue)
  /\ UNCHANGED <<seq, captureFault, hud, hideArmed, alive, notices, pasted,
                 silenced>>

\* or that it must wait for it under a watchdog.
StopStreaming ==
  /\ alive
  /\ recording
  /\ ~captureFault
  /\ attempt.config.mode = "stream" /\ session # 0
  /\ attempt.deferred = NoFinal
  /\ recording' = FALSE
  /\ attempt' = CompleteActiveAttemptRecording(attempt, "long")
  /\ watchdog' = TRUE
  /\ hud' = "recognizing"
  /\ UNCHANGED <<seq, session, provider, captureFault, queue, jobs, hideArmed,
                 diagOpen, alive, notices, pasted, silenced>>

\* Without a session the whole recording goes to RecognizeAsync.
StopBatch ==
  /\ alive
  /\ recording
  /\ ~captureFault
  /\ attempt.config.mode = "batch" \/ session = 0
  /\ recording' = FALSE
  /\ attempt' = CompleteActiveAttemptRecording(attempt, "long")
  /\ hud' = "recognizing"
  /\ jobs' = jobs \union
               {Job("batch", "primary", attempt.id, attempt.config, FALSE)}
  /\ UNCHANGED <<seq, session, provider, watchdog, captureFault, queue,
                 hideArmed, diagOpen, alive, notices, pasted, silenced>>

---------------------------------------------------------------------------
\* Other threads: the capture thread and the workers of streaming sessions.

\* The capture thread, or the waveIn callback, loses the device.
CaptureFails ==
  /\ alive
  /\ recording
  /\ ~captureFault
  /\ captureFault' = TRUE
  /\ queue' = Append(queue, Notice("captureError", attempt.id))
  /\ UNCHANGED <<seq, attempt, session, provider, watchdog, recording, jobs,
                 hud, hideArmed, diagOpen, alive, notices, pasted, silenced>>

PostNotice(kind, id) ==
  /\ alive
  /\ notices < MaxNotices
  /\ notices' = notices + 1
  /\ queue' = Append(queue, Notice(kind, id))
  /\ UNCHANGED <<seq, attempt, session, provider, watchdog, recording,
                 captureFault, jobs, hud, hideArmed, diagOpen, alive, pasted,
                 silenced>>

\* StreamingPartialHudCallback and NotifyStatus.
ProviderNotice(id) ==
  /\ provider[id] = "running"
  /\ \E kind \in {"partial", "status"} : PostNotice(kind, id)

\* StreamingFinalCallback, at any time from the start of the session on.
ProviderFinal(id) ==
  /\ alive
  /\ provider[id] = "running"
  /\ provider' = [provider EXCEPT ![id] = "posted"]
  /\ \E text \in PrimaryTexts(attempt.config) :
       queue' = Append(queue, Final(id, text, FALSE))
  /\ UNCHANGED <<seq, attempt, session, watchdog, recording, captureFault,
                 jobs, hud, hideArmed, diagOpen, alive, notices, pasted,
                 silenced>>

\* The worker leaves its loop, so IsRunning() turns false.
ProviderExits(id) ==
  /\ alive
  /\ provider[id] = "posted"
  /\ provider' = [provider EXCEPT ![id] = "finished"]
  /\ UNCHANGED <<seq, attempt, session, watchdog, recording, captureFault,
                 queue, jobs, hud, hideArmed, diagOpen, alive, notices, pasted,
                 silenced>>

---------------------------------------------------------------------------
\* Detached threads.

KeepJob(j, next) == jobs' = (jobs \ {j}) \union {next}
DropJob(j) == jobs' = jobs \ {j}

\* RecognizeAsync: the primary backend returns; a stale result is dropped, an
\* error starts the fallback in the same thread.
PrimaryBatchReturns(j) ==
  /\ j.step = "primary"
  /\ \E text \in {"plain", "noSpeech", "error"} :
       IF ~IsActiveAsrAttempt(j.id, j.allowCancelled)
         THEN DropJob(j) /\ UNCHANGED queue
       ELSE IF ShouldRunFallback(j.config, text)
         THEN /\ KeepJob(j, [j EXCEPT !.step = "fallback"])
              /\ queue' = Append(queue, Notice("status", j.id))
         ELSE /\ KeepJob(j, [j EXCEPT !.step = "dispatch", !.text = text])
              /\ UNCHANGED queue
  /\ UNCHANGED diagOpen

\* DispatchStreamingFallbackAsync: the thread checks that it is still wanted.
FallbackStarts(j) ==
  /\ j.step = "start"
  /\ IF IsActiveAsrAttempt(j.id, j.allowCancelled)
       THEN KeepJob(j, [j EXCEPT !.step = "fallback"])
       ELSE DropJob(j)
  /\ UNCHANGED <<queue, diagOpen>>

\* RunConfiguredAsrOnce returns.  The thread checks once more that the
\* attempt is active and may lose the processor before it dispatches.
FallbackReturns(j) ==
  /\ j.step = "fallback"
  /\ \E text \in FallbackTexts(j.config) :
       IF IsActiveAsrAttempt(j.id, j.allowCancelled)
         THEN KeepJob(j, [j EXCEPT !.step = "dispatch", !.text = text])
         ELSE DropJob(j)
  /\ UNCHANGED <<queue, diagOpen>>

\* The metadata of a streaming fallback says whether its text is bundled
\* post-processing; RecognizeAsync leaves that field at its default.
JobDispatches(j) ==
  /\ j.step = "dispatch"
  /\ DispatchAsrFinalText(j.id, j.text,
                          j.kind = "fallback" /\ j.text = "polished",
                          j.allowCancelled, j.config, queue, jobs \ {j})

\* RefineWithLlmAsync: llm::Refine returns a text or "LLM failed: ...", which
\* is posted without any check.
LlmReturns(j) ==
  /\ j.step = "refine"
  /\ DropJob(j)
  /\ \E text \in {"plain", "error"} :
       queue' = Append(queue, [kind |-> "llm", id |-> j.id, text |-> text,
                               allowCancelled |-> j.allowCancelled])
  /\ UNCHANGED diagOpen

JobStep(j) ==
  /\ alive
  /\ \/ PrimaryBatchReturns(j)
     \/ FallbackStarts(j)
     \/ FallbackReturns(j)
     \/ JobDispatches(j)
     \/ LlmReturns(j)
  /\ UNCHANGED <<seq, attempt, session, provider, watchdog, recording,
                 captureFault, hud, hideArmed, alive, notices, pasted, silenced>>

\* A one-shot streaming session of a fallback reports its retries.
JobNotice(j) ==
  /\ j.step = "fallback"
  /\ PostNotice("status", j.id)

---------------------------------------------------------------------------
\* Timers of the main thread.

\* Mutant: the attempt number of the timeout message is not filled in.
TimeoutWithoutId(id) == Final(0, "error", TRUE)

\* Mutant: the timeout message is not marked as allowed.
TimeoutNotAllowed(id) == Final(id, "error", FALSE)

\* The final the watchdog posts in the place of the provider's.
TimeoutFinal(id) == Final(id, "error", TRUE)

\* kStreamingWatchdogTimer.  During a recording it only re-arms itself (or
\* stops the recording at its limit); after it, a session that still runs is
\* cancelled and aborted, and its final is replaced by a timeout that may
\* still start the fallback.
WatchdogFires ==
  LET timesOut == session # 0 /\ provider[session] \in {"running", "posted"}
  IN /\ alive
     /\ watchdog
     /\ ~recording
     /\ watchdog' = FALSE
     /\ session' = 0
     /\ provider' = AbortedProviders
     /\ attempt' = IF timesOut THEN CancelActiveAsrAttempt(attempt, FALSE)
                               ELSE attempt
     /\ queue' = IF timesOut THEN Append(queue, TimeoutFinal(attempt.id))
                             ELSE queue
     /\ UNCHANGED <<seq, recording, captureFault, jobs, hud, hideArmed, diagOpen,
                    alive, notices, pasted, silenced>>

\* kHudHideTimer, which the system delivers when no message is queued.
HideHud ==
  /\ alive
  /\ hideArmed
  /\ queue = <<>>
  /\ hud' = "hidden"
  /\ hideArmed' = FALSE
  /\ UNCHANGED <<seq, attempt, session, provider, watchdog, recording,
                 captureFault, queue, jobs, diagOpen, alive, notices, pasted,
                 silenced>>

---------------------------------------------------------------------------
\* Messages of the main window.

\* kAsrAttemptFinalMessage.
ReceiveFinal(m, q) ==
  /\ m.kind = "final"
  /\ HandleAsrAttemptFinal(m, attempt, q)
  /\ UNCHANGED <<seq, watchdog, recording, captureFault, hud, hideArmed, alive,
                 notices, pasted, silenced>>

\* kAsrResultMessage.
ReceiveResult(m, q) ==
  LET accepted == IsActiveAsrAttempt(m.id, m.allowCancelled)
      refining == m.refine /\ m.text \in UsableText
  IN /\ m.kind = "result"
     /\ queue' = q
     /\ watchdog' = (watchdog /\ ~accepted)
     /\ hud' = IF ~accepted THEN hud
               ELSE IF refining THEN "refining" ELSE "verdict"
     /\ hideArmed' = (hideArmed \/ (accepted /\ ~refining))
     /\ pasted' = IF accepted /\ ~refining /\ m.text \in UsableText
                    THEN Append(pasted, m.id) ELSE pasted
     /\ UNCHANGED <<seq, attempt, session, provider, recording, captureFault,
                    jobs, diagOpen, alive, notices, silenced>>

\* kLlmResultMessage.
ReceiveLlm(m, q) ==
  LET accepted == IsActiveAsrAttempt(m.id, m.allowCancelled)
  IN /\ m.kind = "llm"
     /\ queue' = q
     /\ hud' = IF accepted THEN "verdict" ELSE hud
     /\ hideArmed' = (hideArmed \/ accepted)
     /\ pasted' = IF accepted /\ m.text = "plain" THEN Append(pasted, m.id)
                                                  ELSE pasted
     /\ UNCHANGED <<seq, attempt, session, provider, watchdog, recording,
                    captureFault, jobs, diagOpen, alive, notices, silenced>>

\* kHudUpdateWithOptionsMessage drops the partials of a cancelled attempt,
\* kHudUpdateMessage shows its statuses.
ReceiveNotice(m, q) ==
  /\ m.kind \in {"partial", "status"}
  /\ queue' = q
  /\ hud' = IF IsActiveAsrAttempt(m.id, m.kind = "status") THEN m.kind ELSE hud
  /\ UNCHANGED <<seq, attempt, session, provider, watchdog, recording,
                 captureFault, jobs, hideArmed, diagOpen, alive, notices,
                 pasted, silenced>>

\* kAudioCaptureErrorMessage and kWaveInCaptureErrorMessage: a failure of a
\* capture that is over (its generation is not the current one) is ignored.
ReceiveCaptureError(m, q) ==
  /\ m.kind = "captureError"
  /\ IF recording /\ m.id = attempt.id
       THEN FinishAudioCaptureFailure(q)
       ELSE /\ queue' = q
            /\ UNCHANGED <<seq, attempt, session, provider, watchdog, recording,
                           captureFault, jobs, hud, hideArmed, diagOpen, alive,
                           notices, pasted, silenced>>

DispatchMessage ==
  /\ alive
  /\ queue # <<>>
  /\ \/ ReceiveFinal(Head(queue), Tail(queue))
     \/ ReceiveResult(Head(queue), Tail(queue))
     \/ ReceiveLlm(Head(queue), Tail(queue))
     \/ ReceiveNotice(Head(queue), Tail(queue))
     \/ ReceiveCaptureError(Head(queue), Tail(queue))

\* WM_DESTROY: nothing is handled after it.
Shutdown ==
  /\ alive
  /\ alive' = FALSE
  /\ attempt' = MarkActiveAttemptFinalHandled(
                  CancelActiveAsrAttempt(attempt, TRUE))
  /\ diagOpen' = diagOpen \ {attempt.id}
  /\ session' = 0
  /\ provider' = AbortedProviders
  /\ watchdog' = FALSE
  /\ UNCHANGED <<seq, recording, captureFault, queue, jobs, hud, hideArmed,
                 notices, pasted, silenced>>

---------------------------------------------------------------------------
\* The specification.

Init ==
  /\ seq = 0
  /\ \E config \in Configs : attempt = FreshAttempt(0, config)
  /\ session = 0
  /\ provider = [i \in Ids |-> "none"]
  /\ watchdog = FALSE
  /\ recording = FALSE
  /\ captureFault = FALSE
  /\ queue = <<>>
  /\ jobs = {}
  /\ hud = "hidden"
  /\ hideArmed = FALSE
  /\ diagOpen = {}
  /\ alive = TRUE
  /\ notices = 0
  /\ pasted = <<>>
  /\ silenced = {}

Next ==
  \/ StartRecordingFails
  \/ \E config \in Configs : StartRecordingSession(config)
  \/ StopFailedCapture
  \/ StopWithoutSpeech
  \/ StopWithDeferredFinal
  \/ StopStreaming
  \/ StopBatch
  \/ CaptureFails
  \/ \E id \in Ids : ProviderNotice(id) \/ ProviderFinal(id) \/ ProviderExits(id)
  \/ \E j \in jobs : JobStep(j) \/ JobNotice(j)
  \/ WatchdogFires
  \/ HideHud
  \/ DispatchMessage
  \/ Shutdown

Spec == Init /\ [][Next]_vars

\* The main loop keeps running its handlers and timers, and every detached
\* thread returns: its network calls have timeouts.  Nothing is assumed of
\* the worker of a streaming session, which may hang; nor of the user.
Fairness ==
  /\ WF_vars(DispatchMessage)
  /\ WF_vars(WatchdogFires)
  /\ WF_vars(HideHud)
  /\ WF_vars(\E j \in jobs : JobStep(j))

FairSpec == Spec /\ Fairness

---------------------------------------------------------------------------
\* What is delivered.

\* What the user sees of the attempt: idle also covers a verdict that is
\* about to be hidden.
Phase ==
  IF ~alive THEN "idle"
  ELSE IF recording THEN "recording"
  ELSE IF hideArmed \/ hud = "hidden" THEN "idle"
  ELSE "recognizing"

AD == INSTANCE AttemptDelivery WITH current <- attempt.id, phase <- Phase

\* Providers, watchdog, fallback and refinement together keep the promise of
\* AttemptDelivery: each stopped recording is pasted at most once, while it is
\* the current one and is being recognized, and is over after that.
DeliversAttempts == AD!Spec

\* Texts are pasted in the order of their recordings, none twice: a result
\* of a superseded attempt, a second final, or a late answer next to the
\* watchdog's never reaches the paste.
PastedInOrder ==
  \A i, j \in 1..Len(pasted) : i < j => pasted[i] < pasted[j]

\* An attempt that ended because it was too short, held no speech or lost its
\* microphone is neither pasted nor worked on by any thread afterwards,
\* although its provider may have given a final before (handlers of
\* StopRecordingSession and FinishAudioCaptureFailure).
SilencedStaysSilent ==
  /\ \A i \in 1..Len(pasted) : pasted[i] \notin silenced
  /\ \A j \in jobs : j.id \notin silenced

\* Recognition threads only ever work on a whole recording: while the
\* microphone records, no thread and no result exists for the attempt, even
\* when its provider has already failed.
NothingBeforeStop ==
  recording =>
    /\ \A j \in jobs : j.id # attempt.id
    /\ \A i \in 1..Len(queue) :
         queue[i].kind \in {"result", "llm"} => queue[i].id # attempt.id

\* Fallback is serial: no fallback thread exists for an attempt whose primary
\* worker still runs.
FallbackIsSerial ==
  \A j \in jobs : j.kind = "fallback" => provider[j.id] = "finished"

\* A worker that runs belongs to the installed session of the current
\* attempt, so the main thread can still abort it; a superseded one is gone.
NoOrphanSession ==
  \A id \in Ids : provider[id] \in {"running", "posted"} =>
                    session = id /\ attempt.id = id

\* audio_diagnostics holds the recording of at most one attempt open, the
\* current one, whichever thread finalizes it.
OneOpenDiagnostic == diagOpen \subseteq {attempt.id}

\* Nothing is left behind by a superseded attempt: no worker that nobody can
\* abort, and no recording kept open for its diagnosis.
NothingLeftBehind == NoOrphanSession /\ OneOpenDiagnostic

\* Text a provider has post-processed itself is not refined a second time
\* (the comment on AsrFinalCallback in asr_streaming_session.h).
BundledTextNotRefined ==
  \A i \in 1..Len(queue) :
    queue[i].kind = "result" /\ queue[i].refine => queue[i].text # "polished"

---------------------------------------------------------------------------
\* What the HUD shows.

Settled == hideArmed \/ hud = "hidden"

\* Once a verdict is shown, nothing but the next recording changes what the
\* HUD shows until it hides.  Only statuses of an attempt that a local verdict
\* ended may still replace it.
VerdictStaysUnlessSilenced ==
  [][Settled /\ hud' # hud =>
       hud' = "hidden" \/ seq' # seq \/ attempt.id \in silenced]_vars

\* The HUD never stays on "Recognizing...", "Fallback..." or "Refining...":
\* after a recording it is hidden in the end, whatever the provider does.
HudIsHiddenInTheEnd ==
  ~recording ~> (hud = "hidden" \/ recording \/ ~alive)
=============================================================================
