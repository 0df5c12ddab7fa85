-------------------------- MODULE BatchRecognition --------------------------
(***************************************************************************)
(* Recognition of a finished recording: the thread RecognizeAsync starts   *)
(* for it, the batch sessions with their retries and credentials, the      *)
(* fallback, and the diagnostics all of them report to.                    *)
(*                                                                         *)
(* The main thread begins and stops recordings and may supersede one while *)
(* its thread still works.  A step of a thread is what it does between two *)
(* points where another thread can be seen: a request is one step with the *)
(* registration before it and the terminal after it, which only the owner  *)
(* of the stage touches.  How a request ends is the service's choice.      *)
(*                                                                         *)
(* "qwen" is the realtime service used for a whole recording, "doubao" a   *)
(* recorded session of the Doubao IME.                                     *)
(***************************************************************************)
EXTENDS AudioDiagnostics

CONSTANTS
  Plans,   \* the settings at each recording, and a bound on the number of
           \* presses of Test Connection
  Sizes    \* how long the recordings are

Backends ==
  {"local", "baidu", "qwen", "qwen_audio", "mimo", "mai", "doubao"}

ASSUME BatchAssumption ==
  /\ Plans \subseteq
       [settings: [Attempts -> [provider: Backends,
                                fallback: Backends \union {"none"},
                                mode: {"off", "failures", "all"}]],
        tests: Nat]
  /\ Sizes \subseteq {"none", "tiny", "brief", "full"}

VARIABLES
  plan,    \* the plan followed; it never changes
  begun,   \* g_asrAttemptSeq, not restarted with the program
  active,  \* g_activeAttempt.id
  worker,  \* the recognition threads
  token,   \* Baidu's token cache
  tests    \* presses of Test Connection

tokens == <<token, tests>>
batch == <<plan, begun, active, worker, tokens>>
vars == <<diagnosticVars, batch>>

NoToken == [n |-> 0, cred |-> "none"]

NoWorker == [pc |-> "none"]

\* requests counts what has been sent; tries counts turns of the loop.
NewWorker(provider, kind, fallback) ==
  [pc |-> "session", provider |-> provider, kind |-> kind,
   fallback |-> fallback, pcm |-> "raw", requests |-> 0, tries |-> 0,
   token |-> NoToken, rejected |-> 0, retried |-> FALSE]

\* a session's result: of the rest nothing is used any more
Answer(w, text) ==
  [pc |-> "judge", kind |-> w.kind, fallback |-> w.fallback, text |-> text]

\* ShouldAcceptFinalMessage
Accepted(i) == active = i

PrimaryKey == <<"primary", 0>>

\* MakeStageMetadata, and MakeRetryStageMetadata for the later requests
StageKey(w) ==
  IF w.requests = 0 THEN <<w.kind, 0>>
  ELSE <<RetryStageKind(w.kind), RetryStageIndex(w.kind, 0, w.requests)>>

(***************************************************************************)
(* The main thread                                                         *)
(***************************************************************************)

MainRuns == exit = "open" /\ MainIsFree

\* BeginAsrAttempt discards the attempt it supersedes.
RecordingStarts ==
  /\ MainRuns /\ begun + 1 \in Attempts
  /\ begun' = begun + 1 /\ active' = begun + 1
  /\ attempts' = BeginAttempt(DiscardAttempt(attempts, active), begun + 1,
                              plan.settings[begun + 1].mode)
  /\ UNCHANGED <<finals, pending, threads, waiting, disk, bounds, exit, plan,
                 worker, tokens>>

\* RecordCaptureStartFailure: an attempt without a recording
CaptureStartFails ==
  /\ MainRuns /\ begun + 1 \in Attempts
  /\ begun' = begun + 1
  /\ TakeAttempt(
       CompleteStageIfMissing(
         AttachCapture(BeginAttempt(attempts, begun + 1,
                                    plan.settings[begun + 1].mode),
                       begun + 1, "none"),
         begun + 1, PrimaryKey, "bad"),
       begun + 1, "capture_failure")
  /\ UNCHANGED <<disk, bounds, exit, plan, active, worker, tokens>>

Recording == MainRuns /\ active # 0 /\ worker[active] = NoWorker

\* The recording stops: it is too short, or a thread recognizes it.
RecordingStops ==
  /\ Recording
  /\ \E size \in Sizes :
       LET stopped == AttachCapture(attempts, active, size)
       IN IF size \in {"none", "tiny"}
          THEN /\ TakeAttempt(CompleteStageIfMissing(stopped, active,
                                                     PrimaryKey, "plain"),
                              active, "too_short")
               /\ worker' = [worker EXCEPT ![active] = [pc |-> "done"]]
          ELSE /\ attempts' = stopped
               /\ UNCHANGED <<finals, pending, threads, waiting>>
               /\ LET s == plan.settings[active]
                  IN worker' = [worker EXCEPT ![active] =
                                 NewWorker(s.provider, "primary", s.fallback)]
  /\ UNCHANGED <<disk, bounds, exit, plan, begun, active, tokens>>

\* FinishAudioCaptureFailure keeps what was recorded.
CaptureFails ==
  /\ Recording
  /\ \E size \in Sizes :
       TakeAttempt(
         CompleteStageIfMissing(AttachCapture(attempts, active, size),
                                active, PrimaryKey, "plain"),
         active, "capture_failure")
  /\ active' = 0
  /\ worker' = [worker EXCEPT ![active] = [pc |-> "done"]]
  /\ UNCHANGED <<disk, bounds, exit, plan, begun, tokens>>

\* WM_DESTROY
Shutdown ==
  /\ MainRuns
  /\ exit' = "closing" /\ active' = 0
  /\ attempts' = DiscardAttempt(attempts, active)
  /\ UNCHANGED <<finals, pending, threads, waiting, disk, bounds, plan, begun,
                 worker, tokens>>

(***************************************************************************)
(* The recognition thread: the session's Finish                            *)
(***************************************************************************)

\* the threads' steps leave the rest alone
Elsewhere == UNCHANGED <<disk, bounds, exit, plan, begun, active>>
OnlyAttempts == Elsewhere /\ UNCHANGED <<finals, pending, threads, waiting>>

With(i, w) == worker' = [worker EXCEPT ![i] = w]

(***************************************************************************)
(* The batch sessions, up to their first request.  A session that looks    *)
(* for its key ends without it; one that trims ends when its VAD heard no  *)
(* speech; most register their input, as it was recorded or trimmed.  Who  *)
(* has no open attempt need not choose: only the diagnostics show it.      *)
(***************************************************************************)

Finishing(i, provider) ==
  /\ worker[i].pc = "session" /\ worker[i].provider = provider
  /\ OnlyAttempts /\ UNCHANGED tokens

KeyMissing(i) == With(i, Answer(worker[i], "auth")) /\ UNCHANGED attempts

CompleteVadNoSpeech(i) ==
  /\ attempts' = CompleteStageIfMissing(attempts, i, <<worker[i].kind, 0>>,
                                        "bad")
  /\ With(i, Answer(worker[i], "no_speech"))

Trimmings(i) == IF i \in DOMAIN attempts THEN {"raw", "trimmed"} ELSE {"raw"}

GoOn(i, pcm, pc) == With(i, [worker[i] EXCEPT !.pcm = pcm, !.pc = pc])

RegisterInput(i, pc) ==
  \E pcm \in Trimmings(i) :
    /\ attempts' = StageInput(attempts, i, <<worker[i].kind, 0>>, pcm)
    /\ GoOn(i, pcm, pc)

RegisterLater(i) ==
  \E pcm \in Trimmings(i) : GoOn(i, pcm, "request") /\ UNCHANGED attempts

FinishLocal(i) ==
  Finishing(i, "local") /\ (CompleteVadNoSpeech(i) \/ RegisterInput(i, "request"))

FinishBaidu(i) ==
  /\ Finishing(i, "baidu")
  /\ KeyMissing(i) \/ CompleteVadNoSpeech(i) \/ RegisterInput(i, "token")

FinishQwen(i) ==
  /\ Finishing(i, "qwen")
  /\ KeyMissing(i) \/ CompleteVadNoSpeech(i) \/ RegisterInput(i, "request")

FinishMimo(i) ==
  /\ Finishing(i, "mimo")
  /\ KeyMissing(i) \/ CompleteVadNoSpeech(i) \/ RegisterInput(i, "request")

FinishQwenAudio(i) ==
  /\ Finishing(i, "qwen_audio")
  /\ KeyMissing(i) \/ CompleteVadNoSpeech(i) \/ RegisterLater(i)

FinishMai(i) ==
  Finishing(i, "mai") /\ (CompleteVadNoSpeech(i) \/ RegisterLater(i))

FinishDoubao(i) ==
  Finishing(i, "doubao") /\ GoOn(i, "raw", "request") /\ UNCHANGED attempts

(***************************************************************************)
(* Their requests                                                          *)
(***************************************************************************)

Requesting(i, provider) ==
  /\ worker[i].pc = "request" /\ worker[i].provider = provider
  /\ OnlyAttempts /\ UNCHANGED tokens

\* A request with its stage: what was sent under it, and how it ended.
Requested(i, pcm, terminal) ==
  LET w == worker[i]
      key == StageKey(w)
      sent == WithStage(attempts, i, key,
                        [StageOf(attempts, i, key) EXCEPT !.sent = @ + 1])
  IN attempts' = CompleteStage(
       IF pcm = "none" THEN sent ELSE StageInput(sent, i, key, pcm),
       i, key, terminal)

\* The recording is refused before anything is sent.
Refused(i) ==
  With(i, Answer(worker[i], "operational_error")) /\ UNCHANGED attempts

Answered(i, terminal) ==
  \E text \in {"usable_text", "no_speech"} :
    /\ Requested(i, worker[i].pcm, IF text = "no_speech" THEN "bad" ELSE terminal)
    /\ With(i, Answer(worker[i], text))

Failed(i, pcm, text) ==
  Requested(i, pcm, "bad") /\ With(i, Answer(worker[i], text))

\* The first request failed for a reason that may pass.
SentAgain(i, pcm) ==
  /\ worker[i].tries = 0
  /\ Requested(i, pcm, "bad")
  /\ With(i, [worker[i] EXCEPT !.tries = 1, !.requests = @ + 1])

RecognizeLocal(i) ==
  /\ Requesting(i, "local")
  /\ \/ Answered(i, "plain")
     \/ \E text \in {"auth", "operational_error"} : Failed(i, worker[i].pcm, text)

RecognizeQwen(i) ==
  /\ Requesting(i, "qwen")
  /\ Answered(i, "good") \/ Failed(i, worker[i].pcm, "operational_error")

RecognizeMimo(i) ==
  /\ Requesting(i, "mimo")
  /\ \/ worker[i].tries = 0 /\ Refused(i)
     \/ Answered(i, "plain") \/ SentAgain(i, worker[i].pcm)
     \/ Failed(i, worker[i].pcm, "operational_error")

RecognizeQwenAudio(i) ==
  /\ Requesting(i, "qwen_audio")
  /\ \/ Answered(i, "plain") \/ SentAgain(i, worker[i].pcm)
     \/ Failed(i, worker[i].pcm, "operational_error")

RecognizeMai(i) ==
  /\ Requesting(i, "mai")
  /\ \/ Answered(i, "plain") \/ SentAgain(i, worker[i].pcm)
     \/ \E text \in {"auth", "operational_error"} : Failed(i, worker[i].pcm, text)

\* A recorded Doubao session registers a device again when it is refused,
\* and starts over after a transient failure; its input are the frames sent.
RecognizeRecordedPcm(i) ==
  /\ Requesting(i, "doubao")
  /\ \/ Answered(i, "plain")
     \/ \E pcm \in {"none", "part", "raw"} :
          SentAgain(i, pcm) \/ Failed(i, pcm, "operational_error")

(***************************************************************************)
(* Baidu: a token, shared by all threads and bound to the credentials it   *)
(* was issued for.  GetAccessToken holds TokenMutex over its request, so   *)
(* that it is one step for the others; the token it had may have expired.  *)
(***************************************************************************)

\* a token different from all that are remembered
Issued(cred) ==
  LET known == {token.n} \union UNION
        {{worker[i].token.n, worker[i].rejected} :
           i \in {j \in Attempts :
                    worker[j].pc \in {"token", "request", "clear"}}}
  IN [n |-> CHOOSE n \in 1 .. 2 * Cardinality(Attempts) + 2 : n \notin known,
      cred |-> cred]

GetAccessTokenOfAnyone(cred, t) ==
  \/ token # NoToken /\ t = token /\ UNCHANGED token
  \/ t \in {NoToken, Issued(cred)} /\ token' = t

GetAccessToken(cred, t) ==
  \/ /\ token # NoToken /\ token.cred = cred
     /\ t = token /\ UNCHANGED token
  \/ /\ t \in {NoToken, Issued(cred)}
     /\ token' = t

\* the tokens GetAccessToken may return
Offered(cred) == {NoToken, token, Issued(cred)}

\* One turn of baidu_asr::Recognize, which has three; before the first a
\* recording of more than a minute is refused.
FetchToken(i) ==
  LET w == worker[i] IN
  /\ w.pc = "token"
  /\ \/ w.tries = 0 /\ Refused(i) /\ UNCHANGED token
     \/ \E t \in Offered("saved") :
          /\ GetAccessToken("saved", t)
          /\ With(i, CASE t # NoToken ->
                            [w EXCEPT !.pc = "request", !.token = t]
                       [] t = NoToken /\ (w.retried \/ w.tries = 2) ->
                            Answer(w, "operational_error")
                       [] OTHER ->
                            [w EXCEPT !.retried = TRUE, !.tries = @ + 1])
          /\ UNCHANGED attempts
  /\ OnlyAttempts /\ UNCHANGED tests

RecognizeBaidu(i) ==
  LET w == worker[i]
      again == [w EXCEPT !.tries = @ + 1, !.requests = @ + 1, !.pc = "token"]
  IN
  /\ Requesting(i, "baidu")
  /\ \/ Answered(i, "plain")
     \/ /\ Requested(i, w.pcm, "bad")
        /\ \E failure \in {"token", "transient", "error"} :
             With(i, CASE failure = "token" /\ w.rejected = 0 ->
                            [w EXCEPT !.pc = "clear", !.rejected = w.token.n]
                       [] failure = "transient" /\ ~w.retried /\ w.tries < 2 ->
                            [again EXCEPT !.retried = TRUE]
                       [] OTHER -> Answer(w, "operational_error"))

\* A token the service refused is forgotten, whosever it is by now.
ClearCachedToken(i) ==
  LET w == worker[i] IN
  /\ w.pc = "clear"
  /\ token' = NoToken
  /\ With(i, IF w.tries = 2 THEN Answer(w, "operational_error")
             ELSE [w EXCEPT !.pc = "token", !.tries = @ + 1,
                            !.requests = @ + 1])
  /\ OnlyAttempts /\ UNCHANGED <<attempts, tests>>

\* Test Connection in Settings uses the credentials in the edit boxes.
TestConnection ==
  /\ tests < plan.tests /\ exit = "open"
  /\ \E t \in Offered("typed") : GetAccessToken("typed", t)
  /\ tests' = tests + 1
  /\ OnlyAttempts /\ UNCHANGED <<attempts, worker>>

(***************************************************************************)
(* RunBatchAsrOnce returns: the fallback, or the final text.               *)
(***************************************************************************)

TerminalOf(text) == IF text = "usable_text" THEN "plain" ELSE "bad"

\* A stale result ends the thread; a fallback that fails is an error of its
\* own, whatever its reason.
Judge(i) ==
  LET w == worker[i]
      fails == w.text \in {"operational_error", "auth"}
  IN
  /\ w.pc = "judge"
  /\ attempts' = CompleteStageIfMissing(attempts, i, <<w.kind, 0>>,
                                        TerminalOf(w.text))
  /\ With(i, CASE ~Accepted(i) -> [pc |-> "done"]
               [] Accepted(i) /\ fails /\ w.kind = "primary"
                    /\ w.fallback # "none" ->
                    NewWorker(w.fallback, "fallback", "none")
               [] OTHER -> [pc |-> "dispatch",
                            text |-> IF fails /\ w.kind = "fallback"
                                     THEN "operational_error" ELSE w.text])
  /\ OnlyAttempts /\ UNCHANGED tokens

\* DispatchAsrFinalText, after the last look at the attempt
Dispatch(i) ==
  LET w == worker[i] IN
  /\ w.pc = "dispatch"
  /\ TakeAttempt(attempts, i, w.text)
  /\ With(i, [pc |-> "done"])
  /\ Elsewhere /\ UNCHANGED tokens

(***************************************************************************)
(* The system                                                              *)
(***************************************************************************)

Init ==
  /\ DiagnosticsInit
  /\ plan \in Plans
  /\ begun = 0 /\ active = 0 /\ token = NoToken /\ tests = 0
  /\ worker = [i \in Attempts |-> NoWorker]

\* The threads end with the process; the tokens go.
EndOfProcess ==
  /\ ProcessEnds
  /\ active' = 0 /\ token' = NoToken
  /\ worker' = [i \in Attempts |-> IF i > begun THEN NoWorker
                                   ELSE [pc |-> "done"]]
  /\ UNCHANGED <<plan, begun, tests>>

Diagnose ==
  /\ WriterStep \/ FinalizeStep \/ WaitForPendingWrites \/ DayPasses
       \/ DeleteManagedRecordings
  /\ UNCHANGED batch

MainStep ==
  RecordingStarts \/ CaptureStartFails \/ RecordingStops \/ CaptureFails
    \/ Shutdown

FinishSession(i) ==
  FinishLocal(i) \/ FinishBaidu(i) \/ FinishQwen(i) \/ FinishMimo(i)
    \/ FinishQwenAudio(i) \/ FinishMai(i) \/ FinishDoubao(i)

Recognize(i) ==
  RecognizeLocal(i) \/ RecognizeQwen(i) \/ RecognizeMimo(i)
    \/ RecognizeQwenAudio(i) \/ RecognizeMai(i) \/ RecognizeRecordedPcm(i)
    \/ FetchToken(i) \/ RecognizeBaidu(i) \/ ClearCachedToken(i)

Next ==
  \/ MainStep \/ TestConnection
  \/ \E i \in Attempts :
       FinishSession(i) \/ Recognize(i) \/ Judge(i) \/ Dispatch(i)
  \/ Diagnose \/ EndOfProcess

Spec == Init /\ [][Next]_vars

(***************************************************************************)
(* Properties                                                              *)
(***************************************************************************)

\* No two requests of an attempt report under the same stage, whichever
\* provider retries and whichever falls back on it: the terminal and the
\* input a manifest shows for a stage are those of one request
\* (RetryStageKind, RetryStageIndex).
StageHasOneRequest ==
  \A i \in DOMAIN attempts : \A k \in DOMAIN attempts[i].stages :
    attempts[i].stages[k].sent <= 1

\* A recording is sent to Baidu with a token issued for its own
\* credentials, and after a refusal never with the refused token again,
\* although every thread and Test Connection share one cache
\* (GetAccessToken, ClearCachedToken).
TokenIsFresh ==
  \A i \in Attempts :
    worker[i].pc = "request" /\ worker[i].provider = "baidu" =>
      /\ worker[i].token.cred = "saved"
      /\ worker[i].token.n # worker[i].rejected
=============================================================================
