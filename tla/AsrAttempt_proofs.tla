-------------------------- MODULE AsrAttempt_proofs --------------------------
(***************************************************************************)
(* Theorems about AsrAttempt, for every bound and every set of             *)
(* configurations, with their proofs.                                      *)
(***************************************************************************)
EXTENDS AsrAttempt, SequenceTheorems, TLAPS

---------------------------------------------------------------------------
\* The updates of g_activeAttempt keep its type.

LEMMA CancelType ==
  ASSUME NEW a \in Attempts, NEW b \in BOOLEAN
  PROVE  /\ CancelActiveAsrAttempt(a, b) \in Attempts
         /\ CancelActiveAsrAttempt(a, b).id = a.id
  BY DEF CancelActiveAsrAttempt, Attempts

LEMMA CompleteType ==
  ASSUME NEW a \in Attempts, NEW length \in {"short", "long"}
  PROVE  /\ CompleteActiveAttemptRecording(a, length) \in Attempts
         /\ CompleteActiveAttemptRecording(a, length).id = a.id
  BY DEF CompleteActiveAttemptRecording, Attempts

LEMMA MarkType ==
  ASSUME NEW a \in Attempts
  PROVE  /\ MarkActiveAttemptFinalHandled(a) \in Attempts
         /\ MarkActiveAttemptFinalHandled(a).id = a.id
  BY DEF MarkActiveAttemptFinalHandled, Attempts

LEMMA FreshType ==
  ASSUME NEW id \in {0} \union Ids, NEW config \in Configs
  PROVE  FreshAttempt(id, config) \in Attempts
  BY DEF FreshAttempt, Attempts

LEMMA MessageTypes ==
  ASSUME NEW id \in Ids
  PROVE  /\ \A kind \in {"partial", "status", "captureError"} :
              Notice(kind, id) \in Messages
         /\ \A text \in Texts, allow \in BOOLEAN :
              Final(id, text, allow) \in FinalMessages
         /\ FinalMessages \subseteq Messages
  BY DEF Notice, Messages, Notices, Final, FinalMessages

LEMMA JobType ==
  ASSUME NEW id \in Ids, NEW config \in Configs, NEW allow \in BOOLEAN
  PROVE  /\ Job("batch", "primary", id, config, allow) \in Jobs
         /\ Job("fallback", "start", id, config, allow) \in Jobs
         /\ Job("llm", "refine", id, config, allow) \in Jobs
  BY DEF Job, Jobs, Texts

LEMMA AppendMessage ==
  ASSUME NEW q \in Seq(Messages), NEW m \in Messages
  PROVE  Append(q, m) \in Seq(Messages)
  OBVIOUS

LEMMA AbortedType ==
  ASSUME TypeOK
  PROVE  AbortedProviders \in [Ids -> {"none", "running", "posted", "finished"}]
  BY DEF TypeOK, AbortedProviders

\* DispatchAsrFinalText posts a well-formed result and starts at most one
\* well-formed thread.
LEMMA DispatchType ==
  ASSUME TypeOK,
         NEW id \in Ids, NEW text \in Texts, NEW bundled \in BOOLEAN,
         NEW allow \in BOOLEAN, NEW config \in Configs,
         NEW q \in Seq(Messages), NEW js \in SUBSET Jobs,
         DispatchAsrFinalText(id, text, bundled, allow, config, q, js)
  PROVE  queue' \in Seq(Messages) /\ jobs' \subseteq Jobs /\ diagOpen' \subseteq Ids
<1> DEFINE refine == ShouldRunLlmRefine(config, text, bundled)
           result == [kind |-> "result", id |-> id, text |-> text,
                      refine |-> refine, allowCancelled |-> allow]
<1>1. config.llm \in BOOLEAN
  BY ConfigsAssumption DEF PossibleConfigs
<1>2. refine \in BOOLEAN
  BY <1>1 DEF ShouldRunLlmRefine
<1>3. result \in ResultMessages
  BY <1>2 DEF ResultMessages
<1>4. queue' = Append(q, result)
  BY DEF DispatchAsrFinalText
<1>5. queue' \in Seq(Messages)
  BY <1>3, <1>4, AppendMessage DEF Messages
<1>6. jobs' \subseteq Jobs
  BY JobType DEF DispatchAsrFinalText
<1>7. diagOpen' \subseteq Ids
  BY DEF DispatchAsrFinalText, TypeOK
<1> QED
  BY <1>5, <1>6, <1>7

\* What a final leaves behind is well-formed, and of the same attempt.
LEMMA HandleFinalType ==
  ASSUME TypeOK, NEW m \in FinalMessages, NEW a \in Attempts,
         NEW q \in Seq(Messages), HandleAsrAttemptFinal(m, a, q)
  PROVE  /\ attempt' \in Attempts /\ attempt'.id = a.id
         /\ session' \in {0, session}
         /\ provider' \in [Ids -> {"none", "running", "posted", "finished"}]
         /\ queue' \in Seq(Messages)
         /\ jobs' \subseteq Jobs
         /\ diagOpen' \subseteq Ids
<1> DEFINE claimed == [a EXCEPT !.finalHandled = TRUE, !.pcm = "none"]
<1>1. CASE RejectFinal(m, a, q)
  BY <1>1 DEF RejectFinal, TypeOK
<1>2. CASE DeferFinal(m, a, q)
  <2>1. [a EXCEPT !.deferred = m] \in Attempts /\ [a EXCEPT !.deferred = m].id = a.id
    BY DEF Attempts
  <2> QED
    BY <1>2, <2>1 DEF DeferFinal, TypeOK
<1>3. CASE ClaimFinal(m, a, q)
  <2>1. claimed \in Attempts /\ claimed.id = a.id
    BY DEF Attempts
  <2>2. [claimed EXCEPT !.fallbackStarted = TRUE] \in Attempts
        /\ [claimed EXCEPT !.fallbackStarted = TRUE].id = a.id
    BY DEF Attempts
  <2>3. m.id \in Ids /\ m.text \in Texts /\ m.allowCancelled \in BOOLEAN
        /\ (m.text = "polished") \in BOOLEAN /\ a.config \in Configs
    BY DEF FinalMessages, Attempts
  <2>4. session' = 0 /\ provider' = AbortedProviders
        /\ attempt' \in {claimed, [claimed EXCEPT !.fallbackStarted = TRUE]}
    BY <1>3 DEF ClaimFinal
  <2>5. queue' \in Seq(Messages) /\ jobs' \subseteq Jobs /\ diagOpen' \subseteq Ids
    <3>1. CASE DispatchAsrFinalText(m.id, m.text, m.text = "polished",
                                    m.allowCancelled, a.config, q, jobs)
      <4>1. jobs \in SUBSET Jobs
        BY DEF TypeOK
      <4> QED
        BY <3>1, <4>1, <2>3, DispatchType
    <3>2. CASE /\ queue' = Append(q, Notice("status", m.id))
               /\ jobs' = jobs \union
                    {Job("fallback", "start", m.id, a.config, m.allowCancelled)}
               /\ UNCHANGED diagOpen
      BY <3>2, <2>3, MessageTypes, AppendMessage, JobType DEF TypeOK
    <3>3. CASE queue' = q /\ UNCHANGED <<jobs, diagOpen>>
      BY <3>3 DEF TypeOK
    <3> QED
      BY <1>3, <3>1, <3>2, <3>3 DEF ClaimFinal
  <2> QED
    BY <2>1, <2>2, <2>4, <2>5, AbortedType
<1> QED
  BY <1>1, <1>2, <1>3 DEF HandleAsrAttemptFinal

---------------------------------------------------------------------------
\* Type correctness.

\* TypeOK is not inductive: the watchdog and the device failure post messages
\* for the attempt they find, which has a number only because a recording or
\* a session exists.
TypeInv ==
  /\ TypeOK
  /\ recording \/ session # 0 => attempt.id # 0

LEMMA TypeInit == Init => TypeInv
<1> SUFFICES ASSUME Init PROVE TypeInv
  OBVIOUS
<1>1. PICK config \in Configs : attempt = FreshAttempt(0, config)
  BY DEF Init
<1>2. attempt \in Attempts
  BY <1>1, FreshType
<1>3. queue \in Seq(Messages) /\ pasted \in Seq(Ids)
  BY DEF Init
<1>4. /\ seq \in {0} \union Ids /\ session = 0 /\ ~recording
      /\ provider \in [Ids -> {"none", "running", "posted", "finished"}]
      /\ notices \in 0..MaxNotices
  BY BoundsAssumption DEF Init
<1> QED
  BY <1>2, <1>3, <1>4 DEF Init, TypeInv, TypeOK

\* An attempt that ends by a local verdict.
LEMMA EndSilentlyType ==
  ASSUME TypeInv, NEW a \in Attempts, a.id \in Ids, NEW kill \in BOOLEAN,
         EndSilently(a, kill)
  PROVE  /\ attempt' \in Attempts /\ attempt'.id = a.id
         /\ recording' = FALSE /\ session' = 0
         /\ provider' \in [Ids -> {"none", "running", "posted", "finished"}]
         /\ watchdog' \in BOOLEAN /\ hud' = "verdict" /\ hideArmed' = TRUE
         /\ diagOpen' \subseteq Ids /\ silenced' \subseteq Ids
<1> QED
  BY MarkType, AbortedType DEF EndSilently, TypeInv, TypeOK

LEMMA CaptureFailureType ==
  ASSUME TypeInv, recording, NEW q \in Seq(Messages),
         FinishAudioCaptureFailure(q)
  PROVE  TypeInv'
<1> DEFINE completed == CompleteActiveAttemptRecording(attempt, "short")
           cancelled == CancelActiveAsrAttempt(completed, TRUE)
<1>1. attempt \in Attempts /\ attempt.id \in Ids
  BY DEF TypeInv, TypeOK, Attempts
<1>2. completed \in Attempts /\ completed.id = attempt.id
  BY <1>1, CompleteType
<1>3. cancelled \in Attempts /\ cancelled.id = attempt.id
  BY <1>2, CancelType
<1>4. EndSilently(cancelled, TRUE)
  BY DEF FinishAudioCaptureFailure
<1> HIDE DEF cancelled
<1>5. /\ attempt' \in Attempts /\ attempt'.id = attempt.id
      /\ recording' = FALSE /\ session' = 0
      /\ provider' \in [Ids -> {"none", "running", "posted", "finished"}]
      /\ watchdog' \in BOOLEAN /\ hud' = "verdict" /\ hideArmed' = TRUE
      /\ diagOpen' \subseteq Ids /\ silenced' \subseteq Ids
  BY <1>1, <1>3, <1>4, EndSilentlyType
<1> QED
  BY <1>5 DEF FinishAudioCaptureFailure, TypeInv, TypeOK

LEMMA StartType ==
  ASSUME TypeInv, NEW config \in Configs, StartRecordingSession(config)
  PROVE  TypeInv'
<1>1. seq + 1 \in Ids
  BY BoundsAssumption DEF StartRecordingSession, TypeInv, TypeOK, Ids
<1>2. attempt' \in Attempts /\ attempt'.id = seq + 1
  BY <1>1, FreshType DEF StartRecordingSession, FreshAttempt
<1>3. seq + 1 # 0
  BY <1>1 DEF Ids
<1>4. provider' \in [Ids -> {"none", "running", "posted", "finished"}]
  BY AbortedType DEF StartRecordingSession, TypeInv
<1> QED
  BY <1>1, <1>2, <1>3, <1>4
     DEF StartRecordingSession, BeginDiagnostics, TypeInv, TypeOK

LEMMA StopType ==
  ASSUME TypeInv,
         StopFailedCapture \/ StopWithoutSpeech \/ StopWithDeferredFinal
           \/ StopStreaming \/ StopBatch
  PROVE  TypeInv'
<1>1. recording /\ attempt \in Attempts /\ attempt.id \in Ids
      /\ queue \in Seq(Messages) /\ attempt.config \in Configs
  BY DEF TypeInv, TypeOK, Attempts, StopFailedCapture, StopWithoutSpeech,
         StopWithDeferredFinal, StopStreaming, StopBatch
<1>2. \A length \in {"short", "long"} :
        /\ CompleteActiveAttemptRecording(attempt, length) \in Attempts
        /\ CompleteActiveAttemptRecording(attempt, length).id = attempt.id
  BY <1>1, CompleteType
<1>3. CASE StopFailedCapture
  BY <1>1, <1>3, CaptureFailureType DEF StopFailedCapture
<1>4. CASE StopWithoutSpeech
  <2>1. PICK length \in {"short", "long"} :
          EndSilently(CompleteActiveAttemptRecording(attempt, length),
                      attempt.config.mode = "stream")
    BY <1>4 DEF StopWithoutSpeech
  <2> DEFINE completed == CompleteActiveAttemptRecording(attempt, length)
             kill == attempt.config.mode = "stream"
  <2>2. completed \in Attempts /\ completed.id \in Ids
        /\ completed.id = attempt.id /\ kill \in BOOLEAN
    BY <1>1, <1>2
  <2>3. EndSilently(completed, kill)
    BY <2>1
  <2> HIDE DEF completed, kill
  <2>4. /\ attempt' \in Attempts /\ attempt'.id = completed.id
        /\ recording' = FALSE /\ session' = 0
        /\ provider' \in [Ids -> {"none", "running", "posted", "finished"}]
        /\ watchdog' \in BOOLEAN /\ hud' = "verdict" /\ hideArmed' = TRUE
        /\ diagOpen' \subseteq Ids /\ silenced' \subseteq Ids
    BY <2>2, <2>3, EndSilentlyType
  <2> QED
    BY <1>4, <2>4 DEF StopWithoutSpeech, TypeInv, TypeOK
<1>5. CASE StopWithDeferredFinal
  <2> DEFINE completed == CompleteActiveAttemptRecording(attempt, "long")
  <2>1. attempt.deferred \in FinalMessages
    BY <1>1, <1>5 DEF StopWithDeferredFinal, Attempts
  <2>2. completed \in Attempts /\ completed.id = attempt.id
    BY <1>2
  <2>3. HandleAsrAttemptFinal(attempt.deferred, completed, queue)
    BY <1>5 DEF StopWithDeferredFinal
  <2> HIDE DEF completed
  <2>4. /\ attempt' \in Attempts /\ attempt'.id = attempt.id
        /\ session' \in {0, session}
        /\ provider' \in [Ids -> {"none", "running", "posted", "finished"}]
        /\ queue' \in Seq(Messages)
        /\ jobs' \subseteq Jobs
        /\ diagOpen' \subseteq Ids
    BY <1>1, <2>1, <2>2, <2>3, HandleFinalType DEF TypeInv
  <2> QED
    BY <1>1, <1>5, <2>4 DEF StopWithDeferredFinal, TypeInv, TypeOK, Ids
<1>6. CASE StopStreaming
  BY <1>1, <1>2, <1>6 DEF StopStreaming, TypeInv, TypeOK, Ids
<1>7. CASE StopBatch
  <2>1. jobs' \subseteq Jobs
    BY <1>1, <1>7, JobType DEF StopBatch, TypeInv, TypeOK
  <2> QED
    BY <1>1, <1>2, <1>7, <2>1 DEF StopBatch, TypeInv, TypeOK, Ids
<1> QED
  BY <1>3, <1>4, <1>5, <1>6, <1>7

\* A detached thread posts a well-formed message or is replaced by itself.
LEMMA JobStepType ==
  ASSUME TypeInv, NEW j \in jobs, JobStep(j) \/ JobNotice(j)
  PROVE  TypeInv'
<1>1. j \in Jobs /\ j.id \in Ids /\ j.text \in Texts /\ j.config \in Configs
      /\ j.allowCancelled \in BOOLEAN /\ queue \in Seq(Messages)
      /\ jobs \ {j} \in SUBSET Jobs /\ diagOpen \subseteq Ids
  BY DEF TypeInv, TypeOK, Jobs
<1>2. CASE JobNotice(j)
  <2>1. queue' \in Seq(Messages)
    BY <1>1, <1>2, MessageTypes, AppendMessage DEF JobNotice, PostNotice
  <2>2. notices' \in 0..MaxNotices
    BY <1>2, BoundsAssumption DEF JobNotice, PostNotice, TypeInv, TypeOK
  <2> QED
    BY <1>2, <2>1, <2>2 DEF JobNotice, PostNotice, TypeInv, TypeOK
<1>3. CASE JobStep(j)
  <2> SUFFICES queue' \in Seq(Messages) /\ jobs' \subseteq Jobs
               /\ diagOpen' \subseteq Ids
    BY <1>3 DEF JobStep, TypeInv, TypeOK
  <2>1. \A text \in Texts :
          /\ [j EXCEPT !.step = "fallback"] \in Jobs
          /\ [j EXCEPT !.step = "dispatch", !.text = text] \in Jobs
    BY <1>1 DEF Jobs
  <2>2. \A text \in PrimaryTexts(j.config) \union FallbackTexts(j.config) : text \in Texts
    BY DEF PrimaryTexts, FallbackTexts, Texts
  <2>3. CASE PrimaryBatchReturns(j)
    <3>1. {"plain", "noSpeech", "error"} \subseteq Texts
      BY DEF Texts
    <3> QED
      BY <1>1, <2>1, <2>3, <3>1, MessageTypes, AppendMessage
         DEF PrimaryBatchReturns, KeepJob, DropJob
  <2>4. CASE FallbackStarts(j)
    BY <1>1, <2>1, <2>4 DEF FallbackStarts, KeepJob, DropJob, Texts
  <2>5. CASE FallbackReturns(j)
    BY <1>1, <2>1, <2>2, <2>5 DEF FallbackReturns, KeepJob, DropJob
  <2>6. CASE JobDispatches(j)
    <3> DEFINE bundled == j.kind = "fallback" /\ j.text = "polished"
    <3>1. bundled \in BOOLEAN
      OBVIOUS
    <3>2. DispatchAsrFinalText(j.id, j.text, bundled, j.allowCancelled,
                               j.config, queue, jobs \ {j})
      BY <2>6 DEF JobDispatches
    <3> HIDE DEF bundled
    <3> QED
      BY <1>1, <3>1, <3>2, DispatchType DEF TypeInv
  <2>7. CASE LlmReturns(j)
    <3>1. \A text \in {"plain", "error"} :
            [kind |-> "llm", id |-> j.id, text |-> text,
             allowCancelled |-> j.allowCancelled] \in Messages
      BY <1>1 DEF Messages, LlmMessages
    <3> QED
      BY <1>1, <2>7, <3>1, AppendMessage DEF LlmReturns, DropJob
  <2> QED
    BY <1>3, <2>3, <2>4, <2>5, <2>6, <2>7 DEF JobStep
<1> QED
  BY <1>2, <1>3

\* Each handler of a message keeps the types, with the queue behind it.
LEMMA DispatchMessageType ==
  ASSUME TypeInv, DispatchMessage
  PROVE  TypeInv'
<1> DEFINE m == Head(queue)
           q == Tail(queue)
<1>1. m \in Messages /\ q \in Seq(Messages)
  BY DEF DispatchMessage, TypeInv, TypeOK
<1>2. m.id \in Ids
  BY <1>1 DEF Messages, FinalMessages, ResultMessages, LlmMessages, Notices
<1>3. ASSUME NEW id \in Ids PROVE Append(pasted, id) \in Seq(Ids)
  BY DEF TypeInv, TypeOK
<1>4. \/ ReceiveFinal(m, q) \/ ReceiveResult(m, q) \/ ReceiveLlm(m, q)
      \/ ReceiveNotice(m, q) \/ ReceiveCaptureError(m, q)
  BY DEF DispatchMessage
<1> HIDE DEF m, q
<1>5. CASE ReceiveFinal(m, q)
  <2>1. m \in FinalMessages
    BY <1>1, <1>5 DEF ReceiveFinal, Messages, ResultMessages, LlmMessages, Notices
  <2>2. HandleAsrAttemptFinal(m, attempt, q) /\ attempt \in Attempts
    BY <1>5 DEF ReceiveFinal, TypeInv, TypeOK
  <2>3. /\ attempt' \in Attempts /\ attempt'.id = attempt.id
        /\ session' \in {0, session}
        /\ provider' \in [Ids -> {"none", "running", "posted", "finished"}]
        /\ queue' \in Seq(Messages)
        /\ jobs' \subseteq Jobs
        /\ diagOpen' \subseteq Ids
    BY <1>1, <2>1, <2>2, HandleFinalType DEF TypeInv
  <2> QED
    BY <1>5, <2>3 DEF ReceiveFinal, TypeInv, TypeOK
<1>6. CASE ReceiveResult(m, q)
  <2>1. pasted' \in Seq(Ids) /\ hud' \in {hud, "refining", "verdict"}
    BY <1>2, <1>3, <1>6 DEF ReceiveResult, TypeInv, TypeOK
  <2>2. watchdog' \in BOOLEAN /\ hideArmed' \in BOOLEAN
    BY <1>6 DEF ReceiveResult, TypeInv, TypeOK
  <2> QED
    BY <1>1, <1>6, <2>1, <2>2 DEF ReceiveResult, TypeInv, TypeOK
<1>7. CASE ReceiveLlm(m, q)
  <2>1. pasted' \in Seq(Ids) /\ hud' \in {hud, "verdict"} /\ hideArmed' \in BOOLEAN
    BY <1>2, <1>3, <1>7 DEF ReceiveLlm, TypeInv, TypeOK
  <2> QED
    BY <1>1, <1>7, <2>1 DEF ReceiveLlm, TypeInv, TypeOK
<1>8. CASE ReceiveNotice(m, q)
  BY <1>1, <1>8 DEF ReceiveNotice, TypeInv, TypeOK
<1>9. CASE ReceiveCaptureError(m, q)
  <2>1. CASE recording /\ m.id = attempt.id
    BY <1>1, <1>9, <2>1, CaptureFailureType DEF ReceiveCaptureError
  <2>2. CASE ~(recording /\ m.id = attempt.id)
    BY <1>1, <1>9, <2>2 DEF ReceiveCaptureError, TypeInv, TypeOK
  <2> QED
    BY <2>1, <2>2
<1> QED
  BY <1>4, <1>5, <1>6, <1>7, <1>8, <1>9

LEMMA TypeNext == TypeInv /\ [Next]_vars => TypeInv'
<1> SUFFICES ASSUME TypeInv, [Next]_vars PROVE TypeInv'
  OBVIOUS
<1>1. CASE StartRecordingFails
  <2>1. CancelActiveAsrAttempt(attempt, TRUE) \in Attempts
        /\ CancelActiveAsrAttempt(attempt, TRUE).id = attempt.id
    BY CancelType DEF TypeInv, TypeOK
  <2>2. seq' \in {0} \union Ids
    BY <1>1, BoundsAssumption DEF StartRecordingFails, TypeInv, TypeOK, Ids
  <2> QED
    BY <1>1, <2>1, <2>2, AbortedType DEF StartRecordingFails, TypeInv, TypeOK
<1>2. CASE \E config \in Configs : StartRecordingSession(config)
  BY <1>2, StartType
<1>3. CASE StopFailedCapture \/ StopWithoutSpeech \/ StopWithDeferredFinal
             \/ StopStreaming \/ StopBatch
  BY <1>3, StopType
<1>4. CASE CaptureFails
  <2>1. attempt.id \in Ids
    BY <1>4 DEF CaptureFails, TypeInv, TypeOK, Attempts
  <2>2. queue' \in Seq(Messages)
    BY <1>4, <2>1, MessageTypes, AppendMessage DEF CaptureFails, TypeInv, TypeOK
  <2> QED
    BY <1>4, <2>2 DEF CaptureFails, TypeInv, TypeOK
<1>5. ASSUME NEW id \in Ids,
             ProviderNotice(id) \/ ProviderFinal(id) \/ ProviderExits(id)
      PROVE  TypeInv'
  <2>1. CASE ProviderNotice(id)
    <3>1. queue' \in Seq(Messages)
      BY <2>1, MessageTypes, AppendMessage
         DEF ProviderNotice, PostNotice, TypeInv, TypeOK
    <3>2. notices' \in 0..MaxNotices
      BY <2>1, BoundsAssumption DEF ProviderNotice, PostNotice, TypeInv, TypeOK
    <3> QED
      BY <2>1, <3>1, <3>2 DEF ProviderNotice, PostNotice, TypeInv, TypeOK
  <2>2. CASE ProviderFinal(id)
    <3>1. PrimaryTexts(attempt.config) \subseteq Texts
      BY DEF PrimaryTexts, Texts
    <3>2. queue' \in Seq(Messages)
      BY <2>2, <3>1, MessageTypes, AppendMessage DEF ProviderFinal, TypeInv, TypeOK
    <3> QED
      BY <2>2, <3>2 DEF ProviderFinal, TypeInv, TypeOK
  <2>3. CASE ProviderExits(id)
    BY <2>3 DEF ProviderExits, TypeInv, TypeOK
  <2> QED
    BY <1>5, <2>1, <2>2, <2>3
<1>6. ASSUME NEW j \in jobs, JobStep(j) \/ JobNotice(j) PROVE TypeInv'
  BY <1>6, JobStepType
<1>7. CASE WatchdogFires
  <2> DEFINE timesOut == session # 0 /\ provider[session] \in {"running", "posted"}
  <2>1. attempt' \in Attempts /\ attempt'.id = attempt.id
    <3>1. CancelActiveAsrAttempt(attempt, FALSE) \in Attempts
          /\ CancelActiveAsrAttempt(attempt, FALSE).id = attempt.id
      BY CancelType DEF TypeInv, TypeOK
    <3> QED
      BY <1>7, <3>1 DEF WatchdogFires, TypeInv, TypeOK
  <2>2. queue' \in Seq(Messages)
    <3>1. CASE timesOut
      <4>1. attempt.id \in Ids
        BY <3>1 DEF TypeInv, TypeOK, Attempts
      <4>2. TimeoutFinal(attempt.id) \in Messages
        BY <4>1, MessageTypes DEF TimeoutFinal, Texts
      <4> QED
        BY <1>7, <3>1, <4>2, AppendMessage DEF WatchdogFires, TypeInv, TypeOK
    <3>2. CASE ~timesOut
      BY <1>7, <3>2 DEF WatchdogFires, TypeInv, TypeOK
    <3> QED
      BY <3>1, <3>2
  <2> QED
    BY <1>7, <2>1, <2>2, AbortedType DEF WatchdogFires, TypeInv, TypeOK
<1>8. CASE HideHud
  BY <1>8 DEF HideHud, TypeInv, TypeOK
<1>9. CASE DispatchMessage
  BY <1>9, DispatchMessageType
<1>10. CASE Shutdown
  <2> DEFINE cancelled == CancelActiveAsrAttempt(attempt, TRUE)
  <2>1. cancelled \in Attempts /\ cancelled.id = attempt.id
    BY CancelType DEF TypeInv, TypeOK
  <2>2. MarkActiveAttemptFinalHandled(cancelled) \in Attempts
        /\ MarkActiveAttemptFinalHandled(cancelled).id = attempt.id
    BY <2>1, MarkType
  <2> QED
    BY <1>10, <2>2, AbortedType DEF Shutdown, TypeInv, TypeOK
<1>11. CASE UNCHANGED vars
  BY <1>11 DEF vars, TypeInv, TypeOK
<1> QED
  BY <1>1, <1>2, <1>3, <1>4, <1>5, <1>6, <1>7, <1>8, <1>9, <1>10, <1>11 DEF Next

\* Every reachable state of the attempt machine is well-formed; in particular
\* no message, thread or history entry carries the attempt number 0 that
\* BeginAsrAttempt never hands out.
THEOREM TypeCorrect == Spec => []TypeOK
<1>1. Spec => []TypeInv
  BY TypeInit, TypeNext, PTL DEF Spec
<1>2. TypeInv => TypeOK
  BY DEF TypeInv
<1> QED
  BY <1>1, <1>2, PTL

---------------------------------------------------------------------------
\* The inductive invariant.  What an attempt can still be pasted from, its
\* claims, are: a detached thread that works for it, and a message in the
\* queue that concludes it.  The current attempt has at most one claim, none
\* once it is pasted, and none before it is marked: as handled, or as stopped
\* if no session ever ran for it.  Older attempts are never looked at again,
\* and silenced ones have no claim.

Concludes(m) == m.kind = "llm" \/ (m.kind = "result" /\ ~m.refine)

IsResult(m) == m.kind \in {"result", "llm"}

Marked ==
  attempt.stopped /\ (attempt.finalHandled \/ provider[attempt.id] = "none")

\* What holds of a queue q next to the threads js.
QueueInv(q, js) ==
  /\ \A i \in 1..Len(q) : q[i].id <= attempt.id
  /\ \A i \in 1..Len(q) : q[i].kind = "final" => provider[q[i].id] # "none"
  /\ \A i \in 1..Len(q) : IsResult(q[i]) /\ q[i].id = attempt.id => Marked
  /\ \A i \in 1..Len(q) :
       Concludes(q[i]) /\ q[i].id = attempt.id =>
         /\ \A j \in js : j.id # attempt.id
         /\ \A k \in 1..Len(q) :
              Concludes(q[k]) /\ q[k].id = attempt.id => k = i
  /\ \A p \in 1..Len(pasted) : pasted[p] = attempt.id =>
       \A i \in 1..Len(q) : Concludes(q[i]) => q[i].id # attempt.id
  /\ \A i \in 1..Len(q) : Concludes(q[i]) => q[i].id \notin silenced

\* What holds of the threads js.
JobsInv(js) ==
  /\ \A j \in js : j.id <= attempt.id
  /\ \A j \in js : j.id = attempt.id => Marked
  /\ \A j, k \in js : j.id = attempt.id /\ k.id = attempt.id => j = k
  /\ \A p \in 1..Len(pasted) : pasted[p] = attempt.id =>
       \A j \in js : j.id # attempt.id
  /\ \A j \in js : j.id \notin silenced
  /\ \A j \in js : j.kind = "fallback" => provider[j.id] = "finished"

\* Nothing carries the number of an attempt that has not begun; what was
\* pasted or silenced stays so.
HistoryInv ==
  /\ attempt.id <= seq
  /\ \A i \in 1..Len(pasted) : pasted[i] <= attempt.id
  /\ \A id \in silenced : id <= attempt.id
  /\ \A i \in 1..Len(pasted) : pasted[i] = attempt.id => Marked
  /\ \A i \in 1..Len(pasted) : pasted[i] \notin silenced
  /\ attempt.id \in silenced => attempt.finalHandled /\ attempt.stopped
  /\ PastedInOrder

\* While the microphone records, a streaming attempt has its session; a batch
\* attempt never has one, and a final only comes from one.
SessionInv ==
  /\ \A id \in Ids : provider[id] # "none" => id <= attempt.id
  /\ recording => ~attempt.stopped
  /\ alive /\ recording /\ attempt.config.mode = "stream" => session # 0
  /\ attempt.config.mode = "batch" /\ attempt.id # 0 =>
       provider[attempt.id] = "none"
  /\ attempt.deferred # NoFinal =>
       /\ attempt.deferred.id = attempt.id
       /\ provider[attempt.id] # "none"
  /\ session # 0 => session = attempt.id /\ provider[session] # "none"
  /\ NoOrphanSession
  /\ OneOpenDiagnostic

ClaimInv == QueueInv(queue, jobs) /\ JobsInv(jobs) /\ HistoryInv /\ SessionInv

SafetyInv == TypeInv /\ ClaimInv

---------------------------------------------------------------------------
\* How the queue changes.

LEMMA AppendIndex ==
  ASSUME NEW q \in Seq(Messages), NEW m \in Messages,
         NEW i \in 1..Len(Append(q, m))
  PROVE  \/ i \in 1..Len(q) /\ Append(q, m)[i] = q[i]
         \/ i = Len(q) + 1 /\ Append(q, m)[i] = m
  OBVIOUS

LEMMA TailIndex ==
  ASSUME NEW q \in Seq(Messages), q # <<>>, NEW i \in 1..Len(Tail(q))
  PROVE  i + 1 \in 1..Len(q) /\ Tail(q)[i] = q[i + 1]
  OBVIOUS

\* The next message is taken from the queue.
LEMMA QueueTail ==
  ASSUME NEW q \in Seq(Messages), q # <<>>, NEW js, QueueInv(q, js)
  PROVE  QueueInv(Tail(q), js)
<1>1. \A i \in 1..Len(Tail(q)) : i + 1 \in 1..Len(q) /\ Tail(q)[i] = q[i + 1]
  BY TailIndex
<1>2. \A i, k \in 1..Len(Tail(q)) : i + 1 = k + 1 => i = k
  OBVIOUS
<1> QED
  BY <1>1, <1>2 DEF QueueInv

\* A message that is no result is posted.
LEMMA QueueAppend ==
  ASSUME NEW q \in Seq(Messages), NEW js, QueueInv(q, js),
         NEW m \in Messages, m.id <= attempt.id, ~IsResult(m),
         m.kind = "final" => provider[m.id] # "none"
  PROVE  QueueInv(Append(q, m), js)
<1>1. \A i \in 1..Len(Append(q, m)) :
        \/ i \in 1..Len(q) /\ Append(q, m)[i] = q[i]
        \/ i = Len(q) + 1 /\ Append(q, m)[i] = m
  BY AppendIndex
<1>2. ~Concludes(m)
  BY DEF Concludes, IsResult
<1> QED
  BY <1>1, <1>2 DEF QueueInv

---------------------------------------------------------------------------
\* The actions keep the invariant.

LEMMA SafetyInit == Init => SafetyInv
<1> SUFFICES ASSUME Init PROVE SafetyInv
  OBVIOUS
<1>1. TypeInv
  BY TypeInit
<1>2. PICK config \in Configs : attempt = FreshAttempt(0, config)
  BY DEF Init
<1>3. attempt.id = 0 /\ attempt.deferred = NoFinal
  BY <1>2 DEF FreshAttempt
<1>4. QueueInv(queue, jobs) /\ JobsInv(jobs)
  BY DEF Init, QueueInv, JobsInv
<1>5. HistoryInv
  BY <1>3 DEF Init, HistoryInv, PastedInOrder
<1>6. SessionInv
  BY <1>3 DEF Init, SessionInv, NoOrphanSession, OneOpenDiagnostic
<1> QED
  BY <1>1, <1>4, <1>5, <1>6 DEF SafetyInv, ClaimInv

\* Aborting the installed session ends every worker that runs.
LEMMA AbortedFacts ==
  ASSUME TypeInv, SessionInv, NEW id \in Ids
  PROVE  /\ AbortedProviders[id] \in {"none", "finished"}
         /\ AbortedProviders[id] = "none" <=> provider[id] = "none"
<1>1. provider[id] \in {"none", "running", "posted", "finished"}
  BY DEF TypeInv, TypeOK
<1>2. CASE id = session
  <2>1. AbortedProviders[id] = "finished" /\ provider[id] # "none"
    BY <1>2 DEF AbortedProviders, SessionInv, Ids
  <2> QED
    BY <2>1
<1>3. CASE id # session
  <2>1. AbortedProviders[id] = provider[id]
    BY <1>3 DEF AbortedProviders
  <2> QED
    BY <1>1, <1>3, <2>1 DEF SessionInv, NoOrphanSession
<1> QED
  BY <1>2, <1>3

\* Workers only move forward, none starts.
ProvidersForward ==
  \A id \in Ids :
    /\ provider'[id] = "none" <=> provider[id] = "none"
    /\ provider[id] = "finished" => provider'[id] = "finished"
    /\ provider'[id] \in {"running", "posted"} =>
         provider[id] \in {"running", "posted"}

\* The attempt keeps its number, its configuration and its marks, and a final
\* it holds back is its own.
AttemptKept ==
  /\ attempt'.id = attempt.id
  /\ attempt'.config = attempt.config
  /\ attempt.stopped => attempt'.stopped
  /\ attempt.finalHandled => attempt'.finalHandled
  /\ attempt'.deferred # NoFinal =>
       attempt'.deferred.id = attempt.id /\ provider[attempt.id] # "none"

SilencedKept ==
  \/ UNCHANGED silenced
  \/ /\ silenced' = silenced \union {attempt.id}
     /\ ~attempt.stopped /\ attempt'.stopped /\ attempt'.finalHandled

SessionKept ==
  \/ UNCHANGED session
  \/ /\ session' = 0
     /\ ~(alive' /\ recording')
     /\ \A id \in Ids : provider'[id] \notin {"running", "posted"}

Kept == ProvidersForward /\ AttemptKept /\ SilencedKept

\* Under such a step a queue and threads stay as good as they are.
LEMMA ClaimsStable ==
  ASSUME NEW q, NEW js, QueueInv(q, js), JobsInv(js), q \in Seq(Messages),
         js \subseteq Jobs, TypeInv, Kept, UNCHANGED pasted
  PROVE  QueueInv(q, js)' /\ JobsInv(js)'
<1>1. \A i \in 1..Len(q) : q[i].id \in Ids
  BY DEF Messages, FinalMessages, ResultMessages, LlmMessages, Notices
<1>2. \A j \in js : j.id \in Ids
  BY DEF Jobs
<1>3. attempt.id \in {0} \union Ids
  BY DEF TypeInv, TypeOK, Attempts
<1>4. attempt'.id = attempt.id
  BY DEF Kept, AttemptKept
<1>5. \A i \in 1..Len(q) : Concludes(q[i]) => IsResult(q[i])
  BY DEF Concludes, IsResult
<1>6. ASSUME attempt.id \in Ids, Marked PROVE Marked'
  BY <1>6, <1>4 DEF Marked, Kept, AttemptKept, ProvidersForward
<1>7. Marked => attempt.stopped
  BY DEF Marked
<1>8. QueueInv(q, js)'
  BY <1>1, <1>4, <1>5, <1>6, <1>7
     DEF QueueInv, Kept, ProvidersForward, SilencedKept
<1>9. JobsInv(js)'
  BY <1>2, <1>4, <1>6, <1>7 DEF JobsInv, Kept, ProvidersForward, SilencedKept
<1> QED
  BY <1>8, <1>9

\* So does what is known of the history and of sessions.
LEMMA KeptInv ==
  ASSUME SafetyInv, TypeInv', Kept, SessionKept,
         seq' >= seq, alive' => alive,
         recording' => recording /\ ~attempt'.stopped,
         diagOpen' \subseteq diagOpen, UNCHANGED pasted
  PROVE  HistoryInv' /\ SessionInv'
<1>1. attempt.id \in {0} \union Ids /\ attempt'.id = attempt.id
  BY DEF SafetyInv, TypeInv, TypeOK, Attempts, Kept, AttemptKept
<1>2. \A i \in 1..Len(pasted) : pasted[i] \in Ids
  BY DEF SafetyInv, TypeInv, TypeOK
<1>3. ASSUME attempt.id \in Ids, Marked PROVE Marked'
  BY <1>3, <1>1 DEF Marked, Kept, AttemptKept, ProvidersForward
<1>4. Marked => attempt.stopped
  BY DEF Marked
<1>5. HistoryInv'
  <2>1. attempt'.id <= seq'
    BY <1>1 DEF SafetyInv, TypeInv, TypeOK, ClaimInv, HistoryInv, Ids
  <2>2. \A i \in 1..Len(pasted) : pasted[i] <= attempt.id
    BY DEF SafetyInv, ClaimInv, HistoryInv
  <2>3. \A id \in silenced' : id <= attempt.id
    BY <1>1 DEF SafetyInv, ClaimInv, HistoryInv, Kept, SilencedKept, Ids
  <2>4. \A i \in 1..Len(pasted) : pasted[i] = attempt.id => Marked'
    BY <1>2, <1>3 DEF SafetyInv, ClaimInv, HistoryInv
  <2>5. \A i \in 1..Len(pasted) : pasted[i] \notin silenced'
    BY <1>4 DEF SafetyInv, ClaimInv, HistoryInv, Kept, SilencedKept
  <2>6. attempt.id \in silenced' => attempt'.finalHandled /\ attempt'.stopped
    BY DEF SafetyInv, ClaimInv, HistoryInv, Kept, AttemptKept, SilencedKept
  <2>7. PastedInOrder'
    BY DEF SafetyInv, ClaimInv, HistoryInv, PastedInOrder
  <2> QED
    BY <1>1, <2>1, <2>2, <2>3, <2>4, <2>5, <2>6, <2>7 DEF HistoryInv
<1>6. SessionInv'
  <2>1. SessionInv
    BY DEF SafetyInv, ClaimInv
  <2>2. \A id \in Ids : provider'[id] # "none" => id <= attempt.id
    BY <2>1 DEF SessionInv, Kept, ProvidersForward
  <2>3. recording' => ~attempt'.stopped
    OBVIOUS
  <2>4. alive' /\ recording' /\ attempt'.config.mode = "stream" => session' # 0
    BY <2>1 DEF SessionInv, SessionKept, Kept, AttemptKept
  <2>5. attempt'.config.mode = "batch" /\ attempt.id # 0 =>
          provider'[attempt.id] = "none"
    BY <1>1, <2>1 DEF SessionInv, Kept, AttemptKept, ProvidersForward
  <2>6. attempt'.deferred # NoFinal =>
          attempt'.deferred.id = attempt.id /\ provider'[attempt.id] # "none"
    <3>1. ASSUME attempt'.deferred # NoFinal PROVE attempt.id \in Ids
      <4>1. attempt'.deferred \in FinalMessages
        BY <3>1 DEF TypeInv, TypeOK, Attempts
      <4> QED
        BY <3>1, <4>1 DEF FinalMessages, Kept, AttemptKept
    <3> QED
      BY <3>1 DEF Kept, AttemptKept, ProvidersForward
  <2>7. session' # 0 => session' = attempt.id /\ provider'[session'] # "none"
    BY <1>1, <2>1 DEF SessionInv, SessionKept, Kept, ProvidersForward
  <2>8. NoOrphanSession'
    BY <1>1, <2>1 DEF SessionInv, NoOrphanSession, Kept, ProvidersForward,
                      SessionKept
  <2>9. OneOpenDiagnostic'
    BY <1>1, <2>1 DEF SessionInv, OneOpenDiagnostic
  <2> QED
    BY <1>1, <2>2, <2>3, <2>4, <2>5, <2>6, <2>7, <2>8, <2>9 DEF SessionInv
<1> QED
  BY <1>5, <1>6

\* Aborting the session is such a move of the workers.
LEMMA AbortMovesForward ==
  ASSUME SafetyInv, provider' = AbortedProviders
  PROVE  /\ ProvidersForward
         /\ \A id \in Ids : provider'[id] \notin {"running", "posted"}
<1> SUFFICES ASSUME NEW id \in Ids
             PROVE  /\ provider'[id] = "none" <=> provider[id] = "none"
                    /\ provider[id] = "finished" => provider'[id] = "finished"
                    /\ provider'[id] \notin {"running", "posted"}
  BY DEF ProvidersForward
<1>1. /\ AbortedProviders[id] \in {"none", "finished"}
      /\ AbortedProviders[id] = "none" <=> provider[id] = "none"
  BY AbortedFacts DEF SafetyInv, ClaimInv
<1> QED
  BY <1>1

\* What the next state holds, when its queue and threads are q and js.
LEMMA NextClaims ==
  ASSUME NEW q, NEW js, queue' = q, jobs' = js,
         QueueInv(q, js)', JobsInv(js)', HistoryInv', SessionInv'
  PROVE  ClaimInv'
<1>1. QueueInv(queue, jobs)'
  BY DEF QueueInv
<1>2. JobsInv(jobs)'
  BY DEF JobsInv
<1> QED
  BY <1>1, <1>2 DEF ClaimInv

\* Nothing the current attempt could be pasted from exists.
Unclaimed(q, js) ==
  /\ \A j \in js : j.id # attempt.id
  /\ \A i \in 1..Len(q) : Concludes(q[i]) => q[i].id # attempt.id
  /\ \A i \in 1..Len(pasted) : pasted[i] # attempt.id

\* A result is posted: for the current attempt, as its first claim.
LEMMA ResultPosted ==
  ASSUME NEW q \in Seq(Messages), NEW js, QueueInv(q, js)', NEW m \in Messages,
         IsResult(m), m.id <= attempt'.id, m.id \notin silenced',
         m.id = attempt'.id => Marked',
         Concludes(m) /\ m.id = attempt'.id => Unclaimed(q, js)'
  PROVE  QueueInv(Append(q, m), js)'
<1>1. \A i \in 1..Len(Append(q, m)) :
        \/ i \in 1..Len(q) /\ Append(q, m)[i] = q[i]
        \/ i = Len(q) + 1 /\ Append(q, m)[i] = m
  BY AppendIndex
<1>2. m.kind # "final"
  BY DEF IsResult
<1> QED
  BY <1>1, <1>2 DEF QueueInv, Unclaimed

\* A thread is started: for the current attempt, as its first claim.
LEMMA JobStarted ==
  ASSUME NEW q, NEW js, QueueInv(q, js)', JobsInv(js)', NEW j,
         j.id <= attempt'.id, j.id \notin silenced',
         j.id = attempt'.id => Marked' /\ Unclaimed(q, js)',
         j.kind = "fallback" => provider'[j.id] = "finished"
  PROVE  QueueInv(q, js \union {j})' /\ JobsInv(js \union {j})'
<1>1. QueueInv(q, js \union {j})'
  BY DEF QueueInv, Unclaimed
<1>2. JobsInv(js \union {j})'
  BY DEF JobsInv, Unclaimed
<1> QED
  BY <1>1, <1>2

\* DispatchAsrFinalText replaces what it is called from by one claim: the
\* result, or the thread that refines it.
LEMMA DispatchClaims ==
  ASSUME NEW q \in Seq(Messages), NEW js \in SUBSET Jobs,
         QueueInv(q, js)', JobsInv(js)',
         NEW id \in Ids, NEW text \in Texts, NEW bundled \in BOOLEAN,
         NEW allow \in BOOLEAN, NEW config \in Configs,
         DispatchAsrFinalText(id, text, bundled, allow, config, q, js),
         id <= attempt'.id, id \notin silenced',
         id = attempt'.id => Marked' /\ Unclaimed(q, js)',
         HistoryInv', SessionInv'
  PROVE  ClaimInv'
<1> DEFINE refine == ShouldRunLlmRefine(config, text, bundled)
           result == [kind |-> "result", id |-> id, text |-> text,
                      refine |-> refine, allowCancelled |-> allow]
           job == Job("llm", "refine", id, config, allow)
<1>1. refine \in BOOLEAN
  BY ConfigsAssumption DEF ShouldRunLlmRefine, PossibleConfigs
<1>2. result \in Messages /\ IsResult(result) /\ result.id = id
      /\ (Concludes(result) => ~refine)
  BY <1>1 DEF Messages, ResultMessages, IsResult, Concludes
<1>3. queue' = Append(q, result)
      /\ jobs' = IF refine THEN js \union {job} ELSE js
  BY DEF DispatchAsrFinalText
<1>4. job.id = id /\ job.kind = "llm"
  BY DEF Job
<1> HIDE DEF refine, result, job
<1>5. QueueInv(Append(q, result), js)'
  BY <1>2, ResultPosted
<1>6. CASE ~refine
  BY <1>3, <1>5, <1>6, NextClaims
<1>7. CASE refine
  <2>1. Unclaimed(q, js)' => Unclaimed(Append(q, result), js)'
    <3>1. \A i \in 1..Len(Append(q, result)) :
            \/ i \in 1..Len(q) /\ Append(q, result)[i] = q[i]
            \/ i = Len(q) + 1 /\ Append(q, result)[i] = result
      BY <1>2, AppendIndex
    <3> QED
      BY <1>2, <1>7, <3>1 DEF Unclaimed
  <2>2. QueueInv(Append(q, result), js \union {job})' /\ JobsInv(js \union {job})'
    BY <1>4, <1>5, <2>1, JobStarted
  <2> QED
    BY <1>3, <1>7, <2>2, NextClaims
<1> QED
  BY <1>6, <1>7

\* The facts about the current state that the steps below start from.
LEMMA CurrentFacts ==
  ASSUME SafetyInv
  PROVE  /\ QueueInv(queue, jobs) /\ JobsInv(jobs) /\ HistoryInv /\ SessionInv
         /\ attempt \in Attempts /\ attempt.id \in {0} \union Ids
         /\ queue \in Seq(Messages) /\ jobs \subseteq Jobs
         /\ seq \in {0} \union Ids
         /\ \A i \in 1..Len(queue) : queue[i] \in Messages /\ queue[i].id \in Ids
         /\ \A j \in jobs : j \in Jobs /\ j.id \in Ids
<1>1. \A m \in Messages : m.id \in Ids
  BY DEF Messages, FinalMessages, ResultMessages, LlmMessages, Notices
<1> QED
  BY <1>1 DEF SafetyInv, ClaimInv, TypeInv, TypeOK, Attempts, Jobs

\* A step that keeps the attempt and history, whatever it does to sessions,
\* if its queue and threads were as good before.
LEMMA KeptClaims ==
  ASSUME SafetyInv, TypeInv', Kept, SessionKept, NEW q, NEW js,
         queue' = q, jobs' = js, QueueInv(q, js), JobsInv(js),
         seq' >= seq, alive' => alive,
         recording' => recording /\ ~attempt'.stopped,
         diagOpen' \subseteq diagOpen, UNCHANGED pasted
  PROVE  ClaimInv'
<1>1. q \in Seq(Messages) /\ js \subseteq Jobs
  BY DEF TypeInv, TypeOK
<1>2. QueueInv(q, js)' /\ JobsInv(js)'
  BY <1>1, ClaimsStable DEF SafetyInv
<1> QED
  BY <1>2, KeptInv, NextClaims

\* Steps that leave the attempt, its session and the history alone.
QuietStep ==
  /\ UNCHANGED <<seq, attempt, session, recording, alive, pasted, silenced>>
  /\ ProvidersForward
  /\ diagOpen' \subseteq diagOpen

LEMMA QuietClaims ==
  ASSUME SafetyInv, TypeInv', QuietStep, NEW q, NEW js,
         queue' = q, jobs' = js, QueueInv(q, js), JobsInv(js)
  PROVE  ClaimInv'
<1>1. Kept /\ SessionKept
  BY CurrentFacts
     DEF QuietStep, Kept, AttemptKept, SilencedKept, SessionKept, SessionInv
<1>2. seq' >= seq
  BY CurrentFacts, BoundsAssumption DEF QuietStep, Ids
<1>3. recording' => recording /\ ~attempt'.stopped
  BY CurrentFacts DEF QuietStep, SessionInv
<1> QED
  BY <1>1, <1>2, <1>3, KeptClaims DEF QuietStep

LEMMA UnchangedProviders == UNCHANGED provider => ProvidersForward
  BY DEF ProvidersForward

\* Posting a partial, a status, a capture error, or the final of a worker.
LEMMA PostClaims ==
  ASSUME SafetyInv, TypeInv', QuietStep, UNCHANGED jobs, NEW m \in Messages,
         queue' = Append(queue, m), m.id <= attempt.id, ~IsResult(m),
         m.kind = "final" => provider[m.id] # "none"
  PROVE  ClaimInv'
<1>1. QueueInv(Append(queue, m), jobs)
  BY CurrentFacts, QueueAppend
<1> QED
  BY <1>1, CurrentFacts, QuietClaims

LEMMA NoticePosted ==
  ASSUME SafetyInv, TypeInv', QuietStep, UNCHANGED jobs,
         NEW kind \in {"partial", "status", "captureError"}, NEW id \in Ids,
         queue' = Append(queue, Notice(kind, id)), id <= attempt.id
  PROVE  ClaimInv'
<1>1. Notice(kind, id) \in Messages
  BY MessageTypes
<1>2. Notice(kind, id).id = id /\ Notice(kind, id).kind = kind
  BY DEF Notice
<1>3. ~IsResult(Notice(kind, id)) /\ Notice(kind, id).kind # "final"
  BY <1>2 DEF IsResult
<1> QED
  BY <1>1, <1>2, <1>3, PostClaims

\* The workers of sessions and the capture thread.
LEMMA WorkerSafe ==
  ASSUME SafetyInv, TypeInv',
         \/ CaptureFails
         \/ \E id \in Ids : ProviderNotice(id) \/ ProviderFinal(id) \/ ProviderExits(id)
  PROVE  ClaimInv'
<1>1. CASE CaptureFails
  <2>1. attempt.id \in Ids
    BY <1>1, CurrentFacts DEF CaptureFails, SafetyInv, TypeInv
  <2>2. QuietStep
    BY <1>1, UnchangedProviders DEF CaptureFails, QuietStep
  <2>3. attempt.id <= attempt.id
    BY <2>1, BoundsAssumption DEF Ids
  <2> QED
    BY <1>1, <2>1, <2>2, <2>3, NoticePosted DEF CaptureFails
<1>2. ASSUME NEW id \in Ids, ProviderNotice(id) PROVE ClaimInv'
  <2>1. PICK kind \in {"partial", "status"} : PostNotice(kind, id)
    BY <1>2 DEF ProviderNotice
  <2>2. QuietStep /\ UNCHANGED jobs /\ queue' = Append(queue, Notice(kind, id))
    BY <2>1, UnchangedProviders DEF PostNotice, QuietStep
  <2>3. id <= attempt.id
    BY <1>2, CurrentFacts DEF ProviderNotice, SessionInv
  <2> QED
    BY <2>2, <2>3, NoticePosted
<1>3. ASSUME NEW id \in Ids, ProviderFinal(id) PROVE ClaimInv'
  <2>1. PICK text \in PrimaryTexts(attempt.config) :
          queue' = Append(queue, Final(id, text, FALSE))
    BY <1>3 DEF ProviderFinal
  <2> DEFINE m == Final(id, text, FALSE)
  <2>2. text \in Texts
    BY DEF PrimaryTexts, Texts
  <2>3. m \in Messages /\ m.id = id /\ ~IsResult(m)
    BY <2>2, MessageTypes DEF Final, IsResult
  <2>4. provider[id] = "running" /\ id <= attempt.id
    BY <1>3, CurrentFacts DEF ProviderFinal, SessionInv
  <2>5. provider' = [provider EXCEPT ![id] = "posted"]
    BY <1>3 DEF ProviderFinal
  <2>6. provider \in [Ids -> {"none", "running", "posted", "finished"}]
    BY DEF SafetyInv, TypeInv, TypeOK
  <2>7. ProvidersForward
    BY <2>4, <2>5, <2>6 DEF ProvidersForward
  <2>8. QuietStep /\ UNCHANGED jobs
    BY <1>3, <2>7 DEF ProviderFinal, QuietStep
  <2> HIDE DEF m
  <2> QED
    BY <2>1, <2>3, <2>4, <2>8, PostClaims DEF m
<1>4. ASSUME NEW id \in Ids, ProviderExits(id) PROVE ClaimInv'
  <2>1. ProvidersForward
    BY <1>4 DEF ProviderExits, ProvidersForward, SafetyInv, TypeInv, TypeOK
  <2>2. QuietStep /\ UNCHANGED <<queue, jobs>>
    BY <1>4, <2>1 DEF ProviderExits, QuietStep
  <2> QED
    BY <2>2, CurrentFacts, QuietClaims
<1> QED
  BY <1>1, <1>2, <1>3, <1>4

\* The updates of the attempt that give it up keep its marks.
LEMMA GivenUp ==
  ASSUME SafetyInv, NEW a \in Attempts,
         a.id = attempt.id, a.config = attempt.config,
         attempt.stopped => a.stopped, attempt.finalHandled => a.finalHandled,
         a.deferred \in {NoFinal, attempt.deferred}, attempt' = a
  PROVE  AttemptKept
  BY CurrentFacts DEF AttemptKept, SessionInv

LEMMA CancelKeeps ==
  ASSUME NEW a \in Attempts, NEW b \in BOOLEAN
  PROVE  LET c == CancelActiveAsrAttempt(a, b) IN
         /\ c \in Attempts
         /\ c.id = a.id /\ c.config = a.config /\ c.stopped = a.stopped
         /\ c.finalHandled = a.finalHandled /\ c.deferred = a.deferred
  BY CancelType DEF CancelActiveAsrAttempt, Attempts

LEMMA CompleteKeeps ==
  ASSUME NEW a \in Attempts, NEW length \in {"short", "long"}
  PROVE  LET c == CompleteActiveAttemptRecording(a, length) IN
         /\ c \in Attempts
         /\ c.id = a.id /\ c.config = a.config /\ c.stopped
         /\ c.finalHandled = a.finalHandled /\ c.deferred = NoFinal
  BY CompleteType DEF CompleteActiveAttemptRecording, Attempts

LEMMA MarkKeeps ==
  ASSUME NEW a \in Attempts
  PROVE  LET c == MarkActiveAttemptFinalHandled(a) IN
         /\ c \in Attempts
         /\ c.id = a.id /\ c.config = a.config /\ c.stopped = a.stopped
         /\ c.finalHandled /\ c.deferred = NoFinal
  BY MarkType DEF MarkActiveAttemptFinalHandled, Attempts

LEMMA StartFailsSafe ==
  ASSUME SafetyInv, TypeInv', StartRecordingFails
  PROVE  ClaimInv'
<1>1. AttemptKept
  <2>1. /\ attempt' \in Attempts
        /\ attempt'.id = attempt.id /\ attempt'.config = attempt.config
        /\ attempt'.stopped = attempt.stopped
        /\ attempt'.finalHandled = attempt.finalHandled
        /\ attempt'.deferred = attempt.deferred
    BY CurrentFacts, CancelKeeps DEF StartRecordingFails
  <2> QED
    BY <2>1, GivenUp
<1>2. Kept /\ SessionKept
  BY <1>1, AbortMovesForward DEF StartRecordingFails, Kept, SilencedKept, SessionKept
<1>3. seq' >= seq
  BY CurrentFacts, BoundsAssumption DEF StartRecordingFails, Ids
<1> QED
  BY <1>2, <1>3, CurrentFacts, KeptClaims DEF StartRecordingFails

\* A new recording gets a number that nothing carries yet.
LEMMA StartSafe ==
  ASSUME SafetyInv, TypeInv', NEW config \in Configs, StartRecordingSession(config)
  PROVE  ClaimInv'
<1> DEFINE id == seq + 1
<1>1. id \in Ids /\ seq \in Nat /\ attempt.id \in Nat /\ attempt.id < id
  BY CurrentFacts, BoundsAssumption DEF StartRecordingSession, HistoryInv, Ids
<1>2. /\ attempt'.id = id /\ attempt'.config = config /\ ~attempt'.stopped
      /\ attempt'.deferred = NoFinal
  BY DEF StartRecordingSession, FreshAttempt
<1>3. /\ seq' = id /\ recording' /\ alive' /\ UNCHANGED <<queue, jobs, pasted, silenced>>
      /\ session' = IF config.mode = "stream" THEN id ELSE 0
      /\ provider' = [AbortedProviders EXCEPT
                       ![id] = IF config.mode = "stream" THEN "running" ELSE "none"]
      /\ diagOpen' = BeginDiagnostics(id)
  BY DEF StartRecordingSession
<1>4. AbortedProviders \in [Ids -> {"none", "running", "posted", "finished"}]
  BY AbortedType DEF SafetyInv, TypeInv
<1>5. \A i \in Ids : /\ i # id => provider'[i] = AbortedProviders[i]
                     /\ i = id => provider'[i] = IF config.mode = "stream"
                                                   THEN "running" ELSE "none"
  BY <1>1, <1>3, <1>4
<1>6. \A i \in Ids : /\ AbortedProviders[i] \in {"none", "finished"}
                     /\ AbortedProviders[i] = "none" <=> provider[i] = "none"
                     /\ provider[i] = "finished" => AbortedProviders[i] = "finished"
  BY AbortedFacts, CurrentFacts DEF SafetyInv
<1>7. \A i \in Ids : provider[i] # "none" => i < id
  BY <1>1, CurrentFacts DEF SessionInv, Ids
<1>8. \A i \in 1..Len(queue) : queue[i].id < id /\ queue[i].id # id
  BY <1>1, CurrentFacts DEF QueueInv, Ids
<1>9. \A j \in jobs : j.id < id /\ j.id # id
  BY <1>1, CurrentFacts DEF JobsInv, Ids
<1>10. \A i \in 1..Len(pasted) : pasted[i] \in Ids /\ pasted[i] < id
  <2>1. \A i \in 1..Len(pasted) : pasted[i] \in Ids
    BY DEF SafetyInv, TypeInv, TypeOK
  <2>2. \A i \in 1..Len(pasted) : pasted[i] <= attempt.id
    BY CurrentFacts DEF HistoryInv
  <2> QED
    BY <1>1, <2>1, <2>2 DEF Ids
<1>11. \A i \in silenced : i \in Ids /\ i < id
  BY <1>1, CurrentFacts DEF HistoryInv, SafetyInv, TypeInv, TypeOK, Ids
<1> HIDE DEF id
<1>12. QueueInv(queue, jobs)'
  <2>1. \A i \in 1..Len(queue) : queue[i].id <= id
    BY <1>1, <1>8, CurrentFacts DEF Ids
  <2>2. \A i \in 1..Len(queue) : queue[i].kind = "final" => provider'[queue[i].id] # "none"
    BY <1>5, <1>6, <1>8, CurrentFacts DEF QueueInv
  <2>3. \A i \in 1..Len(queue) : Concludes(queue[i]) => queue[i].id \notin silenced
    BY CurrentFacts DEF QueueInv
  <2>4. \A i \in 1..Len(pasted) : pasted[i] # id
    BY <1>1, <1>10 DEF Ids
  <2> QED
    BY <1>2, <1>3, <1>8, <2>1, <2>2, <2>3, <2>4 DEF QueueInv
<1>13. JobsInv(jobs)'
  <2>1. \A j \in jobs : j.id <= id
    BY <1>1, <1>9, CurrentFacts DEF Ids
  <2>2. \A j \in jobs : j.kind = "fallback" => provider'[j.id] = "finished"
    BY <1>5, <1>6, <1>9, CurrentFacts DEF JobsInv
  <2>3. \A j \in jobs : j.id \notin silenced
    BY CurrentFacts DEF JobsInv
  <2> QED
    BY <1>2, <1>3, <1>9, <2>1, <2>2, <2>3 DEF JobsInv
<1>14. HistoryInv'
  <2>1. \A i \in 1..Len(pasted) : pasted[i] <= id /\ pasted[i] # id
    BY <1>1, <1>10 DEF Ids
  <2>2. \A i \in silenced : i <= id /\ i # id
    BY <1>1, <1>11 DEF Ids
  <2>3. PastedInOrder' /\ \A i \in 1..Len(pasted) : pasted[i] \notin silenced
    BY <1>3, CurrentFacts DEF HistoryInv, PastedInOrder
  <2>4. id <= id
    BY <1>1 DEF Ids
  <2> QED
    BY <1>2, <1>3, <2>1, <2>2, <2>3, <2>4 DEF HistoryInv
<1>15. SessionInv'
  <2>1. \A i \in Ids : provider'[i] # "none" => i <= id
    BY <1>1, <1>5, <1>6, <1>7 DEF Ids
  <2>2. NoOrphanSession'
    BY <1>2, <1>3, <1>5, <1>6 DEF NoOrphanSession
  <2>3. OneOpenDiagnostic'
    BY <1>2, <1>3, CurrentFacts
       DEF BeginDiagnostics, OneOpenDiagnostic, SessionInv
  <2>4. config.mode \in {"stream", "batch"}
    BY ConfigsAssumption DEF PossibleConfigs
  <2> QED
    BY <1>1, <1>2, <1>3, <1>5, <2>1, <2>2, <2>3, <2>4 DEF SessionInv
<1> QED
  BY <1>12, <1>13, <1>14, <1>15 DEF ClaimInv

\* An attempt that ends without a final is silenced; as it was not stopped
\* before, nothing claims it.
LEMMA EndSilentlyClaims ==
  ASSUME SafetyInv, TypeInv', recording, UNCHANGED <<seq, jobs, alive, pasted>>,
         NEW a \in Attempts, a.id = attempt.id, a.config = attempt.config, a.stopped,
         NEW kill \in BOOLEAN, EndSilently(a, kill),
         NEW q, queue' = q, QueueInv(q, jobs)
  PROVE  ClaimInv'
<1>1. /\ recording' = FALSE /\ session' = 0 /\ provider' = AbortedProviders
      /\ silenced' = silenced \union {attempt.id}
      /\ diagOpen' \subseteq diagOpen
      /\ attempt' = MarkActiveAttemptFinalHandled(a)
  BY DEF EndSilently
<1>2. /\ attempt'.id = attempt.id /\ attempt'.config = attempt.config
      /\ attempt'.stopped /\ attempt'.finalHandled /\ attempt'.deferred = NoFinal
  BY <1>1, MarkKeeps
<1>3. ~attempt.stopped
  BY CurrentFacts DEF SessionInv
<1>4. Kept /\ SessionKept
  BY <1>1, <1>2, <1>3, AbortMovesForward
     DEF Kept, AttemptKept, SilencedKept, SessionKept
<1>5. seq' >= seq
  BY CurrentFacts, BoundsAssumption DEF Ids
<1>6. JobsInv(jobs)
  BY CurrentFacts
<1> QED
  BY <1>1, <1>4, <1>5, <1>6, KeptClaims

LEMMA CaptureFailureSafe ==
  ASSUME SafetyInv, TypeInv', recording, NEW q, FinishAudioCaptureFailure(q),
         QueueInv(q, jobs)
  PROVE  ClaimInv'
<1> DEFINE completed == CompleteActiveAttemptRecording(attempt, "short")
           cancelled == CancelActiveAsrAttempt(completed, TRUE)
<1>1. completed \in Attempts /\ completed.id = attempt.id
      /\ completed.config = attempt.config /\ completed.stopped
  BY CurrentFacts, CompleteKeeps
<1> HIDE DEF completed
<1>2. cancelled \in Attempts /\ cancelled.id = attempt.id
      /\ cancelled.config = attempt.config /\ cancelled.stopped
  BY <1>1, CancelKeeps
<1>3. EndSilently(cancelled, TRUE)
  BY DEF FinishAudioCaptureFailure, completed
<1>4. queue' = q /\ UNCHANGED <<seq, jobs, alive, pasted>>
  BY DEF FinishAudioCaptureFailure
<1> HIDE DEF cancelled
<1> QED
  BY <1>2, <1>3, <1>4, EndSilentlyClaims

\* The one final that is claimed: its attempt was not marked before.
LEMMA FinalSafe ==
  ASSUME SafetyInv, TypeInv', NEW m \in FinalMessages, NEW a \in Attempts,
         NEW q \in Seq(Messages), HandleAsrAttemptFinal(m, a, q),
         QueueInv(q, jobs),
         a.id = attempt.id, a.config = attempt.config,
         a.finalHandled = attempt.finalHandled, attempt.stopped => a.stopped,
         a.deferred \in {NoFinal, attempt.deferred},
         provider[m.id] # "none",
         seq' = seq, alive' = alive, pasted' = pasted, silenced' = silenced,
         recording' => recording /\ ~a.stopped
  PROVE  ClaimInv'
<1> DEFINE claimed == [a EXCEPT !.finalHandled = TRUE, !.pcm = "none"]
<1>1. seq' >= seq
  BY CurrentFacts, BoundsAssumption DEF Ids
<1>2. JobsInv(jobs)
  BY CurrentFacts
<1>3. CASE RejectFinal(m, a, q)
  <2>1. attempt' = a /\ queue' = q /\ jobs' = jobs /\ diagOpen' \subseteq diagOpen
        /\ UNCHANGED <<session, provider>>
    BY <1>3 DEF RejectFinal
  <2>2. AttemptKept
    BY <2>1, GivenUp
  <2>3. Kept /\ SessionKept
    BY <2>1, <2>2, UnchangedProviders DEF Kept, SilencedKept, SessionKept
  <2> QED
    BY <1>1, <1>2, <2>1, <2>3, KeptClaims
<1>4. CASE DeferFinal(m, a, q)
  <2>1. queue' = q /\ jobs' = jobs /\ diagOpen' \subseteq diagOpen
        /\ UNCHANGED <<session, provider>> /\ attempt' = [a EXCEPT !.deferred = m]
    BY <1>4 DEF DeferFinal
  <2>2. m.id = attempt.id /\ ~a.stopped
    BY <1>4 DEF DeferFinal, PrepareAttemptFinal, FinalRejected
  <2>3. /\ attempt'.id = a.id /\ attempt'.config = a.config
        /\ attempt'.stopped = a.stopped /\ attempt'.finalHandled = a.finalHandled
        /\ attempt'.deferred = m
    BY <2>1 DEF Attempts
  <2>4. Kept /\ SessionKept
    BY <2>1, <2>2, <2>3, UnchangedProviders
       DEF Kept, AttemptKept, SilencedKept, SessionKept
  <2> QED
    BY <1>1, <1>2, <2>1, <2>3, <2>4, KeptClaims
<1>5. CASE ClaimFinal(m, a, q)
  <2> PICK js : js = jobs
    OBVIOUS
  <2>1. m.id = attempt.id /\ ~attempt.finalHandled /\ a.stopped
    BY <1>5 DEF ClaimFinal, PrepareAttemptFinal, FinalRejected
  <2>2. attempt.id \in Ids
    BY <2>1 DEF FinalMessages
  <2>3. ~Marked
    BY <2>1 DEF Marked
  <2>4. Unclaimed(q, js)
    <3>1. \A i \in 1..Len(q) : Concludes(q[i]) => IsResult(q[i])
      BY DEF Concludes, IsResult
    <3> QED
      BY <2>3, <3>1, CurrentFacts DEF Unclaimed, QueueInv, JobsInv, HistoryInv
  <2>5. /\ claimed \in Attempts
        /\ claimed.id = a.id /\ claimed.config = a.config /\ claimed.stopped
        /\ claimed.finalHandled /\ claimed.deferred = a.deferred
    BY <2>1 DEF Attempts
  <2>6. /\ attempt'.id = attempt.id /\ attempt'.config = attempt.config
        /\ attempt'.stopped /\ attempt'.finalHandled
        /\ attempt'.deferred = a.deferred
    BY <1>5, <2>5 DEF ClaimFinal, Attempts
  <2>7. session' = 0 /\ provider' = AbortedProviders
    BY <1>5 DEF ClaimFinal
  <2>8. Kept /\ SessionKept
    <3>1. AttemptKept
      BY <2>6, CurrentFacts DEF AttemptKept, SessionInv
    <3> QED
      BY <2>1, <2>7, <3>1, AbortMovesForward DEF Kept, SilencedKept, SessionKept
  <2>9. Marked' /\ provider'[m.id] = "finished"
    <3>1. provider'[m.id] = "finished"
      BY <2>1, <2>2, <2>7, CurrentFacts, AbortedFacts DEF SafetyInv
    <3> QED
      BY <2>6, <3>1 DEF Marked
  <2>10. diagOpen' \subseteq diagOpen /\ ~recording'
    BY <1>5, <2>1 DEF ClaimFinal, DispatchAsrFinalText
  <2>11. HistoryInv' /\ SessionInv'
    BY <1>1, <2>6, <2>8, <2>10, KeptInv
  <2>12. \A id \in silenced : id # attempt.id
    BY <2>1, CurrentFacts DEF HistoryInv
  <2>13. /\ m.id <= attempt'.id /\ m.id \notin silenced'
         /\ m.id \in Ids /\ m.text \in Texts /\ m.allowCancelled \in BOOLEAN
         /\ a.config \in Configs /\ js \in SUBSET Jobs /\ js \subseteq Jobs
    BY <2>1, <2>2, <2>6, <2>12, CurrentFacts, BoundsAssumption
       DEF Ids, FinalMessages, Attempts
  <2>14. Unclaimed(q, js)'
    BY <2>4, <2>6 DEF Unclaimed
  <2>15. CASE DispatchAsrFinalText(m.id, m.text, m.text = "polished",
                                   m.allowCancelled, a.config, q, js)
    <3>1. QueueInv(q, js)' /\ JobsInv(js)'
      BY <1>2, <2>8, <2>13, ClaimsStable DEF SafetyInv
    <3> DEFINE bundled == m.text = "polished"
    <3>2. bundled \in BOOLEAN
      OBVIOUS
    <3>3. DispatchAsrFinalText(m.id, m.text, bundled, m.allowCancelled,
                               a.config, q, js)
      BY <2>15
    <3> HIDE DEF bundled
    <3> QED
      BY <2>9, <2>11, <2>13, <2>14, <3>1, <3>2, <3>3, DispatchClaims
  <2>16. CASE /\ queue' = Append(q, Notice("status", m.id))
              /\ jobs' = js \union
                   {Job("fallback", "start", m.id, a.config, m.allowCancelled)}
    <3> DEFINE n == Notice("status", m.id)
               j == Job("fallback", "start", m.id, a.config, m.allowCancelled)
               qn == Append(q, n)
    <3>1. n \in Messages /\ ~IsResult(n) /\ ~Concludes(n) /\ n.id = m.id
          /\ n.kind # "final"
      BY <2>13, MessageTypes DEF Notice, IsResult, Concludes
    <3>2. j.id = m.id
      BY DEF Job
    <3> HIDE DEF n, j
    <3>3. m.id <= attempt.id
      BY <2>6, <2>13
    <3>4. QueueInv(qn, js) /\ JobsInv(js)
      BY <1>2, <3>1, <3>3, QueueAppend
    <3>5. qn \in Seq(Messages)
      BY <3>1
    <3>6. Unclaimed(qn, js)
      <4>1. \A i \in 1..Len(qn) : \/ i \in 1..Len(q) /\ qn[i] = q[i]
                                  \/ i = Len(q) + 1 /\ qn[i] = n
        BY <3>1, AppendIndex
      <4> HIDE DEF qn
      <4> QED
        BY <2>4, <3>1, <4>1 DEF Unclaimed
    <3> HIDE DEF qn
    <3>7. QueueInv(qn, js)' /\ JobsInv(js)'
      BY <1>2, <2>8, <2>13, <3>4, <3>5, ClaimsStable DEF SafetyInv
    <3>8. Unclaimed(qn, js)'
      BY <2>6, <3>6 DEF Unclaimed
    <3>9. QueueInv(qn, js \union {j})' /\ JobsInv(js \union {j})'
      BY <2>9, <2>13, <3>2, <3>7, <3>8, JobStarted
    <3>10. queue' = qn /\ jobs' = js \union {j}
      BY <2>16 DEF qn, n, j
    <3> QED
      BY <2>11, <3>9, <3>10, NextClaims
  <2>17. CASE queue' = q /\ jobs' = js
    BY <1>1, <1>2, <2>6, <2>8, <2>10, <2>17, KeptClaims
  <2> QED
    BY <1>5, <2>15, <2>16, <2>17 DEF ClaimFinal
<1> QED
  BY <1>3, <1>4, <1>5 DEF HandleAsrAttemptFinal

LEMMA StopSafe ==
  ASSUME SafetyInv, TypeInv',
         StopFailedCapture \/ StopWithoutSpeech \/ StopWithDeferredFinal
           \/ StopStreaming \/ StopBatch
  PROVE  ClaimInv'
<1>1. recording /\ alive /\ ~attempt.stopped /\ attempt.id \in Ids
  BY CurrentFacts
     DEF StopFailedCapture, StopWithoutSpeech, StopWithDeferredFinal,
         StopStreaming, StopBatch, SessionInv, SafetyInv, TypeInv
<1>2. \A length \in {"short", "long"} :
        LET c == CompleteActiveAttemptRecording(attempt, length) IN
        /\ c \in Attempts
        /\ c.id = attempt.id /\ c.config = attempt.config /\ c.stopped
        /\ c.finalHandled = attempt.finalHandled /\ c.deferred = NoFinal
  BY CurrentFacts, CompleteKeeps
<1>3. seq >= seq
  BY CurrentFacts, BoundsAssumption DEF Ids
<1>4. CASE StopFailedCapture
  BY <1>1, <1>4, CurrentFacts, CaptureFailureSafe DEF StopFailedCapture
<1>5. CASE StopWithoutSpeech
  <2>1. PICK length \in {"short", "long"} :
          EndSilently(CompleteActiveAttemptRecording(attempt, length),
                      attempt.config.mode = "stream")
    BY <1>5 DEF StopWithoutSpeech
  <2> DEFINE completed == CompleteActiveAttemptRecording(attempt, length)
             kill == attempt.config.mode = "stream"
  <2>2. completed \in Attempts /\ completed.id = attempt.id
        /\ completed.config = attempt.config /\ completed.stopped
        /\ kill \in BOOLEAN
    BY <1>2
  <2>3. EndSilently(completed, kill)
    BY <2>1
  <2>4. queue' = queue /\ UNCHANGED <<seq, jobs, alive, pasted>>
    BY <1>5 DEF StopWithoutSpeech
  <2> HIDE DEF completed, kill
  <2> QED
    BY <1>1, <2>2, <2>3, <2>4, CurrentFacts, EndSilentlyClaims
<1>6. CASE StopWithDeferredFinal
  <2> DEFINE completed == CompleteActiveAttemptRecording(attempt, "long")
  <2>1. attempt.deferred \in FinalMessages
    BY <1>6, CurrentFacts DEF StopWithDeferredFinal, Attempts
  <2>2. /\ completed \in Attempts
        /\ completed.id = attempt.id /\ completed.config = attempt.config
        /\ completed.stopped /\ completed.finalHandled = attempt.finalHandled
        /\ completed.deferred = NoFinal
    BY <1>2
  <2>3. HandleAsrAttemptFinal(attempt.deferred, completed, queue)
    BY <1>6 DEF StopWithDeferredFinal
  <2>4. provider[attempt.deferred.id] # "none"
    BY <1>6, CurrentFacts DEF StopWithDeferredFinal, SessionInv
  <2>5. /\ seq' = seq /\ alive' = alive /\ pasted' = pasted
        /\ silenced' = silenced /\ ~recording'
    BY <1>6 DEF StopWithDeferredFinal
  <2> HIDE DEF completed
  <2> QED
    BY <2>1, <2>2, <2>3, <2>4, <2>5, CurrentFacts, FinalSafe
<1>7. CASE StopStreaming
  <2>1. AttemptKept
    BY <1>2, <1>7 DEF StopStreaming, AttemptKept
  <2>2. Kept /\ SessionKept
    BY <1>7, <2>1, UnchangedProviders
       DEF StopStreaming, Kept, SilencedKept, SessionKept
  <2> QED
    BY <1>1, <1>3, <1>7, <2>2, CurrentFacts, KeptClaims DEF StopStreaming
<1>8. CASE StopBatch
  <2> PICK q, js, j :
        /\ q = queue /\ js = jobs
        /\ j = Job("batch", "primary", attempt.id, attempt.config, FALSE)
    OBVIOUS
  <2>1. AttemptKept
    BY <1>2, <1>8 DEF StopBatch, AttemptKept
  <2>2. Kept /\ SessionKept
    BY <1>8, <2>1, UnchangedProviders
       DEF StopBatch, Kept, SilencedKept, SessionKept
  <2>3. QueueInv(q, js)' /\ JobsInv(js)'
    <3>1. QueueInv(q, js) /\ JobsInv(js) /\ q \in Seq(Messages) /\ js \subseteq Jobs
      BY CurrentFacts
    <3> QED
      BY <1>8, <2>2, <3>1, ClaimsStable DEF StopBatch, SafetyInv
  <2>4. ~Marked
    BY <1>1 DEF Marked
  <2>5. Unclaimed(q, js)
    <3>1. \A i \in 1..Len(q) : Concludes(q[i]) => IsResult(q[i])
      BY DEF Concludes, IsResult
    <3> QED
      BY <2>4, <3>1, CurrentFacts DEF Unclaimed, QueueInv, JobsInv, HistoryInv
  <2>6. Unclaimed(q, js)'
    BY <1>8, <2>1, <2>5 DEF Unclaimed, AttemptKept, StopBatch
  <2>7. Marked'
    <3>1. provider[attempt.id] = "none"
      <4>1. attempt.config.mode = "batch"
        <5>1. attempt.config.mode \in {"stream", "batch"}
          BY CurrentFacts, ConfigsAssumption DEF Attempts, PossibleConfigs
        <5> QED
          BY <1>1, <1>8, <5>1, CurrentFacts DEF StopBatch, SessionInv
      <4> QED
        BY <1>1, <4>1, CurrentFacts DEF SessionInv, Ids
    <3> QED
      BY <1>2, <1>8, <3>1 DEF StopBatch, Marked
  <2>8. j.id = attempt'.id /\ j.kind = "batch"
    BY <2>1 DEF Job, AttemptKept
  <2>9. attempt'.id <= attempt'.id /\ attempt'.id \notin silenced'
    BY <1>1, <1>8, <2>1, CurrentFacts, BoundsAssumption
       DEF StopBatch, AttemptKept, HistoryInv, Ids
  <2>10. QueueInv(q, js \union {j})' /\ JobsInv(js \union {j})'
    BY <2>3, <2>6, <2>7, <2>8, <2>9, JobStarted
  <2>11. queue' = q /\ jobs' = js \union {j}
    BY <1>8 DEF StopBatch
  <2>12. HistoryInv' /\ SessionInv'
    BY <1>3, <1>8, <2>2, KeptInv DEF StopBatch
  <2> QED
    BY <2>10, <2>11, <2>12, NextClaims
<1> QED
  BY <1>4, <1>5, <1>6, <1>7, <1>8

LEMMA TimersSafe ==
  ASSUME SafetyInv, TypeInv', WatchdogFires \/ HideHud \/ Shutdown
  PROVE  ClaimInv'
<1>1. seq >= seq
  BY CurrentFacts, BoundsAssumption DEF Ids
<1>2. recording => ~attempt.stopped
  BY CurrentFacts DEF SessionInv
<1>3. CASE WatchdogFires
  <2> DEFINE timesOut == session # 0 /\ provider[session] \in {"running", "posted"}
             cancelled == CancelActiveAsrAttempt(attempt, FALSE)
  <2>1. attempt' \in {attempt, cancelled}
    BY <1>3 DEF WatchdogFires
  <2>2. AttemptKept
    <3>1. /\ cancelled \in Attempts
          /\ cancelled.id = attempt.id /\ cancelled.config = attempt.config
          /\ cancelled.stopped = attempt.stopped
          /\ cancelled.finalHandled = attempt.finalHandled
          /\ cancelled.deferred = attempt.deferred
      BY CurrentFacts, CancelKeeps
    <3> HIDE DEF cancelled
    <3> QED
      BY <2>1, <3>1, CurrentFacts, GivenUp
  <2>3. Kept /\ SessionKept
    BY <1>3, <2>2, AbortMovesForward
       DEF WatchdogFires, Kept, SilencedKept, SessionKept
  <2>4. PICK q : q = queue'
    OBVIOUS
  <2>5. QueueInv(q, jobs)
    <3>1. CASE timesOut
      <4> DEFINE m == TimeoutFinal(attempt.id)
      <4>1. session = attempt.id /\ attempt.id \in Ids /\ provider[attempt.id] # "none"
        BY <3>1, CurrentFacts DEF SessionInv, SafetyInv, TypeInv
      <4>2. m \in Messages /\ m.id = attempt.id /\ ~IsResult(m)
        BY <4>1, MessageTypes DEF TimeoutFinal, Final, IsResult, Texts
      <4>3. queue' = Append(queue, m)
        BY <1>3, <3>1 DEF WatchdogFires
      <4>4. attempt.id <= attempt.id
        BY <4>1, BoundsAssumption DEF Ids
      <4> HIDE DEF m
      <4> QED
        BY <2>4, <4>1, <4>2, <4>3, <4>4, CurrentFacts, QueueAppend
    <3>2. CASE ~timesOut
      BY <1>3, <2>4, <3>2, CurrentFacts DEF WatchdogFires
    <3> QED
      BY <3>1, <3>2
  <2>6. ~recording'
    BY <1>3 DEF WatchdogFires
  <2> QED
    BY <1>1, <1>3, <2>3, <2>4, <2>5, <2>6, CurrentFacts, KeptClaims DEF WatchdogFires
<1>4. CASE HideHud
  <2>1. QuietStep /\ UNCHANGED <<queue, jobs>>
    BY <1>4, UnchangedProviders DEF HideHud, QuietStep
  <2> QED
    BY <2>1, CurrentFacts, QuietClaims
<1>5. CASE Shutdown
  <2> DEFINE cancelled == CancelActiveAsrAttempt(attempt, TRUE)
             marked == MarkActiveAttemptFinalHandled(cancelled)
  <2>1. /\ cancelled \in Attempts
        /\ cancelled.id = attempt.id /\ cancelled.config = attempt.config
        /\ cancelled.stopped = attempt.stopped
    BY CurrentFacts, CancelKeeps
  <2> HIDE DEF cancelled
  <2>2. /\ marked \in Attempts
        /\ marked.id = attempt.id /\ marked.config = attempt.config
        /\ marked.stopped = attempt.stopped
        /\ marked.finalHandled /\ marked.deferred = NoFinal
    BY <2>1, MarkKeeps
  <2>3. attempt' = marked
    BY <1>5 DEF Shutdown, cancelled
  <2> HIDE DEF marked
  <2>4. AttemptKept /\ attempt'.stopped = attempt.stopped
    BY <2>2, <2>3 DEF AttemptKept
  <2>5. Kept /\ SessionKept
    BY <1>5, <2>4, AbortMovesForward DEF Shutdown, Kept, SilencedKept, SessionKept
  <2> QED
    BY <1>1, <1>2, <1>5, <2>4, <2>5, CurrentFacts, KeptClaims DEF Shutdown
<1> QED
  BY <1>3, <1>4, <1>5

\* A detached thread passes its claim on, or drops it.
LEMMA JobSafe ==
  ASSUME SafetyInv, TypeInv', NEW j \in jobs, JobStep(j) \/ JobNotice(j)
  PROVE  ClaimInv'
<1> PICK q, js : q = queue /\ js = jobs
  OBVIOUS
<1>1. j \in Jobs /\ j.id \in Ids /\ j.id <= attempt.id /\ j.id \notin silenced
      /\ (j.id = attempt.id => Marked)
  BY CurrentFacts DEF JobsInv
<1>2. QueueInv(q, js) /\ JobsInv(js) /\ q \in Seq(Messages) /\ js \subseteq Jobs
  BY CurrentFacts
<1>3. CASE JobNotice(j)
  <2>1. QuietStep /\ UNCHANGED jobs /\ queue' = Append(queue, Notice("status", j.id))
    BY <1>3, UnchangedProviders DEF JobNotice, PostNotice, QuietStep
  <2> QED
    BY <1>1, <2>1, NoticePosted
<1>4. CASE JobStep(j)
  <2>1. UNCHANGED <<seq, attempt, session, provider, recording, alive, pasted, silenced>>
    BY <1>4 DEF JobStep
  <2>2. ASSUME diagOpen' \subseteq diagOpen PROVE QuietStep
    BY <2>1, <2>2, UnchangedProviders DEF QuietStep
  <2>3. ASSUME NEW k, k.id = j.id, k.kind = j.kind
        PROVE  LET ks == (js \ {j}) \union {k} IN JobsInv(ks) /\ QueueInv(q, ks)
    <3> DEFINE ks == (js \ {j}) \union {k}
    <3>1. JobsInv(ks)
      <4>1. \A x \in js : x.id = attempt.id /\ j.id = attempt.id => x = j
        BY <1>2 DEF JobsInv
      <4>2. \A p \in 1..Len(pasted) : pasted[p] = attempt.id => j.id # attempt.id
        BY <1>2 DEF JobsInv
      <4>3. j.kind = "fallback" => provider[j.id] = "finished"
        BY <1>2 DEF JobsInv
      <4> QED
        BY <1>1, <1>2, <2>3, <4>1, <4>2, <4>3 DEF JobsInv
    <3>2. QueueInv(q, ks)
      <4>1. \A i \in 1..Len(q) :
              Concludes(q[i]) /\ q[i].id = attempt.id => j.id # attempt.id
        BY <1>2 DEF QueueInv
      <4> QED
        BY <1>2, <2>3, <4>1 DEF QueueInv
    <3> QED
      BY <3>1, <3>2
  <2>4. QueueInv(q, js \ {j}) /\ JobsInv(js \ {j})
    BY <1>2 DEF QueueInv, JobsInv
  <2>5. ASSUME diagOpen' = diagOpen, queue' = q,
               \/ jobs' = js \ {j}
               \/ \E k : k.id = j.id /\ k.kind = j.kind /\ jobs' = (js \ {j}) \union {k}
        PROVE  ClaimInv'
    <3>1. QuietStep
      BY <2>2, <2>5
    <3>2. CASE jobs' = js \ {j}
      BY <2>4, <2>5, <3>1, <3>2, QuietClaims
    <3>3. CASE \E k : k.id = j.id /\ k.kind = j.kind /\ jobs' = (js \ {j}) \union {k}
      <4>1. PICK k : k.id = j.id /\ k.kind = j.kind /\ jobs' = (js \ {j}) \union {k}
        BY <3>3
      <4>2. LET ks == (js \ {j}) \union {k} IN JobsInv(ks) /\ QueueInv(q, ks)
        BY <2>3, <4>1
      <4> QED
        BY <2>5, <3>1, <4>1, <4>2, QuietClaims
    <3> QED
      BY <2>5, <3>2, <3>3
  <2>6. \A text \in Texts :
          LET k == [j EXCEPT !.step = "dispatch", !.text = text]
          IN  k.id = j.id /\ k.kind = j.kind
    BY <1>1 DEF Jobs
  <2>7. LET k == [j EXCEPT !.step = "fallback"] IN k.id = j.id /\ k.kind = j.kind
    BY <1>1 DEF Jobs
  <2>8. CASE PrimaryBatchReturns(j)
    <3>1. PICK text \in {"plain", "noSpeech", "error"} :
            IF ~IsActiveAsrAttempt(j.id, j.allowCancelled)
              THEN DropJob(j) /\ UNCHANGED queue
            ELSE IF ShouldRunFallback(j.config, text)
              THEN /\ KeepJob(j, [j EXCEPT !.step = "fallback"])
                   /\ queue' = Append(queue, Notice("status", j.id))
              ELSE /\ KeepJob(j, [j EXCEPT !.step = "dispatch", !.text = text])
                   /\ UNCHANGED queue
      BY <2>8 DEF PrimaryBatchReturns
    <3>2. diagOpen' = diagOpen /\ text \in Texts
      BY <2>8 DEF PrimaryBatchReturns, Texts
    <3>3. CASE DropJob(j) /\ UNCHANGED queue
      BY <2>5, <3>2, <3>3 DEF DropJob
    <3>4. CASE /\ KeepJob(j, [j EXCEPT !.step = "dispatch", !.text = text])
               /\ UNCHANGED queue
      BY <2>5, <2>6, <3>2, <3>4 DEF KeepJob
    <3>5. CASE /\ KeepJob(j, [j EXCEPT !.step = "fallback"])
               /\ queue' = Append(queue, Notice("status", j.id))
      <4> PICK k, n : k = [j EXCEPT !.step = "fallback"] /\ n = Notice("status", j.id)
        OBVIOUS
      <4> DEFINE ks == (js \ {j}) \union {k}
                 qn == Append(q, n)
      <4>1. JobsInv(ks) /\ QueueInv(q, ks)
        BY <2>3, <2>7
      <4>2. n \in Messages /\ n.id = j.id /\ ~IsResult(n) /\ n.kind # "final"
        BY <1>1, MessageTypes DEF Notice, IsResult
      <4>3. jobs' = ks /\ queue' = qn
        BY <3>5 DEF KeepJob
      <4> HIDE DEF ks
      <4>4. QueueInv(qn, ks)
        BY <1>1, <1>2, <4>1, <4>2, QueueAppend
      <4> HIDE DEF qn
      <4> QED
        BY <2>2, <3>2, <4>1, <4>3, <4>4, QuietClaims
    <3> QED
      BY <3>1, <3>3, <3>4, <3>5
  <2>9. CASE FallbackStarts(j)
    BY <2>5, <2>7, <2>9 DEF FallbackStarts, KeepJob, DropJob
  <2>10. CASE FallbackReturns(j)
    <3>1. \A text \in FallbackTexts(j.config) : text \in Texts
      BY DEF FallbackTexts, Texts
    <3> QED
      BY <2>5, <2>6, <2>10, <3>1 DEF FallbackReturns, KeepJob, DropJob
  <2>11. CASE JobDispatches(j) \/ LlmReturns(j)
    <3> PICK jr : jr = js \ {j}
      OBVIOUS
    <3>1. diagOpen' \subseteq diagOpen
      BY <2>11 DEF JobDispatches, DispatchAsrFinalText, LlmReturns
    <3>2. QuietStep /\ Kept /\ UNCHANGED pasted
      BY <2>2, <3>1, CurrentFacts
         DEF QuietStep, Kept, AttemptKept, SilencedKept, SessionInv
    <3>3. HistoryInv' /\ SessionInv'
      <4>1. SessionKept /\ seq' >= seq /\ (alive' => alive)
            /\ (recording' => recording /\ ~attempt'.stopped)
        BY <3>2, CurrentFacts, BoundsAssumption
           DEF QuietStep, SessionKept, SessionInv, Ids
      <4> QED
        BY <3>1, <3>2, <4>1, KeptInv
    <3>4. QueueInv(q, jr)' /\ JobsInv(jr)'
      BY <1>2, <2>4, <3>2, ClaimsStable DEF SafetyInv
    <3>5. j.id <= attempt'.id /\ j.id \notin silenced'
          /\ (j.id = attempt'.id => Marked' /\ Unclaimed(q, jr)')
      <4>1. j.id = attempt.id => Unclaimed(q, jr)
        BY <1>2 DEF Unclaimed, QueueInv, JobsInv
      <4> QED
        BY <1>1, <2>1, <4>1 DEF Unclaimed, Marked
    <3>6. CASE JobDispatches(j)
      <4> DEFINE bundled == j.kind = "fallback" /\ j.text = "polished"
      <4>1. bundled \in BOOLEAN
        OBVIOUS
      <4>2. DispatchAsrFinalText(j.id, j.text, bundled, j.allowCancelled,
                                 j.config, q, jr)
        BY <3>6 DEF JobDispatches
      <4>3. j.text \in Texts /\ j.allowCancelled \in BOOLEAN
            /\ j.config \in Configs /\ jr \in SUBSET Jobs
        BY <1>1, <1>2 DEF Jobs
      <4> HIDE DEF bundled
      <4> QED
        BY <1>1, <1>2, <3>3, <3>4, <3>5, <4>1, <4>2, <4>3, DispatchClaims
    <3>7. CASE LlmReturns(j)
      <4>1. PICK text \in {"plain", "error"} :
              queue' = Append(queue, [kind |-> "llm", id |-> j.id, text |-> text,
                                      allowCancelled |-> j.allowCancelled])
        BY <3>7 DEF LlmReturns
      <4> DEFINE m == [kind |-> "llm", id |-> j.id, text |-> text,
                       allowCancelled |-> j.allowCancelled]
      <4>2. m \in Messages /\ IsResult(m) /\ m.id = j.id
        BY <1>1 DEF Messages, LlmMessages, Jobs, IsResult
      <4>3. queue' = Append(q, m) /\ jobs' = jr
        BY <3>7, <4>1 DEF LlmReturns, DropJob
      <4> HIDE DEF m
      <4>4. QueueInv(Append(q, m), jr)'
        BY <1>2, <3>4, <3>5, <4>2, ResultPosted
      <4> QED
        BY <3>3, <3>4, <4>3, <4>4, NextClaims
    <3> QED
      BY <2>11, <3>6, <3>7
  <2> QED
    BY <1>4, <2>8, <2>9, <2>10, <2>11 DEF JobStep
<1> QED
  BY <1>3, <1>4

\* The paste uses up the one claim of the current attempt, the message m at
\* the head of the queue.
LEMMA PasteSafe ==
  ASSUME SafetyInv, TypeInv', queue # <<>>, NEW m, m = Head(queue),
         Concludes(m), m.id = attempt.id, queue' = Tail(queue),
         pasted' = Append(pasted, m.id),
         UNCHANGED <<seq, attempt, session, provider, recording, alive, jobs,
                     diagOpen, silenced>>
  PROVE  ClaimInv'
<1> DEFINE n == Len(pasted)
           q == Tail(queue)
<1>1. 1 \in 1..Len(queue) /\ queue[1] = m /\ IsResult(m)
  BY CurrentFacts DEF Concludes, IsResult
<1>2. /\ Marked /\ m.id \notin silenced
      /\ \A j \in jobs : j.id # attempt.id
      /\ \A i \in 1..Len(queue) :
           Concludes(queue[i]) /\ queue[i].id = attempt.id => i = 1
  BY <1>1, CurrentFacts DEF QueueInv
<1>3. \A i \in 1..Len(pasted) : pasted[i] # attempt.id
  BY <1>1, CurrentFacts DEF QueueInv
<1>4. attempt.id \in Ids /\ n \in Nat /\ pasted \in Seq(Ids)
  BY <1>1, CurrentFacts DEF SafetyInv, TypeInv, TypeOK
<1>5. Len(pasted') = n + 1
      /\ \A i \in 1..(n + 1) : \/ i \in 1..n /\ pasted'[i] = pasted[i]
                               \/ i = n + 1 /\ pasted'[i] = attempt.id
  BY <1>4
<1>6. \A i \in 1..Len(q) : i + 1 \in 1..Len(queue) /\ q[i] = queue[i + 1] /\ i + 1 # 1
  BY CurrentFacts, TailIndex
<1> HIDE DEF q, n
<1>7. QueueInv(q, jobs)
  BY CurrentFacts, QueueTail DEF q
<1>8. \A i \in 1..Len(q) : Concludes(q[i]) => q[i].id # attempt.id
  BY <1>2, <1>6
<1>9. QueueInv(queue, jobs)'
  BY <1>5, <1>7, <1>8 DEF QueueInv, Marked, q
<1>10. JobsInv(jobs)'
  BY <1>2, <1>5, CurrentFacts DEF JobsInv, Marked
<1>11. HistoryInv'
  <2>1. \A i \in 1..Len(pasted) : pasted[i] \in Ids /\ pasted[i] <= attempt.id
    BY <1>4, CurrentFacts DEF HistoryInv
  <2>2. \A i \in 1..Len(pasted) : pasted[i] < attempt.id
    BY <1>3, <1>4, <2>1, BoundsAssumption DEF Ids
  <2>3. PastedInOrder'
    <3>1. \A i, k \in 1..n : i < k => pasted[i] < pasted[k]
      BY CurrentFacts DEF HistoryInv, PastedInOrder, n
    <3> QED
      BY <1>4, <1>5, <2>2, <3>1 DEF PastedInOrder, n
  <2>4. \A i \in 1..Len(pasted') : pasted'[i] <= attempt.id
    BY <1>4, <1>5, <2>1, BoundsAssumption DEF Ids, n
  <2>5. \A i \in 1..Len(pasted') : pasted'[i] \notin silenced
    BY <1>2, <1>5, CurrentFacts DEF HistoryInv, n
  <2> QED
    BY <1>2, <2>3, <2>4, <2>5, CurrentFacts DEF HistoryInv, Marked
<1>12. SessionInv'
  BY CurrentFacts DEF SessionInv, NoOrphanSession, OneOpenDiagnostic
<1> QED
  BY <1>9, <1>10, <1>11, <1>12 DEF ClaimInv

LEMMA MessageSafe ==
  ASSUME SafetyInv, TypeInv', DispatchMessage
  PROVE  ClaimInv'
<1> PICK m, q : m = Head(queue) /\ q = Tail(queue)
  OBVIOUS
<1>1. queue # <<>> /\ m \in Messages /\ q \in Seq(Messages)
      /\ 1 \in 1..Len(queue) /\ queue[1] = m
  BY CurrentFacts DEF DispatchMessage
<1>2. QueueInv(q, jobs) /\ JobsInv(jobs)
  BY <1>1, CurrentFacts, QueueTail
<1>3. \/ ReceiveFinal(m, q) \/ ReceiveResult(m, q) \/ ReceiveLlm(m, q)
      \/ ReceiveNotice(m, q) \/ ReceiveCaptureError(m, q)
  BY DEF DispatchMessage
<1>4. ASSUME queue' = q, jobs' = jobs, diagOpen' = diagOpen,
             UNCHANGED <<seq, attempt, session, provider, recording, alive,
                         pasted, silenced>>
      PROVE  ClaimInv'
  <2>1. QuietStep
    BY <1>4, UnchangedProviders DEF QuietStep
  <2> QED
    BY <1>2, <1>4, <2>1, QuietClaims
<1>5. CASE ReceiveFinal(m, q)
  <2>1. m \in FinalMessages
    BY <1>1, <1>5 DEF ReceiveFinal, Messages, ResultMessages, LlmMessages, Notices
  <2>2. provider[m.id] # "none"
    BY <1>1, <1>5, CurrentFacts DEF ReceiveFinal, QueueInv
  <2>3. /\ seq' = seq /\ alive' = alive /\ pasted' = pasted
        /\ silenced' = silenced /\ (recording' => recording /\ ~attempt.stopped)
    BY <1>5, CurrentFacts DEF ReceiveFinal, SessionInv
  <2> QED
    BY <1>1, <1>2, <1>5, <2>1, <2>2, <2>3, CurrentFacts, FinalSafe DEF ReceiveFinal
<1>6. CASE ReceiveResult(m, q)
  <2> DEFINE accepted == IsActiveAsrAttempt(m.id, m.allowCancelled)
             pastes == /\ accepted /\ m.text \in UsableText
                       /\ ~(m.refine /\ m.text \in UsableText)
  <2>1. CASE pastes
    <3>1. m.id = attempt.id /\ Concludes(m)
      BY <1>6, <2>1 DEF IsActiveAsrAttempt, ReceiveResult, Concludes
    <3>2. pasted' = Append(pasted, m.id)
      BY <1>6, <2>1 DEF ReceiveResult
    <3> QED
      BY <1>1, <1>6, <3>1, <3>2, PasteSafe DEF ReceiveResult
  <2>2. CASE ~pastes
    BY <1>4, <1>6, <2>2 DEF ReceiveResult
  <2> QED
    BY <2>1, <2>2
<1>7. CASE ReceiveLlm(m, q)
  <2> DEFINE pastes == IsActiveAsrAttempt(m.id, m.allowCancelled) /\ m.text = "plain"
  <2>1. CASE pastes
    <3>1. m.id = attempt.id /\ Concludes(m) /\ pasted' = Append(pasted, m.id)
      BY <1>7, <2>1 DEF IsActiveAsrAttempt, ReceiveLlm, Concludes
    <3> QED
      BY <1>1, <1>7, <3>1, PasteSafe DEF ReceiveLlm
  <2>2. CASE ~pastes
    BY <1>4, <1>7, <2>2 DEF ReceiveLlm
  <2> QED
    BY <2>1, <2>2
<1>8. CASE ReceiveNotice(m, q)
  BY <1>4, <1>8 DEF ReceiveNotice
<1>9. CASE ReceiveCaptureError(m, q)
  <2>1. CASE recording /\ m.id = attempt.id
    BY <1>2, <1>9, <2>1, CaptureFailureSafe DEF ReceiveCaptureError
  <2>2. CASE ~(recording /\ m.id = attempt.id)
    BY <1>4, <1>9, <2>2 DEF ReceiveCaptureError
  <2> QED
    BY <2>1, <2>2
<1> QED
  BY <1>3, <1>5, <1>6, <1>7, <1>8, <1>9

LEMMA SafetyNext == SafetyInv /\ [Next]_vars => SafetyInv'
<1> SUFFICES ASSUME SafetyInv, [Next]_vars PROVE SafetyInv'
  OBVIOUS
<1>1. TypeInv'
  BY TypeNext DEF SafetyInv
<1> SUFFICES ClaimInv'
  BY <1>1 DEF SafetyInv
<1>2. CASE StartRecordingFails
  BY <1>1, <1>2, StartFailsSafe
<1>3. CASE \E config \in Configs : StartRecordingSession(config)
  BY <1>1, <1>3, StartSafe
<1>4. CASE StopFailedCapture \/ StopWithoutSpeech \/ StopWithDeferredFinal
             \/ StopStreaming \/ StopBatch
  BY <1>1, <1>4, StopSafe
<1>5. CASE \/ CaptureFails
           \/ \E id \in Ids : ProviderNotice(id) \/ ProviderFinal(id) \/ ProviderExits(id)
  BY <1>1, <1>5, WorkerSafe
<1>6. CASE \E j \in jobs : JobStep(j) \/ JobNotice(j)
  BY <1>1, <1>6, JobSafe
<1>7. CASE WatchdogFires \/ HideHud \/ Shutdown
  BY <1>1, <1>7, TimersSafe
<1>8. CASE DispatchMessage
  BY <1>1, <1>8, MessageSafe
<1>9. CASE UNCHANGED vars
  <2>1. QuietStep /\ UNCHANGED <<queue, jobs>>
    BY <1>9, UnchangedProviders DEF vars, QuietStep
  <2> QED
    BY <1>1, <2>1, CurrentFacts, QuietClaims
<1> QED
  BY <1>2, <1>3, <1>4, <1>5, <1>6, <1>7, <1>8, <1>9 DEF Next

LEMMA SafetyCorrect == Spec => []SafetyInv
  BY SafetyInit, SafetyNext, PTL DEF Spec

---------------------------------------------------------------------------
\* The theorems.

\* No recording is pasted twice and none after a later one, however many
\* results, late answers, timeouts and fallbacks are in flight.
THEOREM PastesInOrder == Spec => []PastedInOrder
<1>1. SafetyInv => PastedInOrder
  BY DEF SafetyInv, ClaimInv, HistoryInv
<1> QED
  BY <1>1, SafetyCorrect, PTL

\* An attempt that a local verdict ended is neither pasted nor worked on.
THEOREM SilencedIsSilent == Spec => []SilencedStaysSilent
<1>1. SafetyInv => SilencedStaysSilent
  BY DEF SafetyInv, ClaimInv, HistoryInv, JobsInv, SilencedStaysSilent
<1> QED
  BY <1>1, SafetyCorrect, PTL

\* No thread and no result exists for an attempt that is still recorded.
THEOREM NothingClaimedBeforeStop == Spec => []NothingBeforeStop
<1>1. ASSUME SafetyInv PROVE NothingBeforeStop
  <2>1. recording => ~Marked
    BY <1>1, CurrentFacts DEF SessionInv, Marked
  <2> QED
    BY <1>1, <2>1, CurrentFacts DEF QueueInv, JobsInv, IsResult, NothingBeforeStop
<1> QED
  BY <1>1, SafetyCorrect, PTL

\* A fallback thread never runs next to the worker of the primary backend.
THEOREM FallbackRunsAlone == Spec => []FallbackIsSerial
<1>1. SafetyInv => FallbackIsSerial
  BY DEF SafetyInv, ClaimInv, JobsInv, FallbackIsSerial
<1> QED
  BY <1>1, SafetyCorrect, PTL

\* Whoever runs can be aborted, and at most one recording is open in the
\* diagnostics.
THEOREM NothingIsOrphaned == Spec => []NothingLeftBehind
<1>1. SafetyInv => NothingLeftBehind
  BY DEF SafetyInv, ClaimInv, SessionInv, NothingLeftBehind
<1> QED
  BY <1>1, SafetyCorrect, PTL

---------------------------------------------------------------------------
\* What the HUD shows.  Once it is settled, nothing is left that could reach
\* it: no thread, no session and no message of the current attempt, unless
\* that attempt was invalidated.  Only the notices of a silenced attempt may
\* still be queued, and the HUD is not hidden before they are gone.

Shown(m) == m.kind \in {"partial", "status"} \/ IsResult(m)

\* What holds of a queue q: a message that concludes the current attempt is
\* the last of that attempt that is shown, a text that is to be refined is
\* usable, and a silenced attempt has no result.
HudQueue(q) ==
  /\ \A i \in 1..Len(q) :
       q[i].kind = "result" /\ q[i].refine => q[i].text \in UsableText
  /\ \A i \in 1..Len(q) : IsResult(q[i]) => q[i].id \notin silenced
  /\ \A i, k \in 1..Len(q) :
       /\ Concludes(q[i]) /\ q[i].id = attempt.id
       /\ Shown(q[k]) /\ q[k].id = attempt.id
       => k <= i

\* Nothing of the current attempt can reach the HUD any more.
Over(q, js) ==
  /\ session = 0
  /\ \/ attempt.finalHandled
     \/ \A i \in 1..Len(q) : q[i].kind = "final" => q[i].id # attempt.id
  /\ \A j \in js : j.id # attempt.id
  /\ \A i \in 1..Len(q) : IsResult(q[i]) => q[i].id # attempt.id
  /\ ~(hideArmed /\ attempt.id \in silenced) =>
       \A i \in 1..Len(q) : Shown(q[i]) => q[i].id # attempt.id

HudInv ==
  /\ recording => ~Settled
  /\ attempt.finalHandled => session = 0
  /\ HudQueue(queue)
  /\ Settled => attempt.invalidated \/ Over(queue, jobs)

\* The HUD still waits for something of the current attempt.
Awaited ==
  /\ \A i \in 1..Len(queue) : Concludes(queue[i]) => queue[i].id # attempt.id
  /\ Settled => attempt.invalidated

HudMessage(m) ==
  /\ m.kind = "result" /\ m.refine => m.text \in UsableText
  /\ IsResult(m) => m.id \notin silenced

LEMMA HudQueueTail ==
  ASSUME NEW q \in Seq(Messages), q # <<>>, HudQueue(q), NEW js
  PROVE  HudQueue(Tail(q)) /\ (Over(q, js) => Over(Tail(q), js))
<1> DEFINE t == Tail(q)
<1>1. \A i \in 1..Len(t) : i + 1 \in 1..Len(q) /\ t[i] = q[i + 1]
  BY TailIndex
<1>2. \A i, k \in 1..Len(t) : k + 1 <= i + 1 => k <= i
  OBVIOUS
<1> HIDE DEF t
<1>3. HudQueue(t)
  BY <1>1, <1>2 DEF HudQueue
<1>4. Over(q, js) => Over(t, js)
  BY <1>1 DEF Over
<1> QED
  BY <1>3, <1>4 DEF t

LEMMA HudQueueAppend ==
  ASSUME NEW q \in Seq(Messages), HudQueue(q), NEW m \in Messages, HudMessage(m),
         Shown(m) /\ m.id = attempt.id =>
           \A i \in 1..Len(q) : Concludes(q[i]) => q[i].id # attempt.id
  PROVE  HudQueue(Append(q, m))
<1> DEFINE a == Append(q, m)
<1>1. /\ Len(a) = Len(q) + 1 /\ Len(q) \in Nat
      /\ \A i \in 1..Len(a) : \/ i \in 1..Len(q) /\ a[i] = q[i]
                              \/ i = Len(q) + 1 /\ a[i] = m
  BY AppendIndex
<1>2. \A i \in 1..Len(a) : i <= Len(q) + 1
  BY <1>1
<1>3. Concludes(m) => IsResult(m)
  BY DEF Concludes, IsResult
<1> HIDE DEF a
<1>4. \A i, k \in 1..Len(a) :
        /\ Concludes(a[i]) /\ a[i].id = attempt.id
        /\ Shown(a[k]) /\ a[k].id = attempt.id
        => k <= i
  <2> SUFFICES ASSUME NEW i \in 1..Len(a), NEW k \in 1..Len(a),
                      Concludes(a[i]), a[i].id = attempt.id,
                      Shown(a[k]), a[k].id = attempt.id
               PROVE  k <= i
    OBVIOUS
  <2>1. CASE i = Len(q) + 1
    BY <1>2, <2>1
  <2>2. CASE i \in 1..Len(q) /\ a[i] = q[i]
    <3>1. ~(a[k] = m)
      BY <2>2
    <3>2. k \in 1..Len(q) /\ a[k] = q[k]
      BY <1>1, <3>1
    <3> QED
      BY <2>2, <3>2 DEF HudQueue
  <2> QED
    BY <1>1, <2>1, <2>2
<1>5. HudQueue(a)
  BY <1>1, <1>4 DEF HudQueue, HudMessage
<1> QED
  BY <1>5 DEF a

\* Steps that leave the HUD and the number of the attempt alone.
HudFrame ==
  /\ UNCHANGED <<hud, hideArmed, silenced>>
  /\ attempt'.id = attempt.id
  /\ attempt.invalidated => attempt'.invalidated
  /\ attempt.finalHandled => attempt'.finalHandled
  /\ session' \in {session, 0}
  /\ attempt'.finalHandled => session' = 0
  /\ recording' => recording

\* Such a step keeps the invariant if what it posts or starts for the current
\* attempt is still awaited.
LEMMA HudKept ==
  ASSUME SafetyInv, HudInv, HudFrame,
         NEW q, q = queue \/ (queue # <<>> /\ q = Tail(queue)),
         \/ queue' = q
         \/ \E m \in Messages :
              /\ queue' = Append(q, m)
              /\ HudMessage(m)
              /\ (Shown(m) \/ m.kind = "final") /\ m.id = attempt.id => Awaited,
         \A j \in jobs' : j.id = attempt.id => Awaited \/ \E k \in jobs : k.id = attempt.id
  PROVE  HudInv'
<1>1. queue \in Seq(Messages) /\ HudQueue(queue)
  BY CurrentFacts DEF HudInv
<1>2. /\ q \in Seq(Messages) /\ HudQueue(q)
      /\ Over(queue, jobs) => Over(q, jobs)
      /\ \A i \in 1..Len(q) : \E k \in 1..Len(queue) : q[i] = queue[k]
  <2>1. CASE q = queue
    BY <1>1, <2>1
  <2>2. CASE queue # <<>> /\ q = Tail(queue)
    <3>1. \A i \in 1..Len(q) : i + 1 \in 1..Len(queue) /\ q[i] = queue[i + 1]
      BY <1>1, <2>2, TailIndex
    <3> QED
      BY <1>1, <2>2, <3>1, HudQueueTail
  <2> QED
    BY <2>1, <2>2
<1>3. PICK q2 : q2 = queue'
  OBVIOUS
<1>4. HudQueue(q2)
  <2>1. CASE queue' = q
    BY <1>2, <1>3, <2>1
  <2>2. ASSUME NEW m \in Messages, queue' = Append(q, m), HudMessage(m),
               Shown(m) /\ m.id = attempt.id => Awaited
        PROVE  HudQueue(q2)
    <3>1. Awaited => \A i \in 1..Len(q) : Concludes(q[i]) => q[i].id # attempt.id
      BY <1>2 DEF Awaited
    <3> QED
      BY <1>2, <1>3, <2>2, <3>1, HudQueueAppend
  <2> QED
    BY <2>1, <2>2
<1>5. HudQueue(queue)'
  BY <1>3, <1>4 DEF HudFrame, HudQueue
<1>6. ASSUME Settled, ~attempt.invalidated PROVE Over(queue, jobs)'
  <2>1. ~Awaited
    BY <1>6 DEF Awaited
  <2>2. Over(q, jobs)
    BY <1>2, <1>6 DEF HudInv
  <2>3. \A j \in jobs' : j.id # attempt.id
    BY <2>1, <2>2 DEF Over
  <2>4. \A i \in 1..Len(q2) :
          \/ \E k \in 1..Len(q) : q2[i] = q[k]
          \/ q2[i].id # attempt.id
          \/ ~Shown(q2[i]) /\ q2[i].kind # "final"
    <3>1. CASE queue' = q
      BY <1>3, <3>1
    <3>2. ASSUME NEW m \in Messages, queue' = Append(q, m),
                 (Shown(m) \/ m.kind = "final") /\ m.id = attempt.id => Awaited
          PROVE  \A i \in 1..Len(q2) : \/ i \in 1..Len(q) /\ q2[i] = q[i]
                                       \/ q2[i] = m
      BY <1>2, <1>3, <3>2, AppendIndex
    <3> QED
      BY <2>1, <3>1, <3>2
  <2>5. \A i \in 1..Len(q2) : IsResult(q2[i]) => Shown(q2[i])
    BY DEF Shown
  <2>6. /\ session' = 0
        /\ \/ attempt'.finalHandled
           \/ \A i \in 1..Len(q2) : q2[i].kind = "final" => q2[i].id # attempt.id
        /\ \A i \in 1..Len(q2) : IsResult(q2[i]) => q2[i].id # attempt.id
        /\ ~(hideArmed /\ attempt.id \in silenced) =>
             \A i \in 1..Len(q2) : Shown(q2[i]) => q2[i].id # attempt.id
    BY <2>2, <2>4, <2>5 DEF Over, HudFrame
  <2> QED
    BY <1>3, <2>3, <2>6 DEF Over, HudFrame
<1>7. /\ Settled' => Settled
      /\ recording' => ~Settled'
  BY DEF Settled, HudFrame, HudInv
<1> QED
  BY <1>5, <1>6, <1>7 DEF HudInv, HudFrame

\* Who works for the current attempt is awaited: a running worker, a session
\* that is still installed, a thread, and a final that may be claimed.
LEMMA WorkIsAwaited ==
  ASSUME SafetyInv, HudInv
  PROVE  /\ session # 0 => Awaited
         /\ \A id \in Ids : provider[id] \in {"running", "posted"} => Awaited
         /\ (\E j \in jobs : j.id = attempt.id) => Awaited
         /\ /\ ~attempt.finalHandled /\ provider[attempt.id] # "none"
            /\ \/ recording
               \/ \E i \in 1..Len(queue) :
                    queue[i].kind = "final" /\ queue[i].id = attempt.id
            => Awaited
<1>1. \A i \in 1..Len(queue) :
        Concludes(queue[i]) /\ queue[i].id = attempt.id =>
          Marked /\ \A j \in jobs : j.id # attempt.id
  BY CurrentFacts DEF QueueInv, Concludes, IsResult
<1>2. Settled /\ ~attempt.invalidated => Over(queue, jobs) /\ ~recording
  BY DEF HudInv
<1>3. session # 0 => Awaited
  <2>1. session # 0 => ~attempt.finalHandled /\ provider[attempt.id] # "none"
    BY CurrentFacts DEF HudInv, SessionInv
  <2> QED
    BY <1>1, <1>2, <2>1 DEF Awaited, Over, Marked
<1>4. \A id \in Ids : provider[id] \in {"running", "posted"} => session # 0
  BY CurrentFacts, BoundsAssumption DEF SessionInv, NoOrphanSession, Ids
<1>5. (\E j \in jobs : j.id = attempt.id) => Awaited
  BY <1>1, <1>2 DEF Awaited, Over
<1>6. /\ ~attempt.finalHandled /\ provider[attempt.id] # "none"
      /\ \/ recording
         \/ \E i \in 1..Len(queue) :
              queue[i].kind = "final" /\ queue[i].id = attempt.id
      => Awaited
  BY <1>1, <1>2 DEF Awaited, Over, Marked
<1> QED
  BY <1>3, <1>4, <1>5, <1>6

LEMMA NoticeHarmless ==
  \A kind \in {"partial", "status", "captureError"} : \A id :
    /\ HudMessage(Notice(kind, id))
    /\ Notice(kind, id).id = id /\ Notice(kind, id).kind = kind
  BY DEF HudMessage, Notice, IsResult

LEMMA StartHud ==
  ASSUME SafetyInv, HudInv,
         \/ StartRecordingFails
         \/ \E config \in Configs : StartRecordingSession(config)
  PROVE  HudInv'
<1> PICK q, js : q = queue /\ js = jobs
  OBVIOUS
<1>1. /\ HudQueue(q) /\ QueueInv(q, js) /\ HistoryInv
      /\ \A i \in 1..Len(q) : q[i].id \in Ids
      /\ \A j \in js : j.id \in Ids
      /\ ~(0 \in Ids)
  BY CurrentFacts, BoundsAssumption DEF HudInv, Ids
<1>2. CASE StartRecordingFails
  <2>1. /\ attempt'.id = attempt.id
        /\ attempt.id = 0 \/ attempt'.invalidated
        /\ session' = 0 /\ hideArmed' = TRUE /\ ~recording
        /\ UNCHANGED <<recording, queue, jobs, silenced>>
    BY <1>2, CurrentFacts DEF StartRecordingFails, CancelActiveAsrAttempt, Attempts
  <2>2. HudQueue(q)'
    BY <1>1, <2>1 DEF HudQueue
  <2>3. attempt.id = 0 => Over(q, js)'
    BY <1>1, <2>1 DEF Over
  <2> QED
    BY <1>1, <2>1, <2>2, <2>3 DEF HudInv, HudQueue, Over, Settled
<1>3. ASSUME NEW config \in Configs, StartRecordingSession(config) PROVE HudInv'
  <2>1. /\ attempt'.id = seq + 1 /\ ~attempt'.finalHandled
        /\ hud' = "listening" /\ hideArmed' = FALSE
        /\ UNCHANGED <<queue, silenced>>
    BY <1>3 DEF StartRecordingSession, FreshAttempt
  <2>2. \A i \in 1..Len(q) : q[i].id # attempt'.id
    <3>1. seq \in Nat /\ attempt.id \in Nat /\ \A i \in 1..Len(q) : q[i].id \in Nat
      BY <1>1, CurrentFacts, BoundsAssumption DEF Ids
    <3> QED
      BY <1>1, <2>1, <3>1 DEF QueueInv, HistoryInv
  <2>3. HudQueue(q)'
    BY <1>1, <2>1, <2>2 DEF HudQueue
  <2> QED
    BY <2>1, <2>3 DEF HudInv, HudQueue, Settled
<1> QED
  BY <1>2, <1>3

\* A verdict ends the recording: nothing has been recognized of it yet.
LEMMA EndSilentlyHud ==
  ASSUME SafetyInv, HudInv, recording, UNCHANGED jobs,
         NEW a \in Attempts, a.id = attempt.id, NEW kill, EndSilently(a, kill),
         NEW q, queue' = q, q = queue \/ (queue # <<>> /\ q = Tail(queue))
  PROVE  HudInv'
<1>1. /\ recording' = FALSE /\ session' = 0 /\ hideArmed' = TRUE
      /\ silenced' = silenced \union {attempt.id}
      /\ attempt'.id = attempt.id
  BY MarkKeeps DEF EndSilently
<1>2. ~Marked /\ \A i \in 1..Len(queue) : Concludes(queue[i]) => IsResult(queue[i])
  BY CurrentFacts DEF SessionInv, Marked, Concludes, IsResult
<1>3. /\ \A i \in 1..Len(queue) : IsResult(queue[i]) => queue[i].id # attempt.id
      /\ \A j \in jobs : j.id # attempt.id
  BY <1>2, CurrentFacts DEF QueueInv, JobsInv
<1>4. \A i \in 1..Len(q) : \E k \in 1..Len(queue) : q[i] = queue[k]
  BY CurrentFacts, TailIndex
<1>5. HudQueue(q)'
  BY <1>1, <1>2, <1>3, <1>4 DEF HudInv, HudQueue
<1>6. attempt'.finalHandled
  BY MarkKeeps DEF EndSilently
<1>7. Over(q, jobs)'
  BY <1>1, <1>3, <1>4, <1>6, <1>2 DEF Over
<1> QED
  BY <1>1, <1>5, <1>7 DEF HudInv, HudQueue, Over

LEMMA CaptureFailureHud ==
  ASSUME SafetyInv, HudInv, recording, NEW q, FinishAudioCaptureFailure(q),
         q = queue \/ (queue # <<>> /\ q = Tail(queue))
  PROVE  HudInv'
<1> DEFINE completed == CompleteActiveAttemptRecording(attempt, "short")
           cancelled == CancelActiveAsrAttempt(completed, TRUE)
<1>1. completed \in Attempts /\ completed.id = attempt.id
  BY CurrentFacts, CompleteKeeps
<1> HIDE DEF completed
<1>2. cancelled \in Attempts /\ cancelled.id = attempt.id
  BY <1>1, CancelKeeps
<1>3. EndSilently(cancelled, TRUE) /\ queue' = q /\ UNCHANGED jobs
  BY DEF FinishAudioCaptureFailure, completed
<1> HIDE DEF cancelled
<1> QED
  BY <1>2, <1>3, EndSilentlyHud

LEMMA StopHud ==
  ASSUME SafetyInv, HudInv, StopStreaming \/ StopBatch
  PROVE  HudInv'
<1> PICK q : q = queue
  OBVIOUS
<1>1. /\ recording /\ recording' = FALSE /\ hud' = "recognizing"
      /\ UNCHANGED <<session, queue, hideArmed, silenced>>
      /\ attempt' = CompleteActiveAttemptRecording(attempt, "long")
  BY DEF StopStreaming, StopBatch
<1>2. ~Settled'
  BY <1>1 DEF HudInv, Settled
<1>3. attempt'.id = attempt.id /\ attempt'.finalHandled = attempt.finalHandled
  BY <1>1, CurrentFacts, CompleteKeeps
<1>4. HudQueue(q)'
  BY <1>1, <1>3 DEF HudInv, HudQueue
<1> QED
  BY <1>1, <1>2, <1>3, <1>4 DEF HudInv, HudQueue

LEMMA WorkerHud ==
  ASSUME SafetyInv, HudInv,
         \/ CaptureFails
         \/ \E id \in Ids : ProviderNotice(id) \/ ProviderFinal(id) \/ ProviderExits(id)
  PROVE  HudInv'
<1> PICK q : q = queue
  OBVIOUS
<1>1. UNCHANGED <<attempt, session, recording, jobs, hud, hideArmed, silenced>>
  BY DEF CaptureFails, ProviderNotice, PostNotice, ProviderFinal, ProviderExits
<1>2. HudFrame
  BY <1>1 DEF HudFrame, HudInv
<1>3. \A j \in jobs' : j.id = attempt.id => \E k \in jobs : k.id = attempt.id
  BY <1>1
<1>4. CASE CaptureFails
  <2> DEFINE m == Notice("captureError", attempt.id)
  <2>1. m \in Messages /\ HudMessage(m) /\ ~Shown(m) /\ m.kind # "final"
    <3>1. attempt.id \in Ids
      BY <1>4, CurrentFacts DEF CaptureFails, SafetyInv, TypeInv
    <3> QED
      BY <3>1, MessageTypes, NoticeHarmless DEF Shown, IsResult
  <2>2. queue' = Append(q, m)
    BY <1>4 DEF CaptureFails
  <2> QED
    BY <1>2, <1>3, <2>1, <2>2, HudKept
<1>5. ASSUME NEW id \in Ids, ProviderNotice(id) PROVE HudInv'
  <2>1. PICK kind \in {"partial", "status"} : queue' = Append(q, Notice(kind, id))
    BY <1>5 DEF ProviderNotice, PostNotice
  <2>2. Notice(kind, id) \in Messages /\ HudMessage(Notice(kind, id)) /\ Awaited
    BY <1>5, MessageTypes, NoticeHarmless, WorkIsAwaited DEF ProviderNotice
  <2> QED
    BY <1>2, <1>3, <2>1, <2>2, HudKept
<1>6. ASSUME NEW id \in Ids, ProviderFinal(id) PROVE HudInv'
  <2>1. PICK text \in PrimaryTexts(attempt.config) :
          queue' = Append(q, Final(id, text, FALSE))
    BY <1>6 DEF ProviderFinal
  <2>2. Final(id, text, FALSE) \in Messages
    BY MessageTypes DEF PrimaryTexts, Texts
  <2>3. HudMessage(Final(id, text, FALSE)) /\ Awaited
    BY <1>6, WorkIsAwaited DEF ProviderFinal, HudMessage, Final, IsResult
  <2> QED
    BY <1>2, <1>3, <2>1, <2>2, <2>3, HudKept
<1>7. ASSUME NEW id \in Ids, ProviderExits(id) PROVE HudInv'
  <2>1. queue' = q
    BY <1>7 DEF ProviderExits
  <2> QED
    BY <1>2, <1>3, <2>1, HudKept
<1> QED
  BY <1>4, <1>5, <1>6, <1>7

\* The result of a dispatch is for whom a thread or a final is awaited.
LEMMA DispatchHud ==
  ASSUME SafetyInv, HudInv, HudFrame,
         NEW q, q = queue \/ (queue # <<>> /\ q = Tail(queue)),
         NEW js, \A j \in js : j.id = attempt.id => \E k \in jobs : k.id = attempt.id,
         NEW id \in Ids, NEW text \in Texts, NEW bundled \in BOOLEAN,
         NEW allow \in BOOLEAN, NEW config \in Configs,
         DispatchAsrFinalText(id, text, bundled, allow, config, q, js),
         id \notin silenced, id = attempt.id => Awaited
  PROVE  HudInv'
<1> DEFINE refine == ShouldRunLlmRefine(config, text, bundled)
           result == [kind |-> "result", id |-> id, text |-> text,
                      refine |-> refine, allowCancelled |-> allow]
           job == Job("llm", "refine", id, config, allow)
<1>1. refine \in BOOLEAN /\ (refine => text \in UsableText)
  BY ConfigsAssumption DEF ShouldRunLlmRefine, PossibleConfigs
<1>2. result \in Messages /\ HudMessage(result) /\ result.id = id
  BY <1>1 DEF Messages, ResultMessages, HudMessage
<1>3. queue' = Append(q, result) /\ jobs' \subseteq js \union {job} /\ job.id = id
  BY DEF DispatchAsrFinalText, Job
<1> HIDE DEF result, job
<1>4. \A j \in jobs' : j.id = attempt.id =>
        Awaited \/ \E k \in jobs : k.id = attempt.id
  BY <1>3
<1> QED
  BY <1>2, <1>3, <1>4, HudKept

LEMMA FinalHud ==
  ASSUME SafetyInv, HudInv, NEW m \in FinalMessages, NEW a \in Attempts,
         NEW q, q = queue \/ (queue # <<>> /\ q = Tail(queue)),
         HandleAsrAttemptFinal(m, a, q),
         a.id = attempt.id, a.invalidated = attempt.invalidated,
         a.finalHandled = attempt.finalHandled,
         ~attempt.finalHandled /\ m.id = attempt.id => Awaited,
         UNCHANGED <<hud, hideArmed, silenced>>, recording' => recording
  PROVE  HudInv'
<1>1. CASE RejectFinal(m, a, q) \/ DeferFinal(m, a, q)
  <2>1. /\ queue' = q /\ UNCHANGED <<session, jobs>>
        /\ attempt' \in {a, [a EXCEPT !.deferred = m]}
    BY <1>1 DEF RejectFinal, DeferFinal
  <2>2. attempt'.id = a.id /\ attempt'.invalidated = a.invalidated
        /\ attempt'.finalHandled = a.finalHandled
    BY <2>1 DEF Attempts
  <2>3. HudFrame
    BY <2>1, <2>2 DEF HudFrame, HudInv
  <2>4. \A j \in jobs' : j.id = attempt.id => \E k \in jobs : k.id = attempt.id
    BY <2>1
  <2> QED
    BY <2>1, <2>3, <2>4, HudKept
<1>2. CASE ClaimFinal(m, a, q)
  <2> PICK js : js = jobs
    OBVIOUS
  <2> DEFINE claimed == [a EXCEPT !.finalHandled = TRUE, !.pcm = "none"]
  <2>1. m.id = attempt.id /\ ~attempt.finalHandled
    BY <1>2 DEF ClaimFinal, PrepareAttemptFinal, FinalRejected
  <2>2. /\ session' = 0
        /\ attempt' \in {claimed, [claimed EXCEPT !.fallbackStarted = TRUE]}
    BY <1>2 DEF ClaimFinal
  <2>3. attempt'.id = a.id /\ attempt'.invalidated = a.invalidated
        /\ attempt'.finalHandled
    BY <2>2 DEF Attempts
  <2>4. HudFrame /\ Awaited
    BY <2>1, <2>2, <2>3 DEF HudFrame
  <2>5. /\ m.id \in Ids /\ m.text \in Texts /\ m.allowCancelled \in BOOLEAN
        /\ a.config \in Configs
    BY DEF FinalMessages, Attempts
  <2>6. m.id \notin silenced
    BY <2>1, CurrentFacts DEF HistoryInv
  <2>7. \A j \in js : j.id = attempt.id => \E k \in jobs : k.id = attempt.id
    OBVIOUS
  <2>8. CASE DispatchAsrFinalText(m.id, m.text, m.text = "polished",
                                  m.allowCancelled, a.config, q, js)
    <3> DEFINE bundled == m.text = "polished"
    <3>1. bundled \in BOOLEAN
      OBVIOUS
    <3>2. DispatchAsrFinalText(m.id, m.text, bundled, m.allowCancelled,
                               a.config, q, js)
      BY <2>8
    <3> HIDE DEF bundled
    <3> QED
      BY <2>4, <2>5, <2>6, <2>7, <3>1, <3>2, DispatchHud
  <2>9. CASE \/ queue' = Append(q, Notice("status", m.id))
             \/ queue' = q
    <3>1. Notice("status", m.id) \in Messages /\ HudMessage(Notice("status", m.id))
      BY <2>5, MessageTypes, NoticeHarmless
    <3> QED
      BY <2>4, <2>9, <3>1, HudKept
  <2> QED
    BY <1>2, <2>8, <2>9 DEF ClaimFinal
<1> QED
  BY <1>1, <1>2 DEF HandleAsrAttemptFinal

LEMMA JobHud ==
  ASSUME SafetyInv, HudInv, NEW j \in jobs, JobStep(j) \/ JobNotice(j)
  PROVE  HudInv'
<1> PICK q, js : q = queue /\ js = jobs \ {j}
  OBVIOUS
<1>1. /\ j \in Jobs /\ j.id \in Ids /\ j.id \notin silenced
      /\ j.id = attempt.id => Awaited
  BY CurrentFacts, WorkIsAwaited DEF JobsInv
<1>2. UNCHANGED <<attempt, session, recording, hud, hideArmed, silenced>>
  BY DEF JobStep, JobNotice, PostNotice
<1>3. HudFrame
  BY <1>2 DEF HudFrame, HudInv
<1>4. Notice("status", j.id) \in Messages /\ HudMessage(Notice("status", j.id))
      /\ Notice("status", j.id).id = j.id
  BY <1>1, MessageTypes, NoticeHarmless
<1>5. ASSUME \/ jobs' = jobs
             \/ jobs' = js
             \/ \E k : k.id = j.id /\ jobs' = js \union {k},
             \/ queue' = q
             \/ \E m \in Messages :
                  queue' = Append(q, m) /\ HudMessage(m) /\ m.id = j.id
      PROVE  HudInv'
  <2>1. \A k \in jobs' : k.id = attempt.id =>
          Awaited \/ \E x \in jobs : x.id = attempt.id
    BY <1>1, <1>5
  <2> QED
    BY <1>1, <1>3, <1>5, <2>1, HudKept
<1>6. CASE JobNotice(j)
  <2>1. queue' = Append(q, Notice("status", j.id)) /\ jobs' = jobs
    BY <1>6 DEF JobNotice, PostNotice
  <2> QED
    BY <1>4, <1>5, <2>1
<1>7. \A text \in Texts :
        /\ [j EXCEPT !.step = "dispatch", !.text = text].id = j.id
        /\ [j EXCEPT !.step = "fallback"].id = j.id
  BY <1>1 DEF Jobs
<1>8. CASE JobStep(j)
  <2>1. CASE PrimaryBatchReturns(j)
    <3>1. PICK text \in {"plain", "noSpeech", "error"} :
            \/ jobs' = js /\ queue' = q
            \/ /\ jobs' = js \union {[j EXCEPT !.step = "fallback"]}
               /\ queue' = Append(q, Notice("status", j.id))
            \/ /\ jobs' = js \union {[j EXCEPT !.step = "dispatch", !.text = text]}
               /\ queue' = q
      BY <2>1 DEF PrimaryBatchReturns, DropJob, KeepJob
    <3>2. text \in Texts
      BY DEF Texts
    <3> QED
      BY <1>4, <1>5, <1>7, <3>1, <3>2
  <2>2. CASE FallbackStarts(j)
    <3>1. /\ queue' = q
          /\ jobs' \in {js, js \union {[j EXCEPT !.step = "fallback"]}}
      BY <2>2 DEF FallbackStarts, DropJob, KeepJob
    <3>2. "error" \in Texts
      BY DEF Texts
    <3> QED
      BY <1>5, <1>7, <3>1, <3>2
  <2>3. CASE FallbackReturns(j)
    <3>1. PICK text \in FallbackTexts(j.config) :
            /\ queue' = q
            /\ jobs' \in {js, js \union {[j EXCEPT !.step = "dispatch", !.text = text]}}
      BY <2>3 DEF FallbackReturns, DropJob, KeepJob
    <3>2. text \in Texts
      BY DEF FallbackTexts, Texts
    <3> QED
      BY <1>5, <1>7, <3>1, <3>2
  <2>4. CASE JobDispatches(j)
    <3> DEFINE bundled == j.kind = "fallback" /\ j.text = "polished"
    <3>1. /\ bundled \in BOOLEAN /\ j.text \in Texts /\ j.config \in Configs
          /\ j.allowCancelled \in BOOLEAN
      BY <1>1 DEF Jobs
    <3>2. DispatchAsrFinalText(j.id, j.text, bundled, j.allowCancelled,
                               j.config, q, js)
      BY <2>4 DEF JobDispatches
    <3>3. \A k \in js : k.id = attempt.id => \E x \in jobs : x.id = attempt.id
      OBVIOUS
    <3> HIDE DEF bundled
    <3> QED
      BY <1>1, <1>3, <3>1, <3>2, <3>3, DispatchHud
  <2>5. CASE LlmReturns(j)
    <3>1. PICK text \in {"plain", "error"} :
            queue' = Append(q, [kind |-> "llm", id |-> j.id, text |-> text,
                                allowCancelled |-> j.allowCancelled])
      BY <2>5 DEF LlmReturns
    <3> DEFINE m == [kind |-> "llm", id |-> j.id, text |-> text,
                     allowCancelled |-> j.allowCancelled]
    <3>2. j.allowCancelled \in BOOLEAN
      BY <1>1 DEF Jobs
    <3>3. m \in Messages /\ HudMessage(m) /\ m.id = j.id
      BY <1>1, <3>2 DEF Messages, LlmMessages, HudMessage
    <3>4. jobs' = js
      BY <2>5 DEF LlmReturns, DropJob
    <3> HIDE DEF m
    <3> QED
      BY <1>5, <3>1, <3>3, <3>4 DEF m
  <2> QED
    BY <1>8, <2>1, <2>2, <2>3, <2>4, <2>5 DEF JobStep
<1> QED
  BY <1>6, <1>8

LEMMA TimersHud ==
  ASSUME SafetyInv, HudInv, WatchdogFires \/ HideHud \/ Shutdown
  PROVE  HudInv'
<1> PICK q : q = queue
  OBVIOUS
<1>1. UNCHANGED jobs /\ recording' = recording
  BY DEF WatchdogFires, HideHud, Shutdown
<1>2. \A j \in jobs' : j.id = attempt.id => \E k \in jobs : k.id = attempt.id
  BY <1>1
<1>3. CASE WatchdogFires
  <2>1. /\ attempt' \in {attempt, CancelActiveAsrAttempt(attempt, FALSE)}
        /\ session' = 0 /\ UNCHANGED <<hud, hideArmed, silenced>>
    BY <1>3 DEF WatchdogFires
  <2>2. attempt'.id = attempt.id /\ attempt'.finalHandled = attempt.finalHandled
        /\ (attempt.invalidated => attempt'.invalidated)
    BY <2>1, CurrentFacts DEF CancelActiveAsrAttempt, Attempts
  <2>3. HudFrame
    BY <1>1, <2>1, <2>2 DEF HudFrame
  <2>4. CASE queue' = q
    BY <1>2, <2>3, <2>4, HudKept
  <2>5. CASE session # 0 /\ queue' = Append(q, TimeoutFinal(attempt.id))
    <3> DEFINE m == TimeoutFinal(attempt.id)
    <3>1. attempt.id \in Ids /\ "error" \in Texts
      BY <2>5, CurrentFacts DEF SessionInv, SafetyInv, TypeInv, TypeOK, Texts
    <3>2. m \in Messages
      BY <3>1, MessageTypes DEF TimeoutFinal
    <3>3. HudMessage(m) /\ Awaited
      BY <2>5, WorkIsAwaited DEF TimeoutFinal, HudMessage, Final, IsResult
    <3> HIDE DEF m
    <3> QED
      BY <1>2, <2>3, <2>5, <3>2, <3>3, HudKept DEF m
  <2> QED
    BY <1>3, <2>4, <2>5 DEF WatchdogFires
<1>4. CASE HideHud
  <2>1. /\ hideArmed /\ q = <<>> /\ ~hideArmed'
        /\ UNCHANGED <<attempt, session, queue, jobs, silenced>>
    BY <1>4 DEF HideHud
  <2>2. ~recording /\ HudQueue(q)
        /\ (attempt.invalidated \/ Over(q, jobs))
    BY <2>1 DEF HudInv, Settled
  <2>3. \A i \in 1..Len(queue') : FALSE
    <3>1. queue' = <<>> /\ Len(<<>>) = 0
      BY <2>1
    <3> QED
      BY <3>1
  <2>4. HudQueue(queue)'
    BY <2>3 DEF HudQueue
  <2>5. Over(q, jobs) => Over(queue, jobs)'
    BY <2>1, <2>3 DEF Over
  <2> QED
    BY <1>1, <2>1, <2>2, <2>4, <2>5 DEF HudInv
<1>5. CASE Shutdown
  <2> DEFINE c == CancelActiveAsrAttempt(attempt, TRUE)
  <2>1. /\ attempt' = MarkActiveAttemptFinalHandled(c)
        /\ session' = 0 /\ queue' = q /\ UNCHANGED <<hud, hideArmed, silenced>>
    BY <1>5 DEF Shutdown
  <2>2. c \in Attempts /\ c.id = attempt.id /\ (attempt.invalidated => c.invalidated)
    BY CurrentFacts, CancelType DEF CancelActiveAsrAttempt, Attempts
  <2> HIDE DEF c
  <2>3. attempt'.id = attempt.id /\ (attempt.invalidated => attempt'.invalidated)
        /\ attempt'.finalHandled
    BY <2>1, <2>2 DEF MarkActiveAttemptFinalHandled, Attempts
  <2>4. HudFrame
    BY <1>1, <2>1, <2>3 DEF HudFrame
  <2> QED
    BY <1>2, <2>1, <2>4, HudKept
<1> QED
  BY <1>3, <1>4, <1>5

\* A result that is accepted finds the HUD unsettled and the microphone off.
LEMMA AcceptedFacts ==
  ASSUME SafetyInv, HudInv, queue # <<>>, NEW m, m = Head(queue),
         m.id = attempt.id, ~attempt.invalidated, IsResult(m)
  PROVE  /\ ~Settled /\ ~recording
         /\ Concludes(m) => Over(Tail(queue), jobs)
<1> DEFINE q == Tail(queue)
<1>1. /\ 1 \in 1..Len(queue) /\ queue[1] = m
      /\ \A i \in 1..Len(q) :
           i + 1 \in 1..Len(queue) /\ q[i] = queue[i + 1] /\ ~(i + 1 <= 1)
  BY CurrentFacts, TailIndex
<1>2. Marked
  BY <1>1, CurrentFacts DEF QueueInv
<1>3. ~Settled
  BY <1>1 DEF HudInv, Over
<1>4. ~recording
  BY <1>2, CurrentFacts DEF SessionInv, Marked
<1> HIDE DEF q
<1>5. ASSUME Concludes(m) PROVE Over(q, jobs)
  <2>1. \A j \in jobs : j.id # attempt.id
    BY <1>1, <1>5, CurrentFacts DEF QueueInv
  <2>2. \A i \in 1..Len(q) : Shown(q[i]) => q[i].id # attempt.id
    BY <1>1, <1>5 DEF HudInv, HudQueue
  <2>3. \A i \in 1..Len(q) : IsResult(q[i]) => Shown(q[i])
    BY DEF Shown
  <2>4. session = 0
    BY <1>2, CurrentFacts DEF Marked, HudInv, SessionInv
  <2>5. \/ attempt.finalHandled
        \/ \A i \in 1..Len(q) : q[i].kind = "final" => q[i].id # attempt.id
    BY <1>1, <1>2, CurrentFacts DEF Marked, QueueInv
  <2> QED
    BY <2>1, <2>2, <2>3, <2>4, <2>5 DEF Over
<1> QED
  BY <1>3, <1>4, <1>5 DEF q

\* The message at the head of the queue changes what the HUD shows.
LEMMA ShowsHud ==
  ASSUME SafetyInv, HudInv, queue # <<>>, NEW m, m = Head(queue),
         m.id = attempt.id, ~attempt.invalidated,
         queue' = Tail(queue), hud' # "hidden",
         UNCHANGED <<attempt, session, recording, jobs, silenced>>,
         \/ /\ IsResult(m)
            /\ \/ (hideArmed' <=> hideArmed)
               \/ hideArmed' /\ Concludes(m)
         \/ m.kind \in {"partial", "status"} /\ (hideArmed' <=> hideArmed)
  PROVE  HudInv'
<1> PICK q : q = Tail(queue)
  OBVIOUS
<1>1. HudQueue(q) /\ (Over(queue, jobs) => Over(q, jobs))
  BY CurrentFacts, HudQueueTail DEF HudInv
<1>2. HudQueue(queue)'
  BY <1>1 DEF HudQueue
<1>3. Over(q, jobs) /\ (hideArmed => hideArmed') => Over(queue, jobs)'
  BY DEF Over
<1>4. CASE IsResult(m)
  <2>1. /\ ~Settled /\ ~recording
        /\ Concludes(m) => Over(q, jobs)
    BY <1>4, AcceptedFacts
  <2>2. CASE hideArmed' <=> hideArmed
    BY <1>2, <2>1, <2>2 DEF HudInv, Settled
  <2>3. CASE hideArmed' /\ Concludes(m)
    BY <1>2, <1>3, <2>1, <2>3 DEF HudInv, Settled
  <2> QED
    BY <1>4, <2>2, <2>3 DEF IsResult
<1>5. CASE m.kind \in {"partial", "status"} /\ (hideArmed' <=> hideArmed)
  <2>1. 1 \in 1..Len(queue) /\ queue[1] = m /\ Shown(m)
    BY <1>5, CurrentFacts DEF Shown
  <2>2. Settled => Over(queue, jobs) /\ hideArmed
    BY <2>1 DEF HudInv, Over
  <2>3. Settled' => Settled
    BY <1>5 DEF Settled
  <2>4. recording' => ~Settled'
    BY <2>3 DEF HudInv
  <2> QED
    BY <1>1, <1>2, <1>3, <1>5, <2>2, <2>3, <2>4 DEF HudInv
<1> QED
  BY <1>4, <1>5

LEMMA MessageHud ==
  ASSUME SafetyInv, TypeInv', HudInv, DispatchMessage
  PROVE  HudInv'
<1> PICK m, q : m = Head(queue) /\ q = Tail(queue)
  OBVIOUS
<1>1. queue # <<>> /\ m \in Messages /\ 1 \in 1..Len(queue) /\ queue[1] = m
  BY CurrentFacts DEF DispatchMessage
<1>2. \/ ReceiveFinal(m, q) \/ ReceiveResult(m, q) \/ ReceiveLlm(m, q)
      \/ ReceiveNotice(m, q) \/ ReceiveCaptureError(m, q)
  BY DEF DispatchMessage
<1>3. ASSUME queue' = q, hideArmed' <=> hideArmed,
             UNCHANGED <<attempt, session, recording, jobs, hud, silenced>>
      PROVE  HudInv'
  <2>1. HudFrame
    <3>1. UNCHANGED hideArmed
      BY <1>3 DEF SafetyInv, TypeInv, TypeOK
    <3> QED
      BY <1>3, <3>1 DEF HudFrame, HudInv
  <2>2. \A j \in jobs' : j.id = attempt.id => \E k \in jobs : k.id = attempt.id
    BY <1>3
  <2> QED
    BY <1>1, <1>3, <2>1, <2>2, HudKept
<1>4. CASE ReceiveFinal(m, q)
  <2>1. m \in FinalMessages
    BY <1>1, <1>4 DEF ReceiveFinal, Messages, ResultMessages, LlmMessages, Notices
  <2>2. ~attempt.finalHandled /\ m.id = attempt.id => Awaited
    BY <1>1, <1>4, CurrentFacts, WorkIsAwaited DEF ReceiveFinal, QueueInv
  <2>3. /\ HandleAsrAttemptFinal(m, attempt, q)
        /\ UNCHANGED <<hud, hideArmed, silenced>> /\ recording' = recording
    BY <1>4 DEF ReceiveFinal
  <2> QED
    BY <1>1, <2>1, <2>2, <2>3, CurrentFacts, FinalHud
<1>5. CASE ReceiveResult(m, q)
  <2>1. CASE IsActiveAsrAttempt(m.id, m.allowCancelled)
    <3>1. m.refine => m.text \in UsableText
      BY <1>1, <1>5 DEF ReceiveResult, HudInv, HudQueue
    <3>2. /\ queue' = q /\ hud' # "hidden"
          /\ UNCHANGED <<attempt, session, recording, jobs, silenced>>
          /\ m.refine => (hideArmed' <=> hideArmed)
          /\ ~m.refine => hideArmed'
      BY <1>5, <2>1, <3>1 DEF ReceiveResult
    <3>3. IsResult(m) /\ (~m.refine => Concludes(m))
      BY <1>5 DEF ReceiveResult, IsResult, Concludes
    <3>4. m.id = attempt.id /\ ~attempt.invalidated
      BY <2>1 DEF IsActiveAsrAttempt
    <3> QED
      BY <1>1, <3>2, <3>3, <3>4, ShowsHud
  <2>2. CASE ~IsActiveAsrAttempt(m.id, m.allowCancelled)
    BY <1>3, <1>5, <2>2 DEF ReceiveResult
  <2> QED
    BY <2>1, <2>2
<1>6. CASE ReceiveLlm(m, q)
  <2>1. CASE IsActiveAsrAttempt(m.id, m.allowCancelled)
    <3>1. /\ queue' = q /\ hud' # "hidden" /\ hideArmed'
          /\ UNCHANGED <<attempt, session, recording, jobs, silenced>>
      BY <1>6, <2>1 DEF ReceiveLlm
    <3>2. IsResult(m) /\ Concludes(m) /\ m.id = attempt.id /\ ~attempt.invalidated
      BY <1>6, <2>1 DEF ReceiveLlm, IsResult, Concludes, IsActiveAsrAttempt
    <3> QED
      BY <1>1, <3>1, <3>2, ShowsHud
  <2>2. CASE ~IsActiveAsrAttempt(m.id, m.allowCancelled)
    BY <1>3, <1>6, <2>2 DEF ReceiveLlm
  <2> QED
    BY <2>1, <2>2
<1>7. CASE ReceiveNotice(m, q)
  <2>1. CASE IsActiveAsrAttempt(m.id, m.kind = "status")
    BY <1>1, <1>7, <2>1, ShowsHud DEF ReceiveNotice, IsActiveAsrAttempt
  <2>2. CASE ~IsActiveAsrAttempt(m.id, m.kind = "status")
    BY <1>3, <1>7, <2>2 DEF ReceiveNotice
  <2> QED
    BY <2>1, <2>2
<1>8. CASE ReceiveCaptureError(m, q)
  <2>1. CASE recording /\ m.id = attempt.id
    BY <1>1, <1>8, <2>1, CaptureFailureHud DEF ReceiveCaptureError
  <2>2. CASE ~(recording /\ m.id = attempt.id)
    BY <1>3, <1>8, <2>2 DEF ReceiveCaptureError
  <2> QED
    BY <2>1, <2>2
<1> QED
  BY <1>2, <1>4, <1>5, <1>6, <1>7, <1>8

LEMMA HudInit == Init => HudInv
<1> SUFFICES ASSUME Init PROVE HudInv
  OBVIOUS
<1>1. PICK config \in Configs : attempt = FreshAttempt(0, config)
  BY DEF Init
<1>2. ~attempt.finalHandled /\ session = 0 /\ ~recording /\ jobs = {}
  BY <1>1 DEF Init, FreshAttempt
<1>3. \A i \in 1..Len(queue) : FALSE
  <2>1. queue = <<>> /\ Len(<<>>) = 0
    BY DEF Init
  <2> QED
    BY <2>1
<1>4. HudQueue(queue) /\ Over(queue, jobs)
  BY <1>2, <1>3 DEF HudQueue, Over
<1> QED
  BY <1>2, <1>4 DEF HudInv

LEMMA HudNext == SafetyInv /\ HudInv /\ [Next]_vars => HudInv'
<1> SUFFICES ASSUME SafetyInv, HudInv, [Next]_vars PROVE HudInv'
  OBVIOUS
<1>1. TypeInv'
  BY TypeNext DEF SafetyInv
<1>2. CASE StartRecordingFails \/ \E config \in Configs : StartRecordingSession(config)
  BY <1>2, StartHud
<1>3. CASE StopFailedCapture
  BY <1>3, CaptureFailureHud DEF StopFailedCapture
<1>4. CASE StopWithoutSpeech
  <2>1. PICK length \in {"short", "long"} :
          EndSilently(CompleteActiveAttemptRecording(attempt, length),
                      attempt.config.mode = "stream")
    BY <1>4 DEF StopWithoutSpeech
  <2>2. LET c == CompleteActiveAttemptRecording(attempt, length)
        IN  c \in Attempts /\ c.id = attempt.id
    BY CurrentFacts, CompleteKeeps
  <2> DEFINE kill == attempt.config.mode = "stream"
             completed == CompleteActiveAttemptRecording(attempt, length)
  <2>3. EndSilently(completed, kill) /\ completed \in Attempts /\ completed.id = attempt.id
    BY <2>1, <2>2
  <2>4. recording /\ UNCHANGED <<jobs, queue>>
    BY <1>4 DEF StopWithoutSpeech
  <2> HIDE DEF kill, completed
  <2> QED
    BY <2>3, <2>4, EndSilentlyHud
<1>5. CASE StopWithDeferredFinal
  <2> DEFINE completed == CompleteActiveAttemptRecording(attempt, "long")
  <2>1. attempt.deferred \in FinalMessages
    BY <1>5, CurrentFacts DEF StopWithDeferredFinal, Attempts
  <2>2. /\ completed \in Attempts /\ completed.id = attempt.id
        /\ completed.invalidated = attempt.invalidated
        /\ completed.finalHandled = attempt.finalHandled
    BY CurrentFacts, CompleteKeeps DEF CompleteActiveAttemptRecording, Attempts
  <2>3. Awaited
    BY <1>5, CurrentFacts, WorkIsAwaited DEF StopWithDeferredFinal
  <2>4. /\ HandleAsrAttemptFinal(attempt.deferred, completed, queue)
        /\ UNCHANGED <<hud, hideArmed, silenced>> /\ ~recording'
    BY <1>5 DEF StopWithDeferredFinal
  <2> HIDE DEF completed
  <2> QED
    BY <2>1, <2>2, <2>3, <2>4, FinalHud
<1>6. CASE StopStreaming \/ StopBatch
  BY <1>6, StopHud
<1>7. CASE \/ CaptureFails
           \/ \E id \in Ids : ProviderNotice(id) \/ ProviderFinal(id) \/ ProviderExits(id)
  BY <1>7, WorkerHud
<1>8. CASE \E j \in jobs : JobStep(j) \/ JobNotice(j)
  BY <1>8, JobHud
<1>9. CASE WatchdogFires \/ HideHud \/ Shutdown
  BY <1>9, TimersHud
<1>10. CASE DispatchMessage
  BY <1>1, <1>10, MessageHud
<1>11. CASE UNCHANGED vars
  BY <1>11
     DEF vars, HudInv, HudQueue, Over, Settled, Shown, Concludes, IsResult
<1> QED
  BY <1>2, <1>3, <1>4, <1>5, <1>6, <1>7, <1>8, <1>9, <1>10, <1>11 DEF Next

LEMMA HudCorrect == Spec => []HudInv
  BY SafetyCorrect, HudInit, HudNext, PTL DEF Spec

---------------------------------------------------------------------------
\* What a step shows to the user, in terms of AttemptDelivery.

\* A step that leaves alone what the user sees.
SameView ==
  /\ attempt'.id = attempt.id
  /\ UNCHANGED <<alive, recording, hud, hideArmed, pasted>>

\* A recording ends, one way or the other.
RecordingEnds ==
  /\ attempt'.id = attempt.id
  /\ recording /\ ~recording'
  /\ UNCHANGED <<alive, pasted>>

LEMMA SilentEnd ==
  ASSUME SafetyInv, recording, NEW a \in Attempts, a.id = attempt.id, NEW kill,
         EndSilently(a, kill), UNCHANGED <<alive, pasted>>
  PROVE  RecordingEnds
  BY MarkKeeps DEF EndSilently, RecordingEnds

LEMMA CaptureFailureEnd ==
  ASSUME SafetyInv, recording, NEW q, FinishAudioCaptureFailure(q)
  PROVE  RecordingEnds
<1> DEFINE completed == CompleteActiveAttemptRecording(attempt, "short")
           cancelled == CancelActiveAsrAttempt(completed, TRUE)
<1>1. completed \in Attempts /\ completed.id = attempt.id
  BY CurrentFacts, CompleteKeeps
<1> HIDE DEF completed
<1>2. cancelled \in Attempts /\ cancelled.id = attempt.id
  BY <1>1, CancelType
<1>3. EndSilently(cancelled, TRUE) /\ UNCHANGED <<alive, pasted>>
  BY DEF FinishAudioCaptureFailure, completed
<1> HIDE DEF cancelled
<1> QED
  BY <1>2, <1>3, SilentEnd

LEMMA FinalKeepsId ==
  ASSUME TypeInv, NEW m \in FinalMessages, NEW a \in Attempts,
         NEW q \in Seq(Messages), HandleAsrAttemptFinal(m, a, q)
  PROVE  attempt'.id = a.id
  BY HandleFinalType DEF TypeInv

LEMMA StopEnds ==
  ASSUME SafetyInv,
         \/ StopFailedCapture \/ StopWithoutSpeech \/ StopWithDeferredFinal
         \/ StopStreaming \/ StopBatch
  PROVE  RecordingEnds
<1>1. CASE StopFailedCapture
  BY <1>1, CaptureFailureEnd DEF StopFailedCapture
<1>2. CASE StopWithoutSpeech
  <2>1. PICK length \in {"short", "long"} :
          EndSilently(CompleteActiveAttemptRecording(attempt, length),
                      attempt.config.mode = "stream")
    BY <1>2 DEF StopWithoutSpeech
  <2> DEFINE completed == CompleteActiveAttemptRecording(attempt, length)
             kill == attempt.config.mode = "stream"
  <2>2. completed \in Attempts /\ completed.id = attempt.id
    BY CurrentFacts, CompleteKeeps
  <2>3. EndSilently(completed, kill) /\ recording /\ UNCHANGED <<alive, pasted>>
    BY <1>2, <2>1 DEF StopWithoutSpeech
  <2> HIDE DEF completed, kill
  <2> QED
    BY <2>2, <2>3, SilentEnd
<1>3. CASE StopWithDeferredFinal
  <2> DEFINE completed == CompleteActiveAttemptRecording(attempt, "long")
  <2>1. attempt.deferred \in FinalMessages
    BY <1>3, CurrentFacts DEF StopWithDeferredFinal, Attempts
  <2>2. completed \in Attempts /\ completed.id = attempt.id
    BY CurrentFacts, CompleteKeeps
  <2>3. /\ HandleAsrAttemptFinal(attempt.deferred, completed, queue)
        /\ recording /\ ~recording' /\ UNCHANGED <<alive, pasted>>
    BY <1>3 DEF StopWithDeferredFinal
  <2> HIDE DEF completed
  <2>4. attempt'.id = attempt.id
    BY <2>1, <2>2, <2>3, CurrentFacts, FinalKeepsId DEF SafetyInv
  <2> QED
    BY <2>3, <2>4 DEF RecordingEnds
<1>4. CASE StopStreaming \/ StopBatch
  BY <1>4, CurrentFacts, CompleteKeeps DEF StopStreaming, StopBatch, RecordingEnds
<1> QED
  BY <1>1, <1>2, <1>3, <1>4

\* How a stopped recording leaves the HUD: recognizing, or with a verdict.
LEMMA StopShows ==
  ASSUME SafetyInv, HudInv,
         \/ StopFailedCapture \/ StopWithoutSpeech \/ StopWithDeferredFinal
         \/ StopStreaming \/ StopBatch
  PROVE  hideArmed' \/ ~Settled'
<1>1. recording /\ ~Settled
  BY DEF HudInv, StopFailedCapture, StopWithoutSpeech, StopWithDeferredFinal,
     StopStreaming, StopBatch
<1> QED
  BY <1>1 DEF StopFailedCapture, StopWithoutSpeech, StopWithDeferredFinal,
     StopStreaming, StopBatch, FinishAudioCaptureFailure, EndSilently, Settled

LEMMA WorkersAreUnseen ==
  ASSUME SafetyInv,
         \/ CaptureFails
         \/ \E id \in Ids : ProviderNotice(id) \/ ProviderFinal(id) \/ ProviderExits(id)
         \/ \E j \in jobs : JobStep(j) \/ JobNotice(j)
  PROVE  SameView
  BY DEF CaptureFails, ProviderNotice, ProviderFinal, ProviderExits, JobStep,
     JobNotice, PostNotice, SameView

LEMMA WatchdogIsUnseen ==
  ASSUME SafetyInv, WatchdogFires
  PROVE  SameView
  BY CurrentFacts, CancelType DEF WatchdogFires, SameView

\* A message shows nothing, shows the progress of an attempt that is being
\* recognized, concludes it, or ends a recording whose microphone has failed.
Progresses ==
  /\ attempt'.id = attempt.id
  /\ hud' # "hidden"
  /\ UNCHANGED <<alive, recording, hideArmed, pasted>>

Finishes ==
  /\ attempt'.id = attempt.id
  /\ ~Settled /\ ~recording /\ hideArmed' /\ hud' # "hidden"
  /\ pasted' \in {pasted, Append(pasted, attempt.id)}
  /\ UNCHANGED <<alive, recording>>

LEMMA MessageView ==
  ASSUME SafetyInv, HudInv, DispatchMessage
  PROVE  \/ SameView
         \/ Progresses /\ (Settled => hideArmed /\ attempt.id \in silenced)
         \/ Finishes
         \/ RecordingEnds /\ hideArmed'
<1> PICK m, q : m = Head(queue) /\ q = Tail(queue)
  OBVIOUS
<1>1. /\ queue # <<>> /\ m \in Messages /\ 1 \in 1..Len(queue) /\ queue[1] = m
      /\ alive' = alive /\ q \in Seq(Messages)
  <2>1. queue # <<>>
    BY DEF DispatchMessage
  <2>2. m \in Messages /\ 1 \in 1..Len(queue) /\ queue[1] = m /\ q \in Seq(Messages)
    BY <2>1, CurrentFacts
  <2>3. alive' = alive
    BY DEF DispatchMessage, ReceiveFinal, ReceiveResult, ReceiveLlm,
       ReceiveNotice, ReceiveCaptureError, FinishAudioCaptureFailure
  <2> QED
    BY <2>1, <2>2, <2>3
<1>2. \/ ReceiveFinal(m, q) \/ ReceiveResult(m, q) \/ ReceiveLlm(m, q)
      \/ ReceiveNotice(m, q) \/ ReceiveCaptureError(m, q)
  BY DEF DispatchMessage
<1>3. TypeOK
  BY DEF SafetyInv, TypeInv
<1>4. CASE ReceiveFinal(m, q)
  <2>1. m \in FinalMessages
    BY <1>1, <1>4 DEF ReceiveFinal, Messages, ResultMessages, LlmMessages, Notices
  <2>2. attempt'.id = attempt.id
    BY <1>1, <1>4, <2>1, CurrentFacts, FinalKeepsId DEF ReceiveFinal, SafetyInv
  <2> QED
    BY <1>4, <2>2 DEF ReceiveFinal, SameView
<1>5. CASE ReceiveResult(m, q)
  <2>1. CASE ~IsActiveAsrAttempt(m.id, m.allowCancelled)
    BY <1>3, <1>5, <2>1 DEF ReceiveResult, SameView, TypeOK
  <2>2. CASE IsActiveAsrAttempt(m.id, m.allowCancelled)
    <3>1. m.id = attempt.id /\ ~attempt.invalidated /\ IsResult(m)
      BY <1>5, <2>2 DEF IsActiveAsrAttempt, ReceiveResult, IsResult
    <3>2. ~Settled /\ ~recording
      BY <1>1, <3>1, AcceptedFacts
    <3>3. CASE m.refine /\ m.text \in UsableText
      BY <1>1, <1>3, <1>5, <2>2, <3>2, <3>3 DEF ReceiveResult, Progresses, TypeOK
    <3>4. CASE ~(m.refine /\ m.text \in UsableText)
      BY <1>1, <1>5, <2>2, <3>1, <3>2, <3>4 DEF ReceiveResult, Finishes
    <3> QED
      BY <3>3, <3>4
  <2> QED
    BY <2>1, <2>2
<1>6. CASE ReceiveLlm(m, q)
  <2>1. CASE ~IsActiveAsrAttempt(m.id, m.allowCancelled)
    BY <1>3, <1>6, <2>1 DEF ReceiveLlm, SameView, TypeOK
  <2>2. CASE IsActiveAsrAttempt(m.id, m.allowCancelled)
    <3>1. m.id = attempt.id /\ ~attempt.invalidated /\ IsResult(m)
      BY <1>6, <2>2 DEF IsActiveAsrAttempt, ReceiveLlm, IsResult
    <3>2. ~Settled /\ ~recording
      BY <1>1, <3>1, AcceptedFacts
    <3> QED
      BY <1>1, <1>6, <2>2, <3>1, <3>2 DEF ReceiveLlm, Finishes
  <2> QED
    BY <2>1, <2>2
<1>7. CASE ReceiveNotice(m, q)
  <2>1. CASE ~IsActiveAsrAttempt(m.id, m.kind = "status")
    BY <1>7, <2>1 DEF ReceiveNotice, SameView
  <2>2. CASE IsActiveAsrAttempt(m.id, m.kind = "status")
    <3>1. m.id = attempt.id /\ ~attempt.invalidated /\ Shown(m)
      BY <1>7, <2>2 DEF IsActiveAsrAttempt, ReceiveNotice, Shown
    <3>2. Settled => hideArmed /\ attempt.id \in silenced
      BY <1>1, <3>1 DEF HudInv, Over
    <3> QED
      BY <1>1, <1>7, <2>2, <3>2 DEF ReceiveNotice, Progresses
  <2> QED
    BY <2>1, <2>2
<1>8. CASE ReceiveCaptureError(m, q)
  <2>1. CASE recording /\ m.id = attempt.id
    <3>1. FinishAudioCaptureFailure(q)
      BY <1>8, <2>1 DEF ReceiveCaptureError
    <3> QED
      BY <2>1, <3>1, CaptureFailureEnd DEF FinishAudioCaptureFailure, EndSilently
  <2>2. CASE ~(recording /\ m.id = attempt.id)
    BY <1>8, <2>2 DEF ReceiveCaptureError, SameView
  <2> QED
    BY <2>1, <2>2
<1> QED
  BY <1>2, <1>4, <1>5, <1>6, <1>7, <1>8

\* The HUD keeps a verdict until it hides or a recording starts: the
\* messages, timers and threads of the attempt that was concluded have no way
\* left to change what it shows.
THEOREM VerdictsStay == Spec => VerdictStaysUnlessSilenced
<1>1. SafetyInv /\ HudInv /\ [Next]_vars =>
        [Settled /\ hud' # hud =>
           hud' = "hidden" \/ seq' # seq \/ attempt.id \in silenced]_vars
  <2> SUFFICES ASSUME SafetyInv, HudInv, Next, Settled, hud' # hud,
                      hud' # "hidden", seq' = seq, attempt.id \notin silenced
               PROVE  FALSE
    OBVIOUS
  <2>1. ~recording
    BY DEF HudInv
  <2>2. CASE StartRecordingFails \/ \E config \in Configs : StartRecordingSession(config)
    <3>1. seq' = seq + 1
      BY <2>2 DEF StartRecordingFails, StartRecordingSession
    <3>2. seq \in Nat
      BY CurrentFacts, BoundsAssumption DEF Ids
    <3> QED
      BY <3>1, <3>2
  <2>3. CASE \/ StopFailedCapture \/ StopWithoutSpeech \/ StopWithDeferredFinal
             \/ StopStreaming \/ StopBatch
    BY <2>1, <2>3, StopEnds DEF RecordingEnds
  <2>4. CASE \/ CaptureFails
             \/ \E id \in Ids : ProviderNotice(id) \/ ProviderFinal(id) \/ ProviderExits(id)
             \/ \E j \in jobs : JobStep(j) \/ JobNotice(j)
    BY <2>4, WorkersAreUnseen DEF SameView
  <2>5. CASE WatchdogFires
    BY <2>5, WatchdogIsUnseen DEF SameView
  <2>6. CASE HideHud \/ Shutdown
    BY <2>6 DEF HideHud, Shutdown
  <2>7. CASE DispatchMessage
    BY <2>1, <2>7, MessageView DEF SameView, Finishes, RecordingEnds
  <2> QED
    BY <2>2, <2>3, <2>4, <2>5, <2>6, <2>7 DEF Next
<1> QED
  BY <1>1, SafetyCorrect, HudCorrect, PTL DEF Spec, VerdictStaysUnlessSilenced

---------------------------------------------------------------------------
\* The attempt as its user sees it.

LEMMA DeliveryInit == Init => AD!Init
<1> SUFFICES ASSUME Init PROVE AD!Init
  OBVIOUS
<1>1. PICK config \in Configs : attempt = FreshAttempt(0, config)
  BY DEF Init
<1> QED
  BY <1>1 DEF Init, FreshAttempt, AD!Init, Phase

LEMMA DeliveryStep ==
  ASSUME SafetyInv, HudInv, Next
  PROVE  AD!Next \/ UNCHANGED AD!vars
<1>1. CASE \E config \in Configs : StartRecordingSession(config)
  <2>1. PICK config \in Configs : StartRecordingSession(config)
    BY <1>1
  <2>2. /\ alive /\ ~recording /\ recording' /\ UNCHANGED <<alive, pasted>>
        /\ attempt' = FreshAttempt(seq + 1, config)
    BY <2>1 DEF StartRecordingSession
  <2>3. attempt'.id = seq + 1
    BY <2>2 DEF FreshAttempt
  <2>4. attempt'.id \in Nat /\ attempt'.id > attempt.id
    BY <2>3, CurrentFacts, BoundsAssumption DEF HistoryInv, Ids
  <2> QED
    BY <2>2, <2>4 DEF AD!Next, AD!Begin, Phase
<1>2. CASE StartRecordingFails
  <2>1. /\ alive /\ ~recording /\ hideArmed' /\ UNCHANGED <<alive, recording, pasted>>
        /\ attempt'.id = attempt.id
    BY <1>2, CurrentFacts, CancelType DEF StartRecordingFails
  <2> QED
    BY <2>1 DEF AD!Next, AD!GiveUp, AD!vars, Phase
<1>3. CASE \/ StopFailedCapture \/ StopWithoutSpeech \/ StopWithDeferredFinal
           \/ StopStreaming \/ StopBatch
  <2>1. RecordingEnds /\ (hideArmed' \/ ~Settled')
    BY <1>3, StopEnds, StopShows
  <2>2. alive
    BY <1>3 DEF StopFailedCapture, StopWithoutSpeech, StopWithDeferredFinal,
       StopStreaming, StopBatch
  <2> QED
    BY <2>1, <2>2
       DEF RecordingEnds, Settled, AD!Next, AD!Stop, AD!GiveUp, Phase
<1>4. ASSUME SameView PROVE UNCHANGED AD!vars
  BY <1>4 DEF SameView, AD!vars, Phase
<1>5. CASE \/ CaptureFails
           \/ \E id \in Ids : ProviderNotice(id) \/ ProviderFinal(id) \/ ProviderExits(id)
           \/ \E j \in jobs : JobStep(j) \/ JobNotice(j)
  BY <1>4, <1>5, WorkersAreUnseen
<1>6. CASE WatchdogFires
  BY <1>4, <1>6, WatchdogIsUnseen
<1>7. CASE HideHud
  <2>1. ~recording
    BY <1>7 DEF HideHud, HudInv, Settled
  <2> QED
    BY <1>7, <2>1 DEF HideHud, AD!vars, Phase
<1>8. CASE DispatchMessage
  <2>1. alive
    BY <1>8 DEF DispatchMessage
  <2>2. CASE Progresses /\ (Settled => hideArmed /\ attempt.id \in silenced)
    BY <2>1, <2>2 DEF Progresses, Settled, AD!vars, Phase
  <2>3. CASE Finishes
    BY <2>1, <2>3 DEF Finishes, Settled, AD!Next, AD!Deliver, AD!GiveUp, Phase
  <2>4. CASE RecordingEnds /\ hideArmed'
    BY <2>1, <2>4 DEF RecordingEnds, AD!Next, AD!GiveUp, Phase
  <2> QED
    BY <1>4, <1>8, <2>2, <2>3, <2>4, MessageView
<1>9. CASE Shutdown
  <2> DEFINE cancelled == CancelActiveAsrAttempt(attempt, TRUE)
  <2>1. cancelled \in Attempts /\ cancelled.id = attempt.id
    BY CurrentFacts, CancelType
  <2>2. attempt' = MarkActiveAttemptFinalHandled(cancelled)
    BY <1>9 DEF Shutdown
  <2> HIDE DEF cancelled
  <2>3. attempt'.id = attempt.id
    BY <2>1, <2>2, MarkType
  <2>4. alive /\ ~alive' /\ UNCHANGED <<recording, hud, hideArmed, pasted>>
    BY <1>9 DEF Shutdown
  <2> QED
    BY <2>3, <2>4 DEF AD!Next, AD!GiveUp, AD!vars, Phase
<1> QED
  BY <1>1, <1>2, <1>3, <1>5, <1>6, <1>7, <1>8, <1>9 DEF Next

\* Providers, watchdog, fallback and refinement together deliver what
\* AttemptDelivery promises the user: a stopped recording is pasted at most
\* once, while it is the current one and is shown as being recognized, and
\* nothing is pasted while the microphone records.
THEOREM AttemptsAreDelivered == Spec => DeliversAttempts
<1>1. Init => AD!Init
  BY DeliveryInit
<1>2. SafetyInv /\ HudInv /\ [Next]_vars => [AD!Next]_AD!vars
  <2>1. ASSUME SafetyInv, HudInv, Next
        PROVE  AD!Next \/ UNCHANGED AD!vars
    BY <2>1, DeliveryStep
  <2>2. ASSUME UNCHANGED vars
        PROVE  UNCHANGED AD!vars
    BY <2>2 DEF vars, AD!vars, Phase
  <2> QED
    BY <2>1, <2>2
<1> QED
  BY <1>1, <1>2, SafetyCorrect, HudCorrect, PTL DEF Spec, DeliversAttempts, AD!Spec
=============================================================================
