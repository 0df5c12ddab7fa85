------------------------ MODULE RecognitionSessions ------------------------
(***************************************************************************)
(* The five streaming sessions side by side: whichever provider the user   *)
(* chose, the application holds an IStreamingAsrSession and expects the    *)
(* same of it.  A behaviour is one session of one provider.                *)
(***************************************************************************)
EXTENDS SessionBase

Volcengine == INSTANCE VolcengineSession
Qwen == INSTANCE QwenSession
QwenAudio == INSTANCE QwenAudioSession
Doubao == INSTANCE DoubaoSession
QwenFree == INSTANCE QwenFreeSession

Init ==
  \/ Volcengine!Init
  \/ Qwen!Init
  \/ QwenAudio!Init
  \/ Doubao!Init
  \/ QwenFree!Init

Provider(name) == net.provider = name

Next ==
  \/ Provider("volc") /\ Volcengine!Next
  \/ Provider("qwen") /\ Qwen!Next
  \/ Provider("qwenAudio") /\ QwenAudio!Next
  \/ Provider("doubao") /\ Doubao!Next
  \/ Provider("qwenFree") /\ QwenFree!Next

Worker ==
  \/ Provider("volc") /\ Volcengine!Worker
  \/ Provider("qwen") /\ Qwen!Worker
  \/ Provider("qwenAudio") /\ QwenAudio!Worker
  \/ Provider("doubao") /\ Doubao!Worker
  \/ Provider("qwenFree") /\ QwenFree!Worker
  \/ Dispatch
  \/ Stopped

ReceiverLeaves ==
  \/ Provider("volc") /\ Volcengine!DrainLeaves
  \/ Provider("qwen") /\ Qwen!DrainLeaves
  \/ Provider("qwenAudio") /\ QwenAudio!DrainLeaves
  \/ Provider("doubao") /\ Doubao!DrainLeaves
  \/ Provider("qwenFree") /\ QwenFree!DrainLeaves

LeaveFrames == Provider("qwenFree") /\ QwenFree!LeaveFrames

Spec == Init /\ [][Next]_vars

\* The worker runs on, and a receiver that is told to leave does; what it hears
\* is up to the service, which owes it nothing, and neither do the user and the
\* microphone.
Fairness ==
  /\ WF_vars(Worker)
  /\ WF_vars(ReceiverLeaves)
  /\ WF_vars(LeaveFrames)

FairSpec == Spec /\ Fairness

(***************************************************************************)
(* Properties.                                                             *)
(***************************************************************************)

\* Every provider's session behaves as IStreamingAsrSession promises: at most
\* one final, a text only after StopInput(), an end without a final only after
\* Abort(), and nothing once it has ended.
ImplementsSession == Interface!Spec

\* The connections a session has sent PCM to.  The replays of Doubao and of
\* Qwen Audio are no part of it: a chunk whose send failed stays in the chunk
\* buffer although the replay buffer has it, and is appended once more.
Heard ==
  IF Provider("volc") THEN {net.main.got, net.retry.got}
  ELSE IF net.provider \in {"doubao", "qwenAudio"} /\ net.replaying THEN {}
  ELSE {net.link.got}

\* While the user speaks, the service of each provider hears every unit of the
\* microphone at most once and in order, wherever the first attempt fails; and so
\* does the second service in a replay of Volcengine, Qwen or Qwen Free.  The tail
\* and the rest left in a chunk are not sent twice or swapped.  The replays of
\* Doubao and Qwen Audio are excepted: they can repeat or swap a chunk.
HeardInOrder == \A got \in Heard : Increasing(got)

\* A service is told that the recording is over only when it has heard all of
\* it: every unit the session accepted, up to the last one before StopInput(),
\* or in a replay every unit of the replay buffer, which may itself lack one
\* (qwen_free_streaming_session.cpp:620).  A last packet or finish message that
\* overtook the tail would cut the end off the transcript.
EndedMeansAll ==
  IF Provider("volc")
  THEN /\ net.main.ended => net.main.got = app.taken
       /\ net.retry.ended => net.retry.got = audio.replay
  ELSE net.link.ended /\ net.link.state = "up"
         => net.link.got = IF net.replaying THEN audio.replay ELSE app.taken

\* With Qwen, Qwen Audio, Doubao and Qwen Free an abort that comes between two
\* checks lets one more connection open, no more: the worker is joined by the
\* application's thread.  Volcengine is not part of this: its OpenSession() is one
\* step of the model, and looks at the flag again once Abort() can close the
\* request it is about to send (volcengine_asr.h:766).
AbortBoundsConnects == ~Provider("volc") => net.late <= 1

\* The replay buffer of Volcengine, from which an empty recognition is repeated,
\* holds the whole recording the session has accepted, also when the connection
\* was lost in a send and the rest was buffered until the stop (CHANGELOG.md:439:
\* "Buffered audio is appended to replayPcm for the retry attempt, preventing
\* audio data loss").
ReplayIsComplete ==
  Provider("volc") /\ work.retries > 0 => audio.replay = app.taken

\* A stopped or aborted session comes to its end, so that the application,
\* which joins it, is not blocked for good; if it has handed out a final, the
\* diagnostic stage of its first attempt is not left open.
SessionEnds ==
  (app.mic = "stopped" \/ app.aborted)
    ~> /\ app.mic # "idle" /\ ~app.running
       /\ finals # <<>> => work.primary = "done"

\* CHANGELOG.md:117 and :131 promise that the empty final of Qwen Free cannot be
\* hidden by an older partial: a text is only handed out when the final that
\* ended the recognition had one.
EmptyFinalIsNotHidden ==
  Provider("qwenFree") =>
    \A i \in 1..Len(finals) : finals[i].kind = "text" => net.terminal = "text"
=============================================================================
