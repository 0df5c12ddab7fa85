-------------------------- MODULE QwenFreeSession --------------------------
(***************************************************************************)
(* The streaming session of Qwen IME (Free): the worker alone owns the     *)
(* session's state and pumps a queue of frames between its sends; the      *)
(* receiver thread only fills that queue.  A final is accepted once the    *)
(* recording has stopped; one replay follows a failure or a silence.       *)
(*                                                                         *)
(* Abort() sets a flag of the client that stays set: whatever operation    *)
(* starts later is refused, so no abort is missed.                         *)
(***************************************************************************)
EXTENDS SessionBase, WebSocketLink

MaxTries == 2
FramesMax == 1  \* bound: frames between the two threads (the code keeps 128)

InitNet ==
  net = [provider |-> "qwenFree", link |-> NoLink, tries |-> 0, late |-> 0,
         replaying |-> FALSE, recv |-> "off", recvStop |-> FALSE,
         frames |-> <<>>, allow |-> FALSE, tail |-> FALSE, partial |-> NoText,
         terminal |-> "none", retryable |-> TRUE, emitted |-> FALSE,
         back |-> "quit"]

Init == InitBase /\ InitNet

Start == StartAt("prepare")

\* The device identity and the signer, or an error at the end.
Prepare ==
  /\ pc = "prepare"
  /\ IF app.aborted THEN pc' = "quit" ELSE pc' \in {"try", "waitStop"}
  /\ UNCHANGED <<app, audio, net, work, finals>>

(***************************************************************************)
(* ConnectProtocolWithRetry: two attempts.                                 *)
(***************************************************************************)

Try ==
  /\ pc = "try"
  /\ ~app.aborted
  /\ net.tries < MaxTries
  /\ net' = [net EXCEPT !.tries = @ + 1, !.link = FreshLink]
  /\ pc' = "link"
  /\ UNCHANGED <<app, audio, work, finals>>

\* Connect() refuses to start once the session is cancelled.
ResetCancellation ==
  /\ pc = "link"
  /\ pc' = IF app.aborted THEN "try" ELSE "open"
  /\ UNCHANGED <<app, audio, net, work, finals>>

Open ==
  /\ pc = "open"
  /\ net' = [net EXCEPT !.link = Connecting(@),
                        !.late = IF app.aborted THEN @ + 1 ELSE @]
  /\ pc' = "connecting"
  /\ UNCHANGED <<app, audio, work, finals>>

\* The upgrade and SendStart are done, nobody cancelled: StartReceiver.
ConnectOk ==
  /\ pc = "connecting"
  /\ net.link.state = "connecting"
  /\ ~app.aborted
  /\ net' = [net EXCEPT !.link = Connected(@), !.recv = "on", !.recvStop = FALSE]
  /\ pc' = IF net.replaying THEN "replaySend" ELSE "loop"
  /\ UNCHANGED <<app, audio, work, finals>>

\* Only what ShouldRetryConnect lets pass is tried again.
ConnectFailed ==
  /\ pc = "connecting"
  /\ \E retryable \in BOOLEAN :
       net' = [net EXCEPT !.link = NoLink, !.tries = IF retryable THEN @ ELSE MaxTries]
  /\ pc' = "try"
  /\ UNCHANGED <<app, audio, work, finals>>

NoMoreTries == pc = "try" /\ (app.aborted \/ net.tries >= MaxTries)

NotConnected ==
  /\ NoMoreTries
  /\ ~net.replaying
  /\ pc' = "waitStop"
  /\ UNCHANGED <<app, audio, net, work, finals>>

\* The verdict goes to EmitFinal, and the worker then goes on at net.back.
Claim(w, kind, text) ==
  /\ work' = [w EXCEPT !.verdict = kind, !.text = text]
  /\ pc' = "claim"

WaitForRecordingStop ==
  /\ pc = "waitStop"
  /\ ~Streaming
  /\ IF app.aborted THEN pc' = "quit" /\ work' = work
     ELSE Claim(Primary(work), "error", NoText)
  /\ UNCHANGED <<app, audio, net, finals>>

(***************************************************************************)
(* ProcessReceivedFrames, called from seven places of the worker.          *)
(***************************************************************************)

NextPc ==
  [frames |-> "drain", chunkFrames |-> "sendChunk",
   drainedFrames |-> IF app.mic = "stopped" THEN "drain" ELSE "loop",
   tailFrames |-> "sendStop", finalFrames |-> "finalFrames",
   replayFrames |-> "replaySend", replayFinalFrames |-> "replayFinalFrames"]

\* Where finalReceived_ leads to.
TerminalPc ==
  [frames |-> "terminal", chunkFrames |-> "drained", drainedFrames |-> "terminal",
   tailFrames |-> "terminal", finalFrames |-> "terminal",
   replayFrames |-> "replayOver", replayFinalFrames |-> "replayOver"]

FramePcs == DOMAIN NextPc

\* The chunk DrainAndSendPcm holds is gone when it returns early.
ReturnFromFrames(place, terminal) ==
  /\ pc' = IF terminal THEN TerminalPc[place] ELSE NextPc[place]
  /\ audio' = IF place = "chunkFrames" /\ terminal
              THEN [audio EXCEPT !.chunk = <<>>] ELSE audio

HasFrame == pc \in FramePcs /\ net.frames # <<>> /\ ~app.aborted
Frame == Head(net.frames)
FrameText == IF Frame.text = NoText THEN net.partial ELSE Frame.text
FrameTaken == [net EXCEPT !.frames = Tail(@)]
FinalCounts == Frame.kind = "final" /\ net.allow /\ app.mic = "stopped"

\* A partial result, or a final that does not count yet.
TakePartial ==
  /\ HasFrame
  /\ Frame.kind = "partial" \/ (Frame.kind = "final" /\ ~FinalCounts)
  /\ net' = [FrameTaken EXCEPT !.partial = FrameText]
  /\ UNCHANGED <<app, audio, pc, work, finals>>

\* The final of the recording: dispatched at once, if there is any text.
TakeFinal ==
  /\ HasFrame
  /\ FinalCounts
  /\ LET dispatched == ~net.replaying /\ FrameText # NoText
     IN  /\ net' = [FrameTaken EXCEPT
                      !.partial = FrameText,
                      !.terminal = IF Frame.text = NoText THEN "empty" ELSE "text",
                      !.back = IF dispatched THEN TerminalPc[pc] ELSE @]
         /\ IF dispatched
            THEN /\ Claim(Primary(work), "text", FrameText)
                 /\ audio' = [audio EXCEPT !.chunk = <<>>]
            ELSE /\ work' = Primary(work)
                 /\ ReturnFromFrames(pc, TRUE)
  /\ UNCHANGED <<app, finals>>

\* An error of the service, or the connection is closed.
TakeFailure ==
  /\ HasFrame
  /\ Frame.kind \in {"failed", "refused"}
  /\ net' = [FrameTaken EXCEPT !.terminal = "failed",
                               !.retryable = Frame.kind = "failed"]
  /\ work' = Primary(work)
  /\ ReturnFromFrames(pc, TRUE)
  /\ UNCHANGED <<app, finals>>

\* A call handles four frames at most, so some may be left when it returns.
\* The two loops that await the final stay where they are.
NoMoreFrames ==
  /\ pc \in FramePcs
  /\ pc \notin {"finalFrames", "replayFinalFrames"}
  /\ ReturnFromFrames(pc, net.terminal # "none")
  /\ net' = [net EXCEPT !.tail = @ \/ (pc = "drainedFrames" /\ app.mic = "stopped"
                                       /\ net.terminal = "none")]
  /\ UNCHANGED <<app, work, finals>>

(***************************************************************************)
(* Phase 1: pump frames, drain and send.                                   *)
(***************************************************************************)

PumpAt(place, allow, link) ==
  /\ pc' = place
  /\ net' = [net EXCEPT !.allow = allow, !.link = link]

FramesAt(place, allow) == PumpAt(place, allow, net.link)

Recording == app.mic = "open"

Loop ==
  /\ pc = "loop"
  /\ IF app.aborted THEN pc' = "quit" /\ net' = net ELSE FramesAt("frames", Recording)
  /\ UNCHANGED <<app, audio, work, finals>>

GiveUpSending(state) ==
  /\ net' = [state EXCEPT !.retryable = TRUE]
  /\ pc' = IF app.aborted THEN "quit" ELSE "recover"

\* DrainAndSendPcm: an overflow is a failure, a chunk waits for the frames.
DrainPcm ==
  /\ pc = "drain"
  /\ IF audio.overflowed THEN GiveUpSending(net) /\ audio' = audio
     ELSE IF audio.pending = <<>>
     THEN pc' = "drained" /\ UNCHANGED <<audio, net>>
     ELSE audio' = DrainToChunk(audio) /\ FramesAt("chunkFrames", Recording)
  /\ UNCHANGED <<app, work, finals>>

SendChunk ==
  /\ pc = "sendChunk"
  /\ audio' = [Keep(audio, audio.chunk) EXCEPT !.chunk = <<>>]
  /\ \E s \in Sends(net.link, audio.chunk, FALSE) :
       IF s.ok /\ ~app.aborted
       THEN net' = [net EXCEPT !.link = s.link] /\ pc' = "drain"
       ELSE GiveUpSending([net EXCEPT !.link = s.link])
  /\ UNCHANGED <<app, work, finals>>

\* Mutant: SendStop follows the first drain that finds the recording stopped.
DrainedOnce ==
  /\ pc = "drained"
  /\ IF app.mic = "stopped" THEN FramesAt("tailFrames", FALSE)
     ELSE FramesAt("drainedFrames", Recording)
  /\ UNCHANGED <<app, audio, work, finals>>

Drained ==
  /\ pc = "drained"
  /\ IF net.tail THEN FramesAt("tailFrames", FALSE)
     ELSE FramesAt("drainedFrames", Recording)
  /\ UNCHANGED <<app, audio, work, finals>>

\* The recording is drained: SendStop, then phase 2.
SendStop ==
  /\ pc = "sendStop"
  /\ \E s \in Sends(net.link, <<>>, TRUE) :
       IF s.ok /\ ~app.aborted
       THEN PumpAt("finalFrames", TRUE, s.link)
       ELSE GiveUpSending([net EXCEPT !.link = s.link])
  /\ UNCHANGED <<app, audio, work, finals>>

FinalTimedOut ==
  /\ pc = "finalFrames"
  /\ GiveUpSending(net)
  /\ UNCHANGED <<app, audio, work, finals>>

(***************************************************************************)
(* HandleTerminalOutcome and what it leads to.                             *)
(***************************************************************************)

HandleTerminalOutcome ==
  /\ pc = "terminal"
  /\ pc' = IF net.terminal = "failed" THEN "recover"
           ELSE IF net.emitted THEN "quit" ELSE "buffer"
  /\ UNCHANGED <<app, audio, net, work, finals>>

\* RecoverAndFinalize starts with the end of the primary stage.
Recover ==
  /\ pc = "recover"
  /\ work' = [Primary(work) EXCEPT !.recover = TRUE]
  /\ pc' = "buffer"
  /\ UNCHANGED <<app, audio, net, finals>>

\* BufferUntilStopped.
BufferPending(a) ==
  LET kept == KeepPending(a) IN [kept EXCEPT !.kept = @ /\ ~a.overflowed]

Buffer ==
  /\ pc = "buffer"
  /\ audio' = BufferPending(audio)
  /\ pc' = IF Streaming THEN pc ELSE IF app.aborted THEN "quit" ELSE "decide"
  /\ UNCHANGED <<app, net, work, finals>>

ReplayPossible == audio.kept /\ audio.replay # <<>>

\* A silence is replayed when it was long, a failure when it may pass.
ReplayWanted ==
  IF work.recover THEN net.retryable /\ ReplayPossible
  ELSE audio.kept /\ Len(audio.replay) >= ShortUnits

Decide ==
  /\ pc = "decide"
  /\ IF ReplayWanted
     THEN /\ net' = [net EXCEPT !.replaying = TRUE, !.recvStop = TRUE, !.tries = 0,
                       !.link = Shut(@), !.terminal = "none", !.partial = NoText]
          /\ work' = [work EXCEPT !.retries = @ + 1]
          /\ pc' = "replayJoin"
     ELSE /\ net' = [net EXCEPT !.back = "quit"]
          /\ Claim(work, IF work.recover THEN "error" ELSE "noSpeech", NoText)
  /\ UNCHANGED <<app, audio, finals>>

(***************************************************************************)
(* TryReplayRecognition.                                                   *)
(***************************************************************************)

ReplayReceiverJoined ==
  /\ pc = "replayJoin"
  /\ net.recv = "done"
  /\ net' = [net EXCEPT !.frames = <<>>]
  /\ pc' = "try"
  /\ UNCHANGED <<app, audio, work, finals>>

ReplayNotConnected ==
  /\ NoMoreTries
  /\ net.replaying
  /\ pc' = "replayOver"
  /\ UNCHANGED <<app, audio, net, work, finals>>

\* The replay in chunks, the frames looked at in between, then SendStop.
ReplaySend ==
  LET done == Len(net.link.got)
      upTo == Smaller(done + ChunkUnits, Len(audio.replay))
      last == done = Len(audio.replay)
  IN  /\ pc = "replaySend"
      /\ \E s \in Sends(net.link, SubSeq(audio.replay, done + 1, upTo), last) :
           IF app.aborted \/ ~s.ok
           THEN net' = [net EXCEPT !.link = s.link] /\ pc' = "replayOver"
           ELSE PumpAt(IF last THEN "replayFinalFrames" ELSE "replayFrames",
                       last, s.link)
      /\ UNCHANGED <<app, audio, work, finals>>

ReplayTimedOut ==
  /\ pc = "replayFinalFrames"
  /\ pc' = "replayOver"
  /\ UNCHANGED <<app, audio, net, work, finals>>

\* ReplayOutcomeIsUsable, or a clean empty final, or an error.
ReplayOver ==
  /\ pc = "replayOver"
  /\ net' = [net EXCEPT !.back = "quit"]
  /\ Claim(work,
           CASE net.terminal = "text" -> "text"
             [] net.terminal = "empty" -> "noSpeech"
             [] OTHER -> "error",
           IF net.terminal = "text" THEN net.partial ELSE NoText)
  /\ UNCHANGED <<app, audio, finals>>

(***************************************************************************)
(* FinalizeWithLlm and EmitFinal.                                          *)
(***************************************************************************)

\* Mutant: the slot of the final is not claimed.
PostProcessUnclaimed ==
  /\ pc = "claim"
  /\ pc' = IF app.aborted THEN net.back ELSE "emit"
  /\ UNCHANGED <<app, audio, net, work, finals>>

\* The rewrite of a selection may fail: then the instruction is no result.
PostProcess ==
  /\ pc = "claim"
  /\ IF app.aborted \/ net.emitted
     THEN pc' = net.back /\ UNCHANGED <<net, work>>
     ELSE /\ net' = [net EXCEPT !.emitted = TRUE]
          /\ \/ work' = work
             \/ work.verdict = "text" /\ work' = [work EXCEPT !.verdict = "error",
                                                              !.text = NoText]
          /\ pc' = "emit"
  /\ UNCHANGED <<app, audio, finals>>

\* The second look at abort_ comes after the slot was claimed.
EmitFinal ==
  /\ pc = "emit"
  /\ pc' = IF app.aborted THEN net.back ELSE "post"
  /\ UNCHANGED <<app, audio, net, work, finals>>

PostFinal ==
  /\ pc = "post"
  /\ finals' = Append(finals, [kind |-> work.verdict, text |-> work.text])
  /\ pc' = net.back
  /\ UNCHANGED <<app, audio, net, work>>

\* finish(): StopReceiver.
StopReceiver ==
  /\ pc = "quit"
  /\ net' = [net EXCEPT !.recvStop = TRUE, !.link = Shut(@)]
  /\ pc' = "join"
  /\ UNCHANGED <<app, audio, work, finals>>

ReceiverJoined ==
  /\ pc = "join"
  /\ net.recv # "on"
  /\ net' = [net EXCEPT !.frames = <<>>]
  /\ pc' = "stop"
  /\ UNCHANGED <<app, audio, work, finals>>

(***************************************************************************)
(* The receiver thread.                                                    *)
(***************************************************************************)

Receiving == net.recv = "on" /\ ~net.recvStop /\ ~app.aborted

ReceiverQuits ==
  /\ net.recv = "on"
  /\ net.recvStop \/ app.aborted
  /\ net' = [net EXCEPT !.recv = "done"]
  /\ UNCHANGED <<app, audio, pc, work, finals>>

\* Partial results, finals of segments, and the final of the recording.
ReceiveText ==
  /\ Receiving
  /\ net.link.state = "up"
  /\ ~net.link.told
  /\ Len(net.frames) < FramesMax
  /\ \E kind \in {"partial", "final"}, text \in {NoText, net.link.got} :
       net' = [net EXCEPT
                 !.frames = Append(@, [kind |-> kind, text |-> text]),
                 !.link.told = kind = "final" /\ net.link.ended]
  /\ UNCHANGED <<app, audio, pc, work, finals>>

\* Error and Closed end the thread; "refused" is what a replay cannot repair.
ReceiveFailure ==
  /\ Receiving
  /\ \E kind \in {"failed", "refused"} :
       net' = [net EXCEPT !.frames = Append(@, [kind |-> kind, text |-> NoText]),
                          !.recv = "done"]
  /\ UNCHANGED <<app, audio, pc, work, finals>>

Abort == AbortWith([net EXCEPT !.recvStop = TRUE, !.link = Aborted(@)])

Worker ==
  \/ Prepare \/ Try \/ ResetCancellation \/ Open \/ ConnectOk \/ ConnectFailed
  \/ NotConnected \/ WaitForRecordingStop
  \/ TakePartial \/ TakeFinal \/ TakeFailure \/ NoMoreFrames
  \/ Loop \/ DrainPcm \/ SendChunk \/ Drained \/ SendStop \/ FinalTimedOut
  \/ HandleTerminalOutcome \/ Recover \/ Buffer \/ Decide
  \/ ReplayReceiverJoined \/ ReplayNotConnected \/ ReplaySend \/ ReplayTimedOut
  \/ ReplayOver \/ PostProcess \/ EmitFinal \/ PostFinal
  \/ StopReceiver \/ ReceiverJoined

\* However many frames come, the worker leaves their queue alone in the end:
\* a call takes four, and the two waits for a final have a deadline.
LeaveFrames == NoMoreFrames \/ FinalTimedOut \/ ReplayTimedOut

Drain == ReceiverQuits \/ ReceiveText \/ ReceiveFailure

\* What the receiver does by itself: every receive has a timeout.
DrainLeaves == ReceiverQuits

Next == Start \/ Abort \/ Worker \/ Drain \/ BaseNext
=============================================================================
