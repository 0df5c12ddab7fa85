---------------------------- MODULE QwenSession ----------------------------
(***************************************************************************)
(* The streaming session of Qwen ASR (realtime): a worker that connects,   *)
(* sends and finishes, a receiver thread, and up to three replays of the   *)
(* recording when the first attempt failed or brought no text.             *)
(*                                                                         *)
(* net.replaying tells the two attempts of the worker apart; the client of *)
(* either is the one Abort() reaches through activeClient_.                *)
(***************************************************************************)
EXTENDS SessionBase, WebSocketLink

InitNet ==
  \E key \in BOOLEAN :
    net = [provider |-> "qwen", key |-> key, link |-> NoLink, tries |-> 0,
           replaying |-> FALSE, late |-> 0, input |-> TRUE, drain |-> "off",
           drainStop |-> FALSE, reason |-> "none", drainFailed |-> FALSE,
           completed |-> FALSE, finished |-> FALSE, text |-> NoText,
           failed |-> FALSE, transport |-> FALSE]

Init == InitBase /\ InitNet

Start == StartAt(IF net.key THEN "try" ELSE "waitStop")

Fail(n) == [n EXCEPT !.failed = TRUE]

\* Every failure of the first attempt after it was connected asks for a replay.
FailAndReplay == work' = [work EXCEPT !.recover = TRUE]

(***************************************************************************)
(* Connecting: two attempts at first, three for a replay.                  *)
(***************************************************************************)

MaxTries == IF net.replaying THEN 3 ELSE 2

\* Mutant: the loop does not look whether the session was aborted.
TryAlthoughAborted ==
  /\ pc = "try"
  /\ net.tries < MaxTries
  /\ net' = [net EXCEPT !.tries = @ + 1, !.link = FreshLink]
  /\ pc' = "link"
  /\ UNCHANGED <<app, audio, work, finals>>

\* The loop condition, then a client that Abort() can reach.
Try ==
  /\ pc = "try"
  /\ ~app.aborted
  /\ net.tries < MaxTries
  /\ net' = [net EXCEPT !.tries = @ + 1, !.link = FreshLink]
  /\ work' = IF net.replaying THEN [work EXCEPT !.retries = @ + 1] ELSE work
  /\ pc' = "link"
  /\ UNCHANGED <<app, audio, finals>>

\* Connect() begins: from here on an abort cancels it.
Connect ==
  /\ pc = "link"
  /\ net' = [net EXCEPT !.link = Connecting(@),
                        !.late = IF app.aborted THEN @ + 1 ELSE @]
  /\ pc' = "connecting"
  /\ UNCHANGED <<app, audio, work, finals>>

ConnectOk ==
  /\ pc = "connecting"
  /\ net.link.state = "connecting"
  /\ net' = [net EXCEPT !.link = Connected(@),
                        !.drain = IF net.replaying THEN @ ELSE "on"]
  /\ pc' = IF net.replaying THEN "replaySend" ELSE "send"
  /\ UNCHANGED <<app, audio, work, finals>>

\* A refused session and some HTTP statuses are final, the rest is tried again.
ConnectFailed ==
  /\ pc = "connecting"
  /\ \E retryable \in BOOLEAN :
       /\ retryable \/ net.link.state = "connecting"
       /\ net' = [net EXCEPT !.link = NoLink, !.transport = TRUE,
                             !.tries = IF retryable THEN @ ELSE MaxTries]
  /\ pc' = "try"
  /\ UNCHANGED <<app, audio, work, finals>>

NoMoreTries == pc = "try" /\ (app.aborted \/ net.tries >= MaxTries)

NotConnected ==
  /\ NoMoreTries
  /\ ~net.replaying
  /\ pc' = "waitStop"
  /\ UNCHANGED <<app, audio, net, work, finals>>

\* No API key, or no connection: the error waits for the end of the recording.
WaitForRecordingStop ==
  /\ pc = "waitStop"
  /\ ~Streaming
  /\ Conclude(PrimaryUnlessAborted, "error", NoText)
  /\ UNCHANGED <<app, audio, net, finals>>

(***************************************************************************)
(* The send loop: take all pending PCM, look whether the input is still    *)
(* open, send the full chunks.                                             *)
(***************************************************************************)

\* Mutant: what came in last is put in front.
SwapPendingInFront(a) == [a EXCEPT !.chunk = a.pending \o @, !.pending = <<>>]

SwapPending(a) == [a EXCEPT !.chunk = @ \o a.pending, !.pending = <<>>]

TakePending ==
  /\ pc = "send"
  /\ IF app.aborted \/ net.drainFailed
     THEN pc' = "sent" /\ audio' = audio
     ELSE pc' = "sample" /\ audio' = SwapPending(audio)
  /\ UNCHANGED <<app, net, work, finals>>

SampleInput ==
  /\ pc = "sample"
  /\ net' = [net EXCEPT !.input = Streaming]
  /\ pc' = "flush"
  /\ UNCHANGED <<app, audio, work, finals>>

\* sendChunk: first into the replay buffer, then to the service; a chunk that
\* could not be sent stays where it is.
SendFront(n, next, failedAt) ==
  LET front == SubSeq(audio.chunk, 1, n)
  IN  \E s \in Sends(net.link, front, FALSE) :
        IF s.ok
        THEN /\ audio' = [Keep(audio, front) EXCEPT
                            !.chunk = SubSeq(@, n + 1, Len(@))]
             /\ net' = [net EXCEPT !.link = s.link]
             /\ work' = work
             /\ pc' = next
        ELSE /\ audio' = Keep(audio, front)
             /\ net' = Fail([net EXCEPT !.link = s.link])
             /\ FailAndReplay
             /\ pc' = failedAt

FlushFullChunk ==
  /\ pc = "flush"
  /\ Len(audio.chunk) >= ChunkUnits
  /\ SendFront(ChunkUnits, "flush", "sent")
  /\ UNCHANGED <<app, finals>>

\* All full chunks are out; an overflow of the pending buffer is a failure.
Flushed ==
  /\ pc = "flush"
  /\ Len(audio.chunk) < ChunkUnits
  /\ pc' = IF audio.overflowed \/ ~net.input THEN "sent" ELSE "send"
  /\ IF audio.overflowed THEN net' = Fail(net) /\ FailAndReplay
     ELSE UNCHANGED <<net, work>>
  /\ UNCHANGED <<app, audio, finals>>

\* The loop is left: an abort ends it all, a receiver that failed counts.
LoopLeft ==
  /\ pc = "sent"
  /\ LET failed == net.failed \/ net.drainFailed
     IN  /\ net' = [net EXCEPT !.failed = failed]
         /\ work' = [work EXCEPT !.recover = @ \/ net.drainFailed]
         /\ pc' = IF app.aborted THEN "quit"
                  ELSE IF failed /\ Streaming THEN "buffer" ELSE "rest"
  /\ UNCHANGED <<app, audio, finals>>

\* bufferUntilStop.
Buffer ==
  /\ pc = "buffer"
  /\ IF Streaming
     THEN /\ audio' = KeepPending(audio)
          /\ pc' = IF audio.overflowed THEN "rest" ELSE pc
     ELSE pc' = "rest" /\ audio' = audio
  /\ UNCHANGED <<app, net, work, finals>>

\* What is still pending is sent, or after a failure thrown away.
TakeRest ==
  /\ pc = "rest"
  /\ IF net.failed
     THEN /\ audio' = [audio EXCEPT !.pending = <<>>, !.overflowed = FALSE]
          /\ pc' = "quit"
     ELSE audio' = SwapPending(audio) /\ pc' = "last"
  /\ UNCHANGED <<app, net, work, finals>>

\* The full chunks of the rest, and then the last, shorter one.
SendRest ==
  /\ pc = "last"
  /\ audio.chunk # <<>>
  /\ SendFront(Smaller(ChunkUnits, Len(audio.chunk)), "last", "quit")
  /\ UNCHANGED <<app, finals>>

(***************************************************************************)
(* The end of the first attempt.                                           *)
(***************************************************************************)

\* commit and session.finish, unless Abort() came.
SendFinish ==
  /\ pc = "last"
  /\ audio.chunk = <<>>
  /\ IF app.aborted THEN pc' = "quit" /\ UNCHANGED <<net, work>>
     ELSE \E s \in Sends(net.link, <<>>, TRUE) :
            IF s.ok THEN /\ net' = [net EXCEPT !.link = s.link]
                         /\ pc' = "final"
                         /\ work' = work
            ELSE /\ net' = Fail([net EXCEPT !.link = s.link])
                 /\ FailAndReplay
                 /\ pc' = "quit"
  /\ UNCHANGED <<app, audio, finals>>

\* CanRecoverRealtime.
CanRecover(reason) ==
  /\ net.completed
  /\ ~net.finished
  /\ net.text # NoText
  /\ reason \in {"timeout", "peerClosed"}

AwaitFinish ==
  /\ pc = "final"
  /\ app.aborted \/ net.finished
  /\ pc' = "quit"
  /\ UNCHANGED <<app, audio, net, work, finals>>

\* Mutant: the wait for session.finished has no deadline.
FinishFailedWithoutDeadline ==
  /\ pc = "final"
  /\ ~app.aborted /\ ~net.finished /\ net.drainFailed
  /\ net' = [net EXCEPT !.failed = ~CanRecover(net.reason)]
  /\ work' = [work EXCEPT !.recover = ~CanRecover(net.reason)]
  /\ pc' = "quit"
  /\ UNCHANGED <<app, audio, finals>>

\* The receiver failed, or the deadline passed, before session.finished.
FinishFailed ==
  /\ pc = "final"
  /\ ~app.aborted
  /\ ~net.finished
  /\ \E reason \in {net.reason} \cup {"timeout"} :
       /\ reason = "timeout" \/ net.drainFailed
       /\ net' = [net EXCEPT !.reason = reason, !.failed = ~CanRecover(reason)]
       /\ work' = [work EXCEPT !.recover = ~CanRecover(reason)]
  /\ pc' = "quit"
  /\ UNCHANGED <<app, audio, finals>>

\* stopDrain: the receiver is told; a session that did not finish is cut off.
StopDrain ==
  /\ pc = "quit"
  /\ net' = [net EXCEPT !.drainStop = TRUE,
                        !.link = IF net.failed \/ app.aborted \/ ~net.finished
                                 THEN Aborted(@) ELSE @]
  /\ pc' = "join"
  /\ UNCHANGED <<app, audio, work, finals>>

\* Enough for a second look: three seconds of audio without text, or a failure.
ReplayWanted ==
  /\ audio.kept
  /\ IF net.failed THEN work.recover /\ audio.replay # <<>>
     ELSE net.text = NoText /\ Len(audio.replay) >= ShortUnits

DrainJoined ==
  /\ pc = "join"
  /\ net.drain = "done"
  /\ net' = [net EXCEPT !.link = Shut(@), !.tries = 0, !.transport = FALSE,
                        !.replaying = ~app.aborted /\ ReplayWanted]
  /\ work' = PrimaryUnlessAborted
  /\ pc' = IF app.aborted THEN "stop"
           ELSE IF ReplayWanted THEN "try" ELSE "verdict"
  /\ UNCHANGED <<app, audio, finals>>

(***************************************************************************)
(* RetryRecognitionOnce.                                                   *)
(***************************************************************************)

\* The replay in chunks, oldest first; an abort or a failure ends the attempt.
ReplaySend ==
  LET done == Len(net.link.got)
      upTo == Smaller(done + ChunkUnits, Len(audio.replay))
      last == done = Len(audio.replay)
  IN  /\ pc = "replaySend"
      /\ \E s \in Sends(net.link, SubSeq(audio.replay, done + 1, upTo), last) :
           IF app.aborted \/ ~s.ok
           THEN /\ net' = [net EXCEPT !.link = NoLink, !.transport = TRUE]
                /\ pc' = "try"
           ELSE /\ net' = [net EXCEPT !.link = s.link]
                /\ pc' = IF last THEN "replayFinal" ELSE "replaySend"
      /\ UNCHANGED <<app, audio, work, finals>>

\* Finish(): everything but session.finished starts the next attempt.
ReplayFailed ==
  /\ pc = "replayFinal"
  /\ net' = [net EXCEPT !.link = NoLink, !.transport = TRUE]
  /\ pc' = "try"
  /\ UNCHANGED <<app, audio, work, finals>>

\* An empty result clears a failure only when there is no text to keep.
ReplayFinished ==
  /\ pc = "replayFinal"
  /\ net.link.state = "up"
  /\ \E text \in {NoText, net.link.got} :
       net' = [net EXCEPT !.link = Shut(@),
                 !.text = IF text # NoText THEN text ELSE @,
                 !.failed = IF text = NoText /\ net.text # NoText THEN @ ELSE FALSE]
  /\ pc' = "verdict"
  /\ UNCHANGED <<app, audio, work, finals>>

ReplayGivenUp ==
  /\ NoMoreTries
  /\ net.replaying
  /\ pc' = "verdict"
  /\ UNCHANGED <<app, audio, net, work, finals>>

Decide ==
  /\ pc = "verdict"
  /\ Conclude(work,
              IF net.failed THEN "error"
              ELSE IF net.text = NoText THEN "noSpeech" ELSE "text",
              IF net.failed THEN NoText ELSE net.text)
  /\ UNCHANGED <<app, audio, net, finals>>

(***************************************************************************)
(* The receiver thread.                                                    *)
(***************************************************************************)

DrainQuits ==
  /\ net.drain = "on"
  /\ net.drainStop \/ app.aborted
  /\ net' = [net EXCEPT !.drain = "done"]
  /\ UNCHANGED <<app, audio, pc, work, finals>>

\* A failed poll or a closed connection that nobody here asked for.
DrainFails ==
  /\ net.drain = "on"
  /\ ~net.drainStop /\ ~app.aborted
  /\ \E reason \in {"transport", "provider", "peerClosed"} :
       /\ reason = "transport" \/ net.link.state = "up"
       /\ net' = [net EXCEPT !.drain = "done", !.drainFailed = TRUE,
                             !.reason = reason]
  /\ UNCHANGED <<app, audio, pc, work, finals>>

\* The transcript, after the commit; a later one would replace it.
DrainCompleted ==
  /\ net.drain = "on"
  /\ net.link.state = "up" /\ net.link.ended /\ ~net.link.told
  /\ \E text \in {NoText, net.link.got} :
       net' = [net EXCEPT !.completed = TRUE, !.text = text, !.link.told = TRUE]
  /\ UNCHANGED <<app, audio, pc, work, finals>>

DrainFinished ==
  /\ net.drain = "on"
  /\ net.link.state = "up" /\ net.link.ended
  /\ net' = [net EXCEPT !.finished = TRUE, !.drain = "done"]
  /\ UNCHANGED <<app, audio, pc, work, finals>>

Abort == AbortWith([net EXCEPT !.link = Aborted(@)])

Worker ==
  \/ Try \/ Connect \/ ConnectOk \/ ConnectFailed \/ NotConnected
  \/ WaitForRecordingStop
  \/ TakePending \/ SampleInput \/ FlushFullChunk \/ Flushed \/ LoopLeft
  \/ Buffer \/ TakeRest \/ SendRest \/ SendFinish \/ AwaitFinish \/ FinishFailed
  \/ StopDrain \/ DrainJoined
  \/ ReplaySend \/ ReplayFailed \/ ReplayFinished \/ ReplayGivenUp \/ Decide

Drain == DrainQuits \/ DrainFails \/ DrainCompleted \/ DrainFinished

\* What the receiver does by itself: every poll has a timeout.
DrainLeaves == DrainQuits

Next == Start \/ Abort \/ Worker \/ Drain \/ BaseNext
=============================================================================
