-------------------------- MODULE QwenAudioSession --------------------------
(***************************************************************************)
(* The streaming session of Qwen Audio 3: a task on a WebSocket, a worker, *)
(* a receiver thread per attempt, and one replay of the recording when the *)
(* task failed or brought no text.                                         *)
(*                                                                         *)
(* The worker reads the flags of the receiver several times on its way out *)
(* of the send loop; every read is a step of its own.                      *)
(***************************************************************************)
EXTENDS SessionBase, WebSocketLink

InitNet ==
  \E key \in BOOLEAN :
    net = [provider |-> "qwenAudio", key |-> key, link |-> NoLink, tries |-> 0,
           retryable |-> TRUE, late |-> 0, keep |-> FALSE, drain |-> "off",
           drainStop |-> FALSE, drainFailed |-> FALSE, reason |-> "none",
           taskFinished |-> FALSE, noSpeech |-> FALSE, text |-> NoText,
           committed |-> NoText, failed |-> FALSE, finishSent |-> FALSE,
           replaying |-> FALSE]

Init == InitBase /\ InitNet

Start == StartAt(IF net.key THEN "try" ELSE "buffer")

SwapPending(a) == [a EXCEPT !.chunk = @ \o a.pending, !.pending = <<>>]

(***************************************************************************)
(* Connecting: two attempts at first, one for the replay.                  *)
(***************************************************************************)

\* The receiver's findings before an attempt.
NothingHeard(n) ==
  [n EXCEPT !.drainStop = FALSE, !.drainFailed = FALSE, !.taskFinished = FALSE]

\* SetActiveClient: a new client, or an idle one whose transport is still up.
Try ==
  /\ pc = "try"
  /\ ~app.aborted
  /\ net.tries < 2
  /\ net.retryable
  /\ net' = [net EXCEPT !.tries = @ + 1, !.link = FreshLink]
  /\ pc' = "link"
  /\ UNCHANGED <<app, audio, work, finals>>

\* Client::Connect clears the cancellation: from here on an abort cancels it.
Connect ==
  /\ pc = "link"
  /\ net' = [net EXCEPT !.link = Connecting(@),
                        !.late = IF app.aborted THEN @ + 1 ELSE @]
  /\ pc' = "connecting"
  /\ UNCHANGED <<app, audio, work, finals>>

\* task-started arrived; the receiver thread of this attempt begins.
ConnectOk ==
  /\ pc = "connecting"
  /\ net.link.state = "connecting"
  /\ net' = [NothingHeard(net) EXCEPT
               !.link = Connected(@), !.drain = "on",
               !.text = IF net.replaying THEN NoText ELSE @,
               !.failed = FALSE]
  /\ pc' = IF net.replaying THEN "replaySend" ELSE "send"
  /\ UNCHANGED <<app, audio, work, finals>>

\* A refused task and some HTTP statuses are final, the rest is tried again.
ConnectFailed ==
  /\ pc = "connecting"
  /\ \E retryable \in BOOLEAN :
       /\ retryable \/ net.link.state = "connecting"
       /\ net' = [net EXCEPT !.link = NoLink,
                    !.retryable = IF net.replaying THEN @ ELSE retryable]
  /\ pc' = IF net.replaying THEN "replayFailed" ELSE "try"
  /\ UNCHANGED <<app, audio, work, finals>>

\* No connection: the recording goes into the replay buffer.
NotConnected ==
  /\ pc = "try"
  /\ app.aborted \/ net.tries = 2 \/ ~net.retryable
  /\ net' = [net EXCEPT !.keep = net.retryable, !.failed = TRUE]
  /\ pc' = "buffer"
  /\ UNCHANGED <<app, audio, work, finals>>

(***************************************************************************)
(* The send loop.                                                          *)
(***************************************************************************)

TakePending ==
  /\ pc = "send"
  /\ IF app.aborted \/ net.drainFailed
     THEN pc' = "left" /\ UNCHANGED <<audio, net, work>>
     ELSE /\ audio' = SwapPending(audio)
          /\ net' = [net EXCEPT !.failed = audio.overflowed]
          /\ work' = work
          /\ pc' = IF audio.overflowed THEN "left" ELSE "flush"
  /\ UNCHANGED <<app, finals>>

\* sendChunk: to the service, then into the replay buffer whether it was sent
\* or not; a chunk that could not be sent also stays in the chunk.
SendFront(n, next, failedAt) ==
  LET front == SubSeq(audio.chunk, 1, n)
      kept  == Keep(audio, front)
  IN  \E s \in Sends(net.link, front, FALSE) :
        IF s.ok
        THEN /\ audio' = [kept EXCEPT !.chunk = SubSeq(@, n + 1, Len(@))]
             /\ net' = [net EXCEPT !.link = s.link]
             /\ work' = work
             /\ pc' = next
        ELSE /\ audio' = kept
             /\ net' = [net EXCEPT !.link = s.link, !.failed = TRUE]
             /\ work' = [work EXCEPT !.recover = kept.kept]
             /\ pc' = failedAt

FlushFullChunk ==
  /\ pc = "flush"
  /\ ~app.aborted
  /\ Len(audio.chunk) >= ChunkUnits
  /\ SendFront(ChunkUnits, "flush", "left")
  /\ UNCHANGED <<app, finals>>

Flushed ==
  /\ pc = "flush"
  /\ app.aborted \/ Len(audio.chunk) < ChunkUnits
  /\ pc' = IF net.drainFailed \/ ~Streaming THEN "left" ELSE "send"
  /\ UNCHANGED <<app, audio, net, work, finals>>

\* The loop is left: what the receiver found out by now, silence above all.
LoopLeft ==
  /\ pc = "left"
  /\ net' = [net EXCEPT !.failed = (@ \/ net.drainFailed) /\ ~net.noSpeech]
  /\ work' = [work EXCEPT !.recover =
                /\ ~net.noSpeech
                /\ IF net.drainFailed THEN net.retryable ELSE @]
  /\ pc' = IF app.aborted THEN "cancel" ELSE "branch"
  /\ UNCHANGED <<app, audio, finals>>

\* The receiver may have failed since.  A failure buffers until the recording
\* stops, beginning with the chunk in hand; otherwise the rest is sent.
Branch ==
  LET keep == work.recover /\ audio.kept
  IN  /\ pc = "branch"
      /\ IF net.failed \/ net.drainFailed
         THEN /\ net' = [net EXCEPT !.keep = keep]
              /\ audio' = [IF keep THEN Keep(audio, audio.chunk) ELSE audio
                           EXCEPT !.chunk = <<>>]
              /\ pc' = "buffer"
         ELSE /\ audio' = SwapPending(audio)
              /\ net' = [net EXCEPT !.failed = audio.overflowed]
              /\ pc' = "rest"
      /\ UNCHANGED <<app, work, finals>>

\* BufferUntilStop, with the last swap after the recording stopped.
Buffer ==
  /\ pc = "buffer"
  /\ audio' = IF net.keep THEN KeepPending(audio)
              ELSE [audio EXCEPT !.pending = <<>>]
  /\ pc' = IF Streaming THEN pc
           ELSE IF net.tries = 0 \/ net.link.state = "none" THEN "unconnected"
           ELSE "quit"
  /\ work' = IF Streaming THEN work
             ELSE [work EXCEPT !.recover = net.keep /\ audio'.kept /\ ~audio.overflowed]
  /\ UNCHANGED <<app, net, finals>>

\* Without a key or a connection: one replay, if there is something to replay.
Unconnected ==
  /\ pc = "unconnected"
  /\ IF ~app.aborted /\ net.key /\ net.retryable /\ work.recover /\ audio.replay # <<>>
     THEN /\ net' = [net EXCEPT !.replaying = TRUE, !.link = FreshLink]
          /\ work' = [Primary(work) EXCEPT !.retries = @ + 1]
          /\ pc' = "link"
     ELSE Conclude(Primary(work), "error", NoText) /\ net' = net
  /\ UNCHANGED <<app, audio, finals>>

\* The last, shorter chunk; it is not kept when it cannot be sent.
SendRest ==
  /\ pc = "rest"
  /\ IF net.failed \/ audio.chunk = <<>>
     THEN /\ audio' = [audio EXCEPT !.chunk = <<>>]
          /\ pc' = "finish"
          /\ UNCHANGED <<net, work>>
     ELSE \E s \in Sends(net.link, audio.chunk, FALSE) :
            /\ audio' = [Keep(audio, audio.chunk) EXCEPT !.chunk = <<>>]
            /\ net' = [net EXCEPT !.link = s.link, !.failed = ~s.ok]
            /\ work' = [work EXCEPT !.recover =
                          IF s.ok THEN @ ELSE Keep(audio, audio.chunk).kept]
            /\ pc' = "finish"
  /\ UNCHANGED <<app, finals>>

(***************************************************************************)
(* The end of the task.                                                    *)
(***************************************************************************)

\* finish-task, unless something went wrong or the task is over already.
SendFinish ==
  /\ pc = "finish"
  /\ IF net.noSpeech \/ net.failed \/ net.drainFailed \/ app.aborted
     THEN pc' = "quit" /\ UNCHANGED <<net, work>>
     ELSE IF net.taskFinished
     THEN pc' = "quit" /\ work' = work /\ net' = [net EXCEPT !.finishSent = TRUE]
     ELSE \E s \in Sends(net.link, <<>>, TRUE) :
            /\ net' = [net EXCEPT !.link = s.link, !.finishSent = s.ok,
                                  !.failed = ~s.ok]
            /\ work' = IF s.ok THEN work ELSE [work EXCEPT !.recover = audio.kept]
            /\ pc' = IF s.ok THEN "final" ELSE "quit"
  /\ UNCHANGED <<app, audio, finals>>

Finished ==
  /\ pc = "final"
  /\ net.taskFinished
  /\ pc' = "quit"
  /\ UNCHANGED <<app, audio, net, work, finals>>

\* An abort, a failed receiver (silence counts as one) or the deadline.
NotFinished ==
  /\ pc = "final"
  /\ ~net.taskFinished
  /\ net' = [net EXCEPT !.failed = TRUE,
                        !.reason = IF @ = "none" THEN "timeout" ELSE @]
  /\ work' = [work EXCEPT !.recover = audio.kept]
  /\ pc' = "quit"
  /\ UNCHANGED <<app, audio, finals>>

Successful ==
  /\ ~net.failed /\ ~net.drainFailed /\ ~net.noSpeech /\ ~app.aborted
  /\ net.finishSent /\ net.taskFinished

\* The receiver is told; only a successful task keeps its connection.
StopDrain ==
  /\ pc \in {"quit", "cancel"}
  /\ net' = [net EXCEPT !.drainStop = TRUE,
                        !.link = IF Successful THEN @ ELSE Aborted(@)]
  /\ pc' = IF pc = "quit" THEN "join" ELSE "cancelled"
  /\ UNCHANGED <<app, audio, work, finals>>

Cancelled ==
  /\ pc = "cancelled"
  /\ net.drain = "done"
  /\ net' = [net EXCEPT !.link = Shut(@)]
  /\ pc' = "stop"
  /\ UNCHANGED <<app, audio, work, finals>>

\* CanRecoverAudioStreaming: committed sentences survive a lost ending.
CanRecover ==
  /\ ~app.aborted /\ ~net.noSpeech
  /\ net.finishSent /\ ~net.taskFinished
  /\ net.committed # NoText
  /\ net.reason \in {"timeout", "peerClosed"}

ReplayWanted(text, failed, recover) ==
  /\ ~app.aborted
  /\ audio.kept /\ audio.replay # <<>>
  /\ \/ recover
     \/ ~net.noSpeech /\ ~failed /\ text = NoText /\ Len(audio.replay) >= ShortUnits

DrainJoined ==
  LET text    == IF CanRecover THEN net.committed ELSE net.text
      failed  == net.failed /\ ~CanRecover
      recover == work.recover /\ ~CanRecover
      again   == ReplayWanted(text, failed, recover)
  IN  /\ pc = "join"
      /\ net.drain = "done"
      /\ net' = [net EXCEPT !.link = IF again THEN FreshLink ELSE Shut(@),
                            !.replaying = again, !.failed = failed,
                            !.text = IF again THEN @ ELSE text]
      /\ work' = [Primary(work) EXCEPT !.recover = recover, !.text = text,
                    !.retries = IF again THEN @ + 1 ELSE @]
      /\ pc' = IF again THEN "link" ELSE "verdict"
      /\ UNCHANGED <<app, audio, finals>>

\* DispatchAttempt.
Decide ==
  /\ pc = "verdict"
  /\ Conclude(work,
              IF net.failed THEN "error"
              ELSE IF net.text = NoText THEN "noSpeech" ELSE "text",
              IF net.failed THEN NoText ELSE net.text)
  /\ UNCHANGED <<app, audio, net, finals>>

(***************************************************************************)
(* RetryRecognitionOnce, with a receiver thread of its own.                *)
(***************************************************************************)

ReplaySend ==
  LET done == Len(net.link.got)
      upTo == Smaller(done + ChunkUnits, Len(audio.replay))
      last == done = Len(audio.replay)
  IN  /\ pc = "replaySend"
      /\ IF app.aborted THEN pc' = "replayQuit" /\ net' = net
         ELSE \E s \in Sends(net.link, SubSeq(audio.replay, done + 1, upTo), last) :
                /\ net' = [net EXCEPT !.link = s.link]
                /\ pc' = IF ~s.ok THEN "replayQuit"
                         ELSE IF last THEN "replayFinal" ELSE "replaySend"
      /\ UNCHANGED <<app, audio, work, finals>>

\* The task ended, the session was aborted, or the deadline passed.
ReplayWaited ==
  /\ pc = "replayFinal"
  /\ net' = IF app.aborted \/ net.taskFinished \/ net.drainFailed THEN net
            ELSE [net EXCEPT !.drainFailed = TRUE]
  /\ pc' = "replayQuit"
  /\ UNCHANGED <<app, audio, work, finals>>

ReplayStopDrain ==
  /\ pc = "replayQuit"
  /\ net' = [net EXCEPT !.drainStop = TRUE,
               !.link = IF net.drainFailed \/ app.aborted THEN Aborted(@) ELSE @]
  /\ pc' = "replayJoin"
  /\ UNCHANGED <<app, audio, work, finals>>

\* result.ok: finished, by a task-finished or by silence, and nothing failed.
ReplayJoined ==
  /\ pc = "replayJoin"
  /\ net.drain = "done"
  /\ IF net.taskFinished /\ ~net.drainFailed /\ ~app.aborted
     THEN net' = [net EXCEPT !.link = Shut(@), !.failed = FALSE] /\ pc' = "verdict"
     ELSE net' = [net EXCEPT !.link = Shut(@)] /\ pc' = "replayFailed"
  /\ UNCHANGED <<app, audio, work, finals>>

\* A failed replay of a text that was merely empty leaves the empty text.
ReplayFailed ==
  /\ pc = "replayFailed"
  /\ net' = [net EXCEPT !.failed = work.recover, !.text = work.text]
  /\ pc' = "verdict"
  /\ UNCHANGED <<app, audio, work, finals>>

(***************************************************************************)
(* The receiver thread; in a replay it ends up in other variables, of the  *)
(* same meaning, and silence counts as the end of the task.                *)
(***************************************************************************)

DrainQuits ==
  /\ net.drain = "on"
  /\ net.drainStop \/ app.aborted
  /\ net' = [net EXCEPT !.drain = "done"]
  /\ UNCHANGED <<app, audio, pc, work, finals>>

\* A failed poll that nobody here asked for.
DrainTransport ==
  /\ net.drain = "on"
  /\ ~net.drainStop /\ ~app.aborted
  /\ net' = [net EXCEPT !.drain = "done", !.drainFailed = TRUE,
               !.reason = IF net.replaying THEN @ ELSE "transport"]
  /\ UNCHANGED <<app, audio, pc, work, finals>>

Listening == net.drain = "on" /\ net.link.state = "up"

\* A closed connection or task-failed, which says whether to try again.
DrainTaskFailed ==
  /\ Listening
  /\ \E reason \in {"peerClosed", "provider"}, retryable \in BOOLEAN :
       /\ reason = "peerClosed" => retryable
       /\ net' = [net EXCEPT !.drain = "done", !.drainFailed = TRUE,
                    !.reason = IF net.replaying THEN @ ELSE reason,
                    !.retryable = IF net.replaying THEN @ ELSE retryable]
  /\ UNCHANGED <<app, audio, pc, work, finals>>

\* A result: some of what was heard, up to the end of a sentence or beyond.  The
\* one that arrives while the thread is being stopped is the last.
DrainText ==
  /\ Listening
  /\ ~net.link.told
  /\ \E text \in Prefixes(net.link.got), sentenceEnd \in BOOLEAN :
       /\ Len(text) >= Len(net.committed) \/ net.replaying
       /\ net' = [net EXCEPT !.text = text,
                    !.drain = IF net.drainStop \/ app.aborted THEN "done" ELSE @,
                    !.committed = IF sentenceEnd /\ ~net.replaying THEN text ELSE @,
                    !.link.told = net.link.ended /\ text = net.link.got]
  /\ UNCHANGED <<app, audio, pc, work, finals>>

\* task-finished answers finish-task, or the service ends the task by itself.
DrainTaskFinished ==
  /\ Listening
  /\ net' = [net EXCEPT !.drain = "done", !.taskFinished = TRUE]
  /\ UNCHANGED <<app, audio, pc, work, finals>>

\* task-failed for want of speech, from a service that has sent no text.
DrainNoSpeech ==
  /\ Listening
  /\ net.text = NoText
  /\ net' = IF net.replaying
            THEN [net EXCEPT !.drain = "done", !.taskFinished = TRUE]
            ELSE [net EXCEPT !.drain = "done", !.noSpeech = TRUE,
                             !.drainFailed = TRUE]
  /\ UNCHANGED <<app, audio, pc, work, finals>>

Abort == AbortWith([net EXCEPT !.link = Aborted(@)])

Worker ==
  \/ Try \/ Connect \/ ConnectOk \/ ConnectFailed \/ NotConnected
  \/ TakePending \/ FlushFullChunk \/ Flushed \/ LoopLeft \/ Branch \/ Buffer
  \/ Unconnected \/ SendRest \/ SendFinish \/ Finished \/ NotFinished
  \/ StopDrain \/ Cancelled \/ DrainJoined \/ Decide
  \/ ReplaySend \/ ReplayWaited \/ ReplayStopDrain \/ ReplayJoined \/ ReplayFailed

Drain ==
  \/ DrainQuits \/ DrainTransport \/ DrainTaskFailed \/ DrainText
  \/ DrainTaskFinished \/ DrainNoSpeech

\* What the receiver does by itself: every poll has a timeout.
DrainLeaves == DrainQuits

Next == Start \/ Abort \/ Worker \/ Drain \/ BaseNext
=============================================================================
