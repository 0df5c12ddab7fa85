--------------------------- MODULE DoubaoSession ---------------------------
(***************************************************************************)
(* The streaming session of Doubao IME: a worker that obtains credentials, *)
(* connects, sends frames and finishes, a receiver thread that gathers the *)
(* text of the segments, and up to two replays.                            *)
(*                                                                         *)
(* The client has no flag for a cancellation: Abort() closes the handles   *)
(* that exist at that moment, and may miss a Connect() between two of them.*)
(***************************************************************************)
EXTENDS SessionBase, WebSocketLink

InitNet ==
  net = [provider |-> "doubao", link |-> NoLink, tries |-> 0, late |-> 0,
         refreshed |-> FALSE, replaying |-> FALSE, input |-> TRUE,
         drain |-> "off", drainStop |-> FALSE, drainFailed |-> FALSE,
         finished |-> FALSE, finishSent |-> FALSE, postFinal |-> FALSE,
         text |-> NoText, failed |-> FALSE]

Init == InitBase /\ InitNet

Start == StartAt("try")

(***************************************************************************)
(* ConnectWithCredentialRetry: three attempts, and two for a replay.       *)
(***************************************************************************)

MaxTries == IF net.replaying THEN 2 ELSE 3

Try ==
  /\ pc = "try"
  /\ ~app.aborted
  /\ net.tries < MaxTries
  /\ net' = [net EXCEPT !.tries = @ + 1, !.link = FreshLink]
  /\ work' = IF net.replaying THEN [work EXCEPT !.retries = @ + 1] ELSE work
  /\ pc' = "link"
  /\ UNCHANGED <<app, audio, finals>>

\* The requests for credentials, the upgrade, StartTask and StartSession.
Connect ==
  /\ pc = "link"
  /\ net' = [net EXCEPT !.link = Connecting(@),
                        !.late = IF app.aborted THEN @ + 1 ELSE @]
  /\ pc' = "connecting"
  /\ UNCHANGED <<app, audio, work, finals>>

\* The first attempt looks for an abort that missed the client.
ConnectOk ==
  /\ pc = "connecting"
  /\ net.link.state = "connecting"
  /\ IF app.aborted /\ ~net.replaying
     THEN net' = [net EXCEPT !.link = NoLink] /\ pc' = "try"
     ELSE /\ net' = [net EXCEPT !.link = Connected(@),
                                !.drain = IF net.replaying THEN @ ELSE "on"]
          /\ pc' = IF net.replaying THEN "replaySend" ELSE "send"
  /\ UNCHANGED <<app, audio, work, finals>>

\* Refused credentials are cleared and asked for anew, once; what passes is
\* tried again, but in a replay only refused credentials are.
ConnectFailed ==
  /\ pc = "connecting"
  /\ \E reason \in {"auth", "transient", "other"} :
       LET again == IF net.replaying THEN reason = "auth" /\ net.tries = 1
                    ELSE (reason = "auth" /\ ~net.refreshed) \/ reason = "transient"
       IN  net' = [net EXCEPT !.link = NoLink,
                     !.refreshed = IF net.replaying THEN @ ELSE @ \/ reason = "auth",
                     !.tries = IF again THEN @ ELSE MaxTries]
  /\ pc' = "try"
  /\ UNCHANGED <<app, audio, work, finals>>

NoMoreTries == pc = "try" /\ (app.aborted \/ net.tries >= MaxTries)

NotConnected ==
  /\ NoMoreTries
  /\ ~net.replaying
  /\ pc' = "waitStop"
  /\ UNCHANGED <<app, audio, net, work, finals>>

WaitForRecordingStop ==
  /\ pc = "waitStop"
  /\ ~Streaming
  /\ Conclude(PrimaryUnlessAborted, "error", NoText)
  /\ UNCHANGED <<app, audio, net, finals>>

(***************************************************************************)
(* The send loop.                                                          *)
(***************************************************************************)

SwapPending(a) == [a EXCEPT !.chunk = @ \o a.pending, !.pending = <<>>]

TakePending ==
  /\ pc = "send"
  /\ IF app.aborted \/ net.drainFailed
     THEN pc' = "sent" /\ audio' = audio
     ELSE pc' = "sample" /\ audio' = SwapPending(audio)
  /\ UNCHANGED <<app, net, work, finals>>

SampleInput ==
  /\ pc = "sample"
  /\ net' = [net EXCEPT !.input = Streaming]
  /\ pc' = "flush"
  /\ UNCHANGED <<app, audio, work, finals>>

\* SendFrameWithReplay: into the replay buffer, then to the service; a frame
\* that could not be sent stays where it is.
SendFront(n, next, failedAt) ==
  LET front == SubSeq(audio.chunk, 1, n)
  IN  \E s \in Sends(net.link, front, FALSE) :
        /\ audio' = IF s.ok
                    THEN [Keep(audio, front) EXCEPT !.chunk = SubSeq(@, n + 1, Len(@))]
                    ELSE Keep(audio, front)
        /\ net' = [net EXCEPT !.link = s.link, !.failed = ~s.ok]
        /\ pc' = IF s.ok THEN next ELSE failedAt

FlushFullFrame ==
  /\ pc = "flush"
  /\ Len(audio.chunk) >= ChunkUnits
  /\ SendFront(ChunkUnits, "flush", "sent")
  /\ UNCHANGED <<app, work, finals>>

Flushed ==
  /\ pc = "flush"
  /\ Len(audio.chunk) < ChunkUnits
  /\ net' = [net EXCEPT !.failed = audio.overflowed]
  /\ pc' = IF audio.overflowed \/ ~net.input THEN "sent" ELSE "send"
  /\ UNCHANGED <<app, audio, work, finals>>

LoopLeft ==
  /\ pc = "sent"
  /\ LET failed == net.failed \/ net.drainFailed
     IN  /\ net' = [net EXCEPT !.failed = failed]
         /\ pc' = IF app.aborted THEN "quit"
                  ELSE IF failed /\ Streaming THEN "buffer" ELSE "rest"
  /\ UNCHANGED <<app, audio, work, finals>>

\* bufferUntilStop.
Buffer ==
  /\ pc = "buffer"
  /\ IF Streaming
     THEN /\ audio' = KeepPending(audio)
          /\ pc' = IF audio.overflowed THEN "rest" ELSE pc
     ELSE pc' = "rest" /\ audio' = audio
  /\ UNCHANGED <<app, net, work, finals>>

\* What is still pending is sent.  After a failure it is thrown away, and the
\* frames in hand go to the replay buffer behind what was buffered since.
TakeRest ==
  /\ pc = "rest"
  /\ IF net.failed
     THEN /\ audio' = [Keep(audio, audio.chunk) EXCEPT !.pending = <<>>,
                                                       !.overflowed = FALSE]
          /\ pc' = "quit"
     ELSE audio' = SwapPending(audio) /\ pc' = "last"
  /\ UNCHANGED <<app, net, work, finals>>

\* The full frames of the rest, whatever else, and then the last one, padded.
SendRest ==
  /\ pc = "last"
  /\ audio.chunk # <<>>
  /\ Len(audio.chunk) >= ChunkUnits \/ ~app.aborted
  /\ SendFront(Smaller(ChunkUnits, Len(audio.chunk)),
               IF Len(audio.chunk) < ChunkUnits THEN "finish" ELSE "last", "quit")
  /\ UNCHANGED <<app, work, finals>>

\* Without a rest a frame of silence is the last, if there was any frame.
SendLast ==
  /\ pc = "last"
  /\ \/ audio.chunk = <<>>
     \/ app.aborted /\ Len(audio.chunk) < ChunkUnits
  /\ IF app.aborted THEN pc' = "quit" /\ net' = net
     ELSE IF net.link.got = <<>> THEN pc' = "finish" /\ net' = net
     ELSE \E s \in Sends(net.link, <<>>, FALSE) :
            /\ net' = [net EXCEPT !.link = s.link, !.failed = ~s.ok]
            /\ pc' = IF s.ok THEN "finish" ELSE "quit"
  /\ UNCHANGED <<app, audio, work, finals>>

(***************************************************************************)
(* The end of the first attempt.                                           *)
(***************************************************************************)

\* From here on a final counts as the last one.
AnnounceFinish ==
  /\ pc = "finish"
  /\ IF app.aborted THEN pc' = "quit" /\ net' = net
     ELSE pc' = "finishSend" /\ net' = [net EXCEPT !.finishSent = TRUE]
  /\ UNCHANGED <<app, audio, work, finals>>

SendFinish ==
  /\ pc = "finishSend"
  /\ \E s \in Sends(net.link, <<>>, TRUE) :
       /\ net' = [net EXCEPT !.link = s.link, !.failed = ~s.ok]
       /\ pc' = IF s.ok THEN "final" ELSE "quit"
  /\ UNCHANGED <<app, audio, work, finals>>

Answered == net.postFinal \/ net.finished

AwaitFinal ==
  /\ pc = "final"
  /\ app.aborted \/ (Answered /\ ~net.drainFailed)
  /\ pc' = "quit"
  /\ UNCHANGED <<app, audio, net, work, finals>>

\* The receiver failed, or the deadline passed.
FinalFailed ==
  /\ pc = "final"
  /\ ~app.aborted
  /\ net.drainFailed \/ ~Answered
  /\ net' = [net EXCEPT !.failed = TRUE]
  /\ pc' = "quit"
  /\ UNCHANGED <<app, audio, work, finals>>

StopDrain ==
  /\ pc = "quit"
  /\ net' = [net EXCEPT !.drainStop = TRUE,
                        !.link = IF net.failed \/ app.aborted \/ ~net.finished
                                 THEN Aborted(@) ELSE @]
  /\ pc' = "join"
  /\ UNCHANGED <<app, audio, work, finals>>

\* A failure with anything to replay, or three seconds without a text.
ReplayWanted ==
  /\ audio.kept
  /\ IF net.failed THEN audio.replay # <<>>
     ELSE net.text = NoText /\ Len(audio.replay) >= ShortUnits

DrainJoined ==
  /\ pc = "join"
  /\ net.drain = "done"
  /\ net' = [net EXCEPT !.link = Shut(@), !.tries = 0,
                        !.replaying = ~app.aborted /\ ReplayWanted]
  /\ work' = PrimaryUnlessAborted
  /\ pc' = IF app.aborted THEN "stop"
           ELSE IF ReplayWanted THEN "try" ELSE "verdict"
  /\ UNCHANGED <<app, audio, finals>>

(***************************************************************************)
(* RetryRecognitionOnce.                                                   *)
(***************************************************************************)

\* The replay in frames, the last one marked, then FinishSession.
ReplaySend ==
  LET done == Len(net.link.got)
      upTo == Smaller(done + ChunkUnits, Len(audio.replay))
      last == done = Len(audio.replay)
  IN  /\ pc = "replaySend"
      /\ \E s \in Sends(net.link, SubSeq(audio.replay, done + 1, upTo), last) :
           IF app.aborted \/ ~s.ok
           THEN net' = [net EXCEPT !.link = NoLink] /\ pc' = "try"
           ELSE /\ net' = [net EXCEPT !.link = s.link]
                /\ pc' = IF last THEN "replayFinal" ELSE "replaySend"
      /\ UNCHANGED <<app, audio, work, finals>>

\* Finish(): a failed session, a lost connection, or no text in time.
ReplayFailed ==
  /\ pc = "replayFinal"
  /\ net' = [net EXCEPT !.link = NoLink]
  /\ pc' = "try"
  /\ UNCHANGED <<app, audio, work, finals>>

\* The session is finished or closed, or it is late and some text is there.
ReplayFinished ==
  /\ pc = "replayFinal"
  /\ net.link.state = "up"
  /\ \E text \in {NoText} \cup Prefixes(net.link.got) :
       net' = [net EXCEPT !.link = Shut(@), !.text = text, !.failed = FALSE]
  /\ pc' = "verdict"
  /\ UNCHANGED <<app, audio, work, finals>>

ReplayGivenUp ==
  /\ NoMoreTries
  /\ net.replaying
  /\ pc' = "verdict"
  /\ UNCHANGED <<app, audio, net, work, finals>>

Decide ==
  /\ pc = "verdict"
  /\ Conclude(work,
              IF net.failed THEN "error"
              ELSE IF net.text = NoText THEN "noSpeech" ELSE "text",
              IF net.failed THEN NoText ELSE net.text)
  /\ UNCHANGED <<app, audio, net, finals>>

(***************************************************************************)
(* The receiver thread.                                                    *)
(***************************************************************************)

DrainQuits ==
  /\ net.drain = "on"
  /\ net.drainStop \/ app.aborted
  /\ net' = [net EXCEPT !.drain = "done"]
  /\ UNCHANGED <<app, audio, pc, work, finals>>

\* TaskFailed, SessionFailed or a failed receive nobody here asked for.
DrainFails ==
  /\ net.drain = "on"
  /\ ~net.drainStop /\ ~app.aborted
  /\ net' = [net EXCEPT !.drain = "done", !.drainFailed = TRUE]
  /\ UNCHANGED <<app, audio, pc, work, finals>>

Listening == net.drain = "on" /\ net.link.state = "up"

LastEvent == net.drainStop \/ app.aborted

\* A partial result or the final result of a segment: the text so far, with
\* the segments committed before it in front.
DrainText ==
  /\ Listening
  /\ ~net.link.told
  /\ \E text \in Prefixes(net.link.got), segmentEnd \in BOOLEAN :
       /\ Len(text) >= Len(net.text)
       /\ net' = [net EXCEPT !.text = text,
                    !.drain = IF LastEvent THEN "done" ELSE @,
                    !.postFinal = @ \/ (segmentEnd /\ net.finishSent),
                    !.link.told = segmentEnd /\ net.link.ended /\ text = net.link.got]
  /\ UNCHANGED <<app, audio, pc, work, finals>>

\* SessionFinished; a connection closed by the service counts as one.
DrainFinished ==
  /\ Listening
  /\ net' = [net EXCEPT !.drain = "done", !.finished = TRUE]
  /\ UNCHANGED <<app, audio, pc, work, finals>>

\* Abort() closes what is open; a Connect() between two handles goes on.
Abort ==
  \E link \in {Aborted(net.link)}
              \cup {l \in {net.link} : l.state = "connecting"} :
    AbortWith([net EXCEPT !.link = link])

Worker ==
  \/ Try \/ Connect \/ ConnectOk \/ ConnectFailed \/ NotConnected
  \/ WaitForRecordingStop
  \/ TakePending \/ SampleInput \/ FlushFullFrame \/ Flushed \/ LoopLeft
  \/ Buffer \/ TakeRest \/ SendRest \/ SendLast
  \/ AnnounceFinish \/ SendFinish \/ AwaitFinal \/ FinalFailed
  \/ StopDrain \/ DrainJoined
  \/ ReplaySend \/ ReplayFailed \/ ReplayFinished \/ ReplayGivenUp \/ Decide

Drain == DrainQuits \/ DrainFails \/ DrainText \/ DrainFinished

\* What the receiver does by itself: every poll has a timeout.
DrainLeaves == DrainQuits

Next == Start \/ Abort \/ Worker \/ Drain \/ BaseNext
=============================================================================
