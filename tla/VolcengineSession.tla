------------------------- MODULE VolcengineSession -------------------------
(***************************************************************************)
(* The streaming session of the Volcano Engine backend: a worker thread,   *)
(* a receiver ("drain") thread in the streaming modes, and the WinHTTP     *)
(* session they share with Abort().  A second, private connection replays  *)
(* the recording when the first attempt ended without any text.            *)
(*                                                                         *)
(* net holds the two VolcSessions ("main" is the process-wide              *)
(* s_volcSession, "retry" belongs to the session object), the flags the    *)
(* threads share and what they have heard.                                 *)
(***************************************************************************)
EXTENDS SessionBase

Disconnected == [ws |-> FALSE, connected |-> FALSE, forceAbort |-> FALSE,
                 got |-> <<>>, ended |-> FALSE, told |-> FALSE]

InitNet ==
  \E mode \in {"stream", "sync"} :
    net = [provider |-> "volc", mode |-> mode, main |-> Disconnected,
           retry |-> Disconnected, opens |-> 0, rejected |-> FALSE,
           drain |-> "off", drainStop |-> FALSE, heard |-> NoText,
           partial |-> NoText, closedByPeer |-> FALSE, remembered |-> FALSE]

Init == InitBase /\ InitNet

Start == StartAt("opening")

ForceAbort == net.main.forceAbort

Usable(sess) == sess.ws /\ sess.connected /\ ~sess.forceAbort

(***************************************************************************)
(* One WebSocket and the service at its other end.                         *)
(***************************************************************************)

\* The frames of one complete message: a partial transcript, an error frame,
\* or after the last packet the transcript of everything, which closes it.
FrameTexts(sess) ==
  IF sess.told THEN {}
  ELSE {[sess |-> sess, text |-> t] : t \in Prefixes(sess.got) \cup {ErrorText}}
       \cup {[sess |-> [sess EXCEPT !.told = TRUE], text |-> t] :
               t \in IF sess.ended THEN Prefixes(sess.got) \cap {sess.got} ELSE {}}

\* ReceiveResult: a timeout or an ignored frame changes nothing; a transport
\* error, a close frame or an incomplete message disconnects.
Received(sess) ==
  {[sess |-> sess, text |-> NoText],
   [sess |-> [sess EXCEPT !.connected = FALSE], text |-> NoText]}
  \cup IF sess.forceAbort \/ ~sess.ws THEN {} ELSE FrameTexts(sess)

\* SendAudio: nothing without a usable socket; a failed send closes it.  Only
\* the synchronous mode waits for a text.
Sent(sess, units, last) ==
  IF ~Usable(sess) THEN {[sess |-> sess, text |-> NoText]}
  ELSE LET taken == [sess EXCEPT !.got = @ \o units, !.ended = last]
       IN  {[sess |-> [sess EXCEPT !.ws = FALSE, !.connected = FALSE],
             text |-> NoText]}
           \cup IF net.mode = "sync" THEN Received(taken)
                ELSE {[sess |-> taken, text |-> NoText]}

\* OpenSessionImpl: WebSocket upgraded, init frame sent and answered.
Opened(sess) ==
  [sess EXCEPT !.ws = TRUE, !.connected = TRUE, !.got = <<>>,
               !.ended = FALSE, !.told = FALSE]

(***************************************************************************)
(* Opening, with retries for as long as the user keeps speaking.           *)
(***************************************************************************)

OpenOk ==
  /\ pc = "opening"
  /\ ~ForceAbort
  /\ net' = [net EXCEPT !.main = Opened(@),
                        !.drain = IF net.mode = "stream" THEN "main" ELSE "off"]
  /\ pc' = "send"
  /\ UNCHANGED <<app, audio, work, finals>>

\* A request that failed or timed out, or an init frame that was refused; the
\* refusal is an error of its own and stops the attempts.
OpenFailed ==
  /\ pc = "opening"
  /\ \E rejected \in BOOLEAN : net' = [net EXCEPT !.rejected = rejected]
  /\ pc' = "reopen"
  /\ UNCHANGED <<app, audio, work, finals>>

NoMoreOpens ==
  \/ ForceAbort
  \/ net.rejected
  \/ ~Streaming /\ net.opens >= 3

\* The delay passed without an abort: RebuildConnection and another attempt.
Reopen ==
  /\ pc = "reopen"
  /\ ~NoMoreOpens
  /\ net' = [net EXCEPT !.opens = Smaller(@ + 1, 3)]
  /\ pc' = "opening"
  /\ UNCHANGED <<app, audio, work, finals>>

OpenGivenUp ==
  /\ pc = "reopen"
  /\ NoMoreOpens
  /\ Conclude(PrimaryUnlessAborted, "error", NoText)
  /\ UNCHANGED <<app, audio, net, finals>>

(***************************************************************************)
(* The send loop.                                                          *)
(***************************************************************************)

\* The session after a send; the partial text only matters in sync mode.
AfterSend(r) ==
  [net EXCEPT !.main = r.sess,
              !.partial = IF r.text # NoText THEN r.text ELSE @]

\* A full chunk goes to the replay buffer and to the server.
SendFull ==
  LET a == DrainToChunk(audio)
  IN  /\ pc = "send"
      /\ ~ForceAbort
      /\ audio.pending # <<>>
      /\ Len(a.chunk) = ChunkUnits
      /\ audio' = [Keep(a, a.chunk) EXCEPT !.chunk = <<>>]
      /\ \E r \in Sent(net.main, a.chunk, FALSE) :
           /\ net' = AfterSend(r)
           /\ pc' = IF r.sess.ws /\ r.sess.connected THEN "send"
                    ELSE IF Streaming THEN "buffer" ELSE "tail"
      /\ UNCHANGED <<app, work, finals>>

\* Less than a chunk: wait for more, or leave the loop when the input is over.
Gather ==
  LET a == DrainToChunk(audio)
  IN  /\ pc = "send"
      /\ ~ForceAbort
      /\ Len(a.chunk) < ChunkUnits
      /\ audio' = a
      /\ pc' = IF Streaming THEN "send" ELSE "tail"
      /\ UNCHANGED <<app, net, work, finals>>

\* A keepalive packet of silence after 3.5 s: only its failure leaves a trace.
KeepaliveLost ==
  /\ pc = "send"
  /\ Streaming
  /\ Usable(net.main)
  /\ \E r \in Sent(net.main, <<>>, FALSE) : net' = [net EXCEPT !.main = r.sess]
  /\ UNCHANGED <<app, audio, pc, work, finals>>

SendAborted ==
  /\ pc = "send"
  /\ ForceAbort
  /\ pc' = "tail"
  /\ UNCHANGED <<app, audio, net, work, finals>>

\* bufferUntilStop: the connection is gone, PCM is kept for the replay.
Buffer ==
  /\ pc = "buffer"
  /\ IF Streaming /\ ~ForceAbort
     THEN audio' = KeepPending(audio) /\ pc' = pc
     ELSE pc' = "tail" /\ audio' = audio
  /\ UNCHANGED <<app, net, work, finals>>

\* Mutant: what cannot be sent is not kept either.
SendRestIfUsable(rest, a, next) ==
  /\ pc' = next
  /\ IF ~Usable(net.main) \/ rest = <<>> THEN audio' = a /\ net' = net
     ELSE /\ audio' = Keep(a, rest)
          /\ \E r \in Sent(net.main, rest, FALSE) : net' = AfterSend(r)
  /\ UNCHANGED <<app, work, finals>>

\* What is left of the chunk, and then what is left of the pending PCM.
SendRest(rest, a, next) ==
  /\ pc' = next
  /\ IF ForceAbort \/ rest = <<>> THEN audio' = a /\ net' = net
     ELSE /\ audio' = Keep(a, rest)
          /\ \E r \in Sent(net.main, rest, FALSE) : net' = AfterSend(r)
  /\ UNCHANGED <<app, work, finals>>

SendChunkLeft == pc = "tail" /\ SendRest(audio.chunk, audio, "flush")

SendPendingLeft ==
  /\ pc = "flush"
  /\ SendRest(audio.pending,
              IF ForceAbort THEN audio ELSE [audio EXCEPT !.pending = <<>>],
              "vad")

(***************************************************************************)
(* The end of the input: local silence, or the last packet and its answer. *)
(***************************************************************************)

\* The local VAD heard nobody: the receiver is thrown out.
LocalSilence ==
  /\ pc = "vad"
  /\ net' = [net EXCEPT !.drainStop = TRUE, !.main.forceAbort = TRUE,
                        !.main.ws = FALSE]
  /\ pc' = "silence"
  /\ UNCHANGED <<app, audio, work, finals>>

DrainGone == net.drain \in {"off", "done"}

SilenceReported ==
  /\ pc = "silence"
  /\ DrainGone
  /\ net' = [net EXCEPT !.main.connected = FALSE]
  /\ Conclude(PrimaryUnlessAborted, "noSpeech", NoText)
  /\ UNCHANGED <<app, audio, finals>>

\* Speech, or no local VAD: the last packet, which ends the transcript.
SendLast ==
  /\ pc = "vad"
  /\ \E r \in Sent(net.main, <<>>, TRUE) :
       net' = [AfterSend(r) EXCEPT !.drainStop = (net.mode = "stream")]
  /\ pc' = IF net.mode = "stream" THEN "wait" ELSE "close"
  /\ UNCHANGED <<app, audio, work, finals>>

\* The final drain is over, or its 5 seconds are: the socket is closed.  The
\* flag that Abort() sets too is overwritten here.
DrainWaited ==
  /\ pc = "wait"
  /\ net' = [net EXCEPT !.closedByPeer = ~net.main.connected,
                        !.main.forceAbort = net.main.connected,
                        !.main.ws = FALSE]
  /\ pc' = "join"
  /\ UNCHANGED <<app, audio, work, finals>>

DrainJoined ==
  /\ pc = "join"
  /\ DrainGone
  /\ net' = [net EXCEPT !.main.connected = FALSE]
  /\ pc' = "decide"
  /\ UNCHANGED <<app, audio, work, finals>>

\* CloseSession of the synchronous mode: the last of up to six more texts.
CloseSession ==
  /\ pc = "close"
  /\ \E r \in Received(net.main) :
       net' = [net EXCEPT !.heard = IF net.main.ws THEN r.text ELSE NoText,
                          !.main.ws = FALSE, !.main.connected = FALSE]
  /\ pc' = "decide"
  /\ UNCHANGED <<app, audio, work, finals>>

(***************************************************************************)
(* The verdict, after a replay if the first attempt brought no text.       *)
(***************************************************************************)

FinalText == IF net.heard # NoText THEN net.heard ELSE net.partial

\* Text, else silence or an error; what the user said is remembered as context
\* for the next recording before anyone looks whether Abort() came.
Settle(w, text, replayed, closedEmpty) ==
  /\ Conclude(w,
              IF text # NoText THEN "text"
              ELSE IF closedEmpty \/ (~replayed /\ ~ForceAbort) THEN "noSpeech"
              ELSE "error", text)
  /\ net' = [net EXCEPT !.remembered = text \notin {NoText, ErrorText}]

Decide ==
  /\ pc = "decide"
  /\ IF /\ ~app.aborted
        /\ net.mode = "stream"
        /\ RetriesEmptyFinal(FinalText, net.closedByPeer, audio)
     THEN /\ work' = [Primary(work) EXCEPT !.retries = @ + 1]
          /\ net' = [net EXCEPT !.opens = 0]
          /\ pc' = "replayOpen"
     ELSE Settle(Primary(work), FinalText, FALSE, FALSE)
  /\ UNCHANGED <<app, audio, finals>>

\* RetryRecognitionOnce: three attempts to open, none once Abort() was seen.
ReplayOpened ==
  /\ pc = "replayOpen"
  /\ ~net.retry.forceAbort
  /\ net' = [net EXCEPT !.retry = Opened(@)]
  /\ pc' = "replaySend"
  /\ UNCHANGED <<app, audio, work, finals>>

ReplayOpenFailed ==
  /\ pc = "replayOpen"
  /\ IF net.opens < 2 /\ ~app.aborted
     THEN net' = [net EXCEPT !.opens = @ + 1] /\ pc' = pc /\ work' = work
     ELSE Settle(work, NoText, TRUE, FALSE)
  /\ UNCHANGED <<app, audio, finals>>

\* The replay in full chunks, oldest first, then the last packet.
ReplaySend ==
  LET done == Len(net.retry.got)
      upTo == Smaller(done + ChunkUnits, Len(audio.replay))
      last == done = Len(audio.replay)
  IN  /\ pc = "replaySend"
      /\ \E r \in Sent(net.retry, SubSeq(audio.replay, done + 1, upTo), last) :
           IF Usable(r.sess)
           THEN /\ net' = [net EXCEPT !.retry = r.sess]
                /\ pc' = IF last THEN "replayWait" ELSE "replaySend"
                /\ work' = work
           ELSE Settle(work, NoText, TRUE, FALSE)
      /\ UNCHANGED <<app, audio, finals>>

\* The first text, a closed connection, the timeout or an abort ends it.
ReplayAnswered ==
  /\ pc = "replayWait"
  /\ \E r \in Received(net.retry) :
       Settle(work, r.text, TRUE, r.text = NoText /\ ~r.sess.connected)
  /\ UNCHANGED <<app, audio, finals>>

(***************************************************************************)
(* The receiver thread of the streaming modes.                             *)
(***************************************************************************)

Heard(r) == IF r.text # NoText THEN r.text ELSE net.heard

DrainMain ==
  /\ net.drain = "main"
  /\ IF ~net.drainStop /\ Usable(net.main)
     THEN \E r \in Received(net.main) :
            net' = [net EXCEPT !.main = r.sess, !.heard = Heard(r)]
     ELSE net' = [net EXCEPT !.drain = "final"]
  /\ UNCHANGED <<app, audio, pc, work, finals>>

\* One text, or 5 seconds, after the main loop.
DrainFinal ==
  /\ net.drain = "final"
  /\ IF net.main.ws /\ ~ForceAbort
     THEN \E r \in Received(net.main), more \in BOOLEAN :
            net' = [net EXCEPT !.main = r.sess, !.heard = Heard(r),
                      !.drain = IF more /\ r.text = NoText /\ r.sess.connected
                                THEN "final" ELSE "sweep"]
     ELSE net' = [net EXCEPT !.drain = "sweep"]
  /\ UNCHANGED <<app, audio, pc, work, finals>>

\* What else has arrived already.
DrainSweep ==
  /\ net.drain = "sweep"
  /\ IF Usable(net.main)
     THEN \E r \in Received(net.main) :
            net' = [net EXCEPT !.main = r.sess, !.heard = Heard(r),
                      !.drain = IF r.text = NoText THEN "done" ELSE "sweep"]
     ELSE net' = [net EXCEPT !.drain = "done"]
  /\ UNCHANGED <<app, audio, pc, work, finals>>

\* Abort(): both sessions are told, and their sockets closed at once.
Abort ==
  AbortWith([net EXCEPT !.main.forceAbort = TRUE, !.main.ws = FALSE,
                        !.retry.forceAbort = TRUE, !.retry.ws = FALSE])

Worker ==
  \/ OpenOk \/ OpenFailed \/ Reopen \/ OpenGivenUp
  \/ SendFull \/ Gather \/ KeepaliveLost \/ SendAborted \/ Buffer
  \/ SendChunkLeft \/ SendPendingLeft
  \/ LocalSilence \/ SilenceReported \/ SendLast
  \/ DrainWaited \/ DrainJoined \/ CloseSession
  \/ Decide \/ ReplayOpened \/ ReplayOpenFailed \/ ReplaySend \/ ReplayAnswered

Drain == DrainMain \/ DrainFinal \/ DrainSweep

\* What the receiver does by itself: it looks at the flags between two receives,
\* its last wait has a deadline, and the sweep takes what is there.
DrainLeaves == DrainSweep \/ ((DrainMain \/ DrainFinal) /\ net'.drain # net.drain)

Next == Start \/ Abort \/ Worker \/ Drain \/ BaseNext
=============================================================================
