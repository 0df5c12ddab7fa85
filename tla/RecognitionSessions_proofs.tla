-------------------- MODULE RecognitionSessions_proofs --------------------
(***************************************************************************)
(* Theorems about the five streaming sessions, for recordings, chunks,     *)
(* buffers and numbers of connections of any size.                         *)
(*                                                                         *)
(* Each provider has an invariant of its own (QwenInv, DoubaoInv, ...)     *)
(* over the parts all share: the types, where the worker stands            *)
(* (Lifecycle), how many finals there have been (OneFinal), and what       *)
(* Abort() leaves behind.  Inv picks the one of the provider.              *)
(***************************************************************************)
EXTENDS RecognitionSessions, SequenceTheorems, TLAPS

---------------------------------------------------------------------------
(***************************************************************************)
(* Types.                                                                  *)
(***************************************************************************)

Pcm == Seq(Nat)

AppStates ==
  [mic : {"idle", "open", "stopped"}, aborted : BOOLEAN, running : BOOLEAN,
   captured : Nat, taken : Pcm]

AudioStates ==
  [pending : Pcm, overflowed : BOOLEAN, chunk : Pcm, replay : Pcm,
   kept : BOOLEAN]

Verdicts == {"none"} \union Kinds

WorkStates ==
  [text : Pcm, verdict : Verdicts, primary : {"open", "done"},
   retries : Nat, recover : BOOLEAN]

Finals == [kind : Verdicts, text : Pcm]

Links ==
  [state : {"none", "fresh", "connecting", "up", "closed"}, got : Pcm,
   ended : BOOLEAN, told : BOOLEAN]

VolcSessions ==
  [ws : BOOLEAN, connected : BOOLEAN, forceAbort : BOOLEAN, got : Pcm,
   ended : BOOLEAN, told : BOOLEAN]

VolcNets ==
  [provider : {"volc"}, mode : {"stream", "sync"}, main : VolcSessions,
   retry : VolcSessions, opens : Nat, rejected : BOOLEAN,
   drain : {"off", "main", "final", "sweep", "done"}, drainStop : BOOLEAN,
   heard : Pcm, partial : Pcm, closedByPeer : BOOLEAN, remembered : BOOLEAN]

Reasons == {"none", "timeout", "transport", "provider", "peerClosed"}

QwenNets ==
  [provider : {"qwen"}, key : BOOLEAN, link : Links, tries : Nat,
   replaying : BOOLEAN, late : Nat, input : BOOLEAN,
   drain : {"off", "on", "done"}, drainStop : BOOLEAN, reason : Reasons,
   drainFailed : BOOLEAN, completed : BOOLEAN, finished : BOOLEAN,
   text : Pcm, failed : BOOLEAN, transport : BOOLEAN]

QwenAudioNets ==
  [provider : {"qwenAudio"}, key : BOOLEAN, link : Links, tries : Nat,
   retryable : BOOLEAN, late : Nat, keep : BOOLEAN,
   drain : {"off", "on", "done"}, drainStop : BOOLEAN, drainFailed : BOOLEAN,
   reason : Reasons, taskFinished : BOOLEAN, noSpeech : BOOLEAN, text : Pcm,
   committed : Pcm, failed : BOOLEAN, finishSent : BOOLEAN,
   replaying : BOOLEAN]

DoubaoNets ==
  [provider : {"doubao"}, link : Links, tries : Nat, late : Nat,
   refreshed : BOOLEAN, replaying : BOOLEAN, input : BOOLEAN,
   drain : {"off", "on", "done"}, drainStop : BOOLEAN, drainFailed : BOOLEAN,
   finished : BOOLEAN, finishSent : BOOLEAN, postFinal : BOOLEAN,
   text : Pcm, failed : BOOLEAN]

Frames == [kind : {"partial", "final", "failed", "refused"}, text : Pcm]

QwenFreeNets ==
  [provider : {"qwenFree"}, link : Links, tries : Nat, late : Nat,
   replaying : BOOLEAN, recv : {"off", "on", "done"}, recvStop : BOOLEAN,
   frames : Seq(Frames), allow : BOOLEAN, tail : BOOLEAN, partial : Pcm,
   terminal : {"none", "empty", "text", "failed"}, retryable : BOOLEAN,
   emitted : BOOLEAN, back : {"quit", "terminal", "drained", "replayOver"}]

SharedType ==
  /\ app \in AppStates
  /\ audio \in AudioStates
  /\ work \in WorkStates
  /\ finals \in Seq(Finals)

(***************************************************************************)
(* The inductive invariants, a common part and one for each provider.      *)
(***************************************************************************)

\* Audio was lost: the pending buffer has overrun.
Lost == app.captured > Len(app.taken)

\* The session has a reason to stop listening.
ListeningOver == app.mic = "stopped" \/ app.aborted \/ Lost

Lifecycle ==
  /\ pc = "idle" <=> app.mic = "idle"
  /\ app.running <=> pc \notin {"idle", "ended"}
  /\ Len(app.taken) <= app.captured
  /\ audio.overflowed => Lost

OneFinal ==
  /\ Len(finals) <= 1
  /\ pc \notin {"stop", "ended"} => finals = <<>>
  /\ pc = "stop" => app.aborted \/ finals # <<>>
  /\ pc = "dispatch" /\ work.verdict = "text" => app.mic = "stopped" \/ Lost

AbortSeen ==
  /\ net.late <= 1
  /\ net.late = 1 => app.aborted /\ pc \notin {"link", "open"}

\* The chunk in hand is filled from the pending buffer up to a full one.
ChunkFits == Len(audio.chunk) <= ChunkUnits

Shared == SharedType /\ Lifecycle

VolcLateSteps ==
  {"tail", "flush", "vad", "silence", "wait", "join", "close", "decide",
   "replayOpen", "replaySend", "replayWait"}

VolcSteps ==
  {"idle", "opening", "reopen", "send", "buffer", "dispatch", "stop", "ended"}
    \union VolcLateSteps

VolcInv ==
  /\ Shared
  /\ net \in VolcNets
  /\ pc \in VolcSteps
  /\ OneFinal
  /\ ChunkFits
  /\ pc \in VolcLateSteps => ListeningOver
  /\ pc \in {"idle", "opening", "reopen", "send", "buffer"} /\ net.main.forceAbort
       => app.aborted

QwenLateSteps ==
  {"rest", "last", "final", "quit", "join", "replaySend", "replayFinal",
   "verdict"}

QwenSteps ==
  {"idle", "waitStop", "try", "link", "connecting", "send", "sample", "flush",
   "sent", "buffer", "dispatch", "stop", "ended"} \union QwenLateSteps

\* The first attempt, from its connection on.
QwenFirstSteps ==
  {"idle", "waitStop", "send", "sample", "flush", "sent", "buffer", "rest",
   "last", "final", "quit", "join"}

QwenInv ==
  /\ Shared
  /\ net \in QwenNets
  /\ pc \in QwenSteps
  /\ OneFinal
  /\ AbortSeen
  /\ pc \in QwenFirstSteps => ~net.replaying
  /\ net.replaying => audio.kept
  /\ ~net.input => app.mic = "stopped" \/ app.aborted
  /\ pc = "sent" => ListeningOver \/ net.failed \/ net.drainFailed
  /\ net.replaying \/ pc \in QwenLateSteps => ListeningOver

QwenAudioLateSteps ==
  {"unconnected", "rest", "finish", "final", "quit", "cancel", "join",
   "cancelled", "verdict", "replaySend", "replayFinal", "replayQuit",
   "replayJoin", "replayFailed"}

QwenAudioSteps ==
  {"idle", "try", "link", "connecting", "send", "flush", "left", "branch",
   "buffer", "dispatch", "stop", "ended"} \union QwenAudioLateSteps

QwenAudioInv ==
  /\ Shared
  /\ net \in QwenAudioNets
  /\ pc \in QwenAudioSteps
  /\ OneFinal
  /\ AbortSeen
  /\ pc = "unconnected" /\ work.recover => audio.kept
  /\ pc \in {"cancel", "cancelled"} => app.aborted
  /\ pc \in {"idle", "try", "link", "connecting"} /\ ~net.replaying
       => ~net.noSpeech /\ net.drain # "on"
  /\ pc \in {"send", "flush", "left", "branch"} /\ net.noSpeech => net.drainFailed
  /\ pc \in {"left", "branch"} => ListeningOver \/ net.failed \/ net.drainFailed
  /\ net.replaying \/ pc \in QwenAudioLateSteps => ListeningOver

DoubaoLateSteps ==
  {"rest", "last", "finish", "finishSend", "final", "quit", "join",
   "replaySend", "replayFinal", "verdict"}

DoubaoSteps ==
  {"idle", "waitStop", "try", "link", "connecting", "send", "sample", "flush",
   "sent", "buffer", "dispatch", "stop", "ended"} \union DoubaoLateSteps

DoubaoFirstSteps ==
  {"idle", "waitStop", "send", "sample", "flush", "sent", "buffer", "rest",
   "last", "finish", "finishSend", "final", "quit", "join"}

DoubaoInv ==
  /\ Shared
  /\ net \in DoubaoNets
  /\ pc \in DoubaoSteps
  /\ OneFinal
  /\ AbortSeen
  /\ pc \in DoubaoFirstSteps => ~net.replaying
  /\ net.replaying => audio.kept
  /\ ~net.input => app.mic = "stopped" \/ app.aborted
  /\ pc = "sent" => ListeningOver \/ net.failed \/ net.drainFailed
  /\ net.replaying \/ pc \in DoubaoLateSteps => ListeningOver

QwenFreeLateSteps ==
  {"decide", "replayJoin", "replaySend", "replayFrames", "replayFinalFrames",
   "replayOver"}

QwenFreeSteps ==
  {"idle", "prepare", "try", "link", "open", "connecting", "waitStop", "loop",
   "frames", "drain", "chunkFrames", "sendChunk", "drained", "drainedFrames",
   "tailFrames", "sendStop", "finalFrames", "terminal", "recover", "buffer",
   "claim", "emit", "post", "quit", "join", "stop", "ended"}
    \union QwenFreeLateSteps

QwenFreeOneFinal ==
  /\ Len(finals) <= 1
  /\ ~net.emitted \/ pc \in {"emit", "post"} => finals = <<>>
  /\ pc \in {"emit", "post"} => net.emitted
  /\ net.emitted /\ pc \notin {"emit", "post"} => app.aborted \/ finals # <<>>
  /\ pc \in {"quit", "join", "stop"} => app.aborted \/ finals # <<>>
  /\ pc \in {"claim", "emit", "post"} /\ work.verdict = "text" => app.mic = "stopped"

QwenFreeInv ==
  /\ Shared
  /\ net \in QwenFreeNets
  /\ pc \in QwenFreeSteps
  /\ QwenFreeOneFinal
  /\ ChunkFits
  /\ AbortSeen
  /\ net.replaying \/ pc \in QwenFreeLateSteps => app.mic = "stopped"
  /\ net.back = "replayOver" => app.mic = "stopped"

Inv == VolcInv \/ QwenInv \/ QwenAudioInv \/ DoubaoInv \/ QwenFreeInv

---------------------------------------------------------------------------
(***************************************************************************)
(* The steps all providers share.                                          *)
(***************************************************************************)

LEMMA PcmTypes ==
  ASSUME NEW s \in Pcm, NEW t \in Pcm
  PROVE  s \o t \in Pcm /\ <<>> \in Pcm /\ Len(s) \in Nat
  BY DEF Pcm

\* The buffers stay buffers; the flag of the overrun is the capture thread's.
LEMMA KeepType ==
  ASSUME NEW a \in AudioStates, NEW units \in Pcm
  PROVE  /\ Keep(a, units) \in AudioStates
         /\ Keep(a, units).overflowed = a.overflowed
         /\ Keep(a, units).pending = a.pending
         /\ Keep(a, units).chunk = a.chunk
         /\ Keep(a, units).kept => a.kept
<1>1. a.replay \o units \in Pcm
  BY PcmTypes DEF AudioStates
<1> QED
  BY <1>1 DEF Keep, AudioStates

LEMMA EnqueueKeeps ==
  ASSUME Shared, Enqueue
  PROVE  /\ Shared'
         /\ UNCHANGED <<pc, net, work, finals>>
         /\ app'.mic = app.mic /\ app'.aborted = app.aborted
         /\ app'.running = app.running
         /\ audio'.kept = audio.kept /\ audio'.replay = audio.replay
         /\ audio'.chunk = audio.chunk
         /\ Lost => Lost'
<1> DEFINE unit == app.captured + 1
           fits == Len(audio.pending) < PendingMax
<1>0. app \in AppStates /\ audio \in AudioStates
  BY DEF Shared, SharedType
<1>1. /\ audio' = PendingAppend(audio, unit)
      /\ app' = [app EXCEPT !.captured = unit,
                            !.taken = IF fits THEN Append(@, unit) ELSE @]
      /\ UNCHANGED <<pc, net, work, finals>>
  BY DEF Enqueue
<1>2. unit \in Nat /\ Append(app.taken, unit) \in Pcm
      /\ Append(audio.pending, unit) \in Pcm
      /\ Len(Append(app.taken, unit)) = Len(app.taken) + 1
      /\ Len(app.taken) \in Nat
  BY <1>0 DEF AppStates, AudioStates, Pcm
<1>3. /\ app' \in AppStates
      /\ app'.mic = app.mic /\ app'.aborted = app.aborted
      /\ app'.running = app.running
      /\ app'.captured = unit
      /\ app'.taken = IF fits THEN Append(app.taken, unit) ELSE app.taken
  BY <1>0, <1>1, <1>2 DEF AppStates
<1>4. /\ audio' \in AudioStates
      /\ audio'.kept = audio.kept /\ audio'.replay = audio.replay
      /\ audio'.chunk = audio.chunk
      /\ audio'.overflowed => audio.overflowed \/ ~fits
  BY <1>0, <1>1, <1>2 DEF AudioStates, PendingAppend
<1>5. Lifecycle'
  BY <1>0, <1>1, <1>2, <1>3, <1>4 DEF Shared, Lifecycle, Lost, AppStates
<1>6. Lost => Lost'
  BY <1>0, <1>2, <1>3 DEF Lost, AppStates
<1> QED
  BY <1>1, <1>3, <1>4, <1>5, <1>6 DEF Shared, SharedType

LEMMA StopInputKeeps ==
  ASSUME Shared, StopInput
  PROVE  /\ Shared'
         /\ UNCHANGED <<audio, pc, net, work, finals>>
         /\ app' = [app EXCEPT !.mic = "stopped"]
         /\ app'.mic = "stopped" /\ app'.aborted = app.aborted
         /\ app'.running = app.running
         /\ Lost' = Lost
<1>1. /\ app' \in AppStates
      /\ app'.mic = "stopped" /\ app'.aborted = app.aborted
      /\ app'.running = app.running /\ app'.captured = app.captured
      /\ app'.taken = app.taken
  BY DEF Shared, SharedType, StopInput, AppStates
<1> QED
  BY <1>1 DEF Shared, SharedType, Lifecycle, Lost, StopInput, Streaming

LEMMA StartKeeps ==
  ASSUME Shared, NEW first, first \notin {"idle", "ended"}, StartAt(first)
  PROVE  /\ Shared'
         /\ UNCHANGED <<audio, net, work, finals>>
         /\ pc = "idle" /\ pc' = first
         /\ app'.mic = "open" /\ app'.aborted = app.aborted
         /\ Lost' = Lost
<1>1. /\ app' \in AppStates
      /\ app'.mic = "open" /\ app'.running /\ app'.aborted = app.aborted
      /\ app'.captured = app.captured /\ app'.taken = app.taken
  BY DEF Shared, SharedType, StartAt, AppStates
<1> QED
  BY <1>1 DEF Shared, SharedType, Lifecycle, Lost, StartAt

LEMMA AbortKeeps ==
  ASSUME Shared, NEW closed, AbortWith(closed)
  PROVE  /\ Shared'
         /\ UNCHANGED <<audio, pc, work, finals>>
         /\ net' = closed
         /\ ~app.aborted /\ app.running /\ app.mic # "idle"
         /\ app'.aborted /\ app'.mic = app.mic /\ app'.running
         /\ Lost' = Lost
<1>1. /\ app' \in AppStates
      /\ app'.aborted /\ app'.mic = app.mic /\ app'.running = app.running
      /\ app'.captured = app.captured /\ app'.taken = app.taken
  BY DEF Shared, SharedType, AbortWith, AppStates
<1> QED
  BY <1>1 DEF Shared, SharedType, Lifecycle, Lost, AbortWith

LEMMA DispatchKeeps ==
  ASSUME Shared, Dispatch, finals = <<>>
  PROVE  /\ Shared'
         /\ UNCHANGED <<app, audio, net, work>>
         /\ pc = "dispatch" /\ pc' = "stop"
         /\ Len(finals') = 1 /\ finals' # <<>> /\ app.running
         /\ \E final \in Finals :
              finals' = <<final>> /\ final.kind = work.verdict
<1>0. [kind |-> work.verdict, text |-> work.text] \in Finals
  BY DEF Shared, SharedType, Finals, WorkStates
<1>1. /\ finals' = <<[kind |-> work.verdict, text |-> work.text]>>
      /\ finals' \in Seq(Finals) /\ Len(finals') = 1 /\ finals' # <<>>
  BY <1>0 DEF Shared, SharedType, Dispatch
<1>2. \E final \in Finals : finals' = <<final>> /\ final.kind = work.verdict
  BY <1>0, <1>1
<1> QED
  BY <1>1, <1>2 DEF Shared, SharedType, Lifecycle, Lost, Dispatch

LEMMA StoppedKeeps ==
  ASSUME Shared, Stopped
  PROVE  /\ Shared'
         /\ UNCHANGED <<audio, net, work, finals>>
         /\ pc = "stop" /\ pc' = "ended"
         /\ app'.mic = app.mic /\ app'.aborted = app.aborted
         /\ Lost' = Lost
<1>1. /\ app' \in AppStates
      /\ ~app'.running /\ app'.mic = app.mic /\ app'.aborted = app.aborted
      /\ app'.captured = app.captured /\ app'.taken = app.taken
  BY DEF Shared, SharedType, Stopped, AppStates
<1> QED
  BY <1>1 DEF Shared, SharedType, Lifecycle, Lost, Stopped

\* The steps of the worker and of the receiver: they move pc within the running
\* session, and neither the flags of the application nor the overrun are theirs.
LEMMA WorkerKeeps ==
  ASSUME Shared, UNCHANGED <<app, finals>>,
         pc' = pc \/ (pc \notin {"idle", "ended"} /\ pc' \notin {"idle", "ended"}),
         audio' \in AudioStates, audio'.overflowed => audio.overflowed,
         work' \in WorkStates
  PROVE  Shared' /\ Lost' = Lost
  BY DEF Shared, SharedType, Lifecycle, Lost

LEMMA NotStreaming ==
  ASSUME Shared, pc # "idle", ~Streaming
  PROVE  app.mic = "stopped" \/ app.aborted
  BY DEF Shared, SharedType, AppStates, Lifecycle, Streaming

\* A chunk is cut from what was gathered, and from the replay.
LEMMA CutTypes ==
  ASSUME NEW s \in Pcm, NEW m \in Nat, NEW n \in Nat, n <= Len(s)
  PROVE  SubSeq(s, m + 1, n) \in Pcm
  BY DEF Pcm

LEMMA FrontAndRest ==
  ASSUME NEW s \in Pcm, NEW n \in Nat, n <= Len(s)
  PROVE  SubSeq(s, 1, n) \in Pcm /\ SubSeq(s, n + 1, Len(s)) \in Pcm
  BY DEF Pcm

\* SwapTo(buffered) and the replay buffer.
LEMMA KeepPendingType ==
  ASSUME audio \in AudioStates
  PROVE  /\ KeepPending(audio) \in AudioStates
         /\ KeepPending(audio).overflowed = audio.overflowed
         /\ KeepPending(audio).chunk = audio.chunk
         /\ KeepPending(audio).kept => audio.kept
<1>1. audio.pending \in Pcm /\ <<>> \in Pcm
  BY DEF AudioStates, Pcm
<1>2. /\ Keep(audio, audio.pending) \in AudioStates
      /\ Keep(audio, audio.pending).overflowed = audio.overflowed
      /\ Keep(audio, audio.pending).chunk = audio.chunk
      /\ Keep(audio, audio.pending).kept => audio.kept
  BY <1>1, KeepType
<1> QED
  BY <1>1, <1>2 DEF KeepPending, AudioStates

LEMMA PrefixesType ==
  ASSUME NEW s \in Pcm
  PROVE  Prefixes(s) \subseteq Pcm
<1>1. ASSUME NEW n \in 1..Len(s)
      PROVE  SubSeq(s, 1, n) \in Pcm
  BY FrontAndRest, PcmTypes
<1> QED
  BY <1>1 DEF Prefixes

\* What a step may leave in the place of the connection.
LEMMA QwenLinks ==
  ASSUME net \in QwenNets
  PROVE  /\ net.link \in Links
         /\ Qwen!NoLink \in Links /\ Qwen!FreshLink \in Links
         /\ Qwen!Connecting(net.link) \in Links /\ Qwen!Connected(net.link) \in Links
         /\ Qwen!Aborted(net.link) \in Links /\ Qwen!Shut(net.link) \in Links
<1>1. net.link \in Links
  BY DEF QwenNets
<1>2. Qwen!NoLink \in Links
  BY DEF Qwen!NoLink, Links, Pcm
<1>3. Qwen!FreshLink \in Links
  BY <1>2 DEF Qwen!FreshLink, Links
<1> QED
  BY <1>1, <1>2, <1>3
     DEF Qwen!Shut, Qwen!Aborted, Qwen!Connecting, Qwen!Connected, Links

LEMMA QwenSends ==
  ASSUME net \in QwenNets, NEW units \in Pcm, NEW last \in BOOLEAN,
         NEW s \in Qwen!Sends(net.link, units, last)
  PROVE  s.link \in Links /\ s.ok \in BOOLEAN
<1> DEFINE sent == [net.link EXCEPT !.got = @ \o units, !.ended = last]
<1>1. net.link \in Links /\ Qwen!Shut(net.link) \in Links
  BY QwenLinks
<1>2. net.link.got \o units \in Pcm
  BY <1>1, PcmTypes DEF Links
<1>3. sent \in Links
  BY <1>1, <1>2 DEF Links
<1>4. CASE s = [link |-> sent, ok |-> TRUE]
  BY <1>3, <1>4
<1>5. CASE s = [link |-> net.link, ok |-> FALSE]
  BY <1>1, <1>5
<1>6. CASE s = [link |-> Qwen!Shut(net.link), ok |-> FALSE]
  BY <1>1, <1>6
<1> QED
  BY <1>4, <1>5, <1>6 DEF Qwen!Sends

LEMMA QwenTry ==
  ASSUME QwenInv, Qwen!Try
  PROVE  QwenInv' /\ UNCHANGED <<app, finals>>
<1>0. net \in QwenNets /\ audio \in AudioStates /\ work \in WorkStates /\ Shared
  BY DEF QwenInv, Shared, SharedType
<1>1. net.tries + 1 \in Nat
  BY <1>0 DEF QwenNets
<1>2. net' \in QwenNets
  BY <1>0, <1>1, QwenLinks DEF QwenNets, Qwen!Try
<1>3. /\ net'.replaying = net.replaying /\ net'.late = net.late
      /\ net'.input = net.input /\ net'.failed = net.failed
      /\ net'.drainFailed = net.drainFailed
  BY <1>0, <1>1, QwenLinks DEF QwenNets, Qwen!Try
<1>4. /\ work' \in WorkStates
      /\ work'.verdict = work.verdict
  BY <1>0, <1>1 DEF WorkStates, Qwen!Try
<1>5. /\ pc = "try" /\ ~app.aborted /\ pc' = "link"
      /\ UNCHANGED <<app, finals, audio>>
  BY DEF Qwen!Try
<1> QED
  BY <1>0, <1>1, <1>2, <1>3, <1>4, <1>5, WorkerKeeps DEF QwenInv, OneFinal, AbortSeen,
     ListeningOver, QwenSteps, QwenLateSteps, QwenFirstSteps

LEMMA QwenConnect ==
  ASSUME QwenInv, Qwen!Connect
  PROVE  QwenInv' /\ UNCHANGED <<app, finals>>
<1>0. net \in QwenNets /\ audio \in AudioStates /\ work \in WorkStates /\ Shared
  BY DEF QwenInv, Shared, SharedType
<1>1. net.late \in Nat /\ net.late + 1 \in Nat
  BY <1>0 DEF QwenNets
<1>2. net' \in QwenNets
  BY <1>0, <1>1, QwenLinks DEF QwenNets, Qwen!Connect
<1>3. /\ net'.replaying = net.replaying /\ net'.input = net.input
      /\ net'.failed = net.failed /\ net'.drainFailed = net.drainFailed
      /\ net'.late = IF app.aborted THEN net.late + 1 ELSE net.late
  BY <1>0, <1>1, QwenLinks DEF QwenNets, Qwen!Connect
<1>4. /\ pc = "link" /\ pc' = "connecting"
      /\ UNCHANGED <<app, finals, audio, work>>
  BY DEF Qwen!Connect
<1> QED
  BY <1>0, <1>1, <1>2, <1>3, <1>4, WorkerKeeps DEF QwenInv, OneFinal, AbortSeen,
     ListeningOver, QwenSteps, QwenLateSteps, QwenFirstSteps

LEMMA QwenConnectOk ==
  ASSUME QwenInv, Qwen!ConnectOk
  PROVE  QwenInv' /\ UNCHANGED <<app, finals>>
<1>0. net \in QwenNets /\ audio \in AudioStates /\ work \in WorkStates /\ Shared
  BY DEF QwenInv, Shared, SharedType
<1>1. net' \in QwenNets
  BY <1>0, QwenLinks DEF QwenNets, Qwen!ConnectOk
<1>2. /\ net'.replaying = net.replaying /\ net'.late = net.late
      /\ net'.input = net.input /\ net'.failed = net.failed
      /\ net'.drainFailed = net.drainFailed
  BY <1>0, QwenLinks DEF QwenNets, Qwen!ConnectOk
<1>3. /\ pc = "connecting" /\ pc' = IF net.replaying THEN "replaySend" ELSE "send"
      /\ UNCHANGED <<app, finals, audio, work>>
  BY DEF Qwen!ConnectOk
<1> QED
  BY <1>0, <1>1, <1>2, <1>3, WorkerKeeps DEF QwenInv, OneFinal, AbortSeen, ListeningOver,
     QwenSteps, QwenLateSteps, QwenFirstSteps

LEMMA QwenConnectFailed ==
  ASSUME QwenInv, Qwen!ConnectFailed
  PROVE  QwenInv' /\ UNCHANGED <<app, finals>>
<1>0. net \in QwenNets /\ audio \in AudioStates /\ work \in WorkStates /\ Shared
  BY DEF QwenInv, Shared, SharedType
<1>1. Qwen!MaxTries \in Nat
  BY DEF Qwen!MaxTries
<1>2. net' \in QwenNets
  BY <1>0, <1>1, QwenLinks DEF QwenNets, Qwen!ConnectFailed
<1>3. /\ net'.replaying = net.replaying /\ net'.late = net.late
      /\ net'.input = net.input /\ net'.failed = net.failed
      /\ net'.drainFailed = net.drainFailed
  BY <1>0, <1>1, QwenLinks DEF QwenNets, Qwen!ConnectFailed
<1>4. /\ pc = "connecting" /\ pc' = "try"
      /\ UNCHANGED <<app, finals, audio, work>>
  BY DEF Qwen!ConnectFailed
<1> QED
  BY <1>0, <1>1, <1>2, <1>3, <1>4, WorkerKeeps DEF QwenInv, OneFinal, AbortSeen,
     ListeningOver, QwenSteps, QwenLateSteps, QwenFirstSteps

LEMMA QwenNotConnected ==
  ASSUME QwenInv, Qwen!NotConnected
  PROVE  QwenInv' /\ UNCHANGED <<app, finals>>
<1>0. net \in QwenNets /\ audio \in AudioStates /\ work \in WorkStates /\ Shared
  BY DEF QwenInv, Shared, SharedType
<1>1. UNCHANGED net
  BY DEF Qwen!NotConnected
<1>2. /\ pc = "try" /\ ~net.replaying /\ pc' = "waitStop"
      /\ UNCHANGED <<app, finals, audio, work>>
  BY DEF Qwen!NotConnected, Qwen!NoMoreTries
<1> QED
  BY <1>0, <1>1, <1>2, WorkerKeeps DEF QwenInv, OneFinal, AbortSeen, ListeningOver,
     QwenSteps, QwenLateSteps, QwenFirstSteps

LEMMA QwenWaitForRecordingStop ==
  ASSUME QwenInv, Qwen!WaitForRecordingStop
  PROVE  QwenInv' /\ UNCHANGED <<app, finals>>
<1>0. net \in QwenNets /\ audio \in AudioStates /\ work \in WorkStates /\ Shared
  BY DEF QwenInv, Shared, SharedType
<1>1. /\ Qwen!PrimaryUnlessAborted \in WorkStates
      /\ Qwen!PrimaryUnlessAborted.verdict = work.verdict
  BY <1>0 DEF WorkStates, Qwen!PrimaryUnlessAborted, Qwen!Primary
<1>2. /\ Qwen!NoText \in Pcm
      /\ "error" \in Verdicts
  BY DEF Qwen!NoText, Pcm, Verdicts, Kinds
<1>3. UNCHANGED net
  BY DEF Qwen!WaitForRecordingStop
<1>4. /\ work' \in WorkStates
      /\ work'.verdict = "error"
  BY <1>0, <1>1, <1>2 DEF WorkStates, Qwen!WaitForRecordingStop, Qwen!Conclude
<1>5. /\ pc = "waitStop" /\ pc' = IF app.aborted THEN "stop" ELSE "dispatch"
      /\ UNCHANGED <<app, finals, audio>>
  BY DEF Qwen!WaitForRecordingStop, Qwen!Conclude
<1> QED
  BY <1>0, <1>1, <1>2, <1>3, <1>4, <1>5, WorkerKeeps DEF QwenInv, OneFinal, AbortSeen,
     ListeningOver, QwenSteps, QwenLateSteps, QwenFirstSteps

LEMMA QwenTakePending ==
  ASSUME QwenInv, Qwen!TakePending
  PROVE  QwenInv' /\ UNCHANGED <<app, finals>>
<1>0. net \in QwenNets /\ audio \in AudioStates /\ work \in WorkStates /\ Shared
  BY DEF QwenInv, Shared, SharedType
<1>1. /\ Qwen!SwapPending(audio) \in AudioStates
      /\ Qwen!SwapPending(audio).kept = audio.kept
      /\ Qwen!SwapPending(audio).overflowed = audio.overflowed
  BY <1>0, PcmTypes DEF AudioStates, Qwen!SwapPending
<1>2. UNCHANGED net
  BY DEF Qwen!TakePending
<1>3. /\ audio' \in AudioStates
      /\ audio'.kept = audio.kept
      /\ audio'.overflowed => audio.overflowed
  BY <1>0, <1>1 DEF AudioStates, Qwen!TakePending
<1>4. /\ pc = "send" /\ pc' = IF app.aborted \/ net.drainFailed THEN "sent" ELSE "sample"
      /\ UNCHANGED <<app, finals, work>>
  BY DEF Qwen!TakePending
<1> QED
  BY <1>0, <1>1, <1>2, <1>3, <1>4, WorkerKeeps DEF QwenInv, OneFinal, AbortSeen,
     ListeningOver, QwenSteps, QwenLateSteps, QwenFirstSteps

LEMMA QwenSampleInput ==
  ASSUME QwenInv, Qwen!SampleInput
  PROVE  QwenInv' /\ UNCHANGED <<app, finals>>
<1>0. net \in QwenNets /\ audio \in AudioStates /\ work \in WorkStates /\ Shared
  BY DEF QwenInv, Shared, SharedType
<1>1. pc # "idle" /\ ~Qwen!Streaming => app.mic = "stopped" \/ app.aborted
  BY <1>0, NotStreaming DEF Streaming, Qwen!Streaming
<1>2. net' \in QwenNets
  BY <1>0, <1>1 DEF QwenNets, Qwen!SampleInput, Qwen!Streaming
<1>3. /\ net'.replaying = net.replaying /\ net'.late = net.late
      /\ net'.failed = net.failed /\ net'.drainFailed = net.drainFailed
      /\ net'.input = Qwen!Streaming
  BY <1>0, <1>1 DEF QwenNets, Qwen!SampleInput, Qwen!Streaming
<1>4. /\ pc = "sample" /\ pc' = "flush"
      /\ UNCHANGED <<app, finals, audio, work>>
  BY DEF Qwen!SampleInput
<1> QED
  BY <1>0, <1>1, <1>2, <1>3, <1>4, WorkerKeeps DEF QwenInv, OneFinal, AbortSeen,
     ListeningOver, QwenSteps, QwenLateSteps, QwenFirstSteps

\* Keep() as the instance has it.
LEMMA QwenKeep ==
  ASSUME NEW units \in Pcm, audio \in AudioStates
  PROVE  Qwen!Keep(audio, units) = Keep(audio, units)
  BY DEF Qwen!Keep, Keep

\* A chunk is sent: nothing but the link, the failure and the buffers change.
\* A new link, and the failure that may come with it.
LEMMA QwenNewLink ==
  ASSUME net \in QwenNets, NEW l \in Links, net' = [net EXCEPT !.link = l]
  PROVE  /\ net' \in QwenNets /\ net'.failed = net.failed
         /\ net'.replaying = net.replaying /\ net'.late = net.late
         /\ net'.input = net.input /\ net'.drainFailed = net.drainFailed
  BY DEF QwenNets

LEMMA QwenLinkFailed ==
  ASSUME net \in QwenNets, NEW l \in Links, net' = Qwen!Fail([net EXCEPT !.link = l])
  PROVE  /\ net' \in QwenNets /\ net'.failed
         /\ net'.replaying = net.replaying /\ net'.late = net.late
         /\ net'.input = net.input /\ net'.drainFailed = net.drainFailed
<1> DEFINE n == [net EXCEPT !.link = l]
<1>1. /\ n \in QwenNets /\ n.replaying = net.replaying /\ n.late = net.late
      /\ n.input = net.input /\ n.drainFailed = net.drainFailed
  BY DEF QwenNets
<1>2. net' = [n EXCEPT !.failed = TRUE]
  BY DEF Qwen!Fail
<1> HIDE DEF n
<1>3. net' \in QwenNets
  BY <1>1, <1>2 DEF QwenNets
<1>4. /\ net'.failed
      /\ net'.replaying = n.replaying /\ net'.late = n.late
      /\ net'.input = n.input /\ net'.drainFailed = n.drainFailed
  BY <1>1, <1>2 DEF QwenNets
<1> QED
  BY <1>1, <1>3, <1>4

LEMMA QwenSendFront ==
  ASSUME net \in QwenNets, audio \in AudioStates, work \in WorkStates,
         NEW n \in Nat, n <= Len(audio.chunk), NEW next, NEW failedAt,
         Qwen!SendFront(n, next, failedAt)
  PROVE  /\ net' \in QwenNets /\ audio' \in AudioStates /\ work' \in WorkStates
         /\ net'.replaying = net.replaying /\ net'.late = net.late
         /\ net'.input = net.input /\ net'.drainFailed = net.drainFailed
         /\ work'.verdict = work.verdict /\ work'.retries = work.retries
         /\ audio'.kept => audio.kept
         /\ audio'.overflowed => audio.overflowed
         /\ \/ pc' = next /\ net'.failed = net.failed
            \/ pc' = failedAt /\ net'.failed
<1> DEFINE front == SubSeq(audio.chunk, 1, n)
           rest == SubSeq(audio.chunk, n + 1, Len(audio.chunk))
           kept == Qwen!Keep(audio, front)
<1>1. PICK s \in Qwen!Sends(net.link, front, FALSE) :
        IF s.ok
        THEN /\ audio' = [kept EXCEPT !.chunk = SubSeq(@, n + 1, Len(@))]
             /\ net' = [net EXCEPT !.link = s.link]
             /\ work' = work
             /\ pc' = next
        ELSE /\ audio' = kept
             /\ net' = Qwen!Fail([net EXCEPT !.link = s.link])
             /\ Qwen!FailAndReplay
             /\ pc' = failedAt
  BY DEF Qwen!SendFront
<1>2. front \in Pcm /\ rest \in Pcm
  BY FrontAndRest DEF AudioStates
<1>3. s.link \in Links
  BY <1>1, <1>2, QwenSends
<1>4. /\ kept \in AudioStates /\ kept.chunk = audio.chunk
      /\ kept.overflowed = audio.overflowed /\ (kept.kept => audio.kept)
  BY <1>2, QwenKeep, KeepType
<1>5. CASE s.ok
  <2>1. audio' = [kept EXCEPT !.chunk = rest]
    BY <1>1, <1>4, <1>5
  <2>2. audio' \in AudioStates /\ (audio'.kept => audio.kept)
        /\ (audio'.overflowed => audio.overflowed)
    BY <1>2, <1>4, <2>1 DEF AudioStates
  <2>3. /\ net' \in QwenNets /\ net'.failed = net.failed
        /\ net'.replaying = net.replaying /\ net'.late = net.late
        /\ net'.input = net.input /\ net'.drainFailed = net.drainFailed
    BY <1>1, <1>3, <1>5 DEF QwenNets
  <2> QED
    BY <1>1, <1>5, <2>2, <2>3
<1>6. CASE ~s.ok
  <2>1. /\ net' \in QwenNets /\ net'.failed
        /\ net'.replaying = net.replaying /\ net'.late = net.late
        /\ net'.input = net.input /\ net'.drainFailed = net.drainFailed
    <3>1. net' = Qwen!Fail([net EXCEPT !.link = s.link])
      BY <1>1, <1>6
    <3> QED
      BY <1>3, <3>1, QwenLinkFailed
  <2>2. /\ work' \in WorkStates /\ work'.verdict = work.verdict
        /\ work'.retries = work.retries
    BY <1>1, <1>6 DEF WorkStates, Qwen!FailAndReplay
  <2> QED
    BY <1>1, <1>4, <1>6, <2>1, <2>2
<1> QED
  BY <1>5, <1>6

LEMMA QwenFlushFullChunk ==
  ASSUME QwenInv, Qwen!FlushFullChunk
  PROVE  QwenInv' /\ UNCHANGED <<app, finals>>
<1>0. net \in QwenNets /\ audio \in AudioStates /\ work \in WorkStates /\ Shared
  BY DEF QwenInv, Shared, SharedType
<1>1. Len(audio.chunk) \in Nat /\ ChunkUnits \in Nat /\ ChunkUnits > 0
  BY <1>0, PcmTypes, SessionAssumption DEF AudioStates
<1>2. ChunkUnits \in Nat /\ ChunkUnits <= Len(audio.chunk)
  BY <1>1 DEF Qwen!FlushFullChunk
<1>3. /\ pc = "flush" /\ UNCHANGED <<app, finals>>
      /\ Qwen!SendFront(ChunkUnits, "flush", "sent")
  BY DEF Qwen!FlushFullChunk
<1>4. /\ net' \in QwenNets /\ audio' \in AudioStates /\ work' \in WorkStates
      /\ net'.replaying = net.replaying /\ net'.late = net.late
      /\ net'.input = net.input /\ net'.drainFailed = net.drainFailed
      /\ work'.verdict = work.verdict
      /\ audio'.kept => audio.kept
      /\ audio'.overflowed => audio.overflowed
      /\ \/ pc' = "flush" /\ net'.failed = net.failed
         \/ pc' = "sent" /\ net'.failed
  BY <1>0, <1>2, <1>3, QwenSendFront
<1>5. ~net.replaying
  BY <1>3 DEF QwenInv, QwenFirstSteps
<1> QED
  BY <1>0, <1>3, <1>4, <1>5, WorkerKeeps DEF QwenInv, OneFinal, AbortSeen, ListeningOver,
     QwenSteps, QwenLateSteps, QwenFirstSteps

LEMMA QwenFlushed ==
  ASSUME QwenInv, Qwen!Flushed
  PROVE  QwenInv' /\ UNCHANGED <<app, finals>>
<1>0. net \in QwenNets /\ audio \in AudioStates /\ work \in WorkStates /\ Shared
  BY DEF QwenInv, Shared, SharedType
<1>1. net' = IF audio.overflowed THEN [net EXCEPT !.failed = TRUE] ELSE net
  BY DEF Qwen!Flushed, Qwen!Fail
<1>2. /\ net' \in QwenNets
      /\ net'.replaying = net.replaying /\ net'.late = net.late
      /\ net'.input = net.input /\ net'.drainFailed = net.drainFailed
  BY <1>0, <1>1 DEF QwenNets
<1>3. /\ work' \in WorkStates
      /\ work'.verdict = work.verdict
  BY <1>0 DEF WorkStates, Qwen!Flushed, Qwen!FailAndReplay
<1>4. /\ pc = "flush"
      /\ pc' = IF audio.overflowed \/ ~net.input THEN "sent" ELSE "send"
      /\ UNCHANGED <<app, finals, audio>>
  BY DEF Qwen!Flushed
<1> QED
  BY <1>0, <1>1, <1>2, <1>3, <1>4, WorkerKeeps DEF QwenInv, OneFinal, AbortSeen,
     ListeningOver, QwenSteps, QwenLateSteps, QwenFirstSteps, Lifecycle, Shared

LEMMA QwenLoopLeft ==
  ASSUME QwenInv, Qwen!LoopLeft
  PROVE  QwenInv' /\ UNCHANGED <<app, finals>>
<1>0. net \in QwenNets /\ audio \in AudioStates /\ work \in WorkStates /\ Shared
  BY DEF QwenInv, Shared, SharedType
<1>1. pc # "idle" /\ ~Qwen!Streaming => app.mic = "stopped" \/ app.aborted
  BY <1>0, NotStreaming DEF Streaming, Qwen!Streaming
<1>2. net' \in QwenNets
  BY <1>0, <1>1 DEF QwenNets, Qwen!LoopLeft
<1>3. /\ net'.replaying = net.replaying /\ net'.late = net.late
      /\ net'.input = net.input /\ net'.drainFailed = net.drainFailed
      /\ net'.failed = (net.failed \/ net.drainFailed)
  BY <1>0, <1>1 DEF QwenNets, Qwen!LoopLeft
<1>4. /\ work' \in WorkStates
      /\ work'.verdict = work.verdict
  BY <1>0, <1>1 DEF WorkStates, Qwen!LoopLeft
<1>5. /\ pc = "sent"
      /\ pc' = IF app.aborted THEN "quit"
             ELSE IF (net.failed \/ net.drainFailed) /\ Qwen!Streaming
             THEN "buffer" ELSE "rest"
      /\ UNCHANGED <<app, finals, audio>>
  BY DEF Qwen!LoopLeft
<1> QED
  BY <1>0, <1>1, <1>2, <1>3, <1>4, <1>5, WorkerKeeps DEF QwenInv, OneFinal, AbortSeen,
     ListeningOver, QwenSteps, QwenLateSteps, QwenFirstSteps

LEMMA QwenBuffer ==
  ASSUME QwenInv, Qwen!Buffer
  PROVE  QwenInv' /\ UNCHANGED <<app, finals>>
<1>0. net \in QwenNets /\ audio \in AudioStates /\ work \in WorkStates /\ Shared
  BY DEF QwenInv, Shared, SharedType
<1>1. pc # "idle" /\ ~Qwen!Streaming => app.mic = "stopped" \/ app.aborted
  BY <1>0, NotStreaming DEF Streaming, Qwen!Streaming
<1>2. Qwen!KeepPending(audio) = KeepPending(audio)
  BY DEF Qwen!KeepPending, KeepPending, Qwen!Keep, Keep
<1>3. UNCHANGED net
  BY DEF Qwen!Buffer
<1>4. /\ audio' \in AudioStates
      /\ audio'.kept => audio.kept
      /\ audio'.overflowed => audio.overflowed
  BY <1>0, <1>1, <1>2, KeepPendingType DEF AudioStates, Qwen!Buffer
<1>5. /\ pc = "buffer"
      /\ pc' = "buffer" \/ (pc' = "rest" /\ (~Qwen!Streaming \/ audio.overflowed))
      /\ UNCHANGED <<app, finals, work>>
  BY DEF Qwen!Buffer
<1> QED
  BY <1>0, <1>1, <1>2, <1>3, <1>4, <1>5, WorkerKeeps DEF QwenInv, OneFinal, AbortSeen,
     ListeningOver, QwenSteps, QwenLateSteps, QwenFirstSteps, Lifecycle, Shared

LEMMA QwenTakeRest ==
  ASSUME QwenInv, Qwen!TakeRest
  PROVE  QwenInv' /\ UNCHANGED <<app, finals>>
<1>0. net \in QwenNets /\ audio \in AudioStates /\ work \in WorkStates /\ Shared
  BY DEF QwenInv, Shared, SharedType
<1>1. /\ Qwen!SwapPending(audio) \in AudioStates
      /\ Qwen!SwapPending(audio).kept = audio.kept
      /\ Qwen!SwapPending(audio).overflowed = audio.overflowed
  BY <1>0, PcmTypes DEF AudioStates, Qwen!SwapPending
<1>2. <<>> \in Pcm
  BY PcmTypes DEF Pcm
<1>3. UNCHANGED net
  BY DEF Qwen!TakeRest
<1>4. /\ audio' \in AudioStates
      /\ audio'.kept = audio.kept
      /\ audio'.overflowed => audio.overflowed
  BY <1>0, <1>1, <1>2 DEF AudioStates, Qwen!TakeRest
<1>5. /\ pc = "rest" /\ pc' \in {"quit", "last"}
      /\ UNCHANGED <<app, finals, work>>
  BY DEF Qwen!TakeRest
<1> QED
  BY <1>0, <1>1, <1>2, <1>3, <1>4, <1>5, WorkerKeeps DEF QwenInv, OneFinal, AbortSeen,
     ListeningOver, QwenSteps, QwenLateSteps, QwenFirstSteps

LEMMA QwenSendRest ==
  ASSUME QwenInv, Qwen!SendRest
  PROVE  QwenInv' /\ UNCHANGED <<app, finals>>
<1>0. net \in QwenNets /\ audio \in AudioStates /\ work \in WorkStates /\ Shared
  BY DEF QwenInv, Shared, SharedType
<1>1. Len(audio.chunk) \in Nat /\ ChunkUnits \in Nat /\ ChunkUnits > 0
  BY <1>0, PcmTypes, SessionAssumption DEF AudioStates
<1>2. /\ Smaller(ChunkUnits, Len(audio.chunk)) \in Nat
      /\ Smaller(ChunkUnits, Len(audio.chunk)) <= Len(audio.chunk)
  BY <1>1 DEF Qwen!SendRest, Smaller, Qwen!Smaller
<1>3. /\ pc = "last" /\ UNCHANGED <<app, finals>>
      /\ Qwen!SendFront(Smaller(ChunkUnits, Len(audio.chunk)), "last", "quit")
  BY DEF Qwen!SendRest, Smaller, Qwen!Smaller
<1>4. /\ net' \in QwenNets /\ audio' \in AudioStates /\ work' \in WorkStates
      /\ net'.replaying = net.replaying /\ net'.late = net.late
      /\ net'.input = net.input /\ net'.drainFailed = net.drainFailed
      /\ work'.verdict = work.verdict
      /\ audio'.kept => audio.kept
      /\ audio'.overflowed => audio.overflowed
      /\ \/ pc' = "last" /\ net'.failed = net.failed
         \/ pc' = "quit" /\ net'.failed
  BY <1>0, <1>2, <1>3, QwenSendFront
<1>5. ~net.replaying
  BY <1>3 DEF QwenInv, QwenFirstSteps
<1> QED
  BY <1>0, <1>3, <1>4, <1>5, WorkerKeeps DEF QwenInv, OneFinal, AbortSeen, ListeningOver,
     QwenSteps, QwenLateSteps, QwenFirstSteps

LEMMA QwenSendFinish ==
  ASSUME QwenInv, Qwen!SendFinish
  PROVE  QwenInv' /\ UNCHANGED <<app, finals>>
<1>0. net \in QwenNets /\ audio \in AudioStates /\ work \in WorkStates /\ Shared
  BY DEF QwenInv, Shared, SharedType
<1>1. <<>> \in Pcm
  BY DEF Pcm
<1>2. \A s \in Qwen!Sends(net.link, <<>>, TRUE) : s.link \in Links
  BY <1>0, <1>1, QwenSends
<1>3. PICK l \in Links :
        \/ net' = net
        \/ net' = [net EXCEPT !.link = l]
        \/ net' = Qwen!Fail([net EXCEPT !.link = l])
  BY <1>0, <1>2, QwenLinks DEF Qwen!SendFinish
<1>4. net' \in QwenNets
  BY <1>0, <1>3, QwenNewLink, QwenLinkFailed
<1>5. /\ net'.replaying = net.replaying /\ net'.late = net.late
      /\ net'.input = net.input /\ net'.drainFailed = net.drainFailed
  BY <1>0, <1>3, QwenNewLink, QwenLinkFailed
<1>6. /\ work' \in WorkStates
      /\ work'.verdict = work.verdict
  <2>1. work' = work \/ work' = [work EXCEPT !.recover = TRUE]
    BY DEF Qwen!SendFinish, Qwen!FailAndReplay
  <2> QED
    BY <1>0, <2>1 DEF WorkStates
<1>7. /\ pc = "last" /\ pc' \in {"quit", "final"}
      /\ UNCHANGED <<app, finals, audio>>
  BY DEF Qwen!SendFinish
<1> QED
  BY <1>0, <1>1, <1>2, <1>3, <1>4, <1>5, <1>6, <1>7, WorkerKeeps DEF QwenInv, OneFinal,
     AbortSeen, ListeningOver, QwenSteps, QwenLateSteps, QwenFirstSteps

LEMMA QwenAwaitFinish ==
  ASSUME QwenInv, Qwen!AwaitFinish
  PROVE  QwenInv' /\ UNCHANGED <<app, finals>>
<1>0. net \in QwenNets /\ audio \in AudioStates /\ work \in WorkStates /\ Shared
  BY DEF QwenInv, Shared, SharedType
<1>1. UNCHANGED net
  BY DEF Qwen!AwaitFinish
<1>2. /\ pc = "final" /\ pc' = "quit"
      /\ UNCHANGED <<app, finals, audio, work>>
  BY DEF Qwen!AwaitFinish
<1> QED
  BY <1>0, <1>1, <1>2, WorkerKeeps DEF QwenInv, OneFinal, AbortSeen, ListeningOver,
     QwenSteps, QwenLateSteps, QwenFirstSteps

LEMMA QwenFinishFailed ==
  ASSUME QwenInv, Qwen!FinishFailed
  PROVE  QwenInv' /\ UNCHANGED <<app, finals>>
<1>0. net \in QwenNets /\ audio \in AudioStates /\ work \in WorkStates /\ Shared
  BY DEF QwenInv, Shared, SharedType
<1>1. net' \in QwenNets
  BY <1>0 DEF QwenNets, Qwen!FinishFailed, Reasons, Qwen!CanRecover
<1>2. /\ net'.replaying = net.replaying /\ net'.late = net.late
      /\ net'.input = net.input /\ net'.drainFailed = net.drainFailed
  BY <1>0 DEF QwenNets, Qwen!FinishFailed, Reasons, Qwen!CanRecover
<1>3. /\ work' \in WorkStates
      /\ work'.verdict = work.verdict
  BY <1>0 DEF WorkStates, Qwen!FinishFailed, Qwen!CanRecover
<1>4. /\ pc = "final" /\ pc' = "quit"
      /\ UNCHANGED <<app, finals, audio>>
  BY DEF Qwen!FinishFailed
<1> QED
  BY <1>0, <1>1, <1>2, <1>3, <1>4, WorkerKeeps DEF QwenInv, OneFinal, AbortSeen,
     ListeningOver, QwenSteps, QwenLateSteps, QwenFirstSteps

LEMMA QwenStopDrain ==
  ASSUME QwenInv, Qwen!StopDrain
  PROVE  QwenInv' /\ UNCHANGED <<app, finals>>
<1>0. net \in QwenNets /\ audio \in AudioStates /\ work \in WorkStates /\ Shared
  BY DEF QwenInv, Shared, SharedType
<1>1. net' \in QwenNets
  BY <1>0, QwenLinks DEF QwenNets, Qwen!StopDrain
<1>2. /\ net'.replaying = net.replaying /\ net'.late = net.late
      /\ net'.input = net.input /\ net'.failed = net.failed
      /\ net'.drainFailed = net.drainFailed
  BY <1>0, QwenLinks DEF QwenNets, Qwen!StopDrain
<1>3. /\ pc = "quit" /\ pc' = "join"
      /\ UNCHANGED <<app, finals, audio, work>>
  BY DEF Qwen!StopDrain
<1> QED
  BY <1>0, <1>1, <1>2, <1>3, WorkerKeeps DEF QwenInv, OneFinal, AbortSeen, ListeningOver,
     QwenSteps, QwenLateSteps, QwenFirstSteps

LEMMA QwenDrainJoined ==
  ASSUME QwenInv, Qwen!DrainJoined
  PROVE  QwenInv' /\ UNCHANGED <<app, finals>>
<1>0. net \in QwenNets /\ audio \in AudioStates /\ work \in WorkStates /\ Shared
  BY DEF QwenInv, Shared, SharedType
<1>1. Qwen!ReplayWanted => audio.kept
  BY DEF Qwen!ReplayWanted
<1>2. (~app.aborted /\ Qwen!ReplayWanted) \in BOOLEAN
  OBVIOUS
<1>3. net' \in QwenNets
  BY <1>0, <1>1, <1>2, QwenLinks DEF QwenNets, Qwen!DrainJoined
<1>4. /\ net'.late = net.late /\ net'.input = net.input /\ net'.failed = net.failed
      /\ net'.drainFailed = net.drainFailed
      /\ net'.replaying = (~app.aborted /\ Qwen!ReplayWanted)
  BY <1>0, <1>1, <1>2, QwenLinks DEF QwenNets, Qwen!DrainJoined
<1>5. /\ work' \in WorkStates
      /\ work'.verdict = work.verdict
  BY <1>0, <1>1, <1>2 DEF WorkStates, Qwen!DrainJoined, Qwen!PrimaryUnlessAborted,
         Qwen!Primary
<1>6. /\ pc = "join"
      /\ pc' = IF app.aborted THEN "stop"
             ELSE IF Qwen!ReplayWanted THEN "try" ELSE "verdict"
      /\ UNCHANGED <<app, finals, audio>>
  BY DEF Qwen!DrainJoined
<1> QED
  BY <1>0, <1>1, <1>2, <1>3, <1>4, <1>5, <1>6, WorkerKeeps DEF QwenInv, OneFinal,
     AbortSeen, ListeningOver, QwenSteps, QwenLateSteps, QwenFirstSteps

LEMMA QwenReplayUnits ==
  ASSUME net \in QwenNets, audio \in AudioStates
  PROVE  SubSeq(audio.replay, Len(net.link.got) + 1,
                Smaller(Len(net.link.got) + ChunkUnits, Len(audio.replay))) \in Pcm
<1>1. Len(net.link.got) \in Nat /\ Len(audio.replay) \in Nat /\ audio.replay \in Pcm
  BY PcmTypes DEF QwenNets, Links, AudioStates
<1> QED
  BY <1>1, CutTypes, SessionAssumption DEF Smaller

LEMMA QwenReplaySend ==
  ASSUME QwenInv, Qwen!ReplaySend
  PROVE  QwenInv' /\ UNCHANGED <<app, finals>>
<1>0. net \in QwenNets /\ audio \in AudioStates /\ work \in WorkStates /\ Shared
  BY DEF QwenInv, Shared, SharedType
<1>1. \A s \in Qwen!Sends(net.link, SubSeq(audio.replay, Len(net.link.got) + 1,
                Qwen!Smaller(Len(net.link.got) + ChunkUnits, Len(audio.replay))),
                Len(net.link.got) = Len(audio.replay)) : s.link \in Links
  BY <1>0, QwenSends, QwenReplayUnits DEF Qwen!Smaller, Smaller
<1>2. PICK l \in Links :
        \/ net' = [net EXCEPT !.link = l]
        \/ net' = [net EXCEPT !.link = Qwen!NoLink, !.transport = TRUE]
  BY <1>0, <1>1, QwenLinks DEF Qwen!ReplaySend
<1>3. /\ net' \in QwenNets
      /\ net'.replaying = net.replaying /\ net'.late = net.late
      /\ net'.input = net.input /\ net'.failed = net.failed
      /\ net'.drainFailed = net.drainFailed
  <2>1. CASE net' = [net EXCEPT !.link = l]
    BY <1>0, <2>1, QwenNewLink
  <2>2. CASE net' = [net EXCEPT !.link = Qwen!NoLink, !.transport = TRUE]
    <3>1. Qwen!NoLink \in Links
      BY <1>0, QwenLinks
    <3> QED
      BY <1>0, <2>2, <3>1 DEF QwenNets
  <2> QED
    BY <1>2, <2>1, <2>2
<1>4. /\ pc = "replaySend" /\ pc' \in {"try", "replayFinal", "replaySend"}
      /\ UNCHANGED <<app, finals, audio, work>>
  BY DEF Qwen!ReplaySend
<1> QED
  BY <1>0, <1>3, <1>4, WorkerKeeps DEF QwenInv, OneFinal, AbortSeen,
     ListeningOver, QwenSteps, QwenLateSteps, QwenFirstSteps

LEMMA QwenReplayFailed ==
  ASSUME QwenInv, Qwen!ReplayFailed
  PROVE  QwenInv' /\ UNCHANGED <<app, finals>>
<1>0. net \in QwenNets /\ audio \in AudioStates /\ work \in WorkStates /\ Shared
  BY DEF QwenInv, Shared, SharedType
<1>1. net' \in QwenNets
  BY <1>0, QwenLinks DEF QwenNets, Qwen!ReplayFailed
<1>2. /\ net'.replaying = net.replaying /\ net'.late = net.late
      /\ net'.input = net.input /\ net'.failed = net.failed
      /\ net'.drainFailed = net.drainFailed
  BY <1>0, QwenLinks DEF QwenNets, Qwen!ReplayFailed
<1>3. /\ pc = "replayFinal" /\ pc' = "try"
      /\ UNCHANGED <<app, finals, audio, work>>
  BY DEF Qwen!ReplayFailed
<1> QED
  BY <1>0, <1>1, <1>2, <1>3, WorkerKeeps DEF QwenInv, OneFinal, AbortSeen, ListeningOver,
     QwenSteps, QwenLateSteps, QwenFirstSteps

LEMMA QwenReplayFinished ==
  ASSUME QwenInv, Qwen!ReplayFinished
  PROVE  QwenInv' /\ UNCHANGED <<app, finals>>
<1>0. net \in QwenNets /\ audio \in AudioStates /\ work \in WorkStates /\ Shared
  BY DEF QwenInv, Shared, SharedType
<1>1. net.link.got \in Pcm /\ Qwen!NoText \in Pcm
  BY <1>0 DEF QwenNets, Links, Qwen!NoText, Pcm
<1>2. net' \in QwenNets
  BY <1>0, <1>1, QwenLinks DEF QwenNets, Qwen!ReplayFinished
<1>3. /\ net'.replaying = net.replaying /\ net'.late = net.late
      /\ net'.input = net.input /\ net'.drainFailed = net.drainFailed
  BY <1>0, <1>1, QwenLinks DEF QwenNets, Qwen!ReplayFinished
<1>4. /\ pc = "replayFinal" /\ pc' = "verdict"
      /\ UNCHANGED <<app, finals, audio, work>>
  BY DEF Qwen!ReplayFinished
<1> QED
  BY <1>0, <1>1, <1>2, <1>3, <1>4, WorkerKeeps DEF QwenInv, OneFinal, AbortSeen,
     ListeningOver, QwenSteps, QwenLateSteps, QwenFirstSteps

LEMMA QwenReplayGivenUp ==
  ASSUME QwenInv, Qwen!ReplayGivenUp
  PROVE  QwenInv' /\ UNCHANGED <<app, finals>>
<1>0. net \in QwenNets /\ audio \in AudioStates /\ work \in WorkStates /\ Shared
  BY DEF QwenInv, Shared, SharedType
<1>1. UNCHANGED net
  BY DEF Qwen!ReplayGivenUp
<1>2. /\ pc = "try" /\ net.replaying /\ pc' = "verdict"
      /\ UNCHANGED <<app, finals, audio, work>>
  BY DEF Qwen!ReplayGivenUp, Qwen!NoMoreTries
<1> QED
  BY <1>0, <1>1, <1>2, WorkerKeeps DEF QwenInv, OneFinal, AbortSeen, ListeningOver,
     QwenSteps, QwenLateSteps, QwenFirstSteps

LEMMA QwenDecide ==
  ASSUME QwenInv, Qwen!Decide
  PROVE  QwenInv' /\ UNCHANGED <<app, finals>>
<1>0. net \in QwenNets /\ audio \in AudioStates /\ work \in WorkStates /\ Shared
  BY DEF QwenInv, Shared, SharedType
<1>1. Qwen!NoText \in Pcm /\ net.text \in Pcm
  BY <1>0 DEF QwenNets, Qwen!NoText, Pcm
<1>2. UNCHANGED net
  BY DEF Qwen!Decide
<1>3. work' \in WorkStates
  BY <1>0, <1>1 DEF WorkStates, Qwen!Decide, Qwen!Conclude, Verdicts, Kinds
<1>4. /\ pc = "verdict" /\ pc' = IF app.aborted THEN "stop" ELSE "dispatch"
      /\ UNCHANGED <<app, finals, audio>>
  BY DEF Qwen!Decide, Qwen!Conclude
<1> QED
  BY <1>0, <1>1, <1>2, <1>3, <1>4, WorkerKeeps DEF QwenInv, OneFinal, AbortSeen,
     ListeningOver, QwenSteps, QwenLateSteps, QwenFirstSteps

LEMMA QwenDrainQuits ==
  ASSUME QwenInv, Qwen!DrainQuits
  PROVE  QwenInv' /\ UNCHANGED <<app, finals>>
<1>0. net \in QwenNets /\ audio \in AudioStates /\ work \in WorkStates /\ Shared
  BY DEF QwenInv, Shared, SharedType
<1>1. net' \in QwenNets
  BY <1>0 DEF QwenNets, Qwen!DrainQuits
<1>2. /\ net'.replaying = net.replaying /\ net'.late = net.late
      /\ net'.input = net.input /\ net'.failed = net.failed
      /\ net'.drainFailed = net.drainFailed
  BY <1>0 DEF QwenNets, Qwen!DrainQuits
<1>3. /\ pc' = pc
      /\ UNCHANGED <<app, finals, audio, work>>
  BY DEF Qwen!DrainQuits
<1> QED
  BY <1>0, <1>1, <1>2, <1>3, WorkerKeeps DEF QwenInv, OneFinal, AbortSeen, ListeningOver,
     QwenSteps, QwenLateSteps, QwenFirstSteps

LEMMA QwenDrainFails ==
  ASSUME QwenInv, Qwen!DrainFails
  PROVE  QwenInv' /\ UNCHANGED <<app, finals>>
<1>0. net \in QwenNets /\ audio \in AudioStates /\ work \in WorkStates /\ Shared
  BY DEF QwenInv, Shared, SharedType
<1>1. net' \in QwenNets
  BY <1>0 DEF QwenNets, Qwen!DrainFails, Reasons
<1>2. /\ net'.replaying = net.replaying /\ net'.late = net.late
      /\ net'.input = net.input /\ net'.failed = net.failed
      /\ net'.drainFailed
  BY <1>0 DEF QwenNets, Qwen!DrainFails, Reasons
<1>3. /\ pc' = pc
      /\ UNCHANGED <<app, finals, audio, work>>
  BY DEF Qwen!DrainFails
<1> QED
  BY <1>0, <1>1, <1>2, <1>3, WorkerKeeps DEF QwenInv, OneFinal, AbortSeen, ListeningOver,
     QwenSteps, QwenLateSteps, QwenFirstSteps

LEMMA QwenDrainCompleted ==
  ASSUME QwenInv, Qwen!DrainCompleted
  PROVE  QwenInv' /\ UNCHANGED <<app, finals>>
<1>0. net \in QwenNets /\ audio \in AudioStates /\ work \in WorkStates /\ Shared
  BY DEF QwenInv, Shared, SharedType
<1>1. net.link \in Links
  BY <1>0 DEF QwenNets
<1>2. net.link.got \in Pcm /\ [net.link EXCEPT !.told = TRUE] \in Links
  BY <1>1 DEF Links
<1>3. Qwen!NoText \in Pcm
  BY DEF Qwen!NoText, Pcm
<1>4. PICK t \in Pcm : net' = [net EXCEPT !.completed = TRUE, !.text = t,
                                   !.link.told = TRUE]
  BY <1>0, <1>2, <1>3 DEF Qwen!DrainCompleted
<1>5. net' \in QwenNets
  BY <1>0, <1>1, <1>2, <1>3, <1>4 DEF QwenNets, Links
<1>6. /\ net'.replaying = net.replaying /\ net'.late = net.late
      /\ net'.input = net.input /\ net'.failed = net.failed
      /\ net'.drainFailed = net.drainFailed
  BY <1>0, <1>1, <1>2, <1>3, <1>4 DEF QwenNets, Links
<1>7. /\ pc' = pc
      /\ UNCHANGED <<app, finals, audio, work>>
  BY DEF Qwen!DrainCompleted
<1> QED
  BY <1>0, <1>1, <1>2, <1>3, <1>4, <1>5, <1>6, <1>7, WorkerKeeps DEF QwenInv, OneFinal,
     AbortSeen, ListeningOver, QwenSteps, QwenLateSteps, QwenFirstSteps

LEMMA QwenDrainFinished ==
  ASSUME QwenInv, Qwen!DrainFinished
  PROVE  QwenInv' /\ UNCHANGED <<app, finals>>
<1>0. net \in QwenNets /\ audio \in AudioStates /\ work \in WorkStates /\ Shared
  BY DEF QwenInv, Shared, SharedType
<1>1. net' \in QwenNets
  BY <1>0 DEF QwenNets, Qwen!DrainFinished
<1>2. /\ net'.replaying = net.replaying /\ net'.late = net.late
      /\ net'.input = net.input /\ net'.failed = net.failed
      /\ net'.drainFailed = net.drainFailed
  BY <1>0 DEF QwenNets, Qwen!DrainFinished
<1>3. /\ pc' = pc
      /\ UNCHANGED <<app, finals, audio, work>>
  BY DEF Qwen!DrainFinished
<1> QED
  BY <1>0, <1>1, <1>2, <1>3, WorkerKeeps DEF QwenInv, OneFinal, AbortSeen, ListeningOver,
     QwenSteps, QwenLateSteps, QwenFirstSteps

\* What a step may leave in the place of the connection.
LEMMA DoubaoLinks ==
  ASSUME net \in DoubaoNets
  PROVE  /\ net.link \in Links
         /\ Doubao!NoLink \in Links /\ Doubao!FreshLink \in Links
         /\ Doubao!Connecting(net.link) \in Links /\ Doubao!Connected(net.link) \in Links
         /\ Doubao!Aborted(net.link) \in Links /\ Doubao!Shut(net.link) \in Links
<1>1. net.link \in Links
  BY DEF DoubaoNets
<1>2. Doubao!NoLink \in Links
  BY DEF Doubao!NoLink, Links, Pcm
<1>3. Doubao!FreshLink \in Links
  BY <1>2 DEF Doubao!FreshLink, Links
<1> QED
  BY <1>1, <1>2, <1>3
     DEF Doubao!Shut, Doubao!Aborted, Doubao!Connecting, Doubao!Connected, Links

LEMMA DoubaoSends ==
  ASSUME net \in DoubaoNets, NEW units \in Pcm, NEW last \in BOOLEAN,
         NEW s \in Doubao!Sends(net.link, units, last)
  PROVE  s.link \in Links /\ s.ok \in BOOLEAN
<1> DEFINE sent == [net.link EXCEPT !.got = @ \o units, !.ended = last]
<1>1. net.link \in Links /\ Doubao!Shut(net.link) \in Links
  BY DoubaoLinks
<1>2. net.link.got \o units \in Pcm
  BY <1>1, PcmTypes DEF Links
<1>3. sent \in Links
  BY <1>1, <1>2 DEF Links
<1>4. CASE s = [link |-> sent, ok |-> TRUE]
  BY <1>3, <1>4
<1>5. CASE s = [link |-> net.link, ok |-> FALSE]
  BY <1>1, <1>5
<1>6. CASE s = [link |-> Doubao!Shut(net.link), ok |-> FALSE]
  BY <1>1, <1>6
<1> QED
  BY <1>4, <1>5, <1>6 DEF Doubao!Sends

LEMMA DoubaoTry ==
  ASSUME DoubaoInv, Doubao!Try
  PROVE  DoubaoInv' /\ UNCHANGED <<app, finals>>
<1>0. net \in DoubaoNets /\ audio \in AudioStates /\ work \in WorkStates /\ Shared
  BY DEF DoubaoInv, Shared, SharedType
<1>1. net.tries + 1 \in Nat
  BY <1>0 DEF DoubaoNets
<1>2. net' \in DoubaoNets
  BY <1>0, <1>1, DoubaoLinks DEF DoubaoNets, Doubao!Try
<1>3. /\ net'.replaying = net.replaying /\ net'.late = net.late
      /\ net'.input = net.input /\ net'.failed = net.failed
      /\ net'.drainFailed = net.drainFailed
  BY <1>0, <1>1, DoubaoLinks DEF DoubaoNets, Doubao!Try
<1>4. /\ work' \in WorkStates
      /\ work'.verdict = work.verdict
  BY <1>0, <1>1 DEF WorkStates, Doubao!Try
<1>5. /\ pc = "try" /\ ~app.aborted /\ pc' = "link"
      /\ UNCHANGED <<app, finals, audio>>
  BY DEF Doubao!Try
<1> QED
  BY <1>0, <1>1, <1>2, <1>3, <1>4, <1>5, WorkerKeeps DEF DoubaoInv, OneFinal, AbortSeen,
     ListeningOver, DoubaoSteps, DoubaoLateSteps, DoubaoFirstSteps

LEMMA DoubaoConnect ==
  ASSUME DoubaoInv, Doubao!Connect
  PROVE  DoubaoInv' /\ UNCHANGED <<app, finals>>
<1>0. net \in DoubaoNets /\ audio \in AudioStates /\ work \in WorkStates /\ Shared
  BY DEF DoubaoInv, Shared, SharedType
<1>1. net.late \in Nat /\ net.late + 1 \in Nat
  BY <1>0 DEF DoubaoNets
<1>2. net' \in DoubaoNets
  BY <1>0, <1>1, DoubaoLinks DEF DoubaoNets, Doubao!Connect
<1>3. /\ net'.replaying = net.replaying /\ net'.input = net.input
      /\ net'.failed = net.failed /\ net'.drainFailed = net.drainFailed
      /\ net'.late = IF app.aborted THEN net.late + 1 ELSE net.late
  BY <1>0, <1>1, DoubaoLinks DEF DoubaoNets, Doubao!Connect
<1>4. /\ pc = "link" /\ pc' = "connecting"
      /\ UNCHANGED <<app, finals, audio, work>>
  BY DEF Doubao!Connect
<1> QED
  BY <1>0, <1>1, <1>2, <1>3, <1>4, WorkerKeeps DEF DoubaoInv, OneFinal, AbortSeen,
     ListeningOver, DoubaoSteps, DoubaoLateSteps, DoubaoFirstSteps

LEMMA DoubaoConnectOk ==
  ASSUME DoubaoInv, Doubao!ConnectOk
  PROVE  DoubaoInv' /\ UNCHANGED <<app, finals>>
<1>0. net \in DoubaoNets /\ audio \in AudioStates /\ work \in WorkStates /\ Shared
  BY DEF DoubaoInv, Shared, SharedType
<1>1. /\ Doubao!NoLink \in Links /\ Doubao!Connected(net.link) \in Links
      /\ (IF net.replaying THEN net.drain ELSE "on") \in {"off", "on", "done"}
  BY <1>0, DoubaoLinks DEF DoubaoNets
<1>2. /\ net' \in DoubaoNets
      /\ net'.replaying = net.replaying /\ net'.late = net.late
      /\ net'.input = net.input /\ net'.failed = net.failed
      /\ net'.drainFailed = net.drainFailed
  <2>1. CASE net' = [net EXCEPT !.link = Doubao!NoLink]
    BY <1>0, <1>1, <2>1 DEF DoubaoNets
  <2>2. CASE net' = [net EXCEPT !.link = Doubao!Connected(@),
                                !.drain = IF net.replaying THEN @ ELSE "on"]
    <3> DEFINE l == Doubao!Connected(net.link)
               drain == IF net.replaying THEN net.drain ELSE "on"
    <3>1. net' = [net EXCEPT !.link = l, !.drain = drain]
      BY <2>2
    <3>2. l \in Links /\ drain \in {"off", "on", "done"}
      BY <1>1
    <3> HIDE DEF l, drain
    <3> QED
      BY <1>0, <3>1, <3>2 DEF DoubaoNets
  <2> QED
    BY <2>1, <2>2 DEF Doubao!ConnectOk
<1>3. /\ pc = "connecting"
      /\ pc' = IF app.aborted /\ ~net.replaying THEN "try"
             ELSE IF net.replaying THEN "replaySend" ELSE "send"
      /\ UNCHANGED <<app, finals, audio, work>>
  BY DEF Doubao!ConnectOk
<1> QED
  BY <1>0, <1>2, <1>3, WorkerKeeps DEF DoubaoInv, OneFinal, AbortSeen,
     ListeningOver, DoubaoSteps, DoubaoLateSteps, DoubaoFirstSteps

LEMMA DoubaoConnectFailed ==
  ASSUME DoubaoInv, Doubao!ConnectFailed
  PROVE  DoubaoInv' /\ UNCHANGED <<app, finals>>
<1>0. net \in DoubaoNets /\ audio \in AudioStates /\ work \in WorkStates /\ Shared
  BY DEF DoubaoInv, Shared, SharedType
<1>1. Doubao!MaxTries \in Nat
  BY DEF Doubao!MaxTries
<1>2. PICK tries \in {net.tries, Doubao!MaxTries}, refreshed \in BOOLEAN :
        net' = [net EXCEPT !.link = Doubao!NoLink, !.refreshed = refreshed,
                           !.tries = tries]
  BY <1>0 DEF Doubao!ConnectFailed, DoubaoNets
<1>3. net' \in DoubaoNets
  BY <1>0, <1>1, <1>2, DoubaoLinks DEF DoubaoNets
<1>4. /\ net'.replaying = net.replaying /\ net'.late = net.late
      /\ net'.input = net.input /\ net'.failed = net.failed
      /\ net'.drainFailed = net.drainFailed
  BY <1>0, <1>1, <1>2, DoubaoLinks DEF DoubaoNets
<1>5. /\ pc = "connecting" /\ pc' = "try"
      /\ UNCHANGED <<app, finals, audio, work>>
  BY DEF Doubao!ConnectFailed
<1> QED
  BY <1>0, <1>1, <1>2, <1>3, <1>4, <1>5, WorkerKeeps DEF DoubaoInv, OneFinal, AbortSeen,
     ListeningOver, DoubaoSteps, DoubaoLateSteps, DoubaoFirstSteps

LEMMA DoubaoNotConnected ==
  ASSUME DoubaoInv, Doubao!NotConnected
  PROVE  DoubaoInv' /\ UNCHANGED <<app, finals>>
<1>0. net \in DoubaoNets /\ audio \in AudioStates /\ work \in WorkStates /\ Shared
  BY DEF DoubaoInv, Shared, SharedType
<1>1. UNCHANGED net
  BY DEF Doubao!NotConnected
<1>2. /\ pc = "try" /\ ~net.replaying /\ pc' = "waitStop"
      /\ UNCHANGED <<app, finals, audio, work>>
  BY DEF Doubao!NotConnected, Doubao!NoMoreTries
<1> QED
  BY <1>0, <1>1, <1>2, WorkerKeeps DEF DoubaoInv, OneFinal, AbortSeen, ListeningOver,
     DoubaoSteps, DoubaoLateSteps, DoubaoFirstSteps

LEMMA DoubaoWaitForRecordingStop ==
  ASSUME DoubaoInv, Doubao!WaitForRecordingStop
  PROVE  DoubaoInv' /\ UNCHANGED <<app, finals>>
<1>0. net \in DoubaoNets /\ audio \in AudioStates /\ work \in WorkStates /\ Shared
  BY DEF DoubaoInv, Shared, SharedType
<1>1. /\ Doubao!PrimaryUnlessAborted \in WorkStates
      /\ Doubao!PrimaryUnlessAborted.verdict = work.verdict
  BY <1>0 DEF WorkStates, Doubao!PrimaryUnlessAborted, Doubao!Primary
<1>2. /\ Doubao!NoText \in Pcm
      /\ "error" \in Verdicts
  BY DEF Doubao!NoText, Pcm, Verdicts, Kinds
<1>3. UNCHANGED net
  BY DEF Doubao!WaitForRecordingStop
<1>4. /\ work' \in WorkStates
      /\ work'.verdict = "error"
  BY <1>0, <1>1, <1>2 DEF WorkStates, Doubao!WaitForRecordingStop, Doubao!Conclude
<1>5. /\ pc = "waitStop" /\ pc' = IF app.aborted THEN "stop" ELSE "dispatch"
      /\ UNCHANGED <<app, finals, audio>>
  BY DEF Doubao!WaitForRecordingStop, Doubao!Conclude
<1> QED
  BY <1>0, <1>1, <1>2, <1>3, <1>4, <1>5, WorkerKeeps DEF DoubaoInv, OneFinal, AbortSeen,
     ListeningOver, DoubaoSteps, DoubaoLateSteps, DoubaoFirstSteps

LEMMA DoubaoTakePending ==
  ASSUME DoubaoInv, Doubao!TakePending
  PROVE  DoubaoInv' /\ UNCHANGED <<app, finals>>
<1>0. net \in DoubaoNets /\ audio \in AudioStates /\ work \in WorkStates /\ Shared
  BY DEF DoubaoInv, Shared, SharedType
<1>1. /\ Doubao!SwapPending(audio) \in AudioStates
      /\ Doubao!SwapPending(audio).kept = audio.kept
      /\ Doubao!SwapPending(audio).overflowed = audio.overflowed
  BY <1>0, PcmTypes DEF AudioStates, Doubao!SwapPending
<1>2. UNCHANGED net
  BY DEF Doubao!TakePending
<1>3. /\ audio' \in AudioStates
      /\ audio'.kept = audio.kept
      /\ audio'.overflowed => audio.overflowed
  BY <1>0, <1>1 DEF AudioStates, Doubao!TakePending
<1>4. /\ pc = "send" /\ pc' = IF app.aborted \/ net.drainFailed THEN "sent" ELSE "sample"
      /\ UNCHANGED <<app, finals, work>>
  BY DEF Doubao!TakePending
<1> QED
  BY <1>0, <1>1, <1>2, <1>3, <1>4, WorkerKeeps DEF DoubaoInv, OneFinal, AbortSeen,
     ListeningOver, DoubaoSteps, DoubaoLateSteps, DoubaoFirstSteps

LEMMA DoubaoSampleInput ==
  ASSUME DoubaoInv, Doubao!SampleInput
  PROVE  DoubaoInv' /\ UNCHANGED <<app, finals>>
<1>0. net \in DoubaoNets /\ audio \in AudioStates /\ work \in WorkStates /\ Shared
  BY DEF DoubaoInv, Shared, SharedType
<1>1. pc # "idle" /\ ~Doubao!Streaming => app.mic = "stopped" \/ app.aborted
  BY <1>0, NotStreaming DEF Streaming, Doubao!Streaming
<1>2. net' \in DoubaoNets
  BY <1>0, <1>1 DEF DoubaoNets, Doubao!SampleInput, Doubao!Streaming
<1>3. /\ net'.replaying = net.replaying /\ net'.late = net.late
      /\ net'.failed = net.failed /\ net'.drainFailed = net.drainFailed
      /\ net'.input = Doubao!Streaming
  BY <1>0, <1>1 DEF DoubaoNets, Doubao!SampleInput, Doubao!Streaming
<1>4. /\ pc = "sample" /\ pc' = "flush"
      /\ UNCHANGED <<app, finals, audio, work>>
  BY DEF Doubao!SampleInput
<1> QED
  BY <1>0, <1>1, <1>2, <1>3, <1>4, WorkerKeeps DEF DoubaoInv, OneFinal, AbortSeen,
     ListeningOver, DoubaoSteps, DoubaoLateSteps, DoubaoFirstSteps

LEMMA DoubaoKeep ==
  ASSUME NEW units \in Pcm, audio \in AudioStates
  PROVE  Doubao!Keep(audio, units) = Keep(audio, units)
  BY DEF Doubao!Keep, Keep

LEMMA DoubaoSendFront ==
  ASSUME net \in DoubaoNets, audio \in AudioStates,
         NEW n \in Nat, n <= Len(audio.chunk), NEW next, NEW failedAt,
         Doubao!SendFront(n, next, failedAt)
  PROVE  /\ net' \in DoubaoNets /\ audio' \in AudioStates
         /\ net'.replaying = net.replaying /\ net'.late = net.late
         /\ net'.input = net.input /\ net'.drainFailed = net.drainFailed
         /\ audio'.kept => audio.kept
         /\ audio'.overflowed => audio.overflowed
         /\ pc' = next \/ (pc' = failedAt /\ net'.failed)
<1> DEFINE front == SubSeq(audio.chunk, 1, n)
           rest == SubSeq(audio.chunk, n + 1, Len(audio.chunk))
           kept == Doubao!Keep(audio, front)
<1>1. PICK s \in Doubao!Sends(net.link, front, FALSE) :
        /\ audio' = IF s.ok THEN [kept EXCEPT !.chunk = SubSeq(@, n + 1, Len(@))]
                    ELSE kept
        /\ net' = [net EXCEPT !.link = s.link, !.failed = ~s.ok]
        /\ pc' = IF s.ok THEN next ELSE failedAt
  BY DEF Doubao!SendFront
<1>2. front \in Pcm /\ rest \in Pcm
  BY FrontAndRest DEF AudioStates
<1>3. s.link \in Links
  BY <1>1, <1>2, DoubaoSends
<1>4. /\ kept \in AudioStates /\ kept.chunk = audio.chunk
      /\ kept.overflowed = audio.overflowed /\ (kept.kept => audio.kept)
  BY <1>2, DoubaoKeep, KeepType
<1>5. audio' = IF s.ok THEN [kept EXCEPT !.chunk = rest] ELSE kept
  BY <1>1, <1>4
<1>6. audio' \in AudioStates /\ (audio'.kept => audio.kept)
      /\ (audio'.overflowed => audio.overflowed)
  BY <1>2, <1>4, <1>5 DEF AudioStates
<1>7. /\ net' \in DoubaoNets /\ (s.ok \/ net'.failed)
      /\ net'.replaying = net.replaying /\ net'.late = net.late
      /\ net'.input = net.input /\ net'.drainFailed = net.drainFailed
  BY <1>1, <1>3 DEF DoubaoNets
<1> QED
  BY <1>1, <1>6, <1>7

LEMMA DoubaoFlushFullFrame ==
  ASSUME DoubaoInv, Doubao!FlushFullFrame
  PROVE  DoubaoInv' /\ UNCHANGED <<app, finals>>
<1> DEFINE next == "flush"
<1>0. net \in DoubaoNets /\ audio \in AudioStates /\ work \in WorkStates /\ Shared
  BY DEF DoubaoInv, Shared, SharedType
<1>1. Len(audio.chunk) \in Nat /\ ChunkUnits \in Nat /\ ChunkUnits > 0
  BY <1>0, PcmTypes, SessionAssumption DEF AudioStates
<1>2. ChunkUnits \in Nat /\ ChunkUnits <= Len(audio.chunk)
  BY <1>1 DEF Doubao!FlushFullFrame
<1>3. /\ pc = "flush" /\ UNCHANGED <<app, work, finals>>
      /\ Doubao!SendFront(ChunkUnits, next, "sent")
  BY DEF Doubao!FlushFullFrame
<1>4. /\ net' \in DoubaoNets /\ audio' \in AudioStates
      /\ net'.replaying = net.replaying /\ net'.late = net.late
      /\ net'.input = net.input /\ net'.drainFailed = net.drainFailed
      /\ audio'.kept => audio.kept
      /\ audio'.overflowed => audio.overflowed
      /\ pc' = next \/ (pc' = "sent" /\ net'.failed)
  BY <1>0, <1>2, <1>3, DoubaoSendFront
<1>5. ~net.replaying
  BY <1>3 DEF DoubaoInv, DoubaoFirstSteps
<1> QED
  BY <1>0, <1>3, <1>4, <1>5, WorkerKeeps DEF DoubaoInv, OneFinal, AbortSeen,
     ListeningOver, DoubaoSteps, DoubaoLateSteps, DoubaoFirstSteps

LEMMA DoubaoFlushed ==
  ASSUME DoubaoInv, Doubao!Flushed
  PROVE  DoubaoInv' /\ UNCHANGED <<app, finals>>
<1>0. net \in DoubaoNets /\ audio \in AudioStates /\ work \in WorkStates /\ Shared
  BY DEF DoubaoInv, Shared, SharedType
<1>1. audio.overflowed \in BOOLEAN
  BY <1>0 DEF AudioStates
<1>2. net' \in DoubaoNets
  BY <1>0, <1>1 DEF DoubaoNets, Doubao!Flushed
<1>3. /\ net'.replaying = net.replaying /\ net'.late = net.late
      /\ net'.input = net.input /\ net'.drainFailed = net.drainFailed
  BY <1>0, <1>1 DEF DoubaoNets, Doubao!Flushed
<1>4. /\ pc = "flush"
      /\ pc' = IF audio.overflowed \/ ~net.input THEN "sent" ELSE "send"
      /\ UNCHANGED <<app, finals, audio, work>>
  BY DEF Doubao!Flushed
<1> QED
  BY <1>0, <1>1, <1>2, <1>3, <1>4, WorkerKeeps DEF DoubaoInv, OneFinal, AbortSeen,
     ListeningOver, DoubaoSteps, DoubaoLateSteps, DoubaoFirstSteps, Lifecycle, Shared

LEMMA DoubaoLoopLeft ==
  ASSUME DoubaoInv, Doubao!LoopLeft
  PROVE  DoubaoInv' /\ UNCHANGED <<app, finals>>
<1>0. net \in DoubaoNets /\ audio \in AudioStates /\ work \in WorkStates /\ Shared
  BY DEF DoubaoInv, Shared, SharedType
<1>1. pc # "idle" /\ ~Doubao!Streaming => app.mic = "stopped" \/ app.aborted
  BY <1>0, NotStreaming DEF Streaming, Doubao!Streaming
<1>2. net' \in DoubaoNets
  BY <1>0, <1>1 DEF DoubaoNets, Doubao!LoopLeft
<1>3. /\ net'.replaying = net.replaying /\ net'.late = net.late
      /\ net'.input = net.input /\ net'.drainFailed = net.drainFailed
      /\ net'.failed = (net.failed \/ net.drainFailed)
  BY <1>0, <1>1 DEF DoubaoNets, Doubao!LoopLeft
<1>4. /\ pc = "sent"
      /\ pc' = IF app.aborted THEN "quit"
             ELSE IF (net.failed \/ net.drainFailed) /\ Doubao!Streaming
             THEN "buffer" ELSE "rest"
      /\ UNCHANGED <<app, finals, audio, work>>
  BY DEF Doubao!LoopLeft
<1> QED
  BY <1>0, <1>1, <1>2, <1>3, <1>4, WorkerKeeps DEF DoubaoInv, OneFinal, AbortSeen,
     ListeningOver, DoubaoSteps, DoubaoLateSteps, DoubaoFirstSteps

LEMMA DoubaoBuffer ==
  ASSUME DoubaoInv, Doubao!Buffer
  PROVE  DoubaoInv' /\ UNCHANGED <<app, finals>>
<1>0. net \in DoubaoNets /\ audio \in AudioStates /\ work \in WorkStates /\ Shared
  BY DEF DoubaoInv, Shared, SharedType
<1>1. pc # "idle" /\ ~Doubao!Streaming => app.mic = "stopped" \/ app.aborted
  BY <1>0, NotStreaming DEF Streaming, Doubao!Streaming
<1>2. Doubao!KeepPending(audio) = KeepPending(audio)
  BY DEF Doubao!KeepPending, KeepPending, Doubao!Keep, Keep
<1>3. UNCHANGED net
  BY DEF Doubao!Buffer
<1>4. /\ audio' \in AudioStates
      /\ audio'.kept => audio.kept
      /\ audio'.overflowed => audio.overflowed
  BY <1>0, <1>1, <1>2, KeepPendingType DEF AudioStates, Doubao!Buffer
<1>5. /\ pc = "buffer"
      /\ pc' = "buffer" \/ (pc' = "rest" /\ (~Doubao!Streaming \/ audio.overflowed))
      /\ UNCHANGED <<app, finals, work>>
  BY DEF Doubao!Buffer
<1> QED
  BY <1>0, <1>1, <1>2, <1>3, <1>4, <1>5, WorkerKeeps DEF DoubaoInv, OneFinal, AbortSeen,
     ListeningOver, DoubaoSteps, DoubaoLateSteps, DoubaoFirstSteps, Lifecycle, Shared

LEMMA DoubaoTakeRest ==
  ASSUME DoubaoInv, Doubao!TakeRest
  PROVE  DoubaoInv' /\ UNCHANGED <<app, finals>>
<1>0. net \in DoubaoNets /\ audio \in AudioStates /\ work \in WorkStates /\ Shared
  BY DEF DoubaoInv, Shared, SharedType
<1>1. <<>> \in Pcm /\ audio.chunk \in Pcm
  BY <1>0 DEF Pcm, AudioStates
<1>2. /\ Doubao!Keep(audio, audio.chunk) \in AudioStates
      /\ Doubao!Keep(audio, audio.chunk).kept => audio.kept
  BY <1>0, <1>1, KeepType, DoubaoKeep
<1>3. /\ Doubao!SwapPending(audio) \in AudioStates
      /\ Doubao!SwapPending(audio).kept = audio.kept
      /\ Doubao!SwapPending(audio).overflowed = audio.overflowed
  BY <1>0, PcmTypes DEF AudioStates, Doubao!SwapPending
<1>4. UNCHANGED net
  BY DEF Doubao!TakeRest
<1>5. /\ audio' \in AudioStates
      /\ audio'.kept => audio.kept
      /\ audio'.overflowed => audio.overflowed
  BY <1>0, <1>1, <1>2, <1>3 DEF AudioStates, Doubao!TakeRest
<1>6. /\ pc = "rest" /\ pc' \in {"quit", "last"}
      /\ UNCHANGED <<app, finals, work>>
  BY DEF Doubao!TakeRest
<1> QED
  BY <1>0, <1>1, <1>2, <1>3, <1>4, <1>5, <1>6, WorkerKeeps DEF DoubaoInv, OneFinal,
     AbortSeen, ListeningOver, DoubaoSteps, DoubaoLateSteps, DoubaoFirstSteps

LEMMA DoubaoSendRest ==
  ASSUME DoubaoInv, Doubao!SendRest
  PROVE  DoubaoInv' /\ UNCHANGED <<app, finals>>
<1> DEFINE next == IF Len(audio.chunk) < ChunkUnits THEN "finish" ELSE "last"
<1>0. net \in DoubaoNets /\ audio \in AudioStates /\ work \in WorkStates /\ Shared
  BY DEF DoubaoInv, Shared, SharedType
<1>1. Len(audio.chunk) \in Nat /\ ChunkUnits \in Nat /\ ChunkUnits > 0
  BY <1>0, PcmTypes, SessionAssumption DEF AudioStates
<1>2. /\ Smaller(ChunkUnits, Len(audio.chunk)) \in Nat
      /\ Smaller(ChunkUnits, Len(audio.chunk)) <= Len(audio.chunk)
  BY <1>1 DEF Doubao!SendRest, Smaller, Doubao!Smaller
<1>3. /\ pc = "last" /\ UNCHANGED <<app, work, finals>>
      /\ Doubao!SendFront(Smaller(ChunkUnits, Len(audio.chunk)), next, "quit")
  BY DEF Doubao!SendRest, Smaller, Doubao!Smaller
<1>4. /\ net' \in DoubaoNets /\ audio' \in AudioStates
      /\ net'.replaying = net.replaying /\ net'.late = net.late
      /\ net'.input = net.input /\ net'.drainFailed = net.drainFailed
      /\ audio'.kept => audio.kept
      /\ audio'.overflowed => audio.overflowed
      /\ pc' = next \/ (pc' = "quit" /\ net'.failed)
  BY <1>0, <1>2, <1>3, DoubaoSendFront
<1>5. ~net.replaying
  BY <1>3 DEF DoubaoInv, DoubaoFirstSteps
<1> QED
  BY <1>0, <1>3, <1>4, <1>5, WorkerKeeps DEF DoubaoInv, OneFinal, AbortSeen,
     ListeningOver, DoubaoSteps, DoubaoLateSteps, DoubaoFirstSteps

LEMMA DoubaoSendLast ==
  ASSUME DoubaoInv, Doubao!SendLast
  PROVE  DoubaoInv' /\ UNCHANGED <<app, finals>>
<1>0. net \in DoubaoNets /\ audio \in AudioStates /\ work \in WorkStates /\ Shared
  BY DEF DoubaoInv, Shared, SharedType
<1>1. <<>> \in Pcm
  BY DEF Pcm
<1>2. \A s \in Doubao!Sends(net.link, <<>>, FALSE) : s.link \in Links
  BY <1>0, <1>1, DoubaoSends
<1>3. \E l \in Links, failed \in BOOLEAN :
        net' \in {net, [net EXCEPT !.link = l, !.failed = failed]}
  BY <1>0, <1>2, DoubaoLinks DEF Doubao!SendLast
<1>4. net' \in DoubaoNets
  BY <1>0, <1>1, <1>2, <1>3 DEF DoubaoNets
<1>5. /\ net'.replaying = net.replaying /\ net'.late = net.late
      /\ net'.input = net.input /\ net'.drainFailed = net.drainFailed
  BY <1>0, <1>1, <1>2, <1>3 DEF DoubaoNets
<1>6. /\ pc = "last" /\ pc' \in {"quit", "finish"}
      /\ UNCHANGED <<app, finals, audio, work>>
  BY DEF Doubao!SendLast
<1> QED
  BY <1>0, <1>1, <1>2, <1>3, <1>4, <1>5, <1>6, WorkerKeeps DEF DoubaoInv, OneFinal,
     AbortSeen, ListeningOver, DoubaoSteps, DoubaoLateSteps, DoubaoFirstSteps

LEMMA DoubaoAnnounceFinish ==
  ASSUME DoubaoInv, Doubao!AnnounceFinish
  PROVE  DoubaoInv' /\ UNCHANGED <<app, finals>>
<1>0. net \in DoubaoNets /\ audio \in AudioStates /\ work \in WorkStates /\ Shared
  BY DEF DoubaoInv, Shared, SharedType
<1>1. net' \in DoubaoNets
  BY <1>0 DEF DoubaoNets, Doubao!AnnounceFinish
<1>2. /\ net'.replaying = net.replaying /\ net'.late = net.late
      /\ net'.input = net.input /\ net'.failed = net.failed
      /\ net'.drainFailed = net.drainFailed
  BY <1>0 DEF DoubaoNets, Doubao!AnnounceFinish
<1>3. /\ pc = "finish" /\ pc' \in {"quit", "finishSend"}
      /\ UNCHANGED <<app, finals, audio, work>>
  BY DEF Doubao!AnnounceFinish
<1> QED
  BY <1>0, <1>1, <1>2, <1>3, WorkerKeeps DEF DoubaoInv, OneFinal, AbortSeen,
     ListeningOver, DoubaoSteps, DoubaoLateSteps, DoubaoFirstSteps

LEMMA DoubaoSendFinish ==
  ASSUME DoubaoInv, Doubao!SendFinish
  PROVE  DoubaoInv' /\ UNCHANGED <<app, finals>>
<1>0. net \in DoubaoNets /\ audio \in AudioStates /\ work \in WorkStates /\ Shared
  BY DEF DoubaoInv, Shared, SharedType
<1>1. <<>> \in Pcm
  BY DEF Pcm
<1>2. \A s \in Doubao!Sends(net.link, <<>>, TRUE) : s.link \in Links
  BY <1>0, <1>1, DoubaoSends
<1>3. PICK l \in Links, failed \in BOOLEAN :
        net' = [net EXCEPT !.link = l, !.failed = failed]
  BY <1>2 DEF Doubao!SendFinish
<1>4. net' \in DoubaoNets
  BY <1>0, <1>3 DEF DoubaoNets
<1>5. /\ net'.replaying = net.replaying /\ net'.late = net.late
      /\ net'.input = net.input /\ net'.drainFailed = net.drainFailed
  BY <1>0, <1>3 DEF DoubaoNets
<1>6. /\ pc = "finishSend" /\ pc' \in {"quit", "final"}
      /\ UNCHANGED <<app, finals, audio, work>>
  BY DEF Doubao!SendFinish
<1> QED
  BY <1>0, <1>4, <1>5, <1>6, WorkerKeeps DEF DoubaoInv, OneFinal,
     AbortSeen, ListeningOver, DoubaoSteps, DoubaoLateSteps, DoubaoFirstSteps

LEMMA DoubaoAwaitFinal ==
  ASSUME DoubaoInv, Doubao!AwaitFinal
  PROVE  DoubaoInv' /\ UNCHANGED <<app, finals>>
<1>0. net \in DoubaoNets /\ audio \in AudioStates /\ work \in WorkStates /\ Shared
  BY DEF DoubaoInv, Shared, SharedType
<1>1. UNCHANGED net
  BY DEF Doubao!AwaitFinal
<1>2. /\ pc = "final" /\ pc' = "quit"
      /\ UNCHANGED <<app, finals, audio, work>>
  BY DEF Doubao!AwaitFinal
<1> QED
  BY <1>0, <1>1, <1>2, WorkerKeeps DEF DoubaoInv, OneFinal, AbortSeen, ListeningOver,
     DoubaoSteps, DoubaoLateSteps, DoubaoFirstSteps

LEMMA DoubaoFinalFailed ==
  ASSUME DoubaoInv, Doubao!FinalFailed
  PROVE  DoubaoInv' /\ UNCHANGED <<app, finals>>
<1>0. net \in DoubaoNets /\ audio \in AudioStates /\ work \in WorkStates /\ Shared
  BY DEF DoubaoInv, Shared, SharedType
<1>1. net' \in DoubaoNets
  BY <1>0 DEF DoubaoNets, Doubao!FinalFailed
<1>2. /\ net'.replaying = net.replaying /\ net'.late = net.late
      /\ net'.input = net.input /\ net'.drainFailed = net.drainFailed
  BY <1>0 DEF DoubaoNets, Doubao!FinalFailed
<1>3. /\ pc = "final" /\ pc' = "quit"
      /\ UNCHANGED <<app, finals, audio, work>>
  BY DEF Doubao!FinalFailed
<1> QED
  BY <1>0, <1>1, <1>2, <1>3, WorkerKeeps DEF DoubaoInv, OneFinal, AbortSeen,
     ListeningOver, DoubaoSteps, DoubaoLateSteps, DoubaoFirstSteps

LEMMA DoubaoStopDrain ==
  ASSUME DoubaoInv, Doubao!StopDrain
  PROVE  DoubaoInv' /\ UNCHANGED <<app, finals>>
<1>0. net \in DoubaoNets /\ audio \in AudioStates /\ work \in WorkStates /\ Shared
  BY DEF DoubaoInv, Shared, SharedType
<1>1. net' \in DoubaoNets
  BY <1>0, DoubaoLinks DEF DoubaoNets, Doubao!StopDrain
<1>2. /\ net'.replaying = net.replaying /\ net'.late = net.late
      /\ net'.input = net.input /\ net'.failed = net.failed
      /\ net'.drainFailed = net.drainFailed
  BY <1>0, DoubaoLinks DEF DoubaoNets, Doubao!StopDrain
<1>3. /\ pc = "quit" /\ pc' = "join"
      /\ UNCHANGED <<app, finals, audio, work>>
  BY DEF Doubao!StopDrain
<1> QED
  BY <1>0, <1>1, <1>2, <1>3, WorkerKeeps DEF DoubaoInv, OneFinal, AbortSeen,
     ListeningOver, DoubaoSteps, DoubaoLateSteps, DoubaoFirstSteps

LEMMA DoubaoDrainJoined ==
  ASSUME DoubaoInv, Doubao!DrainJoined
  PROVE  DoubaoInv' /\ UNCHANGED <<app, finals>>
<1>0. net \in DoubaoNets /\ audio \in AudioStates /\ work \in WorkStates /\ Shared
  BY DEF DoubaoInv, Shared, SharedType
<1>1. Doubao!ReplayWanted => audio.kept
  BY DEF Doubao!ReplayWanted
<1>2. (~app.aborted /\ Doubao!ReplayWanted) \in BOOLEAN
  OBVIOUS
<1>3. net' \in DoubaoNets
  BY <1>0, <1>1, <1>2, DoubaoLinks DEF DoubaoNets, Doubao!DrainJoined
<1>4. /\ net'.late = net.late /\ net'.input = net.input /\ net'.failed = net.failed
      /\ net'.drainFailed = net.drainFailed
      /\ net'.replaying = (~app.aborted /\ Doubao!ReplayWanted)
  BY <1>0, <1>1, <1>2, DoubaoLinks DEF DoubaoNets, Doubao!DrainJoined
<1>5. /\ work' \in WorkStates
      /\ work'.verdict = work.verdict
  BY <1>0, <1>1, <1>2 DEF WorkStates, Doubao!DrainJoined, Doubao!PrimaryUnlessAborted,
         Doubao!Primary
<1>6. /\ pc = "join"
      /\ pc' = IF app.aborted THEN "stop"
             ELSE IF Doubao!ReplayWanted THEN "try" ELSE "verdict"
      /\ UNCHANGED <<app, finals, audio>>
  BY DEF Doubao!DrainJoined
<1> QED
  BY <1>0, <1>1, <1>2, <1>3, <1>4, <1>5, <1>6, WorkerKeeps DEF DoubaoInv, OneFinal,
     AbortSeen, ListeningOver, DoubaoSteps, DoubaoLateSteps, DoubaoFirstSteps

LEMMA DoubaoReplayUnits ==
  ASSUME net \in DoubaoNets, audio \in AudioStates
  PROVE  SubSeq(audio.replay, Len(net.link.got) + 1,
                Smaller(Len(net.link.got) + ChunkUnits, Len(audio.replay))) \in Pcm
<1>1. Len(net.link.got) \in Nat /\ Len(audio.replay) \in Nat /\ audio.replay \in Pcm
  BY PcmTypes DEF DoubaoNets, Links, AudioStates
<1> QED
  BY <1>1, CutTypes, SessionAssumption DEF Smaller

LEMMA DoubaoReplaySend ==
  ASSUME DoubaoInv, Doubao!ReplaySend
  PROVE  DoubaoInv' /\ UNCHANGED <<app, finals>>
<1>0. net \in DoubaoNets /\ audio \in AudioStates /\ work \in WorkStates /\ Shared
  BY DEF DoubaoInv, Shared, SharedType
<1>1. \A s \in Doubao!Sends(net.link, SubSeq(audio.replay, Len(net.link.got) + 1,
                Doubao!Smaller(Len(net.link.got) + ChunkUnits, Len(audio.replay))),
                Len(net.link.got) = Len(audio.replay)) : s.link \in Links
  BY <1>0, DoubaoSends, DoubaoReplayUnits DEF Doubao!Smaller, Smaller
<1>2. \E l \in Links : net' = [net EXCEPT !.link = l]
  BY <1>0, <1>1, DoubaoLinks DEF Doubao!ReplaySend
<1>3. net' \in DoubaoNets
  BY <1>0, <1>1, <1>2 DEF DoubaoNets
<1>4. /\ net'.replaying = net.replaying /\ net'.late = net.late
      /\ net'.input = net.input /\ net'.failed = net.failed
      /\ net'.drainFailed = net.drainFailed
  BY <1>0, <1>1, <1>2 DEF DoubaoNets
<1>5. /\ pc = "replaySend" /\ pc' \in {"try", "replayFinal", "replaySend"}
      /\ UNCHANGED <<app, finals, audio, work>>
  BY DEF Doubao!ReplaySend
<1> QED
  BY <1>0, <1>1, <1>2, <1>3, <1>4, <1>5, WorkerKeeps DEF DoubaoInv, OneFinal, AbortSeen,
     ListeningOver, DoubaoSteps, DoubaoLateSteps, DoubaoFirstSteps

LEMMA DoubaoReplayFailed ==
  ASSUME DoubaoInv, Doubao!ReplayFailed
  PROVE  DoubaoInv' /\ UNCHANGED <<app, finals>>
<1>0. net \in DoubaoNets /\ audio \in AudioStates /\ work \in WorkStates /\ Shared
  BY DEF DoubaoInv, Shared, SharedType
<1>1. net' \in DoubaoNets
  BY <1>0, DoubaoLinks DEF DoubaoNets, Doubao!ReplayFailed
<1>2. /\ net'.replaying = net.replaying /\ net'.late = net.late
      /\ net'.input = net.input /\ net'.failed = net.failed
      /\ net'.drainFailed = net.drainFailed
  BY <1>0, DoubaoLinks DEF DoubaoNets, Doubao!ReplayFailed
<1>3. /\ pc = "replayFinal" /\ pc' = "try"
      /\ UNCHANGED <<app, finals, audio, work>>
  BY DEF Doubao!ReplayFailed
<1> QED
  BY <1>0, <1>1, <1>2, <1>3, WorkerKeeps DEF DoubaoInv, OneFinal, AbortSeen,
     ListeningOver, DoubaoSteps, DoubaoLateSteps, DoubaoFirstSteps

LEMMA DoubaoReplayFinished ==
  ASSUME DoubaoInv, Doubao!ReplayFinished
  PROVE  DoubaoInv' /\ UNCHANGED <<app, finals>>
<1>0. net \in DoubaoNets /\ audio \in AudioStates /\ work \in WorkStates /\ Shared
  BY DEF DoubaoInv, Shared, SharedType
<1>1. net.link.got \in Pcm /\ Doubao!NoText \in Pcm
  BY <1>0 DEF DoubaoNets, Links, Doubao!NoText, Pcm
<1>2. Doubao!Prefixes(net.link.got) \subseteq Pcm
  BY <1>1, PrefixesType DEF Doubao!Prefixes, Prefixes
<1>3. PICK t \in Pcm : net' = [net EXCEPT !.link = Doubao!Shut(@), !.text = t,
                                   !.failed = FALSE]
  BY <1>0, <1>1, <1>2 DEF Doubao!ReplayFinished
<1>4. net' \in DoubaoNets
  BY <1>0, <1>1, <1>2, <1>3, DoubaoLinks DEF DoubaoNets
<1>5. /\ net'.replaying = net.replaying /\ net'.late = net.late
      /\ net'.input = net.input /\ net'.drainFailed = net.drainFailed
  BY <1>0, <1>1, <1>2, <1>3, DoubaoLinks DEF DoubaoNets
<1>6. /\ pc = "replayFinal" /\ pc' = "verdict"
      /\ UNCHANGED <<app, finals, audio, work>>
  BY DEF Doubao!ReplayFinished
<1> QED
  BY <1>0, <1>1, <1>2, <1>3, <1>4, <1>5, <1>6, WorkerKeeps DEF DoubaoInv, OneFinal,
     AbortSeen, ListeningOver, DoubaoSteps, DoubaoLateSteps, DoubaoFirstSteps

LEMMA DoubaoReplayGivenUp ==
  ASSUME DoubaoInv, Doubao!ReplayGivenUp
  PROVE  DoubaoInv' /\ UNCHANGED <<app, finals>>
<1>0. net \in DoubaoNets /\ audio \in AudioStates /\ work \in WorkStates /\ Shared
  BY DEF DoubaoInv, Shared, SharedType
<1>1. UNCHANGED net
  BY DEF Doubao!ReplayGivenUp
<1>2. /\ pc = "try" /\ net.replaying /\ pc' = "verdict"
      /\ UNCHANGED <<app, finals, audio, work>>
  BY DEF Doubao!ReplayGivenUp, Doubao!NoMoreTries
<1> QED
  BY <1>0, <1>1, <1>2, WorkerKeeps DEF DoubaoInv, OneFinal, AbortSeen, ListeningOver,
     DoubaoSteps, DoubaoLateSteps, DoubaoFirstSteps

LEMMA DoubaoDecide ==
  ASSUME DoubaoInv, Doubao!Decide
  PROVE  DoubaoInv' /\ UNCHANGED <<app, finals>>
<1>0. net \in DoubaoNets /\ audio \in AudioStates /\ work \in WorkStates /\ Shared
  BY DEF DoubaoInv, Shared, SharedType
<1>1. Doubao!NoText \in Pcm /\ net.text \in Pcm
  BY <1>0 DEF DoubaoNets, Doubao!NoText, Pcm
<1>2. UNCHANGED net
  BY DEF Doubao!Decide
<1>3. work' \in WorkStates
  BY <1>0, <1>1 DEF WorkStates, Doubao!Decide, Doubao!Conclude, Verdicts, Kinds
<1>4. /\ pc = "verdict" /\ pc' = IF app.aborted THEN "stop" ELSE "dispatch"
      /\ UNCHANGED <<app, finals, audio>>
  BY DEF Doubao!Decide, Doubao!Conclude
<1> QED
  BY <1>0, <1>1, <1>2, <1>3, <1>4, WorkerKeeps DEF DoubaoInv, OneFinal, AbortSeen,
     ListeningOver, DoubaoSteps, DoubaoLateSteps, DoubaoFirstSteps

LEMMA DoubaoDrainQuits ==
  ASSUME DoubaoInv, Doubao!DrainQuits
  PROVE  DoubaoInv' /\ UNCHANGED <<app, finals>>
<1>0. net \in DoubaoNets /\ audio \in AudioStates /\ work \in WorkStates /\ Shared
  BY DEF DoubaoInv, Shared, SharedType
<1>1. net' \in DoubaoNets
  BY <1>0 DEF DoubaoNets, Doubao!DrainQuits
<1>2. /\ net'.replaying = net.replaying /\ net'.late = net.late
      /\ net'.input = net.input /\ net'.failed = net.failed
      /\ net'.drainFailed = net.drainFailed
  BY <1>0 DEF DoubaoNets, Doubao!DrainQuits
<1>3. /\ pc' = pc
      /\ UNCHANGED <<app, finals, audio, work>>
  BY DEF Doubao!DrainQuits
<1> QED
  BY <1>0, <1>1, <1>2, <1>3, WorkerKeeps DEF DoubaoInv, OneFinal, AbortSeen,
     ListeningOver, DoubaoSteps, DoubaoLateSteps, DoubaoFirstSteps

LEMMA DoubaoDrainFails ==
  ASSUME DoubaoInv, Doubao!DrainFails
  PROVE  DoubaoInv' /\ UNCHANGED <<app, finals>>
<1>0. net \in DoubaoNets /\ audio \in AudioStates /\ work \in WorkStates /\ Shared
  BY DEF DoubaoInv, Shared, SharedType
<1>1. net' \in DoubaoNets
  BY <1>0 DEF DoubaoNets, Doubao!DrainFails
<1>2. /\ net'.replaying = net.replaying /\ net'.late = net.late
      /\ net'.input = net.input /\ net'.failed = net.failed
      /\ net'.drainFailed
  BY <1>0 DEF DoubaoNets, Doubao!DrainFails
<1>3. /\ pc' = pc
      /\ UNCHANGED <<app, finals, audio, work>>
  BY DEF Doubao!DrainFails
<1> QED
  BY <1>0, <1>1, <1>2, <1>3, WorkerKeeps DEF DoubaoInv, OneFinal, AbortSeen,
     ListeningOver, DoubaoSteps, DoubaoLateSteps, DoubaoFirstSteps

LEMMA DoubaoDrainText ==
  ASSUME DoubaoInv, Doubao!DrainText
  PROVE  DoubaoInv' /\ UNCHANGED <<app, finals>>
<1>0. net \in DoubaoNets /\ audio \in AudioStates /\ work \in WorkStates /\ Shared
  BY DEF DoubaoInv, Shared, SharedType
<1>1. net.link.got \in Pcm /\ Doubao!NoText \in Pcm
  BY <1>0 DEF DoubaoNets, Links, Doubao!NoText, Pcm
<1>2. Doubao!Prefixes(net.link.got) \subseteq Pcm
  BY <1>1, PrefixesType DEF Doubao!Prefixes, Prefixes
<1>3. PICK t \in Pcm, drain \in {"done", net.drain}, final \in BOOLEAN, told \in BOOLEAN :
        net' = [net EXCEPT !.text = t, !.drain = drain, !.postFinal = final,
                           !.link.told = told]
  BY <1>0, <1>2 DEF Doubao!DrainText, Doubao!LastEvent
<1>4. net' \in DoubaoNets
  BY <1>0, <1>1, <1>2, <1>3 DEF DoubaoNets, Links
<1>5. /\ net'.replaying = net.replaying /\ net'.late = net.late
      /\ net'.input = net.input /\ net'.failed = net.failed
      /\ net'.drainFailed = net.drainFailed
  BY <1>0, <1>1, <1>2, <1>3 DEF DoubaoNets, Links
<1>6. /\ pc' = pc
      /\ UNCHANGED <<app, finals, audio, work>>
  BY DEF Doubao!DrainText
<1> QED
  BY <1>0, <1>1, <1>2, <1>3, <1>4, <1>5, <1>6, WorkerKeeps DEF DoubaoInv, OneFinal,
     AbortSeen, ListeningOver, DoubaoSteps, DoubaoLateSteps, DoubaoFirstSteps

LEMMA DoubaoDrainFinished ==
  ASSUME DoubaoInv, Doubao!DrainFinished
  PROVE  DoubaoInv' /\ UNCHANGED <<app, finals>>
<1>0. net \in DoubaoNets /\ audio \in AudioStates /\ work \in WorkStates /\ Shared
  BY DEF DoubaoInv, Shared, SharedType
<1>1. net' \in DoubaoNets
  BY <1>0 DEF DoubaoNets, Doubao!DrainFinished
<1>2. /\ net'.replaying = net.replaying /\ net'.late = net.late
      /\ net'.input = net.input /\ net'.failed = net.failed
      /\ net'.drainFailed = net.drainFailed
  BY <1>0 DEF DoubaoNets, Doubao!DrainFinished
<1>3. /\ pc' = pc
      /\ UNCHANGED <<app, finals, audio, work>>
  BY DEF Doubao!DrainFinished
<1> QED
  BY <1>0, <1>1, <1>2, <1>3, WorkerKeeps DEF DoubaoInv, OneFinal, AbortSeen,
     ListeningOver, DoubaoSteps, DoubaoLateSteps, DoubaoFirstSteps

\* What a step may leave in the place of the connection.
LEMMA QwenAudioLinks ==
  ASSUME net \in QwenAudioNets
  PROVE  /\ net.link \in Links
         /\ QwenAudio!NoLink \in Links /\ QwenAudio!FreshLink \in Links
         /\ QwenAudio!Connecting(net.link) \in Links
         /\ QwenAudio!Connected(net.link) \in Links
         /\ QwenAudio!Aborted(net.link) \in Links /\ QwenAudio!Shut(net.link) \in Links
<1>1. net.link \in Links
  BY DEF QwenAudioNets
<1>2. QwenAudio!NoLink \in Links
  BY DEF QwenAudio!NoLink, Links, Pcm
<1>3. QwenAudio!FreshLink \in Links
  BY <1>2 DEF QwenAudio!FreshLink, Links
<1> QED
  BY <1>1, <1>2, <1>3
     DEF QwenAudio!Shut, QwenAudio!Aborted, QwenAudio!Connecting, QwenAudio!Connected, Links

LEMMA QwenAudioSends ==
  ASSUME net \in QwenAudioNets, NEW units \in Pcm, NEW last \in BOOLEAN,
         NEW s \in QwenAudio!Sends(net.link, units, last)
  PROVE  s.link \in Links /\ s.ok \in BOOLEAN
<1> DEFINE sent == [net.link EXCEPT !.got = @ \o units, !.ended = last]
<1>1. net.link \in Links /\ QwenAudio!Shut(net.link) \in Links
  BY QwenAudioLinks
<1>2. net.link.got \o units \in Pcm
  BY <1>1, PcmTypes DEF Links
<1>3. sent \in Links
  BY <1>1, <1>2 DEF Links
<1>4. CASE s = [link |-> sent, ok |-> TRUE]
  BY <1>3, <1>4
<1>5. CASE s = [link |-> net.link, ok |-> FALSE]
  BY <1>1, <1>5
<1>6. CASE s = [link |-> QwenAudio!Shut(net.link), ok |-> FALSE]
  BY <1>1, <1>6
<1> QED
  BY <1>4, <1>5, <1>6 DEF QwenAudio!Sends

LEMMA QwenAudioTry ==
  ASSUME QwenAudioInv, QwenAudio!Try
  PROVE  QwenAudioInv' /\ UNCHANGED <<app, finals>>
<1>0. net \in QwenAudioNets /\ audio \in AudioStates /\ work \in WorkStates /\ Shared
  BY DEF QwenAudioInv, Shared, SharedType
<1>1. net.tries + 1 \in Nat
  BY <1>0 DEF QwenAudioNets
<1>2. net' \in QwenAudioNets
  BY <1>0, <1>1, QwenAudioLinks DEF QwenAudioNets, QwenAudio!Try
<1>3. /\ net'.replaying = net.replaying /\ net'.late = net.late
      /\ net'.noSpeech = net.noSpeech /\ net'.drain = net.drain
      /\ net'.drainFailed = net.drainFailed /\ net'.failed = net.failed
  BY <1>0, <1>1, QwenAudioLinks DEF QwenAudioNets, QwenAudio!Try
<1>4. /\ pc = "try" /\ ~app.aborted /\ pc' = "link"
      /\ UNCHANGED <<app, finals, audio, work>>
  BY DEF QwenAudio!Try
<1> QED
  BY <1>0, <1>1, <1>2, <1>3, <1>4, WorkerKeeps DEF QwenAudioInv, OneFinal, AbortSeen,
     ListeningOver, QwenAudioSteps, QwenAudioLateSteps

LEMMA QwenAudioConnect ==
  ASSUME QwenAudioInv, QwenAudio!Connect
  PROVE  QwenAudioInv' /\ UNCHANGED <<app, finals>>
<1>0. net \in QwenAudioNets /\ audio \in AudioStates /\ work \in WorkStates /\ Shared
  BY DEF QwenAudioInv, Shared, SharedType
<1>1. net.late \in Nat /\ net.late + 1 \in Nat
  BY <1>0 DEF QwenAudioNets
<1>2. net' \in QwenAudioNets
  BY <1>0, <1>1, QwenAudioLinks DEF QwenAudioNets, QwenAudio!Connect
<1>3. /\ net'.replaying = net.replaying /\ net'.noSpeech = net.noSpeech
      /\ net'.drain = net.drain /\ net'.drainFailed = net.drainFailed
      /\ net'.failed = net.failed
      /\ net'.late = IF app.aborted THEN net.late + 1 ELSE net.late
  BY <1>0, <1>1, QwenAudioLinks DEF QwenAudioNets, QwenAudio!Connect
<1>4. /\ pc = "link" /\ pc' = "connecting"
      /\ UNCHANGED <<app, finals, audio, work>>
  BY DEF QwenAudio!Connect
<1> QED
  BY <1>0, <1>1, <1>2, <1>3, <1>4, WorkerKeeps DEF QwenAudioInv, OneFinal, AbortSeen,
     ListeningOver, QwenAudioSteps, QwenAudioLateSteps

LEMMA QwenAudioConnectOk ==
  ASSUME QwenAudioInv, QwenAudio!ConnectOk
  PROVE  QwenAudioInv' /\ UNCHANGED <<app, finals>>
<1>0. net \in QwenAudioNets /\ audio \in AudioStates /\ work \in WorkStates /\ Shared
  BY DEF QwenAudioInv, Shared, SharedType
<1>1. QwenAudio!NoText \in Pcm
  BY DEF QwenAudio!NoText, Pcm
<1>2. PICK t \in Pcm :
        net' = [net EXCEPT !.drainStop = FALSE, !.drainFailed = FALSE,
                           !.taskFinished = FALSE, !.link = QwenAudio!Connected(@),
                           !.drain = "on", !.text = t, !.failed = FALSE]
  BY <1>0, <1>1 DEF QwenAudioNets, QwenAudio!ConnectOk, QwenAudio!NothingHeard
<1>3. net' \in QwenAudioNets
  BY <1>0, <1>1, <1>2, QwenAudioLinks DEF QwenAudioNets
<1>4. /\ net'.replaying = net.replaying /\ net'.late = net.late
      /\ net'.noSpeech = net.noSpeech
  BY <1>0, <1>1, <1>2, QwenAudioLinks DEF QwenAudioNets
<1>5. /\ pc = "connecting" /\ pc' = IF net.replaying THEN "replaySend" ELSE "send"
      /\ UNCHANGED <<app, finals, audio, work>>
  BY DEF QwenAudio!ConnectOk
<1> QED
  BY <1>0, <1>1, <1>2, <1>3, <1>4, <1>5, WorkerKeeps DEF QwenAudioInv, OneFinal,
     AbortSeen, ListeningOver, QwenAudioSteps, QwenAudioLateSteps

LEMMA QwenAudioConnectFailed ==
  ASSUME QwenAudioInv, QwenAudio!ConnectFailed
  PROVE  QwenAudioInv' /\ UNCHANGED <<app, finals>>
<1>0. net \in QwenAudioNets /\ audio \in AudioStates /\ work \in WorkStates /\ Shared
  BY DEF QwenAudioInv, Shared, SharedType
<1>1. PICK r \in BOOLEAN : net' = [net EXCEPT !.link = QwenAudio!NoLink, !.retryable = r]
  BY <1>0 DEF QwenAudioNets, QwenAudio!ConnectFailed
<1>2. net' \in QwenAudioNets
  BY <1>0, <1>1, QwenAudioLinks DEF QwenAudioNets
<1>3. /\ net'.replaying = net.replaying /\ net'.late = net.late
      /\ net'.noSpeech = net.noSpeech /\ net'.drain = net.drain
      /\ net'.drainFailed = net.drainFailed /\ net'.failed = net.failed
  BY <1>0, <1>1, QwenAudioLinks DEF QwenAudioNets
<1>4. /\ pc = "connecting" /\ pc' = IF net.replaying THEN "replayFailed" ELSE "try"
      /\ UNCHANGED <<app, finals, audio, work>>
  BY DEF QwenAudio!ConnectFailed
<1> QED
  BY <1>0, <1>1, <1>2, <1>3, <1>4, WorkerKeeps DEF QwenAudioInv, OneFinal, AbortSeen,
     ListeningOver, QwenAudioSteps, QwenAudioLateSteps

LEMMA QwenAudioNotConnected ==
  ASSUME QwenAudioInv, QwenAudio!NotConnected
  PROVE  QwenAudioInv' /\ UNCHANGED <<app, finals>>
<1>0. net \in QwenAudioNets /\ audio \in AudioStates /\ work \in WorkStates /\ Shared
  BY DEF QwenAudioInv, Shared, SharedType
<1>1. net' \in QwenAudioNets
  BY <1>0 DEF QwenAudioNets, QwenAudio!NotConnected
<1>2. /\ net'.replaying = net.replaying /\ net'.late = net.late
      /\ net'.noSpeech = net.noSpeech /\ net'.drain = net.drain
      /\ net'.drainFailed = net.drainFailed
  BY <1>0 DEF QwenAudioNets, QwenAudio!NotConnected
<1>3. /\ pc = "try" /\ pc' = "buffer"
      /\ UNCHANGED <<app, finals, audio, work>>
  BY DEF QwenAudio!NotConnected
<1> QED
  BY <1>0, <1>1, <1>2, <1>3, WorkerKeeps DEF QwenAudioInv, OneFinal, AbortSeen,
     ListeningOver, QwenAudioSteps, QwenAudioLateSteps

LEMMA QwenAudioTakePending ==
  ASSUME QwenAudioInv, QwenAudio!TakePending
  PROVE  QwenAudioInv' /\ UNCHANGED <<app, finals>>
<1>0. net \in QwenAudioNets /\ audio \in AudioStates /\ work \in WorkStates /\ Shared
  BY DEF QwenAudioInv, Shared, SharedType
<1>1. /\ QwenAudio!SwapPending(audio) \in AudioStates
      /\ QwenAudio!SwapPending(audio).kept = audio.kept
      /\ QwenAudio!SwapPending(audio).overflowed = audio.overflowed
      /\ audio.overflowed \in BOOLEAN
  BY <1>0, PcmTypes DEF AudioStates, QwenAudio!SwapPending
<1>2. net' \in QwenAudioNets
  BY <1>0, <1>1 DEF QwenAudioNets, QwenAudio!TakePending
<1>3. /\ net'.replaying = net.replaying /\ net'.late = net.late
      /\ net'.noSpeech = net.noSpeech /\ net'.drain = net.drain
      /\ net'.drainFailed = net.drainFailed
  BY <1>0, <1>1 DEF QwenAudioNets, QwenAudio!TakePending
<1>4. /\ audio' \in AudioStates
      /\ audio'.kept = audio.kept
      /\ audio'.overflowed => audio.overflowed
  BY <1>0, <1>1 DEF AudioStates, QwenAudio!TakePending
<1>5. /\ work' \in WorkStates
      /\ work'.verdict = work.verdict
  BY <1>0, <1>1 DEF WorkStates, QwenAudio!TakePending
<1>6. /\ pc = "send"
      /\ \/ pc' = "left" /\ (app.aborted \/ net.drainFailed \/ audio.overflowed)
         \/ pc' = "flush"
      /\ UNCHANGED <<app, finals>>
  BY DEF QwenAudio!TakePending
<1> QED
  BY <1>0, <1>1, <1>2, <1>3, <1>4, <1>5, <1>6, WorkerKeeps DEF QwenAudioInv, OneFinal,
     AbortSeen, ListeningOver, QwenAudioSteps, QwenAudioLateSteps, Lifecycle, Shared

LEMMA QwenAudioKeep ==
  ASSUME NEW units \in Pcm, audio \in AudioStates
  PROVE  QwenAudio!Keep(audio, units) = Keep(audio, units)
  BY DEF QwenAudio!Keep, Keep

LEMMA QwenAudioFlushFullChunk ==
  ASSUME QwenAudioInv, QwenAudio!FlushFullChunk
  PROVE  QwenAudioInv' /\ UNCHANGED <<app, finals>>
<1> DEFINE front == SubSeq(audio.chunk, 1, ChunkUnits)
           rest == SubSeq(audio.chunk, ChunkUnits + 1, Len(audio.chunk))
           kept == QwenAudio!Keep(audio, front)
<1>0. net \in QwenAudioNets /\ audio \in AudioStates /\ work \in WorkStates /\ Shared
  BY DEF QwenAudioInv, Shared, SharedType
<1>1. Len(audio.chunk) >= ChunkUnits /\ pc = "flush" /\ UNCHANGED <<app, finals>>
  BY DEF QwenAudio!FlushFullChunk
<1>2. PICK s \in QwenAudio!Sends(net.link, front, FALSE) :
        IF s.ok
        THEN /\ audio' = [kept EXCEPT !.chunk = SubSeq(@, ChunkUnits + 1, Len(@))]
             /\ net' = [net EXCEPT !.link = s.link]
             /\ work' = work
             /\ pc' = "flush"
        ELSE /\ audio' = kept
             /\ net' = [net EXCEPT !.link = s.link, !.failed = TRUE]
             /\ work' = [work EXCEPT !.recover = kept.kept]
             /\ pc' = "left"
  BY DEF QwenAudio!FlushFullChunk, QwenAudio!SendFront
<1>3. front \in Pcm /\ rest \in Pcm
  BY <1>0, <1>1, FrontAndRest, PcmTypes, SessionAssumption DEF AudioStates
<1>4. s.link \in Links
  BY <1>0, <1>2, <1>3, QwenAudioSends
<1>5. /\ kept \in AudioStates /\ kept.chunk = audio.chunk
      /\ kept.overflowed = audio.overflowed /\ (kept.kept => audio.kept)
  BY <1>0, <1>3, QwenAudioKeep, KeepType
<1>6. kept.kept \in BOOLEAN
  BY <1>5 DEF AudioStates
<1>7. audio' = IF s.ok THEN [kept EXCEPT !.chunk = rest] ELSE kept
  BY <1>2, <1>5
<1>8. audio' \in AudioStates /\ (audio'.overflowed => audio.overflowed)
  BY <1>3, <1>5, <1>7 DEF AudioStates
<1>9. /\ net' \in QwenAudioNets
      /\ net'.replaying = net.replaying /\ net'.late = net.late
      /\ net'.noSpeech = net.noSpeech /\ net'.drain = net.drain
      /\ net'.drainFailed = net.drainFailed
      /\ pc' = "flush" \/ (pc' = "left" /\ net'.failed)
  <2>1. CASE s.ok
    <3>1. net' = [net EXCEPT !.link = s.link] /\ pc' = "flush"
      BY <1>2, <2>1
    <3> QED
      BY <1>0, <1>4, <3>1 DEF QwenAudioNets
  <2>2. CASE ~s.ok
    <3>1. net' = [net EXCEPT !.link = s.link, !.failed = TRUE] /\ pc' = "left"
      BY <1>2, <2>2
    <3> QED
      BY <1>0, <1>4, <3>1 DEF QwenAudioNets
  <2> QED
    BY <2>1, <2>2
<1>10. work' \in WorkStates
  BY <1>0, <1>2, <1>6 DEF WorkStates
<1> QED
  BY <1>0, <1>1, <1>8, <1>9, <1>10, WorkerKeeps DEF QwenAudioInv, OneFinal, AbortSeen,
     ListeningOver, QwenAudioSteps, QwenAudioLateSteps

LEMMA QwenAudioFlushed ==
  ASSUME QwenAudioInv, QwenAudio!Flushed
  PROVE  QwenAudioInv' /\ UNCHANGED <<app, finals>>
<1>0. net \in QwenAudioNets /\ audio \in AudioStates /\ work \in WorkStates /\ Shared
  BY DEF QwenAudioInv, Shared, SharedType
<1>1. pc # "idle" /\ ~QwenAudio!Streaming => app.mic = "stopped" \/ app.aborted
  BY <1>0, NotStreaming DEF Streaming, QwenAudio!Streaming
<1>2. UNCHANGED net
  BY DEF QwenAudio!Flushed
<1>3. /\ pc = "flush"
      /\ pc' = IF net.drainFailed \/ ~QwenAudio!Streaming THEN "left" ELSE "send"
      /\ UNCHANGED <<app, finals, audio, work>>
  BY DEF QwenAudio!Flushed
<1> QED
  BY <1>0, <1>1, <1>2, <1>3, WorkerKeeps DEF QwenAudioInv, OneFinal, AbortSeen,
     ListeningOver, QwenAudioSteps, QwenAudioLateSteps

LEMMA QwenAudioLoopLeft ==
  ASSUME QwenAudioInv, QwenAudio!LoopLeft
  PROVE  QwenAudioInv' /\ UNCHANGED <<app, finals>>
<1>0. net \in QwenAudioNets /\ audio \in AudioStates /\ work \in WorkStates /\ Shared
  BY DEF QwenAudioInv, Shared, SharedType
<1>1. /\ net.drainFailed \in BOOLEAN /\ net.retryable \in BOOLEAN
      /\ net.noSpeech \in BOOLEAN /\ work.recover \in BOOLEAN
  BY <1>0 DEF QwenAudioNets, WorkStates
<1>2. PICK failed \in BOOLEAN :
        /\ net' = [net EXCEPT !.failed = failed]
        /\ failed = ((net.failed \/ net.drainFailed) /\ ~net.noSpeech)
  BY <1>0, <1>1 DEF QwenAudioNets, QwenAudio!LoopLeft
<1>3. /\ net' \in QwenAudioNets
      /\ net'.replaying = net.replaying /\ net'.late = net.late
      /\ net'.noSpeech = net.noSpeech /\ net'.drain = net.drain
      /\ net'.drainFailed = net.drainFailed
      /\ net'.failed = ((net.failed \/ net.drainFailed) /\ ~net.noSpeech)
  BY <1>0, <1>2 DEF QwenAudioNets
<1>4. /\ work' \in WorkStates
      /\ work'.verdict = work.verdict
  BY <1>0, <1>1 DEF WorkStates, QwenAudio!LoopLeft
<1>5. /\ pc = "left"
      /\ pc' = IF app.aborted THEN "cancel" ELSE "branch"
      /\ UNCHANGED <<app, finals, audio>>
  BY DEF QwenAudio!LoopLeft
<1> QED
  BY <1>0, <1>3, <1>4, <1>5, WorkerKeeps DEF QwenAudioInv, OneFinal,
     AbortSeen, ListeningOver, QwenAudioSteps, QwenAudioLateSteps

\* The chunk in hand is dropped, after it was kept for the replay or not.
LEMMA QwenAudioDropChunk ==
  ASSUME NEW a \in AudioStates
  PROVE  /\ [a EXCEPT !.chunk = <<>>] \in AudioStates
         /\ [a EXCEPT !.chunk = <<>>].overflowed = a.overflowed
         /\ [a EXCEPT !.chunk = <<>>].kept = a.kept
<1>1. <<>> \in Pcm
  BY DEF Pcm
<1> QED
  BY <1>1 DEF AudioStates

LEMMA QwenAudioBranch ==
  ASSUME QwenAudioInv, QwenAudio!Branch
  PROVE  QwenAudioInv' /\ UNCHANGED <<app, finals>>
<1> DEFINE keep == work.recover /\ audio.kept
           kept == IF keep THEN QwenAudio!Keep(audio, audio.chunk) ELSE audio
<1>0. net \in QwenAudioNets /\ audio \in AudioStates /\ work \in WorkStates /\ Shared
  BY DEF QwenAudioInv, Shared, SharedType
<1>1. audio.chunk \in Pcm /\ audio.overflowed \in BOOLEAN /\ keep \in BOOLEAN
  BY <1>0 DEF AudioStates
<1>2. kept \in AudioStates /\ kept.overflowed = audio.overflowed
  BY <1>0, <1>1, QwenAudioKeep, KeepType
<1>3. pc = "branch" /\ UNCHANGED <<app, work, finals>>
  BY DEF QwenAudio!Branch
<1>4. CASE net.failed \/ net.drainFailed
  <2>1. /\ net' = [net EXCEPT !.keep = keep]
        /\ audio' = [kept EXCEPT !.chunk = <<>>]
        /\ pc' = "buffer"
    BY <1>4 DEF QwenAudio!Branch
  <2>2. audio' \in AudioStates /\ audio'.overflowed = audio.overflowed
    BY <1>2, <2>1, QwenAudioDropChunk
  <2>3. /\ net' \in QwenAudioNets
        /\ net'.replaying = net.replaying /\ net'.late = net.late
    BY <1>0, <1>1, <2>1 DEF QwenAudioNets
  <2> QED
    BY <1>0, <1>3, <2>1, <2>2, <2>3, WorkerKeeps DEF QwenAudioInv, OneFinal, AbortSeen,
       ListeningOver, QwenAudioSteps, QwenAudioLateSteps
<1>5. CASE ~(net.failed \/ net.drainFailed)
  <2>1. /\ audio' = QwenAudio!SwapPending(audio)
        /\ net' = [net EXCEPT !.failed = audio.overflowed]
        /\ pc' = "rest"
    BY <1>5 DEF QwenAudio!Branch
  <2>2. audio' \in AudioStates /\ audio'.overflowed = audio.overflowed
    BY <1>0, <2>1, PcmTypes DEF AudioStates, QwenAudio!SwapPending
  <2>3. /\ net' \in QwenAudioNets
        /\ net'.replaying = net.replaying /\ net'.late = net.late
    BY <1>0, <1>1, <2>1 DEF QwenAudioNets
  <2> QED
    BY <1>0, <1>3, <1>5, <2>1, <2>2, <2>3, WorkerKeeps DEF QwenAudioInv, OneFinal,
       AbortSeen, ListeningOver, QwenAudioSteps, QwenAudioLateSteps
<1> QED
  BY <1>4, <1>5

LEMMA QwenAudioBuffer ==
  ASSUME QwenAudioInv, QwenAudio!Buffer
  PROVE  QwenAudioInv' /\ UNCHANGED <<app, finals>>
<1>0. net \in QwenAudioNets /\ audio \in AudioStates /\ work \in WorkStates /\ Shared
  BY DEF QwenAudioInv, Shared, SharedType
<1>1. QwenAudio!KeepPending(audio) = KeepPending(audio) /\ <<>> \in Pcm
  BY DEF QwenAudio!KeepPending, KeepPending, QwenAudio!Keep, Keep, Pcm
<1>2. audio' \in AudioStates /\ audio'.overflowed = audio.overflowed
  BY <1>0, <1>1, KeepPendingType DEF QwenAudio!Buffer, AudioStates
<1>3. audio'.kept \in BOOLEAN
  BY <1>2 DEF AudioStates
<1>4. pc = "buffer" /\ UNCHANGED <<app, net, finals>>
  BY DEF QwenAudio!Buffer
<1>5. CASE QwenAudio!Streaming
  <2>1. pc' = pc /\ work' = work
    BY <1>5 DEF QwenAudio!Buffer
  <2> QED
    BY <1>0, <1>2, <1>4, <2>1, WorkerKeeps DEF QwenAudioInv, OneFinal, AbortSeen,
       ListeningOver, QwenAudioSteps, QwenAudioLateSteps
<1>6. CASE ~QwenAudio!Streaming
  <2>1. pc' \in {"unconnected", "quit"}
    BY <1>6 DEF QwenAudio!Buffer
  <2>2. work' = [work EXCEPT !.recover = net.keep /\ audio'.kept /\ ~audio.overflowed]
    BY <1>6 DEF QwenAudio!Buffer
  <2>3. work' \in WorkStates /\ (work'.recover => audio'.kept)
    BY <1>0, <1>3, <2>2 DEF WorkStates
  <2>4. ListeningOver
    BY <1>0, <1>4, <1>6, NotStreaming DEF ListeningOver, QwenAudio!Streaming, Streaming
  <2> QED
    BY <1>0, <1>2, <1>4, <2>1, <2>3, <2>4, WorkerKeeps DEF QwenAudioInv, OneFinal,
       AbortSeen, ListeningOver, QwenAudioSteps, QwenAudioLateSteps
<1> QED
  BY <1>5, <1>6

LEMMA QwenAudioUnconnected ==
  ASSUME QwenAudioInv, QwenAudio!Unconnected
  PROVE  QwenAudioInv' /\ UNCHANGED <<app, finals>>
<1> DEFINE w == QwenAudio!Primary(work)
<1>0. net \in QwenAudioNets /\ audio \in AudioStates /\ work \in WorkStates /\ Shared
  BY DEF QwenAudioInv, Shared, SharedType
<1>1. w \in WorkStates /\ w.retries + 1 \in Nat /\ w.recover = work.recover
  BY <1>0 DEF WorkStates, QwenAudio!Primary
<1>2. QwenAudio!NoText \in Pcm /\ "error" \in Verdicts
  BY DEF QwenAudio!NoText, Pcm, Verdicts, Kinds
<1>3. pc = "unconnected" /\ UNCHANGED <<app, audio, finals>>
  BY DEF QwenAudio!Unconnected
<1> HIDE DEF w
<1>4. CASE /\ pc' = "link"
           /\ ~app.aborted
           /\ work.recover
           /\ net' = [net EXCEPT !.replaying = TRUE, !.link = QwenAudio!FreshLink]
           /\ work' = [w EXCEPT !.retries = @ + 1]
  <2>1. /\ net' \in QwenAudioNets
        /\ net'.replaying /\ net'.late = net.late
    BY <1>0, <1>4, QwenAudioLinks DEF QwenAudioNets
  <2>2. work' \in WorkStates
    BY <1>1, <1>4 DEF WorkStates
  <2> QED
    BY <1>0, <1>3, <1>4, <2>1, <2>2, WorkerKeeps DEF QwenAudioInv, OneFinal, AbortSeen,
       ListeningOver, QwenAudioSteps, QwenAudioLateSteps
<1>5. CASE /\ pc' = IF app.aborted THEN "stop" ELSE "dispatch"
           /\ net' = net
           /\ work' = [w EXCEPT !.verdict = "error", !.text = QwenAudio!NoText]
  <2>1. work' \in WorkStates /\ work'.verdict = "error"
    BY <1>1, <1>2, <1>5 DEF WorkStates
  <2> QED
    BY <1>0, <1>3, <1>5, <2>1, WorkerKeeps DEF QwenAudioInv, OneFinal, AbortSeen,
       ListeningOver, QwenAudioSteps, QwenAudioLateSteps
<1> QED
  BY <1>4, <1>5 DEF QwenAudio!Unconnected, QwenAudio!Conclude, w

LEMMA QwenAudioSendRest ==
  ASSUME QwenAudioInv, QwenAudio!SendRest
  PROVE  QwenAudioInv' /\ UNCHANGED <<app, finals>>
<1> DEFINE kept == QwenAudio!Keep(audio, audio.chunk)
<1>0. net \in QwenAudioNets /\ audio \in AudioStates /\ work \in WorkStates /\ Shared
  BY DEF QwenAudioInv, Shared, SharedType
<1>1. audio.chunk \in Pcm
  BY <1>0 DEF AudioStates
<1>2. kept \in AudioStates /\ kept.overflowed = audio.overflowed
  BY <1>0, <1>1, QwenAudioKeep, KeepType
<1>3. kept.kept \in BOOLEAN
  BY <1>2 DEF AudioStates
<1>4. pc = "rest" /\ pc' = "finish" /\ UNCHANGED <<app, finals>>
  BY DEF QwenAudio!SendRest
<1>5. audio' = [kept EXCEPT !.chunk = <<>>] \/ audio' = [audio EXCEPT !.chunk = <<>>]
  BY DEF QwenAudio!SendRest
<1>6. audio' \in AudioStates /\ audio'.overflowed = audio.overflowed
  BY <1>0, <1>2, <1>5, QwenAudioDropChunk
<1>7. CASE UNCHANGED <<net, work>>
  BY <1>0, <1>4, <1>6, <1>7, WorkerKeeps DEF QwenAudioInv, OneFinal, AbortSeen,
     ListeningOver, QwenAudioSteps, QwenAudioLateSteps
<1>8. ASSUME NEW s \in QwenAudio!Sends(net.link, audio.chunk, FALSE),
             net' = [net EXCEPT !.link = s.link, !.failed = ~s.ok],
             work' = [work EXCEPT !.recover = IF s.ok THEN @ ELSE kept.kept]
      PROVE  QwenAudioInv' /\ UNCHANGED <<app, finals>>
  <2>1. s.link \in Links
    BY <1>0, <1>1, QwenAudioSends
  <2>2. /\ net' \in QwenAudioNets
        /\ net'.replaying = net.replaying /\ net'.late = net.late
    BY <1>0, <1>8, <2>1 DEF QwenAudioNets
  <2>3. work' \in WorkStates
    BY <1>0, <1>3, <1>8 DEF WorkStates
  <2> QED
    BY <1>0, <1>4, <1>6, <2>2, <2>3, WorkerKeeps DEF QwenAudioInv, OneFinal, AbortSeen,
       ListeningOver, QwenAudioSteps, QwenAudioLateSteps
<1> QED
  BY <1>7, <1>8 DEF QwenAudio!SendRest

LEMMA QwenAudioSendFinish ==
  ASSUME QwenAudioInv, QwenAudio!SendFinish
  PROVE  QwenAudioInv' /\ UNCHANGED <<app, finals>>
<1>0. net \in QwenAudioNets /\ audio \in AudioStates /\ work \in WorkStates /\ Shared
  BY DEF QwenAudioInv, Shared, SharedType
<1>1. pc = "finish" /\ pc' \in {"quit", "final"} /\ UNCHANGED <<app, audio, finals>>
  BY DEF QwenAudio!SendFinish
<1>2. work' \in WorkStates
  <2>1. audio.kept \in BOOLEAN
    BY <1>0 DEF AudioStates
  <2>2. work' = work \/ work' = [work EXCEPT !.recover = audio.kept]
    BY DEF QwenAudio!SendFinish
  <2> QED
    BY <1>0, <2>1, <2>2 DEF WorkStates
<1>3. /\ net' \in QwenAudioNets
      /\ net'.replaying = net.replaying /\ net'.late = net.late
  <2>1. CASE net' = net
    BY <1>0, <2>1
  <2>2. CASE net' = [net EXCEPT !.finishSent = TRUE]
    BY <1>0, <2>2 DEF QwenAudioNets
  <2>3. ASSUME NEW s \in QwenAudio!Sends(net.link, <<>>, TRUE),
               net' = [net EXCEPT !.link = s.link, !.finishSent = s.ok, !.failed = ~s.ok]
        PROVE  /\ net' \in QwenAudioNets
               /\ net'.replaying = net.replaying /\ net'.late = net.late
    <3>1. <<>> \in Pcm
      BY DEF Pcm
    <3>2. s.link \in Links /\ s.ok \in BOOLEAN
      BY <1>0, <3>1, QwenAudioSends
    <3> QED
      BY <1>0, <2>3, <3>2 DEF QwenAudioNets
  <2> QED
    BY <2>1, <2>2, <2>3 DEF QwenAudio!SendFinish
<1> QED
  BY <1>0, <1>1, <1>2, <1>3, WorkerKeeps DEF QwenAudioInv, OneFinal, AbortSeen,
     ListeningOver, QwenAudioSteps, QwenAudioLateSteps

LEMMA QwenAudioFinished ==
  ASSUME QwenAudioInv, QwenAudio!Finished
  PROVE  QwenAudioInv' /\ UNCHANGED <<app, finals>>
<1>0. net \in QwenAudioNets /\ audio \in AudioStates /\ work \in WorkStates /\ Shared
  BY DEF QwenAudioInv, Shared, SharedType
<1>1. UNCHANGED net
  BY DEF QwenAudio!Finished
<1>2. /\ pc = "final" /\ pc' = "quit"
      /\ UNCHANGED <<app, finals, audio, work>>
  BY DEF QwenAudio!Finished
<1> QED
  BY <1>0, <1>1, <1>2, WorkerKeeps DEF QwenAudioInv, OneFinal, AbortSeen, ListeningOver,
     QwenAudioSteps, QwenAudioLateSteps

LEMMA QwenAudioNotFinished ==
  ASSUME QwenAudioInv, QwenAudio!NotFinished
  PROVE  QwenAudioInv' /\ UNCHANGED <<app, finals>>
<1>0. net \in QwenAudioNets /\ audio \in AudioStates /\ work \in WorkStates /\ Shared
  BY DEF QwenAudioInv, Shared, SharedType
<1>1. audio.kept \in BOOLEAN
  BY <1>0 DEF AudioStates
<1>2. net' \in QwenAudioNets
  BY <1>0, <1>1 DEF QwenAudioNets, QwenAudio!NotFinished, Reasons
<1>3. /\ net'.replaying = net.replaying /\ net'.late = net.late
      /\ net'.noSpeech = net.noSpeech /\ net'.drain = net.drain
      /\ net'.drainFailed = net.drainFailed
  BY <1>0, <1>1 DEF QwenAudioNets, QwenAudio!NotFinished, Reasons
<1>4. /\ work' \in WorkStates
      /\ work'.verdict = work.verdict
  BY <1>0, <1>1 DEF WorkStates, QwenAudio!NotFinished
<1>5. /\ pc = "final" /\ pc' = "quit"
      /\ UNCHANGED <<app, finals, audio>>
  BY DEF QwenAudio!NotFinished
<1> QED
  BY <1>0, <1>1, <1>2, <1>3, <1>4, <1>5, WorkerKeeps DEF QwenAudioInv, OneFinal,
     AbortSeen, ListeningOver, QwenAudioSteps, QwenAudioLateSteps

LEMMA QwenAudioStopDrain ==
  ASSUME QwenAudioInv, QwenAudio!StopDrain
  PROVE  QwenAudioInv' /\ UNCHANGED <<app, finals>>
<1>0. net \in QwenAudioNets /\ audio \in AudioStates /\ work \in WorkStates /\ Shared
  BY DEF QwenAudioInv, Shared, SharedType
<1>1. net' \in QwenAudioNets
  BY <1>0, QwenAudioLinks DEF QwenAudioNets, QwenAudio!StopDrain
<1>2. /\ net'.replaying = net.replaying /\ net'.late = net.late
      /\ net'.noSpeech = net.noSpeech /\ net'.drain = net.drain
      /\ net'.drainFailed = net.drainFailed /\ net'.failed = net.failed
  BY <1>0, QwenAudioLinks DEF QwenAudioNets, QwenAudio!StopDrain
<1>3. /\ pc \in {"quit", "cancel"}
      /\ pc' = IF pc = "quit" THEN "join" ELSE "cancelled"
      /\ UNCHANGED <<app, finals, audio, work>>
  BY DEF QwenAudio!StopDrain
<1> QED
  BY <1>0, <1>1, <1>2, <1>3, WorkerKeeps DEF QwenAudioInv, OneFinal, AbortSeen,
     ListeningOver, QwenAudioSteps, QwenAudioLateSteps

LEMMA QwenAudioCancelled ==
  ASSUME QwenAudioInv, QwenAudio!Cancelled
  PROVE  QwenAudioInv' /\ UNCHANGED <<app, finals>>
<1>0. net \in QwenAudioNets /\ audio \in AudioStates /\ work \in WorkStates /\ Shared
  BY DEF QwenAudioInv, Shared, SharedType
<1>1. net' \in QwenAudioNets
  BY <1>0, QwenAudioLinks DEF QwenAudioNets, QwenAudio!Cancelled
<1>2. /\ net'.replaying = net.replaying /\ net'.late = net.late
      /\ net'.noSpeech = net.noSpeech /\ net'.drain = net.drain
      /\ net'.drainFailed = net.drainFailed /\ net'.failed = net.failed
  BY <1>0, QwenAudioLinks DEF QwenAudioNets, QwenAudio!Cancelled
<1>3. /\ pc = "cancelled" /\ pc' = "stop"
      /\ UNCHANGED <<app, finals, audio, work>>
  BY DEF QwenAudio!Cancelled
<1> QED
  BY <1>0, <1>1, <1>2, <1>3, WorkerKeeps DEF QwenAudioInv, OneFinal, AbortSeen,
     ListeningOver, QwenAudioSteps, QwenAudioLateSteps

LEMMA QwenAudioDrainJoined ==
  ASSUME QwenAudioInv, QwenAudio!DrainJoined
  PROVE  QwenAudioInv' /\ UNCHANGED <<app, finals>>
<1> DEFINE text == IF QwenAudio!CanRecover THEN net.committed ELSE net.text
           failed == net.failed /\ ~QwenAudio!CanRecover
           recover == work.recover /\ ~QwenAudio!CanRecover
           again == QwenAudio!ReplayWanted(text, failed, recover)
<1>0. net \in QwenAudioNets /\ audio \in AudioStates /\ work \in WorkStates /\ Shared
  BY DEF QwenAudioInv, Shared, SharedType
<1>1. text \in Pcm /\ failed \in BOOLEAN /\ recover \in BOOLEAN
  BY <1>0 DEF QwenAudioNets
<1>2. again \in BOOLEAN /\ (again => ~app.aborted)
  BY DEF QwenAudio!ReplayWanted
<1>3. /\ pc = "join" /\ pc' = IF again THEN "link" ELSE "verdict"
      /\ net' = [net EXCEPT !.link = IF again THEN QwenAudio!FreshLink
                                     ELSE QwenAudio!Shut(@),
                            !.replaying = again, !.failed = failed,
                            !.text = IF again THEN @ ELSE text]
      /\ work' = [QwenAudio!Primary(work) EXCEPT !.recover = recover, !.text = text,
                    !.retries = IF again THEN @ + 1 ELSE @]
      /\ UNCHANGED <<app, audio, finals>>
  BY DEF QwenAudio!DrainJoined
<1> HIDE DEF text, failed, recover, again
<1>4. /\ net' \in QwenAudioNets
      /\ net'.replaying = again /\ net'.late = net.late
  <2> DEFINE l == IF again THEN QwenAudio!FreshLink ELSE QwenAudio!Shut(net.link)
             heard == IF again THEN net.text ELSE text
  <2>1. net' = [net EXCEPT !.link = l, !.replaying = again, !.failed = failed,
                           !.text = heard]
    BY <1>3
  <2>2. l \in Links /\ heard \in Pcm
    BY <1>0, <1>1, QwenAudioLinks DEF QwenAudioNets
  <2> DEFINE n == [net EXCEPT !.link = l, !.text = heard]
  <2>3. n \in QwenAudioNets /\ n.late = net.late
    BY <1>0, <2>2 DEF QwenAudioNets
  <2>4. net' = [n EXCEPT !.replaying = again, !.failed = failed]
    BY <2>1
  <2> HIDE DEF n
  <2> QED
    BY <1>1, <1>2, <2>3, <2>4 DEF QwenAudioNets
<1>5. work' \in WorkStates
  <2>1. /\ QwenAudio!Primary(work) \in WorkStates
        /\ QwenAudio!Primary(work).retries + 1 \in Nat
    BY <1>0 DEF WorkStates, QwenAudio!Primary
  <2> QED
    BY <1>1, <1>2, <1>3, <2>1 DEF WorkStates
<1> QED
  BY <1>0, <1>2, <1>3, <1>4, <1>5, WorkerKeeps DEF QwenAudioInv, OneFinal, AbortSeen,
     ListeningOver, QwenAudioSteps, QwenAudioLateSteps

LEMMA QwenAudioDecide ==
  ASSUME QwenAudioInv, QwenAudio!Decide
  PROVE  QwenAudioInv' /\ UNCHANGED <<app, finals>>
<1>0. net \in QwenAudioNets /\ audio \in AudioStates /\ work \in WorkStates /\ Shared
  BY DEF QwenAudioInv, Shared, SharedType
<1>1. QwenAudio!NoText \in Pcm /\ net.text \in Pcm
  BY <1>0 DEF QwenAudioNets, QwenAudio!NoText, Pcm
<1>2. UNCHANGED net
  BY DEF QwenAudio!Decide
<1>3. work' \in WorkStates
  BY <1>0, <1>1 DEF WorkStates, QwenAudio!Decide, QwenAudio!Conclude, Verdicts, Kinds
<1>4. /\ pc = "verdict" /\ pc' = IF app.aborted THEN "stop" ELSE "dispatch"
      /\ UNCHANGED <<app, finals, audio>>
  BY DEF QwenAudio!Decide, QwenAudio!Conclude
<1> QED
  BY <1>0, <1>1, <1>2, <1>3, <1>4, WorkerKeeps DEF QwenAudioInv, OneFinal, AbortSeen,
     ListeningOver, QwenAudioSteps, QwenAudioLateSteps

LEMMA QwenAudioReplayUnits ==
  ASSUME net \in QwenAudioNets, audio \in AudioStates
  PROVE  SubSeq(audio.replay, Len(net.link.got) + 1,
                Smaller(Len(net.link.got) + ChunkUnits, Len(audio.replay))) \in Pcm
<1>1. Len(net.link.got) \in Nat /\ Len(audio.replay) \in Nat /\ audio.replay \in Pcm
  BY PcmTypes DEF QwenAudioNets, Links, AudioStates
<1> QED
  BY <1>1, CutTypes, SessionAssumption DEF Smaller

LEMMA QwenAudioReplaySend ==
  ASSUME QwenAudioInv, QwenAudio!ReplaySend
  PROVE  QwenAudioInv' /\ UNCHANGED <<app, finals>>
<1>0. net \in QwenAudioNets /\ audio \in AudioStates /\ work \in WorkStates /\ Shared
  BY DEF QwenAudioInv, Shared, SharedType
<1>1. \A s \in QwenAudio!Sends(net.link, SubSeq(audio.replay, Len(net.link.got) + 1,
                QwenAudio!Smaller(Len(net.link.got) + ChunkUnits, Len(audio.replay))),
                Len(net.link.got) = Len(audio.replay)) : s.link \in Links
  BY <1>0, QwenAudioSends, QwenAudioReplayUnits DEF QwenAudio!Smaller, Smaller
<1>2. net' = net \/ \E l \in Links : net' = [net EXCEPT !.link = l]
  BY <1>0, <1>1, QwenAudioLinks DEF QwenAudio!ReplaySend
<1>3. net' \in QwenAudioNets
  BY <1>0, <1>1, <1>2 DEF QwenAudioNets
<1>4. /\ net'.replaying = net.replaying /\ net'.late = net.late
      /\ net'.noSpeech = net.noSpeech /\ net'.drain = net.drain
      /\ net'.drainFailed = net.drainFailed /\ net'.failed = net.failed
  BY <1>0, <1>1, <1>2 DEF QwenAudioNets
<1>5. /\ pc = "replaySend"
      /\ pc' \in {"replayQuit", "replayFinal", "replaySend"}
      /\ UNCHANGED <<app, finals, audio, work>>
  BY DEF QwenAudio!ReplaySend
<1> QED
  BY <1>0, <1>1, <1>2, <1>3, <1>4, <1>5, WorkerKeeps DEF QwenAudioInv, OneFinal,
     AbortSeen, ListeningOver, QwenAudioSteps, QwenAudioLateSteps

LEMMA QwenAudioReplayWaited ==
  ASSUME QwenAudioInv, QwenAudio!ReplayWaited
  PROVE  QwenAudioInv' /\ UNCHANGED <<app, finals>>
<1>0. net \in QwenAudioNets /\ audio \in AudioStates /\ work \in WorkStates /\ Shared
  BY DEF QwenAudioInv, Shared, SharedType
<1>1. net' \in QwenAudioNets
  BY <1>0 DEF QwenAudioNets, QwenAudio!ReplayWaited
<1>2. /\ net'.replaying = net.replaying /\ net'.late = net.late
      /\ net'.noSpeech = net.noSpeech /\ net'.drain = net.drain
      /\ net'.failed = net.failed
  BY <1>0 DEF QwenAudioNets, QwenAudio!ReplayWaited
<1>3. /\ pc = "replayFinal" /\ pc' = "replayQuit"
      /\ UNCHANGED <<app, finals, audio, work>>
  BY DEF QwenAudio!ReplayWaited
<1> QED
  BY <1>0, <1>1, <1>2, <1>3, WorkerKeeps DEF QwenAudioInv, OneFinal, AbortSeen,
     ListeningOver, QwenAudioSteps, QwenAudioLateSteps

LEMMA QwenAudioReplayStopDrain ==
  ASSUME QwenAudioInv, QwenAudio!ReplayStopDrain
  PROVE  QwenAudioInv' /\ UNCHANGED <<app, finals>>
<1>0. net \in QwenAudioNets /\ audio \in AudioStates /\ work \in WorkStates /\ Shared
  BY DEF QwenAudioInv, Shared, SharedType
<1>1. net' \in QwenAudioNets
  BY <1>0, QwenAudioLinks DEF QwenAudioNets, QwenAudio!ReplayStopDrain
<1>2. /\ net'.replaying = net.replaying /\ net'.late = net.late
      /\ net'.noSpeech = net.noSpeech /\ net'.drain = net.drain
      /\ net'.drainFailed = net.drainFailed /\ net'.failed = net.failed
  BY <1>0, QwenAudioLinks DEF QwenAudioNets, QwenAudio!ReplayStopDrain
<1>3. /\ pc = "replayQuit" /\ pc' = "replayJoin"
      /\ UNCHANGED <<app, finals, audio, work>>
  BY DEF QwenAudio!ReplayStopDrain
<1> QED
  BY <1>0, <1>1, <1>2, <1>3, WorkerKeeps DEF QwenAudioInv, OneFinal, AbortSeen,
     ListeningOver, QwenAudioSteps, QwenAudioLateSteps

LEMMA QwenAudioReplayJoined ==
  ASSUME QwenAudioInv, QwenAudio!ReplayJoined
  PROVE  QwenAudioInv' /\ UNCHANGED <<app, finals>>
<1>0. net \in QwenAudioNets /\ audio \in AudioStates /\ work \in WorkStates /\ Shared
  BY DEF QwenAudioInv, Shared, SharedType
<1>1. QwenAudio!Shut(net.link) \in Links
  BY <1>0, QwenAudioLinks
<1>2. \/ net' = [net EXCEPT !.link = QwenAudio!Shut(@), !.failed = FALSE]
      \/ net' = [net EXCEPT !.link = QwenAudio!Shut(@)]
  BY DEF QwenAudio!ReplayJoined
<1>3. /\ net' \in QwenAudioNets
      /\ net'.replaying = net.replaying /\ net'.late = net.late
      /\ net'.noSpeech = net.noSpeech /\ net'.drain = net.drain
      /\ net'.drainFailed = net.drainFailed
  <2>1. CASE net' = [net EXCEPT !.link = QwenAudio!Shut(@), !.failed = FALSE]
    BY <1>0, <1>1, <2>1 DEF QwenAudioNets
  <2>2. CASE net' = [net EXCEPT !.link = QwenAudio!Shut(@)]
    BY <1>0, <1>1, <2>2 DEF QwenAudioNets
  <2> QED
    BY <1>2, <2>1, <2>2
<1>4. /\ pc = "replayJoin" /\ pc' \in {"verdict", "replayFailed"}
      /\ UNCHANGED <<app, finals, audio, work>>
  BY DEF QwenAudio!ReplayJoined
<1> QED
  BY <1>0, <1>3, <1>4, WorkerKeeps DEF QwenAudioInv, OneFinal, AbortSeen,
     ListeningOver, QwenAudioSteps, QwenAudioLateSteps

LEMMA QwenAudioReplayFailed ==
  ASSUME QwenAudioInv, QwenAudio!ReplayFailed
  PROVE  QwenAudioInv' /\ UNCHANGED <<app, finals>>
<1>0. net \in QwenAudioNets /\ audio \in AudioStates /\ work \in WorkStates /\ Shared
  BY DEF QwenAudioInv, Shared, SharedType
<1>1. work.recover \in BOOLEAN /\ work.text \in Pcm
  BY <1>0 DEF WorkStates
<1>2. net' \in QwenAudioNets
  BY <1>0, <1>1 DEF QwenAudioNets, QwenAudio!ReplayFailed
<1>3. /\ net'.replaying = net.replaying /\ net'.late = net.late
      /\ net'.noSpeech = net.noSpeech /\ net'.drain = net.drain
      /\ net'.drainFailed = net.drainFailed
  BY <1>0, <1>1 DEF QwenAudioNets, QwenAudio!ReplayFailed
<1>4. /\ pc = "replayFailed" /\ pc' = "verdict"
      /\ UNCHANGED <<app, finals, audio, work>>
  BY DEF QwenAudio!ReplayFailed
<1> QED
  BY <1>0, <1>1, <1>2, <1>3, <1>4, WorkerKeeps DEF QwenAudioInv, OneFinal, AbortSeen,
     ListeningOver, QwenAudioSteps, QwenAudioLateSteps

LEMMA QwenAudioDrainQuits ==
  ASSUME QwenAudioInv, QwenAudio!DrainQuits
  PROVE  QwenAudioInv' /\ UNCHANGED <<app, finals>>
<1>0. net \in QwenAudioNets /\ audio \in AudioStates /\ work \in WorkStates /\ Shared
  BY DEF QwenAudioInv, Shared, SharedType
<1>1. net' \in QwenAudioNets
  BY <1>0 DEF QwenAudioNets, QwenAudio!DrainQuits
<1>2. /\ net'.replaying = net.replaying /\ net'.late = net.late
      /\ net'.noSpeech = net.noSpeech /\ net'.drainFailed = net.drainFailed
      /\ net'.failed = net.failed
      /\ net'.drain = "done"
  BY <1>0 DEF QwenAudioNets, QwenAudio!DrainQuits
<1>3. /\ pc' = pc
      /\ UNCHANGED <<app, finals, audio, work>>
  BY DEF QwenAudio!DrainQuits
<1> QED
  BY <1>0, <1>1, <1>2, <1>3, WorkerKeeps DEF QwenAudioInv, OneFinal, AbortSeen,
     ListeningOver, QwenAudioSteps, QwenAudioLateSteps

LEMMA QwenAudioDrainTransport ==
  ASSUME QwenAudioInv, QwenAudio!DrainTransport
  PROVE  QwenAudioInv' /\ UNCHANGED <<app, finals>>
<1>0. net \in QwenAudioNets /\ audio \in AudioStates /\ work \in WorkStates /\ Shared
  BY DEF QwenAudioInv, Shared, SharedType
<1>1. net' \in QwenAudioNets
  BY <1>0 DEF QwenAudioNets, QwenAudio!DrainTransport, Reasons
<1>2. /\ net'.replaying = net.replaying /\ net'.late = net.late
      /\ net'.noSpeech = net.noSpeech /\ net'.failed = net.failed
      /\ net'.drain = "done" /\ net'.drainFailed
  BY <1>0 DEF QwenAudioNets, QwenAudio!DrainTransport, Reasons
<1>3. /\ pc' = pc
      /\ UNCHANGED <<app, finals, audio, work>>
  BY DEF QwenAudio!DrainTransport
<1> QED
  BY <1>0, <1>1, <1>2, <1>3, WorkerKeeps DEF QwenAudioInv, OneFinal, AbortSeen,
     ListeningOver, QwenAudioSteps, QwenAudioLateSteps

LEMMA QwenAudioDrainTaskFailed ==
  ASSUME QwenAudioInv, QwenAudio!DrainTaskFailed
  PROVE  QwenAudioInv' /\ UNCHANGED <<app, finals>>
<1>0. net \in QwenAudioNets /\ audio \in AudioStates /\ work \in WorkStates /\ Shared
  BY DEF QwenAudioInv, Shared, SharedType
<1>1. PICK reason \in Reasons, retryable \in BOOLEAN :
        net' = [net EXCEPT !.drain = "done", !.drainFailed = TRUE, !.reason = reason,
                           !.retryable = retryable]
  <2>1. PICK r \in {"peerClosed", "provider"}, again \in BOOLEAN :
          net' = [net EXCEPT !.drain = "done", !.drainFailed = TRUE,
                    !.reason = IF net.replaying THEN @ ELSE r,
                    !.retryable = IF net.replaying THEN @ ELSE again]
    BY DEF QwenAudio!DrainTaskFailed
  <2>2. /\ (IF net.replaying THEN net.reason ELSE r) \in Reasons
        /\ (IF net.replaying THEN net.retryable ELSE again) \in BOOLEAN
    BY <1>0 DEF QwenAudioNets, Reasons
  <2> QED
    BY <2>1, <2>2
<1>2. net' \in QwenAudioNets
  BY <1>0, <1>1 DEF QwenAudioNets
<1>3. /\ net'.replaying = net.replaying /\ net'.late = net.late
      /\ net'.noSpeech = net.noSpeech /\ net'.failed = net.failed
      /\ net'.drain = "done" /\ net'.drainFailed
  BY <1>0, <1>1 DEF QwenAudioNets
<1>4. /\ pc' = pc
      /\ UNCHANGED <<app, finals, audio, work>>
  BY DEF QwenAudio!DrainTaskFailed
<1> QED
  BY <1>0, <1>1, <1>2, <1>3, <1>4, WorkerKeeps DEF QwenAudioInv, OneFinal, AbortSeen,
     ListeningOver, QwenAudioSteps, QwenAudioLateSteps

LEMMA QwenAudioDrainTaskFinished ==
  ASSUME QwenAudioInv, QwenAudio!DrainTaskFinished
  PROVE  QwenAudioInv' /\ UNCHANGED <<app, finals>>
<1>0. net \in QwenAudioNets /\ audio \in AudioStates /\ work \in WorkStates /\ Shared
  BY DEF QwenAudioInv, Shared, SharedType
<1>1. net' \in QwenAudioNets
  BY <1>0 DEF QwenAudioNets, QwenAudio!DrainTaskFinished
<1>2. /\ net'.replaying = net.replaying /\ net'.late = net.late
      /\ net'.noSpeech = net.noSpeech /\ net'.drainFailed = net.drainFailed
      /\ net'.failed = net.failed
      /\ net'.drain = "done"
  BY <1>0 DEF QwenAudioNets, QwenAudio!DrainTaskFinished
<1>3. /\ pc' = pc
      /\ UNCHANGED <<app, finals, audio, work>>
  BY DEF QwenAudio!DrainTaskFinished
<1> QED
  BY <1>0, <1>1, <1>2, <1>3, WorkerKeeps DEF QwenAudioInv, OneFinal, AbortSeen,
     ListeningOver, QwenAudioSteps, QwenAudioLateSteps

LEMMA QwenAudioDrainNoSpeech ==
  ASSUME QwenAudioInv, QwenAudio!DrainNoSpeech
  PROVE  QwenAudioInv' /\ UNCHANGED <<app, finals>>
<1>0. net \in QwenAudioNets /\ audio \in AudioStates /\ work \in WorkStates /\ Shared
  BY DEF QwenAudioInv, Shared, SharedType
<1>1. net' \in QwenAudioNets
  BY <1>0 DEF QwenAudioNets, QwenAudio!DrainNoSpeech, QwenAudio!Listening
<1>2. /\ net'.replaying = net.replaying /\ net'.late = net.late
      /\ net'.failed = net.failed
      /\ net'.drain = "done" /\ net.drain = "on"
      /\ (net'.noSpeech = net.noSpeech /\ net'.drainFailed = net.drainFailed)
         \/ (net'.drainFailed /\ ~net.replaying)
  BY <1>0 DEF QwenAudioNets, QwenAudio!DrainNoSpeech, QwenAudio!Listening
<1>3. /\ pc' = pc
      /\ UNCHANGED <<app, finals, audio, work>>
  BY DEF QwenAudio!DrainNoSpeech
<1> QED
  BY <1>0, <1>1, <1>2, <1>3, WorkerKeeps DEF QwenAudioInv, OneFinal, AbortSeen,
     ListeningOver, QwenAudioSteps, QwenAudioLateSteps

LEMMA QwenAudioDrainText ==
  ASSUME QwenAudioInv, QwenAudio!DrainText
  PROVE  QwenAudioInv' /\ UNCHANGED <<app, finals>>
<1>0. net \in QwenAudioNets /\ audio \in AudioStates /\ work \in WorkStates /\ Shared
  BY DEF QwenAudioInv, Shared, SharedType
<1>1. net.link \in Links /\ net.link.got \in Pcm
  BY <1>0 DEF QwenAudioNets, Links
<1>2. QwenAudio!Prefixes(net.link.got) \subseteq Pcm
  BY <1>1, PrefixesType DEF QwenAudio!Prefixes, Prefixes
<1>3. PICK text \in QwenAudio!Prefixes(net.link.got), end \in BOOLEAN :
        net' = [net EXCEPT !.text = text,
                  !.drain = IF net.drainStop \/ app.aborted THEN "done" ELSE @,
                  !.committed = IF end /\ ~net.replaying THEN text ELSE @,
                  !.link.told = net.link.ended /\ text = net.link.got]
  BY DEF QwenAudio!DrainText
<1> DEFINE drain == IF net.drainStop \/ app.aborted THEN "done" ELSE net.drain
           committed == IF end /\ ~net.replaying THEN text ELSE net.committed
           told == net.link.ended /\ text = net.link.got
           link == [net.link EXCEPT !.told = told]
<1>4. /\ text \in Pcm /\ committed \in Pcm
      /\ drain \in {"off", "on", "done"} /\ (drain = "on" => net.drain = "on")
  BY <1>0, <1>2 DEF QwenAudioNets
<1>5. told \in BOOLEAN
  BY <1>1 DEF Links
<1>6. link \in Links
  BY <1>1, <1>5 DEF Links
<1>7. net' = [net EXCEPT !.text = text, !.drain = drain, !.committed = committed,
                         !.link = link]
  BY <1>0, <1>3 DEF QwenAudioNets
<1> HIDE DEF drain, committed, told, link
<1>8. /\ net' \in QwenAudioNets
      /\ net'.replaying = net.replaying /\ net'.late = net.late
      /\ net'.noSpeech = net.noSpeech /\ net'.drainFailed = net.drainFailed
      /\ net'.failed = net.failed
      /\ net'.drain = "on" => net.drain = "on"
  BY <1>0, <1>4, <1>6, <1>7 DEF QwenAudioNets
<1>9. pc' = pc /\ UNCHANGED <<app, finals, audio, work>>
  BY DEF QwenAudio!DrainText
<1> QED
  BY <1>0, <1>8, <1>9, WorkerKeeps DEF QwenAudioInv, OneFinal, AbortSeen,
     ListeningOver, QwenAudioSteps, QwenAudioLateSteps

LEMMA VolcTexts ==
  Volcengine!NoText \in Pcm /\ Volcengine!ErrorText \in Pcm /\ <<>> \in Pcm
  BY DEF Volcengine!NoText, Volcengine!ErrorText, Pcm

\* What a receive and a send leave of a session: nobody there sets forceAbort.
LEMMA VolcReceived ==
  ASSUME NEW sess \in VolcSessions, NEW r \in Volcengine!Received(sess)
  PROVE  r.sess \in VolcSessions /\ r.text \in Pcm
         /\ r.sess.forceAbort = sess.forceAbort
<1>1. sess.got \in Pcm
  BY DEF VolcSessions
<1>2. Volcengine!Prefixes(sess.got) \subseteq Pcm
  BY <1>1, PrefixesType DEF Volcengine!Prefixes, Prefixes
<1>3. /\ [sess EXCEPT !.connected = FALSE] \in VolcSessions
      /\ [sess EXCEPT !.connected = FALSE].forceAbort = sess.forceAbort
      /\ [sess EXCEPT !.told = TRUE] \in VolcSessions
      /\ [sess EXCEPT !.told = TRUE].forceAbort = sess.forceAbort
  BY DEF VolcSessions
<1>4. ASSUME NEW f \in Volcengine!FrameTexts(sess)
      PROVE  f.sess \in VolcSessions /\ f.text \in Pcm
             /\ f.sess.forceAbort = sess.forceAbort
  <2>1. CASE \E t \in Volcengine!Prefixes(sess.got) \cup {Volcengine!ErrorText} :
               f = [sess |-> sess, text |-> t]
    BY <1>2, <2>1, VolcTexts
  <2>2. CASE \E t \in Volcengine!Prefixes(sess.got) :
               f = [sess |-> [sess EXCEPT !.told = TRUE], text |-> t]
    <3>1. PICK t \in Volcengine!Prefixes(sess.got) :
            f = [sess |-> [sess EXCEPT !.told = TRUE], text |-> t]
      BY <2>2
    <3>2. f.sess = [sess EXCEPT !.told = TRUE] /\ f.text = t
      BY <3>1
    <3> QED
      BY <1>2, <1>3, <3>2
  <2> QED
    BY <1>4, <2>1, <2>2 DEF Volcengine!FrameTexts
<1>5. CASE r = [sess |-> sess, text |-> Volcengine!NoText]
  BY <1>5, VolcTexts
<1>6. CASE r = [sess |-> [sess EXCEPT !.connected = FALSE], text |-> Volcengine!NoText]
  BY <1>3, <1>6, VolcTexts
<1> QED
  BY <1>4, <1>5, <1>6 DEF Volcengine!Received

LEMMA VolcSent ==
  ASSUME NEW sess \in VolcSessions, NEW units \in Pcm, NEW last \in BOOLEAN,
         NEW r \in Volcengine!Sent(sess, units, last)
  PROVE  r.sess \in VolcSessions /\ r.text \in Pcm
         /\ r.sess.forceAbort = sess.forceAbort
<1> DEFINE taken == [sess EXCEPT !.got = @ \o units, !.ended = last]
           lost == [sess EXCEPT !.ws = FALSE, !.connected = FALSE]
<1>1. sess.got \o units \in Pcm
  BY PcmTypes DEF VolcSessions
<1>2. taken \in VolcSessions /\ taken.forceAbort = sess.forceAbort
  BY <1>1 DEF VolcSessions
<1>3. lost \in VolcSessions /\ lost.forceAbort = sess.forceAbort
  BY DEF VolcSessions
<1>4. CASE r = [sess |-> sess, text |-> Volcengine!NoText]
  BY <1>4, VolcTexts
<1>5. CASE r = [sess |-> lost, text |-> Volcengine!NoText]
  BY <1>3, <1>5, VolcTexts
<1>6. CASE r = [sess |-> taken, text |-> Volcengine!NoText]
  BY <1>2, <1>6, VolcTexts
<1>7. CASE r \in Volcengine!Received(taken)
  BY <1>2, <1>7, VolcReceived
<1> QED
  BY <1>4, <1>5, <1>6, <1>7 DEF Volcengine!Sent

LEMMA VolcOpened ==
  ASSUME NEW sess \in VolcSessions
  PROVE  /\ Volcengine!Opened(sess) \in VolcSessions
         /\ Volcengine!Opened(sess).forceAbort = sess.forceAbort
  BY VolcTexts DEF VolcSessions, Volcengine!Opened

\* The operators of SessionBase, as the instance has them.
LEMMA VolcBase ==
  ASSUME audio \in AudioStates
  PROVE  /\ Volcengine!KeepPending(audio) = KeepPending(audio)
         /\ Volcengine!DrainToChunk(audio) = DrainToChunk(audio)
         /\ \A b \in AudioStates, units \in Pcm :
              Volcengine!Keep(b, units) = Keep(b, units)
  BY DEF Volcengine!KeepPending, KeepPending, Volcengine!Keep, Keep,
     Volcengine!DrainToChunk, DrainToChunk, Volcengine!Smaller, Smaller

LEMMA VolcPrimary ==
  ASSUME work \in WorkStates
  PROVE  /\ Volcengine!Primary(work) \in WorkStates
         /\ Volcengine!Primary(work).retries = work.retries
         /\ Volcengine!PrimaryUnlessAborted \in WorkStates
  BY DEF WorkStates, Volcengine!Primary, Volcengine!PrimaryUnlessAborted

LEMMA VolcMain ==
  ASSUME net \in VolcNets
  PROVE  net.main \in VolcSessions /\ net.retry \in VolcSessions
  BY DEF VolcNets

LEMMA VolcOpenOk ==
  ASSUME VolcInv, Volcengine!OpenOk
  PROVE  VolcInv' /\ UNCHANGED <<app, finals>>
<1>0. net \in VolcNets /\ audio \in AudioStates /\ work \in WorkStates /\ Shared
  BY DEF VolcInv, Shared, SharedType
<1>1. net.main \in VolcSessions /\ net.retry \in VolcSessions
  BY <1>0, VolcMain
<1>2. /\ Volcengine!Opened(net.main) \in VolcSessions
      /\ Volcengine!Opened(net.main).forceAbort = net.main.forceAbort
  BY <1>1, VolcOpened
<1>3. net' \in VolcNets
  BY <1>0, <1>1, <1>2 DEF VolcNets, Volcengine!OpenOk
<1>4. net'.main.forceAbort = net.main.forceAbort
  BY <1>0, <1>1, <1>2 DEF VolcNets, Volcengine!OpenOk
<1>5. /\ pc = "opening" /\ pc' = "send"
      /\ UNCHANGED <<app, finals, audio, work>>
  BY DEF Volcengine!OpenOk
<1> QED
  BY <1>0, <1>1, <1>2, <1>3, <1>4, <1>5, WorkerKeeps DEF VolcInv, OneFinal, ChunkFits,
     ListeningOver, VolcSteps, VolcLateSteps

LEMMA VolcOpenFailed ==
  ASSUME VolcInv, Volcengine!OpenFailed
  PROVE  VolcInv' /\ UNCHANGED <<app, finals>>
<1>0. net \in VolcNets /\ audio \in AudioStates /\ work \in WorkStates /\ Shared
  BY DEF VolcInv, Shared, SharedType
<1>1. net' \in VolcNets
  BY <1>0 DEF VolcNets, Volcengine!OpenFailed
<1>2. net'.main.forceAbort = net.main.forceAbort
  BY <1>0 DEF VolcNets, Volcengine!OpenFailed
<1>3. /\ pc = "opening" /\ pc' = "reopen"
      /\ UNCHANGED <<app, finals, audio, work>>
  BY DEF Volcengine!OpenFailed
<1> QED
  BY <1>0, <1>1, <1>2, <1>3, WorkerKeeps DEF VolcInv, OneFinal, ChunkFits, ListeningOver,
     VolcSteps, VolcLateSteps

LEMMA VolcReopen ==
  ASSUME VolcInv, Volcengine!Reopen
  PROVE  VolcInv' /\ UNCHANGED <<app, finals>>
<1>0. net \in VolcNets /\ audio \in AudioStates /\ work \in WorkStates /\ Shared
  BY DEF VolcInv, Shared, SharedType
<1>1. Volcengine!Smaller(net.opens + 1, 3) \in Nat
  BY <1>0 DEF VolcNets, Volcengine!Smaller
<1>2. net' \in VolcNets
  BY <1>0, <1>1 DEF VolcNets, Volcengine!Reopen
<1>3. net'.main.forceAbort = net.main.forceAbort
  BY <1>0, <1>1 DEF VolcNets, Volcengine!Reopen
<1>4. /\ pc = "reopen" /\ pc' = "opening"
      /\ UNCHANGED <<app, finals, audio, work>>
  BY DEF Volcengine!Reopen
<1> QED
  BY <1>0, <1>1, <1>2, <1>3, <1>4, WorkerKeeps DEF VolcInv, OneFinal, ChunkFits,
     ListeningOver, VolcSteps, VolcLateSteps

LEMMA VolcOpenGivenUp ==
  ASSUME VolcInv, Volcengine!OpenGivenUp
  PROVE  VolcInv' /\ UNCHANGED <<app, finals>>
<1>0. net \in VolcNets /\ audio \in AudioStates /\ work \in WorkStates /\ Shared
  BY DEF VolcInv, Shared, SharedType
<1>1. Volcengine!PrimaryUnlessAborted \in WorkStates /\ "error" \in Verdicts
  BY <1>0, VolcPrimary DEF Verdicts, Kinds
<1>2. /\ work' = [Volcengine!PrimaryUnlessAborted EXCEPT
                    !.verdict = "error", !.text = Volcengine!NoText]
      /\ pc = "reopen"
      /\ pc' = IF app.aborted THEN "stop" ELSE "dispatch"
      /\ UNCHANGED <<app, audio, net, finals>>
  BY DEF Volcengine!OpenGivenUp, Volcengine!Conclude
<1>3. work' \in WorkStates /\ work'.verdict = "error"
  BY <1>1, <1>2, VolcTexts DEF WorkStates
<1> QED
  BY <1>0, <1>2, <1>3, WorkerKeeps DEF VolcInv, OneFinal, ChunkFits,
     ListeningOver, VolcSteps,
     VolcLateSteps

LEMMA EmptyFits ==
  Len(<<>>) <= ChunkUnits
  BY SessionAssumption

LEMMA SmallerIs ==
  ASSUME NEW m \in Nat, NEW n \in Nat
  PROVE  Smaller(m, n) \in Nat /\ Smaller(m, n) <= m /\ Smaller(m, n) <= n
  BY DEF Smaller

\* The chunk is filled from what is pending.
LEMMA DrainToChunkType ==
  ASSUME audio \in AudioStates, ChunkFits
  PROVE  /\ DrainToChunk(audio) \in AudioStates
         /\ DrainToChunk(audio).overflowed = audio.overflowed
         /\ DrainToChunk(audio).kept = audio.kept
         /\ DrainToChunk(audio).replay = audio.replay
         /\ Len(DrainToChunk(audio).chunk) <= ChunkUnits
<1> DEFINE take == Smaller(ChunkUnits - Len(audio.chunk), Len(audio.pending))
<1>1. /\ audio.chunk \in Pcm /\ audio.pending \in Pcm
      /\ Len(audio.chunk) \in Nat /\ Len(audio.pending) \in Nat
  BY PcmTypes DEF AudioStates
<1>2. take \in Nat /\ take <= Len(audio.pending)
      /\ take <= ChunkUnits - Len(audio.chunk)
  <2>1. ChunkUnits \in Nat /\ Len(audio.chunk) <= ChunkUnits
    BY SessionAssumption DEF ChunkFits
  <2>2. ChunkUnits - Len(audio.chunk) \in Nat
    BY <1>1, <2>1
  <2> QED
    BY <1>1, <2>2, SmallerIs
<1>3. /\ SubSeq(audio.pending, 1, take) \in Pcm
      /\ Len(SubSeq(audio.pending, 1, take)) = take
      /\ SubSeq(audio.pending, take + 1, Len(audio.pending)) \in Pcm
  <2> HIDE DEF take
  <2>1. /\ SubSeq(audio.pending, 1, take) \in Seq(Nat)
        /\ Len(SubSeq(audio.pending, 1, take)) = take
    BY <1>1, <1>2 DEF Pcm
  <2>2. SubSeq(audio.pending, take + 1, Len(audio.pending)) \in Seq(Nat)
    BY <1>1, <1>2 DEF Pcm
  <2> QED
    BY <2>1, <2>2 DEF Pcm
<1>4. /\ audio.chunk \o SubSeq(audio.pending, 1, take) \in Pcm
      /\ Len(audio.chunk \o SubSeq(audio.pending, 1, take)) <= ChunkUnits
  BY <1>1, <1>2, <1>3, SessionAssumption DEF Pcm
<1> HIDE DEF take
<1> QED
  BY <1>3, <1>4 DEF DrainToChunk, AudioStates, take

\* What every send of the main session leaves in net.
LEMMA VolcAfterSend ==
  ASSUME net \in VolcNets, NEW units \in Pcm, NEW last \in BOOLEAN,
         NEW r \in Volcengine!Sent(net.main, units, last)
  PROVE  /\ Volcengine!AfterSend(r) \in VolcNets
         /\ Volcengine!AfterSend(r).main.forceAbort = net.main.forceAbort
<1>1. /\ r.sess \in VolcSessions /\ r.text \in Pcm
      /\ r.sess.forceAbort = net.main.forceAbort
  BY VolcMain, VolcSent
<1>2. (IF r.text # Volcengine!NoText THEN r.text ELSE net.partial) \in Pcm
  BY <1>1 DEF VolcNets
<1> QED
  BY <1>1, <1>2 DEF VolcNets, Volcengine!AfterSend

LEMMA VolcSendFull ==
  ASSUME VolcInv, Volcengine!SendFull
  PROVE  VolcInv' /\ UNCHANGED <<app, finals>>
<1> DEFINE a == DrainToChunk(audio)
<1>0. net \in VolcNets /\ audio \in AudioStates /\ work \in WorkStates /\ Shared
  BY DEF VolcInv, Shared, SharedType
<1>1. a \in AudioStates /\ a.overflowed = audio.overflowed /\ a.chunk \in Pcm
  BY <1>0, DrainToChunkType DEF AudioStates, VolcInv
<1>2. /\ Keep(a, a.chunk) \in AudioStates
      /\ Keep(a, a.chunk).overflowed = audio.overflowed
  BY <1>1, KeepType
<1>3. audio' = [Keep(a, a.chunk) EXCEPT !.chunk = <<>>]
  BY <1>0, <1>1, VolcBase DEF Volcengine!SendFull
<1> HIDE DEF a
<1>4. /\ audio' \in AudioStates /\ audio'.overflowed = audio.overflowed
      /\ Len(audio'.chunk) <= ChunkUnits
  BY <1>2, <1>3, VolcTexts, EmptyFits DEF AudioStates
<1>5. PICK r \in Volcengine!Sent(net.main, a.chunk, FALSE) :
        /\ net' = Volcengine!AfterSend(r)
        /\ pc' = IF r.sess.ws /\ r.sess.connected THEN "send"
                 ELSE IF Volcengine!Streaming THEN "buffer" ELSE "tail"
  BY <1>0, VolcBase DEF Volcengine!SendFull, a
<1>6. net' \in VolcNets /\ net'.main.forceAbort = net.main.forceAbort
  BY <1>0, <1>1, <1>5, VolcAfterSend
<1>7. pc = "send" /\ UNCHANGED <<app, work, finals>>
  BY DEF Volcengine!SendFull
<1>8. pc' = "tail" => ListeningOver
  BY <1>0, <1>5, <1>7, NotStreaming DEF ListeningOver, Volcengine!Streaming, Streaming
<1> QED
  BY <1>0, <1>4, <1>5, <1>6, <1>7, <1>8, WorkerKeeps DEF VolcInv, OneFinal, ChunkFits,
     ListeningOver, VolcSteps, VolcLateSteps

LEMMA VolcGather ==
  ASSUME VolcInv, Volcengine!Gather
  PROVE  VolcInv' /\ UNCHANGED <<app, finals>>
<1>0. net \in VolcNets /\ audio \in AudioStates /\ work \in WorkStates /\ Shared
  BY DEF VolcInv, Shared, SharedType
<1>1. audio' = DrainToChunk(audio)
  BY <1>0, VolcBase DEF Volcengine!Gather
<1>2. /\ audio' \in AudioStates /\ audio'.overflowed = audio.overflowed
      /\ Len(audio'.chunk) <= ChunkUnits
  BY <1>0, <1>1, DrainToChunkType DEF VolcInv
<1>3. /\ pc = "send" /\ pc' = IF Volcengine!Streaming THEN "send" ELSE "tail"
      /\ UNCHANGED <<app, net, work, finals>>
  BY DEF Volcengine!Gather
<1>4. pc' = "tail" => ListeningOver
  BY <1>0, <1>3, NotStreaming DEF ListeningOver, Volcengine!Streaming, Streaming
<1> QED
  BY <1>0, <1>2, <1>3, <1>4, WorkerKeeps DEF VolcInv, OneFinal, ChunkFits, ListeningOver,
     VolcSteps, VolcLateSteps

LEMMA VolcKeepaliveLost ==
  ASSUME VolcInv, Volcengine!KeepaliveLost
  PROVE  VolcInv' /\ UNCHANGED <<app, finals>>
<1>0. net \in VolcNets /\ audio \in AudioStates /\ work \in WorkStates /\ Shared
  BY DEF VolcInv, Shared, SharedType
<1>1. PICK r \in Volcengine!Sent(net.main, <<>>, FALSE) :
        net' = [net EXCEPT !.main = r.sess]
  BY DEF Volcengine!KeepaliveLost
<1>2. /\ r.sess \in VolcSessions
      /\ r.sess.forceAbort = net.main.forceAbort
  BY <1>0, <1>1, VolcMain, VolcTexts, VolcSent
<1>3. net' \in VolcNets /\ net'.main.forceAbort = net.main.forceAbort
  BY <1>0, <1>1, <1>2 DEF VolcNets
<1>4. pc' = pc /\ UNCHANGED <<app, audio, work, finals>>
  BY DEF Volcengine!KeepaliveLost
<1> QED
  BY <1>0, <1>3, <1>4, WorkerKeeps DEF VolcInv, OneFinal, ChunkFits,
     ListeningOver, VolcSteps,
     VolcLateSteps

LEMMA VolcSendAborted ==
  ASSUME VolcInv, Volcengine!SendAborted
  PROVE  VolcInv' /\ UNCHANGED <<app, finals>>
<1>0. net \in VolcNets /\ audio \in AudioStates /\ work \in WorkStates /\ Shared
  BY DEF VolcInv, Shared, SharedType
<1>1. UNCHANGED net
  BY DEF Volcengine!SendAborted
<1>2. /\ pc = "send" /\ pc' = "tail" /\ net.main.forceAbort
      /\ UNCHANGED <<app, finals, audio, work>>
  BY DEF Volcengine!SendAborted, Volcengine!ForceAbort
<1> QED
  BY <1>0, <1>1, <1>2, WorkerKeeps DEF VolcInv, OneFinal, ChunkFits, ListeningOver,
     VolcSteps, VolcLateSteps

LEMMA VolcBuffer ==
  ASSUME VolcInv, Volcengine!Buffer
  PROVE  VolcInv' /\ UNCHANGED <<app, finals>>
<1>0. net \in VolcNets /\ audio \in AudioStates /\ work \in WorkStates /\ Shared
  BY DEF VolcInv, Shared, SharedType
<1>1. audio' \in {audio, KeepPending(audio)}
  BY <1>0, VolcBase DEF Volcengine!Buffer
<1>2. /\ audio' \in AudioStates /\ audio'.overflowed = audio.overflowed
      /\ audio'.chunk = audio.chunk
  BY <1>0, <1>1, KeepPendingType
<1>3. /\ pc = "buffer"
      /\ pc' = IF Volcengine!Streaming /\ ~net.main.forceAbort THEN pc ELSE "tail"
      /\ UNCHANGED <<app, net, work, finals>>
  BY DEF Volcengine!Buffer, Volcengine!ForceAbort
<1>4. pc' = "tail" => ListeningOver
  BY <1>0, <1>3, NotStreaming DEF VolcInv, ListeningOver, Volcengine!Streaming,
     Streaming
<1> QED
  BY <1>0, <1>2, <1>3, <1>4, WorkerKeeps DEF VolcInv, OneFinal, ChunkFits, ListeningOver,
     VolcSteps, VolcLateSteps

LEMMA VolcSendRest ==
  ASSUME VolcInv, NEW rest \in Pcm, NEW a \in AudioStates, NEW next,
         pc \in {"tail", "flush"}, next \in {"flush", "vad"},
         a.overflowed = audio.overflowed, a.chunk = audio.chunk,
         Volcengine!SendRest(rest, a, next)
  PROVE  VolcInv' /\ UNCHANGED <<app, finals>>
<1>0. net \in VolcNets /\ audio \in AudioStates /\ work \in WorkStates /\ Shared
  BY DEF VolcInv, Shared, SharedType
<1>1. pc' = next /\ UNCHANGED <<app, work, finals>>
  BY DEF Volcengine!SendRest
<1>2. /\ audio' = a \/ audio' = Keep(a, rest)
      /\ \/ net' = net
         \/ \E r \in Volcengine!Sent(net.main, rest, FALSE) :
              net' = Volcengine!AfterSend(r)
  BY <1>0, VolcBase DEF Volcengine!SendRest
<1>3. /\ audio' \in AudioStates /\ audio'.overflowed = audio.overflowed
      /\ audio'.chunk = audio.chunk
  BY <1>2, KeepType
<1>4. net' \in VolcNets /\ net'.main.forceAbort = net.main.forceAbort
  BY <1>0, <1>2, VolcAfterSend
<1> QED
  BY <1>0, <1>1, <1>3, <1>4, WorkerKeeps DEF VolcInv, OneFinal, ChunkFits, ListeningOver,
     VolcSteps, VolcLateSteps

LEMMA VolcSendChunkLeft ==
  ASSUME VolcInv, Volcengine!SendChunkLeft
  PROVE  VolcInv' /\ UNCHANGED <<app, finals>>
<1>1. audio \in AudioStates /\ audio.chunk \in Pcm
  BY DEF VolcInv, Shared, SharedType, AudioStates
<1> QED
  BY <1>1, VolcSendRest DEF Volcengine!SendChunkLeft

LEMMA VolcSendPendingLeft ==
  ASSUME VolcInv, Volcengine!SendPendingLeft
  PROVE  VolcInv' /\ UNCHANGED <<app, finals>>
<1> DEFINE a == IF Volcengine!ForceAbort THEN audio ELSE [audio EXCEPT !.pending = <<>>]
<1>1. audio \in AudioStates /\ audio.pending \in Pcm
  BY DEF VolcInv, Shared, SharedType, AudioStates
<1>2. a \in AudioStates /\ a.overflowed = audio.overflowed /\ a.chunk = audio.chunk
  BY <1>1, VolcTexts DEF AudioStates
<1>3. pc = "flush" /\ Volcengine!SendRest(audio.pending, a, "vad")
  BY DEF Volcengine!SendPendingLeft
<1> HIDE DEF a
<1> QED
  BY <1>1, <1>2, <1>3, VolcSendRest

LEMMA VolcLocalSilence ==
  ASSUME VolcInv, Volcengine!LocalSilence
  PROVE  VolcInv' /\ UNCHANGED <<app, finals>>
<1> DEFINE main == [net.main EXCEPT !.forceAbort = TRUE, !.ws = FALSE]
<1>0. net \in VolcNets /\ audio \in AudioStates /\ work \in WorkStates /\ Shared
  BY DEF VolcInv, Shared, SharedType
<1>1. net.main \in VolcSessions
  BY <1>0, VolcMain
<1>2. main \in VolcSessions
  BY <1>1 DEF VolcSessions
<1>3. net' = [net EXCEPT !.main = main, !.drainStop = TRUE]
  BY <1>0, <1>1 DEF Volcengine!LocalSilence, VolcNets, VolcSessions
<1> HIDE DEF main
<1>4. net' \in VolcNets
  BY <1>0, <1>2, <1>3 DEF VolcNets
<1>5. pc = "vad" /\ pc' = "silence" /\ UNCHANGED <<app, audio, work, finals>>
  BY DEF Volcengine!LocalSilence
<1> QED
  BY <1>0, <1>4, <1>5, WorkerKeeps DEF VolcInv, OneFinal, ChunkFits,
     ListeningOver, VolcSteps,
     VolcLateSteps

\* A conclusion: the verdict and its text, unless the session is aborted.
LEMMA VolcConclude ==
  ASSUME NEW w \in WorkStates, NEW kind \in Verdicts, NEW text \in Pcm,
         Volcengine!Conclude(w, kind, text)
  PROVE  /\ work' \in WorkStates /\ work'.verdict = kind
         /\ pc' = IF app.aborted THEN "stop" ELSE "dispatch"
  BY DEF Volcengine!Conclude, WorkStates

LEMMA VolcSilenceReported ==
  ASSUME VolcInv, Volcengine!SilenceReported
  PROVE  VolcInv' /\ UNCHANGED <<app, finals>>
<1>0. net \in VolcNets /\ audio \in AudioStates /\ work \in WorkStates /\ Shared
  BY DEF VolcInv, Shared, SharedType
<1>1. [net.main EXCEPT !.connected = FALSE] \in VolcSessions
  BY <1>0, VolcMain DEF VolcSessions
<1>2. net' = [net EXCEPT !.main = [net.main EXCEPT !.connected = FALSE]]
  BY <1>0 DEF Volcengine!SilenceReported, VolcNets
<1>3. net' \in VolcNets
  BY <1>0, <1>1, <1>2 DEF VolcNets
<1>4. /\ pc = "silence" /\ UNCHANGED <<app, audio, finals>>
      /\ Volcengine!Conclude(Volcengine!PrimaryUnlessAborted, "noSpeech",
                             Volcengine!NoText)
  BY DEF Volcengine!SilenceReported
<1>5. /\ work' \in WorkStates /\ work'.verdict = "noSpeech"
      /\ pc' = IF app.aborted THEN "stop" ELSE "dispatch"
  BY <1>0, <1>4, VolcPrimary, VolcTexts, VolcConclude DEF Verdicts, Kinds
<1> QED
  BY <1>0, <1>3, <1>4, <1>5, WorkerKeeps DEF VolcInv, OneFinal, ChunkFits, ListeningOver,
     VolcSteps, VolcLateSteps

LEMMA VolcSendLast ==
  ASSUME VolcInv, Volcengine!SendLast
  PROVE  VolcInv' /\ UNCHANGED <<app, finals>>
<1>0. net \in VolcNets /\ audio \in AudioStates /\ work \in WorkStates /\ Shared
  BY DEF VolcInv, Shared, SharedType
<1>1. PICK r \in Volcengine!Sent(net.main, <<>>, TRUE) :
        net' = [Volcengine!AfterSend(r) EXCEPT !.drainStop = (net.mode = "stream")]
  BY DEF Volcengine!SendLast
<1>2. Volcengine!AfterSend(r) \in VolcNets /\ (net.mode = "stream") \in BOOLEAN
  BY <1>0, <1>1, VolcTexts, VolcAfterSend
<1>3. net' \in VolcNets
  BY <1>1, <1>2 DEF VolcNets
<1>4. /\ pc = "vad" /\ pc' \in {"wait", "close"}
      /\ UNCHANGED <<app, audio, work, finals>>
  BY DEF Volcengine!SendLast
<1> QED
  BY <1>0, <1>3, <1>4, WorkerKeeps DEF VolcInv, OneFinal, ChunkFits,
     ListeningOver, VolcSteps,
     VolcLateSteps

LEMMA VolcDrainWaited ==
  ASSUME VolcInv, Volcengine!DrainWaited
  PROVE  VolcInv' /\ UNCHANGED <<app, finals>>
<1> DEFINE main == [net.main EXCEPT !.forceAbort = net.main.connected, !.ws = FALSE]
<1>0. net \in VolcNets /\ audio \in AudioStates /\ work \in WorkStates /\ Shared
  BY DEF VolcInv, Shared, SharedType
<1>1. net.main \in VolcSessions
  BY <1>0, VolcMain
<1>2. main \in VolcSessions /\ net.main.connected \in BOOLEAN
  BY <1>1 DEF VolcSessions
<1>3. net' = [net EXCEPT !.main = main, !.closedByPeer = ~net.main.connected]
  BY <1>0, <1>1 DEF Volcengine!DrainWaited, VolcNets, VolcSessions
<1> HIDE DEF main
<1>4. net' \in VolcNets
  BY <1>0, <1>2, <1>3 DEF VolcNets
<1>5. pc = "wait" /\ pc' = "join" /\ UNCHANGED <<app, audio, work, finals>>
  BY DEF Volcengine!DrainWaited
<1> QED
  BY <1>0, <1>4, <1>5, WorkerKeeps DEF VolcInv, OneFinal, ChunkFits,
     ListeningOver, VolcSteps,
     VolcLateSteps

LEMMA VolcDrainJoined ==
  ASSUME VolcInv, Volcengine!DrainJoined
  PROVE  VolcInv' /\ UNCHANGED <<app, finals>>
<1> DEFINE main == [net.main EXCEPT !.connected = FALSE]
<1>0. net \in VolcNets /\ audio \in AudioStates /\ work \in WorkStates /\ Shared
  BY DEF VolcInv, Shared, SharedType
<1>1. net.main \in VolcSessions
  BY <1>0, VolcMain
<1>2. main \in VolcSessions
  BY <1>1 DEF VolcSessions
<1>3. net' = [net EXCEPT !.main = main]
  BY <1>0, <1>1 DEF Volcengine!DrainJoined, VolcNets, VolcSessions
<1> HIDE DEF main
<1>4. net' \in VolcNets
  BY <1>0, <1>2, <1>3 DEF VolcNets
<1>5. pc = "join" /\ pc' = "decide" /\ UNCHANGED <<app, audio, work, finals>>
  BY DEF Volcengine!DrainJoined
<1> QED
  BY <1>0, <1>4, <1>5, WorkerKeeps DEF VolcInv, OneFinal, ChunkFits,
     ListeningOver, VolcSteps,
     VolcLateSteps

LEMMA VolcCloseSession ==
  ASSUME VolcInv, Volcengine!CloseSession
  PROVE  VolcInv' /\ UNCHANGED <<app, finals>>
<1>0. net \in VolcNets /\ audio \in AudioStates /\ work \in WorkStates /\ Shared
  BY DEF VolcInv, Shared, SharedType
<1>1. [net.main EXCEPT !.ws = FALSE, !.connected = FALSE] \in VolcSessions
  BY <1>0, VolcMain DEF VolcSessions
<1>2. PICK r \in Volcengine!Received(net.main) :
        net' = [net EXCEPT !.heard = IF net.main.ws THEN r.text ELSE Volcengine!NoText,
                           !.main = [@ EXCEPT !.ws = FALSE, !.connected = FALSE]]
  BY <1>0 DEF Volcengine!CloseSession, VolcNets, VolcSessions
<1>3. (IF net.main.ws THEN r.text ELSE Volcengine!NoText) \in Pcm
  BY <1>0, <1>2, VolcMain, VolcReceived, VolcTexts
<1>4. net' \in VolcNets
  BY <1>0, <1>1, <1>2, <1>3 DEF VolcNets
<1>5. pc = "close" /\ pc' = "decide" /\ UNCHANGED <<app, audio, work, finals>>
  BY DEF Volcengine!CloseSession
<1> QED
  BY <1>0, <1>4, <1>5, WorkerKeeps DEF VolcInv, OneFinal, ChunkFits,
     ListeningOver, VolcSteps,
     VolcLateSteps

LEMMA VolcSettle ==
  ASSUME net \in VolcNets, NEW w \in WorkStates, NEW text \in Pcm, NEW replayed,
         NEW closedEmpty, Volcengine!Settle(w, text, replayed, closedEmpty)
  PROVE  /\ work' \in WorkStates
         /\ pc' = IF app.aborted THEN "stop" ELSE "dispatch"
         /\ net' \in VolcNets
<1> DEFINE kind == IF text # Volcengine!NoText THEN "text"
                   ELSE IF closedEmpty \/ (~replayed /\ ~Volcengine!ForceAbort)
                   THEN "noSpeech" ELSE "error"
           remembered == text \notin {Volcengine!NoText, Volcengine!ErrorText}
<1>1. kind \in Verdicts /\ remembered \in BOOLEAN
  BY DEF Verdicts, Kinds
<1>2. Volcengine!Conclude(w, kind, text) /\ net' = [net EXCEPT !.remembered = remembered]
  BY DEF Volcengine!Settle
<1> HIDE DEF kind, remembered
<1>3. net' \in VolcNets
  BY <1>1, <1>2 DEF VolcNets
<1> QED
  BY <1>1, <1>2, <1>3, VolcConclude

\* The late steps conclude with anything: the user has stopped, or audio is lost.
LEMMA VolcLate ==
  ASSUME VolcInv, pc \in VolcLateSteps, net' \in VolcNets, work' \in WorkStates,
         UNCHANGED <<app, audio, finals>>,
         \/ pc' \in VolcLateSteps
         \/ pc' = IF app.aborted THEN "stop" ELSE "dispatch"
  PROVE  VolcInv' /\ UNCHANGED <<app, finals>>
<1>0. net \in VolcNets /\ audio \in AudioStates /\ work \in WorkStates /\ Shared
  BY DEF VolcInv, Shared, SharedType
<1>1. pc' \in VolcLateSteps \/ pc' = "stop" \/ pc' = "dispatch"
  OBVIOUS
<1>2. Shared' /\ Lost' = Lost
  BY <1>0, <1>1, WorkerKeeps DEF VolcLateSteps
<1>3. ListeningOver /\ ListeningOver' /\ (pc' = "dispatch" => ~app.aborted)
  BY <1>2 DEF VolcInv, ListeningOver, VolcLateSteps
<1>4. OneFinal'
  BY <1>3 DEF VolcInv, OneFinal, ChunkFits, ListeningOver, VolcLateSteps
<1>5. /\ pc' \in VolcSteps
      /\ pc' \notin {"idle", "opening", "reopen", "send", "buffer"}
  BY <1>1 DEF VolcSteps, VolcLateSteps
<1> QED
  BY <1>2, <1>3, <1>4, <1>5 DEF VolcInv, ChunkFits

LEMMA VolcDecide ==
  ASSUME VolcInv, Volcengine!Decide
  PROVE  VolcInv' /\ UNCHANGED <<app, finals>>
<1> DEFINE w == Volcengine!Primary(work)
<1>0. net \in VolcNets /\ audio \in AudioStates /\ work \in WorkStates /\ Shared
  BY DEF VolcInv, Shared, SharedType
<1>1. w \in WorkStates /\ w.retries + 1 \in Nat
  BY <1>0, VolcPrimary DEF WorkStates
<1>2. Volcengine!FinalText \in Pcm
  BY <1>0 DEF Volcengine!FinalText, VolcNets
<1>3. pc = "decide" /\ UNCHANGED <<app, audio, finals>>
  BY DEF Volcengine!Decide
<1> HIDE DEF w
<1>4. CASE /\ work' = [w EXCEPT !.retries = @ + 1]
           /\ net' = [net EXCEPT !.opens = 0]
           /\ pc' = "replayOpen"
  <2>1. work' \in WorkStates
    BY <1>1, <1>4 DEF WorkStates
  <2>2. net' \in VolcNets
    BY <1>0, <1>4 DEF VolcNets
  <2> QED
    BY <1>3, <1>4, <2>1, <2>2, VolcLate DEF VolcLateSteps
<1>5. CASE Volcengine!Settle(w, Volcengine!FinalText, FALSE, FALSE)
  <2>1. /\ work' \in WorkStates /\ net' \in VolcNets
        /\ pc' = IF app.aborted THEN "stop" ELSE "dispatch"
    BY <1>0, <1>1, <1>2, <1>5, VolcSettle
  <2> QED
    BY <1>3, <2>1, VolcLate DEF VolcLateSteps
<1> QED
  BY <1>4, <1>5 DEF Volcengine!Decide, w

LEMMA VolcReplayOpened ==
  ASSUME VolcInv, Volcengine!ReplayOpened
  PROVE  VolcInv' /\ UNCHANGED <<app, finals>>
<1>0. net \in VolcNets /\ audio \in AudioStates /\ work \in WorkStates /\ Shared
  BY DEF VolcInv, Shared, SharedType
<1>1. Volcengine!Opened(net.retry) \in VolcSessions
  BY <1>0, VolcMain, VolcOpened
<1>2. net' \in VolcNets
  BY <1>0, <1>1 DEF VolcNets, Volcengine!ReplayOpened
<1> QED
  BY <1>0, <1>2, VolcLate DEF Volcengine!ReplayOpened, VolcLateSteps

LEMMA VolcReplayOpenFailed ==
  ASSUME VolcInv, Volcengine!ReplayOpenFailed
  PROVE  VolcInv' /\ UNCHANGED <<app, finals>>
<1>0. net \in VolcNets /\ audio \in AudioStates /\ work \in WorkStates /\ Shared
  BY DEF VolcInv, Shared, SharedType
<1>1. pc = "replayOpen" /\ UNCHANGED <<app, audio, finals>>
  BY DEF Volcengine!ReplayOpenFailed
<1>2. CASE net' = [net EXCEPT !.opens = @ + 1] /\ pc' = pc /\ work' = work
  <2>1. net.opens + 1 \in Nat
    BY <1>0 DEF VolcNets
  <2>2. net' \in VolcNets
    BY <1>0, <1>2, <2>1 DEF VolcNets
  <2> QED
    BY <1>0, <1>1, <1>2, <2>2, VolcLate DEF VolcLateSteps
<1>3. CASE Volcengine!Settle(work, Volcengine!NoText, TRUE, FALSE)
  <2>1. /\ work' \in WorkStates /\ net' \in VolcNets
        /\ pc' = IF app.aborted THEN "stop" ELSE "dispatch"
    BY <1>0, <1>3, VolcTexts, VolcSettle
  <2> QED
    BY <1>1, <2>1, VolcLate DEF VolcLateSteps
<1> QED
  BY <1>2, <1>3 DEF Volcengine!ReplayOpenFailed

LEMMA VolcReplaySend ==
  ASSUME VolcInv, Volcengine!ReplaySend
  PROVE  VolcInv' /\ UNCHANGED <<app, finals>>
<1> DEFINE done == Len(net.retry.got)
           upTo == Smaller(done + ChunkUnits, Len(audio.replay))
           units == SubSeq(audio.replay, done + 1, upTo)
           last == done = Len(audio.replay)
<1>0. net \in VolcNets /\ audio \in AudioStates /\ work \in WorkStates /\ Shared
  BY DEF VolcInv, Shared, SharedType
<1>1. net.retry \in VolcSessions /\ units \in Pcm /\ last \in BOOLEAN
  <2>1. done \in Nat /\ Len(audio.replay) \in Nat /\ audio.replay \in Pcm
    BY <1>0, VolcMain, PcmTypes DEF VolcSessions, AudioStates
  <2> QED
    BY <1>0, <2>1, VolcMain, CutTypes, SessionAssumption DEF Smaller
<1>2. pc = "replaySend" /\ UNCHANGED <<app, audio, finals>>
  BY DEF Volcengine!ReplaySend
<1>3. PICK r \in Volcengine!Sent(net.retry, units, last) :
        IF Volcengine!Usable(r.sess)
        THEN /\ net' = [net EXCEPT !.retry = r.sess]
             /\ pc' = IF last THEN "replayWait" ELSE "replaySend"
             /\ work' = work
        ELSE Volcengine!Settle(work, Volcengine!NoText, TRUE, FALSE)
  BY DEF Volcengine!ReplaySend, Volcengine!Smaller, Smaller
<1> HIDE DEF units, last
<1>4. r.sess \in VolcSessions
  BY <1>1, <1>3, VolcSent
<1>5. CASE Volcengine!Usable(r.sess)
  <2>1. net' \in VolcNets
    BY <1>0, <1>3, <1>4, <1>5 DEF VolcNets
  <2> QED
    BY <1>0, <1>2, <1>3, <1>5, <2>1, VolcLate DEF VolcLateSteps
<1>6. CASE ~Volcengine!Usable(r.sess)
  <2>1. /\ work' \in WorkStates /\ net' \in VolcNets
        /\ pc' = IF app.aborted THEN "stop" ELSE "dispatch"
    BY <1>0, <1>3, <1>6, VolcTexts, VolcSettle
  <2> QED
    BY <1>2, <2>1, VolcLate DEF VolcLateSteps
<1> QED
  BY <1>5, <1>6

LEMMA VolcReplayAnswered ==
  ASSUME VolcInv, Volcengine!ReplayAnswered
  PROVE  VolcInv' /\ UNCHANGED <<app, finals>>
<1>0. net \in VolcNets /\ audio \in AudioStates /\ work \in WorkStates /\ Shared
  BY DEF VolcInv, Shared, SharedType
<1>1. PICK r \in Volcengine!Received(net.retry) :
        Volcengine!Settle(work, r.text, TRUE,
                          r.text = Volcengine!NoText /\ ~r.sess.connected)
  BY DEF Volcengine!ReplayAnswered
<1>2. r.text \in Pcm
  BY <1>0, <1>1, VolcMain, VolcReceived
<1>3. /\ work' \in WorkStates /\ net' \in VolcNets
      /\ pc' = IF app.aborted THEN "stop" ELSE "dispatch"
  BY <1>0, <1>1, <1>2, VolcSettle
<1>4. pc = "replayWait" /\ UNCHANGED <<app, audio, finals>>
  BY DEF Volcengine!ReplayAnswered
<1> QED
  BY <1>3, <1>4, VolcLate DEF VolcLateSteps

\* The receiver thread: it hears, and it never touches forceAbort.
LEMMA VolcDrainStep ==
  ASSUME VolcInv, UNCHANGED <<app, audio, pc, work, finals>>, net' \in VolcNets,
         net'.main.forceAbort = net.main.forceAbort
  PROVE  VolcInv' /\ UNCHANGED <<app, finals>>
<1>0. net \in VolcNets /\ audio \in AudioStates /\ work \in WorkStates /\ Shared
  BY DEF VolcInv, Shared, SharedType
<1> QED
  BY <1>0, WorkerKeeps DEF VolcInv, OneFinal, ChunkFits, ListeningOver

LEMMA VolcHeard ==
  ASSUME net \in VolcNets, NEW r \in Volcengine!Received(net.main),
         NEW drain \in {"off", "main", "final", "sweep", "done"},
         net' = [net EXCEPT !.main = r.sess, !.heard = Volcengine!Heard(r),
                            !.drain = drain]
  PROVE  net' \in VolcNets /\ net'.main.forceAbort = net.main.forceAbort
<1>1. /\ r.sess \in VolcSessions /\ r.text \in Pcm
      /\ r.sess.forceAbort = net.main.forceAbort
  BY VolcMain, VolcReceived
<1>2. Volcengine!Heard(r) \in Pcm
  BY <1>1 DEF Volcengine!Heard, VolcNets
<1> QED
  BY <1>1, <1>2 DEF VolcNets

LEMMA VolcDrainMain ==
  ASSUME VolcInv, Volcengine!DrainMain
  PROVE  VolcInv' /\ UNCHANGED <<app, finals>>
<1>0. net \in VolcNets
  BY DEF VolcInv
<1>1. \/ \E r \in Volcengine!Received(net.main) :
           net' = [net EXCEPT !.main = r.sess, !.heard = Volcengine!Heard(r)]
      \/ net' = [net EXCEPT !.drain = "final"]
  BY DEF Volcengine!DrainMain
<1>2. CASE \E r \in Volcengine!Received(net.main) :
             net' = [net EXCEPT !.main = r.sess, !.heard = Volcengine!Heard(r)]
  <2>1. PICK r \in Volcengine!Received(net.main) :
          net' = [net EXCEPT !.main = r.sess, !.heard = Volcengine!Heard(r)]
    BY <1>2
  <2>2. /\ r.sess \in VolcSessions /\ r.text \in Pcm
        /\ r.sess.forceAbort = net.main.forceAbort
    BY <1>0, VolcMain, VolcReceived
  <2>3. Volcengine!Heard(r) \in Pcm
    BY <1>0, <2>2 DEF Volcengine!Heard, VolcNets
  <2>4. net' \in VolcNets /\ net'.main.forceAbort = net.main.forceAbort
    BY <1>0, <2>1, <2>2, <2>3 DEF VolcNets
  <2> QED
    BY <2>4, VolcDrainStep DEF Volcengine!DrainMain
<1>3. CASE net' = [net EXCEPT !.drain = "final"]
  <2>1. net' \in VolcNets /\ net'.main.forceAbort = net.main.forceAbort
    BY <1>0, <1>3 DEF VolcNets
  <2> QED
    BY <2>1, VolcDrainStep DEF Volcengine!DrainMain
<1> QED
  BY <1>1, <1>2, <1>3

LEMMA VolcDrainFinal ==
  ASSUME VolcInv, Volcengine!DrainFinal
  PROVE  VolcInv' /\ UNCHANGED <<app, finals>>
<1>0. net \in VolcNets
  BY DEF VolcInv
<1>1. \/ \E r \in Volcengine!Received(net.main), drain \in {"final", "sweep"} :
           net' = [net EXCEPT !.main = r.sess, !.heard = Volcengine!Heard(r),
                              !.drain = drain]
      \/ net' = [net EXCEPT !.drain = "sweep"]
  BY DEF Volcengine!DrainFinal
<1>2. CASE \E r \in Volcengine!Received(net.main), drain \in {"final", "sweep"} :
             net' = [net EXCEPT !.main = r.sess, !.heard = Volcengine!Heard(r),
                                !.drain = drain]
  <2>1. net' \in VolcNets /\ net'.main.forceAbort = net.main.forceAbort
    BY <1>0, <1>2, VolcHeard
  <2> QED
    BY <2>1, VolcDrainStep DEF Volcengine!DrainFinal
<1>3. CASE net' = [net EXCEPT !.drain = "sweep"]
  <2>1. net' \in VolcNets /\ net'.main.forceAbort = net.main.forceAbort
    BY <1>0, <1>3 DEF VolcNets
  <2> QED
    BY <2>1, VolcDrainStep DEF Volcengine!DrainFinal
<1> QED
  BY <1>1, <1>2, <1>3

LEMMA VolcDrainSweep ==
  ASSUME VolcInv, Volcengine!DrainSweep
  PROVE  VolcInv' /\ UNCHANGED <<app, finals>>
<1>0. net \in VolcNets
  BY DEF VolcInv
<1>1. \/ \E r \in Volcengine!Received(net.main), drain \in {"done", "sweep"} :
           net' = [net EXCEPT !.main = r.sess, !.heard = Volcengine!Heard(r),
                              !.drain = drain]
      \/ net' = [net EXCEPT !.drain = "done"]
  BY DEF Volcengine!DrainSweep
<1>2. CASE \E r \in Volcengine!Received(net.main), drain \in {"done", "sweep"} :
             net' = [net EXCEPT !.main = r.sess, !.heard = Volcengine!Heard(r),
                                !.drain = drain]
  <2>1. net' \in VolcNets /\ net'.main.forceAbort = net.main.forceAbort
    BY <1>0, <1>2, VolcHeard
  <2> QED
    BY <2>1, VolcDrainStep DEF Volcengine!DrainSweep
<1>3. CASE net' = [net EXCEPT !.drain = "done"]
  <2>1. net' \in VolcNets /\ net'.main.forceAbort = net.main.forceAbort
    BY <1>0, <1>3 DEF VolcNets
  <2> QED
    BY <2>1, VolcDrainStep DEF Volcengine!DrainSweep
<1> QED
  BY <1>1, <1>2, <1>3

\* What a step may leave in the place of the connection.
LEMMA QwenFreeLinks ==
  ASSUME net \in QwenFreeNets
  PROVE  /\ net.link \in Links
         /\ QwenFree!NoLink \in Links /\ QwenFree!FreshLink \in Links
         /\ QwenFree!Connecting(net.link) \in Links
         /\ QwenFree!Connected(net.link) \in Links
         /\ QwenFree!Aborted(net.link) \in Links /\ QwenFree!Shut(net.link) \in Links
<1>1. net.link \in Links
  BY DEF QwenFreeNets
<1>2. QwenFree!NoLink \in Links
  BY DEF QwenFree!NoLink, Links, Pcm
<1>3. QwenFree!FreshLink \in Links
  BY <1>2 DEF QwenFree!FreshLink, Links
<1> QED
  BY <1>1, <1>2, <1>3
     DEF QwenFree!Shut, QwenFree!Aborted, QwenFree!Connecting, QwenFree!Connected, Links

LEMMA QwenFreeSends ==
  ASSUME net \in QwenFreeNets, NEW units \in Pcm, NEW last \in BOOLEAN,
         NEW s \in QwenFree!Sends(net.link, units, last)
  PROVE  s.link \in Links /\ s.ok \in BOOLEAN
<1> DEFINE sent == [net.link EXCEPT !.got = @ \o units, !.ended = last]
<1>1. net.link \in Links /\ QwenFree!Shut(net.link) \in Links
  BY QwenFreeLinks
<1>2. net.link.got \o units \in Pcm
  BY <1>1, PcmTypes DEF Links
<1>3. sent \in Links
  BY <1>1, <1>2 DEF Links
<1>4. CASE s = [link |-> sent, ok |-> TRUE]
  BY <1>3, <1>4
<1>5. CASE s = [link |-> net.link, ok |-> FALSE]
  BY <1>1, <1>5
<1>6. CASE s = [link |-> QwenFree!Shut(net.link), ok |-> FALSE]
  BY <1>1, <1>6
<1> QED
  BY <1>4, <1>5, <1>6 DEF QwenFree!Sends

LEMMA QwenFreeTexts ==
  QwenFree!NoText \in Pcm /\ <<>> \in Pcm /\ QwenFree!MaxTries \in Nat
  BY DEF QwenFree!NoText, QwenFree!MaxTries, Pcm

\* The operators of SessionBase, as the instance has them.
LEMMA QwenFreeBase ==
  ASSUME audio \in AudioStates
  PROVE  /\ QwenFree!KeepPending(audio) = KeepPending(audio)
         /\ QwenFree!DrainToChunk(audio) = DrainToChunk(audio)
         /\ \A units \in Pcm : QwenFree!Keep(audio, units) = Keep(audio, units)
  BY DEF QwenFree!KeepPending, KeepPending, QwenFree!Keep, Keep,
     QwenFree!DrainToChunk, DrainToChunk, QwenFree!Smaller, Smaller

LEMMA QwenFreePrimary ==
  ASSUME work \in WorkStates
  PROVE  /\ QwenFree!Primary(work) \in WorkStates
         /\ QwenFree!Primary(work).retries = work.retries
  BY DEF WorkStates, QwenFree!Primary

\* The places ProcessReceivedFrames is called from, and where they lead.
LEMMA QwenFreePlaces ==
  ASSUME NEW p \in QwenFree!FramePcs
  PROVE  /\ p \in {"frames", "chunkFrames", "drainedFrames", "tailFrames",
                   "finalFrames", "replayFrames", "replayFinalFrames"}
         /\ QwenFree!TerminalPc[p] \in {"terminal", "drained", "replayOver"}
         /\ QwenFree!TerminalPc[p] = "replayOver" => p \in QwenFreeLateSteps
         /\ QwenFree!NextPc[p] \in {"drain", "sendChunk", "loop", "sendStop",
                                    "finalFrames", "replaySend", "replayFinalFrames"}
         /\ QwenFree!NextPc[p] \in QwenFreeLateSteps => p \in QwenFreeLateSteps
<1>1. p \in {"frames", "chunkFrames", "drainedFrames", "tailFrames",
             "finalFrames", "replayFrames", "replayFinalFrames"}
  BY DEF QwenFree!FramePcs, QwenFree!NextPc
<1>2. /\ QwenFree!TerminalPc[p] \in {"terminal", "drained", "replayOver"}
      /\ QwenFree!TerminalPc[p] = "replayOver" => p \in QwenFreeLateSteps
  BY <1>1 DEF QwenFree!TerminalPc, QwenFreeLateSteps
<1>3. /\ QwenFree!NextPc[p] \in {"drain", "sendChunk", "loop", "sendStop",
                                 "finalFrames", "replaySend", "replayFinalFrames"}
      /\ QwenFree!NextPc[p] \in QwenFreeLateSteps => p \in QwenFreeLateSteps
  BY <1>1 DEF QwenFree!NextPc, QwenFreeLateSteps
<1> QED
  BY <1>1, <1>2, <1>3

LEMMA QwenFreePrepare ==
  ASSUME QwenFreeInv, QwenFree!Prepare
  PROVE  QwenFreeInv' /\ UNCHANGED <<app, finals>>
<1>0. net \in QwenFreeNets /\ audio \in AudioStates /\ work \in WorkStates /\ Shared
  BY DEF QwenFreeInv, Shared, SharedType
<1>1. /\ pc = "prepare" /\ UNCHANGED <<app, audio, net, work, finals>>
      /\ (app.aborted /\ pc' = "quit") \/ pc' \in {"try", "waitStop"}
  BY DEF QwenFree!Prepare
<1> QED
  BY <1>0, <1>1, WorkerKeeps
     DEF QwenFreeInv, QwenFreeOneFinal, ChunkFits,
     AbortSeen, QwenFreeSteps, QwenFreeLateSteps

LEMMA QwenFreeTry ==
  ASSUME QwenFreeInv, QwenFree!Try
  PROVE  QwenFreeInv' /\ UNCHANGED <<app, finals>>
<1>0. net \in QwenFreeNets /\ audio \in AudioStates /\ work \in WorkStates /\ Shared
  BY DEF QwenFreeInv, Shared, SharedType
<1>1. net.tries + 1 \in Nat
  BY <1>0 DEF QwenFreeNets
<1>2. net' \in QwenFreeNets
  BY <1>0, <1>1, QwenFreeLinks, QwenFreeTexts DEF QwenFreeNets, QwenFree!Try
<1>3. /\ net'.replaying = net.replaying /\ net'.late = net.late
      /\ net'.emitted = net.emitted /\ net'.back = net.back
  BY <1>0, <1>1, QwenFreeLinks, QwenFreeTexts DEF QwenFreeNets, QwenFree!Try
<1>4. /\ pc = "try" /\ ~app.aborted /\ pc' = "link"
      /\ UNCHANGED <<app, finals, audio, work>>
  BY DEF QwenFree!Try
<1> QED
  BY <1>0, <1>1, <1>2, <1>3, <1>4, WorkerKeeps DEF QwenFreeInv, QwenFreeOneFinal,
     ChunkFits, AbortSeen, QwenFreeSteps, QwenFreeLateSteps

LEMMA QwenFreeResetCancellation ==
  ASSUME QwenFreeInv, QwenFree!ResetCancellation
  PROVE  QwenFreeInv' /\ UNCHANGED <<app, finals>>
<1>0. net \in QwenFreeNets /\ audio \in AudioStates /\ work \in WorkStates /\ Shared
  BY DEF QwenFreeInv, Shared, SharedType
<1>1. UNCHANGED net
  BY DEF QwenFree!ResetCancellation
<1>2. /\ pc = "link" /\ pc' = IF app.aborted THEN "try" ELSE "open"
      /\ UNCHANGED <<app, finals, audio, work>>
  BY DEF QwenFree!ResetCancellation
<1> QED
  BY <1>0, <1>1, <1>2, WorkerKeeps DEF QwenFreeInv, QwenFreeOneFinal, ChunkFits,
     AbortSeen, QwenFreeSteps, QwenFreeLateSteps

LEMMA QwenFreeOpen ==
  ASSUME QwenFreeInv, QwenFree!Open
  PROVE  QwenFreeInv' /\ UNCHANGED <<app, finals>>
<1>0. net \in QwenFreeNets /\ audio \in AudioStates /\ work \in WorkStates /\ Shared
  BY DEF QwenFreeInv, Shared, SharedType
<1>1. net.late \in Nat /\ net.late + 1 \in Nat
  BY <1>0 DEF QwenFreeNets
<1>2. net' \in QwenFreeNets
  BY <1>0, <1>1, QwenFreeLinks, QwenFreeTexts DEF QwenFreeNets, QwenFree!Open
<1>3. /\ net'.replaying = net.replaying /\ net'.emitted = net.emitted
      /\ net'.back = net.back
      /\ net'.late = IF app.aborted THEN net.late + 1 ELSE net.late
  BY <1>0, <1>1, QwenFreeLinks, QwenFreeTexts DEF QwenFreeNets, QwenFree!Open
<1>4. /\ pc = "open" /\ pc' = "connecting"
      /\ UNCHANGED <<app, finals, audio, work>>
  BY DEF QwenFree!Open
<1> QED
  BY <1>0, <1>1, <1>2, <1>3, <1>4, WorkerKeeps DEF QwenFreeInv, QwenFreeOneFinal,
     ChunkFits, AbortSeen, QwenFreeSteps, QwenFreeLateSteps

LEMMA QwenFreeConnectOk ==
  ASSUME QwenFreeInv, QwenFree!ConnectOk
  PROVE  QwenFreeInv' /\ UNCHANGED <<app, finals>>
<1>0. net \in QwenFreeNets /\ audio \in AudioStates /\ work \in WorkStates /\ Shared
  BY DEF QwenFreeInv, Shared, SharedType
<1>1. net' \in QwenFreeNets
  BY <1>0, QwenFreeLinks, QwenFreeTexts DEF QwenFreeNets, QwenFree!ConnectOk
<1>2. /\ net'.replaying = net.replaying /\ net'.late = net.late
      /\ net'.emitted = net.emitted /\ net'.back = net.back
  BY <1>0, QwenFreeLinks, QwenFreeTexts DEF QwenFreeNets, QwenFree!ConnectOk
<1>3. /\ pc = "connecting" /\ pc' = IF net.replaying THEN "replaySend" ELSE "loop"
      /\ UNCHANGED <<app, finals, audio, work>>
  BY DEF QwenFree!ConnectOk
<1> QED
  BY <1>0, <1>1, <1>2, <1>3, WorkerKeeps DEF QwenFreeInv, QwenFreeOneFinal, ChunkFits,
     AbortSeen, QwenFreeSteps, QwenFreeLateSteps

LEMMA QwenFreeConnectFailed ==
  ASSUME QwenFreeInv, QwenFree!ConnectFailed
  PROVE  QwenFreeInv' /\ UNCHANGED <<app, finals>>
<1>0. net \in QwenFreeNets /\ audio \in AudioStates /\ work \in WorkStates /\ Shared
  BY DEF QwenFreeInv, Shared, SharedType
<1>1. PICK t \in {net.tries, QwenFree!MaxTries} :
        net' = [net EXCEPT !.link = QwenFree!NoLink, !.tries = t]
  BY <1>0 DEF QwenFreeNets, QwenFree!ConnectFailed
<1>2. net' \in QwenFreeNets
  BY <1>0, <1>1, QwenFreeLinks, QwenFreeTexts DEF QwenFreeNets
<1>3. /\ net'.replaying = net.replaying /\ net'.late = net.late
      /\ net'.emitted = net.emitted /\ net'.back = net.back
  BY <1>0, <1>1, QwenFreeLinks, QwenFreeTexts DEF QwenFreeNets
<1>4. /\ pc = "connecting" /\ pc' = "try"
      /\ UNCHANGED <<app, finals, audio, work>>
  BY DEF QwenFree!ConnectFailed
<1> QED
  BY <1>0, <1>1, <1>2, <1>3, <1>4, WorkerKeeps DEF QwenFreeInv, QwenFreeOneFinal,
     ChunkFits, AbortSeen, QwenFreeSteps, QwenFreeLateSteps

LEMMA QwenFreeNotConnected ==
  ASSUME QwenFreeInv, QwenFree!NotConnected
  PROVE  QwenFreeInv' /\ UNCHANGED <<app, finals>>
<1>0. net \in QwenFreeNets /\ audio \in AudioStates /\ work \in WorkStates /\ Shared
  BY DEF QwenFreeInv, Shared, SharedType
<1>1. UNCHANGED net
  BY DEF QwenFree!NotConnected
<1>2. /\ pc = "try" /\ ~net.replaying /\ pc' = "waitStop"
      /\ UNCHANGED <<app, finals, audio, work>>
  BY DEF QwenFree!NotConnected, QwenFree!NoMoreTries
<1> QED
  BY <1>0, <1>1, <1>2, WorkerKeeps DEF QwenFreeInv, QwenFreeOneFinal, ChunkFits,
     AbortSeen, QwenFreeSteps, QwenFreeLateSteps

\* A verdict goes to EmitFinal.
LEMMA QwenFreeClaim ==
  ASSUME NEW w \in WorkStates, NEW kind \in Verdicts, NEW text \in Pcm,
         QwenFree!Claim(w, kind, text)
  PROVE  /\ work' \in WorkStates /\ work'.verdict = kind
         /\ pc' = "claim"
  BY DEF QwenFree!Claim, WorkStates

LEMMA QwenFreeWaitForRecordingStop ==
  ASSUME QwenFreeInv, QwenFree!WaitForRecordingStop
  PROVE  QwenFreeInv' /\ UNCHANGED <<app, finals>>
<1>0. net \in QwenFreeNets /\ audio \in AudioStates /\ work \in WorkStates /\ Shared
  BY DEF QwenFreeInv, Shared, SharedType
<1>1. pc = "waitStop" /\ UNCHANGED <<app, audio, net, finals>>
  BY DEF QwenFree!WaitForRecordingStop
<1>2. CASE app.aborted /\ pc' = "quit" /\ work' = work
  BY <1>0, <1>1, <1>2, WorkerKeeps
     DEF QwenFreeInv, QwenFreeOneFinal, ChunkFits,
     AbortSeen, QwenFreeSteps, QwenFreeLateSteps
<1>3. CASE QwenFree!Claim(QwenFree!Primary(work), "error", QwenFree!NoText)
  <2>1. work' \in WorkStates /\ work'.verdict = "error" /\ pc' = "claim"
    BY <1>0, <1>3, QwenFreePrimary, QwenFreeTexts, QwenFreeClaim DEF Verdicts, Kinds
  <2> QED
    BY <1>0, <1>1, <2>1, WorkerKeeps
       DEF QwenFreeInv, QwenFreeOneFinal, ChunkFits,
     AbortSeen, QwenFreeSteps, QwenFreeLateSteps
<1> QED
  BY <1>2, <1>3 DEF QwenFree!WaitForRecordingStop

\* The common part of the steps that only move on: no verdict, no final.
LEMMA QwenFreeMove ==
  ASSUME QwenFreeInv, UNCHANGED <<app, finals>>, work' \in WorkStates,
         net' \in QwenFreeNets,
         net'.replaying = net.replaying, net'.late = net.late,
         net'.emitted = net.emitted, net'.back = net.back,
         audio' \in AudioStates, audio'.overflowed = audio.overflowed,
         Len(audio'.chunk) <= ChunkUnits,
         pc \notin {"idle", "ended", "claim", "emit", "post"},
         pc' \in QwenFreeSteps \ {"idle", "ended", "claim", "emit", "post", "link", "open"},
         pc' \in {"quit", "join", "stop"} => app.aborted \/ finals # <<>>,
         pc' \in QwenFreeLateSteps => pc \in QwenFreeLateSteps \/ app.mic = "stopped"
  PROVE  QwenFreeInv' /\ UNCHANGED <<app, finals>>
<1>1. Shared' /\ Lost' = Lost
  BY WorkerKeeps DEF QwenFreeInv
<1>2. app' = app /\ finals' = finals
  OBVIOUS
<1>3. QwenFreeOneFinal'
  BY <1>2 DEF QwenFreeInv, QwenFreeOneFinal
<1>4. AbortSeen'
  BY <1>2 DEF QwenFreeInv, AbortSeen
<1>5. /\ net'.replaying \/ pc' \in QwenFreeLateSteps => app'.mic = "stopped"
      /\ net'.back = "replayOver" => app'.mic = "stopped"
  BY <1>2 DEF QwenFreeInv
<1> QED
  BY <1>1, <1>2, <1>3, <1>4, <1>5 DEF QwenFreeInv, ChunkFits

\* The common part of the steps that come to a verdict.
LEMMA QwenFreeVerdict ==
  ASSUME QwenFreeInv, UNCHANGED <<app, finals>>, work' \in WorkStates,
         net' \in QwenFreeNets,
         net'.replaying = net.replaying, net'.late = net.late,
         net'.emitted = net.emitted,
         net'.back = "replayOver" => app.mic = "stopped",
         audio' \in AudioStates, audio'.overflowed = audio.overflowed,
         Len(audio'.chunk) <= ChunkUnits,
         pc \notin {"idle", "ended", "claim", "emit", "post"}, pc' = "claim",
         work'.verdict = "text" => app.mic = "stopped"
  PROVE  QwenFreeInv' /\ UNCHANGED <<app, finals>>
<1>1. Shared' /\ Lost' = Lost
  BY WorkerKeeps DEF QwenFreeInv
<1>2. app' = app /\ finals' = finals
  OBVIOUS
<1>3. QwenFreeOneFinal'
  BY <1>2 DEF QwenFreeInv, QwenFreeOneFinal
<1>4. AbortSeen'
  BY <1>2 DEF QwenFreeInv, AbortSeen
<1>5. /\ net'.replaying \/ pc' \in QwenFreeLateSteps => app'.mic = "stopped"
      /\ net'.back = "replayOver" => app'.mic = "stopped"
  BY <1>2 DEF QwenFreeInv, QwenFreeLateSteps
<1> QED
  BY <1>1, <1>2, <1>3, <1>4, <1>5 DEF QwenFreeInv, ChunkFits, QwenFreeSteps

\* The frame in hand, and what is left of the queue.
LEMMA QwenFreeFrame ==
  ASSUME net \in QwenFreeNets, QwenFree!HasFrame
  PROVE  /\ pc \in QwenFree!FramePcs /\ ~app.aborted
         /\ QwenFree!FrameText \in Pcm
         /\ Tail(net.frames) \in Seq(Frames)
<1>1. net.frames \in Seq(Frames) /\ net.frames # <<>> /\ net.partial \in Pcm
  BY DEF QwenFree!HasFrame, QwenFreeNets
<1>2. Head(net.frames) \in Frames /\ Tail(net.frames) \in Seq(Frames)
  BY <1>1
<1>3. Head(net.frames).text \in Pcm
  BY <1>2 DEF Frames
<1> QED
  BY <1>1, <1>2, <1>3 DEF QwenFree!HasFrame, QwenFree!FrameText, QwenFree!Frame

LEMMA QwenFreeTakePartial ==
  ASSUME QwenFreeInv, QwenFree!TakePartial
  PROVE  QwenFreeInv' /\ UNCHANGED <<app, finals>>
<1>0. net \in QwenFreeNets /\ audio \in AudioStates /\ work \in WorkStates /\ Shared
  BY DEF QwenFreeInv, Shared, SharedType
<1>1. /\ QwenFree!FrameText \in Pcm /\ Tail(net.frames) \in Seq(Frames)
  BY <1>0, QwenFreeFrame DEF QwenFree!TakePartial
<1>2. net' = [net EXCEPT !.frames = Tail(net.frames), !.partial = QwenFree!FrameText]
  BY <1>0 DEF QwenFree!TakePartial, QwenFree!FrameTaken, QwenFreeNets
<1>3. /\ net' \in QwenFreeNets
      /\ net'.replaying = net.replaying /\ net'.late = net.late
      /\ net'.emitted = net.emitted /\ net'.back = net.back
  BY <1>0, <1>1, <1>2 DEF QwenFreeNets
<1>4. pc' = pc /\ UNCHANGED <<app, audio, work, finals>>
  BY DEF QwenFree!TakePartial
<1> QED
  BY <1>0, <1>3, <1>4, WorkerKeeps
     DEF QwenFreeInv, QwenFreeOneFinal, ChunkFits,
     AbortSeen, QwenFreeSteps, QwenFreeLateSteps

LEMMA QwenFreeDropChunk ==
  ASSUME audio \in AudioStates, ChunkFits
  PROVE  LET a == [audio EXCEPT !.chunk = <<>>]
         IN  a \in AudioStates /\ a.overflowed = audio.overflowed
             /\ Len(a.chunk) <= ChunkUnits
  BY QwenFreeTexts, EmptyFits DEF AudioStates

\* Back from the frames: on, or to what a terminal frame leads to.
LEMMA QwenFreeReturn ==
  ASSUME QwenFreeInv, NEW terminal \in BOOLEAN, pc \in QwenFree!FramePcs,
         QwenFree!ReturnFromFrames(pc, terminal), UNCHANGED <<app, finals>>,
         work' \in WorkStates, net' \in QwenFreeNets,
         net'.replaying = net.replaying, net'.late = net.late,
         net'.emitted = net.emitted, net'.back = net.back
  PROVE  QwenFreeInv'
<1>0. audio \in AudioStates
  BY DEF QwenFreeInv, Shared, SharedType
<1>1. /\ pc' \in {QwenFree!TerminalPc[pc], QwenFree!NextPc[pc]}
      /\ audio' \in {audio, [audio EXCEPT !.chunk = <<>>]}
  BY DEF QwenFree!ReturnFromFrames
<1>2. /\ audio' \in AudioStates /\ audio'.overflowed = audio.overflowed
      /\ Len(audio'.chunk) <= ChunkUnits
  BY <1>0, <1>1, QwenFreeDropChunk DEF QwenFreeInv, ChunkFits
<1>3. /\ pc' \in {"terminal", "drained", "replayOver", "drain", "sendChunk", "loop",
                  "sendStop", "finalFrames", "replaySend", "replayFinalFrames"}
      /\ pc' \in QwenFreeLateSteps => pc \in QwenFreeLateSteps
      /\ pc \in {"frames", "chunkFrames", "drainedFrames", "tailFrames",
                 "finalFrames", "replayFrames", "replayFinalFrames"}
  <2>1. CASE pc' = QwenFree!TerminalPc[pc]
    BY <2>1, QwenFreePlaces DEF QwenFreeLateSteps
  <2>2. CASE pc' = QwenFree!NextPc[pc]
    BY <2>2, QwenFreePlaces DEF QwenFreeLateSteps
  <2> QED
    BY <1>1, <2>1, <2>2
<1> QED
  BY <1>2, <1>3, QwenFreeMove DEF QwenFreeSteps, QwenFreeLateSteps

LEMMA QwenFreeTakeFinal ==
  ASSUME QwenFreeInv, QwenFree!TakeFinal
  PROVE  QwenFreeInv' /\ UNCHANGED <<app, finals>>
<1> DEFINE dispatched == ~net.replaying /\ QwenFree!FrameText # QwenFree!NoText
           terminal == IF QwenFree!Frame.text = QwenFree!NoText THEN "empty" ELSE "text"
<1>0. net \in QwenFreeNets /\ audio \in AudioStates /\ work \in WorkStates /\ Shared
  BY DEF QwenFreeInv, Shared, SharedType
<1>1. /\ pc \in QwenFree!FramePcs /\ ~app.aborted /\ app.mic = "stopped"
      /\ QwenFree!FrameText \in Pcm /\ Tail(net.frames) \in Seq(Frames)
      /\ UNCHANGED <<app, finals>>
  BY <1>0, QwenFreeFrame DEF QwenFree!TakeFinal, QwenFree!FinalCounts
<1>2. QwenFree!Primary(work) \in WorkStates
  BY <1>0, QwenFreePrimary
<1>3. CASE dispatched
  <2>1. net' = [net EXCEPT !.frames = Tail(net.frames), !.partial = QwenFree!FrameText,
                           !.terminal = terminal, !.back = QwenFree!TerminalPc[pc]]
    BY <1>0, <1>3 DEF QwenFree!TakeFinal, QwenFree!FrameTaken, QwenFreeNets
  <2>2. QwenFree!TerminalPc[pc] \in {"terminal", "drained", "replayOver"}
    BY <1>1, QwenFreePlaces
  <2>3. terminal \in {"empty", "text"}
    OBVIOUS
  <2> HIDE DEF terminal
  <2>4. /\ net' \in QwenFreeNets
        /\ net'.replaying = net.replaying /\ net'.late = net.late
        /\ net'.emitted = net.emitted
    BY <1>0, <1>1, <2>1, <2>2, <2>3 DEF QwenFreeNets
  <2>5. /\ QwenFree!Claim(QwenFree!Primary(work), "text", QwenFree!FrameText)
        /\ audio' = [audio EXCEPT !.chunk = <<>>]
    BY <1>3 DEF QwenFree!TakeFinal
  <2>6. work' \in WorkStates /\ pc' = "claim"
    BY <1>1, <1>2, <2>5, QwenFreeClaim DEF Verdicts, Kinds
  <2>7. /\ audio' \in AudioStates /\ audio'.overflowed = audio.overflowed
        /\ Len(audio'.chunk) <= ChunkUnits
    BY <1>0, <2>5, QwenFreeDropChunk DEF QwenFreeInv
  <2>8. pc \in {"frames", "chunkFrames", "drainedFrames", "tailFrames",
                "finalFrames", "replayFrames", "replayFinalFrames"}
    BY <1>1, QwenFreePlaces
  <2> QED
    BY <1>0, <1>1, <2>4, <2>6, <2>7, <2>8, WorkerKeeps
       DEF QwenFreeInv, QwenFreeOneFinal, ChunkFits,
     AbortSeen, QwenFreeSteps, QwenFreeLateSteps
<1>4. CASE ~dispatched
  <2>1. net' = [net EXCEPT !.frames = Tail(net.frames), !.partial = QwenFree!FrameText,
                           !.terminal = terminal]
    BY <1>0, <1>4 DEF QwenFree!TakeFinal, QwenFree!FrameTaken, QwenFreeNets
  <2>2. terminal \in {"empty", "text"}
    OBVIOUS
  <2> HIDE DEF terminal
  <2>3. /\ net' \in QwenFreeNets
        /\ net'.replaying = net.replaying /\ net'.late = net.late
        /\ net'.emitted = net.emitted /\ net'.back = net.back
    BY <1>0, <1>1, <2>1, <2>2 DEF QwenFreeNets
  <2>4. work' = QwenFree!Primary(work) /\ QwenFree!ReturnFromFrames(pc, TRUE)
    BY <1>4 DEF QwenFree!TakeFinal
  <2> QED
    BY <1>1, <1>2, <2>3, <2>4, QwenFreeReturn
<1> QED
  BY <1>3, <1>4

LEMMA QwenFreeTakeFailure ==
  ASSUME QwenFreeInv, QwenFree!TakeFailure
  PROVE  QwenFreeInv' /\ UNCHANGED <<app, finals>>
<1> DEFINE retryable == QwenFree!Frame.kind = "failed"
<1>0. net \in QwenFreeNets /\ audio \in AudioStates /\ work \in WorkStates /\ Shared
  BY DEF QwenFreeInv, Shared, SharedType
<1>1. /\ pc \in QwenFree!FramePcs /\ Tail(net.frames) \in Seq(Frames)
  BY <1>0, QwenFreeFrame DEF QwenFree!TakeFailure
<1>2. net' = [net EXCEPT !.frames = Tail(net.frames), !.terminal = "failed",
                         !.retryable = retryable]
  BY <1>0 DEF QwenFree!TakeFailure, QwenFree!FrameTaken, QwenFreeNets
<1>3. retryable \in BOOLEAN
  OBVIOUS
<1> HIDE DEF retryable
<1>4. /\ net' \in QwenFreeNets
      /\ net'.replaying = net.replaying /\ net'.late = net.late
      /\ net'.emitted = net.emitted /\ net'.back = net.back
  BY <1>0, <1>1, <1>2, <1>3 DEF QwenFreeNets
<1>5. /\ work' = QwenFree!Primary(work) /\ QwenFree!ReturnFromFrames(pc, TRUE)
      /\ UNCHANGED <<app, finals>>
  BY DEF QwenFree!TakeFailure
<1> QED
  BY <1>0, <1>1, <1>4, <1>5, QwenFreePrimary, QwenFreeReturn

LEMMA QwenFreeNoMoreFrames ==
  ASSUME QwenFreeInv, QwenFree!NoMoreFrames
  PROVE  QwenFreeInv' /\ UNCHANGED <<app, finals>>
<1> DEFINE tail == \/ net.tail
                   \/ pc = "drainedFrames" /\ app.mic = "stopped" /\ net.terminal = "none"
<1>0. net \in QwenFreeNets /\ audio \in AudioStates /\ work \in WorkStates /\ Shared
  BY DEF QwenFreeInv, Shared, SharedType
<1>1. net' = [net EXCEPT !.tail = tail]
  BY <1>0 DEF QwenFree!NoMoreFrames, QwenFreeNets
<1>2. tail \in BOOLEAN
  BY <1>0 DEF QwenFreeNets
<1> HIDE DEF tail
<1>3. /\ net' \in QwenFreeNets
      /\ net'.replaying = net.replaying /\ net'.late = net.late
      /\ net'.emitted = net.emitted /\ net'.back = net.back
  BY <1>0, <1>1, <1>2 DEF QwenFreeNets
<1>4. /\ pc \in QwenFree!FramePcs /\ UNCHANGED <<app, work, finals>>
      /\ QwenFree!ReturnFromFrames(pc, net.terminal # "none")
  BY DEF QwenFree!NoMoreFrames
<1> QED
  BY <1>0, <1>3, <1>4, QwenFreeReturn

LEMMA QwenFreePump ==
  ASSUME net \in QwenFreeNets, NEW place, NEW allow \in BOOLEAN, NEW link \in Links,
         QwenFree!PumpAt(place, allow, link)
  PROVE  /\ pc' = place /\ net' \in QwenFreeNets
         /\ net'.replaying = net.replaying /\ net'.late = net.late
         /\ net'.emitted = net.emitted /\ net'.back = net.back
  BY DEF QwenFree!PumpAt, QwenFreeNets

LEMMA QwenFreeFrames ==
  ASSUME net \in QwenFreeNets, NEW place, NEW allow \in BOOLEAN,
         QwenFree!FramesAt(place, allow)
  PROVE  /\ pc' = place /\ net' \in QwenFreeNets
         /\ net'.replaying = net.replaying /\ net'.late = net.late
         /\ net'.emitted = net.emitted /\ net'.back = net.back
  BY QwenFreeLinks, QwenFreePump DEF QwenFree!FramesAt

LEMMA QwenFreeGivesUp ==
  ASSUME net \in QwenFreeNets, NEW link \in Links,
         QwenFree!GiveUpSending([net EXCEPT !.link = link])
  PROVE  /\ pc' = IF app.aborted THEN "quit" ELSE "recover"
         /\ net' \in QwenFreeNets
         /\ net'.replaying = net.replaying /\ net'.late = net.late
         /\ net'.emitted = net.emitted /\ net'.back = net.back
<1>1. net' = [net EXCEPT !.link = link, !.retryable = TRUE]
  BY DEF QwenFree!GiveUpSending, QwenFreeNets
<1> QED
  BY <1>1 DEF QwenFree!GiveUpSending, QwenFreeNets

LEMMA QwenFreeGivesUpAsIs ==
  ASSUME net \in QwenFreeNets, QwenFree!GiveUpSending(net)
  PROVE  /\ pc' = IF app.aborted THEN "quit" ELSE "recover"
         /\ net' \in QwenFreeNets
         /\ net'.replaying = net.replaying /\ net'.late = net.late
         /\ net'.emitted = net.emitted /\ net'.back = net.back
  BY DEF QwenFree!GiveUpSending, QwenFreeNets

LEMMA QwenFreeLoop ==
  ASSUME QwenFreeInv, QwenFree!Loop
  PROVE  QwenFreeInv' /\ UNCHANGED <<app, finals>>
<1>0. /\ net \in QwenFreeNets /\ audio \in AudioStates /\ work \in WorkStates
      /\ Len(audio.chunk) <= ChunkUnits
  BY DEF QwenFreeInv, Shared, SharedType, ChunkFits
<1>1. pc = "loop" /\ UNCHANGED <<app, audio, work, finals>>
  BY DEF QwenFree!Loop
<1>2. QwenFree!Recording \in BOOLEAN
  BY DEF QwenFree!Recording
<1>3. \/ app.aborted /\ pc' = "quit" /\ net' = net
      \/ QwenFree!FramesAt("frames", QwenFree!Recording)
  BY DEF QwenFree!Loop
<1>4. /\ net' \in QwenFreeNets
      /\ net'.replaying = net.replaying /\ net'.late = net.late
      /\ net'.emitted = net.emitted /\ net'.back = net.back
      /\ (app.aborted /\ pc' = "quit") \/ pc' = "frames"
  BY <1>0, <1>2, <1>3, QwenFreeFrames
<1> QED
  BY <1>0, <1>1, <1>4, QwenFreeMove DEF QwenFreeSteps, QwenFreeLateSteps

LEMMA QwenFreeDrainPcm ==
  ASSUME QwenFreeInv, QwenFree!DrainPcm
  PROVE  QwenFreeInv' /\ UNCHANGED <<app, finals>>
<1>0. /\ net \in QwenFreeNets /\ audio \in AudioStates /\ work \in WorkStates
      /\ Len(audio.chunk) <= ChunkUnits
  BY DEF QwenFreeInv, Shared, SharedType, ChunkFits
<1>1. pc = "drain" /\ UNCHANGED <<app, work, finals>>
  BY DEF QwenFree!DrainPcm
<1>2. QwenFree!Recording \in BOOLEAN
  BY DEF QwenFree!Recording
<1>3. \/ QwenFree!GiveUpSending(net) /\ audio' = audio
      \/ pc' = "drained" /\ UNCHANGED <<audio, net>>
      \/ /\ audio' = DrainToChunk(audio)
         /\ QwenFree!FramesAt("chunkFrames", QwenFree!Recording)
  BY <1>0, QwenFreeBase DEF QwenFree!DrainPcm
<1>4. /\ audio' \in AudioStates /\ audio'.overflowed = audio.overflowed
      /\ Len(audio'.chunk) <= ChunkUnits
  BY <1>0, <1>3, DrainToChunkType DEF ChunkFits
<1>5. /\ net' \in QwenFreeNets
      /\ net'.replaying = net.replaying /\ net'.late = net.late
      /\ net'.emitted = net.emitted /\ net'.back = net.back
      /\ \/ app.aborted /\ pc' = "quit"
         \/ pc' \in {"recover", "drained", "chunkFrames"}
  BY <1>0, <1>2, <1>3, QwenFreeFrames, QwenFreeGivesUpAsIs
<1> QED
  BY <1>0, <1>1, <1>4, <1>5, QwenFreeMove DEF QwenFreeSteps, QwenFreeLateSteps

LEMMA QwenFreeSendChunk ==
  ASSUME QwenFreeInv, QwenFree!SendChunk
  PROVE  QwenFreeInv' /\ UNCHANGED <<app, finals>>
<1>0. /\ net \in QwenFreeNets /\ audio \in AudioStates /\ work \in WorkStates
      /\ Len(audio.chunk) <= ChunkUnits
  BY DEF QwenFreeInv, Shared, SharedType, ChunkFits
<1> DEFINE kept == Keep(audio, audio.chunk)
<1>1. pc = "sendChunk" /\ UNCHANGED <<app, work, finals>> /\ audio.chunk \in Pcm
  BY <1>0 DEF QwenFree!SendChunk, AudioStates
<1>2. kept \in AudioStates /\ kept.overflowed = audio.overflowed
  BY <1>0, <1>1, KeepType
<1>3. audio' = [kept EXCEPT !.chunk = <<>>]
  BY <1>0, <1>1, QwenFreeBase DEF QwenFree!SendChunk
<1> HIDE DEF kept
<1>4. /\ audio' \in AudioStates /\ audio'.overflowed = audio.overflowed
      /\ Len(audio'.chunk) <= ChunkUnits
  BY <1>2, <1>3, EmptyFits, QwenFreeTexts DEF AudioStates
<1>5. PICK s \in QwenFree!Sends(net.link, audio.chunk, FALSE) :
        \/ net' = [net EXCEPT !.link = s.link] /\ pc' = "drain"
        \/ QwenFree!GiveUpSending([net EXCEPT !.link = s.link])
  BY DEF QwenFree!SendChunk
<1>6. s.link \in Links
  BY <1>0, <1>1, <1>5, QwenFreeSends
<1>7. CASE net' = [net EXCEPT !.link = s.link] /\ pc' = "drain"
  <2>1. /\ net' \in QwenFreeNets
        /\ net'.replaying = net.replaying /\ net'.late = net.late
        /\ net'.emitted = net.emitted /\ net'.back = net.back
    BY <1>0, <1>6, <1>7 DEF QwenFreeNets
  <2> QED
    BY <1>0, <1>1, <1>4, <1>7, <2>1, QwenFreeMove DEF QwenFreeSteps, QwenFreeLateSteps
<1>8. CASE QwenFree!GiveUpSending([net EXCEPT !.link = s.link])
  <2>1. /\ pc' = IF app.aborted THEN "quit" ELSE "recover"
        /\ net' \in QwenFreeNets
        /\ net'.replaying = net.replaying /\ net'.late = net.late
        /\ net'.emitted = net.emitted /\ net'.back = net.back
    BY <1>0, <1>6, <1>8, QwenFreeGivesUp
  <2> QED
    BY <1>0, <1>1, <1>4, <2>1, QwenFreeMove DEF QwenFreeSteps, QwenFreeLateSteps
<1> QED
  BY <1>0, <1>5, <1>7, <1>8, QwenFreeMove DEF QwenFreeSteps, QwenFreeLateSteps

LEMMA QwenFreeDrained ==
  ASSUME QwenFreeInv, QwenFree!Drained
  PROVE  QwenFreeInv' /\ UNCHANGED <<app, finals>>
<1>0. /\ net \in QwenFreeNets /\ audio \in AudioStates /\ work \in WorkStates
      /\ Len(audio.chunk) <= ChunkUnits
  BY DEF QwenFreeInv, Shared, SharedType, ChunkFits
<1>1. pc = "drained" /\ UNCHANGED <<app, audio, work, finals>>
  BY DEF QwenFree!Drained
<1>2. QwenFree!Recording \in BOOLEAN
  BY DEF QwenFree!Recording
<1>3. \/ QwenFree!FramesAt("tailFrames", FALSE)
      \/ QwenFree!FramesAt("drainedFrames", QwenFree!Recording)
  BY DEF QwenFree!Drained
<1>4. /\ net' \in QwenFreeNets
      /\ net'.replaying = net.replaying /\ net'.late = net.late
      /\ net'.emitted = net.emitted /\ net'.back = net.back
      /\ pc' \in {"tailFrames", "drainedFrames"}
  BY <1>0, <1>2, <1>3, QwenFreeFrames
<1> QED
  BY <1>0, <1>1, <1>4, QwenFreeMove DEF QwenFreeSteps, QwenFreeLateSteps

LEMMA QwenFreeSendStop ==
  ASSUME QwenFreeInv, QwenFree!SendStop
  PROVE  QwenFreeInv' /\ UNCHANGED <<app, finals>>
<1>0. /\ net \in QwenFreeNets /\ audio \in AudioStates /\ work \in WorkStates
      /\ Len(audio.chunk) <= ChunkUnits
  BY DEF QwenFreeInv, Shared, SharedType, ChunkFits
<1>1. pc = "sendStop" /\ UNCHANGED <<app, audio, work, finals>>
  BY DEF QwenFree!SendStop
<1>2. PICK s \in QwenFree!Sends(net.link, <<>>, TRUE) :
        \/ QwenFree!PumpAt("finalFrames", TRUE, s.link)
        \/ QwenFree!GiveUpSending([net EXCEPT !.link = s.link])
  BY DEF QwenFree!SendStop
<1>3. s.link \in Links
  BY <1>0, <1>2, QwenFreeSends, QwenFreeTexts
<1>4. /\ net' \in QwenFreeNets
      /\ net'.replaying = net.replaying /\ net'.late = net.late
      /\ net'.emitted = net.emitted /\ net'.back = net.back
      /\ (app.aborted /\ pc' = "quit") \/ pc' \in {"recover", "finalFrames"}
  BY <1>0, <1>2, <1>3, QwenFreePump, QwenFreeGivesUp
<1> QED
  BY <1>0, <1>1, <1>4, QwenFreeMove DEF QwenFreeSteps, QwenFreeLateSteps

LEMMA QwenFreeFinalTimedOut ==
  ASSUME QwenFreeInv, QwenFree!FinalTimedOut
  PROVE  QwenFreeInv' /\ UNCHANGED <<app, finals>>
<1>0. /\ net \in QwenFreeNets /\ audio \in AudioStates /\ work \in WorkStates
      /\ Len(audio.chunk) <= ChunkUnits
  BY DEF QwenFreeInv, Shared, SharedType, ChunkFits
<1>1. pc = "finalFrames" /\ UNCHANGED <<app, audio, work, finals>>
  BY DEF QwenFree!FinalTimedOut
<1>2. /\ net' \in QwenFreeNets
      /\ net'.replaying = net.replaying /\ net'.late = net.late
      /\ net'.emitted = net.emitted /\ net'.back = net.back
      /\ pc' = IF app.aborted THEN "quit" ELSE "recover"
  BY <1>0, QwenFreeGivesUpAsIs DEF QwenFree!FinalTimedOut
<1> QED
  BY <1>0, <1>1, <1>2, QwenFreeMove DEF QwenFreeSteps, QwenFreeLateSteps

LEMMA QwenFreeHandleTerminalOutcome ==
  ASSUME QwenFreeInv, QwenFree!HandleTerminalOutcome
  PROVE  QwenFreeInv' /\ UNCHANGED <<app, finals>>
<1>0. net \in QwenFreeNets /\ audio \in AudioStates /\ work \in WorkStates /\ Shared
  BY DEF QwenFreeInv, Shared, SharedType
<1>1. /\ pc = "terminal" /\ UNCHANGED <<app, audio, net, work, finals>>
      /\ pc' \in {"recover", "buffer"} \/ (pc' = "quit" /\ net.emitted)
  BY DEF QwenFree!HandleTerminalOutcome
<1> QED
  BY <1>0, <1>1, WorkerKeeps
     DEF QwenFreeInv, QwenFreeOneFinal, ChunkFits,
     AbortSeen, QwenFreeSteps, QwenFreeLateSteps

LEMMA QwenFreeRecover ==
  ASSUME QwenFreeInv, QwenFree!Recover
  PROVE  QwenFreeInv' /\ UNCHANGED <<app, finals>>
<1> DEFINE w == QwenFree!Primary(work)
<1>0. net \in QwenFreeNets /\ audio \in AudioStates /\ work \in WorkStates /\ Shared
  BY DEF QwenFreeInv, Shared, SharedType
<1>1. w \in WorkStates
  BY <1>0, QwenFreePrimary
<1>2. /\ pc = "recover" /\ pc' = "buffer" /\ UNCHANGED <<app, audio, net, finals>>
      /\ work' = [w EXCEPT !.recover = TRUE]
  BY DEF QwenFree!Recover
<1> HIDE DEF w
<1>3. work' \in WorkStates
  BY <1>1, <1>2 DEF WorkStates
<1> QED
  BY <1>0, <1>2, <1>3, WorkerKeeps
     DEF QwenFreeInv, QwenFreeOneFinal, ChunkFits,
     AbortSeen, QwenFreeSteps, QwenFreeLateSteps

LEMMA QwenFreeBuffer ==
  ASSUME QwenFreeInv, QwenFree!Buffer
  PROVE  QwenFreeInv' /\ UNCHANGED <<app, finals>>
<1> DEFINE kept == KeepPending(audio)
<1>0. net \in QwenFreeNets /\ audio \in AudioStates /\ work \in WorkStates /\ Shared
  BY DEF QwenFreeInv, Shared, SharedType
<1>1. /\ kept \in AudioStates /\ kept.overflowed = audio.overflowed
      /\ kept.chunk = audio.chunk
  BY <1>0, KeepPendingType
<1>2. audio' = [kept EXCEPT !.kept = @ /\ ~audio.overflowed]
  BY <1>0, QwenFreeBase DEF QwenFree!Buffer, QwenFree!BufferPending
<1>3. (kept.kept /\ ~audio.overflowed) \in BOOLEAN
  BY <1>0, <1>1 DEF AudioStates
<1> HIDE DEF kept
<1>4. /\ audio' \in AudioStates /\ audio'.overflowed = audio.overflowed
      /\ audio'.chunk = audio.chunk
  BY <1>1, <1>2, <1>3 DEF AudioStates
<1>5. /\ pc = "buffer" /\ UNCHANGED <<app, net, work, finals>>
      /\ pc' = IF QwenFree!Streaming THEN pc ELSE IF app.aborted THEN "quit" ELSE "decide"
  BY DEF QwenFree!Buffer
<1>6. pc' = "decide" => app.mic = "stopped"
  BY <1>0, <1>5, NotStreaming DEF QwenFree!Streaming, Streaming
<1> QED
  BY <1>0, <1>4, <1>5, <1>6, WorkerKeeps
     DEF QwenFreeInv, QwenFreeOneFinal, ChunkFits,
     AbortSeen, QwenFreeSteps, QwenFreeLateSteps

LEMMA QwenFreeDecide ==
  ASSUME QwenFreeInv, QwenFree!Decide
  PROVE  QwenFreeInv' /\ UNCHANGED <<app, finals>>
<1> DEFINE kind == IF work.recover THEN "error" ELSE "noSpeech"
<1>0. net \in QwenFreeNets /\ audio \in AudioStates /\ work \in WorkStates /\ Shared
  BY DEF QwenFreeInv, Shared, SharedType
<1>1. pc = "decide" /\ UNCHANGED <<app, audio, finals>>
  BY DEF QwenFree!Decide
<1>2. CASE /\ net' = [net EXCEPT !.replaying = TRUE, !.recvStop = TRUE, !.tries = 0,
                        !.link = QwenFree!Shut(@), !.terminal = "none",
                        !.partial = QwenFree!NoText]
           /\ work' = [work EXCEPT !.retries = @ + 1]
           /\ pc' = "replayJoin"
  <2>1. /\ net' \in QwenFreeNets
        /\ net'.late = net.late /\ net'.emitted = net.emitted /\ net'.back = net.back
    BY <1>0, <1>2, QwenFreeLinks, QwenFreeTexts DEF QwenFreeNets
  <2>2. work.retries + 1 \in Nat
    BY <1>0 DEF WorkStates
  <2>3. work' \in WorkStates
    BY <1>0, <1>2, <2>2 DEF WorkStates
  <2> QED
    BY <1>0, <1>1, <1>2, <2>1, <2>3, WorkerKeeps
       DEF QwenFreeInv, QwenFreeOneFinal, ChunkFits,
     AbortSeen, QwenFreeSteps, QwenFreeLateSteps
<1>3. CASE /\ net' = [net EXCEPT !.back = "quit"]
           /\ QwenFree!Claim(work, kind, QwenFree!NoText)
  <2>1. /\ net' \in QwenFreeNets
        /\ net'.late = net.late /\ net'.emitted = net.emitted
        /\ net'.replaying = net.replaying /\ net'.back = "quit"
    BY <1>0, <1>3 DEF QwenFreeNets
  <2>2. kind \in Verdicts /\ kind # "text"
    BY DEF Verdicts, Kinds
  <2> HIDE DEF kind
  <2>3. work' \in WorkStates /\ work'.verdict = kind /\ pc' = "claim"
    BY <1>0, <1>3, <2>2, QwenFreeTexts, QwenFreeClaim
  <2> QED
    BY <1>0, <1>1, <2>1, <2>2, <2>3, QwenFreeVerdict DEF QwenFreeInv, ChunkFits
<1> QED
  BY <1>2, <1>3 DEF QwenFree!Decide

LEMMA QwenFreeReplayReceiverJoined ==
  ASSUME QwenFreeInv, QwenFree!ReplayReceiverJoined
  PROVE  QwenFreeInv' /\ UNCHANGED <<app, finals>>
<1>0. /\ net \in QwenFreeNets /\ audio \in AudioStates /\ work \in WorkStates
      /\ Len(audio.chunk) <= ChunkUnits
  BY DEF QwenFreeInv, Shared, SharedType, ChunkFits
<1>1. /\ pc = "replayJoin" /\ pc' = "try" /\ UNCHANGED <<app, audio, work, finals>>
      /\ net' = [net EXCEPT !.frames = <<>>]
  BY DEF QwenFree!ReplayReceiverJoined
<1>2. <<>> \in Seq(Frames)
  OBVIOUS
<1>3. /\ net' \in QwenFreeNets
      /\ net'.replaying = net.replaying /\ net'.late = net.late
      /\ net'.emitted = net.emitted /\ net'.back = net.back
  BY <1>0, <1>1, <1>2 DEF QwenFreeNets
<1> QED
  BY <1>0, <1>1, <1>3, QwenFreeMove DEF QwenFreeSteps, QwenFreeLateSteps

LEMMA QwenFreeReplayNotConnected ==
  ASSUME QwenFreeInv, QwenFree!ReplayNotConnected
  PROVE  QwenFreeInv' /\ UNCHANGED <<app, finals>>
<1>0. net \in QwenFreeNets /\ audio \in AudioStates /\ work \in WorkStates /\ Shared
  BY DEF QwenFreeInv, Shared, SharedType
<1>1. UNCHANGED net
  BY DEF QwenFree!ReplayNotConnected
<1>2. /\ pc = "try" /\ net.replaying /\ pc' = "replayOver"
      /\ UNCHANGED <<app, finals, audio, work>>
  BY DEF QwenFree!ReplayNotConnected, QwenFree!NoMoreTries
<1> QED
  BY <1>0, <1>1, <1>2, WorkerKeeps DEF QwenFreeInv, QwenFreeOneFinal, ChunkFits,
     AbortSeen, QwenFreeSteps, QwenFreeLateSteps

LEMMA QwenFreeReplaySend ==
  ASSUME QwenFreeInv, QwenFree!ReplaySend
  PROVE  QwenFreeInv' /\ UNCHANGED <<app, finals>>
<1> DEFINE done == Len(net.link.got)
           upTo == Smaller(done + ChunkUnits, Len(audio.replay))
           units == SubSeq(audio.replay, done + 1, upTo)
           last == done = Len(audio.replay)
<1>0. /\ net \in QwenFreeNets /\ audio \in AudioStates /\ work \in WorkStates
      /\ Len(audio.chunk) <= ChunkUnits
  BY DEF QwenFreeInv, Shared, SharedType, ChunkFits
<1>1. units \in Pcm /\ last \in BOOLEAN
  <2>1. done \in Nat /\ Len(audio.replay) \in Nat /\ audio.replay \in Pcm
    BY <1>0, PcmTypes DEF QwenFreeNets, Links, AudioStates
  <2> QED
    BY <1>0, <2>1, CutTypes, SessionAssumption DEF Smaller
<1>2. pc = "replaySend" /\ UNCHANGED <<app, audio, work, finals>>
  BY DEF QwenFree!ReplaySend
<1>3. PICK s \in QwenFree!Sends(net.link, units, last) :
        \/ net' = [net EXCEPT !.link = s.link] /\ pc' = "replayOver"
        \/ QwenFree!PumpAt(IF last THEN "replayFinalFrames" ELSE "replayFrames",
                           last, s.link)
  BY DEF QwenFree!ReplaySend, QwenFree!Smaller, Smaller
<1> HIDE DEF units, last
<1>4. s.link \in Links
  BY <1>0, <1>1, <1>3, QwenFreeSends
<1>5. CASE net' = [net EXCEPT !.link = s.link] /\ pc' = "replayOver"
  <2>1. /\ net' \in QwenFreeNets
        /\ net'.replaying = net.replaying /\ net'.late = net.late
        /\ net'.emitted = net.emitted /\ net'.back = net.back
    BY <1>0, <1>4, <1>5 DEF QwenFreeNets
  <2> QED
    BY <1>0, <1>2, <1>5, <2>1, QwenFreeMove DEF QwenFreeSteps, QwenFreeLateSteps
<1>6. CASE QwenFree!PumpAt(IF last THEN "replayFinalFrames" ELSE "replayFrames",
                           last, s.link)
  <2>1. /\ net' \in QwenFreeNets
        /\ net'.replaying = net.replaying /\ net'.late = net.late
        /\ net'.emitted = net.emitted /\ net'.back = net.back
        /\ pc' \in {"replayFinalFrames", "replayFrames"}
    BY <1>0, <1>1, <1>4, <1>6, QwenFreePump
  <2> QED
    BY <1>0, <1>2, <2>1, QwenFreeMove DEF QwenFreeSteps, QwenFreeLateSteps
<1> QED
  BY <1>3, <1>5, <1>6

LEMMA QwenFreeReplayTimedOut ==
  ASSUME QwenFreeInv, QwenFree!ReplayTimedOut
  PROVE  QwenFreeInv' /\ UNCHANGED <<app, finals>>
<1>0. net \in QwenFreeNets /\ audio \in AudioStates /\ work \in WorkStates /\ Shared
  BY DEF QwenFreeInv, Shared, SharedType
<1>1. UNCHANGED net
  BY DEF QwenFree!ReplayTimedOut
<1>2. /\ pc = "replayFinalFrames" /\ pc' = "replayOver"
      /\ UNCHANGED <<app, finals, audio, work>>
  BY DEF QwenFree!ReplayTimedOut
<1> QED
  BY <1>0, <1>1, <1>2, WorkerKeeps DEF QwenFreeInv, QwenFreeOneFinal, ChunkFits,
     AbortSeen, QwenFreeSteps, QwenFreeLateSteps

LEMMA QwenFreeReplayOver ==
  ASSUME QwenFreeInv, QwenFree!ReplayOver
  PROVE  QwenFreeInv' /\ UNCHANGED <<app, finals>>
<1> DEFINE kind == CASE net.terminal = "text" -> "text"
                     [] net.terminal = "empty" -> "noSpeech"
                     [] OTHER -> "error"
           text == IF net.terminal = "text" THEN net.partial ELSE QwenFree!NoText
<1>0. net \in QwenFreeNets /\ audio \in AudioStates /\ work \in WorkStates /\ Shared
  BY DEF QwenFreeInv, Shared, SharedType
<1>1. /\ pc = "replayOver" /\ UNCHANGED <<app, audio, finals>>
      /\ net' = [net EXCEPT !.back = "quit"] /\ QwenFree!Claim(work, kind, text)
  BY DEF QwenFree!ReplayOver
<1>2. kind \in Verdicts /\ text \in Pcm
  BY <1>0, QwenFreeTexts DEF Verdicts, Kinds, QwenFreeNets
<1> HIDE DEF kind, text
<1>3. /\ net' \in QwenFreeNets
      /\ net'.late = net.late /\ net'.emitted = net.emitted
      /\ net'.replaying = net.replaying /\ net'.back = "quit"
  BY <1>0, <1>1 DEF QwenFreeNets
<1>4. work' \in WorkStates /\ pc' = "claim"
  BY <1>0, <1>1, <1>2, QwenFreeClaim
<1>5. app.mic = "stopped"
  BY <1>1 DEF QwenFreeInv, QwenFreeLateSteps
<1> QED
  BY <1>0, <1>1, <1>3, <1>4, <1>5, QwenFreeVerdict DEF QwenFreeInv, ChunkFits

LEMMA QwenFreePostProcess ==
  ASSUME QwenFreeInv, QwenFree!PostProcess
  PROVE  QwenFreeInv' /\ UNCHANGED <<app, finals>>
<1>0. net \in QwenFreeNets /\ audio \in AudioStates /\ work \in WorkStates /\ Shared
  BY DEF QwenFreeInv, Shared, SharedType
<1>1. pc = "claim" /\ UNCHANGED <<app, audio, finals>>
  BY DEF QwenFree!PostProcess
<1>2. net.back \in {"quit", "terminal", "drained", "replayOver"}
  BY <1>0 DEF QwenFreeNets
<1>3. CASE app.aborted \/ net.emitted
  <2>1. pc' = net.back /\ UNCHANGED <<net, work>>
    BY <1>3 DEF QwenFree!PostProcess
  <2> QED
    BY <1>0, <1>1, <1>2, <1>3, <2>1, WorkerKeeps
       DEF QwenFreeInv, QwenFreeOneFinal, ChunkFits,
     AbortSeen, QwenFreeSteps, QwenFreeLateSteps
<1>4. CASE ~(app.aborted \/ net.emitted)
  <2>1. /\ net' = [net EXCEPT !.emitted = TRUE] /\ pc' = "emit"
        /\ \/ work' = work
           \/ work' = [work EXCEPT !.verdict = "error", !.text = QwenFree!NoText]
    BY <1>4 DEF QwenFree!PostProcess
  <2>2. /\ net' \in QwenFreeNets
        /\ net'.late = net.late /\ net'.emitted
        /\ net'.replaying = net.replaying /\ net'.back = net.back
    BY <1>0, <2>1 DEF QwenFreeNets
  <2>3. work' \in WorkStates /\ work'.verdict \in {work.verdict, "error"}
    BY <1>0, <2>1, QwenFreeTexts DEF WorkStates, Verdicts, Kinds
  <2> QED
    BY <1>0, <1>1, <1>4, <2>1, <2>2, <2>3, WorkerKeeps
       DEF QwenFreeInv, QwenFreeOneFinal, ChunkFits,
     AbortSeen, QwenFreeSteps, QwenFreeLateSteps
<1> QED
  BY <1>3, <1>4

LEMMA QwenFreeEmitFinal ==
  ASSUME QwenFreeInv, QwenFree!EmitFinal
  PROVE  QwenFreeInv' /\ UNCHANGED <<app, finals>>
<1>0. net \in QwenFreeNets /\ audio \in AudioStates /\ work \in WorkStates /\ Shared
  BY DEF QwenFreeInv, Shared, SharedType
<1>1. net.back \in {"quit", "terminal", "drained", "replayOver"}
  BY <1>0 DEF QwenFreeNets
<1>2. /\ pc = "emit" /\ UNCHANGED <<app, audio, net, work, finals>>
      /\ pc' = IF app.aborted THEN net.back ELSE "post"
  BY DEF QwenFree!EmitFinal
<1> QED
  BY <1>0, <1>1, <1>2, WorkerKeeps
     DEF QwenFreeInv, QwenFreeOneFinal, ChunkFits,
     AbortSeen, QwenFreeSteps, QwenFreeLateSteps

LEMMA QwenFreeStopReceiver ==
  ASSUME QwenFreeInv, QwenFree!StopReceiver
  PROVE  QwenFreeInv' /\ UNCHANGED <<app, finals>>
<1>0. net \in QwenFreeNets /\ audio \in AudioStates /\ work \in WorkStates /\ Shared
  BY DEF QwenFreeInv, Shared, SharedType
<1>1. net' \in QwenFreeNets
  BY <1>0, QwenFreeLinks, QwenFreeTexts DEF QwenFreeNets, QwenFree!StopReceiver
<1>2. /\ net'.replaying = net.replaying /\ net'.late = net.late
      /\ net'.emitted = net.emitted /\ net'.back = net.back
  BY <1>0, QwenFreeLinks, QwenFreeTexts DEF QwenFreeNets, QwenFree!StopReceiver
<1>3. /\ pc = "quit" /\ pc' = "join"
      /\ UNCHANGED <<app, finals, audio, work>>
  BY DEF QwenFree!StopReceiver
<1> QED
  BY <1>0, <1>1, <1>2, <1>3, WorkerKeeps DEF QwenFreeInv, QwenFreeOneFinal, ChunkFits,
     AbortSeen, QwenFreeSteps, QwenFreeLateSteps

LEMMA QwenFreeReceiverJoined ==
  ASSUME QwenFreeInv, QwenFree!ReceiverJoined
  PROVE  QwenFreeInv' /\ UNCHANGED <<app, finals>>
<1>0. net \in QwenFreeNets /\ audio \in AudioStates /\ work \in WorkStates /\ Shared
  BY DEF QwenFreeInv, Shared, SharedType
<1>1. <<>> \in Seq(Frames)
  OBVIOUS
<1>2. net' \in QwenFreeNets
  BY <1>0, <1>1 DEF QwenFreeNets, QwenFree!ReceiverJoined
<1>3. /\ net'.replaying = net.replaying /\ net'.late = net.late
      /\ net'.emitted = net.emitted /\ net'.back = net.back
  BY <1>0, <1>1 DEF QwenFreeNets, QwenFree!ReceiverJoined
<1>4. /\ pc = "join" /\ pc' = "stop"
      /\ UNCHANGED <<app, finals, audio, work>>
  BY DEF QwenFree!ReceiverJoined
<1> QED
  BY <1>0, <1>1, <1>2, <1>3, <1>4, WorkerKeeps DEF QwenFreeInv, QwenFreeOneFinal,
     ChunkFits, AbortSeen, QwenFreeSteps, QwenFreeLateSteps

LEMMA QwenFreeReceiverQuits ==
  ASSUME QwenFreeInv, QwenFree!ReceiverQuits
  PROVE  QwenFreeInv' /\ UNCHANGED <<app, finals>>
<1>0. net \in QwenFreeNets /\ audio \in AudioStates /\ work \in WorkStates /\ Shared
  BY DEF QwenFreeInv, Shared, SharedType
<1>1. net' \in QwenFreeNets
  BY <1>0 DEF QwenFreeNets, QwenFree!ReceiverQuits
<1>2. /\ net'.replaying = net.replaying /\ net'.late = net.late
      /\ net'.emitted = net.emitted /\ net'.back = net.back
  BY <1>0 DEF QwenFreeNets, QwenFree!ReceiverQuits
<1>3. /\ pc' = pc
      /\ UNCHANGED <<app, finals, audio, work>>
  BY DEF QwenFree!ReceiverQuits
<1> QED
  BY <1>0, <1>1, <1>2, <1>3, WorkerKeeps DEF QwenFreeInv, QwenFreeOneFinal, ChunkFits,
     AbortSeen, QwenFreeSteps, QwenFreeLateSteps

LEMMA QwenFreeReceiveText ==
  ASSUME QwenFreeInv, QwenFree!ReceiveText
  PROVE  QwenFreeInv' /\ UNCHANGED <<app, finals>>
<1>0. net \in QwenFreeNets /\ audio \in AudioStates /\ work \in WorkStates /\ Shared
  BY DEF QwenFreeInv, Shared, SharedType
<1>1. PICK kind \in {"partial", "final"}, text \in {QwenFree!NoText, net.link.got} :
        net' = [net EXCEPT !.frames = Append(@, [kind |-> kind, text |-> text]),
                           !.link.told = kind = "final" /\ net.link.ended]
  BY DEF QwenFree!ReceiveText
<1> DEFINE told == kind = "final" /\ net.link.ended
           link == [net.link EXCEPT !.told = told]
           frames == Append(net.frames, [kind |-> kind, text |-> text])
<1>2. net.link \in Links /\ net.link.got \in Pcm
  BY <1>0 DEF QwenFreeNets, Links
<1>3. told \in BOOLEAN
  BY <1>2 DEF Links
<1>4. link \in Links
  BY <1>2, <1>3 DEF Links
<1>5. [kind |-> kind, text |-> text] \in Frames /\ net.frames \in Seq(Frames)
  BY <1>0, <1>1, <1>2, QwenFreeTexts DEF Frames, QwenFreeNets
<1>6. frames \in Seq(Frames)
  BY <1>5
<1>7. net' = [net EXCEPT !.frames = frames, !.link = link]
  BY <1>0, <1>1 DEF QwenFreeNets
<1> HIDE DEF told, link, frames
<1>8. /\ net' \in QwenFreeNets
      /\ net'.replaying = net.replaying /\ net'.late = net.late
      /\ net'.emitted = net.emitted /\ net'.back = net.back
  BY <1>0, <1>4, <1>6, <1>7 DEF QwenFreeNets
<1>9. UNCHANGED <<app, audio, pc, work, finals>>
  BY DEF QwenFree!ReceiveText
<1> QED
  BY <1>0, <1>8, <1>9, WorkerKeeps
     DEF QwenFreeInv, QwenFreeOneFinal, ChunkFits,
     AbortSeen, QwenFreeSteps, QwenFreeLateSteps

LEMMA QwenFreeReceiveFailure ==
  ASSUME QwenFreeInv, QwenFree!ReceiveFailure
  PROVE  QwenFreeInv' /\ UNCHANGED <<app, finals>>
<1>0. net \in QwenFreeNets /\ audio \in AudioStates /\ work \in WorkStates /\ Shared
  BY DEF QwenFreeInv, Shared, SharedType
<1>1. PICK kind \in {"failed", "refused"} :
        net' = [net EXCEPT !.frames = Append(@, [kind |-> kind, text |-> QwenFree!NoText]),
                           !.recv = "done"]
  BY DEF QwenFree!ReceiveFailure
<1>2. [kind |-> kind, text |-> QwenFree!NoText] \in Frames /\ net.frames \in Seq(Frames)
  BY <1>0, <1>1, QwenFreeTexts DEF Frames, QwenFreeNets
<1>3. Append(net.frames, [kind |-> kind, text |-> QwenFree!NoText]) \in Seq(Frames)
  BY <1>2
<1>4. /\ net' \in QwenFreeNets
      /\ net'.replaying = net.replaying /\ net'.late = net.late
      /\ net'.emitted = net.emitted /\ net'.back = net.back
  BY <1>0, <1>1, <1>3 DEF QwenFreeNets
<1>5. UNCHANGED <<app, audio, pc, work, finals>>
  BY DEF QwenFree!ReceiveFailure
<1> QED
  BY <1>0, <1>4, <1>5, WorkerKeeps
     DEF QwenFreeInv, QwenFreeOneFinal, ChunkFits,
     AbortSeen, QwenFreeSteps, QwenFreeLateSteps

\* The final is posted: the only step of this provider that hands one out.
LEMMA QwenFreePostFinal ==
  ASSUME QwenFreeInv, QwenFree!PostFinal
  PROVE  /\ QwenFreeInv' /\ UNCHANGED app
         /\ pc = "post" /\ finals = <<>>
         /\ finals' = <<[kind |-> work.verdict, text |-> work.text]>>
         /\ work.verdict = "text" => app.mic = "stopped"
<1> DEFINE final == [kind |-> work.verdict, text |-> work.text]
<1>0. net \in QwenFreeNets /\ audio \in AudioStates /\ work \in WorkStates /\ Shared
  BY DEF QwenFreeInv, Shared, SharedType
<1>1. /\ pc = "post" /\ finals = <<>> /\ net.emitted
      /\ work.verdict = "text" => app.mic = "stopped"
  BY DEF QwenFreeInv, QwenFreeOneFinal, QwenFree!PostFinal
<1>2. /\ finals' = <<final>> /\ pc' = net.back /\ UNCHANGED <<app, audio, net, work>>
  BY <1>1 DEF QwenFree!PostFinal
<1>3. final \in Finals
  BY <1>0 DEF Finals, WorkStates
<1>4. finals' \in Seq(Finals) /\ Len(finals') = 1 /\ finals' # <<>>
  BY <1>2, <1>3
<1>5. pc' \in {"quit", "terminal", "drained", "replayOver"}
  BY <1>0, <1>2 DEF QwenFreeNets
<1>6. Shared'
  BY <1>0, <1>1, <1>2, <1>4, <1>5 DEF Shared, SharedType, Lifecycle, Lost
<1>7. QwenFreeOneFinal'
  BY <1>1, <1>2, <1>4, <1>5 DEF QwenFreeOneFinal
<1> QED
  BY <1>1, <1>2, <1>5, <1>6, <1>7
     DEF QwenFreeInv, ChunkFits, AbortSeen, QwenFreeSteps, QwenFreeLateSteps

---------------------------------------------------------------------------
(***************************************************************************)
(* What the application sees of a step, and the steps of the interface.    *)
(***************************************************************************)

\* The final is handed out: it is the first, and a text only when the recording
\* was stopped or audio was lost.
Posted ==
  /\ UNCHANGED app
  /\ app.running
  /\ finals = <<>>
  /\ \E final \in Finals :
       /\ finals' = <<final>>
       /\ final.kind = "text" => app.mic = "stopped" \/ Lost

Started ==
  /\ app.mic = "idle"
  /\ app' = [app EXCEPT !.mic = "open", !.running = TRUE]
  /\ UNCHANGED finals

Cancelled ==
  /\ app.mic # "idle" /\ app.running
  /\ app' = [app EXCEPT !.aborted = TRUE]
  /\ UNCHANGED finals

Ended == Stopped /\ (app.aborted \/ finals # <<>>)

Visible ==
  \/ UNCHANGED <<app, finals>>
  \/ Started \/ Enqueue \/ StopInput \/ Cancelled \/ Posted \/ Ended

---------------------------------------------------------------------------
\* Volcengine: the application's own steps.
LEMMA VolcStart ==
  ASSUME VolcInv, Volcengine!Start
  PROVE  VolcInv' /\ Started
<1>1. PICK first \in {"opening"} : StartAt(first)
  BY DEF Volcengine!Start, Volcengine!StartAt, StartAt
<1>2. /\ Shared'
      /\ UNCHANGED <<audio, net, work, finals>>
      /\ pc = "idle" /\ pc' = first
      /\ app'.mic = "open" /\ app'.aborted = app.aborted
      /\ Lost' = Lost
  BY <1>1, StartKeeps DEF VolcInv
<1>3. app.mic = "idle"
  BY <1>2 DEF VolcInv, Shared, Lifecycle
<1>4. Started
  BY <1>1, <1>3 DEF StartAt, Started
<1> QED
  BY <1>2, <1>3, <1>4
     DEF VolcInv, OneFinal, ChunkFits, ListeningOver, VolcSteps, VolcLateSteps

LEMMA VolcEnqueue ==
  ASSUME VolcInv, Volcengine!Enqueue
  PROVE  VolcInv' /\ Enqueue
<1>1. Enqueue
  BY
     DEF Volcengine!Enqueue, Enqueue, Volcengine!Streaming, Streaming,
     Volcengine!PendingAppend, PendingAppend
<1>2. /\ Shared'
      /\ UNCHANGED <<pc, net, work, finals>>
      /\ app'.mic = app.mic /\ app'.aborted = app.aborted
      /\ audio'.kept = audio.kept /\ audio'.chunk = audio.chunk
      /\ Lost => Lost'
  BY <1>1, EnqueueKeeps DEF VolcInv
<1> QED
  BY <1>1, <1>2 DEF VolcInv, OneFinal, ChunkFits, ListeningOver, VolcSteps, VolcLateSteps

LEMMA VolcStopInput ==
  ASSUME VolcInv, Volcengine!StopInput
  PROVE  VolcInv' /\ StopInput
<1>1. StopInput
  BY DEF Volcengine!StopInput, StopInput, Volcengine!Streaming, Streaming
<1>2. /\ Shared'
      /\ UNCHANGED <<audio, pc, net, work, finals>>
      /\ app'.mic = "stopped" /\ app'.aborted = app.aborted
      /\ Lost' = Lost
  BY <1>1, StopInputKeeps DEF VolcInv
<1> QED
  BY <1>1, <1>2 DEF VolcInv, OneFinal, ChunkFits, ListeningOver, VolcSteps, VolcLateSteps

LEMMA VolcAbort ==
  ASSUME VolcInv, Volcengine!Abort
  PROVE  VolcInv' /\ Cancelled
<1> DEFINE main == [net.main EXCEPT !.forceAbort = TRUE, !.ws = FALSE]
           retry == [net.retry EXCEPT !.forceAbort = TRUE, !.ws = FALSE]
<1>0. net \in VolcNets
  BY DEF VolcInv
<1>1. main \in VolcSessions /\ retry \in VolcSessions
  BY <1>0, VolcMain DEF VolcSessions
<1>2. AbortWith([net EXCEPT !.main = main, !.retry = retry])
  BY <1>0 DEF Volcengine!Abort, Volcengine!AbortWith, AbortWith, VolcNets
<1>3. [net EXCEPT !.main = main, !.retry = retry] \in VolcNets
  BY <1>0, <1>1 DEF VolcNets
<1> HIDE DEF main, retry
<1>4. /\ Shared'
      /\ UNCHANGED <<audio, pc, work, finals>>
      /\ net' = [net EXCEPT !.main = main, !.retry = retry]
      /\ ~app.aborted /\ app.running /\ app.mic # "idle"
      /\ app'.aborted /\ app'.mic = app.mic
      /\ Lost' = Lost
  BY <1>2, AbortKeeps DEF VolcInv
<1>5. Cancelled
  BY <1>2, <1>4 DEF AbortWith, Cancelled
<1> QED
  BY <1>3, <1>4, <1>5
     DEF VolcInv, OneFinal, ChunkFits, ListeningOver, VolcSteps, VolcLateSteps

LEMMA VolcDispatch ==
  ASSUME VolcInv, Volcengine!Dispatch
  PROVE  VolcInv' /\ Posted
<1>1. Dispatch /\ finals = <<>>
  BY DEF Volcengine!Dispatch, Dispatch, VolcInv, OneFinal
<1>2. /\ Shared'
      /\ UNCHANGED <<app, audio, net, work>>
      /\ pc = "dispatch" /\ pc' = "stop"
      /\ Len(finals') = 1 /\ finals' # <<>> /\ app.running
      /\ \E final \in Finals :
           finals' = <<final>> /\ final.kind = work.verdict
  BY <1>1, DispatchKeeps DEF VolcInv
<1>3. Lost' = Lost
  BY <1>2 DEF Lost
<1>4. Posted
  BY <1>1, <1>2 DEF Posted, VolcInv, OneFinal
<1>5. OneFinal'
  BY <1>2 DEF OneFinal
<1> QED
  BY <1>2, <1>3, <1>4, <1>5
     DEF VolcInv, ChunkFits, ListeningOver, VolcSteps, VolcLateSteps

LEMMA VolcStopped ==
  ASSUME VolcInv, Volcengine!Stopped
  PROVE  VolcInv' /\ Ended
<1>1. Stopped
  BY DEF Volcengine!Stopped, Stopped
<1>2. /\ Shared'
      /\ UNCHANGED <<audio, net, work, finals>>
      /\ pc = "stop" /\ pc' = "ended"
      /\ app'.mic = app.mic /\ app'.aborted = app.aborted
      /\ Lost' = Lost
  BY <1>1, StoppedKeeps DEF VolcInv
<1>3. Ended
  BY <1>1, <1>2 DEF Ended, VolcInv, OneFinal
<1> QED
  BY <1>2, <1>3 DEF VolcInv, OneFinal, ChunkFits, ListeningOver, VolcSteps, VolcLateSteps

LEMMA VolcWorker ==
  ASSUME VolcInv, Volcengine!Worker
  PROVE  VolcInv' /\ Visible
  BY VolcOpenOk, VolcOpenFailed, VolcReopen, VolcOpenGivenUp, VolcSendFull,
     VolcGather, VolcKeepaliveLost, VolcSendAborted, VolcBuffer, VolcSendChunkLeft,
     VolcSendPendingLeft, VolcLocalSilence, VolcSilenceReported, VolcSendLast,
     VolcDrainWaited, VolcDrainJoined, VolcCloseSession, VolcDecide,
     VolcReplayOpened, VolcReplayOpenFailed, VolcReplaySend, VolcReplayAnswered
     DEF Volcengine!Worker, Visible

LEMMA VolcDrain ==
  ASSUME VolcInv, Volcengine!Drain
  PROVE  VolcInv' /\ Visible
  BY VolcDrainMain, VolcDrainFinal, VolcDrainSweep
     DEF Volcengine!Drain, Visible

LEMMA VolcNext ==
  ASSUME VolcInv, Volcengine!Next
  PROVE  VolcInv' /\ Visible
  BY VolcStart, VolcAbort, VolcWorker, VolcDrain, VolcEnqueue,
     VolcStopInput, VolcDispatch, VolcStopped
     DEF Volcengine!Next, Volcengine!BaseNext, Visible

LEMMA VolcInit ==
  ASSUME Volcengine!Init
  PROVE  VolcInv
<1>1. <<>> \in Pcm /\ <<>> \in Seq(Finals) /\ <<>> \in Seq(Frames)
  BY DEF Pcm
<1>2. app \in AppStates /\ audio \in AudioStates /\ work \in WorkStates
  BY <1>1
     DEF Volcengine!Init, Volcengine!InitBase, Volcengine!NoText, AppStates,
     AudioStates, WorkStates, Verdicts
<1>3. net \in VolcNets
  BY <1>1
     DEF Volcengine!Init, Volcengine!InitBase, Volcengine!InitNet,
     Volcengine!NoText, Volcengine!Disconnected, VolcNets, VolcSessions
<1>4. Shared
  BY <1>1, <1>2
     DEF Volcengine!Init, Volcengine!InitBase, Shared, SharedType, Lifecycle, Lost
<1> QED
  BY <1>3, <1>4, EmptyFits
     DEF Volcengine!Init, Volcengine!InitBase, Volcengine!InitNet,
     Volcengine!NoText, Volcengine!Disconnected, VolcInv, OneFinal, ChunkFits,
     ListeningOver, VolcSteps, VolcLateSteps

---------------------------------------------------------------------------
\* Qwen: the application's own steps.
LEMMA QwenStart ==
  ASSUME QwenInv, Qwen!Start
  PROVE  QwenInv' /\ Started
<1>1. PICK first \in {"try", "waitStop"} : StartAt(first)
  BY DEF Qwen!Start, Qwen!StartAt, StartAt
<1>2. /\ Shared'
      /\ UNCHANGED <<audio, net, work, finals>>
      /\ pc = "idle" /\ pc' = first
      /\ app'.mic = "open" /\ app'.aborted = app.aborted
      /\ Lost' = Lost
  BY <1>1, StartKeeps DEF QwenInv
<1>3. app.mic = "idle"
  BY <1>2 DEF QwenInv, Shared, Lifecycle
<1>4. Started
  BY <1>1, <1>3 DEF StartAt, Started
<1> QED
  BY <1>2, <1>3, <1>4
     DEF QwenInv, OneFinal, AbortSeen, ListeningOver, QwenSteps, QwenLateSteps,
     QwenFirstSteps

LEMMA QwenEnqueue ==
  ASSUME QwenInv, Qwen!Enqueue
  PROVE  QwenInv' /\ Enqueue
<1>1. Enqueue
  BY
     DEF Qwen!Enqueue, Enqueue, Qwen!Streaming, Streaming, Qwen!PendingAppend,
     PendingAppend
<1>2. /\ Shared'
      /\ UNCHANGED <<pc, net, work, finals>>
      /\ app'.mic = app.mic /\ app'.aborted = app.aborted
      /\ audio'.kept = audio.kept /\ audio'.chunk = audio.chunk
      /\ Lost => Lost'
  BY <1>1, EnqueueKeeps DEF QwenInv
<1> QED
  BY <1>1, <1>2
     DEF QwenInv, OneFinal, AbortSeen, ListeningOver, QwenSteps, QwenLateSteps,
     QwenFirstSteps

LEMMA QwenStopInput ==
  ASSUME QwenInv, Qwen!StopInput
  PROVE  QwenInv' /\ StopInput
<1>1. StopInput
  BY DEF Qwen!StopInput, StopInput, Qwen!Streaming, Streaming
<1>2. /\ Shared'
      /\ UNCHANGED <<audio, pc, net, work, finals>>
      /\ app'.mic = "stopped" /\ app'.aborted = app.aborted
      /\ Lost' = Lost
  BY <1>1, StopInputKeeps DEF QwenInv
<1> QED
  BY <1>1, <1>2
     DEF QwenInv, OneFinal, AbortSeen, ListeningOver, QwenSteps, QwenLateSteps,
     QwenFirstSteps

LEMMA QwenAbort ==
  ASSUME QwenInv, Qwen!Abort
  PROVE  QwenInv' /\ Cancelled
<1> DEFINE closed == [net EXCEPT !.link = Qwen!Aborted(net.link)]
<1>0. net \in QwenNets
  BY DEF QwenInv
<1>1. Qwen!Aborted(net.link) \in Links
  BY <1>0, QwenLinks
<1>2. AbortWith(closed)
  BY <1>0 DEF Qwen!Abort, Qwen!AbortWith, AbortWith, QwenNets
<1>3. /\ closed \in QwenNets
      /\ closed.late = net.late
      /\ closed.input = net.input
      /\ closed.replaying = net.replaying
      /\ closed.failed = net.failed
      /\ closed.drainFailed = net.drainFailed
  BY <1>0, <1>1 DEF QwenNets
<1> HIDE DEF closed
<1>4. /\ Shared'
      /\ UNCHANGED <<audio, pc, work, finals>>
      /\ net' = closed
      /\ ~app.aborted /\ app.running /\ app.mic # "idle"
      /\ app'.aborted /\ app'.mic = app.mic
      /\ Lost' = Lost
  BY <1>2, AbortKeeps DEF QwenInv
<1>5. Cancelled
  BY <1>2, <1>4 DEF AbortWith, Cancelled
<1> QED
  BY <1>3, <1>4, <1>5
     DEF QwenInv, OneFinal, AbortSeen, ListeningOver, QwenSteps, QwenLateSteps,
     QwenFirstSteps

LEMMA QwenDispatch ==
  ASSUME QwenInv, Qwen!Dispatch
  PROVE  QwenInv' /\ Posted
<1>1. Dispatch /\ finals = <<>>
  BY DEF Qwen!Dispatch, Dispatch, QwenInv, OneFinal
<1>2. /\ Shared'
      /\ UNCHANGED <<app, audio, net, work>>
      /\ pc = "dispatch" /\ pc' = "stop"
      /\ Len(finals') = 1 /\ finals' # <<>> /\ app.running
      /\ \E final \in Finals :
           finals' = <<final>> /\ final.kind = work.verdict
  BY <1>1, DispatchKeeps DEF QwenInv
<1>3. Lost' = Lost
  BY <1>2 DEF Lost
<1>4. Posted
  BY <1>1, <1>2 DEF Posted, QwenInv, OneFinal
<1>5. OneFinal'
  BY <1>2 DEF OneFinal
<1> QED
  BY <1>2, <1>3, <1>4, <1>5
     DEF QwenInv, AbortSeen, ListeningOver, QwenSteps, QwenLateSteps, QwenFirstSteps

LEMMA QwenStopped ==
  ASSUME QwenInv, Qwen!Stopped
  PROVE  QwenInv' /\ Ended
<1>1. Stopped
  BY DEF Qwen!Stopped, Stopped
<1>2. /\ Shared'
      /\ UNCHANGED <<audio, net, work, finals>>
      /\ pc = "stop" /\ pc' = "ended"
      /\ app'.mic = app.mic /\ app'.aborted = app.aborted
      /\ Lost' = Lost
  BY <1>1, StoppedKeeps DEF QwenInv
<1>3. Ended
  BY <1>1, <1>2 DEF Ended, QwenInv, OneFinal
<1> QED
  BY <1>2, <1>3
     DEF QwenInv, OneFinal, AbortSeen, ListeningOver, QwenSteps, QwenLateSteps,
     QwenFirstSteps

LEMMA QwenWorker ==
  ASSUME QwenInv, Qwen!Worker
  PROVE  QwenInv' /\ Visible
  BY QwenTry, QwenConnect, QwenConnectOk, QwenConnectFailed, QwenNotConnected,
     QwenWaitForRecordingStop, QwenTakePending, QwenSampleInput, QwenFlushFullChunk,
     QwenFlushed, QwenLoopLeft, QwenBuffer, QwenTakeRest, QwenSendRest,
     QwenSendFinish, QwenAwaitFinish, QwenFinishFailed, QwenStopDrain,
     QwenDrainJoined, QwenReplaySend, QwenReplayFailed, QwenReplayFinished,
     QwenReplayGivenUp, QwenDecide
     DEF Qwen!Worker, Visible

LEMMA QwenDrain ==
  ASSUME QwenInv, Qwen!Drain
  PROVE  QwenInv' /\ Visible
  BY QwenDrainQuits, QwenDrainFails, QwenDrainCompleted, QwenDrainFinished
     DEF Qwen!Drain, Visible

LEMMA QwenNext ==
  ASSUME QwenInv, Qwen!Next
  PROVE  QwenInv' /\ Visible
  BY QwenStart, QwenAbort, QwenWorker, QwenDrain, QwenEnqueue,
     QwenStopInput, QwenDispatch, QwenStopped
     DEF Qwen!Next, Qwen!BaseNext, Visible

LEMMA QwenInit ==
  ASSUME Qwen!Init
  PROVE  QwenInv
<1>1. <<>> \in Pcm /\ <<>> \in Seq(Finals) /\ <<>> \in Seq(Frames)
  BY DEF Pcm
<1>2. app \in AppStates /\ audio \in AudioStates /\ work \in WorkStates
  BY <1>1
     DEF Qwen!Init, Qwen!InitBase, Qwen!NoText, AppStates, AudioStates, WorkStates,
     Verdicts
<1>3. net \in QwenNets
  BY <1>1
     DEF Qwen!Init, Qwen!InitBase, Qwen!InitNet, Qwen!NoText, Qwen!NoLink, QwenNets,
     Links, Reasons
<1>4. Shared
  BY <1>1, <1>2 DEF Qwen!Init, Qwen!InitBase, Shared, SharedType, Lifecycle, Lost
<1> QED
  BY <1>3, <1>4
     DEF Qwen!Init, Qwen!InitBase, Qwen!InitNet, Qwen!NoText, Qwen!NoLink, QwenInv,
     OneFinal, AbortSeen, ListeningOver, QwenSteps, QwenLateSteps, QwenFirstSteps

---------------------------------------------------------------------------
\* QwenAudio: the application's own steps.
LEMMA QwenAudioStart ==
  ASSUME QwenAudioInv, QwenAudio!Start
  PROVE  QwenAudioInv' /\ Started
<1>1. PICK first \in {"try", "buffer"} : StartAt(first)
  BY DEF QwenAudio!Start, QwenAudio!StartAt, StartAt
<1>2. /\ Shared'
      /\ UNCHANGED <<audio, net, work, finals>>
      /\ pc = "idle" /\ pc' = first
      /\ app'.mic = "open" /\ app'.aborted = app.aborted
      /\ Lost' = Lost
  BY <1>1, StartKeeps DEF QwenAudioInv
<1>3. app.mic = "idle"
  BY <1>2 DEF QwenAudioInv, Shared, Lifecycle
<1>4. Started
  BY <1>1, <1>3 DEF StartAt, Started
<1> QED
  BY <1>2, <1>3, <1>4
     DEF QwenAudioInv, OneFinal, AbortSeen, ListeningOver, QwenAudioSteps,
     QwenAudioLateSteps

LEMMA QwenAudioEnqueue ==
  ASSUME QwenAudioInv, QwenAudio!Enqueue
  PROVE  QwenAudioInv' /\ Enqueue
<1>1. Enqueue
  BY
     DEF QwenAudio!Enqueue, Enqueue, QwenAudio!Streaming, Streaming,
     QwenAudio!PendingAppend, PendingAppend
<1>2. /\ Shared'
      /\ UNCHANGED <<pc, net, work, finals>>
      /\ app'.mic = app.mic /\ app'.aborted = app.aborted
      /\ audio'.kept = audio.kept /\ audio'.chunk = audio.chunk
      /\ Lost => Lost'
  BY <1>1, EnqueueKeeps DEF QwenAudioInv
<1> QED
  BY <1>1, <1>2
     DEF QwenAudioInv, OneFinal, AbortSeen, ListeningOver, QwenAudioSteps,
     QwenAudioLateSteps

LEMMA QwenAudioStopInput ==
  ASSUME QwenAudioInv, QwenAudio!StopInput
  PROVE  QwenAudioInv' /\ StopInput
<1>1. StopInput
  BY DEF QwenAudio!StopInput, StopInput, QwenAudio!Streaming, Streaming
<1>2. /\ Shared'
      /\ UNCHANGED <<audio, pc, net, work, finals>>
      /\ app'.mic = "stopped" /\ app'.aborted = app.aborted
      /\ Lost' = Lost
  BY <1>1, StopInputKeeps DEF QwenAudioInv
<1> QED
  BY <1>1, <1>2
     DEF QwenAudioInv, OneFinal, AbortSeen, ListeningOver, QwenAudioSteps,
     QwenAudioLateSteps

LEMMA QwenAudioAbort ==
  ASSUME QwenAudioInv, QwenAudio!Abort
  PROVE  QwenAudioInv' /\ Cancelled
<1> DEFINE closed == [net EXCEPT !.link = QwenAudio!Aborted(net.link)]
<1>0. net \in QwenAudioNets
  BY DEF QwenAudioInv
<1>1. QwenAudio!Aborted(net.link) \in Links
  BY <1>0, QwenAudioLinks
<1>2. AbortWith(closed)
  BY <1>0 DEF QwenAudio!Abort, QwenAudio!AbortWith, AbortWith, QwenAudioNets
<1>3. /\ closed \in QwenAudioNets
      /\ closed.late = net.late
      /\ closed.replaying = net.replaying
      /\ closed.noSpeech = net.noSpeech
      /\ closed.drain = net.drain
      /\ closed.failed = net.failed
      /\ closed.drainFailed = net.drainFailed
  BY <1>0, <1>1 DEF QwenAudioNets
<1> HIDE DEF closed
<1>4. /\ Shared'
      /\ UNCHANGED <<audio, pc, work, finals>>
      /\ net' = closed
      /\ ~app.aborted /\ app.running /\ app.mic # "idle"
      /\ app'.aborted /\ app'.mic = app.mic
      /\ Lost' = Lost
  BY <1>2, AbortKeeps DEF QwenAudioInv
<1>5. Cancelled
  BY <1>2, <1>4 DEF AbortWith, Cancelled
<1> QED
  BY <1>3, <1>4, <1>5
     DEF QwenAudioInv, OneFinal, AbortSeen, ListeningOver, QwenAudioSteps,
     QwenAudioLateSteps

LEMMA QwenAudioDispatch ==
  ASSUME QwenAudioInv, QwenAudio!Dispatch
  PROVE  QwenAudioInv' /\ Posted
<1>1. Dispatch /\ finals = <<>>
  BY DEF QwenAudio!Dispatch, Dispatch, QwenAudioInv, OneFinal
<1>2. /\ Shared'
      /\ UNCHANGED <<app, audio, net, work>>
      /\ pc = "dispatch" /\ pc' = "stop"
      /\ Len(finals') = 1 /\ finals' # <<>> /\ app.running
      /\ \E final \in Finals :
           finals' = <<final>> /\ final.kind = work.verdict
  BY <1>1, DispatchKeeps DEF QwenAudioInv
<1>3. Lost' = Lost
  BY <1>2 DEF Lost
<1>4. Posted
  BY <1>1, <1>2 DEF Posted, QwenAudioInv, OneFinal
<1>5. OneFinal'
  BY <1>2 DEF OneFinal
<1> QED
  BY <1>2, <1>3, <1>4, <1>5
     DEF QwenAudioInv, AbortSeen, ListeningOver, QwenAudioSteps, QwenAudioLateSteps

LEMMA QwenAudioStopped ==
  ASSUME QwenAudioInv, QwenAudio!Stopped
  PROVE  QwenAudioInv' /\ Ended
<1>1. Stopped
  BY DEF QwenAudio!Stopped, Stopped
<1>2. /\ Shared'
      /\ UNCHANGED <<audio, net, work, finals>>
      /\ pc = "stop" /\ pc' = "ended"
      /\ app'.mic = app.mic /\ app'.aborted = app.aborted
      /\ Lost' = Lost
  BY <1>1, StoppedKeeps DEF QwenAudioInv
<1>3. Ended
  BY <1>1, <1>2 DEF Ended, QwenAudioInv, OneFinal
<1> QED
  BY <1>2, <1>3
     DEF QwenAudioInv, OneFinal, AbortSeen, ListeningOver, QwenAudioSteps,
     QwenAudioLateSteps

LEMMA QwenAudioWorker ==
  ASSUME QwenAudioInv, QwenAudio!Worker
  PROVE  QwenAudioInv' /\ Visible
  BY QwenAudioTry, QwenAudioConnect, QwenAudioConnectOk, QwenAudioConnectFailed,
     QwenAudioNotConnected, QwenAudioTakePending, QwenAudioFlushFullChunk,
     QwenAudioFlushed, QwenAudioLoopLeft, QwenAudioBranch, QwenAudioBuffer,
     QwenAudioUnconnected, QwenAudioSendRest, QwenAudioSendFinish,
     QwenAudioFinished, QwenAudioNotFinished, QwenAudioStopDrain,
     QwenAudioCancelled, QwenAudioDrainJoined, QwenAudioDecide, QwenAudioReplaySend,
     QwenAudioReplayWaited, QwenAudioReplayStopDrain, QwenAudioReplayJoined,
     QwenAudioReplayFailed
     DEF QwenAudio!Worker, Visible

LEMMA QwenAudioDrain ==
  ASSUME QwenAudioInv, QwenAudio!Drain
  PROVE  QwenAudioInv' /\ Visible
  BY QwenAudioDrainQuits, QwenAudioDrainTransport, QwenAudioDrainTaskFailed,
     QwenAudioDrainText, QwenAudioDrainTaskFinished, QwenAudioDrainNoSpeech
     DEF QwenAudio!Drain, Visible

LEMMA QwenAudioNext ==
  ASSUME QwenAudioInv, QwenAudio!Next
  PROVE  QwenAudioInv' /\ Visible
  BY QwenAudioStart, QwenAudioAbort, QwenAudioWorker, QwenAudioDrain, QwenAudioEnqueue,
     QwenAudioStopInput, QwenAudioDispatch, QwenAudioStopped
     DEF QwenAudio!Next, QwenAudio!BaseNext, Visible

LEMMA QwenAudioInit ==
  ASSUME QwenAudio!Init
  PROVE  QwenAudioInv
<1>1. <<>> \in Pcm /\ <<>> \in Seq(Finals) /\ <<>> \in Seq(Frames)
  BY DEF Pcm
<1>2. app \in AppStates /\ audio \in AudioStates /\ work \in WorkStates
  BY <1>1
     DEF QwenAudio!Init, QwenAudio!InitBase, QwenAudio!NoText, AppStates,
     AudioStates, WorkStates, Verdicts
<1>3. net \in QwenAudioNets
  BY <1>1
     DEF QwenAudio!Init, QwenAudio!InitBase, QwenAudio!InitNet, QwenAudio!NoText,
     QwenAudio!NoLink, QwenAudioNets, Links, Reasons
<1>4. Shared
  BY <1>1, <1>2
     DEF QwenAudio!Init, QwenAudio!InitBase, Shared, SharedType, Lifecycle, Lost
<1> QED
  BY <1>3, <1>4
     DEF QwenAudio!Init, QwenAudio!InitBase, QwenAudio!InitNet, QwenAudio!NoText,
     QwenAudio!NoLink, QwenAudioInv, OneFinal, AbortSeen, ListeningOver,
     QwenAudioSteps, QwenAudioLateSteps

---------------------------------------------------------------------------
\* Doubao: the application's own steps.
LEMMA DoubaoStart ==
  ASSUME DoubaoInv, Doubao!Start
  PROVE  DoubaoInv' /\ Started
<1>1. PICK first \in {"try"} : StartAt(first)
  BY DEF Doubao!Start, Doubao!StartAt, StartAt
<1>2. /\ Shared'
      /\ UNCHANGED <<audio, net, work, finals>>
      /\ pc = "idle" /\ pc' = first
      /\ app'.mic = "open" /\ app'.aborted = app.aborted
      /\ Lost' = Lost
  BY <1>1, StartKeeps DEF DoubaoInv
<1>3. app.mic = "idle"
  BY <1>2 DEF DoubaoInv, Shared, Lifecycle
<1>4. Started
  BY <1>1, <1>3 DEF StartAt, Started
<1> QED
  BY <1>2, <1>3, <1>4
     DEF DoubaoInv, OneFinal, AbortSeen, ListeningOver, DoubaoSteps,
     DoubaoLateSteps, DoubaoFirstSteps

LEMMA DoubaoEnqueue ==
  ASSUME DoubaoInv, Doubao!Enqueue
  PROVE  DoubaoInv' /\ Enqueue
<1>1. Enqueue
  BY
     DEF Doubao!Enqueue, Enqueue, Doubao!Streaming, Streaming, Doubao!PendingAppend,
     PendingAppend
<1>2. /\ Shared'
      /\ UNCHANGED <<pc, net, work, finals>>
      /\ app'.mic = app.mic /\ app'.aborted = app.aborted
      /\ audio'.kept = audio.kept /\ audio'.chunk = audio.chunk
      /\ Lost => Lost'
  BY <1>1, EnqueueKeeps DEF DoubaoInv
<1> QED
  BY <1>1, <1>2
     DEF DoubaoInv, OneFinal, AbortSeen, ListeningOver, DoubaoSteps,
     DoubaoLateSteps, DoubaoFirstSteps

LEMMA DoubaoStopInput ==
  ASSUME DoubaoInv, Doubao!StopInput
  PROVE  DoubaoInv' /\ StopInput
<1>1. StopInput
  BY DEF Doubao!StopInput, StopInput, Doubao!Streaming, Streaming
<1>2. /\ Shared'
      /\ UNCHANGED <<audio, pc, net, work, finals>>
      /\ app'.mic = "stopped" /\ app'.aborted = app.aborted
      /\ Lost' = Lost
  BY <1>1, StopInputKeeps DEF DoubaoInv
<1> QED
  BY <1>1, <1>2
     DEF DoubaoInv, OneFinal, AbortSeen, ListeningOver, DoubaoSteps,
     DoubaoLateSteps, DoubaoFirstSteps

LEMMA DoubaoAbort ==
  ASSUME DoubaoInv, Doubao!Abort
  PROVE  DoubaoInv' /\ Cancelled
<1>0. net \in DoubaoNets
  BY DEF DoubaoInv
<1>1. net.link \in Links /\ Doubao!Aborted(net.link) \in Links
  BY <1>0, DoubaoLinks
<1>2. PICK link \in Links : AbortWith([net EXCEPT !.link = link])
  BY <1>1 DEF Doubao!Abort, Doubao!AbortWith, AbortWith
<1>3. /\ [net EXCEPT !.link = link] \in DoubaoNets
      /\ [net EXCEPT !.link = link].late = net.late
      /\ [net EXCEPT !.link = link].input = net.input
      /\ [net EXCEPT !.link = link].replaying = net.replaying
      /\ [net EXCEPT !.link = link].failed = net.failed
      /\ [net EXCEPT !.link = link].drainFailed = net.drainFailed
  BY <1>0, <1>2 DEF DoubaoNets
<1>4. /\ Shared'
      /\ UNCHANGED <<audio, pc, work, finals>>
      /\ net' = [net EXCEPT !.link = link]
      /\ ~app.aborted /\ app.running /\ app.mic # "idle"
      /\ app'.aborted /\ app'.mic = app.mic
      /\ Lost' = Lost
  BY <1>2, AbortKeeps DEF DoubaoInv
<1>5. Cancelled
  BY <1>2, <1>4 DEF AbortWith, Cancelled
<1> QED
  BY <1>3, <1>4, <1>5
     DEF DoubaoInv, OneFinal, AbortSeen, ListeningOver, DoubaoSteps,
     DoubaoLateSteps, DoubaoFirstSteps

LEMMA DoubaoDispatch ==
  ASSUME DoubaoInv, Doubao!Dispatch
  PROVE  DoubaoInv' /\ Posted
<1>1. Dispatch /\ finals = <<>>
  BY DEF Doubao!Dispatch, Dispatch, DoubaoInv, OneFinal
<1>2. /\ Shared'
      /\ UNCHANGED <<app, audio, net, work>>
      /\ pc = "dispatch" /\ pc' = "stop"
      /\ Len(finals') = 1 /\ finals' # <<>> /\ app.running
      /\ \E final \in Finals :
           finals' = <<final>> /\ final.kind = work.verdict
  BY <1>1, DispatchKeeps DEF DoubaoInv
<1>3. Lost' = Lost
  BY <1>2 DEF Lost
<1>4. Posted
  BY <1>1, <1>2 DEF Posted, DoubaoInv, OneFinal
<1>5. OneFinal'
  BY <1>2 DEF OneFinal
<1> QED
  BY <1>2, <1>3, <1>4, <1>5
     DEF DoubaoInv, AbortSeen, ListeningOver, DoubaoSteps, DoubaoLateSteps,
     DoubaoFirstSteps

LEMMA DoubaoStopped ==
  ASSUME DoubaoInv, Doubao!Stopped
  PROVE  DoubaoInv' /\ Ended
<1>1. Stopped
  BY DEF Doubao!Stopped, Stopped
<1>2. /\ Shared'
      /\ UNCHANGED <<audio, net, work, finals>>
      /\ pc = "stop" /\ pc' = "ended"
      /\ app'.mic = app.mic /\ app'.aborted = app.aborted
      /\ Lost' = Lost
  BY <1>1, StoppedKeeps DEF DoubaoInv
<1>3. Ended
  BY <1>1, <1>2 DEF Ended, DoubaoInv, OneFinal
<1> QED
  BY <1>2, <1>3
     DEF DoubaoInv, OneFinal, AbortSeen, ListeningOver, DoubaoSteps,
     DoubaoLateSteps, DoubaoFirstSteps

LEMMA DoubaoWorker ==
  ASSUME DoubaoInv, Doubao!Worker
  PROVE  DoubaoInv' /\ Visible
  BY DoubaoTry, DoubaoConnect, DoubaoConnectOk, DoubaoConnectFailed,
     DoubaoNotConnected, DoubaoWaitForRecordingStop, DoubaoTakePending,
     DoubaoSampleInput, DoubaoFlushFullFrame, DoubaoFlushed, DoubaoLoopLeft,
     DoubaoBuffer, DoubaoTakeRest, DoubaoSendRest, DoubaoSendLast,
     DoubaoAnnounceFinish, DoubaoSendFinish, DoubaoAwaitFinal, DoubaoFinalFailed,
     DoubaoStopDrain, DoubaoDrainJoined, DoubaoReplaySend, DoubaoReplayFailed,
     DoubaoReplayFinished, DoubaoReplayGivenUp, DoubaoDecide
     DEF Doubao!Worker, Visible

LEMMA DoubaoDrain ==
  ASSUME DoubaoInv, Doubao!Drain
  PROVE  DoubaoInv' /\ Visible
  BY DoubaoDrainQuits, DoubaoDrainFails, DoubaoDrainText, DoubaoDrainFinished
     DEF Doubao!Drain, Visible

LEMMA DoubaoNext ==
  ASSUME DoubaoInv, Doubao!Next
  PROVE  DoubaoInv' /\ Visible
  BY DoubaoStart, DoubaoAbort, DoubaoWorker, DoubaoDrain, DoubaoEnqueue,
     DoubaoStopInput, DoubaoDispatch, DoubaoStopped
     DEF Doubao!Next, Doubao!BaseNext, Visible

LEMMA DoubaoInit ==
  ASSUME Doubao!Init
  PROVE  DoubaoInv
<1>1. <<>> \in Pcm /\ <<>> \in Seq(Finals) /\ <<>> \in Seq(Frames)
  BY DEF Pcm
<1>2. app \in AppStates /\ audio \in AudioStates /\ work \in WorkStates
  BY <1>1
     DEF Doubao!Init, Doubao!InitBase, Doubao!NoText, AppStates, AudioStates,
     WorkStates, Verdicts
<1>3. net \in DoubaoNets
  BY <1>1
     DEF Doubao!Init, Doubao!InitBase, Doubao!InitNet, Doubao!NoText, Doubao!NoLink,
     DoubaoNets, Links
<1>4. Shared
  BY <1>1, <1>2 DEF Doubao!Init, Doubao!InitBase, Shared, SharedType, Lifecycle, Lost
<1> QED
  BY <1>3, <1>4
     DEF Doubao!Init, Doubao!InitBase, Doubao!InitNet, Doubao!NoText, Doubao!NoLink,
     DoubaoInv, OneFinal, AbortSeen, ListeningOver, DoubaoSteps, DoubaoLateSteps,
     DoubaoFirstSteps

---------------------------------------------------------------------------
\* QwenFree: the application's own steps.
LEMMA QwenFreeStart ==
  ASSUME QwenFreeInv, QwenFree!Start
  PROVE  QwenFreeInv' /\ Started
<1>1. PICK first \in {"prepare"} : StartAt(first)
  BY DEF QwenFree!Start, QwenFree!StartAt, StartAt
<1>2. /\ Shared'
      /\ UNCHANGED <<audio, net, work, finals>>
      /\ pc = "idle" /\ pc' = first
      /\ app'.mic = "open" /\ app'.aborted = app.aborted
      /\ Lost' = Lost
  BY <1>1, StartKeeps DEF QwenFreeInv
<1>3. app.mic = "idle"
  BY <1>2 DEF QwenFreeInv, Shared, Lifecycle
<1>4. Started
  BY <1>1, <1>3 DEF StartAt, Started
<1> QED
  BY <1>2, <1>3, <1>4
     DEF QwenFreeInv, QwenFreeOneFinal, ChunkFits, AbortSeen, QwenFreeSteps,
     QwenFreeLateSteps

LEMMA QwenFreeEnqueue ==
  ASSUME QwenFreeInv, QwenFree!Enqueue
  PROVE  QwenFreeInv' /\ Enqueue
<1>1. Enqueue
  BY
     DEF QwenFree!Enqueue, Enqueue, QwenFree!Streaming, Streaming,
     QwenFree!PendingAppend, PendingAppend
<1>2. /\ Shared'
      /\ UNCHANGED <<pc, net, work, finals>>
      /\ app'.mic = app.mic /\ app'.aborted = app.aborted
      /\ audio'.kept = audio.kept /\ audio'.chunk = audio.chunk
      /\ Lost => Lost'
  BY <1>1, EnqueueKeeps DEF QwenFreeInv
<1> QED
  BY <1>1, <1>2
     DEF QwenFreeInv, QwenFreeOneFinal, ChunkFits, AbortSeen, QwenFreeSteps,
     QwenFreeLateSteps

LEMMA QwenFreeStopInput ==
  ASSUME QwenFreeInv, QwenFree!StopInput
  PROVE  QwenFreeInv' /\ StopInput
<1>1. StopInput
  BY DEF QwenFree!StopInput, StopInput, QwenFree!Streaming, Streaming
<1>2. /\ Shared'
      /\ UNCHANGED <<audio, pc, net, work, finals>>
      /\ app'.mic = "stopped" /\ app'.aborted = app.aborted
      /\ Lost' = Lost
  BY <1>1, StopInputKeeps DEF QwenFreeInv
<1> QED
  BY <1>1, <1>2
     DEF QwenFreeInv, QwenFreeOneFinal, ChunkFits, AbortSeen, QwenFreeSteps,
     QwenFreeLateSteps

LEMMA QwenFreeAbort ==
  ASSUME QwenFreeInv, QwenFree!Abort
  PROVE  QwenFreeInv' /\ Cancelled
<1> DEFINE closed == [net EXCEPT !.link = QwenFree!Aborted(net.link), !.recvStop = TRUE]
<1>0. net \in QwenFreeNets
  BY DEF QwenFreeInv
<1>1. QwenFree!Aborted(net.link) \in Links
  BY <1>0, QwenFreeLinks
<1>2. AbortWith(closed)
  BY <1>0 DEF QwenFree!Abort, QwenFree!AbortWith, AbortWith, QwenFreeNets
<1>3. /\ closed \in QwenFreeNets
      /\ closed.late = net.late
      /\ closed.replaying = net.replaying
      /\ closed.emitted = net.emitted
      /\ closed.back = net.back
  BY <1>0, <1>1 DEF QwenFreeNets
<1> HIDE DEF closed
<1>4. /\ Shared'
      /\ UNCHANGED <<audio, pc, work, finals>>
      /\ net' = closed
      /\ ~app.aborted /\ app.running /\ app.mic # "idle"
      /\ app'.aborted /\ app'.mic = app.mic
      /\ Lost' = Lost
  BY <1>2, AbortKeeps DEF QwenFreeInv
<1>5. Cancelled
  BY <1>2, <1>4 DEF AbortWith, Cancelled
<1> QED
  BY <1>3, <1>4, <1>5
     DEF QwenFreeInv, QwenFreeOneFinal, ChunkFits, AbortSeen, QwenFreeSteps,
     QwenFreeLateSteps

LEMMA QwenFreeStopped ==
  ASSUME QwenFreeInv, QwenFree!Stopped
  PROVE  QwenFreeInv' /\ Ended
<1>1. Stopped
  BY DEF QwenFree!Stopped, Stopped
<1>2. /\ Shared'
      /\ UNCHANGED <<audio, net, work, finals>>
      /\ pc = "stop" /\ pc' = "ended"
      /\ app'.mic = app.mic /\ app'.aborted = app.aborted
      /\ Lost' = Lost
  BY <1>1, StoppedKeeps DEF QwenFreeInv
<1>3. Ended
  BY <1>1, <1>2 DEF Ended, QwenFreeInv, QwenFreeOneFinal
<1> QED
  BY <1>2, <1>3
     DEF QwenFreeInv, QwenFreeOneFinal, ChunkFits, AbortSeen, QwenFreeSteps,
     QwenFreeLateSteps

LEMMA QwenFreePosted ==
  ASSUME QwenFreeInv, QwenFree!PostFinal
  PROVE  QwenFreeInv' /\ Posted
<1> DEFINE final == [kind |-> work.verdict, text |-> work.text]
<1>1. /\ QwenFreeInv' /\ UNCHANGED app
      /\ pc = "post" /\ finals = <<>> /\ finals' = <<final>>
      /\ work.verdict = "text" => app.mic = "stopped"
  BY QwenFreePostFinal
<1>2. final \in Finals /\ app.running
  BY <1>1 DEF QwenFreeInv, Shared, SharedType, Lifecycle, WorkStates, Finals
<1> QED
  BY <1>1, <1>2 DEF Posted

LEMMA QwenFreeWorker ==
  ASSUME QwenFreeInv, QwenFree!Worker
  PROVE  QwenFreeInv' /\ Visible
<1>1. CASE QwenFree!PostFinal
  BY <1>1, QwenFreePosted DEF Visible
<1>2. CASE ~QwenFree!PostFinal
  BY <1>2, QwenFreePrepare, QwenFreeTry, QwenFreeResetCancellation, QwenFreeOpen,
     QwenFreeConnectOk, QwenFreeConnectFailed, QwenFreeNotConnected,
     QwenFreeWaitForRecordingStop, QwenFreeTakePartial, QwenFreeTakeFinal,
     QwenFreeTakeFailure, QwenFreeNoMoreFrames, QwenFreeLoop, QwenFreeDrainPcm,
     QwenFreeSendChunk, QwenFreeDrained, QwenFreeSendStop, QwenFreeFinalTimedOut,
     QwenFreeHandleTerminalOutcome, QwenFreeRecover, QwenFreeBuffer, QwenFreeDecide,
     QwenFreeReplayReceiverJoined, QwenFreeReplayNotConnected, QwenFreeReplaySend,
     QwenFreeReplayTimedOut, QwenFreeReplayOver, QwenFreePostProcess,
     QwenFreeEmitFinal, QwenFreeStopReceiver, QwenFreeReceiverJoined
     DEF QwenFree!Worker, Visible
<1> QED
  BY <1>1, <1>2

LEMMA QwenFreeDrain ==
  ASSUME QwenFreeInv, QwenFree!Drain
  PROVE  QwenFreeInv' /\ Visible
  BY QwenFreeReceiverQuits, QwenFreeReceiveText, QwenFreeReceiveFailure
     DEF QwenFree!Drain, Visible

LEMMA QwenFreeNext ==
  ASSUME QwenFreeInv, QwenFree!Next
  PROVE  QwenFreeInv' /\ Visible
<1>1. ~QwenFree!Dispatch
  BY DEF QwenFreeInv, QwenFreeSteps, QwenFreeLateSteps, QwenFree!Dispatch
<1> QED
  BY <1>1, QwenFreeStart, QwenFreeAbort, QwenFreeWorker, QwenFreeDrain, QwenFreeEnqueue,
     QwenFreeStopInput, QwenFreeStopped
     DEF QwenFree!Next, QwenFree!BaseNext, Visible

LEMMA QwenFreeInit ==
  ASSUME QwenFree!Init
  PROVE  QwenFreeInv
<1>1. <<>> \in Pcm /\ <<>> \in Seq(Finals) /\ <<>> \in Seq(Frames)
  BY DEF Pcm
<1>2. app \in AppStates /\ audio \in AudioStates /\ work \in WorkStates
  BY <1>1
     DEF QwenFree!Init, QwenFree!InitBase, QwenFree!NoText, AppStates, AudioStates,
     WorkStates, Verdicts
<1>3. net \in QwenFreeNets
  BY <1>1
     DEF QwenFree!Init, QwenFree!InitBase, QwenFree!InitNet, QwenFree!NoText,
     QwenFree!NoLink, QwenFreeNets, Links
<1>4. Shared
  BY <1>1, <1>2 DEF QwenFree!Init, QwenFree!InitBase, Shared, SharedType, Lifecycle, Lost
<1> QED
  BY <1>3, <1>4, EmptyFits
     DEF QwenFree!Init, QwenFree!InitBase, QwenFree!InitNet, QwenFree!NoText,
     QwenFree!NoLink, QwenFreeInv, QwenFreeOneFinal, ChunkFits, AbortSeen,
     QwenFreeSteps, QwenFreeLateSteps

---------------------------------------------------------------------------
(***************************************************************************)
(* All providers.                                                          *)
(***************************************************************************)

\* Whose session it is says which invariant holds of it.
LEMMA WhichProvider ==
  ASSUME Inv
  PROVE  /\ Provider("volc") => VolcInv
         /\ Provider("qwen") => QwenInv
         /\ Provider("qwenAudio") => QwenAudioInv
         /\ Provider("doubao") => DoubaoInv
         /\ Provider("qwenFree") => QwenFreeInv
<1>1. VolcInv => net.provider = "volc"
  BY DEF VolcInv, VolcNets
<1>2. QwenInv => net.provider = "qwen"
  BY DEF QwenInv, QwenNets
<1>3. QwenAudioInv => net.provider = "qwenAudio"
  BY DEF QwenAudioInv, QwenAudioNets
<1>4. DoubaoInv => net.provider = "doubao"
  BY DEF DoubaoInv, DoubaoNets
<1>5. QwenFreeInv => net.provider = "qwenFree"
  BY DEF QwenFreeInv, QwenFreeNets
<1> QED
  BY <1>1, <1>2, <1>3, <1>4, <1>5 DEF Inv, Provider

LEMMA InitInv ==
  ASSUME Init
  PROVE  Inv
  BY VolcInit, QwenInit, QwenAudioInit, DoubaoInit, QwenFreeInit DEF Init, Inv

LEMMA NextInv ==
  ASSUME Inv, Next
  PROVE  Inv' /\ Visible
<1>1. CASE Provider("volc") /\ Volcengine!Next
  BY <1>1, WhichProvider, VolcNext DEF Inv
<1>2. CASE Provider("qwen") /\ Qwen!Next
  BY <1>2, WhichProvider, QwenNext DEF Inv
<1>3. CASE Provider("qwenAudio") /\ QwenAudio!Next
  BY <1>3, WhichProvider, QwenAudioNext DEF Inv
<1>4. CASE Provider("doubao") /\ Doubao!Next
  BY <1>4, WhichProvider, DoubaoNext DEF Inv
<1>5. CASE Provider("qwenFree") /\ QwenFree!Next
  BY <1>5, WhichProvider, QwenFreeNext DEF Inv
<1> QED
  BY <1>1, <1>2, <1>3, <1>4, <1>5 DEF Next

LEMMA StutterInv ==
  ASSUME Inv, UNCHANGED vars
  PROVE  Inv'
<1>1. CASE VolcInv
  BY <1>1 DEF Inv, vars, VolcInv, Shared, SharedType, Lifecycle, OneFinal, ChunkFits,
     ListeningOver, Lost
<1>2. CASE QwenInv
  BY <1>2 DEF Inv, vars, QwenInv, Shared, SharedType, Lifecycle, OneFinal, AbortSeen,
     ListeningOver, Lost
<1>3. CASE QwenAudioInv
  BY <1>3 DEF Inv, vars, QwenAudioInv, Shared, SharedType, Lifecycle, OneFinal,
     AbortSeen, ListeningOver, Lost
<1>4. CASE DoubaoInv
  BY <1>4 DEF Inv, vars, DoubaoInv, Shared, SharedType, Lifecycle, OneFinal, AbortSeen,
     ListeningOver, Lost
<1>5. CASE QwenFreeInv
  BY <1>5 DEF Inv, vars, QwenFreeInv, Shared, SharedType, Lifecycle, QwenFreeOneFinal,
     AbortSeen, ChunkFits, Lost
<1> QED
  BY <1>1, <1>2, <1>3, <1>4, <1>5 DEF Inv

\* Whichever provider runs: the records keep their types and the threads their
\* discipline, in every reachable state (SessionBase and the five session files).
THEOREM Invariance == Spec => []Inv
<1>1. Init => Inv
  BY InitInv
<1>2. Inv /\ [Next]_vars => Inv'
  BY NextInv, StutterInv
<1> QED
  BY <1>1, <1>2, PTL DEF Spec

\* With Qwen, Qwen Audio, Doubao and Qwen Free an Abort() that comes between two
\* checks of the flag lets at most one more connection open: AbortBoundsConnects,
\* for every size of the buffers.  It says nothing of Volcengine.
THEOREM AbortBoundsEveryConnect == Spec => []AbortBoundsConnects
<1>1. Inv => AbortBoundsConnects
  BY DEF Inv, AbortBoundsConnects, Provider, VolcInv, VolcNets, QwenInv, QwenAudioInv,
     DoubaoInv, QwenFreeInv, AbortSeen
<1> QED
  BY <1>1, Invariance, PTL

---------------------------------------------------------------------------
(***************************************************************************)
(* The sessions implement IStreamingAsrSession.                            *)
(***************************************************************************)

LEMMA InvIsShared ==
  ASSUME Inv
  PROVE  /\ app \in AppStates /\ finals \in Seq(Finals) /\ Len(finals) <= 1
         /\ Len(app.taken) \in Nat
  BY PcmTypes DEF Inv, VolcInv, QwenInv, QwenAudioInv, DoubaoInv, QwenFreeInv, OneFinal,
     QwenFreeOneFinal, Shared, SharedType, AppStates

LEMMA InterfaceInit ==
  ASSUME Init
  PROVE  Interface!Init
<1>1. /\ app.mic = "idle" /\ app.aborted = FALSE /\ app.captured = 0
      /\ app.taken = <<>> /\ finals = <<>>
  BY DEF Init, Volcengine!Init, Volcengine!InitBase, Qwen!Init, Qwen!InitBase,
     QwenAudio!Init, QwenAudio!InitBase, Doubao!Init, Doubao!InitBase,
     QwenFree!Init, QwenFree!InitBase
<1> QED
  BY <1>1 DEF Interface!Init

LEMMA InterfaceStep ==
  ASSUME Inv, Inv', Visible
  PROVE  Interface!Next \/ UNCHANGED Interface!vars
<1>0. /\ app \in AppStates /\ app' \in AppStates /\ Len(finals) <= 1
      /\ Len(app.taken) \in Nat /\ Len(app'.taken) \in Nat
  <2>1. app' \in AppStates
    BY DEF Inv, VolcInv, QwenInv, QwenAudioInv, DoubaoInv, QwenFreeInv, Shared,
       SharedType, AppStates
  <2>2. Len(app'.taken) \in Nat
    BY <2>1, PcmTypes DEF AppStates
  <2> QED
    BY <2>1, <2>2, InvIsShared
<1>1. CASE UNCHANGED <<app, finals>>
  BY <1>1 DEF Interface!vars
<1>2. CASE Started
  <2>1. /\ app.mic = "idle" /\ app'.mic = "open" /\ app'.running
        /\ app'.aborted = app.aborted /\ app'.captured = app.captured
        /\ app'.taken = app.taken /\ finals' = finals
    BY <1>0, <1>2 DEF Started, AppStates
  <2> QED
    BY <2>1 DEF Interface!Next, Interface!Start
<1>3. CASE Enqueue
  <2>1. /\ app.mic = "open" /\ ~app.aborted /\ finals' = finals
        /\ app'.mic = app.mic /\ app'.running = app.running
        /\ app'.aborted = app.aborted
    BY <1>0, <1>3 DEF Enqueue, Streaming, AppStates
  <2>2. app.captured > Len(app.taken) => app'.captured > Len(app'.taken)
    BY <1>3, EnqueueKeeps DEF Lost, Inv, VolcInv, QwenInv, QwenAudioInv, DoubaoInv,
       QwenFreeInv
  <2>3. CASE app'.captured > Len(app'.taken)
    BY <2>1, <2>3 DEF Interface!Next, Interface!Overrun
  <2>4. CASE ~(app'.captured > Len(app'.taken))
    BY <2>1, <2>2, <2>4 DEF Interface!vars
  <2> QED
    BY <2>3, <2>4
<1>4. CASE StopInput
  <2>1. /\ app.mic = "open" /\ ~app.aborted /\ finals' = finals
        /\ app'.mic = "stopped" /\ app'.running = app.running
        /\ app'.aborted = app.aborted /\ app'.captured = app.captured
        /\ app'.taken = app.taken
    BY <1>0, <1>4 DEF StopInput, Streaming, AppStates
  <2> QED
    BY <2>1 DEF Interface!Next, Interface!StopInput, Interface!vars
<1>5. CASE Cancelled
  <2>1. /\ app.mic # "idle" /\ app.running /\ finals' = finals
        /\ app'.mic = app.mic /\ app'.running = app.running
        /\ app'.aborted = TRUE /\ app'.captured = app.captured
        /\ app'.taken = app.taken
    BY <1>0, <1>5 DEF Cancelled, AppStates
  <2> QED
    BY <2>1 DEF Interface!Next, Interface!Abort
<1>6. CASE Posted
  <2>1. PICK final \in Finals :
          /\ app' = app /\ app.running /\ finals = <<>> /\ finals' = <<final>>
          /\ final.kind = "text" => app.mic = "stopped" \/ Lost
    BY <1>6 DEF Posted
  <2>2. app.mic # "idle"
    BY <2>1 DEF Inv, VolcInv, QwenInv, QwenAudioInv, DoubaoInv, QwenFreeInv, Shared,
       Lifecycle
  <2>3. app.mic \in {"open", "stopped"}
    BY <1>0, <2>2 DEF AppStates
  <2>4. finals' # <<>> /\ Len(finals') = 1 /\ finals'[1] = final
    BY <2>1
  <2> QED
    BY <2>1, <2>3, <2>4 DEF Interface!Next, Interface!Deliver, Lost
<1>7. CASE Ended
  <2>1. /\ app.running /\ app.mic # "idle"
    BY <1>7 DEF Ended, Stopped, Inv, VolcInv, QwenInv, QwenAudioInv, DoubaoInv,
       QwenFreeInv, Shared, Lifecycle
  <2>2. /\ app'.mic = app.mic /\ ~app'.running /\ finals' = finals
        /\ app'.aborted = app.aborted /\ app'.captured = app.captured
        /\ app'.taken = app.taken /\ (app.aborted \/ finals # <<>>)
    BY <1>0, <1>7 DEF Ended, Stopped, AppStates
  <2> QED
    BY <2>1, <2>2 DEF Interface!Next, Interface!End
<1> QED
  BY <1>1, <1>2, <1>3, <1>4, <1>5, <1>6, <1>7 DEF Visible

\* All five sessions keep what IStreamingAsrSession promises the application: one
\* final, a text only after StopInput() or a loss, no end without a final unless
\* Abort() was called.  StreamingSession is the specification they implement.
THEOREM SessionsImplementInterface == Spec => ImplementsSession
<1>1. Init => Interface!Init
  BY InterfaceInit
<1>2. Inv /\ Inv' /\ [Next]_vars => [Interface!Next]_Interface!vars
  <2>1. ASSUME Inv, Inv', Next
        PROVE  Interface!Next \/ UNCHANGED Interface!vars
    BY <2>1, NextInv, InterfaceStep
  <2>2. ASSUME UNCHANGED vars
        PROVE  UNCHANGED Interface!vars
    BY <2>2 DEF vars, Interface!vars
  <2> QED
    BY <2>1, <2>2
<1> QED
  BY <1>1, <1>2, Invariance, PTL DEF Spec, ImplementsSession, Interface!Spec
=============================================================================
