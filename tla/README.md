# VoxType: specifications and proofs

VoxType (`src/`) turns speech into text on Windows: hold a key, speak, release,
and the recognized text is pasted into the window that has the focus. These
TLA+ modules model the parts of it where threads, timers, messages and user
input meet; TLC checks them on small instances, and TLAPS proves the central
safety properties for every size.

## The system

| component | state it keeps | operations | interacts with |
|---|---|---|---|
| recognition attempt (`app/main.cpp`, `asr_dispatcher`, `asr_result`) | `g_activeAttempt`, `g_activeStreamingSession`, watchdog timer | begin, stop, provider final, fallback, dispatch, refine, paste | every other part, by window messages |
| recording control, hotkeys (`ui/hotkey.cpp`, `app/main.cpp`) | key state of the hook, `g_recording`, pending capture, stop delay, keep-alive and long-press timers | key down/up, pre-capture, start, stop, discard, reload | capture, attempt, settings |
| audio capture (`audio/engine.cpp`, `wasapi_capture.cpp`) | device, generation, `g_audioData`, suppression and failure flags | start, stop, close, packet arrives, device fails | capture thread to main thread, VAD, session |
| VAD and trimming (`audio/*vad*`) | segments, pre-roll, hangover | feed, finish, trim | capture, stop of a recording |
| audio diagnostics (`audio/audio_diagnostics.cpp`) | open attempts with stages and PCM, pending writers, files on disk | begin, append, complete stage, finalize, discard, save, retain, delete | all threads of an attempt, the program's exit |
| streaming sessions (Qwen, Qwen Audio, Volcengine, Doubao IME, Qwen Free) | pending PCM, replay, transport, terminal reason; Qwen Audio also an idle connection for the next session | start, push, finish, abort, retry | transport, attempt by callbacks |
| WebSocket transport (`winhttp_websocket_transport.cpp`) | handles, pending operations, close state | connect, send, receive, close, abort | WinHTTP callbacks |
| batch recognizers (`asr_session.cpp` and one file per service) | Baidu's access token | recognize with retries | detached threads of an attempt, diagnostics |
| LLM refinement | none across calls | one request with a timeout | detached threads of an attempt |
| input and selection context | a snapshot | capture by UI Automation | attempt, LLM |
| HUD (`ui/hud.cpp`) | text, hide timer | show, update, hide | attempt |
| settings, configuration, startup registration | INI files, registry value | edit, save, reload | recording control |

What is hard here: the main thread learns everything late and in queue order;
sessions, fallbacks and refinements of an attempt go on after a newer recording
has replaced it; providers may hang, answer early, or answer next to the
watchdog that gave up on them; connections fail in the middle of a recording and
are replayed from buffers that may have overflowed; an abort comes between any
two steps of a worker; the capture callback runs beside the thread that starts
and stops recordings; devices fail during a stop; files fail while they are
saved; and the keyboard hook, timers and settings interleave with all of it.
`PROJECT.json` lists each of these hazards at its line.

What makes each part correct:

- *attempt*: pasted at most once, in order, never before the microphone is
  released, never after a local verdict; every recording ends visibly.
- *recording control*: a released key stops its recording; no open microphone
  that nothing will close; a changed device is not reused.
- *capture*: each packet of the device that becomes a block reaches the recognizer
  once and in order, whatever is begun, stopped or resumed in between.
- *trimming*: speech that the VAD would confirm is never cut away.
- *diagnostics*: a recording is saved whole or not at all; retention keeps its
  bounds and nothing less; the exit waits for the writers.
- *sessions*: one final per session, none after Abort; the service hears each
  sample once and is told of the end only after the last; an end in any case.
- *transport*: no handle closed twice or lost, no message lost, no callback on a
  freed context, every call returns.
- *batch*: retries and fallbacks keep their records apart; no refused token is
  used again.

## Modules

| module | what it is |
|---|---|
| `AttemptDelivery` | the abstract promise to the user: begin, stop, deliver once or give up |
| `AsrAttempt` | the attempt of `main.cpp` with every thread that works for it |
| `MCAsrAttempt` | configurations of `AsrAttempt` for TLC |
| `AsrAttempt_proofs` | its theorems |
| `RecordingControl` | from the hotkey to the microphone: hook, commands, handlers and timers |
| `MCRecordingControl` | sets of hotkeys for TLC |
| `RecordingControl_proofs` | its theorems |
| `StreamingSession` | the abstract promise of `IStreamingAsrSession` |
| `SessionBase` | what the five sessions share: the interface, the two PCM buffers, the worker's end |
| `WebSocketLink` | the transport as a session sees it, with the service behind it |
| `VolcengineSession`, `QwenSession`, `QwenAudioSession`, `DoubaoSession`, `QwenFreeSession` | a provider each: worker and receiver thread |
| `RecognitionSessions` | a session of any of the five, and their properties |
| `WebSocketTransport` | `winhttp_websocket::Transport`, step by step |
| `ConnectionPool`, `MCConnectionPool` | the idle connections of Qwen Audio; symmetry for TLC |
| `FireRedVad`, `VadTrim` | the VAD's postprocessor and the trimming, as functions |
| `AudioCapture` | from the device to session, VAD and PCM |
| `AudioDiagnostics` | the diagnostic recordings in memory and on the disk |
| `BatchRecognition`, `MCBatchRecognition` | the recognition threads of the batch backends, over `AudioDiagnostics`; plans for TLC |
| `RecognitionSessions_proofs`, `WebSocketTransport_proofs`, `ConnectionPool_proofs`, `AudioCapture_proofs`, `BatchRecognition_proofs` | the theorems about the module each is named after |
| `SessionAudio_proofs` | the theorems of `RecognitionSessions` about what a service hears, on top of `RecognitionSessions_proofs` |

### AsrAttempt

The state follows the globals of `main.cpp`: `attempt` is `g_activeAttempt`
(with `deferred` and `pcm` for the final and the audio it holds), `session` the
attempt whose `g_activeStreamingSession` is installed, `queue` the message queue
of the main window, `jobs` the detached threads (`RecognizeAsync`,
`DispatchStreamingFallbackAsync`, `RefineWithLlmAsync`), `diagOpen` the attempts
open in `audio_diagnostics`, `watchdog` and `hideArmed` two timers, `hud` what
the user sees. `pasted` and `silenced` are history.

One action is one handler of the main window (`DispatchMessage` takes the head of
the queue), one timer, one user command, or one step of another thread up to the
next point where it reads shared state or posts. A worker that posts while a
handler runs is taken as posting just before it: handlers read nothing that such
a worker writes. The stop delay and the key that starts a recording are the
user's, so both are unconstrained; timers and keys may come before messages that
are already queued.

Data is what the control tells apart. A text is usable, already polished by its
provider, without speech, or an error (one error has a fallback of its own); a
configuration is its mode, whether fallback and refinement are on, and on which
side Qwen Free is. A selection rewrite suppresses the fallback: its behaviours
are those of a configuration without one. `HandleStreamingSessionStartFailure`
is left out, as `Start` of no shipped provider returns false.

Bounds: `MaxAttempts` recordings, `MaxNotices` partials and statuses. Two attempts
show every interference of an old attempt with the current one, since nothing
but the current attempt is stored and an id is only compared with it. The proofs
need neither bound.

### RecordingControl

The keyboard hook runs in the main thread, between two messages, and posts commands
to the main window. Its state is `activeKey`, `capsPending` and `longPress` (the
globals of `hotkey.cpp`); `hooked` is false while Settings is open. The handlers of
`main.cpp` have `recording`, `pendingOnly` (a capture begun before it is known
whether the press of Caps Lock is a tap or a long press), `stopDelay`, `held` and
`restoreCaps`, and `engine.cpp` has the device: `mic` is closed, capturing, or
suppressed (kept open for the next recording, its packets dropped), with
`keepAlive`, `fault` and `stale`. `queue` is the message queue; a failure message
becomes a `staleError` when its device is closed, which stands for the comparison
of generations. `cut` (Settings was opened in a press that records) and `outdated`
(the open device is older than the last reload) are history.

A key, a user command, a handler and a timer are one action each. Windows makes
WM_TIMER only for an empty queue, so timers need one; how long they take is left
out, except that nothing is due before it is armed. Opening a device may fail. Each
press, release, tap, save, reload and failure is the environment's choice, in any
order the keyboard and the hook allow. Not modelled: the matching of modifier keys
(a combination is one key), the HotkeyEdit control, Caps Lock as Windows itself
toggles it while Settings is open.

`MaxQueue` bounds what is posted; the main thread keeps its queue short. At 4 a
whole press with its stop fits behind the rest of another, which is what the
hazards need: a stop, the next press, its decision, and a reload or failure. The
proofs hold for every bound.

### The streaming sessions

`SessionBase` has the application's side of a session (`app`), the two buffers
(`audio`: `PendingPcmBuffer`, the chunk in hand and `CloudAsrReplayBuffer`), what
the worker found out (`work`) and the finals it handed out. Each provider adds a
record `net` of its own: its connection, its receiver thread and the flags the two
threads share. `pc` is where the worker is, and one action is what a thread does
between two reads of something another thread writes.

PCM is a sequence of numbered units and a transcript is the sequence of units it
stands for, so that a lost, doubled or reordered sample, or a text that lacks the
end of the recording, is visible. The service answers a prefix of what it heard, an
error, or nothing, and after the end message the whole; sends, receives and
handshakes may fail, time out or close the connection at any step, and Abort comes
at any step. Timeouts are choices: a wait that has a deadline may end at any time,
one that has none may not.

What is promised of the audio differs by provider. `HeardInOrder` speaks of every
first connection and of the replays of Qwen, Volcengine and Qwen Free; the replays of
Doubao and Qwen Audio may repeat or swap a chunk (doubao_streaming_session.cpp:666
after :596, qwen_audio_streaming_session.cpp:548, :579 and :609) and are not covered.
A replay is not always complete: Qwen and Doubao replay after the pending buffer has
overflowed, and the chunks that overflow refused are in neither buffer, and Qwen
Free loses a drained chunk when the service fails just then (see Exceptions).
`ReplayIsComplete` is about what Volcengine does promise (CHANGELOG.md:439): when an
empty recognition is repeated, its replay buffer has all that the session accepted.

Bounds: three units in chunks of two, one pending and two for the replay: the
tail of a chunk, an overflow of either buffer and a recording that fits all occur.
One session runs at a time; what sessions share is in `ConnectionPool`.

### WebSocketTransport

Each `Connect()` has an `impl` of its own with its handles: `held` are those in the
state, `open` those of WinHTTP not closed yet, and `took` those a closing thread
has taken out. The worker connects, sends, closes and destroys, the receiver
receives, the application aborts; WinHTTP completes, fails or delays what it
accepted. The look at the handle and the call that uses it are one step in
`BeginSend`, and the reads of `ReadResponseSnippet` are left out: they only word
an error message. Two connections, two messages and two calls of each kind show every
race of an operation with its successor.

### ConnectionPool

`idle`, `epoch` and `closing` are the manager's; `client` has the flags of each
`Client`, `session` the worker of each session with its raw pointer `active`. A
task is abstracted to begin, run and end; the peer may hang up unnoticed. Two
sessions, three names for clients and one change of the settings suffice for a
handover with an outdated epoch and for an abort on either side of it.
`IdleIsReusable` has two parts. `IdleIsCurrent` compares the epoch of a client's
creation, as `PrepareForReuse` does; it does not say that the client is of the current
account, which it may not be (see Exceptions). `AccountsMatch` says what matters then:
no session ever has a connection of another account than its own.

### FireRedVad, VadTrim and AudioCapture

The postprocessor and the trimming core are operators that follow the code frame
by frame and chunk by chunk; `AudioCapture` feeds them. A block is what the callback
makes of one packet, voiced or not, and one VAD frame. The capture thread of WASAPI
makes none of a packet flagged silent, of a format it cannot convert, or too short to
be resampled (`LeaveOut`): such packets are in no recording, and `CaptureIsComplete`
speaks of the others. The callback is three steps
(read the suppression flag, record under the locks, feed the VAD after them) and
the main thread's start and stop are split at every lock. Two captures of four
blocks in all show a resume with a packet still on its way, and speech with
silence around it; a saved setting or an older recording's thread interferes
once. Opening a device always succeeds here, and it does not fail later (both are in
`RecordingControl`).

`CaptureIsComplete` allows one block in front of a recording, that of the very packet
before it, because the code does (see Exceptions); nothing else is foreign.

`VadIsThere` has an exception for saved settings because the code has the defect:
`g_streamingVadReady` stays true after a trimmed cloud session, and after a save
has dropped the model the next capture in advance of a recording feeds a VAD that
is null (wasapi_capture.cpp:404).

### AudioDiagnostics and BatchRecognition

`attempts` is `g_attempts`; `FinalizeAttempt` is its three lock sections (take,
count, start), a writer gets `g_fileIoMutex` (`job`) and writes file by file,
temporary first; retention and the Delete button go group by group, a group's WAVs
before its manifest. `incidents` bounds ends of the process and failures of file
operations and thread starts. `torn` is history: a group in the hands of a crash or
of a deletion that failed stays incomplete (a manifest deleted in spite of a WAV
that was not leaves that WAV for ever, audio_diagnostics.cpp:589), and
`GroupsAreWhole` holds for all others. A thread that has taken its attempt but not
counted its writer when the exit stops waiting (:1290 to :1307) is missed:
`ExitWaitsForWriters` excepts it by name. An exception between the two locks of
`FinalizeAttempt` (:1316 to :1320) is left out.

`BatchRecognition` has the recognition thread of each recording: an action for the
start and for a request of each of the seven backends, with what its code does
on a missing key, silence, a refusal, a transient failure or an answer. Each
request reports to a stage of the diagnostics. `GetAccessToken` holds its mutex
over the request, so it is one step. Plans of two recordings each (the second may
supersede the first while its thread works) bring every backend, a fallback, the
mode that saves everything, and Test Connection beside a recording; one group, two
WAVs and the age of a day are the smallest limits that need every branch of
retention. Only the batch providers are fallbacks here (the streaming ones are in
`AsrAttempt`), and the number that keeps two names of one second apart is left out.

## Runs

| run | instance | what it shows |
|---|---|---|
| `attempt_mixed` | 2 attempts, 1 notice; streaming, Qwen Free and batch; fairness | no thread, session, diagnostics or verdict of an old or silenced attempt leaks; `AsrAttempt` implements `AttemptDelivery`; the HUD is hidden in the end |
| `attempt_bundled` | 1 attempt, batch with Qwen Free fallback | **violated**: the text is refined twice |
| `control_holds` | both hotkeys, 4 messages, fairness | no stop is lost and none cuts the next press; no microphone stays open or is taken away; no stale device; Caps Lock is left alone |
| `control_release` | Caps Lock | **violated**: Settings opens in a press, and its release does not stop the recording |
| `sessions_hold` | each provider, 3 units, fairness | the sessions implement `StreamingSession`; a first connection, and a replay of Qwen, Volcengine and Qwen Free, hears everything in order; a repeated recognition of Volcengine has the whole recording; an end in any case |
| `sessions_empty` | each provider, 1 unit | **violated**: Qwen Free hands out an older partial for an empty final |
| `transport_holds` | 2 connections, 2 messages, 2 calls, fairness | handles and messages are neither lost nor doubled; an abort is final; every call returns |
| `transport_context` | 1 connection | **violated**: the second close of an attempt frees the context of a callback that is still to come |
| `pool_holds` | 2 sessions, 3 clients | a client has one owner and an abort finds its own; the pool keeps nothing of an older epoch; no session uses another account's connection; tasks do not overlap |
| `capture_holds` | both devices, every mode, 2 captures, 4 packets | no block is lost, doubled or misplaced on its way; no speech is trimmed |
| `capture_nospeech` | waveIn, local recognizer | **violated**: speech is dropped as silence |
| `diagnostics_holds` | 2 recordings, 4 plans, 2 incidents | recordings are saved whole, kept within the limits, written before the exit; no two requests share a stage; tokens are the right ones |

Deadlock is checked in `pool_holds` only. Elsewhere the system may stop: after
`Shutdown` or `Quit`, after the one session has ended, or when a bound is used up
and everything is idle.

**Fairness** (`attempt_mixed`). The message loop dispatches what is queued, the
watchdog and hide timers fire, and each detached thread returns, as its network
calls have timeouts and its waits are bounded. The worker of a streaming session
is not assumed to do anything: it may hang for ever, and the watchdog must cope.
Nor is the user: a key may be held for ever.

**Fairness** (`control_holds`). The queue is empty time and again: messages are
handled at once, and a user types slower. Then a due stop delay or keep-alive timer
fires, unless another timer does first or a press posts again, so both need strong
fairness: a user who goes on tapping disables a timer again and again, but it is
due again whenever the queue is empty. No fairness is assumed of keys, of the
long-press timer, or of failures.

**Fairness** (`sessions_hold`). The worker takes its steps, and a receiver that was
told to leave does, since its receive has a timeout. What a service answers is a
step it need never take; neither need the user or the microphone.

**Fairness** (`transport_holds`). A thread in a call goes on when it can: its waits
have deadlines. No callback of WinHTTP is assumed to come.

**Findings.**

1. `attempt_bundled`: `RecognizeAsync` (main.cpp:633) does not say in its metadata
   that a Qwen Free fallback has already polished the text, as the streaming
   fallback does at main.cpp:1067; the text then goes to the LLM again, which the
   comment at asr_streaming_session.h:14 forbids.
2. `control_release`: `ShowSettingsWindow` uninstalls the hook, and
   `ResetCapsLockHotkeyState` (hotkey.cpp:161) forgets a long press without posting
   its stop. ARCHITECTURE.md:180 promises that the release stops the recording; it
   goes on until another press is released. `StopIsOnItsWay` shows that nothing else
   loses a stop.
3. `sessions_empty`: `ProcessReceivedFrames` (qwen_free_streaming_session.cpp:869)
   dispatches the last partial although the final that ended the recognition was
   empty; CHANGELOG.md:117 and the comment at :453 promise that it does not.
4. `transport_context`: the second `AbortAndClose` of an attempt
   (winhttp_websocket_transport.cpp:251) resets `selfKeepAlive` although the terminal
   callback of the first is still to come; the comment at :257 promises to keep the
   context for it.
5. `capture_nospeech`: `WaveInProc` (engine.cpp:901) never feeds the local VAD, so a
   waveIn recording is judged by what was captured before it began, and speech is
   dropped as "No speech detected".

**Exceptions.** Some exceptions that the properties name are the hazard's own case, so
that the hazard is not covered there; `PROJECT.json` says so in its note. In the first
three the code differs from what its own comments or changelog say, as the models show
too; no run of its own is kept for them.

- A replay of Qwen Free may lack a chunk: `DrainAndSendPcm`
  (qwen_free_streaming_session.cpp:620) returns on a failure it just received before
  the chunk it drained is in the replay buffer; CHANGELOG.md:130 promises a replay of
  the complete bounded recording. `ReplayIsComplete` speaks of Volcengine only.
- The idle connection may be of the old account: a session has its configuration from
  when it was built, its client the epoch from when it is created
  (qwen_audio_streaming_session.cpp:425). If the settings change in between, the
  connection gets into the idle pool with the new epoch, which the comment at
  qwen_audio_streaming.cpp:38 rules out. `IdleIsReusable` therefore does not say that it
  is of the saved account, but that no session of the new account is ever given it.
- A resumed recording may begin with a stale block: the second look at the suppression
  flag (wasapi_capture.cpp:363, engine.cpp:917) does not see a pause that has been
  resumed already, so a packet that passed the first look before the pause gets in; the
  comments at wasapi_capture.cpp:359 and engine.cpp:915 rule that out.
  `CaptureIsComplete` allows exactly this block.
- `VerdictStaysUnlessSilenced`: `kHudUpdateMessage` (main.cpp:2226) accepts statuses of
  a cancelled attempt, so one that was queued before the Abort replaces its verdict.
- `StopLeavesCapsLock` speaks of the end of a recording: when that has ended before its
  key is released, the release still arms `RestoreCapsLockState` (main.cpp:2492), and a
  tap within the stop delay is undone.

## Proofs

`AsrAttempt_proofs` proves, for all values of the constants that satisfy
`BoundsAssumption` and `ConfigsAssumption` (any number of attempts and notices,
any non-empty set of configurations):

- `TypeCorrect`: `TypeOK` always holds;
- `PastesInOrder`, `SilencedIsSilent`, `FallbackRunsAlone`, `NothingIsOrphaned`:
  the safety invariants of `attempt_mixed`; and `NothingClaimedBeforeStop`;
- `VerdictsStay`: its action property about the HUD;
- `AttemptsAreDelivered`: `AsrAttempt` implements `AttemptDelivery` under the mapping
  of `AD`.

None of the invariants is inductive alone. That an attempt is pasted at most once
depends on what may still paste it: a detached thread, or a queued message that
concludes it (a result that is not to be refined, or an LLM answer). The
inductive invariant `SafetyInv` counts these *claims*. The current attempt has at
most one, none before it is `Marked` (stopped, and handled if it ever had a
session), none once it is pasted; a silenced attempt has none; messages and
threads of older attempts may be anything, because `IsActiveAsrAttempt` rejects
them by their number. `SessionInv` ties workers and diagnostics to the current
attempt. `TypeInv` adds to `TypeOK` that no message or thread carries the number 0
that stands for "no attempt yet". TLC checked `SafetyInv` on the instance of
`attempt_mixed` before it was proved. Each action has a lemma; `SafetyNext` joins them.

The last two need to know when the HUD may still change, which `HudInv` adds: while
the microphone records, and as long as a session, a final to be handled, a thread or a
result of the current attempt exists, the HUD is not `Settled`. Once it is, the attempt
is `Over`: nothing of it is left that could reach the HUD, but for statuses of an
attempt that a local verdict silenced, and those only until the hide timer fires, which
waits for an empty queue. For that, a message that concludes an attempt must be the last
shown one of that attempt in the queue (`HudQueue`). An accepted result then always
finds the HUD on "recognizing", "fallback" or "refining", so its paste is `Deliver` of
the abstract specification; each action is a step of it or leaves `Phase`, the attempt's
number and `pasted` alone (`DeliveryStep`).

`RecordingControl_proofs` proves, for every set of hotkeys and every bound of the
queue, all the safety properties of `control_holds`, and types: `TypeCorrect`,
`MicrophoneAlwaysOwned`, `PressesAreDecided`, `NoStopIsLost`, `RepressContinues`,
and the action properties `NoOutdatedCapture` and `CapsLockKept`.

Here the induction needs the order of the queue. `Followed(q, A, B)` says that every
message of A has one of B behind it, and `QueueInv` says what the open press still
owes: each begin of a press is followed by its decision, each start by a stop, each
end by the next press while one is open, and each stop of Caps Lock by a begin if
Caps Lock has been toggled since. A handler then finds behind its message what
its property needs (`HeadNeeds`), and the lemmas `Post...` say what each command adds.
`MicInv` relates the device to its users, and `StopInv` contains the properties
themselves. Each action has a lemma again, and each handler one for the device.
Only `ReleaseEndsRecording` and `MicrophoneIsReleased`, which need fairness, are left
to TLC.

`ConnectionPool_proofs` proves, for any number of sessions, clients, identities and
changes of the settings, every invariant of `pool_holds`: `ClientHasOneOwner`,
`IdleStaysReusable` and `TasksNeverOverlap`. The inductive invariant `Inv` says where
every live client is (`PlaceInv`), at which steps a worker has one and when Abort may
see it (`HoldsInv`), and what the flags of its client are at each step (`TaskOK`): no
task runs before this worker begins one, and a finished task does not run, so what
`PrepareForReuse` lets into the pool is quiet. Most actions are instances of two
lemmas, `KeepsClient` and `LeavesClient`: a worker writes no client but its own, so
its step disturbs neither the pool nor another session. `AccountsMatch` follows on top
of it: a client keeps its identity while it lives (`IdentityStays`), and a session
keeps its own with the client, makes one of its account, or takes one of it from the
pool (`SessionKeepsAccount`). TLC checked `Inv` on the
instance of `pool_holds` first. The only assumption is `PoolAssumption`.

`RecognitionSessions_proofs` proves, for buffers, chunks, recordings and numbers of
connections of any size, that every provider implements `StreamingSession`
(`SessionsImplementInterface`), and that an Abort lets at most one more connection of
Qwen, Qwen Audio, Doubao or Qwen Free open (`AbortBoundsEveryConnect`; the
`OpenSession` of Volcengine is one step and is not covered). Each provider has an invariant of its own over the same
parts: the types, where its worker stands (`Lifecycle`), that a final is there only
at the steps behind `DispatchFinal` and then once (`OneFinal`), that a worker which has
seen the abort goes to its end without one (`AbortSeen`), what of the recording is
over when the last chunk has gone, and what the flags of its connection mean at each
step. The refinement maps `outcome` to the finals handed out; a step of any
provider is a step of the interface or changes nothing that it shows (`Visible`).

`SessionAudio_proofs` proves `HeardInOrder`, `EndedMeansAll` and `ReplayIsComplete`
(`SecondRecognitionHasAll`), each for the providers it speaks of, from the invariant
above and one more, `PcmInv`, which says at every step of every worker what is known of
the units of the recording. While all goes well, what the service has, the chunk in the
worker's hand and what is pending are consecutive pieces of what was taken
(`PieceOf`); a replay is a connection's own copy of it. After a failure the chunk may be
lost or kept, and only an order is left (`KeptInOrder`): what the replay buffer has
comes before what may still be kept. Each provider has its `...Pcm`, made of what its
connection has heard and of the place of its worker between two moves; the lemmas
`EnqueueOrder`, `SwapOrder`, `MoveOrder`, `FrontKept`, `FrontCut` and `KeepPendingOrder` say
once for all providers what taking, sending, keeping and dropping do to these pieces. A
connection that has been told the end has then heard everything, because
the worker says so only after it found the queue empty behind the stop.

`WebSocketTransport_proofs` proves the four safety properties of `transport_holds`
for any number of connections, messages and calls. `OwnerInv` says for every handle of
every attempt that it is in the state, in the hand of one closing thread, or closed,
and `CloserInv` that who has taken handles out has `closeMutex`: together they
are `HandlesHaveOneOwner`. `ImplInv` says what WinHTTP still has of an operation, which
is why a cancelled attempt never counts as connected again, and keeps the bytes of a
receive that timed out for the next one. `SendBufferStable` needs `SendInv`: a send
that is still pending is waited for, or its connection is closed or about to be, so
no later call reaches the buffer.

`AudioCapture_proofs` proves the five invariants of `capture_holds` for any number of
captures, blocks and frames and any configuration of the VAD. Its invariants build on
each other:

- `CaptureInv` (`CaptureIsComplete`). A block that the callback has in its hand while
  a recording is stopped and the next begun is what makes this hard: `GapFree` says
  that the blocks of a capture rise in number, that every packet from its first to the
  last one the callback has done with is among them or was left out, and that only the
  packet before the first may be there in addition.
- `VadInv` (`VadIsThere`) names everyone who will feed or flush the VAD without looking
  again (`NeedsVad`), among them a callback past its check and a worker between two
  chunks.
- `HearInv` (`SessionHearsCapture`) relates what an open session was given to what is
  captured. Its part `CoreInv` says what the trimmer has in its hands: the chunks let
  through are those `Kept` of the ones decided, and what it holds back are the last of
  these. `CoreStep` shows that a chunk preserves this.
- `FedInv` (`VadHearsRecording`) follows the blocks fed. Between the priming and the
  stop the VAD is behind the recording by the block in the callback's hands and by no
  other (`BehindInv`); a block that was there when the VAD was reset may be in front or
  in between (`PrimeInv`), and which blocks a callback may still have follows from
  their numbers (`PacketInv`). `OutcomeInv` keeps this for the recording that has ended.
- `SpeechInv` (`SpeechIsKept`). `PostInv` says of the postprocessor what any frames leave
  it in: which voiced frames its window has, that its segments are in order and
  disjoint (`OrderInv`), how long a voiced run it may still be unaware of in each of its
  four states (`RunInv`), and that it has every run long enough to be confirmed
  (`KeptInv`). That needs `SegmentInv`: a segment that opens late does so right
  behind another, and the frames before the end of that one are kept. `FrameStep`
  shows it of a frame, `ProcessStep` of any number of them however they are cut into
  chunks, and `SpeechSurvives` of what `GetConcatenatedSamples` cuts out.
  `JudgeInv` says that the shared VAD is in such a state while a recording goes by it;
  a flushed one is not, until it is reset.

`VadAssumption` takes the VAD's threshold for at most 1, which is what the settings
window accepts (settings.cpp:1762); above it no frame is speech. A value edited into
the settings file by hand is loaded as it is (engine.cpp:525).

`HearInv` speaks of a set's smallest element and of the concatenation of any number of
chunks. The induction is over sets (`SetInduction`): of the numbers for which a fact
fails one is the least, by the well-foundedness of the natural numbers, which the
library states without an operator parameter. `Flatten...` are the facts about
concatenation that follow.

`BatchRecognition_proofs` proves the five properties of `diagnostics_holds`, for any
finite set of recordings, any plans and limits, any number of retries, files, deletions
and incidents. The inductive invariant of four of them has four parts:

- `WorkInv`: a thread remembers the token it had refused, and a token the cache
  has is never one of those, since `GetAccessToken` issues a new one each time; a
  thread that works has an open attempt, and its stages are as many as its requests.
- `JobInv`: what a save or a deletion has still to do, by its files (`ToDo`).
- `WriterInv`: the counter of pending writers is the number of recordings counted and not
  yet written, plus the one being written. Here `Attempts` must be finite, which the
  module assumes: `g_attempts` is a map.
- `DiskInv`: which files a recording has at each step of a save (`SaveInv`), of a
  deletion (`VictimInv`), and otherwise all or none (`WholeIn`), but for a torn one.

The fifth, `RetentionHolds`, is an action property, and rests on `RetentionInv`:

- `StampInv`: the files on the disk are finitely many, and no two have the same time.
  A new one has a stamp of its own because a finite set of numbers has a largest one.
- `SweepInv`: while a sweep after a save has been able to delete what it had to, the
  groups it has not deleted are those on the disk (`Found`). The first pass has deleted
  only old ones; what the second has left is a tail of the young in the order of their
  manifests, and for each it has deleted the tail from there on was too many (`Swept`).
  The group it is about to delete is the oldest that is left (`Doomed`).

`SweptIsFitting` concludes that, when the second pass has nothing to delete any more,
what is left is the longest tail the limits allow. `TooMany` adds up the sizes with a
fold of the community modules; `BytesType` and `NoBytes` unfold it and show by
`SetInduction` that the sum is a natural number, and 0 of no group.

TLC checked every inductive invariant on the instance of the run before it was proved.

**With TLC only.** Liveness (`HudIsHiddenInTheEnd`, `ReleaseEndsRecording`,
`MicrophoneIsReleased`, `SessionEnds`, `CallsReturn`), which the prover does not
reach. Every other property of a passing run is a theorem. The findings are
counterexamples.

## What is left

- Composition: `AsrAttempt` keeps of a session what `StreamingSession` promises,
  and `RecognitionSessions` shows that every provider keeps it; the two are not run
  as one model.
- The recognizer of `AsrEngine`: `Recognize` (engine.cpp:1412) makes sure of its
  model in one lock section and uses it in later ones, and a saved setting may
  drop it in between.

## Not modelled

Network formats, signing and JSON, UI Automation, drawing, dialogs, INI files,
packaging, scripts and third-party libraries: no state shared between actors, or
pure input and output. `PROJECT.json` gives the reason for every component.
