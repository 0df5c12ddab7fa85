-------------------------- MODULE RecordingControl --------------------------
(***************************************************************************)
(* From the hotkey to the microphone: the keyboard hook of                 *)
(* src/ui/hotkey.cpp, the commands it posts to the main window, and the    *)
(* handlers and timers of src/app/main.cpp that start, hold, stop and      *)
(* discard a recording and open, keep and close the device                 *)
(* (src/audio/engine.cpp).                                                 *)
(*                                                                         *)
(* The hook runs in the main thread too, between two messages: a key or a  *)
(* user command is an action, and so is each handler.  Windows makes a     *)
(* WM_TIMER message only when no posted message waits, so timers need an   *)
(* empty queue.  Durations are not modelled: a timer that is armed may     *)
(* fire then.                                                              *)
(***************************************************************************)
EXTENDS Naturals, Sequences

CONSTANTS
  Hotkeys,    \* the hotkeys the user may configure
  MaxQueue    \* bound: nothing is posted to a queue of that length

\* Caps Lock tells a tap from a long press; any other key or combination
\* records while it is held.
ASSUME HotkeysAssumption == Hotkeys # {} /\ Hotkeys \subseteq {"capsLock", "other"}
ASSUME QueueAssumption == MaxQueue \in Nat

VARIABLES
  hotkey,        \* g_config.hotkey
  down,          \* whether the user holds that key
  hooked,        \* whether the hook is installed: not while Settings is open
  activeKey,     \* g_activeHotkeyKey # 0
  capsPending,   \* g_capsLockHotkeyPending; kCapsLockLongPressTimer is armed
  longPress,     \* g_capsLockLongPressActive
  caps,          \* whether Caps Lock is on
  wasOn,         \* g_capsLockWasOn
  cut,           \* history: Settings was opened in a press that records
  queue,         \* the messages posted to the main window
  recording,     \* g_recording
  pendingOnly,   \* g_capturePendingOnly
  stopDelay,     \* g_stopDelayPending; kRecordingStopDelayTimer is armed
  held,          \* g_stopDelayHeldForRepress
  restoreCaps,   \* g_stopDelayRestoreCapsLock
  mic,           \* the device; suppressed: open, its packets are dropped
  keepAlive,     \* whether kMicKeepAliveTimer is armed
  fault,         \* g_audioCaptureFailurePending
  stale,         \* g_captureConfigStale
  outdated,      \* history: the open device is older than the last reload
  alive          \* false once the main window is destroyed

hookVars == <<hotkey, down, hooked, activeKey, capsPending, longPress, wasOn,
              cut>>
stopVars == <<stopDelay, held, restoreCaps>>
micVars == <<mic, keepAlive, fault, stale, outdated>>

vars == <<hookVars, caps, queue, recording, pendingOnly, stopVars, micVars,
          alive>>

---------------------------------------------------------------------------
\* Data.

\* A failure message carries the generation of its device; it is stale once
\* that device was closed.
Commands ==
  {"captureBegin", "captureDiscard", "recordingStart", "recordingStop",
   "capsLockRecordingStop", "reload", "captureError", "staleError"}

Stops == {"recordingStop", "capsLockRecordingStop"}

HookTypes ==
  /\ hotkey \in Hotkeys /\ down \in BOOLEAN
  /\ hooked \in BOOLEAN /\ activeKey \in BOOLEAN
  /\ capsPending \in BOOLEAN /\ longPress \in BOOLEAN
  /\ caps \in BOOLEAN /\ wasOn \in BOOLEAN /\ cut \in BOOLEAN

RecordingTypes ==
  /\ recording \in BOOLEAN /\ pendingOnly \in BOOLEAN
  /\ stopDelay \in BOOLEAN /\ held \in BOOLEAN /\ restoreCaps \in BOOLEAN

DeviceTypes ==
  /\ mic \in {"closed", "suppressed", "capturing"}
  /\ keepAlive \in BOOLEAN /\ fault \in BOOLEAN
  /\ stale \in BOOLEAN /\ outdated \in BOOLEAN

TypeOK ==
  /\ HookTypes /\ RecordingTypes /\ DeviceTypes
  /\ alive \in BOOLEAN
  /\ queue \in Seq(Commands) /\ Len(queue) <= MaxQueue + 1

---------------------------------------------------------------------------
\* The device.  q is the queue an operator starts from.

\* CloseAudioCapture and the opening of a device advance the generation.
Expired(q) ==
  [i \in DOMAIN q |-> IF q[i] = "captureError" THEN "staleError" ELSE q[i]]

CloseAudioCapture(q) ==
  /\ mic' = "closed"
  /\ keepAlive' = FALSE
  /\ outdated' = FALSE
  /\ queue' = Expired(q)

\* A device that is kept alive and has not failed is used again.
ResumeCapture(q) ==
  /\ mic # "closed" /\ ~fault
  /\ mic' = "capturing"
  /\ keepAlive' = FALSE
  /\ queue' = q
  /\ UNCHANGED <<fault, stale, outdated>>

OpenCapture(q) ==
  /\ mic = "closed" \/ fault
  /\ mic' = "capturing"
  /\ keepAlive' = FALSE
  /\ outdated' = FALSE
  /\ fault' = FALSE
  /\ queue' = Expired(q)
  /\ UNCHANGED stale

OpeningFails(q) ==
  /\ mic = "closed" \/ fault
  /\ CloseAudioCapture(q)
  /\ fault' = FALSE
  /\ UNCHANGED stale

StartAudioCapture(q) == ResumeCapture(q) \/ OpenCapture(q)

\* Mutant: the keep-alive timer is not armed.
StopWithoutKeepAlive(q) ==
  /\ mic' = IF mic = "closed" THEN "closed" ELSE "suppressed"
  /\ queue' = q
  /\ UNCHANGED <<keepAlive, outdated>>

\* A pause: the device stays open for the next recording.
StopAudioCapture(q) ==
  /\ mic' = IF mic = "closed" THEN "closed" ELSE "suppressed"
  /\ keepAlive' = (keepAlive \/ mic # "closed")
  /\ queue' = q
  /\ UNCHANGED outdated

\* Mutant: the flag is cleared, but the device is kept.
PauseStale(q) == StopAudioCapture(q) /\ stale' = FALSE

\* The end of a capture: a device that settings have replaced is not kept.
PauseOrClose(q) ==
  /\ IF stale THEN CloseAudioCapture(q) ELSE StopAudioCapture(q)
  /\ stale' = FALSE

---------------------------------------------------------------------------
\* The keyboard hook.

MayPost == alive /\ Len(queue) < MaxQueue

\* Mutant: the capture that was begun is forgotten.
ResetWithoutDiscard(q) ==
  /\ activeKey' = FALSE
  /\ capsPending' = FALSE
  /\ longPress' = FALSE
  /\ queue' = q

ResetCapsLockHotkeyState(q) ==
  /\ activeKey' = FALSE
  /\ capsPending' = FALSE
  /\ longPress' = FALSE
  /\ queue' = IF capsPending THEN Append(q, "captureDiscard") ELSE q

\* LowLevelKeyboardProc, WM_KEYDOWN; a key that is held repeats it.
StartCapsLockHotkeyPress ==
  /\ MayPost
  /\ hooked /\ hotkey = "capsLock" /\ ~activeKey
  /\ down' = TRUE
  /\ activeKey' = TRUE
  /\ capsPending' = TRUE
  /\ longPress' = FALSE
  /\ wasOn' = caps
  /\ queue' = Append(queue, "captureBegin")
  /\ UNCHANGED <<hotkey, hooked, cut, caps, recording, pendingOnly, stopVars,
                 micVars, alive>>

PressOtherKey ==
  /\ MayPost
  /\ hooked /\ hotkey = "other" /\ ~activeKey
  /\ down' = TRUE
  /\ activeKey' = TRUE
  /\ queue' = Append(queue, "recordingStart")
  /\ UNCHANGED <<hotkey, hooked, capsPending, longPress, wasOn, cut, caps,
                 recording, pendingOnly, stopVars, micVars, alive>>

\* kCapsLockLongPressTimer.
ActivateCapsLockLongPress ==
  /\ alive
  /\ capsPending /\ queue = <<>>
  /\ capsPending' = FALSE
  /\ longPress' = TRUE
  /\ queue' = <<"recordingStart">>
  /\ UNCHANGED <<hotkey, down, hooked, activeKey, wasOn, cut, caps, recording,
                 pendingOnly, stopVars, micVars, alive>>

\* What is posted for a tap besides the discard of ResetCapsLockHotkeyState.
TapCommands == <<"captureDiscard">>

\* LowLevelKeyboardProc, WM_KEYUP: the end of a tap sends the key,
FinishCapsLockTap ==
  /\ MayPost
  /\ down /\ hooked /\ hotkey = "capsLock"
  /\ activeKey /\ capsPending
  /\ down' = FALSE
  /\ ResetCapsLockHotkeyState(queue \o TapCommands)
  /\ caps' = ~caps
  /\ UNCHANGED <<hotkey, hooked, wasOn, cut, recording, pendingOnly, stopVars,
                 micVars, alive>>

\* that of a long press stops the recording,
FinishCapsLockLongPress ==
  /\ MayPost
  /\ down /\ hooked /\ hotkey = "capsLock"
  /\ activeKey /\ longPress
  /\ down' = FALSE
  /\ ResetCapsLockHotkeyState(Append(queue, "capsLockRecordingStop"))
  /\ cut' = FALSE
  /\ UNCHANGED <<hotkey, hooked, wasOn, caps, recording, pendingOnly, stopVars,
                 micVars, alive>>

\* and so does that of any other key.
ReleaseOtherKey ==
  /\ MayPost
  /\ down /\ hooked /\ hotkey = "other"
  /\ down' = FALSE
  /\ activeKey' = FALSE
  /\ queue' = Append(queue, "recordingStop")
  /\ cut' = FALSE
  /\ UNCHANGED <<hotkey, hooked, capsPending, longPress, wasOn, caps, recording,
                 pendingOnly, stopVars, micVars, alive>>

\* Without the hook nothing is seen of the key.  A release is also passed on
\* if its press was not seen and, for a combination, the modifiers are up.
UnseenKey ==
  /\ alive
  /\ \/ ~hooked
     \/ down /\ ~activeKey
  /\ down' = ~down
  /\ UNCHANGED <<hotkey, hooked, activeKey, capsPending, longPress, wasOn, cut,
                 caps, queue, recording, pendingOnly, stopVars, micVars, alive>>

\* ShowSettingsWindow uninstalls the hook, in the middle of a press too;
OpenSettings ==
  /\ MayPost
  /\ hooked
  /\ hooked' = FALSE
  /\ ResetCapsLockHotkeyState(queue)
  /\ cut' = (cut \/ (activeKey /\ ~capsPending))
  /\ UNCHANGED <<hotkey, down, wasOn, caps, recording, pendingOnly, stopVars,
                 micVars, alive>>

\* HideSettingsWindow installs it again;
CloseSettings ==
  /\ alive
  /\ ~hooked
  /\ hooked' = TRUE
  /\ UNCHANGED <<hotkey, down, activeKey, capsPending, longPress, wasOn, cut,
                 caps, queue, recording, pendingOnly, stopVars, micVars, alive>>

\* and what is saved in between may be another hotkey or device.
SaveSettings ==
  /\ MayPost
  /\ ~hooked
  /\ hotkey' \in Hotkeys
  /\ down' = (down /\ hotkey' = hotkey)
  /\ queue' = Append(queue, "reload")
  /\ UNCHANGED <<hooked, activeKey, capsPending, longPress, wasOn, cut, caps,
                 recording, pendingOnly, stopVars, micVars, alive>>

\* ID_TRAY_RELOAD.
TrayReload ==
  /\ MayPost
  /\ queue' = Append(queue, "reload")
  /\ UNCHANGED <<hookVars, caps, recording, pendingOnly, stopVars, micVars,
                 alive>>

\* The capture thread or the waveIn callback finds the device gone, whether
\* it is in use or kept alive.
DeviceFails ==
  /\ MayPost
  /\ mic # "closed" /\ ~fault
  /\ fault' = TRUE
  /\ queue' = Append(queue, "captureError")
  /\ UNCHANGED <<hookVars, caps, recording, pendingOnly, stopVars, mic,
                 keepAlive, stale, outdated, alive>>

---------------------------------------------------------------------------
\* The handlers of the main window.

\* Mutant: a stop that is due stays due.
StopNotHeld == UNCHANGED stopVars

\* Mutant: Caps Lock is still restored at the end.
HoldStopAndRestore ==
  /\ stopDelay' = FALSE
  /\ held' = (held \/ stopDelay)
  /\ UNCHANGED restoreCaps

\* A press of Caps Lock holds a stop that is due until it is known to be a
\* tap or a long press.
HoldStop ==
  /\ stopDelay' = FALSE
  /\ held' = (held \/ stopDelay)
  /\ restoreCaps' = (restoreCaps /\ ~stopDelay)

\* kHotkeyCaptureBegin.
BeginCaptureOnly(q) ==
  \/ /\ recording
     /\ HoldStop
     /\ queue' = q
     /\ UNCHANGED <<recording, pendingOnly, micVars>>
  \/ /\ ~recording /\ pendingOnly
     /\ queue' = q
     /\ UNCHANGED <<recording, pendingOnly, stopVars, micVars>>
  \/ /\ ~recording /\ ~pendingOnly
     /\ \/ StartAudioCapture(q) /\ pendingOnly' = TRUE
        \/ OpeningFails(q) /\ pendingOnly' = FALSE
     /\ UNCHANGED <<recording, stopVars>>

\* Mutant: the stop that was held is forgotten.
ForgetHeldStop ==
  /\ held' = FALSE
  /\ UNCHANGED <<stopDelay, restoreCaps>>

\* It was a tap: the stop that it held is due again.
ResumeHeldStop ==
  /\ held' = FALSE
  /\ stopDelay' = (stopDelay \/ held)
  /\ UNCHANGED restoreCaps

\* kHotkeyCaptureDiscard.
DiscardPendingCapture(q) ==
  \/ /\ ~pendingOnly
     /\ ResumeHeldStop
     /\ queue' = q
     /\ UNCHANGED <<recording, pendingOnly, micVars>>
  \/ /\ pendingOnly
     /\ pendingOnly' = FALSE
     /\ PauseOrClose(q)
     /\ UNCHANGED <<recording, stopVars, fault>>

\* kHotkeyRecordingStart: a stop that is due or held is taken back; the audio
\* of a pending capture becomes the head of the recording.
StartRecordingSession(q) ==
  /\ stopDelay' = FALSE
  /\ held' = FALSE
  /\ restoreCaps' = FALSE
  /\ pendingOnly' = (pendingOnly /\ recording)
  /\ \/ /\ recording \/ pendingOnly
        /\ recording' = TRUE
        /\ queue' = q
        /\ UNCHANGED micVars
     \/ /\ ~recording /\ ~pendingOnly
        /\ \/ StartAudioCapture(q) /\ recording' = TRUE
           \/ OpeningFails(q) /\ recording' = FALSE

\* kHotkeyRecordingStop and kHotkeyCapsLockRecordingStop: the tail of the
\* utterance is recorded until the timer fires.
DelayStop(command, q) ==
  /\ stopDelay' = TRUE
  /\ restoreCaps' = (command = "capsLockRecordingStop")
  /\ queue' = q
  /\ UNCHANGED <<held, recording, pendingOnly, micVars>>

\* HandleAudioCaptureFailure for the device that is open.
EndFailedRecording(q) ==
  /\ recording' = FALSE
  /\ stale' = FALSE
  /\ fault' = FALSE
  /\ CloseAudioCapture(q)
  /\ UNCHANGED pendingOnly

HandleAudioCaptureFailure(q) ==
  /\ \/ recording /\ EndFailedRecording(q)
     \/ /\ ~recording
        /\ pendingOnly \/ mic = "suppressed"
        /\ pendingOnly' = FALSE
        /\ stale' = FALSE
        /\ CloseAudioCapture(q)
        /\ UNCHANGED <<recording, fault>>
     \/ /\ ~recording /\ ~pendingOnly /\ mic # "suppressed"
        /\ queue' = q
        /\ UNCHANGED <<recording, pendingOnly, micVars>>
  /\ UNCHANGED stopVars

\* StopRecordingSession, as far as it concerns the device.  A device that
\* fails while it runs ends the recording like one that failed before.
StopRecordingSession(q) ==
  \/ /\ ~recording
     /\ queue' = q
     /\ UNCHANGED <<recording, pendingOnly, micVars>>
  \/ /\ recording /\ fault
     /\ EndFailedRecording(q)
  \/ /\ recording /\ ~fault
     /\ recording' = FALSE
     /\ PauseOrClose(q)
     /\ UNCHANGED <<pendingOnly, fault>>

\* kReloadMessage: a device in use is only marked.
Reload(q) ==
  /\ \/ /\ ~recording /\ ~pendingOnly
        /\ CloseAudioCapture(q)
        /\ UNCHANGED stale
     \/ /\ recording \/ pendingOnly
        /\ stale' = TRUE
        /\ outdated' = TRUE
        /\ queue' = q
        /\ UNCHANGED <<mic, keepAlive>>
  /\ UNCHANGED <<recording, pendingOnly, stopVars, fault>>

DispatchMessage ==
  /\ alive
  /\ queue # <<>>
  /\ LET m == Head(queue)
         q == Tail(queue)
     IN \/ m = "captureBegin" /\ BeginCaptureOnly(q)
        \/ m = "captureDiscard" /\ DiscardPendingCapture(q)
        \/ m = "recordingStart" /\ StartRecordingSession(q)
        \/ m \in Stops /\ DelayStop(m, q)
        \/ m = "reload" /\ Reload(q)
        \/ m = "captureError" /\ HandleAudioCaptureFailure(q)
        \/ /\ m = "staleError"
           /\ queue' = q
           /\ UNCHANGED <<recording, pendingOnly, stopVars, micVars>>
  /\ UNCHANGED <<hookVars, caps, alive>>

\* kRecordingStopDelayTimer; RestoreCapsLockState taps the key if needed.
StopDelayFires ==
  /\ alive
  /\ stopDelay /\ queue = <<>>
  /\ stopDelay' = FALSE
  /\ StopRecordingSession(queue)
  /\ restoreCaps' = FALSE
  /\ caps' = IF restoreCaps THEN wasOn ELSE caps
  /\ UNCHANGED <<hookVars, held, alive>>

\* kStreamingWatchdogTimer at the recording limit of a provider.
RecordingLimitReached ==
  /\ alive
  /\ recording /\ queue = <<>>
  /\ StopRecordingSession(queue)
  /\ UNCHANGED <<hookVars, caps, stopVars, alive>>

\* kMicKeepAliveTimer.
KeepAliveExpires ==
  /\ alive
  /\ keepAlive /\ queue = <<>>
  /\ IF recording \/ pendingOnly
       THEN /\ keepAlive' = FALSE
            /\ UNCHANGED <<mic, outdated, queue>>
       ELSE CloseAudioCapture(queue)
  /\ UNCHANGED <<hookVars, caps, recording, pendingOnly, stopVars, fault, stale,
                 alive>>

\* WM_DESTROY.
Quit ==
  /\ alive
  /\ alive' = FALSE
  /\ pendingOnly' = FALSE
  /\ stopDelay' = FALSE
  /\ mic' = "closed"
  /\ keepAlive' = FALSE
  /\ outdated' = FALSE
  /\ hooked' = FALSE
  /\ ResetCapsLockHotkeyState(Expired(queue))
  /\ UNCHANGED <<hotkey, down, wasOn, cut, caps, recording, held, restoreCaps,
                 fault, stale>>

---------------------------------------------------------------------------
\* The specification.

Init ==
  /\ hotkey \in Hotkeys
  /\ hooked = TRUE
  /\ caps \in BOOLEAN
  /\ queue = <<>>
  /\ mic = "closed"
  /\ alive = TRUE
  /\ down = FALSE /\ activeKey = FALSE /\ capsPending = FALSE
  /\ longPress = FALSE /\ wasOn = FALSE /\ cut = FALSE
  /\ recording = FALSE /\ pendingOnly = FALSE
  /\ stopDelay = FALSE /\ held = FALSE /\ restoreCaps = FALSE
  /\ keepAlive = FALSE /\ fault = FALSE /\ stale = FALSE /\ outdated = FALSE

HookStep ==
  \/ StartCapsLockHotkeyPress
  \/ PressOtherKey
  \/ FinishCapsLockTap
  \/ FinishCapsLockLongPress
  \/ ReleaseOtherKey
  \/ UnseenKey

SettingsStep == OpenSettings \/ CloseSettings \/ SaveSettings \/ TrayReload

TimerStep ==
  \/ ActivateCapsLockLongPress
  \/ StopDelayFires
  \/ RecordingLimitReached
  \/ KeepAliveExpires

Next ==
  HookStep \/ SettingsStep \/ TimerStep \/ DeviceFails \/ DispatchMessage \/ Quit

Spec == Init /\ [][Next]_vars

\* The main loop dispatches messages faster than its user makes them, so the
\* queue is empty time and again, and it then takes the timers that are due.
\* Nothing else is assumed of the user.
Fairness ==
  /\ []<>(queue = <<>> \/ ~alive)
  /\ SF_vars(StopDelayFires)
  /\ SF_vars(KeepAliveExpires)

FairSpec == Spec /\ Fairness

---------------------------------------------------------------------------
\* Safety.

Queued(q, commands) == \E i \in 1..Len(q) : q[i] \in commands

\* What a press of Caps Lock is decided to be.
Decisions == {"captureDiscard", "recordingStart"}

\* The microphone collects audio just as long as a recording or the decision
\* on a press needs it, and one that is open and unused has a timer to close
\* it: whatever taps, reloads and failures come in between.
MicrophoneIsOwned ==
  alive =>
    /\ mic = "capturing" <=> (recording \/ pendingOnly)
    /\ mic = "suppressed" => keepAlive

\* A capture that waits for the decision between tap and long press gets it:
\* the press is still open, or what it was decided to be is in the queue (the
\* comment in ResetCapsLockHotkeyState).
PendingIsDecided ==
  pendingOnly =>
    capsPending \/ Queued(queue, Decisions)

\* A recording whose press is over has a stop on its way: in the queue, under
\* the stop delay, or held by a press that is not decided yet.  Only a press
\* that Settings interrupted is never stopped.
StopIsOnItsWay ==
  alive /\ recording =>
    \/ activeKey /\ ~capsPending
    \/ Queued(queue, Stops)
    \/ stopDelay
    \/ held /\ (capsPending \/ Queued(queue, Decisions))
    \/ cut

\* A press inside the stop delay continues the recording: the delayed stop
\* cannot fire as long as the key is down (BeginCaptureOnly, whose comment
\* says why the delay must be held).
RepressKeepsRecording ==
  alive /\ recording /\ stopDelay /\ queue = <<>> => ~activeKey

\* A capture never starts on a device that was opened before the last reload
\* of the settings: a device kept alive is dropped by the reload, or marked
\* while it is in use and dropped after.
StartsOnConfiguredDevice ==
  [][mic # "capturing" /\ mic' = "capturing" => ~outdated']_vars

\* The end of a recording never undoes the Caps Lock toggle of a tap that was
\* made inside its stop delay.
StopLeavesCapsLock == [][recording /\ ~recording' => caps' = caps]_vars

\* The release of the hotkey ends the recording, as ARCHITECTURE.md says of
\* Caps Lock: it does not outlive the stop delay.
ReleaseStops ==
  alive /\ recording /\ ~down /\ queue = <<>> => stopDelay

---------------------------------------------------------------------------
\* Liveness.

\* A recording whose press is over ends, unless the key is pressed again.
ReleaseEndsRecording ==
  (recording /\ ~activeKey) ~> (~recording \/ activeKey \/ cut \/ ~alive)

\* A microphone that is not used does not stay open.
MicrophoneIsReleased == (mic = "suppressed") ~> (mic # "suppressed")
=============================================================================
