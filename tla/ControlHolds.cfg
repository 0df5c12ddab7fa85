CONSTANTS
  Hotkeys <- BothHotkeys
  MaxQueue = 4
SPECIFICATION FairSpec
INVARIANTS
  MicrophoneIsOwned
  PendingIsDecided
  StopIsOnItsWay
  RepressKeepsRecording
PROPERTIES
  StartsOnConfiguredDevice
  StopLeavesCapsLock
  ReleaseEndsRecording
  MicrophoneIsReleased
CHECK_DEADLOCK FALSE
