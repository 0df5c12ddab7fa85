CONSTANTS
  Hotkeys <- CapsLockOnly
  MaxQueue = 2
SPECIFICATION Spec
INVARIANT ReleaseStops
CHECK_DEADLOCK FALSE
