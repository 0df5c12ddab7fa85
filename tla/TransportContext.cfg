CONSTANTS
  MaxConnects = 1
  MaxMessages = 0
  MaxCalls = 2
SPECIFICATION Spec
INVARIANT ContextOutlivesCallbacks
CHECK_DEADLOCK FALSE
