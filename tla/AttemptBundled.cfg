CONSTANTS
  MaxAttempts = 1
  MaxNotices = 0
  Configs <- BatchToQwenFree
SPECIFICATION Spec
INVARIANT BundledTextNotRefined
CHECK_DEADLOCK FALSE
