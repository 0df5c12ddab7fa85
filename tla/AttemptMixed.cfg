CONSTANTS
  MaxAttempts = 2
  MaxNotices = 1
  Configs <- MixedConfigs
SPECIFICATION FairSpec
INVARIANTS
  TypeOK
  SilencedStaysSilent
  FallbackIsSerial
  NothingLeftBehind
  PastedInOrder
PROPERTIES
  DeliversAttempts
  VerdictStaysUnlessSilenced
  HudIsHiddenInTheEnd
CHECK_DEADLOCK FALSE
