\* Two recordings; one recording and two WAVs may stay on the disk for a day.
SPECIFICATION Spec
CONSTANTS
  Attempts = {1, 2}
  MaxGroups = 1
  MaxBytes = 2
  MaxAge = 0
  MaxDays = 1
  MaxIncidents = 2
  Plans <- FewPlans
  Sizes = {"tiny", "full"}
INVARIANTS
  GroupsAreWhole
  ExitWaitsForWriters
  StageHasOneRequest
  TokenIsFresh
PROPERTY RetentionHolds
CHECK_DEADLOCK FALSE
