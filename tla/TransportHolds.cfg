CONSTANTS
  MaxConnects = 2
  MaxMessages = 2
  MaxCalls = 2
SPECIFICATION FairSpec
INVARIANTS
  HandlesHaveOneOwner
  MessagesInOrder
PROPERTIES
  AbortIsFinal
  SendBufferStable
  CallsReturn
CHECK_DEADLOCK FALSE
