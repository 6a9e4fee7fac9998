SPECIFICATION FairSpec
CONSTANTS
  SubIds = {u1}
  Bodies = {b1}
  NoSub = NoSub
  NoBody = NoBody
  HasOnMessage = TRUE
  MaxUpcalls = 2
INVARIANTS
  TypeOK
  SubscribeAccountedFor
  DisconnectIsLast
PROPERTIES
  FailureReported
  LossReported
CHECK_DEADLOCK FALSE
