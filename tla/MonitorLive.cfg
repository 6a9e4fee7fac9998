SPECIFICATION MonitorFairSpec
CONSTANTS
  Sessions = {s1}
  Ids = {i1}
  Requests = {r1, rBad, rWrong, rAnon}
  WrongDestination = {rWrong}
  BadRequest = {rBad}
  Anonymous = {rAnon}
  SubIds = {u1}
  Bodies = {b1}
  BadEvent = {}
  UnknownStation = {}
  NoSession = NoSession
  NoId = NoId
  NoRequest = NoRequest
  NoSub = NoSub
  NoBody = NoBody
  HasOnMessage = FALSE
  Interruptible = FALSE
  MaxRequests = 2
  MaxFrames = 3
  MaxUpcalls = 0
INVARIANTS
  RepliesAnswerRequests
  ConnectedClientsComplete
PROPERTIES
  ErasedClientStaysErased
  RequestSettled
  LostClientForgotten
CHECK_DEADLOCK FALSE
