SPECIFICATION MonitorFairSpec
CONSTANTS
  Sessions = {s1}
  Ids = {i1}
  Requests = {r1}
  WrongDestination = {}
  BadRequest = {}
  Anonymous = {}
  SubIds = {u1}
  Bodies = {b1, bBad, bUnknown}
  BadEvent = {bBad}
  UnknownStation = {bUnknown}
  NoSession = NoSession
  NoId = NoId
  NoRequest = NoRequest
  NoSub = NoSub
  NoBody = NoBody
  HasOnMessage = FALSE
  Interruptible = FALSE
  MaxRequests = 0
  MaxFrames = 1
  MaxUpcalls = 1
INVARIANT MonitorTypeOK
PROPERTY ConnectFailureStopsServer
CHECK_DEADLOCK FALSE
