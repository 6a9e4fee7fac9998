SPECIFICATION MonitorSpec
CONSTANTS
  Sessions = {s1}
  Ids = {i1}
  Requests = {r1}
  WrongDestination = {}
  BadRequest = {}
  Anonymous = {}
  SubIds = {u1}
  Bodies = {b1}
  BadEvent = {}
  UnknownStation = {}
  NoSession = NoSession
  NoId = NoId
  NoRequest = NoRequest
  NoSub = NoSub
  NoBody = NoBody
  HasOnMessage = FALSE
  Interruptible = FALSE
  MaxRequests = 1
  MaxFrames = 2
  MaxUpcalls = 1
INVARIANT ConnectFailureExitsNonzero
CHECK_DEADLOCK FALSE
