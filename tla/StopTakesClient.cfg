SPECIFICATION Spec
CONSTANTS
  Sessions = {s1}
  Ids = {i1}
  Requests = {r1}
  NoSession = NoSession
  NoId = NoId
  NoRequest = NoRequest
  MaxRequests = 1
  MaxFrames = 2
PROPERTY StoppedServerTakesNoClient
