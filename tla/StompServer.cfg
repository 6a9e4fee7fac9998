SPECIFICATION Spec
CONSTANTS
  Sessions = {s1, s2}
  Ids = {i1, i2}
  Requests = {r1}
  NoSession = NoSession
  NoId = NoId
  NoRequest = NoRequest
  MaxRequests = 1
  MaxFrames = 2
SYMMETRY Symmetry
INVARIANTS
  TypeOK
  MapsInverse
  OnlyLiveSessionsMapped
  ConnectedAnnounced
  CallbacksInOrder
PROPERTIES
  NoFrameAfterClose
  LifecycleSpec
