SPECIFICATION Spec
CONSTANTS
  Stations = {"a", "b", "c"}
  Routes = {"r0", "r1"}
  Networks <- SmallNetworks
  NoEdge = NoEdge
  Queries <- MCQueries
  NoStation = "none"
  Slowdown <- MCSlowdown
  Quietness <- MCQuietness
  MaxNPaths = 5
  PassengerCounts <- MCNegativeCounts
  UIntSize = 65536
INVARIANT QuietestChosen
CHECK_DEADLOCK FALSE
