SPECIFICATION FairSpec
CONSTANTS
  Stations = {"a", "b", "c", "d", "e"}
  Routes = {"r0", "r1", "r2"}
  Networks <- MCNetworks
  NoEdge = NoEdge
  Queries <- MCQueries
  NoStation = "none"
  Slowdown <- MCSlowdown
  Quietness <- MCQuietness
  MaxNPaths = 5
  PassengerCounts <- MCCounts
  UIntSize = 65536
INVARIANTS
  TypeOK
  SearchInvariant
  EverySearchFindsFastest
  PathsSound
  SecondPathFound
  ResultIsJourney
  ResultHasNoDetour
  QuietestChosen
PROPERTY CallReturns
CHECK_DEADLOCK FALSE
