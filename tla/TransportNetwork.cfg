SPECIFICATION Spec
CONSTANTS
  Stations = {"a", "b", "c"}
  NewLines <- MCNewLines
  Times = {1, 2}
  Counts <- MCCounts
  MaxLines = 3
  MaxTimes = 2
  MaxCount = 1
INVARIANTS
  TypeOK
  GraphMatchesRoutes
  TravelTimesAgree
  ServingRoutesComplete
  RouteTimeCumulative
CHECK_DEADLOCK FALSE
