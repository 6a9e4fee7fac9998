---------------------------- MODULE FastestRoute ----------------------------
(***************************************************************************)
(* The search of the private GetFastestTravelRoute (transport-network.cpp, *)
(* lines 769-883): Dijkstra's algorithm over stops, where a stop is a      *)
(* station with the edge that led to it, so that a change of route can     *)
(* cost a penalty.  The search may start warm (a distance and an incoming  *)
(* edge) and may exclude stops.  One action is one iteration of the loop;  *)
(* the callers are in QuietRoute.                                          *)
(*                                                                         *)
(* An edge is [route, from, nextStop, travelTime], as in TransportNetwork; *)
(* the network does not change during a call.  Sums stay below 2^32.       *)
(***************************************************************************)
EXTENDS Integers, Sequences, FiniteSets

CONSTANTS
  Stations,        \* the stations of the network
  Routes,          \* its routes
  Networks,        \* the graphs to look at, each a set of edges
  NoEdge           \* the null edge of a start without history

RouteChangePenalty == 5

Edge == [route : Routes, from : Stations, nextStop : Stations, travelTime : Nat]

ASSUME NetworksAssumption == \A n \in Networks : n \subseteq Edge /\ IsFiniteSet(n)
ASSUME StationsAssumption == IsFiniteSet(Stations)
ASSUME NoEdgeAssumption == NoEdge \notin Edge

VARIABLES
  edges,           \* the graph
  stopA,           \* the stop to start from, with its distance
  stationB,        \* the station to reach
  excludedStops,   \* stops the search must not enter
  distFromA,       \* distances of the stops met so far
  previousStop,    \* how each of them, except the start, was reached
  nodesToVisit     \* the priority queue: stops with the distance they had

searchVars == <<stopA, stationB, excludedStops, distFromA, previousStop, nodesToVisit>>

-----------------------------------------------------------------------------
(* Stops *)

PathStop == [node : Stations, edge : Edge \cup {NoEdge}]
PathStopDist == [stop : PathStop, dist : Nat]
At(stop, dist) == [stop |-> stop, dist |-> dist]
StopOf(e) == [node |-> e.nextStop, edge |-> e]
ColdStart(station) == At([node |-> station, edge |-> NoEdge], 0)

Penalty(stop, e) ==
  IF stop.edge # NoEdge /\ stop.edge.route # e.route THEN RouteChangePenalty ELSE 0
StepCost(stop, e) == e.travelTime + Penalty(stop, e)

-----------------------------------------------------------------------------
(* The search *)

\* The code returns at once if the start is at station B; no caller passes that
\* (TypeOK of QuietRoute), and SearchInit leaves it out.
BeginSearch(start, station, excluded) ==
  /\ stopA' = start
  /\ stationB' = station
  /\ excludedStops' = excluded
  /\ distFromA' = [s \in {start.stop} |-> start.dist]
  /\ previousStop' = [s \in {} |-> start.stop]
  /\ nodesToVisit' = {start}

\* The edges out of a visited stop that give a neighbor its first distance, or
\* a better one.  Station B is not left again.
NeighborDist(top, e) == top.dist + StepCost(top.stop, e)
\* Faulty variant: a stop met before keeps its first distance.
FirstSeen(top) ==
  {e \in edges :
    /\ e.from = top.stop.node /\ top.stop.node # stationB
    /\ StopOf(e) \notin excludedStops
    /\ StopOf(e) \notin DOMAIN distFromA}
Improved(top) ==
  {e \in edges :
    /\ e.from = top.stop.node /\ top.stop.node # stationB
    /\ StopOf(e) \notin excludedStops
    /\ StopOf(e) \notin DOMAIN distFromA \/ NeighborDist(top, e) < distFromA[StopOf(e)]}

IsTop(top) == top \in nodesToVisit /\ \A other \in nodesToVisit : top.dist <= other.dist

\* Faulty variant: the test for station B comes before the pop.
RestButB(top) == IF top.stop.node = stationB THEN nodesToVisit ELSE nodesToVisit \ {top}
Rest(top) == nodesToVisit \ {top}

Visit ==
  \E top \in nodesToVisit :
    LET better == Improved(top)
        stops == {StopOf(e) : e \in better}
    IN  /\ IsTop(top)
        /\ distFromA' = [s \in DOMAIN distFromA \cup stops |->
                           IF s \in stops THEN NeighborDist(top, s.edge) ELSE distFromA[s]]
        /\ previousStop' = [s \in DOMAIN previousStop \cup stops |->
                              IF s \in stops THEN top.stop ELSE previousStop[s]]
        /\ nodesToVisit' = Rest(top) \cup {At(StopOf(e), NeighborDist(top, e)) : e \in better}
        /\ UNCHANGED <<edges, stopA, stationB, excludedStops>>

SearchDone == nodesToVisit = {}

\* The stops before and at a given one, back to the first at station A.
PathTo(last) ==
  LET back[s \in DOMAIN distFromA] ==
        IF s.node = stopA.stop.node THEN <<At(s, distFromA[s])>>
        ELSE Append(back[previousStop[s]], At(s, distFromA[s]))
  IN  back[last]

PathsToB == {s \in DOMAIN distFromA : s.node = stationB}
\* Faulty variant: the wrong end of the sorted paths.
SlowestResults ==
  IF PathsToB = {} THEN {<<>>}
  ELSE {PathTo(s) : s \in {t \in PathsToB : \A u \in PathsToB : distFromA[t] >= distFromA[u]}}
\* The paths the search may return: the sort leaves the order of equal
\* distances open.
SearchResults ==
  IF PathsToB = {} THEN {<<>>}
  ELSE {PathTo(s) : s \in {t \in PathsToB : \A u \in PathsToB : distFromA[t] <= distFromA[u]}}

-----------------------------------------------------------------------------
(* Reference: the journeys from a start, enumerated without a search *)

\* A path as the code should build it: along edges of the graph, from the start,
\* with the distances that adds up to.
IsPathFrom(start, path) ==
  /\ path[1] = start
  /\ \A i \in 1 .. Len(path) - 1 :
       LET e == path[i + 1].stop.edge
       IN  /\ e \in edges /\ e.from = path[i].stop.node
           /\ path[i + 1] = At(StopOf(e), path[i].dist + StepCost(path[i].stop, e))

\* The paths to B that enter no excluded stop and no station twice.
Journeys(start, station, excluded) ==
  LET nodes(path) == {path[i].stop.node : i \in DOMAIN path}
      end(path) == path[Len(path)]
      extend(path) ==
        {Append(path, At(StopOf(e), end(path).dist + StepCost(end(path).stop, e))) :
           e \in {f \in edges : /\ f.from = end(path).stop.node
                                /\ f.nextStop \notin nodes(path)
                                /\ StopOf(f) \notin excluded}}
      of[n \in 1 .. Cardinality(Stations)] ==
        IF n = 1 THEN {<<start>>} ELSE UNION {extend(path) : path \in of[n - 1]}
  IN  {path \in UNION {of[n] : n \in DOMAIN of} : end(path).stop.node = station}

-----------------------------------------------------------------------------
(* Properties *)

\* Every stop met has a distance and, unless it is the start, a stop before it
\* from which its edge leads to it at that cost; so previousStop.at never
\* throws, and only the start itself stands for station A with no way back.
DistancesJustified ==
  /\ \A s \in DOMAIN distFromA \ {stopA.stop} :
       /\ s \in DOMAIN previousStop
       /\ previousStop[s] \in DOMAIN distFromA
       /\ s = StopOf(s.edge) /\ s.edge \in edges /\ s \notin excludedStops
       /\ previousStop[s].node = s.edge.from /\ s.edge.from # stationB
       /\ distFromA[s] >= distFromA[previousStop[s]] + StepCost(previousStop[s], s.edge)
  /\ stopA.stop \in DOMAIN distFromA /\ distFromA[stopA.stop] = stopA.dist

\* A stop that is not queued with its distance has been visited with it: each
\* edge out of it was relaxed.  (An entry queued earlier, with a larger
\* distance, does no harm.)
VisitedStopsRelaxed ==
  \A s \in DOMAIN distFromA :
    \/ At(s, distFromA[s]) \in nodesToVisit
    \/ s.node = stationB
    \/ \A e \in edges :
         e.from = s.node /\ StopOf(e) \notin excludedStops =>
           /\ StopOf(e) \in DOMAIN distFromA
           /\ distFromA[StopOf(e)] <= distFromA[s] + StepCost(s, e)

\* What makes the two invariants above inductive: a queued stop has been met, at a
\* distance that is not larger, and the start is nearest of all.
QueueJustified ==
  \A n \in nodesToVisit :
    /\ n.stop \in DOMAIN distFromA
    /\ distFromA[n.stop] <= n.dist
    /\ stopA.dist <= n.dist

\* A search that is over returns a real path from its start to station B, with
\* the distances along it, and no journey there is faster; it returns nothing
\* only if there is none.  Warm starts and excluded stops included.
SearchFindsFastest ==
  SearchDone =>
    LET journeys == Journeys(stopA, stationB, excludedStops)
    IN  \A path \in SearchResults :
          /\ path = <<>> <=> journeys = {}
          /\ path # <<>> =>
               /\ IsPathFrom(stopA, path)
               /\ path[Len(path)].stop.node = stationB
               /\ \A i \in DOMAIN path \ {1} : path[i].stop \notin excludedStops
               /\ \A j \in journeys : path[Len(path)].dist <= j[Len(j)].dist

-----------------------------------------------------------------------------
(* A search on its own, from any start, to any other station, without any stops *)

SearchInit ==
  /\ edges \in Networks
  /\ stopA \in PathStopDist
  /\ stationB \in Stations \ {stopA.stop.node}
  /\ excludedStops \in SUBSET PathStop
  /\ distFromA = [s \in {stopA.stop} |-> stopA.dist]
  /\ previousStop = [s \in {} |-> stopA.stop]
  /\ nodesToVisit = {stopA}

SearchSpec == SearchInit /\ [][Visit]_<<edges, searchVars>>

\* The ways the search may go, repeated stations and all.
IsWalk(path) ==
  /\ path # <<>> /\ IsPathFrom(stopA, path)
  /\ \A i \in 2 .. Len(path) : path[i].stop \notin excludedStops
  /\ \A i \in 1 .. Len(path) - 1 : path[i].stop.node # stationB

\* Every distance is the length of a walk, and once the search is over no walk is
\* shorter: the distances are those of the fastest ways.
DistancesRealised ==
  \A s \in DOMAIN distFromA : \E path \in Seq(PathStopDist) :
    IsWalk(path) /\ path[Len(path)] = At(s, distFromA[s])
NoWalkShorter ==
  SearchDone =>
    \A path \in Seq(PathStopDist) :
      LET end == path[Len(path)]
      IN  IsWalk(path) => end.stop \in DOMAIN distFromA /\ distFromA[end.stop] <= end.dist

\* The loop that assembles a path backwards along previousStop ends, although an edge
\* without a travel time makes no stop farther than the one before it.
PreviousStopsEnd ==
  \E n \in Nat : \E rank \in [DOMAIN distFromA -> 0 .. n] :
    \A s \in DOMAIN distFromA \ {stopA.stop} : rank[previousStop[s]] < rank[s]

\* What the search returns is a fastest walk to station B, with the distances along
\* it, and it returns nothing only if no walk leads there.  (SearchFindsFastest says so
\* of walks without a repeated station, which can be enumerated.)
ResultsAreFastest ==
  SearchDone =>
    LET toB == {path \in Seq(PathStopDist) :
                  IsWalk(path) /\ path[Len(path)].stop.node = stationB}
    IN  \A path \in SearchResults :
          IF path = <<>> THEN toB = {}
          ELSE path \in toB /\ \A other \in toB : path[Len(path)].dist <= other[Len(other)].dist
=============================================================================
