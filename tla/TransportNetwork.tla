-------------------------- MODULE TransportNetwork --------------------------
(***************************************************************************)
(* The network representation: src/transport-network.cpp, the graph and    *)
(* the operations that build, change and query it.                         *)
(*                                                                         *)
(* Station ids stand for GraphNodes (one per id, for ever).  A route is    *)
(* a RouteInternal object: `serial` is its identity, as two AddLine calls  *)
(* may create routes with the same ids.  The edges of all the nodes are    *)
(* one set; their order within a node does not matter as long as           *)
(* TravelTimesAgree.  Lines are well-formed, as AddLine assumes: a route   *)
(* has at least two stops and no station twice.                            *)
(*                                                                         *)
(* As in the program, FromJson fills an empty network, then passenger      *)
(* events arrive.  A document may be any: stations, lines and travel times *)
(* that exist or not.                                                      *)
(***************************************************************************)
EXTENDS Integers, Sequences, FiniteSets, Functions

CONSTANTS
  Stations,      \* station ids in the documents, events and queries
  NewLines,      \* the lines a document may hold: [id, routes]
  Times,         \* travel times a document may hold
  Counts,        \* counts SetNetworkCrowding may be given for a station
  MaxLines,      \* bound: calls of AddLine
  MaxTimes,      \* bound: calls of SetTravelTime
  MaxCount       \* bound: passengers recorded at a station, in or out

WellFormed(route) == Len(route.stops) > 1 /\ IsInjective(route.stops)

ASSUME LinesAssumption ==
  \A line \in NewLines :
    /\ line.routes \in Seq(Range(line.routes))
    /\ \A i \in DOMAIN line.routes :
         line.routes[i].stops \in Seq(Stations) /\ WellFormed(line.routes[i])
ASSUME NumbersAssumption ==
  /\ Times \subseteq Nat /\ Counts \subseteq Int
  /\ MaxLines \in Nat /\ MaxTimes \in Nat /\ MaxCount \in Nat

VARIABLES
  stage,            \* how far FromJson got
  ok,               \* FromJson's local ok, which it returns
  passengerCount,   \* the nodes of stations_ and their counts
  lines,            \* lines_: line id to the line's routes
  edges,            \* the edges of all the nodes
  added,            \* calls of AddLine so far
  timed             \* calls of SetTravelTime so far

graphVars == <<passengerCount, lines, edges, added, timed>>
vars == <<stage, ok, passengerCount, lines, edges, added, timed>>

-----------------------------------------------------------------------------
(* Data and queries *)

stations == DOMAIN passengerCount
StoredRoutes == UNION Range(lines)

RouteOf(line, i) ==
  [line |-> line.id, id |-> line.routes[i].id, stops |-> line.routes[i].stops,
   serial |-> added]

EdgesOf(route) ==
  {[route |-> route, from |-> route.stops[i], nextStop |-> route.stops[i + 1],
    travelTime |-> 0] : i \in 1 .. Len(route.stops) - 1}

Connects(e, stationA, stationB) == e.from = stationA /\ e.nextStop = stationB

\* Faulty variant: only the edges A -> B get the travel time.
BetweenOneWay(e, stationA, stationB) == Connects(e, stationA, stationB)
Between(e, stationA, stationB) ==
  Connects(e, stationA, stationB) \/ Connects(e, stationB, stationA)

\* What GetTravelTime may return for two stations: the time of the first edge
\* of A that leads to B, else of the first edge of B that leads to A.
GetTravelTime(stationA, stationB) ==
  LET there == {e \in edges : Connects(e, stationA, stationB)}
      back == {e \in edges : Connects(e, stationB, stationA)}
  IN  CASE there # {} -> {e.travelTime : e \in there}
        [] there = {} /\ back # {} -> {e.travelTime : e \in back}
        [] OTHER -> {0}

FindEdgeForRoute(station, route) ==
  {e \in edges : e.from = station /\ e.route = route}

\* Faulty variant: the walk counts from the first stop, wherever A is.
CountsFromAnywhere(route, stationA, i) == TRUE
\* foundA, when the walk of GetTravelTime along a route leaves the i-th stop.
FoundA(route, stationA, i) == \E j \in 1 .. i : route.stops[j] = stationA

\* The walk along the route up to B; without B on the route it ends with 0.
GetRouteTravelTime(route, stationA, stationB) ==
  LET edgeTime(i) == (CHOOSE e \in FindEdgeForRoute(route.stops[i], route) : TRUE).travelTime
      travelTime[i \in DOMAIN route.stops] ==
        IF i = 1 THEN 0
        ELSE travelTime[i - 1] + IF FoundA(route, stationA, i - 1) THEN edgeTime(i - 1) ELSE 0
      atB == {i \in DOMAIN route.stops : route.stops[i] = stationB}
  IN  IF atB = {} THEN 0 ELSE travelTime[CHOOSE i \in atB : TRUE]

\* Faulty variant: the last stop of a route, which has no edge, is forgotten.
RoutesLeavingStation(station) == {e.route : e \in {d \in edges : d.from = station}}
\* The routes that leave the station, and those that end there.
GetRoutesServingStation(station) ==
  {e.route : e \in {d \in edges : d.from = station}}
    \cup {r \in StoredRoutes : r.stops[Len(r.stops)] = station}

-----------------------------------------------------------------------------
(* Operations; each is the whole method, with what it returns *)

AddStation(station, result) ==
  /\ result = (station \notin stations)
  /\ passengerCount' =
       IF result
       THEN [s \in stations \cup {station} |-> IF s = station THEN 0 ELSE passengerCount[s]]
       ELSE passengerCount
  /\ UNCHANGED <<lines, edges, added, timed>>

\* Faulty variant: stops are not looked up first.
CanAddAnyStops(line, i) == \A j \in 1 .. i - 1 : line.routes[j].id # line.routes[i].id
\* AddRouteToLine refuses an id the line has, and an unknown stop.
CanAddRoute(line, i) ==
  /\ \A j \in 1 .. i - 1 : line.routes[j].id # line.routes[i].id
  /\ Range(line.routes[i].stops) \subseteq stations

\* The routes before the first one that AddRouteToLine refuses get their edges;
\* the line is stored only if no route is refused.
AddLine(line, result) ==
  LET new == {i \in DOMAIN line.routes : \A j \in 1 .. i : CanAddRoute(line, j)}
      routes == {RouteOf(line, i) : i \in new}
      known == line.id \in DOMAIN lines
  IN  /\ added < MaxLines
      /\ added' = added + 1
      /\ result = (~known /\ new = DOMAIN line.routes)
      /\ edges' = IF known THEN edges ELSE edges \cup UNION {EdgesOf(r) : r \in routes}
      /\ lines' = IF result
                  THEN [l \in DOMAIN lines \cup {line.id} |->
                          IF l = line.id THEN routes ELSE lines[l]]
                  ELSE lines
      /\ UNCHANGED <<passengerCount, timed>>

SetTravelTime(stationA, stationB, time, result) ==
  /\ timed < MaxTimes
  /\ timed' = timed + 1
  /\ result = (\E e \in edges : Between(e, stationA, stationB))
  /\ edges' = {IF Between(e, stationA, stationB) THEN [e EXCEPT !.travelTime = time] ELSE e :
                 e \in edges}
  /\ UNCHANGED <<passengerCount, lines, added>>

RecordPassengerEvent(station, change, result) ==
  /\ result = (station \in stations)
  /\ passengerCount' =
       [s \in stations |-> passengerCount[s] + IF s = station THEN change ELSE 0]
  /\ \A s \in stations : passengerCount'[s] \in -MaxCount .. MaxCount
  /\ UNCHANGED <<lines, edges, added, timed>>

\* One event per passenger, for the stations the network knows.
SetNetworkCrowding(counts) ==
  /\ passengerCount' =
       [s \in stations |-> passengerCount[s] + IF s \in DOMAIN counts THEN counts[s] ELSE 0]
  /\ \A s \in stations : passengerCount'[s] \in -MaxCount .. MaxCount
  /\ UNCHANGED <<lines, edges, added, timed>>

-----------------------------------------------------------------------------
(* FromJson, one step per element of the document *)

Loading(from, to) == stage = from /\ stage' = to

LoadStation ==
  \E station \in Stations, result \in BOOLEAN :
    /\ AddStation(station, result)
    /\ Loading("stations", IF result THEN "stations" ELSE "thrown")
    /\ UNCHANGED ok

\* Faulty variant: a refused line is passed over, as a refused time is.
LoadLineOrNot ==
  \E line \in NewLines, result \in BOOLEAN :
    /\ AddLine(line, result)
    /\ Loading("lines", "lines")
    /\ ok' = (ok /\ result)
LoadLine ==
  \E line \in NewLines, result \in BOOLEAN :
    /\ AddLine(line, result)
    /\ Loading("lines", IF result THEN "lines" ELSE "thrown")
    /\ UNCHANGED ok

LoadTravelTime ==
  \E stationA, stationB \in Stations, time \in Times, result \in BOOLEAN :
    /\ SetTravelTime(stationA, stationB, time, result)
    /\ Loading("times", "times")
    /\ ok' = (ok /\ result)

NextSection ==
  /\ \/ Loading("stations", "lines")
     \/ Loading("lines", "times")
     \/ Loading("times", "loaded")
  /\ UNCHANGED <<ok, graphVars>>

\* A loaded network takes passenger events from the network-events server.
PassengerEvent ==
  /\ stage = "loaded"
  /\ \/ \E station \in Stations, change \in {1, -1}, result \in BOOLEAN :
          RecordPassengerEvent(station, change, result)
     \/ \E known \in SUBSET Stations : \E counts \in [known -> Counts] :
          SetNetworkCrowding(counts)
  /\ UNCHANGED <<stage, ok>>

Init ==
  /\ stage = "stations"
  /\ ok = TRUE
  /\ passengerCount = [s \in {} |-> 0]
  /\ lines = [l \in {} |-> {}]
  /\ edges = {}
  /\ added = 0
  /\ timed = 0

Next == LoadStation \/ LoadLine \/ LoadTravelTime \/ NextSection \/ PassengerEvent

Spec == Init /\ [][Next]_vars

-----------------------------------------------------------------------------
(* Properties *)

\* Every variable has its type: counts are those of known stations, a stored
\* line holds routes of its own, edges belong to routes over known stations.
TypeOK ==
  /\ stage \in {"stations", "lines", "times", "loaded", "thrown"}
  /\ ok \in BOOLEAN
  /\ stations \subseteq Stations
  /\ passengerCount \in [stations -> Int]
  /\ \A l \in DOMAIN lines : \A r \in lines[l] :
       r.line = l /\ Range(r.stops) \subseteq stations
  /\ \A e \in edges : {e.from, e.nextStop} \subseteq stations /\ e.travelTime \in Nat
  /\ added \in 0 .. MaxLines /\ timed \in 0 .. MaxTimes

\* Unless FromJson threw, the graph has exactly one edge for each pair of
\* consecutive stops of each stored route: no half-added line left any
\* (AddRouteToLine adds edges before AddLine knows that all routes are good).
GraphMatchesRoutes ==
  stage # "thrown" =>
    /\ {[e EXCEPT !.travelTime = 0] : e \in edges} = UNION {EdgesOf(r) : r \in StoredRoutes}
    /\ \A e, f \in edges : e.route = f.route /\ e.from = f.from => e = f

\* "We know that the travel time from A to B is the same as the travel time
\* from B to A, across all routes" (GetTravelTime, which therefore takes the
\* first edge it finds).
TravelTimesAgree ==
  \A e, f \in edges : {e.from, e.nextStop} = {f.from, f.nextStop} => e.travelTime = f.travelTime

\* GetRoutesServingStation answers with exactly the stored routes that stop at
\* the station, although the end of a route has no edge for it.
ServingRoutesComplete ==
  stage # "thrown" =>
    \A s \in stations : GetRoutesServingStation(s) = {r \in StoredRoutes : s \in Range(r.stops)}

\* What makes the invariants above inductive: stored routes are well-formed; an edge
\* joins two consecutive stops of its route; no edge has a time before the section
\* of travel times, so that the edges of a new line agree with the others.
RoutesWellFormed ==
  \A r \in StoredRoutes : r.stops \in Seq(Stations) /\ WellFormed(r)
IsEdge(e) ==
  /\ e.route.stops \in Seq(Stations) /\ WellFormed(e.route)
  /\ \E i \in 1 .. Len(e.route.stops) - 1 :
       e = [route |-> e.route, from |-> e.route.stops[i], nextStop |-> e.route.stops[i + 1],
            travelTime |-> e.travelTime]
NoTimesYet == stage \in {"stations", "lines"} => \A e \in edges : e.travelTime = 0

GraphInvariant ==
  /\ RoutesWellFormed
  /\ \A e \in edges : IsEdge(e)
  /\ NoTimesYet
  /\ TravelTimesAgree
  /\ GraphMatchesRoutes

\* The time along a route is the sum of the times between its adjacent stops,
\* and 0 against the route's direction: the two forms of GetTravelTime agree.
RouteTimeCumulative ==
  \A r \in StoredRoutes : \A i, j \in DOMAIN r.stops :
    LET adjacent(k) == GetTravelTime(r.stops[k], r.stops[k + 1])
        sum[k \in 0 .. Len(r.stops)] ==
          IF k <= i THEN 0 ELSE sum[k - 1] + CHOOSE t \in adjacent(k - 1) : TRUE
    IN  GetRouteTravelTime(r, r.stops[i], r.stops[j]) = sum[j]
=============================================================================
