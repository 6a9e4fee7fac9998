----------------------- MODULE TransportNetworkProofs -----------------------
(***************************************************************************)
(* Theorems about TransportNetwork, for any set of stations, any lines a   *)
(* document may hold, any travel times and counts, and any bounds.         *)
(***************************************************************************)
EXTENDS TransportNetwork, WellFoundedInduction, TLAPS

USE NumbersAssumption

(* Types *)

\* A line of a document.
LEMMA LineFacts ==
  ASSUME NEW line \in NewLines, NEW i \in DOMAIN line.routes
  PROVE  /\ i \in Nat \ {0}
         /\ i \in 1 .. i
         /\ \A j \in 1 .. i : j \in DOMAIN line.routes
         /\ line.routes[i].stops \in Seq(Stations)
         /\ WellFormed(line.routes[i])
  <1>1. /\ line.routes \in Seq(Range(line.routes))
        /\ line.routes[i].stops \in Seq(Stations)
        /\ WellFormed(line.routes[i])
    BY LinesAssumption
  <1>2. DOMAIN line.routes = 1 .. Len(line.routes) /\ Len(line.routes) \in Nat
    BY <1>1
  <1> QED
    BY <1>1, <1>2

\* The fields of the edges a route adds, and the stations they join.
LEMMA EdgesOfFacts ==
  ASSUME NEW route, route.stops \in Seq(Stations), WellFormed(route),
         NEW e \in EdgesOf(route)
  PROVE  /\ e.route = route /\ e.travelTime = 0
         /\ e.from \in Range(route.stops) /\ e.nextStop \in Range(route.stops)
         /\ IsEdge(e)
  <1>1. PICK i \in 1 .. Len(route.stops) - 1 :
          e = [route |-> route, from |-> route.stops[i], nextStop |-> route.stops[i + 1],
               travelTime |-> 0]
    BY DEF EdgesOf
  <1>2. i \in DOMAIN route.stops /\ i + 1 \in DOMAIN route.stops
    BY <1>1
  <1> QED
    BY <1>1, <1>2 DEF Range, IsEdge

\* Initially the network is empty.
LEMMA InitTypeOK == Init => TypeOK
  BY DEF Init, TypeOK, stations

\* AddStation.
LEMMA AddStationTypeOK ==
  ASSUME TypeOK, NEW station \in Stations, NEW result \in BOOLEAN,
         AddStation(station, result),
         stage' \in {"stations", "lines", "times", "loaded", "thrown"}, UNCHANGED ok
  PROVE  TypeOK'
  <1>1. stations' = stations \cup {station} /\ passengerCount' \in [stations' -> Int]
    <2>1. CASE result
      BY <2>1 DEF AddStation, TypeOK, stations
    <2>2. CASE ~result
      <3>1. passengerCount' = passengerCount /\ station \in stations
        BY <2>2 DEF AddStation
      <3> QED
        BY <3>1 DEF TypeOK, stations
    <2> QED
      BY <2>1, <2>2
  <1> QED
    BY <1>1 DEF AddStation, TypeOK

\* The routes that AddLine gives edges.
LEMMA NewRouteFacts ==
  ASSUME NEW line \in NewLines, NEW i \in DOMAIN line.routes,
         \A j \in 1 .. i : CanAddRoute(line, j)
  PROVE  LET r == RouteOf(line, i)
         IN  /\ r.line = line.id
             /\ r.stops \in Seq(Stations) /\ WellFormed(r)
             /\ Range(r.stops) \subseteq stations
  <1>1. Range(line.routes[i].stops) \subseteq stations
    BY LineFacts DEF CanAddRoute
  <1> QED
    BY <1>1, LineFacts DEF RouteOf, WellFormed

\* AddLine.
LEMMA AddLineTypeOK ==
  ASSUME TypeOK, NEW line \in NewLines, NEW result \in BOOLEAN, AddLine(line, result),
         stage' \in {"stations", "lines", "times", "loaded", "thrown"}, UNCHANGED ok
  PROVE  TypeOK'
  <1> DEFINE new == {i \in DOMAIN line.routes : \A j \in 1 .. i : CanAddRoute(line, j)}
             routes == {RouteOf(line, i) : i \in new}
  <1>1. \A r \in routes : /\ r.line = line.id /\ Range(r.stops) \subseteq stations
                          /\ r.stops \in Seq(Stations) /\ WellFormed(r)
    BY NewRouteFacts
  <1>2. /\ edges' = edges \/ edges' = edges \cup UNION {EdgesOf(r) : r \in routes}
        /\ \/ lines' = lines
           \/ lines' = [l \in DOMAIN lines \cup {line.id} |->
                          IF l = line.id THEN routes ELSE lines[l]]
        /\ added < MaxLines /\ added' = added + 1
        /\ UNCHANGED <<passengerCount, timed>>
    BY DEF AddLine
  <1> HIDE DEF routes
  <1>3. \A e \in edges' : {e.from, e.nextStop} \subseteq stations /\ e.travelTime \in Nat
    <2>1. ASSUME NEW r \in routes, NEW e \in EdgesOf(r)
          PROVE  {e.from, e.nextStop} \subseteq stations /\ e.travelTime \in Nat
      BY <1>1, EdgesOfFacts
    <2> QED
      BY <1>2, <2>1 DEF TypeOK
  <1>4. \A l \in DOMAIN lines' : \A r \in lines'[l] :
          r.line = l /\ Range(r.stops) \subseteq stations
    BY <1>1, <1>2 DEF TypeOK
  <1> QED
    BY <1>2, <1>3, <1>4 DEF TypeOK, stations

\* An edge as AddRouteToLine made it.
Untimed(e) == [e EXCEPT !.travelTime = 0]

\* SetTravelTime changes the time of edges and nothing else.
LEMMA SetTravelTimeEdges ==
  ASSUME \A e \in edges : IsEdge(e), NEW stationA, NEW stationB, NEW time, NEW result,
         SetTravelTime(stationA, stationB, time, result)
  PROVE  /\ \A f \in edges' : \E e \in edges :
              /\ f.route = e.route /\ f.from = e.from /\ f.nextStop = e.nextStop
              /\ f.travelTime = IF Between(e, stationA, stationB) THEN time ELSE e.travelTime
              /\ IsEdge(f)
              /\ Untimed(f) = Untimed(e)
         /\ \A e \in edges : \E f \in edges' :
              Untimed(f) = Untimed(e)
  <1> DEFINE retimed(e) ==
        IF Between(e, stationA, stationB) THEN [e EXCEPT !.travelTime = time] ELSE e
  <1>1. edges' = {retimed(e) : e \in edges}
    BY DEF SetTravelTime
  <1>2. ASSUME NEW e \in edges
        PROVE  LET f == retimed(e)
               IN  /\ f.route = e.route /\ f.from = e.from /\ f.nextStop = e.nextStop
                   /\ f.travelTime = IF Between(e, stationA, stationB) THEN time ELSE e.travelTime
                   /\ IsEdge(f)
                   /\ Untimed(f) = Untimed(e)
    <2>1. PICK i \in 1 .. Len(e.route.stops) - 1 :
            e = [route |-> e.route, from |-> e.route.stops[i],
                 nextStop |-> e.route.stops[i + 1], travelTime |-> e.travelTime]
      BY DEF IsEdge
    <2>2. e.route.stops \in Seq(Stations) /\ WellFormed(e.route)
      BY DEF IsEdge
    <2>3. CASE Between(e, stationA, stationB)
      <3>1. retimed(e) = [route |-> e.route, from |-> e.route.stops[i],
                        nextStop |-> e.route.stops[i + 1], travelTime |-> time]
        BY <2>1, <2>3
      <3> QED
        BY <2>1, <2>2, <2>3, <3>1 DEF IsEdge, Untimed
    <2>4. CASE ~Between(e, stationA, stationB)
      BY <2>4
    <2> QED
      BY <2>3, <2>4
  <1> QED
    BY <1>1, <1>2

\* SetTravelTime.
LEMMA SetTravelTimeTypeOK ==
  ASSUME TypeOK, \A e \in edges : IsEdge(e), NEW stationA, NEW stationB, NEW time \in Times,
         NEW result \in BOOLEAN, SetTravelTime(stationA, stationB, time, result),
         UNCHANGED stage, ok' \in BOOLEAN
  PROVE  TypeOK'
  <1>1. \A f \in edges' : \E e \in edges :
          /\ f.from = e.from /\ f.nextStop = e.nextStop
          /\ f.travelTime = IF Between(e, stationA, stationB) THEN time ELSE e.travelTime
    BY SetTravelTimeEdges
  <1>2. \A e \in edges' : {e.from, e.nextStop} \subseteq stations /\ e.travelTime \in Nat
    BY <1>1 DEF TypeOK
  <1>3. timed' \in 0 .. MaxTimes
    <2>1. timed < MaxTimes /\ timed' = timed + 1
      BY DEF SetTravelTime
    <2>2. timed \in 0 .. MaxTimes
      BY DEF TypeOK
    <2> QED
      BY <2>1, <2>2
  <1>4. UNCHANGED <<passengerCount, lines, added>>
    BY DEF SetTravelTime
  <1> QED
    BY <1>2, <1>3, <1>4 DEF TypeOK, stations

\* RecordPassengerEvent and SetNetworkCrowding.
LEMMA PassengerEventTypeOK ==
  ASSUME TypeOK, PassengerEvent
  PROVE  TypeOK'
  <1>1. stations' = stations /\ passengerCount' \in [stations -> Int]
    <2>1. ASSUME NEW station \in Stations, NEW change \in {1, -1}, NEW result \in BOOLEAN,
                 RecordPassengerEvent(station, change, result)
          PROVE  stations' = stations /\ passengerCount' \in [stations -> Int]
      <3>1. passengerCount \in [stations -> Int]
        BY DEF TypeOK
      <3>2. passengerCount' =
              [s \in stations |-> passengerCount[s] + IF s = station THEN change ELSE 0]
        BY <2>1 DEF RecordPassengerEvent
      <3>3. \A s \in stations : passengerCount[s] + (IF s = station THEN change ELSE 0) \in Int
        BY <3>1
      <3>4. passengerCount' \in [stations -> Int]
        BY <3>2, <3>3
      <3> QED
        BY <3>4 DEF stations
    <2>2. ASSUME NEW known \in SUBSET Stations, NEW counts \in [known -> Counts],
                 SetNetworkCrowding(counts)
          PROVE  stations' = stations /\ passengerCount' \in [stations -> Int]
      <3>1. passengerCount \in [stations -> Int]
        BY DEF TypeOK
      <3>2. passengerCount' =
              [s \in stations |-> passengerCount[s] + IF s \in DOMAIN counts THEN counts[s] ELSE 0]
        BY <2>2 DEF SetNetworkCrowding
      <3>3. \A s \in stations :
              passengerCount[s] + (IF s \in DOMAIN counts THEN counts[s] ELSE 0) \in Int
        <4>1. \A s \in DOMAIN counts : counts[s] \in Int
          OBVIOUS
        <4> QED
          BY <3>1, <4>1
      <3>4. passengerCount' \in [stations -> Int]
        BY <3>2, <3>3
      <3> QED
        BY <3>4 DEF stations
    <2> QED
      BY <2>1, <2>2 DEF PassengerEvent
  <1>2. UNCHANGED <<stage, ok, lines, edges, added, timed>>
    BY DEF PassengerEvent, RecordPassengerEvent, SetNetworkCrowding
  <1> QED
    BY <1>1, <1>2 DEF TypeOK

\* Every step keeps the types, given what an edge is.
LEMMA NextTypeOK == TypeOK /\ (\A e \in edges : IsEdge(e)) /\ [Next]_vars => TypeOK'
  <1> SUFFICES ASSUME TypeOK, \A e \in edges : IsEdge(e), [Next]_vars PROVE TypeOK'
    OBVIOUS
  <1>1. CASE UNCHANGED vars
    BY <1>1 DEF TypeOK, vars, stations
  <1>2. CASE LoadStation
    BY <1>2, AddStationTypeOK DEF LoadStation, Loading
  <1>3. CASE LoadLine
    BY <1>3, AddLineTypeOK DEF LoadLine, Loading
  <1>4. CASE LoadTravelTime
    <2>1. PICK stationA \in Stations, stationB \in Stations, time \in Times, result \in BOOLEAN :
            /\ SetTravelTime(stationA, stationB, time, result)
            /\ Loading("times", "times")
            /\ ok' = (ok /\ result)
      BY <1>4 DEF LoadTravelTime
    <2>2. UNCHANGED stage /\ ok' \in BOOLEAN
      BY <2>1 DEF Loading
    <2> QED
      BY <2>1, <2>2, SetTravelTimeTypeOK
  <1>5. CASE NextSection
    BY <1>5 DEF NextSection, Loading, graphVars, TypeOK, stations
  <1>6. CASE PassengerEvent
    BY <1>6, PassengerEventTypeOK
  <1> QED
    BY <1>1, <1>2, <1>3, <1>4, <1>5, <1>6 DEF Next

-----------------------------------------------------------------------------
(* The graph and the stored routes *)

\* The edges of the stored routes, as AddRouteToLine made them: the graph has them
\* whatever happens, and others only once AddLine has refused a line.
RouteEdges == UNION {EdgesOf(r) : r \in StoredRoutes}
GraphIsRoutes ==
  /\ RouteEdges \subseteq {Untimed(e) : e \in edges}
  /\ stage # "thrown" => {Untimed(e) : e \in edges} = RouteEdges

\* The invariant without the part that follows from the rest of it.
GraphCore ==
  /\ RoutesWellFormed
  /\ \A e \in edges : IsEdge(e)
  /\ NoTimesYet
  /\ TravelTimesAgree
  /\ GraphIsRoutes

\* A route visits no station twice, and the times agree: an edge is known by its
\* route and the station it leaves.
LEMMA CoreMatchesRoutes == GraphCore => GraphMatchesRoutes
  <1> SUFFICES ASSUME GraphCore, stage # "thrown"
               PROVE  /\ {[e EXCEPT !.travelTime = 0] : e \in edges}
                           = UNION {EdgesOf(r) : r \in StoredRoutes}
                      /\ \A e, f \in edges : e.route = f.route /\ e.from = f.from => e = f
    BY DEF GraphMatchesRoutes
  <1>1. {[e EXCEPT !.travelTime = 0] : e \in edges} = UNION {EdgesOf(r) : r \in StoredRoutes}
    BY DEF GraphCore, GraphIsRoutes, RouteEdges, Untimed
  <1>2. ASSUME NEW e \in edges, NEW f \in edges, e.route = f.route, e.from = f.from
        PROVE  e = f
    <2> DEFINE stops == e.route.stops
    <2>1. PICK i \in 1 .. Len(stops) - 1 :
            e = [route |-> e.route, from |-> stops[i], nextStop |-> stops[i + 1],
                 travelTime |-> e.travelTime]
      BY DEF GraphCore, IsEdge
    <2>2. PICK j \in 1 .. Len(stops) - 1 :
            f = [route |-> e.route, from |-> stops[j], nextStop |-> stops[j + 1],
                 travelTime |-> f.travelTime]
      BY <1>2 DEF GraphCore, IsEdge
    <2>3. stops \in Seq(Stations) /\ IsInjective(stops)
      BY DEF GraphCore, IsEdge, WellFormed
    <2>4. stops[i] = stops[j] /\ i \in DOMAIN stops /\ j \in DOMAIN stops
      BY <1>2, <2>1, <2>2, <2>3
    <2>5. i = j
      BY <2>3, <2>4 DEF IsInjective
    <2>6. e.from = f.from /\ e.nextStop = f.nextStop
      BY <2>1, <2>2, <2>5
    <2>7. e.travelTime = f.travelTime
      BY <2>6 DEF GraphCore, TravelTimesAgree
    <2> QED
      BY <2>1, <2>2, <2>5, <2>7
  <1> QED
    BY <1>1, <1>2

\* Steps that leave the lines and the edges alone.
LEMMA CoreFrame ==
  ASSUME GraphCore, UNCHANGED <<lines, edges>>, stage # "thrown" \/ stage' = "thrown",
         stage' \in {"stations", "lines"} => stage \in {"stations", "lines"}
  PROVE  GraphCore'
  BY DEF GraphCore, RoutesWellFormed, StoredRoutes, NoTimesYet, TravelTimesAgree,
         GraphIsRoutes, RouteEdges, Untimed

\* AddLine while no edge has a time: if it stores the line, exactly the line's edges
\* are new (AddRouteToLine, transport-network.cpp:723-767).
LEMMA AddLineCore ==
  ASSUME GraphCore, NEW line \in NewLines, NEW result \in BOOLEAN, AddLine(line, result),
         stage = "lines", stage' = IF result THEN "lines" ELSE "thrown"
  PROVE  GraphCore'
  <1> DEFINE new == {i \in DOMAIN line.routes : \A j \in 1 .. i : CanAddRoute(line, j)}
             routes == {RouteOf(line, i) : i \in new}
             fresh == UNION {EdgesOf(r) : r \in routes}
  <1>1. \A r \in routes : r.stops \in Seq(Stations) /\ WellFormed(r)
    BY NewRouteFacts
  <1>2. \/ edges' = edges /\ ~result
        \/ edges' = edges \cup fresh
    BY DEF AddLine
  <1>3. \/ lines' = lines /\ ~result
        \/ /\ result /\ line.id \notin DOMAIN lines
           /\ lines' = [l \in DOMAIN lines \cup {line.id} |->
                          IF l = line.id THEN routes ELSE lines[l]]
           /\ edges' = edges \cup fresh
    BY DEF AddLine
  <1> HIDE DEF routes
  <1>4. \A e \in fresh : IsEdge(e) /\ e.travelTime = 0 /\ Untimed(e) = e
    <2> SUFFICES ASSUME NEW r \in routes, NEW e \in EdgesOf(r)
                 PROVE  IsEdge(e) /\ e.travelTime = 0 /\ Untimed(e) = e
      OBVIOUS
    <2>1. IsEdge(e) /\ e.travelTime = 0
      BY <1>1, EdgesOfFacts
    <2> QED
      BY <2>1 DEF Untimed, IsEdge
  <1> HIDE DEF fresh
  <1>5. StoredRoutes' = IF result THEN StoredRoutes \cup routes ELSE StoredRoutes
    <2>1. CASE result
      BY <1>3, <2>1 DEF StoredRoutes, Range
    <2>2. CASE ~result
      BY <1>3, <2>2 DEF StoredRoutes
    <2> QED
      BY <2>1, <2>2
  <1>6. RoutesWellFormed'
    BY <1>1, <1>5 DEF GraphCore, RoutesWellFormed
  <1>7. \A e \in edges' : IsEdge(e) /\ e.travelTime = 0
    BY <1>2, <1>4 DEF GraphCore, NoTimesYet
  <1>8. GraphIsRoutes'
    <2>1. ASSUME result PROVE {Untimed(e) : e \in edges'} = RouteEdges'
      <3>1. RouteEdges' = RouteEdges \cup fresh
        BY <1>5, <2>1 DEF RouteEdges, fresh, EdgesOf
      <3>2. {Untimed(e) : e \in edges'} = {Untimed(e) : e \in edges} \cup fresh
        BY <1>3, <1>4, <2>1
      <3> QED
        BY <3>1, <3>2 DEF GraphCore, GraphIsRoutes
    <2>2. ASSUME ~result PROVE RouteEdges' \subseteq {Untimed(e) : e \in edges'}
      <3>1. RouteEdges' = RouteEdges
        BY <1>5, <2>2 DEF RouteEdges, EdgesOf
      <3>2. {Untimed(e) : e \in edges} \subseteq {Untimed(e) : e \in edges'}
        BY <1>2
      <3> QED
        BY <3>1, <3>2 DEF GraphCore, GraphIsRoutes
    <2> QED
      BY <2>1, <2>2 DEF GraphIsRoutes, Untimed
  <1> QED
    BY <1>6, <1>7, <1>8 DEF GraphCore, NoTimesYet, TravelTimesAgree

\* SetTravelTime gives every edge between the two stations the same time, in both
\* directions and on every route (transport-network.cpp:353-381).
LEMMA SetTravelTimeCore ==
  ASSUME GraphCore, NEW stationA, NEW stationB, NEW time, NEW result,
         SetTravelTime(stationA, stationB, time, result), stage = "times", UNCHANGED stage
  PROVE  GraphCore'
  <1>1. /\ \A f \in edges' : \E e \in edges :
              /\ f.route = e.route /\ f.from = e.from /\ f.nextStop = e.nextStop
              /\ f.travelTime = IF Between(e, stationA, stationB) THEN time ELSE e.travelTime
              /\ IsEdge(f)
              /\ Untimed(f) = Untimed(e)
        /\ \A e \in edges : \E f \in edges' : Untimed(f) = Untimed(e)
    BY SetTravelTimeEdges DEF GraphCore
  <1>2. UNCHANGED lines
    BY DEF SetTravelTime
  <1>3. RoutesWellFormed' /\ NoTimesYet'
    BY <1>2 DEF GraphCore, RoutesWellFormed, StoredRoutes, NoTimesYet
  <1>4. TravelTimesAgree'
    <2> SUFFICES ASSUME NEW f \in edges', NEW g \in edges',
                        {f.from, f.nextStop} = {g.from, g.nextStop}
                 PROVE  f.travelTime = g.travelTime
      BY DEF TravelTimesAgree
    <2>1. PICK d \in edges :
            /\ f.from = d.from /\ f.nextStop = d.nextStop
            /\ f.travelTime = IF Between(d, stationA, stationB) THEN time ELSE d.travelTime
      BY <1>1
    <2>2. PICK e \in edges :
            /\ g.from = e.from /\ g.nextStop = e.nextStop
            /\ g.travelTime = IF Between(e, stationA, stationB) THEN time ELSE e.travelTime
      BY <1>1
    <2>3. \/ d.from = e.from /\ d.nextStop = e.nextStop
          \/ d.from = e.nextStop /\ d.nextStop = e.from
      BY <2>1, <2>2
    <2>4. Between(d, stationA, stationB) <=> Between(e, stationA, stationB)
      BY <2>3 DEF Between, Connects
    <2>5. d.travelTime = e.travelTime
      BY <2>1, <2>2 DEF GraphCore, TravelTimesAgree
    <2> QED
      BY <2>1, <2>2, <2>4, <2>5
  <1>5. GraphIsRoutes'
    <2>1. {Untimed(e) : e \in edges'} = {Untimed(e) : e \in edges}
      BY <1>1
    <2>2. RouteEdges' = RouteEdges
      BY <1>2 DEF RouteEdges, StoredRoutes
    <2> QED
      BY <2>1, <2>2 DEF GraphCore, GraphIsRoutes
  <1> QED
    BY <1>1, <1>3, <1>4, <1>5 DEF GraphCore

\* Every step keeps the invariant of the graph.
LEMMA NextCore == GraphCore /\ [Next]_vars => GraphCore'
  <1> SUFFICES ASSUME GraphCore, [Next]_vars PROVE GraphCore'
    OBVIOUS
  <1>1. CASE UNCHANGED vars
    BY <1>1, CoreFrame DEF vars
  <1>2. CASE LoadStation
    BY <1>2, CoreFrame DEF LoadStation, AddStation, Loading
  <1>3. CASE LoadLine
    BY <1>3, AddLineCore DEF LoadLine, Loading
  <1>4. CASE LoadTravelTime
    BY <1>4, SetTravelTimeCore DEF LoadTravelTime, Loading
  <1>5. CASE NextSection
    BY <1>5, CoreFrame DEF NextSection, Loading, graphVars
  <1>6. CASE PassengerEvent
    BY <1>6, CoreFrame DEF PassengerEvent, RecordPassengerEvent, SetNetworkCrowding
  <1> QED
    BY <1>1, <1>2, <1>3, <1>4, <1>5, <1>6 DEF Next

\* The empty network has the invariant.
LEMMA InitCore == Init => GraphCore
  BY DEF Init, GraphCore, RoutesWellFormed, StoredRoutes, Range, NoTimesYet,
         TravelTimesAgree, GraphIsRoutes, RouteEdges

\* Every reachable state has the types the code declares, and the graph its invariant.
LEMMA TypesAndCore == Spec => [](TypeOK /\ GraphCore)
  <1>1. Init => TypeOK /\ GraphCore
    BY InitTypeOK, InitCore
  <1>2. TypeOK /\ GraphCore /\ [Next]_vars => (TypeOK /\ GraphCore)'
    BY NextTypeOK, NextCore DEF GraphCore
  <1> QED
    BY <1>1, <1>2, PTL DEF Spec

\* Every reachable state of the network is well typed: counts of known stations,
\* routes and edges over known stations, whatever a document holds.
THEOREM NetworkTypeCorrect == Spec => []TypeOK
  BY TypesAndCore, PTL

\* The invariant that carries the theorems below.
THEOREM GraphInvariantHolds == Spec => []GraphInvariant
  <1>1. GraphCore => GraphInvariant
    BY CoreMatchesRoutes DEF GraphCore, GraphInvariant
  <1> QED
    BY <1>1, TypesAndCore, PTL

\* A network that FromJson accepted has exactly the edges of its stored routes, one
\* for each pair of consecutive stops.
THEOREM GraphMatchesRoutesHolds == Spec => []GraphMatchesRoutes
  BY GraphInvariantHolds, PTL DEF GraphInvariant

\* All edges between two stations have the same travel time: GetTravelTime may take
\* the first it finds.
THEOREM TravelTimesAgreeHolds == Spec => []TravelTimesAgree
  BY GraphInvariantHolds, PTL DEF GraphInvariant

\* GetRoutesServingStation finds every stored route of a station, and no other.
THEOREM ServingRoutesCompleteHolds == Spec => []ServingRoutesComplete
  <1>1. GraphCore => ServingRoutesComplete
    <2> SUFFICES ASSUME GraphCore, stage # "thrown", NEW s \in stations
                 PROVE  GetRoutesServingStation(s) = {r \in StoredRoutes : s \in Range(r.stops)}
      BY DEF ServingRoutesComplete
    <2>1. {Untimed(e) : e \in edges} = RouteEdges
      BY DEF GraphCore, GraphIsRoutes
    <2>2. ASSUME NEW e \in edges, e.from = s
          PROVE  e.route \in StoredRoutes /\ s \in Range(e.route.stops)
      <3>1. PICK r \in StoredRoutes : Untimed(e) \in EdgesOf(r)
        BY <2>1 DEF RouteEdges
      <3>2. Untimed(e).route = e.route /\ Untimed(e).from = e.from
        BY DEF Untimed, GraphCore, IsEdge
      <3> QED
        BY <2>2, <3>1, <3>2, EdgesOfFacts DEF GraphCore, RoutesWellFormed
    <2>3. ASSUME NEW r \in StoredRoutes, r.stops[Len(r.stops)] = s
          PROVE  s \in Range(r.stops)
      <3>1. r.stops \in Seq(Stations) /\ Len(r.stops) > 1
        BY DEF GraphCore, RoutesWellFormed, WellFormed
      <3>2. Len(r.stops) \in DOMAIN r.stops
        BY <3>1
      <3> QED
        BY <2>3, <3>2 DEF Range
    <2>4. ASSUME NEW r \in StoredRoutes, s \in Range(r.stops), r.stops[Len(r.stops)] # s
          PROVE  \E e \in edges : e.from = s /\ e.route = r
      <3>1. PICK i \in DOMAIN r.stops : r.stops[i] = s
        BY <2>4 DEF Range
      <3>2. i \in 1 .. Len(r.stops) - 1
        BY <2>4, <3>1 DEF GraphCore, RoutesWellFormed
      <3> DEFINE d == [route |-> r, from |-> r.stops[i], nextStop |-> r.stops[i + 1],
                       travelTime |-> 0]
      <3>3. d \in EdgesOf(r)
        BY <3>2 DEF EdgesOf
      <3>4. PICK e \in edges : Untimed(e) = d
        BY <2>1, <3>3 DEF RouteEdges
      <3>5. Untimed(e).route = e.route /\ Untimed(e).from = e.from
        BY DEF Untimed, GraphCore, IsEdge
      <3> QED
        BY <3>1, <3>4, <3>5
    <2> QED
      BY <2>2, <2>3, <2>4 DEF GetRoutesServingStation
  <1> QED
    BY <1>1, TypesAndCore, PTL

-----------------------------------------------------------------------------
(* Travel times along a route *)

\* A set of numbers that is not empty has a least one.
LEMMA LeastOf ==
  ASSUME NEW S \in SUBSET Nat, S # {}
  PROVE  \E m \in S : \A n \in S : m <= n
  <1> DEFINE Less == {p \in Nat \X Nat : p[1] < p[2]}
  <1>1. IsWellFoundedOn(Less, Nat)
    BY NatLessThanWellFounded DEF OpToRel
  <1>2. S \subseteq Nat
    OBVIOUS
  <1>3. PICK m \in S : \A n \in S : ~(<<n, m>> \in Less)
    BY ONLY <1>1, <1>2, WFMin, S # {}
  <1>4. \A n \in S : ~(n < m)
    BY <1>3
  <1> QED
    BY <1>4

\* Two functions that start alike, and at each place agree if they did at the one
\* before, agree up to n.
InStep(a, n, f, g) ==
  /\ f[a] = g[a]
  /\ \A k \in a .. n : k # a /\ f[k - 1] = g[k - 1] => f[k] = g[k]
LEMMA AgreeUpTo ==
  ASSUME NEW a \in Nat, NEW n \in Nat, NEW f, NEW g, InStep(a, n, f, g)
  PROVE  \A k \in a .. n : f[k] = g[k]
  <1> DEFINE wrong == {k \in a .. n : f[k] # g[k]}
  <1>1. ASSUME wrong # {} PROVE FALSE
    <2>1. wrong \in SUBSET Nat
      OBVIOUS
    <2>2. PICK m \in wrong : \A k \in wrong : m <= k
      BY <1>1, <2>1, LeastOf
    <2>3. m \in a .. n /\ m # a /\ f[m] # g[m]
      BY DEF InStep
    <2>4. m - 1 \in a .. n /\ ~(m <= m - 1)
      BY <2>3
    <2>5. m - 1 \notin wrong
      <3> HIDE DEF wrong
      <3> QED
        BY <2>2, <2>4
    <2> QED
      BY <2>3, <2>4, <2>5 DEF InStep
  <1> QED
    BY <1>1

\* The running sum of t from the i-th place on exists.
IsSum(f, n, i, t) ==
  /\ f \in [0 .. n -> Nat]
  /\ \A k \in 0 .. n : f[k] = IF k <= i THEN 0 ELSE f[k - 1] + t[k - 1]
LEMMA SumExists ==
  ASSUME NEW n \in Nat, NEW i \in Nat, NEW t, \A k \in i .. n - 1 : t[k] \in Nat
  PROVE  \E f : IsSum(f, n, i, t)
  <1> DEFINE none == {m \in 0 .. n : ~ \E f : IsSum(f, m, i, t)}
  <1>1. ASSUME none # {} PROVE FALSE
    <2>1. none \in SUBSET Nat
      OBVIOUS
    <2>2. PICK m \in none : \A k \in none : m <= k
      BY <1>1, <2>1, LeastOf
    <2>3. m # 0
      <3>1. IsSum([k \in 0 .. 0 |-> 0], 0, i, t)
        BY DEF IsSum
      <3> QED
        BY <2>2, <3>1
    <2>4. m \in 1 .. n /\ m - 1 \in 0 .. n /\ ~(m <= m - 1)
      BY <2>2, <2>3
    <2>5. m - 1 \notin none
      <3> HIDE DEF none
      <3> QED
        BY <2>2, <2>4
    <2>6. PICK f : IsSum(f, m - 1, i, t)
      BY <2>4, <2>5
    <2> DEFINE g == [k \in 0 .. m |-> IF k < m THEN f[k] ELSE
                                        IF m <= i THEN 0 ELSE f[m - 1] + t[m - 1]]
    <2>7. f[m - 1] \in Nat /\ (m <= i \/ t[m - 1] \in Nat)
      BY <2>4, <2>6 DEF IsSum
    <2>8. g \in [0 .. m -> Nat]
      BY <2>4, <2>6, <2>7 DEF IsSum
    <2>9. \A k \in 0 .. m : g[k] = IF k <= i THEN 0 ELSE g[k - 1] + t[k - 1]
      <3>1. ASSUME NEW k \in 0 .. m, k < m
            PROVE  g[k] = IF k <= i THEN 0 ELSE g[k - 1] + t[k - 1]
        <4>1. k \in 0 .. m - 1 /\ g[k] = f[k]
          BY <2>4, <3>1
        <4>2. f[k] = IF k <= i THEN 0 ELSE f[k - 1] + t[k - 1]
          BY <2>6, <4>1 DEF IsSum
        <4>3. ~(k <= i) => k - 1 \in 0 .. m /\ k - 1 < m
          BY <2>4, <3>1
        <4>4. ~(k <= i) => g[k - 1] = f[k - 1]
          BY <4>3
        <4> QED
          BY <4>1, <4>2, <4>4
      <3>2. g[m] = IF m <= i THEN 0 ELSE g[m - 1] + t[m - 1]
        BY <2>4
      <3> QED
        BY <2>4, <3>1, <3>2
    <2>10. IsSum(g, m, i, t)
      <3> HIDE DEF g
      <3> QED
        BY <2>8, <2>9 DEF IsSum
    <2> QED
      BY <2>2, <2>10
  <1>2. n \in 0 .. n
    OBVIOUS
  <1> QED
    BY <1>1, <1>2

\* The edge of a stored route at its k-th stop is there, and it is the only one: the
\* time GetTravelTime finds along the route is the one it finds between the two stops.
EdgeTime(r, k) == (CHOOSE e \in FindEdgeForRoute(r.stops[k], r) : TRUE).travelTime
AdjacentTime(r, k) == CHOOSE t \in GetTravelTime(r.stops[k], r.stops[k + 1]) : TRUE
LEMMA EdgeTimeFacts ==
  ASSUME TypeOK, GraphCore, NEW r \in StoredRoutes, NEW k \in 1 .. Len(r.stops) - 1
  PROVE  /\ EdgeTime(r, k) \in Nat
         /\ AdjacentTime(r, k) = EdgeTime(r, k)
  <1> DEFINE stops == r.stops
             d == [route |-> r, from |-> stops[k], nextStop |-> stops[k + 1], travelTime |-> 0]
             c == CHOOSE e \in FindEdgeForRoute(stops[k], r) : TRUE
  <1>1. stops \in Seq(Stations) /\ IsInjective(stops) /\ k \in DOMAIN stops
    BY DEF GraphCore, RoutesWellFormed, WellFormed
  <1>2. d \in RouteEdges
    <2>1. d \in EdgesOf(r)
      BY DEF EdgesOf
    <2> HIDE DEF d
    <2> QED
      BY <2>1 DEF RouteEdges
  <1>3. PICK f \in edges : Untimed(f) = d
    BY <1>2 DEF GraphCore, GraphIsRoutes
  <1>4. Untimed(f).route = f.route /\ Untimed(f).from = f.from
    BY DEF Untimed, GraphCore, IsEdge
  <1>5. f \in FindEdgeForRoute(stops[k], r)
    BY <1>3, <1>4 DEF FindEdgeForRoute
  <1>6. c \in FindEdgeForRoute(stops[k], r)
    BY <1>5
  <1> HIDE DEF c
  <1>7. c \in edges /\ c.from = stops[k] /\ c.route = r
    BY <1>6 DEF FindEdgeForRoute
  <1>8. c.nextStop = stops[k + 1]
    <2>1. PICK i \in 1 .. Len(stops) - 1 :
            c = [route |-> r, from |-> stops[i], nextStop |-> stops[i + 1],
                 travelTime |-> c.travelTime]
      BY <1>7 DEF GraphCore, IsEdge
    <2>2. i \in DOMAIN stops /\ stops[i] = stops[k] /\ c.nextStop = stops[i + 1]
      BY <1>1, <1>7, <2>1
    <2>3. i = k
      BY <1>1, <2>2 DEF IsInjective
    <2> QED
      BY <2>2, <2>3
  <1>9. c.travelTime \in Nat
    BY <1>7 DEF TypeOK
  <1>10. GetTravelTime(stops[k], stops[k + 1]) = {c.travelTime}
    <2> DEFINE there == {e \in edges : Connects(e, stops[k], stops[k + 1])}
    <2>1. c \in there
      BY <1>7, <1>8 DEF Connects
    <2>2. \A e \in there : e.travelTime = c.travelTime
      BY <1>7, <1>8 DEF Connects, GraphCore, TravelTimesAgree
    <2>3. GetTravelTime(stops[k], stops[k + 1]) = {e.travelTime : e \in there}
      BY <2>1 DEF GetTravelTime
    <2> HIDE DEF there
    <2> QED
      BY <2>1, <2>2, <2>3
  <1>11. (CHOOSE t \in {c.travelTime} : TRUE) = c.travelTime
    OBVIOUS
  <1>12. EdgeTime(r, k) = c.travelTime
    BY DEF EdgeTime, c
  <1> QED
    BY <1>9, <1>10, <1>11, <1>12 DEF AdjacentTime

\* The two recursive definitions: the walk of GetTravelTime along a route, and the sum
\* of RouteTimeCumulative.
Walked(r, stationA, g) ==
  [k \in DOMAIN r.stops |->
     IF k = 1 THEN 0
     ELSE g[k - 1] + IF FoundA(r, stationA, k - 1) THEN EdgeTime(r, k - 1) ELSE 0]
Summed(r, i, g) ==
  [k \in 0 .. Len(r.stops) |->
     IF k <= i THEN 0
     ELSE g[k - 1] + AdjacentTime(r, k - 1)]
WalkOf(r, stationA) == CHOOSE g : g = Walked(r, stationA, g)
SumOf(r, i) == CHOOSE g : g = Summed(r, i, g)
TimesOf(r) == [k \in DOMAIN r.stops |-> EdgeTime(r, k)]

\* Both are the running sum of the edges' times from the i-th stop on.
LEMMA WalkedIsSum ==
  ASSUME NEW r, NEW n \in Nat, DOMAIN r.stops = 1 .. n, IsInjective(r.stops), n > 1,
         NEW i \in 1 .. n, NEW f, IsSum(f, n, i, TimesOf(r))
  PROVE  \A k \in 1 .. n : WalkOf(r, r.stops[i])[k] = f[k]
  <1> DEFINE A == r.stops[i]
             w == WalkOf(r, A)
             h == [k \in 1 .. n |-> f[k]]
  <1>0. \A k \in 0 .. n : k <= i => f[k] = 0
    BY DEF IsSum
  <1>1. ASSUME NEW k \in 2 .. n
        PROVE  /\ FoundA(r, A, k - 1) <=> ~(k <= i)
               /\ f[k - 1] \in Nat /\ k - 1 \in 1 .. n
               /\ f[k] = f[k - 1] + IF FoundA(r, A, k - 1) THEN EdgeTime(r, k - 1) ELSE 0
    <2>1. k - 1 \in 1 .. n /\ k - 1 \in 0 .. n /\ k \in 0 .. n
      OBVIOUS
    <2>2. \A j \in 1 .. n : r.stops[j] = A <=> j = i
      BY DEF IsInjective
    <2>3. FoundA(r, A, k - 1) <=> i \in 1 .. k - 1
      <3>1. \A j \in 1 .. k - 1 : j \in 1 .. n
        OBVIOUS
      <3> QED
        BY <2>2, <3>1 DEF FoundA
    <2>4. f[k - 1] \in Nat
      BY <2>1 DEF IsSum
    <2>5. CASE k <= i
      <3>1. f[k] = 0 /\ f[k - 1] = 0
        <4>1. k - 1 <= i
          BY <2>5
        <4> QED
          BY <1>0, <2>1, <2>5, <4>1
      <3> QED
        BY <2>1, <2>3, <2>5, <3>1
    <2>6. CASE ~(k <= i)
      <3>1. f[k] = f[k - 1] + EdgeTime(r, k - 1)
        BY <2>1, <2>6 DEF IsSum, TimesOf
      <3> QED
        BY <2>1, <2>3, <2>4, <2>6, <3>1
    <2> QED
      BY <2>5, <2>6
  <1>2. f[1] = 0
    BY <1>0
  <1>3. h = Walked(r, A, h)
    <2>1. \A k \in 1 .. n : h[k] = Walked(r, A, h)[k]
      <3> TAKE k \in 1 .. n
      <3>1. CASE k = 1
        BY <1>2, <3>1 DEF Walked
      <3>2. CASE k # 1
        <4>1. k \in 2 .. n
          BY <3>2
        <4>2. h[k] = f[k] /\ h[k - 1] = f[k - 1]
          BY <1>1, <4>1
        <4>3. Walked(r, A, h)[k]
                = h[k - 1] + IF FoundA(r, A, k - 1) THEN EdgeTime(r, k - 1) ELSE 0
          BY <3>2 DEF Walked
        <4> HIDE DEF h, A
        <4> QED
          BY <1>1, <4>1, <4>2, <4>3
      <3> QED
        BY <3>1, <3>2
    <2>2. h = [k \in 1 .. n |-> h[k]]
      OBVIOUS
    <2>3. Walked(r, A, h) = [k \in 1 .. n |-> Walked(r, A, h)[k]]
      BY DEF Walked
    <2> QED
      BY <2>1, <2>2, <2>3
  <1>4. w = Walked(r, A, w)
    BY <1>3 DEF WalkOf
  <1> HIDE DEF w, h
  <1>5. w[1] = f[1]
    BY <1>2, <1>4 DEF Walked
  <1>6. ASSUME NEW k \in 1 .. n, k # 1, w[k - 1] = f[k - 1]
        PROVE  w[k] = f[k]
    <2>1. k \in 2 .. n /\ k \in 1 .. n /\ k # 1
      BY <1>6
    <2>2. w[k] = w[k - 1] + IF FoundA(r, A, k - 1) THEN EdgeTime(r, k - 1) ELSE 0
      BY <1>4, <2>1 DEF Walked
    <2> QED
      BY <1>1, <1>6, <2>1, <2>2
  <1>7. \A k \in 1 .. n : w[k] = f[k]
    <2>1. 1 \in Nat /\ n \in Nat
      OBVIOUS
    <2>2. \A k \in 1 .. n : k # 1 /\ w[k - 1] = f[k - 1] => w[k] = f[k]
      BY <1>6
    <2>3. InStep(1, n, w, f)
      BY <1>5, <2>2 DEF InStep
    <2> QED
      BY ONLY <2>1, <2>3, AgreeUpTo
  <1> QED
    BY <1>7 DEF w

LEMMA SummedIsSum ==
  ASSUME NEW r, NEW n \in Nat, Len(r.stops) = n, DOMAIN r.stops = 1 .. n,
         NEW i \in 1 .. n, NEW f,
         IsSum(f, n, i, TimesOf(r)),
         \A k \in 1 .. n - 1 : AdjacentTime(r, k) = EdgeTime(r, k)
  PROVE  \A k \in 0 .. n : SumOf(r, i)[k] = f[k]
  <1> DEFINE s == SumOf(r, i)
             adjacent(k) == AdjacentTime(r, k - 1)
  <1>1. ASSUME NEW k \in 0 .. n, ~(k <= i)
        PROVE  /\ adjacent(k) = EdgeTime(r, k - 1)
               /\ f[k] = f[k - 1] + adjacent(k)
    <2>1. k - 1 \in 1 .. n - 1 /\ k - 1 \in 1 .. n
      BY <1>1
    <2>2. adjacent(k) = EdgeTime(r, k - 1)
      BY <2>1
    <2>3. f[k] = f[k - 1] + EdgeTime(r, k - 1)
      BY <1>1, <2>1 DEF IsSum, TimesOf
    <2> QED
      BY <2>2, <2>3
  <1>2. \A k \in 0 .. n : k <= i => f[k] = 0
    BY DEF IsSum
  <1>3. \A g, k : k \in 0 .. n =>
          Summed(r, i, g)[k] = IF k <= i THEN 0 ELSE g[k - 1] + adjacent(k)
    BY DEF Summed
  <1> HIDE DEF adjacent
  <1>4. f = Summed(r, i, f)
    <2>1. \A k \in 0 .. n : f[k] = Summed(r, i, f)[k]
      BY <1>1, <1>2, <1>3
    <2>2. f = [k \in 0 .. n |-> f[k]]
      BY DEF IsSum
    <2>3. Summed(r, i, f) = [k \in 0 .. n |-> Summed(r, i, f)[k]]
      BY DEF Summed
    <2> QED
      BY <2>1, <2>2, <2>3
  <1>5. s = Summed(r, i, s)
    BY <1>4 DEF SumOf
  <1> HIDE DEF s
  <1>6. \A k \in 0 .. n : s[k] = IF k <= i THEN 0 ELSE s[k - 1] + adjacent(k)
    BY <1>3, <1>5
  <1>7. s[0] = f[0]
    BY <1>2, <1>6
  <1>8. \A k \in 0 .. n : k # 0 /\ s[k - 1] = f[k - 1] => s[k] = f[k]
    BY <1>1, <1>2, <1>6
  <1>9. \A k \in 0 .. n : s[k] = f[k]
    <2>1. 0 \in Nat /\ n \in Nat
      OBVIOUS
    <2>2. InStep(0, n, s, f)
      BY <1>7, <1>8 DEF InStep
    <2> QED
      BY ONLY <2>1, <2>2, AgreeUpTo
  <1> QED
    BY <1>9 DEF s

\* GetTravelTime along a route, forwards, is the sum of what GetTravelTime finds between
\* the adjacent stops, and 0 backwards, for routes of any length.
THEOREM RouteTimeCumulativeHolds == Spec => []RouteTimeCumulative
  <1>1. TypeOK /\ GraphCore => RouteTimeCumulative
    <2> SUFFICES ASSUME TypeOK, GraphCore, NEW r \in StoredRoutes,
                        NEW i \in DOMAIN r.stops, NEW j \in DOMAIN r.stops
                 PROVE  GetRouteTravelTime(r, r.stops[i], r.stops[j])
                          = SumOf(r, i)[j]
      BY DEF RouteTimeCumulative, SumOf, Summed, AdjacentTime
    <2> DEFINE n == Len(r.stops)
               atB == {k \in DOMAIN r.stops : r.stops[k] = r.stops[j]}
    <2>1. /\ DOMAIN r.stops = 1 .. n /\ n \in Nat /\ n > 1 /\ IsInjective(r.stops)
      BY DEF GraphCore, RoutesWellFormed, WellFormed
    <2>2. \A k \in 1 .. n - 1 :
            /\ EdgeTime(r, k) \in Nat
            /\ AdjacentTime(r, k) = EdgeTime(r, k)
      BY EdgeTimeFacts
    <2>3. PICK f : IsSum(f, n, i, TimesOf(r))
      <3>1. i \in Nat /\ \A k \in i .. n - 1 : TimesOf(r)[k] \in Nat
        BY <2>1, <2>2 DEF TimesOf
      <3> QED
        BY <2>1, <3>1, SumExists
    <2>4. WalkOf(r, r.stops[i])[j] = f[j]
      BY <2>1, <2>3, WalkedIsSum
    <2>5. SumOf(r, i)[j] = f[j]
      <3>1. j \in 0 .. n /\ i \in 1 .. n /\ Len(r.stops) = n
        BY <2>1
      <3> HIDE DEF n
      <3> QED
        BY ONLY <2>1, <2>2, <2>3, <3>1, SummedIsSum
    <2>6. atB = {j}
      BY <2>1 DEF IsInjective
    <2>7. GetRouteTravelTime(r, r.stops[i], r.stops[j])
            = IF atB = {} THEN 0 ELSE WalkOf(r, r.stops[i])[CHOOSE k \in atB : TRUE]
      BY DEF GetRouteTravelTime, WalkOf, Walked, EdgeTime
    <2>8. (CHOOSE k \in {j} : TRUE) = j
      OBVIOUS
    <2> QED
      BY <2>4, <2>5, <2>6, <2>7, <2>8
  <1> QED
    BY <1>1, TypesAndCore, PTL

=============================================================================
