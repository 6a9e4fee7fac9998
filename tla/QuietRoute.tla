----------------------------- MODULE QuietRoute -----------------------------
(***************************************************************************)
(* GetFastestTravelRoute and GetQuietTravelRoute of TransportNetwork, with *)
(* the search of FastestRoute inside: the first search, the variant of     *)
(* Yen's algorithm that looks for more paths (GetFastestTravelRoutes), and *)
(* the choice of the quiet one.                                            *)
(*                                                                         *)
(* Percentages are fractions Num/Den; instances use fractions a double     *)
(* represents exactly.  Passenger counts are read only at the choice.      *)
(***************************************************************************)
EXTENDS FastestRoute, Bags, SequencesExt

CONSTANTS
  Queries,         \* the pairs of stations asked for
  NoStation,       \* a station id that is not in the network
  Slowdown,        \* maxSlowdownPc, as <<Num, Den>>
  Quietness,       \* minQuietnessPc, as <<Num, Den>>
  MaxNPaths,       \* maxNPaths
  PassengerCounts, \* the counts at the stations, each a function
  UIntSize         \* one more than the largest unsigned int, 2^32 in the code

ASSUME QueryAssumption ==
  Queries \subseteq (Stations \cup {NoStation}) \X (Stations \cup {NoStation})
ASSUME PercentAssumption ==
  \A pc \in {Slowdown, Quietness} : pc[1] \in Nat /\ pc[2] \in Nat \ {0} /\ pc[1] <= pc[2]
ASSUME SizesAssumption == MaxNPaths \in Nat /\ UIntSize \in Nat \ {0}

VARIABLES
  phase,           \* where the call is
  query,           \* the stations asked for
  quiet,           \* whether this is GetQuietTravelRoute
  fastestPaths,    \* the paths found, in the order found
  potentialPaths,  \* the priority queue of candidates, a bag
  idx,             \* the place on the last path where the spur starts
  passengerCount,  \* the counts the choice has read
  result           \* the TravelRoute returned

yenVars == <<fastestPaths, potentialPaths, idx>>
callVars == <<edges, query, quiet>>
vars == <<edges, stopA, stationB, excludedStops, distFromA, previousStop, nodesToVisit,
          phase, query, quiet, fastestPaths, potentialPaths, idx, passengerCount, result>>

-----------------------------------------------------------------------------
(* Data *)

TravelTime(path) == Last(path).dist
NoCounts == [s \in {} |-> 0]
NoTravelRoute == [start |-> NoStation, end |-> NoStation, totalTravelTime |-> 0, steps |-> <<>>]
Route(total, steps) ==
  [start |-> query[1], end |-> query[2], totalTravelTime |-> total, steps |-> steps]
StepTo(from, to, route, time) ==
  [start |-> from, end |-> to, route |-> route, travelTime |-> time]

StayStep(station) == StepTo(station, station, NoEdge, 0)
Assemble(path) ==
  Route(TravelTime(path),
        [i \in 1 .. Len(path) - 1 |->
           StepTo(path[i].stop.node, path[i + 1].stop.node,
                  path[i + 1].stop.edge.route, path[i + 1].stop.edge.travelTime)])

-----------------------------------------------------------------------------
(* The call *)

Init ==
  /\ edges \in Networks
  /\ query \in Queries
  /\ quiet \in BOOLEAN
  /\ phase = "called"
  /\ stopA = ColdStart(query[1])
  /\ stationB = query[2]
  /\ excludedStops = {}
  /\ distFromA = [s \in {} |-> 0]
  /\ previousStop = [s \in {} |-> stopA.stop]
  /\ nodesToVisit = {}
  /\ fastestPaths = <<>>
  /\ potentialPaths = EmptyBag
  /\ idx = 1
  /\ passengerCount = NoCounts
  /\ result = NoTravelRoute

Return(route) ==
  /\ phase' = "returned"
  /\ result' = route

\* Unknown stations, and two equal ones, need no search.
CornerCase ==
  /\ phase = "called"
  /\ \/ NoStation \in {query[1], query[2]} /\ Return(NoTravelRoute)
     \/ /\ query[1] = query[2] /\ query[1] # NoStation
        /\ Return(Route(0, <<StayStep(query[1])>>))
  /\ UNCHANGED <<callVars, searchVars, yenVars, passengerCount>>

StartSearch ==
  /\ phase = "called"
  /\ NoStation \notin {query[1], query[2]} /\ query[1] # query[2]
  /\ phase' = "first"
  /\ BeginSearch(ColdStart(query[1]), query[2], {})
  /\ UNCHANGED <<callVars, yenVars, passengerCount, result>>

VisitNode ==
  /\ phase \in {"first", "spur"}
  /\ Visit
  /\ UNCHANGED <<phase, query, quiet, yenVars, passengerCount, result>>

-----------------------------------------------------------------------------
(* GetFastestTravelRoutes *)

Root(path, i) == SubSeq(path, 1, i - 1)
One(path) == SetToBag({path})

\* Faulty variant: no link is removed.
NothingRemoved(paths, i) == {}
\* The links that leave the spur on the paths with the same root.
RemovedStops(paths, i) ==
  {path[i + 1].stop : path \in {p \in ToSet(paths) :
                                  i < Len(p) /\ Root(p, i) = Root(Last(paths), i)}}

\* Faulty variant: the loop over the last path starts one stop late.
BeginSpurLate(paths, i) ==
  /\ idx' = i + 1
  /\ BeginSearch(Last(paths)[i + 1], query[2], RemovedStops(paths, i))
BeginSpur(paths, i) ==
  /\ idx' = i
  /\ BeginSearch(Last(paths)[i], query[2], RemovedStops(paths, i))

\* The head of the outer loop: look for another path, or choose.
KeepLooking(paths) ==
  IF Len(paths) < MaxNPaths
  THEN phase' = "spur" /\ BeginSpur(paths, 1)
  ELSE phase' = "choose" /\ UNCHANGED <<idx, searchVars>>

\* The first search is over: GetFastestTravelRoute answers with its path,
\* GetQuietTravelRoute goes on from it.
FirstPath ==
  /\ phase = "first" /\ SearchDone
  /\ \E path \in SearchResults :
       \/ /\ path = <<>>
          /\ Return(Route(0, <<>>))
          /\ UNCHANGED <<searchVars, yenVars>>
       \/ /\ path # <<>> /\ ~quiet
          /\ Return(Assemble(path))
          /\ UNCHANGED <<searchVars, yenVars>>
       \/ /\ path # <<>> /\ quiet
          /\ fastestPaths' = <<path>>
          /\ KeepLooking(fastestPaths')
          /\ UNCHANGED <<potentialPaths, result>>
  /\ UNCHANGED <<callVars, passengerCount>>

SpurPath ==
  /\ phase = "spur" /\ SearchDone
  /\ \E path \in SearchResults :
       potentialPaths' = IF path = <<>> THEN potentialPaths
                         ELSE potentialPaths (+) One(Root(Last(fastestPaths), idx) \o path)
  /\ \/ /\ idx + 1 < Len(Last(fastestPaths))
        /\ BeginSpur(fastestPaths, idx + 1)
        /\ UNCHANGED phase
     \/ /\ idx + 1 = Len(Last(fastestPaths))
        /\ phase' = "select"
        /\ UNCHANGED <<idx, searchVars>>
  /\ UNCHANGED <<callVars, fastestPaths, passengerCount, result>>

MaxTravelTime == (TravelTime(fastestPaths[1]) * (Slowdown[2] + Slowdown[1])) \div Slowdown[2]

\* Faulty variant: the limit is left out.
NoLimit(path) == FALSE
TooSlow(path) == TravelTime(path) > MaxTravelTime

TopPaths ==
  LET waiting == BagToSet(potentialPaths)
  IN  {p \in waiting : \A q \in waiting : TravelTime(p) <= TravelTime(q)}

\* Faulty variant: paths found before are taken again.
NeverFound(path) == FALSE
AlreadyFound(path) == path \in ToSet(fastestPaths)

\* One iteration of the inner loop: the fastest candidate is too slow, known,
\* or the next path.
SelectPath ==
  /\ phase = "select"
  /\ \/ /\ potentialPaths = EmptyBag \/ \E path \in TopPaths : TooSlow(path)
        /\ phase' = "choose"
        /\ UNCHANGED <<yenVars, searchVars>>
     \/ \E path \in TopPaths :
          /\ ~TooSlow(path)
          /\ potentialPaths' = potentialPaths (-) One(path)
          /\ \/ AlreadyFound(path) /\ UNCHANGED <<phase, fastestPaths, idx, searchVars>>
             \/ /\ ~AlreadyFound(path)
                /\ fastestPaths' = Append(fastestPaths, path)
                /\ KeepLooking(fastestPaths')
  /\ UNCHANGED <<callVars, passengerCount, result>>

-----------------------------------------------------------------------------
(* The choice *)

\* A sum over the stops of a path: of the passengers there, and as the code
\* adds them up, in an unsigned int.
Passengers(path, counts) ==
  FoldSeq(LAMBDA at, sum : sum + counts[at.stop.node], 0, path)
GetPathCrowding(path, counts) == Passengers(path, counts) % UIntSize

\* The paths that are quiet enough, compared with the fastest one.
QuietEnough(counts) ==
  LET crowding(i) == GetPathCrowding(fastestPaths[i], counts)
      maxCrowding == (crowding(1) * (Quietness[2] - Quietness[1])) \div Quietness[2]
  IN  {i \in 2 .. Len(fastestPaths) : crowding(i) <= maxCrowding /\ crowding(i) < crowding(1)}

\* Faulty variant: the first path that is quiet enough is taken.
FirstQuiet(counts) ==
  LET enough == QuietEnough(counts)
  IN  IF enough = {} THEN 1 ELSE CHOOSE i \in enough : \A j \in enough : i <= j
\* Faulty variant: of equally crowded paths the last one is kept.
LastQuiet(counts) ==
  LET crowding(i) == GetPathCrowding(fastestPaths[i], counts)
      maxCrowding == (crowding(1) * (Quietness[2] - Quietness[1])) \div Quietness[2]
      enough == {i \in DOMAIN fastestPaths : i = 1 \/ crowding(i) <= maxCrowding}
  IN  CHOOSE i \in enough :
        \A j \in enough : crowding(i) < crowding(j) \/ (crowding(i) = crowding(j) /\ i >= j)
\* The loop keeps the first of the least crowded ones, and the fastest path if
\* there is none.
MostQuiet(counts) ==
  LET crowding(i) == GetPathCrowding(fastestPaths[i], counts)
      least == {i \in QuietEnough(counts) :
                  \A j \in QuietEnough(counts) : crowding(i) <= crowding(j)}
  IN  IF least = {} THEN 1 ELSE CHOOSE i \in least : \A j \in least : i <= j

ChooseQuiet ==
  /\ phase = "choose"
  /\ \E counts \in PassengerCounts :
       /\ passengerCount' = counts
       /\ Return(Assemble(fastestPaths[MostQuiet(counts)]))
  /\ UNCHANGED <<callVars, searchVars, yenVars>>

Next ==
  CornerCase \/ StartSearch \/ VisitNode \/ FirstPath \/ SpurPath \/ SelectPath \/ ChooseQuiet

Spec == Init /\ [][Next]_vars

\* The call runs on one thread, with nothing to wait for.
FairSpec == Spec /\ WF_vars(Next)

-----------------------------------------------------------------------------
(* Properties *)

InSearch == phase \in {"first", "spur"}
Start == ColdStart(query[1])

\* Every variable has its type; the place of the spur is on the last path, and no
\* search starts at the station it looks for.
TypeOK ==
  /\ edges \subseteq Edge
  /\ query \in Queries /\ quiet \in BOOLEAN
  /\ phase \in {"called", "first", "spur", "select", "choose", "returned"}
  /\ InSearch => /\ stopA \in PathStopDist /\ stationB = query[2] /\ stopA.stop.node # stationB
                 /\ DOMAIN distFromA \subseteq PathStop
                 /\ nodesToVisit \subseteq PathStopDist
  /\ phase = "spur" => idx \in 1 .. Len(Last(fastestPaths)) - 1
  /\ \A i \in DOMAIN fastestPaths : fastestPaths[i] \in Seq(PathStopDist)
  /\ IsABag(potentialPaths) /\ BagToSet(potentialPaths) \subseteq Seq(PathStopDist)

\* The loop invariant of the search: see DistancesJustified and
\* VisitedStopsRelaxed.
SearchInvariant == InSearch => DistancesJustified /\ VisitedStopsRelaxed

\* Each search of a call finds a fastest path: see SearchFindsFastest.
EverySearchFindsFastest == InSearch => SearchFindsFastest

\* The paths GetFastestTravelRoutes collects are different paths from A to B, the
\* first no slower than any other and the others within the travel time limit, at
\* most maxNPaths of them (but always the first); candidates glued from a root and
\* a spur path are real paths too.  (After the first, a path may be faster than one
\* found before it: a spur search may go back over the root.)
PathsSound ==
  LET found == ToSet(fastestPaths)
  IN  /\ \A path \in found \cup BagToSet(potentialPaths) :
           IsPathFrom(Start, path) /\ Last(path).stop.node = query[2]
      /\ Cardinality(found) = Len(fastestPaths)
      /\ Len(fastestPaths) <= MaxNPaths \/ Len(fastestPaths) = 1
      /\ \A i \in DOMAIN fastestPaths :
           /\ TravelTime(fastestPaths[1]) <= TravelTime(fastestPaths[i])
           /\ TravelTime(fastestPaths[i]) * Slowdown[2]
                <= TravelTime(fastestPaths[1]) * (Slowdown[1] + Slowdown[2])

\* If there is a second journey within the limit, and room for it, a path at
\* least as fast is among the candidates to choose from.
SecondPathFound ==
  phase = "choose" /\ MaxNPaths > 1 =>
    \A j \in Journeys(Start, query[2], {}) \ {fastestPaths[1]} :
      ~TooSlow(j) => Len(fastestPaths) > 1 /\ TravelTime(fastestPaths[2]) <= TravelTime(j)

\* A step of a result that follows a leg of the network, with its route and time.
AlongEdge(step) ==
  \E e \in edges : step = StepTo(e.from, e.nextStop, e.route, e.travelTime)

\* The result leads from A to B step by step along the legs of the network, its
\* total is the time of its steps plus the changes of route, and exceeds the time
\* of no journey by more than the slowdown allowed (0 for GetFastestTravelRoute);
\* it has no steps exactly when there is no way to B.
ResultIsJourney ==
  LET steps == result.steps
      n == Len(steps)
      journeys == Journeys(Start, query[2], {})
      time[i \in 0 .. n] == IF i = 0 THEN 0 ELSE time[i - 1] + steps[i].travelTime
      changes == {i \in 2 .. n : steps[i].route # steps[i - 1].route}
      slowdown == IF quiet THEN Slowdown ELSE <<0, 1>>
  IN  phase = "returned" /\ NoStation \notin {query[1], query[2]} =>
        /\ steps = <<>> <=> journeys = {}
        /\ n > 0 => /\ steps[1].start = query[1] /\ steps[n].end = query[2]
                    /\ \A i \in 2 .. n : steps[i].start = steps[i - 1].end
        /\ query[1] # query[2] => \A i \in 1 .. n : AlongEdge(steps[i])
        /\ result.totalTravelTime = time[n] + RouteChangePenalty * Cardinality(changes)
        /\ \A j \in journeys :
             result.totalTravelTime * slowdown[2] <= TravelTime(j) * (slowdown[1] + slowdown[2])

\* "Here we can simply select the path with the lowest passenger count.  If the
\* path is not quiet enough, we just go with the fastest route": counted in
\* passengers, the chosen path is the least crowded of those that save enough,
\* and the fastest one if none does.
QuietestChosen ==
  phase = "returned" /\ passengerCount # NoCounts =>
    LET passengers(i) == Passengers(fastestPaths[i], passengerCount)
        saves(i) == /\ passengers(i) * Quietness[2] <= passengers(1) * (Quietness[2] - Quietness[1])
                    /\ passengers(i) < passengers(1)
    IN  \E i \in DOMAIN fastestPaths :
          /\ result = Assemble(fastestPaths[i])
          /\ i = 1 \/ saves(i)
          /\ \A j \in DOMAIN fastestPaths : saves(j) => passengers(i) <= passengers(j)

\* No station twice in a result if every leg takes some time, although the searches
\* of GetFastestTravelRoutes may go back over the root path and so find paths that
\* do: a detour makes no path less crowded, and a path over some of its stations was
\* found before.  (Along legs whose time was never set a detour may cost nothing.)
ResultHasNoDetour ==
  LET steps == result.steps
  IN  phase = "returned" /\ query[1] # query[2] /\ (\A e \in edges : e.travelTime > 0) =>
        \A i, j \in DOMAIN steps :
          /\ i # j => steps[i].start # steps[j].start
          /\ steps[i].end # query[1]

\* Every call returns: the queue of the search and the loops over paths end.
CallReturns == <>(phase = "returned")
=============================================================================
