-------------------------- MODULE QuietRouteProofs --------------------------
(***************************************************************************)
(* The calls of QuietRoute on every network: each search inside them keeps *)
(* the loop invariant of FastestRoute and returns a fastest walk; paths    *)
(* glued from a root and a spur are paths within the limit; the second one *)
(* is as fast as any other journey; the result is a journey with the total *)
(* of its steps, as fast as it has to be, and the quiet one if sums fit.   *)
(***************************************************************************)
EXTENDS QuietRoute, FastestRouteProofs, SequenceTheorems

-----------------------------------------------------------------------------
(* A search begins, goes on and ends *)

\* What holds during a search of a call.
Searching == SearchLoop /\ PreviousStopsEnd /\ StartLeft

\* The state a search begins in.
Begun ==
  /\ edges \subseteq Edge /\ stopA \in PathStopDist /\ stationB \in Stations
  /\ distFromA = [s \in {stopA.stop} |-> stopA.dist]
  /\ nodesToVisit = {stopA}

\* There the invariants hold.
LEMMA BegunSearching == Begun => Searching
  <1> SUFFICES ASSUME Begun PROVE Searching
    OBVIOUS
  <1>1. DOMAIN distFromA = {stopA.stop}
    BY DEF Begun
  <1> QED
    BY <1>1, SearchStarts, StartRanked, StartNotLeft DEF Begun, Searching

\* BeginSearch leads there.
LEMMA BeginsSearching ==
  ASSUME NEW start \in PathStopDist, NEW station \in Stations, NEW excluded,
         BeginSearch(start, station, excluded), edges \subseteq Edge, UNCHANGED edges
  PROVE  Searching' /\ stopA' = start /\ stationB' = station /\ excludedStops' = excluded
  <1>1. Begun'
    BY DEF BeginSearch, Begun
  <1>2. Searching'
    BY <1>1, BegunSearching, PTL
  <1> QED
    BY <1>2 DEF BeginSearch

\* Every iteration of the search keeps them.
LEMMA VisitSearching ==
  ASSUME Searching, Visit
  PROVE  Searching' /\ UNCHANGED <<edges, stopA, stationB, excludedStops>>
  <1>1. PICK top \in nodesToVisit : Relaxes(top)
    BY VisitRelaxes DEF SearchLoop, Searching
  <1>2. SearchLoop' /\ PreviousStopsEnd' /\ StartLeft'
    BY <1>1, VisitKeepsLoop, RelaxRanked, RelaxStartLeft DEF Searching
  <1> QED
    BY <1>1, <1>2 DEF Searching, Relaxes

\* And so do steps that leave the search alone.
LEMMA StillSearching ==
  ASSUME Searching, UNCHANGED <<edges, searchVars>>
  PROVE  Searching'
  BY DEF searchVars, Searching, SearchLoop, SearchTypeOK, QueueJustified, DistancesJustified,
         VisitedStopsRelaxed, PreviousStopsEnd, StartLeft, ChangePaid, StartFirst, LeavesFromStart

-----------------------------------------------------------------------------
(* Paths *)

\* A path from the station asked for to the other one, which is only at its end.
Trip(path) ==
  /\ path \in Seq(PathStopDist) /\ Len(path) >= 2
  /\ IsPathFrom(Start, path)
  /\ path[Len(path)].stop.node = query[2]
  /\ \A i \in 1 .. Len(path) - 1 : path[i].stop.node # query[2]

\* The time of such a path is a number.
LEMMA TripTime ==
  ASSUME NEW path, Trip(path)
  PROVE  /\ TravelTime(path) \in Nat /\ TravelTime(path) = path[Len(path)].dist
         /\ \A i \in 1 .. Len(path) : path[i] \in PathStopDist
  <1>1. Len(path) \in Nat /\ Len(path) \in 1 .. Len(path)
    BY DEF Trip
  <1>2. \A i \in 1 .. Len(path) : path[i] \in PathStopDist
    BY DEF Trip
  <1>3. path[Len(path)].dist \in Nat
    BY <1>1, <1>2 DEF PathStopDist
  <1> QED
    BY <1>2, <1>3 DEF TravelTime, Last

\* What a search returns, if it starts before station B.
LEMMA SearchReturns ==
  ASSUME Searching, SearchDone, NEW path \in SearchResults, path # <<>>,
         stopA.stop.node # stationB
  PROVE  /\ path \in Seq(PathStopDist) /\ Len(path) >= 2 /\ IsPathFrom(stopA, path)
         /\ path[Len(path)].stop.node = stationB
         /\ \A i \in 1 .. Len(path) - 1 : path[i].stop.node # stationB
  <1>1. /\ path \in Seq(PathStopDist) /\ IsWalk(path)
        /\ path[Len(path)].stop.node = stationB
    BY LoopFindsFastest DEF Searching, ResultsAreFastest
  <1>2. path[1] = stopA /\ Len(path) >= 1 /\ Len(path) \in Nat
    BY <1>1 DEF IsWalk, IsPathFrom
  <1>3. Len(path) # 1
    BY <1>1, <1>2
  <1> QED
    BY <1>1, <1>2, <1>3 DEF IsWalk

\* The stops of a root and a spur path, glued.
LEMMA GluedStops ==
  ASSUME NEW path \in Seq(PathStopDist), NEW n \in Nat, n < Len(path),
         NEW spur \in Seq(PathStopDist)
  PROVE  LET new == Root(path, n + 1) \o spur
         IN  /\ new \in Seq(PathStopDist) /\ Len(new) = n + Len(spur)
             /\ \A k \in 1 .. n : new[k] = path[k]
             /\ \A k \in 1 .. Len(spur) : new[n + k] = spur[k]
  <1> DEFINE root == Root(path, n + 1)
             new == root \o spur
  <1>1. Len(path) \in Nat /\ Len(spur) \in Nat
    OBVIOUS
  <1>2. root \in Seq(PathStopDist) /\ Len(root) = n /\ \A k \in 1 .. n : root[k] = path[k]
    BY <1>1 DEF Root
  <1> HIDE DEF root
  <1>3. /\ root \o spur \in Seq(PathStopDist) /\ Len(root \o spur) = Len(root) + Len(spur)
        /\ \A k \in 1 .. Len(root) + Len(spur) :
             (root \o spur)[k] = IF k <= Len(root) THEN root[k] ELSE spur[k - Len(root)]
    BY ONLY <1>2, spur \in Seq(PathStopDist), ConcatProperties, Zenon
  <1>4. /\ new \in Seq(PathStopDist) /\ Len(new) = n + Len(spur)
        /\ \A k \in 1 .. n + Len(spur) : new[k] = IF k <= n THEN root[k] ELSE spur[k - n]
    BY <1>2, <1>3
  <1> HIDE DEF new
  <1>5. ASSUME NEW k \in 1 .. n
        PROVE  new[k] = path[k]
    <2>1. k \in 1 .. n + Len(spur) /\ k <= n
      BY <1>1
    <2>2. new[k] = root[k]
      BY <1>4, <2>1
    <2> QED
      BY <1>2, <2>2
  <1>6. ASSUME NEW k \in 1 .. Len(spur)
        PROVE  new[n + k] = spur[k]
    <2>1. n + k \in 1 .. n + Len(spur) /\ ~(n + k <= n) /\ (n + k) - n = k
      BY <1>1
    <2> QED
      BY <1>4, <2>1
  <1> QED
    BY <1>4, <1>5, <1>6 DEF new, root

\* A root and the path of a spur search make a path.
LEMMA GluedPath ==
  ASSUME NEW path, Trip(path), NEW i \in 1 .. Len(path) - 1,
         NEW spur \in Seq(PathStopDist), Len(spur) >= 2, IsPathFrom(path[i], spur),
         spur[Len(spur)].stop.node = query[2],
         \A j \in 1 .. Len(spur) - 1 : spur[j].stop.node # query[2]
  PROVE  Trip(Root(path, i) \o spur)
  <1> DEFINE n == i - 1
             new == Root(path, i) \o spur
  <1>1. /\ path \in Seq(PathStopDist) /\ Len(path) \in Nat /\ Len(path) >= 2
        /\ n \in Nat /\ n < Len(path) /\ i = n + 1 /\ i <= Len(path)
    BY DEF Trip
  <1>2. Len(spur) \in Nat
    OBVIOUS
  <1>3. /\ new \in Seq(PathStopDist) /\ Len(new) = n + Len(spur) /\ Len(spur) \in Nat
        /\ \A k \in 1 .. n : new[k] = path[k]
        /\ \A k \in 1 .. Len(spur) : new[n + k] = spur[k]
    <2> HIDE DEF n
    <2>1. new = Root(path, n + 1) \o spur
      BY <1>1
    <2> DEFINE glued == Root(path, n + 1) \o spur
    <2>2. /\ glued \in Seq(PathStopDist) /\ Len(glued) = n + Len(spur)
          /\ \A k \in 1 .. n : glued[k] = path[k]
          /\ \A k \in 1 .. Len(spur) : glued[n + k] = spur[k]
      <3>1. path \in Seq(PathStopDist) /\ n \in Nat /\ n < Len(path)
        BY <1>1
      <3> QED
        BY ONLY <3>1, spur \in Seq(PathStopDist), GluedStops, Zenon
    <2>3. new = glued
      BY <2>1
    <2> HIDE DEF new, glued
    <2> QED
      BY ONLY <1>2, <2>2, <2>3
  <1>4. spur[1] = path[i] /\ new[i] = path[i]
    BY <1>1, <1>3 DEF IsPathFrom
  <1> HIDE DEF n, new
  <1>5. new[1] = Start
    <2>1. path[1] = Start
      BY DEF Trip, IsPathFrom
    <2>2. CASE n = 0
      BY <1>1, <1>4, <2>1, <2>2
    <2>3. CASE n # 0
      BY <1>1, <1>3, <2>1, <2>3
    <2> QED
      BY <2>2, <2>3
  <1>6. ASSUME NEW k \in 1 .. Len(new) - 1
        PROVE  LET e == new[k + 1].stop.edge
               IN  /\ e \in edges /\ e.from = new[k].stop.node
                   /\ new[k + 1] = At(StopOf(e), new[k].dist + StepCost(new[k].stop, e))
    <2>1. CASE k <= n
      <3>1. new[k] = path[k] /\ new[k + 1] = path[k + 1] /\ k \in 1 .. Len(path) - 1
        <4>1. k \in 1 .. n /\ k \in 1 .. Len(path) - 1
          BY <1>1, <2>1
        <4>2. CASE k = n
          BY <1>1, <1>3, <1>4, <4>1, <4>2
        <4>3. CASE k # n
          <5>1. k + 1 \in 1 .. n
            BY <1>1, <4>1, <4>3
          <5> QED
            BY <1>3, <4>1, <5>1
        <4> QED
          BY <4>2, <4>3
      <3> QED
        BY <3>1 DEF Trip, IsPathFrom
    <2>2. CASE k > n
      <3>1. PICK j \in 1 .. Len(spur) - 1 : k = n + j
        <4>1. k - n \in 1 .. Len(spur) - 1 /\ k = n + (k - n)
          BY <1>1, <1>3, <2>2
        <4> QED
          BY <4>1
      <3>2. j \in 1 .. Len(spur) /\ j + 1 \in 1 .. Len(spur) /\ k + 1 = n + (j + 1)
        BY <1>1, <1>3, <3>1
      <3>3. new[k] = spur[j] /\ new[k + 1] = spur[j + 1]
        BY <1>3, <3>1, <3>2
      <3> QED
        BY <3>1, <3>3 DEF IsPathFrom
    <2> QED
      BY <1>1, <2>1, <2>2
  <1>7. IsPathFrom(Start, new)
    BY <1>5, <1>6 DEF IsPathFrom
  <1>8. new[Len(new)] = spur[Len(spur)]
    <2>1. Len(spur) \in 1 .. Len(spur)
      BY <1>3
    <2> QED
      BY <1>3, <2>1
  <1>9. \A k \in 1 .. Len(new) - 1 : new[k].stop.node # query[2]
    <2> TAKE k \in 1 .. Len(new) - 1
    <2>1. CASE k <= n
      <3>1. k \in 1 .. n /\ k \in 1 .. Len(path) - 1
        BY <1>1, <2>1
      <3> QED
        BY <1>3, <3>1 DEF Trip
    <2>2. CASE k > n
      <3>1. PICK j \in 1 .. Len(spur) - 1 : k = n + j
        <4>1. k - n \in 1 .. Len(spur) - 1 /\ k = n + (k - n)
          BY <1>1, <1>3, <2>2
        <4> QED
          BY <4>1
      <3>2. j \in 1 .. Len(spur)
        BY <1>3, <3>1
      <3> QED
        BY <1>3, <3>1, <3>2
    <2> QED
      BY <1>1, <2>1, <2>2
  <1>10. new \in Seq(PathStopDist) /\ Len(new) >= 2
    BY <1>1, <1>3
  <1>11. Trip(new)
    BY <1>7, <1>8, <1>9, <1>10 DEF Trip
  <1> QED
    BY <1>11 DEF new

\* A product with a percentage that is rounded down.
LEMMA RoundedDown ==
  ASSUME NEW t \in Nat, NEW m \in Nat, NEW q \in Nat \ {0}
  PROVE  t <= m \div q <=> t * q <= m
  <1>1. t <= m \div q => t * q <= m
    BY SMTT(60)
  <1>2. t > m \div q => t * q > m
    BY SMTT(60)
  <1>3. m \div q \in Int /\ t * q \in Int
    OBVIOUS
  <1> QED
    BY <1>1, <1>2, <1>3

-----------------------------------------------------------------------------
(* The invariant of a call *)

CallTypes ==
  /\ edges \subseteq Edge /\ query \in Queries /\ quiet \in BOOLEAN
  /\ phase \in {"called", "first", "spur", "select", "choose", "returned"}
  /\ phase \in {"first", "spur", "select", "choose"} =>
       query[1] \in Stations /\ query[2] \in Stations /\ query[1] # query[2]

\* The searches: the first one from the station asked for, the others from a stop of
\* the last path found.
SearchOn ==
  /\ InSearch => Searching /\ stationB = query[2]
  /\ phase = "first" => stopA = Start /\ excludedStops = {}
  /\ phase = "spur" => /\ idx \in 1 .. Len(Last(fastestPaths)) - 1
                       /\ stopA = Last(fastestPaths)[idx]

\* The paths: what PathsSound says, and that no trip is faster than the first.
FoundPaths ==
  /\ fastestPaths \in Seq(Seq(PathStopDist))
  /\ \A i \in 1 .. Len(fastestPaths) : Trip(fastestPaths[i])
  /\ \A i, j \in 1 .. Len(fastestPaths) : fastestPaths[i] = fastestPaths[j] => i = j
  /\ Len(fastestPaths) <= MaxNPaths \/ Len(fastestPaths) = 1
  /\ \A i \in 1 .. Len(fastestPaths) :
       TravelTime(fastestPaths[i]) * Slowdown[2]
         <= TravelTime(fastestPaths[1]) * (Slowdown[1] + Slowdown[2])
  /\ fastestPaths # <<>> =>
       \A path : Trip(path) => TravelTime(fastestPaths[1]) <= TravelTime(path)
  /\ phase \in {"called", "first"} => fastestPaths = <<>>
  /\ phase \in {"spur", "select", "choose"} => fastestPaths # <<>>
  /\ phase \in {"spur", "select"} => Len(fastestPaths) < MaxNPaths
Candidates ==
  IsABag(potentialPaths) /\ \A path \in BagToSet(potentialPaths) : Trip(path)

CallInvariant == CallTypes /\ SearchOn /\ FoundPaths /\ Candidates

\* It holds at first.
LEMMA CallStarts == Init => CallInvariant
  <1> SUFFICES ASSUME Init PROVE CallInvariant
    OBVIOUS
  <1>1. CallTypes
    BY NetworksAssumption DEF Init, CallTypes
  <1>2. SearchOn
    BY DEF Init, SearchOn, InSearch
  <1>3. FoundPaths
    <2>1. fastestPaths = <<>> /\ phase = "called"
      BY DEF Init
    <2>2. <<>> \in Seq(Seq(PathStopDist)) /\ Len(<<>>) = 0 /\ 0 <= MaxNPaths
      BY SizesAssumption
    <2> QED
      BY <2>1, <2>2 DEF FoundPaths
  <1>4. Candidates
    BY DEF Init, Candidates, EmptyBag, SetToBag, IsABag, BagToSet
  <1> QED
    BY <1>1, <1>2, <1>3, <1>4 DEF CallInvariant

\* A path stays one while the call lasts.
LEMMA TripStays ==
  ASSUME UNCHANGED <<edges, query>>
  PROVE  \A path : Trip(path)' <=> Trip(path)
  BY DEF Trip, IsPathFrom, Start

\* The last of some paths.
LEMMA LastPath ==
  ASSUME FoundPaths, fastestPaths # <<>>
  PROVE  /\ Len(fastestPaths) \in Nat /\ Len(fastestPaths) >= 1
         /\ Last(fastestPaths) = fastestPaths[Len(fastestPaths)]
         /\ Trip(Last(fastestPaths)) /\ Trip(fastestPaths[1])
         /\ Len(Last(fastestPaths)) \in Nat /\ Len(Last(fastestPaths)) >= 2
  <1>1. Len(fastestPaths) \in Nat /\ Len(fastestPaths) >= 1
    BY DEF FoundPaths
  <1>2. Trip(fastestPaths[1]) /\ Trip(fastestPaths[Len(fastestPaths)])
    BY <1>1 DEF FoundPaths
  <1> QED
    BY <1>1, <1>2 DEF Last, Trip

\* Steps that leave the paths alone.
LEMMA PathsStay ==
  ASSUME FoundPaths, UNCHANGED <<edges, query, fastestPaths>>,
         phase' \in {"called", "first"} => fastestPaths = <<>>,
         phase' \in {"spur", "select", "choose"} => fastestPaths # <<>>,
         phase' \in {"spur", "select"} => Len(fastestPaths) < MaxNPaths
  PROVE  FoundPaths'
  BY TripStays DEF FoundPaths
LEMMA CandidatesStay ==
  ASSUME Candidates, UNCHANGED <<edges, query, potentialPaths>>
  PROVE  Candidates'
  BY TripStays DEF Candidates

\* A spur search begins at a stop of the last path that is before station B.
LEMMA SpurBegins ==
  ASSUME CallTypes, UNCHANGED <<edges, query>>, query[2] \in Stations,
         NEW i, BeginSpur(fastestPaths', i), i \in 1 .. Len(Last(fastestPaths')) - 1,
         Trip(Last(fastestPaths')), phase' = "spur"
  PROVE  SearchOn'
  <1> DEFINE last == Last(fastestPaths')
  <1>1. last[i] \in PathStopDist
    <2>1. i \in 1 .. Len(last) /\ last \in Seq(PathStopDist)
      BY DEF Trip
    <2> QED
      BY <2>1
  <1>2. /\ BeginSearch(last[i], query[2], RemovedStops(fastestPaths', i))
        /\ idx' = i
    BY DEF BeginSpur
  <1>3. Searching' /\ stopA' = last[i] /\ stationB' = query[2]
    BY <1>1, <1>2, BeginsSearching DEF CallTypes
  <1> QED
    BY <1>2, <1>3 DEF SearchOn, InSearch

\* The head of the outer loop.
LEMMA LooksFurther ==
  ASSUME CallTypes, UNCHANGED <<edges, query, quiet>>,
         phase \in {"first", "spur", "select", "choose"},
         KeepLooking(fastestPaths'), Trip(Last(fastestPaths'))
  PROVE  /\ CallTypes' /\ SearchOn' /\ phase' \in {"spur", "choose"}
         /\ phase' = "spur" => Len(fastestPaths') < MaxNPaths
  <1>1. query[2] \in Stations /\ 1 \in 1 .. Len(Last(fastestPaths')) - 1
    BY DEF CallTypes, Trip
  <1>2. CASE /\ Len(fastestPaths') < MaxNPaths
             /\ phase' = "spur" /\ BeginSpur(fastestPaths', 1)
    <2>1. SearchOn'
      BY <1>1, <1>2, SpurBegins
    <2> QED
      BY <1>2, <2>1 DEF CallTypes
  <1>3. CASE phase' = "choose"
    BY <1>3 DEF CallTypes, SearchOn, InSearch
  <1> QED
    BY <1>2, <1>3 DEF KeepLooking

-----------------------------------------------------------------------------
(* Every step keeps it *)

\* CornerCase and ChooseQuiet only return.
LEMMA ReturnKeeps ==
  ASSUME CallInvariant, phase' = "returned", UNCHANGED <<callVars, searchVars, yenVars>>
  PROVE  CallInvariant'
  <1>1. CallTypes' /\ SearchOn'
    BY DEF CallInvariant, CallTypes, SearchOn, InSearch, callVars
  <1>2. FoundPaths' /\ Candidates'
    BY PathsStay, CandidatesStay DEF CallInvariant, callVars, yenVars
  <1> QED
    BY <1>1, <1>2 DEF CallInvariant

\* The first search begins.
LEMMA StartSearchKeeps ==
  ASSUME CallInvariant, StartSearch
  PROVE  CallInvariant'
  <1>1. query[1] \in Stations /\ query[2] \in Stations /\ query[1] # query[2]
    BY QueryAssumption DEF StartSearch, CallInvariant, CallTypes
  <1>2. Start \in PathStopDist
    BY <1>1 DEF Start, ColdStart, At, PathStopDist, PathStop
  <1>3. Searching' /\ stopA' = Start /\ stationB' = query[2] /\ excludedStops' = {}
    BY <1>1, <1>2, BeginsSearching DEF StartSearch, CallInvariant, CallTypes, callVars, Start
  <1>4. CallTypes'
    BY <1>1 DEF StartSearch, CallInvariant, CallTypes, callVars
  <1>5. SearchOn'
    BY <1>3 DEF StartSearch, SearchOn, InSearch, callVars, Start
  <1>6. FoundPaths' /\ Candidates'
    BY PathsStay, CandidatesStay DEF StartSearch, CallInvariant, FoundPaths, callVars, yenVars
  <1> QED
    BY <1>4, <1>5, <1>6 DEF CallInvariant

\* A search goes on.
LEMMA VisitNodeKeeps ==
  ASSUME CallInvariant, VisitNode
  PROVE  CallInvariant'
  <1>1. Searching' /\ UNCHANGED <<edges, stopA, stationB, excludedStops>>
    BY VisitSearching DEF VisitNode, CallInvariant, SearchOn, InSearch
  <1>2. UNCHANGED <<phase, query, quiet, fastestPaths, potentialPaths, idx>>
    BY DEF VisitNode, yenVars
  <1>3. CallTypes'
    BY <1>1, <1>2 DEF CallInvariant, CallTypes
  <1>4. SearchOn'
    BY <1>1, <1>2 DEF CallInvariant, SearchOn, InSearch, Start
  <1>5. FoundPaths' /\ Candidates'
    BY <1>1, <1>2, PathsStay, CandidatesStay DEF CallInvariant, FoundPaths
  <1> QED
    BY <1>3, <1>4, <1>5 DEF CallInvariant

\* The first search returns a fastest trip, if there is one.
LEMMA FirstIsTrip ==
  ASSUME CallInvariant, phase = "first", SearchDone, NEW path \in SearchResults, path # <<>>
  PROVE  Trip(path) /\ \A other : Trip(other) => TravelTime(path) <= TravelTime(other)
  <1>1. /\ Searching /\ stationB = query[2] /\ stopA = Start /\ excludedStops = {}
        /\ query[1] # query[2]
    BY DEF CallInvariant, CallTypes, SearchOn, InSearch
  <1>2. stopA.stop.node # stationB
    BY <1>1 DEF Start, ColdStart, At
  <1>3. Trip(path)
    BY <1>1, <1>2, SearchReturns DEF Trip
  <1>4. ASSUME NEW other, Trip(other)
        PROVE  TravelTime(path) <= TravelTime(other)
    <2>1. /\ other \in Seq(PathStopDist) /\ IsWalk(other)
          /\ other[Len(other)].stop.node = stationB
      BY <1>1, <1>4 DEF Trip, IsWalk
    <2>2. path[Len(path)].dist <= other[Len(other)].dist
      BY <1>1, <2>1, LoopFindsFastest DEF Searching, ResultsAreFastest
    <2> QED
      BY <1>3, <1>4, <2>2, TripTime
  <1> QED
    BY <1>3, <1>4

\* The end of the first search.
LEMMA FirstPathKeeps ==
  ASSUME CallInvariant, FirstPath
  PROVE  CallInvariant'
  <1>1. PICK path \in SearchResults :
          \/ phase' = "returned" /\ UNCHANGED <<searchVars, yenVars>>
          \/ /\ path # <<>> /\ quiet
             /\ fastestPaths' = <<path>>
             /\ KeepLooking(fastestPaths')
             /\ UNCHANGED <<potentialPaths, result>>
    BY DEF FirstPath, Return
  <1>2. phase = "first" /\ SearchDone /\ UNCHANGED <<edges, query, quiet>>
    BY DEF FirstPath, callVars
  <1>3. CASE phase' = "returned" /\ UNCHANGED <<searchVars, yenVars>>
    BY <1>2, <1>3, ReturnKeeps DEF callVars
  <1>4. CASE /\ path # <<>>
             /\ fastestPaths' = <<path>>
             /\ KeepLooking(fastestPaths')
             /\ UNCHANGED potentialPaths
    <2>1. Trip(path) /\ \A other : Trip(other) => TravelTime(path) <= TravelTime(other)
      BY <1>2, <1>4, FirstIsTrip
    <2>2. /\ Len(fastestPaths') = 1 /\ fastestPaths'[1] = path
          /\ Last(fastestPaths') = path /\ fastestPaths' # <<>>
      BY <1>4 DEF Last
    <2>3. /\ CallTypes' /\ SearchOn' /\ phase' \in {"spur", "choose"}
          /\ phase' = "spur" => Len(fastestPaths') < MaxNPaths
      BY <1>2, <1>4, <2>1, <2>2, LooksFurther DEF CallInvariant
    <2>4. FoundPaths'
      <3>1. fastestPaths' \in Seq(Seq(PathStopDist))
        BY <1>4, <2>1 DEF Trip
      <3>2. \A other : Trip(other)' <=> Trip(other)
        BY <1>2, TripStays
      <3>3. TravelTime(path) * Slowdown[2] <= TravelTime(path) * (Slowdown[1] + Slowdown[2])
        <4>1. TravelTime(path) \in Nat /\ Slowdown[1] \in Nat /\ Slowdown[2] \in Nat
          BY <2>1, TripTime, PercentAssumption
        <4> QED
          BY <4>1
      <3>4. \A i \in 1 .. Len(fastestPaths') : i = 1
        BY <2>2
      <3> QED
        BY <2>1, <2>2, <2>3, <3>1, <3>2, <3>3, <3>4 DEF FoundPaths, TravelTime
    <2>5. Candidates'
      BY <1>2, <1>4, CandidatesStay DEF CallInvariant
    <2> QED
      BY <2>3, <2>4, <2>5 DEF CallInvariant
  <1> QED
    BY <1>1, <1>3, <1>4

\* A bag with one more path, and with one less.
LEMMA OneMore ==
  ASSUME Candidates, NEW path, Trip(path)
  PROVE  /\ IsABag(potentialPaths (+) One(path))
         /\ \A p \in BagToSet(potentialPaths (+) One(path)) : Trip(p)
  BY DEF Candidates, One, SetToBag, IsABag, BagToSet, (+)
LEMMA OneLess ==
  ASSUME Candidates, NEW path
  PROVE  /\ IsABag(potentialPaths (-) One(path))
         /\ \A p \in BagToSet(potentialPaths (-) One(path)) : Trip(p)
  BY DEF Candidates, One, SetToBag, IsABag, BagToSet, (-)

\* The end of a spur search.
LEMMA SpurPathKeeps ==
  ASSUME CallInvariant, SpurPath
  PROVE  CallInvariant'
  <1> DEFINE last == Last(fastestPaths)
  <1>1. /\ phase = "spur" /\ SearchDone
        /\ UNCHANGED <<edges, query, quiet, fastestPaths>>
    BY DEF SpurPath, callVars
  <1>2. /\ Searching /\ stationB = query[2] /\ query[2] \in Stations
        /\ idx \in 1 .. Len(last) - 1 /\ stopA = last[idx]
        /\ FoundPaths /\ Candidates /\ CallTypes /\ fastestPaths # <<>>
        /\ Len(fastestPaths) < MaxNPaths
    BY <1>1 DEF CallInvariant, CallTypes, SearchOn, InSearch, FoundPaths
  <1>3. Trip(last) /\ Len(last) \in Nat
    BY <1>2, LastPath
  <1>4. Candidates'
    <2>1. PICK path \in SearchResults :
            potentialPaths' = IF path = <<>> THEN potentialPaths
                              ELSE potentialPaths (+) One(Root(last, idx) \o path)
      BY DEF SpurPath
    <2>2. CASE path = <<>>
      BY <1>1, <1>2, <2>1, <2>2, CandidatesStay
    <2>3. CASE path # <<>>
      <3>1. stopA.stop.node # stationB
        BY <1>2, <1>3 DEF Trip
      <3>2. /\ path \in Seq(PathStopDist) /\ Len(path) >= 2 /\ IsPathFrom(last[idx], path)
            /\ path[Len(path)].stop.node = query[2]
            /\ \A i \in 1 .. Len(path) - 1 : path[i].stop.node # query[2]
        BY <1>1, <1>2, <2>3, <3>1, SearchReturns
      <3>3. Trip(Root(last, idx) \o path)
        BY <1>2, <1>3, <3>2, GluedPath
      <3> DEFINE new == Root(last, idx) \o path
      <3>4. Trip(new)
        BY <3>3
      <3>5. potentialPaths' = potentialPaths (+) One(new)
        BY <2>1, <2>3
      <3> HIDE DEF new
      <3>6. /\ IsABag(potentialPaths (+) One(new))
            /\ \A p \in BagToSet(potentialPaths (+) One(new)) : Trip(p)
        BY <1>2, <3>4, OneMore
      <3>7. \A p : Trip(p)' <=> Trip(p)
        BY <1>1, TripStays
      <3> QED
        BY <3>5, <3>6, <3>7 DEF Candidates
    <2> QED
      BY <2>2, <2>3
  <1>5. CASE idx + 1 < Len(last) /\ BeginSpur(fastestPaths, idx + 1) /\ UNCHANGED phase
    <2>1. idx + 1 \in 1 .. Len(last) - 1
      BY <1>2, <1>3, <1>5
    <2>2. SearchOn'
      <3> DEFINE i == idx + 1
      <3>1. /\ i \in 1 .. Len(Last(fastestPaths')) - 1 /\ Trip(Last(fastestPaths'))
            /\ BeginSpur(fastestPaths', i)
        BY <1>1, <1>3, <1>5, <2>1
      <3> HIDE DEF i
      <3> QED
        BY <1>1, <1>2, <1>5, <3>1, SpurBegins
    <2>3. CallTypes' /\ FoundPaths'
      BY <1>1, <1>2, <1>5, PathsStay DEF CallTypes
    <2> QED
      BY <1>4, <2>2, <2>3 DEF CallInvariant
  <1>6. CASE phase' = "select"
    <2>1. CallTypes' /\ SearchOn'
      BY <1>1, <1>2, <1>6 DEF CallTypes, SearchOn, InSearch
    <2>2. FoundPaths'
      BY <1>1, <1>2, <1>6, PathsStay
    <2> QED
      BY <1>4, <2>1, <2>2 DEF CallInvariant
  <1> QED
    BY <1>5, <1>6 DEF SpurPath

\* A candidate that is not too slow is within the limit.
LEMMA WithinLimit ==
  ASSUME FoundPaths, fastestPaths # <<>>, NEW path, Trip(path), ~TooSlow(path)
  PROVE  TravelTime(path) * Slowdown[2]
           <= TravelTime(fastestPaths[1]) * (Slowdown[1] + Slowdown[2])
  <1> DEFINE t == TravelTime(path)
             u == TravelTime(fastestPaths[1])
             a == Slowdown[1]
             b == Slowdown[2]
  <1>1. t \in Nat /\ u \in Nat
    BY LastPath, TripTime
  <1>2. a \in Nat /\ b \in Nat \ {0}
    BY PercentAssumption
  <1>3. ~(t > (u * (b + a)) \div b)
    BY DEF TooSlow, MaxTravelTime
  <1> HIDE DEF t, u, a, b
  <1> DEFINE m == u * (b + a)
  <1>4. m \in Nat /\ m = u * (a + b)
    BY <1>1, <1>2
  <1>5. ~(t > m \div b)
    BY <1>3
  <1> HIDE DEF m
  <1>6. t <= m \div b
    BY <1>1, <1>2, <1>4, <1>5
  <1>7. t * b <= m
    BY <1>1, <1>2, <1>4, <1>6, RoundedDown
  <1> QED
    BY <1>4, <1>7 DEF t, u, a, b

\* The next path found joins the others.
LEMMA FoundOneMore ==
  ASSUME FoundPaths, fastestPaths # <<>>, Len(fastestPaths) < MaxNPaths,
         NEW path, Trip(path), ~TooSlow(path), ~AlreadyFound(path),
         fastestPaths' = Append(fastestPaths, path), UNCHANGED <<edges, query>>,
         phase' \in {"spur", "choose"}, phase' = "spur" => Len(fastestPaths') < MaxNPaths
  PROVE  FoundPaths' /\ Last(fastestPaths') = path
  <1> DEFINE n == Len(fastestPaths)
  <1>1. n \in Nat /\ n >= 1 /\ fastestPaths \in Seq(Seq(PathStopDist)) /\ MaxNPaths \in Nat
    BY LastPath, SizesAssumption DEF FoundPaths
  <1>2. /\ fastestPaths' \in Seq(Seq(PathStopDist)) /\ Len(fastestPaths') = n + 1
        /\ \A i \in 1 .. n : fastestPaths'[i] = fastestPaths[i]
        /\ fastestPaths'[n + 1] = path /\ fastestPaths' # <<>>
    BY <1>1 DEF Trip
  <1>3. fastestPaths'[1] = fastestPaths[1]
    BY <1>1, <1>2
  <1>4. \A other : Trip(other)' <=> Trip(other)
    BY TripStays
  <1>5. \A i \in 1 .. n : fastestPaths[i] # path
    BY <1>1 DEF AlreadyFound, ToSet
  <1>6. \A i \in 1 .. n + 1 : i \in 1 .. n \/ i = n + 1
    BY <1>1
  <1> HIDE DEF n
  <1>7. (\A i \in 1 .. Len(fastestPaths) : Trip(fastestPaths[i]))'
    <2>1. \A i \in 1 .. n : Trip(fastestPaths[i])
      BY DEF FoundPaths, n
    <2> QED
      BY <1>2, <1>4, <1>6, <2>1
  <1>8. \A i, j \in 1 .. Len(fastestPaths') : fastestPaths'[i] = fastestPaths'[j] => i = j
    <2>1. \A i, j \in 1 .. n : fastestPaths[i] = fastestPaths[j] => i = j
      BY DEF FoundPaths, n
    <2> QED
      BY <1>2, <1>5, <1>6, <2>1
  <1>9. \A i \in 1 .. Len(fastestPaths') :
          TravelTime(fastestPaths'[i]) * Slowdown[2]
            <= TravelTime(fastestPaths'[1]) * (Slowdown[1] + Slowdown[2])
    <2>1. \A i \in 1 .. n : TravelTime(fastestPaths[i]) * Slowdown[2]
            <= TravelTime(fastestPaths[1]) * (Slowdown[1] + Slowdown[2])
      BY DEF FoundPaths, n
    <2>2. TravelTime(path) * Slowdown[2]
            <= TravelTime(fastestPaths[1]) * (Slowdown[1] + Slowdown[2])
      BY WithinLimit
    <2> QED
      BY <1>2, <1>3, <1>6, <2>1, <2>2
  <1>10. \A other : Trip(other)' => TravelTime(fastestPaths'[1]) <= TravelTime(other)
    BY <1>3, <1>4 DEF FoundPaths
  <1>11. Len(fastestPaths') <= MaxNPaths
    BY <1>1, <1>2 DEF n
  <1>12. FoundPaths'
    BY <1>2, <1>7, <1>8, <1>9, <1>10, <1>11 DEF FoundPaths, TravelTime
  <1> QED
    BY <1>2, <1>12 DEF Last

\* One iteration of the inner loop.
LEMMA SelectPathKeeps ==
  ASSUME CallInvariant, SelectPath
  PROVE  CallInvariant'
  <1>1. phase = "select" /\ UNCHANGED <<edges, query, quiet>>
    BY DEF SelectPath, callVars
  <1>2. /\ FoundPaths /\ Candidates /\ CallTypes /\ fastestPaths # <<>>
        /\ Len(fastestPaths) < MaxNPaths
    BY <1>1 DEF CallInvariant, FoundPaths
  <1>3. CASE phase' = "choose" /\ UNCHANGED <<yenVars, searchVars>>
    <2>1. CallTypes' /\ SearchOn'
      BY <1>1, <1>2, <1>3 DEF CallTypes, SearchOn, InSearch
    <2>2. FoundPaths' /\ Candidates'
      BY <1>1, <1>2, <1>3, PathsStay, CandidatesStay DEF yenVars
    <2> QED
      BY <2>1, <2>2 DEF CallInvariant
  <1>4. ASSUME NEW path \in TopPaths, ~TooSlow(path),
               potentialPaths' = potentialPaths (-) One(path),
               \/ UNCHANGED <<phase, fastestPaths, idx, searchVars>>
               \/ /\ ~AlreadyFound(path)
                  /\ fastestPaths' = Append(fastestPaths, path)
                  /\ KeepLooking(fastestPaths')
        PROVE  CallInvariant'
    <2>1. Trip(path)
      BY <1>2 DEF TopPaths, Candidates
    <2>2. Candidates'
      <3>1. /\ IsABag(potentialPaths (-) One(path))
            /\ \A p \in BagToSet(potentialPaths (-) One(path)) : Trip(p)
        BY <1>2, OneLess
      <3>2. \A p : Trip(p)' <=> Trip(p)
        BY <1>1, TripStays
      <3> QED
        BY <1>4, <3>1, <3>2 DEF Candidates
    <2>3. CASE UNCHANGED <<phase, fastestPaths, idx, searchVars>>
      <3>1. CallTypes' /\ SearchOn'
        BY <1>1, <1>2, <2>3 DEF CallTypes, SearchOn, InSearch
      <3>2. FoundPaths'
        BY <1>1, <1>2, <2>3, PathsStay
      <3> QED
        BY <2>2, <3>1, <3>2 DEF CallInvariant
    <2>4. CASE /\ ~AlreadyFound(path)
               /\ fastestPaths' = Append(fastestPaths, path)
               /\ KeepLooking(fastestPaths')
      <3>1. Last(fastestPaths') = path
        BY <1>2, <2>4 DEF Last, FoundPaths
      <3>2. /\ CallTypes' /\ SearchOn' /\ phase' \in {"spur", "choose"}
            /\ phase' = "spur" => Len(fastestPaths') < MaxNPaths
        BY <1>1, <1>2, <2>1, <2>4, <3>1, LooksFurther
      <3>3. FoundPaths'
        BY <1>1, <1>2, <1>4, <2>1, <2>4, <3>2, FoundOneMore
      <3> QED
        BY <2>2, <3>2, <3>3 DEF CallInvariant
    <2> QED
      BY <1>4, <2>3, <2>4
  <1> QED
    BY <1>3, <1>4 DEF SelectPath

\* The invariant of a call, on every network, for every query and every limit.
THEOREM CallInvariantHolds == Spec => []CallInvariant
  <1>1. CallInvariant /\ [Next]_vars => CallInvariant'
    <2> SUFFICES ASSUME CallInvariant, [Next]_vars PROVE CallInvariant'
      OBVIOUS
    <2>1. CASE CornerCase
      BY <2>1, ReturnKeeps DEF CornerCase, Return
    <2>2. CASE StartSearch
      BY <2>2, StartSearchKeeps
    <2>3. CASE VisitNode
      BY <2>3, VisitNodeKeeps
    <2>4. CASE FirstPath
      BY <2>4, FirstPathKeeps
    <2>5. CASE SpurPath
      BY <2>5, SpurPathKeeps
    <2>6. CASE SelectPath
      BY <2>6, SelectPathKeeps
    <2>7. CASE ChooseQuiet
      BY <2>7, ReturnKeeps DEF ChooseQuiet, Return
    <2>8. CASE UNCHANGED vars
      <3>1. UNCHANGED <<edges, searchVars, phase, query, quiet, fastestPaths, potentialPaths, idx>>
        BY <2>8 DEF vars, searchVars
      <3>2. CallTypes'
        BY <3>1 DEF CallInvariant, CallTypes
      <3>3. SearchOn'
        BY <3>1, StillSearching DEF CallInvariant, SearchOn, InSearch, Start, searchVars
      <3>4. FoundPaths' /\ Candidates'
        BY <3>1, PathsStay, CandidatesStay DEF CallInvariant, FoundPaths
      <3> QED
        BY <3>2, <3>3, <3>4 DEF CallInvariant
    <2> QED
      BY <2>1, <2>2, <2>3, <2>4, <2>5, <2>6, <2>7, <2>8 DEF Next
  <1> QED
    BY <1>1, CallStarts, PTL DEF Spec

-----------------------------------------------------------------------------
(* What follows *)

\* Every variable keeps its type, and the spur starts on the last path.
THEOREM CallTypeCorrect == Spec => []TypeOK
  <1>1. CallInvariant => TypeOK
    <2> SUFFICES ASSUME CallInvariant PROVE TypeOK
      OBVIOUS
    <2>1. InSearch => /\ stopA \in PathStopDist /\ stationB = query[2]
                      /\ DOMAIN distFromA \subseteq PathStop
                      /\ nodesToVisit \subseteq PathStopDist
      BY DEF CallInvariant, SearchOn, Searching, SearchLoop, SearchTypeOK
    <2>2. \A i \in DOMAIN fastestPaths : fastestPaths[i] \in Seq(PathStopDist)
      BY DEF CallInvariant, FoundPaths
    <2>3. BagToSet(potentialPaths) \subseteq Seq(PathStopDist)
      BY DEF CallInvariant, Candidates, Trip
    <2>4. InSearch => stopA.stop.node # query[2]
      <3>1. CASE phase = "first"
        BY <3>1 DEF CallInvariant, CallTypes, SearchOn, Start, ColdStart, At
      <3>2. CASE phase = "spur"
        <4>1. Trip(Last(fastestPaths))
          BY <3>2, LastPath DEF CallInvariant, FoundPaths
        <4> QED
          BY <3>2, <4>1 DEF CallInvariant, SearchOn, Trip
      <3> QED
        BY <3>1, <3>2 DEF InSearch
    <2> QED
      BY <2>1, <2>2, <2>3, <2>4 DEF TypeOK, CallInvariant, CallTypes, SearchOn, Candidates
  <1> QED
    BY <1>1, CallInvariantHolds, PTL

\* Every search of a call keeps the loop invariant of the search, also the spur
\* searches, which start warm and exclude stops.
THEOREM SearchInvariantHolds == Spec => []SearchInvariant
  <1>1. CallInvariant => SearchInvariant
    BY DEF CallInvariant, SearchOn, Searching, SearchLoop, SearchInvariant
  <1> QED
    BY <1>1, CallInvariantHolds, PTL

\* Every search of a call returns a fastest way to station B, and nothing only if there
\* is none: the first search, and the spur searches with their warm starts and removed
\* links.
THEOREM EverySearchFindsFastestHolds == Spec => []EverySearchFindsFastest
  <1>1. CallInvariant => EverySearchFindsFastest
    BY LoopFindsFastestJourney DEF CallInvariant, SearchOn, Searching, EverySearchFindsFastest
  <1> QED
    BY <1>1, CallInvariantHolds, PTL

\* As many paths as places: no path is found twice.
LEMMA FoundOnce ==
  ASSUME FoundPaths
  PROVE  Cardinality(ToSet(fastestPaths)) = Len(fastestPaths)
  <1> DEFINE n == Len(fastestPaths)
             found == ToSet(fastestPaths)
             f == [i \in 1 .. n |-> fastestPaths[i]]
  <1>1. n \in Nat /\ DOMAIN fastestPaths = 1 .. n
    BY DEF FoundPaths
  <1>2. found = {fastestPaths[i] : i \in 1 .. n}
    BY <1>1 DEF ToSet
  <1>3. f \in Surjection(1 .. n, found)
    BY <1>2 DEF Surjection
  <1>4. f \in Injection(1 .. n, found)
    BY <1>2 DEF Injection, IsInjective, FoundPaths
  <1>5. IsFiniteSet(1 .. n) /\ Cardinality(1 .. n) = n
    <2> HIDE DEF n
    <2>1. n \in Int /\ 1 \in Int
      BY <1>1
    <2>2. /\ IsFiniteSet(1 .. n)
          /\ Cardinality(1 .. n) = IF 1 > n THEN 0 ELSE n - 1 + 1
      BY <2>1, FS_Interval, Zenon
    <2> QED
      BY <1>1, <2>2
  <1> HIDE DEF n, found, f
  <1>6. Cardinality(found) = Cardinality(1 .. n)
    BY <1>3, <1>4, <1>5, FS_Surjection
  <1> QED
    BY <1>5, <1>6 DEF n, found

\* The paths collected, and the candidates, are paths from A to B; the first is the
\* fastest, the others differ and are within the limits.
THEOREM PathsSoundHolds == Spec => []PathsSound
  <1>1. CallInvariant => PathsSound
    <2> SUFFICES ASSUME CallInvariant PROVE PathsSound
      OBVIOUS
    <2>1. FoundPaths /\ Candidates
      BY DEF CallInvariant
    <2>2. DOMAIN fastestPaths = 1 .. Len(fastestPaths)
      BY <2>1 DEF FoundPaths
    <2>3. \A path \in ToSet(fastestPaths) \cup BagToSet(potentialPaths) : Trip(path)
      BY <2>1, <2>2 DEF ToSet, FoundPaths, Candidates
    <2>4. \A path \in ToSet(fastestPaths) \cup BagToSet(potentialPaths) :
            IsPathFrom(Start, path) /\ Last(path).stop.node = query[2]
      BY <2>3 DEF Trip, Last
    <2>5. \A i \in DOMAIN fastestPaths :
            /\ TravelTime(fastestPaths[1]) <= TravelTime(fastestPaths[i])
            /\ TravelTime(fastestPaths[i]) * Slowdown[2]
                 <= TravelTime(fastestPaths[1]) * (Slowdown[1] + Slowdown[2])
      BY <2>1, <2>2 DEF FoundPaths
    <2> QED
      BY <2>1, <2>4, <2>5, FoundOnce DEF PathsSound, FoundPaths
  <1> QED
    BY <1>1, CallInvariantHolds, PTL

-----------------------------------------------------------------------------
(* The second path *)

\* A journey between the stations asked for: a path that enters no station twice.
JourneyTrip(path) ==
  Trip(path) /\ \A i, j \in 1 .. Len(path) : i # j => path[i].stop.node # path[j].stop.node

\* They are what Journeys enumerates.
LEMMA JourneysAreTrips ==
  ASSUME edges \subseteq Edge, query[1] \in Stations, query[1] # query[2],
         NEW j \in Journeys(Start, query[2], {})
  PROVE  JourneyTrip(j)
  <1>1. Start \in PathStopDist /\ Start.stop.node = query[1]
    BY DEF Start, ColdStart, At, PathStopDist, PathStop
  <1>2. /\ j[Len(j)].stop.node = query[2]
        /\ \E n \in Nat \ {0} : j \in Simple(n, Start, {})
    BY <1>1, JourneysAreSimple
  <1>3. PICK n \in Nat \ {0} : j \in Simple(n, Start, {})
    BY <1>2
  <1>4. j \in Seq(PathStopDist) /\ Len(j) = n /\ IsSimple(j, Start, {})
    BY <1>3 DEF Simple
  <1>5. j[1] = Start
    BY <1>4 DEF IsSimple, IsPathFrom
  <1>6. n # 1
    BY <1>1, <1>2, <1>4, <1>5
  <1>7. \A i \in 1 .. n - 1 : i \in 1 .. n /\ n \in 1 .. n /\ i # n
    OBVIOUS
  <1>8. \A i \in 1 .. n - 1 : j[i].stop.node # query[2]
    BY <1>2, <1>4, <1>7 DEF IsSimple
  <1>9. Trip(j)
    BY <1>2, <1>4, <1>6, <1>8 DEF Trip, IsSimple
  <1> QED
    BY <1>4, <1>9 DEF JourneyTrip, IsSimple

\* Where a path leaves another one: they agree up to stop i, and differ after it.
Leaves(path, first, i) ==
  /\ i \in 1 .. Len(first) - 1 /\ i \in 1 .. Len(path) - 1
  /\ \A k \in 1 .. i : path[k] = first[k]
  /\ path[i + 1].stop # first[i + 1].stop

\* Two different paths part somewhere.
LEMMA PathsPart ==
  ASSUME NEW path, NEW first, Trip(path), Trip(first), path # first
  PROVE  \E i \in 1 .. Len(first) - 1 : Leaves(path, first, i)
  <1> DEFINE n == Len(path)
             m == Len(first)
             apart == {k \in 1 .. n : k <= m /\ path[k] # first[k]}
  <1>1. /\ path \in Seq(PathStopDist) /\ n \in Nat /\ n >= 2
        /\ first \in Seq(PathStopDist) /\ m \in Nat /\ m >= 2
    BY DEF Trip
  <1>2. path[1] = first[1]
    BY DEF Trip, IsPathFrom
  <1>3. apart # {}
    <2> SUFFICES ASSUME \A k \in 1 .. n : k <= m => path[k] = first[k]
                 PROVE  FALSE
      OBVIOUS
    <2>1. ~(n < m)
      <3> SUFFICES ASSUME n < m PROVE FALSE
        OBVIOUS
      <3>1. n \in 1 .. n /\ n \in 1 .. m - 1
        BY <1>1
      <3>2. path[n] = first[n]
        BY <1>1, <3>1
      <3> QED
        BY <3>1, <3>2 DEF Trip
    <2>2. ~(m < n)
      <3> SUFFICES ASSUME m < n PROVE FALSE
        OBVIOUS
      <3>1. m \in 1 .. n - 1 /\ m \in 1 .. n /\ m <= m
        BY <1>1
      <3>2. path[m] = first[m]
        BY <1>1, <3>1
      <3> QED
        BY <3>1, <3>2 DEF Trip
    <2>3. n = m
      BY <1>1, <2>1, <2>2
    <2>4. \A k \in 1 .. n : path[k] = first[k]
      BY <1>1, <2>3
    <2> HIDE DEF n, m
    <2> QED
      BY <1>1, <2>3, <2>4 DEF n, m
  <1>4. apart \in SUBSET Nat
    BY <1>1
  <1>5. PICK k \in apart : \A l \in apart : k <= l
    BY <1>3, <1>4, LeastNumber
  <1>6. k \in 1 .. n /\ k <= m /\ path[k] # first[k] /\ k # 1
    BY <1>2
  <1> DEFINE i == k - 1
  <1>7. i \in 1 .. n - 1 /\ i \in 1 .. m - 1 /\ i + 1 = k
    BY <1>1, <1>6
  <1>8. \A l \in 1 .. i : path[l] = first[l]
    <2> TAKE l \in 1 .. i
    <2>1. l \in 1 .. n /\ l <= m /\ ~(k <= l)
      BY <1>1, <1>6
    <2>2. l \notin apart
      <3> HIDE DEF apart
      <3> QED
        BY <1>5, <2>1
    <2> QED
      BY <2>1, <2>2
  <1>9. path[i] = first[i]
    BY <1>1, <1>7, <1>8
  <1> HIDE DEF i
  <1>10. path[i + 1].stop # first[i + 1].stop
    <2> DEFINE d == path[i + 1].stop.edge
               e == first[i + 1].stop.edge
    <2>1. path[i + 1] = At(StopOf(d), path[i].dist + StepCost(path[i].stop, d))
      BY <1>7 DEF Trip, IsPathFrom
    <2>2. first[i + 1] = At(StopOf(e), first[i].dist + StepCost(first[i].stop, e))
      BY <1>7 DEF Trip, IsPathFrom
    <2>3. path[i + 1] # first[i + 1]
      BY <1>6, <1>7
    <2>4. path[i + 1].stop = first[i + 1].stop => d = e
      OBVIOUS
    <2> QED
      BY <1>9, <2>1, <2>2, <2>3, <2>4
  <1> QED
    BY <1>7, <1>8, <1>10 DEF Leaves

\* The rest of a journey that leaves the first path at the spur is a walk of the spur
\* search: it does not take the removed link, and does not come back to take it later.
LEMMA RestIsWalk ==
  ASSUME NEW j, JourneyTrip(j), NEW first, Trip(first), NEW i, Leaves(j, first, i),
         edges \subseteq Edge,
         stopA = first[i], stationB = query[2], excludedStops = {first[i + 1].stop}
  PROVE  \E walk \in Seq(PathStopDist) :
           IsWalk(walk) /\ walk[Len(walk)] = j[Len(j)]
  <1> DEFINE n == Len(j)
             walk == SubSeq(j, i, n)
             w == n - i + 1
  <1>1. /\ j \in Seq(PathStopDist) /\ n \in Nat /\ n >= 2 /\ i \in 1 .. n - 1 /\ i \in Nat
    BY DEF JourneyTrip, Trip, Leaves
  <1>2. /\ walk \in Seq(PathStopDist) /\ Len(walk) = w /\ w \in Nat /\ w >= 2
        /\ \A k \in 1 .. w : walk[k] = j[i + k - 1]
    BY <1>1
  <1>3. w = n - i + 1
    OBVIOUS
  <1> HIDE DEF walk, w
  <1>4. \A k \in 1 .. w : i + k - 1 \in 1 .. n
    BY <1>1, <1>3
  <1>5. walk[1] = stopA
    <2>1. 1 \in 1 .. w /\ i + 1 - 1 = i /\ i \in 1 .. i
      BY <1>1, <1>2
    <2> QED
      BY <1>2, <2>1 DEF Leaves
  <1>6. ASSUME NEW k \in 1 .. w - 1
        PROVE  LET e == walk[k + 1].stop.edge
               IN  /\ e \in edges /\ e.from = walk[k].stop.node
                   /\ walk[k + 1] = At(StopOf(e), walk[k].dist + StepCost(walk[k].stop, e))
    <2> DEFINE l == i + k - 1
    <2>1. /\ l \in 1 .. n - 1 /\ k \in 1 .. w /\ k + 1 \in 1 .. w /\ i + (k + 1) - 1 = l + 1
      BY <1>1, <1>2, <1>3
    <2>2. walk[k] = j[l] /\ walk[k + 1] = j[l + 1]
      BY <1>2, <2>1
    <2> HIDE DEF l
    <2> QED
      BY <2>1, <2>2 DEF JourneyTrip, Trip, IsPathFrom
  <1>7. IsPathFrom(stopA, walk)
    BY <1>2, <1>5, <1>6 DEF IsPathFrom
  <1>8. ASSUME NEW k \in 2 .. w
        PROVE  walk[k].stop # first[i + 1].stop
    <2>1. k \in 1 .. w /\ walk[k] = j[i + k - 1]
      BY <1>2
    <2>2. CASE k = 2
      <3>1. walk[k] = j[i + 1]
        BY <1>1, <2>1, <2>2
      <3> QED
        BY <3>1 DEF Leaves
    <2>3. CASE k # 2
      <3>1. /\ k - 1 \in 1 .. w - 1 /\ (k - 1) + 1 = k /\ k - 1 \in 1 .. w
            /\ i + (k - 1) - 1 \in 1 .. n /\ i \in 1 .. n /\ i + (k - 1) - 1 # i
        BY <1>1, <1>2, <1>3, <2>3
      <3>2. walk[k].stop.edge.from = walk[k - 1].stop.node
        BY <1>6, <3>1
      <3>3. walk[k - 1] = j[i + (k - 1) - 1]
        BY <1>2, <3>1
      <3>4. walk[k - 1].stop.node # j[i].stop.node
        BY <3>1, <3>3 DEF JourneyTrip
      <3>5. first[i + 1].stop.edge.from = first[i].stop.node
        BY DEF Leaves, Trip, IsPathFrom
      <3>6. first[i] = j[i]
        <4>1. i \in 1 .. i
          BY <1>1
        <4> QED
          BY <4>1 DEF Leaves
      <3> QED
        BY <3>2, <3>4, <3>5, <3>6
    <2> QED
      BY <2>2, <2>3
  <1>9. ASSUME NEW k \in 1 .. w - 1
        PROVE  walk[k].stop.node # stationB
    <2>1. k \in 1 .. w /\ i + k - 1 \in 1 .. n - 1
      BY <1>1, <1>2, <1>3
    <2> QED
      BY <1>2, <2>1 DEF JourneyTrip, Trip
  <1>10. walk # <<>>
    BY <1>2
  <1>11. IsWalk(walk)
    BY <1>2, <1>7, <1>8, <1>9, <1>10 DEF IsWalk
  <1>12. walk[w] = j[n]
    <2>1. w \in 1 .. w /\ i + w - 1 = n
      BY <1>1, <1>2, <1>3
    <2> QED
      BY <1>2, <2>1
  <1> QED
    BY <1>2, <1>11, <1>12

\* Some candidate is at least as fast as this path.
Covered(path) == \E p \in BagToSet(potentialPaths) : TravelTime(p) <= TravelTime(path)

\* While only the first path is known, its removed link is the one the spur search must
\* not take, the searches done so far have covered the journeys that leave the first path
\* where they started, and the first path is not a candidate again; then the second path
\* is as fast as any other journey, or all the others are too slow.
SecondPath ==
  /\ phase \in {"called", "first"} => potentialPaths = EmptyBag
  /\ Len(fastestPaths) = 1 => fastestPaths[1] \notin BagToSet(potentialPaths)
  /\ phase = "spur" /\ Len(fastestPaths) = 1 =>
       /\ excludedStops = {fastestPaths[1][idx + 1].stop}
       /\ \A j : JourneyTrip(j) =>
            \A i \in 1 .. idx - 1 : Leaves(j, fastestPaths[1], i) => Covered(j)
  /\ phase = "select" /\ Len(fastestPaths) = 1 =>
       \A j : JourneyTrip(j) /\ j # fastestPaths[1] => Covered(j)
  /\ phase = "choose" /\ Len(fastestPaths) = 1 /\ MaxNPaths > 1 =>
       \A j : JourneyTrip(j) /\ j # fastestPaths[1] => TooSlow(j)
  /\ Len(fastestPaths) >= 2 =>
       \A j : JourneyTrip(j) /\ j # fastestPaths[1] =>
         TravelTime(fastestPaths[2]) <= TravelTime(j)

\* A journey stays one while the call lasts.
LEMMA JourneyStays ==
  ASSUME UNCHANGED <<edges, query>>
  PROVE  \A path : JourneyTrip(path)' <=> JourneyTrip(path)
  BY TripStays DEF JourneyTrip

\* Steps that leave the paths and the phase alone, and steps that return.
LEMMA SecondPathStays ==
  ASSUME SecondPath, UNCHANGED <<edges, query, fastestPaths, potentialPaths>>,
         \/ UNCHANGED <<phase, idx, excludedStops>>
         \/ phase = "called" /\ phase' = "first" /\ fastestPaths = <<>>
         \/ phase' = "returned"
  PROVE  SecondPath'
  <1>1. \A j : JourneyTrip(j)' <=> JourneyTrip(j)
    BY JourneyStays
  <1>2. \A j : (Covered(j)' <=> Covered(j)) /\ (TooSlow(j)' <=> TooSlow(j))
    BY DEF Covered, TooSlow, MaxTravelTime
  <1>3. CASE UNCHANGED <<phase, idx, excludedStops>>
    BY <1>1, <1>2, <1>3 DEF SecondPath
  <1>4. CASE phase = "called" /\ phase' = "first" /\ fastestPaths = <<>>
    BY <1>4 DEF SecondPath
  <1>5. CASE phase' = "returned"
    BY <1>1, <1>5 DEF SecondPath
  <1> QED
    BY <1>3, <1>4, <1>5

\* With one path, one link is removed.
LEMMA OneRemoved ==
  ASSUME NEW paths, NEW path, Len(paths) = 1, paths[1] = path, DOMAIN paths = {1},
         NEW i, i < Len(path)
  PROVE  Last(paths) = path /\ RemovedStops(paths, i) = {path[i + 1].stop}
  <1>1. ToSet(paths) = {path}
    BY DEF ToSet
  <1>2. Last(paths) = path
    BY DEF Last
  <1> QED
    BY <1>1, <1>2 DEF RemovedStops

\* The outer loop begins: no candidates yet.
LEMMA FirstPathSecond ==
  ASSUME CallInvariant, SecondPath, FirstPath
  PROVE  SecondPath'
  <1>1. PICK path \in SearchResults :
          \/ phase' = "returned" /\ UNCHANGED <<searchVars, yenVars>>
          \/ /\ path # <<>> /\ quiet
             /\ fastestPaths' = <<path>>
             /\ KeepLooking(fastestPaths')
             /\ UNCHANGED <<potentialPaths, result>>
    BY DEF FirstPath, Return
  <1>2. phase = "first" /\ SearchDone /\ UNCHANGED <<edges, query, quiet>>
    BY DEF FirstPath, callVars
  <1>3. CASE phase' = "returned" /\ UNCHANGED <<searchVars, yenVars>>
    BY <1>2, <1>3, SecondPathStays DEF yenVars
  <1>4. CASE /\ path # <<>>
             /\ fastestPaths' = <<path>>
             /\ KeepLooking(fastestPaths')
             /\ UNCHANGED potentialPaths
    <2>1. Trip(path)
      BY <1>2, <1>4, FirstIsTrip
    <2>2. Len(fastestPaths') = 1 /\ fastestPaths'[1] = path /\ DOMAIN fastestPaths' = {1}
      BY <1>4
    <2>3. BagToSet(potentialPaths') = {}
      BY <1>2, <1>4 DEF SecondPath, EmptyBag, SetToBag, BagToSet
    <2>4. CASE phase' = "spur" /\ BeginSpur(fastestPaths', 1)
      <3>1. 1 < Len(path) /\ idx' = 1
        BY <2>1, <2>4 DEF Trip, BeginSpur
      <3>2. excludedStops' = {path[1 + 1].stop}
        BY <2>2, <2>4, <3>1, OneRemoved DEF BeginSpur, BeginSearch
      <3>3. excludedStops' = {fastestPaths'[1][idx' + 1].stop}
        BY <2>2, <3>1, <3>2
      <3>4. \A i \in 1 .. idx' - 1 : FALSE
        BY <3>1
      <3> QED
        BY <2>2, <2>3, <2>4, <3>3, <3>4 DEF SecondPath
    <2>5. CASE phase' = "choose" /\ ~(Len(fastestPaths') < MaxNPaths)
      BY <2>2, <2>3, <2>5, SizesAssumption DEF SecondPath
    <2> QED
      BY <1>4, <2>4, <2>5 DEF KeepLooking
  <1> QED
    BY <1>1, <1>3, <1>4

\* The end of a spur search that started on the first path: its candidate is not the
\* first path, and covers the journeys that leave the first path there.
LEMMA SpurCovers ==
  ASSUME CallInvariant, SecondPath, phase = "spur", SearchDone, Len(fastestPaths) = 1,
         NEW path \in SearchResults
  PROVE  /\ path # <<>> => Root(fastestPaths[1], idx) \o path # fastestPaths[1]
         /\ \A j : JourneyTrip(j) /\ Leaves(j, fastestPaths[1], idx) =>
              path # <<>> /\ TravelTime(Root(fastestPaths[1], idx) \o path) <= TravelTime(j)
  <1> DEFINE first == fastestPaths[1]
             new == Root(first, idx) \o path
             n == idx - 1
  <1>1. /\ FoundPaths /\ fastestPaths # <<>> /\ Last(fastestPaths) = first
        /\ excludedStops = {first[idx + 1].stop} /\ edges \subseteq Edge
    BY DEF CallInvariant, FoundPaths, SecondPath, Last, CallTypes
  <1>2. /\ Searching /\ stationB = query[2]
        /\ idx \in 1 .. Len(first) - 1 /\ stopA = first[idx]
    BY <1>1 DEF CallInvariant, SearchOn, InSearch
  <1>3. Trip(first) /\ first \in Seq(PathStopDist) /\ Len(first) \in Nat
    BY <1>1, LastPath DEF Trip
  <1>4. stopA.stop.node # stationB
    BY <1>2, <1>3 DEF Trip
  <1>5. ASSUME path # <<>>
        PROVE  /\ TravelTime(new) = path[Len(path)].dist /\ new # first
               /\ path[Len(path)].dist \in Nat
    <2>1. path \in Seq(PathStopDist) /\ Len(path) >= 2 /\ Len(path) \in Nat
      BY <1>2, <1>4, <1>5, SearchReturns
    <2>2. n \in Nat /\ n < Len(first) /\ idx = n + 1
      BY <1>2, <1>3
    <2> HIDE DEF n, first
    <2>3. new = Root(first, n + 1) \o path
      BY <2>2
    <2> HIDE DEF new
    <2>4. /\ new \in Seq(PathStopDist) /\ Len(new) = n + Len(path)
          /\ \A k \in 1 .. Len(path) : new[n + k] = path[k]
      BY <1>3, <2>1, <2>2, <2>3, GluedStops
    <2>5. new[Len(new)] = path[Len(path)] /\ new[idx + 1] = path[2]
      <3>1. Len(path) \in 1 .. Len(path) /\ 2 \in 1 .. Len(path) /\ idx + 1 = n + 2
        BY <2>1, <2>2
      <3> QED
        BY <2>4, <3>1
    <2>6. path[2].stop # first[idx + 1].stop
      <3>1. IsWalk(path) /\ 2 \in 2 .. Len(path)
        BY <1>2, <1>5, <2>1, LoopFindsFastest DEF Searching, ResultsAreFastest
      <3> QED
        BY <1>1, <3>1 DEF IsWalk, first
    <2>7. path[Len(path)].dist \in Nat
      <3>1. path[Len(path)] \in PathStopDist
        BY <2>1
      <3> QED
        BY <3>1 DEF PathStopDist
    <2> QED
      BY <2>5, <2>6, <2>7 DEF TravelTime, Last
  <1>6. ASSUME NEW j, JourneyTrip(j), Leaves(j, first, idx)
        PROVE  path # <<>> /\ path[Len(path)].dist <= TravelTime(j)
    <2>1. PICK walk \in Seq(PathStopDist) : IsWalk(walk) /\ walk[Len(walk)] = j[Len(j)]
      BY <1>1, <1>2, <1>3, <1>6, RestIsWalk
    <2>2. Trip(j) /\ walk[Len(walk)].stop.node = stationB
      BY <1>2, <1>6, <2>1 DEF JourneyTrip, Trip
    <2>3. path # <<>> /\ path[Len(path)].dist <= walk[Len(walk)].dist
      BY <1>2, <2>1, <2>2, LoopFindsFastest DEF Searching, ResultsAreFastest
    <2> QED
      BY <2>1, <2>2, <2>3, TripTime
  <1> HIDE DEF new
  <1>7. \A j : JourneyTrip(j) /\ Leaves(j, first, idx) =>
          path # <<>> /\ TravelTime(new) <= TravelTime(j)
    BY <1>5, <1>6
  <1> QED
    BY <1>5, <1>7 DEF new

\* So with that candidate the journeys that leave there are covered.
LEMMA SpurPathSecond ==
  ASSUME CallInvariant, SecondPath, SpurPath
  PROVE  SecondPath'
  <1> DEFINE first == fastestPaths[1]
  <1>1. /\ phase = "spur" /\ SearchDone /\ UNCHANGED <<edges, query, fastestPaths>>
        /\ phase' \in {"spur", "select"}
    BY DEF SpurPath, callVars
  <1>2. \A j : JourneyTrip(j)' <=> JourneyTrip(j)
    BY <1>1, JourneyStays
  <1>3. CASE Len(fastestPaths) # 1
    BY <1>1, <1>2, <1>3 DEF SecondPath
  <1>4. CASE Len(fastestPaths) = 1
    <2>1. /\ FoundPaths /\ Candidates /\ fastestPaths # <<>> /\ Last(fastestPaths) = first
          /\ idx \in 1 .. Len(first) - 1
      BY <1>1, <1>4 DEF CallInvariant, FoundPaths, SearchOn, Last
    <2>2. Trip(first) /\ Len(first) \in Nat /\ DOMAIN fastestPaths = {1}
      BY <1>4, <2>1, LastPath DEF FoundPaths
    <2>3. /\ excludedStops = {first[idx + 1].stop} /\ first \notin BagToSet(potentialPaths)
          /\ \A j : JourneyTrip(j) =>
               \A i \in 1 .. idx - 1 : Leaves(j, first, i) => Covered(j)
      BY <1>1, <1>4 DEF SecondPath
    <2>4. PICK path \in SearchResults :
            potentialPaths' = IF path = <<>> THEN potentialPaths
                              ELSE potentialPaths (+) One(Root(first, idx) \o path)
      BY <2>1 DEF SpurPath
    <2> DEFINE new == Root(first, idx) \o path
    <2>5. /\ path # <<>> => new # first
          /\ \A j : JourneyTrip(j) /\ Leaves(j, first, idx) =>
               path # <<>> /\ TravelTime(new) <= TravelTime(j)
      BY <1>1, <1>4, SpurCovers
    <2>6. potentialPaths' = IF path = <<>> THEN potentialPaths ELSE potentialPaths (+) One(new)
      BY <2>4
    <2> HIDE DEF new, first
    <2>7. BagToSet(potentialPaths')
            = BagToSet(potentialPaths) \cup (IF path = <<>> THEN {} ELSE {new})
      BY <2>6 DEF BagToSet, One, SetToBag, (+)
    <2>8. first \notin BagToSet(potentialPaths')
      BY <2>3, <2>5, <2>7
    <2>9. ASSUME NEW j, JourneyTrip(j), NEW i \in 1 .. idx, Leaves(j, first, i)
          PROVE  Covered(j)'
      <3>1. CASE i = idx
        BY <2>5, <2>7, <2>9, <3>1 DEF Covered, TravelTime
      <3>2. CASE i # idx
        <4>1. i \in 1 .. idx - 1
          BY <2>1, <2>9, <3>2
        <4>2. Covered(j)
          BY <2>3, <2>9, <4>1
        <4> QED
          BY <2>7, <4>2 DEF Covered, TravelTime
      <3> QED
        BY <3>1, <3>2
    <2>10. first = fastestPaths[1] /\ first = fastestPaths'[1] /\ Len(fastestPaths') = 1
      BY <1>1, <1>4 DEF first
    <2>11. CASE /\ idx + 1 < Len(first) /\ BeginSpur(fastestPaths, idx + 1)
                /\ UNCHANGED phase
      <3>1. idx' = idx + 1 /\ idx \in Nat /\ idx' - 1 = idx
        BY <2>1, <2>11 DEF BeginSpur
      <3>2. excludedStops' = {first[idx' + 1].stop}
        <4> DEFINE i == idx + 1
        <4>1. BeginSpur(fastestPaths, i) /\ i < Len(first)
          BY <2>11
        <4>2. idx' = i
          BY <3>1
        <4> HIDE DEF i
        <4>3. excludedStops' = RemovedStops(fastestPaths, i)
          BY <4>1 DEF BeginSpur, BeginSearch
        <4>4. RemovedStops(fastestPaths, i) = {first[i + 1].stop}
          BY <1>4, <2>2, <2>10, <4>1, OneRemoved
        <4> QED
          BY <4>2, <4>3, <4>4
      <3>3. \A j : JourneyTrip(j) =>
              \A i \in 1 .. idx' - 1 : Leaves(j, first, i) => Covered(j)'
        BY <2>9, <3>1
      <3> QED
        BY <1>1, <1>2, <2>8, <2>10, <2>11, <3>2, <3>3 DEF SecondPath
    <2>12. CASE idx + 1 = Len(first) /\ phase' = "select"
      <3>1. ASSUME NEW j, JourneyTrip(j), j # first
            PROVE  Covered(j)'
        <4>1. PICK i \in 1 .. Len(first) - 1 : Leaves(j, first, i)
          BY <2>2, <3>1, PathsPart DEF JourneyTrip
        <4>2. i \in 1 .. idx
          BY <2>1, <2>2, <2>12
        <4> QED
          BY <2>9, <3>1, <4>1, <4>2
      <3> QED
        BY <1>1, <1>2, <2>8, <2>10, <2>12, <3>1 DEF SecondPath
    <2> QED
      BY <2>1, <2>11, <2>12 DEF SpurPath
  <1> QED
    BY <1>3, <1>4

\* The fastest candidate is as fast as a journey that is covered.
LEMMA TopCovers ==
  ASSUME Candidates, NEW top \in TopPaths, NEW j, Trip(j), Covered(j)
  PROVE  TravelTime(top) <= TravelTime(j)
  <1>1. PICK p \in BagToSet(potentialPaths) : TravelTime(p) <= TravelTime(j)
    BY DEF Covered
  <1>2. TravelTime(top) <= TravelTime(p) /\ Trip(top) /\ Trip(p)
    BY DEF TopPaths, Candidates
  <1> QED
    BY <1>1, <1>2, TripTime

\* The choice of the next path takes the second one, or finds all others too slow.
LEMMA SelectPathSecond ==
  ASSUME CallInvariant, SecondPath, SelectPath
  PROVE  SecondPath'
  <1> DEFINE first == fastestPaths[1]
             n == Len(fastestPaths)
  <1>1. phase = "select" /\ UNCHANGED <<edges, query>>
    BY DEF SelectPath, callVars
  <1>2. /\ FoundPaths /\ Candidates /\ fastestPaths # <<>> /\ n \in Nat /\ n >= 1
        /\ Trip(first)
    BY <1>1, LastPath DEF CallInvariant, FoundPaths
  <1>3. \A j : JourneyTrip(j)' <=> JourneyTrip(j)
    BY <1>1, JourneyStays
  <1>4. n = 1 => /\ first \notin BagToSet(potentialPaths)
                 /\ \A j : JourneyTrip(j) /\ j # first => Covered(j)
    BY <1>1 DEF SecondPath
  <1>5. n >= 2 => \A j : JourneyTrip(j) /\ j # first =>
                    TravelTime(fastestPaths[2]) <= TravelTime(j)
    BY DEF SecondPath
  <1>6. CASE /\ potentialPaths = EmptyBag \/ \E path \in TopPaths : TooSlow(path)
             /\ phase' = "choose" /\ UNCHANGED <<yenVars, searchVars>>
    <2>1. UNCHANGED <<fastestPaths, potentialPaths>>
      BY <1>6 DEF yenVars
    <2>2. \A j : TooSlow(j)' <=> TooSlow(j)
      BY <2>1 DEF TooSlow, MaxTravelTime
    <2>3. ASSUME n = 1, NEW j, JourneyTrip(j), j # first
          PROVE  TooSlow(j)
      <3>1. Covered(j) /\ Trip(j)
        BY <1>4, <2>3 DEF JourneyTrip
      <3>2. potentialPaths # EmptyBag
        BY <3>1 DEF Covered, EmptyBag, SetToBag, BagToSet
      <3>3. PICK top \in TopPaths : TooSlow(top)
        BY <1>6, <3>2
      <3>4. Trip(top) /\ TravelTime(top) <= TravelTime(j)
        BY <1>2, <3>1, TopCovers DEF TopPaths, Candidates
      <3>5. TravelTime(top) \in Nat /\ TravelTime(j) \in Nat /\ MaxTravelTime \in Int
        BY <1>2, <3>1, <3>4, TripTime, PercentAssumption DEF MaxTravelTime
      <3> QED
        BY <3>3, <3>4, <3>5 DEF TooSlow
    <2> QED
      BY <1>1, <1>3, <1>4, <1>5, <1>6, <2>1, <2>2, <2>3 DEF SecondPath
  <1>7. ASSUME NEW path \in TopPaths, ~TooSlow(path),
               potentialPaths' = potentialPaths (-) One(path),
               \/ AlreadyFound(path) /\ UNCHANGED <<phase, fastestPaths, idx, searchVars>>
               \/ /\ ~AlreadyFound(path)
                  /\ fastestPaths' = Append(fastestPaths, path)
                  /\ KeepLooking(fastestPaths')
        PROVE  SecondPath'
    <2>1. path \in BagToSet(potentialPaths) /\ Trip(path)
      BY <1>2 DEF TopPaths, Candidates
    <2>2. CASE AlreadyFound(path) /\ UNCHANGED <<phase, fastestPaths, idx, searchVars>>
      <3>1. n # 1
        <4> SUFFICES ASSUME n = 1 PROVE FALSE
          OBVIOUS
        <4>1. DOMAIN fastestPaths = {1}
          <5>1. DOMAIN fastestPaths = 1 .. Len(fastestPaths)
            BY <1>2 DEF FoundPaths
          <5> QED
            BY <5>1
        <4>2. path = first
          BY <2>2, <4>1 DEF AlreadyFound, ToSet
        <4> QED
          BY <1>4, <2>1, <4>2
      <3> QED
        BY <1>1, <1>2, <1>3, <1>5, <2>2, <3>1 DEF SecondPath
    <2>3. CASE /\ fastestPaths' = Append(fastestPaths, path)
               /\ KeepLooking(fastestPaths')
      <3>1. /\ Len(fastestPaths') = n + 1 /\ fastestPaths'[1] = first
            /\ n = 1 => fastestPaths'[2] = path
            /\ n >= 2 => fastestPaths'[2] = fastestPaths[2]
        BY <1>2, <2>3 DEF FoundPaths
      <3>2. phase' \in {"spur", "choose"}
        BY <2>3 DEF KeepLooking
      <3>3. ASSUME NEW j, JourneyTrip(j), j # first
            PROVE  TravelTime(fastestPaths'[2]) <= TravelTime(j)
        <4>1. CASE n = 1
          BY <1>2, <1>4, <3>1, <3>3, <4>1, TopCovers DEF JourneyTrip
        <4>2. CASE n >= 2
          BY <1>5, <3>1, <3>3, <4>2
        <4>3. n = 1 \/ n >= 2
          <5> HIDE DEF n, first
          <5> QED
            BY ONLY <1>2
        <4> QED
          BY <4>1, <4>2, <4>3
      <3>4. Len(fastestPaths') # 1
        BY <1>2, <3>1
      <3> HIDE DEF n
      <3> QED
        BY <1>3, <3>1, <3>2, <3>3, <3>4 DEF SecondPath, TravelTime
    <2> QED
      BY <1>7, <2>2, <2>3
  <1> QED
    BY <1>6, <1>7 DEF SelectPath

\* The invariant of the search for the second path.
LEMMA SecondPathHolds == Spec => []SecondPath
  <1>1. Init => SecondPath
    BY DEF Init, SecondPath
  <1>2. CallInvariant /\ SecondPath /\ [Next]_vars => SecondPath'
    <2> SUFFICES ASSUME CallInvariant, SecondPath, [Next]_vars PROVE SecondPath'
      OBVIOUS
    <2>1. CASE CornerCase
      BY <2>1, SecondPathStays DEF CornerCase, Return, callVars, yenVars
    <2>2. CASE StartSearch
      <3>1. fastestPaths = <<>>
        BY <2>2 DEF StartSearch, CallInvariant, FoundPaths
      <3> QED
        BY <2>2, <3>1, SecondPathStays DEF StartSearch, callVars, yenVars
    <2>3. CASE VisitNode
      <3>1. UNCHANGED <<edges, query, fastestPaths, potentialPaths, phase, idx, excludedStops>>
        BY <2>3 DEF VisitNode, Visit, yenVars
      <3> QED
        BY <3>1, SecondPathStays
    <2>4. CASE FirstPath
      BY <2>4, FirstPathSecond
    <2>5. CASE SpurPath
      BY <2>5, SpurPathSecond
    <2>6. CASE SelectPath
      BY <2>6, SelectPathSecond
    <2>7. CASE ChooseQuiet
      <3>1. UNCHANGED <<edges, query, fastestPaths, potentialPaths>> /\ phase' = "returned"
        BY <2>7 DEF ChooseQuiet, Return, callVars, yenVars
      <3> QED
        BY <3>1, SecondPathStays
    <2>8. CASE UNCHANGED vars
      BY <2>8, SecondPathStays DEF vars
    <2> QED
      BY <2>1, <2>2, <2>3, <2>4, <2>5, <2>6, <2>7, <2>8 DEF Next
  <1> QED
    BY <1>1, <1>2, CallInvariantHolds, PTL DEF Spec

\* The second path GetFastestTravelRoutes finds is as fast as any journey but the first
\* within the limit, and it finds one if there is such a journey and room for it: for
\* every network.
THEOREM SecondPathFoundHolds == Spec => []SecondPathFound
  <1>1. CallInvariant /\ SecondPath => SecondPathFound
    <2> SUFFICES ASSUME CallInvariant, SecondPath, phase = "choose", MaxNPaths > 1,
                        NEW j \in Journeys(Start, query[2], {}) \ {fastestPaths[1]},
                        ~TooSlow(j)
                 PROVE  Len(fastestPaths) > 1 /\ TravelTime(fastestPaths[2]) <= TravelTime(j)
      BY DEF SecondPathFound
    <2>1. JourneyTrip(j) /\ j # fastestPaths[1]
      BY JourneysAreTrips DEF CallInvariant, CallTypes
    <2>2. Len(fastestPaths) \in Nat /\ Len(fastestPaths) >= 1
      BY LastPath DEF CallInvariant, FoundPaths
    <2>3. Len(fastestPaths) # 1
      BY <2>1 DEF SecondPath
    <2>4. Len(fastestPaths) >= 2 /\ Len(fastestPaths) > 1
      BY ONLY <2>2, <2>3
    <2> QED
      BY <2>1, <2>4 DEF SecondPath
  <1> QED
    BY <1>1, CallInvariantHolds, SecondPathHolds, PTL

-----------------------------------------------------------------------------
(* The result *)

\* The sum of travel times that ResultIsJourney defines is the one that grows by them.
TimesUpTo(n, steps, g) ==
  [i \in 0 .. n |-> IF i = 0 THEN 0 ELSE g[i - 1] + steps[i].travelTime]
TimeOf(n, steps) == (CHOOSE g : g = TimesUpTo(n, steps, g))[n]
LEMMA TimeIs ==
  ASSUME NEW n \in Nat, NEW steps, NEW d \in [0 .. n -> Int], d[0] = 0,
         \A i \in 1 .. n : d[i] = d[i - 1] + steps[i].travelTime
  PROVE  TimeOf(n, steps) = d[n]
  <1> DEFINE time == CHOOSE g : g = TimesUpTo(n, steps, g)
  <1>1. d = TimesUpTo(n, steps, d)
    <2>1. \A i \in 0 .. n : d[i] = TimesUpTo(n, steps, d)[i]
      BY DEF TimesUpTo
    <2>2. d = [i \in 0 .. n |-> d[i]]
      OBVIOUS
    <2>3. TimesUpTo(n, steps, d) = [i \in 0 .. n |-> TimesUpTo(n, steps, d)[i]]
      BY DEF TimesUpTo
    <2> QED
      BY <2>1, <2>2, <2>3
  <1>2. time = TimesUpTo(n, steps, time)
    BY <1>1
  <1> HIDE DEF time
  <1>3. \A i \in 0 .. n : time[i] = IF i = 0 THEN 0 ELSE time[i - 1] + steps[i].travelTime
    BY <1>2 DEF TimesUpTo
  <1> DEFINE wrong == {i \in 0 .. n : time[i] # d[i]}
  <1>4. ASSUME wrong # {} PROVE FALSE
    <2>1. wrong \in SUBSET Nat
      OBVIOUS
    <2>2. PICK m \in wrong : \A k \in wrong : m <= k
      BY <1>4, <2>1, LeastNumber
    <2>3. m \in 0 .. n /\ time[m] # d[m] /\ m # 0
      BY <1>3
    <2>4. m - 1 \in 0 .. n /\ ~(m <= m - 1) /\ m \in 1 .. n
      BY <2>3
    <2>5. m - 1 \notin wrong
      <3> HIDE DEF wrong
      <3> QED
        BY <2>2, <2>4
    <2>6. time[m - 1] = d[m - 1]
      BY <2>4, <2>5
    <2> QED
      BY <1>3, <2>3, <2>4, <2>6
  <1>5. time[n] = d[n]
    BY <1>4
  <1> QED
    BY <1>5 DEF TimeOf, time

\* The changes of route among the first steps.
ChangesUpTo(m, steps) == {i \in 2 .. m : steps[i].route # steps[i - 1].route}
LEMMA ChangesCounted ==
  ASSUME NEW m \in Nat, NEW steps
  PROVE  /\ Cardinality(ChangesUpTo(m, steps)) \in Nat
         /\ Cardinality(ChangesUpTo(0, steps)) = 0 /\ Cardinality(ChangesUpTo(1, steps)) = 0
         /\ m >= 1 => Cardinality(ChangesUpTo(m + 1, steps)) = Cardinality(ChangesUpTo(m, steps))
                      + IF steps[m + 1].route # steps[m].route THEN 1 ELSE 0
  <1> DEFINE c == ChangesUpTo(m, steps)
  <1>1. IsFiniteSet(c)
    <2>1. IsFiniteSet(2 .. m)
      BY FS_Interval
    <2>2. c \subseteq 2 .. m
      BY DEF ChangesUpTo
    <2> HIDE DEF c
    <2> QED
      BY <2>1, <2>2, FS_Subset
  <1>2. Cardinality(c) \in Nat
    BY <1>1, FS_CardinalityType
  <1>3. ChangesUpTo(0, steps) = {} /\ ChangesUpTo(1, steps) = {}
    BY DEF ChangesUpTo
  <1>4. Cardinality({}) = 0
    BY FS_EmptySet
  <1>5. ASSUME m >= 1
        PROVE  Cardinality(ChangesUpTo(m + 1, steps)) = Cardinality(c)
                 + IF steps[m + 1].route # steps[m].route THEN 1 ELSE 0
    <2>1. CASE steps[m + 1].route # steps[m].route
      <3>1. ChangesUpTo(m + 1, steps) = c \cup {m + 1} /\ m + 1 \notin c
        BY <1>5, <2>1 DEF ChangesUpTo
      <3> HIDE DEF c
      <3>2. Cardinality(c \cup {m + 1}) = Cardinality(c) + 1
        BY <1>1, <3>1, FS_AddElement
      <3> QED
        BY <2>1, <3>1, <3>2
    <2>2. CASE steps[m + 1].route = steps[m].route
      <3>1. ChangesUpTo(m + 1, steps) = c
        BY <1>5, <2>2 DEF ChangesUpTo
      <3> HIDE DEF c
      <3> QED
        BY <1>2, <2>2, <3>1
    <2> QED
      BY <2>1, <2>2
  <1> QED
    BY <1>2, <1>3, <1>4, <1>5

\* The steps of an assembled path: its total is the time of the steps and the changes.
LEMMA AssembledSteps ==
  ASSUME NEW path, Trip(path), edges \subseteq Edge
  PROVE  LET steps == Assemble(path).steps
             n == Len(path) - 1
         IN  /\ n \in Nat /\ n >= 1 /\ Len(steps) = n /\ DOMAIN steps = 1 .. n
             /\ steps[1].start = query[1] /\ steps[n].end = query[2]
             /\ \A i \in 2 .. n : steps[i].start = steps[i - 1].end
             /\ \A i \in 1 .. n : AlongEdge(steps[i])
             /\ TravelTime(path) = TimeOf(n, steps)
                                   + RouteChangePenalty * Cardinality(ChangesUpTo(n, steps))
  <1> DEFINE steps == Assemble(path).steps
             n == Len(path) - 1
             step(i) == StepTo(path[i].stop.node, path[i + 1].stop.node,
                               path[i + 1].stop.edge.route, path[i + 1].stop.edge.travelTime)
  <1>1. /\ path \in Seq(PathStopDist) /\ n \in Nat /\ n >= 1 /\ Len(path) = n + 1
        /\ path[n + 1].stop.node = query[2] /\ path[1] = Start
    BY DEF Trip, IsPathFrom
  <1>2. steps = [i \in 1 .. n |-> step(i)]
    BY DEF Assemble, Route
  <1>n. n = Len(path) - 1
    OBVIOUS
  <1> HIDE DEF n, steps
  <1>3. DOMAIN steps = 1 .. n /\ Len(steps) = n
    BY <1>1, <1>2
  <1>4. ASSUME NEW i \in 1 .. n
        PROVE  /\ steps[i].start = path[i].stop.node /\ steps[i].end = path[i + 1].stop.node
               /\ steps[i].route = path[i + 1].stop.edge.route
               /\ steps[i].travelTime = path[i + 1].stop.edge.travelTime
    BY <1>2 DEF StepTo
  <1>5. Start.stop.node = query[1] /\ Start.stop.edge = NoEdge /\ Start.dist = 0
    BY DEF Start, ColdStart, At
  <1>6. ASSUME NEW i \in 1 .. n
        PROVE  LET e == path[i + 1].stop.edge
               IN  /\ e \in Edge /\ e # NoEdge /\ e.travelTime \in Nat
                   /\ path[i].dist \in Nat
                   /\ path[i + 1].dist = path[i].dist + e.travelTime + Penalty(path[i].stop, e)
    <2> DEFINE e == path[i + 1].stop.edge
    <2>1. i \in 1 .. Len(path) - 1 /\ i \in 1 .. Len(path)
      BY <1>1
    <2>2. /\ e \in edges
          /\ path[i + 1] = At(StopOf(e), path[i].dist + StepCost(path[i].stop, e))
      BY <2>1 DEF Trip, IsPathFrom
    <2>3. path[i + 1].dist = path[i].dist + StepCost(path[i].stop, e)
      BY <2>2, AtFacts
    <2>4. e \in Edge /\ e.travelTime \in Nat
      BY <2>2 DEF Edge
    <2>5. path[i].dist \in Nat
      <3>1. path[i] \in PathStopDist
        BY <1>1, <2>1
      <3> QED
        BY <3>1 DEF PathStopDist
    <2>6. Penalty(path[i].stop, e) \in Nat
      BY DEF Penalty, RouteChangePenalty
    <2> HIDE DEF e
    <2>7. path[i + 1].dist = path[i].dist + e.travelTime + Penalty(path[i].stop, e)
      BY <2>3, <2>4, <2>5, <2>6 DEF StepCost
    <2> QED
      BY <2>4, <2>5, <2>7, NoEdgeAssumption DEF e
  <1> DEFINE count(i) == Cardinality(ChangesUpTo(i, steps))
             d == [i \in 0 .. n |-> path[i + 1].dist - RouteChangePenalty * count(i)]
  <1>7. \A i \in Nat : count(i) \in Nat
    BY ChangesCounted
  <1>8. count(0) = 0 /\ count(1) = 0
    BY ChangesCounted
  <1>9. ASSUME NEW i \in 2 .. n
        PROVE  /\ count(i) = count(i - 1)
                              + IF steps[i].route # steps[i - 1].route THEN 1 ELSE 0
               /\ Penalty(path[i].stop, path[i + 1].stop.edge)
                    = IF steps[i].route # steps[i - 1].route THEN RouteChangePenalty ELSE 0
    <2>1. i - 1 \in Nat /\ i - 1 >= 1 /\ (i - 1) + 1 = i /\ i \in 1 .. n /\ i - 1 \in 1 .. n
      BY <1>1
    <2>2. count(i) = count(i - 1) + IF steps[i].route # steps[i - 1].route THEN 1 ELSE 0
      <3> DEFINE m == i - 1
      <3>1. m \in Nat /\ m >= 1 /\ i = m + 1
        BY <2>1
      <3> HIDE DEF m
      <3>2. count(m + 1) = count(m) + IF steps[m + 1].route # steps[m].route THEN 1 ELSE 0
        BY <3>1, ChangesCounted
      <3> QED
        BY <3>1, <3>2 DEF m
    <2>3. path[i].stop.edge # NoEdge /\ steps[i - 1].route = path[i].stop.edge.route
      <3> DEFINE m == i - 1
      <3>1. m \in 1 .. n /\ i = m + 1
        BY <2>1
      <3> HIDE DEF m
      <3>2. path[m + 1].stop.edge # NoEdge /\ steps[m].route = path[m + 1].stop.edge.route
        BY <1>4, <1>6, <3>1
      <3> QED
        BY <3>1, <3>2 DEF m
    <2>4. steps[i].route = path[i + 1].stop.edge.route
      BY <1>4, <2>1
    <2> QED
      BY <2>2, <2>3, <2>4 DEF Penalty
  <1> HIDE DEF count
  <1>10. \A i \in 0 .. n : d[i] = path[i + 1].dist - RouteChangePenalty * count(i)
    OBVIOUS
  <1>11. d \in [0 .. n -> Int] /\ path[n + 1].dist \in Nat
    <2>1. \A i \in 0 .. n : i + 1 \in 1 .. Len(path) /\ i \in Nat
      BY <1>1
    <2>2. \A i \in 0 .. n : path[i + 1] \in PathStopDist
      BY <1>1, <2>1
    <2>3. \A i \in 0 .. n : path[i + 1].dist \in Nat
      BY <2>2 DEF PathStopDist
    <2>4. ASSUME NEW i \in 0 .. n
          PROVE  path[i + 1].dist - RouteChangePenalty * count(i) \in Int
      <3>1. path[i + 1].dist \in Nat /\ count(i) \in Nat
        BY <1>7, <2>1, <2>3
      <3> QED
        BY ONLY <3>1, SMTT(30) DEF RouteChangePenalty
    <2>5. n \in 0 .. n
      BY <1>1
    <2> QED
      BY <2>3, <2>4, <2>5
  <1> HIDE DEF d
  <1>12. d[0] = 0
    BY <1>1, <1>5, <1>8, <1>10 DEF RouteChangePenalty
  <1>13. ASSUME NEW i \in 1 .. n
         PROVE  d[i] = d[i - 1] + steps[i].travelTime
    <2> DEFINE e == path[i + 1].stop.edge
    <2>1. /\ e.travelTime \in Nat /\ path[i].dist \in Nat /\ steps[i].travelTime = e.travelTime
          /\ path[i + 1].dist = path[i].dist + e.travelTime + Penalty(path[i].stop, e)
      BY <1>4, <1>6
    <2>2. i \in 0 .. n /\ i - 1 \in 0 .. n /\ (i - 1) + 1 = i /\ i \in Nat /\ i - 1 \in Nat
      BY <1>1
    <2>3. /\ d[i] = path[i + 1].dist - RouteChangePenalty * count(i)
          /\ d[i - 1] = path[i].dist - RouteChangePenalty * count(i - 1)
      BY <1>10, <2>2
    <2>4. count(i) \in Nat /\ count(i - 1) \in Nat
      BY <1>7, <2>2
    <2>5. Penalty(path[i].stop, e) = RouteChangePenalty * (count(i) - count(i - 1))
      <3>1. CASE i = 1
        <4>1. Penalty(path[i].stop, e) = 0
          BY <1>1, <1>5, <3>1 DEF Penalty
        <4>2. count(i) = 0 /\ count(i - 1) = 0
          BY <1>8, <3>1
        <4> QED
          BY <4>1, <4>2 DEF RouteChangePenalty
      <3>2. CASE i # 1
        <4>1. i \in 2 .. n
          BY <1>1, <3>2
        <4> QED
          BY <1>9, <2>4, <4>1 DEF RouteChangePenalty
      <3> QED
        BY <3>1, <3>2
    <2> HIDE DEF e
    <2> QED
      BY <2>1, <2>3, <2>4, <2>5 DEF RouteChangePenalty
  <1>14. TimeOf(n, steps) = d[n]
    BY <1>1, <1>11, <1>12, <1>13, TimeIs
  <1>15. TravelTime(path) = TimeOf(n, steps) + RouteChangePenalty * count(n)
    <2>1. d[n] = path[n + 1].dist - RouteChangePenalty * count(n) /\ count(n) \in Nat
      BY <1>1, <1>7, <1>10
    <2>2. TravelTime(path) = path[n + 1].dist
      BY <1>1, TripTime
    <2> QED
      BY <1>11, <1>14, <2>1, <2>2 DEF RouteChangePenalty
  <1>16. /\ steps[1].start = query[1] /\ steps[n].end = query[2]
         /\ \A i \in 2 .. n : steps[i].start = steps[i - 1].end
    <2>1. 1 \in 1 .. n /\ n \in 1 .. n
      BY <1>1
    <2>2. \A i \in 2 .. n : i \in 1 .. n /\ i - 1 \in 1 .. n /\ (i - 1) + 1 = i
      BY <1>1
    <2> QED
      BY <1>1, <1>4, <1>5, <2>1, <2>2
  <1>17. ASSUME NEW i \in 1 .. n PROVE AlongEdge(steps[i])
    <2> DEFINE e == path[i + 1].stop.edge
    <2>1. i \in 1 .. Len(path) - 1
      BY <1>1
    <2>2. /\ e \in edges /\ e.from = path[i].stop.node
          /\ path[i + 1] = At(StopOf(e), path[i].dist + StepCost(path[i].stop, e))
      BY <2>1 DEF Trip, IsPathFrom
    <2>3. path[i + 1].stop.node = e.nextStop
      BY <2>2 DEF At, StopOf
    <2>4. steps[i] = StepTo(e.from, e.nextStop, e.route, e.travelTime)
      BY <1>2, <2>2, <2>3
    <2> HIDE DEF e
    <2> QED
      BY <2>2, <2>4 DEF AlongEdge
  <1> QED
    BY <1>1, <1>3, <1>15, <1>16, <1>17 DEF n, steps, count

\* What a call has returned: its one step, nothing, or a path as fast as it has to be.
AsFast(path) ==
  LET slowdown == IF quiet THEN Slowdown ELSE <<0, 1>>
  IN  \A other : Trip(other) =>
        TravelTime(path) * slowdown[2] <= TravelTime(other) * (slowdown[1] + slowdown[2])
Answered ==
  \/ query[1] = query[2] /\ result = Route(0, <<StayStep(query[1])>>)
  \/ /\ query[1] # query[2] /\ Journeys(Start, query[2], {}) = {}
     /\ result = Route(0, <<>>)
  \/ /\ query[1] # query[2] /\ Journeys(Start, query[2], {}) # {}
     /\ \E path : Trip(path) /\ AsFast(path) /\ result = Assemble(path)
ResultInvariant ==
  /\ phase \in {"spur", "select", "choose"} => quiet /\ Journeys(Start, query[2], {}) # {}
  /\ phase = "returned" /\ NoStation \notin {query[1], query[2]} => Answered

\* Nothing but the network and the query matters to an answer.
LEMMA AnswerStays ==
  ASSUME UNCHANGED callVars
  PROVE  /\ (Journeys(Start, query[2], {}) = {})' <=> Journeys(Start, query[2], {}) = {}
         /\ \A path : (AsFast(path)' <=> AsFast(path)) /\ Assemble(path)' = Assemble(path)
  <1>1. \A path : Trip(path)' <=> Trip(path)
    BY TripStays DEF callVars
  <1>2. UNCHANGED <<edges, query, quiet>>
    BY DEF callVars
  <1>3. \A path : AsFast(path)' <=> AsFast(path)
    BY <1>1, <1>2 DEF AsFast, TravelTime
  <1>4. \A path : Assemble(path)' = Assemble(path)
    BY <1>2 DEF Assemble, Route, TravelTime
  <1>5. Journeys(Start, query[2], {})' = Journeys(Start, query[2], {})
    BY <1>2 DEF Journeys, Start
  <1> QED
    BY <1>3, <1>4, <1>5

\* The choice is one of the paths.
LEMMA ChoiceFound ==
  ASSUME NEW counts, Len(fastestPaths) \in Nat, Len(fastestPaths) >= 1
  PROVE  MostQuiet(counts) \in 1 .. Len(fastestPaths)
  <1> DEFINE crowding(i) == GetPathCrowding(fastestPaths[i], counts)
             least == {i \in QuietEnough(counts) :
                         \A j \in QuietEnough(counts) : crowding(i) <= crowding(j)}
  <1>1. least \subseteq 2 .. Len(fastestPaths)
    BY DEF QuietEnough
  <1>2. MostQuiet(counts) = IF least = {}
                              THEN 1
                              ELSE CHOOSE i \in least : \A j \in least : i <= j
    BY DEF MostQuiet
  <1> HIDE DEF least
  <1>3. CASE least = {}
    BY <1>2, <1>3
  <1>4. CASE least # {}
    <2>1. least \in SUBSET Nat
      BY <1>1
    <2>2. \E i \in least : \A j \in least : i <= j
      BY <1>4, <2>1, LeastNumber
    <2>3. MostQuiet(counts) \in least
      BY <1>2, <1>4, <2>2
    <2>4. MostQuiet(counts) \in 2 .. Len(fastestPaths)
      BY <1>1, <2>3, Zenon
    <2> QED
      BY <2>4
  <1> QED
    BY <1>3, <1>4

\* A larger number times the same one.
LEMMA TimesMonotone ==
  ASSUME NEW a \in Nat, NEW b \in Nat, NEW c \in Nat, a <= b
  PROVE  a * c <= b * c
  BY SMTT(30)

\* Every path found is as fast as it has to be.
LEMMA FoundAsFast ==
  ASSUME FoundPaths, fastestPaths # <<>>, quiet, NEW i \in 1 .. Len(fastestPaths)
  PROVE  Trip(fastestPaths[i]) /\ AsFast(fastestPaths[i])
  <1>1. Trip(fastestPaths[i])
    BY DEF FoundPaths
  <1>2. ASSUME NEW other, Trip(other)
        PROVE  TravelTime(fastestPaths[i]) * Slowdown[2]
                 <= TravelTime(other) * (Slowdown[1] + Slowdown[2])
    <2> DEFINE t == TravelTime(fastestPaths[i])
               u == TravelTime(fastestPaths[1])
               w == TravelTime(other)
               c == Slowdown[1] + Slowdown[2]
    <2>1. t \in Nat /\ u \in Nat /\ w \in Nat
      BY <1>1, <1>2, LastPath, TripTime
    <2>2. c \in Nat /\ Slowdown[2] \in Nat
      BY PercentAssumption
    <2>3. u <= w
      BY <1>2 DEF FoundPaths
    <2>4. t * Slowdown[2] <= u * c
      BY DEF FoundPaths
    <2> HIDE DEF t, u, w, c
    <2>5. u * c <= w * c
      BY <2>1, <2>2, <2>3, TimesMonotone
    <2>6. t * Slowdown[2] \in Nat /\ u * c \in Nat /\ w * c \in Nat
      BY <2>1, <2>2
    <2>7. t * Slowdown[2] <= w * c
      BY ONLY <2>4, <2>5, <2>6
    <2> QED
      BY <2>7 DEF t, w, c
  <1> QED
    BY <1>1, <1>2 DEF AsFast

\* The first search decides whether there is a journey, and answers for the fastest one.
LEMMA FirstAnswers ==
  ASSUME CallInvariant, phase = "first", SearchDone, NEW path \in SearchResults
  PROVE  /\ path = <<>> <=> Journeys(Start, query[2], {}) = {}
         /\ path # <<>> /\ ~quiet => Trip(path) /\ AsFast(path)
  <1>1. Searching /\ stationB = query[2] /\ stopA = Start /\ excludedStops = {}
    BY DEF CallInvariant, SearchOn, InSearch
  <1>2. path = <<>> <=> Journeys(Start, query[2], {}) = {}
    BY <1>1, LoopFindsFastestJourney DEF Searching, SearchFindsFastest
  <1>3. ASSUME path # <<>>, ~quiet
        PROVE  Trip(path) /\ AsFast(path)
    <2>1. Trip(path) /\ \A other : Trip(other) => TravelTime(path) <= TravelTime(other)
      BY <1>3, FirstIsTrip
    <2>2. <<0, 1>>[1] = 0 /\ <<0, 1>>[2] = 1
      OBVIOUS
    <2>3. ASSUME NEW other, Trip(other)
          PROVE  TravelTime(path) * 1 <= TravelTime(other) * (0 + 1)
      BY <2>1, <2>3, TripTime
    <2> QED
      BY <1>3, <2>1, <2>2, <2>3 DEF AsFast
  <1> QED
    BY <1>2, <1>3

\* What every call returns.
LEMMA ResultInvariantHolds == Spec => []ResultInvariant
  <1>1. Init => ResultInvariant
    BY DEF Init, ResultInvariant
  <1>2. CallInvariant /\ ResultInvariant /\ [Next]_vars => ResultInvariant'
    <2> SUFFICES ASSUME CallInvariant, ResultInvariant, [Next]_vars PROVE ResultInvariant'
      OBVIOUS
    <2> DEFINE none == Journeys(Start, query[2], {}) = {}
    <2>c. UNCHANGED callVars
      BY DEF Next, CornerCase, StartSearch, VisitNode, Visit, FirstPath, SpurPath, SelectPath,
             ChooseQuiet, callVars, vars
    <2>q. UNCHANGED <<edges, query, quiet>>
      BY <2>c DEF callVars
    <2>0. /\ none' <=> none
          /\ \A path : (AsFast(path)' <=> AsFast(path)) /\ Assemble(path)' = Assemble(path)
          /\ \A path : Trip(path)' <=> Trip(path)
      BY <2>c, <2>q, AnswerStays, TripStays
    <2> HIDE DEF none
    <2>1. CASE CornerCase
      BY <2>1, <2>q DEF CornerCase, Return, ResultInvariant, Answered, Route
    <2>2. CASE StartSearch
      BY <2>2 DEF StartSearch, ResultInvariant
    <2>3. CASE UNCHANGED <<phase, result>>
      BY <2>0, <2>3, <2>q DEF ResultInvariant, Answered, none, Route
    <2>4. CASE FirstPath
      <3>1. PICK path \in SearchResults :
              \/ path = <<>> /\ Return(Route(0, <<>>))
              \/ path # <<>> /\ ~quiet /\ Return(Assemble(path))
              \/ path # <<>> /\ quiet /\ KeepLooking(fastestPaths')
        BY <2>4 DEF FirstPath
      <3>2. phase = "first" /\ SearchDone /\ query[1] # query[2]
        BY <2>4 DEF FirstPath, CallInvariant, CallTypes
      <3>3. /\ path = <<>> <=> none
            /\ path # <<>> /\ ~quiet => Trip(path) /\ AsFast(path)
        BY <3>2, FirstAnswers DEF none
      <3>4. CASE path = <<>> /\ Return(Route(0, <<>>))
        BY <2>0, <2>q, <3>2, <3>3, <3>4 DEF Return, ResultInvariant, Answered, none, Route
      <3>5. CASE path # <<>> /\ ~quiet /\ Return(Assemble(path))
        BY <2>0, <2>q, <3>2, <3>3, <3>5 DEF Return, ResultInvariant, Answered, none
      <3>6. CASE path # <<>> /\ quiet /\ KeepLooking(fastestPaths')
        <4>1. phase' \in {"spur", "choose"}
          BY <3>6 DEF KeepLooking
        <4> QED
          BY <2>0, <2>q, <3>3, <3>6, <4>1 DEF ResultInvariant, none
      <3> QED
        BY <3>1, <3>4, <3>5, <3>6
    <2>5. CASE SpurPath \/ SelectPath
      <3>1. phase \in {"spur", "select"} /\ phase' \in {"spur", "select", "choose"}
        BY <2>5 DEF SpurPath, SelectPath, KeepLooking
      <3> QED
        BY <2>0, <2>q, <3>1 DEF ResultInvariant, none
    <2>6. CASE ChooseQuiet
      <3>1. PICK counts \in PassengerCounts : Return(Assemble(fastestPaths[MostQuiet(counts)]))
        BY <2>6 DEF ChooseQuiet
      <3> DEFINE path == fastestPaths[MostQuiet(counts)]
      <3>2. /\ phase = "choose" /\ quiet /\ ~none /\ FoundPaths /\ fastestPaths # <<>>
            /\ query[1] # query[2]
        BY <2>6 DEF ChooseQuiet, ResultInvariant, none, CallInvariant, CallTypes, FoundPaths
      <3>3. MostQuiet(counts) \in 1 .. Len(fastestPaths)
        BY <3>2, LastPath, ChoiceFound
      <3>4. Trip(path) /\ AsFast(path)
        BY <3>2, <3>3, FoundAsFast
      <3>5. Return(Assemble(path))
        BY <3>1
      <3> HIDE DEF path
      <3> QED
        BY <2>0, <2>q, <3>2, <3>4, <3>5 DEF Return, ResultInvariant, Answered, none
    <2> QED
      BY <2>1, <2>2, <2>3, <2>4, <2>5, <2>6 DEF Next, VisitNode, vars
  <1> QED
    BY <1>1, <1>2, CallInvariantHolds, PTL DEF Spec

\* The sum in ResultIsJourney is that of TimeOf.
ResultFits(slowdown, journeys) ==
  LET steps == result.steps
      n == Len(steps)
  IN  /\ steps = <<>> <=> journeys = {}
      /\ n > 0 => /\ steps[1].start = query[1] /\ steps[n].end = query[2]
                  /\ \A i \in 2 .. n : steps[i].start = steps[i - 1].end
      /\ query[1] # query[2] => \A i \in 1 .. n : AlongEdge(steps[i])
      /\ result.totalTravelTime = TimeOf(n, steps)
                                   + RouteChangePenalty * Cardinality(ChangesUpTo(n, steps))
      /\ \A j \in journeys :
           result.totalTravelTime * slowdown[2] <= TravelTime(j) * (slowdown[1] + slowdown[2])
LEMMA ResultFitsSuffices ==
  ASSUME phase = "returned" /\ NoStation \notin {query[1], query[2]} =>
           ResultFits(IF quiet THEN Slowdown ELSE <<0, 1>>, Journeys(Start, query[2], {}))
  PROVE  ResultIsJourney
  BY DEF ResultIsJourney, ResultFits, TimeOf, TimesUpTo, ChangesUpTo

\* A sum of one step without a time, and of none.
LEMMA NoTime ==
  /\ TimeOf(0, <<>>) = 0
  /\ \A step : step.travelTime = 0 => TimeOf(1, <<step>>) = 0
  <1>1. TimeOf(0, <<>>) = 0
    <2> DEFINE d == [i \in 0 .. 0 |-> 0]
    <2>1. d \in [0 .. 0 -> Int] /\ d[0] = 0
      OBVIOUS
    <2> HIDE DEF d
    <2> QED
      BY <2>1, TimeIs
  <1>2. ASSUME NEW step, step.travelTime = 0
        PROVE  TimeOf(1, <<step>>) = 0
    <2> DEFINE d == [i \in 0 .. 1 |-> 0]
    <2>1. d \in [0 .. 1 -> Int] /\ d[0] = 0 /\ d[1] = 0
      OBVIOUS
    <2> HIDE DEF d
    <2>2. \A i \in 1 .. 1 : d[i] = d[i - 1] + <<step>>[i].travelTime
      BY <1>2, <2>1
    <2> QED
      BY <2>1, <2>2, TimeIs
  <1> QED
    BY <1>1, <1>2

\* The result leads from A to B along legs of the network, with the total of its steps
\* and changes, and is as fast as it has to be; it is empty exactly when no journey leads
\* to B.  For every network, query and slowdown.
THEOREM ResultIsJourneyHolds == Spec => []ResultIsJourney
  <1>1. CallInvariant /\ ResultInvariant => ResultIsJourney
    <2> SUFFICES ASSUME CallInvariant, ResultInvariant, phase = "returned",
                        NoStation \notin {query[1], query[2]}
                 PROVE  ResultFits(IF quiet THEN Slowdown ELSE <<0, 1>>,
                                   Journeys(Start, query[2], {}))
      BY ResultFitsSuffices
    <2> DEFINE slowdown == IF quiet THEN Slowdown ELSE <<0, 1>>
               journeys == Journeys(Start, query[2], {})
    <2>1. edges \subseteq Edge /\ query[1] \in Stations /\ query[2] \in Stations
      BY QueryAssumption DEF CallInvariant, CallTypes
    <2>2. slowdown[1] \in Nat /\ slowdown[2] \in Nat
      BY PercentAssumption
    <2>3. Answered
      BY DEF ResultInvariant
    <2>4. \A steps : /\ Cardinality(ChangesUpTo(0, steps)) = 0
                    /\ Cardinality(ChangesUpTo(1, steps)) = 0
      BY ChangesCounted
    <2>5. CASE query[1] = query[2] /\ result = Route(0, <<StayStep(query[1])>>)
      <3> DEFINE step == StayStep(query[1])
      <3>1. Start \in PathStopDist /\ Start.stop.node = query[2]
        BY <2>1, <2>5 DEF Start, ColdStart, At, PathStopDist, PathStop
      <3>2. <<Start>> \in Simple(1, Start, {}) /\ <<Start>>[Len(<<Start>>)].stop.node = query[2]
        BY <3>1, SimpleStart
      <3>3. <<Start>> \in journeys
        <4>1. 1 \in Nat \ {0}
          OBVIOUS
        <4>2. journeys = {p \in UNION {Simple(n, Start, {}) : n \in Nat \ {0}} :
                            p[Len(p)].stop.node = query[2]}
          BY <2>1, <3>1, JourneysAreSimple
        <4>3. <<Start>> \in UNION {Simple(n, Start, {}) : n \in Nat \ {0}}
          BY <3>2, <4>1
        <4> HIDE DEF journeys
        <4> QED
          BY <3>2, <4>2, <4>3
      <3>4. step.travelTime = 0 /\ step.start = query[1] /\ step.end = query[2]
        BY <2>5 DEF StayStep, StepTo
      <3>5. result.steps = <<step>> /\ result.totalTravelTime = 0
        BY <2>5 DEF Route
      <3> HIDE DEF step
      <3>6. Len(<<step>>) = 1 /\ <<step>>[1] = step /\ <<step>> # <<>>
        OBVIOUS
      <3>7. TimeOf(1, <<step>>) = 0
        BY <3>4, NoTime
      <3>8. ASSUME NEW j \in journeys
            PROVE  0 * slowdown[2] <= TravelTime(j) * (slowdown[1] + slowdown[2])
        <4>n. PICK n \in Nat \ {0} : j \in Simple(n, Start, {})
          BY <2>1, <3>1, JourneysAreSimple
        <4>1. j \in Seq(PathStopDist) /\ Len(j) \in 1 .. Len(j)
          BY <4>n DEF Simple
        <4>2. j[Len(j)] \in PathStopDist
          BY <4>1
        <4>3. TravelTime(j) \in Nat
          BY <4>2 DEF TravelTime, Last, PathStopDist
        <4>4. TravelTime(j) * (slowdown[1] + slowdown[2]) \in Nat
          BY <2>2, <4>3
        <4> HIDE DEF slowdown
        <4> QED
          BY <2>2, <4>4
      <3> HIDE DEF slowdown, journeys
      <3>9. query[1] = query[2]
        BY <2>5
      <3>10. ResultFits(slowdown, journeys)
        BY <2>4, <3>3, <3>4, <3>5, <3>6, <3>7, <3>8, <3>9 DEF ResultFits, RouteChangePenalty
      <3> QED
        BY <3>10 DEF slowdown, journeys
    <2>6. CASE journeys = {} /\ result = Route(0, <<>>)
      <3>1. result.steps = <<>> /\ result.totalTravelTime = 0 /\ Len(<<>>) = 0
        BY <2>6 DEF Route
      <3> HIDE DEF slowdown, journeys
      <3>2. ResultFits(slowdown, journeys)
        BY <2>4, <2>6, <3>1, NoTime DEF ResultFits, RouteChangePenalty
      <3> QED
        BY <3>2 DEF slowdown, journeys
    <2>7. ASSUME query[1] # query[2], journeys # {},
                 NEW path, Trip(path), AsFast(path), result = Assemble(path)
          PROVE  ResultFits(slowdown, journeys)
      <3> DEFINE steps == Assemble(path).steps
                 n == Len(path) - 1
      <3>1. /\ n \in Nat /\ n >= 1 /\ Len(steps) = n
            /\ steps[1].start = query[1] /\ steps[n].end = query[2]
            /\ \A i \in 2 .. n : steps[i].start = steps[i - 1].end
            /\ \A i \in 1 .. n : AlongEdge(steps[i])
            /\ TravelTime(path) = TimeOf(n, steps)
                                  + RouteChangePenalty * Cardinality(ChangesUpTo(n, steps))
        BY <2>1, <2>7, AssembledSteps
      <3>2. result.steps = steps /\ result.totalTravelTime = TravelTime(path)
        BY <2>7 DEF Assemble, Route
      <3>3. ASSUME NEW j \in journeys
            PROVE  TravelTime(path) * slowdown[2] <= TravelTime(j) * (slowdown[1] + slowdown[2])
        <4>1. Trip(j)
          BY <2>1, <2>7, JourneysAreTrips DEF JourneyTrip
        <4> QED
          BY <2>7, <4>1 DEF AsFast
      <3>4. steps # <<>>
        <4> HIDE DEF steps, n
        <4> QED
          BY <3>1
      <3> HIDE DEF steps, n, slowdown, journeys
      <3> QED
        BY <2>7, <3>1, <3>2, <3>3, <3>4 DEF ResultFits
    <2> QED
      BY <2>3, <2>5, <2>6, <2>7 DEF Answered
  <1> QED
    BY <1>1, CallInvariantHolds, ResultInvariantHolds, PTL

-----------------------------------------------------------------------------
(* The quiet path *)

\* The sums of passengers fit into the unsigned int of GetPathCrowding.
CountsFit ==
  \A i \in 1 .. Len(fastestPaths) :
    Passengers(fastestPaths[i], passengerCount) \in 0 .. UIntSize - 1

\* The choice made, with the counts it has read.
ChoiceMade ==
  /\ phase # "returned" => passengerCount = NoCounts
  /\ phase = "returned" /\ passengerCount # NoCounts =>
       /\ fastestPaths # <<>>
       /\ result = Assemble(fastestPaths[MostQuiet(passengerCount)])

LEMMA ChoiceMadeHolds == Spec => []ChoiceMade
  <1>1. Init => ChoiceMade
    BY DEF Init, ChoiceMade
  <1>2. CallInvariant /\ ChoiceMade /\ [Next]_vars => ChoiceMade'
    <2> SUFFICES ASSUME CallInvariant, ChoiceMade, [Next]_vars PROVE ChoiceMade'
      OBVIOUS
    <2>1. CASE phase # "returned" /\ UNCHANGED passengerCount
      BY <2>1 DEF ChoiceMade
    <2>2. CASE ChooseQuiet
      <3>1. phase = "choose" /\ fastestPaths # <<>> /\ UNCHANGED <<query, fastestPaths>>
        BY <2>2 DEF ChooseQuiet, CallInvariant, FoundPaths, callVars, yenVars
      <3>2. /\ phase' = "returned"
            /\ result' = Assemble(fastestPaths[MostQuiet(passengerCount')])
        BY <2>2 DEF ChooseQuiet, Return
      <3>3. (Assemble(fastestPaths[MostQuiet(passengerCount)]))'
              = Assemble(fastestPaths[MostQuiet(passengerCount')])
        BY <3>1 DEF Assemble, Route, TravelTime, MostQuiet, QuietEnough
      <3> QED
        BY <3>1, <3>2, <3>3 DEF ChoiceMade
    <2>3. CASE UNCHANGED vars
      <3>1. UNCHANGED <<phase, query, fastestPaths, passengerCount, result>>
        BY <2>3 DEF vars
      <3>2. (Assemble(fastestPaths[MostQuiet(passengerCount)]))'
              = Assemble(fastestPaths[MostQuiet(passengerCount)])
        BY <3>1 DEF Assemble, Route, TravelTime, MostQuiet, QuietEnough
      <3> QED
        BY <3>1, <3>2 DEF ChoiceMade
    <2> QED
      BY <2>1, <2>2, <2>3 DEF Next, CornerCase, StartSearch, VisitNode, FirstPath, SpurPath,
                              SelectPath
  <1> QED
    BY <1>1, <1>2, CallInvariantHolds, PTL DEF Spec

\* A set of places has one where a function is least.
LEMMA LeastPlace ==
  ASSUME NEW S, S # {}, NEW f, \A i \in S : f[i] \in Nat
  PROVE  \E i \in S : \A j \in S : f[i] <= f[j]
  <1> DEFINE values == {f[i] : i \in S}
  <1>1. values \in SUBSET Nat /\ values # {}
    OBVIOUS
  <1>2. PICK m \in values : \A k \in values : m <= k
    BY <1>1, LeastNumber
  <1> QED
    BY <1>2

\* The limit of crowding, rounded down as the code does, is the quietness asked for.
LEMMA QuietEnoughSaves ==
  ASSUME NEW n \in Nat, n = Len(fastestPaths), n >= 1, NEW counts, NEW p,
         \A i \in 1 .. n : p[i] \in Nat /\ p[i] = GetPathCrowding(fastestPaths[i], counts)
  PROVE  QuietEnough(counts)
           = {i \in 1 .. n : /\ p[i] * Quietness[2] <= p[1] * (Quietness[2] - Quietness[1])
                             /\ p[i] < p[1]}
  <1> DEFINE m == p[1] * (Quietness[2] - Quietness[1])
             saves(i) == p[i] * Quietness[2] <= m /\ p[i] < p[1]
  <1>1. 1 \in 1 .. n /\ p[1] \in Nat
    OBVIOUS
  <1>2. /\ Quietness[1] \in Nat /\ Quietness[2] \in Nat \ {0} /\ Quietness[1] <= Quietness[2]
    BY PercentAssumption
  <1>3. m \in Nat
    <2>1. Quietness[2] - Quietness[1] \in Nat
      BY <1>2
    <2> QED
      BY <1>1, <2>1
  <1>4. \A i \in 2 .. n : i \in 1 .. n
    OBVIOUS
  <1>5. QuietEnough(counts) = {i \in 2 .. n : p[i] <= m \div Quietness[2] /\ p[i] < p[1]}
    BY <1>1, <1>4 DEF QuietEnough
  <1> HIDE DEF m
  <1>6. \A i \in 1 .. n : p[i] <= m \div Quietness[2] <=> p[i] * Quietness[2] <= m
    BY <1>2, <1>3, RoundedDown
  <1>7. \A i \in 1 .. n : saves(i) => i \in 2 .. n
    <2> TAKE i \in 1 .. n
    <2>1. saves(i) => i # 1
      BY <1>1
    <2> QED
      BY <2>1
  <1>8. QuietEnough(counts) = {i \in 1 .. n : saves(i)}
    BY <1>4, <1>5, <1>6, <1>7
  <1> QED
    BY <1>8 DEF m

\* As long as the sums fit, the path chosen has the fewest passengers of those that save
\* enough, and is the fastest if none does.
THEOREM QuietestChosenHolds == Spec => [](CountsFit => QuietestChosen)
  <1>1. CallInvariant /\ ChoiceMade => (CountsFit => QuietestChosen)
    <2> SUFFICES ASSUME CallInvariant, ChoiceMade, CountsFit,
                        phase = "returned", passengerCount # NoCounts
                 PROVE  LET passengers(i) == Passengers(fastestPaths[i], passengerCount)
                            saves(i) == /\ passengers(i) * Quietness[2]
                                             <= passengers(1) * (Quietness[2] - Quietness[1])
                                        /\ passengers(i) < passengers(1)
                        IN  \E i \in DOMAIN fastestPaths :
                              /\ result = Assemble(fastestPaths[i])
                              /\ i = 1 \/ saves(i)
                              /\ \A j \in DOMAIN fastestPaths :
                                   saves(j) => passengers(i) <= passengers(j)
      BY DEF QuietestChosen
    <2> DEFINE n == Len(fastestPaths)
               p == [i \in 1 .. n |-> Passengers(fastestPaths[i], passengerCount)]
               m == p[1] * (Quietness[2] - Quietness[1])
               enough == QuietEnough(passengerCount)
               i0 == MostQuiet(passengerCount)
    <2>1. /\ FoundPaths /\ fastestPaths # <<>> /\ n \in Nat /\ n >= 1
          /\ DOMAIN fastestPaths = 1 .. n /\ result = Assemble(fastestPaths[i0])
      BY LastPath DEF ChoiceMade, CallInvariant, FoundPaths
    <2>2. \A i \in 1 .. n : p[i] = Passengers(fastestPaths[i], passengerCount)
      OBVIOUS
    <2>3. \A i \in 1 .. n : /\ p[i] \in Nat
                            /\ p[i] = GetPathCrowding(fastestPaths[i], passengerCount)
      <3> TAKE i \in 1 .. n
      <3>1. p[i] \in 0 .. UIntSize - 1
        BY DEF CountsFit
      <3>2. UIntSize \in Nat \ {0}
        BY SizesAssumption
      <3> HIDE DEF p
      <3>3. p[i] % UIntSize = p[i] /\ p[i] \in Nat
        BY <3>1, <3>2
      <3> QED
        BY <2>2, <3>3 DEF GetPathCrowding
    <2> HIDE DEF p, n
    <2>4. enough = {i \in 1 .. n : p[i] * Quietness[2] <= m /\ p[i] < p[1]}
      BY <2>1, <2>3, QuietEnoughSaves DEF n
    <2> DEFINE least == {i \in enough : \A j \in enough : p[i] <= p[j]}
    <2>5. i0 = IF least = {} THEN 1 ELSE CHOOSE i \in least : \A j \in least : i <= j
      <3>1. \A i \in enough : i \in 1 .. n
        BY <2>4
      <3>2. least = {i \in enough : \A j \in enough :
                       GetPathCrowding(fastestPaths[i], passengerCount)
                         <= GetPathCrowding(fastestPaths[j], passengerCount)}
        BY <2>3, <3>1
      <3> HIDE DEF least
      <3> QED
        BY <3>2 DEF MostQuiet
    <2>6. \A i \in enough : p[i] \in Nat /\ i \in 1 .. n
      BY <2>3, <2>4
    <2> HIDE DEF enough, i0
    <2>7. least = {} => enough = {}
      BY <2>6, LeastPlace
    <2>8. least # {} => i0 \in least
      <3>1. least \in SUBSET Nat
        BY <2>6
      <3> HIDE DEF least
      <3> QED
        BY <2>5, <3>1, LeastNumber
    <2>9. /\ i0 \in 1 .. n
          /\ i0 = 1 \/ i0 \in enough
          /\ \A j \in enough : p[i0] <= p[j]
      <3>1. CASE least = {}
        BY <2>1, <2>5, <2>7, <3>1
      <3>2. CASE least # {}
        BY <2>6, <2>8, <3>2
      <3> QED
        BY <3>1, <3>2
    <2> HIDE DEF least
    <2>10. /\ i0 = 1 \/ (p[i0] * Quietness[2] <= m /\ p[i0] < p[1])
           /\ \A j \in 1 .. n : p[j] * Quietness[2] <= m /\ p[j] < p[1] => p[i0] <= p[j]
      BY <2>4, <2>9
    <2>11. 1 \in 1 .. n
      BY <2>1
    <2> QED
      BY <2>1, <2>2, <2>9, <2>10, <2>11
  <1> QED
    BY <1>1, CallInvariantHolds, ChoiceMadeHolds, PTL

=============================================================================
