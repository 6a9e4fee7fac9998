------------------------- MODULE FastestRouteProofs -------------------------
(***************************************************************************)
(* The search of GetFastestTravelRoute is correct on every network, from   *)
(* every start, to every station and whatever stops are excluded: its loop *)
(* invariant, the exactness of its distances, the end of the loop that     *)
(* assembles the path, and the path it returns.                            *)
(*                                                                         *)
(* Induction along a path is the least-number principle: a walk that the   *)
(* search missed has a first stop that it missed.                          *)
(***************************************************************************)
EXTENDS FastestRoute, FiniteSetTheorems, WellFoundedInduction, TLAPS

USE NoEdgeAssumption

(* Stops and costs *)

\* A set of natural numbers has a least one.
LEMMA LeastNumber ==
  ASSUME NEW S \in SUBSET Nat, S # {}
  PROVE  \E m \in S : \A n \in S : m <= n
  <1> DEFINE Less == {p \in Nat \X Nat : p[1] < p[2]}
  <1>1. IsWellFoundedOn(Less, Nat)
    BY NatLessThanWellFounded DEF OpToRel
  <1>2. S \subseteq Nat
    OBVIOUS
  <1>3. \E m \in S : \A n \in S : ~(<<n, m>> \in Less)
    BY ONLY <1>1, <1>2, WFMin, S # {}
  <1>4. PICK m \in S : \A n \in S : ~(<<n, m>> \in Less)
    BY <1>3
  <1>5. \A n \in S : ~(n < m)
    BY <1>4
  <1> QED
    BY <1>5

\* The stop an edge leads to.
LEMMA StopOfFacts ==
  ASSUME NEW e \in Edge
  PROVE  /\ StopOf(e) \in PathStop
         /\ StopOf(e).edge = e /\ StopOf(e).node = e.nextStop
  BY DEF StopOf, PathStop, Edge

\* What an edge costs, with the penalty.
LEMMA StepCostNat ==
  ASSUME NEW stop, NEW e \in Edge
  PROVE  StepCost(stop, e) \in Nat
  BY DEF StepCost, Penalty, RouteChangePenalty, Edge

\* A stop with a distance.
LEMMA AtFacts ==
  ASSUME NEW stop, NEW dist
  PROVE  /\ At(stop, dist).stop = stop /\ At(stop, dist).dist = dist
         /\ stop \in PathStop /\ dist \in Nat => At(stop, dist) \in PathStopDist
  BY DEF At, PathStopDist

-----------------------------------------------------------------------------
(* One iteration of the loop *)

\* The types of the data structures of the search.
SearchTypeOK ==
  /\ edges \subseteq Edge
  /\ stopA \in PathStopDist /\ stationB \in Stations
  /\ DOMAIN distFromA \subseteq PathStop
  /\ distFromA \in [DOMAIN distFromA -> Nat]
  /\ nodesToVisit \subseteq PathStopDist

Stops(top) == {StopOf(e) : e \in Improved(top)}

\* What an iteration does, stop by stop.
Relaxes(top) ==
  /\ UNCHANGED <<edges, stopA, stationB, excludedStops>>
  /\ DOMAIN distFromA' = DOMAIN distFromA \cup Stops(top)
  /\ distFromA' \in [DOMAIN distFromA' -> Nat]
  /\ DOMAIN previousStop' = DOMAIN previousStop \cup Stops(top)
  /\ \A s \in Stops(top) :
       distFromA'[s] = NeighborDist(top, s.edge) /\ previousStop'[s] = top.stop
  /\ \A s \in DOMAIN distFromA \ Stops(top) : distFromA'[s] = distFromA[s]
  /\ \A s \in DOMAIN previousStop \ Stops(top) : previousStop'[s] = previousStop[s]
  /\ nodesToVisit' = (nodesToVisit \ {top})
       \cup {At(StopOf(e), NeighborDist(top, e)) : e \in Improved(top)}

\* The distance of a neighbor is a number not below that of the stop.
LEMMA NeighborDistNat ==
  ASSUME NEW top \in PathStopDist, NEW e \in Edge
  PROVE  NeighborDist(top, e) \in Nat /\ top.dist <= NeighborDist(top, e)
  <1>1. top.dist \in Nat /\ StepCost(top.stop, e) \in Nat
    BY StepCostNat DEF PathStopDist
  <1> QED
    BY <1>1 DEF NeighborDist

\* A stop to relax is a stop of an edge out of the visited one.
LEMMA StopsFacts ==
  ASSUME SearchTypeOK, NEW top \in nodesToVisit, NEW s \in Stops(top)
  PROVE  /\ s \in PathStop /\ s.edge \in Improved(top) /\ s.edge \in Edge
         /\ s = StopOf(s.edge) /\ s.edge \in edges
         /\ s.edge.from = top.stop.node /\ top.stop.node # stationB /\ s \notin excludedStops
         /\ NeighborDist(top, s.edge) \in Nat /\ top.dist <= NeighborDist(top, s.edge)
         /\ s \notin DOMAIN distFromA \/ NeighborDist(top, s.edge) < distFromA[s]
  <1>1. PICK e \in Improved(top) : s = StopOf(e)
    BY DEF Stops
  <1>2. e \in edges /\ e \in Edge
    BY DEF Improved, SearchTypeOK
  <1>3. s.edge = e /\ s \in PathStop
    BY <1>1, <1>2, StopOfFacts
  <1>4. NeighborDist(top, e) \in Nat /\ top.dist <= NeighborDist(top, e)
    BY <1>2, NeighborDistNat DEF SearchTypeOK
  <1> QED
    BY <1>1, <1>2, <1>3, <1>4 DEF Improved

\* Visit is such an iteration.
LEMMA VisitRelaxes ==
  ASSUME SearchTypeOK, Visit
  PROVE  \E top \in nodesToVisit : Relaxes(top)
  <1>1. PICK top \in nodesToVisit :
          /\ distFromA' = [s \in DOMAIN distFromA \cup Stops(top) |->
                             IF s \in Stops(top) THEN NeighborDist(top, s.edge) ELSE distFromA[s]]
          /\ previousStop' = [s \in DOMAIN previousStop \cup Stops(top) |->
                                IF s \in Stops(top) THEN top.stop ELSE previousStop[s]]
          /\ nodesToVisit' =
               Rest(top) \cup {At(StopOf(e), NeighborDist(top, e)) : e \in Improved(top)}
          /\ UNCHANGED <<edges, stopA, stationB, excludedStops>>
    BY DEF Visit, Stops
  <1>2. \A s \in Stops(top) : NeighborDist(top, s.edge) \in Nat
    BY StopsFacts
  <1>3. distFromA' \in [DOMAIN distFromA' -> Nat]
    BY <1>1, <1>2 DEF SearchTypeOK
  <1> QED
    BY <1>1, <1>3 DEF Relaxes, Rest

\* Every iteration keeps the types.
LEMMA RelaxTypeOK ==
  ASSUME SearchTypeOK, NEW top \in nodesToVisit, Relaxes(top)
  PROVE  SearchTypeOK'
  <1>1. \A e \in Improved(top) : At(StopOf(e), NeighborDist(top, e)) \in PathStopDist
    BY StopOfFacts, NeighborDistNat, AtFacts DEF Improved, SearchTypeOK
  <1>2. nodesToVisit' \subseteq PathStopDist
    BY <1>1 DEF Relaxes, SearchTypeOK
  <1>3. DOMAIN distFromA' \subseteq PathStop
    BY StopsFacts DEF Relaxes, SearchTypeOK
  <1> QED
    BY <1>2, <1>3 DEF Relaxes, SearchTypeOK

\* Distances never grow.
LEMMA RelaxShrinks ==
  ASSUME SearchTypeOK, NEW top \in nodesToVisit, Relaxes(top), NEW s \in DOMAIN distFromA
  PROVE  /\ s \in DOMAIN distFromA' /\ distFromA[s] \in Nat /\ distFromA'[s] \in Nat
         /\ distFromA'[s] <= distFromA[s]
  <1>1. s \in DOMAIN distFromA' /\ distFromA[s] \in Nat
    BY DEF Relaxes, SearchTypeOK
  <1>2. CASE s \in Stops(top)
    BY <1>1, <1>2, StopsFacts DEF Relaxes
  <1>3. CASE s \notin Stops(top)
    BY <1>1, <1>3 DEF Relaxes
  <1> QED
    BY <1>2, <1>3

-----------------------------------------------------------------------------
(* The loop invariant *)

SearchLoop ==
  /\ SearchTypeOK
  /\ QueueJustified
  /\ DistancesJustified
  /\ VisitedStopsRelaxed

\* The first lines of the function establish it.
LEMMA SearchStarts ==
  ASSUME edges \subseteq Edge, stopA \in PathStopDist, stationB \in Stations,
         distFromA = [s \in {stopA.stop} |-> stopA.dist],
         nodesToVisit = {stopA}
  PROVE  SearchLoop
  <1>1. stopA.stop \in PathStop /\ stopA.dist \in Nat /\ stopA = At(stopA.stop, stopA.dist)
    BY DEF PathStopDist, At
  <1>2. DOMAIN distFromA = {stopA.stop} /\ distFromA[stopA.stop] = stopA.dist
    OBVIOUS
  <1>3. SearchTypeOK
    BY <1>1 DEF SearchTypeOK
  <1>4. QueueJustified
    BY <1>1, <1>2 DEF QueueJustified
  <1>5. DistancesJustified
    BY <1>2 DEF DistancesJustified
  <1>6. VisitedStopsRelaxed
    BY <1>1, <1>2 DEF VisitedStopsRelaxed
  <1> QED
    BY <1>3, <1>4, <1>5, <1>6 DEF SearchLoop

\* The start keeps its distance, and the visited stop its own: an iteration relaxes
\* neither.
LEMMA NotRelaxed ==
  ASSUME SearchLoop, NEW top \in nodesToVisit
  PROVE  /\ stopA.stop \notin Stops(top) /\ top.stop \notin Stops(top)
         /\ top.stop \in DOMAIN distFromA /\ distFromA[top.stop] <= top.dist
         /\ top.dist \in Nat /\ stopA.dist \in Nat /\ stopA.dist <= top.dist
  <1>1. /\ top.stop \in DOMAIN distFromA /\ distFromA[top.stop] <= top.dist
        /\ stopA.dist <= top.dist
    BY DEF SearchLoop, QueueJustified
  <1>2. top.dist \in Nat /\ stopA.dist \in Nat
    BY DEF SearchLoop, SearchTypeOK, PathStopDist
  <1>3. \A s \in DOMAIN distFromA : distFromA[s] \in Nat
    BY DEF SearchLoop, SearchTypeOK
  <1>4. stopA.stop \in DOMAIN distFromA /\ distFromA[stopA.stop] = stopA.dist
    BY DEF SearchLoop, DistancesJustified
  <1>5. \A s \in Stops(top) \cap DOMAIN distFromA : top.dist < distFromA[s]
    BY <1>2, <1>3, StopsFacts DEF SearchLoop
  <1> QED
    BY <1>1, <1>2, <1>3, <1>4, <1>5

\* An iteration queues what it met.
LEMMA RelaxQueue ==
  ASSUME SearchLoop, NEW top \in nodesToVisit, Relaxes(top)
  PROVE  QueueJustified'
  <1>t. SearchTypeOK
    BY DEF SearchLoop
  <1> SUFFICES ASSUME NEW n \in nodesToVisit'
               PROVE  /\ n.stop \in DOMAIN distFromA'
                      /\ distFromA'[n.stop] <= n.dist
                      /\ stopA.dist <= n.dist
    BY DEF QueueJustified, Relaxes
  <1>1. CASE n \in nodesToVisit
    <2>1. /\ n.stop \in DOMAIN distFromA /\ distFromA[n.stop] <= n.dist
          /\ stopA.dist <= n.dist /\ n.dist \in Nat
      BY <1>1 DEF SearchLoop, QueueJustified, SearchTypeOK, PathStopDist
    <2>2. /\ n.stop \in DOMAIN distFromA' /\ distFromA[n.stop] \in Nat
          /\ distFromA'[n.stop] \in Nat /\ distFromA'[n.stop] <= distFromA[n.stop]
      BY <1>t, <2>1, RelaxShrinks
    <2> QED
      BY <2>1, <2>2
  <1>2. ASSUME NEW e \in Improved(top), n = At(StopOf(e), NeighborDist(top, e))
        PROVE  /\ n.stop \in DOMAIN distFromA'
               /\ distFromA'[n.stop] <= n.dist
               /\ stopA.dist <= n.dist
    <2>1. StopOf(e) \in Stops(top) /\ e \in Edge
      BY <1>t DEF Stops, Improved, SearchTypeOK
    <2>2. StopOf(e).edge = e /\ n.stop = StopOf(e) /\ n.dist = NeighborDist(top, e)
      BY <1>2, <2>1, StopOfFacts, AtFacts
    <2>3. distFromA'[n.stop] = n.dist /\ n.stop \in DOMAIN distFromA'
      BY <2>1, <2>2 DEF Relaxes
    <2>4. n.dist \in Nat /\ top.dist <= n.dist
      BY <1>t, <2>1, <2>2, StopsFacts
    <2> QED
      BY <2>3, <2>4, NotRelaxed
  <1> QED
    BY <1>1, <1>2 DEF Relaxes

\* An iteration justifies the distances it sets, and the others stay justified.
LEMMA RelaxJustified ==
  ASSUME SearchLoop, NEW top \in nodesToVisit, Relaxes(top)
  PROVE  DistancesJustified'
  <1>t. SearchTypeOK
    BY DEF SearchLoop
  <1>1. stopA.stop \in DOMAIN distFromA' /\ distFromA'[stopA.stop] = stopA.dist
    BY NotRelaxed DEF Relaxes, SearchLoop, DistancesJustified
  <1>2. ASSUME NEW s \in Stops(top)
        PROVE  /\ s \in DOMAIN previousStop'
               /\ previousStop'[s] \in DOMAIN distFromA'
               /\ s = StopOf(s.edge) /\ s.edge \in edges /\ s \notin excludedStops
               /\ previousStop'[s].node = s.edge.from /\ s.edge.from # stationB
               /\ distFromA'[s] >= distFromA'[previousStop'[s]]
                                     + StepCost(previousStop'[s], s.edge)
    <2>1. /\ previousStop'[s] = top.stop /\ s \in DOMAIN previousStop'
          /\ distFromA'[s] = NeighborDist(top, s.edge)
      BY DEF Relaxes
    <2>2. /\ top.stop \in DOMAIN distFromA' /\ distFromA'[top.stop] <= top.dist
          /\ distFromA'[top.stop] \in Nat /\ top.dist \in Nat
      BY <1>t, NotRelaxed, RelaxShrinks
    <2>3. StepCost(top.stop, s.edge) \in Nat
      BY <1>t, StopsFacts, StepCostNat
    <2>4. distFromA'[s] >= distFromA'[top.stop] + StepCost(top.stop, s.edge)
      BY <2>1, <2>2, <2>3 DEF NeighborDist
    <2> QED
      BY <1>t, <2>1, <2>2, <2>4, StopsFacts
  <1>3. ASSUME NEW s \in DOMAIN distFromA \ {stopA.stop}, s \notin Stops(top)
        PROVE  /\ s \in DOMAIN previousStop'
               /\ previousStop'[s] \in DOMAIN distFromA'
               /\ s = StopOf(s.edge) /\ s.edge \in edges /\ s \notin excludedStops
               /\ previousStop'[s].node = s.edge.from /\ s.edge.from # stationB
               /\ distFromA'[s] >= distFromA'[previousStop'[s]]
                                     + StepCost(previousStop'[s], s.edge)
    <2> DEFINE p == previousStop[s]
    <2>1. /\ s \in DOMAIN previousStop /\ p \in DOMAIN distFromA
          /\ s = StopOf(s.edge) /\ s.edge \in edges /\ s \notin excludedStops
          /\ p.node = s.edge.from /\ s.edge.from # stationB
          /\ distFromA[s] >= distFromA[p] + StepCost(p, s.edge)
      BY DEF SearchLoop, DistancesJustified
    <2>2. previousStop'[s] = p /\ distFromA'[s] = distFromA[s] /\ s \in DOMAIN previousStop'
      BY <1>3, <2>1 DEF Relaxes
    <2>3. /\ p \in DOMAIN distFromA' /\ distFromA'[p] <= distFromA[p]
          /\ distFromA'[p] \in Nat /\ distFromA[p] \in Nat /\ distFromA[s] \in Nat
      BY <1>t, <2>1, RelaxShrinks
    <2>4. StepCost(p, s.edge) \in Nat
      BY <1>t, <2>1, StepCostNat DEF SearchTypeOK
    <2>5. distFromA'[s] >= distFromA'[p] + StepCost(p, s.edge)
      BY <2>1, <2>2, <2>3, <2>4
    <2> QED
      BY <2>1, <2>2, <2>3, <2>5
  <1> QED
    BY <1>1, <1>2, <1>3 DEF Relaxes, DistancesJustified

\* An iteration relaxes the edges out of the stop it removes.
LEMMA RelaxRelaxed ==
  ASSUME SearchLoop, NEW top \in nodesToVisit, Relaxes(top)
  PROVE  VisitedStopsRelaxed'
  <1>t. SearchTypeOK
    BY DEF SearchLoop
  <1> DEFINE Done(s) == \A e \in edges :
               e.from = s.node /\ StopOf(e) \notin excludedStops =>
                 /\ StopOf(e) \in DOMAIN distFromA'
                 /\ distFromA'[StopOf(e)] <= distFromA'[s] + StepCost(s, e)
  <1> SUFFICES ASSUME NEW s \in DOMAIN distFromA'
               PROVE  \/ At(s, distFromA'[s]) \in nodesToVisit'
                      \/ s.node = stationB
                      \/ Done(s)
    BY DEF VisitedStopsRelaxed, Relaxes
  <1>1. CASE s \in Stops(top)
    <2>1. s.edge \in Improved(top) /\ s = StopOf(s.edge)
      BY <1>t, <1>1, StopsFacts
    <2>2. distFromA'[s] = NeighborDist(top, s.edge)
      BY <1>1 DEF Relaxes
    <2>3. At(StopOf(s.edge), NeighborDist(top, s.edge)) \in nodesToVisit'
      BY <2>1 DEF Relaxes
    <2> QED
      BY <2>1, <2>2, <2>3
  <1>2. CASE s \notin Stops(top)
    <2>1. s \in DOMAIN distFromA /\ distFromA'[s] = distFromA[s] /\ distFromA[s] \in Nat
      BY <1>2 DEF Relaxes, SearchLoop, SearchTypeOK
    <2>2. CASE At(s, distFromA[s]) \in nodesToVisit \ {top}
      BY <2>1, <2>2 DEF Relaxes
    <2>3. CASE At(s, distFromA[s]) = top /\ s.node # stationB
      <3>1. top.stop = s /\ top.dist = distFromA[s]
        BY <2>3, AtFacts
      <3>2. ASSUME NEW e \in edges, e.from = s.node, StopOf(e) \notin excludedStops
            PROVE  /\ StopOf(e) \in DOMAIN distFromA'
                   /\ distFromA'[StopOf(e)] <= distFromA'[s] + StepCost(s, e)
        <4>1. e \in Edge /\ NeighborDist(top, e) = distFromA[s] + StepCost(s, e)
                /\ NeighborDist(top, e) \in Nat
          BY <1>t, <3>1, NeighborDistNat DEF NeighborDist, SearchTypeOK
        <4>2. CASE e \in Improved(top)
          <5>1. StopOf(e) \in Stops(top) /\ StopOf(e).edge = e
            BY <4>1, <4>2, StopOfFacts DEF Stops
          <5>2. StopOf(e) \in DOMAIN distFromA' /\ distFromA'[StopOf(e)] = NeighborDist(top, e)
            BY <5>1 DEF Relaxes
          <5> QED
            BY <2>1, <4>1, <5>2
        <4>3. CASE e \notin Improved(top)
          <5>1. StopOf(e) \in DOMAIN distFromA /\ ~(NeighborDist(top, e) < distFromA[StopOf(e)])
            BY <2>3, <3>1, <3>2, <4>3 DEF Improved
          <5>2. /\ StopOf(e) \in DOMAIN distFromA'
                /\ distFromA[StopOf(e)] \in Nat /\ distFromA'[StopOf(e)] \in Nat
                /\ distFromA'[StopOf(e)] <= distFromA[StopOf(e)]
            BY <1>t, <5>1, RelaxShrinks
          <5> QED
            BY <2>1, <4>1, <5>1, <5>2
        <4> QED
          BY <4>2, <4>3
      <3> QED
        BY <3>2
    <2>4. ASSUME \A e \in edges :
                   e.from = s.node /\ StopOf(e) \notin excludedStops =>
                     /\ StopOf(e) \in DOMAIN distFromA
                     /\ distFromA[StopOf(e)] <= distFromA[s] + StepCost(s, e)
          PROVE  Done(s)
      <3> SUFFICES ASSUME NEW e \in edges, e.from = s.node, StopOf(e) \notin excludedStops
                   PROVE  /\ StopOf(e) \in DOMAIN distFromA'
                          /\ distFromA'[StopOf(e)] <= distFromA'[s] + StepCost(s, e)
        OBVIOUS
      <3>1. StopOf(e) \in DOMAIN distFromA
              /\ distFromA[StopOf(e)] <= distFromA[s] + StepCost(s, e)
        BY <2>4
      <3>2. /\ StopOf(e) \in DOMAIN distFromA'
            /\ distFromA[StopOf(e)] \in Nat /\ distFromA'[StopOf(e)] \in Nat
            /\ distFromA'[StopOf(e)] <= distFromA[StopOf(e)]
        BY <1>t, <3>1, RelaxShrinks
      <3>3. StepCost(s, e) \in Nat
        BY <1>t, StepCostNat DEF SearchTypeOK
      <3> QED
        BY <2>1, <3>1, <3>2, <3>3
    <2> QED
      BY <2>1, <2>2, <2>3, <2>4 DEF SearchLoop, VisitedStopsRelaxed
  <1> QED
    BY <1>1, <1>2

\* Every iteration keeps the loop invariant.
LEMMA VisitKeepsLoop ==
  ASSUME SearchLoop, Visit
  PROVE  SearchLoop'
  <1>1. PICK top \in nodesToVisit : Relaxes(top)
    BY VisitRelaxes DEF SearchLoop
  <1> QED
    BY <1>1, RelaxTypeOK, RelaxQueue, RelaxJustified, RelaxRelaxed DEF SearchLoop

\* The loop invariant of the search, on every network and for every call.
THEOREM SearchLoopHolds == SearchSpec => []SearchLoop
  <1>1. SearchInit => SearchLoop
    BY SearchStarts, NetworksAssumption DEF SearchInit
  <1>2. SearchLoop /\ [Visit]_<<edges, searchVars>> => SearchLoop'
    <2>1. CASE UNCHANGED <<edges, searchVars>>
      BY <2>1 DEF searchVars, SearchLoop, SearchTypeOK, QueueJustified, DistancesJustified,
                  VisitedStopsRelaxed
    <2> QED
      BY <2>1, VisitKeepsLoop
  <1> QED
    BY <1>1, <1>2, PTL DEF SearchSpec

-----------------------------------------------------------------------------
(* The distances are those of the fastest ways *)

\* A walk may go on along an edge, unless it is at station B.
LEMMA WalkGoesOn ==
  ASSUME NEW path \in Seq(PathStopDist), IsWalk(path), NEW e \in edges, edges \subseteq Edge,
         e.from = path[Len(path)].stop.node, e.from # stationB, StopOf(e) \notin excludedStops
  PROVE  LET last == path[Len(path)]
             next == At(StopOf(e), last.dist + StepCost(last.stop, e))
         IN  /\ Append(path, next) \in Seq(PathStopDist)
             /\ IsWalk(Append(path, next))
             /\ Append(path, next)[Len(Append(path, next))] = next
  <1> DEFINE n == Len(path)
             last == path[n]
             next == At(StopOf(e), last.dist + StepCost(last.stop, e))
             q == Append(path, next)
  <1>1. n \in Nat /\ n >= 1 /\ last \in PathStopDist
    BY DEF IsWalk
  <1>2. next \in PathStopDist /\ next.stop = StopOf(e) /\ next.stop.edge = e
    <2>1. e \in Edge /\ last.dist \in Nat
      BY <1>1 DEF PathStopDist
    <2>2. last.dist + StepCost(last.stop, e) \in Nat
      BY <2>1, StepCostNat
    <2> QED
      BY <2>1, <2>2, StopOfFacts, AtFacts
  <1>3. /\ q \in Seq(PathStopDist) /\ Len(q) = n + 1
        /\ \A i \in 1 .. n : q[i] = path[i]
        /\ q[n + 1] = next
    BY <1>1, <1>2
  <1> HIDE DEF n, q, next
  <1>4. IsPathFrom(stopA, q)
    <2>1. q[1] = stopA
      BY <1>1, <1>3 DEF IsWalk, IsPathFrom
    <2>2. ASSUME NEW i \in 1 .. n
          PROVE  LET d == q[i + 1].stop.edge
                 IN  /\ d \in edges /\ d.from = q[i].stop.node
                     /\ q[i + 1] = At(StopOf(d), q[i].dist + StepCost(q[i].stop, d))
      <3>1. CASE i = n
        <4>1. q[i] = last /\ q[i + 1] = next
          BY <1>1, <1>3, <3>1 DEF n
        <4>2. next = At(StopOf(e), last.dist + StepCost(last.stop, e))
          BY DEF next
        <4>3. e.from = last.stop.node
          BY DEF n
        <4> QED
          BY <1>2, <4>1, <4>2, <4>3
      <3>2. CASE i # n
        <4>1. i \in 1 .. Len(path) - 1 /\ i \in 1 .. n /\ i + 1 \in 1 .. n
          BY <1>1, <3>2 DEF n
        <4>2. q[i] = path[i] /\ q[i + 1] = path[i + 1]
          BY <1>3, <4>1
        <4> QED
          BY <4>1, <4>2 DEF IsWalk, IsPathFrom
      <3> QED
        BY <3>1, <3>2
    <2> QED
      BY <1>1, <1>3, <2>1, <2>2 DEF IsPathFrom
  <1>5. \A i \in 2 .. Len(q) : q[i].stop \notin excludedStops
    <2>1. \A i \in 2 .. n : q[i].stop \notin excludedStops
      BY <1>1, <1>3 DEF IsWalk, n
    <2> QED
      BY <1>1, <1>2, <1>3, <2>1
  <1>6. \A i \in 1 .. Len(q) - 1 : q[i].stop.node # stationB
    <2>1. \A i \in 1 .. n - 1 : q[i].stop.node # stationB
      BY <1>1, <1>3 DEF IsWalk, n
    <2>2. q[n].stop.node # stationB
      BY <1>1, <1>3 DEF n
    <2> QED
      BY <1>1, <1>3, <2>1, <2>2
  <1>7. q # <<>>
    BY <1>1, <1>3
  <1>8. IsWalk(q)
    BY <1>4, <1>5, <1>6, <1>7 DEF IsWalk
  <1> QED
    BY <1>3, <1>8 DEF q, next, n

\* A queued stop was reached by a walk of the length it is queued with.
Reached(at) == \E path \in Seq(PathStopDist) : IsWalk(path) /\ path[Len(path)] = at
AllReached ==
  /\ \A n \in nodesToVisit : Reached(n)
  /\ \A s \in DOMAIN distFromA : Reached(At(s, distFromA[s]))

\* At the start both are the start itself.
LEMMA StartReached ==
  ASSUME stopA \in PathStopDist, distFromA = [s \in {stopA.stop} |-> stopA.dist],
         nodesToVisit = {stopA}
  PROVE  AllReached
  <1> DEFINE path == <<stopA>>
  <1>1. path \in Seq(PathStopDist) /\ Len(path) = 1 /\ path[1] = stopA /\ path # <<>>
    OBVIOUS
  <1>2. IsWalk(path)
    BY <1>1 DEF IsWalk, IsPathFrom
  <1>3. Reached(stopA)
    BY <1>1, <1>2 DEF Reached
  <1>4. stopA = At(stopA.stop, stopA.dist)
    BY DEF PathStopDist, At
  <1> QED
    BY <1>3, <1>4 DEF AllReached

\* An iteration goes on along a walk that reached the visited stop.
LEMMA RelaxReached ==
  ASSUME SearchLoop, AllReached, NEW top \in nodesToVisit, Relaxes(top)
  PROVE  AllReached'
  <1>t. SearchTypeOK
    BY DEF SearchLoop
  <1>1. \A at : Reached(at)' <=> Reached(at)
    BY DEF Relaxes, Reached, IsWalk, IsPathFrom
  <1>2. ASSUME NEW e \in Improved(top)
        PROVE  Reached(At(StopOf(e), NeighborDist(top, e)))
    <2>1. PICK path \in Seq(PathStopDist) : IsWalk(path) /\ path[Len(path)] = top
      BY DEF AllReached, Reached
    <2>2. /\ e \in edges /\ e.from = top.stop.node /\ e.from # stationB
          /\ StopOf(e) \notin excludedStops
      BY DEF Improved
    <2>3. edges \subseteq Edge
      BY <1>t DEF SearchTypeOK
    <2> DEFINE q == Append(path, At(StopOf(e), top.dist + StepCost(top.stop, e)))
    <2>4. /\ q \in Seq(PathStopDist) /\ IsWalk(q)
          /\ q[Len(q)] = At(StopOf(e), top.dist + StepCost(top.stop, e))
      BY <2>1, <2>2, <2>3, WalkGoesOn
    <2> QED
      BY <2>4 DEF Reached, NeighborDist
  <1>3. \A n \in nodesToVisit' : Reached(n)
    BY <1>2 DEF AllReached, Relaxes
  <1>4. ASSUME NEW s \in DOMAIN distFromA'
        PROVE  Reached(At(s, distFromA'[s]))
    <2>1. CASE s \in Stops(top)
      BY <1>t, <1>2, <2>1, StopsFacts DEF Relaxes
    <2>2. CASE s \notin Stops(top)
      BY <2>2 DEF Relaxes, AllReached
    <2> QED
      BY <2>1, <2>2
  <1> QED
    BY <1>1, <1>3, <1>4 DEF AllReached

\* A search that is over has met every stop of every walk, at no larger distance: the
\* first stop of which that were false would not have been relaxed.
LEMMA SearchMissesNothing ==
  ASSUME SearchLoop, SearchDone, NEW path \in Seq(PathStopDist), IsWalk(path),
         NEW k \in 1 .. Len(path)
  PROVE  path[k].stop \in DOMAIN distFromA /\ distFromA[path[k].stop] <= path[k].dist
  <1> DEFINE Met(i) == path[i].stop \in DOMAIN distFromA
                         /\ distFromA[path[i].stop] <= path[i].dist
             missed == {i \in 1 .. Len(path) : ~Met(i)}
  <1> SUFFICES ASSUME missed # {} PROVE FALSE
    OBVIOUS
  <1>1. missed \in SUBSET Nat
    OBVIOUS
  <1>2. PICK m \in missed : \A n \in missed : m <= n
    BY <1>1, LeastNumber
  <1>3. m # 1
    <2>1. path[1] = stopA
      BY DEF IsWalk, IsPathFrom
    <2>2. stopA.stop \in DOMAIN distFromA /\ distFromA[stopA.stop] = stopA.dist
            /\ stopA.dist \in Nat
      BY DEF SearchLoop, DistancesJustified, SearchTypeOK, PathStopDist
    <2>3. Met(1)
      BY <2>1, <2>2
    <2> QED
      BY <2>3
  <1>4. PICK j \in 1 .. Len(path) - 1 : m = j + 1
    BY <1>2, <1>3
  <1>5. j \in 1 .. Len(path) /\ ~(m <= j) /\ m \in 2 .. Len(path)
    BY <1>2, <1>4
  <1>6. Met(j)
    BY <1>2, <1>5
  <1> DEFINE s == path[j].stop
             e == path[m].stop.edge
  <1>7. /\ e \in edges /\ e.from = s.node /\ s.node # stationB
        /\ path[m] = At(StopOf(e), path[j].dist + StepCost(s, e))
    BY <1>4 DEF IsWalk, IsPathFrom
  <1>8. /\ path[m].stop = StopOf(e) /\ StopOf(e) \notin excludedStops
        /\ path[m].dist = path[j].dist + StepCost(s, e)
    BY <1>5, <1>7, AtFacts DEF IsWalk
  <1>9. StopOf(e) \in DOMAIN distFromA /\ distFromA[StopOf(e)] <= distFromA[s] + StepCost(s, e)
    BY <1>6, <1>7, <1>8 DEF SearchLoop, VisitedStopsRelaxed, SearchDone
  <1>10. /\ distFromA[s] \in Nat /\ distFromA[StopOf(e)] \in Nat /\ StepCost(s, e) \in Nat
         /\ path[j].dist \in Nat
    <2>1. path[j] \in PathStopDist
      BY <1>5
    <2> QED
      BY <1>6, <1>7, <1>9, <2>1, StepCostNat DEF SearchLoop, SearchTypeOK, PathStopDist
  <1>11. Met(m)
    <2>1. distFromA[s] <= path[j].dist
      BY <1>6
    <2>2. distFromA[StopOf(e)] <= path[j].dist + StepCost(s, e)
      BY <1>9, <1>10, <2>1
    <2> QED
      BY <1>8, <1>9, <2>2
  <1> QED
    BY <1>2, <1>11

\* Every distance the search holds is the length of a walk.
THEOREM DistancesRealisedHolds == SearchSpec => []DistancesRealised
  <1>1. SearchInit => AllReached
    BY StartReached DEF SearchInit
  <1>2. SearchLoop /\ AllReached /\ [Visit]_<<edges, searchVars>> => AllReached'
    <2> SUFFICES ASSUME SearchLoop, AllReached, [Visit]_<<edges, searchVars>>
                 PROVE  AllReached'
      OBVIOUS
    <2>1. CASE UNCHANGED <<edges, searchVars>>
      <3>1. \A path : IsWalk(path)' <=> IsWalk(path)
        BY <2>1 DEF searchVars, IsWalk, IsPathFrom
      <3>2. \A at : Reached(at)' <=> Reached(at)
        BY <3>1 DEF Reached
      <3> QED
        BY <2>1, <3>2 DEF searchVars, AllReached
    <2>2. CASE Visit
      BY <2>2, VisitRelaxes, RelaxReached DEF SearchLoop
    <2> QED
      BY <2>1, <2>2
  <1>3. AllReached => DistancesRealised
    BY DEF AllReached, Reached, DistancesRealised
  <1> QED
    BY <1>1, <1>2, <1>3, SearchLoopHolds, PTL DEF SearchSpec

\* When the search is over no walk to any stop is shorter than its distance; with the
\* theorem above, the distances are exactly those of the fastest ways.
THEOREM NoWalkShorterHolds == SearchSpec => []NoWalkShorter
  <1>1. SearchLoop => NoWalkShorter
    <2> SUFFICES ASSUME SearchLoop, SearchDone, NEW path \in Seq(PathStopDist), IsWalk(path)
                 PROVE  /\ path[Len(path)].stop \in DOMAIN distFromA
                        /\ distFromA[path[Len(path)].stop] <= path[Len(path)].dist
      BY DEF NoWalkShorter
    <2>1. Len(path) \in 1 .. Len(path)
      BY DEF IsWalk
    <2> QED
      BY <2>1, SearchMissesNothing
  <1> QED
    BY <1>1, SearchLoopHolds, PTL

-----------------------------------------------------------------------------
(* Assembling the path *)

\* At first there is only the start.
LEMMA StartRanked ==
  ASSUME DOMAIN distFromA = {stopA.stop}
  PROVE  PreviousStopsEnd
  <1> DEFINE zero == [s \in DOMAIN distFromA |-> 0]
  <1>1. zero \in [DOMAIN distFromA -> 0 .. 0] /\ 0 \in Nat
    OBVIOUS
  <1> QED
    BY <1>1 DEF PreviousStopsEnd

\* An iteration ranks the stops that were farther than the visited one, and those it
\* met, behind it: none of them is on the way back from the visited stop.
LEMMA RelaxRanked ==
  ASSUME SearchLoop, PreviousStopsEnd, NEW top \in nodesToVisit, Relaxes(top)
  PROVE  PreviousStopsEnd'
  <1>t. SearchTypeOK
    BY DEF SearchLoop
  <1>n. PICK n \in Nat : \E rank \in [DOMAIN distFromA -> 0 .. n] :
          \A s \in DOMAIN distFromA \ {stopA.stop} : rank[previousStop[s]] < rank[s]
    BY DEF PreviousStopsEnd
  <1>1. PICK rank \in [DOMAIN distFromA -> 0 .. n] :
          \A s \in DOMAIN distFromA \ {stopA.stop} : rank[previousStop[s]] < rank[s]
    BY <1>n
  <1> DEFINE k == rank[top.stop] + 1
             Farther(s) == distFromA[s] > top.dist
             rank2 == [s \in DOMAIN distFromA' |->
                         IF s \notin DOMAIN distFromA THEN k
                         ELSE IF Farther(s) THEN rank[s] + k ELSE rank[s]]
  <1>2. k \in Nat /\ rank[top.stop] \in Nat /\ k <= n + 1
    BY <1>1, NotRelaxed
  <1>3. rank2 \in [DOMAIN distFromA' -> 0 .. n + n + 1]
    <2>1. \A s \in DOMAIN distFromA : rank[s] \in Nat /\ rank[s] <= n
      OBVIOUS
    <2> HIDE DEF k
    <2> QED
      BY <1>2, <2>1
  <1>4. \A s \in DOMAIN distFromA' :
          rank2[s] = IF s \notin DOMAIN distFromA THEN k
                     ELSE IF Farther(s) THEN rank[s] + k ELSE rank[s]
    OBVIOUS
  <1> HIDE DEF rank2
  <1>5. /\ top.stop \in DOMAIN distFromA /\ top.stop \in DOMAIN distFromA'
        /\ rank2[top.stop] = rank[top.stop]
    <2>1. /\ top.stop \in DOMAIN distFromA /\ top.stop \in DOMAIN distFromA'
          /\ distFromA[top.stop] \in Nat /\ distFromA[top.stop] <= top.dist /\ top.dist \in Nat
      BY <1>t, NotRelaxed, RelaxShrinks
    <2> QED
      BY <1>4, <2>1
  <1>6. ASSUME NEW s \in Stops(top)
        PROVE  rank2[previousStop'[s]] < rank2[s]
    <2>1. previousStop'[s] = top.stop /\ s \in DOMAIN distFromA'
      BY DEF Relaxes
    <2>2. CASE s \notin DOMAIN distFromA
      BY <1>2, <1>4, <1>5, <2>1, <2>2
    <2>3. CASE s \in DOMAIN distFromA
      <3>1. Farther(s)
        <4>1. distFromA[s] \in Nat /\ top.dist \in Nat
          BY <1>t, <2>3, NotRelaxed DEF SearchTypeOK
        <4>2. /\ NeighborDist(top, s.edge) \in Nat /\ top.dist <= NeighborDist(top, s.edge)
              /\ NeighborDist(top, s.edge) < distFromA[s]
          BY <1>t, <2>3, StopsFacts
        <4> QED
          BY <4>1, <4>2
      <3>2. rank[s] \in Nat /\ rank2[s] = rank[s] + k
        BY <1>1, <1>4, <2>1, <2>3, <3>1
      <3> QED
        BY <1>2, <1>5, <2>1, <3>2
    <2> QED
      BY <2>2, <2>3
  <1>7. ASSUME NEW s \in DOMAIN distFromA \ {stopA.stop}, s \notin Stops(top)
        PROVE  rank2[previousStop'[s]] < rank2[s]
    <2> DEFINE p == previousStop[s]
    <2>1. /\ s \in DOMAIN previousStop /\ p \in DOMAIN distFromA
          /\ s.edge \in edges /\ distFromA[s] >= distFromA[p] + StepCost(p, s.edge)
      BY DEF SearchLoop, DistancesJustified
    <2>2. previousStop'[s] = p /\ s \in DOMAIN distFromA' /\ p \in DOMAIN distFromA'
      BY <1>7, <2>1 DEF Relaxes
    <2>3. distFromA[p] <= distFromA[s] /\ distFromA[p] \in Nat /\ distFromA[s] \in Nat
      <3>1. StepCost(p, s.edge) \in Nat /\ distFromA[p] \in Nat /\ distFromA[s] \in Nat
        BY <1>t, <2>1, StepCostNat DEF SearchTypeOK
      <3> QED
        BY <2>1, <3>1
    <2>4. Farther(p) => Farther(s)
      BY <2>3, NotRelaxed
    <2>5. rank[p] < rank[s] /\ rank[p] \in Nat /\ rank[s] \in Nat
      BY <1>1, <2>1
    <2> QED
      BY <1>2, <1>4, <2>1, <2>2, <2>4, <2>5
  <1>8. \A s \in DOMAIN distFromA' \ {stopA.stop} : rank2[previousStop'[s]] < rank2[s]
    BY <1>6, <1>7 DEF Relaxes
  <1>9. n + n + 1 \in Nat
    OBVIOUS
  <1> QED
    BY <1>3, <1>8, <1>9 DEF PreviousStopsEnd, Relaxes

\* The loop that assembles the path ends: following previousStop never leads in a
\* circle, not even along edges that cost nothing.
THEOREM PreviousStopsEndHolds == SearchSpec => []PreviousStopsEnd
  <1>1. SearchInit => PreviousStopsEnd
    BY StartRanked DEF SearchInit
  <1>2. SearchLoop /\ PreviousStopsEnd /\ [Visit]_<<edges, searchVars>> => PreviousStopsEnd'
    <2> SUFFICES ASSUME SearchLoop, PreviousStopsEnd, [Visit]_<<edges, searchVars>>
                 PROVE  PreviousStopsEnd'
      OBVIOUS
    <2>1. CASE UNCHANGED <<edges, searchVars>>
      BY <2>1 DEF searchVars, PreviousStopsEnd
    <2>2. CASE Visit
      BY <2>2, VisitRelaxes, RelaxRanked DEF SearchLoop
    <2> QED
      BY <2>1, <2>2
  <1> QED
    BY <1>1, <1>2, SearchLoopHolds, PTL DEF SearchSpec

\* A route other than that of the start costs the change to it at least once.
ChangePaid ==
  \A s \in DOMAIN distFromA \ {stopA.stop} :
    distFromA[s] >= stopA.dist + Penalty(stopA.stop, s.edge)
\* The start is visited first, and never again.
StartFirst == stopA \in nodesToVisit => nodesToVisit = {stopA}
\* Whoever was reached from the station of the start was reached from the start itself.
LeavesFromStart ==
  \A s \in DOMAIN distFromA \ {stopA.stop} :
    previousStop[s].node = stopA.stop.node => previousStop[s] = stopA.stop
StartLeft == ChangePaid /\ StartFirst /\ LeavesFromStart

\* Going round to the start's station and leaving it again saves no change.
LEMMA NoShortcut ==
  ASSUME SearchLoop, ChangePaid, NEW top \in nodesToVisit, NEW e \in Edge
  PROVE  stopA.dist + StepCost(stopA.stop, e) <= NeighborDist(top, e)
  <1>1. /\ top.stop \in DOMAIN distFromA /\ distFromA[top.stop] <= top.dist
        /\ top.dist \in Nat /\ stopA.dist \in Nat /\ stopA.dist <= top.dist
        /\ distFromA[top.stop] \in Nat
    BY NotRelaxed DEF SearchLoop, SearchTypeOK
  <1>2. e.travelTime \in Nat
    BY DEF Edge
  <1>3. \A s : Penalty(s, e) \in {0, 5}
    BY DEF Penalty, RouteChangePenalty
  <1>4. CASE top.stop = stopA.stop
    BY <1>1, <1>2, <1>3, <1>4 DEF NeighborDist, StepCost
  <1>5. CASE top.stop # stopA.stop
    <2>1. distFromA[top.stop] >= stopA.dist + Penalty(stopA.stop, top.stop.edge)
      BY <1>1, <1>5 DEF ChangePaid
    <2>2. top.stop.edge \in edges /\ top.stop.edge # NoEdge
      BY <1>1, <1>5 DEF SearchLoop, DistancesJustified, SearchTypeOK
    <2>3. Penalty(stopA.stop, e) <= Penalty(stopA.stop, top.stop.edge) + Penalty(top.stop, e)
      BY <2>2 DEF Penalty, RouteChangePenalty
    <2>4. Penalty(stopA.stop, top.stop.edge) \in {0, 5}
      BY DEF Penalty, RouteChangePenalty
    <2> QED
      BY <1>1, <1>2, <1>3, <2>1, <2>3, <2>4 DEF NeighborDist, StepCost
  <1> QED
    BY <1>4, <1>5

\* Every iteration keeps the three.
LEMMA RelaxStartLeft ==
  ASSUME SearchLoop, StartLeft, NEW top \in nodesToVisit, Relaxes(top)
  PROVE  StartLeft'
  <1>t. SearchTypeOK /\ stopA' = stopA
    BY DEF SearchLoop, Relaxes
  <1>1. ChangePaid'
    <2> SUFFICES ASSUME NEW s \in DOMAIN distFromA' \ {stopA.stop}
                 PROVE  distFromA'[s] >= stopA.dist + Penalty(stopA.stop, s.edge)
      BY <1>t DEF ChangePaid
    <2>1. CASE s \in Stops(top)
      <3>1. s.edge \in Edge /\ distFromA'[s] = NeighborDist(top, s.edge)
              /\ NeighborDist(top, s.edge) \in Nat
        BY <1>t, <2>1, StopsFacts DEF Relaxes
      <3>2. stopA.dist + StepCost(stopA.stop, s.edge) <= NeighborDist(top, s.edge)
        BY <3>1, NoShortcut DEF StartLeft
      <3>3. s.edge.travelTime \in Nat /\ stopA.dist \in Nat
              /\ Penalty(stopA.stop, s.edge) \in Nat
        BY <1>t, <3>1 DEF Edge, SearchTypeOK, PathStopDist, Penalty, RouteChangePenalty
      <3> QED
        BY <3>1, <3>2, <3>3 DEF StepCost
    <2>2. CASE s \notin Stops(top)
      BY <2>2 DEF Relaxes, StartLeft, ChangePaid
    <2> QED
      BY <2>1, <2>2
  <1>2. stopA \notin nodesToVisit'
    <2>1. ASSUME NEW e \in Improved(top), stopA = At(StopOf(e), NeighborDist(top, e))
          PROVE  FALSE
      <3>1. stopA.stop = StopOf(e)
        BY <2>1, AtFacts
      <3> QED
        BY <3>1, NotRelaxed DEF Stops
    <2>2. stopA \notin nodesToVisit \ {top}
      BY DEF StartLeft, StartFirst
    <2> QED
      BY <2>1, <2>2 DEF Relaxes
  <1>3. LeavesFromStart'
    <2> SUFFICES ASSUME NEW s \in DOMAIN distFromA' \ {stopA.stop},
                        previousStop'[s].node = stopA.stop.node
                 PROVE  previousStop'[s] = stopA.stop
      BY <1>t DEF LeavesFromStart
    <2>1. CASE s \in Stops(top)
      <3> SUFFICES ASSUME top.stop # stopA.stop PROVE FALSE
        BY <2>1 DEF Relaxes
      <3>1. top.stop.node = stopA.stop.node /\ stopA # top
        BY <2>1 DEF Relaxes
      <3>2. /\ s.edge \in Edge /\ s = StopOf(s.edge) /\ s.edge \in edges
            /\ s.edge.from = stopA.stop.node /\ stopA.stop.node # stationB
            /\ s \notin excludedStops /\ NeighborDist(top, s.edge) \in Nat
            /\ s \notin DOMAIN distFromA \/ NeighborDist(top, s.edge) < distFromA[s]
        BY <1>t, <2>1, <3>1, StopsFacts
      <3>3. stopA \notin nodesToVisit
        BY <3>1 DEF StartLeft, StartFirst
      <3>4. /\ stopA.stop \in DOMAIN distFromA /\ distFromA[stopA.stop] = stopA.dist
            /\ At(stopA.stop, stopA.dist) = stopA
        BY <1>t DEF SearchLoop, DistancesJustified, SearchTypeOK, PathStopDist, At
      <3>5. s \in DOMAIN distFromA /\ distFromA[s] <= stopA.dist + StepCost(stopA.stop, s.edge)
        BY <3>2, <3>3, <3>4 DEF SearchLoop, VisitedStopsRelaxed
      <3>6. stopA.dist + StepCost(stopA.stop, s.edge) <= NeighborDist(top, s.edge)
        BY <3>2, NoShortcut DEF StartLeft
      <3>7. /\ stopA.dist + StepCost(stopA.stop, s.edge) \in Nat /\ distFromA[s] \in Nat
        BY <1>t, <3>2, <3>5, StepCostNat DEF SearchTypeOK, PathStopDist
      <3> QED
        BY <3>2, <3>5, <3>6, <3>7
    <2>2. CASE s \notin Stops(top)
      BY <2>2 DEF Relaxes, StartLeft, LeavesFromStart, SearchLoop, DistancesJustified
    <2> QED
      BY <2>1, <2>2
  <1> QED
    BY <1>1, <1>2, <1>3, <1>t DEF StartLeft, StartFirst

\* At first there is no other stop to speak of.
LEMMA StartNotLeft ==
  ASSUME DOMAIN distFromA = {stopA.stop}, nodesToVisit = {stopA}
  PROVE  StartLeft
  BY DEF StartLeft, ChangePaid, StartFirst, LeavesFromStart

\* They hold throughout the search.
LEMMA StartLeftHolds == SearchSpec => []StartLeft
  <1>1. SearchInit => StartLeft
    BY StartNotLeft DEF SearchInit
  <1>2. SearchLoop /\ StartLeft /\ [Visit]_<<edges, searchVars>> => StartLeft'
    <2> SUFFICES ASSUME SearchLoop, StartLeft, [Visit]_<<edges, searchVars>>
                 PROVE  StartLeft'
      OBVIOUS
    <2>1. CASE UNCHANGED <<edges, searchVars>>
      BY <2>1 DEF searchVars, StartLeft, ChangePaid, StartFirst, LeavesFromStart
    <2>2. CASE Visit
      BY <2>2, VisitRelaxes, RelaxStartLeft DEF SearchLoop
    <2> QED
      BY <2>1, <2>2
  <1> QED
    BY <1>1, <1>2, SearchLoopHolds, PTL DEF SearchSpec

\* One unfolding of the function that PathTo applies.
Back(g) ==
  [s \in DOMAIN distFromA |->
     IF s.node = stopA.stop.node THEN <<At(s, distFromA[s])>>
     ELSE Append(g[previousStop[s]], At(s, distFromA[s]))]

\* That function exists: the ranks of PreviousStopsEnd say in which order to fill it.
LEMMA BackExists ==
  ASSUME SearchLoop, PreviousStopsEnd
  PROVE  \E g : g = Back(g)
  <1> DEFINE D == DOMAIN distFromA
             Fn == [D -> Seq(PathStopDist)]
  <1>n. PICK n \in Nat : \E rank \in [D -> 0 .. n] :
          \A s \in D \ {stopA.stop} : rank[previousStop[s]] < rank[s]
    BY DEF PreviousStopsEnd
  <1>1. PICK rank \in [D -> 0 .. n] :
          \A s \in D \ {stopA.stop} : rank[previousStop[s]] < rank[s]
    BY <1>n
  <1>2. \A s \in D : rank[s] \in Nat /\ rank[s] <= n
    BY <1>1
  <1>3. ASSUME NEW s \in D, s.node # stopA.stop.node
        PROVE  previousStop[s] \in D /\ rank[previousStop[s]] < rank[s]
    <2>1. s \in D \ {stopA.stop}
      BY <1>3
    <2> QED
      BY <1>1, <2>1 DEF SearchLoop, DistancesJustified
  <1>4. \A s \in D : At(s, distFromA[s]) \in PathStopDist
    BY AtFacts DEF SearchLoop, SearchTypeOK
  <1>5. ASSUME NEW g \in Fn, NEW s \in D
        PROVE  Back(g)[s] \in Seq(PathStopDist)
    BY <1>3, <1>4 DEF Back
  <1> DEFINE Filled(m, g) == \A s \in D : rank[s] < m => g[s] = Back(g)[s]
             stuck == {m \in 0 .. n + 1 : ~\E g \in Fn : Filled(m, g)}
  <1>6. ASSUME stuck # {} PROVE FALSE
    <2>1. stuck \in SUBSET Nat
      OBVIOUS
    <2>2. PICK m \in stuck : \A k \in stuck : m <= k
      BY <1>6, <2>1, LeastNumber
    <2>3. m # 0
      <3> DEFINE empty == [s \in D |-> <<>>]
      <3>1. empty \in Fn
        OBVIOUS
      <3>2. Filled(0, empty)
        BY <1>2
      <3> HIDE DEF empty, Filled
      <3> QED
        BY <2>2, <3>1, <3>2
    <2>4. PICK j \in 0 .. n : m = j + 1
      BY <2>2, <2>3
    <2>5. j \in 0 .. n + 1 /\ j \notin stuck
      <3> HIDE DEF stuck
      <3>1. ~(m <= j) /\ j \in 0 .. n + 1
        BY <2>4
      <3> QED
        BY <2>2, <3>1
    <2>6. PICK g \in Fn : Filled(j, g)
      BY <2>5
    <2> DEFINE g2 == [s \in D |-> IF rank[s] = j THEN Back(g)[s] ELSE g[s]]
    <2>7. g2 \in Fn
      BY <1>5
    <2>8. \A s \in D : g2[s] = IF rank[s] = j THEN Back(g)[s] ELSE g[s]
      OBVIOUS
    <2> HIDE DEF g2
    <2>9. ASSUME NEW s \in D, rank[s] < m
          PROVE  g2[s] = Back(g2)[s]
      <3>1. rank[s] = j \/ rank[s] < j
        BY <1>2, <2>4, <2>9
      <3>2. g2[s] = Back(g)[s]
        BY <2>6, <2>8, <3>1
      <3>3. CASE s.node = stopA.stop.node
        BY <3>2, <3>3 DEF Back
      <3>4. CASE s.node # stopA.stop.node
        <4>1. previousStop[s] \in D /\ rank[previousStop[s]] < rank[s]
          BY <1>3, <3>4
        <4>2. rank[previousStop[s]] # j
          BY <1>2, <3>1, <4>1
        <4>3. g2[previousStop[s]] = g[previousStop[s]]
          BY <2>8, <4>1, <4>2
        <4> QED
          BY <3>2, <4>3 DEF Back
      <3> QED
        BY <3>3, <3>4
    <2>10. Filled(m, g2)
      BY <2>9
    <2> HIDE DEF Filled
    <2> QED
      BY <2>2, <2>7, <2>10
  <1>7. n + 1 \in 0 .. n + 1 /\ n + 1 \notin stuck
    <2> HIDE DEF stuck
    <2> QED
      BY <1>6
  <1>8. PICK g \in Fn : Filled(n + 1, g)
    BY <1>7
  <1>9. \A s \in D : g[s] = Back(g)[s]
    BY <1>2, <1>8
  <1>10. g = Back(g)
    <2>1. g = [s \in D |-> g[s]]
      OBVIOUS
    <2>2. Back(g) = [s \in D |-> Back(g)[s]]
      BY DEF Back
    <2> QED
      BY <1>9, <2>1, <2>2
  <1> QED
    BY <1>10

\* The path to a stop is the path to the one before it, and the stop.
LEMMA PathToUnfolds ==
  ASSUME SearchLoop, PreviousStopsEnd, NEW s \in DOMAIN distFromA
  PROVE  PathTo(s) = IF s.node = stopA.stop.node THEN <<At(s, distFromA[s])>>
                     ELSE Append(PathTo(previousStop[s]), At(s, distFromA[s]))
  <1> DEFINE back == CHOOSE g : g = Back(g)
  <1>1. back = Back(back)
    BY BackExists
  <1>2. \A t : PathTo(t) = back[t]
    BY DEF PathTo, Back
  <1> HIDE DEF back
  <1>3. back[s] = Back(back)[s]
    BY <1>1
  <1> QED
    BY <1>2, <1>3 DEF Back

\* Stops whose way back ends at the start, not at a later visit of its station.
FromStart == {s \in DOMAIN distFromA : s.node # stopA.stop.node \/ s = stopA.stop}

\* In a search that is over, the path to such a stop is a walk that ends with its distance.
LEMMA PathToIsWalk ==
  ASSUME SearchLoop, PreviousStopsEnd, LeavesFromStart, SearchDone, NEW t \in FromStart
  PROVE  /\ PathTo(t) \in Seq(PathStopDist) /\ IsWalk(PathTo(t))
         /\ PathTo(t)[Len(PathTo(t))] = At(t, distFromA[t])
  <1> DEFINE D == DOMAIN distFromA
             Walked(s) == /\ PathTo(s) \in Seq(PathStopDist) /\ IsWalk(PathTo(s))
                          /\ PathTo(s)[Len(PathTo(s))] = At(s, distFromA[s])
  <1>n. PICK n \in Nat : \E rank \in [D -> 0 .. n] :
          \A s \in D \ {stopA.stop} : rank[previousStop[s]] < rank[s]
    BY DEF PreviousStopsEnd
  <1>1. PICK rank \in [D -> 0 .. n] :
          \A s \in D \ {stopA.stop} : rank[previousStop[s]] < rank[s]
    BY <1>n
  <1>2. Walked(stopA.stop)
    <2>1. /\ stopA \in PathStopDist /\ stopA.stop \in D /\ distFromA[stopA.stop] = stopA.dist
          /\ At(stopA.stop, stopA.dist) = stopA
      BY DEF SearchLoop, SearchTypeOK, DistancesJustified, PathStopDist, At
    <2>2. PathTo(stopA.stop) = <<stopA>>
      BY <2>1, PathToUnfolds
    <2>3. /\ <<stopA>> \in Seq(PathStopDist) /\ Len(<<stopA>>) = 1 /\ <<stopA>>[1] = stopA
          /\ <<stopA>> # <<>>
      BY <2>1
    <2>4. IsWalk(<<stopA>>)
      BY <2>3 DEF IsWalk, IsPathFrom
    <2> QED
      BY <2>1, <2>2, <2>3, <2>4
  <1>3. ASSUME NEW s \in FromStart \ {stopA.stop}, Walked(previousStop[s])
        PROVE  Walked(s)
    <2> DEFINE p == previousStop[s]
               e == s.edge
    <2>1. /\ p \in D /\ s = StopOf(e) /\ e \in edges /\ s \notin excludedStops
          /\ p.node = e.from /\ e.from # stationB
          /\ distFromA[s] >= distFromA[p] + StepCost(p, e)
      BY DEF FromStart, SearchLoop, DistancesJustified
    <2>2. distFromA[s] <= distFromA[p] + StepCost(p, e)
      BY <2>1 DEF SearchDone, SearchLoop, VisitedStopsRelaxed
    <2>3. edges \subseteq Edge /\ distFromA[p] \in Nat /\ distFromA[s] \in Nat
      BY <2>1 DEF FromStart, SearchLoop, SearchTypeOK
    <2>4. StepCost(p, e) \in Nat
      BY <2>1, <2>3, StepCostNat
    <2>5. distFromA[s] = distFromA[p] + StepCost(p, e)
      BY <2>1, <2>2, <2>3, <2>4
    <2>6. PathTo(s) = Append(PathTo(p), At(s, distFromA[s]))
      BY PathToUnfolds DEF FromStart
    <2> DEFINE q == PathTo(p)
    <2>7. q \in Seq(PathStopDist) /\ IsWalk(q) /\ q[Len(q)] = At(p, distFromA[p])
      BY <1>3
    <2>8. q[Len(q)].stop = p /\ q[Len(q)].dist = distFromA[p]
      BY <2>7, AtFacts
    <2> HIDE DEF q
    <2>9. LET next == At(StopOf(e), q[Len(q)].dist + StepCost(q[Len(q)].stop, e))
          IN  /\ Append(q, next) \in Seq(PathStopDist)
              /\ IsWalk(Append(q, next))
              /\ Append(q, next)[Len(Append(q, next))] = next
      BY <2>1, <2>3, <2>7, <2>8, WalkGoesOn
    <2>10. At(StopOf(e), q[Len(q)].dist + StepCost(q[Len(q)].stop, e)) = At(s, distFromA[s])
      BY <2>1, <2>5, <2>8
    <2>11. PathTo(s) = Append(q, At(s, distFromA[s]))
      BY <2>6 DEF q
    <2> QED
      BY <2>9, <2>10, <2>11
  <1>4. \A s \in FromStart \ {stopA.stop} : previousStop[s] \in FromStart
    BY DEF FromStart, LeavesFromStart, SearchLoop, DistancesJustified
  <1> HIDE DEF Walked
  <1> DEFINE failed == {s \in FromStart : ~Walked(s)}
             ranks == {rank[s] : s \in failed}
  <1>5. ASSUME failed # {} PROVE FALSE
    <2>1. ranks \in SUBSET Nat /\ ranks # {}
      BY <1>1, <1>5 DEF FromStart
    <2>2. PICK m \in ranks : \A k \in ranks : m <= k
      BY <2>1, LeastNumber
    <2>3. PICK s \in failed : m = rank[s]
      BY <2>2
    <2>4. s \in FromStart \ {stopA.stop} /\ s \in D
      BY <1>2 DEF FromStart
    <2>5. previousStop[s] \in failed
      BY <1>3, <1>4, <2>4
    <2>6. rank[previousStop[s]] < rank[s] /\ rank[previousStop[s]] \in Nat /\ rank[s] \in Nat
      BY <1>1, <2>4, <2>5 DEF FromStart
    <2>7. rank[previousStop[s]] \in ranks
      BY <2>5
    <2> HIDE DEF ranks
    <2> QED
      BY <2>2, <2>3, <2>6, <2>7
  <1> QED
    BY <1>5 DEF Walked

\* The paths to station B are paths from the start: if B is the station of the start,
\* nothing beyond the start was met.
LEMMA PathsToBFromStart ==
  ASSUME SearchLoop, PreviousStopsEnd, NEW t \in PathsToB
  PROVE  t \in FromStart
  <1> DEFINE D == DOMAIN distFromA
  <1>n. PICK n \in Nat : \E rank \in [D -> 0 .. n] :
          \A s \in D \ {stopA.stop} : rank[previousStop[s]] < rank[s]
    BY DEF PreviousStopsEnd
  <1>1. PICK rank \in [D -> 0 .. n] :
          \A s \in D \ {stopA.stop} : rank[previousStop[s]] < rank[s]
    BY <1>n
  <1> DEFINE others == D \ {stopA.stop}
             ranks == {rank[s] : s \in others}
  <1>2. ASSUME stationB = stopA.stop.node, others # {} PROVE FALSE
    <2>1. ranks \in SUBSET Nat /\ ranks # {}
      BY <1>1, <1>2
    <2>2. PICK m \in ranks : \A k \in ranks : m <= k
      BY <2>1, LeastNumber
    <2>3. PICK s \in others : m = rank[s]
      BY <2>2
    <2>4. previousStop[s] \in D /\ previousStop[s].node # stationB
      BY DEF SearchLoop, DistancesJustified
    <2>5. previousStop[s] \in others
      BY <1>2, <2>4
    <2>6. rank[previousStop[s]] < rank[s] /\ rank[previousStop[s]] \in Nat /\ rank[s] \in Nat
      BY <1>1, <2>3, <2>4
    <2>7. rank[previousStop[s]] \in ranks
      BY <2>5
    <2> HIDE DEF ranks
    <2> QED
      BY <2>2, <2>3, <2>6, <2>7
  <1> QED
    BY <1>2 DEF PathsToB, FromStart

\* What a search that is over may return, from the invariants of its loop.
LEMMA LoopFindsFastest ==
  ASSUME SearchLoop, PreviousStopsEnd, StartLeft
  PROVE  ResultsAreFastest
  <1> DEFINE toB == {path \in Seq(PathStopDist) :
                       IsWalk(path) /\ path[Len(path)].stop.node = stationB}
  <1> SUFFICES ASSUME SearchDone, NEW path \in SearchResults
               PROVE  IF path = <<>> THEN toB = {}
                      ELSE path \in toB /\ \A other \in toB :
                                             path[Len(path)].dist <= other[Len(other)].dist
    BY DEF ResultsAreFastest
  <1>1. ASSUME NEW other \in toB
        PROVE  /\ other[Len(other)].stop \in PathsToB
               /\ distFromA[other[Len(other)].stop] <= other[Len(other)].dist
               /\ other[Len(other)].dist \in Nat
               /\ distFromA[other[Len(other)].stop] \in Nat
    <2>1. Len(other) \in 1 .. Len(other) /\ other[Len(other)] \in PathStopDist
      BY DEF IsWalk
    <2>2. /\ other[Len(other)].stop \in DOMAIN distFromA
          /\ distFromA[other[Len(other)].stop] <= other[Len(other)].dist
      BY <2>1, SearchMissesNothing
    <2> QED
      BY <2>1, <2>2 DEF PathsToB, PathStopDist, SearchLoop, SearchTypeOK
  <1>2. CASE PathsToB = {}
    <2>1. path = <<>>
      BY <1>2 DEF SearchResults
    <2> QED
      BY <1>1, <1>2, <2>1
  <1>3. CASE PathsToB # {}
    <2>1. PICK t \in PathsToB :
            path = PathTo(t) /\ \A u \in PathsToB : distFromA[t] <= distFromA[u]
      BY <1>3 DEF SearchResults
    <2>2. /\ path \in Seq(PathStopDist) /\ IsWalk(path)
          /\ path[Len(path)] = At(t, distFromA[t])
      BY <2>1, PathsToBFromStart, PathToIsWalk DEF StartLeft
    <2>3. path # <<>> /\ path[Len(path)].stop = t /\ path[Len(path)].dist = distFromA[t]
      BY <2>2, AtFacts DEF IsWalk
    <2>4. path \in toB
      BY <2>2, <2>3 DEF PathsToB
    <2>5. distFromA[t] \in Nat
      BY DEF PathsToB, SearchLoop, SearchTypeOK
    <2>6. ASSUME NEW other \in toB
          PROVE  path[Len(path)].dist <= other[Len(other)].dist
      <3> DEFINE u == other[Len(other)].stop
      <3>1. /\ u \in PathsToB /\ distFromA[u] <= other[Len(other)].dist
            /\ distFromA[u] \in Nat /\ other[Len(other)].dist \in Nat
        BY <1>1
      <3>2. distFromA[t] <= distFromA[u]
        BY <2>1, <3>1
      <3> HIDE DEF u
      <3> QED
        BY <2>3, <2>5, <3>1, <3>2
    <2> HIDE DEF toB
    <2> QED
      BY <2>3, <2>4, <2>6
  <1> QED
    BY <1>2, <1>3

\* Whatever path the search returns is a fastest walk to station B with the distances
\* along it, and it returns none only if no walk leads there: for every network, start
\* (warm or cold), station and set of excluded stops.
THEOREM ResultsAreFastestHolds == SearchSpec => []ResultsAreFastest
  <1>1. SearchLoop /\ PreviousStopsEnd /\ StartLeft => ResultsAreFastest
    BY LoopFindsFastest
  <1> QED
    BY <1>1, SearchLoopHolds, PreviousStopsEndHolds, StartLeftHolds, PTL

-----------------------------------------------------------------------------
(* Journeys: walks that enter no station twice *)

\* The stations of a path, and how a journey may go on, as in Journeys.
NodesOf(path) == {path[i].stop.node : i \in DOMAIN path}
NextAt(path, e) == At(StopOf(e), path[Len(path)].dist + StepCost(path[Len(path)].stop, e))
WaysOn(path, excluded) ==
  {e \in edges : /\ e.from = path[Len(path)].stop.node
                 /\ e.nextStop \notin NodesOf(path)
                 /\ StopOf(e) \notin excluded}
Extended(path, excluded) == {Append(path, NextAt(path, e)) : e \in WaysOn(path, excluded)}
\* The function of the lengths inside Journeys, given what it refers to.
Longer(g, start, excluded) ==
  [n \in 1 .. Cardinality(Stations) |->
     IF n = 1 THEN {<<start>>} ELSE UNION {Extended(path, excluded) : path \in g[n - 1]}]

\* What a journey is, said without recursion.
IsSimple(path, start, excluded) ==
  /\ IsPathFrom(start, path)
  /\ \A i \in 2 .. Len(path) : path[i].stop \notin excluded
  /\ \A i, j \in 1 .. Len(path) : i # j => path[i].stop.node # path[j].stop.node
Simple(n, start, excluded) ==
  {path \in Seq(PathStopDist) : Len(path) = n /\ IsSimple(path, start, excluded)}

\* The beginning of a journey is one.
LEMMA SimplePrefix ==
  ASSUME NEW start, NEW excluded, NEW n \in Nat, NEW path \in Simple(n, start, excluded),
         NEW m \in 1 .. n
  PROVE  /\ SubSeq(path, 1, m) \in Simple(m, start, excluded)
         /\ \A i \in 1 .. m : SubSeq(path, 1, m)[i] = path[i]
  <1> DEFINE p == SubSeq(path, 1, m)
  <1>1. path \in Seq(PathStopDist) /\ Len(path) = n /\ IsSimple(path, start, excluded)
    BY DEF Simple
  <1>2. p \in Seq(PathStopDist) /\ Len(p) = m /\ \A i \in 1 .. m : p[i] = path[i]
    BY <1>1
  <1> HIDE DEF p
  <1>3. IsPathFrom(start, p)
    <2>1. p[1] = start
      BY <1>1, <1>2 DEF IsSimple, IsPathFrom
    <2>2. ASSUME NEW i \in 1 .. Len(p) - 1
          PROVE  LET e == p[i + 1].stop.edge
                 IN  /\ e \in edges /\ e.from = p[i].stop.node
                     /\ p[i + 1] = At(StopOf(e), p[i].dist + StepCost(p[i].stop, e))
      <3>1. i \in 1 .. Len(path) - 1 /\ i \in 1 .. m /\ i + 1 \in 1 .. m
        BY <1>1, <1>2
      <3>2. p[i] = path[i] /\ p[i + 1] = path[i + 1]
        BY <1>2, <3>1
      <3> QED
        BY <1>1, <3>1, <3>2 DEF IsSimple, IsPathFrom
    <2> QED
      BY <2>1, <2>2 DEF IsPathFrom
  <1>4. \A i \in 2 .. m : i \in 1 .. m /\ i \in 2 .. n
    OBVIOUS
  <1>5. \A i \in 1 .. m : i \in 1 .. n
    OBVIOUS
  <1>6. IsSimple(p, start, excluded)
    BY <1>1, <1>2, <1>3, <1>4, <1>5 DEF IsSimple
  <1> QED
    BY <1>2, <1>6 DEF Simple, p

\* It may go on to a station that is not on it.
LEMMA SimpleGoesOn ==
  ASSUME NEW start, NEW excluded, NEW n \in Nat \ {0},
         NEW path \in Simple(n, start, excluded), edges \subseteq Edge,
         NEW e \in WaysOn(path, excluded)
  PROVE  Append(path, NextAt(path, e)) \in Simple(n + 1, start, excluded)
  <1> DEFINE next == NextAt(path, e)
             q == Append(path, next)
             last == path[n]
  <1>1. path \in Seq(PathStopDist) /\ Len(path) = n /\ IsSimple(path, start, excluded)
    BY DEF Simple
  <1>2. e \in edges /\ e \in Edge /\ e.from = last.stop.node /\ StopOf(e) \notin excluded
    BY <1>1 DEF WaysOn
  <1>3. last \in PathStopDist /\ last.dist \in Nat
    <2>1. n \in 1 .. Len(path)
      BY <1>1
    <2>2. path[n] \in PathStopDist
      BY <1>1, <2>1
    <2> QED
      BY <2>2 DEF PathStopDist
  <1>4. next = At(StopOf(e), last.dist + StepCost(last.stop, e))
    BY <1>1 DEF NextAt
  <1>5. /\ next \in PathStopDist /\ next.stop = StopOf(e) /\ next.stop.edge = e
        /\ next.stop.node = e.nextStop
    <2>1. last.dist + StepCost(last.stop, e) \in Nat
      BY <1>2, <1>3, StepCostNat
    <2> QED
      BY <1>2, <1>4, <2>1, StopOfFacts, AtFacts
  <1>6. \A i \in 1 .. n : path[i].stop.node # e.nextStop
    <2>1. DOMAIN path = 1 .. n
      BY <1>1
    <2> QED
      BY <2>1 DEF WaysOn, NodesOf
  <1> HIDE DEF next
  <1>7. /\ q \in Seq(PathStopDist) /\ Len(q) = n + 1 /\ q[n + 1] = next
        /\ \A i \in 1 .. n : q[i] = path[i]
    BY <1>1, <1>5
  <1> HIDE DEF q
  <1>8. IsPathFrom(start, q)
    <2>1. q[1] = start
      BY <1>1, <1>7 DEF IsSimple, IsPathFrom
    <2>2. ASSUME NEW i \in 1 .. n
          PROVE  LET d == q[i + 1].stop.edge
                 IN  /\ d \in edges /\ d.from = q[i].stop.node
                     /\ q[i + 1] = At(StopOf(d), q[i].dist + StepCost(q[i].stop, d))
      <3>1. CASE i = n
        <4>1. q[i] = last /\ q[i + 1] = next
          BY <1>7, <3>1
        <4> QED
          BY <1>2, <1>4, <1>5, <4>1
      <3>2. CASE i # n
        <4>1. i \in 1 .. Len(path) - 1 /\ i \in 1 .. n /\ i + 1 \in 1 .. n
          BY <1>1, <3>2
        <4>2. q[i] = path[i] /\ q[i + 1] = path[i + 1]
          BY <1>7, <4>1
        <4> QED
          BY <1>1, <4>1, <4>2 DEF IsSimple, IsPathFrom
      <3> QED
        BY <3>1, <3>2
    <2> QED
      BY <1>7, <2>1, <2>2 DEF IsPathFrom
  <1>9. \A i \in 2 .. n + 1 : q[i].stop \notin excluded
    <2>1. \A i \in 2 .. n : q[i].stop \notin excluded
      BY <1>1, <1>7 DEF IsSimple
    <2> QED
      BY <1>2, <1>5, <1>7, <2>1
  <1>10. ASSUME NEW i \in 1 .. n + 1, NEW j \in 1 .. n + 1, i # j
         PROVE  q[i].stop.node # q[j].stop.node
    <2>1. \A k \in 1 .. n : q[k].stop.node # e.nextStop
      BY <1>6, <1>7
    <2>2. q[n + 1].stop.node = e.nextStop
      BY <1>5, <1>7
    <2>3. CASE i \in 1 .. n /\ j \in 1 .. n
      BY <1>1, <1>7, <1>10, <2>3 DEF IsSimple
    <2>4. CASE i = n + 1
      BY <1>10, <2>1, <2>2, <2>4
    <2>5. CASE j = n + 1
      BY <1>10, <2>1, <2>2, <2>5
    <2> QED
      BY <2>3, <2>4, <2>5
  <1>11. IsSimple(q, start, excluded)
    BY <1>7, <1>8, <1>9, <1>10 DEF IsSimple
  <1> QED
    BY <1>5, <1>7, <1>11 DEF Simple, q, next

\* So the journeys of each length are those one shorter, each with a way on.
LEMMA SimpleLonger ==
  ASSUME NEW start, NEW excluded, NEW n \in Nat \ {0}, edges \subseteq Edge
  PROVE  Simple(n + 1, start, excluded)
           = UNION {Extended(path, excluded) : path \in Simple(n, start, excluded)}
  <1>1. ASSUME NEW q \in UNION {Extended(path, excluded) : path \in Simple(n, start, excluded)}
        PROVE  q \in Simple(n + 1, start, excluded)
    <2>1. PICK path \in Simple(n, start, excluded) : q \in Extended(path, excluded)
      BY <1>1
    <2>2. PICK e \in WaysOn(path, excluded) : q = Append(path, NextAt(path, e))
      BY <2>1 DEF Extended
    <2> QED
      BY <2>2, SimpleGoesOn
  <1>2. ASSUME NEW q \in Simple(n + 1, start, excluded)
        PROVE  q \in UNION {Extended(path, excluded) : path \in Simple(n, start, excluded)}
    <2> DEFINE p == SubSeq(q, 1, n)
               e == q[n + 1].stop.edge
    <2>1. q \in Seq(PathStopDist) /\ Len(q) = n + 1 /\ IsSimple(q, start, excluded)
      BY DEF Simple
    <2>2. p \in Simple(n, start, excluded) /\ \A i \in 1 .. n : p[i] = q[i]
      BY SimplePrefix
    <2>3. p \in Seq(PathStopDist) /\ Len(p) = n
      BY <2>2 DEF Simple
    <2>4. q = Append(p, q[n + 1])
      BY <2>1
    <2> HIDE DEF p
    <2>5. /\ e \in edges /\ e.from = p[n].stop.node
          /\ q[n + 1] = At(StopOf(e), p[n].dist + StepCost(p[n].stop, e))
      <3>1. n \in 1 .. Len(q) - 1 /\ p[n] = q[n]
        BY <2>1, <2>2
      <3> QED
        BY <2>1, <3>1 DEF IsSimple, IsPathFrom
    <2>6. q[n + 1].stop = StopOf(e) /\ q[n + 1].stop.node = e.nextStop
      BY <2>5, AtFacts, StopOfFacts
    <2>7. StopOf(e) \notin excluded
      <3>1. n + 1 \in 2 .. Len(q)
        BY <2>1
      <3> QED
        BY <2>1, <2>6, <3>1 DEF IsSimple
    <2>8. e.nextStop \notin NodesOf(p)
      <3>1. ASSUME NEW i \in 1 .. n
            PROVE  p[i].stop.node # e.nextStop
        <4>1. i \in 1 .. Len(q) /\ n + 1 \in 1 .. Len(q) /\ i # n + 1
          BY <2>1
        <4> QED
          BY <2>1, <2>2, <2>6, <4>1 DEF IsSimple
      <3>2. DOMAIN p = 1 .. n
        BY <2>3
      <3> QED
        BY <3>1, <3>2 DEF NodesOf
    <2>9. q[n + 1] = NextAt(p, e) /\ e \in WaysOn(p, excluded)
      BY <2>3, <2>5, <2>7, <2>8 DEF NextAt, WaysOn
    <2>10. q \in Extended(p, excluded)
      BY <2>4, <2>9 DEF Extended
    <2> QED
      BY <2>2, <2>10
  <1> QED
    BY <1>1, <1>2

\* The shortest is the start.
LEMMA SimpleStart ==
  ASSUME NEW start \in PathStopDist, NEW excluded
  PROVE  Simple(1, start, excluded) = {<<start>>}
  <1>1. <<start>> \in Simple(1, start, excluded)
    <2>1. <<start>> \in Seq(PathStopDist) /\ Len(<<start>>) = 1 /\ <<start>>[1] = start
      OBVIOUS
    <2>2. IsSimple(<<start>>, start, excluded)
      BY <2>1 DEF IsSimple, IsPathFrom
    <2> QED
      BY <2>1, <2>2 DEF Simple
  <1>2. ASSUME NEW path \in Simple(1, start, excluded)
        PROVE  path = <<start>>
    <2>1. path \in Seq(PathStopDist) /\ Len(path) = 1 /\ path[1] = start
      BY DEF Simple, IsSimple, IsPathFrom
    <2> QED
      BY <2>1
  <1> QED
    BY <1>1, <1>2

\* And none has more stops than there are stations.
LEMMA SimpleLength ==
  ASSUME NEW start, NEW excluded, NEW n \in Nat, NEW path \in Simple(n, start, excluded)
  PROVE  n <= Cardinality(Stations) /\ Cardinality(Stations) \in Nat
  <1> DEFINE f == [i \in 1 .. n |-> path[i].stop.node]
  <1>1. path \in Seq(PathStopDist) /\ Len(path) = n /\ IsSimple(path, start, excluded)
    BY DEF Simple
  <1>2. \A i \in 1 .. n : path[i].stop.node \in Stations
    <2>1. \A i \in 1 .. n : path[i] \in PathStopDist
      BY <1>1
    <2> QED
      BY <2>1 DEF PathStopDist, PathStop
  <1>3. f \in [1 .. n -> Stations]
    BY <1>2
  <1>4. \A i, j \in 1 .. n : f[i] = f[j] => i = j
    BY <1>1 DEF IsSimple
  <1> HIDE DEF f
  <1>5. IsFiniteSet(1 .. n) /\ Cardinality(1 .. n) = n
    <2>1. n \in Int /\ 1 \in Int
      OBVIOUS
    <2>2. /\ IsFiniteSet(1 .. n)
          /\ Cardinality(1 .. n) = IF 1 > n THEN 0 ELSE n - 1 + 1
      BY <2>1, FS_Interval, Zenon
    <2> QED
      BY <2>2
  <1>6. Cardinality(Stations) \in Nat
    BY StationsAssumption, FS_CardinalityType
  <1>7. ~(Cardinality(Stations) < Cardinality(1 .. n))
    BY <1>3, <1>4, <1>5, StationsAssumption, FS_PigeonHole
  <1> QED
    BY <1>5, <1>6, <1>7

\* So Journeys are the walks that enter no station twice.
LEMMA JourneysAreSimple ==
  ASSUME NEW start \in PathStopDist, NEW station, NEW excluded, edges \subseteq Edge
  PROVE  Journeys(start, station, excluded)
           = {path \in UNION {Simple(n, start, excluded) : n \in Nat \ {0}} :
                path[Len(path)].stop.node = station}
  <1> DEFINE N == Cardinality(Stations)
             of == CHOOSE g : g = Longer(g, start, excluded)
             all == [n \in 1 .. N |-> Simple(n, start, excluded)]
  <1>0. N \in Nat
    BY StationsAssumption, FS_CardinalityType
  <1>1. \A n \in 1 .. N : n # 1 => n - 1 \in 1 .. N /\ n - 1 \in Nat \ {0} /\ n = (n - 1) + 1
    BY <1>0
  <1> HIDE DEF N
  <1>2. \A n \in 1 .. N : n # 1 =>
          Simple(n, start, excluded)
            = UNION {Extended(path, excluded) : path \in Simple(n - 1, start, excluded)}
    BY <1>1, SimpleLonger
  <1>3. all = Longer(all, start, excluded)
    <2>1. \A n \in 1 .. N : n # 1 => all[n - 1] = Simple(n - 1, start, excluded)
      BY <1>1
    <2>2. Longer(all, start, excluded)
            = [n \in 1 .. N |-> IF n = 1 THEN {<<start>>}
                               ELSE UNION {Extended(path, excluded) : path \in all[n - 1]}]
      BY DEF Longer, N
    <2> HIDE DEF all
    <2>3. \A n \in 1 .. N : Longer(all, start, excluded)[n] = Simple(n, start, excluded)
      BY <1>2, <2>1, <2>2, SimpleStart
    <2>4. Longer(all, start, excluded) = [n \in 1 .. N |-> Longer(all, start, excluded)[n]]
      BY <2>2
    <2> QED
      BY <2>3, <2>4 DEF all
  <1>4. of = Longer(of, start, excluded)
    <2> HIDE DEF all
    <2> QED
      BY <1>3
  <1> HIDE DEF of
  <1>5. DOMAIN of = 1 .. N
    BY <1>4 DEF Longer, N
  <1>6. \A n \in 1 .. N : of[n] = IF n = 1 THEN {<<start>>}
                                  ELSE UNION {Extended(path, excluded) : path \in of[n - 1]}
    BY <1>4 DEF Longer, N
  <1> DEFINE wrong == {n \in 1 .. N : of[n] # Simple(n, start, excluded)}
  <1>7. ASSUME wrong # {} PROVE FALSE
    <2>1. wrong \in SUBSET Nat
      OBVIOUS
    <2>2. PICK m \in wrong : \A k \in wrong : m <= k
      BY <1>7, <2>1, LeastNumber
    <2>3. m \in 1 .. N /\ of[m] # Simple(m, start, excluded)
      OBVIOUS
    <2>4. m # 1
      BY <1>6, <2>3, SimpleStart
    <2>5. m - 1 \notin wrong
      <3> HIDE DEF wrong
      <3> QED
        BY <2>2, <2>3
    <2>6. of[m - 1] = Simple(m - 1, start, excluded)
      BY <1>1, <2>3, <2>4, <2>5
    <2> QED
      BY <1>2, <1>6, <2>3, <2>4, <2>6
  <1>8. \A n \in 1 .. N : of[n] = Simple(n, start, excluded)
    BY <1>7
  <1>9. UNION {of[n] : n \in DOMAIN of} = UNION {Simple(n, start, excluded) : n \in Nat \ {0}}
    <2>1. \A n \in Nat \ {0} : \A path \in Simple(n, start, excluded) : n \in 1 .. N
      BY SimpleLength DEF N
    <2>2. \A n \in 1 .. N : n \in Nat \ {0}
      BY <1>0
    <2> QED
      BY <1>5, <1>8, <2>1, <2>2
  <1>10. Journeys(start, station, excluded)
           = {path \in UNION {of[n] : n \in DOMAIN of} : path[Len(path)].stop.node = station}
    BY DEF Journeys, of, Longer, Extended, WaysOn, NextAt, NodesOf
  <1> QED
    BY <1>9, <1>10

\* Where a walk leads, a journey leads as well: it follows the walk, and goes back to
\* where it was when the walk comes to one of its stations.
LEMMA JourneyAlongWalk ==
  ASSUME edges \subseteq Edge, stopA \in PathStopDist,
         NEW walk \in Seq(PathStopDist), IsWalk(walk), NEW k \in 1 .. Len(walk)
  PROVE  \E n \in Nat \ {0} : \E path \in Simple(n, stopA, excludedStops) :
           path[n].stop.node = walk[k].stop.node
  <1> DEFINE Led(i) == \E n \in Nat \ {0} : \E path \in Simple(n, stopA, excludedStops) :
                         path[n].stop.node = walk[i].stop.node
             missed == {i \in 1 .. Len(walk) : ~Led(i)}
  <1>1. Led(1)
    <2>1. walk[1] = stopA
      BY DEF IsWalk, IsPathFrom
    <2>2. <<stopA>> \in Simple(1, stopA, excludedStops) /\ <<stopA>>[1] = stopA
      BY SimpleStart
    <2> QED
      BY <2>1, <2>2
  <1>2. ASSUME NEW i \in 1 .. Len(walk) - 1, Led(i)
        PROVE  Led(i + 1)
    <2>n. PICK n \in Nat \ {0} : \E path \in Simple(n, stopA, excludedStops) :
            path[n].stop.node = walk[i].stop.node
      BY <1>2
    <2>1. PICK path \in Simple(n, stopA, excludedStops) : path[n].stop.node = walk[i].stop.node
      BY <2>n
    <2> DEFINE e == walk[i + 1].stop.edge
    <2>2. path \in Seq(PathStopDist) /\ Len(path) = n
      BY DEF Simple
    <2>3. /\ e \in edges /\ e.from = walk[i].stop.node
          /\ walk[i + 1] = At(StopOf(e), walk[i].dist + StepCost(walk[i].stop, e))
      BY DEF IsWalk, IsPathFrom
    <2>4. walk[i + 1].stop = StopOf(e) /\ walk[i + 1].stop.node = e.nextStop
      BY <2>3, AtFacts, StopOfFacts
    <2>5. StopOf(e) \notin excludedStops
      <3>1. i + 1 \in 2 .. Len(walk)
        OBVIOUS
      <3> QED
        BY <2>4, <3>1 DEF IsWalk
    <2> HIDE DEF e
    <2>6. CASE e.nextStop \in NodesOf(path)
      <3>1. PICK m \in 1 .. n : path[m].stop.node = e.nextStop
        BY <2>2, <2>6 DEF NodesOf
      <3>2. /\ SubSeq(path, 1, m) \in Simple(m, stopA, excludedStops)
            /\ \A j \in 1 .. m : SubSeq(path, 1, m)[j] = path[j]
        BY SimplePrefix
      <3>3. m \in Nat \ {0} /\ m \in 1 .. m
        OBVIOUS
      <3> QED
        BY <2>4, <3>1, <3>2, <3>3
    <2>7. CASE e.nextStop \notin NodesOf(path)
      <3>1. e \in WaysOn(path, excludedStops)
        BY <2>1, <2>2, <2>3, <2>5, <2>7 DEF WaysOn
      <3>2. /\ Append(path, NextAt(path, e)) \in Simple(n + 1, stopA, excludedStops)
            /\ Append(path, NextAt(path, e))[n + 1].stop.node = e.nextStop
        <4>1. Append(path, NextAt(path, e)) \in Simple(n + 1, stopA, excludedStops)
          BY <3>1, SimpleGoesOn
        <4>2. Append(path, NextAt(path, e))[n + 1] = NextAt(path, e)
          BY <2>2
        <4>3. NextAt(path, e).stop.node = e.nextStop
          BY <2>3, AtFacts, StopOfFacts DEF NextAt
        <4> QED
          BY <4>1, <4>2, <4>3
      <3>3. n + 1 \in Nat \ {0}
        OBVIOUS
      <3> QED
        BY <2>4, <3>2, <3>3
    <2> QED
      BY <2>6, <2>7
  <1> HIDE DEF Led
  <1>3. ASSUME missed # {} PROVE FALSE
    <2>1. missed \in SUBSET Nat
      OBVIOUS
    <2>2. PICK m \in missed : \A j \in missed : m <= j
      BY <1>3, <2>1, LeastNumber
    <2>3. m \in 1 .. Len(walk) /\ ~Led(m) /\ m # 1
      BY <1>1
    <2>4. m - 1 \in 1 .. Len(walk) - 1 /\ m - 1 \in 1 .. Len(walk) /\ (m - 1) + 1 = m
      BY <2>3
    <2>5. m - 1 \notin missed
      <3> HIDE DEF missed
      <3> QED
        BY <2>2, <2>3
    <2>6. Led(m - 1)
      BY <2>4, <2>5
    <2> QED
      BY <1>2, <2>3, <2>4, <2>6
  <1> QED
    BY <1>3 DEF Led

\* A journey to station B is a walk there.
LEMMA JourneyIsWalk ==
  ASSUME NEW n \in Nat \ {0}, NEW path \in Simple(n, stopA, excludedStops),
         path[n].stop.node = stationB
  PROVE  path \in Seq(PathStopDist) /\ IsWalk(path) /\ Len(path) = n
  <1>1. /\ path \in Seq(PathStopDist) /\ Len(path) = n /\ path # <<>>
        /\ IsSimple(path, stopA, excludedStops)
    BY DEF Simple
  <1>2. ASSUME NEW i \in 1 .. n - 1
        PROVE  path[i].stop.node # stationB
    <2>1. i \in 1 .. n /\ n \in 1 .. n /\ i # n
      OBVIOUS
    <2> QED
      BY <1>1, <2>1 DEF IsSimple
  <1> QED
    BY <1>1, <1>2 DEF IsWalk, IsSimple

\* So what is a fastest walk is as fast as any journey.
LEMMA LoopFindsFastestJourney ==
  ASSUME SearchLoop, PreviousStopsEnd, StartLeft
  PROVE  SearchFindsFastest
  <1> DEFINE journeys == Journeys(stopA, stationB, excludedStops)
             toB == {path \in Seq(PathStopDist) :
                       IsWalk(path) /\ path[Len(path)].stop.node = stationB}
  <1>1. edges \subseteq Edge /\ stopA \in PathStopDist
    BY DEF SearchLoop, SearchTypeOK
  <1>2. journeys \subseteq toB
    <2>1. ASSUME NEW j \in journeys PROVE j \in toB
      <3>1. /\ j[Len(j)].stop.node = stationB
            /\ \E n \in Nat \ {0} : j \in Simple(n, stopA, excludedStops)
        BY <1>1, JourneysAreSimple
      <3>2. PICK n \in Nat \ {0} : j \in Simple(n, stopA, excludedStops)
        BY <3>1
      <3>3. Len(j) = n
        BY <3>2 DEF Simple
      <3> QED
        BY <3>1, <3>2, <3>3, JourneyIsWalk
    <2> QED
      BY <2>1
  <1>3. ASSUME NEW walk \in toB PROVE journeys # {}
    <2>1. Len(walk) \in 1 .. Len(walk)
      BY DEF IsWalk
    <2>n. PICK n \in Nat \ {0} : \E path \in Simple(n, stopA, excludedStops) :
            path[n].stop.node = walk[Len(walk)].stop.node
      BY <1>1, <2>1, JourneyAlongWalk
    <2>2. PICK path \in Simple(n, stopA, excludedStops) :
            path[n].stop.node = walk[Len(walk)].stop.node
      BY <2>n
    <2>3. Len(path) = n
      BY DEF Simple
    <2>4. path \in journeys
      BY <1>1, <2>2, <2>3, JourneysAreSimple
    <2> QED
      BY <2>4
  <1> HIDE DEF journeys
  <1> SUFFICES ASSUME SearchDone, NEW path \in SearchResults
               PROVE  /\ path = <<>> <=> journeys = {}
                      /\ path # <<>> =>
                           /\ IsPathFrom(stopA, path)
                           /\ path[Len(path)].stop.node = stationB
                           /\ \A i \in DOMAIN path \ {1} : path[i].stop \notin excludedStops
                           /\ \A j \in journeys : path[Len(path)].dist <= j[Len(j)].dist
    BY DEF SearchFindsFastest, journeys
  <1>4. IF path = <<>> THEN toB = {}
        ELSE path \in toB /\ \A other \in toB : path[Len(path)].dist <= other[Len(other)].dist
    BY LoopFindsFastest DEF ResultsAreFastest
  <1>5. CASE path = <<>>
    <2> HIDE DEF toB
    <2> QED
      BY <1>2, <1>4, <1>5
  <1>6. CASE path # <<>>
    <2>1. path \in toB /\ \A j \in journeys : path[Len(path)].dist <= j[Len(j)].dist
      <3> HIDE DEF toB
      <3> QED
        BY <1>2, <1>4, <1>6
    <2>2. path \in Seq(PathStopDist) /\ IsWalk(path) /\ path[Len(path)].stop.node = stationB
      BY <2>1
    <2>3. journeys # {}
      BY <1>3, <2>1
    <2>4. DOMAIN path \ {1} = 2 .. Len(path)
      BY <2>2
    <2> QED
      BY <1>6, <2>1, <2>2, <2>3, <2>4 DEF IsWalk
  <1> QED
    BY <1>5, <1>6

\* Of a search on its own, for every network, start (warm or cold), station and set of
\* excluded stops: no journey to station B is faster than what it returns.
THEOREM SearchFindsFastestHolds == SearchSpec => []SearchFindsFastest
  <1>1. SearchLoop /\ PreviousStopsEnd /\ StartLeft => SearchFindsFastest
    BY LoopFindsFastestJourney
  <1> QED
    BY <1>1, SearchLoopHolds, PreviousStopsEndHolds, StartLeftHolds, PTL

=============================================================================
