---------------------------- MODULE MCQuietRoute ----------------------------
(* All networks of three stations and some of four and five, for TLC. *)
EXTENDS QuietRoute, TLC

\* Routes of two to n of the given stations, each station at most once.
StopSeqs(nodes, n) == {s \in UNION {[1 .. k -> nodes] : k \in 2 .. n} : IsInjective(s)}

\* The edges of a network: consecutive stops of its routes, with one travel
\* time for each pair of stations, whatever the direction or the route.
NetworkOf(stops, times) ==
  UNION {{[route |-> r, from |-> stops[r][i], nextStop |-> stops[r][i + 1],
           travelTime |-> times[{stops[r][i], stops[r][i + 1]}]] :
             i \in 1 .. Len(stops[r]) - 1} : r \in DOMAIN stops}

PairsOf(nodes) == {p \in SUBSET nodes : Cardinality(p) = 2}

\* Times below and above the penalty, so that changing is and is not worth it.
SmallNetworks ==
  LET nodes == {"a", "b", "c"}
  IN  {NetworkOf(stops, times) : stops \in [Routes -> StopSeqs(nodes, 3)],
                                 times \in [PairsOf(nodes) -> {1, 8}]}

\* A third way around: longer paths, ties, and edges whose time was never set.
DetourNetworks ==
  LET nodes == {"a", "b", "c", "d"}
  IN  {NetworkOf(("r0" :> <<"a", "c", "b">>) @@ ("r1" :> long) @@ ("r2" :> short),
                 [p \in PairsOf(nodes) |-> time]) :
         long \in StopSeqs(nodes, 4) \ StopSeqs(nodes, 2),
         short \in StopSeqs(nodes, 2), time \in {0, 3}}

\* A slow way whose spur searches come back to the start and go on along the fast
\* way: the third path is faster than the second.
ReturnNetworks ==
  LET times == ({"a", "c"} :> 50) @@ ({"b", "c"} :> 50) @@ ({"a", "d"} :> 1)
                 @@ ({"d", "e"} :> 1) @@ ({"b", "e"} :> 170)
  IN  {NetworkOf(("r0" :> <<"a", "c", "b">>) @@ ("r1" :> <<"a", "d", "e", "b">>)
                   @@ ("r2" :> <<"e", "d", "a">>), times)}

MCNetworks == SmallNetworks \cup DetourNetworks \cup ReturnNetworks
MCQueries == {<<"a", "b">>, <<"a", "a">>, <<"a", NoStation>>}
MCSlowdown == <<3, 4>>
MCQuietness == <<1, 4>>
MCCounts == {[s \in Stations |-> IF s = "c" THEN n ELSE m] : n, m \in {0, 2}}
\* More passengers left the station than entered it while we counted.
MCNegativeCounts == {[s \in Stations |-> IF s = "c" THEN -1 ELSE 0]}
=============================================================================
