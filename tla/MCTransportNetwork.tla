------------------------- MODULE MCTransportNetwork -------------------------
(* Documents of a small network, for TLC. *)
EXTENDS TransportNetwork

LineOf(l, routes) == [id |-> l, routes |-> routes]
MCCounts == {-1, 1}

RouteTo(r, stops) == [id |-> r, stops |-> stops]

\* Both directions of a line, a line that shares pairs of stops with it, and
\* lines AddLine refuses: a repeated route id, a line id used before.
MCNewLines ==
  {LineOf("l0", <<RouteTo("r0", <<"a", "b", "c">>), RouteTo("r1", <<"c", "b", "a">>)>>),
   LineOf("l1", <<RouteTo("r0", <<"b", "a">>), RouteTo("r1", <<"b", "c">>)>>),
   LineOf("l1", <<RouteTo("r0", <<"a", "c">>), RouteTo("r0", <<"c", "a">>)>>),
   LineOf("l2", <<RouteTo("r0", <<"c", "a", "b">>)>>)}
=============================================================================
