--------------------------- MODULE MCStompServer ---------------------------
(* StompServer with two sessions and the most general user, for TLC. *)
EXTENDS StompServer, TLC

Symmetry == Permutations(Sessions) \cup Permutations(Ids)
=============================================================================
