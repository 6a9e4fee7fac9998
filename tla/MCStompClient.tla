--------------------------- MODULE MCStompClient ---------------------------
(* StompClient with the most general user, for TLC. *)
EXTENDS StompClient
=============================================================================
