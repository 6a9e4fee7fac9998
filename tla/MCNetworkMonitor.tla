-------------------------- MODULE MCNetworkMonitor --------------------------
(* NetworkMonitor on small instances, for TLC. *)
EXTENDS NetworkMonitor
=============================================================================
