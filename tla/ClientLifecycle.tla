-------------------------- MODULE ClientLifecycle --------------------------
(***************************************************************************)
(* What StompServer promises to its user about the connection identifiers  *)
(* it hands out (stomp-server.h, the comment of Run): the user only learns *)
(* of clients that completed the STOMP handshake, hears of each of them at *)
(* most once, gets their messages after that, and hears at most once that  *)
(* they are gone, when they really are, and nothing afterwards.            *)
(*                                                                         *)
(* The specification says nothing of WebSockets, maps or queues; module    *)
(* StompServer is shown to implement it.                                   *)
(***************************************************************************)
CONSTANT Ids        \* connection identifiers

VARIABLES
  stomp,            \* stomp[id]: the STOMP connection "never", "live" or "over"
  told              \* told[id]: the last callback the user got about id

lifecycleVars == <<stomp, told>>

Init ==
  /\ stomp = [id \in Ids |-> "never"]
  /\ told = [id \in Ids |-> "nothing"]

\* A client completes the STOMP handshake; an identifier is never used again.
Establish(id) ==
  /\ stomp[id] = "never"
  /\ stomp' = [stomp EXCEPT ![id] = "live"]
  /\ UNCHANGED told

\* Connections end: one at a time, or all of them at once when the server stops.
End(gone) ==
  /\ \A id \in gone : stomp[id] = "live"
  /\ stomp' = [id \in Ids |-> IF id \in gone THEN "over" ELSE stomp[id]]

TellConnected(id) ==
  /\ stomp[id] # "never"
  /\ told[id] = "nothing"
  /\ told' = [told EXCEPT ![id] = "connected"]

TellMessage(id) ==
  /\ told[id] \in {"connected", "message"}
  /\ told' = [told EXCEPT ![id] = "message"]

TellDisconnected(id) ==
  /\ stomp[id] = "over"
  /\ told[id] \in {"connected", "message"}
  /\ told' = [told EXCEPT ![id] = "disconnected"]

\* A callback may itself close connections: telling and ending share a step.
Tell == \E id \in Ids : TellConnected(id) \/ TellMessage(id) \/ TellDisconnected(id)

Next ==
  \/ \E id \in Ids : Establish(id)
  \/ \E gone \in SUBSET Ids : End(gone) /\ (Tell \/ UNCHANGED told)

Spec == Init /\ [][Next]_lifecycleVars
=============================================================================
