--------------------------- MODULE NetworkMonitor ---------------------------
(***************************************************************************)
(* The whole process: src/main.cpp and include/network-monitor.h, on top   *)
(* of StompClient (passenger events in) and StompServer (quiet-route       *)
(* requests in, replies out).  The monitor is the user of both: where      *)
(* their modules let a most general user act, here the handlers of         *)
(* NetworkMonitor run: names with Client! are those of StompClient, other  *)
(* names of methods and handlers those of StompServer.  The travel route   *)
(* and the passenger counts are data: a reply is known by the request it   *)
(* answers, an event by whether it can be parsed and recorded.             *)
(***************************************************************************)
EXTENDS StompServer, FiniteSets

CONSTANTS
  SubIds, Bodies, NoSub, NoBody, HasOnMessage, MaxUpcalls,
  WrongDestination, \* requests for a destination other than /quiet-route
  BadRequest,       \* requests whose body is not a valid JSON request
  Anonymous,        \* requests whose SEND frame has no id header
  BadEvent,         \* message bodies that are not a passenger event
  UnknownStation,   \* passenger events for a station not in the network
  Interruptible     \* main runs for a limited time, or somebody calls Stop

ASSUME MonitorAssumption ==
  /\ WrongDestination \subseteq Requests
  /\ BadRequest \subseteq Requests
  /\ Anonymous \subseteq Requests
  /\ BadEvent \subseteq Bodies
  /\ UnknownStation \subseteq Bodies
  /\ HasOnMessage = FALSE
  /\ MaxFrames > MaxRequests
  /\ Interruptible \in BOOLEAN

VARIABLES
  link, m_closed, writes, subscriptions, upcalls, requested, receipts, heard,
  process,          \* where main() is, its exit code included
  connectedClients, \* NetworkMonitor::connectedClients_
  lastErrorCode     \* NetworkMonitor::lastErrorCode_

Client == INSTANCE StompClient

serverVars == vars
clientVars == <<link, m_closed, writes, subscriptions, upcalls, requested,
                receipts, heard>>
monitorVars == <<process, connectedClients, lastErrorCode>>
allVars == <<serverVars, clientVars, monitorVars>>

Processes == {"new", "configured", "running", "exit 0", "exit -1", "exit -2"}
ErrorCodes ==
  {"kOk", "kUndefinedError", "kCouldNotConnectToStompClient",
   "kCouldNotParsePassengerEvent", "kCouldNotParseQuietRouteRequest",
   "kCouldNotRecordPassengerEvent", "kCouldNotSubscribeToPassengerEvents",
   "kStompClientDisconnected", "kStompServerClientDisconnected",
   "kStompServerDisconnected"}

MonitorTypeOK ==
  /\ TypeOK
  /\ Client!TypeOK
  /\ process \in Processes
  /\ connectedClients \in SUBSET Ids
  /\ lastErrorCode \in ErrorCodes

MonitorInit ==
  /\ Init
  /\ Client!Init
  /\ process = "new"
  /\ connectedClients = {}
  /\ lastErrorCode = "kUndefinedError"

-----------------------------------------------------------------------------
(* main *)

\* Configure: the client starts to connect, the server starts to listen.  On
\* an error before that, or if the server cannot listen, main returns -1.
Configure ==
  /\ process = "new"
  /\ \/ UNCHANGED <<serverVars, clientVars>> /\ process' = "exit -1"
     \/ /\ Client!Connect
        /\ Run
        /\ process' = IF acceptor' = "listening" THEN "configured" ELSE "exit -1"
  /\ UNCHANGED <<connectedClients, lastErrorCode>>

Running == process = "running"

RunMonitor ==
  /\ process = "configured"
  /\ process' = "running"
  /\ lastErrorCode' = "kOk"
  /\ UNCHANGED <<serverVars, clientVars, connectedClients>>

\* io_context::run has nothing left to wait for.
OutOfWork ==
  /\ acceptor = "idle"
  /\ \A s \in Sessions : phase[s] \in {"unborn", "ended"}
  /\ posted = <<>>
  /\ link \in {"failed", "ended"}
  /\ writes = {}
  /\ upcalls = <<>>

\* io_context::run returns when it is out of work; run_for and stop() end it with
\* handlers outstanding, which never run.  main looks at the last error code.
Exit ==
  /\ Running
  /\ OutOfWork \/ Interruptible
  /\ process' = IF lastErrorCode \in {"kOk", "kStompServerClientDisconnected"}
                THEN "exit 0" ELSE "exit -2"
  /\ UNCHANGED <<serverVars, clientVars, connectedClients, lastErrorCode>>

-----------------------------------------------------------------------------
(* Handlers of the network-events client *)

\* Faulty variant: the server is left running.
OnNetworkEventsConnectNoStop(ok) ==
  \/ /\ ~ok
     /\ lastErrorCode' = "kCouldNotConnectToStompClient"
     /\ Client!Close(FALSE)
     /\ UNCHANGED serverVars
  \/ /\ ok
     /\ \E sub \in SubIds : Client!Subscribe(sub)
     /\ lastErrorCode' = "kOk"
     /\ UNCHANGED serverVars

OnNetworkEventsConnect(ok) ==
  \/ /\ ~ok
     /\ lastErrorCode' = "kCouldNotConnectToStompClient"
     /\ Client!Close(FALSE)
     /\ Stop
     /\ UNCHANGED <<posted, told>>
  \/ /\ ok
     /\ \E sub \in SubIds : Client!Subscribe(sub)
     /\ lastErrorCode' = "kOk"
     /\ UNCHANGED serverVars

\* The handler does not look at its error code: a message for another
\* destination arrives with an empty body, which does not parse.
OnNetworkEventsMessage(c) ==
  lastErrorCode' =
    IF c.type = "mismatch" \/ c.body \in BadEvent THEN "kCouldNotParsePassengerEvent"
    ELSE IF c.body \in UnknownStation THEN "kCouldNotRecordPassengerEvent"
    ELSE "kOk"

ClientUpcall ==
  LET c == Head(upcalls) IN
  /\ Running
  /\ Client!Deliver
  /\ \/ c.type \in {"connectOk", "connectError"} /\ OnNetworkEventsConnect(c.type = "connectOk")
     \/ /\ \/ c.type = "disconnect" /\ lastErrorCode' = "kStompClientDisconnected"
           \/ c.type = "subscribed" /\ lastErrorCode' = "kOk"
           \/ /\ c.type = "subscribeError"
              /\ lastErrorCode' = "kCouldNotSubscribeToPassengerEvents"
           \/ c.type \in {"message", "mismatch"} /\ OnNetworkEventsMessage(c)
        /\ Client!NoOp
        /\ UNCHANGED serverVars
  /\ UNCHANGED <<process, connectedClients>>

-----------------------------------------------------------------------------
(* Handlers of the quiet-route server *)

\* Faulty variant: the id is moved from before it is inserted.
OnQuietRouteClientConnectMoved(id) ==
  /\ connectedClients' = connectedClients \cup {NoId}
  /\ lastErrorCode' = "kOk"
  /\ NoOp

OnQuietRouteClientConnect(id) ==
  /\ connectedClients' = connectedClients \cup {id}
  /\ lastErrorCode' = "kOk"
  /\ NoOp

\* Faulty variant: a bad request is forgotten and its connection kept open.
OnQuietRouteClientMessageNoClose(id, req) ==
  \/ /\ req \in WrongDestination \cup BadRequest
     /\ NoOp
     /\ connectedClients' = connectedClients \ {id}
     /\ lastErrorCode' = "kCouldNotParseQuietRouteRequest"
  \/ /\ req \notin WrongDestination \cup BadRequest
     /\ Send(id, IF req \in Anonymous THEN NoRequest ELSE req)
     /\ lastErrorCode' = "kOk"
     /\ UNCHANGED connectedClients

\* Faulty variant: whoever sends a valid request is taken to be connected.
OnQuietRouteClientMessageInserts(id, req) ==
  \/ /\ req \in WrongDestination \cup BadRequest
     /\ Close(id)
     /\ connectedClients' = connectedClients \ {id}
     /\ lastErrorCode' = "kCouldNotParseQuietRouteRequest"
  \/ /\ req \notin WrongDestination \cup BadRequest
     /\ Send(id, IF req \in Anonymous THEN NoRequest ELSE req)
     /\ lastErrorCode' = "kOk"
     /\ connectedClients' = connectedClients \cup {id}

OnQuietRouteClientMessage(id, req) ==
  \/ /\ req \in WrongDestination
     /\ Close(id)
     /\ connectedClients' = connectedClients \ {id}
     /\ UNCHANGED lastErrorCode
  \/ /\ req \in BadRequest \ WrongDestination
     /\ Close(id)
     /\ connectedClients' = connectedClients \ {id}
     /\ lastErrorCode' = "kCouldNotParseQuietRouteRequest"
  \/ /\ req \notin WrongDestination \cup BadRequest
     /\ Send(id, IF req \in Anonymous THEN NoRequest ELSE req)
     /\ lastErrorCode' = "kOk"
     /\ UNCHANGED connectedClients

\* Faulty variant: only the error code is recorded.
OnQuietRouteClientDisconnectKeeps(id) ==
  /\ lastErrorCode' = "kStompServerClientDisconnected"
  /\ UNCHANGED connectedClients
  /\ NoOp

OnQuietRouteClientDisconnect(id) ==
  /\ connectedClients' = connectedClients \ {id}
  /\ lastErrorCode' = "kStompServerClientDisconnected"
  /\ NoOp

OnQuietRouteDisconnect ==
  /\ lastErrorCode' = "kStompServerDisconnected"
  /\ UNCHANGED connectedClients
  /\ NoOp

ServerCallback ==
  LET e == Head(posted) IN
  /\ Running
  /\ Deliver
  /\ \/ e.type = "connected" /\ OnQuietRouteClientConnect(e.id)
     \/ e.type = "message" /\ OnQuietRouteClientMessage(e.id, e.req)
     \/ e.type = "disconnected" /\ OnQuietRouteClientDisconnect(e.id)
     \/ e.type = "serverDown" /\ OnQuietRouteDisconnect
  /\ UNCHANGED <<clientVars, process>>

-----------------------------------------------------------------------------
(* io_context::run: one completion handler at a time, of either side *)

ServerHandlers ==
  /\ Running
  /\ \/ AcceptCompletes
     \/ \E s \in Sessions : OnConnectionAccepted(s)
     \/ OnWsDisconnect
     \/ \E s \in Sessions : Handlers(s)
  /\ UNCHANGED <<clientVars, monitorVars>>

\* Bound: the network-events server answers CONNECTED once per id in SubIds.
SubscriptionsLeft ==
  Cardinality(requested) + Len(SelectSeq(upcalls, LAMBDA c : c.type = "connectOk"))
    < Cardinality(SubIds)

ClientHandlers ==
  /\ Running
  /\ Client!Handlers
  /\ (upcalls' # upcalls /\ upcalls'[Len(upcalls')].type = "connectOk") => SubscriptionsLeft
  /\ UNCHANGED <<serverVars, monitorVars>>

MonitorNext ==
  \/ Configure
  \/ RunMonitor
  \/ ServerHandlers
  \/ ClientHandlers
  \/ ServerCallback
  \/ ClientUpcall
  \/ Exit

MonitorSpec == MonitorInit /\ [][MonitorNext]_allVars

\* main runs to ioc_.run(), which executes every posted callback and completes
\* every operation that cannot wait for a peer: see StompServer and StompClient.
StreamEnds(s) ==
  /\ Running
  /\ phase[s] = "broken" \/ closed[s]
  /\ ReadEnds(s)
  /\ UNCHANGED <<clientVars, monitorVars>>

Fairness ==
  /\ WF_allVars(Configure)
  /\ WF_allVars(RunMonitor)
  /\ WF_allVars(ServerCallback)
  /\ WF_allVars(ClientUpcall)
  /\ \A s \in Sessions : WF_allVars(StreamEnds(s))

MonitorFairSpec == MonitorSpec /\ Fairness

-----------------------------------------------------------------------------
(* Properties *)

RequestId(req) == IF req \in Anonymous THEN NoRequest ELSE req

\* A client is sent replies to its own requests only, each at most once and in
\* the order it asked: its first frame is CONNECTED, and the reply at place k + 1
\* answers the k-th request taken from its session (HandleSend,
\* stomp-server.h:668-713, through context_ and OnQuietRouteClientMessage,
\* network-monitor.h:464-516, to Send).
RepliesAnswerRequests ==
  \A s \in Sessions : \A k \in 1..Len(out[s]) :
    out[s][k].cmd = "SEND" =>
      /\ k > 1 /\ k <= Len(asked[s]) + 1
      /\ out[s][k].req = RequestId(asked[s][k - 1])

\* A client the server treats as connected is in connectedClients_, or the
\* callback that will insert it is queued (network-monitor.h:453-527).
ConnectedClientsComplete ==
  \A s \in Sessions :
    connections[s].status = "kConnected" =>
      \/ connections[s].id \in connectedClients
      \/ Pending("connected", connections[s].id)

\* The requests a..b of client id wait in messages of the queue, in their order, and
\* no other message of that client is there.
InQueue(queue, id, requests, a, b) ==
  \E pos \in [a..b -> 1..Len(queue)] :
    /\ \A m, n \in a..b : m < n => pos[m] < pos[n]
    /\ \A m \in a..b : queue[pos[m]] = Event("message", id, requests[m])
    /\ \A p \in 1..Len(queue) :
         queue[p].type = "message" /\ queue[p].id = id => \E m \in a..b : pos[m] = p

\* What RepliesAnswerRequests rests on: of a connected client each request without a
\* reply waits on context_.  A client that is not connected yet has neither asked nor
\* been sent anything.
Waiting(s) == InQueue(posted, connections[s].id, asked[s], Len(out[s]), Len(asked[s]))
Shaking(s) == phase[s] \in {"unborn", "created", "tls", "handshake"}
RequestsWait ==
  \A s \in Sessions :
    /\ Len(asked[s]) <= MaxRequests
    /\ connections[s].status = "kConnected" =>
         Len(out[s]) > 0 /\ Len(out[s]) <= Len(asked[s]) + 1 /\ Waiting(s)
    /\ connections[s].status = "kPending" \/ Shaking(s) => out[s] = <<>> /\ asked[s] = <<>>

\* The server is open while the monitor runs.
ServerOpened == process \in {"configured", "running"} => acceptor # "unopened"

MonitorInvariant ==
  /\ Maps
  /\ CallbacksInOrder
  /\ ServerOpened
  /\ connectedClients \subseteq Ids
  /\ ConnectedClientsComplete
  /\ RepliesAnswerRequests
  /\ RequestsWait

\* A client erased from connectedClients_, by its disconnection or because the
\* monitor closed it, never comes back, whatever callbacks were still queued
\* (OnQuietRouteClientMessage and OnQuietRouteClientDisconnect).
ErasedClientStaysErased ==
  [][\A id \in Ids : told[id] # "nothing" /\ id \notin connectedClients
                       => id \notin connectedClients']_allVars

\* Every request taken from a client is answered, or the client is dropped.
RequestSettled ==
  \A s \in Sessions, k \in 1..MaxRequests :
    Len(asked[s]) >= k ~>
      \/ Len(out[s]) > k /\ out[s][k + 1].cmd = "SEND"
      \/ connections[s] = NoConnection

\* A client whose connection breaks leaves connectedClients_, unless the server
\* is stopped meanwhile (network-monitor.h:518-527).
LostClientForgotten ==
  \A s \in Sessions, id \in Ids :
    (sessions[id] = s /\ phase[s] = "broken" /\ id \in connectedClients)
      ~> (id \notin connectedClients \/ stopped)

\* When the network-events server cannot be reached, or onConnect reports an error
\* later (StompClient calls it for any malformed frame, stomp-client.h:480), the
\* monitor closes the client and stops the quiet-route server
\* (network-monitor.h:361-368).
ConnectFailureStopsServer ==
  link = "failed" \/ Client!Queued("connectError", NoSub) ~> stopped /\ m_closed

\* After a failed connection Run leaves kCouldNotConnectToStompClient
\* (tests/network-monitor.cpp:288-291), which main reports as a failure
\* (main.cpp:54-63): the process does not exit with 0.  The monitor stops its
\* server only on that failure.
ConnectFailureExitsNonzero == stopped => process # "exit 0"
=============================================================================
