---------------------------- MODULE StompServer ----------------------------
(***************************************************************************)
(* The quiet-route server: include/websocket-server.h (WebSocketServer and *)
(* WebSocketSession) with include/stomp-server.h (StompServer) on top.     *)
(*                                                                         *)
(* One io_context, run by one thread, executes every completion handler:   *)
(* a handler is one atomic action.  Handlers of different strands (the     *)
(* acceptor, each session, the STOMP strand context_) come in any order;   *)
(* context_ itself is FIFO and is the sequence `posted`.  The network, the *)
(* peers and the user of StompServer are the environment: a peer may send  *)
(* any frame, fail any handshake and go away at any time.                  *)
(***************************************************************************)
EXTENDS Naturals, Sequences

CONSTANTS
  Sessions,         \* the WebSocketSession objects the server may create
  Ids,              \* the UUIDs GenerateId may return for connections
  Requests,         \* what a SEND frame carries: its id header and its body
  NoSession, NoId, NoRequest,
  MaxRequests,      \* bound: SEND frames taken from one session
  MaxFrames         \* bound: the user sends while fewer frames went out

ASSUME NullAssumption ==
  /\ NoSession \notin Sessions
  /\ NoId \notin Ids
  /\ NoRequest \notin Requests
ASSUME BoundAssumption == MaxRequests \in Nat /\ MaxFrames \in Nat

VARIABLES
  acceptor,         \* the listening socket and its outstanding async_accept
  stopped,          \* WebSocketServer::stopped_
  phase,            \* phase[s]: which completion handler of s is outstanding
  closed,           \* closed[s]: WebSocketSession::closed_
  connections,      \* connections[s]: StompServer::connections_
  sessions,         \* sessions[id]: StompServer::sessions_
  out,              \* out[s]: frames given to async_write, in order
  posted,           \* callbacks posted on context_, not yet run
  used,             \* history: identifiers GenerateId has returned
  established,      \* history: identifiers whose STOMP handshake succeeded
  asked,            \* history: asked[s], the requests handed on from s
  told              \* history: told[id], the last callback run for id

netVars == <<acceptor, stopped, phase>>
mapVars == <<connections, sessions>>
histVars == <<used, established, asked>>
vars == <<acceptor, stopped, phase, closed, connections, sessions, out, posted,
          used, established, asked, told>>

-----------------------------------------------------------------------------
(* Data *)

Acceptors == {"unopened", "listening", "accepted", "failed", "idle"}
Phases == {"unborn", "created", "tls", "handshake", "open", "broken", "ended"}

Connection == [id : Ids, status : {"kPending", "kConnected"}]
NoConnection == [id |-> NoId, status |-> "kInvalid"]

\* What a client may send, told apart as far as OnWsSessionMessage does.
ClientFrame ==
  [kind : {"malformed", "stompBadVersion", "stompBadHost", "stomp", "unsupported"},
   req : {NoRequest}]
    \cup [kind : {"send"}, req : Requests]

ServerFrame ==
  [cmd : {"CONNECTED", "ERROR", "SEND"}, id : Ids \cup {NoId},
   req : Requests \cup {NoRequest}]

ConnectedFrame(id) == [cmd |-> "CONNECTED", id |-> id, req |-> NoRequest]
\* Every ERROR frame carries kUnsupportedFrame, whatever the error was.
MakeErrorFrame == [cmd |-> "ERROR", id |-> NoId, req |-> NoRequest]
\* NoRequest stands for the request id that Send generates when given none.
SendFrame(req) == [cmd |-> "SEND", id |-> NoId, req |-> req]

Callback ==
  [type : {"connected", "message", "disconnected", "serverDown"},
   id : Ids \cup {NoId}, req : Requests \cup {NoRequest}]

Event(type, id, req) == [type |-> type, id |-> id, req |-> req]
Post(event) == posted' = Append(posted, event)

TypeOK ==
  /\ acceptor \in Acceptors
  /\ stopped \in BOOLEAN
  /\ phase \in [Sessions -> Phases]
  /\ closed \in [Sessions -> BOOLEAN]
  /\ connections \in [Sessions -> Connection \cup {NoConnection}]
  /\ sessions \in [Ids -> Sessions \cup {NoSession}]
  /\ out \in [Sessions -> Seq(ServerFrame)]
  /\ posted \in Seq(Callback)
  /\ used \in SUBSET Ids
  /\ established \in SUBSET Ids
  /\ asked \in [Sessions -> Seq(Requests)]
  /\ told \in [Ids -> {"nothing", "connected", "message", "disconnected"}]

Init ==
  /\ acceptor = "unopened"
  /\ stopped = FALSE
  /\ phase = [s \in Sessions |-> "unborn"]
  /\ closed = [s \in Sessions |-> FALSE]
  /\ connections = [s \in Sessions |-> NoConnection]
  /\ sessions = [id \in Ids |-> NoSession]
  /\ out = [s \in Sessions |-> <<>>]
  /\ posted = <<>>
  /\ used = {}
  /\ established = {}
  /\ asked = [s \in Sessions |-> <<>>]
  /\ told = [id \in Ids |-> "nothing"]

-----------------------------------------------------------------------------
(* WebSocketServer: listening and accepting *)

\* Run opens, binds and listens, and starts the first async_accept; on any
\* error it returns the error and nothing is outstanding.
Run ==
  /\ acceptor = "unopened"
  /\ acceptor' \in {"listening", "idle"}
  /\ stopped' = FALSE
  /\ UNCHANGED <<phase, closed, mapVars, out, posted, histVars, told>>

\* The outstanding async_accept completes, with a socket or with an error.
\* Its handler has yet to run.
AcceptCompletes ==
  /\ acceptor = "listening"
  /\ acceptor' \in {"accepted", "failed"}
  /\ UNCHANGED <<stopped, phase, closed, mapVars, out, posted, histVars, told>>

\* OnConnectionAccepted with a socket, then AcceptConnection: a new session
\* starts to connect.  async_accept on an acceptor that Stop closed fails.
OnConnectionAccepted(s) ==
  /\ acceptor = "accepted"
  /\ phase[s] = "unborn"
  /\ phase' = [phase EXCEPT ![s] = "created"]
  /\ closed' = [closed EXCEPT ![s] = FALSE]
  /\ acceptor' = IF stopped THEN "failed" ELSE "listening"
  /\ UNCHANGED <<stopped, mapVars, out, posted, histVars, told>>

\* AcceptConnection with an error: no more connections are accepted.  Unless
\* we stopped the server, OnWsDisconnect posts the user's callback.
OnWsDisconnect ==
  /\ acceptor = "failed"
  /\ acceptor' = "idle"
  /\ IF stopped THEN UNCHANGED posted ELSE Post(Event("serverDown", NoId, NoRequest))
  /\ UNCHANGED <<stopped, phase, closed, mapVars, out, histVars, told>>

-----------------------------------------------------------------------------
(* StompServer: what a session's callbacks do to the two maps *)

\* WebSocketSession::Close on a session the maps do not hold.
WsClose(s) ==
  /\ closed' = [closed EXCEPT ![s] = TRUE]
  /\ UNCHANGED <<mapVars, out>>

\* Faulty variant: sessions_ keeps the entry.
ForgetConnectionOnly(s) ==
  /\ connections' = [connections EXCEPT ![s] = NoConnection]
  /\ UNCHANGED sessions

Forget(s) ==
  /\ sessions' = [sessions EXCEPT ![connections[s].id] = NoSession]
  /\ connections' = [connections EXCEPT ![s] = NoConnection]

\* Faulty variant: the session is closed and stays in the maps.
CloseConnectionKeepsMaps(s, error) ==
  /\ UNCHANGED mapVars
  /\ out' = IF error = "kUndefinedError" THEN out
            ELSE [out EXCEPT ![s] = Append(@, MakeErrorFrame)]
  /\ closed' = [closed EXCEPT ![s] = TRUE]

CloseConnection(s, error) ==
  /\ Forget(s)
  /\ out' = IF error = "kUndefinedError" THEN out
            ELSE [out EXCEPT ![s] = Append(@, MakeErrorFrame)]
  /\ closed' = [closed EXCEPT ![s] = TRUE]

\* Faulty variant: the status is left at its default.
OnWsSessionConnectInvalid(s) ==
  \E id \in Ids \ used :
    /\ used' = used \cup {id}
    /\ sessions' = [sessions EXCEPT ![id] = s]
    /\ connections' = [connections EXCEPT ![s] = [id |-> id, status |-> "kInvalid"]]
    /\ UNCHANGED <<closed, out, posted, established, asked>>

\* A successful WebSocket handshake: a pending connection, with a fresh id.
OnWsSessionConnect(s) ==
  \E id \in Ids \ used :
    /\ used' = used \cup {id}
    /\ sessions' = [sessions EXCEPT ![id] = s]
    /\ connections' = [connections EXCEPT ![s] = [id |-> id, status |-> "kPending"]]
    /\ UNCHANGED <<closed, out, posted, established, asked>>

\* Faulty variant: the user is not told.
AcceptStompSilently(s) ==
  /\ connections' = [connections EXCEPT ![s].status = "kConnected"]
  /\ out' = [out EXCEPT ![s] = Append(@, ConnectedFrame(connections[s].id))]
  /\ established' = established \cup {connections[s].id}
  /\ UNCHANGED <<closed, sessions, used, asked, posted>>

\* "We are officially connected."
AcceptStomp(s) ==
  /\ connections' = [connections EXCEPT ![s].status = "kConnected"]
  /\ out' = [out EXCEPT ![s] = Append(@, ConnectedFrame(connections[s].id))]
  /\ Post(Event("connected", connections[s].id, NoRequest))
  /\ established' = established \cup {connections[s].id}
  /\ UNCHANGED <<closed, sessions, used, asked>>

HandleStomp(s, f) ==
  \/ /\ f.kind = "stompBadVersion"
     /\ CloseConnection(s, "kInvalidHeaderValueAcceptVersion")
     /\ UNCHANGED <<posted, histVars>>
  \/ /\ f.kind = "stompBadHost"
     /\ CloseConnection(s, "kInvalidHeaderValueHost")
     /\ UNCHANGED <<posted, histVars>>
  \/ /\ f.kind = "stomp"
     /\ connections[s].status # "kPending"
     /\ CloseConnection(s, "kClientCannotReconnect")
     /\ UNCHANGED <<posted, histVars>>
  \/ /\ f.kind = "stomp"
     /\ connections[s].status = "kPending"
     /\ AcceptStomp(s)

\* Faulty variant: messages of a pending client are handed on too.
HandleSendUnchecked(s, f) ==
  /\ f.kind = "send"
  /\ Len(asked[s]) < MaxRequests
  /\ Post(Event("message", connections[s].id, f.req))
  /\ asked' = [asked EXCEPT ![s] = Append(@, f.req)]
  /\ UNCHANGED <<closed, mapVars, out, used, established>>

HandleSend(s, f) ==
  /\ f.kind = "send"
  /\ \/ /\ connections[s].status # "kConnected"
        /\ CloseConnection(s, "kUndefinedError")
        /\ UNCHANGED <<posted, histVars>>
     \/ /\ connections[s].status = "kConnected"
        /\ Len(asked[s]) < MaxRequests
        /\ Post(Event("message", connections[s].id, f.req))
        /\ asked' = [asked EXCEPT ![s] = Append(@, f.req)]
        /\ UNCHANGED <<closed, mapVars, out, used, established>>

OnWsSessionMessage(s, f) ==
  \/ /\ connections[s] = NoConnection
     /\ WsClose(s)
     /\ UNCHANGED <<posted, histVars>>
  \/ /\ connections[s] # NoConnection
     /\ \/ /\ f.kind = "malformed"
           /\ CloseConnection(s, "kCouldNotParseFrame")
           /\ UNCHANGED <<posted, histVars>>
        \/ /\ f.kind = "unsupported"
           /\ CloseConnection(s, "kUnsupportedFrame")
           /\ UNCHANGED <<posted, histVars>>
        \/ HandleStomp(s, f)
        \/ HandleSend(s, f)

\* Faulty variant: the user also hears of clients that never connected.
OnWsSessionDisconnectAlways(s) ==
  \/ /\ connections[s] = NoConnection
     /\ UNCHANGED <<closed, mapVars, out, posted>>
  \/ /\ connections[s] # NoConnection
     /\ Forget(s)
     /\ Post(Event("disconnected", connections[s].id, NoRequest))
     /\ UNCHANGED <<closed, out>>

\* The user hears of it only if the STOMP connection had been established.
OnWsSessionDisconnect(s) ==
  \/ /\ connections[s] = NoConnection
     /\ UNCHANGED <<closed, mapVars, out, posted>>
  \/ /\ connections[s] # NoConnection
     /\ Forget(s)
     /\ IF connections[s].status = "kConnected"
        THEN Post(Event("disconnected", connections[s].id, NoRequest))
        ELSE UNCHANGED posted
     /\ UNCHANGED <<closed, out>>

-----------------------------------------------------------------------------
(* WebSocketSession: the chain of completion handlers of one session *)

Become(s, p) == phase' = [phase EXCEPT ![s] = p]

\* The dispatched OnConnect sets the handshake timeout and starts TLS.
OnConnect(s) ==
  /\ phase[s] = "created"
  /\ Become(s, "tls")
  /\ UNCHANGED <<acceptor, stopped, closed, mapVars, out, posted, histVars, told>>

OnTlsHandshake(s) ==
  /\ phase[s] = "tls"
  /\ Become(s, "handshake")
  /\ UNCHANGED <<acceptor, stopped, closed, mapVars, out, posted, histVars, told>>

OnHandshake(s) ==
  /\ phase[s] = "handshake"
  /\ Become(s, "open")
  /\ OnWsSessionConnect(s)
  /\ UNCHANGED <<acceptor, stopped, told>>

\* OnTlsHandshake or OnHandshake with an error, the 30-second timeout
\* included: onConnect_ reports it and OnWsSessionConnect closes the session.
HandshakeFails(s) ==
  /\ phase[s] \in {"tls", "handshake"}
  /\ Become(s, "ended")
  /\ WsClose(s)
  /\ UNCHANGED <<acceptor, stopped, posted, histVars, told>>

\* A message is read.  A session we closed still reads what the peer sent
\* before it answered our close frame.
OnRead(s, f) ==
  /\ phase[s] = "open"
  /\ OnWsSessionMessage(s, f)
  /\ UNCHANGED <<netVars, told>>

\* async_read fails with an error ListenToIncomingMessage does not stop on;
\* the next async_read on the failed stream is aborted.
ReadFails(s) ==
  /\ phase[s] = "open"
  /\ Become(s, "broken")
  /\ UNCHANGED <<acceptor, stopped, closed, mapVars, out, posted, histVars, told>>

\* ListenToIncomingMessage with error::closed or operation_aborted: the read
\* loop ends and, unless we closed the session, onDisconnect_ is called.
ReadEnds(s) ==
  /\ phase[s] \in {"open", "broken"}
  /\ Become(s, "ended")
  /\ IF closed[s] THEN UNCHANGED <<closed, mapVars, out, posted>>
                  ELSE OnWsSessionDisconnect(s)
  /\ UNCHANGED <<acceptor, stopped, histVars, told>>

Handlers(s) ==
  \/ OnConnect(s)
  \/ OnTlsHandshake(s)
  \/ OnHandshake(s)
  \/ HandshakeFails(s)
  \/ \E f \in ClientFrame : OnRead(s, f)
  \/ ReadFails(s)
  \/ ReadEnds(s)

-----------------------------------------------------------------------------
(* The methods of StompServer its user calls, on a connection id *)

Send(id, userRequestId) ==
  LET s == sessions[id] IN
  /\ \/ /\ s = NoSession
        /\ UNCHANGED <<closed, out>>
     \/ /\ s # NoSession
        /\ connections[s] = NoConnection
        /\ closed' = [closed EXCEPT ![s] = TRUE]
        /\ UNCHANGED out
     \/ /\ s # NoSession
        /\ connections[s].status = "kPending"
        /\ UNCHANGED <<closed, out>>
     \/ /\ s # NoSession
        /\ connections[s].status = "kConnected"
        /\ out' = [out EXCEPT ![s] = Append(@, SendFrame(userRequestId))]
        /\ UNCHANGED closed
  /\ UNCHANGED <<netVars, mapVars, histVars>>

Close(id) ==
  LET s == sessions[id] IN
  /\ \/ /\ s = NoSession
        /\ UNCHANGED <<closed, mapVars, out>>
     \/ /\ s # NoSession
        /\ connections[s] = NoConnection
        /\ WsClose(s)
     \/ /\ s # NoSession
        /\ connections[s] # NoConnection
        /\ CloseConnection(s, "kUndefinedError")
  /\ UNCHANGED <<netVars, histVars>>

\* Faulty variant: every session is closed and the maps are not cleared.
StopKeepsMaps ==
  /\ stopped' = TRUE
  /\ acceptor' = IF acceptor = "listening" THEN "failed" ELSE acceptor
  /\ closed' = [s \in Sessions |-> closed[s] \/ connections[s] # NoConnection]
  /\ UNCHANGED <<phase, mapVars, out, histVars>>

\* ws_.Stop() closes the acceptor, so an outstanding async_accept is aborted;
\* sessions that have not finished their handshake are not in the maps.
Stop ==
  /\ stopped' = TRUE
  /\ acceptor' = IF acceptor = "listening" THEN "failed" ELSE acceptor
  /\ closed' = [s \in Sessions |-> closed[s] \/ connections[s] # NoConnection]
  /\ connections' = [s \in Sessions |-> NoConnection]
  /\ sessions' = [id \in Ids |-> NoSession]
  /\ UNCHANGED <<phase, out, histVars>>

-----------------------------------------------------------------------------
(* The strand context_ and the user *)

\* context_ runs the oldest posted callback.
Deliver ==
  /\ posted # <<>>
  /\ posted' = Tail(posted)
  /\ told' = IF Head(posted).type = "serverDown" THEN told
             ELSE [told EXCEPT ![Head(posted).id] = Head(posted).type]

Known(t) == {id \in Ids : t[id] # "nothing"}

\* The most general user: any method, on any identifier a callback gave it.
UserOp(known) ==
  \/ \E id \in known, req \in Requests \cup {NoRequest} :
       /\ sessions[id] # NoSession => Len(out[sessions[id]]) < MaxFrames
       /\ Send(id, req)
  \/ \E id \in known : Close(id)
  \/ Stop

NoOp == UNCHANGED <<netVars, closed, mapVars, out, histVars>>

\* A callback runs and may call a method; or the user calls one elsewhere.
UserCallback == Deliver /\ (UserOp(Known(told')) \/ NoOp)
UserCall ==
  /\ acceptor # "unopened"
  /\ UserOp(Known(told))
  /\ UNCHANGED <<posted, told>>

Next ==
  \/ Run
  \/ AcceptCompletes
  \/ \E s \in Sessions : OnConnectionAccepted(s)
  \/ OnWsDisconnect
  \/ \E s \in Sessions : Handlers(s)
  \/ UserCallback
  \/ UserCall

Spec == Init /\ [][Next]_vars

-----------------------------------------------------------------------------
(* Properties *)

\* connections_ and sessions_ (stomp-server.h:412-425) are each other's inverse
\* in every state a handler can see: an id finds the session it was given to,
\* and no session is left in one map after it was erased from the other.
MapsInverse ==
  /\ \A s \in Sessions :
       connections[s] # NoConnection => sessions[connections[s].id] = s
  /\ \A id \in Ids :
       sessions[id] # NoSession => connections[sessions[id]].id = id

\* A session is in the maps only while its read loop runs and we have not
\* closed it: neither a dead stream nor a closed session is ever looked up
\* (OnWsSessionDisconnect, CloseConnection and Stop, stomp-server.h:373-593).
OnlyLiveSessionsMapped ==
  \A s \in Sessions :
    connections[s] # NoConnection => ~closed[s] /\ phase[s] \in {"open", "broken"}

\* What makes the two invariants above inductive: a session that is still in its
\* handshake has not been closed, and an id in the maps was generated before, so
\* that a fresh one overwrites no entry.
HandshakeNotClosed ==
  \A s \in Sessions : phase[s] \in {"created", "tls", "handshake"} => ~closed[s]
MappedIdsUsed == \A id \in Ids : sessions[id] # NoSession => id \in used

Maps ==
  /\ MapsInverse
  /\ OnlyLiveSessionsMapped
  /\ HandshakeNotClosed
  /\ MappedIdsUsed

Pending(type, id) ==
  \E k \in 1..Len(posted) : posted[k].type = type /\ posted[k].id = id

\* A connection the server treats as connected is one the user has heard of or
\* is about to (HandleStomp, stomp-server.h:630-665).
ConnectedAnnounced ==
  \A s \in Sessions :
    connections[s].status = "kConnected" =>
      \/ told[connections[s].id] \in {"connected", "message"}
      \/ Pending("connected", connections[s].id)

\* A client whose STOMP connection stands.
Live(id) ==
  \E s \in Sessions : connections[s] = [id |-> id, status |-> "kConnected"]

\* An identifier belongs to established exactly from the step that makes its
\* connection kConnected on, and only generated identifiers do.
StatusRecorded ==
  /\ established \subseteq used
  /\ \A s \in Sessions :
       /\ connections[s].status = "kConnected" => connections[s].id \in established
       /\ connections[s].status = "kPending" => connections[s].id \notin established

\* Every queued callback but onDisconnect_ of the server is about an established client.
QueuedEstablished ==
  \A k \in 1..Len(posted) :
    IF posted[k].type = "serverDown" THEN posted[k].id = NoId
                                     ELSE posted[k].id \in established

\* A client is announced at most once, and nobody was told of it before.
AnnouncedOnce ==
  \A k \in 1..Len(posted) :
    posted[k].type = "connected" =>
      /\ told[posted[k].id] = "nothing"
      /\ \A j \in 1..Len(posted) :
           posted[j].type = "connected" /\ posted[j].id = posted[k].id => j = k

\* The announcement is before everything else about the client.
AnnouncedFirst ==
  \A k \in 1..Len(posted) :
    posted[k].type \in {"message", "disconnected"} =>
      \/ told[posted[k].id] \in {"connected", "message"}
      \/ \E j \in 1..(k - 1) : posted[j].type = "connected" /\ posted[j].id = posted[k].id

\* The disconnection comes last, once the connection really is over.
DisconnectedLast ==
  \A k \in 1..Len(posted) :
    posted[k].type = "disconnected" =>
      /\ ~Live(posted[k].id)
      /\ \A j \in (k + 1)..Len(posted) : posted[j].id # posted[k].id

\* What the user has been told agrees with what happened and with what is queued.
ToldAgrees ==
  \A id \in Ids :
    /\ told[id] # "nothing" => id \in established
    /\ id \in established /\ told[id] = "nothing" => Pending("connected", id)
    /\ told[id] = "disconnected" =>
         ~Live(id) /\ \A k \in 1..Len(posted) : posted[k].id # id

\* The callbacks on context_ (stomp-server.h:518-570, 630-713), posted by handlers
\* of different strands, tell the user a story that fits what it has heard
\* already: the announcement of a client, its messages, its end.
CallbacksInOrder ==
  /\ StatusRecorded
  /\ QueuedEstablished
  /\ AnnouncedOnce
  /\ AnnouncedFirst
  /\ DisconnectedLast
  /\ ToldAgrees

\* After WebSocketSession::Close no frame is given to that session: nothing is
\* written behind the close frame, whoever closed the session and whatever
\* callbacks are still queued (Send and CloseConnection, stomp-server.h:228-593).
NoFrameAfterClose ==
  [][\A s \in Sessions : closed[s] => out'[s] = out[s]]_vars

stompState ==
  [id \in Ids |-> IF Live(id) THEN "live" ELSE IF id \in established THEN "over" ELSE "never"]

Lifecycle == INSTANCE ClientLifecycle WITH stomp <- stompState

\* The callback contract of Run (stomp-server.h:139-163): the user sees only
\* established clients, each announced once, then its messages, then at most one
\* disconnection of a connection that really ended, and nothing afterwards.
LifecycleSpec == Lifecycle!Spec

\* StompServer::Stop promises to stop the server "synchronously, with immediate
\* effect" (stomp-server.h:367): no client completes its STOMP handshake with a
\* server that has been stopped.
StoppedServerTakesNoClient ==
  [][stopped => established' = established]_vars
=============================================================================
