------------------------- MODULE StompServerProofs -------------------------
(***************************************************************************)
(* Theorems about StompServer, for any sets of sessions, identifiers and   *)
(* requests and any bounds.                                                *)
(***************************************************************************)
EXTENDS StompServer, TLAPS

USE NullAssumption, BoundAssumption

(* Types *)

\* The value for "not in connections_" is no connection.
LEMMA NoConnectionNotConnection == NoConnection \notin Connection
  BY DEF NoConnection, Connection

\* Initially no connection exists and nothing is queued.
LEMMA InitTypeOK == Init => TypeOK
  <1> SUFFICES ASSUME Init PROVE TypeOK
    OBVIOUS
  <1>1. <<>> \in Seq(ServerFrame) /\ <<>> \in Seq(Callback) /\ <<>> \in Seq(Requests)
    OBVIOUS
  <1>2. out \in [Sessions -> Seq(ServerFrame)] /\ posted \in Seq(Callback)
          /\ asked \in [Sessions -> Seq(Requests)]
    BY <1>1 DEF Init
  <1>3. acceptor \in Acceptors /\ phase \in [Sessions -> Phases]
    BY DEF Init, Acceptors, Phases
  <1>4. connections \in [Sessions -> Connection \cup {NoConnection}]
    BY DEF Init
  <1> QED
    BY <1>2, <1>3, <1>4 DEF Init, TypeOK

\* The frames the server builds are server frames.
LEMMA FrameTypes ==
  /\ \A id \in Ids : ConnectedFrame(id) \in ServerFrame
  /\ MakeErrorFrame \in ServerFrame
  /\ \A req \in Requests \cup {NoRequest} : SendFrame(req) \in ServerFrame
  BY DEF ConnectedFrame, MakeErrorFrame, SendFrame, ServerFrame

\* The callbacks the server posts are callbacks.
LEMMA EventTypes ==
  /\ \A id \in Ids, type \in {"connected", "disconnected"} :
       Event(type, id, NoRequest) \in Callback
  /\ \A id \in Ids, req \in Requests : Event("message", id, req) \in Callback
  /\ Event("serverDown", NoId, NoRequest) \in Callback
  BY DEF Event, Callback

\* A handler posts one callback or none.
LEMMA PostTypeOK ==
  ASSUME TypeOK, NEW e \in Callback, posted' = posted \/ posted' = Append(posted, e)
  PROVE  posted' \in Seq(Callback)
  <1>1. posted \in Seq(Callback)
    BY DEF TypeOK
  <1>2. Append(posted, e) \in Seq(Callback)
    BY <1>1
  <1> QED
    BY <1>1, <1>2

\* What connections_ holds for a session it has.
LEMMA ConnectionFacts ==
  ASSUME TypeOK, NEW s \in Sessions, connections[s] # NoConnection
  PROVE  /\ connections[s] \in Connection
         /\ connections[s].id \in Ids
         /\ connections[s].status \in {"kPending", "kConnected"}
  BY DEF TypeOK, Connection

\* Erasing a session keeps the types of the two maps.
LEMMA ForgetTypeOK ==
  ASSUME TypeOK, NEW s \in Sessions, Forget(s)
  PROVE  /\ connections' \in [Sessions -> Connection \cup {NoConnection}]
         /\ sessions' \in [Ids -> Sessions \cup {NoSession}]
  BY DEF TypeOK, Forget

\* CloseConnection keeps the types of what it changes (stomp-server.h:572-593).
LEMMA CloseConnectionTypeOK ==
  ASSUME TypeOK, NEW s \in Sessions, NEW error, CloseConnection(s, error)
  PROVE  /\ connections' \in [Sessions -> Connection \cup {NoConnection}]
         /\ sessions' \in [Ids -> Sessions \cup {NoSession}]
         /\ out' \in [Sessions -> Seq(ServerFrame)]
         /\ closed' \in [Sessions -> BOOLEAN]
  <1>1. CASE error = "kUndefinedError"
    BY <1>1, ForgetTypeOK DEF TypeOK, CloseConnection
  <1>2. CASE error # "kUndefinedError"
    BY <1>2, ForgetTypeOK, FrameTypes DEF TypeOK, CloseConnection
  <1> QED BY <1>1, <1>2

\* The WebSocketServer's own handlers.
LEMMA AcceptorTypeOK ==
  ASSUME TypeOK,
         Run \/ AcceptCompletes \/ OnWsDisconnect
           \/ \E s \in Sessions : OnConnectionAccepted(s)
  PROVE  TypeOK'
  <1>1. CASE Run
    BY <1>1 DEF TypeOK, Run, Acceptors, mapVars, histVars
  <1>2. CASE AcceptCompletes
    BY <1>2 DEF TypeOK, AcceptCompletes, Acceptors, mapVars, histVars
  <1>3. CASE OnWsDisconnect
    <2>1. posted' = posted \/ posted' = Append(posted, Event("serverDown", NoId, NoRequest))
      BY <1>3 DEF OnWsDisconnect, Post
    <2>2. posted' \in Seq(Callback)
      BY <2>1, PostTypeOK, EventTypes
    <2> QED
      BY <1>3, <2>2 DEF TypeOK, OnWsDisconnect, Acceptors, mapVars, histVars
  <1>4. CASE \E s \in Sessions : OnConnectionAccepted(s)
    BY <1>4 DEF TypeOK, OnConnectionAccepted, Acceptors, Phases, mapVars, histVars
  <1> QED
    BY <1>1, <1>2, <1>3, <1>4

\* A message from a session (OnWsSessionMessage).
LEMMA MessageTypeOK ==
  ASSUME TypeOK, NEW s \in Sessions, NEW f \in ClientFrame, OnRead(s, f)
  PROVE  TypeOK'
  <1> USE DEF OnRead, netVars, mapVars, histVars
  <1>1. CASE connections[s] = NoConnection /\ WsClose(s) /\ UNCHANGED <<posted, histVars>>
    BY <1>1 DEF TypeOK, WsClose
  <1>2. ASSUME NEW error, CloseConnection(s, error), UNCHANGED <<posted, histVars>>
        PROVE  TypeOK'
    BY <1>2, CloseConnectionTypeOK DEF TypeOK
  <1>3. CASE connections[s] # NoConnection /\ AcceptStomp(s)
    <2>1. connections[s] \in Connection /\ connections[s].id \in Ids
      BY <1>3, ConnectionFacts
    <2>2. connections' \in [Sessions -> Connection \cup {NoConnection}]
      BY <1>3, <2>1 DEF TypeOK, AcceptStomp, Connection
    <2>3. out' \in [Sessions -> Seq(ServerFrame)]
      BY <1>3, <2>1, FrameTypes DEF TypeOK, AcceptStomp
    <2>4. posted' \in Seq(Callback)
      BY <1>3, <2>1, EventTypes DEF TypeOK, AcceptStomp, Post
    <2> QED
      BY <1>3, <2>1, <2>2, <2>3, <2>4 DEF TypeOK, AcceptStomp
  <1>4. CASE /\ connections[s] # NoConnection
             /\ f.kind = "send"
             /\ Post(Event("message", connections[s].id, f.req))
             /\ asked' = [asked EXCEPT ![s] = Append(@, f.req)]
             /\ UNCHANGED <<closed, mapVars, out, used, established>>
    <2>1. connections[s].id \in Ids /\ f.req \in Requests
      BY <1>4, ConnectionFacts DEF ClientFrame
    <2>2. posted' \in Seq(Callback)
      BY <1>4, <2>1, EventTypes DEF TypeOK, Post
    <2> QED
      BY <1>4, <2>1, <2>2 DEF TypeOK
  <1> QED
    BY <1>1, <1>2, <1>3, <1>4 DEF OnWsSessionMessage, HandleStomp, HandleSend

\* The other handlers of a session.
LEMMA SessionTypeOK ==
  ASSUME TypeOK, NEW s \in Sessions,
         OnConnect(s) \/ OnTlsHandshake(s) \/ OnHandshake(s) \/ HandshakeFails(s)
           \/ ReadFails(s) \/ ReadEnds(s)
  PROVE  TypeOK'
  <1> USE DEF netVars, mapVars, histVars, Become
  <1>1. CASE OnConnect(s)
    BY <1>1 DEF TypeOK, OnConnect, Phases
  <1>2. CASE OnTlsHandshake(s)
    BY <1>2 DEF TypeOK, OnTlsHandshake, Phases
  <1>3. CASE OnHandshake(s)
    <2>1. PICK id \in Ids \ used :
            /\ used' = used \cup {id}
            /\ sessions' = [sessions EXCEPT ![id] = s]
            /\ connections' = [connections EXCEPT ![s] = [id |-> id, status |-> "kPending"]]
            /\ UNCHANGED <<closed, out, posted, established, asked>>
      BY <1>3 DEF OnHandshake, OnWsSessionConnect
    <2>2. connections' \in [Sessions -> Connection \cup {NoConnection}]
      BY <2>1 DEF TypeOK, Connection
    <2>3. phase' \in [Sessions -> Phases]
      BY <1>3 DEF TypeOK, OnHandshake, Phases
    <2> QED
      BY <1>3, <2>1, <2>2, <2>3 DEF TypeOK, OnHandshake
  <1>4. CASE HandshakeFails(s)
    BY <1>4 DEF TypeOK, HandshakeFails, WsClose, Phases
  <1>5. CASE ReadFails(s)
    BY <1>5 DEF TypeOK, ReadFails, Phases
  <1>6. CASE ReadEnds(s)
    <2>1. phase' \in [Sessions -> Phases]
      BY <1>6 DEF TypeOK, ReadEnds, Phases
    <2>2. CASE closed[s] \/ connections[s] = NoConnection
      <3>1. UNCHANGED <<closed, mapVars, out, posted>>
        BY <1>6, <2>2, NoConnectionNotConnection DEF ReadEnds, OnWsSessionDisconnect
      <3> QED
        BY <1>6, <2>1, <3>1 DEF TypeOK, ReadEnds
    <2>3. CASE ~closed[s] /\ connections[s] # NoConnection
      <3>1. Forget(s) /\ UNCHANGED <<closed, out>>
        BY <1>6, <2>3 DEF ReadEnds, OnWsSessionDisconnect
      <3>2. \/ posted' = posted
            \/ posted' = Append(posted, Event("disconnected", connections[s].id, NoRequest))
        BY <1>6, <2>3 DEF ReadEnds, OnWsSessionDisconnect, Post
      <3>3. Event("disconnected", connections[s].id, NoRequest) \in Callback
        BY <2>3, ConnectionFacts, EventTypes
      <3>4. posted' \in Seq(Callback)
        BY <3>2, <3>3, PostTypeOK
      <3> QED
        BY <1>6, <2>1, <3>1, <3>4, ForgetTypeOK DEF TypeOK, ReadEnds
    <2> QED
      BY <2>2, <2>3
  <1> QED
    BY <1>1, <1>2, <1>3, <1>4, <1>5, <1>6

\* The methods the user calls.
LEMMA SendTypeOK ==
  ASSUME TypeOK, NEW id \in Ids, NEW req \in Requests \cup {NoRequest}, Send(id, req),
         posted' \in Seq(Callback),
         told' \in [Ids -> {"nothing", "connected", "message", "disconnected"}]
  PROVE  TypeOK'
  <1> USE DEF netVars, mapVars, histVars
  <1> DEFINE s == sessions[id]
  <1>1. s \in Sessions \cup {NoSession}
    BY DEF TypeOK
  <1>2. CASE UNCHANGED <<closed, out>>
    BY <1>2 DEF TypeOK, Send
  <1>3. CASE s # NoSession /\ closed' = [closed EXCEPT ![s] = TRUE] /\ UNCHANGED out
    BY <1>1, <1>3 DEF TypeOK, Send
  <1>4. CASE /\ s # NoSession
             /\ out' = [out EXCEPT ![s] = Append(@, SendFrame(req))]
             /\ UNCHANGED closed
    <2>1. out' \in [Sessions -> Seq(ServerFrame)]
      BY <1>1, <1>4, FrameTypes DEF TypeOK
    <2> QED
      BY <1>4, <2>1 DEF TypeOK, Send
  <1> QED
    BY <1>2, <1>3, <1>4 DEF Send

\* StompServer::Close.
LEMMA CloseTypeOK ==
  ASSUME TypeOK, NEW id \in Ids, Close(id),
         posted' \in Seq(Callback),
         told' \in [Ids -> {"nothing", "connected", "message", "disconnected"}]
  PROVE  TypeOK'
  <1> USE DEF netVars, mapVars, histVars
  <1> DEFINE s == sessions[id]
  <1>1. s \in Sessions \cup {NoSession}
    BY DEF TypeOK
  <1>2. CASE UNCHANGED <<closed, mapVars, out>>
    BY <1>2 DEF TypeOK, Close
  <1>3. CASE s # NoSession /\ WsClose(s)
    BY <1>1, <1>3 DEF TypeOK, Close, WsClose
  <1>4. CASE s # NoSession /\ CloseConnection(s, "kUndefinedError")
    <2>1. s \in Sessions
      BY <1>1, <1>4
    <2>2. /\ connections' \in [Sessions -> Connection \cup {NoConnection}]
          /\ sessions' \in [Ids -> Sessions \cup {NoSession}]
          /\ out' \in [Sessions -> Seq(ServerFrame)]
          /\ closed' \in [Sessions -> BOOLEAN]
      BY <1>4, <2>1, CloseConnectionTypeOK
    <2> QED
      BY <2>2 DEF TypeOK, Close
  <1> QED
    BY <1>2, <1>3, <1>4 DEF Close

\* StompServer::Stop.
LEMMA StopTypeOK ==
  ASSUME TypeOK, Stop,
         posted' \in Seq(Callback),
         told' \in [Ids -> {"nothing", "connected", "message", "disconnected"}]
  PROVE  TypeOK'
  BY DEF TypeOK, Stop, Acceptors, histVars

\* Running the oldest callback of context_.
LEMMA DeliverTypeOK ==
  ASSUME TypeOK, Deliver
  PROVE  /\ posted' \in Seq(Callback)
         /\ told' \in [Ids -> {"nothing", "connected", "message", "disconnected"}]
  <1>1. Head(posted) \in Callback /\ Tail(posted) \in Seq(Callback)
    BY DEF TypeOK, Deliver
  <1>2. Head(posted).type \in {"connected", "message", "disconnected", "serverDown"}
    BY <1>1 DEF Callback
  <1> QED
    BY <1>1, <1>2 DEF TypeOK, Deliver

\* A callback of the user, with the method it calls, and a call from elsewhere.
LEMMA UserTypeOK ==
  ASSUME TypeOK, UserCallback \/ UserCall
  PROVE  TypeOK'
  <1>1. /\ posted' \in Seq(Callback)
        /\ told' \in [Ids -> {"nothing", "connected", "message", "disconnected"}]
    BY DeliverTypeOK DEF TypeOK, UserCallback, UserCall
  <1>2. ASSUME NEW known \in SUBSET Ids, UserOp(known)
        PROVE  TypeOK'
    BY <1>1, <1>2, SendTypeOK, CloseTypeOK, StopTypeOK DEF UserOp
  <1>3. CASE NoOp
    BY <1>1, <1>3 DEF TypeOK, NoOp, netVars, mapVars, histVars
  <1> QED
    BY <1>2, <1>3 DEF UserCallback, UserCall, Known

\* Every step keeps the types.
LEMMA NextTypeOK == TypeOK /\ [Next]_vars => TypeOK'
  <1> SUFFICES ASSUME TypeOK, [Next]_vars PROVE TypeOK'
    OBVIOUS
  <1>1. CASE UNCHANGED vars
    BY <1>1 DEF TypeOK, vars
  <1>2. CASE Next
    BY <1>2, AcceptorTypeOK, MessageTypeOK, SessionTypeOK, UserTypeOK DEF Next, Handlers
  <1> QED
    BY <1>1, <1>2

\* Every reachable state has the types the code declares (stomp-server.h:385-425).
THEOREM TypeCorrect == Spec => []TypeOK
  BY InitTypeOK, NextTypeOK, PTL DEF Spec

-----------------------------------------------------------------------------
(* The two maps *)

\* Initially both maps are empty.
LEMMA InitMaps == Init => Maps
  BY DEF Init, Maps, MapsInverse, OnlyLiveSessionsMapped, HandshakeNotClosed,
         MappedIdsUsed, NoConnection

\* Steps that leave the maps and every closed_ alone, and move no session of the
\* maps out of its read loop.
LEMMA MapsFrame ==
  ASSUME Maps, UNCHANGED <<closed, connections, sessions>>,
         used \subseteq used',
         \A s \in Sessions : connections[s] # NoConnection => phase'[s] \in {"open", "broken"},
         \A s \in Sessions : phase'[s] \in {"created", "tls", "handshake"} => ~closed[s]
  PROVE  Maps'
  BY DEF Maps, MapsInverse, OnlyLiveSessionsMapped, HandshakeNotClosed, MappedIdsUsed

\* Erasing a session from both maps keeps them inverse: no other id leads to it.
LEMMA ForgetMaps ==
  ASSUME TypeOK, Maps, NEW s \in Sessions, connections[s] # NoConnection, Forget(s),
         UNCHANGED used,
         \A t \in Sessions \ {s} : closed'[t] = closed[t] /\ phase'[t] = phase[t],
         phase'[s] \notin {"created", "tls", "handshake"}
  PROVE  Maps'
  <1> DEFINE i == connections[s].id
  <1>1. i \in Ids /\ sessions[i] = s
    BY ConnectionFacts DEF Maps, MapsInverse
  <1>2. /\ connections'[s] = NoConnection
        /\ \A t \in Sessions \ {s} : connections'[t] = connections[t]
    BY DEF Forget, TypeOK
  <1>3. /\ sessions'[i] = NoSession
        /\ \A id \in Ids \ {i} : sessions'[id] = sessions[id]
    BY <1>1 DEF Forget, TypeOK
  <1>4. \A t \in Sessions \ {s} : connections[t] # NoConnection => connections[t].id # i
    BY <1>1 DEF Maps, MapsInverse
  <1>5. \A id \in Ids \ {i} : sessions[id] # s
    BY <1>1 DEF Maps, MapsInverse
  <1>6. MapsInverse'
    <2>1. ASSUME NEW t \in Sessions, connections'[t] # NoConnection
          PROVE  sessions'[connections'[t].id] = t
      <3>1. t # s /\ connections[t] # NoConnection
        BY <1>2, <2>1
      <3>2. connections[t].id \in Ids \ {i}
        BY <3>1, <1>4, ConnectionFacts
      <3> QED
        BY <3>1, <3>2, <1>2, <1>3 DEF Maps, MapsInverse
    <2>2. ASSUME NEW id \in Ids, sessions'[id] # NoSession
          PROVE  connections'[sessions'[id]].id = id
      <3>1. id # i /\ sessions'[id] = sessions[id]
        BY <1>3, <2>2
      <3>2. sessions[id] \in Sessions \ {s}
        BY <3>1, <1>5, <2>2 DEF TypeOK
      <3> QED
        BY <3>1, <3>2, <1>2, <2>2 DEF Maps, MapsInverse
    <2> QED
      BY <2>1, <2>2 DEF MapsInverse
  <1>7. OnlyLiveSessionsMapped'
    BY <1>2 DEF Maps, OnlyLiveSessionsMapped
  <1>8. HandshakeNotClosed'
    BY DEF Maps, HandshakeNotClosed
  <1>9. MappedIdsUsed'
    BY <1>3 DEF Maps, MappedIdsUsed
  <1> QED
    BY <1>6, <1>7, <1>8, <1>9 DEF Maps

\* CloseConnection erases the session it closes (stomp-server.h:572-593).
LEMMA CloseConnectionMaps ==
  ASSUME TypeOK, Maps, NEW s \in Sessions, connections[s] # NoConnection,
         NEW error, CloseConnection(s, error), UNCHANGED <<phase, used>>
  PROVE  Maps'
  <1>1. Forget(s)
    BY DEF CloseConnection
  <1>2. phase'[s] \notin {"created", "tls", "handshake"}
    BY DEF Maps, OnlyLiveSessionsMapped
  <1>3. \A t \in Sessions \ {s} : closed'[t] = closed[t] /\ phase'[t] = phase[t]
    BY DEF CloseConnection, TypeOK
  <1> QED
    BY <1>1, <1>2, <1>3, ForgetMaps

\* Closing a session the maps do not hold, once its handshake is over.
LEMMA WsCloseMaps ==
  ASSUME TypeOK, Maps, NEW s \in Sessions, connections[s] = NoConnection, WsClose(s),
         UNCHANGED used,
         \A t \in Sessions \ {s} : phase'[t] = phase[t],
         phase'[s] \notin {"created", "tls", "handshake"}
  PROVE  Maps'
  <1>1. \A t \in Sessions \ {s} : closed'[t] = closed[t]
    BY DEF WsClose, TypeOK
  <1> QED
    BY <1>1 DEF WsClose, mapVars, Maps, MapsInverse, OnlyLiveSessionsMapped,
                HandshakeNotClosed, MappedIdsUsed

\* The WebSocketServer's own handlers do not touch the maps.
LEMMA AcceptorMaps ==
  ASSUME TypeOK, Maps,
         Run \/ AcceptCompletes \/ OnWsDisconnect
           \/ \E s \in Sessions : OnConnectionAccepted(s)
  PROVE  Maps'
  <1>1. CASE Run \/ AcceptCompletes \/ OnWsDisconnect
    <2>1. UNCHANGED <<phase, closed, connections, sessions, used>>
      BY <1>1 DEF Run, AcceptCompletes, OnWsDisconnect, mapVars, histVars
    <2> QED
      BY <2>1, MapsFrame DEF Maps, OnlyLiveSessionsMapped, HandshakeNotClosed
  <1>2. ASSUME NEW s \in Sessions, OnConnectionAccepted(s)
        PROVE  Maps'
    <2>1. UNCHANGED <<connections, sessions, used>>
      BY <1>2 DEF OnConnectionAccepted, mapVars, histVars
    <2>2. /\ connections[s] = NoConnection
          /\ ~closed'[s]
          /\ \A t \in Sessions \ {s} : closed'[t] = closed[t] /\ phase'[t] = phase[t]
      BY <1>2 DEF OnConnectionAccepted, TypeOK, Maps, OnlyLiveSessionsMapped
    <2> QED
      BY <2>1, <2>2 DEF Maps, MapsInverse, OnlyLiveSessionsMapped, HandshakeNotClosed,
                        MappedIdsUsed
  <1> QED
    BY <1>1, <1>2

\* A message from a session (OnWsSessionMessage, stomp-server.h:457-516).
LEMMA MessageMaps ==
  ASSUME TypeOK, Maps, NEW s \in Sessions, NEW f \in ClientFrame, OnRead(s, f)
  PROVE  Maps'
  <1>1. phase[s] = "open" /\ UNCHANGED phase
    BY DEF OnRead, netVars
  <1>2. CASE connections[s] = NoConnection /\ WsClose(s) /\ UNCHANGED <<posted, histVars>>
    BY <1>1, <1>2, WsCloseMaps DEF histVars
  <1>3. ASSUME NEW error, connections[s] # NoConnection, CloseConnection(s, error),
               UNCHANGED <<posted, histVars>>
        PROVE  Maps'
    BY <1>1, <1>3, CloseConnectionMaps DEF histVars
  <1>4. CASE connections[s] # NoConnection /\ AcceptStomp(s)
    <2>1. /\ connections'[s] # NoConnection
          /\ connections'[s].id = connections[s].id
          /\ \A t \in Sessions \ {s} : connections'[t] = connections[t]
      BY <1>4, ConnectionFacts DEF AcceptStomp, TypeOK, NoConnection, Connection
    <2>2. UNCHANGED <<closed, sessions, used, phase>>
      BY <1>1, <1>4 DEF AcceptStomp
    <2>3. MapsInverse'
      BY <1>4, <2>1, <2>2 DEF Maps, MapsInverse, TypeOK
    <2> QED
      BY <1>4, <2>1, <2>2, <2>3
         DEF Maps, OnlyLiveSessionsMapped, HandshakeNotClosed, MappedIdsUsed
  <1>5. CASE UNCHANGED <<closed, mapVars, out, used, established>>
    BY <1>1, <1>5, MapsFrame DEF mapVars, Maps, OnlyLiveSessionsMapped, HandshakeNotClosed
  <1> QED
    BY <1>2, <1>3, <1>4, <1>5 DEF OnRead, OnWsSessionMessage, HandleStomp, HandleSend

\* The other handlers of a session: a fresh id enters the maps, a dead session leaves.
LEMMA SessionMaps ==
  ASSUME TypeOK, Maps, NEW s \in Sessions,
         OnConnect(s) \/ OnTlsHandshake(s) \/ OnHandshake(s) \/ HandshakeFails(s)
           \/ ReadFails(s) \/ ReadEnds(s)
  PROVE  Maps'
  <1> USE DEF mapVars, histVars, Become
  <1>1. CASE OnConnect(s) \/ OnTlsHandshake(s) \/ ReadFails(s)
    <2>1. UNCHANGED <<closed, connections, sessions, used>>
      BY <1>1 DEF OnConnect, OnTlsHandshake, ReadFails
    <2>2. /\ \A t \in Sessions \ {s} : phase'[t] = phase[t]
          /\ \/ phase[s] \in {"created", "tls"} /\ phase'[s] \in {"tls", "handshake"}
             \/ phase[s] = "open" /\ phase'[s] = "broken"
      BY <1>1 DEF OnConnect, OnTlsHandshake, ReadFails, TypeOK
    <2> QED
      BY <2>1, <2>2, MapsFrame DEF Maps, OnlyLiveSessionsMapped, HandshakeNotClosed
  <1>2. CASE OnHandshake(s)
    <2>1. PICK id \in Ids \ used :
            /\ used' = used \cup {id}
            /\ sessions' = [sessions EXCEPT ![id] = s]
            /\ connections' = [connections EXCEPT ![s] = [id |-> id, status |-> "kPending"]]
            /\ UNCHANGED <<closed, out, posted, established, asked>>
      BY <1>2 DEF OnHandshake, OnWsSessionConnect
    <2>2. /\ phase[s] = "handshake" /\ phase'[s] = "open"
          /\ \A t \in Sessions \ {s} : phase'[t] = phase[t]
      BY <1>2 DEF OnHandshake, TypeOK
    <2>3. connections[s] = NoConnection /\ ~closed[s] /\ sessions[id] = NoSession
      BY <2>1, <2>2 DEF Maps, OnlyLiveSessionsMapped, HandshakeNotClosed, MappedIdsUsed
    <2>4. /\ connections'[s] = [id |-> id, status |-> "kPending"]
          /\ sessions'[id] = s
          /\ \A t \in Sessions \ {s} : connections'[t] = connections[t]
          /\ \A j \in Ids \ {id} : sessions'[j] = sessions[j]
      BY <2>1 DEF TypeOK
    <2>5. \A t \in Sessions \ {s} : connections[t] # NoConnection => connections[t].id # id
      BY <2>3 DEF Maps, MapsInverse
    <2>6. \A j \in Ids : sessions[j] # s
      BY <2>3 DEF Maps, MapsInverse, NoConnection
    <2>7. MapsInverse'
      <3>1. ASSUME NEW t \in Sessions, connections'[t] # NoConnection
            PROVE  sessions'[connections'[t].id] = t
        BY <2>4, <2>5, <3>1, ConnectionFacts DEF Maps, MapsInverse
      <3>2. ASSUME NEW j \in Ids, sessions'[j] # NoSession
            PROVE  connections'[sessions'[j]].id = j
        <4>1. CASE j = id
          BY <2>4, <4>1
        <4>2. CASE j # id
          <5>1. sessions'[j] = sessions[j] /\ sessions[j] \in Sessions \ {s}
            BY <2>4, <2>6, <3>2, <4>2 DEF TypeOK
          <5> QED
            BY <2>4, <3>2, <5>1 DEF Maps, MapsInverse
        <4> QED
          BY <4>1, <4>2
      <3> QED
        BY <3>1, <3>2 DEF MapsInverse
    <2> QED
      BY <2>1, <2>2, <2>3, <2>4, <2>7
         DEF Maps, OnlyLiveSessionsMapped, HandshakeNotClosed, MappedIdsUsed
  <1>3. CASE HandshakeFails(s)
    <2>1. /\ connections[s] = NoConnection
          /\ phase'[s] = "ended"
          /\ \A t \in Sessions \ {s} : phase'[t] = phase[t]
      BY <1>3 DEF HandshakeFails, TypeOK, Maps, OnlyLiveSessionsMapped
    <2> QED
      BY <1>3, <2>1, WsCloseMaps DEF HandshakeFails
  <1>4. CASE ReadEnds(s)
    <2>1. /\ phase'[s] = "ended"
          /\ \A t \in Sessions \ {s} : phase'[t] = phase[t]
          /\ UNCHANGED used
      BY <1>4 DEF ReadEnds, TypeOK
    <2>2. CASE connections[s] = NoConnection
      <3>1. UNCHANGED <<closed, connections, sessions>>
        BY <1>4, <2>2 DEF ReadEnds, OnWsSessionDisconnect
      <3> QED
        BY <2>1, <2>2, <3>1, MapsFrame DEF Maps, OnlyLiveSessionsMapped, HandshakeNotClosed
    <2>3. CASE connections[s] # NoConnection
      <3>1. Forget(s) /\ UNCHANGED closed
        BY <1>4, <2>3 DEF ReadEnds, OnWsSessionDisconnect, Maps, OnlyLiveSessionsMapped
      <3> QED
        BY <2>1, <2>3, <3>1, ForgetMaps
    <2> QED
      BY <2>2, <2>3
  <1> QED
    BY <1>1, <1>2, <1>3, <1>4

\* The branch of Send and of Close for an id whose session is not in
\* connections_ (stomp-server.h:244-252, 324-344) is never taken.
LEMMA MappedIdHasConnection ==
  ASSUME TypeOK, Maps, NEW id \in Ids, sessions[id] # NoSession
  PROVE  /\ sessions[id] \in Sessions
         /\ connections[sessions[id]] # NoConnection
  BY DEF TypeOK, Maps, MapsInverse, NoConnection

\* The methods the user calls: Send, Close and Stop.
LEMMA UserOpMaps ==
  ASSUME TypeOK, Maps, NEW known \in SUBSET Ids, UserOp(known)
  PROVE  Maps'
  <1>1. ASSUME NEW id \in Ids, NEW req, Send(id, req)
        PROVE  Maps'
    <2>1. UNCHANGED <<phase, closed, connections, sessions, used>>
      BY <1>1, MappedIdHasConnection DEF Send, netVars, mapVars, histVars
    <2> QED
      BY <2>1, MapsFrame DEF Maps, OnlyLiveSessionsMapped, HandshakeNotClosed
  <1>2. ASSUME NEW id \in Ids, Close(id)
        PROVE  Maps'
    <2>1. UNCHANGED <<phase, used>>
      BY <1>2 DEF Close, netVars, histVars
    <2>2. CASE sessions[id] = NoSession
      <3>1. UNCHANGED <<closed, connections, sessions>>
        BY <1>2, <2>2 DEF Close, mapVars
      <3> QED
        BY <2>1, <3>1, MapsFrame DEF Maps, OnlyLiveSessionsMapped, HandshakeNotClosed
    <2>3. CASE sessions[id] # NoSession
      <3>1. CloseConnection(sessions[id], "kUndefinedError")
        BY <1>2, <2>3, MappedIdHasConnection DEF Close
      <3> QED
        BY <2>1, <2>3, <3>1, MappedIdHasConnection, CloseConnectionMaps
    <2> QED
      BY <2>2, <2>3
  <1>3. CASE Stop
    <2>1. \A s \in Sessions :
            phase[s] \in {"created", "tls", "handshake"} => connections[s] = NoConnection
      BY DEF Maps, OnlyLiveSessionsMapped
    <2> QED
      BY <1>3, <2>1 DEF Stop, histVars, Maps, MapsInverse, OnlyLiveSessionsMapped,
                        HandshakeNotClosed, MappedIdsUsed
  <1> QED
    BY <1>1, <1>2, <1>3 DEF UserOp

\* Every step keeps the maps consistent.
LEMMA NextMaps == TypeOK /\ Maps /\ [Next]_vars => Maps'
  <1> SUFFICES ASSUME TypeOK, Maps, [Next]_vars PROVE Maps'
    OBVIOUS
  <1>1. CASE UNCHANGED <<phase, closed, connections, sessions, used>>
    BY <1>1, MapsFrame DEF Maps, OnlyLiveSessionsMapped, HandshakeNotClosed
  <1>2. CASE UserCallback \/ UserCall
    BY <1>1, <1>2, UserOpMaps
       DEF UserCallback, UserCall, Known, NoOp, netVars, mapVars, histVars
  <1>3. CASE Next
    BY <1>2, <1>3, AcceptorMaps, MessageMaps, SessionMaps DEF Next, Handlers
  <1> QED
    BY <1>1, <1>3 DEF vars

\* The invariant that carries the two theorems below: the maps, the closed_ flags
\* and the phases of the sessions agree after every handler and method.
THEOREM MapsInvariant == Spec => []Maps
  <1>1. Init => TypeOK /\ Maps
    BY InitTypeOK, InitMaps
  <1>2. TypeOK /\ Maps /\ [Next]_vars => (TypeOK /\ Maps)'
    BY NextTypeOK, NextMaps
  <1> QED
    BY <1>1, <1>2, PTL DEF Spec

\* connections_ and sessions_ are each other's inverse in every reachable state.
THEOREM MapsInverseHolds == Spec => []MapsInverse
  BY MapsInvariant, PTL DEF Maps

\* Neither a dead nor a closed session is in the maps.
THEOREM OnlyLiveSessionsMappedHolds == Spec => []OnlyLiveSessionsMapped
  BY MapsInvariant, PTL DEF Maps

-----------------------------------------------------------------------------
(* Nothing is written behind a close frame *)

\* The frames of every session we have closed stay as they are.
ClosedSilent == \A s \in Sessions : closed[s] => out'[s] = out[s]

\* A frame for a session the maps hold is a frame for a session not yet closed.
LEMMA MappedFrame ==
  ASSUME TypeOK, Maps, NEW s \in Sessions, connections[s] # NoConnection, NEW frame,
         out' = out \/ out' = [out EXCEPT ![s] = Append(@, frame)]
  PROVE  ClosedSilent
  <1>1. ~closed[s]
    BY DEF Maps, OnlyLiveSessionsMapped
  <1> QED
    BY <1>1 DEF ClosedSilent, TypeOK

\* Replying to a message: CONNECTED, ERROR or nothing (stomp-server.h:457-713).
LEMMA MessageSilent ==
  ASSUME TypeOK, Maps, NEW s \in Sessions, NEW f \in ClientFrame, OnRead(s, f)
  PROVE  ClosedSilent
  <1>1. CASE UNCHANGED out
    BY <1>1 DEF ClosedSilent
  <1>2. ASSUME NEW error, connections[s] # NoConnection, CloseConnection(s, error)
        PROVE  ClosedSilent
    BY <1>2, MappedFrame DEF CloseConnection
  <1>3. CASE connections[s] # NoConnection /\ AcceptStomp(s)
    BY <1>3, MappedFrame DEF AcceptStomp
  <1> QED
    BY <1>1, <1>2, <1>3
       DEF OnRead, OnWsSessionMessage, WsClose, HandleStomp, HandleSend

\* The user's Send and Close find a session through its id (stomp-server.h:228-363).
LEMMA UserOpSilent ==
  ASSUME TypeOK, Maps, NEW known \in SUBSET Ids, UserOp(known)
  PROVE  ClosedSilent
  <1>1. CASE UNCHANGED out
    BY <1>1 DEF ClosedSilent
  <1>2. ASSUME NEW id \in Ids, NEW req, Send(id, req)
        PROVE  ClosedSilent
    <2>1. CASE sessions[id] = NoSession
      BY <1>1, <1>2, <2>1 DEF Send
    <2>2. CASE sessions[id] # NoSession
      <3>1. out' = out
              \/ out' = [out EXCEPT ![sessions[id]] = Append(@, SendFrame(req))]
        BY <1>2 DEF Send
      <3> QED
        BY <2>2, <3>1, MappedIdHasConnection, MappedFrame
    <2> QED
      BY <2>1, <2>2
  <1>3. ASSUME NEW id \in Ids, Close(id)
        PROVE  ClosedSilent
    BY <1>1, <1>3 DEF Close, WsClose, CloseConnection
  <1>4. CASE Stop
    BY <1>1, <1>4 DEF Stop
  <1> QED
    BY <1>2, <1>3, <1>4 DEF UserOp

\* No step adds a frame to a session that was closed before it.
LEMMA NextSilent == TypeOK /\ Maps /\ [Next]_vars => ClosedSilent
  <1> SUFFICES ASSUME TypeOK, Maps, [Next]_vars PROVE ClosedSilent
    OBVIOUS
  <1>1. CASE UNCHANGED out
    BY <1>1 DEF ClosedSilent
  <1>2. CASE UserCallback \/ UserCall
    BY <1>1, <1>2, UserOpSilent DEF UserCallback, UserCall, Known, NoOp
  <1>3. CASE Run \/ AcceptCompletes \/ OnWsDisconnect
               \/ \E s \in Sessions : OnConnectionAccepted(s)
    BY <1>1, <1>3 DEF Run, AcceptCompletes, OnWsDisconnect, OnConnectionAccepted
  <1>4. ASSUME NEW s \in Sessions, Handlers(s)
        PROVE  ClosedSilent
    <2>1. CASE \E f \in ClientFrame : OnRead(s, f)
      BY <2>1, MessageSilent
    <2>2. CASE OnConnect(s) \/ OnTlsHandshake(s) \/ OnHandshake(s) \/ HandshakeFails(s)
                 \/ ReadFails(s) \/ ReadEnds(s)
      BY <1>1, <2>2 DEF OnConnect, OnTlsHandshake, OnHandshake, OnWsSessionConnect,
                        HandshakeFails, WsClose, ReadFails, ReadEnds, OnWsSessionDisconnect
    <2> QED
      BY <1>4, <2>1, <2>2 DEF Handlers
  <1> QED
    BY <1>1, <1>2, <1>3, <1>4 DEF Next, vars

\* After WebSocketSession::Close no frame is given to that session, however the
\* handlers, the callbacks and the user's calls interleave.
THEOREM NoFrameAfterCloseHolds == Spec => NoFrameAfterClose
  <1>1. TypeOK /\ Maps /\ [Next]_vars
          => [\A s \in Sessions : closed[s] => out'[s] = out[s]]_vars
    BY NextSilent DEF ClosedSilent
  <1> QED
    BY <1>1, TypeCorrect, MapsInvariant, PTL DEF Spec, NoFrameAfterClose

=============================================================================
