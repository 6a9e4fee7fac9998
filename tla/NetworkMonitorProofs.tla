------------------------ MODULE NetworkMonitorProofs ------------------------
(***************************************************************************)
(* Theorems about the whole process, for any sets of sessions,             *)
(* identifiers, requests and events, any bounds, and queues of any length. *)
(* NetworkMonitor is shown to be a user as StompServer allows, so that the *)
(* invariants of the server hold in the composed system and can be used.   *)
(***************************************************************************)
EXTENDS NetworkMonitor, StompServerLifecycleProofs

USE NullAssumption, BoundAssumption, MonitorAssumption

(* Requests that wait *)

\* What the step does to the queue is of no concern to the client of session s.
QueueKeeps(s) ==
  \/ UNCHANGED posted
  \/ \E e \in Callback : Post(e) /\ ~(e.type = "message" /\ e.id = connections[s].id)
  \/ Deliver /\ ~(Head(posted).type = "message" /\ Head(posted).id = connections[s].id)

\* Queue, requests and replies of a client have lengths.
LEMMA Lengths ==
  ASSUME TypeOK, NEW s \in Sessions
  PROVE  Len(posted) \in Nat /\ Len(out[s]) \in Nat /\ Len(asked[s]) \in Nat
  BY DEF TypeOK

\* A callback that is no message of the client is posted.
LEMMA InQueuePosted ==
  ASSUME TypeOK, NEW e \in Callback, Post(e), NEW i, ~(e.type = "message" /\ e.id = i),
         NEW r, NEW a \in Nat, NEW b \in Nat, InQueue(posted, i, r, a, b)
  PROVE  InQueue(posted', i, r, a, b)
  <1> DEFINE n == Len(posted)
  <1>1. PICK pos \in [a..b -> 1..n] :
          /\ \A m, o \in a..b : m < o => pos[m] < pos[o]
          /\ \A m \in a..b : posted[pos[m]] = Event("message", i, r[m])
          /\ \A p \in 1..n : posted[p].type = "message" /\ posted[p].id = i =>
               \E m \in a..b : pos[m] = p
    BY DEF InQueue
  <1>2. /\ n \in Nat /\ Len(posted') = n + 1 /\ posted'[n + 1] = e
        /\ \A k \in 1..n : posted'[k] = posted[k]
    BY Posted
  <1> HIDE DEF n
  <1>3. pos \in [a..b -> 1..Len(posted')]
    BY <1>2
  <1>4. \A m \in a..b : posted'[pos[m]] = Event("message", i, r[m])
    BY <1>1, <1>2
  <1>5. \A p \in 1..Len(posted') : posted'[p].type = "message" /\ posted'[p].id = i =>
          \E m \in a..b : pos[m] = p
    BY <1>1, <1>2
  <1> QED
    BY <1>1, <1>3, <1>4, <1>5 DEF InQueue

\* The oldest callback runs: if it is a message of the client it is the oldest request
\* without a reply, and the others wait on.
LEMMA InQueueDelivered ==
  ASSUME TypeOK, Deliver, NEW i, NEW r, NEW a \in Nat, NEW b \in Nat,
         InQueue(posted, i, r, a, b)
  PROVE  IF posted[1].type = "message" /\ posted[1].id = i
         THEN a <= b /\ posted[1] = Event("message", i, r[a]) /\ InQueue(posted', i, r, a + 1, b)
         ELSE InQueue(posted', i, r, a, b)
  <1> DEFINE n == Len(posted)
  <1>1. PICK pos \in [a..b -> 1..n] :
          /\ \A m, o \in a..b : m < o => pos[m] < pos[o]
          /\ \A m \in a..b : posted[pos[m]] = Event("message", i, r[m])
          /\ \A p \in 1..n : posted[p].type = "message" /\ posted[p].id = i =>
               \E m \in a..b : pos[m] = p
    BY DEF InQueue
  <1>2. /\ Len(posted') = n - 1 /\ n \in Nat \ {0}
        /\ \A k \in 1..Len(posted') : posted'[k] = posted[k + 1]
    BY Delivered
  <1> HIDE DEF n
  <1>3. ASSUME NEW c \in Nat, a <= c, \A m \in c..b : pos[m] # 1,
               \A m \in a..b : m < c => pos[m] = 1
        PROVE  InQueue(posted', i, r, c, b)
    <2> DEFINE q == [m \in c..b |-> pos[m] - 1]
    <2>1. \A m \in c..b : m \in a..b /\ pos[m] \in 2..n
      <3> SUFFICES ASSUME NEW m \in c..b PROVE m \in a..b /\ pos[m] \in 2..n
        OBVIOUS
      <3>1. m \in a..b
        BY <1>3
      <3>2. pos[m] \in 1..n /\ pos[m] # 1
        BY <1>3, <3>1
      <3> QED
        BY <1>2, <3>1, <3>2
    <2>2. q \in [c..b -> 1..Len(posted')]
      BY <1>2, <2>1
    <2>3. \A m, o \in c..b : m < o => q[m] < q[o]
      BY <1>1, <2>1
    <2>4. \A m \in c..b : posted'[q[m]] = Event("message", i, r[m])
      <3>1. \A m \in c..b : q[m] \in 1..Len(posted') /\ q[m] + 1 = pos[m]
        BY <1>2, <2>1
      <3> QED
        BY <1>1, <1>2, <2>1, <3>1
    <2>5. \A p \in 1..Len(posted') : posted'[p].type = "message" /\ posted'[p].id = i =>
               \E m \in c..b : q[m] = p
      <3> SUFFICES ASSUME NEW p \in 1..Len(posted'), posted'[p].type = "message",
                          posted'[p].id = i
                   PROVE  \E m \in c..b : q[m] = p
        OBVIOUS
      <3>1. p + 1 \in 1..n /\ posted'[p] = posted[p + 1]
        BY <1>2
      <3>2. PICK m \in a..b : pos[m] = p + 1
        BY <1>1, <3>1
      <3>3. m \in c..b
        BY <1>3, <3>2
      <3> QED
        BY <3>2, <3>3
    <2> HIDE DEF q
    <2> QED
      BY <2>2, <2>3, <2>4, <2>5 DEF InQueue
  <1>4. CASE posted[1].type = "message" /\ posted[1].id = i
    <2>1. PICK m \in a..b : pos[m] = 1
      BY <1>1, <1>2, <1>4
    <2>2. a \in a..b /\ pos[a] \in 1..n /\ (a < m => pos[a] < pos[m])
      BY <1>1
    <2>3. m = a
      BY <1>2, <2>1, <2>2
    <2>4. \A k \in (a + 1)..b : pos[k] # 1
      <3> SUFFICES ASSUME NEW k \in (a + 1)..b PROVE pos[k] # 1
        OBVIOUS
      <3>1. k \in a..b /\ a < k
        OBVIOUS
      <3>2. pos[a] < pos[k] /\ pos[k] \in 1..n
        BY <1>1, <2>2, <3>1
      <3> QED
        BY <1>2, <2>1, <2>3, <3>2
    <2>5. InQueue(posted', i, r, a + 1, b)
      BY <1>3, <2>1, <2>3, <2>4
    <2> QED
      BY <1>1, <1>4, <2>1, <2>3, <2>5
  <1>5. CASE ~(posted[1].type = "message" /\ posted[1].id = i)
    <2>1. \A m \in a..b : pos[m] # 1
      <3> SUFFICES ASSUME NEW m \in a..b PROVE pos[m] # 1
        OBVIOUS
      <3>1. posted[pos[m]] = Event("message", i, r[m])
        BY <1>1
      <3>2. posted[pos[m]].type = "message" /\ posted[pos[m]].id = i
        BY <3>1 DEF Event
      <3> QED
        BY <1>5, <3>2
    <2> QED
      BY <1>3, <1>5, <2>1
  <1> QED
    BY <1>4, <1>5

\* A request is taken from the client and its message posted.
LEMMA InQueueAsked ==
  ASSUME TypeOK, NEW i, NEW req, Event("message", i, req) \in Callback,
         Post(Event("message", i, req)), NEW r, NEW r2, NEW a \in Nat, NEW b \in Nat,
         a <= b + 1, \A m \in a..b : r2[m] = r[m], r2[b + 1] = req,
         InQueue(posted, i, r, a, b)
  PROVE  InQueue(posted', i, r2, a, b + 1)
  <1> DEFINE n == Len(posted)
             e == Event("message", i, req)
  <1>1. PICK pos \in [a..b -> 1..n] :
          /\ \A m, o \in a..b : m < o => pos[m] < pos[o]
          /\ \A m \in a..b : posted[pos[m]] = Event("message", i, r[m])
          /\ \A p \in 1..n : posted[p].type = "message" /\ posted[p].id = i =>
               \E m \in a..b : pos[m] = p
    BY DEF InQueue
  <1>2. /\ n \in Nat /\ Len(posted') = n + 1 /\ posted'[n + 1] = e
        /\ \A k \in 1..n : posted'[k] = posted[k]
    BY Posted
  <1> HIDE DEF n
  <1> DEFINE q == [m \in a..(b + 1) |-> IF m = b + 1 THEN n + 1 ELSE pos[m]]
  <1>3. q[b + 1] = n + 1 /\ \A m \in a..b : m \in a..(b + 1) /\ q[m] = pos[m] /\ pos[m] \in 1..n
    BY <1>2
  <1>4. \A m \in a..(b + 1) : m = b + 1 \/ m \in a..b
    OBVIOUS
  <1>5. q \in [a..(b + 1) -> 1..Len(posted')]
    BY <1>2, <1>4
  <1>6. \A m, o \in a..(b + 1) : m < o => q[m] < q[o]
    BY <1>1, <1>2, <1>3, <1>4
  <1>7. \A m \in a..(b + 1) : posted'[q[m]] = Event("message", i, r2[m])
    BY <1>1, <1>2, <1>3, <1>4
  <1>8. \A p \in 1..Len(posted') : posted'[p].type = "message" /\ posted'[p].id = i =>
          \E m \in a..(b + 1) : q[m] = p
    <2> SUFFICES ASSUME NEW p \in 1..Len(posted'), posted'[p].type = "message",
                        posted'[p].id = i
                 PROVE  \E m \in a..(b + 1) : q[m] = p
      OBVIOUS
    <2>1. CASE p = n + 1
      BY <1>3, <2>1
    <2>2. CASE p \in 1..n
      BY <1>1, <1>2, <1>3, <2>2
    <2> QED
      BY <1>2, <2>1, <2>2
  <1> HIDE DEF q
  <1> QED
    BY <1>5, <1>6, <1>7, <1>8 DEF InQueue

\* Waiting requests of a client the step does not touch.
LEMMA WaitingKept ==
  ASSUME TypeOK, NEW s \in Sessions, Waiting(s), QueueKeeps(s),
         connections'[s] = connections[s], out'[s] = out[s], asked'[s] = asked[s]
  PROVE  Waiting(s)'
  <1>1. Len(out[s]) \in Nat /\ Len(asked[s]) \in Nat
    BY Lengths
  <1>2. SUFFICES InQueue(posted', connections[s].id, asked[s], Len(out[s]), Len(asked[s]))
    BY DEF Waiting
  <1>3. CASE UNCHANGED posted
    BY <1>3 DEF Waiting
  <1>4. CASE \E e \in Callback : Post(e) /\ ~(e.type = "message" /\ e.id = connections[s].id)
    BY <1>1, <1>4, InQueuePosted DEF Waiting
  <1>5. CASE Deliver /\ ~(Head(posted).type = "message" /\ Head(posted).id = connections[s].id)
    BY <1>1, <1>5, InQueueDelivered, Delivered DEF Waiting
  <1> QED
    BY <1>3, <1>4, <1>5 DEF QueueKeeps

(* Steps of the server *)

\* Connections may end, the frame with the error being the last; nobody connects or asks.
Drops ==
  /\ UNCHANGED asked
  /\ \A s \in Sessions :
       \/ connections'[s] = connections[s] /\ out'[s] = out[s]
       \/ /\ connections[s] # NoConnection /\ connections'[s] = NoConnection
          /\ out'[s] \in {out[s], Append(out[s], MakeErrorFrame)}
  /\ \A s \in Sessions : Shaking(s)' => Shaking(s)

Replies == RepliesAnswerRequests /\ RequestsWait

\* A frame that is no reply changes nothing about the replies of its session.
LEMMA OtherFrame ==
  ASSUME TypeOK, NEW s \in Sessions, NEW f \in ServerFrame, f.cmd # "SEND",
         NEW k \in 1..Len(Append(out[s], f)), Append(out[s], f)[k].cmd = "SEND"
  PROVE  k \in 1..Len(out[s]) /\ Append(out[s], f)[k] = out[s][k]
  <1>1. out[s] \in Seq(ServerFrame)
    BY DEF TypeOK
  <1> QED
    BY <1>1

\* Steps that end connections.
LEMMA DropsReplies ==
  ASSUME TypeOK, Maps, Replies, Drops,
         \A s \in Sessions : connections'[s].status = "kConnected" => QueueKeeps(s)
  PROVE  Replies'
  <1> SUFFICES ASSUME NEW s \in Sessions
               PROVE  /\ \A k \in 1..Len(out'[s]) : out'[s][k].cmd = "SEND" =>
                           /\ k > 1 /\ k <= Len(asked'[s]) + 1
                           /\ out'[s][k].req = RequestId(asked'[s][k - 1])
                      /\ Len(asked'[s]) <= MaxRequests
                      /\ connections'[s].status = "kConnected" =>
                           Len(out'[s]) > 0 /\ Len(out'[s]) <= Len(asked'[s]) + 1 /\ Waiting(s)'
                      /\ connections'[s].status = "kPending" \/ Shaking(s)' =>
                           out'[s] = <<>> /\ asked'[s] = <<>>
    BY DEF Replies, RepliesAnswerRequests, RequestsWait
  <1>1. asked'[s] = asked[s]
    BY DEF Drops
  <1>2. CASE connections'[s] = connections[s] /\ out'[s] = out[s]
    <2>1. connections'[s].status = "kConnected" => Waiting(s)'
      BY <1>1, <1>2, WaitingKept DEF Replies, RequestsWait
    <2> QED
      BY <1>1, <1>2, <2>1 DEF Replies, RepliesAnswerRequests, RequestsWait, Drops
  <1>3. CASE /\ connections[s] # NoConnection /\ connections'[s] = NoConnection
             /\ out'[s] \in {out[s], Append(out[s], MakeErrorFrame)}
    <2>1. ~Shaking(s)
      BY <1>3 DEF Maps, OnlyLiveSessionsMapped, Shaking
    <2>2. /\ connections'[s].status \notin {"kConnected", "kPending"}
          /\ ~Shaking(s)'
      BY <1>3, <2>1 DEF NoConnection, Drops
    <2>3. MakeErrorFrame \in ServerFrame /\ MakeErrorFrame.cmd # "SEND"
      BY FrameTypes DEF MakeErrorFrame
    <2>4. \A k \in 1..Len(out'[s]) : out'[s][k].cmd = "SEND" =>
            k \in 1..Len(out[s]) /\ out'[s][k] = out[s][k]
      BY <1>3, <2>3, OtherFrame
    <2> QED
      BY <1>1, <2>2, <2>4 DEF Replies, RepliesAnswerRequests, RequestsWait
  <1> QED
    BY <1>2, <1>3 DEF Drops

\* Only session s changes, and for it the invariant is given.
LEMMA OneSession ==
  ASSUME TypeOK, Maps, Replies, NEW s \in Sessions,
         \A t \in Sessions \ {s} :
           /\ connections'[t] = connections[t] /\ out'[t] = out[t] /\ asked'[t] = asked[t]
           /\ connections[t].status = "kConnected" => QueueKeeps(t)
           /\ Shaking(t)' => Shaking(t),
         \A k \in 1..Len(out'[s]) : out'[s][k].cmd = "SEND" =>
           /\ k > 1 /\ k <= Len(asked'[s]) + 1
           /\ out'[s][k].req = RequestId(asked'[s][k - 1]),
         Len(asked'[s]) <= MaxRequests,
         connections'[s].status = "kConnected" =>
           Len(out'[s]) > 0 /\ Len(out'[s]) <= Len(asked'[s]) + 1 /\ Waiting(s)',
         connections'[s].status = "kPending" \/ Shaking(s)' => out'[s] = <<>> /\ asked'[s] = <<>>
  PROVE  Replies'
  <1>1. \A t \in Sessions \ {s} : connections[t].status = "kConnected" => Waiting(t)'
    BY WaitingKept DEF Replies, RequestsWait
  <1>2. RepliesAnswerRequests'
    BY DEF Replies, RepliesAnswerRequests
  <1>3. RequestsWait'
    BY <1>1 DEF Replies, RequestsWait
  <1> QED
    BY <1>2, <1>3 DEF Replies

\* CloseConnection.
LEMMA CloseConnectionDrops ==
  ASSUME TypeOK, NEW s \in Sessions, connections[s] # NoConnection, NEW error,
         CloseConnection(s, error), UNCHANGED <<phase, asked>>
  PROVE  Drops
  <1>1. /\ connections'[s] = NoConnection
        /\ \A t \in Sessions \ {s} : connections'[t] = connections[t]
    BY DEF CloseConnection, Forget, TypeOK
  <1>2. /\ out'[s] \in {out[s], Append(out[s], MakeErrorFrame)}
        /\ \A t \in Sessions \ {s} : out'[t] = out[t]
    BY DEF CloseConnection, TypeOK
  <1> QED
    BY <1>1, <1>2 DEF Drops, Shaking

\* A client completes its STOMP handshake: nothing was sent or asked before.
LEMMA AcceptStompReplies ==
  ASSUME TypeOK, Maps, CallbacksInOrder, Replies, NEW s \in Sessions,
         connections[s].status = "kPending", AcceptStomp(s), UNCHANGED phase
  PROVE  Replies'
  <1> DEFINE i == connections[s].id
             e == Event("connected", i, NoRequest)
  <1>1. connections[s] # NoConnection /\ i \in Ids
    BY ConnectionFacts DEF NoConnection
  <1>2. e \in Callback /\ e.type = "connected" /\ Post(e)
    BY <1>1, EventTypes DEF Event, AcceptStomp
  <1>3. /\ connections'[s].id = i /\ connections'[s].status = "kConnected"
        /\ out'[s] = Append(out[s], ConnectedFrame(i))
        /\ asked' = asked
        /\ \A t \in Sessions \ {s} : connections'[t] = connections[t] /\ out'[t] = out[t]
    <2>1. connections[s] \in Connection
      BY <1>1, ConnectionFacts
    <2>2. connections' = [connections EXCEPT ![s].status = "kConnected"]
      BY DEF AcceptStomp
    <2>3. connections'[s] = [connections[s] EXCEPT !.status = "kConnected"]
      BY <2>2 DEF TypeOK
    <2>4. connections'[s].id = i /\ connections'[s].status = "kConnected"
      BY <2>1, <2>3 DEF Connection
    <2> QED
      BY <2>2, <2>4 DEF AcceptStomp, TypeOK
  <1>4. out[s] = <<>> /\ asked[s] = <<>>
    BY DEF Replies, RequestsWait
  <1>5. out'[s] = <<ConnectedFrame(i)>>
    BY <1>3, <1>4
  <1>6. /\ Len(out'[s]) = 1 /\ out'[s][1].cmd = "CONNECTED"
        /\ Len(asked'[s]) = 0
    BY <1>3, <1>4, <1>5 DEF ConnectedFrame
  <1>7. InQueue(posted', i, asked[s], 1, 0)
    <2>1. i \notin established
      BY DEF CallbacksInOrder, StatusRecorded
    <2>2. /\ Len(posted') = Len(posted) + 1 /\ Len(posted) \in Nat
          /\ posted'[Len(posted) + 1] = e /\ \A k \in 1..Len(posted) : posted'[k] = posted[k]
      BY <1>2, Posted
    <2>3. \A p \in 1..Len(posted) : ~(posted[p].type = "message" /\ posted[p].id = i)
      BY <2>1 DEF CallbacksInOrder, QueuedEstablished
    <2>4. \A p \in 1..Len(posted') : ~(posted'[p].type = "message" /\ posted'[p].id = i)
      <3> HIDE DEF e, i
      <3> QED
        BY <1>2, <2>2, <2>3
    <2> DEFINE pos == [m \in 1..0 |-> 1]
    <2>5. pos \in [1..0 -> 1..Len(posted')] /\ \A m \in 1..0 : FALSE
      OBVIOUS
    <2> HIDE DEF pos, i
    <2> QED
      BY <2>4, <2>5 DEF InQueue
  <1>8. Waiting(s)'
    BY <1>3, <1>6, <1>7 DEF Waiting
  <1>9. \A t \in Sessions \ {s} : QueueKeeps(t) /\ (Shaking(t)' => Shaking(t))
    BY <1>2 DEF QueueKeeps, Shaking
  <1>10. ~Shaking(s)'
    BY <1>1 DEF Maps, OnlyLiveSessionsMapped, Shaking
  <1>11. Len(asked'[s]) <= MaxRequests
    BY <1>6
  <1>12. /\ connections'[s].status = "kConnected" =>
             Len(out'[s]) > 0 /\ Len(out'[s]) <= Len(asked'[s]) + 1 /\ Waiting(s)'
         /\ connections'[s].status = "kPending" \/ Shaking(s)' => out'[s] = <<>> /\ asked'[s] = <<>>
    BY <1>3, <1>6, <1>8, <1>10
  <1>13. \A k \in 1..Len(out'[s]) : out'[s][k].cmd # "SEND"
    BY <1>6
  <1> HIDE DEF i, e
  <1> QED
    BY <1>3, <1>9, <1>11, <1>12, <1>13, OneSession

\* A request is taken from a connected client.
LEMMA HandleSendReplies ==
  ASSUME TypeOK, Maps, Replies, NEW s \in Sessions, NEW f \in ClientFrame,
         connections[s].status = "kConnected", HandleSend(s, f), UNCHANGED phase
  PROVE  Replies'
  <1> DEFINE i == connections[s].id
             e == Event("message", i, f.req)
             b == Len(asked[s])
  <1> USE DEF mapVars
  <1>1. connections[s] # NoConnection /\ i \in Ids
    BY ConnectionFacts DEF NoConnection
  <1>2. f.req \in Requests /\ Post(e) /\ b < MaxRequests
        /\ asked' = [asked EXCEPT ![s] = Append(asked[s], f.req)]
        /\ UNCHANGED <<connections, out>>
    BY DEF HandleSend, ClientFrame
  <1>3. e \in Callback /\ e.type = "message" /\ e.id = i
    BY <1>1, <1>2, EventTypes DEF Event
  <1>4. /\ b \in Nat /\ Len(asked'[s]) = b + 1 /\ asked'[s][b + 1] = f.req
        /\ \A m \in 1..b : asked'[s][m] = asked[s][m]
        /\ \A t \in Sessions \ {s} : asked'[t] = asked[t]
    BY <1>2 DEF TypeOK
  <1>5. Len(out[s]) \in Nat /\ Len(out[s]) > 0 /\ Len(out[s]) <= b + 1 /\ Waiting(s)
    BY Lengths DEF Replies, RequestsWait
  <1>6. \A m \in Len(out[s])..b : asked'[s][m] = asked[s][m]
    BY <1>4, <1>5
  <1> HIDE DEF b
  <1>7. InQueue(posted', i, asked'[s], Len(out[s]), b + 1)
    <2>1. InQueue(posted, i, asked[s], Len(out[s]), b)
      BY <1>5 DEF Waiting, b
    <2> DEFINE a == Len(out[s])
               r == asked[s]
               r2 == asked'[s]
    <2>2. /\ InQueue(posted, i, r, a, b) /\ a \in Nat /\ b \in Nat /\ a <= b + 1
          /\ \A m \in a..b : r2[m] = r[m]
          /\ r2[b + 1] = f.req
          /\ Event("message", i, f.req) \in Callback /\ Post(Event("message", i, f.req))
      BY <1>2, <1>3, <1>4, <1>5, <1>6, <2>1
    <2> HIDE DEF i, a, r, r2
    <2>3. InQueue(posted', i, r2, a, b + 1)
      BY <2>2, InQueueAsked
    <2> QED
      BY <2>3 DEF a, r2
  <1>8. Waiting(s)'
    BY <1>2, <1>4, <1>7 DEF Waiting
  <1>9. \A t \in Sessions \ {s} :
          /\ connections[t].status = "kConnected" => QueueKeeps(t)
          /\ Shaking(t)' => Shaking(t)
    <2>1. \A t \in Sessions \ {s} : connections[t].status = "kConnected" => connections[t].id # i
      <3>1. \A t \in Sessions : connections[t].status = "kConnected" => connections[t] # NoConnection
        BY DEF NoConnection
      <3> QED
        BY <1>1, <3>1, MappedLive
    <2> HIDE DEF i, e
    <2>2. \A t \in Sessions \ {s} : connections[t].status = "kConnected" => QueueKeeps(t)
      BY <1>2, <1>3, <2>1 DEF QueueKeeps
    <2> QED
      BY <2>2 DEF Shaking
  <1>10. ~Shaking(s)'
    BY <1>1 DEF Maps, OnlyLiveSessionsMapped, Shaking
  <1>11. Len(asked'[s]) <= MaxRequests
    BY <1>2, <1>4
  <1>12. /\ connections'[s].status = "kConnected" =>
             Len(out'[s]) > 0 /\ Len(out'[s]) <= Len(asked'[s]) + 1 /\ Waiting(s)'
         /\ connections'[s].status = "kPending" \/ Shaking(s)' => out'[s] = <<>> /\ asked'[s] = <<>>
    BY <1>2, <1>4, <1>5, <1>8, <1>10
  <1>13. \A k \in 1..Len(out'[s]) : out'[s][k].cmd = "SEND" =>
           /\ k > 1 /\ k <= Len(asked'[s]) + 1
           /\ out'[s][k].req = RequestId(asked'[s][k - 1])
    <2> SUFFICES ASSUME NEW k \in 1..Len(out[s]), out[s][k].cmd = "SEND"
                 PROVE  /\ k > 1 /\ k <= Len(asked'[s]) + 1
                        /\ out[s][k].req = RequestId(asked'[s][k - 1])
      BY <1>2
    <2>1. k > 1 /\ k <= b + 1 /\ out[s][k].req = RequestId(asked[s][k - 1])
      BY DEF Replies, RepliesAnswerRequests, b
    <2>2. k - 1 \in 1..b
      BY <1>4, <2>1
    <2> QED
      BY <1>4, <2>1, <2>2
  <1> HIDE DEF i, e
  <1> QED
    BY <1>2, <1>4, <1>9, <1>11, <1>12, <1>13, OneSession

\* A step that posts nothing, or no message, leaves all waiting requests alone.
LEMMA QuietQueue ==
  ASSUME UNCHANGED posted \/ \E e \in Callback : e.type # "message" /\ Post(e)
  PROVE  \A s \in Sessions : QueueKeeps(s)
  BY DEF QueueKeeps

\* A message is read from session s.
LEMMA MessageReplies ==
  ASSUME TypeOK, Maps, CallbacksInOrder, Replies,
         NEW s \in Sessions, NEW f \in ClientFrame, OnRead(s, f)
  PROVE  Replies'
  <1> USE DEF histVars, mapVars, netVars
  <1>1. OnWsSessionMessage(s, f) /\ UNCHANGED phase
    BY DEF OnRead
  <1>2. CASE connections[s] = NoConnection
    <2>1. WsClose(s) /\ UNCHANGED <<posted, asked>>
      BY <1>1, <1>2 DEF OnWsSessionMessage
    <2>2. Drops
      BY <1>1, <2>1 DEF WsClose, Drops, Shaking
    <2> QED
      BY <2>1, <2>2, QuietQueue, DropsReplies
  <1>3. ASSUME connections[s] # NoConnection, NEW error, CloseConnection(s, error),
               UNCHANGED <<posted, asked>>
        PROVE  Replies'
    <2>1. Drops
      BY <1>1, <1>3, CloseConnectionDrops
    <2> QED
      BY <1>3, <2>1, QuietQueue, DropsReplies
  <1>4. CASE connections[s] # NoConnection /\ HandleStomp(s, f)
    <2>1. CASE connections[s].status = "kPending" /\ AcceptStomp(s)
      BY <1>1, <2>1, AcceptStompReplies
    <2> QED
      BY <1>3, <1>4, <2>1 DEF HandleStomp
  <1>5. CASE connections[s] # NoConnection /\ HandleSend(s, f)
    <2>1. CASE connections[s].status = "kConnected"
      BY <1>1, <1>5, <2>1, HandleSendReplies
    <2>2. CASE connections[s].status # "kConnected"
      BY <1>3, <1>5, <2>2 DEF HandleSend
    <2> QED
      BY <2>1, <2>2
  <1> QED
    BY <1>1, <1>2, <1>3, <1>4, <1>5 DEF OnWsSessionMessage

\* A session gets its pending connection: it was in its handshake before.
LEMMA HandshakeReplies ==
  ASSUME TypeOK, Maps, Replies, NEW s \in Sessions, OnHandshake(s)
  PROVE  Replies'
  <1>1. /\ phase[s] = "handshake" /\ phase' = [phase EXCEPT ![s] = "open"]
        /\ UNCHANGED <<out, asked, posted>>
    BY DEF OnHandshake, OnWsSessionConnect, Become
  <1>2. /\ connections'[s].status = "kPending"
        /\ \A t \in Sessions \ {s} : connections'[t] = connections[t]
    BY DEF OnHandshake, OnWsSessionConnect, TypeOK
  <1>3. out[s] = <<>> /\ asked[s] = <<>> /\ Len(asked[s]) <= MaxRequests
    BY <1>1 DEF Replies, RequestsWait, Shaking
  <1>4. \A t \in Sessions \ {s} : QueueKeeps(t) /\ (Shaking(t)' => Shaking(t))
    BY <1>1 DEF QueueKeeps, Shaking, TypeOK
  <1>5. Len(out'[s]) = 0
    BY <1>1, <1>3
  <1> QED
    BY <1>1, <1>2, <1>3, <1>4, <1>5, OneSession

\* The other handlers of a session.
LEMMA SessionReplies ==
  ASSUME TypeOK, Maps, CallbacksInOrder, Replies, NEW s \in Sessions,
         OnConnect(s) \/ OnTlsHandshake(s) \/ HandshakeFails(s) \/ ReadFails(s) \/ ReadEnds(s)
  PROVE  Replies'
  <1> USE DEF histVars, mapVars
  <1>1. UNCHANGED asked /\ \A t \in Sessions : Shaking(t)' => Shaking(t)
    <2>1. /\ UNCHANGED asked /\ phase[s] \in Phases
          /\ \E p \in Phases : /\ Become(s, p)
                               /\ p \in {"tls", "handshake"} => phase[s] \in {"created", "tls"}
                               /\ p \notin {"unborn", "created"}
      BY DEF OnConnect, OnTlsHandshake, HandshakeFails, ReadFails, ReadEnds, Phases, TypeOK
    <2> QED
      BY <2>1 DEF Become, Shaking, TypeOK, Phases
  <1>2. CASE UNCHANGED <<connections, out, posted>>
    <2>1. Drops
      BY <1>1, <1>2 DEF Drops
    <2> QED
      BY <1>2, <2>1, QuietQueue, DropsReplies
  <1>3. CASE ReadEnds(s) /\ ~closed[s] /\ connections[s] # NoConnection
    <2>1. Forget(s) /\ UNCHANGED out
      BY <1>3 DEF ReadEnds, OnWsSessionDisconnect
    <2>2. /\ connections'[s] = NoConnection
          /\ \A t \in Sessions \ {s} : connections'[t] = connections[t]
      BY <2>1 DEF Forget, TypeOK
    <2>3. Drops
      BY <1>1, <1>3, <2>1, <2>2 DEF Drops
    <2>4. UNCHANGED posted \/ \E e \in Callback : e.type # "message" /\ Post(e)
      <3> DEFINE e == Event("disconnected", connections[s].id, NoRequest)
      <3>1. e \in Callback /\ e.type = "disconnected"
        BY <1>3, ConnectionFacts, EventTypes DEF Event
      <3>2. UNCHANGED posted \/ Post(e)
        BY <1>3 DEF ReadEnds, OnWsSessionDisconnect
      <3> QED
        BY <3>1, <3>2
    <2> QED
      BY <2>3, <2>4, QuietQueue, DropsReplies
  <1> QED
    BY <1>2, <1>3 DEF OnConnect, OnTlsHandshake, HandshakeFails, WsClose, ReadFails, ReadEnds,
                      OnWsSessionDisconnect

\* The acceptor's handlers.
LEMMA AcceptorReplies ==
  ASSUME TypeOK, Maps, Replies,
         Run \/ AcceptCompletes \/ OnWsDisconnect
           \/ \E s \in Sessions : OnConnectionAccepted(s)
  PROVE  Replies'
  <1> USE DEF histVars, mapVars
  <1>1. /\ UNCHANGED <<connections, out, asked>>
        /\ UNCHANGED posted \/ Post(Event("serverDown", NoId, NoRequest))
    BY DEF Run, AcceptCompletes, OnWsDisconnect, OnConnectionAccepted
  <1>2. \A s \in Sessions : Shaking(s)' => Shaking(s)
    BY DEF Run, AcceptCompletes, OnWsDisconnect, OnConnectionAccepted, Shaking, TypeOK
  <1>3. Event("serverDown", NoId, NoRequest).type # "message"
    BY DEF Event
  <1>4. Drops
    BY <1>1, <1>2 DEF Drops
  <1> QED
    BY <1>1, <1>3, <1>4, EventTypes, QuietQueue, DropsReplies

-----------------------------------------------------------------------------
(* What the monitor does *)

\* Stop.
LEMMA StopReplies ==
  ASSUME TypeOK, Maps, Replies, Stop, UNCHANGED posted
  PROVE  Replies'
  <1>1. Drops
    BY DEF Stop, histVars, Drops, Shaking
  <1> QED
    BY <1>1, QuietQueue, DropsReplies

\* A queued message is about a client with an identifier.
LEMMA MessageFacts ==
  ASSUME TypeOK, CallbacksInOrder, Deliver
  PROVE  /\ posted[1] \in Callback /\ Head(posted) = posted[1]
         /\ posted[1].type # "serverDown" =>
              posted[1].id \in Ids /\ told'[posted[1].id] = posted[1].type
  <1>1. posted[1] \in Callback /\ Head(posted) = posted[1] /\ 1 \in 1..Len(posted)
    BY Delivered
  <1>2. posted[1].type # "serverDown" => posted[1].id \in Ids
    BY <1>1 DEF CallbacksInOrder, QueuedEstablished, TypeOK
  <1> QED
    BY <1>1, <1>2 DEF Deliver, TypeOK

\* Close ends the client's connection, and no other.
LEMMA CloseDrops ==
  ASSUME TypeOK, Maps, NEW id \in Ids, Close(id)
  PROVE  Drops /\ \A s \in Sessions : connections'[s] # NoConnection => connections'[s].id # id
  <1> USE DEF netVars, histVars, mapVars
  <1>1. CASE sessions[id] = NoSession
    <2>1. UNCHANGED <<connections, out, asked, phase>>
      BY <1>1 DEF Close
    <2>2. \A s \in Sessions : connections[s] # NoConnection => connections[s].id # id
      BY <1>1 DEF Maps, MapsInverse
    <2> QED
      BY <2>1, <2>2 DEF Drops, Shaking
  <1>2. CASE sessions[id] # NoSession
    <2> DEFINE s == sessions[id]
    <2>1. s \in Sessions /\ connections[s] # NoConnection /\ connections[s].id = id
      BY <1>2, MappedIdHasConnection DEF Maps, MapsInverse
    <2>2. CloseConnection(s, "kUndefinedError") /\ UNCHANGED <<phase, asked>>
      BY <1>2, <2>1 DEF Close
    <2>3. connections' = [connections EXCEPT ![s] = NoConnection]
      BY <2>2 DEF CloseConnection, Forget
    <2> HIDE DEF s
    <2>4. Drops
      BY <2>1, <2>2, CloseConnectionDrops
    <2>5. \A t \in Sessions \ {s} : connections[t] # NoConnection => connections[t].id # id
      BY <2>1, MappedLive
    <2> QED
      BY <2>1, <2>3, <2>4, <2>5 DEF TypeOK
  <1> QED
    BY <1>1, <1>2

\* A reply is sent to the client whose message runs.
LEMMA SendReplies ==
  ASSUME TypeOK, Maps, CallbacksInOrder, Replies, Deliver, posted[1].type = "message",
         Send(posted[1].id, RequestId(posted[1].req))
  PROVE  Replies'
  <1> USE DEF netVars, histVars, mapVars
  <1>a. PICK id \in Ids : id = posted[1].id
    BY MessageFacts
  <1>b. PICK f : f = SendFrame(RequestId(posted[1].req))
    OBVIOUS
  <1>1. id \in Ids /\ posted[1] \in Callback /\ Head(posted) = posted[1] /\ id = posted[1].id
    BY <1>a, MessageFacts
  <1>2. UNCHANGED <<connections, asked, phase>>
    BY DEF Send
  <1>3. ASSUME NEW t \in Sessions, connections[t].status = "kConnected", connections[t].id # id
        PROVE  QueueKeeps(t)
    BY <1>1, <1>3 DEF QueueKeeps
  <1>4. CASE sessions[id] = NoSession \/ connections[sessions[id]].status # "kConnected"
    <2>1. UNCHANGED out
      BY <1>1, <1>4, MappedIdHasConnection DEF Send
    <2>2. Drops
      BY <1>2, <2>1 DEF Drops, Shaking
    <2>3. \A t \in Sessions : connections[t].status = "kConnected" => connections[t].id # id
      <3> SUFFICES ASSUME NEW t \in Sessions, connections[t].status = "kConnected",
                          connections[t].id = id
                   PROVE  FALSE
        OBVIOUS
      <3>1. connections[t] # NoConnection
        BY DEF NoConnection
      <3>2. sessions[id] = t
        BY <3>1 DEF Maps, MapsInverse
      <3> QED
        BY <1>4, <3>2
    <2> QED
      BY <1>2, <1>3, <2>2, <2>3, DropsReplies
  <1>5. CASE sessions[id] # NoSession /\ connections[sessions[id]].status = "kConnected"
    <2>s. PICK s \in Sessions : s = sessions[id]
      BY <1>5, MappedIdHasConnection
    <2>1. /\ connections[s] # NoConnection /\ connections[s].id = id
          /\ connections[s].status = "kConnected"
      BY <1>5, <2>s, MappedIdHasConnection DEF Maps, MapsInverse
    <2>2. out' = [out EXCEPT ![s] = Append(out[s], f)]
      BY <1>1, <1>5, <1>b, <2>s, <2>1 DEF Send
    <2>3. f.cmd = "SEND" /\ f.req = RequestId(posted[1].req) /\ f \in ServerFrame
      <3>1. RequestId(posted[1].req) \in Requests \cup {NoRequest}
        BY <1>1 DEF Callback, RequestId
      <3> QED
        BY <1>b, <3>1, FrameTypes DEF SendFrame
    <2> DEFINE a == Len(out[s])
               b == Len(asked[s])
               r == asked[s]
    <2>4. a \in Nat /\ b \in Nat /\ a > 0 /\ InQueue(posted, id, r, a, b)
      BY <1>5, <2>1, Lengths DEF Replies, RequestsWait, Waiting
    <2>5. a <= b /\ posted[1] = Event("message", id, r[a]) /\ InQueue(posted', id, r, a + 1, b)
      <3> HIDE DEF a, b, r
      <3> QED
        BY <1>1, <2>4, InQueueDelivered
    <2>6. posted[1].req = r[a]
      BY <2>5 DEF Event
    <2>7. /\ out[s] \in Seq(ServerFrame) /\ out'[s] = Append(out[s], f)
          /\ \A t \in Sessions \ {s} : out'[t] = out[t]
      BY <2>1, <2>2 DEF TypeOK
    <2>8. /\ Len(out'[s]) = a + 1 /\ out'[s][a + 1] = f
          /\ \A k \in 1..a : out'[s][k] = out[s][k]
      BY <2>3, <2>7
    <2>9. Waiting(s)'
      <3>1. InQueue(posted', connections'[s].id, asked'[s], Len(out'[s]), Len(asked'[s]))
        BY <1>2, <2>1, <2>5, <2>8
      <3> QED
        BY <3>1 DEF Waiting
    <2>10. \A t \in Sessions \ {s} : connections[t].status = "kConnected" => QueueKeeps(t)
      <3>1. \A t \in Sessions : connections[t].status = "kConnected" => connections[t] # NoConnection
        BY DEF NoConnection
      <3>2. \A t \in Sessions \ {s} : connections[t].status = "kConnected" => connections[t].id # id
        BY <2>1, <3>1, MappedLive
      <3> QED
        BY <1>3, <3>2
    <2>11. \A k \in 1..Len(out'[s]) : out'[s][k].cmd = "SEND" =>
             /\ k > 1 /\ k <= Len(asked'[s]) + 1
             /\ out'[s][k].req = RequestId(asked'[s][k - 1])
      <3> SUFFICES ASSUME NEW k \in 1..(a + 1), out'[s][k].cmd = "SEND"
                   PROVE  k > 1 /\ k <= b + 1 /\ out'[s][k].req = RequestId(r[k - 1])
        BY <1>2, <2>8
      <3>1. CASE k = a + 1
        <4> HIDE DEF a, b, r
        <4> QED
          BY <2>3, <2>4, <2>5, <2>6, <2>8, <3>1
      <3>2. CASE k \in 1..a
        BY <2>1, <2>8, <3>2 DEF Replies, RepliesAnswerRequests
      <3> QED
        BY <2>4, <3>1, <3>2
    <2>12. Len(asked'[s]) <= MaxRequests
      BY <1>2, <2>1 DEF Replies, RequestsWait
    <2>13. /\ Len(out'[s]) > 0 /\ Len(out'[s]) <= Len(asked'[s]) + 1
           /\ connections'[s].status # "kPending" /\ ~Shaking(s)'
      BY <1>2, <1>5, <2>1, <2>4, <2>5, <2>8
         DEF Maps, OnlyLiveSessionsMapped, Shaking
    <2>14. \A t \in Sessions : Shaking(t)' => Shaking(t)
      BY <1>2 DEF Shaking
    <2> HIDE DEF a, b, r
    <2> QED
      BY <1>2, <2>1, <2>7, <2>9, <2>10, <2>11, <2>12, <2>13, <2>14, OneSession
  <1> QED
    BY <1>4, <1>5

\* The handler of a quiet-route message calls Close or Send as the code does.
LEMMA MessageHandler ==
  ASSUME NEW id, NEW req, OnQuietRouteClientMessage(id, req)
  PROVE  \/ Close(id) /\ connectedClients' = connectedClients \ {id}
         \/ Send(id, RequestId(req)) /\ UNCHANGED connectedClients
  BY DEF OnQuietRouteClientMessage, RequestId

\* A callback of the server runs, with the handler the monitor registered for it.
LEMMA ServerCallbackReplies ==
  ASSUME TypeOK, Maps, CallbacksInOrder, Replies, ServerCallback
  PROVE  Replies'
  <1>1. Deliver /\ Head(posted) = posted[1]
    BY MessageFacts DEF ServerCallback
  <1>2. CASE NoOp /\ posted[1].type # "message"
    <2>1. Drops
      BY <1>2 DEF NoOp, netVars, mapVars, histVars, Drops, Shaking
    <2>2. \A s \in Sessions : QueueKeeps(s)
      BY <1>1, <1>2 DEF QueueKeeps
    <2> QED
      BY <2>1, <2>2, DropsReplies
  <1>3. CASE posted[1].type = "message" /\ Close(posted[1].id)
    <2>1. PICK id \in Ids : id = posted[1].id
      BY <1>1, <1>3, MessageFacts
    <2>2. Drops /\ \A s \in Sessions : connections'[s] # NoConnection => connections'[s].id # id
      BY <1>3, <2>1, CloseDrops
    <2>3. \A s \in Sessions : connections'[s].status = "kConnected" =>
            connections'[s] = connections[s] /\ connections[s].id # id
      BY <2>2 DEF Drops, NoConnection
    <2>4. \A s \in Sessions : connections'[s].status = "kConnected" => QueueKeeps(s)
      BY <1>1, <2>1, <2>3 DEF QueueKeeps
    <2> QED
      BY <2>2, <2>4, DropsReplies
  <1>4. CASE posted[1].type = "message" /\ Send(posted[1].id, RequestId(posted[1].req))
    BY <1>1, <1>4, SendReplies
  <1>5. CASE posted[1].type = "message"
    BY <1>1, <1>3, <1>4, <1>5, MessageHandler DEF ServerCallback
  <1>6. CASE posted[1].type # "message"
    BY <1>1, <1>2, <1>6 DEF ServerCallback, OnQuietRouteClientConnect,
                            OnQuietRouteClientDisconnect, OnQuietRouteDisconnect
  <1> QED
    BY <1>5, <1>6

\* The reply finds room: a client is sent at most one frame more than it asked.
LEMMA ReplyWithinBound ==
  ASSUME TypeOK, Maps, Replies, Deliver, CallbacksInOrder, posted[1].type = "message",
         sessions[posted[1].id] # NoSession
  PROVE  Len(out[sessions[posted[1].id]]) < MaxFrames
  <1>1. PICK id \in Ids : id = posted[1].id
    BY MessageFacts
  <1>2. PICK s \in Sessions : s = sessions[id]
    BY <1>1, MappedIdHasConnection
  <1>3. connections[s] # NoConnection /\ connections[s].id = id
    BY <1>1, <1>2, MappedIdHasConnection DEF Maps, MapsInverse
  <1>4. Len(out[s]) \in Nat /\ Len(asked[s]) \in Nat /\ Len(asked[s]) <= MaxRequests
    BY Lengths DEF Replies, RequestsWait
  <1>5. CASE connections[s].status = "kPending"
    <2>1. out[s] = <<>>
      BY <1>5 DEF Replies, RequestsWait
    <2>2. Len(out[s]) = 0
      BY <2>1
    <2> QED
      BY <1>1, <1>2, <2>2
  <1>6. CASE connections[s].status = "kConnected"
    <2> DEFINE a == Len(out[s])
               b == Len(asked[s])
               r == asked[s]
    <2>1. InQueue(posted, id, r, a, b) /\ a \in Nat /\ b \in Nat
      BY <1>3, <1>4, <1>6 DEF Replies, RequestsWait, Waiting
    <2>2. a <= b
      <3> HIDE DEF a, b, r
      <3> QED
        BY <1>1, <2>1, InQueueDelivered
    <2> QED
      BY <1>1, <1>2, <1>4, <2>2
  <1> QED
    BY <1>3, <1>5, <1>6, ConnectionFacts

\* Every step of the process is one of the server, or leaves the server alone.
LEMMA MonitorStep ==
  ASSUME TypeOK, Maps, CallbacksInOrder, Replies, ServerOpened, [MonitorNext]_allVars
  PROVE  [Next]_vars
  <1>1. CASE ServerCallback
    <2>1. Deliver /\ Head(posted) = posted[1]
      BY <1>1, MessageFacts DEF ServerCallback
    <2>2. CASE posted[1].type # "message"
      <3>1. NoOp
        BY <1>1, <2>1, <2>2 DEF ServerCallback, OnQuietRouteClientConnect,
                               OnQuietRouteClientDisconnect, OnQuietRouteDisconnect
      <3> QED
        BY <2>1, <3>1 DEF Next, UserCallback
    <2>3. CASE posted[1].type = "message"
      <3>1. posted[1].id \in Known(told')
        BY <2>1, <2>3, MessageFacts DEF Known
      <3>2. RequestId(posted[1].req) \in Requests \cup {NoRequest}
        BY <2>1, MessageFacts DEF Callback, RequestId
      <3>3. Close(posted[1].id) \/ Send(posted[1].id, RequestId(posted[1].req))
        BY <1>1, <2>1, <2>3, MessageHandler DEF ServerCallback
      <3>4. UserOp(Known(told'))
        BY <2>1, <2>3, <3>1, <3>2, <3>3, ReplyWithinBound DEF UserOp
      <3> QED
        BY <2>1, <3>4 DEF Next, UserCallback
    <2> QED
      BY <2>2, <2>3
  <1>2. CASE ClientUpcall
    <2>1. UNCHANGED vars \/ (Stop /\ UNCHANGED <<posted, told>>)
      BY <1>2 DEF ClientUpcall, OnNetworkEventsConnect, serverVars
    <2>2. acceptor # "unopened"
      BY <1>2 DEF ClientUpcall, Running, ServerOpened
    <2> QED
      BY <2>1, <2>2 DEF Next, UserCall, UserOp
  <1>3. CASE ServerHandlers
    BY <1>3 DEF ServerHandlers, Next
  <1>4. CASE Configure
    BY <1>4 DEF Configure, Next, serverVars
  <1>5. CASE RunMonitor \/ ClientHandlers \/ Exit \/ UNCHANGED allVars
    BY <1>5 DEF RunMonitor, ClientHandlers, Exit, allVars, serverVars
  <1> QED
    BY <1>1, <1>2, <1>3, <1>4, <1>5 DEF MonitorNext

\* The replies stay right.
LEMMA MonitorReplies ==
  ASSUME TypeOK, Maps, CallbacksInOrder, Replies, [MonitorNext]_allVars
  PROVE  Replies'
  <1>1. CASE UNCHANGED vars
    <2>1. Drops
      BY <1>1 DEF vars, Drops, Shaking
    <2>2. UNCHANGED posted
      BY <1>1 DEF vars
    <2> QED
      BY <2>1, <2>2, QuietQueue, DropsReplies
  <1>2. CASE ServerCallback
    BY <1>2, ServerCallbackReplies
  <1>3. CASE ClientUpcall
    <2>1. UNCHANGED vars \/ (Stop /\ UNCHANGED posted)
      BY <1>3 DEF ClientUpcall, OnNetworkEventsConnect, serverVars
    <2> QED
      BY <1>1, <2>1, StopReplies
  <1>4. CASE ServerHandlers
    BY <1>4, AcceptorReplies, MessageReplies, HandshakeReplies, SessionReplies
       DEF ServerHandlers, Handlers
  <1>5. CASE Configure
    BY <1>1, <1>5, AcceptorReplies DEF Configure, serverVars
  <1>6. CASE RunMonitor \/ ClientHandlers \/ Exit \/ UNCHANGED allVars
    BY <1>1, <1>6 DEF RunMonitor, ClientHandlers, Exit, allVars, serverVars
  <1> QED
    BY <1>2, <1>3, <1>4, <1>5, <1>6 DEF MonitorNext

-----------------------------------------------------------------------------
(* connectedClients_ *)

\* ConnectedClientsComplete, said of identifiers.
LiveInserted == \A id \in Ids : Live(id) => id \in connectedClients \/ Pending("connected", id)

\* The two ways to say it agree.
LEMMA InsertedComplete ==
  ASSUME TypeOK, Maps
  PROVE  LiveInserted <=> ConnectedClientsComplete
  <1>1. ASSUME LiveInserted, NEW s \in Sessions, connections[s].status = "kConnected"
        PROVE  \/ connections[s].id \in connectedClients
               \/ Pending("connected", connections[s].id)
    <2>1. connections[s] # NoConnection
      BY <1>1 DEF NoConnection
    <2>2. connections[s].id \in Ids /\ Live(connections[s].id)
      BY <1>1, <2>1, ConnectionFacts, MappedLive
    <2> QED
      BY <1>1, <2>2 DEF LiveInserted
  <1>2. ConnectedClientsComplete => LiveInserted
    BY DEF ConnectedClientsComplete, LiveInserted, Live
  <1> QED
    BY <1>1, <1>2 DEF ConnectedClientsComplete

\* A step of the server's handlers: whoever gets connected is announced.
LEMMA HandlersInserted ==
  ASSUME TypeOK, LiveInserted, UNCHANGED connectedClients,
         HandlerKind
  PROVE  LiveInserted'
  <1>1. ASSUME NEW e \in Callback, Post(e), NEW id, Pending("connected", id)
        PROVE  Pending("connected", id)'
    BY <1>1, Posted DEF Pending
  <1>2. CASE Quiet
    BY <1>2 DEF Quiet, LiveShrinks, LiveInserted, Pending
  <1>3. CASE Reports
    BY <1>1, <1>3 DEF Reports, LiveShrinks, LiveInserted
  <1>4. CASE Announces
    <2>1. PICK e \in Callback :
            /\ Post(e) /\ e.type = "connected"
            /\ \A id \in Ids \ {e.id} : Live(id)' <=> Live(id)
      BY <1>4 DEF Announces
    <2>2. Pending("connected", e.id)'
      BY <2>1, Posted DEF Pending
    <2> QED
      BY <1>1, <2>1, <2>2 DEF LiveInserted
  <1>5. CASE ReportsDown
    BY <1>1, <1>5, EventTypes DEF ReportsDown, LiveInserted, Live
  <1> QED
    BY <1>2, <1>3, <1>4, <1>5 DEF HandlerKind

\* A callback runs, with its handler: the announcement of a client inserts it, and
\* only a client that stands no longer is erased.
LEMMA ServerCallbackInserted ==
  ASSUME TypeOK, Maps, CallbacksInOrder, LiveInserted, connectedClients \subseteq Ids,
         ServerCallback, LiveShrinks
  PROVE  LiveInserted' /\ (connectedClients \subseteq Ids)'
  <1>1. /\ Deliver /\ Head(posted) = posted[1] /\ posted[1] \in Callback
        /\ posted[1].type # "serverDown" => posted[1].id \in Ids
    BY MessageFacts DEF ServerCallback
  <1>2. ASSUME NEW id, Pending("connected", id), ~Pending("connected", id)'
        PROVE  posted[1].type = "connected" /\ posted[1].id = id
    <2>1. PICK k \in 1..Len(posted) : posted[k].type = "connected" /\ posted[k].id = id
      BY <1>2 DEF Pending
    <2>2. CASE k = 1
      BY <2>1, <2>2
    <2>3. CASE k # 1
      <3>1. k - 1 \in 1..Len(posted') /\ posted'[k - 1] = posted[(k - 1) + 1] /\ (k - 1) + 1 = k
        BY <1>1, <2>3, Delivered
      <3> QED
        BY <1>2, <2>1, <3>1 DEF Pending
    <2> QED
      BY <2>2, <2>3
  <1>3. CASE posted[1].type = "connected"
    <2>1. connectedClients' = connectedClients \cup {posted[1].id}
      BY <1>1, <1>3 DEF ServerCallback, OnQuietRouteClientConnect
    <2> QED
      BY <1>1, <1>2, <1>3, <2>1 DEF LiveInserted, LiveShrinks
  <1>4. ASSUME posted[1].type # "connected", NEW id \in Ids,
               \/ UNCHANGED connectedClients
               \/ connectedClients' = connectedClients \ {id} /\ ~Live(id)'
        PROVE  LiveInserted' /\ (connectedClients \subseteq Ids)'
    BY <1>2, <1>4 DEF LiveInserted, LiveShrinks
  <1>5. CASE posted[1].type = "disconnected"
    <2>1. PICK id \in Ids : id = posted[1].id
      BY <1>1, <1>5
    <2>2. connectedClients' = connectedClients \ {id}
      BY <1>1, <1>5, <2>1 DEF ServerCallback, OnQuietRouteClientDisconnect
    <2>3. ~Live(id)
      BY <1>1, <1>5, <2>1, Delivered DEF CallbacksInOrder, DisconnectedLast
    <2>4. ~Live(id)'
      BY <2>3 DEF LiveShrinks
    <2> QED
      BY <1>4, <1>5, <2>2, <2>4
  <1>6. CASE posted[1].type = "message"
    <2>1. PICK id \in Ids : id = posted[1].id
      BY <1>1, <1>6
    <2>2. \/ Close(id) /\ connectedClients' = connectedClients \ {id}
          \/ UNCHANGED connectedClients
      BY <1>1, <1>6, <2>1, MessageHandler DEF ServerCallback
    <2>3. Close(id) => ~Live(id)'
      <3> SUFFICES ASSUME Close(id), NEW s \in Sessions,
                          connections'[s] = [id |-> id, status |-> "kConnected"]
                   PROVE  FALSE
        BY DEF Live
      <3>1. connections'[s] # NoConnection /\ connections'[s].id = id
        BY DEF NoConnection
      <3> QED
        BY <3>1, CloseDrops
    <2> QED
      BY <1>4, <1>6, <2>2, <2>3
  <1>7. CASE posted[1].type = "serverDown"
    <2>1. UNCHANGED connectedClients
      BY <1>1, <1>7 DEF ServerCallback, OnQuietRouteDisconnect
    <2> QED
      BY <1>2, <1>7, <2>1 DEF LiveInserted, LiveShrinks
  <1> QED
    BY <1>1, <1>3, <1>5, <1>6, <1>7 DEF Callback

\* The end of the server ends its clients.
LEMMA StopShrinks ==
  ASSUME StatusRecorded, Stop, UNCHANGED <<posted, told>>
  PROVE  Quiet
  <1>1. UNCHANGED <<established, used>> /\ \A s \in Sessions : connections'[s] = NoConnection
    BY DEF Stop, histVars
  <1> QED
    BY <1>1, StatusShrinks DEF Quiet, LiveShrinks

\* Every step of the process keeps connectedClients_ complete.
LEMMA MonitorInserted ==
  ASSUME TypeOK, Maps, CallbacksInOrder, LiveInserted, connectedClients \subseteq Ids,
         [Next]_vars, [MonitorNext]_allVars
  PROVE  LiveInserted' /\ (connectedClients \subseteq Ids)'
  <1>1. CASE UNCHANGED vars /\ UNCHANGED connectedClients
    BY <1>1 DEF vars, LiveInserted, Live, Pending
  <1>2. ASSUME HandlerKind, UNCHANGED connectedClients
        PROVE  LiveInserted' /\ (connectedClients \subseteq Ids)'
    BY <1>2, HandlersInserted
  <1>3. CASE ServerCallback
    <2>1. Deliver
      BY <1>3 DEF ServerCallback
    <2>2. ASSUME NEW e \in Callback, Post(e)
          PROVE  FALSE
      BY <2>1, <2>2, Posted, Delivered
    <2>3. UNCHANGED posted => FALSE
      BY <2>1, Delivered
    <2>4. LiveShrinks
      BY <2>2, <2>3, NextKind, EventTypes
         DEF StepKind, HandlerKind, Quiet, Reports, Announces, ReportsDown, Delivers
    <2> QED
      BY <1>3, <2>4, ServerCallbackInserted
  <1>4. CASE ServerHandlers
    <2>1. UNCHANGED connectedClients
      BY <1>4 DEF ServerHandlers, monitorVars
    <2>2. HandlerKind
      BY <1>4, AcceptorKind, MessageKind, SessionKind DEF ServerHandlers, Handlers
    <2> QED
      BY <1>2, <2>1, <2>2
  <1>5. CASE ClientUpcall
    <2>1. /\ UNCHANGED vars \/ (Stop /\ UNCHANGED <<posted, told>>)
          /\ UNCHANGED connectedClients
      BY <1>5 DEF ClientUpcall, OnNetworkEventsConnect, serverVars
    <2> QED
      BY <1>1, <1>2, <2>1, StopShrinks DEF CallbacksInOrder, HandlerKind
  <1>6. CASE Configure
    <2>1. (UNCHANGED vars \/ Run) /\ UNCHANGED connectedClients
      BY <1>6 DEF Configure, serverVars
    <2> QED
      BY <1>1, <1>2, <2>1, AcceptorKind
  <1>7. CASE RunMonitor \/ ClientHandlers \/ Exit \/ UNCHANGED allVars
    BY <1>1, <1>7 DEF RunMonitor, ClientHandlers, Exit, allVars, serverVars, monitorVars
  <1> QED
    BY <1>3, <1>4, <1>5, <1>6, <1>7 DEF MonitorNext

\* The server stays open while the monitor runs.
LEMMA MonitorOpened ==
  ASSUME TypeOK, ServerOpened, [Next]_vars, [MonitorNext]_allVars
  PROVE  ServerOpened'
  <1>1. acceptor # "unopened" => acceptor' # "unopened"
    BY DEF Next, vars, netVars, Run, AcceptCompletes, OnConnectionAccepted, OnWsDisconnect,
           Handlers, OnConnect, OnTlsHandshake, OnHandshake, HandshakeFails, OnRead, ReadFails,
           ReadEnds, UserCallback, UserCall, UserOp, NoOp, Send, Close, Stop
  <1>2. CASE Configure
    BY <1>2 DEF Configure, ServerOpened
  <1>3. CASE ~Configure
    <2>1. process' \in {"configured", "running"} => process \in {"configured", "running"}
      BY <1>3 DEF MonitorNext, RunMonitor, ServerHandlers, ClientHandlers, ServerCallback,
                  ClientUpcall, Exit, allVars, monitorVars
    <2> QED
      BY <1>1, <2>1 DEF ServerOpened
  <1> QED
    BY <1>2, <1>3

-----------------------------------------------------------------------------
(* The theorems *)

\* The invariant holds when main starts.
LEMMA InitMonitor == MonitorInit => TypeOK /\ MonitorInvariant
  <1> SUFFICES ASSUME MonitorInit PROVE TypeOK /\ MonitorInvariant
    OBVIOUS
  <1>1. TypeOK /\ Maps /\ CallbacksInOrder
    BY InitTypeOK, InitMaps, InitCallbacks DEF MonitorInit
  <1>2. ServerOpened /\ connectedClients \subseteq Ids
    BY DEF MonitorInit, ServerOpened
  <1>3. \A s \in Sessions : /\ connections[s].status = "kInvalid"
                            /\ out[s] = <<>> /\ asked[s] = <<>>
                            /\ Len(out[s]) = 0 /\ Len(asked[s]) = 0
    BY DEF MonitorInit, Init, NoConnection
  <1>4. ConnectedClientsComplete /\ RepliesAnswerRequests
    BY <1>3 DEF ConnectedClientsComplete, RepliesAnswerRequests
  <1>5. RequestsWait
    <2>1. ASSUME NEW s \in Sessions PROVE Len(asked[s]) <= MaxRequests
      <3>1. Len(asked[s]) = 0
        BY <1>3
      <3>2. 0 <= MaxRequests
        OBVIOUS
      <3> QED
        BY <3>1, <3>2
    <2>2. \A s \in Sessions : connections[s].status # "kConnected"
      BY <1>3
    <2> QED
      BY <1>3, <2>1, <2>2 DEF RequestsWait
  <1> QED
    BY <1>1, <1>2, <1>4, <1>5 DEF MonitorInvariant

\* Every step keeps it, and is a step its server allows.
LEMMA NextMonitor ==
  TypeOK /\ MonitorInvariant /\ [MonitorNext]_allVars =>
    [Next]_vars /\ (TypeOK /\ MonitorInvariant)'
  <1> SUFFICES ASSUME TypeOK, MonitorInvariant, [MonitorNext]_allVars
               PROVE  [Next]_vars /\ (TypeOK /\ MonitorInvariant)'
    OBVIOUS
  <1>1. /\ Maps /\ CallbacksInOrder /\ ServerOpened /\ Replies
        /\ connectedClients \subseteq Ids /\ LiveInserted
    BY InsertedComplete DEF MonitorInvariant, Replies
  <1>2. [Next]_vars
    BY <1>1, MonitorStep
  <1>3. TypeOK' /\ Maps' /\ CallbacksInOrder'
    BY <1>1, <1>2, NextTypeOK, NextMaps, NextCallbacks
  <1>4. Replies' /\ ServerOpened'
    BY <1>1, <1>2, MonitorReplies, MonitorOpened
  <1>5. LiveInserted' /\ (connectedClients \subseteq Ids)'
    BY <1>1, <1>2, MonitorInserted
  <1>6. (TypeOK /\ Maps => (LiveInserted <=> ConnectedClientsComplete))'
    BY InsertedComplete, PTL
  <1> QED
    BY <1>2, <1>3, <1>4, <1>5, <1>6 DEF MonitorInvariant, Replies

\* The inductive invariant of the whole process, whatever the clients, the
\* network-events server and the network do.
THEOREM MonitorInvariantHolds == MonitorSpec => [](TypeOK /\ MonitorInvariant)
  BY InitMonitor, NextMonitor, PTL DEF MonitorSpec

\* The monitor is a user of StompServer as that module allows: it calls only methods
\* on clients it was told of, after Run, and never needs more than MaxFrames frames.
\* What is proved of StompServer for every user therefore holds of this process.
THEOREM MonitorUsesServer == MonitorSpec => Spec
  <1>1. MonitorInit => Init
    BY DEF MonitorInit
  <1> QED
    BY <1>1, NextMonitor, MonitorInvariantHolds, PTL DEF MonitorSpec, Spec

\* Every client is sent replies to its own requests only, in the order it asked.
THEOREM RepliesAnswerRequestsHolds == MonitorSpec => []RepliesAnswerRequests
  <1>1. MonitorInvariant => RepliesAnswerRequests
    BY DEF MonitorInvariant
  <1> QED
    BY <1>1, MonitorInvariantHolds, PTL

\* connectedClients_ misses no connected client but those about to be announced.
THEOREM ConnectedClientsCompleteHolds == MonitorSpec => []ConnectedClientsComplete
  <1>1. MonitorInvariant => ConnectedClientsComplete
    BY DEF MonitorInvariant
  <1> QED
    BY <1>1, MonitorInvariantHolds, PTL

\* Only the announcement of a client inserts it.
LEMMA InsertedByCallback ==
  ASSUME TypeOK, MonitorInvariant, [MonitorNext]_allVars,
         NEW id \in Ids, told[id] # "nothing", id \notin connectedClients
  PROVE  id \notin connectedClients'
  <1>1. CASE ServerCallback
    <2>1. Deliver /\ Head(posted) = posted[1] /\ posted[1] \in Callback /\ 1 \in 1..Len(posted)
      BY <1>1, Delivered DEF ServerCallback
    <2>2. posted[1].type = "connected" => told[posted[1].id] = "nothing"
      BY <2>1 DEF MonitorInvariant, CallbacksInOrder, AnnouncedOnce
    <2>3. \/ posted[1].type = "connected" /\ OnQuietRouteClientConnect(posted[1].id)
          \/ posted[1].type = "message" /\ OnQuietRouteClientMessage(posted[1].id, posted[1].req)
          \/ OnQuietRouteClientDisconnect(posted[1].id)
          \/ OnQuietRouteDisconnect
      BY <1>1, <2>1 DEF ServerCallback
    <2> QED
      BY <2>2, <2>3, MessageHandler DEF OnQuietRouteClientConnect, OnQuietRouteClientDisconnect,
                                        OnQuietRouteDisconnect
  <1>2. CASE ~ServerCallback
    BY <1>2 DEF MonitorNext, Configure, RunMonitor, ServerHandlers, ClientHandlers,
                ClientUpcall, Exit, allVars, monitorVars
  <1> QED
    BY <1>1, <1>2

\* A client erased from connectedClients_ is never inserted again: callbacks that
\* were queued when it was erased cannot bring it back.
THEOREM ErasedClientStaysErasedHolds == MonitorSpec => ErasedClientStaysErased
  <1>1. TypeOK /\ MonitorInvariant /\ [MonitorNext]_allVars =>
          [\A id \in Ids : told[id] # "nothing" /\ id \notin connectedClients
                             => id \notin connectedClients']_allVars
    BY InsertedByCallback
  <1> QED
    BY <1>1, MonitorInvariantHolds, PTL DEF MonitorSpec, ErasedClientStaysErased

-----------------------------------------------------------------------------
(* The monitor as the user of StompClient *)

\* The report of a connection names no subscription.
PlainCall == {c \in Client!Upcall : c.type = "connectOk" => c.sub = NoSub}

ClientQueue ==
  /\ upcalls \in Seq(PlainCall)
  /\ requested \in SUBSET SubIds
  /\ writes \in SUBSET Client!Operation

\* A callback of the client is queued.
LEMMA PostCallPlain ==
  ASSUME ClientQueue, NEW type \in Client!UpcallTypes, NEW sub \in SubIds \cup {NoSub},
         NEW body \in Bodies \cup {NoBody}, type = "connectOk" => sub = NoSub,
         Client!PostCall(type, sub, body)
  PROVE  upcalls' \in Seq(PlainCall)
  <1>1. Client!Call(type, sub, body) \in PlainCall
    BY DEF PlainCall, Client!Upcall, Client!Call
  <1> QED
    BY <1>1 DEF ClientQueue, Client!PostCall

\* A write of the client completes.
LEMMA OnWritePlain ==
  ASSUME ClientQueue, NEW w \in writes, NEW ok \in BOOLEAN, Client!OnWrite(w, ok)
  PROVE  ClientQueue'
  <1>1. writes' \in SUBSET Client!Operation /\ UNCHANGED requested
    BY DEF ClientQueue, Client!OnWrite
  <1>2. w \in Client!Operation
    BY DEF ClientQueue
  <1>3. w.sub \in SubIds \cup {NoSub}
    BY <1>2 DEF Client!Operation
  <1>4. \/ UNCHANGED upcalls
        \/ Client!PostCall("connectError", NoSub, NoBody)
        \/ Client!PostCall("subscribeError", w.sub, NoBody)
        \/ Client!PostCall("closed", NoSub, NoBody)
    BY DEF Client!OnWrite, Client!OnWsSendStomp, Client!OnWsSendSubscribe, Client!OnWsClose
  <1>5. upcalls' \in Seq(PlainCall)
    BY <1>3, <1>4, PostCallPlain DEF ClientQueue, Client!UpcallTypes
  <1> QED
    BY <1>1, <1>5 DEF ClientQueue

\* The client reads a frame.
LEMMA OnReadPlain ==
  ASSUME ClientQueue, NEW f \in Client!Frame, Client!OnRead(f)
  PROVE  ClientQueue'
  <1>1. UNCHANGED <<writes, requested>>
    BY DEF Client!OnRead
  <1>2. f.sub \in SubIds \cup {NoSub} /\ f.body \in Bodies \cup {NoBody}
    BY DEF Client!Frame, ClientQueue
  <1>3. \/ UNCHANGED upcalls
        \/ Client!PostCall("connectError", NoSub, NoBody)
        \/ Client!PostCall("connectOk", NoSub, NoBody)
        \/ Client!PostCall("send", NoSub, NoBody)
        \/ Client!PostCall("subscribed", f.sub, NoBody)
        \/ f.kind \in {"message", "mismatch"} /\ Client!PostCall(f.kind, f.sub, f.body)
    BY DEF Client!OnRead, Client!OnWsMessage, Client!HandleMessage,
           Client!HandleSubscriptionMessage, Client!HandleSubscriptionReceipt
  <1>4. upcalls' \in Seq(PlainCall)
    BY <1>2, <1>3, PostCallPlain DEF ClientQueue, Client!UpcallTypes
  <1> QED
    BY <1>1, <1>4 DEF ClientQueue

\* The other handlers of the client.
LEMMA LinkPlain ==
  ASSUME ClientQueue,
         \/ Client!OnStepDone \/ Client!OnStepFailed \/ Client!OnHandshake
         \/ Client!ReadFails \/ Client!ReadAborted
  PROVE  ClientQueue'
  <1>1. \/ UNCHANGED upcalls
        \/ Client!PostCall("connectError", NoSub, NoBody)
        \/ Client!PostCall("disconnect", NoSub, NoBody)
    BY DEF Client!OnStepDone, Client!OnStepFailed, Client!OnHandshake, Client!ReadFails,
           Client!ReadAborted
  <1>2. upcalls' \in Seq(PlainCall)
    BY <1>1, PostCallPlain DEF ClientQueue, Client!UpcallTypes
  <1>3. [op |-> "stomp", sub |-> NoSub, wired |-> TRUE] \in Client!Operation
    BY DEF Client!Operation
  <1>4. writes' \in SUBSET Client!Operation /\ UNCHANGED requested
    BY <1>3 DEF ClientQueue, Client!OnStepDone, Client!OnStepFailed,
                Client!OnHandshake, Client!ReadFails, Client!ReadAborted
  <1> QED
    BY <1>2, <1>4 DEF ClientQueue

\* A callback of the client runs, with the handler the monitor registered for it:
\* the monitor closes the client, or subscribes when it has just connected.
LEMMA ClientUpcallStep ==
  ASSUME ClientQueue, ClientUpcall
  PROVE  Client!UserCallback /\ ClientQueue'
  <1>1. /\ Client!Deliver /\ Head(upcalls) \in PlainCall
        /\ upcalls' \in Seq(PlainCall)
    BY DEF ClientUpcall, Client!Deliver, ClientQueue
  <1>2. \/ Client!Close(FALSE)
        \/ Head(upcalls).type = "connectOk" /\ \E sub \in SubIds : Client!Subscribe(sub)
        \/ Client!NoOp
    BY DEF ClientUpcall, OnNetworkEventsConnect
  <1>3. CASE Client!Close(FALSE)
    <2>1. UNCHANGED <<writes, requested>>
      BY <1>3 DEF Client!Close
    <2> QED
      BY <1>1, <1>3, <2>1 DEF Client!UserCallback, Client!UserOp, ClientQueue
  <1>4. CASE Head(upcalls).type = "connectOk" /\ \E sub \in SubIds : Client!Subscribe(sub)
    <2>1. Head(upcalls).sub = NoSub
      BY <1>1, <1>4 DEF PlainCall
    <2>2. <<"connectOk", NoSub>> \in heard'
      BY <1>1, <1>4, <2>1 DEF Client!Deliver, Client!Milestones
    <2>3. PICK sub \in SubIds : Client!Subscribe(sub)
      BY <1>4
    <2>4. writes' \in SUBSET Client!Operation /\ requested' \in SUBSET SubIds
      <3>1. PICK wired \in BOOLEAN : wired = (link = "open")
        OBVIOUS
      <3>2. [op |-> "subscribe", sub |-> sub, wired |-> wired] \in Client!Operation
        BY DEF Client!Operation
      <3>3. writes' = writes \cup {[op |-> "subscribe", sub |-> sub, wired |-> wired]}
        BY <2>3, <3>1 DEF Client!Subscribe, Client!Start
      <3> QED
        BY <2>3, <3>2, <3>3 DEF Client!Subscribe, ClientQueue
    <2> QED
      BY <1>1, <2>2, <2>3, <2>4 DEF Client!UserCallback, Client!UserOp, ClientQueue
  <1>5. CASE Client!NoOp
    BY <1>1, <1>5 DEF Client!NoOp, Client!UserCallback, ClientQueue
  <1> QED
    BY <1>2, <1>3, <1>4, <1>5

\* Every step of the process is one of the client, or leaves the client alone.
LEMMA MonitorClientStep ==
  ASSUME ClientQueue, [MonitorNext]_allVars
  PROVE  [Client!Next]_(Client!clientVars) /\ ClientQueue'
  <1>1. CASE UNCHANGED clientVars
    BY <1>1 DEF clientVars, Client!clientVars, ClientQueue
  <1>2. CASE ClientUpcall
    BY <1>2, ClientUpcallStep DEF Client!Next
  <1>3. CASE ClientHandlers
    <2>1. Client!Handlers
      BY <1>3 DEF ClientHandlers
    <2>2. ClientQueue'
      BY <2>1, OnWritePlain, OnReadPlain, LinkPlain DEF Client!Handlers
    <2> QED
      BY <2>1, <2>2 DEF Client!Next
  <1>4. CASE Configure
    <2>1. CASE Client!Connect
      BY <2>1 DEF Client!Connect, Client!Next, ClientQueue
    <2> QED
      BY <1>1, <1>4, <2>1 DEF Configure
  <1>5. CASE RunMonitor \/ ServerHandlers \/ ServerCallback \/ Exit \/ UNCHANGED allVars
    BY <1>1, <1>5 DEF RunMonitor, ServerHandlers, ServerCallback, Exit, allVars
  <1> QED
    BY <1>2, <1>3, <1>4, <1>5 DEF MonitorNext

\* The monitor is a user of StompClient as that module allows: it connects once, and
\* subscribes only when it has been told that the connection stands.
THEOREM MonitorUsesClient == MonitorSpec => Client!Spec
  <1>1. MonitorInit => Client!Init /\ ClientQueue
    BY DEF MonitorInit, Client!Init, ClientQueue
  <1>2. ClientQueue /\ [MonitorNext]_allVars =>
          [Client!Next]_(Client!clientVars) /\ ClientQueue'
    BY MonitorClientStep
  <1> QED
    BY <1>1, <1>2, PTL DEF MonitorSpec, Client!Spec

-----------------------------------------------------------------------------
(* Types of the whole process *)

\* The variables of the client that ClientQueue does not speak of.
ClientState ==
  /\ link \in Client!Links
  /\ m_closed \in BOOLEAN
  /\ subscriptions \in SUBSET SubIds
  /\ receipts \in SUBSET SubIds
  /\ heard \in SUBSET (Client!Milestones \X (SubIds \cup {NoSub}))

\* A handler of the client keeps them in their types: a SUBSCRIBE that was written
\* and a receipt that was read name ids of the client's own.
LEMMA ClientHandlersState ==
  ASSUME ClientQueue, ClientState, Client!Handlers
  PROVE  ClientState'
  <1>1. CASE \/ Client!OnStepDone \/ Client!OnStepFailed \/ Client!OnHandshake
             \/ Client!ReadFails \/ Client!ReadAborted
    BY <1>1 DEF ClientState, Client!Links, Client!OnStepDone, Client!NextStep,
                Client!OnStepFailed, Client!OnHandshake, Client!ReadFails, Client!ReadAborted
  <1>2. ASSUME NEW w \in writes, NEW ok \in BOOLEAN, Client!OnWrite(w, ok)
        PROVE  ClientState'
    <2>1. w \in Client!Operation
      BY DEF ClientQueue
    <2>2. w.op = "subscribe" => w.sub \in SubIds
      BY <2>1 DEF Client!Operation
    <2>3. subscriptions' \in SUBSET SubIds
      BY <1>2, <2>2 DEF ClientState, Client!OnWrite, Client!OnWsSendStomp,
                        Client!OnWsSendSubscribe, Client!OnWsClose
    <2>4. link' \in Client!Links
      BY <1>2 DEF ClientState, Client!Links, Client!OnWrite
    <2> QED
      BY <1>2, <2>3, <2>4 DEF ClientState, Client!OnWrite
  <1>3. ASSUME NEW f \in Client!Frame, Client!OnRead(f)
        PROVE  ClientState'
    <2>1. f.sub \in SubIds \cup {NoSub}
      BY DEF Client!Frame, ClientQueue
    <2> QED
      BY <1>3, <2>1 DEF ClientState, Client!OnRead
  <1> QED
    BY <1>1, <1>2, <1>3 DEF Client!Handlers

\* So does every other step of the process.
LEMMA MonitorClientState ==
  ASSUME ClientQueue, ClientState, [MonitorNext]_allVars
  PROVE  ClientState'
  <1>1. CASE UNCHANGED clientVars
    BY <1>1 DEF clientVars, ClientState
  <1>2. CASE ClientUpcall
    <2>1. /\ heard' \in SUBSET (Client!Milestones \X (SubIds \cup {NoSub}))
          /\ UNCHANGED <<link, receipts>>
      BY <1>2 DEF ClientUpcall, OnNetworkEventsConnect, Client!Deliver, ClientState,
                  Client!Close, Client!Subscribe, Client!NoOp
    <2>2. subscriptions' \in SUBSET SubIds /\ m_closed' \in BOOLEAN
      BY <1>2 DEF ClientUpcall, OnNetworkEventsConnect, ClientState,
                  Client!Close, Client!Subscribe, Client!NoOp
    <2> QED
      BY <2>1, <2>2 DEF ClientState
  <1>3. CASE ClientHandlers
    BY <1>3, ClientHandlersState DEF ClientHandlers
  <1>4. CASE Configure
    <2>1. CASE Client!Connect
      <3>1. m_closed' \in BOOLEAN /\ link' \in Client!Links
        BY <2>1 DEF Client!Connect, Client!Links
      <3> QED
        BY <2>1, <3>1 DEF Client!Connect, ClientState
    <2> QED
      BY <1>1, <1>4, <2>1 DEF Configure
  <1>5. CASE RunMonitor \/ ServerHandlers \/ ServerCallback \/ Exit \/ UNCHANGED allVars
    BY <1>1, <1>5 DEF RunMonitor, ServerHandlers, ServerCallback, Exit, allVars
  <1> QED
    BY <1>2, <1>3, <1>4, <1>5 DEF MonitorNext

\* main goes on to a state or exit code of its own, and every handler leaves one of
\* NetworkMonitorError in lastErrorCode_.
LEMMA MonitorCodes ==
  ASSUME process \in Processes, lastErrorCode \in ErrorCodes, [MonitorNext]_allVars
  PROVE  process' \in Processes /\ lastErrorCode' \in ErrorCodes
  <1>1. CASE Configure \/ RunMonitor \/ Exit
    <2>1. process' \in Processes
      BY <1>1, Zenon DEF Configure, RunMonitor, Exit, Processes
    <2>2. lastErrorCode' = lastErrorCode \/ lastErrorCode' = "kOk"
      BY <1>1, Zenon DEF Configure, RunMonitor, Exit
    <2> QED
      BY <2>1, <2>2 DEF ErrorCodes
  <1>2. CASE ClientUpcall
    BY <1>2 DEF ClientUpcall, OnNetworkEventsConnect, OnNetworkEventsMessage, ErrorCodes
  <1>3. CASE ServerCallback
    BY <1>3 DEF ServerCallback, OnQuietRouteClientConnect, OnQuietRouteClientMessage,
                OnQuietRouteClientDisconnect, OnQuietRouteDisconnect, ErrorCodes
  <1>4. CASE ServerHandlers \/ ClientHandlers \/ UNCHANGED allVars
    BY <1>4 DEF ServerHandlers, ClientHandlers, allVars, monitorVars
  <1> QED
    BY <1>1, <1>2, <1>3, <1>4 DEF MonitorNext

\* Every reachable state of the process is well typed: server, client and monitor
\* together, whatever the peers of both and the network do.
THEOREM MonitorTypeCorrect == MonitorSpec => []MonitorTypeOK
  <1> DEFINE Codes == process \in Processes /\ lastErrorCode \in ErrorCodes
  <1>1. MonitorInit => ClientQueue /\ ClientState /\ Codes
    <2> SUFFICES ASSUME MonitorInit PROVE ClientQueue /\ ClientState /\ Codes
      OBVIOUS
    <2>1. ClientQueue
      BY DEF MonitorInit, Client!Init, ClientQueue
    <2>2. m_closed \in BOOLEAN
      BY DEF MonitorInit, Client!Init
    <2>3. ClientState
      BY <2>2 DEF MonitorInit, Client!Init, ClientState, Client!Links
    <2>4. Codes
      BY Zenon DEF MonitorInit, Processes, ErrorCodes
    <2> QED
      BY <2>1, <2>3, <2>4
  <1>2. ClientQueue /\ ClientState /\ Codes /\ [MonitorNext]_allVars =>
          (ClientQueue /\ ClientState /\ Codes)'
    BY MonitorClientStep, MonitorClientState, MonitorCodes
  <1>3. TypeOK /\ MonitorInvariant /\ ClientQueue /\ ClientState /\ Codes => MonitorTypeOK
    <2> SUFFICES ASSUME TypeOK, MonitorInvariant, ClientQueue, ClientState, Codes
                 PROVE  MonitorTypeOK
      OBVIOUS
    <2>1. upcalls \in Seq(Client!Upcall)
      <3>1. PlainCall \subseteq Client!Upcall
        BY DEF PlainCall
      <3> QED
        BY <3>1 DEF ClientQueue
    <2>2. Client!TypeOK
      BY <2>1 DEF ClientQueue, ClientState, Client!TypeOK
    <2>3. connectedClients \in SUBSET Ids
      BY DEF MonitorInvariant
    <2> QED
      BY <2>2, <2>3 DEF MonitorTypeOK
  <1> HIDE DEF Codes
  <1> QED
    BY <1>1, <1>2, <1>3, MonitorInvariantHolds, PTL DEF MonitorSpec
=============================================================================
