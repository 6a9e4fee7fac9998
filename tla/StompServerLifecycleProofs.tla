--------------------- MODULE StompServerLifecycleProofs ---------------------
(***************************************************************************)
(* What the user of StompServer hears: the callbacks queued on context_    *)
(* are in order, and StompServer implements ClientLifecycle.  For any sets *)
(* of sessions, identifiers and requests, any bounds, and queues of any    *)
(* length.                                                                 *)
(***************************************************************************)
EXTENDS StompServerProofs

USE NullAssumption

(* The queue *)

\* Initially nothing is queued and nobody was told anything.
LEMMA InitCallbacks == Init => CallbacksInOrder
  <1> SUFFICES ASSUME Init PROVE CallbacksInOrder
    OBVIOUS
  <1>1. Len(posted) = 0
    BY DEF Init
  <1>2. StatusRecorded
    BY DEF Init, StatusRecorded, NoConnection
  <1>3. QueuedEstablished /\ AnnouncedOnce /\ AnnouncedFirst /\ DisconnectedLast
    BY <1>1 DEF QueuedEstablished, AnnouncedOnce, AnnouncedFirst, DisconnectedLast
  <1>4. ToldAgrees
    BY DEF Init, ToldAgrees
  <1> QED
    BY <1>2, <1>3, <1>4 DEF CallbacksInOrder

\* The queue after a callback was posted.
LEMMA Posted ==
  ASSUME TypeOK, NEW e \in Callback, Post(e)
  PROVE  /\ Len(posted) \in Nat
         /\ Len(posted') = Len(posted) + 1
         /\ \A k \in 1..Len(posted) : posted'[k] = posted[k]
         /\ posted'[Len(posted) + 1] = e
  BY DEF TypeOK, Post

\* The queue after its oldest callback ran.
LEMMA Delivered ==
  ASSUME TypeOK, Deliver
  PROVE  /\ Len(posted) \in Nat \ {0}
         /\ Len(posted') = Len(posted) - 1
         /\ \A k \in 1..Len(posted') : posted'[k] = posted[k + 1]
         /\ Head(posted) = posted[1]
         /\ posted[1] \in Callback
  BY DEF TypeOK, Deliver

\* Connections that end, or are no longer looked up, keep the records.
LEMMA StatusShrinks ==
  ASSUME StatusRecorded, established' = established, used \subseteq used',
         \A s \in Sessions : connections'[s] \in {connections[s], NoConnection}
  PROVE  StatusRecorded' /\ \A id \in Ids : Live(id)' => Live(id)
  <1>1. StatusRecorded'
    BY DEF StatusRecorded, NoConnection
  <1>2. \A id \in Ids : Live(id)' => Live(id)
    BY DEF Live, NoConnection
  <1> QED
    BY <1>1, <1>2

\* Steps that post nothing and run no callback.
LEMMA CallbacksFrame ==
  ASSUME TypeOK, CallbacksInOrder, UNCHANGED <<posted, told, established>>,
         StatusRecorded', \A id \in Ids : Live(id)' => Live(id)
  PROVE  CallbacksInOrder'
  <1> USE DEF CallbacksInOrder
  <1>1. QueuedEstablished' /\ AnnouncedOnce' /\ AnnouncedFirst'
    BY DEF QueuedEstablished, AnnouncedOnce, AnnouncedFirst
  <1>2. DisconnectedLast'
    BY DEF DisconnectedLast, QueuedEstablished, TypeOK
  <1>3. ToldAgrees'
    BY DEF ToldAgrees, Pending
  <1> QED
    BY <1>1, <1>2, <1>3

\* A step posts a callback about an established client, whose connection stands:
\* a message, or its disconnection if the connection ends with this step.
LEMMA CallbacksReport ==
  ASSUME TypeOK, CallbacksInOrder, UNCHANGED <<told, established>>,
         NEW e \in Callback, Post(e), e.type \in {"message", "disconnected"},
         e.id \in Ids, Live(e.id), e.id \in established,
         e.type = "disconnected" => ~Live(e.id)',
         StatusRecorded', \A id \in Ids : Live(id)' => Live(id)
  PROVE  CallbacksInOrder'
  <1> USE DEF CallbacksInOrder
  <1> DEFINE n == Len(posted)
  <1>1. /\ n \in Nat /\ Len(posted') = n + 1
        /\ \A k \in 1..n : posted'[k] = posted[k]
        /\ posted'[n + 1] = e
    BY Posted
  <1> HIDE DEF n
  <1>q. n = Len(posted)
    BY DEF n
  <1>2. QueuedEstablished'
    BY <1>1, <1>q DEF QueuedEstablished
  <1>3. AnnouncedOnce'
    BY <1>1, <1>q DEF AnnouncedOnce
  <1>4. told[e.id] \in {"connected", "message"} \/ Pending("connected", e.id)
    BY DEF ToldAgrees, TypeOK
  <1>5. AnnouncedFirst'
    <2> SUFFICES ASSUME NEW k \in 1..(n + 1), posted'[k].type \in {"message", "disconnected"}
                 PROVE  \/ told[posted'[k].id] \in {"connected", "message"}
                        \/ \E j \in 1..(k - 1) :
                             posted'[j].type = "connected" /\ posted'[j].id = posted'[k].id
      BY <1>1 DEF AnnouncedFirst
    <2>1. CASE k = n + 1
      BY <1>1, <1>4, <1>q, <2>1 DEF Pending
    <2>2. CASE k # n + 1
      <3>1. k \in 1..n /\ \A j \in 1..(k - 1) : j \in 1..n
        BY <1>1, <2>2
      <3> QED
        BY <1>1, <1>q, <3>1 DEF AnnouncedFirst
    <2> QED
      BY <2>1, <2>2
  <1>6. \A k \in 1..n : posted[k].type = "disconnected" => posted[k].id \in Ids /\ posted[k].id # e.id
    BY <1>q DEF DisconnectedLast, QueuedEstablished, TypeOK
  <1>7. DisconnectedLast'
    BY <1>1, <1>6, <1>q DEF DisconnectedLast
  <1>8. ToldAgrees'
    <2>1. \A id \in Ids : Pending("connected", id) => Pending("connected", id)'
      BY <1>1, <1>q DEF Pending
    <2>2. \A id \in Ids : told[id] = "disconnected" => id # e.id
      BY DEF ToldAgrees
    <2> QED
      BY <1>1, <1>q, <2>1, <2>2 DEF ToldAgrees
  <1> QED
    BY <1>2, <1>3, <1>5, <1>7, <1>8

\* A client completes the STOMP handshake and is announced.
LEMMA CallbacksAnnounce ==
  ASSUME TypeOK, CallbacksInOrder, UNCHANGED told,
         NEW e \in Callback, Post(e), e.type = "connected", e.id \in Ids \ established,
         established' = established \cup {e.id},
         StatusRecorded', \A id \in Ids \ {e.id} : Live(id)' => Live(id)
  PROVE  CallbacksInOrder'
  <1> USE DEF CallbacksInOrder
  <1> DEFINE n == Len(posted)
  <1>1. /\ n \in Nat /\ Len(posted') = n + 1
        /\ \A k \in 1..n : posted'[k] = posted[k]
        /\ posted'[n + 1] = e
    BY Posted
  <1> HIDE DEF n
  <1>q. n = Len(posted)
    BY DEF n
  <1>2. QueuedEstablished'
    BY <1>1, <1>q DEF QueuedEstablished
  <1>3. told[e.id] = "nothing" /\ \A k \in 1..n : posted[k].id # e.id
    <2>1. told[e.id] = "nothing"
      BY DEF ToldAgrees
    <2> QED
      BY <1>q, <2>1 DEF QueuedEstablished
  <1>4. AnnouncedOnce'
    BY <1>1, <1>3, <1>q DEF AnnouncedOnce
  <1>5. AnnouncedFirst'
    <2> SUFFICES ASSUME NEW k \in 1..n, posted[k].type \in {"message", "disconnected"}
                 PROVE  \/ told[posted[k].id] \in {"connected", "message"}
                        \/ \E j \in 1..(k - 1) :
                             posted'[j].type = "connected" /\ posted'[j].id = posted[k].id
      BY <1>1 DEF AnnouncedFirst
    <2>1. \A j \in 1..(k - 1) : j \in 1..n
      BY <1>1
    <2> QED
      BY <1>1, <1>q, <2>1 DEF AnnouncedFirst
  <1>6. DisconnectedLast'
    <2>1. \A k \in 1..n : posted[k].type = "disconnected" => posted[k].id \in Ids \ {e.id}
      BY <1>3, <1>q DEF QueuedEstablished, TypeOK
    <2> QED
      BY <1>1, <1>3, <1>q, <2>1 DEF DisconnectedLast
  <1>7. ToldAgrees'
    <2>1. \A id \in Ids : Pending("connected", id) => Pending("connected", id)'
      BY <1>1, <1>q DEF Pending
    <2>2. Pending("connected", e.id)'
      BY <1>1 DEF Pending
    <2> QED
      BY <1>1, <1>3, <1>q, <2>1, <2>2 DEF ToldAgrees
  <1> QED
    BY <1>2, <1>4, <1>5, <1>6, <1>7

\* The WebSocketServer reports that it no longer accepts connections.
LEMMA CallbacksServerDown ==
  ASSUME TypeOK, CallbacksInOrder, UNCHANGED <<told, established, connections>>,
         Post(Event("serverDown", NoId, NoRequest)), StatusRecorded'
  PROVE  CallbacksInOrder'
  <1> USE DEF CallbacksInOrder
  <1> DEFINE n == Len(posted)
             e == Event("serverDown", NoId, NoRequest)
  <1>1. /\ n \in Nat /\ Len(posted') = n + 1
        /\ \A k \in 1..n : posted'[k] = posted[k]
        /\ posted'[n + 1] = e
    BY Posted, EventTypes
  <1>2. e.type = "serverDown" /\ e.id = NoId
    BY DEF Event
  <1>3. \A id \in Ids : Live(id)' <=> Live(id)
    BY DEF Live
  <1> HIDE DEF n, e
  <1>q. n = Len(posted)
    BY DEF n
  <1>4. QueuedEstablished'
    BY <1>1, <1>2, <1>q DEF QueuedEstablished
  <1>5. AnnouncedOnce'
    BY <1>1, <1>2, <1>q DEF AnnouncedOnce
  <1>6. AnnouncedFirst'
    <2> SUFFICES ASSUME NEW k \in 1..n, posted[k].type \in {"message", "disconnected"}
                 PROVE  \/ told[posted[k].id] \in {"connected", "message"}
                        \/ \E j \in 1..(k - 1) :
                             posted'[j].type = "connected" /\ posted'[j].id = posted[k].id
      BY <1>1, <1>2 DEF AnnouncedFirst
    <2>1. \A j \in 1..(k - 1) : j \in 1..n
      BY <1>1
    <2> QED
      BY <1>1, <1>q, <2>1 DEF AnnouncedFirst
  <1>7. DisconnectedLast'
    <2>1. \A k \in 1..n : posted[k].type = "disconnected" => posted[k].id \in Ids
      BY <1>q DEF QueuedEstablished, TypeOK
    <2> QED
      BY <1>1, <1>2, <1>3, <1>q, <2>1 DEF DisconnectedLast
  <1>8. ToldAgrees'
    <2>1. \A id \in Ids : Pending("connected", id) => Pending("connected", id)'
      BY <1>1, <1>q DEF Pending
    <2> QED
      BY <1>1, <1>2, <1>3, <1>q, <2>1 DEF ToldAgrees
  <1> QED
    BY <1>4, <1>5, <1>6, <1>7, <1>8

\* context_ runs the oldest callback, during which connections may end.
LEMMA CallbacksDeliver ==
  ASSUME TypeOK, CallbacksInOrder, Deliver, UNCHANGED established,
         StatusRecorded', \A id \in Ids : Live(id)' => Live(id)
  PROVE  CallbacksInOrder'
  <1> USE DEF CallbacksInOrder
  <1> DEFINE n == Len(posted)
             e == posted[1]
  <1>1. /\ n \in Nat \ {0} /\ Len(posted') = n - 1
        /\ \A k \in 1..(n - 1) : posted'[k] = posted[k + 1]
        /\ Head(posted) = e
        /\ e \in Callback
    BY Delivered
  <1>2. told' = IF e.type = "serverDown" THEN told ELSE [told EXCEPT ![e.id] = e.type]
    BY <1>1 DEF Deliver
  <1>3. \A k \in 1..(n - 1) : k + 1 \in 1..n
    BY <1>1
  <1>4. /\ e.type # "serverDown" => e.id \in Ids /\ e.id \in established
        /\ e.type = "serverDown" => e.id = NoId
    BY <1>1 DEF QueuedEstablished, TypeOK
  <1>5. \A id \in Ids : told'[id] = IF id = e.id THEN e.type ELSE told[id]
    BY <1>2, <1>4 DEF TypeOK
  <1>6. e.type \in {"connected", "message", "disconnected", "serverDown"}
    BY <1>1 DEF Callback
  <1>7. \A k \in 1..n : posted[k].type # "serverDown" => posted[k].id \in Ids
    BY DEF QueuedEstablished, TypeOK
  <1>8. \A k \in 1..n : k > 1 /\ posted[k].id = e.id => e.type # "disconnected"
    BY <1>1 DEF DisconnectedLast
  <1>9. \A k \in 1..n : k > 1 /\ posted[k].type = "connected" => posted[k].id # e.id
    <2> SUFFICES ASSUME NEW k \in 1..n, k > 1, posted[k].type = "connected",
                        posted[k].id = e.id
                 PROVE  FALSE
      OBVIOUS
    <2>1. told[e.id] = "nothing" /\ e.type # "connected"
      BY <1>1 DEF AnnouncedOnce
    <2>2. e.type \in {"message", "disconnected"}
      BY <1>4, <1>6, <1>7, <2>1
    <2> QED
      BY <1>1, <2>1, <2>2 DEF AnnouncedFirst
  <1>10. e.type \in {"message", "disconnected"} => told[e.id] \in {"connected", "message"}
    BY <1>1 DEF AnnouncedFirst
  <1> HIDE DEF n, e
  <1>q. n = Len(posted) /\ e = posted[1]
    BY DEF n, e
  <1>11. QueuedEstablished'
    BY <1>1, <1>3, <1>q DEF QueuedEstablished
  <1>12. AnnouncedOnce'
    <2> SUFFICES ASSUME NEW k \in 1..(n - 1), posted'[k].type = "connected"
                 PROVE  /\ told'[posted'[k].id] = "nothing"
                        /\ \A j \in 1..(n - 1) :
                             posted'[j].type = "connected"
                               /\ posted'[j].id = posted'[k].id => j = k
      BY <1>1 DEF AnnouncedOnce
    <2>1. /\ k + 1 \in 1..n /\ k + 1 > 1
          /\ posted'[k] = posted[k + 1]
      BY <1>1, <1>3
    <2>2. posted[k + 1].id # e.id /\ posted[k + 1].id \in Ids
      BY <1>7, <1>9, <2>1
    <2>3. told'[posted[k + 1].id] = "nothing"
      BY <1>5, <1>q, <2>1, <2>2 DEF AnnouncedOnce
    <2>4. ASSUME NEW j \in 1..(n - 1), posted'[j].type = "connected",
                 posted'[j].id = posted'[k].id
          PROVE  j = k
      <3>1. j + 1 \in 1..n /\ posted'[j] = posted[j + 1]
        BY <1>1, <1>3
      <3>2. j + 1 = k + 1
        BY <1>q, <2>1, <2>4, <3>1 DEF AnnouncedOnce
      <3> QED
        BY <1>1, <3>2
    <2> QED
      BY <2>1, <2>3, <2>4
  <1>13. AnnouncedFirst'
    <2> SUFFICES ASSUME NEW k \in 1..(n - 1),
                        posted[k + 1].type \in {"message", "disconnected"}
                 PROVE  \/ told'[posted[k + 1].id] \in {"connected", "message"}
                        \/ \E j \in 1..(k - 1) :
                             posted'[j].type = "connected" /\ posted'[j].id = posted[k + 1].id
      BY <1>1 DEF AnnouncedFirst
    <2> DEFINE i == posted[k + 1].id
    <2>1. k + 1 \in 1..n /\ i \in Ids
      BY <1>1, <1>3, <1>7
    <2>2. CASE i = e.id
      BY <1>1, <1>4, <1>5, <1>6, <1>8, <2>1, <2>2
    <2>3. CASE i # e.id
      <3>1. CASE told[i] \in {"connected", "message"}
        BY <1>5, <2>1, <2>3, <3>1
      <3>2. ASSUME NEW j \in 1..k, posted[j].type = "connected", posted[j].id = i
            PROVE  \E m \in 1..(k - 1) : posted'[m].type = "connected" /\ posted'[m].id = i
        <4>1. j # 1 /\ j - 1 \in 1..(k - 1) /\ j - 1 \in 1..(n - 1) /\ (j - 1) + 1 = j
          BY <1>1, <1>q, <2>1, <2>3, <3>2
        <4>2. posted'[j - 1] = posted[j]
          BY <1>1, <4>1
        <4> QED
          BY <3>2, <4>1, <4>2
      <3> QED
        BY <1>1, <1>q, <2>1, <3>1, <3>2 DEF AnnouncedFirst
    <2> QED
      BY <2>2, <2>3
  <1>14. DisconnectedLast'
    <2> SUFFICES ASSUME NEW k \in 1..(n - 1), posted'[k].type = "disconnected"
                 PROVE  /\ ~Live(posted[k].id)'
                        /\ \A j \in (k + 1)..(n - 1) : posted'[j].id # posted'[k].id
      BY <1>1 DEF DisconnectedLast
    <2>1. k + 1 \in 1..n /\ posted'[k] = posted[k + 1] /\ posted[k + 1].id \in Ids
      BY <1>1, <1>3, <1>7
    <2>2. ~Live(posted[k].id)'
      BY <1>q, <2>1 DEF DisconnectedLast
    <2>3. ASSUME NEW j \in (k + 1)..(n - 1)
          PROVE  posted'[j].id # posted'[k].id
      <3>1. /\ j \in 1..(n - 1) /\ j + 1 \in ((k + 1) + 1)..n
            /\ posted'[j] = posted[j + 1]
        BY <1>1
      <3> QED
        BY <1>q, <2>1, <3>1 DEF DisconnectedLast
    <2> QED
      BY <2>2, <2>3
  <1>15. ToldAgrees'
    <2> SUFFICES ASSUME NEW id \in Ids
                 PROVE  /\ told'[id] # "nothing" => id \in established
                        /\ id \in established /\ told'[id] = "nothing" =>
                             Pending("connected", id)'
                        /\ told'[id] = "disconnected" =>
                             ~Live(id)' /\ \A k \in 1..(n - 1) : posted[k + 1].id # id
      BY <1>1 DEF ToldAgrees
    <2>1. told'[id] # "nothing" => id \in established
      BY <1>4, <1>5 DEF ToldAgrees
    <2>2. ASSUME id \in established, told'[id] = "nothing"
          PROVE  Pending("connected", id)'
      <3>1. id # e.id /\ told[id] = "nothing"
        BY <1>5, <1>6, <2>2
      <3>2. PICK j \in 1..n : posted[j].type = "connected" /\ posted[j].id = id
        BY <1>q, <2>2, <3>1 DEF ToldAgrees, Pending
      <3>3. j # 1 /\ j - 1 \in 1..(n - 1) /\ (j - 1) + 1 = j
        BY <1>1, <1>q, <3>1, <3>2
      <3>4. posted'[j - 1] = posted[j]
        BY <1>1, <3>3
      <3> QED
        BY <1>1, <3>2, <3>3, <3>4 DEF Pending
    <2>3. ASSUME told'[id] = "disconnected"
          PROVE  ~Live(id)' /\ \A k \in 1..(n - 1) : posted[k + 1].id # id
      <3>1. CASE id = e.id
        <4>1. e.type = "disconnected"
          BY <1>5, <2>3, <3>1
        <4>2. ~Live(id)
          BY <1>1, <1>q, <3>1, <4>1 DEF DisconnectedLast
        <4> QED
          BY <1>1, <1>3, <1>8, <3>1, <4>1, <4>2
      <3>2. CASE id # e.id
        <4>1. told[id] = "disconnected"
          BY <1>5, <2>3, <3>2
        <4> QED
          BY <1>3, <1>q, <4>1 DEF ToldAgrees
      <3> QED
        BY <3>1, <3>2
    <2> QED
      BY <2>1, <2>2, <2>3
  <1> QED
    BY <1>11, <1>12, <1>13, <1>14, <1>15

-----------------------------------------------------------------------------
(* Every step is one of five kinds, as far as the user's callbacks go *)

\* No connection is established.
LiveShrinks == StatusRecorded' /\ \A id \in Ids : Live(id)' => Live(id)

\* Nothing is posted and no callback runs.
Quiet == UNCHANGED <<posted, told, established>> /\ LiveShrinks

\* A message or the end of an established client is posted.
Reports ==
  /\ UNCHANGED <<told, established>>
  /\ LiveShrinks
  /\ \E e \in Callback :
       /\ Post(e)
       /\ e.type \in {"message", "disconnected"}
       /\ e.id \in Ids /\ Live(e.id) /\ e.id \in established
       /\ e.type = "disconnected" => ~Live(e.id)'

\* A client is established and announced.
Announces ==
  \E e \in Callback :
    /\ UNCHANGED told
    /\ Post(e)
    /\ e.type = "connected"
    /\ e.id \in Ids \ established
    /\ established' = established \cup {e.id}
    /\ StatusRecorded'
    /\ Live(e.id)'
    /\ \A id \in Ids \ {e.id} : Live(id)' <=> Live(id)

\* The end of the acceptor is posted.
ReportsDown ==
  /\ UNCHANGED <<told, established, connections>>
  /\ Post(Event("serverDown", NoId, NoRequest))
  /\ StatusRecorded'

\* A callback runs.
Delivers == Deliver /\ UNCHANGED established /\ LiveShrinks

HandlerKind == Quiet \/ Reports \/ Announces \/ ReportsDown
StepKind == HandlerKind \/ Delivers

\* The client of a mapped session stands exactly if its status is kConnected, and
\* no other session stands for it.
LEMMA MappedLive ==
  ASSUME TypeOK, Maps, NEW s \in Sessions, connections[s] # NoConnection
  PROVE  /\ Live(connections[s].id) <=> connections[s].status = "kConnected"
         /\ \A t \in Sessions \ {s} :
              connections[t] # NoConnection => connections[t].id # connections[s].id
  <1>1. \A t \in Sessions \ {s} :
          connections[t] # NoConnection => connections[t].id # connections[s].id
    BY DEF Maps, MapsInverse
  <1>2. connections[s].status = "kConnected" => Live(connections[s].id)
    BY ConnectionFacts DEF Live, Connection
  <1>3. ASSUME NEW t \in Sessions,
               connections[t] = [id |-> connections[s].id, status |-> "kConnected"]
        PROVE  connections[s].status = "kConnected"
    <2>1. connections[t] # NoConnection /\ connections[t].id = connections[s].id
      BY <1>3 DEF NoConnection
    <2>2. t = s
      BY <1>1, <2>1
    <2> QED
      BY <1>3, <2>2
  <1> QED
    BY <1>1, <1>2, <1>3 DEF Live

\* Erasing a session ends its client and leaves the others alone.
LEMMA ForgetLive ==
  ASSUME TypeOK, Maps, StatusRecorded, NEW s \in Sessions, connections[s] # NoConnection,
         Forget(s), UNCHANGED established, used \subseteq used',
         NEW i \in Ids, i = connections[s].id
  PROVE  LiveShrinks /\ ~Live(i)'
  <1>1. /\ connections'[s] = NoConnection
        /\ \A t \in Sessions \ {s} : connections'[t] = connections[t]
    BY DEF Forget, TypeOK
  <1>2. LiveShrinks
    BY <1>1, StatusShrinks DEF LiveShrinks
  <1>3. ASSUME NEW t \in Sessions
        PROVE  connections'[t] # [id |-> i, status |-> "kConnected"]
    <2>1. CASE t = s
      BY <1>1, <2>1 DEF NoConnection
    <2>2. CASE t # s
      BY <1>1, <2>2, MappedLive DEF NoConnection
    <2> QED
      BY <2>1, <2>2
  <1> QED
    BY <1>2, <1>3 DEF Live

\* The WebSocketServer's own handlers.
LEMMA AcceptorKind ==
  ASSUME TypeOK, Maps, CallbacksInOrder,
         Run \/ AcceptCompletes \/ OnWsDisconnect
           \/ \E s \in Sessions : OnConnectionAccepted(s)
  PROVE  HandlerKind
  <1>1. UNCHANGED <<connections, established, used, told>>
    BY DEF Run, AcceptCompletes, OnWsDisconnect, OnConnectionAccepted, mapVars, histVars
  <1>2. LiveShrinks
    BY <1>1, StatusShrinks DEF LiveShrinks, CallbacksInOrder
  <1>3. CASE UNCHANGED posted
    BY <1>1, <1>2, <1>3 DEF HandlerKind, Quiet
  <1>4. CASE Post(Event("serverDown", NoId, NoRequest))
    BY <1>1, <1>2, <1>4 DEF HandlerKind, ReportsDown, LiveShrinks
  <1> QED
    BY <1>3, <1>4 DEF Run, AcceptCompletes, OnWsDisconnect, OnConnectionAccepted

\* A message from a session (OnWsSessionMessage, stomp-server.h:457-516).
LEMMA MessageKind ==
  ASSUME TypeOK, Maps, CallbacksInOrder,
         NEW s \in Sessions, NEW f \in ClientFrame, OnRead(s, f)
  PROVE  HandlerKind
  <1> USE DEF histVars, mapVars
  <1>1. UNCHANGED told
    BY DEF OnRead
  <1>2. StatusRecorded
    BY DEF CallbacksInOrder
  <1>3. CASE WsClose(s) /\ UNCHANGED <<posted, histVars>>
    BY <1>1, <1>2, <1>3, StatusShrinks DEF HandlerKind, Quiet, LiveShrinks, WsClose
  <1>4. ASSUME NEW error, connections[s] # NoConnection, CloseConnection(s, error),
               UNCHANGED <<posted, histVars>>
        PROVE  HandlerKind
    <2>1. LiveShrinks
      BY <1>2, <1>4, ConnectionFacts, ForgetLive DEF CloseConnection
    <2> QED
      BY <1>1, <1>4, <2>1 DEF HandlerKind, Quiet
  <1>5. CASE /\ connections[s] # NoConnection
             /\ connections[s].status = "kPending"
             /\ AcceptStomp(s)
    <2>1. PICK i \in Ids : i = connections[s].id
      BY <1>5, ConnectionFacts
    <2>2. i \notin established /\ i \in used
      <3>1. sessions[i] = s /\ s # NoSession
        BY <1>5, <2>1, NullAssumption DEF Maps, MapsInverse
      <3> QED
        BY <1>2, <1>5, <2>1, <3>1 DEF StatusRecorded, Maps, MappedIdsUsed
    <2>3. /\ connections'[s] = [id |-> i, status |-> "kConnected"]
          /\ \A t \in Sessions \ {s} : connections'[t] = connections[t]
          /\ established' = established \cup {i}
          /\ UNCHANGED used
      BY <1>5, <2>1, ConnectionFacts DEF AcceptStomp, TypeOK, Connection
    <2>4. \A t \in Sessions \ {s} : connections[t] # NoConnection => connections[t].id # i
      BY <1>5, <2>1, MappedLive
    <2>5. StatusRecorded'
      BY <1>2, <2>2, <2>3, <2>4 DEF StatusRecorded, NoConnection
    <2>6. Live(i)' /\ \A id \in Ids \ {i} : Live(id)' <=> Live(id)
      BY <1>5, <2>1, <2>3 DEF Live
    <2> DEFINE e == Event("connected", i, NoRequest)
    <2>7. e \in Callback /\ e.type = "connected" /\ e.id = i /\ Post(e)
      BY <1>5, <2>1, EventTypes DEF Event, AcceptStomp
    <2> HIDE DEF e
    <2>8. Announces
      BY <1>1, <2>2, <2>3, <2>5, <2>6, <2>7 DEF Announces
    <2> QED
      BY <2>8 DEF HandlerKind
  <1>6. CASE /\ connections[s] # NoConnection
             /\ f.kind = "send"
             /\ connections[s].status = "kConnected"
             /\ Post(Event("message", connections[s].id, f.req))
             /\ UNCHANGED <<closed, mapVars, out, used, established>>
    <2>1. LiveShrinks
      BY <1>2, <1>6, StatusShrinks DEF LiveShrinks
    <2> DEFINE e == Event("message", connections[s].id, f.req)
    <2>2. /\ e.type = "message" /\ e.id = connections[s].id
          /\ e.id \in Ids /\ Live(e.id) /\ e.id \in established
      BY <1>2, <1>6, ConnectionFacts, MappedLive DEF Event, StatusRecorded
    <2>3. e \in Callback /\ Post(e)
      BY <1>6, ConnectionFacts, EventTypes DEF ClientFrame
    <2> HIDE DEF e
    <2>4. \E x \in Callback :
            /\ Post(x) /\ x.type \in {"message", "disconnected"} /\ x.id \in Ids /\ Live(x.id)
            /\ x.id \in established /\ (x.type = "disconnected" => ~Live(x.id)')
      BY <2>2, <2>3
    <2> QED
      BY <1>1, <1>6, <2>1, <2>4 DEF HandlerKind, Reports
  <1> QED
    BY <1>3, <1>4, <1>5, <1>6 DEF OnRead, OnWsSessionMessage, HandleStomp, HandleSend

\* The other handlers of a session.
LEMMA SessionKind ==
  ASSUME TypeOK, Maps, CallbacksInOrder, NEW s \in Sessions,
         OnConnect(s) \/ OnTlsHandshake(s) \/ OnHandshake(s) \/ HandshakeFails(s)
           \/ ReadFails(s) \/ ReadEnds(s)
  PROVE  HandlerKind
  <1> USE DEF histVars, mapVars
  <1>1. StatusRecorded
    BY DEF CallbacksInOrder
  <1>2. CASE UNCHANGED <<connections, established, used, told, posted>>
    BY <1>1, <1>2, StatusShrinks DEF HandlerKind, Quiet, LiveShrinks
  <1>3. CASE OnConnect(s) \/ OnTlsHandshake(s) \/ HandshakeFails(s) \/ ReadFails(s)
    BY <1>2, <1>3 DEF OnConnect, OnTlsHandshake, HandshakeFails, ReadFails, WsClose
  <1>4. CASE OnHandshake(s)
    <2>1. PICK id \in Ids \ used :
            /\ used' = used \cup {id}
            /\ connections' = [connections EXCEPT ![s] = [id |-> id, status |-> "kPending"]]
            /\ UNCHANGED <<posted, established, told>>
      BY <1>4 DEF OnHandshake, OnWsSessionConnect
    <2>2. /\ connections'[s] = [id |-> id, status |-> "kPending"]
          /\ \A t \in Sessions \ {s} : connections'[t] = connections[t]
      BY <2>1 DEF TypeOK
    <2>3. StatusRecorded'
      BY <1>1, <2>1, <2>2 DEF StatusRecorded
    <2>4. \A j \in Ids : Live(j)' => Live(j)
      BY <2>2 DEF Live
    <2> QED
      BY <2>1, <2>3, <2>4 DEF HandlerKind, Quiet, LiveShrinks
  <1>5. CASE ReadEnds(s)
    <2>1. UNCHANGED <<established, used, told>>
      BY <1>5 DEF ReadEnds
    <2>2. CASE closed[s] \/ connections[s] = NoConnection
      <3>1. UNCHANGED <<connections, posted>>
        BY <1>5, <2>2 DEF ReadEnds, OnWsSessionDisconnect
      <3> QED
        BY <1>2, <2>1, <3>1
    <2>3. CASE ~closed[s] /\ connections[s] # NoConnection
      <3>1. PICK i \in Ids : i = connections[s].id
        BY <2>3, ConnectionFacts
      <3>2. Forget(s)
        BY <1>5, <2>3 DEF ReadEnds, OnWsSessionDisconnect
      <3>3. LiveShrinks /\ ~Live(i)'
        BY <1>1, <2>1, <2>3, <3>1, <3>2, ForgetLive
      <3>4. CASE connections[s].status # "kConnected"
        BY <1>5, <2>1, <2>3, <3>3, <3>4
           DEF ReadEnds, OnWsSessionDisconnect, HandlerKind, Quiet
      <3>5. CASE connections[s].status = "kConnected"
        <4> DEFINE e == Event("disconnected", i, NoRequest)
        <4>1. e \in Callback /\ e.type = "disconnected" /\ e.id = i /\ Post(e)
          BY <1>5, <2>3, <3>1, <3>5, EventTypes DEF ReadEnds, OnWsSessionDisconnect, Event
        <4>2. Live(i) /\ i \in established
          BY <1>1, <2>3, <3>1, <3>5, MappedLive DEF StatusRecorded
        <4> HIDE DEF e
        <4> QED
          BY <2>1, <3>3, <4>1, <4>2 DEF HandlerKind, Reports
      <3> QED
        BY <3>4, <3>5
    <2> QED
      BY <2>2, <2>3
  <1> QED
    BY <1>3, <1>4, <1>5

\* The methods of the user end connections and establish none.
LEMMA UserOpShrinks ==
  ASSUME TypeOK, Maps, CallbacksInOrder, NEW known \in SUBSET Ids, UserOp(known) \/ NoOp
  PROVE  LiveShrinks /\ UNCHANGED established
  <1> USE DEF histVars, mapVars
  <1>1. UNCHANGED <<established, used>>
    BY DEF UserOp, NoOp, Send, Close, Stop
  <1>2. StatusRecorded
    BY DEF CallbacksInOrder
  <1>3. ASSUME NEW id \in Ids, Close(id)
        PROVE  LiveShrinks
    <2>1. CASE UNCHANGED connections
      BY <1>1, <1>2, <2>1, StatusShrinks DEF LiveShrinks
    <2>2. CASE sessions[id] # NoSession
      <3>1. CloseConnection(sessions[id], "kUndefinedError")
        BY <1>3, <2>2, MappedIdHasConnection DEF Close
      <3> QED
        BY <1>1, <1>2, <2>2, <3>1, MappedIdHasConnection, ConnectionFacts, ForgetLive
           DEF CloseConnection
    <2> QED
      BY <1>3, <2>1, <2>2 DEF Close
  <1>4. CASE Stop \/ NoOp \/ \E id \in Ids, req \in Requests \cup {NoRequest} : Send(id, req)
    <2>1. \A s \in Sessions : connections'[s] \in {connections[s], NoConnection}
      BY <1>4 DEF Stop, NoOp, Send
    <2> QED
      BY <1>1, <1>2, <2>1, StatusShrinks DEF LiveShrinks
  <1> QED
    BY <1>1, <1>3, <1>4 DEF UserOp

\* Every step is of one of the five kinds.
LEMMA NextKind == TypeOK /\ Maps /\ CallbacksInOrder /\ [Next]_vars => StepKind
  <1> SUFFICES ASSUME TypeOK, Maps, CallbacksInOrder, [Next]_vars PROVE StepKind
    OBVIOUS
  <1>1. CASE UNCHANGED vars
    <2>1. LiveShrinks
      BY <1>1, StatusShrinks DEF LiveShrinks, CallbacksInOrder, vars
    <2> QED
      BY <1>1, <2>1 DEF StepKind, HandlerKind, Quiet, vars
  <1>2. CASE UserCallback
    <2>1. UserOp(Known(told')) \/ NoOp
      BY <1>2 DEF UserCallback
    <2>2. Known(told') \in SUBSET Ids
      BY DEF Known
    <2> QED
      BY <1>2, <2>1, <2>2, UserOpShrinks DEF UserCallback, StepKind, HandlerKind, Delivers
  <1>3. CASE UserCall
    <2>1. Known(told) \in SUBSET Ids
      BY DEF Known
    <2> QED
      BY <1>3, <2>1, UserOpShrinks DEF UserCall, StepKind, HandlerKind, Quiet
  <1>4. CASE Next
    BY <1>2, <1>3, <1>4, AcceptorKind, MessageKind, SessionKind DEF Next, Handlers, StepKind
  <1> QED
    BY <1>1, <1>4

\* Every step keeps the callbacks in order.
LEMMA NextCallbacks ==
  TypeOK /\ Maps /\ CallbacksInOrder /\ [Next]_vars => CallbacksInOrder'
  <1> SUFFICES ASSUME TypeOK, CallbacksInOrder, StepKind PROVE CallbacksInOrder'
    BY NextKind
  <1>1. CASE Quiet
    BY <1>1, CallbacksFrame DEF Quiet, LiveShrinks
  <1>2. CASE Reports
    BY <1>2, CallbacksReport DEF Reports, LiveShrinks
  <1>3. CASE Announces
    BY <1>3, CallbacksAnnounce DEF Announces
  <1>4. CASE ReportsDown
    BY <1>4, CallbacksServerDown DEF ReportsDown
  <1>5. CASE Delivers
    BY <1>5, CallbacksDeliver DEF Delivers, LiveShrinks
  <1> QED
    BY <1>1, <1>2, <1>3, <1>4, <1>5 DEF StepKind, HandlerKind

\* The callbacks on context_ are in order, whatever the interleaving of the
\* sessions' handlers, the callbacks and the user's calls, and however long the
\* queue gets.
THEOREM CallbacksInOrderHolds == Spec => []CallbacksInOrder
  <1>1. Init => TypeOK /\ Maps /\ CallbacksInOrder
    BY InitTypeOK, InitMaps, InitCallbacks
  <1>2. TypeOK /\ Maps /\ CallbacksInOrder /\ [Next]_vars
          => (TypeOK /\ Maps /\ CallbacksInOrder)'
    BY NextTypeOK, NextMaps, NextCallbacks
  <1> QED
    BY <1>1, <1>2, PTL DEF Spec

\* A connection the server treats as connected has been announced or is about to be.
THEOREM ConnectedAnnouncedHolds == Spec => []ConnectedAnnounced
  <1>1. TypeOK /\ Maps /\ CallbacksInOrder => ConnectedAnnounced
    <2> SUFFICES ASSUME TypeOK, Maps, CallbacksInOrder, NEW s \in Sessions,
                        connections[s].status = "kConnected"
                 PROVE  \/ told[connections[s].id] \in {"connected", "message"}
                        \/ Pending("connected", connections[s].id)
      BY DEF ConnectedAnnounced
    <2>1. connections[s] # NoConnection
      BY DEF NoConnection
    <2>2. connections[s].id \in Ids /\ connections[s].id \in established
            /\ Live(connections[s].id)
      BY <2>1, ConnectionFacts, MappedLive DEF CallbacksInOrder, StatusRecorded
    <2> QED
      BY <2>2 DEF CallbacksInOrder, ToldAgrees, TypeOK
  <1> QED
    BY <1>1, TypeCorrect, MapsInvariant, CallbacksInOrderHolds, PTL

-----------------------------------------------------------------------------
(* StompServer implements ClientLifecycle *)

\* The initial states map to initial states.
LEMMA InitLifecycle == Init => Lifecycle!Init
  <1> SUFFICES ASSUME Init PROVE Lifecycle!Init
    OBVIOUS
  <1>1. \A id \in Ids : ~Live(id) /\ id \notin established
    BY DEF Init, Live, NoConnection
  <1> QED
    BY <1>1 DEF Init, Lifecycle!Init, stompState

\* Connections that end are an End step of the abstract specification.
LEMMA ShrinkEnds ==
  ASSUME TypeOK, StatusRecorded, LiveShrinks, UNCHANGED established
  PROVE  \E gone \in SUBSET Ids : Lifecycle!End(gone)
  <1> DEFINE gone == {id \in Ids : Live(id) /\ ~Live(id)'}
  <1>1. \A id \in Ids : Live(id) => id \in established
    BY DEF Live, StatusRecorded
  <1>2. \A id \in gone : stompState[id] = "live"
    BY DEF stompState
  <1>3. stompState' = [id \in Ids |-> IF id \in gone THEN "over" ELSE stompState[id]]
    BY <1>1 DEF stompState, LiveShrinks
  <1>4. Lifecycle!End(gone)
    BY <1>2, <1>3 DEF Lifecycle!End
  <1>5. gone \in SUBSET Ids
    OBVIOUS
  <1> QED
    BY <1>4, <1>5

\* Running a callback is a step of Tell, or leaves told alone.
LEMMA DeliverTells ==
  ASSUME TypeOK, CallbacksInOrder, Deliver
  PROVE  Lifecycle!Tell \/ UNCHANGED told
  <1> DEFINE e == posted[1]
  <1>1. Head(posted) = e /\ e \in Callback /\ 1 \in 1..Len(posted)
    BY Delivered
  <1>2. told' = IF e.type = "serverDown" THEN told ELSE [told EXCEPT ![e.id] = e.type]
    BY <1>1 DEF Deliver
  <1>3. e.type # "serverDown" => e.id \in Ids /\ e.id \in established
    BY <1>1 DEF CallbacksInOrder, QueuedEstablished, TypeOK
  <1>4. e.type \in {"message", "disconnected"} => told[e.id] \in {"connected", "message"}
    BY <1>1 DEF CallbacksInOrder, AnnouncedFirst
  <1>5. e.type = "connected" => told[e.id] = "nothing"
    BY <1>1 DEF CallbacksInOrder, AnnouncedOnce
  <1>6. e.type = "disconnected" => ~Live(e.id)
    BY <1>1 DEF CallbacksInOrder, DisconnectedLast
  <1>7. CASE e.type = "serverDown"
    BY <1>2, <1>7
  <1>8. CASE e.type = "connected"
    <2>1. Lifecycle!TellConnected(e.id)
      BY <1>2, <1>3, <1>5, <1>8 DEF Lifecycle!TellConnected, stompState
    <2> QED
      BY <1>3, <1>8, <2>1 DEF Lifecycle!Tell
  <1>9. CASE e.type = "message"
    <2>1. Lifecycle!TellMessage(e.id)
      BY <1>2, <1>4, <1>9 DEF Lifecycle!TellMessage
    <2> QED
      BY <1>3, <1>9, <2>1 DEF Lifecycle!Tell
  <1>10. CASE e.type = "disconnected"
    <2>1. Lifecycle!TellDisconnected(e.id)
      BY <1>2, <1>3, <1>4, <1>6, <1>10 DEF Lifecycle!TellDisconnected, stompState
    <2> QED
      BY <1>3, <1>10, <2>1 DEF Lifecycle!Tell
  <1> QED
    BY <1>1, <1>7, <1>8, <1>9, <1>10 DEF Callback

\* Every step of the server is a step of the abstract specification.
LEMMA NextLifecycle ==
  TypeOK /\ Maps /\ CallbacksInOrder /\ [Next]_vars => Lifecycle!Next
  <1> SUFFICES ASSUME TypeOK, CallbacksInOrder, StepKind PROVE Lifecycle!Next
    BY NextKind
  <1>1. StatusRecorded
    BY DEF CallbacksInOrder
  <1>2. CASE LiveShrinks /\ UNCHANGED <<established, told>>
    BY <1>1, <1>2, ShrinkEnds DEF Lifecycle!Next
  <1>3. CASE Quiet \/ Reports
    BY <1>2, <1>3 DEF Quiet, Reports
  <1>4. CASE ReportsDown
    <2>1. LiveShrinks
      BY <1>4 DEF ReportsDown, LiveShrinks, Live
    <2> QED
      BY <1>2, <1>4, <2>1 DEF ReportsDown
  <1>5. CASE Delivers
    BY <1>1, <1>5, ShrinkEnds, DeliverTells DEF Delivers, Lifecycle!Next
  <1>6. CASE Announces
    <2>1. PICK i \in Ids \ established :
            /\ UNCHANGED told
            /\ established' = established \cup {i}
            /\ Live(i)'
            /\ \A id \in Ids \ {i} : Live(id)' <=> Live(id)
      BY <1>6 DEF Announces
    <2>2. ~Live(i)
      BY <1>1 DEF Live, StatusRecorded
    <2>3. stompState[i] = "never"
      BY <2>2 DEF stompState
    <2>4. stompState' = [stompState EXCEPT ![i] = "live"]
      BY <2>1 DEF stompState
    <2>5. Lifecycle!Establish(i)
      BY <2>1, <2>3, <2>4 DEF Lifecycle!Establish
    <2> QED
      BY <2>5 DEF Lifecycle!Next
  <1> QED
    BY <1>3, <1>4, <1>5, <1>6 DEF StepKind, HandlerKind

\* StompServer implements its contract with the user: whatever the peers, the
\* network and the user do, the callbacks about a client are its announcement, its
\* messages and its end, in this order and each for a reason.
THEOREM LifecycleImplemented == Spec => LifecycleSpec
  <1>1. Init => Lifecycle!Init
    BY InitLifecycle
  <1>2. TypeOK /\ Maps /\ CallbacksInOrder /\ [Next]_vars
          => [Lifecycle!Next]_Lifecycle!lifecycleVars
    BY NextLifecycle
  <1> QED
    BY <1>1, <1>2, TypeCorrect, MapsInvariant, CallbacksInOrderHolds, PTL
       DEF Spec, LifecycleSpec, Lifecycle!Spec

=============================================================================
