------------------------- MODULE StompClientProofs -------------------------
(***************************************************************************)
(* Theorems about StompClient, for any set of subscription ids and message *)
(* bodies and any bound on the callbacks that are queued.                  *)
(***************************************************************************)
EXTENDS StompClient, TLAPS

USE SubAssumption, UpcallAssumption

(* Types *)

\* The fields of an operation whose completion handler is outstanding.
LEMMA OperationFacts ==
  ASSUME NEW w \in Operation
  PROVE  /\ w.op \in {"stomp", "close", "subscribe"}
         /\ w.op = "subscribe" => w.sub \in SubIds
         /\ w.op # "subscribe" => w.sub = NoSub
         /\ w.wired \in BOOLEAN
  BY DEF Operation

\* The fields of a frame the server may send.
LEMMA FrameFacts ==
  ASSUME TypeOK, NEW f \in Frame
  PROVE  /\ f.sub \in SubIds \cup {NoSub}
         /\ f.body \in Bodies \cup {NoBody}
         /\ f.kind = "receipt" => {f.sub} \ {NoSub} \subseteq SubIds
  BY DEF TypeOK, Frame

\* A callback is posted behind the others.
LEMMA PostCallFacts ==
  ASSUME upcalls \in Seq(Upcall), NEW type \in UpcallTypes,
         NEW sub \in SubIds \cup {NoSub}, NEW body \in Bodies \cup {NoBody},
         PostCall(type, sub, body)
  PROVE  /\ upcalls' \in Seq(Upcall)
         /\ Len(upcalls) \in Nat /\ Len(upcalls') = Len(upcalls) + 1
         /\ \A k \in 1..Len(upcalls) : upcalls'[k] = upcalls[k]
         /\ upcalls'[Len(upcalls) + 1].type = type
         /\ upcalls'[Len(upcalls) + 1].sub = sub
  <1> DEFINE c == Call(type, sub, body)
  <1>1. c \in Upcall /\ c.type = type /\ c.sub = sub
    BY DEF Call, Upcall
  <1>2. upcalls' = Append(upcalls, c)
    BY DEF PostCall
  <1> HIDE DEF c
  <1> QED
    BY <1>1, <1>2

\* The first callback runs.
LEMMA DeliverFacts ==
  ASSUME TypeOK, Deliver
  PROVE  /\ upcalls' \in Seq(Upcall)
         /\ Len(upcalls) \in Nat \ {0} /\ Len(upcalls') = Len(upcalls) - 1
         /\ \A k \in 1..Len(upcalls') : upcalls'[k] = upcalls[k + 1]
         /\ upcalls[1] \in Upcall
         /\ heard' = heard \cup ({<<upcalls[1].type, upcalls[1].sub>>}
                                  \cap (Milestones \X (SubIds \cup {NoSub})))
         /\ heard' \in SUBSET (Milestones \X (SubIds \cup {NoSub}))
  <1>1. upcalls \in Seq(Upcall) /\ upcalls # <<>> /\ upcalls' = Tail(upcalls)
    BY DEF TypeOK, Deliver
  <1>2. Head(upcalls) = upcalls[1] /\ upcalls[1] \in Upcall
    BY <1>1
  <1>3. /\ heard' = heard \cup ({<<upcalls[1].type, upcalls[1].sub>>}
                                  \cap (Milestones \X (SubIds \cup {NoSub})))
        /\ heard' \in SUBSET (Milestones \X (SubIds \cup {NoSub}))
    BY <1>2 DEF Deliver, TypeOK
  <1> QED
    BY <1>1, <1>2, <1>3

\* OnWrite keeps the operations, subscriptions and callbacks well typed.
LEMMA OnWriteTypeOK ==
  ASSUME TypeOK, NEW w \in writes, NEW ok \in BOOLEAN, OnWrite(w, ok)
  PROVE  TypeOK'
  <1>1. w \in Operation
    BY DEF TypeOK
  <1>2. subscriptions' \in SUBSET SubIds /\ upcalls' \in Seq(Upcall)
    <2>1. CASE OnWsSendStomp(w, ok)
      BY <2>1, PostCallFacts DEF OnWsSendStomp, TypeOK, UpcallTypes
    <2>2. CASE OnWsSendSubscribe(w, ok)
      BY <2>2, <1>1, OperationFacts, PostCallFacts DEF OnWsSendSubscribe, TypeOK, UpcallTypes
    <2>3. CASE OnWsClose(w)
      BY <2>3, PostCallFacts DEF OnWsClose, TypeOK, UpcallTypes
    <2> QED
      BY <2>1, <2>2, <2>3 DEF OnWrite
  <1> QED
    BY <1>2 DEF OnWrite, TypeOK, Links

\* Every frame leaves the callbacks alone or posts one of the right type.
LEMMA OnWsMessagePosts ==
  ASSUME TypeOK, NEW f \in Frame, OnWsMessage(f)
  PROVE  \/ UNCHANGED upcalls
         \/ \E type \in UpcallTypes \ {"disconnect"} :
              PostCall(type, f.sub, f.body) \/ PostCall(type, NoSub, NoBody)
                \/ PostCall(type, f.sub, NoBody)
  BY DEF OnWsMessage, HandleMessage, HandleSubscriptionMessage,
         HandleSubscriptionReceipt, UpcallTypes

\* OnRead keeps the callbacks and the receipts well typed.
LEMMA OnReadTypeOK ==
  ASSUME TypeOK, NEW f \in Frame, OnRead(f)
  PROVE  TypeOK'
  <1>1. upcalls' \in Seq(Upcall)
    BY OnWsMessagePosts, FrameFacts, PostCallFacts DEF OnRead, TypeOK
  <1>2. receipts' \in SUBSET SubIds
    BY FrameFacts DEF OnRead, TypeOK
  <1> QED
    BY <1>1, <1>2 DEF OnRead, TypeOK

\* Start adds an operation.
LEMMA StartTypes ==
  ASSUME TypeOK, NEW op, NEW sub, Start(op, sub),
         (op = "close" /\ sub = NoSub) \/ (op = "subscribe" /\ sub \in SubIds)
  PROVE  writes' \in SUBSET Operation
  <1>1. \A wired \in BOOLEAN : [op |-> op, sub |-> sub, wired |-> wired] \in Operation
    BY DEF Operation
  <1>2. (link = "open") \in BOOLEAN
    OBVIOUS
  <1>3. [op |-> op, sub |-> sub, wired |-> link = "open"] \in Operation
    BY <1>1, <1>2, Zenon
  <1> QED
    BY <1>3, Zenon DEF TypeOK, Start

\* A user's call starts well-typed operations.
LEMMA UserOpTypes ==
  ASSUME TypeOK, NEW told, UserOp(told)
  PROVE  /\ writes' \in SUBSET Operation /\ m_closed' \in BOOLEAN
         /\ subscriptions' \in SUBSET SubIds /\ requested' \in SUBSET SubIds
         /\ UNCHANGED <<link, receipts>>
  <1>1. CASE \E onClose \in BOOLEAN : Close(onClose)
    BY <1>1, StartTypes DEF Close, TypeOK
  <1>2. CASE \E sub \in SubIds : Subscribe(sub)
    BY <1>2, StartTypes DEF Subscribe, TypeOK
  <1> QED
    BY <1>1, <1>2 DEF UserOp

\* A step keeps every variable in its type.
LEMMA NextTypeOK ==
  ASSUME TypeOK, [Next]_clientVars
  PROVE  TypeOK'
  <1>1. CASE UNCHANGED clientVars
    BY <1>1 DEF TypeOK, clientVars, Frame
  <1>2. CASE Connect
    <2>1. m_closed' \in BOOLEAN
      BY <1>2 DEF Connect
    <2> QED
      BY <1>2, <2>1 DEF Connect, TypeOK, Links
  <1>3. CASE OnStepDone
    BY <1>3 DEF OnStepDone, NextStep, TypeOK, Links
  <1>4. CASE OnStepFailed
    BY <1>4, PostCallFacts DEF OnStepFailed, TypeOK, Links, UpcallTypes
  <1>5. CASE OnHandshake
    <2>1. [op |-> "stomp", sub |-> NoSub, wired |-> TRUE] \in Operation
      BY DEF Operation
    <2> QED
      BY <1>5, <2>1 DEF OnHandshake, TypeOK, Links
  <1>6. CASE \E w \in writes, ok \in BOOLEAN : OnWrite(w, ok)
    BY <1>6, OnWriteTypeOK
  <1>7. CASE \E f \in Frame : OnRead(f)
    BY <1>7, OnReadTypeOK
  <1>8. CASE ReadFails
    BY <1>8 DEF ReadFails, TypeOK, Links
  <1>9. CASE ReadAborted
    BY <1>9, PostCallFacts DEF ReadAborted, TypeOK, Links, UpcallTypes
  <1>10. CASE UserCallback
    BY <1>10, DeliverFacts, UserOpTypes DEF UserCallback, NoOp, TypeOK
  <1>11. CASE UserCall
    BY <1>11, UserOpTypes DEF UserCall, TypeOK
  <1> QED
    BY <1>1, <1>2, <1>3, <1>4, <1>5, <1>6, <1>7, <1>8, <1>9, <1>10, <1>11
       DEF Next, Handlers

\* Every reachable state of the client is well typed: whatever the server sends
\* and whatever the user calls, subscriptions_ holds only ids of its own.
THEOREM ClientTypeCorrect == Spec => []TypeOK
  <1>1. Init => TypeOK
    <2>1. Init => m_closed \in BOOLEAN
      BY DEF Init
    <2> QED
      BY <2>1, SMT DEF Init, TypeOK, Links
  <1>2. TypeOK /\ [Next]_clientVars => TypeOK'
    BY NextTypeOK
  <1> QED
    BY <1>1, <1>2, PTL DEF Spec

-----------------------------------------------------------------------------
(* What follows a disconnection, and what becomes of a SUBSCRIBE *)

\* What a step may do to the callbacks: nothing, or one behind the others.
Posts(types) ==
  \/ UNCHANGED upcalls
  \/ \E type \in types, sub \in SubIds \cup {NoSub}, body \in Bodies \cup {NoBody} :
       PostCall(type, sub, body)

\* Whatever is queued stays queued when a callback is posted.
LEMMA PostsKeepsQueued ==
  ASSUME upcalls \in Seq(Upcall), Posts(UpcallTypes), NEW type, NEW sub, Queued(type, sub)
  PROVE  Queued(type, sub)'
  <1>1. CASE UNCHANGED upcalls
    BY <1>1 DEF Queued
  <1>2. CASE ~UNCHANGED upcalls
    <2>1. PICK t \in UpcallTypes, s \in SubIds \cup {NoSub}, b \in Bodies \cup {NoBody} :
            PostCall(t, s, b)
      BY <1>2 DEF Posts
    <2>2. PICK k \in 1..Len(upcalls) : upcalls[k].type = type /\ upcalls[k].sub = sub
      BY DEF Queued
    <2>3. k \in 1..Len(upcalls') /\ upcalls'[k] = upcalls[k]
      BY <2>1, <2>2, PostCallFacts
    <2> QED
      BY <2>2, <2>3 DEF Queued
  <1> QED
    BY <1>1, <1>2

\* A callback that is posted is queued.
LEMMA PostCallQueues ==
  ASSUME upcalls \in Seq(Upcall), NEW type \in UpcallTypes,
         NEW sub \in SubIds \cup {NoSub}, NEW body \in Bodies \cup {NoBody},
         PostCall(type, sub, body)
  PROVE  Queued(type, sub)'
  <1>1. Len(upcalls) + 1 \in 1..Len(upcalls')
    BY PostCallFacts
  <1> QED
    BY <1>1, PostCallFacts DEF Queued

\* A milestone that is queued stays queued until the user is told.
LEMMA DeliverTells ==
  ASSUME TypeOK, Deliver, NEW type \in Milestones, NEW sub \in SubIds \cup {NoSub},
         Queued(type, sub)
  PROVE  Queued(type, sub)' \/ Told(type, sub)'
  <1>1. PICK k \in 1..Len(upcalls) : upcalls[k].type = type /\ upcalls[k].sub = sub
    BY DEF Queued
  <1>2. CASE k = 1
    BY <1>1, <1>2, DeliverFacts DEF Told
  <1>3. CASE k # 1
    <2>1. k - 1 \in 1..Len(upcalls') /\ upcalls'[k - 1] = upcalls[k]
      BY <1>3, DeliverFacts
    <2> QED
      BY <1>1, <2>1 DEF Queued
  <1> QED
    BY <1>2, <1>3

\* A callback that is posted, but not one that came from the server.
LEMMA PostsKeepsLast ==
  ASSUME TypeOK, DisconnectIsLast, DisconnectEndsLoop, Posts(UpcallTypes \ FromServer),
         UNCHANGED heard, link = "ended" => link' = "ended"
  PROVE  DisconnectIsLast' /\ DisconnectEndsLoop'
  <1>1. CASE UNCHANGED upcalls
    BY <1>1 DEF DisconnectIsLast, DisconnectEndsLoop, Told
  <1>2. CASE ~UNCHANGED upcalls
    <2>1. PICK t \in UpcallTypes \ FromServer, s \in SubIds \cup {NoSub},
               b \in Bodies \cup {NoBody} : PostCall(t, s, b)
      BY <1>2 DEF Posts
    <2>2. /\ Len(upcalls) \in Nat /\ Len(upcalls') = Len(upcalls) + 1
          /\ \A k \in 1..Len(upcalls) : upcalls'[k] = upcalls[k]
          /\ upcalls'[Len(upcalls) + 1].type \notin FromServer
      BY <2>1, PostCallFacts DEF TypeOK
    <2>3. DisconnectIsLast'
      BY <2>2 DEF DisconnectIsLast, Told
    <2>4. DisconnectEndsLoop'
      BY <2>2 DEF DisconnectEndsLoop, Told, FromServer
    <2> QED
      BY <2>3, <2>4
  <1> QED
    BY <1>1, <1>2

\* While the read loop runs nothing has been said of a disconnection, and any
\* callback may be posted; one that tells of it is the loop's last.
LEMMA LoopKeepsLast ==
  ASSUME TypeOK, DisconnectIsLast, DisconnectEndsLoop, UNCHANGED heard, link # "ended",
         Posts(UpcallTypes \ {"disconnect"}) \/ (Posts({"disconnect"}) /\ link' = "ended")
  PROVE  DisconnectIsLast' /\ DisconnectEndsLoop'
  <1>1. /\ ~Told("disconnect", NoSub)
        /\ \A k \in 1..Len(upcalls) : upcalls[k].type # "disconnect"
    BY DEF DisconnectEndsLoop
  <1>2. CASE UNCHANGED upcalls
    BY <1>1, <1>2 DEF DisconnectIsLast, DisconnectEndsLoop, Told
  <1>3. CASE ~UNCHANGED upcalls
    <2>1. PICK t \in UpcallTypes, s \in SubIds \cup {NoSub},
               b \in Bodies \cup {NoBody} : PostCall(t, s, b)
                                            /\ (t = "disconnect" => link' = "ended")
      BY <1>3 DEF Posts, UpcallTypes
    <2>2. /\ Len(upcalls) \in Nat /\ Len(upcalls') = Len(upcalls) + 1
          /\ \A k \in 1..Len(upcalls) : upcalls'[k] = upcalls[k]
          /\ upcalls'[Len(upcalls) + 1].type = t
      BY <2>1, PostCallFacts DEF TypeOK
    <2>3. DisconnectIsLast'
      BY <1>1, <2>2 DEF DisconnectIsLast, Told
    <2>4. DisconnectEndsLoop'
      BY <1>1, <2>1, <2>2 DEF DisconnectEndsLoop, Told
    <2> QED
      BY <2>3, <2>4
  <1> QED
    BY <1>2, <1>3

\* The user hears of the callbacks in their order.
LEMMA DeliverKeepsLast ==
  ASSUME TypeOK, DisconnectIsLast, DisconnectEndsLoop, Deliver, UNCHANGED link
  PROVE  DisconnectIsLast' /\ DisconnectEndsLoop'
  <1>1. Told("disconnect", NoSub)' => Told("disconnect", NoSub) \/ upcalls[1].type = "disconnect"
    BY DeliverFacts DEF Told
  <1>2. DisconnectEndsLoop'
    <2>1. 1 \in 1..Len(upcalls)
      BY DeliverFacts
    <2>2. \A k \in 1..Len(upcalls') : k + 1 \in 1..Len(upcalls)
      BY DeliverFacts
    <2> QED
      BY <1>1, <2>1, <2>2, DeliverFacts DEF DisconnectEndsLoop
  <1>3. DisconnectIsLast'
    <2> SUFFICES ASSUME NEW k \in 1..Len(upcalls'), upcalls'[k].type \in FromServer
                 PROVE  /\ ~Told("disconnect", NoSub)'
                        /\ \A j \in 1..(k - 1) : upcalls'[j].type # "disconnect"
      BY DEF DisconnectIsLast
    <2>1. k + 1 \in 1..Len(upcalls) /\ upcalls[k + 1].type \in FromServer
      BY DeliverFacts
    <2>2. /\ ~Told("disconnect", NoSub)
          /\ \A j \in 1..k : upcalls[j].type # "disconnect"
      BY <2>1 DEF DisconnectIsLast
    <2>3. 1 \in 1..k /\ \A j \in 1..(k - 1) : j + 1 \in 1..k /\ j \in 1..Len(upcalls')
      BY DeliverFacts
    <2> QED
      BY <1>1, <2>2, <2>3, DeliverFacts
  <1> QED
    BY <1>2, <1>3

\* A step that only adds to what accounts for a SUBSCRIBE.
LEMMA AccountedKept ==
  ASSUME TypeOK, SubscribeAccountedFor, Posts(UpcallTypes), UNCHANGED <<requested, m_closed>>,
         heard \subseteq heard', subscriptions \subseteq subscriptions', writes \subseteq writes'
  PROVE  SubscribeAccountedFor'
  <1> SUFFICES ASSUME ~m_closed, NEW sub \in requested
               PROVE  \/ \E w \in writes' : w.sub = sub
                      \/ sub \in subscriptions'
                      \/ Queued("subscribeError", sub)'
                      \/ Told("subscribeError", sub)'
    BY DEF SubscribeAccountedFor
  <1>1. CASE Queued("subscribeError", sub)
    BY <1>1, PostsKeepsQueued DEF TypeOK
  <1>2. CASE ~Queued("subscribeError", sub)
    BY <1>2 DEF SubscribeAccountedFor, Told
  <1> QED
    BY <1>1, <1>2

\* Which callbacks a write completion posts.
LEMMA OnWritePosts ==
  ASSUME TypeOK, NEW w \in writes, NEW ok \in BOOLEAN, OnWrite(w, ok)
  PROVE  /\ Posts(UpcallTypes) /\ Posts(UpcallTypes \ FromServer)
         /\ subscriptions \subseteq subscriptions'
         /\ w.op = "subscribe" => w.sub \in subscriptions' \/ Queued("subscribeError", w.sub)'
  <1>1. w \in Operation /\ upcalls \in Seq(Upcall)
    BY DEF TypeOK
  <1>2. {"connectError", "subscribeError", "closed"} \subseteq UpcallTypes \ FromServer
    BY DEF UpcallTypes, FromServer
  <1>3. CASE OnWsSendStomp(w, ok)
    BY <1>2, <1>3 DEF OnWsSendStomp, Posts
  <1>4. CASE OnWsSendSubscribe(w, ok)
    <2>1. w.sub \in SubIds
      BY <1>1, <1>4, OperationFacts DEF OnWsSendSubscribe
    <2>2. CASE PostCall("subscribeError", w.sub, NoBody) /\ UNCHANGED subscriptions
      BY <1>1, <1>2, <2>1, <2>2, PostCallQueues DEF Posts
    <2>3. CASE subscriptions' = subscriptions \cup {w.sub} /\ UNCHANGED upcalls
      BY <2>3 DEF Posts
    <2> QED
      BY <1>4, <2>2, <2>3 DEF OnWsSendSubscribe
  <1>5. CASE OnWsClose(w)
    BY <1>2, <1>5 DEF OnWsClose, Posts
  <1> QED
    BY <1>3, <1>4, <1>5 DEF OnWrite

\* A completed write hands its SUBSCRIBE on: it is stored, or its failure posted.
LEMMA OnWriteAccounted ==
  ASSUME TypeOK, SubscribeAccountedFor, NEW w \in writes, NEW ok \in BOOLEAN, OnWrite(w, ok)
  PROVE  SubscribeAccountedFor'
  <1> SUFFICES ASSUME ~m_closed, NEW sub \in requested
               PROVE  \/ \E v \in writes' : v.sub = sub
                      \/ sub \in subscriptions'
                      \/ Queued("subscribeError", sub)'
                      \/ Told("subscribeError", sub)'
    BY DEF SubscribeAccountedFor, OnWrite
  <1>1. CASE w.sub = sub
    <2>1. w.op = "subscribe"
      BY <1>1, OperationFacts DEF TypeOK
    <2> QED
      BY <1>1, <2>1, OnWritePosts
  <1>2. CASE Queued("subscribeError", sub)
    BY <1>2, OnWritePosts, PostsKeepsQueued DEF TypeOK
  <1>3. CASE ~Queued("subscribeError", sub) /\ w.sub # sub
    <2>1. writes' = writes \ {w} /\ heard' = heard
      BY DEF OnWrite
    <2>2. subscriptions \subseteq subscriptions'
      BY OnWritePosts
    <2>3. \/ \E v \in writes : v.sub = sub
          \/ sub \in subscriptions
          \/ Told("subscribeError", sub)
      BY <1>3 DEF SubscribeAccountedFor
    <2> QED
      BY <1>3, <2>1, <2>2, <2>3 DEF Told
  <1> QED
    BY <1>1, <1>2, <1>3

\* Which callbacks a frame posts.
LEMMA OnReadPosts ==
  ASSUME TypeOK, NEW f \in Frame, OnRead(f)
  PROVE  Posts(UpcallTypes) /\ Posts(UpcallTypes \ {"disconnect"})
  BY OnWsMessagePosts, FrameFacts DEF OnRead, Posts

\* A delivered callback and the user's call after it.
LEMMA UserAccounted ==
  ASSUME TypeOK, SubscribeAccountedFor, NEW told, UserOp(told) \/ NoOp,
         Deliver \/ UNCHANGED <<upcalls, heard>>
  PROVE  SubscribeAccountedFor'
  <1>1. ASSUME NEW sub \in requested, Queued("subscribeError", sub) \/ Told("subscribeError", sub)
        PROVE  (Queued("subscribeError", sub) \/ Told("subscribeError", sub))'
    <2>1. CASE Deliver
      <3>1. heard \subseteq heard'
        BY <2>1, DeliverFacts
      <3>2. "subscribeError" \in Milestones /\ sub \in SubIds \cup {NoSub}
        BY DEF Milestones, TypeOK
      <3> QED
        BY <1>1, <2>1, <3>1, <3>2, DeliverTells DEF Told
    <2>2. CASE UNCHANGED <<upcalls, heard>>
      BY <1>1, <2>2 DEF Queued, Told
    <2> QED
      BY <2>1, <2>2
  <1>2. CASE \E onClose \in BOOLEAN : Close(onClose)
    BY <1>2 DEF Close, SubscribeAccountedFor
  <1>3. CASE \E sub \in SubIds : Subscribe(sub)
    <2>1. PICK sub \in SubIds : Subscribe(sub)
      BY <1>3
    <2>2. /\ Start("subscribe", sub) /\ UNCHANGED <<m_closed, subscriptions>>
          /\ requested' = requested \cup {sub}
      BY <2>1 DEF Subscribe
    <2>3. writes \subseteq writes' /\ \E w \in writes' : w.sub = sub
      <3> DEFINE w == [op |-> "subscribe", sub |-> sub, wired |-> link = "open"]
      <3>1. w.sub = sub
        BY Zenon
      <3>2. writes' = writes \cup {w}
        BY <2>2 DEF Start
      <3> HIDE DEF w
      <3> QED
        BY <3>1, <3>2
    <2> QED
      BY <1>1, <2>2, <2>3 DEF SubscribeAccountedFor
  <1>4. CASE NoOp
    BY <1>1, <1>4 DEF NoOp, SubscribeAccountedFor
  <1> QED
    BY <1>2, <1>3, <1>4 DEF UserOp

\* A step keeps the invariant.
LEMMA NextClientInvariant ==
  ASSUME TypeOK, ClientInvariant, [Next]_clientVars
  PROVE  ClientInvariant'
  <1> USE DEF ClientInvariant
  <1>1. CASE UNCHANGED clientVars
    BY <1>1 DEF clientVars, IdleIsFresh, SubscribeAccountedFor, DisconnectEndsLoop,
                DisconnectIsLast, Queued, Told
  <1>2. CASE Connect
    <2>1. IdleIsFresh' /\ SubscribeAccountedFor'
      BY <1>2 DEF Connect, IdleIsFresh, SubscribeAccountedFor
    <2> QED
      BY <1>2, <2>1, PostsKeepsLast DEF Connect, Posts
  <1>3. CASE OnStepDone \/ ReadFails
    <2>1. /\ link # "ended" /\ link' # "idle" /\ Posts(UpcallTypes)
          /\ Posts(UpcallTypes \ {"disconnect"})
          /\ UNCHANGED <<m_closed, writes, subscriptions, requested, heard>>
      BY <1>3 DEF OnStepDone, ReadFails, NextStep, Posts
    <2> QED
      BY <2>1, AccountedKept, LoopKeepsLast DEF IdleIsFresh
  <1>4. CASE OnStepFailed
    <2>1. /\ link # "ended" /\ link' # "idle" /\ Posts(UpcallTypes)
          /\ Posts(UpcallTypes \ {"disconnect"})
          /\ UNCHANGED <<m_closed, writes, subscriptions, requested, heard>>
      BY <1>4 DEF OnStepFailed, NextStep, Posts, UpcallTypes
    <2> QED
      BY <2>1, AccountedKept, LoopKeepsLast DEF IdleIsFresh
  <1>5. CASE OnHandshake
    <2>1. /\ link # "ended" /\ link' # "idle" /\ Posts(UpcallTypes)
          /\ Posts(UpcallTypes \ {"disconnect"}) /\ writes \subseteq writes'
          /\ UNCHANGED <<m_closed, subscriptions, requested, heard>>
      BY <1>5 DEF OnHandshake, Posts
    <2> QED
      BY <2>1, AccountedKept, LoopKeepsLast DEF IdleIsFresh
  <1>6. ASSUME NEW w \in writes, NEW ok \in BOOLEAN, OnWrite(w, ok)
        PROVE  ClientInvariant'
    <2>1. SubscribeAccountedFor'
      BY <1>6, OnWriteAccounted
    <2>2. /\ Posts(UpcallTypes \ FromServer) /\ UNCHANGED heard
          /\ link = "ended" => link' = "ended"
      BY <1>6, OnWritePosts DEF OnWrite
    <2>3. IdleIsFresh'
      BY <1>6 DEF OnWrite, IdleIsFresh
    <2> QED
      BY <2>1, <2>2, <2>3, PostsKeepsLast
  <1>7. ASSUME NEW f \in Frame, OnRead(f)
        PROVE  ClientInvariant'
    <2>1. /\ link = "open" /\ link' = "open"
          /\ UNCHANGED <<m_closed, writes, subscriptions, requested, heard>>
      BY <1>7 DEF OnRead
    <2> QED
      BY <1>7, <2>1, OnReadPosts, AccountedKept, LoopKeepsLast DEF IdleIsFresh
  <1>8. CASE ReadAborted
    <2>1. /\ link # "ended" /\ link' = "ended" /\ Posts(UpcallTypes)
          /\ Posts({"disconnect"})
          /\ UNCHANGED <<m_closed, writes, subscriptions, requested, heard>>
      BY <1>8 DEF ReadAborted, Posts, UpcallTypes
    <2> QED
      BY <2>1, AccountedKept, LoopKeepsLast DEF IdleIsFresh
  <1>9. CASE UserCallback
    <2>1. Deliver /\ UNCHANGED link
      BY <1>9 DEF UserCallback, UserOp, Close, Subscribe, NoOp
    <2>2. SubscribeAccountedFor'
      BY <1>9, UserAccounted DEF UserCallback
    <2>3. IdleIsFresh'
      BY <2>1 DEF IdleIsFresh, Deliver
    <2> QED
      BY <2>1, <2>2, <2>3, DeliverKeepsLast
  <1>10. CASE UserCall
    <2>1. link # "idle" /\ UNCHANGED <<link, upcalls, heard>>
      BY <1>10 DEF UserCall, UserOp, Close, Subscribe
    <2>2. SubscribeAccountedFor'
      BY <1>10, UserAccounted DEF UserCall
    <2> QED
      BY <2>1, <2>2, PostsKeepsLast DEF IdleIsFresh, Posts
  <1> QED
    BY <1>1, <1>2, <1>3, <1>4, <1>5, <1>6, <1>7, <1>8, <1>9, <1>10 DEF Next, Handlers

\* The four facts hold in every reachable state of the client.
THEOREM ClientInvariantHolds == Spec => []ClientInvariant
  <1>1. Init => ClientInvariant
    BY DEF Init, ClientInvariant, IdleIsFresh, SubscribeAccountedFor,
           DisconnectEndsLoop, DisconnectIsLast, Told
  <1>2. TypeOK /\ ClientInvariant /\ [Next]_clientVars => ClientInvariant'
    BY NextClientInvariant
  <1> QED
    BY <1>1, <1>2, ClientTypeCorrect, PTL DEF Spec

\* No Subscribe call of an open client vanishes: its frame is being written, it is
\* stored, or its failure is on its way to the user (OnWsSendSubscribe).
THEOREM SubscribeAccountedForHolds == Spec => []SubscribeAccountedFor
  BY ClientInvariantHolds, PTL DEF ClientInvariant

\* Nothing that came from the server follows the report of a disconnection
\* (ListenToIncomingMessage and the strand it posts on).
THEOREM DisconnectIsLastHolds == Spec => []DisconnectIsLast
  BY ClientInvariantHolds, PTL DEF ClientInvariant
=============================================================================
