---------------------------- MODULE StompClient ----------------------------
(***************************************************************************)
(* The network-events client: include/websocket-client.h (WebSocketClient) *)
(* with include/stomp-client.h (StompClient) on top.                       *)
(*                                                                         *)
(* As in module StompServer a completion handler is one atomic action: the *)
(* read loop and the write completions of the WebSocket strand interleave  *)
(* freely with each other and with the callbacks of the STOMP strand       *)
(* context_, the sequence `upcalls`.  The remote server may send any frame *)
(* at any time; it knows the subscription ids that were sent to it.        *)
(***************************************************************************)
EXTENDS Naturals, Sequences

CONSTANTS
  SubIds,           \* the UUIDs GenerateId may return for subscriptions
  Bodies,           \* message contents
  NoSub, NoBody,
  HasOnMessage,     \* Connect was given an onMessage handler
  MaxUpcalls        \* bound: frames are read while fewer callbacks are queued

ASSUME SubAssumption == NoSub \notin SubIds /\ NoBody \notin Bodies
ASSUME UpcallAssumption == MaxUpcalls \in Nat /\ HasOnMessage \in BOOLEAN

VARIABLES
  link,             \* the outstanding step of the WebSocket connection
  m_closed,         \* WebSocketClient::m_closed
  writes,           \* operations whose completion handler has not run
  subscriptions,    \* StompClient::subscriptions_, the ids it holds
  upcalls,          \* callbacks posted on context_, not yet run
  requested,        \* history: ids of the SUBSCRIBE frames handed to Send
  receipts,         \* history: ids whose RECEIPT frame has been read
  heard             \* history: the milestones the user has been told, as <<type, sub>>

clientVars == <<link, m_closed, writes, subscriptions, upcalls, requested,
                receipts, heard>>

-----------------------------------------------------------------------------
(* Data *)

Links == {"idle", "resolving", "connecting", "tls", "handshake", "failed",
          "open", "broken", "ended"}

\* An async_write or async_close with the handler that waits for it.  `wired`:
\* the stream was open when it was initiated, so that it may succeed.
Operation ==
  [op : {"stomp", "close"}, sub : {NoSub}, wired : BOOLEAN]
    \cup [op : {"subscribe"}, sub : SubIds, wired : BOOLEAN]

\* What the server may send, told apart as far as OnWsMessage does.
Frame ==
  [kind : {"malformed", "connected", "error", "send", "unexpected"},
   sub : {NoSub}, body : {NoBody}]
    \cup [kind : {"receipt", "mismatch"}, sub : requested \cup {NoSub}, body : {NoBody}]
    \cup [kind : {"message"}, sub : requested \cup {NoSub}, body : Bodies]

UpcallTypes ==
  {"connectOk", "connectError", "disconnect", "subscribed", "subscribeError",
   "message", "mismatch", "send", "closed"}
Milestones == {"connectOk", "connectError", "disconnect", "subscribed", "subscribeError"}

Upcall == [type : UpcallTypes, sub : SubIds \cup {NoSub}, body : Bodies \cup {NoBody}]

Call(type, sub, body) == [type |-> type, sub |-> sub, body |-> body]
PostCall(type, sub, body) == upcalls' = Append(upcalls, Call(type, sub, body))

TypeOK ==
  /\ link \in Links
  /\ m_closed \in BOOLEAN
  /\ writes \in SUBSET Operation
  /\ subscriptions \in SUBSET SubIds
  /\ upcalls \in Seq(Upcall)
  /\ requested \in SUBSET SubIds
  /\ receipts \in SUBSET SubIds
  /\ heard \in SUBSET (Milestones \X (SubIds \cup {NoSub}))

Init ==
  /\ link = "idle"
  /\ m_closed = FALSE
  /\ writes = {}
  /\ subscriptions = {}
  /\ upcalls = <<>>
  /\ requested = {}
  /\ receipts = {}
  /\ heard = {}

-----------------------------------------------------------------------------
(* WebSocketClient and OnWsConnect: connecting *)

Connect ==
  /\ link = "idle"
  /\ link' = "resolving"
  /\ m_closed' = FALSE
  /\ UNCHANGED <<writes, subscriptions, upcalls, requested, receipts, heard>>

\* OnResolve, OnConnect and OnTLSHandshake without error: the next step starts.
NextStep == [resolving |-> "connecting", connecting |-> "tls", tls |-> "handshake"]

OnStepDone ==
  /\ link \in DOMAIN NextStep
  /\ link' = NextStep[link]
  /\ UNCHANGED <<m_closed, writes, subscriptions, upcalls, requested, receipts, heard>>

\* Faulty variant: the failure is not passed on.
OnStepFailedSilently ==
  /\ link \in DOMAIN NextStep \cup {"handshake"}
  /\ link' = "failed"
  /\ UNCHANGED <<m_closed, writes, subscriptions, upcalls, requested, receipts, heard>>

\* Any of the four steps with an error or a timeout: m_onConnect, OnWsConnect.
OnStepFailed ==
  /\ link \in DOMAIN NextStep \cup {"handshake"}
  /\ link' = "failed"
  /\ PostCall("connectError", NoSub, NoBody)
  /\ UNCHANGED <<m_closed, writes, subscriptions, requested, receipts, heard>>

\* OnHandshake: the read loop starts and OnWsConnect sends the STOMP frame.
OnHandshake ==
  /\ link = "handshake"
  /\ link' = "open"
  /\ writes' = writes \cup {[op |-> "stomp", sub |-> NoSub, wired |-> TRUE]}
  /\ UNCHANGED <<m_closed, subscriptions, upcalls, requested, receipts, heard>>

-----------------------------------------------------------------------------
(* Write completions *)

OnWsSendStomp(w, ok) ==
  /\ w.op = "stomp"
  /\ IF ok THEN UNCHANGED upcalls ELSE PostCall("connectError", NoSub, NoBody)
  /\ UNCHANGED subscriptions

\* Faulty variant: the id is moved from before it is used as the key.
OnWsSendSubscribeMoved(w, ok) ==
  /\ w.op = "subscribe"
  /\ \/ /\ ok
        /\ subscriptions' = subscriptions \cup {NoSub}
        /\ UNCHANGED upcalls
     \/ /\ ~ok
        /\ PostCall("subscribeError", w.sub, NoBody)
        /\ UNCHANGED subscriptions

\* Faulty variant: a failed write is only logged.
OnWsSendSubscribeSilently(w, ok) ==
  /\ w.op = "subscribe"
  /\ subscriptions' = IF ok THEN subscriptions \cup {w.sub} ELSE subscriptions
  /\ UNCHANGED upcalls

\* A subscription is stored only here, when its SUBSCRIBE frame is written.
OnWsSendSubscribe(w, ok) ==
  /\ w.op = "subscribe"
  /\ \/ /\ ok
        /\ subscriptions' = subscriptions \cup {w.sub}
        /\ UNCHANGED upcalls
     \/ /\ ~ok
        /\ PostCall("subscribeError", w.sub, NoBody)
        /\ UNCHANGED subscriptions

OnWsClose(w) ==
  /\ w.op = "close"
  /\ PostCall("closed", NoSub, NoBody)
  /\ UNCHANGED subscriptions

\* A write that fails leaves the stream failed, and the read loop finds out.
OnWrite(w, ok) ==
  /\ ok => w.wired
  /\ writes' = writes \ {w}
  /\ link' = IF ~ok /\ link = "open" /\ ~m_closed THEN "broken" ELSE link
  /\ OnWsSendStomp(w, ok) \/ OnWsSendSubscribe(w, ok) \/ OnWsClose(w)
  /\ UNCHANGED <<m_closed, requested, receipts, heard>>

-----------------------------------------------------------------------------
(* The read loop *)

\* Neither HandleError nor the default case of OnWsMessage changes any state.
HandleSubscriptionMessage(f) ==
  /\ f.kind \in {"message", "mismatch"}
  /\ IF f.sub \in subscriptions THEN PostCall(f.kind, f.sub, f.body)
                                ELSE UNCHANGED upcalls

HandleSubscriptionReceipt(f) ==
  /\ f.kind = "receipt"
  /\ IF f.sub \in subscriptions THEN PostCall("subscribed", f.sub, NoBody)
                                ELSE UNCHANGED upcalls

HandleMessage(f) ==
  /\ f.kind = "send"
  /\ IF HasOnMessage THEN PostCall("send", NoSub, NoBody) ELSE UNCHANGED upcalls

OnWsMessage(f) ==
  \/ f.kind = "malformed" /\ PostCall("connectError", NoSub, NoBody)
  \/ f.kind = "connected" /\ PostCall("connectOk", NoSub, NoBody)
  \/ HandleMessage(f)
  \/ f.kind \in {"error", "unexpected"} /\ UNCHANGED upcalls
  \/ HandleSubscriptionMessage(f)
  \/ HandleSubscriptionReceipt(f)

OnRead(f) ==
  /\ link = "open"
  /\ Len(upcalls) < MaxUpcalls
  /\ OnWsMessage(f)
  /\ receipts' = IF f.kind = "receipt" THEN receipts \cup ({f.sub} \ {NoSub}) ELSE receipts
  /\ UNCHANGED <<link, m_closed, writes, subscriptions, requested, heard>>

\* Only operation_aborted ends the loop: after any other error, the close
\* frame of the server included, async_read is called again and is aborted.
ReadFails ==
  /\ link = "open"
  /\ link' = "broken"
  /\ UNCHANGED <<m_closed, writes, subscriptions, upcalls, requested, receipts, heard>>

\* Faulty variant: the loop goes on after the disconnection is reported.
ReadAbortedGoesOn ==
  /\ link = "broken" \/ (link = "open" /\ m_closed)
  /\ IF m_closed THEN UNCHANGED upcalls ELSE PostCall("disconnect", NoSub, NoBody)
  /\ UNCHANGED <<link, m_closed, writes, subscriptions, requested, receipts, heard>>

\* Faulty variant: the test of m_closed is inverted.
ReadAbortedInverted ==
  /\ link = "broken" \/ (link = "open" /\ m_closed)
  /\ link' = "ended"
  /\ IF m_closed THEN PostCall("disconnect", NoSub, NoBody) ELSE UNCHANGED upcalls
  /\ UNCHANGED <<m_closed, writes, subscriptions, requested, receipts, heard>>

\* ListenToIncomingMessage with operation_aborted, then OnWsDisconnect.
ReadAborted ==
  /\ link = "broken" \/ (link = "open" /\ m_closed)
  /\ link' = "ended"
  /\ IF m_closed THEN UNCHANGED upcalls ELSE PostCall("disconnect", NoSub, NoBody)
  /\ UNCHANGED <<m_closed, writes, subscriptions, requested, receipts, heard>>

Handlers ==
  \/ OnStepDone
  \/ OnStepFailed
  \/ OnHandshake
  \/ \E w \in writes, ok \in BOOLEAN : OnWrite(w, ok)
  \/ \E f \in Frame : OnRead(f)
  \/ ReadFails
  \/ ReadAborted

-----------------------------------------------------------------------------
(* The methods of StompClient its user calls.  Send is left out: it touches  *)
(* no state of the client, and its completion only runs the user's handler. *)

Start(op, sub) == writes' = writes \cup {[op |-> op, sub |-> sub, wired |-> link = "open"]}

\* Close does not stop a connection attempt that is under way.
Close(onClose) ==
  /\ subscriptions' = {}
  /\ m_closed' = TRUE
  /\ IF onClose THEN Start("close", NoSub) ELSE UNCHANGED writes
  /\ UNCHANGED <<link, requested, receipts>>

Subscribe(sub) ==
  /\ sub \notin requested
  /\ requested' = requested \cup {sub}
  /\ Start("subscribe", sub)
  /\ UNCHANGED <<link, m_closed, subscriptions, receipts>>

-----------------------------------------------------------------------------
(* The strand context_ and the user *)

Deliver ==
  /\ upcalls # <<>>
  /\ upcalls' = Tail(upcalls)
  /\ heard' = heard \cup ({<<Head(upcalls).type, Head(upcalls).sub>>}
                        \cap (Milestones \X (SubIds \cup {NoSub})))

\* The most general user: it closes the client at any time, more than once if it
\* likes, and subscribes once onConnect has reported success.  (Bound: it passes an
\* onClose handler only when the client has not been closed.)
UserOp(told) ==
  \/ \E onClose \in BOOLEAN : (onClose => ~m_closed) /\ Close(onClose)
  \/ <<"connectOk", NoSub>> \in told /\ \E sub \in SubIds : Subscribe(sub)

NoOp == UNCHANGED <<link, m_closed, writes, subscriptions, requested, receipts>>

\* A callback runs and may call a method; or the user calls one elsewhere.
UserCallback == Deliver /\ (UserOp(heard') \/ NoOp)
UserCall == link # "idle" /\ UserOp(heard) /\ UNCHANGED <<upcalls, heard>>

Next == Connect \/ Handlers \/ UserCallback \/ UserCall

Spec == Init /\ [][Next]_clientVars

\* Asio runs every posted callback, and the aborted read behind a failed one (a Close
\* before the stream was open does not end its reads).  A connection step ends, in its
\* handler or in its timeout, except the TLS handshake: OnConnect has just cancelled
\* the timeout.  Nothing is assumed of writes.
Fairness ==
  /\ WF_clientVars(UserCallback)
  /\ WF_clientVars(link # "tls" /\ (OnStepDone \/ OnStepFailed \/ OnHandshake))
  /\ WF_clientVars(link = "broken" /\ ReadAborted)

FairSpec == Spec /\ Fairness

-----------------------------------------------------------------------------
(* Properties *)

Queued(type, sub) ==
  \E k \in 1..Len(upcalls) : upcalls[k].type = type /\ upcalls[k].sub = sub
Told(type, sub) == <<type, sub>> \in heard

\* No Subscribe call vanishes: until the user closes the client its SUBSCRIBE
\* frame is being written, the subscription is stored, or the user is told of
\* the failure (Subscribe and OnWsSendSubscribe, stomp-client.h:202-465).
SubscribeAccountedFor ==
  m_closed \/ \A sub \in requested :
    \/ \E w \in writes : w.sub = sub
    \/ sub \in subscriptions
    \/ Queued("subscribeError", sub)
    \/ Told("subscribeError", sub)

FromServer == {"connectOk", "subscribed", "message", "mismatch", "send", "disconnect"}

\* Once the user has been told of the disconnection nothing that came from the
\* server follows, not even a second disconnection, whatever was queued when
\* the stream failed (ListenToIncomingMessage, websocket-client.h:307-330).
DisconnectIsLast ==
  \A k \in 1..Len(upcalls) :
    upcalls[k].type \in FromServer =>
      /\ ~Told("disconnect", NoSub)
      /\ \A j \in 1..(k - 1) : upcalls[j].type # "disconnect"

\* What DisconnectIsLast and SubscribeAccountedFor rest on: the disconnection is
\* posted by the last step of the read loop, and nothing has happened before Connect.
DisconnectEndsLoop ==
  Told("disconnect", NoSub) \/ (\E k \in 1..Len(upcalls) : upcalls[k].type = "disconnect")
    => link = "ended"
IdleIsFresh ==
  link = "idle" => requested = {} /\ upcalls = <<>> /\ writes = {}

ClientInvariant ==
  /\ IdleIsFresh
  /\ SubscribeAccountedFor
  /\ DisconnectEndsLoop
  /\ DisconnectIsLast

\* A connection attempt ends in an open stream or in a report of its failure, and
\* can hang in the TLS handshake only (websocket-client.h:154-285 and OnWsConnect,
\* stomp-client.h:360-380).
FailureReported ==
  link \in {"resolving", "connecting", "handshake", "failed"}
    ~> link \in {"tls", "open"} \/ Told("connectError", NoSub)

\* The loss of a connection the user did not close is reported (OnWsDisconnect,
\* stomp-client.h:524-541).
LossReported == link = "broken" /\ ~m_closed ~> m_closed \/ Told("disconnect", NoSub)

\* onSubscribe "is called when the subscription is setup correctly"
\* (stomp-client.h:186-187): once the server's RECEIPT has been read, the user
\* of an open client has been told, or the callback is queued.
ReceiptReported ==
  m_closed \/ \A sub \in receipts :
    Queued("subscribed", sub) \/ Told("subscribed", sub)
=============================================================================
