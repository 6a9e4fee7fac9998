# Metro Network Monitor: TLA+ specifications

This directory holds a formal model of the Metro Network Monitor: TLA+ modules
translated from the C++ sources, the TLC configurations that check them on small
instances, and proofs that TLAPS checks for every instance.  `PROJECT.json` lists
the runs, the mutants that show each property can fail, the source lines each
definition stands for, the hazards and the findings.

## The system

The monitor is one process with one `io_context` run by one thread.  It connects to
a remote *network-events* server as a STOMP client, subscribes to passenger events
and records them in a `TransportNetwork`; and it runs a *quiet-route* STOMP server
whose clients ask for a quiet route between two stations.

| component | state | operations | correct when |
|---|---|---|---|
| `WebSocketServer`, `WebSocketSession` (websocket-server.h) | the acceptor, `stopped_`; per session the outstanding handler and `closed_` | Run, Stop, accepting; per session TLS, WebSocket handshake, read loop, Send, Close | each session reports its end exactly when its owner did not close it |
| `StompServer` (stomp-server.h) | `connections_` (session to id and status) and `sessions_` (id to session) | Run, Send, Close, Stop and the session callbacks | the maps are inverse and hold live sessions only; nothing is written behind a close; the user sees a proper life cycle per client |
| `WebSocketClient` (websocket-client.h) | the connection step, `m_closed` | Connect, Send, Close, the four connection handlers, the read loop | every failure reaches onConnect or onDisconnect |
| `StompClient` (stomp-client.h) | `subscriptions_` | Connect, Subscribe, Send, Close, the frame handlers | no subscription vanishes; nothing follows a disconnection |
| `NetworkMonitor`, `main` | `connectedClients_`, `lastErrorCode_`, `network_` | Configure, Run, Stop and eight handlers | each request is answered to its client, in order; `connectedClients_` follows the server; failures shut the process down |
| `TransportNetwork` | stations, lines, routes, edges, passenger counts | FromJson, building the graph, recording events, queries, fastest and quiet routes | the graph is that of the stored routes; travel times agree; routes are valid paths, the fastest is minimal, the quiet one within the limits and least crowded |
| `StompFrame` | the text; command, headers and body as views into it | parse, validate, build from components, copy, move | it accepts what the grammar accepts; components come back; accessors say what the text says |
| file download, environment, error names, test certificate, playground | none | - | not modelled, see below |

How they interact.  A WebSocket handler calls the STOMP layer's callback
synchronously on its own strand; the STOMP layer posts the user's callback on its
strand `context_`; the monitor's handlers run there and call Send, Close, Stop and
Subscribe, which change the maps at once.  So between an event and the monitor's
reaction to it any other handler may run: sessions break, messages arrive, the
client fails.  With one thread there is no data race; what is hard is the *order*.

What is hard here: callbacks queued for connections that meanwhile closed; Stop while
sessions are in their handshake; the read loop racing write completions; failures at
each connection step; one error code written by all callbacks; a search whose queue
holds stale entries because changing routes costs extra; alternative paths glued from
a root and a spur; signed counts in unsigned sums; lines added half; a parser with
views into its own text and a length it reads twice.  `PROJECT.json` lists these
hazards line by line, with the properties that cover them.

## Modules

* **ClientLifecycle** - what `StompServer::Run` promises its user (the comment at
  stomp-server.h:130-163): only established clients are announced, each once, then
  its messages, then at most one disconnection, of a connection that is over.
* **StompServer** - `WebSocketServer`, `WebSocketSession` and `StompServer`, with the
  most general user: it may call any method on any id it was told, from a callback
  or from elsewhere.  `phase[s]` says which completion handler of session `s` is
  outstanding (`broken`: a read failed, the aborted read is to come); `closed`,
  `connections`, `sessions` and `stopped` are the members of the classes; `posted` is
  the queue of `context_`; `out[s]` records the frames given to `async_write`.
  `used`, `established`, `asked` and `told` are history variables.  One action is one
  completion handler with all the calls it makes: `OnHandshake` includes
  `OnWsSessionConnect`, `OnRead` includes `OnWsSessionMessage` and the frame handlers,
  `ReadEnds` is `ListenToIncomingMessage` with `OnWsSessionDisconnect`.
* **StompClient** - `WebSocketClient` and `StompClient`, with any remote server and the
  most general user (it may close the client more than once).  `writes` holds operations
  whose completion handler has not run, which interleave with the read loop; `wired` records whether the stream was open
  when the operation was started (only then can it succeed).
* **NetworkMonitor** - `main` and the monitor's handlers, on top of the two modules above
  (it extends StompServer and instantiates StompClient as `Client`): their handlers, and
  the monitor in the place of their users.
* **TransportNetwork** - the graph and its users' operations: `FromJson` on any
  document, one step per element (`stage` is the place in it, `thrown` its exceptions),
  then passenger events.  `AddLine`, `SetTravelTime`, `RecordPassengerEvent` are whole
  methods with their result; the queries are operators.  The edges of all nodes are
  one set; a route carries a `serial` because two `AddLine` calls may create equal ones.
* **FastestRoute** - the private `GetFastestTravelRoute`: Dijkstra's algorithm over
  stops (a station and the edge that led to it).  `Visit` is one iteration of the loop,
  with the whole neighborhood; `SearchResults` is the assembly of the path, a set
  because the sort leaves ties open.  `Journeys` is the reference: all paths without a
  repeated station, enumerated.
* **QuietRoute** - the public `GetFastestTravelRoute` and `GetQuietTravelRoute`: the first
  search, then per spur stop another (`RemovedStops`, warm start), the selection of the
  next path from `potentialPaths` (a bag, since a candidate may be pushed twice: that is
  what `AlreadyFound` is for), and the choice with its unsigned sums.
* **StompFrame** - parser, validator, constructors, copies and moves.  Operators named
  after the functions do the parsing; `Meaning` is the reference, which describes the
  grammar by positions in the text instead of scanning it.
* **...Proofs** - the theorems about the module of that name, with StompServer's split into
  StompServerProofs (the maps) and StompServerLifecycleProofs (the callbacks).
* **MC...** - instances for TLC: a symmetry set (MCStompServer); documents (MCTransportNetwork); networks
  (MCQuietRoute); frame texts and components (MCStompFrame).

Definitions marked *Faulty variant* are plausible bugs in the code they stand next
to; `PROJECT.json` names them as mutants.  No specification uses them.

### Abstractions

A request is its SEND frame: its id header and what the monitor tells apart about it
(wrong destination, unparsable body, no id header).  A reply is known by the request
id it carries; the route in it is data.  A passenger event is good, unparsable or for
an unknown station.  A frame is one of the kinds the two ends distinguish; every
malformed one is taken to be reported by the parser's error code.  Frames the code
builds itself are always valid, so the branches for "could not create frame" (and the
monitor's branch for an empty subscription id) are left out.  The completion of a
server-side write or close changes no state.  `StompClient::Send` changes no state.

A text is a sequence of tokens: delimiters, names, digits, other bytes, and one token
for digits that do not fit into `size_t`.  A frame object remembers whether its views
refer to the text it owns (`views`); what a dangling view reads is not modelled.
The validator's `length` stays uninitialised after an out-of-range conversion, so
both outcomes of the comparison are possible.

Lines are well-formed, as `AddLine` documents: two or more stops, none twice.  JSON as
text is left out: a document is its elements.  During a route query the network does
not change (one thread).  Percentages are fractions, so the instances use values a
`double` represents exactly; travel times stay far below 2^32.  Passenger counts are
read at the choice only.

## Runs

| run | module | instance | shows |
|---|---|---|---|
| `stomp_server` | MCStompServer | 2 sessions, 1 request each, user sends while < 2 frames are out | TypeOK, MapsInverse, OnlyLiveSessionsMapped, ConnectedAnnounced, CallbacksInOrder, NoFrameAfterClose; implements ClientLifecycle |
| `stomp_client` | MCStompClient | 1 subscription, 2 queued callbacks, with onMessage, fairness | TypeOK, SubscribeAccountedFor, DisconnectIsLast, FailureReported, LossReported |
| `monitor_live` | MCNetworkMonitor | 1 client, 2 requests of 4 kinds, fairness | RepliesAnswerRequests, ConnectedClientsComplete, ErasedClientStaysErased, RequestSettled, LostClientForgotten |
| `monitor_events` | MCNetworkMonitor | 1 client, 3 kinds of events, fairness | MonitorTypeOK, ConnectFailureStopsServer |
| `transport_network` | MCTransportNetwork | 3 stations, 4 lines (2 of them refusable), 2 times | TypeOK, GraphMatchesRoutes, TravelTimesAgree, ServingRoutesComplete, RouteTimeCumulative |
| `quiet_route` | MCQuietRoute | all networks of 3 stations and 3 routes with times 1 and 8, detour networks of 4 stations with times 0 and 3, one of 5 stations whose spur search comes back to the start; at most 5 paths | TypeOK, SearchInvariant, EverySearchFindsFastest, PathsSound, SecondPathFound, ResultIsJourney, ResultHasNoDetour, QuietestChosen, CallReturns |
| `stomp_frame` | MCStompFrame | texts within two edits of six frames; components with up to two headers, one of them without a name | TypeOK, AcceptedIffWellFormed, AccessorsMatchText, ComponentsRoundTrip, LengthsAgree |
| `stop_takes_client` | MCStompServer | 1 session | violated: StoppedServerTakesNoClient |
| `lost_receipt` | MCStompClient | 1 subscription | violated: ReceiptReported |
| `exit_code` | MCNetworkMonitor | 1 client | violated: ConnectFailureExitsNonzero |
| `frame_throws` | MCStompFrame | the texts of `stomp_frame` | violated: ResultInErrorCode |
| `crowding_wraps` | MCQuietRoute | 3 stations, 2 routes, a count of -1 | violated: QuietestChosen |

Bounds.  Sessions and ids are as many as each other: a session takes one id.
Two sessions suffice for every way one session's handlers can touch another's entries
(the maps, the shared queue, Stop); ids are interchangeable, as are sessions, so
`stomp_server` uses symmetry.  The runs of the whole process check liveness, use no symmetry and
have one client: what two clients could do to each other, in `connectedClients_` and in the shared
queue, is covered by the theorems about the composed process, which hold for any number of
clients, and by `stomp_server` for the server alone.  These runs take main to end when it is out
of work; the theorems also cover a main that is stopped early (`Interruptible`).  `MaxRequests` bounds the
SEND frames taken from a session (two, in `monitor_live`, so that replies can get out
of order), `MaxFrames` the frames after which the general user stops sending (the monitor needs
one more than `MaxRequests`, and then never meets the bound: `MonitorUsesServer`),
`MaxUpcalls` the callbacks the client may queue before more frames are read (two let a
callback wait behind another).  In the monitor the network-events server answers
CONNECTED as often as there are subscription ids (`SubscriptionsLeft`); with
`MaxUpcalls = 0` it sends nothing, which leaves connecting, failing and losing the
connection: `monitor_events` looks at its frames instead.

In the network model `MaxLines`, `MaxTimes` and `MaxCount` bound the elements of the
document and the counts: three lines let one share pairs of stops, and route ids, with
another and a refused one come at any place; two times let one overwrite another.  The
route instances contain every way three routes can share, reverse and skip three
stations, with times below and above the penalty of 5, so that changing is and is not
worth it; four stations add detours, ties and edges whose time was never set; with five, the
third path found is faster than the second.  A
slowdown of 3/4 and a quietness of 1/4 let alternatives in and make some of them lose, with limits that
are truncated (9 minutes become 15.75, cut to 15);
`MaxNPaths` 5 is reached on some networks and not on others.  `UIntSize` stands for 2^32
in TLC's 32-bit arithmetic; in the passing run the counts are not negative and the
sums far from it.  The frames that the texts are edited from have at most two header lines; two edits reach
every error code of the parser, a lost delimiter next to a wrong length included.
`SmallString` is in tokens, between the shortest and the longest frame.

Deadlock is not checked where the program may stop: a client that is closed, a process
that has exited, a route query that returned, a document that was read, a frame that
was copied.  The server alone never stops, its user can always call Stop.

Fairness.  Weak fairness of a handler says that Asio runs what is ready.  It is assumed
of posted callbacks; of the client's connection steps, except the TLS handshake (the
system resolver gives up by itself, connecting has a 5-second timeout and the WebSocket
handshake Beast's suggested one, but `OnConnect`, websocket-client.h:208, cancels the
stream's timeout before the TLS handshake, which may therefore wait for ever); of the
aborted read that follows a failed one; and of the end of a read loop whose session we
closed (Beast's suggested timeout bounds the wait for the peer's close frame).  It is
*not* assumed of writes, nor of anything a peer does: no message, no accept and no
failure has to happen.  A route query runs on one thread without waiting for anything:
`QuietRoute` assumes weak fairness of its next step.

## Findings

Five places where the code does something else than its comments, its documentation or
its tests say; each is a run that TLC must find violated.

1. **A stopped server takes clients** (`stop_takes_client`).  `StompServer::Stop` closes the
   sessions in `connections_`; one that is still in its handshake, or whose accept handler
   is already queued, is in no map and joins later.
2. **A lost receipt** (`lost_receipt`).  The subscription is stored when the SUBSCRIBE write
   completes; a RECEIPT read before that is dropped and onSubscribe never runs.
3. **Exit code 0 after a failed connection** (`exit_code`).  A later callback of a quiet-route
   client overwrites `kCouldNotConnectToStompClient`.
4. **The emptiest path looks full** (`crowding_wraps`).  Counts may be negative, as
   `GetPassengerCount` documents; `GetPathCrowding` adds them into an `unsigned int`.
5. **A frame that throws** (`frame_throws`).  The constructors store their result in an error code
   (stomp-frame.h:121-124, 130-134), but for a text that ends right behind a header's colon
   `plain.at` throws (stomp-frame.cpp:393).  `ThrowsOnlyBehindColonHolds` proves that these are
   all the texts that do so.

Observations that have no run of their own:

* After a failed accept `onDisconnect` runs while all clients stay connected
  (stomp-server.h:554 against the comment at 158-160).
* A malformed frame calls `onConnect` with an error at any time (stomp-client.h:480 against
  110-113); the monitor then shuts down, as ConnectFailureStopsServer shows.
* A connected client closed for a protocol error is reported by nobody and stays in
  `connectedClients_` (stomp-server.h:585 against 155-157).
* "We calculate all paths within a certain travel time" (transport-network.cpp:910-911) is
  more than the code does: roots are compared without the spur stop (928-936), so a stop is
  removed for the wrong root.  On the routes a-c-b, a-c and c-b, the path that takes the
  second route to c and stays on the first one after it is missed.  Not only variants on
  other routes are: with a path a-e-b found, the leg from e to b is removed for the root a-d-e
  too, and no path over d and e may be left.  SecondPathFound is what remains true.
* The paths are not found in the order of their times.  A spur search excludes the next stops
  but not the stops of its root, so it may come back to the start and take another way from
  there: on the network of five stations in MCQuietRoute the times are 100, 172, 114.  Only the
  first path is faster than all others, and this is what PathsSound says.
* So a path found may visit a station twice (a-c-a-b).  The run shows with ResultHasNoDetour
  that it is never the result, as long as counts are not negative and every leg takes time.
  Both conditions are needed.  With legs whose time was never set a detour may tie with the way
  it leaves: on the routes a-c-d (no time), d-c-b (0 and 1) and d-e-b (1 and 0), a-c-d-c-b takes
  as long as a-c-b, is found before it, and is the result when only e is crowded.
* `AddLine` after `SetTravelTime`, or again after it failed, breaks TravelTimesAgree or
  GraphMatchesRoutes: the graph is right because `FromJson` fixes the order and throws.

## Proofs

TLAPS checks all of the following for every value of the constants: any sets of sessions,
ids, requests, stations and lines, any bounds, queues and routes of any length.

**StompServerProofs**, from `NullAssumption` (the null values are no session, id or request)
and `BoundAssumption` (the bounds are natural numbers): `TypeCorrect`, `MapsInverseHolds`,
`OnlyLiveSessionsMappedHolds`, `NoFrameAfterCloseHolds`.  The last three rest on the inductive
invariant `Maps`.  `MapsInverse` alone is not inductive: a fresh id could overwrite an entry,
and erasing a session found under a wrong id would break the other direction.  `Maps` adds that
mapped ids were generated before (`MappedIdsUsed`), that mapped sessions are live
(`OnlyLiveSessionsMapped`) and, for a session that enters the maps at the end of its handshake,
that nobody closed it before (`HandshakeNotClosed`).  The central step is `ForgetMaps`: erasing a
session from both maps keeps them inverse, since no other id leads to it.
`MappedIdHasConnection` shows that the branches of Send and Close for an id whose session is not
in `connections_` are dead code.

**StompServerLifecycleProofs** adds the queue of `context_`: `CallbacksInOrderHolds`,
`ConnectedAnnouncedHolds`, and `LifecycleImplemented`, the refinement `Spec => LifecycleSpec`.
Callbacks are posted by handlers of different sessions and run much later, so the contract of
`ClientLifecycle` is no matter of single steps; `CallbacksInOrder` says what every queue looks
like, in relation to the connections and to what the user has heard: queued callbacks are about
established clients, an announcement is unique and before everything else about its client, a
disconnection is behind everything else and its connection is over, and whoever is established
but unannounced has an announcement queued.  `NextKind` sorts all steps into five kinds (nothing
posted; a report posted; a client established and announced; the acceptor's end posted; a
callback run), and both the invariant and the refinement are proved kind by kind.

**StompClientProofs**, from `SubAssumption` and `UpcallAssumption`: `ClientTypeCorrect`,
`SubscribeAccountedForHolds`, `DisconnectIsLastHolds`, with the inductive invariant
`ClientInvariant`.  What it adds: a disconnection that is queued or was reported means that the
read loop has ended (`DisconnectEndsLoop`), so nothing from the server can be posted behind it;
and nothing has happened before Connect, which resets `m_closed` (`IdleIsFresh`).

**NetworkMonitorProofs**, from `MonitorAssumption`, is about the composed process.
`MonitorInvariantHolds` is its inductive invariant; `MonitorTypeCorrect`, `RepliesAnswerRequestsHolds`,
`ConnectedClientsCompleteHolds` and `ErasedClientStaysErasedHolds` follow.  The replies of a
client are in order because of `RequestsWait`: the requests it has asked and has no reply to are
exactly its messages in the queue, in the order asked (`InQueue` names their places), so the
message that runs next is the oldest of them.  `MonitorUsesServer` (`MonitorSpec => Spec`) and
`MonitorUsesClient` (`MonitorSpec => Client!Spec`) show that the monitor is one of the users
the two component modules allow - it calls methods only after Run, only on ids it has been told,
subscribes only when it was told that it is connected - so that their theorems hold in the whole
process.  The two arguments need each other: that the monitor stays within `MaxFrames` follows
from the order of replies, which follows from the server's callbacks being in order.

**TransportNetworkProofs**, from `LinesAssumption` (lines are as `AddLine` documents them) and
`NumbersAssumption`: `NetworkTypeCorrect`, `GraphMatchesRoutesHolds`, `TravelTimesAgreeHolds`,
`ServingRoutesCompleteHolds`, `RouteTimeCumulativeHolds`.  The inductive invariant is `GraphCore`:
but for their times the edges are exactly those of the stored routes, or more if `FromJson` threw
(`GraphIsRoutes`), their times agree, and no travel time is set before the lines are read (`NoTimesYet`), without which a
line added later could disagree with the times set.  `RouteTimeCumulative` compares two ways to
add up times, the loop of `GetTravelTime` along the edges of the route, which starts counting at
the first station, and the times of adjacent stops.  Each is shown to exist as a function
(`WalkedIsSum`, `SummedIsSum`), and two functions that start alike and take the same steps are
equal up to every place (`AgreeUpTo`).

**FastestRouteProofs**, from `NetworksAssumption` (finite graphs) and `NoEdgeAssumption`, is about
one search from any start, warm or cold, to any other station, with any stops excluded (`SearchSpec`).
`SearchLoopHolds` is the loop invariant, the formulas that `SearchInvariant` checks with TLC, and
`QueueJustified`, which makes them inductive in spite of stale queue entries.
`DistancesRealisedHolds` and `NoWalkShorterHolds` say that the distances of a search that is over
are exactly those of the fastest walks: a walk the search missed would have a first stop it missed
(the least-number principle takes the place of induction).  `PreviousStopsEndHolds` says that the
loop that assembles the path ends: some rank decreases along `previousStop`, even along edges of
time 0, where the distance does not.  `ResultsAreFastestHolds` puts these together: what the
search returns is a walk to station B along which the distances add up and than which none is
faster, and it returns nothing only if no walk leads there.  The ranks of `PreviousStopsEnd`
show that the recursive function `PathTo` applies exists (`BackExists`).  The code stops
assembling at the first stop *at the station* of the start; that this is the start itself needs
`StartLeft`: coming round to that station and leaving it again never saves the penalty of a
change (`ChangePaid`), so no later visit of it is ever a previous stop (`LeavesFromStart`).
`SearchFindsFastestHolds` is the same with the reference the run uses: `Journeys`, which builds
paths stop by stop, is shown to be the set of paths that visit no station twice
(with `StationsAssumption`, the stations are finitely many), and a fastest walk can be shortened
to such a path.

**QuietRouteProofs**, from the assumptions of FastestRoute and from `QueryAssumption`,
`PercentAssumption` (percentages are fractions between 0 and 1) and `SizesAssumption`, is about a
whole call, on every network and for every query.  The inductive invariant `CallInvariant` has
four parts: `CallTypes`; `SearchOn`, the invariant of whatever search is on, and where it starts
from; `FoundPaths`; and `Candidates`.  The paths in the last two are `Trip`s, paths from A to B;
that a root and a spur make one is `GluedPath`, and that its distances go on adding up is why the
spur searches start warm.  `FoundPaths` is more than `PathsSound` asks: no trip at all is faster
than the first path, not only no path found, or a candidate pushed later could be; and while
there is a spur search there is room for one more path, or the bound could be passed.
`CallTypeCorrect`, `SearchInvariantHolds`, `EverySearchFindsFastestHolds` and `PathsSoundHolds`
follow.  `SecondPathFoundHolds` needs another invariant, `SecondPath`: while only one path is
found, every journey that leaves it at a stop already tried is no faster than some candidate
(`Covered`).  It holds because a journey and the first path part at some stop (`PathsPart`), what
follows is a walk the spur search of that stop may take (`RestIsWalk`), and for the first
path the only link removed is the one that journey does not take.  `ResultIsJourneyHolds`
(`ResultInvariant`) relates the steps of the result to the path they are assembled from:
each step is an edge of the network, and their times and the changes of route add up to its distance (`AssembledSteps`).
`QuietestChosenHolds` has the condition `CountsFit`: no path's passengers sum up to less than 0 or
to `UIntSize` and more; `crowding_wraps` shows what happens without it.

**StompFrameProofs**, from `TextsAssumption` and `PartsAssumption` (texts are sequences of tokens,
components have finitely many headers, each a known one or `kInvalid`): `FrameTypeCorrect`,
`AcceptedIffWellFormedHolds`, `LengthsAgreeHolds`,
`AccessorsMatchTextHolds`, `ComponentsRoundTripHolds`, for texts of any length, and
`ThrowsOnlyBehindColonHolds`, which says for exactly which texts ResultInErrorCode fails.  The invariant
`FrameInvariant` says that both frame objects hold what their text says while their views are
their own (`FramesOK`), and that the last code is the one the text or the components deserve
(`OutcomeOK`).  Its substance is in three lemmas about the operators.  `LoopFollowsGrammar`: from
any header line the parser's loop reaches exactly the lines of the grammar (`LineOK`); of the
places where it would not, the last one leads to a contradiction, because the loop goes on behind
it.  `ParseFrameFacts` and `AcceptedMeans`: what `ParseFrame` accepts, and the frame it returns,
are `Meaning`.  `TextMeansParts`: in the text that is printed from components a frame can carry,
whatever the order of the headers, each header is a line of the grammar (`PrintedLine`), there are no others
(`AllBehind`), and the body ends where it should.  The provers cannot show that a literal such as
`"SEND"` is a member of `STRING`; the set `Token` names the literals beside it.

Recursive functions occur in most of these proofs.  The library's induction theorems cannot be
used here, but the least-number principle can: a solution exists because it exists up
to every n, and a property holds everywhere because there is no least place where it fails.

Only model-checked, and why:

* all liveness, and that the searches end (fairness is out of the prover's reach);
* `ResultHasNoDetour`: that a path without the detour was found before needs what the spur
  searches find after the second path.  Because stops are removed for the wrong root
  (transport-network.cpp:928-936) not every path is found, and no invariant is known here that
  says which ones are;
* what the sums `Passengers` and `GetPathCrowding` compute: `QuietestChosenHolds` takes them as they
  are.

## Not modelled

File download and JSON parsing (their failures are the early exit of `Configure`), environment
variables, error-code names, the test certificate, the playground programs.  Comparing,
printing, copying and moving `TransportNetwork` values and their JSON form change nothing the
properties speak of.  Buffer lifetimes
and Beast's rule of one write and one close at a time are below the model; the hazards list
says where they bite.

## Plan

All components with logic of their own are modelled, and every invariant of a passing run but
`ResultHasNoDetour` is a theorem.  What is left: an invariant of the spur searches after the
second path that is strong enough for it.
