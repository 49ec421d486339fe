# OptimaLDN in TLA+

OptimaLDN plans journeys on the London transport network and keeps watch over them: when a
line of a journey in progress has severe delays, the journey is recalculated and the user is
told. This directory holds a TLA+ model of the Go services, TLC configurations that check it
on small instances, and TLAPS proofs for every value of the constants. Paths below are
relative to the repository; `src/` in a map entry of `PROJECT.json` is the repository root.

## 1. The system

| Component | State it keeps | Operations |
|---|---|---|
| RoutePlanner `src/routeplanner` | DynamoDB `ChosenRoutes`: one journey per user | RPC `ServeRequest`, `AcceptSavedRouteRequest`, `TerminateRoute`, `RecalculateRoute`, `GetCurrentRoute`; consumer `notifHandler` |
| Notification `src/notification` | DynamoDB `ActiveRoutes`: one set of lines per user; an in-memory cache from a line to its users | consumers `trafficHandler` and `routePlannerHandler` |
| TrafficDelays `src/traffic_delays` | none (reads InfluxDB) | `startDelayMonitor`, every minute |
| UserService `src/user_service` | Postgres `users`, `user_saved_routes` | RPC for login and favourites; consumer `userHandler` |
| ApiGateway `src/api-gateway` | map from a user to his websocket | HTTP to RPC, `/ws`, `/send-notification` |
| Client `cmd` | terminal menus | one HTTP call at a time, one websocket |
| Lambda `src/lambda` | none | line status of TfL into InfluxDB |
| RabbitMQ library `src/rabbitmq` | connection, channel, circuit breakers | `Publish`, `StartConsume`, start-up |

How they interact:

    client --HTTP--> ApiGateway --RPC--> RoutePlanner, UserService --RPC--> RoutePlanner
    RoutePlanner   --active.route.created/terminated--> [route_planner_queue]  --> Notification
    TrafficDelays  --traffic.route.update.*-----------> [traffic_queue]        --> Notification
    Notification   --route.update.critical------------> [queue of the planner] --> RoutePlanner
    Notification   --user.update.sudden---------------> [queue of the users]   --> UserService
    RoutePlanner, UserService --HTTP--> ApiGateway --websocket--> client

`ChosenRoutes` and `ActiveRoutes` are two records of one fact, kept by two processes. Nothing
but the events keeps them in step: no transaction, no conditional write, no lock. An RPC call
runs in a goroutine of its own next to the recalculation consumer; two consumers of
Notification share a table and a cache. Messages are acknowledged after the handler returns,
and given back when it fails. These are the hard behaviours, and the core of the model:

* RoutePlanner: the stored and the announced journey agree; a request for a recalculation is
  answered; a terminated journey stays terminated; the request that is acknowledged is the one
  that was handled.
* Notification: the users of a delayed line are found, unregistered once and their
  recalculation requested; a termination lands; the process survives its messages.
* Both: a stored journey is watched under its own lines; a user unregistered by a critical
  delay gets a new journey; one user's troubles do not touch another's.
* RabbitMQ library: what is delivered is handled or comes again; the breakers cut off a dead
  channel and never a live one; a signal ends the process.
* ApiGateway and client: one map entry per user, many websockets in his lifetime; a notice finds
  the one he reads.
* Start: five processes, each of which dies when another is not there yet, all end up running.

Every hazard found in the code is listed at its line in `PROJECT.json` under `hazards`.

## 2. The modules

| Module | Models | Notes |
|---|---|---|
| `RouteBus` | users, routes, labels, the two queues between the services | extended by the next three |
| `RoutePlanner` | RoutePlanner, with the other ends of its queues | `Spec` is open: requests arrive and events are taken at any time |
| `Notification` | Notification, with what surrounds it | `Spec` is open likewise |
| `OptimaLDN` | both, over the same queues | instantiates the two modules and drops their open ends |
| `JourneyWatch` | what a user is promised, without queues, tables or processes | abstract; `OptimaLDN` implements it |
| `CircuitBreaker` | the breaker of `gobreaker` with the settings of this code | functions on a record |
| `RabbitClient` | the RabbitMQ library: consume loop, publishers, channel, shutdown | extends `CircuitBreaker` |
| `MessageQueue` | what a consumer may rely on: one queue, whose head it ends or puts last | abstract; `RabbitClient` implements it |
| `FrontEnd` | client menus and listeners, websockets of the gateway, posts to it | |
| `ServiceStart` | the five `main` functions, the broker's exchanges and bindings | |
| `MC...` | the small instances | `ServiceStart` needs none |
| `...Proofs` | the theorems about a module (`JourneyWatch` holds its own) | |

In `RoutePlanner` and `Notification` **a step** is the code between two calls to DynamoDB,
RabbitMQ, the cache or the gateway. The program counter of a goroutine is the field `at`;
locals that a later step needs are the other fields, set to `NoRoute`, `NoUser` and so on where
they mean nothing.

`RoutePlanner`. `chosen` is the table. `rpc[c]` is a goroutine of `net/rpc` and the call it
serves, with its user. Nothing keeps two calls of one user apart: he may use two terminals,
interrupt the client and start it again, or lose the gateway in the middle of a call, which goes
on without it. So any two calls, and a call and a recalculation, interleave freely, whether they
are of one user or of two. `Calls` bounds how many are in flight.

| Code | Actions |
|---|---|
| `ServeRequest` | `ServeRequest` (publishes), then `ServeSave` or `ServeSaveFails` |
| `AcceptSavedRouteRequest` | `AcceptSavedRouteRequest` or `AcceptSaveFails`, then `AcceptPublish` or `AcceptPublishFails`; `AcceptPanics` for the index error of `ConvertUserSavedToChosenRoute` |
| `TerminateRoute` | `TerminateRoute` (reads), `TerminatePublish(Fails)`, `TerminateDelete(Fails)` |
| `notifHandler` | `RecalcRead`/`RecalcSkip`/`RecalcReadFails`, `RecalcPlan(Fails)`, `RecalcDelete(Fails)`, `RecalcSave(Fails)`, `RecalcAnnounce(Fails)`, `RecalcNotify` |
| process | `PlannerCrash`, `PlannerRestart` |

A call that fails before its first publish or write changes nothing and is no step.
`GetCurrentRoute` only reads. `RecalculateRoute` always fails: it looks up the stop id it
estimated in a map keyed by station names (`routeplanner/main.go:136`), before any write.

`Notification`. `active` is the table, `cache` the `AppCache`, `traffic` and `events` the two
handlers. A critical alert goes `TrafficReceive`, then for each line `TrafficHit` (cache) or
`TrafficScan` and `TrafficFill` (scan, then set), then for each user `TrafficUnregister` and
`TrafficPublishCritical`; a sudden worsening only `TrafficPublishSudden`. `EventCreated`
overwrites the entry. `EventTerminated` deletes it and then purges the cache line by line,
`PurgeGet` then `PurgeSet`: Get and Set are two steps, as in the code.
`EventTerminatedPanics` is the nil dereference at `notification/main.go:214`;
`TrafficPublishFails` the `log.Fatalf` after a failed publish.

**Queues** of these two. Durable, persistent, with manual acknowledgements and no prefetch limit
(`consumer.go` never calls `Qos`), so that every message is already delivered to the only
consumer. `Ack` removes the head; `Nack` with requeue puts it behind all the others, where the
broker delivers it again. A process that dies leaves its queue as it is. `MessageQueue` states
the same of any consumer of this library, and `RabbitClient` implements it, with one difference:
there a message that was given back stands in its old place again after a crash, while these two
modules leave it where it was put. Events of one user that are in order of sending are so in
either case, and the order of users that share a queue is arbitrary anyway.

**Failures** are a constant of each service, a set of kinds: `"db"` (a DynamoDB call returns
an error, a write having been applied or not), `"bus"` (a publish returns an error), `"crash"`.
What needs no failure is always possible, also in the runs without faults: the panics, and that
the planning of a recalculation fails (`RecalcPlanFails`): the clock may be past the last leg of
the journey, is read in UTC at one place and in the zone of Rome at another
(`scoring.go:54-61`), and TfL may know no journey. Restarts are never fair: `docker-compose.yml` gives the
services no restart policy.

**History variables**, which no action reads: `announced[u]`, the content of the last event
published for u; `torn`, users with an update of which one half is missing or which overlapped
another (of a recalculation or of a second call), until a later complete update that overlaps
none repairs it; `dropped`, users who were unregistered by a
critical delay when the process ended before it published their request. `torn` and `dropped`
exempt those users from the agreement properties: each names a hazard of the code, listed
there, that the properties cannot deny. In `OptimaLDN`, `strayed` are the users of whom an event
was given back behind a later one (`notification/main.go:204`) and who were sent none since:
the older event is the last to be applied, and undoes the newer.

`JourneyWatch`. For every user a journey, a watch, whether he is being rerouted, whether he is
excused by a failed update, and whether news of him came out of order. Its steps are `Announce`
(journey and watch move as one, and whatever came out of order is set right), `Disrupt`,
`Lapse`, `Settle`, `Fail`, `Recover`, and `Stray`, the only one that puts a watch on other
lines. The refinement mapping is `JW` in `OptimaLDN`: the journey is `announced`; the watch is
`Forecast(u)`, what `ActiveRoutes` will hold once the events in flight are handled; a user is
rerouted while an alert handler or a request holds him; he is excused while in `torn` or
`dropped`, or between the two halves of `AcceptSavedRouteRequest`, whose save may just have
repaired `torn` without being announced; `strayed` is the variable of that name.

`RabbitClient`. One process with one consumer and any number of publishers on one channel.

| Code | Actions |
|---|---|
| `StartConsume`, an attempt through the breaker | `AttemptRefused`, `AttemptFails`, `AttemptConsumes` |
| its inner loop | `HandlerTakes`, `HandlerReturns`, `AckSent` or `NackSent`, `ConsumingLost`, `LoopStops` |
| the sleeps of five and ten seconds | `Sleep` with `Tick`; a unit of time is five seconds |
| `Publish` | `Publish`, `PublishRefused` |
| signal handling in `main` | `Shutdown`, `ProcessEnds`; `ProcessDies` and `ProcessRestarts` at any time |
| broker | `Arrives`, `ChannelCloses` |

A message is its place in the queue. `buffer` is what was delivered to the loop: a nacked
message goes to its end, and a new registration gets all that is stored, in order of arrival.
The handler is a set `Poison` of messages it always gives back. In `CircuitBreaker` a closed
breaker forgets its failures every thirty seconds and an open one half-opens after ten, as the
settings say; a whole stay in the inner loop is one request to the breaker.

`FrontEnd`. A websocket is named by its user and the journey he opened it for. `page` is the
menu the client is in (`cmd/main.go`), `client[c]` its `listenToNotifications`, `server[c]` the
gateway's `wsHandler` and reader, `noting` the journeys whose notices are shown, `registry` the
map `clients`, `sender[s]` a post to
`/send-notification` by one of the two services that send them. Dialling returns before the
gateway has stored the connection, so `DialOpens` and `WsRegisters` are two steps, and so are
the failed read (`ReaderFails`) and the delete (`ReaderForgets`), the lookup and the write.
Two writers on one websocket panic (`WriteClashes`); the map is used without a lock, which the
Go runtime may notice (`GatewayDies`). `FavouriteRefused` is the save that Postgres always
refuses (section 6): it returns to the menu with the journey under way, the goroutine that shows
its notices never starts, and the next journey crosses it. `crossed` is a history variable: users with a websocket stored beside an older one.

`ServiceStart`. Each `main` is a script of `listen`, `connect`, `declare`, `bind` and `dial`,
in the order of the code; one action performs each kind of step, and one its failure.
`InitRabbitMQ` counts its attempts; everything else that fails ends the process. The broker
keeps exchanges and bindings, which are durable, and drops what no queue is bound for.

**Variants.** A definition whose comment begins with "Variant" is used by no specification. It
is a plausible bug of the definition after it; `PROJECT.json` pairs it with the property that
must then fail.

**Left out of the data.** A route is a value; what matters of it is the set of labels it is
registered under, and whether it carries leg times (journeys do, favourites do not). A label is
opaque, and the lower-casing of line names is not modelled: a favourite's labels are simply
different from those of the alerts. The clock exists in `RabbitClient` only: elsewhere the cache
may forget a line and alerts may arrive at any moment. Messages always decode.

## 3. The runs

| Run | Faults | Properties | Distinct states |
|---|---|---|---|
| `planner_safety` | all | `TypeOK`, `RecalcOwnsHead`, `TableMatchesAnnouncement` | 5,794,000 |
| `planner_progress` | none | `RequestAnswered` | 39,300 |
| `notification_safety` | all | `TypeOK`, `HandlersOwnHeads` | 4,473,000 |
| `notification_progress` | none | `TerminationLands`, `AlertReaches` | 26,100 |
| `system_safety` | all | `WatchFollowsPlanner`, `TablesAgree`, `WatchImplemented` | 1,419,000 |
| `system_stays_up` | none | `NotificationStaysUp`: violated | |
| `system_watch` | none | `NobodyUnwatched`: violated | |
| `system_progress` | none | `RerouteCompletes` | 27,100 |
| `rabbit_client` | channel closes, crash, restart, poisoned message | `TypeOK`, `AckedWasHandled`, `FirstOffersInOrder`, `DeliveredOnce`, `LiveChannelNeverRefused`, `TripsInTime`, `MessagesHandled`, `ShutdownEnds`, `QueueImplemented` | 116,000 |
| `amqp_recovers` | the same | `ConsumerRecovers`: violated | 20,500 |
| `front_end` | network, races, restarts, interrupts | `TypeOK`, `RegistryHoldsReaders`, `ReadersReachable`, `NoticeArrives`, `ClosedIsForgotten` | 81,100 |
| `service_start` | kills, broker stops | `TypeOK`, `OnceUpAlwaysRouted`, `EveryoneStarts`, `AlertsGetThrough` | 211,000 |

What the passing runs show:

* `TableMatchesAnnouncement`: whenever nothing is under way for a user, his stored journey is
  the one last announced, unless `torn` names him. The five code paths write the two halves in
  four different orders, and a crash, a failed call, another call of the same user or the
  recalculation may come between them. `torn` exempts the users this happens to: the property
  shows that the damage stays with them and is made good by their next undisturbed update, not
  that it does not happen.
* `RequestAnswered`: no request is starved by the requests that are nacked for ever: those of
  users on a favourite, whose stop can never be estimated, and of users whose journey is over. A
  user whose own planning fails again and again is excepted, and him the code never answers. It
  depends on a nacked message going to the back.
* `RecalcOwnsHead`, `HandlersOwnHeads`: the ack or nack after a handler, or the redelivery after
  a crash, is about the message that was handled.
* `TerminationLands`, `AlertReaches`: between the scan, the fill, the deletes, the purge and the
  publishes no user is lost, unless the process dies.
* `WatchFollowsPlanner`: at every moment, what `ActiveRoutes` will be once the events in flight
  are handled is what the planner last announced, or the user is being rerouted. `TablesAgree`:
  at rest, a user is watched under the lines of his stored journey, and not without one.
  `WatchImplemented`: the same as steps: only an announcement moves a watch to other lines. All
  three leave a user in `strayed` out, and no one longer than until his next event.
* `RerouteCompletes`: the whole loop, from the unregistration to the message to the user, with
  the same exception.
* `AckedWasHandled`, `DeliveredOnce`, `FirstOffersInOrder`: the handler sees every message, a
  first time in order of arrival, and none leaves the queue before it was handled, although a
  closed channel drops acks and buffers and a crash comes at any point.
  `QueueImplemented`: the same as steps, of one queue in place of broker, channel, buffer and loop.
* `LiveChannelNeverRefused`, `TripsInTime`: four failures, at most seven units of sleep, and only
  a dead channel, open a breaker. `MessagesHandled`: a message that is nacked for ever starves no
  other. `ShutdownEnds`: nor does it keep the process from ending.
* `RegistryHoldsReaders`, `ReadersReachable`, `NoticeArrives`, `ClosedIsForgotten`: the map never
  keeps an ended websocket, also when it is stored after the client closed it; a websocket that is
  read is the one notices go to and they arrive, unless it was stored beside an older one, whose
  reader then deletes it (`api-gateway/main.go:45`).
* `EveryoneStarts`: the scripts wait for each other in no cycle, so that any order of starts
  ends with all services up. `OnceUpAlwaysRouted`, `AlertsGetThrough`: alerts dropped before the
  first bind are made good by later ones, and bindings never go away.

The violated runs are findings, with their quotations in `PROJECT.json`:

* `system_stays_up`: a journey is announced, registered and saved. Its user asks to end it;
  `TerminateRoute` reads the stored journey. A critical delay is handled and deletes his entry; then
  the termination is published. `DeleteActiveRoute` finds nothing and returns `nil, nil`, and
  `deletedRoute.LineIDs` ends Notification; so does every redelivery. It runs on the composition,
  where only a stored journey is terminated, and needs no fault.
* `system_watch`: the journey is published before it is saved. A critical delay in between is
  acknowledged ("no active route found"), and the saved journey is watched by nobody.
* `amqp_recovers`: the consumer that logs "Re-establishing consumer" asks the channel that
  closed, for ever.

Behaviours that the models contain, that a reader should know of, and that no run is spent on:
a recalculation that read the journey before `TerminateRoute` saves and announces a new one
after the client got `StatusDone` (such users are in `torn`); a cached line answers with the
users of the last scan, without those who registered since.

**Bounds.** `MaxEvents`, `MaxRequests` and `MaxAlerts` bound the queues, only by holding back
new inputs (calls, alerts, restarts): no handler is ever stopped by a bound. With one event
allowed before a new call, the calls in flight and a recalculation still put two or three events
in the queue; two requests are enough for one to be nacked behind another, and for the same user
to be rerouted twice. Two calls (`Calls`) are enough for two of one user to overlap, or of two
users, in `planner_safety` and `system_safety`; the other planner runs have one: in
`planner_progress` it is a call beside the recalculation that matters, and the progress of the
composed runs is that of the two consumers. Two users are enough for messages of one to pass those
of the other; two journeys, for a created event to differ from an older one; two labels, for a
journey with several lines. The composed runs have one user and no favourites: the theorems of
section 5 cover any number of users, calls and favourites. `system_safety` makes do with one
request before a new alert and one event before a new call, because it has every fault. An older
event is still given back behind a newer one: when `Overtaken` is empty, so that nobody strays,
TLC refutes `WatchFollowsPlanner` in nine states, in which the events of a recovered and a
terminated journey change places after a failed write to `ActiveRoutes`. `SYMMETRY` over the users
and over the calls is used in the safety runs alone.

`MaxMessages` = 3 with one of them in `Poison`: two healthy messages can change places around
one that is nacked. `MaxWaited` = 7 is the longest a consumer can sleep before its breaker must
have opened; `amqp_recovers` needs one message. `MaxJourneys` = 2 and `MaxNotices` = 2: a second
websocket beside a first, and the two services posting at once; users do not meet in the map, so
one is enough. `ChanSize` = 1 (10 in the code) makes the full channel happen. `MaxStops` = 1: a
kill or a stop of the broker at any point of any start; two attempts to connect are enough for a
first and a last one.

`CHECK_DEADLOCK FALSE`, because a system whose users ask nothing, or whose processes are down,
has nothing to do.

## 4. Fairness

`WF` on the recalculation consumer, on each call under way, and on each consumer of
Notification (its panic is one of the things a consumer may do next): goroutines that can go on
do go on, and the Go scheduler starves none. Nothing else in these modules is fair: no call,
alert, expiry or restart has to happen. Calls are fair one by one, because each is a
goroutine. Nothing says that a planning succeeds in the end, hence the exception in
`RequestAnswered` and `RerouteCompletes`. It is assumed that `NotifyUser` returns; it posts without a timeout, which is listed
as a hazard. Every liveness property allows for the death of a process.

`RabbitClient`: `WF` on the loop, the clock and the end of `main`, and `SF` on `LoopStops`: the
loop comes back to its `select` for ever while messages go round, and Go's `select` picks at
random among the cases that are ready, so that a cancelled context is taken in the end.

`FrontEnd`: `WF` on the reader and the close of each listener, on the goroutines of each
websocket, on each post, and on the failure of a read once the client has closed. No user and no
dial need go on, and nothing restarts the gateway.

`ServiceStart`: `WF` on each `main` and on the monitor's ticker. That the operator starts a
service that is down and a broker that stopped is an assumption on the deployment, stated in
`Fairness`, because nothing in the repository does it.

## 5. The proofs

All of them hold for any values of the constants. The assumptions are the named `ASSUME`s of the
modules (`BusAssumption`, `PlannerAssumption`, `NotificationAssumption`, `SystemAssumption`,
`ClientAssumption`, `FrontEndAssumption`, `StartAssumption`), which only say what the constants
are; TLC evaluates them in every run. Two theorems have a hypothesis of their own:
`ClientTripsInTime` that `MaxWaited`, where the counter of waiting stops, is not below seven, and
`JourneyNeverWrong` that `NoEntry` is one of `Entries`, which the refinement provides. Every
invariant that a passing run checks is stated by a theorem.

**`RoutePlannerProofs`**: `PlannerTypeCorrect`, `PlannerOwnsHead`, `PlannerTableMatches`.
`TableMatchesAnnouncement` speaks of settled users only and is not inductive. `PlannerInv` adds

* `LocalsOK`: a call in flight has a user, one that saves a real journey, a recalculation a
  planned one;
* `OverlapsAreTorn`: two calls of one user, or a call and a recalculation for him, overlap only
  if he is in `torn`. Without it, each could undo the other's half;
* `UpdatesInStep`: for a user not in `torn`, what each stage of an update has written so far:
  after the publish of `ServeRequest` the announcement has the new lines, after the save of
  `AcceptSavedRouteRequest` the table has the new route, after the publish of `TerminateRoute`
  the announcement is empty, after the save of a recalculation the table has the best journey;
  at every other stage both match.

One lemma per part shows that each step preserves it, one case per action; `StepPreserves` puts
them together, for `OpenNext`, in which the bounds hold back nothing that comes from outside.
`PlannerImplies` is what the invariant is for.

**`NotificationProofs`**: `NotificationTypeCorrect` and `NotificationOwnsHeads`, from
`NotificationInv`, which adds what the locals of the two handlers hold where they are used. Here
too every step of `OpenNext` preserves it.

**`OptimaLDNProofs`**: `SystemInvariant`, `WatchFollows`, `SystemTablesAgree`,
`SystemPlannerSafe`, `SystemNotificationSafe`, whatever fails in either service. A step of the
composition is a step of `OpenNext` for the planner (`PlannerSide`), so that `PlannerInv` holds of
the whole. `WatchFollowsPlanner` is not inductive, since it says nothing of the events before
the last one, or of a request whose handling is about to end. `SystemInv` adds

* `EventsMatch`: the last event in flight for a user who is not in `strayed` is his last
  announcement;
* `TableFollows`: with no event to come, such a user has the entry last announced, or none;
* `LossIsOwed`: without the entry he should have, he is being rerouted, or excused;
* `LossIsOwedAfter`: and not by the request that `RecalcNotify` is about to acknowledge: that
  one announced already. This is what makes the last ack safe.

Lemmas say what an event at the end of the queue, or taken from its front, or moved from its
front to its end (`RotatedEvent`), does to the positions of each user; then one lemma per kind of
change (`Announcing`, `Working`, `Answering`, `Unregistering`, `Requesting`, `Applying`,
`Acknowledging`, `GivingBack`, `Dying`), and one case per action. `GivingBack` is where `strayed`
is needed: an event that goes behind no other of its user still is his last, and any other adds
him to `strayed`, until `Announcing` removes him.

The two services keep alone what they keep together. For the planner that is part of
`SystemInv`. For Notification, `PlannerIsEnvironment` shows that each step of the planner is one
that the `OpenNext` of `Notification` allows its environment, or a stutter for it: an
event of the right type at the end of `routeQ`, or an ack or nack of the head of `notifQ`, for
which the planner's own invariant is needed.

**`JourneyWatch`, `JourneyWatchProofs`**: `JourneyNeverWrong` of the abstract specification;
`WatchRefined`, that `OptimaLDN` implements it: under `SystemInv`, `Forecast` is read off the
queue and the table (`ForecastRead`), and each action is one abstract step or a stutter
(`PlannerMaps`, `NotifierMaps`): an event given back (`FailedEventMaps`) is a stutter if it is
the last of its user, and else `Stray`. `SystemNeverWrong` carries the promise over.

**`FrontEndProofs`**: `FrontEndTypeCorrect`, `FrontEndHoldsReaders`, `FrontEndReadersReachable`.
The invariant adds `PostsAreAbout` (a post under way is for a user and holds a notice) and
`SocketsAreFresh` (a journey that has not started has no websocket, and one that is dialling
none in the gateway): without it a dial could revive a websocket that the map still holds.

**`ServiceStartProofs`**: `StartOnceUpAlwaysRouted`. A script that is past its `bind` step has the
queue bound (`BoundWhenPassed`); nothing unbinds. `StartTypeCorrect`: a step leads to the next of
its script or to its first (`StepMoves`), and each script has an end (`ScriptLengths`).

**`RabbitClientProofs`**: `ClientAckedWasHandled`, from the fact that the loop acks only what
the handler returned `TRUE` for; `ClientLiveChannelNeverRefused`, from the fact that neither
breaker leaves the closed state while the channel is open.

`ClientTypeCorrect`, `ClientFirstOffersInOrder` and `ClientDeliveredOnce` come from `QueueInv`:

* `MessagesKnown`, `LoopShape`, `BufferIsLive`: what is stored has arrived, what is handled was
  offered, the loop has a message exactly while it works on one, and only an open channel has a
  buffer;
* `Dealt`: each stored message is with the loop or at one place of the buffer, and no other is;
* `UnseenInOrder`: those in the buffer that the handler has not seen are in order of arrival. The
  nacked ones, behind them or between, are seen. So the next one that the handler takes is either
  seen already, or the first of all that are not.

A registration deals the stored messages anew in order of arrival. The model says so without
recursion, by the number of messages that come before each (`InOrder`), so that
`QueueInOrder` can be proved from facts about cardinalities alone.

`ClientQueueImplemented`: `RabbitClient` implements `MessageQueue`. `Queue` is the loop's message
and the buffer behind it while the consumer is registered, and the stored messages in order of
arrival while none is. `Dealt` makes both have the same content, so that losing the consumer is
`Restored` (`Restoring`); an arrival is an `Append` in both forms (`ArrivalMaps`, for the second
with `OrderGrows`); taking a message changes nothing, acks and nacks on an open channel are `Done`
and `GivenBack`, and on a closed one nothing.

`ClientTripsInTime` comes from `TripInv`, a bound on what is still to be slept in each state of
the loop. `UntilTrip` is the number of units until the breaker opens, given its failures and the
age of its count: the worst case is a count that expires just before its fourth failure and starts
again.

Only model-checked: all liveness (TLAPS 1.4.5 proves none under fairness).

## 6. Not modelled

* Lambda collector, login, the reading of favourites, the gateway's HTTP forwarding: input and
  output without state of their own. The queries of InfluxDB only choose which alerts are sent.
* Scoring, crowding, time bands and the estimate of the current stop: they choose among journeys
  or fail, which the planner model leaves open.
* `RecalculateRoute`: it always fails before any write. The client posts to
  `/route/recalculate-route` while the gateway serves `/route/recalculate`.
* The terminal: `cmd/main.go:87` starts a goroutine that reads answers to notices while the
  termination loop reads the same terminal. Which reader gets a line is outside the model.
* `CheckActiveRoutes` reads one page of its scan (`notification/internal/dynamo.go:37`) and
  ignores `LastEvaluatedKey`: from a table larger than a page of DynamoDB it misses users. The
  model scans a table that fits on one page.
* Favourites: the insert names a conflict target without a unique constraint in either schema, so
  that no favourite is ever saved by this code (`FavouriteRefused`). `AcceptSavedRouteRequest` is
  modelled for rows that come from elsewhere, or from a schema that has the constraint.
* RPC clients are dialled once: after a restart of the other side their calls fail until the caller
  is restarted. `ServiceStart` models the dial, not the later calls.
* Publishes are not confirmed: one that returned nil may be lost when the connection breaks at that
  moment. The composed model stores what was published without an error. A route event published
  before `route_planner_queue` was first bound is dropped; the composed model starts with the queue.
* A broker that loses stored messages or a table that returns old data is outside the code: reads
  by key are eventually consistent in DynamoDB by default, and the model reads the last write.

## 7. Plan

1. `CurrentStop`: `EstimateCurrentStop`, `NormalizeStopID`, time bands and scores as functions,
   checked against reference definitions at their boundaries.
2. `RabbitClient` under `RoutePlanner`: unconfirmed publishes and the loss they may cause.
3. Messages of `RouteBus` numbered as they arrive, so that its queues implement `MessageQueue` with
   a crash that restores their order too.
4. The two readers of the client's terminal.
