---------------------------- MODULE Notification ----------------------------
(***************************************************************************)
(* The Notification service: one consumer for the traffic alerts, one for  *)
(* the route events, in two goroutines of the same process. They share the *)
(* DynamoDB table ActiveRoutes and an in-memory cache from a line to the   *)
(* users last found on it. Each cache operation is atomic, a read followed *)
(* by a write is not.                                                      *)
(***************************************************************************)
EXTENDS RouteBus

CONSTANTS
  NotificationFaults,  \* what may fail in this service
  Alerts,       \* what may arrive in traffic_queue, its line names normalised
  MaxAlerts     \* bound: no new alert while trafficQ is this long

AlertKinds == {"CriticalDelay", "SuddenServiceWorsening"}

ASSUME NotificationAssumption ==
  /\ NotificationFaults \subseteq FaultKinds
  /\ Alerts \subseteq [kind: AlertKinds, lines: Seq(Labels)]
  /\ MaxAlerts \in Nat

VARIABLES
  active,       \* ActiveRoutes: [Users -> Entries]
  cache,        \* AppCache: [Labels -> SUBSET Users], {} when the line is not cached
  trafficQ,     \* traffic_queue: alerts of the traffic monitor
  userQ,        \* queue of the user service: sudden delays to tell users about
  traffic,      \* trafficHandler: where it is and its locals
  events,       \* routePlannerHandler: where it is and its locals
  notifUp,      \* the process runs
  dropped       \* history: unregistered users whose request was cut off by its end

notificationVars == <<active, cache, trafficQ, userQ, traffic, events, notifUp, dropped>>
vars == <<busVars, notificationVars>>

TrafficPoints == {"idle", "lookup", "fill", "users", "publish"}
EventPoints == {"idle", "purge", "set", "ack"}

\* Handlers between two messages.
TrafficIdle == [at |-> "idle", kind |-> "CriticalDelay", lines |-> <<>>,
                users |-> {}, user |-> NoUser]
EventsIdle == [at |-> "idle", user |-> NoUser, keys |-> {}, key |-> NoLabel, snap |-> {}]

NotificationInit ==
  /\ active = [u \in Users |-> NoEntry]
  /\ cache = [l \in Labels |-> {}]
  /\ trafficQ = <<>> /\ userQ = <<>>
  /\ traffic = TrafficIdle
  /\ events = EventsIdle
  /\ notifUp = TRUE
  /\ dropped = {}

-----------------------------------------------------------------------------
\* The process ends: unacknowledged messages stay queued, the cache is lost.
NotificationDown ==
  /\ notifUp /\ notifUp' = FALSE
  /\ traffic' = TrafficIdle /\ events' = EventsIdle
  /\ cache' = [l \in Labels |-> {}]
  /\ dropped' = dropped \cup ({traffic.user} \ {NoUser})
  /\ UNCHANGED <<busVars, active, trafficQ, userQ>>

-----------------------------------------------------------------------------
\* trafficHandler: handleCriticalDelay and handleSuddenDelay.

Alerting(at) == notifUp /\ traffic.at = at

Line == Head(traffic.lines)

\* The users registered under label l. GetUsersForLine reads one page of a Scan and no
\* further one: the table is taken to fit in a page (1 MB).
Subscribers(l) == {u \in Users : l \in active[u]}

TrafficReceive ==
  /\ Alerting("idle") /\ trafficQ # <<>>
  /\ traffic' = [TrafficIdle EXCEPT !.at = "lookup", !.kind = Head(trafficQ).kind,
                                   !.lines = Head(trafficQ).lines]
  /\ UNCHANGED <<busVars, active, cache, trafficQ, userQ, events, notifUp, dropped>>

\* CheckActiveRoutes: the cached users are all there is to know.
TrafficHit ==
  /\ Alerting("lookup") /\ traffic.lines # <<>> /\ cache[Line] # {}
  /\ traffic' = [traffic EXCEPT !.at = "users", !.users = cache[Line]]
  /\ UNCHANGED <<busVars, active, cache, trafficQ, userQ, events, notifUp, dropped>>

\* Not cached: the table is scanned. Users found are cached in a later step.
TrafficScan ==
  /\ Alerting("lookup") /\ traffic.lines # <<>> /\ cache[Line] = {}
  /\ traffic' = [traffic EXCEPT !.at = IF Subscribers(Line) = {} THEN "users" ELSE "fill",
                               !.users = Subscribers(Line)]
  /\ UNCHANGED <<busVars, active, cache, trafficQ, userQ, events, notifUp, dropped>>

\* A failed scan is logged and the line is skipped, as if nobody were on it.
TrafficScanFails ==
  /\ Alerting("lookup") /\ traffic.lines # <<>> /\ cache[Line] = {} /\ "db" \in NotificationFaults
  /\ traffic' = [traffic EXCEPT !.at = "users", !.users = {}]
  /\ UNCHANGED <<busVars, active, cache, trafficQ, userQ, events, notifUp, dropped>>

TrafficFill ==
  /\ Alerting("fill")
  /\ cache' = [cache EXCEPT ![Line] = traffic.users]
  /\ traffic' = [traffic EXCEPT !.at = "users"]
  /\ UNCHANGED <<busVars, active, trafficQ, userQ, events, notifUp, dropped>>

\* Variant: the user is unregistered and the request forgotten.
TrafficUnregisterOnly(u) ==
  /\ Alerting("users") /\ u \in traffic.users /\ traffic.kind = "CriticalDelay"
  /\ active' = [active EXCEPT ![u] = NoEntry]
  /\ traffic' = [traffic EXCEPT !.users = @ \ {u}]
  /\ UNCHANGED <<busVars, cache, trafficQ, userQ, events, notifUp, dropped>>

\* The users of the line are taken one by one. A critical delay unregisters the
\* user (the cache keeps him); an error of the delete is logged, no more.
TrafficUnregister(u) ==
  /\ Alerting("users") /\ u \in traffic.users /\ traffic.kind = "CriticalDelay"
  /\ active' = [active EXCEPT ![u] = NoEntry]
  /\ traffic' = [traffic EXCEPT !.at = "publish", !.user = u, !.users = @ \ {u}]
  /\ UNCHANGED <<busVars, cache, trafficQ, userQ, events, notifUp, dropped>>

TrafficUnregisterFails(u) ==
  /\ Alerting("users") /\ u \in traffic.users /\ traffic.kind = "CriticalDelay"
  /\ "db" \in NotificationFaults
  /\ active' \in {active, [active EXCEPT ![u] = NoEntry]}
  /\ traffic' = [traffic EXCEPT !.at = "publish", !.user = u, !.users = @ \ {u}]
  /\ UNCHANGED <<busVars, cache, trafficQ, userQ, events, notifUp, dropped>>

\* ... and asks the planner to recalculate, in a call of its own.
TrafficPublishCritical ==
  /\ Alerting("publish")
  /\ notifQ' = Append(notifQ, traffic.user)
  /\ traffic' = [traffic EXCEPT !.at = "users", !.user = NoUser]
  /\ UNCHANGED <<routeQ, active, cache, trafficQ, userQ, events, notifUp, dropped>>

\* A sudden delay is only told to the user.
TrafficPublishSudden(u) ==
  /\ Alerting("users") /\ u \in traffic.users /\ traffic.kind = "SuddenServiceWorsening"
  /\ userQ' = Append(userQ, u)
  /\ traffic' = [traffic EXCEPT !.users = @ \ {u}]
  /\ UNCHANGED <<busVars, active, cache, trafficQ, events, notifUp, dropped>>

TrafficNextLine ==
  /\ Alerting("users") /\ traffic.users = {}
  /\ traffic' = [traffic EXCEPT !.at = "lookup", !.lines = Tail(@)]
  /\ UNCHANGED <<busVars, active, cache, trafficQ, userQ, events, notifUp, dropped>>

\* The handler always returns TRUE.
TrafficAck ==
  /\ Alerting("lookup") /\ traffic.lines = <<>>
  /\ trafficQ' = Ack(trafficQ)
  /\ traffic' = TrafficIdle
  /\ UNCHANGED <<busVars, active, cache, userQ, events, notifUp, dropped>>

TrafficStep ==
  \/ TrafficReceive \/ TrafficHit \/ TrafficScan \/ TrafficScanFails \/ TrafficFill
  \/ \E u \in Users : \/ TrafficUnregister(u) \/ TrafficUnregisterFails(u)
                      \/ TrafficPublishSudden(u)
  \/ TrafficPublishCritical \/ TrafficNextLine \/ TrafficAck

-----------------------------------------------------------------------------
\* routePlannerHandler.

Handling(at) == notifUp /\ events.at = at

Delivered(key) == Handling("idle") /\ routeQ # <<>> /\ Head(routeQ).key = key

\* Variant: the new lines are added to those registered before.
EventCreatedMerges ==
  /\ Delivered("created")
  /\ active' = [active EXCEPT ![Head(routeQ).user] =
                  IF @ = NoEntry THEN Head(routeQ).keys ELSE @ \cup Head(routeQ).keys]
  /\ events' = [EventsIdle EXCEPT !.at = "ack", !.user = Head(routeQ).user]
  /\ dropped' = dropped \ {Head(routeQ).user}
  /\ UNCHANGED <<busVars, cache, trafficQ, userQ, traffic, notifUp>>

\* Variant: the handler acknowledges, and the consumer does so again.
EventCreatedAcks ==
  /\ Delivered("created")
  /\ active' = [active EXCEPT ![Head(routeQ).user] = Head(routeQ).keys]
  /\ events' = [EventsIdle EXCEPT !.at = "ack", !.user = Head(routeQ).user]
  /\ dropped' = dropped \ {Head(routeQ).user}
  /\ routeQ' = Ack(routeQ)
  /\ UNCHANGED <<notifQ, cache, trafficQ, userQ, traffic, notifUp>>

\* RegisterNewRoute; the cache is not told.
EventCreated ==
  /\ Delivered("created")
  /\ active' = [active EXCEPT ![Head(routeQ).user] = Head(routeQ).keys]
  /\ events' = [EventsIdle EXCEPT !.at = "ack", !.user = Head(routeQ).user]
  /\ dropped' = dropped \ {Head(routeQ).user}
  /\ UNCHANGED <<busVars, cache, trafficQ, userQ, traffic, notifUp>>

\* Variant: the absent entry is taken for a registered one.
EventTerminatedUnchecked ==
  /\ Delivered("terminated")
  /\ active' = [active EXCEPT ![Head(routeQ).user] = NoEntry]
  /\ events' = [EventsIdle EXCEPT !.at = "purge", !.user = Head(routeQ).user,
                                  !.keys = active[Head(routeQ).user]]
  /\ UNCHANGED <<busVars, cache, trafficQ, userQ, traffic, notifUp, dropped>>

\* Variant: the entry is read and stays.
EventTerminatedReads ==
  /\ Delivered("terminated") /\ active[Head(routeQ).user] # NoEntry
  /\ events' = [EventsIdle EXCEPT !.at = "purge", !.user = Head(routeQ).user,
                                  !.keys = active[Head(routeQ).user]]
  /\ UNCHANGED <<busVars, active, cache, trafficQ, userQ, traffic, notifUp, dropped>>

\* DeleteActiveRoute gives back the entry that it deleted.
EventTerminated ==
  /\ Delivered("terminated") /\ active[Head(routeQ).user] # NoEntry
  /\ active' = [active EXCEPT ![Head(routeQ).user] = NoEntry]
  /\ events' = [EventsIdle EXCEPT !.at = "purge", !.user = Head(routeQ).user,
                                  !.keys = active[Head(routeQ).user]]
  /\ UNCHANGED <<busVars, cache, trafficQ, userQ, traffic, notifUp, dropped>>

\* DeleteActiveRoute of an absent user returns nil without an error, and the
\* handler reads LineIDs of the nil result: the panic ends the process.
EventTerminatedPanics ==
  /\ Delivered("terminated") /\ active[Head(routeQ).user] = NoEntry
  /\ NotificationDown

\* A write that returns an error may have been applied; the event is nacked.
EventFails ==
  /\ Handling("idle") /\ routeQ # <<>> /\ "db" \in NotificationFaults
  /\ LET e == Head(routeQ)
         written == IF e.key = "created" THEN e.keys ELSE NoEntry
     IN  active' \in {active, [active EXCEPT ![e.user] = written]}
  /\ routeQ' = Nack(routeQ)
  /\ UNCHANGED <<notifQ, cache, trafficQ, userQ, traffic, events, notifUp, dropped>>

\* RemoveUserFromLineCache, one line at a time: Get ...
PurgeGet(k) ==
  /\ Handling("purge") /\ k \in events.keys /\ cache[k] # {}
  /\ events' = [events EXCEPT !.at = "set", !.keys = @ \ {k}, !.key = k,
                              !.snap = cache[k] \ {events.user}]
  /\ UNCHANGED <<busVars, active, cache, trafficQ, userQ, traffic, notifUp, dropped>>

PurgeMiss(k) ==
  /\ Handling("purge") /\ k \in events.keys /\ cache[k] = {}
  /\ events' = [events EXCEPT !.keys = @ \ {k}]
  /\ UNCHANGED <<busVars, active, cache, trafficQ, userQ, traffic, notifUp, dropped>>

\* ... then Set what is left, or Delete when nobody is left.
PurgeSet ==
  /\ Handling("set")
  /\ cache' = [cache EXCEPT ![events.key] = events.snap]
  /\ events' = [events EXCEPT !.at = "purge", !.key = NoLabel, !.snap = {}]
  /\ UNCHANGED <<busVars, active, trafficQ, userQ, traffic, notifUp, dropped>>

PurgeDone ==
  /\ Handling("purge") /\ events.keys = {}
  /\ events' = [events EXCEPT !.at = "ack"]
  /\ UNCHANGED <<busVars, active, cache, trafficQ, userQ, traffic, notifUp, dropped>>

EventAck ==
  /\ Handling("ack")
  /\ routeQ' = Ack(routeQ)
  /\ events' = EventsIdle
  /\ UNCHANGED <<notifQ, active, cache, trafficQ, userQ, traffic, notifUp, dropped>>

EventStep ==
  \/ EventCreated \/ EventTerminated \/ EventTerminatedPanics \/ EventFails
  \/ \E k \in Labels : PurgeGet(k) \/ PurgeMiss(k)
  \/ PurgeSet \/ PurgeDone \/ EventAck

-----------------------------------------------------------------------------
\* The cache forgets an entry five minutes after it was last set: time is not
\* modelled, it may do so at any moment.
CacheExpire(l) ==
  /\ notifUp /\ cache[l] # {}
  /\ cache' = [cache EXCEPT ![l] = {}]
  /\ UNCHANGED <<busVars, active, trafficQ, userQ, traffic, events, notifUp, dropped>>

NotificationCrash == "crash" \in NotificationFaults /\ NotificationDown

\* failOnError after a publish is log.Fatalf.
TrafficPublishFails ==
  /\ "bus" \in NotificationFaults
  /\ \/ Alerting("publish")
     \/ Alerting("users") /\ traffic.users # {} /\ traffic.kind = "SuddenServiceWorsening"
  /\ NotificationDown

\* Room for what an alert makes the services publish: bounds new and repeated alerts.
Room ==
  /\ Len(notifQ) < MaxRequests /\ Len(userQ) < MaxRequests
  /\ Len(routeQ) <= MaxEvents

\* Nothing restarts the container but its operator.
NotificationRestart ==
  /\ ~notifUp /\ notifUp' = TRUE /\ Room
  /\ UNCHANGED <<busVars, active, cache, trafficQ, userQ, traffic, events, dropped>>

NotificationStep ==
  \/ TrafficStep \/ EventStep
  \/ \E l \in Labels : CacheExpire(l)
  \/ TrafficPublishFails
  \/ NotificationCrash \/ NotificationRestart

-----------------------------------------------------------------------------
\* The services around it: alerts arrive, users are told, the planner publishes
\* events and takes requests.

AlertArrives(a) ==
  /\ Len(trafficQ) < MaxAlerts /\ Room
  /\ trafficQ' = Append(trafficQ, a)
  /\ UNCHANGED <<busVars, active, cache, userQ, traffic, events, notifUp, dropped>>

\* userHandler of the user service posts the warning to the gateway; it gives a
\* message back only when it cannot be decoded.
UserTold ==
  /\ userQ # <<>>
  /\ userQ' = Ack(userQ)
  /\ UNCHANGED <<busVars, active, cache, trafficQ, traffic, events, notifUp, dropped>>

EventSent(e) ==
  /\ routeQ' = Append(routeQ, e)
  /\ UNCHANGED <<notifQ, notificationVars>>

EventPublished(e) == Len(routeQ) < MaxEvents /\ EventSent(e)

RequestTaken ==
  /\ notifQ # <<>>
  /\ notifQ' \in {Ack(notifQ), Nack(notifQ)}
  /\ UNCHANGED <<routeQ, notificationVars>>

SurroundingStep ==
  \/ \E a \in Alerts : AlertArrives(a)
  \/ UserTold

\* What a planner might send. This one sends more: the code announces a journey before
\* it can be terminated, which OptimaLDN keeps.
NotificationEnv ==
  \/ \E u \in Users : \/ EventPublished(Terminated(u))
                      \/ \E r \in Routes : EventPublished(Created(u, r))
  \/ RequestTaken

Init == BusInit /\ NotificationInit
Next == NotificationStep \/ SurroundingStep \/ NotificationEnv
Spec == Init /\ [][Next]_vars

\* Notification beside a planner that the bounds of this module do not hold back.
OpenNext ==
  \/ NotificationStep \/ SurroundingStep \/ RequestTaken
  \/ \E u \in Users : EventSent(Terminated(u)) \/ \E r \in Routes : EventSent(Created(u, r))

\* Both consumers go on while the process runs. Nothing makes alerts or events
\* arrive, the cache expire or the process restart.
NotificationFairness == WF_vars(TrafficStep) /\ WF_vars(EventStep)

FairSpec == Spec /\ NotificationFairness

-----------------------------------------------------------------------------
NotificationTypeOK ==
  /\ active \in [Users -> Entries]
  /\ cache \in [Labels -> SUBSET Users]
  /\ trafficQ \in Seq([kind: AlertKinds, lines: Seq(Labels)])
  /\ userQ \in Seq(Users)
  /\ traffic \in [at: TrafficPoints, kind: AlertKinds, lines: Seq(Labels),
                  users: SUBSET Users, user: Users \cup {NoUser}]
  /\ events \in [at: EventPoints, user: Users \cup {NoUser}, keys: SUBSET Labels,
                 key: Labels \cup {NoLabel}, snap: SUBSET Users]
  /\ notifUp \in BOOLEAN
  /\ dropped \subseteq Users

\* Type correctness of the service and of the two queues.
TypeOK == BusTypeOK /\ NotificationTypeOK

\* Each consumer works on the head of its queue until it acknowledges it: a crash in
\* between makes the same message come again, and the event handler's purge is for
\* the user of that message.
HandlersOwnHeads ==
  /\ traffic.at # "idle" => trafficQ # <<>> /\ Head(trafficQ).kind = traffic.kind
  /\ events.at # "idle" => routeQ # <<>> /\ Head(routeQ).user = events.user

\* A termination that was published reaches the table, whatever alerts are handled
\* in the meantime, or the process dies.
TerminationLands ==
  \A u \in Users :
    (\E i \in DOMAIN routeQ : routeQ[i] = Terminated(u)) ~> active[u] = NoEntry \/ ~notifUp

\* The handler is about to scan the table for a line that u is registered on.
AboutToFind(u) ==
  /\ traffic.at = "lookup" /\ traffic.lines # <<>>
  /\ cache[Line] = {} /\ Line \in active[u]

\* A user whose line is looked up in the table is warned or his route recalculated,
\* unless a route event of his comes first or the process dies: the users of a line
\* are not lost between the scan, the cache, the deletes and the publishes.
AlertReaches ==
  \A u \in Users :
    AboutToFind(u) ~>
      \/ \E q \in {notifQ, userQ} : q # <<>> /\ q[Len(q)] = u
      \/ events.user = u
      \/ ~notifUp
=============================================================================
