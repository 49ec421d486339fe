----------------------------- MODULE OptimaLDN -----------------------------
(***************************************************************************)
(* RoutePlanner and Notification together, over their two queues: the loop *)
(* a journey goes through. The planner announces it, Notification watches  *)
(* its lines; a critical delay stops the watch and asks the planner for a  *)
(* new journey, which is announced in turn. Nothing but the messages keeps *)
(* ChosenRoutes and ActiveRoutes in step.                                  *)
(***************************************************************************)
EXTENDS RoutePlanner

CONSTANTS NotificationFaults, Alerts, MaxAlerts

VARIABLES
  active, cache, trafficQ, userQ, traffic, events, notifUp, dropped,
  strayed   \* history: users with an event given back behind a later one, none sent since

N == INSTANCE Notification

ASSUME SystemAssumption ==
  /\ NotificationFaults \subseteq FaultKinds
  /\ Alerts \subseteq [kind: N!AlertKinds, lines: Seq(Labels)]
  /\ MaxAlerts \in Nat

notificationVars == <<active, cache, trafficQ, userQ, traffic, events, notifUp, dropped>>
systemVars == <<vars, notificationVars, strayed>>

SystemInit == BusInit /\ PlannerInit /\ N!NotificationInit /\ strayed = {}

\* Where the events of u are in queue q.
Positions(q, u) == {i \in DOMAIN q : q[i].user = u}

\* An event that is published comes after all the others of its user.
Planner ==
  /\ PlannerStep /\ UNCHANGED notificationVars
  /\ strayed' = {u \in strayed : Positions(routeQ', u) = Positions(routeQ, u)}

\* An event that is given back comes after those of its user that followed it.
Overtaken == {u \in {Head(routeQ).user} : Positions(Tail(routeQ), u) # {}}

Notifier ==
  /\ N!NotificationStep /\ UNCHANGED plannerVars
  /\ strayed' = IF N!EventFails THEN strayed \cup Overtaken ELSE strayed

Surroundings == N!SurroundingStep /\ UNCHANGED plannerVars /\ UNCHANGED strayed

SystemNext == Planner \/ Notifier \/ Surroundings

SystemSpec == SystemInit /\ [][SystemNext]_systemVars

-----------------------------------------------------------------------------
\* The entry that Notification will hold for u once it has handled all of routeQ:
\* what the last event for u says, else what the table says.
Effect(e) == IF e.key = "created" THEN e.keys ELSE NoEntry

LastEffect(q, u) ==
  Effect(q[CHOOSE i \in Positions(q, u) : \A j \in Positions(q, u) : j <= i])

Forecast(u) == IF Positions(routeQ, u) = {} THEN active[u] ELSE LastEffect(routeQ, u)

\* A critical delay was found for u and his new journey is not announced yet.
BeingRerouted(u) == traffic.user = u \/ RequestPending(u)

\* Users with an update that was cut short or overlapped, and those in the middle of
\* AcceptSavedRouteRequest, which may be there to repair one.
Excused(u) ==
  \/ u \in torn \cup dropped
  \/ \E c \in Calls : CallOf(c, u) /\ rpc[c].at = "accept_publish"

\* Whatever the interleaving of the two consumers and of the users' calls, whatever
\* fails in the two services and whenever they die, the events in flight bring
\* ActiveRoutes to what the planner last announced, except that a user being rerouted,
\* or one with a failed update, may have no entry. Only an event given back behind a
\* later one of its user breaks this, for that user, until he is sent another.
WatchFollowsPlanner ==
  \A u \in Users \ strayed :
    \/ Forecast(u) = announced[u]
    \/ Forecast(u) = NoEntry /\ (BeingRerouted(u) \/ Excused(u))

\* At rest, a user's journey is watched under its own lines, and no journey means no
\* watch: ChosenRoutes and ActiveRoutes are two records of one fact, written by two
\* processes that exchange nothing but events.
TablesAgree ==
  \A u \in Users \ strayed :
    Settled(u) /\ Positions(routeQ, u) = {} /\ ~BeingRerouted(u) /\ ~Excused(u)
      => active[u] = EntryOf(chosen[u])

\* The two services and their queues keep the promise of JourneyWatch: an announcement
\* changes journey and watch as one, nothing else moves the watch to other lines, and
\* a rerouting ends with a new journey.
JW == INSTANCE JourneyWatch WITH
  plan <- announced,
  watch <- [u \in Users |-> Forecast(u)],
  rerouting <- {u \in Users : BeingRerouted(u)},
  excused <- {u \in Users : Excused(u)}

WatchImplemented == JW!Spec

\* "It saves it into DynamoDB [...], it then proceeds to inform the Notification
\* service": so that a user with a stored journey is watched, about to be watched, or
\* being rerouted.
NobodyUnwatched ==
  \A u \in Users :
    chosen[u] # NoRoute => Forecast(u) # NoEntry \/ BeingRerouted(u) \/ Calling(u)

\* "Info: No active route found for user %s to delete.": a termination that finds its
\* user unregistered is nothing but information, so that with no failed call and no
\* crash Notification stays up, also when a critical delay comes before the termination.
NotificationStaysUp == notifUp

-----------------------------------------------------------------------------
\* Each goroutine that can go on does so: see the fairness of the two services.
Fairness ==
  /\ WF_systemVars(Planner /\ RecalcStep)
  /\ \A c \in Calls : WF_systemVars(Planner /\ CallGoesOn(c))
  /\ WF_systemVars(Notifier /\ N!TrafficStep)
  /\ WF_systemVars(Notifier /\ N!EventStep)

FairSystemSpec == SystemSpec /\ Fairness

\* A user that a critical delay unregisters is told of a new journey in the end,
\* unless he has no journey any more, the planning of his fails for ever (his journey is
\* over, or TfL knows no other) or one of the two processes dies.
RerouteCompletes ==
  \A u \in Users :
    \/ traffic.user = u ~>
         \/ Recalculating(u) /\ recalc.at = "notify"
         \/ ~Recalculating(u) /\ chosen[u] = NoRoute
         \/ ~(plannerUp /\ notifUp)
    \/ []<><<Planner /\ PlanFailsFor(u)>>_systemVars
=============================================================================
