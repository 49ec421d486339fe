---------------------------- MODULE RoutePlanner ----------------------------
(***************************************************************************)
(* The RoutePlanner service: the RPC calls that create and terminate a     *)
(* journey, each in a goroutine of its own, and the single consumer that   *)
(* recalculates a journey for every request in notifQ. They share the      *)
(* DynamoDB table ChosenRoutes without any lock or conditional write, and  *)
(* publish their result as route events. A step here is the code between   *)
(* two calls to DynamoDB, RabbitMQ or the gateway.                         *)
(***************************************************************************)
EXTENDS RouteBus

CONSTANTS
  PlannerFaults,   \* what may fail in this service
  Calls            \* bound: the goroutines of net/rpc, one for each call in flight

ASSUME PlannerAssumption == PlannerFaults \subseteq FaultKinds

VARIABLES
  chosen,      \* ChosenRoutes: [Users -> Routes \cup {NoRoute}]
  rpc,         \* the calls in flight: where each is, its user and its route
  recalc,      \* notifHandler: where it is and its locals
  plannerUp,   \* the process runs
  announced,   \* history: the content of the last event published for a user
  torn         \* history: users with an update cut short, or overlapped by another

plannerVars == <<chosen, rpc, recalc, plannerUp, announced, torn>>
vars == <<busVars, plannerVars>>

CallPoints == {"idle", "serve_save", "accept_publish", "terminate_publish",
               "terminate_delete"}
RecalcPoints == {"idle", "plan", "delete", "save", "announce", "notify"}

\* No call. Locals that mean nothing at a point are NoRoute or NoUser.
Idle == [at |-> "idle", user |-> NoUser, route |-> NoRoute]

\* The recalculation in progress, if any, is for u.
Recalculating(u) == recalc.at # "idle" /\ recalc.user = u

\* c is a call of u in flight.
CallOf(c, u) == rpc[c].at # "idle" /\ rpc[c].user = u
Calling(u) == \E c \in Calls : CallOf(c, u)

RecalcIdle == [at |-> "idle", user |-> NoUser, route |-> NoRoute, best |-> NoRoute]

PlannerInit ==
  /\ chosen = [u \in Users |-> NoRoute]
  /\ rpc = [c \in Calls |-> Idle]
  /\ recalc = RecalcIdle
  /\ plannerUp = TRUE
  /\ announced = [u \in Users |-> NoEntry]
  /\ torn = {}

-----------------------------------------------------------------------------
\* RPC calls. net/rpc runs each in a goroutine of its own and nothing keeps two calls
\* of one user apart: he may use two terminals, interrupt the client and start it
\* again, or lose the gateway in the middle of a call, which goes on without it.

CanCall(c) == plannerUp /\ rpc[c].at = "idle" /\ Len(routeQ) < MaxEvents

CallAt(c, at) == plannerUp /\ rpc[c].at = at

\* Another call, or the recalculation, is changing the route of u.
Overlaps(c, u) == Recalculating(u) \/ \E d \in Calls \ {c} : CallOf(d, u)

\* A call starts a new update, which repairs an earlier torn one unless it overlaps
\* another update of the same user.
TornByStart(c, u) == IF Overlaps(c, u) THEN torn \cup {u} ELSE torn \ {u}

MoveTo(c, at, u, r) == rpc' = [rpc EXCEPT ![c] = [at |-> at, user |-> u, route |-> r]]
Return(c) == rpc' = [rpc EXCEPT ![c] = Idle]

PublishCreated(u, r) ==
  /\ routeQ' = Append(routeQ, Created(u, r))
  /\ announced' = [announced EXCEPT ![u] = Keys(r)]

\* The journeys TfL may answer with. findBestJourney takes the one of the lowest
\* score; crowding changes the scores at any time, so that any of them may win.
FetchRoutes == Planned

\* ServeRequest up to its publish: station lookup, best journey, notifyNewRoute.
\* An error before the publish, or of the publish itself, changes nothing.
ServeRequest(c, u, j) ==
  /\ CanCall(c)
  /\ PublishCreated(u, j)
  /\ torn' = TornByStart(c, u)
  /\ MoveTo(c, "serve_save", u, j)
  /\ UNCHANGED <<notifQ, chosen, recalc, plannerUp>>

\* The journey is saved after it was announced.
ServeSave(c) ==
  /\ CallAt(c, "serve_save")
  /\ chosen' = [chosen EXCEPT ![rpc[c].user] = rpc[c].route]
  /\ Return(c)
  /\ UNCHANGED <<busVars, recalc, plannerUp, announced, torn>>

\* A write that returns an error (a 5 s context ends it) may have been applied.
MaybeWritten(u, r) == chosen' \in {chosen, [chosen EXCEPT ![u] = r]}

\* A failed save is logged and the call still succeeds.
ServeSaveFails(c) ==
  /\ CallAt(c, "serve_save") /\ "db" \in PlannerFaults
  /\ MaybeWritten(rpc[c].user, rpc[c].route)
  /\ torn' = torn \cup {rpc[c].user}
  /\ Return(c)
  /\ UNCHANGED <<busVars, recalc, plannerUp, announced>>

\* AcceptSavedRouteRequest saves first, then announces the line names.
AcceptSavedRouteRequest(c, u, f) ==
  /\ CanCall(c) /\ f \notin ShortFavourites
  /\ chosen' = [chosen EXCEPT ![u] = f]
  /\ torn' = TornByStart(c, u)
  /\ MoveTo(c, "accept_publish", u, f)
  /\ UNCHANGED <<busVars, recalc, plannerUp, announced>>

\* A failed save is logged and the route is announced all the same.
AcceptSaveFails(c, u, f) ==
  /\ CanCall(c) /\ f \notin ShortFavourites /\ "db" \in PlannerFaults
  /\ MaybeWritten(u, f)
  /\ torn' = torn \cup {u}
  /\ MoveTo(c, "accept_publish", u, f)
  /\ UNCHANGED <<busVars, recalc, plannerUp, announced>>

AcceptPublish(c) ==
  /\ CallAt(c, "accept_publish")
  /\ PublishCreated(rpc[c].user, rpc[c].route)
  /\ Return(c)
  /\ UNCHANGED <<notifQ, chosen, recalc, plannerUp, torn>>

AcceptPublishFails(c) ==
  /\ CallAt(c, "accept_publish") /\ "bus" \in PlannerFaults
  /\ torn' = torn \cup {rpc[c].user}
  /\ Return(c)
  /\ UNCHANGED <<busVars, chosen, recalc, plannerUp, announced>>

\* TerminateRoute reads the route first: without one it returns an error.
TerminateRoute(c, u) ==
  /\ CanCall(c) /\ chosen[u] # NoRoute
  /\ torn' = IF Overlaps(c, u) THEN torn \cup {u} ELSE torn
  /\ MoveTo(c, "terminate_publish", u, NoRoute)
  /\ UNCHANGED <<busVars, chosen, recalc, plannerUp, announced>>

\* Variant: the entry is deleted and Notification never hears of it.
TerminateSilently(c) ==
  /\ CallAt(c, "terminate_publish")
  /\ torn' = TornByStart(c, rpc[c].user)
  /\ MoveTo(c, "terminate_delete", rpc[c].user, NoRoute)
  /\ UNCHANGED <<busVars, chosen, recalc, plannerUp, announced>>

TerminatePublish(c) ==
  /\ CallAt(c, "terminate_publish")
  /\ routeQ' = Append(routeQ, Terminated(rpc[c].user))
  /\ announced' = [announced EXCEPT ![rpc[c].user] = NoEntry]
  /\ torn' = TornByStart(c, rpc[c].user)
  /\ MoveTo(c, "terminate_delete", rpc[c].user, NoRoute)
  /\ UNCHANGED <<notifQ, chosen, recalc, plannerUp>>

TerminatePublishFails(c) ==
  /\ CallAt(c, "terminate_publish") /\ "bus" \in PlannerFaults
  /\ Return(c)
  /\ UNCHANGED <<busVars, chosen, recalc, plannerUp, announced, torn>>

TerminateDelete(c) ==
  /\ CallAt(c, "terminate_delete")
  /\ chosen' = [chosen EXCEPT ![rpc[c].user] = NoRoute]
  /\ Return(c)
  /\ UNCHANGED <<busVars, recalc, plannerUp, announced, torn>>

\* The termination was announced, the caller gets an error.
TerminateDeleteFails(c) ==
  /\ CallAt(c, "terminate_delete") /\ "db" \in PlannerFaults
  /\ MaybeWritten(rpc[c].user, NoRoute)
  /\ torn' = torn \cup {rpc[c].user}
  /\ Return(c)
  /\ UNCHANGED <<busVars, recalc, plannerUp, announced>>

CallStarts(c, u) ==
  \/ \E j \in FetchRoutes : ServeRequest(c, u, j)
  \/ \E f \in Favourites : AcceptSavedRouteRequest(c, u, f) \/ AcceptSaveFails(c, u, f)
  \/ TerminateRoute(c, u)

CallGoesOn(c) ==
  \/ ServeSave(c) \/ ServeSaveFails(c)
  \/ AcceptPublish(c) \/ AcceptPublishFails(c)
  \/ TerminatePublish(c) \/ TerminatePublishFails(c)
  \/ TerminateDelete(c) \/ TerminateDeleteFails(c)

-----------------------------------------------------------------------------
\* notifHandler. It works on the head of notifQ, which stays there until the
\* handler returns: TRUE acknowledges it, FALSE gives it back for a new attempt.

Handling(at) == plannerUp /\ recalc.at = at

Finish(q) == notifQ' = q /\ recalc' = RecalcIdle

Tear(users) == torn' = torn \cup users

\* A call of the user that is half done tears what the handler reads.
TornByRead(u) == Tear({v \in {u} : Calling(v)})

\* Variant: the request is acknowledged when it is delivered.
RecalcReadAutoAck ==
  /\ Handling("idle") /\ notifQ # <<>>
  /\ LET u == Head(notifQ) IN
       /\ chosen[u] # NoRoute
       /\ recalc' = [at |-> "plan", user |-> u, route |-> chosen[u], best |-> NoRoute]
       /\ TornByRead(u)
  /\ notifQ' = Ack(notifQ)
  /\ UNCHANGED <<routeQ, chosen, rpc, plannerUp, announced>>

RecalcRead ==
  /\ Handling("idle") /\ notifQ # <<>>
  /\ LET u == Head(notifQ) IN
       /\ chosen[u] # NoRoute
       /\ recalc' = [at |-> "plan", user |-> u, route |-> chosen[u], best |-> NoRoute]
       /\ TornByRead(u)
  /\ UNCHANGED <<busVars, chosen, rpc, plannerUp, announced>>

\* "no active route found": the request is acknowledged and forgotten.
RecalcSkip ==
  /\ Handling("idle") /\ notifQ # <<>>
  /\ chosen[Head(notifQ)] = NoRoute
  /\ TornByRead(Head(notifQ))
  /\ notifQ' = Ack(notifQ)
  /\ UNCHANGED <<routeQ, chosen, rpc, recalc, plannerUp, announced>>

RecalcReadFails ==
  /\ Handling("idle") /\ notifQ # <<>> /\ "db" \in PlannerFaults
  /\ notifQ' = Nack(notifQ)
  /\ UNCHANGED <<routeQ, plannerVars>>

\* Variant: without a current stop the old route is kept as the best one.
RecalcPlanKeepsRoute(j) ==
  /\ Handling("plan")
  /\ recalc' = [recalc EXCEPT !.at = "delete",
                             !.best = IF recalc.route \in Planned THEN j ELSE recalc.route]
  /\ UNCHANGED <<busVars, chosen, rpc, plannerUp, announced, torn>>

\* Current stop, then the best journey from it. A favourite carries no leg times:
\* its current stop can never be estimated.
RecalcPlan(j) ==
  /\ Handling("plan") /\ recalc.route \in Planned
  /\ recalc' = [recalc EXCEPT !.at = "delete", !.best = j]
  /\ UNCHANGED <<busVars, chosen, rpc, plannerUp, announced, torn>>

\* It needs no fault: the clock, read once in UTC and once in the zone of Rome, may be
\* past the last leg or between two, and TfL may know no journey or not answer. The
\* request is given back however often that happens.
RecalcPlanFails ==
  /\ Handling("plan")
  /\ Finish(Nack(notifQ))
  /\ UNCHANGED <<routeQ, chosen, rpc, plannerUp, announced, torn>>

RecalcDelete ==
  /\ Handling("delete")
  /\ chosen' = [chosen EXCEPT ![recalc.user] = NoRoute]
  /\ recalc' = [recalc EXCEPT !.at = "save"]
  /\ UNCHANGED <<busVars, rpc, plannerUp, announced, torn>>

RecalcDeleteFails ==
  /\ Handling("delete") /\ "db" \in PlannerFaults
  /\ MaybeWritten(recalc.user, NoRoute)
  /\ Tear({recalc.user})
  /\ Finish(Nack(notifQ))
  /\ UNCHANGED <<routeQ, rpc, plannerUp, announced>>

\* Saving and announcing the new journey repairs an earlier torn update, unless
\* a call of the user is in progress.
RecalcSave ==
  /\ Handling("save")
  /\ chosen' = [chosen EXCEPT ![recalc.user] = recalc.best]
  /\ recalc' = [recalc EXCEPT !.at = "announce"]
  /\ torn' = torn \ {u \in {recalc.user} : ~Calling(u)}
  /\ UNCHANGED <<busVars, rpc, plannerUp, announced>>

\* The old journey is gone already; the retry will find no active route.
RecalcSaveFails ==
  /\ Handling("save") /\ "db" \in PlannerFaults
  /\ MaybeWritten(recalc.user, recalc.best)
  /\ Tear({recalc.user})
  /\ Finish(Nack(notifQ))
  /\ UNCHANGED <<routeQ, rpc, plannerUp, announced>>

\* Variant: the old route is announced again.
RecalcAnnounceOld ==
  /\ Handling("announce")
  /\ PublishCreated(recalc.user, recalc.route)
  /\ recalc' = [recalc EXCEPT !.at = "notify"]
  /\ UNCHANGED <<notifQ, chosen, rpc, plannerUp, torn>>

\* Variant: the handler is done once it has announced, and tells nobody.
RecalcAnnounceOnly ==
  /\ Handling("announce")
  /\ PublishCreated(recalc.user, recalc.best)
  /\ Finish(Ack(notifQ))
  /\ UNCHANGED <<chosen, rpc, plannerUp, torn>>

RecalcAnnounce ==
  /\ Handling("announce")
  /\ PublishCreated(recalc.user, recalc.best)
  /\ recalc' = [recalc EXCEPT !.at = "notify"]
  /\ UNCHANGED <<notifQ, chosen, rpc, plannerUp, torn>>

RecalcAnnounceFails ==
  /\ Handling("announce") /\ "bus" \in PlannerFaults
  /\ Tear({recalc.user})
  /\ Finish(Nack(notifQ))
  /\ UNCHANGED <<routeQ, chosen, rpc, plannerUp, announced>>

\* NotifyUser posts to the gateway; its failure is only logged.
RecalcNotify ==
  /\ Handling("notify")
  /\ Finish(Ack(notifQ))
  /\ UNCHANGED <<routeQ, chosen, rpc, plannerUp, announced, torn>>

RecalcStep ==
  \/ RecalcRead \/ RecalcSkip \/ RecalcReadFails
  \/ (\E j \in FetchRoutes : RecalcPlan(j)) \/ RecalcPlanFails
  \/ RecalcDelete \/ RecalcDeleteFails
  \/ RecalcSave \/ RecalcSaveFails
  \/ RecalcAnnounce \/ RecalcAnnounceFails
  \/ RecalcNotify

-----------------------------------------------------------------------------
\* The process stops: calls in flight end with an error, the message being
\* handled was not acknowledged and stays at the head of its queue.

\* Users with an update of which one part is done and the other is not.
HalfDone ==
  {u \in Users : \E c \in Calls :
     CallOf(c, u) /\ rpc[c].at \in {"serve_save", "accept_publish", "terminate_delete"}}
  \cup {u \in Users : Recalculating(u) /\ recalc.at \in {"save", "announce"}}

CutCalls == rpc' = [c \in Calls |-> Idle]

PlannerDown ==
  /\ plannerUp /\ plannerUp' = FALSE
  /\ recalc' = RecalcIdle /\ CutCalls
  /\ Tear(HalfDone)
  /\ UNCHANGED <<busVars, chosen, announced>>

PlannerCrash == "crash" \in PlannerFaults /\ PlannerDown

\* ConvertUserSavedToChosenRoute indexes StopsNames with the index of a line
\* name; net/rpc does not recover the panic, which ends the process.
AcceptPanics(c, f) ==
  /\ CanCall(c) /\ f \in ShortFavourites
  /\ PlannerDown

\* Nothing restarts the container but its operator.
PlannerRestart ==
  /\ ~plannerUp /\ Len(routeQ) < MaxEvents
  /\ plannerUp' = TRUE
  /\ UNCHANGED <<busVars, chosen, rpc, recalc, announced, torn>>

PlannerStep ==
  \/ \E c \in Calls, u \in Users : CallStarts(c, u)
  \/ \E c \in Calls : CallGoesOn(c)
  \/ RecalcStep
  \/ PlannerCrash
  \/ \E c \in Calls, f \in Favourites : AcceptPanics(c, f)
  \/ PlannerRestart

-----------------------------------------------------------------------------
\* The other end of the queues, as the planner sees it: Notification asks for
\* recalculations and acknowledges or gives back events.

Requested(u) ==
  /\ notifQ' = Append(notifQ, u)
  /\ UNCHANGED <<routeQ, plannerVars>>

RequestArrives(u) ==
  /\ Len(notifQ) < MaxRequests /\ Len(routeQ) < MaxEvents
  /\ Requested(u)

EventConsumed ==
  /\ routeQ # <<>>
  /\ routeQ' \in {Ack(routeQ), Nack(routeQ)}
  /\ UNCHANGED <<notifQ, plannerVars>>

PlannerEnv == (\E u \in Users : RequestArrives(u)) \/ EventConsumed

Init == BusInit /\ PlannerInit
Next == PlannerStep \/ PlannerEnv
Spec == Init /\ [][Next]_vars

\* The planner among services that the bounds of this module do not hold back.
OpenNext == PlannerStep \/ (\E u \in Users : Requested(u)) \/ EventConsumed

\* Goroutines that can go on do go on: every call in flight, and the consumer.
\* Nothing makes a user call or a request arrive.
PlannerFairness ==
  /\ WF_vars(RecalcStep)
  /\ \A c \in Calls : WF_vars(CallGoesOn(c))

FairSpec == Spec /\ PlannerFairness

-----------------------------------------------------------------------------
PlannerTypeOK ==
  /\ chosen \in [Users -> Routes \cup {NoRoute}]
  /\ rpc \in [Calls -> [at: CallPoints, user: Users \cup {NoUser},
                       route: Routes \cup {NoRoute}]]
  /\ recalc \in [at: RecalcPoints, user: Users \cup {NoUser},
                 route: Routes \cup {NoRoute}, best: Planned \cup {NoRoute}]
  /\ plannerUp \in BOOLEAN
  /\ announced \in [Users -> Entries]
  /\ torn \subseteq Users

\* Type correctness of the planner and of the two queues.
TypeOK == BusTypeOK /\ PlannerTypeOK

\* No call and no recalculation of u is under way.
Settled(u) == ~Calling(u) /\ ~Recalculating(u)

\* ServeRequest publishes then saves, AcceptSavedRouteRequest saves then publishes,
\* TerminateRoute publishes then deletes, notifHandler deletes, saves and publishes,
\* all without a transaction: whenever nothing is under way for a user, the route
\* stored for him is the one last announced to Notification, unless an update of his
\* was cut short or overlapped and no later one repaired it.
TableMatchesAnnouncement ==
  \A u \in Users \ torn : Settled(u) => announced[u] = EntryOf(chosen[u])

\* The request being handled is still the head of the queue, so that the ack or
\* nack at the end, also after a crash, is about that request and no other.
RecalcOwnsHead ==
  recalc.at # "idle" => notifQ # <<>> /\ Head(notifQ) = recalc.user

RequestPending(u) == \E i \in DOMAIN notifQ : notifQ[i] = u

\* The request of u is given back for want of a stop or of a journey.
PlanFailsFor(u) == RecalcPlanFails /\ recalc.user = u

\* A request for a recalculation ends with the user notified of a new route, whatever
\* other requests are nacked for ever in the same queue, unless he has no route when it
\* is read, his own planning fails for ever, as it does for a favourite and for a
\* journey whose time is over, or the planner dies.
RequestAnswered ==
  \A u \in Users :
    \/ RequestPending(u) ~>
         \/ Recalculating(u) /\ recalc.at = "notify"
         \/ ~Recalculating(u) /\ chosen[u] = NoRoute
         \/ ~plannerUp
    \/ []<><<PlanFailsFor(u)>>_vars
=============================================================================
