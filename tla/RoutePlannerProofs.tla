------------------------- MODULE RoutePlannerProofs -------------------------
(***************************************************************************)
(* What holds of RoutePlanner for every set of users, routes and labels,   *)
(* for every choice of faults and every bound: types, ownership of the     *)
(* request being handled, and agreement of the table with the last event.  *)
(***************************************************************************)
EXTENDS RoutePlanner, SequenceTheorems, TLAPS

-----------------------------------------------------------------------------
\* What the locals of a call or a recalculation hold at the points that use them:
\* a call saves or publishes a real route, the recalculation a planned journey.
LocalsOK ==
  /\ \A c \in Calls :
       /\ rpc[c].at # "idle" => rpc[c].user \in Users
       /\ rpc[c].at = "serve_save" => rpc[c].route \in Planned
       /\ rpc[c].at = "accept_publish" => rpc[c].route \in Favourites
  /\ recalc.at \in {"delete", "save", "announce"} => recalc.best \in Planned

\* Two calls of a user, or a call and a recalculation for the same user, overlap only
\* when torn says so.
OverlapsAreTorn ==
  \A u \in Users \ torn, c \in Calls : CallOf(c, u) => ~Overlaps(c, u)

\* Where the update of a user is at, and what each half of it has written so far.
\* Between the first write of an update and its second, one of the table and the
\* announcement already has the new value.
Matching(u) == announced[u] = EntryOf(chosen[u])

CallInStep(c, u) ==
  /\ rpc[c].at = "serve_save" => announced[u] = Keys(rpc[c].route)
  /\ rpc[c].at = "accept_publish" => chosen[u] = rpc[c].route
  /\ rpc[c].at = "terminate_delete" => announced[u] = NoEntry
  /\ rpc[c].at = "terminate_publish" => Matching(u)

ProgressOf(u) ==
  /\ \A c \in Calls : CallOf(c, u) => CallInStep(c, u)
  /\ Recalculating(u) /\ recalc.at = "announce" => chosen[u] = recalc.best
  /\ Recalculating(u) /\ recalc.at \in {"plan", "delete", "notify"} => Matching(u)
  /\ Settled(u) => Matching(u)

UpdatesInStep == \A u \in Users \ torn : ProgressOf(u)

\* The inductive invariant.
PlannerInv == TypeOK /\ LocalsOK /\ RecalcOwnsHead /\ OverlapsAreTorn /\ UpdatesInStep

-----------------------------------------------------------------------------
\* What Ack, Nack and Append do to a queue: Ack and Nack take the head away, and
\* all three keep the messages' type.
LEMMA AckOfQueue ==
  ASSUME NEW S, NEW q \in Seq(S), q # <<>>
  PROVE  Ack(q) \in Seq(S) /\ Head(q) \in S
  BY DEF Ack

LEMMA NackOfQueue ==
  ASSUME NEW S, NEW q \in Seq(S), q # <<>>
  PROVE  Nack(q) \in Seq(S)
  BY DEF Nack

\* A message put at the end of a queue leaves its head alone.
LEMMA AppendToQueue ==
  ASSUME NEW S, NEW q \in Seq(S), NEW m \in S
  PROVE  /\ Append(q, m) \in Seq(S)
         /\ q # <<>> => Append(q, m) # <<>> /\ Head(Append(q, m)) = Head(q)
  OBVIOUS

\* A route announced makes a well-formed event and a well-formed entry; a stored
\* route has the entry it would be announced with.
LEMMA RouteEntry ==
  ASSUME NEW u \in Users, NEW r \in Routes
  PROVE  /\ Keys(r) \in SUBSET Labels
         /\ Keys(r) \in Entries
         /\ Created(u, r) \in Events
         /\ Terminated(u) \in Events
         /\ EntryOf(r) = Keys(r)
  BY BusAssumption DEF Keys, Entries, Created, Terminated, Events, EntryOf, Routes

-----------------------------------------------------------------------------
\* The request being handled is a well-formed user, and both ways to finish it leave
\* a well-formed queue.
LEMMA RequestHandled ==
  ASSUME TypeOK, RecalcOwnsHead, recalc.at # "idle"
  PROVE  /\ recalc.user \in Users
         /\ Ack(notifQ) \in Seq(Users)
         /\ Nack(notifQ) \in Seq(Users)
  <1>1. notifQ \in Seq(Users) /\ notifQ # <<>> /\ Head(notifQ) = recalc.user
    BY DEF TypeOK, BusTypeOK, RecalcOwnsHead
  <1>. QED
    BY <1>1, AckOfQueue, NackOfQueue

LEMMA NoEntryIsEntry == NoEntry \in Entries
  BY DEF Entries

-----------------------------------------------------------------------------
\* Types: every step of a call, of the recalculation and of the surroundings keeps
\* the table, the locals and the queues well formed.
LEMMA TypePreserved ==
  ASSUME TypeOK, LocalsOK, RecalcOwnsHead, [OpenNext]_vars
  PROVE  TypeOK'
  <1>. USE DEF TypeOK, BusTypeOK, PlannerTypeOK
  <1>1. ASSUME NEW c \in Calls, NEW u \in Users, NEW j \in Planned,
               ServeRequest(c, u, j) PROVE TypeOK'
    BY <1>1, AppendToQueue, RouteEntry
    DEF ServeRequest, CanCall, MoveTo, TornByStart, CallPoints, PublishCreated, Routes
  <1>2. ASSUME NEW c \in Calls, ServeSave(c) PROVE TypeOK'
    BY <1>2 DEF ServeSave, Return, CallAt, Idle, CallPoints, busVars, LocalsOK, Routes
  <1>3. ASSUME NEW c \in Calls, ServeSaveFails(c) PROVE TypeOK'
    BY <1>3
    DEF ServeSaveFails, MaybeWritten, Return, CallAt, Idle, CallPoints, busVars, LocalsOK,
        Routes
  <1>4. ASSUME NEW c \in Calls, NEW u \in Users, NEW f \in Favourites,
               AcceptSavedRouteRequest(c, u, f)
        PROVE  TypeOK'
    BY <1>4
    DEF AcceptSavedRouteRequest, CanCall, MoveTo, TornByStart, CallPoints, busVars,
        Routes
  <1>5. ASSUME NEW c \in Calls, NEW u \in Users, NEW f \in Favourites,
               AcceptSaveFails(c, u, f)
        PROVE  TypeOK'
    BY <1>5
    DEF AcceptSaveFails, CanCall, MaybeWritten, MoveTo, CallPoints, busVars, Routes
  <1>6. ASSUME NEW c \in Calls, AcceptPublish(c) PROVE TypeOK'
    BY <1>6, AppendToQueue, RouteEntry
    DEF AcceptPublish, PublishCreated, Return, CallAt, Idle, CallPoints, LocalsOK, Routes
  <1>7. ASSUME NEW c \in Calls, AcceptPublishFails(c) PROVE TypeOK'
    BY <1>7 DEF AcceptPublishFails, Return, CallAt, Idle, CallPoints, busVars, LocalsOK
  <1>8. ASSUME NEW c \in Calls, NEW u \in Users, TerminateRoute(c, u) PROVE TypeOK'
    BY <1>8 DEF TerminateRoute, CanCall, MoveTo, CallPoints, busVars
  <1>9. ASSUME NEW c \in Calls, TerminatePublish(c) PROVE TypeOK'
    <2>1. rpc[c].user \in Users
      BY <1>9 DEF TerminatePublish, CallAt, LocalsOK
    <2>2. Terminated(rpc[c].user) \in Events
      BY <2>1 DEF Terminated, Events
    <2>3. BusTypeOK'
      BY <1>9, <2>2, AppendToQueue DEF TerminatePublish
    <2>4. rpc' \in [Calls -> [at: CallPoints, user: Users \cup {NoUser},
                           route: Routes \cup {NoRoute}]]
      BY <1>9, <2>1 DEF TerminatePublish, MoveTo, CallPoints
    <2>. QED
      BY <1>9, <2>1, <2>3, <2>4, NoEntryIsEntry DEF TerminatePublish, TornByStart
  <1>10. ASSUME NEW c \in Calls, TerminatePublishFails(c) PROVE TypeOK'
    BY <1>10 DEF TerminatePublishFails, Return, CallAt, Idle, CallPoints, busVars
  <1>11. ASSUME NEW c \in Calls, TerminateDelete(c) PROVE TypeOK'
    BY <1>11 DEF TerminateDelete, Return, CallAt, Idle, CallPoints, busVars
  <1>12. ASSUME NEW c \in Calls, TerminateDeleteFails(c) PROVE TypeOK'
    BY <1>12
    DEF TerminateDeleteFails, MaybeWritten, Return, CallAt, Idle, CallPoints, busVars,
        LocalsOK
  <1>13. CASE RecalcRead
    BY <1>13 DEF RecalcRead, Handling, TornByRead, Tear, RecalcPoints, busVars
  <1>14. CASE RecalcSkip
    BY <1>14, AckOfQueue DEF RecalcSkip, TornByRead, Tear
  <1>15. CASE RecalcReadFails
    BY <1>15, NackOfQueue DEF RecalcReadFails, plannerVars
  <1>16. ASSUME NEW j \in Planned, RecalcPlan(j) PROVE TypeOK'
    BY <1>16 DEF RecalcPlan, RecalcPoints, busVars
  <1>17. CASE RecalcPlanFails
    BY <1>17, RequestHandled
    DEF RecalcPlanFails, Handling, Finish, RecalcIdle, RecalcPoints
  <1>18. CASE RecalcDelete
    BY <1>18, RequestHandled DEF RecalcDelete, Handling, RecalcPoints, busVars
  <1>19. CASE RecalcDeleteFails
    BY <1>19, RequestHandled
    DEF RecalcDeleteFails, Handling, Finish, RecalcIdle, RecalcPoints, MaybeWritten,
        Tear
  <1>20. CASE RecalcSave
    BY <1>20, RequestHandled
    DEF RecalcSave, Handling, RecalcPoints, busVars, LocalsOK, Routes
  <1>21. CASE RecalcSaveFails
    BY <1>21, RequestHandled
    DEF RecalcSaveFails, Handling, Finish, RecalcIdle, RecalcPoints, MaybeWritten,
        Tear, LocalsOK, Routes
  <1>22. CASE RecalcAnnounce
    <2>1. recalc.user \in Users /\ recalc.best \in Routes
      BY <1>22, RequestHandled DEF RecalcAnnounce, Handling, LocalsOK, Routes
    <2>2. routeQ' \in Seq(Events) /\ announced' \in [Users -> Entries]
      BY <1>22, <2>1, AppendToQueue, RouteEntry DEF RecalcAnnounce, PublishCreated
    <2>. QED
      BY <1>22, <2>2 DEF RecalcAnnounce, RecalcPoints
  <1>23. CASE RecalcAnnounceFails
    BY <1>23, RequestHandled
    DEF RecalcAnnounceFails, Handling, Finish, RecalcIdle, RecalcPoints, Tear
  <1>24. CASE RecalcNotify
    BY <1>24, RequestHandled
    DEF RecalcNotify, Handling, Finish, RecalcIdle, RecalcPoints
  <1>25. CASE PlannerCrash
    BY <1>25
    DEF PlannerCrash, PlannerDown, Tear, HalfDone, CutCalls, Idle, RecalcIdle,
        RecalcPoints, CallPoints, busVars
  <1>26. ASSUME NEW c \in Calls, NEW f \in Favourites, AcceptPanics(c, f) PROVE TypeOK'
    BY <1>26
    DEF AcceptPanics, PlannerDown, Tear, HalfDone, CutCalls, Idle, RecalcIdle,
        RecalcPoints, CallPoints, busVars
  <1>27. CASE PlannerRestart
    BY <1>27 DEF PlannerRestart, busVars
  <1>28. ASSUME NEW u \in Users, Requested(u) PROVE TypeOK'
    BY <1>28, AppendToQueue DEF Requested, plannerVars
  <1>29. CASE EventConsumed
    BY <1>29, AckOfQueue, NackOfQueue DEF EventConsumed, plannerVars
  <1>30. CASE UNCHANGED vars
    BY <1>30 DEF vars, plannerVars, busVars
  <1>. QED
    BY <1>1, <1>2, <1>3, <1>4, <1>5, <1>6, <1>7, <1>8, <1>9, <1>10, <1>11, <1>12,
       <1>13, <1>14, <1>15, <1>16, <1>17, <1>18, <1>19, <1>20, <1>21, <1>22, <1>23,
       <1>24, <1>25, <1>26, <1>27, <1>28, <1>29, <1>30
    DEF OpenNext, PlannerStep, CallStarts, CallGoesOn, RecalcStep, FetchRoutes

\* Only the handler takes from the queue, the others append to it.
LEMMA HeadPreserved ==
  ASSUME TypeOK, RecalcOwnsHead, [OpenNext]_vars
  PROVE  RecalcOwnsHead'
  <1>. USE DEF RecalcOwnsHead
  <1>1. ASSUME NEW c \in Calls, (\E u \in Users : CallStarts(c, u)) \/ CallGoesOn(c)
        PROVE  RecalcOwnsHead'
    <2>1. notifQ' = notifQ /\ recalc' = recalc
      BY <1>1 DEF CallStarts, CallGoesOn, ServeRequest, ServeSave, ServeSaveFails,
         AcceptSavedRouteRequest, AcceptSaveFails, AcceptPublish, AcceptPublishFails,
         TerminateRoute, TerminatePublish, TerminatePublishFails, TerminateDelete,
         TerminateDeleteFails, busVars
    <2>. QED
      BY <2>1
  <1>2. CASE RecalcRead
    BY <1>2 DEF RecalcRead, Handling, busVars
  <1>3. CASE RecalcSkip \/ RecalcReadFails
    BY <1>3 DEF RecalcSkip, RecalcReadFails, Handling, plannerVars
  <1>4. ASSUME NEW j \in Planned, RecalcPlan(j) PROVE RecalcOwnsHead'
    BY <1>4 DEF RecalcPlan, Handling, busVars
  <1>5. CASE RecalcDelete \/ RecalcSave \/ RecalcAnnounce
    <2>1. notifQ' = notifQ /\ recalc.at # "idle" /\ recalc'.user = recalc.user
      BY <1>5 DEF RecalcDelete, RecalcSave, RecalcAnnounce, Handling, busVars,
         TypeOK, PlannerTypeOK
    <2>. QED
      BY <2>1
  <1>6. CASE \/ RecalcPlanFails \/ RecalcDeleteFails \/ RecalcSaveFails
             \/ RecalcAnnounceFails \/ RecalcNotify
    BY <1>6 DEF RecalcPlanFails, RecalcDeleteFails, RecalcSaveFails,
       RecalcAnnounceFails, RecalcNotify, Finish, RecalcIdle
  <1>7. CASE PlannerCrash \/ \E c \in Calls, f \in Favourites : AcceptPanics(c, f)
    BY <1>7 DEF PlannerCrash, AcceptPanics, PlannerDown, RecalcIdle
  <1>8. CASE PlannerRestart
    BY <1>8 DEF PlannerRestart, busVars
  <1>9. ASSUME NEW u \in Users, Requested(u) PROVE RecalcOwnsHead'
    BY <1>9, AppendToQueue DEF Requested, plannerVars, TypeOK, BusTypeOK
  <1>10. CASE EventConsumed \/ UNCHANGED vars
    BY <1>10 DEF EventConsumed, vars, plannerVars, busVars
  <1>. QED
    BY <1>1, <1>2, <1>3, <1>4, <1>5, <1>6, <1>7, <1>8, <1>9, <1>10
    DEF OpenNext, PlannerStep, RecalcStep, FetchRoutes

\* A call that is about to save or publish took its route from its arguments, a
\* recalculation its best journey from TfL.
LEMMA LocalsPreserved ==
  ASSUME TypeOK, LocalsOK, [OpenNext]_vars
  PROVE  LocalsOK'
  <1>. USE DEF LocalsOK, TypeOK, PlannerTypeOK
  <1>1. ASSUME NEW c \in Calls, NEW u \in Users, NEW j \in Planned,
               ServeRequest(c, u, j) PROVE LocalsOK'
    BY <1>1 DEF ServeRequest, MoveTo
  <1>2. ASSUME NEW c \in Calls, ServeSave(c) PROVE LocalsOK'
    BY <1>2 DEF ServeSave, Return, CallAt, Idle
  <1>3. ASSUME NEW c \in Calls, ServeSaveFails(c) PROVE LocalsOK'
    BY <1>3 DEF ServeSaveFails, Return, CallAt, Idle
  <1>4. ASSUME NEW c \in Calls, NEW u \in Users, NEW f \in Favourites,
               AcceptSavedRouteRequest(c, u, f)
        PROVE  LocalsOK'
    BY <1>4 DEF AcceptSavedRouteRequest, MoveTo
  <1>5. ASSUME NEW c \in Calls, NEW u \in Users, NEW f \in Favourites,
               AcceptSaveFails(c, u, f)
        PROVE  LocalsOK'
    BY <1>5 DEF AcceptSaveFails, MoveTo
  <1>6. ASSUME NEW c \in Calls, AcceptPublish(c) PROVE LocalsOK'
    BY <1>6 DEF AcceptPublish, Return, CallAt, Idle
  <1>7. ASSUME NEW c \in Calls, AcceptPublishFails(c) PROVE LocalsOK'
    BY <1>7 DEF AcceptPublishFails, Return, CallAt, Idle
  <1>8. ASSUME NEW c \in Calls, NEW u \in Users, TerminateRoute(c, u) PROVE LocalsOK'
    BY <1>8 DEF TerminateRoute, MoveTo
  <1>9. ASSUME NEW c \in Calls, TerminatePublish(c) PROVE LocalsOK'
    BY <1>9 DEF TerminatePublish, MoveTo, CallAt
  <1>10. ASSUME NEW c \in Calls, TerminatePublishFails(c) PROVE LocalsOK'
    BY <1>10 DEF TerminatePublishFails, Return, CallAt, Idle
  <1>11. ASSUME NEW c \in Calls, TerminateDelete(c) PROVE LocalsOK'
    BY <1>11 DEF TerminateDelete, Return, CallAt, Idle
  <1>12. ASSUME NEW c \in Calls, TerminateDeleteFails(c) PROVE LocalsOK'
    BY <1>12 DEF TerminateDeleteFails, Return, CallAt, Idle
  <1>13. CASE RecalcRead
    BY <1>13 DEF RecalcRead, Handling
  <1>14. CASE RecalcSkip
    BY <1>14 DEF RecalcSkip, Handling
  <1>15. CASE RecalcReadFails
    BY <1>15 DEF RecalcReadFails, plannerVars
  <1>16. ASSUME NEW j \in Planned, RecalcPlan(j) PROVE LocalsOK'
    BY <1>16 DEF RecalcPlan, Handling
  <1>17. CASE RecalcPlanFails
    BY <1>17 DEF RecalcPlanFails, Finish, RecalcIdle, Handling
  <1>18. CASE RecalcDelete
    BY <1>18 DEF RecalcDelete, Handling
  <1>19. CASE RecalcDeleteFails
    BY <1>19 DEF RecalcDeleteFails, Finish, RecalcIdle, Handling
  <1>20. CASE RecalcSave
    BY <1>20 DEF RecalcSave, Handling
  <1>21. CASE RecalcSaveFails
    BY <1>21 DEF RecalcSaveFails, Finish, RecalcIdle, Handling
  <1>22. CASE RecalcAnnounce
    BY <1>22 DEF RecalcAnnounce, Handling
  <1>23. CASE RecalcAnnounceFails
    BY <1>23 DEF RecalcAnnounceFails, Finish, RecalcIdle, Handling
  <1>24. CASE RecalcNotify
    BY <1>24 DEF RecalcNotify, Finish, RecalcIdle, Handling
  <1>25. CASE PlannerCrash
    BY <1>25 DEF PlannerCrash, PlannerDown, RecalcIdle, CutCalls, Idle
  <1>26. ASSUME NEW c \in Calls, NEW f \in Favourites, AcceptPanics(c, f)
         PROVE  LocalsOK'
    BY <1>26 DEF AcceptPanics, PlannerDown, RecalcIdle, CutCalls, Idle
  <1>27. CASE PlannerRestart
    BY <1>27 DEF PlannerRestart
  <1>28. ASSUME NEW u \in Users, Requested(u) PROVE LocalsOK'
    BY <1>28 DEF Requested, plannerVars
  <1>29. CASE EventConsumed
    BY <1>29 DEF EventConsumed, plannerVars
  <1>30. CASE UNCHANGED vars
    BY <1>30 DEF vars, plannerVars, busVars
  <1>. QED
    BY <1>1, <1>2, <1>3, <1>4, <1>5, <1>6, <1>7, <1>8, <1>9, <1>10, <1>11, <1>12,
       <1>13, <1>14, <1>15, <1>16, <1>17, <1>18, <1>19, <1>20, <1>21, <1>22, <1>23,
       <1>24, <1>25, <1>26, <1>27, <1>28, <1>29, <1>30
    DEF OpenNext, PlannerStep, CallStarts, CallGoesOn, RecalcStep, FetchRoutes

\* The calls of one user after a step of call c: those in flight before it, and c.
LEMMA CallsAfter ==
  ASSUME TypeOK, LocalsOK, NEW c \in Calls, NEW r,
         rpc' = [rpc EXCEPT ![c] = r]
  PROVE  /\ rpc'[c] = r
         /\ \A d \in Calls \ {c} : rpc'[d] = rpc[d]
         /\ \A d \in Calls \ {c}, u \in Users : CallOf(d, u)' <=> CallOf(d, u)
         /\ \A u \in Users : CallOf(c, u)' <=> r.at # "idle" /\ r.user = u
  BY DEF TypeOK, PlannerTypeOK, CallOf

\* A call that starts beside another update of its user, and a recalculation that
\* reads during a call, mark the user; no later step of either takes the mark away
\* while the other goes on.
LEMMA OverlapPreserved ==
  ASSUME TypeOK, LocalsOK, OverlapsAreTorn, [OpenNext]_vars
  PROVE  OverlapsAreTorn'
  <1>. USE DEF OverlapsAreTorn, Overlaps
  <1>1. ASSUME NEW c \in Calls, NEW u \in Users, CallStarts(c, u)
        PROVE  OverlapsAreTorn'
    <2>1. PICK r : r.user = u /\ rpc' = [rpc EXCEPT ![c] = r]
      BY <1>1 DEF CallStarts, ServeRequest, AcceptSavedRouteRequest, AcceptSaveFails,
         TerminateRoute, MoveTo
    <2>2. /\ recalc' = recalc /\ rpc[c].at = "idle"
          /\ u \in torn' \/ ~Overlaps(c, u)
          /\ \A v \in Users : v # u /\ v \in torn => v \in torn'
      BY <1>1 DEF CallStarts, ServeRequest, AcceptSavedRouteRequest, AcceptSaveFails,
         TerminateRoute, TornByStart, CanCall
    <2>3. /\ \A d \in Calls \ {c}, v \in Users : CallOf(d, v)' <=> CallOf(d, v)
          /\ \A v \in Users : v # u => ~CallOf(c, v)' /\ ~CallOf(c, v)
      BY <2>1, <2>2, CallsAfter DEF CallOf
    <2>. QED
      BY <2>2, <2>3 DEF Recalculating
  <1>2. ASSUME NEW c \in Calls, CallGoesOn(c)
        PROVE  OverlapsAreTorn'
    <2>1. rpc[c].user \in Users /\ CallOf(c, rpc[c].user)
      BY <1>2 DEF LocalsOK, CallGoesOn, ServeSave, ServeSaveFails, AcceptPublish,
         AcceptPublishFails, TerminatePublish, TerminatePublishFails, TerminateDelete,
         TerminateDeleteFails, CallAt, CallOf
    <2>2. CASE TerminatePublish(c)
      <3>1. \E r : /\ rpc' = [rpc EXCEPT ![c] = r]
                   /\ r.at = "terminate_delete" /\ r.user = rpc[c].user
        <4>. WITNESS [at |-> "terminate_delete", user |-> rpc[c].user, route |-> NoRoute]
        <4>. QED
          BY <2>2 DEF TerminatePublish, MoveTo
      <3>2. /\ \A d \in Calls \ {c}, w \in Users : CallOf(d, w)' <=> CallOf(d, w)
            /\ \A w \in Users : CallOf(c, w)' <=> rpc[c].user = w
        BY <3>1, CallsAfter
      <3>3. recalc' = recalc /\ torn' = TornByStart(c, rpc[c].user)
        BY <2>2 DEF TerminatePublish
      <3>4. CASE Overlaps(c, rpc[c].user)
        <4>1. torn' = torn \cup {rpc[c].user}
          BY <3>3, <3>4 DEF TornByStart
        <4>. QED
          BY <2>1, <3>2, <3>3, <4>1 DEF Recalculating
      <3>5. CASE ~Overlaps(c, rpc[c].user)
        <4>1. torn' = torn \ {rpc[c].user}
          BY <3>3, <3>5 DEF TornByStart
        <4>. QED
          BY <2>1, <3>2, <3>3, <3>5, <4>1 DEF Recalculating
      <3>. QED
        BY <3>4, <3>5
    <2>3. CASE ~TerminatePublish(c)
      <3>1. recalc' = recalc /\ rpc' = [rpc EXCEPT ![c] = Idle] /\ torn \subseteq torn'
        BY <1>2, <2>3 DEF CallGoesOn, ServeSave, ServeSaveFails, AcceptPublish,
           AcceptPublishFails, TerminatePublishFails, TerminateDelete,
           TerminateDeleteFails, Return
      <3>2. /\ \A d \in Calls \ {c}, w \in Users : CallOf(d, w)' <=> CallOf(d, w)
            /\ \A w \in Users : ~CallOf(c, w)'
        <4>1. Idle.at = "idle"
          BY DEF Idle
        <4>. QED
          BY <3>1, <4>1, CallsAfter
      <3>. QED
        BY <3>1, <3>2 DEF Recalculating
    <2>. QED
      BY <2>2, <2>3
  <1>3. CASE RecalcRead
    <2>1. /\ rpc' = rpc /\ recalc'.user = Head(notifQ) /\ torn \subseteq torn'
          /\ Calling(Head(notifQ)) => Head(notifQ) \in torn'
      BY <1>3 DEF RecalcRead, TornByRead, Tear
    <2>. QED
      BY <2>1 DEF Recalculating, Calling, CallOf
  <1>4. CASE RecalcSave
    <2>1. /\ rpc' = rpc /\ recalc'.user = recalc.user /\ recalc.at # "idle"
          /\ torn' = torn \ {u \in {recalc.user} : ~Calling(u)}
      BY <1>4 DEF RecalcSave, Handling, TypeOK, PlannerTypeOK
    <2>. QED
      BY <2>1 DEF Recalculating, Calling, CallOf
  <1>5. CASE RecalcDelete \/ RecalcAnnounce \/ \E j \in Planned : RecalcPlan(j)
    <2>1. rpc' = rpc /\ torn' = torn /\ recalc'.user = recalc.user /\ recalc.at # "idle"
      BY <1>5 DEF RecalcDelete, RecalcAnnounce, RecalcPlan, Handling, TypeOK,
         PlannerTypeOK
    <2>. QED
      BY <2>1 DEF Recalculating, CallOf
  <1>6. CASE \/ RecalcPlanFails \/ RecalcDeleteFails \/ RecalcSaveFails
             \/ RecalcAnnounceFails \/ RecalcNotify
    <2>1. rpc' = rpc /\ recalc'.at = "idle" /\ torn \subseteq torn'
      BY <1>6 DEF RecalcPlanFails, RecalcDeleteFails, RecalcSaveFails,
         RecalcAnnounceFails, RecalcNotify, Finish, RecalcIdle, Tear
    <2>. QED
      BY <2>1 DEF Recalculating, CallOf
  <1>7. CASE PlannerCrash \/ \E c \in Calls, f \in Favourites : AcceptPanics(c, f)
    <2>1. \A c \in Calls : rpc'[c].at = "idle"
      BY <1>7 DEF PlannerCrash, AcceptPanics, PlannerDown, CutCalls, Idle
    <2>. QED
      BY <2>1 DEF CallOf
  <1>8. CASE \/ RecalcSkip \/ RecalcReadFails \/ PlannerRestart \/ EventConsumed
             \/ (\E u \in Users : Requested(u)) \/ UNCHANGED vars
    <2>1. UNCHANGED <<rpc, recalc>> /\ torn \subseteq torn'
      BY <1>8 DEF RecalcSkip, RecalcReadFails, PlannerRestart, EventConsumed, Requested,
         TornByRead, Tear, plannerVars, vars
    <2>. QED
      BY <2>1 DEF Recalculating, CallOf
  <1>. QED
    BY <1>1, <1>2, <1>3, <1>4, <1>5, <1>6, <1>7, <1>8
    DEF OpenNext, PlannerStep, RecalcStep, FetchRoutes

\* A step that touches neither the table nor the announcement of a user, nor a call or
\* a recalculation of his, leaves his update where it is.
LEMMA ProgressUntouched ==
  ASSUME NEW v \in Users, ProgressOf(v),
         chosen'[v] = chosen[v], announced'[v] = announced[v], recalc' = recalc,
         \A d \in Calls : CallOf(d, v)' <=> CallOf(d, v),
         \A d \in Calls : CallOf(d, v) => rpc'[d] = rpc[d]
  PROVE  ProgressOf(v)'
  BY DEF ProgressOf, CallInStep, Matching, Settled, Calling, Recalculating

\* A user whose one update is call c: what is to be shown after a step of it.
LEMMA ProgressOfOnly ==
  ASSUME NEW v \in Users, NEW c \in Calls, ~Recalculating(v)',
         \A d \in Calls \ {c} : ~CallOf(d, v)',
         CallOf(c, v)' => CallInStep(c, v)', ~CallOf(c, v)' => Matching(v)'
  PROVE  ProgressOf(v)'
  BY DEF ProgressOf, Settled, Calling

\* The same for a step that changes the recalculation of another user only.
LEMMA ProgressBeside ==
  ASSUME NEW v \in Users, ProgressOf(v), rpc' = rpc,
         chosen'[v] = chosen[v], announced'[v] = announced[v],
         ~Recalculating(v), ~Recalculating(v)'
  PROVE  ProgressOf(v)'
  BY DEF ProgressOf, CallInStep, Matching, Settled, Calling, CallOf

\* A user whose one update is the recalculation.
LEMMA ProgressOfRecalc ==
  ASSUME NEW v \in Users, \A c \in Calls : ~CallOf(c, v)',
         Recalculating(v)' /\ recalc'.at = "announce" => chosen'[v] = recalc'.best,
         ~Recalculating(v)' \/ recalc'.at \in {"plan", "delete", "notify"} => Matching(v)'
  PROVE  ProgressOf(v)'
  BY DEF ProgressOf, Settled

\* Each write of an update moves it on by one stage, and the last one makes the table
\* and the announcement match again.
LEMMA ProgressPreserved ==
  ASSUME PlannerInv, [OpenNext]_vars
  PROVE  UpdatesInStep'
  <1>. USE DEF PlannerInv, UpdatesInStep, TypeOK, PlannerTypeOK
  <1>. SUFFICES ASSUME NEW v \in Users, v \notin torn'
                PROVE  ProgressOf(v)'
    OBVIOUS
  <1>1. ASSUME NEW c \in Calls, NEW u \in Users, CallStarts(c, u)
        PROVE  ProgressOf(v)'
    <2>1. PICK r : r.user = u /\ r.at # "idle" /\ rpc' = [rpc EXCEPT ![c] = r]
      BY <1>1 DEF CallStarts, ServeRequest, AcceptSavedRouteRequest, AcceptSaveFails,
         TerminateRoute, MoveTo
    <2>2. recalc' = recalc /\ rpc[c].at = "idle"
      BY <1>1 DEF CallStarts, ServeRequest, AcceptSavedRouteRequest, AcceptSaveFails,
         TerminateRoute, CanCall
    <2>3. ASSUME v # u PROVE ProgressOf(v)'
      <3>1. v \notin torn /\ chosen'[v] = chosen[v] /\ announced'[v] = announced[v]
        BY <1>1, <2>3 DEF CallStarts, ServeRequest, AcceptSavedRouteRequest,
           AcceptSaveFails, TerminateRoute, TornByStart, PublishCreated, MaybeWritten
      <3>2. \A d \in Calls : CallOf(d, v)' <=> CallOf(d, v)
        BY <2>1, <2>2, <2>3, CallsAfter DEF CallOf
      <3>3. \A d \in Calls : CallOf(d, v) => rpc'[d] = rpc[d]
        BY <2>1, <2>2, CallsAfter DEF CallOf
      <3>. QED
        BY <2>2, <3>1, <3>2, <3>3, ProgressUntouched
    <2>4. ASSUME v = u PROVE ProgressOf(v)'
      <3>1. ~Overlaps(c, u) /\ (TerminateRoute(c, u) => u \notin torn)
        BY <1>1, <2>4 DEF CallStarts, ServeRequest, AcceptSavedRouteRequest,
           AcceptSaveFails, TerminateRoute, TornByStart
      <3>2. ~Recalculating(v)' /\ \A d \in Calls \ {c} : ~CallOf(d, v)'
        BY <2>1, <2>2, <2>4, <3>1, CallsAfter DEF Overlaps, Recalculating
      <3>3. CallOf(c, v)'
        BY <2>1, <2>4, CallsAfter
      <3>4. CallInStep(c, v)'
        <4>1. CASE \E j \in Planned : ServeRequest(c, u, j)
          BY <4>1, <2>4 DEF ServeRequest, PublishCreated, MoveTo, CallInStep
        <4>2. CASE \E f \in Favourites : AcceptSavedRouteRequest(c, u, f)
          BY <4>2, <2>4 DEF AcceptSavedRouteRequest, MoveTo, CallInStep
        <4>3. CASE \E f \in Favourites : AcceptSaveFails(c, u, f)
          BY <4>3, <2>4 DEF AcceptSaveFails
        <4>4. CASE TerminateRoute(c, u)
          <5>1. Settled(u)
            BY <2>2, <3>1 DEF Settled, Calling, Overlaps, CallOf
          <5>2. Matching(u)
            BY <4>4, <3>1, <5>1 DEF ProgressOf
          <5>. QED
            BY <4>4, <2>4, <5>2 DEF TerminateRoute, MoveTo, CallInStep, Matching
        <4>. QED
          BY <1>1, <4>1, <4>2, <4>3, <4>4 DEF CallStarts, FetchRoutes
      <3>. QED
        BY <3>2, <3>3, <3>4, ProgressOfOnly
    <2>. QED
      BY <2>3, <2>4
  <1>2. ASSUME NEW c \in Calls, CallGoesOn(c)
        PROVE  ProgressOf(v)'
    <2>1. rpc[c].user \in Users /\ CallOf(c, rpc[c].user) /\ recalc' = recalc
      BY <1>2 DEF LocalsOK, CallGoesOn, ServeSave, ServeSaveFails, AcceptPublish,
         AcceptPublishFails, TerminatePublish, TerminatePublishFails, TerminateDelete,
         TerminateDeleteFails, CallAt, CallOf
    <2>2. PICK r : /\ rpc' = [rpc EXCEPT ![c] = r]
                   /\ IF TerminatePublish(c) THEN /\ r.at = "terminate_delete"
                                                  /\ r.user = rpc[c].user
                                             ELSE r = Idle
      <3>1. CASE TerminatePublish(c)
        <4>. WITNESS [at |-> "terminate_delete", user |-> rpc[c].user, route |-> NoRoute]
        <4>. QED
          BY <3>1 DEF TerminatePublish, MoveTo
      <3>2. CASE ~TerminatePublish(c)
        BY <1>2, <3>2 DEF CallGoesOn, ServeSave, ServeSaveFails, AcceptPublish,
           AcceptPublishFails, TerminatePublishFails, TerminateDelete,
           TerminateDeleteFails, Return
      <3>. QED
        BY <3>1, <3>2
    <2>3. ASSUME v # rpc[c].user PROVE ProgressOf(v)'
      <3>1. v \notin torn /\ chosen'[v] = chosen[v] /\ announced'[v] = announced[v]
        BY <1>2, <2>3 DEF CallGoesOn, ServeSave, ServeSaveFails, AcceptPublish,
           AcceptPublishFails, TerminatePublish, TerminatePublishFails, TerminateDelete,
           TerminateDeleteFails, TornByStart, PublishCreated, MaybeWritten
      <3>2. ~CallOf(c, v) /\ ~CallOf(c, v)'
        BY <2>2, <2>3, CallsAfter DEF CallOf, Idle
      <3>3. \A d \in Calls : CallOf(d, v)' <=> CallOf(d, v)
        BY <2>2, <3>2, CallsAfter
      <3>4. \A d \in Calls : CallOf(d, v) => rpc'[d] = rpc[d]
        BY <2>2, <3>2, CallsAfter
      <3>. QED
        BY <2>1, <3>1, <3>3, <3>4, ProgressUntouched
    <2>4. ASSUME v = rpc[c].user PROVE ProgressOf(v)'
      <3>1. ~Overlaps(c, v)
        BY <1>2, <2>1, <2>4 DEF OverlapsAreTorn, CallGoesOn, ServeSave, ServeSaveFails,
           AcceptPublish, AcceptPublishFails, TerminatePublish, TerminatePublishFails,
           TerminateDelete, TerminateDeleteFails, TornByStart
      <3>2. ~Recalculating(v)' /\ \A d \in Calls \ {c} : ~CallOf(d, v)'
        BY <2>1, <2>2, <3>1, CallsAfter DEF Overlaps, Recalculating
      <3>3. ASSUME ~TerminatePublish(c), v \notin torn
            PROVE  ~CallOf(c, v)' /\ CallInStep(c, v)
        BY <2>1, <2>2, <2>4, <3>3, CallsAfter DEF Idle, CallOf, ProgressOf
      <3>4. CASE ServeSave(c)
        <4>1. rpc[c].route \in Routes
          BY <3>4 DEF ServeSave, CallAt, LocalsOK, Routes
        <4>2. /\ v \notin torn
              /\ announced'[v] = Keys(rpc[c].route) /\ chosen'[v] = rpc[c].route
          BY <2>4, <3>3, <3>4 DEF ServeSave, CallAt, CallInStep, TerminatePublish
        <4>3. Matching(v)'
          BY <4>1, <4>2, RouteEntry DEF Matching
        <4>. QED
          BY <3>2, <3>3, <3>4, <4>2, <4>3, ProgressOfOnly DEF ServeSave, CallAt,
             TerminatePublish
      <3>5. CASE AcceptPublish(c)
        <4>1. rpc[c].route \in Routes
          BY <3>5 DEF AcceptPublish, CallAt, LocalsOK, Routes
        <4>2. /\ v \notin torn
              /\ announced'[v] = Keys(rpc[c].route) /\ chosen'[v] = rpc[c].route
          BY <2>4, <3>3, <3>5
          DEF AcceptPublish, CallAt, CallInStep, PublishCreated, TerminatePublish
        <4>3. Matching(v)'
          BY <4>1, <4>2, RouteEntry DEF Matching
        <4>. QED
          BY <3>2, <3>3, <3>5, <4>2, <4>3, ProgressOfOnly DEF AcceptPublish, CallAt,
             TerminatePublish
      <3>6. CASE TerminatePublish(c)
        <4>1. CallOf(c, v)' /\ CallInStep(c, v)'
          <5>1. rpc'[c] = r /\ CallOf(c, v)'
            BY <2>2, <2>4, <3>6, CallsAfter
          <5>2. r.at = "terminate_delete" /\ announced'[v] = NoEntry
            BY <2>2, <2>4, <3>6 DEF TerminatePublish
          <5>. QED
            BY <5>1, <5>2 DEF CallInStep
        <4>. QED
          BY <3>2, <4>1, ProgressOfOnly
      <3>7. CASE TerminatePublishFails(c)
        <4>1. v \notin torn /\ ~TerminatePublish(c) /\ Matching(v)'
          BY <2>1, <2>4, <3>7 DEF TerminatePublishFails, TerminatePublish, CallAt,
             CallInStep, ProgressOf, Matching, Return, Idle, MoveTo
        <4>. QED
          BY <3>2, <3>3, <4>1, ProgressOfOnly
      <3>8. CASE TerminateDelete(c)
        <4>1. v \notin torn /\ ~TerminatePublish(c) /\ announced'[v] = NoEntry
          BY <2>1, <2>4, <3>8 DEF TerminateDelete, TerminatePublish, CallAt, CallInStep,
             ProgressOf
        <4>2. Matching(v)'
          BY <2>4, <3>8, <4>1 DEF TerminateDelete, Matching, EntryOf
        <4>. QED
          BY <3>2, <3>3, <4>1, <4>2, ProgressOfOnly
      <3>9. ~(ServeSaveFails(c) \/ AcceptPublishFails(c) \/ TerminateDeleteFails(c))
        BY <2>4 DEF ServeSaveFails, AcceptPublishFails, TerminateDeleteFails
      <3>. QED
        BY <1>2, <3>4, <3>5, <3>6, <3>7, <3>8, <3>9 DEF CallGoesOn
    <2>. QED
      BY <2>3, <2>4
  <1>3. ASSUME rpc' = rpc, recalc.at # "idle", v # recalc.user, RecalcStep
        PROVE  ProgressOf(v)'
    <2>1. /\ v \notin torn /\ chosen'[v] = chosen[v] /\ announced'[v] = announced[v]
          /\ recalc'.at = "idle" \/ recalc'.user = recalc.user
      <3>1. CASE RecalcRead \/ RecalcSkip \/ RecalcReadFails
        BY <1>3, <3>1 DEF RecalcRead, RecalcSkip, RecalcReadFails, Handling
      <3>2. CASE RecalcDelete \/ RecalcSave \/ RecalcAnnounce
        BY <1>3, <3>2 DEF RecalcDelete, RecalcSave, RecalcAnnounce, PublishCreated
      <3>3. CASE RecalcPlanFails \/ RecalcAnnounceFails \/ RecalcNotify
        BY <1>3, <3>3 DEF RecalcPlanFails, RecalcAnnounceFails, RecalcNotify, Finish,
           RecalcIdle, Tear
      <3>4. CASE RecalcDeleteFails \/ RecalcSaveFails
        BY <1>3, <3>4 DEF RecalcDeleteFails, RecalcSaveFails, Finish, RecalcIdle, Tear,
           MaybeWritten
      <3>5. CASE \E j \in Planned : RecalcPlan(j)
        BY <1>3, <3>5 DEF RecalcPlan
      <3>. QED
        BY <1>3, <3>1, <3>2, <3>3, <3>4, <3>5 DEF RecalcStep, FetchRoutes
    <2>. QED
      BY <1>3, <2>1, ProgressBeside DEF Recalculating
  <1>4. ASSUME rpc' = rpc, recalc.at # "idle", v = recalc.user, RecalcStep
        PROVE  ProgressOf(v)'
    <2>1. \A c \in Calls : ~CallOf(c, v)'
      <3>1. v \notin torn => ~Calling(v)
        BY <1>4 DEF OverlapsAreTorn, Overlaps, Calling, Recalculating
      <3>2. v \in torn => ~Calling(v)
        BY <1>4 DEF RecalcStep, RecalcRead, RecalcSkip, RecalcReadFails, RecalcPlan,
           RecalcPlanFails, RecalcDelete, RecalcDeleteFails, RecalcSave, RecalcSaveFails,
           RecalcAnnounce, RecalcAnnounceFails, RecalcNotify, Handling, Finish, Tear,
           plannerVars
      <3>. QED
        BY <1>4, <3>1, <3>2 DEF Calling, CallOf
    <2>2. v \in torn => RecalcSave
      BY <1>4 DEF RecalcStep, RecalcRead, RecalcSkip, RecalcReadFails, RecalcPlan,
         RecalcPlanFails, RecalcDelete, RecalcDeleteFails, RecalcSaveFails,
         RecalcAnnounce, RecalcAnnounceFails, RecalcNotify, Handling, Finish, Tear,
         plannerVars
    <2>3. ASSUME recalc.at \in {"plan", "delete", "notify"}, v \notin torn
          PROVE  Matching(v)
      BY <1>4, <2>3 DEF ProgressOf, Recalculating
    <2>4. CASE \E j \in Planned : RecalcPlan(j)
      <3>1. Matching(v) /\ recalc'.at = "delete" /\ UNCHANGED <<chosen, announced>>
        BY <2>2, <2>3, <2>4 DEF RecalcPlan, RecalcSave, Handling
      <3>. QED
        BY <2>1, <3>1, ProgressOfRecalc DEF Matching
    <2>5. CASE RecalcPlanFails \/ RecalcNotify
      <3>1. Matching(v) /\ recalc'.at = "idle" /\ UNCHANGED <<chosen, announced>>
        BY <2>2, <2>3, <2>5 DEF RecalcPlanFails, RecalcNotify, RecalcSave, Handling,
           Finish, RecalcIdle
      <3>. QED
        BY <2>1, <3>1, ProgressOfRecalc DEF Matching
    <2>6. CASE RecalcDelete
      <3>1. recalc'.at = "save" /\ recalc'.user = v
        BY <1>4, <2>6 DEF RecalcDelete
      <3>. QED
        BY <2>1, <3>1, ProgressOfRecalc DEF Recalculating
    <2>7. CASE RecalcSave
      <3>1. recalc'.at = "announce" /\ recalc'.user = v /\ chosen'[v] = recalc'.best
        BY <1>4, <2>7 DEF RecalcSave
      <3>. QED
        BY <2>1, <3>1, ProgressOfRecalc DEF Recalculating
    <2>8. CASE RecalcAnnounce
      <3>1. v \notin torn /\ recalc.best \in Routes /\ chosen[v] = recalc.best
        BY <1>4, <2>2, <2>8 DEF RecalcAnnounce, RecalcSave, Handling, LocalsOK, Routes,
           ProgressOf, Recalculating
      <3>2. chosen'[v] = recalc.best /\ announced'[v] = Keys(recalc.best)
        BY <1>4, <2>8, <3>1 DEF RecalcAnnounce, PublishCreated
      <3>3. Matching(v)' /\ recalc'.at = "notify"
        BY <2>8, <3>1, <3>2, RouteEntry DEF Matching, RecalcAnnounce
      <3>. QED
        BY <2>1, <3>3, ProgressOfRecalc
    <2>9. ~(RecalcDeleteFails \/ RecalcSaveFails \/ RecalcAnnounceFails)
      BY <1>4 DEF RecalcDeleteFails, RecalcSaveFails, RecalcAnnounceFails, Tear
    <2>10. ~(RecalcRead \/ RecalcSkip \/ RecalcReadFails)
      BY <1>4 DEF RecalcRead, RecalcSkip, RecalcReadFails, Handling
    <2>. QED
      BY <1>4, <2>4, <2>5, <2>6, <2>7, <2>8, <2>9, <2>10 DEF RecalcStep, FetchRoutes
  <1>5. CASE RecalcRead
    <2>1. /\ UNCHANGED <<rpc, chosen, announced>> /\ v \notin torn
          /\ ~Recalculating(v) /\ recalc'.at = "plan" /\ recalc'.user = Head(notifQ)
          /\ torn' = torn \cup {w \in {Head(notifQ)} : Calling(w)}
      BY <1>5 DEF RecalcRead, Handling, TornByRead, Tear, Recalculating
    <2>2. CASE v = Head(notifQ)
      <3>1. ~Calling(v)
        BY <2>1, <2>2
      <3>2. Matching(v)
        BY <2>1, <3>1 DEF ProgressOf, Settled
      <3>. QED
        BY <2>1, <3>1, <3>2, ProgressOfRecalc DEF Matching, Calling, CallOf
    <2>3. CASE v # Head(notifQ)
      BY <2>1, <2>3, ProgressBeside DEF Recalculating
    <2>. QED
      BY <2>2, <2>3
  <1>6. CASE PlannerCrash \/ \E c \in Calls, f \in Favourites : AcceptPanics(c, f)
    <2>1. /\ PlannerDown /\ v \notin torn /\ v \notin HalfDone
      BY <1>6 DEF PlannerCrash, AcceptPanics, PlannerDown, Tear
    <2>2. /\ UNCHANGED <<chosen, announced>> /\ recalc'.at = "idle"
          /\ \A c \in Calls : rpc'[c].at = "idle"
      BY <2>1 DEF PlannerDown, CutCalls, Idle, RecalcIdle
    <2>3. Matching(v)
      <3>1. ASSUME NEW c \in Calls, CallOf(c, v) PROVE Matching(v)
        <4>1. rpc[c].at = "terminate_publish"
          BY <2>1, <3>1 DEF HalfDone, CallOf, CallPoints
        <4>. QED
          BY <2>1, <3>1, <4>1 DEF ProgressOf, CallInStep
      <3>2. ASSUME Recalculating(v) PROVE Matching(v)
        <4>1. recalc.at \in {"plan", "delete", "notify"}
          BY <2>1, <3>2 DEF HalfDone, Recalculating, RecalcPoints
        <4>. QED
          BY <2>1, <3>2, <4>1 DEF ProgressOf
      <3>. QED
        BY <2>1, <3>1, <3>2 DEF ProgressOf, Settled, Calling
    <2>. QED
      BY <2>2, <2>3, ProgressOfRecalc DEF Matching, CallOf
  <1>7. CASE \/ RecalcSkip \/ RecalcReadFails \/ PlannerRestart \/ EventConsumed
             \/ (\E u \in Users : Requested(u)) \/ UNCHANGED vars
    <2>1. UNCHANGED <<rpc, recalc, chosen, announced>> /\ torn \subseteq torn'
      BY <1>7 DEF RecalcSkip, RecalcReadFails, PlannerRestart, EventConsumed, Requested,
         TornByRead, Tear, plannerVars, vars
    <2>. QED
      BY <2>1, ProgressUntouched DEF CallOf
  <1>8. ASSUME RecalcStep PROVE ProgressOf(v)'
    <2>1. rpc' = rpc
      BY <1>8 DEF RecalcStep, RecalcRead, RecalcSkip, RecalcReadFails, RecalcPlan,
         RecalcPlanFails, RecalcDelete, RecalcDeleteFails, RecalcSave, RecalcSaveFails,
         RecalcAnnounce, RecalcAnnounceFails, RecalcNotify, plannerVars
    <2>2. recalc.at = "idle" => RecalcRead \/ RecalcSkip \/ RecalcReadFails
      BY <1>8 DEF RecalcStep, RecalcPlan, RecalcPlanFails, RecalcDelete,
         RecalcDeleteFails, RecalcSave, RecalcSaveFails, RecalcAnnounce,
         RecalcAnnounceFails, RecalcNotify, Handling
    <2>. QED
      BY <1>3, <1>4, <1>5, <1>7, <1>8, <2>1, <2>2
  <1>. QED
    BY <1>1, <1>2, <1>6, <1>7, <1>8 DEF OpenNext, PlannerStep

-----------------------------------------------------------------------------
LEMMA InitEstablishes == Init => PlannerInv
  <1>. SUFFICES ASSUME Init PROVE PlannerInv
    OBVIOUS
  <1>1. TypeOK
    BY NoEntryIsEntry DEF Init, BusInit, PlannerInit, TypeOK, BusTypeOK, PlannerTypeOK,
       Idle, RecalcIdle, CallPoints, RecalcPoints, NoEntry
  <1>2. LocalsOK /\ RecalcOwnsHead /\ OverlapsAreTorn
    BY DEF Init, PlannerInit, Idle, RecalcIdle, LocalsOK, RecalcOwnsHead, OverlapsAreTorn,
       CallOf
  <1>3. UpdatesInStep
    BY DEF Init, PlannerInit, Idle, RecalcIdle, UpdatesInStep, ProgressOf, Matching,
       EntryOf, Recalculating, CallOf
  <1>. QED
    BY <1>1, <1>2, <1>3 DEF PlannerInv

LEMMA StepPreserves == PlannerInv /\ [OpenNext]_vars => PlannerInv'
  <1>. SUFFICES ASSUME PlannerInv, [OpenNext]_vars PROVE PlannerInv'
    OBVIOUS
  <1>1. TypeOK' /\ LocalsOK' /\ RecalcOwnsHead'
    BY TypePreserved, LocalsPreserved, HeadPreserved DEF PlannerInv
  <1>2. OverlapsAreTorn' /\ UpdatesInStep'
    BY OverlapPreserved, ProgressPreserved DEF PlannerInv
  <1>. QED
    BY <1>1, <1>2 DEF PlannerInv

(* What the invariant is for: it contains the type invariant and the         *)
(* ownership of the queue's head, and a settled user, whose three steps of   *)
(* an update are all done, has the table in line with the announcement.      *)
LEMMA PlannerImplies ==
  PlannerInv => TypeOK /\ RecalcOwnsHead /\ TableMatchesAnnouncement
  <1>1. PlannerInv => TableMatchesAnnouncement
    <2>. SUFFICES ASSUME PlannerInv, NEW u \in Users \ torn, Settled(u)
                  PROVE  announced[u] = EntryOf(chosen[u])
      BY DEF TableMatchesAnnouncement
    <2>1. ProgressOf(u)
      BY DEF PlannerInv, UpdatesInStep
    <2>. QED
      BY <2>1 DEF ProgressOf, Matching
  <1>. QED
    BY <1>1 DEF PlannerInv

\* The inductive invariant holds in every reachable state.
THEOREM PlannerInvariant == Spec => []PlannerInv
  <1>1. Next => OpenNext
    BY DEF Next, OpenNext, PlannerEnv, RequestArrives
  <1>2. [Next]_vars => [OpenNext]_vars
    BY <1>1
  <1>. QED
    BY <1>2, InitEstablishes, StepPreserves, PTL DEF Spec

\* The table, the locals of every goroutine and the queues keep their types.
THEOREM PlannerTypeCorrect == Spec => []TypeOK
  <1>1. PlannerInv => TypeOK
    BY DEF PlannerInv
  <1>. QED
    BY <1>1, PlannerInvariant, PTL

\* The ack or nack that ends a recalculation is about the request it worked on, with
\* any number of users, requests, failures and crashes.
THEOREM PlannerOwnsHead == Spec => []RecalcOwnsHead
  <1>1. PlannerInv => RecalcOwnsHead
    BY DEF PlannerInv
  <1>. QED
    BY <1>1, PlannerInvariant, PTL

\* With nothing under way for a user, the route stored for him is the route last
\* announced, unless an update of his was cut short or overlapped: for every number
\* of users and routes, every interleaving of calls, recalculation and crashes.
THEOREM PlannerTableMatches == Spec => []TableMatchesAnnouncement
  BY PlannerImplies, PlannerInvariant, PTL

=============================================================================
