------------------------- MODULE JourneyWatchProofs -------------------------
(***************************************************************************)
(* RoutePlanner and Notification implement JourneyWatch: the initial state *)
(* is one of its initial states, and each step of the two services is one  *)
(* of its steps or leaves its variables alone. What JourneyWatch promises  *)
(* then holds of them.                                                     *)
(***************************************************************************)
EXTENDS OptimaLDNProofs

-----------------------------------------------------------------------------
\* The watch to come is an entry. It depends on the queue only through what the last
\* event says, and on the table only for users without an event.
LEMMA ForecastIsEntry ==
  SystemInv => \A u \in Users : Forecast(u) \in Entries
  <1>. SUFFICES ASSUME SystemInv, NEW u \in Users PROVE Forecast(u) \in Entries
    OBVIOUS
  <1>1. routeQ \in Seq(Events) /\ active \in [Users -> Entries]
    BY UpcomingQueue DEF SystemInv, WatchShape
  <1>2. CASE Positions(routeQ, u) = {}
    BY <1>1, <1>2 DEF Forecast
  <1>3. CASE Positions(routeQ, u) # {}
    <2>1. PICK i \in Positions(routeQ, u) : \A j \in Positions(routeQ, u) : j <= i
      BY <1>1, <1>3, LastPosition
    <2>2. Effect(routeQ[i]) = LastEffect(routeQ, u)
      BY <1>1, <2>1, LastSaysItself DEF LastSays
    <2>3. routeQ[i] \in Events
      BY <1>1, <2>1 DEF Positions
    <2>4. Effect(routeQ[i]) \in Entries
      BY <2>3, NoEntryIsEntry DEF Effect, Events, Entries
    <2>. QED
      BY <1>3, <2>2, <2>4 DEF Forecast
  <1>. QED
    BY <1>2, <1>3

LEMMA ForecastIsEntryNext ==
  SystemInv' => \A u \in Users : Forecast(u)' \in Entries
  <1>1. (SystemInv => \A u \in Users : Forecast(u) \in Entries)'
    BY ForecastIsEntry, PTL
  <1>. QED
    BY <1>1

LEMMA ForecastKept ==
  ASSUME SystemInv, SystemInv', NEW u \in Users,
         Positions(routeQ', u) = {} <=> Positions(routeQ, u) = {},
         \A x : LastSays(routeQ, u, x) => LastSays(routeQ', u, x),
         active'[u] = active[u] \/ Positions(routeQ, u) # {}
  PROVE  Forecast(u)' = Forecast(u)
  <1>1. routeQ \in Seq(Events) /\ routeQ' \in Seq(Events)
    BY DEF SystemInv, PlannerInv, TypeOK, BusTypeOK
  <1>2. CASE Positions(routeQ, u) = {}
    BY <1>2 DEF Forecast
  <1>3. CASE Positions(routeQ, u) # {}
    <2>1. LastSays(routeQ', u, LastEffect(routeQ, u))
      BY <1>1, LastSaysItself
    <2>2. LastEffect(routeQ', u) = LastEffect(routeQ, u)
      BY <1>1, <1>3, <2>1, LastOfQueue
    <2>. QED
      BY <1>3, <2>2 DEF Forecast
  <1>. QED
    BY <1>2, <1>3

\* With an event in the queue, what was announced comes, unless the user has strayed.
LEMMA ForecastAnnounced ==
  ASSUME SystemInv, NEW u \in Users \ strayed, Positions(routeQ, u) # {}
  PROVE  Forecast(u) = announced[u]
  <1>1. routeQ \in Seq(Events) /\ LastSays(routeQ, u, announced[u])
    BY UpcomingQueue DEF SystemInv, EventsMatch
  <1>. QED
    BY <1>1, LastOfQueue DEF Forecast

\* Who is not watched as announced, before a step and after it.
Follows(u) ==
  \/ Forecast(u) = announced[u]
  \/ Forecast(u) = NoEntry /\ (BeingRerouted(u) \/ Excused(u))

LEMMA FollowsAlways == SystemInv => \A u \in Users \ strayed : Follows(u)
  BY ForecastKnown DEF Follows, SystemInv, LossIsOwed

LEMMA FollowsNext ==
  ASSUME SystemInv', UNCHANGED announced
  PROVE  \A u \in Users \ strayed' :
           \/ Forecast(u)' = announced[u]
           \/ Forecast(u)' = NoEntry /\ (BeingRerouted(u)' \/ Excused(u)')
  <1>1. (SystemInv => \A u \in Users \ strayed : Follows(u))'
    BY FollowsAlways, PTL
  <1>. QED
    BY <1>1 DEF Follows

-----------------------------------------------------------------------------
\* The steps of JourneyWatch, told user by user.
LEMMA AnnounceStep ==
  ASSUME announced \in [Users -> Entries], NEW w \in Users, NEW e \in Entries,
         announced' = [announced EXCEPT ![w] = e], Forecast(w)' = e, strayed' = strayed \ {w},
         \A u \in Users \ {w} : Forecast(u)' = Forecast(u) /\ (Excused(u)' <=> Excused(u)),
         \A u \in Users : BeingRerouted(u)' <=> BeingRerouted(u)
  PROVE  JW!Next
  <1>1. JW!Announce(w, e)
    BY DEF JW!Announce
  <1>. QED
    BY <1>1 DEF JW!Next

LEMMA FailStep ==
  ASSUME UNCHANGED <<announced, strayed>>, NEW S \in SUBSET Users,
         \A u \in Users : /\ Forecast(u)' = Forecast(u)
                          /\ Excused(u)' <=> Excused(u) \/ u \in S
                          /\ BeingRerouted(u)' => BeingRerouted(u)
                          /\ BeingRerouted(u) => BeingRerouted(u)' \/ u \in S
  PROVE  JW!Next
  <1>1. JW!Fail(S)
    BY DEF JW!Fail
  <1>. QED
    BY <1>1 DEF JW!Next

LEMMA SettleStep ==
  ASSUME UNCHANGED <<announced, strayed>>, NEW w \in Users,
         BeingRerouted(w), ~BeingRerouted(w)', Forecast(w) = announced[w] \/ w \in strayed,
         \A u \in Users : Forecast(u)' = Forecast(u) /\ (Excused(u)' <=> Excused(u)),
         \A u \in Users \ {w} : BeingRerouted(u)' <=> BeingRerouted(u)
  PROVE  JW!Next
  <1>1. JW!Settle(w)
    BY DEF JW!Settle
  <1>. QED
    BY <1>1 DEF JW!Next

LEMMA RecoverStep ==
  ASSUME UNCHANGED <<announced, strayed>>, NEW w \in Users, ~Excused(w)',
         Forecast(w) = announced[w] \/ BeingRerouted(w) \/ w \in strayed,
         \A u \in Users : Forecast(u)' = Forecast(u) /\ (BeingRerouted(u)' <=> BeingRerouted(u)),
         \A u \in Users \ {w} : Excused(u)' <=> Excused(u)
  PROVE  JW!Next
  <1>1. JW!Recover(w)
    BY DEF JW!Recover
  <1>. QED
    BY <1>1 DEF JW!Next

LEMMA LapseStep ==
  ASSUME UNCHANGED <<announced, strayed>>, NEW w \in Users,
         BeingRerouted(w) \/ Excused(w), Forecast(w)' = NoEntry,
         \A u \in Users \ {w} : Forecast(u)' = Forecast(u),
         \A u \in Users : /\ Excused(u)' <=> Excused(u)
                          /\ BeingRerouted(u)' <=> BeingRerouted(u)
  PROVE  JW!Next
  <1>1. JW!Lapse(w)
    BY DEF JW!Lapse
  <1>. QED
    BY <1>1 DEF JW!Next

LEMMA StrayStep ==
  ASSUME UNCHANGED announced, NEW w \in Users, strayed' = strayed \cup {w},
         Forecast(w)' \in Entries,
         \A u \in Users \ {w} : Forecast(u)' = Forecast(u),
         \A u \in Users : /\ Excused(u)' <=> Excused(u)
                          /\ BeingRerouted(u)' <=> BeingRerouted(u)
  PROVE  JW!Next
  <1>1. JW!Stray(w, Forecast(w)')
    BY DEF JW!Stray
  <1>. QED
    BY <1>1 DEF JW!Next

LEMMA DisruptStep ==
  ASSUME UNCHANGED <<announced, strayed>>, NEW w \in Users,
         BeingRerouted(w)', Forecast(w)' \in {Forecast(w), NoEntry},
         \A u \in Users \ {w} : /\ Forecast(u)' = Forecast(u)
                                /\ BeingRerouted(u)' <=> BeingRerouted(u),
         \A u \in Users : Excused(u)' <=> Excused(u)
  PROVE  JW!Next
  <1>1. JW!Disrupt(w)
    BY DEF JW!Disrupt
  <1>. QED
    BY <1>1 DEF JW!Next

LEMMA Stutter ==
  ASSUME UNCHANGED <<announced, strayed>>,
         \A u \in Users : /\ Forecast(u)' = Forecast(u)
                          /\ Excused(u)' <=> Excused(u)
                          /\ BeingRerouted(u)' <=> BeingRerouted(u)
  PROVE  UNCHANGED JW!vars
  BY DEF JW!vars
-----------------------------------------------------------------------------
\* What the steps of the planner do to these.

\* An event is published.
LEMMA Publishing ==
  ASSUME SystemInv, SystemInv', NEW w \in Users, NEW e \in Events, e.user = w,
         Effect(e) \in Entries, routeQ' = Append(routeQ, e),
         announced' = [announced EXCEPT ![w] = Effect(e)],
         UNCHANGED <<notifQ, notificationVars>>,
         strayed' = {u \in strayed : Positions(routeQ', u) = Positions(routeQ, u)},
         \A u \in Users \ {w} : Excused(u)' <=> Excused(u)
  PROVE  JW!Next
  <1>1. routeQ \in Seq(Events) /\ announced \in [Users -> Entries]
    BY UpcomingQueue DEF SystemInv, PlannerInv, TypeOK, PlannerTypeOK
  <1>2. Forecast(w)' = Effect(e)
    <2>1. LastEffect(routeQ', w) = Effect(e)
      <3>1. Positions(routeQ', w) # {} /\ LastSays(routeQ', w, Effect(e))
        BY <1>1, AppendedEvent
      <3>2. routeQ' \in Seq(Events)
        BY <1>1
      <3>. QED
        BY <3>1, <3>2, LastOfQueue
    <2>. QED
      BY <1>1, <2>1, AppendedEvent DEF Forecast
  <1>3. ASSUME NEW u \in Users \ {w}
        PROVE  Forecast(u)' = Forecast(u)
    <2>1. /\ Positions(routeQ', u) = Positions(routeQ, u)
          /\ \A x : LastSays(routeQ, u, x) => LastSays(routeQ', u, x)
      BY <1>1, AppendedEvent
    <2>. QED
      BY <2>1, ForecastKept DEF notificationVars
  <1>4. \A u \in Users : BeingRerouted(u)' <=> BeingRerouted(u)
    BY DEF BeingRerouted, RequestPending, notificationVars
  <1>5. strayed' = strayed \ {w}
    <2>1. Positions(routeQ', w) # Positions(routeQ, w)
      <3>1. /\ Append(routeQ, e)[Len(routeQ) + 1] = e /\ Len(routeQ) \in Nat
            /\ DOMAIN Append(routeQ, e) = 1 .. Len(routeQ) + 1 /\ DOMAIN routeQ = 1 .. Len(routeQ)
        BY <1>1
      <3>2. /\ Len(routeQ) + 1 \in Positions(routeQ', w)
            /\ Len(routeQ) + 1 \notin Positions(routeQ, w)
        BY <3>1 DEF Positions
      <3>. QED
        BY <3>2
    <2>2. \A u \in Users \ {w} : Positions(routeQ', u) = Positions(routeQ, u)
      BY <1>1, AppendedEvent
    <2>. QED
      BY <2>1, <2>2 DEF SystemInv
  <1>. QED
    BY <1>1, <1>2, <1>3, <1>4, <1>5, AnnounceStep

LEMMA SameForecast ==
  ASSUME UNCHANGED <<routeQ, active>>
  PROVE  \A u \in Users : Forecast(u)' = Forecast(u)
  BY DEF Forecast

\* A request that is given back is still pending.
LEMMA SameRequests ==
  ASSUME PlannerInv, UNCHANGED traffic,
         notifQ' = notifQ \/ (notifQ # <<>> /\ notifQ' = Nack(notifQ))
  PROVE  \A u \in Users : BeingRerouted(u)' <=> BeingRerouted(u)
  <1>1. \A u \in Users : RequestPending(u)' <=> RequestPending(u)
    <2>1. CASE notifQ' = notifQ
      BY <2>1 DEF RequestPending
    <2>2. CASE notifQ # <<>> /\ notifQ' = Nack(notifQ)
      <3>1. notifQ \in Seq(Users)
        BY DEF PlannerInv, TypeOK, BusTypeOK
      <3>2. /\ DOMAIN notifQ = 1 .. Len(notifQ) /\ Len(notifQ) \in Nat \ {0}
            /\ DOMAIN notifQ' = 1 .. Len(notifQ)
            /\ notifQ'[Len(notifQ)] = notifQ[1]
            /\ \A k \in 1 .. Len(notifQ) - 1 : notifQ'[k] = notifQ[k + 1]
        BY <2>2, <3>1 DEF Nack
      <3>3. ASSUME NEW i \in DOMAIN notifQ
            PROVE  \E k \in DOMAIN notifQ' : notifQ'[k] = notifQ[i]
        <4>1. CASE i = 1
          BY <3>2, <4>1
        <4>2. CASE i # 1
          <5>1. i - 1 \in 1 .. Len(notifQ) - 1 /\ (i - 1) + 1 = i /\ i - 1 \in DOMAIN notifQ'
            BY <3>2, <4>2
          <5>. QED
            BY <3>2, <5>1
        <4>. QED
          BY <4>1, <4>2
      <3>4. ASSUME NEW k \in DOMAIN notifQ'
            PROVE  \E i \in DOMAIN notifQ : notifQ[i] = notifQ'[k]
        <4>1. CASE k = Len(notifQ)
          BY <3>2, <4>1
        <4>2. CASE k # Len(notifQ)
          <5>1. k \in 1 .. Len(notifQ) - 1 /\ k + 1 \in DOMAIN notifQ
            BY <3>2, <4>2
          <5>. QED
            BY <3>2, <5>1
        <4>. QED
          BY <4>1, <4>2
      <3>. QED
        BY <3>3, <3>4 DEF RequestPending
    <2>. QED
      BY <2>1, <2>2
  <1>. QED
    BY <1>1 DEF BeingRerouted

\* Nothing is published or answered, and nobody is less excused than before.
LEMMA QuietStep ==
  ASSUME SystemInv, SystemInv', UNCHANGED <<routeQ, announced, notificationVars, strayed>>,
         notifQ' = notifQ \/ (notifQ # <<>> /\ notifQ' = Nack(notifQ)),
         \A u \in Users : Excused(u) => Excused(u)'
  PROVE  JW!Next
  <1>. DEFINE S == {u \in Users : Excused(u)'}
  <1>1. \A u \in Users : Forecast(u)' = Forecast(u)
    BY SameForecast DEF notificationVars
  <1>2. \A u \in Users : BeingRerouted(u)' <=> BeingRerouted(u)
    BY SameRequests DEF SystemInv, notificationVars
  <1>3. S \in SUBSET Users /\ \A u \in Users : Excused(u)' <=> Excused(u) \/ u \in S
    OBVIOUS
  <1>. QED
    BY <1>1, <1>2, <1>3, FailStep

\* The request at the head is answered.
LEMMA AnswerStep ==
  ASSUME SystemInv, SystemInv', UNCHANGED <<routeQ, announced, notificationVars, strayed>>,
         NEW w \in Users, notifQ # <<>>, Head(notifQ) = w, notifQ' = Ack(notifQ),
         \A u \in Users : Excused(u) => Excused(u)',
         \/ Excused(w)'
         \/ /\ \A u \in Users : Excused(u)' <=> Excused(u)
            /\ Unwatched(w) => RequestToCome(w)
  PROVE  JW!Next
  <1>1. \A u \in Users : Forecast(u)' = Forecast(u)
    BY SameForecast DEF notificationVars
  <1>2. /\ notifQ \in Seq(Users)
        /\ DOMAIN notifQ = 1 .. Len(notifQ) /\ Len(notifQ) \in Nat \ {0}
        /\ DOMAIN notifQ' = 1 .. Len(notifQ) - 1
        /\ \A k \in 1 .. Len(notifQ) - 1 : notifQ'[k] = notifQ[k + 1]
        /\ notifQ[1] = w
    BY DEF Ack, SystemInv, PlannerInv, TypeOK, BusTypeOK
  <1>3. ASSUME NEW u \in Users, NEW i \in DOMAIN notifQ, notifQ[i] = u, i # 1
        PROVE  RequestPending(u)'
    <2>1. i - 1 \in 1 .. Len(notifQ) - 1 /\ (i - 1) + 1 = i /\ i - 1 \in DOMAIN notifQ'
      BY <1>2, <1>3
    <2>2. notifQ'[i - 1] = u
      BY <1>2, <1>3, <2>1
    <2>. QED
      BY <2>1, <2>2 DEF RequestPending
  <1>4. ASSUME NEW u \in Users, RequestPending(u)'
        PROVE  RequestPending(u)
    <2>1. PICK k \in DOMAIN notifQ' : notifQ'[k] = u
      BY <1>4 DEF RequestPending
    <2>2. k \in 1 .. Len(notifQ) - 1 /\ k + 1 \in DOMAIN notifQ
      BY <1>2
    <2>. QED
      BY <1>2, <2>1, <2>2 DEF RequestPending
  <1>5. /\ \A u \in Users : BeingRerouted(u)' => BeingRerouted(u)
        /\ \A u \in Users \ {w} : BeingRerouted(u) => BeingRerouted(u)'
        /\ RequestToCome(w) => BeingRerouted(w)'
    <2>1. ASSUME NEW u \in Users \ {w}, RequestPending(u)
          PROVE  RequestPending(u)'
      BY <1>2, <1>3, <2>1 DEF RequestPending
    <2>2. ASSUME RequestToCome(w)
          PROVE  BeingRerouted(w)'
      BY <1>3, <2>2 DEF RequestToCome, BeingRerouted, notificationVars
    <2>. QED
      BY <1>4, <2>1, <2>2 DEF BeingRerouted, notificationVars
  <1>6. CASE Excused(w)'
    <2>. DEFINE S == {u \in Users : Excused(u)'}
    <2>1. S \in SUBSET Users /\ \A u \in Users : Excused(u)' <=> Excused(u) \/ u \in S
      OBVIOUS
    <2>2. \A u \in Users : BeingRerouted(u) => BeingRerouted(u)' \/ u \in S
      BY <1>5, <1>6
    <2>. QED
      BY <1>1, <1>5, <2>1, <2>2, FailStep
  <1>7. CASE ~Excused(w)'
    <2>1. /\ \A u \in Users : Excused(u)' <=> Excused(u)
          /\ Unwatched(w) => BeingRerouted(w)'
      BY <1>5, <1>7
    <2>2. Forecast(w) = announced[w] \/ BeingRerouted(w)' \/ w \in strayed
      BY <1>7, <2>1, ForecastKnown
    <2>3. CASE BeingRerouted(w)'
      <3>1. \A u \in Users : BeingRerouted(u)' <=> BeingRerouted(u)
        BY <1>5, <2>3
      <3>. QED
        BY <1>1, <2>1, <3>1, FailStep, {} \in SUBSET Users
    <2>4. CASE ~BeingRerouted(w)'
      <3>1. BeingRerouted(w)
        <4>1. 1 \in DOMAIN notifQ
          BY <1>2
        <4>. QED
          BY <1>2, <4>1 DEF BeingRerouted, RequestPending
      <3>. QED
        BY <1>1, <1>5, <2>1, <2>2, <2>4, <3>1, SettleStep
    <2>. QED
      BY <2>3, <2>4
  <1>. QED
    BY <1>6, <1>7
-----------------------------------------------------------------------------
\* Every step of the planner.
LEMMA PlannerMaps ==
  ASSUME SystemInv, SystemInv', Planner
  PROVE  JW!Next \/ UNCHANGED JW!vars
  <1>0. /\ UNCHANGED notificationVars /\ UNCHANGED dropped
        /\ PlannerInv /\ NoEntry \in Entries
        /\ strayed' = {u \in strayed : Positions(routeQ', u) = Positions(routeQ, u)}
        /\ routeQ' = routeQ => strayed' = strayed
    BY NoEntryIsEntry DEF Planner, notificationVars, SystemInv
  <1>. DEFINE Kept == \A v \in Users : Excused(v) => Excused(v)'
  <1>1. ASSUME NEW c \in Calls, NEW u \in Users, NEW j \in Planned, ServeRequest(c, u, j)
        PROVE  JW!Next
    <2>1. /\ routeQ' = Append(routeQ, Created(u, j)) /\ UNCHANGED notifQ
          /\ announced' = [announced EXCEPT ![u] = Keys(j)]
      BY <1>1 DEF ServeRequest, PublishCreated
    <2>2. \A v \in Users \ {u} : Excused(v)' <=> Excused(v)
      BY <1>0, <1>1, CallExcusesItsUser DEF CallStarts, FetchRoutes
    <2>3. j \in Routes
      BY DEF Routes
    <2>. QED
      BY <1>0, <2>1, <2>2, <2>3, RouteEntry, PublishedEffect, Publishing
  <1>2. ASSUME NEW c \in Calls, NEW u \in Users, CallOf(c, u), AcceptPublish(c)
        PROVE  JW!Next
    <2>1. PICK r \in Routes : r = rpc[c].route
      BY <1>0, <1>2 DEF AcceptPublish, CallAt, PlannerInv, LocalsOK, Routes
    <2>2. /\ routeQ' = Append(routeQ, Created(u, r)) /\ UNCHANGED notifQ
          /\ announced' = [announced EXCEPT ![u] = Keys(r)]
      BY <1>2, <2>1 DEF AcceptPublish, PublishCreated, CallOf
    <2>3. \A v \in Users \ {u} : Excused(v)' <=> Excused(v)
      BY <1>0, <1>2, CallExcusesItsUser DEF CallGoesOn
    <2>. QED
      BY <1>0, <2>2, <2>3, RouteEntry, PublishedEffect, Publishing
  <1>3. ASSUME NEW c \in Calls, NEW u \in Users, CallOf(c, u), TerminatePublish(c)
        PROVE  JW!Next
    <2>1. /\ routeQ' = Append(routeQ, Terminated(u)) /\ UNCHANGED notifQ
          /\ announced' = [announced EXCEPT ![u] = NoEntry]
      BY <1>3 DEF TerminatePublish, CallOf
    <2>2. \A v \in Users \ {u} : Excused(v)' <=> Excused(v)
      BY <1>0, <1>3, CallExcusesItsUser DEF CallGoesOn
    <2>. QED
      BY <1>0, <2>1, <2>2, TerminatedEffect, Publishing
  <1>4. CASE RecalcAnnounce
    <2>1. recalc.user \in Users /\ recalc.best \in Routes
      BY <1>0, <1>4, RequestHandled
      DEF RecalcAnnounce, Handling, PlannerInv, LocalsOK, Routes
    <2>2. /\ routeQ' = Append(routeQ, Created(recalc.user, recalc.best))
          /\ announced' = [announced EXCEPT ![recalc.user] = Keys(recalc.best)]
          /\ UNCHANGED <<notifQ, rpc, torn>>
      BY <1>4 DEF RecalcAnnounce, PublishCreated
    <2>3. \A v \in Users \ {recalc.user} : Excused(v)' <=> Excused(v)
      BY <2>2, <1>0 DEF Excused, CallOf
    <2>. QED
      BY <1>0, <2>1, <2>2, <2>3, RouteEntry, PublishedEffect, Publishing
  <1>5. ASSUME NEW c \in Calls, NEW u \in Users, CallOf(c, u),
               \/ ServeSave(c) \/ ServeSaveFails(c) \/ AcceptPublishFails(c)
               \/ TerminatePublishFails(c) \/ TerminateDelete(c) \/ TerminateDeleteFails(c)
        PROVE  JW!Next
    <2>1. UNCHANGED <<routeQ, notifQ, announced>>
      BY <1>5
      DEF ServeSave, ServeSaveFails, AcceptPublishFails, TerminatePublishFails,
          TerminateDelete, TerminateDeleteFails, busVars
    <2>2. Kept
      BY <1>0, <1>5, QuietCallExcuses
    <2>. QED
      BY <1>0, <2>1, <2>2, QuietStep
  <1>6. ASSUME NEW c \in Calls, NEW u \in Users,
               \/ \E f \in Favourites :
                    AcceptSavedRouteRequest(c, u, f) \/ AcceptSaveFails(c, u, f)
               \/ TerminateRoute(c, u)
        PROVE  JW!Next
    <2>1. UNCHANGED <<routeQ, notifQ, announced>>
      BY <1>6 DEF AcceptSavedRouteRequest, AcceptSaveFails, TerminateRoute, busVars
    <2>2. Kept
      BY <1>0, <1>6, QuietCallExcuses
    <2>. QED
      BY <1>0, <2>1, <2>2, QuietStep
  <1>7. CASE \/ RecalcRead \/ RecalcDelete \/ PlannerRestart
             \/ \E j \in Planned : RecalcPlan(j)
    <2>1. UNCHANGED <<routeQ, notifQ, announced, rpc>> /\ torn \subseteq torn'
      BY <1>7
      DEF RecalcRead, RecalcDelete, RecalcPlan, PlannerRestart, TornByRead, Tear, busVars
    <2>2. Kept
      BY <2>1, <1>0 DEF Excused, CallOf
    <2>. QED
      BY <1>0, <2>1, <2>2, QuietStep
  <1>8. CASE RecalcSave
    <2>1. /\ UNCHANGED <<routeQ, notifQ, announced, rpc>>
          /\ torn' = torn \ {u \in {recalc.user} : ~Calling(u)}
      BY <1>8 DEF RecalcSave, busVars
    <2>2. PICK w \in Users : w = recalc.user /\ RequestPending(w)
      <3>1. notifQ \in Seq(Users) /\ notifQ # <<>> /\ Head(notifQ) = recalc.user
        BY <1>0, <1>8
        DEF RecalcSave, Handling, PlannerInv, TypeOK, BusTypeOK, RecalcOwnsHead
      <3>2. 1 \in DOMAIN notifQ /\ notifQ[1] = recalc.user /\ recalc.user \in Users
        BY <3>1
      <3>. QED
        BY <3>2 DEF RequestPending
    <2>3. \A v \in Users \ {w} : Excused(v)' <=> Excused(v)
      BY <2>1, <2>2, <1>0 DEF Excused, CallOf
    <2>4. CASE Excused(w) => Excused(w)'
      BY <1>0, <2>1, <2>3, <2>4, QuietStep
    <2>5. CASE ~(Excused(w) => Excused(w)')
      <3>1. \A v \in Users : BeingRerouted(v)' <=> BeingRerouted(v)
        BY <1>0, <2>1, SameRequests DEF notificationVars
      <3>2. \A v \in Users : Forecast(v)' = Forecast(v)
        BY <1>0, <2>1, SameForecast DEF notificationVars
      <3>. QED
        BY <1>0, <2>1, <2>2, <2>3, <2>5, <3>1, <3>2, RecoverStep DEF BeingRerouted
    <2>. QED
      BY <2>4, <2>5
  <1>9. CASE \/ RecalcReadFails \/ RecalcPlanFails \/ RecalcDeleteFails
             \/ RecalcSaveFails \/ RecalcAnnounceFails
    <2>1. /\ UNCHANGED <<routeQ, announced, rpc>> /\ torn \subseteq torn'
          /\ notifQ' = Nack(notifQ)
      BY <1>9
      DEF RecalcReadFails, RecalcPlanFails, RecalcDeleteFails, RecalcSaveFails,
          RecalcAnnounceFails, Handling, Finish, Tear, plannerVars
    <2>2. notifQ # <<>>
      BY <1>0, <1>9
      DEF RecalcReadFails, RecalcPlanFails, RecalcDeleteFails, RecalcSaveFails,
          RecalcAnnounceFails, Handling, PlannerInv, RecalcOwnsHead
    <2>3. Kept
      BY <2>1, <1>0 DEF Excused, CallOf
    <2>. QED
      BY <1>0, <2>1, <2>2, <2>3, QuietStep
  <1>10. CASE RecalcSkip
    <2>1. /\ UNCHANGED <<routeQ, announced, rpc, recalc, chosen>> /\ recalc.at = "idle"
          /\ notifQ # <<>> /\ notifQ' = Ack(notifQ) /\ chosen[Head(notifQ)] = NoRoute
          /\ torn' = torn \cup {v \in {Head(notifQ)} : Calling(v)}
      BY <1>10 DEF RecalcSkip, Handling, TornByRead, Tear
    <2>2. PICK w \in Users : w = Head(notifQ)
      BY <1>0, <2>1 DEF PlannerInv, TypeOK, BusTypeOK
    <2>3. Kept
      BY <2>1, <1>0 DEF Excused, CallOf
    <2>4. CASE Calling(w)
      <3>1. Excused(w)'
        BY <2>1, <2>2, <2>4 DEF Excused, CallOf
      <3>. QED
        BY <1>0, <2>1, <2>2, <2>3, <3>1, AnswerStep
    <2>5. CASE ~Calling(w)
      <3>1. \A v \in Users : Excused(v)' <=> Excused(v)
        BY <1>0, <2>1, <2>2, <2>5 DEF Excused, CallOf
      <3>2. ~Unwatched(w)
        <4>. SUFFICES ASSUME Applied(w), ~Excused(w), w \notin strayed PROVE active[w] = announced[w]
          BY DEF Unwatched
        <4>1. announced[w] = NoEntry
          BY <1>0, <2>1, <2>2, <2>5
          DEF Excused, PlannerInv, UpdatesInStep, ProgressOf, Matching, EntryOf, Recalculating,
              Settled
        <4>. QED
          BY <4>1 DEF SystemInv, TableFollows
      <3>. QED
        BY <1>0, <2>1, <2>2, <2>3, <3>1, <3>2, AnswerStep
    <2>. QED
      BY <2>4, <2>5
  <1>11. CASE RecalcNotify
    <2>1. /\ UNCHANGED <<routeQ, announced, rpc, torn>> /\ recalc.at = "notify"
          /\ notifQ' = Ack(notifQ)
      BY <1>11 DEF RecalcNotify, Handling, Finish
    <2>2. notifQ # <<>>
      BY <1>0, <2>1 DEF PlannerInv, RecalcOwnsHead
    <2>3. PICK w \in Users : w = recalc.user /\ w = Head(notifQ)
      BY <1>0, <2>1, RequestHandled DEF PlannerInv, RecalcOwnsHead
    <2>4. \A v \in Users : Excused(v)' <=> Excused(v)
      BY <1>0, <2>1 DEF Excused, CallOf
    <2>5. Unwatched(w) => RequestToCome(w)
      BY <2>1, <2>3 DEF SystemInv, LossIsOwedAfter
    <2>. QED
      BY <1>0, <2>1, <2>2, <2>3, <2>4, <2>5, AnswerStep
  <1>12. CASE PlannerCrash \/ \E c \in Calls, f \in Favourites : AcceptPanics(c, f)
    <2>1. /\ UNCHANGED <<routeQ, notifQ, announced>> /\ torn' = torn \cup HalfDone
      BY <1>12 DEF PlannerCrash, AcceptPanics, PlannerDown, Tear, busVars
    <2>2. Kept
      BY <2>1, <1>0 DEF HalfDone, Excused, CallOf
    <2>. QED
      BY <1>0, <2>1, <2>2, QuietStep
  <1>13. ASSUME NEW c \in Calls, NEW u \in Users, CallStarts(c, u)
         PROVE  JW!Next
    BY <1>1, <1>6, <1>13 DEF CallStarts, FetchRoutes
  <1>14. ASSUME NEW c \in Calls, CallGoesOn(c)
         PROVE  JW!Next
    <2>1. PICK u \in Users : CallOf(c, u)
      BY <1>0, <1>14, CallGoesOnHasUser
    <2>. QED
      BY <1>2, <1>3, <1>5, <1>14, <2>1 DEF CallGoesOn
  <1>15. CASE RecalcStep
    BY <1>4, <1>7, <1>8, <1>9, <1>10, <1>11, <1>15 DEF RecalcStep, FetchRoutes
  <1>. QED
    BY <1>7, <1>12, <1>13, <1>14, <1>15 DEF Planner, PlannerStep
-----------------------------------------------------------------------------
\* A route event is given back: its user strays if it went behind others of his, and
\* nothing changes for him otherwise, since it is still the last.
LEMMA FailedEventMaps ==
  ASSUME SystemInv, SystemInv', Notifier, N!EventFails
  PROVE  JW!Next \/ UNCHANGED JW!vars
  <1>. USE DEF N!busVars
  <1>1. /\ UNCHANGED <<notifQ, rpc, announced, torn, dropped, traffic>>
        /\ routeQ # <<>> /\ routeQ' = Nack(routeQ) /\ strayed' = strayed \cup Overtaken
    BY DEF Notifier, N!EventFails, N!Nack, Nack, plannerVars
  <1>2. PlannerInv /\ WatchShape /\ routeQ \in Seq(Events)
    BY UpcomingQueue DEF SystemInv
  <1>3. PICK w \in Users : w = Head(routeQ).user
    BY <1>1, <1>2, DeliveredUser
  <1>4. \A u \in Users : /\ Excused(u)' <=> Excused(u)
                         /\ BeingRerouted(u)' <=> BeingRerouted(u)
    BY <1>1 DEF Excused, CallOf, BeingRerouted, RequestPending
  <1>5. ASSUME NEW u \in Users, u \notin Overtaken
        PROVE  Forecast(u)' = Forecast(u)
    <2>1. /\ Positions(Nack(routeQ), u) = {} <=> Positions(routeQ, u) = {}
          /\ \A x : LastSays(routeQ, u, x) => LastSays(Nack(routeQ), u, x)
      BY <1>1, <1>2, <1>5, RotatedEvent DEF Overtaken
    <2>2. active'[u] = active[u] \/ Positions(routeQ, u) # {}
      <3>1. CASE u = w
        <4>1. 1 \in Positions(routeQ, w)
          BY <1>1, <1>2, <1>3 DEF Positions
        <4>. QED
          BY <3>1, <4>1
      <3>2. CASE u # w
        BY <1>2, <1>3, <3>2 DEF N!EventFails, WatchShape
      <3>. QED
        BY <3>1, <3>2
    <2>. QED
      BY <1>1, <2>1, <2>2, ForecastKept
  <1>6. CASE w \in Overtaken
    <2>1. Overtaken = {w} /\ Forecast(w)' \in Entries
      BY <1>3, <1>6, ForecastIsEntryNext DEF Overtaken
    <2>. QED
      BY <1>1, <1>4, <1>5, <2>1, StrayStep
  <1>7. CASE w \notin Overtaken
    <2>1. Overtaken = {}
      BY <1>3, <1>7 DEF Overtaken
    <2>. QED
      BY <1>1, <1>4, <1>5, <2>1, Stutter
  <1>. QED
    BY <1>6, <1>7

\* Every step of Notification and of the services around it.
LEMMA NotifierMaps ==
  ASSUME SystemInv, SystemInv', Notifier \/ Surroundings
  PROVE  JW!Next \/ UNCHANGED JW!vars
  <1>a. CASE Notifier /\ N!EventFails
    BY <1>a, FailedEventMaps
  <1>. SUFFICES ASSUME Notifier => ~N!EventFails PROVE JW!Next \/ UNCHANGED JW!vars
    BY <1>a
  <1>. USE DEF N!busVars
  <1>0. /\ UNCHANGED <<chosen, rpc, recalc, plannerUp, announced, torn, strayed>>
        /\ PlannerInv /\ WatchShape /\ active \in [Users -> Entries]
    BY DEF Notifier, Surroundings, plannerVars, SystemInv, WatchShape
  <1>1. CASE /\ UNCHANGED <<routeQ, notifQ, active, dropped>> /\ traffic'.user = traffic.user
    <2>1. \A u \in Users : /\ Forecast(u)' = Forecast(u)
                           /\ Excused(u)' <=> Excused(u)
                           /\ BeingRerouted(u)' <=> BeingRerouted(u)
      BY <1>0, <1>1, SameForecast DEF Excused, CallOf, BeingRerouted, RequestPending
    <2>. QED
      BY <1>0, <2>1, Stutter
  <1>2. CASE Uneventful
    BY <1>0, <1>1, <1>2, NothingChanges
  <1>3. CASE \/ (\E k \in Labels : N!PurgeGet(k) \/ N!PurgeMiss(k))
             \/ N!PurgeSet \/ N!PurgeDone
    <2>1. UNCHANGED <<routeQ, notifQ, active, dropped, traffic>>
      BY <1>3 DEF N!PurgeGet, N!PurgeMiss, N!PurgeSet, N!PurgeDone
    <2>. QED
      BY <1>1, <2>1
  <1>4. ASSUME NEW w \in Users, N!TrafficUnregister(w) \/ N!TrafficUnregisterFails(w)
        PROVE  JW!Next
    <2>1. /\ UNCHANGED <<routeQ, notifQ, dropped>>
          /\ active' \in {active, [active EXCEPT ![w] = NoEntry]}
      BY <1>4 DEF N!TrafficUnregister, N!TrafficUnregisterFails, N!NoEntry, NoEntry
    <2>2. traffic.user = NoUser /\ traffic'.user = w
      BY <1>0, <1>4
      DEF N!TrafficUnregister, N!TrafficUnregisterFails, N!Alerting, WatchShape
    <2>4. /\ Forecast(w)' \in {Forecast(w), NoEntry}
          /\ \A u \in Users \ {w} : Forecast(u)' = Forecast(u)
      BY <1>0, <2>1 DEF Forecast
    <2>5. /\ BeingRerouted(w)'
          /\ \A u \in Users \ {w} : BeingRerouted(u)' <=> BeingRerouted(u)
      BY <2>1, <2>2, BusAssumption DEF BeingRerouted, RequestPending
    <2>6. \A u \in Users : Excused(u)' <=> Excused(u)
      BY <1>0, <2>1 DEF Excused, CallOf
    <2>. QED
      BY <1>0, <2>4, <2>5, <2>6, DisruptStep
  <1>5. CASE N!TrafficPublishCritical
    <2>1. /\ UNCHANGED <<routeQ, active, dropped>>
          /\ notifQ' = Append(notifQ, traffic.user)
      BY <1>5 DEF N!TrafficPublishCritical
    <2>2. traffic.user \in Users /\ traffic'.user = NoUser
      BY <1>0, <1>5 DEF N!TrafficPublishCritical, N!Alerting, WatchShape
    <2>3. /\ notifQ \in Seq(Users)
          /\ DOMAIN notifQ = 1 .. Len(notifQ) /\ Len(notifQ) \in Nat
          /\ DOMAIN notifQ' = 1 .. Len(notifQ) + 1
          /\ notifQ'[Len(notifQ) + 1] = traffic.user
          /\ \A i \in 1 .. Len(notifQ) : notifQ'[i] = notifQ[i]
      BY <1>0, <2>1, <2>2 DEF PlannerInv, TypeOK, BusTypeOK
    <2>4. ASSUME NEW u \in Users
          PROVE  RequestPending(u)' <=> RequestPending(u) \/ traffic.user = u
      BY <2>3 DEF RequestPending
    <2>5. \A u \in Users : BeingRerouted(u)' <=> BeingRerouted(u)
      BY <2>2, <2>4, BusAssumption DEF BeingRerouted
    <2>6. \A u \in Users : Forecast(u)' = Forecast(u) /\ (Excused(u)' <=> Excused(u))
      BY <1>0, <2>1, SameForecast DEF Excused, CallOf
    <2>. QED
      BY <1>0, <2>5, <2>6, Stutter
  <1>6. CASE N!EventCreated \/ N!EventTerminated
    <2>1. /\ UNCHANGED <<routeQ, notifQ, traffic>> /\ routeQ # <<>>
          /\ dropped' \in {dropped, dropped \ {Head(routeQ).user}}
      BY <1>6 DEF N!EventCreated, N!EventTerminated, N!Delivered, N!Handling
    <2>2. PICK w \in Users : w = Head(routeQ).user
      BY <1>0, <2>1, DeliveredUser
    <2>3. /\ 1 \in Positions(routeQ, w)
          /\ \A u \in Users \ {w} : active'[u] = active[u]
      <3>1. routeQ \in Seq(Events)
        BY <1>0, UpcomingQueue
      <3>2. 1 \in Positions(routeQ, w)
        BY <2>1, <2>2, <3>1 DEF Positions
      <3>. QED
        BY <1>0, <1>6, <2>2, <3>2
        DEF N!EventCreated, N!EventTerminated, N!Delivered
    <2>5. /\ \A u \in Users : Forecast(u)' = Forecast(u)
          /\ Forecast(w) = announced[w] \/ w \in strayed
      BY <2>1, <2>3, ForecastAnnounced DEF Forecast
    <2>6. \A u \in Users : BeingRerouted(u)' <=> BeingRerouted(u)
      BY <2>1 DEF BeingRerouted, RequestPending
    <2>7. /\ \A u \in Users \ {w} : Excused(u)' <=> Excused(u)
          /\ Excused(w)' => Excused(w)
      BY <1>0, <2>1, <2>2 DEF Excused, CallOf
    <2>8. CASE Excused(w) => Excused(w)'
      BY <1>0, <2>5, <2>6, <2>7, <2>8, Stutter
    <2>9. CASE ~(Excused(w) => Excused(w)')
      BY <1>0, <2>5, <2>6, <2>7, <2>9, RecoverStep
    <2>. QED
      BY <2>8, <2>9
  <1>7. CASE N!EventAck
    <2>1. /\ UNCHANGED <<notifQ, active, dropped, traffic>> /\ routeQ' = Tail(routeQ)
          /\ routeQ # <<>> /\ routeQ \in Seq(Events)
      BY <1>0, <1>7, UpcomingQueue DEF N!EventAck, N!Handling, N!Ack, WatchShape
    <2>2. PICK w \in Users : w = Head(routeQ).user
      BY <1>0, <2>1, DeliveredUser
    <2>3. \A u \in Users : /\ Excused(u)' <=> Excused(u)
                           /\ BeingRerouted(u)' <=> BeingRerouted(u)
      BY <1>0, <2>1 DEF Excused, CallOf, BeingRerouted, RequestPending
    <2>4. ASSUME NEW u \in Users \ {w}
          PROVE  Forecast(u)' = Forecast(u)
      <3>1. /\ Positions(Tail(routeQ), u) = {} <=> Positions(routeQ, u) = {}
            /\ \A x : LastSays(routeQ, u, x) => LastSays(Tail(routeQ), u, x)
        BY <2>1, <2>2, TakenEvent
      <3>. QED
        BY <2>1, <3>1, ForecastKept
    <2>5. CASE w \in strayed
      <3>1. Forecast(w)' \in Entries /\ strayed' = strayed \cup {w}
        BY <1>0, <2>5, ForecastIsEntryNext
      <3>. QED
        BY <1>0, <2>3, <2>4, <3>1, StrayStep
    <2>. SUFFICES ASSUME w \notin strayed PROVE JW!Next \/ UNCHANGED JW!vars
      BY <2>5
    <2>6. Forecast(w) = announced[w]
      <3>1. 1 \in Positions(routeQ, w)
        BY <2>1, <2>2 DEF Positions
      <3>. QED
        BY <3>1, ForecastAnnounced
    <2>7. \/ Forecast(w)' = announced[w]
          \/ Forecast(w)' = NoEntry /\ (BeingRerouted(w)' \/ Excused(w)')
      BY <1>0, FollowsNext
    <2>8. CASE Forecast(w)' = Forecast(w)
      BY <1>0, <2>3, <2>4, <2>8, Stutter
    <2>9. CASE Forecast(w)' # Forecast(w)
      <3>1. Forecast(w)' = NoEntry /\ (BeingRerouted(w) \/ Excused(w))
        BY <2>3, <2>6, <2>7, <2>9
      <3>. QED
        BY <1>0, <2>3, <2>4, <3>1, LapseStep
    <2>. QED
      BY <2>8, <2>9
  <1>8. CASE N!NotificationDown
    <2>1. /\ UNCHANGED <<routeQ, notifQ, active>> /\ traffic'.user = NoUser
          /\ dropped' = dropped \cup ({traffic.user} \ {NoUser})
      BY <1>8 DEF N!NotificationDown, N!TrafficIdle
    <2>. DEFINE S == {traffic.user} \ {NoUser}
    <2>2. S \in SUBSET Users
      BY <1>0 DEF WatchShape
    <2>3. \A u \in Users : /\ Forecast(u)' = Forecast(u)
                           /\ Excused(u)' <=> Excused(u) \/ u \in S
      BY <1>0, <2>1, SameForecast DEF Excused, CallOf
    <2>4. \A u \in Users : /\ BeingRerouted(u)' => BeingRerouted(u)
                           /\ BeingRerouted(u) => BeingRerouted(u)' \/ u \in S
      BY <2>1, BusAssumption DEF BeingRerouted, RequestPending
    <2>. QED
      BY <1>0, <2>2, <2>3, <2>4, FailStep
  <1>. QED
    BY <1>2, <1>3, <1>4, <1>5, <1>6, <1>7, <1>8
    DEF Notifier, Surroundings, N!NotificationStep, N!TrafficStep, N!EventStep,
        N!TrafficPublishFails, N!EventTerminatedPanics, N!NotificationCrash, Uneventful

-----------------------------------------------------------------------------
\* The two services and their queues implement JourneyWatch, for any number of users,
\* journeys and alerts.
THEOREM WatchRefined == SystemSpec => WatchImplemented
  <1>1. SystemInit => JW!Init
    <2>. SUFFICES ASSUME SystemInit PROVE JW!Init
      OBVIOUS
    <2>1. /\ routeQ = <<>> /\ notifQ = <<>> /\ announced = [u \in Users |-> NoEntry]
          /\ active = [u \in Users |-> NoEntry] /\ traffic.user = NoUser
          /\ torn = {} /\ dropped = {} /\ strayed = {} /\ rpc = [c \in Calls |-> Idle]
      BY DEF SystemInit, BusInit, PlannerInit, N!NotificationInit, N!NoEntry, NoEntry,
             N!TrafficIdle
    <2>2. \A u \in Users : /\ Forecast(u) = NoEntry
                           /\ ~BeingRerouted(u) /\ ~Excused(u)
      BY <2>1, BusAssumption
      DEF Forecast, Positions, BeingRerouted, RequestPending, Excused, CallOf, Idle
    <2>. QED
      BY <2>1, <2>2 DEF JW!Init
  <1>2. SystemInv /\ SystemInv' /\ [SystemNext]_systemVars => [JW!Next]_(JW!vars)
    <2>. SUFFICES ASSUME SystemInv, SystemInv', [SystemNext]_systemVars
                  PROVE  JW!Next \/ UNCHANGED JW!vars
      OBVIOUS
    <2>1. CASE Planner
      BY <2>1, PlannerMaps
    <2>2. CASE Notifier \/ Surroundings
      BY <2>2, NotifierMaps
    <2>3. CASE UNCHANGED systemVars
      <3>1. /\ UNCHANGED <<announced, torn, rpc, routeQ, notifQ, active, dropped, traffic, strayed>>
        BY <2>3 DEF systemVars, vars, busVars, plannerVars, notificationVars
      <3>2. \A u \in Users : /\ Forecast(u)' = Forecast(u)
                             /\ Excused(u)' <=> Excused(u)
                             /\ BeingRerouted(u)' <=> BeingRerouted(u)
        BY <3>1 DEF Forecast, Excused, CallOf, BeingRerouted, RequestPending
      <3>. QED
        BY <3>1, <3>2, Stutter
    <2>. QED
      BY <2>1, <2>2, <2>3 DEF SystemNext
  <1>. QED
    BY <1>1, <1>2, SystemInvariant, PTL DEF SystemSpec, WatchImplemented, JW!Spec

\* What JourneyWatch promises, the two services keep.
THEOREM SystemNeverWrong == SystemSpec => []JW!NeverWrong
  <1>1. JW!Spec => [](JW!TypeOK /\ JW!NeverWrong)
    BY JW!JourneyNeverWrong, NoEntryIsEntry
  <1>. QED
    BY <1>1, WatchRefined, PTL DEF WatchImplemented
=============================================================================
