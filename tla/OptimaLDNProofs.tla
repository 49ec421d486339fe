-------------------------- MODULE OptimaLDNProofs --------------------------
(***************************************************************************)
(* What holds of RoutePlanner and Notification together, for every set of  *)
(* users, routes, labels and alerts, every bound and every choice of       *)
(* faults: the events in flight bring the watch to the announced journey,  *)
(* for every user whose events come in the order they were sent in.        *)
(***************************************************************************)
EXTENDS OptimaLDN, RoutePlannerProofs, WellFoundedInduction

-----------------------------------------------------------------------------
\* The events that Notification has still to apply to its table: all of routeQ, but
\* for the head once its handler has written.
Upcoming == IF events.at = "idle" THEN routeQ ELSE Tail(routeQ)

\* If q has an event for u, the last one leaves him with entry e.
LastSays(q, u, e) ==
  \A i \in Positions(q, u) :
    (\A j \in Positions(q, u) : j <= i) => Effect(q[i]) = e

\* What the locals of Notification are, as far as this argument needs it.
WatchShape ==
  /\ active \in [Users -> Entries]
  /\ traffic = [at |-> traffic.at, kind |-> traffic.kind, lines |-> traffic.lines,
                users |-> traffic.users, user |-> traffic.user]
  /\ traffic.user \in Users \cup {NoUser}
  /\ traffic.at = "publish" <=> traffic.user # NoUser
  /\ events = [at |-> events.at, user |-> events.user, keys |-> events.keys,
               key |-> events.key, snap |-> events.snap]
  /\ events.at # "idle" => routeQ # <<>>

\* The last event in flight for a user is the last announcement.
EventsMatch == \A u \in Users \ strayed : LastSays(routeQ, u, announced[u])

Applied(u) == Positions(Upcoming, u) = {}

\* With no event to come, a user has the entry last announced or none.
TableFollows ==
  \A u \in Users \ strayed : Applied(u) => active[u] \in {announced[u], NoEntry}

Unwatched(u) ==
  Applied(u) /\ active[u] # announced[u] /\ ~Excused(u) /\ u \notin strayed

\* A user without the entry he should have is owed a new journey ...
LossIsOwed == \A u \in Users : Unwatched(u) => BeingRerouted(u)

\* ... and not by the request whose handling is about to end.
RequestToCome(u) == traffic.user = u \/ \E i \in DOMAIN notifQ : i # 1 /\ notifQ[i] = u

LossIsOwedAfter ==
  \A u \in Users :
    Unwatched(u) /\ recalc.at = "notify" /\ recalc.user = u => RequestToCome(u)

\* The inductive invariant.
SystemInv ==
  /\ PlannerInv /\ WatchShape /\ strayed \subseteq Users
  /\ EventsMatch /\ TableFollows /\ LossIsOwed /\ LossIsOwedAfter

-----------------------------------------------------------------------------
\* Facts about a queue of events: where the events of a user are after one is put at
\* the end or taken from the front, and what the last of them says.
LEMMA TailOfQueue ==
  ASSUME NEW q \in Seq(Events), q # <<>>
  PROVE  /\ Tail(q) \in Seq(Events)
         /\ \A e \in Events : Tail(Append(q, e)) = Append(Tail(q), e)
  OBVIOUS

LEMMA AppendedEvent ==
  ASSUME NEW q \in Seq(Events), NEW e \in Events
  PROVE  /\ Positions(Append(q, e), e.user) # {}
         /\ LastSays(Append(q, e), e.user, Effect(e))
         /\ \A u \in Users \ {e.user} :
              /\ Positions(Append(q, e), u) = Positions(q, u)
              /\ \A x : LastSays(q, u, x) => LastSays(Append(q, e), u, x)
  <1>1. /\ Len(Append(q, e)) = Len(q) + 1
        /\ DOMAIN Append(q, e) = 1 .. Len(q) + 1
        /\ DOMAIN q = 1 .. Len(q)
        /\ Append(q, e)[Len(q) + 1] = e
        /\ \A i \in 1 .. Len(q) : Append(q, e)[i] = q[i]
    OBVIOUS
  <1>2. Len(q) + 1 \in Positions(Append(q, e), e.user)
    BY <1>1 DEF Positions
  <1>3. LastSays(Append(q, e), e.user, Effect(e))
    BY <1>1, <1>2 DEF Positions, LastSays
  <1>4. ASSUME NEW u \in Users \ {e.user}
        PROVE  Positions(Append(q, e), u) = Positions(q, u)
    BY <1>1 DEF Positions
  <1>5. ASSUME NEW u \in Users \ {e.user}, NEW x, LastSays(q, u, x)
        PROVE  LastSays(Append(q, e), u, x)
    <2>1. \A i \in Positions(q, u) : Append(q, e)[i] = q[i]
      BY <1>1 DEF Positions
    <2>. QED
      BY <1>4, <1>5, <2>1 DEF LastSays
  <1>. QED
    BY <1>2, <1>3, <1>4, <1>5

LEMMA TakenEvent ==
  ASSUME NEW q \in Seq(Events), q # <<>>, NEW u \in Users
  PROVE  /\ \A x : LastSays(q, u, x) => LastSays(Tail(q), u, x)
         /\ Head(q).user # u /\ Positions(Tail(q), u) = {} => Positions(q, u) = {}
         /\ Positions(q, u) = {} => Positions(Tail(q), u) = {}
         /\ \A x : /\ Head(q).user = u /\ Positions(Tail(q), u) = {}
                  /\ LastSays(q, u, x)
                  => Effect(Head(q)) = x
  <1>1. /\ Len(q) \in Nat \ {0}
        /\ DOMAIN q = 1 .. Len(q)
        /\ DOMAIN Tail(q) = 1 .. Len(q) - 1
        /\ \A i \in 1 .. Len(q) - 1 : Tail(q)[i] = q[i + 1]
        /\ Head(q) = q[1]
    OBVIOUS
  <1>2. \A i \in 1 .. Len(q) - 1 : i \in Positions(Tail(q), u) <=> i + 1 \in Positions(q, u)
    BY <1>1 DEF Positions
  <1>3. Positions(q, u) \subseteq 1 .. Len(q) /\ Positions(Tail(q), u) \subseteq 1 .. Len(q) - 1
    BY <1>1 DEF Positions
  <1>4. ASSUME NEW x, LastSays(q, u, x)
        PROVE  LastSays(Tail(q), u, x)
    <2>. SUFFICES ASSUME NEW i \in Positions(Tail(q), u),
                         \A j \in Positions(Tail(q), u) : j <= i
                  PROVE  Effect(Tail(q)[i]) = x
      BY DEF LastSays
    <2>1. i + 1 \in Positions(q, u) /\ Tail(q)[i] = q[i + 1]
      BY <1>1, <1>2, <1>3
    <2>2. ASSUME NEW j \in Positions(q, u)
          PROVE  j <= i + 1
      <3>1. j \in 1 .. Len(q) /\ i \in 1 .. Len(q) - 1
        BY <1>3
      <3>2. CASE j = 1
        BY <3>1, <3>2, <1>1
      <3>3. CASE j # 1
        <4>1. j - 1 \in 1 .. Len(q) - 1 /\ (j - 1) + 1 = j
          BY <3>1, <3>3, <1>1
        <4>2. j - 1 \in Positions(Tail(q), u)
          BY <4>1, <1>2
        <4>. QED
          BY <4>2, <3>1, <1>1
      <3>. QED
        BY <3>2, <3>3
    <2>. QED
      BY <1>4, <2>1, <2>2 DEF LastSays
  <1>5. ASSUME Head(q).user # u, Positions(Tail(q), u) = {}, NEW i \in Positions(q, u)
        PROVE  FALSE
    <2>1. i \in 1 .. Len(q) /\ q[i].user = u
      BY <1>3 DEF Positions
    <2>2. i # 1
      BY <1>1, <1>5, <2>1
    <2>3. i - 1 \in 1 .. Len(q) - 1 /\ (i - 1) + 1 = i
      BY <1>1, <2>1, <2>2
    <2>. QED
      BY <1>2, <1>5, <2>3
  <1>6. Positions(q, u) = {} => Positions(Tail(q), u) = {}
    BY <1>2, <1>3
  <1>7. ASSUME NEW x, Head(q).user = u, Positions(Tail(q), u) = {}, LastSays(q, u, x)
        PROVE  Effect(Head(q)) = x
    <2>1. 1 \in Positions(q, u)
      BY <1>1, <1>7 DEF Positions
    <2>2. ASSUME NEW i \in Positions(q, u)
          PROVE  i <= 1
      <3>1. i \in 1 .. Len(q)
        BY <1>3
      <3>2. i # 1 => i - 1 \in 1 .. Len(q) - 1 /\ (i - 1) + 1 = i
        BY <1>1, <3>1
      <3>3. i = 1
        BY <1>2, <1>7, <3>2
      <3>. QED
        BY <3>3
    <2>. QED
      BY <1>1, <1>7, <2>1, <2>2 DEF LastSays
  <1>. QED
    BY <1>4, <1>5, <1>6, <1>7

\* An event given back goes behind the others: it changes what the last one says only
\* for its own user, and only if others of his are waiting.
LEMMA RotatedEvent ==
  ASSUME NEW q \in Seq(Events), q # <<>>, NEW u \in Users
  PROVE  /\ Nack(q) \in Seq(Events)
         /\ Positions(Nack(q), u) = {} <=> Positions(q, u) = {}
         /\ \A x : /\ LastSays(q, u, x)
                  /\ ~(u = Head(q).user /\ Positions(Tail(q), u) # {})
                  => LastSays(Nack(q), u, x)
  <1>1. Head(q) \in Events /\ Tail(q) \in Seq(Events) /\ Nack(q) = Append(Tail(q), Head(q))
    BY DEF Nack
  <1>2. Nack(q) \in Seq(Events)
    BY <1>1
  <1>3. CASE u # Head(q).user
    <2>1. /\ Positions(Nack(q), u) = Positions(Tail(q), u)
          /\ \A x : LastSays(Tail(q), u, x) => LastSays(Nack(q), u, x)
      BY <1>1, <1>3, AppendedEvent
    <2>. QED
      BY <1>2, <1>3, <2>1, TakenEvent
  <1>4. CASE u = Head(q).user
    <2>1. /\ Positions(Nack(q), u) # {}
          /\ LastSays(Nack(q), u, Effect(Head(q)))
      BY <1>1, <1>4, AppendedEvent
    <2>2. 1 \in Positions(q, u)
      BY <1>4 DEF Positions
    <2>. QED
      BY <1>2, <1>4, <2>1, <2>2, TakenEvent
  <1>. QED
    BY <1>3, <1>4

LEMMA LastPosition ==
  ASSUME NEW q \in Seq(Events), NEW u \in Users, Positions(q, u) # {}
  PROVE  \E i \in Positions(q, u) : \A j \in Positions(q, u) : j <= i
  <1>. DEFINE S == {k \in Nat : k <= Len(q) /\ Len(q) - k \in Positions(q, u)}
  <1>1. Positions(q, u) \subseteq 1 .. Len(q) /\ Len(q) \in Nat
    BY DEF Positions
  <1>2. S # {}
    <2>1. PICK i \in Positions(q, u) : TRUE
      OBVIOUS
    <2>2. /\ Len(q) - i \in Nat /\ Len(q) - i <= Len(q)
          /\ Len(q) - (Len(q) - i) = i
      BY <1>1, <2>1
    <2>. QED
      BY <2>1, <2>2
  <1>. DEFINE R == {ss \in Nat \X Nat : ss[1] < ss[2]}
  <1>3. PICK k \in S : \A m \in S : k <= m
    <2>1. IsWellFoundedOn(R, Nat)
      BY NatLessThanWellFounded DEF OpToRel
    <2>2. PICK k \in S : \A m \in S : ~ (<<m, k>> \in R)
      BY <1>2, <2>1, WFMin
    <2>3. ASSUME NEW m \in S PROVE k <= m
      <3>1. ~ (<<m, k>> \in R) /\ m \in Nat /\ k \in Nat
        BY <2>2
      <3>2. ~ (m < k)
        BY <3>1
      <3>. QED
        BY <3>1, <3>2
    <2>. QED
      BY <2>3
  <1>4. \A j \in Positions(q, u) : j <= Len(q) - k
    <2>. SUFFICES ASSUME NEW j \in Positions(q, u) PROVE j <= Len(q) - k
      OBVIOUS
    <2>1. /\ Len(q) - j \in Nat /\ Len(q) - j <= Len(q)
          /\ Len(q) - (Len(q) - j) = j
      BY <1>1
    <2>2. Len(q) - j \in S
      BY <2>1
    <2>. QED
      BY <1>1, <1>3, <2>1, <2>2
  <1>. QED
    BY <1>3, <1>4

LEMMA LastOfQueue ==
  ASSUME NEW q \in Seq(Events), NEW u \in Users, NEW x,
         Positions(q, u) # {}, LastSays(q, u, x)
  PROVE  LastEffect(q, u) = x
  BY LastPosition DEF LastSays, LastEffect

LEMMA LastSaysItself ==
  ASSUME NEW q \in Seq(Events), NEW u \in Users
  PROVE  LastSays(q, u, LastEffect(q, u))
  <1>. SUFFICES ASSUME NEW i \in Positions(q, u),
                       \A j \in Positions(q, u) : j <= i
                PROVE  Effect(q[i]) = LastEffect(q, u)
    BY DEF LastSays
  <1>. DEFINE k == CHOOSE m \in Positions(q, u) : \A j \in Positions(q, u) : j <= m
  <1>1. k \in Positions(q, u) /\ \A j \in Positions(q, u) : j <= k
    OBVIOUS
  <1>2. Positions(q, u) \subseteq 1 .. Len(q) /\ Len(q) \in Nat
    BY DEF Positions
  <1>3. k = i
    <2>1. k <= i /\ i <= k /\ k \in Nat /\ i \in Nat
      BY <1>1, <1>2
    <2>. QED
      BY <2>1
  <1>. QED
    BY <1>3 DEF LastEffect

-----------------------------------------------------------------------------
\* Notification and what surrounds it do to the planner what its open environment may
\* do: ask for a recalculation, take an event.
LEMMA PlannerSide ==
  ASSUME PlannerInv, WatchShape, [SystemNext]_systemVars
  PROVE  PlannerInv'
  <1>1. CASE Planner
    BY <1>1, StepPreserves DEF Planner, OpenNext
  <1>2. CASE UNCHANGED vars
    BY <1>2, StepPreserves
  <1>3. CASE Notifier
    <2>1. CASE N!TrafficPublishCritical
      <3>1. traffic.user \in Users
        BY <2>1 DEF N!TrafficPublishCritical, N!Alerting, WatchShape
      <3>2. Requested(traffic.user)
        BY <1>3, <2>1 DEF Notifier, N!TrafficPublishCritical, Requested
      <3>. QED
        BY <3>1, <3>2, StepPreserves DEF OpenNext
    <2>2. CASE N!EventFails \/ N!EventAck
      <3>1. EventConsumed
        BY <1>3, <2>2
        DEF Notifier, N!EventFails, N!EventAck, N!Handling, N!Ack, N!Nack, Ack, Nack,
            EventConsumed, WatchShape
      <3>. QED
        BY <3>1, StepPreserves DEF OpenNext
    <2>3. CASE ~N!TrafficPublishCritical /\ ~N!EventFails /\ ~N!EventAck
      <3>1. UNCHANGED busVars
        BY <1>3, <2>3
        DEF Notifier, N!NotificationStep, N!TrafficStep, N!EventStep, N!TrafficReceive,
            N!TrafficHit, N!TrafficScan, N!TrafficScanFails, N!TrafficFill,
            N!TrafficUnregister, N!TrafficUnregisterFails, N!TrafficPublishSudden,
            N!TrafficNextLine, N!TrafficAck, N!EventCreated, N!EventTerminated,
            N!EventTerminatedPanics, N!PurgeGet, N!PurgeMiss, N!PurgeSet, N!PurgeDone,
            N!CacheExpire, N!TrafficPublishFails, N!NotificationCrash,
            N!NotificationDown, N!NotificationRestart, N!busVars, busVars
      <3>. QED
        BY <1>3, <3>1, StepPreserves DEF Notifier, vars
    <2>. QED
      BY <2>1, <2>2, <2>3
  <1>4. CASE Surroundings
    <2>1. UNCHANGED vars
      BY <1>4
      DEF Surroundings, N!SurroundingStep, N!AlertArrives, N!UserTold, N!busVars, busVars,
          vars
    <2>. QED
      BY <2>1, StepPreserves
  <1>. QED
    BY <1>1, <1>2, <1>3, <1>4 DEF SystemNext, systemVars, vars

-----------------------------------------------------------------------------
\* The four ways a step can bear on the watch, each with the parts it preserves.
WatchInv == EventsMatch /\ TableFollows /\ LossIsOwed /\ LossIsOwedAfter

\* Upcoming is a queue of events and loses nothing when one is appended.
LEMMA UpcomingQueue ==
  ASSUME PlannerInv, WatchShape
  PROVE  routeQ \in Seq(Events) /\ Upcoming \in Seq(Events)
  <1>1. routeQ \in Seq(Events)
    BY DEF PlannerInv, TypeOK, BusTypeOK
  <1>. QED
    BY <1>1, TailOfQueue DEF Upcoming, WatchShape

\* An event is published for w: he is no longer without an event to come, and nothing
\* changes for the others.
LEMMA Announcing ==
  ASSUME PlannerInv, WatchShape, WatchInv,
         NEW w \in Users, NEW e \in Events, e.user = w,
         routeQ' = Append(routeQ, e),
         announced' = [announced EXCEPT ![w] = Effect(e)],
         UNCHANGED <<notifQ, notificationVars>>,
         \A u \in Users \ {w} : u \in strayed' <=> u \in strayed,
         \A u \in Users \ {w} : Excused(u) => Excused(u)',
         \A u \in Users \ {w} : recalc'.at = "notify" /\ recalc'.user = u
                                => recalc.at = "notify" /\ recalc.user = u
  PROVE  WatchShape' /\ WatchInv'
  <1>1. WatchShape'
    <2>1. routeQ' # <<>>
      BY UpcomingQueue
    <2>. QED
      BY <2>1 DEF WatchShape, notificationVars
  <1>2. Upcoming' = Append(Upcoming, e)
    BY UpcomingQueue, TailOfQueue DEF Upcoming, WatchShape, notificationVars
  <1>3. ~Applied(w)'
    BY <1>2, UpcomingQueue, AppendedEvent DEF Applied
  <1>4. ASSUME NEW u \in Users \ {w}
        PROVE  /\ Applied(u)' = Applied(u)
               /\ announced'[u] = announced[u] /\ active'[u] = active[u]
               /\ Unwatched(u)' => Unwatched(u)
               /\ BeingRerouted(u)' = BeingRerouted(u)
               /\ RequestToCome(u)' = RequestToCome(u)
    <2>1. Applied(u)' = Applied(u)
      BY <1>2, UpcomingQueue, AppendedEvent DEF Applied
    <2>2. announced'[u] = announced[u] /\ active'[u] = active[u]
      BY DEF notificationVars, PlannerInv, TypeOK, PlannerTypeOK
    <2>3. Unwatched(u)' => Unwatched(u)
      BY <2>1, <2>2 DEF Unwatched
    <2>. QED
      BY <2>1, <2>2, <2>3 DEF BeingRerouted, RequestPending, RequestToCome, notificationVars
  <1>5. EventsMatch'
    <2>. SUFFICES ASSUME NEW u \in Users PROVE u \notin strayed' => LastSays(routeQ', u, announced'[u])
      BY DEF EventsMatch
    <2>1. CASE u = w
      BY <2>1, UpcomingQueue, AppendedEvent DEF PlannerInv, TypeOK, PlannerTypeOK
    <2>2. CASE u # w
      BY <2>2, <1>4, UpcomingQueue, AppendedEvent DEF WatchInv, EventsMatch
    <2>. QED
      BY <2>1, <2>2
  <1>6. TableFollows'
    BY <1>3, <1>4 DEF WatchInv, TableFollows
  <1>7. LossIsOwed'
    BY <1>3, <1>4 DEF WatchInv, LossIsOwed, Unwatched
  <1>8. LossIsOwedAfter'
    BY <1>3, <1>4 DEF WatchInv, LossIsOwedAfter, Unwatched
  <1>. QED
    BY <1>1, <1>5, <1>6, <1>7, <1>8 DEF WatchInv

\* Nothing is published and nothing answered. A user who is excused no more has a
\* request in the queue.
LEMMA Working ==
  ASSUME PlannerInv, WatchShape, WatchInv,
         UNCHANGED <<routeQ, announced, notificationVars, strayed>>,
         notifQ' = notifQ \/ (notifQ # <<>> /\ notifQ' = Nack(notifQ)),
         \A u \in Users : Excused(u) => Excused(u)' \/ RequestPending(u),
         \/ recalc'.at # "notify"
         \/ recalc' = recalc /\ notifQ' = notifQ /\ \A u \in Users : Excused(u) => Excused(u)'
  PROVE  WatchShape' /\ WatchInv'
  <1>1. WatchShape'
    BY DEF WatchShape, notificationVars
  <1>2. ASSUME NEW u \in Users
        PROVE  Applied(u)' = Applied(u) /\ active'[u] = active[u]
    BY DEF Applied, Upcoming, notificationVars
  <1>3. ASSUME NEW u \in Users, RequestPending(u)
        PROVE  RequestPending(u)'
    <2>1. notifQ \in Seq(Users)
      BY DEF PlannerInv, TypeOK, BusTypeOK
    <2>2. PICK i \in DOMAIN notifQ : notifQ[i] = u
      BY <1>3 DEF RequestPending
    <2>3. CASE notifQ # <<>> /\ notifQ' = Nack(notifQ)
      <3>1. /\ DOMAIN notifQ = 1 .. Len(notifQ) /\ Len(notifQ) \in Nat \ {0}
            /\ DOMAIN notifQ' = 1 .. Len(notifQ)
            /\ notifQ'[Len(notifQ)] = notifQ[1]
            /\ \A k \in 1 .. Len(notifQ) - 1 : notifQ'[k] = notifQ[k + 1]
        BY <2>1, <2>3 DEF Nack
      <3>2. CASE i = 1
        BY <2>2, <3>1, <3>2 DEF RequestPending
      <3>3. CASE i # 1
        <4>1. i - 1 \in 1 .. Len(notifQ) - 1 /\ (i - 1) + 1 = i /\ i - 1 \in DOMAIN notifQ'
          BY <2>2, <3>1, <3>3
        <4>. QED
          BY <2>2, <3>1, <4>1 DEF RequestPending
      <3>. QED
        BY <3>2, <3>3
    <2>. QED
      BY <1>3, <2>3 DEF RequestPending
  <1>4. EventsMatch' /\ TableFollows'
    BY <1>2 DEF WatchInv, EventsMatch, TableFollows
  <1>5. LossIsOwed'
    <2>. SUFFICES ASSUME NEW u \in Users, Unwatched(u)' PROVE BeingRerouted(u)'
      BY DEF LossIsOwed
    <2>1. Unwatched(u) \/ RequestPending(u)
      BY <1>2 DEF Unwatched
    <2>2. BeingRerouted(u)
      BY <2>1 DEF WatchInv, LossIsOwed, BeingRerouted
    <2>. QED
      BY <2>2, <1>3 DEF BeingRerouted, notificationVars
  <1>6. LossIsOwedAfter'
    <2>. SUFFICES ASSUME NEW u \in Users, Unwatched(u)', recalc'.at = "notify",
                         recalc'.user = u
                  PROVE  RequestToCome(u)'
      BY DEF LossIsOwedAfter
    <2>1. Unwatched(u)
      BY <1>2 DEF Unwatched
    <2>2. RequestToCome(u)
      BY <2>1 DEF WatchInv, LossIsOwedAfter
    <2>. QED
      BY <2>2 DEF RequestToCome, notificationVars
  <1>. QED
    BY <1>1, <1>4, <1>5, <1>6 DEF WatchInv

\* The request at the head is answered: its user is watched by now, or excused, or
\* there is another request for him. Requests of other users stay.
LEMMA Answering ==
  ASSUME PlannerInv, WatchShape, WatchInv,
         UNCHANGED <<routeQ, announced, notificationVars, strayed>>,
         NEW w \in Users, notifQ # <<>>, Head(notifQ) = w,
         notifQ' = Ack(notifQ), recalc'.at = "idle",
         \A u \in Users : Excused(u) => Excused(u)',
         Unwatched(w)' => RequestToCome(w)
  PROVE  WatchShape' /\ WatchInv'
  <1>1. WatchShape'
    BY DEF WatchShape, notificationVars
  <1>2. ASSUME NEW u \in Users
        PROVE  Applied(u)' = Applied(u) /\ active'[u] = active[u]
    BY DEF Applied, Upcoming, notificationVars
  <1>3. EventsMatch' /\ TableFollows'
    BY <1>2 DEF WatchInv, EventsMatch, TableFollows
  <1>4. ASSUME NEW u \in Users, NEW i \in DOMAIN notifQ, notifQ[i] = u, i # 1
        PROVE  RequestPending(u)'
    <2>1. notifQ \in Seq(Users)
      BY DEF PlannerInv, TypeOK, BusTypeOK
    <2>2. /\ DOMAIN notifQ = 1 .. Len(notifQ) /\ Len(notifQ) \in Nat \ {0}
          /\ DOMAIN notifQ' = 1 .. Len(notifQ) - 1
          /\ \A k \in 1 .. Len(notifQ) - 1 : notifQ'[k] = notifQ[k + 1]
      BY <2>1 DEF Ack
    <2>3. i - 1 \in 1 .. Len(notifQ) - 1 /\ (i - 1) + 1 = i
      BY <1>4, <2>2
    <2>4. i - 1 \in DOMAIN notifQ' /\ notifQ'[i - 1] = u
      BY <1>4, <2>2, <2>3
    <2>. QED
      BY <2>4 DEF RequestPending
  <1>5. LossIsOwed'
    <2>. SUFFICES ASSUME NEW u \in Users, Unwatched(u)' PROVE BeingRerouted(u)'
      BY DEF LossIsOwed
    <2>1. CASE traffic.user = u
      BY <2>1 DEF BeingRerouted, notificationVars
    <2>2. CASE traffic.user # u
      <3>1. Unwatched(u)
        BY <1>2 DEF Unwatched
      <3>2. PICK i \in DOMAIN notifQ : notifQ[i] = u
        BY <2>2, <3>1 DEF WatchInv, LossIsOwed, BeingRerouted, RequestPending
      <3>3. \E k \in DOMAIN notifQ : k # 1 /\ notifQ[k] = u
        <4>1. notifQ \in Seq(Users) /\ Head(notifQ) = notifQ[1]
          BY DEF PlannerInv, TypeOK, BusTypeOK
        <4>2. CASE i = 1
          BY <2>2, <3>2, <4>1, <4>2 DEF RequestToCome
        <4>. QED
          BY <3>2, <4>2
      <3>. QED
        BY <3>3, <1>4 DEF BeingRerouted
    <2>. QED
      BY <2>1, <2>2
  <1>6. LossIsOwedAfter'
    BY DEF LossIsOwedAfter
  <1>. QED
    BY <1>1, <1>3, <1>5, <1>6 DEF WatchInv

-----------------------------------------------------------------------------
\* An event published with the route's keys brings the user to those keys.
LEMMA PublishedEffect ==
  ASSUME NEW u \in Users, NEW r \in Routes
  PROVE  /\ Created(u, r) \in Events /\ Created(u, r).user = u
         /\ Effect(Created(u, r)) = Keys(r)
  BY RouteEntry DEF Created, Effect

LEMMA TerminatedEffect ==
  ASSUME NEW u \in Users
  PROVE  /\ Terminated(u) \in Events /\ Terminated(u).user = u
         /\ Effect(Terminated(u)) = NoEntry
  BY DEF Terminated, Events, Effect

\* A step of one call excuses whom it excused before, but for the user of that call, and
\* for him too unless the call was about to announce a favourite.
LEMMA ExcusedAfter ==
  ASSUME PlannerInv, NEW c \in Calls, NEW r, rpc' = [rpc EXCEPT ![c] = r],
         dropped' = dropped, NEW v \in Users, Excused(v),
         v \in torn => Excused(v)',
         CallOf(c, v) /\ rpc[c].at = "accept_publish" => v \in torn'
  PROVE  Excused(v)'
  <1>1. CASE v \in torn \cup dropped
    BY <1>1 DEF Excused
  <1>2. CASE \E d \in Calls : CallOf(d, v) /\ rpc[d].at = "accept_publish"
    <2>1. PICK d \in Calls : CallOf(d, v) /\ rpc[d].at = "accept_publish"
      BY <1>2
    <2>2. CASE d = c
      BY <2>1, <2>2 DEF Excused
    <2>3. CASE d # c
      <3>1. rpc'[d] = rpc[d] /\ CallOf(d, v)'
        BY <2>1, <2>3, CallsAfter DEF PlannerInv
      <3>. QED
        BY <2>1, <3>1 DEF Excused
    <2>. QED
      BY <2>2, <2>3
  <1>. QED
    BY <1>1, <1>2 DEF Excused

\* Nothing changes for those the step is not about.
LEMMA ExcusedBeside ==
  ASSUME PlannerInv, NEW c \in Calls, NEW r, rpc' = [rpc EXCEPT ![c] = r],
         dropped' = dropped, NEW v \in Users, v \in torn' <=> v \in torn,
         ~CallOf(c, v), r.user # v
  PROVE  Excused(v)' <=> Excused(v)
  <1>1. \A d \in Calls : CallOf(d, v)' <=> CallOf(d, v)
    BY CallsAfter DEF PlannerInv
  <1>2. \A d \in Calls : CallOf(d, v) => rpc'[d] = rpc[d]
    BY CallsAfter DEF PlannerInv
  <1>. QED
    BY <1>1, <1>2 DEF Excused

\* A call that goes on is the call of a user.
LEMMA CallGoesOnHasUser ==
  ASSUME PlannerInv, NEW c \in Calls, CallGoesOn(c)
  PROVE  \E u \in Users : CallOf(c, u)
  <1>1. rpc[c].at # "idle"
    BY DEF CallGoesOn, ServeSave, ServeSaveFails, AcceptPublish, AcceptPublishFails,
           TerminatePublish, TerminatePublishFails, TerminateDelete, TerminateDeleteFails,
           CallAt
  <1>. QED
    BY <1>1 DEF PlannerInv, LocalsOK, CallOf

\* A step of a call excuses, or stops excusing, nobody but its user.
LEMMA CallExcusesItsUser ==
  ASSUME PlannerInv, dropped' = dropped, NEW c \in Calls, NEW u \in Users,
         CallStarts(c, u) \/ (CallOf(c, u) /\ CallGoesOn(c))
  PROVE  \A v \in Users \ {u} : Excused(v)' <=> Excused(v)
  <1>1. /\ rpc[c].at = "idle" \/ rpc[c].user = u
        /\ \A v \in Users \ {u} : v \in torn' <=> v \in torn
    <2>1. CASE CallStarts(c, u)
      BY <2>1
      DEF CallStarts, ServeRequest, AcceptSavedRouteRequest, AcceptSaveFails,
          TerminateRoute, CanCall, TornByStart
    <2>2. CASE CallOf(c, u) /\ CallGoesOn(c)
      BY <2>2
      DEF CallOf, CallGoesOn, ServeSave, ServeSaveFails, AcceptPublish, AcceptPublishFails,
          TerminatePublish, TerminatePublishFails, TerminateDelete, TerminateDeleteFails,
          TornByStart
    <2>. QED
      BY <2>1, <2>2
  <1>2. PICK r : rpc' = [rpc EXCEPT ![c] = r] /\ r.user \in {u, NoUser}
    <2>1. ASSUME NEW at, NEW q, MoveTo(c, at, u, q)
          PROVE  \E r : rpc' = [rpc EXCEPT ![c] = r] /\ r.user \in {u, NoUser}
      <3>. DEFINE r == [at |-> at, user |-> u, route |-> q]
      <3>1. rpc' = [rpc EXCEPT ![c] = r] /\ r.user = u
        BY <2>1 DEF MoveTo
      <3>. HIDE DEF r
      <3>. QED
        BY <3>1
    <2>2. CASE Return(c)
      <3>1. Idle.user = NoUser
        BY DEF Idle
      <3>. QED
        BY <2>2, <3>1 DEF Return
    <2>3. CASE CallStarts(c, u)
      BY <2>1, <2>3
      DEF CallStarts, ServeRequest, AcceptSavedRouteRequest, AcceptSaveFails, TerminateRoute
    <2>4. CASE CallOf(c, u) /\ CallGoesOn(c)
      BY <2>1, <2>2, <2>4
      DEF CallOf, CallGoesOn, ServeSave, ServeSaveFails, AcceptPublish, AcceptPublishFails,
          TerminatePublish, TerminatePublishFails, TerminateDelete, TerminateDeleteFails
    <2>. QED
      BY <2>3, <2>4
  <1>. QED
    BY <1>1, <1>2, ExcusedBeside, BusAssumption DEF CallOf

\* The steps of a call that publish nothing stop excusing nobody: the announcement of a
\* favourite fails as torn, and the start of one excuses its user.
LEMMA QuietCallExcuses ==
  ASSUME PlannerInv, dropped' = dropped, NEW c \in Calls, NEW u \in Users,
         \/ \E f \in Favourites : AcceptSavedRouteRequest(c, u, f) \/ AcceptSaveFails(c, u, f)
         \/ TerminateRoute(c, u)
         \/ /\ CallOf(c, u)
            /\ \/ ServeSave(c) \/ ServeSaveFails(c) \/ AcceptPublishFails(c)
               \/ TerminatePublishFails(c) \/ TerminateDelete(c) \/ TerminateDeleteFails(c),
         NEW v \in Users, Excused(v)
  PROVE  Excused(v)'
  <1>1. CASE v # u
    BY <1>1, CallExcusesItsUser DEF CallStarts, CallGoesOn
  <1>. SUFFICES ASSUME v = u PROVE Excused(u)'
    BY <1>1
  <1>2. ASSUME NEW f \in Favourites,
               AcceptSavedRouteRequest(c, u, f) \/ AcceptSaveFails(c, u, f)
        PROVE  Excused(u)'
    <2>. DEFINE r == [at |-> "accept_publish", user |-> u, route |-> f]
    <2>1. rpc' = [rpc EXCEPT ![c] = r] /\ r.at = "accept_publish" /\ r.user = u
      BY <1>2 DEF AcceptSavedRouteRequest, AcceptSaveFails, MoveTo
    <2>. HIDE DEF r
    <2>2. rpc'[c].at = "accept_publish" /\ CallOf(c, u)'
      BY <2>1, CallsAfter DEF PlannerInv
    <2>. QED
      BY <2>2 DEF Excused
  <1>3. CASE TerminateRoute(c, u)
    <2>. DEFINE r == [at |-> "terminate_publish", user |-> u, route |-> NoRoute]
    <2>1. rpc' = [rpc EXCEPT ![c] = r] /\ rpc[c].at = "idle" /\ torn \subseteq torn'
      BY <1>3 DEF TerminateRoute, CanCall, MoveTo
    <2>. HIDE DEF r
    <2>. QED
      BY <2>1, ExcusedAfter DEF Excused
  <1>4. CASE \/ ServeSave(c) \/ ServeSaveFails(c) \/ AcceptPublishFails(c)
             \/ TerminatePublishFails(c) \/ TerminateDelete(c) \/ TerminateDeleteFails(c)
    <2>1. rpc' = [rpc EXCEPT ![c] = Idle] /\ torn \subseteq torn'
      BY <1>4
      DEF ServeSave, ServeSaveFails, AcceptPublishFails, TerminatePublishFails,
          TerminateDelete, TerminateDeleteFails, Return
    <2>2. rpc[c].at # "accept_publish" \/ rpc[c].user \in torn'
      BY <1>4
      DEF ServeSave, ServeSaveFails, AcceptPublishFails, TerminatePublishFails,
          TerminateDelete, TerminateDeleteFails, CallAt
    <2>. QED
      BY <2>1, <2>2, ExcusedAfter DEF Excused, CallOf
  <1>. QED
    BY <1>2, <1>3, <1>4

\* Every step of the planner.
LEMMA PlannerWatch ==
  ASSUME PlannerInv, WatchShape, WatchInv, Planner
  PROVE  WatchShape' /\ WatchInv'
  <1>0. /\ UNCHANGED notificationVars
        /\ UNCHANGED dropped
        /\ routeQ' = routeQ => strayed' = strayed
    BY DEF Planner, notificationVars
  <1>a. strayed' = {v \in strayed : Positions(routeQ', v) = Positions(routeQ, v)}
    BY DEF Planner
  <1>b. ASSUME NEW u \in Users, NEW e \in Events, e.user = u, routeQ' = Append(routeQ, e),
               NEW v \in Users \ {u}
        PROVE  v \in strayed' <=> v \in strayed
    BY <1>a, <1>b, UpcomingQueue, AppendedEvent
  <1>. DEFINE Kept == \A v \in Users : Excused(v) => Excused(v)'
  <1>1. ASSUME NEW c \in Calls, NEW u \in Users, NEW j \in Planned, ServeRequest(c, u, j)
        PROVE  WatchShape' /\ WatchInv'
    <2>1. /\ routeQ' = Append(routeQ, Created(u, j)) /\ UNCHANGED <<notifQ, recalc>>
          /\ announced' = [announced EXCEPT ![u] = Keys(j)]
      BY <1>1 DEF ServeRequest, PublishCreated
    <2>2. \A v \in Users \ {u} : Excused(v)' <=> Excused(v)
      BY <1>0, <1>1, CallExcusesItsUser DEF CallStarts, FetchRoutes
    <2>3. j \in Routes
      BY DEF Routes
    <2>. QED
      BY <1>0, <2>1, <2>2, <2>3, PublishedEffect, <1>b, Announcing
  <1>2. ASSUME NEW c \in Calls, NEW u \in Users, CallOf(c, u), AcceptPublish(c)
        PROVE  WatchShape' /\ WatchInv'
    <2>1. PICK r \in Routes : r = rpc[c].route
      BY <1>2 DEF AcceptPublish, CallAt, PlannerInv, LocalsOK, Routes
    <2>2. /\ routeQ' = Append(routeQ, Created(u, r)) /\ UNCHANGED <<notifQ, recalc>>
          /\ announced' = [announced EXCEPT ![u] = Keys(r)]
      BY <1>2, <2>1 DEF AcceptPublish, PublishCreated, CallOf
    <2>3. \A v \in Users \ {u} : Excused(v)' <=> Excused(v)
      BY <1>0, <1>2, CallExcusesItsUser DEF CallGoesOn
    <2>. QED
      BY <1>0, <2>2, <2>3, PublishedEffect, <1>b, Announcing
  <1>3. ASSUME NEW c \in Calls, NEW u \in Users, CallOf(c, u), TerminatePublish(c)
        PROVE  WatchShape' /\ WatchInv'
    <2>1. /\ routeQ' = Append(routeQ, Terminated(u)) /\ UNCHANGED <<notifQ, recalc>>
          /\ announced' = [announced EXCEPT ![u] = NoEntry]
      BY <1>3 DEF TerminatePublish, CallOf
    <2>2. \A v \in Users \ {u} : Excused(v)' <=> Excused(v)
      BY <1>0, <1>3, CallExcusesItsUser DEF CallGoesOn
    <2>. QED
      BY <1>0, <2>1, <2>2, TerminatedEffect, <1>b, Announcing
  <1>4. CASE RecalcAnnounce
    <2>1. recalc.user \in Users /\ recalc.best \in Routes
      BY <1>4, RequestHandled DEF RecalcAnnounce, Handling, PlannerInv, LocalsOK, Routes
    <2>2. /\ routeQ' = Append(routeQ, Created(recalc.user, recalc.best))
          /\ announced' = [announced EXCEPT ![recalc.user] = Keys(recalc.best)]
          /\ UNCHANGED <<notifQ, rpc, torn>>
          /\ recalc'.user = recalc.user
      BY <1>4 DEF RecalcAnnounce, PublishCreated, PlannerInv, TypeOK, PlannerTypeOK
    <2>3. \A v \in Users \ {recalc.user} : Excused(v) => Excused(v)'
      BY <2>2, <1>0 DEF Excused, CallOf
    <2>. QED
      BY <1>0, <2>1, <2>2, <2>3, PublishedEffect, <1>b, Announcing
  <1>5. ASSUME NEW c \in Calls, NEW u \in Users, CallOf(c, u),
               \/ ServeSave(c) \/ ServeSaveFails(c) \/ AcceptPublishFails(c)
               \/ TerminatePublishFails(c) \/ TerminateDelete(c) \/ TerminateDeleteFails(c)
        PROVE  WatchShape' /\ WatchInv'
    <2>1. UNCHANGED <<routeQ, notifQ, announced, recalc>>
      BY <1>5
      DEF ServeSave, ServeSaveFails, AcceptPublishFails, TerminatePublishFails,
          TerminateDelete, TerminateDeleteFails, busVars
    <2>2. Kept
      BY <1>0, <1>5, QuietCallExcuses
    <2>. QED
      BY <1>0, <2>1, <2>2, Working
  <1>6. ASSUME NEW c \in Calls, NEW u \in Users,
               \/ \E f \in Favourites :
                    AcceptSavedRouteRequest(c, u, f) \/ AcceptSaveFails(c, u, f)
               \/ TerminateRoute(c, u)
        PROVE  WatchShape' /\ WatchInv'
    <2>1. UNCHANGED <<routeQ, notifQ, announced, recalc>>
      BY <1>6 DEF AcceptSavedRouteRequest, AcceptSaveFails, TerminateRoute, busVars
    <2>2. Kept
      BY <1>0, <1>6, QuietCallExcuses
    <2>. QED
      BY <1>0, <2>1, <2>2, Working
  <1>7. CASE RecalcRead \/ RecalcDelete
    <2>1. UNCHANGED <<routeQ, notifQ, announced, rpc>> /\ torn \subseteq torn'
      BY <1>7 DEF RecalcRead, RecalcDelete, TornByRead, Tear, busVars
    <2>2. recalc'.at # "notify"
      BY <1>7 DEF RecalcRead, RecalcDelete, PlannerInv, TypeOK, PlannerTypeOK
    <2>3. Kept
      BY <2>1, <1>0 DEF Excused, CallOf
    <2>. QED
      BY <1>0, <2>1, <2>2, <2>3, Working
  <1>8. ASSUME NEW j \in Planned, RecalcPlan(j)
        PROVE  WatchShape' /\ WatchInv'
    <2>1. UNCHANGED <<routeQ, notifQ, announced, rpc, torn>> /\ recalc'.at # "notify"
      BY <1>8 DEF RecalcPlan, busVars, PlannerInv, TypeOK, PlannerTypeOK
    <2>2. Kept
      BY <2>1, <1>0 DEF Excused, CallOf
    <2>. QED
      BY <1>0, <2>1, <2>2, Working
  <1>9. CASE RecalcSave
    <2>1. /\ UNCHANGED <<routeQ, notifQ, announced, rpc>> /\ recalc'.at # "notify"
          /\ torn \ {recalc.user} \subseteq torn'
      BY <1>9 DEF RecalcSave, busVars, PlannerInv, TypeOK, PlannerTypeOK
    <2>2. RequestPending(recalc.user)
      <3>1. notifQ \in Seq(Users) /\ notifQ # <<>> /\ Head(notifQ) = recalc.user
        BY <1>9 DEF RecalcSave, Handling, PlannerInv, TypeOK, BusTypeOK, RecalcOwnsHead
      <3>2. 1 \in DOMAIN notifQ /\ notifQ[1] = recalc.user
        BY <3>1
      <3>. QED
        BY <3>2 DEF RequestPending
    <2>3. \A v \in Users : Excused(v) => Excused(v)' \/ RequestPending(v)
      BY <2>1, <2>2, <1>0 DEF Excused, CallOf
    <2>. QED
      BY <1>0, <2>1, <2>3, Working
  <1>10. CASE \/ RecalcReadFails \/ RecalcPlanFails \/ RecalcDeleteFails
              \/ RecalcSaveFails \/ RecalcAnnounceFails
    <2>1. /\ UNCHANGED <<routeQ, announced, rpc>> /\ torn \subseteq torn'
          /\ notifQ' = Nack(notifQ) /\ recalc'.at = "idle"
      BY <1>10
      DEF RecalcReadFails, RecalcPlanFails, RecalcDeleteFails, RecalcSaveFails,
          RecalcAnnounceFails, Handling, Finish, RecalcIdle, Tear, plannerVars
    <2>2. notifQ # <<>>
      BY <1>10
      DEF RecalcReadFails, RecalcPlanFails, RecalcDeleteFails, RecalcSaveFails,
          RecalcAnnounceFails, Handling, PlannerInv, RecalcOwnsHead
    <2>3. Kept
      BY <2>1, <1>0 DEF Excused, CallOf
    <2>. QED
      BY <1>0, <2>1, <2>2, <2>3, Working
  <1>11. CASE RecalcSkip
    <2>1. /\ UNCHANGED <<routeQ, announced, rpc, recalc, chosen>> /\ recalc.at = "idle"
          /\ notifQ # <<>> /\ notifQ' = Ack(notifQ) /\ chosen[Head(notifQ)] = NoRoute
          /\ torn' = torn \cup {v \in {Head(notifQ)} : Calling(v)}
      BY <1>11 DEF RecalcSkip, Handling, TornByRead, Tear
    <2>2. Kept
      BY <2>1, <1>0 DEF Excused, CallOf
    <2>3. PICK w \in Users : w = Head(notifQ)
      BY <2>1 DEF PlannerInv, TypeOK, BusTypeOK
    <2>4. ~Unwatched(w)'
      <3>. SUFFICES ASSUME Applied(w)', ~Excused(w)', w \notin strayed'
                    PROVE  active'[w] = announced'[w]
        BY DEF Unwatched
      <3>1. w \notin torn /\ ~Calling(w)
        BY <2>1, <2>3 DEF Excused
      <3>2. announced[w] = NoEntry
        BY <2>1, <2>3, <3>1
        DEF PlannerInv, UpdatesInStep, ProgressOf, Matching, EntryOf, Recalculating, Settled
      <3>3. Applied(w) /\ active' = active
        BY <1>0, <2>1 DEF Applied, Upcoming, notificationVars
      <3>. QED
        BY <1>0, <2>1, <3>2, <3>3 DEF WatchInv, TableFollows
    <2>. QED
      BY <1>0, <2>1, <2>2, <2>3, <2>4, Answering
  <1>12. CASE RecalcNotify
    <2>1. /\ UNCHANGED <<routeQ, announced, rpc, torn>> /\ recalc.at = "notify"
          /\ notifQ' = Ack(notifQ) /\ recalc'.at = "idle"
      BY <1>12 DEF RecalcNotify, Handling, Finish, RecalcIdle
    <2>2. PICK w \in Users : w = recalc.user /\ w = Head(notifQ)
      BY <2>1, RequestHandled DEF PlannerInv, RecalcOwnsHead
    <2>3. notifQ # <<>>
      BY <2>1 DEF PlannerInv, RecalcOwnsHead
    <2>4. Kept
      BY <2>1, <1>0 DEF Excused, CallOf
    <2>5. Unwatched(w)' => Unwatched(w)
      BY <1>0, <2>1 DEF Unwatched, Excused, CallOf, Applied, Upcoming,
          notificationVars
    <2>6. Unwatched(w)' => RequestToCome(w)
      BY <2>1, <2>2, <2>5 DEF WatchInv, LossIsOwedAfter
    <2>. QED
      BY <1>0, <2>1, <2>2, <2>3, <2>4, <2>6, Answering
  <1>13. CASE PlannerCrash \/ \E c \in Calls, f \in Favourites : AcceptPanics(c, f)
    <2>1. /\ UNCHANGED <<routeQ, notifQ, announced>> /\ recalc'.at = "idle"
          /\ torn' = torn \cup HalfDone
      BY <1>13 DEF PlannerCrash, AcceptPanics, PlannerDown, RecalcIdle, Tear, busVars
    <2>2. Kept
      BY <2>1, <1>0 DEF HalfDone, Excused
    <2>. QED
      BY <1>0, <2>1, <2>2, Working
  <1>14. CASE PlannerRestart
    <2>1. UNCHANGED <<routeQ, notifQ, announced, recalc, rpc, torn>>
      BY <1>14 DEF PlannerRestart, busVars
    <2>2. Kept
      BY <2>1, <1>0 DEF Excused, CallOf
    <2>. QED
      BY <1>0, <2>1, <2>2, Working
  <1>15. ASSUME NEW c \in Calls, NEW u \in Users, CallStarts(c, u)
         PROVE  WatchShape' /\ WatchInv'
    BY <1>1, <1>6, <1>15 DEF CallStarts, FetchRoutes
  <1>16. ASSUME NEW c \in Calls, CallGoesOn(c)
         PROVE  WatchShape' /\ WatchInv'
    <2>1. PICK u \in Users : CallOf(c, u)
      BY <1>16, CallGoesOnHasUser
    <2>. QED
      BY <1>2, <1>3, <1>5, <1>16, <2>1 DEF CallGoesOn
  <1>17. CASE RecalcStep
    BY <1>4, <1>7, <1>8, <1>9, <1>10, <1>11, <1>12, <1>17 DEF RecalcStep, FetchRoutes
  <1>. QED
    BY <1>13, <1>14, <1>15, <1>16, <1>17 DEF Planner, PlannerStep

-----------------------------------------------------------------------------
\* Notification's own locals and table, whatever it does. The user of the delivered
\* event exists.
LEMMA DeliveredUser ==
  ASSUME PlannerInv, routeQ # <<>>
  PROVE  /\ Head(routeQ) \in Events
         /\ Head(routeQ).user \in Users /\ Head(routeQ).keys \in SUBSET Labels
         /\ Head(routeQ).key \in {"created", "terminated"}
         /\ Head(routeQ).keys \in Entries /\ NoEntry \in Entries
  <1>1. Head(routeQ) \in Events
    BY DEF PlannerInv, TypeOK, BusTypeOK
  <1>. QED
    BY <1>1, NoEntryIsEntry DEF Events, Entries

LEMMA ShapePreserved ==
  ASSUME PlannerInv, WatchShape, Notifier \/ Surroundings
  PROVE  WatchShape'
  <1>. USE DEF WatchShape
  <1>1. CASE N!TrafficReceive \/ N!TrafficAck
    <2>1. UNCHANGED <<routeQ, active, events>>
      BY <1>1 DEF N!TrafficReceive, N!TrafficAck, N!busVars
    <2>2. /\ traffic' = [at |-> traffic'.at, kind |-> traffic'.kind, lines |-> traffic'.lines,
                         users |-> traffic'.users, user |-> traffic'.user]
          /\ traffic'.user = NoUser /\ traffic'.at # "publish"
      <3>1. CASE N!TrafficReceive
        BY <3>1 DEF N!TrafficReceive, N!TrafficIdle
      <3>2. CASE N!TrafficAck
        BY <3>2 DEF N!TrafficAck, N!TrafficIdle
      <3>. QED
        BY <1>1, <3>1, <3>2
    <2>. QED
      BY <2>1, <2>2
  <1>2. CASE \/ N!TrafficHit \/ N!TrafficScan \/ N!TrafficScanFails \/ N!TrafficFill
             \/ N!TrafficNextLine
    <2>1. UNCHANGED <<routeQ, active, events>>
      BY <1>2
      DEF N!TrafficHit, N!TrafficScan, N!TrafficScanFails, N!TrafficFill,
          N!TrafficNextLine, N!busVars
    <2>2. /\ traffic' = [at |-> traffic'.at, kind |-> traffic'.kind, lines |-> traffic'.lines,
                         users |-> traffic'.users, user |-> traffic'.user]
          /\ traffic'.user = traffic.user
          /\ traffic.at # "publish" /\ traffic'.at # "publish"
      <3>1. CASE N!TrafficHit
        BY <3>1 DEF N!TrafficHit, N!Alerting
      <3>2. CASE N!TrafficScan
        BY <3>2 DEF N!TrafficScan, N!Alerting
      <3>3. CASE N!TrafficScanFails
        BY <3>3 DEF N!TrafficScanFails, N!Alerting
      <3>4. CASE N!TrafficFill
        BY <3>4 DEF N!TrafficFill, N!Alerting
      <3>5. CASE N!TrafficNextLine
        BY <3>5 DEF N!TrafficNextLine, N!Alerting
      <3>. QED
        BY <1>2, <3>1, <3>2, <3>3, <3>4, <3>5
    <2>. QED
      BY <2>1, <2>2
  <1>3. ASSUME NEW u \in Users,
               \/ N!TrafficUnregister(u) \/ N!TrafficUnregisterFails(u)
               \/ N!TrafficPublishSudden(u)
        PROVE  WatchShape'
    <2>1. UNCHANGED <<routeQ, events>>
      BY <1>3
      DEF N!TrafficUnregister, N!TrafficUnregisterFails, N!TrafficPublishSudden, N!busVars
    <2>2. active' \in [Users -> Entries]
      BY <1>3, NoEntryIsEntry
      DEF N!TrafficUnregister, N!TrafficUnregisterFails, N!TrafficPublishSudden, N!NoEntry,
          NoEntry
    <2>3. /\ traffic' = [at |-> traffic'.at, kind |-> traffic'.kind, lines |-> traffic'.lines,
                         users |-> traffic'.users, user |-> traffic'.user]
          /\ traffic'.user \in Users \cup {NoUser}
          /\ traffic'.at = "publish" <=> traffic'.user # NoUser
      BY <1>3, BusAssumption
      DEF N!TrafficUnregister, N!TrafficUnregisterFails, N!TrafficPublishSudden, N!Alerting
    <2>. QED
      BY <2>1, <2>2, <2>3
  <1>4. CASE N!TrafficPublishCritical
    BY <1>4 DEF N!TrafficPublishCritical
  <1>5. CASE N!EventCreated \/ N!EventTerminated
    <2>1. UNCHANGED <<routeQ, traffic>> /\ routeQ # <<>>
      BY <1>5 DEF N!EventCreated, N!EventTerminated, N!Delivered, N!busVars
    <2>2. active' \in [Users -> Entries]
      BY <1>5, <2>1, DeliveredUser
      DEF N!EventCreated, N!EventTerminated, N!NoEntry, NoEntry
    <2>3. events' = [at |-> events'.at, user |-> events'.user, keys |-> events'.keys,
                     key |-> events'.key, snap |-> events'.snap]
      BY <1>5 DEF N!EventCreated, N!EventTerminated, N!EventsIdle
    <2>. QED
      BY <2>1, <2>2, <2>3
  <1>6. CASE N!EventFails
    <2>1. active' \in [Users -> Entries]
      BY <1>6, DeliveredUser DEF N!EventFails, N!NoEntry, NoEntry
    <2>2. UNCHANGED <<traffic, events>> /\ events.at = "idle"
      BY <1>6 DEF N!EventFails, N!Handling
    <2>. QED
      BY <2>1, <2>2
  <1>7. ASSUME NEW k \in Labels, N!PurgeGet(k) \/ N!PurgeMiss(k)
        PROVE  WatchShape'
    BY <1>7 DEF N!PurgeGet, N!PurgeMiss, N!Handling, N!busVars
  <1>8. CASE N!PurgeSet \/ N!PurgeDone
    BY <1>8 DEF N!PurgeSet, N!PurgeDone, N!Handling, N!busVars
  <1>9. CASE N!EventAck
    BY <1>9 DEF N!EventAck, N!EventsIdle
  <1>10. CASE N!NotificationDown
    BY <1>10 DEF N!NotificationDown, N!TrafficIdle, N!EventsIdle, N!busVars
  <1>11. CASE UNCHANGED <<routeQ, active, traffic, events>>
    BY <1>11
  <1>. QED
    BY <1>1, <1>2, <1>3, <1>4, <1>5, <1>6, <1>7, <1>8, <1>9, <1>10, <1>11
    DEF Notifier, Surroundings, N!NotificationStep, N!TrafficStep, N!EventStep,
        N!TrafficPublishFails, N!EventTerminatedPanics, N!NotificationCrash,
        N!SurroundingStep, N!CacheExpire, N!NotificationRestart, N!AlertArrives,
        N!UserTold, N!busVars

-----------------------------------------------------------------------------
\* Steps of Notification that neither write the table nor take or give a message that
\* matters here, and steps of the services around it.
LEMMA Bystanding ==
  ASSUME WatchInv, UNCHANGED <<vars, active, dropped, strayed>>,
         Upcoming' = Upcoming, traffic'.user = traffic.user
  PROVE  WatchInv'
  <1>1. ASSUME NEW u \in Users
        PROVE  /\ Applied(u)' = Applied(u) /\ Unwatched(u)' = Unwatched(u)
               /\ BeingRerouted(u)' = BeingRerouted(u)
               /\ RequestToCome(u)' = RequestToCome(u)
    BY DEF Applied, Unwatched, Excused, CallOf, BeingRerouted, RequestPending, RequestToCome, vars,
           plannerVars, busVars
  <1>2. EventsMatch' /\ TableFollows'
    BY <1>1 DEF WatchInv, EventsMatch, TableFollows, vars, plannerVars, busVars
  <1>3. LossIsOwed' /\ LossIsOwedAfter'
    BY <1>1 DEF WatchInv, LossIsOwed, LossIsOwedAfter, vars, plannerVars, busVars
  <1>. QED
    BY <1>2, <1>3 DEF WatchInv

\* A critical delay unregisters w, who is owed a journey from then on.
LEMMA Unregistering ==
  ASSUME WatchShape, WatchInv, NEW w \in Users,
         UNCHANGED <<vars, dropped, events, strayed>>,
         active' \in {active, [active EXCEPT ![w] = NoEntry]},
         traffic.user = NoUser, traffic'.user = w
  PROVE  WatchInv'
  <1>1. Upcoming' = Upcoming /\ UNCHANGED <<routeQ, notifQ, announced, recalc, torn, rpc>>
    BY DEF Upcoming, vars, plannerVars, busVars
  <1>2. ASSUME NEW u \in Users
        PROVE  Applied(u)' = Applied(u) /\ active'[u] \in {active[u], NoEntry}
    BY <1>1 DEF Applied, WatchShape
  <1>3. BeingRerouted(w)' /\ RequestToCome(w)'
    BY DEF BeingRerouted, RequestToCome
  <1>4. ASSUME NEW u \in Users \ {w}
        PROVE  /\ Unwatched(u)' => Unwatched(u)
               /\ BeingRerouted(u) => BeingRerouted(u)'
               /\ RequestToCome(u) => RequestToCome(u)'
    <2>1. active'[u] = active[u] /\ traffic.user # u
      BY BusAssumption DEF WatchShape
    <2>. QED
      BY <1>1, <1>2, <2>1
      DEF Unwatched, Excused, CallOf, BeingRerouted, RequestPending, RequestToCome
  <1>5. EventsMatch' /\ TableFollows'
    BY <1>1, <1>2 DEF WatchInv, EventsMatch, TableFollows
  <1>6. LossIsOwed'
    BY <1>3, <1>4 DEF WatchInv, LossIsOwed
  <1>7. LossIsOwedAfter'
    BY <1>1, <1>3, <1>4 DEF WatchInv, LossIsOwedAfter
  <1>. QED
    BY <1>5, <1>6, <1>7 DEF WatchInv

\* The request for the unregistered user goes to the end of the planner's queue, so
\* that it is not the one whose handling is about to end.
LEMMA Requesting ==
  ASSUME PlannerInv, WatchShape, WatchInv,
         UNCHANGED <<plannerVars, routeQ, active, dropped, events, strayed>>,
         traffic.user \in Users, traffic'.user = NoUser,
         notifQ' = Append(notifQ, traffic.user)
  PROVE  WatchInv'
  <1>1. UNCHANGED <<announced, recalc, torn, rpc>>
    BY DEF plannerVars
  <1>2. /\ notifQ \in Seq(Users)
        /\ DOMAIN notifQ = 1 .. Len(notifQ) /\ Len(notifQ) \in Nat
        /\ DOMAIN notifQ' = 1 .. Len(notifQ) + 1
        /\ notifQ'[Len(notifQ) + 1] = traffic.user
        /\ \A i \in 1 .. Len(notifQ) : notifQ'[i] = notifQ[i]
    BY DEF PlannerInv, TypeOK, BusTypeOK
  <1>3. ASSUME NEW u \in Users
        PROVE  /\ Applied(u)' = Applied(u) /\ Unwatched(u)' = Unwatched(u)
               /\ BeingRerouted(u) => BeingRerouted(u)'
               /\ notifQ # <<>> /\ RequestToCome(u) => RequestToCome(u)'
    <2>1. Applied(u)' = Applied(u)
      BY DEF Applied, Upcoming
    <2>2. Unwatched(u)' = Unwatched(u)
      BY <1>1, <2>1 DEF Unwatched, Excused, CallOf
    <2>3. BeingRerouted(u) => RequestPending(u)'
      BY <1>2 DEF BeingRerouted, RequestPending
    <2>4. notifQ # <<>> => Len(notifQ) + 1 # 1
      BY <1>2
    <2>5. notifQ # <<>> /\ RequestToCome(u) => RequestToCome(u)'
      BY <1>2, <2>4 DEF RequestToCome
    <2>. QED
      BY <2>1, <2>2, <2>3, <2>5 DEF BeingRerouted
  <1>4. EventsMatch' /\ TableFollows'
    BY <1>1, <1>3 DEF WatchInv, EventsMatch, TableFollows
  <1>5. LossIsOwed'
    BY <1>3 DEF WatchInv, LossIsOwed
  <1>6. LossIsOwedAfter'
    BY <1>1, <1>3 DEF WatchInv, LossIsOwedAfter, PlannerInv, RecalcOwnsHead
  <1>. QED
    BY <1>4, <1>5, <1>6 DEF WatchInv

\* Notification writes what the delivered event says: that is what was last announced,
\* or another event for the user is to come.
LEMMA Applying ==
  ASSUME PlannerInv, WatchShape, WatchInv,
         events.at = "idle", events'.at # "idle", routeQ # <<>>,
         NEW w \in Users, w = Head(routeQ).user,
         active' = [active EXCEPT ![w] = Effect(Head(routeQ))],
         UNCHANGED <<vars, traffic, strayed>>, dropped \ {w} \subseteq dropped'
  PROVE  WatchInv'
  <1>1. UNCHANGED <<routeQ, notifQ, announced, recalc, torn, rpc>>
    BY DEF vars, plannerVars, busVars
  <1>2. Upcoming = routeQ /\ Upcoming' = Tail(routeQ) /\ routeQ \in Seq(Events)
    BY UpcomingQueue DEF Upcoming, vars, busVars
  <1>3. ASSUME Applied(w)', w \notin strayed
        PROVE  active'[w] = announced'[w]
    <2>1. Effect(Head(routeQ)) = announced[w]
      BY <1>2, <1>3, TakenEvent DEF Applied, WatchInv, EventsMatch
    <2>. QED
      BY <1>1, <2>1 DEF WatchShape
  <1>4. ASSUME NEW u \in Users \ {w}
        PROVE  /\ Applied(u)' => Applied(u)
               /\ active'[u] = active[u]
               /\ Unwatched(u)' => Unwatched(u)
    <2>1. Applied(u)' => Applied(u)
      BY <1>2, TakenEvent DEF Applied
    <2>2. active'[u] = active[u]
      BY DEF WatchShape
    <2>. QED
      BY <1>1, <2>1, <2>2 DEF Unwatched, Excused, CallOf
  <1>5. ASSUME NEW u \in Users
        PROVE  /\ BeingRerouted(u)' = BeingRerouted(u)
               /\ RequestToCome(u)' = RequestToCome(u)
    BY <1>1 DEF BeingRerouted, RequestPending, RequestToCome
  <1>6. EventsMatch'
    BY <1>1 DEF WatchInv, EventsMatch
  <1>7. TableFollows'
    BY <1>1, <1>3, <1>4 DEF WatchInv, TableFollows
  <1>8. ~Unwatched(w)'
    BY <1>3 DEF Unwatched
  <1>9. LossIsOwed'
    BY <1>4, <1>5, <1>8 DEF WatchInv, LossIsOwed
  <1>10. LossIsOwedAfter'
    BY <1>1, <1>4, <1>5, <1>8 DEF WatchInv, LossIsOwedAfter
  <1>. QED
    BY <1>6, <1>7, <1>9, <1>10 DEF WatchInv

\* Notification dies: the applied event is to come again, and a user whose request was
\* not published is excused.
LEMMA Dying ==
  ASSUME PlannerInv, WatchShape, WatchInv,
         UNCHANGED <<vars, active, strayed>>, events'.at = "idle", traffic'.user = NoUser,
         dropped' = dropped \cup ({traffic.user} \ {NoUser})
  PROVE  WatchInv'
  <1>1. UNCHANGED <<routeQ, notifQ, announced, recalc, torn, rpc>>
    BY DEF vars, plannerVars, busVars
  <1>2. routeQ \in Seq(Events) /\ Upcoming' = routeQ
    BY <1>1, UpcomingQueue DEF Upcoming
  <1>3. ASSUME NEW u \in Users
        PROVE  Applied(u)' => Applied(u)
    <2>1. CASE events.at = "idle"
      BY <1>2, <2>1 DEF Applied, Upcoming
    <2>2. CASE events.at # "idle"
      BY <1>2, <2>2, TakenEvent DEF Applied, Upcoming, WatchShape
    <2>. QED
      BY <2>1, <2>2
  <1>4. ASSUME NEW u \in Users, Unwatched(u)'
        PROVE  Unwatched(u) /\ traffic.user # u
    <2>1. ~Excused(u)' /\ Applied(u)' /\ active'[u] # announced'[u] /\ u \notin strayed
      BY <1>4 DEF Unwatched
    <2>2. ~Excused(u) /\ traffic.user # u
      BY <1>1, <2>1, BusAssumption DEF Excused, CallOf
    <2>. QED
      BY <1>1, <1>3, <2>1, <2>2 DEF Unwatched
  <1>5. EventsMatch' /\ TableFollows'
    BY <1>1, <1>3 DEF WatchInv, EventsMatch, TableFollows
  <1>6. LossIsOwed'
    BY <1>1, <1>4 DEF WatchInv, LossIsOwed, BeingRerouted, RequestPending
  <1>7. LossIsOwedAfter'
    BY <1>1, <1>4 DEF WatchInv, LossIsOwedAfter, RequestToCome
  <1>. QED
    BY <1>5, <1>6, <1>7 DEF WatchInv

\* The applied event leaves the queue.
LEMMA Acknowledging ==
  ASSUME PlannerInv, WatchShape, WatchInv,
         UNCHANGED <<plannerVars, notifQ, active, dropped, traffic, strayed>>,
         events.at # "idle", events'.at = "idle", routeQ' = Tail(routeQ)
  PROVE  WatchInv'
  <1>1. UNCHANGED <<announced, recalc, torn, rpc>>
    BY DEF plannerVars
  <1>2. Upcoming' = Upcoming /\ routeQ \in Seq(Events) /\ routeQ # <<>>
    BY UpcomingQueue DEF Upcoming, WatchShape
  <1>3. ASSUME NEW u \in Users
        PROVE  /\ Applied(u)' = Applied(u) /\ Unwatched(u)' = Unwatched(u)
               /\ BeingRerouted(u)' = BeingRerouted(u)
               /\ RequestToCome(u)' = RequestToCome(u)
    BY <1>1, <1>2
    DEF Applied, Unwatched, Excused, CallOf, BeingRerouted, RequestPending, RequestToCome
  <1>4. EventsMatch'
    BY <1>1, <1>2, TakenEvent DEF WatchInv, EventsMatch
  <1>5. TableFollows' /\ LossIsOwed' /\ LossIsOwedAfter'
    BY <1>1, <1>3 DEF WatchInv, TableFollows, LossIsOwed, LossIsOwedAfter
  <1>. QED
    BY <1>4, <1>5 DEF WatchInv

\* A write to ActiveRoutes fails, and may have been applied: the event is given back.
\* Its user has an event to come, so that what the table says of him does not matter;
\* if he has others, the given back one is now the last, and he has strayed.
LEMMA GivingBack ==
  ASSUME PlannerInv, WatchShape, WatchInv, Notifier, N!EventFails
  PROVE  WatchInv'
  <1>. USE DEF N!busVars
  <1>1. /\ UNCHANGED <<notifQ, announced, recalc, torn, rpc, dropped, traffic, events>>
        /\ events.at = "idle" /\ routeQ # <<>>
        /\ routeQ' = Nack(routeQ) /\ strayed' = strayed \cup Overtaken
    BY DEF Notifier, N!EventFails, N!Handling, N!Nack, Nack, plannerVars
  <1>2. routeQ \in Seq(Events) /\ Upcoming = routeQ /\ Upcoming' = routeQ'
    BY <1>1, UpcomingQueue DEF Upcoming
  <1>3. PICK w \in Users : w = Head(routeQ).user
    BY <1>1, DeliveredUser
  <1>4. ASSUME NEW u \in Users
        PROVE  Applied(u)' = Applied(u)
    BY <1>1, <1>2, RotatedEvent DEF Applied
  <1>5. ~Applied(w)
    <2>1. 1 \in Positions(routeQ, w)
      BY <1>1, <1>2, <1>3 DEF Positions
    <2>. QED
      BY <1>2, <2>1 DEF Applied
  <1>6. ASSUME NEW u \in Users \ {w}
        PROVE  active'[u] = active[u]
    BY <1>3 DEF N!EventFails, WatchShape
  <1>7. ASSUME NEW u \in Users
        PROVE  /\ Unwatched(u)' => Unwatched(u)
               /\ BeingRerouted(u)' = BeingRerouted(u)
               /\ RequestToCome(u)' = RequestToCome(u)
    <2>1. Unwatched(u)' => Unwatched(u)
      BY <1>1, <1>4, <1>5, <1>6 DEF Unwatched, Excused, CallOf
    <2>. QED
      BY <1>1, <2>1 DEF BeingRerouted, RequestPending, RequestToCome
  <1>8. EventsMatch'
    <2>. SUFFICES ASSUME NEW u \in Users, u \notin strayed'
                  PROVE  LastSays(routeQ', u, announced'[u])
      BY DEF EventsMatch
    <2>1. u \notin strayed /\ ~(u = Head(routeQ).user /\ Positions(Tail(routeQ), u) # {})
      BY <1>1 DEF Overtaken
    <2>2. LastSays(routeQ, u, announced[u])
      BY <2>1 DEF WatchInv, EventsMatch
    <2>. QED
      BY <1>1, <1>2, <2>1, <2>2, RotatedEvent
  <1>9. TableFollows'
    BY <1>1, <1>4, <1>5, <1>6 DEF WatchInv, TableFollows
  <1>10. LossIsOwed' /\ LossIsOwedAfter'
    BY <1>1, <1>7 DEF WatchInv, LossIsOwed, LossIsOwedAfter
  <1>. QED
    BY <1>8, <1>9, <1>10 DEF WatchInv

\* The steps that look things up, pass over a line, tell a user, or forget.
Uneventful ==
  \/ N!TrafficHit \/ N!TrafficScan \/ N!TrafficScanFails \/ N!TrafficFill
  \/ N!TrafficNextLine \/ N!TrafficReceive \/ N!TrafficAck
  \/ (\E u \in Users : N!TrafficPublishSudden(u))
  \/ (\E l \in Labels : N!CacheExpire(l)) \/ N!NotificationRestart
  \/ N!SurroundingStep

LEMMA NothingChanges ==
  ASSUME WatchShape, Uneventful
  PROVE  /\ UNCHANGED <<routeQ, notifQ, active, dropped, events>>
         /\ traffic'.user = traffic.user
  <1>1. UNCHANGED <<routeQ, notifQ, active, dropped, events>>
    BY DEF Uneventful, N!busVars, N!TrafficHit, N!TrafficScan, N!TrafficScanFails,
        N!TrafficFill, N!TrafficNextLine, N!TrafficReceive, N!TrafficAck,
        N!TrafficPublishSudden, N!CacheExpire, N!NotificationRestart, N!SurroundingStep,
        N!AlertArrives, N!UserTold
  <1>2. CASE N!TrafficHit \/ N!TrafficScan \/ N!TrafficScanFails
    BY <1>1, <1>2 DEF N!TrafficHit, N!TrafficScan, N!TrafficScanFails, WatchShape
  <1>3. CASE N!TrafficFill \/ N!TrafficNextLine
    BY <1>1, <1>3 DEF N!TrafficFill, N!TrafficNextLine, WatchShape
  <1>4. CASE N!TrafficReceive \/ N!TrafficAck
    <2>1. traffic.user = NoUser
      BY <1>4 DEF N!TrafficReceive, N!TrafficAck, N!Alerting, WatchShape
    <2>2. CASE N!TrafficReceive
      BY <1>1, <2>1, <2>2 DEF N!TrafficReceive, N!TrafficIdle
    <2>3. CASE N!TrafficAck
      BY <1>1, <2>1, <2>3 DEF N!TrafficAck, N!TrafficIdle
    <2>. QED
      BY <1>4, <2>2, <2>3
  <1>5. CASE \E u \in Users : N!TrafficPublishSudden(u)
    BY <1>1, <1>5 DEF N!TrafficPublishSudden, WatchShape
  <1>6. CASE (\E l \in Labels : N!CacheExpire(l)) \/ N!NotificationRestart \/ N!SurroundingStep
    BY <1>1, <1>6
    DEF N!CacheExpire, N!NotificationRestart, N!SurroundingStep, N!AlertArrives, N!UserTold
  <1>. QED
    BY <1>2, <1>3, <1>4, <1>5, <1>6 DEF Uneventful

\* Every step of Notification and of the services around it.
LEMMA NotifierWatch ==
  ASSUME PlannerInv, WatchShape, WatchInv, Notifier \/ Surroundings
  PROVE  WatchInv'
  <1>a. CASE Notifier /\ N!EventFails
    BY <1>a, GivingBack
  <1>. SUFFICES ASSUME Notifier => ~N!EventFails PROVE WatchInv'
    BY <1>a
  <1>. USE DEF N!busVars
  <1>0. UNCHANGED plannerVars /\ strayed' = strayed
    BY DEF Notifier, Surroundings
  <1>1. CASE Uneventful
    <2>1. /\ UNCHANGED <<routeQ, notifQ, active, dropped, events>>
          /\ traffic'.user = traffic.user
      BY <1>1, NothingChanges
    <2>2. Upcoming' = Upcoming /\ UNCHANGED vars
      BY <1>0, <2>1 DEF Upcoming, vars, busVars
    <2>. QED
      BY <1>0, <2>1, <2>2, Bystanding
  <1>2. ASSUME NEW u \in Users, N!TrafficUnregister(u) \/ N!TrafficUnregisterFails(u)
        PROVE  WatchInv'
    <2>1. /\ UNCHANGED <<routeQ, notifQ, dropped, events>>
          /\ active' \in {active, [active EXCEPT ![u] = NoEntry]}
      BY <1>2 DEF N!TrafficUnregister, N!TrafficUnregisterFails, N!NoEntry, NoEntry
    <2>2. traffic.user = NoUser /\ traffic'.user = u
      BY <1>2
      DEF N!TrafficUnregister, N!TrafficUnregisterFails, N!Alerting, WatchShape
    <2>3. UNCHANGED vars
      BY <1>0, <2>1 DEF vars, busVars
    <2>. QED
      BY <1>0, <2>1, <2>2, <2>3, Unregistering
  <1>3. CASE N!TrafficPublishCritical
    <2>1. /\ UNCHANGED <<routeQ, active, dropped, events>>
          /\ notifQ' = Append(notifQ, traffic.user)
      BY <1>3 DEF N!TrafficPublishCritical
    <2>2. traffic.user \in Users /\ traffic'.user = NoUser
      BY <1>3 DEF N!TrafficPublishCritical, N!Alerting, WatchShape
    <2>. QED
      BY <1>0, <2>1, <2>2, Requesting
  <1>4. CASE N!EventCreated \/ N!EventTerminated
    <2>1. /\ UNCHANGED <<routeQ, notifQ, traffic>> /\ routeQ # <<>>
          /\ events.at = "idle" /\ events'.at # "idle"
          /\ dropped \ {Head(routeQ).user} \subseteq dropped'
      BY <1>4
      DEF N!EventCreated, N!EventTerminated, N!Delivered, N!Handling, N!EventsIdle
    <2>2. PICK w \in Users : w = Head(routeQ).user
      BY <2>1, DeliveredUser
    <2>3. active' = [active EXCEPT ![w] = Effect(Head(routeQ))]
      BY <1>4, <2>2
      DEF N!EventCreated, N!EventTerminated, N!Delivered, N!NoEntry, NoEntry, Effect
    <2>4. UNCHANGED vars
      BY <1>0, <2>1 DEF vars, busVars
    <2>. QED
      BY <1>0, <2>1, <2>2, <2>3, <2>4, Applying
  <1>5. ASSUME NEW k \in Labels, N!PurgeGet(k) \/ N!PurgeMiss(k)
        PROVE  WatchInv'
    <2>1. /\ UNCHANGED <<routeQ, notifQ, active, dropped, traffic>>
          /\ events.at # "idle" /\ events'.at # "idle"
      BY <1>5 DEF N!PurgeGet, N!PurgeMiss, N!Handling, WatchShape
    <2>2. Upcoming' = Upcoming /\ UNCHANGED vars
      BY <1>0, <2>1 DEF Upcoming, vars, busVars
    <2>. QED
      BY <1>0, <2>1, <2>2, Bystanding
  <1>6. CASE N!PurgeSet \/ N!PurgeDone
    <2>1. /\ UNCHANGED <<routeQ, notifQ, active, dropped, traffic>>
          /\ events.at # "idle" /\ events'.at # "idle"
      BY <1>6 DEF N!PurgeSet, N!PurgeDone, N!Handling, WatchShape
    <2>2. Upcoming' = Upcoming /\ UNCHANGED vars
      BY <1>0, <2>1 DEF Upcoming, vars, busVars
    <2>. QED
      BY <1>0, <2>1, <2>2, Bystanding
  <1>7. CASE N!EventAck
    <2>1. /\ UNCHANGED <<notifQ, active, dropped, traffic>> /\ routeQ' = Tail(routeQ)
          /\ events.at # "idle" /\ events'.at = "idle"
      BY <1>7 DEF N!EventAck, N!Handling, N!EventsIdle, N!Ack
    <2>. QED
      BY <1>0, <2>1, Acknowledging
  <1>8. CASE N!NotificationDown
    <2>1. /\ UNCHANGED <<routeQ, notifQ, active>>
          /\ events'.at = "idle" /\ traffic'.user = NoUser
          /\ dropped' = dropped \cup ({traffic.user} \ {NoUser})
      BY <1>8 DEF N!NotificationDown, N!TrafficIdle, N!EventsIdle
    <2>2. UNCHANGED vars
      BY <1>0, <2>1 DEF vars, busVars
    <2>. QED
      BY <1>0, <2>1, <2>2, Dying
  <1>. QED
    BY <1>1, <1>2, <1>3, <1>4, <1>5, <1>6, <1>7, <1>8
    DEF Notifier, Surroundings, N!NotificationStep, N!TrafficStep, N!EventStep,
        N!TrafficPublishFails, N!EventTerminatedPanics, N!NotificationCrash, Uneventful

-----------------------------------------------------------------------------
LEMMA SystemInitEstablishes == SystemInit => SystemInv
  <1>. SUFFICES ASSUME SystemInit PROVE SystemInv
    OBVIOUS
  <1>1. PlannerInv
    BY InitEstablishes DEF SystemInit, Init
  <1>2. /\ routeQ = <<>> /\ announced = [u \in Users |-> NoEntry]
        /\ active = [u \in Users |-> NoEntry] /\ recalc.at = "idle"
    BY DEF SystemInit, BusInit, PlannerInit, RecalcIdle, N!NotificationInit, N!NoEntry,
       NoEntry
  <1>3. WatchShape
    BY <1>2, NoEntryIsEntry
    DEF SystemInit, N!NotificationInit, N!TrafficIdle, N!EventsIdle, WatchShape
  <1>4. EventsMatch /\ TableFollows /\ LossIsOwed /\ LossIsOwedAfter
    BY <1>2
    DEF EventsMatch, LastSays, Positions, TableFollows, LossIsOwed, LossIsOwedAfter,
        Unwatched
  <1>. QED
    BY <1>1, <1>3, <1>4 DEF SystemInv, SystemInit

LEMMA SystemStepPreserves ==
  ASSUME SystemInv, [SystemNext]_systemVars
  PROVE  SystemInv'
  <1>. USE DEF SystemInv
  <1>1. PlannerInv'
    BY PlannerSide
  <1>2. WatchInv
    BY DEF WatchInv
  <1>3. WatchShape' /\ WatchInv'
    <2>1. CASE Planner
      BY <1>2, <2>1, PlannerWatch
    <2>2. CASE Notifier \/ Surroundings
      BY <1>2, <2>2, ShapePreserved, NotifierWatch
    <2>3. CASE UNCHANGED systemVars
      <3>1. UNCHANGED <<vars, notificationVars, strayed>>
        BY <2>3 DEF systemVars
      <3>2. WatchShape'
        BY <3>1 DEF WatchShape, notificationVars, vars, busVars
      <3>3. Upcoming' = Upcoming
        BY <3>1 DEF Upcoming, notificationVars, vars, busVars
      <3>. QED
        BY <1>2, <3>1, <3>2, <3>3, Bystanding DEF notificationVars
    <2>. QED
      BY <2>1, <2>2, <2>3 DEF SystemNext
  <1>4. strayed' \subseteq Users
    <2>1. CASE Planner
      BY <2>1 DEF Planner
    <2>2. CASE Notifier
      <3>1. N!EventFails => Head(routeQ).user \in Users
        BY DeliveredUser DEF N!EventFails
      <3>. QED
        BY <2>2, <3>1 DEF Notifier, Overtaken
    <2>3. CASE Surroundings \/ UNCHANGED systemVars
      BY <2>3 DEF Surroundings, systemVars
    <2>. QED
      BY <2>1, <2>2, <2>3 DEF SystemNext
  <1>. QED
    BY <1>1, <1>3, <1>4 DEF WatchInv

-----------------------------------------------------------------------------
\* The inductive invariant holds in every reachable state, whatever fails.
THEOREM SystemInvariant == SystemSpec => []SystemInv
  <1>1. SystemInv /\ [SystemNext]_systemVars => SystemInv'
    BY SystemStepPreserves
  <1>. QED
    BY <1>1, SystemInitEstablishes, PTL DEF SystemSpec

\* With no event to come the table has it, else the last event says it.
LEMMA ForecastKnown ==
  ASSUME SystemInv, NEW u \in Users \ strayed
  PROVE  \/ Forecast(u) = announced[u]
         \/ /\ Forecast(u) = NoEntry
            /\ Unwatched(u) \/ Excused(u)
  <1>1. routeQ \in Seq(Events)
    BY UpcomingQueue DEF SystemInv
  <1>2. CASE Positions(routeQ, u) # {}
    <2>1. LastSays(routeQ, u, announced[u])
      BY DEF SystemInv, EventsMatch
    <2>. QED
      BY <1>1, <1>2, <2>1, LastOfQueue DEF Forecast
  <1>3. CASE Positions(routeQ, u) = {}
    <2>1. Applied(u)
      BY <1>1, <1>3, TakenEvent DEF Applied, Upcoming, SystemInv, WatchShape
    <2>2. Forecast(u) = active[u] /\ active[u] \in {announced[u], NoEntry}
      BY <1>3, <2>1 DEF Forecast, SystemInv, TableFollows
    <2>. QED
      BY <1>3, <2>1, <2>2 DEF Unwatched
  <1>. QED
    BY <1>2, <1>3

\* The events in flight bring ActiveRoutes to what the planner last announced, for any
\* number of users, journeys, favourites and alerts in any interleaving, with crashes of
\* both processes and failing calls: a user without his entry is being rerouted or had an
\* update that failed, unless his events came out of order.
THEOREM WatchFollows == SystemSpec => []WatchFollowsPlanner
  <1>1. SystemInv => WatchFollowsPlanner
    <2>. SUFFICES ASSUME SystemInv, NEW u \in Users \ strayed
                  PROVE  \/ Forecast(u) = announced[u]
                         \/ Forecast(u) = NoEntry /\ (BeingRerouted(u) \/ Excused(u))
      BY DEF WatchFollowsPlanner
    <2>1. Unwatched(u) => BeingRerouted(u)
      BY DEF SystemInv, LossIsOwed
    <2>. QED
      BY <2>1, ForecastKnown
  <1>. QED
    BY <1>1, SystemInvariant, PTL

\* ChosenRoutes and ActiveRoutes agree on every user at rest: the journey stored is the
\* one announced, and the one announced is the one watched.
THEOREM SystemTablesAgree == SystemSpec => []TablesAgree
  <1>1. SystemInv => TablesAgree
    <2>. SUFFICES ASSUME SystemInv, NEW u \in Users \ strayed,
                         Settled(u), Positions(routeQ, u) = {},
                         ~BeingRerouted(u), ~Excused(u)
                  PROVE  active[u] = EntryOf(chosen[u])
      BY DEF TablesAgree
    <2>1. announced[u] = EntryOf(chosen[u])
      BY PlannerImplies DEF SystemInv, TableMatchesAnnouncement, Excused
    <2>2. ~Unwatched(u)
      BY DEF SystemInv, LossIsOwed
    <2>3. Forecast(u) = announced[u]
      BY <2>2, ForecastKnown
    <2>. QED
      BY <2>1, <2>3 DEF Forecast
  <1>. QED
    BY <1>1, SystemInvariant, PTL
-----------------------------------------------------------------------------
\* Side by side, each service keeps what it has alone. NP holds the theorems about
\* Notification; its operators are those of N.
NP == INSTANCE NotificationProofs

\* The steps of N, one by one, are steps of NP.
LEMMA SameTraffic == N!TrafficStep => NP!TrafficStep
  BY DEF N!TrafficStep, NP!TrafficStep, N!TrafficReceive, NP!TrafficReceive,
        N!TrafficHit, NP!TrafficHit, N!TrafficScan, NP!TrafficScan, N!TrafficScanFails,
        NP!TrafficScanFails, N!TrafficFill, NP!TrafficFill, N!TrafficUnregister,
        NP!TrafficUnregister, N!TrafficUnregisterFails, NP!TrafficUnregisterFails,
        N!TrafficPublishSudden, NP!TrafficPublishSudden, N!TrafficPublishCritical,
        NP!TrafficPublishCritical, N!TrafficNextLine, NP!TrafficNextLine, N!TrafficAck,
        NP!TrafficAck, N!Alerting, NP!Alerting, N!Line, NP!Line, N!Subscribers,
        NP!Subscribers, N!TrafficIdle, NP!TrafficIdle, N!Ack, NP!Ack, N!NoEntry,
        NP!NoEntry, N!busVars, NP!busVars

LEMMA SameEvents == N!EventStep => NP!EventStep
  BY DEF N!EventStep, NP!EventStep, N!EventCreated, NP!EventCreated, N!EventTerminated,
        NP!EventTerminated, N!EventTerminatedPanics, NP!EventTerminatedPanics,
        N!EventFails, NP!EventFails, N!PurgeGet, NP!PurgeGet, N!PurgeMiss, NP!PurgeMiss,
        N!PurgeSet, NP!PurgeSet, N!PurgeDone, NP!PurgeDone, N!EventAck, NP!EventAck,
        N!Handling, NP!Handling, N!Delivered, NP!Delivered, N!EventsIdle, NP!EventsIdle,
        N!TrafficIdle, NP!TrafficIdle, N!NotificationDown, NP!NotificationDown, N!Ack,
        NP!Ack, N!Nack, NP!Nack, N!NoEntry, NP!NoEntry, N!busVars, NP!busVars

LEMMA SameNotification == N!NotificationStep => NP!NotificationStep
  <1>1. /\ \A l \in Labels : N!CacheExpire(l) => NP!CacheExpire(l)
        /\ N!TrafficPublishFails => NP!TrafficPublishFails
        /\ N!NotificationCrash => NP!NotificationCrash
        /\ N!NotificationRestart => NP!NotificationRestart
    BY DEF N!CacheExpire, NP!CacheExpire, N!TrafficPublishFails,
            NP!TrafficPublishFails, N!NotificationCrash, NP!NotificationCrash,
            N!NotificationRestart, NP!NotificationRestart, N!NotificationDown,
            NP!NotificationDown, N!Alerting, NP!Alerting, N!TrafficIdle, NP!TrafficIdle,
            N!EventsIdle, NP!EventsIdle, N!Room, NP!Room, N!busVars, NP!busVars
  <1>. QED
    BY <1>1, SameTraffic, SameEvents DEF N!NotificationStep, NP!NotificationStep

LEMMA SameSurroundings == N!SurroundingStep => NP!SurroundingStep
  BY DEF N!SurroundingStep, NP!SurroundingStep, N!AlertArrives, NP!AlertArrives,
        N!UserTold, NP!UserTold, N!Room, NP!Room, N!Ack, NP!Ack, N!busVars, NP!busVars

LEMMA SameInit == N!NotificationInit => NP!NotificationInit
  BY DEF N!NotificationInit, NP!NotificationInit, N!TrafficIdle, NP!TrafficIdle,
        N!EventsIdle, NP!EventsIdle, N!NoEntry, NP!NoEntry

\* The planner does to Notification what its open environment may do: send an event,
\* take a request. It sends when it must, whatever the bound on new events.
LEMMA PlannerIsEnvironment ==
  ASSUME PlannerInv, Planner
  PROVE  NP!OpenNext \/ UNCHANGED NP!vars
  <1>. USE DEF NP!vars, NP!busVars, NP!notificationVars, notificationVars
  <1>0. UNCHANGED notificationVars
    BY DEF Planner
  <1>1. ASSUME NEW u \in Users, NEW r \in Routes,
               routeQ' = Append(routeQ, Created(u, r)), notifQ' = notifQ
        PROVE  NP!OpenNext
    <2>1. NP!EventSent(NP!Created(u, r)) /\ r \in NP!Routes
      BY <1>0, <1>1
      DEF NP!EventSent, NP!Created, Created, NP!Keys, Keys, NP!Routes, Routes
    <2>. QED
      BY <2>1 DEF NP!OpenNext
  <1>2. ASSUME NEW c \in Calls, TerminatePublish(c)
        PROVE  NP!OpenNext
    <2>1. rpc[c].user \in Users
      BY <1>2 DEF TerminatePublish, CallAt, PlannerInv, LocalsOK
    <2>2. NP!EventSent(NP!Terminated(rpc[c].user))
      BY <1>0, <1>2 DEF TerminatePublish, NP!EventSent, NP!Terminated, Terminated
    <2>. QED
      BY <2>1, <2>2 DEF NP!OpenNext
  <1>3. ASSUME NEW c \in Calls, NEW u \in Users, NEW j \in Planned, ServeRequest(c, u, j)
        PROVE  NP!OpenNext
    BY <1>1, <1>3 DEF ServeRequest, PublishCreated, Routes
  <1>4. ASSUME NEW c \in Calls, AcceptPublish(c)
        PROVE  NP!OpenNext
    <2>1. rpc[c].user \in Users /\ rpc[c].route \in Routes
      BY <1>4 DEF AcceptPublish, CallAt, PlannerInv, LocalsOK, Routes
    <2>. QED
      BY <1>1, <1>4, <2>1 DEF AcceptPublish, PublishCreated
  <1>5. CASE RecalcAnnounce
    <2>1. recalc.user \in Users /\ recalc.best \in Routes
      BY <1>5, RequestHandled DEF RecalcAnnounce, Handling, PlannerInv, LocalsOK, Routes
    <2>. QED
      BY <1>1, <1>5, <2>1 DEF RecalcAnnounce, PublishCreated
  <1>6. CASE routeQ' = routeQ /\ notifQ # <<>> /\ notifQ' \in {Ack(notifQ), Nack(notifQ)}
    BY <1>0, <1>6 DEF NP!OpenNext, NP!RequestTaken, NP!Ack, Ack, NP!Nack, Nack
  <1>7. CASE UNCHANGED <<routeQ, notifQ>>
    BY <1>0, <1>7
  <1>8. CASE \/ RecalcReadFails \/ RecalcPlanFails \/ RecalcDeleteFails
             \/ RecalcSaveFails \/ RecalcAnnounceFails \/ RecalcNotify \/ RecalcSkip
    BY <1>6, <1>8
    DEF RecalcReadFails, RecalcPlanFails, RecalcDeleteFails, RecalcSaveFails,
        RecalcAnnounceFails, RecalcNotify, RecalcSkip, Handling, Finish, plannerVars,
        PlannerInv, RecalcOwnsHead
  <1>9. ASSUME NEW c \in Calls,
               \/ ServeSave(c) \/ ServeSaveFails(c) \/ AcceptPublishFails(c)
               \/ TerminatePublishFails(c) \/ TerminateDelete(c) \/ TerminateDeleteFails(c)
               \/ \E u \in Users : TerminateRoute(c, u)
               \/ \E u \in Users, f \in Favourites :
                    AcceptSavedRouteRequest(c, u, f) \/ AcceptSaveFails(c, u, f)
               \/ \E f \in Favourites : AcceptPanics(c, f)
        PROVE  NP!OpenNext \/ UNCHANGED NP!vars
    BY <1>7, <1>9
    DEF ServeSave, ServeSaveFails, AcceptPublishFails, TerminateRoute,
        TerminatePublishFails, TerminateDelete, TerminateDeleteFails,
        AcceptSavedRouteRequest, AcceptSaveFails, AcceptPanics, PlannerDown, busVars
  <1>10. CASE \/ RecalcRead \/ RecalcDelete \/ RecalcSave \/ PlannerCrash \/ PlannerRestart
              \/ \E j \in Planned : RecalcPlan(j)
    BY <1>7, <1>10
    DEF RecalcRead, RecalcDelete, RecalcSave, RecalcPlan, PlannerCrash, PlannerDown,
        PlannerRestart, busVars
  <1>. QED
    BY <1>2, <1>3, <1>4, <1>5, <1>8, <1>9, <1>10
    DEF Planner, PlannerStep, CallStarts, CallGoesOn, RecalcStep, FetchRoutes

\* What Notification assumes of its constants holds of the system's.
LEMMA BesidePlanner == NP!BusAssumption /\ NP!NotificationAssumption
  <1>1. NP!BusAssumption
    BY BusAssumption DEF BusAssumption, NP!BusAssumption, NP!Routes, Routes
  <1>2. NP!NotificationAssumption
    BY SystemAssumption
    DEF NP!NotificationAssumption, N!AlertKinds, NP!AlertKinds, FaultKinds, NP!FaultKinds
  <1>. QED
    BY <1>1, <1>2

\* So every step of the system preserves Notification's own invariant.
LEMMA NotificationSide ==
  ASSUME PlannerInv, NP!NotificationInv, [SystemNext]_systemVars
  PROVE  NP!NotificationInv'
  <1>1. [NP!OpenNext]_(NP!vars)
    <2>1. CASE Planner
      BY <2>1, PlannerIsEnvironment
    <2>2. CASE Notifier
      BY <2>2, SameNotification DEF Notifier, NP!OpenNext
    <2>3. CASE Surroundings
      BY <2>3, SameSurroundings DEF Surroundings, NP!OpenNext
    <2>4. CASE UNCHANGED systemVars
      BY <2>4
      DEF systemVars, vars, busVars, notificationVars, NP!vars, NP!busVars,
          NP!notificationVars
    <2>. QED
      BY <2>1, <2>2, <2>3, <2>4 DEF SystemNext
  <1>. QED
    BY <1>1, BesidePlanner, NP!StepPreserves

\* What Notification keeps alone it keeps beside the planner: its types, and that both
\* consumers end with the ack or nack of the message they worked on.
THEOREM SystemNotificationSafe == SystemSpec => [](N!TypeOK /\ N!HandlersOwnHeads)
  <1>1. SystemInit => NP!NotificationInv
    <2>. SUFFICES ASSUME SystemInit PROVE NP!NotificationInv
      OBVIOUS
    <2>1. NP!Init
      BY SameInit DEF SystemInit, BusInit, NP!BusInit, NP!Init
    <2>. QED
      BY <2>1, BesidePlanner, NP!InitEstablishes
  <1>2. SystemInv /\ NP!NotificationInv /\ [SystemNext]_systemVars => NP!NotificationInv'
    BY NotificationSide DEF SystemInv
  <1>3. NP!NotificationInv => N!TypeOK /\ N!HandlersOwnHeads
    BY DEF NP!NotificationInv, NP!TypeOK, N!TypeOK, NP!HandlersOwnHeads, N!HandlersOwnHeads,
        NP!NotificationTypeOK, N!NotificationTypeOK, NP!BusTypeOK, N!BusTypeOK,
        NP!Events, N!Events, NP!Entries, N!Entries, NP!NoEntry, N!NoEntry,
        NP!AlertKinds, N!AlertKinds, NP!TrafficPoints, N!TrafficPoints,
        NP!EventPoints, N!EventPoints
  <1>. QED
    BY <1>1, <1>2, <1>3, SystemInvariant, PTL DEF SystemSpec

\* What the planner keeps alone it keeps beside Notification: its types, the ack of the
\* request that was handled, and that a settled user's stored journey is the one last
\* announced.
THEOREM SystemPlannerSafe ==
  SystemSpec => [](TypeOK /\ RecalcOwnsHead /\ TableMatchesAnnouncement)
  <1>1. SystemInv => TypeOK /\ RecalcOwnsHead /\ TableMatchesAnnouncement
    BY PlannerImplies DEF SystemInv
  <1>. QED
    BY <1>1, SystemInvariant, PTL
=============================================================================
