------------------------- MODULE NotificationProofs -------------------------
(***************************************************************************)
(* What holds of Notification for every set of users and labels, every set *)
(* of alerts, every choice of faults and every bound: types, and ownership *)
(* of the two messages being handled.                                      *)
(***************************************************************************)
EXTENDS Notification, SequenceTheorems, TLAPS

-----------------------------------------------------------------------------
\* What the handlers' locals hold at the points that use them: there is a line while
\* its users are dealt with, a user to publish a request for, a label to write back.
LocalsOK ==
  /\ traffic.at \in {"fill", "users", "publish"} => traffic.lines # <<>>
  /\ traffic.at = "publish" => traffic.user \in Users
  /\ events.at = "set" => events.key \in Labels

\* The inductive invariant.
NotificationInv == TypeOK /\ LocalsOK /\ HandlersOwnHeads

-----------------------------------------------------------------------------
\* Ack takes the head of a queue away, Nack and Append put a message at its end; all
\* three keep the messages' type.
LEMMA AckOfQueue ==
  ASSUME NEW S, NEW q \in Seq(S), q # <<>>
  PROVE  Ack(q) \in Seq(S) /\ Tail(q) \in Seq(S) /\ Head(q) \in S
  BY DEF Ack

LEMMA NackOfQueue ==
  ASSUME NEW S, NEW q \in Seq(S), q # <<>>
  PROVE  Nack(q) \in Seq(S)
  BY DEF Nack

\* A message put at the end of a queue leaves its head alone.
LEMMA AppendToQueue ==
  ASSUME NEW S, NEW q \in Seq(S), NEW m \in S
  PROVE  /\ Append(q, m) \in Seq(S)
         /\ q # <<>> => Append(q, m) # <<>> /\ Head(Append(q, m)) = Head(q)
  OBVIOUS

LEMMA EntryTypes ==
  /\ SUBSET Labels \subseteq Entries
  /\ NoEntry \in Entries
  /\ \A e \in Entries : e # NoEntry => e \in SUBSET Labels
  BY DEF Entries

\* The events the planner publishes are well formed.
LEMMA EventTypes ==
  ASSUME NEW u \in Users
  PROVE  /\ Terminated(u) \in Events
         /\ \A r \in Routes : Created(u, r) \in Events
  BY BusAssumption DEF Terminated, Created, Events, Keys, Routes

\* What a delivered route event contains.
LEMMA HeadEvent ==
  ASSUME BusTypeOK, routeQ # <<>>
  PROVE  /\ Head(routeQ).user \in Users
         /\ Head(routeQ).keys \in SUBSET Labels
  <1>1. Head(routeQ) \in Events
    BY DEF BusTypeOK
  <1>. QED
    BY <1>1 DEF Events

\* What a delivered alert contains.
LEMMA HeadAlert ==
  ASSUME NotificationTypeOK, trafficQ # <<>>
  PROVE  Head(trafficQ).kind \in AlertKinds /\ Head(trafficQ).lines \in Seq(Labels)
  <1>1. Head(trafficQ) \in [kind: AlertKinds, lines: Seq(Labels)]
    BY AckOfQueue DEF NotificationTypeOK
  <1>. QED
    BY <1>1

-----------------------------------------------------------------------------
\* Types: no step of the two consumers, of the cache, of a crash or of the services
\* around it spoils a table, a queue or a local.
LEMMA TypePreserved ==
  ASSUME TypeOK, LocalsOK, HandlersOwnHeads, [OpenNext]_vars
  PROVE  TypeOK'
  <1>. USE DEF TypeOK, BusTypeOK, NotificationTypeOK
  <1>1. CASE TrafficReceive
    BY <1>1, HeadAlert DEF TrafficReceive, TrafficIdle, TrafficPoints, busVars
  <1>2. CASE TrafficHit \/ TrafficScan \/ TrafficScanFails
    <2>1. CASE TrafficHit
      <3>1. cache[Line] \in SUBSET Users
        BY <2>1, AckOfQueue DEF TrafficHit, Line
      <3>. QED
        BY <2>1, <3>1 DEF TrafficHit, TrafficPoints, busVars
    <2>2. CASE TrafficScan
      BY <2>2 DEF TrafficScan, Subscribers, TrafficPoints, busVars
    <2>3. CASE TrafficScanFails
      BY <2>3 DEF TrafficScanFails, TrafficPoints, busVars
    <2>. QED
      BY <1>2, <2>1, <2>2, <2>3
  <1>3. CASE TrafficFill
    BY <1>3 DEF TrafficFill, TrafficPoints, busVars
  <1>4. ASSUME NEW u \in Users, TrafficUnregister(u) \/ TrafficUnregisterFails(u)
        PROVE  TypeOK'
    <2>1. active' \in [Users -> Entries]
      BY <1>4, EntryTypes DEF TrafficUnregister, TrafficUnregisterFails
    <2>2. traffic' = [traffic EXCEPT !.at = "publish", !.user = u, !.users = @ \ {u}]
      BY <1>4 DEF TrafficUnregister, TrafficUnregisterFails
    <2>3. UNCHANGED <<busVars, cache, trafficQ, userQ, events, notifUp, dropped>>
      BY <1>4 DEF TrafficUnregister, TrafficUnregisterFails
    <2>. QED
      BY <2>1, <2>2, <2>3 DEF TrafficPoints, busVars
  <1>5. ASSUME NEW u \in Users, TrafficPublishSudden(u)
        PROVE  TypeOK'
    BY <1>5, AppendToQueue DEF TrafficPublishSudden, busVars
  <1>6. CASE TrafficPublishCritical
    BY <1>6, AppendToQueue DEF TrafficPublishCritical, Alerting, LocalsOK, TrafficPoints
  <1>7. CASE TrafficNextLine
    <2>1. Tail(traffic.lines) \in Seq(Labels)
      BY <1>7, AckOfQueue DEF TrafficNextLine, Alerting, LocalsOK
    <2>. QED
      BY <1>7, <2>1 DEF TrafficNextLine, TrafficPoints, busVars
  <1>8. CASE TrafficAck
    BY <1>8, AckOfQueue
    DEF TrafficAck, Alerting, HandlersOwnHeads, TrafficIdle, TrafficPoints, AlertKinds,
        busVars
  <1>9. CASE EventCreated
    BY <1>9, HeadEvent, EntryTypes
    DEF EventCreated, Delivered, EventsIdle, EventPoints, busVars
  <1>10. CASE EventTerminated
    <2>1. active[Head(routeQ).user] \in SUBSET Labels
      BY <1>10, HeadEvent, EntryTypes DEF EventTerminated, Delivered
    <2>. QED
      BY <1>10, <2>1, HeadEvent, EntryTypes
      DEF EventTerminated, Delivered, EventsIdle, EventPoints, busVars
  <1>11. CASE EventFails
    <2>1. active' \in [Users -> Entries]
      BY <1>11, HeadEvent, EntryTypes DEF EventFails
    <2>. QED
      BY <1>11, <2>1, NackOfQueue DEF EventFails
  <1>12. ASSUME NEW k \in Labels, PurgeGet(k) \/ PurgeMiss(k)
         PROVE  TypeOK'
    <2>1. CASE PurgeGet(k)
      BY <2>1 DEF PurgeGet, EventPoints, busVars
    <2>2. CASE PurgeMiss(k)
      BY <2>2 DEF PurgeMiss, busVars
    <2>. QED
      BY <1>12, <2>1, <2>2
  <1>13. CASE PurgeSet \/ PurgeDone
    BY <1>13 DEF PurgeSet, PurgeDone, EventPoints, busVars
  <1>14. CASE EventAck
    BY <1>14, AckOfQueue
    DEF EventAck, Handling, HandlersOwnHeads, EventsIdle, EventPoints
  <1>15. ASSUME NEW l \in Labels, CacheExpire(l)
         PROVE  TypeOK'
    BY <1>15 DEF CacheExpire, busVars
  <1>16. CASE NotificationDown
    <2>1. traffic' \in [at: TrafficPoints, kind: AlertKinds, lines: Seq(Labels),
                        users: SUBSET Users, user: Users \cup {NoUser}]
      BY <1>16 DEF NotificationDown, TrafficIdle, TrafficPoints, AlertKinds
    <2>2. events' \in [at: EventPoints, user: Users \cup {NoUser}, keys: SUBSET Labels,
                       key: Labels \cup {NoLabel}, snap: SUBSET Users]
      BY <1>16 DEF NotificationDown, EventsIdle, EventPoints
    <2>3. cache' \in [Labels -> SUBSET Users] /\ dropped' \subseteq Users
      BY <1>16 DEF NotificationDown
    <2>. QED
      BY <1>16, <2>1, <2>2, <2>3 DEF NotificationDown, busVars
  <1>17. CASE NotificationRestart
    BY <1>17 DEF NotificationRestart, busVars
  <1>18. ASSUME NEW a \in Alerts, AlertArrives(a)
         PROVE  TypeOK'
    BY <1>18, AppendToQueue, NotificationAssumption DEF AlertArrives, busVars
  <1>19. CASE UserTold
    BY <1>19, AckOfQueue DEF UserTold, busVars
  <1>20. ASSUME NEW e \in Events, EventSent(e)
         PROVE  TypeOK'
    BY <1>20, AppendToQueue DEF EventSent, notificationVars
  <1>21. CASE RequestTaken
    BY <1>21, AckOfQueue, NackOfQueue DEF RequestTaken, notificationVars
  <1>22. CASE UNCHANGED vars
    BY <1>22 DEF vars, busVars, notificationVars
  <1>. QED
    BY <1>1, <1>2, <1>3, <1>4, <1>5, <1>6, <1>7, <1>8, <1>9, <1>10, <1>11, <1>12, <1>13,
       <1>14, <1>15, <1>16, <1>17, <1>18, <1>19, <1>20, <1>21, <1>22, EventTypes
    DEF OpenNext, NotificationStep, TrafficStep, EventStep, TrafficPublishFails,
        EventTerminatedPanics, NotificationCrash, SurroundingStep
-----------------------------------------------------------------------------
\* A handler takes its user, its lines and its label from where they exist.
LEMMA LocalsPreserved ==
  ASSUME TypeOK, LocalsOK, [OpenNext]_vars
  PROVE  LocalsOK'
  <1>. USE DEF LocalsOK, TypeOK, NotificationTypeOK
  <1>1. CASE TrafficReceive \/ TrafficAck
    <2>1. CASE TrafficReceive
      BY <2>1 DEF TrafficReceive, TrafficIdle
    <2>2. CASE TrafficAck
      BY <2>2 DEF TrafficAck, TrafficIdle
    <2>. QED
      BY <1>1, <2>1, <2>2
  <1>2. CASE TrafficHit \/ TrafficScan \/ TrafficScanFails \/ TrafficFill
    BY <1>2 DEF TrafficHit, TrafficScan, TrafficScanFails, TrafficFill, Alerting
  <1>3. ASSUME NEW u \in Users, \/ TrafficUnregister(u) \/ TrafficUnregisterFails(u)
                               \/ TrafficPublishSudden(u)
        PROVE  LocalsOK'
    BY <1>3
    DEF TrafficUnregister, TrafficUnregisterFails, TrafficPublishSudden, Alerting
  <1>4. CASE TrafficPublishCritical \/ TrafficNextLine
    BY <1>4 DEF TrafficPublishCritical, TrafficNextLine, Alerting
  <1>5. CASE EventCreated \/ EventTerminated \/ EventAck
    <2>1. CASE EventCreated
      BY <2>1 DEF EventCreated, EventsIdle
    <2>2. CASE EventTerminated
      BY <2>2 DEF EventTerminated, EventsIdle
    <2>3. CASE EventAck
      BY <2>3 DEF EventAck, EventsIdle
    <2>. QED
      BY <1>5, <2>1, <2>2, <2>3
  <1>6. ASSUME NEW k \in Labels, PurgeGet(k) \/ PurgeMiss(k)
        PROVE  LocalsOK'
    BY <1>6 DEF PurgeGet, PurgeMiss, Handling
  <1>7. CASE PurgeSet \/ PurgeDone
    BY <1>7 DEF PurgeSet, PurgeDone
  <1>8. CASE NotificationDown
    BY <1>8 DEF NotificationDown, TrafficIdle, EventsIdle
  <1>9. CASE UNCHANGED <<traffic, events>>
    BY <1>9
  <1>. QED
    BY <1>1, <1>2, <1>3, <1>4, <1>5, <1>6, <1>7, <1>8, <1>9
    DEF OpenNext, NotificationStep, TrafficStep, EventStep, TrafficPublishFails,
        EventTerminatedPanics, NotificationCrash, SurroundingStep,
        EventFails, CacheExpire, NotificationRestart, AlertArrives, UserTold,
        EventSent, RequestTaken, vars, notificationVars

\* Each consumer alone takes from its queue, and only when it is done.
LEMMA HeadsPreserved ==
  ASSUME TypeOK, HandlersOwnHeads, [OpenNext]_vars
  PROVE  HandlersOwnHeads'
  <1>. USE DEF HandlersOwnHeads, TypeOK, BusTypeOK, NotificationTypeOK
  <1>1. CASE TrafficReceive
    BY <1>1 DEF TrafficReceive, TrafficIdle, busVars
  <1>2. CASE TrafficAck
    BY <1>2 DEF TrafficAck, TrafficIdle, busVars
  <1>3. CASE TrafficStep /\ ~TrafficReceive /\ ~TrafficAck
    <2>1. UNCHANGED <<routeQ, trafficQ, events>>
      BY <1>3
      DEF TrafficStep, TrafficHit, TrafficScan, TrafficScanFails, TrafficFill,
          TrafficUnregister, TrafficUnregisterFails, TrafficPublishSudden,
          TrafficPublishCritical, TrafficNextLine, busVars
    <2>2. traffic.at # "idle" /\ traffic'.kind = traffic.kind
      BY <1>3
      DEF TrafficStep, TrafficHit, TrafficScan, TrafficScanFails, TrafficFill,
          TrafficUnregister, TrafficUnregisterFails, TrafficPublishSudden,
          TrafficPublishCritical, TrafficNextLine, Alerting
    <2>. QED
      BY <2>1, <2>2
  <1>4. CASE EventCreated \/ EventTerminated
    <2>1. routeQ # <<>> /\ events'.user = Head(routeQ).user
      BY <1>4 DEF EventCreated, EventTerminated, Delivered, EventsIdle
    <2>2. UNCHANGED <<routeQ, trafficQ, traffic>>
      BY <1>4 DEF EventCreated, EventTerminated, busVars
    <2>. QED
      BY <2>1, <2>2
  <1>5. CASE EventFails \/ EventAck
    BY <1>5 DEF EventFails, EventAck, EventsIdle, Handling
  <1>6. ASSUME NEW k \in Labels, PurgeGet(k) \/ PurgeMiss(k)
        PROVE  HandlersOwnHeads'
    BY <1>6 DEF PurgeGet, PurgeMiss, Handling, busVars
  <1>7. CASE PurgeSet \/ PurgeDone
    BY <1>7 DEF PurgeSet, PurgeDone, Handling, busVars
  <1>8. CASE NotificationDown
    BY <1>8 DEF NotificationDown, TrafficIdle, EventsIdle
  <1>9. ASSUME NEW a \in Alerts, AlertArrives(a)
        PROVE  HandlersOwnHeads'
    <2>1. trafficQ # <<>> => trafficQ' # <<>> /\ Head(trafficQ') = Head(trafficQ)
      BY <1>9, AppendToQueue, NotificationAssumption DEF AlertArrives
    <2>2. UNCHANGED <<routeQ, traffic, events>>
      BY <1>9 DEF AlertArrives, busVars
    <2>. QED
      BY <2>1, <2>2
  <1>10. ASSUME NEW e \in Events, EventSent(e)
         PROVE  HandlersOwnHeads'
    BY <1>10, AppendToQueue DEF EventSent, notificationVars
  <1>11. CASE UNCHANGED <<routeQ, trafficQ, traffic, events>>
    BY <1>11
  <1>. QED
    BY <1>1, <1>2, <1>3, <1>4, <1>5, <1>6, <1>7, <1>8, <1>9, <1>10, <1>11, EventTypes
    DEF OpenNext, NotificationStep, EventStep, TrafficPublishFails, EventTerminatedPanics,
        NotificationCrash, SurroundingStep, CacheExpire,
        NotificationRestart, UserTold, RequestTaken, vars, notificationVars, busVars

-----------------------------------------------------------------------------
LEMMA InitEstablishes == Init => NotificationInv
  <1>. SUFFICES ASSUME Init PROVE NotificationInv
    OBVIOUS
  <1>1. TypeOK
    BY EntryTypes
    DEF Init, BusInit, NotificationInit, TypeOK, BusTypeOK, NotificationTypeOK,
        TrafficIdle, EventsIdle, TrafficPoints, EventPoints, AlertKinds
  <1>2. LocalsOK /\ HandlersOwnHeads
    BY DEF Init, NotificationInit, TrafficIdle, EventsIdle, LocalsOK, HandlersOwnHeads
  <1>. QED
    BY <1>1, <1>2 DEF NotificationInv

LEMMA StepPreserves == NotificationInv /\ [OpenNext]_vars => NotificationInv'
  BY TypePreserved, LocalsPreserved, HeadsPreserved DEF NotificationInv

\* The bound on events only takes steps away.
LEMMA NextIsOpen == Next => OpenNext
  BY DEF Next, NotificationEnv, EventPublished, OpenNext

\* The inductive invariant holds in every reachable state.
THEOREM NotificationInvariant == Spec => []NotificationInv
  BY InitEstablishes, StepPreserves, NextIsOpen, PTL DEF Spec

\* The table, the cache, the queues and both handlers' locals keep their types.
THEOREM NotificationTypeCorrect == Spec => []TypeOK
  <1>1. NotificationInv => TypeOK
    BY DEF NotificationInv
  <1>. QED
    BY <1>1, NotificationInvariant, PTL

\* Whatever the other consumer, the cache, failures, panics and crashes do, each
\* handler ends with an ack or nack of the very message it worked on.
THEOREM NotificationOwnsHeads == Spec => []HandlersOwnHeads
  <1>1. NotificationInv => HandlersOwnHeads
    BY DEF NotificationInv
  <1>. QED
    BY <1>1, NotificationInvariant, PTL
=============================================================================
