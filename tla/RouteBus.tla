------------------------------ MODULE RouteBus ------------------------------
(***************************************************************************)
(* What RoutePlanner and Notification exchange: the users, the routes and  *)
(* the labels under which a route's lines are registered, and the two      *)
(* RabbitMQ queues between the two services.                               *)
(*                                                                         *)
(*   routeQ   route_planner_queue: route events, RoutePlanner -> Notification *)
(*   notifQ   notification queue of the planner: recalculation requests,   *)
(*            Notification -> RoutePlanner                                 *)
(*                                                                         *)
(* Queues are durable, messages persistent, acknowledgements manual, and   *)
(* no prefetch limit is set (consumer.go never calls Qos), so every        *)
(* message of a queue is already delivered to its only consumer.           *)
(***************************************************************************)
EXTENDS Naturals, Sequences, FiniteSets

CONSTANTS
  Users,            \* user ids, the partition key of both DynamoDB tables
  Labels,           \* strings found in ActiveRoute.LineIDs: line ids and line names
  Planned,          \* journeys TfL can answer with
  Favourites,       \* routes kept in Postgres that a user can ask for again
  ShortFavourites,  \* favourites with fewer stop names than line names
  LineIDs,          \* [Planned -> SUBSET Labels]: ids of all route options of all legs
  LineNames,        \* [Favourites -> SUBSET Labels]: names kept with the favourite
  NoRoute,          \* no item for the user in ChosenRoutes
  NoLabel,          \* no label
  NoUser,           \* a handler's user between two messages
  MaxEvents,        \* bound: no new input while routeQ is this long
  MaxRequests       \* bound: no new recalculation request while notifQ is this long

\* What may fail, chosen for each service. "db": a DynamoDB call returns an error;
\* "bus": a publish returns an error; "crash": the process is killed.
FaultKinds == {"db", "bus", "crash"}

Routes == Planned \cup Favourites

ASSUME BusAssumption ==
  /\ Planned \cap Favourites = {}
  /\ ShortFavourites \subseteq Favourites
  /\ LineIDs \in [Planned -> SUBSET Labels]
  /\ LineNames \in [Favourites -> SUBSET Labels]
  /\ NoRoute \notin Routes
  /\ NoLabel \notin Labels
  /\ NoUser \notin Users
  /\ MaxEvents \in Nat
  /\ MaxRequests \in Nat

VARIABLES routeQ, notifQ

busVars == <<routeQ, notifQ>>

-----------------------------------------------------------------------------
\* The LineIDs a route is registered under. A planned journey gives the ids of
\* its route options, a favourite gives back the line NAMES it was saved with.
Keys(r) == IF r \in Planned THEN LineIDs[r] ELSE LineNames[r]

\* An ActiveRoutes item is a set of labels; NoEntry stands for no item.
NoEntry == {NoLabel}
Entries == (SUBSET Labels) \cup {NoEntry}

\* The entry a ChosenRoutes item should have.
EntryOf(r) == IF r = NoRoute THEN NoEntry ELSE Keys(r)

\* Bodies of active.route.created and active.route.terminated. The second is a
\* ChosenRoute: decoded as an ActiveRoute it has a user and no lines.
Created(u, r) == [key |-> "created", user |-> u, keys |-> Keys(r)]
Terminated(u) == [key |-> "terminated", user |-> u, keys |-> {}]

Events == [key: {"created", "terminated"}, user: Users, keys: SUBSET Labels]

\* Variant to try the runs on: a message given back keeps its place at the head.
NackInPlace(q) == q

\* Ack removes the delivered message. Nack(requeue) gives it back to the broker,
\* which delivers it again at once, behind all that was already delivered.
Ack(q) == Tail(q)
Nack(q) == Append(Tail(q), Head(q))

BusInit == routeQ = <<>> /\ notifQ = <<>>

BusTypeOK == routeQ \in Seq(Events) /\ notifQ \in Seq(Users)
=============================================================================
