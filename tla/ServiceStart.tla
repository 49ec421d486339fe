---------------------------- MODULE ServiceStart ----------------------------
(***************************************************************************)
(* How the five services come up. Each main is a script: it listens,       *)
(* connects to the broker with a few attempts, declares its own exchange,  *)
(* binds its queues to exchanges that other services declare, and dials    *)
(* other services. Any failure but that of an attempt to connect ends the  *)
(* process, and no container is restarted but by its operator.             *)
(***************************************************************************)
EXTENDS Naturals, Sequences, FiniteSets

CONSTANTS
  MaxConnectionRetries,  \* attempts to connect to the broker
  MaxStops               \* bound: services killed and stops of the broker

ASSUME StartAssumption == MaxConnectionRetries \in Nat \ {0} /\ MaxStops \in Nat

VARIABLES
  step,      \* the next step of each service's script, 0 while it is down
  tries,     \* failed attempts to connect in a row
  linked,    \* services whose channel to the broker is open
  brokerUp,
  exchanges, \* exchanges the broker knows: it keeps them, they are durable
  bound,     \* queues bound to the exchange they read from
  kept,      \* history: queues the broker stored a message in
  everUp,    \* history: services that have come up once
  stops

vars == <<step, tries, linked, brokerUp, exchanges, bound, kept, everUp, stops>>

Services == {"planner", "notification", "traffic", "user_service", "gateway"}

-----------------------------------------------------------------------------
\* What a script is made of, and the scripts.
Listen == [do |-> "listen", arg |-> "none"]
Connect == [do |-> "connect", arg |-> "none"]
Declare(exchange) == [do |-> "declare", arg |-> exchange]
Bind(queue) == [do |-> "bind", arg |-> queue]
Dial(service) == [do |-> "dial", arg |-> service]

\* Variant: the traffic queue is bound to the exchange that its reader publishes to.
SourceOwn == [route_planner_queue |-> "planner", traffic_queue |-> "notification",
              planner_queue |-> "notification", user_queue |-> "notification"]

\* The exchange of each queue, named for the service that declares it.
Source == [route_planner_queue |-> "planner", traffic_queue |-> "traffic",
           planner_queue |-> "notification", user_queue |-> "notification"]

PlannerMain == <<Listen, Connect, Declare("planner"), Bind("planner_queue")>>
NotificationMain ==
  <<Connect, Declare("notification"), Bind("traffic_queue"), Bind("route_planner_queue")>>
TrafficMain == <<Connect, Declare("traffic")>>
UserServiceMain ==
  <<Listen, Dial("planner"), Connect, Declare("user_service"), Bind("user_queue")>>
GatewayMain == <<Dial("user_service"), Dial("planner")>>

\* Variant: a service binds its queues before it declares its exchange.
ScriptBindsFirst ==
  [planner |-> <<Listen, Connect, Bind("planner_queue"), Declare("planner")>>,
   notification |-> <<Connect, Bind("traffic_queue"), Bind("route_planner_queue"),
                      Declare("notification")>>,
   traffic |-> TrafficMain, user_service |-> UserServiceMain, gateway |-> GatewayMain]

Script ==
  [planner |-> PlannerMain, notification |-> NotificationMain, traffic |-> TrafficMain,
   user_service |-> UserServiceMain, gateway |-> GatewayMain]

Up(s) == step[s] > Len(Script[s])
Starting(s) == step[s] \in DOMAIN Script[s]
Todo(s) == Script[s][step[s]]
About(s, do) == Starting(s) /\ Todo(s).do = do

\* A service that listens is past the step that does so.
Listening(s) == \E i \in DOMAIN Script[s] : Script[s][i] = Listen /\ i < step[s]

\* The queues a service reads, and so binds.
Reads(s) == {Script[s][i].arg : i \in {j \in DOMAIN Script[s] : Script[s][j].do = "bind"}}

Init ==
  /\ step = [s \in Services |-> 0] /\ tries = [s \in Services |-> 0]
  /\ linked = {} /\ brokerUp = TRUE
  /\ exchanges = {} /\ bound = {}
  /\ kept = {} /\ everUp = {} /\ stops = 0

-----------------------------------------------------------------------------
\* The steps of a script.

Advance(s) ==
  /\ step' = [step EXCEPT ![s] = @ + 1]
  /\ everUp' = IF step'[s] > Len(Script[s]) THEN everUp \cup {s} ELSE everUp

\* log.Fatalf, a panic or a signal: its channel closes.
Dies(s) ==
  /\ step' = [step EXCEPT ![s] = 0]
  /\ tries' = [tries EXCEPT ![s] = 0]
  /\ linked' = linked \ {s}
  /\ UNCHANGED <<brokerUp, exchanges, bound, kept, everUp>>

ServiceStarts(s) ==
  /\ step[s] = 0 /\ step' = [step EXCEPT ![s] = 1]
  /\ UNCHANGED <<tries, linked, brokerUp, exchanges, bound, kept, everUp, stops>>

Listens(s) ==
  /\ About(s, "listen") /\ Advance(s)
  /\ UNCHANGED <<tries, linked, brokerUp, exchanges, bound, kept, stops>>

\* InitRabbitMQ: it sleeps longer after each failed attempt, after the last one too.
Connects(s) ==
  /\ About(s, "connect") /\ brokerUp /\ Advance(s)
  /\ linked' = linked \cup {s} /\ tries' = [tries EXCEPT ![s] = 0]
  /\ UNCHANGED <<brokerUp, exchanges, bound, kept, stops>>

\* Variant: one attempt more is made.
AttemptFailsAgain(s) ==
  /\ About(s, "connect") /\ ~brokerUp /\ tries[s] < MaxConnectionRetries
  /\ tries' = [tries EXCEPT ![s] = @ + 1]
  /\ UNCHANGED <<step, linked, brokerUp, exchanges, bound, kept, everUp, stops>>

AttemptFails(s) ==
  /\ About(s, "connect") /\ ~brokerUp /\ tries[s] + 1 < MaxConnectionRetries
  /\ tries' = [tries EXCEPT ![s] = @ + 1]
  /\ UNCHANGED <<step, linked, brokerUp, exchanges, bound, kept, everUp, stops>>

LastAttemptFails(s) ==
  /\ About(s, "connect") /\ ~brokerUp /\ tries[s] + 1 = MaxConnectionRetries
  /\ Dies(s) /\ UNCHANGED stops

Declares(s) ==
  /\ About(s, "declare") /\ s \in linked /\ Advance(s)
  /\ exchanges' = exchanges \cup {Todo(s).arg}
  /\ UNCHANGED <<tries, linked, brokerUp, bound, kept, stops>>

\* Variant: an error of the bind is returned without a test.
BindsUnchecked(s) ==
  /\ About(s, "bind") /\ s \in linked /\ Advance(s)
  /\ bound' = IF Source[Todo(s).arg] \in exchanges THEN bound \cup {Todo(s).arg} ELSE bound
  /\ UNCHANGED <<tries, linked, brokerUp, exchanges, kept, stops>>

Binds(s) ==
  /\ About(s, "bind") /\ s \in linked /\ Source[Todo(s).arg] \in exchanges /\ Advance(s)
  /\ bound' = bound \cup {Todo(s).arg}
  /\ UNCHANGED <<tries, linked, brokerUp, exchanges, kept, stops>>

\* The channel is closed, or the broker closes it for an exchange it does not know.
SetupFails(s) ==
  /\ \/ About(s, "declare") /\ s \notin linked
     \/ About(s, "bind") /\ (s \notin linked \/ Source[Todo(s).arg] \notin exchanges)
  /\ Dies(s) /\ UNCHANGED stops

\* The one dial of a caller: if the other dies later, the calls of this one fail until
\* it is started again.
Dials(s) ==
  /\ About(s, "dial") /\ Listening(Todo(s).arg) /\ Advance(s)
  /\ UNCHANGED <<tries, linked, brokerUp, exchanges, bound, kept, stops>>

DialFails(s) ==
  /\ About(s, "dial") /\ ~Listening(Todo(s).arg)
  /\ Dies(s) /\ UNCHANGED stops

StartStep(s) ==
  \/ Listens(s) \/ Connects(s) \/ AttemptFails(s) \/ LastAttemptFails(s)
  \/ Declares(s) \/ Binds(s) \/ SetupFails(s) \/ Dials(s) \/ DialFails(s)

-----------------------------------------------------------------------------
\* The running system.

\* The monitor of the traffic service sends its alerts again every minute; on a closed
\* channel each publish fails and is logged. The broker drops what no queue is bound to.
AlertSent ==
  /\ Up("traffic") /\ "traffic" \in linked
  /\ kept' = kept \cup {q \in bound : Source[q] = "traffic"}
  /\ UNCHANGED <<step, tries, linked, brokerUp, exchanges, bound, everUp, stops>>

Killed(s) ==
  /\ step[s] > 0 /\ stops < MaxStops /\ stops' = stops + 1
  /\ Dies(s)

\* All channels close, and no service opens a new one while it runs.
BrokerStops ==
  /\ brokerUp /\ stops < MaxStops /\ stops' = stops + 1
  /\ brokerUp' = FALSE /\ linked' = {}
  /\ UNCHANGED <<step, tries, exchanges, bound, kept, everUp>>

BrokerStarts ==
  /\ ~brokerUp /\ brokerUp' = TRUE
  /\ UNCHANGED <<step, tries, linked, exchanges, bound, kept, everUp, stops>>

Next ==
  \/ \E s \in Services : ServiceStarts(s) \/ StartStep(s) \/ Killed(s)
  \/ AlertSent \/ BrokerStops \/ BrokerStarts

Spec == Init /\ [][Next]_vars

\* A main goes on, the monitor's ticker too. That a service which is down, and the
\* broker, are started again is assumed of the operator, not a property of the code.
Fairness ==
  /\ \A s \in Services : WF_vars(ServiceStarts(s)) /\ WF_vars(StartStep(s))
  /\ WF_vars(AlertSent) /\ WF_vars(BrokerStarts)

FairSpec == Spec /\ Fairness

-----------------------------------------------------------------------------
TypeOK ==
  /\ \A s \in Services : step[s] \in 0..(Len(Script[s]) + 1)
  /\ tries \in [Services -> 0..(MaxConnectionRetries - 1)]
  /\ linked \subseteq Services /\ brokerUp \in BOOLEAN
  /\ exchanges \subseteq Services /\ bound \subseteq DOMAIN Source
  /\ kept \subseteq bound /\ everUp \subseteq Services
  /\ stops \in 0..MaxStops

\* From the first time a service has come up, what is published for it is stored: its
\* queues stay bound while it or the broker is down, and while it dies in a new start.
OnceUpAlwaysRouted == \A s \in everUp : Reads(s) \subseteq bound

\* Services that die because another one is not there yet end up running, in whatever
\* order they are started again: none waits for what only a later step of the other
\* provides.
EveryoneStarts == <>[](\A s \in Services : Up(s))

\* The alerts dropped before Notification has ever bound its queue are made good: one
\* sent later is stored, unless the monitor's channel is closed for good.
AlertsGetThrough == <>("traffic_queue" \in kept) \/ <>[]("traffic" \notin linked)
=============================================================================
