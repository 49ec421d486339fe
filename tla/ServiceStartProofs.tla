------------------------- MODULE ServiceStartProofs -------------------------
(***************************************************************************)
(* The start of the services, for any number of attempts and stops: what a *)
(* service reads stays bound from the first time it has come up.           *)
(***************************************************************************)
EXTENDS ServiceStart, TLAPS

\* A queue is bound when the script of its reader has passed the step that binds it, or
\* when the reader has come up before. This is the inductive invariant.
BoundWhenPassed ==
  \A s \in Services : \A i \in DOMAIN Script[s] :
    (i < step[s] /\ Script[s][i].do = "bind") => Script[s][i].arg \in bound

StartInv ==
  /\ step \in [Services -> Nat]
  /\ BoundWhenPassed
  /\ OnceUpAlwaysRouted

\* Each script is a sequence.
LEMMA ScriptLengths ==
  \A s \in Services : Len(Script[s]) \in Nat /\ DOMAIN Script[s] = 1..Len(Script[s])
  BY DEF Services, Script, PlannerMain, NotificationMain, TrafficMain, UserServiceMain,
         GatewayMain, Listen, Connect, Declare, Bind, Dial

\* A step that binds nothing, or what it is at.
LEMMA Advances ==
  ASSUME StartInv, NEW s \in Services, Starting(s), Advance(s), bound \subseteq bound',
         Todo(s).do = "bind" => Todo(s).arg \in bound'
  PROVE  StartInv'
  <1>1. step[s] \in Nat /\ step[s] \in DOMAIN Script[s]
    BY DEF StartInv, Starting
  <1>2. /\ step' \in [Services -> Nat]
        /\ \A t \in Services : step'[t] = IF t = s THEN step[s] + 1 ELSE step[t]
    BY <1>1 DEF Advance, StartInv
  <1>3. BoundWhenPassed'
    <2>. SUFFICES ASSUME NEW t \in Services, NEW i \in DOMAIN Script[t],
                         i < step'[t], Script[t][i].do = "bind"
                  PROVE  Script[t][i].arg \in bound'
      BY DEF BoundWhenPassed
    <2>1. i \in Nat
      BY ScriptLengths
    <2>2. CASE i < step[t]
      BY <2>2 DEF StartInv, BoundWhenPassed
    <2>3. CASE ~(i < step[t])
      <3>1. t = s /\ i = step[s]
        BY <1>1, <1>2, <2>1, <2>3
      <3>. QED
        BY <3>1 DEF Todo
    <2>. QED
      BY <2>2, <2>3
  <1>4. ASSUME NEW t \in everUp' PROVE Reads(t) \subseteq bound'
    <2>1. CASE t \in everUp
      BY <2>1 DEF StartInv, OnceUpAlwaysRouted
    <2>2. CASE t = s /\ step'[s] > Len(Script[s])
      <3>1. \A i \in DOMAIN Script[s] : i < step'[s]
        BY <1>2, <2>2, ScriptLengths
      <3>. QED
        BY <1>3, <2>2, <3>1 DEF Reads, BoundWhenPassed
    <2>. QED
      BY <1>4, <2>1, <2>2 DEF Advance
  <1>. QED
    BY <1>2, <1>3, <1>4 DEF StartInv, OnceUpAlwaysRouted

\* A service that dies starts its script anew.
LEMMA Restarts ==
  ASSUME StartInv, NEW s \in Services, NEW n \in {0, 1},
         step' = [step EXCEPT ![s] = n], UNCHANGED <<bound, everUp>>
  PROVE  StartInv'
  <1>1. /\ step' \in [Services -> Nat]
        /\ \A t \in Services : step'[t] = IF t = s THEN n ELSE step[t]
    BY DEF StartInv
  <1>2. BoundWhenPassed'
    <2>. SUFFICES ASSUME NEW t \in Services, NEW i \in DOMAIN Script[t],
                         i < step'[t], Script[t][i].do = "bind"
                  PROVE  Script[t][i].arg \in bound
      BY DEF BoundWhenPassed
    <2>1. t # s
      BY <1>1, ScriptLengths
    <2>. QED
      BY <1>1, <2>1 DEF StartInv, BoundWhenPassed
  <1>. QED
    BY <1>1, <1>2 DEF StartInv, OnceUpAlwaysRouted

LEMMA StartInductive == StartInv /\ [Next]_vars => StartInv'
  <1>. SUFFICES ASSUME StartInv, [Next]_vars PROVE StartInv'
    OBVIOUS
  <1>1. ASSUME NEW s \in Services, ServiceStarts(s) PROVE StartInv'
    BY <1>1, Restarts DEF ServiceStarts
  <1>2. ASSUME NEW s \in Services, Listens(s) \/ Connects(s) \/ Declares(s) \/ Dials(s)
        PROVE  StartInv'
    <2>1. Starting(s) /\ Advance(s) /\ bound' = bound /\ Todo(s).do # "bind"
      BY <1>2 DEF Listens, Connects, Declares, Dials, About
    <2>. QED
      BY <2>1, Advances
  <1>3. ASSUME NEW s \in Services, Binds(s) PROVE StartInv'
    <2>1. Starting(s) /\ Advance(s) /\ bound' = bound \cup {Todo(s).arg}
      BY <1>3 DEF Binds, About
    <2>. QED
      BY <2>1, Advances
  <1>4. ASSUME NEW s \in Services,
               LastAttemptFails(s) \/ SetupFails(s) \/ DialFails(s) \/ Killed(s)
        PROVE  StartInv'
    <2>1. Dies(s)
      BY <1>4 DEF LastAttemptFails, SetupFails, DialFails, Killed
    <2>. QED
      BY <2>1, Restarts DEF Dies
  <1>5. ASSUME UNCHANGED <<step, bound, everUp>> PROVE StartInv'
    BY <1>5 DEF StartInv, BoundWhenPassed, OnceUpAlwaysRouted
  <1>6. ASSUME NEW s \in Services, AttemptFails(s) PROVE StartInv'
    BY <1>5, <1>6 DEF AttemptFails
  <1>7. ASSUME AlertSent \/ BrokerStops \/ BrokerStarts \/ UNCHANGED vars PROVE StartInv'
    BY <1>5, <1>7 DEF AlertSent, BrokerStops, BrokerStarts, vars
  <1>. QED
    BY <1>1, <1>2, <1>3, <1>4, <1>6, <1>7 DEF Next, StartStep

-----------------------------------------------------------------------------
\* Types. What the steps of a script name, and where a step leads.
LEMMA ScriptNames ==
  ASSUME NEW s \in Services, Starting(s)
  PROVE  /\ Todo(s).do = "declare" => Todo(s).arg \in Services
         /\ Todo(s).do = "bind" => Todo(s).arg \in DOMAIN Source
  <1>1. /\ \A i \in DOMAIN Script[s] :
             Script[s][i].do = "declare" => Script[s][i].arg \in Services
        /\ \A i \in DOMAIN Script[s] :
             Script[s][i].do = "bind" => Script[s][i].arg \in DOMAIN Source
    BY DEF Services, Script, PlannerMain, NotificationMain, TrafficMain, UserServiceMain,
           GatewayMain, Listen, Connect, Declare, Bind, Dial, Source
  <1>. QED
    BY <1>1 DEF Starting, Todo

StartTypes == step \in [Services -> Nat] /\ TypeOK

LEMMA StepMoves ==
  ASSUME StartTypes, NEW s \in Services, NEW n \in 0..(Len(Script[s]) + 1),
         step' = [step EXCEPT ![s] = n]
  PROVE  step' \in [Services -> Nat] /\ \A t \in Services : step'[t] \in 0..(Len(Script[t]) + 1)
  BY ScriptLengths DEF StartTypes, TypeOK

LEMMA TypesWhenDead ==
  ASSUME StartTypes, NEW s \in Services, Dies(s), stops' \in 0..MaxStops
  PROVE  StartTypes'
  <1>1. 0 \in 0..(Len(Script[s]) + 1) /\ 0 \in 0..(MaxConnectionRetries - 1)
    BY ScriptLengths, StartAssumption
  <1>2. step' \in [Services -> Nat] /\ \A t \in Services : step'[t] \in 0..(Len(Script[t]) + 1)
    BY <1>1, StepMoves DEF Dies
  <1>3. tries' \in [Services -> 0..(MaxConnectionRetries - 1)]
    BY <1>1 DEF Dies, StartTypes, TypeOK
  <1>. QED
    BY <1>2, <1>3 DEF Dies, StartTypes, TypeOK

LEMMA TypesWhenAdvancing ==
  ASSUME StartTypes, NEW s \in Services, Starting(s), Advance(s)
  PROVE  /\ step' \in [Services -> Nat] /\ \A t \in Services : step'[t] \in 0..(Len(Script[t]) + 1)
         /\ everUp' \subseteq Services
  <1>1. step[s] + 1 \in 0..(Len(Script[s]) + 1)
    BY ScriptLengths DEF Starting
  <1>. QED
    BY <1>1, StepMoves DEF Advance, StartTypes, TypeOK

LEMMA TypesInductive == StartTypes /\ [Next]_vars => StartTypes'
  <1>. SUFFICES ASSUME StartTypes, [Next]_vars PROVE StartTypes'
    OBVIOUS
  <1>1. ASSUME NEW s \in Services, ServiceStarts(s) PROVE StartTypes'
    <2>1. 1 \in 0..(Len(Script[s]) + 1)
      BY ScriptLengths
    <2>. QED
      BY <1>1, <2>1, StepMoves DEF ServiceStarts, StartTypes, TypeOK
  <1>2. ASSUME NEW s \in Services, Listens(s) \/ Dials(s) PROVE StartTypes'
    BY <1>2, TypesWhenAdvancing DEF Listens, Dials, About, StartTypes, TypeOK
  <1>3. ASSUME NEW s \in Services, Connects(s) PROVE StartTypes'
    <2>1. tries' \in [Services -> 0..(MaxConnectionRetries - 1)]
      BY <1>3, StartAssumption DEF Connects, StartTypes, TypeOK
    <2>. QED
      BY <1>3, <2>1, TypesWhenAdvancing DEF Connects, About, StartTypes, TypeOK
  <1>4. ASSUME NEW s \in Services, AttemptFails(s) PROVE StartTypes'
    <2>1. tries[s] + 1 \in 0..(MaxConnectionRetries - 1)
      BY <1>4, StartAssumption DEF AttemptFails, StartTypes, TypeOK
    <2>2. tries' \in [Services -> 0..(MaxConnectionRetries - 1)]
      BY <1>4, <2>1 DEF AttemptFails, StartTypes, TypeOK
    <2>. QED
      BY <1>4, <2>2 DEF AttemptFails, StartTypes, TypeOK
  <1>5. ASSUME NEW s \in Services, Declares(s) PROVE StartTypes'
    <2>1. Todo(s).arg \in Services
      BY <1>5, ScriptNames DEF Declares, About
    <2>. QED
      BY <1>5, <2>1, TypesWhenAdvancing DEF Declares, About, StartTypes, TypeOK
  <1>6. ASSUME NEW s \in Services, Binds(s) PROVE StartTypes'
    <2>1. Todo(s).arg \in DOMAIN Source
      BY <1>6, ScriptNames DEF Binds, About
    <2>. QED
      BY <1>6, <2>1, TypesWhenAdvancing DEF Binds, About, StartTypes, TypeOK
  <1>7. ASSUME NEW s \in Services,
               LastAttemptFails(s) \/ SetupFails(s) \/ DialFails(s) \/ Killed(s)
        PROVE  StartTypes'
    <2>1. Dies(s) /\ stops' \in 0..MaxStops
      BY <1>7, StartAssumption
      DEF LastAttemptFails, SetupFails, DialFails, Killed, StartTypes, TypeOK
    <2>. QED
      BY <2>1, TypesWhenDead
  <1>8. ASSUME AlertSent PROVE StartTypes'
    BY <1>8 DEF AlertSent, StartTypes, TypeOK
  <1>9. ASSUME BrokerStops PROVE StartTypes'
    <2>1. stops' \in 0..MaxStops
      BY <1>9, StartAssumption DEF BrokerStops, StartTypes, TypeOK
    <2>. QED
      BY <1>9, <2>1 DEF BrokerStops, StartTypes, TypeOK
  <1>10. ASSUME BrokerStarts \/ UNCHANGED vars PROVE StartTypes'
    BY <1>10 DEF BrokerStarts, vars, StartTypes, TypeOK
  <1>. QED
    BY <1>1, <1>2, <1>3, <1>4, <1>5, <1>6, <1>7, <1>8, <1>9, <1>10 DEF Next, StartStep

-----------------------------------------------------------------------------
\* No script runs past its end and no count past its limit; the broker stores messages
\* only in queues that are bound, and knows only exchanges that a service declares.
THEOREM StartTypeCorrect == Spec => []TypeOK
  <1>1. Init => StartTypes
    BY ScriptLengths, StartAssumption DEF Init, StartTypes, TypeOK
  <1>2. StartTypes => TypeOK
    BY DEF StartTypes
  <1>. QED
    BY <1>1, <1>2, TypesInductive, PTL DEF Spec

\* Once a service has come up its queues are bound for good: neither its own failed
\* restarts nor those of the services that declare the exchanges undo it.
THEOREM StartOnceUpAlwaysRouted == Spec => []OnceUpAlwaysRouted
  <1>1. Init => StartInv
    BY ScriptLengths DEF Init, StartInv, BoundWhenPassed, OnceUpAlwaysRouted
  <1>2. StartInv => OnceUpAlwaysRouted
    BY DEF StartInv
  <1>. QED
    BY <1>1, <1>2, StartInductive, PTL DEF Spec
=============================================================================
