------------------------- MODULE RabbitClientProofs -------------------------
(***************************************************************************)
(* The consumer loop and the breakers, for any number of messages, any     *)
(* messages that are always given back, and any loss of the channel or of  *)
(* the process: nothing leaves the queue unhandled, nothing is delivered   *)
(* twice or shown too early, a live channel is never refused, and a dead   *)
(* one is not asked for long.                                              *)
(***************************************************************************)
EXTENDS RabbitClient, FiniteSetTheorems, TLAPS

\* The loop as a record of its three fields.
LoopRecord == loop = [at |-> loop.at, msg |-> loop.msg, wait |-> loop.wait]

\* What the queue no longer holds was handled, and so is what is about to be
\* acknowledged.
AckInv ==
  /\ arrived \in Nat /\ LoopRecord
  /\ loop.at = "ack" => loop.msg \in handled
  /\ AckedWasHandled

\* While the channel is open neither breaker has tripped.
LiveInv ==
  /\ breaker \in Breakers /\ pubBreaker \in Breakers
  /\ Running /\ channel = "open" => breaker.state = "closed" /\ pubBreaker.state = "closed"

\* What is in the queue was stored, what was handled was offered, and the loop's message
\* is one the handler has been called with.
MessagesKnown ==
  /\ stored \subseteq 1..arrived
  /\ handled \subseteq offered
  /\ loop.msg # NoMessage => loop.msg \in offered

\* The loop has a message while the handler works on it, and sleeps for a while.
LoopShape ==
  /\ loop.msg # NoMessage <=> loop.at \in {"handling", "ack", "nack"}
  /\ loop.at = "sleep" => loop.wait > 0

\* Messages wait in the buffer of a consumer whose channel is open.
BufferIsLive ==
  buffer # <<>> =>
    channel = "open" /\ loop.at \in {"consuming", "handling", "ack", "nack", "stopped"}

InBuffer(m) == \E i \in DOMAIN buffer : buffer[i] = m

\* Each stored message is with the loop or waits at one place of the buffer.
Dealt ==
  Registered =>
    /\ \A m \in Messages : m \in stored <=> m = loop.msg \/ InBuffer(m)
    /\ ~InBuffer(loop.msg)
    /\ \A i, j \in DOMAIN buffer : i # j => buffer[i] # buffer[j]

\* Those the handler has not seen wait in the order of their arrival.
UnseenInOrder ==
  Registered =>
    \A i, j \in DOMAIN buffer :
      i < j /\ buffer[i] \notin offered /\ buffer[j] \notin offered => buffer[i] < buffer[j]

\* The inductive invariant of the queue.
QueueInv ==
  /\ TypeOK /\ LoopShape /\ AckInv
  /\ MessagesKnown /\ BufferIsLive /\ Dealt /\ UnseenInOrder
  /\ FirstOffersInOrder

\* How many units of sleep a consumer whose attempts fail needs until its breaker opens,
\* from an attempt with f failures and l units before the count expires. A count that
\* expires first starts again at the attempt that finds it expired.
UntilTrip(f, l) == IF l > TripAfter - f THEN TripAfter - f ELSE l + TripAfter

Fresh == waited = 0 /\ breaker.state = "closed" /\ breaker.fails = 0

\* The inductive invariant of the consumer's patience.
TripInv ==
  /\ breaker \in Breakers /\ waited \in 0..MaxWaited
  /\ loop.wait \in 0..RefusedFor /\ LoopRecord
  /\ Running /\ channel = "open" => Fresh /\ loop.at # "sleep"
  /\ Running /\ loop.at \in {"consuming", "handling", "ack", "nack"} => Fresh
  /\ Running /\ breaker.state = "closed" =>
       /\ loop.at = "attempt" => waited + UntilTrip(breaker.fails, breaker.left) <= 6
       /\ loop.at = "sleep" =>
            /\ loop.wait = 1
            /\ waited + 1 + UntilTrip(breaker.fails, Older(breaker).left) <= 6
       /\ loop.at = "stopped" => waited <= 6

-----------------------------------------------------------------------------
\* The breaker.
LEMMA GenerationType ==
  ASSUME NEW s \in {"closed", "open", "half-open"}
  PROVE  Generation(s) \in Breakers /\ Generation(s).state = s
  BY DEF Generation, Breakers, Interval, Timeout, TripAfter, HalfOpenRequests

LEMMA CurrentType ==
  ASSUME NEW b \in Breakers
  PROVE  Current(b) \in Breakers /\ (b.state = "closed" => Current(b).state = "closed")
  BY GenerationType DEF Current, Expired, Breakers

LEMMA AdmitType ==
  ASSUME NEW b \in Breakers, ~Refuses(b)
  PROVE  Admit(b) \in Breakers /\ (b.state = "closed" => Admit(b).state = "closed")
  <1>1. PICK c \in Breakers : c = Current(b)
    BY CurrentType
  <1>2. c.state = "half-open" => c.asked + 1 \in 0..HalfOpenRequests
    BY <1>1 DEF Refuses, Breakers, HalfOpenRequests
  <1>3. c.state = "half-open" => [c EXCEPT !.asked = c.asked + 1] \in Breakers
    BY <1>2 DEF Breakers
  <1>. QED
    BY <1>1, <1>3, CurrentType DEF Admit

LEMMA FailedType ==
  ASSUME NEW b \in Breakers PROVE Failed(b) \in Breakers
  <1>1. b.fails # TripAfter => [b EXCEPT !.fails = b.fails + 1] \in Breakers
    BY DEF Breakers, TripAfter
  <1>. QED
    BY <1>1, CurrentType, GenerationType DEF Failed

LEMMA SucceededType ==
  ASSUME NEW b \in Breakers
  PROVE  Succeeded(b) \in Breakers /\ (b.state = "closed" => Succeeded(b).state = "closed")
  <1>1. [b EXCEPT !.fails = 0] \in Breakers /\ [b EXCEPT !.fails = 0].state = b.state
    BY DEF Breakers, TripAfter
  <1>2. b.won + 1 # HalfOpenRequests => [b EXCEPT !.won = b.won + 1] \in Breakers
    BY DEF Breakers, HalfOpenRequests
  <1>. QED
    BY <1>1, <1>2, CurrentType, GenerationType DEF Succeeded

LEMMA OlderType ==
  ASSUME NEW b \in Breakers
  PROVE  Older(b) \in Breakers /\ Older(b).state = b.state
  BY DEF Older, Breakers, Interval

\* A closed breaker refuses nobody.
LEMMA ClosedAdmits ==
  ASSUME NEW b \in Breakers, b.state = "closed"
  PROVE  ~Refuses(b)
  BY CurrentType DEF Refuses

-----------------------------------------------------------------------------
\* The order in which the broker delivers what it holds.
LEMMA RanksIncrease ==
  ASSUME NEW S \in SUBSET Nat, IsFiniteSet(S), NEW a \in S, NEW b \in S, a < b
  PROVE  /\ Cardinality({n \in S : n < a}) \in Nat
         /\ Cardinality({n \in S : n < a}) < Cardinality({n \in S : n < b})
         /\ Cardinality({n \in S : n < b}) < Cardinality(S)
  <1>. DEFINE Below(m) == {n \in S : n < m}
  <1>1. IsFiniteSet(Below(b)) /\ Cardinality(Below(b)) \in Nat /\ Cardinality(S) \in Nat
    BY FS_Subset, FS_CardinalityType
  <1>2. Below(a) \in SUBSET Below(b) /\ Below(a) # Below(b)
    <2>1. a \in Below(b) /\ a \notin Below(a)
      OBVIOUS
    <2>2. \A n \in S : n < a => n < b
      OBVIOUS
    <2>3. Below(a) \subseteq Below(b)
      BY <2>2
    <2>. QED
      BY <2>1, <2>3, Zenon
  <1>3. /\ Cardinality(Below(a)) \in Nat
        /\ Cardinality(Below(a)) <= Cardinality(Below(b))
        /\ Cardinality(Below(a)) # Cardinality(Below(b))
    BY <1>1, <1>2, FS_Subset, FS_CardinalityType
  <1>4. Below(b) \in SUBSET S /\ Below(b) # S
    <2>1. b \notin Below(b)
      OBVIOUS
    <2>. QED
      BY <2>1
  <1>5. Cardinality(Below(b)) <= Cardinality(S) /\ Cardinality(Below(b)) # Cardinality(S)
    BY <1>4, FS_Subset
  <1>. QED
    BY <1>1, <1>3, <1>5

\* For each k up to the size of the set, one of its members has k - 1 before it.
LEMMA EveryRank ==
  ASSUME NEW S \in SUBSET Nat, IsFiniteSet(S)
  PROVE  /\ \A m \in S : Cardinality({k \in S : k < m}) \in 0..(Cardinality(S) - 1)
         /\ \A k \in 1..Cardinality(S) :
              \E m \in S : Cardinality({n \in S : n < m}) = k - 1
  <1>. DEFINE n == Cardinality(S)
              rank == [m \in S |-> Cardinality({k \in S : k < m})]
  <1>1. n \in Nat
    BY FS_CardinalityType
  <1>2. \A a, b \in S : a < b => rank[a] \in Nat /\ rank[a] < rank[b]
    BY RanksIncrease
  <1>3. \A m \in S : rank[m] \in 0..(n - 1)
    <2>. SUFFICES ASSUME NEW m \in S PROVE rank[m] \in 0..(n - 1)
      OBVIOUS
    <2>. DEFINE B == {k \in S : k < m}
    <2>1. B \in SUBSET S /\ B # S
      <3>1. m \notin B
        OBVIOUS
      <3>. QED
        BY <3>1
    <2>2. IsFiniteSet(B) /\ Cardinality(B) \in Nat /\ Cardinality(B) <= n /\ Cardinality(B) # n
      BY <2>1, FS_Subset, FS_CardinalityType
    <2>. QED
      BY <1>1, <2>2
  <1>4. rank \in Injection(S, 0..(n - 1))
    <2>1. rank \in [S -> 0..(n - 1)]
      BY <1>3
    <2>2. ASSUME NEW a \in S, NEW b \in S, rank[a] = rank[b] PROVE a = b
      <3>1. ~(a < b) /\ ~(b < a)
        BY <1>2, <1>3, <2>2
      <3>. QED
        BY <3>1
    <2>. QED
      BY <2>1, <2>2 DEF Injection, IsInjective
  <1>5. IsFiniteSet(0..(n - 1)) /\ Cardinality(0..(n - 1)) = n
    <2>1. 0 \in Int /\ n - 1 \in Int
      BY <1>1
    <2>2. IsFiniteSet(0..(n - 1))
      BY <2>1, FS_Interval
    <2>3. Cardinality(0..(n - 1)) = IF 0 > n - 1 THEN 0 ELSE n - 1 - 0 + 1
      BY <2>1, FS_Interval
    <2>. QED
      BY <1>1, <2>2, <2>3
  <1>6. \A k \in 1..n : \E m \in S : rank[m] = k - 1
    <2>. HIDE DEF rank
    <2>1. rank \in Surjection(S, 0..(n - 1))
      BY <1>4, <1>5, FS_Injection
    <2>. QED
      BY <1>1, <2>1 DEF Surjection
  <1>. QED
    BY <1>3, <1>6

LEMMA QueueInOrder ==
  ASSUME NEW S \in SUBSET Nat, IsFiniteSet(S)
  PROVE  /\ InOrder(S) \in Seq(S)
         /\ \A m \in S : \E i \in DOMAIN InOrder(S) : InOrder(S)[i] = m
         /\ \A i, j \in DOMAIN InOrder(S) : i < j => InOrder(S)[i] < InOrder(S)[j]
  <1>. DEFINE n == Cardinality(S)
              rank == [m \in S |-> Cardinality({k \in S : k < m})]
  <1>1. n \in Nat
    BY FS_CardinalityType
  <1>2. \A a, b \in S : a < b => rank[a] \in Nat /\ rank[a] < rank[b]
    BY RanksIncrease
  <1>3. \A m \in S : rank[m] \in 0..(n - 1)
    BY EveryRank
  <1>4. \A k \in 1..n : \E m \in S : rank[m] = k - 1
    BY EveryRank
  <1>. DEFINE q == InOrder(S)
  <1>5. /\ q \in [1..n -> S]
        /\ \A k \in 1..n : q[k] \in S /\ rank[q[k]] = k - 1
    BY <1>4 DEF InOrder
  <1>. HIDE DEF rank, q, n
  <1>6. \A m \in S : \E i \in 1..n : q[i] = m
    <2>. SUFFICES ASSUME NEW m \in S PROVE \E i \in 1..n : q[i] = m
      OBVIOUS
    <2>1. PICK i \in 1..n : i = rank[m] + 1
      BY <1>1, <1>3
    <2>2. PICK x \in S : x = q[i] /\ rank[x] = rank[m]
      <3>1. i - 1 = rank[m]
        BY <1>1, <1>3, <2>1
      <3>. QED
        BY <1>5, <3>1
    <2>3. ~(m < x) /\ ~(x < m)
      BY <1>1, <1>2, <1>3, <2>2
    <2>. QED
      BY <2>2, <2>3
  <1>7. \A i, j \in 1..n : i < j => q[i] < q[j]
    <2>. SUFFICES ASSUME NEW i \in 1..n, NEW j \in 1..n, i < j PROVE q[i] < q[j]
      OBVIOUS
    <2>1. PICK a \in S, b \in S :
            a = q[i] /\ b = q[j] /\ rank[a] = i - 1 /\ rank[b] = j - 1
      BY <1>5
    <2>2. ~(b < a) /\ a # b
      BY <1>1, <1>2, <1>3, <2>1
    <2>. QED
      BY <2>1, <2>2
  <1>8. q \in Seq(S)
    BY <1>1, <1>5
  <1>. QED
    BY <1>5, <1>6, <1>7, <1>8 DEF q

-----------------------------------------------------------------------------
\* Types.
LEMMA StoredInOrder ==
  ASSUME stored \subseteq 1..arrived, arrived \in Nat
  PROVE  /\ InOrder(stored) \in Seq(stored)
         /\ \A m \in stored : \E i \in DOMAIN InOrder(stored) : InOrder(stored)[i] = m
         /\ \A i, j \in DOMAIN InOrder(stored) :
              i < j => InOrder(stored)[i] < InOrder(stored)[j]
  <1>1. IsFiniteSet(1..arrived)
    BY FS_Interval
  <1>2. IsFiniteSet(stored)
    BY <1>1, FS_Subset
  <1>3. stored \in SUBSET Nat
    OBVIOUS
  <1>. QED
    BY <1>2, <1>3, QueueInOrder

LEMMA SeqGrows ==
  ASSUME NEW S, NEW T, S \subseteq T, NEW q \in Seq(S) PROVE q \in Seq(T)
  OBVIOUS

LEMMA SeqAppended ==
  ASSUME NEW T, NEW q \in Seq(T), NEW e \in T PROVE Append(q, e) \in Seq(T)
  OBVIOUS

\* What a step leaves alone keeps its type.
LEMMA TypeInductive ==
  TypeOK /\ LoopShape /\ stored \subseteq 1..arrived /\ [Next]_vars => TypeOK' /\ LoopShape'
  <1>. SUFFICES ASSUME TypeOK, LoopShape, stored \subseteq 1..arrived, [Next]_vars
                PROVE  TypeOK' /\ LoopShape'
    OBVIOUS
  <1>. USE ClientAssumption
  <1>. USE DEF TypeOK, LoopShape, Messages, NoMessage, LoopPoints, RefusedFor, Timeout
  <1>0. loop = [at |-> loop.at, msg |-> loop.msg, wait |-> loop.wait]
    OBVIOUS
  <1>1. CASE Arrives
    <2>1. arrived + 1 \in Messages /\ stored' \subseteq Messages /\ arrived' \in 0..MaxMessages
      BY <1>1 DEF Arrives
    <2>2. buffer' \in {buffer, Append(buffer, arrived + 1)}
      BY <1>1 DEF Arrives
    <2>3. buffer' \in Seq(Messages)
      BY <2>1, <2>2, SeqAppended
    <2>. QED
      BY <1>1, <2>1, <2>3 DEF Arrives, historyVars
  <1>2. CASE ChannelCloses
    BY <1>2 DEF ChannelCloses, historyVars, queueVars
  <1>3. CASE AttemptRefused
    BY <1>3, CurrentType DEF AttemptRefused, Sleep, At, historyVars, queueVars
  <1>4. CASE AttemptFails
    BY <1>4, AdmitType, FailedType DEF AttemptFails, Sleep, At, RetryAfter, historyVars, queueVars
  <1>5. CASE AttemptConsumes
    <2>1. InOrder(stored) \in Seq(stored) /\ stored \subseteq Messages
      BY StoredInOrder
    <2>2. InOrder(stored) \in Seq(Messages)
      BY <2>1, SeqGrows
    <2>. QED
      BY <1>5, <2>2, AdmitType DEF AttemptConsumes, At, historyVars, queueVars
  <1>6. CASE ConsumingLost
    BY <1>6, FailedType DEF ConsumingLost, Sleep, At, RetryAfter, historyVars, queueVars
  <1>7. CASE HandlerTakes
    <2>1. Head(buffer) \in Messages /\ Tail(buffer) \in Seq(Messages)
      BY <1>7 DEF HandlerTakes
    <2>. QED
      BY <1>7, <2>1 DEF HandlerTakes, At, queueVars
  <1>8. CASE HandlerReturns
    BY <1>0, <1>8 DEF HandlerReturns, LoopAt, queueVars
  <1>9. CASE AckSent
    <2>1. stored' \subseteq Messages
      BY <1>9 DEF AckSent
    <2>. QED
      BY <1>9, <2>1 DEF AckSent, At, historyVars
  <1>10. CASE NackSent
    <2>1. loop.msg \in Messages
      BY <1>10 DEF NackSent, LoopAt
    <2>2. buffer' \in {buffer, Append(buffer, loop.msg)}
      BY <1>10 DEF NackSent
    <2>3. buffer' \in Seq(Messages)
      BY <2>1, <2>2, SeqAppended
    <2>. QED
      BY <1>10, <2>3 DEF NackSent, At, historyVars, queueVars
  <1>11. CASE LoopStops
    BY <1>11 DEF LoopStops, At, historyVars, queueVars
  <1>12. CASE PublishRefused
    BY <1>12, CurrentType DEF PublishRefused, historyVars, queueVars
  <1>13. CASE Publish
    BY <1>13, AdmitType, FailedType, SucceededType DEF Publish, historyVars, queueVars
  <1>14. CASE Tick
    <2>1. loop' \in [at: LoopPoints, msg: Messages \cup {NoMessage}, wait: 0..RefusedFor] /\ LoopShape'
      BY <1>0, <1>14 DEF Tick, At, Sleep
    <2>. QED
      BY <1>14, <2>1, OlderType DEF Tick, historyVars, queueVars
  <1>15. CASE Shutdown \/ ProcessEnds \/ ProcessDies
    <2>1. CASE Shutdown
      BY <2>1 DEF Shutdown, historyVars, queueVars
    <2>2. CASE Ends
      BY <2>2 DEF Ends, historyVars, queueVars
    <2>. QED
      BY <1>15, <2>1, <2>2 DEF ProcessEnds, ProcessDies
  <1>16. CASE ProcessRestarts
    BY <1>16, GenerationType DEF ProcessRestarts, Start, At, historyVars, queueVars
  <1>17. CASE UNCHANGED vars
    BY <1>17 DEF vars, historyVars, queueVars
  <1>. QED
    BY <1>1, <1>2, <1>3, <1>4, <1>5, <1>6, <1>7, <1>8, <1>9, <1>10, <1>11, <1>12, <1>13, <1>14,
       <1>15, <1>16, <1>17 DEF Next, LoopStep

-----------------------------------------------------------------------------
\* A live channel.
LEMMA LiveInductive == LiveInv /\ [Next]_vars => LiveInv'
  <1>. SUFFICES ASSUME LiveInv, [Next]_vars PROVE LiveInv'
    OBVIOUS
  <1>. USE DEF LiveInv, Running
  <1>1. ASSUME UNCHANGED <<breaker, pubBreaker>>,
               (process' # "down" /\ channel' = "open") => (process # "down" /\ channel = "open")
        PROVE  LiveInv'
    BY <1>1
  <1>2. CASE AttemptRefused
    <2>1. channel = "closed" \/ channel # "open"
      BY <1>2, ClosedAdmits DEF AttemptRefused, LoopAt
    <2>. QED
      BY <1>2, <2>1, CurrentType DEF AttemptRefused
  <1>3. CASE AttemptFails \/ ConsumingLost
    <2>1. channel' = "closed" /\ pubBreaker' = pubBreaker /\ breaker' \in Breakers
      BY <1>3, AdmitType, FailedType DEF AttemptFails, ConsumingLost
    <2>. QED
      BY <2>1
  <1>4. CASE AttemptConsumes
    BY <1>4, AdmitType DEF AttemptConsumes, LoopAt
  <1>5. CASE PublishRefused
    <2>1. channel # "open"
      BY <1>5, ClosedAdmits DEF PublishRefused
    <2>. QED
      BY <1>5, <2>1, CurrentType DEF PublishRefused
  <1>6. CASE Publish
    <2>1. PICK b \in Breakers :
            /\ b = Admit(pubBreaker)
            /\ pubBreaker.state = "closed" => b.state = "closed"
      BY <1>6, AdmitType DEF Publish
    <2>. QED
      BY <1>6, <2>1, FailedType, SucceededType DEF Publish
  <1>7. CASE Tick
    BY <1>7, OlderType DEF Tick
  <1>8. CASE ProcessRestarts
    BY <1>8, GenerationType DEF ProcessRestarts, Start
  <1>9. CASE \/ Arrives \/ ChannelCloses \/ HandlerTakes \/ HandlerReturns \/ AckSent
             \/ NackSent \/ LoopStops
    BY <1>1, <1>9 DEF Arrives, ChannelCloses, HandlerTakes, HandlerReturns, AckSent, NackSent,
                      LoopStops
  <1>10. CASE Shutdown \/ ProcessEnds \/ ProcessDies \/ UNCHANGED vars
    BY <1>1, <1>10 DEF Shutdown, ProcessEnds, ProcessDies, Ends, vars
  <1>. QED
    BY <1>2, <1>3, <1>4, <1>5, <1>6, <1>7, <1>8, <1>9, <1>10 DEF Next, LoopStep

-----------------------------------------------------------------------------
\* Acknowledged messages.
LEMMA AckInductive == AckInv /\ [Next]_vars => AckInv'
  <1>. SUFFICES ASSUME AckInv, [Next]_vars PROVE AckInv'
    OBVIOUS
  <1>. USE DEF AckInv, AckedWasHandled, LoopRecord
  <1>1. ASSUME UNCHANGED <<arrived, stored, handled>>,
               \/ UNCHANGED loop
               \/ \E p \in LoopPoints \ {"ack"} :
                    \E m, w : loop' = [at |-> p, msg |-> m, wait |-> w]
        PROVE  AckInv'
    BY <1>1
  <1>2. CASE Arrives
    BY <1>2 DEF Arrives, historyVars
  <1>3. CASE AttemptRefused \/ AttemptFails \/ AttemptConsumes \/ ConsumingLost \/ LoopStops
    BY <1>1, <1>3 DEF AttemptRefused, AttemptFails, AttemptConsumes, ConsumingLost, LoopStops,
                      queueVars, historyVars, At, Sleep, LoopPoints
  <1>4. CASE HandlerTakes
    BY <1>1, <1>4 DEF HandlerTakes, queueVars, At, LoopPoints
  <1>5. CASE HandlerReturns
    <2>1. loop' = [at |-> IF loop.msg \in Poison THEN "nack" ELSE "ack",
                   msg |-> loop.msg, wait |-> loop.wait]
      BY <1>5 DEF HandlerReturns
    <2>2. /\ handled' = handled \cup ({loop.msg} \ Poison)
          /\ UNCHANGED <<arrived, stored>>
      BY <1>5 DEF HandlerReturns, queueVars
    <2>. QED
      BY <2>1, <2>2
  <1>6. CASE AckSent
    <2>1. /\ loop.msg \in handled
          /\ loop' = [at |-> "consuming", msg |-> NoMessage, wait |-> 0]
          /\ stored' \in {stored, stored \ {loop.msg}}
          /\ UNCHANGED <<arrived, handled>>
      BY <1>6 DEF AckSent, LoopAt, At, historyVars
    <2>. QED
      BY <2>1
  <1>7. CASE NackSent
    BY <1>1, <1>7 DEF NackSent, queueVars, historyVars, At, LoopPoints
  <1>8. CASE Tick
    BY <1>1, <1>8 DEF Tick, queueVars, historyVars, At, Sleep, LoopPoints
  <1>9. CASE ProcessRestarts
    BY <1>1, <1>9 DEF ProcessRestarts, Start, queueVars, historyVars, At, LoopPoints
  <1>10. CASE \/ ChannelCloses \/ PublishRefused \/ Publish
              \/ Shutdown \/ ProcessEnds \/ ProcessDies \/ UNCHANGED vars
    BY <1>1, <1>10 DEF ChannelCloses, PublishRefused, Publish, Shutdown, ProcessEnds,
                       ProcessDies, Ends, vars, queueVars, historyVars
  <1>. QED
    BY <1>2, <1>3, <1>4, <1>5, <1>6, <1>7, <1>8, <1>9, <1>10 DEF Next, LoopStep

-----------------------------------------------------------------------------
\* The queue. What Append and Tail do to the places of a buffer.
LEMMA AppendPlaces ==
  ASSUME buffer \in Seq(Messages), NEW e \in Messages, buffer' = Append(buffer, e)
  PROVE  /\ \A i \in DOMAIN buffer : i \in DOMAIN buffer' /\ buffer'[i] = buffer[i]
         /\ \A i \in DOMAIN buffer' :
              i \in DOMAIN buffer \/ (buffer'[i] = e /\ i = Len(buffer) + 1)
         /\ \E i \in DOMAIN buffer' : buffer'[i] = e
         /\ \A i \in DOMAIN buffer : ~(Len(buffer) + 1 < i)
  <1>. DEFINE n == Len(buffer)
  <1>1. n \in Nat /\ DOMAIN buffer = 1..n
    OBVIOUS
  <1>2. DOMAIN buffer' = 1..(n + 1) /\ buffer'[n + 1] = e
    OBVIOUS
  <1>3. \A i \in DOMAIN buffer : buffer'[i] = buffer[i]
    OBVIOUS
  <1>4. n + 1 \in DOMAIN buffer'
    BY <1>1, <1>2
  <1>5. \A i \in DOMAIN buffer' : i \in DOMAIN buffer \/ i = n + 1
    BY <1>1, <1>2
  <1>6. \A i \in DOMAIN buffer : i \in DOMAIN buffer' /\ ~(n + 1 < i)
    BY <1>1, <1>2
  <1>. QED
    BY <1>2, <1>3, <1>4, <1>5, <1>6

LEMMA TailPlaces ==
  ASSUME buffer \in Seq(Messages), buffer # <<>>, buffer' = Tail(buffer)
  PROVE  /\ Head(buffer) = buffer[1] /\ 1 \in DOMAIN buffer
         /\ \A i \in DOMAIN buffer' :
              i \in Nat /\ i + 1 \in DOMAIN buffer /\ i + 1 # 1 /\ buffer'[i] = buffer[i + 1]
         /\ \A i \in DOMAIN buffer :
              i = 1 \/ (i - 1 \in DOMAIN buffer' /\ buffer'[i - 1] = buffer[i])
  OBVIOUS

\* The messages of a step: which are known, and where the buffered ones belong.
LEMMA KnownInductive ==
  QueueInv /\ [Next]_vars => MessagesKnown' /\ BufferIsLive'
  <1>. SUFFICES ASSUME QueueInv, [Next]_vars PROVE MessagesKnown' /\ BufferIsLive'
    OBVIOUS
  <1>. USE DEF QueueInv, MessagesKnown, BufferIsLive
  <1>0. arrived \in Nat
    BY DEF AckInv
  <1>1. CASE Arrives
    BY <1>0, <1>1 DEF Arrives, Registered, historyVars
  <1>2. CASE ChannelCloses
    BY <1>2 DEF ChannelCloses, historyVars, queueVars
  <1>3. CASE AttemptRefused \/ AttemptFails \/ ConsumingLost
    BY <1>3 DEF AttemptRefused, AttemptFails, ConsumingLost, LoopAt, Sleep, At, NoMessage,
                historyVars, queueVars
  <1>4. CASE AttemptConsumes
    BY <1>4 DEF AttemptConsumes, At, NoMessage, historyVars, queueVars
  <1>5. CASE HandlerTakes
    BY <1>5 DEF HandlerTakes, LoopAt, At, queueVars
  <1>6. CASE HandlerReturns
    <2>1. loop' = [at |-> IF loop.msg \in Poison THEN "nack" ELSE "ack",
                   msg |-> loop.msg, wait |-> loop.wait]
      BY <1>6 DEF HandlerReturns, AckInv, LoopRecord
    <2>2. loop.msg # NoMessage
      BY <1>6 DEF HandlerReturns, LoopAt, LoopShape
    <2>. QED
      BY <1>6, <2>1, <2>2 DEF HandlerReturns, LoopAt, queueVars
  <1>7. CASE AckSent
    BY <1>7 DEF AckSent, LoopAt, At, NoMessage, historyVars
  <1>8. CASE NackSent
    BY <1>8 DEF NackSent, LoopAt, At, NoMessage, historyVars, queueVars
  <1>9. CASE LoopStops
    BY <1>9 DEF LoopStops, At, NoMessage, historyVars, queueVars
  <1>10. CASE PublishRefused \/ Publish \/ Shutdown
    BY <1>10 DEF PublishRefused, Publish, Shutdown, historyVars, queueVars
  <1>11. CASE Tick
    BY <1>11 DEF Tick, At, Sleep, NoMessage, historyVars, queueVars
  <1>12. CASE ProcessEnds \/ ProcessDies
    BY <1>12 DEF ProcessEnds, ProcessDies, Ends, historyVars, queueVars
  <1>13. CASE ProcessRestarts
    BY <1>13 DEF ProcessRestarts, Start, At, NoMessage, historyVars, queueVars
  <1>14. CASE UNCHANGED vars
    BY <1>14 DEF vars, historyVars, queueVars
  <1>. QED
    BY <1>1, <1>2, <1>3, <1>4, <1>5, <1>6, <1>7, <1>8, <1>9, <1>10, <1>11, <1>12, <1>13, <1>14
    DEF Next, LoopStep

\* A registered consumer stays with its messages, unless it is told otherwise.
LEMMA BufferInductive ==
  QueueInv /\ [Next]_vars => Dealt' /\ UnseenInOrder'
  <1>. SUFFICES ASSUME QueueInv, [Next]_vars PROVE Dealt' /\ UnseenInOrder'
    OBVIOUS
  <1>. USE DEF Dealt, UnseenInOrder, InBuffer
  <1>0. /\ buffer \in Seq(Messages) /\ stored \subseteq 1..arrived /\ arrived \in Nat
        /\ loop.msg \in Messages \cup {NoMessage}
        /\ \A m \in Messages : m \in Nat /\ m # NoMessage
        /\ \A i \in DOMAIN buffer : buffer[i] \in Messages
    <2>1. buffer \in Seq(Messages) /\ loop.msg \in Messages \cup {NoMessage}
      BY DEF QueueInv, TypeOK
    <2>2. \A i \in DOMAIN buffer : buffer[i] \in Messages
      BY <2>1
    <2>3. \A m \in Messages : m \in Nat /\ m # NoMessage
      BY ClientAssumption DEF Messages, NoMessage
    <2>. QED
      BY <2>1, <2>2, <2>3 DEF QueueInv, AckInv, MessagesKnown
  <1>1. ASSUME Registered' => Registered /\ UNCHANGED <<stored, buffer, offered, loop.msg>>
        PROVE  Dealt' /\ UnseenInOrder'
    BY <1>1 DEF QueueInv
  <1>2. CASE Arrives
    <2>. DEFINE e == arrived + 1
    <2>1. e \in Messages /\ e \notin stored /\ UNCHANGED <<channel, loop, offered>>
      BY <1>0, <1>2, ClientAssumption DEF Arrives, Messages, historyVars
    <2>2. Registered' <=> Registered
      BY <2>1 DEF Registered
    <2>3. CASE Registered
      <3>1. buffer' = Append(buffer, e) /\ stored' = stored \cup {e}
        BY <1>2, <2>3 DEF Arrives
      <3>2. \A i \in DOMAIN buffer : buffer[i] \in stored /\ buffer[i] < e /\ buffer[i] # e
        BY <1>0, <2>3 DEF QueueInv
      <3>3. loop.msg # e
        BY <1>0, <2>1, <2>3 DEF QueueInv
      <3>4. /\ \A i \in DOMAIN buffer : i \in DOMAIN buffer' /\ buffer'[i] = buffer[i]
            /\ \A i \in DOMAIN buffer' : i \in DOMAIN buffer \/ (buffer'[i] = e /\ i = Len(buffer) + 1)
            /\ \E i \in DOMAIN buffer' : buffer'[i] = e
            /\ \A i \in DOMAIN buffer : ~(Len(buffer) + 1 < i)
        BY <1>0, <2>1, <3>1, AppendPlaces
      <3>5. Dealt'
        BY <1>0, <2>1, <2>3, <3>1, <3>2, <3>3, <3>4 DEF QueueInv
      <3>6. UnseenInOrder'
        BY <1>0, <2>1, <2>3, <3>2, <3>4 DEF QueueInv
      <3>. QED
        BY <3>5, <3>6
    <2>. QED
      BY <2>2, <2>3
  <1>3. CASE ChannelCloses \/ ProcessEnds \/ ProcessDies
    BY <1>3 DEF ChannelCloses, ProcessEnds, ProcessDies, Ends, Registered
  <1>4. CASE AttemptRefused \/ AttemptFails \/ ConsumingLost \/ LoopStops
    BY <1>4 DEF AttemptRefused, AttemptFails, ConsumingLost, LoopStops, Sleep, At, Registered
  <1>5. CASE AttemptConsumes
    <2>1. buffer' = InOrder(stored) /\ loop'.msg = NoMessage /\ UNCHANGED stored
      BY <1>5 DEF AttemptConsumes, At, queueVars
    <2>2. /\ \A i \in DOMAIN buffer' : i \in Nat /\ buffer'[i] \in stored
          /\ \A m \in stored : \E i \in DOMAIN buffer' : buffer'[i] = m
          /\ \A i, j \in DOMAIN buffer' : i < j => buffer'[i] < buffer'[j]
      BY <1>0, <2>1, StoredInOrder
    <2>3. \A i, j \in DOMAIN buffer' : i # j => buffer'[i] # buffer'[j]
      <3>1. \A i \in DOMAIN buffer' : i \in Nat /\ buffer'[i] \in Nat
        <4>1. \A m \in stored : m \in Nat
          BY <1>0
        <4>. QED
          BY <2>2, <4>1
      <3>. QED
        BY <2>2, <3>1
    <2>4. stored \subseteq Messages
      BY DEF QueueInv, TypeOK
    <2>. QED
      BY <1>0, <2>1, <2>2, <2>3, <2>4
  <1>6. CASE HandlerTakes
    <2>1. /\ Registered /\ loop.msg = NoMessage /\ buffer # <<>>
          /\ loop'.msg = Head(buffer) /\ buffer' = Tail(buffer)
          /\ offered' = offered \cup {Head(buffer)} /\ UNCHANGED stored
      BY <1>6 DEF HandlerTakes, LoopAt, At, Registered, QueueInv, BufferIsLive, LoopShape, queueVars
    <2>2. /\ Head(buffer) = buffer[1] /\ 1 \in DOMAIN buffer
          /\ \A i \in DOMAIN buffer' :
               i \in Nat /\ i + 1 \in DOMAIN buffer /\ i + 1 # 1 /\ buffer'[i] = buffer[i + 1]
          /\ \A i \in DOMAIN buffer :
               i = 1 \/ (i - 1 \in DOMAIN buffer' /\ buffer'[i - 1] = buffer[i])
      BY <1>0, <2>1, TailPlaces
    <2>3. \A m \in Messages : m \in stored' <=> m = loop'.msg \/ InBuffer(m)'
      <3>. SUFFICES ASSUME NEW m \in Messages
                    PROVE  m \in stored <=> m = buffer[1] \/ InBuffer(m)'
        BY <2>1, <2>2
      <3>1. m \in stored <=> InBuffer(m)
        BY <1>0, <2>1 DEF QueueInv
      <3>. QED
        BY <2>2, <3>1
    <2>4. ~InBuffer(loop.msg)'
      BY <1>0, <2>1, <2>2 DEF QueueInv
    <2>5. \A i, j \in DOMAIN buffer' : i # j => buffer'[i] # buffer'[j]
      <3>1. \A i, j \in DOMAIN buffer' : i # j => i + 1 # j + 1
        BY <2>2
      <3>. QED
        BY <2>1, <2>2, <3>1 DEF QueueInv
    <2>6. UnseenInOrder'
      <3>1. \A i, j \in DOMAIN buffer' : i < j => i + 1 < j + 1
        BY <2>2
      <3>. QED
        BY <2>1, <2>2, <3>1 DEF QueueInv
    <2>. QED
      BY <2>3, <2>4, <2>5, <2>6
  <1>7. CASE HandlerReturns
    <2>1. loop'.msg = loop.msg /\ loop.at = "handling"
      BY <1>7 DEF HandlerReturns, QueueInv, AckInv, LoopRecord, LoopAt
    <2>. QED
      BY <1>1, <1>7, <2>1 DEF HandlerReturns, Registered, queueVars
  <1>8. CASE AckSent
    <2>1. /\ loop.at = "ack" /\ loop'.msg = NoMessage
          /\ UNCHANGED <<buffer, offered, channel>>
          /\ channel = "open" => stored' = stored \ {loop.msg}
      BY <1>8 DEF AckSent, LoopAt, At, historyVars
    <2>2. CASE channel = "open"
      <3>1. Registered
        BY <2>1, <2>2 DEF Registered
      <3>. QED
        BY <1>0, <2>1, <2>2, <3>1 DEF QueueInv
    <2>. QED
      BY <2>1, <2>2 DEF Registered
  <1>9. CASE NackSent
    <2>1. /\ loop.at = "nack" /\ loop'.msg = NoMessage
          /\ UNCHANGED <<stored, offered, channel>>
          /\ channel = "open" => buffer' = Append(buffer, loop.msg)
      BY <1>9 DEF NackSent, LoopAt, At, queueVars, historyVars
    <2>2. CASE channel = "open"
      <3>1. Registered
        BY <2>1, <2>2 DEF Registered
      <3>2. loop.msg \in Messages /\ loop.msg \in offered
        BY <1>0, <2>1 DEF QueueInv, LoopShape, MessagesKnown
      <3>3. /\ \A i \in DOMAIN buffer : i \in DOMAIN buffer' /\ buffer'[i] = buffer[i]
            /\ \A i \in DOMAIN buffer' :
                 i \in DOMAIN buffer \/ (buffer'[i] = loop.msg /\ i = Len(buffer) + 1)
            /\ \E i \in DOMAIN buffer' : buffer'[i] = loop.msg
        BY <1>0, <2>1, <2>2, <3>2, AppendPlaces
      <3>4. Dealt'
        BY <1>0, <2>1, <2>2, <3>1, <3>2, <3>3 DEF QueueInv
      <3>5. UnseenInOrder'
        BY <1>0, <2>1, <2>2, <3>1, <3>2, <3>3 DEF QueueInv
      <3>. QED
        BY <3>4, <3>5
    <2>. QED
      BY <2>1, <2>2 DEF Registered
  <1>10. CASE Tick
    <2>1. Registered' => UNCHANGED loop
      BY <1>10 DEF Tick, Registered, At, Sleep
    <2>. QED
      BY <1>1, <1>10, <2>1 DEF Tick, Registered, queueVars, historyVars
  <1>11. CASE ProcessRestarts
    BY <1>11 DEF ProcessRestarts, Start, At, Registered
  <1>12. CASE PublishRefused \/ Publish \/ Shutdown \/ UNCHANGED vars
    BY <1>1, <1>12 DEF PublishRefused, Publish, Shutdown, vars, Registered, queueVars, historyVars
  <1>. QED
    BY <1>2, <1>3, <1>4, <1>5, <1>6, <1>7, <1>8, <1>9, <1>10, <1>11, <1>12 DEF Next, LoopStep

\* An older message the handler has not seen is not acknowledged, so it is in the queue,
\* in the buffer behind the first one, and newer.
LEMMA OffersInductive ==
  QueueInv /\ [Next]_vars => FirstOffersInOrder'
  <1>. SUFFICES ASSUME QueueInv, [Next]_vars PROVE FirstOffersInOrder'
    OBVIOUS
  <1>1. CASE HandlerTakes
    <2>. DEFINE h == Head(buffer)
    <2>1. /\ Registered /\ loop.msg = NoMessage /\ buffer # <<>>
          /\ offered' = offered \cup {h}
      BY <1>1 DEF HandlerTakes, LoopAt, Registered, QueueInv, BufferIsLive, LoopShape
    <2>2. /\ buffer \in Seq(Messages) /\ stored \subseteq 1..arrived /\ arrived \in Nat
          /\ \A m \in Messages : m \in Nat /\ m # NoMessage
          /\ \A m \in Messages : \A k \in 1..m : k \in Messages
          /\ handled \subseteq offered
          /\ \A m \in offered : 1..m \subseteq offered
      BY ClientAssumption
      DEF QueueInv, TypeOK, AckInv, MessagesKnown, Messages, NoMessage, FirstOffersInOrder
    <2>3. h \in Messages /\ h = buffer[1] /\ 1 \in DOMAIN buffer
      BY <2>1, <2>2
    <2>4. h \in stored
      BY <2>1, <2>3 DEF QueueInv, Dealt, InBuffer
    <2>5. CASE h \notin offered
      <3>1. SUFFICES ASSUME NEW k \in 1..h, k # h, k \notin offered PROVE FALSE
        BY <2>1, <2>2 DEF FirstOffersInOrder
      <3>2. k \in Messages /\ k \in Nat /\ h \in Nat /\ k < h /\ k # loop.msg
        BY <2>1, <2>2, <2>3, <3>1
      <3>3. k \in stored
        <4>1. h \in 1..arrived
          BY <2>2, <2>4
        <4>2. k \in 1..arrived
          BY <2>2, <3>1, <4>1
        <4>. QED
          BY <2>2, <3>1, <4>2 DEF QueueInv, AckInv, AckedWasHandled
      <3>4. PICK j \in DOMAIN buffer : buffer[j] = k
        BY <2>1, <3>2, <3>3 DEF QueueInv, Dealt, InBuffer
      <3>5. 1 < j
        BY <2>2, <2>3, <3>2, <3>4
      <3>6. buffer[1] < buffer[j]
        BY <2>1, <2>3, <2>5, <3>1, <3>4, <3>5 DEF QueueInv, UnseenInOrder
      <3>7. h < k
        BY <2>3, <3>4, <3>6
      <3>. QED
        BY <2>2, <2>3, <3>2, <3>7
    <2>6. CASE h \in offered
      BY <2>1, <2>2, <2>6 DEF FirstOffersInOrder
    <2>. QED
      BY <2>5, <2>6
  <1>2. CASE UNCHANGED offered
    BY <1>2 DEF QueueInv, FirstOffersInOrder
  <1>3. [Next]_vars => HandlerTakes \/ UNCHANGED offered
    BY DEF Next, LoopStep, Arrives, ChannelCloses, AttemptRefused, AttemptFails, AttemptConsumes,
           ConsumingLost, HandlerReturns, AckSent, NackSent, LoopStops, PublishRefused, Publish,
           Tick, Shutdown, ProcessEnds, ProcessDies, Ends, ProcessRestarts, vars, historyVars
  <1>. QED
    BY <1>1, <1>2, <1>3

LEMMA QueueInitially == Init => QueueInv
  BY ClientAssumption, GenerationType
  DEF Init, QueueInv, TypeOK, LoopShape, AckInv, AckedWasHandled, LoopRecord, MessagesKnown,
      BufferIsLive, Dealt, UnseenInOrder, FirstOffersInOrder, Registered, At, LoopPoints,
      NoMessage, RefusedFor, Timeout

LEMMA QueueInductive == QueueInv /\ [Next]_vars => QueueInv'
  <1>1. QueueInv => stored \subseteq 1..arrived
    BY DEF QueueInv, MessagesKnown
  <1>2. QueueInv /\ [Next]_vars => TypeOK' /\ LoopShape'
    BY <1>1, TypeInductive DEF QueueInv
  <1>3. QueueInv /\ [Next]_vars => AckInv'
    BY AckInductive DEF QueueInv
  <1>. QED
    BY <1>2, <1>3, KnownInductive, BufferInductive, OffersInductive DEF QueueInv

-----------------------------------------------------------------------------
\* The patience of a consumer without a channel. An attempt that fails uses up one of
\* the failures that are left, or starts a new count.
LEMMA AttemptCounts ==
  ASSUME NEW b \in Breakers, b.state = "closed", NEW w \in Nat,
         w + UntilTrip(b.fails, b.left) <= 6,
         NEW c, c = Failed(Admit(b)), c.state = "closed"
  PROVE  w + 1 + UntilTrip(c.fails, Older(c).left) <= 6
  <1>. USE DEF TripAfter, UntilTrip
  <1>1. b.fails \in 0..3 /\ b.left \in 0..6
    BY DEF Breakers, Interval
  <1>2. CASE b.left = 0
    <2>1. Admit(b) = Generation("closed")
      BY <1>2 DEF Admit, Current, Expired, Generation
    <2>2. c.fails = 1 /\ c.left = 6 /\ Older(c).left = 5
      BY <2>1 DEF Failed, Expired, Generation, Interval, Older
    <2>. QED
      BY <1>1, <1>2, <2>2
  <1>3. CASE b.left # 0
    <2>1. Admit(b) = b
      BY <1>3 DEF Admit, Current, Expired
    <2>2. b.fails # 3
      BY <1>3, <2>1 DEF Failed, Expired, Generation
    <2>3. c = [b EXCEPT !.fails = b.fails + 1]
      BY <1>3, <2>1, <2>2 DEF Failed, Expired
    <2>4. c.fails = b.fails + 1 /\ Older(c).left = b.left - 1
      BY <1>1, <1>3, <2>3 DEF Breakers, Older
    <2>. QED
      BY <1>1, <1>3, <2>2, <2>4
  <1>. QED
    BY <1>2, <1>3

\* A stay in the inner loop that ends is the first failure of a count.
LEMMA LossCounts ==
  ASSUME NEW b \in Breakers, b.state = "closed", b.fails = 0, NEW c, c = Failed(b)
  PROVE  1 + UntilTrip(c.fails, Older(c).left) <= 6
  <1>. USE DEF TripAfter, UntilTrip
  <1>1. b.left \in 0..6
    BY DEF Breakers, Interval
  <1>2. CASE b.left = 0
    <2>1. c.fails = 0 /\ Older(c).left = 5
      BY <1>2 DEF Failed, Current, Expired, Generation, Interval, Older
    <2>. QED
      BY <2>1
  <1>3. CASE b.left # 0
    <2>1. c = [b EXCEPT !.fails = 1]
      BY <1>3 DEF Failed, Expired
    <2>2. c.fails = 1 /\ Older(c).left = b.left - 1
      BY <1>1, <1>3, <2>1 DEF Breakers, Older
    <2>. QED
      BY <1>1, <1>3, <2>2
  <1>. QED
    BY <1>2, <1>3

LEMMA UntilTripType ==
  ASSUME NEW b \in Breakers PROVE UntilTrip(b.fails, b.left) \in Nat
  BY DEF UntilTrip, Breakers, TripAfter, Interval

LEMMA TripInductive == TripInv /\ LoopShape /\ [Next]_vars => TripInv'
  <1>. SUFFICES ASSUME TripInv, LoopShape, [Next]_vars PROVE TripInv'
    OBVIOUS
  <1>. USE ClientAssumption
  <1>. USE DEF TripInv, Running, Fresh
  <1>0. LoopRecord /\ waited \in Nat
    OBVIOUS
  <1>1. ASSUME UNCHANGED <<breaker, loop, waited>>, process' # "down" => process # "down",
               channel' = "open" => channel = "open"
        PROVE  TripInv'
    BY <1>1 DEF LoopRecord
  <1>2. CASE AttemptRefused
    <2>1. breaker' \in Breakers /\ breaker'.state # "closed" /\ channel # "open"
      BY <1>2, ClosedAdmits, CurrentType DEF AttemptRefused, Refuses, LoopAt
    <2>2. loop' = [at |-> "sleep", msg |-> 0, wait |-> 2] /\ UNCHANGED <<channel, process, waited>>
      BY <1>2 DEF AttemptRefused, Sleep, At, NoMessage, RefusedFor, Timeout
    <2>. QED
      BY <2>1, <2>2 DEF LoopRecord, RefusedFor, Timeout
  <1>3. CASE AttemptFails
    <2>1. /\ loop' = [at |-> "sleep", msg |-> 0, wait |-> 1]
          /\ breaker' = Failed(Admit(breaker)) /\ channel = "closed"
          /\ UNCHANGED <<channel, process, waited>>
          /\ Running /\ loop.at = "attempt"
      BY <1>3 DEF AttemptFails, LoopAt, Sleep, At, NoMessage, RetryAfter
    <2>2. breaker' \in Breakers
      BY <1>3, <2>1, AdmitType, FailedType DEF AttemptFails
    <2>3. breaker'.state = "closed" => breaker.state = "closed"
      <3>1. CASE breaker.state = "open"
        BY <2>1, <3>1 DEF Failed, Admit, Current, Expired, Generation
      <3>2. CASE breaker.state = "half-open"
        BY <2>1, <3>2 DEF Failed, Admit, Current, Expired, Generation, Breakers
      <3>. QED
        BY <3>1, <3>2 DEF Breakers
    <2>4. breaker'.state = "closed" =>
            waited + 1 + UntilTrip(breaker'.fails, Older(breaker').left) <= 6
      BY <1>0, <2>1, <2>3, AttemptCounts
    <2>. QED
      BY <2>1, <2>2, <2>4 DEF LoopRecord, RefusedFor, Timeout
  <1>4. CASE AttemptConsumes
    <2>1. /\ loop' = [at |-> "consuming", msg |-> 0, wait |-> 0] /\ breaker' = Admit(breaker)
          /\ Fresh /\ UNCHANGED <<channel, process, waited>>
      BY <1>4 DEF AttemptConsumes, LoopAt, At, NoMessage
    <2>2. breaker' \in Breakers /\ Fresh'
      BY <1>4, <2>1, AdmitType DEF AttemptConsumes, Admit, Current, Expired, Generation
    <2>. QED
      BY <2>1, <2>2 DEF LoopRecord, RefusedFor, Timeout
  <1>5. CASE ConsumingLost
    <2>1. /\ loop' = [at |-> "sleep", msg |-> 0, wait |-> 1] /\ breaker' = Failed(breaker)
          /\ Fresh /\ channel = "closed" /\ UNCHANGED <<channel, process, waited>>
      BY <1>5 DEF ConsumingLost, LoopAt, Sleep, At, NoMessage, RetryAfter
    <2>2. breaker' \in Breakers
      BY <2>1, FailedType
    <2>3. waited' + 1 + UntilTrip(breaker'.fails, Older(breaker').left) <= 6
      <3>1. 1 + UntilTrip(breaker'.fails, Older(breaker').left) <= 6
        BY <2>1, LossCounts
      <3>2. waited' + 1 = 1
        BY <2>1
      <3>. QED
        BY <3>1, <3>2
    <2>. QED
      BY <2>1, <2>2, <2>3 DEF LoopRecord, RefusedFor, Timeout
  <1>6. CASE HandlerTakes \/ HandlerReturns \/ AckSent \/ NackSent
    <2>1. Running /\ loop.at \in {"consuming", "handling", "ack", "nack"}
      BY <1>6 DEF HandlerTakes, HandlerReturns, AckSent, NackSent, LoopAt
    <2>2. UNCHANGED <<channel, process, breaker, waited>>
      BY <1>6 DEF HandlerTakes, HandlerReturns, AckSent, NackSent
    <2>3. LoopRecord' /\ loop'.wait \in 0..RefusedFor
          /\ loop'.at \in {"consuming", "handling", "ack", "nack"}
      BY <1>0, <1>6 DEF HandlerTakes, HandlerReturns, AckSent, NackSent, At, LoopRecord, RefusedFor,
                        Timeout
    <2>. QED
      BY <2>1, <2>2, <2>3
  <1>7. CASE LoopStops
    <2>1. /\ loop' = [at |-> "stopped", msg |-> 0, wait |-> 0] /\ Running
          /\ loop.at \in {"attempt", "consuming"}
          /\ UNCHANGED <<channel, process, breaker, waited>>
      BY <1>7 DEF LoopStops, At, NoMessage
    <2>2. breaker.state = "closed" => waited <= 6
      BY <1>0, <2>1, UntilTripType
    <2>. QED
      BY <2>1, <2>2 DEF LoopRecord, RefusedFor, Timeout
  <1>8. CASE PublishRefused \/ Publish \/ Arrives \/ ChannelCloses \/ UNCHANGED vars
    BY <1>1, <1>8 DEF PublishRefused, Publish, Arrives, ChannelCloses, vars
  <1>9. CASE Shutdown \/ ProcessEnds \/ ProcessDies
    BY <1>1, <1>9 DEF Shutdown, ProcessEnds, ProcessDies, Ends
  <1>10. CASE Tick
    <2>1. /\ breaker' = Older(breaker) /\ breaker' \in Breakers
          /\ breaker'.state = breaker.state /\ breaker'.fails = breaker.fails
          /\ Running /\ Idling /\ UNCHANGED <<channel, process>>
      BY <1>10, OlderType DEF Tick, Older, Breakers
    <2>2. CASE loop.at # "sleep"
      <3>1. UNCHANGED <<loop, waited>>
        BY <1>10, <2>2 DEF Tick
      <3>2. loop.at # "attempt"
        BY <2>1 DEF Idling
      <3>. QED
        BY <2>1, <2>2, <3>1, <3>2 DEF LoopRecord
    <2>3. CASE loop.at = "sleep"
      <3>1. waited' \in {waited, waited + 1} /\ waited' \in 0..MaxWaited
        BY <1>0, <1>10, <2>3 DEF Tick
      <3>2. /\ LoopRecord' /\ loop'.wait \in 0..RefusedFor
            /\ loop'.at \in {"attempt", "sleep"}
            /\ loop.wait = 1 => loop'.at = "attempt"
        BY <1>10, <2>3 DEF Tick, LoopRecord, LoopShape, At, Sleep, RefusedFor, Timeout
      <3>3. breaker.state = "closed" =>
              loop'.at = "attempt" /\ waited' + UntilTrip(breaker'.fails, breaker'.left) <= 6
        <4>1. UntilTrip(breaker'.fails, breaker'.left) \in Nat
          BY <2>1, UntilTripType
        <4>. QED
          BY <1>0, <2>1, <2>3, <3>1, <3>2, <4>1
      <3>4. channel # "open"
        BY <2>1, <2>3
      <3>. QED
        BY <2>1, <3>1, <3>2, <3>3, <3>4
    <2>. QED
      BY <2>2, <2>3
  <1>11. CASE ProcessRestarts
    <2>1. /\ loop' = [at |-> "attempt", msg |-> 0, wait |-> 0] /\ waited' = 0
          /\ breaker' = Generation("closed")
      BY <1>11 DEF ProcessRestarts, Start, At, NoMessage
    <2>2. breaker' \in Breakers /\ breaker'.state = "closed" /\ breaker'.fails = 0
          /\ UntilTrip(breaker'.fails, breaker'.left) = 3
      BY <2>1, GenerationType DEF Generation, UntilTrip, TripAfter, Interval
    <2>. QED
      BY <2>1, <2>2 DEF LoopRecord, RefusedFor, Timeout
  <1>. QED
    BY <1>2, <1>3, <1>4, <1>5, <1>6, <1>7, <1>8, <1>9, <1>10, <1>11 DEF Next, LoopStep

-----------------------------------------------------------------------------
\* A message is removed from its queue only after a handler returned TRUE for it: a lost
\* channel, a crash between handler and Ack or a redelivery never loses one.
THEOREM ClientAckedWasHandled == Spec => []AckedWasHandled
  <1>1. Init => AckInv
    BY DEF Init, AckInv, AckedWasHandled, LoopRecord, At
  <1>2. AckInv => AckedWasHandled
    BY DEF AckInv
  <1>. QED
    BY <1>1, <1>2, AckInductive, PTL DEF Spec

\* The types hold of every state: a buffer holds messages that arrived, counters and
\* clocks stay in their ranges, and the loop is at one of its points.
THEOREM ClientTypeCorrect == Spec => []TypeOK
  <1>1. QueueInv => TypeOK
    BY DEF QueueInv
  <1>. QED
    BY <1>1, QueueInitially, QueueInductive, PTL DEF Spec

\* Neither a redelivery, nor a lost channel, nor a restart shows the handler a message
\* before it has seen all that arrived earlier.
THEOREM ClientFirstOffersInOrder == Spec => []FirstOffersInOrder
  <1>1. QueueInv => FirstOffersInOrder
    BY DEF QueueInv
  <1>. QED
    BY <1>1, QueueInitially, QueueInductive, PTL DEF Spec

LEMMA DealtOnce == QueueInv => DeliveredOnce
  <1>. SUFFICES ASSUME QueueInv, Registered PROVE DeliveredOnce
    BY DEF DeliveredOnce
  <1>. DEFINE q == Taken \o buffer
  <1>1. /\ buffer \in Seq(Messages) /\ loop.msg \in Messages \cup {NoMessage}
        /\ NoMessage \notin Messages /\ stored \subseteq Messages
    BY ClientAssumption DEF QueueInv, TypeOK, Messages, NoMessage
  <1>2. /\ \A m \in Messages : m \in stored <=> m = loop.msg \/ InBuffer(m)
        /\ ~InBuffer(loop.msg)
        /\ \A i, j \in DOMAIN buffer : i # j => buffer[i] # buffer[j]
    BY DEF QueueInv, Dealt
  <1>3. CASE loop.msg = NoMessage
    <2>1. q = buffer
      BY <1>1, <1>3 DEF Taken
    <2>2. IsInjective(q)
      BY <1>2, <2>1 DEF IsInjective
    <2>3. Range(q) = stored
      BY <1>1, <1>2, <1>3, <2>1 DEF Range, InBuffer
    <2>. QED
      BY <2>2, <2>3 DEF DeliveredOnce
  <1>4. CASE loop.msg # NoMessage
    <2>1. /\ DOMAIN q = 1..(Len(buffer) + 1) /\ Len(buffer) \in Nat
          /\ q[1] = loop.msg
          /\ \A i \in 1..Len(buffer) : q[i + 1] = buffer[i]
          /\ DOMAIN buffer = 1..Len(buffer)
      BY <1>1, <1>4 DEF Taken
    <2>2. IsInjective(q)
      BY <1>2, <2>1 DEF IsInjective, InBuffer
    <2>3. \A i \in DOMAIN q : q[i] \in stored
      <3>1. \A i \in DOMAIN q : i = 1 \/ (i - 1 \in DOMAIN buffer /\ q[i] = buffer[i - 1])
        BY <2>1
      <3>. QED
        BY <1>1, <1>2, <1>4, <2>1, <3>1 DEF InBuffer
    <2>4. \A m \in stored : \E i \in DOMAIN q : q[i] = m
      <3>1. \A i \in DOMAIN buffer : i + 1 \in DOMAIN q /\ q[i + 1] = buffer[i]
        BY <2>1
      <3>2. 1 \in DOMAIN q
        BY <2>1
      <3>. QED
        <4>. SUFFICES ASSUME NEW m \in stored PROVE \E i \in DOMAIN q : q[i] = m
          OBVIOUS
        <4>1. CASE m = loop.msg
          BY <2>1, <3>2, <4>1
        <4>2. CASE m # loop.msg
          <5>1. PICK i \in DOMAIN buffer : buffer[i] = m
            BY <1>1, <1>2, <4>2 DEF InBuffer
          <5>. QED
            BY <3>1, <5>1
        <4>. QED
          BY <4>1, <4>2
    <2>. HIDE DEF q
    <2>5. Range(q) = stored
      BY <2>3, <2>4 DEF Range
    <2>. QED
      BY <2>2, <2>5 DEF DeliveredOnce, q
  <1>. QED
    BY <1>3, <1>4

\* Every stored message is with the handler or waits in the buffer, and no message twice:
\* a message given back and redelivered, or a new consumer, makes no copy of it.
THEOREM ClientDeliveredOnce == Spec => []DeliveredOnce
  BY DealtOnce, QueueInitially, QueueInductive, PTL DEF Spec

\* The breakers of consumer and publisher never stand between a service and a channel
\* that is open, whatever messages are given back.
THEOREM ClientLiveChannelNeverRefused == Spec => []LiveChannelNeverRefused
  <1>1. Init => LiveInv
    BY GenerationType DEF Init, LiveInv
  <1>2. LiveInv => LiveChannelNeverRefused
    BY ClosedAdmits DEF LiveInv, LiveChannelNeverRefused
  <1>. QED
    BY <1>1, <1>2, LiveInductive, PTL DEF Spec

\* A consumer whose channel stays closed has stopped asking every five seconds when it
\* has slept for thirty-five of them, wherever its count of failures stood.
THEOREM ClientTripsInTime ==
  ASSUME MaxWaited >= 7
  PROVE  Spec => []TripsInTime
  <1>1. Init => TripInv
    BY ClientAssumption, GenerationType
    DEF Init, TripInv, Fresh, LoopRecord, At, NoMessage, Generation, UntilTrip, TripAfter, Interval,
        RefusedFor, Timeout
  <1>2. QueueInv => LoopShape
    BY DEF QueueInv
  <1>3. TripInv /\ QueueInv => TripsInTime
    <2>. SUFFICES ASSUME TripInv, QueueInv, Running, waited = MaxWaited,
                         breaker.state = "closed"
                  PROVE  FALSE
      BY DEF TripsInTime
    <2>. USE ClientAssumption
    <2>1. waited # 0 /\ waited > 6
      OBVIOUS
    <2>2. loop.at \in {"attempt", "sleep", "stopped"}
      BY <2>1 DEF QueueInv, TypeOK, LoopPoints, TripInv, Fresh
    <2>3. loop.at = "attempt" => UntilTrip(breaker.fails, breaker.left) \in Nat
      BY UntilTripType DEF TripInv
    <2>4. loop.at = "sleep" => UntilTrip(breaker.fails, Older(breaker).left) \in Nat
      BY UntilTripType, OlderType DEF TripInv, Older, Breakers
    <2>. QED
      BY <2>1, <2>2, <2>3, <2>4 DEF TripInv
  <1>. QED
    BY <1>1, <1>2, <1>3, QueueInitially, QueueInductive, TripInductive, PTL DEF Spec
-----------------------------------------------------------------------------
\* The one queue that broker, channel, buffer and loop make up.

\* The k-th of InOrder(S) has k - 1 of S before it.
LEMMA OrderRanks ==
  ASSUME NEW S \in SUBSET Nat, IsFiniteSet(S)
  PROVE  /\ DOMAIN InOrder(S) = 1..Cardinality(S)
         /\ \A k \in 1..Cardinality(S) :
              /\ InOrder(S)[k] \in S
              /\ Cardinality({n \in S : n < InOrder(S)[k]}) = k - 1
  <1>1. Cardinality(S) \in Nat
    BY FS_CardinalityType
  <1>2. \A k \in 1..Cardinality(S) : \E m \in S : Cardinality({n \in S : n < m}) = k - 1
    BY <1>1, EveryRank
  <1>. QED
    BY <1>2 DEF InOrder

LEMMA AppendIs ==
  ASSUME NEW X, NEW p \in Seq(X), NEW q \in Seq(X), NEW e \in X,
         Len(q) = Len(p) + 1, q[Len(p) + 1] = e, \A k \in 1..Len(p) : q[k] = p[k]
  PROVE  q = Append(p, e)
  OBVIOUS

\* A message that arrives after all the others comes last.
LEMMA OrderGrows ==
  ASSUME NEW S \in SUBSET Nat, IsFiniteSet(S), NEW a \in Nat, \A m \in S : m < a
  PROVE  InOrder(S \cup {a}) = Append(InOrder(S), a)
  <1>. DEFINE T == S \cup {a}
              n == Cardinality(S)
              RankS(m) == Cardinality({k \in S : k < m})
              RankT(m) == Cardinality({k \in T : k < m})
  <1>1. a \notin S /\ T \in SUBSET Nat
    OBVIOUS
  <1>2. n \in Nat /\ IsFiniteSet(T) /\ Cardinality(T) = n + 1
    BY <1>1, FS_CardinalityType, FS_AddElement
  <1>3. \A m \in S : RankT(m) = RankS(m)
    <2>. SUFFICES ASSUME NEW m \in S PROVE RankT(m) = RankS(m)
      OBVIOUS
    <2>1. {k \in T : k < m} = {k \in S : k < m}
      OBVIOUS
    <2>. QED
      BY <2>1
  <1>4. RankT(a) = n
    <2>1. \A k \in T : k < a <=> k \in S
      BY <1>1
    <2>2. {k \in T : k < a} = S
      BY <2>1
    <2>. QED
      BY <2>2
  <1>5. /\ DOMAIN InOrder(S) = 1..n
        /\ \A k \in 1..n : InOrder(S)[k] \in S /\ RankS(InOrder(S)[k]) = k - 1
    BY OrderRanks
  <1>6. /\ DOMAIN InOrder(T) = 1..(n + 1)
        /\ \A k \in 1..(n + 1) : InOrder(T)[k] \in T /\ RankT(InOrder(T)[k]) = k - 1
    BY <1>1, <1>2, OrderRanks
  <1>7. \A x, y \in T : RankT(x) = RankT(y) => x = y
    <2>. HIDE DEF T
    <2>1. \A x, y \in T : x < y => RankT(x) \in Nat /\ RankT(x) < RankT(y)
      BY <1>1, <1>2, RanksIncrease
    <2>2. \A x, y \in T : x < y => RankT(x) # RankT(y)
      BY <2>1
    <2>. QED
      BY <1>1, <2>2
  <1>. HIDE DEF RankS, RankT
  <1>8. \A k \in 1..n : InOrder(T)[k] = InOrder(S)[k]
    <2>. SUFFICES ASSUME NEW k \in 1..n PROVE InOrder(T)[k] = InOrder(S)[k]
      OBVIOUS
    <2>1. k \in 1..(n + 1)
      BY <1>2
    <2>. QED
      BY <1>3, <1>5, <1>6, <1>7, <2>1
  <1>9. InOrder(T)[n + 1] = a
    <2>1. n + 1 \in 1..(n + 1) /\ (n + 1) - 1 = n
      BY <1>2
    <2>. QED
      BY <1>4, <1>6, <1>7, <2>1
  <1>10. InOrder(S) \in Seq(S) /\ InOrder(T) \in Seq(T)
    BY <1>1, <1>2, QueueInOrder
  <1>11. Len(InOrder(S)) = n /\ Len(InOrder(T)) = n + 1
    BY <1>2, <1>5, <1>6, <1>10
  <1>. QED
    <2>. DEFINE p == InOrder(S)
                q == InOrder(T)
    <2>1. p \in Seq(T) /\ q \in Seq(T) /\ a \in T
      BY <1>10
    <2>2. Len(q) = Len(p) + 1 /\ q[Len(p) + 1] = a /\ \A k \in 1..Len(p) : q[k] = p[k]
      BY <1>8, <1>9, <1>11
    <2>. HIDE DEF p, q, T
    <2>3. q = Append(p, a)
      BY <2>1, <2>2, AppendIs
    <2>. QED
      BY <2>3 DEF p, q, T

\* What the queue holds is what is stored.
LEMMA QueueHolds ==
  QueueInv => stored \in SUBSET Nat /\ IsFiniteSet(stored) /\ Range(Queue) = stored
  <1>. SUFFICES ASSUME QueueInv
                PROVE  stored \in SUBSET Nat /\ IsFiniteSet(stored) /\ Range(Queue) = stored
    OBVIOUS
  <1>1. stored \subseteq 1..arrived /\ arrived \in Nat
    BY DEF QueueInv, MessagesKnown, AckInv
  <1>2. stored \in SUBSET Nat /\ IsFiniteSet(stored)
    <2>1. IsFiniteSet(1..arrived)
      BY <1>1, FS_Interval
    <2>2. IsFiniteSet(stored)
      BY <1>1, <2>1, FS_Subset
    <2>3. stored \in SUBSET Nat
      BY <1>1
    <2>. QED
      BY <2>2, <2>3
  <1>3. CASE Registered
    BY <1>2, <1>3, DealtOnce DEF DeliveredOnce, Queue
  <1>4. CASE ~Registered
    <2>1. /\ InOrder(stored) \in Seq(stored)
          /\ \A m \in stored : \E i \in DOMAIN InOrder(stored) : InOrder(stored)[i] = m
      BY <1>1, StoredInOrder
    <2>2. \A i \in DOMAIN InOrder(stored) : InOrder(stored)[i] \in stored
      BY <2>1
    <2>3. Range(InOrder(stored)) = stored
      BY <2>1, <2>2 DEF Range
    <2>. QED
      BY <1>2, <1>4, <2>3 DEF Queue
  <1>. QED
    BY <1>3, <1>4

\* Without a consumer, or with a new one, the queue is in the order of arrival.
LEMMA Restoring ==
  ASSUME QueueInv, UNCHANGED <<stored, arrived>>, Queue' = InOrder(stored)
  PROVE  MQ!Restored
  <1>1. stored \subseteq 1..arrived /\ arrived \in Nat
    BY DEF QueueInv, MessagesKnown, AckInv
  <1>2. /\ InOrder(stored) \in Seq(stored)
        /\ \A m \in stored : \E i \in DOMAIN InOrder(stored) : InOrder(stored)[i] = m
        /\ \A i, j \in DOMAIN InOrder(stored) : i < j => InOrder(stored)[i] < InOrder(stored)[j]
    BY <1>1, StoredInOrder
  <1>3. InOrder(stored) \in Seq(1..arrived)
    BY <1>1, <1>2, SeqGrows
  <1>4. Range(InOrder(stored)) = stored
    <2>1. \A i \in DOMAIN InOrder(stored) : InOrder(stored)[i] \in stored
      BY <1>2
    <2>. QED
      BY <1>2, <2>1 DEF Range
  <1>. QED
    <2>1. Range(Queue') = Range(Queue)
      BY <1>4, QueueHolds
    <2>2. MQ!Range(Queue') = MQ!Range(Queue)
      BY <2>1 DEF MQ!Range, Range
    <2>. QED
      BY <1>2, <1>3, <2>2 DEF MQ!Restored

LEMMA ArrivalMaps ==
  ASSUME QueueInv, Arrives PROVE MQ!Arrive
  <1>1. /\ stored \subseteq 1..arrived /\ arrived \in Nat
        /\ buffer \in Seq(Messages) /\ loop.msg \in Messages \cup {NoMessage}
    BY DEF QueueInv, MessagesKnown, AckInv, TypeOK
  <1>2. /\ arrived' = arrived + 1 /\ stored' = stored \cup {arrived + 1}
        /\ Registered' <=> Registered
        /\ Taken' = Taken
    BY DEF Arrives, Registered, Taken
  <1>3. CASE Registered
    <2>1. buffer' = Append(buffer, arrived + 1) /\ arrived + 1 \in Messages
      BY <1>1, <1>3, ClientAssumption DEF Arrives, Messages
    <2>2. Taken \in Seq(Messages)
      BY <1>1 DEF Taken
    <2>3. Taken \o Append(buffer, arrived + 1) = Append(Taken \o buffer, arrived + 1)
      BY <1>1, <2>1, <2>2
    <2>. QED
      BY <1>2, <1>3, <2>1, <2>3 DEF MQ!Arrive, Queue
  <1>4. CASE ~Registered
    <2>1. \A m \in stored : m < arrived + 1
      BY <1>1
    <2>2. InOrder(stored \cup {arrived + 1}) = Append(InOrder(stored), arrived + 1)
      BY <1>1, <2>1, QueueHolds, OrderGrows
    <2>3. InOrder(stored)' = InOrder(stored')
      BY DEF InOrder
    <2>. QED
      BY <1>2, <1>4, <2>2, <2>3 DEF MQ!Arrive, Queue
  <1>. QED
    BY <1>3, <1>4

LEMMA TakingMaps ==
  ASSUME QueueInv, HandlerTakes PROVE UNCHANGED MQ!vars
  <1>1. /\ Registered /\ Registered' /\ loop.msg = NoMessage /\ buffer # <<>>
        /\ loop'.msg = Head(buffer) /\ buffer' = Tail(buffer) /\ UNCHANGED arrived
    BY DEF HandlerTakes, LoopAt, At, Registered, QueueInv, BufferIsLive, LoopShape, queueVars
  <1>2. buffer \in Seq(Messages) /\ NoMessage \notin Messages
    BY ClientAssumption DEF QueueInv, TypeOK, Messages, NoMessage
  <1>3. Head(buffer) # NoMessage
    BY <1>1, <1>2
  <1>4. <<Head(buffer)>> \o Tail(buffer) = buffer /\ <<>> \o buffer = buffer
    BY <1>1, <1>2
  <1>. QED
    BY <1>1, <1>3, <1>4 DEF MQ!vars, Queue, Taken

LEMMA EndingMaps ==
  ASSUME QueueInv, AckSent \/ NackSent, channel = "open" PROVE MQ!Done \/ MQ!GivenBack
  <1>1. /\ Registered /\ Registered' /\ UNCHANGED arrived
        /\ loop.msg # NoMessage /\ loop'.msg = NoMessage
    BY DEF AckSent, NackSent, LoopAt, At, Registered, QueueInv, LoopShape, queueVars
  <1>2. buffer \in Seq(Messages) /\ loop.msg \in Messages
    BY <1>1 DEF QueueInv, TypeOK
  <1>3. /\ <<loop.msg>> \o buffer # <<>>
        /\ Head(<<loop.msg>> \o buffer) = loop.msg
        /\ Tail(<<loop.msg>> \o buffer) = buffer
        /\ <<>> \o buffer = buffer
        /\ <<>> \o Append(buffer, loop.msg) = Append(buffer, loop.msg)
    BY <1>2
  <1>4. Queue = <<loop.msg>> \o buffer /\ Queue' = <<>> \o buffer'
    BY <1>1 DEF Queue, Taken
  <1>5. CASE AckSent
    BY <1>1, <1>3, <1>4, <1>5 DEF AckSent, MQ!Done
  <1>6. CASE NackSent
    BY <1>1, <1>3, <1>4, <1>6 DEF NackSent, MQ!GivenBack
  <1>. QED
    BY <1>5, <1>6

LEMMA StepMaps == QueueInv /\ [Next]_vars => [MQ!Next]_(MQ!vars)
  <1>. SUFFICES ASSUME QueueInv, [Next]_vars PROVE [MQ!Next]_(MQ!vars)
    OBVIOUS
  <1>. USE DEF MQ!Next
  <1>1. ASSUME UNCHANGED <<stored, arrived>>, ~Registered' PROVE MQ!Restored
    <2>1. Queue' = InOrder(stored)
      BY <1>1 DEF Queue, InOrder
    <2>. QED
      BY <1>1, <2>1, Restoring
  <1>2. ASSUME UNCHANGED <<stored, arrived, buffer, channel, loop.msg>>,
               Registered' <=> Registered
        PROVE  UNCHANGED MQ!vars
    BY <1>2 DEF MQ!vars, Queue, Taken, InOrder
  <1>3. CASE Arrives
    BY <1>3, ArrivalMaps
  <1>4. CASE ChannelCloses \/ ProcessEnds \/ ProcessDies \/ ProcessRestarts
    BY <1>1, <1>4
    DEF ChannelCloses, ProcessEnds, ProcessDies, Ends, ProcessRestarts, Start, At, Registered,
        queueVars
  <1>5. CASE AttemptRefused \/ AttemptFails \/ ConsumingLost \/ LoopStops
    BY <1>1, <1>5
    DEF AttemptRefused, AttemptFails, ConsumingLost, LoopStops, Sleep, At, Registered, queueVars
  <1>6. CASE AttemptConsumes
    <2>1. /\ Registered' /\ loop'.msg = NoMessage /\ buffer' = InOrder(stored)
          /\ UNCHANGED <<stored, arrived>>
      BY <1>6 DEF AttemptConsumes, At, Registered, queueVars
    <2>2. <<>> \o InOrder(stored) = InOrder(stored)
      BY StoredInOrder DEF QueueInv, MessagesKnown, AckInv
    <2>. QED
      BY <2>1, <2>2, Restoring DEF Queue, Taken
  <1>7. CASE HandlerTakes
    BY <1>7, TakingMaps
  <1>8. CASE HandlerReturns
    <2>1. loop'.msg = loop.msg /\ loop'.at \in {"ack", "nack"} /\ loop.at = "handling"
      BY <1>8 DEF HandlerReturns, QueueInv, AckInv, LoopRecord, LoopAt
    <2>. QED
      BY <1>2, <1>8, <2>1 DEF HandlerReturns, Registered, queueVars
  <1>9. CASE AckSent \/ NackSent
    <2>1. CASE channel = "open"
      BY <1>9, <2>1, EndingMaps
    <2>2. CASE channel # "open"
      BY <1>1, <1>9, <2>2 DEF AckSent, NackSent, Registered, queueVars
    <2>. QED
      BY <2>1, <2>2
  <1>10. CASE Tick
    <2>1. CASE loop.at = "sleep"
      BY <1>1, <1>10, <2>1 DEF Tick, At, Sleep, Registered, queueVars
    <2>2. CASE loop.at # "sleep"
      BY <1>2, <1>10, <2>2 DEF Tick, Registered, queueVars
    <2>. QED
      BY <2>1, <2>2
  <1>11. CASE PublishRefused \/ Publish \/ Shutdown \/ UNCHANGED vars
    BY <1>2, <1>11 DEF PublishRefused, Publish, Shutdown, vars, Registered, queueVars
  <1>. QED
    BY <1>3, <1>4, <1>5, <1>6, <1>7, <1>8, <1>9, <1>10, <1>11 DEF Next, LoopStep

\* The broker, a channel that may close, a consumer that asks again and a process that
\* may die are together one queue: each of their steps is an arrival, the end of the first
\* message, its return behind the others, a return to the order of arrival, or nothing.
THEOREM ClientQueueImplemented == Spec => QueueImplemented
  <1>1. Init => MQ!Init
    <2>. SUFFICES ASSUME Init PROVE MQ!Init
      OBVIOUS
    <2>1. InOrder({}) \in Seq({})
      BY FS_EmptySet, QueueInOrder
    <2>2. InOrder({}) = <<>>
      BY <2>1
    <2>. QED
      BY <2>2 DEF Init, MQ!Init, Queue, Registered, At
  <1>. QED
    BY <1>1, StepMaps, QueueInitially, QueueInductive, PTL DEF Spec, QueueImplemented, MQ!Spec
=============================================================================
