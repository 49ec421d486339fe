---------------------------- MODULE RabbitClient ----------------------------
(***************************************************************************)
(* The RabbitMQ library as a service uses it: one connection with one      *)
(* channel, opened when the process starts and never again, a consumer     *)
(* that reads one queue through a circuit breaker, and publishers that     *)
(* share the channel. The broker keeps what it stored; the channel may     *)
(* close and the process die at any moment.                                *)
(***************************************************************************)
EXTENDS CircuitBreaker, Sequences, FiniteSetsExt, SequencesExt

CONSTANTS
  MaxMessages,   \* bound: messages that arrive in the queue
  Poison,        \* messages the handler gives back whenever it sees them
  MaxWaited      \* bound of the clock that runs while the channel is closed

ASSUME ClientAssumption ==
  /\ MaxMessages \in Nat /\ MaxWaited \in Nat
  /\ Poison \subseteq 1..MaxMessages

VARIABLES
  stored,     \* messages of the queue the broker holds, numbered as they arrived
  arrived,    \* how many have arrived
  channel,    \* "open" or "closed"
  buffer,     \* delivered to the consumer and not yet taken by its loop
  loop,       \* StartConsume: where it is, the message it has, the units it sleeps
  breaker,    \* the consumer's
  pubBreaker, \* the publisher's
  process,    \* "up", "stopping" after a signal, "down"
  handled,    \* history: messages for which the handler returned TRUE
  offered,    \* history: messages the handler was called with
  waited      \* history: units slept since the channel closed

queueVars == <<stored, arrived>>
historyVars == <<handled, offered>>
vars == <<queueVars, channel, buffer, loop, breaker, pubBreaker, process, historyVars, waited>>

Messages == 1..MaxMessages
NoMessage == 0

At(p) == [at |-> p, msg |-> NoMessage, wait |-> 0]
Sleep(n) == [At("sleep") EXCEPT !.wait = n]

LoopPoints == {"attempt", "consuming", "handling", "ack", "nack", "sleep", "stopped"}

\* Variant: ten seconds between the attempts.
RetryAfterTen == 2

\* The retry after a failure, and after a refusal of the breaker (cbTimeout).
RetryAfter == 1

RefusedFor == Timeout

\* main: a connection, a channel, new breakers, and the consumer started.
Start ==
  /\ channel' = "open" /\ buffer' = <<>>
  /\ loop' = At("attempt")
  /\ breaker' = Generation("closed") /\ pubBreaker' = Generation("closed")
  /\ process' = "up" /\ waited' = 0

Init ==
  /\ stored = {} /\ arrived = 0
  /\ channel = "open" /\ buffer = <<>>
  /\ loop = At("attempt")
  /\ breaker = Generation("closed") /\ pubBreaker = Generation("closed")
  /\ process = "up"
  /\ handled = {} /\ offered = {} /\ waited = 0

Running == process # "down"
LoopAt(p) == Running /\ loop.at = p

\* The channel has the loop's consumer.
Registered == channel = "open" /\ loop.at \in {"consuming", "handling", "ack", "nack"}

-----------------------------------------------------------------------------
\* What the broker holds, in the order of arrival: the k-th has k - 1 before it.
InOrder(S) ==
  [k \in 1..Cardinality(S) |-> CHOOSE m \in S : Cardinality({n \in S : n < m}) = k - 1]

\* The broker. A message that arrives is delivered at once to a registered consumer.

Arrives ==
  /\ arrived < MaxMessages
  /\ arrived' = arrived + 1
  /\ stored' = stored \cup {arrived'}
  /\ buffer' = IF Registered THEN Append(buffer, arrived') ELSE buffer
  /\ UNCHANGED <<channel, loop, breaker, pubBreaker, process, historyVars, waited>>

\* The connection breaks or the broker restarts: what was delivered is dropped, and
\* what is not acknowledged stays in the queue, in the order of its arrival.
ChannelCloses ==
  /\ Running /\ channel = "open"
  /\ channel' = "closed" /\ buffer' = <<>>
  /\ UNCHANGED <<queueVars, loop, breaker, pubBreaker, process, historyVars, waited>>

-----------------------------------------------------------------------------
\* StartConsume. With the context cancelled, the top of the loop returns.

AttemptRefused ==
  /\ LoopAt("attempt") /\ process = "up" /\ Refuses(breaker)
  /\ breaker' = Current(breaker)
  /\ loop' = Sleep(RefusedFor)
  /\ UNCHANGED <<queueVars, channel, buffer, pubBreaker, process, historyVars, waited>>

\* Consume on a channel that closed fails.
AttemptFails ==
  /\ LoopAt("attempt") /\ process = "up" /\ ~Refuses(breaker) /\ channel = "closed"
  /\ breaker' = Failed(Admit(breaker))
  /\ loop' = Sleep(RetryAfter)
  /\ UNCHANGED <<queueVars, channel, buffer, pubBreaker, process, historyVars, waited>>

AttemptConsumes ==
  /\ LoopAt("attempt") /\ process = "up" /\ ~Refuses(breaker) /\ channel = "open"
  /\ breaker' = Admit(breaker)
  /\ loop' = At("consuming")
  /\ buffer' = InOrder(stored)
  /\ UNCHANGED <<queueVars, channel, pubBreaker, process, historyVars, waited>>

\* "Consumer channel closed unexpectedly": the whole stay in the inner loop counts as
\* one failed request of the breaker.
ConsumingLost ==
  /\ LoopAt("consuming") /\ channel = "closed"
  /\ breaker' = Failed(breaker)
  /\ loop' = Sleep(RetryAfter)
  /\ UNCHANGED <<queueVars, channel, buffer, pubBreaker, process, historyVars, waited>>

\* Variant: deliveries are handed to several workers, in any order.
HandlerTakesAny ==
  /\ LoopAt("consuming")
  /\ \E i \in DOMAIN buffer :
       /\ loop' = [At("handling") EXCEPT !.msg = buffer[i]]
       /\ buffer' = RemoveAt(buffer, i)
       /\ offered' = offered \cup {buffer[i]}
  /\ UNCHANGED <<queueVars, channel, breaker, pubBreaker, process, handled, waited>>

\* select takes one of the ready cases: a delivery or the cancelled context.
HandlerTakes ==
  /\ LoopAt("consuming") /\ buffer # <<>>
  /\ loop' = [At("handling") EXCEPT !.msg = Head(buffer)]
  /\ buffer' = Tail(buffer)
  /\ offered' = offered \cup {Head(buffer)}
  /\ UNCHANGED <<queueVars, channel, breaker, pubBreaker, process, handled, waited>>

\* Variant: whatever the handler returns, the message is acknowledged.
HandlerReturnsAcked ==
  /\ LoopAt("handling")
  /\ loop' = [loop EXCEPT !.at = "ack"]
  /\ handled' = handled \cup ({loop.msg} \ Poison)
  /\ UNCHANGED <<queueVars, channel, buffer, breaker, pubBreaker, process, offered, waited>>

HandlerReturns ==
  /\ LoopAt("handling")
  /\ loop' = [loop EXCEPT !.at = IF loop.msg \in Poison THEN "nack" ELSE "ack"]
  /\ handled' = handled \cup ({loop.msg} \ Poison)
  /\ UNCHANGED <<queueVars, channel, buffer, breaker, pubBreaker, process, offered, waited>>

\* The error of an Ack or Nack on a closed channel is ignored.
AckSent ==
  /\ LoopAt("ack")
  /\ stored' = IF channel = "open" THEN stored \ {loop.msg} ELSE stored
  /\ loop' = At("consuming")
  /\ UNCHANGED <<arrived, channel, buffer, breaker, pubBreaker, process, historyVars, waited>>

\* Variant: a handler that fails ends the consumption, as an error of the channel does.
NackFails ==
  /\ LoopAt("nack")
  /\ breaker' = Failed(breaker)
  /\ loop' = Sleep(RetryAfter)
  /\ buffer' = <<>>
  /\ UNCHANGED <<queueVars, channel, pubBreaker, process, historyVars, waited>>

\* Variant: the message is not requeued but kept by the broker until a restart.
NackUnseen ==
  /\ LoopAt("nack")
  /\ loop' = At("consuming")
  /\ UNCHANGED <<queueVars, channel, buffer, breaker, pubBreaker, process, historyVars, waited>>

\* Variant: the message is delivered again before all the others.
NackInFront ==
  /\ LoopAt("nack")
  /\ buffer' = IF channel = "open" THEN <<loop.msg>> \o buffer ELSE buffer
  /\ loop' = At("consuming")
  /\ UNCHANGED <<queueVars, channel, breaker, pubBreaker, process, historyVars, waited>>

\* Requeued: it takes its old place in the queue and is delivered again at once.
NackSent ==
  /\ LoopAt("nack")
  /\ buffer' = IF channel = "open" THEN Append(buffer, loop.msg) ELSE buffer
  /\ loop' = At("consuming")
  /\ UNCHANGED <<queueVars, channel, breaker, pubBreaker, process, historyVars, waited>>

\* Variant: the context is looked at only at the top of the loop.
LoopStopsAtTop ==
  /\ process = "stopping" /\ loop.at = "attempt"
  /\ loop' = At("stopped")
  /\ UNCHANGED <<queueVars, channel, buffer, breaker, pubBreaker, process, historyVars, waited>>

\* Context cancelled, at the top of the loop or in its inner select.
LoopStops ==
  /\ process = "stopping" /\ loop.at \in {"attempt", "consuming"}
  /\ loop' = At("stopped")
  /\ UNCHANGED <<queueVars, channel, buffer, breaker, pubBreaker, process, historyVars, waited>>

LoopStep ==
  \/ AttemptRefused \/ AttemptFails \/ AttemptConsumes \/ ConsumingLost
  \/ HandlerTakes \/ HandlerReturns \/ AckSent \/ NackSent
  \/ LoopStops

-----------------------------------------------------------------------------
\* Publish, from any goroutine of the service: it fails once the channel is closed.

PublishRefused ==
  /\ Running /\ Refuses(pubBreaker)
  /\ pubBreaker' = Current(pubBreaker)
  /\ UNCHANGED <<queueVars, channel, buffer, loop, breaker, process, historyVars, waited>>

Publish ==
  /\ Running /\ ~Refuses(pubBreaker)
  /\ pubBreaker' = IF channel = "open" THEN Succeeded(Admit(pubBreaker))
                                       ELSE Failed(Admit(pubBreaker))
  /\ UNCHANGED <<queueVars, channel, buffer, loop, breaker, process, historyVars, waited>>

-----------------------------------------------------------------------------
\* Five seconds pass. The loop sleeps, waits for a delivery or is in a handler; all
\* else it does takes no time.
Idling ==
  \/ loop.at \in {"sleep", "handling", "stopped"}
  \/ loop.at = "consuming" /\ channel = "open"

Tick ==
  /\ Running /\ Idling
  /\ breaker' = Older(breaker) /\ pubBreaker' = Older(pubBreaker)
  /\ loop' = IF loop.at # "sleep" THEN loop
             ELSE IF loop.wait = 1 THEN At("attempt") ELSE Sleep(loop.wait - 1)
  /\ waited' = IF loop.at = "sleep" /\ waited < MaxWaited THEN waited + 1 ELSE waited
  /\ UNCHANGED <<queueVars, channel, buffer, process, historyVars>>

\* SIGTERM cancels the context; main waits for the loop, then closes the channel.
Shutdown ==
  /\ process = "up" /\ process' = "stopping"
  /\ UNCHANGED <<queueVars, channel, buffer, loop, breaker, pubBreaker, historyVars, waited>>

Ends ==
  /\ process' = "down" /\ channel' = "closed" /\ buffer' = <<>>
  /\ UNCHANGED <<queueVars, loop, breaker, pubBreaker, historyVars, waited>>

ProcessEnds == process = "stopping" /\ loop.at = "stopped" /\ Ends
ProcessDies == Running /\ Ends

ProcessRestarts ==
  /\ process = "down" /\ Start
  /\ UNCHANGED <<queueVars, historyVars>>

Next ==
  \/ Arrives \/ ChannelCloses
  \/ LoopStep
  \/ PublishRefused \/ Publish
  \/ Tick
  \/ Shutdown \/ ProcessEnds \/ ProcessDies \/ ProcessRestarts

Spec == Init /\ [][Next]_vars

\* The loop and the clock go on, and main ends the process when the loop has stopped.
\* select chooses at random among its ready cases, so a loop that comes back to it
\* again and again takes the cancelled context in the end.
Fairness ==
  /\ WF_vars(LoopStep) /\ WF_vars(Tick) /\ WF_vars(ProcessEnds)
  /\ SF_vars(LoopStops)

FairSpec == Spec /\ Fairness

-----------------------------------------------------------------------------
TypeOK ==
  /\ stored \subseteq Messages /\ arrived \in 0..MaxMessages
  /\ channel \in {"open", "closed"}
  /\ buffer \in Seq(Messages)
  /\ loop \in [at: LoopPoints, msg: Messages \cup {NoMessage}, wait: 0..RefusedFor]
  /\ breaker \in Breakers /\ pubBreaker \in Breakers
  /\ process \in {"up", "stopping", "down"}
  /\ handled \subseteq Messages /\ offered \subseteq Messages
  /\ waited \in 0..MaxWaited

\* A message leaves the queue only after the handler returned TRUE for it, wherever
\* the channel closes or the process dies between delivery, handler and Ack.
AckedWasHandled == 1..arrived \ stored \subseteq handled

\* The handler never sees a message before it has seen all that arrived earlier:
\* neither a redelivery, nor a restart, nor a lost buffer puts a newer message first.
FirstOffersInOrder == \A m \in offered : 1..m \subseteq offered

\* The message the loop has, if any.
Taken == IF loop.msg = NoMessage THEN <<>> ELSE <<loop.msg>>

\* Every stored message that the handler will take is on its way to it once.
DeliveredOnce ==
  Registered => IsInjective(Taken \o buffer) /\ Range(Taken \o buffer) = stored

\* Broker, channel, buffer and loop together are one queue, of which the loop works on
\* the first message. It is acknowledged or goes to the end, and every loss of the
\* channel or the process puts what is left in the order of arrival.
Queue == IF Registered THEN Taken \o buffer ELSE InOrder(stored)

MQ == INSTANCE MessageQueue WITH queue <- Queue

QueueImplemented == MQ!Spec

\* Only a closed channel trips a breaker: messages that are given back, publishes and
\* long silences never keep a service from its live channel.
LiveChannelNeverRefused ==
  Running /\ channel = "open" => ~Refuses(breaker) /\ ~Refuses(pubBreaker)

\* Four failures in a row fit between two expiries of the count, so that a consumer
\* whose channel is closed stops asking every five seconds within thirty-five seconds.
TripsInTime == Running /\ waited = MaxWaited => breaker.state # "closed"

\* A message that the handler can handle is acknowledged in the end, whatever
\* messages go round for ever beside it, unless the channel or the process goes.
MessagesHandled ==
  \A m \in Messages \ Poison :
    m \in stored ~> m \notin stored \/ channel = "closed" \/ process # "up"

\* After a signal the process ends, even with messages going round for ever or the
\* loop asleep behind an open breaker.
ShutdownEnds == process = "stopping" ~> process = "down"

\* "Consumer channel closed unexpectedly during message reception. Re-establishing
\* consumer.": a consumer that lost its channel consumes again.
ConsumerRecovers ==
  process = "up" /\ channel = "closed" ~>
    (LoopAt("consuming") /\ channel = "open") \/ process # "up"
=============================================================================
