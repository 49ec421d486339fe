---------------------------- MODULE MessageQueue ----------------------------
(***************************************************************************)
(* What a consumer may rely on: one queue, of which it works on the first  *)
(* message. The message is done, or goes behind all the others; when the   *)
(* channel or the process is lost, all that is not done stands again in    *)
(* the order of its arrival. Nothing is lost, doubled or put in front.     *)
(***************************************************************************)
EXTENDS Naturals, Sequences, Functions

VARIABLES
  arrived,   \* how many messages have arrived; each is its number
  queue      \* those that are not done

vars == <<arrived, queue>>

Init == arrived = 0 /\ queue = <<>>

Arrive == arrived' = arrived + 1 /\ queue' = Append(queue, arrived')

Done ==
  /\ queue # <<>> /\ queue' = Tail(queue)
  /\ UNCHANGED arrived

GivenBack ==
  /\ queue # <<>> /\ queue' = Append(Tail(queue), Head(queue))
  /\ UNCHANGED arrived

\* The consumer is gone: the queue is as it was filled.
Restored ==
  /\ queue' \in Seq(1..arrived) /\ Range(queue') = Range(queue)
  /\ \A i, j \in DOMAIN queue' : i < j => queue'[i] < queue'[j]
  /\ UNCHANGED arrived

Next == Arrive \/ Done \/ GivenBack \/ Restored

Spec == Init /\ [][Next]_vars
=============================================================================
