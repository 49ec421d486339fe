--------------------------- MODULE CircuitBreaker ---------------------------
(***************************************************************************)
(* The breaker of sony/gobreaker, with the settings that consumer.go and   *)
(* publisher.go give it. Time is counted in units of five seconds, the     *)
(* shortest wait of the consumer.                                          *)
(***************************************************************************)
EXTENDS Naturals

TripAfter == 3         \* ConsecutiveFailures > 3 trips the breaker
HalfOpenRequests == 3  \* admitted while half-open, and successes that close it
Interval == 6          \* thirty seconds: the failures of a closed breaker expire
Timeout == 2           \* ten seconds: an open breaker becomes half-open

\* fails: consecutive failures; asked, won: requests and successes while half-open;
\* left: time until this generation of the breaker expires.
Breakers == [state: {"closed", "open", "half-open"}, fails: 0..TripAfter,
             asked: 0..HalfOpenRequests, won: 0..(HalfOpenRequests - 1), left: 0..Interval]

Generation(s) ==
  [state |-> s, fails |-> 0, asked |-> 0, won |-> 0,
   left |-> CASE s = "closed" -> Interval [] s = "open" -> Timeout [] OTHER -> 0]

\* currentState: an expired generation is replaced by the next one.
Expired(b) == b.state # "half-open" /\ b.left = 0

Current(b) ==
  IF Expired(b) THEN Generation(IF b.state = "open" THEN "half-open" ELSE "closed") ELSE b

\* beforeRequest: which requests are refused, and the count of the others.
Refuses(b) ==
  LET c == Current(b) IN
    c.state = "open" \/ (c.state = "half-open" /\ c.asked = HalfOpenRequests)

Admit(b) ==
  LET c == Current(b) IN
    IF c.state = "half-open" THEN [c EXCEPT !.asked = @ + 1] ELSE c

\* Variant: one failure more is needed.
FailedLater(b) ==
  IF Expired(b) THEN Current(b)
  ELSE IF b.state = "half-open" \/ b.fails = TripAfter + 1 THEN Generation("open")
  ELSE [b EXCEPT !.fails = @ + 1]

\* afterRequest: a result that comes after its generation does not count.
Failed(b) ==
  IF Expired(b) THEN Current(b)
  ELSE IF b.state = "half-open" \/ b.fails = TripAfter THEN Generation("open")
  ELSE [b EXCEPT !.fails = @ + 1]

Succeeded(b) ==
  IF Expired(b) THEN Current(b)
  ELSE IF b.state = "closed" THEN [b EXCEPT !.fails = 0]
  ELSE IF b.won + 1 = HalfOpenRequests THEN Generation("closed")
  ELSE [b EXCEPT !.won = @ + 1]

\* A unit of time passes.
Older(b) == [b EXCEPT !.left = IF @ = 0 THEN 0 ELSE @ - 1]
=============================================================================
