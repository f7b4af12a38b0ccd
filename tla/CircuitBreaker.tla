---------------------------- MODULE CircuitBreaker ----------------------------
(***************************************************************************)
(* The circuit breaker of an MCP server (src/src/MCP/circuit-breaker.ts):  *)
(* a value and what each of its methods makes of it.  Time enters as one   *)
(* bit, whether resetTimeoutMs have passed since the last failure.         *)
(***************************************************************************)
EXTENDS Integers

CONSTANT Threshold  \* failureThreshold

ASSUME ThresholdAssumption == Threshold \in Nat \ {0}

Breakers == [state  : {"closed", "open", "half_open"},
             fails  : 0 .. Threshold,  \* consecutiveFailures, as far as they count
             cooled : BOOLEAN,         \* resetTimeoutMs have passed since lastFailureTime
             probe  : BOOLEAN]         \* probeInFlight

NewBreaker == [state |-> "closed", fails |-> 0, cooled |-> TRUE, probe |-> FALSE]

\* The answer of canAttempt().
CanAttempt(b) ==
    \/ b.state = "closed"
    \/ b.state = "open" /\ b.cooled
    \/ b.state = "half_open" /\ ~b.probe

\* What canAttempt() leaves behind: outside CLOSED an admitted caller takes the
\* probe token.
Attempted(b) ==
    IF b.state # "closed" /\ CanAttempt(b)
    THEN [b EXCEPT !.state = "half_open", !.probe = TRUE]
    ELSE b

\* Mistake: a success closes the circuit and keeps the count.
SuccessKeepsCount(b) == [b EXCEPT !.state = "closed", !.probe = FALSE]

\* recordSuccess()
Succeeded(b) == [b EXCEPT !.state = "closed", !.fails = 0, !.probe = FALSE]

\* recordFailure()
Failed(b) ==
    [state  |-> IF b.fails + 1 >= Threshold THEN "open" ELSE b.state,
     fails  |-> IF b.fails < Threshold THEN b.fails + 1 ELSE b.fails,
     cooled |-> FALSE,
     probe  |-> FALSE]

\* resetTimeoutMs have passed.
CooledDown(b) == [b EXCEPT !.cooled = TRUE]

\* The circuit is closed exactly as long as the failures in a row are fewer
\* than the threshold, and only a half-open circuit has a probe out.
Coherent(b) ==
    /\ b.state = "closed" <=> b.fails < Threshold
    /\ b.probe => b.state = "half_open"
=============================================================================
