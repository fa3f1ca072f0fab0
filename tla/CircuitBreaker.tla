--------------------------- MODULE CircuitBreaker ---------------------------
(***************************************************************************)
(* pkg/circuitbreaker/breaker.go: for each runner address the failures in  *)
(* a row and the moment until which the circuit is open.  Every method     *)
(* runs under Breaker.mu, so each is one step.  A missing entry of         *)
(* Breaker.states behaves like a zero one; lastFailure is never read.      *)
(***************************************************************************)
EXTENDS Integers

CONSTANTS Runners,          \* enabled runner addresses
          BreakerFailures,  \* reliability.circuit_breaker_failures
          BreakerCooldown   \* reliability.circuit_breaker_cooldown

ASSUME BreakerAssumption ==
    /\ BreakerFailures \in Int
    /\ BreakerCooldown \in Int

VARIABLES failures,   \* circuitState.failures
          openUntil,  \* circuitState.openUntil; 0 is the zero time
          now         \* the clock, from 1

breakerVars == <<failures, openUntil>>

\* New: defaults for limits that are missing or not positive.
MaxFailures == IF BreakerFailures <= 0 THEN 3 ELSE BreakerFailures
Cooldown    == IF BreakerCooldown <= 0 THEN 30 ELSE BreakerCooldown

BreakerInit ==
    /\ failures = [a \in Runners |-> 0]
    /\ openUntil = [a \in Runners |-> 0]
    /\ now = 1

\* Mutant: Allow never refuses.
AllowedAlways(a) == TRUE

\* What Allow answers.
Allowed(a) == openUntil[a] = 0 \/ now > openUntil[a]

\* Mutant: the first question after the cooldown forgets the counter.
AllowKeepsFailures(a) ==
    /\ openUntil' = [openUntil EXCEPT ![a] = IF now > @ THEN 0 ELSE @]
    /\ UNCHANGED failures

\* What Allow does: the first question after the cooldown closes the circuit
\* altogether, there is no half-open state.
Allow(a) ==
    IF openUntil[a] # 0 /\ now > openUntil[a]
    THEN /\ openUntil' = [openUntil EXCEPT ![a] = 0]
         /\ failures' = [failures EXCEPT ![a] = 0]
    ELSE UNCHANGED breakerVars

RecordSuccess(a) ==
    /\ failures' = [failures EXCEPT ![a] = 0]
    /\ openUntil' = [openUntil EXCEPT ![a] = 0]

RecordFailure(a) ==
    /\ failures' = [failures EXCEPT ![a] = @ + 1]
    /\ openUntil' = [openUntil EXCEPT ![a] =
                       IF failures[a] + 1 >= MaxFailures THEN now + Cooldown ELSE @]
=============================================================================
