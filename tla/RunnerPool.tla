----------------------------- MODULE RunnerPool -----------------------------
(***************************************************************************)
(* pkg/llmrunner/pool.go: the cache of runner probes and the counters of   *)
(* generations in flight.  The clock is the one of CircuitBreaker.         *)
(*                                                                         *)
(* Runners are external: a runner answers with its model loaded ("ready"), *)
(* answers without one ("empty") or does not answer ("down").              *)
(***************************************************************************)
EXTENDS CircuitBreaker, FiniteSets

CONSTANTS ProbeTtl,      \* runnerProbeTTL
          BackoffMax,    \* runnerProbeBackoffMax, in units of runnerProbeBackoffBase
          BackoffShift,  \* runnerProbeBackoffShift
          Gpu            \* the utilisation each runner reports, 0..100

ASSUME PoolAssumption ==
    /\ IsFiniteSet(Runners)
    /\ ProbeTtl \in Nat
    /\ BackoffMax \in Nat \ {0}
    /\ BackoffShift \in Nat
    /\ Gpu \in [Runners -> 0..100]

VARIABLES runner,     \* what each runner would answer now
          probeCache, \* runnerProbeEntry of each address
          inflight    \* Pool.inflight

poolVars == <<probeCache, inflight>>

Health == {"ready", "empty", "down"}

PoolInit ==
    /\ runner \in [Runners -> Health]
    /\ probeCache = [a \in Runners |->
                       [ok |-> FALSE, probedAt |-> 0, backoffUntil |-> 0, failCount |-> 0]]
    /\ inflight = [a \in Runners |-> 0]

\* recordProbeFailure: 1, 2, 4 ... units, at most BackoffMax.
Backoff(fc) ==
    LET shift == IF fc - 1 < BackoffShift THEN fc - 1 ELSE BackoffShift
        units == 2 ^ shift
    IN  IF units < BackoffMax THEN units ELSE BackoffMax

\* failCount is used only through Backoff, which is constant from
\* BackoffShift + 1 on: it is not counted further.
RecordProbeFailure(a) ==
    LET fc == IF probeCache[a].failCount <= BackoffShift
              THEN probeCache[a].failCount + 1 ELSE probeCache[a].failCount
    IN  probeCache' = [probeCache EXCEPT ![a] =
                         [ok |-> FALSE, probedAt |-> now,
                          backoffUntil |-> now + Backoff(fc), failCount |-> fc]]

RecordProbeSuccess(a) ==
    probeCache' = [probeCache EXCEPT ![a] =
                     [ok |-> TRUE, probedAt |-> now, backoffUntil |-> 0, failCount |-> 0]]

\* pickRunner's loop over the cache: taken from it, or left alone for now.
Cached(a)    == probeCache[a].ok /\ now - probeCache[a].probedAt < ProbeTtl
InBackoff(a) == ~probeCache[a].ok /\ now < probeCache[a].backoffUntil

Score(a) == inflight[a] * 100 + Gpu[a]

AddInflight(a, n) == inflight' = [inflight EXCEPT ![a] = @ + n]
=============================================================================
