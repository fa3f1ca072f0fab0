----------------------------- MODULE MCDispatch -----------------------------
(* Instances of Dispatch for TLC: callers are interchangeable, and so are  *)
(* runners that report the same utilisation.                               *)
EXTENDS Dispatch, TLC

SameGpu == [a \in Runners |-> 0]

\* Streams are abandoned on one runner at most, so that its counter and the other's differ;
\* not with Symmetry, unless it is the only runner.
OneLeaks == LET leaky == CHOOSE a \in Runners : TRUE
            IN  [a \in Runners |-> IF a = leaky THEN 1 ELSE 0]

Symmetry == Permutations(Callers) \cup Permutations(Runners)
=============================================================================
