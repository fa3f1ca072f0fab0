---------------------------- MODULE RequestQueue ----------------------------
(***************************************************************************)
(* pkg/requestqueue/queue.go: the slots that bound how many generations    *)
(* run at once.  A slot is one element of the buffered channel q.sem; only *)
(* the number of elements matters, so sem is len(q.sem).                   *)
(***************************************************************************)
EXTENDS Integers

CONSTANTS MaxConcurrent,  \* reliability.max_concurrent_requests
          WaitLimited     \* TRUE iff reliability.queue_wait_seconds > 0

ASSUME QueueAssumption ==
    /\ MaxConcurrent \in Int
    /\ WaitLimited \in BOOLEAN

VARIABLE sem

\* New: cap(q.sem); a missing or non-positive limit means 8.
Capacity == IF MaxConcurrent <= 0 THEN 8 ELSE MaxConcurrent

\* Mutant: the channel is created without the limit.
AcquireSlotUnbounded == sem' = sem + 1

\* Acquire, the branch where the send on q.sem succeeds.
AcquireSlot == sem < Capacity /\ sem' = sem + 1

\* Mutant: the wait has no limit of its own.
AcquireNeverTimesOut == FALSE

\* Acquire, the branch where the wait context expires.  The select may take
\* it although a slot is free at that moment.
AcquireTimesOut == WaitLimited

\* Release: a receive that never blocks, so on an empty channel it is a no-op.
ReleaseSlot == sem' = IF sem > 0 THEN sem - 1 ELSE sem

QueueInit == sem = 0
=============================================================================
