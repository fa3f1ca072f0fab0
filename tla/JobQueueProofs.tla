--------------------------- MODULE JobQueueProofs ---------------------------
(***************************************************************************)
(* Theorems about JobQueue, for any number of requests, jobs, slots and    *)
(* process starts, and for any mix of write and directory errors.          *)
(***************************************************************************)
EXTENDS JobQueue, FiniteSetTheorems, TLAPS

\* The limits that New and NewJobStore compute from the configuration are
\* positive whatever the configuration says.
LEMMA LimitsPositive ==
    /\ Capacity \in Nat /\ Capacity > 0
    /\ MaxJobs \in Nat /\ MaxJobs > 0
BY QueueAssumption, JobAssumption DEF Capacity, MaxJobs

-----------------------------------------------------------------------------
(* Type correctness.                                                       *)

\* Whatever a write of "pending" or "running" comes to, the file holds a
\* status the store knows.
LEMMA WrittenType ==
    ASSUME NEW old \in FileStates, NEW new \in FileStates, NEW out
    PROVE  Written(old, new, out) \in FileStates
BY DEF Written, FileStates

\* The variables keep their types: in particular the semaphore never holds
\* more than its capacity, however requests, jobs and restarts interleave.
THEOREM TypeCorrect == Spec => []TypeOK
<1>1. Init => TypeOK
  BY LimitsPositive, JobAssumption
     DEF Init, QueueInit, TypeOK, ReqStates, WorkStates, FileStates
<1>2. TypeOK /\ [Next]_vars => TypeOK'
  <2> SUFFICES ASSUME TypeOK, [Next]_vars PROVE TypeOK'
    OBVIOUS
  <2> USE LimitsPositive, JobAssumption DEF TypeOK
  <2>1. ASSUME NEW r \in Requests, RequestNext(r) PROVE TypeOK'
    <3>1. CASE Arrive(r)
      BY <3>1 DEF Arrive, ReqStates
    <3>2. CASE RequestAcquires(r)
      BY <3>2 DEF RequestAcquires, AcquireSlot, ReqStates
    <3>3. CASE RequestTimesOut(r)
      BY <3>3 DEF RequestTimesOut, ReqStates
    <3>4. CASE RequestCancelled(r)
      BY <3>4 DEF RequestCancelled, ReqStates
    <3>5. CASE RequestReleases(r)
      BY <3>5 DEF RequestReleases, ReleaseSlot, ReqStates
    <3>6. CASE StreamAbandoned(r)
      BY <3>6 DEF StreamAbandoned, ReqStates
    <3>7. CASE Enqueue(r)
      <4>1. req' \in [Requests -> ReqStates]
        BY <3>7 DEF Enqueue, ReqStates
      <4>2. file' \in [Jobs -> FileStates]
        BY <3>7, WrittenType DEF Enqueue, WithStatus, FileStates
      <4>3. origin' \in [Jobs -> Requests \cup {None}]
        BY <3>7 DEF Enqueue, WithStatus
      <4> QED
        BY <3>7, <4>1, <4>2, <4>3 DEF Enqueue
    <3> QED
      BY <2>1, <3>1, <3>2, <3>3, <3>4, <3>5, <3>6, <3>7 DEF RequestNext
  <2>2. CASE LoopNext
    <3>1. CASE LoopTick
      BY <3>1 DEF LoopTick
    <3>2. CASE LoopAcquires
      BY <3>2 DEF LoopAcquires, AcquireSlot
    <3>3. CASE LoopGivesUp
      BY <3>3 DEF LoopGivesUp
    <3>4. CASE LoopEnds
      BY <3>4 DEF LoopEnds
    <3>5. CASE ClaimNext
      <4>1. PICK j \in WithStatus("pending") :
              \E out \in [{k \in WithStatus("pending") : k < j} -> WriteOutcomes \ {"ok"}] :
                /\ file' = [k \in Jobs |->
                              IF k = j THEN "running"
                              ELSE IF k \in DOMAIN out
                                   THEN Written("pending", "running", out[k])
                                   ELSE file[k]]
                /\ work' = [work EXCEPT ![j] = "starting"]
                /\ execs' = [execs EXCEPT ![j] = @ + 1]
        BY <3>5 DEF ClaimNext
      <4>2. file' \in [Jobs -> FileStates]
        BY <4>1, WrittenType DEF FileStates
      <4>3. work' \in [Jobs -> WorkStates]
        BY <4>1 DEF WorkStates
      <4>4. execs' \in [Jobs -> Nat]
        BY <4>1 DEF WithStatus
      <4> QED
        BY <3>5, <4>2, <4>3, <4>4 DEF ClaimNext
    <3>6. CASE ClaimNone
      <4>1. file' \in [Jobs -> FileStates]
        BY <3>6, WrittenType DEF ClaimNone, FileStates
      <4> QED
        BY <3>6, <4>1 DEF ClaimNone, ReleaseSlot
    <3> QED
      BY <2>2, <3>1, <3>2, <3>3, <3>4, <3>5, <3>6 DEF LoopNext
  <2>3. ASSUME NEW j \in Jobs, JobNext(j) PROVE TypeOK'
    <3>1. CASE Execute(j)
      BY <3>1 DEF Execute, Goto, WorkStates
    <3>2. CASE NestedAcquires(j)
      BY <3>2 DEF NestedAcquires, Goto, AcquireSlot, WorkStates
    <3>3. CASE NestedGivesUp(j)
      BY <3>3 DEF NestedGivesUp, Goto, WorkStates
    <3>4. CASE NestedReleases(j)
      BY <3>4 DEF NestedReleases, Goto, ReleaseSlot, WorkStates
    <3>5. CASE Complete(j)
      <4>1. file' \in [Jobs -> FileStates] /\ completed' \in Nat
        BY <3>5, WrittenType DEF Complete, FileStates
      <4> QED
        BY <3>5, <4>1 DEF Complete, Goto, WorkStates
    <3>6. CASE JobReleases(j)
      BY <3>6 DEF JobReleases, Goto, ReleaseSlot, WorkStates
    <3> QED
      BY <2>3, <3>1, <3>2, <3>3, <3>4, <3>5, <3>6 DEF JobNext
  <2>4. CASE Shutdown
    BY <2>4 DEF Shutdown
  <2>5. CASE Stop
    <3>1. file' \in [Jobs -> FileStates]
      BY <2>5 DEF Stop, FileStates, WithStatus
    <3>2. origin' \in [Jobs -> Requests \cup {None}]
      BY <2>5 DEF Stop, WithStatus
    <3>3. req' \in [Requests -> ReqStates]
      BY <2>5 DEF Stop, ReqStates
    <3> QED
      BY <2>5, <3>1, <3>2, <3>3 DEF Stop, WorkStates
  <2>6. CASE Start
    BY <2>6 DEF Start
  <2>7. CASE UNCHANGED vars
    BY <2>7 DEF vars
  <2> QED
    BY <2>1, <2>2, <2>3, <2>4, <2>5, <2>6, <2>7 DEF Next
<1> QED
  BY <1>1, <1>2, PTL DEF Spec

-----------------------------------------------------------------------------
(* At-most-once execution.                                                 *)

\* What AtMostOnce rests on: a file that can still be claimed belongs to a
\* job nobody has executed or is executing, and a goroutine that has yet to
\* store a result owns a file marked running.
Unclaimed ==
    \A j \in Jobs :
      file[j] \in {"absent", "pending"} => execs[j] = 0 /\ work[j] = "none"

OnceInv == Unclaimed /\ AtMostOnce /\ ResultHasItsFile

\* A file only leaves "pending" for "running" or "torn" once its job may have
\* been executed, and no step makes one claimable again.
LEMMA OnceInductive ==
    TypeOK /\ OnceInv /\ [Next]_vars => OnceInv'
<1> SUFFICES ASSUME TypeOK, OnceInv, [Next]_vars PROVE OnceInv'
  OBVIOUS
<1> USE DEF OnceInv, Unclaimed, AtMostOnce, ResultHasItsFile, Unfinished
<1>1. ASSUME NEW r \in Requests, RequestNext(r) PROVE OnceInv'
  <2>1. CASE Enqueue(r)
    BY <2>1 DEF Enqueue, WithStatus, Written, TypeOK, FileStates
  <2>2. CASE ~Enqueue(r)
    BY <1>1, <2>2 DEF RequestNext, Arrive, RequestAcquires, RequestTimesOut,
         RequestCancelled, RequestReleases, StreamAbandoned
  <2> QED
    BY <2>1, <2>2
<1>2. CASE LoopNext
  <2>1. CASE ClaimNext
    <3>1. PICK j \in WithStatus("pending") :
            \E out \in [{k \in WithStatus("pending") : k < j} -> WriteOutcomes \ {"ok"}] :
              /\ file' = [k \in Jobs |->
                            IF k = j THEN "running"
                            ELSE IF k \in DOMAIN out
                                 THEN Written("pending", "running", out[k])
                                 ELSE file[k]]
              /\ work' = [work EXCEPT ![j] = "starting"]
              /\ execs' = [execs EXCEPT ![j] = @ + 1]
      BY <2>1 DEF ClaimNext
    <3>2. PICK out \in [{k \in WithStatus("pending") : k < j} -> WriteOutcomes \ {"ok"}] :
              file' = [k \in Jobs |->
                            IF k = j THEN "running"
                            ELSE IF k \in DOMAIN out
                                 THEN Written("pending", "running", out[k])
                                 ELSE file[k]]
      BY <3>1
    <3>3. j \in Jobs /\ file[j] = "pending" /\ execs[j] = 0 /\ work[j] = "none"
      BY DEF WithStatus
    <3>4. ASSUME NEW k \in Jobs, k # j
          PROVE  execs'[k] = execs[k] /\ work'[k] = work[k]
      BY <3>1, <3>4 DEF TypeOK
    <3>5. execs'[j] = 1 /\ work'[j] = "starting" /\ file'[j] = "running"
      BY <3>1, <3>2, <3>3 DEF TypeOK
    <3>6. ASSUME NEW k \in Jobs, k # j
          PROVE  \/ file'[k] = file[k]
                 \/ file[k] = "pending" /\ file'[k] \in {"pending", "running", "torn"}
      <4>1. CASE k \in DOMAIN out
        BY <3>2, <3>6, <4>1 DEF WithStatus, Written
      <4>2. CASE k \notin DOMAIN out
        BY <3>2, <3>6, <4>2
      <4> QED
        BY <4>1, <4>2
    <3> QED
      BY <3>3, <3>4, <3>5, <3>6
  <2>2. CASE ClaimNone
    <3>1. UNCHANGED <<work, execs>>
      BY <2>2 DEF ClaimNone
    <3>2. ASSUME NEW k \in Jobs
          PROVE  \/ file'[k] = file[k]
                 \/ file[k] = "pending" /\ file'[k] \in {"pending", "running", "torn"}
      BY <2>2 DEF ClaimNone, WithStatus, Written
    <3> QED
      BY <3>1, <3>2
  <2>3. CASE ~ClaimNext /\ ~ClaimNone
    BY <1>2, <2>3 DEF LoopNext, LoopTick, LoopAcquires, LoopGivesUp, LoopEnds
  <2> QED
    BY <2>1, <2>2, <2>3
<1>3. ASSUME NEW j \in Jobs, JobNext(j) PROVE OnceInv'
  <2>1. CASE Complete(j)
    <3>1. work[j] \in {"succeeded", "failed"} /\ file[j] = "running"
      BY <2>1 DEF Complete
    <3>2. file'[j] \notin {"absent", "pending"}
      BY <2>1, <3>1 DEF Complete, Written, Readable, TypeOK
    <3>3. \A k \in Jobs : k # j => file'[k] = file[k] /\ work'[k] = work[k]
      BY <2>1 DEF Complete, Goto, Readable, TypeOK
    <3>4. work'[j] = "releasing" /\ UNCHANGED execs
      BY <2>1 DEF Complete, Goto, TypeOK
    <3> QED
      BY <3>2, <3>3, <3>4
  <2>2. CASE ~Complete(j)
    BY <1>3, <2>2 DEF JobNext, Execute, NestedAcquires, NestedGivesUp,
         NestedReleases, JobReleases, Goto, TypeOK
  <2> QED
    BY <2>1, <2>2
<1>4. CASE Shutdown
  BY <1>4 DEF Shutdown
<1>5. CASE Stop
  <2>1. UNCHANGED execs /\ work' = [j \in Jobs |-> "none"]
    BY <1>5 DEF Stop
  <2>2. ASSUME NEW j \in Jobs
        PROVE  \/ file'[j] \notin {"absent", "pending"}
               \/ file[j] \in {"absent", "pending"}
    BY <1>5 DEF Stop, WithStatus, TypeOK
  <2> QED
    BY <2>1, <2>2
<1>6. CASE Start
  BY <1>6 DEF Start
<1>7. CASE UNCHANGED vars
  BY <1>7 DEF vars
<1> QED
  BY <1>1, <1>2, <1>3, <1>4, <1>5, <1>6, <1>7 DEF Next

LEMMA OnceInvariant == Spec => []OnceInv
<1>1. Init => OnceInv
  BY DEF Init, OnceInv, Unclaimed, AtMostOnce, ResultHasItsFile, Unfinished
<1> QED
  BY <1>1, TypeCorrect, OnceInductive, PTL DEF Spec

\* No job is executed twice, whatever stops, restarts, failing writes and
\* unreadable directories happen in between (ClaimNext, job_store.go).
THEOREM JobRunsAtMostOnce == Spec => []AtMostOnce
BY OnceInvariant, PTL DEF OnceInv

\* The goroutine of a job always finds the file it has to store its result in
\* (Complete, whose error processOne ignores).
THEOREM ResultIsStorable == Spec => []ResultHasItsFile
BY OnceInvariant, PTL DEF OnceInv

-----------------------------------------------------------------------------
(* Conservation of slots.                                                  *)

\* f and g differ at most at x.
Agree(S, f, g, x) == \A y \in S : y # x => g[y] = f[y]

\* How the count changes when only the entry of x does.
LEMMA CountUpdate ==
    ASSUME NEW S, IsFiniteSet(S), NEW f, NEW g, NEW x \in S, NEW Q,
           Agree(S, f, g, x)
    PROVE  /\ Count(S, f, Q) \in Nat /\ Count(S, g, Q) \in Nat
           /\ (f[x] \in Q <=> g[x] \in Q) => Count(S, g, Q) = Count(S, f, Q)
           /\ f[x] \notin Q /\ g[x] \in Q => Count(S, g, Q) = Count(S, f, Q) + 1
           /\ f[x] \in Q /\ g[x] \notin Q => Count(S, f, Q) = Count(S, g, Q) + 1
<1> DEFINE A == {y \in S : f[y] \in Q}
           B == {y \in S : g[y] \in Q}
<1>1. A \in SUBSET S /\ B \in SUBSET S
  OBVIOUS
<1>2. IsFiniteSet(A) /\ IsFiniteSet(B)
  BY <1>1, FS_Subset
<1>3. Cardinality(A) \in Nat /\ Cardinality(B) \in Nat
  BY <1>2, FS_CardinalityType
<1>4. (f[x] \in Q <=> g[x] \in Q) => B = A
  BY DEF Agree
<1>5. f[x] \notin Q /\ g[x] \in Q => B = A \cup {x} /\ x \notin A
  BY DEF Agree
<1>6. f[x] \in Q /\ g[x] \notin Q => A = B \cup {x} /\ x \notin B
  BY DEF Agree
<1>7. /\ Cardinality(A \cup {x}) = IF x \in A THEN Cardinality(A) ELSE Cardinality(A) + 1
      /\ Cardinality(B \cup {x}) = IF x \in B THEN Cardinality(B) ELSE Cardinality(B) + 1
  BY <1>2, FS_AddElement
<1>8. Count(S, f, Q) = Cardinality(A) /\ Count(S, g, Q) = Cardinality(B)
  BY DEF Count
<1> HIDE DEF A, B
<1> QED
  BY <1>3, <1>4, <1>5, <1>6, <1>7, <1>8

\* Counts over finite sets are numbers, and are zero when no entry is in Q.
LEMMA CountType ==
    ASSUME NEW S, IsFiniteSet(S), NEW f, NEW Q
    PROVE  /\ Count(S, f, Q) \in Nat
           /\ (\A x \in S : f[x] \notin Q) => Count(S, f, Q) = 0
           /\ (\E x \in S : f[x] \in Q) => Count(S, f, Q) > 0
<1> DEFINE A == {x \in S : f[x] \in Q}
<1>1. IsFiniteSet(A)
  <2>1. A \in SUBSET S
    OBVIOUS
  <2> QED BY <2>1, FS_Subset
<1>2. Cardinality(A) \in Nat /\ (Cardinality(A) = 0 <=> A = {})
  BY <1>1, FS_CardinalityType, FS_EmptySet
<1>3. /\ (\A x \in S : f[x] \notin Q) => A = {}
      /\ (\E x \in S : f[x] \in Q) => A # {}
  OBVIOUS
<1>4. Count(S, f, Q) = Cardinality(A)
  BY DEF Count
<1> HIDE DEF A
<1> QED
  BY <1>2, <1>3, <1>4

\* The three counts of SlotConservation are numbers.
LEMMA HoldersCounted ==
    /\ Count(Requests, req, RequestHolds) \in Nat
    /\ Count(Jobs, work, JobHolds) \in Nat
    /\ Count(Jobs, work, NestedHolds) \in Nat
BY JobAssumption, CountType

\* One request moves: what the number of slots held by requests becomes.
LEMMA RequestMoves ==
    ASSUME TypeOK, NEW r \in Requests, NEW s, req' = [req EXCEPT ![r] = s]
    PROVE  /\ Count(Requests, req', RequestHolds) \in Nat
           /\ (req[r] \in RequestHolds <=> s \in RequestHolds) =>
                Count(Requests, req', RequestHolds) = Count(Requests, req, RequestHolds)
           /\ req[r] \notin RequestHolds /\ s \in RequestHolds =>
                Count(Requests, req', RequestHolds) = Count(Requests, req, RequestHolds) + 1
           /\ req[r] \in RequestHolds /\ s \notin RequestHolds =>
                Count(Requests, req, RequestHolds) = Count(Requests, req', RequestHolds) + 1
<1>1. req'[r] = s /\ Agree(Requests, req, req', r)
  BY DEF TypeOK, Agree
<1>2. IsFiniteSet(Requests)
  BY JobAssumption
<1> DEFINE g == req'
<1>3. g[r] = s /\ Agree(Requests, req, g, r)
  BY <1>1
<1> HIDE DEF g
<1>4. /\ Count(Requests, g, RequestHolds) \in Nat
      /\ (req[r] \in RequestHolds <=> g[r] \in RequestHolds) =>
                Count(Requests, g, RequestHolds) = Count(Requests, req, RequestHolds)
      /\ req[r] \notin RequestHolds /\ g[r] \in RequestHolds =>
                Count(Requests, g, RequestHolds) = Count(Requests, req, RequestHolds) + 1
      /\ req[r] \in RequestHolds /\ g[r] \notin RequestHolds =>
                Count(Requests, req, RequestHolds) = Count(Requests, g, RequestHolds) + 1
  BY <1>2, <1>3, CountUpdate
<1> QED
  BY <1>3, <1>4 DEF g

\* One job goroutine moves, seen through any set Q of its states.
LEMMA JobMoves ==
    ASSUME TypeOK, NEW j \in Jobs, NEW s, work' = [work EXCEPT ![j] = s], NEW Q
    PROVE  /\ Count(Jobs, work', Q) \in Nat
           /\ (work[j] \in Q <=> s \in Q) =>
                Count(Jobs, work', Q) = Count(Jobs, work, Q)
           /\ work[j] \notin Q /\ s \in Q =>
                Count(Jobs, work', Q) = Count(Jobs, work, Q) + 1
           /\ work[j] \in Q /\ s \notin Q =>
                Count(Jobs, work, Q) = Count(Jobs, work', Q) + 1
<1>1. work'[j] = s /\ Agree(Jobs, work, work', j)
  BY DEF TypeOK, Agree
<1>2. IsFiniteSet(Jobs)
  BY JobAssumption
<1> DEFINE g == work'
<1>3. g[j] = s /\ Agree(Jobs, work, g, j)
  BY <1>1
<1> HIDE DEF g
<1>4. /\ Count(Jobs, g, Q) \in Nat
      /\ (work[j] \in Q <=> g[j] \in Q) => Count(Jobs, g, Q) = Count(Jobs, work, Q)
      /\ work[j] \notin Q /\ g[j] \in Q => Count(Jobs, g, Q) = Count(Jobs, work, Q) + 1
      /\ work[j] \in Q /\ g[j] \notin Q => Count(Jobs, work, Q) = Count(Jobs, g, Q) + 1
  BY <1>2, <1>3, CountUpdate
<1> QED
  BY <1>3, <1>4 DEF g

\* While the process is down there is no loop.
DownIsOff == up = "down" => loop = "off"

LEMMA DownIsOffInductive == DownIsOff /\ [Next]_vars => DownIsOff'
BY DEF DownIsOff, Next, vars, RequestNext, Arrive, RequestAcquires,
     RequestTimesOut, RequestCancelled, RequestReleases, StreamAbandoned,
     Enqueue, LoopNext, LoopTick, LoopAcquires, LoopGivesUp, LoopEnds,
     ClaimNext, ClaimNone, JobNext, Execute, NestedAcquires, NestedGivesUp,
     NestedReleases, Complete, JobReleases, Shutdown, Stop, Start

\* Every step moves sem exactly as it moves the holders of slots.
LEMMA SlotsInductive ==
    TypeOK /\ OnceInv /\ DownIsOff /\ SlotConservation /\ [Next]_vars
      => SlotConservation'
<1> SUFFICES ASSUME TypeOK, OnceInv, DownIsOff, SlotConservation, [Next]_vars
             PROVE  SlotConservation'
  OBVIOUS
<1> DEFINE rq == Count(Requests, req, RequestHolds)
           jb == Count(Jobs, work, JobHolds)
           ns == Count(Jobs, work, NestedHolds)
<1>0. sem = rq + jb + ns + LoopHolds /\ rq \in Nat /\ jb \in Nat /\ ns \in Nat
  BY HoldersCounted DEF SlotConservation
<1>1. ASSUME NEW r \in Requests, RequestNext(r) PROVE SlotConservation'
  <2>1. UNCHANGED <<work, loop>>
    BY <1>1 DEF RequestNext, Arrive, RequestAcquires, RequestTimesOut,
         RequestCancelled, RequestReleases, StreamAbandoned, Enqueue
  <2>2. PICK s : req' = [req EXCEPT ![r] = s]
    BY <1>1 DEF RequestNext, Arrive, RequestAcquires, RequestTimesOut,
         RequestCancelled, RequestReleases, StreamAbandoned, Enqueue
  <2>3. req'[r] = s
    BY <2>2 DEF TypeOK
  <2>4. CASE RequestAcquires(r)
    <3>1. req[r] \notin RequestHolds /\ s \in RequestHolds /\ sem' = sem + 1
      BY <2>3, <2>4 DEF RequestAcquires, AcquireSlot, RequestHolds, TypeOK
    <3>2. Count(Requests, req', RequestHolds) = rq + 1
      BY <2>2, <3>1, RequestMoves
    <3> QED
      BY <1>0, <2>1, <3>1, <3>2 DEF SlotConservation, LoopHolds
  <2>5. CASE RequestReleases(r)
    <3>1. req[r] \in RequestHolds /\ s \notin RequestHolds
      BY <2>3, <2>5 DEF RequestReleases, RequestHolds, TypeOK
    <3>2. rq = Count(Requests, req', RequestHolds) + 1
          /\ Count(Requests, req', RequestHolds) \in Nat
      BY <2>2, <3>1, RequestMoves
    <3>3. sem > 0
      BY <1>0, <3>2 DEF LoopHolds
    <3>4. sem' = sem - 1
      BY <2>5, <3>3 DEF RequestReleases, ReleaseSlot
    <3> QED
      BY <1>0, <2>1, <3>2, <3>4 DEF SlotConservation, LoopHolds
  <2>6. CASE ~RequestAcquires(r) /\ ~RequestReleases(r)
    <3>1. sem' = sem
      BY <1>1, <2>6 DEF RequestNext, Arrive, RequestTimesOut, RequestCancelled,
           StreamAbandoned, Enqueue
    <3>2. req[r] \in RequestHolds <=> s \in RequestHolds
      BY <1>1, <2>3, <2>6 DEF RequestNext, Arrive, RequestTimesOut,
           RequestCancelled, StreamAbandoned, Enqueue, RequestHolds, TypeOK
    <3>3. Count(Requests, req', RequestHolds) = rq
      BY <2>2, <3>2, RequestMoves
    <3> QED
      BY <1>0, <2>1, <3>1, <3>3 DEF SlotConservation, LoopHolds
  <2> QED
    BY <2>4, <2>5, <2>6
<1>2. CASE LoopNext
  <2>1. UNCHANGED req
    BY <1>2 DEF LoopNext, LoopTick, LoopAcquires, LoopGivesUp, LoopEnds,
         ClaimNext, ClaimNone
  <2>2. CASE ClaimNext
    <3>1. PICK j \in WithStatus("pending") : work' = [work EXCEPT ![j] = "starting"]
      BY <2>2 DEF ClaimNext
    <3>2. j \in Jobs /\ work[j] = "none"
      BY DEF WithStatus, OnceInv, Unclaimed
    <3>3. Count(Jobs, work', JobHolds) = jb + 1
      <4>1. work[j] \notin JobHolds /\ "starting" \in JobHolds
        BY <3>2 DEF JobHolds, Unfinished
      <4> QED BY <3>1, <3>2, <4>1, JobMoves
    <3>4. Count(Jobs, work', NestedHolds) = ns
      <4>1. work[j] \notin NestedHolds /\ "starting" \notin NestedHolds
        BY <3>2 DEF NestedHolds
      <4> QED BY <3>1, <3>2, <4>1, JobMoves
    <3>5. sem' = sem /\ loop = "holding" /\ loop' = "idle"
      BY <2>2 DEF ClaimNext
    <3> QED
      BY <1>0, <2>1, <3>3, <3>4, <3>5 DEF SlotConservation, LoopHolds
  <2>3. CASE ~ClaimNext
    <3>1. UNCHANGED work
      BY <1>2, <2>3 DEF LoopNext, LoopTick, LoopAcquires, LoopGivesUp,
           LoopEnds, ClaimNone
    <3>2. sem' + LoopHolds = sem + LoopHolds'
      BY <1>0, <1>2, <2>3 DEF LoopNext, LoopTick, LoopAcquires, LoopGivesUp,
           LoopEnds, ClaimNone, AcquireSlot, ReleaseSlot, LoopHolds, TypeOK
    <3>3. sem' \in Nat
      BY <1>0, <1>2, <2>3 DEF LoopNext, LoopTick, LoopAcquires, LoopGivesUp,
           LoopEnds, ClaimNone, AcquireSlot, ReleaseSlot, LoopHolds, TypeOK
    <3> QED
      BY <1>0, <2>1, <3>1, <3>2, <3>3 DEF SlotConservation, LoopHolds
  <2> QED
    BY <2>2, <2>3
<1>3. ASSUME NEW j \in Jobs, JobNext(j) PROVE SlotConservation'
  <2> USE DEF Goto
  <2>1. UNCHANGED <<req, loop>>
    BY <1>3 DEF JobNext, Execute, NestedAcquires, NestedGivesUp,
         NestedReleases, Complete, JobReleases
  <2>2. PICK s : work' = [work EXCEPT ![j] = s]
    BY <1>3 DEF JobNext, Execute, NestedAcquires, NestedGivesUp,
         NestedReleases, Complete, JobReleases
  <2>3. work'[j] = s
    BY <2>2 DEF TypeOK
  <2> DEFINE jb2 == Count(Jobs, work', JobHolds)
             ns2 == Count(Jobs, work', NestedHolds)
  <2>4. /\ jb2 \in Nat
        /\ (work[j] \in JobHolds <=> s \in JobHolds) => jb2 = jb
        /\ work[j] \in JobHolds /\ s \notin JobHolds => jb = jb2 + 1
    BY <2>2, JobMoves
  <2>5. /\ ns2 \in Nat
        /\ (work[j] \in NestedHolds <=> s \in NestedHolds) => ns2 = ns
        /\ work[j] \notin NestedHolds /\ s \in NestedHolds => ns2 = ns + 1
        /\ work[j] \in NestedHolds /\ s \notin NestedHolds => ns = ns2 + 1
    BY <2>2, JobMoves
  <2> HIDE DEF jb2, ns2, jb, ns, rq
  <2>6. sem' = rq + jb2 + ns2 + LoopHolds
    <3> USE DEF JobHolds, NestedHolds, Unfinished, LoopHolds
    <3>1. CASE NestedAcquires(j)
      BY <1>0, <2>3, <2>4, <2>5, <3>1 DEF NestedAcquires, AcquireSlot, TypeOK
    <3>2. CASE NestedReleases(j)
      BY <1>0, <2>3, <2>4, <2>5, <3>2 DEF NestedReleases, ReleaseSlot, TypeOK
    <3>3. CASE JobReleases(j)
      BY <1>0, <2>3, <2>4, <2>5, <3>3 DEF JobReleases, ReleaseSlot, TypeOK
    <3>4. CASE Execute(j)
      BY <1>0, <2>3, <2>4, <2>5, <3>4 DEF Execute, TypeOK
    <3>5. CASE NestedGivesUp(j)
      BY <1>0, <2>3, <2>4, <2>5, <3>5 DEF NestedGivesUp, TypeOK
    <3>6. CASE Complete(j)
      BY <1>0, <2>3, <2>4, <2>5, <3>6 DEF Complete, TypeOK
    <3> QED
      BY <1>3, <3>1, <3>2, <3>3, <3>4, <3>5, <3>6 DEF JobNext
  <2> QED
    BY <2>1, <2>6 DEF SlotConservation, LoopHolds, jb2, ns2, rq
<1>4. CASE Shutdown
  BY <1>4 DEF Shutdown, SlotConservation, LoopHolds
<1>5. CASE Stop
  <2>1. \A r \in Requests : req'[r] \notin RequestHolds
    BY <1>5 DEF Stop, InFlight, RequestHolds
  <2>2. \A j \in Jobs : work'[j] \notin JobHolds /\ work'[j] \notin NestedHolds
    BY <1>5 DEF Stop, JobHolds, NestedHolds, Unfinished
  <2>3. /\ Count(Requests, req', RequestHolds) = 0
        /\ Count(Jobs, work', JobHolds) = 0
        /\ Count(Jobs, work', NestedHolds) = 0
    BY <2>1, <2>2, JobAssumption, CountType
  <2> QED
    BY <1>5, <2>3 DEF Stop, SlotConservation, LoopHolds
<1>6. CASE Start
  BY <1>6 DEF Start, SlotConservation, LoopHolds, DownIsOff
<1>7. CASE UNCHANGED vars
  BY <1>7 DEF vars, SlotConservation, LoopHolds
<1> QED
  BY <1>1, <1>2, <1>3, <1>4, <1>5, <1>6, <1>7 DEF Next

LEMMA SlotsInvariant == Spec => [](DownIsOff /\ SlotConservation)
<1>1. Init => DownIsOff /\ SlotConservation
  <2> SUFFICES ASSUME Init PROVE SlotConservation
    BY DEF Init, DownIsOff
  <2>1. /\ \A r \in Requests : req[r] \notin RequestHolds
        /\ \A j \in Jobs : work[j] \notin JobHolds /\ work[j] \notin NestedHolds
    BY DEF Init, RequestHolds, JobHolds, NestedHolds, Unfinished
  <2>2. /\ Count(Requests, req, RequestHolds) = 0
        /\ Count(Jobs, work, JobHolds) = 0
        /\ Count(Jobs, work, NestedHolds) = 0
    BY <2>1, JobAssumption, CountType
  <2> QED
    BY <2>2 DEF Init, QueueInit, SlotConservation, LoopHolds
<1> QED
  BY <1>1, TypeCorrect, OnceInvariant, DownIsOffInductive, SlotsInductive, PTL
     DEF Spec

\* The number of elements in the semaphore channel is always the number of
\* slots somebody holds: no interleaving of handlers, loop, job goroutines,
\* timeouts and restarts leaks one or releases one twice.
THEOREM SlotsConserved == Spec => []SlotConservation
BY SlotsInvariant, PTL

-----------------------------------------------------------------------------
(* A job needs two slots.                                                  *)

\* A job in its generation holds two of the slots in sem.
LEMMA GenerationHoldsTwo ==
    ASSUME SlotConservation, NEW j \in Jobs, work[j] = "generating"
    PROVE  sem >= 2
<1>1. Count(Jobs, work, JobHolds) > 0 /\ Count(Jobs, work, NestedHolds) > 0
  <2>1. work[j] \in JobHolds /\ work[j] \in NestedHolds
    BY DEF JobHolds, NestedHolds, Unfinished
  <2> QED
    BY <2>1, JobAssumption, CountType
<1> QED
  BY <1>1, HoldersCounted DEF SlotConservation, LoopHolds

\* With one slot, only agent steps answer without a generation.
SucceededInv ==
    Capacity = 1 =>
      \A j \in Jobs : work[j] = "succeeded" => origin[j] \in AgentSteps

\* The file of a job that is being worked on keeps its origin.
LEMMA SingleSlotInductive ==
    ASSUME TypeOK, OnceInv, SlotConservation, SucceededInv,
           ChatJobNeedsTwoSlots, [Next]_vars
    PROVE  SucceededInv' /\ ChatJobNeedsTwoSlots'
<1> SUFFICES ASSUME Capacity = 1, NEW j \in Jobs
             PROVE  /\ work'[j] = "succeeded" => origin'[j] \in AgentSteps
                    /\ file'[j] = "completed" => origin'[j] \in AgentSteps
  BY DEF SucceededInv, ChatJobNeedsTwoSlots
<1> USE DEF SucceededInv, ChatJobNeedsTwoSlots
<1>0. /\ file[j] \in {"absent", "pending"} => work[j] = "none"
      /\ work[j] # "generating"
  <2>1. sem <= 1
    BY DEF TypeOK
  <2>2. work[j] = "generating" => sem >= 2
    BY GenerationHoldsTwo
  <2>3. sem \in Int
    BY LimitsPositive DEF TypeOK
  <2> QED
    BY <2>1, <2>2, <2>3 DEF OnceInv, Unclaimed
<1>1. ASSUME NEW r \in Requests, RequestNext(r)
      PROVE  /\ work'[j] = "succeeded" => origin'[j] \in AgentSteps
             /\ file'[j] = "completed" => origin'[j] \in AgentSteps
  <2>1. CASE Enqueue(r)
    BY <1>0, <2>1 DEF Enqueue, WithStatus, Written, TypeOK
  <2>2. CASE ~Enqueue(r)
    BY <1>1, <2>2 DEF RequestNext, Arrive, RequestAcquires, RequestTimesOut,
         RequestCancelled, RequestReleases, StreamAbandoned
  <2> QED
    BY <2>1, <2>2
<1>2. CASE LoopNext
  <2>1. UNCHANGED origin
    BY <1>2 DEF LoopNext, LoopTick, LoopAcquires, LoopGivesUp, LoopEnds,
         ClaimNext, ClaimNone
  <2>2. work'[j] \in {work[j], "starting"}
    BY <1>2 DEF LoopNext, LoopTick, LoopAcquires, LoopGivesUp, LoopEnds,
         ClaimNext, ClaimNone, TypeOK
  <2>3. file'[j] = "completed" => file[j] = "completed"
    <3>1. CASE ClaimNext
      BY <3>1 DEF ClaimNext, WithStatus, Written
    <3>2. CASE ClaimNone
      BY <3>2 DEF ClaimNone, WithStatus, Written
    <3>3. CASE ~ClaimNext /\ ~ClaimNone
      BY <1>2, <3>3 DEF LoopNext, LoopTick, LoopAcquires, LoopGivesUp, LoopEnds
    <3> QED
      BY <3>1, <3>2, <3>3
  <2> QED
    BY <2>1, <2>2, <2>3
<1>3. ASSUME NEW k \in Jobs, JobNext(k)
      PROVE  /\ work'[j] = "succeeded" => origin'[j] \in AgentSteps
             /\ file'[j] = "completed" => origin'[j] \in AgentSteps
  <2>1. UNCHANGED origin
    BY <1>3 DEF JobNext, Execute, NestedAcquires, NestedGivesUp,
         NestedReleases, Complete, JobReleases
  <2>2. work'[j] = "succeeded" => work[j] = "succeeded" \/ origin[j] \in AgentSteps
    BY <1>0, <1>3 DEF JobNext, Execute, NestedAcquires, NestedGivesUp,
         NestedReleases, Complete, JobReleases, Goto, TypeOK
  <2>3. file'[j] = "completed" => file[j] = "completed" \/ work[j] = "succeeded"
    <3>1. CASE Complete(k)
      BY <3>1 DEF Complete, Written, Readable, TypeOK
    <3>2. CASE ~Complete(k)
      BY <1>3, <3>2 DEF JobNext, Execute, NestedAcquires, NestedGivesUp,
           NestedReleases, JobReleases
    <3> QED
      BY <3>1, <3>2
  <2> QED
    BY <2>1, <2>2, <2>3
<1>4. CASE Shutdown
  BY <1>4 DEF Shutdown
<1>5. CASE Stop
  <2>1. work'[j] = "none"
    BY <1>5 DEF Stop
  <2>2. file'[j] = "completed" => file[j] = "completed" /\ origin'[j] = origin[j]
    BY <1>5 DEF Stop, WithStatus, TypeOK
  <2> QED
    BY <2>1, <2>2
<1>6. CASE Start
  BY <1>6 DEF Start
<1>7. CASE UNCHANGED vars
  BY <1>7 DEF vars
<1> QED
  BY <1>1, <1>2, <1>3, <1>4, <1>5, <1>6, <1>7 DEF Next

\* A server with one slot never completes a deferred chat: processOne holds the
\* slot that CollectMessage waits for.
THEOREM SingleSlotStarvesChatJobs == Spec => []ChatJobNeedsTwoSlots
<1>1. Init => SucceededInv /\ ChatJobNeedsTwoSlots
  BY DEF Init, SucceededInv, ChatJobNeedsTwoSlots
<1> QED
  BY <1>1, TypeCorrect, OnceInvariant, SlotsInvariant, SingleSlotInductive, PTL
     DEF Spec

-----------------------------------------------------------------------------
(* The limit on open jobs.                                                 *)

Open == {"pending", "running"}

\* Every entry of g in Q is one of f.
Within(S, f, g, Q) == \A x \in S : g[x] \in Q => f[x] \in Q

LEMMA CountWithin ==
    ASSUME NEW S, IsFiniteSet(S), NEW f, NEW g, NEW Q, Within(S, f, g, Q)
    PROVE  Count(S, g, Q) <= Count(S, f, Q)
<1> DEFINE A == {x \in S : f[x] \in Q}
           B == {x \in S : g[x] \in Q}
<1>1. A \in SUBSET S /\ B \in SUBSET A
  BY DEF Within
<1>2. IsFiniteSet(A)
  BY <1>1, FS_Subset
<1>3. Cardinality(B) <= Cardinality(A)
  BY <1>1, <1>2, FS_Subset
<1> QED
  BY <1>3 DEF Count

\* Without directory errors, what Enqueue compares with the limit is the
\* number of open jobs.
LEMMA CountsAreOpenJobs ==
    ASSUME ~DirErrors, NEW n \in Counts
    PROVE  n = Count(Jobs, file, Open)
<1> DEFINE P == WithStatus("pending")
           R == WithStatus("running")
<1>1. n = Cardinality(P) + Cardinality(R)
  BY DEF Counts
<1>2. P \in SUBSET Jobs /\ R \in SUBSET Jobs /\ P \cap R = {}
  BY DEF WithStatus
<1>3. IsFiniteSet(P) /\ IsFiniteSet(R)
  BY <1>2, JobAssumption, FS_Subset
<1>4. Cardinality(P \cup R) = Cardinality(P) + Cardinality(R)
  <2>1. Cardinality(P \cup R) =
          Cardinality(P) + Cardinality(R) - Cardinality(P \cap R)
    BY <1>3, FS_Union
  <2>2. Cardinality(P \cap R) = 0
    BY <1>2, FS_EmptySet
  <2>3. Cardinality(P) \in Nat /\ Cardinality(R) \in Nat
    BY <1>3, FS_CardinalityType
  <2> QED
    BY <2>1, <2>2, <2>3
<1>5. P \cup R = {j \in Jobs : file[j] \in Open}
  BY DEF WithStatus, Open
<1> QED
  BY <1>1, <1>4, <1>5 DEF Count

\* A step that opens no job keeps the bound.
LEMMA BoundKept ==
    ASSUME ~DirErrors, QueueBound, Within(Jobs, file, file', Open)
    PROVE  QueueBound'
<1> DEFINE g == file'
<1>1. Count(Jobs, file, Open) <= MaxJobs
  BY DEF QueueBound, Open
<1>2. Within(Jobs, file, g, Open)
  OBVIOUS
<1>3. IsFiniteSet(Jobs)
  BY JobAssumption
<1> HIDE DEF g
<1>4. Count(Jobs, g, Open) <= Count(Jobs, file, Open)
  BY <1>2, <1>3, CountWithin
<1>5. Count(Jobs, g, Open) \in Nat /\ Count(Jobs, file, Open) \in Nat
  BY <1>3, CountType
<1>6. Count(Jobs, g, Open) <= MaxJobs
  BY <1>1, <1>4, <1>5, LimitsPositive
<1> QED
  BY <1>6 DEF QueueBound, Open, g

\* A step that opens one job after the check of Enqueue keeps it too.
LEMMA BoundReached ==
    ASSUME TypeOK, ~DirErrors, NEW n \in Counts, n < MaxJobs,
           NEW j \in Jobs, NEW s, file' = [file EXCEPT ![j] = s]
    PROVE  QueueBound'
<1> DEFINE g == file'
<1>1. Agree(Jobs, file, g, j)
  BY DEF TypeOK, Agree
<1>2. IsFiniteSet(Jobs)
  BY JobAssumption
<1>3. Count(Jobs, file, Open) < MaxJobs
  BY CountsAreOpenJobs
<1> HIDE DEF g
<1>4. /\ Count(Jobs, file, Open) \in Nat /\ Count(Jobs, g, Open) \in Nat
      /\ \/ Count(Jobs, g, Open) = Count(Jobs, file, Open)
         \/ Count(Jobs, g, Open) = Count(Jobs, file, Open) + 1
         \/ Count(Jobs, file, Open) = Count(Jobs, g, Open) + 1
  BY <1>1, <1>2, CountUpdate
<1>5. Count(Jobs, g, Open) <= MaxJobs
  BY <1>3, <1>4, LimitsPositive
<1> QED
  BY <1>5 DEF QueueBound, Open, g

LEMMA BoundInductive == TypeOK /\ QueueBound /\ [Next]_vars => QueueBound'
<1> SUFFICES ASSUME TypeOK, QueueBound, [Next]_vars, ~DirErrors
             PROVE  QueueBound'
  BY DEF QueueBound
<1>1. ASSUME NEW r \in Requests, RequestNext(r) PROVE QueueBound'
  <2>1. CASE Enqueue(r)
    <3>1. CASE UNCHANGED file
      BY <3>1, BoundKept DEF Within
    <3>2. CASE ~UNCHANGED file
      <4>1. PICK n \in Counts, j \in WithStatus("absent"), out \in WriteOutcomes :
              n < MaxJobs /\ file' = [file EXCEPT ![j] = Written("absent", "pending", out)]
        BY <2>1, <3>2 DEF Enqueue
      <4>2. j \in Jobs
        BY DEF WithStatus
      <4> QED
        BY <4>1, <4>2, BoundReached
    <3> QED
      BY <3>1, <3>2
  <2>2. CASE ~Enqueue(r)
    <3>1. UNCHANGED file
      BY <1>1, <2>2 DEF RequestNext, Arrive, RequestAcquires, RequestTimesOut,
           RequestCancelled, RequestReleases, StreamAbandoned
    <3> QED
      BY <3>1, BoundKept DEF Within
  <2> QED
    BY <2>1, <2>2
<1>2. CASE LoopNext
  <2>1. Within(Jobs, file, file', Open)
    <3>1. CASE ClaimNext
      BY <3>1 DEF ClaimNext, Within, WithStatus, Written, Open
    <3>2. CASE ClaimNone
      BY <3>2 DEF ClaimNone, Within, WithStatus, Written, Open
    <3>3. CASE ~ClaimNext /\ ~ClaimNone
      BY <1>2, <3>3 DEF LoopNext, LoopTick, LoopAcquires, LoopGivesUp,
           LoopEnds, Within
    <3> QED
      BY <3>1, <3>2, <3>3
  <2> QED
    BY <2>1, BoundKept
<1>3. ASSUME NEW j \in Jobs, JobNext(j) PROVE QueueBound'
  <2>1. Within(Jobs, file, file', Open)
    <3>1. CASE Complete(j)
      BY <3>1 DEF Complete, Within, Written, Open, TypeOK
    <3>2. CASE ~Complete(j)
      BY <1>3, <3>2 DEF JobNext, Execute, NestedAcquires, NestedGivesUp,
           NestedReleases, JobReleases, Within
    <3> QED
      BY <3>1, <3>2
  <2> QED
    BY <2>1, BoundKept
<1>4. CASE Stop
  <2>1. CASE Within(Jobs, file, file', Open)
    BY <2>1, BoundKept
  <2>2. CASE ~Within(Jobs, file, file', Open)
    <3>1. PICK j \in WithStatus("absent"), n \in Counts :
            n < MaxJobs /\ file' = [file EXCEPT ![j] = "pending"]
      BY <1>4, <2>2 DEF Stop, Within, Open, TypeOK
    <3>2. j \in Jobs
      BY DEF WithStatus
    <3> QED
      BY <3>1, <3>2, BoundReached
  <2> QED
    BY <2>1, <2>2
<1>5. CASE Shutdown \/ Start \/ UNCHANGED vars
  <2>1. UNCHANGED file
    BY <1>5 DEF Shutdown, Start, vars
  <2> QED
    BY <2>1, BoundKept DEF Within
<1> QED
  BY <1>1, <1>2, <1>3, <1>4, <1>5 DEF Next

\* persistent_queue_max holds across any number of restarts, and whatever
\* files they leave behind (Enqueue, job_store.go).
THEOREM QueueIsBounded == Spec => []QueueBound
<1>1. Init => QueueBound
  <2> SUFFICES ASSUME Init PROVE Count(Jobs, file, {"pending", "running"}) <= MaxJobs
    BY DEF QueueBound
  <2>1. \A j \in Jobs : file[j] \notin {"pending", "running"}
    BY DEF Init
  <2>2. Count(Jobs, file, {"pending", "running"}) = 0
    BY <2>1, JobAssumption, CountType
  <2> QED
    BY <2>2, LimitsPositive
<1> QED
  BY <1>1, TypeCorrect, BoundInductive, PTL DEF Spec

-----------------------------------------------------------------------------
(* The life of a job file.                                                 *)

\* A write comes to the new status unless it is allowed to fail.
LEMMA WriteResult ==
    ASSUME NEW old, NEW new, NEW out \in WriteOutcomes
    PROVE  \/ Written(old, new, out) = new
           \/ WriteErrors /\ Written(old, new, out) \in {old, "torn"}
BY DEF WriteOutcomes, Written

LEMMA LifeCycleStep ==
    ASSUME TypeOK, OnceInv, [Next]_vars, NEW j \in Jobs, file'[j] # file[j]
    PROVE  FileStep(file[j], file'[j])
<1>1. ASSUME NEW r \in Requests, RequestNext(r) PROVE FileStep(file[j], file'[j])
  <2>1. Enqueue(r)
    BY <1>1 DEF RequestNext, Arrive, RequestAcquires, RequestTimesOut,
         RequestCancelled, RequestReleases, StreamAbandoned
  <2>2. PICK k \in WithStatus("absent"), out \in WriteOutcomes :
          file' = [file EXCEPT ![k] = Written("absent", "pending", out)]
    BY <2>1 DEF Enqueue
  <2>3. j = k /\ file[j] = "absent" /\ file'[j] = Written("absent", "pending", out)
    BY <2>2 DEF TypeOK, WithStatus
  <2> QED
    BY <2>3, WriteResult DEF FileStep
<1>2. CASE LoopNext
  <2>1. CASE ClaimNext
    <3>0. PICK k \in WithStatus("pending") :
            \E out \in [{i \in WithStatus("pending") : i < k} -> WriteOutcomes \ {"ok"}] :
              file' = [i \in Jobs |->
                         IF i = k THEN "running"
                         ELSE IF i \in DOMAIN out
                              THEN Written("pending", "running", out[i])
                              ELSE file[i]]
      BY <2>1 DEF ClaimNext
    <3>1. PICK out \in [{i \in WithStatus("pending") : i < k} -> WriteOutcomes \ {"ok"}] :
            file' = [i \in Jobs |->
                       IF i = k THEN "running"
                       ELSE IF i \in DOMAIN out
                            THEN Written("pending", "running", out[i])
                            ELSE file[i]]
      BY <3>0
    <3>2. file[j] = "pending"
      BY <3>1 DEF WithStatus
    <3>3. file'[j] = "running" \/ (WriteErrors /\ file'[j] \in {"pending", "torn"})
      <4>1. CASE j = k
        BY <3>1, <4>1
      <4>2. CASE j # k
        <5>1. j \in DOMAIN out /\ file'[j] = Written("pending", "running", out[j])
          BY <3>1, <4>2
        <5>2. out[j] \in WriteOutcomes
          BY <5>1
        <5> QED
          BY <5>1, <5>2, WriteResult
      <4> QED
        BY <4>1, <4>2
    <3> QED
      BY <3>2, <3>3 DEF FileStep
  <2>2. CASE ClaimNone
    <3>1. PICK out \in [WithStatus("pending") -> WriteOutcomes \ {"ok"}] :
            file' = [i \in Jobs |->
                       IF i \in DOMAIN out
                       THEN Written("pending", "running", out[i])
                       ELSE file[i]]
      BY <2>2 DEF ClaimNone
    <3>2. /\ j \in WithStatus("pending")
          /\ file'[j] = Written("pending", "running", out[j])
          /\ out[j] \in WriteOutcomes
      BY <3>1
    <3>3. file[j] = "pending"
      BY <3>2 DEF WithStatus
    <3> QED
      BY <3>2, <3>3, WriteResult DEF FileStep
  <2>3. CASE ~ClaimNext /\ ~ClaimNone
    BY <1>2, <2>3 DEF LoopNext, LoopTick, LoopAcquires, LoopGivesUp, LoopEnds
  <2> QED
    BY <2>1, <2>2, <2>3
<1>3. ASSUME NEW k \in Jobs, JobNext(k) PROVE FileStep(file[j], file'[j])
  <2>1. Complete(k)
    BY <1>3 DEF JobNext, Execute, NestedAcquires, NestedGivesUp,
         NestedReleases, JobReleases
  <2>2. PICK out \in WriteOutcomes, status \in {"completed", "failed"} :
          file' = [file EXCEPT ![k] = Written(@, status, out)]
    BY <2>1 DEF Complete
  <2>3. j = k /\ file'[j] = Written(file[j], status, out)
    BY <2>2 DEF TypeOK
  <2>4. file[j] = "running"
    BY <2>1, <2>3 DEF Complete, OnceInv, ResultHasItsFile, Unfinished
  <2> QED
    BY <2>3, <2>4, WriteResult DEF FileStep
<1>4. CASE Stop
  <2>1. up' = "down"
    BY <1>4 DEF Stop
  <2>2. CASE \E k \in Jobs : BeingWritten(k) /\ file' = [file EXCEPT ![k] = "torn"]
    <3>1. BeingWritten(j) /\ file'[j] = "torn"
      BY <2>2 DEF TypeOK
    <3>2. file[j] \in {"absent", "pending", "running"}
      BY <3>1 DEF BeingWritten, OnceInv, ResultHasItsFile, Unfinished
    <3> QED
      BY <2>1, <3>1, <3>2 DEF FileStep
  <2>3. CASE \E k \in WithStatus("absent") : file' = [file EXCEPT ![k] = "pending"]
    BY <2>3 DEF WithStatus, FileStep, TypeOK
  <2> QED
    BY <1>4, <2>2, <2>3 DEF Stop
<1>5. CASE Shutdown \/ Start \/ UNCHANGED vars
  BY <1>5 DEF Shutdown, Start, vars
<1> QED
  BY <1>1, <1>2, <1>3, <1>4, <1>5 DEF Next

\* A job file goes from pending over running to one final status that never
\* changes, and is cut off only by a failing write or by a stop.
THEOREM JobFilesFollowLifeCycle == Spec => LifeCycle
<1>1. TypeOK /\ OnceInv /\ [Next]_vars
        => [\A j \in Jobs : file'[j] # file[j] => FileStep(file[j], file'[j])]_vars
  BY LifeCycleStep
<1> QED
  BY <1>1, TypeCorrect, OnceInvariant, PTL DEF Spec, LifeCycle

-----------------------------------------------------------------------------
(* What a job file says of the worker and of the request.                  *)

\* What ClaimNext and ClaimNone do to a file and to the goroutine of its job,
\* as long as no write fails.
LEMMA ClaimKeeps ==
    ASSUME TypeOK, ~WriteErrors, NEW k \in Jobs, ClaimNext \/ ClaimNone
    PROVE  \/ UNCHANGED <<file[k], work[k], execs[k]>>
           \/ file[k] = "pending" /\ file'[k] = "running" /\ work'[k] = "starting"
<1>1. WriteOutcomes \ {"ok"} = {}
  BY DEF WriteOutcomes
<1>2. CASE ClaimNext
  <2>1. PICK j \in WithStatus("pending") :
          \E out \in [{i \in WithStatus("pending") : i < j} -> WriteOutcomes \ {"ok"}] :
            /\ file' = [i \in Jobs |->
                          IF i = j THEN "running"
                          ELSE IF i \in DOMAIN out
                               THEN Written("pending", "running", out[i])
                               ELSE file[i]]
            /\ work' = [work EXCEPT ![j] = "starting"]
            /\ execs' = [execs EXCEPT ![j] = @ + 1]
    BY <1>2 DEF ClaimNext
  <2>2. PICK out \in [{i \in WithStatus("pending") : i < j} -> {}] :
            file' = [i \in Jobs |->
                          IF i = j THEN "running"
                          ELSE IF i \in DOMAIN out
                               THEN Written("pending", "running", out[i])
                               ELSE file[i]]
    BY <1>1, <2>1
  <2>3. \A i \in DOMAIN out : FALSE
    BY <2>2
  <2>4. j \in Jobs /\ file[j] = "pending"
    BY DEF WithStatus
  <2>5. CASE k = j
    BY <2>1, <2>2, <2>4, <2>5 DEF TypeOK
  <2>6. CASE k # j
    BY <2>1, <2>2, <2>3, <2>6 DEF TypeOK
  <2> QED
    BY <2>5, <2>6
<1>3. CASE ClaimNone
  <2>1. UNCHANGED <<work, execs>>
    BY <1>3 DEF ClaimNone
  <2>2. file'[k] = file[k]
    <3>1. CASE UNCHANGED file
      BY <3>1
    <3>2. CASE \E out \in [WithStatus("pending") -> WriteOutcomes \ {"ok"}] :
                 file' = [i \in Jobs |->
                            IF i \in DOMAIN out
                            THEN Written("pending", "running", out[i])
                            ELSE file[i]]
      <4>1. PICK out \in [WithStatus("pending") -> {}] :
                 file' = [i \in Jobs |->
                            IF i \in DOMAIN out
                            THEN Written("pending", "running", out[i])
                            ELSE file[i]]
        BY <1>1, <3>2
      <4>2. \A i \in DOMAIN out : FALSE
        BY <4>1
      <4> QED
        BY <4>1, <4>2
    <3> QED
      BY <1>3, <3>1, <3>2 DEF ClaimNone
  <2> QED
    BY <2>1, <2>2
<1> QED
  BY <1>2, <1>3

\* A job gets its goroutine with the status "running" and loses it with that
\* status, until the first stop.
LEMMA WorkerInductive ==
    ASSUME TypeOK, OnceInv, RunningHasWorker, [Next]_vars
    PROVE  RunningHasWorker'
<1> SUFFICES ASSUME starts' = 1, up' # "down", ~WriteErrors, NEW j \in Jobs,
                    file'[j] = "running"
             PROVE  work'[j] \in Unfinished
  BY DEF RunningHasWorker
<1> USE DEF Unfinished
<1>0. file[j] = "running" /\ starts = 1 /\ up # "down" => work[j] \in Unfinished
  BY DEF RunningHasWorker
<1>1. ASSUME NEW r \in Requests, RequestNext(r) PROVE work'[j] \in Unfinished
  <2>1. UNCHANGED <<starts, up, work>>
    BY <1>1 DEF RequestNext, Arrive, RequestAcquires, RequestTimesOut,
         RequestCancelled, RequestReleases, StreamAbandoned, Enqueue
  <2>2. file[j] = "running"
    <3>1. CASE Enqueue(r)
      BY <3>1 DEF Enqueue, WithStatus, Written, TypeOK, WriteOutcomes
    <3>2. CASE ~Enqueue(r)
      BY <1>1, <3>2 DEF RequestNext, Arrive, RequestAcquires, RequestTimesOut,
           RequestCancelled, RequestReleases, StreamAbandoned
    <3> QED
      BY <3>1, <3>2
  <2> QED
    BY <1>0, <2>1, <2>2
<1>2. CASE LoopNext
  <2>1. CASE ClaimNext \/ ClaimNone
    <3>1. UNCHANGED <<starts, up>>
      BY <2>1 DEF ClaimNext, ClaimNone
    <3> QED
      BY <1>0, <2>1, <3>1, ClaimKeeps
  <2>2. CASE LoopTick \/ LoopAcquires \/ LoopGivesUp \/ LoopEnds
    BY <1>0, <2>2 DEF LoopTick, LoopAcquires, LoopGivesUp, LoopEnds
  <2> QED
    BY <1>2, <2>1, <2>2 DEF LoopNext
<1>3. ASSUME NEW k \in Jobs, JobNext(k) PROVE work'[j] \in Unfinished
  <2>1. UNCHANGED <<starts, up>>
    BY <1>3 DEF JobNext, Execute, NestedAcquires, NestedGivesUp, NestedReleases,
         Complete, JobReleases
  <2>2. CASE Complete(k)
    <3>1. file[k] = "running"
      BY <2>2 DEF Complete, OnceInv, ResultHasItsFile
    <3>2. file'[k] \in {"completed", "failed"}
      BY <2>2, <3>1 DEF Complete, Readable, Written, WriteOutcomes, TypeOK
    <3>3. j # k
      BY <3>2
    <3>4. file'[j] = file[j] /\ work'[j] = work[j]
      BY <2>2, <3>3 DEF Complete, Goto, TypeOK
    <3> QED
      BY <1>0, <2>1, <3>4
  <2>3. CASE JobReleases(k)
    <3>1. k # j
      BY <1>0, <2>1, <2>3 DEF JobReleases
    <3> QED
      BY <1>0, <2>1, <2>3, <3>1 DEF JobReleases, Goto, TypeOK
  <2>4. CASE Execute(k) \/ NestedAcquires(k) \/ NestedGivesUp(k) \/ NestedReleases(k)
    BY <1>0, <2>1, <2>4 DEF Execute, NestedAcquires, NestedGivesUp, NestedReleases,
         Goto, TypeOK
  <2> QED
    BY <1>3, <2>2, <2>3, <2>4 DEF JobNext
<1>4. CASE Shutdown \/ UNCHANGED vars
  BY <1>0, <1>4 DEF Shutdown, vars
<1>5. CASE Stop
  BY <1>5 DEF Stop
<1>6. CASE Start
  BY <1>6 DEF Start, TypeOK
<1> QED
  BY <1>1, <1>2, <1>3, <1>4, <1>5, <1>6 DEF Next

\* Until the first stop, and while writes succeed, whatever the job list shows
\* as running is being worked on (ClaimNext, processOne, Complete).
THEOREM RunningJobsHaveWorkers == Spec => []RunningHasWorker
<1>1. Init => RunningHasWorker
  BY DEF Init, RunningHasWorker
<1> QED
  BY <1>1, TypeCorrect, OnceInvariant, WorkerInductive, PTL DEF Spec

\* The request of a stored job was told so, or lost its process.
Accepted(j) == origin[j] \in Requests /\ req[origin[j]] \in {"accepted", "lost"}

\* A file that can be read was written for a request that is out of the way.
\* (A stop may leave one behind that nobody can read, without a request.)
AcceptedInv ==
    ~WriteErrors =>
      \A j \in Jobs : execs[j] > 0 \/ file[j] \notin {"absent", "torn"} => Accepted(j)

LEMMA AcceptedInductive ==
    ASSUME TypeOK, OnceInv, AcceptedInv, [Next]_vars
    PROVE  AcceptedInv'
<1> SUFFICES ASSUME ~WriteErrors, NEW j \in Jobs,
                    execs'[j] > 0 \/ file'[j] \notin {"absent", "torn"}
             PROVE  Accepted(j)'
  BY DEF AcceptedInv
<1>0. execs[j] > 0 \/ file[j] \notin {"absent", "torn"} => Accepted(j)
  BY DEF AcceptedInv
<1>1. ASSUME NEW r \in Requests, RequestNext(r) PROVE Accepted(j)'
  <2>1. CASE Enqueue(r)
    <3>1. UNCHANGED execs /\ req[r] = "deferring"
      BY <2>1 DEF Enqueue
    <3>2. \/ UNCHANGED <<file, origin>> /\ req' = [req EXCEPT ![r] = "refused"]
          \/ \E k \in Jobs : /\ file[k] = "absent"
                             /\ file' = [file EXCEPT ![k] = "pending"]
                             /\ origin' = [origin EXCEPT ![k] = r]
                             /\ req' = [req EXCEPT ![r] = "accepted"]
      BY <2>1 DEF Enqueue, WithStatus, WriteOutcomes, Written
    <3>3. CASE UNCHANGED <<file, origin>> /\ req' = [req EXCEPT ![r] = "refused"]
      BY <1>0, <3>1, <3>3 DEF Accepted, TypeOK
    <3>4. ASSUME NEW k \in Jobs, file[k] = "absent",
                 file' = [file EXCEPT ![k] = "pending"],
                 origin' = [origin EXCEPT ![k] = r],
                 req' = [req EXCEPT ![r] = "accepted"]
          PROVE  Accepted(j)'
      BY <1>0, <3>1, <3>4 DEF Accepted, TypeOK
    <3> QED
      BY <3>2, <3>3, <3>4
  <2>2. CASE ~Enqueue(r)
    <3>1. UNCHANGED <<file, execs, origin>> /\ Accepted(j)
      BY <1>0, <1>1, <2>2 DEF RequestNext, Arrive, RequestAcquires, RequestTimesOut,
           RequestCancelled, RequestReleases, StreamAbandoned
    <3>2. \E s : req' = [req EXCEPT ![r] = s] /\ req[r] \notin {"accepted", "lost"}
      BY <1>1, <2>2 DEF RequestNext, Arrive, RequestAcquires, RequestTimesOut,
           RequestCancelled, RequestReleases, StreamAbandoned
    <3> QED
      BY <3>1, <3>2 DEF Accepted, TypeOK
  <2> QED
    BY <2>1, <2>2
<1>2. CASE LoopNext
  <2>1. UNCHANGED <<req, origin>>
    BY <1>2 DEF LoopNext, LoopTick, LoopAcquires, LoopGivesUp, LoopEnds, ClaimNext, ClaimNone
  <2>2. Accepted(j)
    <3>1. CASE ClaimNext \/ ClaimNone
      BY <1>0, <3>1, ClaimKeeps
    <3>2. CASE LoopTick \/ LoopAcquires \/ LoopGivesUp \/ LoopEnds
      BY <1>0, <3>2 DEF LoopTick, LoopAcquires, LoopGivesUp, LoopEnds
    <3> QED
      BY <1>2, <3>1, <3>2 DEF LoopNext
  <2> QED
    BY <2>1, <2>2 DEF Accepted
<1>3. ASSUME NEW k \in Jobs, JobNext(k) PROVE Accepted(j)'
  <2>1. UNCHANGED <<req, origin, execs>>
    BY <1>3 DEF JobNext, Execute, NestedAcquires, NestedGivesUp, NestedReleases,
         Complete, JobReleases
  <2>2. CASE Complete(k)
    <3>1. file[k] = "running"
      BY <2>2 DEF Complete, OnceInv, ResultHasItsFile, Unfinished
    <3>2. file'[j] = file[j] \/ (j = k /\ file[j] = "running")
      BY <2>2, <3>1 DEF Complete, Readable, TypeOK
    <3> QED
      BY <1>0, <2>1, <3>2 DEF Accepted
  <2>3. CASE ~Complete(k)
    BY <1>0, <1>3, <2>1, <2>3 DEF Accepted, JobNext, Execute, NestedAcquires, NestedGivesUp,
         NestedReleases, JobReleases
  <2> QED
    BY <2>2, <2>3
<1>4. CASE Shutdown \/ Start \/ UNCHANGED vars
  BY <1>0, <1>4 DEF Shutdown, Start, vars, Accepted
<1>5. CASE Stop
  <2>1. UNCHANGED execs
        /\ req' = [r \in Requests |-> IF req[r] \in InFlight THEN "lost" ELSE req[r]]
    BY <1>5 DEF Stop
  <2>2. \/ UNCHANGED <<file, origin>>
        \/ \E k \in Jobs : file' = [file EXCEPT ![k] = "torn"] /\ UNCHANGED origin
        \/ \E k \in Jobs, r \in Requests :
             /\ file[k] = "absent" /\ req[r] = "deferring"
             /\ file' = [file EXCEPT ![k] = "pending"]
             /\ origin' = [origin EXCEPT ![k] = r]
    BY <1>5 DEF Stop, WithStatus
  <2>3. Accepted(j) => \A o : o = origin[j] => o \in Requests /\ req'[o] \in {"accepted", "lost"}
    BY <2>1 DEF Accepted
  <2>4. CASE UNCHANGED <<file, origin>>
    BY <1>0, <2>1, <2>3, <2>4 DEF Accepted
  <2>5. ASSUME NEW k \in Jobs, file' = [file EXCEPT ![k] = "torn"], UNCHANGED origin
        PROVE  Accepted(j)'
    BY <1>0, <2>1, <2>3, <2>5 DEF Accepted, TypeOK
  <2>6. ASSUME NEW k \in Jobs, NEW r \in Requests, file[k] = "absent", req[r] = "deferring",
               file' = [file EXCEPT ![k] = "pending"],
               origin' = [origin EXCEPT ![k] = r]
        PROVE  Accepted(j)'
    <3>1. req'[r] = "lost"
      BY <2>1, <2>6 DEF InFlight
    <3> QED
      BY <1>0, <2>1, <2>3, <2>6, <3>1 DEF Accepted, TypeOK
  <2> QED
    BY <2>2, <2>4, <2>5, <2>6
<1> QED
  BY <1>1, <1>2, <1>3, <1>4, <1>5 DEF Next

\* No request gets an answer of its handler and is executed as a job as well,
\* through stops and restarts, while writes succeed (tryEnqueueOnOverload).
THEOREM RequestsAnsweredOnce == Spec => []NotAnsweredTwice
<1>1. Init => AcceptedInv
  BY DEF Init, AcceptedInv
<1>2. AcceptedInv => NotAnsweredTwice
  BY DEF AcceptedInv, Accepted, NotAnsweredTwice
<1> QED
  BY <1>1, <1>2, TypeCorrect, OnceInvariant, AcceptedInductive, PTL DEF Spec

=============================================================================
