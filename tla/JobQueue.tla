------------------------------ MODULE JobQueue ------------------------------
(***************************************************************************)
(* Overload handling: requests compete for the slots of RequestQueue; a    *)
(* request that waits too long is turned into a job file                   *)
(* (internal/delivery/queue.go, internal/service/job_store.go) and the     *)
(* JobRunner executes it later, holding one slot for the job and acquiring *)
(* a second one for the generation inside it.  The process may stop at any *)
(* moment and be started again on the same directory.                      *)
(*                                                                         *)
(* Every JobStore operation runs under JobStore.mu, so it is one action;   *)
(* what a stop in the middle of its os.WriteFile leaves behind is part of  *)
(* Stop.                                                                   *)
(***************************************************************************)
EXTENDS RequestQueue, FiniteSets

CONSTANTS Requests,       \* HTTP requests that need a generation
          Streams,        \* those with stream = true
          AgentSteps,     \* those for /v1/agent/step
          Jobs,           \* job ids; numbers, ordered like the file names
          PersistentMax,  \* reliability.persistent_queue_max
          WriteErrors,    \* may os.WriteFile fail?
          DirErrors,      \* may os.ReadDir fail?
          MaxStarts,      \* bound: how often the process is started
          None

ASSUME JobAssumption ==
    /\ IsFiniteSet(Requests)
    /\ Streams \subseteq Requests
    /\ AgentSteps \subseteq Requests \ Streams
    /\ Jobs \subseteq Nat
    /\ IsFiniteSet(Jobs)
    /\ PersistentMax \in Int
    /\ WriteErrors \in BOOLEAN
    /\ DirErrors \in BOOLEAN
    /\ MaxStarts \in Nat \ {0}
    /\ None \notin Requests

VARIABLES
    up,         \* "serving", "draining" (jobCancel was called) or "down"
    starts,     \* process starts so far
    req,        \* where each request is
    loop,       \* where JobRunner.RunLoop is
    work,       \* where the goroutine of each claimed job is
    file,       \* <id>.json of each job: its status, "torn" or "absent"
    origin,     \* the request whose body the file holds
    execs,      \* history: how often the job was handed to execute
    completed   \* JobStore.completed

vars == <<sem, up, starts, req, loop, work, file, origin, execs, completed>>

ReqStates  == {"new", "waiting", "generating", "stuck", "deferring",
               "answered", "accepted", "refused", "gone", "lost"}
WorkStates == {"none", "starting", "nested", "generating", "succeeded",
               "failed", "releasing"}
FileStates == {"absent", "torn", "pending", "running", "completed", "failed"}
InFlight   == {"waiting", "generating", "stuck", "deferring"}
Unfinished == {"starting", "nested", "generating", "succeeded", "failed"}

\* NewJobStore: a missing or non-positive limit means 256.
MaxJobs == IF PersistentMax <= 0 THEN 256 ELSE PersistentMax

Init ==
    /\ QueueInit
    /\ up = "serving"
    /\ starts = 1
    /\ req = [r \in Requests |-> "new"]
    /\ loop = "idle"
    /\ work = [j \in Jobs |-> "none"]
    /\ file = [j \in Jobs |-> "absent"]
    /\ origin = [j \in Jobs |-> None]
    /\ execs = [j \in Jobs |-> 0]
    /\ completed = 0

-----------------------------------------------------------------------------
(* Job files.                                                              *)

\* os.WriteFile truncates, writes, closes: it may fail before it touches the
\* file, after it emptied it, or (close) after the bytes are there.
WriteOutcomes == IF WriteErrors THEN {"ok", "kept", "torn", "late"} ELSE {"ok"}

\* What is in a file that held old after writeLocked(new).
Written(old, new, out) ==
    IF out = "kept" THEN old ELSE IF out = "torn" THEN "torn" ELSE new

\* readLocked: a cut-off file does not parse as JSON.
Readable(j) == file[j] \notin {"absent", "torn"}

WithStatus(s) == {j \in Jobs : file[j] = s}

\* countLocked(pending) + countLocked(running): each count is 0 when its own
\* ReadDir fails.
Counts ==
    LET p == Cardinality(WithStatus("pending"))
        q == Cardinality(WithStatus("running"))
    IN  IF DirErrors THEN {p + q, p, q, 0} ELSE {p + q}

-----------------------------------------------------------------------------
(* Requests.                                                               *)

\* The handler reaches SendMessageWithMeta and blocks in Acquire.
Arrive(r) ==
    /\ up # "down"
    /\ req[r] = "new"
    /\ req' = [req EXCEPT ![r] = "waiting"]
    /\ UNCHANGED <<sem, up, starts, loop, work, file, origin, execs, completed>>

RequestAcquires(r) ==
    /\ req[r] = "waiting"
    /\ AcquireSlot
    /\ req' = [req EXCEPT ![r] = "generating"]
    /\ UNCHANGED <<up, starts, loop, work, file, origin, execs, completed>>

\* ErrQueueTimeout: only a non-streaming request is offered to the JobStore.
RequestTimesOut(r) ==
    /\ req[r] = "waiting"
    /\ AcquireTimesOut
    /\ req' = [req EXCEPT ![r] = IF r \in Streams THEN "refused" ELSE "deferring"]
    /\ UNCHANGED <<sem, up, starts, loop, work, file, origin, execs, completed>>

\* The client disconnects: Acquire returns context.Canceled.
RequestCancelled(r) ==
    /\ req[r] = "waiting"
    /\ req' = [req EXCEPT ![r] = "gone"]
    /\ UNCHANGED <<sem, up, starts, loop, work, file, origin, execs, completed>>

\* No runner takes the message (error, Release in SendMessageWithMeta) or the
\* generation ends (Release in forwardWithQueueRelease).
RequestReleases(r) ==
    /\ req[r] = "generating"
    /\ ReleaseSlot
    /\ \E s \in {"refused", "answered"} : req' = [req EXCEPT ![r] = s]
    /\ UNCHANGED <<up, starts, loop, work, file, origin, execs, completed>>

\* The SSE handler returns on ctx.Done with more chunks behind it than out
\* can buffer: nobody reads out again and the forwarder keeps its slot.
StreamAbandoned(r) ==
    /\ r \in Streams
    /\ req[r] = "generating"
    /\ req' = [req EXCEPT ![r] = "stuck"]
    /\ UNCHANGED <<sem, up, starts, loop, work, file, origin, execs, completed>>

\* Mutant: the handler goes on to the error answer after it stored the job.
EnqueueAndRefuse(r) ==
    /\ req[r] = "deferring"
    /\ \E n \in Counts :
         /\ n < MaxJobs
         /\ \E j \in WithStatus("absent") :
              /\ file' = [file EXCEPT ![j] = "pending"]
              /\ origin' = [origin EXCEPT ![j] = r]
    /\ req' = [req EXCEPT ![r] = "refused"]
    /\ UNCHANGED <<sem, up, starts, loop, work, execs, completed>>

\* tryEnqueueOnOverload: 202 with the job id, or 503 when the store is full
\* or the write fails.
Enqueue(r) ==
    /\ req[r] = "deferring"
    /\ \E n \in Counts :
         \/ /\ n >= MaxJobs
            /\ req' = [req EXCEPT ![r] = "refused"]
            /\ UNCHANGED <<file, origin>>
         \/ /\ n < MaxJobs
            /\ \E j \in WithStatus("absent"), out \in WriteOutcomes :
                 /\ file' = [file EXCEPT ![j] = Written("absent", "pending", out)]
                 /\ origin' = [origin EXCEPT ![j] = r]
                 /\ req' = [req EXCEPT ![r] =
                              IF out = "ok" THEN "accepted" ELSE "refused"]
    /\ UNCHANGED <<sem, up, starts, loop, work, execs, completed>>

-----------------------------------------------------------------------------
(* JobRunner.RunLoop and processOne.                                       *)

\* A tick starts processOne.  After jobCancel the select of RunLoop may still
\* prefer a tick that is ready.
LoopTick ==
    /\ up # "down"
    /\ loop = "idle"
    /\ loop' = "waiting"
    /\ UNCHANGED <<sem, up, starts, req, work, file, origin, execs, completed>>

LoopAcquires ==
    /\ loop = "waiting"
    /\ AcquireSlot
    /\ loop' = "holding"
    /\ UNCHANGED <<up, starts, req, work, file, origin, execs, completed>>

\* Acquire fails, by timeout or by jobCancel: processOne returns.
LoopGivesUp ==
    /\ loop = "waiting"
    /\ AcquireTimesOut \/ up = "draining"
    /\ loop' = "idle"
    /\ UNCHANGED <<sem, up, starts, req, work, file, origin, execs, completed>>

\* RunLoop sees ctx.Done.
LoopEnds ==
    /\ loop = "idle"
    /\ up = "draining"
    /\ loop' = "off"
    /\ UNCHANGED <<sem, up, starts, req, work, file, origin, execs, completed>>

\* Mutant: the error of marking the job running is ignored.
ClaimNextIgnoresWriteError ==
    /\ loop = "holding"
    /\ \E j \in WithStatus("pending"), out \in WriteOutcomes :
         /\ file' = [file EXCEPT ![j] = Written("pending", "running", out)]
         /\ work' = [work EXCEPT ![j] = "starting"]
         /\ execs' = [execs EXCEPT ![j] = @ + 1]
    /\ loop' = "idle"
    /\ UNCHANGED <<sem, up, starts, req, origin, completed>>

\* Mutant: the slot is given back before the job is executed.
ClaimNextReleases ==
    /\ loop = "holding"
    /\ \E j \in WithStatus("pending") :
         /\ file' = [file EXCEPT ![j] = "running"]
         /\ work' = [work EXCEPT ![j] = "starting"]
         /\ execs' = [execs EXCEPT ![j] = @ + 1]
    /\ ReleaseSlot
    /\ loop' = "idle"
    /\ UNCHANGED <<up, starts, req, origin, completed>>

\* ClaimNext finds a job: it goes through the pending files in name order,
\* skips those whose write fails and returns the first one it could mark
\* running; processOne hands it, with the slot, to a new goroutine.
ClaimNext ==
    /\ loop = "holding"
    /\ \E j \in WithStatus("pending") :
       \E out \in [{k \in WithStatus("pending") : k < j} -> WriteOutcomes \ {"ok"}] :
         /\ file' = [k \in Jobs |->
                       IF k = j THEN "running"
                       ELSE IF k \in DOMAIN out
                            THEN Written("pending", "running", out[k])
                            ELSE file[k]]
         /\ work' = [work EXCEPT ![j] = "starting"]
         /\ execs' = [execs EXCEPT ![j] = @ + 1]
    /\ loop' = "idle"
    /\ UNCHANGED <<sem, up, starts, req, origin, completed>>

\* Mutant: the early return when there is no job forgets the slot.
ClaimNoneKeepsSlot ==
    /\ loop = "holding"
    /\ WithStatus("pending") = {}
    /\ loop' = "idle"
    /\ UNCHANGED <<sem, up, starts, req, work, file, origin, execs, completed>>

\* ClaimNext finds none: the directory cannot be read, nothing is pending, or
\* every write fails; processOne releases the slot.
ClaimNone ==
    /\ loop = "holding"
    /\ \/ DirErrors /\ UNCHANGED file
       \/ \E out \in [WithStatus("pending") -> WriteOutcomes \ {"ok"}] :
            file' = [k \in Jobs |->
                       IF k \in DOMAIN out
                       THEN Written("pending", "running", out[k])
                       ELSE file[k]]
    /\ ReleaseSlot
    /\ loop' = "idle"
    /\ UNCHANGED <<up, starts, req, work, origin, execs, completed>>

-----------------------------------------------------------------------------
(* The goroutine of a claimed job.                                         *)

Goto(j, s) == work' = [work EXCEPT ![j] = s]

\* execute: the body does not parse or a service is missing (failed); an agent
\* step over the step limit answers without a generation (succeeded); any
\* other job goes on to CollectMessage, which acquires a slot of its own.
Execute(j) ==
    /\ work[j] = "starting"
    /\ \/ Goto(j, "failed")
       \/ origin[j] \in AgentSteps /\ Goto(j, "succeeded")
       \/ Goto(j, "nested")
    /\ UNCHANGED <<sem, up, starts, req, loop, file, origin, execs, completed>>

NestedAcquires(j) ==
    /\ work[j] = "nested"
    /\ AcquireSlot
    /\ Goto(j, "generating")
    /\ UNCHANGED <<up, starts, req, loop, file, origin, execs, completed>>

\* Mutant: the generation of a job waits for its slot without a time limit.
NestedGivesUpOnlyAtShutdown(j) ==
    /\ work[j] = "nested"
    /\ up = "draining"
    /\ Goto(j, "failed")
    /\ UNCHANGED <<sem, up, starts, req, loop, file, origin, execs, completed>>

NestedGivesUp(j) ==
    /\ work[j] = "nested"
    /\ AcquireTimesOut \/ up = "draining"
    /\ Goto(j, "failed")
    /\ UNCHANGED <<sem, up, starts, req, loop, file, origin, execs, completed>>

\* The runner fails, or the stream ends and CollectMessage has drained it; the
\* forwarder releases the inner slot before it closes the channel.
NestedReleases(j) ==
    /\ work[j] = "generating"
    /\ ReleaseSlot
    /\ \E s \in {"succeeded", "failed"} : Goto(j, s)
    /\ UNCHANGED <<up, starts, req, loop, file, origin, execs, completed>>

\* Mutant: a failed job is not stored.
CompleteOnlySuccess(j) ==
    /\ work[j] \in {"succeeded", "failed"}
    /\ IF work[j] = "succeeded"
       THEN /\ file' = [file EXCEPT ![j] = "completed"]
            /\ completed' = completed + 1
       ELSE UNCHANGED <<file, completed>>
    /\ Goto(j, "releasing")
    /\ UNCHANGED <<sem, up, starts, req, loop, origin, execs>>

\* Complete; its error is ignored by the caller.  The counter moves before the
\* write.
Complete(j) ==
    /\ work[j] \in {"succeeded", "failed"}
    /\ IF Readable(j)
       THEN LET status == IF work[j] = "succeeded" THEN "completed" ELSE "failed"
            IN  /\ \E out \in WriteOutcomes :
                     file' = [file EXCEPT ![j] = Written(@, status, out)]
                /\ completed' = IF status = "completed" THEN completed + 1 ELSE completed
       ELSE UNCHANGED <<file, completed>>
    /\ Goto(j, "releasing")
    /\ UNCHANGED <<sem, up, starts, req, loop, origin, execs>>

\* The deferred Release of the goroutine.
JobReleases(j) ==
    /\ work[j] = "releasing"
    /\ ReleaseSlot
    /\ Goto(j, "none")
    /\ UNCHANGED <<up, starts, req, loop, file, origin, execs, completed>>

-----------------------------------------------------------------------------
(* The process.                                                            *)

\* App.shutdown starts with jobCancel; requests are still served.
Shutdown ==
    /\ up = "serving"
    /\ starts < MaxStarts
    /\ up' = "draining"
    /\ UNCHANGED <<sem, starts, req, loop, work, file, origin, execs, completed>>

\* A write of the file of job j may be in progress.
BeingWritten(j) ==
    \/ /\ file[j] = "absent"
       /\ \E r \in Requests : req[r] = "deferring"
       /\ \E n \in Counts : n < MaxJobs
    \/ loop = "holding" /\ file[j] = "pending"
    \/ work[j] \in {"succeeded", "failed"}

\* The process ends, at the end of shutdown (which waits neither for the job
\* goroutines nor, after 30 s, for the streams) or by a crash.  The write in
\* progress is cut off, or has just ended but its 202 was not sent.
Stop ==
    /\ up # "down"
    /\ starts < MaxStarts
    /\ \/ UNCHANGED <<file, origin>>
       \/ \E j \in Jobs :
            /\ BeingWritten(j)
            /\ file' = [file EXCEPT ![j] = "torn"]
            /\ UNCHANGED origin
       \/ \E j \in WithStatus("absent"), r \in Requests, n \in Counts :
            /\ req[r] = "deferring"
            /\ n < MaxJobs
            /\ file' = [file EXCEPT ![j] = "pending"]
            /\ origin' = [origin EXCEPT ![j] = r]
    /\ up' = "down"
    /\ sem' = 0
    /\ req' = [r \in Requests |-> IF req[r] \in InFlight THEN "lost" ELSE req[r]]
    /\ loop' = "off"
    /\ work' = [j \in Jobs |-> "none"]
    /\ completed' = 0
    /\ UNCHANGED <<starts, execs>>

\* Mutant: a start puts interrupted jobs back into the queue.
StartRequeues ==
    /\ up = "down"
    /\ starts < MaxStarts
    /\ up' = "serving"
    /\ starts' = starts + 1
    /\ loop' = "idle"
    /\ file' = [j \in Jobs |-> IF file[j] = "running" THEN "pending" ELSE file[j]]
    /\ UNCHANGED <<sem, req, work, origin, execs, completed>>

\* App.New and Run over the same directory: nothing in it is repaired.
Start ==
    /\ up = "down"
    /\ starts < MaxStarts
    /\ up' = "serving"
    /\ starts' = starts + 1
    /\ loop' = "idle"
    /\ UNCHANGED <<sem, req, work, file, origin, execs, completed>>

-----------------------------------------------------------------------------
RequestNext(r) ==
    \/ Arrive(r)
    \/ RequestAcquires(r)
    \/ RequestTimesOut(r)
    \/ RequestCancelled(r)
    \/ RequestReleases(r)
    \/ StreamAbandoned(r)
    \/ Enqueue(r)

LoopNext ==
    \/ LoopTick
    \/ LoopAcquires
    \/ LoopGivesUp
    \/ LoopEnds
    \/ ClaimNext
    \/ ClaimNone

JobNext(j) ==
    \/ Execute(j)
    \/ NestedAcquires(j)
    \/ NestedGivesUp(j)
    \/ NestedReleases(j)
    \/ Complete(j)
    \/ JobReleases(j)

Next ==
    \/ \E r \in Requests : RequestNext(r)
    \/ LoopNext
    \/ \E j \in Jobs : JobNext(j)
    \/ Shutdown
    \/ Stop
    \/ Start

Spec == Init /\ [][Next]_vars

(***************************************************************************)
(* Fairness.  Goroutines that can run are run; senders blocked on a Go     *)
(* channel are served in order, so an Acquire that again and again finds a *)
(* slot succeeds or times out; the ticker keeps ticking; a generation ends *)
(* (timeout_seconds bounds it).  Clients owe nothing: no fairness for      *)
(* Arrive, RequestCancelled or StreamAbandoned.                            *)
(***************************************************************************)
Fairness ==
    /\ \A r \in Requests :
         /\ SF_vars(RequestAcquires(r))
         /\ WF_vars(RequestTimesOut(r) \/ RequestReleases(r) \/ Enqueue(r))
    /\ SF_vars(LoopAcquires)
    /\ WF_vars(LoopTick \/ LoopGivesUp \/ ClaimNext \/ ClaimNone)
    /\ \A j \in Jobs :
         /\ SF_vars(NestedAcquires(j))
         /\ WF_vars(\/ Execute(j) \/ NestedGivesUp(j) \/ NestedReleases(j)
                    \/ Complete(j) \/ JobReleases(j))

FairSpec == Spec /\ Fairness

-----------------------------------------------------------------------------
(* Properties.                                                             *)

\* Every variable keeps its type; the channel of slots never holds more than its
\* capacity (queue.go:16-25).
TypeOK ==
    /\ sem \in 0..Capacity
    /\ up \in {"serving", "draining", "down"}
    /\ starts \in 1..MaxStarts
    /\ req \in [Requests -> ReqStates]
    /\ loop \in {"idle", "waiting", "holding", "off"}
    /\ work \in [Jobs -> WorkStates]
    /\ file \in [Jobs -> FileStates]
    /\ origin \in [Jobs -> Requests \cup {None}]
    /\ execs \in [Jobs -> Nat]
    /\ completed \in Nat

\* How many entries of f, over S, have a value in Q.
Count(S, f, Q) == Cardinality({x \in S : f[x] \in Q})

RequestHolds == {"generating", "stuck"}
JobHolds     == Unfinished \cup {"releasing"}
NestedHolds  == {"generating"}
LoopHolds    == IF loop = "holding" THEN 1 ELSE 0

\* Every element of q.sem belongs to somebody who will release it once, or to
\* a forwarder stuck on an abandoned stream: no path through the handlers, the
\* loop or a job goroutine releases a slot twice, keeps one it should have
\* given back, or releases one it does not hold (Release would then silently
\* take somebody else's).
SlotConservation ==
    sem = Count(Requests, req, RequestHolds) + Count(Jobs, work, JobHolds)
            + Count(Jobs, work, NestedHolds) + LoopHolds

\* Enqueue's limit: never more than persistent_queue_max pending and running
\* jobs, whatever stops and restarts leave behind.  (A ReadDir error makes
\* countLocked return 0 and lets the limit be passed.)
QueueBound ==
    ~DirErrors =>
      Count(Jobs, file, {"pending", "running"}) <= MaxJobs

\* No job is handed to execute twice, neither by two ticks nor by a restart,
\* although nothing but the status in its file says it was claimed.
AtMostOnce == \A j \in Jobs : execs[j] <= 1

\* A goroutine that has yet to store its result finds its file: the error of
\* Complete that processOne ignores is never "job not found".
ResultHasItsFile ==
    \A j \in Jobs : work[j] \in Unfinished => file[j] = "running"

\* Until the first stop, and while writes succeed, a job shown as running is
\* being worked on.  (Afterwards "running" files without a goroutine remain
\* and count against the limit for ever: nothing repairs them at start.)
RunningHasWorker ==
    starts = 1 /\ up # "down" /\ ~WriteErrors =>
      \A j \in Jobs : file[j] = "running" => work[j] \in Unfinished

\* A request is never both answered by its handler and executed as a job.
NotAnsweredTwice ==
    ~WriteErrors =>
      \A j \in Jobs : execs[j] > 0 => req[origin[j]] \in {"accepted", "lost"}

\* With a single slot no deferred chat can ever complete: the job holds the
\* slot its own generation waits for.
ChatJobNeedsTwoSlots ==
    Capacity = 1 =>
      \A j \in Jobs : file[j] = "completed" => origin[j] \in AgentSteps

\* What writeLocked may do to the status in a file.
FileStep(old, new) ==
    \/ <<old, new>> \in {<<"absent", "pending">>, <<"pending", "running">>,
                         <<"running", "completed">>, <<"running", "failed">>}
    \/ /\ new = "torn"
       /\ old \in {"absent", "pending", "running"}
       /\ WriteErrors \/ up' = "down"

\* A job file goes from pending to running to one final status and no other
\* way (job_store.go:65-204); it is cut off only by a failing write or a stop,
\* and a final status never changes.
LifeCycle ==
    [][\A j \in Jobs : file'[j] # file[j] => FileStep(file[j], file'[j])]_vars

\* Forwarders nobody reads from hold every slot.
AllSlotsLeaked == Count(Requests, req, {"stuck"}) = Capacity

\* A deferred job reaches a final status although jobs hold slots while they
\* wait for slots: the wait of at most queue_wait_seconds breaks the circle.
\* The exceptions are a server whose slots are all held by abandoned streams, and
\* one that is stopped; what was still pending then is claimed after the restart.
JobsSettle ==
    \A j \in Jobs :
      file[j] = "pending" ~> \/ file[j] \in {"completed", "failed"}
                             \/ AllSlotsLeaked
                             \/ up # "serving"

\* Every request that waits for a slot gets an answer: no request waits behind
\* leaked slots or jobs for ever.
RequestsSettle == \A r \in Requests : req[r] = "waiting" ~> req[r] \notin {"waiting", "deferring"}
=============================================================================
