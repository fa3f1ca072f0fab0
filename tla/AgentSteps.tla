----------------------------- MODULE AgentSteps -----------------------------
(***************************************************************************)
(* POST /v1/agent/step: the rate limit in front of it, the handler with    *)
(* its idempotency store (internal/delivery/ratelimit.go, agent.go), the   *)
(* agent service with its sessions and its policy (internal/service/       *)
(* agent.go, agent_session.go, agent_policy.go), and the job that repeats  *)
(* a step that found no free slot.                                         *)
(*                                                                         *)
(* A session is locked for each operation only: between BeginStep, the     *)
(* hint, SetSummary and Reset of a step the steps of other requests run.   *)
(***************************************************************************)
EXTENDS Integers, FiniteSets, FiniteSetsExt

CONSTANTS Calls,        \* requests, each sent once
          Ids,          \* request ids: the steps the client means
          Sessions,
          IdOf,         \* the request id of a call
          Proposals,    \* tool calls a model may propose
          MaxSteps,     \* agent.max_steps
          Burst,        \* requests_per_minute, the size of the bucket
          MaxNow,       \* bound: ticks; one request is refilled per tick
          None

ASSUME AgentStepsAssumption ==
    /\ IdOf \in [Calls -> Ids] /\ None \notin Sessions
    /\ MaxSteps \in Nat \ {0}
    /\ Burst \in Nat \ {0}
    /\ MaxNow \in Nat
    /\ None \notin [tokens : Nat, last : Nat]
    /\ None \notin [count : Nat, summary : {None} \cup [by : Nat], life : Nat]
    /\ None \notin [step : Nat, calls : SUBSET Proposals, finish : BOOLEAN, blocked : SUBSET Proposals]

VARIABLES
    session,    \* the session a request names, None for none
    call,       \* the requests and, from "queued" on, their jobs
    sess,       \* AgentSessionStore: [count, summary, life], or None
    stored,     \* the idempotency store: the answer under "agent:" + id
    bucket,     \* rateClient: [tokens, last], or None
    now,
    lives,      \* history: how many sessions were made under each id
    gens,       \* history: generations of the present session
    admitted,   \* history: requests that passed the rate limit
    runs,       \* history: how often the step of an id was begun
    excused,    \* history: ids deferred, failed, forgotten or sent while still running
    crossed     \* history: calls between whose operations another changed the session

vars == <<session, call, sess, stored, bucket, now, lives, gens, admitted, runs, excused, crossed>>
history == <<lives, gens, admitted, runs, excused, crossed>>

NewCall == [pc |-> "new", job |-> FALSE, step |-> 0, hint |-> 0, life |-> 0, finish |-> FALSE,
            answer |-> None]

\* A request that ended, without the variables of its handler.
Over(pc, answer) == [NewCall EXCEPT !.pc = pc, !.answer = answer]

Init ==
    /\ session \in [Calls -> Sessions \cup {None}]
    /\ call = [c \in Calls |-> NewCall]
    /\ sess = [s \in Sessions |-> None]
    /\ stored = [k \in Ids |-> None]
    /\ bucket = None
    /\ now = 0
    /\ lives = [s \in Sessions |-> 0]
    /\ gens = [s \in Sessions |-> 0]
    /\ admitted = 0
    /\ runs = [k \in Ids |-> 0]
    /\ excused = {}
    /\ crossed = {}

Running == {"begin", "prompt", "generate", "summary", "reset", "store", "queued"}
InSession(s) == {c \in Calls : session[c] = s /\ call[c].pc \in Running}

\* Others whose step is between BeginStep and its last use of the session.
Crossing(c) ==
    IF session[c] = None THEN {}
    ELSE {d \in InSession(session[c]) \ {c} : call[d].pc \notin {"begin", "queued"}}

-----------------------------------------------------------------------------
(* The rate limit and the handler up to the service.                       *)

\* rateLimiter.allow: the bucket after the refill.
Refilled == IF bucket = None THEN Burst ELSE Min({Burst, bucket.tokens + (now - bucket.last)})

\* Mutant: the time of the last request is not kept.
DrawnAgain(n) == [tokens |-> n, last |-> 0]

Drawn(n) == [tokens |-> n, last |-> now]

RateLimited(c) ==
    /\ call[c].pc = "new"
    /\ Refilled < 1
    /\ bucket' = Drawn(Refilled)
    /\ call' = [call EXCEPT ![c].pc = "limited"]
    /\ UNCHANGED <<sess, stored, now, history>>

\* handleAgentStep: a stored answer is replayed; moderation or a runner that is not
\* ready refuse the request.
Arrive(c) ==
    LET k == IdOf[c]
    IN  /\ call[c].pc = "new"
        /\ Refilled >= 1
        /\ bucket' = Drawn(Refilled - 1)
        /\ admitted' = admitted + 1
        /\ IF stored[k] # None
           THEN /\ call' = [call EXCEPT ![c].pc = "answered", ![c].answer = stored[k]]
                /\ UNCHANGED excused
           ELSE \/ /\ call' = [call EXCEPT ![c].pc = "refused"]
                   /\ UNCHANGED excused
                \/ /\ call' = [call EXCEPT ![c].pc = "begin"]
                   /\ excused' = IF \E d \in Calls \ {c} : IdOf[d] = k /\ call[d].pc \in Running
                                 THEN excused \cup {k} ELSE excused
        /\ UNCHANGED <<sess, stored, now, lives, gens, runs, crossed>>

-----------------------------------------------------------------------------
(* What a model proposes.  A proposal has own (its name is one of          *)
(* agentToolNames), alias (an MCP alias), served (its server, or a tool of *)
(* that name, is in the registry), kind ("command" or "path") and the      *)
(* facts its check in AgentPolicy asks for.                                *)

\* A generation: bare or fenced JSON with what it says, or prose.
Outputs ==
    [form : {"bare", "fenced", "prose"}, finish : BOOLEAN, summary : BOOLEAN,
     calls : SUBSET Proposals]

\* Text that is not JSON ends the session; it is not kept as its summary.
parseAgentStepLLMOutput(out) ==
    IF out.form = "prose" THEN [out EXCEPT !.finish = TRUE, !.summary = FALSE, !.calls = {}]
    ELSE out

\* HasTool looks an alias up among the servers, as ServerExistsByAlias does.
IsKnownAgentTool(p) == p.own \/ p.served

validateCommand(p) == ~p.empty /\ ~p.blocked /\ p.allowed

validatePathArg(p) == p.empty \/ (p.under /\ (p.up => p.prefix))

validateCall(p) ==
    \/ p.alias
    \/ p.kind = "command" /\ validateCommand(p)
    \/ p.kind = "path" /\ validatePathArg(p)

filterAgentToolCalls(calls) == {p \in calls : IsKnownAgentTool(p)}
FilterCalls(calls) == {p \in calls : validateCall(p)}

Answer(c, calls, finish) ==
    [step |-> call[c].step, calls |-> FilterCalls(filterAgentToolCalls(calls)), finish |-> finish,
     blocked |-> filterAgentToolCalls(calls) \ FilterCalls(filterAgentToolCalls(calls))]

-----------------------------------------------------------------------------
(* AgentService.Step, called by the handler and by the job.                *)

\* The session after BeginStep; a session that is over the limit stays so.
Counted(s) ==
    IF sess[s] = None THEN [count |-> 1, summary |-> None, life |-> lives[s] + 1]
    ELSE [sess[s] EXCEPT !.count = @ + 1]

BeginStep(c) ==
    LET s == session[c]
        n == Counted(s)
        over == n.count > MaxSteps
    IN  /\ call[c].pc = "begin"
        /\ runs' = [runs EXCEPT ![IdOf[c]] = @ + 1]
        /\ IF s = None
           THEN /\ call' = [call EXCEPT ![c].pc = "generate"]
                /\ UNCHANGED <<sess, lives, gens, crossed>>
           ELSE /\ sess' = [sess EXCEPT ![s] = n]
                /\ lives' = [lives EXCEPT ![s] = n.life]
                /\ gens' = [gens EXCEPT ![s] = (IF sess[s] = None THEN 0 ELSE @)
                                                 + (IF over THEN 0 ELSE 1)]
                /\ crossed' = crossed \cup Crossing(c)
                /\ call' = [call EXCEPT ![c] =
                     [@ EXCEPT !.pc = IF over THEN "store" ELSE "prompt",
                               !.step = n.count, !.life = n.life, !.finish = over,
                               !.answer = IF over THEN [step |-> n.count, calls |-> {},
                                                        finish |-> TRUE, blocked |-> {}]
                                          ELSE None]]
        /\ UNCHANGED <<stored, bucket, now, admitted, excused>>

\* The count the model is told, 0 if the session is gone.
ContextHint(s) == IF sess[s] = None THEN 0 ELSE sess[s].count

\* buildAgentStepUserPrompt reads the session again.
Hint(c) ==
    /\ call[c].pc = "prompt"
    /\ call' = [call EXCEPT ![c].pc = "generate", ![c].hint = ContextHint(session[c])]
    /\ UNCHANGED <<sess, stored, bucket, now, history>>

GenerationEnds(c) ==
    /\ call[c].pc = "generate"
    /\ \E out \in Outputs :
         LET parsed == parseAgentStepLLMOutput(out)
         IN  call' = [call EXCEPT ![c] =
               [@ EXCEPT !.finish = parsed.finish,
                         !.answer = Answer(c, parsed.calls, parsed.finish),
                         !.pc = CASE session[c] # None /\ parsed.summary -> "summary"
                                  [] session[c] # None /\ ~parsed.summary /\ parsed.finish -> "reset"
                                  [] OTHER -> "store"]]
    /\ UNCHANGED <<sess, stored, bucket, now, history>>

\* The runner fails; the step stays counted.
GenerationFails(c) ==
    /\ call[c].pc = "generate"
    /\ call' = [call EXCEPT ![c] = Over("failed", None)]
    /\ excused' = excused \cup {IdOf[c]}
    /\ UNCHANGED <<sess, stored, bucket, now, lives, gens, admitted, runs, crossed>>

\* No slot in time: the request becomes a job (mapRunnerErrorWithQueue), a job fails.
GenerationWaits(c) ==
    /\ call[c].pc = "generate"
    /\ call' = [call EXCEPT ![c] = Over(IF @.job THEN "failed" ELSE "queued", None)]
    /\ excused' = excused \cup {IdOf[c]}
    /\ UNCHANGED <<sess, stored, bucket, now, lives, gens, admitted, runs, crossed>>

\* JobRunner.execute of an agent step: Step from its beginning.
RunJob(c) ==
    /\ call[c].pc = "queued"
    /\ call' = [call EXCEPT ![c] = [NewCall EXCEPT !.pc = "begin", !.job = TRUE]]
    /\ UNCHANGED <<sess, stored, bucket, now, history>>

SetSummary(c) ==
    LET s == session[c]
    IN  /\ call[c].pc = "summary"
        /\ sess' = IF sess[s] = None THEN sess ELSE [sess EXCEPT ![s].summary = [by |-> call[c].life]]
        /\ call' = [call EXCEPT ![c].pc = IF call[c].finish THEN "reset" ELSE "store"]
        /\ UNCHANGED <<stored, bucket, now, history>>

\* Mutant: the counter is cleared, the rest of the session stays.
Cleared(x) == IF x = None THEN None ELSE [x EXCEPT !.count = 0, !.life = @ + 1]

Deleted(x) == None

Reset(c) ==
    LET s == session[c]
    IN  /\ call[c].pc = "reset"
        /\ sess' = [sess EXCEPT ![s] = Deleted(@)]
        /\ crossed' = crossed \cup Crossing(c)
        /\ call' = [call EXCEPT ![c].pc = "store"]
        /\ UNCHANGED <<stored, bucket, now, lives, gens, admitted, runs, excused>>

\* Mutant: answers that end the session are not remembered.
RemembersOpen(c) == IF call[c].answer.finish THEN stored[IdOf[c]] ELSE call[c].answer

Remembers(c) == call[c].answer

\* The handler stores the answer before it sends it; a job has its own file.
Respond(c) ==
    /\ call[c].pc = "store"
    /\ stored' = IF call[c].job THEN stored ELSE [stored EXCEPT ![IdOf[c]] = Remembers(c)]
    /\ call' = [call EXCEPT ![c] = Over("answered", @.answer)]
    /\ UNCHANGED <<sess, bucket, now, history>>

-----------------------------------------------------------------------------

\* Store.Get after the TTL.
Forget(k) ==
    /\ stored[k] # None
    /\ stored' = [stored EXCEPT ![k] = None]
    /\ excused' = excused \cup {k}
    /\ UNCHANGED <<call, sess, bucket, now, lives, gens, admitted, runs, crossed>>

Tick ==
    /\ now < MaxNow
    /\ now' = now + 1
    /\ UNCHANGED <<call, sess, stored, bucket, history>>

Ended == {"answered", "failed", "refused", "limited"}

Rest ==
    /\ \A c \in Calls : call[c].pc \in Ended
    /\ UNCHANGED <<call, sess, stored, bucket, now, history>>

AgentNext ==
    /\ \/ \E c \in Calls : \/ RateLimited(c) \/ Arrive(c) \/ BeginStep(c) \/ Hint(c)
                           \/ GenerationEnds(c) \/ GenerationFails(c) \/ GenerationWaits(c)
                           \/ RunJob(c) \/ SetSummary(c) \/ Reset(c) \/ Respond(c)
       \/ \E k \in Ids : Forget(k)
       \/ Tick
       \/ Rest
    /\ UNCHANGED session

AgentSpec == Init /\ [][AgentNext]_vars

-----------------------------------------------------------------------------

\* A step is executed again only for a reason: it failed, it was turned into a job,
\* its answer was forgotten, or the client sent it again while it was running.
\* Whoever repeats it after the answer gets that answer.
StepsOnce ==
    \A k \in Ids \ excused :
      /\ runs[k] <= 1
      /\ \A c, d \in {x \in Calls : IdOf[x] = k /\ call[x].pc = "answered"} :
            call[c].answer = call[d].answer

\* What a session knows is its own: the model is told the step that is counted, and
\* the summary is of this session and not of an earlier one of the same name,
\* unless the steps of two requests were under way at once.  No session has more
\* generations than MaxSteps.
SessionsApart ==
    /\ \A c \in Calls \ crossed :
         call[c].pc \in {"generate", "summary", "reset"} /\ session[c] # None
           => call[c].hint = call[c].step
    /\ \A s \in Sessions :
         /\ gens[s] <= MaxSteps
         /\ sess[s] # None =>
              \/ sess[s].summary = None
              \/ sess[s].summary.by = sess[s].life
              \/ \E c \in crossed : session[c] = s

\* The bucket lets no more requests through than it holds and refills.
RateKept == admitted <= Burst + now

=============================================================================
