------------------------------ MODULE Dispatch ------------------------------
(***************************************************************************)
(* How a generation finds its runner: pkg/llmclient/client.go over the     *)
(* circuit breaker and the pool.  A caller is a goroutine that makes one   *)
(* call after the other:                                                   *)
(*   chat    sendMessageWithRetry: the runners the breaker allows, one     *)
(*           after the other; pickRunner if it allows none                 *)
(*   pinned  ProbeBestRunner, then SendMessageOnRunner (the MCP tool loop) *)
(*   embed   Pool.Embed, Pool.EmbedBatch                                   *)
(* The breaker and the cache are read and written under their own locks    *)
(* and every answer of a runner may come late, so each is a step of its    *)
(* own.                                                                    *)
(***************************************************************************)
EXTENDS RunnerPool, Sequences

CONSTANTS Callers,
          Kinds,    \* which kinds of calls they make
          Retries,  \* reliability.runner_retries
          MaxNow,   \* bound: the clock
          MaxBlocked, \* bound: streams abandoned on each runner
          None

ASSUME DispatchAssumption ==
    /\ Runners # {}
    /\ IsFiniteSet(Callers)
    /\ Kinds \subseteq {"chat", "pinned", "embed"}
    /\ Retries \in Int
    /\ MaxNow \in Nat \ {0}
    /\ MaxBlocked \in [Runners -> Nat]
    /\ None \notin Runners

VARIABLES call,    \* the locals of each caller
          blocked  \* forwarders of each runner's streams that are blocked for ever

vars == <<breakerVars, now, runner, poolVars, call, blocked>>

Idle    == {"new", "failed"}
Holding == {"sending", "streaming"}

Candidate == [addr : Runners, score : Int]

Call ==
    [pc : Idle \cup Holding \cup
          {"listing", "listingAgain", "trying", "require", "picking", "probing",
           "probingAll"},
     kind : {"chat", "pinned", "embed"},
     addr : Runners \cup {None},   \* the runner it deals with
     todo : SUBSET Runners,        \* runners it has yet to ask (about)
     list : Seq(Runners),          \* eligible runners not tried yet
     left : Nat,                   \* attempts left
     found : SUBSET Candidate,     \* pickRunner's candidates
     denied : SUBSET Runners,      \* runners Allow refused
     cancelled : BOOLEAN,          \* ctx is done
     expired : BOOLEAN,            \* probeCtx is done: its 3 s are over
     skipped : SUBSET Runners,     \* history: runners left out for their backoff
     sick : SUBSET Runners]        \* history: runners that were not ready

\* No call: the locals are gone.
Fresh ==
    [pc |-> "new", kind |-> "chat", addr |-> None, todo |-> {}, list |-> <<>>, left |-> 0,
     found |-> {}, denied |-> {}, cancelled |-> FALSE, expired |-> FALSE,
     skipped |-> {}, sick |-> {}]

Init ==
    /\ BreakerInit
    /\ PoolInit
    /\ call = [c \in Callers |-> Fresh]
    /\ blocked = [a \in Runners |-> 0]

Active(c) == call[c].pc \notin Idle

\* The call returns an error; what NoFalseUnavailable looks at is kept.
Failed(c) == [Fresh EXCEPT !.pc = "failed", !.kind = call[c].kind, !.addr = call[c].addr,
                           !.denied = call[c].denied, !.cancelled = call[c].cancelled,
                           !.expired = call[c].expired, !.skipped = call[c].skipped,
                           !.sick = call[c].sick]

-----------------------------------------------------------------------------
(* The runners and the clock: external.                                    *)

RunnerChanges(a) ==
    /\ \E h \in Health \ {runner[a]} : runner' = [runner EXCEPT ![a] = h]
    /\ call' = [c \in Callers |->
                  IF Active(c) /\ call[c].pc # "streaming" /\ runner'[a] # "ready"
                  THEN [call[c] EXCEPT !.sick = @ \cup {a}] ELSE call[c]]
    /\ UNCHANGED <<breakerVars, now, poolVars, blocked>>

Tick ==
    /\ now < MaxNow
    /\ now' = now + 1
    /\ UNCHANGED <<breakerVars, runner, poolVars, call, blocked>>

\* ensureRunnerReady before every generation, and the health handler: ModelReady
\* and ProbeBestRunner ask Allow about runners whatever becomes of the call.
ModelReady(a) ==
    /\ Allow(a)
    /\ UNCHANGED <<now, runner, poolVars, call, blocked>>

-----------------------------------------------------------------------------
(* Calls.                                                                  *)

Begin(c) ==
    /\ ~Active(c)
    /\ \E k \in Kinds :
         call' = [call EXCEPT ![c] =
                    [Fresh EXCEPT !.pc = IF k = "embed" THEN "picking" ELSE "listing",
                                  !.kind = k,
                                  !.todo = IF k = "embed" THEN {} ELSE Runners,
                                  !.sick = {a \in Runners : runner[a] # "ready"}]]
    /\ UNCHANGED <<breakerVars, now, runner, poolVars, blocked>>

\* The client leaves or its time is up while a runner is looked for.  What becomes of
\* a stream then depends on its reader: StreamEnds, StreamAbandoned.
Cancel(c) ==
    /\ Active(c)
    /\ call[c].pc # "streaming"
    /\ ~call[c].cancelled
    /\ call' = [call EXCEPT ![c].cancelled = TRUE]
    /\ UNCHANGED <<breakerVars, now, runner, poolVars, blocked>>

\* An answer of runner a arrives, with the model loaded.
Answers(c, a) == ~call[c].cancelled /\ runner[a] = "ready"

\* How many of n eligible runners sendMessageWithRetry tries.
Attempts(n) == IF Retries > 0 /\ Retries < n THEN Retries ELSE n

\* eligibleRunners asks Allow about every enabled runner (a Go map: in any
\* order), then the loop starts, or the pool picks when none is left.
List(c, a) ==
    LET list == IF Allowed(a) THEN Append(call[c].list, a) ELSE call[c].list
    IN  /\ call[c].kind = "chat"
        /\ call[c].pc = "listing"
        /\ a \in call[c].todo
        /\ Allow(a)
        /\ call' = [call EXCEPT
                      ![c].todo = @ \ {a},
                      ![c].list = list,
                      ![c].denied = IF Allowed(a) THEN @ ELSE @ \cup {a},
                      ![c].left = IF call[c].todo = {a} THEN Attempts(Len(list)) ELSE @,
                      ![c].pc = IF call[c].todo # {a} THEN @
                                ELSE IF list = <<>> THEN "picking" ELSE "trying"]
        /\ UNCHANGED <<now, runner, poolVars, blocked>>

\* ProbeBestRunner takes the first allowed runner with a loaded model (it skips
\* one that was not connected when the runners were listed); if there is none,
\* the first one that is allowed when it goes through them again.
ProbeBest(c, a) ==
    /\ call[c].kind = "pinned"
    /\ call[c].pc \in {"listing", "listingAgain"}
    /\ a \in call[c].todo
    /\ Allow(a)
    /\ \/ /\ Allowed(a)
          /\ Answers(c, a) \/ call[c].pc = "listingAgain"
          /\ call' = [call EXCEPT ![c].addr = a, ![c].todo = {}, ![c].pc = "require"]
       \/ /\ Allowed(a) => call[c].pc = "listing"
          /\ call[c].todo # {a}
          /\ call' = [call EXCEPT ![c].todo = @ \ {a}]
       \/ /\ call[c].pc = "listing"
          /\ call[c].todo = {a}
          /\ call' = [call EXCEPT ![c].todo = Runners, ![c].pc = "listingAgain"]
       \/ /\ ~Allowed(a)
          /\ call[c].pc = "listingAgain"
          /\ call[c].todo = {a}
          /\ call' = [call EXCEPT ![c] = Failed(c)]
    /\ UNCHANGED <<now, runner, poolVars, blocked>>

\* The next attempt of the loop.
Try(c) ==
    /\ call[c].pc = "trying"
    /\ call' = [call EXCEPT ![c].addr = Head(call[c].list), ![c].list = Tail(@),
                            ![c].left = @ - 1, ![c].pc = "require"]
    /\ UNCHANGED <<breakerVars, now, runner, poolVars, blocked>>

\* The runner came from the loop: eligibleRunners was not empty.
FromLoop(c) == call[c].kind = "chat" /\ call[c].denied # Runners

\* SendMessageOnRunner or Embed returned an error: the loop records it, stops
\* if ctx is done and goes on while attempts are left.
Fail(c) ==
    IF FromLoop(c)
    THEN /\ RecordFailure(call[c].addr)
         /\ call' = [call EXCEPT ![c] =
                       IF @.cancelled \/ @.left = 0 THEN Failed(c)
                       ELSE [@ EXCEPT !.pc = "trying"]]
    ELSE /\ UNCHANGED breakerVars
         /\ call' = [call EXCEPT ![c] = Failed(c)]

\* RequireChatModelLoaded.
Required(c) ==
    /\ call[c].pc = "require"
    /\ Answers(c, call[c].addr)
    /\ AddInflight(call[c].addr, 1)
    /\ call' = [call EXCEPT ![c].pc = "sending"]
    /\ UNCHANGED <<breakerVars, now, runner, probeCache, blocked>>

NotLoaded(c) ==
    /\ call[c].pc = "require"
    /\ ~Answers(c, call[c].addr)
    /\ Fail(c)
    /\ UNCHANGED <<now, runner, poolVars, blocked>>

\* The first chunk is there, or the embedding is.
Sent(c) ==
    /\ call[c].pc = "sending"
    /\ Answers(c, call[c].addr)
    /\ IF call[c].kind = "embed"
       THEN /\ AddInflight(call[c].addr, -1)
            /\ call' = [call EXCEPT ![c] = Fresh]
       ELSE /\ UNCHANGED inflight
            /\ call' = [call EXCEPT ![c] =
                          [Fresh EXCEPT !.pc = "streaming", !.kind = call[c].kind,
                                        !.addr = call[c].addr]]
    /\ IF FromLoop(c) THEN RecordSuccess(call[c].addr) ELSE UNCHANGED breakerVars
    /\ UNCHANGED <<now, runner, probeCache, blocked>>

\* Mutant: the error path forgets the counter.
NotSentKeepsInflight(c) ==
    /\ call[c].pc = "sending"
    /\ ~Answers(c, call[c].addr)
    /\ Fail(c)
    /\ UNCHANGED <<now, runner, poolVars, blocked>>

NotSent(c) ==
    /\ call[c].pc = "sending"
    /\ ~Answers(c, call[c].addr)
    /\ AddInflight(call[c].addr, -1)
    /\ Fail(c)
    /\ UNCHANGED <<now, runner, probeCache, blocked>>

\* forwardStream has passed on the last chunk: the reader takes them all, also when its
\* client left (CollectMessage, the tool loop), or the channels have room for the rest.
StreamEnds(c) ==
    /\ call[c].pc = "streaming"
    /\ AddInflight(call[c].addr, -1)
    /\ call' = [call EXCEPT ![c] = Fresh]
    /\ UNCHANGED <<breakerVars, now, runner, probeCache, blocked>>

\* The SSE handler returns on ctx.Done with more chunks behind it than both channels hold.
\* forwardWithQueueRelease is blocked on the one nobody reads, forwardStream on the next,
\* and the runner stays one generation busier than it is.
StreamAbandoned(c) ==
    /\ call[c].pc = "streaming"
    /\ call[c].kind = "chat"
    /\ blocked[call[c].addr] < MaxBlocked[call[c].addr]
    /\ blocked' = [blocked EXCEPT ![call[c].addr] = @ + 1]
    /\ call' = [call EXCEPT ![c] = Fresh]
    /\ UNCHANGED <<breakerVars, now, runner, poolVars>>

-----------------------------------------------------------------------------
(* pickRunner.                                                             *)

Candidates(S) == {[addr |-> a, score |-> Score(a)] : a \in S}

\* The cache is consulted: fresh entries are candidates, entries in backoff
\* are skipped, the others are probed.
Scan(c) ==
    /\ call[c].pc = "picking"
    /\ call' = [call EXCEPT
                  ![c].found = Candidates({a \in Runners : Cached(a)}),
                  ![c].todo = {a \in Runners : ~Cached(a) /\ ~InBackoff(a)},
                  ![c].skipped = {a \in Runners : InBackoff(a)},
                  ![c].pc = "probing"]
    /\ UNCHANGED <<breakerVars, now, runner, poolVars, blocked>>

\* probeRunnerAddress and candidateFromRunnerProbe, for all at once.  A runner
\* that is down refuses at once or hangs until probeCtx expires.
Probe(c, a) ==
    /\ call[c].pc = "probing"
    /\ a \in call[c].todo
    /\ \E hangs \in {FALSE, runner[a] = "down"} :
         call' = [call EXCEPT
                    ![c].todo = @ \ {a},
                    ![c].expired = @ \/ hangs,
                    ![c].found = IF Answers(c, a) THEN @ \cup Candidates({a}) ELSE @]
    /\ IF call[c].cancelled \/ runner[a] = "down"
       THEN RecordProbeFailure(a)
       ELSE RecordProbeSuccess(a)
    /\ UNCHANGED <<breakerVars, now, runner, inflight, blocked>>

\* Mutant: nobody is asked again when the cache left no candidate.
ProbeAllNever(c) ==
    /\ call[c].pc = "probing"
    /\ call[c].todo = {}
    /\ call[c].found = {}
    /\ call' = [call EXCEPT ![c] = Failed(c)]
    /\ UNCHANGED <<breakerVars, now, runner, poolVars, blocked>>

\* No candidate: every runner is asked, whatever the cache says of it, in what
\* is left of the time.
ProbeAll(c) ==
    /\ call[c].pc = "probing"
    /\ call[c].todo = {}
    /\ call[c].found = {}
    /\ call' = [call EXCEPT ![c].todo = Runners, ![c].pc = "probingAll"]
    /\ UNCHANGED <<breakerVars, now, runner, poolVars, blocked>>

ProbeAgain(c, a) ==
    /\ call[c].pc = "probingAll"
    /\ a \in call[c].todo
    /\ call' = [call EXCEPT
                  ![c].todo = @ \ {a},
                  ![c].found = IF Answers(c, a) /\ ~call[c].expired
                               THEN @ \cup Candidates({a}) ELSE @]
    /\ UNCHANGED <<breakerVars, now, runner, poolVars, blocked>>

\* A candidate with the lowest score; Embed then requires the model, while
\* Pool.SendMessage sends at once.
Pick(c) ==
    /\ call[c].pc \in {"probing", "probingAll"}
    /\ call[c].todo = {}
    /\ \E k \in call[c].found :
         /\ \A l \in call[c].found : k.score <= l.score
         /\ call' = [call EXCEPT ![c].addr = k.addr, ![c].found = {},
                                 ![c].expired = FALSE, ![c].skipped = {},
                                 ![c].pc = IF call[c].kind = "embed" THEN "require" ELSE "sending"]
         /\ IF call[c].kind = "embed" THEN UNCHANGED inflight ELSE AddInflight(k.addr, 1)
    /\ UNCHANGED <<breakerVars, now, runner, probeCache, blocked>>

\* Mutant: every runner is asked until one answers.
PickNoneAgain(c) ==
    /\ call[c].pc = "probingAll"
    /\ call[c].todo = {}
    /\ call[c].found = {}
    /\ call' = [call EXCEPT ![c].todo = Runners]
    /\ UNCHANGED <<breakerVars, now, runner, poolVars, blocked>>

PickNone(c) ==
    /\ call[c].pc = "probingAll"
    /\ call[c].todo = {}
    /\ call[c].found = {}
    /\ call' = [call EXCEPT ![c] = Failed(c)]
    /\ UNCHANGED <<breakerVars, now, runner, poolVars, blocked>>

-----------------------------------------------------------------------------
CallNext(c) ==
    \/ Begin(c) \/ Cancel(c) \/ Try(c)
    \/ Required(c) \/ NotLoaded(c) \/ Sent(c) \/ NotSent(c)
    \/ StreamEnds(c) \/ StreamAbandoned(c)
    \/ Scan(c) \/ ProbeAll(c) \/ Pick(c) \/ PickNone(c)
    \/ \E a \in Runners : List(c, a) \/ ProbeBest(c, a) \/ Probe(c, a) \/ ProbeAgain(c, a)

Next ==
    \/ \E c \in Callers : CallNext(c)
    \/ \E a \in Runners : RunnerChanges(a) \/ ModelReady(a)
    \/ Tick

Spec == Init /\ [][Next]_vars

\* The call has neither a stream nor an error yet.
Seeking(c) == Active(c) /\ call[c].pc # "streaming"

\* The runners whose answer the call waits for without a deadline of its own; those of
\* pickRunner have probeCtx.
Asked(c) ==
    CASE call[c].pc \in {"require", "sending"} -> {call[c].addr}
      [] call[c].kind = "pinned" /\ call[c].pc \in {"listing", "listingAgain"} -> call[c].todo
      [] OTHER -> {}

Hangs(c) == ~call[c].cancelled /\ \E a \in Asked(c) : runner[a] = "down"

(***************************************************************************)
(* Fairness: a goroutine that can run does, and a runner that is asked     *)
(* answers, unless it is down: then it may hang until the client leaves.   *)
(* Nobody has to begin a call or to leave, and nothing is assumed of a     *)
(* stream: it may go on or be abandoned.                                   *)
(***************************************************************************)
Fairness ==
    \A c \in Callers :
      WF_vars(/\ ~Hangs(c)
              /\ \/ Try(c) \/ Required(c) \/ NotLoaded(c) \/ Sent(c) \/ NotSent(c)
                 \/ Scan(c) \/ ProbeAll(c) \/ Pick(c) \/ PickNone(c)
                 \/ \E a \in Runners : \/ List(c, a) \/ ProbeBest(c, a)
                                       \/ Probe(c, a) \/ ProbeAgain(c, a))

FairSpec == Spec /\ Fairness

-----------------------------------------------------------------------------
(* Properties.                                                             *)

\* Every variable keeps its type; no counter of generations goes below zero.
TypeOK ==
    /\ failures \in [Runners -> Nat]
    /\ openUntil \in [Runners -> 0..(MaxNow + Cooldown)]
    /\ now \in 1..MaxNow
    /\ runner \in [Runners -> Health]
    /\ probeCache \in [Runners -> [ok : BOOLEAN, probedAt : 0..MaxNow,
                                   backoffUntil : 0..(MaxNow + BackoffMax),
                                   failCount : 0..(BackoffShift + 1)]]
    /\ inflight \in [Runners -> Nat]
    /\ call \in [Callers -> Call]
    /\ blocked \in [Runners -> Nat]

\* Allow, RecordSuccess and RecordFailure of any number of callers keep the two
\* halves of a circuit together: it is open exactly when maxFailures failures
\* were counted, so no circuit is open for ever or open without a cause.
OpenIffFailing ==
    \A a \in Runners : openUntil[a] # 0 <=> failures[a] >= MaxFailures

\* An open circuit takes no more blame than there were calls on their way: at
\* most one further failure from each other caller, however many calls are
\* made while it is open and however the callers' lists have aged.
BlameBound ==
    \A a \in Runners : failures[a] < MaxFailures + Cardinality(Callers)

\* The counter pickRunner balances by, and unloading waits for, is the number of
\* sends and streams on the runner and of the streams there that an SSE handler abandoned
\* with its forwarders blocked (sse.go:74, client.go:248, pool.go:523).  Through all
\* retries, fallbacks and cancellations nothing else leaks one or returns one twice.
InflightExact ==
    \A a \in Runners :
      inflight[a] = Cardinality({c \in Callers : call[c].pc \in Holding /\ call[c].addr = a})
                      + blocked[a]

\* No false "unavailable": a call that was not cancelled fails only if every
\* runner was not ready at some moment of it, or refused by the breaker while
\* another was tried; when pickRunner settled on a runner, it was that one.
\* A backoff that outlived the fault fails a call only together with a runner
\* that hangs: the second round of probes shares the 3 s of the first
\* (pool.go:404-472).
NoFalseUnavailable ==
    \A c \in Callers :
      call[c].pc = "failed" /\ ~call[c].cancelled =>
        IF FromLoop(c)
        THEN Attempts(Cardinality(Runners)) = Cardinality(Runners) =>
               Runners = call[c].sick \cup call[c].denied
        ELSE IF call[c].addr # None THEN call[c].addr \in call[c].sick
        ELSE \/ call[c].kind = "pinned"
             \/ Runners \ call[c].sick \subseteq
                  IF call[c].expired THEN call[c].skipped ELSE {}

\* Every call comes to its stream or its result, or to an error, whatever the breaker
\* and the other callers do meanwhile: it never goes round in retries and probes.  Only a
\* runner that is down can hold it, as long as its client stays, for RequireChatModelLoaded
\* and the first chunk have no deadline.
CallsReturn == \A c \in Callers : Seeking(c) ~> ~Seeking(c) \/ Hangs(c)
=============================================================================
