-------------------------- MODULE AgentStepsProofs ---------------------------
(***************************************************************************)
(* Theorems about AgentSteps, for any calls, ids, sessions and limits, and *)
(* about PromptBudget: histories, documents and contexts that are made to  *)
(* fit a prompt, for all of them and any budget.                           *)
(***************************************************************************)
EXTENDS AgentSteps, PromptBudget, NaturalsInduction, WellFoundedInduction, TLAPS

-----------------------------------------------------------------------------
(* The rate limit.  What was let through and what is still in the bucket   *)
(* are together no more than what it held and what it was refilled with    *)
(* until its last request.                                                 *)

BucketInv ==
    /\ now \in Nat
    /\ admitted \in Nat
    /\ bucket # None =>
         /\ bucket = [tokens |-> bucket.tokens, last |-> bucket.last]
         /\ bucket.tokens \in Nat
         /\ bucket.last \in 0..now
         /\ admitted + bucket.tokens <= Burst + bucket.last
    /\ bucket = None => admitted = 0

\* What one step may do to the bucket: allow refuses, allow lets one through, a tick.
BucketStep ==
    \/ UNCHANGED <<bucket, now, admitted>>
    \/ now' = now + 1 /\ UNCHANGED <<bucket, admitted>>
    \/ Refilled < 1 /\ bucket' = Drawn(Refilled) /\ UNCHANGED <<now, admitted>>
    \/ Refilled >= 1 /\ bucket' = Drawn(Refilled - 1) /\ admitted' = admitted + 1 /\ UNCHANGED now

\* Every step of a call, of the store or of the clock is one of them.
LEMMA StepOfBucket == [AgentNext]_vars => BucketStep
<1> SUFFICES ASSUME [AgentNext]_vars PROVE BucketStep
  OBVIOUS
<1>1. ASSUME NEW c \in Calls, RateLimited(c) PROVE BucketStep
  BY <1>1 DEF RateLimited, BucketStep, history
<1>2. ASSUME NEW c \in Calls, Arrive(c) PROVE BucketStep
  BY <1>2 DEF Arrive, BucketStep
<1>3. ASSUME NEW c \in Calls, BeginStep(c) PROVE BucketStep
  BY <1>3 DEF BeginStep, BucketStep
<1>4. ASSUME NEW c \in Calls, \/ Hint(c) \/ GenerationEnds(c) \/ RunJob(c)
                              \/ SetSummary(c) \/ Respond(c)
      PROVE  BucketStep
  BY <1>4 DEF Hint, GenerationEnds, RunJob, SetSummary, Respond, BucketStep, history
<1>5. ASSUME NEW c \in Calls, GenerationFails(c) \/ GenerationWaits(c) \/ Reset(c)
      PROVE  BucketStep
  BY <1>5 DEF GenerationFails, GenerationWaits, Reset, BucketStep
<1>6. ASSUME NEW k \in Ids, Forget(k) PROVE BucketStep
  BY <1>6 DEF Forget, BucketStep
<1>7. CASE Tick
  BY <1>7 DEF Tick, BucketStep, history
<1>8. CASE Rest \/ UNCHANGED vars
  BY <1>8 DEF Rest, BucketStep, vars, history
<1> QED
  BY <1>1, <1>2, <1>3, <1>4, <1>5, <1>6, <1>7, <1>8 DEF AgentNext

\* The least of two numbers, as the refill of the bucket is.
LEMMA MinOfTwo ==
    ASSUME NEW a \in Nat, NEW b \in Nat
    PROVE  Min({a, b}) \in Nat /\ Min({a, b}) <= a /\ Min({a, b}) <= b
<1>1. \E x \in {a, b} : \A y \in {a, b} : x =< y
  OBVIOUS
<1>2. Min({a, b}) \in {a, b} /\ \A y \in {a, b} : Min({a, b}) =< y
  BY <1>1 DEF Min
<1> QED
  BY <1>2

\* A refilled bucket still keeps the balance, now up to the present.
LEMMA RefillKeepsBalance ==
    ASSUME BucketInv
    PROVE  Refilled \in Nat /\ admitted + Refilled <= Burst + now
<1> USE AgentStepsAssumption
<1>1. CASE bucket = None
  BY <1>1 DEF Refilled, BucketInv
<1>2. CASE bucket # None
  <2> DEFINE more == bucket.tokens + (now - bucket.last)
  <2>1. more \in Nat /\ Burst \in Nat
    BY <1>2 DEF BucketInv
  <2>2. Refilled = Min({Burst, more})
    BY <1>2 DEF Refilled
  <2>3. Refilled \in Nat /\ Refilled <= more
    BY <2>1, <2>2, MinOfTwo
  <2> QED
    BY <1>2, <2>1, <2>3 DEF BucketInv
<1> QED
  BY <1>1, <1>2

LEMMA BucketInductive ==
    ASSUME BucketInv, BucketStep
    PROVE  BucketInv'
<1> USE AgentStepsAssumption
<1>0. Refilled \in Nat /\ admitted + Refilled <= Burst + now
  BY RefillKeepsBalance
<1>1. CASE UNCHANGED <<bucket, now, admitted>>
  BY <1>1 DEF BucketInv
<1>2. CASE now' = now + 1 /\ UNCHANGED <<bucket, admitted>>
  BY <1>2 DEF BucketInv
<1>3. CASE Refilled < 1 /\ bucket' = Drawn(Refilled) /\ UNCHANGED <<now, admitted>>
  <2>1. bucket' = [tokens |-> Refilled, last |-> now]
    BY <1>3 DEF Drawn
  <2> QED
    BY <1>0, <1>3, <2>1 DEF BucketInv
<1>4. CASE /\ Refilled >= 1 /\ bucket' = Drawn(Refilled - 1)
           /\ admitted' = admitted + 1 /\ UNCHANGED now
  <2>1. bucket' = [tokens |-> Refilled - 1, last |-> now]
    BY <1>4 DEF Drawn
  <2> QED
    BY <1>0, <1>4, <2>1 DEF BucketInv
<1> QED
  BY <1>1, <1>2, <1>3, <1>4 DEF BucketStep

\* rateLimiter.allow lets no more requests through than the bucket holds and is
\* refilled with, however many clients' steps it refuses in between.
THEOREM RateIsKept == AgentSpec => []RateKept
<1>1. Init => BucketInv
  BY DEF Init, BucketInv
<1>2. BucketInv /\ [AgentNext]_vars => BucketInv'
  BY StepOfBucket, BucketInductive
<1>3. BucketInv => RateKept
  BY AgentStepsAssumption DEF BucketInv, RateKept
<1> QED
  BY <1>1, <1>2, <1>3, PTL DEF AgentSpec

-----------------------------------------------------------------------------
(* Types.                                                                  *)

Answers ==
    [step : Nat, calls : SUBSET Proposals, finish : BOOLEAN, blocked : SUBSET Proposals]

SessionRecords == [count : Nat, summary : {None} \cup [by : Nat], life : Nat]

CallRecords ==
    [pc : Running \cup Ended \cup {"new"}, job : BOOLEAN, step : Nat, hint : Nat, life : Nat,
     finish : BOOLEAN, answer : Answers \cup {None}]

AgentTypeOK ==
    /\ session \in [Calls -> Sessions \cup {None}]
    /\ call \in [Calls -> CallRecords]
    /\ sess \in [Sessions -> SessionRecords \cup {None}]
    /\ stored \in [Ids -> Answers \cup {None}]
    /\ lives \in [Sessions -> Nat]
    /\ gens \in [Sessions -> Nat]
    /\ runs \in [Ids -> Nat]
    /\ \A c \in Calls : call[c].pc \in {"prompt", "summary", "reset"} => session[c] \in Sessions

-----------------------------------------------------------------------------
(* Who runs the step of an id.                                             *)

\* Of an id that gives no reason to run its step again: one request at most is in the
\* handler, it is not a job, and if the step was begun that request is past BeginStep
\* or the answer is stored; whoever was answered was given the stored answer.
Once(k) ==
    /\ \A c, d \in Calls :
         /\ IdOf[c] = k /\ call[c].pc \in Running
         /\ IdOf[d] = k /\ call[d].pc \in Running
         => c = d
    /\ \A c \in Calls :
         IdOf[c] = k =>
           /\ call[c].pc # "queued" /\ ~call[c].job
           /\ call[c].pc = "begin" => runs[k] = 0
           /\ call[c].pc \in Running => stored[k] = None
           /\ call[c].pc \in {"summary", "reset", "store"} => call[c].answer # None
           /\ call[c].pc = "answered" => stored[k] # None /\ call[c].answer = stored[k]
    /\ runs[k] <= 1
    /\ runs[k] = 1 =>
         \/ stored[k] # None
         \/ \E c \in Calls : IdOf[c] = k /\ call[c].pc \in Running \ {"begin"}

OnceInv == \A k \in Ids \ excused : Once(k)

-----------------------------------------------------------------------------
(* What a session knows.                                                   *)

\* A step that no other crossed has the session it began, with its count, and told
\* the model that count.
Own(c) ==
    /\ c \notin crossed
    /\ call[c].pc \in {"prompt", "generate", "summary", "reset"}
    /\ session[c] # None
    => /\ sess[session[c]] # None
       /\ sess[session[c]].life = call[c].life
       /\ sess[session[c]].count = call[c].step
       /\ call[c].pc # "prompt" => call[c].hint = call[c].step

\* A session has counted every generation.
SessionKept(s) ==
    /\ gens[s] <= MaxSteps
    /\ sess[s] # None =>
         /\ gens[s] <= sess[s].count
         /\ \/ sess[s].summary = None
            \/ sess[s].summary.by = sess[s].life
            \/ \E c \in crossed : session[c] = s

OwnInv ==
    /\ \A c \in Calls : Own(c)
    /\ \A s \in Sessions : SessionKept(s)

\* A step of the service is a step of one call, described by its record afterwards.
Becomes(c, x) ==
    /\ call' \in [Calls -> CallRecords]
    /\ call'[c] = x
    /\ \A d \in Calls \ {c} : call'[d] = call[d]

LEMMA CallFields ==
    ASSUME AgentTypeOK, NEW c \in Calls
    PROVE  /\ call[c] \in CallRecords
           /\ call[c].pc \in Running \cup Ended \cup {"new"} /\ call[c].job \in BOOLEAN
           /\ call[c].step \in Nat /\ call[c].hint \in Nat /\ call[c].life \in Nat
           /\ call[c].finish \in BOOLEAN /\ call[c].answer \in Answers \cup {None}
           /\ stored[IdOf[c]] \in Answers \cup {None} /\ IdOf[c] \in Ids
BY AgentStepsAssumption DEF AgentTypeOK, CallRecords

\* call[c] with another place in the handler and another answer.
At(c, pc, answer) ==
    [pc |-> pc, job |-> call[c].job, step |-> call[c].step, hint |-> call[c].hint,
     life |-> call[c].life, finish |-> call[c].finish, answer |-> answer]

\* A call that ended, or waits as a job.
Left(pc, answer) ==
    [pc |-> pc, job |-> FALSE, step |-> 0, hint |-> 0, life |-> 0, finish |-> FALSE, answer |-> answer]

LEMMA RecordTypes ==
    ASSUME AgentTypeOK, NEW c \in Calls, NEW pc \in Running \cup Ended \cup {"new"},
           NEW answer \in Answers \cup {None}
    PROVE  /\ At(c, pc, answer) \in CallRecords
           /\ Left(pc, answer) \in CallRecords
           /\ Over(pc, answer) = Left(pc, answer)
<1>1. At(c, pc, answer) \in CallRecords
  BY CallFields DEF At, CallRecords
<1>2. Left(pc, answer) \in CallRecords
  BY DEF Left, CallRecords
<1>3. PICK r : r = Over(pc, answer)
  OBVIOUS
<1>4. r = Left(pc, answer)
  BY <1>3 DEF Left, Over, NewCall
<1> QED
  BY <1>1, <1>2, <1>3, <1>4

\* A call to which a record is assigned.
LEMMA CallAfter ==
    ASSUME AgentTypeOK, NEW c \in Calls, NEW x \in CallRecords, call' = [call EXCEPT ![c] = x]
    PROVE  Becomes(c, x)
BY DEF AgentTypeOK, Becomes

\* A call of which only the place is assigned.
LEMMA PlaceAfter ==
    ASSUME AgentTypeOK, NEW c \in Calls, NEW pc \in Running \cup Ended \cup {"new"},
           call' = [call EXCEPT ![c].pc = pc]
    PROVE  Becomes(c, At(c, pc, call[c].answer))
<1>1. At(c, pc, call[c].answer) \in CallRecords
  BY CallFields, RecordTypes
<1>2. call'[c] = At(c, pc, call[c].answer)
  BY DEF AgentTypeOK, CallRecords, At
<1>3. DOMAIN call' = Calls /\ \A d \in Calls \ {c} : call'[d] = call[d]
  BY DEF AgentTypeOK
<1>4. call' \in [Calls -> CallRecords]
  BY <1>1, <1>2, <1>3 DEF AgentTypeOK
<1> QED
  BY <1>2, <1>3, <1>4 DEF Becomes

\* What each action makes of its call.
LEMMA SmallSteps ==
    ASSUME AgentTypeOK, NEW c \in Calls
    PROVE  /\ RateLimited(c) => Becomes(c, At(c, "limited", call[c].answer))
           /\ Arrive(c) =>
                \/ stored[IdOf[c]] # None /\ Becomes(c, At(c, "answered", stored[IdOf[c]]))
                \/ stored[IdOf[c]] = None /\ \/ Becomes(c, At(c, "refused", call[c].answer))
                                             \/ Becomes(c, At(c, "begin", call[c].answer))
           /\ GenerationFails(c) => Becomes(c, Left("failed", None))
           /\ GenerationWaits(c) =>
                Becomes(c, Left(IF call[c].job THEN "failed" ELSE "queued", None))
           /\ SetSummary(c) =>
                Becomes(c, At(c, IF call[c].finish THEN "reset" ELSE "store", call[c].answer))
           /\ Reset(c) => Becomes(c, At(c, "store", call[c].answer))
           /\ Respond(c) => Becomes(c, Left("answered", call[c].answer))
<1>0. call[c].answer \in Answers \cup {None} /\ stored[IdOf[c]] \in Answers \cup {None}
  BY CallFields
<1>1. RateLimited(c) => Becomes(c, At(c, "limited", call[c].answer))
  BY PlaceAfter DEF RateLimited, Ended
<1>2. Arrive(c) =>
        \/ stored[IdOf[c]] # None /\ Becomes(c, At(c, "answered", stored[IdOf[c]]))
        \/ stored[IdOf[c]] = None /\ \/ Becomes(c, At(c, "refused", call[c].answer))
                                     \/ Becomes(c, At(c, "begin", call[c].answer))
  <2> SUFFICES ASSUME Arrive(c)
               PROVE  \/ stored[IdOf[c]] # None /\ Becomes(c, At(c, "answered", stored[IdOf[c]]))
                      \/ stored[IdOf[c]] = None /\ \/ Becomes(c, At(c, "refused", call[c].answer))
                                                   \/ Becomes(c, At(c, "begin", call[c].answer))
    OBVIOUS
  <2>1. CASE stored[IdOf[c]] # None
    <3>x. PICK x : x = stored[IdOf[c]]
      OBVIOUS
    <3>1. call' = [call EXCEPT ![c].pc = "answered", ![c].answer = x]
      BY <2>1, <3>x DEF Arrive
    <3>2. At(c, "answered", x) \in CallRecords
      BY <1>0, <3>x, RecordTypes DEF Ended
    <3>3. call'[c] = At(c, "answered", x)
      BY <3>1 DEF AgentTypeOK, CallRecords, At
    <3>4. DOMAIN call' = Calls /\ \A d \in Calls \ {c} : call'[d] = call[d]
      BY <3>1 DEF AgentTypeOK
    <3>5. call' \in [Calls -> CallRecords]
      BY <3>1, <3>2, <3>3, <3>4 DEF AgentTypeOK
    <3> QED
      BY <2>1, <3>x, <3>3, <3>4, <3>5 DEF Becomes
  <2>2. CASE stored[IdOf[c]] = None
    <3>1. call' = [call EXCEPT ![c].pc = "refused"] \/ call' = [call EXCEPT ![c].pc = "begin"]
      BY <2>2 DEF Arrive
    <3> QED
      BY <2>2, <3>1, PlaceAfter DEF Running, Ended
  <2> QED
    BY <2>1, <2>2
<1>3. /\ GenerationFails(c) => Becomes(c, Left("failed", None))
      /\ GenerationWaits(c) => Becomes(c, Left(IF call[c].job THEN "failed" ELSE "queued", None))
      /\ Respond(c) => Becomes(c, Left("answered", call[c].answer))
  <2>1. \A pc \in Running \cup Ended, answer \in Answers \cup {None} :
          call' = [call EXCEPT ![c] = Over(pc, answer)] => Becomes(c, Left(pc, answer))
    BY RecordTypes, CallAfter
  <2>2. GenerationFails(c) => call' = [call EXCEPT ![c] = Over("failed", None)]
    BY DEF GenerationFails
  <2>3. GenerationWaits(c) =>
          call' = [call EXCEPT ![c] = Over(IF call[c].job THEN "failed" ELSE "queued", None)]
    BY DEF GenerationWaits, AgentTypeOK
  <2>4. Respond(c) => call' = [call EXCEPT ![c] = Over("answered", call[c].answer)]
    BY DEF Respond, AgentTypeOK
  <2> QED
    BY <1>0, <2>1, <2>2, <2>3, <2>4 DEF Running, Ended
<1>4. /\ SetSummary(c) =>
           Becomes(c, At(c, IF call[c].finish THEN "reset" ELSE "store", call[c].answer))
      /\ Reset(c) => Becomes(c, At(c, "store", call[c].answer))
  BY PlaceAfter DEF SetSummary, Reset, Running
<1> QED
  BY <1>1, <1>2, <1>3, <1>4

\* The other actions: the generation's end, the hint, a job that begins, and BeginStep.
LEMMA ServiceSteps ==
    ASSUME AgentTypeOK, NEW c \in Calls
    PROVE  /\ RunJob(c) => \E x \in CallRecords : Becomes(c, x) /\ x.pc = "begin" /\ x.job
           /\ Hint(c) => \E x \in CallRecords :
                /\ Becomes(c, x) /\ x.pc = "generate"
                /\ x.hint = ContextHint(session[c])
                /\ x.step = call[c].step /\ x.life = call[c].life
                /\ x.job = call[c].job /\ x.answer = call[c].answer
           /\ GenerationEnds(c) => \E x \in CallRecords :
                /\ Becomes(c, x)
                /\ \/ x.pc \in {"summary", "reset"} /\ session[c] # None
                   \/ x.pc = "store"
                /\ x.answer \in Answers /\ x.job = call[c].job
                /\ x.hint = call[c].hint /\ x.step = call[c].step /\ x.life = call[c].life
<1>c. /\ call \in [Calls -> CallRecords] /\ call[c] \in CallRecords
      /\ call[c].step \in Nat
  BY CallFields DEF AgentTypeOK
<1>1. ASSUME RunJob(c) PROVE \E x \in CallRecords : Becomes(c, x) /\ x.pc = "begin" /\ x.job
  <2>1. PICK x : x = [NewCall EXCEPT !.pc = "begin", !.job = TRUE]
    OBVIOUS
  <2>2. x = [pc |-> "begin", job |-> TRUE, step |-> 0, hint |-> 0, life |-> 0, finish |-> FALSE,
             answer |-> None]
    BY <2>1 DEF NewCall
  <2>3. x \in CallRecords
    BY <2>2 DEF CallRecords, Running
  <2>4. call' = [call EXCEPT ![c] = x]
    BY <1>1, <2>1 DEF RunJob
  <2> QED
    BY <2>2, <2>3, <2>4, CallAfter
<1>2. ASSUME Hint(c)
      PROVE  \E x \in CallRecords :
                /\ Becomes(c, x) /\ x.pc = "generate"
                /\ x.hint = ContextHint(session[c])
                /\ x.step = call[c].step /\ x.life = call[c].life
                /\ x.job = call[c].job /\ x.answer = call[c].answer
  <2>h. PICK h : h = ContextHint(session[c])
    OBVIOUS
  <2>x. PICK x : x = [pc |-> "generate", job |-> call[c].job, step |-> call[c].step, hint |-> h,
                      life |-> call[c].life, finish |-> call[c].finish, answer |-> call[c].answer]
    OBVIOUS
  <2>1. call' = [call EXCEPT ![c].pc = "generate", ![c].hint = h]
    BY <1>2, <2>h DEF Hint
  <2>2. h \in Nat
    <3>1. session[c] \in Sessions
      BY <1>2 DEF Hint, AgentTypeOK
    <3> QED
      BY <2>h, <3>1 DEF ContextHint, AgentTypeOK, SessionRecords
  <2>3. x \in CallRecords
    BY <1>c, <2>x, <2>2, CallFields DEF CallRecords, Running
  <2>4. call'[c] = x
    BY <1>c, <2>1, <2>x DEF CallRecords
  <2>5. DOMAIN call' = Calls /\ \A d \in Calls \ {c} : call'[d] = call[d]
    BY <1>c, <2>1
  <2>6. call' \in [Calls -> CallRecords]
    BY <1>c, <2>1, <2>3, <2>4, <2>5
  <2> QED
    BY <2>h, <2>x, <2>3, <2>4, <2>5, <2>6 DEF Becomes
<1>3. ASSUME GenerationEnds(c)
      PROVE  \E x \in CallRecords :
                /\ Becomes(c, x)
                /\ \/ x.pc \in {"summary", "reset"} /\ session[c] # None
                   \/ x.pc = "store"
                /\ x.answer \in Answers /\ x.job = call[c].job
                /\ x.hint = call[c].hint /\ x.step = call[c].step /\ x.life = call[c].life
  <2>1. PICK out \in Outputs :
          call' = [call EXCEPT ![c] =
               [@ EXCEPT !.finish = parseAgentStepLLMOutput(out).finish,
                         !.answer = Answer(c, parseAgentStepLLMOutput(out).calls,
                                           parseAgentStepLLMOutput(out).finish),
                         !.pc = CASE session[c] # None /\ parseAgentStepLLMOutput(out).summary -> "summary"
                                  [] session[c] # None /\ ~parseAgentStepLLMOutput(out).summary
                                       /\ parseAgentStepLLMOutput(out).finish -> "reset"
                                  [] OTHER -> "store"]]
    BY <1>3 DEF GenerationEnds
  <2>2. PICK parsed : parsed = parseAgentStepLLMOutput(out)
    OBVIOUS
  <2>3. parsed.finish \in BOOLEAN /\ parsed.calls \in SUBSET Proposals /\ parsed.summary \in BOOLEAN
    <3>1. CASE out.form = "prose"
      <4>1. parsed = [out EXCEPT !.finish = TRUE, !.summary = FALSE, !.calls = {}]
        BY <2>2, <3>1 DEF parseAgentStepLLMOutput
      <4> QED
        BY <4>1 DEF Outputs
    <3>2. CASE out.form # "prose"
      BY <2>2, <3>2 DEF parseAgentStepLLMOutput, Outputs
    <3> QED
      BY <3>1, <3>2
  <2>4. PICK answer : answer = Answer(c, parsed.calls, parsed.finish)
    OBVIOUS
  <2>5. answer \in Answers
    BY <1>c, <2>3, <2>4 DEF Answer, Answers, FilterCalls, filterAgentToolCalls
  <2>6. PICK pc : pc = CASE session[c] # None /\ parsed.summary -> "summary"
                         [] session[c] # None /\ ~parsed.summary /\ parsed.finish -> "reset"
                         [] OTHER -> "store"
    OBVIOUS
  <2>7. (pc \in {"summary", "reset"} /\ session[c] # None) \/ pc = "store"
    BY <2>6
  <2>8. call' = [call EXCEPT ![c] =
           [call[c] EXCEPT !.finish = parsed.finish, !.answer = answer, !.pc = pc]]
    BY <1>c, <2>1, <2>2, <2>4, <2>6
  <2>x. PICK x : x = [pc |-> pc, job |-> call[c].job, step |-> call[c].step, hint |-> call[c].hint,
                      life |-> call[c].life, finish |-> parsed.finish, answer |-> answer]
    OBVIOUS
  <2>9. call'[c] = x
    BY <1>c, <2>8, <2>x DEF CallRecords
  <2>10. x \in CallRecords
    BY <1>c, <2>x, <2>3, <2>5, <2>7, CallFields DEF CallRecords, Running
  <2>11. DOMAIN call' = Calls /\ \A d \in Calls \ {c} : call'[d] = call[d]
    BY <1>c, <2>8
  <2>12. call' \in [Calls -> CallRecords]
    BY <1>c, <2>8, <2>9, <2>10, <2>11
  <2> QED
    BY <2>x, <2>5, <2>7, <2>9, <2>10, <2>11, <2>12 DEF Becomes
<1> QED
  BY <1>1, <1>2, <1>3

\* BeginStep counts the step, of the session and of the id.
LEMMA BeginSteps ==
    ASSUME AgentTypeOK, NEW c \in Calls, BeginStep(c)
    PROVE  /\ runs' = [runs EXCEPT ![IdOf[c]] = runs[IdOf[c]] + 1]
           /\ \/ /\ session[c] = None
                 /\ Becomes(c, At(c, "generate", call[c].answer))
                 /\ UNCHANGED <<sess, lives, gens, crossed>>
              \/ \E n \in SessionRecords, x \in CallRecords :
                   /\ session[c] \in Sessions
                   /\ IF sess[session[c]] = None
                      THEN n.count = 1 /\ n.summary = None
                      ELSE /\ n.count = sess[session[c]].count + 1
                           /\ n.summary = sess[session[c]].summary
                           /\ n.life = sess[session[c]].life
                   /\ sess' = [sess EXCEPT ![session[c]] = n]
                   /\ lives' = [lives EXCEPT ![session[c]] = n.life]
                   /\ gens' = [gens EXCEPT ![session[c]] =
                                 (IF sess[session[c]] = None THEN 0 ELSE gens[session[c]])
                                 + (IF n.count > MaxSteps THEN 0 ELSE 1)]
                   /\ crossed' = crossed \cup Crossing(c)
                   /\ Becomes(c, x) /\ x.job = call[c].job
                   /\ x.step = n.count /\ x.life = n.life
                   /\ x.pc = "prompt" \/ (x.pc = "store" /\ x.answer # None)
<1>c. /\ call \in [Calls -> CallRecords] /\ call[c] \in CallRecords
      /\ call[c].job \in BOOLEAN /\ call[c].hint \in Nat /\ MaxSteps \in Nat
  BY CallFields, AgentStepsAssumption DEF AgentTypeOK
<1>1. runs' = [runs EXCEPT ![IdOf[c]] = runs[IdOf[c]] + 1]
  BY DEF BeginStep
<1>2. CASE session[c] = None
  <2>1. call' = [call EXCEPT ![c].pc = "generate"] /\ UNCHANGED <<sess, lives, gens, crossed>>
    BY <1>2 DEF BeginStep
  <2> QED
    BY <1>1, <1>2, <2>1, PlaceAfter DEF Running
<1>3. CASE session[c] # None
  <2>s. PICK s \in Sessions : s = session[c]
    BY <1>3 DEF AgentTypeOK
  <2>n. PICK n : n = Counted(s)
    OBVIOUS
  <2>1. /\ n \in SessionRecords
        /\ IF sess[s] = None THEN n.count = 1 /\ n.summary = None
           ELSE /\ n.count = sess[s].count + 1
                /\ n.summary = sess[s].summary
                /\ n.life = sess[s].life
    <3>1. CASE sess[s] = None
      <4>1. n = [count |-> 1, summary |-> None, life |-> lives[s] + 1] /\ lives[s] \in Nat
        BY <2>n, <3>1 DEF Counted, AgentTypeOK
      <4> QED
        BY <3>1, <4>1 DEF SessionRecords
    <3>2. CASE sess[s] # None
      <4>1. sess[s] \in SessionRecords
        BY <3>2 DEF AgentTypeOK
      <4>2. n = [sess[s] EXCEPT !.count = sess[s].count + 1]
        BY <2>n, <3>2 DEF Counted
      <4> QED
        BY <3>2, <4>1, <4>2 DEF SessionRecords
    <3> QED
      BY <3>1, <3>2
  <2>a. PICK a : a = [step |-> n.count, calls |-> {}, finish |-> TRUE, blocked |-> {}]
    OBVIOUS
  <2>p. PICK over : over = (n.count > MaxSteps)
    OBVIOUS
  <2>b. over \in BOOLEAN
    BY <1>c, <2>1, <2>p DEF SessionRecords
  <2>2. /\ sess' = [sess EXCEPT ![s] = n]
        /\ lives' = [lives EXCEPT ![s] = n.life]
        /\ gens' = [gens EXCEPT ![s] = (IF sess[s] = None THEN 0 ELSE gens[s])
                                         + (IF n.count > MaxSteps THEN 0 ELSE 1)]
        /\ crossed' = crossed \cup Crossing(c)
    BY <1>3, <2>s, <2>n DEF BeginStep, AgentTypeOK
  <2>3. call' = [call EXCEPT ![c] =
                  [call[c] EXCEPT !.pc = IF over THEN "store" ELSE "prompt",
                           !.step = n.count, !.life = n.life, !.finish = over,
                           !.answer = IF over THEN a ELSE None]]
    BY <1>c, <1>3, <2>s, <2>n, <2>a, <2>p DEF BeginStep
  <2>x. PICK x : x = [pc |-> IF over THEN "store" ELSE "prompt", job |-> call[c].job, step |-> n.count,
                      hint |-> call[c].hint, life |-> n.life, finish |-> over,
                      answer |-> IF over THEN a ELSE None]
    OBVIOUS
  <2>4. a \in Answers /\ a # None
    <3>1. n.count \in Nat
      BY <2>1 DEF SessionRecords
    <3>2. a \in Answers
      BY <2>a, <3>1 DEF Answers
    <3> QED
      BY <3>2, AgentStepsAssumption DEF Answers
  <2>5. x \in CallRecords
    BY <1>c, <2>1, <2>4, <2>b, <2>x DEF CallRecords, SessionRecords, Running
  <2>6. call'[c] = x
    BY <1>c, <2>3, <2>x DEF CallRecords
  <2>7. DOMAIN call' = Calls /\ \A d \in Calls \ {c} : call'[d] = call[d]
    BY <1>c, <2>3
  <2>8. call' \in [Calls -> CallRecords]
    BY <1>c, <2>3, <2>5, <2>6, <2>7
  <2>9. /\ x.job = call[c].job /\ x.step = n.count /\ x.life = n.life
        /\ x.pc = "prompt" \/ (x.pc = "store" /\ x.answer # None)
    BY <2>x, <2>4
  <2>10. Becomes(c, x)
    BY <2>6, <2>7, <2>8 DEF Becomes
  <2> QED
    BY <1>1, <2>s, <2>1, <2>2, <2>5, <2>9, <2>10
<1> QED
  BY <1>2, <1>3

Small(c) ==
    \/ RateLimited(c) \/ Arrive(c) \/ GenerationFails(c) \/ GenerationWaits(c)
    \/ SetSummary(c) \/ Reset(c) \/ Respond(c)

\* Actions that leave the call of everyone else, and where they bring theirs.
LEMMA EveryStep ==
    ASSUME AgentTypeOK, NEW c \in Calls,
           Small(c) \/ RunJob(c) \/ Hint(c) \/ GenerationEnds(c) \/ BeginStep(c)
    PROVE  \E x \in CallRecords :
             /\ Becomes(c, x)
             /\ x.pc \in {"prompt", "summary", "reset"} => session[c] \in Sessions
<1>0. call[c].answer \in Answers \cup {None} /\ stored[IdOf[c]] \in Answers \cup {None}
      /\ session[c] \in Sessions \cup {None}
  BY CallFields DEF AgentTypeOK
<1>1. CASE Small(c)
  <2>1. \A pc \in (Running \ {"prompt", "summary"}) \cup Ended, answer \in Answers \cup {None} :
          /\ At(c, pc, answer) \in CallRecords /\ Left(pc, answer) \in CallRecords
          /\ At(c, pc, answer).pc = pc /\ Left(pc, answer).pc = pc
    BY RecordTypes DEF At, Left
  <2>2. SetSummary(c) \/ Reset(c) => session[c] \in Sessions
    BY DEF SetSummary, Reset, AgentTypeOK
  <2> QED
    BY <1>0, <1>1, <2>1, <2>2, SmallSteps DEF Small, Running, Ended
<1>2. CASE RunJob(c) \/ Hint(c) \/ GenerationEnds(c)
  BY <1>0, <1>2, ServiceSteps
<1>3. CASE BeginStep(c)
  <2>1. At(c, "generate", call[c].answer) \in CallRecords /\ At(c, "generate", call[c].answer).pc = "generate"
    BY <1>0, RecordTypes DEF At, Running
  <2> QED
    BY <1>3, <2>1, BeginSteps
<1> QED
  BY <1>1, <1>2, <1>3

LEMMA AgentTypeInductive ==
    ASSUME AgentTypeOK, [AgentNext]_vars
    PROVE  AgentTypeOK'
<1>1. session' = session
  BY DEF AgentNext, vars
<1>2. ASSUME NEW c \in Calls,
             Small(c) \/ RunJob(c) \/ Hint(c) \/ GenerationEnds(c) \/ BeginStep(c)
      PROVE  AgentTypeOK'
  <2>1. /\ call' \in [Calls -> CallRecords]
        /\ \A d \in Calls : call'[d].pc \in {"prompt", "summary", "reset"} => session[d] \in Sessions
    BY <1>2, EveryStep DEF Becomes, AgentTypeOK
  <2>2. /\ sess' \in [Sessions -> SessionRecords \cup {None}]
        /\ lives' \in [Sessions -> Nat] /\ gens' \in [Sessions -> Nat]
        /\ runs' \in [Ids -> Nat]
    <3>1. CASE BeginStep(c)
      <4>1. runs' \in [Ids -> Nat]
        BY <3>1, BeginSteps, CallFields DEF AgentTypeOK
      <4>2. CASE UNCHANGED <<sess, lives, gens>>
        BY <4>1, <4>2 DEF AgentTypeOK
      <4>3. CASE ~UNCHANGED <<sess, lives, gens>>
        <5>1. PICK n \in SessionRecords, x \in CallRecords :
                 /\ session[c] \in Sessions
                 /\ sess' = [sess EXCEPT ![session[c]] = n]
                 /\ lives' = [lives EXCEPT ![session[c]] = n.life]
                 /\ gens' = [gens EXCEPT ![session[c]] =
                                 (IF sess[session[c]] = None THEN 0 ELSE gens[session[c]])
                                 + (IF n.count > MaxSteps THEN 0 ELSE 1)]
          BY <3>1, <4>3, BeginSteps
        <5>2. n.life \in Nat /\ gens[session[c]] \in Nat
          BY <5>1 DEF SessionRecords, AgentTypeOK
        <5>3. /\ sess' \in [Sessions -> SessionRecords \cup {None}]
              /\ lives' \in [Sessions -> Nat]
          BY <5>1, <5>2 DEF AgentTypeOK
        <5>4. (IF sess[session[c]] = None THEN 0 ELSE gens[session[c]])
                                 + (IF n.count > MaxSteps THEN 0 ELSE 1) \in Nat
          BY <5>2
        <5>5. gens' \in [Sessions -> Nat]
          BY <5>1, <5>4 DEF AgentTypeOK
        <5> QED
          BY <4>1, <5>3, <5>5
      <4> QED
        BY <4>2, <4>3
    <3>2. CASE SetSummary(c)
      <4>1. UNCHANGED <<lives, gens, runs>> /\ session[c] \in Sessions
        BY <3>2 DEF SetSummary, history, AgentTypeOK
      <4>2. CASE sess[session[c]] = None
        BY <3>2, <4>1, <4>2 DEF SetSummary, AgentTypeOK
      <4>3. CASE sess[session[c]] # None
        <5>1. PICK y : y = [by |-> call[c].life]
          OBVIOUS
        <5>2. y \in [by : Nat] /\ sess[session[c]] \in SessionRecords
          BY <4>1, <4>3, <5>1, CallFields DEF AgentTypeOK
        <5>3. sess' = [sess EXCEPT ![session[c]] = [sess[session[c]] EXCEPT !.summary = y]]
          BY <3>2, <4>3, <5>1 DEF SetSummary
        <5>4. PICK z : z = [sess[session[c]] EXCEPT !.summary = y]
          OBVIOUS
        <5>5. z \in SessionRecords
          BY <5>2, <5>4 DEF SessionRecords
        <5> QED
          BY <4>1, <5>3, <5>4, <5>5 DEF AgentTypeOK
      <4> QED
        BY <4>2, <4>3
    <3>3. CASE Reset(c)
      BY <3>3 DEF Reset, Deleted, AgentTypeOK
    <3>4. CASE \/ RateLimited(c) \/ Arrive(c) \/ GenerationFails(c) \/ GenerationWaits(c)
               \/ Respond(c) \/ RunJob(c) \/ Hint(c) \/ GenerationEnds(c)
      <4>1. UNCHANGED <<sess, lives, gens, runs>>
        BY <3>4 DEF RateLimited, Arrive, GenerationFails, GenerationWaits, Respond, RunJob, Hint,
                    GenerationEnds, history
      <4> QED
        BY <4>1 DEF AgentTypeOK
    <3> QED
      BY <1>2, <3>1, <3>2, <3>3, <3>4 DEF Small
  <2>3. stored' \in [Ids -> Answers \cup {None}]
    <3>1. CASE Respond(c)
      BY <3>1, CallFields DEF Respond, Remembers, AgentTypeOK
    <3>2. CASE ~Respond(c)
      <4>1. stored' = stored
        BY <1>2, <3>2 DEF Small, RateLimited, Arrive, GenerationFails, GenerationWaits, SetSummary, Reset,
           RunJob, Hint, GenerationEnds, BeginStep
      <4> QED
        BY <4>1 DEF AgentTypeOK
    <3> QED
      BY <3>1, <3>2
  <2> QED
    BY <1>1, <2>1, <2>2, <2>3 DEF AgentTypeOK
<1>3. CASE (\E k \in Ids : Forget(k)) \/ Tick \/ Rest \/ UNCHANGED vars
  <2>1. UNCHANGED <<call, sess, lives, gens, runs, session>>
    BY <1>1, <1>3 DEF Forget, Tick, Rest, vars, history
  <2>2. stored' \in [Ids -> Answers \cup {None}]
    BY <1>3 DEF Forget, Tick, Rest, vars, AgentTypeOK
  <2> QED
    BY <2>1, <2>2 DEF AgentTypeOK
<1> QED
  BY <1>2, <1>3 DEF AgentNext, Small

\* The step of a call concerns only its own id.
LEMMA OtherIds ==
    ASSUME NEW k \in Ids, Once(k), NEW c \in Calls, NEW x, Becomes(c, x), IdOf[c] # k,
           stored'[k] = stored[k], runs'[k] = runs[k]
    PROVE  Once(k)'
BY DEF Once, Becomes

LEMMA OnceInductive ==
    ASSUME AgentTypeOK, OnceInv, [AgentNext]_vars
    PROVE  OnceInv'
<1> SUFFICES ASSUME NEW k \in Ids, k \notin excused' PROVE Once(k)'
  BY DEF OnceInv
<1>1. ASSUME NEW c \in Calls,
             Small(c) \/ RunJob(c) \/ Hint(c) \/ GenerationEnds(c) \/ BeginStep(c)
      PROVE  Once(k)'
  <2>1. Once(k)
    <3>1. excused \subseteq excused'
      BY <1>1 DEF Small, RateLimited, Arrive, GenerationFails, GenerationWaits, SetSummary, Reset,
         RunJob, Hint, GenerationEnds, BeginStep, Respond, history
    <3> QED
      BY <3>1 DEF OnceInv
  <2>2. CASE IdOf[c] # k
    <3>1. stored'[k] = stored[k] /\ runs'[k] = runs[k]
      BY <1>1, <2>2 DEF Small, RateLimited, Arrive, GenerationFails, GenerationWaits, SetSummary, Reset,
         RunJob, Hint, GenerationEnds, BeginStep, Respond, history, AgentTypeOK
    <3> QED
      BY <1>1, <2>1, <2>2, <3>1, EveryStep, OtherIds
  <2>3. CASE IdOf[c] = k
    <3> USE <2>3
    <3>0. call[c].pc # "queued" /\ ~call[c].job
      BY <2>1 DEF Once
    <3>1. CASE RateLimited(c)
      <4>1. /\ Becomes(c, At(c, "limited", call[c].answer)) /\ UNCHANGED <<stored, runs>>
            /\ call[c].pc = "new"
        BY <3>1, SmallSteps DEF RateLimited, history
      <4> QED
        BY <2>1, <4>1 DEF Once, Becomes, At, Running
    <3>2. CASE Arrive(c)
      <4>0. UNCHANGED <<stored, runs>> /\ call[c].pc = "new"
        BY <3>2 DEF Arrive
      <4>1. CASE stored[k] # None
        <5>1. Becomes(c, At(c, "answered", stored[k]))
          BY <3>2, <4>1, SmallSteps
        <5> QED
          BY <2>1, <4>0, <4>1, <5>1 DEF Once, Becomes, At, Running
      <4>2. CASE stored[k] = None /\ Becomes(c, At(c, "refused", call[c].answer))
        BY <2>1, <4>0, <4>2 DEF Once, Becomes, At, Running
      <4>3. CASE stored[k] = None /\ Becomes(c, At(c, "begin", call[c].answer))
        <5>1. excused' = IF \E d \in Calls \ {c} : IdOf[d] = k /\ call[d].pc \in Running
                         THEN excused \cup {k} ELSE excused
          <6>1. call'[c].pc = "begin"
            BY <4>3 DEF Becomes, At
          <6>2. ~(call' = [call EXCEPT ![c].pc = "refused"])
            <7> SUFFICES ASSUME call' = [call EXCEPT ![c].pc = "refused"] PROVE FALSE
              OBVIOUS
            <7> QED
              BY <6>1 DEF AgentTypeOK, CallRecords
          <6> QED
            BY <3>2, <4>3, <6>2 DEF Arrive
        <5>2. \A d \in Calls \ {c} : IdOf[d] = k => call[d].pc \notin Running
          BY <5>1
        <5>3. runs[k] = 0
          <6>1. call[c].pc \notin Running
            BY <4>0 DEF Running
          <6>2. runs[k] # 1 /\ runs[k] <= 1 /\ runs[k] \in Nat
            BY <2>1, <4>3, <5>2, <6>1 DEF Once, AgentTypeOK
          <6> QED
            BY <6>2
        <5> QED
          BY <2>1, <3>0, <4>0, <4>3, <5>2, <5>3 DEF Once, Becomes, At
      <4> QED
        BY <3>2, <4>1, <4>2, <4>3, SmallSteps
    <3>3. CASE BeginStep(c)
      <4>1. PICK x \in CallRecords :
              /\ Becomes(c, x) /\ x.job = call[c].job
              /\ x.pc \in {"generate", "prompt"} \/ (x.pc = "store" /\ x.answer # None)
        <5>1. At(c, "generate", call[c].answer) \in CallRecords
          BY RecordTypes, CallFields DEF Running
        <5> QED
          BY <3>3, <5>1, BeginSteps DEF At
      <4>2. call[c].pc = "begin" /\ stored' = stored /\ runs[k] = 0 /\ runs'[k] = 1 /\ stored[k] = None
        BY <2>1, <3>3 DEF BeginStep, Once, AgentTypeOK, Running
      <4>3. \A d \in Calls \ {c} : IdOf[d] = k => call[d].pc \notin Running
        BY <2>1, <4>2 DEF Once, Running
      <4>4. x.pc \in Running \ {"begin"} /\ x.pc # "queued"
        BY <4>1 DEF Running
      <4> QED
        BY <2>1, <3>0, <4>1, <4>2, <4>3, <4>4 DEF Once, Becomes, Running
    <3>4. CASE Hint(c) \/ GenerationEnds(c) \/ SetSummary(c) \/ Reset(c)
      <4>1. PICK x \in CallRecords :
              /\ Becomes(c, x) /\ x.job = call[c].job
              /\ \/ x.pc = "generate"
                 \/ x.pc \in {"summary", "reset", "store"} /\ x.answer # None
        <5>1. CASE Hint(c)
          BY <5>1, ServiceSteps
        <5>2. CASE GenerationEnds(c)
          BY <5>2, ServiceSteps, AgentStepsAssumption DEF Answers
        <5>3. CASE SetSummary(c) \/ Reset(c)
          <6>1. call[c].answer # None /\ call[c].answer \in Answers \cup {None}
            BY <2>1, <5>3, CallFields DEF Once, SetSummary, Reset
          <6>2. At(c, "store", call[c].answer) \in CallRecords /\ At(c, "reset", call[c].answer) \in CallRecords
            BY <6>1, RecordTypes DEF Running
          <6> QED
            BY <5>3, <6>1, <6>2, SmallSteps DEF At
        <5> QED
          BY <3>4, <5>1, <5>2, <5>3
      <4>2. UNCHANGED <<stored, runs>> /\ call[c].pc \in Running \ {"begin"}
        BY <3>4 DEF Hint, GenerationEnds, SetSummary, Reset, history, Running
      <4>3. x.pc \in Running \ {"begin", "queued"} /\ x.pc # "answered"
        BY <4>1 DEF Running
      <4>4. stored[k] = None /\ \A d \in Calls \ {c} : IdOf[d] = k => call[d].pc \notin Running
        BY <2>1, <4>2 DEF Once
      <4> QED
        BY <2>1, <3>0, <4>1, <4>2, <4>3, <4>4 DEF Once, Becomes
    <3>5. CASE Respond(c)
      <4>1. /\ Becomes(c, Left("answered", call[c].answer)) /\ runs' = runs
            /\ stored'[k] = call[c].answer
            /\ call[c].pc = "store" /\ call[c].answer # None
        <5>1. call[c].pc = "store" /\ call[c].answer # None
          BY <2>1, <3>5 DEF Once, Respond
        <5> QED
          BY <3>0, <3>5, <5>1, SmallSteps DEF Respond, Remembers, AgentTypeOK, history
      <4>2. stored[k] = None /\ \A d \in Calls \ {c} : IdOf[d] = k => call[d].pc \notin Running
        BY <2>1, <4>1 DEF Once, Running
      <4>3. \A d \in Calls : call'[d].pc = "answered" /\ IdOf[d] = k => d = c
        BY <2>1, <4>1, <4>2 DEF Once, Becomes
      <4> QED
        BY <2>1, <4>1, <4>2, <4>3 DEF Once, Becomes, Left, Running
    <3>6. CASE GenerationFails(c) \/ GenerationWaits(c) \/ RunJob(c)
      BY <3>0, <3>6 DEF GenerationFails, GenerationWaits, RunJob
    <3> QED
      BY <1>1, <3>1, <3>2, <3>3, <3>4, <3>5, <3>6 DEF Small
  <2> QED
    BY <2>2, <2>3
<1>2. CASE (\E j \in Ids : Forget(j)) \/ Tick \/ Rest \/ UNCHANGED vars
  <2>1. UNCHANGED <<call, runs>> /\ excused \subseteq excused' /\ stored'[k] = stored[k]
    <3>1. ASSUME NEW j \in Ids, Forget(j)
          PROVE  UNCHANGED <<call, runs>> /\ excused \subseteq excused' /\ stored'[k] = stored[k]
      BY <3>1 DEF Forget, AgentTypeOK
    <3>2. CASE Tick \/ Rest \/ UNCHANGED vars
      BY <3>2 DEF Tick, Rest, vars, history
    <3> QED
      BY <1>2, <3>1, <3>2
  <2> QED
    BY <2>1 DEF OnceInv, Once
<1> QED
  BY <1>1, <1>2 DEF AgentNext, Small

\* What a step of call c does to the sessions.
LEMMA SessionSteps ==
    ASSUME AgentTypeOK, NEW c \in Calls,
           Small(c) \/ RunJob(c) \/ Hint(c) \/ GenerationEnds(c) \/ BeginStep(c),
           NEW s \in Sessions
    PROVE  /\ crossed \subseteq crossed'
           /\ \/ /\ BeginStep(c) \/ Reset(c)
                 /\ s = session[c] /\ crossed' = crossed \cup Crossing(c)
              \/ /\ SetSummary(c) /\ s = session[c] /\ gens'[s] = gens[s]
                 /\ sess[s] = None => sess'[s] = None
                 /\ sess[s] # None =>
                      /\ sess'[s] # None
                      /\ sess'[s].life = sess[s].life
                      /\ sess'[s].count = sess[s].count
                      /\ sess'[s].summary.by = call[c].life
              \/ sess'[s] = sess[s] /\ gens'[s] = gens[s]
<1>1. CASE BeginStep(c)
  <2>1. CASE session[c] = None
    BY <1>1, <2>1, BeginSteps, AgentStepsAssumption
  <2>2. CASE session[c] # None
    <3>1. PICK n \in SessionRecords :
            /\ session[c] \in Sessions
            /\ sess' = [sess EXCEPT ![session[c]] = n]
            /\ gens' = [gens EXCEPT ![session[c]] =
                             (IF sess[session[c]] = None THEN 0 ELSE gens[session[c]])
                             + (IF n.count > MaxSteps THEN 0 ELSE 1)]
            /\ crossed' = crossed \cup Crossing(c)
      BY <1>1, <2>2, BeginSteps
    <3>2. s # session[c] => sess'[s] = sess[s] /\ gens'[s] = gens[s]
      BY <3>1 DEF AgentTypeOK
    <3> QED
      BY <1>1, <3>1, <3>2
  <2> QED
    BY <2>1, <2>2
<1>2. CASE Reset(c)
  BY <1>2 DEF Reset, Deleted, AgentTypeOK
<1>3. CASE SetSummary(c)
  <2>1. /\ UNCHANGED <<gens, crossed>> /\ session[c] \in Sessions
        /\ \A r \in Sessions \ {session[c]} : sess'[r] = sess[r]
        /\ sess[session[c]] = None => sess' = sess
    BY <1>3 DEF SetSummary, history, AgentTypeOK
  <2>2. CASE s = session[c] /\ sess[s] # None
    <3>1. PICK y : y = [by |-> call[c].life]
      OBVIOUS
    <3>2. y.by = call[c].life /\ sess[s] \in SessionRecords /\ y \in [by : Nat]
      BY <2>2, <3>1, CallFields DEF AgentTypeOK
    <3>3. sess' = [sess EXCEPT ![s] = [sess[s] EXCEPT !.summary = y]]
      BY <1>3, <2>2, <3>1 DEF SetSummary
    <3>4. PICK z : z = [sess[s] EXCEPT !.summary = y]
      OBVIOUS
    <3>5. z \in SessionRecords /\ z.life = sess[s].life /\ z.count = sess[s].count /\ z.summary = y
      BY <3>2, <3>4 DEF SessionRecords
    <3>6. z # None
      BY <3>5, AgentStepsAssumption DEF SessionRecords
    <3>7. sess'[s] = z
      BY <3>3, <3>4 DEF AgentTypeOK
    <3> QED
      BY <1>3, <2>1, <2>2, <3>2, <3>5, <3>6, <3>7
  <2> QED
    BY <1>3, <2>1, <2>2
<1>4. CASE \/ RateLimited(c) \/ Arrive(c) \/ GenerationFails(c) \/ GenerationWaits(c)
           \/ Respond(c) \/ RunJob(c) \/ Hint(c) \/ GenerationEnds(c)
  BY <1>4 DEF RateLimited, Arrive, GenerationFails, GenerationWaits, Respond, RunJob, Hint,
              GenerationEnds, history
<1> QED
  BY <1>1, <1>2, <1>3, <1>4 DEF Small

LEMMA OwnInductive ==
    ASSUME AgentTypeOK, OwnInv, [AgentNext]_vars
    PROVE  OwnInv'
<1>0. session' = session
  BY DEF AgentNext, vars
<1>1. ASSUME NEW c \in Calls,
             Small(c) \/ RunJob(c) \/ Hint(c) \/ GenerationEnds(c) \/ BeginStep(c)
      PROVE  OwnInv'
  <2>1. \A d \in Calls \ {c} : call'[d] = call[d]
    BY <1>1, EveryStep DEF Becomes
  <2>2. crossed \subseteq crossed'
    BY <1>1 DEF Small, RateLimited, Arrive, GenerationFails, GenerationWaits, SetSummary, Reset,
       RunJob, Hint, GenerationEnds, BeginStep, Respond, history
  <2>3. ASSUME NEW d \in Calls \ {c} PROVE Own(d)'
    <3> SUFFICES ASSUME d \notin crossed', session[d] # None,
                        call[d].pc \in {"prompt", "generate", "summary", "reset"}
                 PROVE  /\ sess'[session[d]] # None
                        /\ sess'[session[d]].life = call[d].life
                        /\ sess'[session[d]].count = call[d].step
                        /\ call[d].pc # "prompt" => call[d].hint = call[d].step
      BY <1>0, <2>1 DEF Own
    <3>s. PICK s \in Sessions : s = session[d]
      BY DEF AgentTypeOK
    <3>1. /\ sess[s] # None /\ sess[s].life = call[d].life /\ sess[s].count = call[d].step
          /\ call[d].pc # "prompt" => call[d].hint = call[d].step
      BY <2>2, <3>s DEF OwnInv, Own
    <3>2. s = session[c] => d \in Crossing(c)
      BY <3>s, AgentStepsAssumption DEF Crossing, InSession, Running
    <3>3. ~(s = session[c] /\ crossed' = crossed \cup Crossing(c))
      BY <3>2
    <3>4. \/ sess'[s] = sess[s]
          \/ sess'[s] # None /\ sess'[s].life = sess[s].life /\ sess'[s].count = sess[s].count
      BY <1>1, <3>1, <3>3, SessionSteps
    <3> QED
      BY <3>s, <3>1, <3>4
  <2>4. Own(c)'
    <3> SUFFICES ASSUME c \notin crossed', session[c] # None,
                        call'[c].pc \in {"prompt", "generate", "summary", "reset"}
                 PROVE  /\ sess'[session[c]] # None
                        /\ sess'[session[c]].life = call'[c].life
                        /\ sess'[session[c]].count = call'[c].step
                        /\ call'[c].pc # "prompt" => call'[c].hint = call'[c].step
      BY <1>0 DEF Own
    <3>s. PICK s \in Sessions : s = session[c]
      BY DEF AgentTypeOK
    <3>1. CASE BeginStep(c)
      <4>1. PICK n \in SessionRecords, x \in CallRecords :
              /\ sess' = [sess EXCEPT ![s] = n]
              /\ Becomes(c, x) /\ x.step = n.count /\ x.life = n.life
              /\ x.pc = "prompt" \/ (x.pc = "store" /\ x.answer # None)
        BY <3>1, <3>s, BeginSteps
      <4>2. n # None /\ sess'[s] = n
        BY <4>1, AgentStepsAssumption DEF SessionRecords, AgentTypeOK
      <4> QED
        BY <3>s, <4>1, <4>2 DEF Becomes
    <3>2. CASE Hint(c)
      <4>1. PICK x \in CallRecords :
                /\ Becomes(c, x) /\ x.pc = "generate"
                /\ x.hint = ContextHint(session[c])
                /\ x.step = call[c].step /\ x.life = call[c].life
        BY <3>2, ServiceSteps
      <4>2. /\ sess[s] # None /\ sess[s].life = call[c].life /\ sess[s].count = call[c].step
            /\ sess' = sess
        BY <2>2, <3>2, <3>s DEF OwnInv, Own, Hint
      <4> QED
        BY <3>s, <4>1, <4>2 DEF Becomes, ContextHint
    <3>3. CASE GenerationEnds(c)
      <4>1. PICK x \in CallRecords :
                /\ Becomes(c, x)
                /\ x.hint = call[c].hint /\ x.step = call[c].step /\ x.life = call[c].life
        BY <3>3, ServiceSteps
      <4>2. /\ sess[s] # None /\ sess[s].life = call[c].life /\ sess[s].count = call[c].step
            /\ call[c].hint = call[c].step /\ sess' = sess
        BY <2>2, <3>3, <3>s DEF OwnInv, Own, GenerationEnds
      <4> QED
        BY <3>s, <4>1, <4>2 DEF Becomes
    <3>4. CASE SetSummary(c)
      <4>1. /\ call'[c].hint = call[c].hint /\ call'[c].step = call[c].step
            /\ call'[c].life = call[c].life
        <5>1. PICK pc : Becomes(c, At(c, pc, call[c].answer))
          BY <3>4, SmallSteps
        <5> QED
          BY <5>1 DEF Becomes, At
      <4>2. /\ sess[s] # None /\ sess[s].life = call[c].life /\ sess[s].count = call[c].step
            /\ call[c].hint = call[c].step
        BY <2>2, <3>4, <3>s DEF OwnInv, Own, SetSummary
      <4>3. \/ sess'[s] = sess[s]
            \/ sess'[s] # None /\ sess'[s].life = sess[s].life /\ sess'[s].count = sess[s].count
        <5>1. ~BeginStep(c) /\ ~Reset(c)
          BY <3>4 DEF SetSummary, BeginStep, Reset
        <5> QED
          BY <1>1, <4>2, <5>1, SessionSteps
      <4> QED
        BY <3>s, <4>1, <4>2, <4>3
    <3>5. CASE \/ RateLimited(c) \/ Arrive(c) \/ GenerationFails(c) \/ GenerationWaits(c)
               \/ Reset(c) \/ Respond(c) \/ RunJob(c)
      <4>1. call'[c].pc \notin {"prompt", "generate", "summary", "reset"}
        <5>1. CASE RunJob(c)
          BY <5>1, ServiceSteps DEF Becomes
        <5>2. CASE ~RunJob(c)
          <6>1. PICK pc, answer :
                  /\ pc \in {"limited", "answered", "refused", "begin", "failed", "queued", "store"}
                  /\ Becomes(c, At(c, pc, answer)) \/ Becomes(c, Left(pc, answer))
            BY <3>5, <5>2, SmallSteps
          <6> QED
            BY <6>1 DEF Becomes, At, Left
        <5> QED
          BY <5>1, <5>2
      <4> QED
        BY <4>1
    <3> QED
      BY <1>1, <3>1, <3>2, <3>3, <3>4, <3>5 DEF Small
  <2>5. ASSUME NEW s \in Sessions PROVE SessionKept(s)'
    <3>0. SessionKept(s) /\ MaxSteps \in Nat \ {0}
      BY AgentStepsAssumption DEF OwnInv
    <3>1. CASE sess'[s] = sess[s] /\ gens'[s] = gens[s]
      BY <1>0, <2>2, <3>0, <3>1 DEF SessionKept
    <3>2. CASE BeginStep(c) /\ s = session[c]
      <4>1. PICK n \in SessionRecords :
              /\ IF sess[s] = None
                 THEN n.count = 1 /\ n.summary = None
                 ELSE /\ n.count = sess[s].count + 1
                      /\ n.summary = sess[s].summary
                      /\ n.life = sess[s].life
              /\ sess' = [sess EXCEPT ![s] = n]
              /\ gens' = [gens EXCEPT ![s] = (IF sess[s] = None THEN 0 ELSE gens[s])
                                               + (IF n.count > MaxSteps THEN 0 ELSE 1)]
        <5>1. session[c] # None
          BY <3>2, AgentStepsAssumption
        <5> QED
          BY <3>2, <5>1, BeginSteps
      <4>2. /\ sess'[s] = n
            /\ gens'[s] = (IF sess[s] = None THEN 0 ELSE gens[s]) + (IF n.count > MaxSteps THEN 0 ELSE 1)
        BY <4>1 DEF AgentTypeOK
      <4>3. gens[s] \in Nat /\ n.count \in Nat
        BY <4>1 DEF AgentTypeOK, SessionRecords
      <4>4. CASE sess[s] = None
        <5>1. gens'[s] = 1 /\ n.count = 1 /\ n.summary = None
          BY <3>0, <4>1, <4>2, <4>4
        <5> QED
          BY <3>0, <4>2, <5>1 DEF SessionKept
      <4>5. CASE sess[s] # None
        <5>1. sess[s].count \in Nat /\ gens[s] <= sess[s].count /\ gens[s] <= MaxSteps
          BY <3>0, <4>5 DEF SessionKept, AgentTypeOK, SessionRecords
        <5>2. gens'[s] <= n.count /\ gens'[s] <= MaxSteps
          BY <3>0, <4>1, <4>2, <4>3, <4>5, <5>1
        <5>3. \/ n.summary = None
              \/ n.summary.by = n.life
              \/ \E d \in crossed' : session'[d] = s
          BY <1>0, <2>2, <3>0, <4>1, <4>5 DEF SessionKept
        <5> QED
          BY <4>2, <5>2, <5>3 DEF SessionKept
      <4> QED
        BY <4>4, <4>5
    <3>3. CASE Reset(c) /\ s = session[c]
      <4>1. sess'[s] = None /\ gens'[s] = gens[s]
        BY <3>3 DEF Reset, Deleted, AgentTypeOK
      <4> QED
        BY <3>0, <4>1 DEF SessionKept
    <3>4. CASE /\ SetSummary(c) /\ s = session[c] /\ gens'[s] = gens[s]
               /\ sess[s] # None /\ sess'[s] # None
               /\ sess'[s].life = sess[s].life /\ sess'[s].count = sess[s].count
               /\ sess'[s].summary.by = call[c].life
      <4>1. c \notin crossed => sess[s].life = call[c].life
        BY <3>4, AgentStepsAssumption DEF OwnInv, Own, SetSummary
      <4> QED
        BY <1>0, <2>2, <3>0, <3>4, <4>1 DEF SessionKept
    <3> QED
      BY <1>1, <3>1, <3>2, <3>3, <3>4, SessionSteps
  <2> QED
    BY <2>3, <2>4, <2>5 DEF OwnInv
<1>2. CASE (\E j \in Ids : Forget(j)) \/ Tick \/ Rest \/ UNCHANGED vars
  <2>1. UNCHANGED <<call, sess, gens, crossed>>
    BY <1>2 DEF Forget, Tick, Rest, vars, history
  <2> QED
    BY <1>0, <2>1 DEF OwnInv, Own, SessionKept
<1> QED
  BY <1>1, <1>2 DEF AgentNext, Small

LEMMA AgentInvariant == AgentSpec => [](AgentTypeOK /\ OnceInv /\ OwnInv)
<1>1. Init => AgentTypeOK
  <2> SUFFICES ASSUME Init PROVE AgentTypeOK
    OBVIOUS
  <2>1. NewCall \in CallRecords /\ NewCall.pc = "new"
    BY DEF NewCall, CallRecords
  <2> QED
    BY <2>1 DEF Init, AgentTypeOK
<1>2. Init => OnceInv /\ OwnInv
  <2> SUFFICES ASSUME Init PROVE OnceInv /\ OwnInv
    OBVIOUS
  <2>1. \A c \in Calls : call[c].pc = "new" /\ ~call[c].job
    BY DEF Init, NewCall
  <2>2. OnceInv
    BY <2>1 DEF Init, OnceInv, Once, Running
  <2>3. OwnInv
    BY <2>1, AgentStepsAssumption DEF Init, OwnInv, Own, SessionKept
  <2> QED
    BY <2>2, <2>3
<1>3. AgentTypeOK /\ OnceInv /\ OwnInv /\ [AgentNext]_vars => (AgentTypeOK /\ OnceInv /\ OwnInv)'
  BY AgentTypeInductive, OnceInductive, OwnInductive
<1> QED
  BY <1>1, <1>2, <1>3, PTL DEF AgentSpec

\* A step is executed again only if it failed, became a job, was forgotten by the
\* idempotency store or was sent while it ran; whoever repeats it after the answer is
\* given that answer (handleAgentStep, internal/delivery/agent.go).
THEOREM StepsRunOnce == AgentSpec => []StepsOnce
<1>1. AgentTypeOK /\ OnceInv => StepsOnce
  BY DEF OnceInv, Once, StepsOnce
<1> QED
  BY <1>1, AgentInvariant, PTL

\* Between BeginStep and Reset a session tells the model the step it counted and keeps
\* a summary of its own, unless two requests' steps cross; it never allows more than
\* MaxSteps generations (internal/service/agent.go, agent_session.go).
THEOREM SessionsStayApart == AgentSpec => []SessionsApart
<1>1. AgentTypeOK /\ OwnInv => SessionsApart
  BY DEF OwnInv, Own, SessionKept, SessionsApart
<1> QED
  BY <1>1, AgentInvariant, PTL

-----------------------------------------------------------------------------
(* Folds.  The library's FoldLeft is a recursive function on the sets of   *)
(* places of a sequence; for an operation that keeps a set of values it    *)
(* goes through the sequence from the first place to the last.             *)

LEMMA SmallestOne ==
    ASSUME NEW T \in SUBSET Nat, T # {}
    PROVE  \E n \in T : \A m \in T : n <= m
<1>1. IsWellFoundedOn(OpToRel(<, Nat), Nat)
  BY NatLessThanWellFounded
<1>2. PICK x \in T : \A y \in T : ~ (<<y, x>> \in OpToRel(<, Nat))
  BY <1>1, WFMin
<1>3. \A y \in T : ~(y < x) /\ y \in Nat /\ x \in Nat
  BY <1>2 DEF OpToRel
<1> QED
  BY <1>3

\* A set that has 0 and with a number the next one, up to L, has them all.
LEMMA AllUpTo ==
    ASSUME NEW L \in Nat, NEW T, 0 \in T, \A n \in 1..L : n - 1 \in T => n \in T
    PROVE  \A n \in 0..L : n \in T
<1> SUFFICES ASSUME NEW l \in 0..L, l \notin T PROVE FALSE
  OBVIOUS
<1> DEFINE U == {n \in 0..L : n \notin T}
<1>1. U \in SUBSET Nat /\ U # {}
  OBVIOUS
<1>2. PICK n \in U : \A m \in U : n <= m
  BY <1>1, SmallestOne
<1>3. n \in 1..L /\ n - 1 \in 0..L
  BY <1>2
<1>4. n - 1 \in T
  BY <1>2, <1>3
<1> QED
  BY <1>2, <1>3, <1>4

LEMMA GreatestOf ==
    ASSUME NEW L \in Nat, NEW S \in SUBSET (0..L), S # {}
    PROVE  Max(S) \in S /\ \A y \in S : Max(S) >= y
<1> DEFINE T == {L - x : x \in S}
<1>1. T \in SUBSET Nat /\ T # {}
  <2>1. \A x \in S : L - x \in Nat
    OBVIOUS
  <2>2. PICK x \in S : TRUE
    OBVIOUS
  <2>3. L - x \in T
    BY <2>2
  <2> QED
    BY <2>1, <2>3
<1>2. PICK n \in T : \A m \in T : n <= m
  BY <1>1, SmallestOne
<1>3. PICK x \in S : n = L - x
  BY <1>2
<1>4. \A y \in S : x >= y
  <2> SUFFICES ASSUME NEW y \in S PROVE x >= y
    OBVIOUS
  <2>1. n <= L - y
    BY <1>2
  <2>2. x \in Nat /\ y \in Nat /\ n = L - x
    BY <1>3
  <2> HIDE DEF T
  <2> QED
    BY <2>1, <2>2
<1> HIDE DEF T
<1>5. \E z \in S : \A y \in S : z >= y
  BY <1>4
<1> QED
  BY <1>5 DEF Max

\* The last place of a set of places, and the set of all of them.
LEMMA LastPlace ==
    ASSUME NEW L \in Nat, NEW s \in SUBSET (1..L)
    PROVE  /\ s # {} => Max(s) \in s /\ s \ {Max(s)} \in SUBSET (1..L)
           /\ L \in s => Max(s) = L
<1>1. s # {} => Max(s) \in s /\ \A y \in s : Max(s) >= y
  <2>1. s \in SUBSET (0..L)
    OBVIOUS
  <2> QED
    BY <2>1, GreatestOf
<1>2. ASSUME L \in s PROVE Max(s) = L
  <2>1. Max(s) \in 1..L /\ Max(s) >= L
    BY <1>1, <1>2
  <2> QED
    BY <2>1
<1> QED
  BY <1>1, <1>2

\* F folds the first L values of seq, from base on; its values are in S.
Foldable(S, T, F, base, seq, L) ==
    /\ F \in [S \X T -> S] /\ base \in S
    /\ L \in Nat /\ \A i \in 1..L : seq[i] \in T

\* g[s] is what the values of seq at the places s come to.
FoldsBy(F, base, seq, g, L) ==
    /\ g[{}] = base
    /\ \A s \in SUBSET (1..L) : s # {} => g[s] = F[<<g[s \ {Max(s)}], seq[Max(s)]>>]

LEMMA FoldExists ==
    ASSUME NEW S, NEW T, NEW F, NEW base, NEW seq, NEW L, Foldable(S, T, F, base, seq, L)
    PROVE  \E g \in [SUBSET (1..L) -> S] : FoldsBy(F, base, seq, g, L)
<1>0. /\ F \in [S \X T -> S] /\ base \in S
      /\ L \in Nat /\ \A i \in 1..L : seq[i] \in T
  BY DEF Foldable
<1> DEFINE A == {l \in Nat : l <= L => \E g \in [SUBSET (1..l) -> S] : FoldsBy(F, base, seq, g, l)}
<1>1. 0 \in A
  <2>1. PICK g \in [SUBSET (1..0) -> S] : g = [s \in SUBSET (1..0) |-> base]
    BY <1>0
  <2>2. \A s \in SUBSET (1..0) : s = {}
    OBVIOUS
  <2>3. FoldsBy(F, base, seq, g, 0)
    BY <2>1, <2>2 DEF FoldsBy
  <2> QED
    BY <2>3
<1>2. ASSUME NEW l \in 1..L, l - 1 \in A PROVE l \in A
  <2>l. l \in Nat /\ l - 1 \in Nat /\ l - 1 <= L /\ l \in 1..l
    BY <1>0
  <2>g. PICK g \in [SUBSET (1..(l - 1)) -> S] : FoldsBy(F, base, seq, g, l - 1)
    BY <1>2, <2>l
  <2>1. \A s \in SUBSET (1..l) : s \ {l} \in SUBSET (1..(l - 1))
    BY <2>l
  <2>2. \A s \in SUBSET (1..l) : l \notin s => s \in SUBSET (1..(l - 1))
    BY <2>l
  <2>3. seq[l] \in T
    BY <1>0
  <2>4. \A s \in SUBSET (1..l) : F[<<g[s \ {l}], seq[l]>>] \in S
    BY <1>0, <2>1, <2>3
  <2>h. PICK h \in [SUBSET (1..l) -> S] :
          h = [s \in SUBSET (1..l) |-> IF l \in s THEN F[<<g[s \ {l}], seq[l]>>] ELSE g[s]]
    BY <2>2, <2>4, <2>g
  <2>5. FoldsBy(F, base, seq, h, l)
    <3>1. h[{}] = base
      BY <2>h, <2>g DEF FoldsBy
    <3>2. ASSUME NEW s \in SUBSET (1..l), s # {}
          PROVE  h[s] = F[<<h[s \ {Max(s)}], seq[Max(s)]>>]
      <4>1. CASE l \in s
        <5>1. Max(s) = l
          BY <4>1, <2>l, LastPlace
        <5>2. s \ {l} \in SUBSET (1..l) /\ l \notin s \ {l}
          OBVIOUS
        <5>3. h[s \ {l}] = g[s \ {l}]
          BY <2>h, <5>2
        <5>4. h[s] = F[<<g[s \ {l}], seq[l]>>]
          BY <2>h, <4>1
        <5> QED
          BY <5>1, <5>3, <5>4
      <4>2. CASE l \notin s
        <5>1. s \in SUBSET (1..(l - 1))
          BY <2>2, <4>2
        <5>2. Max(s) \in s /\ s \ {Max(s)} \in SUBSET (1..l) /\ l \notin s \ {Max(s)}
          BY <3>2, <4>2, <2>l, LastPlace
        <5>3. h[s] = g[s] /\ h[s \ {Max(s)}] = g[s \ {Max(s)}]
          BY <2>h, <4>2, <5>2
        <5>4. g[s] = F[<<g[s \ {Max(s)}], seq[Max(s)]>>]
          BY <2>g, <3>2, <5>1 DEF FoldsBy
        <5> QED
          BY <5>3, <5>4
      <4> QED
        BY <4>1, <4>2
    <3> QED
      BY <3>1, <3>2 DEF FoldsBy
  <2> QED
    BY <2>l, <2>5
<1> HIDE DEF A
<1>3. L \in A
  <2>1. \A n \in 0..L : n \in A
    BY <1>0, <1>1, <1>2, AllUpTo
  <2> QED
    BY <1>0, <2>1
<1>4. L <= L
  BY <1>0
<1> QED
  BY <1>3, <1>4 DEF A

\* The same where the values are in S, and f[n] for the first n places.
FoldsTyped(S, F, base, seq, g, L) ==
    /\ g[{}] = base
    /\ \A s \in SUBSET (1..L) :
          s # {} /\ g[s \ {Max(s)}] \in S => g[s] = F[<<g[s \ {Max(s)}], seq[Max(s)]>>]

InOrder(S, F, base, seq, f, L) ==
    /\ f \in [0..L -> S]
    /\ f[0] = base
    /\ \A n \in 1..L : f[n] = F[<<f[n - 1], seq[n]>>]

LEMMA FoldsInOrder ==
    ASSUME NEW S, NEW T, NEW F, NEW base, NEW seq, NEW L, Foldable(S, T, F, base, seq, L),
           NEW g, FoldsTyped(S, F, base, seq, g, L)
    PROVE  \E f : InOrder(S, F, base, seq, f, L) /\ f[L] = g[1..L]
<1>0. /\ F \in [S \X T -> S] /\ base \in S
      /\ L \in Nat /\ \A i \in 1..L : seq[i] \in T
  BY DEF Foldable
<1>t. /\ g[{}] = base
      /\ \A s \in SUBSET (1..L) :
            s # {} /\ g[s \ {Max(s)}] \in S => g[s] = F[<<g[s \ {Max(s)}], seq[Max(s)]>>]
  BY DEF FoldsTyped
<1>1. g[1..0] = base
  <2>1. 1..0 = {}
    OBVIOUS
  <2> QED
    BY <1>t, <2>1
<1>2. ASSUME NEW n \in 1..L, g[1..(n - 1)] \in S
      PROVE  g[1..n] = F[<<g[1..(n - 1)], seq[n]>>] /\ g[1..n] \in S
  <2>1. n \in Nat /\ n \in 1..n
    BY <1>0
  <2>2. 1..n \in SUBSET (1..L) /\ 1..n # {} /\ 1..n \in SUBSET (1..n)
    BY <1>0, <2>1
  <2>3. Max(1..n) = n
    BY <2>1, <2>2, LastPlace
  <2>4. (1..n) \ {n} = 1..(n - 1)
    BY <2>1
  <2>5. g[1..n] = F[<<g[1..(n - 1)], seq[n]>>]
    BY <1>t, <1>2, <2>2, <2>3, <2>4
  <2>6. seq[n] \in T
    BY <1>0
  <2> QED
    BY <1>0, <1>2, <2>5, <2>6
<1> DEFINE A == {n \in Nat : g[1..n] \in S}
<1>3. 0 \in A
  BY <1>0, <1>1
<1>4. ASSUME NEW n \in 1..L, n - 1 \in A PROVE n \in A
  <2>1. g[1..(n - 1)] \in S /\ n \in Nat
    BY <1>0, <1>4
  <2> QED
    BY <1>2, <2>1
<1> HIDE DEF A
<1>5. \A n \in 0..L : n \in A
  BY <1>0, <1>3, <1>4, AllUpTo
<1>6. \A n \in 0..L : g[1..n] \in S
  BY <1>5 DEF A
<1>f. PICK f \in [0..L -> S] : f = [n \in 0..L |-> g[1..n]]
  BY <1>6
<1>7. ASSUME NEW n \in 1..L PROVE f[n] = F[<<f[n - 1], seq[n]>>]
  <2>1. n \in 0..L /\ n - 1 \in 0..L
    BY <1>0
  <2> QED
    BY <1>2, <1>6, <1>f, <2>1
<1>8. f[0] = base /\ f[L] = g[1..L]
  <2>1. 0 \in 0..L /\ L \in 0..L
    BY <1>0
  <2> QED
    BY <1>1, <1>f, <2>1
<1> QED
  BY <1>7, <1>8, <1>f DEF InOrder

-----------------------------------------------------------------------------
(* Sums.                                                                   *)

\* SumOf adds the numbers one by one.
LEMMA SumSteps ==
    ASSUME NEW L \in Nat, NEW ns, DOMAIN ns = 1..L, \A i \in 1..L : ns[i] \in Int
    PROVE  \E f \in [0..L -> Int] : /\ f[0] = 0
                                    /\ \A n \in 1..L : f[n] = f[n - 1] + ns[n]
                                    /\ SumOf(ns) = f[L]
<1>F. PICK F : F = [p \in Int \X Int |-> p[1] + p[2]]
  OBVIOUS
<1>F1. \A a, b \in Int : F[<<a, b>>] = a + b
  BY <1>F
<1>F2. Foldable(Int, Int, F, 0, ns, L)
  <2>1. \A p \in Int \X Int : p[1] + p[2] \in Int
    OBVIOUS
  <2>2. F \in [Int \X Int -> Int]
    BY <1>F, <2>1
  <2> QED
    BY <2>2 DEF Foldable
<1>g. PICK g \in [SUBSET (1..L) -> Int] : FoldsBy(F, 0, ns, g, L)
  BY <1>F2, FoldExists
<1> DEFINE Folds(h) == h = [s \in SUBSET (1..L) |-> IF s = {} THEN 0 ELSE h[s \ {Max(s)}] + ns[Max(s)]]
           iter == CHOOSE h : Folds(h)
<1>1. SumOf(ns) = iter[1..L]
  BY DEF SumOf, FoldLeft, MapThenFoldSet
<1>2. ASSUME NEW s \in SUBSET (1..L), s # {}
      PROVE  s \ {Max(s)} \in SUBSET (1..L) /\ ns[Max(s)] \in Int
  BY <1>2, LastPlace
<1>3. Folds(g)
  <2>1. ASSUME NEW s \in SUBSET (1..L), s # {} PROVE g[s] = g[s \ {Max(s)}] + ns[Max(s)]
    <3>1. g[s] = F[<<g[s \ {Max(s)}], ns[Max(s)]>>]
      BY <1>g, <2>1 DEF FoldsBy
    <3>2. g[s \ {Max(s)}] \in Int
      BY <1>2, <2>1
    <3> QED
      BY <1>2, <1>F1, <2>1, <3>1, <3>2
  <2>2. g[{}] = 0
    BY <1>g DEF FoldsBy
  <2> QED
    BY <2>1, <2>2
<1>4. Folds(iter)
  <2> HIDE DEF Folds
  <2> QED
    BY <1>3
<1> HIDE DEF iter
<1>5. FoldsTyped(Int, F, 0, ns, iter, L)
  <2>1. iter[{}] = 0
    BY <1>4
  <2>2. ASSUME NEW s \in SUBSET (1..L), s # {}, iter[s \ {Max(s)}] \in Int
        PROVE  iter[s] = F[<<iter[s \ {Max(s)}], ns[Max(s)]>>]
    <3>1. iter[s] = iter[s \ {Max(s)}] + ns[Max(s)]
      BY <1>4, <2>2
    <3> QED
      BY <1>2, <2>2, <1>F1, <3>1
  <2> QED
    BY <2>1, <2>2 DEF FoldsTyped
<1>f. PICK f : InOrder(Int, F, 0, ns, f, L) /\ f[L] = iter[1..L]
  BY <1>F2, <1>5, FoldsInOrder
<1>6. f \in [0..L -> Int] /\ f[0] = 0 /\ \A n \in 1..L : f[n] = F[<<f[n - 1], ns[n]>>]
  BY <1>f DEF InOrder
<1>7. ASSUME NEW n \in 1..L PROVE f[n] = f[n - 1] + ns[n]
  <2>1. n - 1 \in 0..L
    OBVIOUS
  <2> QED
    BY <1>6, <2>1, <1>F1
<1> QED
  BY <1>1, <1>6, <1>7, <1>f

\* h[n] is the sum of the first n numbers.
SumsUp(h, ns, L) == h \in [0..L -> Int] /\ h[0] = 0 /\ \A n \in 1..L : h[n] = h[n - 1] + ns[n]

Numbers(ns, L) == L \in Nat /\ DOMAIN ns = 1..L /\ \A i \in 1..L : ns[i] \in Int

LEMMA SumIs ==
    ASSUME NEW ns, NEW L, Numbers(ns, L)
    PROVE  \E h : SumsUp(h, ns, L) /\ SumOf(ns) = h[L]
<1>1. L \in Nat /\ DOMAIN ns = 1..L /\ \A i \in 1..L : ns[i] \in Int
  BY DEF Numbers
<1>h. PICK h \in [0..L -> Int] : /\ h[0] = 0
                                 /\ \A n \in 1..L : h[n] = h[n - 1] + ns[n]
                                 /\ SumOf(ns) = h[L]
  BY <1>1, SumSteps
<1>2. SumsUp(h, ns, L)
  BY <1>h DEF SumsUp
<1> QED
  BY <1>h, <1>2

\* c is a with b behind it.
Joins(c, a, K, b, L) ==
    /\ Numbers(a, K) /\ Numbers(b, L) /\ Numbers(c, K + L)
    /\ \A i \in 1..K : c[i] = a[i]
    /\ \A i \in 1..L : c[K + i] = b[i]

\* The sum of the first numbers and of those that follow them.
LEMMA SumBoth ==
    ASSUME NEW a, NEW K, NEW b, NEW L, NEW c, Joins(c, a, K, b, L)
    PROVE  SumOf(c) = SumOf(a) + SumOf(b) /\ SumOf(a) \in Int /\ SumOf(b) \in Int
<1>j. /\ Numbers(a, K) /\ Numbers(b, L) /\ Numbers(c, K + L)
      /\ \A i \in 1..K : c[i] = a[i]
      /\ \A i \in 1..L : c[K + i] = b[i]
  BY DEF Joins
<1>0. K \in Nat /\ L \in Nat
  BY <1>j DEF Numbers
<1>f. PICK f : SumsUp(f, a, K) /\ SumOf(a) = f[K]
  BY <1>j, SumIs
<1>g. PICK g : SumsUp(g, b, L) /\ SumOf(b) = g[L]
  BY <1>j, SumIs
<1>h. PICK h : SumsUp(h, c, K + L) /\ SumOf(c) = h[K + L]
  BY <1>j, SumIs
<1>f1. f \in [0..K -> Int] /\ f[0] = 0 /\ \A n \in 1..K : f[n] = f[n - 1] + a[n]
  BY <1>f DEF SumsUp
<1>g1. g \in [0..L -> Int] /\ g[0] = 0 /\ \A n \in 1..L : g[n] = g[n - 1] + b[n]
  BY <1>g DEF SumsUp
<1>h1. h \in [0..(K + L) -> Int] /\ h[0] = 0 /\ \A n \in 1..(K + L) : h[n] = h[n - 1] + c[n]
  BY <1>h DEF SumsUp
<1> DEFINE A == {n \in Nat : n <= K => h[n] = f[n]}
<1>1. 0 \in A
  BY <1>f1, <1>h1
<1>2. ASSUME NEW n \in 1..K, n - 1 \in A PROVE n \in A
  <2>1. n \in Nat /\ n \in 1..(K + L) /\ n - 1 <= K
    BY <1>0
  <2>2. h[n - 1] = f[n - 1]
    BY <1>2, <2>1
  <2>3. h[n] = f[n]
    BY <1>j, <1>f1, <1>h1, <2>1, <2>2
  <2> QED
    BY <2>1, <2>3
<1>3. h[K] = f[K]
  <2> HIDE DEF A
  <2>1. \A n \in 0..K : n \in A
    BY <1>0, <1>1, <1>2, AllUpTo
  <2>2. K \in 0..K /\ K <= K
    BY <1>0
  <2>3. K \in A
    BY <2>1, <2>2
  <2> QED
    BY <2>2, <2>3 DEF A
<1> DEFINE B == {n \in Nat : n <= L => h[K + n] = f[K] + g[n]}
<1>s. f[K] \in Int /\ g[L] \in Int
  BY <1>0, <1>f1, <1>g1
<1>4. 0 \in B
  BY <1>0, <1>g1, <1>3, <1>s
<1>5. ASSUME NEW n \in 1..L, n - 1 \in B PROVE n \in B
  <2>1. n \in Nat /\ K + n \in 1..(K + L) /\ n - 1 <= L /\ (K + n) - 1 = K + (n - 1) /\ n - 1 \in 0..L
    BY <1>0
  <2>2. h[K + (n - 1)] = f[K] + g[n - 1]
    BY <1>5, <2>1
  <2>3. h[K + n] = h[(K + n) - 1] + c[K + n] /\ c[K + n] = b[n] /\ g[n] = g[n - 1] + b[n]
    BY <1>j, <1>g1, <1>h1, <2>1
  <2>4. b[n] \in Int /\ g[n - 1] \in Int
    BY <1>j, <1>g1, <2>1 DEF Numbers
  <2>5. h[K + n] = f[K] + g[n]
    BY <1>s, <2>1, <2>2, <2>3, <2>4
  <2> QED
    BY <2>1, <2>5
<1>6. h[K + L] = f[K] + g[L]
  <2> HIDE DEF B
  <2>1. \A n \in 0..L : n \in B
    BY <1>0, <1>4, <1>5, AllUpTo
  <2>2. L \in 0..L /\ L <= L
    BY <1>0
  <2>3. L \in B
    BY <2>1, <2>2
  <2> QED
    BY <2>2, <2>3 DEF B
<1> QED
  BY <1>f, <1>g, <1>h, <1>6, <1>s

\* Sums of a few numbers.
LEMMA SumOfFew ==
    ASSUME NEW ns
    PROVE  /\ Numbers(ns, 0) => SumOf(ns) = 0
           /\ Numbers(ns, 1) => SumOf(ns) = ns[1]
<1>1. ASSUME Numbers(ns, 0) PROVE SumOf(ns) = 0
  <2>h. PICK h : SumsUp(h, ns, 0) /\ SumOf(ns) = h[0]
    BY <1>1, SumIs
  <2> QED
    BY <2>h DEF SumsUp
<1>2. ASSUME Numbers(ns, 1) PROVE SumOf(ns) = ns[1]
  <2>h. PICK h : SumsUp(h, ns, 1) /\ SumOf(ns) = h[1]
    BY <1>2, SumIs
  <2>1. 1 \in 1..1
    OBVIOUS
  <2>2. h[1] = h[1 - 1] + ns[1] /\ h[0] = 0 /\ ns[1] \in Int
    BY <1>2, <2>h, <2>1 DEF SumsUp, Numbers
  <2> QED
    BY <2>h, <2>2
<1> QED
  BY <1>1, <1>2

\* A sum of numbers that are not negative is none.
LEMMA SumNat ==
    ASSUME NEW ns, NEW L, Numbers(ns, L), \A i \in 1..L : ns[i] >= 0
    PROVE  SumOf(ns) \in Nat
<1>h. PICK h : SumsUp(h, ns, L) /\ SumOf(ns) = h[L]
  BY SumIs
<1>0. L \in Nat /\ \A i \in 1..L : ns[i] \in Int
  BY DEF Numbers
<1>1. h \in [0..L -> Int] /\ h[0] = 0 /\ \A n \in 1..L : h[n] = h[n - 1] + ns[n]
  BY <1>h DEF SumsUp
<1> DEFINE A == {n \in Nat : h[n] \in Nat}
<1>2. 0 \in A
  BY <1>1
<1>3. ASSUME NEW n \in 1..L, n - 1 \in A PROVE n \in A
  <2>1. h[n - 1] \in Nat /\ n \in Nat
    BY <1>0, <1>3
  <2>2. h[n] = h[n - 1] + ns[n] /\ ns[n] \in Int /\ ns[n] >= 0
    BY <1>0, <1>1
  <2> QED
    BY <2>1, <2>2
<1> HIDE DEF A
<1>4. \A n \in 0..L : n \in A
  BY <1>0, <1>2, <1>3, AllUpTo
<1>5. L \in 0..L
  BY <1>0
<1> QED
  BY <1>h, <1>4, <1>5 DEF A

-----------------------------------------------------------------------------
(* Histories (pkg/llmhistory).                                             *)

HistoryMessage ==
    [len : Nat, role : {"system", "user", "assistant", "tool"}, image : Nat, calls : BOOLEAN]

LEMMA JoinedIs ==
    ASSUME NEW S, NEW a \in Seq(S), NEW b \in Seq(S)
    PROVE  /\ a \o b \in Seq(S)
           /\ Len(a \o b) = Len(a) + Len(b)
           /\ \A i \in 1..Len(a) : (a \o b)[i] = a[i]
           /\ \A i \in 1..Len(b) : (a \o b)[Len(a) + i] = b[i]
<1>1. a \o b \in Seq(S) /\ Len(a \o b) = Len(a) + Len(b)
  OBVIOUS
<1>2. \A i \in 1..Len(a) : (a \o b)[i] = a[i]
  OBVIOUS
<1>3. \A i \in 1..Len(b) : (a \o b)[Len(a) + i] = b[i]
  OBVIOUS
<1> QED
  BY <1>1, <1>2, <1>3

LEMMA PartIs ==
    ASSUME NEW S, NEW h \in Seq(S), NEW a \in Nat \ {0}, NEW b \in Nat, b <= Len(h), a <= b + 1
    PROVE  /\ SubSeq(h, a, b) \in Seq(S)
           /\ Len(SubSeq(h, a, b)) = b - a + 1
           /\ \A i \in 1..(b - a + 1) : SubSeq(h, a, b)[i] = h[a + i - 1]
<1>1. \A i \in 1..(b - a + 1) : a + i - 1 \in 1..Len(h)
  OBVIOUS
<1>2. SubSeq(h, a, b) = [i \in 1..(b - a + 1) |-> h[i + a - 1]]
  OBVIOUS
<1>3. Len(SubSeq(h, a, b)) = b - a + 1
  OBVIOUS
<1>4. SubSeq(h, a, b) \in Seq(S)
  <2>1. \A i \in 1..(b - a + 1) : h[i + a - 1] \in S
    BY <1>1
  <2> QED
    BY <1>2, <1>3, <2>1
<1>5. \A i \in 1..(b - a + 1) : SubSeq(h, a, b)[i] = h[a + i - 1]
  BY <1>2
<1> QED
  BY <1>3, <1>4, <1>5

LEMMA SingleIs ==
    ASSUME NEW S, NEW e \in S
    PROVE  <<e>> \in Seq(S) /\ Len(<<e>>) = 1 /\ DOMAIN <<e>> = 1..1 /\ <<e>>[1] = e
  OBVIOUS

LEMMA MessageTokens ==
    ASSUME NEW m \in HistoryMessage
    PROVE  ApproximateMessageTokens(m) \in Nat
<1>1. m.len \in Nat /\ m.image \in Nat /\ RoleOverhead \in Nat
  BY PromptBudgetAssumption DEF HistoryMessage
<1>2. m.len \div 4 \in Nat
  BY <1>1
<1> QED
  BY <1>1, <1>2 DEF ApproximateMessageTokens

LEMMA TokensOf ==
    ASSUME NEW s \in Seq(HistoryMessage)
    PROVE  /\ Numbers([i \in DOMAIN s |-> ApproximateMessageTokens(s[i])], Len(s))
           /\ SumApproxTokens(s) \in Nat
<1>1. Len(s) \in Nat /\ DOMAIN s = 1..Len(s) /\ \A i \in 1..Len(s) : s[i] \in HistoryMessage
  OBVIOUS
<1>t. PICK t : t = [i \in DOMAIN s |-> ApproximateMessageTokens(s[i])]
  OBVIOUS
<1>2. \A i \in 1..Len(s) : t[i] \in Nat
  BY <1>1, <1>t, MessageTokens
<1>3. Numbers(t, Len(s)) /\ \A i \in 1..Len(s) : t[i] >= 0
  BY <1>1, <1>2, <1>t DEF Numbers
<1>4. SumOf(t) \in Nat
  BY <1>3, SumNat
<1> QED
  BY <1>3, <1>4, <1>t DEF SumApproxTokens

\* The tokens of two histories, one after the other, and of a single message.
LEMMA TokensBoth ==
    ASSUME NEW a \in Seq(HistoryMessage), NEW b \in Seq(HistoryMessage)
    PROVE  SumApproxTokens(a \o b) = SumApproxTokens(a) + SumApproxTokens(b)
<1>K. PICK K \in Nat : K = Len(a)
  OBVIOUS
<1>L. PICK L \in Nat : L = Len(b)
  OBVIOUS
<1>c. PICK c \in Seq(HistoryMessage) : c = a \o b
  BY JoinedIs
<1>1. Len(c) = K + L /\ DOMAIN a = 1..K /\ DOMAIN b = 1..L /\ DOMAIN c = 1..(K + L)
  <2>1. Len(c) = K + L
    BY <1>K, <1>L, <1>c, JoinedIs
  <2> QED
    BY <1>K, <1>L, <2>1
<1>2. \A i \in 1..K : c[i] = a[i] /\ i \in 1..(K + L)
  BY <1>K, <1>c, JoinedIs
<1>3. \A i \in 1..L : c[K + i] = b[i] /\ K + i \in 1..(K + L)
  BY <1>K, <1>L, <1>c, JoinedIs
<1>ta. PICK t : t = [i \in DOMAIN a |-> ApproximateMessageTokens(a[i])]
  OBVIOUS
<1>tb. PICK u : u = [i \in DOMAIN b |-> ApproximateMessageTokens(b[i])]
  OBVIOUS
<1>tc. PICK v : v = [i \in DOMAIN c |-> ApproximateMessageTokens(c[i])]
  OBVIOUS
<1>4. Numbers(t, K) /\ Numbers(u, L) /\ Numbers(v, K + L)
  <2>1. Numbers(t, K) /\ Numbers(u, L)
    BY <1>ta, <1>tb, <1>K, <1>L, TokensOf
  <2>2. Numbers(v, Len(c))
    BY <1>tc, TokensOf
  <2> QED
    BY <1>1, <2>1, <2>2
<1>5. \A i \in 1..K : v[i] = t[i]
  BY <1>1, <1>2, <1>ta, <1>tc
<1>6. \A i \in 1..L : v[K + i] = u[i]
  BY <1>1, <1>3, <1>tb, <1>tc
<1>7. SumOf(v) = SumOf(t) + SumOf(u)
  <2>1. Joins(v, t, K, u, L)
    BY <1>4, <1>5, <1>6 DEF Joins
  <2> QED
    BY <2>1, SumBoth
<1> QED
  BY <1>7, <1>ta, <1>tb, <1>tc, <1>c DEF SumApproxTokens

LEMMA TokensOfOne ==
    ASSUME NEW m \in HistoryMessage
    PROVE  <<m>> \in Seq(HistoryMessage) /\ SumApproxTokens(<<m>>) = ApproximateMessageTokens(m)
<1>s. PICK s \in Seq(HistoryMessage) : s = <<m>>
  BY SingleIs
<1>1. Len(s) = 1 /\ DOMAIN s = 1..1 /\ s[1] = m
  BY <1>s, SingleIs
<1>t. PICK t : t = [i \in DOMAIN s |-> ApproximateMessageTokens(s[i])]
  OBVIOUS
<1>2. Numbers(t, 1)
  BY <1>1, <1>t, TokensOf
<1>3. t[1] = ApproximateMessageTokens(m)
  BY <1>1, <1>t
<1> QED
  BY <1>2, <1>3, <1>s, <1>t, SumOfFew DEF SumApproxTokens

\* One iteration of the loop that drops the oldest messages.
DropOne(s, room) ==
    IF s = <<>> \/ SumApproxTokens(s) <= room THEN s
    ELSE SubSeq(s, DropSize(s) + 1, Len(s))

Drops(f, middle, room, L) ==
    f = [n \in 0..L |-> IF n = 0 THEN middle ELSE DropOne(f[n - 1], room)]

LEMMA DropsDefined ==
    ASSUME NEW middle, NEW room, NEW L \in Nat
    PROVE  \E f : Drops(f, middle, room, L)
<1> DEFINE T == {l \in Nat : \E f :
                   f = [n \in 0..l |-> IF n = 0 THEN middle ELSE DropOne(f[n - 1], room)]}
<1>1. 0 \in T
  <2> DEFINE f == [n \in 0..0 |-> middle]
  <2>1. f = [n \in 0..0 |-> IF n = 0 THEN middle ELSE DropOne(f[n - 1], room)]
    OBVIOUS
  <2> QED
    BY <2>1
<1>2. ASSUME NEW l \in 1..L, l - 1 \in T PROVE l \in T
  <2>1. PICK g : g = [n \in 0..(l - 1) |-> IF n = 0 THEN middle ELSE DropOne(g[n - 1], room)]
    BY <1>2
  <2> DEFINE f == [n \in 0..l |-> IF n = l THEN DropOne(g[l - 1], room) ELSE g[n]]
  <2>2. f = [n \in 0..l |-> IF n = 0 THEN middle ELSE DropOne(f[n - 1], room)]
    <3>1. ASSUME NEW n \in 0..l
          PROVE  f[n] = IF n = 0 THEN middle ELSE DropOne(f[n - 1], room)
      <4>1. CASE n = l
        BY <4>1
      <4>2. CASE n # l
        <5>1. n \in 0..(l - 1) /\ f[n] = g[n]
          BY <4>2
        <5>2. n # 0 => f[n - 1] = g[n - 1]
          BY <5>1
        <5> QED
          BY <2>1, <5>1, <5>2
      <4> QED
        BY <4>1, <4>2
    <3> QED
      BY <3>1
  <2> HIDE DEF f
  <2>3. l \in Nat
    BY <1>2
  <2> QED
    BY <2>2, <2>3
<1> HIDE DEF T
<1>3. \A n \in 0..L : n \in T
  BY <1>1, <1>2, AllUpTo
<1>4. L \in 0..L
  OBVIOUS
<1>5. L \in T
  BY <1>3, <1>4
<1> QED
  BY <1>5 DEF T, Drops

\* DropOldest ends with nothing or with what there is room for.
LEMMA DroppedUntilItFits ==
    ASSUME NEW middle \in Seq(HistoryMessage), NEW room
    PROVE  /\ DropOldest(middle, room) \in Seq(HistoryMessage)
           /\ DropOldest(middle, room) = <<>> \/ SumApproxTokens(DropOldest(middle, room)) <= room
<1>L. PICK L \in Nat : L = Len(middle)
  OBVIOUS
<1> DEFINE at == CHOOSE f : Drops(f, middle, room, L)
<1>1. DropOldest(middle, room) = at[L]
  BY <1>L DEF DropOldest, DropOne, Drops
<1>2. at = [n \in 0..L |-> IF n = 0 THEN middle ELSE DropOne(at[n - 1], room)]
  <2>1. \E f : Drops(f, middle, room, L)
    BY DropsDefined
  <2>2. Drops(at, middle, room, L)
    BY <2>1
  <2> HIDE DEF at
  <2> QED
    BY <2>2 DEF Drops
<1> HIDE DEF at
<1>3. at[0] = middle /\ \A n \in 1..L : at[n] = DropOne(at[n - 1], room)
  <2>1. at[0] = middle
    BY <1>2
  <2>2. ASSUME NEW n \in 1..L PROVE at[n] = DropOne(at[n - 1], room)
    <3>1. n \in 0..L /\ n # 0
      OBVIOUS
    <3> QED
      BY <1>2, <3>1
  <2> QED
    BY <2>1, <2>2
<1> DEFINE Fits(s) == s = <<>> \/ SumApproxTokens(s) <= room
           T == {n \in Nat : /\ at[n] \in Seq(HistoryMessage)
                             /\ Fits(at[n]) \/ Len(at[n]) <= L - n}
<1>4. 0 \in T
  BY <1>3, <1>L
<1>5. ASSUME NEW n \in 1..L, n - 1 \in T PROVE n \in T
  <2>s. PICK s \in Seq(HistoryMessage) : s = at[n - 1]
    BY <1>5
  <2>1. at[n] = DropOne(s, room) /\ n \in Nat
    BY <1>3, <2>s
  <2>2. CASE Fits(s)
    <3>1. at[n] = s
      BY <2>1, <2>2 DEF DropOne
    <3> QED
      BY <2>1, <2>2, <3>1
  <2>3. CASE ~Fits(s)
    <3>k. PICK k \in Nat : k = Len(s)
      OBVIOUS
    <3>d. PICK d \in {1, 2} : d = DropSize(s)
      BY DEF DropSize
    <3>1. d <= k
      <4>1. s # <<>> => k > 0
        BY <3>k
      <4>2. d = 2 => Len(s) > 1
        BY <3>d DEF DropSize
      <4> QED
        BY <2>3, <3>k, <4>1, <4>2
    <3>2. at[n] = SubSeq(s, d + 1, k)
      BY <2>1, <2>3, <3>d, <3>k DEF DropOne
    <3>3. SubSeq(s, d + 1, k) \in Seq(HistoryMessage) /\ Len(SubSeq(s, d + 1, k)) = k - d
      BY <3>k, <3>1
    <3>4. k <= L - (n - 1)
      BY <1>5, <2>s, <2>3, <3>k
    <3>5. Len(at[n]) <= L - n
      BY <3>2, <3>3, <3>4
    <3> QED
      BY <2>1, <3>2, <3>3, <3>5
  <2> QED
    BY <2>2, <2>3
<1> HIDE DEF T
<1>6. \A n \in 0..L : n \in T
  BY <1>4, <1>5, AllUpTo
<1>7. L \in 0..L
  OBVIOUS
<1>8. L \in T
  BY <1>6, <1>7
<1>9. at[L] \in Seq(HistoryMessage) /\ (Fits(at[L]) \/ Len(at[L]) <= 0)
  BY <1>8 DEF T
<1>10. Len(at[L]) <= 0 => at[L] = <<>>
  BY <1>9
<1> QED
  BY <1>1, <1>9, <1>10

\* The end of a history that was put together, and its first message.
LEMMA EndKept ==
    ASSUME NEW S, NEW m \in S, NEW d \in Seq(S), NEW e \in Seq(S)
    PROVE  LET h == <<m>> \o d \o e
           IN  /\ h \in Seq(S) /\ Len(h) = 1 + Len(d) + Len(e) /\ h[1] = m
               /\ SubSeq(h, Len(h) - Len(e) + 1, Len(h)) = e
<1>o. PICK o \in Seq(S) : o = <<m>>
  BY SingleIs
<1>1. Len(o) = 1 /\ o[1] = m
  BY <1>o, SingleIs
<1>a. PICK a \in Seq(S) : a = o \o d
  BY JoinedIs
<1>2. Len(a) = 1 + Len(d) /\ a[1] = m
  <2>1. Len(a) = Len(o) + Len(d) /\ \A i \in 1..Len(o) : a[i] = o[i]
    BY <1>a, JoinedIs
  <2>2. 1 \in 1..Len(o)
    BY <1>1
  <2> QED
    BY <1>1, <2>1, <2>2
<1>h. PICK h \in Seq(S) : h = a \o e
  BY JoinedIs
<1>K. PICK K \in Nat : K = Len(a)
  OBVIOUS
<1>L. PICK L \in Nat : L = Len(e)
  OBVIOUS
<1>3. /\ Len(h) = K + L /\ \A i \in 1..K : h[i] = a[i]
      /\ \A i \in 1..L : h[K + i] = e[i]
  BY <1>h, <1>K, <1>L, JoinedIs
<1>4. h[1] = m
  <2>1. K = 1 + Len(d) /\ Len(d) \in Nat
    BY <1>2, <1>K
  <2>2. 1 \in 1..K
    BY <2>1
  <2> QED
    BY <1>2, <1>3, <2>2
<1>5. SubSeq(h, Len(h) - L + 1, Len(h)) = e
  <2>0. Len(h) - L + 1 = K + 1 /\ Len(h) = K + L
    BY <1>3
  <2>p. /\ K + 1 \in Nat \ {0} /\ K + L \in Nat /\ K + L <= Len(h) /\ K + 1 <= (K + L) + 1
        /\ (K + L) - (K + 1) + 1 = L
    BY <1>3
  <2>s. PICK s \in Seq(S) : s = SubSeq(h, K + 1, K + L)
    BY <2>p, PartIs
  <2>1. Len(s) = L
    BY <2>p, <2>s, PartIs
  <2>2. \A i \in 1..L : s[i] = h[K + i]
    <3> TAKE i \in 1..L
    <3>1. s[i] = h[(K + 1) + i - 1]
      BY <2>p, <2>s, PartIs
    <3>2. (K + 1) + i - 1 = K + i
      OBVIOUS
    <3> QED
      BY <3>1, <3>2
  <2>3. s = e
    BY <1>3, <1>L, <2>1, <2>2
  <2> QED
    BY <2>0, <2>s, <2>3
<1>6. h = <<m>> \o d \o e
  BY <1>o, <1>a, <1>h
<1>7. Len(h) = 1 + Len(d) + Len(e)
  BY <1>2, <1>3, <1>K, <1>L
<1> QED
  BY <1>4, <1>5, <1>6, <1>7, <1>L

\* TrimMessagesByApproxTokensWithDropped, for every history that is longer than what
\* it must keep: it keeps the first message and the tail, in their order, and fits into
\* the limit unless nothing but those is left.
THEOREM LongHistoriesFit ==
    \A msgs \in Seq(HistoryMessage), max \in Int, tail \in Nat :
       Len(msgs) > 1 + tail =>
          HistoryTrimmed(msgs, max, tail, TrimMessagesByApproxTokensWithDropped(msgs, max, tail))
<1> SUFFICES ASSUME NEW msgs \in Seq(HistoryMessage), NEW max \in Int, NEW tail \in Nat,
                    Len(msgs) > 1 + tail, max > 0
             PROVE  HistoryTrimmed(msgs, max, tail,
                                   TrimMessagesByApproxTokensWithDropped(msgs, max, tail))
  <2>1. \A msgs, max, tail, got : ~(max > 0) => HistoryTrimmed(msgs, max, tail, got)
    BY DEF HistoryTrimmed
  <2> QED
    BY <2>1
<1>n. PICK n \in Nat : n = Len(msgs)
  OBVIOUS
<1>got. PICK got : got = TrimMessagesByApproxTokensWithDropped(msgs, max, tail)
  OBVIOUS
<1>1. n > 1 + tail /\ n > 1 /\ ~(n <= 1 + tail) /\ ~(n <= 1) /\ ~(max <= 0)
  BY <1>n
<1>2. Min({tail, n}) = tail
  <2>1. Min({tail, n}) \in Nat /\ Min({tail, n}) <= tail /\ Min({tail, n}) <= n /\ Min({tail, n}) \in {tail, n}
    <3>1. \E x \in {tail, n} : \A y \in {tail, n} : x =< y
      BY <1>1
    <3>2. Min({tail, n}) \in {tail, n}
      BY <3>1 DEF Min
    <3> QED
      BY <3>2, MinOfTwo
  <2> QED
    BY <1>1, <2>1
<1>3. ASSUME SumApproxTokens(msgs) <= max PROVE HistoryTrimmed(msgs, max, tail, got)
  <2>1. got = msgs
    BY <1>3, <1>got DEF TrimMessagesByApproxTokensWithDropped
  <2> QED
    BY <1>1, <1>2, <1>3, <1>n, <2>1 DEF HistoryTrimmed
<1>4. ASSUME ~(SumApproxTokens(msgs) <= max) PROVE HistoryTrimmed(msgs, max, tail, got)
  <2>m. PICK m \in HistoryMessage : m = msgs[1]
    BY <1>n, <1>1
  <2>p. /\ n - tail + 1 \in Nat \ {0} /\ n <= Len(msgs) /\ n - tail + 1 <= n + 1
        /\ n - (n - tail + 1) + 1 = tail
        /\ 2 \in Nat \ {0} /\ n - tail \in Nat /\ n - tail <= Len(msgs) /\ 2 <= (n - tail) + 1
    BY <1>n, <1>1
  <2>e. PICK e \in Seq(HistoryMessage) : e = SubSeq(msgs, n - tail + 1, n)
    BY <2>p, PartIs
  <2>e1. Len(e) = tail
    BY <2>p, <2>e, PartIs
  <2>w. PICK w \in Seq(HistoryMessage) : w = SubSeq(msgs, 2, n - tail)
    BY <2>p, PartIs
  <2>r. PICK room : room = max - ApproximateMessageTokens(m) - SumApproxTokens(e)
    OBVIOUS
  <2>d. PICK d \in Seq(HistoryMessage) : d = DropOldest(w, room)
    BY DroppedUntilItFits
  <2>1. got = <<m>> \o d \o e
    BY <1>4, <1>1, <1>n, <1>got, <2>m, <2>e, <2>w, <2>r, <2>d DEF TrimMessagesByApproxTokensWithDropped
  <2>2. /\ Len(got) = 1 + Len(d) + Len(e) /\ got[1] = m
        /\ SubSeq(got, Len(got) - Len(e) + 1, Len(got)) = e
    BY <2>1, EndKept
  <2>3. SubSeq(got, Len(got) - tail + 1, Len(got)) = SubSeq(msgs, n - tail + 1, n)
    BY <2>2, <2>e, <2>e1
  <2>4. SumApproxTokens(got) <= max \/ Len(got) = 1 + tail
    <3>1. CASE d = <<>>
      BY <2>2, <2>e1, <3>1
    <3>2. CASE d # <<>>
      <4>1. SumApproxTokens(d) <= room
        BY <2>d, <3>2, DroppedUntilItFits
      <4>o. PICK o \in Seq(HistoryMessage) : o = <<m>>
        BY SingleIs
      <4>2. SumApproxTokens(o) = ApproximateMessageTokens(m)
        BY <4>o, TokensOfOne
      <4>a. PICK a \in Seq(HistoryMessage) : a = o \o d
        BY JoinedIs
      <4>3. SumApproxTokens(a) = SumApproxTokens(o) + SumApproxTokens(d)
        BY <4>a, TokensBoth
      <4>4. SumApproxTokens(a \o e) = SumApproxTokens(a) + SumApproxTokens(e)
        BY TokensBoth
      <4>5. got = a \o e
        BY <2>1, <4>o, <4>a
      <4>6. /\ SumApproxTokens(o) \in Nat /\ SumApproxTokens(d) \in Nat /\ SumApproxTokens(e) \in Nat
            /\ ApproximateMessageTokens(m) \in Nat
        BY TokensOf, MessageTokens
      <4> QED
        BY <2>r, <4>1, <4>2, <4>3, <4>4, <4>5, <4>6, SMTT(30)
    <3> QED
      BY <3>1, <3>2
  <2>5. got[1].role = msgs[1].role
    BY <2>2, <2>m
  <2> QED
    BY <1>1, <1>2, <1>n, <2>3, <2>4, <2>5 DEF HistoryTrimmed
<1> QED
  BY <1>3, <1>4, <1>got

-----------------------------------------------------------------------------
(* Documents beside a prompt (pkg/prompt).                                 *)

LEMMA MaxOfTwo ==
    ASSUME NEW a \in Int, NEW b \in Int
    PROVE  Max({a, b}) = IF a >= b THEN a ELSE b
<1>1. CASE a >= b
  <2>1. \A z \in {a, b} : (\A y \in {a, b} : z >= y) <=> z = a
    BY <1>1
  <2> QED
    BY <1>1, <2>1 DEF Max
<1>2. CASE ~(a >= b)
  <2>1. \A z \in {a, b} : (\A y \in {a, b} : z >= y) <=> z = b
    BY <1>2
  <2> QED
    BY <1>2, <2>1 DEF Max
<1> QED
  BY <1>1, <1>2

\* What was placed so far: the bodies, their runes, and the runes that were dropped.
PlacedState == [out : Seq(Nat), used : Nat, dropped : Nat]

\* What one body does to it: nothing if it is empty, it is placed, dropped or cut.
Placed(acc, body, available, next) ==
    /\ next \in PlacedState
    /\ \/ body = 0 /\ next = acc
       \/ /\ next.out = Append(acc.out, body) /\ next.dropped = acc.dropped
          /\ next.used = acc.used + body + BlockFrame /\ next.used <= available
       \/ /\ next.out = acc.out /\ next.used = acc.used
          /\ next.dropped = acc.dropped + body
       \/ \E k \in Nat : /\ next.out = Append(acc.out, k)
                         /\ next.used = acc.used + k + BlockFrame /\ next.used <= available
                         /\ next.dropped + k = acc.dropped + body + BudgetNotice

LEMMA PlaceBlockIs ==
    ASSUME NEW acc \in PlacedState, NEW body \in Nat, NEW available \in Int
    PROVE  Placed(acc, body, available, PlaceBlock(acc, body, available))
<1>0. /\ BlockFrame \in Nat /\ MinRoom \in Nat /\ MinBody \in Nat /\ BudgetNotice \in Nat
      /\ BudgetNotice <= MinBody
  BY PromptBudgetAssumption
<1>a. /\ acc.out \in Seq(Nat) /\ acc.used \in Nat /\ acc.dropped \in Nat
      /\ acc = [out |-> acc.out, used |-> acc.used, dropped |-> acc.dropped]
  BY DEF PlacedState
<1>r. PICK room \in Int : room = available - acc.used
  BY <1>a
<1>n. PICK next : next = PlaceBlock(acc, body, available)
  OBVIOUS
<1>1. CASE body = 0
  <2>1. next = acc
    BY <1>1, <1>n DEF PlaceBlock
  <2> QED
    BY <1>1, <1>n, <2>1 DEF Placed
<1>2. CASE body > 0 /\ body + BlockFrame <= room
  <2>1. next = [acc EXCEPT !.out = Append(@, body), !.used = @ + body + BlockFrame]
    BY <1>2, <1>n, <1>r, <1>0 DEF PlaceBlock
  <2>2. /\ next.out = Append(acc.out, body) /\ next.used = acc.used + body + BlockFrame
        /\ next.dropped = acc.dropped
        /\ next = [out |-> next.out, used |-> next.used, dropped |-> next.dropped]
    BY <1>a, <2>1
  <2>3. next.out \in Seq(Nat) /\ next.used \in Nat /\ next.used <= available
    BY <1>0, <1>2, <1>a, <1>r, <2>2, SMTT(30)
  <2>4. next \in PlacedState
    BY <1>a, <2>2, <2>3 DEF PlacedState
  <2> QED
    BY <1>n, <2>2, <2>3, <2>4 DEF Placed
<1>3. CASE body > 0 /\ body + BlockFrame > room /\ (room < MinRoom \/ room - BlockFrame < MinBody)
  <2>1. next = [acc EXCEPT !.dropped = @ + body]
    BY <1>3, <1>n, <1>r, <1>0 DEF PlaceBlock
  <2>2. /\ next.out = acc.out /\ next.used = acc.used /\ next.dropped = acc.dropped + body
        /\ next = [out |-> next.out, used |-> next.used, dropped |-> next.dropped]
    BY <1>a, <2>1
  <2>3. next.dropped \in Nat
    BY <1>a, <2>2
  <2>4. next \in PlacedState
    BY <1>a, <2>2, <2>3 DEF PlacedState
  <2> QED
    BY <1>n, <2>2, <2>4 DEF Placed
<1>4. CASE /\ body > 0 /\ body + BlockFrame > room
           /\ ~(room < MinRoom) /\ ~(room - BlockFrame < MinBody)
  <2>m. PICK m \in Nat : m = room - BlockFrame
    BY <1>0, <1>4
  <2>1. body > m /\ m >= BudgetNotice
    BY <1>0, <1>4, <2>m
  <2>k. PICK keep \in Nat : keep = m - BudgetNotice
    BY <1>0, <2>1
  <2>2. Max({0, m - BudgetNotice}) = keep
    <3>1. Max({0, m - BudgetNotice}) = IF 0 >= m - BudgetNotice THEN 0 ELSE m - BudgetNotice
      BY <1>0, MaxOfTwo
    <3> QED
      BY <1>0, <2>k, <3>1
  <2>3. TruncateDocumentContextBody(body, m) = <<keep + BudgetNotice, body - keep>>
    BY <2>1, <2>2 DEF TruncateDocumentContextBody
  <2>4. next = [out |-> Append(acc.out, keep + BudgetNotice), dropped |-> acc.dropped + (body - keep),
                used |-> acc.used + (keep + BudgetNotice) + BlockFrame]
    <3>c. PICK cut : cut = TruncateDocumentContextBody(body, m)
      OBVIOUS
    <3>1. next = [out |-> Append(acc.out, cut[1]), dropped |-> acc.dropped + cut[2],
                  used |-> acc.used + cut[1] + BlockFrame]
      BY <1>0, <1>4, <1>n, <1>r, <2>m, <3>c DEF PlaceBlock
    <3>2. cut[1] = keep + BudgetNotice /\ cut[2] = body - keep
      BY <2>3, <3>c
    <3> QED
      BY <3>1, <3>2
  <2>n. PICK k \in Nat : k = keep + BudgetNotice
    BY <1>0
  <2>5. /\ next.out = Append(acc.out, k) /\ next.dropped = acc.dropped + (body - keep)
        /\ next.used = acc.used + k + BlockFrame
        /\ next = [out |-> next.out, used |-> next.used, dropped |-> next.dropped]
    BY <2>4, <2>n
  <2>6. next.out \in Seq(Nat) /\ next.used \in Nat /\ next.used <= available
    <3>1. k = m
      BY <1>0, <2>m, <2>k, <2>n
    <3>u. PICK u \in Nat : u = acc.used
      BY <1>a
    <3>2. u + k + BlockFrame = available /\ u + k + BlockFrame \in Nat
      BY <1>0, <1>r, <2>m, <3>1, <3>u
    <3>3. next.out \in Seq(Nat)
      BY <1>a, <2>n, <2>5
    <3>4. next.used = available /\ next.used \in Nat
      BY <2>5, <3>2, <3>u
    <3> QED
      BY <3>3, <3>4
  <2>7. next.dropped \in Nat /\ next.dropped + k = acc.dropped + body + BudgetNotice
    <3>1. body - keep \in Nat
      BY <1>0, <2>1, <2>k
    <3>d. PICK d \in Nat : d = acc.dropped
      BY <1>a
    <3>2. next.dropped = d + (body - keep)
      BY <2>5, <3>d
    <3>3. d + (body - keep) \in Nat /\ d + (body - keep) + k = d + body + BudgetNotice
      BY <1>0, <2>n, <3>1
    <3> QED
      BY <3>2, <3>3, <3>d
  <2>8. next \in PlacedState
    BY <2>5, <2>6, <2>7 DEF PlacedState
  <2> QED
    BY <1>n, <2>5, <2>6, <2>7, <2>8 DEF Placed
<1> QED
  BY <1>0, <1>1, <1>2, <1>3, <1>4, <1>r

Nothing == [out |-> <<>>, used |-> 0, dropped |-> 0]

\* The bodies are placed one by one.
LEMMA PlaceSteps ==
    ASSUME NEW bodies \in Seq(Nat), NEW available \in Int, NEW L \in Nat, L = Len(bodies)
    PROVE  \E f : /\ f[0] = Nothing
                  /\ \A n \in 1..L : f[n - 1] \in PlacedState => Placed(f[n - 1], bodies[n], available, f[n])
                  /\ PlaceBlocks(Nothing, bodies, available) = f[L]
<1>0. DOMAIN bodies = 1..L /\ \A i \in 1..L : bodies[i] \in Nat
  OBVIOUS
<1>F. PICK F : F = [p \in PlacedState \X Nat |-> PlaceBlock(p[1], p[2], available)]
  OBVIOUS
<1>F0. ASSUME NEW p \in PlacedState \X Nat PROVE PlaceBlock(p[1], p[2], available) \in PlacedState
  <2>1. p[1] \in PlacedState /\ p[2] \in Nat
    OBVIOUS
  <2>2. Placed(p[1], p[2], available, PlaceBlock(p[1], p[2], available))
    BY <2>1, PlaceBlockIs
  <2> QED
    BY <2>2 DEF Placed
<1>F1. \A acc \in PlacedState, b \in Nat : F[<<acc, b>>] = PlaceBlock(acc, b, available)
  BY <1>F
<1>F2. Foldable(PlacedState, Nat, F, Nothing, bodies, L)
  <2>1. F \in [PlacedState \X Nat -> PlacedState]
    BY <1>F, <1>F0
  <2>2. Nothing \in PlacedState
    BY DEF Nothing, PlacedState
  <2> QED
    BY <1>0, <2>1, <2>2 DEF Foldable
<1>g. PICK g \in [SUBSET (1..L) -> PlacedState] : FoldsBy(F, Nothing, bodies, g, L)
  BY <1>F2, FoldExists
<1> DEFINE Folds(h) == h = [s \in SUBSET (1..L) |->
                              IF s = {} THEN Nothing
                              ELSE PlaceBlock(h[s \ {Max(s)}], bodies[Max(s)], available)]
           iter == CHOOSE h : Folds(h)
<1>1. PlaceBlocks(Nothing, bodies, available) = iter[1..L]
  BY <1>0 DEF PlaceBlocks, FoldLeft, MapThenFoldSet
<1>2. ASSUME NEW s \in SUBSET (1..L), s # {}
      PROVE  s \ {Max(s)} \in SUBSET (1..L) /\ bodies[Max(s)] \in Nat
  BY <1>0, <1>2, LastPlace
<1>3. Folds(g)
  <2>1. ASSUME NEW s \in SUBSET (1..L), s # {}
        PROVE  g[s] = PlaceBlock(g[s \ {Max(s)}], bodies[Max(s)], available)
    <3>1. g[s] = F[<<g[s \ {Max(s)}], bodies[Max(s)]>>]
      BY <1>g, <2>1 DEF FoldsBy
    <3>2. g[s \ {Max(s)}] \in PlacedState
      BY <1>2, <2>1
    <3> QED
      BY <1>2, <1>F1, <2>1, <3>1, <3>2
  <2>2. g[{}] = Nothing
    BY <1>g DEF FoldsBy
  <2> QED
    BY <2>1, <2>2
<1>4. Folds(iter)
  <2> HIDE DEF Folds
  <2> QED
    BY <1>3
<1> HIDE DEF iter
<1>5. FoldsTyped(PlacedState, F, Nothing, bodies, iter, L)
  <2>1. iter[{}] = Nothing
    BY <1>4
  <2>2. ASSUME NEW s \in SUBSET (1..L), s # {}, iter[s \ {Max(s)}] \in PlacedState
        PROVE  iter[s] = F[<<iter[s \ {Max(s)}], bodies[Max(s)]>>]
    <3>1. iter[s] = PlaceBlock(iter[s \ {Max(s)}], bodies[Max(s)], available)
      BY <1>4, <2>2
    <3> QED
      BY <1>2, <2>2, <1>F1, <3>1
  <2> QED
    BY <2>1, <2>2 DEF FoldsTyped
<1>f. PICK f : InOrder(PlacedState, F, Nothing, bodies, f, L) /\ f[L] = iter[1..L]
  BY <1>F2, <1>5, FoldsInOrder
<1>6. f[0] = Nothing /\ \A n \in 1..L : f[n] = F[<<f[n - 1], bodies[n]>>]
  BY <1>f DEF InOrder
<1>7. ASSUME NEW n \in 1..L, f[n - 1] \in PlacedState PROVE Placed(f[n - 1], bodies[n], available, f[n])
  <2>1. f[n] = PlaceBlock(f[n - 1], bodies[n], available) /\ bodies[n] \in Nat
    BY <1>0, <1>6, <1>7, <1>F1
  <2> QED
    BY <1>7, <2>1, PlaceBlockIs
<1> QED
  BY <1>1, <1>6, <1>7, <1>f

\* A sum with one more number.
LEMMA SumMore ==
    ASSUME NEW a, NEW K, Numbers(a, K), NEW c, Numbers(c, K + 1), \A i \in 1..K : c[i] = a[i]
    PROVE  SumOf(c) = SumOf(a) + c[K + 1] /\ SumOf(a) \in Int
<1>K. K \in Nat /\ c[K + 1] \in Int
  <2>1. K \in Nat
    BY DEF Numbers
  <2>2. K + 1 \in 1..(K + 1)
    BY <2>1
  <2> QED
    BY <2>1, <2>2 DEF Numbers
<1>b. PICK b : b = [i \in 1..1 |-> c[K + 1]]
  OBVIOUS
<1>1. Numbers(b, 1) /\ b[1] = c[K + 1]
  BY <1>K, <1>b DEF Numbers
<1>2. \A i \in 1..1 : c[K + i] = b[i]
  BY <1>b
<1>3. Joins(c, a, K, b, 1)
  BY <1>1, <1>2 DEF Joins
<1> QED
  BY <1>1, <1>3, SumBoth, SumOfFew

\* What bodies take in the message of the documents, and what they take together.
BlockRunes(n) == IF n = 0 THEN 0 ELSE n + BlockFrame

Framed(out) == [i \in DOMAIN out |-> BlockRunes(out[i])]

LEMMA AppendedIs ==
    ASSUME NEW S, NEW s \in Seq(S), NEW e \in S
    PROVE  /\ Append(s, e) \in Seq(S)
           /\ Len(Append(s, e)) = Len(s) + 1
           /\ Append(s, e)[Len(s) + 1] = e
           /\ \A i \in 1..Len(s) : Append(s, e)[i] = s[i]
  OBVIOUS

LEMMA AppendSums ==
    ASSUME NEW out \in Seq(Nat), NEW k \in Nat
    PROVE  /\ SumOf(Append(out, k)) = SumOf(out) + k /\ SumOf(out) \in Nat
           /\ SumOf(Framed(Append(out, k))) = SumOf(Framed(out)) + BlockRunes(k)
           /\ SumOf(Framed(out)) \in Nat
<1>B. \A n \in Nat : BlockRunes(n) \in Nat
  <2>1. BlockFrame \in Nat
    BY PromptBudgetAssumption
  <2> QED
    BY <2>1 DEF BlockRunes
<1>K. PICK K \in Nat : K = Len(out)
  OBVIOUS
<1>p. PICK p \in Seq(Nat) : p = Append(out, k)
  BY AppendedIs
<1>1. /\ Len(p) = K + 1 /\ DOMAIN p = 1..(K + 1) /\ DOMAIN out = 1..K
      /\ p[K + 1] = k /\ \A i \in 1..K : p[i] = out[i]
  BY <1>K, <1>p, AppendedIs
<1>2. Numbers(out, K) /\ Numbers(p, K + 1) /\ \A i \in 1..K : out[i] >= 0
  <2>1. \A i \in 1..K : out[i] \in Nat
    BY <1>K
  <2>2. \A i \in 1..(K + 1) : p[i] \in Nat
    BY <1>1
  <2> QED
    BY <1>1, <2>1, <2>2 DEF Numbers
<1>3. SumOf(p) = SumOf(out) + k /\ SumOf(out) \in Nat
  BY <1>1, <1>2, SumMore, SumNat
<1>u. PICK u : u = Framed(out)
  OBVIOUS
<1>v. PICK v : v = Framed(p)
  OBVIOUS
<1>4. /\ DOMAIN u = 1..K /\ DOMAIN v = 1..(K + 1)
      /\ \A i \in 1..K : u[i] = BlockRunes(out[i]) /\ v[i] = u[i]
      /\ v[K + 1] = BlockRunes(k)
  <2>1. u = [i \in 1..K |-> BlockRunes(out[i])] /\ v = [i \in 1..(K + 1) |-> BlockRunes(p[i])]
    BY <1>1, <1>u, <1>v DEF Framed
  <2>2. \A i \in 1..K : i \in 1..(K + 1)
    OBVIOUS
  <2>3. K + 1 \in 1..(K + 1)
    OBVIOUS
  <2> QED
    BY <1>1, <2>1, <2>2, <2>3
<1>5. Numbers(u, K) /\ Numbers(v, K + 1) /\ \A i \in 1..K : u[i] >= 0
  <2>1. \A i \in 1..K : u[i] \in Nat
    <3> TAKE i \in 1..K
    <3>1. out[i] \in Nat
      BY <1>K
    <3> QED
      BY <1>4, <1>B, <3>1
  <2>2. \A i \in 1..(K + 1) : v[i] \in Nat
    <3> TAKE i \in 1..(K + 1)
    <3>1. i \in 1..K \/ i = K + 1
      OBVIOUS
    <3> QED
      BY <1>4, <1>B, <2>1, <3>1
  <2> QED
    BY <1>4, <2>1, <2>2 DEF Numbers
<1>6. SumOf(v) = SumOf(u) + BlockRunes(k) /\ SumOf(u) \in Nat
  BY <1>4, <1>5, SumMore, SumNat, SMTT(30)
<1> QED
  BY <1>3, <1>6, <1>p, <1>u, <1>v

\* After n bodies: what is used is what the placed ones take, and is within the room
\* if there are any; the first n bodies are placed or dropped, but for the notices.
PlacedSoFar(acc, available, sum, n) ==
    /\ acc \in PlacedState
    /\ acc.out = <<>> => acc.used = 0
    /\ acc.out # <<>> => acc.used <= available /\ acc.used >= BlockFrame
    /\ SumOf(Framed(acc.out)) <= acc.used
    /\ SumOf(acc.out) + acc.dropped \in sum..(sum + BudgetNotice * n)

LEMMA PlacedFirst ==
    ASSUME NEW available
    PROVE  PlacedSoFar(Nothing, available, 0, 0)
<1>e. PICK e : e = <<>>
  OBVIOUS
<1>1. Nothing.out = e /\ Nothing.used = 0 /\ Nothing.dropped = 0 /\ e = <<>> /\ DOMAIN e = {}
  BY <1>e DEF Nothing
<1>2. Nothing \in PlacedState
  BY DEF Nothing, PlacedState
<1>3. Numbers(e, 0) /\ Numbers(Framed(e), 0)
  <2>1. DOMAIN e = 1..0 /\ DOMAIN Framed(e) = 1..0 /\ \A i : i \notin 1..0
    BY <1>1 DEF Framed
  <2> QED
    BY <2>1 DEF Numbers
<1>4. SumOf(e) = 0 /\ SumOf(Framed(e)) = 0
  BY <1>3, SumOfFew
<1>5. BudgetNotice * 0 = 0
  BY PromptBudgetAssumption
<1>6. SumOf(Framed(Nothing.out)) <= Nothing.used
  BY <1>1, <1>4
<1>7. SumOf(Nothing.out) + Nothing.dropped \in 0..(0 + BudgetNotice * 0)
  BY <1>1, <1>4, <1>5
<1> QED
  BY <1>1, <1>2, <1>6, <1>7 DEF PlacedSoFar

LEMMA PlacedNext ==
    ASSUME NEW acc, NEW available \in Int, NEW sum \in Nat, NEW n \in Nat, NEW body \in Nat,
           NEW next, PlacedSoFar(acc, available, sum, n), Placed(acc, body, available, next)
    PROVE  PlacedSoFar(next, available, sum + body, n + 1)
<1>0. BlockFrame \in Nat /\ BudgetNotice \in Nat
  BY PromptBudgetAssumption
<1>o. PICK out \in Seq(Nat) : out = acc.out
  BY DEF PlacedSoFar, PlacedState
<1>u. PICK u \in Nat : u = acc.used
  BY DEF PlacedSoFar, PlacedState
<1>d. PICK d \in Nat : d = acc.dropped
  BY DEF PlacedSoFar, PlacedState
<1>N. PICK N \in Nat : N = BudgetNotice * n
  BY <1>0
<1>N1. BudgetNotice * (n + 1) = N + BudgetNotice
  BY <1>0, <1>N
<1>s. PICK s \in Nat : s = SumOf(out)
  BY AppendSums
<1>f. PICK f \in Nat : f = SumOf(Framed(out))
  BY AppendSums
<1>1. /\ out = <<>> => u = 0
      /\ out # <<>> => u <= available /\ u >= BlockFrame
      /\ f <= u /\ sum <= s + d /\ s + d <= sum + N
  <2>1. s + d \in sum..(sum + N)
    BY <1>o, <1>d, <1>N, <1>s DEF PlacedSoFar
  <2> QED
    BY <1>o, <1>u, <1>f, <2>1 DEF PlacedSoFar
<1>2. next \in PlacedState
  BY DEF Placed
<1>3. CASE body = 0 /\ next = acc
  <2>1. s + d \in (sum + body)..((sum + body) + BudgetNotice * (n + 1))
    BY <1>0, <1>1, <1>3, <1>N1
  <2> QED
    BY <1>3, <1>o, <1>d, <1>s, <2>1 DEF PlacedSoFar
<1>4. CASE next.out = out /\ next.used = u /\ next.dropped = d + body
  <2>1. s + (d + body) \in (sum + body)..((sum + body) + BudgetNotice * (n + 1))
    BY <1>0, <1>1, <1>N1
  <2>2. SumOf(next.out) + next.dropped \in (sum + body)..((sum + body) + BudgetNotice * (n + 1))
    BY <1>4, <1>s, <2>1
  <2>3. SumOf(Framed(next.out)) <= next.used
    BY <1>1, <1>4, <1>f
  <2> QED
    BY <1>1, <1>2, <1>4, <2>2, <2>3 DEF PlacedSoFar
<1>5. ASSUME NEW k \in Nat, next.out = Append(out, k), next.used = u + k + BlockFrame,
             next.used <= available,
             next.dropped + k = d + body \/ next.dropped + k = d + body + BudgetNotice
      PROVE  PlacedSoFar(next, available, sum + body, n + 1)
  <2>d. PICK e \in Nat : e = next.dropped
    BY <1>2 DEF PlacedState
  <2>1. SumOf(next.out) = s + k /\ SumOf(Framed(next.out)) = f + BlockRunes(k)
    BY <1>5, <1>s, <1>f, AppendSums
  <2>2. BlockRunes(k) <= k + BlockFrame /\ BlockRunes(k) \in Nat
    BY <1>0 DEF BlockRunes
  <2>3. SumOf(Framed(next.out)) <= next.used
    BY <1>0, <1>1, <1>5, <2>1, <2>2
  <2>4. (s + k) + e \in (sum + body)..((sum + body) + BudgetNotice * (n + 1))
    <3>M. PICK M \in Nat : M = BudgetNotice * (n + 1)
      BY <1>0, <1>N1
    <3>1. M = N + BudgetNotice
      BY <1>N1, <3>M
    <3>2. e + k = d + body \/ e + k = d + body + BudgetNotice
      BY <1>5, <2>d
    <3>3. sum + body <= (s + k) + e /\ (s + k) + e <= (sum + body) + M
      BY <1>0, <1>1, <3>1, <3>2
    <3> QED
      BY <3>3, <3>M
  <2>5. next.out # <<>>
    <3>L. PICK L \in Nat : L = Len(out)
      OBVIOUS
    <3>p. PICK p : p = Append(out, k)
      OBVIOUS
    <3>1. Len(p) = L + 1
      BY <3>L, <3>p, AppendedIs
    <3>2. Len(<<>>) = 0 /\ L + 1 # 0
      BY <3>L
    <3>3. p # <<>>
      BY <3>1, <3>2
    <3> QED
      BY <1>5, <3>p, <3>3
  <2>6. next.used >= BlockFrame
    BY <1>0, <1>5
  <2> QED
    BY <1>2, <1>5, <2>1, <2>3, <2>4, <2>5, <2>6, <2>d DEF PlacedSoFar
<1>6. \/ body = 0 /\ next = acc
      \/ next.out = out /\ next.used = u /\ next.dropped = d + body
      \/ \E k \in Nat : /\ next.out = Append(out, k) /\ next.used = u + k + BlockFrame
                        /\ next.used <= available
                        /\ next.dropped + k = d + body \/ next.dropped + k = d + body + BudgetNotice
  <2>1. CASE /\ next.out = Append(out, body) /\ next.dropped = d
             /\ next.used = u + body + BlockFrame /\ next.used <= available
    <3>1. next.dropped + body = d + body
      BY <2>1
    <3> QED
      BY <2>1, <3>1
  <2> QED
    BY <1>o, <1>u, <1>d, <2>1 DEF Placed
<1> QED
  BY <1>3, <1>4, <1>5, <1>6

LEMMA PlacedAll ==
    ASSUME NEW bodies \in Seq(Nat), NEW available \in Int
    PROVE  PlacedSoFar(PlaceBlocks(Nothing, bodies, available), available, SumOf(bodies), Len(bodies))
<1>L. PICK L \in Nat : L = Len(bodies)
  OBVIOUS
<1>0. DOMAIN bodies = 1..L /\ \A i \in 1..L : bodies[i] \in Nat
  BY <1>L
<1>f. PICK f : /\ f[0] = Nothing
               /\ \A n \in 1..L : f[n - 1] \in PlacedState => Placed(f[n - 1], bodies[n], available, f[n])
               /\ PlaceBlocks(Nothing, bodies, available) = f[L]
  BY <1>L, PlaceSteps
<1>N. Numbers(bodies, L)
  BY <1>0 DEF Numbers
<1>h. PICK h : SumsUp(h, bodies, L) /\ SumOf(bodies) = h[L]
  BY <1>N, SumIs
<1>1. h \in [0..L -> Int] /\ h[0] = 0 /\ \A n \in 1..L : h[n] = h[n - 1] + bodies[n]
  BY <1>h DEF SumsUp
<1> DEFINE T == {n \in Nat : h[n] \in Nat /\ PlacedSoFar(f[n], available, h[n], n)}
<1>2. 0 \in T
  <2>1. PlacedSoFar(f[0], available, h[0], 0)
    BY <1>f, <1>1, PlacedFirst
  <2> QED
    BY <1>1, <2>1
<1>3. ASSUME NEW n \in 1..L, n - 1 \in T PROVE n \in T
  <2>1. n \in Nat /\ n - 1 \in Nat /\ (n - 1) + 1 = n /\ bodies[n] \in Nat
    BY <1>0
  <2>2. h[n - 1] \in Nat /\ PlacedSoFar(f[n - 1], available, h[n - 1], n - 1)
    BY <1>3
  <2>3. Placed(f[n - 1], bodies[n], available, f[n])
    BY <1>f, <2>2 DEF PlacedSoFar
  <2>4. PlacedSoFar(f[n], available, h[n - 1] + bodies[n], (n - 1) + 1)
    BY <2>1, <2>2, <2>3, PlacedNext
  <2>5. h[n] = h[n - 1] + bodies[n] /\ h[n] \in Nat
    BY <1>1, <2>1, <2>2, SMTT(30)
  <2> QED
    BY <2>1, <2>4, <2>5
<1> HIDE DEF T
<1>4. \A n \in 0..L : n \in T
  BY <1>2, <1>3, AllUpTo
<1>5. L \in 0..L
  OBVIOUS
<1>6. PlacedSoFar(f[L], available, h[L], L)
  BY <1>4, <1>5 DEF T
<1> QED
  BY <1>6, <1>f, <1>h, <1>L

\* The prompt with a message of documents between what stands before and the instruction.
LEMMA PromptTokensAre ==
    ASSUME NEW before \in Seq(HistoryMessage), NEW instruction \in HistoryMessage, NEW bodies \in Seq(Nat)
    PROVE  /\ SumApproxTokens(AssemblePromptMessages(before, instruction, <<>>)) \in Nat
           /\ bodies # <<>> =>
                SumApproxTokens(AssemblePromptMessages(before, instruction, bodies))
                  = SumApproxTokens(AssemblePromptMessages(before, instruction, <<>>))
                      + ((HierarchyNote + SumOf(Framed(bodies))) \div 4 + RoleOverhead)
<1>0. HierarchyNote \in Nat /\ RoleOverhead \in Nat
  BY PromptBudgetAssumption
<1>i. PICK i \in Seq(HistoryMessage) : i = <<instruction>>
  BY SingleIs
<1>e. <<>> \in Seq(HistoryMessage)
  OBVIOUS
<1>1. AssemblePromptMessages(before, instruction, <<>>) = before \o i
  <2>1. before \o <<>> = before
    OBVIOUS
  <2> QED
    BY <1>i, <2>1 DEF AssemblePromptMessages
<1>2. /\ SumApproxTokens(before \o i) = SumApproxTokens(before) + SumApproxTokens(i)
      /\ SumApproxTokens(before) \in Nat /\ SumApproxTokens(i) \in Nat
  BY TokensBoth, TokensOf
<1>3. ASSUME bodies # <<>>
      PROVE  SumApproxTokens(AssemblePromptMessages(before, instruction, bodies))
               = SumApproxTokens(before \o i)
                   + ((HierarchyNote + SumOf(Framed(bodies))) \div 4 + RoleOverhead)
  <2>m. PICK m : m = BuildDocumentContextSystemMessage(bodies)
    OBVIOUS
  <2>s. SumOf(Framed(bodies)) \in Nat
    BY AppendSums
  <2>1. m = [len |-> HierarchyNote + SumOf(Framed(bodies)), role |-> "system", image |-> 0, calls |-> FALSE]
    BY <2>m DEF BuildDocumentContextSystemMessage, Framed, BlockRunes
  <2>2. HierarchyNote + SumOf(Framed(bodies)) \in Nat
    BY <1>0, <2>s
  <2>3. m \in HistoryMessage /\ m.len = HierarchyNote + SumOf(Framed(bodies)) /\ m.image = 0
    <3>l. PICK l \in Nat : l = HierarchyNote + SumOf(Framed(bodies))
      BY <2>2
    <3>1. m = [len |-> l, role |-> "system", image |-> 0, calls |-> FALSE]
      BY <2>1, <3>l
    <3>2. m \in HistoryMessage
      BY <3>1 DEF HistoryMessage
    <3>3. m.len = l /\ m.image = 0
      BY <3>1
    <3> QED
      BY <3>2, <3>3, <3>l
  <2>o. PICK o \in Seq(HistoryMessage) : o = <<m>>
    BY <2>3, SingleIs
  <2>4. AssemblePromptMessages(before, instruction, bodies) = (before \o o) \o i
    BY <1>3, <1>i, <2>m, <2>o DEF AssemblePromptMessages
  <2>5. before \o o \in Seq(HistoryMessage)
    BY JoinedIs
  <2>6. /\ SumApproxTokens((before \o o) \o i) = SumApproxTokens(before \o o) + SumApproxTokens(i)
        /\ SumApproxTokens(before \o o) = SumApproxTokens(before) + SumApproxTokens(o)
    BY <2>5, TokensBoth
  <2>7. SumApproxTokens(o) = ApproximateMessageTokens(m) /\ SumApproxTokens(o) \in Nat
    BY <2>3, <2>o, TokensOfOne, TokensOf
  <2>8. ApproximateMessageTokens(m) = (HierarchyNote + SumOf(Framed(bodies))) \div 4 + RoleOverhead
    <3>1. (HierarchyNote + SumOf(Framed(bodies))) \div 4 \in Nat
      BY <2>2
    <3> QED
      BY <1>0, <2>3, <3>1 DEF ApproximateMessageTokens
  <2> QED
    BY <1>2, <2>4, <2>6, <2>7, <2>8
<1>4. SumApproxTokens(before \o i) \in Nat
  BY <1>2
<1> QED
  BY <1>1, <1>3, <1>4

\* ApplyInstructionSafeBudgetManager, for every prompt, limit and list of documents: with
\* the documents it keeps the prompt still leaves the room reserved for the answer, and
\* every rune of the documents is kept or counted as dropped.
THEOREM DocumentsAlwaysFit ==
    \A max \in Int, before \in Seq(HistoryMessage), instruction \in HistoryMessage, bodies \in Seq(Nat) :
       DocumentsFit(max, before, instruction, bodies,
                    ApplyInstructionSafeBudgetManager(max, before, instruction, bodies))
<1> SUFFICES ASSUME NEW max \in Int, NEW before \in Seq(HistoryMessage),
                    NEW instruction \in HistoryMessage, NEW bodies \in Seq(Nat), max > 0, bodies # <<>>
             PROVE  DocumentsFit(max, before, instruction, bodies,
                                 ApplyInstructionSafeBudgetManager(max, before, instruction, bodies))
  <2>1. \A m, b, i, d, g : ~(m > 0 /\ d # <<>>) => DocumentsFit(m, b, i, d, g)
    BY DEF DocumentsFit
  <2> QED
    BY <2>1
<1>0. /\ HierarchyNote \in Nat /\ RoleOverhead \in Nat /\ BlockFrame \in Nat /\ PreserveOutput \in Nat
      /\ BudgetNotice \in Nat /\ 4 * RoleOverhead <= HierarchyNote + BlockFrame
  BY PromptBudgetAssumption
<1>b. PICK base \in Nat : base = SumApproxTokens(AssemblePromptMessages(before, instruction, <<>>))
  BY PromptTokensAre
<1>x. PICK room \in Int : room = max - base - PreserveOutput
  BY <1>0
<1>a. PICK available \in Int : available = room * 2 - HierarchyNote
  <2>h. PICK h \in Nat : h = HierarchyNote
    BY <1>0
  <2>1. room * 2 - h \in Int
    OBVIOUS
  <2> QED
    BY <2>h, <2>1
<1>1. AvailableRunes(max, base) = available
  BY <1>x, <1>a DEF AvailableRunes
<1>g. PICK got : got = ApplyInstructionSafeBudgetManager(max, before, instruction, bodies)
  OBVIOUS
<1>h. got = IF room <= 0 \/ available <= 0 THEN [Nothing EXCEPT !.dropped = SumOf(bodies)]
            ELSE PlaceBlocks(Nothing, bodies, available)
  <2>1. ~(max <= 0 \/ bodies = <<>>)
    OBVIOUS
  <2> QED
    BY <2>1, <1>b, <1>x, <1>1, <1>g DEF ApplyInstructionSafeBudgetManager, Nothing
<1>s. PICK sum \in Nat : sum = SumOf(bodies)
  BY AppendSums
<1>N. PICK N \in Nat : N = BudgetNotice * Len(bodies)
  BY <1>0
<1>2. CASE room <= 0 \/ available <= 0
  <2>1. got = [Nothing EXCEPT !.dropped = SumOf(bodies)]
    BY <1>h, <1>2
  <2>2. got.out = <<>> /\ got.dropped = sum
    BY <2>1, <1>s DEF Nothing
  <2>e. PICK e : e = <<>>
    OBVIOUS
  <2>3. SumOf(e) = 0
    <3>1. DOMAIN e = 1..0 /\ \A i : i \notin 1..0
      BY <2>e
    <3>2. Numbers(e, 0)
      BY <3>1 DEF Numbers
    <3> QED
      BY <3>2, SumOfFew
  <2>4. SumOf(got.out) + got.dropped \in sum..(sum + N)
    BY <2>2, <2>3, <2>e
  <2> QED
    BY <1>g, <1>s, <1>N, <2>2, <2>4 DEF DocumentsFit
<1>3. CASE ~(room <= 0) /\ ~(available <= 0)
  <2>1. got = PlaceBlocks(Nothing, bodies, available)
    BY <1>h, <1>3
  <2>2. PlacedSoFar(got, available, SumOf(bodies), Len(bodies))
    BY <2>1, PlacedAll
  <2>o. PICK out \in Seq(Nat) : out = got.out
    BY <2>2 DEF PlacedSoFar, PlacedState
  <2>u. PICK u \in Nat : u = got.used
    BY <2>2 DEF PlacedSoFar, PlacedState
  <2>f. PICK f \in Nat : f = SumOf(Framed(out))
    BY AppendSums
  <2>3. SumOf(got.out) + got.dropped \in sum..(sum + N)
    BY <2>2, <1>s, <1>N DEF PlacedSoFar
  <2>4. ASSUME out # <<>>
        PROVE  SumApproxTokens(AssemblePromptMessages(before, instruction, out)) + PreserveOutput <= max
    <3>1. u <= available /\ u >= BlockFrame /\ f <= u
      BY <2>2, <2>4, <2>o, <2>u, <2>f DEF PlacedSoFar
    <3>q. PICK q \in Nat : q = (HierarchyNote + f) \div 4
      BY <1>0
    <3>2. 4 * q <= HierarchyNote + f
      BY <1>0, <3>q
    <3>3. HierarchyNote + f <= 2 * room /\ 4 * RoleOverhead <= 2 * room
      BY <1>0, <1>a, <3>1
    <3>4. q + RoleOverhead <= room
      BY <1>0, <3>2, <3>3
    <3>5. SumApproxTokens(AssemblePromptMessages(before, instruction, out)) = base + (q + RoleOverhead)
      BY <2>4, <1>b, <2>f, <3>q, PromptTokensAre
    <3> QED
      BY <1>0, <1>x, <3>4, <3>5
  <2> QED
    BY <1>g, <1>s, <1>N, <2>o, <2>3, <2>4 DEF DocumentsFit
<1> QED
  BY <1>2, <1>3

-----------------------------------------------------------------------------
(* The cache of contexts (PrefixCache).                                    *)

Built(e) == e.value = Build(EstimateTokens(e.key.system), e.key.ctx, e.key.total)

\* Every context in the cache is the one its key stands for.
TrueCache(cache) == \E S : cache \in Seq(S) /\ \A e \in S : Built(e)

LEMMA EmptyCacheTrue == TrueCache(<<>>)
<1>S. PICK S : S = {}
  OBVIOUS
<1>1. \A T : <<>> \in Seq(T)
  OBVIOUS
<1>2. \A e \in S : Built(e)
  BY <1>S
<1> QED
  BY <1>1, <1>2 DEF TrueCache

LEMMA PutKeepsTrue ==
    ASSUME NEW cache, NEW key, NEW value, TrueCache(cache),
           value = Build(EstimateTokens(key.system), key.ctx, key.total)
    PROVE  TrueCache(PrefixPut(cache, key, value))
<1>S. PICK S : cache \in Seq(S) /\ \A e \in S : Built(e)
  BY DEF TrueCache
<1>e. PICK e : e = [key |-> key, value |-> value]
  OBVIOUS
<1>T. PICK T : T = S \cup {e}
  OBVIOUS
<1>1. \A d \in T : Built(d)
  <2>1. e.key = key /\ e.value = value
    BY <1>e
  <2>2. Built(e)
    BY <2>1 DEF Built
  <2> QED
    BY <1>S, <1>T, <2>2
<1>a. PICK all \in Seq(T) : all = Append(cache, e)
  <2>1. cache \in Seq(T) /\ e \in T
    BY <1>S, <1>T
  <2>2. Append(cache, e) \in Seq(T)
    BY <2>1
  <2> QED
    BY <2>2
<1>L. PICK L \in Nat : L = Len(all)
  OBVIOUS
<1>f. PICK f \in Nat \ {0} : f = Max({1, Len(all) - MaxPrefixes + 1})
  <2>1. MaxPrefixes \in Nat
    BY PromptBudgetAssumption
  <2>2. PICK d \in Int : d = L - MaxPrefixes + 1
    BY <2>1
  <2>3. Max({1, d}) = IF d > 1 THEN d ELSE 1
    BY MaxOfTwo
  <2> QED
    BY <1>L, <2>2, <2>3
<1>2. SubSeq(all, f, L) \in Seq(T)
  BY <1>L
<1>3. CASE value = <<>>
  <2>1. PrefixPut(cache, key, value) = cache
    BY <1>3 DEF PrefixPut
  <2> QED
    BY <2>1
<1>4. CASE value # <<>>
  <2>1. PrefixPut(cache, key, value) = SubSeq(all, f, L)
    BY <1>4, <1>e, <1>a, <1>f, <1>L DEF PrefixPut
  <2> QED
    BY <1>1, <1>2, <2>1 DEF TrueCache
<1> QED
  BY <1>3, <1>4

\* What is found in such a cache is what would be built.
LEMMA FromCacheOrBuilt ==
    ASSUME NEW req, NEW system, NEW ctx, NEW total, NEW cache, TrueCache(cache)
    PROVE  /\ RunnerMessages(req, system, ctx, total, cache).context
                = Build(EstimateTokens(system), ctx, total)
           /\ RunnerMessages(req, system, ctx, total, cache).system = system
           /\ TrueCache(RunnerMessages(req, system, ctx, total, cache).cache)
<1>S. PICK S : cache \in Seq(S) /\ \A e \in S : Built(e)
  BY DEF TrueCache
<1>k. PICK key : key = PrefixCacheKey(system, ctx, total)
  OBVIOUS
<1>1. key.system = system /\ key.ctx = ctx /\ key.total = total
  BY <1>k DEF PrefixCacheKey
<1>h. PICK hits : hits = PrefixGet(cache, key)
  OBVIOUS
<1>b. PICK built : built = Build(EstimateTokens(system), ctx, total)
  OBVIOUS
<1>2. \A e \in hits : e.value = built
  <2>1. \A e \in ToSet(cache) : Built(e)
    BY <1>S DEF ToSet
  <2>2. \A e \in hits : e \in ToSet(cache) /\ e.key = key
    BY <1>h DEF PrefixGet
  <2> QED
    BY <1>1, <1>b, <2>1, <2>2 DEF Built
<1>c. PICK context : context = IF hits # {} THEN (CHOOSE e \in hits : TRUE).value
                               ELSE Build(EstimateTokens(system), ctx, total)
  OBVIOUS
<1>3. context = built
  <2>1. hits # {} => (CHOOSE e \in hits : TRUE) \in hits
    OBVIOUS
  <2> QED
    BY <1>2, <1>b, <1>c, <2>1
<1>r. PICK r : r = RunnerMessages(req, system, ctx, total, cache)
  OBVIOUS
<1>4. /\ r.context = context /\ r.system = system
      /\ r.cache = IF hits # {} THEN cache ELSE PrefixPut(cache, key, context)
  BY <1>r, <1>k, <1>h, <1>c DEF RunnerMessages
<1>5. TrueCache(PrefixPut(cache, key, context))
  BY <1>1, <1>3, <1>b, PutKeepsTrue
<1>6. TrueCache(r.cache)
  BY <1>4, <1>5
<1> QED
  BY <1>r, <1>b, <1>3, <1>4, <1>6

\* PrefixCache, for every request, whatever searches find and whatever requests came
\* before it: the prompt is the one that would be built without the cache, and the cache
\* stays true.  It starts empty, so it is true after any sequence of requests and jobs.
THEOREM CacheNeverSeen ==
    /\ TrueCache(<<>>)
    /\ \A req, found, cache : TrueCache(cache) =>
          /\ CacheUnseen(req, found, HandlerPrompt(req, cache),
                         Complete(req, found, HandlerPrompt(req, cache).cache))
          /\ TrueCache(HandlerPrompt(req, cache).cache)
          /\ TrueCache(Complete(req, found, cache).cache)
<1> SUFFICES ASSUME NEW req, NEW found, NEW cache, TrueCache(cache)
             PROVE  /\ CacheUnseen(req, found, HandlerPrompt(req, cache),
                                   Complete(req, found, HandlerPrompt(req, cache).cache))
                    /\ TrueCache(HandlerPrompt(req, cache).cache)
                    /\ TrueCache(Complete(req, found, cache).cache)
  BY EmptyCacheTrue
<1>h. PICK handled : handled = Handled(req)
  OBVIOUS
<1>s. PICK system : system = req.system + req.tools
  OBVIOUS
<1>t. PICK total : total = EffectiveBudget(req.configured, req.runner)
  OBVIOUS
<1>c. PICK ctx : ctx = handled.ctx
  OBVIOUS
<1>1. ASSUME NEW old, TrueCache(old)
      PROVE  /\ HandlerPrompt(req, old).context = Build(EstimateTokens(system), ctx, total)
             /\ TrueCache(HandlerPrompt(req, old).cache)
  <2>1. HandlerPrompt(req, old) = RunnerMessages(handled, system, ctx, total, old)
    BY <1>h, <1>s, <1>t, <1>c DEF HandlerPrompt
  <2> QED
    BY <1>1, <2>1, FromCacheOrBuilt
<1>2. ASSUME NEW old, TrueCache(old)
      PROVE  /\ Complete(req, found, old).context
                  = Build(EstimateTokens(Complete(req, found, old).system),
                          EnrichContextFromSearch(Handled(req).ctx, found),
                          EffectiveBudget(req.configured, 0))
             /\ TrueCache(Complete(req, found, old).cache)
  <2>e. PICK more : more = EnrichContextFromSearch(Handled(req).ctx, found)
    OBVIOUS
  <2>b. PICK budget : budget = EffectiveBudget(req.configured, 0)
    OBVIOUS
  <2>1. Complete(req, found, old) = RunnerMessages(handled, req.system, more, budget, old)
    BY <1>h, <2>e, <2>b DEF Complete
  <2> QED
    BY <1>2, <2>1, <2>e, <2>b, FromCacheOrBuilt
<1>g. PICK got : got = HandlerPrompt(req, cache)
  OBVIOUS
<1>j. PICK job : job = Complete(req, found, got.cache)
  OBVIOUS
<1>3. got.context = Build(EstimateTokens(system), ctx, total) /\ TrueCache(got.cache)
  BY <1>1, <1>g
<1>4. /\ job.context = Build(EstimateTokens(job.system), EnrichContextFromSearch(Handled(req).ctx, found),
                             EffectiveBudget(req.configured, 0))
      /\ TrueCache(job.cache)
  BY <1>2, <1>3, <1>j
<1>5. HandlerPrompt(req, job.cache).context = got.context
  BY <1>1, <1>3, <1>4
<1>6. CacheUnseen(req, found, got, job)
  BY <1>4, <1>5 DEF CacheUnseen
<1> QED
  BY <1>1, <1>2, <1>6, <1>g, <1>j

-----------------------------------------------------------------------------
(* The messages of a chat (TrimChatLines).                                 *)

LEMMA TokensEstimated ==
    ASSUME NEW n \in Int
    PROVE  /\ EstimateTokens(n) \in Nat
           /\ EstimateTokens(n) = IF n = 0 THEN 0
                                  ELSE IF n \div CharsPerToken > 1 THEN n \div CharsPerToken ELSE 1
<1>c. PICK c \in Nat \ {0} : c = CharsPerToken
  BY PromptBudgetAssumption
<1>q. PICK q \in Int : q = n \div c
  OBVIOUS
<1>1. Max({1, q}) = IF 1 >= q THEN 1 ELSE q
  BY MaxOfTwo
<1>2. EstimateTokens(n) = IF n = 0 THEN 0 ELSE Max({1, q})
  BY <1>c, <1>q DEF EstimateTokens
<1> QED
  BY <1>c, <1>q, <1>1, <1>2

\* A text that is cut for b tokens has no more than those and its notice.
LEMMA CutEstimated ==
    ASSUME NEW n \in Nat, NEW b \in Nat \ {0}
    PROVE  /\ TrimToTokenBudget(n, b) \in Nat
           /\ EstimateTokens(TrimToTokenBudget(n, b)) <= b + TruncatedNotice
           /\ n > 0 => TrimToTokenBudget(n, b) > 0
           /\ TrimToTokenBudget(n, b) = n \/ EstimateTokens(n) >= b
<1>c. PICK c \in Nat \ {0} : c = CharsPerToken
  BY PromptBudgetAssumption
<1>w. PICK w \in Nat : w = TruncatedNotice
  BY PromptBudgetAssumption
<1>p. PICK p \in Nat \ {0} : p = b * c
  OBVIOUS
<1>1. TrimToTokenBudget(n, b) = IF n <= p THEN n ELSE p + w
  BY <1>c, <1>w, <1>p DEF TrimToTokenBudget
<1>2. ASSUME NEW m \in Nat, m <= p + w PROVE m \div c <= b + w
  <2>q. PICK q \in Nat : q = m \div c
    OBVIOUS
  <2>1. c * q <= m
    BY <2>q
  <2>2. ASSUME q > b + w PROVE FALSE
    <3>d. PICK d \in Nat \ {0} : q = b + d /\ d > w
      BY <2>2
    <3>1. c * q = p + c * d
      BY <3>d, <1>p
    <3>2. c * d >= d
      OBVIOUS
    <3> QED
      BY <1>2, <2>1, <3>d, <3>1, <3>2
  <2> QED
    BY <2>q, <2>2
<1>3. ASSUME NEW m \in Nat, m <= p + w PROVE EstimateTokens(m) <= b + w
  <2>q. PICK q \in Nat : q = m \div c
    OBVIOUS
  <2>1. q <= b + w
    BY <1>2, <1>3, <2>q
  <2>2. EstimateTokens(m) = IF m = 0 THEN 0 ELSE IF q > 1 THEN q ELSE 1
    BY <1>c, <2>q, TokensEstimated
  <2> QED
    BY <2>1, <2>2
<1>4. ASSUME n > p PROVE EstimateTokens(n) >= b
  <2>q. PICK q \in Nat : q = n \div c
    OBVIOUS
  <2>1. n < c * q + c
    BY <2>q
  <2>2. ASSUME q < b PROVE FALSE
    <3>d. PICK d \in Nat \ {0} : b = q + d
      BY <2>2
    <3>1. p = c * q + c * d
      BY <3>d, <1>p
    <3>2. c * d >= c
      OBVIOUS
    <3> QED
      BY <1>4, <2>1, <3>1, <3>2
  <2>3. EstimateTokens(n) = IF n = 0 THEN 0 ELSE IF q > 1 THEN q ELSE 1
    BY <1>c, <2>q, TokensEstimated
  <2> QED
    BY <1>4, <2>2, <2>3
<1> QED
  BY <1>w, <1>1, <1>3, <1>4

LEMMA LineEstimated ==
    ASSUME NEW n \in Nat
    PROVE  /\ EstimateChatLineTokens(n) \in Nat
           /\ EstimateChatLineTokens(n) = IF n = 0 THEN 0 ELSE EstimateTokens(n) + MessageOverhead
<1>1. EstimateTokens(n) \in Nat /\ MessageOverhead \in Nat
  BY TokensEstimated, PromptBudgetAssumption
<1> QED
  BY <1>1 DEF EstimateChatLineTokens

LEMMA LinesEstimated ==
    ASSUME NEW lines \in Seq(Nat)
    PROVE  LinesTokens(lines) \in Nat
<1>1. Len(lines) \in Nat /\ DOMAIN lines = 1..Len(lines) /\ \A i \in 1..Len(lines) : lines[i] \in Nat
  OBVIOUS
<1>t. PICK t : t = [i \in DOMAIN lines |-> EstimateChatLineTokens(lines[i])]
  OBVIOUS
<1>2. \A i \in 1..Len(lines) : t[i] \in Nat
  BY <1>1, <1>t, LineEstimated
<1>3. Numbers(t, Len(lines)) /\ \A i \in 1..Len(lines) : t[i] >= 0
  BY <1>1, <1>2, <1>t DEF Numbers
<1>4. SumOf(t) \in Nat
  BY <1>3, SumNat
<1> QED
  BY <1>4, <1>t DEF LinesTokens

LEMMA OneLine ==
    ASSUME NEW n \in Nat
    PROVE  <<n>> \in Seq(Nat) /\ LinesTokens(<<n>>) = EstimateChatLineTokens(n)
<1>s. PICK s : s = <<n>>
  OBVIOUS
<1>1. s \in Seq(Nat) /\ DOMAIN s = 1..1 /\ s[1] = n
  BY <1>s
<1>t. PICK t : t = [i \in DOMAIN s |-> EstimateChatLineTokens(s[i])]
  OBVIOUS
<1>2. t[1] = EstimateChatLineTokens(n) /\ DOMAIN t = 1..1
  BY <1>1, <1>t
<1>3. Numbers(t, 1)
  <2>1. \A i \in 1..1 : i = 1
    OBVIOUS
  <2>2. t[1] \in Int
    BY <1>2, LineEstimated
  <2> QED
    BY <1>2, <2>1, <2>2 DEF Numbers
<1>4. SumOf(t) = t[1]
  BY <1>3, SumOfFew
<1> QED
  BY <1>s, <1>1, <1>t, <1>2, <1>4 DEF LinesTokens

\* What is kept of the messages: they fit, but for the notice of one that was cut, and
\* the newest of them is there.
KeptLines(lines, max, got) ==
    /\ got \in Seq(Nat) /\ got # <<>>
    /\ LinesTokens(got) <= max + TruncatedNotice
    /\ got[Len(got)] = lines[Len(lines)] \/ (Len(got) = 1 /\ got[1] > 0)

LEMMA LinesTrimmed ==
    ASSUME NEW lines \in Seq(Nat), lines # <<>>, NEW max \in Nat, MessageOverhead < max
    PROVE  KeptLines(lines, max, TrimChatLines(lines, max))
<1>n. PICK n \in Nat \ {0} : n = Len(lines)
  OBVIOUS
<1>o. PICK o \in Nat : o = MessageOverhead
  BY PromptBudgetAssumption
<1>w. PICK w \in Nat : w = TruncatedNotice
  BY PromptBudgetAssumption
<1>F. PICK F : F = {n} \cup {k \in 1..n : LinesTokens(SubSeq(lines, k, n)) <= max}
  OBVIOUS
<1>f. PICK f \in 1..n : f = Min(F)
  <2>1. F \in SUBSET Nat /\ F # {}
    BY <1>F
  <2>2. PICK k \in F : \A m \in F : k <= m
    BY <2>1, SmallestOne
  <2>3. Min(F) \in F
    BY <2>2 DEF Min
  <2>4. \A m \in F : m \in 1..n
    BY <1>F
  <2>5. Min(F) \in 1..n
    BY <2>3, <2>4
  <2> QED
    BY <2>5
<1>r. PICK r \in Seq(Nat) : r = SubSeq(lines, f, n)
  <2>1. f \in Nat \ {0} /\ n <= Len(lines) /\ f <= n + 1
    BY <1>n
  <2>2. SubSeq(lines, f, n) \in Seq(Nat)
    BY <2>1, PartIs
  <2> QED
    BY <2>2
<1>1. Len(r) = n - f + 1 /\ r # <<>> /\ r[Len(r)] = lines[n]
  <2>1. Len(r) = n - f + 1
    BY <1>n, <1>r
  <2>2. n - f + 1 \in 1..Len(r) /\ f + (n - f + 1) - 1 = n
    BY <2>1
  <2>3. r[n - f + 1] = lines[n]
    BY <1>n, <1>r, <2>1, <2>2
  <2>4. r # <<>>
    BY <2>1
  <2> QED
    BY <2>1, <2>3, <2>4
<1>t. PICK t \in Nat : t = LinesTokens(r)
  BY LinesEstimated
<1>b. PICK b \in Nat \ {0} : b = max - o
  BY <1>o
<1>x. PICK x \in Nat : x = lines[n]
  BY <1>n
<1>y. PICK y \in Nat : y = TrimToTokenBudget(x, b)
  BY CutEstimated
<1>g. PICK got : got = TrimChatLines(lines, max)
  OBVIOUS
<1>2. got = IF t <= max THEN r ELSE <<y>>
  <2>1. ~(max <= 0 \/ n = 0)
    BY <1>o
  <2> QED
    BY <1>n, <1>o, <1>F, <1>f, <1>r, <1>t, <1>b, <1>x, <1>y, <1>g, <2>1 DEF TrimChatLines
<1>3. CASE t <= max
  <2>1. got = r
    BY <1>2, <1>3
  <2>2. t <= max + w
    BY <1>3
  <2> QED
    BY <1>1, <1>g, <1>n, <1>t, <1>w, <2>1, <2>2 DEF KeptLines
<1>4. CASE ~(t <= max)
  <2>s. PICK s \in Seq(Nat) : s = <<y>>
    BY OneLine
  <2>1. got = s /\ Len(s) = 1 /\ s[1] = y /\ s # <<>>
    BY <1>2, <1>4, <2>s
  <2>2. LinesTokens(s) = EstimateChatLineTokens(y)
    BY <2>s, OneLine
  <2>3. LinesTokens(s) <= max + w
    <3>e. PICK e \in Nat : e = EstimateTokens(y)
      BY TokensEstimated
    <3>1. e <= b + w
      BY <1>w, <1>y, <3>e, CutEstimated
    <3>2. EstimateChatLineTokens(y) = IF y = 0 THEN 0 ELSE e + o
      BY <1>o, <3>e, LineEstimated
    <3> QED
      BY <1>b, <2>2, <3>1, <3>2
  <2>4. x > 0 => y > 0
    BY <1>y, CutEstimated
  <2>5. x = 0 => y = 0
    <3>1. x = 0 => x <= b * CharsPerToken
      <4>1. PICK c \in Nat : c = CharsPerToken
        BY PromptBudgetAssumption
      <4>2. b * c >= 0
        OBVIOUS
      <4> QED
        BY <4>1, <4>2
    <3> QED
      BY <1>y, <3>1 DEF TrimToTokenBudget
  <2>6. s[Len(s)] = lines[Len(lines)] \/ (Len(s) = 1 /\ s[1] > 0)
    BY <1>n, <1>x, <2>1, <2>4, <2>5
  <2> QED
    BY <1>g, <1>w, <2>1, <2>3, <2>6 DEF KeptLines
<1> QED
  BY <1>3, <1>4

-----------------------------------------------------------------------------
(* The parts of a context in the order in which they matter.               *)

Kinds == {"workspace", "selection", "snippet", "tree", "editor"}

Part == [kind : Kinds, priority : Nat, text : Nat, len : Nat]

LEMMA RowIs ==
    ASSUME NEW S, NEW L \in Nat, NEW ps \in [1..L -> S]
    PROVE  ps \in Seq(S) /\ Len(ps) = L /\ DOMAIN ps = 1..L
  OBVIOUS

\* b has the parts of a.
SameParts(a, b, L) == \A p : (\E i \in 1..L : a[i] = p) <=> (\E i \in 1..L : b[i] = p)

\* Up to place i no part has a part behind it that matters more.
Ordered(ps, i, L) == \A a \in 1..i, b \in 1..L : a < b => ps[a].priority <= ps[b].priority

\* And place i has none up to place k behind it.
Settled(ps, i, k, L) ==
    /\ Ordered(ps, i - 1, L)
    /\ \A b \in 1..L : i < b /\ b <= k => ps[i].priority <= ps[b].priority

LEMMA ExchangeIs ==
    ASSUME NEW L \in Nat, NEW ps \in [1..L -> Part], NEW i \in 1..L, NEW j \in 1..L, i < j,
           Settled(ps, i, j - 1, L)
    PROVE  LET q == Exchange(ps, i, j)
           IN  q \in [1..L -> Part] /\ SameParts(ps, q, L) /\ Settled(q, i, j, L)
<1>0. \A k \in 1..L : ps[k] \in Part /\ ps[k].priority \in Nat
  BY DEF Part
<1>q. PICK q : q = Exchange(ps, i, j)
  OBVIOUS
<1>1. CASE ps[j].priority < ps[i].priority
  <2>1. q = [ps EXCEPT ![i] = ps[j], ![j] = ps[i]]
    BY <1>1, <1>q DEF Exchange, Swap
  <2>2. q \in [1..L -> Part]
    BY <1>0, <2>1
  <2>3. q[i] = ps[j] /\ q[j] = ps[i] /\ \A k \in 1..L : k # i /\ k # j => q[k] = ps[k]
    BY <2>1
  <2>4. SameParts(ps, q, L)
    <3>1. \A k \in 1..L : \E m \in 1..L : q[m] = ps[k]
      BY <2>3
    <3>2. \A k \in 1..L : \E m \in 1..L : ps[m] = q[k]
      BY <2>3
    <3> QED
      BY <3>1, <3>2 DEF SameParts
  <2>5. ASSUME NEW a \in 1..(i - 1), NEW b \in 1..L, a < b PROVE q[a].priority <= q[b].priority
    <3>1. a \in 1..L /\ a # i /\ a # j /\ a < i /\ a < j /\ a \in 1..(i - 1)
      OBVIOUS
    <3>2. q[a] = ps[a]
      BY <2>3, <3>1
    <3>3. \A c \in 1..L : a < c => ps[a].priority <= ps[c].priority
      BY DEF Settled, Ordered
    <3>4. \E c \in 1..L : a < c /\ q[b] = ps[c]
      BY <2>3, <2>5, <3>1
    <3> QED
      BY <3>2, <3>3, <3>4
  <2>6. ASSUME NEW b \in 1..L, i < b, b <= j PROVE q[i].priority <= q[b].priority
    <3>1. CASE b = j
      BY <1>0, <1>1, <2>3, <3>1
    <3>2. CASE b # j
      <4>1. b <= j - 1 /\ q[b] = ps[b]
        BY <2>3, <2>6, <3>2
      <4>2. ps[i].priority <= ps[b].priority
        BY <2>6, <4>1 DEF Settled
      <4> QED
        BY <1>0, <1>1, <2>3, <4>1, <4>2
    <3> QED
      BY <3>1, <3>2
  <2>7. Settled(q, i, j, L)
    BY <2>5, <2>6 DEF Settled, Ordered
  <2> QED
    BY <1>q, <2>2, <2>4, <2>7
<1>2. CASE ~(ps[j].priority < ps[i].priority)
  <2>1. q = ps
    BY <1>2, <1>q DEF Exchange
  <2>2. ASSUME NEW b \in 1..L, i < b, b <= j PROVE ps[i].priority <= ps[b].priority
    <3>1. CASE b = j
      BY <1>0, <1>2, <3>1
    <3>2. CASE b # j
      <4>1. b <= j - 1
        BY <2>2, <3>2
      <4> QED
        BY <2>2, <4>1 DEF Settled
    <3> QED
      BY <3>1, <3>2
  <2>3. Settled(ps, i, j, L)
    BY <2>2 DEF Settled
  <2>4. SameParts(ps, ps, L)
    BY DEF SameParts
  <2> QED
    BY <1>q, <2>1, <2>3, <2>4
<1> QED
  BY <1>1, <1>2

\* Whatever stands at its places, an exchange leaves a row of parts.
LEMMA ExchangeTyped ==
    ASSUME NEW L \in Nat, NEW ps \in [1..L -> Part], NEW i \in 1..L, NEW j \in 1..L
    PROVE  Exchange(ps, i, j) \in [1..L -> Part]
  BY DEF Exchange, Swap

\* The inner loop goes through the K places behind i.
SettledBy(f, ps, i, K, L) ==
    /\ f \in [0..K -> [1..L -> Part]]
    /\ f[0] = ps
    /\ \A n \in 1..K : f[n] = Exchange(f[n - 1], i, i + n)
    /\ SettlePlace(ps, i) = f[K]

LEMMA SettleSteps ==
    ASSUME NEW L \in Nat, NEW ps \in [1..L -> Part], NEW i \in 1..L, NEW K \in Nat, K = L - i
    PROVE  \E f : SettledBy(f, ps, i, K, L)
<1>R. PICK R : R = [1..L -> Part]
  OBVIOUS
<1>s. PICK seq : seq = [k \in 1..K |-> i + k]
  OBVIOUS
<1>0. DOMAIN seq = 1..K /\ \A k \in 1..K : seq[k] = i + k /\ seq[k] \in 1..L
  BY <1>s
<1>F. PICK F : F = [p \in R \X (1..L) |-> Exchange(p[1], i, p[2])]
  OBVIOUS
<1>F1. \A q \in R, j \in 1..L : F[<<q, j>>] = Exchange(q, i, j)
  BY <1>F
<1>F2. Foldable(R, 1..L, F, ps, seq, K)
  <2>1. \A p \in R \X (1..L) : Exchange(p[1], i, p[2]) \in R
    BY <1>R, ExchangeTyped
  <2>2. F \in [R \X (1..L) -> R]
    BY <1>F, <2>1
  <2> QED
    BY <1>R, <1>0, <2>2 DEF Foldable
<1>g. PICK g \in [SUBSET (1..K) -> R] : FoldsBy(F, ps, seq, g, K)
  BY <1>F2, FoldExists
<1> DEFINE Folds(h) == h = [s \in SUBSET (1..K) |->
                              IF s = {} THEN ps ELSE Exchange(h[s \ {Max(s)}], i, seq[Max(s)])]
           iter == CHOOSE h : Folds(h)
<1>1. SettlePlace(ps, i) = iter[1..K]
  <2>1. Len(ps) = L
    BY RowIs
  <2>2. SettlePlace(ps, i) = FoldLeft(LAMBDA q, j : Exchange(q, i, j), ps, seq)
    BY <1>s, <2>1 DEF SettlePlace
  <2> QED
    BY <1>0, <2>2 DEF FoldLeft, MapThenFoldSet
<1>2. ASSUME NEW s \in SUBSET (1..K), s # {}
      PROVE  s \ {Max(s)} \in SUBSET (1..K) /\ seq[Max(s)] \in 1..L
  BY <1>0, <1>2, LastPlace
<1>3. Folds(g)
  <2>1. ASSUME NEW s \in SUBSET (1..K), s # {}
        PROVE  g[s] = Exchange(g[s \ {Max(s)}], i, seq[Max(s)])
    <3>1. g[s] = F[<<g[s \ {Max(s)}], seq[Max(s)]>>]
      BY <1>g, <2>1 DEF FoldsBy
    <3>2. g[s \ {Max(s)}] \in R
      BY <1>2, <2>1
    <3> QED
      BY <1>2, <1>F1, <2>1, <3>1, <3>2
  <2>2. g[{}] = ps
    BY <1>g DEF FoldsBy
  <2> QED
    BY <2>1, <2>2
<1>4. Folds(iter)
  <2> HIDE DEF Folds
  <2> QED
    BY <1>3
<1> HIDE DEF iter
<1>5. FoldsTyped(R, F, ps, seq, iter, K)
  <2>1. iter[{}] = ps
    BY <1>4
  <2>2. ASSUME NEW s \in SUBSET (1..K), s # {}, iter[s \ {Max(s)}] \in R
        PROVE  iter[s] = F[<<iter[s \ {Max(s)}], seq[Max(s)]>>]
    <3>1. iter[s] = Exchange(iter[s \ {Max(s)}], i, seq[Max(s)])
      BY <1>4, <2>2
    <3> QED
      BY <1>2, <2>2, <1>F1, <3>1
  <2> QED
    BY <2>1, <2>2 DEF FoldsTyped
<1>f. PICK f : InOrder(R, F, ps, seq, f, K) /\ f[K] = iter[1..K]
  BY <1>F2, <1>5, FoldsInOrder
<1>6. f \in [0..K -> R] /\ f[0] = ps /\ \A n \in 1..K : f[n] = F[<<f[n - 1], seq[n]>>]
  BY <1>f DEF InOrder
<1>7. \A n \in 1..K : f[n] = Exchange(f[n - 1], i, i + n)
  <2> SUFFICES ASSUME NEW n \in 1..K PROVE f[n] = Exchange(f[n - 1], i, i + n)
    OBVIOUS
  <2>1. n - 1 \in 0..K
    OBVIOUS
  <2>2. f[n - 1] \in R
    BY <1>6, <2>1
  <2> QED
    BY <1>0, <1>6, <1>F1, <2>2
<1> QED
  BY <1>1, <1>6, <1>7, <1>f, <1>R DEF SettledBy

\* Then no part behind place i matters more than the one at i.
LEMMA SettlePlaceIs ==
    ASSUME NEW L \in Nat, NEW ps \in [1..L -> Part], NEW i \in 1..L, Ordered(ps, i - 1, L)
    PROVE  LET q == SettlePlace(ps, i)
           IN  q \in [1..L -> Part] /\ SameParts(ps, q, L) /\ Ordered(q, i, L)
<1>K. PICK K \in Nat : K = L - i
  OBVIOUS
<1>f. PICK f : /\ f \in [0..K -> [1..L -> Part]]
               /\ f[0] = ps
               /\ \A n \in 1..K : f[n] = Exchange(f[n - 1], i, i + n)
               /\ SettlePlace(ps, i) = f[K]
  <2>1. PICK f : SettledBy(f, ps, i, K, L)
    BY <1>K, SettleSteps
  <2> QED
    BY <2>1 DEF SettledBy
<1> DEFINE T == {n \in Nat : SameParts(ps, f[n], L) /\ Settled(f[n], i, i + n, L)}
<1>1. 0 \in T
  <2>1. SameParts(ps, ps, L)
    BY DEF SameParts
  <2>2. Settled(ps, i, i + 0, L)
    <3>1. \A b \in 1..L : ~(i < b /\ b <= i + 0)
      OBVIOUS
    <3> QED
      BY <3>1 DEF Settled
  <2> QED
    BY <1>f, <2>1, <2>2
<1>2. ASSUME NEW n \in 1..K, n - 1 \in T PROVE n \in T
  <2>1. n \in Nat /\ n - 1 \in 0..K /\ i + n \in 1..L /\ i < i + n /\ (i + n) - 1 = i + (n - 1)
    BY <1>K
  <2>q. PICK q \in [1..L -> Part] : q = f[n - 1]
    BY <1>f, <2>1
  <2>j. PICK j \in 1..L : j = i + n
    BY <2>1
  <2>2. SameParts(ps, q, L) /\ Settled(q, i, j - 1, L) /\ i < j
    BY <1>2, <2>1, <2>q, <2>j
  <2>3. f[n] = Exchange(q, i, j)
    BY <1>f, <2>q, <2>j
  <2>4. SameParts(q, f[n], L) /\ Settled(f[n], i, j, L)
    BY <2>2, <2>3, ExchangeIs
  <2>5. SameParts(ps, f[n], L)
    BY <2>2, <2>4 DEF SameParts
  <2> QED
    BY <2>1, <2>4, <2>5, <2>j
<1> HIDE DEF T
<1>3. \A n \in 0..K : n \in T
  BY <1>1, <1>2, AllUpTo
<1>4. K \in T /\ K \in 0..K
  BY <1>3
<1>q. PICK q \in [1..L -> Part] : q = SettlePlace(ps, i)
  BY <1>f, <1>4
<1>5. SameParts(ps, q, L) /\ Settled(q, i, L, L)
  <2>1. i + K = L
    BY <1>K
  <2> QED
    BY <1>4, <1>f, <1>q, <2>1 DEF T
<1>6. Ordered(q, i, L)
  <2> SUFFICES ASSUME NEW a \in 1..i, NEW b \in 1..L, a < b
               PROVE  q[a].priority <= q[b].priority
    BY DEF Ordered
  <2>1. CASE a = i
    BY <1>5, <2>1 DEF Settled
  <2>2. CASE a # i
    <3>1. a \in 1..(i - 1)
      BY <2>2
    <3> QED
      BY <1>5, <3>1 DEF Settled, Ordered
  <2> QED
    BY <2>1, <2>2
<1> QED
  BY <1>q, <1>5, <1>6

\* Whatever order its parts are in, the inner loop leaves a row of parts.
LEMMA SettleTyped ==
    ASSUME NEW L \in Nat, NEW ps \in [1..L -> Part], NEW i \in 1..L
    PROVE  SettlePlace(ps, i) \in [1..L -> Part]
<1>K. PICK K \in Nat : K = L - i
  OBVIOUS
<1>1. PICK f : SettledBy(f, ps, i, K, L)
  BY <1>K, SettleSteps
<1>2. K \in 0..K
  OBVIOUS
<1> QED
  BY <1>1, <1>2 DEF SettledBy

\* The outer loop goes through the places.
LEMMA SortSteps ==
    ASSUME NEW L \in Nat, NEW ps \in [1..L -> Part]
    PROVE  \E f : /\ f \in [0..L -> [1..L -> Part]]
                  /\ f[0] = ps
                  /\ \A n \in 1..L : f[n] = SettlePlace(f[n - 1], n)
                  /\ sortContextParts(ps) = f[L]
<1>R. PICK R : R = [1..L -> Part]
  OBVIOUS
<1>s. PICK seq : seq = [k \in 1..L |-> k]
  OBVIOUS
<1>0. DOMAIN seq = 1..L /\ \A k \in 1..L : seq[k] = k
  BY <1>s
<1>F. PICK F : F = [p \in R \X (1..L) |-> SettlePlace(p[1], p[2])]
  OBVIOUS
<1>F1. \A q \in R, j \in 1..L : F[<<q, j>>] = SettlePlace(q, j)
  BY <1>F
<1>F2. Foldable(R, 1..L, F, ps, seq, L)
  <2>1. \A p \in R \X (1..L) : SettlePlace(p[1], p[2]) \in R
    BY <1>R, SettleTyped
  <2>2. F \in [R \X (1..L) -> R]
    BY <1>F, <2>1
  <2> QED
    BY <1>R, <1>0, <2>2 DEF Foldable
<1>g. PICK g \in [SUBSET (1..L) -> R] : FoldsBy(F, ps, seq, g, L)
  BY <1>F2, FoldExists
<1> DEFINE Folds(h) == h = [s \in SUBSET (1..L) |->
                              IF s = {} THEN ps ELSE SettlePlace(h[s \ {Max(s)}], seq[Max(s)])]
           iter == CHOOSE h : Folds(h)
<1>1. sortContextParts(ps) = iter[1..L]
  <2>1. DOMAIN ps = 1..L
    OBVIOUS
  <2>2. sortContextParts(ps) = FoldLeft(SettlePlace, ps, seq)
    BY <1>s, <2>1 DEF sortContextParts
  <2> QED
    BY <1>0, <2>2 DEF FoldLeft, MapThenFoldSet
<1>2. ASSUME NEW s \in SUBSET (1..L), s # {}
      PROVE  s \ {Max(s)} \in SUBSET (1..L) /\ seq[Max(s)] \in 1..L
  <2>1. Max(s) \in s /\ s \ {Max(s)} \in SUBSET (1..L)
    BY <1>2, LastPlace
  <2>2. Max(s) \in 1..L
    BY <2>1
  <2> QED
    BY <1>0, <2>1, <2>2
<1>3. Folds(g)
  <2>1. ASSUME NEW s \in SUBSET (1..L), s # {}
        PROVE  g[s] = SettlePlace(g[s \ {Max(s)}], seq[Max(s)])
    <3>1. g[s] = F[<<g[s \ {Max(s)}], seq[Max(s)]>>]
      BY <1>g, <2>1 DEF FoldsBy
    <3>2. g[s \ {Max(s)}] \in R
      BY <1>2, <2>1
    <3> QED
      BY <1>2, <1>F1, <2>1, <3>1, <3>2
  <2>2. g[{}] = ps
    BY <1>g DEF FoldsBy
  <2> QED
    BY <2>1, <2>2
<1>4. Folds(iter)
  <2> HIDE DEF Folds
  <2> QED
    BY <1>3
<1> HIDE DEF iter
<1>5. FoldsTyped(R, F, ps, seq, iter, L)
  <2>1. iter[{}] = ps
    BY <1>4
  <2>2. ASSUME NEW s \in SUBSET (1..L), s # {}, iter[s \ {Max(s)}] \in R
        PROVE  iter[s] = F[<<iter[s \ {Max(s)}], seq[Max(s)]>>]
    <3>1. iter[s] = SettlePlace(iter[s \ {Max(s)}], seq[Max(s)])
      BY <1>4, <2>2
    <3> QED
      BY <1>2, <2>2, <1>F1, <3>1
  <2> QED
    BY <2>1, <2>2 DEF FoldsTyped
<1>f. PICK f : InOrder(R, F, ps, seq, f, L) /\ f[L] = iter[1..L]
  BY <1>F2, <1>5, FoldsInOrder
<1>6. f \in [0..L -> R] /\ f[0] = ps /\ \A n \in 1..L : f[n] = F[<<f[n - 1], seq[n]>>]
  BY <1>f DEF InOrder
<1>7. \A n \in 1..L : f[n] = SettlePlace(f[n - 1], n)
  <2> SUFFICES ASSUME NEW n \in 1..L PROVE f[n] = SettlePlace(f[n - 1], n)
    OBVIOUS
  <2>1. n - 1 \in 0..L
    OBVIOUS
  <2>2. f[n - 1] \in R
    BY <1>6, <2>1
  <2> QED
    BY <1>0, <1>6, <1>F1, <2>2
<1> QED
  BY <1>1, <1>6, <1>7, <1>f, <1>R

\* The sort loses no part, adds none, and puts none before one that matters more.
LEMMA SortIs ==
    ASSUME NEW L \in Nat, NEW ps \in [1..L -> Part]
    PROVE  LET q == sortContextParts(ps)
           IN  q \in [1..L -> Part] /\ SameParts(ps, q, L) /\ Ordered(q, L, L)
<1>f. PICK f : /\ f \in [0..L -> [1..L -> Part]]
               /\ f[0] = ps
               /\ \A n \in 1..L : f[n] = SettlePlace(f[n - 1], n)
               /\ sortContextParts(ps) = f[L]
  BY SortSteps
<1> DEFINE T == {n \in Nat : SameParts(ps, f[n], L) /\ Ordered(f[n], n, L)}
<1>1. 0 \in T
  <2>1. SameParts(ps, ps, L)
    BY DEF SameParts
  <2>2. Ordered(ps, 0, L)
    BY DEF Ordered
  <2> QED
    BY <1>f, <2>1, <2>2
<1>2. ASSUME NEW n \in 1..L, n - 1 \in T PROVE n \in T
  <2>1. n \in Nat /\ n - 1 \in 0..L
    OBVIOUS
  <2>q. PICK q \in [1..L -> Part] : q = f[n - 1]
    BY <1>f, <2>1
  <2>2. SameParts(ps, q, L) /\ Ordered(q, n - 1, L)
    BY <1>2, <2>q
  <2>3. f[n] = SettlePlace(q, n)
    BY <1>f, <2>q
  <2>4. SameParts(q, f[n], L) /\ Ordered(f[n], n, L)
    BY <2>2, <2>3, SettlePlaceIs
  <2>5. SameParts(ps, f[n], L)
    BY <2>2, <2>4 DEF SameParts
  <2> QED
    BY <2>1, <2>4, <2>5
<1> HIDE DEF T
<1>3. \A n \in 0..L : n \in T
  BY <1>1, <1>2, AllUpTo
<1>4. L \in T /\ L \in 0..L
  BY <1>3
<1>5. SameParts(ps, f[L], L) /\ Ordered(f[L], L, L) /\ f[L] \in [1..L -> Part]
  BY <1>4, <1>f DEF T
<1> QED
  BY <1>5, <1>f

-----------------------------------------------------------------------------
(* The context of a prompt (Builder.Build).                                *)

Piece == [part : Part, len : Nat]

ContextState == [used : Nat, out : Seq(Piece), full : BOOLEAN]

\* What a part does to a context: nothing, no more part, or one more piece.
PartAdded(acc, p, next) ==
    /\ next \in ContextState
    /\ \/ acc.full /\ next = acc
       \/ ~acc.full /\ next.full /\ next.out = acc.out
       \/ ~acc.full /\ \E e \in Piece : e.part = p /\ next.out = Append(acc.out, e)

LEMMA AddPartIs ==
    ASSUME NEW acc \in ContextState, NEW p \in Part, NEW budget \in Int
    PROVE  PartAdded(acc, p, AddPart(acc, p, budget))
<1>o. PICK out \in Seq(Piece) : out = acc.out
  BY DEF ContextState
<1>u. PICK u \in Nat : u = acc.used
  BY DEF ContextState
<1>l. PICK l \in Nat : l = p.len
  BY DEF Part
<1>t. PICK t \in Nat : t = PartTokens(p)
  BY <1>l, TokensEstimated DEF PartTokens
<1>r. PICK rest \in Nat : rest = TrimToTokenBudget(l, budget - u)
  <2>1. CASE budget - u <= 0
    BY <2>1 DEF TrimToTokenBudget
  <2>2. CASE ~(budget - u <= 0)
    <3>1. budget - u \in Nat \ {0}
      BY <2>2
    <3> QED
      BY <3>1, CutEstimated
  <2> QED
    BY <2>1, <2>2
<1>0. \A k \in Nat : [part |-> p, len |-> k] \in Piece
  BY DEF Piece
<1>1. \A e \in Piece : Append(out, e) \in Seq(Piece)
  BY AppendedIs
<1>n. PICK next : next = AddPart(acc, p, budget)
  OBVIOUS
<1>2. CASE acc.full
  <2>1. next = acc
    BY <1>2, <1>n DEF AddPart
  <2> QED
    BY <1>2, <1>n, <2>1 DEF PartAdded
<1>3. CASE ~acc.full /\ u + t <= budget
  <2>e. PICK e \in Piece : e = [part |-> p, len |-> l]
    BY <1>0
  <2>1. next = [acc EXCEPT !.used = @ + PartTokens(p), !.out = Append(@, [part |-> p, len |-> p.len])]
    BY <1>3, <1>n, <1>u, <1>t DEF AddPart
  <2>2. next = [used |-> u + t, out |-> Append(out, e), full |-> acc.full]
    BY <1>o, <1>u, <1>l, <1>t, <2>e, <2>1 DEF ContextState
  <2>3. next \in ContextState
    BY <1>1, <2>2 DEF ContextState
  <2>4. e.part = p /\ next.out = Append(acc.out, e)
    BY <1>o, <2>e, <2>2
  <2> QED
    BY <1>3, <1>n, <2>3, <2>4 DEF PartAdded
<1>4. CASE ~acc.full /\ ~(u + t <= budget)
  <2>1. next = [acc EXCEPT !.full = TRUE,
                           !.out = IF rest = 0 THEN @ ELSE Append(@, [part |-> p, len |-> rest])]
    BY <1>4, <1>n, <1>u, <1>l, <1>t, <1>r DEF AddPart
  <2>2. CASE rest = 0
    <3>1. next = [used |-> u, out |-> out, full |-> TRUE]
      BY <1>o, <1>u, <2>1, <2>2 DEF ContextState
    <3>2. next \in ContextState /\ next.full /\ next.out = acc.out
      BY <1>o, <3>1 DEF ContextState
    <3> QED
      BY <1>4, <1>n, <3>2 DEF PartAdded
  <2>3. CASE rest # 0
    <3>e. PICK e \in Piece : e = [part |-> p, len |-> rest]
      BY <1>0
    <3>1. next = [used |-> u, out |-> Append(out, e), full |-> TRUE]
      BY <1>o, <1>u, <2>1, <2>3, <3>e DEF ContextState
    <3>2. next \in ContextState
      BY <1>1, <3>1 DEF ContextState
    <3>3. e.part = p /\ next.out = Append(acc.out, e)
      BY <1>o, <3>e, <3>1
    <3> QED
      BY <1>4, <1>n, <3>2, <3>3 DEF PartAdded
  <2> QED
    BY <2>2, <2>3
<1> QED
  BY <1>2, <1>3, <1>4

AddParts(parts, budget) == FoldLeft(LAMBDA acc, p : AddPart(acc, p, budget), EmptyContext, parts)

\* The parts are added one by one.
LEMMA AddSteps ==
    ASSUME NEW L \in Nat, NEW parts \in [1..L -> Part], NEW budget \in Int
    PROVE  \E f : /\ f \in [0..L -> ContextState]
                  /\ f[0] = EmptyContext
                  /\ \A n \in 1..L : f[n] = AddPart(f[n - 1], parts[n], budget)
                  /\ \A n \in 1..L : PartAdded(f[n - 1], parts[n], f[n])
                  /\ AddParts(parts, budget) = f[L]
<1>0. DOMAIN parts = 1..L /\ \A i \in 1..L : parts[i] \in Part
  OBVIOUS
<1>F. PICK F : F = [p \in ContextState \X Part |-> AddPart(p[1], p[2], budget)]
  OBVIOUS
<1>F0. ASSUME NEW p \in ContextState \X Part PROVE AddPart(p[1], p[2], budget) \in ContextState
  <2>1. p[1] \in ContextState /\ p[2] \in Part
    OBVIOUS
  <2>2. PartAdded(p[1], p[2], AddPart(p[1], p[2], budget))
    BY <2>1, AddPartIs
  <2> QED
    BY <2>2 DEF PartAdded
<1>F1. \A acc \in ContextState, b \in Part : F[<<acc, b>>] = AddPart(acc, b, budget)
  BY <1>F
<1>F2. Foldable(ContextState, Part, F, EmptyContext, parts, L)
  <2>1. F \in [ContextState \X Part -> ContextState]
    BY <1>F, <1>F0
  <2>2. EmptyContext \in ContextState
    <3>1. \A T : <<>> \in Seq(T)
      OBVIOUS
    <3> QED
      BY <3>1 DEF EmptyContext, ContextState
  <2> QED
    BY <1>0, <2>1, <2>2 DEF Foldable
<1>g. PICK g \in [SUBSET (1..L) -> ContextState] : FoldsBy(F, EmptyContext, parts, g, L)
  BY <1>F2, FoldExists
<1> DEFINE Folds(h) == h = [s \in SUBSET (1..L) |->
                              IF s = {} THEN EmptyContext
                              ELSE AddPart(h[s \ {Max(s)}], parts[Max(s)], budget)]
           iter == CHOOSE h : Folds(h)
<1>1. AddParts(parts, budget) = iter[1..L]
  BY <1>0 DEF AddParts, FoldLeft, MapThenFoldSet
<1>2. ASSUME NEW s \in SUBSET (1..L), s # {}
      PROVE  s \ {Max(s)} \in SUBSET (1..L) /\ parts[Max(s)] \in Part
  <2>1. Max(s) \in s /\ s \ {Max(s)} \in SUBSET (1..L)
    BY <1>2, LastPlace
  <2>2. Max(s) \in 1..L
    BY <2>1
  <2> QED
    BY <1>0, <2>1, <2>2
<1>3. Folds(g)
  <2>1. ASSUME NEW s \in SUBSET (1..L), s # {}
        PROVE  g[s] = AddPart(g[s \ {Max(s)}], parts[Max(s)], budget)
    <3>1. g[s] = F[<<g[s \ {Max(s)}], parts[Max(s)]>>]
      BY <1>g, <2>1 DEF FoldsBy
    <3>2. g[s \ {Max(s)}] \in ContextState
      BY <1>2, <2>1
    <3> QED
      BY <1>2, <1>F1, <2>1, <3>1, <3>2
  <2>2. g[{}] = EmptyContext
    BY <1>g DEF FoldsBy
  <2> QED
    BY <2>1, <2>2
<1>4. Folds(iter)
  <2> HIDE DEF Folds
  <2> QED
    BY <1>3
<1> HIDE DEF iter
<1>5. FoldsTyped(ContextState, F, EmptyContext, parts, iter, L)
  <2>1. iter[{}] = EmptyContext
    BY <1>4
  <2>2. ASSUME NEW s \in SUBSET (1..L), s # {}, iter[s \ {Max(s)}] \in ContextState
        PROVE  iter[s] = F[<<iter[s \ {Max(s)}], parts[Max(s)]>>]
    <3>1. iter[s] = AddPart(iter[s \ {Max(s)}], parts[Max(s)], budget)
      BY <1>4, <2>2
    <3> QED
      BY <1>2, <2>2, <1>F1, <3>1
  <2> QED
    BY <2>1, <2>2 DEF FoldsTyped
<1>f. PICK f : InOrder(ContextState, F, EmptyContext, parts, f, L) /\ f[L] = iter[1..L]
  BY <1>F2, <1>5, FoldsInOrder
<1>6. /\ f \in [0..L -> ContextState] /\ f[0] = EmptyContext
      /\ \A n \in 1..L : f[n] = F[<<f[n - 1], parts[n]>>]
  BY <1>f DEF InOrder
<1>7. ASSUME NEW n \in 1..L
      PROVE  f[n] = AddPart(f[n - 1], parts[n], budget) /\ PartAdded(f[n - 1], parts[n], f[n])
  <2>1. n - 1 \in 0..L /\ parts[n] \in Part
    OBVIOUS
  <2>2. f[n - 1] \in ContextState
    BY <1>6, <2>1
  <2>3. f[n] = AddPart(f[n - 1], parts[n], budget)
    BY <1>6, <1>F1, <2>1, <2>2
  <2> QED
    BY <2>1, <2>2, <2>3, AddPartIs
<1> QED
  BY <1>1, <1>6, <1>7, <1>f

\* The pieces of out are the first ones of parts, up to place n.
FirstParts(out, parts, n) ==
    /\ out \in Seq(Piece) /\ Len(out) <= n
    /\ \A i \in 1..Len(out) : out[i].part = parts[i]

LEMMA PartsAdded ==
    ASSUME NEW L \in Nat, NEW parts \in [1..L -> Part], NEW budget \in Int
    PROVE  FirstParts(AddParts(parts, budget).out, parts, L)
<1>f. PICK f : /\ f \in [0..L -> ContextState]
               /\ f[0] = EmptyContext
               /\ \A n \in 1..L : f[n] = AddPart(f[n - 1], parts[n], budget)
               /\ \A n \in 1..L : PartAdded(f[n - 1], parts[n], f[n])
               /\ AddParts(parts, budget) = f[L]
  BY AddSteps
<1> DEFINE T == {n \in Nat : FirstParts(f[n].out, parts, n) /\ (f[n].full \/ Len(f[n].out) = n)}
<1>1. 0 \in T
  <2>e. PICK e \in Seq(Piece) : e = <<>>
    <3>1. \A S : <<>> \in Seq(S)
      OBVIOUS
    <3> QED
      BY <3>1
  <2>1. Len(e) = 0 /\ \A i : i \notin 1..0
    BY <2>e
  <2>2. f[0].out = e
    BY <1>f, <2>e DEF EmptyContext
  <2>3. FirstParts(e, parts, 0)
    BY <2>1 DEF FirstParts
  <2> QED
    BY <2>1, <2>2, <2>3
<1>2. ASSUME NEW n \in 1..L, n - 1 \in T PROVE n \in T
  <2>0. n \in Nat /\ n - 1 \in 0..L /\ n \in 0..L
    OBVIOUS
  <2>o. PICK out \in Seq(Piece) : out = f[n - 1].out
    BY <1>f, <2>0 DEF ContextState
  <2>m. PICK m \in Nat : m = Len(out)
    OBVIOUS
  <2>1. m <= n - 1 /\ \A i \in 1..m : out[i].part = parts[i]
    BY <1>2, <2>o, <2>m DEF FirstParts
  <2>2. f[n - 1].full \/ m = n - 1
    BY <1>2, <2>o, <2>m
  <2>3. PartAdded(f[n - 1], parts[n], f[n])
    BY <1>f
  <2>4. FirstParts(out, parts, n)
    BY <2>0, <2>1, <2>m DEF FirstParts
  <2>5. CASE f[n - 1].full /\ f[n] = f[n - 1]
    BY <2>0, <2>4, <2>5, <2>o
  <2>6. CASE f[n].full /\ f[n].out = out
    BY <2>0, <2>4, <2>6
  <2>7. ASSUME NEW e \in Piece, ~f[n - 1].full, e.part = parts[n], f[n].out = Append(out, e)
        PROVE  n \in T
    <3>p. PICK p \in Seq(Piece) : p = Append(out, e)
      BY AppendedIs
    <3>1. Len(p) = m + 1 /\ m + 1 = n /\ p[m + 1] = e /\ \A i \in 1..m : p[i] = out[i]
      BY <2>0, <2>2, <2>7, <2>m, <3>p, AppendedIs
    <3>2. ASSUME NEW i \in 1..n PROVE p[i].part = parts[i]
      <4>1. CASE i = n
        BY <2>7, <3>1, <4>1
      <4>2. CASE i # n
        <5>1. i \in 1..m
          BY <3>1, <4>2, <2>0
        <5> QED
          BY <2>1, <3>1, <5>1
      <4> QED
        BY <4>1, <4>2
    <3>3. FirstParts(p, parts, n) /\ Len(p) = n
      BY <2>0, <3>1, <3>2 DEF FirstParts
    <3> QED
      BY <2>0, <2>7, <3>3, <3>p
  <2> HIDE DEF T
  <2> QED
    BY <2>3, <2>5, <2>6, <2>7, <2>o DEF PartAdded
<1> HIDE DEF T
<1>3. \A n \in 0..L : n \in T
  BY <1>1, <1>2, AllUpTo
<1>4. L \in T
  BY <1>3
<1> QED
  BY <1>4, <1>f DEF T

\* No part is left out of a context for one that matters less.
MostImportant(offered, out) ==
    \A p \in ToSet(offered) \ {out[i].part : i \in DOMAIN out} :
       \A k \in {out[i].part : i \in DOMAIN out} : k.priority <= p.priority

LEMMA ContextIs ==
    ASSUME NEW offered \in Seq(Part), NEW budget \in Int
    PROVE  LET out == AddParts(sortContextParts(offered), budget).out
           IN  out \in Seq(Piece) /\ MostImportant(offered, out)
<1>L. PICK L \in Nat : L = Len(offered)
  OBVIOUS
<1>0. offered \in [1..L -> Part] /\ DOMAIN offered = 1..L
  BY <1>L
<1>s. PICK sorted \in [1..L -> Part] : sorted = sortContextParts(offered)
  BY <1>0, SortIs
<1>1. SameParts(offered, sorted, L) /\ Ordered(sorted, L, L)
  BY <1>0, <1>s, SortIs
<1>o. PICK out : out = AddParts(sorted, budget).out
  OBVIOUS
<1>2. FirstParts(out, sorted, L)
  BY <1>o, PartsAdded
<1>m. PICK m \in 0..L : m = Len(out)
  <2>1. Len(out) \in Nat /\ Len(out) <= L
    BY <1>2 DEF FirstParts
  <2> QED
    BY <2>1
<1>3. out \in Seq(Piece) /\ DOMAIN out = 1..m /\ \A i \in 1..m : out[i].part = sorted[i]
  BY <1>2, <1>m DEF FirstParts
<1>4. ASSUME NEW p \in ToSet(offered) \ {out[i].part : i \in DOMAIN out},
             NEW k \in {out[i].part : i \in DOMAIN out}
      PROVE  k.priority <= p.priority
  <2>1. PICK i \in 1..m : k = sorted[i]
    BY <1>3
  <2>2. PICK h \in 1..L : p = offered[h]
    BY <1>0 DEF ToSet
  <2>3. PICK j \in 1..L : p = sorted[j]
    BY <1>1, <2>2 DEF SameParts
  <2>4. j \notin 1..m
    BY <1>3, <2>3
  <2>5. i \in 1..L /\ i < j
    BY <2>4
  <2> QED
    BY <1>1, <2>1, <2>3, <2>5 DEF Ordered
<1>5. MostImportant(offered, out)
  BY <1>4 DEF MostImportant
<1> QED
  BY <1>o, <1>s, <1>3, <1>5

-----------------------------------------------------------------------------
(* What a context offers (ContextParts).                                   *)

\* Where a snippet comes from; "other" stands for any name the code does not know.
Sources == {"selection", "editor", "mention", "auto", "codebase", "terminal", "folder", "other"}

Snippet == [source : Sources, text : Nat]

Context == [workspace : Nat, selection : Nat, editor : Nat, tree : Nat, snippets : Seq(Snippet)]

LEMMA PromptedIs ==
    ASSUME NEW kind \in Kinds, NEW priority \in Nat, NEW text \in Nat
    PROVE  Prompted(kind, priority, text) \in Part
<1>1. Labels \in [Kinds -> Nat]
  BY PromptBudgetAssumption DEF Kinds
<1>l. PICK l \in Nat : l = Labels[kind]
  BY <1>1
<1> QED
  BY <1>l DEF Prompted, Part

LEMMA AllPartsAre ==
    ASSUME NEW ctx \in Context
    PROVE  AllParts(ctx) \in Seq(Part)
<1>0. /\ ctx.workspace \in Nat /\ ctx.selection \in Nat /\ ctx.editor \in Nat /\ ctx.tree \in Nat
      /\ ctx.snippets \in Seq(Snippet)
  BY DEF Context
<1>k. /\ "workspace" \in Kinds /\ "selection" \in Kinds /\ "snippet" \in Kinds
      /\ "tree" \in Kinds /\ "editor" \in Kinds
  BY DEF Kinds
<1>a. PICK a \in Part : a = Prompted("workspace", 10, ctx.workspace)
  BY <1>0, <1>k, PromptedIs
<1>b. PICK b \in Part : b = Prompted("selection", 0, ctx.selection)
  BY <1>0, <1>k, PromptedIs
<1>c. PICK c \in Part : c = treePrompt(ctx.tree)
  <2>w. PICK w \in Nat : w = MaxTree
    BY PromptBudgetAssumption
  <2>t. PICK t \in Nat : t = ctx.tree
    BY <1>0
  <2>1. Min({t, w}) \in Nat
    <3>1. {t, w} \in SUBSET Nat /\ {t, w} # {}
      OBVIOUS
    <3>2. PICK n \in {t, w} : \A m \in {t, w} : n <= m
      BY <3>1, SmallestOne
    <3>3. Min({t, w}) \in {t, w}
      BY <3>2 DEF Min
    <3> QED
      BY <3>3
  <2>2. Min({ctx.tree, MaxTree}) \in Nat
    BY <2>1, <2>w, <2>t
  <2> QED
    BY <1>k, <2>2, PromptedIs DEF treePrompt
<1>d. PICK d \in Part : d = Prompted("editor", 1, ctx.editor)
  BY <1>0, <1>k, PromptedIs
<1>n. PICK n \in Nat : n = Len(ctx.snippets)
  BY <1>0
<1>s. PICK s \in [1..n -> Part] : s = [i \in DOMAIN ctx.snippets |-> snippetPrompt(ctx.snippets[i])]
  <2>1. DOMAIN ctx.snippets = 1..n
    BY <1>0, <1>n
  <2>2. ASSUME NEW i \in 1..n PROVE snippetPrompt(ctx.snippets[i]) \in Part
    <3>s. PICK sn \in Snippet : sn = ctx.snippets[i]
      BY <1>0, <1>n
    <3>1. SnippetPriority(sn.source) \in Nat
      BY DEF SnippetPriority
    <3>2. sn.text \in Nat
      BY DEF Snippet
    <3>3. snippetPrompt(sn) \in Part
      BY <1>k, <3>1, <3>2, PromptedIs DEF snippetPrompt
    <3> QED
      BY <3>s, <3>3
  <2> QED
    BY <2>1, <2>2
<1>1. s \in Seq(Part)
  BY RowIs
<1>2. <<a, b>> \in Seq(Part) /\ <<c, d>> \in Seq(Part)
  OBVIOUS
<1>3. (<<a, b>> \o s) \o <<c, d>> \in Seq(Part)
  <2>1. <<a, b>> \o s \in Seq(Part)
    BY <1>1, <1>2, JoinedIs
  <2> QED
    BY <1>2, <2>1, JoinedIs
<1> QED
  BY <1>3, <1>a, <1>b, <1>c, <1>d, <1>s DEF AllParts

LEMMA AddIfAnyIs ==
    ASSUME NEW parts \in Seq(Part), NEW part \in Part
    PROVE  AddIfAny(parts, part) \in Seq(Part)
<1>1. Append(parts, part) \in Seq(Part)
  BY AppendedIs
<1> QED
  BY <1>1 DEF AddIfAny

\* The parts with a text are taken one by one.
LEMMA OfferedSteps ==
    ASSUME NEW ctx, NEW all \in Seq(Part), all = AllParts(ctx), NEW L \in Nat, L = Len(all)
    PROVE  \E f : /\ f \in [0..L -> Seq(Part)]
                  /\ f[0] = <<>>
                  /\ \A n \in 1..L : f[n] = AddIfAny(f[n - 1], all[n])
                  /\ ContextParts(ctx) = f[L]
<1>0. DOMAIN all = 1..L /\ \A i \in 1..L : all[i] \in Part
  OBVIOUS
<1>R. PICK R : R = Seq(Part)
  OBVIOUS
<1>F. PICK F : F = [p \in R \X Part |-> AddIfAny(p[1], p[2])]
  OBVIOUS
<1>F1. \A q \in R, p \in Part : F[<<q, p>>] = AddIfAny(q, p)
  BY <1>F
<1>F2. Foldable(R, Part, F, <<>>, all, L)
  <2>1. \A p \in R \X Part : AddIfAny(p[1], p[2]) \in R
    BY <1>R, AddIfAnyIs
  <2>2. F \in [R \X Part -> R]
    BY <1>F, <2>1
  <2>3. <<>> \in R
    <3>1. \A S : <<>> \in Seq(S)
      OBVIOUS
    <3> QED
      BY <1>R, <3>1
  <2> QED
    BY <1>0, <2>2, <2>3 DEF Foldable
<1>g. PICK g \in [SUBSET (1..L) -> R] : FoldsBy(F, <<>>, all, g, L)
  BY <1>F2, FoldExists
<1> DEFINE Folds(h) == h = [s \in SUBSET (1..L) |->
                              IF s = {} THEN <<>> ELSE AddIfAny(h[s \ {Max(s)}], all[Max(s)])]
           iter == CHOOSE h : Folds(h)
<1>1. ContextParts(ctx) = iter[1..L]
  BY <1>0 DEF ContextParts, FoldLeft, MapThenFoldSet
<1>2. ASSUME NEW s \in SUBSET (1..L), s # {}
      PROVE  s \ {Max(s)} \in SUBSET (1..L) /\ all[Max(s)] \in Part
  <2>1. Max(s) \in s /\ s \ {Max(s)} \in SUBSET (1..L)
    BY <1>2, LastPlace
  <2>2. Max(s) \in 1..L
    BY <2>1
  <2> QED
    BY <1>0, <2>1, <2>2
<1>3. Folds(g)
  <2>1. ASSUME NEW s \in SUBSET (1..L), s # {}
        PROVE  g[s] = AddIfAny(g[s \ {Max(s)}], all[Max(s)])
    <3>1. g[s] = F[<<g[s \ {Max(s)}], all[Max(s)]>>]
      BY <1>g, <2>1 DEF FoldsBy
    <3>2. g[s \ {Max(s)}] \in R
      BY <1>2, <2>1
    <3> QED
      BY <1>2, <1>F1, <2>1, <3>1, <3>2
  <2>2. g[{}] = <<>>
    BY <1>g DEF FoldsBy
  <2> QED
    BY <2>1, <2>2
<1>4. Folds(iter)
  <2> HIDE DEF Folds
  <2> QED
    BY <1>3
<1> HIDE DEF iter
<1>5. FoldsTyped(R, F, <<>>, all, iter, L)
  <2>1. iter[{}] = <<>>
    BY <1>4
  <2>2. ASSUME NEW s \in SUBSET (1..L), s # {}, iter[s \ {Max(s)}] \in R
        PROVE  iter[s] = F[<<iter[s \ {Max(s)}], all[Max(s)]>>]
    <3>1. iter[s] = AddIfAny(iter[s \ {Max(s)}], all[Max(s)])
      BY <1>4, <2>2
    <3> QED
      BY <1>2, <2>2, <1>F1, <3>1
  <2> QED
    BY <2>1, <2>2 DEF FoldsTyped
<1>f. PICK f : InOrder(R, F, <<>>, all, f, L) /\ f[L] = iter[1..L]
  BY <1>F2, <1>5, FoldsInOrder
<1>6. f \in [0..L -> R] /\ f[0] = <<>> /\ \A n \in 1..L : f[n] = F[<<f[n - 1], all[n]>>]
  BY <1>f DEF InOrder
<1>7. \A n \in 1..L : f[n] = AddIfAny(f[n - 1], all[n])
  <2> SUFFICES ASSUME NEW n \in 1..L PROVE f[n] = AddIfAny(f[n - 1], all[n])
    OBVIOUS
  <2>1. n - 1 \in 0..L
    OBVIOUS
  <2>2. f[n - 1] \in R
    BY <1>6, <2>1
  <2> QED
    BY <1>0, <1>6, <1>F1, <2>2
<1> QED
  BY <1>1, <1>6, <1>7, <1>f, <1>R

LEMMA OfferedAre ==
    ASSUME NEW ctx \in Context
    PROVE  ContextParts(ctx) \in Seq(Part)
<1>a. PICK all \in Seq(Part) : all = AllParts(ctx)
  BY AllPartsAre
<1>L. PICK L \in Nat : L = Len(all)
  OBVIOUS
<1>f. PICK f : f \in [0..L -> Seq(Part)] /\ ContextParts(ctx) = f[L]
  BY <1>a, <1>L, OfferedSteps
<1> QED
  BY <1>f

-----------------------------------------------------------------------------
(* The prompt of a chat, from the handler and from its job.                *)

\* Every request has a message (validateChatRequest refuses the others).
Request ==
    [system : Nat, tools : Nat, ctx : Context, lines : Seq(Nat) \ {<<>>}, asked : Seq(Int),
     configured : Int, runner : Int, found : Seq(Nat)]

LEMMA EnrichedIs ==
    ASSUME NEW ctx \in Context, NEW found \in Seq(Nat)
    PROVE  /\ EnrichContextFromSearch(ctx, found) \in Context
           /\ found = <<>> => EnrichContextFromSearch(ctx, found) = ctx
<1>n. PICK n \in Nat : n = Len(found)
  OBVIOUS
<1>0. DOMAIN found = 1..n /\ \A i \in 1..n : found[i] \in Nat
  BY <1>n
<1>s. PICK s \in Seq(Snippet) : s = ctx.snippets
  BY DEF Context
<1>m. PICK m \in [1..n -> Snippet] :
        m = [i \in DOMAIN found |-> [source |-> "codebase", text |-> found[i]]]
  <2>s. "codebase" \in Sources
    BY DEF Sources
  <2>t. \A t \in Nat : [source |-> "codebase", text |-> t] \in Snippet
    BY <2>s DEF Snippet
  <2>1. \A i \in 1..n : [source |-> "codebase", text |-> found[i]] \in Snippet
    BY <1>0, <2>t
  <2> QED
    BY <1>0, <2>1
<1>1. m \in Seq(Snippet) /\ Len(m) = n
  BY RowIs
<1>j. PICK j \in Seq(Snippet) : j = s \o m
  BY <1>1, JoinedIs
<1>2. EnrichContextFromSearch(ctx, found) = [ctx EXCEPT !.snippets = j]
  BY <1>s, <1>m, <1>j DEF EnrichContextFromSearch
<1>3. [ctx EXCEPT !.snippets = j] \in Context
  BY DEF Context
<1>4. ASSUME found = <<>> PROVE [ctx EXCEPT !.snippets = j] = ctx
  <2>1. n = 0
    BY <1>4, <1>n
  <2>2. j = s
    BY <1>1, <1>j, <2>1
  <2> QED
    BY <1>s, <2>2 DEF Context
<1> QED
  BY <1>2, <1>3, <1>4

\* A context built for any budget.
LEMMA BuildIs ==
    ASSUME NEW system \in Nat, NEW ctx \in Context, NEW total \in Int
    PROVE  /\ Build(system, ctx, total) \in Seq(Piece)
           /\ MostImportant(ContextParts(ctx), Build(system, ctx, total))
<1>b. PICK budget \in Int : budget = ContextBudgetAfterReserve(total, system)
  <2>m. PICK m \in Nat : m = MinContextBudget
    BY PromptBudgetAssumption
  <2>r. PICK r \in Nat : r = SystemReserveTokens
    BY PromptBudgetAssumption
  <2>d. PICK d \in Int : d = total - system - r
    OBVIOUS
  <2>1. Max({m, d}) = IF m >= d THEN m ELSE d
    BY MaxOfTwo
  <2>2. Max({m, d}) \in Int
    BY <2>1
  <2> QED
    BY <2>m, <2>r, <2>d, <2>2 DEF ContextBudgetAfterReserve
<1>o. PICK offered \in Seq(Part) : offered = ContextParts(ctx)
  BY OfferedAre
<1>1. Build(system, ctx, total) = AddParts(sortContextParts(offered), budget).out
  BY <1>b, <1>o DEF Build, AddParts
<1> QED
  BY <1>1, <1>o, ContextIs

LEMMA ContextLengthIs ==
    ASSUME NEW out \in Seq(Piece)
    PROVE  ContextLength(out) \in Int
<1>0. Len(out) \in Nat /\ DOMAIN out = 1..Len(out) /\ \A i \in 1..Len(out) : out[i] \in Piece
  OBVIOUS
<1>t. PICK t : t = [i \in DOMAIN out |-> out[i].len + 2]
  OBVIOUS
<1>1. \A i \in 1..Len(out) : t[i] \in Nat
  <2>1. \A i \in 1..Len(out) : out[i].len \in Nat
    BY <1>0 DEF Piece
  <2> QED
    BY <1>0, <1>t, <2>1
<1>2. Numbers(t, Len(out)) /\ \A i \in 1..Len(out) : t[i] >= 0
  BY <1>0, <1>1, <1>t DEF Numbers
<1>s. PICK s \in Nat : s = SumOf(t)
  BY <1>2, SumNat
<1>3. ContextLength(out) = IF out = <<>> THEN 0 ELSE s - 2
  BY <1>t, <1>s DEF ContextLength
<1> QED
  BY <1>3

LEMMA ContextEstimated ==
    ASSUME NEW ctx \in Context
    PROVE  estimateContextTokens(ctx) \in Nat
<1>0. /\ ctx.workspace \in Int /\ ctx.selection \in Int /\ ctx.editor \in Int
      /\ ctx.snippets \in Seq(Snippet)
  BY DEF Context
<1>s. PICK s \in Seq(Snippet) : s = ctx.snippets
  BY <1>0
<1>1. Len(s) \in Nat /\ DOMAIN s = 1..Len(s) /\ \A i \in 1..Len(s) : s[i] \in Snippet
  OBVIOUS
<1>t. PICK t : t = [i \in DOMAIN s |-> EstimateTokens(s[i].text)]
  OBVIOUS
<1>2. ASSUME NEW i \in 1..Len(s) PROVE t[i] \in Nat
  <2>1. s[i].text \in Int
    BY <1>1 DEF Snippet
  <2> QED
    BY <1>1, <1>t, <2>1, TokensEstimated
<1>3. Numbers(t, Len(s)) /\ \A i \in 1..Len(s) : t[i] >= 0
  BY <1>1, <1>2, <1>t DEF Numbers
<1>4. SumOf(t) \in Nat
  BY <1>3, SumNat
<1>5. /\ EstimateTokens(ctx.workspace) \in Nat /\ EstimateTokens(ctx.selection) \in Nat
      /\ EstimateTokens(ctx.editor) \in Nat
  BY <1>0, TokensEstimated
<1>6. estimateContextTokens(ctx) = SumOf(t) + EstimateTokens(ctx.workspace)
                                     + EstimateTokens(ctx.selection) + EstimateTokens(ctx.editor)
  BY <1>s, <1>t DEF estimateContextTokens
<1> QED
  BY <1>4, <1>5, <1>6

LEMMA EffectiveIs ==
    ASSUME NEW configured \in Int, NEW runner \in Int
    PROVE  EffectiveBudget(configured, runner) \in Int
<1>g. PICK given : given = {b \in {configured, runner} : b > 0}
  OBVIOUS
<1>1. DefaultTokenBudget \in Int
  BY PromptBudgetAssumption
<1>2. ASSUME given # {} PROVE Min(given) \in Int
  <2>1. given \in SUBSET Nat
    BY <1>g
  <2>2. PICK n \in given : \A m \in given : n <= m
    BY <1>2, <2>1, SmallestOne
  <2>3. Min(given) \in given
    BY <2>2 DEF Min
  <2>4. \A b \in given : b \in Int
    BY <1>g
  <2> QED
    BY <2>3, <2>4
<1> QED
  BY <1>g, <1>1, <1>2 DEF EffectiveBudget

\* The answer takes no more than what is kept free for it.
LEMMA AnswerIs ==
    ASSUME NEW asked \in Seq(Int)
    PROVE  /\ generateMaxTokens(asked) \in Nat /\ GenerateParams(asked) \in Nat
           /\ GenerateParams(asked) <= generateMaxTokens(asked)
<1>d. PICK d \in Nat : d = DefaultMaxTokens
  BY PromptBudgetAssumption
<1>1. CASE asked = <<>>
  BY <1>d, <1>1 DEF generateMaxTokens, GenerateParams
<1>2. CASE asked # <<>>
  <2>a. PICK a \in Int : a = asked[1]
    <3>1. Len(asked) \in Nat /\ Len(asked) > 0
      BY <1>2
    <3> QED
      BY <3>1
  <2>1. Max({0, a}) = IF 0 >= a THEN 0 ELSE a
    BY MaxOfTwo
  <2>2. GenerateParams(asked) = IF 0 >= a THEN 0 ELSE a
    BY <1>2, <2>a, <2>1 DEF GenerateParams
  <2>3. generateMaxTokens(asked) = IF a > 0 THEN a ELSE d
    BY <1>d, <1>2, <2>a DEF generateMaxTokens
  <2> QED
    BY <2>2, <2>3
<1> QED
  BY <1>1, <1>2

\* The request as the handler sends it.
LEMMA HandledIs ==
    ASSUME NEW req \in Request
    PROVE  LET h == Handled(req)
           IN  /\ h.system = req.system /\ h.asked = req.asked
               /\ h.ctx = EnrichContextFromSearch(req.ctx, req.found) /\ h.ctx \in Context
               /\ h.lines = TrimChatLines(req.lines,
                              HistoryTokenBudget(EffectiveBudget(req.configured, req.runner),
                                                 EstimateTokens(req.system), estimateContextTokens(h.ctx),
                                                 generateMaxTokens(req.asked)))
<1>c. PICK c \in Context : c = EnrichContextFromSearch(req.ctx, req.found)
  BY EnrichedIs DEF Request
<1>r. PICK r : r = [req EXCEPT !.ctx = c]
  OBVIOUS
<1>1. /\ r.system = req.system /\ r.asked = req.asked /\ r.lines = req.lines
      /\ r.configured = req.configured /\ r.runner = req.runner /\ r.ctx = c
      /\ r = [system |-> req.system, tools |-> req.tools, ctx |-> c, lines |-> req.lines,
              asked |-> req.asked, configured |-> req.configured, runner |-> req.runner,
              found |-> req.found]
  BY <1>r DEF Request
<1>l. PICK l : l = trimChatHistoryByTokens(r, EffectiveBudget(r.configured, r.runner))
  OBVIOUS
<1>h. PICK h : h = Handled(req)
  OBVIOUS
<1>2. h = [r EXCEPT !.lines = l]
  BY <1>c, <1>r, <1>l, <1>h DEF Handled
<1>3. h.system = req.system /\ h.asked = req.asked /\ h.ctx = c /\ h.lines = l
  BY <1>1, <1>2
<1>4. l = TrimChatLines(req.lines,
            HistoryTokenBudget(EffectiveBudget(req.configured, req.runner),
                               EstimateTokens(req.system), estimateContextTokens(c),
                               generateMaxTokens(req.asked)))
  BY <1>1, <1>l DEF trimChatHistoryByTokens
<1> QED
  BY <1>c, <1>h, <1>3, <1>4

\* The part of PromptFits that does not depend on who sends the prompt.
LEMMA FitsIf ==
    ASSUME NEW req \in Request, NEW found \in Seq(Nat), NEW got,
           got.lines = Handled(req).lines, got.answer = GenerateParams(req.asked),
           got.system \in Nat, got.context \in Seq(Piece),
           MostImportant(ContextParts(EnrichContextFromSearch(Handled(req).ctx, found)), got.context)
    PROVE  PromptFits(req, found, got)
<1>0. /\ req.system \in Int /\ req.configured \in Int /\ req.runner \in Int
      /\ req.asked \in Seq(Int) /\ req.lines \in Seq(Nat) /\ req.lines # <<>>
  BY DEF Request
<1>c. PICK c \in Context : c = Handled(req).ctx
  BY HandledIs
<1>T. PICK total \in Int : total = EffectiveBudget(req.configured, req.runner)
  BY <1>0, EffectiveIs
<1>s. PICK system \in Nat : system = EstimateTokens(req.system)
  BY <1>0, TokensEstimated
<1>x. PICK context \in Nat : context = estimateContextTokens(c)
  BY ContextEstimated
<1>g. PICK generate \in Nat : generate = generateMaxTokens(req.asked)
  BY <1>0, AnswerIs
<1>a. PICK answer \in Nat : answer = got.answer
  BY <1>0, AnswerIs
<1>1. answer <= generate
  BY <1>0, <1>g, <1>a, AnswerIs
<1>r. PICK reserve \in Nat : reserve = SystemReserveTokens
  BY PromptBudgetAssumption
<1>m. PICK margin \in Nat : margin = SafetyMargin
  BY PromptBudgetAssumption
<1>w. PICK notice \in Nat : notice = TruncatedNotice
  BY PromptBudgetAssumption
<1>n. PICK least \in Nat : least = MinContextBudget
  BY PromptBudgetAssumption
<1>o. PICK overhead \in Nat : overhead = MessageOverhead
  BY PromptBudgetAssumption
<1>2. overhead < least
  BY <1>n, <1>o, PromptBudgetAssumption
<1>l. PICK left \in Int : left = total - system - context - generate - reserve - margin
  OBVIOUS
<1>b. PICK budget \in Nat : budget = HistoryTokenBudget(total, system, context, generate)
                            /\ budget = IF least >= left THEN least ELSE left
  <2>0. least \in Int
    OBVIOUS
  <2>1. Max({least, left}) = IF least >= left THEN least ELSE left
    BY <2>0, MaxOfTwo
  <2>2. total - (system + context + generate + reserve + margin) = left
    BY <1>l
  <2>3. HistoryTokenBudget(total, system, context, generate) = Max({least, left})
    BY <1>n, <1>r, <1>m, <2>2 DEF HistoryTokenBudget
  <2>4. Max({least, left}) \in Nat
    BY <2>1
  <2> QED
    BY <2>1, <2>3, <2>4
<1>3. got.lines = TrimChatLines(req.lines, budget)
  <2>1. Handled(req).lines = TrimChatLines(req.lines,
                                HistoryTokenBudget(EffectiveBudget(req.configured, req.runner),
                                     EstimateTokens(req.system), estimateContextTokens(Handled(req).ctx),
                                     generateMaxTokens(req.asked)))
    BY HandledIs
  <2> QED
    BY <1>b, <1>c, <1>T, <1>s, <1>x, <1>g, <2>1
<1>4. KeptLines(req.lines, budget, got.lines)
  <2>1. MessageOverhead < budget
    BY <1>b, <1>n, <1>o, <1>2
  <2> QED
    BY <1>0, <1>3, <2>1, LinesTrimmed
<1>L. PICK lines \in Nat : lines = LinesTokens(got.lines)
  BY <1>4, LinesEstimated DEF KeptLines
<1>5. lines <= budget + notice
  BY <1>4, <1>L, <1>w DEF KeptLines
<1>p. PICK sent \in Nat : sent = EstimateTokens(got.system)
  <2>1. got.system \in Int
    OBVIOUS
  <2> QED
    BY <2>1, TokensEstimated
<1>q. PICK built \in Nat : built = EstimateTokens(ContextLength(got.context))
  BY ContextLengthIs, TokensEstimated
<1>6. PromptTokens(got) = sent + built + lines
  BY <1>p, <1>q, <1>L DEF PromptTokens
<1>7. Unforeseen(req, got) = (built - context) + (sent - system) + notice
  BY <1>p, <1>q, <1>s, <1>x, <1>c, <1>w DEF Unforeseen
<1>8. \/ PromptTokens(got) + got.answer <= total
      \/ Unforeseen(req, got) > SystemReserveTokens + SafetyMargin
      \/ left < MinContextBudget
  <2> SUFFICES ASSUME (built - context) + (sent - system) + notice <= reserve + margin, left >= least
               PROVE  (sent + built + lines) + answer <= total
    BY <1>6, <1>7, <1>a, <1>r, <1>m, <1>n
  <2>1. budget = left
    BY <1>b
  <2> QED
    BY <1>1, <1>5, <1>l, <2>1
<1>9. /\ Len(got.lines) > 0
      /\ \/ got.lines[Len(got.lines)] = req.lines[Len(req.lines)]
         \/ Len(got.lines) = 1 /\ got.lines[1] > 0
  <2>k. PICK k \in Seq(Nat) : k = got.lines
    BY <1>4 DEF KeptLines
  <2>1. k # <<>>
    BY <1>4, <2>k DEF KeptLines
  <2>2. Len(k) > 0
    BY <2>1
  <2> QED
    BY <1>4, <2>k, <2>2 DEF KeptLines
<1>10. \A p \in ToSet(ContextParts(EnrichContextFromSearch(Handled(req).ctx, found))) \ Kept(got) :
         \A k \in Kept(got) : k.priority <= p.priority
  BY DEF MostImportant, Kept
<1>11. left = total - EstimateTokens(req.system) - estimateContextTokens(Handled(req).ctx)
               - generateMaxTokens(req.asked) - SystemReserveTokens - SafetyMargin
  BY <1>l, <1>s, <1>x, <1>c, <1>g, <1>r, <1>m
<1> QED
  BY <1>T, <1>8, <1>9, <1>10, <1>11 DEF PromptFits

\* Chats fit: for every request, whatever the searches find and whatever is in the cache,
\* the prompt that the handler sends, and the one its job sends after the chat was deferred
\* (handleChat, ChatService.Complete), leaves the answer its room unless what the handler did
\* not count outgrows its reserves or nothing was left for the messages; the newest message
\* is never left out, and no part of the context is left out for one that matters less.
THEOREM ChatPromptsFit ==
    \A req \in Request, found \in Seq(Nat) : \A cache : TrueCache(cache) =>
       /\ PromptFits(req, <<>>, HandlerPrompt(req, cache))
       /\ PromptFits(req, found, Complete(req, found, cache))
<1> SUFFICES ASSUME NEW req \in Request, NEW found \in Seq(Nat), NEW cache, TrueCache(cache)
             PROVE  /\ PromptFits(req, <<>>, HandlerPrompt(req, cache))
                    /\ PromptFits(req, found, Complete(req, found, cache))
  OBVIOUS
<1>0. /\ req.system \in Nat /\ req.system \in Int /\ req.tools \in Nat /\ req.configured \in Int /\ req.runner \in Int
  BY DEF Request
<1>h. PICK h : h = Handled(req)
  OBVIOUS
<1>c. PICK c \in Context : c = h.ctx
  BY <1>h, HandledIs
<1>1. h.asked = req.asked
  BY <1>h, HandledIs
<1>e. <<>> \in Seq(Nat)
  OBVIOUS
<1>2. PromptFits(req, <<>>, HandlerPrompt(req, cache))
  <2>s. PICK system \in Nat : system = req.system + req.tools
    BY <1>0
  <2>t. PICK total \in Int : total = EffectiveBudget(req.configured, req.runner)
    BY <1>0, EffectiveIs
  <2>g. PICK got : got = HandlerPrompt(req, cache)
    OBVIOUS
  <2>1. got = RunnerMessages(h, system, c, total, cache)
    BY <1>h, <1>c, <2>s, <2>t, <2>g DEF HandlerPrompt
  <2>2. got.lines = h.lines /\ got.answer = GenerateParams(req.asked)
    BY <1>1, <2>1 DEF RunnerMessages
  <2>b. PICK tokens \in Nat : tokens = EstimateTokens(system)
    BY TokensEstimated
  <2>3. got.context = Build(tokens, c, total) /\ got.system = system
    BY <2>1, <2>b, FromCacheOrBuilt
  <2>4. got.context \in Seq(Piece) /\ MostImportant(ContextParts(c), got.context)
    BY <2>3, BuildIs
  <2>5. EnrichContextFromSearch(c, <<>>) = c
    BY <1>e, EnrichedIs
  <2> QED
    BY <1>h, <1>c, <1>e, <2>2, <2>3, <2>4, <2>5, <2>g, FitsIf
<1>3. PromptFits(req, found, Complete(req, found, cache))
  <2>x. PICK more \in Context : more = EnrichContextFromSearch(c, found)
    BY EnrichedIs
  <2>z. 0 \in Int
    OBVIOUS
  <2>t. PICK total \in Int : total = EffectiveBudget(req.configured, 0)
    BY <1>0, <2>z, EffectiveIs
  <2>g. PICK got : got = Complete(req, found, cache)
    OBVIOUS
  <2>1. got = RunnerMessages(h, req.system, more, total, cache)
    BY <1>h, <1>c, <2>x, <2>t, <2>g DEF Complete
  <2>2. got.lines = h.lines /\ got.answer = GenerateParams(req.asked)
    BY <1>1, <2>1 DEF RunnerMessages
  <2>b. PICK tokens \in Nat : tokens = EstimateTokens(req.system)
    BY <1>0, TokensEstimated
  <2>3. got.context = Build(tokens, more, total) /\ got.system = req.system
    BY <2>1, <2>b, FromCacheOrBuilt
  <2>4. got.context \in Seq(Piece) /\ MostImportant(ContextParts(more), got.context)
    BY <2>3, BuildIs
  <2> QED
    BY <1>0, <1>h, <1>c, <2>2, <2>3, <2>4, <2>g, <2>x, FitsIf
<1> QED
  BY <1>2, <1>3

-----------------------------------------------------------------------------
(* Short histories: the first message is shortened in steps.               *)

First(s, l) == [s EXCEPT ![1].len = l]

LEMMA FirstIs ==
    ASSUME NEW s \in Seq(HistoryMessage), s # <<>>, NEW l \in Nat
    PROVE  /\ First(s, l) \in Seq(HistoryMessage) /\ First(s, l) # <<>>
           /\ Len(First(s, l)) = Len(s)
           /\ First(s, l)[1].len = l /\ First(s, l)[1].role = s[1].role
           /\ \A i \in 2..Len(s) : First(s, l)[i] = s[i]
           /\ \A k \in Nat : First(First(s, l), k) = First(s, k)
<1>n. PICK n \in Nat : n = Len(s)
  OBVIOUS
<1>0. n > 0 /\ 1 \in 1..n /\ s \in [1..n -> HistoryMessage] /\ DOMAIN s = 1..n
  BY <1>n
<1>m. PICK m \in HistoryMessage : m = s[1]
  BY <1>0
<1>1. \A k \in Nat : [m EXCEPT !.len = k] \in HistoryMessage
  BY DEF HistoryMessage
<1>2. ASSUME NEW k \in Nat
      PROVE  /\ First(s, k) \in [1..n -> HistoryMessage]
             /\ First(s, k)[1] = [m EXCEPT !.len = k]
             /\ \A i \in 1..n : i # 1 => First(s, k)[i] = s[i]
  <2>1. First(s, k) = [i \in 1..n |-> IF i = 1 THEN [m EXCEPT !.len = k] ELSE s[i]]
    BY <1>0, <1>m DEF First
  <2> QED
    BY <1>0, <1>1, <2>1
<1>f. PICK f \in [1..n -> HistoryMessage] : f = First(s, l)
  BY <1>2
<1>3. f \in Seq(HistoryMessage) /\ Len(f) = n
  BY RowIs
<1>4. f[1] = [m EXCEPT !.len = l] /\ \A i \in 1..n : i # 1 => f[i] = s[i]
  BY <1>2, <1>f
<1>5. f[1].len = l /\ f[1].role = m.role
  BY <1>4 DEF HistoryMessage
<1>6. ASSUME NEW k \in Nat PROVE First(f, k) = First(s, k)
  <2>1. [f[1] EXCEPT !.len = k] = [m EXCEPT !.len = k]
    BY <1>4 DEF HistoryMessage
  <2>2. First(f, k) = [i \in 1..n |-> IF i = 1 THEN [m EXCEPT !.len = k] ELSE s[i]]
    <3>1. First(f, k) = [i \in 1..n |-> IF i = 1 THEN [f[1] EXCEPT !.len = k] ELSE f[i]]
      BY <1>0 DEF First
    <3> QED
      BY <1>4, <2>1, <3>1
  <2>3. First(s, k) = [i \in 1..n |-> IF i = 1 THEN [m EXCEPT !.len = k] ELSE s[i]]
    BY <1>0, <1>m DEF First
  <2> QED
    BY <2>2, <2>3
<1>7. f # <<>>
  BY <1>0, <1>3
<1>8. \A i \in 2..n : f[i] = s[i]
  BY <1>4
<1> QED
  BY <1>f, <1>m, <1>n, <1>3, <1>5, <1>6, <1>7, <1>8

LEMMA CutIs ==
    ASSUME NEW l \in Nat
    PROVE  /\ CutContent(l) \in Nat
           /\ l > 0 /\ CutContent(l) >= l => CutContent(CutContent(l)) >= CutContent(l)
<1>s. PICK s \in Nat : s = ShortContent
  BY PromptBudgetAssumption
<1>k. PICK k \in Nat : k = KeepAtLeast
  BY PromptBudgetAssumption
<1>w. PICK w \in Nat : w = CutNotice
  BY PromptBudgetAssumption
<1>1. ASSUME NEW n \in Nat
      PROVE  CutContent(n) = IF n <= s THEN 0
                             ELSE IF (n * 3) \div 4 >= k THEN (n * 3) \div 4 + w ELSE k + w
  <2>q. PICK q \in Int : q = (n * 3) \div 4
    OBVIOUS
  <2>1. Max({q, k}) = IF q >= k THEN q ELSE k
    <3>1. k \in Int
      OBVIOUS
    <3> QED
      BY <3>1, MaxOfTwo
  <2> QED
    BY <1>s, <1>k, <1>w, <2>q, <2>1 DEF CutContent
<1>c. PICK c \in Nat : c = CutContent(l)
  BY <1>1
<1>2. ASSUME l > 0, c >= l PROVE CutContent(c) >= c
  <2>1. ~(l <= s) /\ ~(c <= s)
    BY <1>1, <1>2, <1>c
  <2>2. (c * 3) \div 4 >= (l * 3) \div 4
    BY <1>2
  <2> QED
    BY <1>1, <1>c, <2>1, <2>2
<1> QED
  BY <1>c, <1>2

\* One iteration of the loop that shortens contents.
CutOne(s, max, tail) == IF ShrinkDone(s, max, tail) THEN s ELSE ShrinkOnce(s, tail)

Cuts(f, msgs, max, tail, L) ==
    f = [n \in 0..L |-> IF n = 0 THEN msgs ELSE CutOne(f[n - 1], max, tail)]

LEMMA CutsDefined ==
    ASSUME NEW msgs, NEW max, NEW tail, NEW L \in Nat
    PROVE  \E f : Cuts(f, msgs, max, tail, L)
<1> DEFINE T == {l \in Nat : \E f :
                   f = [n \in 0..l |-> IF n = 0 THEN msgs ELSE CutOne(f[n - 1], max, tail)]}
<1>1. 0 \in T
  <2> DEFINE f == [n \in 0..0 |-> msgs]
  <2>1. f = [n \in 0..0 |-> IF n = 0 THEN msgs ELSE CutOne(f[n - 1], max, tail)]
    OBVIOUS
  <2> QED
    BY <2>1
<1>2. ASSUME NEW l \in 1..L, l - 1 \in T PROVE l \in T
  <2>1. PICK g : g = [n \in 0..(l - 1) |-> IF n = 0 THEN msgs ELSE CutOne(g[n - 1], max, tail)]
    BY <1>2
  <2> DEFINE f == [n \in 0..l |-> IF n = l THEN CutOne(g[l - 1], max, tail) ELSE g[n]]
  <2>2. f = [n \in 0..l |-> IF n = 0 THEN msgs ELSE CutOne(f[n - 1], max, tail)]
    <3>1. ASSUME NEW n \in 0..l
          PROVE  f[n] = IF n = 0 THEN msgs ELSE CutOne(f[n - 1], max, tail)
      <4>1. CASE n = l
        BY <4>1
      <4>2. CASE n # l
        <5>1. n \in 0..(l - 1) /\ f[n] = g[n]
          BY <4>2
        <5>2. n # 0 => f[n - 1] = g[n - 1]
          BY <5>1
        <5> QED
          BY <2>1, <5>1, <5>2
      <4> QED
        BY <4>1, <4>2
    <3> QED
      BY <3>1
  <2> HIDE DEF f
  <2>3. l \in Nat
    BY <1>2
  <2> QED
    BY <2>2, <2>3
<1> HIDE DEF T
<1>3. \A n \in 0..L : n \in T
  BY <1>1, <1>2, AllUpTo
<1>4. L \in 0..L
  OBVIOUS
<1>5. L \in T
  BY <1>3, <1>4
<1> QED
  BY <1>5 DEF T, Cuts

\* A content that a cut does not make shorter: the notice is as long as what goes.
Stuck(l) == l > 0 /\ CutContent(l) >= l

\* The loop ends when the history fits or when no content but the tail is left, unless it
\* comes to such a content.
LEMMA CutUntilItFits ==
    ASSUME NEW msgs \in Seq(HistoryMessage), NEW tail \in Nat, Len(msgs) = tail + 1, NEW max \in Int,
           msgs[1].len <= MaxCuts
    PROVE  \E l \in Nat : /\ shrinkMessagesToApproxTokenBudget(msgs, max, tail) = First(msgs, l)
                          /\ ShrinkDone(First(msgs, l), max, tail) \/ Stuck(l)
<1>L. PICK L \in Nat : L = MaxCuts
  BY PromptBudgetAssumption
<1>0. msgs # <<>> /\ 1 \in 1..Len(msgs) /\ msgs[1] \in HistoryMessage
  OBVIOUS
<1>c. PICK c \in Nat : c = msgs[1].len /\ c <= L
  BY <1>0, <1>L DEF HistoryMessage
<1> DEFINE at == CHOOSE f : Cuts(f, msgs, max, tail, L)
<1>1. shrinkMessagesToApproxTokenBudget(msgs, max, tail) = at[L]
  BY <1>L DEF shrinkMessagesToApproxTokenBudget, CutOne, Cuts
<1>2. at = [n \in 0..L |-> IF n = 0 THEN msgs ELSE CutOne(at[n - 1], max, tail)]
  <2>1. \E f : Cuts(f, msgs, max, tail, L)
    BY CutsDefined
  <2>2. Cuts(at, msgs, max, tail, L)
    BY <2>1
  <2> HIDE DEF at
  <2> QED
    BY <2>2 DEF Cuts
<1> HIDE DEF at
<1>3. at[0] = msgs /\ \A n \in 1..L : at[n] = CutOne(at[n - 1], max, tail)
  <2>1. at[0] = msgs
    BY <1>2
  <2>2. ASSUME NEW n \in 1..L PROVE at[n] = CutOne(at[n - 1], max, tail)
    <3>1. n \in 0..L /\ n # 0
      OBVIOUS
    <3> QED
      BY <1>2, <3>1
  <2> QED
    BY <2>1, <2>2
<1>4. ASSUME NEW l \in Nat
      PROVE  /\ l = 0 => ShrinkDone(First(msgs, l), max, tail)
             /\ l > 0 => Max(Shrinkable(First(msgs, l), tail)) = 1
             /\ ~ShrinkDone(First(msgs, l), max, tail) =>
                   l > 0 /\ ShrinkOnce(First(msgs, l), tail) = First(msgs, CutContent(l))
  <2>s. PICK s \in Seq(HistoryMessage) : s = First(msgs, l)
    BY <1>0, FirstIs
  <2>1. Len(s) - tail = 1 /\ s[1].len = l /\ \A k \in Nat : First(s, k) = First(msgs, k)
    BY <1>0, <2>s, FirstIs
  <2>2. Shrinkable(s, tail) = {i \in 1..1 : s[i].len > 0}
    BY <2>1 DEF Shrinkable
  <2>3. ASSUME l = 0 PROVE ShrinkDone(s, max, tail)
    <3>1. Shrinkable(s, tail) = {}
      BY <2>1, <2>2, <2>3
    <3> QED
      BY <3>1 DEF ShrinkDone
  <2>4. ASSUME l > 0 PROVE Max(Shrinkable(s, tail)) = 1
    <3>1. Shrinkable(s, tail) \in SUBSET (1..1) /\ 1 \in Shrinkable(s, tail)
      BY <2>1, <2>2, <2>4
    <3> QED
      BY <3>1, LastPlace
  <2>5. ASSUME ~ShrinkDone(s, max, tail) PROVE l > 0 /\ ShrinkOnce(s, tail) = First(msgs, CutContent(l))
    <3>1. l > 0
      BY <2>3, <2>5
    <3>2. ShrinkOnce(s, tail) = [s EXCEPT ![1].len = CutContent(@)]
      BY <2>4, <3>1 DEF ShrinkOnce
    <3>3. ShrinkOnce(s, tail) = First(s, CutContent(l))
      BY <2>1, <3>2 DEF First
    <3>4. CutContent(l) \in Nat
      BY CutIs
    <3> QED
      BY <2>1, <3>1, <3>3, <3>4
  <2> QED
    BY <2>s, <2>3, <2>4, <2>5
<1>5. msgs = First(msgs, c)
  <2>1. msgs = [msgs EXCEPT ![1].len = msgs[1].len]
    BY <1>0 DEF HistoryMessage
  <2> QED
    BY <1>c, <2>1 DEF First
<1> DEFINE Good(n, l) == /\ at[n] = First(msgs, l)
                         /\ l <= c - n \/ Stuck(l) \/ ShrinkDone(First(msgs, l), max, tail)
           T == {n \in Nat : \E l \in Nat : Good(n, l)}
<1>6. 0 \in T
  <2>1. Good(0, c)
    BY <1>3, <1>5
  <2> QED
    BY <2>1
<1>7. ASSUME NEW n \in 1..L, n - 1 \in T PROVE n \in T
  <2>0. n \in Nat
    OBVIOUS
  <2>l. PICK l \in Nat : Good(n - 1, l)
    BY <1>7
  <2>1. at[n] = CutOne(First(msgs, l), max, tail)
    BY <1>3, <2>l
  <2>2. CASE ShrinkDone(First(msgs, l), max, tail)
    <3>1. Good(n, l)
      BY <2>1, <2>2 DEF CutOne
    <3> QED
      BY <2>0, <3>1
  <2>3. CASE ~ShrinkDone(First(msgs, l), max, tail)
    <3>k. PICK k \in Nat : k = CutContent(l)
      BY CutIs
    <3>1. l > 0 /\ at[n] = First(msgs, k)
      BY <1>4, <2>1, <2>3, <3>k DEF CutOne
    <3>2. k <= c - n \/ Stuck(k)
      <4>1. CASE k >= l
        <5>1. CutContent(k) >= k
          BY <3>1, <3>k, <4>1, CutIs
        <5> QED
          BY <3>1, <4>1, <5>1 DEF Stuck
      <4>2. CASE ~(k >= l)
        <5>1. ~Stuck(l)
          BY <3>k, <4>2 DEF Stuck
        <5>2. l <= c - (n - 1)
          BY <2>3, <2>l, <5>1
        <5> QED
          BY <2>0, <4>2, <5>2
      <4> QED
        BY <4>1, <4>2
    <3>3. Good(n, k)
      BY <3>1, <3>2
    <3> QED
      BY <2>0, <3>3
  <2> QED
    BY <2>2, <2>3
<1> HIDE DEF T, Good
<1>8. \A n \in 0..L : n \in T
  BY <1>6, <1>7, AllUpTo
<1>9. PICK l \in Nat : Good(L, l)
  <2>1. L \in T
    BY <1>8
  <2> QED
    BY <2>1 DEF T
<1>10. at[L] = First(msgs, l) /\ (l <= c - L \/ Stuck(l) \/ ShrinkDone(First(msgs, l), max, tail))
  BY <1>9 DEF Good
<1>11. l <= c - L => l = 0
  BY <1>c
<1> QED
  BY <1>1, <1>4, <1>10, <1>11

\* A history that needs no cut stays as it is.
LEMMA NothingToCut ==
    ASSUME NEW msgs, NEW max, NEW tail, ShrinkDone(msgs, max, tail)
    PROVE  shrinkMessagesToApproxTokenBudget(msgs, max, tail) = msgs
<1>L. PICK L \in Nat : L = MaxCuts
  BY PromptBudgetAssumption
<1> DEFINE at == CHOOSE f : Cuts(f, msgs, max, tail, L)
<1>1. shrinkMessagesToApproxTokenBudget(msgs, max, tail) = at[L]
  BY <1>L DEF shrinkMessagesToApproxTokenBudget, CutOne, Cuts
<1>2. at = [n \in 0..L |-> IF n = 0 THEN msgs ELSE CutOne(at[n - 1], max, tail)]
  <2>1. \E f : Cuts(f, msgs, max, tail, L)
    BY CutsDefined
  <2>2. Cuts(at, msgs, max, tail, L)
    BY <2>1
  <2> HIDE DEF at
  <2> QED
    BY <2>2 DEF Cuts
<1> HIDE DEF at
<1> DEFINE T == {n \in Nat : at[n] = msgs}
<1>3. 0 \in T
  BY <1>2
<1>4. ASSUME NEW n \in 1..L, n - 1 \in T PROVE n \in T
  <2>1. n \in 0..L /\ n # 0 /\ n \in Nat
    OBVIOUS
  <2>2. at[n] = CutOne(at[n - 1], max, tail)
    BY <1>2, <2>1
  <2>3. at[n - 1] = msgs
    BY <1>4
  <2>4. at[n] = msgs
    BY <2>2, <2>3 DEF CutOne
  <2> QED
    BY <2>1, <2>4
<1> HIDE DEF T
<1>5. \A n \in 0..L : n \in T
  BY <1>3, <1>4, AllUpTo
<1>6. L \in T
  BY <1>5
<1> QED
  BY <1>1, <1>6 DEF T

\* TrimMessagesByApproxTokensWithDropped, for the other histories: it keeps the tail and
\* the first message's role, and the loop that shortens the first content ends with a history
\* that fits or with nothing left to shorten, unless it comes to a content that a cut
\* does not make shorter; MaxCuts only has to allow for the runes of that content.
THEOREM ShortHistoriesFit ==
    \A msgs \in Seq(HistoryMessage), max \in Int, tail \in Nat :
       Len(msgs) <= 1 + tail /\ msgs[1].len <= MaxCuts =>
          HistoryTrimmed(msgs, max, tail, TrimMessagesByApproxTokensWithDropped(msgs, max, tail))
<1> SUFFICES ASSUME NEW msgs \in Seq(HistoryMessage), NEW max \in Int, NEW tail \in Nat,
                    Len(msgs) <= 1 + tail, msgs[1].len <= MaxCuts, max > 0, Len(msgs) > 1
             PROVE  HistoryTrimmed(msgs, max, tail,
                                   TrimMessagesByApproxTokensWithDropped(msgs, max, tail))
  <2>1. \A m, x, t, got : ~(x > 0 /\ Len(m) > 1) => HistoryTrimmed(m, x, t, got)
    BY DEF HistoryTrimmed
  <2> QED
    BY <2>1
<1>n. PICK n \in Nat : n = Len(msgs)
  OBVIOUS
<1>got. PICK got : got = TrimMessagesByApproxTokensWithDropped(msgs, max, tail)
  OBVIOUS
<1>k. PICK keep \in Nat : keep = Min({tail, n}) /\ (keep = n \/ keep = n - 1)
  <2>1. Min({tail, n}) \in {tail, n} /\ Min({tail, n}) <= tail /\ Min({tail, n}) <= n
    <3>1. {tail, n} \in SUBSET Nat /\ {tail, n} # {}
      OBVIOUS
    <3>2. PICK x \in {tail, n} : \A y \in {tail, n} : x <= y
      BY <3>1, SmallestOne
    <3> QED
      BY <3>2 DEF Min
  <2>2. tail >= n - 1
    BY <1>n
  <2>3. Min({tail, n}) \in Nat
    BY <2>1
  <2> QED
    BY <2>1, <2>2, <2>3
<1>1. n > 1 /\ n <= 1 + tail /\ ~(max <= 0) /\ ~(n <= 1) /\ msgs # <<>> /\ 1 \in 1..n
  BY <1>n
<1>2. ASSUME NEW s \in Seq(HistoryMessage), Len(s) = n, s[1].role = msgs[1].role,
             SubSeq(s, n - keep + 1, n) = SubSeq(msgs, n - keep + 1, n),
             \/ ShrinkDone(s, max, keep)
             \/ CutContent(s[Max(Shrinkable(s, keep))].len) >= s[Max(Shrinkable(s, keep))].len
      PROVE  HistoryTrimmed(msgs, max, tail, s)
  BY <1>n, <1>k, <1>1, <1>2 DEF HistoryTrimmed
<1>3. CASE SumApproxTokens(msgs) <= max
  <2>1. got = msgs
    BY <1>3, <1>got DEF TrimMessagesByApproxTokensWithDropped
  <2>2. ShrinkDone(msgs, max, keep)
    BY <1>3 DEF ShrinkDone
  <2> QED
    BY <1>2, <1>n, <1>got, <2>1, <2>2
<1>4. CASE ~(SumApproxTokens(msgs) <= max) /\ keep = n - 1
  <2>1. got = shrinkMessagesToApproxTokenBudget(msgs, max, keep)
    BY <1>4, <1>1, <1>n, <1>k, <1>got DEF TrimMessagesByApproxTokensWithDropped
  <2>2. Len(msgs) = keep + 1
    BY <1>4, <1>n
  <2>l. PICK l \in Nat : /\ got = First(msgs, l)
                         /\ ShrinkDone(First(msgs, l), max, keep) \/ Stuck(l)
    BY <2>1, <2>2, CutUntilItFits
  <2>s. PICK s \in Seq(HistoryMessage) : s = got
    BY <1>1, <2>l, FirstIs
  <2>3. Len(s) = n /\ s[1].role = msgs[1].role /\ s[1].len = l /\ \A i \in 2..n : s[i] = msgs[i]
    BY <1>1, <1>n, <2>l, <2>s, FirstIs
  <2>4. SubSeq(s, n - keep + 1, n) = SubSeq(msgs, n - keep + 1, n)
    <3>1. n - keep + 1 = 2
      BY <1>4
    <3>2. SubSeq(s, 2, n) = [i \in 1..(n - 1) |-> s[i + 1]]
      BY <1>1, <2>3
    <3>3. SubSeq(msgs, 2, n) = [i \in 1..(n - 1) |-> msgs[i + 1]]
      BY <1>1, <1>n
    <3>4. \A i \in 1..(n - 1) : s[i + 1] = msgs[i + 1]
      <4>1. \A i \in 1..(n - 1) : i + 1 \in 2..n
        OBVIOUS
      <4> QED
        BY <2>3, <4>1
    <3>5. [i \in 1..(n - 1) |-> s[i + 1]] = [i \in 1..(n - 1) |-> msgs[i + 1]]
      BY <3>4
    <3> QED
      BY <3>1, <3>2, <3>3, <3>5
  <2>5. ASSUME Stuck(l)
        PROVE  CutContent(s[Max(Shrinkable(s, keep))].len) >= s[Max(Shrinkable(s, keep))].len
    <3>1. Shrinkable(s, keep) = {i \in 1..1 : s[i].len > 0}
      <4>1. Len(s) - keep = 1
        BY <1>4, <2>3
      <4> QED
        BY <4>1 DEF Shrinkable
    <3>2. Shrinkable(s, keep) \in SUBSET (1..1) /\ 1 \in Shrinkable(s, keep)
      BY <2>3, <2>5, <3>1 DEF Stuck
    <3>3. Max(Shrinkable(s, keep)) = 1
      BY <3>2, LastPlace
    <3> QED
      BY <2>3, <2>5, <3>3 DEF Stuck
  <2> QED
    BY <1>2, <1>got, <2>l, <2>s, <2>3, <2>4, <2>5
<1>5. CASE ~(SumApproxTokens(msgs) <= max) /\ keep = n
  <2>1. got = shrinkMessagesToApproxTokenBudget(msgs, max, n)
    BY <1>5, <1>1, <1>n, <1>k, <1>got DEF TrimMessagesByApproxTokensWithDropped
  <2>2. ShrinkDone(msgs, max, n)
    <3>1. Shrinkable(msgs, n) = {}
      BY <1>n DEF Shrinkable
    <3> QED
      BY <3>1 DEF ShrinkDone
  <2>3. got = msgs
    BY <2>1, <2>2, NothingToCut
  <2> QED
    BY <1>2, <1>5, <1>n, <1>got, <2>2, <2>3
<1> QED
  BY <1>k, <1>3, <1>4, <1>5

-----------------------------------------------------------------------------
(* The order of what matters most.  The exchange sort is not stable, but   *)
(* the parts that matter more than a search hit come out of it in an order *)
(* that no part which matters less has any influence on.                   *)

Urgent(p) == p.priority < SnippetPriority("codebase")

\* u has the m urgent parts of the L parts ps: they are at the places a.
UrgentAt(ps, L, u, m, a) ==
    /\ a \in [1..m -> 1..L]
    /\ \A k \in 1..m : ps[a[k]] = u[k]
    /\ \A k, l \in 1..m : k < l => a[k] < a[l]
    /\ \A j \in 1..L : Urgent(ps[j]) <=> \E k \in 1..m : a[k] = j

\* The inner loop for place i, which has come to place j and to the c-th urgent part.
Scanned(ps, L, u, m, i, j, a, c) ==
    /\ UrgentAt(ps, L, u, m, a)
    /\ c \in (i - 1)..m
    /\ \A k \in 1..(i - 1) : a[k] = k
    /\ \A k \in 1..m : a[k] <= j <=> k <= c
    /\ c >= i => a[i] = i

LEMMA UrgentIs == SnippetPriority("codebase") = 4
  BY DEF SnippetPriority

\* A part that is not urgent changes nothing for those that are.
LEMMA ScanPasses ==
    ASSUME NEW L \in Nat, NEW ps \in [1..L -> Part], NEW m \in Nat, NEW u \in [1..m -> Part],
           NEW i \in 1..m, NEW j \in 1..L, i < j, NEW a, NEW c,
           Scanned(ps, L, u, m, i, j - 1, a, c), ~Urgent(ps[j])
    PROVE  Scanned(Exchange(ps, i, j), L, u, m, i, j, a, c)
<1>0. /\ a \in [1..m -> 1..L] /\ c \in (i - 1)..m
      /\ \A k \in 1..m : ps[a[k]] = u[k]
      /\ \A k, l \in 1..m : k < l => a[k] < a[l]
      /\ \A h \in 1..L : Urgent(ps[h]) <=> \E k \in 1..m : a[k] = h
      /\ \A k \in 1..(i - 1) : a[k] = k
      /\ \A k \in 1..m : a[k] <= j - 1 <=> k <= c
      /\ c >= i => a[i] = i
  BY DEF Scanned, UrgentAt
<1>i. i \in 1..L /\ i # j
  OBVIOUS
<1>1. \A k \in 1..m : a[k] # j /\ a[k] \in 1..L
  BY <1>0
<1>2. \A k \in 1..m : a[k] <= j <=> k <= c
  <2> SUFFICES ASSUME NEW k \in 1..m PROVE a[k] <= j <=> k <= c
    OBVIOUS
  <2>1. a[k] # j /\ a[k] \in 1..L /\ (a[k] <= j - 1 <=> k <= c)
    BY <1>0, <1>1
  <2> QED
    BY <2>1
<1>q. PICK q : q = Exchange(ps, i, j)
  OBVIOUS
<1>3. CASE Urgent(ps[i])
  <2>1. ~(ps[j].priority < ps[i].priority)
    <3>1. ps[i].priority \in Nat /\ ps[j].priority \in Nat
      BY <1>i DEF Part
    <3> QED
      BY <1>3, <3>1, UrgentIs DEF Urgent
  <2>2. q = ps
    BY <1>q, <2>1 DEF Exchange
  <2> QED
    BY <1>0, <1>2, <1>q, <2>2 DEF Scanned, UrgentAt
<1>4. CASE ~Urgent(ps[i])
  <2>1. \A k \in 1..m : a[k] # i
    BY <1>0, <1>i, <1>4
  <2>2. /\ \A h \in 1..L : h # i /\ h # j => q[h] = ps[h]
        /\ q[i] \in {ps[i], ps[j]} /\ q[j] \in {ps[i], ps[j]}
    BY <1>i, <1>q DEF Exchange, Swap
  <2>3. \A k \in 1..m : q[a[k]] = u[k]
    BY <1>0, <1>1, <2>1, <2>2
  <2>4. \A h \in 1..L : Urgent(q[h]) <=> \E k \in 1..m : a[k] = h
    <3> SUFFICES ASSUME NEW h \in 1..L PROVE Urgent(q[h]) <=> \E k \in 1..m : a[k] = h
      OBVIOUS
    <3>1. CASE h = i
      <4>1. ~Urgent(q[h])
        BY <1>4, <2>2, <3>1
      <4> QED
        BY <2>1, <3>1, <4>1
    <3>2. CASE h = j
      <4>1. ~Urgent(q[h])
        BY <1>4, <2>2, <3>2
      <4> QED
        BY <1>1, <3>2, <4>1
    <3>3. CASE h # i /\ h # j
      BY <1>0, <2>2, <3>3
    <3> QED
      BY <3>1, <3>2, <3>3
  <2> QED
    BY <1>0, <1>2, <1>q, <2>3, <2>4 DEF Scanned, UrgentAt
<1> QED
  BY <1>3, <1>4

\* The first urgent part comes to place i.
LEMMA ScanFinds ==
    ASSUME NEW L \in Nat, NEW ps \in [1..L -> Part], NEW m \in Nat, NEW u \in [1..m -> Part],
           NEW i \in 1..m, NEW j \in 1..L, i < j, NEW a, NEW c,
           Scanned(ps, L, u, m, i, j - 1, a, c), Urgent(ps[j]), ~Urgent(ps[i])
    PROVE  c = i - 1 /\ \E b : Scanned(Exchange(ps, i, j), L, u, m, i, j, b, i)
<1>0. /\ a \in [1..m -> 1..L] /\ c \in (i - 1)..m
      /\ \A k \in 1..m : ps[a[k]] = u[k]
      /\ \A k, l \in 1..m : k < l => a[k] < a[l]
      /\ \A h \in 1..L : Urgent(ps[h]) <=> \E k \in 1..m : a[k] = h
      /\ \A k \in 1..(i - 1) : a[k] = k
      /\ \A k \in 1..m : a[k] <= j - 1 <=> k <= c
      /\ c >= i => a[i] = i
  BY DEF Scanned, UrgentAt
<1>i. i \in 1..L /\ i # j
  OBVIOUS
<1>1. c = i - 1
  <2>1. a[i] # i
    BY <1>0, <1>i
  <2> QED
    BY <1>0, <2>1
<1>2. a[i] = j
  <2>1. PICK k \in 1..m : a[k] = j
    BY <1>0
  <2>2. ~(a[k] <= j - 1)
    BY <2>1
  <2>3. k >= i
    BY <1>0, <1>1, <2>2
  <2>4. a[i] \in 1..L /\ ~(a[i] <= j - 1)
    BY <1>0, <1>1
  <2>5. CASE k # i
    <3>1. a[i] < a[k]
      BY <1>0, <2>3, <2>5
    <3> QED
      BY <2>1, <2>4, <3>1
  <2> QED
    BY <2>1, <2>5
<1>q. PICK q : q = Exchange(ps, i, j)
  OBVIOUS
<1>3. /\ \A h \in 1..L : h # i /\ h # j => q[h] = ps[h]
      /\ q[i] = ps[j] /\ q[j] = ps[i]
  <2>1. ps[j].priority < ps[i].priority
    <3>1. ps[i].priority \in Nat /\ ps[j].priority \in Nat
      BY <1>i DEF Part
    <3> QED
      BY <3>1, UrgentIs DEF Urgent
  <2> QED
    BY <1>i, <1>q, <2>1 DEF Exchange, Swap
<1>b. PICK b \in [1..m -> 1..L] : b = [a EXCEPT ![i] = i]
  BY <1>0, <1>i
<1>4. b[i] = i /\ \A k \in 1..m : k # i => b[k] = a[k]
  BY <1>0, <1>b
<1>5. /\ \A k \in 1..m : k < i => a[k] = k
      /\ \A k \in 1..m : k > i => a[k] > j
  BY <1>0, <1>2, SMTT(30)
<1>6. \A k \in 1..m : q[b[k]] = u[k]
  <2> SUFFICES ASSUME NEW k \in 1..m PROVE q[b[k]] = u[k]
    OBVIOUS
  <2>1. CASE k = i
    BY <1>0, <1>2, <1>3, <1>4, <2>1
  <2>2. CASE k # i
    <3>1. a[k] # i /\ a[k] # j /\ a[k] \in 1..L
      <4>1. k < i \/ k > i
        BY <2>2
      <4> QED
        BY <1>0, <1>5, <4>1
    <3> QED
      BY <1>0, <1>3, <1>4, <2>2, <3>1, SMTT(30)
  <2> QED
    BY <2>1, <2>2
<1>7. \A k, l \in 1..m : k < l => b[k] < b[l]
  <2> SUFFICES ASSUME NEW k \in 1..m, NEW l \in 1..m, k < l PROVE b[k] < b[l]
    OBVIOUS
  <2>1. CASE k = i
    <3>1. l # i /\ a[l] > j /\ a[l] \in 1..L
      BY <1>0, <1>5, <2>1
    <3> QED
      BY <1>4, <2>1, <3>1
  <2>2. CASE l = i
    BY <1>4, <1>5, <2>2
  <2>3. CASE k # i /\ l # i
    BY <1>0, <1>4, <2>3
  <2> QED
    BY <2>1, <2>2, <2>3
<1>8. \A h \in 1..L : Urgent(q[h]) <=> \E k \in 1..m : b[k] = h
  <2> SUFFICES ASSUME NEW h \in 1..L PROVE Urgent(q[h]) <=> \E k \in 1..m : b[k] = h
    OBVIOUS
  <2>1. CASE h = i
    BY <1>3, <1>4, <2>1
  <2>2. CASE h = j
    <3>1. \A k \in 1..m : b[k] # j
      <4> SUFFICES ASSUME NEW k \in 1..m PROVE b[k] # j
        OBVIOUS
      <4>1. k < i \/ k = i \/ k > i
        OBVIOUS
      <4> QED
        BY <1>4, <1>5, <1>i, <4>1, SMTT(30)
    <3> QED
      BY <1>3, <2>2, <3>1
  <2>3. CASE h # i /\ h # j
    <3>1. q[h] = ps[h]
      BY <1>3, <2>3
    <3>2. \A k \in 1..m : b[k] = h <=> a[k] = h
      BY <1>2, <1>4, <2>3
    <3> QED
      BY <1>0, <3>1, <3>2
  <2> QED
    BY <2>1, <2>2, <2>3
<1>9. \A k \in 1..m : b[k] <= j <=> k <= i
  <2> SUFFICES ASSUME NEW k \in 1..m PROVE b[k] <= j <=> k <= i
    OBVIOUS
  <2>1. k < i \/ k = i \/ k > i
    OBVIOUS
  <2>2. k > i => b[k] > j /\ b[k] \in 1..L
    BY <1>4, <1>5, <1>b
  <2>3. k < i => b[k] = k
    BY <1>4, <1>5
  <2> QED
    BY <1>4, <2>1, <2>2, <2>3
<1>10. \A k \in 1..(i - 1) : b[k] = k
  BY <1>4, <1>5
<1>11. i \in (i - 1)..m
  OBVIOUS
<1>12. UrgentAt(q, L, u, m, b)
  BY <1>b, <1>6, <1>7, <1>8 DEF UrgentAt
<1>13. Scanned(q, L, u, m, i, j, b, i)
  BY <1>4, <1>9, <1>10, <1>11, <1>12 DEF Scanned
<1> QED
  BY <1>1, <1>q, <1>13

\* Another one is exchanged, or not, as it is among the urgent parts alone.
LEMMA ScanExchanges ==
    ASSUME NEW L \in Nat, NEW ps \in [1..L -> Part], NEW m \in Nat, NEW u \in [1..m -> Part],
           NEW i \in 1..m, NEW j \in 1..L, i < j, NEW a, NEW c,
           Scanned(ps, L, u, m, i, j - 1, a, c), Urgent(ps[j]), Urgent(ps[i])
    PROVE  /\ i <= c /\ c < m
           /\ Scanned(Exchange(ps, i, j), L, Exchange(u, i, c + 1), m, i, j, a, c + 1)
<1>0. /\ a \in [1..m -> 1..L] /\ c \in (i - 1)..m
      /\ \A k \in 1..m : ps[a[k]] = u[k]
      /\ \A k, l \in 1..m : k < l => a[k] < a[l]
      /\ \A h \in 1..L : Urgent(ps[h]) <=> \E k \in 1..m : a[k] = h
      /\ \A k \in 1..(i - 1) : a[k] = k
      /\ \A k \in 1..m : a[k] <= j - 1 <=> k <= c
      /\ c >= i => a[i] = i
  BY DEF Scanned, UrgentAt
<1>i. i \in 1..L /\ i # j
  OBVIOUS
<1>1. i <= c /\ a[i] = i
  <2>1. PICK k \in 1..m : a[k] = i
    BY <1>0, <1>i
  <2>2. k <= c /\ k >= i
    BY <1>0, <2>1
  <2> QED
    BY <1>0, <2>2
<1>2. c + 1 \in 1..m /\ a[c + 1] = j /\ c < m
  <2>1. PICK k \in 1..m : a[k] = j
    BY <1>0
  <2>2. ~(a[k] <= j - 1)
    BY <2>1
  <2>3. k > c
    BY <1>0, <2>2
  <2>4. c + 1 \in 1..m /\ c < m
    BY <1>0, <1>1, <2>3
  <2>5. a[c + 1] \in 1..L /\ ~(a[c + 1] <= j - 1)
    BY <1>0, <2>4
  <2>6. CASE k # c + 1
    <3>1. a[c + 1] < a[k]
      BY <1>0, <2>3, <2>4, <2>6
    <3> QED
      BY <2>1, <2>5, <3>1
  <2> QED
    BY <2>1, <2>4, <2>6
<1>q. PICK q : q = Exchange(ps, i, j)
  OBVIOUS
<1>v. PICK v : v = Exchange(u, i, c + 1)
  OBVIOUS
<1>3. u[i] = ps[i] /\ u[c + 1] = ps[j]
  BY <1>0, <1>1, <1>2
<1>n. \A k \in 1..m : a[k] \in 1..L /\ (a[k] = i <=> k = i) /\ (a[k] = j <=> k = c + 1)
  <2> SUFFICES ASSUME NEW k \in 1..m PROVE a[k] \in 1..L /\ (a[k] = i <=> k = i) /\ (a[k] = j <=> k = c + 1)
    OBVIOUS
  <2>1. \A l \in 1..m : k # l => a[k] # a[l]
    <3> SUFFICES ASSUME NEW l \in 1..m, k # l PROVE a[k] # a[l]
      OBVIOUS
    <3>1. (k < l => a[k] < a[l]) /\ (l < k => a[l] < a[k]) /\ a[k] \in 1..L /\ a[l] \in 1..L
      BY <1>0
    <3> QED
      BY <3>1
  <2> QED
    BY <1>0, <1>1, <1>2, <2>1
<1>4. /\ \A k \in 1..m : q[a[k]] = v[k]
      /\ \A h \in 1..L : Urgent(q[h]) <=> Urgent(ps[h])
  <2>1. CASE ps[j].priority < ps[i].priority
    <3>1. /\ \A h \in 1..L : h # i /\ h # j => q[h] = ps[h]
          /\ q[i] = ps[j] /\ q[j] = ps[i]
      BY <1>i, <1>q, <2>1 DEF Exchange, Swap
    <3>2. /\ \A k \in 1..m : k # i /\ k # c + 1 => v[k] = u[k]
          /\ v[i] = u[c + 1] /\ v[c + 1] = u[i]
      BY <1>1, <1>2, <1>3, <1>v, <2>1 DEF Exchange, Swap
    <3>3. ASSUME NEW k \in 1..m PROVE q[a[k]] = v[k]
      <4>1. CASE k = i
        BY <1>1, <1>3, <3>1, <3>2, <4>1
      <4>2. CASE k = c + 1
        BY <1>2, <1>3, <3>1, <3>2, <4>2
      <4>3. CASE k # i /\ k # c + 1
        BY <1>0, <1>n, <3>1, <3>2, <4>3
      <4> QED
        BY <4>1, <4>2, <4>3
    <3>4. \A h \in 1..L : Urgent(q[h]) <=> Urgent(ps[h])
      BY <3>1
    <3> QED
      BY <3>3, <3>4
  <2>2. CASE ~(ps[j].priority < ps[i].priority)
    <3>1. q = ps /\ v = u
      BY <1>3, <1>q, <1>v, <2>2 DEF Exchange
    <3> QED
      BY <1>0, <3>1
  <2> QED
    BY <2>1, <2>2
<1>5. \A k \in 1..m : a[k] <= j <=> k <= c + 1
  <2> SUFFICES ASSUME NEW k \in 1..m PROVE a[k] <= j <=> k <= c + 1
    OBVIOUS
  <2>1. (a[k] <= j - 1 <=> k <= c) /\ (a[k] = j <=> k = c + 1) /\ a[k] \in 1..L
    BY <1>0, <1>n
  <2> QED
    BY <1>0, <2>1
<1>6. c + 1 \in (i - 1)..m
  BY <1>0, <1>1, <1>2
<1> QED
  BY <1>0, <1>1, <1>2, <1>q, <1>v, <1>4, <1>5, <1>6 DEF Scanned, UrgentAt

\* One step of the inner loop, with the urgent parts u as far as they were exchanged.
LEMMA ScanNext ==
    ASSUME NEW L \in Nat, NEW ps \in [1..L -> Part], NEW m \in Nat, NEW u \in [1..m -> Part],
           NEW i \in 1..m, NEW j \in 1..L, i < j, NEW a, NEW c,
           Scanned(ps, L, u, m, i, j - 1, a, c)
    PROVE  LET q == Exchange(ps, i, j)
           IN  \/ Scanned(q, L, u, m, i, j, a, c)
               \/ c = i - 1 /\ \E b : Scanned(q, L, u, m, i, j, b, i)
               \/ i <= c /\ c < m /\ Scanned(q, L, Exchange(u, i, c + 1), m, i, j, a, c + 1)
<1>1. CASE ~Urgent(ps[j])
  BY <1>1, ScanPasses
<1>2. CASE Urgent(ps[j]) /\ ~Urgent(ps[i])
  BY <1>2, ScanFinds
<1>3. CASE Urgent(ps[j]) /\ Urgent(ps[i])
  BY <1>3, ScanExchanges
<1> QED
  BY <1>1, <1>2, <1>3

\* The first n urgent parts stand at the first n places.
UrgentFirst(ps, L, u, m, n) ==
    \E a : UrgentAt(ps, L, u, m, a) /\ \A k \in 1..n : a[k] = k

LEMMA ScanBegins ==
    ASSUME NEW L \in Nat, NEW ps \in [1..L -> Part], NEW m \in Nat, NEW u \in [1..m -> Part],
           NEW i \in 1..m, UrgentFirst(ps, L, u, m, i - 1)
    PROVE  i \in 1..L /\ \E a, c : Scanned(ps, L, u, m, i, i, a, c)
<1>a. PICK a : UrgentAt(ps, L, u, m, a) /\ \A k \in 1..(i - 1) : a[k] = k
  BY DEF UrgentFirst
<1>0. a \in [1..m -> 1..L] /\ \A k, l \in 1..m : k < l => a[k] < a[l]
  BY <1>a DEF UrgentAt
<1>1. a[i] >= i
  <2>1. CASE i = 1
    BY <1>0, <2>1
  <2>2. CASE i # 1
    <3>1. i - 1 \in 1..m /\ i - 1 \in 1..(i - 1)
      BY <2>2
    <3>2. a[i - 1] = i - 1 /\ a[i - 1] < a[i] /\ a[i] \in 1..L
      BY <1>0, <1>a, <3>1
    <3> QED
      BY <3>2
  <2> QED
    BY <2>1, <2>2
<1>2. a[i] \in 1..L
  BY <1>0
<1>3. i \in 1..L
  BY <1>1, <1>2
<1>c. PICK c : c = IF a[i] = i THEN i ELSE i - 1
  OBVIOUS
<1>4. c \in (i - 1)..m /\ (c >= i => a[i] = i)
  BY <1>c
<1>5. \A k \in 1..m : a[k] <= i <=> k <= c
  <2> SUFFICES ASSUME NEW k \in 1..m PROVE a[k] <= i <=> k <= c
    OBVIOUS
  <2>1. CASE k < i
    <3>1. a[k] = k
      BY <1>a, <2>1
    <3> QED
      BY <1>c, <2>1, <3>1
  <2>2. CASE k = i
    BY <1>1, <1>2, <1>c, <2>2
  <2>3. CASE k > i
    <3>1. a[i] < a[k] /\ a[k] \in 1..L
      BY <1>0, <2>3
    <3> QED
      BY <1>1, <1>2, <1>c, <2>3, <3>1
  <2> QED
    BY <2>1, <2>2, <2>3
<1>6. Scanned(ps, L, u, m, i, i, a, c)
  BY <1>a, <1>4, <1>5 DEF Scanned
<1> QED
  BY <1>3, <1>6

\* The inner loop does to the urgent parts what it would do to them alone.
LEMMA SettlesAlike ==
    ASSUME NEW L \in Nat, NEW ps \in [1..L -> Part], NEW m \in Nat, NEW u \in [1..m -> Part],
           NEW i \in 1..m, UrgentFirst(ps, L, u, m, i - 1)
    PROVE  UrgentFirst(SettlePlace(ps, i), L, SettlePlace(u, i), m, i)
<1>i. i \in 1..L
  BY ScanBegins
<1>K. PICK K \in Nat : K = L - i
  BY <1>i
<1>N. PICK N \in Nat : N = m - i
  OBVIOUS
<1>f. PICK f : /\ f \in [0..K -> [1..L -> Part]]
               /\ f[0] = ps
               /\ \A n \in 1..K : f[n] = Exchange(f[n - 1], i, i + n)
               /\ SettlePlace(ps, i) = f[K]
  <2>1. PICK f : SettledBy(f, ps, i, K, L)
    BY <1>i, <1>K, SettleSteps
  <2> QED
    BY <2>1 DEF SettledBy
<1>g. PICK g : /\ g \in [0..N -> [1..m -> Part]]
               /\ g[0] = u
               /\ \A n \in 1..N : g[n] = Exchange(g[n - 1], i, i + n)
               /\ SettlePlace(u, i) = g[N]
  <2>1. PICK g : SettledBy(g, u, i, N, m)
    BY <1>N, SettleSteps
  <2> QED
    BY <2>1 DEF SettledBy
<1> DEFINE T == {n \in Nat : \E a, c, d : /\ Scanned(f[n], L, g[d], m, i, i + n, a, c)
                                          /\ d \in 0..N
                                          /\ ((c = i - 1 /\ d = 0) \/ c = i + d)}
<1>1. 0 \in T
  <2>1. PICK a, c : Scanned(ps, L, u, m, i, i, a, c)
    BY ScanBegins
  <2>2. c = i - 1 \/ c = i + 0
    <3>1. /\ c \in (i - 1)..m /\ \A k \in 1..m : a[k] <= i <=> k <= c
          /\ c >= i => a[i] = i
          /\ a \in [1..m -> 1..L] /\ \A k, l \in 1..m : k < l => a[k] < a[l]
      BY <2>1 DEF Scanned, UrgentAt
    <3>2. ASSUME c > i PROVE FALSE
      <4>1. i + 1 \in 1..m /\ i + 1 <= c /\ i < i + 1
        BY <3>1, <3>2
      <4>2. a[i + 1] <= i /\ a[i] = i /\ a[i] < a[i + 1] /\ a[i + 1] \in 1..L
        BY <3>1, <3>2, <4>1
      <4> QED
        BY <4>2
    <3> QED
      BY <3>1, <3>2
  <2>3. 0 \in 0..N /\ i + 0 = i
    OBVIOUS
  <2> QED
    BY <1>f, <1>g, <2>1, <2>2, <2>3
<1>2. ASSUME NEW n \in 1..K, n - 1 \in T PROVE n \in T
  <2>0. n \in Nat /\ n - 1 \in 0..K /\ i + n \in 1..L /\ i < i + n /\ (i + n) - 1 = i + (n - 1)
    BY <1>K, <1>i
  <2>a. PICK a, c, d : /\ Scanned(f[n - 1], L, g[d], m, i, i + (n - 1), a, c)
                       /\ d \in 0..N
                       /\ ((c = i - 1 /\ d = 0) \/ c = i + d)
    BY <1>2
  <2>q. PICK q \in [1..L -> Part] : q = f[n - 1]
    BY <1>f, <2>0
  <2>v. PICK v \in [1..m -> Part] : v = g[d]
    BY <1>g, <2>a
  <2>j. PICK j \in 1..L : j = i + n
    BY <2>0
  <2>1. i < j /\ Scanned(q, L, v, m, i, j - 1, a, c)
    BY <2>0, <2>a, <2>q, <2>v, <2>j
  <2>2. f[n] = Exchange(q, i, j)
    BY <1>f, <2>q, <2>j
  <2>3. CASE Scanned(f[n], L, v, m, i, j, a, c)
    BY <2>0, <2>3, <2>a, <2>v, <2>j
  <2>4. ASSUME c = i - 1, NEW b, Scanned(f[n], L, v, m, i, j, b, i) PROVE n \in T
    <3>1. d = 0 /\ i = i + d
      BY <2>4, <2>a
    <3> QED
      BY <2>0, <2>4, <2>a, <2>v, <2>j, <3>1
  <2>5. ASSUME i <= c, c < m, Scanned(f[n], L, Exchange(v, i, c + 1), m, i, j, a, c + 1)
        PROVE  n \in T
    <3>1. c = i + d
      BY <2>5, <2>a
    <3>2. d + 1 \in 1..N /\ d + 1 \in 0..N /\ (d + 1) - 1 = d /\ i + (d + 1) = c + 1
      BY <1>N, <2>5, <2>a, <3>1
    <3>3. g[d + 1] = Exchange(v, i, c + 1)
      BY <1>g, <2>v, <3>2
    <3> QED
      BY <2>0, <2>5, <2>j, <3>2, <3>3
  <2> HIDE DEF T
  <2>6. \/ Scanned(f[n], L, v, m, i, j, a, c)
        \/ c = i - 1 /\ \E b : Scanned(f[n], L, v, m, i, j, b, i)
        \/ i <= c /\ c < m /\ Scanned(f[n], L, Exchange(v, i, c + 1), m, i, j, a, c + 1)
    BY <2>1, <2>2, ScanNext
  <2> QED
    BY <2>3, <2>4, <2>5, <2>6
<1> HIDE DEF T
<1>3. \A n \in 0..K : n \in T
  BY <1>1, <1>2, AllUpTo
<1>4. K \in T /\ i + K = L
  BY <1>3, <1>K
<1>5. PICK a, c, d : /\ Scanned(f[K], L, g[d], m, i, L, a, c)
                     /\ d \in 0..N
                     /\ ((c = i - 1 /\ d = 0) \/ c = i + d)
  BY <1>4 DEF T
<1>6. /\ UrgentAt(f[K], L, g[d], m, a) /\ a \in [1..m -> 1..L]
      /\ c \in (i - 1)..m
      /\ \A k \in 1..(i - 1) : a[k] = k
      /\ \A k \in 1..m : a[k] <= L <=> k <= c
      /\ c >= i => a[i] = i
  BY <1>5 DEF Scanned, UrgentAt
<1>7. c = m /\ d = N
  <2>1. m \in 1..m /\ a[m] \in 1..L
    BY <1>6
  <2>2. m <= c
    BY <1>6, <2>1
  <2> QED
    BY <1>5, <1>6, <1>N, <2>2
<1>8. \A k \in 1..i : a[k] = k
  <2> SUFFICES ASSUME NEW k \in 1..i PROVE a[k] = k
    OBVIOUS
  <2>1. k = i \/ k \in 1..(i - 1)
    OBVIOUS
  <2> QED
    BY <1>6, <1>7, <2>1
<1>9. UrgentAt(SettlePlace(ps, i), L, SettlePlace(u, i), m, a)
  BY <1>6, <1>7, <1>f, <1>g
<1> QED
  BY <1>8, <1>9 DEF UrgentFirst

\* What stands behind the urgent parts is exchanged without them.
Foremost(ps, L, w, m) ==
    /\ m <= L
    /\ \A k \in 1..m : ps[k] = w[k] /\ Urgent(ps[k])
    /\ \A k \in (m + 1)..L : ~Urgent(ps[k])

LEMMA RestSettles ==
    ASSUME NEW L \in Nat, NEW ps \in [1..L -> Part], NEW m \in Nat, NEW w \in [1..m -> Part],
           NEW i \in (m + 1)..L, Foremost(ps, L, w, m)
    PROVE  Foremost(SettlePlace(ps, i), L, w, m)
<1>i. i \in 1..L
  OBVIOUS
<1>K. PICK K \in Nat : K = L - i
  OBVIOUS
<1>f. PICK f : /\ f \in [0..K -> [1..L -> Part]]
               /\ f[0] = ps
               /\ \A n \in 1..K : f[n] = Exchange(f[n - 1], i, i + n)
               /\ SettlePlace(ps, i) = f[K]
  <2>1. PICK f : SettledBy(f, ps, i, K, L)
    BY <1>i, <1>K, SettleSteps
  <2> QED
    BY <2>1 DEF SettledBy
<1> DEFINE T == {n \in Nat : Foremost(f[n], L, w, m)}
<1>1. 0 \in T
  BY <1>f
<1>2. ASSUME NEW n \in 1..K, n - 1 \in T PROVE n \in T
  <2>0. n - 1 \in 0..K /\ i + n \in 1..L /\ i + n > m /\ n \in Nat
    BY <1>K
  <2>q. PICK q \in [1..L -> Part] : q = f[n - 1]
    BY <1>f, <2>0
  <2>j. PICK j \in 1..L : j = i + n /\ j > m /\ j # i
    BY <2>0
  <2>r. PICK r : r = Exchange(q, i, j)
    OBVIOUS
  <2>1. /\ m <= L
        /\ \A k \in 1..m : q[k] = w[k] /\ Urgent(q[k])
        /\ \A k \in (m + 1)..L : ~Urgent(q[k])
    BY <1>2, <2>q DEF Foremost
  <2>2. /\ \A h \in 1..L : h # i /\ h # j => r[h] = q[h]
        /\ r[i] \in {q[i], q[j]} /\ r[j] \in {q[i], q[j]}
    BY <1>i, <2>j, <2>r DEF Exchange, Swap
  <2>3. \A k \in 1..m : k \in 1..L /\ k # i /\ k # j
    BY <2>1, <2>j
  <2>4. \A k \in 1..m : r[k] = w[k] /\ Urgent(r[k])
    BY <2>1, <2>2, <2>3
  <2>5. i \in (m + 1)..L /\ j \in (m + 1)..L /\ \A k \in (m + 1)..L : k \in 1..L
    BY <2>j
  <2>6. \A k \in (m + 1)..L : ~Urgent(r[k])
    BY <2>1, <2>2, <2>5
  <2>7. Foremost(r, L, w, m)
    BY <2>1, <2>4, <2>6 DEF Foremost
  <2>8. f[n] = r
    BY <1>f, <2>q, <2>j, <2>r
  <2> QED
    BY <2>0, <2>7, <2>8
<1> HIDE DEF T
<1>3. \A n \in 0..K : n \in T
  BY <1>1, <1>2, AllUpTo
<1>4. K \in T
  BY <1>3
<1> QED
  BY <1>4, <1>f DEF T

LEMMA FirstAreForemost ==
    ASSUME NEW L \in Nat, NEW ps \in [1..L -> Part], NEW m \in Nat, NEW w \in [1..m -> Part],
           UrgentFirst(ps, L, w, m, m)
    PROVE  Foremost(ps, L, w, m)
<1>a. PICK a : UrgentAt(ps, L, w, m, a) /\ \A k \in 1..m : a[k] = k
  BY DEF UrgentFirst
<1>0. /\ a \in [1..m -> 1..L] /\ \A k \in 1..m : ps[a[k]] = w[k]
      /\ \A j \in 1..L : Urgent(ps[j]) <=> \E k \in 1..m : a[k] = j
  BY <1>a DEF UrgentAt
<1>1. \A k \in 1..m : k \in 1..L /\ ps[k] = w[k]
  BY <1>0, <1>a
<1>2. m <= L
  <2>1. CASE m = 0
    BY <2>1
  <2>2. CASE m # 0
    <3>1. m \in 1..m
      BY <2>2
    <3> QED
      BY <1>1, <3>1
  <2> QED
    BY <2>1, <2>2
<1>3. \A k \in 1..m : Urgent(ps[k])
  BY <1>0, <1>1, <1>a
<1>4. \A k \in (m + 1)..L : ~Urgent(ps[k])
  <2> SUFFICES ASSUME NEW k \in (m + 1)..L, Urgent(ps[k]) PROVE FALSE
    OBVIOUS
  <2>1. k \in 1..L
    OBVIOUS
  <2>2. PICK l \in 1..m : a[l] = k
    BY <1>0, <2>1
  <2>3. l = k
    BY <1>a, <2>2
  <2> QED
    BY <2>3
<1> QED
  BY <1>1, <1>2, <1>3, <1>4 DEF Foremost

\* The sort puts the urgent parts first, as it would sort them alone.
LEMMA SortsAlike ==
    ASSUME NEW L \in Nat, NEW ps \in [1..L -> Part], NEW m \in Nat, NEW u \in [1..m -> Part],
           NEW a, UrgentAt(ps, L, u, m, a)
    PROVE  Foremost(sortContextParts(ps), L, sortContextParts(u), m)
<1>f. PICK f : /\ f \in [0..L -> [1..L -> Part]]
               /\ f[0] = ps
               /\ \A n \in 1..L : f[n] = SettlePlace(f[n - 1], n)
               /\ sortContextParts(ps) = f[L]
  BY SortSteps
<1>g. PICK g : /\ g \in [0..m -> [1..m -> Part]]
               /\ g[0] = u
               /\ \A n \in 1..m : g[n] = SettlePlace(g[n - 1], n)
               /\ sortContextParts(u) = g[m]
  BY SortSteps
<1> DEFINE T == {n \in Nat : /\ n <= L
                             /\ UrgentFirst(f[n], L, g[n], m, n)}
<1>1. 0 \in T
  BY <1>f, <1>g DEF UrgentFirst
<1>2. ASSUME NEW n \in 1..m, n - 1 \in T PROVE n \in T
  <2>0. n - 1 \in 0..m /\ n \in Nat /\ n - 1 \in 0..L
    BY <1>2
  <2>q. PICK q \in [1..L -> Part] : q = f[n - 1]
    BY <1>f, <2>0
  <2>v. PICK v \in [1..m -> Part] : v = g[n - 1]
    BY <1>g, <2>0
  <2>1. UrgentFirst(q, L, v, m, n - 1)
    BY <1>2, <2>q, <2>v
  <2>2. n \in 1..L
    BY <2>1, ScanBegins
  <2>3. UrgentFirst(SettlePlace(q, n), L, SettlePlace(v, n), m, n)
    BY <2>1, SettlesAlike
  <2>4. f[n] = SettlePlace(q, n) /\ g[n] = SettlePlace(v, n)
    BY <1>f, <1>g, <2>2, <2>q, <2>v
  <2> QED
    BY <2>0, <2>2, <2>3, <2>4
<1> HIDE DEF T
<1>3. \A n \in 0..m : n \in T
  BY <1>1, <1>2, AllUpTo
<1>w. PICK w \in [1..m -> Part] : w = g[m]
  <2>1. m \in 0..m
    OBVIOUS
  <2> QED
    BY <1>g, <2>1
<1>4. m <= L /\ UrgentFirst(f[m], L, w, m, m)
  <2>1. m \in 0..m
    OBVIOUS
  <2> QED
    BY <1>3, <1>w, <2>1 DEF T
<1>5. Foremost(f[m], L, w, m)
  <2>1. m \in 0..L
    BY <1>4
  <2>2. f[m] \in [1..L -> Part]
    BY <1>f, <2>1
  <2> QED
    BY <1>4, <2>2, FirstAreForemost
<1> DEFINE U == {n \in Nat : m + n <= L => Foremost(f[m + n], L, w, m)}
<1>6. 0 \in U
  <2>1. m + 0 = m
    OBVIOUS
  <2> QED
    BY <1>5, <2>1
<1>7. ASSUME NEW n \in 1..L, n - 1 \in U PROVE n \in U
  <2>1. CASE m + n <= L
    <3>1. /\ m + n \in (m + 1)..L /\ m + n \in 1..L /\ (m + n) - 1 = m + (n - 1)
          /\ m + (n - 1) \in 0..L
      BY <2>1
    <3>q. PICK q \in [1..L -> Part] : q = f[m + (n - 1)]
      BY <1>f, <3>1
    <3>2. Foremost(q, L, w, m)
      BY <1>7, <3>1, <3>q
    <3>3. f[m + n] = SettlePlace(q, m + n)
      BY <1>f, <3>1, <3>q
    <3>4. Foremost(SettlePlace(q, m + n), L, w, m)
      BY <3>1, <3>2, RestSettles
    <3> QED
      BY <3>3, <3>4
  <2> QED
    BY <2>1
<1> HIDE DEF U
<1>8. \A n \in 0..L : n \in U
  BY <1>6, <1>7, AllUpTo
<1>9. L - m \in U /\ m + (L - m) = L
  <2>1. L - m \in 0..L
    BY <1>4
  <2> QED
    BY <1>8, <2>1
<1>10. Foremost(f[L], L, w, m)
  BY <1>9 DEF U
<1> QED
  BY <1>10, <1>f, <1>g, <1>w

\* The urgent parts of a list, in their order, are u.
HasUrgent(ps, u, m) == \E a : UrgentAt(ps, Len(ps), u, m, a)

SameUrgent(p, q) == \E m \in Nat : \E u \in [1..m -> Part] : HasUrgent(p, u, m) /\ HasUrgent(q, u, m)

OneMore(u, m, x) == [k \in 1..(m + 1) |-> IF k = m + 1 THEN x ELSE u[k]]

LEMMA UrgentAppended ==
    ASSUME NEW ps \in Seq(Part), NEW x \in Part, NEW m \in Nat, NEW u \in [1..m -> Part],
           HasUrgent(ps, u, m)
    PROVE  /\ ~Urgent(x) => HasUrgent(Append(ps, x), u, m)
           /\ Urgent(x) => HasUrgent(Append(ps, x), OneMore(u, m, x), m + 1)
<1>L. PICK L \in Nat : L = Len(ps)
  OBVIOUS
<1>q. PICK q \in Seq(Part) : q = Append(ps, x)
  BY AppendedIs
<1>0. Len(q) = L + 1 /\ q[L + 1] = x /\ \A i \in 1..L : q[i] = ps[i]
  BY <1>L, <1>q, AppendedIs
<1>a. PICK a : UrgentAt(ps, L, u, m, a)
  BY <1>L DEF HasUrgent
<1>1. /\ a \in [1..m -> 1..L]
      /\ \A k \in 1..m : ps[a[k]] = u[k]
      /\ \A k, l \in 1..m : k < l => a[k] < a[l]
      /\ \A j \in 1..L : Urgent(ps[j]) <=> \E k \in 1..m : a[k] = j
  BY <1>a DEF UrgentAt
<1>2. \A k \in 1..m : a[k] \in 1..L /\ a[k] \in 1..(L + 1) /\ a[k] # L + 1 /\ q[a[k]] = u[k]
  <2> SUFFICES ASSUME NEW k \in 1..m
               PROVE  a[k] \in 1..L /\ a[k] \in 1..(L + 1) /\ a[k] # L + 1 /\ q[a[k]] = u[k]
    OBVIOUS
  <2>1. a[k] \in 1..L
    BY <1>1
  <2>2. a[k] \in 1..(L + 1) /\ a[k] # L + 1
    BY <2>1
  <2> QED
    BY <1>0, <1>1, <2>1, <2>2
<1>3. ASSUME NEW j \in 1..(L + 1) PROVE j = L + 1 \/ j \in 1..L
  BY <1>3
<1>4. ASSUME ~Urgent(x) PROVE HasUrgent(q, u, m)
  <2>1. a \in [1..m -> 1..(L + 1)]
    BY <1>1, <1>2
  <2>2. ASSUME NEW j \in 1..(L + 1) PROVE Urgent(q[j]) <=> \E k \in 1..m : a[k] = j
    <3>1. CASE j = L + 1
      BY <1>0, <1>2, <1>4, <3>1
    <3>2. CASE j \in 1..L
      BY <1>0, <1>1, <3>2
    <3> QED
      BY <1>3, <3>1, <3>2
  <2>3. UrgentAt(q, L + 1, u, m, a)
    BY <1>1, <1>2, <2>1, <2>2 DEF UrgentAt
  <2> QED
    BY <1>0, <2>3 DEF HasUrgent
<1>5. ASSUME Urgent(x) PROVE HasUrgent(q, OneMore(u, m, x), m + 1)
  <2>b. PICK b \in [1..(m + 1) -> 1..(L + 1)] :
          b = [k \in 1..(m + 1) |-> IF k = m + 1 THEN L + 1 ELSE a[k]]
    <3>1. ASSUME NEW k \in 1..(m + 1) PROVE (IF k = m + 1 THEN L + 1 ELSE a[k]) \in 1..(L + 1)
      <4>1. k = m + 1 \/ k \in 1..m
        OBVIOUS
      <4>2. L + 1 \in 1..(L + 1)
        OBVIOUS
      <4> QED
        BY <1>2, <4>1, <4>2
    <3> QED
      BY <3>1
  <2>v. PICK v : v = OneMore(u, m, x)
    OBVIOUS
  <2>1. /\ m + 1 \in 1..(m + 1) /\ \A k \in 1..m : k \in 1..(m + 1) /\ k # m + 1
        /\ \A k \in 1..(m + 1) : k = m + 1 \/ k \in 1..m
    OBVIOUS
  <2>2. b[m + 1] = L + 1 /\ v[m + 1] = x /\ \A k \in 1..m : b[k] = a[k] /\ v[k] = u[k]
    BY <2>1, <2>b, <2>v DEF OneMore
  <2>3. \A k \in 1..(m + 1) : q[b[k]] = v[k]
    BY <1>0, <1>2, <2>1, <2>2
  <2>4. ASSUME NEW k \in 1..(m + 1), NEW l \in 1..(m + 1), k < l PROVE b[k] < b[l]
    <3>1. k \in 1..m
      BY <2>4
    <3>2. CASE l = m + 1
      <4>1. a[k] \in 1..L
        BY <1>2, <3>1
      <4> QED
        BY <2>2, <3>1, <3>2, <4>1
    <3>3. CASE l \in 1..m
      BY <1>1, <2>2, <2>4, <3>1, <3>3
    <3> QED
      BY <2>1, <3>2, <3>3
  <2>5. ASSUME NEW j \in 1..(L + 1) PROVE Urgent(q[j]) <=> \E k \in 1..(m + 1) : b[k] = j
    <3>1. CASE j = L + 1
      BY <1>0, <1>5, <2>1, <2>2, <3>1
    <3>2. CASE j \in 1..L
      <4>1. j # L + 1
        BY <3>2
      <4>2. (\E k \in 1..(m + 1) : b[k] = j) <=> \E k \in 1..m : a[k] = j
        BY <2>1, <2>2, <4>1
      <4> QED
        BY <1>0, <1>1, <3>2, <4>2
    <3> QED
      BY <1>3, <3>1, <3>2
  <2>6. UrgentAt(q, L + 1, v, m + 1, b)
    BY <2>b, <2>3, <2>4, <2>5 DEF UrgentAt
  <2> QED
    BY <1>0, <2>6, <2>v DEF HasUrgent
<1> QED
  BY <1>4, <1>5, <1>q

\* The same part added to both lists, or one that is not urgent to one of them.
LEMMA SameIfAny ==
    ASSUME NEW p \in Seq(Part), NEW q \in Seq(Part), NEW x \in Part, SameUrgent(p, q)
    PROVE  /\ SameUrgent(AddIfAny(p, x), AddIfAny(q, x))
           /\ ~Urgent(x) => SameUrgent(p, AddIfAny(q, x))
<1>m. PICK m \in Nat : \E u \in [1..m -> Part] : HasUrgent(p, u, m) /\ HasUrgent(q, u, m)
  BY DEF SameUrgent
<1>u. PICK u \in [1..m -> Part] : HasUrgent(p, u, m) /\ HasUrgent(q, u, m)
  BY <1>m
<1>1. CASE ~(x.text > 0)
  BY <1>1 DEF AddIfAny
<1>2. CASE x.text > 0 /\ ~Urgent(x)
  <2>1. HasUrgent(Append(p, x), u, m) /\ HasUrgent(Append(q, x), u, m)
    BY <1>2, <1>u, UrgentAppended
  <2>2. SameUrgent(Append(p, x), Append(q, x)) /\ SameUrgent(p, Append(q, x))
    BY <1>u, <2>1 DEF SameUrgent
  <2> QED
    BY <1>2, <2>2 DEF AddIfAny
<1>3. CASE x.text > 0 /\ Urgent(x)
  <2>v. PICK v \in [1..(m + 1) -> Part] : v = OneMore(u, m, x)
    <3>1. \A k \in 1..(m + 1) : k = m + 1 \/ k \in 1..m
      OBVIOUS
    <3>2. \A k \in 1..(m + 1) : (IF k = m + 1 THEN x ELSE u[k]) \in Part
      BY <3>1
    <3> QED
      BY <3>2 DEF OneMore
  <2>1. HasUrgent(Append(p, x), v, m + 1) /\ HasUrgent(Append(q, x), v, m + 1)
    BY <1>3, <1>u, <2>v, UrgentAppended
  <2>2. SameUrgent(Append(p, x), Append(q, x))
    BY <2>1 DEF SameUrgent
  <2> QED
    BY <1>3, <2>2 DEF AddIfAny
<1> QED
  BY <1>1, <1>2, <1>3

\* Where the parts stand in AllParts.
LEMMA AllPartsAt ==
    ASSUME NEW ctx \in Context, NEW n \in Nat, n = Len(ctx.snippets)
    PROVE  LET p == AllParts(ctx)
           IN  /\ p \in Seq(Part) /\ Len(p) = n + 4
               /\ p[1] = Prompted("workspace", 10, ctx.workspace)
               /\ p[2] = Prompted("selection", 0, ctx.selection)
               /\ \A i \in 1..n : p[i + 2] = snippetPrompt(ctx.snippets[i])
               /\ p[n + 3] = treePrompt(ctx.tree)
               /\ p[n + 4] = Prompted("editor", 1, ctx.editor)
<1>a. PICK a : a = Prompted("workspace", 10, ctx.workspace)
  OBVIOUS
<1>b. PICK b : b = Prompted("selection", 0, ctx.selection)
  OBVIOUS
<1>c. PICK c : c = treePrompt(ctx.tree)
  OBVIOUS
<1>d. PICK d : d = Prompted("editor", 1, ctx.editor)
  OBVIOUS
<1>t. PICK t \in Seq(Snippet) : t = ctx.snippets
  BY DEF Context
<1>s. PICK s : s = [i \in 1..n |-> snippetPrompt(t[i])]
  OBVIOUS
<1>1. DOMAIN t = 1..n
  BY <1>t
<1>S. PICK S : S = {a, b, c, d} \cup {s[i] : i \in 1..n}
  OBVIOUS
<1>2. s \in [1..n -> S]
  BY <1>s, <1>S
<1>3. s \in Seq(S) /\ Len(s) = n
  BY <1>2, RowIs
<1>4. a \in S /\ b \in S /\ c \in S /\ d \in S
  BY <1>S
<1>l. <<a, b>> \in Seq(S) /\ <<c, d>> \in Seq(S)
  BY <1>4
<1>e. PICK e \in Seq(S) : e = <<a, b>>
  BY <1>l
<1>z. PICK z \in Seq(S) : z = <<c, d>>
  BY <1>l
<1>ez. Len(e) = 2 /\ e[1] = a /\ e[2] = b /\ Len(z) = 2 /\ z[1] = c /\ z[2] = d
  BY <1>e, <1>z
<1>3s. PICK r \in Seq(S) : r = s /\ Len(r) = n
  BY <1>3
<1>h. PICK h \in Seq(S) : h = e \o r
  BY JoinedIs
<1>5r. /\ Len(h) = Len(e) + Len(r)
       /\ \A i \in 1..Len(e) : h[i] = e[i]
       /\ \A i \in 1..Len(r) : h[Len(e) + i] = r[i]
  BY <1>h, JoinedIs
<1>5. /\ Len(h) = 2 + n
      /\ \A i \in 1..2 : h[i] = e[i]
      /\ \A i \in 1..n : h[2 + i] = s[i]
  BY <1>3s, <1>ez, <1>5r
<1>p. PICK p \in Seq(S) : p = h \o z
  BY JoinedIs
<1>6p. /\ Len(p) = Len(h) + Len(z)
       /\ \A i \in 1..Len(h) : p[i] = h[i]
       /\ \A i \in 1..Len(z) : p[Len(h) + i] = z[i]
  BY <1>p, JoinedIs
<1>6. /\ Len(p) = (2 + n) + 2
      /\ \A i \in 1..(2 + n) : p[i] = h[i]
      /\ \A i \in 1..2 : p[(2 + n) + i] = z[i]
  BY <1>5, <1>ez, <1>6p
<1>7. /\ Len(p) = n + 4 /\ p[1] = a /\ p[2] = b /\ p[n + 3] = c /\ p[n + 4] = d
      /\ \A i \in 1..n : p[i + 2] = s[i]
  <2>1. /\ 1 \in 1..2 /\ 2 \in 1..2 /\ 1 \in 1..(2 + n) /\ 2 \in 1..(2 + n)
        /\ (2 + n) + 1 = n + 3 /\ (2 + n) + 2 = n + 4
    OBVIOUS
  <2>2. \A i \in 1..n : 2 + i \in 1..(2 + n) /\ 2 + i = i + 2
    OBVIOUS
  <2>3. p[(2 + n) + 1] = c /\ p[(2 + n) + 2] = d /\ p[1] = a /\ p[2] = b
    BY <1>5, <1>6, <1>ez, <2>1
  <2>4. \A i \in 1..n : p[2 + i] = s[i]
    BY <1>5, <1>6, <2>2
  <2> QED
    BY <1>6, <2>1, <2>2, <2>3, <2>4
<1>8. p = AllParts(ctx)
  BY <1>a, <1>b, <1>c, <1>d, <1>e, <1>z, <1>t, <1>1, <1>s, <1>3s, <1>h, <1>p DEF AllParts
<1>9. AllParts(ctx) \in Seq(Part)
  BY AllPartsAre
<1> QED
  BY <1>a, <1>b, <1>c, <1>d, <1>t, <1>s, <1>7, <1>8, <1>9

\* The parts q are the parts p of a context with n snippets and x search hits more.
WithHits(p, q, n, x) ==
    /\ p \in Seq(Part) /\ Len(p) = n + 4
    /\ q \in Seq(Part) /\ Len(q) = n + x + 4
    /\ \A i \in 1..(n + 2) : q[i] = p[i]
    /\ \A i \in 1..x : ~Urgent(q[n + 2 + i])
    /\ \A i \in 1..2 : q[n + x + 2 + i] = p[n + 2 + i]

\* What a search adds comes between the other snippets and the project tree.
LEMMA MoreParts ==
    ASSUME NEW ctx \in Context, NEW found \in Seq(Nat), NEW n \in Nat, n = Len(ctx.snippets),
           NEW x \in Nat, x = Len(found)
    PROVE  WithHits(AllParts(ctx), AllParts(EnrichContextFromSearch(ctx, found)), n, x)
<1>0. DOMAIN found = 1..x
  OBVIOUS
<1>s. PICK s \in Seq(Snippet) : s = ctx.snippets
  BY DEF Context
<1>m. PICK m : m = [i \in 1..x |-> [source |-> "codebase", text |-> found[i]]]
  OBVIOUS
<1>j. PICK j : j = s \o m
  OBVIOUS
<1>c. PICK c \in Context : c = EnrichContextFromSearch(ctx, found)
  BY EnrichedIs
<1>1. c = [ctx EXCEPT !.snippets = j]
  BY <1>0, <1>c, <1>s, <1>m, <1>j DEF EnrichContextFromSearch
<1>2. /\ c.workspace = ctx.workspace /\ c.selection = ctx.selection /\ c.tree = ctx.tree
      /\ c.editor = ctx.editor /\ c.snippets = j
  BY <1>1 DEF Context
<1>3. Len(j) = n + x /\ (\A i \in 1..n : j[i] = s[i]) /\ \A k \in 1..x : j[n + k] = m[k]
  <2>1. m \in [1..x -> Snippet]
    <3>1. "codebase" \in Sources
      BY DEF Sources
    <3>2. \A t \in Nat : [source |-> "codebase", text |-> t] \in Snippet
      BY <3>1 DEF Snippet
    <3>3. \A i \in 1..x : found[i] \in Nat
      BY <1>0
    <3> QED
      BY <1>m, <3>2, <3>3
  <2>2. m \in Seq(Snippet) /\ Len(m) = x
    BY <2>1, RowIs
  <2> QED
    <3>r. PICK r \in Seq(Snippet) : r = m /\ Len(r) = x
      BY <2>2
    <3>1. /\ Len(s \o r) = Len(s) + Len(r)
          /\ \A i \in 1..Len(s) : (s \o r)[i] = s[i]
          /\ \A i \in 1..Len(r) : (s \o r)[Len(s) + i] = r[i]
      BY JoinedIs
    <3>2. s \o r = j /\ Len(s) = n
      BY <1>j, <1>s, <3>r
    <3> QED
      BY <3>r, <3>1, <3>2
<1>p. PICK p : p = AllParts(ctx)
  OBVIOUS
<1>q. PICK q : q = AllParts(c)
  OBVIOUS
<1>4. /\ p \in Seq(Part) /\ Len(p) = n + 4
      /\ p[1] = Prompted("workspace", 10, ctx.workspace)
      /\ p[2] = Prompted("selection", 0, ctx.selection)
      /\ \A i \in 1..n : p[i + 2] = snippetPrompt(s[i])
      /\ p[n + 3] = treePrompt(ctx.tree)
      /\ p[n + 4] = Prompted("editor", 1, ctx.editor)
  BY <1>p, <1>s, AllPartsAt
<1>5. /\ q \in Seq(Part) /\ Len(q) = (n + x) + 4
      /\ q[1] = Prompted("workspace", 10, ctx.workspace)
      /\ q[2] = Prompted("selection", 0, ctx.selection)
      /\ \A i \in 1..(n + x) : q[i + 2] = snippetPrompt(j[i])
      /\ q[(n + x) + 3] = treePrompt(ctx.tree)
      /\ q[(n + x) + 4] = Prompted("editor", 1, ctx.editor)
  <2>1. n + x \in Nat /\ n + x = Len(c.snippets)
    BY <1>2, <1>3
  <2> QED
    BY <1>2, <1>q, <2>1, AllPartsAt
<1>6. ASSUME NEW i \in 1..(n + 2) PROVE q[i] = p[i]
  <2>1. CASE i \in {1, 2}
    BY <1>4, <1>5, <2>1
  <2>2. CASE i \notin {1, 2}
    <3>k. PICK k \in 1..n : i = k + 2
      <4>1. i - 2 \in 1..n /\ i = (i - 2) + 2
        BY <2>2
      <4> QED
        BY <4>1
    <3>1. k \in 1..(n + x) /\ j[k] = s[k]
      BY <1>3
    <3> QED
      BY <1>4, <1>5, <3>k, <3>1
  <2> QED
    BY <2>1, <2>2
<1>7. ASSUME NEW i \in 1..x PROVE ~Urgent(q[n + 2 + i])
  <2>1. n + i \in 1..(n + x) /\ (n + i) + 2 = n + 2 + i
    OBVIOUS
  <2>2. j[n + i] = m[i] /\ m[i].source = "codebase"
    <3>1. j[n + i] = m[i]
      BY <1>3
    <3> QED
      BY <1>m, <3>1
  <2>3. q[n + 2 + i] = snippetPrompt(m[i])
    BY <1>5, <2>1, <2>2
  <2>4. snippetPrompt(m[i]).priority = SnippetPriority("codebase")
    BY <2>2 DEF snippetPrompt, Prompted
  <2>5. ~(4 < 4)
    OBVIOUS
  <2> QED
    BY <2>3, <2>4, <2>5, UrgentIs DEF Urgent
<1>8. \A i \in 1..2 : q[n + x + 2 + i] = p[n + 2 + i]
  <2>1. q[n + x + 2 + 1] = p[n + 2 + 1] /\ q[n + x + 2 + 2] = p[n + 2 + 2]
    <3>1. /\ n + x + 2 + 1 = (n + x) + 3 /\ n + x + 2 + 2 = (n + x) + 4
          /\ n + 2 + 1 = n + 3 /\ n + 2 + 2 = n + 4
      OBVIOUS
    <3> QED
      BY <1>4, <1>5, <3>1
  <2>2. \A i \in 1..2 : i = 1 \/ i = 2
    OBVIOUS
  <2> QED
    BY <2>1, <2>2
<1>9. Len(q) = n + x + 4
  BY <1>5
<1>10. WithHits(p, q, n, x)
  BY <1>4, <1>5, <1>6, <1>7, <1>8, <1>9 DEF WithHits
<1> QED
  BY <1>c, <1>p, <1>q, <1>10

\* A search adds nothing urgent: the urgent parts are the same without it.
LEMMA SameOffers ==
    ASSUME NEW ctx \in Context, NEW found \in Seq(Nat)
    PROVE  SameUrgent(ContextParts(ctx), ContextParts(EnrichContextFromSearch(ctx, found)))
<1>n. PICK n \in Nat : n = Len(ctx.snippets)
  BY DEF Context
<1>x. PICK x \in Nat : x = Len(found)
  OBVIOUS
<1>p. PICK p : p = AllParts(ctx)
  OBVIOUS
<1>q. PICK q : q = AllParts(EnrichContextFromSearch(ctx, found))
  OBVIOUS
<1>0. /\ p \in Seq(Part) /\ Len(p) = n + 4
      /\ q \in Seq(Part) /\ Len(q) = n + x + 4
      /\ \A i \in 1..(n + 2) : q[i] = p[i]
      /\ \A i \in 1..x : ~Urgent(q[n + 2 + i])
      /\ \A i \in 1..2 : q[n + x + 2 + i] = p[n + 2 + i]
  <2>1. WithHits(p, q, n, x)
    BY <1>n, <1>x, <1>p, <1>q, MoreParts
  <2> QED
    BY <2>1 DEF WithHits
<1>f. PICK f : /\ f \in [0..(n + 4) -> Seq(Part)]
               /\ f[0] = <<>>
               /\ \A k \in 1..(n + 4) : f[k] = AddIfAny(f[k - 1], p[k])
               /\ ContextParts(ctx) = f[n + 4]
  <2>1. n + 4 \in Nat
    OBVIOUS
  <2> QED
    BY <1>0, <1>p, <2>1, OfferedSteps
<1>g. PICK g : /\ g \in [0..(n + x + 4) -> Seq(Part)]
               /\ g[0] = <<>>
               /\ \A k \in 1..(n + x + 4) : g[k] = AddIfAny(g[k - 1], q[k])
               /\ ContextParts(EnrichContextFromSearch(ctx, found)) = g[n + x + 4]
  <2>1. n + x + 4 \in Nat
    OBVIOUS
  <2> QED
    BY <1>0, <1>q, <2>1, OfferedSteps
<1>1. /\ \A k \in 1..(n + 4) : f[k - 1] \in Seq(Part) /\ p[k] \in Part
      /\ \A k \in 1..(n + x + 4) : g[k - 1] \in Seq(Part) /\ q[k] \in Part
  <2>1. \A k \in 1..(n + 4) : k - 1 \in 0..(n + 4)
    OBVIOUS
  <2>2. \A k \in 1..(n + x + 4) : k - 1 \in 0..(n + x + 4)
    OBVIOUS
  <2>3. \A k \in 1..(n + 4) : p[k] \in Part
    BY <1>0
  <2>4. \A k \in 1..(n + x + 4) : q[k] \in Part
    BY <1>0
  <2> QED
    BY <1>f, <1>g, <2>1, <2>2, <2>3, <2>4
<1>2. ASSUME NEW k \in 1..(n + 4), NEW l \in 1..(n + x + 4), p[k] = q[l],
             SameUrgent(f[k - 1], g[l - 1])
      PROVE  SameUrgent(f[k], g[l])
  <2>1. SameUrgent(AddIfAny(f[k - 1], p[k]), AddIfAny(g[l - 1], p[k]))
    BY <1>1, <1>2, SameIfAny
  <2> QED
    BY <1>f, <1>g, <1>2, <2>1
<1>3. SameUrgent(f[0], g[0])
  <2>u. PICK u \in [1..0 -> Part] : TRUE
    <3>1. [k \in 1..0 |-> 1] \in [1..0 -> Part]
      OBVIOUS
    <3> QED
      BY <3>1
  <2>a. PICK a : a = [k \in 1..0 |-> 1]
    OBVIOUS
  <2>e. PICK e \in Seq(Part) : e = <<>>
    <3>1. \A S : <<>> \in Seq(S)
      OBVIOUS
    <3> QED
      BY <3>1
  <2>0. Len(e) = 0 /\ \A k : k \notin 1..0
    BY <2>e
  <2>1. a \in [1..0 -> 1..0]
    BY <2>0, <2>a
  <2>2. UrgentAt(e, 0, u, 0, a)
    BY <2>0, <2>1 DEF UrgentAt
  <2>3. HasUrgent(e, u, 0)
    BY <2>0, <2>2 DEF HasUrgent
  <2>4. SameUrgent(e, e)
    BY <2>3 DEF SameUrgent
  <2> QED
    BY <1>f, <1>g, <2>e, <2>4
\* The parts before those of the search.
<1> DEFINE T == {k \in Nat : SameUrgent(f[k], g[k])}
<1>4. 0 \in T
  BY <1>3
<1>5. ASSUME NEW k \in 1..(n + 2), k - 1 \in T PROVE k \in T
  <2>1. k \in 1..(n + 4) /\ k \in 1..(n + x + 4) /\ p[k] = q[k] /\ k \in Nat
    BY <1>0
  <2>2. SameUrgent(f[k - 1], g[k - 1])
    BY <1>5
  <2> QED
    BY <1>2, <2>1, <2>2
<1> HIDE DEF T
<1>6. SameUrgent(f[n + 2], g[n + 2])
  <2>1. n + 2 \in Nat /\ n + 2 \in 0..(n + 2)
    OBVIOUS
  <2>2. \A k \in 0..(n + 2) : k \in T
    BY <1>4, <1>5, <2>1, AllUpTo
  <2>3. n + 2 \in T
    BY <2>1, <2>2
  <2> QED
    BY <2>3 DEF T
\* Those of the search.
<1> DEFINE U == {k \in Nat : SameUrgent(f[n + 2], g[n + 2 + k])}
<1>7. 0 \in U
  <2>1. n + 2 + 0 = n + 2
    OBVIOUS
  <2> QED
    BY <1>6, <2>1
<1>8. ASSUME NEW k \in 1..x, k - 1 \in U PROVE k \in U
  <2>1. n + 2 + k \in 1..(n + x + 4) /\ (n + 2 + k) - 1 = n + 2 + (k - 1) /\ n + 2 \in 0..(n + 4) /\ k \in Nat
    OBVIOUS
  <2>2. SameUrgent(f[n + 2], g[n + 2 + (k - 1)])
    BY <1>8
  <2>3. f[n + 2] \in Seq(Part) /\ g[n + 2 + (k - 1)] \in Seq(Part) /\ q[n + 2 + k] \in Part
    BY <1>1, <1>f, <2>1
  <2>4. SameUrgent(f[n + 2], AddIfAny(g[n + 2 + (k - 1)], q[n + 2 + k]))
    BY <1>0, <2>2, <2>3, SameIfAny
  <2>5. g[n + 2 + k] = AddIfAny(g[n + 2 + (k - 1)], q[n + 2 + k])
    BY <1>g, <2>1
  <2> QED
    BY <2>1, <2>4, <2>5
<1> HIDE DEF U
<1>9. SameUrgent(f[n + 2], g[n + 2 + x])
  <2>1. \A k \in 0..x : k \in U
    BY <1>7, <1>8, AllUpTo
  <2>2. x \in U
    BY <2>1
  <2> QED
    BY <2>2 DEF U
\* The two behind it.
<1>10. SameUrgent(f[n + 3], g[n + x + 3])
  <2>1. /\ n + 3 \in 1..(n + 4) /\ n + x + 3 \in 1..(n + x + 4)
        /\ (n + 3) - 1 = n + 2 /\ (n + x + 3) - 1 = n + 2 + x
        /\ n + 2 + 1 = n + 3 /\ n + x + 2 + 1 = n + x + 3 /\ 1 \in 1..2
    OBVIOUS
  <2>2. p[n + 3] = q[n + x + 3]
    BY <1>0, <2>1
  <2> QED
    BY <1>2, <1>9, <2>1, <2>2
<1>11. SameUrgent(f[n + 4], g[n + x + 4])
  <2>1. /\ n + 4 \in 1..(n + 4) /\ n + x + 4 \in 1..(n + x + 4)
        /\ (n + 4) - 1 = n + 3 /\ (n + x + 4) - 1 = n + x + 3
        /\ n + 2 + 2 = n + 4 /\ n + x + 2 + 2 = n + x + 4 /\ 2 \in 1..2
    OBVIOUS
  <2>2. p[n + 4] = q[n + x + 4]
    BY <1>0, <2>1
  <2> QED
    BY <1>2, <1>10, <2>1, <2>2
<1> QED
  BY <1>11, <1>f, <1>g

KeptOf(out) == {out[i].part : i \in DOMAIN out}

\* A part that fits into a budget, whole or shortened, does so into a larger one.
LEMMA MoreRoom ==
    ASSUME NEW acc \in ContextState, NEW p \in Part, NEW small \in Int, NEW large \in Int, small <= large
    PROVE  /\ ~AddPart(acc, p, small).full => AddPart(acc, p, large) = AddPart(acc, p, small)
           /\ ~acc.full /\ AddPart(acc, p, small).out # acc.out =>
                 \E e \in Piece : e.part = p /\ AddPart(acc, p, large).out = Append(acc.out, e)
<1>o. PICK out \in Seq(Piece) : out = acc.out
  BY DEF ContextState
<1>u. PICK u \in Nat : u = acc.used
  BY DEF ContextState
<1>l. PICK l \in Nat : l = p.len
  BY DEF Part
<1>t. PICK t \in Nat : t = PartTokens(p)
  BY <1>l, TokensEstimated DEF PartTokens
<1>0. \A k \in Nat : [part |-> p, len |-> k] \in Piece
  BY DEF Piece
<1>s. PICK s : s = AddPart(acc, p, small)
  OBVIOUS
<1>g. PICK g : g = AddPart(acc, p, large)
  OBVIOUS
<1>1. CASE acc.full
  <2>1. s = acc /\ g = acc
    BY <1>1, <1>s, <1>g DEF AddPart
  <2> QED
    BY <1>1, <1>s, <1>g, <2>1
<1>2. CASE ~acc.full /\ u + t <= small
  <2>1. u + t <= large
    BY <1>2
  <2>2. /\ s = [acc EXCEPT !.used = @ + PartTokens(p), !.out = Append(@, [part |-> p, len |-> p.len])]
        /\ g = s
    BY <1>2, <1>s, <1>g, <1>u, <1>t, <2>1 DEF AddPart
  <2>e. PICK e \in Piece : e = [part |-> p, len |-> l]
    BY <1>0
  <2>3. g.out = Append(acc.out, e) /\ e.part = p
    BY <1>l, <2>2, <2>e DEF ContextState
  <2> QED
    BY <1>s, <1>g, <2>2, <2>3
<1>3. CASE ~acc.full /\ ~(u + t <= small)
  <2>r. PICK rest : rest = TrimToTokenBudget(l, small - u)
    OBVIOUS
  <2>1. s = [acc EXCEPT !.full = TRUE,
                        !.out = IF rest = 0 THEN @ ELSE Append(@, [part |-> p, len |-> rest])]
    BY <1>3, <1>s, <1>u, <1>l, <1>t, <2>r DEF AddPart
  <2>2. s.full
    BY <2>1 DEF ContextState
  <2>3. ASSUME s.out # acc.out PROVE \E e \in Piece : e.part = p /\ g.out = Append(acc.out, e)
    <3>1. rest # 0
      BY <2>1, <2>3 DEF ContextState
    <3>2. small - u > 0 /\ l > 0
      <4>1. ~(small - u <= 0)
        BY <3>1, <2>r DEF TrimToTokenBudget
      <4>2. CharsPerToken \in Nat
        BY PromptBudgetAssumption
      <4>3. l # 0
        <5>1. ASSUME l = 0 PROVE FALSE
          <6>1. small - u \in Nat
            BY <4>1
          <6>2. (small - u) * CharsPerToken \in Nat
            BY <4>2, <6>1
          <6>3. rest = l
            BY <4>1, <5>1, <6>2, <2>r DEF TrimToTokenBudget
          <6> QED
            BY <3>1, <5>1, <6>3
        <5> QED
          BY <5>1
      <4> QED
        BY <4>1, <4>3
    <3>3. CASE u + t <= large
      <4>1. g = [acc EXCEPT !.used = @ + PartTokens(p), !.out = Append(@, [part |-> p, len |-> p.len])]
        BY <1>3, <1>g, <1>u, <1>t, <3>3 DEF AddPart
      <4>e. PICK e \in Piece : e = [part |-> p, len |-> l]
        BY <1>0
      <4>2. g.out = Append(acc.out, e) /\ e.part = p
        BY <1>l, <4>1, <4>e DEF ContextState
      <4> QED
        BY <4>2
    <3>4. CASE ~(u + t <= large)
      <4>b. PICK b \in Nat \ {0} : b = large - u
        BY <3>2
      <4>r. PICK more \in Nat : more = TrimToTokenBudget(l, large - u)
        BY <4>b, CutEstimated
      <4>1. more # 0
        <5>c. PICK c \in Nat \ {0} : c = CharsPerToken
          BY PromptBudgetAssumption
        <5>n. PICK notice \in Nat : notice = TruncatedNotice
          BY PromptBudgetAssumption
        <5>d. PICK d \in Nat : d = b * c /\ d > 0
          BY <4>b, <5>c
        <5>1. more = l \/ more = d + notice
          BY <4>b, <4>r, <5>c, <5>n, <5>d DEF TrimToTokenBudget
        <5> QED
          BY <3>2, <5>d, <5>n, <5>1
      <4>2. g = [acc EXCEPT !.full = TRUE,
                            !.out = IF more = 0 THEN @ ELSE Append(@, [part |-> p, len |-> more])]
        BY <1>3, <1>g, <1>u, <1>l, <1>t, <3>4, <4>r DEF AddPart
      <4>e. PICK e \in Piece : e = [part |-> p, len |-> more]
        BY <1>0
      <4>3. g.out = Append(acc.out, e) /\ e.part = p
        BY <4>1, <4>2, <4>e DEF ContextState
      <4> QED
        BY <4>3
    <3> QED
      BY <3>3, <3>4
  <2> QED
    BY <1>s, <1>g, <2>2, <2>3
<1> QED
  BY <1>1, <1>2, <1>3, <1>u, <1>t

\* What is kept stays kept.
LEMMA KeptGrows ==
    ASSUME NEW acc \in ContextState, NEW p \in Part, NEW budget \in Int
    PROVE  KeptOf(acc.out) \subseteq KeptOf(AddPart(acc, p, budget).out)
<1>n. PICK next : next = AddPart(acc, p, budget)
  OBVIOUS
<1>1. PartAdded(acc, p, next)
  BY <1>n, AddPartIs
<1>2. ASSUME NEW e \in Piece, next.out = Append(acc.out, e) PROVE KeptOf(acc.out) \subseteq KeptOf(next.out)
  <2>o. PICK out \in Seq(Piece) : out = acc.out
    BY DEF ContextState
  <2>1. DOMAIN out = 1..Len(out) /\ DOMAIN Append(out, e) = 1..(Len(out) + 1) /\ Len(out) \in Nat
    OBVIOUS
  <2>2. \A i \in 1..Len(out) : i \in 1..(Len(out) + 1) /\ Append(out, e)[i] = out[i]
    BY <2>1, AppendedIs
  <2> QED
    BY <1>2, <2>o, <2>1, <2>2 DEF KeptOf
<1> QED
  BY <1>1, <1>2, <1>n DEF PartAdded

LEMMA KeptAppended ==
    ASSUME NEW out \in Seq(Piece), NEW e \in Piece
    PROVE  KeptOf(Append(out, e)) = KeptOf(out) \cup {e.part}
<1>n. PICK n \in Nat : n = Len(out)
  OBVIOUS
<1>a. PICK a : a = Append(out, e)
  OBVIOUS
<1>1. DOMAIN out = 1..n /\ DOMAIN a = 1..(n + 1) /\ a[n + 1] = e
  BY <1>n, <1>a, AppendedIs
<1>2. \A i \in 1..n : i \in 1..(n + 1) /\ a[i] = out[i]
  BY <1>n, <1>a, AppendedIs
<1>3. \A i \in 1..(n + 1) : i = n + 1 \/ i \in 1..n
  OBVIOUS
<1>4. n + 1 \in 1..(n + 1)
  OBVIOUS
<1>5. KeptOf(out) = {out[i].part : i \in 1..n} /\ KeptOf(a) = {a[i].part : i \in 1..(n + 1)}
  BY <1>1 DEF KeptOf
<1> QED
  BY <1>a, <1>1, <1>2, <1>3, <1>4, <1>5

\* With no less room, and the same parts foremost, a context keeps the urgent parts.
LEMMA UrgentKept ==
    ASSUME NEW L \in Nat, NEW ps \in [1..L -> Part], NEW M \in Nat, NEW qs \in [1..M -> Part],
           NEW m \in Nat, NEW w \in [1..m -> Part],
           Foremost(ps, L, w, m), Foremost(qs, M, w, m),
           NEW small \in Int, NEW large \in Int, small <= large
    PROVE  \A p \in KeptOf(AddParts(ps, small).out) :
              Urgent(p) => p \in KeptOf(AddParts(qs, large).out)
<1>f. PICK f : /\ f \in [0..L -> ContextState]
               /\ f[0] = EmptyContext
               /\ \A n \in 1..L : f[n] = AddPart(f[n - 1], ps[n], small)
               /\ \A n \in 1..L : PartAdded(f[n - 1], ps[n], f[n])
               /\ AddParts(ps, small) = f[L]
  BY AddSteps
<1>g. PICK g : /\ g \in [0..M -> ContextState]
               /\ g[0] = EmptyContext
               /\ \A n \in 1..M : g[n] = AddPart(g[n - 1], qs[n], large)
               /\ \A n \in 1..M : PartAdded(g[n - 1], qs[n], g[n])
               /\ AddParts(qs, large) = g[M]
  BY AddSteps
<1>m. /\ m <= L /\ m <= M
      /\ \A n \in 1..m : ps[n] = w[n] /\ qs[n] = w[n]
      /\ \A n \in (m + 1)..L : ~Urgent(ps[n])
  BY DEF Foremost
\* As long as nothing was left out, both contexts are the same.
<1> DEFINE T == {n \in Nat : ~f[n].full => g[n] = f[n]}
<1>1. 0 \in T
  BY <1>f, <1>g
<1>2. ASSUME NEW n \in 1..m, n - 1 \in T PROVE n \in T
  <2>0. n \in 1..L /\ n \in 1..M /\ n - 1 \in 0..L /\ n - 1 \in 0..M /\ n \in Nat
    BY <1>m
  <2>a. PICK acc \in ContextState : acc = f[n - 1]
    BY <1>f, <2>0
  <2>p. PICK p \in Part : p = ps[n] /\ p = qs[n]
    BY <1>m, <2>0
  <2>1. f[n] = AddPart(acc, p, small)
    BY <1>f, <2>0, <2>a, <2>p
  <2>2. CASE f[n].full
    BY <2>0, <2>2
  <2>3. CASE ~f[n].full
    <3>1. ~acc.full
      <4>1. acc.full => f[n] = acc
        BY <2>1 DEF AddPart
      <4> QED
        BY <2>3, <4>1
    <3>2. g[n - 1] = acc
      BY <1>2, <2>a, <3>1
    <3>3. g[n] = AddPart(acc, p, large)
      BY <1>g, <2>0, <2>p, <3>2
    <3>4. g[n] = f[n]
      BY <2>1, <2>3, <3>3, MoreRoom
    <3> QED
      BY <2>0, <3>4
  <2> QED
    BY <2>2, <2>3
<1> HIDE DEF T
<1>3. \A n \in 0..m : n \in T
  BY <1>1, <1>2, AllUpTo
<1>4. \A n \in 0..m : ~f[n].full => g[n] = f[n]
  BY <1>3 DEF T
\* What the second one has kept at some place it keeps to the end.
<1> DEFINE U == {k \in Nat : k <= M => KeptOf(g[M - k].out) \subseteq KeptOf(g[M].out)}
<1>5. 0 \in U
  <2>1. M - 0 = M
    OBVIOUS
  <2> QED
    BY <2>1
<1>6. ASSUME NEW k \in 1..M, k - 1 \in U PROVE k \in U
  <2>0. M - (k - 1) \in 1..M /\ (M - (k - 1)) - 1 = M - k /\ M - k \in 0..M /\ k - 1 <= M /\ k \in Nat
    OBVIOUS
  <2>n. PICK n \in 1..M : n = M - (k - 1) /\ n - 1 = M - k
    BY <2>0
  <2>a. PICK acc \in ContextState : acc = g[n - 1]
    BY <1>g, <2>0, <2>n
  <2>1. g[n] = AddPart(acc, qs[n], large)
    BY <1>g, <2>a
  <2>2. KeptOf(acc.out) \subseteq KeptOf(g[n].out)
    BY <2>1, KeptGrows
  <2>3. KeptOf(g[n].out) \subseteq KeptOf(g[M].out)
    BY <1>6, <2>0, <2>n
  <2> QED
    BY <2>0, <2>2, <2>3, <2>a, <2>n
<1> HIDE DEF U
<1>7. \A k \in 0..M : k \in U
  BY <1>5, <1>6, AllUpTo
<1>8. ASSUME NEW n \in 0..M PROVE KeptOf(g[n].out) \subseteq KeptOf(g[M].out)
  <2>1. M - n \in 0..M /\ M - (M - n) = n
    OBVIOUS
  <2>2. M - n \in U
    BY <1>7, <2>1
  <2> QED
    BY <2>1, <2>2 DEF U
\* So each urgent part the first one keeps is kept by the second.
<1> DEFINE V == {n \in Nat : \A p \in KeptOf(f[n].out) : Urgent(p) => p \in KeptOf(g[M].out)}
<1>9. 0 \in V
  <2>1. f[0].out = <<>>
    BY <1>f DEF EmptyContext
  <2>2. KeptOf(f[0].out) = {}
    BY <2>1 DEF KeptOf
  <2> QED
    BY <2>2
<1>10. ASSUME NEW n \in 1..L, n - 1 \in V PROVE n \in V
  <2>0. n - 1 \in 0..L /\ n \in Nat
    OBVIOUS
  <2>a. PICK acc \in ContextState : acc = f[n - 1]
    BY <1>f, <2>0
  <2>p. PICK p \in Part : p = ps[n]
    OBVIOUS
  <2>1. f[n] = AddPart(acc, p, small) /\ PartAdded(acc, p, f[n])
    BY <1>f, <2>a, <2>p
  <2>2. CASE f[n].out = acc.out
    BY <1>10, <2>0, <2>2, <2>a
  <2>3. CASE f[n].out # acc.out
    <3>1. ~acc.full
      BY <2>1, <2>3 DEF PartAdded
    <3>e. PICK e \in Piece : e.part = p /\ f[n].out = Append(acc.out, e)
      BY <2>1, <2>3 DEF PartAdded
    <3>o. acc.out \in Seq(Piece)
      BY DEF ContextState
    <3>2. KeptOf(f[n].out) = KeptOf(acc.out) \cup {p}
      BY <3>e, <3>o, KeptAppended
    <3>3. ASSUME Urgent(p) PROVE p \in KeptOf(g[M].out)
      <4>1. n \in 1..m
        <5>1. n \notin (m + 1)..L
          BY <1>m, <2>p, <3>3
        <5> QED
          BY <5>1
      <4>2. n - 1 \in 0..m /\ n \in 1..M /\ n \in 0..M /\ p = qs[n]
        BY <1>m, <2>p, <4>1
      <4>3. g[n - 1] = acc
        BY <1>4, <2>a, <3>1, <4>2
      <4>4. g[n] = AddPart(acc, p, large)
        BY <1>g, <4>2, <4>3
      <4>5. PICK d \in Piece : d.part = p /\ g[n].out = Append(acc.out, d)
        BY <2>1, <2>3, <3>1, <4>4, MoreRoom
      <4>6. p \in KeptOf(g[n].out)
        BY <3>o, <4>5, KeptAppended
      <4> QED
        BY <1>8, <4>2, <4>6
    <3> QED
      BY <1>10, <2>0, <2>a, <3>2, <3>3
  <2> QED
    BY <2>2, <2>3
<1> HIDE DEF V
<1>11. \A n \in 0..L : n \in V
  BY <1>9, <1>10, AllUpTo
<1>12. L \in V
  BY <1>11
<1> QED
  BY <1>12, <1>f, <1>g DEF V

\* Two contexts of the same request: the second with what a search adds, a system prompt
\* that is no longer, and a limit that is no lower.
LEMMA BuildsAlike ==
    ASSUME NEW ctx \in Context, NEW found \in Seq(Nat),
           NEW long \in Nat, NEW short \in Nat, short <= long,
           NEW low \in Int, NEW high \in Int, low <= high
    PROVE  \A p \in KeptOf(Build(long, ctx, low)) \ KeptOf(Build(short, EnrichContextFromSearch(ctx, found), high)) :
              p.priority >= SnippetPriority("codebase")
<1>c. PICK c \in Context : c = EnrichContextFromSearch(ctx, found)
  BY EnrichedIs
<1>p. PICK p \in Seq(Part) : p = ContextParts(ctx)
  BY OfferedAre
<1>q. PICK q \in Seq(Part) : q = ContextParts(c)
  BY OfferedAre
<1>L. PICK L \in Nat : L = Len(p)
  OBVIOUS
<1>M. PICK M \in Nat : M = Len(q)
  OBVIOUS
<1>0. p \in [1..L -> Part] /\ q \in [1..M -> Part]
  BY <1>L, <1>M
<1>1. SameUrgent(p, q)
  BY <1>c, <1>p, <1>q, SameOffers
<1>m. PICK m \in Nat : \E u \in [1..m -> Part] : HasUrgent(p, u, m) /\ HasUrgent(q, u, m)
  BY <1>1 DEF SameUrgent
<1>u. PICK u \in [1..m -> Part] : HasUrgent(p, u, m) /\ HasUrgent(q, u, m)
  BY <1>m
<1>a. PICK a : UrgentAt(p, L, u, m, a)
  BY <1>u, <1>L DEF HasUrgent
<1>b. PICK b : UrgentAt(q, M, u, m, b)
  BY <1>u, <1>M DEF HasUrgent
<1>w. PICK w \in [1..m -> Part] : w = sortContextParts(u)
  BY SortIs
<1>s. PICK ps \in [1..L -> Part] : ps = sortContextParts(p)
  BY <1>0, SortIs
<1>t. PICK qs \in [1..M -> Part] : qs = sortContextParts(q)
  BY <1>0, SortIs
<1>2. Foremost(ps, L, w, m)
  BY <1>0, <1>a, <1>s, <1>w, SortsAlike
<1>3. Foremost(qs, M, w, m)
  BY <1>0, <1>b, <1>t, <1>w, SortsAlike
<1>x. PICK least \in Int : least = MinContextBudget
  BY PromptBudgetAssumption
<1>r. PICK r \in Int : r = SystemReserveTokens
  BY PromptBudgetAssumption
<1>d. PICK d \in Int : d = low - long - r
  OBVIOUS
<1>e. PICK e \in Int : e = high - short - r
  OBVIOUS
<1>4. Max({least, d}) = (IF least >= d THEN least ELSE d) /\ Max({least, e}) = (IF least >= e THEN least ELSE e)
  BY MaxOfTwo
<1>y. PICK small \in Int : small = ContextBudgetAfterReserve(low, long) /\ small = IF least >= d THEN least ELSE d
  BY <1>x, <1>r, <1>d, <1>4 DEF ContextBudgetAfterReserve
<1>z. PICK large \in Int : large = ContextBudgetAfterReserve(high, short) /\ large = IF least >= e THEN least ELSE e
  BY <1>x, <1>r, <1>e, <1>4 DEF ContextBudgetAfterReserve
<1>5. small <= large
  BY <1>d, <1>e, <1>y, <1>z
<1>6. Build(long, ctx, low) = AddParts(ps, small).out /\ Build(short, c, high) = AddParts(qs, large).out
  BY <1>p, <1>q, <1>s, <1>t, <1>y, <1>z DEF Build, AddParts
<1>7. \A k \in KeptOf(Build(long, ctx, low)) : Urgent(k) => k \in KeptOf(Build(short, c, high))
  BY <1>2, <1>3, <1>5, <1>6, UrgentKept
<1>8. \A k \in KeptOf(Build(long, ctx, low)) : k \in Part
  <2>o. PICK out \in Seq(Piece) : out = Build(long, ctx, low)
    BY BuildIs
  <2>1. \A i \in DOMAIN out : out[i] \in Piece
    OBVIOUS
  <2>2. \A i \in DOMAIN out : out[i].part \in Part
    BY <2>1 DEF Piece
  <2> QED
    BY <2>o, <2>2 DEF KeptOf
<1>9. ASSUME NEW k \in Part, ~Urgent(k) PROVE k.priority >= SnippetPriority("codebase")
  <2>1. k.priority \in Nat
    BY DEF Part
  <2> QED
    BY <1>9, <2>1, UrgentIs DEF Urgent
<1> QED
  BY <1>c, <1>7, <1>8, <1>9

\* A longer text takes no fewer tokens.
LEMMA MoreTokens ==
    ASSUME NEW short \in Nat, NEW long \in Nat, short <= long
    PROVE  EstimateTokens(short) <= EstimateTokens(long)
<1>c. PICK c \in Nat \ {0} : c = CharsPerToken
  BY PromptBudgetAssumption
<1>q. PICK q \in Int : q = short \div c
  OBVIOUS
<1>r. PICK r \in Int : r = long \div c
  OBVIOUS
<1>1. q <= r
  <2>1. c * q <= short /\ long < c * (r + 1)
    BY <1>q, <1>r
  <2>2. SUFFICES ASSUME q >= r + 1 PROVE FALSE
    OBVIOUS
  <2>3. c * q >= c * (r + 1)
    BY <2>2
  <2>4. c * q \in Int /\ c * (r + 1) \in Int
    OBVIOUS
  <2> QED
    BY <2>1, <2>3, <2>4
<1>2. EstimateTokens(short) = IF short = 0 THEN 0 ELSE IF q > 1 THEN q ELSE 1
  BY <1>c, <1>q, TokensEstimated
<1>3. EstimateTokens(long) = IF long = 0 THEN 0 ELSE IF r > 1 THEN r ELSE 1
  BY <1>c, <1>r, TokensEstimated
<1> QED
  BY <1>1, <1>2, <1>3

\* The limit of the runner lowers a budget, unless there is no other and it is above
\* DefaultTokenBudget.
LEMMA RunnerLowers ==
    ASSUME NEW configured \in Int, NEW runner \in Int,
           configured > 0 \/ runner <= DefaultTokenBudget
    PROVE  EffectiveBudget(configured, runner) <= EffectiveBudget(configured, 0)
<1>d. PICK d \in Nat : d = DefaultTokenBudget
  BY PromptBudgetAssumption
<1>g. PICK given : given = {b \in {configured, runner} : b > 0}
  OBVIOUS
<1>a. PICK alone : alone = {b \in {configured, 0} : b > 0}
  OBVIOUS
<1>1. ASSUME NEW some \in SUBSET Nat, some # {}
      PROVE  Min(some) \in some /\ \A m \in some : Min(some) <= m
  <2>1. PICK n \in some : \A m \in some : n <= m
    BY <1>1, SmallestOne
  <2> QED
    BY <2>1 DEF Min
<1>2. CASE configured > 0
  <2>1. given \in SUBSET Nat /\ configured \in given /\ alone = {configured}
    BY <1>2, <1>g, <1>a
  <2>2. Min(given) <= configured
    BY <1>1, <2>1
  <2>3. Min(alone) = configured
    BY <1>1, <2>1
  <2>4. EffectiveBudget(configured, runner) = Min(given) /\ EffectiveBudget(configured, 0) = Min(alone)
    BY <1>g, <1>a, <2>1 DEF EffectiveBudget
  <2> QED
    BY <2>2, <2>3, <2>4
<1>3. CASE configured <= 0
  <2>1. alone = {}
    BY <1>3, <1>a
  <2>2. EffectiveBudget(configured, 0) = d
    BY <1>a, <1>d, <2>1 DEF EffectiveBudget
  <2>3. CASE runner <= 0
    <3>1. given = {}
      BY <1>3, <1>g, <2>3
    <3> QED
      BY <1>d, <1>g, <2>2, <3>1 DEF EffectiveBudget
  <2>4. CASE runner > 0
    <3>1. given \in SUBSET Nat /\ given = {runner}
      BY <1>3, <1>g, <2>4
    <3>2. Min(given) = runner
      BY <1>1, <3>1
    <3>3. EffectiveBudget(configured, runner) = runner
      BY <1>g, <3>1, <3>2 DEF EffectiveBudget
    <3> QED
      BY <1>3, <1>d, <2>2, <3>3
  <2> QED
    BY <2>3, <2>4
<1> QED
  BY <1>2, <1>3

\* A chat that is deferred and completed by its job (handleChat, ChatService.Complete): the
\* job sends the messages and the limit of the answer that the handler sent and, unless the
\* handler had the higher budget of a runner, every part of the context that the handler
\* sent and that matters more than what a search finds.
THEOREM DeferredChatsAlike ==
    \A req \in Request, found \in Seq(Nat) : \A cache : TrueCache(cache) =>
       DeferredAlike(req, HandlerPrompt(req, cache),
                     Complete(req, found, HandlerPrompt(req, cache).cache))
<1> SUFFICES ASSUME NEW req \in Request, NEW found \in Seq(Nat), NEW cache, TrueCache(cache)
             PROVE  DeferredAlike(req, HandlerPrompt(req, cache),
                                  Complete(req, found, HandlerPrompt(req, cache).cache))
  OBVIOUS
<1>0. /\ req.system \in Nat /\ req.tools \in Nat /\ req.system \in Int
      /\ req.configured \in Int /\ req.runner \in Int
  BY DEF Request
<1>i. 0 \in Int /\ req.configured \in Int /\ req.runner \in Int
  BY <1>0
<1>h. PICK h : h = Handled(req)
  OBVIOUS
<1>c. PICK c \in Context : c = h.ctx
  BY <1>h, HandledIs
<1>x. PICK more \in Context : more = EnrichContextFromSearch(c, found)
  BY EnrichedIs
<1>s. PICK system \in Nat : system = req.system + req.tools
  BY <1>0
<1>l. PICK low \in Int : low = EffectiveBudget(req.configured, req.runner)
  BY <1>i, EffectiveIs
<1>u. PICK high \in Int : high = EffectiveBudget(req.configured, 0)
  BY <1>i, EffectiveIs
<1>a. PICK long \in Nat : long = EstimateTokens(system)
  BY TokensEstimated
<1>b. PICK short \in Nat : short = EstimateTokens(req.system)
  BY <1>0, TokensEstimated
<1>g. PICK got : got = HandlerPrompt(req, cache)
  OBVIOUS
<1>j. PICK job : job = Complete(req, found, got.cache)
  OBVIOUS
<1>1. got = RunnerMessages(h, system, c, low, cache)
  BY <1>h, <1>c, <1>s, <1>l, <1>g DEF HandlerPrompt
<1>2. job = RunnerMessages(h, req.system, more, high, got.cache)
  BY <1>h, <1>c, <1>x, <1>u, <1>j DEF Complete
<1>3. job.lines = got.lines /\ job.answer = got.answer
  BY <1>1, <1>2 DEF RunnerMessages
<1>4. got.context = Build(long, c, low) /\ TrueCache(got.cache)
  BY <1>1, <1>a, FromCacheOrBuilt
<1>5. job.context = Build(short, more, high)
  BY <1>2, <1>4, <1>b, FromCacheOrBuilt
<1>6. short <= long
  <2>1. req.system <= system
    BY <1>0, <1>s
  <2> QED
    BY <1>0, <1>a, <1>b, <2>1, MoreTokens
<1>7. ASSUME req.configured > 0 \/ req.runner <= DefaultTokenBudget
      PROVE  \A p \in Kept(got) \ Kept(job) : p.priority >= SnippetPriority("codebase")
  <2>1. low <= high
    BY <1>0, <1>7, <1>l, <1>u, RunnerLowers
  <2>2. Kept(got) = KeptOf(Build(long, c, low)) /\ Kept(job) = KeptOf(Build(short, more, high))
    BY <1>4, <1>5 DEF Kept, KeptOf
  <2> QED
    BY <1>6, <1>x, <2>1, <2>2, BuildsAlike
<1> QED
  BY <1>3, <1>7, <1>g, <1>j DEF DeferredAlike

=============================================================================
