--------------------------- MODULE DispatchProofs ---------------------------
(***************************************************************************)
(* Theorems about Dispatch, for any number of runners and callers and any  *)
(* limits.                                                                 *)
(***************************************************************************)
EXTENDS Dispatch, FiniteSetTheorems, TLAPS

-----------------------------------------------------------------------------
(* The circuit breaker.                                                    *)

CircuitType ==
    /\ failures \in [Runners -> Nat]
    /\ openUntil \in [Runners -> Nat]
    /\ now \in Nat \ {0}

\* New makes both limits positive.
LEMMA BreakerLimits == MaxFailures \in Nat \ {0} /\ Cooldown \in Nat \ {0}
BY BreakerAssumption DEF MaxFailures, Cooldown

\* What one step may do to the circuits: the three methods of Breaker.
CircuitStep ==
    \/ UNCHANGED <<breakerVars, now>>
    \/ now' = now + 1 /\ UNCHANGED breakerVars
    \/ \E a \in Runners : Allow(a) /\ UNCHANGED now
    \/ \E a : RecordSuccess(a) /\ UNCHANGED now
    \/ \E a : RecordFailure(a) /\ UNCHANGED now

\* Every step of a caller, a runner or the clock is one of them.
LEMMA StepOfCircuit == [Next]_vars => CircuitStep
<1> SUFFICES ASSUME [Next]_vars PROVE CircuitStep
  OBVIOUS
<1>1. ASSUME NEW c \in Callers, CallNext(c) PROVE CircuitStep
  <2>1. CASE \E a \in Runners : List(c, a) \/ ProbeBest(c, a)
    BY <2>1 DEF List, ProbeBest, CircuitStep
  <2>2. CASE NotLoaded(c) \/ NotSent(c)
    BY <2>2 DEF NotLoaded, NotSent, Fail, CircuitStep
  <2>3. CASE Sent(c)
    BY <2>3 DEF Sent, CircuitStep
  <2>4. CASE UNCHANGED <<breakerVars, now>>
    BY <2>4 DEF CircuitStep
  <2> QED
    BY <1>1, <2>1, <2>2, <2>3, <2>4 DEF CallNext, Begin, Cancel, Try, Required,
         StreamEnds, StreamAbandoned, Scan, ProbeAll, Pick, PickNone, Probe, ProbeAgain
<1>2. ASSUME NEW a \in Runners, RunnerChanges(a) \/ ModelReady(a) PROVE CircuitStep
  BY <1>2 DEF RunnerChanges, ModelReady, CircuitStep
<1>3. CASE Tick
  BY <1>3 DEF Tick, CircuitStep
<1>4. CASE UNCHANGED vars
  BY <1>4 DEF vars, CircuitStep
<1> QED
  BY <1>1, <1>2, <1>3, <1>4 DEF Next

LEMMA CircuitInductive ==
    ASSUME CircuitType, OpenIffFailing, CircuitStep
    PROVE  CircuitType' /\ OpenIffFailing'
<1>1. CASE UNCHANGED <<breakerVars, now>>
  BY <1>1 DEF CircuitType, OpenIffFailing, breakerVars
<1>2. CASE now' = now + 1 /\ UNCHANGED breakerVars
  BY <1>2 DEF CircuitType, OpenIffFailing, breakerVars
<1>3. ASSUME NEW a \in Runners, Allow(a), UNCHANGED now
      PROVE  CircuitType' /\ OpenIffFailing'
  BY <1>3, BreakerLimits DEF CircuitType, OpenIffFailing, Allow, breakerVars
<1>4. ASSUME NEW a, RecordSuccess(a), UNCHANGED now
      PROVE  CircuitType' /\ OpenIffFailing'
  <2>1. CASE a \in Runners
    BY <1>4, <2>1, BreakerLimits DEF CircuitType, OpenIffFailing, RecordSuccess
  <2>2. CASE a \notin Runners
    <3>1. failures' = failures /\ openUntil' = openUntil
      BY <1>4, <2>2 DEF CircuitType, RecordSuccess
    <3> QED
      BY <1>4, <3>1 DEF CircuitType, OpenIffFailing
  <2> QED
    BY <2>1, <2>2
<1>5. ASSUME NEW a, RecordFailure(a), UNCHANGED now
      PROVE  CircuitType' /\ OpenIffFailing'
  <2>1. CASE a \in Runners
    <3>1. failures[a] \in Nat /\ now + Cooldown \in Nat \ {0}
      BY <2>1, BreakerLimits DEF CircuitType
    <3>2. CircuitType'
      BY <1>5, <2>1, <3>1 DEF CircuitType, RecordFailure
    <3>3. /\ failures'[a] = failures[a] + 1
          /\ openUntil'[a] = IF failures[a] + 1 >= MaxFailures
                              THEN now + Cooldown ELSE openUntil[a]
          /\ \A b \in Runners \ {a} : failures'[b] = failures[b] /\ openUntil'[b] = openUntil[b]
      BY <1>5, <2>1 DEF CircuitType, RecordFailure
    <3> QED
      BY <3>1, <3>2, <3>3, BreakerLimits DEF OpenIffFailing
  <2>2. CASE a \notin Runners
    <3>1. failures' = failures /\ openUntil' = openUntil
      BY <1>5, <2>2 DEF CircuitType, RecordFailure
    <3> QED
      BY <1>5, <3>1 DEF CircuitType, OpenIffFailing
  <2> QED
    BY <2>1, <2>2
<1> QED
  BY <1>1, <1>2, <1>3, <1>4, <1>5 DEF CircuitStep

LEMMA CircuitInit == Init => CircuitType /\ OpenIffFailing
BY BreakerLimits DEF Init, BreakerInit, CircuitType, OpenIffFailing

\* A circuit is open exactly when circuit_breaker_failures failures were
\* counted, whatever callers, cancellations and late answers do (breaker.go).
THEOREM CircuitsConsistent == Spec => []OpenIffFailing
<1>1. Init => CircuitType /\ OpenIffFailing
  BY CircuitInit
<1>2. CircuitType /\ OpenIffFailing /\ [Next]_vars => CircuitType' /\ OpenIffFailing'
  BY StepOfCircuit, CircuitInductive
<1> QED
  BY <1>1, <1>2, PTL DEF Spec

-----------------------------------------------------------------------------
(* The lists of runners the callers work through.                          *)

Elems(s) == {s[i] : i \in 1..Len(s)}

Distinct(s) == \A i, j \in 1..Len(s) : s[i] = s[j] => i = j

LEMMA AppendFacts ==
    ASSUME NEW S, NEW s \in Seq(S), NEW x \in S
    PROVE  /\ Append(s, x) \in Seq(S) /\ Append(s, x) # <<>>
           /\ Len(Append(s, x)) = Len(s) + 1
           /\ Elems(Append(s, x)) = Elems(s) \cup {x}
           /\ (Distinct(s) /\ x \notin Elems(s)) => Distinct(Append(s, x))
<1>1. /\ Append(s, x) \in Seq(S) /\ Append(s, x) # <<>>
      /\ Len(Append(s, x)) = Len(s) + 1
      /\ \A i \in 1..Len(s) : Append(s, x)[i] = s[i]
      /\ Append(s, x)[Len(s) + 1] = x
  OBVIOUS
<1>2. Elems(Append(s, x)) = Elems(s) \cup {x}
  BY <1>1 DEF Elems
<1>3. (Distinct(s) /\ x \notin Elems(s)) => Distinct(Append(s, x))
  BY <1>1 DEF Elems, Distinct
<1> QED
  BY <1>1, <1>2, <1>3

LEMMA TailFacts ==
    ASSUME NEW S, NEW s \in Seq(S), s # <<>>
    PROVE  /\ Tail(s) \in Seq(S) /\ Head(s) \in S
           /\ Len(Tail(s)) = Len(s) - 1
           /\ Elems(s) = Elems(Tail(s)) \cup {Head(s)}
           /\ Distinct(s) => Distinct(Tail(s)) /\ Head(s) \notin Elems(Tail(s))
<1>1. /\ Tail(s) \in Seq(S) /\ Head(s) \in S /\ Len(s) \in Nat \ {0}
      /\ Len(Tail(s)) = Len(s) - 1
      /\ \A i \in 1..Len(Tail(s)) : Tail(s)[i] = s[i + 1]
      /\ Head(s) = s[1]
  OBVIOUS
<1>2. Elems(s) = Elems(Tail(s)) \cup {Head(s)}
  <2>1. \A i \in 1..Len(s) : i = 1 \/ (i - 1 \in 1..Len(Tail(s)) /\ s[i] = Tail(s)[i - 1])
    BY <1>1
  <2>2. \A i \in 1..Len(Tail(s)) : i + 1 \in 1..Len(s) /\ Tail(s)[i] = s[i + 1]
    BY <1>1
  <2>3. ASSUME NEW i \in 1..Len(s) PROVE s[i] \in Elems(Tail(s)) \cup {Head(s)}
    BY <1>1, <2>1 DEF Elems
  <2>4. ASSUME NEW i \in 1..Len(Tail(s)) PROVE Tail(s)[i] \in Elems(s)
    BY <2>2 DEF Elems
  <2>5. Head(s) \in Elems(s)
    BY <1>1 DEF Elems
  <2> QED
    BY <2>3, <2>4, <2>5 DEF Elems
<1>3. Distinct(s) => Distinct(Tail(s)) /\ Head(s) \notin Elems(Tail(s))
  BY <1>1 DEF Elems, Distinct
<1> QED
  BY <1>1, <1>2, <1>3

LEMMA EmptyList == Elems(<<>>) = {} /\ Distinct(<<>>)
BY DEF Elems, Distinct

-----------------------------------------------------------------------------
(* One call.                                                               *)

Probing == {"picking", "probing", "probingAll"}

\* The runners a chat call has yet to ask about, was refused and may try.
Listing(k) ==
    k.pc = "listing" /\ k.kind = "chat" =>
      /\ k.todo # {}
      /\ k.todo \cap (k.denied \cup Elems(k.list)) = {}
      /\ Runners = k.todo \cup k.denied \cup Elems(k.list)

\* The loop over its list: the runner being tried is none of those to come, and
\* attempts are left for no more than these.
Looping(k) ==
    /\ Distinct(k.list)
    /\ Elems(k.list) \cap k.denied = {}
    /\ k.kind # "chat" => k.list = <<>> /\ k.left = 0
    /\ k.pc \in Probing => k.list = <<>> /\ k.left = 0 /\ (k.kind = "chat" => k.denied = Runners)
    /\ k.pc = "trying" => k.kind = "chat" /\ k.left \in 1..Len(k.list)
    /\ k.pc \in {"require", "sending"} =>
         /\ k.left <= Len(k.list)
         /\ k.addr \in Runners \ Elems(k.list)
         /\ k.kind = "chat" /\ k.addr \in k.denied => k.denied = Runners
    /\ k.pc \in {"listingAgain", "probing", "probingAll"} => k.kind # "chat" \/ k.denied = Runners
    /\ k.pc = "streaming" => k.addr \in Runners

Local(k) == Listing(k) /\ Looping(k)

CallInv ==
    /\ call \in [Callers -> Call]
    /\ runner \in [Runners -> Health]
    /\ \A c \in Callers : Local(call[c])

\* A step of caller c, as the other callers see it.
CallStep(c) ==
    /\ call' \in [Callers -> Call]
    /\ Local(call'[c])
    /\ \A d \in Callers \ {c} : call'[d] = call[d]

LEMMA UpdateIsStep ==
    ASSUME CallInv, NEW c \in Callers, NEW k \in Call, Local(k),
           call' = [call EXCEPT ![c] = k]
    PROVE  CallStep(c) /\ call'[c] = k
BY DEF CallInv, CallStep

LEMMA FreshIsCall == Fresh \in Call /\ Local(Fresh)
BY EmptyList DEF Fresh, Call, Idle, Holding, Local, Listing, Looping, Probing

LEMMA FailedIsCall ==
    ASSUME CallInv, NEW c \in Callers
    PROVE  Failed(c) \in Call /\ Local(Failed(c))
<1>k. PICK k \in Call : k = call[c]
  BY DEF CallInv
<1>f. PICK f : f = Failed(c)
  OBVIOUS
<1>1. f = [pc |-> "failed", kind |-> k.kind, addr |-> k.addr, todo |-> {}, list |-> <<>>,
           left |-> 0, found |-> {}, denied |-> k.denied, cancelled |-> k.cancelled,
           expired |-> k.expired, skipped |-> k.skipped, sick |-> k.sick]
  BY <1>k, <1>f DEF Failed, Fresh
<1>2. f \in Call
  BY <1>1 DEF Call, Idle
<1>3. f.pc = "failed" /\ f.list = <<>> /\ f.left = 0
  BY <1>1
<1>4. Local(f)
  BY <1>3, EmptyList DEF Local, Listing, Looping, Probing
<1> QED
  BY <1>f, <1>2, <1>4

\* What the call is when it is over.
LEMMA LocalFields ==
    /\ Fresh.pc = "new"
    /\ \A c \in Callers :
         Failed(c).pc = "failed" /\ Failed(c).addr = call[c].addr /\ Failed(c).kind = call[c].kind
         /\ Failed(c).list = <<>>
BY DEF Fresh, Failed

LEMMA AttemptsType ==
    ASSUME NEW n \in Nat
    PROVE  Attempts(n) \in 0..n /\ (n > 0 => Attempts(n) > 0)
BY DispatchAssumption DEF Attempts

LEMMA ListStep ==
    ASSUME CallInv, NEW c \in Callers, NEW a \in Runners, List(c, a)
    PROVE  CallStep(c)
<1> DEFINE k == call[c]
           list == IF Allowed(a) THEN Append(k.list, a) ELSE k.list
           denied == IF Allowed(a) THEN k.denied ELSE k.denied \cup {a}
           n == call'[c]
<1>1. k \in Call /\ Local(k) /\ k.kind = "chat" /\ k.pc = "listing" /\ a \in k.todo
  BY DEF CallInv, List
<1>2. n = [k EXCEPT !.todo = k.todo \ {a}, !.list = list, !.denied = denied,
                    !.left = IF k.todo = {a} THEN Attempts(Len(list)) ELSE k.left,
                    !.pc = IF k.todo # {a} THEN k.pc
                           ELSE IF list = <<>> THEN "picking" ELSE "trying"]
      /\ call' = [call EXCEPT ![c] = n]
  BY <1>1 DEF CallInv, List
<1>3. /\ list \in Seq(Runners) /\ Distinct(list)
      /\ Elems(list) = IF Allowed(a) THEN Elems(k.list) \cup {a} ELSE Elems(k.list)
  <2>1. k.list \in Seq(Runners) /\ Distinct(k.list) /\ a \notin Elems(k.list)
    BY <1>1 DEF Local, Listing, Looping, Call
  <2>2. CASE Allowed(a)
    <3>1. list = Append(k.list, a)
      BY <2>2
    <3> HIDE DEF list
    <3> QED
      BY <2>1, <2>2, <3>1, AppendFacts
  <2>3. CASE ~Allowed(a)
    BY <2>1, <2>3
  <2> QED
    BY <2>2, <2>3
<1>4. Len(list) \in Nat /\ Attempts(Len(list)) \in 0..Len(list)
      /\ (list # <<>> => Attempts(Len(list)) > 0)
  BY <1>3, AttemptsType
<1>5. n \in Call
  <2>1. /\ k.todo \ {a} \in SUBSET Runners /\ denied \in SUBSET Runners
        /\ (IF k.todo = {a} THEN Attempts(Len(list)) ELSE k.left) \in Nat
    BY <1>1, <1>4 DEF Call
  <2>2. list \in Seq(Runners)
    BY <1>3
  <2>p. PICK p \in {"listing", "picking", "trying"} :
            p = IF k.todo # {a} THEN k.pc ELSE IF list = <<>> THEN "picking" ELSE "trying"
    BY <1>1
  <2>l. PICK l \in Nat : l = IF k.todo = {a} THEN Attempts(Len(list)) ELSE k.left
    BY <2>1
  <2> HIDE DEF list, denied
  <2>3. n = [k EXCEPT !.todo = k.todo \ {a}, !.list = list, !.denied = denied, !.left = l, !.pc = p]
    BY <1>2, <2>p, <2>l
  <2> HIDE DEF n
  <2> QED
    BY <1>1, <2>1, <2>2, <2>3 DEF Call
<1>6. Local(n)
  BY <1>1, <1>2, <1>3, <1>4, EmptyList DEF Local, Listing, Looping, Probing, Call
<1> QED
  BY <1>2, <1>5, <1>6, UpdateIsStep

LEMMA ProbeBestStep ==
    ASSUME CallInv, NEW c \in Callers, NEW a \in Runners, ProbeBest(c, a)
    PROVE  CallStep(c)
<1> DEFINE k == call[c]
           n1 == [k EXCEPT !.addr = a, !.todo = {}, !.pc = "require"]
           n2 == [k EXCEPT !.todo = k.todo \ {a}]
           n3 == [k EXCEPT !.todo = Runners, !.pc = "listingAgain"]
<1>1. k \in Call /\ Local(k) /\ k.kind = "pinned" /\ k.pc \in {"listing", "listingAgain"}
  BY DEF CallInv, ProbeBest
<1>2. n1 \in Call /\ n2 \in Call /\ n3 \in Call
  BY <1>1 DEF Call, Holding
<1>3. Local(n1) /\ Local(n2) /\ Local(n3)
  BY <1>1, EmptyList DEF Local, Listing, Looping, Probing, Call
<1>4. \/ call' = [call EXCEPT ![c] = n1]
      \/ call' = [call EXCEPT ![c] = n2]
      \/ call' = [call EXCEPT ![c] = n3]
      \/ call' = [call EXCEPT ![c] = Failed(c)]
  BY DEF ProbeBest
<1> QED
  BY <1>2, <1>3, <1>4, FailedIsCall, UpdateIsStep

LEMMA TryStep ==
    ASSUME CallInv, NEW c \in Callers, Try(c)
    PROVE  CallStep(c)
<1> DEFINE k == call[c]
           n == [k EXCEPT !.addr = Head(k.list), !.list = Tail(k.list), !.left = k.left - 1,
                          !.pc = "require"]
<1>1. k \in Call /\ Local(k) /\ k.pc = "trying"
  BY DEF CallInv, Try
<1>2. k.list \in Seq(Runners) /\ k.list # <<>> /\ k.left \in 1..Len(k.list)
  BY <1>1 DEF Local, Looping, Call
<1>3. /\ Tail(k.list) \in Seq(Runners) /\ Head(k.list) \in Runners
      /\ Len(Tail(k.list)) = Len(k.list) - 1
      /\ Elems(k.list) = Elems(Tail(k.list)) \cup {Head(k.list)}
      /\ Distinct(Tail(k.list)) /\ Head(k.list) \notin Elems(Tail(k.list))
  BY <1>1, <1>2, TailFacts DEF Local, Looping
<1>4. n \in Call
  <2>1. k.left - 1 \in Nat
    BY <1>2
  <2> QED
    BY <1>1, <1>3, <2>1 DEF Call, Holding
<1>5. Local(n)
  BY <1>1, <1>2, <1>3 DEF Local, Listing, Looping, Probing, Call
<1>6. call' = [call EXCEPT ![c] = n]
  BY DEF Try
<1> QED
  BY <1>4, <1>5, <1>6, UpdateIsStep

LEMMA FailStep ==
    ASSUME CallInv, NEW c \in Callers, Fail(c), call[c].pc \in {"require", "sending"}
    PROVE  CallStep(c)
<1> DEFINE k == call[c]
           n == [k EXCEPT !.pc = "trying"]
<1>1. k \in Call /\ Local(k)
  BY DEF CallInv
<1>2. CASE call' = [call EXCEPT ![c] = Failed(c)]
  BY <1>2, FailedIsCall, UpdateIsStep
<1>3. CASE call' = [call EXCEPT ![c] = n] /\ FromLoop(c) /\ k.left # 0
  <2>1. n \in Call
    BY <1>1 DEF Call
  <2>2. Local(n)
    BY <1>1, <1>3 DEF Local, Listing, Looping, Probing, Call, FromLoop
  <2> QED
    BY <1>3, <2>1, <2>2, UpdateIsStep
<1> QED
  BY <1>2, <1>3 DEF Fail

LEMMA PickStep ==
    ASSUME CallInv, NEW c \in Callers, Pick(c)
    PROVE  CallStep(c)
<1> DEFINE k == call[c]
<1>1. k \in Call /\ Local(k) /\ k.pc \in {"probing", "probingAll"}
  BY DEF CallInv, Pick
<1>2. PICK f \in k.found :
        call' = [call EXCEPT ![c] =
                   [k EXCEPT !.addr = f.addr, !.found = {}, !.expired = FALSE, !.skipped = {},
                             !.pc = IF k.kind = "embed" THEN "require" ELSE "sending"]]
  <2>1. PICK f \in k.found :
          call' = [call EXCEPT ![c].addr = f.addr, ![c].found = {},
                               ![c].expired = FALSE, ![c].skipped = {},
                               ![c].pc = IF k.kind = "embed" THEN "require" ELSE "sending"]
    BY DEF Pick
  <2> QED
    BY <2>1
<1> DEFINE n == [k EXCEPT !.addr = f.addr, !.found = {}, !.expired = FALSE, !.skipped = {},
                          !.pc = IF k.kind = "embed" THEN "require" ELSE "sending"]
<1>3. f.addr \in Runners
  BY <1>1 DEF Call, Candidate
<1>4. n \in Call
  BY <1>1, <1>3 DEF Call, Holding
<1>5. Local(n)
  BY <1>1, <1>3, EmptyList DEF Local, Listing, Looping, Probing, Call
<1> QED
  BY <1>2, <1>4, <1>5, UpdateIsStep

LEMMA CandidatesType ==
    ASSUME inflight \in [Runners -> Int]
    PROVE  \A S \in SUBSET Runners : Candidates(S) \subseteq Candidate
BY PoolAssumption DEF Candidates, Candidate, Score

LEMMA ScanStep ==
    ASSUME CallInv, NEW c \in Callers, inflight \in [Runners -> Int], Scan(c)
    PROVE  CallStep(c)
<1> DEFINE k == call[c]
           found == Candidates({a \in Runners : Cached(a)})
           n == [k EXCEPT !.found = found,
                          !.todo = {a \in Runners : ~Cached(a) /\ ~InBackoff(a)},
                          !.skipped = {a \in Runners : InBackoff(a)},
                          !.pc = "probing"]
<1>1. k \in Call /\ Local(k) /\ k.pc = "picking"
  BY DEF CallInv, Scan
<1>2. found \in SUBSET Candidate
  BY CandidatesType
<1>3. n \in Call
  BY <1>1, <1>2 DEF Call
<1>4. Local(n)
  BY <1>1, EmptyList DEF Local, Listing, Looping, Probing, Call
<1>5. call' = [call EXCEPT ![c] = n]
  BY DEF Scan
<1> QED
  BY <1>3, <1>4, <1>5, UpdateIsStep

LEMMA ProbeStep ==
    ASSUME CallInv, NEW c \in Callers, inflight \in [Runners -> Int],
           NEW a \in Runners, Probe(c, a) \/ ProbeAgain(c, a)
    PROVE  CallStep(c)
<1> DEFINE k == call[c]
           n(e, f) == [k EXCEPT !.todo = k.todo \ {a}, !.expired = e, !.found = f]
<1>1. k \in Call /\ Local(k) /\ k.pc \in {"probing", "probingAll"}
  BY DEF CallInv, Probe, ProbeAgain
<1>2. k.found \cup Candidates({a}) \in SUBSET Candidate /\ k.found \in SUBSET Candidate
  BY <1>1, CandidatesType DEF Call
<1>3. ASSUME NEW e \in BOOLEAN, NEW f \in {k.found, k.found \cup Candidates({a})}
      PROVE  n(e, f) \in Call /\ Local(n(e, f))
  <2>1. n(e, f) \in Call
    BY <1>1, <1>2 DEF Call
  <2>2. Local(n(e, f))
    BY <1>1, EmptyList DEF Local, Listing, Looping, Probing, Call
  <2> QED
    BY <2>1, <2>2
<1>4. CASE Probe(c, a)
  <2>1. PICK hangs \in BOOLEAN :
          call' = [call EXCEPT
                     ![c].todo = @ \ {a},
                     ![c].expired = @ \/ hangs,
                     ![c].found = IF Answers(c, a) THEN @ \cup Candidates({a}) ELSE @]
    BY <1>4 DEF Probe
  <2> DEFINE e == k.expired \/ hangs
             f == IF Answers(c, a) THEN k.found \cup Candidates({a}) ELSE k.found
  <2>2. call' = [call EXCEPT ![c] = n(e, f)]
    BY <2>1
  <2> QED
    BY <1>3, <2>2, UpdateIsStep
<1>5. CASE ProbeAgain(c, a)
  <2> DEFINE f == IF Answers(c, a) /\ ~k.expired THEN k.found \cup Candidates({a}) ELSE k.found
             m == [k EXCEPT !.todo = k.todo \ {a}, !.found = f]
  <2>1. call' = [call EXCEPT ![c] = m]
    BY <1>5 DEF ProbeAgain
  <2>2. m \in Call
    BY <1>1, <1>2 DEF Call
  <2>3. Local(m)
    BY <1>1, EmptyList DEF Local, Listing, Looping, Probing, Call
  <2> QED
    BY <2>1, <2>2, <2>3, UpdateIsStep
<1> QED
  BY <1>4, <1>5

\* The other steps of a call: it begins, is cancelled, is sent, ends.
LEMMA OtherStep ==
    ASSUME CallInv, NEW c \in Callers,
           \/ Begin(c) \/ Cancel(c) \/ Required(c) \/ Sent(c) \/ StreamEnds(c)
           \/ StreamAbandoned(c) \/ ProbeAll(c) \/ PickNone(c)
    PROVE  CallStep(c)
<1> DEFINE k == call[c]
<1>1. k \in Call /\ Local(k)
  BY DEF CallInv
<1>2. CASE Begin(c)
  <2>1. PICK kind \in Kinds :
          call' = [call EXCEPT ![c] =
                     [Fresh EXCEPT !.pc = IF kind = "embed" THEN "picking" ELSE "listing",
                                   !.kind = kind,
                                   !.todo = IF kind = "embed" THEN {} ELSE Runners,
                                   !.sick = {a \in Runners : runner[a] # "ready"}]]
    BY <1>2 DEF Begin
  <2> DEFINE n == [Fresh EXCEPT !.pc = IF kind = "embed" THEN "picking" ELSE "listing",
                                !.kind = kind,
                                !.todo = IF kind = "embed" THEN {} ELSE Runners,
                                !.sick = {a \in Runners : runner[a] # "ready"}]
  <2>2. n \in Call
    BY FreshIsCall, DispatchAssumption DEF Call
  <2>3. Local(n)
    BY EmptyList, DispatchAssumption DEF Local, Listing, Looping, Probing, Fresh
  <2> QED
    BY <2>1, <2>2, <2>3, UpdateIsStep
<1>3. CASE Cancel(c)
  <2> DEFINE n == [k EXCEPT !.cancelled = TRUE]
  <2>1. n \in Call
    BY <1>1 DEF Call
  <2>2. Local(n)
    BY <1>1 DEF Local, Listing, Looping, Probing, Call
  <2>3. call' = [call EXCEPT ![c] = n]
    BY <1>3 DEF Cancel
  <2> QED
    BY <2>1, <2>2, <2>3, UpdateIsStep
<1>4. CASE Required(c)
  <2> DEFINE n == [k EXCEPT !.pc = "sending"]
  <2>1. n \in Call
    BY <1>1 DEF Call, Holding
  <2>2. Local(n)
    BY <1>1, <1>4 DEF Local, Listing, Looping, Probing, Call, Required
  <2>3. call' = [call EXCEPT ![c] = n]
    BY <1>4 DEF Required
  <2> QED
    BY <2>1, <2>2, <2>3, UpdateIsStep
<1>5. CASE Sent(c)
  <2> DEFINE n == [Fresh EXCEPT !.pc = "streaming", !.kind = k.kind, !.addr = k.addr]
  <2>1. k.addr \in Runners
    BY <1>1, <1>5 DEF Sent, Local, Looping
  <2>2. n \in Call
    BY <1>1, <2>1, FreshIsCall DEF Call, Holding
  <2>3. Local(n)
    BY <1>1, <2>1, EmptyList DEF Local, Listing, Looping, Probing, Fresh
  <2>4. call' = [call EXCEPT ![c] = Fresh] \/ call' = [call EXCEPT ![c] = n]
    BY <1>5 DEF Sent
  <2> QED
    BY <2>2, <2>3, <2>4, FreshIsCall, UpdateIsStep
<1>6. CASE StreamEnds(c) \/ StreamAbandoned(c)
  BY <1>6, FreshIsCall, UpdateIsStep DEF StreamEnds, StreamAbandoned
<1>7. CASE ProbeAll(c)
  <2> DEFINE n == [k EXCEPT !.todo = Runners, !.pc = "probingAll"]
  <2>1. n \in Call
    BY <1>1 DEF Call
  <2>2. Local(n)
    BY <1>1, <1>7 DEF Local, Listing, Looping, Probing, Call, ProbeAll
  <2>3. call' = [call EXCEPT ![c] = n]
    BY <1>7 DEF ProbeAll
  <2> QED
    BY <2>1, <2>2, <2>3, UpdateIsStep
<1>8. CASE PickNone(c)
  BY <1>8, FailedIsCall, UpdateIsStep DEF PickNone
<1> QED
  BY <1>2, <1>3, <1>4, <1>5, <1>6, <1>7, <1>8

LEMMA StepOfCall ==
    ASSUME CallInv, inflight \in [Runners -> Int], NEW c \in Callers, CallNext(c)
    PROVE  CallStep(c) /\ UNCHANGED runner
<1>1. CASE NotLoaded(c) \/ NotSent(c)
  BY <1>1, FailStep DEF NotLoaded, NotSent
<1>2. CASE \E a \in Runners : List(c, a) \/ ProbeBest(c, a) \/ Probe(c, a) \/ ProbeAgain(c, a)
  BY <1>2, ListStep, ProbeBestStep, ProbeStep DEF List, ProbeBest, Probe, ProbeAgain
<1>3. CASE Try(c) \/ Scan(c) \/ Pick(c)
  BY <1>3, TryStep, ScanStep, PickStep DEF Try, Scan, Pick
<1>4. CASE \/ Begin(c) \/ Cancel(c) \/ Required(c) \/ Sent(c) \/ StreamEnds(c)
           \/ StreamAbandoned(c) \/ ProbeAll(c) \/ PickNone(c)
  BY <1>4, OtherStep DEF Begin, Cancel, Required, Sent, StreamEnds, StreamAbandoned, ProbeAll,
       PickNone
<1> QED
  BY <1>1, <1>2, <1>3, <1>4 DEF CallNext

\* A runner that changes is noted by the calls under way, nothing else.
LEMMA RunnerStep ==
    ASSUME CallInv, NEW a \in Runners, RunnerChanges(a)
    PROVE  CallInv' /\ \A c \in Callers :
             \E sick \in SUBSET Runners : call'[c] = [call[c] EXCEPT !.sick = sick]
<1>1. runner' \in [Runners -> Health]
  BY DEF RunnerChanges, CallInv
<1>2. ASSUME NEW c \in Callers
      PROVE  /\ call'[c] \in Call /\ Local(call'[c])
             /\ \E sick \in SUBSET Runners : call'[c] = [call[c] EXCEPT !.sick = sick]
  <2>1. call[c] \in Call /\ Local(call[c])
    BY DEF CallInv
  <2>2. \/ call'[c] = call[c]
        \/ call'[c] = [call[c] EXCEPT !.sick = call[c].sick \cup {a}]
    BY DEF RunnerChanges
  <2>3. PICK sick \in SUBSET Runners : call'[c] = [call[c] EXCEPT !.sick = sick]
    <3>1. call[c] = [call[c] EXCEPT !.sick = call[c].sick]
      BY <2>1 DEF Call
    <3>2. call[c].sick \in SUBSET Runners /\ call[c].sick \cup {a} \in SUBSET Runners
      BY <2>1 DEF Call
    <3> QED
      BY <2>2, <3>1, <3>2
  <2>4. call'[c] \in Call
    BY <2>1, <2>3 DEF Call
  <2>5. Local(call'[c])
    BY <2>1, <2>3 DEF Local, Listing, Looping, Probing, Call
  <2> QED
    BY <2>3, <2>4, <2>5
<1>3. call' \in [Callers -> Call]
  BY <1>2 DEF RunnerChanges
<1> QED
  BY <1>1, <1>2, <1>3 DEF CallInv

\* Steps that leave the calls alone: the clock, and Allow for ensureRunnerReady.
OuterStep == \/ Tick \/ UNCHANGED vars \/ \E a \in Runners : ModelReady(a)

LEMMA CallInductive ==
    ASSUME CallInv, inflight \in [Runners -> Int], [Next]_vars
    PROVE  CallInv'
<1>1. ASSUME NEW c \in Callers, CallNext(c) PROVE CallInv'
  BY <1>1, StepOfCall DEF CallStep, CallInv
<1>2. ASSUME NEW a \in Runners, RunnerChanges(a) PROVE CallInv'
  BY <1>2, RunnerStep
<1>3. CASE OuterStep
  BY <1>3 DEF OuterStep, Tick, ModelReady, vars, CallInv
<1> QED
  BY <1>1, <1>2, <1>3 DEF Next, OuterStep

LEMMA CallInit == Init => CallInv
<1>1. Init => runner \in [Runners -> Health] /\ call = [c \in Callers |-> Fresh]
  BY DEF Init, PoolInit
<1> QED
  BY <1>1, FreshIsCall DEF CallInv

-----------------------------------------------------------------------------
(* The counters of generations in flight.                                  *)

Holders(a) == {c \in Callers : call[c].pc \in Holding /\ call[c].addr = a}

\* 1 for a caller that holds a, 0 for the others.
Holds(c, a) == IF call[c].pc \in Holding /\ call[c].addr = a THEN 1 ELSE 0

\* How many elements two sets have that differ at most in x.
LEMMA OneApart ==
    ASSUME NEW S, IsFiniteSet(S), NEW A \in SUBSET S, NEW B \in SUBSET S, NEW x,
           A \ {x} = B \ {x}
    PROVE  /\ Cardinality(A) \in Nat /\ Cardinality(B) \in Nat
           /\ Cardinality(B) = Cardinality(A) + (IF x \in B THEN 1 ELSE 0)
                                              - (IF x \in A THEN 1 ELSE 0)
<1>1. IsFiniteSet(A) /\ IsFiniteSet(B)
  BY FS_Subset
<1>2. Cardinality(A) \in Nat /\ Cardinality(B) \in Nat
  BY <1>1, FS_CardinalityType
<1>3. /\ Cardinality(A \ {x}) = IF x \in A THEN Cardinality(A) - 1 ELSE Cardinality(A)
      /\ Cardinality(B \ {x}) = IF x \in B THEN Cardinality(B) - 1 ELSE Cardinality(B)
  BY <1>1, FS_RemoveElement
<1>4. Cardinality(A \ {x}) = Cardinality(B \ {x})
  OBVIOUS
<1> QED
  BY <1>2, <1>3, <1>4

\* A step of one caller moves the count of a runner with the caller.
LEMMA HoldersMove ==
    ASSUME NEW c \in Callers, NEW a \in Runners,
           \A d \in Callers \ {c} : call'[d] = call[d]
    PROVE  /\ Cardinality(Holders(a)) \in Nat
           /\ Cardinality(Holders(a)') = Cardinality(Holders(a)) + Holds(c, a)' - Holds(c, a)
<1>1. Holders(a) \in SUBSET Callers /\ Holders(a)' \in SUBSET Callers
  BY DEF Holders
<1>2. Holders(a) \ {c} = Holders(a)' \ {c}
  BY DEF Holders
<1>3. Holds(c, a) = (IF c \in Holders(a) THEN 1 ELSE 0)
      /\ Holds(c, a)' = (IF c \in Holders(a)' THEN 1 ELSE 0)
  BY DEF Holds, Holders
<1> QED
  BY <1>1, <1>2, <1>3, OneApart, DispatchAssumption

\* Each path of a call moves the counter with it, but for the one StreamAbandoned takes.
LEMMA InflightMoves ==
    ASSUME CallInv, inflight \in [Runners -> Int], NEW c \in Callers, CallNext(c),
           ~StreamAbandoned(c)
    PROVE  /\ inflight' \in [Runners -> Int]
           /\ \A a \in Runners : inflight'[a] = inflight[a] + Holds(c, a)' - Holds(c, a)
<1> DEFINE k == call[c]
<1>1. k \in Call /\ Local(k) /\ call \in [Callers -> Call]
  BY DEF CallInv
<1>2. CASE Required(c)
  BY <1>1, <1>2 DEF Required, AddInflight, Holds, Holding, Local, Looping
<1>3. CASE Sent(c)
  <2>1. k.addr \in Runners /\ k.pc = "sending"
    BY <1>1, <1>3 DEF Sent, Local, Looping
  <2>2. CASE k.kind = "embed"
    <3>1. call'[c].pc = "new" /\ inflight' = [inflight EXCEPT ![k.addr] = @ + (-1)]
      BY <1>1, <1>3, <2>2, LocalFields DEF Sent, AddInflight
    <3> QED
      BY <2>1, <3>1 DEF Holds, Holding
  <2>3. CASE k.kind # "embed"
    <3> DEFINE n == [Fresh EXCEPT !.pc = "streaming", !.kind = k.kind, !.addr = k.addr]
    <3>1. call'[c] = n /\ UNCHANGED inflight
      BY <1>1, <1>3, <2>3 DEF Sent
    <3>2. n.pc = "streaming" /\ n.addr = k.addr
      BY DEF Fresh
    <3>3. call'[c].pc = "streaming" /\ call'[c].addr = k.addr
      BY <3>1, <3>2
    <3> QED
      BY <2>1, <3>1, <3>3 DEF Holds, Holding
  <2> QED
    BY <2>2, <2>3
<1>4. CASE NotSent(c)
  <2>1. call'[c].pc \in {"failed", "trying"}
    BY <1>1, <1>4, LocalFields DEF NotSent, Fail, Call
  <2> QED
    BY <1>1, <1>4, <2>1 DEF NotSent, AddInflight, Holds, Holding, Local, Looping
<1>5. CASE StreamEnds(c)
  BY <1>1, <1>5 DEF StreamEnds, AddInflight, Holds, Holding, Local, Looping, Fresh
<1>6. CASE Pick(c)
  <2>1. PICK f \in k.found :
          /\ call' = [call EXCEPT ![c].addr = f.addr, ![c].found = {},
                                  ![c].expired = FALSE, ![c].skipped = {},
                                  ![c].pc = IF k.kind = "embed" THEN "require" ELSE "sending"]
          /\ IF k.kind = "embed" THEN UNCHANGED inflight ELSE AddInflight(f.addr, 1)
          /\ k.pc \in {"probing", "probingAll"}
    BY <1>6 DEF Pick
  <2>2. f.addr \in Runners
    BY <1>1 DEF Call, Candidate
  <2>3. /\ call'[c].pc = IF k.kind = "embed" THEN "require" ELSE "sending"
        /\ call'[c].addr = f.addr
    BY <1>1, <2>1 DEF Call
  <2> QED
    BY <2>1, <2>2, <2>3 DEF AddInflight, Holds, Holding
<1>7. CASE ~(Required(c) \/ Sent(c) \/ NotSent(c) \/ StreamEnds(c) \/ Pick(c))
  <2>1. UNCHANGED inflight /\ (call'[c].pc \in Holding => call'[c].pc = k.pc /\ call'[c].addr = k.addr)
        /\ (k.pc \in Holding => call'[c].pc \in Holding)
    <3>1. CASE Begin(c)
      <4>1. call'[c].pc \in {"picking", "listing"} /\ UNCHANGED inflight
        BY <1>1, <3>1 DEF Begin, Fresh, poolVars
      <4>2. k.pc \in Idle
        BY <3>1 DEF Begin, Active
      <4> QED
        BY <4>1, <4>2 DEF Idle, Holding
    <3>9. CASE PickNone(c)
      BY <1>1, <3>9, LocalFields DEF PickNone, Holding, poolVars
    <3>2. CASE NotLoaded(c)
      BY <1>1, <3>2, LocalFields DEF NotLoaded, Fail, Holding, poolVars, Call
    <3>3. CASE Cancel(c) \/ Try(c)
      BY <1>1, <3>3 DEF Cancel, Try, Holding, poolVars, Call
    <3>4. CASE Scan(c)
      BY <1>1, <3>4 DEF Scan, Holding, poolVars, Call
    <3>8. CASE ProbeAll(c)
      BY <1>1, <3>8 DEF ProbeAll, Holding, poolVars, Call
    <3>5. ASSUME NEW a \in Runners, Probe(c, a) \/ ProbeAgain(c, a)
          PROVE UNCHANGED inflight /\ k.pc \notin Holding /\ call'[c].pc \notin Holding
      BY <1>1, <3>5 DEF Probe, ProbeAgain, Holding, poolVars, Call
    <3>6. ASSUME NEW a \in Runners, List(c, a)
          PROVE UNCHANGED inflight /\ k.pc \notin Holding /\ call'[c].pc \notin Holding
      BY <1>1, <3>6 DEF List, Holding, poolVars, Call
    <3>7. ASSUME NEW a \in Runners, ProbeBest(c, a)
          PROVE UNCHANGED inflight /\ k.pc \notin Holding /\ call'[c].pc \notin Holding
      BY <1>1, <3>7, LocalFields DEF ProbeBest, Holding, poolVars, Call
    <3> QED
      BY <1>7, <3>1, <3>2, <3>3, <3>4, <3>5, <3>6, <3>7, <3>8, <3>9 DEF CallNext
  <2> QED
    BY <2>1 DEF Holds
<1> QED
  BY <1>2, <1>3, <1>4, <1>5, <1>6, <1>7

\* An abandoned stream leaves the counter behind it, and its forwarder among the blocked.
LEMMA AbandonedMoves ==
    ASSUME CallInv, blocked \in [Runners -> Nat], NEW c \in Callers, StreamAbandoned(c)
    PROVE  /\ UNCHANGED inflight
           /\ blocked' \in [Runners -> Nat]
           /\ \A a \in Runners : blocked'[a] = blocked[a] + Holds(c, a) - Holds(c, a)'
<1>1. call[c].pc = "streaming" /\ call[c].addr \in Runners /\ call \in [Callers -> Call]
  BY DEF CallInv, StreamAbandoned, Local, Looping
<1>2. call'[c].pc = "new"
  BY <1>1 DEF StreamAbandoned, Fresh
<1>3. UNCHANGED inflight /\ blocked' = [blocked EXCEPT ![call[c].addr] = @ + 1]
  BY DEF StreamAbandoned, poolVars
<1> QED
  BY <1>1, <1>2, <1>3 DEF Holds, Holding

LEMMA BlockedKept ==
    ASSUME NEW c \in Callers, CallNext(c), ~StreamAbandoned(c)
    PROVE  UNCHANGED blocked
BY DEF CallNext, Begin, Cancel, Try, Required, NotLoaded, Sent, NotSent, StreamEnds, Scan,
     ProbeAll, Pick, PickNone, List, ProbeBest, Probe, ProbeAgain

InflightInv ==
    /\ CallInv
    /\ inflight \in [Runners -> Int]
    /\ blocked \in [Runners -> Nat]
    /\ InflightExact

LEMMA InflightInductive == InflightInv /\ [Next]_vars => InflightInv'
<1> SUFFICES ASSUME InflightInv, [Next]_vars PROVE InflightInv'
  OBVIOUS
<1>1. CallInv'
  BY CallInductive DEF InflightInv
<1>2. /\ inflight \in [Runners -> Int] /\ blocked \in [Runners -> Nat]
      /\ \A a \in Runners : inflight[a] = Cardinality(Holders(a)) + blocked[a]
  BY DEF InflightInv, InflightExact, Holders
<1>3. ASSUME NEW c \in Callers, CallNext(c) PROVE InflightInv'
  <2>1. /\ inflight' \in [Runners -> Int] /\ blocked' \in [Runners -> Nat]
        /\ \A a \in Runners :
             inflight'[a] - blocked'[a] = inflight[a] - blocked[a] + Holds(c, a)' - Holds(c, a)
    <3>1. \A a \in Runners : Holds(c, a) \in Int /\ Holds(c, a)' \in Int
      BY DEF Holds
    <3>2. CASE StreamAbandoned(c)
      BY <1>2, <3>1, <3>2, AbandonedMoves DEF InflightInv
    <3>3. CASE ~StreamAbandoned(c)
      BY <1>2, <1>3, <3>1, <3>3, InflightMoves, BlockedKept DEF InflightInv
    <3> QED
      BY <3>2, <3>3
  <2>2. ASSUME NEW a \in Runners
        PROVE  /\ Cardinality(Holders(a)) \in Nat /\ Holds(c, a) \in Int /\ Holds(c, a)' \in Int
               /\ Cardinality(Holders(a)') = Cardinality(Holders(a)) + Holds(c, a)' - Holds(c, a)
    <3>1. Holds(c, a) \in Int /\ Holds(c, a)' \in Int
      BY DEF Holds
    <3> QED
      BY <1>3, <3>1, StepOfCall, HoldersMove DEF CallStep, InflightInv
  <2>3. \A a \in Runners : inflight'[a] = Cardinality(Holders(a)') + blocked'[a]
    BY <1>2, <2>1, <2>2
  <2> QED
    BY <1>1, <2>1, <2>3 DEF InflightInv, InflightExact, Holders
<1>4. ASSUME NEW a \in Runners, RunnerChanges(a) PROVE InflightInv'
  <2>1. ASSUME NEW c \in Callers
        PROVE  call'[c].pc = call[c].pc /\ call'[c].addr = call[c].addr
    <3>1. PICK sick \in SUBSET Runners : call'[c] = [call[c] EXCEPT !.sick = sick]
      BY <1>4, RunnerStep DEF InflightInv
    <3>2. call[c] \in Call
      BY DEF InflightInv, CallInv
    <3> QED
      BY <3>1, <3>2 DEF Call
  <2>2. \A b \in Runners : Holders(b)' = Holders(b)
    BY <2>1 DEF Holders
  <2>3. UNCHANGED <<inflight, blocked>>
    BY <1>4 DEF RunnerChanges, poolVars
  <2> QED
    BY <1>1, <2>2, <2>3 DEF InflightInv, InflightExact, Holders
<1>5. CASE OuterStep
  BY <1>1, <1>5 DEF OuterStep, Tick, ModelReady, vars, poolVars, InflightInv, InflightExact
<1> QED
  BY <1>3, <1>4, <1>5 DEF Next, OuterStep

LEMMA InflightInit == Init => InflightInv
<1>1. Init => /\ inflight = [a \in Runners |-> 0] /\ blocked = [a \in Runners |-> 0]
              /\ \A c \in Callers : call[c].pc = "new"
  BY DEF Init, PoolInit, Fresh
<1>2. Init => \A a \in Runners : Holders(a) = {}
  BY <1>1 DEF Holders, Holding
<1>3. Init => \A a \in Runners : inflight[a] = Cardinality(Holders(a)) + blocked[a]
  <2>1. Cardinality({}) = 0
    BY FS_EmptySet
  <2>2. ASSUME Init, NEW a \in Runners
        PROVE  inflight[a] = 0 /\ blocked[a] = 0 /\ Cardinality(Holders(a)) = 0
    <3>1. inflight[a] = 0 /\ blocked[a] = 0
      BY <1>1, <2>2
    <3>2. Holders(a) = {}
      BY <1>2, <2>2
    <3> QED
      BY <2>1, <3>1, <3>2
  <2>3. ASSUME Init, NEW a \in Runners PROVE inflight[a] = Cardinality(Holders(a)) + blocked[a]
    <3> DEFINE n == Cardinality(Holders(a))
    <3>1. inflight[a] = 0 /\ blocked[a] = 0 /\ n = 0
      BY <2>2, <2>3
    <3> HIDE DEF n
    <3>2. inflight[a] = n + blocked[a]
      BY <3>1
    <3> QED
      BY <3>2 DEF n
  <2> QED
    BY <2>3
<1> QED
  BY <1>1, <1>3, CallInit DEF InflightInv, InflightExact, Holders

\* Pool.inflight of a runner is the number of sends and streams on it and of the streams on
\* it that were abandoned by an SSE handler while both forwarders had more to pass on
\* (sse.go:74, client.go:248, pool.go:523): through the errors, cancellations, retries and
\* late answers of any number of callers that is the only path that leaks it (pool.go).
THEOREM InflightIsExact == Spec => []InflightExact
<1>1. InflightInv => InflightExact
  BY DEF InflightInv
<1> QED
  BY <1>1, InflightInit, InflightInductive, PTL DEF Spec

-----------------------------------------------------------------------------
(* The blame an open circuit still takes.                                  *)

\* c has listed runner a and may yet record a failure of it.  It can do so once,
\* and while the circuit is open nobody else lists a.
MayBlame(c, a) ==
    /\ call[c].kind = "chat"
    /\ \/ a \in Elems(call[c].list)
       \/ call[c].pc \in {"require", "sending"} /\ call[c].addr = a /\ a \notin call[c].denied

Blamers(a) == {c \in Callers : MayBlame(c, a)}

\* The failures counted and those that may yet be.
BlameInv ==
    \A a \in Runners :
      failures[a] + Cardinality(Blamers(a)) < MaxFailures + Cardinality(Callers)

\* What a step of c does to runner a: nothing that counts, the blame it might
\* lay, or the failures are below the limit.
BlameStep(c, a) ==
    \/ failures'[a] <= failures[a] /\ (MayBlame(c, a)' => MayBlame(c, a))
    \/ failures'[a] = failures[a] + 1 /\ MayBlame(c, a) /\ ~MayBlame(c, a)'
    \/ failures'[a] < MaxFailures

LEMMA AllowFacts ==
    ASSUME CircuitType, OpenIffFailing, NEW x \in Runners, Allow(x)
    PROVE  /\ \A a \in Runners : failures'[a] <= failures[a]
           /\ Allowed(x) => failures'[x] < MaxFailures
<1>1. CASE openUntil[x] # 0 /\ now > openUntil[x]
  BY <1>1, BreakerLimits DEF Allow, CircuitType
<1>2. CASE ~(openUntil[x] # 0 /\ now > openUntil[x])
  <2>1. UNCHANGED failures
    BY <1>2 DEF Allow, breakerVars
  <2>2. openUntil[x] = 0 => failures[x] < MaxFailures
    BY BreakerLimits DEF CircuitType, OpenIffFailing
  <2> QED
    BY <1>2, <2>1, <2>2 DEF Allowed, CircuitType
<1> QED
  BY <1>1, <1>2

LEMMA ListBlames ==
    ASSUME CircuitType, OpenIffFailing, CallInv, NEW c \in Callers, NEW x \in Runners,
           List(c, x), NEW a \in Runners
    PROVE  BlameStep(c, a)
<1> DEFINE k == call[c]
<1>1. k \in Call /\ Local(k) /\ k.kind = "chat" /\ k.pc = "listing" /\ x \in k.todo
      /\ call \in [Callers -> Call]
  BY DEF CallInv, List
<1>2. Allow(x)
  BY DEF List
<1>3. /\ call'[c].kind = "chat" /\ call'[c].pc \in {"listing", "picking", "trying"}
      /\ call'[c].list = IF Allowed(x) THEN Append(k.list, x) ELSE k.list
  BY <1>1 DEF List, Call
<1>4. k.list \in Seq(Runners)
  BY <1>1 DEF Call
<1>5. CASE Allowed(x) /\ a = x
  BY <1>2, <1>5, AllowFacts DEF BlameStep
<1>6. CASE ~(Allowed(x) /\ a = x)
  <2>1. a \in Elems(call'[c].list) => a \in Elems(k.list)
    <3>1. CASE Allowed(x)
      BY <1>3, <1>4, <1>6, <3>1, AppendFacts
    <3>2. CASE ~Allowed(x)
      BY <1>3, <3>2
    <3> QED
      BY <3>1, <3>2
  <2>2. MayBlame(c, a)' => MayBlame(c, a)
    BY <1>1, <1>3, <2>1 DEF MayBlame
  <2> QED
    BY <1>2, <2>2, AllowFacts DEF BlameStep
<1> QED
  BY <1>5, <1>6

LEMMA FailBlames ==
    ASSUME CircuitType, CallInv, NEW c \in Callers, Fail(c),
           call[c].pc \in {"require", "sending"}, NEW a \in Runners
    PROVE  BlameStep(c, a)
<1> DEFINE k == call[c]
<1>1. k \in Call /\ Local(k) /\ call \in [Callers -> Call]
  BY DEF CallInv
<1>2. k.addr \in Runners \ Elems(k.list)
  BY <1>1 DEF Local, Looping
<1>3. CASE ~FromLoop(c)
  <2>1. UNCHANGED failures /\ call'[c].list = <<>> /\ call'[c].pc = "failed"
    BY <1>1, <1>3, LocalFields DEF Fail, breakerVars
  <2>2. ~MayBlame(c, a)'
    BY <2>1, EmptyList DEF MayBlame
  <2> QED
    BY <2>1, <2>2 DEF BlameStep, CircuitType
<1>4. CASE FromLoop(c)
  <2>1. failures' = [failures EXCEPT ![k.addr] = @ + 1]
    BY <1>4 DEF Fail, RecordFailure
  <2>2. /\ call'[c].pc \in {"failed", "trying"}
        /\ call'[c].list = <<>> \/ call'[c].list = k.list
        /\ call'[c].kind = k.kind
    BY <1>1, <1>4, LocalFields DEF Fail, Call
  <2>3. MayBlame(c, k.addr)
    BY <1>1, <1>2, <1>4 DEF MayBlame, FromLoop, Local, Looping
  <2>4. MayBlame(c, a)' => a \in Elems(k.list)
    BY <2>2, EmptyList DEF MayBlame
  <2>5. CASE a = k.addr
    <3>1. failures'[a] = failures[a] + 1
      BY <2>1, <2>5 DEF CircuitType
    <3> QED
      BY <1>2, <2>3, <2>4, <2>5, <3>1 DEF BlameStep
  <2>6. CASE a # k.addr
    <3>1. failures'[a] = failures[a] /\ failures[a] \in Nat
      BY <2>1, <2>6 DEF CircuitType
    <3>2. MayBlame(c, a)' => MayBlame(c, a)
      BY <2>2, <2>4 DEF MayBlame
    <3> QED
      BY <3>1, <3>2 DEF BlameStep
  <2> QED
    BY <2>5, <2>6
<1> QED
  BY <1>3, <1>4

\* The steps of a call in which no failure is counted.
LEMMA QuietBlames ==
    ASSUME CallInv, NEW c \in Callers, NEW a \in Runners,
           \/ Begin(c) \/ Cancel(c) \/ Try(c) \/ Required(c) \/ Sent(c)
           \/ StreamEnds(c) \/ StreamAbandoned(c) \/ Scan(c) \/ ProbeAll(c) \/ Pick(c) \/ PickNone(c)
           \/ \E x \in Runners : ProbeBest(c, x) \/ Probe(c, x) \/ ProbeAgain(c, x)
    PROVE  MayBlame(c, a)' => MayBlame(c, a)
<1> DEFINE k == call[c]
<1>1. k \in Call /\ Local(k) /\ call \in [Callers -> Call]
  BY DEF CallInv
<1>2. CASE Begin(c)
  <2>1. call'[c].list = <<>> /\ call'[c].pc \in {"picking", "listing"}
    <3>1. PICK kind \in Kinds :
            call' = [call EXCEPT ![c] =
                       [Fresh EXCEPT !.pc = IF kind = "embed" THEN "picking" ELSE "listing",
                                     !.kind = kind,
                                     !.todo = IF kind = "embed" THEN {} ELSE Runners,
                                     !.sick = {x \in Runners : runner[x] # "ready"}]]
      BY <1>2 DEF Begin
    <3> QED
      BY <1>1, <3>1 DEF Fresh
  <2> QED
    BY <2>1, EmptyList DEF MayBlame
<1>3. CASE Cancel(c) \/ Required(c)
  <2>1. /\ call'[c].list = k.list /\ call'[c].kind = k.kind /\ call'[c].addr = k.addr
        /\ call'[c].denied = k.denied
        /\ call'[c].pc \in {"require", "sending"} => k.pc \in {"require", "sending"}
    BY <1>1, <1>3 DEF Cancel, Required, Call
  <2> QED
    BY <2>1 DEF MayBlame
<1>4. CASE Try(c)
  <2>1. /\ call'[c].list = Tail(k.list) /\ call'[c].kind = k.kind
        /\ call'[c].addr = Head(k.list)
    BY <1>1, <1>4 DEF Try, Call
  <2>2. k.list \in Seq(Runners) /\ k.list # <<>>
    BY <1>1, <1>4 DEF Try, Local, Looping, Call
  <2>3. Elems(k.list) = Elems(Tail(k.list)) \cup {Head(k.list)}
    BY <2>2, TailFacts
  <2> QED
    BY <2>1, <2>3 DEF MayBlame
<1>5. CASE StreamEnds(c) \/ StreamAbandoned(c) \/ Sent(c) \/ PickNone(c)
  <2>1. call'[c].list = <<>> /\ call'[c].pc \in {"new", "streaming", "failed"}
    <3>1. CASE StreamEnds(c) \/ StreamAbandoned(c)
      BY <1>1, <3>1 DEF StreamEnds, StreamAbandoned, Fresh
    <3>2. CASE Sent(c)
      <4>1. \/ call'[c] = Fresh
            \/ call'[c] = [Fresh EXCEPT !.pc = "streaming", !.kind = k.kind, !.addr = k.addr]
        BY <1>1, <3>2 DEF Sent
      <4>2. Fresh.list = <<>> /\ Fresh.pc = "new"
        BY DEF Fresh
      <4>3. [Fresh EXCEPT !.pc = "streaming", !.kind = k.kind, !.addr = k.addr].list = <<>>
        BY DEF Fresh
      <4>4. [Fresh EXCEPT !.pc = "streaming", !.kind = k.kind, !.addr = k.addr].pc = "streaming"
        BY DEF Fresh
      <4> QED
        BY <4>1, <4>2, <4>3, <4>4
    <3>3. CASE PickNone(c)
      BY <1>1, <3>3, LocalFields DEF PickNone
    <3> QED
      BY <1>5, <3>1, <3>2, <3>3
  <2> QED
    BY <2>1, EmptyList DEF MayBlame
<1>6. CASE Scan(c) \/ ProbeAll(c) \/ (\E x \in Runners : Probe(c, x) \/ ProbeAgain(c, x))
  <2>1. call'[c].list = k.list /\ k.pc \in Probing /\ call'[c].pc \in Probing
    <3>1. CASE Scan(c)
      BY <1>1, <3>1 DEF Scan, Probing, Call
    <3>2. CASE ProbeAll(c)
      BY <1>1, <3>2 DEF ProbeAll, Probing, Call
    <3>3. ASSUME NEW x \in Runners, Probe(c, x) \/ ProbeAgain(c, x)
          PROVE  call'[c].list = k.list /\ k.pc \in Probing /\ call'[c].pc \in Probing
      <4>1. k.pc \in Probing
        BY <3>3 DEF Probe, ProbeAgain, Probing
      <4>2. CASE Probe(c, x)
        <5>1. PICK hangs \in BOOLEAN :
                call' = [call EXCEPT
                           ![c].todo = @ \ {x},
                           ![c].expired = @ \/ hangs,
                           ![c].found = IF Answers(c, x) THEN @ \cup Candidates({x}) ELSE @]
          BY <4>2 DEF Probe
        <5> QED
          BY <1>1, <4>1, <5>1 DEF Call
      <4>3. CASE ProbeAgain(c, x)
        BY <1>1, <4>1, <4>3 DEF ProbeAgain, Call
      <4> QED
        BY <3>3, <4>2, <4>3
    <3> QED
      BY <1>6, <3>1, <3>2, <3>3
  <2>2. k.list = <<>>
    BY <1>1, <2>1 DEF Local, Looping
  <2> QED
    BY <2>1, <2>2, EmptyList DEF MayBlame, Probing
<1>7. CASE Pick(c)
  <2>1. call'[c].list = k.list /\ call'[c].kind = k.kind /\ call'[c].denied = k.denied
        /\ k.pc \in Probing
    <3>1. PICK f \in k.found :
            call' = [call EXCEPT ![c].addr = f.addr, ![c].found = {},
                                 ![c].expired = FALSE, ![c].skipped = {},
                                 ![c].pc = IF k.kind = "embed" THEN "require" ELSE "sending"]
      BY <1>7 DEF Pick
    <3>2. k.pc \in Probing
      BY <1>7 DEF Pick, Probing
    <3> QED
      BY <1>1, <3>1, <3>2 DEF Call
  <2>2. k.list = <<>> /\ (k.kind = "chat" => k.denied = Runners)
    BY <1>1, <2>1 DEF Local, Looping
  <2> QED
    BY <2>1, <2>2, EmptyList DEF MayBlame
<1>8. ASSUME NEW x \in Runners, ProbeBest(c, x) PROVE ~MayBlame(c, a)'
  <2>1. call'[c].kind = "pinned"
    <3>1. \/ call' = [call EXCEPT ![c].addr = x, ![c].todo = {}, ![c].pc = "require"]
          \/ call' = [call EXCEPT ![c].todo = @ \ {x}]
          \/ call' = [call EXCEPT ![c].todo = Runners, ![c].pc = "listingAgain"]
          \/ call' = [call EXCEPT ![c] = Failed(c)]
      BY <1>8 DEF ProbeBest
    <3>2. k.kind = "pinned"
      BY <1>8 DEF ProbeBest
    <3> QED
      BY <1>1, <3>1, <3>2, LocalFields DEF Call
  <2> QED
    BY <2>1 DEF MayBlame
<1> QED
  BY <1>2, <1>3, <1>4, <1>5, <1>6, <1>7, <1>8

LEMMA StepOfBlame ==
    ASSUME CircuitType, OpenIffFailing, CallInv, NEW c \in Callers, CallNext(c),
           NEW a \in Runners
    PROVE  BlameStep(c, a)
<1>1. ASSUME NEW x \in Runners, List(c, x) PROVE BlameStep(c, a)
  BY <1>1, ListBlames
<1>2. CASE NotLoaded(c) \/ NotSent(c)
  BY <1>2, FailBlames DEF NotLoaded, NotSent
<1>3. ASSUME NEW x \in Runners, ProbeBest(c, x) PROVE BlameStep(c, a)
  BY <1>3, QuietBlames, AllowFacts DEF BlameStep, ProbeBest
<1>4. CASE Sent(c)
  <2>1. failures'[a] <= failures[a]
    <3>1. (\E x : failures' = [failures EXCEPT ![x] = 0]) \/ UNCHANGED failures
      BY <1>4 DEF Sent, RecordSuccess, breakerVars
    <3> QED
      BY <3>1 DEF CircuitType
  <2> QED
    BY <1>4, <2>1, QuietBlames DEF BlameStep
<1>5. CASE \/ Begin(c) \/ Cancel(c) \/ Try(c) \/ Required(c) \/ StreamEnds(c)
           \/ StreamAbandoned(c) \/ Scan(c) \/ ProbeAll(c) \/ Pick(c) \/ PickNone(c)
           \/ \E x \in Runners : Probe(c, x) \/ ProbeAgain(c, x)
  <2>1. UNCHANGED failures
    BY <1>5 DEF Begin, Cancel, Try, Required, StreamEnds, StreamAbandoned, Scan, ProbeAll,
         Pick, PickNone, Probe, ProbeAgain, breakerVars
  <2>2. failures'[a] <= failures[a]
    BY <2>1 DEF CircuitType
  <2> QED
    BY <1>5, <2>2, QuietBlames DEF BlameStep
<1> QED
  BY <1>1, <1>2, <1>3, <1>4, <1>5 DEF CallNext

\* The step of one caller keeps the sum.
LEMMA BlameKept ==
    ASSUME CircuitType, CircuitType', BlameInv, NEW c \in Callers,
           \A d \in Callers \ {c} : call'[d] = call[d],
           NEW a \in Runners, BlameStep(c, a)
    PROVE  failures'[a] + Cardinality(Blamers(a)') < MaxFailures + Cardinality(Callers)
<1>1. Blamers(a) \in SUBSET Callers /\ Blamers(a)' \in SUBSET Callers
  BY DEF Blamers
<1>2. Blamers(a) \ {c} = Blamers(a)' \ {c}
  BY DEF Blamers, MayBlame
<1>3. /\ Cardinality(Blamers(a)) \in Nat /\ Cardinality(Blamers(a)') \in Nat
      /\ Cardinality(Blamers(a)') = Cardinality(Blamers(a))
           + (IF c \in Blamers(a)' THEN 1 ELSE 0) - (IF c \in Blamers(a) THEN 1 ELSE 0)
  BY <1>1, <1>2, OneApart, DispatchAssumption
<1>4. Cardinality(Callers) \in Nat /\ Cardinality(Blamers(a)') <= Cardinality(Callers)
  BY <1>1, DispatchAssumption, FS_CardinalityType, FS_Subset
<1>5. /\ c \in Blamers(a) <=> MayBlame(c, a)
      /\ c \in Blamers(a)' <=> MayBlame(c, a)'
  BY DEF Blamers
<1>6. failures[a] \in Nat /\ failures'[a] \in Nat
  BY DEF CircuitType
<1>7. failures[a] + Cardinality(Blamers(a)) < MaxFailures + Cardinality(Callers)
  BY DEF BlameInv
<1> QED
  BY <1>3, <1>4, <1>5, <1>6, <1>7, BreakerLimits DEF BlameStep

LEMMA BlameInductive ==
    ASSUME CircuitType, OpenIffFailing, InflightInv, BlameInv, [Next]_vars
    PROVE  BlameInv'
<1>0. CallInv /\ CircuitType'
  BY StepOfCircuit, CircuitInductive DEF InflightInv
<1>1. ASSUME NEW c \in Callers, CallNext(c) PROVE BlameInv'
  <2>1. \A d \in Callers \ {c} : call'[d] = call[d]
    BY <1>1, StepOfCall DEF InflightInv, CallStep
  <2>2. \A a \in Runners : BlameStep(c, a)
    BY <1>0, <1>1, StepOfBlame
  <2> QED
    BY <1>0, <2>1, <2>2, BlameKept DEF BlameInv
<1>2. ASSUME NEW x \in Runners, RunnerChanges(x) PROVE BlameInv'
  <2>1. ASSUME NEW c \in Callers, NEW a \in Runners PROVE MayBlame(c, a)' <=> MayBlame(c, a)
    <3>1. PICK sick \in SUBSET Runners : call'[c] = [call[c] EXCEPT !.sick = sick]
      BY <1>0, <1>2, RunnerStep
    <3>2. call[c] \in Call
      BY <1>0 DEF CallInv
    <3> QED
      BY <3>1, <3>2 DEF Call, MayBlame
  <2>2. \A a \in Runners : Blamers(a)' = Blamers(a)
    BY <2>1 DEF Blamers
  <2>3. UNCHANGED failures
    BY <1>2 DEF RunnerChanges, breakerVars
  <2> QED
    BY <2>2, <2>3 DEF BlameInv
<1>3. CASE OuterStep
  <2>1. \A a \in Runners : Blamers(a)' = Blamers(a)
    BY <1>3 DEF OuterStep, Tick, ModelReady, vars, Blamers, MayBlame
  <2>2. \A a \in Runners : failures'[a] <= failures[a]
    BY <1>3, AllowFacts DEF OuterStep, Tick, ModelReady, vars, breakerVars, CircuitType
  <2>3. ASSUME NEW a \in Runners
        PROVE  failures'[a] + Cardinality(Blamers(a)') < MaxFailures + Cardinality(Callers)
    <3>1. Cardinality(Blamers(a)) \in Nat /\ Cardinality(Callers) \in Nat
      <4>1. Blamers(a) \in SUBSET Callers
        BY DEF Blamers
      <4> QED
        BY <4>1, DispatchAssumption, FS_Subset, FS_CardinalityType
    <3>2. failures[a] \in Nat /\ failures'[a] \in Nat
      BY <1>0 DEF CircuitType
    <3>3. failures[a] + Cardinality(Blamers(a)) < MaxFailures + Cardinality(Callers)
      BY DEF BlameInv
    <3>4. Cardinality(Blamers(a)') = Cardinality(Blamers(a))
      BY <2>1
    <3> QED
      BY <2>2, <3>1, <3>2, <3>3, <3>4, BreakerLimits
  <2> QED
    BY <2>3 DEF BlameInv
<1> QED
  BY <1>1, <1>2, <1>3 DEF Next, OuterStep

\* An open circuit takes at most one further failure from each caller that had
\* listed the runner before it opened (breaker.go, sendMessageWithRetry).
THEOREM BlameIsBounded == Spec => []BlameBound
<1>1. Init => CircuitType /\ OpenIffFailing /\ InflightInv /\ BlameInv
  <2> SUFFICES ASSUME Init PROVE CircuitType /\ OpenIffFailing /\ InflightInv /\ BlameInv
    OBVIOUS
  <2>1. CircuitType /\ OpenIffFailing
    BY CircuitInit
  <2>2. InflightInv
    BY InflightInit
  <2>3. ASSUME NEW a \in Runners
        PROVE  failures[a] + Cardinality(Blamers(a)) < MaxFailures + Cardinality(Callers)
    <3>1. failures[a] = 0
      BY DEF Init, BreakerInit
    <3>2. Blamers(a) = {}
      BY EmptyList DEF Init, Fresh, Blamers, MayBlame
    <3>3. Cardinality(Callers) \in Nat /\ Cardinality(Blamers(a)) = 0
      BY <3>2, DispatchAssumption, FS_CardinalityType, FS_EmptySet
    <3> QED
      BY <3>1, <3>3, BreakerLimits
  <2> QED
    BY <2>1, <2>2, <2>3 DEF BlameInv
<1>2. CircuitType /\ OpenIffFailing /\ InflightInv /\ BlameInv /\ [Next]_vars
        => CircuitType' /\ OpenIffFailing' /\ InflightInv' /\ BlameInv'
  BY StepOfCircuit, CircuitInductive, InflightInductive, BlameInductive
<1>3. CircuitType /\ BlameInv => BlameBound
  <2> SUFFICES ASSUME CircuitType, BlameInv, NEW a \in Runners
               PROVE  failures[a] < MaxFailures + Cardinality(Callers)
    BY DEF BlameBound
  <2>1. Blamers(a) \in SUBSET Callers
    BY DEF Blamers
  <2>2. Cardinality(Blamers(a)) \in Nat /\ Cardinality(Callers) \in Nat
    BY <2>1, DispatchAssumption, FS_Subset, FS_CardinalityType
  <2> QED
    BY <2>2, BreakerLimits DEF CircuitType, BlameInv
<1> QED
  BY <1>1, <1>2, <1>3, PTL DEF Spec


-----------------------------------------------------------------------------
(* Why calls fail.                                                         *)

\* The runners that can be held against a failure of call k: after a
\* cancellation all of them.
Excuse(k) == IF k.cancelled THEN Runners ELSE k.sick

Addrs(F) == {f.addr : f \in F}

\* A call under way has noticed every runner that is not ready.
Known(k) == k.pc \notin Idle \cup {"streaming"} =>
              \A a \in Runners : runner[a] # "ready" => a \in k.sick

AllTried == Attempts(Cardinality(Runners)) = Cardinality(Runners)

\* The loop loses no runner: it was refused, is yet to come, being tried or
\* was not ready; unless runner_retries cuts the list, none is left out.
LoopKeeps(k) ==
    k.kind = "chat" /\ k.denied # Runners /\ k.pc \in {"trying", "require", "sending"} =>
      /\ \A a \in Runners : \/ a \in k.denied \cup Elems(k.list) \cup Excuse(k)
                            \/ k.pc # "trying" /\ a = k.addr
      /\ AllTried => k.left = Len(k.list)

\* Nor does pickRunner: a runner is asked, skipped, a candidate or was not ready.
PickKeeps(k) ==
    /\ k.pc \in Probing \cup {"listing", "listingAgain"} => k.addr = None
    /\ k.pc = "probing" =>
         \A a \in Runners : a \in k.todo \cup k.skipped \cup Addrs(k.found) \cup Excuse(k)
    /\ k.pc = "probingAll" =>
         /\ \A a \in Runners : a \in k.skipped \cup Excuse(k)
         /\ ~k.expired => \A a \in Runners : a \in k.todo \cup Addrs(k.found) \cup Excuse(k)

\* A call that failed did so for a reason.
HadReason(k) ==
    k.pc = "failed" /\ ~k.cancelled =>
      IF k.kind = "chat" /\ k.denied # Runners
      THEN AllTried => Runners = k.sick \cup k.denied
      ELSE IF k.addr # None THEN k.addr \in k.sick
      ELSE \/ k.kind = "pinned"
           \/ Runners \ k.sick \subseteq IF k.expired THEN k.skipped ELSE {}

Reason(k) == Known(k) /\ LoopKeeps(k) /\ PickKeeps(k) /\ HadReason(k)

ReasonInv == \A c \in Callers : Reason(call[c])


LEMMA NewReason ==
    ASSUME CallInv, NEW c \in Callers, NEW n, UNCHANGED runner,
           call' = [call EXCEPT ![c] = n], Reason(n)
    PROVE  Reason(call[c])'
<1>1. call'[c] = n
  BY DEF CallInv
<1> QED
  BY <1>1 DEF Reason, Known, LoopKeeps, PickKeeps, HadReason

LEMMA FreshReason == Reason(Fresh)
BY DEF Fresh, Reason, Known, LoopKeeps, PickKeeps, HadReason, Probing, Idle

\* A failed call keeps all that HadReason looks at.
LEMMA FailedReason ==
    ASSUME NEW c \in Callers,
           HadReason([call[c] EXCEPT !.pc = "failed"]), call[c] \in Call
    PROVE  Reason(Failed(c))
<1> DEFINE k == call[c]
           f == Failed(c)
<1>1. /\ f.pc = "failed" /\ f.kind = k.kind /\ f.addr = k.addr /\ f.denied = k.denied
      /\ f.cancelled = k.cancelled /\ f.expired = k.expired /\ f.skipped = k.skipped
      /\ f.sick = k.sick
  BY DEF Failed, Fresh
<1>2. HadReason(f)
  BY <1>1 DEF HadReason, Call
<1> QED
  BY <1>1, <1>2 DEF Reason, Known, LoopKeeps, PickKeeps, Probing, Idle

\* A list without repetitions is no longer than there are runners.
LEMMA DistinctLength ==
    ASSUME NEW s \in Seq(Runners), Distinct(s)
    PROVE  Len(s) <= Cardinality(Runners) /\ Cardinality(Runners) \in Nat
<1>1. IsFiniteSet(Runners)
  BY PoolAssumption
<1>2. s \in Injection(1..Len(s), Runners)
  <2>1. s \in [1..Len(s) -> Runners]
    OBVIOUS
  <2> QED
    BY <2>1 DEF Injection, IsInjective, Distinct
<1>3. Cardinality(1..Len(s)) <= Cardinality(Runners)
  BY <1>1, <1>2, FS_Injection
<1>4. Cardinality(1..Len(s)) = Len(s)
  <2>1. Len(s) \in Nat /\ 1 \in Int
    OBVIOUS
  <2>2. Cardinality(1..Len(s)) = IF 1 > Len(s) THEN 0 ELSE Len(s) - 1 + 1
    BY <2>1, FS_Interval
  <2> QED
    BY <2>1, <2>2
<1> QED
  BY <1>1, <1>3, <1>4, FS_CardinalityType

\* Unless runner_retries cuts the longest list, it cuts none.
LEMMA AllTriedList ==
    ASSUME AllTried, NEW s \in Seq(Runners), Distinct(s)
    PROVE  Attempts(Len(s)) = Len(s)
BY DistinctLength, DispatchAssumption DEF AllTried, Attempts

\* Who does not answer is an excuse.
LEMMA NoAnswer ==
    ASSUME NEW c \in Callers, NEW a \in Runners, Known(call[c]), ~Answers(c, a),
           call[c].pc \notin Idle \cup {"streaming"}
    PROVE  a \in Excuse(call[c])
BY DEF Known, Answers, Excuse


\* What the steps of one call start from.
ReasonPre(c) == CallInv /\ c \in Callers /\ Reason(call[c])

LEMMA ListReason ==
    ASSUME NEW c \in Callers, ReasonPre(c), NEW a \in Runners, List(c, a)
    PROVE  Reason(call[c])'
<1> DEFINE k == call[c]
           list == IF Allowed(a) THEN Append(k.list, a) ELSE k.list
           denied == IF Allowed(a) THEN k.denied ELSE k.denied \cup {a}
           n == [k EXCEPT !.todo = k.todo \ {a}, !.list = list, !.denied = denied,
                    !.left = IF k.todo = {a} THEN Attempts(Len(list)) ELSE k.left,
                    !.pc = IF k.todo # {a} THEN k.pc
                           ELSE IF list = <<>> THEN "picking" ELSE "trying"]
<1>1. k \in Call /\ Local(k) /\ k.kind = "chat" /\ k.pc = "listing" /\ a \in k.todo /\ Reason(k)
  BY DEF CallInv, List, ReasonPre
<1>2. call' = [call EXCEPT ![c] = n] /\ UNCHANGED runner
  BY <1>1 DEF CallInv, List, ReasonPre
<1>5. /\ n.pc \in {"listing", "picking", "trying"} /\ n.addr = k.addr /\ n.kind = "chat"
      /\ n.cancelled = k.cancelled /\ n.sick = k.sick /\ n.list = list /\ n.denied = denied
      /\ n.pc = "trying" => n.left = Attempts(Len(list)) /\ k.todo = {a}
  BY <1>1 DEF Call
<1>6. /\ list \in Seq(Runners) /\ Distinct(list)
      /\ Elems(list) = IF Allowed(a) THEN Elems(k.list) \cup {a} ELSE Elems(k.list)
  <2>1. k.list \in Seq(Runners) /\ Distinct(k.list) /\ a \notin Elems(k.list)
    BY <1>1 DEF Local, Listing, Looping, Call
  <2>2. CASE Allowed(a)
    <3>1. list = Append(k.list, a)
      BY <2>2
    <3> HIDE DEF list
    <3> QED
      BY <2>1, <2>2, <3>1, AppendFacts
  <2>3. CASE ~Allowed(a)
    BY <2>1, <2>3
  <2> QED
    BY <2>2, <2>3
<1>7. k.todo = {a} => Runners = denied \cup Elems(list)
  BY <1>1, <1>6 DEF Local, Listing
<1>8. Known(n) /\ PickKeeps(n) /\ HadReason(n)
  BY <1>1, <1>5 DEF Known, PickKeeps, HadReason, Probing, Idle, Reason
<1>9. LoopKeeps(n)
  BY <1>5, <1>6, <1>7, AllTriedList DEF LoopKeeps
<1> QED
  BY <1>2, <1>8, <1>9, NewReason DEF Reason, ReasonPre

LEMMA ProbeBestReason ==
    ASSUME NEW c \in Callers, ReasonPre(c), NEW a \in Runners, ProbeBest(c, a)
    PROVE  Reason(call[c])'
<1> DEFINE k == call[c]
           n1 == [k EXCEPT !.addr = a, !.todo = {}, !.pc = "require"]
           n2 == [k EXCEPT !.todo = k.todo \ {a}]
           n3 == [k EXCEPT !.todo = Runners, !.pc = "listingAgain"]
<1>1. k \in Call /\ Reason(k) /\ k.kind = "pinned" /\ k.pc \in {"listing", "listingAgain"}
      /\ UNCHANGED runner
  BY DEF CallInv, ProbeBest, ReasonPre
<1>2. Reason(n1) /\ Reason(n2) /\ Reason(n3)
  BY <1>1 DEF Call, Reason, Known, LoopKeeps, PickKeeps, HadReason, Probing, Idle
<1>3. Reason(Failed(c))
  <2>1. HadReason([k EXCEPT !.pc = "failed"])
    BY <1>1 DEF Call, HadReason, Reason, PickKeeps
  <2> QED
    BY <1>1, <2>1, FailedReason
<1>4. \/ call' = [call EXCEPT ![c] = n1]
      \/ call' = [call EXCEPT ![c] = n2]
      \/ call' = [call EXCEPT ![c] = n3]
      \/ call' = [call EXCEPT ![c] = Failed(c)]
  BY DEF ProbeBest
<1> QED
  BY <1>1, <1>2, <1>3, <1>4, NewReason DEF ReasonPre

LEMMA TryReason ==
    ASSUME NEW c \in Callers, ReasonPre(c), Try(c)
    PROVE  Reason(call[c])'
<1> DEFINE k == call[c]
           n == [k EXCEPT !.addr = Head(k.list), !.list = Tail(k.list), !.left = k.left - 1,
                          !.pc = "require"]
<1>1. k \in Call /\ Local(k) /\ Reason(k) /\ k.pc = "trying" /\ UNCHANGED runner
  BY DEF CallInv, Try, ReasonPre
<1>2. k.list \in Seq(Runners) /\ k.list # <<>> /\ k.left \in Nat
  BY <1>1 DEF Local, Looping, Call
<1>3. /\ Len(Tail(k.list)) = Len(k.list) - 1
      /\ Elems(k.list) = Elems(Tail(k.list)) \cup {Head(k.list)}
  BY <1>2, TailFacts
<1>4. /\ n.pc = "require" /\ n.addr = Head(k.list) /\ n.list = Tail(k.list)
      /\ n.left = k.left - 1 /\ n.kind = k.kind /\ n.denied = k.denied
      /\ n.cancelled = k.cancelled /\ n.sick = k.sick
  BY <1>1 DEF Call
<1>5. LoopKeeps(n)
  BY <1>1, <1>3, <1>4 DEF LoopKeeps, Reason, Excuse
<1>6. Known(n) /\ PickKeeps(n) /\ HadReason(n)
  BY <1>1, <1>4 DEF Known, PickKeeps, HadReason, Probing, Idle, Reason
<1>7. call' = [call EXCEPT ![c] = n]
  BY DEF Try
<1> QED
  BY <1>1, <1>5, <1>6, <1>7, NewReason DEF Reason, ReasonPre

\* A runner that does not answer ends the call only if nothing is left to try.
LEMMA FailReason ==
    ASSUME NEW c \in Callers, ReasonPre(c), Fail(c), call[c].pc \in {"require", "sending"},
           ~Answers(c, call[c].addr), UNCHANGED runner
    PROVE  Reason(call[c])'
<1> DEFINE k == call[c]
           n == [k EXCEPT !.pc = "trying"]
<1>1. k \in Call /\ Local(k) /\ Reason(k)
  BY DEF CallInv, ReasonPre
<1>2. k.addr \in Runners
  BY <1>1 DEF Local, Looping
<1>3. k.addr \in Excuse(k)
  BY <1>1, <1>2, NoAnswer DEF Reason, Idle
<1>4. CASE call' = [call EXCEPT ![c] = Failed(c)] /\ (FromLoop(c) => k.cancelled \/ k.left = 0)
  <2>1. CASE k.cancelled
    <3>1. HadReason([k EXCEPT !.pc = "failed"])
      BY <1>1, <2>1 DEF HadReason, Call
    <3> QED
      BY <1>1, <1>4, <3>1, FailedReason, NewReason DEF ReasonPre
  <2>2. CASE ~k.cancelled /\ FromLoop(c)
    <3>1. AllTried => Runners = k.sick \cup k.denied
      <4> SUFFICES ASSUME AllTried PROVE Runners = k.sick \cup k.denied
        OBVIOUS
      <4>1. Len(k.list) = 0 /\ k.list \in Seq(Runners)
        BY <1>1, <1>4, <2>2 DEF LoopKeeps, FromLoop, Reason, Call
      <4>2. Elems(k.list) = {}
        BY <4>1 DEF Elems
      <4>3. k.sick \subseteq Runners /\ k.denied \subseteq Runners
        BY <1>1 DEF Call
      <4>4. \A a \in Runners : a \in k.denied \cup k.sick \/ a = k.addr
        BY <1>1, <2>2, <4>2 DEF LoopKeeps, FromLoop, Reason, Excuse
      <4> QED
        BY <1>3, <2>2, <4>3, <4>4 DEF Excuse
    <3>2. HadReason([k EXCEPT !.pc = "failed"])
      BY <1>1, <2>2, <3>1 DEF HadReason, Call, FromLoop
    <3> QED
      BY <1>1, <1>4, <3>2, FailedReason, NewReason DEF ReasonPre
  <2>3. CASE ~k.cancelled /\ ~FromLoop(c)
    <3>1. HadReason([k EXCEPT !.pc = "failed"])
      BY <1>1, <1>2, <1>3, <2>3, DispatchAssumption DEF HadReason, Call, FromLoop, Excuse
    <3> QED
      BY <1>1, <1>4, <3>1, FailedReason, NewReason DEF ReasonPre
  <2> QED
    BY <2>1, <2>2, <2>3
<1>5. CASE call' = [call EXCEPT ![c] = n] /\ FromLoop(c)
  <2>1. Reason(n)
    BY <1>1, <1>3 DEF Call, Reason, Known, LoopKeeps, PickKeeps, HadReason, Probing, Idle, Excuse
  <2> QED
    BY <1>5, <2>1, NewReason DEF ReasonPre
<1> QED
  BY <1>4, <1>5 DEF Fail


LEMMA Addresses ==
    /\ \A S : Addrs(Candidates(S)) = S
    /\ \A F, G : Addrs(F \cup G) = Addrs(F) \cup Addrs(G)
<1>1. ASSUME NEW S PROVE Addrs(Candidates(S)) = S
  <2>1. ASSUME NEW a \in S PROVE a \in Addrs(Candidates(S))
    <3>1. [addr |-> a, score |-> Score(a)] \in Candidates(S)
      BY DEF Candidates
    <3>2. [addr |-> a, score |-> Score(a)].addr = a
      OBVIOUS
    <3> QED
      BY <3>1, <3>2 DEF Addrs
  <2>2. ASSUME NEW a \in Addrs(Candidates(S)) PROVE a \in S
    <3>1. PICK f \in Candidates(S) : a = f.addr
      BY DEF Addrs
    <3>2. PICK b \in S : f = [addr |-> b, score |-> Score(b)]
      BY DEF Candidates
    <3> QED
      BY <3>1, <3>2
  <2> QED
    BY <2>1, <2>2
<1>2. \A F, G : Addrs(F \cup G) = Addrs(F) \cup Addrs(G)
  BY DEF Addrs
<1> QED
  BY <1>1, <1>2

LEMMA ScanReason ==
    ASSUME NEW c \in Callers, ReasonPre(c), Scan(c)
    PROVE  Reason(call[c])'
<1> DEFINE k == call[c]
           found == Candidates({a \in Runners : Cached(a)})
           n == [k EXCEPT !.found = found,
                          !.todo = {a \in Runners : ~Cached(a) /\ ~InBackoff(a)},
                          !.skipped = {a \in Runners : InBackoff(a)},
                          !.pc = "probing"]
<1>1. k \in Call /\ Local(k) /\ Reason(k) /\ k.pc = "picking" /\ UNCHANGED runner
  BY DEF CallInv, Scan, ReasonPre
<1>2. {a \in Runners : Cached(a)} = Addrs(found)
  BY Addresses
<1>3. \A a \in Runners : a \in n.todo \cup n.skipped \cup Addrs(n.found)
  BY <1>1, <1>2 DEF Call
<1>4. /\ n.pc = "probing" /\ n.addr = k.addr /\ n.sick = k.sick
  BY <1>1 DEF Call
<1>5. PickKeeps(n)
  BY <1>1, <1>3, <1>4 DEF PickKeeps, Reason, Probing
<1>6. Known(n) /\ LoopKeeps(n) /\ HadReason(n)
  BY <1>1, <1>4 DEF Known, LoopKeeps, HadReason, Idle, Reason
<1>7. call' = [call EXCEPT ![c] = n]
  BY DEF Scan
<1> QED
  BY <1>1, <1>5, <1>6, <1>7, NewReason DEF Reason, ReasonPre

\* A runner that was asked is a candidate, or has not answered.
LEMMA ProbeReason ==
    ASSUME NEW c \in Callers, ReasonPre(c), NEW a \in Runners,
           Probe(c, a) \/ ProbeAgain(c, a)
    PROVE  Reason(call[c])'
<1> DEFINE k == call[c]
           n(e, f) == [k EXCEPT !.todo = k.todo \ {a}, !.expired = e, !.found = f]
<1>1. k \in Call /\ Reason(k) /\ k.pc \in {"probing", "probingAll"} /\ UNCHANGED runner
  BY DEF CallInv, Probe, ProbeAgain, ReasonPre
<1>2. Addrs(k.found) \cup {a} = Addrs(k.found \cup Candidates({a}))
  BY Addresses
<1>3. ~Answers(c, a) => a \in Excuse(k)
  BY <1>1, NoAnswer DEF Reason, Idle
<1>4. ASSUME NEW e, NEW f,
             k.pc = "probingAll" => e = k.expired,
             \/ f = k.found \cup Candidates({a})
             \/ f = k.found /\ a \in Excuse(k)
             \/ f = k.found /\ k.pc = "probingAll" /\ e
      PROVE  Reason(n(e, f))
  <2>1. /\ n(e, f).pc = k.pc /\ n(e, f).addr = k.addr /\ n(e, f).sick = k.sick
        /\ n(e, f).cancelled = k.cancelled /\ n(e, f).skipped = k.skipped
        /\ n(e, f).todo = k.todo \ {a} /\ n(e, f).expired = e /\ n(e, f).found = f
    BY <1>1 DEF Call
  <2>2. Addrs(k.found) \subseteq Addrs(f)
    BY <1>2, <1>4
  <2>6. a \in Addrs(f) \/ a \in Excuse(k) \/ (k.pc = "probingAll" /\ e)
    <3>1. a \in Addrs(k.found \cup Candidates({a}))
      BY <1>2
    <3> QED
      BY <1>4, <3>1
  <2>3. Excuse(n(e, f)) = Excuse(k)
    BY <2>1 DEF Excuse
  <2> HIDE DEF n
  <2>4. PickKeeps(n(e, f))
    BY <1>1, <1>4, <2>1, <2>2, <2>3, <2>6 DEF PickKeeps, Reason
  <2>5. Known(n(e, f)) /\ LoopKeeps(n(e, f)) /\ HadReason(n(e, f))
    BY <1>1, <2>1 DEF Known, LoopKeeps, HadReason, Idle, Reason
  <2> QED
    BY <2>4, <2>5 DEF Reason
<1>5. CASE Probe(c, a)
  <2>1. PICK hangs \in BOOLEAN :
          /\ call' = [call EXCEPT
                        ![c].todo = @ \ {a},
                        ![c].expired = @ \/ hangs,
                        ![c].found = IF Answers(c, a) THEN @ \cup Candidates({a}) ELSE @]
          /\ k.pc = "probing"
    BY <1>5 DEF Probe
  <2> DEFINE e == k.expired \/ hangs
             f == IF Answers(c, a) THEN k.found \cup Candidates({a}) ELSE k.found
  <2>2. call' = [call EXCEPT ![c] = n(e, f)]
    BY <2>1
  <2>3. Reason(n(e, f))
    <3>1. k.pc = "probingAll" => e = k.expired
      BY <2>1
    <3>2. \/ f = k.found \cup Candidates({a})
          \/ f = k.found /\ a \in Excuse(k)
      BY <1>3
    <3> HIDE DEF n, e, f
    <3> QED
      BY <1>4, <3>1, <3>2
  <2> QED
    BY <1>1, <2>2, <2>3, NewReason DEF ReasonPre
<1>6. CASE ProbeAgain(c, a)
  <2> DEFINE f == IF Answers(c, a) /\ ~k.expired THEN k.found \cup Candidates({a}) ELSE k.found
  <2>1. call' = [call EXCEPT ![c] = n(k.expired, f)] /\ k.pc = "probingAll"
    <3>1. n(k.expired, f) = [k EXCEPT !.todo = k.todo \ {a}, !.found = f]
      BY <1>1 DEF Call
    <3>2. k.pc = "probingAll" /\ call' = [call EXCEPT ![c] = [k EXCEPT !.todo = k.todo \ {a}, !.found = f]]
      BY <1>6 DEF ProbeAgain
    <3> HIDE DEF n, f
    <3> QED
      BY <3>1, <3>2
  <2>2. Reason(n(k.expired, f))
    <3>1. \/ f = k.found \cup Candidates({a})
          \/ f = k.found /\ a \in Excuse(k)
          \/ f = k.found /\ k.pc = "probingAll" /\ k.expired
      BY <1>3, <2>1
    <3> HIDE DEF n, f
    <3> QED
      BY <1>4, <3>1
  <2> QED
    BY <1>1, <2>1, <2>2, NewReason DEF ReasonPre
<1> QED
  BY <1>5, <1>6

\* When pickRunner gives up or starts over, it has asked everybody.
LEMMA ProbedReason ==
    ASSUME NEW c \in Callers, ReasonPre(c), ProbeAll(c) \/ PickNone(c)
    PROVE  Reason(call[c])'
<1> DEFINE k == call[c]
           n == [k EXCEPT !.todo = Runners, !.pc = "probingAll"]
<1>1. k \in Call /\ Local(k) /\ Reason(k) /\ k.todo = {} /\ k.found = {} /\ UNCHANGED runner
  BY DEF CallInv, ProbeAll, PickNone, ReasonPre
<1>2. Addrs(k.found) = {}
  BY <1>1 DEF Addrs
<1>3. CASE ProbeAll(c)
  <2>1. call' = [call EXCEPT ![c] = n] /\ k.pc = "probing"
    BY <1>3 DEF ProbeAll
  <2>2. /\ n.pc = "probingAll" /\ n.addr = k.addr /\ n.sick = k.sick /\ n.todo = Runners
        /\ n.cancelled = k.cancelled /\ n.skipped = k.skipped
    BY <1>1 DEF Call
  <2>3. Reason(n)
    BY <1>1, <1>2, <2>1, <2>2
       DEF Reason, Known, LoopKeeps, PickKeeps, HadReason, Probing, Idle, Excuse
  <2> QED
    BY <1>1, <2>1, <2>3, NewReason DEF ReasonPre
<1>4. CASE PickNone(c)
  <2>1. call' = [call EXCEPT ![c] = Failed(c)] /\ k.pc = "probingAll"
    BY <1>4 DEF PickNone
  <2>2. HadReason([k EXCEPT !.pc = "failed"])
    BY <1>1, <1>2, <2>1 DEF HadReason, Reason, PickKeeps, Local, Looping, Probing, Excuse, Call
  <2> QED
    BY <1>1, <2>1, <2>2, FailedReason, NewReason DEF ReasonPre
<1> QED
  BY <1>3, <1>4

LEMMA PickReason ==
    ASSUME NEW c \in Callers, ReasonPre(c), Pick(c)
    PROVE  Reason(call[c])'
<1> DEFINE k == call[c]
<1>1. k \in Call /\ Local(k) /\ Reason(k) /\ k.pc \in Probing /\ UNCHANGED runner
  BY DEF CallInv, Pick, ReasonPre, Probing
<1>2. PICK f \in k.found :
        call' = [call EXCEPT ![c].addr = f.addr, ![c].found = {},
                             ![c].expired = FALSE, ![c].skipped = {},
                             ![c].pc = IF k.kind = "embed" THEN "require" ELSE "sending"]
  BY DEF Pick
<1> DEFINE n == [k EXCEPT !.addr = f.addr, !.found = {}, !.expired = FALSE, !.skipped = {},
                          !.pc = IF k.kind = "embed" THEN "require" ELSE "sending"]
<1>3. call' = [call EXCEPT ![c] = n]
  BY <1>2
<1>4. /\ n.pc \in {"require", "sending"} /\ n.kind = k.kind /\ n.denied = k.denied
      /\ n.sick = k.sick
  BY <1>1 DEF Call
<1>5. Reason(n)
  BY <1>1, <1>4 DEF Reason, Known, LoopKeeps, PickKeeps, HadReason, Probing, Idle, Local, Looping
<1> QED
  BY <1>1, <1>3, <1>5, NewReason DEF ReasonPre

LEMMA OtherReason ==
    ASSUME NEW c \in Callers, ReasonPre(c),
           \/ Begin(c) \/ Cancel(c) \/ Required(c) \/ Sent(c)
           \/ StreamEnds(c) \/ StreamAbandoned(c)
    PROVE  Reason(call[c])'
<1> DEFINE k == call[c]
<1>1. k \in Call /\ Reason(k) /\ UNCHANGED runner
  BY DEF CallInv, ReasonPre, Begin, Cancel, Required, Sent, StreamEnds, StreamAbandoned
<1>2. CASE Begin(c)
  <2>1. PICK kind \in Kinds :
          call' = [call EXCEPT ![c] =
                     [Fresh EXCEPT !.pc = IF kind = "embed" THEN "picking" ELSE "listing",
                                   !.kind = kind,
                                   !.todo = IF kind = "embed" THEN {} ELSE Runners,
                                   !.sick = {a \in Runners : runner[a] # "ready"}]]
    BY <1>2 DEF Begin
  <2> DEFINE n == [Fresh EXCEPT !.pc = IF kind = "embed" THEN "picking" ELSE "listing",
                                !.kind = kind,
                                !.todo = IF kind = "embed" THEN {} ELSE Runners,
                                !.sick = {a \in Runners : runner[a] # "ready"}]
  <2>2. Reason(n)
    BY DEF Fresh, Reason, Known, LoopKeeps, PickKeeps, HadReason, Probing
  <2> QED
    BY <1>1, <2>1, <2>2, NewReason DEF ReasonPre
<1>3. CASE Cancel(c)
  <2> DEFINE n == [k EXCEPT !.cancelled = TRUE]
  <2>1. k.pc # "failed"
    BY <1>3 DEF Cancel, Active, Idle
  <2>2. Reason(n)
    BY <1>1, <2>1 DEF Call, Reason, Known, LoopKeeps, PickKeeps, HadReason, Excuse
  <2>3. call' = [call EXCEPT ![c] = n]
    BY <1>3 DEF Cancel
  <2> QED
    BY <1>1, <2>2, <2>3, NewReason DEF ReasonPre
<1>4. CASE Required(c)
  <2> DEFINE n == [k EXCEPT !.pc = "sending"]
  <2>1. call' = [call EXCEPT ![c] = n] /\ k.pc = "require"
    BY <1>4 DEF Required
  <2>2. Reason(n)
    BY <1>1, <2>1 DEF Call, Reason, Known, LoopKeeps, PickKeeps, HadReason, Probing, Idle, Excuse
  <2> QED
    BY <1>1, <2>1, <2>2, NewReason DEF ReasonPre
<1>5. CASE Sent(c) \/ StreamEnds(c) \/ StreamAbandoned(c)
  <2> DEFINE n == [Fresh EXCEPT !.pc = "streaming", !.kind = k.kind, !.addr = k.addr]
  <2>1. call' = [call EXCEPT ![c] = Fresh] \/ call' = [call EXCEPT ![c] = n]
    BY <1>5 DEF Sent, StreamEnds, StreamAbandoned
  <2>2. Reason(n)
    BY DEF Fresh, Reason, Known, LoopKeeps, PickKeeps, HadReason, Probing
  <2> QED
    BY <1>1, <2>1, <2>2, FreshReason, NewReason DEF ReasonPre
<1> QED
  BY <1>2, <1>3, <1>4, <1>5

\* A runner that is no longer ready becomes known to the calls under way.
LEMMA RunnerReason ==
    ASSUME CallInv, ReasonInv, NEW a \in Runners, RunnerChanges(a), NEW c \in Callers
    PROVE  Reason(call[c])'
<1> DEFINE k == call[c]
           n == [k EXCEPT !.sick = k.sick \cup {a}]
<1>1. k \in Call /\ Reason(k)
  BY DEF CallInv, ReasonInv
<1>2. \A b \in Runners \ {a} : runner'[b] = runner[b]
  BY DEF RunnerChanges, CallInv
<1>3. CASE Active(c) /\ k.pc # "streaming" /\ runner'[a] # "ready"
  <2>1. call'[c] = n
    BY <1>3 DEF RunnerChanges
  <2>2. /\ n.pc = k.pc /\ n.sick = k.sick \cup {a} /\ n.kind = k.kind /\ n.addr = k.addr
        /\ n.todo = k.todo /\ n.list = k.list /\ n.left = k.left /\ n.found = k.found
        /\ n.denied = k.denied /\ n.cancelled = k.cancelled /\ n.expired = k.expired
        /\ n.skipped = k.skipped /\ n.pc # "failed"
    BY <1>1, <1>3 DEF Call, Active, Idle
  <2> HIDE DEF n
  <2>3. Known(call[c])'
    BY <1>1, <1>2, <2>1, <2>2 DEF Reason, Known
  <2>4. LoopKeeps(n) /\ PickKeeps(n) /\ HadReason(n)
    BY <1>1, <2>2 DEF Reason, LoopKeeps, PickKeeps, HadReason, Excuse
  <2> QED
    BY <2>1, <2>3, <2>4 DEF Reason, LoopKeeps, PickKeeps, HadReason
<1>4. CASE ~(Active(c) /\ k.pc # "streaming" /\ runner'[a] # "ready")
  <2>1. call'[c] = k
    BY <1>4 DEF RunnerChanges
  <2>2. Known(call[c])'
    BY <1>1, <1>2, <1>4, <2>1 DEF Reason, Known, Active
  <2> QED
    BY <1>1, <2>1, <2>2 DEF Reason, LoopKeeps, PickKeeps, HadReason
<1> QED
  BY <1>3, <1>4

LEMMA ReasonInductive ==
    ASSUME InflightInv, ReasonInv, [Next]_vars
    PROVE  ReasonInv'
<1>0. CallInv
  BY DEF InflightInv
<1>1. ASSUME NEW c \in Callers, CallNext(c) PROVE ReasonInv'
  <2>1. ReasonPre(c) /\ UNCHANGED runner /\ \A d \in Callers \ {c} : call'[d] = call[d]
    BY <1>0, <1>1, StepOfCall DEF ReasonPre, ReasonInv, InflightInv, CallStep
  <2>2. Reason(call[c])'
    <3>1. CASE NotLoaded(c) \/ NotSent(c)
      BY <2>1, <3>1, FailReason DEF NotLoaded, NotSent
    <3>2. CASE \E a \in Runners : List(c, a) \/ ProbeBest(c, a) \/ Probe(c, a) \/ ProbeAgain(c, a)
      BY <2>1, <3>2, ListReason, ProbeBestReason, ProbeReason
    <3>3. CASE Try(c) \/ Scan(c) \/ Pick(c) \/ ProbeAll(c) \/ PickNone(c)
      BY <2>1, <3>3, TryReason, ScanReason, PickReason, ProbedReason
    <3>4. CASE \/ Begin(c) \/ Cancel(c) \/ Required(c) \/ Sent(c)
               \/ StreamEnds(c) \/ StreamAbandoned(c)
      BY <2>1, <3>4, OtherReason
    <3> QED
      BY <1>1, <3>1, <3>2, <3>3, <3>4 DEF CallNext
  <2>3. ASSUME NEW d \in Callers \ {c} PROVE Reason(call[d])'
    BY <2>1, <2>3 DEF ReasonInv, Reason, Known, LoopKeeps, PickKeeps, HadReason
  <2> QED
    BY <2>2, <2>3 DEF ReasonInv
<1>2. ASSUME NEW a \in Runners, RunnerChanges(a) PROVE ReasonInv'
  BY <1>0, <1>2, RunnerReason DEF ReasonInv
<1>3. CASE OuterStep
  <2>1. UNCHANGED <<call, runner>>
    BY <1>3 DEF OuterStep, Tick, ModelReady, vars
  <2> QED
    BY <2>1 DEF ReasonInv, Reason, Known, LoopKeeps, PickKeeps, HadReason
<1> QED
  BY <1>1, <1>2, <1>3 DEF Next, OuterStep

\* A call that was not cancelled fails only if every runner was not ready at
\* some moment of it, refused by the breaker, or skipped for its backoff after a
\* probe that hung (sendMessageWithRetry, ProbeBestRunner, pickRunner).
THEOREM CallsFailForAReason == Spec => []NoFalseUnavailable
<1>1. Init => InflightInv /\ ReasonInv
  <2>1. Init => \A c \in Callers : call[c] = Fresh
    BY DEF Init
  <2> QED
    BY <2>1, InflightInit, FreshReason DEF ReasonInv
<1>2. InflightInv /\ ReasonInv /\ [Next]_vars => InflightInv' /\ ReasonInv'
  BY InflightInductive, ReasonInductive
<1>3. ReasonInv => NoFalseUnavailable
  BY DEF ReasonInv, Reason, HadReason, NoFalseUnavailable, FromLoop, AllTried
<1> QED
  BY <1>1, <1>2, <1>3, PTL DEF Spec

====
