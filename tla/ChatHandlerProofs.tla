------------------------- MODULE ChatHandlerProofs -------------------------
(***************************************************************************)
(* Theorems about ChatHandler, for any clients, ids, limits and times.     *)
(***************************************************************************)
EXTENDS ChatHandler, FiniteSetTheorems, TLAPS

-----------------------------------------------------------------------------
(* The inductive invariant.                                                *)

\* What a request holds, by how far it is.
CallInv ==
    \A c \in Clients :
      /\ call[c].pc # "idle" => call[c].turn \in 1..MaxTurns
      /\ call[c].pc \in {"received", "merging"} => call[c].messages # <<>>
      /\ call[c].pc \in {"storing", "answering"} => call[c].kind \notin Streams
      /\ call[c].usage > 0 => call[c].pc \in {"persisting", "storing"} /\ call[c].kind = "tools"

\* An id that nobody has used twice at a time belongs to one request, which began
\* when no answer under it was remembered.
RetryInv ==
    \A k \in Ids :
      /\ entries[k] # None => entries[k].expires <= now + Ttl
      /\ (delivered[k] # None /\ now <= delivered[k].expires) =>
           /\ entries[k] # None /\ delivered[k].expires <= entries[k].expires
           /\ k \in doubled \/ entries[k] = delivered[k]
      /\ k \notin doubled =>
           \A c \in Clients : Open(c, k) =>
             /\ \A d \in Clients : Open(d, k) => d = c
             /\ delivered[k] = None \/ delivered[k].expires < now

\* From number n on, s is the beginning of t.
Follows(s, n, t) ==
    /\ Len(s) - n <= Len(t)
    /\ \A i \in 1..(Len(s) - n) : t[i] = s[n + i]

\* Of the history s, t has lost at most the oldest messages, and none before a limit.
KeptIn(s, t) ==
    \E n \in 0..Len(s) :
      /\ Follows(s, n, t)
      /\ n > 0 => Len(t) >= HistoryMax \/ Len(t) >= Budget

\* What a request that is alone makes of the stored history.
HistoryInv ==
    \A c \in Clients : call[c].alone =>
      /\ call[c].pc \in {"received", "merging"} =>
           Len(call[c].messages) = 1 \/ Follows(session, 0, call[c].messages)
      /\ (call[c].pc \in {"generating", "persisting"} /\ Len(session) > 1) =>
           KeptIn(session, call[c].messages)

ChatInv == TypeOK /\ CallInv /\ RetryInv /\ QuotaOvershoot /\ HistoryInv

-----------------------------------------------------------------------------
(* Histories.                                                              *)

LEMMA Constants ==
    /\ IsFiniteSet(Clients) /\ Estimate \in Nat \ {0} /\ MaxPerDay \in Nat /\ MaxPerDay >= Estimate
    /\ MaxUsage \in Nat /\ Ttl \in Nat \ {0} /\ Day \in Nat \ {0} /\ HistoryMax \in Nat \ {0}
    /\ Budget \in Nat \ {0} /\ MaxTurns \in Nat /\ MaxNow \in Nat
    /\ None \notin Ids /\ None \notin Entry
BY ChatAssumption, NoneAssumption

\* r is the end of s.
EndOf(r, s) == \A i \in 1..Len(r) : r[i] = s[Len(s) - Len(r) + i]

\* The last n messages of a history.
LEMMA NewestIs ==
    ASSUME NEW s \in Seq(Message), NEW n \in Nat \ {0}, NEW r, r = Newest(s, n)
    PROVE  /\ r \in Seq(Message) /\ Len(r) <= n /\ Len(r) <= Len(s)
           /\ Len(s) <= n => r = s
           /\ Len(s) > n => Len(r) = n /\ EndOf(r, s)
           /\ s # <<>> => r # <<>>
<1>1. CASE Len(s) <= n
  BY <1>1 DEF Newest
<1>2. CASE Len(s) > n
  <2>1. r = SubSeq(s, Len(s) - n + 1, Len(s))
    BY <1>2 DEF Newest
  <2>2. Len(s) - n + 1 \in 1..Len(s) /\ Len(s) \in 1..Len(s)
    BY <1>2
  <2>3. r \in Seq(Message) /\ Len(r) = n /\ \A i \in 1..n : r[i] = s[Len(s) - n + i]
    BY <1>2, <2>1, <2>2
  <2> QED
    BY <1>2, <2>3 DEF EndOf
<1> QED
  BY <1>1, <1>2

\* Cutting a history to a limit keeps what was kept.
LEMMA CutKeeps ==
    ASSUME NEW s \in Seq(Message), NEW t \in Seq(Message), KeptIn(s, t),
           NEW n \in {HistoryMax, Budget}, NEW r, r = Newest(t, n)
    PROVE  KeptIn(s, r)
<1>0. n \in Nat \ {0}
  BY Constants
<1>1. CASE Len(t) <= n
  <2>1. r = t
    BY <1>0, <1>1, NewestIs
  <2> QED
    BY <2>1
<1>2. CASE Len(t) > n
  <2>1. r \in Seq(Message) /\ Len(r) = n /\ \A i \in 1..n : r[i] = t[Len(t) - n + i]
    <3>1. PICK p \in Nat \ {0} : p = n
      BY <1>0
    <3>2. r = Newest(t, p) /\ Len(t) > p
      BY <1>2, <3>1
    <3>3. r \in Seq(Message)
      BY <3>2, NewestIs
    <3>4. Len(r) = p
      BY <3>2, NewestIs
    <3>5. \A i \in 1..p : r[i] = t[Len(t) - p + i]
      <4>1. EndOf(r, t)
        BY <3>2, NewestIs
      <4> QED
        BY <3>4, <4>1 DEF EndOf
    <3> QED
      BY <3>1, <3>3, <3>4, <3>5
  <2>2. PICK m \in 0..Len(s) : Follows(s, m, t)
    BY DEF KeptIn
  <2>j. PICK j \in Nat : j = Len(t) - n
    BY <1>0, <1>2
  <2>3. CASE m + j <= Len(s)
    <3>1. Follows(s, m + j, r)
      <4>1. Len(s) - (m + j) <= n
        BY <1>0, <2>2, <2>j DEF Follows
      <4>2. ASSUME NEW i \in 1..(Len(s) - (m + j)) PROVE r[i] = s[(m + j) + i]
        <5>1. i \in 1..n /\ j + i \in 1..(Len(s) - m)
          BY <1>0, <2>3, <4>1
        <5>2. r[i] = t[j + i] /\ t[j + i] = s[m + (j + i)]
          BY <2>1, <2>2, <2>j, <5>1 DEF Follows
        <5>3. m + (j + i) = (m + j) + i
          OBVIOUS
        <5> QED
          BY <5>2, <5>3
      <4> QED
        BY <2>1, <4>1, <4>2 DEF Follows
    <3>2. m + j \in 0..Len(s) /\ (Len(r) >= HistoryMax \/ Len(r) >= Budget)
      BY <1>0, <2>1, <2>3, Constants
    <3> QED
      BY <3>1, <3>2 DEF KeptIn
  <2>4. CASE m + j > Len(s)
    <3>1. Follows(s, Len(s), r) /\ Len(s) \in 0..Len(s) /\ (Len(r) >= HistoryMax \/ Len(r) >= Budget)
      BY <1>0, <2>1, Constants DEF Follows
    <3> QED
      BY <3>1 DEF KeptIn
  <2> QED
    BY <2>3, <2>4
<1> QED
  BY <1>0, <1>1, <1>2

\* A message more keeps what was kept.
LEMMA AppendKeeps ==
    ASSUME NEW s \in Seq(Message), NEW t \in Seq(Message), NEW x \in Message
    PROVE  /\ KeptIn(s, t) => KeptIn(s, Append(t, x))
           /\ Follows(s, 0, t) => KeptIn(s, t)
           /\ Follows(s, 0, s) /\ Follows(s, 0, Append(s, x))
<1>1. ASSUME NEW m \in 0..Len(s), Follows(s, m, t) PROVE Follows(s, m, Append(t, x))
  BY <1>1 DEF Follows
<1>2. Len(Append(t, x)) = Len(t) + 1 /\ 0 \in 0..Len(s)
  OBVIOUS
<1>3. KeptIn(s, t) => KeptIn(s, Append(t, x))
  BY <1>1, <1>2, Constants DEF KeptIn
<1>4. Follows(s, 0, t) => KeptIn(s, t)
  BY <1>2 DEF KeptIn
<1>5. Follows(s, 0, s) /\ Follows(s, 0, Append(s, x))
  BY DEF Follows
<1> QED
  BY <1>3, <1>4, <1>5

\* The history that a request reads and cuts.
LEMMA MergeKeeps ==
    ASSUME NEW q \in Seq(Message), q # <<>>, session \in Seq(Message)
    PROVE  /\ Merge(q) \in Seq(Message) /\ Merge(q) # <<>>
           /\ (Len(session) > 1 /\ (Len(q) = 1 \/ Follows(session, 0, q))) => KeptIn(session, Merge(q))
<1>0. Len(session) \in Nat /\ Len(q) \in Nat /\ (session = <<>> => Len(session) = 0)
  OBVIOUS
<1>1. CASE session = <<>> \/ Len(q) >= Len(session)
  <2>1. Merge(q) = q
    BY <1>1 DEF Merge
  <2>2. Len(session) > 1 /\ (Len(q) = 1 \/ Follows(session, 0, q)) => Follows(session, 0, q)
    <3>1. ASSUME Len(session) > 1, Len(q) = 1 PROVE FALSE
      BY <1>0, <1>1, <3>1
    <3> QED
      BY <3>1
  <2>3. Follows(session, 0, q) => KeptIn(session, q)
    BY DEF KeptIn
  <2> QED
    BY <2>1, <2>2, <2>3
<1>2. CASE ~(session = <<>> \/ Len(q) >= Len(session)) /\ Last(session) = Last(q)
  <2>1. Merge(q) = session
    BY <1>2 DEF Merge
  <2>2. KeptIn(session, session)
    BY DEF KeptIn, Follows
  <2> QED
    BY <1>2, <2>1, <2>2
<1>3. CASE ~(session = <<>> \/ Len(q) >= Len(session)) /\ Last(session) # Last(q)
  <2>x. PICK x \in Message : x = Last(q)
    BY DEF Last
  <2>0. Append(session, x) \in Seq(Message) /\ Append(session, x) # <<>>
    OBVIOUS
  <2>t. PICK t \in Seq(Message) : t = Append(session, x)
    BY <2>0
  <2>1. Merge(q) = Newest(t, HistoryMax)
    BY <1>3, <2>x, <2>t DEF Merge, Trim
  <2>2. t # <<>>
    BY <2>0, <2>t
  <2>3. KeptIn(session, t)
    <3>1. Len(t) = Len(session) + 1 /\ \A i \in 1..Len(session) : t[i] = session[i]
      BY <2>t
    <3>2. Follows(session, 0, t) /\ 0 \in 0..Len(session)
      BY <1>0, <3>1 DEF Follows
    <3> QED
      BY <3>2 DEF KeptIn
  <2>4. Newest(t, HistoryMax) \in Seq(Message) /\ Newest(t, HistoryMax) # <<>>
    BY <2>2, NewestIs, Constants
  <2>5. KeptIn(session, Newest(t, HistoryMax))
    BY <2>3, CutKeeps
  <2> QED
    BY <2>1, <2>4, <2>5
<1> QED
  BY <1>1, <1>2, <1>3

-----------------------------------------------------------------------------
(* What the actions make of a request.                                     *)

LEMMA CallFields ==
    ASSUME NEW k \in Call
    PROVE  /\ k.pc \in {"idle", "received", "merging", "generating", "persisting", "storing",
                        "answering"}
           /\ k.kind \in Kinds \cup {"plain"} /\ k.id \in Ids \cup {None} /\ k.turn \in 0..MaxTurns
           /\ k.messages \in Seq(Message) /\ k.usage \in 0..MaxUsage /\ k.alone \in BOOLEAN
BY DEF Call

LEMMA IdleIs ==
    /\ Idle \in Call
    /\ Idle.pc = "idle" /\ Idle.id = None /\ Idle.usage = 0
BY Constants DEF Idle, Call

\* The only request that changes.
OneCall(c, m) ==
    /\ m \in Call
    /\ call' \in [Clients -> Call]
    /\ call'[c] = m
    /\ \A d \in Clients \ {c} : call'[d] = call[d]

LEMMA OneCallIs ==
    ASSUME TypeOK, NEW c \in Clients, NEW m \in Call, call' = [call EXCEPT ![c] = m]
    PROVE  OneCall(c, m)
BY DEF OneCall, TypeOK

\* The request goes on.
Same(k, m) == m.kind = k.kind /\ m.id = k.id /\ m.turn = k.turn /\ m.alone = k.alone

\* A message of the user.
LEMMA UserIs ==
    ASSUME NEW t \in 1..MaxTurns
    PROVE  User(t) \in Message /\ Assistant(t) \in Message
BY DEF User, Assistant, Message

LEMMA BeginStep ==
    ASSUME TypeOK, NEW c \in Clients, Begin(c)
    PROVE  \E m :
             /\ OneCall(c, m)
             /\ m.pc = "received" /\ m.turn \in 1..MaxTurns /\ m.usage = 0
             /\ m.messages # <<>> /\ (Len(m.messages) = 1 \/ Follows(session, 0, m.messages))
             /\ m.kind \notin Streams => ~Hit(m.id)
             /\ doubled' = doubled \cup {j \in Ids : /\ j = m.id /\ m.kind \notin Streams
                                                     /\ \E d \in Clients : Open(d, m.id)}
<1>p. PICK k \in Ids \cup {None}, f \in Kinds, t \in NextTurns :
         /\ f \notin Streams => ~Hit(k)
         /\ \E ms \in {<<User(t)>>, Append(session, User(t))} : Send(c, k, f, t, ms)
  BY DEF Begin
<1>ms. PICK ms : /\ ms = <<User(t)>> \/ ms = Append(session, User(t))
                 /\ Send(c, k, f, t, ms)
  BY <1>p
<1>1. t \in 1..MaxTurns
  BY <1>p DEF NextTurns
<1>u. PICK u \in Message : u = User(t)
  BY <1>1, UserIs
<1>s. session \in Seq(Message)
  BY DEF TypeOK
<1>2. ms \in Seq(Message) /\ ms # <<>> /\ (Len(ms) = 1 \/ Follows(session, 0, ms))
  <2>1. CASE ms = <<u>>
    BY <2>1
  <2>2. CASE ms = Append(session, u)
    <3>1. /\ ms \in Seq(Message) /\ Len(ms) = Len(session) + 1
          /\ \A i \in 1..Len(session) : ms[i] = session[i]
      BY <1>s, <2>2
    <3>2. Len(session) \in Nat
      BY <1>s
    <3> QED
      BY <3>1, <3>2 DEF Follows
  <2> QED
    BY <1>ms, <1>u, <2>1, <2>2
<1>m. PICK m : m = [Idle EXCEPT !.pc = "received", !.kind = f, !.id = k, !.turn = t, !.messages = ms]
  OBVIOUS
<1>3. m = [pc |-> "received", kind |-> f, id |-> k, turn |-> t, messages |-> ms, usage |-> 0,
           alone |-> TRUE]
  BY <1>m DEF Idle
<1>4. m \in Call
  BY <1>1, <1>2, <1>3, <1>p, Constants DEF Call
<1>5. call' = [call EXCEPT ![c] = m]
  BY <1>m, <1>ms DEF Send
<1>6. OneCall(c, m)
  BY <1>4, <1>5, OneCallIs
<1>7. /\ m.pc = "received" /\ m.kind = f /\ m.id = k /\ m.turn = t
      /\ m.messages = ms /\ m.usage = 0
  BY <1>3
<1>8. doubled' = doubled \cup {j \in Ids : /\ j = k /\ f \notin Streams
                                           /\ \E d \in Clients : Open(d, k)}
  BY <1>ms DEF Send
<1> QED
  BY <1>1, <1>2, <1>6, <1>7, <1>8, <1>p

LEMMA LeaveSteps ==
    ASSUME TypeOK, NEW c \in Clients, NotReady(c) \/ GenerationFails(c) \/ Answer(c)
    PROVE  OneCall(c, Idle)
BY OneCallIs, IdleIs DEF NotReady, GenerationFails, Answer

LEMMA AdmitStep ==
    ASSUME TypeOK, NEW c \in Clients, Admit(c)
    PROVE  /\ ~WouldAllow => OneCall(c, Idle)
           /\ WouldAllow => \E m : /\ OneCall(c, m) /\ m.pc = "merging" /\ Same(call[c], m)
                                   /\ m.messages = call[c].messages /\ m.usage = call[c].usage
<1>k. PICK k \in Call : k = call[c]
  BY DEF TypeOK
<1>m. PICK m : m = [k EXCEPT !.pc = "merging"]
  OBVIOUS
<1>1. /\ m \in Call /\ m.pc = "merging" /\ Same(k, m) /\ m.messages = k.messages
      /\ m.usage = k.usage
  BY <1>m DEF Call, Same
<1>2. CASE WouldAllow
  <2>1. call' = [call EXCEPT ![c] = m]
    BY <1>2, <1>k, <1>m DEF Admit, Goto, TypeOK
  <2>2. OneCall(c, m)
    BY <1>1, <2>1, OneCallIs
  <2> QED
    BY <1>2, <1>k, <1>1, <2>2
<1>3. CASE ~WouldAllow
  <2>1. call' = [call EXCEPT ![c] = Idle]
    BY <1>3 DEF Admit
  <2> QED
    BY <1>3, <2>1, OneCallIs, IdleIs
<1> QED
  BY <1>2, <1>3

LEMMA MergeStep ==
    ASSUME TypeOK, CallInv, NEW c \in Clients, MergeHistory(c)
    PROVE  \E m : /\ OneCall(c, m) /\ m.pc = "generating" /\ Same(call[c], m)
                  /\ m.messages = TrimByTokens(Trim(Merge(call[c].messages)))
                  /\ m.usage = call[c].usage
<1>k. PICK k \in Call : k = call[c]
  BY DEF TypeOK
<1>1. k.messages \in Seq(Message) /\ k.messages # <<>> /\ session \in Seq(Message)
  BY <1>k, CallFields DEF CallInv, MergeHistory, TypeOK
<1>a. PICK a \in Seq(Message) : a = Merge(k.messages)
  BY <1>1, MergeKeeps
<1>b. PICK b \in Seq(Message) : b = Trim(a)
  BY NewestIs, Constants DEF Trim
<1>d. PICK d \in Seq(Message) : d = TrimByTokens(b)
  BY NewestIs, Constants DEF TrimByTokens
<1>m. PICK m : m = [k EXCEPT !.pc = "generating", !.messages = d]
  OBVIOUS
<1>2. /\ m \in Call /\ m.pc = "generating" /\ Same(k, m) /\ m.messages = d
      /\ m.usage = k.usage
  BY <1>m DEF Call, Same
<1>3. call' = [call EXCEPT ![c] = m]
  BY <1>k, <1>a, <1>b, <1>d, <1>m DEF MergeHistory, TypeOK
<1>4. OneCall(c, m)
  BY <1>2, <1>3, OneCallIs
<1> QED
  BY <1>k, <1>a, <1>b, <1>d, <1>2, <1>4

LEMMA GenerationStep ==
    ASSUME TypeOK, NEW c \in Clients, GenerationEnds(c)
    PROVE  \E m, n : /\ n \in 0..MaxUsage
                     /\ OneCall(c, m) /\ m.pc = "persisting" /\ Same(call[c], m)
                     /\ m.messages = call[c].messages
                     /\ call[c].kind = "tools" => m.usage = n /\ RecordUsage(0)
                     /\ call[c].kind # "tools" => m.usage = 0 /\ RecordUsage(n)
<1>k. PICK k \in Call : k = call[c]
  BY DEF TypeOK
<1>n. PICK n \in 0..MaxUsage :
        /\ call' = [call EXCEPT ![c].pc = "persisting",
                                ![c].usage = IF call[c].kind = "tools" THEN n ELSE 0]
        /\ RecordUsage(IF call[c].kind = "tools" THEN 0 ELSE n)
  BY DEF GenerationEnds
<1>u. PICK u : u = IF k.kind = "tools" THEN n ELSE 0
  OBVIOUS
<1>m. PICK m : m = [k EXCEPT !.pc = "persisting", !.usage = u]
  OBVIOUS
<1>1. u \in 0..MaxUsage
  BY <1>u, Constants
<1>2. /\ m \in Call /\ m.pc = "persisting" /\ Same(k, m) /\ m.messages = k.messages
      /\ m.usage = u
  BY <1>m, <1>1 DEF Call, Same
<1>3. call' = [call EXCEPT ![c] = m]
  BY <1>k, <1>n, <1>u, <1>m DEF TypeOK
<1>4. OneCall(c, m)
  BY <1>2, <1>3, OneCallIs
<1>5. CASE k.kind = "tools"
  <2>1. RecordUsage(0) /\ m.usage = n
    BY <1>k, <1>n, <1>u, <1>2, <1>5
  <2> QED
    BY <1>k, <1>2, <1>4, <1>5, <2>1
<1>6. CASE k.kind # "tools"
  <2>1. RecordUsage(n) /\ m.usage = 0
    BY <1>k, <1>n, <1>u, <1>2, <1>6
  <2> QED
    BY <1>k, <1>2, <1>4, <1>6, <2>1
<1> QED
  BY <1>5, <1>6

LEMMA StoreStep ==
    ASSUME TypeOK, NEW c \in Clients, StoreAnswer(c)
    PROVE  \E m : /\ OneCall(c, m) /\ m.pc = "answering" /\ Same(call[c], m) /\ m.usage = 0
<1>k. PICK k \in Call : k = call[c]
  BY DEF TypeOK
<1>z. PICK z \in 0..MaxUsage : z = 0
  BY Constants
<1>m. PICK m : m = [k EXCEPT !.pc = "answering", !.usage = z]
  OBVIOUS
<1>1. m \in Call /\ m.pc = "answering" /\ Same(k, m) /\ m.usage = 0
  BY <1>m, <1>z DEF Call, Same
<1>2. call' = [call EXCEPT ![c] = m]
  BY <1>k, <1>m, <1>z DEF StoreAnswer, TypeOK
<1>3. OneCall(c, m)
  BY <1>1, <1>2, OneCallIs
<1> QED
  BY <1>k, <1>1, <1>3

\* The others learn that they are not alone.
LEMMA PersistStep ==
    ASSUME TypeOK, NEW c \in Clients, Persist(c), NEW d \in Clients
    PROVE  /\ call' \in [Clients -> Call]
           /\ d # c => /\ ~call'[d].alone /\ call'[d].pc = call[d].pc /\ call'[d].kind = call[d].kind
                       /\ call'[d].id = call[d].id /\ call'[d].turn = call[d].turn
                       /\ call'[d].messages = call[d].messages /\ call'[d].usage = call[d].usage
           /\ d = c => \/ call[d].kind \in Streams /\ call'[d] = Idle
                       \/ /\ call[d].kind \notin Streams /\ call'[d].pc = "storing"
                          /\ Same(call[d], call'[d]) /\ call'[d].usage = call[d].usage
<1>1. ASSUME NEW e \in Clients
      PROVE  /\ call'[e] \in Call
             /\ e # c => /\ ~call'[e].alone /\ call'[e].pc = call[e].pc /\ call'[e].kind = call[e].kind
                         /\ call'[e].id = call[e].id /\ call'[e].turn = call[e].turn
                         /\ call'[e].messages = call[e].messages /\ call'[e].usage = call[e].usage
             /\ e = c => \/ call[e].kind \in Streams /\ call'[e] = Idle
                         \/ /\ call[e].kind \notin Streams /\ call'[e].pc = "storing"
                            /\ Same(call[e], call'[e]) /\ call'[e].usage = call[e].usage
  <2>k. PICK k \in Call : k = call[e]
    BY DEF TypeOK
  <2>1. CASE e # c
    <3>m. PICK m : m = [k EXCEPT !.alone = FALSE]
      OBVIOUS
    <3>1. /\ m \in Call /\ ~m.alone /\ m.pc = k.pc /\ m.kind = k.kind /\ m.id = k.id
          /\ m.turn = k.turn /\ m.messages = k.messages /\ m.usage = k.usage
      BY <3>m DEF Call
    <3>2. call'[e] = m
      BY <2>k, <2>1, <3>m DEF Persist
    <3> QED
      BY <2>k, <2>1, <3>1, <3>2
  <2>2. CASE e = c /\ call[e].kind \in Streams
    BY <2>2, IdleIs DEF Persist
  <2>3. CASE e = c /\ call[e].kind \notin Streams
    <3>0. <<>> \in Seq(Message)
      OBVIOUS
    <3>z. PICK z \in Seq(Message) : z = <<>>
      BY <3>0
    <3>m. PICK m : m = [k EXCEPT !.pc = "storing", !.messages = z]
      OBVIOUS
    <3>1. m \in Call /\ m.pc = "storing" /\ Same(k, m) /\ m.usage = k.usage
      BY <3>m DEF Call, Same
    <3>2. call'[e] = m
      BY <2>k, <2>3, <3>m, <3>z DEF Persist
    <3> QED
      BY <2>k, <2>3, <3>1, <3>2
  <2> QED
    BY <2>1, <2>2, <2>3
<1>2. call' = [e \in Clients |-> call'[e]]
  BY DEF Persist
<1> QED
  BY <1>1, <1>2

-----------------------------------------------------------------------------
(* The invariant is inductive.                                             *)

LEMMA QuotaTypes ==
    ASSUME TypeOK
    PROVE  /\ UsedNow \in Nat /\ UsedNow <= usedToday
           /\ StartDay => dayStart' \in 0..now
           /\ \A n \in Nat : RecordUsage(n) =>
                usedToday' \in Nat /\ dayStart' \in 0..now /\ usedToday' <= usedToday + n
<1>0. now \in Nat /\ dayStart \in 0..now /\ usedToday \in Nat
  BY Constants DEF TypeOK
<1>1. UsedNow \in Nat /\ UsedNow <= usedToday
  BY <1>0 DEF UsedNow
<1>2. StartDay => dayStart' \in 0..now
  <2>1. now % Day \in 0..now
    BY <1>0, Constants
  <2>2. now - (now % Day) \in 0..now
    BY <1>0, <2>1
  <2> QED
    BY <1>0, <2>2 DEF StartDay
<1>3. ASSUME NEW n \in Nat, RecordUsage(n)
      PROVE  usedToday' \in Nat /\ dayStart' \in 0..now /\ usedToday' <= usedToday + n
  BY <1>0, <1>1, <1>2, <1>3 DEF RecordUsage, quotaVars
<1> QED
  BY <1>1, <1>2, <1>3

\* What Persist stores.
LEMMA PersistTypes ==
    ASSUME TypeOK, CallInv, NEW c \in Clients, Persist(c)
    PROVE  session' \in Seq(Message) /\ Len(session') <= HistoryMax
<1>k. PICK k \in Call : k = call[c]
  BY DEF TypeOK
<1>q. PICK q \in Seq(Message) : q = k.messages
  BY CallFields
<1>1. k.turn \in 1..MaxTurns
  BY <1>k DEF CallInv, Persist
<1>x. PICK x \in Message : x = Assistant(k.turn)
  BY <1>1, UserIs
<1>a. PICK a \in Seq(Message) : a = Append(q, x)
  <2>1. Append(q, x) \in Seq(Message)
    OBVIOUS
  <2> QED
    BY <2>1
<1>2. Trim(a) \in Seq(Message) /\ Len(Trim(a)) <= HistoryMax
  BY NewestIs, Constants DEF Trim
<1>3. Trim(q) \in Seq(Message) /\ Len(Trim(q)) <= HistoryMax
  BY NewestIs, Constants DEF Trim
<1>4. session' \in {Trim(a), Trim(q), session}
  BY <1>k, <1>q, <1>x, <1>a DEF Persist
<1> QED
  BY <1>2, <1>3, <1>4 DEF TypeOK

\* What a request is at each place, in a step of a client.
Sound(k) ==
    /\ k.pc # "idle" => k.turn \in 1..MaxTurns
    /\ k.pc \in {"received", "merging"} => k.messages # <<>>
    /\ k.pc \in {"storing", "answering"} => k.kind \notin Streams
    /\ k.usage > 0 => k.pc \in {"persisting", "storing"} /\ k.kind = "tools"

LEMMA CallInductive ==
    ASSUME ChatInv, [Next]_vars
    PROVE  call' \in [Clients -> Call] /\ CallInv'
<1>0. TypeOK /\ CallInv
  BY DEF ChatInv
<1>1. call \in [Clients -> Call] /\ \A d \in Clients : Sound(call[d])
  BY <1>0 DEF TypeOK, CallInv, Sound
<1> SUFFICES call' \in [Clients -> Call] /\ \A d \in Clients : Sound(call'[d])
  BY DEF CallInv, Sound
<1>2. ASSUME NEW c \in Clients, NEW m, OneCall(c, m), Sound(m)
      PROVE  call' \in [Clients -> Call] /\ \A d \in Clients : Sound(call'[d])
  BY <1>1, <1>2 DEF OneCall
<1>3. Sound(Idle)
  BY IdleIs DEF Sound
<1>4. ASSUME NEW c \in Clients, Begin(c)
      PROVE  \E m : OneCall(c, m) /\ Sound(m)
  <2>1. PICK m : /\ OneCall(c, m)
                 /\ m.pc = "received" /\ m.turn \in 1..MaxTurns /\ m.usage = 0
                 /\ m.messages # <<>>
    BY <1>0, <1>4, BeginStep
  <2>2. Sound(m)
    BY <2>1 DEF Sound
  <2> QED
    BY <2>1, <2>2
<1>5. ASSUME NEW c \in Clients, Admit(c)
      PROVE  \E m : OneCall(c, m) /\ Sound(m)
  <2>1. CASE WouldAllow
    <3>1. PICK m : /\ OneCall(c, m) /\ m.pc = "merging" /\ Same(call[c], m)
                   /\ m.messages = call[c].messages /\ m.usage = call[c].usage
      BY <1>0, <1>5, <2>1, AdmitStep
    <3>2. Sound(m)
      BY <1>1, <1>5, <3>1 DEF Sound, Same, Admit
    <3> QED
      BY <3>1, <3>2
  <2>2. CASE ~WouldAllow
    BY <1>0, <1>3, <1>5, <2>2, AdmitStep
  <2> QED
    BY <2>1, <2>2
<1>6. ASSUME NEW c \in Clients, MergeHistory(c)
      PROVE  \E m : OneCall(c, m) /\ Sound(m)
  <2>1. PICK m : /\ OneCall(c, m) /\ m.pc = "generating" /\ Same(call[c], m)
                 /\ m.usage = call[c].usage
    BY <1>0, <1>6, MergeStep
  <2>2. Sound(m)
    BY <1>1, <1>6, <2>1 DEF Sound, Same, MergeHistory
  <2> QED
    BY <2>1, <2>2
<1>7. ASSUME NEW c \in Clients, GenerationEnds(c)
      PROVE  \E m : OneCall(c, m) /\ Sound(m)
  <2>1. PICK m : /\ OneCall(c, m) /\ m.pc = "persisting" /\ Same(call[c], m)
                 /\ call[c].kind # "tools" => m.usage = 0
    BY <1>0, <1>7, GenerationStep
  <2>2. Sound(m)
    BY <1>1, <1>7, <2>1 DEF Sound, Same, GenerationEnds
  <2> QED
    BY <2>1, <2>2
<1>8. ASSUME NEW c \in Clients, StoreAnswer(c)
      PROVE  \E m : OneCall(c, m) /\ Sound(m)
  <2>1. PICK m : OneCall(c, m) /\ m.pc = "answering" /\ Same(call[c], m) /\ m.usage = 0
    BY <1>0, <1>8, StoreStep
  <2>2. Sound(m)
    BY <1>1, <1>8, <2>1 DEF Sound, Same, StoreAnswer
  <2> QED
    BY <2>1, <2>2
<1>9. ASSUME NEW c \in Clients, Persist(c)
      PROVE  call' \in [Clients -> Call] /\ \A d \in Clients : Sound(call'[d])
  <2>1. call' \in [Clients -> Call]
    BY <1>0, <1>9, PersistStep
  <2>2. ASSUME NEW d \in Clients, d # c PROVE Sound(call'[d])
    BY <1>0, <1>1, <1>9, <2>2, PersistStep DEF Sound
  <2>3. Sound(call'[c])
    <3>1. CASE call'[c] = Idle
      BY <1>3, <3>1
    <3>2. CASE /\ call[c].kind \notin Streams /\ call'[c].pc = "storing"
               /\ Same(call[c], call'[c]) /\ call'[c].usage = call[c].usage
      BY <1>1, <1>9, <3>2 DEF Sound, Same, Persist
    <3> QED
      BY <1>0, <1>9, <3>1, <3>2, PersistStep
  <2> QED
    BY <2>1, <2>2, <2>3
<1>10. CASE Cleanup \/ Tick \/ UNCHANGED vars
  BY <1>1, <1>10 DEF Cleanup, Tick, vars
<1>11. ASSUME NEW c \in Clients, NotReady(c) \/ GenerationFails(c) \/ Answer(c)
       PROVE  \E m : OneCall(c, m) /\ Sound(m)
  BY <1>0, <1>3, <1>11, LeaveSteps
<1> QED
  BY <1>2, <1>4, <1>5, <1>6, <1>7, <1>8, <1>9, <1>10, <1>11 DEF Next

LEMMA TypeInductive ==
    ASSUME ChatInv, [Next]_vars
    PROVE  TypeOK'
<1>0. TypeOK /\ CallInv
  BY DEF ChatInv
<1>1. call' \in [Clients -> Call]
  BY CallInductive
<1>2. ASSUME NEW c \in Clients,
             NotReady(c) \/ MergeHistory(c) \/ GenerationFails(c)
      PROVE  TypeOK'
  BY <1>0, <1>1, <1>2 DEF NotReady, MergeHistory, GenerationFails, TypeOK, quotaVars
<1>3. ASSUME NEW c \in Clients, Begin(c) PROVE TypeOK'
  <2>1. UNCHANGED <<now, entries, quotaVars, session, delivered>>
    BY <1>3 DEF Begin, Send
  <2>2. turns' \in 0..MaxTurns /\ doubled' \subseteq Ids
    BY <1>0, <1>3, Constants DEF Begin, Send, NextTurns, TypeOK
  <2> QED
    BY <1>0, <1>1, <2>1, <2>2 DEF TypeOK, quotaVars
<1>4. ASSUME NEW c \in Clients, Admit(c) PROVE TypeOK'
  <2>1. UNCHANGED <<now, entries, session, turns, delivered, doubled>>
    BY <1>4 DEF Admit
  <2>2. usedToday' \in Nat /\ dayStart' \in 0..now
    BY <1>0, <1>4, QuotaTypes DEF Admit
  <2> QED
    BY <1>0, <1>1, <2>1, <2>2 DEF TypeOK
<1>5. ASSUME NEW c \in Clients, GenerationEnds(c) PROVE TypeOK'
  <2>1. UNCHANGED <<now, entries, session, turns, delivered, doubled>>
    BY <1>5 DEF GenerationEnds
  <2>2. PICK n \in Nat : RecordUsage(n)
    BY <1>0, <1>5, GenerationStep, Constants
  <2>3. usedToday' \in Nat /\ dayStart' \in 0..now
    BY <1>0, <2>2, QuotaTypes
  <2> QED
    BY <1>0, <1>1, <2>1, <2>3 DEF TypeOK
<1>6. ASSUME NEW c \in Clients, Persist(c) PROVE TypeOK'
  <2>1. UNCHANGED <<now, entries, quotaVars, turns, delivered, doubled>>
    BY <1>6 DEF Persist
  <2>2. session' \in Seq(Message) /\ Len(session') <= HistoryMax
    BY <1>0, <1>6, PersistTypes
  <2> QED
    BY <1>0, <1>1, <2>1, <2>2 DEF TypeOK, quotaVars
<1>7. ASSUME NEW c \in Clients, StoreAnswer(c) PROVE TypeOK'
  <2>1. UNCHANGED <<now, session, turns, delivered, doubled>>
    BY <1>7 DEF StoreAnswer
  <2>2. call[c].usage \in Nat /\ now \in Nat
    BY <1>0, CallFields, Constants DEF TypeOK
  <2>3. usedToday' \in Nat /\ dayStart' \in 0..now
    BY <1>0, <1>7, <2>2, QuotaTypes DEF StoreAnswer
  <2>e. PICK e : e = [by |-> c, expires |-> now + Ttl]
    OBVIOUS
  <2>4. e \in Entry
    BY <2>2, <2>e, Constants DEF Entry
  <2>5. entries' \in [Ids -> Entry \cup {None}]
    BY <1>0, <1>7, <2>e, <2>4 DEF StoreAnswer, Put, TypeOK
  <2> QED
    BY <1>0, <1>1, <2>1, <2>3, <2>5 DEF TypeOK
<1>8. ASSUME NEW c \in Clients, Answer(c) PROVE TypeOK'
  <2>1. UNCHANGED <<now, entries, quotaVars, session, turns, doubled>>
    BY <1>8 DEF Answer
  <2>2. delivered' \in [Ids -> Entry \cup {None}]
    <3>1. call[c].id \in Ids \cup {None}
      BY <1>0, CallFields DEF TypeOK
    <3> QED
      BY <1>0, <1>8, <3>1 DEF Answer, TypeOK
  <2> QED
    BY <1>0, <1>1, <2>1, <2>2 DEF TypeOK, quotaVars
<1>9. CASE Cleanup
  <2>1. entries' \in [Ids -> Entry \cup {None}]
    BY <1>0, <1>9 DEF Cleanup, TypeOK
  <2> QED
    BY <1>0, <1>1, <1>9, <2>1 DEF Cleanup, TypeOK, quotaVars
<1>10. CASE Tick
  <2>1. now' \in 0..MaxNow /\ dayStart' \in 0..now'
    BY <1>0, <1>10, Constants DEF Tick, TypeOK, quotaVars
  <2> QED
    BY <1>0, <1>1, <1>10, <2>1 DEF Tick, TypeOK, quotaVars
<1>11. CASE UNCHANGED vars
  BY <1>0, <1>11 DEF vars, quotaVars, TypeOK
<1> QED
  BY <1>2, <1>3, <1>4, <1>5, <1>6, <1>7, <1>8, <1>9, <1>10, <1>11 DEF Next

\* Only Begin opens a request.
LEMMA OnlyBeginOpens ==
    ASSUME ChatInv, [Next]_vars, NEW d \in Clients, NEW k, ~Begin(d),
           call'[d].pc # "idle", call'[d].id = k, call'[d].kind \notin Streams
    PROVE  Open(d, k)
<1>0. TypeOK /\ CallInv
  BY DEF ChatInv
<1>1. CASE call'[d] = call[d]
  BY <1>1 DEF Open
<1>2. CASE call[d].pc # "idle" /\ Same(call[d], call'[d])
  BY <1>2 DEF Open, Same
<1>3. ASSUME NEW c \in Clients, Begin(c) PROVE Open(d, k)
  BY <1>0, <1>1, <1>3, BeginStep DEF OneCall
<1>4. ASSUME NEW c \in Clients, NotReady(c) \/ GenerationFails(c) \/ Answer(c) PROVE Open(d, k)
  BY <1>0, <1>1, <1>4, LeaveSteps, IdleIs DEF OneCall
<1>5. ASSUME NEW c \in Clients, Admit(c) PROVE Open(d, k)
  <2>1. CASE WouldAllow
    BY <1>0, <1>1, <1>2, <1>5, <2>1, AdmitStep DEF OneCall, Admit
  <2>2. CASE ~WouldAllow
    BY <1>0, <1>1, <1>5, <2>2, AdmitStep, IdleIs DEF OneCall
  <2> QED
    BY <2>1, <2>2
<1>6. ASSUME NEW c \in Clients, MergeHistory(c) PROVE Open(d, k)
  BY <1>0, <1>1, <1>2, <1>6, MergeStep DEF OneCall, MergeHistory
<1>7. ASSUME NEW c \in Clients, GenerationEnds(c) PROVE Open(d, k)
  BY <1>0, <1>1, <1>2, <1>7, GenerationStep DEF OneCall, GenerationEnds
<1>8. ASSUME NEW c \in Clients, StoreAnswer(c) PROVE Open(d, k)
  BY <1>0, <1>1, <1>2, <1>8, StoreStep DEF OneCall, StoreAnswer
<1>9. ASSUME NEW c \in Clients, Persist(c) PROVE Open(d, k)
  <2>1. CASE d = c
    BY <1>0, <1>2, <1>9, <2>1, PersistStep, IdleIs DEF Persist
  <2>2. CASE d # c
    BY <1>0, <1>9, <2>2, PersistStep DEF Open
  <2> QED
    BY <2>1, <2>2
<1>10. CASE Cleanup \/ Tick \/ UNCHANGED vars
  BY <1>1, <1>10 DEF Cleanup, Tick, vars
<1> QED
  BY <1>3, <1>4, <1>5, <1>6, <1>7, <1>8, <1>9, <1>10 DEF Next

\* RetryInv of one id, by what it is about.
OpenIn(r, k) == r.pc # "idle" /\ r.id = k /\ r.kind \notin Streams

Retries(k, calls, e, told, time, twice) ==
    /\ e # None => e.expires <= time + Ttl
    /\ (told # None /\ time <= told.expires) =>
         /\ e # None /\ told.expires <= e.expires
         /\ twice \/ e = told
    /\ ~twice => \A c \in Clients : OpenIn(calls[c], k) =>
         /\ \A d \in Clients : OpenIn(calls[d], k) => d = c
         /\ told = None \/ told.expires < time

LEMMA RetryInductive ==
    ASSUME ChatInv, [Next]_vars
    PROVE  RetryInv'
<1>0. TypeOK /\ CallInv
  BY DEF ChatInv
<1> SUFFICES ASSUME NEW k \in Ids
             PROVE  Retries(k, call', entries'[k], delivered'[k], now', k \in doubled')
  BY DEF RetryInv, Retries, Open, OpenIn
<1>1. Retries(k, call, entries[k], delivered[k], now, k \in doubled)
  BY DEF ChatInv, RetryInv, Retries, Open, OpenIn
<1>2. now \in Nat /\ Ttl \in Nat
  BY <1>0, Constants DEF TypeOK
<1>3. /\ entries[k] # None => entries[k].expires \in Nat
      /\ delivered[k] # None => delivered[k].expires \in Nat
  BY <1>0 DEF TypeOK, Entry
<1>4. (\A c \in Clients : ~Begin(c)) =>
        \A c \in Clients : OpenIn(call'[c], k) => OpenIn(call[c], k)
  BY OnlyBeginOpens DEF OpenIn, Open
<1>5. CASE /\ \A c \in Clients : ~Begin(c)
           /\ UNCHANGED <<now, entries, delivered, doubled>>
  BY <1>1, <1>4, <1>5 DEF Retries
<1>6. ASSUME NEW c \in Clients, Begin(c)
      PROVE  Retries(k, call', entries'[k], delivered'[k], now', k \in doubled')
  <2>0. UNCHANGED <<now, entries, delivered>> /\ call[c].pc = "idle"
    BY <1>6 DEF Begin, Send
  <2>1. PICK m : /\ OneCall(c, m)
                 /\ m.kind \notin Streams => ~Hit(m.id)
                 /\ doubled' = doubled \cup {j \in Ids : /\ j = m.id /\ m.kind \notin Streams
                                                         /\ \E d \in Clients : Open(d, m.id)}
    BY <1>0, <1>6, BeginStep
  <2>2. \A d \in Clients \ {c} : call'[d] = call[d]
    BY <2>1 DEF OneCall
  <2>3. call'[c] = m
    BY <2>1 DEF OneCall
  <2>4. CASE OpenIn(m, k)
    <3>1. ~Hit(k) /\ m.id = k
      BY <2>1, <2>4 DEF OpenIn
    <3>2. delivered[k] = None \/ delivered[k].expires < now
      <4>1. ASSUME delivered[k] # None, now <= delivered[k].expires PROVE FALSE
        <5>1. entries[k] # None /\ delivered[k].expires <= entries[k].expires
          BY <1>1, <4>1 DEF Retries
        <5>2. now <= entries[k].expires /\ k # None
          BY <1>2, <1>3, <4>1, <5>1, Constants
        <5> QED
          BY <3>1, <5>1, <5>2 DEF Hit
      <4> QED
        BY <1>2, <1>3, <4>1
    <3>3. k \notin doubled' => k \notin doubled /\ \A d \in Clients : ~OpenIn(call[d], k)
      BY <2>1, <2>4, <3>1 DEF Open, OpenIn
    <3>4. k \in doubled => k \in doubled'
      BY <2>1
    <3>5. k \notin doubled' => \A d \in Clients : OpenIn(call'[d], k) => d = c
      BY <2>2, <3>3
    <3> QED
      BY <1>1, <2>0, <3>2, <3>4, <3>5 DEF Retries
  <2>5. CASE ~OpenIn(m, k)
    <3>1. \A d \in Clients : OpenIn(call'[d], k) => OpenIn(call[d], k)
      BY <2>2, <2>3, <2>5
    <3>2. k \in doubled => k \in doubled'
      BY <2>1
    <3> QED
      BY <1>1, <2>0, <3>1, <3>2 DEF Retries
  <2> QED
    BY <2>4, <2>5
<1>7. ASSUME NEW c \in Clients, StoreAnswer(c)
      PROVE  Retries(k, call', entries'[k], delivered'[k], now', k \in doubled')
  <2>0. UNCHANGED <<now, delivered, doubled>>
    BY <1>7 DEF StoreAnswer
  <2>1. \A d \in Clients : OpenIn(call'[d], k) => OpenIn(call[d], k)
    <3>1. \A d \in Clients : ~Begin(d)
      <4>1. PICK m : OneCall(c, m) /\ m.pc = "answering"
        BY <1>0, <1>7, StoreStep
      <4>2. ASSUME NEW d \in Clients, Begin(d) PROVE FALSE
        <5>1. PICK j : OneCall(d, j) /\ j.pc = "received"
          BY <1>0, <4>2, BeginStep
        <5>2. call[d].pc = "idle" /\ call[c].pc = "storing"
          BY <1>7, <4>2 DEF StoreAnswer, Begin, Send
        <5> QED
          BY <4>1, <5>1, <5>2 DEF OneCall
      <4> QED
        BY <4>2
    <3> QED
      BY <1>4, <3>1
  <2>2. CASE call[c].id = k
    <3>e. PICK e : e = [by |-> c, expires |-> now + Ttl]
      OBVIOUS
    <3>1. entries'[k] = e
      BY <1>0, <1>7, <2>2, <3>e, Constants DEF StoreAnswer, Put, TypeOK
    <3>2. e \in Entry /\ e.expires = now + Ttl /\ e # None
      BY <1>2, <3>e, Constants DEF Entry
    <3>3. OpenIn(call[c], k)
      BY <1>0, <1>7, <2>2 DEF CallInv, StoreAnswer, OpenIn
    <3>4. delivered[k] # None /\ now <= delivered[k].expires =>
            k \in doubled /\ delivered[k].expires <= now + Ttl
      <4>1. ASSUME delivered[k] # None, now <= delivered[k].expires
            PROVE  k \in doubled /\ delivered[k].expires <= now + Ttl
        <5>1. entries[k] # None /\ delivered[k].expires <= entries[k].expires
          BY <1>1, <4>1 DEF Retries
        <5>2. entries[k].expires <= now + Ttl
          BY <1>1, <5>1 DEF Retries
        <5>3. k \notin doubled => delivered[k].expires < now
          BY <1>1, <3>3, <4>1 DEF Retries
        <5> QED
          BY <1>2, <1>3, <4>1, <5>1, <5>2, <5>3
      <4> QED
        BY <4>1
    <3> QED
      BY <1>1, <1>2, <2>0, <2>1, <3>1, <3>2, <3>4 DEF Retries
  <2>3. CASE call[c].id # k
    <3>1. entries'[k] = entries[k]
      BY <1>0, <1>7, <2>3 DEF StoreAnswer, Put, TypeOK
    <3> QED
      BY <1>1, <2>0, <2>1, <3>1 DEF Retries
  <2> QED
    BY <2>2, <2>3
<1>8. ASSUME NEW c \in Clients, Answer(c)
      PROVE  Retries(k, call', entries'[k], delivered'[k], now', k \in doubled')
  <2>0. UNCHANGED <<now, entries, doubled>>
    BY <1>8 DEF Answer
  <2>1. OneCall(c, Idle)
    BY <1>0, <1>8, LeaveSteps
  <2>2. \A d \in Clients : OpenIn(call'[d], k) => OpenIn(call[d], k) /\ d # c
    BY <2>1, IdleIs DEF OneCall, OpenIn
  <2>3. CASE call[c].id = k
    <3>1. delivered'[k] = entries[k]
      BY <1>0, <1>8, <2>3, Constants DEF Answer, TypeOK
    <3>2. OpenIn(call[c], k)
      BY <1>0, <1>8, <2>3 DEF CallInv, Answer, OpenIn
    <3>3. k \notin doubled => \A d \in Clients : ~OpenIn(call'[d], k)
      BY <1>1, <2>2, <3>2 DEF Retries
    <3> QED
      BY <1>1, <1>3, <2>0, <3>1, <3>3 DEF Retries
  <2>4. CASE call[c].id # k
    <3>1. delivered'[k] = delivered[k]
      BY <1>0, <1>8, <2>4 DEF Answer, TypeOK
    <3> QED
      BY <1>1, <2>0, <2>2, <3>1 DEF Retries
  <2> QED
    BY <2>3, <2>4
<1>9. CASE Cleanup
  <2>0. UNCHANGED <<now, call, delivered, doubled>>
    BY <1>9 DEF Cleanup
  <2>1. entries'[k] = IF Hit(k) THEN entries[k] ELSE None
    BY <1>9 DEF Cleanup
  <2>2. CASE Hit(k)
    BY <1>1, <2>0, <2>1, <2>2 DEF Retries
  <2>3. CASE ~Hit(k)
    <3>1. ASSUME delivered[k] # None, now <= delivered[k].expires PROVE FALSE
      <4>1. entries[k] # None /\ delivered[k].expires <= entries[k].expires
        BY <1>1, <3>1 DEF Retries
      <4>2. now <= entries[k].expires /\ k # None
        BY <1>2, <1>3, <3>1, <4>1, Constants
      <4> QED
        BY <2>3, <4>1, <4>2 DEF Hit
    <3> QED
      BY <1>1, <2>0, <2>1, <2>3, <3>1 DEF Retries
  <2> QED
    BY <2>2, <2>3
<1>10. CASE Tick
  <2>0. UNCHANGED <<entries, call, delivered, doubled>> /\ now' = now + 1
    BY <1>10 DEF Tick
  <2>1. entries[k] # None => entries[k].expires <= now' + Ttl
    BY <1>1, <1>2, <1>3, <2>0 DEF Retries
  <2>2. delivered[k] # None => (now' <= delivered[k].expires => now <= delivered[k].expires)
                             /\ (delivered[k].expires < now => delivered[k].expires < now')
    BY <1>2, <1>3, <2>0
  <2> QED
    BY <1>1, <2>0, <2>1, <2>2 DEF Retries
<1>11. ASSUME NEW c \in Clients,
              NotReady(c) \/ GenerationFails(c) \/ Admit(c) \/ MergeHistory(c)
                \/ GenerationEnds(c) \/ Persist(c)
       PROVE  UNCHANGED <<now, entries, delivered, doubled>>
  BY <1>11 DEF NotReady, GenerationFails, Admit, MergeHistory, GenerationEnds, Persist
<1> QED
  BY <1>5, <1>6, <1>7, <1>8, <1>9, <1>10, <1>11 DEF Next, vars

\* A request that was admitted and has not recorded its usage.
InFlight(r) ==
    \/ r.pc \in {"merging", "generating"}
    \/ r.pc \in {"persisting", "storing"} /\ r.kind = "tools"

LEMMA TimesMonotone ==
    ASSUME NEW a \in Nat, NEW b \in Nat, NEW m \in Nat, a <= b
    PROVE  a * m \in Nat /\ b * m \in Nat /\ a * m <= b * m
<1>1. PICK d \in Nat : b = a + d
  <2>1. b - a \in Nat /\ b = a + (b - a)
    OBVIOUS
  <2> QED
    BY <2>1
<1>2. (a + d) * m = a * m + d * m /\ a * m \in Nat /\ d * m \in Nat
  OBVIOUS
<1> QED
  BY <1>1, <1>2

\* The sums of QuotaInductive, with the products as numbers.
LEMMA Sums ==
    ASSUME NEW old \in Nat, NEW new \in Nat, NEW p \in Nat, NEW q \in Nat, NEW all \in Nat,
           NEW limit \in Nat, NEW more \in Nat
    PROVE  /\ (new <= old /\ q <= p /\ old + p <= limit + all) => new + q <= limit + all
           /\ (new <= old + more /\ q + more <= p /\ old + p <= limit + all) => new + q <= limit + all
           /\ (new <= limit /\ q <= all) => new + q <= limit + all
OBVIOUS

LEMMA QuotaInductive ==
    ASSUME ChatInv, [Next]_vars
    PROVE  QuotaOvershoot'
<1>0. TypeOK /\ CallInv /\ QuotaOvershoot
  BY DEF ChatInv
<1>n. PICK n \in Nat : n = Cardinality(Clients)
  BY Constants, FS_CardinalityType
<1>u. PICK u \in Nat : u = Cardinality(Unrecorded) /\ IsFiniteSet(Unrecorded)
  <2>1. Unrecorded \in SUBSET Clients
    BY DEF Unrecorded
  <2> QED
    BY <2>1, Constants, FS_Subset, FS_CardinalityType
<1>v. PICK v \in Nat : v = Cardinality(Unrecorded') /\ v <= n
  <2>1. Unrecorded' \in SUBSET Clients
    BY DEF Unrecorded
  <2> QED
    BY <1>n, <2>1, Constants, FS_Subset, FS_CardinalityType
<1>1. usedToday + u * MaxUsage <= MaxPerDay - Estimate + n * MaxUsage
  BY <1>0, <1>n, <1>u DEF QuotaOvershoot
<1>2. /\ usedToday \in Nat /\ MaxUsage \in Nat /\ MaxPerDay \in Nat /\ Estimate \in Nat
      /\ MaxPerDay >= Estimate
  BY <1>0, Constants DEF TypeOK
<1>t. usedToday' \in Nat
  BY TypeInductive DEF TypeOK
<1>z. PICK limit \in Nat : limit = MaxPerDay - Estimate
  BY <1>2
<1> SUFFICES usedToday' + v * MaxUsage <= MaxPerDay - Estimate + n * MaxUsage
  BY <1>n, <1>v DEF QuotaOvershoot
<1>3. /\ \A d \in Clients : d \in Unrecorded <=> InFlight(call[d])
      /\ \A d \in Clients : d \in Unrecorded' <=> InFlight(call'[d])
  BY DEF Unrecorded, InFlight
<1>4. /\ Unrecorded \subseteq Clients /\ Unrecorded' \subseteq Clients
  BY DEF Unrecorded
<1>5. CASE usedToday' <= usedToday /\ \A d \in Clients : InFlight(call'[d]) => InFlight(call[d])
  <2>1. Unrecorded' \in SUBSET Unrecorded
    BY <1>3, <1>4, <1>5
  <2>2. v <= u
    BY <1>u, <1>v, <2>1, FS_Subset
  <2>3. v * MaxUsage <= u * MaxUsage /\ v * MaxUsage \in Nat /\ u * MaxUsage \in Nat
    BY <1>2, <2>2, TimesMonotone
  <2>4. n * MaxUsage \in Nat
    BY <1>2, TimesMonotone
  <2> QED
    BY <1>1, <1>2, <1>5, <1>t, <1>z, <2>3, <2>4, Sums
<1>6. ASSUME NEW c \in Clients, InFlight(call[c]), ~InFlight(call'[c]),
             \A d \in Clients : InFlight(call'[d]) => InFlight(call[d]),
             usedToday' <= usedToday + MaxUsage
      PROVE  usedToday' + v * MaxUsage <= MaxPerDay - Estimate + n * MaxUsage
  <2>1. Unrecorded' \in SUBSET (Unrecorded \ {c}) /\ c \in Unrecorded
    BY <1>3, <1>4, <1>6
  <2>2. IsFiniteSet(Unrecorded \ {c}) /\ Cardinality(Unrecorded \ {c}) = u - 1
    BY <1>u, <2>1, FS_RemoveElement
  <2>3. v + 1 <= u
    BY <1>u, <1>v, <2>1, <2>2, FS_Subset
  <2>4. (v + 1) * MaxUsage <= u * MaxUsage /\ u * MaxUsage \in Nat
    <3>1. v + 1 \in Nat
      OBVIOUS
    <3> QED
      BY <1>2, <2>3, <3>1, TimesMonotone
  <2>5. (v + 1) * MaxUsage = v * MaxUsage + MaxUsage /\ v * MaxUsage \in Nat /\ n * MaxUsage \in Nat
    BY <1>2, TimesMonotone
  <2>6. v * MaxUsage + MaxUsage <= u * MaxUsage
    BY <2>4, <2>5
  <2> QED
    BY <1>1, <1>2, <1>6, <1>t, <1>z, <2>4, <2>5, <2>6, Sums
<1>7. ASSUME NEW c \in Clients, Admit(c)
      PROVE  usedToday' + v * MaxUsage <= MaxPerDay - Estimate + n * MaxUsage
  <2>1. CASE WouldAllow
    <3>1. usedToday' + Estimate <= MaxPerDay
      BY <1>7, <2>1 DEF Admit, WouldAllow
    <3>2. v * MaxUsage <= n * MaxUsage /\ v * MaxUsage \in Nat /\ n * MaxUsage \in Nat
      BY <1>2, <1>v, TimesMonotone
    <3>3. usedToday' <= limit
      <4>1. PICK w \in Nat : w = usedToday'
        BY <1>t
      <4>2. w + Estimate <= MaxPerDay
        BY <3>1, <4>1
      <4>3. w <= limit
        BY <1>2, <1>z, <4>2
      <4> QED
        BY <4>1, <4>3
    <3> QED
      BY <1>t, <1>z, <3>2, <3>3, Sums
  <2>2. CASE ~WouldAllow
    <3>1. OneCall(c, Idle)
      BY <1>0, <1>7, <2>2, AdmitStep
    <3>2. \A d \in Clients : InFlight(call'[d]) => InFlight(call[d])
      BY <3>1, IdleIs DEF OneCall, InFlight
    <3>3. usedToday' <= usedToday
      BY <1>0, <1>7, QuotaTypes DEF Admit
    <3> QED
      BY <1>5, <3>2, <3>3
  <2> QED
    BY <2>1, <2>2
<1>8. ASSUME NEW c \in Clients, GenerationEnds(c)
      PROVE  usedToday' + v * MaxUsage <= MaxPerDay - Estimate + n * MaxUsage
  <2>1. PICK m, g : /\ g \in 0..MaxUsage
                    /\ OneCall(c, m) /\ m.pc = "persisting" /\ Same(call[c], m)
                    /\ call[c].kind = "tools" => RecordUsage(0)
                    /\ call[c].kind # "tools" => RecordUsage(g)
    BY <1>0, <1>8, GenerationStep
  <2>2. InFlight(call[c]) /\ \A d \in Clients : InFlight(call'[d]) => InFlight(call[d])
    BY <1>8, <2>1 DEF GenerationEnds, InFlight, OneCall
  <2>3. CASE call[c].kind = "tools"
    <3>1. usedToday' = usedToday
      BY <2>1, <2>3 DEF RecordUsage, quotaVars
    <3> QED
      BY <1>2, <1>5, <2>2, <3>1
  <2>4. CASE call[c].kind # "tools"
    <3>1. ~InFlight(call'[c])
      BY <2>1, <2>4 DEF InFlight, OneCall, Same
    <3>g. g \in Nat /\ g <= MaxUsage
      BY <1>2, <2>1
    <3>2. usedToday' <= usedToday + g
      BY <1>0, <2>1, <2>4, <3>g, QuotaTypes
    <3>3. usedToday' <= usedToday + MaxUsage
      BY <1>2, <1>t, <3>g, <3>2
    <3> QED
      BY <1>6, <2>2, <3>1, <3>3
  <2> QED
    BY <2>3, <2>4
<1>9. ASSUME NEW c \in Clients, StoreAnswer(c)
      PROVE  usedToday' + v * MaxUsage <= MaxPerDay - Estimate + n * MaxUsage
  <2>1. PICK m : OneCall(c, m) /\ m.pc = "answering"
    BY <1>0, <1>9, StoreStep
  <2>2. ~InFlight(call'[c]) /\ \A d \in Clients : InFlight(call'[d]) => InFlight(call[d])
    BY <2>1 DEF InFlight, OneCall
  <2>3. call[c].usage \in Nat /\ call[c].usage <= MaxUsage
    BY <1>0, <1>2, CallFields DEF TypeOK
  <2>4. usedToday' <= usedToday + call[c].usage
    BY <1>0, <1>9, <2>3, QuotaTypes DEF StoreAnswer
  <2>5. CASE call[c].kind = "tools"
    <3>1. InFlight(call[c])
      BY <1>9, <2>5 DEF StoreAnswer, InFlight
    <3>2. usedToday' <= usedToday + MaxUsage
      BY <1>2, <1>t, <2>3, <2>4
    <3> QED
      BY <1>6, <2>2, <3>1, <3>2
  <2>6. CASE call[c].kind # "tools"
    <3>1. call[c].usage = 0
      BY <1>0, <2>3, <2>6 DEF CallInv
    <3>2. usedToday' <= usedToday
      BY <1>2, <1>t, <2>4, <3>1
    <3> QED
      BY <1>5, <2>2, <3>2
  <2> QED
    BY <2>5, <2>6
<1>10. ASSUME NEW c \in Clients, Persist(c)
       PROVE  usedToday' <= usedToday /\ \A d \in Clients : InFlight(call'[d]) => InFlight(call[d])
  <2>1. usedToday' = usedToday
    BY <1>10 DEF Persist, quotaVars
  <2>2. ASSUME NEW d \in Clients PROVE InFlight(call'[d]) => InFlight(call[d])
    <3>1. CASE d # c
      BY <1>0, <1>10, <3>1, PersistStep DEF InFlight
    <3>2. CASE d = c
      BY <1>0, <1>10, <3>2, PersistStep, IdleIs DEF InFlight, Same, Persist
    <3> QED
      BY <3>1, <3>2
  <2> QED
    BY <1>2, <2>1, <2>2
<1>11. ASSUME NEW c \in Clients,
              Begin(c) \/ NotReady(c) \/ MergeHistory(c) \/ GenerationFails(c) \/ Answer(c)
       PROVE  usedToday' <= usedToday /\ \A d \in Clients : InFlight(call'[d]) => InFlight(call[d])
  <2>1. usedToday' = usedToday
    BY <1>11 DEF Begin, Send, NotReady, MergeHistory, GenerationFails, Answer, quotaVars
  <2>2. PICK m : OneCall(c, m) /\ (InFlight(m) => InFlight(call[c]))
    <3>1. CASE Begin(c)
      BY <1>0, <3>1, BeginStep DEF InFlight
    <3>2. CASE MergeHistory(c)
      BY <1>0, <3>2, MergeStep DEF InFlight, MergeHistory
    <3>3. CASE NotReady(c) \/ GenerationFails(c) \/ Answer(c)
      BY <1>0, <3>3, LeaveSteps, IdleIs DEF InFlight
    <3> QED
      BY <1>11, <3>1, <3>2, <3>3
  <2> QED
    BY <1>2, <2>1, <2>2 DEF OneCall
<1>12. CASE Cleanup \/ Tick \/ UNCHANGED vars
  <2>1. UNCHANGED <<usedToday, call>>
    BY <1>12 DEF Cleanup, Tick, vars, quotaVars
  <2> QED
    BY <1>2, <1>5, <2>1
<1> QED
  BY <1>5, <1>7, <1>8, <1>9, <1>10, <1>11, <1>12 DEF Next

\* What a request makes of the stored history s.
Keeps(r, s) ==
    r.alone =>
      /\ r.pc \in {"received", "merging"} => Len(r.messages) = 1 \/ Follows(s, 0, r.messages)
      /\ (r.pc \in {"generating", "persisting"} /\ Len(s) > 1) => KeptIn(s, r.messages)

LEMMA HistoryInductive ==
    ASSUME ChatInv, [Next]_vars
    PROVE  HistoryInv'
<1>0. TypeOK /\ CallInv
  BY DEF ChatInv
<1>1. \A d \in Clients : Keeps(call[d], session)
  BY DEF ChatInv, HistoryInv, Keeps
<1> SUFFICES \A d \in Clients : Keeps(call'[d], session')
  BY DEF HistoryInv, Keeps, KeptIn, Follows
<1>2. ASSUME NEW c \in Clients, NEW m, OneCall(c, m), Keeps(m, session), session' = session
      PROVE  \A d \in Clients : Keeps(call'[d], session')
  BY <1>1, <1>2 DEF OneCall
<1>3. Keeps(Idle, session)
  BY IdleIs DEF Keeps
<1>4. ASSUME NEW c \in Clients, ~Persist(c),
             \/ Begin(c) \/ NotReady(c) \/ Admit(c) \/ MergeHistory(c)
             \/ GenerationFails(c) \/ GenerationEnds(c) \/ StoreAnswer(c) \/ Answer(c)
      PROVE  session' = session /\ \E m : OneCall(c, m) /\ Keeps(m, session)
  <2>0. session' = session
    BY <1>4 DEF Begin, Send, NotReady, Admit, MergeHistory, GenerationFails, GenerationEnds,
                StoreAnswer, Answer
  <2>1. CASE Begin(c)
    <3>1. PICK m : /\ OneCall(c, m) /\ m.pc = "received"
                   /\ Len(m.messages) = 1 \/ Follows(session, 0, m.messages)
      BY <1>0, <2>1, BeginStep
    <3> QED
      BY <2>0, <3>1 DEF Keeps
  <2>2. CASE NotReady(c) \/ GenerationFails(c) \/ Answer(c)
    BY <1>0, <1>3, <2>0, <2>2, LeaveSteps
  <2>3. CASE Admit(c)
    <3>1. CASE WouldAllow
      <4>1. PICK m : /\ OneCall(c, m) /\ m.pc = "merging" /\ Same(call[c], m)
                     /\ m.messages = call[c].messages
        BY <1>0, <2>3, <3>1, AdmitStep
      <4>2. call[c].pc = "received"
        BY <2>3 DEF Admit
      <4> QED
        BY <1>1, <2>0, <4>1, <4>2 DEF Keeps, Same
    <3>2. CASE ~WouldAllow
      BY <1>0, <1>3, <2>0, <2>3, <3>2, AdmitStep
    <3> QED
      BY <3>1, <3>2
  <2>4. CASE MergeHistory(c)
    <3>1. PICK m : /\ OneCall(c, m) /\ m.pc = "generating" /\ Same(call[c], m)
                   /\ m.messages = TrimByTokens(Trim(Merge(call[c].messages)))
      BY <1>0, <2>4, MergeStep
    <3>2. call[c].pc = "merging" /\ call[c] \in Call
      BY <1>0, <2>4 DEF MergeHistory, TypeOK
    <3>s. session \in Seq(Message)
      BY <1>0 DEF TypeOK
    <3>q. PICK q \in Seq(Message) : q = call[c].messages /\ q # <<>>
      BY <1>0, <3>2, CallFields DEF CallInv
    <3>a. PICK a \in Seq(Message) : a = Merge(q)
      BY <3>s, <3>q, MergeKeeps
    <3>b. PICK b \in Seq(Message) : b = Newest(a, HistoryMax)
      BY NewestIs, Constants
    <3>d. PICK d : d = Newest(b, Budget)
      OBVIOUS
    <3>3. m.messages = d
      BY <3>1, <3>q, <3>a, <3>b, <3>d DEF Trim, TrimByTokens
    <3>4. ASSUME call[c].alone, Len(session) > 1 PROVE KeptIn(session, d)
      <4>1. Len(q) = 1 \/ Follows(session, 0, q)
        BY <1>1, <3>2, <3>q, <3>4 DEF Keeps
      <4>2. KeptIn(session, a)
        BY <3>4, <3>s, <3>q, <3>a, <4>1, MergeKeeps
      <4>3. KeptIn(session, b)
        BY <3>s, <3>b, <4>2, CutKeeps
      <4> QED
        BY <3>s, <3>d, <4>3, CutKeeps
    <3>5. Keeps(m, session)
      BY <3>1, <3>3, <3>4 DEF Keeps, Same
    <3> QED
      BY <2>0, <3>1, <3>5
  <2>5. CASE GenerationEnds(c)
    <3>1. PICK m : /\ OneCall(c, m) /\ m.pc = "persisting" /\ Same(call[c], m)
                   /\ m.messages = call[c].messages
      BY <1>0, <2>5, GenerationStep
    <3>2. call[c].pc = "generating"
      BY <2>5 DEF GenerationEnds
    <3> QED
      BY <1>1, <2>0, <3>1, <3>2 DEF Keeps, Same
  <2>6. CASE StoreAnswer(c)
    <3>1. PICK m : OneCall(c, m) /\ m.pc = "answering"
      BY <1>0, <2>6, StoreStep
    <3> QED
      BY <2>0, <3>1 DEF Keeps
  <2> QED
    BY <1>4, <2>1, <2>2, <2>3, <2>4, <2>5, <2>6
<1>5. ASSUME NEW c \in Clients, Persist(c) PROVE \A d \in Clients : Keeps(call'[d], session')
  BY <1>0, <1>5, PersistStep, IdleIs DEF Keeps
<1>6. CASE Cleanup \/ Tick \/ UNCHANGED vars
  BY <1>1, <1>6 DEF Cleanup, Tick, vars
<1> QED
  BY <1>2, <1>4, <1>5, <1>6 DEF Next

LEMMA ChatInvariant == Spec => []ChatInv
<1>1. Init => ChatInv
  <2> SUFFICES ASSUME Init PROVE ChatInv
    OBVIOUS
  <2>0. Unrecorded = {} /\ \A c \in Clients : call[c] = Idle
    BY IdleIs DEF Init, Unrecorded
  <2>1. TypeOK
    BY IdleIs, Constants DEF Init, TypeOK
  <2>2. CallInv /\ RetryInv /\ HistoryInv
    BY <2>0, IdleIs DEF Init, CallInv, RetryInv, HistoryInv, Open
  <2>3. QuotaOvershoot
    <3>1. Cardinality(Unrecorded) = 0 /\ usedToday = 0
      BY <2>0, FS_EmptySet DEF Init
    <3>2. Cardinality(Clients) * MaxUsage \in Nat
      BY Constants, FS_CardinalityType, TimesMonotone
    <3> QED
      BY <3>1, <3>2, Constants DEF QuotaOvershoot
  <2> QED
    BY <2>1, <2>2, <2>3 DEF ChatInv
<1>2. ChatInv /\ [Next]_vars => ChatInv'
  BY TypeInductive, CallInductive, RetryInductive, QuotaInductive, HistoryInductive DEF ChatInv
<1> QED
  BY <1>1, <1>2, PTL DEF Spec

\* What a day may charge above the limit of the quota when requests are checked with an
\* estimate before they generate and charged after (quota.go:26-57, chat.go:71-77, 151-154).
THEOREM OvershootIsBounded == Spec => []QuotaOvershoot
<1>1. ChatInv => QuotaOvershoot
  BY DEF ChatInv
<1> QED
  BY <1>1, ChatInvariant, PTL

\* A retry under the id of an answered request finds the answer its client was given,
\* unless two requests with the id were under way at once (idempotency.go:35-64;
\* chat.go:53-63, 174-181).
THEOREM AnswersAreRemembered == Spec => []Remembered
<1>1. ChatInv => Remembered
  <2> SUFFICES ASSUME ChatInv, NEW k \in Ids, delivered[k] # None, now <= delivered[k].expires
               PROVE  Hit(k) /\ (k \in doubled \/ entries[k] = delivered[k])
    BY DEF Remembered
  <2>1. /\ entries[k] # None /\ delivered[k].expires <= entries[k].expires
        /\ k \in doubled \/ entries[k] = delivered[k]
    BY DEF ChatInv, RetryInv
  <2>2. now \in Nat /\ delivered[k].expires \in Nat /\ entries[k].expires \in Nat /\ k # None
    BY <2>1, Constants DEF ChatInv, TypeOK, Entry
  <2> QED
    BY <2>1, <2>2 DEF Hit
<1> QED
  BY <1>1, ChatInvariant, PTL

\* A history whose oldest messages are gone begins where it should.
LEMMA FollowsIsPrefix ==
    ASSUME NEW s \in Seq(Message), NEW t \in Seq(Message), NEW n \in 0..Len(s), Follows(s, n, t)
    PROVE  IsPrefix(SubSeq(s, n + 1, Len(s)), t)
<1>p. PICK p : p = SubSeq(s, n + 1, Len(s))
  OBVIOUS
<1>1. p \in Seq(Message) /\ Len(p) = Len(s) - n /\ \A i \in 1..(Len(s) - n) : p[i] = s[n + i]
  <2>1. CASE n = Len(s)
    <3>1. p = <<>>
      BY <1>p, <2>1
    <3> QED
      BY <2>1, <3>1
  <2>2. CASE n < Len(s)
    <3>1. n + 1 \in 1..Len(s) /\ Len(s) \in 1..Len(s)
      BY <2>2
    <3> QED
      BY <1>p, <2>2, <3>1
  <2> QED
    BY <2>1, <2>2
<1>l. PICK l \in Nat : l = Len(p)
  <2>1. Len(p) \in Nat
    BY <1>1
  <2> QED
    BY <2>1
<1>2. l <= Len(t) /\ \A i \in 1..l : t[i] = p[i]
  BY <1>1, <1>l DEF Follows
<1>3. SubSeq(p, 1, l) = SubSeq(t, 1, l)
  <2>1. CASE l = 0
    BY <1>1, <2>1
  <2>2. CASE l > 0
    <3>a. PICK a : a = SubSeq(p, 1, l)
      OBVIOUS
    <3>b. PICK b : b = SubSeq(t, 1, l)
      OBVIOUS
    <3>1. a \in Seq(Message) /\ Len(a) = l /\ \A i \in 1..l : a[i] = p[i]
      BY <1>1, <1>l, <2>2, <3>a
    <3>2. b \in Seq(Message) /\ Len(b) = l /\ \A i \in 1..l : b[i] = t[i]
      BY <1>2, <2>2, <3>b
    <3>3. a = b
      BY <1>2, <3>1, <3>2
    <3> QED
      BY <3>a, <3>b, <3>3
  <2> QED
    BY <2>1, <2>2
<1> QED
  BY <1>p, <1>l, <1>2, <1>3 DEF IsPrefix

\* A request leaves this place only when it writes the history.
LEMMA OnlyPersistLeaves ==
    ASSUME TypeOK, CallInv, [Next]_vars, NEW c \in Clients,
           call[c].pc = "persisting", call'[c].pc # "persisting"
    PROVE  Persist(c)
<1>1. ASSUME NEW d \in Clients, NEW m, OneCall(d, m), call[d].pc # "persisting" PROVE FALSE
  BY <1>1 DEF OneCall
<1>2. ASSUME NEW d \in Clients, Begin(d) PROVE FALSE
  BY <1>1, <1>2, BeginStep DEF Begin, Send
<1>3. ASSUME NEW d \in Clients, NotReady(d) \/ GenerationFails(d) \/ Answer(d) PROVE FALSE
  BY <1>1, <1>3, LeaveSteps DEF NotReady, GenerationFails, Answer
<1>4. ASSUME NEW d \in Clients, Admit(d) PROVE FALSE
  <2>1. call[d].pc # "persisting"
    BY <1>4 DEF Admit
  <2> QED
    BY <1>1, <1>4, <2>1, AdmitStep
<1>5. ASSUME NEW d \in Clients, MergeHistory(d) PROVE FALSE
  BY <1>1, <1>5, MergeStep DEF MergeHistory
<1>6. ASSUME NEW d \in Clients, GenerationEnds(d) PROVE FALSE
  BY <1>1, <1>6, GenerationStep DEF GenerationEnds
<1>7. ASSUME NEW d \in Clients, StoreAnswer(d) PROVE FALSE
  BY <1>1, <1>7, StoreStep DEF StoreAnswer
<1>8. ASSUME NEW d \in Clients, Persist(d), d # c PROVE FALSE
  BY <1>8, PersistStep
<1>9. CASE Cleanup \/ Tick \/ UNCHANGED vars
  BY <1>9 DEF Cleanup, Tick, vars
<1> QED
  BY <1>2, <1>3, <1>4, <1>5, <1>6, <1>7, <1>8, <1>9 DEF Next

LEMMA PersistKeeps ==
    ASSUME ChatInv, NEW c \in Clients, Persist(c), call[c].alone, Len(session) > 1
    PROVE  session' \in Seq(Message) /\ KeptIn(session, session')
<1>0. TypeOK /\ CallInv
  BY DEF ChatInv
<1>s. session \in Seq(Message) /\ session' \in Seq(Message)
  BY <1>0, PersistTypes DEF TypeOK
<1>k. PICK k \in Call : k = call[c]
  BY <1>0 DEF TypeOK
<1>q. PICK q \in Seq(Message) : q = k.messages
  BY CallFields
<1>1. k.turn \in 1..MaxTurns /\ k.pc = "persisting"
  BY <1>0, <1>k DEF CallInv, Persist
<1>x. PICK x \in Message : x = Assistant(k.turn)
  BY <1>1, UserIs
<1>a. PICK a \in Seq(Message) : a = Append(q, x)
  <2>1. Append(q, x) \in Seq(Message)
    OBVIOUS
  <2> QED
    BY <2>1
<1>2. KeptIn(session, q)
  BY <1>1, <1>k, <1>q DEF ChatInv, HistoryInv
<1>3. KeptIn(session, a)
  BY <1>2, <1>a, <1>s, AppendKeeps
<1>4. KeptIn(session, Newest(a, HistoryMax)) /\ KeptIn(session, Newest(q, HistoryMax))
  BY <1>2, <1>3, <1>s, CutKeeps
<1>5. KeptIn(session, session)
  <2>1. ASSUME NEW z \in Seq(Message) PROVE KeptIn(z, z)
    <3>1. Follows(z, 0, z) /\ 0 \in 0..Len(z)
      BY DEF Follows
    <3> QED
      BY <3>1 DEF KeptIn
  <2> QED
    BY <1>s, <2>1
<1>6. session' \in {Newest(a, HistoryMax), Newest(q, HistoryMax), session}
  BY <1>k, <1>q, <1>x, <1>a DEF Persist, Trim
<1> QED
  BY <1>s, <1>4, <1>5, <1>6

\* What ChatSessionStore.Merge and Record do to a stored history that nobody else wrote
\* meanwhile: only its oldest messages go, and only at a limit
\* (chat_session_store.go:48-94).
THEOREM HistoriesAreKept == Spec => HistoryKept
<1>1. ASSUME ChatInv, [Next]_vars, NEW c \in Clients,
             call[c].pc = "persisting", call'[c].pc # "persisting", call[c].alone,
             Len(session) > 1
      PROVE  \E k \in 0..Len(session) :
               /\ IsPrefix(SubSeq(session, k + 1, Len(session)), session')
               /\ k > 0 => Len(session') >= HistoryMax \/ Len(session') >= Budget
  <2>1. Persist(c)
    BY <1>1, OnlyPersistLeaves DEF ChatInv
  <2>2. session' \in Seq(Message) /\ KeptIn(session, session') /\ session \in Seq(Message)
    BY <1>1, <2>1, PersistKeeps DEF ChatInv, TypeOK
  <2>3. PICK n \in 0..Len(session) :
          /\ Follows(session, n, session')
          /\ n > 0 => Len(session') >= HistoryMax \/ Len(session') >= Budget
    BY <2>2 DEF KeptIn
  <2>4. IsPrefix(SubSeq(session, n + 1, Len(session)), session')
    BY <2>2, <2>3, FollowsIsPrefix
  <2> QED
    BY <2>3, <2>4
<1>2. ChatInv /\ [Next]_vars
        => [\A c \in Clients :
              (/\ call[c].pc = "persisting" /\ call'[c].pc # "persisting"
               /\ call[c].alone /\ Len(session) > 1) =>
                 \E k \in 0..Len(session) :
                   /\ IsPrefix(SubSeq(session, k + 1, Len(session)), session')
                   /\ k > 0 => Len(session') >= HistoryMax \/ Len(session') >= Budget]_vars
  BY <1>1
<1> QED
  BY <1>2, ChatInvariant, PTL DEF Spec, HistoryKept

=============================================================================
