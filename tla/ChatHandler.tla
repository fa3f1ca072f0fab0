----------------------------- MODULE ChatHandler -----------------------------
(***************************************************************************)
(* POST /v1/chat (internal/delivery/chat.go) over the state its requests   *)
(* share: the answers kept for retries (pkg/idempotency), the daily token  *)
(* quota (pkg/quota) and the stored history of a chat session              *)
(* (internal/service/chat_session_store.go).  Each of the three has a lock *)
(* of its own, taken per call: a request looks at them, generates, and     *)
(* writes to them later, while other requests do the same.                 *)
(*                                                                         *)
(* All requests belong to one chat session, every message weighs the same, *)
(* and how a runner is found is left to Dispatch and JobQueue.  Requests   *)
(* that only replay a stored answer change nothing and are not modelled.   *)
(***************************************************************************)
EXTENDS Integers, Sequences, FiniteSets, SequencesExt

CONSTANTS Clients,     \* each has one request at a time
          Ids,         \* request ids (a client may repeat one of anybody's)
          Kinds,       \* kinds of requests: with or without tools, streamed or not
          MaxPerDay,   \* quotas.max_tokens_per_day
          Estimate,    \* estimateChatTokens of a request
          MaxUsage,    \* tokens a generation may really use
          Ttl,         \* idempotency.ttl_seconds
          Day,         \* 24 hours
          HistoryMax,  \* history_max_messages
          Budget,      \* messages that fit the token budget of the history
          MaxTurns,    \* bound: different user messages
          MaxNow,      \* bound: the clock
          None

ASSUME ChatAssumption ==
    /\ IsFiniteSet(Clients)
    /\ Kinds \subseteq {"plain", "tools", "stream", "toolstream"}
    /\ Estimate \in Nat \ {0}
    /\ MaxPerDay \in Nat /\ MaxPerDay >= Estimate
    /\ MaxUsage \in Nat
    /\ Ttl \in Nat \ {0}
    /\ Day \in Nat \ {0}
    /\ HistoryMax \in Nat \ {0}
    /\ Budget \in Nat \ {0}
    /\ MaxTurns \in Nat
    /\ MaxNow \in Nat
    /\ None \notin Ids

VARIABLES
    now,
    entries,              \* idempotency.Store.entries: an answer and when it expires
    usedToday, dayStart,  \* quota.Quota
    session,              \* ChatSessionRecord.Messages
    turns,                \* user messages so far
    call,                 \* the locals of each client's request
    delivered,            \* history: the entry of the last answer sent under each id
    doubled               \* history: ids two requests had at the same time

quotaVars == <<usedToday, dayStart>>
vars == <<now, entries, quotaVars, session, turns, call, delivered, doubled>>

\* An answer kept for a request id.
Entry == [by : Clients, expires : Nat]

ASSUME NoneAssumption == None \notin Entry

Streams == {"stream", "toolstream"}
Message == [role : {"user", "assistant"}, turn : 1..MaxTurns]

\* messages is req.Messages.  alone is history: nobody else has written the
\* session since the request was sent.
Idle == [pc |-> "idle", kind |-> "plain", id |-> None, turn |-> 0,
         messages |-> <<>>, usage |-> 0, alone |-> TRUE]

Init ==
    /\ now = 0
    /\ entries = [k \in Ids |-> None]
    /\ usedToday = 0 /\ dayStart = 0
    /\ session = <<>>
    /\ turns = 0
    /\ call = [c \in Clients |-> Idle]
    /\ delivered = [k \in Ids |-> None]
    /\ doubled = {}

-----------------------------------------------------------------------------
(* The stores.                                                             *)

\* Store.Get finds an answer.
Hit(k) == k # None /\ entries[k] # None /\ now <= entries[k].expires

\* Store.Put.
Put(c) ==
    entries' = IF call[c].id = None THEN entries
               ELSE [entries EXCEPT ![call[c].id] = [by |-> c, expires |-> now + Ttl]]

\* Both methods of Quota first begin a new day when the old one is over.
NewDay   == now - dayStart >= Day
UsedNow  == IF NewDay THEN 0 ELSE usedToday
StartDay == dayStart' = IF NewDay THEN now - (now % Day) ELSE dayStart

\* Mutant: the tokens of the request itself are not counted.
WouldAllowUntilFull == UsedNow <= MaxPerDay

WouldAllow == UsedNow + Estimate <= MaxPerDay

\* Quota.Record.
RecordUsage(n) ==
    IF n > 0 THEN usedToday' = UsedNow + n /\ StartDay ELSE UNCHANGED quotaVars

\* The last n.
Newest(s, n) == IF Len(s) <= n THEN s ELSE SubSeq(s, Len(s) - n + 1, Len(s))

\* trimChatSessionMessages, trimChatHistory.
Trim(s) == Newest(s, HistoryMax)

\* trimChatHistoryByTokens: the oldest go until the rest fits the budget.
TrimByTokens(s) == Newest(s, Budget)

User(t)      == [role |-> "user", turn |-> t]
Assistant(t) == [role |-> "assistant", turn |-> t]

\* Mutant: whatever a client sends is the history.
MergeTakesIncoming(incoming) == incoming

\* ChatSessionStore.Merge; the last message of a request is the user's.
Merge(incoming) ==
    IF session = <<>> \/ Len(incoming) >= Len(session) THEN incoming
    ELSE IF Last(session) = Last(incoming) THEN session
    ELSE Trim(Append(session, Last(incoming)))

-----------------------------------------------------------------------------
(* A request.                                                              *)

Goto(c, s) == call' = [call EXCEPT ![c].pc = s]

\* A request that may be replayed later, and has not been answered.
Open(c, k) == call[c].pc # "idle" /\ call[c].id = k /\ call[c].kind \notin Streams

\* A new user message, or an old one once more.
NextTurns == {t \in 1..MaxTurns : t <= turns + 1}

Send(c, k, f, t, ms) ==
    /\ call[c].pc = "idle"
    /\ call' = [call EXCEPT ![c] = [Idle EXCEPT !.pc = "received", !.kind = f, !.id = k,
                                                !.turn = t, !.messages = ms]]
    /\ turns' = IF t > turns THEN t ELSE turns
    /\ doubled' = doubled \cup {j \in Ids : /\ j = k /\ f \notin Streams
                                            /\ \E d \in Clients : Open(d, k)}
    /\ UNCHANGED <<now, entries, quotaVars, session, delivered>>

\* Mutant: Store.Get is not asked.
BeginAnyway(c) ==
    \E k \in Ids \cup {None}, f \in Kinds, t \in NextTurns :
      \E ms \in {<<User(t)>>, Append(session, User(t))} : Send(c, k, f, t, ms)

\* The request is decoded and nothing is stored under its id (a stream does
\* not ask).  A client sends its message alone, or after the history it has.
Begin(c) ==
    \E k \in Ids \cup {None}, f \in Kinds, t \in NextTurns :
      \E ms \in {<<User(t)>>, Append(session, User(t))} :
        /\ f \notin Streams => ~Hit(k)
        /\ Send(c, k, f, t, ms)

\* ensureRunnerReady turns the request away.
NotReady(c) ==
    /\ call[c].pc = "received"
    /\ call' = [call EXCEPT ![c] = Idle]
    /\ UNCHANGED <<now, entries, quotaVars, session, turns, delivered, doubled>>

\* checkTokenQuota.
Admit(c) ==
    /\ call[c].pc = "received"
    /\ usedToday' = UsedNow
    /\ StartDay
    /\ IF WouldAllow THEN Goto(c, "merging") ELSE call' = [call EXCEPT ![c] = Idle]
    /\ UNCHANGED <<now, entries, session, turns, delivered, doubled>>

\* The stored history is put in front, then cut to what the prompt may hold.
MergeHistory(c) ==
    /\ call[c].pc = "merging"
    /\ call' = [call EXCEPT ![c].pc = "generating",
                            ![c].messages = TrimByTokens(Trim(Merge(@)))]
    /\ UNCHANGED <<now, entries, quotaVars, session, turns, delivered, doubled>>

\* No runner answers, the queue is full (then perhaps it becomes a job), or
\* the client of a stream has left: nothing is recorded.
GenerationFails(c) ==
    /\ call[c].pc = "generating"
    /\ call' = [call EXCEPT ![c] = Idle]
    /\ UNCHANGED <<now, entries, quotaVars, session, turns, delivered, doubled>>

\* The channel is closed: after the chunk with the usage, or without one,
\* because the runner failed or the client of a plain request left, which the
\* handler cannot tell apart.  The usage is recorded at once; after a tool loop
\* that does not stream only when the history is written.
GenerationEnds(c) ==
    /\ call[c].pc = "generating"
    /\ \E n \in 0..MaxUsage :
         /\ call' = [call EXCEPT ![c].pc = "persisting",
                                 ![c].usage = IF call[c].kind = "tools" THEN n ELSE 0]
         /\ RecordUsage(IF call[c].kind = "tools" THEN 0 ELSE n)
    /\ UNCHANGED <<now, entries, session, turns, delivered, doubled>>

\* persistChatSession: the history as it was read, with the answer, replaces
\* what is stored.  An empty answer adds nothing, and a streamed tool loop then
\* writes nothing.
Persist(c) ==
    /\ call[c].pc = "persisting"
    /\ \/ session' = Trim(Append(call[c].messages, Assistant(call[c].turn)))
       \/ session' = IF call[c].kind = "toolstream" THEN session
                     ELSE Trim(call[c].messages)
    /\ call' = [d \in Clients |->
                  IF d # c THEN [call[d] EXCEPT !.alone = FALSE]
                  ELSE IF call[c].kind \in Streams THEN Idle
                  ELSE [call[c] EXCEPT !.pc = "storing", !.messages = <<>>]]
    /\ UNCHANGED <<now, entries, quotaVars, turns, delivered, doubled>>

\* The usage of a tool loop, then the answer is kept for retries.
StoreAnswer(c) ==
    /\ call[c].pc = "storing"
    /\ RecordUsage(call[c].usage)
    /\ Put(c)
    /\ call' = [call EXCEPT ![c].pc = "answering", ![c].usage = 0]
    /\ UNCHANGED <<now, session, turns, delivered, doubled>>

\* writeJSON: the client has the answer.
Answer(c) ==
    /\ call[c].pc = "answering"
    /\ call' = [call EXCEPT ![c] = Idle]
    /\ delivered' = IF call[c].id = None THEN delivered
                    ELSE [delivered EXCEPT ![call[c].id] = entries[call[c].id]]
    /\ UNCHANGED <<now, entries, quotaVars, session, turns, doubled>>

\* Store.cleanup.
Cleanup ==
    /\ entries' = [k \in Ids |-> IF Hit(k) THEN entries[k] ELSE None]
    /\ UNCHANGED <<now, quotaVars, session, turns, call, delivered, doubled>>

Tick ==
    /\ now < MaxNow
    /\ now' = now + 1
    /\ UNCHANGED <<entries, quotaVars, session, turns, call, delivered, doubled>>

Next ==
    \/ \E c \in Clients :
         \/ Begin(c) \/ NotReady(c) \/ Admit(c) \/ MergeHistory(c)
         \/ GenerationFails(c) \/ GenerationEnds(c)
         \/ Persist(c) \/ StoreAnswer(c) \/ Answer(c)
    \/ Cleanup
    \/ Tick

Spec == Init /\ [][Next]_vars

-----------------------------------------------------------------------------
(* Properties.                                                             *)

Call == [pc : {"idle", "received", "merging", "generating", "persisting", "storing",
               "answering"},
         kind : Kinds \cup {"plain"}, id : Ids \cup {None}, turn : 0..MaxTurns,
         messages : Seq(Message), usage : 0..MaxUsage, alone : BOOLEAN]

\* Every variable keeps its type, the stored history its length, and the day
\* of the quota is never in the future.
TypeOK ==
    /\ now \in 0..MaxNow
    /\ entries \in [Ids -> Entry \cup {None}]
    /\ usedToday \in Nat
    /\ dayStart \in 0..now
    /\ session \in Seq(Message) /\ Len(session) <= HistoryMax
    /\ turns \in 0..MaxTurns
    /\ call \in [Clients -> Call]
    /\ delivered \in [Ids -> Entry \cup {None}]
    /\ doubled \subseteq Ids

\* Requests that were admitted and have not recorded their usage.
Unrecorded ==
    {c \in Clients : \/ call[c].pc \in {"merging", "generating"}
                     \/ call[c].pc \in {"persisting", "storing"} /\ call[c].kind = "tools"}

\* The quota is checked with an estimate before a generation and charged with
\* the usage after it (chat.go:71-77, 151-154), so a day may end above the
\* limit; but by no more than what the requests admitted together can use, even
\* when those of one day are charged to the next.
QuotaOvershoot ==
    usedToday + Cardinality(Unrecorded) * MaxUsage
      <= MaxPerDay - Estimate + Cardinality(Clients) * MaxUsage

\* Once a client has an answer (chat.go:174-180), a retry under its id finds
\* one until it expires, and finds that very answer unless two requests with
\* the id were under way at once: both miss in Get, both generate, and the
\* later Put replaces what the other client was told.
Remembered ==
    \A k \in Ids :
      (delivered[k] # None /\ now <= delivered[k].expires) =>
        /\ Hit(k)
        /\ k \in doubled \/ entries[k] = delivered[k]

\* Merge and Record lock separately (chat_session_store.go:53, 87) and Record
\* replaces the history.  If nobody else wrote it since the request was sent,
\* only the oldest messages go, and only when a limit is reached; a history of
\* one message is the exception, as Merge prefers a request of that length.
HistoryKept ==
    [][\A c \in Clients :
         (/\ call[c].pc = "persisting" /\ call'[c].pc # "persisting"
          /\ call[c].alone /\ Len(session) > 1) =>
           \E k \in 0..Len(session) :
             /\ IsPrefix(SubSeq(session, k + 1, Len(session)), session')
             /\ k > 0 => Len(session') >= HistoryMax \/ Len(session') >= Budget]_vars

=============================================================================
