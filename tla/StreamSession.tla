---------------------------- MODULE StreamSession ----------------------------
(***************************************************************************)
(* Resumable SSE streams: pkg/ssestream/registry.go with its writers       *)
(* (writeRunnerSSE) and its readers (handleChatStream, writeReplaySSE) in  *)
(* internal/delivery.  One request id is modelled: sessions of different   *)
(* ids share nothing.  A session is an object; the registry holds at most  *)
(* one for the id, while writers and readers keep the one they were given. *)
(*                                                                         *)
(* Session.mu is released between Append's copy of the subscribers and its *)
(* sends, and between the three calls of writeReplaySSE: those are         *)
(* separate actions.  window, dropped, late and left are history           *)
(* variables: what a reader was not sent, and why.                         *)
(***************************************************************************)
EXTENDS Integers, Sequences, FiniteSets, Functions

CONSTANTS Writers,    \* POST /v1/chat with stream = true and this request id
          Readers,    \* GET /v1/chat/stream with this request id
          MaxEvents,  \* bound: events of one writer, the "end" event included
          Buffer,     \* capacity of a subscriber channel (64 in Subscribe)
          Ttl,        \* sse.buffer_ttl_seconds, in minutes
          MaxNow,     \* bound: minutes the model runs
          None

ASSUME StreamAssumption ==
    /\ IsFiniteSet(Writers) /\ Writers # {}
    /\ IsFiniteSet(Readers)
    /\ MaxEvents \in Nat \ {0}
    /\ Buffer \in Nat \ {0}
    /\ Ttl \in Nat \ {0}
    /\ MaxNow \in Nat

Sessions == 1..Cardinality(Writers)

ASSUME NoneAssumption == None \notin Sessions

VARIABLES
    registry,  \* Registry.sessions[id]
    made,      \* how many session objects exist
    events, done, subs,          \* the fields of each session
    wpc, wsess, eventID, toSend, \* writers; toSend: channels Append still serves
    rpc, rsess, last,            \* readers
    chan, closed,                \* the channel of each subscriber
    seen,                        \* history: what a reader's client was sent
    window, dropped, late, left,
    now, doneAt                  \* minutes; when the session was last marked done

regVars    == <<registry, made>>
sessVars   == <<events, done, doneAt>>
writerVars == <<wpc, wsess, eventID, toSend>>
readerVars == <<rpc, rsess, last, seen>>
chanVars   == <<subs, chan, closed>>
histVars   == <<window, dropped, late, left>>
vars == <<regVars, sessVars, writerVars, readerVars, chanVars, histVars, now>>

Event == [by : Writers, id : 1..MaxEvents, end : BOOLEAN]

Init ==
    /\ registry = None /\ made = 0
    /\ events = [s \in Sessions |-> <<>>]
    /\ done = [s \in Sessions |-> FALSE]
    /\ doneAt = [s \in Sessions |-> 0]
    /\ wpc = [w \in Writers |-> "new"]
    /\ wsess = [w \in Writers |-> None]
    /\ eventID = [w \in Writers |-> 0]
    /\ toSend = [w \in Writers |-> {}]
    /\ rpc = [r \in Readers |-> "new"]
    /\ rsess = [r \in Readers |-> None]
    /\ last = [r \in Readers |-> 0]
    /\ seen = [r \in Readers |-> <<>>]
    /\ subs = [s \in Sessions |-> {}]
    /\ chan = [r \in Readers |-> <<>>]
    /\ closed = [r \in Readers |-> FALSE]
    /\ window = [r \in Readers |-> {}]
    /\ dropped = [r \in Readers |-> {}]
    /\ late = [r \in Readers |-> FALSE]
    /\ left = FALSE
    /\ now = 0

-----------------------------------------------------------------------------
(* Registry.                                                               *)

\* Start: a session that is still there is taken over as it is, with its old
\* events, and is no longer done; otherwise there is a fresh one.
Start(w) ==
    /\ wpc[w] = "new"
    /\ wpc' = [wpc EXCEPT ![w] = "open"]
    /\ IF registry # None
       THEN /\ wsess' = [wsess EXCEPT ![w] = registry]
            /\ done' = [done EXCEPT ![registry] = FALSE]
            /\ UNCHANGED regVars
       ELSE /\ made' = made + 1
            /\ registry' = made + 1
            /\ wsess' = [wsess EXCEPT ![w] = made + 1]
            /\ UNCHANGED done
    /\ UNCHANGED <<events, doneAt, eventID, toSend, readerVars, chanVars, histVars, now>>

\* cleanupLoop, once a minute: every session that is done is dropped; the
\* cutoff computed from the ttl is not used.
Cleanup ==
    /\ now < MaxNow
    /\ now' = now + 1
    /\ registry' = IF registry # None /\ done[registry] THEN None ELSE registry
    /\ UNCHANGED <<made, sessVars, writerVars, readerVars, chanVars, histVars>>

-----------------------------------------------------------------------------
(* Writers: writeRunnerSSE.                                                *)

\* emit, up to Append's unlock: the event is stored and the current
\* subscribers are copied.
Emit(w, isEnd) ==
    LET s == wsess[w]
        e == [by |-> w, id |-> eventID[w] + 1, end |-> isEnd]
    IN  /\ wpc[w] = "open"
        /\ toSend[w] = {}
        /\ isEnd \/ eventID[w] + 1 < MaxEvents
        /\ eventID' = [eventID EXCEPT ![w] = @ + 1]
        /\ events' = [events EXCEPT ![s] = Append(@, e)]
        /\ toSend' = [toSend EXCEPT ![w] = subs[s]]
        /\ wpc' = IF isEnd THEN [wpc EXCEPT ![w] = "ending"] ELSE wpc
        /\ window' = [r \in Readers |->
                        IF rsess[r] = s /\ rpc[r] \in {"replayed", "checked"}
                        THEN window[r] \cup {e} ELSE window[r]]
        /\ UNCHANGED <<regVars, done, doneAt, wsess, readerVars, chanVars,
                       dropped, late, left, now>>

\* The event writer w is delivering: its latest.
Current(w) ==
    CHOOSE e \in Range(events[wsess[w]]) : e.by = w /\ e.id = eventID[w]

\* The non-blocking send to one copied channel: buffered, or dropped when the
\* channel is full.
Deliver(w, r) ==
    /\ r \in toSend[w]
    /\ wpc[w] # "panicked"
    /\ ~closed[r]
    /\ toSend' = [toSend EXCEPT ![w] = @ \ {r}]
    /\ IF Len(chan[r]) < Buffer
       THEN chan' = [chan EXCEPT ![r] = Append(@, Current(w))] /\ UNCHANGED dropped
       ELSE dropped' = [dropped EXCEPT ![r] = @ \cup {Current(w)}] /\ UNCHANGED chan
    /\ UNCHANGED <<regVars, sessVars, wpc, wsess, eventID, readerVars, subs,
                   closed, window, late, left, now>>

\* The channel was closed after Append copied it: the send panics.  net/http
\* recovers, but the handler is gone and never calls MarkDone.
DeliverPanics(w, r) ==
    /\ r \in toSend[w]
    /\ wpc[w] # "panicked"
    /\ closed[r]
    /\ wpc' = [wpc EXCEPT ![w] = "panicked"]
    /\ UNCHANGED <<regVars, sessVars, wsess, eventID, toSend, readerVars,
                   chanVars, histVars, now>>

\* Mutant: only the flag is set.
MarkDoneLeavesSubs(s) ==
    /\ done' = [done EXCEPT ![s] = TRUE]
    /\ doneAt' = [doneAt EXCEPT ![s] = now]
    /\ UNCHANGED <<closed, subs>>

\* Session.MarkDone: close and forget every subscriber.
MarkDone(s) ==
    /\ done' = [done EXCEPT ![s] = TRUE]
    /\ doneAt' = [doneAt EXCEPT ![s] = now]
    /\ closed' = [r \in Readers |-> closed[r] \/ r \in subs[s]]
    /\ subs' = [subs EXCEPT ![s] = {}]

\* Mutant: the stream is marked done while the last sends are under way.
FinishEarly(w) ==
    /\ wpc[w] = "ending"
    /\ MarkDone(wsess[w])
    /\ wpc' = [wpc EXCEPT ![w] = "finished"]
    /\ UNCHANGED <<regVars, events, wsess, eventID, toSend, readerVars, chan,
                   histVars, now>>

\* Mutant: the stream is never marked done after "end".
FinishWithoutMark(w) ==
    /\ wpc[w] = "ending"
    /\ toSend[w] = {}
    /\ wpc' = [wpc EXCEPT ![w] = "finished"]
    /\ UNCHANGED <<regVars, sessVars, wsess, eventID, toSend, readerVars,
                   chanVars, histVars, now>>

\* After "end" the chat session is persisted and the stream marked done.
Finish(w) ==
    /\ wpc[w] = "ending"
    /\ toSend[w] = {}
    /\ MarkDone(wsess[w])
    /\ wpc' = [wpc EXCEPT ![w] = "finished"]
    /\ UNCHANGED <<regVars, events, wsess, eventID, toSend, readerVars, chan,
                   histVars, now>>

\* The writer's client is gone: marked done without an "end".
Cancel(w) ==
    /\ wpc[w] = "open"
    /\ toSend[w] = {}
    /\ MarkDone(wsess[w])
    /\ wpc' = [wpc EXCEPT ![w] = "cancelled"]
    /\ UNCHANGED <<regVars, events, wsess, eventID, toSend, readerVars, chan,
                   histVars, now>>

-----------------------------------------------------------------------------
(* Readers: handleChatStream and writeReplaySSE.                           *)

Goto(r, pc) == rpc' = [rpc EXCEPT ![r] = pc]

\* Registry.Get, with the client's Last-Event-ID.
Get(r) ==
    /\ rpc[r] = "new"
    /\ IF registry = None
       THEN Goto(r, "notfound") /\ UNCHANGED <<rsess, last>>
       ELSE /\ Goto(r, "found")
            /\ rsess' = [rsess EXCEPT ![r] = registry]
            /\ \E n \in 0..MaxEvents : last' = [last EXCEPT ![r] = n]
    /\ UNCHANGED <<regVars, sessVars, writerVars, seen, chanVars, histVars, now>>

\* The stored events with an id after n.
EventsAfter(stored, n) ==
    LET out[i \in 0..Len(stored)] ==
          IF i = 0 THEN <<>>
          ELSE IF stored[i].id > n THEN Append(out[i - 1], stored[i]) ELSE out[i - 1]
    IN  out[Len(stored)]

\* EventsAfter, written to the client.
Replay(r) ==
    /\ rpc[r] = "found"
    /\ Goto(r, "replayed")
    /\ seen' = [seen EXCEPT ![r] = EventsAfter(events[rsess[r]], last[r])]
    /\ UNCHANGED <<regVars, sessVars, writerVars, rsess, last, chanVars,
                   histVars, now>>

CheckDone(r) ==
    /\ rpc[r] = "replayed"
    /\ Goto(r, IF done[rsess[r]] THEN "closed" ELSE "checked")
    /\ UNCHANGED <<regVars, sessVars, writerVars, rsess, last, seen, chanVars,
                   histVars, now>>

\* Mutant: the gap is closed by a second replay from the same id.
SubscribeReplaysAgain(r) ==
    /\ rpc[r] = "checked"
    /\ Goto(r, "live")
    /\ seen' = [seen EXCEPT ![r] = @ \o EventsAfter(events[rsess[r]], last[r])]
    /\ subs' = [subs EXCEPT ![rsess[r]] = @ \cup {r}]
    /\ late' = [late EXCEPT ![r] = done[rsess[r]]]
    /\ UNCHANGED <<regVars, sessVars, writerVars, rsess, last, chan,
                   closed, window, dropped, left, now>>

Subscribe(r) ==
    /\ rpc[r] = "checked"
    /\ Goto(r, "live")
    /\ subs' = [subs EXCEPT ![rsess[r]] = @ \cup {r}]
    /\ late' = [late EXCEPT ![r] = done[rsess[r]]]
    /\ UNCHANGED <<regVars, sessVars, writerVars, rsess, last, seen, chan,
                   closed, window, dropped, left, now>>

\* The deferred unsub: the channel is closed only if it is still subscribed.
Unsub(r) ==
    /\ closed' = [closed EXCEPT ![r] = @ \/ r \in subs[rsess[r]]]
    /\ subs' = [subs EXCEPT ![rsess[r]] = @ \ {r}]

\* One event from the channel; the reader returns after "end".
Receive(r) ==
    /\ rpc[r] = "live"
    /\ chan[r] # <<>>
    /\ seen' = [seen EXCEPT ![r] = Append(@, Head(chan[r]))]
    /\ chan' = [chan EXCEPT ![r] = Tail(@)]
    /\ IF Head(chan[r]).end
       THEN Goto(r, "closed") /\ Unsub(r)
       ELSE UNCHANGED <<rpc, subs, closed>>
    /\ UNCHANGED <<regVars, sessVars, writerVars, rsess, last, histVars, now>>

ReceiveClosed(r) ==
    /\ rpc[r] = "live"
    /\ chan[r] = <<>>
    /\ closed[r]
    /\ Goto(r, "closed")
    /\ Unsub(r)
    /\ UNCHANGED <<regVars, sessVars, writerVars, rsess, last, seen, chan,
                   histVars, now>>

\* The reader's client is gone.
Disconnect(r) ==
    /\ rpc[r] = "live"
    /\ Goto(r, "gone")
    /\ Unsub(r)
    /\ left' = TRUE
    /\ UNCHANGED <<regVars, sessVars, writerVars, rsess, last, seen, chan,
                   window, dropped, late, now>>

-----------------------------------------------------------------------------
WriterNext(w) ==
    \/ Start(w)
    \/ \E isEnd \in BOOLEAN : Emit(w, isEnd)
    \/ \E r \in Readers : Deliver(w, r) \/ DeliverPanics(w, r)
    \/ Finish(w)
    \/ Cancel(w)

ReaderNext(r) ==
    \/ Get(r) \/ Replay(r) \/ CheckDone(r) \/ Subscribe(r)
    \/ Receive(r) \/ ReceiveClosed(r) \/ Disconnect(r)

Next ==
    \/ \E w \in Writers : WriterNext(w)
    \/ \E r \in Readers : ReaderNext(r)
    \/ Cleanup

Spec == Init /\ [][Next]_vars

(***************************************************************************)
(* Fairness: a handler that can run does, and a generation ends.  No       *)
(* client has to connect or to leave.                                      *)
(***************************************************************************)
Fairness ==
    /\ \A w \in Writers :
         /\ WF_vars(Emit(w, TRUE) \/ Cancel(w))
         /\ WF_vars(\E r \in Readers : Deliver(w, r) \/ DeliverPanics(w, r))
         /\ WF_vars(Finish(w))
    /\ \A r \in Readers :
         WF_vars(Replay(r) \/ CheckDone(r) \/ Subscribe(r) \/ Receive(r)
                   \/ ReceiveClosed(r))

FairSpec == Spec /\ Fairness

-----------------------------------------------------------------------------
(* Properties.                                                             *)

\* Every variable keeps its type; the ids of a writer's events start at 1.
TypeOK ==
    /\ made \in 0..Cardinality(Writers)
    /\ registry \in (1..made) \cup {None}
    /\ events \in [Sessions -> Seq(Event)]
    /\ done \in [Sessions -> BOOLEAN]
    /\ doneAt \in [Sessions -> 0..MaxNow]
    /\ wpc \in [Writers -> {"new", "open", "ending", "finished", "cancelled",
                            "panicked"}]
    /\ wsess \in [Writers -> Sessions \cup {None}]
    /\ eventID \in [Writers -> 0..MaxEvents]
    /\ toSend \in [Writers -> SUBSET Readers]
    /\ rpc \in [Readers -> {"new", "notfound", "found", "replayed", "checked",
                            "live", "closed", "gone"}]
    /\ rsess \in [Readers -> Sessions \cup {None}]
    /\ last \in [Readers -> 0..MaxEvents]
    /\ seen \in [Readers -> Seq(Event)]
    /\ subs \in [Sessions -> SUBSET Readers]
    /\ chan \in [Readers -> Seq(Event)]
    /\ closed \in [Readers -> BOOLEAN]
    /\ window \in [Readers -> SUBSET Event]
    /\ dropped \in [Readers -> SUBSET Event]
    /\ late \in [Readers -> BOOLEAN]
    /\ left \in BOOLEAN
    /\ now \in 0..MaxNow

\* The events of one generation in order and none twice.
SeenInOrder ==
    \A r \in Readers : \A i, k \in 1..Len(seen[r]) :
      i < k /\ seen[r][i].by = seen[r][k].by => seen[r][i].id < seen[r][k].id

\* Events Append has stored and not yet sent to reader r.
OnTheWay(r) == {Current(w) : w \in {v \in Writers : r \in toSend[v]}}

\* Where an event a resuming client asked for can be: it was sent, it is on
\* its way, it was appended between EventsAfter and Subscribe (sse.go:131-173),
\* or the channel was full.
NothingElseLost ==
    \A r \in Readers :
      rpc[r] \in {"replayed", "checked", "live"} /\ ~closed[r] =>
        {e \in Range(events[rsess[r]]) : e.id > last[r]}
          \subseteq Range(seen[r]) \cup Range(chan[r]) \cup window[r]
                      \cup dropped[r] \cup OnTheWay(r)

\* What a resumed client is sent: the events of one generation in order and none
\* twice, although the stored ones come from EventsAfter and the others through a
\* channel filled without the session's lock; and while it is served nothing is
\* lost but what came between EventsAfter and Subscribe or found the channel full.
ResumesSoundly == SeenInOrder /\ NothingElseLost

\* Two requests with the same id were given one session object.
SharedSession ==
    \E v, w \in Writers : v # w /\ wsess[v] = wsess[w] /\ wsess[v] # None

\* Append's send panics only if a subscriber's client left, or if two requests
\* with the same id write to one session (registry.go:81-115).
PanicHasACause ==
    \A w \in Writers : wpc[w] = "panicked" => left \/ SharedSession

\* A reader still subscribed to a session that is done is one that subscribed
\* after MarkDone, having asked IsDone before it.
StrandedOnlyIfLate ==
    \A s \in Sessions : done[s] => \A r \in subs[s] : late[r]

\* A reader that subscribed in time is let go, by "end" or by the close of its
\* channel, unless the writer panicked.
ReadersReleased ==
    \A r \in Readers :
      rpc[r] = "live" ~>
        \/ rpc[r] # "live"
        \/ late[r]
        \/ \E w \in Writers : wpc[w] = "panicked"

\* A finished stream can be resumed for sse.buffer_ttl_seconds
\* (config.example.yaml): cleanup drops no session before that.
KeptForTtl ==
    [][registry # None /\ registry' = None => now' - doneAt[registry] >= Ttl]_vars
=============================================================================
