------------------------------ MODULE McpTools ------------------------------
(***************************************************************************)
(* Which tools of the MCP servers a generation may use: Refresh and        *)
(* GenerationTools (pkg/mcpregistry/registry.go) over the list cache       *)
(* (pkg/mcpclient/tools_list_cache.go).  The cache has a lock of its own,  *)
(* taken once to look and once to store; the fetch in between is shared by *)
(* all callers that ask meanwhile (singleflight) and made with the context *)
(* of the first.  A list_changed notification may arrive at any time.      *)
(*                                                                         *)
(* A list of tools is the version of the server's list.  The servers come  *)
(* from the configuration and never change, so one fingerprint per server  *)
(* is enough.  Sessions are the ephemeral ones the program uses.           *)
(***************************************************************************)
EXTENDS Integers, FiniteSets

CONSTANTS Callers,     \* requests, each calling GenerationTools again and again
          Servers,     \* Registry.servers
          Ttl,         \* DefaultToolsListCacheTTL
          Timeout,     \* timeoutFor: how long one fetch may last
          MaxVersion,  \* bound: changes of a server's list
          MaxNow,      \* bound: the clock
          None

ASSUME McpAssumption ==
    /\ IsFiniteSet(Callers) /\ IsFiniteSet(Servers)
    /\ Ttl \in Nat \ {0}
    /\ Timeout \in Nat \ {0}
    /\ MaxVersion \in Nat
    /\ MaxNow \in Nat
    /\ None \notin Callers \cup Servers

VARIABLES
    now,
    version,   \* the list each server has: external
    notice,    \* servers with a notification under way
    entry,     \* ToolsListCache.toolEntries
    flight,    \* toolReqGroup: the fetch under way for each server
    tools,     \* Registry.tools
    call,      \* the locals of each caller
    dropped    \* history: the version each server had when its entries were last dropped

vars == <<now, version, notice, entry, flight, tools, call, dropped>>

\* A list and, as history, when the server gave it and whether the entries of
\* the server were dropped before it was stored.
List == [version : 0..MaxVersion, read : 0..MaxNow, raced : BOOLEAN]

Entry == [list : List, until : 0..(MaxNow + Ttl)]

Flight == [leader : Callers, start : 0..MaxNow, list : List \cup {None}]

Offer == [server : Servers, version : 0..MaxVersion]

Call == [pc : {"idle", "next", "fetch", "waiting", "store", "published"},
         todo : SUBSET Servers, server : Servers \cup {None}, since : 0..MaxNow,
         list : List \cup {None}, got : SUBSET Offer, lacks : SUBSET Servers,
         cancelled : BOOLEAN]

ASSUME NoneAssumption == None \notin List /\ None \notin Call

Fresh == [pc |-> "idle", todo |-> {}, server |-> None, since |-> 0, list |-> None,
          got |-> {}, lacks |-> {}, cancelled |-> FALSE]

Init ==
    /\ now = 0
    /\ version = [s \in Servers |-> 0]
    /\ notice = {}
    /\ entry = [s \in Servers |-> None]
    /\ flight = [s \in Servers |-> None]
    /\ tools = {}
    /\ call = [c \in Callers |-> Fresh]
    /\ dropped = [s \in Servers |-> 0]

-----------------------------------------------------------------------------
(* The servers and the clock: external.                                    *)

\* A server changes its list; those with an open session are told, or not.
ListChanges(s) ==
    /\ version[s] < MaxVersion
    /\ version' = [version EXCEPT ![s] = @ + 1]
    /\ \/ notice' = notice \cup {s}
       \/ UNCHANGED notice
    /\ UNCHANGED <<now, entry, flight, tools, call, dropped>>

\* A fetch does not outlive its timeout.
Tick ==
    /\ now < MaxNow
    /\ \A s \in Servers : flight[s] # None => now < flight[s].start + Timeout
    /\ now' = now + 1
    /\ UNCHANGED <<version, notice, entry, flight, tools, call, dropped>>

\* Mutant: the handler knows the server by another id.
NotifyOther(s) ==
    /\ s \in notice
    /\ notice' = notice \ {s}
    /\ dropped' = [dropped EXCEPT ![s] = version[s]]
    /\ UNCHANGED <<now, version, entry, flight, tools, call>>

\* A list under way is overtaken.
Raced(k) == IF k # None /\ k.list # None THEN [k EXCEPT !.list.raced = TRUE] ELSE k

\* The handler of ToolListChanged: InvalidateServerTools.
Notify(s) ==
    /\ s \in notice
    /\ notice' = notice \ {s}
    /\ entry' = [entry EXCEPT ![s] = None]
    /\ dropped' = [dropped EXCEPT ![s] = version[s]]
    /\ flight' = [flight EXCEPT ![s] = Raced(@)]
    /\ call' = [c \in Callers |-> IF call[c].server = s THEN Raced(call[c]) ELSE call[c]]
    /\ UNCHANGED <<now, version, tools>>

-----------------------------------------------------------------------------
(* Refresh.                                                                *)

Begin(c) ==
    /\ call[c].pc = "idle"
    /\ call' = [call EXCEPT ![c] = [Fresh EXCEPT !.pc = "next", !.todo = Servers]]
    /\ UNCHANGED <<now, version, notice, entry, flight, tools, dropped>>

\* The client of the request leaves.
Cancel(c) ==
    /\ call[c].pc # "idle"
    /\ ~call[c].cancelled
    /\ call' = [call EXCEPT ![c].cancelled = TRUE]
    /\ UNCHANGED <<now, version, notice, entry, flight, tools, dropped>>

\* The loop of Refresh goes on; what it has of server s, if anything, is kept.
Listed(k, s, lists) ==
    [k EXCEPT !.pc = "next", !.todo = @ \ {s}, !.server = None, !.list = None,
              !.since = 0,
              !.got = @ \cup {[server |-> s, version |-> l.version] : l \in lists},
              !.lacks = IF lists = {} THEN @ \cup {s} ELSE @]

\* ListToolsCached up to its RUnlock.  Servers come in the order of a Go map.
Lookup(c, s) ==
    /\ call[c].pc = "next"
    /\ s \in call[c].todo
    /\ call' = [call EXCEPT ![c] =
                  IF entry[s] # None /\ now < entry[s].until
                  THEN Listed(@, s, {entry[s].list})
                  ELSE [@ EXCEPT !.pc = "fetch", !.server = s, !.since = now]]
    /\ UNCHANGED <<now, version, notice, entry, flight, tools, dropped>>

\* toolReqGroup.Do: the first caller fetches, the others wait with it.
Do(c) ==
    LET s == call[c].server
    IN  /\ call[c].pc = "fetch"
        /\ flight' = IF flight[s] # None THEN flight
                     ELSE [flight EXCEPT ![s] = [leader |-> c, start |-> now, list |-> None]]
        /\ call' = [call EXCEPT ![c].pc = "waiting"]
        /\ UNCHANGED <<now, version, notice, entry, tools, dropped>>

\* The server answers tools/list.
Answer(s) ==
    /\ flight[s] # None
    /\ flight[s].list = None
    /\ ~call[flight[s].leader].cancelled
    /\ flight' = [flight EXCEPT ![s].list = 
                   [version |-> version[s], read |-> now, raced |-> FALSE]]
    /\ UNCHANGED <<now, version, notice, entry, tools, call, dropped>>

Waiting(s) == {c \in Callers : call[c].pc = "waiting" /\ call[c].server = s}

\* The fetch returns and everybody who waits for it goes on.
Land(s) ==
    /\ flight[s] # None
    /\ flight[s].list # None
    /\ flight' = [flight EXCEPT ![s] = None]
    /\ call' = [c \in Callers |->
                  IF c \in Waiting(s)
                  THEN [call[c] EXCEPT !.pc = "store", !.list = flight[s].list] ELSE call[c]]
    /\ UNCHANGED <<now, version, notice, entry, tools, dropped>>

\* Mutant: only the leader learns of the error.
FetchFailsAlone(s) ==
    /\ flight[s] # None
    /\ flight[s].list = None
    /\ flight' = [flight EXCEPT ![s] = None]
    /\ call' = [call EXCEPT ![flight[s].leader] = Listed(@, s, {})]
    /\ UNCHANGED <<now, version, notice, entry, tools, dropped>>

\* No connection, an error, the timeout, or the client of the leader left: an
\* error for everybody, and Refresh goes on without the server.
FetchFails(s) ==
    /\ flight[s] # None
    /\ flight[s].list = None
    /\ flight' = [flight EXCEPT ![s] = None]
    /\ call' = [c \in Callers |->
                  IF c \in Waiting(s) THEN Listed(call[c], s, {}) ELSE call[c]]
    /\ UNCHANGED <<now, version, notice, entry, tools, dropped>>

\* The rest of ListToolsCached, under the lock: entries that had expired when
\* the caller looked are swept, and its list is stored.
Store(c) ==
    LET k == call[c]
    IN  /\ k.pc = "store"
        /\ entry' = [s \in Servers |->
                       IF s = k.server
                       THEN [list |-> k.list, until |-> k.since + Ttl]
                       ELSE IF entry[s] # None /\ k.since >= entry[s].until THEN None
                       ELSE entry[s]]
        /\ call' = [call EXCEPT ![c] = Listed(k, k.server, {k.list})]
        /\ UNCHANGED <<now, version, notice, flight, tools, dropped>>

\* Mutant: lists are added to what is there.
PublishMore(c) ==
    /\ call[c].pc = "next"
    /\ call[c].todo = {}
    /\ tools' = tools \cup call[c].got
    /\ call' = [call EXCEPT ![c].pc = "published"]
    /\ UNCHANGED <<now, version, notice, entry, flight, dropped>>

\* The end of Refresh.  (lacks is history: a caller that has published gets
\* what the last one published.)
Publish(c) ==
    /\ call[c].pc = "next"
    /\ call[c].todo = {}
    /\ tools' = call[c].got
    /\ call' = [d \in Callers |->
                  IF d = c THEN [call[c] EXCEPT !.pc = "published"]
                  ELSE IF call[d].pc = "published"
                  THEN [call[d] EXCEPT !.lacks = @ \cup call[c].lacks] ELSE call[d]]
    /\ UNCHANGED <<now, version, notice, entry, flight, dropped>>

\* ListTools in GenerationTools; the names are unique and the request goes on.
ListTools(c) ==
    /\ call[c].pc = "published"
    /\ call' = [call EXCEPT ![c] = Fresh]
    /\ UNCHANGED <<now, version, notice, entry, flight, tools, dropped>>

-----------------------------------------------------------------------------
CallNext(c) ==
    \/ Begin(c) \/ Cancel(c) \/ Do(c) \/ Store(c) \/ Publish(c) \/ ListTools(c)
    \/ \E s \in Servers : Lookup(c, s)

ServerNext(s) ==
    ListChanges(s) \/ Notify(s) \/ Answer(s) \/ Land(s) \/ FetchFails(s)

Next ==
    \/ \E c \in Callers : CallNext(c)
    \/ \E s \in Servers : ServerNext(s)
    \/ Tick

Spec == Init /\ [][Next]_vars

(***************************************************************************)
(* Fairness: goroutines run, and a fetch is answered or cut off.  Nobody   *)
(* has to begin a call, and a notification need not arrive.                *)
(***************************************************************************)
Fairness ==
    /\ \A c \in Callers :
         WF_vars(\/ Do(c) \/ Store(c) \/ Publish(c) \/ ListTools(c)
                 \/ \E s \in Servers : Lookup(c, s))
    /\ \A s \in Servers : WF_vars(Answer(s) \/ Land(s) \/ FetchFails(s))

FairSpec == Spec /\ Fairness

-----------------------------------------------------------------------------
(* Properties.                                                             *)

\* Every variable keeps its type; a caller that stores has a list.
TypeOK ==
    /\ now \in 0..MaxNow
    /\ version \in [Servers -> 0..MaxVersion]
    /\ notice \subseteq Servers
    /\ entry \in [Servers -> Entry \cup {None}]
    /\ flight \in [Servers -> Flight \cup {None}]
    /\ tools \subseteq Offer
    /\ call \in [Callers -> Call]
    /\ dropped \in [Servers -> 0..MaxVersion]
    /\ \A c \in Callers : call[c].pc = "store" => call[c].list \in List

\* How old a cached list can be when it is used: the ttl and the time of one
\* fetch, because a caller that joins a fetch dates the list by the moment it
\* asked and not by the moment the fetch began (tools_list_cache.go:156, 217-220).
ListAge ==
    \A s \in Servers : entry[s] # None => entry[s].until <= entry[s].list.read + Timeout + Ttl

\* After a list_changed notification was handled the cache holds a list from
\* before the change only if at that moment a fetch was answered and not yet
\* stored: its list is stored although the entries were dropped meanwhile, even
\* by a caller that joined the fetch after the notification
\* (tools_list_cache.go:172-220).
StaleOnlyIfRaced ==
    \A s \in Servers :
      (entry[s] # None /\ entry[s].list.version < dropped[s]) => entry[s].list.raced

\* How far a cached list may lag behind its server, by its age and by the changes
\* it was told of (ListToolsCached, InvalidateServerTools).
ListFreshness == ListAge /\ StaleOnlyIfRaced

\* What a generation is offered: of every server some list of tools, unless the
\* fetch of that server failed, in its own Refresh or in one that published
\* between its Refresh and its ListTools (registry.go:152-157, 285-286), and
\* never two lists of one server.
OfferedTools ==
    /\ \A s \in Servers : Cardinality({o \in tools : o.server = s}) <= 1
    /\ \A c \in Callers :
         call[c].pc = "published" =>
           Servers \ {o.server : o \in tools} \subseteq call[c].lacks

\* Every request gets its tools, or goes on without: nobody waits for a fetch
\* that is over, whoever made it and however it ended.
CallersReturn == \A c \in Callers : call[c].pc # "idle" ~> call[c].pc = "idle"
=============================================================================
