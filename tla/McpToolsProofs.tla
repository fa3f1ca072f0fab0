--------------------------- MODULE McpToolsProofs ---------------------------
(***************************************************************************)
(* Theorems about McpTools, for any callers, servers, times and versions.  *)
(***************************************************************************)
EXTENDS McpTools, FiniteSetTheorems, TLAPS

-----------------------------------------------------------------------------
(* The inductive invariant.                                                *)

\* A list that was given before the entries of its server were dropped is marked.
Current(s, l) == l.version >= dropped[s] \/ l.raced

\* A fetch is no older than its timeout, and its list no older than the fetch.
FlightInv ==
    \A s \in Servers :
      /\ dropped[s] <= version[s]
      /\ flight[s] # None =>
           /\ flight[s].start <= now /\ now <= flight[s].start + Timeout
           /\ flight[s].list # None =>
                flight[s].start <= flight[s].list.read /\ Current(s, flight[s].list)

EntryInv ==
    \A s \in Servers : entry[s] # None =>
      /\ entry[s].until <= entry[s].list.read + Timeout + Ttl
      /\ Current(s, entry[s].list)

\* A caller looked before now, and its list is not much older.
LookInv ==
    \A c \in Callers :
      /\ call[c].pc \in {"fetch", "waiting", "store"} => call[c].server \in call[c].todo
      /\ call[c].pc \in {"fetch", "waiting"} => call[c].since <= now
      /\ call[c].pc = "store" =>
           /\ call[c].since <= call[c].list.read + Timeout
           /\ Current(call[c].server, call[c].list)

OneEach(offers) == \A o, p \in offers : o.server = p.server => o = p

\* What Refresh has gathered: one list of every server it is through with, but for
\* those it lacks.
Gathered(k) ==
    /\ OneEach(k.got)
    /\ \A o \in k.got : o.server \notin k.todo
    /\ \A s \in Servers \ k.todo : s \in k.lacks \/ \E o \in k.got : o.server = s

GatherInv ==
    /\ OneEach(tools)
    /\ \A c \in Callers :
         /\ call[c].pc \in {"next", "fetch", "waiting", "store"} => Gathered(call[c])
         /\ call[c].pc = "published" =>
              \A s \in Servers : s \in call[c].lacks \/ \E o \in tools : o.server = s

ToolsInv == TypeOK /\ FlightInv /\ EntryInv /\ LookInv /\ GatherInv

-----------------------------------------------------------------------------
(* What the actions make of a call.                                        *)

LEMMA Constants ==
    /\ IsFiniteSet(Servers) /\ Ttl \in Nat /\ Timeout \in Nat /\ MaxNow \in Nat /\ MaxVersion \in Nat
    /\ None \notin List /\ None \notin Call
BY McpAssumption, NoneAssumption

LEMMA CallFields ==
    ASSUME NEW k \in Call
    PROVE  /\ k.pc \in {"idle", "next", "fetch", "waiting", "store", "published"}
           /\ k.todo \in SUBSET Servers /\ k.server \in Servers \cup {None}
           /\ k.since \in 0..MaxNow /\ k.list \in List \cup {None} /\ k.got \in SUBSET Offer
           /\ k.lacks \in SUBSET Servers /\ k.cancelled \in BOOLEAN
BY DEF Call

\* The loop of Refresh goes on with a list of the server.
LEMMA ListedHas ==
    ASSUME NEW k \in Call, NEW s \in Servers, NEW l \in List
    PROVE  /\ Listed(k, s, {l}) \in Call
           /\ Listed(k, s, {l}).pc = "next"
           /\ Listed(k, s, {l}).server = None
           /\ Listed(k, s, {l}).todo = k.todo \ {s}
           /\ Listed(k, s, {l}).got = k.got \cup {[server |-> s, version |-> l.version]}
           /\ Listed(k, s, {l}).lacks = k.lacks
<1>o. PICK o : o = [server |-> s, version |-> l.version]
  OBVIOUS
<1>1. o \in Offer
  BY <1>o DEF Offer, List
<1>r. PICK r : r = Listed(k, s, {l})
  OBVIOUS
<1>2. r = [pc |-> "next", todo |-> k.todo \ {s}, server |-> None, since |-> 0, list |-> None,
           got |-> k.got \cup {o}, lacks |-> k.lacks, cancelled |-> k.cancelled]
  <2>1. {[server |-> s, version |-> m.version] : m \in {l}} = {o}
    BY <1>o
  <2>2. {l} # {}
    OBVIOUS
  <2> QED
    BY <1>r, <2>1, <2>2 DEF Listed, Call
<1>3. r \in Call
  BY <1>1, <1>2, CallFields, Constants DEF Call
<1>4. /\ r.pc = "next" /\ r.server = None /\ r.todo = k.todo \ {s}
      /\ r.got = k.got \cup {o} /\ r.lacks = k.lacks
  BY <1>2
<1> QED
  BY <1>o, <1>r, <1>3, <1>4

LEMMA ListedNext ==
    \A k \in Call, s \in Servers, l \in List : Listed(k, s, {l}).pc = "next"
<1> TAKE k \in Call, s \in Servers, l \in List
<1> QED
  BY ListedHas

\* It goes on without one.
LEMMA ListedLacks ==
    ASSUME NEW k \in Call, NEW s \in Servers
    PROVE  /\ Listed(k, s, {}) \in Call
           /\ Listed(k, s, {}).pc = "next"
           /\ Listed(k, s, {}).server = None
           /\ Listed(k, s, {}).todo = k.todo \ {s}
           /\ Listed(k, s, {}).got = k.got
           /\ Listed(k, s, {}).lacks = k.lacks \cup {s}
<1>r. PICK r : r = Listed(k, s, {})
  OBVIOUS
<1>2. r = [pc |-> "next", todo |-> k.todo \ {s}, server |-> None, since |-> 0, list |-> None,
           got |-> k.got, lacks |-> k.lacks \cup {s}, cancelled |-> k.cancelled]
  <2>1. {[server |-> s, version |-> m.version] : m \in {}} = {}
    OBVIOUS
  <2> QED
    BY <1>r, <2>1 DEF Listed, Call
<1>3. r \in Call
  BY <1>2, CallFields, Constants DEF Call
<1> QED
  BY <1>r, <1>2, <1>3

\* A call in which only these fields may have changed.
Moved(k, m) ==
    /\ m \in Call
    /\ m.todo = k.todo /\ m.got = k.got /\ m.lacks = k.lacks

\* Every list of a call or a fetch that is overtaken is marked.
LEMMA RacedIs ==
    /\ \A k \in Call :
         /\ Moved(k, Raced(k))
         /\ Raced(k).pc = k.pc /\ Raced(k).server = k.server /\ Raced(k).since = k.since
         /\ k.list # None => /\ Raced(k).list \in List /\ Raced(k).list.raced
                             /\ Raced(k).list.read = k.list.read
    /\ \A f \in Flight :
         /\ Raced(f) \in Flight
         /\ Raced(f).start = f.start /\ Raced(f).leader = f.leader
         /\ f.list = None => Raced(f).list = None
         /\ f.list # None /\ f # None => /\ Raced(f).list \in List /\ Raced(f).list.raced
                                         /\ Raced(f).list.read = f.list.read
<1>1. ASSUME NEW l \in List, NEW m, m = [l EXCEPT !.raced = TRUE]
      PROVE  m \in List /\ m.raced /\ m.read = l.read
  BY <1>1 DEF List
<1>2. ASSUME NEW k \in Call
      PROVE  /\ Moved(k, Raced(k))
             /\ Raced(k).pc = k.pc /\ Raced(k).server = k.server /\ Raced(k).since = k.since
             /\ k.list # None => /\ Raced(k).list \in List /\ Raced(k).list.raced
                                 /\ Raced(k).list.read = k.list.read
  <2>1. CASE k.list = None
    BY <2>1 DEF Raced, Moved
  <2>2. CASE k.list # None
    <3>l. PICK l \in List : l = k.list
      BY <2>2, CallFields
    <3>m. PICK m : m = [l EXCEPT !.raced = TRUE]
      OBVIOUS
    <3>r. PICK r : r = Raced(k)
      OBVIOUS
    <3>1. r = [k EXCEPT !.list = m]
      BY <2>2, <3>l, <3>m, <3>r, Constants DEF Raced
    <3>2. m \in List /\ m.raced /\ m.read = l.read
      BY <1>1, <3>m
    <3>3. r \in Call /\ r.list = m /\ r.pc = k.pc /\ r.server = k.server /\ r.since = k.since
          /\ r.todo = k.todo /\ r.got = k.got /\ r.lacks = k.lacks
      BY <3>1, <3>2 DEF Call
    <3> QED
      BY <3>l, <3>r, <3>2, <3>3 DEF Moved
  <2> QED
    BY <2>1, <2>2
<1>3. ASSUME NEW f \in Flight
      PROVE  /\ Raced(f) \in Flight
             /\ Raced(f).start = f.start /\ Raced(f).leader = f.leader
             /\ f.list = None => Raced(f).list = None
             /\ f.list # None /\ f # None => /\ Raced(f).list \in List /\ Raced(f).list.raced
                                             /\ Raced(f).list.read = f.list.read
  <2>1. CASE f.list = None \/ f = None
    BY <2>1 DEF Raced
  <2>2. CASE f.list # None /\ f # None
    <3>l. PICK l \in List : l = f.list
      BY <2>2 DEF Flight
    <3>m. PICK m : m = [l EXCEPT !.raced = TRUE]
      OBVIOUS
    <3>r. PICK r : r = Raced(f)
      OBVIOUS
    <3>1. r = [f EXCEPT !.list = m]
      BY <2>2, <3>l, <3>m, <3>r DEF Raced
    <3>2. m \in List /\ m.raced /\ m.read = l.read
      BY <1>1, <3>m
    <3>3. r \in Flight /\ r.list = m /\ r.start = f.start /\ r.leader = f.leader
      BY <3>1, <3>2 DEF Flight
    <3> QED
      BY <2>2, <3>l, <3>r, <3>2, <3>3
  <2> QED
    BY <2>1, <2>2
<1> QED
  BY <1>2, <1>3

-----------------------------------------------------------------------------
(* The steps, by what they do to each call.                                *)

\* A call that goes on with what it gathered, and where.
Goes(k, m, from, to) == k.pc = from /\ m.pc = to /\ Moved(k, m) /\ m.server = k.server

\* The only call that changes.
OneCall(c, m) ==
    /\ call' \in [Callers -> Call]
    /\ call'[c] = m
    /\ \A d \in Callers \ {c} : call'[d] = call[d]

\* Begin, Cancel, Do and ListTools.
LEMMA PlainSteps ==
    ASSUME TypeOK, NEW c \in Callers, Begin(c) \/ Cancel(c) \/ Do(c) \/ ListTools(c)
    PROVE  \E m \in Call :
             /\ OneCall(c, m)
             /\ \/ /\ Begin(c) /\ m.pc = "next" /\ m.todo = Servers /\ m.got = {}
                \/ /\ Cancel(c) /\ Moved(call[c], m) /\ m.pc = call[c].pc
                   /\ m.server = call[c].server /\ m.since = call[c].since /\ m.list = call[c].list
                \/ Do(c) /\ Goes(call[c], m, "fetch", "waiting") /\ m.since = call[c].since
                \/ ListTools(c) /\ m.pc = "idle"
<1>k. PICK k \in Call : k = call[c]
  BY DEF TypeOK
<1>f. call \in [Callers -> Call] /\ Fresh \in Call
  BY Constants DEF TypeOK, Fresh, Call
<1>1. CASE Begin(c)
  <2>m. PICK m : m = [Fresh EXCEPT !.pc = "next", !.todo = Servers]
    OBVIOUS
  <2>1. m \in Call /\ m.pc = "next" /\ m.todo = Servers /\ m.got = {}
    <3>1. m = [pc |-> "next", todo |-> Servers, server |-> None, since |-> 0, list |-> None,
               got |-> {}, lacks |-> {}, cancelled |-> FALSE]
      BY <2>m DEF Fresh
    <3> QED
      BY <3>1, Constants DEF Call
  <2>2. OneCall(c, m)
    BY <1>1, <1>f, <2>m, <2>1 DEF Begin, OneCall
  <2> QED
    BY <1>1, <2>1, <2>2
<1>2. CASE Cancel(c)
  <2>m. PICK m : m = [k EXCEPT !.cancelled = TRUE]
    OBVIOUS
  <2>1. /\ m \in Call /\ m.pc = k.pc /\ m.todo = k.todo /\ m.got = k.got /\ m.lacks = k.lacks
        /\ m.server = k.server /\ m.since = k.since /\ m.list = k.list
    BY <2>m DEF Call
  <2>2. OneCall(c, m)
    BY <1>2, <1>f, <1>k, <2>m, <2>1 DEF Cancel, OneCall
  <2> QED
    BY <1>2, <1>k, <2>1, <2>2 DEF Moved
<1>3. CASE Do(c)
  <2>m. PICK m : m = [k EXCEPT !.pc = "waiting"]
    OBVIOUS
  <2>1. /\ m \in Call /\ m.pc = "waiting" /\ m.todo = k.todo /\ m.got = k.got /\ m.lacks = k.lacks
        /\ m.server = k.server /\ m.since = k.since
    BY <2>m DEF Call
  <2>2. OneCall(c, m)
    BY <1>3, <1>f, <1>k, <2>m, <2>1 DEF Do, OneCall
  <2> QED
    BY <1>3, <1>k, <2>1, <2>2 DEF Moved, Goes, Do
<1>4. CASE ListTools(c)
  <2>1. OneCall(c, Fresh) /\ Fresh.pc = "idle"
    BY <1>4, <1>f DEF ListTools, OneCall, Fresh
  <2> QED
    BY <1>4, <1>f, <2>1
<1> QED
  BY <1>1, <1>2, <1>3, <1>4

\* Lookup and Store.
LEMMA ListSteps ==
    ASSUME TypeOK, NEW c \in Callers
    PROVE  /\ \A s \in Servers : Lookup(c, s) =>
                 \/ /\ entry[s] # None
                    /\ entry[s].list \in List
                    /\ OneCall(c, Listed(call[c], s, {entry[s].list}))
                 \/ \E m \in Call :
                      /\ OneCall(c, m) /\ m.pc = "fetch" /\ Moved(call[c], m)
                      /\ m.server = s /\ m.since = now
           /\ Store(c) => /\ call[c].list \in List
                          /\ call[c].server \in Servers =>
                               OneCall(c, Listed(call[c], call[c].server, {call[c].list}))
<1>k. PICK k \in Call : k = call[c]
  BY DEF TypeOK
<1>f. call \in [Callers -> Call] /\ now \in 0..MaxNow
  BY DEF TypeOK
<1>1. ASSUME NEW s \in Servers, Lookup(c, s)
      PROVE  \/ /\ entry[s] # None
                /\ entry[s].list \in List
                /\ OneCall(c, Listed(call[c], s, {entry[s].list}))
             \/ \E m \in Call :
                  /\ OneCall(c, m) /\ m.pc = "fetch" /\ Moved(call[c], m)
                  /\ m.server = s /\ m.since = now
  <2>1. CASE entry[s] # None /\ now < entry[s].until
    <3>1. entry[s].list \in List
      BY <2>1 DEF TypeOK, Entry
    <3>m. PICK m : m = Listed(call[c], s, {entry[s].list})
      OBVIOUS
    <3>2. m \in Call
      BY <1>k, <3>1, <3>m, ListedHas
    <3>3. call' = [call EXCEPT ![c] = m]
      BY <1>1, <2>1, <3>m DEF Lookup
    <3> QED
      BY <1>f, <2>1, <3>1, <3>m, <3>2, <3>3 DEF OneCall
  <2>2. CASE ~(entry[s] # None /\ now < entry[s].until)
    <3>m. PICK m : m = [k EXCEPT !.pc = "fetch", !.server = s, !.since = now]
      OBVIOUS
    <3>1. /\ m \in Call /\ m.pc = "fetch" /\ m.todo = k.todo /\ m.got = k.got /\ m.lacks = k.lacks
          /\ m.server = s /\ m.since = now
      BY <1>f, <3>m DEF Call
    <3>2. call' = [call EXCEPT ![c] = m]
      BY <1>1, <1>f, <1>k, <2>2, <3>m DEF Lookup
    <3>3. OneCall(c, m)
      BY <1>f, <3>1, <3>2 DEF OneCall
    <3> QED
      BY <1>k, <3>1, <3>3 DEF Moved
  <2> QED
    BY <2>1, <2>2
<1>2. ASSUME Store(c)
      PROVE  /\ call[c].list \in List
             /\ call[c].server \in Servers =>
                  OneCall(c, Listed(call[c], call[c].server, {call[c].list}))
  <2>1. call[c].list \in List
    BY <1>2 DEF Store, TypeOK
  <2>2. ASSUME call[c].server \in Servers
        PROVE  OneCall(c, Listed(call[c], call[c].server, {call[c].list}))
    <3>m. PICK m : m = Listed(call[c], call[c].server, {call[c].list})
      OBVIOUS
    <3>1. m \in Call
      BY <1>k, <2>1, <2>2, <3>m, ListedHas
    <3>2. call' = [call EXCEPT ![c] = m]
      BY <1>2, <3>m DEF Store
    <3> QED
      BY <1>f, <3>m, <3>1, <3>2 DEF OneCall
  <2> QED
    BY <2>1, <2>2
<1> QED
  BY <1>1, <1>2

\* The steps that concern every call: the fetch lands or fails, the notification, and
\* the publication.
LEMMA WideSteps ==
    ASSUME TypeOK, NEW s \in Servers, NEW d \in Callers
    PROVE  /\ Land(s) => \/ call'[d] = call[d]
                         \/ /\ Goes(call[d], call'[d], "waiting", "store") /\ call[d].server = s
                            /\ call'[d].since = call[d].since
                            /\ call'[d].list = flight[s].list /\ flight[s].list \in List
           /\ FetchFails(s) => \/ call'[d] = call[d]
                               \/ /\ call[d].pc = "waiting" /\ call[d].server = s
                                  /\ call'[d] = Listed(call[d], s, {})
           /\ Notify(s) => IF call[d].server = s THEN call'[d] = Raced(call[d])
                                                 ELSE call'[d] = call[d]
           /\ Land(s) \/ FetchFails(s) \/ Notify(s) => call'[d] \in Call
<1>k. PICK k \in Call : k = call[d]
  BY DEF TypeOK
<1>1. ASSUME Land(s)
      PROVE  /\ \/ call'[d] = call[d]
                \/ /\ Goes(call[d], call'[d], "waiting", "store") /\ call[d].server = s
                   /\ call'[d].since = call[d].since
                   /\ call'[d].list = flight[s].list /\ flight[s].list \in List
             /\ call'[d] \in Call
  <2>1. CASE d \in Waiting(s)
    <3>l. PICK l \in List : l = flight[s].list
      BY <1>1 DEF Land, TypeOK, Flight
    <3>m. PICK m : m = [k EXCEPT !.pc = "store", !.list = l]
      OBVIOUS
    <3>1. /\ m \in Call /\ m.pc = "store" /\ m.todo = k.todo /\ m.got = k.got /\ m.lacks = k.lacks
          /\ m.server = k.server /\ m.since = k.since /\ m.list = l
      BY <3>m DEF Call
    <3>2. call'[d] = m
      BY <1>1, <1>k, <2>1, <3>l, <3>m DEF Land
    <3> QED
      BY <1>k, <2>1, <3>l, <3>1, <3>2 DEF Waiting, Goes, Moved
  <2>2. CASE d \notin Waiting(s)
    BY <1>1, <1>k, <2>2 DEF Land
  <2> QED
    BY <2>1, <2>2
<1>2. ASSUME FetchFails(s)
      PROVE  /\ \/ call'[d] = call[d]
                \/ /\ call[d].pc = "waiting" /\ call[d].server = s
                   /\ call'[d] = Listed(call[d], s, {})
             /\ call'[d] \in Call
  BY <1>2, <1>k, ListedLacks DEF FetchFails, Waiting
<1>3. ASSUME Notify(s)
      PROVE  /\ IF call[d].server = s THEN call'[d] = Raced(call[d]) ELSE call'[d] = call[d]
             /\ call'[d] \in Call
  BY <1>3, <1>k, RacedIs DEF Notify, Moved
<1> QED
  BY <1>1, <1>2, <1>3

LEMMA PublishSteps ==
    ASSUME TypeOK, NEW c \in Callers, Publish(c), NEW d \in Callers
    PROVE  /\ call'[d] \in Call
           /\ d = c => Goes(call[d], call'[d], "next", "published")
           /\ d # c /\ call[d].pc = "published" =>
                call'[d].pc = "published" /\ call'[d].lacks = call[d].lacks \cup call[c].lacks
           /\ d # c /\ call[d].pc # "published" => call'[d] = call[d]
<1>k. PICK k \in Call : k = call[d]
  BY DEF TypeOK
<1>j. PICK j \in SUBSET Servers : j = call[c].lacks
  BY CallFields DEF TypeOK
<1>1. CASE d = c
  <2>m. PICK m : m = [k EXCEPT !.pc = "published"]
    OBVIOUS
  <2>1. /\ m \in Call /\ m.pc = "published" /\ m.todo = k.todo /\ m.got = k.got /\ m.lacks = k.lacks
        /\ m.server = k.server
    BY <2>m DEF Call
  <2>2. call'[d] = m
    BY <1>1, <1>k, <2>m DEF Publish
  <2> QED
    BY <1>1, <1>k, <2>1, <2>2 DEF Goes, Moved, Publish
<1>2. CASE d # c /\ call[d].pc = "published"
  <2>m. PICK m : m = [k EXCEPT !.lacks = k.lacks \cup j]
    OBVIOUS
  <2>1. m \in Call /\ m.pc = k.pc /\ m.lacks = k.lacks \cup j
    BY <2>m, CallFields DEF Call
  <2>2. call'[d] = m
    BY <1>2, <1>j, <1>k, <2>m DEF Publish
  <2> QED
    BY <1>2, <1>j, <1>k, <2>1, <2>2
<1>3. CASE d # c /\ call[d].pc # "published"
  BY <1>3, <1>k DEF Publish
<1> QED
  BY <1>1, <1>2, <1>3

-----------------------------------------------------------------------------
(* The invariant is inductive.                                             *)

LEMMA TypeInductive ==
    ASSUME ToolsInv, [Next]_vars
    PROVE  TypeOK'
<1> USE Constants
<1>0. TypeOK
  BY DEF ToolsInv
<1>1. ASSUME NEW c \in Callers, CallNext(c) PROVE TypeOK'
  <2>1. CASE Begin(c) \/ Cancel(c) \/ Do(c) \/ ListTools(c)
    <3>1. PICK m \in Call :
             /\ OneCall(c, m)
             /\ m.pc = "store" => call[c].pc = "store" /\ m.list = call[c].list
      BY <1>0, <2>1, PlainSteps DEF Goes
    <3>2. call' \in [Callers -> Call] /\ \A d \in Callers : call'[d].pc = "store" => call'[d].list \in List
      BY <1>0, <3>1 DEF OneCall, TypeOK
    <3>3. UNCHANGED <<now, version, notice, entry, tools, dropped>>
      BY <2>1 DEF Begin, Cancel, Do, ListTools
    <3>4. flight' \in [Servers -> Flight \cup {None}]
      <4>1. CASE Do(c)
        <5>f. PICK f : f = [leader |-> c, start |-> now, list |-> None]
          OBVIOUS
        <5>1. f \in Flight
          BY <1>0, <5>f DEF Flight, TypeOK
        <5>2. flight' = flight \/ flight' = [flight EXCEPT ![call[c].server] = f]
          BY <4>1, <5>f DEF Do
        <5> QED
          BY <1>0, <5>1, <5>2 DEF TypeOK
      <4>2. CASE ~Do(c)
        BY <1>0, <2>1, <4>2 DEF Begin, Cancel, ListTools, TypeOK
      <4> QED
        BY <4>1, <4>2
    <3> QED
      BY <1>0, <3>2, <3>3, <3>4 DEF TypeOK
  <2>2. ASSUME NEW s \in Servers, Lookup(c, s) PROVE TypeOK'
    <3>1. PICK m : OneCall(c, m) /\ m.pc \in {"next", "fetch"}
      <4>1. \A l \in List : Listed(call[c], s, {l}).pc = "next"
        <5>1. PICK k \in Call : k = call[c]
          BY <1>0 DEF TypeOK
        <5>2. ASSUME NEW l \in List PROVE Listed(k, s, {l}).pc = "next"
          BY ListedHas
        <5> QED
          BY <5>1, <5>2
      <4> QED
        BY <1>0, <2>2, <4>1, ListSteps
    <3>2. UNCHANGED <<now, version, notice, entry, flight, tools, dropped>>
      BY <2>2 DEF Lookup
    <3> QED
      BY <1>0, <3>1, <3>2 DEF OneCall, TypeOK
  <2>3. CASE Store(c)
    <3>s. PICK s \in Servers : s = call[c].server
      BY <2>3 DEF ToolsInv, LookInv, Store, TypeOK, Call
    <3>1. call[c].list \in List /\ OneCall(c, Listed(call[c], s, {call[c].list})) /\ call[c].since \in 0..MaxNow
      BY <1>0, <2>3, <3>s, ListSteps, CallFields DEF TypeOK
    <3>2. Listed(call[c], s, {call[c].list}).pc = "next"
      <4>1. PICK k \in Call, l \in List : k = call[c] /\ l = call[c].list
        BY <1>0, <3>1 DEF TypeOK
      <4>2. Listed(k, s, {l}).pc = "next"
        BY ListedHas
      <4> QED
        BY <4>1, <4>2
    <3>3. UNCHANGED <<now, version, notice, flight, tools, dropped>>
      BY <2>3 DEF Store
    <3>e. PICK e : e = [list |-> call[c].list, until |-> call[c].since + Ttl]
      OBVIOUS
    <3>4. e \in Entry
      BY <3>1, <3>e DEF Entry
    <3>5. entry' \in [Servers -> Entry \cup {None}]
      BY <1>0, <2>3, <3>e, <3>4 DEF Store, TypeOK
    <3> QED
      BY <1>0, <3>1, <3>2, <3>3, <3>5 DEF OneCall, TypeOK
  <2>4. CASE Publish(c)
    <3>1. UNCHANGED <<now, version, notice, entry, flight, dropped>> /\ tools' = call[c].got
          /\ DOMAIN call' = Callers /\ call' = [d \in Callers |-> call'[d]]
      BY <2>4 DEF Publish
    <3>2. \A d \in Callers : /\ call'[d] \in Call
                             /\ call'[d].pc = "store" => call'[d] = call[d]
      BY <1>0, <2>4, PublishSteps DEF Goes
    <3>3. tools' \subseteq Offer
      BY <1>0, <3>1, CallFields DEF TypeOK
    <3>4. call' \in [Callers -> Call]
      BY <3>1, <3>2
    <3> QED
      BY <1>0, <3>1, <3>2, <3>3, <3>4 DEF TypeOK
  <2> QED
    BY <1>1, <2>1, <2>2, <2>3, <2>4 DEF CallNext
<1>2. ASSUME NEW s \in Servers, ServerNext(s) PROVE TypeOK'
  <2>1. CASE ListChanges(s)
    BY <1>0, <2>1 DEF ListChanges, TypeOK
  <2>2. CASE Answer(s)
    <3>l. PICK l : l = [version |-> version[s], read |-> now, raced |-> FALSE]
      OBVIOUS
    <3>f. PICK f : f = [flight[s] EXCEPT !.list = l]
      OBVIOUS
    <3>1. l \in List
      BY <1>0, <3>l DEF List, TypeOK
    <3>2. flight[s] \in Flight
      BY <1>0, <2>2 DEF Answer, TypeOK
    <3>3. f \in Flight
      BY <3>f, <3>1, <3>2 DEF Flight
    <3>4. flight' = [flight EXCEPT ![s] = f]
      BY <2>2, <3>l, <3>f DEF Answer
    <3> QED
      BY <1>0, <2>2, <3>3, <3>4 DEF Answer, TypeOK
  <2>3. CASE Land(s) \/ FetchFails(s) \/ Notify(s)
    <3>1. DOMAIN call' = Callers /\ call' = [d \in Callers |-> call'[d]]
      BY <2>3 DEF Land, FetchFails, Notify
    <3>2. ASSUME NEW d \in Callers
          PROVE  call'[d] \in Call /\ (call'[d].pc = "store" => call'[d].list \in List)
      <4>1. call'[d] \in Call /\ call[d] \in Call /\ (call[d].pc = "store" => call[d].list \in List)
        BY <1>0, <2>3, WideSteps DEF TypeOK
      <4>2. CASE Land(s)
        BY <1>0, <4>1, <4>2, WideSteps
      <4>3. CASE FetchFails(s)
        BY <1>0, <4>1, <4>3, WideSteps, ListedLacks
      <4>4. CASE Notify(s)
        BY <1>0, <4>1, <4>4, WideSteps, RacedIs
      <4> QED
        BY <2>3, <4>1, <4>2, <4>3, <4>4
    <3>3. call' \in [Callers -> Call]
      BY <3>1, <3>2
    <3>4. UNCHANGED <<now, version, tools>> /\ notice' \subseteq Servers
          /\ entry' \in [Servers -> Entry \cup {None}] /\ dropped' \in [Servers -> 0..MaxVersion]
      BY <1>0, <2>3 DEF Land, FetchFails, Notify, TypeOK
    <3>5. flight' \in [Servers -> Flight \cup {None}]
      <4>1. CASE Notify(s)
        <5>1. Raced(flight[s]) \in Flight \cup {None}
          BY <1>0, RacedIs DEF TypeOK, Raced
        <5> QED
          BY <1>0, <4>1, <5>1 DEF Notify, TypeOK
      <4>2. CASE Land(s) \/ FetchFails(s)
        BY <1>0, <4>2 DEF Land, FetchFails, TypeOK
      <4> QED
        BY <2>3, <4>1, <4>2
    <3> QED
      BY <1>0, <3>2, <3>3, <3>4, <3>5 DEF TypeOK
  <2> QED
    BY <1>2, <2>1, <2>2, <2>3 DEF ServerNext
<1>3. CASE Tick \/ UNCHANGED vars
  BY <1>0, <1>3 DEF Tick, vars, TypeOK
<1> QED
  BY <1>1, <1>2, <1>3 DEF Next

\* The fetches, the stored lists and those on their way.
LEMMA FlightInductive ==
    ASSUME ToolsInv, [Next]_vars
    PROVE  FlightInv'
<1> USE Constants
<1>0. TypeOK /\ FlightInv
  BY DEF ToolsInv
<1> SUFFICES ASSUME NEW s \in Servers
             PROVE  /\ dropped'[s] <= version'[s]
                    /\ flight'[s] # None =>
                         /\ flight'[s].start <= now' /\ now' <= flight'[s].start + Timeout
                         /\ flight'[s].list # None =>
                              /\ flight'[s].start <= flight'[s].list.read
                              /\ flight'[s].list.version >= dropped'[s] \/ flight'[s].list.raced
  BY DEF FlightInv, Current
<1>1. /\ dropped[s] <= version[s] /\ dropped[s] \in Nat /\ version[s] \in Nat /\ now \in Nat
      /\ flight[s] # None =>
           /\ flight[s] \in Flight
           /\ flight[s].start <= now /\ now <= flight[s].start + Timeout
           /\ flight[s].list # None =>
                /\ flight[s].start <= flight[s].list.read
                /\ flight[s].list.version >= dropped[s] \/ flight[s].list.raced
  BY <1>0 DEF FlightInv, Current, TypeOK
<1>2. ASSUME NEW c \in Callers, CallNext(c)
      PROVE  /\ UNCHANGED <<now, version, dropped>>
             /\ \/ flight'[s] = flight[s]
                \/ flight'[s] = [leader |-> c, start |-> now, list |-> None]
  BY <1>0, <1>2 DEF CallNext, Begin, Cancel, Do, Store, Publish, ListTools, Lookup, TypeOK
<1>3. ASSUME NEW r \in Servers, Land(r) \/ FetchFails(r)
      PROVE  UNCHANGED <<now, version, dropped>> /\ (flight'[s] = flight[s] \/ flight'[s] = None)
  BY <1>0, <1>3 DEF Land, FetchFails, TypeOK
<1>4. ASSUME NEW r \in Servers, ListChanges(r)
      PROVE  UNCHANGED <<now, flight, dropped>> /\ version'[s] >= version[s] /\ version'[s] \in Nat
  BY <1>0, <1>4 DEF ListChanges, TypeOK
<1>5. ASSUME NEW r \in Servers, Notify(r)
      PROVE  /\ UNCHANGED <<now, version>>
             /\ IF s = r THEN dropped'[s] = version[s] /\ flight'[s] = Raced(flight[s])
                         ELSE dropped'[s] = dropped[s] /\ flight'[s] = flight[s]
  BY <1>0, <1>5 DEF Notify, TypeOK
<1>6. CASE \E c \in Callers : CallNext(c)
  <2>1. PICK c \in Callers : CallNext(c)
    BY <1>6
  <2>2. CASE flight'[s] = [leader |-> c, start |-> now, list |-> None]
    BY <1>1, <1>2, <2>1, <2>2
  <2>3. CASE flight'[s] = flight[s]
    BY <1>1, <1>2, <2>1, <2>3
  <2> QED
    BY <1>2, <2>1, <2>2, <2>3
<1>7. CASE \E r \in Servers : Land(r) \/ FetchFails(r) \/ ListChanges(r)
  <2>1. CASE \E r \in Servers : Land(r) \/ FetchFails(r)
    BY <1>1, <1>3, <2>1
  <2>2. CASE \E r \in Servers : ListChanges(r)
    BY <1>1, <1>4, <2>2
  <2> QED
    BY <1>7, <2>1, <2>2
<1>8. ASSUME NEW r \in Servers, Notify(r)
      PROVE  /\ dropped'[s] <= version'[s]
             /\ flight'[s] # None =>
                  /\ flight'[s].start <= now' /\ now' <= flight'[s].start + Timeout
                  /\ flight'[s].list # None =>
                       /\ flight'[s].start <= flight'[s].list.read
                       /\ flight'[s].list.version >= dropped'[s] \/ flight'[s].list.raced
  <2>1. CASE s = r /\ flight[s] # None
    BY <1>1, <1>5, <1>8, <2>1, RacedIs
  <2>2. CASE s = r /\ flight[s] = None
    BY <1>1, <1>5, <1>8, <2>2 DEF Raced
  <2>3. CASE s # r
    BY <1>1, <1>5, <1>8, <2>3
  <2> QED
    BY <2>1, <2>2, <2>3
<1>9. ASSUME NEW r \in Servers, Answer(r)
      PROVE  /\ dropped'[s] <= version'[s]
             /\ flight'[s] # None =>
                  /\ flight'[s].start <= now' /\ now' <= flight'[s].start + Timeout
                  /\ flight'[s].list # None =>
                       /\ flight'[s].start <= flight'[s].list.read
                       /\ flight'[s].list.version >= dropped'[s] \/ flight'[s].list.raced
  <2>1. UNCHANGED <<now, version, dropped>>
    BY <1>9 DEF Answer
  <2>2. CASE s = r
    <3>l. PICK l : l = [version |-> version[s], read |-> now, raced |-> FALSE]
      OBVIOUS
    <3>f. PICK f \in Flight : f = flight[s]
      BY <1>0, <1>9, <2>2 DEF Answer, TypeOK
    <3>g. PICK g : g = [f EXCEPT !.list = l]
      OBVIOUS
    <3>1. flight'[s] = g /\ flight[s] # None
      BY <1>0, <1>9, <2>2, <3>l, <3>f, <3>g DEF Answer, TypeOK
    <3>2. g.start = f.start /\ g.list = l
      BY <3>g DEF Flight
    <3>3. f.start <= now
      BY <1>1, <3>f, <3>1
    <3> QED
      BY <1>1, <2>1, <3>l, <3>f, <3>1, <3>2, <3>3
  <2>3. CASE s # r
    <3>1. flight'[s] = flight[s]
      BY <1>0, <1>9, <2>3 DEF Answer, TypeOK
    <3> QED
      BY <1>1, <2>1, <3>1
  <2> QED
    BY <2>2, <2>3
<1>10. CASE Tick
  <2>1. flight' = flight /\ version' = version /\ dropped' = dropped /\ now' = now + 1
        /\ (flight[s] # None => now < flight[s].start + Timeout /\ flight[s].start \in Nat)
    BY <1>0, <1>10 DEF Tick, TypeOK, Flight
  <2> QED
    BY <1>1, <2>1
<1>11. CASE UNCHANGED vars
  BY <1>1, <1>11 DEF vars
<1> QED
  BY <1>6, <1>7, <1>8, <1>9, <1>10, <1>11 DEF Next, ServerNext

LEMMA LookInductive ==
    ASSUME ToolsInv, [Next]_vars
    PROVE  LookInv'
<1> USE Constants
<1>0. TypeOK /\ FlightInv /\ LookInv
  BY DEF ToolsInv
<1> SUFFICES ASSUME NEW d \in Callers
             PROVE  /\ call'[d].pc \in {"fetch", "waiting", "store"} => call'[d].server \in call'[d].todo
                    /\ call'[d].pc \in {"fetch", "waiting"} => call'[d].since <= now'
                    /\ call'[d].pc = "store" =>
                         /\ call'[d].since <= call'[d].list.read + Timeout
                         /\ call'[d].list.version >= dropped'[call'[d].server] \/ call'[d].list.raced
  BY DEF LookInv, Current
<1>1. /\ call[d] \in Call /\ now \in Nat /\ call[d].since \in Nat
      /\ call[d].pc \in {"fetch", "waiting", "store"} => call[d].server \in call[d].todo
      /\ call[d].pc \in {"fetch", "waiting"} => call[d].since <= now
      /\ call[d].pc = "store" =>
           /\ call[d].since <= call[d].list.read + Timeout
           /\ call[d].list.version >= dropped[call[d].server] \/ call[d].list.raced
           /\ call[d].list \in List
  BY <1>0, CallFields DEF LookInv, Current, TypeOK
<1>2. CASE UNCHANGED <<call, dropped>> /\ now' >= now /\ now' \in Nat
  BY <1>1, <1>2
<1>3. ASSUME NEW c \in Callers, CallNext(c)
      PROVE  /\ call'[d].pc \in {"fetch", "waiting", "store"} => call'[d].server \in call'[d].todo
             /\ call'[d].pc \in {"fetch", "waiting"} => call'[d].since <= now'
             /\ call'[d].pc = "store" =>
                  /\ call'[d].since <= call'[d].list.read + Timeout
                  /\ call'[d].list.version >= dropped'[call'[d].server] \/ call'[d].list.raced
  <2>0. UNCHANGED <<now, dropped>>
    BY <1>3 DEF CallNext, Begin, Cancel, Do, Store, Publish, ListTools, Lookup
  <2>1. CASE call'[d] = call[d]
    BY <1>1, <2>0, <2>1
  <2>2. CASE Begin(c) \/ Cancel(c) \/ Do(c) \/ ListTools(c)
    <3>1. CASE d # c
      BY <1>0, <2>1, <2>2, <3>1, PlainSteps DEF OneCall
    <3>2. CASE d = c
      <4>1. CASE Begin(c) \/ ListTools(c)
        <5>1. call'[d].pc \in {"next", "idle"}
          <6>1. PICK m \in Call : OneCall(c, m) /\ m.pc \in {"next", "idle"}
            <7>1. CASE Begin(c)
              <8>1. ~Cancel(c) /\ ~Do(c) /\ ~ListTools(c)
                BY <1>1, <3>2, <7>1 DEF Begin, Cancel, Do, ListTools
              <8> QED
                BY <1>0, <7>1, <8>1, PlainSteps
            <7>2. CASE ListTools(c)
              <8>1. OneCall(c, Fresh) /\ Fresh.pc = "idle" /\ Fresh \in Call
                BY <1>0, <7>2 DEF ListTools, OneCall, Fresh, Call, TypeOK
              <8> QED
                BY <8>1
            <7> QED
              BY <4>1, <7>1, <7>2
          <6> QED
            BY <3>2, <6>1 DEF OneCall
        <5> QED
          BY <5>1
      <4>2. CASE Cancel(c)
        <5>1. PICK m : m = [call[d] EXCEPT !.cancelled = TRUE]
          OBVIOUS
        <5>2. call'[d] = m
          BY <1>0, <3>2, <4>2, <5>1 DEF Cancel, TypeOK
        <5>3. /\ m.pc = call[d].pc /\ m.server = call[d].server /\ m.since = call[d].since
              /\ m.todo = call[d].todo /\ m.list = call[d].list
          BY <1>1, <5>1 DEF Call
        <5> QED
          BY <1>1, <2>0, <5>2, <5>3
      <4>3. CASE Do(c)
        <5>1. PICK m : m = [call[d] EXCEPT !.pc = "waiting"]
          OBVIOUS
        <5>2. call'[d] = m /\ call[d].pc = "fetch"
          BY <1>0, <3>2, <4>3, <5>1 DEF Do, TypeOK
        <5>3. /\ m.pc = "waiting" /\ m.server = call[d].server /\ m.since = call[d].since
              /\ m.todo = call[d].todo
          BY <1>1, <5>1 DEF Call
        <5> QED
          BY <1>1, <2>0, <5>2, <5>3
      <4> QED
        BY <2>2, <4>1, <4>2, <4>3
    <3> QED
      BY <3>1, <3>2
  <2>3. CASE Store(c) \/ (\E s \in Servers : Lookup(c, s))
    <3>1. CASE d # c
      <4>1. call'[d] = call[d]
        BY <1>0, <2>3, <3>1 DEF Store, Lookup, TypeOK
      <4> QED
        BY <2>1, <4>1
    <3>2. CASE d = c
      <4>1. \A s \in Servers, l \in List : Listed(call[d], s, {l}).pc = "next"
        BY <1>1, ListedNext
      <4>2. CASE Store(c)
        <5>1. call[c].server \in Servers
          BY <1>1, <3>2, <4>2, CallFields DEF Store
        <5>2. call[c].list \in List /\ OneCall(c, Listed(call[c], call[c].server, {call[c].list}))
          BY <1>0, <4>2, <5>1, ListSteps
        <5>3. call'[d].pc = "next"
          BY <3>2, <4>1, <5>1, <5>2 DEF OneCall
        <5> QED
          BY <5>3
      <4>3. CASE \E s \in Servers : Lookup(c, s)
        <5>1. PICK s \in Servers : Lookup(c, s)
          BY <4>3
        <5>2. CASE call'[d].pc = "next"
          BY <5>2
        <5>3. CASE \E m \in Call :
                      /\ OneCall(c, m) /\ m.pc = "fetch" /\ Moved(call[c], m)
                      /\ m.server = s /\ m.since = now
          BY <1>1, <2>0, <3>2, <5>1, <5>3 DEF OneCall, Moved, Lookup
        <5>4. CASE entry[s].list \in List /\ OneCall(c, Listed(call[c], s, {entry[s].list}))
          BY <3>2, <4>1, <5>2, <5>4 DEF OneCall
        <5> QED
          BY <1>0, <5>1, <5>3, <5>4, ListSteps
      <4> QED
        BY <2>3, <4>2, <4>3
    <3> QED
      BY <3>1, <3>2
  <2>4. CASE Publish(c)
    <3>1. call'[d] = call[d] \/ call'[d].pc = "published"
      BY <1>0, <2>4, PublishSteps DEF Goes
    <3> QED
      BY <2>1, <3>1
  <2> QED
    BY <1>3, <2>2, <2>3, <2>4 DEF CallNext
<1>4. ASSUME NEW s \in Servers, Land(s) \/ FetchFails(s) \/ Notify(s)
      PROVE  /\ call'[d].pc \in {"fetch", "waiting", "store"} => call'[d].server \in call'[d].todo
             /\ call'[d].pc \in {"fetch", "waiting"} => call'[d].since <= now'
             /\ call'[d].pc = "store" =>
                  /\ call'[d].since <= call'[d].list.read + Timeout
                  /\ call'[d].list.version >= dropped'[call'[d].server] \/ call'[d].list.raced
  <2>0. now' = now /\ (dropped' = dropped \/ Notify(s))
    BY <1>4 DEF Land, FetchFails, Notify
  <2>1. CASE Notify(s)
    <3>1. \A r \in Servers \ {s} : dropped'[r] = dropped[r]
      BY <1>0, <2>1 DEF Notify, TypeOK
    <3>2. CASE call[d].server = s
      <4>1. call'[d] = Raced(call[d])
        BY <1>0, <2>1, <3>2, WideSteps
      <4> QED
        BY <1>1, <2>0, <4>1, RacedIs DEF Moved
    <3>3. CASE call[d].server # s
      <4>1. call'[d] = call[d] /\ (call[d].pc = "store" => call[d].server \in Servers)
        BY <1>0, <1>1, <2>1, <3>3, WideSteps, CallFields
      <4> QED
        BY <1>1, <2>0, <3>1, <3>3, <4>1
    <3> QED
      BY <3>2, <3>3
  <2>2. CASE Land(s) \/ FetchFails(s)
    <3>0. dropped' = dropped
      BY <2>2 DEF Land, FetchFails
    <3>1. CASE call'[d] = call[d]
      BY <1>1, <2>0, <3>0, <3>1
    <3>2. CASE Land(s) /\ call'[d] # call[d]
      <4>1. /\ call[d].pc = "waiting" /\ call'[d].pc = "store" /\ call[d].server = s
            /\ call'[d].server = s /\ call'[d].todo = call[d].todo
            /\ call'[d].since = call[d].since
            /\ call'[d].list = flight[s].list /\ flight[s].list \in List
        BY <1>0, <3>2, WideSteps DEF Goes, Moved
      <4>2. /\ now <= flight[s].start + Timeout /\ flight[s].start <= flight[s].list.read
            /\ Current(s, flight[s].list) /\ flight[s] \in Flight
        BY <1>0, <3>2, <4>1 DEF FlightInv, Land, TypeOK
      <4>3. call'[d].since <= call'[d].list.read + Timeout
        <5>1. flight[s].start \in Nat /\ flight[s].list.read \in Nat
          BY <4>1, <4>2 DEF Flight, List
        <5> QED
          BY <1>1, <4>1, <4>2, <5>1
      <4> QED
        BY <1>1, <3>0, <4>1, <4>2, <4>3 DEF Current
    <3>3. CASE FetchFails(s) /\ call'[d] # call[d]
      <4>1. call'[d].pc = "next"
        BY <1>0, <1>1, <3>3, WideSteps, ListedLacks
      <4> QED
        BY <4>1
    <3> QED
      BY <2>2, <3>1, <3>2, <3>3
  <2> QED
    BY <1>4, <2>1, <2>2
<1>5. CASE (\E s \in Servers : ListChanges(s) \/ Answer(s)) \/ Tick \/ UNCHANGED vars
  <2>1. UNCHANGED <<call, dropped>> /\ (now' = now \/ now' = now + 1)
    BY <1>5 DEF ListChanges, Answer, Tick, vars
  <2> QED
    BY <1>1, <1>2, <2>1
<1> QED
  BY <1>3, <1>4, <1>5 DEF Next, ServerNext

LEMMA EntryInductive ==
    ASSUME ToolsInv, [Next]_vars
    PROVE  EntryInv'
<1> USE Constants
<1>0. TypeOK /\ EntryInv /\ LookInv
  BY DEF ToolsInv
<1> SUFFICES ASSUME NEW s \in Servers, entry'[s] # None
             PROVE  /\ entry'[s].until <= entry'[s].list.read + Timeout + Ttl
                    /\ entry'[s].list.version >= dropped'[s] \/ entry'[s].list.raced
  BY DEF EntryInv, Current
<1>1. entry[s] # None =>
        /\ entry[s].until <= entry[s].list.read + Timeout + Ttl
        /\ entry[s].list.version >= dropped[s] \/ entry[s].list.raced
  BY <1>0 DEF EntryInv, Current
<1>2. CASE entry'[s] = entry[s] /\ dropped'[s] = dropped[s]
  BY <1>1, <1>2
<1>3. ASSUME NEW c \in Callers, Store(c), entry'[s] # entry[s]
      PROVE  /\ entry'[s].until <= entry'[s].list.read + Timeout + Ttl
             /\ entry'[s].list.version >= dropped'[s] \/ entry'[s].list.raced
  <2>1. /\ entry'[s] = [list |-> call[c].list, until |-> call[c].since + Ttl] /\ s = call[c].server
        /\ dropped' = dropped /\ call[c].pc = "store"
    BY <1>0, <1>3 DEF Store, TypeOK
  <2>2. call[c].list \in List /\ call[c].since \in Nat /\ call[c].list.read \in Nat
    BY <1>0, <2>1, CallFields DEF TypeOK, List
  <2>3. call[c].since <= call[c].list.read + Timeout /\ Current(s, call[c].list)
    BY <1>0, <2>1 DEF LookInv
  <2> QED
    BY <2>1, <2>2, <2>3 DEF Current
<1>4. CASE \E c \in Callers : CallNext(c)
  <2>1. UNCHANGED dropped /\ (entry'[s] = entry[s] \/ \E c \in Callers : Store(c))
    BY <1>4 DEF CallNext, Begin, Cancel, Do, Store, Publish, ListTools, Lookup
  <2> QED
    BY <1>2, <1>3, <2>1
<1>5. CASE (\E r \in Servers : ServerNext(r)) \/ Tick \/ UNCHANGED vars
  <2>1. ASSUME NEW r \in Servers, Notify(r)
        PROVE  s # r /\ entry'[s] = entry[s] /\ dropped'[s] = dropped[s]
    BY <1>0, <2>1 DEF Notify, TypeOK
  <2>2. CASE ~\E r \in Servers : Notify(r)
    BY <1>2, <1>5, <2>2 DEF ServerNext, ListChanges, Answer, Land, FetchFails, Tick, vars
  <2> QED
    BY <1>2, <2>1, <2>2
<1> QED
  BY <1>4, <1>5 DEF Next

\* What Refresh gathers: a list of the next server, or none.
LEMMA GatheredMore ==
    ASSUME NEW k \in Call, Gathered(k), NEW s \in Servers, NEW m
    PROVE  /\ \A l \in List : s \in k.todo /\ m = Listed(k, s, {l}) => Gathered(m)
           /\ m = Listed(k, s, {}) => Gathered(m)
           /\ Moved(k, m) => Gathered(m)
<1>1. ASSUME NEW l \in List, s \in k.todo, m = Listed(k, s, {l}) PROVE Gathered(m)
  <2>o. PICK o : o = [server |-> s, version |-> l.version]
    OBVIOUS
  <2>1. o.server = s
    BY <2>o
  <2>2. m.todo = k.todo \ {s} /\ m.got = k.got \cup {o} /\ m.lacks = k.lacks
    BY <1>1, <2>o, ListedHas
  <2> QED
    BY <1>1, <2>1, <2>2 DEF Gathered, OneEach
<1>2. ASSUME m = Listed(k, s, {}) PROVE Gathered(m)
  <2>1. m.todo = k.todo \ {s} /\ m.got = k.got /\ m.lacks = k.lacks \cup {s}
    BY <1>2, ListedLacks
  <2> QED
    BY <2>1 DEF Gathered
<1>3. ASSUME Moved(k, m) PROVE Gathered(m)
  BY <1>3 DEF Moved, Gathered
<1> QED
  BY <1>1, <1>2, <1>3

LEMMA GatherInductive ==
    ASSUME ToolsInv, [Next]_vars
    PROVE  GatherInv'
<1> DEFINE Gathers(k) == k.pc \in {"next", "fetch", "waiting", "store"}
           Covered(k, offers) == \A s \in Servers : s \in k.lacks \/ \E o \in offers : o.server = s
           Good(k, offers) == /\ Gathers(k) => Gathered(k)
                              /\ k.pc = "published" => Covered(k, offers)
<1>0. TypeOK /\ LookInv
  BY DEF ToolsInv
<1>1. OneEach(tools) /\ \A d \in Callers : call[d] \in Call /\ Good(call[d], tools)
  BY <1>0 DEF ToolsInv, GatherInv, TypeOK
<1> SUFFICES OneEach(tools') /\ \A d \in Callers : Good(call'[d], tools')
  BY DEF GatherInv, OneEach, Gathered
<1> HIDE DEF Gathers, Covered
<1>2. ASSUME NEW c \in Callers, CallNext(c), ~Publish(c)
      PROVE  OneEach(tools') /\ \A d \in Callers : Good(call'[d], tools')
  <2>1. tools' = tools
    BY <1>2 DEF CallNext, Begin, Cancel, Do, Store, ListTools, Lookup
  <2>k. PICK k \in Call : k = call[c] /\ Good(k, tools)
    BY <1>1
  <2>2. PICK m : OneCall(c, m) /\ Good(m, tools)
    <3>1. CASE Begin(c) \/ Cancel(c) \/ Do(c) \/ ListTools(c)
      <4>1. PICK m \in Call :
               /\ OneCall(c, m)
               /\ \/ m.pc = "next" /\ m.todo = Servers /\ m.got = {}
                  \/ Moved(k, m) /\ m.pc = k.pc
                  \/ Goes(k, m, "fetch", "waiting")
                  \/ m.pc = "idle"
        BY <1>0, <2>k, <3>1, PlainSteps
      <4>2. CASE m.pc = "next" /\ m.todo = Servers /\ m.got = {}
        BY <4>1, <4>2 DEF Gathers, Gathered, OneEach
      <4>3. CASE Moved(k, m) /\ m.pc = k.pc
        <5>1. Gathered(k) => Gathered(m)
          BY <4>3 DEF Moved, Gathered
        <5> QED
          BY <2>k, <4>1, <4>3, <5>1 DEF Gathers, Covered, Moved
      <4>4. CASE Goes(k, m, "fetch", "waiting")
        <5>1. Gathered(k) => Gathered(m)
          BY <4>4 DEF Goes, Moved, Gathered
        <5> QED
          BY <2>k, <4>1, <4>4, <5>1 DEF Gathers, Goes
      <4>5. CASE m.pc = "idle"
        BY <4>1, <4>5 DEF Gathers
      <4> QED
        BY <4>1, <4>2, <4>3, <4>4, <4>5
    <3>2. CASE \E s \in Servers : Lookup(c, s)
      <4>1. PICK s \in Servers : Lookup(c, s)
        BY <3>2
      <4>2. s \in k.todo /\ k.pc = "next" /\ Gathered(k)
        BY <2>k, <4>1 DEF Lookup, Gathers
      <4>3. CASE entry[s].list \in List /\ OneCall(c, Listed(k, s, {entry[s].list}))
        <5>m. PICK m : m = Listed(k, s, {entry[s].list})
          OBVIOUS
        <5>1. Gathered(m) /\ m.pc = "next"
          BY <4>2, <4>3, <5>m, GatheredMore, ListedNext
        <5> QED
          BY <4>3, <5>m, <5>1
      <4>4. CASE \E m \in Call : OneCall(c, m) /\ m.pc = "fetch" /\ Moved(k, m)
        <5>1. PICK m \in Call : OneCall(c, m) /\ m.pc = "fetch" /\ Moved(k, m)
          BY <4>4
        <5>2. Gathered(m)
          BY <4>2, <5>1 DEF Moved, Gathered
        <5> QED
          BY <5>1, <5>2
      <4> QED
        BY <1>0, <2>k, <4>1, <4>3, <4>4, ListSteps
    <3>3. CASE Store(c)
      <4>1. k.pc = "store" /\ k.server \in k.todo
        BY <1>0, <2>k, <3>3 DEF LookInv, Store
      <4>s. PICK s \in Servers : s = k.server
        BY <4>1, CallFields
      <4>2. k.list \in List /\ OneCall(c, Listed(k, s, {k.list}))
        BY <1>0, <2>k, <3>3, <4>s, ListSteps
      <4>m. PICK m : m = Listed(k, s, {k.list})
        OBVIOUS
      <4>3. Gathered(k)
        BY <2>k, <4>1 DEF Gathers
      <4>4. Gathered(m) /\ m.pc = "next"
        BY <4>1, <4>2, <4>3, <4>m, <4>s, GatheredMore, ListedNext
      <4> QED
        BY <4>2, <4>m, <4>4
    <3> QED
      BY <1>2, <3>1, <3>2, <3>3 DEF CallNext
  <2> QED
    BY <1>1, <2>1, <2>2 DEF OneCall
<1>3. ASSUME NEW c \in Callers, Publish(c)
      PROVE  OneEach(tools') /\ \A d \in Callers : Good(call'[d], tools')
  <2>1. tools' = call[c].got /\ call[c].pc = "next" /\ call[c].todo = {}
    BY <1>3 DEF Publish
  <2>2. Gathered(call[c])
    BY <1>1, <2>1 DEF Gathers
  <2>3. Covered(call[c], tools')
    BY <2>1, <2>2 DEF Gathered, Covered
  <2>4. ASSUME NEW d \in Callers PROVE Good(call'[d], tools')
    <3>1. CASE d = c
      <4>1. call'[d].pc = "published" /\ call'[d].lacks = call[c].lacks
        BY <1>0, <1>3, <3>1, PublishSteps DEF Goes, Moved
      <4> QED
        BY <2>3, <4>1 DEF Gathers, Covered
    <3>2. CASE d # c /\ call[d].pc = "published"
      <4>1. call'[d].pc = "published" /\ call'[d].lacks = call[d].lacks \cup call[c].lacks
        BY <1>0, <1>3, <3>2, PublishSteps
      <4> QED
        BY <2>3, <4>1 DEF Gathers, Covered
    <3>3. CASE d # c /\ call[d].pc # "published"
      <4>1. call'[d] = call[d]
        BY <1>0, <1>3, <3>3, PublishSteps
      <4> QED
        BY <1>1, <3>3, <4>1
    <3> QED
      BY <3>1, <3>2, <3>3
  <2> QED
    BY <2>1, <2>2, <2>4 DEF Gathered
<1>4. ASSUME NEW s \in Servers, Land(s) \/ FetchFails(s) \/ Notify(s)
      PROVE  OneEach(tools') /\ \A d \in Callers : Good(call'[d], tools')
  <2>1. tools' = tools
    BY <1>4 DEF Land, FetchFails, Notify
  <2>2. ASSUME NEW d \in Callers PROVE Good(call'[d], tools)
    <3>k. PICK k \in Call : k = call[d] /\ Good(k, tools)
      BY <1>1
    <3>m. PICK m : m = call'[d]
      OBVIOUS
    <3>1. CASE m = k
      BY <3>1, <3>k, <3>m
    <3>2. CASE Goes(k, m, "waiting", "store")
      <4>1. Gathered(k) => Gathered(m)
        BY <3>2 DEF Goes, Moved, Gathered
      <4> QED
        BY <3>2, <3>k, <3>m, <4>1 DEF Gathers, Goes
    <3>3. CASE k.pc = "waiting" /\ m = Listed(k, s, {})
      <4>1. m.pc = "next" /\ Gathered(m)
        BY <3>3, <3>k, GatheredMore, ListedLacks DEF Gathers
      <4> QED
        BY <3>m, <4>1
    <3>4. CASE m = Raced(k)
      <4>1. Moved(k, m) /\ m.pc = k.pc
        BY <3>4, RacedIs
      <4>2. Gathered(k) => Gathered(m)
        BY <4>1 DEF Moved, Gathered
      <4> QED
        BY <3>k, <3>m, <4>1, <4>2 DEF Gathers, Covered, Moved
    <3> QED
      BY <1>0, <1>4, <3>k, <3>m, <3>1, <3>2, <3>3, <3>4, WideSteps
  <2> QED
    BY <1>1, <2>1, <2>2
<1>5. CASE (\E s \in Servers : ListChanges(s) \/ Answer(s)) \/ Tick \/ UNCHANGED vars
  <2>1. UNCHANGED <<call, tools>>
    BY <1>5 DEF ListChanges, Answer, Tick, vars
  <2> QED
    BY <1>1, <2>1
<1> QED
  BY <1>2, <1>3, <1>4, <1>5 DEF Next, ServerNext

-----------------------------------------------------------------------------
LEMMA ToolsInvariant == Spec => []ToolsInv
<1>1. Init => ToolsInv
  <2> SUFFICES ASSUME Init PROVE ToolsInv
    OBVIOUS
  <2>f. Fresh \in Call /\ Fresh.pc = "idle"
    BY Constants DEF Fresh, Call
  <2>1. TypeOK
    BY <2>f, Constants DEF Init, TypeOK
  <2>2. FlightInv /\ EntryInv
    BY Constants DEF Init, FlightInv, EntryInv
  <2>3. LookInv /\ GatherInv
    BY <2>f DEF Init, LookInv, GatherInv, OneEach
  <2> QED
    BY <2>1, <2>2, <2>3 DEF ToolsInv
<1>2. ToolsInv /\ [Next]_vars => ToolsInv'
  BY TypeInductive, FlightInductive, EntryInductive, LookInductive, GatherInductive DEF ToolsInv
<1> QED
  BY <1>1, <1>2, PTL DEF Spec

\* How old a cached list of tools can be, and which change of its server it may miss:
\* ListToolsCached dates a list by the moment its caller asked and stores what came
\* back although InvalidateServerTools ran meanwhile (tools_list_cache.go:146-223).
THEOREM CachedListsAreFresh == Spec => []ListFreshness
<1>1. ToolsInv => ListFreshness
  <2> SUFFICES ASSUME ToolsInv, NEW s \in Servers, entry[s] # None
               PROVE  /\ entry[s].until <= entry[s].list.read + Timeout + Ttl
                      /\ entry[s].list.version < dropped[s] => entry[s].list.raced
    BY DEF ListFreshness, ListAge, StaleOnlyIfRaced
  <2>1. entry[s].list.version \in Nat /\ dropped[s] \in Nat
    BY Constants DEF ToolsInv, TypeOK, Entry, List
  <2> QED
    BY <2>1 DEF ToolsInv, EntryInv, Current
<1> QED
  BY <1>1, ToolsInvariant, PTL

\* What GenerationTools offers a generation: of every server one list, unless its fetch
\* failed in this Refresh or in one that published since (registry.go:120-157, 280-300).
THEOREM OffersAreComplete == Spec => []OfferedTools
<1>1. ToolsInv => OfferedTools
  <2> SUFFICES ASSUME ToolsInv PROVE OfferedTools
    OBVIOUS
  <2>1. ASSUME NEW s \in Servers PROVE Cardinality({o \in tools : o.server = s}) <= 1
    <3>1. CASE {o \in tools : o.server = s} = {}
      BY <3>1, FS_EmptySet
    <3>2. CASE {o \in tools : o.server = s} # {}
      <4>1. PICK o \in tools : o.server = s
        BY <3>2
      <4>2. {p \in tools : p.server = s} = {o}
        BY <4>1 DEF ToolsInv, GatherInv, OneEach
      <4> QED
        BY <4>2, FS_Singleton
    <3> QED
      BY <3>1, <3>2
  <2>2. ASSUME NEW c \in Callers, call[c].pc = "published"
        PROVE  Servers \ {o.server : o \in tools} \subseteq call[c].lacks
    BY <2>2 DEF ToolsInv, GatherInv
  <2> QED
    BY <2>1, <2>2 DEF OfferedTools
<1> QED
  BY <1>1, ToolsInvariant, PTL

=============================================================================
