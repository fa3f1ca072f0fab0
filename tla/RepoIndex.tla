----------------------------- MODULE RepoIndex ------------------------------
(***************************************************************************)
(* The index of one workspace (internal/service/index.go, index_split.go,  *)
(* qdrant.go): chunks and an import graph in memory under a lock, vectors  *)
(* in a remote qdrant collection.                                          *)
(*                                                                         *)
(* Sync changes the memory in one critical section and the remote points   *)
(* after it, one call at a time, ignoring errors; requests overlap.        *)
(* Search copies the chunks under the lock, then ranks them without it.    *)
(*                                                                         *)
(* A chunk has an id <<name, segment>>; clients know segment 0, the others *)
(* are made by the server from an oversized chunk.  Scores are abstracted: *)
(* a ranking is any choice of hits within the limit.                       *)
(***************************************************************************)
EXTENDS Integers, Sequences, FiniteSets, FiniteSetsExt

CONSTANTS Names,      \* ids of the clients
          Paths,
          Symbols,
          Requests,   \* IndexSyncRequest: [delete, upsert, keep], each chunk as in Chunks
          Segments,   \* segments of an oversized chunk
          MaxChunks,  \* MaxIndexChunks, 0: no limit
          Syncs,      \* bound: the Sync calls, each made once
          Limit,      \* SearchRequest.Limit
          None

Ids == Names \X (0..(Segments - 1))

\* What a client sends: text is the version of the content, big if it is over
\* serverMaxChunkBytes.
Chunks == [id : Ids, path : Paths, text : Nat, big : BOOLEAN, imports : SUBSET Paths,
           symbol : Symbols \cup {None}]

ASSUME RepoIndexAssumption ==
    /\ Segments \in Nat \ {0}
    /\ MaxChunks \in Nat
    /\ Limit \in Nat \ {0}
    \* Clients do not send the ids the server makes for segments.
    /\ Requests \subseteq [delete : SUBSET Ids, upsert : Seq(Chunks), keep : SUBSET Ids]
    /\ \A r \in Requests : \A i \in DOMAIN r.upsert : r.upsert[i].id[2] = 0
    /\ None \notin Symbols /\ None \notin Nat
    /\ (\A i \in Ids : i # None) /\ (\A P \in SUBSET Paths : P # None)

VARIABLES
    store,       \* chunks by id: [chunk, embed, by], by the call that made the object
    imports,     \* imports[path], None where there is no entry
    importedBy,
    symbols,     \* symbol to id
    remote,      \* points of the collection: the text whose vector is stored
    call,        \* the Sync calls
    find,        \* the locals of a Search
    spoiled,     \* history: ids whose remote call failed, was skipped or overlapped another
    rewritten,   \* history: paths and symbols of chunks that were replaced by another text
    moved,       \* history: paths with a chunk that was replaced by one of another path
    removed,     \* history: paths that lost a chunk
    crowded,     \* history: paths whose imports a second chunk wrote
    dropped,     \* history: names with a segment removed by keep_ids
    orphans,     \* history: ids a call upserts remotely after its own keep_ids removed them
    stale        \* history: names that were deleted or replaced

vars == <<store, imports, importedBy, symbols, remote, call, find,
          spoiled, rewritten, moved, removed, crowded, dropped, orphans, stale>>

graph == <<imports, importedBy, symbols>>
drift == <<rewritten, moved, removed, crowded, dropped, orphans, stale>>

Idle == [pc |-> "idle", delete |-> {}, upsert |-> <<>>]
NoSearch == [pc |-> "idle", chunks |-> {}, hits |-> {}, seen |-> {}]

Init ==
    /\ store = <<>>
    /\ imports = [p \in Paths |-> None]
    /\ importedBy = [p \in Paths |-> {}]
    /\ symbols = [s \in Symbols |-> None]
    /\ remote = <<>>
    /\ call = [c \in Syncs |-> Idle]
    /\ find = NoSearch
    /\ spoiled = {} /\ rewritten = {} /\ moved = {} /\ removed = {} /\ crowded = {}
    /\ dropped = {} /\ orphans = {} /\ stale = {}

-----------------------------------------------------------------------------
(* expandOversizedChunks.                                                  *)

\* Segment i of a chunk: only the first keeps the imports.
Segment(c, i) ==
    [c EXCEPT !.id = <<c.id[1], i>>, !.imports = IF i = 0 THEN @ ELSE {}]

\* Mutant: the last segment is lost.
ExpandedLosesLast(c) ==
    IF c.big THEN [i \in 1..(Segments - 1) |-> Segment(c, i - 1)] ELSE <<c>>

Expanded(c) == IF c.big THEN [i \in 1..Segments |-> Segment(c, i - 1)] ELSE <<c>>

expandOversizedChunks(chunks) ==
    LET flat[n \in 0..Len(chunks)] ==
          IF n = 0 THEN <<>> ELSE flat[n - 1] \o Expanded(chunks[n])
    IN  flat[Len(chunks)]

-----------------------------------------------------------------------------
(* The critical section of Sync, on a record m of the state under the lock. *)

Without(f, ids) == [i \in DOMAIN f \ ids |-> f[i]]
With(f, id, v) == [i \in DOMAIN f \cup {id} |-> IF i = id THEN v ELSE f[i]]

\* Mutant: the edges back to the path stay.
removeGraphKeepsBackEdges(m, chunks) ==
    [m EXCEPT !.imports = [p \in Paths |-> IF \E c \in chunks : c.path = p THEN None ELSE @[p]],
              !.symbols = [s \in Symbols |-> IF \E c \in chunks : s = c.symbol /\ @[s] = c.id
                                             THEN None ELSE @[s]],
              !.removed = @ \cup {c.path : c \in chunks}]

\* removeGraphLocked for each of these chunks, in any order: the whole entry of a
\* path goes, whichever chunk wrote it.
removeGraphLocked(m, chunks) ==
    [m EXCEPT !.imports = [p \in Paths |-> IF \E c \in chunks : c.path = p THEN None ELSE @[p]],
              !.importedBy = [p \in Paths |-> @[p] \ {c.path : c \in {d \in chunks : p \in d.imports}}],
              !.symbols = [s \in Symbols |-> IF \E c \in chunks : s = c.symbol /\ @[s] = c.id
                                             THEN None ELSE @[s]],
              !.removed = @ \cup {c.path : c \in chunks}]

\* updateGraphLocked: the entry of the path is overwritten.
updateGraphLocked(m, c) ==
    [m EXCEPT !.imports[c.path] = c.imports,
              !.importedBy = [p \in Paths |-> IF p \in c.imports THEN @[p] \cup {c.path} ELSE @[p]],
              !.symbols = [s \in Symbols |-> IF s = c.symbol THEN c.id ELSE @[s]],
              !.crowded = IF \E i \in DOMAIN m.store : i # c.id /\ m.store[i].chunk.path = c.path
                          THEN @ \cup {c.path} ELSE @]

\* The chunks with these ids.
ChunksOf(m, ids) == {m.store[i].chunk : i \in ids}

\* A client asks for the removal of ids.
DeleteAll(m, ids) ==
    LET gone == ids \cap DOMAIN m.store
    IN  [removeGraphLocked(m, ChunksOf(m, gone)) EXCEPT
            !.store = Without(@, ids),
            !.deleted = @ \cup ids,
            !.stale = @ \cup {id[1] : id \in gone}]

\* One chunk replaces the one with its id; its vector stays if the text does.
Upsert(m, c, k) ==
    LET old == IF c.id \in DOMAIN m.store THEN {m.store[c.id]} ELSE {}
        same == {o \in old : o.chunk.text = c.text /\ o.chunk.big = c.big}
        kept == IF same = {} THEN None ELSE (CHOOSE o \in same : TRUE).embed
        n == [m EXCEPT !.store = With(@, c.id, [chunk |-> c, embed |-> kept, by |-> k]),
                       !.rewritten = @ \cup UNION {{o.chunk.path, o.chunk.symbol} : o \in old},
                       !.moved = @ \cup {o.chunk.path : o \in {x \in old : x.chunk.path # c.path}},
                       !.stale = IF c.id[2] = 0 /\ old # {} THEN @ \cup {c.id[1]} ELSE @]
    IN  updateGraphLocked(n, c)

UpsertAll(m, chunks, k) ==
    LET done[n \in 0..Len(chunks)] ==
          IF n = 0 THEN m ELSE Upsert(done[n - 1], chunks[n], k)
    IN  done[Len(chunks)]

\* What keep_ids takes out of the store: all that the client does not list, segments
\* of the server too.  An empty list keeps everything.
Unkept(m, keep) == IF keep = {} THEN {} ELSE DOMAIN m.store \ keep

\* Mutant: what keep_ids removes is not removed from the remote index.
KeepOnlyHere(m, keep) ==
    LET gone == Unkept(m, keep)
    IN  [removeGraphLocked(m, ChunksOf(m, gone)) EXCEPT
            !.store = Without(@, gone),
            !.dropped = @ \cup {id[1] : id \in gone}]

KeepOnly(m, keep) ==
    LET gone == Unkept(m, keep)
    IN  [removeGraphLocked(m, ChunksOf(m, gone)) EXCEPT
            !.store = Without(@, gone),
            !.deleted = @ \cup gone,
            !.dropped = @ \cup {id[1] : id \in gone}]

Memory ==
    [store |-> store, imports |-> imports, importedBy |-> importedBy, symbols |-> symbols,
     deleted |-> {}, rewritten |-> rewritten, moved |-> moved, removed |-> removed, crowded |-> crowded,
     dropped |-> dropped, stale |-> stale]

\* The ids a call has still to delete or upsert remotely.
Pending(k) == k.delete \cup {k.upsert[i].id : i \in DOMAIN k.upsert}

\* Sync up to its unlock.  Over the limit it returns an error; the memory keeps
\* the chunks, the remote index is not told.
SyncApplies(c, r) ==
    LET up == expandOversizedChunks(r.upsert)
        m == KeepOnly(UpsertAll(DeleteAll(Memory, r.delete), up, c), r.keep)
        touched == m.deleted \cup {up[i].id : i \in DOMAIN up}
        over == MaxChunks > 0 /\ Cardinality(DOMAIN m.store) > MaxChunks
        busy == UNION {Pending(call[d]) : d \in Syncs}
    IN  /\ call[c].pc = "idle"
        /\ store' = m.store
        /\ imports' = m.imports /\ importedBy' = m.importedBy /\ symbols' = m.symbols
        /\ rewritten' = m.rewritten /\ moved' = m.moved /\ removed' = m.removed /\ crowded' = m.crowded
        /\ dropped' = m.dropped /\ stale' = m.stale
        /\ call' = [call EXCEPT ![c] = IF over THEN [Idle EXCEPT !.pc = "error"]
                                       ELSE [pc |-> "delete", delete |-> m.deleted, upsert |-> up]]
        /\ spoiled' = spoiled \cup (IF over THEN touched ELSE touched \cap busy)
        /\ orphans' = orphans \cup ({up[i].id : i \in DOMAIN up} \ DOMAIN m.store)
        /\ find' = [find EXCEPT !.seen = IF find.pc \in {"idle", "done"} THEN @
                                         ELSE @ \cup {m.store[i].chunk : i \in DOMAIN m.store}]
        /\ UNCHANGED remote

\* QdrantClient.do: the points change or the call fails; Sync ignores the error.
Do(points, ids) ==
    \/ remote' = points /\ UNCHANGED spoiled
    \/ spoiled' = spoiled \cup ids /\ UNCHANGED remote

QdrantDelete(ids) ==
    IF ids = {} THEN UNCHANGED <<remote, spoiled>> ELSE Do(Without(remote, ids), ids)

\* The vector of the text is had first: that may fail too, or the client has left.
QdrantUpsert(u) == Do(With(remote, u.id, u.text), {u.id})

SyncDeletes(c) ==
    /\ call[c].pc = "delete"
    /\ QdrantDelete(call[c].delete)
    /\ call' = [call EXCEPT ![c].pc = "upsert", ![c].delete = {}]
    /\ UNCHANGED <<store, graph, find, drift>>

SyncUpserts(c) ==
    /\ call[c].pc = "upsert"
    /\ call[c].upsert # <<>>
    /\ QdrantUpsert(Head(call[c].upsert))
    /\ call' = [call EXCEPT ![c].upsert = Tail(@)]
    /\ UNCHANGED <<store, graph, find, drift>>

SyncReturns(c) ==
    /\ call[c].pc = "upsert"
    /\ call[c].upsert = <<>>
    /\ call' = [call EXCEPT ![c].pc = "ok"]
    /\ UNCHANGED <<store, graph, remote, find, spoiled, drift>>

-----------------------------------------------------------------------------
(* Search.                                                                 *)

Objects == {store[i] : i \in DOMAIN store}

\* hitFromChunk, and any ranking (BM25 or cosine) cut to the limit.
Hit(o) == o.chunk
Ranked(objects) == {hits \in SUBSET {Hit(o) : o \in objects} : Cardinality(hits) <= Limit}

\* The keyword search needs nothing that is shared.
searchKeyword(mode) == IF mode = "semantic" THEN {{}} ELSE Ranked(Objects)

\* handleSearch passes on what the client asks for; other modes are as "keyword".
Modes == {"keyword", "semantic", "hybrid"}

\* Up to the RUnlock and the keyword search.
SearchBegins(mode) ==
    /\ find.pc = "idle"
    /\ \E hits \in searchKeyword(mode) :
          find' = [pc |-> CASE store = <<>> -> "done"
                            [] store # <<>> /\ mode = "keyword" -> "expand"
                            [] OTHER -> "remote",
                   chunks |-> IF mode = "keyword" THEN {} ELSE Objects, hits |-> hits,
                   seen |-> {Hit(o) : o \in Objects}]
    /\ UNCHANGED <<store, graph, remote, call, spoiled, drift>>

\* mergeHits of the two rankings: by id, the best within the limit.
mergeHits(a, b) ==
    {hits \in SUBSET (a \cup b) :
        /\ \A x, y \in hits : x.id = y.id => x = y
        /\ Cardinality(hits) = Min({Limit, Cardinality({h.id : h \in a \cup b})})}

\* Mutant: points the snapshot does not know are hits as well.
searchQdrantAsFound(ids) == {[id |-> i, path |-> CHOOSE p \in Paths : TRUE, text |-> remote[i],
                              big |-> FALSE, imports |-> {}, symbol |-> None] : i \in ids}

\* searchQdrant: points that the snapshot does not know are left out.
searchQdrant(ids) == {Hit(o) : o \in {x \in find.chunks : x.chunk.id \in ids}}

\* The hits are had; the graph is next.
Expanding(hits) == [find EXCEPT !.pc = "expand", !.hits = hits, !.chunks = {}]

\* The points found by QdrantClient.Search; with no hit among them, or an error, the
\* local ranking follows.
SearchRemote ==
    /\ find.pc = "remote"
    /\ \/ \E ids \in SUBSET DOMAIN remote :
            /\ Cardinality(ids) <= Limit
            /\ searchQdrant(ids) # {}
            /\ \E hits \in mergeHits(find.hits, searchQdrant(ids)) :
                  find' = Expanding(hits)
       \/ find' = [find EXCEPT !.pc = "local"]
    /\ UNCHANGED <<store, graph, remote, call, spoiled, drift>>

\* indexedChunk.embedding: the object keeps its vector.
embedding(o) == [o EXCEPT !.embed = IF @ = None THEN o.chunk.text ELSE @]

\* The store once the vectors of these objects are written to them, whether they are
\* still in the store or not.
Embedded(got) ==
    [i \in DOMAIN store |-> IF \E o \in got : o.chunk = store[i].chunk /\ o.by = store[i].by
                            THEN embedding(store[i]) ELSE store[i]]

\* The local ranking: the vectors of some chunks of the snapshot are there or can be
\* had.
SearchLocal ==
    /\ find.pc = "local"
    /\ \E got \in SUBSET find.chunks :
          /\ store' = Embedded(got)
          /\ \E near \in Ranked(got) : \E hits \in mergeHits(find.hits, near) :
                find' = Expanding(hits)
    /\ UNCHANGED <<graph, remote, call, spoiled, drift>>

\* What the graph relates to a hit.
Related(h) == IF imports[h.path] = None THEN {} ELSE imports[h.path]

\* expandHitsWithGraph reads the graph and the store as they are now: each related
\* path of a hit adds one chunk that is no hit yet, until there are twice the limit;
\* then the best are kept.
SearchExpands ==
    /\ find.pc = "expand"
    /\ LET linked(p) == {h \in find.hits : p \in Related(h)}
           new == {Hit(o) : o \in {x \in Objects : \A h \in find.hits : h.id # x.chunk.id}}
       IN  \E more \in SUBSET {c \in new : linked(c.path) # {}} :
              /\ \A c \in more :
                    Cardinality({x \in more : x.path = c.path}) <= Cardinality(linked(c.path))
              /\ Cardinality(find.hits \cup more) <= 2 * Limit
              /\ \E hits \in mergeHits(find.hits, more) :
                    find' = [find EXCEPT !.pc = "done", !.hits = hits]
    /\ UNCHANGED <<store, graph, remote, call, spoiled, drift>>

Rest ==
    /\ \A c \in Syncs : call[c].pc \in {"ok", "error"}
    /\ find.pc = "done"
    /\ UNCHANGED vars

-----------------------------------------------------------------------------

Next ==
    \/ \E c \in Syncs : (\E r \in Requests : SyncApplies(c, r))
                          \/ SyncDeletes(c) \/ SyncUpserts(c) \/ SyncReturns(c)
    \/ \E mode \in Modes : SearchBegins(mode)
    \/ SearchRemote \/ SearchLocal \/ SearchExpands
    \/ Rest

Spec == Init /\ [][Next]_vars

-----------------------------------------------------------------------------

\* When no Sync is under way the remote points are the chunks of the store with
\* the vectors of their texts, except those whose remote call failed, was left
\* out by a request over the limit, or was made beside that of another request,
\* and except the points of chunks that keep_ids took out of the store in the very
\* call that brings them: Sync upserts them remotely after it has deleted them.
RemoteFollows ==
    (\A c \in Syncs : call[c].pc \in {"idle", "ok", "error"}) =>
        \A i \in Ids \ spoiled :
            /\ i \in DOMAIN store => i \in DOMAIN remote /\ remote[i] = store[i].chunk.text
            /\ i \in DOMAIN remote => i \in DOMAIN store \cup orphans

\* RepoIndex.Graph, as clients ask for it.
Graph(p, s) == [imports |-> Related([path |-> p]), importedBy |-> importedBy[p], chunk |-> symbols[s]]

\* What the chunks of the store say of a path.
Imports(p) == UNION {o.chunk.imports : o \in {x \in Objects : x.chunk.path = p}}

\* How the graph may differ from the chunks.  imports names an import that no chunk
\* of the path has only if a chunk moved to another path; it misses one only then,
\* or if the path has lost a chunk, or if another chunk of the path, as the second
\* segment of an oversized one, wrote the entry.
\* importedBy misses an edge only if the path lost a chunk and has a false one only
\* if a chunk of the path was replaced.  A symbol points to a chunk that has it,
\* unless a chunk with the symbol was replaced.
GraphDrift ==
    \A p \in Paths, s \in Symbols :
        LET answer == Graph(p, s)
        IN  /\ ~(answer.imports \subseteq Imports(p)) => p \in moved
            /\ answer.imports # Imports(p) => p \in removed \cup crowded \cup moved
            /\ \A q \in Paths :
                 /\ p \in Imports(q) /\ q \notin answer.importedBy => q \in removed
                 /\ q \in answer.importedBy /\ p \notin Imports(q) => q \in rewritten
            /\ answer.chunk # None /\ s \notin rewritten =>
                 answer.chunk \in DOMAIN store /\ store[answer.chunk].chunk.symbol = s

\* The segments of an oversized chunk stand together: one is missing only after
\* keep_ids, which clients send without them, and one is left over, or of an older
\* text, only after its chunk was deleted or replaced.
SegmentsDrift ==
    \A n \in Names :
        LET has(i) == <<n, i>> \in DOMAIN store
        IN  \A i \in 1..(Segments - 1) :
              /\ has(0) /\ store[<<n, 0>>].chunk.big /\ ~has(i) => n \in dropped \cup stale
              /\ has(i) /\ (~has(0) \/ store[<<n, 0>>].chunk.text # store[<<n, i>>].chunk.text)
                    => n \in stale \cup dropped

\* Every hit is a chunk that was in the store at some time during the search, no
\* chunk is found twice however often it changed meanwhile, no more are found than
\* asked for, and a chunk is ranked by the vector of its own text.
FoundIsIndexed ==
    /\ find.hits \subseteq find.seen
    /\ Cardinality(find.hits) <= Limit
    /\ \A x, y \in find.hits : x.id = y.id => x = y
    /\ \A i \in DOMAIN store : store[i].embed \in {None, store[i].chunk.text}

=============================================================================
