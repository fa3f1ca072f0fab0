------------------------------ MODULE ToolCalls ------------------------------
(***************************************************************************)
(* How the text of a model becomes calls of tools                          *)
(* (pkg/toolloop/parse_resolve.go).                                        *)
(*                                                                         *)
(* A text is a sequence of tokens: words, white space, JSON values, fenced *)
(* blocks with one JSON value, and the two halves of a value that reached  *)
(* the program in two chunks.  What the extractors tell apart is kept: is  *)
(* a value an array or an object, which rows does it hold, what is nested  *)
(* in it, which fence is around it.  An extractor returns <<>> or <<v>>.   *)
(***************************************************************************)
EXTENDS Naturals, Sequences, SequencesExt

\* Names as models write them: an alias mcp_<sid>_h<hex of orig>, an alias with
\* a wrong hex part, a short name, the name of the direct answer, or nothing.
\* raw: written with capitals or hyphens.
Alias(sid, orig) == [k |-> "alias", sid |-> sid, orig |-> orig, raw |-> FALSE]
WrongAlias(sid) == [k |-> "wrong", sid |-> sid, orig |-> "", raw |-> FALSE]
Short(orig) == [k |-> "short", sid |-> 0, orig |-> orig, raw |-> FALSE]
Direct == [k |-> "direct", sid |-> 0, orig |-> "", raw |-> FALSE]
Blank == [k |-> "blank", sid |-> 0, orig |-> "", raw |-> FALSE]

\* Parameters: absent or null, an object, an object with an answer or an empty
\* answer, another JSON value, a string that holds no JSON.
Params == {"none", "object", "answer", "empty", "scalar", "broken"}

Call(name, params) == [name |-> name, params |-> params]

\* A name under one of the keys name, tool and tool_name, with its parameters: those
\* under "arguments", for tool_name those under "parameters".
Row(key, name, params) == [key |-> key, name |-> name, params |-> params]

\* JSON values.  rows: those of an object, in the order name, tool, tool_name; rowsOk:
\* every element of the array is an object; inner: the values nested in it.
Object(rows, inner) == [arr |-> FALSE, rows |-> rows, rowsOk |-> TRUE, inner |-> inner]
Array(objects, rowsOk) == [arr |-> TRUE, rows |-> <<>>, rowsOk |-> rowsOk, inner |-> objects]

Word == [t |-> "word"]
Space == [t |-> "space"]
Json(v) == [t |-> "json", v |-> v]
Fence(tag, action, v) == [t |-> "fence", tag |-> tag, action |-> action, v |-> v]
Open(vs) == [t |-> "open", vs |-> vs]          \* the first half, with the objects that are whole
Rest(v) == [t |-> "rest", v |-> v]             \* the other half, which makes it v

-----------------------------------------------------------------------------
(* Names.                                                                  *)

NormalizeToolName(n) == [n EXCEPT !.raw = FALSE]

AllowedToolNameSet(tools) == {NormalizeToolName(t) : t \in tools}

IsDirectAnswerTool(n) == NormalizeToolName(n) = Direct

\* An alias that is not declared stands for the only tool of its server.
TryRecoverSingleMCPServerToolAlias(tools, n) ==
    LET same == {t \in AllowedToolNameSet(tools) : t.sid = n.sid}
    IN  IF n.k \in {"alias", "wrong"} /\ \E t \in same : same = {t}
        THEN <<CHOOSE t \in same : TRUE>>
        ELSE <<>>

\* The declared tool meant by a name: itself, the tool with this short name on
\* the server with the least id, or the recovered one.
ResolveDeclaredToolName(tools, name) ==
    LET n == NormalizeToolName(name)
        hits == {t \in AllowedToolNameSet(tools) : n.k = "short" /\ t.orig = n.orig}
    IN  CASE n = Blank -> <<>>
          [] n # Blank /\ n \in AllowedToolNameSet(tools) -> <<n>>
          [] n # Blank /\ n \notin AllowedToolNameSet(tools) /\ hits # {} ->
               <<CHOOSE t \in hits : \A u \in hits : t.sid <= u.sid>>
          [] OTHER -> TryRecoverSingleMCPServerToolAlias(tools, n)

\* ResolveExecutableToolCalls: all or none.
ResolveExecutableToolCalls(tools, rows) ==
    LET found == [i \in DOMAIN rows |-> ResolveDeclaredToolName(tools, rows[i].name)]
    IN  IF \E i \in DOMAIN rows : found[i] = <<>>
        THEN <<>>
        ELSE [i \in DOMAIN rows |-> [name |-> found[i][1], params |-> rows[i].params]]

-----------------------------------------------------------------------------
(* Rows.                                                                   *)

NormalizeToolParameters(p) == IF p = "none" THEN "object" ELSE p

\* One unreadable parameter and no row is read.
NormalizeToolActionRows(rows) ==
    IF \E i \in DOMAIN rows : rows[i].params = "broken"
    THEN <<>>
    ELSE [i \in DOMAIN rows |-> Call(rows[i].name, NormalizeToolParameters(rows[i].params))]

\* Of an element of a list only tool_name and parameters are read.
ListRow(v) ==
    LET own == SelectSeq(v.rows, LAMBDA r : r.key = "tool_name")
    IN  IF own = <<>> THEN Call(Blank, "none") ELSE Call(own[1].name, own[1].params)

ListRows(v) == [i \in DOMAIN v.inner |-> ListRow(v.inner[i])]

\* Of a single object the first key that is not blank counts.
ObjectRows(v) ==
    LET named == SelectSeq(v.rows, LAMBDA r : r.name # Blank)
    IN  IF named = <<>> THEN <<>> ELSE <<Call(named[1].name, named[1].params)>>


\* The rows of a blob, <<>> for an error.
ParseCohereActionList(v) ==
    CASE v.arr /\ v.rowsOk -> NormalizeToolActionRows(ListRows(v))
      [] v.arr /\ ~v.rowsOk -> <<>>
      [] OTHER -> NormalizeToolActionRows(ObjectRows(v))

ToolActionRowsHaveNames(rows) == \E i \in DOMAIN rows : rows[i].name # Blank

Calls(v) == ToolActionRowsHaveNames(ParseCohereActionList(v))

FilterExecutableToolRows(rows) == SelectSeq(rows, LAMBDA r : ~IsDirectAnswerTool(r.name))

\* "answer": the text of its key; "": an empty one; "params": the JSON itself.
DirectAnswerText(p) ==
    CASE p = "answer" -> "answer" [] p = "empty" -> "" [] OTHER -> "params"

-----------------------------------------------------------------------------
(* Extraction.                                                             *)

\* Two halves that meet are one value.
Joined(text) ==
    LET meet(i) == i \in DOMAIN text /\ i + 1 \in DOMAIN text
                     /\ text[i].t = "open" /\ text[i + 1].t = "rest"
        at(i) == IF meet(i) THEN <<Json(text[i + 1].v)>>
                 ELSE IF meet(i - 1) THEN <<>> ELSE <<text[i]>>
    IN  FlattenSeq([i \in DOMAIN text |-> at(i)])

TrimSpace(text) ==
    LET inked == {i \in DOMAIN text : text[i].t # "space"}
    IN  IF inked = {} THEN <<>>
        ELSE SubSeq(text, CHOOSE i \in inked : \A j \in inked : i <= j,
                          CHOOSE i \in inked : \A j \in inked : j <= i)

Values(text) ==
    FlattenSeq([i \in DOMAIN text |->
                  IF text[i].t \in {"json", "fence"} THEN <<text[i].v>> ELSE <<>>])

\* A value and what is nested in it, in the order of the text; what an element of an
\* array in an object holds is left out.
Within(v) ==
    <<v>> \o FlattenSeq([i \in DOMAIN v.inner |-> <<v.inner[i]>> \o v.inner[i].inner])

\* Every value that is whole, those before a cut too.
Candidates(text) ==
    LET top(x) == CASE x.t \in {"json", "fence"} -> <<x.v>>
                    [] x.t = "open" -> x.vs
                    [] OTHER -> <<>>
        at(x) == FlattenSeq([i \in DOMAIN top(x) |-> Within(top(x)[i])])
    IN  FlattenSeq([i \in DOMAIN text |-> at(text[i])])

\* The first value of a sequence that passes a test.
FirstOf(vs, Test(_)) ==
    LET i == SelectInSeq(vs, Test) IN IF i = 0 THEN <<>> ELSE <<vs[i]>>

IsFence(x) == x.t = "fence"

ExtractCohereActionJSON(text) ==
    FirstOf(Values(SelectSeq(text, LAMBDA x : IsFence(x) /\ x.action)), LAMBDA v : TRUE)

\* Only the first json block is looked at.
ExtractFirstJSONArray(text) ==
    LET first == FirstOf(Values(SelectSeq(text, LAMBDA x : IsFence(x) /\ x.tag = "json")),
                         LAMBDA v : TRUE)
    IN  SelectSeq(first, Calls)

\* Every fence opens a block, closing ones too: what is between two blocks is a block.
ExtractFirstFencedToolArray(text) ==
    LET between(i) == /\ text[i].t = "json"
                      /\ i - 1 \in DOMAIN text /\ i + 1 \in DOMAIN text
                      /\ IsFence(text[i - 1]) /\ IsFence(text[i + 1])
        body(i) == IF IsFence(text[i]) \/ between(i) THEN <<text[i].v>> ELSE <<>>
    IN  FirstOf(FlattenSeq([i \in DOMAIN text |-> body(i)]), Calls)

Leads(text) == text # <<>> /\ text[1].t = "json"

\* Taken as it is: nothing is asked about its rows.
ExtractLeadingJSONArray(text) ==
    IF Leads(text) /\ text[1].v.arr THEN <<text[1].v>> ELSE <<>>

ExtractLeadingJSONObject(text) ==
    IF Leads(text) /\ ~text[1].v.arr THEN <<text[1].v>> ELSE <<>>

ExtractEmbeddedJSONArray(text) ==
    FirstOf(Candidates(text), LAMBDA v : v.arr /\ Calls(v))

\* Also an element of a list that could not be read as one: alone, it may name its tool
\* under any of the three keys.
ExtractEmbeddedJSONObject(text) ==
    FirstOf(Candidates(text), LAMBDA v : ~v.arr /\ Calls(v))

ExtractToolActionBlob(text) ==
    FirstOf(ExtractCohereActionJSON(text)
              \o ExtractFirstJSONArray(text)
              \o ExtractFirstFencedToolArray(text)
              \o ExtractLeadingJSONArray(text)
              \o SelectSeq(ExtractLeadingJSONObject(text), Calls)
              \o ExtractEmbeddedJSONArray(text)
              \o ExtractEmbeddedJSONObject(text),
            LAMBDA v : TRUE)

\* The rows the loop goes by: none when the text is an answer.
RowsOf(text) ==
    LET blob == ExtractToolActionBlob(text)
    IN  IF blob = <<>> THEN <<>> ELSE ParseCohereActionList(blob[1])

=============================================================================
