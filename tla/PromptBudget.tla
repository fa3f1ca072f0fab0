----------------------------- MODULE PromptBudget -----------------------------
(***************************************************************************)
(* How a prompt is made to fit: pkg/contextbudget and pkg/contextbuilder   *)
(* with their callers in the chat handler and mapper.RunnerMessages, and   *)
(* the library's counterparts, pkg/llmhistory/tokens.go for histories and  *)
(* pkg/prompt/budget.go for documents.                                     *)
(*                                                                         *)
(* A text is its number of runes.  Redaction of secrets, which rewrites    *)
(* parts of the context after it was measured, is left out.                *)
(***************************************************************************)
EXTENDS Integers, Sequences, SequencesExt, FiniteSetsExt

CONSTANTS CharsPerToken,        \* ApproxCharsPerToken
          DefaultTokenBudget,
          SystemReserveTokens,
          MinContextBudget,
          MessageOverhead,      \* perMessageOverheadTokens
          SafetyMargin,         \* historySafetyMargin
          TruncatedNotice,      \* runes of "\n...[truncated]"
          Labels,               \* contextbuilder: runes added to a part, by its kind
          MaxTree,              \* contextbuilder: maxEntries, in runes
          MaxPrefixes,          \* PrefixCache: its entries
          DefaultMaxTokens,     \* chat.generate.max_tokens, 0 for none
          RoleOverhead,         \* llmhistory: perMessageOverhead
          ShortContent,         \* llmhistory: contents up to this length are emptied
          KeepAtLeast,          \* llmhistory: what a cut keeps
          CutNotice,            \* llmhistory: runes of llmContextTruncationNotice
          MaxCuts,              \* bound: iterations of the shrinking loop
          PreserveOutput,       \* prompt: preserveOutputTokens
          HierarchyNote,        \* prompt: runes of DocumentContextHierarchyInstruction
          BlockFrame,           \* prompt: runes FormatDocumentContextBlock adds
          MinRoom,              \* prompt: no block is cut for less room
          MinBody,
          BudgetNotice          \* prompt: runes of the notice of a cut block

ASSUME PromptBudgetAssumption ==
    /\ CharsPerToken \in Nat \ {0}
    /\ {DefaultTokenBudget, SystemReserveTokens, MinContextBudget, MessageOverhead, SafetyMargin,
        TruncatedNotice, MaxTree, MaxPrefixes, DefaultMaxTokens} \subseteq Nat
    /\ {RoleOverhead, ShortContent, KeepAtLeast, CutNotice, MaxCuts} \subseteq Nat
    /\ {PreserveOutput, HierarchyNote, BlockFrame, MinRoom, MinBody, BudgetNotice} \subseteq Nat
    \* A limit leaves room for more than what a message costs besides its text.
    /\ MessageOverhead < MinContextBudget
    /\ Labels \in [{"workspace", "selection", "snippet", "tree", "editor"} -> Nat]
    \* A body is cut only for more room than the notice takes, and the instruction above
    \* the documents is longer than what a message is counted with besides its runes.
    /\ BudgetNotice <= MinBody
    /\ 4 * RoleOverhead <= HierarchyNote + BlockFrame

SumOf(ns) == FoldLeft(+, 0, ns)

-----------------------------------------------------------------------------
(* pkg/contextbudget.                                                      *)

EstimateTokens(n) == IF n = 0 THEN 0 ELSE Max({1, n \div CharsPerToken})

TrimToTokenBudget(n, budget) ==
    IF budget <= 0 THEN 0
    ELSE IF n <= budget * CharsPerToken THEN n
    ELSE budget * CharsPerToken + TruncatedNotice

EffectiveBudget(configured, runnerMax) ==
    LET given == {b \in {configured, runnerMax} : b > 0}
    IN  IF given = {} THEN DefaultTokenBudget ELSE Min(given)

ContextBudgetAfterReserve(total, system) ==
    Max({MinContextBudget, total - system - SystemReserveTokens})

HistoryTokenBudget(total, system, context, generate) ==
    Max({MinContextBudget,
         total - (system + context + generate + SystemReserveTokens + SafetyMargin)})

EstimateChatLineTokens(n) == IF n = 0 THEN 0 ELSE EstimateTokens(n) + MessageOverhead

LinesTokens(lines) == SumOf([i \in DOMAIN lines |-> EstimateChatLineTokens(lines[i])])

\* The newest lines that fit, the last one in any case, shortened if it is alone.
TrimChatLines(lines, max) ==
    LET n == Len(lines)
        from(k) == SubSeq(lines, k, n)
        first == Min({n} \cup {k \in 1..n : LinesTokens(from(k)) <= max})
    IN  IF max <= 0 \/ n = 0 THEN lines
        ELSE IF LinesTokens(from(first)) <= max THEN from(first)
        ELSE <<TrimToTokenBudget(lines[n], max - MessageOverhead)>>

-----------------------------------------------------------------------------
(* Builder.Build.  A context [workspace, selection, editor, tree, snippets] *)
(* has the sizes of its texts, 0 for none, and snippets [source, text].    *)

SnippetPriority(source) ==
    CASE source = "selection" -> 0
      [] source = "editor" -> 1
      [] source = "mention" -> 2
      [] source = "auto" -> 3
      [] source = "codebase" -> 4
      [] source = "terminal" -> 5
      [] source = "folder" -> 6
      [] OTHER -> 7

\* The part of a prompt: text is what the client sent, len adds the label.
Prompted(kind, priority, text) ==
    [kind |-> kind, priority |-> priority, text |-> text, len |-> text + Labels[kind]]

treePrompt(n) == Prompted("tree", 4, Min({n, MaxTree}))
snippetPrompt(sn) == Prompted("snippet", SnippetPriority(sn.source), sn.text)

AllParts(ctx) ==
    <<Prompted("workspace", 10, ctx.workspace), Prompted("selection", 0, ctx.selection)>>
      \o [i \in DOMAIN ctx.snippets |-> snippetPrompt(ctx.snippets[i])]
      \o <<treePrompt(ctx.tree), Prompted("editor", 1, ctx.editor)>>

AddIfAny(parts, part) == IF part.text > 0 THEN Append(parts, part) ELSE parts

\* Every part with a text, in the order of Build.
ContextParts(ctx) == FoldLeft(AddIfAny, <<>>, AllParts(ctx))

Swap(parts, i, j) == [parts EXCEPT ![i] = parts[j], ![j] = parts[i]]

\* The exchange sort, with the order it leaves equal priorities in.
Exchange(parts, i, j) ==
    IF parts[j].priority < parts[i].priority THEN Swap(parts, i, j) ELSE parts

\* The inner loop: what matters most from place i on comes to i.
SettlePlace(parts, i) ==
    FoldLeft(LAMBDA ps, j : Exchange(ps, i, j), parts, [k \in 1..(Len(parts) - i) |-> i + k])

sortContextParts(parts) == FoldLeft(SettlePlace, parts, [i \in DOMAIN parts |-> i])

PartTokens(p) == EstimateTokens(p.len)

EmptyContext == [used |-> 0, out |-> <<>>, full |-> FALSE]

\* Mutant: a part that does not fit is passed over.
BuildPasses(system, ctx, total) ==
    LET budget == ContextBudgetAfterReserve(total, system)
        one(acc, p) == IF acc.used + PartTokens(p) <= budget
                       THEN [acc EXCEPT !.used = @ + PartTokens(p),
                                        !.out = Append(@, [part |-> p, len |-> p.len])]
                       ELSE acc
    IN  FoldLeft(one, EmptyContext, sortContextParts(ContextParts(ctx))).out

\* The first part that does not fit is shortened and ends the context.
AddPart(acc, p, budget) ==
    LET rest == TrimToTokenBudget(p.len, budget - acc.used)
    IN  IF acc.full THEN acc
        ELSE IF acc.used + PartTokens(p) <= budget
        THEN [acc EXCEPT !.used = @ + PartTokens(p),
                         !.out = Append(@, [part |-> p, len |-> p.len])]
        ELSE [acc EXCEPT !.full = TRUE,
                         !.out = IF rest = 0 THEN @ ELSE Append(@, [part |-> p, len |-> rest])]

Build(system, ctx, total) ==
    LET budget == ContextBudgetAfterReserve(total, system)
    IN  FoldLeft(LAMBDA acc, p : AddPart(acc, p, budget), EmptyContext,
                 sortContextParts(ContextParts(ctx))).out

\* The parts joined by an empty line.
ContextLength(out) ==
    IF out = <<>> THEN 0 ELSE SumOf([i \in DOMAIN out |-> out[i].len + 2]) - 2

(* PrefixCache: a sequence of [key, value], the oldest first.              *)

PrefixCacheKey(system, ctx, total) == [system |-> system, ctx |-> ctx, total |-> total]

PrefixGet(cache, key) == {e \in ToSet(cache) : e.key = key}

\* An empty context is not kept.
PrefixPut(cache, key, value) ==
    LET all == Append(cache, [key |-> key, value |-> value])
    IN  IF value = <<>> THEN cache ELSE SubSeq(all, Max({1, Len(all) - MaxPrefixes + 1}), Len(all))

-----------------------------------------------------------------------------
(* The chat handler on a request [system, tools, ctx, lines, asked,        *)
(* configured, runner, found]: tools is the block of chatSystemPrompt,     *)
(* asked <<>> or the limit of the answer the client asks for, found what   *)
(* the search of the request finds.                                        *)

\* The tokens kept free for the answer, and the limit the runner is sent, 0 for none.
generateMaxTokens(asked) == IF asked # <<>> /\ asked[1] > 0 THEN asked[1] ELSE DefaultMaxTokens
GenerateParams(asked) == IF asked # <<>> THEN Max({0, asked[1]}) ELSE DefaultMaxTokens

EnrichContextFromSearch(ctx, found) ==
    [ctx EXCEPT !.snippets =
        @ \o [i \in DOMAIN found |-> [source |-> "codebase", text |-> found[i]]]]

\* The tree and the labels are not counted.
estimateContextTokens(ctx) ==
    SumOf([i \in DOMAIN ctx.snippets |-> EstimateTokens(ctx.snippets[i].text)])
      + EstimateTokens(ctx.workspace) + EstimateTokens(ctx.selection) + EstimateTokens(ctx.editor)

trimChatHistoryByTokens(req, total) ==
    TrimChatLines(req.lines,
        HistoryTokenBudget(total, EstimateTokens(req.system), estimateContextTokens(req.ctx),
                           generateMaxTokens(req.asked)))

\* The request as the handler has changed it when it sends it: also what a job gets.
Handled(req) ==
    LET r == [req EXCEPT !.ctx = EnrichContextFromSearch(@, req.found)]
    IN  [r EXCEPT !.lines = trimChatHistoryByTokens(r, EffectiveBudget(r.configured, r.runner))]

\* mapper.RunnerMessages: the messages, and the cache it leaves.
RunnerMessages(req, system, ctx, total, cache) ==
    LET key == PrefixCacheKey(system, ctx, total)
        hits == PrefixGet(cache, key)
        context == IF hits # {} THEN (CHOOSE e \in hits : TRUE).value
                   ELSE Build(EstimateTokens(system), ctx, total)
    IN  [system |-> system, lines |-> req.lines, context |-> context,
         answer |-> GenerateParams(req.asked),
         cache |-> IF hits # {} THEN cache ELSE PrefixPut(cache, key, context)]

HandlerPrompt(req, cache) ==
    RunnerMessages(Handled(req), req.system + req.tools, Handled(req).ctx,
                   EffectiveBudget(req.configured, req.runner), cache)

\* ChatService.Complete of the job: the search adds its hits to those it added before,
\* the tools are left out, and the runner's limit is not asked for.
Complete(req, found, cache) ==
    RunnerMessages(Handled(req), req.system, EnrichContextFromSearch(Handled(req).ctx, found),
                   EffectiveBudget(req.configured, 0), cache)

-----------------------------------------------------------------------------
(* llmhistory: messages [len, role, image, calls].                         *)

ApproximateMessageTokens(m) == m.len \div 4 + RoleOverhead + m.image
SumApproxTokens(msgs) == SumOf([i \in DOMAIN msgs |-> ApproximateMessageTokens(msgs[i])])

\* What shrinkMessagesToApproxTokenBudget does to one content.
CutContent(n) ==
    IF n <= ShortContent THEN 0 ELSE Max({(n * 3) \div 4, KeepAtLeast}) + CutNotice

\* One iteration: the last content before the tail that is not empty is cut.
Shrinkable(msgs, tail) == {i \in 1..(Len(msgs) - tail) : msgs[i].len > 0}

ShrinkOnce(msgs, tail) == [msgs EXCEPT ![Max(Shrinkable(msgs, tail))].len = CutContent(@)]

ShrinkDone(msgs, max, tail) == SumApproxTokens(msgs) <= max \/ Shrinkable(msgs, tail) = {}

shrinkMessagesToApproxTokenBudget(msgs, max, tail) ==
    LET at[n \in 0..MaxCuts] ==
          IF n = 0 THEN msgs
          ELSE IF ShrinkDone(at[n - 1], max, tail) THEN at[n - 1]
          ELSE ShrinkOnce(at[n - 1], tail)
    IN  at[MaxCuts]

\* How many messages go with the first one: an answer to a picture goes with it.
DropSize(middle) ==
    IF /\ Len(middle) > 1
       /\ middle[1].role = "user" /\ middle[1].image > 0
       /\ middle[2].role = "assistant" /\ ~middle[2].calls
    THEN 2 ELSE 1

\* The loop over the messages between system and tail.
DropOldest(middle, room) ==
    LET at[n \in 0..Len(middle)] ==
          IF n = 0 THEN middle
          ELSE IF at[n - 1] = <<>> \/ SumApproxTokens(at[n - 1]) <= room THEN at[n - 1]
          ELSE SubSeq(at[n - 1], DropSize(at[n - 1]) + 1, Len(at[n - 1]))
    IN  at[Len(middle)]

TrimMessagesByApproxTokensWithDropped(msgs, max, tail) ==
    LET n == Len(msgs)
        end == SubSeq(msgs, n - tail + 1, n)
        room == max - ApproximateMessageTokens(msgs[1]) - SumApproxTokens(end)
    IN  IF max <= 0 \/ n <= 1 \/ SumApproxTokens(msgs) <= max THEN msgs
        ELSE IF n <= 1 + tail THEN shrinkMessagesToApproxTokenBudget(msgs, max, Min({tail, n}))
        ELSE <<msgs[1]>> \o DropOldest(SubSeq(msgs, 2, n - tail), room) \o end

-----------------------------------------------------------------------------
(* prompt.ApplyInstructionSafeBudgetManager: bodies of documents, in the   *)
(* room that the other messages of the prompt leave.                       *)

TruncateDocumentContextBody(n, max) ==
    IF n <= max THEN <<n, 0>>
    ELSE LET keep == Max({0, max - BudgetNotice}) IN <<keep + BudgetNotice, n - keep>>

PlaceBlock(acc, body, available) ==
    LET room == available - acc.used
        cut == TruncateDocumentContextBody(body, room - BlockFrame)
    IN  IF body = 0 THEN acc
        ELSE IF body + BlockFrame <= room
        THEN [acc EXCEPT !.out = Append(@, body), !.used = @ + body + BlockFrame]
        ELSE IF room < MinRoom \/ room - BlockFrame < MinBody
        THEN [acc EXCEPT !.dropped = @ + body]
        ELSE [out |-> Append(acc.out, cut[1]), dropped |-> acc.dropped + cut[2],
              used |-> acc.used + cut[1] + BlockFrame]

PlaceBlocks(start, bodies, available) ==
    FoldLeft(LAMBDA acc, b : PlaceBlock(acc, b, available), start, bodies)

AvailableRunes(max, base) == (max - base - PreserveOutput) * 2 - HierarchyNote

\* Each body with its heading, under the instruction.
BuildDocumentContextSystemMessage(bodies) ==
    LET block(n) == IF n = 0 THEN 0 ELSE n + BlockFrame
    IN  [len |-> HierarchyNote + SumOf([i \in DOMAIN bodies |-> block(bodies[i])]),
         role |-> "system", image |-> 0, calls |-> FALSE]

\* Policy and history, documents, the instruction of the user.
AssemblePromptMessages(before, instruction, bodies) ==
    before \o (IF bodies = <<>> THEN <<>> ELSE <<BuildDocumentContextSystemMessage(bodies)>>)
      \o <<instruction>>

ApplyInstructionSafeBudgetManager(max, before, instruction, bodies) ==
    LET base == SumApproxTokens(AssemblePromptMessages(before, instruction, <<>>))
        available == AvailableRunes(max, base)
        start == [out |-> <<>>, used |-> 0, dropped |-> 0]
    IN  IF max <= 0 \/ bodies = <<>> THEN [start EXCEPT !.out = bodies]
        ELSE IF max - base - PreserveOutput <= 0 \/ available <= 0
        THEN [start EXCEPT !.dropped = SumOf(bodies)]
        ELSE PlaceBlocks(start, bodies, available)

-----------------------------------------------------------------------------

PromptTokens(got) ==
    EstimateTokens(got.system) + EstimateTokens(ContextLength(got.context)) + LinesTokens(got.lines)

\* What the handler did not see coming: labels and empty lines of the context, the
\* project tree, the notices of cut texts, the block of tools, hits found again.
Unforeseen(req, got) ==
    (EstimateTokens(ContextLength(got.context)) - estimateContextTokens(Handled(req).ctx))
      + (EstimateTokens(got.system) - EstimateTokens(req.system))
      + TruncatedNotice

Kept(got) == {got.context[i].part : i \in DOMAIN got.context}

\* The prompt and the answer fit into the budget unless what the handler did not
\* count outgrows its reserves, or nothing is left for the messages and they get
\* MinContextBudget all the same.  The newest message is never left out, and no
\* part of the context is left out for one that matters less.
PromptFits(req, found, got) ==
    LET total == EffectiveBudget(req.configured, req.runner)
        left == total - EstimateTokens(req.system) - estimateContextTokens(Handled(req).ctx)
                  - generateMaxTokens(req.asked) - SystemReserveTokens - SafetyMargin
        offered == ContextParts(EnrichContextFromSearch(Handled(req).ctx, found))
        sent == Len(got.lines)
    IN  /\ \/ PromptTokens(got) + got.answer <= total
           \/ Unforeseen(req, got) > SystemReserveTokens + SafetyMargin
           \/ left < MinContextBudget
        /\ sent > 0
        /\ got.lines[sent] = req.lines[Len(req.lines)] \/ (sent = 1 /\ got.lines[1] > 0)
        /\ \A p \in ToSet(offered) \ Kept(got) : \A k \in Kept(got) : k.priority <= p.priority

\* A chat that was deferred sends the same messages from its job; and the hits that
\* are in its context twice push out only what matters no more than they do, unless no
\* budget is configured and the runner, which a job does not ask, takes more than the
\* default.
DeferredAlike(req, got, job) ==
    /\ job.lines = got.lines /\ job.answer = got.answer
    /\ req.configured > 0 \/ req.runner <= DefaultTokenBudget =>
          \A p \in Kept(got) \ Kept(job) : p.priority >= SnippetPriority("codebase")

\* Nobody can tell whether a context came from the cache: after a request and its job
\* the same request has the same prompt again, and the job's context is the one that
\* is built for its own system prompt, hits and budget.
CacheUnseen(req, found, got, job) ==
    /\ HandlerPrompt(req, job.cache).context = got.context
    /\ job.context = Build(EstimateTokens(job.system), EnrichContextFromSearch(Handled(req).ctx, found),
                           EffectiveBudget(req.configured, 0))

\* A trimmed history keeps its first message and its tail.  It fits unless nothing
\* but those is left; and the loop that shortens contents ends, unless it comes to
\* a content that the notice makes as long again as the cut made it shorter.
HistoryTrimmed(msgs, max, tail, got) ==
    LET n == Len(msgs)
        keep == Min({tail, n})
        short == n <= 1 + tail
    IN  max > 0 /\ n > 1 =>
          /\ SubSeq(got, Len(got) - keep + 1, Len(got)) = SubSeq(msgs, n - keep + 1, n)
          /\ got[1].role = msgs[1].role
          /\ ~short => SumApproxTokens(got) <= max \/ Len(got) = 1 + tail
          /\ short => \/ ShrinkDone(got, max, keep)
                      \/ CutContent(got[Max(Shrinkable(got, keep))].len)
                           >= got[Max(Shrinkable(got, keep))].len

\* A prompt with documents fits, with the room reserved for the answer, if any of
\* them was kept; and every rune of them is either kept or counted as dropped.
DocumentsFit(max, before, instruction, bodies, got) ==
    max > 0 /\ bodies # <<>> =>
      /\ got.out # <<>> =>
           SumApproxTokens(AssemblePromptMessages(before, instruction, got.out)) + PreserveOutput
             <= max
      /\ SumOf(got.out) + got.dropped \in SumOf(bodies)..(SumOf(bodies) + BudgetNotice * Len(bodies))

=============================================================================
