---------------------------- MODULE MCAgentTexts ----------------------------
(***************************************************************************)
(* One instance for AgentSteps and for the pure algorithms of TextSplit    *)
(* and PromptBudget.  A behaviour either runs the agent, or takes one      *)
(* input of an algorithm and keeps it with the output it computed.         *)
(***************************************************************************)
EXTENDS AgentSteps, TextSplit, PromptBudget

CONSTANTS c1, c2, c3, k1, k2, s1

VARIABLE task

NoTask == [kind |-> "none"]

MCCalls == {c1, c2, c3}
MCIds == {k1, k2}
MCSessions == {s1}

\* c1 and c2 are the same step sent twice, of one session; c3 is another step of that
\* session or of none.
MCIdOf == [c \in MCCalls |-> IF c = c3 THEN k2 ELSE k1]
MCInit == Init /\ task = NoTask /\ session[c1] = s1 /\ session[c2] = s1

\* A command that the policy blocks.
MCProposals ==
    {[own |-> TRUE, alias |-> FALSE, served |-> FALSE, kind |-> "command", empty |-> FALSE, blocked |-> TRUE,
      allowed |-> TRUE, under |-> FALSE, up |-> FALSE, prefix |-> FALSE]}

-----------------------------------------------------------------------------
(* Documents: up to two blocks of up to two sentences, or up to four lines *)
(* of a .rst file; chunks of 4, 5 and 8 runes.                             *)

Sentences == {[len |-> 1, gap |-> 0], [len |-> 3, gap |-> 2], [len |-> 6, gap |-> 4]}
Blocks(levels) ==
    [level : levels, sents : SeqOf(Sentences, 2)] \ {[level |-> 0, sents |-> <<>>]}
NonEmptySeqs(S, n) == SeqOf(S, n) \ {<<>>}

Sizes == {<<4, 0>>, <<5, 2>>, <<8, 9>>}
Doc(format, blocks, size, bounds) ==
    [format |-> format, blocks |-> blocks, size |-> size[1], overlap |-> size[2],
     bounds |-> bounds]

\* The runes of all paragraphs and the line ends between them.
Total(blocks) == Offset([blocks |-> blocks], Len(blocks) + 1) - 2

RstLines ==
    [kind : {"text"}, width : {2, 4}, mark : {""}] \cup
    [kind : {"adorn"}, width : {3}, mark : {"="}] \cup
    [kind : {"adorn"}, width : {4}, mark : {"-"}] \cup
    [kind : {"blank"}, width : {0}, mark : {""}] \cup
    [kind : {"skip"}, width : {3}, mark : {""}]

Documents ==
    {Doc("markdown", b, o, <<>>) : b \in NonEmptySeqs(Blocks({0, 1, 2}), 2), o \in Sizes} \cup
    {Doc("pdf", b, o, <<0, c, Total(b)>>) :
        b \in NonEmptySeqs(Blocks({0}), 2), o \in Sizes, c \in {1, 3}} \cup
    {Doc("rst", b, o, <<>>) : b \in NonEmptySeqs(RstLines, 4), o \in Sizes}

\* Chunks of source code: lines of these lengths in segments of up to SegmentBytes.
SegmentBytes == 6
SourceChunks == NonEmptySeqs({1, 2, 4, 7}, 6)

-----------------------------------------------------------------------------
(* Prompts.                                                                *)

MCLabels == [kind \in {"workspace", "selection", "snippet", "tree", "editor"} |->
                CASE kind = "selection" -> 2 [] kind = "snippet" -> 3 [] OTHER -> 1]

Snippets == {[source |-> "mention", text |-> 4], [source |-> "folder", text |-> 4]}
Contexts == [workspace : {0, 3}, selection : {0, 6}, editor : {2}, tree : {0, 15},
             snippets : SeqOf(Snippets, 1)]

Requests ==
    [system : {0, 8}, tools : {0, 6}, ctx : Contexts, lines : NonEmptySeqs({1, 5, 30}, 2),
     asked : SeqOf({0, 3}, 1), configured : {0, 14}, runner : {0, 12, 26}, found : SeqOf({6}, 1)]

Message(len, role, image, calls) == [len |-> len, role |-> role, image |-> image, calls |-> calls]
Messages ==
    {Message(3, "user", 0, FALSE), Message(24, "user", 5, FALSE), Message(12, "assistant", 0, FALSE),
     Message(9, "assistant", 0, TRUE), Message(40, "tool", 0, FALSE)}
Histories ==
    {<<Message(s, "system", 0, FALSE)>> \o h : s \in {3, 9, 60}, h \in SeqOf(Messages, 3)}

Bodies == NonEmptySeqs({0, 3, 6, 9, 14}, 3)

-----------------------------------------------------------------------------

Split == \E d \in Documents : task' = [kind |-> "document", doc |-> d, got |-> SplitText(d)]

Segment ==
    \E l \in SourceChunks :
       task' = [kind |-> "segments", lines |-> l, got |-> splitChunkLines(l, SegmentBytes)]

Prompt ==
    \E r \in Requests :
       \E again \in {<<>>, r.found} :
          LET got == HandlerPrompt(r, <<>>)
          IN  task' = [kind |-> "prompt", req |-> r, again |-> again, got |-> got,
                       job |-> Complete(r, again, got.cache)]

Trim ==
    \E h \in Histories, max \in {0, 5, 12, 20}, tail \in 0..2 :
       task' = [kind |-> "history", msgs |-> h, max |-> max, tail |-> tail,
                got |-> TrimMessagesByApproxTokensWithDropped(h, max, tail)]

Place ==
    \E b \in Bodies, max \in {0, 8, 12, 20, 30}, policy \in {<<>>, <<Message(8, "system", 0, FALSE)>>} :
       LET user == Message(4, "user", 0, FALSE)
       IN  task' = [kind |-> "bodies", bodies |-> b, max |-> max, before |-> policy, user |-> user,
                    got |-> ApplyInstructionSafeBudgetManager(max, policy, user, b)]

Algorithms ==
    /\ MCInit
    /\ session[c3] = s1
    /\ Split \/ Segment \/ Prompt \/ Trim \/ Place
    /\ UNCHANGED vars

Done == task # NoTask /\ UNCHANGED <<task, vars>>

MCNext ==
    \/ task = NoTask /\ AgentNext /\ UNCHANGED task
    \/ Algorithms
    \/ Done

MCSpec == MCInit /\ [][MCNext]_<<task, vars>>

-----------------------------------------------------------------------------

\* The splitters of the documents (pkg/rag) and of the workspace index keep the text:
\* SplitKeepsText and SegmentsCover for every input of the instance.
TextsKept ==
    /\ task.kind = "document" => SplitKeepsText(task.doc, task.got)
    /\ task.kind = "segments" => SegmentsCover(task.lines, SegmentBytes, task.got)

\* Prompts fit into their budgets and lose only what matters least: what the chat sends
\* to the runner (contextbuilder.Build, TrimChatLines) and its job sends after it was
\* deferred (ChatService.Complete), with the cache of contexts they share, a trimmed
\* history (llmhistory) and the documents beside a prompt (pkg/prompt): PromptFits,
\* DeferredAlike, CacheUnseen, HistoryTrimmed, DocumentsFit.
PromptsFit ==
    /\ task.kind = "prompt" =>
          /\ PromptFits(task.req, <<>>, task.got)
          /\ PromptFits(task.req, task.again, task.job)
          /\ DeferredAlike(task.req, task.got, task.job)
          /\ CacheUnseen(task.req, task.again, task.got, task.job)
    /\ task.kind = "history" => HistoryTrimmed(task.msgs, task.max, task.tail, task.got)
    /\ task.kind = "bodies" =>
          DocumentsFit(task.max, task.before, task.user, task.bodies, task.got)

=============================================================================
