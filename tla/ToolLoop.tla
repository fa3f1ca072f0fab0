------------------------------ MODULE ToolLoop ------------------------------
(***************************************************************************)
(* One chat request with MCP tools: ChatMCPLoop.Run                        *)
(* (internal/service/chat_mcp_loop.go), the handlers around it             *)
(* (writeChatMCPLoopSSE, runChatWithMCPTools) and the goroutines each round *)
(* starts: the sender of the runner's chunks, the two forwarders between   *)
(* it and the loop, and one goroutine for each tool call.                  *)
(*                                                                         *)
(* The request is streamed, then Run is a goroutine of its own and the     *)
(* handler waits for it or for the client to leave; or it is plain, then   *)
(* the handler calls Run.  Events of the stream are numbered by a counter  *)
(* without a lock: an event takes the steps read, write and append.        *)
(***************************************************************************)
EXTENDS ToolCalls, Integers, FiniteSets

CONSTANTS Tools,       \* GenerationTools: the aliases offered to the model
          Retried,     \* those whose own name looks like an alias
          Replies,     \* what the runner may answer: sequences of chunks
          MaxLength,   \* bound: the chunks of a reply
          MaxRounds,   \* ChatMCPLoop.maxRounds
          Cap          \* capacity of the channels of chunks

\* A chunk has some text or none, and reasoning or not; the last may carry usage.
\* at: which one it is, as history.
Chunk(text, think) == [text |-> text, think |-> think, usage |-> FALSE, at |-> <<0, 0>>]

\* The chunks a runner may send.
Sendable == UNION {{r[i] : i \in DOMAIN r} : r \in Replies}

ASSUME ToolLoopAssumption ==
    /\ Retried \subseteq Tools
    /\ Replies \subseteq Seq(Sendable)
    /\ \A r \in Replies : Len(r) <= MaxLength
    /\ \A c \in Sendable : c = Chunk(c.text, c.think) /\ c.think \in BOOLEAN
    /\ \A c \in Sendable : c.text \in Seq(Range(c.text))
    /\ MaxLength \in Nat
    /\ MaxRounds \in Nat \ {0}
    /\ Cap \in Nat \ {0}

VARIABLES
    stream,   \* ChatRequest.Stream
    left,     \* the client has left: r.Context() is done
    loop,     \* the locals of Run
    pipe,     \* the chunks of the round: runner, channels, forwarders
    tool,     \* the goroutines of the tool calls, in the order of the calls
    abort,    \* loopCtx was cancelled
    hist,     \* the messages Run has added to the history
    sse,      \* eventID, the id of the last event of the session, MarkDone; as history,
              \* late: an event came after it, mixed: ids did not grow
    reply,    \* how the handler has answered
    made,     \* history: the pieces of text the sender has sent
    shown,    \* history: those that were forwarded
    effects,  \* history: for each message that hist gets, how often a server executed its call
    raced     \* history: two goroutines were in emit at once

vars == <<stream, left, loop, pipe, tool, abort, hist, sse, reply, made, shown, effects, raced>>

\* The usage of a generation.
UsageChunk == [text |-> <<>>, think |-> FALSE, usage |-> TRUE, at |-> <<0, 0>>]

Text(chunks) == FlattenSeq([i \in DOMAIN chunks |-> chunks[i].text])

NoPipe == [src |-> <<>>, sent |-> 0, state |-> "none", hop |-> <<<<>>, <<>>, <<>>>>,
           closed |-> {}, slot |-> FALSE, busy |-> FALSE, cut |-> FALSE]

Init ==
    /\ stream \in BOOLEAN
    /\ left = FALSE
    /\ loop = [pc |-> "prepare", round |-> 1, text |-> <<>>, fwd |-> TRUE, cur |-> <<>>,
               usage |-> FALSE, asked |-> <<>>, result |-> "none", content |-> <<>>]
    /\ pipe = NoPipe
    /\ tool = <<>>
    /\ abort = FALSE
    /\ hist = <<>>
    /\ sse = [next |-> 0, last |-> 0, done |-> FALSE, late |-> FALSE, mixed |-> FALSE]
    /\ reply = [pc |-> "wait", charged |-> FALSE, kept |-> FALSE]
    /\ made = <<>>
    /\ shown = <<>>
    /\ effects = <<>>
    /\ raced = FALSE

ClientLeaves ==
    /\ ~left
    /\ reply.pc \in {"wait", "mark"}
    /\ left' = TRUE
    /\ UNCHANGED <<stream, loop, pipe, tool, abort, hist, sse, reply, made, shown, effects, raced>>

-----------------------------------------------------------------------------
(* Run up to the answer of the runner.                                     *)

Returned(k, r) == [k EXCEPT !.pc = "returned", !.result = r, !.cur = <<>>]

\* GenerationTools and ProbeBestRunner, both of which may fail.
Prepare ==
    /\ loop.pc = "prepare"
    /\ \/ loop' = [loop EXCEPT !.pc = "round"]
       \/ loop' = Returned(loop, "error")
    /\ UNCHANGED <<stream, left, pipe, tool, abort, hist, sse, reply, made, shown, effects, raced>>

RoundBegins ==
    /\ loop.pc = "round"
    /\ loop' = CASE loop.round > MaxRounds -> Returned(loop, "rounds")
                 [] loop.round <= MaxRounds /\ left -> Returned(loop, "cancelled")
                 [] OTHER -> [loop EXCEPT !.pc = "send"]
    /\ UNCHANGED <<stream, left, pipe, tool, abort, hist, sse, reply, made, shown, effects, raced>>

\* llmclient SendMessageOnRunner: a slot, then the call of the runner, which
\* returns with the first message of the stream; an error gives the slot back.
SendRefused ==
    /\ loop.pc = "send"
    /\ \E r \in {"queue", "error"} \cup (IF left THEN {"cancelled"} ELSE {}) :
          loop' = Returned(loop, r)
    /\ UNCHANGED <<stream, left, pipe, tool, abort, hist, sse, reply, made, shown, effects, raced>>

SendAccepted(r) ==
    /\ loop.pc = "send"
    /\ pipe' = [NoPipe EXCEPT !.src = r, !.state = "open", !.slot = TRUE, !.busy = TRUE]
    /\ loop' = [loop EXCEPT !.pc = "drain", !.text = <<>>,
                            !.asked = Text(r)]
    /\ UNCHANGED <<stream, left, tool, abort, hist, sse, reply, made, shown, effects, raced>>

-----------------------------------------------------------------------------
(* The sender (llm_runner_service.go) and the forwarders (pool.go, client.go). *)

Room(i) == Len(pipe.hop[i]) < Cap

\* The piece of the answer in a chunk, if any.
PieceOf(c) == IF c.text = <<>> THEN <<>> ELSE <<c.at>>

SenderSends ==
    /\ pipe.state = "open"
    /\ pipe.src # <<>>
    /\ Room(1)
    /\ LET c == [Head(pipe.src) EXCEPT !.at = <<loop.round, pipe.sent + 1>>]
       IN  /\ pipe' = [pipe EXCEPT !.src = Tail(@), !.sent = @ + 1, !.hop[1] = Append(@, c)]
           /\ made' = made \o PieceOf(c)
    /\ UNCHANGED <<stream, left, loop, tool, abort, hist, sse, reply, shown, effects, raced>>

\* The message with Done: its usage, if any, is a chunk of its own.
SenderEnds ==
    /\ pipe.state = "open"
    /\ pipe.src = <<>>
    /\ \/ pipe' = [pipe EXCEPT !.state = "ended", !.closed = @ \cup {1}]
       \/ /\ Room(1)
          /\ pipe' = [pipe EXCEPT !.state = "ended", !.closed = @ \cup {1},
                                  !.hop[1] = Append(@, UsageChunk)]
    /\ UNCHANGED <<stream, left, loop, tool, abort, hist, sse, reply, made, shown, effects, raced>>

\* Mutant: the sender does not watch its context.
SenderOnlyFails ==
    /\ pipe.state = "open"
    /\ pipe.sent > 0 /\ pipe.src # <<>>
    /\ pipe' = [pipe EXCEPT !.state = "ended", !.closed = @ \cup {1}, !.cut = TRUE]
    /\ UNCHANGED <<stream, left, loop, tool, abort, hist, sse, reply, made, shown, effects, raced>>

\* stream.Recv fails, or the context is done: the channel is closed all the same.
SenderStops ==
    /\ pipe.state = "open"
    /\ \/ left
       \/ pipe.sent > 0 /\ pipe.src # <<>>
    /\ pipe' = [pipe EXCEPT !.state = "ended", !.closed = @ \cup {1}, !.cut = TRUE]
    /\ UNCHANGED <<stream, left, loop, tool, abort, hist, sse, reply, made, shown, effects, raced>>

\* forwardStream moves from the first channel to the second, forwardWithQueueRelease
\* from the second to the third.
Forward(i) ==
    /\ pipe.hop[i] # <<>>
    /\ Room(i + 1)
    /\ pipe' = [pipe EXCEPT !.hop[i] = Tail(@), !.hop[i + 1] = Append(@, Head(pipe.hop[i]))]
    /\ UNCHANGED <<stream, left, loop, tool, abort, hist, sse, reply, made, shown, effects, raced>>

\* Its input is closed and empty: give back the counter or the slot, then close.
ForwardEnds(i) ==
    /\ i \in pipe.closed
    /\ i + 1 \notin pipe.closed
    /\ pipe.hop[i] = <<>>
    /\ pipe' = [pipe EXCEPT !.closed = @ \cup {i + 1},
                            !.busy = IF i = 1 THEN FALSE ELSE @,
                            !.slot = IF i = 2 THEN FALSE ELSE @]
    /\ UNCHANGED <<stream, left, loop, tool, abort, hist, sse, reply, made, shown, effects, raced>>

-----------------------------------------------------------------------------
(* DrainLLMStreamChannelForward and what Run makes of the text.            *)

\* session.Append of an event with this id, and the write to the client.
Appended(s, id) ==
    [s EXCEPT !.last = id, !.late = @ \/ s.done, !.mixed = @ \/ id <= s.last]

\* emit where no other goroutine can be in it.
Emitted(s) == Appended([s EXCEPT !.next = @ + 1], s.next + 1)

\* Mutant: chunks with nothing but usage are forwarded too.
ForwardsUsage(c) == c.text # <<>> \/ c.think \/ c.usage

\* Chunks with neither text nor reasoning are skipped, and their usage with them.
Forwarded(c) == c.text # <<>> \/ c.think

\* The next chunk.  onChunk asks whether the client has left before it emits;
\* after a refusal the rest is only collected.
DrainChunk ==
    /\ loop.pc = "drain"
    /\ pipe.hop[3] # <<>>
    /\ LET c == Head(pipe.hop[3])
           k == [loop EXCEPT !.text = @ \o c.text]
           f == [k EXCEPT !.usage = @ \/ c.usage]
       IN  /\ pipe' = [pipe EXCEPT !.hop[3] = Tail(@)]
           /\ \/ ~(loop.fwd /\ Forwarded(c)) /\ loop' = k /\ UNCHANGED shown
              \/ /\ loop.fwd /\ Forwarded(c)
                 /\ ~stream
                 /\ loop' = f
                 /\ shown' = shown \o PieceOf(c)
              \/ /\ loop.fwd /\ Forwarded(c)
                 /\ stream
                 /\ loop' = IF left THEN [f EXCEPT !.fwd = FALSE]
                                    ELSE [f EXCEPT !.pc = "emit", !.cur = <<c>>]
                 /\ UNCHANGED shown
    /\ UNCHANGED <<stream, left, tool, abort, hist, sse, reply, made, effects, raced>>

\* Mutant: reasoning or text.
DrainEmitEither ==
    /\ loop.pc = "emit"
    /\ sse' = Emitted(sse)
    /\ shown' = IF loop.cur[1].think THEN shown ELSE shown \o PieceOf(loop.cur[1])
    /\ loop' = [loop EXCEPT !.pc = "drain", !.cur = <<>>]
    /\ UNCHANGED <<stream, left, pipe, tool, abort, hist, reply, made, effects, raced>>

\* The rest of onChunk: reasoning, then text.
DrainEmit ==
    /\ loop.pc = "emit"
    /\ LET c == loop.cur[1]
           r == IF c.think THEN Emitted(sse) ELSE sse
       IN  /\ sse' = IF c.text # <<>> THEN Emitted(r) ELSE r
           /\ shown' = shown \o PieceOf(c)
    /\ loop' = [loop EXCEPT !.pc = "drain", !.cur = <<>>]
    /\ UNCHANGED <<stream, left, pipe, tool, abort, hist, reply, made, effects, raced>>

\* What Run makes of the text full: an error, the answer, or calls.
Verdict(result, content, calls) == [result |-> result, content |-> content, calls |-> calls]

Judge(full) ==
    LET rows == RowsOf(full)
        exec == FilterExecutableToolRows(rows)
        calls == ResolveExecutableToolCalls(Tools, exec)
        answer == IF rows = <<>> THEN "" ELSE DirectAnswerText(rows[1].params)
    IN  CASE full = <<>> -> Verdict("empty", <<>>, <<>>)
          [] full # <<>> /\ exec # <<>> /\ calls = <<>> -> Verdict("undeclared", <<>>, <<>>)
          [] full # <<>> /\ exec # <<>> /\ calls # <<>> -> Verdict("none", <<>>, calls)
          [] OTHER -> Verdict("ok", IF Len(rows) = 1 /\ answer # "" THEN <<answer>> ELSE full, <<>>)

\* The texts that can arrive, and what Run makes of each.
Texts == UNION {{Text(SubSeq(r, 1, n)) : n \in 0..Len(r)} : r \in Replies}
Judged == [t \in Texts |-> Judge(TrimSpace(Joined(t)))]

\* The calls that are read from a text are a list.
ASSUME CallsAssumption == \A t \in Texts : Judged[t].calls \in Seq(Range(Judged[t].calls))

Idle(call) == [pc |-> "check", call |-> call, tmp |-> 0, tries |-> 0, out |-> "none"]

DrainEnds ==
    /\ loop.pc = "drain"
    /\ 3 \in pipe.closed
    /\ pipe.hop[3] = <<>>
    /\ LET j == Judged[loop.text]
       IN  /\ loop' = IF j.calls = <<>>
                      THEN [Returned(loop, j.result) EXCEPT !.content = j.content]
                      ELSE [loop EXCEPT !.pc = "tools"]
           /\ tool' = [i \in DOMAIN j.calls |-> Idle(j.calls[i])]
           /\ effects' = IF j.calls = <<>> THEN effects
                         ELSE effects \o [n \in 1..(Len(j.calls) + 1) |-> 0]
    /\ abort' = FALSE
    /\ UNCHANGED <<stream, left, pipe, hist, sse, reply, made, shown, raced>>

-----------------------------------------------------------------------------
(* The goroutine of tool call i.                                           *)

InEmit == {"write", "append", "write2", "append2"}
AlsoEmitting(i) == \E j \in DOMAIN tool \ {i} : tool[j].pc \in InEmit

\* Where call i of this round is counted in effects: where its message will be in hist.
Nr(i) == Len(effects) - Len(tool) + i

ToolChecks(i) ==
    /\ tool[i].pc = "check"
    /\ tool' = [tool EXCEPT ![i] =
                  IF left \/ abort THEN [@ EXCEPT !.pc = "end", !.out = "cancelled"]
                  ELSE [@ EXCEPT !.pc = IF stream THEN "read" ELSE "exec"]]
    /\ UNCHANGED <<stream, left, loop, pipe, abort, hist, sse, reply, made, shown, effects, raced>>

\* eventID++ of the event "start" or "done".
EmitReads(i) ==
    /\ tool[i].pc \in {"read", "read2"}
    /\ tool' = [tool EXCEPT ![i].tmp = sse.next,
                            ![i].pc = IF @ = "read" THEN "write" ELSE "write2"]
    /\ raced' = (raced \/ AlsoEmitting(i))
    /\ UNCHANGED <<stream, left, loop, pipe, abort, hist, sse, reply, made, shown, effects>>

EmitWrites(i) ==
    /\ tool[i].pc \in {"write", "write2"}
    /\ tool' = [tool EXCEPT ![i].pc = IF @ = "write" THEN "append" ELSE "append2"]
    /\ sse' = [sse EXCEPT !.next = tool[i].tmp + 1]
    /\ raced' = (raced \/ AlsoEmitting(i))
    /\ UNCHANGED <<stream, left, loop, pipe, abort, hist, reply, made, shown, effects>>

\* The event takes the counter as it is now.
EmitAppends(i) ==
    /\ tool[i].pc \in {"append", "append2"}
    /\ tool' = [tool EXCEPT ![i].tmp = 0, ![i].pc = IF @ = "append" THEN "exec" ELSE "fin"]
    /\ sse' = Appended(sse, sse.next)
    /\ raced' = (raced \/ AlsoEmitting(i))
    /\ UNCHANGED <<stream, left, loop, pipe, abort, hist, reply, made, shown, effects>>

\* Mutant: every tool is tried again.
RetryAll(c) == TRUE

\* callToolAllowsTransportRetry: the name of the tool on its server is asked,
\* so only a tool whose own name looks like an alias is tried again.
AllowsRetry(c) == c.name \in Retried

\* Registry.HasTool: resolved names are aliases of tools of configured servers.
HasTool(name) == name \in Tools

\* Registry.Call and Execute before it: what fails without asking the server, as
\* parameters that are no object.
Refused(call) == ~HasTool(call.name) \/ call.params = "scalar"

\* One attempt of CallTool: the server answers, with a result or with an error of its
\* own; or the call is lost, on the way to the server (no transport, no session) or
\* after the server executed it.
Answered == {[ran |-> 1, out |-> "ok"], [ran |-> 1, out |-> "error"]}
LostBefore == [ran |-> 0, out |-> "lost"]
LostAfter == [ran |-> 1, out |-> "lost"]
Attempts == Answered \cup {LostBefore, LostAfter}

\* Any lost attempt is followed by the second one, if there is one: the loop has no
\* exit for errors that are not worth it.
CallTool(t, x) ==
    IF x.out = "lost" /\ AllowsRetry(t.call) /\ t.tries = 0
    THEN [t EXCEPT !.tries = 1]
    ELSE [t EXCEPT !.pc = IF stream THEN "read2" ELSE "fin",
                   !.out = IF x.out = "ok" THEN "ok" ELSE "error"]

\* mcpChatExecutor.Execute.
Execute(i) ==
    /\ tool[i].pc = "exec"
    /\ \/ /\ Refused(tool[i].call)
          /\ tool' = [tool EXCEPT ![i].pc = IF stream THEN "read2" ELSE "fin", ![i].out = "error"]
          /\ UNCHANGED effects
       \/ /\ ~Refused(tool[i].call)
          /\ \E x \in Attempts :
                /\ tool' = [tool EXCEPT ![i] = CallTool(@, x)]
                /\ effects' = [effects EXCEPT ![Nr(i)] = @ + x.ran]
    /\ UNCHANGED <<stream, left, loop, pipe, abort, hist, sse, reply, made, shown, raced>>

\* An error cancels the other calls of the round.
ToolEnds(i) ==
    /\ tool[i].pc = "fin"
    /\ tool' = [tool EXCEPT ![i].pc = "end"]
    /\ abort' = (abort \/ tool[i].out = "error")
    /\ UNCHANGED <<stream, left, loop, pipe, hist, sse, reply, made, shown, effects, raced>>

\* ToolCallsToOpenAIJSON, and the message of a call: its result or ErrorToolMessage.
CallsMessage(calls) == [role |-> "assistant", calls |-> calls]
ResultMessage(i, t) == [role |-> "tool", id |-> i, name |-> t.call.name, ok |-> t.out = "ok"]

\* wg.Wait, the messages of the round, the next round.
Turn(calls, outs) ==
    <<CallsMessage(calls)>> \o [i \in DOMAIN outs |-> ResultMessage(i, outs[i])]

RoundEnds ==
    /\ loop.pc = "tools"
    /\ \A i \in DOMAIN tool : tool[i].pc = "end"
    /\ hist' = hist \o Turn([i \in DOMAIN tool |-> tool[i].call.name], tool)
    /\ loop' = [loop EXCEPT !.pc = "round", !.round = @ + 1]
    /\ tool' = <<>>
    /\ pipe' = NoPipe
    /\ UNCHANGED <<stream, left, abort, sse, reply, made, shown, effects, raced>>

\* What the runner reads of the history in the next round.  It knows no calls and
\* no tools: FormatContentForRunner writes them into the contents.
FormatContentForRunner(m) == IF m.role = "tool" THEN <<m.id, m.name, m.ok>> ELSE m.calls

PrepareMessagesForRunner(msgs) ==
    [i \in DOMAIN msgs |-> [role |-> msgs[i].role, content |-> FormatContentForRunner(msgs[i])]]

-----------------------------------------------------------------------------
(* The handlers.                                                           *)

\* writeChatMCPLoopSSE: the client left before Run returned.
HandlerLeaves ==
    /\ stream /\ left
    /\ reply.pc = "wait"
    /\ sse' = [sse EXCEPT !.done = TRUE]
    /\ reply' = [reply EXCEPT !.pc = "returned"]
    /\ UNCHANGED <<stream, left, loop, pipe, tool, abort, hist, made, shown, effects, raced>>

\* Mutant: done before the last event.
HandlerMarksFirst ==
    /\ stream
    /\ reply.pc = "wait"
    /\ loop.pc = "returned"
    /\ sse' = Emitted([sse EXCEPT !.done = TRUE])
    /\ reply' = [reply EXCEPT !.pc = "mark", !.charged = loop.result = "ok" /\ loop.usage,
                              !.kept = loop.result = "ok"]
    /\ UNCHANGED <<stream, left, loop, pipe, tool, abort, hist, made, shown, effects, raced>>

\* Its last event, "end" or "error": the answer is charged if its usage is known, and kept.
HandlerAnswers ==
    /\ stream
    /\ reply.pc = "wait"
    /\ loop.pc = "returned"
    /\ sse' = Emitted(sse)
    /\ reply' = [reply EXCEPT !.pc = "mark", !.charged = loop.result = "ok" /\ loop.usage,
                              !.kept = loop.result = "ok"]
    /\ UNCHANGED <<stream, left, loop, pipe, tool, abort, hist, made, shown, effects, raced>>

HandlerMarksDone ==
    /\ reply.pc = "mark"
    /\ sse' = [sse EXCEPT !.done = TRUE]
    /\ reply' = [reply EXCEPT !.pc = "returned"]
    /\ UNCHANGED <<stream, left, loop, pipe, tool, abort, hist, made, shown, effects, raced>>

\* runChatWithMCPTools without a stream: a job when the queue timed out.
PlainAnswers ==
    /\ ~stream
    /\ reply.pc = "wait"
    /\ loop.pc = "returned"
    /\ reply' = [reply EXCEPT !.pc = IF loop.result = "queue" THEN "queued" ELSE "returned",
                              !.charged = loop.result = "ok" /\ loop.usage,
                              !.kept = loop.result = "ok"]
    /\ UNCHANGED <<stream, left, loop, pipe, tool, abort, hist, sse, made, shown, effects, raced>>

\* Everything is over.
Ended ==
    /\ reply.pc \in {"returned", "queued"}
    /\ loop.pc = "returned"
    /\ UNCHANGED vars

-----------------------------------------------------------------------------

Environment == ClientLeaves \/ (\E r \in Replies : SendAccepted(r)) \/ SenderSends \/ SenderEnds

Program ==
    \/ Prepare \/ RoundBegins \/ SendRefused
    \/ SenderStops
    \/ \E i \in 1..2 : Forward(i) \/ ForwardEnds(i)
    \/ DrainChunk \/ DrainEmit \/ DrainEnds
    \/ \E i \in DOMAIN tool :
          \/ ToolChecks(i) \/ EmitReads(i) \/ EmitWrites(i) \/ EmitAppends(i)
          \/ Execute(i) \/ ToolEnds(i)
    \/ RoundEnds
    \/ HandlerLeaves \/ HandlerAnswers \/ HandlerMarksDone \/ PlainAnswers

Next == Environment \/ Program \/ Ended

Spec == Init /\ [][Next]_vars

\* What the program does without waiting for the runner or for a slot.  Tools
\* return, their context has a timeout; a call that waits for a slot and the
\* stream of the runner end once the client has left.
Prompt ==
    \/ Prepare \/ RoundBegins
    \/ left /\ (SendRefused \/ SenderStops)
    \/ \E i \in 1..2 : Forward(i) \/ ForwardEnds(i)
    \/ DrainChunk \/ DrainEmit \/ DrainEnds
    \/ \E i \in DOMAIN tool :
          \/ ToolChecks(i) \/ EmitReads(i) \/ EmitWrites(i) \/ EmitAppends(i)
          \/ Execute(i) \/ ToolEnds(i)
    \/ RoundEnds
    \/ HandlerLeaves \/ HandlerAnswers \/ HandlerMarksDone \/ PlainAnswers

FairSpec == Spec /\ WF_vars(Prompt)

-----------------------------------------------------------------------------

\* The answer is over: whole, when the handler said so and no piece was held back.
Over ==
    CASE reply.pc = "wait" -> "no"
      [] reply.pc # "wait" /\ reply.kept /\ loop.fwd -> "whole"
      [] OTHER -> "cut"

Pieces == (1..MaxRounds) \X (1..MaxLength)

Promise == INSTANCE AnswerStream WITH
    Pieces <- Pieces, made <- made, shown <- shown, over <- Over

\* Through the sender, two forwarders and the loop, over all rounds, the pieces
\* of text reach onChunk in the order of the runner, each once, and none is
\* missing when "end" is sent, unless onChunk had refused one.
StreamedInOrder == Promise!Spec

\* What the runner has been told of the calls, over all rounds.
Told == PrepareMessagesForRunner(hist)

\* In what the runner reads, each message with calls is followed by one message per
\* call, with its number and name, in the order of the calls whatever the order in
\* which the goroutines ended; a result is only reported for a call that was
\* executed; and no call is executed twice by its server, unless CallTool takes it
\* for one that may be retried.
ToolMessagesTrue ==
    /\ 1 \in DOMAIN Told => Told[1].role = "assistant"
    /\ \A i \in DOMAIN Told : Told[i].role = "assistant" =>
          LET calls == Told[i].content
              next == i + Len(calls) + 1
          IN  /\ \A j \in DOMAIN calls :
                    /\ i + j \in DOMAIN Told
                    /\ Told[i + j].role = "tool"
                    /\ Told[i + j].content[1] = j
                    /\ Told[i + j].content[2] = calls[j]
              /\ next \in DOMAIN Told => Told[next].role = "assistant"
    /\ \A n \in DOMAIN Told : Told[n].role = "tool" =>
          /\ Told[n].content[3] => effects[n] > 0
          /\ effects[n] > 1 => Told[n].content[2] \in Retried


\* A client that resumes the stream with the last id it saw misses nothing and
\* sees nothing twice: ids grow, unless two tools were in emit at once.  Nothing
\* is added to a session that is done, and nothing is written after the handler
\* has returned, unless the client had left.
EventsSound ==
    /\ sse.mixed => raced
    /\ sse.late => left

\* The daily quota is never charged for a request with tools: the usage comes
\* in a chunk without text, which the loop does not look at.
NeverCharged == ~reply.charged

\* Once the client has left, Run and its goroutines end, the handler returns and
\* the slot and the counter of the runner are given back.
Released ==
    left ~> /\ loop.pc = "returned" /\ reply.pc \in {"returned", "queued"}
            /\ ~pipe.slot /\ ~pipe.busy

=============================================================================
