---------------------------- MODULE HarnessSteps ----------------------------
(* What trg makes of a harness's stdout: runner/stream.rs stamps the lines as *)
(* they arrive, runner/harness_spans.rs rebuilds from them the model calls    *)
(* and tool calls of the run, while it runs for its caps and afterwards for   *)
(* its spans and its metrics. How the harness is stopped is HarnessGroups.    *)
(*                                                                            *)
(* The three harnesses are external: a model call writes text and asks for    *)
(* tools, which run side by side, and the next one begins when all of them    *)
(* have answered. Time is the number of lines written. Names of models and    *)
(* tools, the tokens of a usage and the results of tools are left out.        *)
EXTENDS Naturals, Sequences, FiniteSetsExt

CONSTANTS
    Formats,      \* of StreamFormats
    Scripts,      \* formats -> the sequences of calls a run may make
    MaxLines,     \* bound on the lines of a stream
    MaxLag,       \* bound on the lines the reader is behind
    Caps          \* of RunCaps

StreamFormats == {"claude", "cursor", "codex"}
RunCaps == [tools : Nat, turns : Nat]  \* 0: unbounded

ASSUME StreamAssumption ==
    /\ Formats \subseteq StreamFormats /\ Caps \subseteq RunCaps
    /\ \A f \in Formats : \A s \in Scripts[f] :
          s \in Seq({s[n] : n \in DOMAIN s}) /\ \A n \in DOMAIN s : s[n].finishedOnly => f = "codex"

VARIABLES
    harness,  \* the process: what it is, what it does, what it has asked for
    lines,    \* its stdout
    stamps,   \* when each line read so far arrived
    live,     \* LiveReconstruction of the lines read so far
    crossed,  \* the reader found a cap crossed
    ended,    \* why and when the harness was seen to end
    replay,   \* what is made of stdout after the run, line by line
    past      \* history: the harness before the first line and after each line

stepVars == <<harness, lines, stamps, live, crossed, ended, replay, past>>

NoCall == [id |-> 0, tool |-> "", args |-> <<>>]
Line(kind, msg, call) == [kind |-> kind, msg |-> msg, call |-> call]
Plain(kind) == Line(kind, 0, NoCall)

\* A line cut short by the end of the process, which no reader can parse.
Torn == Plain("torn")

NoHarness == [format |-> "none", script |-> <<>>, caps |-> [tools |-> 0, turns |-> 0],
              pc |-> "gone", msg |-> 0, begun |-> <<>>, open |-> {}, spoke |-> 0]

Harnesses ==
    UNION {[format : {f}, script : Scripts[f], caps : Caps,
            pc : {"idle"}, msg : {0}, begun : {<<>>}, open : {{}}, spoke : {0}] : f \in Formats}

------------------------------------------------------------------------------
(* Steps, rebuilt: StepBuilder                                                *)

\* turn and a codex turn are optional: a sequence of at most one. tools: of distinct ids.
NewBuilder == [steps |-> <<>>, tools |-> {}, turn |-> <<>>, codex |-> <<>>, last |-> 0]

\* spans: of the run as it was timed; plain: of its transcript, which holds no stamps;
\* events: the calls of events.json.
NewReplay == [read |-> 0, spans |-> NewBuilder, plain |-> NewBuilder, events |-> <<>>]

StepsInit(harnesses) ==
    /\ harness \in harnesses
    /\ lines = <<>> /\ stamps = <<>> /\ live = NewBuilder /\ crossed = FALSE
    /\ ended = [why |-> "no", at |-> 0]
    /\ replay = NewReplay /\ past = <<harness>>

Step(kind, id, start, end, failure) ==
    [kind |-> kind, id |-> id, args |-> <<>>, start |-> start, end |-> end,
     failure |-> failure, usage |-> FALSE]

Later(t, u) == IF t > u THEN t ELSE u

Arrived(b, at) == [b EXCEPT !.last = Later(@, at)]

CloseTurn(b, failure) ==
    IF b.turn = <<>> THEN b
    ELSE LET t == b.turn[1] IN
         [b EXCEPT !.turn = <<>>,
                   !.steps = Append(@, [Step("chat", t.key, t.start, t.end, failure) EXCEPT !.usage = t.usage])]

OpenTurn(b, key, start) ==
    [CloseTurn(b, "none") EXCEPT !.turn = <<[key |-> key, start |-> start, end |-> start, usage |-> FALSE]>>]

Speaks(b, at) == IF b.turn = <<>> THEN b ELSE [b EXCEPT !.turn[1].end = at]

OpenOf(b, call) == {t \in b.tools : t.id = call.id}

\* open_tool, of a call that is not open already; args: what repeats a call, its tool too
OpenTool(b, call, at) ==
    IF OpenOf(b, call) # {} THEN b
    ELSE [b EXCEPT !.tools = @ \cup {[id |-> call.id, args |-> <<<<call.tool, call.args>>>>, start |-> at]}]

\* close_tool: a call that was only reported finishing has no length.
CloseTool(b, call, failure, at) ==
    LET found == OpenOf(b, call)
        tool == IF found = {} THEN [id |-> call.id, args |-> <<>>, start |-> at] ELSE CHOOSE t \in found : TRUE
    IN [b EXCEPT !.tools = @ \ found,
                 !.steps = Append(@, [Step("tool", tool.id, tool.start, Later(at, tool.start), failure)
                                         EXCEPT !.args = tool.args])]

\* claude_code: a turn is the assistant events of one message.
ObserveClaude(b, line, at) ==
    Arrived(
        CASE line.kind = "assistant" ->
                LET continues == b.turn # <<>> /\ b.turn[1].key = line.msg
                    turn == IF continues THEN b ELSE OpenTurn(b, line.msg, b.last)
                    said == [Speaks(turn, at) EXCEPT !.turn[1].usage = TRUE]
                IN IF line.call = NoCall THEN said ELSE OpenTool(said, line.call, at)
          [] line.kind = "user" -> CloseTool(CloseTurn(b, "none"), line.call, "none", at)
          [] OTHER -> CloseTurn(b, "none"),
        at)

\* cursor_agent: a turn is a run of assistant events.
ObserveCursor(b, line, at) ==
    Arrived(
        CASE line.kind = "assistant" ->
                Speaks(IF b.turn = <<>> THEN OpenTurn(b, 0, b.last) ELSE b, at)
          [] line.kind = "started" -> OpenTool(CloseTurn(b, "none"), line.call, at)
          [] line.kind = "completed" ->
                CloseTool(OpenTool(CloseTurn(b, "none"), line.call, at), line.call, "none", at)
          [] line.kind = "thinking" -> b
          [] OTHER -> CloseTurn(b, "none"),
        at)

\* A model call that ended takes what its turn reports.
Takes(step, failure, usage) ==
    [step EXCEPT !.usage = @ \/ usage, !.failure = IF @ = "none" THEN failure ELSE @]

\* CodexTurn::end: what the turn reports belongs to its last model call.
EndCodexTurn(b, at, failure, usage) ==
    IF b.turn # <<>>
    THEN CloseTurn([Speaks(b, at) EXCEPT !.turn[1].usage = usage], failure)
    ELSE LET chats == {i \in DOMAIN b.steps : i > b.codex[1] /\ b.steps[i].kind = "chat"} IN
         IF chats = {} THEN b
         ELSE [b EXCEPT !.steps[Max(chats)] = Takes(@, failure, usage)]

\* Mutant: every tool that completes begins a model call.
Always(b) == TRUE

\* No tool is running: the next model call has begun.
AllAnswered(b) == b.tools = {}

\* The line of a tool: what it does to its call.
ObserveCodexTool(b, line, at) ==
    LET quiet == IF b.tools = {} THEN CloseTurn(Speaks(b, at), "none") ELSE b
        open == OpenTool(quiet, line.call, at)
        closed == CloseTool(open, line.call, "none", at)
    IN IF line.kind = "started" THEN open
       ELSE IF AllAnswered(closed) /\ closed.codex # <<>> THEN OpenTurn(closed, 0, at) ELSE closed

\* codex: its model calls are the stretches of a turn with no tool running.
ObserveCodex(b, line, at) ==
    LET seen ==
            CASE line.kind = "turn.started" ->
                    LET c == CloseTurn(b, "none") IN
                    OpenTurn([c EXCEPT !.codex = <<Len(c.steps)>>], 0, at)
              [] line.kind \in {"turn.completed", "turn.failed"} /\ b.codex # <<>> ->
                    [EndCodexTurn(b, at, IF line.kind = "turn.failed" THEN "turn_failed" ELSE "none",
                                  line.kind = "turn.completed") EXCEPT !.codex = <<>>]
              [] line.kind \in {"started", "completed"} -> ObserveCodexTool(b, line, at)
              [] OTHER -> b
    IN Arrived(IF seen.turn = <<>> THEN seen ELSE Speaks(seen, Later(seen.turn[1].end, at)), at)

\* LiveReconstruction::observe_line; a line that does not parse is skipped.
Observe(b, line, at) ==
    IF line = Torn THEN b
    ELSE CASE harness.format = "claude" -> ObserveClaude(b, line, at)
           [] harness.format = "cursor" -> ObserveCursor(b, line, at)
           [] harness.format = "codex" -> ObserveCodex(b, line, at)

IsTool(step) == step.kind = "tool"
IsChat(step) == step.kind = "chat"

ToolSteps(steps) == {i \in DOMAIN steps : IsTool(steps[i])}
ChatSteps(steps) == {i \in DOMAIN steps : IsChat(steps[i])}

\* LiveReconstruction::tool_calls and ::model_calls
ToolCalls(b) == Cardinality(ToolSteps(b.steps)) + Cardinality(b.tools)
ModelCalls(b) == Cardinality(ChatSteps(b.steps)) + Len(b.turn)

\* StepBuilder::finish: the steps that ended and those it cuts off. The order in which
\* they are handed on is left out.
Finished(b, why, end) ==
    LET chat == CloseTurn(IF b.turn = <<>> THEN b ELSE Speaks(b, Later(end, b.turn[1].start)), why)
        Cut(tool) == [Step("tool", tool.id, tool.start, Later(end, tool.start), why) EXCEPT !.args = tool.args]
    IN [x \in ({"done"} \X DOMAIN chat.steps) \cup ({"cut"} \X b.tools) |->
           IF x[1] = "done" THEN chat.steps[x[2]] ELSE Cut(x[2])]

------------------------------------------------------------------------------
(* The harness, external                                                      *)

Alive == harness.pc # "gone"
MayWrite == Alive /\ Len(lines) < MaxLines

\* The harness writes a line, and goes on as h.
Writes(line, h) ==
    /\ MayWrite
    /\ Len(lines) - Len(stamps) <= MaxLag
    /\ lines' = Append(lines, line)
    /\ harness' = h /\ past' = Append(past, h)
    /\ UNCHANGED <<stamps, live, crossed, ended, replay>>

\* A model call is on: one that goes on, or one that may begin.
Thinks == harness.pc = "model" \/ (harness.pc = "idle" /\ harness.open = {} /\ harness.format # "codex")

\* The message a model call writes as.
Message == IF harness.pc = "model" THEN harness.msg ELSE harness.msg + 1

\* Model calls of which the stream tells.
Spoken(tells) == harness.spoke + (IF harness.pc # "model" /\ tells THEN 1 ELSE 0)

BeginTurn ==
    /\ harness.format = "codex" /\ harness.pc = "idle" /\ harness.open = {}
    /\ Writes(Plain("turn.started"), [harness EXCEPT !.pc = "model", !.spoke = @ + 1])

Say ==
    /\ Thinks
    /\ Writes(IF harness.format = "codex" THEN Plain("message") ELSE Line("assistant", Message, NoCall),
              [harness EXCEPT !.pc = "model", !.msg = Message, !.spoke = Spoken(TRUE)])

\* codex runs what one model call asked for, one tool beside the other.
Asks == Thinks \/ (harness.format # "claude" /\ harness.pc = "tools")

\* The next call of the script, by its number.
NextCall ==
    LET id == Len(harness.begun) + 1 IN
    [id |-> id, tool |-> harness.script[id].tool, args |-> harness.script[id].args]

AskFor ==
    /\ Asks /\ Len(harness.begun) < Len(harness.script)
    /\ ~harness.script[NextCall.id].finishedOnly
    /\ Writes(IF harness.format = "claude" THEN Line("assistant", Message, NextCall) ELSE Line("started", 0, NextCall),
              [harness EXCEPT !.begun = Append(@, NextCall),
                              !.open = @ \cup {NextCall},
                              !.msg = Message,
                              !.pc = IF harness.format = "claude" THEN "model" ELSE "tools",
                              !.spoke = Spoken(harness.format = "claude")])

\* codex reports some calls only when they are over.
TellOf ==
    /\ Asks /\ Len(harness.begun) < Len(harness.script)
    /\ harness.script[NextCall.id].finishedOnly
    /\ Writes(Line("completed", 0, NextCall),
              [harness EXCEPT !.begun = Append(@, NextCall),
                              !.spoke = IF harness.open = {} THEN @ + 1 ELSE @])

\* Of a codex whose turn is over already, an answer begins no model call.
Answer(call) ==
    /\ call \in harness.open
    /\ LET last == harness.open = {call}
           back == last /\ harness.format = "codex" /\ harness.pc = "tools"
       IN Writes(Line(IF harness.format = "claude" THEN "user" ELSE "completed", 0, call),
                 [harness EXCEPT
                     !.open = @ \ {call},
                     !.pc = IF back THEN "model" ELSE IF last THEN "idle" ELSE IF @ = "late" THEN @ ELSE "tools",
                     !.spoke = IF back THEN @ + 1 ELSE @])

\* A status, between model calls.
Chatter ==
    /\ harness.pc = "idle" /\ harness.open = {}
    /\ Writes(Plain("system"), harness)

\* cursor-agent reports its thinking in the middle of a message.
Think ==
    /\ harness.format = "cursor" /\ harness.pc = "model"
    /\ Writes(Plain("thinking"), harness)

\* A turn of codex may end, or fail, before the tools it asked for do.
EndTurn ==
    /\ (harness.pc = "model" /\ harness.open = {}) \/ (harness.format = "codex" /\ harness.pc = "tools")
    /\ \E kind \in IF harness.format = "codex" THEN {"turn.completed", "turn.failed"} ELSE {"result"} :
          Writes(Plain(kind), [harness EXCEPT !.pc = IF harness.format # "codex" THEN "over"
                                                     ELSE IF @ = "model" THEN "idle" ELSE "late"])

------------------------------------------------------------------------------
(* trg: capture_capped                                                        *)

\* Mutant: landing exactly on a cap crosses it.
AtCap(b, c) ==
    (c.tools # 0 /\ ToolCalls(b) >= c.tools) \/ (c.turns # 0 /\ ModelCalls(b) >= c.turns)

\* RunCaps::crossed
PastCap(b, c) ==
    (c.tools # 0 /\ ToolCalls(b) > c.tools) \/ (c.turns # 0 /\ ModelCalls(b) > c.turns)

\* CapWatch::of leaves claude-code's turns to claude-code.
Watched(b) ==
    LET c == IF harness.format = "claude" THEN [harness.caps EXCEPT !.turns = 0] ELSE harness.caps IN PastCap(b, c)

Now == Len(lines) + (IF ended.why = "no" THEN 0 ELSE 1)

\* read_stamped_watching
ReadLine ==
    /\ Len(stamps) < Len(lines)
    /\ stamps' = Append(stamps, Now)
    /\ live' = Observe(live, lines[Len(stamps) + 1], Now)
    /\ crossed' = (crossed \/ Watched(live'))
    /\ UNCHANGED <<harness, lines, ended, replay, past>>

\* The process is gone, its last line perhaps half written.
StreamEnds(why) ==
    /\ Alive
    /\ \/ UNCHANGED <<lines, past>>
       \/ MayWrite /\ lines' = Append(lines, Torn) /\ past' = Append(past, harness)
    /\ ended' = [why |-> why, at |-> Len(lines')]
    /\ harness' = [harness EXCEPT !.pc = "gone"]
    /\ UNCHANGED <<stamps, live, crossed, replay>>

\* The poll sees the harness exit, finds a cap crossed, or the time limit passed.
HarnessExits == StreamEnds("exited")
CapStops == crossed /\ StreamEnds("cap")
LimitStops == ~crossed /\ StreamEnds("timed_out")

------------------------------------------------------------------------------
(* The run is over: its stdout is read to the end, and three readers go through *)
(* what was captured, each by itself: reconstruct for the spans, measure for    *)
(* the metrics, and the normalizers of transcript.rs for events.json.           *)

ReadToEnd == harness.format # "none" /\ ended.why # "no" /\ Len(stamps) = Len(lines)

\* StdoutTimeline::clamped_to
Clamped(stamp) == IF stamp > ended.at THEN ended.at ELSE stamp

\* Mutant: cursor-agent's completed events are read too.
EitherEnd(line) ==
    /\ line.call # NoCall
    /\ CASE harness.format = "claude" -> line.kind = "assistant"
         [] harness.format = "cursor" -> TRUE
         [] harness.format = "codex" -> line.kind = "started" /\ line.call.tool \in {"command_execution", "file_change"}

\* The line of a call that the normalizers read: where it starts.
Reported(line) ==
    /\ line.call # NoCall
    /\ CASE harness.format = "claude" -> line.kind = "assistant"
         [] harness.format = "cursor" -> line.kind = "started"
         [] harness.format = "codex" -> line.kind = "started" /\ line.call.tool \in {"command_execution", "file_change"}

ReplayLine ==
    /\ ReadToEnd /\ replay.read < Len(lines)
    /\ LET n == replay.read + 1
           line == lines[n]
       IN replay' = [read |-> n,
                     spans |-> Observe(replay.spans, line, Clamped(stamps[n])),
                     plain |-> Observe(replay.plain, line, 0),
                     events |-> IF Reported(line) THEN Append(replay.events, line.call) ELSE replay.events]
    /\ UNCHANGED <<harness, lines, stamps, live, crossed, ended, past>>

StepsNext ==
    \/ BeginTurn \/ Say \/ AskFor \/ TellOf \/ (\E c \in harness.open : Answer(c)) \/ Chatter \/ Think \/ EndTurn
    \/ ReadLine \/ HarnessExits \/ CapStops \/ LimitStops \/ ReplayLine

StepsSpec == StepsInit(Harnesses) /\ [][StepsNext]_stepVars

StreamDone == ReadToEnd /\ replay.read = Len(lines)

\* StreamEnd: a cap found crossed while the last lines were read counts.
EndedBy ==
    CASE ended.why = "cap" \/ (ended.why = "exited" /\ crossed) -> "budget_exhausted"
      [] ended.why = "timed_out" -> "timeout"
      [] OTHER -> "unfinished"

\* reconstruct
Rebuilt == Finished(replay.spans, EndedBy, ended.at)

\* measure: TranscriptMetrics
Metrics ==
    LET steps == Finished(replay.plain, "unfinished", 0)
        tools == ToolSteps(steps)
        known == {i \in tools : steps[i].args # <<>>}
    IN [turns |-> Cardinality(ChatSteps(steps)), calls |-> Cardinality(tools),
        repeated |-> Cardinality(known) - Cardinality({steps[i].args : i \in known})]

\* The calls a reader of the first n lines can know of, and those it saw end.
Told(n) == {lines[i].call : i \in 1..n} \ {NoCall}
Answered(n) == {lines[i].call : i \in {j \in 1..n : lines[j].kind \in {"user", "completed"}}}

(* However far the stream was read and wherever the harness was cut off, a    *)
(* call is counted once, as one that runs or one that ended, and no model     *)
(* call is counted that was not made; so a cap stops no run that kept to it.  *)
(* The metrics of the transcript count what the caps counted.                 *)
CallsAreCountedOnce ==
    harness.format # "none" =>
        /\ ToolCalls(live) = Cardinality(Told(Len(stamps)))
        /\ ModelCalls(live) <= harness.spoke
        /\ crossed => \/ harness.caps.tools # 0 /\ Len(harness.begun) > harness.caps.tools
                      \/ harness.caps.turns # 0 /\ harness.spoke > harness.caps.turns
        /\ StreamDone => /\ Metrics.calls = ToolCalls(live) /\ Metrics.turns = ModelCalls(live)
                         /\ Metrics.repeated < Metrics.calls \/ Metrics.calls = 0

Overlap(s, t) == s.start < t.end /\ t.start < s.end

(* The spans rebuilt of a run fill its time the way the run did: none begins  *)
(* before it or ends after it, no two model calls overlap, and of codex no    *)
(* model call overlaps a tool; exactly the calls that were not seen to end    *)
(* are marked as cut off; and a codex turn's usage lands on one model call.   *)
StepsTileTheRun ==
    StreamDone =>
        LET steps == Rebuilt
            chats == ChatSteps(steps)
            tools == DOMAIN steps \ chats
            n == Len(lines)
        IN /\ \A i \in DOMAIN steps : steps[i].start <= steps[i].end /\ steps[i].end <= ended.at
           /\ \A i, j \in chats : i # j => ~Overlap(steps[i], steps[j])
           /\ harness.format = "codex" => \A i \in chats, j \in tools : ~Overlap(steps[i], steps[j])
           /\ {steps[i].id : i \in {j \in tools : steps[j].failure = EndedBy}} =
                 {c.id : c \in Told(n) \ Answered(n)}
           /\ Cardinality({i \in chats : steps[i].failure = EndedBy}) <= 1
           /\ harness.format = "codex" =>
                 Cardinality({i \in chats : steps[i].usage}) =
                 Cardinality({i \in 1..n : lines[i].kind = "turn.completed"})

(* What is rebuilt of a stream adds up: to the calls that were made and to    *)
(* the time the run took.                                                     *)
StreamAddsUp == CallsAreCountedOnce /\ StepsTileTheRun
=============================================================================
