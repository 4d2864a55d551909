---------------------------- MODULE Transcripts ----------------------------
(* What a run is judged by: transcript.rs makes events.json of the stdout that *)
(* HarnessSteps models, with the paths that left the workspace and whether the *)
(* run engaged the skill it was given, and graders.rs answers the checks of a  *)
(* case from it and from the files the run left.                               *)
(*                                                                             *)
(* A value a call was given is a sequence of tokens, the payload of sh -c laid *)
(* out in place. A token is what the readers tell apart: where it leads, which *)
(* staging directory its text holds, how it begins. What a target holds, and   *)
(* whether a pattern matches it, are facts of the run.                         *)
EXTENDS HarnessSteps

CONSTANTS
    StagedDirs,  \* STAGED_SKILL_DIRS
    Staged       \* what runs may have recorded, of StagedSkills

SkillToken == "skill"    \* a token that is the name of the staged skill

\* dir: the staging directory it holds, or none; host: outside the workspace;
\* rooted: begins with / or ~ or ..; flag: an interpreter's. The name of a skill
\* has no slash in it and is no path.
Tokens == {t \in [dir : StagedDirs \cup {"none"}, host : BOOLEAN, rooted : BOOLEAN,
                  flag : BOOLEAN, name : {"none", "other", SkillToken}] : t.name = SkillToken => ~t.host}

\* A value of a call: a path, a command line or another text.
IsValue(v) == v.role \in {"path", "command", "text"} /\ \A i \in DOMAIN v.tokens : v.tokens[i] \in Tokens

StagedSkills == [kind : {"unrecorded", "nothing"}, dir : {"none"}, named : {FALSE}]
                \cup [kind : {"at"}, dir : StagedDirs, named : BOOLEAN]

ASSUME TranscriptAssumption ==
    /\ Staged \subseteq StagedSkills /\ "none" \notin StagedDirs
    /\ \A f \in Formats : \A s \in Scripts[f] : \A i \in DOMAIN s : \A n \in DOMAIN s[i].args : IsValue(s[i].args[n])

------------------------------------------------------------------------------
(* events.json *)

\* The tool calls of normalize_*
Events == replay.events

\* command_operands: the program is skipped, and the one after an interpreter's flag.
Operands(tokens) ==
    {tokens[i] : i \in {i \in DOMAIN tokens : i > 1 /\ ~tokens[i - 1].flag /\ tokens[i].rooted}}

\* TranscriptBuilder::tool_call: what of a value is held against the boundary.
Judged(value) ==
    CASE value.role = "path" -> {value.tokens[i] : i \in DOMAIN value.tokens}
      [] value.role = "command" -> Operands(value.tokens)
      [] value.role = "text" -> {}

Values(event) == {event.args[n] : n \in DOMAIN event.args}

\* workspace_escapes
Escapes == {t \in UNION {UNION {Judged(v) : v \in Values(Events[n])} : n \in DOMAIN Events} : t.host}

\* Mutant: an argument in which something escaped is not read at all.
UnlessAnyEscaped(value) ==
    LET said == {value.tokens[i] : i \in DOMAIN value.tokens} IN
    IF said \cap Escapes = {} THEN said ELSE {}

\* tokens_worth_reading: each token is judged on its own.
WorthReading(value) == {value.tokens[i] : i \in DOMAIN value.tokens} \ Escapes

\* Mutant: any directory a run stages at is this run's.
NamedAnywhere(staged, token) == staged.kind # "nothing" /\ token.dir # "none"

\* StagedSkill::named_by
NamedBy(staged, token) ==
    CASE staged.kind = "unrecorded" -> token.dir # "none"
      [] staged.kind = "nothing" -> FALSE
      [] staged.kind = "at" -> token.dir = staged.dir

\* invoked_the_staged_skill
Invoked(staged, event) ==
    IF staged.named
    THEN \E v \in Values(event) : \E t \in WorthReading(v) : t.name = SkillToken
    ELSE staged.kind # "nothing"

\* skill_engagement, of a transcript that can be observed
Engaged(staged) ==
    \E n \in DOMAIN Events :
        \/ Events[n].tool = "Skill" /\ Invoked(staged, Events[n])
        \/ \E v \in Values(Events[n]) : \E t \in WorthReading(v) : NamedBy(staged, t)

------------------------------------------------------------------------------
(* graders.rs: evaluate *)

\* What the run left: events.json or not, mcp-mock's log, what a target holds
\* and whether the pattern is in it, the markup of a call in the final text.
Leavings == [transcript : BOOLEAN, log : {"absent", "unreadable", "read"},
             content : {"missing", "image", "match", "differs"}, markup : BOOLEAN]

\* target: a file of the run, or its calls to the mock server.
TextChecks == [kind : {"regex", "contains"}, target : {"file", "mock_calls"}, negate : BOOLEAN, broken : BOOLEAN]
MadeChecks == [kind : {"schema", "baseline"}, target : {"file", "mock_calls"}, negate : {FALSE}, broken : BOOLEAN]
JudgeChecks == [kind : {"llm"}, target : {"file", "mock_calls"}, negate : {FALSE}, broken : {FALSE}]

FromBool(holds) == IF holds THEN "passed" ELSE "failed"

\* GradeInput::unobservable
Unobservable(check, left) == check.target = "mock_calls" /\ left.log = "absent"

\* target_content
TargetContent(check, left) ==
    IF check.target = "file" THEN left.content
    ELSE IF left.log # "read" THEN "missing"
    ELSE IF left.content = "match" THEN "match" ELSE "differs"

\* Of regex, contains, identifier and valid_json; only a regex may not compile.
TextOutcome(check, content) ==
    IF content \in {"missing", "image"} THEN "failed"
    ELSE IF check.kind = "regex" /\ check.broken THEN "authoring_error"
    ELSE FromBool((content = "match") # check.negate)

\* Mutant: the target is judged before the schema is opened.
SchemaAfterTarget(check, content) ==
    IF content \in {"missing", "image"} THEN "failed"
    ELSE IF check.broken THEN "authoring_error" ELSE FromBool(content = "match")

\* check_schema_validation
SchemaOutcome(check, content) ==
    IF check.broken THEN "authoring_error" ELSE FromBool(content = "match")

\* evaluate, of the checks that have a target
Evaluate(check, left) ==
    IF Unobservable(check, left) THEN "unsupported"
    ELSE LET content == TargetContent(check, left) IN
         CASE check.kind \in {"regex", "contains"} -> TextOutcome(check, content)
           [] check.kind = "schema" -> SchemaOutcome(check, content)
           [] check.kind = "baseline" -> IF check.broken THEN "authoring_error" ELSE "deferred"
           [] check.kind = "llm" -> "deferred"

\* with_transcript
WithTranscript(left, outcome) == IF left.transcript THEN outcome ELSE "unsupported"

SkillUsed(left, staged, negate) == WithTranscript(left, FromBool(Engaged(staged) # negate))

NoFakeToolCalls(left) ==
    IF ~left.markup THEN "passed" ELSE WithTranscript(left, FromBool(Events # <<>>))

ToolSequence == [n \in DOMAIN Events |-> Events[n].tool]

\* is_subsequence: each wanted tool is looked for behind the one before it.
IsSubsequence(expected, observed) ==
    LET From(i, tool) == {j \in DOMAIN observed : j >= i /\ observed[j] = tool}
        cursor[n \in 0..Len(expected)] ==
            IF n = 0 THEN 1
            ELSE IF cursor[n - 1] = 0 \/ From(cursor[n - 1], expected[n]) = {} THEN 0
            ELSE Min(From(cursor[n - 1], expected[n])) + 1
    IN cursor[Len(expected)] # 0

TokensOf(call) == UNION {{v.tokens[i] : i \in DOMAIN v.tokens} : v \in Values(call)}

\* matches_tool_reference: a tool and what its call must name, if anything.
Matches(call, ref) == call.tool = ref.tool /\ (ref.naming = {} \/ ref.naming \cap TokensOf(call) # {})

\* Mutant: one call counts as both halves of the pair.
BothHalves(before, after) ==
    \E i, j \in DOMAIN Events : i <= j /\ Matches(Events[i], before) /\ Matches(Events[j], after)

\* before_after_holds: the first match of before anchors the search.
BeforeAfter(before, after) ==
    LET anchors == {i \in DOMAIN Events : Matches(Events[i], before)} IN
    anchors # {} /\ \E j \in DOMAIN Events : j > Min(anchors) /\ Matches(Events[j], after)

------------------------------------------------------------------------------
(* What the verdicts promise. *)

(* A path of the host that no reader can tell from the run's own: a program,   *)
(* an option's value, a text that was searched for.                            *)
HiddenHost(value) ==
    {t \in {value.tokens[i] : i \in DOMAIN value.tokens} : t.host} \ Judged(value)

(* An arm that was given no skill never engaged one; a run that named its own  *)
(* skill engaged it, whatever else stood on the same command line; one that    *)
(* did not name it did not, but for the host paths no reader recognizes; and a *)
(* run that recorded what it staged gains nothing by having recorded it.       *)
SkillIsTheRuns ==
    \A staged \in Staged :
        LET Own(t) == t.dir = staged.dir /\ ~t.host
            Native(c) == c.tool = "Skill" /\ (~staged.named \/ \E t \in TokensOf(c) : t.name = SkillToken)
            named == \E n \in DOMAIN Events : Native(Events[n]) \/ \E t \in TokensOf(Events[n]) : Own(t)
            hidden == \E n \in DOMAIN Events : \E v \in Values(Events[n]) :
                         \E t \in HiddenHost(v) : t.dir = staged.dir
        IN /\ staged.kind = "nothing" => ~Engaged(staged)
           /\ staged.kind = "at" => /\ named => Engaged(staged)
                                    /\ Engaged(staged) => named \/ hidden
           /\ \A loose \in Staged : loose.kind = "unrecorded" => (Engaged(staged) => Engaged(loose))

\* The calls a harness began, but those codex reports otherwise.
Began == {c \in {harness.begun[n] : n \in DOMAIN harness.begun} :
            harness.format = "codex" =>
                c.tool \in {"command_execution", "file_change"} /\ ~harness.script[c.id].finishedOnly}

(* The checks on tools read each call the run began once and in its order:     *)
(* the order they look for is there or it is not, whatever is between; and a   *)
(* run that made calls is not said to have faked them, codex's aside.          *)
ToolsAreTheRuns ==
    LET refs == UNION {[tool : {c.tool}, naming : {{}, TokensOf(c)}] : c \in Began}
        InOrder(t, u) == \E c, d \in Began : c.id < d.id /\ Matches(c, t) /\ Matches(d, u)
    IN /\ {Events[n] : n \in DOMAIN Events} = Began
       /\ \A m, n \in DOMAIN Events : m < n => Events[m].id < Events[n].id
       /\ \A t, u \in refs : BeforeAfter(t, u) = InOrder(t, u)
       /\ \A t, u \in {ref \in refs : ref.naming = {}} :
             IsSubsequence(<<t.tool, u.tool>>, ToolSequence) = InOrder(t, u)
       /\ \A left \in Leavings :
             NoFakeToolCalls(left) = "failed" => harness.format = "codex" \/ Metrics.calls = 0

(* What a run could not have been asked is neither passed nor failed, negated  *)
(* or not; a target it should have made and did not make fails both; and a     *)
(* case whose schema or reference is broken is said to be, whatever it made.   *)
UnsettledIsNotScored ==
    \A left \in Leavings :
        /\ ~left.transcript => \A s \in Staged, n \in BOOLEAN : SkillUsed(left, s, n) = "unsupported"
        /\ \A c \in TextChecks \cup MadeChecks \cup JudgeChecks :
              LET flipped == [c EXCEPT !.negate = ~@] IN
              /\ (Evaluate(c, left) = "unsupported") = (Evaluate(flipped, left) = "unsupported")
              /\ TargetContent(c, left) \in {"missing", "image"} /\ Evaluate(c, left) = "failed" =>
                    Evaluate(flipped, left) # "passed"
              /\ c.broken /\ c \in MadeChecks => Evaluate(c, left) \in {"unsupported", "authoring_error"}

(* The verdicts of the checks are about the run that was made; those that rest *)
(* on files do not depend on its stream and are asked of one that wrote none.  *)
VerdictsAreTheRuns ==
    StreamDone => SkillIsTheRuns /\ ToolsAreTheRuns /\ (lines = <<>> => UnsettledIsNotScored)

(* The stream of a run is counted, timed and judged for what it was.          *)
StreamsAreReadRight == StreamAddsUp /\ VerdictsAreTheRuns
=============================================================================
