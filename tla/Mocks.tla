-------------------------------- MODULE Mocks --------------------------------
(* agentskills/mocks.rs and the pure half of mcp_recording.rs: a mock's       *)
(* declaration, the expectations on a call, the answer it gives, the call log *)
(* and its two readers, and the file a recording writes.                      *)
(*                                                                            *)
(* A JSON object is a function from paths to values. A path is a sequence of  *)
(* keys and a key the sequence of its dot-separated segments, so <<"a", "b">> *)
(* is the key `a.b`. Keys that are empty are left out. A text is a sequence   *)
(* of tokens: <<"text", t>>, <<"file", f>> and <<"input", dotted>>.           *)
EXTENDS Naturals, SequencesExt, TLC

CONSTANTS
    Patterns,   \* the valid `/.../` constraints, each with the texts it matches
    Files       \* the files a `{{file:...}}` can name

JsonTypes == {"string", "number", "boolean", "object", "array"}
Scalars == {"string", "number", "boolean"}

ASSUME PatternsAreMarked == DOMAIN Patterns \cap JsonTypes = {}

Null == [type |-> "null", text |-> ""]

\* ExpectPath: the segments of every key, one after the other.
Flattened(path) == FlattenSeq(path)

Dotted(key) == Len(key) > 1
HasDottedKey(path) == \E i \in 1..Len(path) : Dotted(path[i])

IsSeq(s) == s \in Seq({s[i] : i \in DOMAIN s})
IsPath(path) == IsSeq(path) /\ \A i \in DOMAIN path : IsSeq(path[i]) /\ path[i] # <<>>
IsObject(input) == \A p \in DOMAIN input : IsPath(p) /\ (input[p] = Null \/ input[p].type \in JsonTypes)

\* lookup_path: every segment is looked up as a key of its own.
Keyed(dotted) == [i \in 1..Len(dotted) |-> <<dotted[i]>>]
Carries(input, dotted) == Keyed(dotted) \in DOMAIN input
Lookup(input, dotted) == IF Carries(input, dotted) THEN input[Keyed(dotted)] ELSE Null

------------------------------------------------------------------------------
(* Declarations                                                               *)

\* ExpectConstraint::from_string_value; a literal and a list are the texts
\* they admit, as a pattern is.
Constraint(raw) ==
    CASE raw \in DOMAIN Patterns -> [kind |-> "text", admits |-> Patterns[raw]]
      [] raw \in JsonTypes -> [kind |-> "type", admits |-> {raw}]
      [] OTHER -> [kind |-> "text", admits |-> {raw}]

\* ExpectConstraint::matches; only scalars have a text.
Meets(value, constraint) ==
    IF constraint.kind = "type" THEN value.type \in constraint.admits
    ELSE value.type \in Scalars /\ value.text \in constraint.admits

\* check_expectations: an absent value is checked as null.
Violations(mock, input) ==
    {d \in DOMAIN mock.expect : ~Meets(Lookup(input, d), mock.expect[d])}

Mentions(text, kind) == \E i \in 1..Len(text) : text[i][1] = kind

\* resolve_file_references, over the body alone.
FilesResolve(text) == \A i \in 1..Len(text) : text[i][1] = "file" => text[i][2] \in Files
FilesResolved(text) ==
    [i \in 1..Len(text) |->
        IF text[i][1] = "file" THEN <<"text", "contents of " \o text[i][2]>> ELSE text[i]]

\* parse_mock_file, of a file that is well formed.
Parses(file) == FilesResolve(file.body)
ParseMock(file) ==
    [expect |-> [d \in DOMAIN file.expect |-> Constraint(file.expect[d])],
     isError |-> file.isError, error |-> file.error, body |-> FilesResolved(file.body)]

\* merge_mock_dir: the case's file replaces the suite's of the same tool.
MockSet(suite, case) == case @@ suite

------------------------------------------------------------------------------
(* A call                                                                     *)

\* substitute_input_placeholders, whichever text answers.
Resolves(text, input) ==
    \A i \in 1..Len(text) : text[i][1] = "input" => Carries(input, text[i][2])
Substituted(text, input) ==
    [i \in 1..Len(text) |->
        IF text[i][1] = "input" THEN <<"text", Lookup(input, text[i][2]).text>> ELSE text[i]]

\* resolve_call
Raw(mock) == IF mock.isError THEN mock.error ELSE mock.body
ResolveCall(mock, input) ==
    [violations |-> Violations(mock, input),
     answered |-> Resolves(Raw(mock), input),
     text |-> IF Resolves(Raw(mock), input) THEN Substituted(Raw(mock), input) ELSE <<>>,
     isError |-> mock.isError]

------------------------------------------------------------------------------
(* The call log: lines of entries, the last perhaps without its newline.      *)

NoLog == [there |-> FALSE, lines |-> <<>>, cut |-> FALSE]

\* open_call_log
Opened(log) == [log EXCEPT !.there = TRUE]

\* append_call_log: whole, or cut short; after a cut line both share a line.
Appended(log, entry, whole) ==
    LET last == Len(log.lines) IN
    [there |-> TRUE, cut |-> ~whole,
     lines |-> IF log.cut
               THEN [log.lines EXCEPT ![last] = [entries |-> @.entries \cup {entry}, whole |-> FALSE]]
               ELSE Append(log.lines, [entries |-> {entry}, whole |-> whole])]

\* RenderedMockCalls: a line that is no entry is kept as it stands.
RenderedLine(line) == line.entries
Rendered(log) == UNION {RenderedLine(log.lines[i]) : i \in 1..Len(log.lines)}

\* read_mock_violations: a line that is no entry is skipped.
Logged(log) == UNION {log.lines[i].entries : i \in {j \in 1..Len(log.lines) : log.lines[j].whole}}

------------------------------------------------------------------------------
(* What a recording writes                                                    *)

\* Mutant: keys that contain a dot are flattened like any other.
DeriveAnyKey(input) ==
    [d \in {Flattened(p) : p \in {q \in DOMAIN input : input[q] # Null}} |->
        input[CHOOSE p \in DOMAIN input : Flattened(p) = d].type]

\* derive_expect: the type of every value that is not null, whatever its depth,
\* unless a key on its path contains a dot.
DeriveExpect(input) ==
    [d \in {Flattened(p) : p \in {q \in DOMAIN input : input[q] # Null /\ ~HasDottedKey(q)}} |->
        input[Keyed(d)].type]

\* reject_unrepresentable_placeholder
Representable(answer) ==
    /\ ~answer.isError => ~Mentions(answer.text, "file")
    /\ ~Mentions(answer.text, "input")

\* render_fixed_mock
RenderMock(input, answer) ==
    [expect |-> DeriveExpect(input), isError |-> answer.isError,
     error |-> IF answer.isError THEN answer.text ELSE <<>>,
     body |-> IF answer.isError THEN <<>> ELSE answer.text]

\* The file answers the call it was recorded from as the server did.
Replays(file, input, answer) ==
    /\ Parses(file)
    /\ ResolveCall(ParseMock(file), input) =
          [violations |-> {}, answered |-> TRUE, text |-> answer.text, isError |-> answer.isError]
=============================================================================
