----------------------------- MODULE MCGrading -----------------------------
(* Instances of Grading, Transcripts, Iterations, Judging and JudgeScript for *)
(* TLC: two attempts at a case with a mechanical, an arm-scoped and a judged  *)
(* check, and one run of a case with a mechanical check; or the stream of one *)
(* run and its verdicts; or two rounds of a suite with a train and a test     *)
(* case; or one question for a judge; or a script and its payload; or what a  *)
(* tracing backend is told of two runs.                                       *)
EXTENDS Grading, Transcripts, Iterations, Judging, JudgeScript, TraceReplay, TLC

CONSTANTS p1, p2, a, b, file, skill, judged, fixture, e1, e2, e3

Alike == Permutations({p1, p2})

AttemptsAndOne == [r \in 1..3 |-> IF r = 3 THEN b ELSE a]
TwoCases == [c \in {a, b} |-> IF c = a THEN {file, skill, judged} ELSE {file}]

\* Whether the file check can be answered differs from attempt to attempt.
Facts == {[r \in 1..3 |-> [c \in {file, skill, judged} |->
              IF c = judged /\ r # 3 THEN "deferred" ELSE IF c = file THEN f[r] ELSE "passed"]] :
             f \in {<<"passed", "passed", "passed">>, <<"unsupported", "unsupported", "failed">>,
                    <<"passed", "unsupported", "passed">>}}

Statuses == {<<"completed", "completed", "completed">>, <<"completed", "failed", "skipped">>,
             <<"draft", "draft", "draft">>}

Ungraded == [r \in 1..3 |-> {}]

\* What a script of the user left in the third run's workspace.
UserGraded == [Ungraded EXCEPT ![3] = {[c \in {file} |-> [says |-> "failed", excluded |-> FALSE]]}]

Passes == [status : Statuses, fact : Facts, violated : {{}, {1}}, own : {Ungraded}]

AllScenes == Passes \cup {[s EXCEPT !.own = UserGraded] : s \in {s \in Passes : s.violated = {}}}

Token == [dir |-> "none", host |-> FALSE, rooted |-> FALSE, flag |-> FALSE, name |-> "none"]
Flag == [Token EXCEPT !.flag = TRUE]
OwnFile == [Token EXCEPT !.dir = "skills"]
OtherDir == [Token EXCEPT !.dir = ".skill"]
HostFile == [OwnFile EXCEPT !.host = TRUE, !.rooted = TRUE]
HostOption == [OwnFile EXCEPT !.host = TRUE]
Named(name) == [Token EXCEPT !.name = name]

Asked(tool, role, tokens) ==
    [tool |-> tool, args |-> <<[role |-> role, tokens |-> tokens]>>, finishedOnly |-> FALSE]

RunScripts ==
    [claude |-> {<<Asked("Bash", "command", <<Token, HostFile, OwnFile>>), Asked("Skill", "text", <<Named("skill")>>)>>,
                 <<Asked("Read", "path", <<OtherDir>>), Asked("Skill", "text", <<Named("other")>>)>>},
     cursor |-> {<<Asked("shell", "command", <<Token, HostOption>>), Asked("grep", "text", <<HostFile>>)>>},
     codex |-> {<<Asked("command_execution", "command", <<Token, Flag, HostFile, OwnFile>>),
                  [Asked("file_change", "path", <<OwnFile>>) EXCEPT !.finishedOnly = TRUE]>>,
                <<Asked("mcp_tool_call", "text", <<OwnFile>>),
                  Asked("command_execution", "command", <<Token, HostFile>>)>>}]

OneCap == {[tools |-> 1, turns |-> 2]}

Recorded == [kind : {"unrecorded", "nothing"}, dir : {"none"}, named : {FALSE}]
            \cup [kind : {"at"}, dir : {"skills"}, named : BOOLEAN]

OneOfEach == {Readable((e1 :> "train") @@ (e2 :> "test"))}

Draw(with, without) == [arm \in Arms |-> IF arm = "with_skill" THEN with ELSE without]
ThreeDraws == {Draw("pass", "skipped"), Draw("fail", "failed"), Draw("failed", "ungraded")}

\* Texts that are blank, that are small and that are larger than a share.
OneText == [kind |-> "llm", target |-> "file", found |-> "text", texts |-> <<0>>, lines |-> <<>>,
            expected |-> 3, prompt |-> 3, swapped |-> FALSE, votes |-> 1]
Questionnaire ==
    [kind : {"llm"}, target : {"final"}, found : {"text"}, lines : {<<>>}, expected : {1, 5, 12},
     texts : {<<0, 0>>, <<0, 9>>, <<9, 2, 9>>, <<1, 9, 3>>, <<5, 5>>}, prompt : {1, 6, 12},
     swapped : {FALSE}, votes : {1}]
    \cup {[OneText EXCEPT !.target = "transcript", !.texts = <<14>>, !.lines = l, !.votes = 3] :
             l \in {<<2, 3, 7>>, <<2, 9, 1>>, <<14>>, <<4, 9>>}}
    \cup {[OneText EXCEPT !.target = t, !.found = f] : t \in {"listing", "file"}, f \in {"text", "image", "missing"}}
    \cup [kind : {"baseline"}, target : {"final", "transcript"}, found : {"text", "image", "missing"},
          texts : {<<0>>, <<9>>}, lines : {<<>>}, expected : {4, 9}, prompt : {1}, swapped : BOOLEAN, votes : {1, 3}]
    \cup [kind : {"pair"}, target : {"file"}, found : {"text", "missing"}, texts : {<<20, 20>>}, lines : {<<>>},
          expected : {4}, prompt : {1}, swapped : BOOLEAN, votes : {1}]

\* Scripts that read nothing, or before, after and between what they print.
ScriptPlans ==
    [does : {<<>>, <<"drain">>, <<"print", "print", "print", "drain">>, <<"sip", "print", "print">>,
             <<"print", "drain", "print", "print">>}, ends : Endings]

\* Each run beside one that answered, and a pass that was interrupted.
OneAnswered == {[r \in Traced |-> IF r = a THEN "answered" ELSE s] : s \in RunStatuses \ {"draft"}}
WaysToCome == OneAnswered \cup {[r \in Traced |-> "draft"]}

\* The directories, the streams, the rounds, the judges and the exports share
\* nothing.
AnyScene == Init /\ scene = (CHOOSE s \in Scenes : TRUE)

OthersInit(harnesses, suites, questions, askers, replayed) ==
    /\ StepsInit(harnesses) /\ IterationsInit(suites)
    /\ JudgingInit(questions) /\ ScriptInit(askers) /\ ReplayInit(replayed)

MCInit ==
    \/ Init /\ OthersInit({NoHarness}, {NoSuite}, {NoQuestion}, {NoAsker}, FALSE)
    \/ AnyScene /\ OthersInit(Harnesses, {NoSuite}, {NoQuestion}, {NoAsker}, FALSE)
    \/ AnyScene /\ OthersInit({NoHarness}, OneOfEach, {NoQuestion}, {NoAsker}, FALSE)
    \/ AnyScene /\ OthersInit({NoHarness}, {NoSuite}, Questions, {NoAsker}, FALSE)
    \/ AnyScene /\ OthersInit({NoHarness}, {NoSuite}, {NoQuestion}, SomeAskers, FALSE)
    \/ AnyScene /\ OthersInit({NoHarness}, {NoSuite}, {NoQuestion}, {NoAsker}, TRUE)

\* No other part than that of the documents is on.
OnlyDocuments ==
    /\ harness = NoHarness /\ suite = NoSuite /\ rounds = <<>>
    /\ question = NoQuestion /\ asker = NoAsker
    /\ \A r \in Traced : ~HasStarted(r)

MCNext ==
    \/ OnlyDocuments /\ Next /\ UNCHANGED <<stepVars, iterVars, judgeVars, scriptVars, replayVars>>
    \/ StepsNext /\ UNCHANGED <<vars, iterVars, judgeVars, scriptVars, replayVars>>
    \/ begun = 0 /\ IterationsNext /\ UNCHANGED <<vars, stepVars, judgeVars, scriptVars, replayVars>>
    \/ JudgingNext /\ UNCHANGED <<vars, stepVars, iterVars, scriptVars, replayVars>>
    \/ ScriptNext /\ UNCHANGED <<vars, stepVars, iterVars, judgeVars, replayVars>>
    \/ ReplayNext /\ UNCHANGED <<vars, stepVars, iterVars, judgeVars, scriptVars>>

MCSpec == MCInit /\ [][MCNext]_<<vars, stepVars, iterVars, judgeVars, scriptVars, replayVars>>
=============================================================================
