----------------------------- MODULE TraceReplay -----------------------------
(* What a tracing backend is told of one report: by the pass as it runs, by   *)
(* each `eval grade`, and by `eval export` (replay.rs), which rebuilds from    *)
(* report.json what was not traced live.  Spans carry a run's usage and its   *)
(* grading, logs carry the evaluation events of a grading; the two signals    *)
(* are configured apart, and a sampler may drop a trace.  Gradings are         *)
(* numbered in the order their commands began.                                *)
EXTENDS Integers

CONSTANTS
    Traced,       \* the runs of the report
    Outcomes,     \* what a pass may come to, of [Traced -> RunStatuses]
    MaxGradings, MaxExports   \* bounds: commands of each kind

\* cached: restored from an earlier pass. unanswered: trg got no answer out of
\* the harness. draft: the pass was interrupted. skipped: never started.
RunStatuses == {"answered", "cached", "unanswered", "draft", "skipped"}

\* The first draft of a report shows every run alike.
ASSUME TraceReplayAssumption ==
    /\ Outcomes \subseteq [Traced -> RunStatuses] /\ MaxGradings \in Nat /\ MaxExports \in Nat
    /\ \A came \in Outcomes : (\E r \in Traced : came[r] = "draft") => \A r \in Traced : came[r] = "draft"

VARIABLES
    records,    \* report.json: per run its status, whether it names a live span,
                \* the grading it publishes and whether that names one
    backend,    \* what was received: per run its usage, and per grading of it
                \* its spans and its evaluation events
    grade,      \* the `eval grade` under way
    gradings,   \* how many began
    logged,     \* history: whose commands exported logs
    forgot,     \* the backend has lost what it had been told live
    answer,     \* what the last command was answered, when it was an export
    exports     \* how many exports there were

replayVars == <<records, backend, grade, gradings, logged, forgot, answer, exports>>

\* Whether the trace a command begins is recorded, whether a span is that joins
\* a live trace, and whether logs are. Without an exporter neither span is; a
\* parent-based sampler, the default, keeps what joins a kept trace.
Environments == [root : BOOLEAN, joins : BOOLEAN, logs : BOOLEAN]

NoGrade == [on |-> FALSE]
NoReply == [said |-> "none"]
Untold == [usage |-> [r \in Traced |-> 0],
           grades |-> [r \in Traced |-> [g \in 1..MaxGradings |-> 0]],
           events |-> [r \in Traced |-> [g \in 1..MaxGradings |-> 0]]]

\* What is received on top: the usage of some runs, and some gradings.
Received(usage, grades, events) ==
    LET Plus(n, told) == n + (IF told THEN 1 ELSE 0) IN
    [usage |-> [r \in Traced |-> Plus(backend.usage[r], r \in usage)],
     grades |-> [r \in Traced |-> [g \in 1..MaxGradings |-> Plus(backend.grades[r][g], <<r, g>> \in grades)]],
     events |-> [r \in Traced |-> [g \in 1..MaxGradings |-> Plus(backend.events[r][g], <<r, g>> \in events)]]]

------------------------------------------------------------------------------
(* The pass and its gradings, as they happen *)

\* A pass has ended: a run names its live span, when that is recorded. An
\* interrupted one leaves its first draft, and may have told of some runs.
PassOver(traced) ==
    \E came \in Outcomes, some \in SUBSET Traced :
        LET draft == \E r \in Traced : came[r] = "draft" IN
        /\ records = [r \in Traced |-> [status |-> came[r], trace |-> traced /\ ~draft,
                                        graded |-> 0, gradeTrace |-> FALSE]]
        /\ some \subseteq {r \in Traced : traced /\ came[r] \in {"answered", "draft"}}
        /\ ~draft /\ traced => \A r \in Traced : came[r] = "answered" => r \in some
        /\ backend = [Untold EXCEPT !.usage = [r \in Traced |-> IF r \in some THEN 1 ELSE 0]]

ReplayInit(on) ==
    /\ IF on THEN \E traced \in BOOLEAN : PassOver(traced)
       ELSE records = [r \in Traced |-> [status |-> "skipped", trace |-> FALSE, graded |-> 0, gradeTrace |-> FALSE]]
            /\ backend = Untold
    /\ grade = NoGrade /\ gradings = IF on THEN 0 ELSE MaxGradings
    /\ logged = {} /\ forgot = FALSE
    /\ answer = NoReply /\ exports = IF on THEN 0 ELSE MaxExports

HasStarted(r) == records[r].status # "skipped"

BeginGrade ==
    /\ ~grade.on /\ gradings < MaxGradings /\ exports < MaxExports
    /\ \E env \in Environments :
          /\ grade' = [on |-> TRUE, root |-> env.root, logs |-> env.logs,
                       left |-> {r \in Traced : HasStarted(r)}]
          /\ logged' = IF env.logs THEN logged \cup {gradings + 1} ELSE logged
    /\ gradings' = gradings + 1 /\ answer' = NoReply
    /\ UNCHANGED <<records, backend, forgot, exports>>

\* grade_run: its spans and its events, before anything is published.
TellOfGrade ==
    /\ grade.on
    /\ \E r \in grade.left :
          /\ grade' = [grade EXCEPT !.left = @ \ {r}]
          /\ LET one == {<<r, gradings>>} IN
             backend' = Received({}, IF grade.root THEN one ELSE {}, IF grade.logs THEN one ELSE {})
    /\ answer' = NoReply
    /\ UNCHANGED <<records, gradings, logged, forgot, exports>>

\* Mutant: an untraced grade leaves the span of an earlier one.
KeptGradeTrace(r) == records[r].gradeTrace \/ grade.root

\* run_mut.grade_trace
NewGradeTrace(r) == grade.root

\* update_report_after_grading, and the report is written.
PublishGrade ==
    /\ grade.on /\ grade.left = {}
    /\ records' = [r \in Traced |->
           IF HasStarted(r) THEN [records[r] EXCEPT !.graded = gradings, !.gradeTrace = NewGradeTrace(r)] ELSE records[r]]
    /\ grade' = NoGrade /\ answer' = NoReply
    /\ UNCHANGED <<backend, gradings, logged, forgot, exports>>

\* A judge that does not answer, a file that cannot be written, an interrupt.
BreakOffGrade ==
    /\ grade.on
    /\ grade' = NoGrade /\ answer' = NoReply
    /\ UNCHANGED <<records, backend, gradings, logged, forgot, exports>>

\* The backend no longer has what it was told.
Forget ==
    /\ ~grade.on /\ ~forgot /\ exports < MaxExports
    /\ forgot' = TRUE /\ backend' = Untold /\ answer' = NoReply
    /\ UNCHANGED <<records, grade, gradings, logged, exports>>

------------------------------------------------------------------------------
(* eval export: include is --include-traced *)

\* TracedRuns::replays
Replays(r, include) == include \/ ~records[r].trace

\* Mutant: a grade goes with its run.
GoesWithItsRun(r, include) == include \/ ~records[r].trace

\* TracedRuns::replays_grade
ReplaysGrade(r, include) == include \/ ~records[r].gradeTrace

\* was_graded
WasGraded(r) == records[r].graded # 0

\* Mutant: what a restored run cost is told again.
HasUsage(r) == records[r].status \in {"answered", "cached"}

\* AttemptRecord::of
WasAnswered(r) == records[r].status = "answered"

RunsToTell(include) == {r \in Traced : Replays(r, include)}

GradesToTell(runs, include) == {<<r, records[r].graded>> : r \in {s \in runs : WasGraded(s) /\ ReplaysGrade(s, include)}}

Replies(said, include, env) ==
    answer' = [said |-> said, include |-> include, logs |-> env.logs, sent |-> backend' # backend,
               mixed |-> env.root /\ ~env.joins, first |-> exports = 0]

\* Every run and every grade to be told is: nothing_to_replay.
ExportNothing(include, env) ==
    /\ RunsToTell(include) = {} /\ GradesToTell(Traced, include) = {}
    /\ UNCHANGED backend
    /\ Replies("nothing", include, env)

\* replay_suite: a trace of its own for the runs that are rebuilt.
SuiteIsDropped(include, env) == RunsToTell(include) # {} /\ ~env.root

\* The grades of runs that were traced live go into their live trace.
GradeIsDropped(include, env) == GradesToTell(Traced \ RunsToTell(include), include) # {} /\ ~env.joins

ExportOff(include, env) ==
    /\ RunsToTell(include) # {} \/ GradesToTell(Traced, include) # {}
    /\ SuiteIsDropped(include, env) \/ GradeIsDropped(include, env)
    /\ backend' = IF SuiteIsDropped(include, env) THEN backend
                  ELSE LET graded == GradesToTell(RunsToTell(include), include) IN
                       Received({r \in RunsToTell(include) : WasAnswered(r)}, graded, IF env.logs THEN graded ELSE {})
    /\ Replies("tracing_off", include, env)

ExportAll(include, env) ==
    /\ RunsToTell(include) # {} \/ GradesToTell(Traced, include) # {}
    /\ ~SuiteIsDropped(include, env) /\ ~GradeIsDropped(include, env)
    /\ LET graded == GradesToTell(Traced, include) IN
       backend' = Received({r \in RunsToTell(include) : WasAnswered(r)}, graded, IF env.logs THEN graded ELSE {})
    /\ Replies("exported", include, env)

\* The report is read once; a grade under way has not published.
Export ==
    /\ exports < MaxExports
    /\ exports' = exports + 1
    /\ \E include \in BOOLEAN, env \in Environments :
          ExportNothing(include, env) \/ ExportOff(include, env) \/ ExportAll(include, env)
    /\ UNCHANGED <<records, grade, gradings, logged, forgot>>

ReplayNext == BeginGrade \/ TellOfGrade \/ PublishGrade \/ BreakOffGrade \/ Forget \/ Export

ReplaySpec == ReplayInit(TRUE) /\ [][ReplayNext]_replayVars

------------------------------------------------------------------------------
(* What an export promises. *)

\* A grading is published under a live trace that its events were no part of.
Muted(r) == records[r].gradeTrace /\ records[r].graded \notin logged

\* Its events were sent by a command whose spans were not.
Unplaced(r) == ~records[r].gradeTrace /\ records[r].graded \in logged

(* After an export that was answered the backend has the usage of every run   *)
(* that answered and the grading the report publishes, with its events: what   *)
(* was told live and not lost, or all of it anew with --include-traced.       *)
BackendIsComplete ==
    answer.said \in {"exported", "nothing"} /\ (answer.include \/ ~forgot) =>
        \A r \in Traced :
            /\ WasAnswered(r) => backend.usage[r] >= 1
            /\ WasGraded(r) => backend.grades[r][records[r].graded] >= 1
            /\ WasGraded(r) /\ answer.logs /\ (answer.include \/ ~Muted(r)) =>
                  backend.events[r][records[r].graded] >= 1

(* The first export counts nothing twice that was traced live, whatever was   *)
(* graded again, broke off or was restored from a cache.                      *)
NothingIsCountedTwice ==
    answer.said # "none" /\ ~answer.include /\ answer.first =>
        \A r \in Traced :
            /\ backend.usage[r] <= (IF records[r].status \in {"answered", "draft"} THEN 1 ELSE 0)
            /\ WasGraded(r) =>
                  /\ backend.grades[r][records[r].graded] <= 1
                  /\ ~Unplaced(r) => backend.events[r][records[r].graded] <= 1

(* tracing_off means that nothing was sent, unless a sampler kept the trace of *)
(* the export and dropped what it had to add to a live one.                   *)
OffSendsNothing ==
    answer.said = "tracing_off" /\ ~answer.mixed => ~answer.sent

ReplayCompletes == BackendIsComplete /\ NothingIsCountedTwice /\ OffSendsNothing
=============================================================================
