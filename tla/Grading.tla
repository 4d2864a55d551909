------------------------------ MODULE Grading ------------------------------
(***************************************************************************)
(* What happens to a report directory once its pass is over: `eval grade`, *)
(* `eval benchmark` and `eval compare` read and rewrite report.json, each  *)
(* in a process of its own, and `eval verify` gates a run on what they     *)
(* left: grading.rs, report.rs, benchmark.rs, compare.rs and ci.rs of      *)
(* agentskills, and evals.rs for the check of a workspace.                 *)
(*                                                                         *)
(* One scenario is modelled: the runs of a case are its attempts, and arms *)
(* are graded the way attempts are.  A grading is a function of the checks *)
(* it holds; weights, wording and which judge answered are left out.       *)
(***************************************************************************)
EXTENDS Integers, FiniteSets

CONSTANTS
    Procs,       \* slots, each for one command after another
    NumRuns,     \* runs of the report, in its order
    Cases,
    CaseOf,      \* runs -> Cases
    Declared,    \* Cases -> the checks the case declares
    Scoped,      \* the checks that presuppose the skill
    Violation,   \* what a read-only fixture or a mock adds to a run's checks
    Modes,       \* of GraderModes
    Scenes,      \* what the pass may have left, of Scene
    MaxCommands  \* commands in a behaviour

Runs == 1..NumRuns
Checks == UNION {Declared[c] : c \in Cases}

\* "strict" is --grader none with --strict, which refuses what needs a judge.
GraderModes == {"auto", "script", "none", "strict"}
Says == {"passed", "failed", "unsupported", "ungraded"}

Results == [says : Says, excluded : BOOLEAN]

\* grading.json, or none
Gradings(checks) == UNION {[S -> Results] : S \in SUBSET checks}

\* status ("draft" is the "skipped" of a report that no pass has executed, which
\* is graded by hand), what evaluate finds for each declared check ("deferred" is for a
\* judge), runs with a violation, gradings a script of the user left in a workspace.
Scene == [status : [Runs -> {"completed", "failed", "skipped", "draft"}],
          fact : [Runs -> [Checks -> {"passed", "failed", "unsupported", "deferred"}]],
          violated : SUBSET Runs,
          own : [Runs -> SUBSET Gradings(Checks)]]

ASSUME GradingAssumption ==
    /\ NumRuns \in Nat /\ MaxCommands \in Nat
    /\ CaseOf \in [Runs -> Cases] /\ Violation \notin Checks
    /\ \A c \in Cases : IsFiniteSet(Declared[c])
    /\ Modes \subseteq GraderModes /\ Scenes \subseteq Scene

VARIABLES
    scene,   \* what the pass left; never changes
    files,   \* Runs -> grading.json in the run directory: {} or one grading
    report,  \* report.json
    bench,   \* benchmark.json: {} or its counts, and whether they are current
    st,      \* Procs -> the command in the slot
    begun,   \* commands begun
    clean    \* history: the last grade to change anything finished alone

vars == <<scene, files, report, bench, st, begun, clean>>

Outcome(res) == IF res.excluded THEN "excluded" ELSE res.says

\* GradingCounts::tally
Count(g, o) == Cardinality({c \in DOMAIN g : Outcome(g[c]) = o})

\* The results of one outcome in some gradings.
Found(gradings, o) ==
    {x \in gradings \X (Checks \cup {Violation}) : x[2] \in DOMAIN x[1] /\ Outcome(x[1][x[2]]) = o}

Scored(g) == {c \in DOMAIN g : Outcome(g[c]) \in {"passed", "failed"}}

\* case_score: nothing when nothing was scored
CaseScore(g) == IF Scored(g) = {} THEN {} ELSE {<<Count(g, "passed"), Cardinality(Scored(g))>>}

\* RunRecord::started: a skipped run has a reason for it.
Started(r) == scene.status[r] # "skipped"

\* k_attempt_outcome: a run that failed counts as an attempt that did not pass
Attempted(score) == {r \in Runs : scene.status[r] = "failed" \/ score[r] # {}}
Passed(score, r) == scene.status[r] # "failed" /\ \E s \in score[r] : s[1] = s[2]

\* recompute_scenario_summaries: pass_at_k and pass_pow_k
KCounts(score) ==
    LET tried == {CaseOf[r] : r \in Attempted(score)}
        of(c) == {r \in Attempted(score) : CaseOf[r] = c}
    IN [any |-> Cardinality({c \in tried : \E r \in of(c) : Passed(score, r)}),
        all |-> Cardinality({c \in tried : \A r \in of(c) : Passed(score, r)}),
        trials |-> Cardinality(tried)]

NoScores == [r \in Runs |-> {}]
NoTally == [passed |-> 0, failed |-> 0, missing |-> 0]

\* A command at rest.
Idle == [pc |-> "idle", mode |-> "none", doc |-> {}, at |-> 1, failed |-> 0, ungraded |-> 0,
         tally |-> NoTally, alone |-> TRUE]

Init ==
    /\ scene \in Scenes
    /\ files = NoScores
    /\ report = [score |-> NoScores, published |-> NoScores, k |-> KCounts(NoScores),
                 compared |-> FALSE, summary |-> {}]
    /\ bench = {}
    /\ st = [p \in Procs |-> Idle]
    /\ begun = 0
    /\ clean = TRUE

Busy(p) == st[p].pc # "idle"

\* A command begins; history: whether others run at the same time.
Begins(p, command) ==
    /\ ~Busy(p)
    /\ begun < MaxCommands
    /\ begun' = begun + 1
    /\ st' = [q \in Procs |->
                 IF q = p THEN [command EXCEPT !.alone = \A o \in Procs : ~Busy(o)]
                 ELSE [st[q] EXCEPT !.alone = @ /\ ~Busy(q)]]

Ends(p) == st' = [st EXCEPT ![p] = Idle]

------------------------------------------------------------------------------
(* eval grade *)

\* grade_bundle: the report is read once, before the judge is asked anything.
OpenGrade(p) ==
    /\ \E mode \in Modes : Begins(p, [Idle EXCEPT !.pc = "grade", !.mode = mode, !.doc = {report}])
    /\ UNCHANGED <<scene, files, report, bench, clean>>

\* What a judge or a script may say of a check; a script that crashes grades nothing.
Verdicts(mode) ==
    CASE mode = "auto" -> {"passed", "failed"}
      [] mode = "script" -> {"passed", "failed", "ungraded"}
      [] mode \in {"none", "strict"} -> {"ungraded"}

Deferred(r) == {c \in Declared[CaseOf[r]] : scene.fact[r][c] = "deferred"}

\* The results of the declared checks, and of what the run itself violated.
Answers(r, mode) ==
    LET extra == IF r \in scene.violated THEN {Violation} ELSE {} IN
    {[c \in Declared[CaseOf[r]] \cup extra |->
         [says |-> IF c = Violation THEN "failed"
                   ELSE IF c \in Deferred(r) THEN said[c] ELSE scene.fact[r][c],
          excluded |-> c \in Scoped]] : said \in [Deferred(r) -> Verdicts(mode)]}

\* Mutant: a case in which nothing passed is taken for one that scored nothing.
RestoreUnlessPassed(g) ==
    IF Count(g, "passed") = 0 /\ \E c \in DOMAIN g : g[c].excluded /\ g[c].says \in {"passed", "failed"}
    THEN [c \in DOMAIN g |-> [g[c] EXCEPT !.excluded = FALSE]]
    ELSE g

\* restore_when_nothing_would_be_scored
Restored(g) ==
    IF Scored(g) = {} /\ \E c \in DOMAIN g : g[c].excluded /\ g[c].says \in {"passed", "failed"}
    THEN [c \in DOMAIN g |-> [g[c] EXCEPT !.excluded = FALSE]]
    ELSE g

\* validate_grading_document
Acceptable(g, mode) ==
    /\ DOMAIN g # {}
    /\ mode # "strict" \/ \A c \in DOMAIN g : g[c].says # "ungraded"

\* Mutant: only the last run's ungraded checks count.
ForgetUngraded(p, g) == Count(g, "ungraded")

\* report.ungraded += counts.ungraded
SumUngraded(p, g) == st[p].ungraded + Count(g, "ungraded")

\* A run that the pass skipped has nothing to grade.
SkipRun(p, r) ==
    /\ ~Started(r)
    /\ st' = [st EXCEPT ![p].at = r + 1]
    /\ UNCHANGED <<files, bench>>

\* grade_run: the grading goes to its file before the report is rewritten.
StoreGrading(p, r, g) ==
    /\ Started(r)
    /\ Acceptable(g, st[p].mode)
    /\ files' = [files EXCEPT ![r] = {g}]
    /\ st' = [st EXCEPT ![p].at = r + 1,
                        ![p].failed = @ + Count(g, "failed"),
                        ![p].ungraded = SumUngraded(p, g),
                        ![p].doc = {[d EXCEPT !.score[r] = CaseScore(g)] : d \in @}]
    /\ bench' = {[b EXCEPT !.current = FALSE] : b \in bench}

GradeRun(p) ==
    /\ st[p].pc = "grade" /\ st[p].at <= NumRuns
    /\ \/ SkipRun(p, st[p].at)
       \/ \E raw \in Answers(st[p].at, st[p].mode) : StoreGrading(p, st[p].at, Restored(raw))
    /\ UNCHANGED <<scene, report, begun, clean>>

\* Mutant: pass_at_k is computed from the report as it is on disk.
CollectedEarly(d) == [d EXCEPT !.published = files, !.k = KCounts(report.score)]

\* update_report_after_grading: every grading there is, and the summaries.
Collected(d) == [d EXCEPT !.published = files, !.k = KCounts(d.score)]

Collect(p) ==
    /\ st[p].pc = "grade" /\ st[p].at > NumRuns
    /\ st' = [st EXCEPT ![p].pc = "store", ![p].doc = {Collected(d) : d \in @}]
    /\ UNCHANGED <<scene, files, report, bench, begun, clean>>

\* The whole report is written as this process knows it.
StoreReport(p) ==
    /\ st[p].pc = "store"
    /\ \E d \in st[p].doc : report' = d
    /\ clean' = st[p].alone
    /\ Ends(p)
    /\ UNCHANGED <<scene, files, bench, begun>>

\* The code `eval grade` exits with.
Exit(p) == IF st[p].failed = 0 /\ st[p].ungraded = 0 THEN "success" ELSE "gate_failed"

------------------------------------------------------------------------------
(* eval benchmark *)

\* build_benchmark reads the report for its runs.
OpenBenchmark(p) ==
    /\ Begins(p, [Idle EXCEPT !.pc = "measure"])
    /\ UNCHANGED <<scene, files, report, bench, clean>>

\* load_run_sample: the run directory is looked at before the workspace.
Sample(r) == IF files[r] # {} THEN files[r] ELSE scene.own[r]

\* Mutant: what did not pass failed.
NotPassed(gradings) == UNION {Found(gradings, o) : o \in {"failed", "unsupported", "ungraded", "excluded"}}

\* grading_summary
FailedOf(gradings) == Found(gradings, "failed")

\* measure_scenarios, for the bucket of completed runs
Measure(p) ==
    /\ st[p].pc = "measure" /\ st[p].at <= NumRuns
    /\ LET r == st[p].at
           found == IF scene.status[r] = "completed" THEN Sample(r) ELSE {}
       IN st' = [st EXCEPT ![p].at = r + 1,
                           ![p].tally =
                               [passed |-> @.passed + Cardinality(Found(found, "passed")),
                                failed |-> @.failed + Cardinality(FailedOf(found)),
                                missing |-> @.missing
                                    + IF scene.status[r] = "completed" /\ found = {} THEN 1 ELSE 0]]
    /\ UNCHANGED <<scene, files, report, bench, begun, clean>>

\* sync_iteration_summary_to_report reads the report again,
ReadToSync(p) ==
    /\ st[p].pc = "measure" /\ st[p].at > NumRuns
    /\ st' = [st EXCEPT ![p].pc = "sync", ![p].doc = {report}]
    /\ UNCHANGED <<scene, files, report, bench, begun, clean>>

\* and writes it with the summary,
SyncSummary(p) ==
    /\ st[p].pc = "sync"
    /\ \E d \in st[p].doc : report' = [d EXCEPT !.summary = {st[p].tally}]
    /\ clean' = (clean /\ st[p].alone)
    /\ st' = [st EXCEPT ![p].pc = "bench"]
    /\ UNCHANGED <<scene, files, bench, begun>>

\* before benchmark.json is written.
WriteBenchmark(p) ==
    /\ st[p].pc = "bench"
    /\ bench' = {[tally |-> st[p].tally, current |-> st[p].alone]}
    /\ Ends(p)
    /\ UNCHANGED <<scene, files, report, begun, clean>>

------------------------------------------------------------------------------
(* eval compare *)

\* compare_report keeps the text of the report while the judge decides,
OpenCompare(p) ==
    /\ Begins(p, [Idle EXCEPT !.pc = "judge", !.doc = {report}])
    /\ UNCHANGED <<scene, files, report, bench, clean>>

\* and merge_comparisons_into_report merges into that text.
MergeComparisons(p) ==
    /\ st[p].pc = "judge"
    /\ \E d \in st[p].doc : report' = [d EXCEPT !.compared = TRUE]
    /\ clean' = (clean /\ st[p].alone)
    /\ Ends(p)
    /\ UNCHANGED <<scene, files, bench, begun>>

------------------------------------------------------------------------------

\* The command ends before its time: a judge that does not answer, a file that
\* cannot be read or written, a grading that is refused, a signal.
Stop(p) ==
    /\ Busy(p)
    /\ clean' = (clean /\ (st[p].pc \in {"grade", "store"} => \A r \in 1..(st[p].at - 1) : ~Started(r)))
    /\ Ends(p)
    /\ UNCHANGED <<scene, files, report, bench, begun>>

Next ==
    \E p \in Procs :
        \/ OpenGrade(p) \/ GradeRun(p) \/ Collect(p) \/ StoreReport(p)
        \/ OpenBenchmark(p) \/ Measure(p) \/ ReadToSync(p) \/ SyncSummary(p) \/ WriteBenchmark(p)
        \/ OpenCompare(p) \/ MergeComparisons(p)
        \/ Stop(p)

Spec == Init /\ [][Next]_vars

------------------------------------------------------------------------------
(* eval verify, which only reads.  The gradings of a run are those under its *)
(* run directory, the workspace's own among them.                            *)

\* check_workspace: the search widens from the workspace to the run directory.
Assertions(r, o) == ({"run"} \X Found(files[r], o)) \cup ({"workspace"} \X Found(scene.own[r], o))

\* collect_failed_assertions_in_workspace looks into the workspace alone.
FailedDetails(r) == UNION {{c \in DOMAIN g : Outcome(g[c]) = "failed"} : g \in scene.own[r]}

\* run_ci_checks with --fail-on-failed-assertions, in lenient mode
GatePasses(r) == Assertions(r, "ungraded") = {} /\ FailedDetails(r) = {}

------------------------------------------------------------------------------
(* What the directory promises. *)

IsReport(d) ==
    /\ \A r \in Runs : Cardinality(d.score[r]) <= 1 /\ Cardinality(d.published[r]) <= 1
    /\ d.k.any >= d.k.all /\ d.k.trials >= d.k.any
    /\ d.compared \in BOOLEAN /\ Cardinality(d.summary) <= 1

(* Every file holds at most one document, and what grades hold on to while    *)
(* they run has the shape of a report: at least as many cases pass in some    *)
(* attempt as in all.                                                         *)
TypeOK ==
    /\ \A r \in Runs : Cardinality(files[r]) <= 1
    /\ IsReport(report) /\ Cardinality(bench) <= 1
    /\ \A p \in Procs : /\ st[p].at \in 1..(NumRuns + 1)
                        /\ \A d \in st[p].doc : IsReport(d)
    /\ begun \in 0..MaxCommands /\ clean \in BOOLEAN

(* When the last grade to touch a file finished and shared the directory with *)
(* nobody, report.json says what the files say: scores, published results and *)
(* pass@k, whatever ran before it, a grade that broke off half way included.  *)
ReportMatchesFiles ==
    clean /\ (\A p \in Procs : ~Busy(p)) =>
        /\ report.published = files
        /\ \A r \in Runs : report.score[r] = UNION {CaseScore(g) : g \in files[r]}
        /\ report.k = KCounts([r \in Runs |-> UNION {CaseScore(g) : g \in files[r]}])

(* A grade that is about to exit with success, and ran alone, has left every  *)
(* run that started with a grading in which nothing failed or went ungraded.  *)
GreenMeansGreen ==
    \A p \in Procs :
        st[p].pc = "store" /\ st[p].alone /\ Exit(p) = "success" =>
            \A r \in Runs : Started(r) =>
                \E g \in files[r] : Count(g, "failed") = 0 /\ Count(g, "ungraded") = 0

(* Two attempts at one case are scored on the same checks, when the same      *)
(* checks could be answered in both and neither violated a fixture or a mock: *)
(* what a judge found never decides whether an arm-scoped check counts.       *)
ScaleIsShared ==
    \A r, s \in Runs : \A g \in files[r], h \in files[s] :
        /\ CaseOf[r] = CaseOf[s]
        /\ {r, s} \cap scene.violated = {}
        /\ \A c \in DOMAIN g : (g[c].says \in {"unsupported", "ungraded"}) = (h[c].says \in {"unsupported", "ungraded"})
        => \A c \in DOMAIN g : g[c].excluded = h[c].excluded

Completed == {r \in Runs : scene.status[r] = "completed"}

(* benchmark.json, while it is current, counts the assertions of the completed *)
(* runs as the gate does, unless a script of the user graded a workspace too.  *)
BenchmarkAgreesWithGate ==
    \A b \in bench :
        b.current /\ (\A r \in Runs : scene.own[r] = {}) =>
            /\ b.tally.passed = Cardinality(UNION {{r} \X Assertions(r, "passed") : r \in Completed})
            /\ b.tally.failed = Cardinality(UNION {{r} \X Assertions(r, "failed") : r \in Completed})
            /\ b.tally.missing = Cardinality({r \in Completed : files[r] = {}})

(* The gradings, report.json, benchmark.json and the exit code of a grade say *)
(* the same of a directory.                                                   *)
DocumentsAgree == ReportMatchesFiles /\ BenchmarkAgreesWithGate /\ GreenMeansGreen

(* docs/how-to/run-in-ci.md: --fail-on-failed-assertions fails when any       *)
(* assertion result failed; here of a run that `eval grade` graded.           *)
GateSeesFailures ==
    (\A p \in Procs : ~Busy(p)) => \A r \in Runs : GatePasses(r) => Assertions(r, "failed") = {}
=============================================================================
