----------------------------- MODULE Iterations -----------------------------
(* One skill revised round after round: passes over a suite that is edited in *)
(* between and narrowed by flags, and what the next revision is made from:    *)
(* `eval iteration-summary` with --withhold-test-detail (iteration_summary.rs) *)
(* and the bundle of `eval next-iteration` (improvement_bundle.rs), with the   *)
(* drift of the suite (eval_suite_drift.rs).                                   *)
(*                                                                             *)
(* A suite's hash is the suite. A case has one assertion and one attempt per   *)
(* arm; what the documents say of a case is whether they name it.              *)
EXTENDS Integers, Sequences, FiniteSets

CONSTANTS
    EvalIds,            \* cases a suite may declare
    Drawn,              \* what a case's runs may come to, of Draws
    ClearlyAbove(_, _), \* a pass rate whose interval against another excludes zero
    MaxRounds, MaxEdits

EvalSplits == {"train", "test"}
Suites == UNION {[ids -> EvalSplits] : ids \in SUBSET EvalIds}

\* A run's status, or of a completed one its grading.
RunResults == {"skipped", "failed", "ungraded", "pass", "fail"}
Arms == {"with_skill", "without_skill"}
Draws == [Arms -> RunResults]

\* A tally: assertions passed and failed.
Above(x, y) == x[1] * (y[1] + y[2]) > y[1] * (x[1] + x[2])

ASSUME IterationAssumption ==
    /\ IsFiniteSet(EvalIds) /\ Drawn \subseteq Draws /\ MaxRounds \in Nat /\ MaxEdits \in Nat
    /\ \A x, y \in (0..Cardinality(EvalIds)) \X (0..Cardinality(EvalIds)) :
          ClearlyAbove(x, y) => Above(x, y)

VARIABLES
    suite,   \* what the eval directory holds: cases and splits, and how it reads
    rounds,  \* the reports, in the order of their iterations
    opened,  \* next-iteration under way: the report and what it read of the suite
    bundle,  \* improvement.json, until the next pass: {} or one document
    edits

iterVars == <<suite, rounds, opened, bundle, edits>>

NoSuite == [reads |-> "missing", splits |-> <<>>]
Readable(splits) == [reads |-> "well", splits |-> splits]

IterationsInit(suites) ==
    /\ suite \in suites
    /\ rounds = <<>> /\ opened = {} /\ bundle = {} /\ edits = 0

------------------------------------------------------------------------------
(* The author: a case is added, removed or moved, or a save is half done.     *)

EditSuite ==
    /\ suite # NoSuite /\ edits < MaxEdits
    /\ edits' = edits + 1
    /\ \/ /\ suite.reads = "well"
          /\ \E c \in EvalIds, s \in EvalSplits :
                \/ suite' = Readable([x \in DOMAIN suite.splits \cup {c} |-> IF x = c THEN s ELSE suite.splits[x]])
                \/ suite' = Readable([x \in DOMAIN suite.splits \ {c} |-> suite.splits[x]])
       \/ \E reads \in {"broken", "missing", "well"} : suite' = [suite EXCEPT !.reads = reads]
    /\ suite' # suite
    /\ UNCHANGED <<rounds, opened, bundle>>

------------------------------------------------------------------------------
(* eval run                                                                   *)

\* CaseSelection: --split, --case or neither.
Selections == [split : {EvalSplits}, ids : {EvalIds} \cup {{c} : c \in EvalIds}]
              \cup [split : {{s} : s \in EvalSplits}, ids : {EvalIds}]

\* covers
Covered(selection, splits) == {c \in DOMAIN splits : c \in selection.ids /\ splits[c] \in selection.split}

\* suite is what the pass read, of which the report keeps the hash, the split of each
\* run and, when the pass was narrowed, of each declared case: an older trg kept only
\* their ids.
RunPassOver(selection) ==
    /\ suite.reads = "well" /\ Len(rounds) < MaxRounds /\ opened = {}
    /\ LET covered == Covered(selection, suite.splits) IN
       /\ covered # {}
       /\ \E draws \in [covered -> Drawn], old \in BOOLEAN :
             /\ old => covered # DOMAIN suite.splits
             /\ rounds' = Append(rounds, [suite |-> suite.splits, runs |-> draws, old |-> old])
    /\ bundle' = {}
    /\ UNCHANGED <<suite, opened, edits>>

\* CaseSelection::record
Narrowed(r) == DOMAIN r.runs # DOMAIN r.suite

\* declared_eval_case_ids
DeclaredIds(r) == IF Narrowed(r) THEN DOMAIN r.suite ELSE DOMAIN r.runs

\* Mutant: a split is read off the runs there were.
SplitsOfRuns(r) == [c \in DeclaredIds(r) |-> IF c \in DOMAIN r.runs THEN r.suite[c] ELSE "train"]

\* declared_eval_case_splits
DeclaredSplits(r) == [c \in DeclaredIds(r) |-> IF Narrowed(r) /\ r.old THEN "unknown" ELSE r.suite[c]]

TrainRuns(r) == {c \in DOMAIN r.runs : r.suite[c] # "test"}
TestRuns(r) == {c \in DOMAIN r.runs : r.suite[c] = "test"}

------------------------------------------------------------------------------
(* eval iteration-summary: of a report and an earlier one, {} or that one     *)

IsCompleted(result) == result \notin {"skipped", "failed"}
IsScored(result) == result \in {"pass", "fail"}

\* analyze_report: every list of a case's completed runs may hold it.
Analyzed(r, ids) == {c \in ids : \E arm \in Arms : IsCompleted(r.runs[c][arm])}

\* The cases whose every scored run, of either arm, came to one result.
AlwaysCame(r, result) ==
    {c \in DOMAIN r.runs : LET scored == {arm \in Arms : IsScored(r.runs[c][arm])} IN
                           scored # {} /\ \A arm \in scored : r.runs[c][arm] = result}

\* grading_unavailable: a completed run without a grading
GradingUnavailable(r) == \E c \in DOMAIN r.runs, arm \in Arms : r.runs[c][arm] = "ungraded"

\* build_cross_iteration_section
CrossIteration(r, previous) ==
    UNION {IF GradingUnavailable(p) THEN {}
           ELSE UNION {(AlwaysCame(r, x) \ AlwaysCame(p, x)) \cup (AlwaysCame(p, x) \ AlwaysCame(r, x)) : x \in {"pass", "fail"}} :
              p \in previous}

\* Mutant: the declared cases are not looked at.
HeldOutByRuns(r, previous) == UNION {TestRuns(q) : q \in {r} \cup previous}

\* withhold_test_split_detail: held_out_ids
HeldOutIds(r, previous) ==
    UNION {TestRuns(q) \cup (IF Narrowed(q) THEN {c \in DeclaredIds(q) : DeclaredSplits(q)[c] # "train"} ELSE {}) :
              q \in {r} \cup previous}

\* The cases a summary names when test detail is withheld: its lists without those
\* held out, and by_split.train, which holds what ran as train now.
SummaryNames(r, previous) ==
    ((Analyzed(r, DOMAIN r.runs) \cup CrossIteration(r, previous)) \ HeldOutIds(r, previous))
    \cup Analyzed(r, TrainRuns(r))

\* Mutant: the arms of all splits are pooled.
TallyAll(r, split) ==
    LET came(result) == {c \in DOMAIN r.runs : r.runs[c]["with_skill"] = result} IN
    <<Cardinality(came("pass")), Cardinality(came("fail"))>>

\* tally_with_skill: a failed run leaves no assertion to count, whatever --failed-runs is.
Tally(r, split) ==
    LET came(result) == {c \in DOMAIN r.runs : r.suite[c] = split /\ r.runs[c]["with_skill"] = result} IN
    <<Cardinality(came("pass")), Cardinality(came("fail"))>>

\* compute_split_verdict
SplitVerdict(r, p, split) ==
    LET x == Tally(r, split)
        y == Tally(p, split)
    IN IF <<0, 0>> \in {x, y} THEN "no_runs"
       ELSE IF ClearlyAbove(x, y) THEN "improved"
       ELSE IF ClearlyAbove(y, x) THEN "regressed" ELSE "indistinguishable"

\* suite_comparison, derive_recommendation
Recommendation(r, p) ==
    IF r.suite # p.suite THEN "inconclusive"
    ELSE LET test == SplitVerdict(r, p, "test") IN
         CASE test = "improved" -> "keep"
           [] test = "regressed" -> "revert"
           [] test = "indistinguishable" /\ SplitVerdict(r, p, "train") = "improved" -> "suspected_overfitting"
           [] OTHER -> "inconclusive"

------------------------------------------------------------------------------
(* eval next-iteration, of the last report; a bound: none after the last pass *)

\* detect_eval_suite_drift_vs_skill: a missing suite is no drift, and one that
\* does not read ends the command.
OpenBundle ==
    /\ Len(rounds) \in 1..(MaxRounds - 1) /\ opened = {} /\ suite.reads # "broken"
    /\ opened' = {[of |-> rounds[Len(rounds)], suite |-> suite]}
    /\ UNCHANGED <<suite, rounds, bundle, edits>>

Drifted(o) == o.suite.reads = "well" /\ o.suite.splits # o.of.suite

\* Mutant: what has gone was never held out.
RemovedAsTrain(o) == DeclaredIds(o.of) \ DOMAIN o.suite.splits

\* eval_suite_drift_from_report: removed_eval_ids
Removed(o) ==
    {c \in DeclaredIds(o.of) \ DOMAIN o.suite.splits : DeclaredSplits(o.of)[c] \notin {"test", "unknown"}}

\* added_eval_ids: the suite is resolved a second time for their splits; a case that
\* it does not have, or a suite that does not read, is the default split, train.
Added(o, now) ==
    {c \in DOMAIN o.suite.splits \ DeclaredIds(o.of) :
        ~(now.reads = "well" /\ c \in DOMAIN now.splits /\ now.splits[c] = "test")}

\* build_held_out_section
HeldOut(r) ==
    IF TestRuns(r) # {} THEN "withheld"
    ELSE IF \E c \in DeclaredIds(r) : DeclaredSplits(r)[c] = "test" THEN "declared_not_run" ELSE "no_test_cases"

\* build_improvement_bundle: failed assertions, feedback, excerpts and focus are of
\* train runs, and any of them may be named.
CloseBundle ==
    /\ \E o \in opened :
          bundle' = {[of |-> o.of, last |-> suite, heldOut |-> HeldOut(o.of),
                      names |-> TrainRuns(o.of) \cup (IF Drifted(o) THEN Removed(o) \cup Added(o, suite) ELSE {})]}
    /\ opened' = {}
    /\ UNCHANGED <<suite, rounds, edits>>

IterationsNext ==
    \/ EditSuite
    \/ \E selection \in Selections : RunPassOver(selection)
    \/ OpenBundle \/ CloseBundle

IterationsSpec == IterationsInit({Readable(splits) : splits \in Suites}) /\ [][IterationsNext]_iterVars

------------------------------------------------------------------------------
(* What the reviser may learn, and what it may conclude.                      *)

\* Held out of the suite a report is about, whether it kept a record of it or not.
TestOf(r) == {c \in DOMAIN r.suite : r.suite[c] = "test"}

(* docs/how-to/hillclimb-a-skill.md, The rule: no summary that withholds test *)
(* detail names a case its pass held out, or an earlier one did of a case     *)
(* that is gone since; however the passes were narrowed, and however cases    *)
(* moved between splits from one pass to the other.                           *)
SummaryWithholds ==
    \A i \in DOMAIN rounds : \A j \in 0..(i - 1) :
        LET earlier == IF j = 0 THEN {} ELSE {rounds[j]}
            gone == UNION {TestOf(p) \ DOMAIN rounds[i].suite : p \in earlier}
        IN SummaryNames(rounds[i], earlier) \cap (TestOf(rounds[i]) \cup gone) = {}

(* A bundle names no case that the pass it is made from held out, nor a new   *)
(* one that the suite, as last read, holds out; and it says that a suite has  *)
(* no test cases only of one that has none, or of an older trg's report.      *)
BundleWithholds ==
    \A d \in bundle :
        /\ d.names \cap TestOf(d.of) = {}
        /\ d.last.reads = "well" =>
              \A c \in d.names \cap DOMAIN d.last.splits :
                 d.last.splits[c] = "test" => c \in DeclaredIds(d.of)
        /\ d.heldOut = "no_test_cases" => TestOf(d.of) = {} \/ d.of.old

(* What was held out of a round stays out of what the next one is made from.  *)
HeldOutStaysHeldOut == SummaryWithholds /\ BundleWithholds

(* keep means that a held-out case passes which failed before, or that the    *)
(* two rounds did not score the same held-out cases; revert is its mirror     *)
(* image; and an overfit is only suspected where the train cases moved so and *)
(* held-out cases were scored in both rounds.                                 *)
RecommendationIsEarned ==
    \A i, j \in DOMAIN rounds :
        LET r == rounds[i]
            p == rounds[j]
            Scored(q, split) == {c \in DOMAIN q.runs : q.suite[c] = split /\ IsScored(q.runs[c]["with_skill"])}
            Better(x, y, split) ==
                Scored(x, split) = Scored(y, split) =>
                    \E c \in Scored(x, split) : x.runs[c]["with_skill"] = "pass" /\ y.runs[c]["with_skill"] = "fail"
        IN /\ Recommendation(r, p) = "keep" => r.suite = p.suite /\ Better(r, p, "test")
           /\ (Recommendation(r, p) = "keep") = (Recommendation(p, r) = "revert")
           /\ Recommendation(r, p) = "suspected_overfitting" =>
                 /\ Better(r, p, "train")
                 /\ Scored(r, "test") # {} /\ Scored(p, "test") # {}

(* A reviser is told nothing that was held out and no verdict that the        *)
(* held-out cases did not earn: what makes the next round's figures mean      *)
(* anything.                                                                  *)
ImprovementIsHonest == HeldOutStaysHeldOut /\ RecommendationIsEarned
=============================================================================
