---------------------------- MODULE ReportsProofs ----------------------------
(* Proofs that what is written about a pass after it agrees with what it left,*)
(* for any runs, cases, checks, commands and scenes: the documents of a report*)
(* directory, the scale attempts at a case are scored on, what a reviser is   *)
(* told of a round, and what a tracing backend holds after eval export.       *)
EXTENDS Grading, Iterations, TraceReplay, FiniteSetTheorems, TLAPS

------------------------------------------------------------------------------
(* A grading *)

AllChecks == Checks \cup {Violation}

\* What a run is graded on.
GradedOn(r) == Declared[CaseOf[r]] \cup (IF r \in scene.violated THEN {Violation} ELSE {})

\* A pair is counted as its second part is.
LEMMA Tagged ==
    ASSUME NEW x, NEW S, IsFiniteSet(S)
    PROVE  IsFiniteSet({x} \X S) /\ Cardinality({x} \X S) = Cardinality(S)
<1>1. IsFiniteSet({x}) /\ Cardinality({x}) = 1
    BY FS_Singleton
<1>2. Cardinality({x} \X S) = 1 * Cardinality(S) /\ Cardinality(S) \in Nat /\ IsFiniteSet({x} \X S)
    BY <1>1, FS_Product, FS_CardinalityType
<1>. QED
    BY <1>2

\* What a grading holds can be counted.
LEMMA Counts ==
    ASSUME NEW g, NEW o, IsFiniteSet(DOMAIN g), DOMAIN g \subseteq AllChecks
    PROVE  /\ Count(g, o) \in Nat
           /\ IsFiniteSet(Found({g}, o)) /\ IsFiniteSet(Found({}, o)) /\ Found({}, o) = {}
<1>1. {c \in DOMAIN g : Outcome(g[c]) = o} \in SUBSET (DOMAIN g)
    OBVIOUS
<1>2. Count(g, o) \in Nat
    BY <1>1, FS_Subset, FS_CardinalityType DEF Count
<1>3. Found({g}, o) \in SUBSET ({g} \X DOMAIN g)
    <2>. SUFFICES ASSUME NEW x \in Found({g}, o) PROVE x \in {g} \X DOMAIN g
        OBVIOUS
    <2>1. x \in {g} \X AllChecks /\ x[2] \in DOMAIN x[1]
        BY DEF Found, AllChecks
    <2>. QED
        BY <2>1
<1>4. IsFiniteSet({g} \X DOMAIN g)
    BY Tagged
<1>5. Found({}, o) = {}
    BY DEF Found
<1>. QED
    BY <1>2, <1>3, <1>4, <1>5, FS_Subset, FS_EmptySet

\* Every run is graded on finitely many checks, each answered.
LEMMA AnswerFacts ==
    ASSUME NEW r \in Runs, NEW mode, NEW raw \in Answers(r, mode)
    PROVE  /\ DOMAIN Restored(raw) = GradedOn(r) /\ IsFiniteSet(GradedOn(r)) /\ GradedOn(r) \subseteq AllChecks
           /\ \E said \in [Deferred(r) -> Verdicts(mode)] :
                 raw = [c \in GradedOn(r) |->
                           [says |-> IF c = Violation THEN "failed"
                                     ELSE IF c \in Deferred(r) THEN said[c] ELSE scene.fact[r][c],
                            excluded |-> c \in Scoped]]
<1>1. \E said \in [Deferred(r) -> Verdicts(mode)] :
         raw = [c \in GradedOn(r) |->
                   [says |-> IF c = Violation THEN "failed"
                             ELSE IF c \in Deferred(r) THEN said[c] ELSE scene.fact[r][c],
                    excluded |-> c \in Scoped]]
    BY DEF Answers, GradedOn
<1>2. DOMAIN raw = GradedOn(r)
    BY <1>1
<1>3. DOMAIN Restored(raw) = DOMAIN raw
    BY DEF Restored
<1>4. CaseOf[r] \in Cases /\ IsFiniteSet(Declared[CaseOf[r]])
    BY GradingAssumption
<1>5. Declared[CaseOf[r]] \subseteq Checks
    BY <1>4 DEF Checks
<1>6. IsFiniteSet(GradedOn(r))
    <2>1. IsFiniteSet(Declared[CaseOf[r]] \cup {Violation})
        BY <1>4, FS_AddElement
    <2>. QED
        BY <1>4, <2>1 DEF GradedOn
<1>. QED
    BY <1>1, <1>2, <1>3, <1>5, <1>6 DEF GradedOn, AllChecks

------------------------------------------------------------------------------
(* What the directory holds while commands run *)

\* Every grading in a run directory is what a grade found; a run that never
\* started has none.
FilesInv ==
    /\ files = [r \in Runs |-> files[r]]
    /\ \A r \in Runs : ~Started(r) => files[r] = {}
    /\ \A r \in Runs : files[r] # {} =>
          \E mode \in GraderModes : \E raw \in Answers(r, mode) : files[r] = {Restored(raw)}

\* A report scores no run that never started.
WellKept(d) ==
    /\ d = [score |-> d.score, published |-> d.published, k |-> d.k, compared |-> d.compared, summary |-> d.summary]
    /\ d.score = [r \in Runs |-> d.score[r]]
    /\ \A r \in Runs : ~Started(r) => d.score[r] = {}

ScoreOf(r) == UNION {CaseScore(g) : g \in files[r]}

\* A report says what the files say.
Matches(d) ==
    /\ d.published = files
    /\ \A r \in Runs : d.score[r] = ScoreOf(r)
    /\ d.k = KCounts([r \in Runs |-> ScoreOf(r)])

\* The assertions and the missing gradings of the first n runs.
Gated(o, n) == UNION {{r} \X Assertions(r, o) : r \in {q \in Completed : q <= n}}
MissingOf(n) == {r \in {q \in Completed : q <= n} : files[r] = {}}

\* A tally counts the first n runs as the gate does.
Tallied(t, n) ==
    (\A r \in Runs : scene.own[r] = {}) =>
        /\ IsFiniteSet(Gated("passed", n)) /\ IsFiniteSet(Gated("failed", n))
        /\ t.passed = Cardinality(Gated("passed", n))
        /\ t.failed = Cardinality(Gated("failed", n))
        /\ t.missing = Cardinality(MissingOf(n))

PCs == {"idle", "grade", "store", "measure", "sync", "bench", "judge"}

IsTally(t) == t = [passed |-> t.passed, failed |-> t.failed, missing |-> t.missing]

\* A command, whoever runs beside it.
IsCommand(c) ==
    /\ c = [pc |-> c.pc, mode |-> c.mode, doc |-> c.doc, at |-> c.at, failed |-> c.failed,
            ungraded |-> c.ungraded, tally |-> c.tally, alone |-> c.alone]
    /\ IsTally(c.tally)
    /\ c.pc \in PCs /\ c.at \in 1..(NumRuns + 1) /\ c.alone \in BOOLEAN
    /\ c.failed \in Nat /\ c.ungraded \in Nat
    /\ c.pc \in {"grade", "store"} => c.mode \in GraderModes
    /\ c.pc \in {"grade", "store", "sync", "judge"} => \E d : c.doc = {d} /\ WellKept(d)
    /\ c.pc \in {"store", "sync", "bench"} => c.at = NumRuns + 1

\* A grade has graded the run, and its report and its exit code know of it.
Graded(c, d, r) ==
    \E g : /\ files[r] = {g} /\ d.score[r] = CaseScore(g)
           /\ c.failed = 0 => Count(g, "failed") = 0
           /\ c.ungraded = 0 => Count(g, "ungraded") = 0

\* A command that nobody runs beside.
Undisturbed(c) ==
    /\ c.pc \in {"grade", "store"} =>
          \A d \in c.doc : \A r \in 1..(c.at - 1) : Started(r) => Graded(c, d, r)
    /\ c.pc = "store" => \A d \in c.doc : Matches(d)
    /\ c.pc \in {"sync", "judge"} => c.doc = {report}
    /\ c.pc \in {"measure", "sync", "bench"} => Tallied(c.tally, c.at - 1)

\* A grade has written a file, and not yet the report.
Touches(c) == c.pc \in {"grade", "store"} /\ \E r \in 1..(c.at - 1) : Started(r)

BenchInv ==
    \A b \in bench :
        /\ b = [tally |-> b.tally, current |-> b.current] /\ b.current \in BOOLEAN
        /\ b.current => Tallied(b.tally, NumRuns)

\* No grade is between its files and its report.
Quiet == \A p \in Procs : \E c : c = st[p] /\ ~Touches(c)

ReportInv ==
    /\ clean \in BOOLEAN
    /\ \E d : d = report /\ WellKept(d) /\ (clean /\ Quiet => Matches(d))

WellRun(c) ==
    /\ IsCommand(c)
    /\ c.pc = "idle" => c = Idle
    /\ c.alone => Undisturbed(c)

(* The report matches the files whenever no grade is between its files and its
   report, one that ran beside another command or broke off included. *)
DirectoryInv ==
    /\ scene \in Scenes
    /\ FilesInv
    /\ BenchInv
    /\ ReportInv
    /\ st = [p \in Procs |-> st[p]]
    /\ \A p \in Procs : \E c : c = st[p] /\ WellRun(c)
    /\ \A p, q \in Procs : p # q /\ Busy(p) /\ Busy(q) => ~st[p].alone

\* What the invariant says of the documents.
LEMMA DocumentsOfDirectory == DirectoryInv => DocumentsAgree
<1>. SUFFICES ASSUME DirectoryInv PROVE DocumentsAgree
    OBVIOUS
<1>1. ReportMatchesFiles
    <2>. SUFFICES ASSUME clean, \A p \in Procs : ~Busy(p) PROVE Matches(report)
        BY DEF ReportMatchesFiles, Matches, ScoreOf
    <2>1. Quiet
        BY DEF Busy, Touches, Quiet
    <2>. QED
        BY <2>1 DEF DirectoryInv, ReportInv
<1>2. BenchmarkAgreesWithGate
    <2>. SUFFICES ASSUME NEW b \in bench, b.current, \A r \in Runs : scene.own[r] = {}
                  PROVE  /\ b.tally.passed = Cardinality(UNION {{r} \X Assertions(r, "passed") : r \in Completed})
                         /\ b.tally.failed = Cardinality(UNION {{r} \X Assertions(r, "failed") : r \in Completed})
                         /\ b.tally.missing = Cardinality({r \in Completed : files[r] = {}})
        BY DEF BenchmarkAgreesWithGate
    <2>1. Tallied(b.tally, NumRuns)
        BY DEF DirectoryInv, BenchInv
    <2>2. {q \in Completed : q <= NumRuns} = Completed
        BY GradingAssumption DEF Completed, Runs
    <2>. QED
        BY <2>1, <2>2 DEF Tallied, Gated, MissingOf
<1>3. GreenMeansGreen
    <2>. SUFFICES ASSUME NEW p \in Procs, st[p].pc = "store", st[p].alone, st[p].failed = 0, st[p].ungraded = 0,
                         NEW r \in Runs, Started(r)
                  PROVE  \E g \in files[r] : Count(g, "failed") = 0 /\ Count(g, "ungraded") = 0
        BY DEF GreenMeansGreen, Exit
    <2>1. IsCommand(st[p]) /\ Undisturbed(st[p])
        BY DEF DirectoryInv, WellRun
    <2>2. PICK d : st[p].doc = {d}
        BY <2>1 DEF IsCommand
    <2>3. r \in 1..(st[p].at - 1)
        BY <2>1, GradingAssumption DEF IsCommand, Runs
    <2>4. Graded(st[p], d, r)
        BY <2>1, <2>2, <2>3 DEF Undisturbed
    <2>. QED
        BY <2>4 DEF Graded
<1>. QED
    BY <1>1, <1>2, <1>3 DEF DocumentsAgree

\* What a step does not write stays what it was.
LEMMA SameScene ==
    ASSUME scene' = scene
    PROVE  /\ \A d : WellKept(d)' <=> WellKept(d)
           /\ \A r \in Runs : Started(r)' <=> Started(r)
           /\ \A c : IsCommand(c)' <=> IsCommand(c)
           /\ \A c : Touches(c)' <=> Touches(c)
<1>1. \A r \in Runs : Started(r)' <=> Started(r)
    BY DEF Started
<1>2. \A d : WellKept(d)' <=> WellKept(d)
    BY <1>1 DEF WellKept
<1>3. \A c : IsCommand(c)' <=> IsCommand(c)
    BY <1>2 DEF IsCommand
<1>4. \A c : Touches(c)' <=> Touches(c)
    BY DEF Touches, Started
<1>. QED
    BY <1>1, <1>2, <1>3, <1>4

\* What is said of the files stays true of files that stay.
LEMMA SameFiles ==
    ASSUME scene' = scene, files' = files
    PROVE  /\ FilesInv => FilesInv'
           /\ \A d : Matches(d)' <=> Matches(d)
           /\ \A t, n : Tallied(t, n)' <=> Tallied(t, n)
           /\ \A c, d, r : Graded(c, d, r)' <=> Graded(c, d, r)
<1>1. FilesInv => FilesInv'
    <2>1. \A r, mode : Answers(r, mode)' = Answers(r, mode)
        BY DEF Answers, Deferred
    <2>2. \A r : Started(r)' <=> Started(r)
        BY DEF Started
    <2>. QED
        BY <2>1, <2>2 DEF FilesInv
<1>2. \A d : Matches(d)' <=> Matches(d)
    BY DEF Matches, ScoreOf, KCounts, Attempted, Passed
<1>3. \A t, n : Tallied(t, n)' <=> Tallied(t, n)
    BY DEF Tallied, Gated, MissingOf, Completed, Assertions
<1>4. \A c, d, r : Graded(c, d, r)' <=> Graded(c, d, r)
    BY DEF Graded
<1>. QED
    BY <1>1, <1>2, <1>3, <1>4

\* A command's step leaves the others as they were, none of them undisturbed.
LEMMA CommandSteps ==
    ASSUME DirectoryInv, NEW p \in Procs, Busy(p), scene' = scene,
           NEW new, st' = [st EXCEPT ![p] = new],
           new.alone = st[p].alone \/ new = Idle, WellRun(new)',
           FilesInv', BenchInv', ReportInv'
    PROVE  DirectoryInv'
<1>1. /\ st = [q \in Procs |-> st[q]] /\ st' = [q \in Procs |-> st'[q]]
      /\ st'[p] = new /\ \A q \in Procs : q # p => st'[q] = st[q]
    BY DEF DirectoryInv
<1>2. ASSUME NEW q \in Procs
      PROVE  \E c : c = st'[q] /\ WellRun(c)'
    <2>1. CASE q = p
        BY <1>1, <2>1
    <2>2. CASE q # p
        <3>1. PICK c : c = st[q] /\ WellRun(c)
            BY DEF DirectoryInv
        <3>2. c = st'[q] /\ IsCommand(c)'
            BY <1>1, <2>2, <3>1, SameScene DEF WellRun
        <3>3. c.alone => c.pc = "idle"
            BY <2>2, <3>1 DEF DirectoryInv, Busy
        <3>4. c.alone => Undisturbed(c)'
            BY <3>3 DEF Undisturbed
        <3>. QED
            BY <3>1, <3>2, <3>4 DEF WellRun
    <2>. QED
        BY <2>1, <2>2
<1>3. ASSUME NEW q \in Procs, NEW o \in Procs, q # o, Busy(q)', Busy(o)' PROVE ~st'[q].alone
    <2>1. Busy(q) /\ Busy(o)
        <3>1. \A x \in Procs : Busy(x)' => Busy(x)
            BY <1>1 DEF Busy
        <3>. QED
            BY <1>3, <3>1
    <2>2. ~st[q].alone
        BY <1>3, <2>1 DEF DirectoryInv
    <2>3. CASE q = p
        <3>1. new # Idle
            BY <1>1, <1>3, <2>3 DEF Busy, Idle
        <3>. QED
            BY <1>1, <2>2, <2>3, <3>1
    <2>4. CASE q # p
        BY <1>1, <2>2, <2>4
    <2>. QED
        BY <2>3, <2>4
<1>. QED
    BY <1>1, <1>2, <1>3 DEF DirectoryInv

\* A command at rest is as it should be.
LEMMA AtRest ==
    /\ WellRun(Idle) /\ Idle.alone /\ ~Touches(Idle)
    /\ Idle.pc = "idle" /\ Idle.doc = {} /\ Idle.at = 1 /\ Idle.failed = 0 /\ Idle.ungraded = 0
<1>1. /\ Idle.pc = "idle" /\ Idle.doc = {} /\ Idle.at = 1 /\ Idle.failed = 0 /\ Idle.ungraded = 0
      /\ Idle.alone = TRUE /\ Idle.tally = NoTally
    BY DEF Idle
<1>2. Idle = [pc |-> Idle.pc, mode |-> Idle.mode, doc |-> Idle.doc, at |-> Idle.at, failed |-> Idle.failed,
              ungraded |-> Idle.ungraded, tally |-> Idle.tally, alone |-> Idle.alone]
    BY DEF Idle
<1>3. IsTally(NoTally)
    BY DEF NoTally, IsTally
<1>4. 1 \in 1..(NumRuns + 1)
    BY GradingAssumption
<1>5. IsCommand(Idle)
    <2>1. Idle.pc \in PCs /\ Idle.at \in 1..(NumRuns + 1) /\ Idle.alone \in BOOLEAN /\ Idle.failed \in Nat
          /\ Idle.ungraded \in Nat
        <3>1. Idle.pc \in PCs /\ Idle.alone \in BOOLEAN
            BY <1>1, Zenon DEF PCs
        <3>2. Idle.at \in 1..(NumRuns + 1) /\ Idle.failed \in Nat /\ Idle.ungraded \in Nat
            BY <1>1, <1>4
        <3>. QED
            BY <3>1, <3>2
    <2>2. IsTally(Idle.tally)
        BY <1>1, <1>3
    <2>3. Idle.pc \notin {"grade", "store", "sync", "judge", "bench"}
        BY <1>1
    <2>. QED
        BY <1>2, <2>1, <2>2, <2>3, Zenon DEF IsCommand
<1>6. Undisturbed(Idle) /\ ~Touches(Idle)
    BY <1>1 DEF Undisturbed, Touches
<1>. QED
    BY <1>1, <1>5, <1>6 DEF WellRun

\* Nothing was counted before the first run.
LEMMA NothingCounted == Tallied(NoTally, 0)
<1>1. {q \in Completed : q <= 0} = {}
    BY GradingAssumption DEF Completed, Runs
<1>2. Gated("passed", 0) = {} /\ Gated("failed", 0) = {} /\ MissingOf(0) = {}
    BY <1>1 DEF Gated, MissingOf
<1>3. NoTally.passed = 0 /\ NoTally.failed = 0 /\ NoTally.missing = 0
    BY DEF NoTally
<1>. QED
    BY <1>2, <1>3, FS_EmptySet DEF Tallied

\* No grade is between files and report that was not before.
LEMMA QuietBack ==
    ASSUME DirectoryInv, NEW p \in Procs, scene' = scene, NEW old, old = st[p],
           NEW new, st' = [st EXCEPT ![p] = new], Touches(old) => Touches(new)
    PROVE  Quiet' => Quiet
<1>1. st = [q \in Procs |-> st[q]] /\ st'[p] = new /\ \A q \in Procs : q # p => st'[q] = st[q]
    BY DEF DirectoryInv
<1>. SUFFICES ASSUME Quiet', NEW q \in Procs PROVE \E c : c = st[q] /\ ~Touches(c)
    BY DEF Quiet
<1>2. PICK c : c = st'[q] /\ ~Touches(c)'
    BY DEF Quiet
<1>3. ~Touches(c)
    BY <1>2, SameScene
<1>. QED
    BY <1>1, <1>2, <1>3

\* A report that is not written, and files that are not either.
LEMMA ReportStays ==
    ASSUME DirectoryInv, scene' = scene, files' = files, report' = report,
           clean' \in BOOLEAN, clean' => clean, clean' /\ Quiet' => Quiet
    PROVE  ReportInv'
<1>1. PICK d : d = report /\ WellKept(d) /\ (clean /\ Quiet => Matches(d))
    BY DEF DirectoryInv, ReportInv
<1>2. WellKept(d)' /\ (Matches(d) => Matches(d)')
    BY <1>1, SameScene, SameFiles
<1>. QED
    BY <1>1, <1>2 DEF ReportInv

\* A benchmark that is not written, and files that are not either.
LEMMA BenchStays ==
    ASSUME DirectoryInv, scene' = scene, files' = files, bench' = bench
    PROVE  BenchInv' /\ FilesInv'
<1>1. BenchInv'
    BY SameFiles DEF DirectoryInv, BenchInv
<1>. QED
    BY <1>1, SameFiles DEF DirectoryInv

\* A command begins: those beside it are no longer alone.
LEMMA BeginningSteps ==
    ASSUME DirectoryInv, NEW p \in Procs, NEW command, Begins(p, command),
           UNCHANGED <<scene, files, report, bench, clean>>,
           NEW pc \in {"grade", "measure", "judge"}, NEW mode, pc = "grade" => mode \in GraderModes,
           NEW doc, pc # "measure" => doc = {report},
           command = [Idle EXCEPT !.pc = pc, !.mode = mode, !.doc = doc]
    PROVE  DirectoryInv'
<1>1. /\ st = [q \in Procs |-> st[q]] /\ ~Busy(p)
      /\ st' = [q \in Procs |-> IF q = p THEN [command EXCEPT !.alone = \A o \in Procs : ~Busy(o)]
                                ELSE [st[q] EXCEPT !.alone = @ /\ ~Busy(q)]]
    BY DEF DirectoryInv, Begins
<1>2. PICK alone \in BOOLEAN : alone <=> \A o \in Procs : ~Busy(o)
    OBVIOUS
<1>3. PICK new : new = st'[p] /\ new = [command EXCEPT !.alone = alone]
    BY <1>1, <1>2
<1>4. /\ new = [pc |-> pc, mode |-> mode, doc |-> doc, at |-> 1, failed |-> 0, ungraded |-> 0,
                tally |-> NoTally, alone |-> alone]
      /\ new.pc = pc /\ new.mode = mode /\ new.doc = doc /\ new.at = 1 /\ new.failed = 0 /\ new.ungraded = 0
      /\ new.tally = NoTally /\ new.alone = alone
    BY <1>3 DEF Idle
<1>5. WellRun(new)'
    <2>1. PICK d : d = report /\ WellKept(d)
        BY DEF DirectoryInv, ReportInv
    <2>2. IsTally(NoTally) /\ 1 \in 1..(NumRuns + 1)
        BY GradingAssumption DEF NoTally, IsTally
    <2>3. IsCommand(new)
        <3>1. new.pc \in PCs /\ new.at \in 1..(NumRuns + 1) /\ new.alone \in BOOLEAN /\ new.failed \in Nat
              /\ new.ungraded \in Nat /\ IsTally(new.tally)
            BY <1>4, <2>2 DEF PCs
        <3>2. new = [pc |-> new.pc, mode |-> new.mode, doc |-> new.doc, at |-> new.at, failed |-> new.failed,
                     ungraded |-> new.ungraded, tally |-> new.tally, alone |-> new.alone]
            BY <1>4
        <3>3. new.pc \in {"grade", "store"} => new.mode \in GraderModes
            BY <1>4
        <3>4. new.pc \in {"grade", "store", "sync", "judge"} => \E e : new.doc = {e} /\ WellKept(e)
            BY <1>4, <2>1
        <3>5. new.pc \notin {"store", "sync", "bench"}
            BY <1>4
        <3>. QED
            BY <3>1, <3>2, <3>3, <3>4, <3>5, Zenon DEF IsCommand
    <2>4. Tallied(NoTally, 0)'
        BY NothingCounted, SameFiles
    <2>5. Undisturbed(new)'
        <3>1. 1..(new.at - 1) = {}
            BY <1>4
        <3>2. new.pc \in {"sync", "judge"} => new.doc = {report'}
            BY <1>4
        <3>3. new.at - 1 = 0 /\ new.pc # "store"
            BY <1>4
        <3>. QED
            BY <1>4, <2>4, <3>1, <3>2, <3>3 DEF Undisturbed
    <2>6. IsCommand(new)' /\ new.pc # "idle"
        BY <1>4, <2>3, SameScene
    <2>. QED
        BY <2>5, <2>6 DEF WellRun
<1>6. ASSUME NEW q \in Procs, q # p
      PROVE  \E c : c = st'[q] /\ WellRun(c)' /\ (Busy(q) => ~c.alone) /\ \E old : old = st[q] /\ c.pc = old.pc /\ (Touches(old) => Touches(c))
    <2>1. PICK old : old = st[q] /\ WellRun(old)
        BY DEF DirectoryInv
    <2>2. PICK still \in BOOLEAN : still <=> old.alone /\ ~Busy(q)
        OBVIOUS
    <2>3. PICK c : c = st'[q] /\ c = [old EXCEPT !.alone = still]
        <3>1. (old.alone /\ ~Busy(q)) = still
            BY <2>1, <2>2 DEF WellRun, IsCommand
        <3>. QED
            BY <1>1, <1>6, <2>1, <3>1
    <2>4. CASE ~Busy(q)
        <3>1. old = Idle /\ still
            BY <2>1, <2>2, <2>4, AtRest DEF WellRun, Busy
        <3>2. c = Idle
            BY <2>3, <3>1 DEF Idle
        <3>3. WellRun(c)'
            BY <3>2, AtRest, SameScene DEF WellRun, Undisturbed
        <3>. QED
            BY <2>1, <2>3, <2>4, <3>1, <3>2, <3>3
    <2>5. CASE Busy(q)
        <3>1. /\ c = [pc |-> old.pc, mode |-> old.mode, doc |-> old.doc, at |-> old.at, failed |-> old.failed,
                      ungraded |-> old.ungraded, tally |-> old.tally, alone |-> FALSE]
              /\ c.pc = old.pc /\ c.mode = old.mode /\ c.doc = old.doc /\ c.at = old.at /\ c.failed = old.failed
              /\ c.ungraded = old.ungraded /\ c.tally = old.tally /\ c.alone = FALSE
            BY <2>1, <2>2, <2>3, <2>5 DEF WellRun, IsCommand
        <3>2. IsCommand(c)
            BY <2>1, <3>1, Zenon DEF WellRun, IsCommand
        <3>3. c.pc # "idle"
            BY <2>1, <2>5, <3>1 DEF Busy
        <3>4. WellRun(c)'
            BY <3>1, <3>2, <3>3, SameScene DEF WellRun
        <3>5. Touches(old) => Touches(c)
            BY <3>1 DEF Touches
        <3>. QED
            BY <2>1, <2>3, <3>1, <3>4, <3>5
    <2>. QED
        BY <2>4, <2>5
<1>7. Quiet' => Quiet
    <2>. SUFFICES ASSUME Quiet', NEW q \in Procs PROVE \E c : c = st[q] /\ ~Touches(c)
        BY DEF Quiet
    <2>1. CASE q = p
        <3>1. PICK c : c = st[p] /\ WellRun(c)
            BY DEF DirectoryInv
        <3>2. c = Idle
            BY <1>1, <3>1 DEF WellRun, Busy
        <3>. QED
            BY <2>1, <3>1, <3>2, AtRest
    <2>2. CASE q # p
        <3>1. PICK c, old : c = st'[q] /\ old = st[q] /\ (Touches(old) => Touches(c))
            BY <1>6, <2>2
        <3>2. ~Touches(c)
            BY <3>1, SameScene DEF Quiet
        <3>. QED
            BY <3>1, <3>2
    <2>. QED
        BY <2>1, <2>2
<1>8. ASSUME NEW q \in Procs, NEW o \in Procs, q # o, Busy(q)', Busy(o)' PROVE ~st'[q].alone
    <2>1. CASE q = p
        <3>1. Busy(o)
            <4>1. PICK c, old : c = st'[o] /\ old = st[o] /\ c.pc = old.pc
                BY <1>6, <1>8, <2>1
            <4>. QED
                BY <1>8, <4>1 DEF Busy
        <3>. QED
            BY <1>2, <1>3, <1>4, <2>1, <3>1
    <2>2. CASE q # p
        <3>1. PICK c : c = st'[q] /\ (Busy(q) => ~c.alone) /\ \E old : old = st[q] /\ c.pc = old.pc
            BY <1>6, <2>2
        <3>2. Busy(q)
            BY <1>8, <3>1 DEF Busy
        <3>. QED
            BY <3>1, <3>2
    <2>. QED
        BY <2>1, <2>2
<1>9. BenchInv' /\ FilesInv' /\ ReportInv'
    BY <1>7, BenchStays, ReportStays DEF DirectoryInv, ReportInv
<1>. QED
    BY <1>1, <1>3, <1>5, <1>6, <1>8, <1>9 DEF DirectoryInv

------------------------------------------------------------------------------
(* The steps of a grade *)

\* What is found for a run does not change.
LEMMA SameAnswers ==
    ASSUME scene' = scene
    PROVE  \A r, mode : Answers(r, mode)' = Answers(r, mode)
BY DEF Answers, Deferred

\* A run is graded: its file is written, and the report in memory scores it.
LEMMA GradeRunSteps ==
    ASSUME DirectoryInv, NEW p \in Procs, GradeRun(p)
    PROVE  DirectoryInv'
<1>1. /\ Busy(p) /\ scene' = scene /\ report' = report /\ clean' = clean
      /\ FilesInv /\ ReportInv /\ BenchInv
    BY DEF GradeRun, Busy, DirectoryInv
<1>2. PICK old : old = st[p] /\ WellRun(old) /\ old.pc = "grade" /\ old.at <= NumRuns
    BY DEF DirectoryInv, GradeRun
<1>3. PICK r : r = old.at /\ r \in Runs /\ r \in Nat
    BY <1>2, GradingAssumption DEF WellRun, IsCommand, Runs
<1>4. PICK d : old.doc = {d} /\ WellKept(d)
    BY <1>2 DEF WellRun, IsCommand
<1>5. CASE SkipRun(p, r)
    <2>0. ~Started(r) /\ st' = [st EXCEPT ![p].at = r + 1] /\ UNCHANGED <<files, bench>>
        BY <1>5 DEF SkipRun
    <2>1. PICK new : new = [old EXCEPT !.at = r + 1]
        OBVIOUS
    <2>2. st' = [st EXCEPT ![p] = new]
        BY <1>2, <2>0, <2>1 DEF DirectoryInv
    <2>3. /\ new = [pc |-> "grade", mode |-> old.mode, doc |-> {d}, at |-> r + 1, failed |-> old.failed,
                    ungraded |-> old.ungraded, tally |-> old.tally, alone |-> old.alone]
          /\ new.pc = "grade" /\ new.mode = old.mode /\ new.doc = {d} /\ new.at = r + 1 /\ new.failed = old.failed
          /\ new.ungraded = old.ungraded /\ new.tally = old.tally /\ new.alone = old.alone
        BY <1>2, <1>4, <2>1 DEF WellRun, IsCommand
    <2>4. IsCommand(new)
        <3>1. r + 1 \in 1..(NumRuns + 1)
            BY <1>3, GradingAssumption DEF Runs
        <3>. QED
            BY <1>2, <1>4, <2>3, <3>1, Zenon DEF WellRun, IsCommand
    <2>5. ASSUME new.alone PROVE Undisturbed(new)'
        <3>1. Undisturbed(old)
            BY <1>2, <2>3, <2>5 DEF WellRun
        <3>2. ASSUME NEW q \in 1..(new.at - 1), Started(q)' PROVE Graded(new, d, q)'
            <4>1. q \in 1..(old.at - 1) \/ q = r
                BY <1>3, <2>3
            <4>2. Started(q)
                BY <1>1, <3>2 DEF Started
            <4>3. q \in 1..(old.at - 1)
                BY <2>0, <4>1, <4>2
            <4>4. Graded(old, d, q)
                BY <1>2, <1>4, <3>1, <4>2, <4>3 DEF Undisturbed
            <4>. QED
                BY <2>0, <2>3, <4>4 DEF Graded
        <3>. QED
            BY <2>3, <3>2 DEF Undisturbed
    <2>6. WellRun(new)'
        BY <1>1, <2>3, <2>4, <2>5, SameScene DEF WellRun
    <2>7. Touches(old) => Touches(new)
        BY <1>2, <1>3, <2>3 DEF Touches
    <2>8. Quiet' => Quiet
        BY <1>1, <1>2, <2>2, <2>7, QuietBack
    <2>9. ReportInv' /\ BenchInv' /\ FilesInv'
        BY <1>1, <2>0, <2>8, ReportStays, BenchStays DEF ReportInv
    <2>. QED
        BY <1>1, <1>2, <2>2, <2>3, <2>6, <2>9, CommandSteps
<1>6. ASSUME NEW raw \in Answers(r, old.mode), NEW g, g = Restored(raw), StoreGrading(p, r, g)
      PROVE  DirectoryInv'
    <2>0. /\ Started(r) /\ files' = [files EXCEPT ![r] = {g}]
          /\ st' = [st EXCEPT ![p].at = r + 1,
                              ![p].failed = @ + Count(g, "failed"),
                              ![p].ungraded = SumUngraded(p, g),
                              ![p].doc = {[e EXCEPT !.score[r] = CaseScore(g)] : e \in @}]
          /\ bench' = {[b EXCEPT !.current = FALSE] : b \in bench}
        BY <1>6 DEF StoreGrading
    <2>1. /\ IsFiniteSet(DOMAIN g) /\ DOMAIN g \subseteq AllChecks
          /\ Count(g, "failed") \in Nat /\ Count(g, "ungraded") \in Nat
        <3>1. IsFiniteSet(DOMAIN g) /\ DOMAIN g \subseteq AllChecks
            BY <1>3, <1>6, AnswerFacts
        <3>. QED
            BY <3>1, Counts
    <2>2. PICK e : e = [d EXCEPT !.score[r] = CaseScore(g)]
        OBVIOUS
    <2>3. WellKept(e) /\ e.score[r] = CaseScore(g) /\ \A q \in Runs : q # r => e.score[q] = d.score[q]
        BY <1>3, <1>4, <2>0, <2>2 DEF WellKept
    <2>4. PICK new : new = [old EXCEPT !.at = r + 1, !.failed = @ + Count(g, "failed"),
                                       !.ungraded = @ + Count(g, "ungraded"), !.doc = {e}]
        OBVIOUS
    <2>5. st' = [st EXCEPT ![p] = new]
        <3>1. {[x EXCEPT !.score[r] = CaseScore(g)] : x \in old.doc} = {e}
            BY <1>4, <2>2
        <3>. QED
            BY <1>2, <2>0, <2>4, <3>1 DEF DirectoryInv, SumUngraded
    <2>6. /\ new = [pc |-> "grade", mode |-> old.mode, doc |-> {e}, at |-> r + 1, failed |-> old.failed + Count(g, "failed"),
                    ungraded |-> old.ungraded + Count(g, "ungraded"), tally |-> old.tally, alone |-> old.alone]
          /\ new.pc = "grade" /\ new.mode = old.mode /\ new.doc = {e} /\ new.at = r + 1
          /\ new.failed = old.failed + Count(g, "failed") /\ new.ungraded = old.ungraded + Count(g, "ungraded")
          /\ new.tally = old.tally /\ new.alone = old.alone
        BY <1>2, <2>4 DEF WellRun, IsCommand
    <2>7. IsCommand(new)
        <3>1. old.failed \in Nat /\ old.ungraded \in Nat
            BY <1>2 DEF WellRun, IsCommand
        <3>2. new.failed \in Nat /\ new.ungraded \in Nat
            BY <2>1, <2>6, <3>1
        <3>3. r + 1 \in 1..(NumRuns + 1)
            BY <1>3, GradingAssumption DEF Runs
        <3>. QED
            BY <1>2, <2>3, <2>6, <3>2, <3>3, Zenon DEF WellRun, IsCommand
    <2>8. files'[r] = {g} /\ files' = [q \in Runs |-> files'[q]] /\ \A q \in Runs : q # r => files'[q] = files[q]
        BY <1>1, <1>3, <2>0 DEF FilesInv
    <2>9. ASSUME new.alone PROVE Undisturbed(new)'
        <3>1. Undisturbed(old)
            BY <1>2, <2>6, <2>9 DEF WellRun
        <3>2. ASSUME NEW q \in 1..(new.at - 1), Started(q)' PROVE Graded(new, e, q)'
            <4>1. CASE q = r
                <5>1. new.failed = 0 => Count(g, "failed") = 0
                    BY <1>2, <2>1, <2>6 DEF WellRun, IsCommand
                <5>2. new.ungraded = 0 => Count(g, "ungraded") = 0
                    BY <1>2, <2>1, <2>6 DEF WellRun, IsCommand
                <5>. QED
                    BY <2>3, <2>8, <4>1, <5>1, <5>2 DEF Graded
            <4>2. CASE q # r
                <5>1. q \in 1..(old.at - 1) /\ q \in Runs
                    <6>1. q \in 1..r /\ r \in 1..NumRuns /\ NumRuns \in Nat
                        BY <1>3, <2>6, GradingAssumption DEF Runs
                    <6>. QED
                        BY <1>3, <4>2, <6>1 DEF Runs
                <5>2. Graded(old, d, q)
                    BY <1>1, <1>2, <1>4, <3>1, <3>2, <5>1 DEF Undisturbed, Started
                <5>3. (new.failed = 0 => old.failed = 0) /\ (new.ungraded = 0 => old.ungraded = 0)
                    BY <1>2, <2>1, <2>6 DEF WellRun, IsCommand
                <5>4. files'[q] = files[q] /\ e.score[q] = d.score[q]
                    BY <2>3, <2>8, <4>2, <5>1
                <5>. QED
                    BY <5>2, <5>3, <5>4 DEF Graded
            <4>. QED
                BY <4>1, <4>2
        <3>. QED
            BY <2>6, <3>2 DEF Undisturbed
    <2>10. WellRun(new)'
        BY <1>1, <2>6, <2>7, <2>9, SameScene DEF WellRun
    <2>11. FilesInv'
        <3>1. ASSUME NEW q \in Runs PROVE ~Started(q)' => files'[q] = {}
            BY <1>1, <2>0, <2>8 DEF FilesInv, Started
        <3>2. ASSUME NEW q \in Runs, files'[q] # {}
              PROVE  \E mode \in GraderModes : \E x \in Answers(q, mode)' : files'[q] = {Restored(x)}
            <4>1. CASE q = r
                <5>1. old.mode \in GraderModes
                    BY <1>2 DEF WellRun, IsCommand
                <5>. QED
                    BY <1>1, <1>6, <2>8, <4>1, <5>1, SameAnswers
            <4>2. CASE q # r
                BY <1>1, <2>8, <3>2, <4>2, SameAnswers DEF FilesInv
            <4>. QED
                BY <4>1, <4>2
        <3>. QED
            BY <2>8, <3>1, <3>2 DEF FilesInv
    <2>12. BenchInv'
        <3>. SUFFICES ASSUME NEW x \in bench'
                      PROVE  x = [tally |-> x.tally, current |-> x.current] /\ x.current = FALSE
            BY DEF BenchInv
        <3>1. PICK b \in bench : x = [b EXCEPT !.current = FALSE]
            BY <2>0
        <3>2. b = [tally |-> b.tally, current |-> b.current]
            BY <1>1 DEF BenchInv
        <3>. QED
            BY <3>1, <3>2
    <2>13. ReportInv'
        <3>1. PICK x : x = report /\ WellKept(x)
            BY <1>1 DEF ReportInv
        <3>2. Touches(new)'
            <4>1. r \in 1..(new.at - 1)
                BY <1>3, <2>6 DEF Runs
            <4>. QED
                BY <1>1, <2>0, <2>6, <4>1 DEF Touches, Started
        <3>3. ~Quiet'
            <4>1. st'[p] = new
                BY <2>5 DEF DirectoryInv
            <4>. QED
                BY <3>2, <4>1 DEF Quiet
        <3>. QED
            BY <1>1, <3>1, <3>3, SameScene DEF ReportInv
    <2>. QED
        BY <1>1, <1>2, <2>5, <2>6, <2>10, <2>11, <2>12, <2>13, CommandSteps
<1>7. CASE \E raw \in Answers(r, old.mode) : StoreGrading(p, r, Restored(raw))
    BY <1>6, <1>7
<1>. QED
    BY <1>2, <1>3, <1>5, <1>7 DEF GradeRun

\* What was graded is collected into the report that is to be written.
LEMMA CollectSteps ==
    ASSUME DirectoryInv, NEW p \in Procs, Collect(p)
    PROVE  DirectoryInv'
<1>1. /\ Busy(p) /\ scene' = scene /\ report' = report /\ clean' = clean /\ files' = files /\ bench' = bench
      /\ FilesInv /\ ReportInv
    BY DEF Collect, Busy, DirectoryInv
<1>2. PICK old : old = st[p] /\ WellRun(old) /\ old.pc = "grade" /\ old.at > NumRuns
    BY DEF DirectoryInv, Collect
<1>3. PICK d : old.doc = {d} /\ WellKept(d)
    BY <1>2 DEF WellRun, IsCommand
<1>4. PICK e : e = Collected(d)
    OBVIOUS
<1>5. WellKept(e) /\ e.score = d.score /\ e.published = files /\ e.k = KCounts(e.score)
    BY <1>3, <1>4 DEF WellKept, Collected
<1>6. PICK new : new = [old EXCEPT !.pc = "store", !.doc = {e}]
    OBVIOUS
<1>7. st' = [st EXCEPT ![p] = new]
    <2>1. {Collected(x) : x \in old.doc} = {e}
        BY <1>3, <1>4
    <2>. QED
        BY <1>2, <1>6, <2>1 DEF DirectoryInv, Collect
<1>8. /\ new = [pc |-> "store", mode |-> old.mode, doc |-> {e}, at |-> old.at, failed |-> old.failed,
                ungraded |-> old.ungraded, tally |-> old.tally, alone |-> old.alone]
      /\ new.pc = "store" /\ new.mode = old.mode /\ new.doc = {e} /\ new.at = old.at /\ new.failed = old.failed
      /\ new.ungraded = old.ungraded /\ new.tally = old.tally /\ new.alone = old.alone
    BY <1>2, <1>6 DEF WellRun, IsCommand
<1>9. IsCommand(new)
    <2>1. new.at = NumRuns + 1
        BY <1>2, <1>8, GradingAssumption DEF WellRun, IsCommand
    <2>. QED
        BY <1>2, <1>5, <1>8, <2>1, Zenon DEF WellRun, IsCommand, PCs
<1>10. ASSUME new.alone PROVE Undisturbed(new)'
    <2>1. Undisturbed(old)
        BY <1>2, <1>8, <1>10 DEF WellRun
    <2>2. ASSUME NEW q \in 1..(new.at - 1), Started(q) PROVE Graded(new, e, q)
        <3>1. Graded(old, d, q)
            BY <1>2, <1>3, <1>8, <2>1, <2>2 DEF Undisturbed
        <3>. QED
            BY <1>5, <1>8, <3>1 DEF Graded
    <2>3. ASSUME NEW q \in Runs PROVE e.score[q] = ScoreOf(q)
        <3>1. CASE Started(q)
            <4>1. q \in 1..(new.at - 1)
                BY <1>2, <1>8, GradingAssumption DEF WellRun, IsCommand, Runs
            <4>2. PICK g : files[q] = {g} /\ e.score[q] = CaseScore(g)
                BY <2>2, <3>1, <4>1 DEF Graded
            <4>. QED
                BY <4>2 DEF ScoreOf
        <3>2. CASE ~Started(q)
            BY <1>1, <1>5, <3>2 DEF FilesInv, WellKept, ScoreOf
        <3>. QED
            BY <3>1, <3>2
    <2>4. e.score = [q \in Runs |-> ScoreOf(q)]
        BY <1>5, <2>3 DEF WellKept
    <2>5. Matches(e)
        BY <1>5, <2>3, <2>4 DEF Matches
    <2>6. Matches(e)' /\ \A q \in 1..(new.at - 1) : Started(q)' => Graded(new, e, q)'
        BY <1>1, <2>2, <2>5, SameFiles DEF Started
    <2>. QED
        BY <1>8, <2>6 DEF Undisturbed
<1>11. WellRun(new)'
    BY <1>1, <1>8, <1>9, <1>10, SameScene DEF WellRun
<1>12. Touches(old) => Touches(new)
    BY <1>8 DEF Touches
<1>13. ReportInv' /\ BenchInv' /\ FilesInv'
    BY <1>1, <1>2, <1>7, <1>12, QuietBack, ReportStays, BenchStays DEF ReportInv
<1>. QED
    BY <1>1, <1>2, <1>7, <1>8, <1>11, <1>13, CommandSteps

\* A command is over.
LEMMA EndingSteps ==
    ASSUME DirectoryInv, NEW p \in Procs, Busy(p), Ends(p), scene' = scene, FilesInv', BenchInv', ReportInv'
    PROVE  DirectoryInv'
<1>1. st' = [st EXCEPT ![p] = Idle]
    BY DEF Ends
<1>2. WellRun(Idle)'
    BY AtRest, SameScene DEF WellRun, Undisturbed
<1>. QED
    BY <1>1, <1>2, CommandSteps

\* The report of a grade is written.
LEMMA StoreReportSteps ==
    ASSUME DirectoryInv, NEW p \in Procs, StoreReport(p)
    PROVE  DirectoryInv'
<1>1. /\ Busy(p) /\ scene' = scene /\ clean' = st[p].alone /\ files' = files /\ bench' = bench /\ Ends(p)
      /\ st[p].pc = "store"
    BY DEF StoreReport, Busy
<1>2. PICK old : old = st[p] /\ WellRun(old)
    BY DEF DirectoryInv
<1>3. PICK d : old.doc = {d} /\ WellKept(d) /\ report' = d
    BY <1>1, <1>2 DEF WellRun, IsCommand, StoreReport
<1>4. old.alone => Matches(d)
    BY <1>1, <1>2, <1>3 DEF WellRun, Undisturbed
<1>5. WellKept(d)' /\ (Matches(d) => Matches(d)')
    BY <1>1, <1>3, SameScene, SameFiles
<1>6. ReportInv'
    <2>1. old.alone \in BOOLEAN
        BY <1>2 DEF WellRun, IsCommand
    <2>. QED
        BY <1>1, <1>2, <1>3, <1>4, <1>5, <2>1 DEF ReportInv
<1>. QED
    BY <1>1, <1>6, BenchStays, EndingSteps

\* A command breaks off.
LEMMA StopSteps ==
    ASSUME DirectoryInv, NEW p \in Procs, Stop(p)
    PROVE  DirectoryInv'
<1>1. /\ Busy(p) /\ scene' = scene /\ files' = files /\ report' = report /\ bench' = bench /\ Ends(p)
      /\ clean' = (clean /\ (st[p].pc \in {"grade", "store"} => \A r \in 1..(st[p].at - 1) : ~Started(r)))
    BY DEF Stop
<1>2. PICK old : old = st[p]
    OBVIOUS
<1>3. clean' => clean /\ ~Touches(old)
    BY <1>1, <1>2 DEF Touches
<1>4. clean' \in BOOLEAN
    BY <1>1
<1>5. clean' /\ Quiet' => Quiet
    <2>1. st' = [st EXCEPT ![p] = Idle]
        BY <1>1 DEF Ends
    <2>. QED
        BY <1>1, <1>2, <1>3, <2>1, QuietBack
<1>6. ReportInv' /\ BenchInv' /\ FilesInv'
    BY <1>1, <1>3, <1>4, <1>5, ReportStays, BenchStays
<1>. QED
    BY <1>1, <1>6, EndingSteps

------------------------------------------------------------------------------
(* The steps of a benchmark and of a comparison *)

\* What is counted of one more run.
LEMMA OneMore ==
    ASSUME NEW S, NEW F, NEW x, NEW G, IsFiniteSet(S), IsFiniteSet(F), G = {x} \X ({"run"} \X F), S \cap G = {}
    PROVE  IsFiniteSet(S \cup G) /\ Cardinality(S \cup G) = Cardinality(S) + Cardinality(F)
<1>1. IsFiniteSet({"run"} \X F) /\ Cardinality({"run"} \X F) = Cardinality(F)
    BY Tagged
<1>2. IsFiniteSet(G) /\ Cardinality(G) = Cardinality(F)
    BY <1>1, Tagged
<1>3. /\ IsFiniteSet(S \cup G)
      /\ Cardinality(S \cup G) = Cardinality(S) + Cardinality(G) - Cardinality(S \cap G)
    BY <1>2, FS_Union
<1>4. Cardinality(S \cap G) = 0 /\ Cardinality(S) \in Nat /\ Cardinality(G) \in Nat
    BY <1>2, FS_EmptySet, FS_CardinalityType
<1>5. PICK s \in Nat, f \in Nat : s = Cardinality(S) /\ f = Cardinality(G)
    BY <1>4
<1>6. Cardinality(S \cup G) = s + f
    BY <1>3, <1>4, <1>5
<1>. QED
    BY <1>2, <1>3, <1>5, <1>6

\* What Measure finds of a run.
FoundOf(r) == IF scene.status[r] = "completed" THEN Sample(r) ELSE {}

\* What a benchmark finds of a run is what the gate counts of it.
LEMMA MeasuredAsGated ==
    ASSUME FilesInv, NEW n \in Runs, \A r \in Runs : scene.own[r] = {}, NEW o,
           IsFiniteSet(Gated(o, n - 1))
    PROVE  /\ IsFiniteSet(Gated(o, n))
           /\ Cardinality(Gated(o, n)) = Cardinality(Gated(o, n - 1)) + Cardinality(Found(FoundOf(n), o))
           /\ Cardinality(Found(FoundOf(n), o)) \in Nat
<1>1. Found({}, o) = {}
    BY DEF Found
<1>2. IsFiniteSet(Found(files[n], o))
    <2>1. CASE files[n] = {}
        BY <1>1, <2>1, FS_EmptySet
    <2>2. CASE files[n] # {}
        <3>1. PICK mode \in GraderModes, raw \in UNION {Answers(n, m) : m \in GraderModes} :
                 raw \in Answers(n, mode) /\ files[n] = {Restored(raw)}
            BY <2>2 DEF FilesInv
        <3>2. PICK g : g = Restored(raw) /\ files[n] = {g}
            BY <3>1
        <3>3. IsFiniteSet(DOMAIN g) /\ DOMAIN g \subseteq AllChecks
            BY <3>1, <3>2, AnswerFacts
        <3>. QED
            BY <3>2, <3>3, Counts
    <2>. QED
        BY <2>1, <2>2
<1>3. Assertions(n, o) = {"run"} \X Found(files[n], o)
    BY <1>1 DEF Assertions
<1>4. n \in 1..NumRuns /\ NumRuns \in Nat /\ \A q \in Runs : q <= n <=> q <= n - 1 \/ q = n
    BY GradingAssumption DEF Runs
<1>5. CASE n \in Completed
    <2>1. FoundOf(n) = files[n]
        BY <1>5 DEF FoundOf, Sample, Completed
    <2>2. Gated(o, n) = Gated(o, n - 1) \cup ({n} \X ({"run"} \X Found(files[n], o)))
        <3>1. {q \in Completed : q <= n} = {q \in Completed : q <= n - 1} \cup {n}
            BY <1>4, <1>5 DEF Completed
        <3>2. \A A, B : UNION {{r} \X Assertions(r, o) : r \in A \cup B}
                          = (UNION {{r} \X Assertions(r, o) : r \in A}) \cup (UNION {{r} \X Assertions(r, o) : r \in B})
            OBVIOUS
        <3>3. UNION {{r} \X Assertions(r, o) : r \in {n}} = {n} \X Assertions(n, o)
            OBVIOUS
        <3>. QED
            BY <1>3, <3>1, <3>2, <3>3 DEF Gated
    <2>3. \A y \in Gated(o, n - 1) : y[1] # n
        <3>1. SUFFICES ASSUME NEW r \in {q \in Completed : q <= n - 1}, NEW y \in {r} \X Assertions(r, o)
                       PROVE  y[1] # n
            BY DEF Gated
        <3>2. y[1] = r
            OBVIOUS
        <3>3. r # n
            BY <1>4, <3>1
        <3>. QED
            BY <3>2, <3>3
    <2>. QED
        <3>1. /\ IsFiniteSet(Gated(o, n))
              /\ Cardinality(Gated(o, n)) = Cardinality(Gated(o, n - 1)) + Cardinality(Found(files[n], o))
            <4>1. PICK S, F, G : S = Gated(o, n - 1) /\ F = Found(files[n], o) /\ G = {n} \X ({"run"} \X F)
                OBVIOUS
            <4>2. IsFiniteSet(S) /\ IsFiniteSet(F) /\ S \cap G = {}
                BY <1>2, <2>3, <4>1
            <4>3. IsFiniteSet(S \cup G) /\ Cardinality(S \cup G) = Cardinality(S) + Cardinality(F)
                BY <4>1, <4>2, OneMore
            <4>. QED
                BY <2>2, <4>1, <4>3
        <3>2. Cardinality(Found(files[n], o)) \in Nat
            BY <1>2, FS_CardinalityType
        <3>. QED
            BY <2>1, <3>1, <3>2
<1>6. CASE n \notin Completed
    <2>1. FoundOf(n) = {}
        BY <1>6 DEF FoundOf, Completed
    <2>2. {q \in Completed : q <= n} = {q \in Completed : q <= n - 1}
        BY <1>4, <1>6 DEF Completed
    <2>3. Gated(o, n) = Gated(o, n - 1)
        BY <2>2 DEF Gated
    <2>4. Cardinality(Gated(o, n - 1)) \in Nat
        BY FS_CardinalityType
    <2>. QED
        BY <1>1, <2>1, <2>3, <2>4, FS_EmptySet
<1>. QED
    BY <1>5, <1>6

\* So of the runs that have no grading.
LEMMA MissedAsGated ==
    ASSUME NEW n \in Runs, \A r \in Runs : scene.own[r] = {}
    PROVE  /\ Cardinality(MissingOf(n - 1)) \in Nat
           /\ Cardinality(MissingOf(n)) =
                 Cardinality(MissingOf(n - 1)) + IF scene.status[n] = "completed" /\ FoundOf(n) = {} THEN 1 ELSE 0
<1>1. n \in 1..NumRuns /\ NumRuns \in Nat /\ \A q \in Runs : q <= n <=> q <= n - 1 \/ q = n
    BY GradingAssumption DEF Runs
<1>2. MissingOf(n - 1) \in SUBSET (1..NumRuns) /\ IsFiniteSet(1..NumRuns)
    BY <1>1, FS_Interval DEF MissingOf, Completed, Runs
<1>3. IsFiniteSet(MissingOf(n - 1)) /\ Cardinality(MissingOf(n - 1)) \in Nat
    BY <1>2, FS_Subset, FS_CardinalityType
<1>4. n \notin MissingOf(n - 1)
    BY <1>1 DEF MissingOf, Completed
<1>5. CASE scene.status[n] = "completed" /\ FoundOf(n) = {}
    <2>1. n \in Completed /\ files[n] = {}
        BY <1>5 DEF FoundOf, Sample, Completed
    <2>2. MissingOf(n) = MissingOf(n - 1) \cup {n}
        BY <1>1, <2>1 DEF MissingOf, Completed
    <2>. QED
        BY <1>3, <1>4, <1>5, <2>2, FS_AddElement
<1>6. CASE ~(scene.status[n] = "completed" /\ FoundOf(n) = {})
    <2>1. n \notin Completed \/ files[n] # {}
        BY <1>6 DEF FoundOf, Sample, Completed
    <2>2. MissingOf(n) = MissingOf(n - 1)
        BY <1>1, <2>1 DEF MissingOf, Completed
    <2>. QED
        BY <1>3, <1>6, <2>2
<1>. QED
    BY <1>5, <1>6

\* One more run is measured.
LEMMA MeasureSteps ==
    ASSUME DirectoryInv, NEW p \in Procs, Measure(p)
    PROVE  DirectoryInv'
<1>1. /\ Busy(p) /\ scene' = scene /\ report' = report /\ clean' = clean /\ files' = files /\ bench' = bench
      /\ FilesInv /\ ReportInv
    BY DEF Measure, Busy, DirectoryInv
<1>2. PICK old : old = st[p] /\ WellRun(old) /\ old.pc = "measure" /\ old.at <= NumRuns
    BY DEF DirectoryInv, Measure
<1>3. PICK n : n = old.at /\ n \in Runs /\ n \in Nat
    BY <1>2, GradingAssumption DEF WellRun, IsCommand, Runs
<1>4. PICK t : t = [passed |-> old.tally.passed + Cardinality(Found(FoundOf(n), "passed")),
                    failed |-> old.tally.failed + Cardinality(Found(FoundOf(n), "failed")),
                    missing |-> old.tally.missing + IF scene.status[n] = "completed" /\ FoundOf(n) = {} THEN 1 ELSE 0]
    OBVIOUS
<1>5. PICK new : new = [old EXCEPT !.at = n + 1, !.tally = t]
    OBVIOUS
<1>6. st' = [st EXCEPT ![p] = new]
    <2>1. st' = [st EXCEPT ![p].at = n + 1, ![p].tally = t]
        BY <1>2, <1>3, <1>4 DEF Measure, FoundOf, FailedOf
    <2>. QED
        BY <1>2, <1>5, <2>1 DEF DirectoryInv
<1>7. /\ new = [pc |-> "measure", mode |-> old.mode, doc |-> old.doc, at |-> n + 1, failed |-> old.failed,
                ungraded |-> old.ungraded, tally |-> t, alone |-> old.alone]
      /\ new.pc = "measure" /\ new.mode = old.mode /\ new.doc = old.doc /\ new.at = n + 1 /\ new.failed = old.failed
      /\ new.ungraded = old.ungraded /\ new.tally = t /\ new.alone = old.alone
    BY <1>2, <1>5 DEF WellRun, IsCommand
<1>8. IsCommand(new)
    <2>1. n + 1 \in 1..(NumRuns + 1) /\ IsTally(t)
        BY <1>3, <1>4, GradingAssumption DEF Runs, IsTally
    <2>. QED
        BY <1>2, <1>7, <2>1, Zenon DEF WellRun, IsCommand
<1>9. ASSUME new.alone PROVE Undisturbed(new)'
    <2>1. Tallied(old.tally, n - 1)
        BY <1>2, <1>3, <1>7, <1>9 DEF WellRun, Undisturbed
    <2>2. Tallied(t, n)
        <3>. SUFFICES ASSUME \A r \in Runs : scene.own[r] = {}
                      PROVE  /\ IsFiniteSet(Gated("passed", n)) /\ IsFiniteSet(Gated("failed", n))
                             /\ t.passed = Cardinality(Gated("passed", n))
                             /\ t.failed = Cardinality(Gated("failed", n))
                             /\ t.missing = Cardinality(MissingOf(n))
            BY DEF Tallied
        <3>1. /\ IsFiniteSet(Gated("passed", n - 1)) /\ IsFiniteSet(Gated("failed", n - 1))
              /\ old.tally.passed = Cardinality(Gated("passed", n - 1))
              /\ old.tally.failed = Cardinality(Gated("failed", n - 1))
              /\ old.tally.missing = Cardinality(MissingOf(n - 1))
            BY <2>1 DEF Tallied
        <3>2. /\ IsFiniteSet(Gated("passed", n))
              /\ Cardinality(Gated("passed", n)) = old.tally.passed + Cardinality(Found(FoundOf(n), "passed"))
            BY <1>1, <1>3, <3>1, MeasuredAsGated
        <3>3. /\ IsFiniteSet(Gated("failed", n))
              /\ Cardinality(Gated("failed", n)) = old.tally.failed + Cardinality(Found(FoundOf(n), "failed"))
            BY <1>1, <1>3, <3>1, MeasuredAsGated
        <3>4. Cardinality(MissingOf(n)) =
                 old.tally.missing + IF scene.status[n] = "completed" /\ FoundOf(n) = {} THEN 1 ELSE 0
            BY <1>3, <3>1, MissedAsGated
        <3>. QED
            BY <1>4, <3>2, <3>3, <3>4
    <2>3. Tallied(t, n)' /\ new.at - 1 = n
        BY <1>1, <1>3, <1>7, <2>2, SameFiles
    <2>. QED
        BY <1>7, <2>3 DEF Undisturbed
<1>10. WellRun(new)'
    BY <1>1, <1>7, <1>8, <1>9, SameScene DEF WellRun
<1>11. ~Touches(old)
    BY <1>2 DEF Touches
<1>12. ReportInv' /\ BenchInv' /\ FilesInv'
    BY <1>1, <1>2, <1>6, <1>11, QuietBack, ReportStays, BenchStays DEF ReportInv
<1>. QED
    BY <1>1, <1>2, <1>6, <1>7, <1>10, <1>12, CommandSteps

\* The report is read again for the summary.
LEMMA ReadToSyncSteps ==
    ASSUME DirectoryInv, NEW p \in Procs, ReadToSync(p)
    PROVE  DirectoryInv'
<1>1. /\ Busy(p) /\ scene' = scene /\ report' = report /\ clean' = clean /\ files' = files /\ bench' = bench
      /\ ReportInv
    BY DEF ReadToSync, Busy, DirectoryInv
<1>2. PICK old : old = st[p] /\ WellRun(old) /\ old.pc = "measure" /\ old.at > NumRuns
    BY DEF DirectoryInv, ReadToSync
<1>3. PICK d : d = report /\ WellKept(d)
    BY <1>1 DEF ReportInv
<1>4. PICK new : new = [old EXCEPT !.pc = "sync", !.doc = {d}]
    OBVIOUS
<1>5. st' = [st EXCEPT ![p] = new]
    BY <1>2, <1>3, <1>4 DEF DirectoryInv, ReadToSync
<1>6. /\ new = [pc |-> "sync", mode |-> old.mode, doc |-> {d}, at |-> old.at, failed |-> old.failed,
                ungraded |-> old.ungraded, tally |-> old.tally, alone |-> old.alone]
      /\ new.pc = "sync" /\ new.mode = old.mode /\ new.doc = {d} /\ new.at = old.at /\ new.failed = old.failed
      /\ new.ungraded = old.ungraded /\ new.tally = old.tally /\ new.alone = old.alone
    BY <1>2, <1>4 DEF WellRun, IsCommand
<1>7. IsCommand(new)
    <2>1. new.at = NumRuns + 1
        BY <1>2, <1>6, GradingAssumption DEF WellRun, IsCommand
    <2>. QED
        BY <1>2, <1>3, <1>6, <2>1, Zenon DEF WellRun, IsCommand, PCs
<1>8. ASSUME new.alone PROVE Undisturbed(new)'
    <2>1. Tallied(new.tally, new.at - 1)
        BY <1>2, <1>6, <1>8 DEF WellRun, Undisturbed
    <2>2. Tallied(new.tally, new.at - 1)' /\ new.doc = {report'}
        BY <1>1, <1>3, <1>6, <2>1, SameFiles
    <2>. QED
        BY <1>6, <2>2 DEF Undisturbed
<1>9. WellRun(new)'
    BY <1>1, <1>6, <1>7, <1>8, SameScene DEF WellRun
<1>10. ~Touches(old)
    BY <1>2 DEF Touches
<1>11. ReportInv' /\ BenchInv' /\ FilesInv'
    BY <1>1, <1>2, <1>5, <1>10, QuietBack, ReportStays, BenchStays DEF ReportInv
<1>. QED
    BY <1>1, <1>2, <1>5, <1>6, <1>9, <1>11, CommandSteps

\* A report with another summary, or with a comparison, scores what it scored.
LEMMA Rewritten ==
    ASSUME NEW d, WellKept(d)
    PROVE  /\ \A t : LET e == [d EXCEPT !.summary = {t}] IN
                   WellKept(e) /\ e.score = d.score /\ e.published = d.published /\ e.k = d.k
           /\ LET e == [d EXCEPT !.compared = TRUE] IN
                   WellKept(e) /\ e.score = d.score /\ e.published = d.published /\ e.k = d.k
<1>1. d = [score |-> d.score, published |-> d.published, k |-> d.k, compared |-> d.compared, summary |-> d.summary]
    BY DEF WellKept
<1>2. ASSUME NEW e, NEW compared, NEW summary,
             e = [score |-> d.score, published |-> d.published, k |-> d.k, compared |-> compared, summary |-> summary]
      PROVE  WellKept(e) /\ e.score = d.score /\ e.published = d.published /\ e.k = d.k
    <2>1. /\ e.score = d.score /\ e.published = d.published /\ e.k = d.k
          /\ e = [score |-> e.score, published |-> e.published, k |-> e.k, compared |-> e.compared, summary |-> e.summary]
        BY <1>2
    <2>. QED
        BY <2>1 DEF WellKept
<1>3. ASSUME NEW t
      PROVE  LET e == [d EXCEPT !.summary = {t}] IN
             WellKept(e) /\ e.score = d.score /\ e.published = d.published /\ e.k = d.k
    <2>1. PICK e : e = [d EXCEPT !.summary = {t}]
        OBVIOUS
    <2>2. e = [score |-> d.score, published |-> d.published, k |-> d.k, compared |-> d.compared, summary |-> {t}]
        BY <1>1, <2>1
    <2>3. WellKept(e) /\ e.score = d.score /\ e.published = d.published /\ e.k = d.k
        BY <1>2, <2>2
    <2>. QED
        BY <2>1, <2>3
<1>4. LET e == [d EXCEPT !.compared = TRUE] IN
      WellKept(e) /\ e.score = d.score /\ e.published = d.published /\ e.k = d.k
    <2>1. PICK e : e = [d EXCEPT !.compared = TRUE]
        OBVIOUS
    <2>2. e = [score |-> d.score, published |-> d.published, k |-> d.k, compared |-> TRUE, summary |-> d.summary]
        BY <1>1, <2>1
    <2>3. WellKept(e) /\ e.score = d.score /\ e.published = d.published /\ e.k = d.k
        BY <1>2, <2>2
    <2>. QED
        BY <2>1, <2>3
<1>. QED
    BY <1>3, <1>4

\* A report that is written again with a summary or a comparison says of the
\* files what it said.
LEMMA RewritesReport ==
    ASSUME DirectoryInv, NEW p \in Procs, scene' = scene, files' = files,
           NEW old, old = st[p], WellRun(old), old.pc \in {"sync", "judge"},
           NEW d, d \in old.doc, NEW e, report' = e, WellKept(d) => WellKept(e),
           e.score = d.score, e.published = d.published, e.k = d.k,
           clean' = (clean /\ old.alone), Quiet' => Quiet
    PROVE  ReportInv'
<1>1. PICK x : x = report /\ WellKept(x) /\ (clean /\ Quiet => Matches(x))
    BY DEF DirectoryInv, ReportInv
<1>2. WellKept(d)
    BY DEF WellRun, IsCommand
<1>3. old.alone => d = x
    BY <1>1 DEF WellRun, Undisturbed
<1>4. clean' /\ Quiet' => Matches(e)
    BY <1>1, <1>3 DEF Matches
<1>5. WellKept(e)' /\ (Matches(e) => Matches(e)')
    BY <1>2, SameScene, SameFiles
<1>6. clean' \in BOOLEAN
    BY DEF WellRun, IsCommand
<1>. QED
    BY <1>4, <1>5, <1>6 DEF ReportInv

\* The summary is written into the report.
LEMMA SyncSummarySteps ==
    ASSUME DirectoryInv, NEW p \in Procs, SyncSummary(p)
    PROVE  DirectoryInv'
<1>1. /\ Busy(p) /\ scene' = scene /\ clean' = (clean /\ st[p].alone) /\ files' = files /\ bench' = bench
    BY DEF SyncSummary, Busy
<1>2. PICK old : old = st[p] /\ WellRun(old) /\ old.pc = "sync"
    BY DEF DirectoryInv, SyncSummary
<1>3. PICK d : old.doc = {d} /\ WellKept(d) /\ report' = [d EXCEPT !.summary = {old.tally}]
    BY <1>2 DEF WellRun, IsCommand, SyncSummary
<1>4. PICK e : e = report' /\ WellKept(e) /\ e.score = d.score /\ e.published = d.published /\ e.k = d.k
    BY <1>3, Rewritten
<1>5. PICK new : new = [old EXCEPT !.pc = "bench"]
    OBVIOUS
<1>6. st' = [st EXCEPT ![p] = new]
    BY <1>2, <1>5 DEF DirectoryInv, SyncSummary
<1>7. /\ new = [pc |-> "bench", mode |-> old.mode, doc |-> old.doc, at |-> old.at, failed |-> old.failed,
                ungraded |-> old.ungraded, tally |-> old.tally, alone |-> old.alone]
      /\ new.pc = "bench" /\ new.mode = old.mode /\ new.doc = old.doc /\ new.at = old.at /\ new.failed = old.failed
      /\ new.ungraded = old.ungraded /\ new.tally = old.tally /\ new.alone = old.alone
    BY <1>2, <1>5 DEF WellRun, IsCommand
<1>8. IsCommand(new)
    BY <1>2, <1>7, Zenon DEF WellRun, IsCommand, PCs
<1>9. ASSUME new.alone PROVE Undisturbed(new)'
    <2>1. Tallied(new.tally, new.at - 1)
        BY <1>2, <1>7, <1>9 DEF WellRun, Undisturbed
    <2>2. Tallied(new.tally, new.at - 1)'
        BY <1>1, <2>1, SameFiles
    <2>. QED
        BY <1>7, <2>2 DEF Undisturbed
<1>10. WellRun(new)'
    BY <1>1, <1>7, <1>8, <1>9, SameScene DEF WellRun
<1>11. ~Touches(old)
    BY <1>2 DEF Touches
<1>12. Quiet' => Quiet
    BY <1>1, <1>2, <1>6, <1>11, QuietBack
<1>13. ReportInv'
    BY <1>1, <1>2, <1>3, <1>4, <1>12, RewritesReport, ZenonT(60)
<1>. QED
    BY <1>1, <1>2, <1>6, <1>7, <1>10, <1>13, BenchStays, CommandSteps

\* A comparison is merged into the report it read.
LEMMA MergeSteps ==
    ASSUME DirectoryInv, NEW p \in Procs, MergeComparisons(p)
    PROVE  DirectoryInv'
<1>1. /\ Busy(p) /\ scene' = scene /\ clean' = (clean /\ st[p].alone) /\ files' = files /\ bench' = bench /\ Ends(p)
    BY DEF MergeComparisons, Busy
<1>2. PICK old : old = st[p] /\ WellRun(old) /\ old.pc = "judge"
    BY DEF DirectoryInv, MergeComparisons
<1>3. PICK d : old.doc = {d} /\ WellKept(d) /\ report' = [d EXCEPT !.compared = TRUE]
    BY <1>2 DEF WellRun, IsCommand, MergeComparisons
<1>4. PICK e : e = report' /\ WellKept(e) /\ e.score = d.score /\ e.published = d.published /\ e.k = d.k
    BY <1>3, Rewritten
<1>5. ~Touches(old)
    BY <1>2 DEF Touches
<1>6. Quiet' => Quiet
    <2>1. st' = [st EXCEPT ![p] = Idle]
        BY <1>1 DEF Ends
    <2>. QED
        BY <1>1, <1>2, <1>5, <2>1, QuietBack
<1>7. ReportInv'
    BY <1>1, <1>2, <1>3, <1>4, <1>6, RewritesReport
<1>. QED
    BY <1>1, <1>7, BenchStays, EndingSteps

\* benchmark.json is written with what was counted.
LEMMA WriteBenchmarkSteps ==
    ASSUME DirectoryInv, NEW p \in Procs, WriteBenchmark(p)
    PROVE  DirectoryInv'
<1>1. /\ Busy(p) /\ scene' = scene /\ clean' = clean /\ files' = files /\ report' = report /\ Ends(p)
      /\ st[p].pc = "bench" /\ ReportInv
    BY DEF WriteBenchmark, Busy, DirectoryInv
<1>2. PICK old : old = st[p] /\ WellRun(old) /\ old.pc = "bench"
    BY <1>1 DEF DirectoryInv
<1>3. old.at - 1 = NumRuns /\ old.alone \in BOOLEAN
    BY <1>2, GradingAssumption DEF WellRun, IsCommand
<1>4. old.alone => Tallied(old.tally, NumRuns)
    BY <1>2, <1>3 DEF WellRun, Undisturbed
<1>5. PICK b : b = [tally |-> old.tally, current |-> old.alone] /\ bench' = {b}
    BY <1>2 DEF WriteBenchmark
<1>6. b.current => Tallied(b.tally, NumRuns)'
    BY <1>1, <1>4, <1>5, SameFiles
<1>7. BenchInv'
    BY <1>3, <1>5, <1>6 DEF BenchInv
<1>8. ~Touches(old)
    BY <1>2 DEF Touches
<1>9. ReportInv'
    <2>1. st' = [st EXCEPT ![p] = Idle]
        BY <1>1 DEF Ends
    <2>. QED
        BY <1>1, <1>2, <1>8, <2>1, QuietBack, ReportStays DEF ReportInv
<1>10. FilesInv'
    BY <1>1, SameFiles DEF DirectoryInv
<1>. QED
    BY <1>1, <1>7, <1>9, <1>10, EndingSteps

------------------------------------------------------------------------------
(* All commands *)

\* Nothing was graded, counted or begun at first.
LEMMA DirectoryStarts == Init => DirectoryInv
<1>. SUFFICES ASSUME Init PROVE DirectoryInv
    OBVIOUS
<1>1. PICK d : d = report /\ d = [score |-> NoScores, published |-> NoScores, k |-> KCounts(NoScores),
                                  compared |-> FALSE, summary |-> {}]
    BY DEF Init
<1>2. WellKept(d)
    BY <1>1 DEF WellKept, NoScores
<1>3. files = [r \in Runs |-> {}] /\ bench = {} /\ clean = TRUE /\ st = [p \in Procs |-> Idle] /\ scene \in Scenes
    BY DEF Init, NoScores
<1>4. FilesInv
    BY <1>3 DEF FilesInv
<1>5. Matches(d)
    <2>1. \A r \in Runs : ScoreOf(r) = {}
        BY <1>3 DEF ScoreOf
    <2>2. [r \in Runs |-> ScoreOf(r)] = NoScores
        BY <2>1 DEF NoScores
    <2>. QED
        <3>1. d.score = NoScores /\ d.published = NoScores /\ d.k = KCounts(NoScores)
            BY <1>1
        <3>2. NoScores = files /\ \A r \in Runs : NoScores[r] = {}
            BY <1>3 DEF NoScores
        <3>. QED
            BY <2>1, <2>2, <3>1, <3>2 DEF Matches
<1>6. \A p \in Procs : \E c : c = st[p] /\ WellRun(c)
    BY <1>3, AtRest
<1>7. \A p \in Procs : ~Busy(p)
    BY <1>3, AtRest DEF Busy
<1>. QED
    BY <1>1, <1>2, <1>3, <1>4, <1>5, <1>6, <1>7 DEF DirectoryInv, BenchInv, ReportInv

\* A command at rest has no mode and holds no report.
LEMMA IdleIsBare ==
    /\ \A pc : [Idle EXCEPT !.pc = pc] = [Idle EXCEPT !.pc = pc, !.mode = "none", !.doc = {}]
    /\ \A pc, doc : [Idle EXCEPT !.pc = pc, !.doc = doc] = [Idle EXCEPT !.pc = pc, !.mode = "none", !.doc = doc]
<1>1. PICK t : t = NoTally
    OBVIOUS
<1>2. Idle = [pc |-> "idle", mode |-> "none", doc |-> {}, at |-> 1, failed |-> 0, ungraded |-> 0,
              tally |-> t, alone |-> TRUE]
    BY <1>1 DEF Idle
<1>3. ASSUME NEW pc, NEW doc
      PROVE  [Idle EXCEPT !.pc = pc, !.doc = doc] = [Idle EXCEPT !.pc = pc, !.mode = "none", !.doc = doc]
    <2>1. PICK c, e : c = [Idle EXCEPT !.pc = pc, !.doc = doc] /\ e = [Idle EXCEPT !.pc = pc, !.mode = "none", !.doc = doc]
        OBVIOUS
    <2>2. c = [pc |-> pc, mode |-> "none", doc |-> doc, at |-> 1, failed |-> 0, ungraded |-> 0,
               tally |-> t, alone |-> TRUE]
        BY <1>2, <2>1
    <2>3. e = [pc |-> pc, mode |-> "none", doc |-> doc, at |-> 1, failed |-> 0, ungraded |-> 0,
               tally |-> t, alone |-> TRUE]
        BY <1>2, <2>1
    <2>. QED
        BY <2>1, <2>2, <2>3
<1>4. ASSUME NEW pc PROVE [Idle EXCEPT !.pc = pc] = [Idle EXCEPT !.pc = pc, !.doc = {}]
    <2>1. PICK c, e : c = [Idle EXCEPT !.pc = pc] /\ e = [Idle EXCEPT !.pc = pc, !.doc = {}]
        OBVIOUS
    <2>2. c = [pc |-> pc, mode |-> "none", doc |-> {}, at |-> 1, failed |-> 0, ungraded |-> 0,
               tally |-> t, alone |-> TRUE]
        BY <1>2, <2>1
    <2>3. e = [pc |-> pc, mode |-> "none", doc |-> {}, at |-> 1, failed |-> 0, ungraded |-> 0,
               tally |-> t, alone |-> TRUE]
        BY <1>2, <2>1
    <2>. QED
        BY <2>1, <2>2, <2>3
<1>. QED
    BY <1>3, <1>4

\* What commands begin with.
LEMMA OpeningSteps ==
    ASSUME DirectoryInv, NEW p \in Procs, OpenGrade(p) \/ OpenBenchmark(p) \/ OpenCompare(p)
    PROVE  DirectoryInv'
<1>1. CASE OpenGrade(p)
    <2>1. PICK mode \in Modes : Begins(p, [Idle EXCEPT !.pc = "grade", !.mode = mode, !.doc = {report}])
        BY <1>1 DEF OpenGrade
    <2>2. PICK doc, command : doc = {report} /\ command = [Idle EXCEPT !.pc = "grade", !.mode = mode, !.doc = doc]
                              /\ Begins(p, command)
        BY <2>1
    <2>3. mode \in GraderModes /\ UNCHANGED <<scene, files, report, bench, clean>>
        BY <1>1, <2>1, GradingAssumption DEF OpenGrade
    <2>. QED
        BY <2>2, <2>3, BeginningSteps
<1>2. CASE OpenBenchmark(p)
    <2>1. PICK command : command = [Idle EXCEPT !.pc = "measure"] /\ Begins(p, command)
        BY <1>2 DEF OpenBenchmark
    <2>2. command = [Idle EXCEPT !.pc = "measure", !.mode = "none", !.doc = {}]
        BY <2>1, IdleIsBare
    <2>3. UNCHANGED <<scene, files, report, bench, clean>>
        BY <1>2 DEF OpenBenchmark
    <2>. QED
        BY <2>1, <2>2, <2>3, BeginningSteps
<1>3. CASE OpenCompare(p)
    <2>1. PICK doc, command : doc = {report} /\ command = [Idle EXCEPT !.pc = "judge", !.doc = doc]
                              /\ Begins(p, command)
        BY <1>3 DEF OpenCompare
    <2>2. command = [Idle EXCEPT !.pc = "judge", !.mode = "none", !.doc = doc]
        BY <2>1, IdleIsBare
    <2>3. UNCHANGED <<scene, files, report, bench, clean>>
        BY <1>3 DEF OpenCompare
    <2>. QED
        BY <2>1, <2>2, <2>3, BeginningSteps
<1>. QED
    BY <1>1, <1>2, <1>3

\* Every step keeps the invariant.
LEMMA DirectorySteps == DirectoryInv /\ [Next]_vars => DirectoryInv'
<1>. SUFFICES ASSUME DirectoryInv, [Next]_vars PROVE DirectoryInv'
    OBVIOUS
<1>1. CASE UNCHANGED vars
    <2>1. scene' = scene /\ files' = files /\ report' = report /\ bench' = bench /\ st' = st /\ clean' = clean
        BY <1>1 DEF vars
    <2>2. Quiet' => Quiet
        BY <2>1, SameScene DEF Quiet
    <2>3. ReportInv' /\ BenchInv' /\ FilesInv'
        BY <2>1, <2>2, ReportStays, BenchStays DEF DirectoryInv, ReportInv
    <2>4. ASSUME NEW p \in Procs PROVE \E c : c = st'[p] /\ WellRun(c)'
        <3>1. PICK c : c = st[p] /\ WellRun(c)
            BY DEF DirectoryInv
        <3>2. c.alone => Undisturbed(c)'
            <4>. SUFFICES ASSUME Undisturbed(c) PROVE Undisturbed(c)'
                BY <3>1 DEF WellRun
            <4>1. \A r \in 1..(c.at - 1) : Started(r)' <=> Started(r)
                BY <2>1 DEF Started
            <4>. QED
                BY <2>1, <4>1, SameFiles DEF Undisturbed
        <3>. QED
            BY <2>1, <3>1, <3>2, SameScene DEF WellRun
    <2>. QED
        BY <2>1, <2>3, <2>4 DEF DirectoryInv, Busy
<1>2. CASE Next
    BY <1>2, OpeningSteps, GradeRunSteps, CollectSteps, StoreReportSteps, MeasureSteps, ReadToSyncSteps,
       SyncSummarySteps, WriteBenchmarkSteps, MergeSteps, StopSteps DEF Next
<1>. QED
    BY <1>1, <1>2

(* However grades, benchmarks and comparisons of one report follow each other,
   break off or overlap: after a grade that finished alone report.json says what
   the gradings say, a current benchmark.json counts what the gate counts, and a
   grade that exits with success left nothing failed or ungraded
   (update_report_after_grading, sync_iteration_summary_to_report, grade_bundle). *)
THEOREM DocumentsAlwaysAgree == Spec => []DocumentsAgree
<1>1. Init => DirectoryInv
    BY DirectoryStarts
<1>2. DirectoryInv /\ [Next]_vars => DirectoryInv'
    BY DirectorySteps
<1>3. DirectoryInv => DocumentsAgree
    BY DocumentsOfDirectory
<1>. QED
    BY <1>1, <1>2, <1>3, PTL DEF Spec

------------------------------------------------------------------------------
(* The scale *)

Answered(says) == says \in {"passed", "failed"}

\* The arm-scoped checks count after all when they are all that was answered.
OnlyScopedAnswered(g) ==
    /\ \A c \in DOMAIN g : c \notin Scoped => ~Answered(g[c].says)
    /\ \E c \in DOMAIN g : c \in Scoped /\ Answered(g[c].says)

\* What was said of each check, and whether an arm-scoped check counts.
LEMMA ScaleOf ==
    ASSUME scene \in Scenes, NEW r \in Runs, NEW mode \in GraderModes, NEW raw \in Answers(r, mode),
           NEW g, g = Restored(raw)
    PROVE  /\ DOMAIN g = GradedOn(r)
           /\ \A c \in GradedOn(r) : 
              /\ g[c].says \in Says /\ g[c].excluded \in BOOLEAN
              /\ g[c].excluded <=> c \in Scoped /\ ~OnlyScopedAnswered(g)
<1>1. DOMAIN g = GradedOn(r) /\ GradedOn(r) \subseteq AllChecks
    BY AnswerFacts
<1>2. PICK said \in [Deferred(r) -> Verdicts(mode)] :
         raw = [c \in GradedOn(r) |->
                   [says |-> IF c = Violation THEN "failed"
                             ELSE IF c \in Deferred(r) THEN said[c] ELSE scene.fact[r][c],
                    excluded |-> c \in Scoped]]
    BY AnswerFacts
<1>3. ASSUME NEW c \in GradedOn(r)
      PROVE  raw[c].excluded = (c \in Scoped) /\ raw[c].says \in Says /\ raw[c] = [says |-> raw[c].says, excluded |-> raw[c].excluded]
    <2>1. raw[c] = [says |-> IF c = Violation THEN "failed"
                             ELSE IF c \in Deferred(r) THEN said[c] ELSE scene.fact[r][c],
                    excluded |-> c \in Scoped]
        BY <1>2
    <2>2. CASE c = Violation
        BY <2>1, <2>2 DEF Says
    <2>3. CASE c # Violation /\ c \in Deferred(r)
        <3>1. said[c] \in Verdicts(mode) /\ Verdicts(mode) \subseteq Says
            BY <2>3 DEF Verdicts, Says, GraderModes
        <3>. QED
            BY <2>1, <2>3, <3>1
    <2>4. CASE c # Violation /\ c \notin Deferred(r)
        <3>1. c \in Declared[CaseOf[r]] /\ c \in Checks
            BY <1>1, <2>4 DEF GradedOn, AllChecks
        <3>2. scene.fact[r][c] \in {"passed", "failed", "unsupported", "deferred"} /\ scene.fact[r][c] # "deferred"
            BY <2>4, <3>1, GradingAssumption DEF Scene, Deferred
        <3>. QED
            BY <2>1, <2>4, <3>2 DEF Says
    <2>. QED
        BY <2>2, <2>3, <2>4
<1>4. DOMAIN raw = GradedOn(r) /\ raw = [c \in GradedOn(r) |-> raw[c]]
    BY <1>2
<1>5. (Scored(raw) = {}) <=> \A c \in GradedOn(r) : c \notin Scoped => ~Answered(raw[c].says)
    BY <1>3, <1>4 DEF Scored, Outcome, Answered
<1>6. (\E c \in DOMAIN raw : raw[c].excluded /\ raw[c].says \in {"passed", "failed"})
         <=> \E c \in GradedOn(r) : c \in Scoped /\ Answered(raw[c].says)
    BY <1>3, <1>4 DEF Answered
<1>7. PICK allScored \in BOOLEAN :
         allScored <=> /\ \A c \in GradedOn(r) : c \notin Scoped => ~Answered(raw[c].says)
                    /\ \E c \in GradedOn(r) : c \in Scoped /\ Answered(raw[c].says)
    OBVIOUS
<1>8. ASSUME NEW c \in GradedOn(r)
      PROVE  g[c].says = raw[c].says /\ g[c].excluded \in BOOLEAN /\ (g[c].excluded <=> c \in Scoped /\ ~allScored)
    <2>1. CASE allScored
        <3>1. g = [x \in GradedOn(r) |-> [raw[x] EXCEPT !.excluded = FALSE]]
            BY <1>4, <1>5, <1>6, <1>7, <2>1 DEF Restored
        <3>2. PICK x : x = raw[c] /\ g[c] = [x EXCEPT !.excluded = FALSE]
            BY <3>1
        <3>3. x = [says |-> x.says, excluded |-> x.excluded]
            BY <1>3, <3>2
        <3>4. g[c] = [says |-> x.says, excluded |-> FALSE]
            BY <3>2, <3>3
        <3>5. g[c].says = x.says /\ ~g[c].excluded
            BY <3>4
        <3>6. g[c] \in [says : {x.says}, excluded : BOOLEAN]
            BY <3>4
        <3>7. g[c].excluded \in BOOLEAN
            BY <3>6
        <3>. QED
            BY <2>1, <3>2, <3>5, <3>7, Zenon
    <2>2. CASE ~allScored
        <3>1. g = raw
            BY <1>5, <1>6, <1>7, <2>2 DEF Restored
        <3>2. raw[c].excluded = (c \in Scoped)
            BY <1>3
        <3>3. (c \in Scoped) \in BOOLEAN
            OBVIOUS
        <3>. QED
            BY <2>2, <3>1, <3>2, <3>3, Zenon
    <2>. QED
        BY <2>1, <2>2
<1>9. allScored <=> OnlyScopedAnswered(g)
    BY <1>1, <1>7, <1>8 DEF OnlyScopedAnswered
<1>. QED
    BY <1>1, <1>3, <1>8, <1>9

(* Two attempts at a case in which the same checks could be answered are scored
   on the same checks, whatever was found: what a judge says of a check does not
   decide whether an arm-scoped one counts
   (restore_when_nothing_would_be_scored). *)
THEOREM ScaleIsTheCase == Spec => []ScaleIsShared
<1>1. Init => DirectoryInv
    BY DirectoryStarts
<1>2. DirectoryInv /\ [Next]_vars => DirectoryInv'
    BY DirectorySteps
<1>3. DirectoryInv => ScaleIsShared
    <2>. SUFFICES ASSUME DirectoryInv, NEW r \in Runs, NEW s \in Runs, NEW g \in files[r], NEW h \in files[s],
                         CaseOf[r] = CaseOf[s], {r, s} \cap scene.violated = {},
                         \A c \in DOMAIN g : (g[c].says \in {"unsupported", "ungraded"}) = (h[c].says \in {"unsupported", "ungraded"}),
                         NEW c \in DOMAIN g
                  PROVE  g[c].excluded = h[c].excluded
        BY DEF ScaleIsShared
    <2>. DEFINE ScaledAs(grading, x) ==
             /\ grading[x].says \in Says /\ grading[x].excluded \in BOOLEAN
             /\ grading[x].excluded <=> x \in Scoped /\ ~OnlyScopedAnswered(grading)
    <2>1. DOMAIN g = GradedOn(r) /\ \A x \in GradedOn(r) : ScaledAs(g, x)
        <3>1. \E mode \in GraderModes : \E raw \in Answers(r, mode) : files[r] = {Restored(raw)}
            BY DEF DirectoryInv, FilesInv
        <3>2. \E mode \in GraderModes : \E raw \in Answers(r, mode) : g = Restored(raw)
            BY <3>1
        <3>. QED
            BY <3>2, ScaleOf DEF DirectoryInv
    <2>2. DOMAIN h = GradedOn(s) /\ \A x \in GradedOn(s) : ScaledAs(h, x)
        <3>1. \E mode \in GraderModes : \E raw \in Answers(s, mode) : files[s] = {Restored(raw)}
            BY DEF DirectoryInv, FilesInv
        <3>2. \E mode \in GraderModes : \E raw \in Answers(s, mode) : h = Restored(raw)
            BY <3>1
        <3>. QED
            BY <3>2, ScaleOf DEF DirectoryInv
    <2>. HIDE DEF ScaledAs
    <2>3. GradedOn(r) = GradedOn(s)
        BY DEF GradedOn
    <2>4. \A x \in DOMAIN g : Answered(g[x].says) <=> Answered(h[x].says)
        <3>. SUFFICES ASSUME NEW x \in DOMAIN g
                      PROVE  Answered(g[x].says) <=> Answered(h[x].says)
            OBVIOUS
        <3>1. g[x].says \in {"unsupported", "ungraded"} <=> h[x].says \in {"unsupported", "ungraded"}
            BY Zenon
        <3>2. x \in GradedOn(r) /\ x \in GradedOn(s)
            BY <2>1, <2>3, Zenon
        <3>3. ScaledAs(g, x) /\ ScaledAs(h, x)
            BY <2>1, <2>2, <3>2
        <3>4. g[x].says \in Says /\ h[x].says \in Says
            BY <3>3 DEF ScaledAs
        <3>. QED
            BY <3>1, <3>4 DEF Answered, Says
    <2>5. OnlyScopedAnswered(g) <=> OnlyScopedAnswered(h)
        BY <2>1, <2>2, <2>3, <2>4 DEF OnlyScopedAnswered
    <2>6. c \in GradedOn(r) /\ c \in GradedOn(s)
        BY <2>1, <2>3, Zenon
    <2>7. ScaledAs(g, c) /\ ScaledAs(h, c)
        BY <2>1, <2>2, <2>6
    <2>. QED
        BY <2>5, <2>7, Zenon DEF ScaledAs
<1>. QED
    BY <1>1, <1>2, <1>3, PTL DEF Spec

------------------------------------------------------------------------------
(* What a reviser is told *)

\* A report covers cases of the suite that its pass read.
Reports == {r \in [suite : Suites, runs : UNION {[ids -> Drawn] : ids \in SUBSET EvalIds}, old : BOOLEAN] :
               DOMAIN r.runs \subseteq DOMAIN r.suite}

IsBundle(d) ==
    \E o : /\ o.of \in Reports /\ d.of = o.of /\ d.heldOut = HeldOut(o.of)
           /\ d.names = TrainRuns(o.of) \cup (IF Drifted(o) THEN Removed(o) \cup Added(o, d.last) ELSE {})

RevisionInv ==
    /\ \E s \in Suites, reads \in {"well", "broken", "missing"} : suite = [reads |-> reads, splits |-> s]
    /\ rounds \in Seq(Reports)
    /\ \A o \in opened : o.of \in Reports
    /\ \A d \in bundle : IsBundle(d)

\* The invariant of the rounds holds first.
LEMMA RevisionStarts == IterationsInit({Readable(splits) : splits \in Suites}) => RevisionInv
    BY DEF IterationsInit, RevisionInv, Readable

\* Each step keeps it.
LEMMA RevisionSteps == RevisionInv /\ [IterationsNext]_iterVars => RevisionInv'
<1>. SUFFICES ASSUME RevisionInv, [IterationsNext]_iterVars
              PROVE  RevisionInv'
    OBVIOUS
<1>0. PICK s \in Suites, reads \in {"well", "broken", "missing"} : suite = [reads |-> reads, splits |-> s]
    BY DEF RevisionInv
<1>1. CASE EditSuite
    <2>1. PICK ids \in SUBSET EvalIds : s \in [ids -> EvalSplits]
        BY DEF Suites
    <2>2. ASSUME NEW c \in EvalIds, NEW x \in EvalSplits
          PROVE  /\ [y \in DOMAIN s \cup {c} |-> IF y = c THEN x ELSE s[y]] \in Suites
                 /\ [y \in DOMAIN s \ {c} |-> s[y]] \in Suites
        <3>1. /\ [y \in ids \cup {c} |-> IF y = c THEN x ELSE s[y]] \in [ids \cup {c} -> EvalSplits]
              /\ [y \in ids \ {c} |-> s[y]] \in [ids \ {c} -> EvalSplits]
            BY <2>1
        <3>. QED
            BY <2>1, <3>1 DEF Suites
    <2>3. \E t \in Suites, how \in {"well", "broken", "missing"} : suite' = [reads |-> how, splits |-> t]
        BY <1>0, <1>1, <2>2 DEF EditSuite, Readable
    <2>. QED
        BY <1>1, <2>3 DEF EditSuite, RevisionInv, IsBundle
<1>2. ASSUME NEW selection \in Selections, RunPassOver(selection)
      PROVE  RevisionInv'
    <2>1. PICK covered, draws, old : 
             /\ covered = Covered(selection, suite.splits) /\ draws \in [covered -> Drawn] /\ old \in BOOLEAN
             /\ rounds' = Append(rounds, [suite |-> suite.splits, runs |-> draws, old |-> old])
        BY <1>2 DEF RunPassOver
    <2>2. covered \subseteq DOMAIN s /\ DOMAIN s \subseteq EvalIds
        BY <1>0, <2>1 DEF Covered, Suites
    <2>3. draws \in UNION {[ids -> Drawn] : ids \in SUBSET EvalIds} /\ DOMAIN draws \subseteq DOMAIN s
        BY <2>1, <2>2
    <2>4. [suite |-> suite.splits, runs |-> draws, old |-> old] \in Reports
        BY <1>0, <2>1, <2>3 DEF Reports
    <2>5. rounds' \in Seq(Reports)
        BY <2>1, <2>4 DEF RevisionInv
    <2>. QED
        BY <1>2, <1>0, <2>5 DEF RunPassOver, RevisionInv, IsBundle
<1>3. CASE OpenBundle
    <2>1. rounds[Len(rounds)] \in Reports
        BY <1>3 DEF OpenBundle, RevisionInv
    <2>. QED
        BY <1>3, <2>1 DEF OpenBundle, RevisionInv, IsBundle
<1>4. CASE CloseBundle
    <2>1. ASSUME NEW d \in bundle'
          PROVE  IsBundle(d)
        <3>1. PICK o \in opened : 
                 d = [of |-> o.of, last |-> suite, heldOut |-> HeldOut(o.of),
                      names |-> TrainRuns(o.of) \cup (IF Drifted(o) THEN Removed(o) \cup Added(o, suite) ELSE {})]
            BY <1>4, <2>1 DEF CloseBundle
        <3>2. o.of \in Reports
            BY DEF RevisionInv
        <3>. QED
            BY <3>1, <3>2 DEF IsBundle
    <2>. QED
        BY <1>4, <1>0, <2>1 DEF CloseBundle, RevisionInv, IsBundle
<1>5. CASE UNCHANGED iterVars
    BY <1>5 DEF iterVars, RevisionInv, IsBundle
<1>. QED
    BY <1>1, <1>2, <1>3, <1>4, <1>5 DEF IterationsNext

\* What a report holds out is not what it names.
LEMMA HeldOutIsNotNamed ==
    ASSUME NEW q \in Reports, NEW c \in TestOf(q)
    PROVE  /\ c \notin TrainRuns(q)
           /\ c \in TestRuns(q) \/ (Narrowed(q) /\ c \in DeclaredIds(q) /\ DeclaredSplits(q)[c] # "train")
           /\ c \in DeclaredIds(q) /\ DeclaredSplits(q)[c] \in {"test", "unknown"}
           /\ ~q.old => DeclaredSplits(q)[c] = "test"
<1>1. c \in DOMAIN q.suite /\ q.suite[c] = "test" /\ DOMAIN q.runs \subseteq DOMAIN q.suite
    BY DEF TestOf, Reports
<1>2. CASE Narrowed(q)
    BY <1>1, <1>2 DEF TrainRuns, TestRuns, DeclaredIds, DeclaredSplits
<1>3. CASE ~Narrowed(q)
    BY <1>1, <1>3 DEF TrainRuns, TestRuns, DeclaredIds, DeclaredSplits, Narrowed
<1>. QED
    BY <1>2, <1>3

\* A summary withholds what its reports hold out.
LEMMA SummariesWithhold == RevisionInv => SummaryWithholds
<1>. SUFFICES ASSUME RevisionInv, NEW i \in DOMAIN rounds, NEW j \in 0..(i - 1),
                     NEW earlier, earlier = IF j = 0 THEN {} ELSE {rounds[j]},
                     NEW c \in SummaryNames(rounds[i], earlier),
                     c \in TestOf(rounds[i]) \/ \E p \in earlier : c \in TestOf(p) /\ c \notin DOMAIN rounds[i].suite
              PROVE  FALSE
    BY DEF SummaryWithholds
<1>1. rounds[i] \in Reports /\ \A p \in earlier : p \in Reports
    BY DEF RevisionInv
<1>2. c \notin Analyzed(rounds[i], TrainRuns(rounds[i]))
    <2>1. ASSUME c \in TrainRuns(rounds[i])
          PROVE  c \in DOMAIN rounds[i].suite /\ c \notin TestOf(rounds[i])
        BY <1>1, <2>1, HeldOutIsNotNamed DEF TrainRuns, Reports
    <2>. QED
        BY <2>1 DEF Analyzed
<1>3. c \notin HeldOutIds(rounds[i], earlier)
    BY <1>2 DEF SummaryNames
<1>4. ASSUME NEW q \in {rounds[i]} \cup earlier, c \in TestOf(q)
      PROVE  c \in HeldOutIds(rounds[i], earlier)
    <2>1. c \in TestRuns(q) \cup (IF Narrowed(q) THEN {x \in DeclaredIds(q) : DeclaredSplits(q)[x] # "train"} ELSE {})
        BY <1>1, <1>4, HeldOutIsNotNamed
    <2>. QED
        BY <2>1 DEF HeldOutIds
<1>. QED
    BY <1>3, <1>4

\* A bundle withholds what its report, and the suite as last read, hold out.
LEMMA BundlesWithhold == RevisionInv => BundleWithholds
<1>. SUFFICES ASSUME RevisionInv, NEW d \in bundle
              PROVE  /\ d.names \cap TestOf(d.of) = {}
                     /\ d.last.reads = "well" =>
                           \A c \in d.names \cap DOMAIN d.last.splits :
                              d.last.splits[c] = "test" => c \in DeclaredIds(d.of)
                     /\ d.heldOut = "no_test_cases" => TestOf(d.of) = {} \/ d.of.old
    BY DEF BundleWithholds
<1>1. PICK o : /\ o.of \in Reports /\ d.of = o.of /\ d.heldOut = HeldOut(o.of)
               /\ d.names = TrainRuns(o.of) \cup (IF Drifted(o) THEN Removed(o) \cup Added(o, d.last) ELSE {})
    BY DEF RevisionInv, IsBundle
<1>2. ASSUME NEW c \in d.names, c \in TestOf(d.of) PROVE FALSE
    BY <1>1, <1>2, HeldOutIsNotNamed DEF Removed, Added
<1>3. ASSUME d.last.reads = "well", NEW c \in d.names, c \in DOMAIN d.last.splits, d.last.splits[c] = "test"
      PROVE  c \in DeclaredIds(d.of)
    <2>1. TrainRuns(o.of) \subseteq DeclaredIds(o.of)
        BY <1>1 DEF TrainRuns, DeclaredIds, Reports
    <2>. QED
        BY <1>1, <1>3, <2>1 DEF Removed, Added
<1>4. ASSUME d.heldOut = "no_test_cases", ~d.of.old, NEW c \in TestOf(d.of) PROVE FALSE
    BY <1>1, <1>4, HeldOutIsNotNamed DEF HeldOut
<1>. QED
    BY <1>2, <1>3, <1>4

------------------------------------------------------------------------------
(* What it may conclude *)

\* What the runs with the skill came to, over one split.
CameTo(q, split, result) == {c \in DOMAIN q.runs : q.suite[c] = split /\ q.runs[c]["with_skill"] = result}
ScoredIn(q, split) == {c \in DOMAIN q.runs : q.suite[c] = split /\ IsScored(q.runs[c]["with_skill"])}

\* A tally counts the cases that were scored, each once.
LEMMA TalliesCount ==
    ASSUME NEW q \in Reports, NEW split
    PROVE  /\ Tally(q, split) = <<Cardinality(CameTo(q, split, "pass")), Cardinality(CameTo(q, split, "fail"))>>
           /\ Cardinality(CameTo(q, split, "pass")) \in 0..Cardinality(EvalIds)
           /\ Cardinality(CameTo(q, split, "fail")) \in 0..Cardinality(EvalIds)
           /\ Cardinality(CameTo(q, split, "pass")) + Cardinality(CameTo(q, split, "fail")) = Cardinality(ScoredIn(q, split))
           /\ IsFiniteSet(CameTo(q, split, "pass")) /\ IsFiniteSet(ScoredIn(q, split))
<1>. DEFINE P == CameTo(q, split, "pass")
            F == CameTo(q, split, "fail")
<1>1. Tally(q, split) = <<Cardinality(P), Cardinality(F)>>
    BY DEF Tally, CameTo
<1>2. P \subseteq EvalIds /\ F \subseteq EvalIds /\ P \cup F = ScoredIn(q, split) /\ P \cap F = {}
    BY DEF CameTo, ScoredIn, IsScored, Reports
<1>. HIDE DEF P, F
<1>3. IsFiniteSet(P) /\ IsFiniteSet(F) /\ Cardinality(P) <= Cardinality(EvalIds) /\ Cardinality(F) <= Cardinality(EvalIds)
    BY <1>2, FS_Subset, IterationAssumption
<1>4. Cardinality(P) \in Nat /\ Cardinality(F) \in Nat /\ Cardinality(EvalIds) \in Nat /\ Cardinality({}) = 0
    BY <1>3, FS_CardinalityType, FS_EmptySet, IterationAssumption
<1>5. IsFiniteSet(P \cup F) /\ Cardinality(P \cup F) = Cardinality(P) + Cardinality(F) - Cardinality({})
    <2>1. Cardinality(P \cap F) = Cardinality({})
        BY <1>2
    <2>. QED
        BY <1>3, <2>1, FS_Union
<1>6. /\ Cardinality(P) \in 0..Cardinality(EvalIds) /\ Cardinality(F) \in 0..Cardinality(EvalIds)
      /\ Cardinality(P) + Cardinality(F) = Cardinality(P \cup F)
    BY <1>3, <1>4, <1>5
<1>7. IsFiniteSet(P) /\ IsFiniteSet(ScoredIn(q, split)) /\ Cardinality(P) + Cardinality(F) = Cardinality(ScoredIn(q, split))
    BY <1>2, <1>3, <1>5, <1>6
<1>. QED
    BY <1>1, <1>6, <1>7 DEF P, F

\* Of two tallies only one is above the other.
LEMMA AboveOneWay ==
    ASSUME NEW x \in Nat \X Nat, NEW y \in Nat \X Nat, Above(x, y)
    PROVE  ~Above(y, x)
<1>1. PICK a \in Nat, b \in Nat : x = <<a, b>>
    OBVIOUS
<1>2. PICK c \in Nat, d \in Nat : y = <<c, d>>
    OBVIOUS
<1>3. Above(x, y) => a * (c + d) > c * (a + b)
    BY <1>1, <1>2 DEF Above
<1>4. Above(y, x) => c * (a + b) > a * (c + d)
    BY <1>1, <1>2 DEF Above
<1>5. a * (c + d) \in Nat /\ c * (a + b) \in Nat
    OBVIOUS
<1>. QED
    BY <1>3, <1>4, <1>5

\* Over as many assertions, the tally above has passed more of them.
LEMMA AbovePassesMore ==
    ASSUME NEW a \in Nat, NEW b \in Nat, NEW c \in Nat, NEW d \in Nat,
           a + b = c + d, Above(<<a, b>>, <<c, d>>)
    PROVE  a > c
<1>1. PICK n \in Nat : n = a + b
    OBVIOUS
<1>2. a * n > c * n
    BY <1>1 DEF Above
<1>3. ASSUME a <= c PROVE FALSE
    <2>1. PICK k \in Nat : c = a + k
        BY <1>3
    <2>2. c * n = a * n + k * n /\ k * n \in Nat /\ a * n \in Nat
        BY <2>1
    <2>. QED
        BY <1>2, <2>2
<1>. QED
    BY <1>3

\* r passed a case of the split that p failed, unless they scored different cases.
Improves(r, p, split) ==
    ScoredIn(r, split) = ScoredIn(p, split) =>
        \E c \in ScoredIn(r, split) : r.runs[c]["with_skill"] = "pass" /\ p.runs[c]["with_skill"] = "fail"

\* A verdict is one of four, and is about cases that were scored.
LEMMA VerdictsHold ==
    ASSUME NEW r \in Reports, NEW p \in Reports, NEW split
    PROVE  /\ SplitVerdict(r, p, split) = "improved" => Improves(r, p, split)
           /\ SplitVerdict(r, p, split) = "improved" <=> SplitVerdict(p, r, split) = "regressed"
           /\ SplitVerdict(r, p, split) = "regressed" <=> SplitVerdict(p, r, split) = "improved"
           /\ SplitVerdict(r, p, split) # "no_runs" => ScoredIn(r, split) # {} /\ ScoredIn(p, split) # {}
<1>. DEFINE rp == Cardinality(CameTo(r, split, "pass"))
            rf == Cardinality(CameTo(r, split, "fail"))
            pp == Cardinality(CameTo(p, split, "pass"))
            pf == Cardinality(CameTo(p, split, "fail"))
            x == Tally(r, split)
            y == Tally(p, split)
<1>1. /\ x = <<rp, rf>> /\ rp \in 0..Cardinality(EvalIds) /\ rf \in 0..Cardinality(EvalIds)
      /\ y = <<pp, pf>> /\ pp \in 0..Cardinality(EvalIds) /\ pf \in 0..Cardinality(EvalIds)
    BY TalliesCount
<1>2. /\ rp + rf = Cardinality(ScoredIn(r, split)) /\ pp + pf = Cardinality(ScoredIn(p, split))
      /\ IsFiniteSet(ScoredIn(r, split)) /\ IsFiniteSet(ScoredIn(p, split))
      /\ IsFiniteSet(CameTo(r, split, "pass")) /\ IsFiniteSet(CameTo(p, split, "pass"))
    BY TalliesCount
<1>3. /\ SplitVerdict(r, p, split) = 
            (IF <<0, 0>> \in {x, y} THEN "no_runs" ELSE IF ClearlyAbove(x, y) THEN "improved"
             ELSE IF ClearlyAbove(y, x) THEN "regressed" ELSE "indistinguishable")
      /\ SplitVerdict(p, r, split) = 
            (IF <<0, 0>> \in {x, y} THEN "no_runs" ELSE IF ClearlyAbove(y, x) THEN "improved"
             ELSE IF ClearlyAbove(x, y) THEN "regressed" ELSE "indistinguishable")
    BY DEF SplitVerdict
<1>. HIDE DEF rp, rf, pp, pf, x, y
<1>4. rp \in Nat /\ rf \in Nat /\ pp \in Nat /\ pf \in Nat
    BY <1>1
<1>5. (ClearlyAbove(x, y) => Above(x, y)) /\ (ClearlyAbove(y, x) => Above(y, x))
    BY <1>1, IterationAssumption
<1>6. ~(ClearlyAbove(x, y) /\ ClearlyAbove(y, x))
    <2>1. x \in Nat \X Nat /\ y \in Nat \X Nat
        BY <1>1, <1>4
    <2>. QED
        BY <1>5, <2>1, AboveOneWay
<1>7. ASSUME ClearlyAbove(x, y) PROVE Improves(r, p, split)
    <2>. SUFFICES ASSUME ScoredIn(r, split) = ScoredIn(p, split),
                         ~\E c \in ScoredIn(r, split) : r.runs[c]["with_skill"] = "pass" /\ p.runs[c]["with_skill"] = "fail"
                  PROVE  FALSE
        BY DEF Improves
    <2>1. rp > pp
        <3>1. Above(<<rp, rf>>, <<pp, pf>>) /\ rp + rf = pp + pf
            BY <1>1, <1>2, <1>5, <1>7
        <3>. QED
            BY <1>4, <3>1, AbovePassesMore
    <2>2. CameTo(r, split, "pass") \subseteq CameTo(p, split, "pass")
        <3>. SUFFICES ASSUME NEW c \in CameTo(r, split, "pass") PROVE c \in CameTo(p, split, "pass")
            OBVIOUS
        <3>1. c \in ScoredIn(r, split) /\ r.runs[c]["with_skill"] = "pass"
            BY DEF CameTo, ScoredIn, IsScored
        <3>2. c \in ScoredIn(p, split) /\ p.runs[c]["with_skill"] # "fail"
            BY <3>1
        <3>. QED
            BY <3>2 DEF CameTo, ScoredIn, IsScored
    <2>3. rp <= pp
        BY <1>2, <2>2, FS_Subset DEF rp, pp
    <2>. QED
        BY <1>4, <2>1, <2>3
<1>8. /\ ScoredIn(r, split) = {} => x = <<0, 0>>
      /\ ScoredIn(p, split) = {} => y = <<0, 0>>
    <2>1. ScoredIn(r, split) = {} => rp = 0 /\ rf = 0
        BY <1>2, <1>4, FS_EmptySet
    <2>2. ScoredIn(p, split) = {} => pp = 0 /\ pf = 0
        BY <1>2, <1>4, FS_EmptySet
    <2>. QED
        BY <1>1, <2>1, <2>2
<1>. QED
    BY <1>3, <1>6, <1>7, <1>8

\* A recommendation is earned.
LEMMA RecommendationsAreEarned == RevisionInv => RecommendationIsEarned
<1>. SUFFICES ASSUME RevisionInv, NEW i \in DOMAIN rounds, NEW j \in DOMAIN rounds,
                     NEW r, r = rounds[i], NEW p, p = rounds[j]
              PROVE  /\ Recommendation(r, p) = "keep" => r.suite = p.suite /\ Improves(r, p, "test")
                     /\ (Recommendation(r, p) = "keep") = (Recommendation(p, r) = "revert")
                     /\ Recommendation(r, p) = "suspected_overfitting" =>
                           Improves(r, p, "train") /\ ScoredIn(r, "test") # {} /\ ScoredIn(p, "test") # {}
    BY DEF RecommendationIsEarned, Improves, ScoredIn
<1>1. r \in Reports /\ p \in Reports
    BY DEF RevisionInv
<1>2. (Recommendation(r, p) = "keep") <=> r.suite = p.suite /\ SplitVerdict(r, p, "test") = "improved"
    BY DEF Recommendation
<1>3. (Recommendation(p, r) = "revert") <=> r.suite = p.suite /\ SplitVerdict(p, r, "test") = "regressed"
    BY DEF Recommendation
<1>4. Recommendation(r, p) = "suspected_overfitting" =>
         SplitVerdict(r, p, "test") = "indistinguishable" /\ SplitVerdict(r, p, "train") = "improved"
    BY DEF Recommendation
<1>5. (Recommendation(r, p) = "keep") <=> (Recommendation(p, r) = "revert")
    BY <1>1, <1>2, <1>3, VerdictsHold
<1>. QED
    BY <1>1, <1>2, <1>4, <1>5, VerdictsHold

(* A reviser is told nothing that was held out and no verdict that the        *)
(* held-out cases did not earn (withhold_test_split_detail,                   *)
(* build_held_out_section, derive_recommendation): for any cases, splits,     *)
(* passes and edits, and any notion of a clear difference that implies one.   *)
THEOREM RevisionsAreHonest == IterationsSpec => []ImprovementIsHonest
<1>1. RevisionInv => ImprovementIsHonest
    BY SummariesWithhold, BundlesWithhold, RecommendationsAreEarned DEF ImprovementIsHonest, HeldOutStaysHeldOut
<1>. QED
    BY <1>1, RevisionStarts, RevisionSteps, PTL DEF IterationsSpec

------------------------------------------------------------------------------
(* What a tracing backend was told *)

GradingNumbers == 1..MaxGradings

RecordType == [status : RunStatuses, trace : BOOLEAN, graded : Nat, gradeTrace : BOOLEAN]
BackendType == [usage : [Traced -> Nat], grades : [Traced -> [GradingNumbers -> Nat]],
                events : [Traced -> [GradingNumbers -> Nat]]]
GradeType == [on : {TRUE}, root : BOOLEAN, logs : BOOLEAN, left : SUBSET Traced]

ReplayTyped ==
    /\ records \in [Traced -> RecordType]
    /\ backend \in BackendType
    /\ grade = NoGrade \/ grade \in GradeType
    /\ gradings \in Nat /\ gradings <= MaxGradings
    /\ logged \subseteq 1..gradings
    /\ forgot \in BOOLEAN
    /\ exports \in Nat

(* A grading is published once, by the command that began it: while one is
   under way every published one is older, and the runs it has done with are
   told of as far as its signals go. *)
GradeInv ==
    /\ \A r \in Traced : records[r].graded <= gradings
    /\ \A r \in Traced : records[r].gradeTrace => records[r].graded # 0
    /\ grade.on =>
          /\ gradings >= 1
          /\ grade.logs <=> gradings \in logged
          /\ \A r \in Traced : records[r].graded < gradings
          /\ \A r \in Traced : HasStarted(r) /\ r \notin grade.left =>
                /\ grade.root => backend.grades[r][gradings] >= 1
                /\ grade.logs => backend.events[r][gradings] >= 1

(* What the report names as told live was received, unless it was lost. *)
ToldLive ==
    ~forgot => \A r \in Traced :
        /\ WasAnswered(r) /\ records[r].trace => backend.usage[r] >= 1
        /\ records[r].gradeTrace => backend.grades[r][records[r].graded] >= 1
        /\ WasGraded(r) /\ records[r].graded \in logged => backend.events[r][records[r].graded] >= 1

(* Until the first export nothing was received twice, and nothing at all of
   what the report does not name as told live. *)
ToldOnce ==
    exports = 0 => \A r \in Traced :
        /\ backend.usage[r] <= (IF records[r].status \in {"answered", "draft"} THEN 1 ELSE 0)
        /\ WasAnswered(r) /\ ~records[r].trace => backend.usage[r] = 0
        /\ WasGraded(r) /\ ~records[r].gradeTrace => backend.grades[r][records[r].graded] = 0
        /\ \A g \in GradingNumbers :
              /\ backend.grades[r][g] <= 1 /\ backend.events[r][g] <= 1
              /\ g > gradings => backend.grades[r][g] = 0
              /\ g \notin logged => backend.events[r][g] = 0
              /\ grade.on /\ g = gradings /\ (r \in grade.left \/ ~grade.root) => backend.grades[r][g] = 0
              /\ grade.on /\ g = gradings /\ r \in grade.left => backend.events[r][g] = 0

ReplayInv == ReplayTyped /\ GradeInv /\ ToldLive /\ ToldOnce

------------------------------------------------------------------------------
(* What is received *)

(* What a backend holds after it was told something is what it held and one
   more of each thing told. *)
LEMMA ReceivedAt ==
    ASSUME ReplayTyped, NEW U, NEW G, NEW E
    PROVE  /\ Received(U, G, E) \in BackendType
           /\ \A r \in Traced :
                /\ Received(U, G, E).usage[r] = backend.usage[r] + (IF r \in U THEN 1 ELSE 0)
                /\ \A g \in GradingNumbers :
                     /\ Received(U, G, E).grades[r][g] = backend.grades[r][g] + (IF <<r, g>> \in G THEN 1 ELSE 0)
                     /\ Received(U, G, E).events[r][g] = backend.events[r][g] + (IF <<r, g>> \in E THEN 1 ELSE 0)
<1>1. /\ backend.usage \in [Traced -> Nat] /\ backend.grades \in [Traced -> [GradingNumbers -> Nat]]
      /\ backend.events \in [Traced -> [GradingNumbers -> Nat]]
    BY DEF ReplayTyped, BackendType
<1>2. /\ Received(U, G, E).usage = [r \in Traced |-> backend.usage[r] + (IF r \in U THEN 1 ELSE 0)]
      /\ Received(U, G, E).grades = [r \in Traced |-> [g \in GradingNumbers |->
            backend.grades[r][g] + (IF <<r, g>> \in G THEN 1 ELSE 0)]]
      /\ Received(U, G, E).events = [r \in Traced |-> [g \in GradingNumbers |->
            backend.events[r][g] + (IF <<r, g>> \in E THEN 1 ELSE 0)]]
      /\ Received(U, G, E) = [usage |-> Received(U, G, E).usage, grades |-> Received(U, G, E).grades,
                              events |-> Received(U, G, E).events]
    BY DEF Received, GradingNumbers
<1>3. Received(U, G, E).usage \in [Traced -> Nat]
    BY <1>1, <1>2
<1>4. Received(U, G, E).grades \in [Traced -> [GradingNumbers -> Nat]]
    BY <1>1, <1>2
<1>5. Received(U, G, E).events \in [Traced -> [GradingNumbers -> Nat]]
    BY <1>1, <1>2
<1>6. Received(U, G, E) \in BackendType
    BY <1>2, <1>3, <1>4, <1>5 DEF BackendType
<1>. QED
    BY <1>2, <1>6

(* Telling nothing changes nothing. *)
LEMMA ReceivedNothing ==
    ASSUME ReplayTyped
    PROVE  Received({}, {}, {}) = backend
<1>0. PICK none : none = {}
    OBVIOUS
<1>1. backend \in BackendType
    BY DEF ReplayTyped
<1>2. Received(none, none, none) \in BackendType
    BY ReceivedAt
<1>3. /\ backend.usage \in [Traced -> Nat] /\ backend.grades \in [Traced -> [GradingNumbers -> Nat]]
      /\ backend.events \in [Traced -> [GradingNumbers -> Nat]]
    BY <1>1 DEF BackendType
<1>4. /\ Received(none, none, none).usage \in [Traced -> Nat]
      /\ Received(none, none, none).grades \in [Traced -> [GradingNumbers -> Nat]]
      /\ Received(none, none, none).events \in [Traced -> [GradingNumbers -> Nat]]
    BY <1>2 DEF BackendType
<1>5. Received(none, none, none).usage = backend.usage
    <2>1. ASSUME NEW r \in Traced PROVE Received(none, none, none).usage[r] = backend.usage[r]
        <3>1. Received(none, none, none).usage[r] = backend.usage[r] + (IF r \in none THEN 1 ELSE 0)
            BY ReceivedAt
        <3>. QED
            BY <1>0, <1>3, <3>1
    <2>. QED
        BY <1>3, <1>4, <2>1
<1>6. ASSUME NEW r \in Traced
      PROVE  /\ Received(none, none, none).grades[r] = backend.grades[r]
             /\ Received(none, none, none).events[r] = backend.events[r]
    <2>1. /\ backend.grades[r] \in [GradingNumbers -> Nat] /\ backend.events[r] \in [GradingNumbers -> Nat]
          /\ Received(none, none, none).grades[r] \in [GradingNumbers -> Nat]
          /\ Received(none, none, none).events[r] \in [GradingNumbers -> Nat]
        BY <1>3, <1>4
    <2>2. ASSUME NEW g \in GradingNumbers
          PROVE  /\ Received(none, none, none).grades[r][g] = backend.grades[r][g]
                 /\ Received(none, none, none).events[r][g] = backend.events[r][g]
        <3>1. backend.grades[r][g] \in Nat /\ backend.events[r][g] \in Nat
            BY <2>1
        <3>2. /\ Received(none, none, none).grades[r][g] = backend.grades[r][g] + 0
              /\ Received(none, none, none).events[r][g] = backend.events[r][g] + 0
            <4>1. /\ Received(none, none, none).grades[r][g] = backend.grades[r][g] + (IF <<r, g>> \in none THEN 1 ELSE 0)
                  /\ Received(none, none, none).events[r][g] = backend.events[r][g] + (IF <<r, g>> \in none THEN 1 ELSE 0)
                BY ReceivedAt
            <4>. QED
                BY <1>0, <4>1
        <3>. QED
            BY <3>1, <3>2
    <2>. QED
        BY <2>1, <2>2
<1>7. Received(none, none, none).grades = backend.grades
    BY <1>3, <1>4, <1>6
<1>8. Received(none, none, none).events = backend.events
    BY <1>3, <1>4, <1>6
<1>. QED
    BY <1>0, <1>1, <1>2, <1>5, <1>7, <1>8 DEF BackendType

(* The empty backend. *)
LEMMA UntoldAt ==
    /\ Untold \in BackendType
    /\ \A r \in Traced : /\ Untold.usage[r] = 0
                         /\ \A g \in GradingNumbers : Untold.grades[r][g] = 0 /\ Untold.events[r][g] = 0
BY DEF Untold, BackendType, GradingNumbers

(* What a report publishes of a run is one of the gradings that began. *)
LEMMA GradedIsAGrading ==
    ASSUME ReplayTyped, GradeInv, NEW r \in Traced, records[r].graded # 0
    PROVE  records[r].graded \in GradingNumbers
<1>1. records[r].graded \in Nat /\ records[r].graded <= gradings
    BY DEF ReplayTyped, GradeInv, RecordType
<1>2. gradings \in Nat /\ gradings <= MaxGradings /\ MaxGradings \in Nat
    BY TraceReplayAssumption DEF ReplayTyped
<1>. QED
    BY <1>1, <1>2 DEF GradingNumbers

------------------------------------------------------------------------------
(* Each step keeps the invariant *)

(* A pass leaves a report that names what it told, and nothing else is told. *)
LEMMA PassLeaves == ReplayInit(TRUE) => ReplayInv
<1>1. SUFFICES ASSUME ReplayInit(TRUE) PROVE ReplayInv
    OBVIOUS
<1>2. PICK traced \in BOOLEAN : PassOver(traced)
    BY <1>1 DEF ReplayInit
<1>3. PICK came \in Outcomes, some \in SUBSET Traced :
         /\ records = [r \in Traced |-> [status |-> came[r], trace |-> traced /\ ~(\E q \in Traced : came[q] = "draft"),
                                         graded |-> 0, gradeTrace |-> FALSE]]
         /\ some \subseteq {r \in Traced : traced /\ came[r] \in {"answered", "draft"}}
         /\ ~(\E q \in Traced : came[q] = "draft") /\ traced => \A r \in Traced : came[r] = "answered" => r \in some
         /\ backend = [Untold EXCEPT !.usage = [r \in Traced |-> IF r \in some THEN 1 ELSE 0]]
    BY <1>2 DEF PassOver
<1>4. PICK live \in BOOLEAN : live <=> traced /\ ~(\E q \in Traced : came[q] = "draft")
    OBVIOUS
<1>5. came \in [Traced -> RunStatuses]
    BY TraceReplayAssumption
<1>6. \A r \in Traced : records[r] = [status |-> came[r], trace |-> live, graded |-> 0, gradeTrace |-> FALSE]
    BY <1>3, <1>4
<1>. HIDE DEF RunStatuses
<1>7. records \in [Traced -> RecordType]
    <2>1. ASSUME NEW r \in Traced PROVE records[r] \in RecordType
        <3>1. came[r] \in RunStatuses
            BY <1>5
        <3>2. records[r] = [status |-> came[r], trace |-> live, graded |-> 0, gradeTrace |-> FALSE]
            BY <1>6
        <3>. QED
            BY <3>1, <3>2 DEF RecordType
    <2>2. records = [r \in Traced |-> records[r]]
        BY <1>3
    <2>. QED
        BY <2>1, <2>2
<1>8. /\ backend \in BackendType
      /\ \A r \in Traced : /\ backend.usage[r] = IF r \in some THEN 1 ELSE 0
                           /\ \A g \in GradingNumbers : backend.grades[r][g] = 0 /\ backend.events[r][g] = 0
    <2>1. /\ backend.usage = [r \in Traced |-> IF r \in some THEN 1 ELSE 0]
          /\ backend.grades = Untold.grades /\ backend.events = Untold.events
          /\ backend = [usage |-> backend.usage, grades |-> backend.grades, events |-> backend.events]
        BY <1>3 DEF Untold
    <2>2. Untold.grades \in [Traced -> [GradingNumbers -> Nat]] /\ Untold.events \in [Traced -> [GradingNumbers -> Nat]]
        BY UntoldAt DEF BackendType
    <2>3. backend.usage \in [Traced -> Nat]
        BY <2>1
    <2>4. backend \in BackendType
        BY <2>1, <2>2, <2>3 DEF BackendType
    <2>. QED
        BY <2>1, <2>4, UntoldAt
<1>9. /\ grade = NoGrade /\ gradings = 0 /\ logged = {} /\ forgot = FALSE /\ exports = 0
      /\ ~grade.on
    BY <1>1 DEF ReplayInit, NoGrade
<1>. HIDE DEF RunStatuses, GradingNumbers, BackendType, RecordType
<1>10. \A r \in Traced : /\ records[r].status = came[r] /\ records[r].trace = live
                         /\ records[r].graded = 0 /\ ~records[r].gradeTrace
    <2>1. ASSUME NEW r \in Traced
          PROVE  /\ records[r].status = came[r] /\ records[r].trace = live
                 /\ records[r].graded = 0 /\ ~records[r].gradeTrace
        <3>1. records[r] = [status |-> came[r], trace |-> live, graded |-> 0, gradeTrace |-> FALSE]
            BY <1>6
        <3>. QED
            BY <3>1
    <2>. QED
        BY <2>1
<1>. QED
    <2>1. ReplayTyped
        <3>1. gradings \in Nat /\ gradings <= MaxGradings /\ logged \subseteq 1..gradings
            BY <1>9, TraceReplayAssumption
        <3>. QED
            BY <1>7, <1>8, <1>9, <3>1 DEF ReplayTyped
    <2>2. GradeInv
        BY <1>9, <1>10 DEF GradeInv
    <2>3. ToldLive
        <3>1. ASSUME NEW r \in Traced, came[r] = "answered", live
              PROVE  backend.usage[r] >= 1
            BY <1>3, <1>4, <1>8, <3>1
        <3>. QED
            BY <1>10, <3>1 DEF ToldLive, WasAnswered, WasGraded
    <2>4. ToldOnce
        <3>1. ASSUME NEW r \in Traced
              PROVE  /\ backend.usage[r] <= (IF records[r].status \in {"answered", "draft"} THEN 1 ELSE 0)
                     /\ WasAnswered(r) /\ ~records[r].trace => backend.usage[r] = 0
                     /\ ~WasGraded(r)
            <4>1. records[r].status = came[r] /\ records[r].trace = live /\ records[r].graded = 0
                BY <1>10
            <4>2. backend.usage[r] = IF r \in some THEN 1 ELSE 0
                BY <1>8
            <4>3. r \in some => traced /\ came[r] \in {"answered", "draft"}
                BY <1>3
            <4>4. came[r] = "answered" => ~(\E q \in Traced : came[q] = "draft")
                BY TraceReplayAssumption
            <4>. QED
                BY <1>4, <4>1, <4>2, <4>3, <4>4 DEF WasAnswered, WasGraded
        <3>2. ASSUME NEW r \in Traced, NEW g \in GradingNumbers
              PROVE  /\ backend.grades[r][g] = 0 /\ backend.events[r][g] = 0
                     /\ backend.grades[r][g] <= 1 /\ backend.events[r][g] <= 1
            BY <1>8
        <3>3. /\ \A r \in Traced : ~WasGraded(r)
              /\ ~grade.on
            BY <1>9, <3>1
        <3>. QED
            BY <3>1, <3>2, <3>3 DEF ToldOnce
    <2>. QED
        BY <2>1, <2>2, <2>3, <2>4 DEF ReplayInv

(* A command that begins to grade has told of nothing yet. *)
LEMMA BeginKeeps ==
    ASSUME ReplayInv, BeginGrade
    PROVE  ReplayInv'
<1>1. PICK env \in Environments :
         /\ grade' = [on |-> TRUE, root |-> env.root, logs |-> env.logs,
                      left |-> {r \in Traced : HasStarted(r)}]
         /\ logged' = IF env.logs THEN logged \cup {gradings + 1} ELSE logged
    BY DEF BeginGrade
<1>2. /\ ~grade.on /\ gradings < MaxGradings /\ gradings' = gradings + 1
      /\ records' = records /\ backend' = backend /\ forgot' = forgot /\ exports' = exports
    BY DEF BeginGrade
<1>3. PICK root \in BOOLEAN, logs \in BOOLEAN : root = env.root /\ logs = env.logs
    BY DEF Environments
<1>4. grade' = [on |-> TRUE, root |-> root, logs |-> logs, left |-> {r \in Traced : HasStarted(r)}]
    BY <1>1, <1>3
<1>5. gradings \in Nat /\ logged \subseteq 1..gradings /\ records \in [Traced -> RecordType]
    BY DEF ReplayInv, ReplayTyped
<1>6. \A r \in Traced : records[r].graded <= gradings /\ records[r].graded \in Nat
    BY <1>5 DEF ReplayInv, GradeInv, RecordType
<1>7. logs <=> gradings' \in logged'
    BY <1>1, <1>2, <1>3, <1>5
<1>8. \A g \in Nat : g <= gradings => (g \in logged' <=> g \in logged)
    BY <1>1, <1>5
<1>9. ReplayTyped'
    <2>1. grade' \in GradeType
        BY <1>4 DEF GradeType
    <2>2. logged' \subseteq 1..gradings'
        BY <1>1, <1>2, <1>5
    <2>3. gradings' \in Nat /\ gradings' <= MaxGradings
        BY <1>2, <1>5, TraceReplayAssumption
    <2>. QED
        BY <1>2, <2>1, <2>2, <2>3 DEF ReplayInv, ReplayTyped
<1>10. GradeInv'
    BY <1>2, <1>4, <1>5, <1>6, <1>7 DEF ReplayInv, GradeInv, HasStarted
<1>11. ToldLive'
    <2>1. \A r \in Traced : records[r].graded \in logged' <=> records[r].graded \in logged
        BY <1>6, <1>8
    <2>. QED
        BY <1>2, <2>1 DEF ReplayInv, ToldLive, WasAnswered, WasGraded
<1>12. ToldOnce'
    <2>1. ASSUME exports = 0, NEW r \in Traced, NEW g \in GradingNumbers
          PROVE  /\ backend.grades[r][g] <= 1 /\ backend.events[r][g] <= 1
                 /\ g > gradings => backend.grades[r][g] = 0 /\ backend.events[r][g] = 0
                 /\ g \notin logged' => backend.events[r][g] = 0
        <3>1. /\ backend.grades[r][g] <= 1 /\ backend.events[r][g] <= 1
              /\ g > gradings => backend.grades[r][g] = 0
              /\ g \notin logged => backend.events[r][g] = 0
            BY <2>1 DEF ReplayInv, ToldOnce
        <3>2. g > gradings => g \notin logged
            BY <1>5 DEF GradingNumbers
        <3>3. g \notin logged' => g \notin logged
            BY <1>1
        <3>. QED
            BY <3>1, <3>2, <3>3
    <2>2. ASSUME exports = 0, NEW r \in Traced
          PROVE  /\ backend.usage[r] <= (IF records[r].status \in {"answered", "draft"} THEN 1 ELSE 0)
                 /\ WasAnswered(r) /\ ~records[r].trace => backend.usage[r] = 0
                 /\ WasGraded(r) /\ ~records[r].gradeTrace => backend.grades[r][records[r].graded] = 0
        BY <2>2 DEF ReplayInv, ToldOnce
    <2>3. \A g \in GradingNumbers : g \in Nat /\ (g = gradings' => g > gradings) /\ (g > gradings' => g > gradings)
        BY <1>2, <1>5 DEF GradingNumbers
    <2>. QED
        BY <1>2, <2>1, <2>2, <2>3 DEF ToldOnce, WasAnswered, WasGraded
<1>. QED
    BY <1>9, <1>10, <1>11, <1>12 DEF ReplayInv

(* A run of the grade under way is told of, once: its spans when the command
   traces, its events when it logs. *)
LEMMA TellKeeps ==
    ASSUME ReplayInv, TellOfGrade
    PROVE  ReplayInv'
<1>1. PICK r \in grade.left :
         /\ grade' = [grade EXCEPT !.left = @ \ {r}]
         /\ backend' = Received({}, IF grade.root THEN {<<r, gradings>>} ELSE {},
                                IF grade.logs THEN {<<r, gradings>>} ELSE {})
    BY DEF TellOfGrade
<1>2. /\ grade.on /\ records' = records /\ gradings' = gradings /\ logged' = logged
      /\ forgot' = forgot /\ exports' = exports
    BY DEF TellOfGrade
<1>3. grade \in GradeType
    BY <1>2 DEF ReplayInv, ReplayTyped, NoGrade
<1>4. /\ grade' \in GradeType /\ grade'.on /\ grade'.root = grade.root /\ grade'.logs = grade.logs
      /\ grade'.left = grade.left \ {r}
      /\ r \in Traced
    BY <1>1, <1>3 DEF GradeType
<1>5. PICK U, G, E : /\ U = {}
                     /\ G = (IF grade.root THEN {<<r, gradings>>} ELSE {})
                     /\ E = (IF grade.logs THEN {<<r, gradings>>} ELSE {})
    OBVIOUS
<1>6. backend' = Received(U, G, E)
    BY <1>1, <1>5
<1>7. backend' \in BackendType
    BY <1>6, ReceivedAt DEF ReplayInv
<1>8. ASSUME NEW q \in Traced PROVE backend'.usage[q] = backend.usage[q]
    <2>1. backend'.usage[q] = backend.usage[q] + (IF q \in U THEN 1 ELSE 0)
        BY <1>6, ReceivedAt DEF ReplayInv
    <2>2. backend.usage[q] \in Nat
        BY DEF ReplayInv, ReplayTyped, BackendType
    <2>. QED
        BY <1>5, <2>1, <2>2
<1>9. ASSUME NEW q \in Traced, NEW g \in GradingNumbers
      PROVE  /\ backend.grades[q][g] \in Nat /\ backend.events[q][g] \in Nat
             /\ backend'.grades[q][g] = backend.grades[q][g] + (IF grade.root /\ q = r /\ g = gradings THEN 1 ELSE 0)
             /\ backend'.events[q][g] = backend.events[q][g] + (IF grade.logs /\ q = r /\ g = gradings THEN 1 ELSE 0)
    <2>1. /\ backend'.grades[q][g] = backend.grades[q][g] + (IF <<q, g>> \in G THEN 1 ELSE 0)
          /\ backend'.events[q][g] = backend.events[q][g] + (IF <<q, g>> \in E THEN 1 ELSE 0)
        BY <1>6, ReceivedAt DEF ReplayInv
    <2>2. /\ <<q, g>> \in G <=> grade.root /\ q = r /\ g = gradings
          /\ <<q, g>> \in E <=> grade.logs /\ q = r /\ g = gradings
        BY <1>5
    <2>3. /\ backend.grades[q] \in [GradingNumbers -> Nat] /\ backend.events[q] \in [GradingNumbers -> Nat]
        BY DEF ReplayInv, ReplayTyped, BackendType
    <2>. QED
        BY <2>1, <2>2, <2>3
<1>10. gradings \in GradingNumbers
    BY <1>2 DEF ReplayInv, ReplayTyped, GradeInv, GradingNumbers
<1>11. \A q \in Traced : records[q].graded \in Nat /\ records[q].graded < gradings
    BY <1>2 DEF ReplayInv, ReplayTyped, GradeInv, RecordType
<1>12. ReplayTyped'
    BY <1>2, <1>4, <1>7 DEF ReplayInv, ReplayTyped
<1>13. GradeInv'
    <2>1. ASSUME NEW q \in Traced, HasStarted(q), q \notin grade'.left
          PROVE  /\ grade.root => backend'.grades[q][gradings] >= 1
                 /\ grade.logs => backend'.events[q][gradings] >= 1
        <3>1. q = r \/ (/\ grade.root => backend.grades[q][gradings] >= 1
                        /\ grade.logs => backend.events[q][gradings] >= 1)
            BY <1>2, <1>4, <2>1 DEF ReplayInv, GradeInv
        <3>. QED
            BY <1>9, <1>10, <3>1
    <2>. QED
        BY <1>2, <1>4, <2>1 DEF ReplayInv, GradeInv, HasStarted
<1>14. ToldLive'
    <2>1. ASSUME ~forgot, NEW q \in Traced
          PROVE  /\ WasAnswered(q) /\ records[q].trace => backend'.usage[q] >= 1
                 /\ records[q].gradeTrace => backend'.grades[q][records[q].graded] >= 1
                 /\ WasGraded(q) /\ records[q].graded \in logged => backend'.events[q][records[q].graded] >= 1
        <3>1. /\ WasAnswered(q) /\ records[q].trace => backend.usage[q] >= 1
              /\ records[q].gradeTrace => backend.grades[q][records[q].graded] >= 1 /\ records[q].graded # 0
              /\ WasGraded(q) /\ records[q].graded \in logged => backend.events[q][records[q].graded] >= 1
            BY <2>1 DEF ReplayInv, ToldLive, GradeInv
        <3>2. records[q].graded # 0 => records[q].graded \in GradingNumbers
            BY GradedIsAGrading DEF ReplayInv
        <3>3. WasGraded(q) => records[q].graded # 0
            BY DEF WasGraded
        <3>4. records[q].graded # 0 =>
                 /\ backend'.grades[q][records[q].graded] >= backend.grades[q][records[q].graded]
                 /\ backend'.events[q][records[q].graded] >= backend.events[q][records[q].graded]
                 /\ backend.grades[q][records[q].graded] \in Nat /\ backend'.grades[q][records[q].graded] \in Nat
                 /\ backend.events[q][records[q].graded] \in Nat /\ backend'.events[q][records[q].graded] \in Nat
            BY <1>9, <3>2
        <3>. QED
            BY <1>8, <3>1, <3>3, <3>4
    <2>. QED
        BY <1>2, <2>1 DEF ToldLive, WasAnswered, WasGraded
<1>15. ToldOnce'
    <2>1. ASSUME exports = 0, NEW q \in Traced
          PROVE  /\ backend'.usage[q] <= (IF records[q].status \in {"answered", "draft"} THEN 1 ELSE 0)
                 /\ WasAnswered(q) /\ ~records[q].trace => backend'.usage[q] = 0
                 /\ WasGraded(q) /\ ~records[q].gradeTrace => backend'.grades[q][records[q].graded] = 0
        <3>1. /\ backend.usage[q] <= (IF records[q].status \in {"answered", "draft"} THEN 1 ELSE 0)
              /\ WasAnswered(q) /\ ~records[q].trace => backend.usage[q] = 0
              /\ WasGraded(q) /\ ~records[q].gradeTrace => backend.grades[q][records[q].graded] = 0
            BY <2>1 DEF ReplayInv, ToldOnce
        <3>2. records[q].graded # 0 => records[q].graded \in GradingNumbers /\ records[q].graded # gradings
            BY <1>11, GradedIsAGrading DEF ReplayInv
        <3>3. records[q].graded # 0 => backend'.grades[q][records[q].graded] = backend.grades[q][records[q].graded]
            BY <1>9, <3>2
        <3>. QED
            BY <1>8, <3>1, <3>3 DEF WasGraded
    <2>2. ASSUME exports = 0, NEW q \in Traced, NEW g \in GradingNumbers
          PROVE  /\ backend'.grades[q][g] <= 1 /\ backend'.events[q][g] <= 1
                 /\ g > gradings => backend'.grades[q][g] = 0
                 /\ g \notin logged => backend'.events[q][g] = 0
                 /\ g = gradings /\ (q \in grade'.left \/ ~grade.root) => backend'.grades[q][g] = 0
                 /\ g = gradings /\ q \in grade'.left => backend'.events[q][g] = 0
        <3>1. /\ backend.grades[q][g] <= 1 /\ backend.events[q][g] <= 1
              /\ g > gradings => backend.grades[q][g] = 0
              /\ g \notin logged => backend.events[q][g] = 0
              /\ g = gradings /\ (q \in grade.left \/ ~grade.root) => backend.grades[q][g] = 0
              /\ g = gradings /\ q \in grade.left => backend.events[q][g] = 0
            BY <1>2, <2>2 DEF ReplayInv, ToldOnce
        <3>2. grade.logs <=> gradings \in logged
            BY <1>2 DEF ReplayInv, GradeInv
        <3>3. g > gradings => g # gradings
            BY <1>10 DEF GradingNumbers
        <3>. QED
            BY <1>4, <1>9, <3>1, <3>2, <3>3
    <2>. QED
        BY <1>2, <1>4, <2>1, <2>2 DEF ToldOnce, WasAnswered, WasGraded
<1>. QED
    BY <1>12, <1>13, <1>14, <1>15 DEF ReplayInv

(* A command publishes what it has told of every run that started. *)
LEMMA PublishKeeps ==
    ASSUME ReplayInv, PublishGrade
    PROVE  ReplayInv'
<1>1. /\ grade.on /\ grade.left = {} /\ grade' = NoGrade /\ ~grade'.on
      /\ backend' = backend /\ gradings' = gradings /\ logged' = logged
      /\ forgot' = forgot /\ exports' = exports
    BY DEF PublishGrade, NoGrade
<1>2. grade \in GradeType
    BY <1>1 DEF ReplayInv, ReplayTyped, NoGrade
<1>3. PICK root \in BOOLEAN : root = grade.root
    BY <1>2 DEF GradeType
<1>4. gradings \in GradingNumbers /\ gradings \in Nat /\ gradings >= 1
    BY <1>1 DEF ReplayInv, ReplayTyped, GradeInv, GradingNumbers
<1>5. records \in [Traced -> RecordType]
    BY DEF ReplayInv, ReplayTyped
<1>6. records' = [r \in Traced |->
         IF HasStarted(r) THEN [records[r] EXCEPT !.graded = gradings, !.gradeTrace = root] ELSE records[r]]
    BY <1>3 DEF PublishGrade, NewGradeTrace
<1>7. ASSUME NEW r \in Traced
      PROVE  /\ records'[r] \in RecordType
             /\ records'[r].status = records[r].status /\ records'[r].trace = records[r].trace
             /\ HasStarted(r) => records'[r].graded = gradings /\ records'[r].gradeTrace = root
             /\ ~HasStarted(r) => records'[r] = records[r]
    <2>1. records[r] \in RecordType
        BY <1>5
    <2>2. CASE HasStarted(r)
        <3>1. records'[r] = [records[r] EXCEPT !.graded = gradings, !.gradeTrace = root]
            BY <1>6, <2>2
        <3>. QED
            BY <1>4, <2>1, <2>2, <3>1 DEF RecordType
    <2>3. CASE ~HasStarted(r)
        BY <1>6, <2>1, <2>3
    <2>. QED
        BY <2>2, <2>3
<1>8. ReplayTyped'
    <2>1. records' \in [Traced -> RecordType]
        BY <1>6, <1>7
    <2>. QED
        BY <1>1, <2>1 DEF ReplayInv, ReplayTyped
<1>9. GradeInv'
    <2>1. ASSUME NEW r \in Traced
          PROVE  records'[r].graded <= gradings /\ (records'[r].gradeTrace => records'[r].graded # 0)
        <3>1. records[r].graded <= gradings /\ (records[r].gradeTrace => records[r].graded # 0)
            BY DEF ReplayInv, GradeInv
        <3>. QED
            BY <1>4, <1>7, <3>1
    <2>. QED
        BY <1>1, <2>1 DEF GradeInv
<1>10. ToldLive'
    <2>1. ASSUME ~forgot, NEW r \in Traced
          PROVE  /\ records'[r].status = "answered" /\ records'[r].trace => backend.usage[r] >= 1
                 /\ records'[r].gradeTrace => backend.grades[r][records'[r].graded] >= 1
                 /\ records'[r].graded # 0 /\ records'[r].graded \in logged =>
                       backend.events[r][records'[r].graded] >= 1
        <3>1. /\ records[r].status = "answered" /\ records[r].trace => backend.usage[r] >= 1
              /\ records[r].gradeTrace => backend.grades[r][records[r].graded] >= 1
              /\ records[r].graded # 0 /\ records[r].graded \in logged => backend.events[r][records[r].graded] >= 1
            BY <2>1 DEF ReplayInv, ToldLive, WasAnswered, WasGraded
        <3>2. HasStarted(r) => /\ root => backend.grades[r][gradings] >= 1
                               /\ gradings \in logged => backend.events[r][gradings] >= 1
            BY <1>1, <1>3 DEF ReplayInv, GradeInv
        <3>. QED
            BY <1>7, <3>1, <3>2
    <2>. QED
        BY <1>1, <2>1 DEF ToldLive, WasAnswered, WasGraded
<1>11. ToldOnce'
    <2>1. ASSUME exports = 0, NEW r \in Traced
          PROVE  /\ backend.usage[r] <= (IF records'[r].status \in {"answered", "draft"} THEN 1 ELSE 0)
                 /\ records'[r].status = "answered" /\ ~records'[r].trace => backend.usage[r] = 0
                 /\ records'[r].graded # 0 /\ ~records'[r].gradeTrace => backend.grades[r][records'[r].graded] = 0
        <3>1. /\ backend.usage[r] <= (IF records[r].status \in {"answered", "draft"} THEN 1 ELSE 0)
              /\ records[r].status = "answered" /\ ~records[r].trace => backend.usage[r] = 0
              /\ records[r].graded # 0 /\ ~records[r].gradeTrace => backend.grades[r][records[r].graded] = 0
            BY <2>1 DEF ReplayInv, ToldOnce, WasAnswered, WasGraded
        <3>2. ~root => backend.grades[r][gradings] = 0
            BY <1>1, <1>3, <1>4, <2>1 DEF ReplayInv, ToldOnce
        <3>. QED
            BY <1>7, <3>1, <3>2
    <2>2. ASSUME exports = 0, NEW r \in Traced, NEW g \in GradingNumbers
          PROVE  /\ backend.grades[r][g] <= 1 /\ backend.events[r][g] <= 1
                 /\ g > gradings => backend.grades[r][g] = 0
                 /\ g \notin logged => backend.events[r][g] = 0
        BY <2>2 DEF ReplayInv, ToldOnce
    <2>. QED
        BY <1>1, <2>1, <2>2 DEF ToldOnce, WasAnswered, WasGraded
<1>. QED
    BY <1>8, <1>9, <1>10, <1>11 DEF ReplayInv

(* A command that breaks off publishes nothing. *)
LEMMA BreakOffKeeps ==
    ASSUME ReplayInv, BreakOffGrade
    PROVE  ReplayInv'
<1>1. /\ grade' = NoGrade /\ ~grade'.on /\ records' = records /\ backend' = backend
      /\ gradings' = gradings /\ logged' = logged /\ forgot' = forgot /\ exports' = exports
    BY DEF BreakOffGrade, NoGrade
<1>2. ReplayTyped'
    BY <1>1 DEF ReplayInv, ReplayTyped
<1>3. GradeInv' /\ ToldLive'
    BY <1>1 DEF ReplayInv, GradeInv, ToldLive, WasAnswered, WasGraded
<1>4. ToldOnce'
    BY <1>1 DEF ReplayInv, ToldOnce, WasAnswered, WasGraded
<1>. QED
    BY <1>2, <1>3, <1>4 DEF ReplayInv

(* A backend that lost everything was told nothing twice. *)
LEMMA ForgetKeeps ==
    ASSUME ReplayInv, Forget
    PROVE  ReplayInv'
<1>1. /\ ~grade.on /\ forgot' = TRUE /\ backend' = Untold
      /\ records' = records /\ grade' = grade /\ gradings' = gradings /\ logged' = logged /\ exports' = exports
    BY DEF Forget
<1>2. ReplayTyped'
    BY <1>1, UntoldAt DEF ReplayInv, ReplayTyped
<1>3. GradeInv' /\ ToldLive'
    BY <1>1 DEF ReplayInv, GradeInv, ToldLive
<1>4. ToldOnce'
    <2>1. ASSUME NEW r \in Traced
          PROVE  /\ Untold.usage[r] = 0
                 /\ WasGraded(r) => Untold.grades[r][records[r].graded] = 0
        <3>1. WasGraded(r) => records[r].graded \in GradingNumbers
            BY GradedIsAGrading DEF WasGraded, ReplayInv
        <3>. QED
            BY <3>1, UntoldAt
    <2>2. ASSUME NEW r \in Traced, NEW g \in GradingNumbers
          PROVE  /\ Untold.grades[r][g] = 0 /\ Untold.events[r][g] = 0
                 /\ Untold.grades[r][g] <= 1 /\ Untold.events[r][g] <= 1
        BY UntoldAt
    <2>. QED
        BY <1>1, <2>1, <2>2 DEF ToldOnce, WasAnswered, WasGraded
<1>. QED
    BY <1>2, <1>3, <1>4 DEF ReplayInv

------------------------------------------------------------------------------
(* The export *)

(* What the user of an export is answered. *)
LEMMA RepliesSay ==
    ASSUME NEW said, NEW include \in BOOLEAN, NEW env \in Environments, Replies(said, include, env)
    PROVE  /\ answer'.said = said /\ answer'.include = include /\ answer'.logs = env.logs
           /\ answer'.sent <=> backend' # backend
           /\ answer'.mixed <=> env.root /\ ~env.joins
           /\ answer'.first <=> exports = 0
<1>1. PICK sent, mixed, first : /\ sent = (backend' # backend) /\ mixed = (env.root /\ ~env.joins)
                                /\ first = (exports = 0)
    OBVIOUS
<1>2. answer' = [said |-> said, include |-> include, logs |-> env.logs, sent |-> sent,
                 mixed |-> mixed, first |-> first]
    BY <1>1, Zenon DEF Replies
<1>3. /\ answer'.said = said /\ answer'.include = include /\ answer'.logs = env.logs
      /\ answer'.sent = sent /\ answer'.mixed = mixed /\ answer'.first = first
    BY <1>2
<1>4. (sent <=> backend' # backend) /\ (mixed <=> env.root /\ ~env.joins) /\ (first <=> exports = 0)
    BY <1>1, Zenon
<1>. QED
    BY <1>3, <1>4, Zenon

(* The grades to tell of some runs name gradings that began. *)
LEMMA GradesToTellAre ==
    ASSUME ReplayInv, NEW include \in BOOLEAN, NEW runs \in SUBSET Traced
    PROVE  /\ GradesToTell(runs, include) \subseteq Traced \X GradingNumbers
           /\ GradesToTell(runs, include) \subseteq GradesToTell(Traced, include)
           /\ \A r \in runs, g \in GradingNumbers : <<r, g>> \in GradesToTell(runs, include) <=>
                 g = records[r].graded /\ WasGraded(r) /\ ReplaysGrade(r, include)
<1>1. \A r \in Traced : WasGraded(r) => records[r].graded \in GradingNumbers
    BY GradedIsAGrading DEF ReplayInv, WasGraded
<1>. QED
    BY <1>1 DEF GradesToTell

(* What an export tells the backend of: the usage of some runs, and some
   gradings with their events when it logs. *)
Tells(U, G, logs) == backend' = Received(U, G, IF logs THEN G ELSE {})

(* An export only adds: the backend is told the usage of the runs and the
   grades that the answer rests on, and of nothing when tracing was off. *)
LEMMA ExportSends ==
    ASSUME ReplayInv, Export
    PROVE  \E include \in BOOLEAN, logs \in BOOLEAN, U \in SUBSET Traced, G \in SUBSET (Traced \X GradingNumbers) :
              /\ Tells(U, G, logs)
              /\ U \subseteq {r \in RunsToTell(include) : WasAnswered(r)}
              /\ G \subseteq GradesToTell(Traced, include)
              /\ answer'.said \in {"exported", "nothing"} =>
                    U = {r \in RunsToTell(include) : WasAnswered(r)} /\ G = GradesToTell(Traced, include)
              /\ answer'.said = "tracing_off" /\ ~answer'.mixed => ~answer'.sent
              /\ answer'.include = include /\ answer'.logs = logs
              /\ answer'.first <=> exports = 0
<1>1. PICK include \in BOOLEAN, env \in Environments :
         ExportNothing(include, env) \/ ExportOff(include, env) \/ ExportAll(include, env)
    BY DEF Export
<1>2. env.logs \in BOOLEAN /\ env.root \in BOOLEAN /\ env.joins \in BOOLEAN
    BY DEF Environments
<1>3. RunsToTell(include) \in SUBSET Traced
    BY DEF RunsToTell
<1>4. /\ GradesToTell(Traced, include) \in SUBSET (Traced \X GradingNumbers)
      /\ GradesToTell(RunsToTell(include), include) \subseteq GradesToTell(Traced, include)
    BY <1>3, GradesToTellAre
<1>5. PICK none : none = {}
    OBVIOUS
<1>6. Received(none, none, none) = backend /\ none \in SUBSET Traced /\ none \in SUBSET (Traced \X GradingNumbers)
    BY <1>5, ReceivedNothing DEF ReplayInv
<1>7. ASSUME NEW said, Replies(said, include, env)
      PROVE  /\ answer'.said = said /\ answer'.include = include /\ answer'.logs = env.logs
             /\ answer'.sent <=> backend' # backend
             /\ answer'.mixed <=> env.root /\ ~env.joins
             /\ answer'.first <=> exports = 0
    BY <1>7, RepliesSay
<1>8. CASE ExportNothing(include, env)
    <2>1. RunsToTell(include) = {} /\ GradesToTell(Traced, include) = {} /\ backend' = backend
        BY <1>8 DEF ExportNothing
    <2>2. Replies("nothing", include, env)
        BY <1>8 DEF ExportNothing
    <2>3. none = {r \in RunsToTell(include) : WasAnswered(r)} /\ none = GradesToTell(Traced, include)
        BY <1>5, <2>1
    <2>4. Tells(none, none, env.logs)
        BY <1>5, <1>6, <2>1 DEF Tells
    <2>. QED
        BY <1>2, <1>6, <1>7, <2>2, <2>3, <2>4
<1>9. CASE ExportOff(include, env)
    <2>1. Replies("tracing_off", include, env)
        BY <1>9 DEF ExportOff
    <2>2. answer'.said = "tracing_off" /\ answer'.said \notin {"exported", "nothing"}
        BY <1>7, <2>1
    <2>3. CASE SuiteIsDropped(include, env)
        <3>1. backend' = backend
            BY <1>9, <2>3 DEF ExportOff
        <3>2. Tells(none, none, env.logs)
            BY <1>5, <1>6, <3>1 DEF Tells
        <3>3. none \subseteq {r \in RunsToTell(include) : WasAnswered(r)} /\ none \subseteq GradesToTell(Traced, include)
            BY <1>5
        <3>. QED
            BY <1>2, <1>6, <1>7, <2>1, <2>2, <3>1, <3>2, <3>3
    <2>4. CASE ~SuiteIsDropped(include, env)
        <3>1. PICK U, G : U = {r \in RunsToTell(include) : WasAnswered(r)} /\ G = GradesToTell(RunsToTell(include), include)
            OBVIOUS
        <3>2. Tells(U, G, env.logs)
            BY <1>9, <2>4, <3>1 DEF ExportOff, Tells
        <3>3. /\ U \in SUBSET Traced /\ U \subseteq {r \in RunsToTell(include) : WasAnswered(r)}
              /\ G \in SUBSET (Traced \X GradingNumbers) /\ G \subseteq GradesToTell(Traced, include)
            BY <1>3, <1>4, <3>1
        <3>4. ~answer'.mixed => backend' = backend
            <4>1. SUFFICES ASSUME ~(env.root /\ ~env.joins) PROVE backend' = backend
                BY <1>7, <2>1
            <4>2. ~env.joins
                BY <1>9, <2>4 DEF ExportOff, GradeIsDropped
            <4>3. RunsToTell(include) = {}
                BY <2>4, <4>1, <4>2 DEF SuiteIsDropped
            <4>4. U = none /\ G = none
                BY <1>5, <3>1, <4>3 DEF GradesToTell
            <4>. QED
                BY <1>5, <1>6, <3>2, <4>4 DEF Tells
        <3>. QED
            BY <1>2, <1>7, <2>1, <2>2, <3>2, <3>3, <3>4
    <2>. QED
        BY <2>3, <2>4
<1>10. CASE ExportAll(include, env)
    <2>1. Replies("exported", include, env)
        BY <1>10 DEF ExportAll
    <2>2. PICK U, G : U = {r \in RunsToTell(include) : WasAnswered(r)} /\ G = GradesToTell(Traced, include)
        OBVIOUS
    <2>3. Tells(U, G, env.logs)
        BY <1>10, <2>2 DEF ExportAll, Tells
    <2>4. U \in SUBSET Traced /\ G \in SUBSET (Traced \X GradingNumbers)
        BY <1>3, <1>4, <2>2
    <2>5. answer'.said # "tracing_off"
        BY <1>7, <2>1
    <2>. QED
        BY <1>2, <1>7, <2>1, <2>2, <2>3, <2>4, <2>5
<1>. QED
    BY <1>1, <1>8, <1>9, <1>10

(* Whether a grading of a run is among those told of. *)
Names(G, r, g) == <<r, g>> \in G

(* A run is told of as far as the export names it, on top of what was held. *)
Adds(U, G, logs, r) ==
    /\ backend' \in BackendType
    /\ backend.usage[r] \in Nat
    /\ (r \in U => backend'.usage[r] = backend.usage[r] + 1)
    /\ (r \notin U => backend'.usage[r] = backend.usage[r])
    /\ \A g \in GradingNumbers :
         /\ backend.grades[r][g] \in Nat /\ backend.events[r][g] \in Nat
         /\ (Names(G, r, g) => backend'.grades[r][g] = backend.grades[r][g] + 1)
         /\ (~Names(G, r, g) => backend'.grades[r][g] = backend.grades[r][g])
         /\ (logs /\ Names(G, r, g) => backend'.events[r][g] = backend.events[r][g] + 1)
         /\ (~logs \/ ~Names(G, r, g) => backend'.events[r][g] = backend.events[r][g])

(* What an export adds, run by run. *)
LEMMA ExportAdds ==
    ASSUME ReplayInv, NEW logs \in BOOLEAN,
           NEW U \in SUBSET Traced, NEW G \in SUBSET (Traced \X GradingNumbers),
           Tells(U, G, logs),
           NEW r \in Traced
    PROVE  Adds(U, G, logs, r)
<1>1. PICK E : E = (IF logs THEN G ELSE {})
    OBVIOUS
<1>2. backend' = Received(U, G, E)
    BY <1>1 DEF Tells
<1>3. \A g : <<r, g>> \in E <=> logs /\ <<r, g>> \in G
    BY <1>1
<1>4. /\ backend.usage \in [Traced -> Nat]
      /\ backend.grades[r] \in [GradingNumbers -> Nat] /\ backend.events[r] \in [GradingNumbers -> Nat]
    BY DEF ReplayInv, ReplayTyped, BackendType
<1>5. backend' \in BackendType /\ backend'.usage[r] = backend.usage[r] + (IF r \in U THEN 1 ELSE 0)
    BY <1>2, ReceivedAt DEF ReplayInv
<1>6. ASSUME NEW g \in GradingNumbers
      PROVE  /\ backend.grades[r][g] \in Nat /\ backend.events[r][g] \in Nat
             /\ backend'.grades[r][g] = backend.grades[r][g] + (IF <<r, g>> \in G THEN 1 ELSE 0)
             /\ backend'.events[r][g] = backend.events[r][g] + (IF logs /\ <<r, g>> \in G THEN 1 ELSE 0)
    <2>1. /\ backend'.grades[r][g] = backend.grades[r][g] + (IF <<r, g>> \in G THEN 1 ELSE 0)
          /\ backend'.events[r][g] = backend.events[r][g] + (IF <<r, g>> \in E THEN 1 ELSE 0)
        BY <1>2, ReceivedAt DEF ReplayInv
    <2>. QED
        BY <1>3, <1>4, <2>1
<1>. QED
    BY <1>4, <1>5, <1>6 DEF Names, Adds

(* An export takes nothing back of what was told live. *)
LEMMA ExportKeeps ==
    ASSUME ReplayInv, Export
    PROVE  ReplayInv'
<1>1. /\ records' = records /\ grade' = grade /\ gradings' = gradings /\ logged' = logged
      /\ forgot' = forgot /\ exports' = exports + 1
    BY DEF Export
<1>2. PICK include \in BOOLEAN, logs \in BOOLEAN, U \in SUBSET Traced, G \in SUBSET (Traced \X GradingNumbers) :
         Tells(U, G, logs)
    BY ExportSends
<1>3. ASSUME NEW r \in Traced
      PROVE  /\ \A n \in Nat : backend.usage[r] >= n => backend'.usage[r] >= n
             /\ \A g \in GradingNumbers, n \in Nat :
                  /\ backend.grades[r][g] >= n => backend'.grades[r][g] >= n
                  /\ backend.events[r][g] >= n => backend'.events[r][g] >= n
    <2>0. Adds(U, G, logs, r)
        BY <1>2, ExportAdds
    <2>1. /\ backend.usage[r] \in Nat
          /\ (r \in U => backend'.usage[r] = backend.usage[r] + 1)
          /\ (r \notin U => backend'.usage[r] = backend.usage[r])
        BY <2>0 DEF Adds
    <2>2. ASSUME NEW g \in GradingNumbers
          PROVE  /\ backend.grades[r][g] \in Nat /\ backend.events[r][g] \in Nat
                 /\ (Names(G, r, g) => backend'.grades[r][g] = backend.grades[r][g] + 1)
                 /\ (~Names(G, r, g) => backend'.grades[r][g] = backend.grades[r][g])
                 /\ (logs /\ Names(G, r, g) => backend'.events[r][g] = backend.events[r][g] + 1)
                 /\ (~logs \/ ~Names(G, r, g) => backend'.events[r][g] = backend.events[r][g])
        BY <2>0 DEF Adds
    <2>3. ASSUME NEW g \in GradingNumbers, NEW n \in Nat
          PROVE  /\ backend.grades[r][g] >= n => backend'.grades[r][g] >= n
                 /\ backend.events[r][g] >= n => backend'.events[r][g] >= n
        BY <2>2
    <2>. QED
        BY <2>1, <2>3
<1>4. exports \in Nat /\ exports' \in Nat /\ exports' # 0
    BY <1>1 DEF ReplayInv, ReplayTyped
<1>5. ReplayTyped'
    <2>1. backend' \in BackendType
        <3>1. Received(U, G, IF logs THEN G ELSE {}) \in BackendType
            BY ReceivedAt DEF ReplayInv
        <3>. QED
            BY <1>2, <3>1 DEF Tells
    <2>. QED
        BY <1>1, <1>4, <2>1 DEF ReplayInv, ReplayTyped
<1>6. GradeInv'
    <2>1. grade.on => gradings \in GradingNumbers
        BY DEF ReplayInv, ReplayTyped, GradeInv, GradingNumbers
    <2>2. ASSUME grade.on, NEW r \in Traced, HasStarted(r), r \notin grade.left
          PROVE  /\ grade.root => backend'.grades[r][gradings] >= 1
                 /\ grade.logs => backend'.events[r][gradings] >= 1
        BY <1>3, <2>1, <2>2 DEF ReplayInv, GradeInv
    <2>. QED
        BY <1>1, <2>2 DEF ReplayInv, GradeInv, HasStarted
<1>7. ToldLive'
    <2>1. ASSUME ~forgot, NEW r \in Traced
          PROVE  /\ WasAnswered(r) /\ records[r].trace => backend'.usage[r] >= 1
                 /\ records[r].gradeTrace => backend'.grades[r][records[r].graded] >= 1
                 /\ WasGraded(r) /\ records[r].graded \in logged => backend'.events[r][records[r].graded] >= 1
        <3>1. /\ WasAnswered(r) /\ records[r].trace => backend.usage[r] >= 1
              /\ records[r].gradeTrace => backend.grades[r][records[r].graded] >= 1 /\ records[r].graded # 0
              /\ WasGraded(r) /\ records[r].graded \in logged => backend.events[r][records[r].graded] >= 1
            BY <2>1 DEF ReplayInv, ToldLive, GradeInv
        <3>2. records[r].graded # 0 => records[r].graded \in GradingNumbers
            BY GradedIsAGrading DEF ReplayInv
        <3>3. WasGraded(r) => records[r].graded # 0
            BY DEF WasGraded
        <3>. QED
            BY <1>3, <3>1, <3>2, <3>3
    <2>. QED
        BY <1>1, <2>1 DEF ToldLive, WasAnswered, WasGraded
<1>8. ToldOnce'
    BY <1>4 DEF ToldOnce
<1>. QED
    BY <1>5, <1>6, <1>7, <1>8 DEF ReplayInv

(* An export makes good what it says: the backend holds the whole report, of
   the first export nothing twice, and tracing_off sent nothing. *)
LEMMA ExportCompletes ==
    ASSUME ReplayInv, Export
    PROVE  ReplayCompletes'
<1>1. records' = records /\ logged' = logged /\ forgot' = forgot
    BY DEF Export
<1>2. PICK include \in BOOLEAN, logs \in BOOLEAN, U \in SUBSET Traced, G \in SUBSET (Traced \X GradingNumbers) :
         /\ Tells(U, G, logs)
         /\ U \subseteq {r \in RunsToTell(include) : WasAnswered(r)}
         /\ G \subseteq GradesToTell(Traced, include)
         /\ answer'.said \in {"exported", "nothing"} =>
               U = {r \in RunsToTell(include) : WasAnswered(r)} /\ G = GradesToTell(Traced, include)
         /\ answer'.said = "tracing_off" /\ ~answer'.mixed => ~answer'.sent
         /\ answer'.include = include /\ answer'.logs = logs
         /\ answer'.first <=> exports = 0
    BY ExportSends
<1>3. ASSUME NEW r \in Traced
      PROVE  /\ backend.usage[r] \in Nat /\ (r \in U => backend'.usage[r] = backend.usage[r] + 1)
                                         /\ (r \notin U => backend'.usage[r] = backend.usage[r])
             /\ WasGraded(r) =>
                  /\ backend.grades[r][records[r].graded] \in Nat /\ backend.events[r][records[r].graded] \in Nat
                  /\ (Names(G, r, records[r].graded) => backend'.grades[r][records[r].graded] = backend.grades[r][records[r].graded] + 1)
                  /\ (~Names(G, r, records[r].graded) => backend'.grades[r][records[r].graded] = backend.grades[r][records[r].graded])
                  /\ (logs /\ Names(G, r, records[r].graded) => backend'.events[r][records[r].graded] = backend.events[r][records[r].graded] + 1)
                  /\ (~logs \/ ~Names(G, r, records[r].graded) => backend'.events[r][records[r].graded] = backend.events[r][records[r].graded])
    <2>1. WasGraded(r) => records[r].graded \in GradingNumbers
        BY GradedIsAGrading DEF ReplayInv, WasGraded
    <2>0. Adds(U, G, logs, r)
        BY <1>2, ExportAdds
    <2>2. /\ backend.usage[r] \in Nat
          /\ (r \in U => backend'.usage[r] = backend.usage[r] + 1)
          /\ (r \notin U => backend'.usage[r] = backend.usage[r])
        BY <2>0 DEF Adds
    <2>3. ASSUME NEW g \in GradingNumbers
          PROVE  /\ backend.grades[r][g] \in Nat /\ backend.events[r][g] \in Nat
                 /\ (Names(G, r, g) => backend'.grades[r][g] = backend.grades[r][g] + 1)
                 /\ (~Names(G, r, g) => backend'.grades[r][g] = backend.grades[r][g])
                 /\ (logs /\ Names(G, r, g) => backend'.events[r][g] = backend.events[r][g] + 1)
                 /\ (~logs \/ ~Names(G, r, g) => backend'.events[r][g] = backend.events[r][g])
        BY <2>0 DEF Adds
    <2>. QED
        BY <2>1, <2>2, <2>3
<1>4. ASSUME NEW r \in Traced
      PROVE  /\ r \in RunsToTell(include) <=> include \/ ~records[r].trace
             /\ WasGraded(r) => (Names(GradesToTell(Traced, include), r, records[r].graded) <=>
                                   include \/ ~records[r].gradeTrace)
    <2>1. WasGraded(r) => records[r].graded \in GradingNumbers
        BY GradedIsAGrading DEF ReplayInv, WasGraded
    <2>. QED
        BY <2>1, GradesToTellAre DEF RunsToTell, Replays, ReplaysGrade, Names
<1>5. BackendIsComplete'
    <2>1. ASSUME answer'.said \in {"exported", "nothing"}, include \/ ~forgot, NEW r \in Traced
          PROVE  /\ WasAnswered(r) => backend'.usage[r] >= 1
                 /\ WasGraded(r) => backend'.grades[r][records[r].graded] >= 1
                 /\ WasGraded(r) /\ logs /\ (include \/ ~Muted(r)) => backend'.events[r][records[r].graded] >= 1
        <3>1. U = {q \in RunsToTell(include) : WasAnswered(q)} /\ G = GradesToTell(Traced, include)
            BY <1>2, <2>1
        <3>2. ~include => /\ WasAnswered(r) /\ records[r].trace => backend.usage[r] >= 1
                          /\ records[r].gradeTrace => backend.grades[r][records[r].graded] >= 1
                          /\ WasGraded(r) /\ records[r].graded \in logged =>
                                backend.events[r][records[r].graded] >= 1
            BY <2>1 DEF ReplayInv, ToldLive
        <3>6. /\ WasAnswered(r) => (r \in U <=> include \/ ~records[r].trace)
              /\ WasGraded(r) => (Names(G, r, records[r].graded) <=> include \/ ~records[r].gradeTrace)
            BY <1>4, <3>1
        <3>3. WasAnswered(r) => backend'.usage[r] >= 1
            <4>1. /\ backend.usage[r] \in Nat
                  /\ (r \in U => backend'.usage[r] = backend.usage[r] + 1)
                  /\ (r \notin U => backend'.usage[r] = backend.usage[r])
                BY <1>3
            <4>. QED
                BY <4>1, <3>6, <3>2
        <3>4. WasGraded(r) => backend'.grades[r][records[r].graded] >= 1
            <4>1. WasGraded(r) =>
                     /\ backend.grades[r][records[r].graded] \in Nat
                     /\ (Names(G, r, records[r].graded) => backend'.grades[r][records[r].graded] = backend.grades[r][records[r].graded] + 1)
                     /\ (~Names(G, r, records[r].graded) => backend'.grades[r][records[r].graded] = backend.grades[r][records[r].graded])
                BY <1>3
            <4>. QED
                BY <4>1, <3>6, <3>2
        <3>5. WasGraded(r) /\ logs /\ (include \/ ~Muted(r)) => backend'.events[r][records[r].graded] >= 1
            <4>1. WasGraded(r) =>
                     /\ backend.events[r][records[r].graded] \in Nat
                     /\ (logs /\ Names(G, r, records[r].graded) => backend'.events[r][records[r].graded] = backend.events[r][records[r].graded] + 1)
                     /\ (~logs \/ ~Names(G, r, records[r].graded) => backend'.events[r][records[r].graded] = backend.events[r][records[r].graded])
                BY <1>3
            <4>. QED
                BY <4>1, <3>6, <3>2 DEF Muted
        <3>. QED
            BY <3>3, <3>4, <3>5
    <2>. QED
        BY <1>1, <1>2, <2>1 DEF BackendIsComplete, WasAnswered, WasGraded, Muted
<1>6. NothingIsCountedTwice'
    <2>1. ASSUME ~include, exports = 0, NEW r \in Traced
          PROVE  /\ backend'.usage[r] <= (IF records[r].status \in {"answered", "draft"} THEN 1 ELSE 0)
                 /\ WasGraded(r) =>
                      /\ backend'.grades[r][records[r].graded] <= 1
                      /\ ~Unplaced(r) => backend'.events[r][records[r].graded] <= 1
        <3>1. /\ backend.usage[r] <= (IF records[r].status \in {"answered", "draft"} THEN 1 ELSE 0)
              /\ WasAnswered(r) /\ ~records[r].trace => backend.usage[r] = 0
              /\ WasGraded(r) /\ ~records[r].gradeTrace => backend.grades[r][records[r].graded] = 0
            BY <2>1 DEF ReplayInv, ToldOnce
        <3>2. WasGraded(r) => /\ backend.grades[r][records[r].graded] <= 1
                              /\ backend.events[r][records[r].graded] <= 1
                              /\ records[r].graded \notin logged => backend.events[r][records[r].graded] = 0
            <4>1. WasGraded(r) => records[r].graded \in GradingNumbers
                BY GradedIsAGrading DEF ReplayInv, WasGraded
            <4>. QED
                BY <2>1, <4>1 DEF ReplayInv, ToldOnce
        <3>3. r \in U => WasAnswered(r) /\ ~records[r].trace
            BY <1>2, <1>4, <2>1
        <3>4. WasGraded(r) /\ Names(G, r, records[r].graded) => ~records[r].gradeTrace
            BY <1>2, <1>4, <2>1 DEF Names
        <3>5. backend'.usage[r] <= (IF records[r].status \in {"answered", "draft"} THEN 1 ELSE 0)
            <4>1. /\ backend.usage[r] \in Nat
                  /\ (r \in U => backend'.usage[r] = backend.usage[r] + 1)
                  /\ (r \notin U => backend'.usage[r] = backend.usage[r])
                BY <1>3
            <4>. QED
                BY <4>1, <3>1, <3>3 DEF WasAnswered
        <3>6. WasGraded(r) => backend'.grades[r][records[r].graded] <= 1
            BY <1>3, <3>1, <3>2, <3>4
        <3>7. WasGraded(r) /\ ~Unplaced(r) => backend'.events[r][records[r].graded] <= 1
            BY <1>3, <3>2, <3>4 DEF Unplaced
        <3>. QED
            BY <3>5, <3>6, <3>7
    <2>. QED
        BY <1>1, <1>2, <2>1 DEF NothingIsCountedTwice, WasAnswered, WasGraded, Unplaced
<1>7. OffSendsNothing'
    BY <1>2 DEF OffSendsNothing
<1>. QED
    BY <1>5, <1>6, <1>7 DEF ReplayCompletes

(* Where the last command was no export there is no answer to keep. *)
LEMMA NoAnswer ==
    /\ answer = NoReply => ReplayCompletes
    /\ answer' = NoReply => ReplayCompletes'
BY DEF NoReply, ReplayCompletes, BackendIsComplete, NothingIsCountedTwice, OffSendsNothing

------------------------------------------------------------------------------
(* What holds in every behaviour *)

(* An export completes the backend: after one that was answered "exported" or
   "nothing to replay" the backend has the usage of every run that answered and
   the published grading of every run with its events, told live or now
   (replay.rs, TracedRuns), the first one counts nothing twice that the pass or
   a grade had told of, and an answer that tracing is off means that nothing
   was sent. *)
THEOREM ExportsComplete == ReplaySpec => []ReplayCompletes
<1>1. ReplayInit(TRUE) => ReplayInv /\ ReplayCompletes
    BY PassLeaves, NoAnswer DEF ReplayInit
<1>2. ReplayInv /\ ReplayCompletes /\ [ReplayNext]_replayVars => ReplayInv' /\ ReplayCompletes'
    <2>. SUFFICES ASSUME ReplayInv, ReplayCompletes, [ReplayNext]_replayVars
         PROVE  ReplayInv' /\ ReplayCompletes'
         OBVIOUS
    <2>1. CASE BeginGrade
        BY <2>1, BeginKeeps, NoAnswer DEF BeginGrade
    <2>2. CASE TellOfGrade
        BY <2>2, TellKeeps, NoAnswer DEF TellOfGrade
    <2>3. CASE PublishGrade
        BY <2>3, PublishKeeps, NoAnswer DEF PublishGrade
    <2>4. CASE BreakOffGrade
        BY <2>4, BreakOffKeeps, NoAnswer DEF BreakOffGrade
    <2>5. CASE Forget
        BY <2>5, ForgetKeeps, NoAnswer DEF Forget
    <2>6. CASE Export
        BY <2>6, ExportKeeps, ExportCompletes
    <2>7. CASE UNCHANGED replayVars
        <3>1. ReplayInv'
            BY <2>7 DEF replayVars, ReplayInv, ReplayTyped, GradeInv, ToldLive, ToldOnce, HasStarted,
                        WasAnswered, WasGraded
        <3>2. ReplayCompletes'
            BY <2>7 DEF replayVars, ReplayCompletes, BackendIsComplete, NothingIsCountedTwice, OffSendsNothing,
                        WasAnswered, WasGraded, Muted, Unplaced
        <3>. QED
            BY <3>1, <3>2
    <2>. QED
        BY <2>1, <2>2, <2>3, <2>4, <2>5, <2>6, <2>7 DEF ReplayNext
<1>. QED
    BY <1>1, <1>2, PTL DEF ReplaySpec
==============================================================================
