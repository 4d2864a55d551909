------------------------------ MODULE RunPass ------------------------------
(***************************************************************************)
(* The passes of `trg ai skills eval run` over one suite and one output    *)
(* directory: lanes that take runs from a queue, the cache of completed    *)
(* runs, the cost ledger, the skill directory every run is handed, and the *)
(* report.json each pass leaves: commands/ai/skills/eval/run.rs, cache.rs, *)
(* budget.rs and report.rs of agentskills.                                 *)
(*                                                                         *)
(* A run is a (case, scenario, attempt) cell, so a run of one pass has its *)
(* counterpart in every other.  The content of the skill directory is a    *)
(* version number, and so is a digest of it.                               *)
(***************************************************************************)
EXTENDS Integers, Sequences, FiniteSets

CONSTANTS
    Passes,      \* invocations of the command
    Runs,        \* the cells of the suite
    Lanes,       \* --concurrency of them
    Configs,     \* --model-config labels
    Modes,       \* cache options a pass may be given, of CacheModes
    Retries,     \* --retries
    Costs,       \* what the harness may price an attempt at; 0 is unpriced
    Ceiling,     \* --max-cost-usd
    Unsupported, \* runs whose case asks for a control the runner lacks
    OwnLimit,    \* runs whose case sets timeout_secs
    TimeLimits,  \* whether a pass may be given --timeout-secs, or not, or either
    Vanishing,   \* runs whose case may go from the suite while a pass begins
    MaxEdits,    \* changes of the skill directory
    Tampering,   \* whether a run may rewrite the skill directory
    Overlap,     \* whether passes may run at the same time
    Faults,      \* of FaultKinds
    NoPass, NoRun

CacheModes == {"exact", "reuse", "none"}
FaultKinds == {"prepare", "restore", "record", "prune", "rewrite", "interrupt"}

ASSUME PassAssumption ==
    /\ NoPass \notin Passes /\ NoRun \notin Runs
    /\ IsFiniteSet(Runs) /\ IsFiniteSet(Lanes) /\ Lanes # {}
    /\ Modes \subseteq CacheModes /\ Faults \subseteq FaultKinds
    /\ TimeLimits \subseteq BOOLEAN /\ OwnLimit \subseteq Runs /\ Vanishing \subseteq Runs
    /\ Retries \in Nat
    /\ Costs \subseteq Nat /\ \E c \in Costs : \A d \in Costs : d <= c
    /\ Ceiling \in Nat \ {0} /\ MaxEdits \in Nat
    /\ Tampering \in BOOLEAN /\ Overlap \in BOOLEAN

Versions == 0..MaxEdits

VARIABLES
    skill,     \* the version the skill directory holds
    phase,     \* Passes -> "unstarted", "begun", "lanes", "checked", "over" or "dead"
    opt,       \* Passes -> the options of the pass
    digest,    \* Passes -> skill_hash of the report and the baseline of the lanes
    caseIndex, \* Passes -> the runs whose case the lanes know
    todo,      \* Passes -> the runs no lane has claimed
    lane,      \* Passes -> Lanes -> what the lane is doing
    rec,       \* Passes -> Runs -> the RunRecord in memory
    disk,      \* Passes -> report.json: {} or one function of Runs
    exact,     \* the pointers under .cache/<key>
    slot,      \* the pointers under .cache/reuse: Runs -> at most one pointer
    spent,     \* Passes -> CostLedger
    exit,      \* Passes -> "none", "clean", "budget" or "broken"
    rewriters  \* history: Passes -> the runs that rewrote the skill directory

vars == <<skill, phase, opt, digest, caseIndex, todo, lane, rec, disk, exact, slot, spent, exit, rewriters>>

cache == <<exact, slot>>
outcome == <<disk, exit>>

Statuses == {"skipped", "completed", "transient", "stopped", "failed"}

\* status and failure_kind, the pass a cache hit came from, skill_integrity,
\* and (history) the version of the skill the last attempt was handed.
Record == [status : Statuses, kind : {"none", "budget", "control", "runner"},
           src : Passes \cup {NoPass}, integrity : {"none", "kept", "tampered"},
           ran : Versions \cup {-1}]

Fresh == [status |-> "skipped", kind |-> "none", src |-> NoPass, integrity |-> "none", ran |-> -1]

Pointer == [pass : Passes, run : Runs, config : Configs, hash : Versions]

Idle == [pc |-> "idle", run |-> NoRun, src |-> NoPass, tries |-> 0, before |-> 0, given |-> 0]

\* Mutant: every lane checks its own runs.
EachRun == TRUE

\* With one lane the window of the integrity check is the run, else the pass.
Serial == Cardinality(Lanes) = 1

Init ==
    /\ skill = 0
    /\ phase = [p \in Passes |-> "unstarted"]
    /\ opt \in [Passes -> [config : Configs, mode : Modes, timed : TimeLimits]]
    /\ digest = [p \in Passes |-> [skill |-> 0, baseline |-> 0]]
    /\ caseIndex = [p \in Passes |-> {}]
    /\ todo = [p \in Passes |-> {}]
    /\ lane = [p \in Passes |-> [l \in Lanes |-> Idle]]
    /\ rec = [p \in Passes |-> [r \in Runs |-> Fresh]]
    /\ disk = [p \in Passes |-> {}]
    /\ exact = {}
    /\ slot = [r \in Runs |-> {}]
    /\ spent = [p \in Passes |-> 0]
    /\ exit = [p \in Passes |-> "none"]
    /\ rewriters = [p \in Passes |-> {}]

Fault(kind) == kind \in Faults

Active(p) == phase[p] \in {"begun", "lanes", "checked"}

------------------------------------------------------------------------------
(* The frame of a pass. *)

\* Nobody works on the suite, and the skill is edited.
Edit ==
    /\ skill < MaxEdits
    /\ \A p \in Passes : ~Active(p)
    /\ \E p \in Passes : phase[p] = "unstarted"
    /\ skill' = skill + 1
    /\ UNCHANGED <<phase, opt, digest, caseIndex, todo, lane, rec, cache, outcome, spent, rewriters>>

\* build_report_bundle hashes the skill; write_report_bundle leaves a report in
\* which every run is "skipped".
Begin(p) ==
    /\ phase[p] = "unstarted"
    /\ Overlap \/ \A q \in Passes : ~Active(q)
    /\ phase' = [phase EXCEPT ![p] = "begun"]
    /\ digest' = [digest EXCEPT ![p].skill = skill]
    /\ disk' = [disk EXCEPT ![p] = {rec[p]}]
    /\ UNCHANGED <<skill, opt, caseIndex, todo, lane, rec, cache, spent, exit, rewriters>>

\* execute_runs reads the suite a second time, and a case may be gone by then;
\* execute_all: the queue, and with several lanes the digest before the pass.
OpenLanes(p) ==
    /\ phase[p] = "begun"
    /\ phase' = [phase EXCEPT ![p] = "lanes"]
    /\ digest' = [digest EXCEPT ![p].baseline = skill]
    /\ \E gone \in SUBSET Vanishing : caseIndex' = [caseIndex EXCEPT ![p] = Runs \ gone]
    /\ todo' = [todo EXCEPT ![p] = Runs]
    /\ UNCHANGED <<skill, opt, lane, rec, cache, outcome, spent, rewriters>>

Integrity(before) == IF skill = before THEN "kept" ELSE "tampered"

\* Mutant: the finding goes on runs that completed.
CompletedIntegrity(p) ==
    [r \in Runs |-> IF rec[p][r].src # NoPass \/ rec[p][r].status # "completed"
                    THEN rec[p][r]
                    ELSE [rec[p][r] EXCEPT !.integrity = Integrity(digest[p].baseline)]]

\* record_pass_integrity: the finding goes on every run that executed.
PassIntegrity(p) ==
    [r \in Runs |-> IF rec[p][r].src # NoPass \/ rec[p][r].status = "skipped"
                    THEN rec[p][r]
                    ELSE [rec[p][r] EXCEPT !.integrity = Integrity(digest[p].baseline)]]


\* Every lane found the queue empty and returned.
Drained(p) ==
    /\ todo[p] = {}
    /\ \A l \in Lanes : lane[p][l].pc = "idle"

\* The scope of the lanes ends, and the pass is checked for tampering.
CloseLanes(p) ==
    /\ phase[p] = "lanes"
    /\ Drained(p)
    /\ phase' = [phase EXCEPT ![p] = "checked"]
    /\ rec' = IF Serial THEN rec ELSE [rec EXCEPT ![p] = PassIntegrity(p)]
    /\ UNCHANGED <<skill, opt, digest, caseIndex, todo, lane, cache, outcome, spent, rewriters>>

\* runs_skipped > 0 || overspent()
OutOfBudget(p) == (\E r \in Runs : rec[p][r].kind = "budget") \/ spent[p] > Ceiling

\* "rewrite report", then the exit code; a report that cannot be written is an
\* infrastructure failure.
Rewrite(p) ==
    /\ phase[p] = "checked"
    /\ \/ /\ disk' = [disk EXCEPT ![p] = {rec[p]}]
          /\ exit' = [exit EXCEPT ![p] = IF OutOfBudget(p) THEN "budget" ELSE "clean"]
          /\ phase' = [phase EXCEPT ![p] = "over"]
       \/ /\ Fault("rewrite")
          /\ exit' = [exit EXCEPT ![p] = "broken"]
          /\ phase' = [phase EXCEPT ![p] = "dead"]
          /\ UNCHANGED disk
    /\ UNCHANGED <<skill, opt, digest, caseIndex, todo, lane, rec, cache, spent, rewriters>>

\* A termination signal: what is on disk stays as it is.
Interrupt(p) ==
    /\ Fault("interrupt")
    /\ Active(p)
    /\ phase' = [phase EXCEPT ![p] = "dead"]
    /\ lane' = [lane EXCEPT ![p] = [l \in Lanes |-> Idle]]
    /\ todo' = [todo EXCEPT ![p] = {}]
    /\ UNCHANGED <<skill, opt, digest, caseIndex, rec, cache, outcome, spent, rewriters>>

\* Somebody deletes the report of a pass that ended.
Prune(p) ==
    /\ Fault("prune")
    /\ phase[p] \in {"over", "dead"}
    /\ disk[p] # {}
    /\ disk' = [disk EXCEPT ![p] = {}]
    /\ UNCHANGED <<skill, phase, opt, digest, caseIndex, todo, lane, rec, cache, spent, exit, rewriters>>

------------------------------------------------------------------------------
(* A lane: execute_run for each run it claims. *)

At(p, l, pc) == phase[p] = "lanes" /\ lane[p][l].pc = pc

Goes(p, l, pc) == lane' = [lane EXCEPT ![p][l].pc = pc]

Ends(p, l) == lane' = [lane EXCEPT ![p][l] = Idle]

Settle(p, r, entry) == rec' = [rec EXCEPT ![p][r] = entry]

\* not_started
Refused(kind) == [Fresh EXCEPT !.kind = kind]

\* Mutant: two lanes may see the same front of the queue.
PeekThenPop(p, l) ==
    /\ At(p, l, "idle")
    /\ \E r \in Runs \cap (todo[p] \cup {lane[p][m].run : m \in Lanes}) :
          /\ lane' = [lane EXCEPT ![p][l] = [Idle EXCEPT !.pc = "claimed", !.run = r]]
          /\ todo' = [todo EXCEPT ![p] = @ \ {r}]
    /\ UNCHANGED <<skill, phase, opt, digest, caseIndex, rec, cache, outcome, spent, rewriters>>

\* queue.lock().pop_front(); which run is in front is not modelled.
Claim(p, l) ==
    /\ At(p, l, "idle")
    /\ \E r \in todo[p] :
          /\ lane' = [lane EXCEPT ![p][l] = [Idle EXCEPT !.pc = "claimed", !.run = r]]
          /\ todo' = [todo EXCEPT ![p] = @ \ {r}]
    /\ UNCHANGED <<skill, phase, opt, digest, caseIndex, rec, cache, outcome, spent, rewriters>>

\* "Skipping run: eval case not found": the run stays as it was planned.
CaseGone(p, l) ==
    /\ At(p, l, "claimed")
    /\ lane[p][l].run \notin caseIndex[p]
    /\ Ends(p, l)
    /\ UNCHANGED <<skill, phase, opt, digest, caseIndex, todo, rec, cache, outcome, spent, rewriters>>

Known(p, l) == lane[p][l].run \in caseIndex[p]

\* A mock set, a fixture, a scaffold or a companion that cannot be read, or once
\* the run is admitted mocks that cannot be materialized.
PrepareFails(p, l) ==
    /\ (At(p, l, "claimed") /\ Known(p, l)) \/ (At(p, l, "invoke") /\ lane[p][l].tries = 0)
    /\ Fault("prepare")
    /\ Settle(p, lane[p][l].run, [Fresh EXCEPT !.status = "failed"])
    /\ Ends(p, l)
    /\ UNCHANGED <<skill, phase, opt, digest, caseIndex, todo, cache, outcome, spent, rewriters>>

\* What the run is cached under.
KeyInput(p, r) == [pass |-> p, run |-> r, config |-> opt[p].config, hash |-> digest[p].skill]

\* The key's own directory holds one pointer, for inputs equal to these.
ExactPointers(k) == {e \in exact : e.run = k.run /\ e.config = k.config /\ e.hash = k.hash}

\* Mutant: the slot of the cell is enough.
SlotAnyway(e, k) == TRUE

\* ReuseKeyInput::of forgets the model config.
SlotFresh(e, k) == e.hash = k.hash

\* read_pointer: the report the pointer names is still a file.
Standing(pointers) == {e \in pointers : disk[e.pass] # {}}

\* try_resolve_cache: the exact pointer, then with --reuse-completed the slot of
\* the cell; a pointer that is stale or names no report is removed.
Lookup(p, l) ==
    /\ At(p, l, "claimed") /\ Known(p, l)
    /\ LET k == KeyInput(p, lane[p][l].run)
           mine == ExactPointers(k)
           reusable == {e \in Standing(slot[k.run]) : SlotFresh(e, k)}
           tries == opt[p].mode = "reuse" /\ Standing(mine) = {}
           found == IF opt[p].mode = "none" THEN {}
                    ELSE IF tries THEN reusable ELSE Standing(mine)
       IN /\ exact' = IF opt[p].mode = "none" THEN exact ELSE exact \ (mine \ Standing(mine))
          /\ slot' = IF tries THEN [slot EXCEPT ![k.run] = reusable] ELSE slot
          /\ \/ /\ found = {}
                /\ Goes(p, l, "admit")
             \/ \E e \in found :
                   lane' = [lane EXCEPT ![p][l].pc = "restore", ![p][l].src = e.pass]
    /\ UNCHANGED <<skill, phase, opt, digest, caseIndex, todo, rec, outcome, spent, rewriters>>

\* Mutant: a failed restore ends the run as it stands.
RestoreOrGiveUp(p, l) ==
    /\ At(p, l, "restore")
    /\ LET r == lane[p][l].run
           q == lane[p][l].src
       IN \/ \E report \in disk[q] : Settle(p, r, [report[r] EXCEPT !.src = q])
          \/ /\ Fault("restore") \/ disk[q] = {}
             /\ UNCHANGED rec
    /\ Ends(p, l)
    /\ UNCHANGED <<skill, phase, opt, digest, caseIndex, todo, cache, outcome, spent, rewriters>>

\* apply_cache_hit: the source run as its report has it, or an error, and the
\* run is executed after all.
Restore(p, l) ==
    /\ At(p, l, "restore")
    /\ LET r == lane[p][l].run
           q == lane[p][l].src
       IN \/ /\ \E report \in disk[q] : Settle(p, r, [report[r] EXCEPT !.src = q])
             /\ Ends(p, l)
          \/ /\ Fault("restore") \/ disk[q] = {}
             /\ lane' = [lane EXCEPT ![p][l].pc = "admit", ![p][l].src = NoPass]
             /\ UNCHANGED rec
    /\ UNCHANGED <<skill, phase, opt, digest, caseIndex, todo, cache, outcome, spent, rewriters>>

\* Mutant: what was spent must be past the ceiling.
PastCeiling(p) == spent[p] > Ceiling

\* CostLedger::admit
Exhausted(p) == spent[p] >= Ceiling

\* refuse_to_start, and the digest before the run when lanes are serial.
Admit(p, l) ==
    /\ At(p, l, "admit")
    /\ LET r == lane[p][l].run IN
       \/ /\ Exhausted(p)
          /\ Settle(p, r, Refused("budget"))
          /\ Ends(p, l)
       \/ /\ ~Exhausted(p) /\ r \in Unsupported
          /\ Settle(p, r, Refused("control"))
          /\ Ends(p, l)
       \/ /\ ~Exhausted(p) /\ r \notin Unsupported
          /\ lane' = [lane EXCEPT ![p][l].pc = "invoke", ![p][l].before = skill]
          /\ UNCHANGED rec
    /\ UNCHANGED <<skill, phase, opt, digest, caseIndex, todo, cache, outcome, spent, rewriters>>

\* An attempt begins: the workspace is emptied and the skill is staged in it.
Invoke(p, l) ==
    /\ At(p, l, "invoke")
    /\ lane' = [lane EXCEPT ![p][l].pc = "attempt", ![p][l].tries = @ + 1, ![p][l].given = skill]
    /\ UNCHANGED <<skill, phase, opt, digest, caseIndex, todo, rec, cache, outcome, spent, rewriters>>

\* The harness may have rewritten the skill directory.
MayRewrite(p, r) ==
    \/ UNCHANGED <<skill, rewriters>>
    \/ /\ Tampering /\ skill < MaxEdits
       /\ skill' = skill + 1
       /\ rewriters' = [rewriters EXCEPT ![p] = @ \cup {r}]

\* Mutant: every run is recorded in the cache.
RecordAnyway(p, status) == IF opt[p].mode # "none" THEN "record" ELSE "check"

\* What a finished invocation leaves to do: the pointers of a completed run
\* unless --no-cache, then the check of the skill.
After(p, status) == IF status = "completed" /\ opt[p].mode # "none" THEN "record" ELSE "check"

Outcome(p, l, status, kind) ==
    [status |-> status, kind |-> kind, src |-> NoPass, integrity |-> "none", ran |-> lane[p][l].given]

\* Mutant: one retry too many.
OneMore(p, l) == lane[p][l].tries <= Retries + 1

\* for _ in 0..max_attempts, where max_attempts is retries + 1
MayRetry(p, l) == lane[p][l].tries <= Retries

\* The attempt ends and is charged; a transient failure is retried.
Attempt(p, l) ==
    /\ At(p, l, "attempt")
    /\ \E status \in {"completed", "transient", "stopped"}, cost \in Costs :
          /\ spent' = [spent EXCEPT ![p] = @ + cost]
          /\ IF status = "transient" /\ MayRetry(p, l)
             THEN Goes(p, l, "invoke") /\ UNCHANGED rec
             ELSE /\ Goes(p, l, After(p, status))
                  /\ Settle(p, lane[p][l].run,
                            Outcome(p, l, status, IF status = "transient" THEN "runner" ELSE "none"))
    /\ MayRewrite(p, lane[p][l].run)
    /\ UNCHANGED <<phase, opt, digest, caseIndex, todo, cache, outcome>>

\* invoke_runner returns an error, which nobody priced and nobody retries.
AttemptErrs(p, l) ==
    /\ At(p, l, "attempt")
    /\ Settle(p, lane[p][l].run, Outcome(p, l, "failed", "runner"))
    /\ Goes(p, l, "check")
    /\ MayRewrite(p, lane[p][l].run)
    /\ UNCHANGED <<phase, opt, digest, caseIndex, todo, cache, outcome, spent>>

\* record_completion, the pointer under the key; an error is printed.
RecordExact(p, l) ==
    /\ At(p, l, "record")
    /\ LET k == KeyInput(p, lane[p][l].run) IN
       \/ /\ exact' = (exact \ ExactPointers(k)) \cup {k}
          /\ Goes(p, l, "slot")
       \/ /\ Fault("record")
          /\ Goes(p, l, "check")
          /\ UNCHANGED exact
    /\ UNCHANGED <<skill, phase, opt, digest, caseIndex, todo, rec, slot, outcome, spent, rewriters>>

\* record_completion, the pointer in the slot of the cell.
RecordSlot(p, l) ==
    /\ At(p, l, "slot")
    /\ \/ slot' = [slot EXCEPT ![lane[p][l].run] = {KeyInput(p, lane[p][l].run)}]
       \/ Fault("record") /\ UNCHANGED slot
    /\ Goes(p, l, "check")
    /\ UNCHANGED <<skill, phase, opt, digest, caseIndex, todo, rec, exact, outcome, spent, rewriters>>

\* IntegrityWindow::Run compares the digests; IntegrityWindow::Pass leaves it.
Check(p, l) ==
    /\ At(p, l, "check")
    /\ rec' = IF Serial
              THEN [rec EXCEPT ![p][lane[p][l].run].integrity = Integrity(lane[p][l].before)]
              ELSE rec
    /\ Ends(p, l)
    /\ UNCHANGED <<skill, phase, opt, digest, caseIndex, todo, cache, outcome, spent, rewriters>>

------------------------------------------------------------------------------

LaneStep(p, l) ==
    \/ Claim(p, l) \/ CaseGone(p, l) \/ PrepareFails(p, l) \/ Lookup(p, l) \/ Restore(p, l)
    \/ Admit(p, l) \/ Invoke(p, l) \/ Attempt(p, l) \/ AttemptErrs(p, l)
    \/ RecordExact(p, l) \/ RecordSlot(p, l) \/ Check(p, l)

PassStep(p) == OpenLanes(p) \/ CloseLanes(p) \/ Rewrite(p)

Next ==
    \/ Edit
    \/ \E p \in Passes :
          Begin(p) \/ PassStep(p) \/ Interrupt(p) \/ Prune(p) \/ \E l \in Lanes : LaneStep(p, l)

Spec == Init /\ [][Next]_vars

\* effective_timeout_secs: the case's own limit, or the pass's; there may be none.
Limited(p, l) == opt[p].timed \/ lane[p][l].run \in OwnLimit

\* A lane waits for a harness that was given no time limit.
Waits(p, l) == At(p, l, "attempt") /\ ~Limited(p, l)

\* A pass that began goes on, and so does each of its lanes: the operating system
\* runs every thread.  A harness that is given a time limit returns within it; of
\* one that is given none nothing is assumed.
Fairness ==
    \A p \in Passes :
        WF_vars(PassStep(p)) /\ \A l \in Lanes : WF_vars(~Waits(p, l) /\ LaneStep(p, l))

FairSpec == Spec /\ Fairness

------------------------------------------------------------------------------
(* What a pass promises. *)

LanePCs == {"idle", "claimed", "restore", "admit", "invoke", "attempt", "record", "slot", "check"}

TypeOK ==
    /\ skill \in Versions
    /\ phase \in [Passes -> {"unstarted", "begun", "lanes", "checked", "over", "dead"}]
    /\ opt \in [Passes -> [config : Configs, mode : Modes, timed : TimeLimits]]
    /\ caseIndex \in [Passes -> SUBSET Runs]
    /\ digest \in [Passes -> [skill : Versions, baseline : Versions]]
    /\ todo \in [Passes -> SUBSET Runs]
    /\ lane \in [Passes -> [Lanes -> [pc : LanePCs, run : Runs \cup {NoRun}, src : Passes \cup {NoPass},
                                      tries : 0..(Retries + 1), before : Versions, given : Versions]]]
    /\ rec \in [Passes -> [Runs -> Record]]
    /\ disk \in [Passes -> SUBSET [Runs -> Record]]
    /\ exact \subseteq Pointer
    /\ slot \in [Runs -> SUBSET Pointer]
    /\ spent \in [Passes -> Nat]
    /\ exit \in [Passes -> {"none", "clean", "budget", "broken"}]
    /\ rewriters \in [Passes -> SUBSET Runs]

Dearest == CHOOSE c \in Costs : \A d \in Costs : d <= c

\* A pass never spends more than one run's attempts per lane past the last cent
\* below its ceiling: admission is "Checked, not reserved ... a pass can
\* overshoot by the runs already in flight", retries and all.
OvershootIsBounded ==
    \A p \in Passes : spent[p] < Ceiling + Cardinality(Lanes) * (Retries + 1) * Dearest

\* A cache hit answers for the revision the pass hashed and, unless any
\* completed run will do, for its model config, whichever passes wrote and
\* evicted the pointers in between (lookup_exact, lookup_reuse).
HitsAnswerForTheRevision ==
    \A p \in Passes, r \in Runs :
        LET q == rec[p][r].src IN
        q # NoPass =>
            /\ digest[q].skill = digest[p].skill
            /\ opt[p].mode # "none"
            /\ opt[p].mode = "exact" => opt[q].config = opt[p].config

\* A pass that ends clean kept its ceiling, and a run it has no result of is one
\* of two kinds, whatever lanes refused, retried, restored or failed: it asked for
\* a control the runner lacks, or its case was gone when the lanes read the suite
\* again, and then it never started.  Nothing else leaves a run out unseen
\* (or_budget_exhausted, not_started, execute_run).
CleanPassIsComplete ==
    \A p \in Passes : exit[p] = "clean" =>
        /\ spent[p] <= Ceiling
        /\ \A r \in Runs : rec[p][r].status = "skipped" =>
              IF r \in caseIndex[p] THEN rec[p][r].kind = "control" ELSE rec[p][r] = Fresh

\* A run that rewrote the skill is reported as tampered when its pass ends,
\* whatever the run came to and however many lanes there were (execute_run,
\* record_pass_integrity).
RewritersAreReported ==
    \A p \in Passes : phase[p] = "over" =>
        \A r \in rewriters[p] : rec[p][r].integrity = "tampered"

\* A run that completed with the skill reported as kept was handed the revision
\* the report names: true of lanes side by side, where the finding goes on every
\* run; in a serial pass the runs after the one that rewrote the skill are
\* hashed around the rewritten one.
KeptRunsRanTheRevision ==
    \A p \in Passes, r \in Runs :
        phase[p] = "over" /\ rec[p][r].status = "completed" /\ rec[p][r].integrity = "kept" =>
            rec[p][r].ran = digest[p].skill

\* The two sides of a skill rewritten during a pass: who did it is told, and
\* what is not told of is as the report says.
RewritesAreAccountedFor == RewritersAreReported /\ KeptRunsRanTheRevision

\* A run is settled by one lane, once: after that only the check of the skill
\* touches its record (pop_front under the lock; a lane writes only its run).
RunsSettleOnce ==
    [][\A p \in Passes, r \in Runs :
          rec[p][r].status # "skipped" => rec'[p][r] = [rec[p][r] EXCEPT !.integrity = rec'[p][r].integrity]]_vars

\* A run served from the cache is one that completed ("serve any completed run
\* for the same case and scenario"); broken when the report that a pointer names
\* is still the one its pass began with.
HitsAreCompleted ==
    \A p \in Passes, r \in Runs : rec[p][r].src # NoPass => rec[p][r].status = "completed"

\* What a pass takes from the cache is a result of its own question: it completed,
\* and it was for the pass's revision and config.
HitsAreResults == HitsAreCompleted /\ HitsAnswerForTheRevision

=============================================================================
