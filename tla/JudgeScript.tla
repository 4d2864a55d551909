----------------------------- MODULE JudgeScript -----------------------------
(* A script that is asked for a verdict: by `eval grade --grader script`      *)
(* (grading.rs, grade_with_script) or by `eval compare --judge script`        *)
(* (compare.rs, run_script_judge).  trg hands it a payload over its stdin and *)
(* reads its stdout to the end, through pipes that hold only so much; its     *)
(* stderr is read as its stdout is.  Grading writes the payload from a thread *)
(* of its own, comparing writes all of it before it reads.  Nobody limits how *)
(* long a script may take.                                                    *)
EXTENDS Integers, Sequences, FiniteSets

CONSTANTS
    Pipe,       \* what a pipe holds
    Payloads,   \* sizes of the payloads
    Plans       \* what scripts may do: [does : Seq(Deeds), ends : Endings]

Askers == {"grade", "compare"}

\* "sip" reads a part of stdin, "drain" reads it to its end.
Deeds == {"sip", "drain", "print"}
\* The answer that was asked for, another text, or an exit that is not clean.
Endings == {"verdict", "garbage", "crash"}

ASSUME JudgeScriptAssumption ==
    /\ Pipe \in Nat \ {0} /\ Payloads \subseteq Nat
    /\ \A p \in Plans : p.ends \in Endings /\ p.does \in Seq(Deeds)

VARIABLES
    asker,   \* who asks, the size of its payload, and what of it is unwritten
    script,  \* its plan, how far it is, and whether it is running
    stdin,   \* what of the payload was written and not read, and whether it is open
    stdout,  \* what the script printed and trg did not read
    verdict  \* what trg makes of it

scriptVars == <<asker, script, stdin, stdout, verdict>>

NoAsker == [kind |-> "none", payload |-> 0, left |-> 0]
SomeAskers == {[kind |-> kind, payload |-> n, left |-> n] : kind \in Askers, n \in Payloads}

ScriptInit(askers) ==
    /\ asker \in askers
    /\ script \in {[plan |-> plan, at |-> 1, runs |-> TRUE] :
                      plan \in IF asker = NoAsker THEN {[does |-> <<>>, ends |-> "verdict"]} ELSE Plans}
    /\ stdin = [held |-> 0, open |-> TRUE]
    /\ stdout = 0
    /\ verdict = "none"

Waiting == asker.kind # "none" /\ verdict = "none"

\* Mutant: grading finishes the write before it reads, too.
Everybody(kind) == TRUE

\* feed_payload gives the writing to a thread; run_script_judge does it itself.
WritesFirst(kind) == kind = "compare"

\* write_all, as far as the pipe takes it.
CanWrite == Waiting /\ script.runs /\ asker.left > 0 /\ stdin.held < Pipe
Write ==
    /\ CanWrite
    /\ asker' = [asker EXCEPT !.left = @ - 1]
    /\ stdin' = [stdin EXCEPT !.held = @ + 1]
    /\ UNCHANGED <<script, stdout, verdict>>

\* The whole payload is written: stdin is closed.
CanClose == Waiting /\ stdin.open /\ asker.left = 0
Close ==
    /\ CanClose
    /\ stdin' = [stdin EXCEPT !.open = FALSE]
    /\ UNCHANGED <<asker, script, stdout, verdict>>

\* The script is gone and cannot be written to: a grade takes its exit for the
\* answer (payload_handed_over), a comparison gives up.
CanBreak == Waiting /\ stdin.open /\ asker.left > 0 /\ ~script.runs
BrokenPipe ==
    /\ CanBreak
    /\ stdin' = [stdin EXCEPT !.open = FALSE]
    /\ verdict' = IF asker.kind = "compare" THEN "not_handed_over" ELSE verdict
    /\ UNCHANGED <<asker, script, stdout>>

\* wait_with_output reads.
CanHear == Waiting /\ stdout > 0 /\ (WritesFirst(asker.kind) => ~stdin.open)
Hear ==
    /\ CanHear
    /\ stdout' = stdout - 1
    /\ UNCHANGED <<asker, script, stdin, verdict>>

\* A script that exited uncleanly graded nothing; one that compares has failed.
Account(kind, ends) ==
    CASE ends = "verdict" -> "answered"
      [] ends = "crash" /\ kind = "grade" -> "ungraded"
      [] OTHER -> "refused"

\* The output has ended, the script is reaped and the thread is joined.
CanConclude == Waiting /\ ~script.runs /\ stdout = 0 /\ ~stdin.open
Conclude ==
    /\ CanConclude
    /\ verdict' = Account(asker.kind, script.plan.ends)
    /\ UNCHANGED <<asker, script, stdin, stdout>>

Advanced == [script EXCEPT !.at = @ + 1]

\* There is something to read, or the end.
CanRead == stdin.held > 0 \/ ~stdin.open

Sip ==
    /\ CanRead
    /\ stdin' = [stdin EXCEPT !.held = IF @ > 0 THEN @ - 1 ELSE 0]
    /\ script' = Advanced
    /\ UNCHANGED stdout

Drain ==
    /\ CanRead
    /\ stdin' = [stdin EXCEPT !.held = IF @ > 0 THEN @ - 1 ELSE 0]
    /\ script' = IF stdin.held = 0 THEN Advanced ELSE script
    /\ UNCHANGED stdout

CanUtter == stdout < Pipe
Utter ==
    /\ CanUtter
    /\ stdout' = stdout + 1
    /\ script' = Advanced
    /\ UNCHANGED stdin

\* Between its start and its exit the script does as it was written.
Performing == Waiting /\ script.runs /\ script.at <= Len(script.plan.does)
Deed == script.plan.does[script.at]
Perform ==
    /\ Performing
    /\ CASE Deed = "sip" -> Sip [] Deed = "drain" -> Drain [] Deed = "print" -> Utter
    /\ UNCHANGED <<asker, verdict>>

CanExit == Waiting /\ script.runs /\ script.at > Len(script.plan.does)
Exits ==
    /\ CanExit
    /\ script' = [script EXCEPT !.runs = FALSE]
    /\ UNCHANGED <<asker, stdin, stdout, verdict>>

ScriptNext == Write \/ Close \/ BrokenPipe \/ Hear \/ Conclude \/ Perform \/ Exits

ScriptSpec == ScriptInit(SomeAskers) /\ [][ScriptNext]_scriptVars

------------------------------------------------------------------------------
(* What a script's verdict promises. *)

\* One of the two can take a step: one of the guards above holds.
Moves ==
    \/ CanWrite \/ CanClose \/ CanBreak \/ CanHear \/ CanConclude \/ CanExit
    \/ Performing /\ IF Deed = "print" THEN CanUtter ELSE CanRead

\* What the script prints before it reads its input to the end.
Prologue ==
    LET does == script.plan.does IN
    {i \in DOMAIN does : does[i] = "print" /\ \A j \in 1..i : does[j] # "drain"}

\* More than the pipes hold, in both directions at once.
Overfull == asker.payload > Pipe /\ Cardinality(Prologue) > Pipe

(* A grade takes the script's exit and output for its answer, in whatever     *)
(* order payload, output and exit came, and waits for nothing else.  So does  *)
(* a comparison, unless the script left before its payload was handed over;   *)
(* and it is stuck with its script only when both the payload and what the    *)
(* script prints before it reads exceed a pipe.                               *)
ScriptsAreHeard ==
    /\ asker.kind = "grade" /\ verdict # "none" => verdict = Account("grade", script.plan.ends)
    /\ asker.kind = "compare" /\ verdict # "none" =>
          verdict = Account("compare", script.plan.ends) \/ (verdict = "not_handed_over" /\ asker.left > 0)
    /\ Waiting /\ ~Moves => asker.kind = "compare" /\ Overfull
=============================================================================
