------------------------------- MODULE Judging -------------------------------
(* One question for an LLM judge: an `llm` or a `baseline` grader of `eval    *)
(* grade` (grading.rs), or a pair of `eval compare` (compare.rs).  The        *)
(* material is cut to what a request may carry, what is compared is shown     *)
(* under blind labels, and a panel of one or more ballots answers.            *)
(*                                                                            *)
(* A text is its length in bytes, none when it is blank.  Where a cut falls   *)
(* inside a character it moves by less than the character's width.            *)
EXTENDS Integers, Sequences, FiniteSetsExt

CONSTANTS
    Total,      \* PayloadBudget::TOTAL_BYTES
    Floor,      \* CaseBrief::FLOOR_BYTES
    Slack,      \* bytes by which a cut may move to the end of a character
    Questions   \* what is asked, of Question

Kinds == {"llm", "baseline", "pair"}
Targets == {"final", "any", "file", "transcript", "listing"}

\* texts: the target's length, or that of the final text and then the output
\* files by name; for a pair the outputs of its two sides. lines: the messages
\* of a transcript. expected: the case's expected output, or a baseline's
\* reference. swapped: shuffle_swap, by which the run, or the pair's first side,
\* is B. A pair's text is missing when no attempt of a side completed.
IsQuestion(q) ==
    /\ q.kind \in Kinds /\ q.target \in Targets /\ q.found \in {"text", "image", "missing"}
    /\ q.texts \in Seq(Nat) /\ q.texts # <<>> /\ q.lines \in Seq(Nat)
    /\ q.expected \in Nat /\ q.prompt \in Nat /\ q.swapped \in BOOLEAN
    /\ q.votes \in Nat /\ q.votes % 2 = 1 /\ (q.kind = "pair" => q.votes = 1)

ASSUME JudgingAssumption ==
    /\ Total \in Nat /\ Floor \in Nat /\ Slack \in Nat /\ 2 * Floor <= Total
    /\ \A q \in Questions : IsQuestion(q)

VARIABLES
    question,  \* what is asked, or none
    stage,     \* "ask", "place", "brief", "vote", "done"
    budget,    \* PayloadBudget: bytes and slots that remain
    shown,     \* what the request carries of each text
    carried,   \* history: bytes of the run's material in the request so far
    brief,     \* what it carries of the case: expected output and prompt
    replies,   \* the judge's answers so far
    held,      \* history: what the judge holds of the sides, behind the labels
    outcome    \* "none", "passed", "failed", "error", or a pair's winner

judgeVars == <<question, stage, budget, shown, carried, brief, replies, held, outcome>>

NoQuestion == [kind |-> "none"]
NoBrief == [expected |-> 0, prompt |-> 0]

JudgingInit(questions) ==
    /\ question \in questions
    /\ stage = IF question = NoQuestion THEN "done" ELSE "ask"
    /\ budget = [bytes |-> 0, slots |-> 0]
    /\ shown = <<>> /\ carried = 0 /\ brief = NoBrief
    /\ replies = <<>> /\ held = <<>> /\ outcome = "none"

Least(a, b) == IF a <= b THEN a ELSE b

------------------------------------------------------------------------------
(* What needs no judge *)

\* The target holds nothing: of a final text an `llm` grader reads the outputs too.
Blank(q) ==
    IF q.target = "any" \/ (q.target = "final" /\ q.kind = "llm")
    THEN \A i \in DOMAIN q.texts : q.texts[i] = 0
    ELSE q.texts[1] = 0

\* Mutant: an empty answer is put to the judge, who may call it a tie.
SilentIfMissing(q) == q.kind = "baseline" /\ q.found # "text"

\* blank_answer, and what grade_against_baseline settles; a pair is always judged.
Silent(q) ==
    CASE q.kind = "llm" -> q.found = "text" /\ q.target # "listing" /\ Blank(q)
      [] q.kind = "baseline" -> q.found # "text" \/ Blank(q)
      [] q.kind = "pair" -> FALSE

\* settled_without_a_judge
Settle ==
    /\ stage = "ask" /\ Silent(question)
    /\ stage' = "done" /\ outcome' = "failed"
    /\ UNCHANGED <<question, budget, shown, carried, brief, replies, held>>

\* load_scenario_output: no attempt of a side completed, and no pair is compared.
Incomplete ==
    /\ stage = "ask" /\ question.kind = "pair" /\ question.found = "missing"
    /\ stage' = "done" /\ outcome' = "error"
    /\ UNCHANGED <<question, budget, shown, carried, brief, replies, held>>

------------------------------------------------------------------------------
(* What a request carries *)

\* reserved_bytes
Reserved(q) == Least(q.prompt, Floor) + Least(q.expected, Floor)

\* PayloadBudget::after
OpenRequest ==
    /\ stage = "ask" /\ question.kind = "llm" /\ ~Silent(question)
    /\ budget' = [bytes |-> Total - Reserved(question), slots |-> Len(question.texts)]
    /\ stage' = IF question.found = "text" THEN "place" ELSE "brief"
    /\ UNCHANGED <<question, shown, carried, brief, replies, held, outcome>>

\* truncate: a cut at cap, or before the character that cap falls into.
Cuts(cap) == {end \in 0..cap : end >= cap - Slack}

\* Bytes of the messages from each one on, with the newlines between them.
Joined(lines) ==
    LET joined[i \in 1..(Len(lines) + 1)] ==
            IF i > Len(lines) THEN 0
            ELSE lines[i] + (IF i = Len(lines) THEN 0 ELSE 1) + joined[i + 1]
    IN joined

\* truncate_transcript_tail: whole messages from the end backward, and the first
\* one if there is room for it and its newline; one message is cut from its front.
TailCuts(lines, cap) ==
    LET fit == {i \in DOMAIN lines : Joined(lines)[i] \in 0..cap} IN
    IF Len(lines) < 2 \/ fit = {} THEN Cuts(cap)
    ELSE LET used == Joined(lines)[Min(fit)] IN
         IF 1 \notin fit /\ lines[1] \in 0..(cap - used - 1) THEN {used + lines[1] + 1} ELSE {used}

\* PayloadBudget::place: what may be shown of a text when its share is this.
Placed(q, len, share) ==
    IF share = 0 THEN {0}
    ELSE IF len <= share THEN {len}
    ELSE IF q.target = "transcript" THEN TailCuts(q.lines, share) ELSE Cuts(share)

\* Mutant: only what is shown whole is paid for.
PaidWhenWhole(len, share) == IF len <= share THEN len ELSE 0

\* What it takes from the budget.
Paid(len, share) == IF len <= share THEN len ELSE share

Place ==
    /\ stage = "place" /\ Len(shown) < Len(question.texts)
    /\ LET len == question.texts[Len(shown) + 1]
           share == budget.bytes \div budget.slots
       IN /\ \E n \in Placed(question, len, share) :
                shown' = Append(shown, n) /\ carried' = carried + n
          /\ budget' = [bytes |-> budget.bytes - Paid(len, share), slots |-> budget.slots - 1]
    /\ UNCHANGED <<question, stage, brief, replies, held, outcome>>

Complete ==
    /\ stage = "place" /\ Len(shown) = Len(question.texts)
    /\ stage' = "brief"
    /\ UNCHANGED <<question, budget, shown, carried, brief, replies, held, outcome>>

\* CaseBrief::clip
Clips(len, cap) == IF len <= cap THEN {len} ELSE Cuts(cap)

\* CaseBrief::place_into: the brief takes what it had reserved and what is left.
PlaceBrief ==
    /\ stage = "brief"
    /\ LET remaining == budget.bytes + Reserved(question)
           cap == remaining - Least(question.prompt, Floor)
           spent == Least(question.expected, cap)
       IN \E e \in Clips(question.expected, cap), p \in Clips(question.prompt, remaining - spent) :
             brief' = [expected |-> e, prompt |-> p]
    /\ stage' = "vote"
    /\ UNCHANGED <<question, budget, shown, carried, replies, held, outcome>>

\* BaselinePairing::fit for each side; compare shows both outputs whole.
ShowBoth ==
    /\ stage = "ask" /\ question.kind # "llm" /\ ~Silent(question) /\ question.found = "text"
    /\ shown' \in IF question.kind = "pair" THEN {question.texts}
                  ELSE {<<run, reference>> : run \in Clips(question.texts[1], Total \div 2),
                                             reference \in Clips(question.expected, Total \div 2)}
    /\ stage' = "vote"
    /\ UNCHANGED <<question, budget, carried, brief, replies, held, outcome>>

------------------------------------------------------------------------------
(* What the judge is asked, and answers *)

\* What a judge may hold: that the assertion does, or which side is better.
Holds(q) == IF q.kind = "llm" THEN {"yes", "no"} ELSE {"first", "second", "tie"}

\* BaselinePairing::for_criterion and build_blind_pair: the first side's label.
LabelOfFirst(q) == IF q.swapped THEN "B" ELSE "A"

\* The judge answers in labels.
Labelled(q, opinion) ==
    IF opinion = "first" THEN LabelOfFirst(q)
    ELSE IF opinion = "second" THEN IF q.swapped THEN "A" ELSE "B"
    ELSE opinion

Ballot ==
    /\ stage = "vote" /\ Len(replies) < question.votes
    /\ \E opinion \in Holds(question) :
          /\ held' = Append(held, opinion)
          /\ replies' = Append(replies, Labelled(question, opinion))
    /\ UNCHANGED <<question, stage, budget, shown, carried, brief, outcome>>

\* judge, parse_json_reply, parse_winner: a call that fails, or a reply that is
\* not an answer, ends the command.
NoAnswer ==
    /\ stage = "vote" /\ Len(replies) < question.votes
    /\ stage' = "done" /\ outcome' = "error"
    /\ UNCHANGED <<question, budget, shown, carried, brief, replies, held>>

\* Mutant: the run is taken for A whatever the shuffle.
WinsAsA(q, reply) == reply \in IF q.kind = "llm" THEN {"yes"} ELSE {"A", "tie"}

\* at_least_as_good for a baseline, `passed` for a criterion.
Favours(q, reply) == reply \in IF q.kind = "llm" THEN {"yes"} ELSE {LabelOfFirst(q), "tie"}

\* JudgeVoteTally::majority_passed
MajorityPassed ==
    LET for == Cardinality({i \in DOMAIN replies : Favours(question, replies[i])}) IN for > Len(replies) - for

\* The pair's winner_scenario.
Winner(q, reply) == IF reply = "tie" THEN "tie" ELSE IF reply = LabelOfFirst(q) THEN "first" ELSE "second"

\* tally_opinions
TallyOpinions ==
    /\ stage = "vote" /\ Len(replies) = question.votes
    /\ outcome' = IF question.kind = "pair" THEN Winner(question, replies[1])
                  ELSE IF MajorityPassed THEN "passed" ELSE "failed"
    /\ stage' = "done"
    /\ UNCHANGED <<question, budget, shown, carried, brief, replies, held>>

JudgingNext ==
    \/ Settle \/ Incomplete \/ OpenRequest \/ Place \/ Complete \/ PlaceBrief \/ ShowBoth
    \/ Ballot \/ NoAnswer \/ TallyOpinions

JudgingSpec == JudgingInit(Questions) /\ [][JudgingNext]_judgeVars

------------------------------------------------------------------------------
(* What a judge's verdict promises. *)

\* What one text may count on, whatever the others take.
FairShare(q) == (Total - Reserved(q)) \div Len(q.texts)

(* Of the run's material and the case together a request carries no more than *)
(* Total, the notes on what was cut aside.  However much the others hold, each *)
(* text, and each part of the case, keeps its share; a transcript keeps whole *)
(* messages and may leave some of its share unused.                           *)
RequestsFit ==
    question.kind = "llm" /\ stage \in {"place", "brief", "vote"} =>
        /\ budget.bytes >= 0 /\ budget.slots >= 0
        /\ carried + brief.expected + brief.prompt <= Total
        /\ question.target # "transcript" =>
              \A i \in DOMAIN shown : shown[i] >= Least(question.texts[i], FairShare(question)) - Slack
        /\ stage = "vote" => /\ brief.expected >= Least(question.expected, Floor) - Slack
                             /\ brief.prompt >= Least(question.prompt, Floor) - Slack

\* The opinions by which the assertion holds, or the run is no worse.
Content == Cardinality({i \in DOMAIN held : held[i] \in {"yes", "first", "tie"}})

\* An answer was to be graded, and there is none.
LeftNothing(q) ==
    /\ q.kind # "pair" /\ q.target # "listing" /\ q.found = "text"
    /\ \A i \in DOMAIN q.texts : q.texts[i] = 0

(* A verdict is what the panel holds of the sides, not of the labels they were *)
(* shown under: an assertion passes when most of an odd panel, every ballot of *)
(* which was answered, holds that it does, and a pair's winner is the side the *)
(* judge preferred.  A run that left nothing to read fails, whatever a judge  *)
(* would say of nothing, and a call that is not answered leaves no verdict.   *)
VerdictsAreThePanels ==
    stage = "done" /\ question # NoQuestion =>
        /\ LeftNothing(question) => outcome = "failed"
        /\ CASE outcome \in {"passed", "failed"} /\ held # <<>> ->
                   Len(held) = question.votes /\ (outcome = "passed" <=> 2 * Content > Len(held))
             [] outcome \in {"passed", "failed"} /\ held = <<>> ->
                   outcome = "failed" /\ question.kind # "pair" /\ (question.kind = "llm" => question.target # "listing")
             [] outcome = "error" -> Len(held) < question.votes
             [] OTHER -> question.kind = "pair" /\ held = <<outcome>>
=============================================================================
