--------------------------- MODULE VerdictsProofs ---------------------------
(* Proofs that a judge's request fits and shows every text its share, that a  *)
(* verdict is its panel's, that a script's answer is heard, and that a stream *)
(* is counted, timed and judged for what the run was, for any budgets, texts, *)
(* panels, payloads, pipes, scripts, caps and staged skills.                  *)
EXTENDS Judging, JudgeScript, Transcripts, FiniteSetTheorems, WellFoundedInduction, TLAPS

------------------------------------------------------------------------------
(* Arithmetic *)

\* A share of what is left over k texts is no less than their common share, and
\* leaves the others theirs.
LEMMA ShareLeaves ==
    ASSUME NEW b \in Nat, NEW k \in Nat \ {0}, NEW fair \in Nat, b >= k * fair
    PROVE  /\ b \div k \in Nat /\ b \div k >= fair /\ b \div k <= b
           /\ b - b \div k >= (k - 1) * fair
<1>. DEFINE s == b \div k
<1>1. s \in Nat /\ k * s <= b /\ b < k * s + k
    OBVIOUS
<1>. HIDE DEF s
<1>2. s >= fair
    <2>1. ASSUME s < fair PROVE FALSE
        <3>1. s + 1 <= fair
            BY <1>1, <2>1
        <3>2. k * (s + 1) <= k * fair
            BY <1>1, <3>1
        <3>. QED
            BY <1>1, <3>2
    <2>. QED
        BY <1>1, <2>1
<1>3. s <= k * s /\ k * s = s + (k - 1) * s
    BY <1>1
<1>4. (k - 1) * fair <= (k - 1) * s
    BY <1>1, <1>2
<1>5. (k - 1) * s \in Nat /\ (k - 1) * fair \in Nat
    BY <1>1
<1>. QED
    BY <1>1, <1>2, <1>3, <1>4, <1>5 DEF s

\* Who takes no more than a share leaves the others theirs.
LEMMA PaysItsShare ==
    ASSUME NEW b \in Nat, NEW k \in Nat \ {0}, NEW fair \in Nat, NEW s \in Nat, NEW paid \in Nat,
           s <= b, paid <= s, b - s >= (k - 1) * fair
    PROVE  b - paid \in Nat /\ k - 1 \in Nat /\ b - paid >= (k - 1) * fair
<1>1. PICK rest \in Nat : rest = (k - 1) * fair
    OBVIOUS
<1>. QED
    BY <1>1

\* A set of positions has a first one.
LEMMA FirstOf ==
    ASSUME NEW S, S \subseteq Nat, S # {}
    PROVE  Min(S) \in S /\ \A z \in S : Min(S) <= z
<1>1. PICK x \in S : \A y \in S : ~(<<y, x>> \in OpToRel(<, Nat))
    BY NatLessThanWellFounded, WFMin
<1>2. \A y \in S : x <= y
    <2>. SUFFICES ASSUME NEW y \in S PROVE x <= y
        OBVIOUS
    <2>1. ~(y < x)
        BY <1>1 DEF OpToRel
    <2>. QED
        BY <2>1
<1>. QED
    BY <1>2 DEF Min

------------------------------------------------------------------------------
(* What a request carries *)

(* While a request is put together: what it carries and what the budget has left
   make up the budget, each text to come can still have its share, and each one
   shown has had it. *)
Carries ==
    /\ budget = [bytes |-> budget.bytes, slots |-> budget.slots]
    /\ budget.bytes \in Nat /\ budget.slots \in Nat /\ carried \in Nat
    /\ shown \in Seq(Nat) /\ Len(shown) <= Len(question.texts)
    /\ stage = "place" => /\ budget.slots = Len(question.texts) - Len(shown)
                          /\ budget.bytes >= budget.slots * FairShare(question)
    /\ stage \in {"place", "brief"} =>
          brief = NoBrief /\ carried + budget.bytes + Reserved(question) <= Total
    /\ question.target # "transcript" =>
          \A i \in 1..Len(shown) : shown[i] >= Least(question.texts[i], FairShare(question)) - Slack
    /\ stage = "vote" => /\ brief.expected \in Nat /\ brief.prompt \in Nat
                         /\ carried + brief.expected + brief.prompt <= Total
                         /\ brief.expected >= Least(question.expected, Floor) - Slack
                         /\ brief.prompt >= Least(question.prompt, Floor) - Slack

RequestInv ==
    /\ question \in Questions
    /\ stage = "ask" => shown = <<>> /\ carried = 0 /\ brief = NoBrief
    /\ question.kind = "llm" /\ stage \in {"place", "brief", "vote"} => Carries

\* What is reserved for the case leaves room for the texts.
LEMMA RoomIsLeft ==
    ASSUME NEW q \in Questions
    PROVE  /\ Reserved(q) \in Nat /\ Reserved(q) <= Total /\ FairShare(q) \in Nat
           /\ Least(q.prompt, Floor) \in Nat /\ Least(q.expected, Floor) \in Nat
           /\ Reserved(q) = Least(q.prompt, Floor) + Least(q.expected, Floor)
           /\ Total - Reserved(q) >= Len(q.texts) * FairShare(q)
           /\ q.texts \in Seq(Nat) /\ Len(q.texts) \in Nat \ {0}
           /\ q.expected \in Nat /\ q.prompt \in Nat
<1>1. IsQuestion(q)
    BY JudgingAssumption
<1>2. /\ q.texts \in Seq(Nat) /\ Len(q.texts) \in Nat \ {0} /\ q.expected \in Nat /\ q.prompt \in Nat
    BY <1>1 DEF IsQuestion
<1>3. /\ Least(q.prompt, Floor) \in Nat /\ Least(q.expected, Floor) \in Nat
      /\ Least(q.prompt, Floor) <= Floor /\ Least(q.expected, Floor) <= Floor
    BY <1>2, JudgingAssumption DEF Least
<1>4. Reserved(q) = Least(q.prompt, Floor) + Least(q.expected, Floor) /\ Reserved(q) \in Nat /\ Reserved(q) <= Total
    BY <1>3, JudgingAssumption DEF Reserved
<1>5. PICK room \in Nat : room = Total - Reserved(q)
    BY <1>4, JudgingAssumption
<1>6. PICK k \in Nat \ {0} : k = Len(q.texts)
    BY <1>2
<1>7. room \div k \in Nat /\ room >= k * (room \div k)
    BY <1>5, <1>6
<1>8. FairShare(q) = room \div k
    BY <1>5, <1>6 DEF FairShare
<1>. QED
    BY <1>2, <1>3, <1>4, <1>5, <1>6, <1>7, <1>8

\* A cut keeps all of its room but a character's width.
LEMMA CutsFit ==
    ASSUME NEW cap \in Nat, NEW n \in Cuts(cap)
    PROVE  n \in Nat /\ n <= cap /\ n >= cap - Slack
BY JudgingAssumption DEF Cuts

\* A transcript's tail has room in what it was cut to.
LEMMA TailFits ==
    ASSUME NEW msgs \in Seq(Nat), NEW cap \in Nat, NEW n \in TailCuts(msgs, cap)
    PROVE  n \in Nat /\ n <= cap
<1>. DEFINE fit == {i \in DOMAIN msgs : Joined(msgs)[i] \in 0..cap}
            used == Joined(msgs)[Min(fit)]
<1>1. \/ Len(msgs) < 2 \/ fit = {}
      \/ ~(Len(msgs) < 2 \/ fit = {})
    OBVIOUS
<1>2. CASE Len(msgs) < 2 \/ fit = {}
    <2>1. n \in Cuts(cap)
        BY <1>2 DEF TailCuts
    <2>. QED
        BY <2>1, CutsFit
<1>3. CASE ~(Len(msgs) < 2 \/ fit = {})
    <2>1. Len(msgs) \in Nat /\ DOMAIN msgs = 1..Len(msgs) /\ Len(msgs) >= 2 /\ msgs[1] \in Nat
        BY <1>3
    <2>2. fit \subseteq Nat /\ fit # {}
        BY <2>1, <1>3
    <2>3. Min(fit) \in fit
        BY <2>2, FirstOf
    <2>4. used \in 0..cap
        BY <2>3
    <2>5. n \in (IF 1 \notin fit /\ msgs[1] \in 0..(cap - used - 1) THEN {used + msgs[1] + 1} ELSE {used})
        BY <1>3 DEF TailCuts
    <2>. HIDE DEF fit, used
    <2>. QED
        BY <2>1, <2>4, <2>5
<1>. QED
    BY <1>1, <1>2, <1>3

\* What is shown of a text is paid for, and is its share or all of it.
LEMMA PlacedIsPaid ==
    ASSUME NEW q \in Questions, NEW len \in Nat, NEW share \in Nat, NEW n \in Placed(q, len, share)
    PROVE  /\ n \in Nat /\ n <= Paid(len, share) /\ Paid(len, share) <= share /\ Paid(len, share) \in Nat
           /\ q.target # "transcript" =>
                 \A fair \in Nat : fair <= share => n >= Least(len, fair) - Slack
<1>1. q.lines \in Seq(Nat) /\ Slack \in Nat
    BY JudgingAssumption DEF IsQuestion
<1>2. CASE share = 0
    <2>1. n = 0
        BY <1>2 DEF Placed
    <2>. QED
        BY <1>1, <1>2, <2>1 DEF Paid, Least
<1>3. CASE share # 0 /\ len <= share
    <2>1. n = len
        BY <1>3 DEF Placed
    <2>. QED
        BY <1>1, <1>3, <2>1 DEF Paid, Least
<1>4. CASE share # 0 /\ ~(len <= share)
    <2>1. n \in (IF q.target = "transcript" THEN TailCuts(q.lines, share) ELSE Cuts(share))
        BY <1>4 DEF Placed
    <2>2. n \in Nat /\ n <= share
        BY <2>1, <1>1, TailFits, CutsFit
    <2>3. q.target # "transcript" => n >= share - Slack
        BY <2>1, CutsFit
    <2>. QED
        BY <1>1, <1>4, <2>2, <2>3 DEF Paid, Least
<1>. QED
    BY <1>2, <1>3, <1>4

\* A clipped text keeps all its room but a character's width.
LEMMA ClipsFit ==
    ASSUME NEW len \in Nat, NEW cap \in Nat, NEW n \in Clips(len, cap)
    PROVE  n \in Nat /\ n <= Least(len, cap) /\ n >= Least(len, cap) - Slack
<1>1. Slack \in Nat
    BY JudgingAssumption
<1>2. CASE len <= cap
    BY <1>1, <1>2 DEF Clips, Least
<1>3. CASE ~(len <= cap)
    <2>1. n \in Cuts(cap)
        BY <1>3 DEF Clips
    <2>. QED
        BY <2>1, <1>3, CutsFit DEF Least
<1>. QED
    BY <1>2, <1>3

\* A text is shown and paid for.
LEMMA PlaceCarries ==
    ASSUME RequestInv, Place, question.kind = "llm"
    PROVE  Carries'
<1>. DEFINE q == question
            len == q.texts[Len(shown) + 1]
            share == budget.bytes \div budget.slots
            fair == FairShare(q)
<1>1. /\ stage = "place" /\ stage' = "place" /\ question' = question /\ q \in Questions /\ Carries
      /\ Len(shown) < Len(q.texts) /\ brief' = brief
      /\ budget' = [bytes |-> budget.bytes - Paid(len, share), slots |-> budget.slots - 1]
    BY DEF Place, RequestInv
<1>2. PICK n \in Placed(q, len, share) : shown' = Append(shown, n) /\ carried' = carried + n
    BY DEF Place
<1>3. /\ shown \in Seq(Nat) /\ Len(shown) \in Nat /\ q.texts \in Seq(Nat) /\ Len(q.texts) \in Nat
      /\ budget.bytes \in Nat /\ budget.slots \in Nat /\ carried \in Nat /\ fair \in Nat /\ Reserved(q) \in Nat
      /\ Total \in Nat /\ Slack \in Nat
    <2>1. /\ shown \in Seq(Nat) /\ Len(shown) \in Nat
          /\ budget.bytes \in Nat /\ budget.slots \in Nat /\ carried \in Nat
        BY <1>1 DEF Carries
    <2>2. q.texts \in Seq(Nat) /\ Len(q.texts) \in Nat /\ fair \in Nat /\ Reserved(q) \in Nat
        BY <1>1, RoomIsLeft
    <2>. QED
        BY <2>1, <2>2, JudgingAssumption
<1>4. len \in Nat
    <2>1. PICK k \in Nat : k = Len(shown) /\ k < Len(q.texts)
        BY <1>1, <1>3
    <2>2. q.texts[k + 1] \in Nat
        BY <1>3, <2>1
    <2>. QED
        BY <2>1, <2>2
<1>5. /\ budget.slots = Len(q.texts) - Len(shown) /\ budget.slots \in Nat \ {0}
      /\ budget.bytes >= budget.slots * fair
    BY <1>1, <1>3, SMTT(30) DEF Carries
<1>6. /\ share \in Nat /\ share >= fair /\ share <= budget.bytes
      /\ budget.bytes - share >= (budget.slots - 1) * fair
    BY <1>3, <1>5, ShareLeaves
<1>7. /\ n \in Nat /\ n <= Paid(len, share) /\ Paid(len, share) <= share /\ Paid(len, share) \in Nat
      /\ q.target # "transcript" => n >= Least(len, fair) - Slack
    <2>. HIDE DEF len, share, fair
    <2>1. n \in Placed(q, len, share)
        BY <1>2
    <2>. QED
        BY <1>1, <1>3, <1>4, <1>6, <2>1, PlacedIsPaid
<1>8. /\ budget'.bytes = budget.bytes - Paid(len, share) /\ budget'.slots = budget.slots - 1
      /\ budget' = [bytes |-> budget'.bytes, slots |-> budget'.slots]
    BY <1>1
<1>9. /\ shown' \in Seq(Nat) /\ Len(shown') = Len(shown) + 1
      /\ \A i \in 1..Len(shown) : shown'[i] = shown[i]
      /\ shown'[Len(shown) + 1] = n
    BY <1>2, <1>3, <1>7
<1>10. carried + budget.bytes + Reserved(q) <= Total /\ brief = NoBrief
    BY <1>1 DEF Carries
<1>11. q.target # "transcript" => \A i \in 1..Len(shown) : shown[i] >= Least(q.texts[i], fair) - Slack
    BY <1>1 DEF Carries
<1>12. /\ budget'.bytes \in Nat /\ budget'.slots \in Nat /\ budget'.bytes >= budget'.slots * fair
       /\ carried' \in Nat /\ carried' + budget'.bytes + Reserved(q) <= Total
    <2>1. PICK b \in Nat, k \in Nat \ {0}, s \in Nat, f \in Nat, paid \in Nat :
              /\ b = budget.bytes /\ k = budget.slots /\ s = share /\ f = fair /\ paid = Paid(len, share)
        BY <1>3, <1>5, <1>6, <1>7
    <2>2. s <= b /\ b - s >= (k - 1) * f /\ paid <= s /\ n <= paid /\ n \in Nat
        BY <2>1, <1>6, <1>7
    <2>3. b - paid \in Nat /\ k - 1 \in Nat /\ b - paid >= (k - 1) * f
        BY <2>2, PaysItsShare
    <2>4. budget'.bytes = b - paid /\ budget'.slots = k - 1
        BY <2>1, <1>8
    <2>5. carried + b + Reserved(q) <= Total
        BY <2>1, <1>10
    <2>6. carried' \in Nat /\ carried' + (b - paid) + Reserved(q) <= Total
        <3>1. PICK c \in Nat, r \in Nat, t \in Nat : c = carried /\ r = Reserved(q) /\ t = Total
            BY <1>3
        <3>2. c + b + r <= t
            BY <3>1, <2>5
        <3>3. c + n \in Nat /\ c + n + (b - paid) + r <= t
            BY <2>2, <2>3, <3>2
        <3>. QED
            BY <1>2, <3>1, <3>3
    <2>. QED
        BY <2>1, <2>3, <2>4, <2>6
<1>13. q.target # "transcript" => \A i \in 1..Len(shown') : shown'[i] >= Least(q.texts[i], fair) - Slack
    <2>. SUFFICES ASSUME q.target # "transcript", NEW i \in 1..Len(shown')
                  PROVE  shown'[i] >= Least(q.texts[i], fair) - Slack
        OBVIOUS
    <2>1. i \in 1..Len(shown) \/ i = Len(shown) + 1
        BY <1>3, <1>9
    <2>2. CASE i \in 1..Len(shown)
        BY <2>2, <1>9, <1>11
    <2>3. CASE i = Len(shown) + 1
        BY <2>3, <1>7, <1>9
    <2>. QED
        BY <2>1, <2>2, <2>3
<1>14. budget'.slots = Len(q.texts) - Len(shown') /\ Len(shown') <= Len(q.texts)
    BY <1>1, <1>3, <1>5, <1>8, <1>9
<1>. QED
    BY <1>1, <1>8, <1>9, <1>10, <1>12, <1>13, <1>14 DEF Carries

\* The case gets what was reserved for it, and what is left.
LEMMA BriefCarries ==
    ASSUME RequestInv, PlaceBrief, question.kind = "llm"
    PROVE  Carries'
<1>. DEFINE q == question
            remaining == budget.bytes + Reserved(q)
            cap == remaining - Least(q.prompt, Floor)
            spent == Least(q.expected, cap)
<1>1. /\ stage = "brief" /\ stage' = "vote" /\ question' = question /\ q \in Questions /\ Carries
      /\ shown' = shown /\ carried' = carried /\ budget' = budget
    BY DEF PlaceBrief, RequestInv
<1>2. PICK e \in Clips(q.expected, cap), p \in Clips(q.prompt, remaining - spent) :
            brief' = [expected |-> e, prompt |-> p]
    BY DEF PlaceBrief
<1>3. /\ budget.bytes \in Nat /\ carried \in Nat /\ Reserved(q) \in Nat /\ Total \in Nat /\ Slack \in Nat /\ Floor \in Nat
      /\ q.expected \in Nat /\ q.prompt \in Nat
      /\ Reserved(q) = Least(q.prompt, Floor) + Least(q.expected, Floor)
      /\ Least(q.prompt, Floor) \in Nat /\ Least(q.expected, Floor) \in Nat
      /\ carried + budget.bytes + Reserved(q) <= Total
    BY <1>1, RoomIsLeft, JudgingAssumption DEF Carries
<1>4. remaining \in Nat /\ cap \in Nat /\ cap >= Least(q.expected, Floor)
    BY <1>3
<1>5. spent \in Nat /\ spent <= cap /\ Least(q.expected, Floor) <= spent
    BY <1>3, <1>4 DEF Least
<1>6. remaining - spent \in Nat /\ remaining - spent >= Least(q.prompt, Floor)
    BY <1>3, <1>4, <1>5
<1>7. e \in Nat /\ e <= spent /\ e >= spent - Slack
    BY <1>3, <1>4, ClipsFit
<1>8. /\ p \in Nat /\ p <= Least(q.prompt, remaining - spent) /\ p >= Least(q.prompt, remaining - spent) - Slack
    BY <1>3, <1>6, ClipsFit
<1>. HIDE DEF cap, spent
<1>9. p <= remaining - spent /\ p >= Least(q.prompt, Floor) - Slack
    BY <1>3, <1>5, <1>6, <1>8 DEF Least
<1>10. carried + e + p <= Total
    BY <1>3, <1>5, <1>6, <1>7, <1>9
<1>11. e >= Least(q.expected, Floor) - Slack
    BY <1>3, <1>5, <1>7
<1>12. brief'.expected = e /\ brief'.prompt = p
    BY <1>2
<1>. QED
    BY <1>1, <1>7, <1>8, <1>9, <1>10, <1>11, <1>12 DEF Carries

(* RequestInv is preserved. *)
LEMMA RequestStep ==
    ASSUME RequestInv, [JudgingNext]_judgeVars
    PROVE  RequestInv'
<1>1. CASE UNCHANGED judgeVars
    BY <1>1 DEF judgeVars, RequestInv, Carries
<1>2. CASE Settle \/ Incomplete \/ NoAnswer \/ TallyOpinions
    BY <1>2 DEF Settle, Incomplete, NoAnswer, TallyOpinions, RequestInv
<1>3. CASE Ballot
    BY <1>3 DEF Ballot, RequestInv, Carries
<1>4. CASE Complete
    BY <1>4 DEF Complete, RequestInv, Carries
<1>5. CASE ShowBoth
    BY <1>5 DEF ShowBoth, RequestInv
<1>6. CASE Place
    BY <1>6, PlaceCarries DEF Place, RequestInv
<1>7. CASE PlaceBrief
    BY <1>7, BriefCarries DEF PlaceBrief, RequestInv
<1>8. CASE OpenRequest
    <2>1. /\ question' = question /\ shown' = <<>> /\ carried' = 0 /\ brief' = NoBrief
          /\ budget' = [bytes |-> Total - Reserved(question), slots |-> Len(question.texts)]
          /\ stage' \in {"place", "brief"} /\ question \in Questions
        BY <1>8 DEF OpenRequest, RequestInv
    <2>2. /\ Reserved(question) \in Nat /\ Reserved(question) <= Total /\ Total \in Nat
          /\ Len(question.texts) \in Nat /\ FairShare(question) \in Nat
          /\ Total - Reserved(question) >= Len(question.texts) * FairShare(question)
        BY <2>1, RoomIsLeft, JudgingAssumption
    <2>3. budget'.bytes = Total - Reserved(question) /\ budget'.slots = Len(question.texts)
          /\ budget' = [bytes |-> budget'.bytes, slots |-> budget'.slots]
        BY <2>1
    <2>4. Carries'
        BY <2>1, <2>2, <2>3 DEF Carries
    <2>. QED
        BY <2>1, <2>4 DEF RequestInv
<1>. QED
    BY <1>1, <1>2, <1>3, <1>4, <1>5, <1>6, <1>7, <1>8 DEF JudgingNext

(* However long the texts of a run, their names and its case are, a request
   carries no more than the budget, and every text and each part of the case has
   had its share of it (PayloadBudget, CaseBrief). *)
THEOREM RequestsAreFit == JudgingSpec => []RequestsFit
<1>1. JudgingInit(Questions) => RequestInv
    BY DEF JudgingInit, RequestInv
<1>2. RequestInv => RequestsFit
    <2>. SUFFICES ASSUME RequestInv, question.kind = "llm", stage \in {"place", "brief", "vote"}
                  PROVE  RequestsFit
        BY DEF RequestsFit
    <2>1. Carries /\ question \in Questions
        BY DEF RequestInv
    <2>2. shown \in Seq(Nat) /\ DOMAIN shown = 1..Len(shown)
        BY <2>1 DEF Carries
    <2>3. NoBrief.expected = 0 /\ NoBrief.prompt = 0
        BY DEF NoBrief
    <2>4. Reserved(question) \in Nat /\ Total \in Nat
        BY <2>1, RoomIsLeft, JudgingAssumption
    <2>5. carried + brief.expected + brief.prompt <= Total
        BY <2>1, <2>3, <2>4 DEF Carries
    <2>. QED
        BY <2>1, <2>2, <2>5 DEF Carries, RequestsFit
<1>. QED
    BY <1>1, <1>2, RequestStep, PTL DEF JudgingSpec

------------------------------------------------------------------------------
(* What a panel says *)

Opinions == {"yes", "no", "first", "second", "tie"}
Labels == {"yes", "no", "A", "B", "tie"}

(* How a question was settled: without a judge, by none, or by its whole panel. *)
Settled ==
    \/ Silent(question) /\ outcome = "failed" /\ held = <<>>
    \/ ~Silent(question) /\ outcome = "error" /\ Len(held) < question.votes
    \/ /\ ~Silent(question) /\ Len(held) = question.votes /\ held # <<>>
       /\ \/ question.kind = "pair" /\ held = <<outcome>> /\ outcome \in {"first", "second", "tie"}
          \/ question.kind # "pair" /\ outcome = IF 2 * Content > Len(held) THEN "passed" ELSE "failed"

(* Every reply says, in the labels of the question, what the judge holds, and
   only a question that is not settled without a judge comes before one. *)
PanelInv ==
    /\ question \in Questions
    /\ held \in Seq(Opinions) /\ replies \in Seq(Labels) /\ Len(replies) = Len(held)
    /\ Len(held) <= question.votes
    /\ \A i \in 1..Len(held) : held[i] \in Holds(question) /\ replies[i] = Labelled(question, held[i])
    /\ stage \in {"ask", "place", "brief"} => held = <<>>
    /\ stage \in {"place", "brief", "vote"} => ~Silent(question)
    /\ stage = "done" => Settled

\* An opinion comes back from its label.
LEMMA LabelsAreUndone ==
    ASSUME NEW q \in Questions, NEW o \in Holds(q)
    PROVE  /\ o \in Opinions /\ Labelled(q, o) \in Labels
           /\ q.kind # "pair" => (Favours(q, Labelled(q, o)) <=> o \in {"yes", "first", "tie"})
           /\ q.kind = "pair" => Winner(q, Labelled(q, o)) = o /\ o \in {"first", "second", "tie"}
<1>1. q.kind \in Kinds /\ q.swapped \in BOOLEAN
    BY JudgingAssumption DEF IsQuestion
<1>2. LabelOfFirst(q) = (IF q.swapped THEN "B" ELSE "A")
    BY DEF LabelOfFirst
<1>3. CASE q.kind = "llm"
    BY <1>3, <1>2 DEF Holds, Labelled, Opinions, Labels, Favours
<1>4. CASE q.kind # "llm"
    BY <1>1, <1>2, <1>4 DEF Holds, Labelled, Opinions, Labels, Favours, Winner, Kinds
<1>. QED
    BY <1>3, <1>4

\* A panel that has voted is tallied as it holds.
LEMMA PanelIsTallied ==
    ASSUME PanelInv, TallyOpinions
    PROVE  Settled'
<1>1. /\ stage = "vote" /\ Len(replies) = question.votes /\ Len(held) = question.votes /\ ~Silent(question)
      /\ question' = question /\ held' = held /\ question \in Questions
      /\ outcome' = IF question.kind = "pair" THEN Winner(question, replies[1])
                    ELSE IF MajorityPassed THEN "passed" ELSE "failed"
    BY DEF TallyOpinions, PanelInv
<1>2. question.votes \in Nat /\ question.votes >= 1 /\ (question.kind = "pair" => question.votes = 1)
    <2>1. IsQuestion(question)
        BY <1>1, JudgingAssumption
    <2>2. question.votes \in Nat /\ question.votes % 2 = 1 /\ (question.kind = "pair" => question.votes = 1)
        BY <2>1 DEF IsQuestion
    <2>. QED
        BY <2>2
<1>3. /\ held \in Seq(Opinions) /\ replies \in Seq(Labels)
      /\ \A i \in 1..Len(held) : held[i] \in Holds(question) /\ replies[i] = Labelled(question, held[i])
    BY DEF PanelInv
<1>4. held # <<>> /\ DOMAIN held = 1..Len(held) /\ DOMAIN replies = 1..Len(held)
    BY <1>1, <1>2, <1>3
<1>5. CASE question.kind = "pair"
    <2>1. Len(held) = 1
        BY <1>1, <1>2, <1>5
    <2>2. held[1] \in Holds(question) /\ replies[1] = Labelled(question, held[1])
        BY <1>3, <2>1
    <2>3. outcome' = held[1] /\ held[1] \in {"first", "second", "tie"}
        BY <1>1, <1>5, <2>2, LabelsAreUndone
    <2>4. held = <<held[1]>>
        BY <1>3, <2>1
    <2>. QED
        BY <1>1, <1>4, <1>5, <2>3, <2>4 DEF Settled
<1>6. CASE question.kind # "pair"
    <2>1. ASSUME NEW i \in 1..Len(held)
          PROVE  Favours(question, replies[i]) <=> held[i] \in {"yes", "first", "tie"}
        BY <1>1, <1>3, <1>6, LabelsAreUndone
    <2>2. {i \in DOMAIN replies : Favours(question, replies[i])}
             = {i \in DOMAIN held : held[i] \in {"yes", "first", "tie"}}
        BY <1>4, <2>1
    <2>3. Content \in Nat
        <3>1. IsFiniteSet(1..Len(held))
            BY <1>1, <1>2, FS_Interval
        <3>2. IsFiniteSet({i \in DOMAIN held : held[i] \in {"yes", "first", "tie"}})
            BY <1>4, <3>1, FS_Subset
        <3>. QED
            BY <3>2, FS_CardinalityType DEF Content
    <2>4. MajorityPassed <=> Content > Len(replies) - Content
        BY <2>2 DEF MajorityPassed, Content
    <2>5. MajorityPassed <=> 2 * Content > Len(held)
        BY <2>3, <2>4, <1>1, <1>2
    <2>6. Content' = Content
        BY <1>1 DEF Content
    <2>. QED
        BY <1>1, <1>4, <1>6, <2>5, <2>6 DEF Settled
<1>. QED
    BY <1>5, <1>6

(* PanelInv is preserved. *)
LEMMA PanelStep ==
    ASSUME PanelInv, [JudgingNext]_judgeVars
    PROVE  PanelInv'
<1>1. CASE UNCHANGED judgeVars
    BY <1>1 DEF judgeVars, PanelInv, Settled, Content
<1>2. CASE Settle
    BY <1>2 DEF Settle, PanelInv, Settled
<1>3. CASE Incomplete
    <2>1. IsQuestion(question)
        BY JudgingAssumption DEF PanelInv
    <2>2. question.votes = 1 /\ ~Silent(question)
        BY <1>3, <2>1 DEF Incomplete, IsQuestion, Silent
    <2>. QED
        BY <1>3, <2>2 DEF Incomplete, PanelInv, Settled
<1>4. CASE NoAnswer
    BY <1>4 DEF NoAnswer, PanelInv, Settled
<1>5. CASE OpenRequest \/ Place \/ Complete \/ PlaceBrief \/ ShowBoth
    BY <1>5 DEF OpenRequest, Place, Complete, PlaceBrief, ShowBoth, PanelInv
<1>6. CASE TallyOpinions
    BY <1>6, PanelIsTallied DEF TallyOpinions, PanelInv
<1>7. CASE Ballot
    <2>1. PICK o \in Holds(question) : held' = Append(held, o) /\ replies' = Append(replies, Labelled(question, o))
        BY <1>7 DEF Ballot
    <2>2. /\ stage = "vote" /\ stage' = "vote" /\ question' = question /\ Len(replies) < question.votes
          /\ question \in Questions
        BY <1>7 DEF Ballot, PanelInv
    <2>3. o \in Opinions /\ Labelled(question, o) \in Labels
        BY <2>2, LabelsAreUndone
    <2>4. /\ held' \in Seq(Opinions) /\ replies' \in Seq(Labels)
          /\ Len(held') = Len(held) + 1 /\ Len(replies') = Len(replies) + 1
          /\ \A i \in 1..Len(held) : held'[i] = held[i] /\ replies'[i] = replies[i]
          /\ held'[Len(held) + 1] = o /\ replies'[Len(held) + 1] = Labelled(question, o)
        BY <2>1, <2>3 DEF PanelInv
    <2>5. ASSUME NEW i \in 1..Len(held')
          PROVE  held'[i] \in Holds(question) /\ replies'[i] = Labelled(question, held'[i])
        <3>1. i \in 1..Len(held) \/ i = Len(held) + 1
            BY <2>4 DEF PanelInv
        <3>2. CASE i \in 1..Len(held)
            BY <3>2, <2>4 DEF PanelInv
        <3>3. CASE i = Len(held) + 1
            BY <3>3, <2>4
        <3>. QED
            BY <3>1, <3>2, <3>3
    <2>6. question.votes \in Nat
        BY <2>2, JudgingAssumption DEF IsQuestion
    <2>7. Len(held') <= question.votes /\ Len(replies') = Len(held')
        BY <2>2, <2>4, <2>6 DEF PanelInv
    <2>. QED
        BY <2>2, <2>4, <2>5, <2>7 DEF PanelInv
<1>. QED
    BY <1>1, <1>2, <1>3, <1>4, <1>5, <1>6, <1>7 DEF JudgingNext

\* A run that left nothing to read is settled without a judge.
LEMMA NothingIsSilent ==
    ASSUME NEW q \in Questions, LeftNothing(q)
    PROVE  Silent(q)
<1>1. /\ q.kind \in Kinds /\ q.texts \in Seq(Nat) /\ q.texts # <<>>
    BY JudgingAssumption DEF IsQuestion
<1>2. 1 \in DOMAIN q.texts
    BY <1>1
<1>. QED
    BY <1>1, <1>2 DEF LeftNothing, Silent, Blank, Kinds

(* A verdict is what most of the whole panel holds of the sides behind the
   labels, a pair's winner the side the judge preferred, and nothing is said for
   a run that left nothing or of a call that was not answered (tally_opinions,
   BaselinePairing, settled_without_a_judge). *)
THEOREM VerdictsAreTrue == JudgingSpec => []VerdictsAreThePanels
<1>1. JudgingInit(Questions) => PanelInv
    <2>. SUFFICES ASSUME JudgingInit(Questions) PROVE PanelInv
        OBVIOUS
    <2>1. question \in Questions /\ replies = <<>> /\ held = <<>>
        BY DEF JudgingInit
    <2>2. IsQuestion(question)
        BY <2>1, JudgingAssumption
    <2>3. question # NoQuestion /\ question.votes \in Nat
        BY <2>2 DEF IsQuestion, NoQuestion, Kinds
    <2>4. stage = "ask"
        BY <2>3 DEF JudgingInit
    <2>. QED
        BY <2>1, <2>3, <2>4 DEF PanelInv
<1>2. PanelInv => VerdictsAreThePanels
    <2>. SUFFICES ASSUME PanelInv, stage = "done", question # NoQuestion PROVE VerdictsAreThePanels
        BY DEF VerdictsAreThePanels
    <2>1. Settled /\ question \in Questions
        BY DEF PanelInv
    <2>2. question.kind \in Kinds /\ (LeftNothing(question) => Silent(question))
        BY <2>1, NothingIsSilent, JudgingAssumption DEF IsQuestion
    <2>3. CASE Silent(question) /\ outcome = "failed" /\ held = <<>>
        <3>1. question.kind # "pair" /\ (question.kind = "llm" => question.target # "listing")
            BY <2>2, <2>3 DEF Silent, Kinds
        <3>. QED
            BY <2>3, <3>1 DEF VerdictsAreThePanels
    <2>4. CASE ~Silent(question) /\ outcome = "error" /\ Len(held) < question.votes
        BY <2>2, <2>4 DEF VerdictsAreThePanels
    <2>5. CASE /\ ~Silent(question) /\ Len(held) = question.votes /\ held # <<>>
               /\ question.kind = "pair" /\ held = <<outcome>> /\ outcome \in {"first", "second", "tie"}
        BY <2>2, <2>5 DEF VerdictsAreThePanels
    <2>6. CASE /\ ~Silent(question) /\ Len(held) = question.votes /\ held # <<>>
               /\ question.kind # "pair" /\ outcome = IF 2 * Content > Len(held) THEN "passed" ELSE "failed"
        BY <2>2, <2>6 DEF VerdictsAreThePanels
    <2>. QED
        BY <2>1, <2>3, <2>4, <2>5, <2>6 DEF Settled
<1>. QED
    BY <1>1, <1>2, PanelStep, PTL DEF JudgingSpec

------------------------------------------------------------------------------
(* A script and its pipes *)

\* What the script has printed so far.
Printed == {i \in 1..(script.at - 1) : script.plan.does[i] = "print"}

Types ==
    /\ asker = [kind |-> asker.kind, payload |-> asker.payload, left |-> asker.left]
    /\ asker.kind \in Askers /\ asker.payload \in Nat /\ asker.left \in Nat
    /\ script = [plan |-> script.plan, at |-> script.at, runs |-> script.runs]
    /\ script.plan \in Plans /\ script.at \in Nat \ {0} /\ script.runs \in BOOLEAN
    /\ script.at <= Len(script.plan.does) + 1
    /\ stdin = [held |-> stdin.held, open |-> stdin.open]
    /\ stdin.held \in 0..Pipe /\ stdin.open \in BOOLEAN
    /\ stdout \in 0..Pipe

(* The answer, once there is one. *)
Heard ==
    /\ asker.kind = "grade" /\ verdict # "none" => verdict = Account("grade", script.plan.ends)
    /\ asker.kind = "compare" /\ verdict # "none" =>
          verdict = Account("compare", script.plan.ends) \/ (verdict = "not_handed_over" /\ asker.left > 0)

(* What is written of the payload is no more than all of it; and while a
   comparison still writes, nobody has read what the script printed, and the
   script has not read its input to the end. *)
ScriptInv ==
    /\ Types
    /\ Heard
    /\ asker.left + stdin.held <= asker.payload
    /\ asker.kind = "compare" /\ stdin.open =>
          /\ stdout = Cardinality(Printed)
          /\ \A j \in 1..(script.at - 1) : script.plan.does[j] # "drain"

\* A plan is a sequence of deeds.
LEMMA PlanFacts ==
    ASSUME NEW p \in Plans
    PROVE  p.does \in Seq(Deeds) /\ Len(p.does) \in Nat /\ DOMAIN p.does = 1..Len(p.does) /\ Pipe \in Nat \ {0}
<1>1. p.does \in Seq(Deeds) /\ Pipe \in Nat \ {0}
    BY JudgeScriptAssumption
<1>. QED
    BY <1>1

\* Printing adds one to what was printed, and reading nothing.
LEMMA PrintedGrows ==
    ASSUME Types, script' = Advanced, script.at <= Len(script.plan.does)
    PROVE  /\ IsFiniteSet(Printed) /\ Cardinality(Printed) \in Nat
           /\ script.at \in DOMAIN script.plan.does /\ Deed \in Deeds
           /\ script'.plan = script.plan /\ script'.at = script.at + 1 /\ script'.runs = script.runs
           /\ script' = [plan |-> script'.plan, at |-> script'.at, runs |-> script'.runs]
           /\ 1..(script'.at - 1) = (1..(script.at - 1)) \cup {script.at}
           /\ Deed # "print" => Printed' = Printed
           /\ Deed = "print" => Cardinality(Printed') = Cardinality(Printed) + 1
<1>1. /\ script.plan \in Plans /\ script.at \in Nat \ {0}
      /\ script'.plan = script.plan /\ script'.at = script.at + 1 /\ script'.runs = script.runs
      /\ script' = [plan |-> script'.plan, at |-> script'.at, runs |-> script'.runs]
    BY DEF Types, Advanced
<1>2. PICK n \in Nat \ {0} : n = script.at
    BY <1>1
<1>3. PICK does \in Seq(Deeds) : does = script.plan.does /\ Len(does) \in Nat /\ DOMAIN does = 1..Len(does)
    BY <1>1, PlanFacts
<1>4. n \in 1..Len(does) /\ does[n] \in Deeds /\ Deed = does[n]
    BY <1>2, <1>3 DEF Deed
<1>5. 1..((n + 1) - 1) = (1..(n - 1)) \cup {n} /\ n \notin 1..(n - 1)
    OBVIOUS
<1>6. Printed = {i \in 1..(n - 1) : does[i] = "print"} /\ Printed' = {i \in 1..((n + 1) - 1) : does[i] = "print"}
    BY <1>1, <1>2, <1>3 DEF Printed
<1>7. IsFiniteSet(Printed) /\ Cardinality(Printed) \in Nat /\ n \notin Printed
    <2>1. IsFiniteSet(1..(n - 1))
        BY FS_Interval
    <2>2. Printed \subseteq 1..(n - 1)
        BY <1>6
    <2>. QED
        BY <2>1, <2>2, <1>5, FS_Subset, FS_CardinalityType
<1>8. CASE Deed # "print"
    <2>1. Printed' = Printed
        BY <1>4, <1>5, <1>6, <1>8
    <2>. QED
        BY <1>1, <1>2, <1>3, <1>4, <1>5, <1>7, <1>8, <2>1
<1>9. CASE Deed = "print"
    <2>1. Printed' = Printed \cup {n}
        BY <1>4, <1>5, <1>6, <1>9
    <2>2. Cardinality(Printed \cup {n}) = Cardinality(Printed) + 1
        BY <1>7, FS_AddElement
    <2>. QED
        BY <1>1, <1>2, <1>3, <1>4, <1>5, <1>7, <1>9, <2>1, <2>2
<1>. QED
    BY <1>8, <1>9

\* The script does what its plan says next.
LEMMA PerformStep ==
    ASSUME ScriptInv, Perform
    PROVE  ScriptInv'
<1>1. /\ Types /\ Heard /\ asker' = asker /\ verdict' = verdict /\ verdict = "none"
      /\ script.at <= Len(script.plan.does) /\ script.runs
    BY DEF Perform, Performing, Waiting, ScriptInv
<1>2. /\ stdin.held \in 0..Pipe /\ stdin.open \in BOOLEAN /\ stdout \in 0..Pipe /\ Pipe \in Nat \ {0}
      /\ asker.payload \in Nat /\ asker.left \in Nat /\ script.at \in Nat \ {0} /\ Len(script.plan.does) \in Nat
    BY <1>1, PlanFacts DEF Types
<1>3. Deed \in Deeds
    <2>1. script.plan.does \in Seq(Deeds) /\ script.at \in 1..Len(script.plan.does)
        BY <1>1, <1>2, PlanFacts DEF Types
    <2>. QED
        BY <2>1 DEF Deed
<1>4. Heard'
    BY <1>1 DEF Heard
<1>5. CASE Deed \in {"sip", "drain"}
    <2>1. /\ CanRead /\ stdout' = stdout
          /\ stdin' = [stdin EXCEPT !.held = IF @ > 0 THEN @ - 1 ELSE 0]
          /\ script' = script \/ (script' = Advanced /\ (Deed = "drain" => stdin.held = 0))
        BY <1>5 DEF Perform, Sip, Drain
    <2>2. /\ stdin'.open = stdin.open /\ stdin'.held \in 0..Pipe /\ stdin'.held <= stdin.held
          /\ stdin' = [held |-> stdin'.held, open |-> stdin'.open]
        BY <1>1, <1>2, <2>1 DEF Types
    <2>3. CASE script' = script
        <3>1. Types'
            BY <1>1, <2>1, <2>2, <2>3 DEF Types
        <3>2. Printed' = Printed
            BY <2>3 DEF Printed
        <3>. QED
            BY <1>1, <1>2, <1>4, <2>1, <2>2, <2>3, <3>1, <3>2 DEF ScriptInv
    <2>4. CASE script' = Advanced /\ (Deed = "drain" => stdin.held = 0)
        <3>1. /\ script'.plan = script.plan /\ script'.at = script.at + 1 /\ script'.runs = script.runs
              /\ script' = [plan |-> script'.plan, at |-> script'.at, runs |-> script'.runs]
              /\ 1..(script'.at - 1) = (1..(script.at - 1)) \cup {script.at}
              /\ Printed' = Printed
            BY <1>1, <1>5, <2>4, PrintedGrows
        <3>2. Types'
            BY <1>1, <1>2, <2>1, <2>2, <3>1 DEF Types
        <3>3. stdin.open => Deed # "drain"
            BY <1>2, <2>1, <2>4 DEF CanRead
        <3>4. ASSUME asker.kind = "compare", stdin.open
              PROVE  /\ stdout = Cardinality(Printed)
                     /\ \A j \in 1..(script'.at - 1) : script.plan.does[j] # "drain"
            BY <3>1, <3>3, <3>4 DEF ScriptInv, Deed
        <3>. QED
            BY <1>1, <1>2, <1>4, <2>1, <2>2, <3>1, <3>2, <3>4 DEF ScriptInv
    <2>. QED
        BY <2>1, <2>3, <2>4
<1>6. CASE Deed = "print"
    <2>1. stdout < Pipe /\ stdout' = stdout + 1 /\ script' = Advanced /\ stdin' = stdin
        BY <1>6 DEF Perform, Utter, CanUtter
    <2>2. /\ script'.plan = script.plan /\ script'.at = script.at + 1 /\ script'.runs = script.runs
          /\ script' = [plan |-> script'.plan, at |-> script'.at, runs |-> script'.runs]
          /\ 1..(script'.at - 1) = (1..(script.at - 1)) \cup {script.at}
          /\ Cardinality(Printed') = Cardinality(Printed) + 1
        BY <1>1, <1>6, <2>1, PrintedGrows
    <2>3. Types'
        BY <1>1, <1>2, <2>1, <2>2 DEF Types
    <2>4. ASSUME asker.kind = "compare", stdin.open
          PROVE  /\ stdout' = Cardinality(Printed')
                 /\ \A j \in 1..(script'.at - 1) : script.plan.does[j] # "drain"
        BY <1>6, <2>1, <2>2, <2>4 DEF ScriptInv, Deed
    <2>. QED
        BY <1>1, <1>4, <2>1, <2>2, <2>3, <2>4 DEF ScriptInv
<1>. QED
    BY <1>3, <1>5, <1>6 DEF Deeds

(* ScriptInv is preserved. *)
LEMMA ScriptStep ==
    ASSUME ScriptInv, [ScriptNext]_scriptVars
    PROVE  ScriptInv'
<1>1. CASE UNCHANGED scriptVars
    BY <1>1 DEF scriptVars, ScriptInv, Types, Heard, Printed
<1>0. Types /\ Pipe \in Nat \ {0}
    BY JudgeScriptAssumption DEF ScriptInv
<1>2. CASE Write
    <2>1. /\ asker.left > 0 /\ stdin.held < Pipe /\ verdict = "none"
          /\ asker' = [asker EXCEPT !.left = @ - 1] /\ stdin' = [stdin EXCEPT !.held = @ + 1]
          /\ script' = script /\ stdout' = stdout /\ verdict' = verdict
        BY <1>2 DEF Write, CanWrite, Waiting
    <2>2. /\ asker'.left = asker.left - 1 /\ asker'.kind = asker.kind /\ asker'.payload = asker.payload
          /\ asker' = [kind |-> asker'.kind, payload |-> asker'.payload, left |-> asker'.left]
          /\ stdin'.held = stdin.held + 1 /\ stdin'.open = stdin.open
          /\ stdin' = [held |-> stdin'.held, open |-> stdin'.open]
        BY <1>0, <2>1 DEF Types
    <2>3. Types'
        BY <1>0, <2>1, <2>2 DEF Types
    <2>4. Printed' = Printed
        BY <2>1 DEF Printed
    <2>. QED
        BY <1>0, <2>1, <2>2, <2>3, <2>4 DEF ScriptInv, Heard, Types
<1>3. CASE Close \/ BrokenPipe
    <2>1. /\ stdin' = [stdin EXCEPT !.open = FALSE] /\ verdict = "none"
          /\ asker' = asker /\ script' = script /\ stdout' = stdout
          /\ verdict' = "none" \/ (verdict' = "not_handed_over" /\ asker.kind = "compare" /\ asker.left > 0)
        BY <1>3 DEF Close, CanClose, BrokenPipe, CanBreak, Waiting
    <2>2. stdin'.held = stdin.held /\ stdin'.open = FALSE /\ stdin' = [held |-> stdin'.held, open |-> stdin'.open]
        BY <1>0, <2>1 DEF Types
    <2>3. Types'
        BY <1>0, <2>1, <2>2 DEF Types
    <2>. QED
        BY <2>1, <2>2, <2>3 DEF ScriptInv, Heard
<1>4. CASE Hear
    <2>1. /\ stdout > 0 /\ stdout' = stdout - 1 /\ (asker.kind = "compare" => ~stdin.open)
          /\ asker' = asker /\ script' = script /\ stdin' = stdin /\ verdict' = verdict
        BY <1>4 DEF Hear, CanHear, WritesFirst
    <2>2. Types'
        BY <1>0, <2>1 DEF Types
    <2>. QED
        BY <2>1, <2>2 DEF ScriptInv, Heard
<1>5. CASE Conclude
    <2>1. /\ verdict' = Account(asker.kind, script.plan.ends)
          /\ asker' = asker /\ script' = script /\ stdin' = stdin /\ stdout' = stdout
        BY <1>5 DEF Conclude
    <2>2. Types' /\ Printed' = Printed
        BY <1>0, <2>1 DEF Types, Printed
    <2>. QED
        BY <2>1, <2>2 DEF ScriptInv, Heard
<1>6. CASE Exits
    <2>1. /\ script' = [script EXCEPT !.runs = FALSE] /\ verdict = "none" /\ verdict' = "none"
          /\ asker' = asker /\ stdin' = stdin /\ stdout' = stdout
        BY <1>6 DEF Exits, CanExit, Waiting
    <2>2. /\ script'.plan = script.plan /\ script'.at = script.at /\ script'.runs = FALSE
          /\ script' = [plan |-> script'.plan, at |-> script'.at, runs |-> script'.runs]
        BY <1>0, <2>1 DEF Types
    <2>3. Types' /\ Printed' = Printed
        BY <1>0, <2>1, <2>2 DEF Types, Printed
    <2>. QED
        BY <2>1, <2>2, <2>3 DEF ScriptInv, Heard
<1>. QED
    BY <1>1, <1>2, <1>3, <1>4, <1>5, <1>6, PerformStep DEF ScriptNext

\* Where neither moves, a comparison writes into a full pipe to a script that
\* prints into one.
LEMMA StuckIsOverfull ==
    ASSUME ScriptInv, Waiting, ~Moves
    PROVE  asker.kind = "compare" /\ Overfull
<1>1. /\ Types /\ Pipe \in Nat \ {0}
      /\ stdin.held \in 0..Pipe /\ stdin.open \in BOOLEAN /\ stdout \in 0..Pipe /\ script.runs \in BOOLEAN
      /\ asker.kind \in Askers /\ asker.payload \in Nat /\ asker.left \in Nat
      /\ script.at \in Nat \ {0} /\ Len(script.plan.does) \in Nat /\ asker.left + stdin.held <= asker.payload
    BY JudgeScriptAssumption, PlanFacts DEF ScriptInv, Types
<1>2. /\ ~CanWrite /\ ~CanClose /\ ~CanBreak /\ ~CanHear /\ ~CanConclude /\ ~CanExit
      /\ Performing => IF Deed = "print" THEN ~CanUtter ELSE ~CanRead
    BY DEF Moves
<1>3. script.runs
    <2>. SUFFICES ASSUME ~script.runs PROVE FALSE
        BY <1>1
    <2>1. ~stdin.open
        BY <1>1, <1>2 DEF CanClose, CanBreak
    <2>. QED
        BY <1>1, <1>2, <2>1 DEF CanHear, CanConclude
<1>4. Performing
    BY <1>1, <1>2, <1>3 DEF CanExit, Performing
<1>5. Deed = "print"
    <2>. SUFFICES ASSUME ~CanRead PROVE FALSE
        BY <1>2, <1>4
    <2>. QED
        BY <1>1, <1>2, <1>3 DEF CanRead, CanClose, CanWrite
<1>6. stdout = Pipe
    BY <1>1, <1>2, <1>4, <1>5 DEF CanUtter
<1>7. asker.kind = "compare" /\ stdin.open
    BY <1>1, <1>2, <1>6 DEF CanHear, WritesFirst
<1>8. asker.payload > Pipe
    BY <1>1, <1>2, <1>3, <1>7 DEF CanClose, CanWrite
<1>9. Cardinality(Prologue) > Pipe
    <2>1. PICK n \in Nat \ {0}, does \in Seq(Deeds) :
              n = script.at /\ does = script.plan.does /\ n <= Len(does) /\ Len(does) \in Nat /\ DOMAIN does = 1..Len(does)
        BY <1>1, <1>4, PlanFacts DEF Types, Performing
    <2>2. does[n] = "print" /\ \A j \in 1..(n - 1) : does[j] # "drain"
        BY <1>5, <1>7, <2>1 DEF ScriptInv, Deed
    <2>3. Printed = {i \in 1..(n - 1) : does[i] = "print"} /\ Cardinality(Printed) = Pipe
        BY <1>6, <1>7, <2>1 DEF ScriptInv, Printed
    <2>4. Prologue = {i \in 1..Len(does) : does[i] = "print" /\ \A j \in 1..i : does[j] # "drain"}
        BY <2>1 DEF Prologue
    <2>5. \A j \in 1..n : does[j] # "drain"
        <3>1. \A j \in 1..n : j \in 1..(n - 1) \/ j = n
            BY <2>1
        <3>. QED
            BY <3>1, <2>2
    <2>6. Printed \cup {n} \subseteq Prologue
        <3>. SUFFICES ASSUME NEW i \in Printed \cup {n} PROVE i \in Prologue
            OBVIOUS
        <3>1. i \in 1..n /\ does[i] = "print"
            BY <2>2, <2>3
        <3>2. i \in 1..Len(does) /\ \A j \in 1..i : j \in 1..n
            BY <2>1, <3>1
        <3>. QED
            BY <2>4, <2>5, <3>1, <3>2
    <2>7. IsFiniteSet(Prologue) /\ IsFiniteSet(Printed) /\ n \notin Printed
        <3>1. Len(does) \in Int /\ n - 1 \in Int /\ 1 \in Int /\ n \notin 1..(n - 1)
            BY <2>1
        <3>2. IsFiniteSet(1..Len(does))
            BY <3>1, FS_Interval
        <3>3. IsFiniteSet(1..(n - 1))
            BY <3>1, FS_Interval
        <3>. QED
            BY <3>1, <3>2, <3>3, <2>3, <2>4, FS_Subset
    <2>8. Cardinality(Printed \cup {n}) = Pipe + 1
        BY <2>3, <2>7, FS_AddElement
    <2>9. Cardinality(Printed \cup {n}) <= Cardinality(Prologue) /\ Cardinality(Prologue) \in Nat
        BY <2>6, <2>7, FS_Subset, FS_CardinalityType
    <2>. QED
        BY <1>1, <2>8, <2>9
<1>. QED
    BY <1>7, <1>8, <1>9 DEF Overfull

(* A script's exit and output are taken for its answer in whatever order they
   and the payload come, however long they are; and trg and a script wait for
   each other only in a comparison, when both fill a pipe before either reads
   (feed_payload, run_script_judge). *)
THEOREM ScriptsAreUnderstood == ScriptSpec => []ScriptsAreHeard
<1>1. ScriptInit(SomeAskers) => ScriptInv
    <2>. SUFFICES ASSUME ScriptInit(SomeAskers) PROVE ScriptInv
        OBVIOUS
    <2>1. PICK kind \in Askers, n \in Payloads : asker = [kind |-> kind, payload |-> n, left |-> n]
        BY DEF ScriptInit, SomeAskers
    <2>2. asker # NoAsker
        BY <2>1 DEF NoAsker, Askers
    <2>3. PICK plan \in Plans : script = [plan |-> plan, at |-> 1, runs |-> TRUE]
        BY <2>2 DEF ScriptInit
    <2>4. stdin = [held |-> 0, open |-> TRUE] /\ stdout = 0 /\ verdict = "none"
        BY DEF ScriptInit
    <2>5. n \in Nat /\ Pipe \in Nat \ {0} /\ Len(plan.does) \in Nat
        BY <2>1, <2>3, PlanFacts, JudgeScriptAssumption
    <2>6. Types
        BY <2>1, <2>3, <2>4, <2>5 DEF Types
    <2>7. 1..(script.at - 1) = {}
        BY <2>3
    <2>8. Printed = {} /\ Cardinality({}) = 0
        BY <2>7, FS_EmptySet DEF Printed
    <2>. QED
        BY <2>1, <2>4, <2>5, <2>6, <2>7, <2>8 DEF ScriptInv, Heard
<1>2. ScriptInv => ScriptsAreHeard
    BY StuckIsOverfull DEF ScriptInv, Heard, ScriptsAreHeard
<1>. QED
    BY <1>1, <1>2, ScriptStep, PTL DEF ScriptSpec

------------------------------------------------------------------------------
(* Types *)

\* The call that is number n of a script.
CallOf(s, n) == [id |-> n, tool |-> s[n].tool, args |-> s[n].args]

AllScripts == UNION {Scripts[f] : f \in Formats}
Calls == UNION {{CallOf(s, n) : n \in DOMAIN s} : s \in AllScripts}

Keys == {<<>>} \cup {<<<<c.tool, c.args>>>> : c \in Calls}
ToolSpans == [id : Nat, args : Keys, start : Nat]
\* Failures that a line of a stream reports, and those of what a run's end cuts off.
Reports == {"none", "turn_failed"}
Ends == {"budget_exhausted", "timeout", "unfinished"}

StepSpans == [kind : {"chat", "tool"}, id : Nat, args : Keys, start : Nat, end : Nat,
              failure : Reports \cup Ends, usage : BOOLEAN]
TurnSpans == [key : Nat, start : Nat, end : Nat, usage : BOOLEAN]

Builders == [steps : Seq(StepSpans), tools : SUBSET ToolSpans, turn : {<<>>} \cup {<<t>> : t \in TurnSpans},
             codex : {<<>>} \cup {<<n>> : n \in Nat}, last : Nat]

\* No call is open twice.
OpenOnce(b) == IsFiniteSet(b.tools) /\ \A t, u \in b.tools : t.id = u.id => t = u

\* No step that ended was cut off.
NotCut(b) == \A i \in DOMAIN b.steps :
                 b.steps[i].failure \in Reports /\ (IsTool(b.steps[i]) => b.steps[i].failure = "none")

Whole(b) == b \in Builders /\ OpenOnce(b) /\ NotCut(b)

\* Model calls a usage landed on, the one that is on among them.
UsedSteps(steps) == {i \in ChatSteps(steps) : steps[i].usage}
Used(b) == Cardinality(UsedSteps(b.steps)) + (IF b.turn # <<>> /\ b.turn[1].usage THEN 1 ELSE 0)

Ids(calls) == {c.id : c \in calls}

------------------------------------------------------------------------------
(* What the operations of a builder do *)

\* Positions of a sequence of steps are finite sets.
LEMMA StepsAreFinite ==
    ASSUME NEW s \in Seq(StepSpans)
    PROVE  /\ IsFiniteSet(ToolSteps(s)) /\ IsFiniteSet(ChatSteps(s)) /\ IsFiniteSet(UsedSteps(s))
           /\ Cardinality(ToolSteps(s)) \in Nat /\ Cardinality(ChatSteps(s)) \in Nat /\ Cardinality(UsedSteps(s)) \in Nat
           /\ ToolSteps(s) \cup ChatSteps(s) = DOMAIN s /\ ToolSteps(s) \cap ChatSteps(s) = {}
<1>1. Len(s) \in Nat /\ IsFiniteSet(1..Len(s))
    <2>1. Len(s) \in Int /\ 1 \in Int /\ Len(s) \in Nat
        OBVIOUS
    <2>. QED
        BY <2>1, FS_Interval
<1>2. ToolSteps(s) \subseteq 1..Len(s) /\ ChatSteps(s) \subseteq 1..Len(s) /\ UsedSteps(s) \subseteq 1..Len(s)
    BY DEF ToolSteps, ChatSteps, UsedSteps
<1>3. ToolSteps(s) \cup ChatSteps(s) = DOMAIN s /\ ToolSteps(s) \cap ChatSteps(s) = {}
    <2>1. \A i \in DOMAIN s : s[i].kind \in {"chat", "tool"}
        <3>1. \A i \in DOMAIN s : s[i] \in StepSpans
            OBVIOUS
        <3>. QED
            BY <3>1 DEF StepSpans
    <2>. QED
        BY <2>1 DEF ToolSteps, ChatSteps, IsTool, IsChat
<1>4. \A S : S \subseteq 1..Len(s) => IsFiniteSet(S) /\ Cardinality(S) \in Nat
    <2>. SUFFICES ASSUME NEW S \in SUBSET (1..Len(s))
                  PROVE  IsFiniteSet(S) /\ Cardinality(S) \in Nat
        OBVIOUS
    <2>1. IsFiniteSet(S)
        BY <1>1, FS_Subset
    <2>. QED
        BY <2>1, FS_CardinalityType
<1>. QED
    BY <1>2, <1>3, <1>4

\* A step more is one tool call more or one model call more.
LEMMA OneStepMore ==
    ASSUME NEW s \in Seq(StepSpans), NEW x \in StepSpans
    PROVE  LET a == Append(s, x) IN
           /\ a \in Seq(StepSpans) /\ Len(a) = Len(s) + 1
           /\ DOMAIN a = DOMAIN s \cup {Len(s) + 1} /\ Len(s) + 1 \notin DOMAIN s
           /\ a[Len(s) + 1] = x /\ \A i \in DOMAIN s : a[i] = s[i]
           /\ IsTool(x) => /\ ToolSteps(a) = ToolSteps(s) \cup {Len(s) + 1}
                           /\ ChatSteps(a) = ChatSteps(s) /\ UsedSteps(a) = UsedSteps(s)
                           /\ Cardinality(ToolSteps(a)) = Cardinality(ToolSteps(s)) + 1
           /\ IsChat(x) => /\ ToolSteps(a) = ToolSteps(s)
                           /\ ChatSteps(a) = ChatSteps(s) \cup {Len(s) + 1}
                           /\ Cardinality(ChatSteps(a)) = Cardinality(ChatSteps(s)) + 1
                           /\ UsedSteps(a) = UsedSteps(s) \cup (IF x.usage THEN {Len(s) + 1} ELSE {})
                           /\ Cardinality(UsedSteps(a)) = Cardinality(UsedSteps(s)) + (IF x.usage THEN 1 ELSE 0)
<1>. DEFINE a == Append(s, x)  n == Len(s) + 1
<1>1. /\ a \in Seq(StepSpans) /\ Len(a) = n /\ n \in Nat
      /\ DOMAIN a = DOMAIN s \cup {n} /\ n \notin DOMAIN s
      /\ a[n] = x /\ \A i \in DOMAIN s : a[i] = s[i]
    OBVIOUS
<1>. HIDE DEF a, n
<1>2. n \notin ToolSteps(s) /\ n \notin ChatSteps(s) /\ n \notin UsedSteps(s)
    BY <1>1 DEF ToolSteps, ChatSteps, UsedSteps
<1>3. ASSUME IsTool(x)
      PROVE  /\ ToolSteps(a) = ToolSteps(s) \cup {n}
             /\ ChatSteps(a) = ChatSteps(s) /\ UsedSteps(a) = UsedSteps(s)
    BY <1>1, <1>3 DEF ToolSteps, ChatSteps, UsedSteps, IsTool, IsChat
<1>4. ASSUME IsChat(x)
      PROVE  /\ ToolSteps(a) = ToolSteps(s)
             /\ ChatSteps(a) = ChatSteps(s) \cup {n}
             /\ UsedSteps(a) = UsedSteps(s) \cup (IF x.usage THEN {n} ELSE {})
    <2>1. ToolSteps(a) = ToolSteps(s) /\ ChatSteps(a) = ChatSteps(s) \cup {n}
        BY <1>1, <1>4 DEF ToolSteps, ChatSteps, IsTool, IsChat
    <2>2. CASE x.usage
        BY <1>1, <2>1, <2>2 DEF UsedSteps, ChatSteps
    <2>3. CASE ~x.usage
        BY <1>1, <2>1, <2>3 DEF UsedSteps, ChatSteps
    <2>. QED
        BY <2>1, <2>2, <2>3
<1>5. \A S : IsFiniteSet(S) /\ n \notin S => Cardinality(S \cup {n}) = Cardinality(S) + 1
    <2>. SUFFICES ASSUME NEW S, IsFiniteSet(S), n \notin S
                  PROVE  Cardinality(S \cup {n}) = Cardinality(S) + 1
        OBVIOUS
    <2>. QED
        BY FS_AddElement
<1>6. IsFiniteSet(ToolSteps(s)) /\ IsFiniteSet(ChatSteps(s)) /\ IsFiniteSet(UsedSteps(s)) /\ Cardinality(UsedSteps(s)) \in Nat
    BY StepsAreFinite
<1>7. IsTool(x) => Cardinality(ToolSteps(a)) = Cardinality(ToolSteps(s)) + 1
    BY <1>2, <1>3, <1>5, <1>6
<1>8. IsChat(x) => Cardinality(ChatSteps(a)) = Cardinality(ChatSteps(s)) + 1
    BY <1>2, <1>4, <1>5, <1>6
<1>9. IsChat(x) => Cardinality(UsedSteps(a)) = Cardinality(UsedSteps(s)) + (IF x.usage THEN 1 ELSE 0)
    <2>1. CASE ~x.usage
        <3>1. IsChat(x) => UsedSteps(a) = UsedSteps(s)
            BY <1>4, <2>1
        <3>. QED
            BY <1>6, <2>1, <3>1
    <2>2. CASE x.usage
        <3>1. IsChat(x) => UsedSteps(a) = UsedSteps(s) \cup {n}
            BY <1>4, <2>2
        <3>. QED
            BY <1>2, <1>5, <1>6, <2>2, <3>1
    <2>. QED
        BY <2>1, <2>2
<1>. QED
    BY <1>1, <1>3, <1>4, <1>7, <1>8, <1>9 DEF a, n

ChatOf(t, f) == [kind |-> "chat", id |-> t.key, args |-> <<>>, start |-> t.start, end |-> t.end,
                 failure |-> f, usage |-> t.usage]

ToolOf(t, end) == [kind |-> "tool", id |-> t.id, args |-> t.args, start |-> t.start, end |-> end,
                   failure |-> "none", usage |-> FALSE]

\* A turn that is on is one span.
LEMMA TurnIsOne ==
    ASSUME NEW b \in Builders
    PROVE  \/ b.turn = <<>> /\ Len(b.turn) = 0
           \/ \E t \in TurnSpans : b.turn = <<t>> /\ b.turn[1] = t /\ Len(b.turn) = 1 /\ b.turn # <<>>
<1>1. b.turn \in {<<>>} \cup {<<t>> : t \in TurnSpans}
    BY DEF Builders
<1>. QED
    BY <1>1

\* What close_turn leaves.
LEMMA CloseTurnIs ==
    ASSUME NEW b \in Builders, NEW f \in Reports \cup Ends
    PROVE  LET c == CloseTurn(b, f) IN
           /\ c \in Builders /\ c.turn = <<>> /\ c.tools = b.tools /\ c.codex = b.codex /\ c.last = b.last
           /\ b.turn = <<>> => c = b
           /\ \A t \in TurnSpans : b.turn = <<t>> => ChatOf(t, f) \in StepSpans /\ c.steps = Append(b.steps, ChatOf(t, f))
<1>1. CASE b.turn = <<>>
    BY <1>1 DEF CloseTurn
<1>2. ASSUME NEW t \in TurnSpans, b.turn = <<t>>
      PROVE  LET c == CloseTurn(b, f) IN
             /\ c \in Builders /\ c.turn = <<>> /\ c.tools = b.tools /\ c.codex = b.codex /\ c.last = b.last
             /\ ChatOf(t, f) \in StepSpans /\ c.steps = Append(b.steps, ChatOf(t, f))
    <2>1. b.turn # <<>> /\ b.turn[1] = t
        BY <1>2
    <2>2. [Step("chat", t.key, t.start, t.end, f) EXCEPT !.usage = t.usage] = ChatOf(t, f)
        BY DEF Step, ChatOf
    <2>3. CloseTurn(b, f) = [b EXCEPT !.turn = <<>>, !.steps = Append(b.steps, ChatOf(t, f))]
        BY <2>1, <2>2 DEF CloseTurn
    <2>4. ChatOf(t, f) \in StepSpans
        BY DEF ChatOf, StepSpans, TurnSpans, Keys
    <2>5. Append(b.steps, ChatOf(t, f)) \in Seq(StepSpans)
        BY <2>4 DEF Builders
    <2>. HIDE DEF ChatOf
    <2>. QED
        BY <2>3, <2>4, <2>5 DEF Builders
<1>. QED
    BY <1>1, <1>2, TurnIsOne

\* Closing a turn changes no count.
LEMMA CloseTurnCounts ==
    ASSUME NEW b, Whole(b), NEW f \in Reports
    PROVE  LET c == CloseTurn(b, f) IN
           /\ Whole(c) /\ c.turn = <<>> /\ c.tools = b.tools /\ c.codex = b.codex /\ c.last = b.last
           /\ ToolCalls(c) = ToolCalls(b) /\ ModelCalls(c) = ModelCalls(b) /\ Used(c) = Used(b)
<1>. DEFINE c == CloseTurn(b, f)
<1>1. b \in Builders /\ OpenOnce(b) /\ NotCut(b) /\ f \in Reports \cup Ends
    BY DEF Whole
<1>2. /\ c \in Builders /\ c.turn = <<>> /\ c.tools = b.tools /\ c.codex = b.codex /\ c.last = b.last
      /\ b.turn = <<>> => c = b
      /\ \A t \in TurnSpans : b.turn = <<t>> => ChatOf(t, f) \in StepSpans /\ c.steps = Append(b.steps, ChatOf(t, f))
    BY <1>1, CloseTurnIs
<1>. HIDE DEF c
<1>3. OpenOnce(c)
    BY <1>1, <1>2 DEF OpenOnce
<1>4. CASE b.turn = <<>>
    BY <1>2, <1>4 DEF c
<1>5. ASSUME NEW t \in TurnSpans, b.turn = <<t>>, b.turn[1] = t, Len(b.turn) = 1, b.turn # <<>>
      PROVE  NotCut(c) /\ ToolCalls(c) = ToolCalls(b) /\ ModelCalls(c) = ModelCalls(b) /\ Used(c) = Used(b)
    <2>. DEFINE x == ChatOf(t, f)
    <2>1. x \in StepSpans /\ c.steps = Append(b.steps, x)
        BY <1>2, <1>5
    <2>2. IsChat(x) /\ ~IsTool(x) /\ x.failure = f /\ x.usage = t.usage
        BY DEF IsChat, IsTool, ChatOf
    <2>. HIDE DEF x
    <2>3. b.steps \in Seq(StepSpans)
        BY <1>1 DEF Builders
    <2>4. /\ DOMAIN c.steps = DOMAIN b.steps \cup {Len(b.steps) + 1}
          /\ c.steps[Len(b.steps) + 1] = x /\ \A i \in DOMAIN b.steps : c.steps[i] = b.steps[i]
          /\ ToolSteps(c.steps) = ToolSteps(b.steps)
          /\ Cardinality(ChatSteps(c.steps)) = Cardinality(ChatSteps(b.steps)) + 1
          /\ Cardinality(UsedSteps(c.steps)) = Cardinality(UsedSteps(b.steps)) + (IF x.usage THEN 1 ELSE 0)
        BY <2>1, <2>2, <2>3, OneStepMore
    <2>5. NotCut(c)
        BY <1>1, <2>2, <2>4 DEF NotCut
    <2>6. Cardinality(UsedSteps(c.steps)) \in Nat /\ Cardinality(UsedSteps(b.steps)) \in Nat
          /\ Cardinality(ChatSteps(b.steps)) \in Nat
        BY <1>2, <2>3, StepsAreFinite DEF Builders
    <2>7. Len(c.turn) = 0
        BY <1>2
    <2>8. ToolCalls(c) = ToolCalls(b) /\ ModelCalls(c) = ModelCalls(b)
        BY <1>2, <1>5, <2>4, <2>6, <2>7 DEF ToolCalls, ModelCalls
    <2>9. Used(c) = Cardinality(UsedSteps(c.steps))
        BY <1>2, <2>6 DEF Used
    <2>10. Used(b) = Cardinality(UsedSteps(b.steps)) + (IF t.usage THEN 1 ELSE 0)
        BY <1>5 DEF Used
    <2>. QED
        BY <2>2, <2>4, <2>5, <2>8, <2>9, <2>10
<1>. QED
    BY <1>1, <1>2, <1>3, <1>4, <1>5, TurnIsOne DEF Whole, c

\* Opening a turn closes the one before it and counts one model call more.
LEMMA OpenTurnCounts ==
    ASSUME NEW b, Whole(b), NEW key \in Nat, NEW start \in Nat
    PROVE  LET o == OpenTurn(b, key, start) IN
           /\ Whole(o) /\ o.turn = <<[key |-> key, start |-> start, end |-> start, usage |-> FALSE]>>
           /\ o.steps = CloseTurn(b, "none").steps
           /\ o.tools = b.tools /\ o.codex = b.codex /\ o.last = b.last
           /\ ToolCalls(o) = ToolCalls(b) /\ ModelCalls(o) = ModelCalls(b) + 1 /\ Used(o) = Used(b)
<1>. DEFINE c == CloseTurn(b, "none")
            o == OpenTurn(b, key, start)
            t == [key |-> key, start |-> start, end |-> start, usage |-> FALSE]
<1>1. /\ Whole(c) /\ c.turn = <<>> /\ c.tools = b.tools /\ c.codex = b.codex /\ c.last = b.last
      /\ ToolCalls(c) = ToolCalls(b) /\ ModelCalls(c) = ModelCalls(b) /\ Used(c) = Used(b)
    BY CloseTurnCounts DEF Reports
<1>2. o = [c EXCEPT !.turn = <<t>>]
    BY DEF OpenTurn
<1>3. t \in TurnSpans /\ t.usage = FALSE
    BY DEF TurnSpans
<1>. HIDE DEF c, o, t
<1>4. c \in Builders
    BY <1>1 DEF Whole
<1>5. /\ o \in Builders /\ o.turn = <<t>> /\ o.steps = c.steps /\ o.tools = c.tools /\ o.codex = c.codex /\ o.last = c.last
    BY <1>2, <1>3, <1>4 DEF Builders
<1>6. Whole(o)
    BY <1>1, <1>5 DEF Whole, OpenOnce, NotCut
<1>7. o.turn[1] = t /\ Len(o.turn) = 1 /\ Len(c.turn) = 0 /\ o.turn # <<>>
    BY <1>1, <1>5
<1>8. /\ Cardinality(UsedSteps(c.steps)) \in Nat /\ Cardinality(ChatSteps(c.steps)) \in Nat
    BY <1>4, StepsAreFinite DEF Builders
<1>9. ToolCalls(o) = ToolCalls(c) /\ ModelCalls(o) = ModelCalls(c) + 1
    BY <1>5, <1>7, <1>8 DEF ToolCalls, ModelCalls
<1>10. Used(o) = Used(c)
    BY <1>1, <1>3, <1>5, <1>7, <1>8 DEF Used
<1>. QED
    BY <1>1, <1>5, <1>6, <1>9, <1>10 DEF c, o, t

\* Speaking moves the end of the turn that is on.
LEMMA SpeaksIs ==
    ASSUME NEW b \in Builders, NEW at \in Nat, NEW t \in TurnSpans, b.turn = <<t>>
    PROVE  LET s == Speaks(b, at) IN
           /\ s \in Builders /\ s.turn = <<[t EXCEPT !.end = at]>>
           /\ s.steps = b.steps /\ s.tools = b.tools /\ s.codex = b.codex /\ s.last = b.last
<1>1. b.turn # <<>> /\ b.turn[1] = t
    OBVIOUS
<1>2. [b.turn EXCEPT ![1] = [b.turn[1] EXCEPT !.end = at]] = <<[t EXCEPT !.end = at]>>
    <2>1. \A u : [<<t>> EXCEPT ![1] = u] = <<u>>
        OBVIOUS
    <2>. QED
        BY <1>1, <2>1
<1>3. Speaks(b, at) = [b EXCEPT !.turn = <<[t EXCEPT !.end = at]>>]
    BY <1>1, <1>2 DEF Speaks
<1>4. [t EXCEPT !.end = at] \in TurnSpans
    BY DEF TurnSpans
<1>. QED
    BY <1>3, <1>4 DEF Builders

\* Moving the end of the open model call counts nothing.
LEMMA SpeaksCounts ==
    ASSUME NEW b, Whole(b), NEW at \in Nat
    PROVE  LET s == Speaks(b, at) IN
           /\ Whole(s) /\ s.steps = b.steps /\ s.tools = b.tools /\ s.codex = b.codex /\ s.last = b.last
           /\ b.turn = <<>> => s = b
           /\ b.turn # <<>> => s.turn = <<[b.turn[1] EXCEPT !.end = at]>>
           /\ ToolCalls(s) = ToolCalls(b) /\ ModelCalls(s) = ModelCalls(b) /\ Used(s) = Used(b)
<1>. DEFINE s == Speaks(b, at)
<1>1. b \in Builders
    BY DEF Whole
<1>2. CASE b.turn = <<>>
    BY <1>2 DEF Speaks
<1>3. ASSUME NEW t \in TurnSpans, b.turn = <<t>>, b.turn[1] = t, Len(b.turn) = 1, b.turn # <<>>
      PROVE  /\ Whole(s) /\ s.steps = b.steps /\ s.tools = b.tools /\ s.codex = b.codex /\ s.last = b.last
             /\ s.turn = <<[b.turn[1] EXCEPT !.end = at]>>
             /\ ToolCalls(s) = ToolCalls(b) /\ ModelCalls(s) = ModelCalls(b) /\ Used(s) = Used(b)
    <2>. DEFINE u == [t EXCEPT !.end = at]
    <2>1. /\ s \in Builders /\ s.turn = <<u>>
          /\ s.steps = b.steps /\ s.tools = b.tools /\ s.codex = b.codex /\ s.last = b.last
        BY <1>1, <1>3, SpeaksIs
    <2>2. u.usage = t.usage
        BY DEF TurnSpans
    <2>. HIDE DEF s, u
    <2>3. s.turn[1] = u /\ Len(s.turn) = 1 /\ s.turn # <<>>
        BY <2>1
    <2>4. Whole(s)
        BY <2>1 DEF Whole, OpenOnce, NotCut
    <2>5. ToolCalls(s) = ToolCalls(b) /\ ModelCalls(s) = ModelCalls(b)
        BY <1>3, <2>1, <2>3 DEF ToolCalls, ModelCalls
    <2>6. Used(s) = Used(b)
        BY <1>3, <2>1, <2>2, <2>3 DEF Used
    <2>7. s.turn = <<[b.turn[1] EXCEPT !.end = at]>>
        BY <1>3, <2>1 DEF u
    <2>. QED
        BY <2>1, <2>4, <2>5, <2>6, <2>7
<1>. QED
    BY <1>1, <1>2, <1>3, TurnIsOne

\* The calls a builder has open, by their numbers.
OpenIds(b) == Ids(b.tools)

\* Opening a call that is not open counts one tool call more.
LEMMA OpenToolCounts ==
    ASSUME NEW b, Whole(b), NEW call \in Calls, call.id \in Nat, NEW at \in Nat
    PROVE  LET o == OpenTool(b, call, at) IN
           /\ Whole(o) /\ o.steps = b.steps /\ o.turn = b.turn /\ o.codex = b.codex /\ o.last = b.last
           /\ OpenIds(o) = OpenIds(b) \cup {call.id}
           /\ call.id \in OpenIds(b) => o = b
           /\ call.id \notin OpenIds(b) =>
                 /\ \E t \in ToolSpans : t.id = call.id /\ t.start = at /\ o.tools = b.tools \cup {t}
                 /\ ToolCalls(o) = ToolCalls(b) + 1
           /\ ModelCalls(o) = ModelCalls(b) /\ Used(o) = Used(b)
<1>. DEFINE o == OpenTool(b, call, at)
            t == [id |-> call.id, args |-> <<<<call.tool, call.args>>>>, start |-> at]
<1>1. b \in Builders /\ OpenOnce(b) /\ NotCut(b)
    BY DEF Whole
<1>2. OpenOf(b, call) # {} <=> call.id \in OpenIds(b)
    BY DEF OpenOf, OpenIds, Ids
<1>3. CASE call.id \in OpenIds(b)
    BY <1>2, <1>3 DEF OpenTool
<1>4. CASE call.id \notin OpenIds(b)
    <2>1. o = [b EXCEPT !.tools = b.tools \cup {t}]
        BY <1>2, <1>4 DEF OpenTool
    <2>2. t \in ToolSpans /\ t.id = call.id /\ t.start = at
        BY DEF ToolSpans, Keys
    <2>. HIDE DEF o, t
    <2>3. /\ o \in Builders /\ o.steps = b.steps /\ o.turn = b.turn /\ o.codex = b.codex /\ o.last = b.last
          /\ o.tools = b.tools \cup {t}
        BY <1>1, <2>1, <2>2 DEF Builders
    <2>4. OpenIds(o) = OpenIds(b) \cup {call.id}
        BY <2>2, <2>3 DEF OpenIds, Ids
    <2>5. t \notin b.tools
        BY <1>4, <2>2 DEF OpenIds, Ids
    <2>6. /\ IsFiniteSet(o.tools) /\ Cardinality(o.tools) = Cardinality(b.tools) + 1 /\ Cardinality(b.tools) \in Nat
        BY <1>1, <2>3, <2>5, FS_AddElement, FS_CardinalityType DEF OpenOnce
    <2>7. OpenOnce(o)
        BY <1>1, <1>4, <2>2, <2>3, <2>6 DEF OpenOnce, OpenIds, Ids
    <2>8. Cardinality(ToolSteps(b.steps)) \in Nat
        BY <1>1, StepsAreFinite DEF Builders
    <2>9. ToolCalls(o) = ToolCalls(b) + 1
        BY <2>3, <2>6, <2>8 DEF ToolCalls
    <2>10. ModelCalls(o) = ModelCalls(b) /\ Used(o) = Used(b) /\ NotCut(o)
        BY <1>1, <2>3 DEF ModelCalls, Used, NotCut
    <2>. QED
        BY <1>4, <2>2, <2>3, <2>4, <2>7, <2>9, <2>10 DEF Whole, o, t
<1>. QED
    BY <1>3, <1>4

\* A step that is given the arguments of its call.
LEMMA StepWithArgs ==
    ASSUME NEW k, NEW i, NEW a, NEW s, NEW e, NEW f
    PROVE  [Step(k, i, s, e, f) EXCEPT !.args = a] =
           [kind |-> k, id |-> i, args |-> a, start |-> s, end |-> e, failure |-> f, usage |-> FALSE]
<1>. DEFINE t == Step(k, i, s, e, f)
<1>1. \E g \in BOOLEAN : g = FALSE /\ t = [kind |-> k, id |-> i, args |-> <<>>, start |-> s, end |-> e,
                                          failure |-> f, usage |-> g]
    BY Zenon DEF Step
<1>. HIDE DEF t
<1>2. \E g \in BOOLEAN : g = FALSE /\ [t EXCEPT !.args = a] =
          [kind |-> k, id |-> i, args |-> a, start |-> s, end |-> e, failure |-> f, usage |-> g]
    <2>1. PICK g \in BOOLEAN : g = FALSE /\ t = [kind |-> k, id |-> i, args |-> <<>>, start |-> s, end |-> e,
                                                failure |-> f, usage |-> g]
        BY <1>1
    <2>2. [t EXCEPT !.args = a] =
          [kind |-> k, id |-> i, args |-> a, start |-> s, end |-> e, failure |-> f, usage |-> g]
        BY <2>1
    <2>. QED
        BY <2>1, <2>2
<1>. QED
    BY <1>2, Zenon DEF t

\* Closing a call that is open counts none more, one that is not is counted now.
LEMMA CloseToolCounts ==
    ASSUME NEW b, Whole(b), NEW call \in Calls, call.id \in Nat, NEW at \in Nat
    PROVE  LET c == CloseTool(b, call, "none", at) IN
           /\ Whole(c) /\ c.turn = b.turn /\ c.codex = b.codex /\ c.last = b.last
           /\ OpenIds(c) = OpenIds(b) \ {call.id} /\ c.tools \subseteq b.tools
           /\ \E x \in StepSpans :
                 /\ c.steps = Append(b.steps, x) /\ IsTool(x) /\ x.failure = "none" /\ x.usage = FALSE
                 /\ x.end = Later(at, x.start)
                 /\ \/ x.start = at
                    \/ \E t \in b.tools : x.start = t.start
           /\ ToolCalls(c) = ToolCalls(b) + (IF call.id \in OpenIds(b) THEN 0 ELSE 1)
           /\ ModelCalls(c) = ModelCalls(b) /\ Used(c) = Used(b)
<1>. DEFINE c == CloseTool(b, call, "none", at)
            found == OpenOf(b, call)
            tool == IF found = {} THEN [id |-> call.id, args |-> <<>>, start |-> at] ELSE CHOOSE t \in found : TRUE
            x == ToolOf(tool, Later(at, tool.start))
<1>1. b \in Builders /\ OpenOnce(b) /\ NotCut(b) /\ b.steps \in Seq(StepSpans)
    BY DEF Whole, Builders
<1>2. found # {} <=> call.id \in OpenIds(b)
    BY DEF OpenOf, OpenIds, Ids
<1>3. /\ found # {} => tool \in found
      /\ found = {} => tool.start = at /\ tool.args = <<>> /\ tool.id = call.id
      /\ tool \in ToolSpans
    <2>1. CASE found = {}
        BY <2>1 DEF ToolSpans, Keys
    <2>2. CASE found # {}
        <3>1. tool \in found
            BY <2>2
        <3>. QED
            BY <1>1, <2>2, <3>1 DEF OpenOf, Builders
    <2>. QED
        BY <2>1, <2>2
<1>4. c = [b EXCEPT !.tools = b.tools \ found, !.steps = Append(b.steps, x)]
    <2>1. \A v : [Step("tool", v.id, v.start, Later(at, v.start), "none") EXCEPT !.args = v.args]
                  = ToolOf(v, Later(at, v.start))
        <3>. TAKE v
        <3>. DEFINE e == Later(at, v.start)
        <3>1. [Step("tool", v.id, v.start, e, "none") EXCEPT !.args = v.args] =
              [kind |-> "tool", id |-> v.id, args |-> v.args, start |-> v.start, end |-> e, failure |-> "none", usage |-> FALSE]
            BY StepWithArgs
        <3>. HIDE DEF e
        <3>2. ToolOf(v, e) = [kind |-> "tool", id |-> v.id, args |-> v.args, start |-> v.start, end |-> e,
                              failure |-> "none", usage |-> FALSE]
            BY Zenon DEF ToolOf
        <3>. QED
            BY <3>1, <3>2, Zenon DEF e
    <2>. QED
        BY <2>1 DEF CloseTool
<1>5. /\ x \in StepSpans /\ IsTool(x) /\ ~IsChat(x) /\ x.failure = "none" /\ x.usage = FALSE
      /\ x.start = tool.start /\ x.end = Later(at, tool.start)
    <2>1. Later(at, tool.start) \in Nat
        BY <1>3 DEF Later, ToolSpans
    <2>. QED
        BY <1>3, <2>1 DEF ToolOf, StepSpans, ToolSpans, Reports, IsTool, IsChat
<1>. HIDE DEF c, x, tool
<1>6. \A t \in found : t \in b.tools /\ t.id = call.id
    BY DEF OpenOf
<1>7. \A t \in b.tools : t.id = call.id => t \in found
    BY DEF OpenOf
<1>. HIDE DEF found
<1>8. Append(b.steps, x) \in Seq(StepSpans)
    BY <1>1, <1>5
<1>9. /\ c \in Builders /\ c.turn = b.turn /\ c.codex = b.codex /\ c.last = b.last
      /\ c.tools = b.tools \ found /\ c.steps = Append(b.steps, x)
    BY <1>1, <1>4, <1>8 DEF Builders
<1>10. OpenIds(c) = OpenIds(b) \ {call.id}
    BY <1>6, <1>7, <1>9 DEF OpenIds, Ids
<1>11. OpenOnce(c)
    BY <1>1, <1>9, FS_Subset DEF OpenOnce
<1>12. /\ DOMAIN c.steps = DOMAIN b.steps \cup {Len(b.steps) + 1}
       /\ c.steps[Len(b.steps) + 1] = x /\ \A i \in DOMAIN b.steps : c.steps[i] = b.steps[i]
       /\ ChatSteps(c.steps) = ChatSteps(b.steps) /\ UsedSteps(c.steps) = UsedSteps(b.steps)
       /\ Cardinality(ToolSteps(c.steps)) = Cardinality(ToolSteps(b.steps)) + 1
    BY <1>1, <1>5, <1>9, OneStepMore
<1>13. NotCut(c)
    BY <1>1, <1>5, <1>12 DEF NotCut, Reports
<1>14. ModelCalls(c) = ModelCalls(b) /\ Used(c) = Used(b)
    BY <1>9, <1>12 DEF ModelCalls, Used
<1>15. Cardinality(ToolSteps(b.steps)) \in Nat /\ Cardinality(b.tools) \in Nat
    BY <1>1, StepsAreFinite, FS_CardinalityType DEF OpenOnce
<1>16. CASE found = {}
    <2>1. c.tools = b.tools /\ call.id \notin OpenIds(b)
        BY <1>2, <1>9, <1>16
    <2>2. ToolCalls(c) = ToolCalls(b) + 1
        BY <1>12, <1>15, <2>1 DEF ToolCalls
    <2>3. x.start = at
        BY <1>3, <1>5, <1>16
    <2>. QED
        BY <1>5, <1>9, <1>10, <1>11, <1>13, <1>14, <2>1, <2>2, <2>3 DEF Whole, c
<1>17. CASE found # {}
    <2>1. tool \in found /\ tool \in b.tools /\ call.id \in OpenIds(b)
        BY <1>2, <1>3, <1>6, <1>17
    <2>2. found = {tool}
        BY <1>1, <1>6, <2>1 DEF OpenOnce
    <2>3. c.tools = b.tools \ {tool}
        BY <1>9, <2>2
    <2>4. Cardinality(c.tools) = Cardinality(b.tools) - 1
        BY <1>1, <2>1, <2>3, FS_RemoveElement, ZenonT(60) DEF OpenOnce
    <2>5. ToolCalls(c) = ToolCalls(b) /\ ToolCalls(b) \in Nat
        BY <1>12, <1>15, <2>4 DEF ToolCalls
    <2>6. \E t \in b.tools : x.start = t.start
        BY <1>5, <2>1
    <2>7. Whole(c)
        BY <1>9, <1>11, <1>13 DEF Whole
    <2>8. ToolCalls(c) = ToolCalls(b) + (IF call.id \in OpenIds(b) THEN 0 ELSE 1)
        BY <2>1, <2>5
    <2>. HIDE DEF IsTool
    <2>. QED
        BY <1>5, <1>9, <1>10, <1>14, <2>6, <2>7, <2>8 DEF c
<1>. QED
    BY <1>16, <1>17

\* The arrival of a line counts nothing.
LEMMA ArrivedCounts ==
    ASSUME NEW b, Whole(b), NEW at \in Nat, b.last <= at
    PROVE  LET a == Arrived(b, at) IN
           /\ Whole(a) /\ a.steps = b.steps /\ a.tools = b.tools /\ a.turn = b.turn /\ a.codex = b.codex
           /\ a.last = at /\ OpenIds(a) = OpenIds(b)
           /\ ToolCalls(a) = ToolCalls(b) /\ ModelCalls(a) = ModelCalls(b) /\ Used(a) = Used(b)
<1>. DEFINE a == Arrived(b, at)
<1>1. b \in Builders /\ b.last \in Nat
    BY DEF Whole, Builders
<1>2. Later(b.last, at) = at
    BY <1>1 DEF Later
<1>3. a = [b EXCEPT !.last = at]
    BY <1>2 DEF Arrived
<1>4. /\ a \in Builders /\ a.steps = b.steps /\ a.tools = b.tools /\ a.turn = b.turn /\ a.codex = b.codex
      /\ a.last = at
    BY <1>1, <1>3 DEF Builders
<1>. HIDE DEF a
<1>. QED
    BY <1>4 DEF Whole, OpenOnce, NotCut, OpenIds, ToolCalls, ModelCalls, Used, a

------------------------------------------------------------------------------
(* What the operations of a builder do to the time *)

\* Nothing begins after it ends, nothing is later than the line that was read.
Timed(b, at) ==
    /\ \A i \in DOMAIN b.steps : b.steps[i].start <= b.steps[i].end /\ b.steps[i].end <= at
    /\ \A t \in b.tools : t.start <= at
    /\ b.turn # <<>> => b.turn[1].start <= b.turn[1].end /\ b.turn[1].end <= at

\* The model calls follow one another.
InTurn(b) ==
    /\ \A i, j \in ChatSteps(b.steps) : i < j => b.steps[i].end <= b.steps[j].start
    /\ b.turn # <<>> => \A i \in ChatSteps(b.steps) : b.steps[i].end <= b.turn[1].start

\* Of codex, no tool runs while a model call is on.
Apart(b) ==
    /\ \A i \in ChatSteps(b.steps), j \in ToolSteps(b.steps) :
          b.steps[i].end <= b.steps[j].start \/ b.steps[j].end <= b.steps[i].start
    /\ \A i \in ChatSteps(b.steps), t \in b.tools : b.steps[i].end <= t.start
    /\ b.turn # <<>> => b.tools = {} /\ \A j \in ToolSteps(b.steps) : b.steps[j].end <= b.turn[1].start

\* Steps are typed, and so are the parts of a builder.
LEMMA PartsOfBuilder ==
    ASSUME NEW b \in Builders
    PROVE  /\ b.steps \in Seq(StepSpans) /\ DOMAIN b.steps = 1..Len(b.steps) /\ Len(b.steps) \in Nat
           /\ \A i \in DOMAIN b.steps : b.steps[i].start \in Nat /\ b.steps[i].end \in Nat
           /\ \A t \in b.tools : t.start \in Nat /\ t.id \in Nat
           /\ b.turn # <<>> => b.turn[1].start \in Nat /\ b.turn[1].end \in Nat /\ b.turn[1] \in TurnSpans
           /\ b.last \in Nat
<1>1. b.steps \in Seq(StepSpans)
    BY DEF Builders
<1>2. \A i \in DOMAIN b.steps : b.steps[i] \in StepSpans
    BY <1>1
<1>3. b.turn # <<>> => b.turn[1] \in TurnSpans
    BY TurnIsOne
<1>. QED
    BY <1>1, <1>2, <1>3 DEF Builders, StepSpans, ToolSpans, TurnSpans

\* A model call that is closed stays where it was in time.
LEMMA CloseTurnTimes ==
    ASSUME NEW b \in Builders, NEW f \in Reports \cup Ends, NEW at \in Nat, Timed(b, at), InTurn(b)
    PROVE  LET c == CloseTurn(b, f) IN
           /\ Timed(c, at) /\ InTurn(c)
           /\ Apart(b) => Apart(c)
<1>. DEFINE c == CloseTurn(b, f)
<1>1. /\ c \in Builders /\ c.turn = <<>> /\ c.tools = b.tools
      /\ b.turn = <<>> => c = b
      /\ \A t \in TurnSpans : b.turn = <<t>> => ChatOf(t, f) \in StepSpans /\ c.steps = Append(b.steps, ChatOf(t, f))
    BY CloseTurnIs
<1>. HIDE DEF c
<1>2. CASE b.turn = <<>>
    BY <1>1, <1>2 DEF c
<1>3. ASSUME NEW t \in TurnSpans, b.turn = <<t>>, b.turn[1] = t, Len(b.turn) = 1, b.turn # <<>>
      PROVE  Timed(c, at) /\ InTurn(c) /\ (Apart(b) => Apart(c))
    <2>. DEFINE x == ChatOf(t, f)
                n == Len(b.steps) + 1
    <2>1. x \in StepSpans /\ c.steps = Append(b.steps, x)
        BY <1>1, <1>3
    <2>2. IsChat(x) /\ x.start = t.start /\ x.end = t.end
        BY DEF IsChat, ChatOf
    <2>. HIDE DEF x
    <2>3. /\ b.steps \in Seq(StepSpans) /\ DOMAIN b.steps = 1..Len(b.steps) /\ Len(b.steps) \in Nat
          /\ \A i \in DOMAIN b.steps : b.steps[i].start \in Nat /\ b.steps[i].end \in Nat
          /\ t.start \in Nat /\ t.end \in Nat
        BY <1>3, PartsOfBuilder
    <2>4. /\ DOMAIN c.steps = DOMAIN b.steps \cup {n}
          /\ c.steps[n] = x /\ \A i \in DOMAIN b.steps : c.steps[i] = b.steps[i]
          /\ ToolSteps(c.steps) = ToolSteps(b.steps)
          /\ ChatSteps(c.steps) = ChatSteps(b.steps) \cup {n}
        BY <2>1, <2>2, <2>3, OneStepMore
    <2>5. ChatSteps(b.steps) \subseteq DOMAIN b.steps /\ ToolSteps(b.steps) \subseteq DOMAIN b.steps
          /\ n \in Nat /\ \A i \in DOMAIN b.steps : i < n
        BY <2>3 DEF ChatSteps, ToolSteps
    <2>. HIDE DEF n
    <2>6. Timed(c, at)
        BY <1>1, <1>3, <2>2, <2>4 DEF Timed
    <2>7. InTurn(c)
        <3>. SUFFICES ASSUME NEW i \in ChatSteps(c.steps), NEW j \in ChatSteps(c.steps), i < j
                      PROVE  c.steps[i].end <= c.steps[j].start
            BY <1>1 DEF InTurn
        <3>1. i \in ChatSteps(b.steps)
            <4>1. j \in Nat /\ j <= n
                BY <2>3, <2>4, <2>5
            <4>. QED
                BY <2>4, <2>5, <4>1
        <3>2. CASE j = n
            BY <1>3, <2>2, <2>4, <2>5, <3>1, <3>2 DEF InTurn
        <3>3. CASE j \in ChatSteps(b.steps)
            BY <2>4, <2>5, <3>1, <3>3 DEF InTurn
        <3>. QED
            BY <2>4, <3>2, <3>3
    <2>8. Apart(b) => Apart(c)
        BY <1>1, <1>3, <2>2, <2>3, <2>4, <2>5 DEF Apart
    <2>. QED
        BY <2>6, <2>7, <2>8
<1>. QED
    BY <1>2, <1>3, TurnIsOne DEF c

\* A turn begins when all that is known has ended.
LEMMA OpenTurnTimes ==
    ASSUME NEW b, Whole(b), NEW key \in Nat, NEW start \in Nat, NEW at \in Nat, start <= at,
           Timed(b, start), InTurn(b)
    PROVE  LET o == OpenTurn(b, key, start) IN
           /\ Timed(o, at) /\ InTurn(o)
           /\ Apart(b) /\ b.tools = {} => Apart(o)
<1>. DEFINE c == CloseTurn(b, "none")
            o == OpenTurn(b, key, start)
            t == [key |-> key, start |-> start, end |-> start, usage |-> FALSE]
<1>1. /\ Whole(o) /\ o.turn = <<t>> /\ o.steps = c.steps /\ o.tools = b.tools
    BY OpenTurnCounts
<1>2. Whole(c) /\ c.turn = <<>> /\ c.tools = b.tools
    BY CloseTurnCounts DEF Reports
<1>3. Timed(c, start) /\ InTurn(c) /\ (Apart(b) => Apart(c))
    BY CloseTurnTimes DEF Whole, Reports
<1>4. t.start = start /\ t.end = start
    OBVIOUS
<1>. HIDE DEF c, o, t
<1>5. o.turn # <<>> /\ o.turn[1] = t
    BY <1>1
<1>6. /\ \A i \in DOMAIN c.steps : c.steps[i].start \in Nat /\ c.steps[i].end \in Nat
      /\ \A u \in c.tools : u.start \in Nat
    BY <1>2, PartsOfBuilder DEF Whole
<1>7. Timed(o, at)
    BY <1>1, <1>2, <1>3, <1>4, <1>5, <1>6 DEF Timed
<1>8. InTurn(o)
    BY <1>1, <1>2, <1>3, <1>4, <1>5, <1>6 DEF InTurn, Timed, ChatSteps
<1>9. Apart(b) /\ b.tools = {} => Apart(o)
    BY <1>1, <1>2, <1>3, <1>4, <1>5, <1>6 DEF Apart, Timed, ToolSteps
<1>. QED
    BY <1>7, <1>8, <1>9 DEF o

\* An open model call that goes on stays in its time.
LEMMA SpeaksTimes ==
    ASSUME NEW b, Whole(b), NEW at \in Nat, Timed(b, at), InTurn(b)
    PROVE  LET s == Speaks(b, at) IN
           /\ Timed(s, at) /\ InTurn(s)
           /\ Apart(b) => Apart(s)
<1>. DEFINE s == Speaks(b, at)
<1>1. /\ s.steps = b.steps /\ s.tools = b.tools
      /\ b.turn = <<>> => s = b
      /\ b.turn # <<>> => s.turn = <<[b.turn[1] EXCEPT !.end = at]>>
    BY SpeaksCounts
<1>. HIDE DEF s
<1>2. CASE b.turn = <<>>
    BY <1>1, <1>2 DEF s
<1>3. CASE b.turn # <<>>
    <2>. DEFINE t == b.turn[1]
                u == [t EXCEPT !.end = at]
    <2>1. t \in TurnSpans /\ t.start \in Nat /\ t.end \in Nat
        BY <1>3, PartsOfBuilder DEF Whole
    <2>2. u.start = t.start /\ u.end = at
        BY <2>1 DEF TurnSpans
    <2>3. s.turn # <<>> /\ s.turn[1] = u
        BY <1>1, <1>3
    <2>4. t.start <= at
        BY <1>3, <2>1 DEF Timed
    <2>. HIDE DEF u
    <2>5. Timed(s, at)
        BY <1>1, <2>2, <2>3, <2>4 DEF Timed
    <2>6. InTurn(s) /\ (Apart(b) => Apart(s))
        BY <1>1, <1>3, <2>2, <2>3 DEF InTurn, Apart
    <2>. QED
        BY <2>5, <2>6 DEF s
<1>. QED
    BY <1>2, <1>3

\* A tool that is opened begins in the time of its run.
LEMMA OpenToolTimes ==
    ASSUME NEW b, Whole(b), NEW call \in Calls, call.id \in Nat, NEW at \in Nat, Timed(b, at), InTurn(b)
    PROVE  LET o == OpenTool(b, call, at) IN
           /\ Timed(o, at) /\ InTurn(o)
           /\ Apart(b) /\ b.turn = <<>> => Apart(o)
<1>. DEFINE o == OpenTool(b, call, at)
<1>1. /\ o.steps = b.steps /\ o.turn = b.turn
      /\ call.id \in OpenIds(b) => o = b
      /\ call.id \notin OpenIds(b) =>
             \E t \in ToolSpans : t.id = call.id /\ t.start = at /\ o.tools = b.tools \cup {t}
    BY OpenToolCounts
<1>. HIDE DEF o
<1>3. \A i \in DOMAIN b.steps : b.steps[i].end <= at
    BY DEF Timed
<1>4. \A u \in o.tools : u \in b.tools \/ u.start = at
    BY <1>1
<1>5. Timed(o, at) /\ InTurn(o)
    BY <1>1, <1>4 DEF Timed, InTurn
<1>6. Apart(b) /\ b.turn = <<>> => Apart(o)
    BY <1>1, <1>3, <1>4 DEF Apart, ChatSteps
<1>. QED
    BY <1>5, <1>6 DEF o

\* A tool that is closed ends in the time of its run.
LEMMA CloseToolTimes ==
    ASSUME NEW b, Whole(b), NEW call \in Calls, call.id \in Nat, NEW at \in Nat, Timed(b, at), InTurn(b)
    PROVE  LET c == CloseTool(b, call, "none", at) IN
           /\ Timed(c, at) /\ InTurn(c)
           /\ Apart(b) /\ b.turn = <<>> => Apart(c)
<1>. DEFINE c == CloseTool(b, call, "none", at)
            n == Len(b.steps) + 1
<1>1. /\ c.turn = b.turn /\ c.tools \subseteq b.tools
      /\ \E x \in StepSpans :
            /\ c.steps = Append(b.steps, x) /\ IsTool(x) /\ x.failure = "none" /\ x.usage = FALSE
            /\ x.end = Later(at, x.start)
            /\ \/ x.start = at
               \/ \E t \in b.tools : x.start = t.start
    BY CloseToolCounts, ZenonT(100)
<1>. HIDE DEF c
<1>2. PICK x \in StepSpans :
            /\ c.steps = Append(b.steps, x) /\ IsTool(x)
            /\ x.end = Later(at, x.start)
            /\ \/ x.start = at
               \/ \E t \in b.tools : x.start = t.start
    BY <1>1
<1>3. x.start \in Nat /\ x.start <= at /\ x.end = at
    <2>1. x.start \in Nat
        BY DEF StepSpans
    <2>2. x.start <= at
        BY <1>2 DEF Timed
    <2>. QED
        BY <1>2, <2>1, <2>2 DEF Later
<1>4. /\ b.steps \in Seq(StepSpans) /\ DOMAIN b.steps = 1..Len(b.steps) /\ Len(b.steps) \in Nat
      /\ \A i \in DOMAIN b.steps : b.steps[i].start \in Nat /\ b.steps[i].end \in Nat
    BY PartsOfBuilder DEF Whole
<1>5. /\ DOMAIN c.steps = DOMAIN b.steps \cup {n}
      /\ c.steps[n] = x /\ \A i \in DOMAIN b.steps : c.steps[i] = b.steps[i]
      /\ ToolSteps(c.steps) = ToolSteps(b.steps) \cup {n}
      /\ ChatSteps(c.steps) = ChatSteps(b.steps)
    BY <1>2, <1>4, OneStepMore
<1>6. ChatSteps(b.steps) \subseteq DOMAIN b.steps /\ ToolSteps(b.steps) \subseteq DOMAIN b.steps
    BY DEF ChatSteps, ToolSteps
<1>. HIDE DEF n
<1>7. Timed(c, at)
    BY <1>1, <1>3, <1>5 DEF Timed
<1>8. InTurn(c)
    BY <1>1, <1>5, <1>6 DEF InTurn
<1>9. ASSUME Apart(b), b.turn = <<>> PROVE Apart(c)
    <2>1. \A i \in ChatSteps(b.steps) : b.steps[i].end <= x.start
        BY <1>2, <1>6, <1>9 DEF Apart, Timed
    <2>. QED
        BY <1>1, <1>5, <1>6, <1>9, <2>1 DEF Apart
<1>. QED
    BY <1>7, <1>8, <1>9 DEF c

\* What a later line finds is no later than it.
LEMMA TimedLater ==
    ASSUME NEW b \in Builders, NEW s \in Nat, NEW at \in Nat, s <= at, Timed(b, s)
    PROVE  Timed(b, at)
BY PartsOfBuilder DEF Timed

\* The usage of the turn that is on is noted.
LEMMA UsageCounts ==
    ASSUME NEW b, Whole(b), b.turn # <<>>, NEW u \in BOOLEAN, NEW at \in Nat, Timed(b, at), InTurn(b)
    PROVE  LET n == [b EXCEPT !.turn[1].usage = u] IN
           /\ Whole(n) /\ n.steps = b.steps /\ n.tools = b.tools /\ n.codex = b.codex /\ n.last = b.last
           /\ n.turn # <<>> /\ n.turn[1].key = b.turn[1].key
           /\ ToolCalls(n) = ToolCalls(b) /\ ModelCalls(n) = ModelCalls(b)
           /\ ~b.turn[1].usage => Used(n) = Used(b) + (IF u THEN 1 ELSE 0)
           /\ Timed(n, at) /\ InTurn(n) /\ (Apart(b) => Apart(n))
<1>. DEFINE n == [b EXCEPT !.turn[1].usage = u]
            v == [b.turn[1] EXCEPT !.usage = u]
<1>1. b \in Builders
    BY DEF Whole
<1>2. PICK t \in TurnSpans : b.turn = <<t>> /\ b.turn[1] = t /\ Len(b.turn) = 1
    BY <1>1, TurnIsOne
<1>3. v \in TurnSpans /\ v.usage = u /\ v.key = t.key /\ v.start = t.start /\ v.end = t.end
    BY <1>2 DEF TurnSpans
<1>4. [b.turn EXCEPT ![1] = [b.turn[1] EXCEPT !.usage = u]] = <<v>>
    <2>1. \A w : [<<t>> EXCEPT ![1] = w] = <<w>>
        OBVIOUS
    <2>. QED
        BY <1>2, <2>1
<1>5. n = [b EXCEPT !.turn = <<v>>]
    BY <1>4
<1>. HIDE DEF n, v
<1>6. /\ n \in Builders /\ n.turn = <<v>>
      /\ n.steps = b.steps /\ n.tools = b.tools /\ n.codex = b.codex /\ n.last = b.last
    BY <1>1, <1>3, <1>5 DEF Builders
<1>7. n.turn # <<>> /\ n.turn[1] = v /\ Len(n.turn) = 1
    BY <1>6
<1>8. Whole(n)
    BY <1>6 DEF Whole, OpenOnce, NotCut
<1>9. ToolCalls(n) = ToolCalls(b) /\ ModelCalls(n) = ModelCalls(b)
    BY <1>2, <1>6, <1>7 DEF ToolCalls, ModelCalls
<1>10. Cardinality(UsedSteps(b.steps)) \in Nat
    BY <1>1, StepsAreFinite DEF Builders
<1>11. ~b.turn[1].usage => Used(n) = Used(b) + (IF u THEN 1 ELSE 0)
    BY <1>2, <1>3, <1>6, <1>7, <1>10 DEF Used
<1>12. Timed(n, at) /\ InTurn(n) /\ (Apart(b) => Apart(n))
    BY <1>2, <1>3, <1>6, <1>7 DEF Timed, InTurn, Apart
<1>. QED
    BY <1>2, <1>3, <1>6, <1>7, <1>8, <1>9, <1>11, <1>12 DEF n

------------------------------------------------------------------------------
(* The harness, from line to line *)

LineKinds == {"torn", "system", "thinking", "assistant", "user", "started", "completed", "message",
          "result", "turn.started", "turn.completed", "turn.failed"}
StreamLines == [kind : LineKinds, msg : Nat, call : Calls \cup {NoCall}]

HarnessStates == [format : Formats, script : AllScripts, caps : RunCaps,
                  pc : {"idle", "model", "tools", "late", "over"}, msg : Nat, begun : Seq(Calls),
                  open : SUBSET Calls, spoke : Nat]

\* What holds of a harness between two lines: it began the calls of its script in their
\* order, and it stands where the calls that are open let it stand.
Runs(h) ==
    /\ h \in HarnessStates /\ h.script \in Scripts[h.format]
    /\ Len(h.begun) <= Len(h.script) /\ \A n \in DOMAIN h.begun : h.begun[n] = CallOf(h.script, n)
    /\ h.open \subseteq {h.begun[n] : n \in DOMAIN h.begun}
    /\ h.pc \in {"idle", "over"} => h.open = {}
    /\ h.pc \in {"tools", "late"} => h.open # {}
    /\ h.pc = "late" => h.format = "codex"
    /\ h.pc = "model" /\ h.format # "claude" => h.open = {}

NextOf(h) == CallOf(h.script, Len(h.begun) + 1)
MayBegin(h) == h.pc = "model" \/ (h.pc = "idle" /\ h.format # "codex")
MessageOf(h) == IF h.pc = "model" THEN h.msg ELSE h.msg + 1
CallsMore(h) == IF h.pc = "model" THEN 0 ELSE 1

\* The lines that say something of a harness but change nothing in it.
WroteNothingNew(h, l, g) ==
    /\ g = h /\ l.call = NoCall
    /\ \/ l.kind = "torn"
       \/ l.kind = "system" /\ h.pc = "idle"
       \/ l.kind = "thinking" /\ h.format = "cursor" /\ h.pc = "model"

WroteTurn(h, l, g) ==
    /\ h.format = "codex" /\ h.pc = "idle" /\ l.kind = "turn.started" /\ l.call = NoCall
    /\ g.pc = "model" /\ g.spoke = h.spoke + 1 /\ g.begun = h.begun /\ g.open = h.open /\ g.msg = h.msg

WroteText(h, l, g) ==
    /\ MayBegin(h) /\ l.call = NoCall
    /\ h.format = "codex" => l.kind = "message"
    /\ h.format # "codex" => l.kind = "assistant" /\ l.msg = MessageOf(h)
    /\ g.pc = "model" /\ g.msg = MessageOf(h) /\ g.spoke = h.spoke + CallsMore(h)
    /\ g.begun = h.begun /\ g.open = h.open

WroteRequest(h, l, g) ==
    /\ MayBegin(h) \/ (h.format # "claude" /\ h.pc = "tools")
    /\ Len(h.begun) < Len(h.script) /\ l.call = NextOf(h) /\ ~h.script[Len(h.begun) + 1].finishedOnly
    /\ g.begun = Append(h.begun, l.call) /\ g.open = h.open \cup {l.call} /\ g.msg = MessageOf(h)
    /\ h.format = "claude" => l.kind = "assistant" /\ l.msg = MessageOf(h) /\ g.pc = "model"
                              /\ g.spoke = h.spoke + CallsMore(h)
    /\ h.format # "claude" => l.kind = "started" /\ g.pc = "tools" /\ g.spoke = h.spoke

WroteReport(h, l, g) ==
    /\ h.format = "codex" /\ h.pc \in {"model", "tools"}
    /\ Len(h.begun) < Len(h.script) /\ l.call = NextOf(h) /\ h.script[Len(h.begun) + 1].finishedOnly
    /\ l.kind = "completed"
    /\ g.begun = Append(h.begun, l.call) /\ g.open = h.open /\ g.msg = h.msg /\ g.pc = h.pc
    /\ g.spoke = h.spoke + (IF h.open = {} THEN 1 ELSE 0)

WroteAnswer(h, l, g) ==
    /\ l.call \in h.open
    /\ l.kind = IF h.format = "claude" THEN "user" ELSE "completed"
    /\ g.open = h.open \ {l.call} /\ g.begun = h.begun /\ g.msg = h.msg
    /\ g.open # {} => g.pc = (IF h.pc = "late" THEN "late" ELSE "tools") /\ g.spoke = h.spoke
    /\ g.open = {} => IF h.format = "codex" /\ h.pc = "tools" THEN g.pc = "model" /\ g.spoke = h.spoke + 1
                      ELSE g.pc = "idle" /\ g.spoke = h.spoke

WroteEnd(h, l, g) ==
    /\ (h.pc = "model" /\ h.open = {}) \/ (h.format = "codex" /\ h.pc = "tools")
    /\ l.call = NoCall
    /\ IF h.format = "codex" THEN l.kind \in {"turn.completed", "turn.failed"} /\ g.pc = (IF h.pc = "model" THEN "idle" ELSE "late")
       ELSE l.kind = "result" /\ g.pc = "over"
    /\ g.open = h.open /\ g.begun = h.begun /\ g.msg = h.msg /\ g.spoke = h.spoke

\* A harness h writes a line and goes on as g.
Wrote(h, l, g) ==
    /\ Runs(h) /\ Runs(g) /\ l \in StreamLines
    /\ g.format = h.format /\ g.script = h.script /\ g.caps = h.caps
    /\ \/ WroteNothingNew(h, l, g) \/ WroteTurn(h, l, g) \/ WroteText(h, l, g) \/ WroteRequest(h, l, g)
       \/ WroteReport(h, l, g) \/ WroteAnswer(h, l, g) \/ WroteEnd(h, l, g)

\* The last model call of a codex turn is there to take what the turn reports, and none
\* of the turn's has taken it yet.
Pins(b) ==
    b.codex # <<>> =>
        /\ b.codex[1] <= Len(b.steps)
        /\ \A i \in ChatSteps(b.steps) : i > b.codex[1] => ~b.steps[i].usage
        /\ b.turn = <<>> => \E i \in ChatSteps(b.steps) : i > b.codex[1] /\ \A j \in ChatSteps(b.steps) : j <= i

\* What a builder knows of a harness all of whose lines it has read.
Knows(b, h) ==
    /\ Whole(b) /\ InTurn(b)
    /\ OpenIds(b) = Ids(h.open) /\ ToolCalls(b) = Len(h.begun) /\ ModelCalls(b) = h.spoke
    /\ b.turn # <<>> <=> h.pc = "model"
    /\ b.codex # <<>> <=> h.format = "codex" /\ h.pc \in {"model", "tools"}
    /\ h.format = "claude" /\ b.turn # <<>> => b.turn[1].key = h.msg
    /\ h.format = "codex" => Apart(b) /\ Pins(b) /\ (b.turn # <<>> => ~b.turn[1].usage)

Follows(b, h) == Knows(b, h) /\ Timed(b, b.last)

\* A line that has arrived is the last.
LEMMA ArrivedFollows ==
    ASSUME NEW b, NEW g, Knows(b, g), NEW at \in Nat, b.last <= at, Timed(b, at)
    PROVE  LET a == Arrived(b, at) IN Follows(a, g) /\ a.last = at /\ Used(a) = Used(b)
<1>. DEFINE a == Arrived(b, at)
<1>1. /\ Whole(a) /\ a.steps = b.steps /\ a.tools = b.tools /\ a.turn = b.turn /\ a.codex = b.codex
      /\ a.last = at /\ OpenIds(a) = OpenIds(b)
      /\ ToolCalls(a) = ToolCalls(b) /\ ModelCalls(a) = ModelCalls(b) /\ Used(a) = Used(b)
    BY ArrivedCounts DEF Knows
<1>. HIDE DEF a
<1>2. Timed(a, at) /\ InTurn(a) /\ (Apart(b) => Apart(a)) /\ (Pins(b) => Pins(a))
    BY <1>1 DEF Timed, InTurn, Apart, Pins, Knows
<1>3. Knows(a, g)
    BY <1>1, <1>2 DEF Knows
<1>. QED
    BY <1>1, <1>2, <1>3 DEF Follows, a

\* A call has a number, by which it is known from a line that is about no call.
LEMMA CallsAreNumbered ==
    ASSUME NEW c \in Calls
    PROVE  c.id \in Nat /\ c.id > 0 /\ c # NoCall
<1>1. PICK f \in Formats : \E s \in Scripts[f] : \E n \in DOMAIN s : c = CallOf(s, n)
    BY DEF Calls, AllScripts
<1>2. PICK s \in Scripts[f] : \E n \in DOMAIN s : c = CallOf(s, n)
    BY <1>1
<1>3. PICK n \in DOMAIN s : c = CallOf(s, n)
    BY <1>2
<1>4. n \in Nat /\ n > 0
    <2>1. s \in Seq({s[i] : i \in DOMAIN s})
        BY StreamAssumption
    <2>2. DOMAIN s = 1..Len(s) /\ Len(s) \in Nat
        BY <2>1
    <2>. QED
        BY <2>2
<1>5. c.id = n /\ NoCall.id = 0
    BY <1>3 DEF CallOf, NoCall
<1>. QED
    BY <1>4, <1>5

\* The calls that are open are known by their numbers, the next one's is new.
LEMMA OpenCallsAreBegun ==
    ASSUME NEW h, Runs(h)
    PROVE  /\ h.begun \in Seq(Calls) /\ Len(h.begun) \in Nat /\ DOMAIN h.begun = 1..Len(h.begun)
           /\ h.open \subseteq Calls
           /\ \A c \in h.open : c.id \in 1..Len(h.begun) /\ c = h.begun[c.id]
           /\ Len(h.begun) + 1 \notin Ids(h.open)
           /\ \A c \in h.open : Ids(h.open \ {c}) = Ids(h.open) \ {c.id}
<1>1. /\ h.begun \in Seq(Calls) /\ Len(h.begun) \in Nat /\ DOMAIN h.begun = 1..Len(h.begun)
      /\ h.open \subseteq Calls
    BY DEF Runs, HarnessStates
<1>2. \A c \in h.open : c.id \in 1..Len(h.begun) /\ c = h.begun[c.id]
    <2>. TAKE c \in h.open
    <2>1. PICK n \in DOMAIN h.begun : c = h.begun[n]
        BY DEF Runs
    <2>2. c = CallOf(h.script, n)
        BY <2>1 DEF Runs
    <2>3. c.id = n
        BY <2>2 DEF CallOf
    <2>. QED
        BY <1>1, <2>1, <2>3
<1>. QED
    BY <1>1, <1>2 DEF Ids

\* Reading a line of claude-code.
LEMMA ClaudeFollows ==
    ASSUME NEW b, NEW h, NEW l, NEW g, Follows(b, h), Wrote(h, l, g), h.format = "claude", l.kind # "torn",
           NEW at \in Nat, b.last <= at
    PROVE  LET o == ObserveClaude(b, l, at) IN Follows(o, g) /\ o.last = at
<1>1. /\ Whole(b) /\ b \in Builders /\ b.last \in Nat /\ InTurn(b) /\ Timed(b, b.last) /\ Timed(b, at)
    <2>1. b \in Builders /\ b.last \in Nat
        BY PartsOfBuilder DEF Follows, Knows, Whole
    <2>. QED
        BY <2>1, TimedLater DEF Follows, Knows
<1>2. /\ OpenIds(b) = Ids(h.open) /\ ToolCalls(b) = Len(h.begun) /\ ModelCalls(b) = h.spoke
      /\ b.turn # <<>> <=> h.pc = "model"
      /\ b.codex = <<>>
      /\ b.turn # <<>> => b.turn[1].key = h.msg
    BY DEF Follows, Knows
<1>3. Runs(h) /\ Runs(g) /\ l \in StreamLines /\ g.format = "claude" /\ h.spoke \in Nat /\ g.spoke \in Nat
      /\ l.msg \in Nat /\ l.call \in Calls \cup {NoCall}
    BY DEF Wrote, Runs, HarnessStates, StreamLines
<1>4. \A x :
          (  /\ Whole(x) /\ InTurn(x) /\ Timed(x, at) /\ x.last <= at /\ x.codex = <<>>
             /\ OpenIds(x) = Ids(g.open) /\ ToolCalls(x) = Len(g.begun) /\ ModelCalls(x) = g.spoke
             /\ x.turn # <<>> <=> g.pc = "model"
             /\ x.turn # <<>> => x.turn[1].key = g.msg )
          => LET a == Arrived(x, at) IN Follows(a, g) /\ a.last = at
    BY <1>3, ArrivedFollows DEF Knows
<1>5. CASE l.kind = "assistant"
    <2>. DEFINE continues == b.turn # <<>> /\ b.turn[1].key = l.msg
                turn == IF continues THEN b ELSE OpenTurn(b, l.msg, b.last)
                spoken == Speaks(turn, at)
                said == [spoken EXCEPT !.turn[1].usage = TRUE]
                x == IF l.call = NoCall THEN said ELSE OpenTool(said, l.call, at)
    <2>1. ObserveClaude(b, l, at) = Arrived(x, at)
        BY <1>5 DEF ObserveClaude
    <2>2. /\ h.pc \in {"model", "idle"} /\ l.msg = MessageOf(h) /\ g.msg = l.msg
          /\ g.pc = "model" /\ g.spoke = h.spoke + CallsMore(h)
          /\ l.call = NoCall => g.begun = h.begun /\ g.open = h.open
          /\ l.call # NoCall => l.call.id = Len(h.begun) + 1 /\ g.begun = Append(h.begun, l.call)
                                /\ g.open = h.open \cup {l.call}
        <3>1. WroteText(h, l, g) \/ WroteRequest(h, l, g)
            BY <1>5 DEF Wrote, WroteNothingNew, WroteTurn, WroteReport, WroteAnswer, WroteEnd
        <3>2. CASE WroteText(h, l, g)
            BY <3>2 DEF WroteText, MayBegin
        <3>3. CASE WroteRequest(h, l, g)
            <4>1. l.call = NextOf(h) /\ l.call.id = Len(h.begun) + 1
                BY <3>3 DEF WroteRequest, NextOf, CallOf
            <4>2. l.call # NoCall
                <5>1. Len(h.begun) \in Nat /\ NoCall.id = 0
                    BY <1>3, OpenCallsAreBegun DEF NoCall
                <5>. QED
                    BY <4>1, <5>1
            <4>. QED
                BY <3>3, <4>1, <4>2 DEF WroteRequest, MayBegin
        <3>. QED
            BY <3>1, <3>2, <3>3
    <2>3. /\ Whole(turn) /\ turn.turn # <<>> /\ turn.turn[1].key = l.msg
          /\ turn.tools = b.tools /\ turn.codex = b.codex /\ turn.last = b.last
          /\ ToolCalls(turn) = ToolCalls(b) /\ ModelCalls(turn) = ModelCalls(b) + CallsMore(h)
          /\ Timed(turn, at) /\ InTurn(turn)
        <3>1. CASE h.pc = "model"
            <4>1. turn = b /\ CallsMore(h) = 0
                BY <1>2, <2>2, <3>1 DEF MessageOf, CallsMore
            <4>. QED
                BY <1>1, <1>2, <1>3, <2>2, <3>1, <4>1 DEF MessageOf
        <3>2. CASE h.pc # "model"
            <4>1. turn = OpenTurn(b, l.msg, b.last) /\ CallsMore(h) = 1
                BY <1>2, <3>2 DEF CallsMore
            <4>2. /\ Whole(turn) /\ turn.turn = <<[key |-> l.msg, start |-> b.last, end |-> b.last, usage |-> FALSE]>>
                  /\ turn.tools = b.tools /\ turn.codex = b.codex /\ turn.last = b.last
                  /\ ToolCalls(turn) = ToolCalls(b) /\ ModelCalls(turn) = ModelCalls(b) + 1
                BY <1>1, <1>3, <4>1, OpenTurnCounts
            <4>3. Timed(turn, at) /\ InTurn(turn)
                BY <1>1, <1>3, <4>1, OpenTurnTimes
            <4>. HIDE DEF turn
            <4>4. turn.turn # <<>> /\ turn.turn[1].key = l.msg
                BY <4>2
            <4>. QED
                BY <4>1, <4>2, <4>3, <4>4
        <3>. QED
            BY <3>1, <3>2
    <2>. HIDE DEF turn
    <2>4. /\ Whole(spoken) /\ spoken.turn # <<>> /\ spoken.turn[1].key = l.msg
          /\ spoken.tools = b.tools /\ spoken.codex = b.codex /\ spoken.last = b.last
          /\ ToolCalls(spoken) = ToolCalls(turn) /\ ModelCalls(spoken) = ModelCalls(turn)
          /\ Timed(spoken, at) /\ InTurn(spoken)
        <3>1. /\ Whole(spoken) /\ spoken.turn = <<[turn.turn[1] EXCEPT !.end = at]>>
              /\ spoken.tools = turn.tools /\ spoken.codex = turn.codex /\ spoken.last = turn.last
              /\ ToolCalls(spoken) = ToolCalls(turn) /\ ModelCalls(spoken) = ModelCalls(turn)
            BY <2>3, SpeaksCounts
        <3>2. Timed(spoken, at) /\ InTurn(spoken)
            BY <2>3, SpeaksTimes
        <3>3. turn.turn[1] \in TurnSpans
            BY <2>3, PartsOfBuilder DEF Whole
        <3>. HIDE DEF spoken
        <3>4. spoken.turn # <<>> /\ spoken.turn[1].key = turn.turn[1].key
            BY <3>1, <3>3 DEF TurnSpans
        <3>. QED
            BY <2>3, <3>1, <3>2, <3>4
    <2>. HIDE DEF spoken
    <2>5. /\ Whole(said) /\ said.turn # <<>> /\ said.turn[1].key = l.msg
          /\ said.tools = b.tools /\ said.codex = b.codex /\ said.last = b.last
          /\ ToolCalls(said) = ToolCalls(b) /\ ModelCalls(said) = g.spoke
          /\ Timed(said, at) /\ InTurn(said) /\ OpenIds(said) = OpenIds(b)
        <3>1. /\ Whole(said) /\ said.turn # <<>> /\ said.turn[1].key = spoken.turn[1].key
              /\ said.tools = spoken.tools /\ said.codex = spoken.codex /\ said.last = spoken.last
              /\ ToolCalls(said) = ToolCalls(spoken) /\ ModelCalls(said) = ModelCalls(spoken)
              /\ Timed(said, at) /\ InTurn(said)
            BY <2>4, UsageCounts
        <3>. QED
            BY <1>2, <2>2, <2>3, <2>4, <3>1 DEF OpenIds
    <2>. HIDE DEF said
    <2>6. CASE l.call = NoCall
        BY <1>1, <1>2, <1>4, <2>1, <2>2, <2>5, <2>6
    <2>7. CASE l.call # NoCall
        <3>1. l.call \in Calls /\ l.call.id \in Nat /\ l.call.id \notin OpenIds(said)
            BY <1>2, <1>3, <2>2, <2>5, <2>7, CallsAreNumbered, OpenCallsAreBegun
        <3>2. /\ Whole(x) /\ x.turn = said.turn /\ x.codex = said.codex /\ x.last = said.last
              /\ OpenIds(x) = OpenIds(said) \cup {l.call.id}
              /\ ToolCalls(x) = ToolCalls(said) + 1 /\ ModelCalls(x) = ModelCalls(said)
            BY <2>5, <2>7, <3>1, OpenToolCounts
        <3>3. Timed(x, at) /\ InTurn(x)
            BY <2>5, <2>7, <3>1, OpenToolTimes
        <3>4. OpenIds(x) = Ids(g.open) /\ Len(g.begun) = Len(h.begun) + 1
            BY <1>2, <1>3, <2>2, <2>5, <2>7, <3>2, OpenCallsAreBegun DEF Ids
        <3>. HIDE DEF x
        <3>. QED
            BY <1>1, <1>2, <1>4, <2>1, <2>2, <2>5, <3>2, <3>3, <3>4
    <2>. QED
        BY <2>6, <2>7
<1>. DEFINE c == CloseTurn(b, "none")
<1>6. /\ Whole(c) /\ c.turn = <<>> /\ c.tools = b.tools /\ c.codex = b.codex /\ c.last = b.last
      /\ ToolCalls(c) = ToolCalls(b) /\ ModelCalls(c) = ModelCalls(b)
      /\ Timed(c, at) /\ InTurn(c) /\ OpenIds(c) = OpenIds(b)
    <2>1. /\ Whole(c) /\ c.turn = <<>> /\ c.tools = b.tools /\ c.codex = b.codex /\ c.last = b.last
          /\ ToolCalls(c) = ToolCalls(b) /\ ModelCalls(c) = ModelCalls(b)
        BY <1>1, CloseTurnCounts DEF Reports
    <2>2. Timed(c, at) /\ InTurn(c)
        BY <1>1, CloseTurnTimes DEF Reports
    <2>. QED
        BY <2>1, <2>2 DEF OpenIds
<1>. HIDE DEF c
<1>7. CASE l.kind = "user"
    <2>. DEFINE x == CloseTool(c, l.call, "none", at)
    <2>1. ObserveClaude(b, l, at) = Arrived(x, at)
        BY <1>7 DEF ObserveClaude, c
    <2>2. /\ l.call \in h.open /\ g.open = h.open \ {l.call} /\ g.begun = h.begun /\ g.pc # "model" /\ g.spoke = h.spoke
        BY <1>3, <1>7 DEF Wrote, WroteNothingNew, WroteTurn, WroteText, WroteRequest, WroteReport, WroteAnswer, WroteEnd
    <2>3. l.call \in Calls /\ l.call.id \in Nat /\ l.call.id \in OpenIds(c) /\ Ids(g.open) = Ids(h.open) \ {l.call.id}
        BY <1>2, <1>3, <1>6, <2>2, CallsAreNumbered, OpenCallsAreBegun DEF Ids
    <2>4. /\ Whole(x) /\ x.turn = c.turn /\ x.codex = c.codex /\ x.last = c.last
          /\ OpenIds(x) = OpenIds(c) \ {l.call.id}
          /\ ToolCalls(x) = ToolCalls(c) + 0 /\ ModelCalls(x) = ModelCalls(c)
        BY <1>6, <2>3, CloseToolCounts
    <2>5. Timed(x, at) /\ InTurn(x)
        BY <1>6, <2>3, CloseToolTimes
    <2>6. ToolCalls(x) = Len(g.begun)
        BY <1>2, <1>3, <1>6, <2>2, <2>4, OpenCallsAreBegun
    <2>. HIDE DEF x
    <2>. QED
        BY <1>1, <1>2, <1>4, <1>6, <2>1, <2>2, <2>3, <2>4, <2>5, <2>6, ZenonT(60)
<1>8. CASE l.kind \notin {"assistant", "user"}
    <2>1. ObserveClaude(b, l, at) = Arrived(c, at)
        BY <1>8 DEF ObserveClaude, c
    <2>2. g.open = h.open /\ g.begun = h.begun /\ g.pc # "model" /\ g.spoke = h.spoke
        BY <1>3, <1>8 DEF Wrote, WroteNothingNew, WroteTurn, WroteText, WroteRequest, WroteReport, WroteAnswer, WroteEnd
    <2>. QED
        BY <1>1, <1>2, <1>4, <1>6, <2>1, <2>2
<1>. QED
    BY <1>5, <1>7, <1>8

\* Closing the turn that is on, the first thing most lines do.
LEMMA CloseTurnFirst ==
    ASSUME NEW b, Whole(b), NEW at \in Nat, Timed(b, at), InTurn(b)
    PROVE  LET c == CloseTurn(b, "none") IN
           /\ Whole(c) /\ c.turn = <<>> /\ c.tools = b.tools /\ c.codex = b.codex /\ c.last = b.last
           /\ ToolCalls(c) = ToolCalls(b) /\ ModelCalls(c) = ModelCalls(b) /\ OpenIds(c) = OpenIds(b)
           /\ Timed(c, at) /\ InTurn(c) /\ (Apart(b) => Apart(c)) /\ Used(c) = Used(b)
<1>. DEFINE c == CloseTurn(b, "none")
<1>1. /\ Whole(c) /\ c.turn = <<>> /\ c.tools = b.tools /\ c.codex = b.codex /\ c.last = b.last
      /\ ToolCalls(c) = ToolCalls(b) /\ ModelCalls(c) = ModelCalls(b) /\ Used(c) = Used(b)
    BY CloseTurnCounts DEF Reports
<1>2. Timed(c, at) /\ InTurn(c) /\ (Apart(b) => Apart(c))
    BY CloseTurnTimes DEF Reports, Whole
<1>. QED
    BY <1>1, <1>2 DEF OpenIds

\* Reading a line of cursor-agent.
LEMMA CursorFollows ==
    ASSUME NEW b, NEW h, NEW l, NEW g, Follows(b, h), Wrote(h, l, g), h.format = "cursor", l.kind # "torn",
           NEW at \in Nat, b.last <= at
    PROVE  LET o == ObserveCursor(b, l, at) IN Follows(o, g) /\ o.last = at
<1>1. /\ Whole(b) /\ b \in Builders /\ b.last \in Nat /\ InTurn(b) /\ Timed(b, b.last) /\ Timed(b, at)
    <2>1. b \in Builders /\ b.last \in Nat
        BY PartsOfBuilder DEF Follows, Knows, Whole
    <2>. QED
        BY <2>1, TimedLater DEF Follows, Knows
<1>2. /\ OpenIds(b) = Ids(h.open) /\ ToolCalls(b) = Len(h.begun) /\ ModelCalls(b) = h.spoke
      /\ b.turn # <<>> <=> h.pc = "model"
      /\ b.codex = <<>>
    BY DEF Follows, Knows
<1>3. Runs(h) /\ Runs(g) /\ l \in StreamLines /\ g.format = "cursor" /\ h.spoke \in Nat /\ g.spoke \in Nat
      /\ l.msg \in Nat /\ l.call \in Calls \cup {NoCall}
    BY DEF Wrote, Runs, HarnessStates, StreamLines
<1>4. \A x :
          (  /\ Whole(x) /\ InTurn(x) /\ Timed(x, at) /\ x.last <= at /\ x.codex = <<>>
             /\ OpenIds(x) = Ids(g.open) /\ ToolCalls(x) = Len(g.begun) /\ ModelCalls(x) = g.spoke
             /\ x.turn # <<>> <=> g.pc = "model" )
          => LET a == Arrived(x, at) IN Follows(a, g) /\ a.last = at
    BY <1>3, ArrivedFollows DEF Knows
<1>. DEFINE c == CloseTurn(b, "none")
<1>5. /\ Whole(c) /\ c.turn = <<>> /\ c.tools = b.tools /\ c.codex = b.codex /\ c.last = b.last
      /\ ToolCalls(c) = ToolCalls(b) /\ ModelCalls(c) = ModelCalls(b)
      /\ Timed(c, at) /\ InTurn(c) /\ OpenIds(c) = OpenIds(b)
    BY <1>1, CloseTurnFirst
<1>. HIDE DEF c
<1>6. CASE l.kind = "assistant"
    <2>. DEFINE turn == IF b.turn = <<>> THEN OpenTurn(b, 0, b.last) ELSE b
                x == Speaks(turn, at)
    <2>1. ObserveCursor(b, l, at) = Arrived(x, at)
        BY <1>6 DEF ObserveCursor
    <2>2. /\ h.pc \in {"model", "idle"} /\ g.pc = "model" /\ g.spoke = h.spoke + CallsMore(h)
          /\ g.begun = h.begun /\ g.open = h.open
        BY <1>3, <1>6 DEF Wrote, WroteNothingNew, WroteTurn, WroteText, WroteRequest, WroteReport,
              WroteAnswer, WroteEnd, MayBegin
    <2>3. /\ Whole(turn) /\ turn.turn # <<>>
          /\ turn.tools = b.tools /\ turn.codex = b.codex /\ turn.last = b.last
          /\ ToolCalls(turn) = ToolCalls(b) /\ ModelCalls(turn) = ModelCalls(b) + CallsMore(h)
          /\ Timed(turn, at) /\ InTurn(turn)
        <3>1. CASE h.pc = "model"
            BY <1>1, <1>2, <1>3, <3>1 DEF CallsMore
        <3>2. CASE h.pc # "model"
            <4>1. turn = OpenTurn(b, 0, b.last) /\ CallsMore(h) = 1
                BY <1>2, <3>2 DEF CallsMore
            <4>2. /\ Whole(turn) /\ turn.turn = <<[key |-> 0, start |-> b.last, end |-> b.last, usage |-> FALSE]>>
                  /\ turn.tools = b.tools /\ turn.codex = b.codex /\ turn.last = b.last
                  /\ ToolCalls(turn) = ToolCalls(b) /\ ModelCalls(turn) = ModelCalls(b) + 1
                BY <1>1, <4>1, OpenTurnCounts
            <4>3. Timed(turn, at) /\ InTurn(turn)
                BY <1>1, <4>1, OpenTurnTimes
            <4>. HIDE DEF turn
            <4>4. turn.turn # <<>>
                BY <4>2
            <4>. QED
                BY <4>1, <4>2, <4>3, <4>4
        <3>. QED
            BY <3>1, <3>2
    <2>. HIDE DEF turn
    <2>4. /\ Whole(x) /\ x.turn = <<[turn.turn[1] EXCEPT !.end = at]>>
          /\ x.tools = turn.tools /\ x.codex = turn.codex /\ x.last = turn.last
          /\ ToolCalls(x) = ToolCalls(turn) /\ ModelCalls(x) = ModelCalls(turn)
        BY <2>3, SpeaksCounts
    <2>5. Timed(x, at) /\ InTurn(x)
        BY <2>3, SpeaksTimes
    <2>. HIDE DEF x
    <2>6. x.turn # <<>> /\ OpenIds(x) = OpenIds(b)
        BY <2>3, <2>4 DEF OpenIds
    <2>. QED
        BY <1>1, <1>2, <1>3, <1>4, <2>1, <2>2, <2>3, <2>4, <2>5, <2>6
<1>7. CASE l.kind = "started"
    <2>. DEFINE x == OpenTool(c, l.call, at)
    <2>1. ObserveCursor(b, l, at) = Arrived(x, at)
        BY <1>7 DEF ObserveCursor, c
    <2>2. WroteRequest(h, l, g)
        BY <1>7, <1>3 DEF Wrote, WroteNothingNew, WroteTurn, WroteText, WroteReport, WroteAnswer, WroteEnd
    <2>3. /\ l.call = NextOf(h) /\ g.begun = Append(h.begun, l.call) /\ g.open = h.open \cup {l.call}
          /\ g.pc = "tools" /\ g.spoke = h.spoke
        BY <1>3, <2>2 DEF WroteRequest
    <2>4. /\ l.call.id = Len(h.begun) + 1 /\ l.call.id \in Nat /\ l.call.id \notin OpenIds(c)
          /\ l.call \in Calls /\ Len(g.begun) = Len(h.begun) + 1
        <3>1. Len(h.begun) \in Nat /\ h.begun \in Seq(Calls) /\ Len(h.begun) + 1 \notin Ids(h.open)
            BY <1>3, OpenCallsAreBegun
        <3>2. l.call.id = Len(h.begun) + 1 /\ NoCall.id = 0
            BY <2>3 DEF NextOf, CallOf, NoCall
        <3>3. l.call \in Calls
            BY <1>3, <3>1, <3>2
        <3>. QED
            BY <1>2, <1>5, <2>3, <3>1, <3>2, <3>3
    <2>5. /\ Whole(x) /\ x.turn = c.turn /\ x.codex = c.codex /\ x.last = c.last
          /\ OpenIds(x) = OpenIds(c) \cup {l.call.id}
          /\ ToolCalls(x) = ToolCalls(c) + 1 /\ ModelCalls(x) = ModelCalls(c)
        BY <1>5, <2>4, OpenToolCounts
    <2>6. Timed(x, at) /\ InTurn(x)
        BY <1>5, <2>4, OpenToolTimes
    <2>7. OpenIds(x) = Ids(g.open)
        BY <1>2, <1>5, <2>3, <2>5 DEF Ids
    <2>. HIDE DEF x
    <2>. QED
        BY <1>1, <1>2, <1>4, <1>5, <2>1, <2>3, <2>4, <2>5, <2>6, <2>7
<1>8. CASE l.kind = "completed"
    <2>. DEFINE x == CloseTool(c, l.call, "none", at)
    <2>1. WroteAnswer(h, l, g)
        BY <1>8, <1>3 DEF Wrote, WroteNothingNew, WroteTurn, WroteText, WroteRequest, WroteReport, WroteEnd
    <2>2. /\ l.call \in h.open /\ g.open = h.open \ {l.call} /\ g.begun = h.begun /\ g.pc # "model" /\ g.spoke = h.spoke
        BY <1>3, <2>1 DEF WroteAnswer
    <2>3. l.call \in Calls /\ l.call.id \in Nat /\ l.call.id \in OpenIds(c) /\ Ids(g.open) = Ids(h.open) \ {l.call.id}
        BY <1>2, <1>3, <1>5, <2>2, CallsAreNumbered, OpenCallsAreBegun DEF Ids
    <2>4. ObserveCursor(b, l, at) = Arrived(x, at)
        <3>1. OpenTool(c, l.call, at) = c
            BY <1>5, <2>3, OpenToolCounts
        <3>. QED
            BY <1>8, <3>1 DEF ObserveCursor, c
    <2>5. /\ Whole(x) /\ x.turn = c.turn /\ x.codex = c.codex /\ x.last = c.last
          /\ OpenIds(x) = OpenIds(c) \ {l.call.id}
          /\ ToolCalls(x) = ToolCalls(c) + 0 /\ ModelCalls(x) = ModelCalls(c)
        BY <1>5, <2>3, CloseToolCounts
    <2>6. Timed(x, at) /\ InTurn(x)
        BY <1>5, <2>3, CloseToolTimes
    <2>7. ToolCalls(x) = Len(g.begun)
        BY <1>2, <1>3, <1>5, <2>2, <2>5, OpenCallsAreBegun
    <2>. HIDE DEF x
    <2>. QED
        BY <1>1, <1>2, <1>4, <1>5, <2>2, <2>3, <2>4, <2>5, <2>6, <2>7, ZenonT(60)
<1>9. CASE l.kind = "thinking"
    <2>1. ObserveCursor(b, l, at) = Arrived(b, at)
        BY <1>9 DEF ObserveCursor
    <2>2. g = h
        BY <1>9, <1>3 DEF Wrote, WroteNothingNew, WroteTurn, WroteText, WroteRequest, WroteReport, WroteAnswer, WroteEnd
    <2>. QED
        BY <1>1, <1>2, <1>4, <2>1, <2>2
<1>10. CASE l.kind \notin {"assistant", "started", "completed", "thinking"}
    <2>1. ObserveCursor(b, l, at) = Arrived(c, at)
        BY <1>10 DEF ObserveCursor, c
    <2>2. g.open = h.open /\ g.begun = h.begun /\ g.pc # "model" /\ g.spoke = h.spoke
        BY <1>3, <1>10 DEF Wrote, WroteNothingNew, WroteTurn, WroteText, WroteRequest, WroteReport, WroteAnswer, WroteEnd
    <2>. QED
        BY <1>1, <1>2, <1>4, <1>5, <2>1, <2>2
<1>. QED
    BY <1>6, <1>7, <1>8, <1>9, <1>10

\* Whether a turn of codex is on says nothing of its steps.
LEMMA CodexTurnCounts ==
    ASSUME NEW b, Whole(b), NEW v \in {<<>>} \cup {<<n>> : n \in Nat}
    PROVE  LET c == [b EXCEPT !.codex = v] IN
           /\ Whole(c) /\ c.steps = b.steps /\ c.turn = b.turn /\ c.tools = b.tools /\ c.codex = v /\ c.last = b.last
           /\ ToolCalls(c) = ToolCalls(b) /\ ModelCalls(c) = ModelCalls(b) /\ OpenIds(c) = OpenIds(b)
           /\ \A at : Timed(b, at) => Timed(c, at)
           /\ InTurn(b) => InTurn(c)
           /\ Apart(b) => Apart(c)
           /\ Used(c) = Used(b)
<1>. DEFINE c == [b EXCEPT !.codex = v]
<1>1. /\ c \in Builders /\ c.steps = b.steps /\ c.turn = b.turn /\ c.tools = b.tools /\ c.codex = v /\ c.last = b.last
    BY DEF Whole, Builders
<1>. HIDE DEF c
<1>2. Whole(c)
    BY <1>1 DEF Whole, OpenOnce, NotCut
<1>3. \A at : Timed(b, at) => Timed(c, at)
    BY <1>1 DEF Timed
<1>4. (InTurn(b) => InTurn(c)) /\ (Apart(b) => Apart(c))
    BY <1>1 DEF InTurn, Apart
<1>5. ToolCalls(c) = ToolCalls(b) /\ ModelCalls(c) = ModelCalls(b) /\ OpenIds(c) = OpenIds(b) /\ Used(c) = Used(b)
    BY <1>1 DEF ToolCalls, ModelCalls, OpenIds, Used
<1>. QED
    BY <1>1, <1>2, <1>3, <1>4, <1>5 DEF c

\* A model call of codex goes on until the line that is read.
LEMMA CodexGoesOn ==
    ASSUME NEW b, NEW g, Knows(b, g), g.format = "codex", NEW at \in Nat, b.last <= at, Timed(b, at)
    PROVE  LET x == IF b.turn = <<>> THEN b ELSE Speaks(b, Later(b.turn[1].end, at))
               o == Arrived(x, at)
           IN Follows(o, g) /\ o.last = at /\ Used(o) = Used(b)
<1>1. CASE b.turn = <<>>
    BY <1>1, ArrivedFollows
<1>2. CASE b.turn # <<>>
    <2>. DEFINE x == Speaks(b, at)
    <2>1. Whole(b) /\ InTurn(b) /\ Apart(b) /\ b.turn[1] \in TurnSpans /\ b.turn[1].end \in Nat /\ ~b.turn[1].usage
        BY <1>2, PartsOfBuilder DEF Knows, Whole
    <2>2. Later(b.turn[1].end, at) = at
        BY <1>2, <2>1 DEF Later, Timed
    <2>3. /\ Whole(x) /\ x.steps = b.steps /\ x.tools = b.tools /\ x.codex = b.codex /\ x.last = b.last
          /\ x.turn = <<[b.turn[1] EXCEPT !.end = at]>>
          /\ ToolCalls(x) = ToolCalls(b) /\ ModelCalls(x) = ModelCalls(b) /\ Used(x) = Used(b)
        BY <1>2, <2>1, SpeaksCounts
    <2>4. Timed(x, at) /\ InTurn(x) /\ Apart(x)
        BY <2>1, SpeaksTimes
    <2>. HIDE DEF x
    <2>5. x.turn # <<>> /\ x.turn[1].usage = b.turn[1].usage
        BY <2>1, <2>3 DEF TurnSpans
    <2>6. OpenIds(x) = OpenIds(b) /\ Pins(x)
        BY <1>2, <2>3, <2>5 DEF OpenIds, Knows, Pins
    <2>7. Knows(x, g)
        BY <1>2, <2>1, <2>3, <2>4, <2>5, <2>6 DEF Knows
    <2>8. x.last <= at
        BY <2>3
    <2>9. LET o == Arrived(x, at) IN Follows(o, g) /\ o.last = at /\ Used(o) = Used(b)
        BY <2>3, <2>4, <2>7, <2>8, ArrivedFollows
    <2>. QED
        BY <1>2, <2>2, <2>9 DEF x
<1>. QED
    BY <1>1, <1>2

\* The model call that a tool ends is one more of its turn, without usage.
LEMMA CloseTurnPins ==
    ASSUME NEW b, Whole(b), Pins(b), b.turn # <<>> => ~b.turn[1].usage, NEW at \in Nat
    PROVE  Pins(CloseTurn(Speaks(b, at), "none"))
<1>1. CASE b.turn = <<>>
    BY <1>1 DEF Speaks, CloseTurn
<1>2. CASE b.turn # <<>>
    <2>. DEFINE s == Speaks(b, at)
                c == CloseTurn(s, "none")
                u == [b.turn[1] EXCEPT !.end = at]
                x == ChatOf(u, "none")
                n == Len(b.steps) + 1
    <2>1. b \in Builders /\ b.turn[1] \in TurnSpans /\ b.steps \in Seq(StepSpans) /\ Len(b.steps) \in Nat
        BY <1>2, PartsOfBuilder DEF Whole
    <2>2. s \in Builders /\ s.turn = <<u>> /\ s.steps = b.steps /\ s.codex = b.codex
        BY <1>2, SpeaksCounts DEF Whole
    <2>3. u \in TurnSpans /\ u.usage = b.turn[1].usage
        BY <2>1 DEF TurnSpans
    <2>. HIDE DEF s, u
    <2>4. c.turn = <<>> /\ c.codex = b.codex /\ x \in StepSpans /\ c.steps = Append(b.steps, x)
        BY <2>2, <2>3, CloseTurnIs DEF Reports
    <2>5. IsChat(x) /\ ~x.usage
        BY <1>2, <2>3 DEF IsChat, ChatOf
    <2>. HIDE DEF c, x
    <2>6. /\ ChatSteps(c.steps) = ChatSteps(b.steps) \cup {n} /\ c.steps[n] = x
          /\ Len(c.steps) = n /\ \A i \in ChatSteps(b.steps) : c.steps[i] = b.steps[i] /\ i < n
        BY <2>1, <2>4, <2>5, OneStepMore DEF ChatSteps
    <2>7. b.codex # <<>> => b.codex[1] \in Nat
        BY <2>1 DEF Builders
    <2>. HIDE DEF n
    <2>8. n \in Nat /\ Len(b.steps) < n /\ ChatSteps(b.steps) \subseteq Nat
        BY <2>1 DEF ChatSteps, n
    <2>9. ASSUME b.codex # <<>>
          PROVE  /\ c.codex[1] <= Len(c.steps)
                 /\ \A i \in ChatSteps(c.steps) : i > c.codex[1] => ~c.steps[i].usage
                 /\ n \in ChatSteps(c.steps) /\ n > c.codex[1] /\ \A j \in ChatSteps(c.steps) : j <= n
        <3>1. /\ b.codex[1] \in Nat /\ b.codex[1] <= Len(b.steps) /\ c.codex[1] = b.codex[1]
              /\ \A i \in ChatSteps(b.steps) : i > b.codex[1] => ~b.steps[i].usage
            BY <2>4, <2>7, <2>9 DEF Pins
        <3>2. \A i \in ChatSteps(c.steps) : i > c.codex[1] => ~c.steps[i].usage
            BY <2>5, <2>6, <3>1
        <3>3. \A j \in ChatSteps(c.steps) : j <= n
            BY <2>6, <2>8
        <3>. QED
            BY <2>1, <2>6, <2>8, <3>1, <3>2, <3>3
    <2>10. Pins(c)
        BY <2>4, <2>9 DEF Pins
    <2>. QED
        BY <2>10 DEF c, s
<1>. QED
    BY <1>1, <1>2

\* A tool that ended is no model call.
LEMMA CloseToolPins ==
    ASSUME NEW b, Whole(b), Pins(b), NEW call \in Calls, call.id \in Nat, NEW at \in Nat
    PROVE  Pins(CloseTool(b, call, "none", at))
<1>. DEFINE c == CloseTool(b, call, "none", at)
            n == Len(b.steps) + 1
<1>1. c.turn = b.turn /\ c.codex = b.codex /\ \E x \in StepSpans : c.steps = Append(b.steps, x) /\ IsTool(x)
    BY CloseToolCounts, ZenonT(100)
<1>. PICK x \in StepSpans : c.steps = Append(b.steps, x) /\ IsTool(x)
    BY <1>1
<1>. HIDE DEF c
<1>2. b.steps \in Seq(StepSpans) /\ Len(b.steps) \in Nat /\ (b.codex # <<>> => b.codex[1] \in Nat)
    BY PartsOfBuilder DEF Whole, Builders
<1>3. /\ ChatSteps(c.steps) = ChatSteps(b.steps) /\ Len(c.steps) = Len(b.steps) + 1
      /\ \A i \in ChatSteps(b.steps) : c.steps[i] = b.steps[i]
    <2>1. /\ ChatSteps(c.steps) = ChatSteps(b.steps) /\ Len(c.steps) = Len(b.steps) + 1
          /\ \A i \in DOMAIN b.steps : c.steps[i] = b.steps[i]
        BY <1>2, OneStepMore
    <2>2. ChatSteps(b.steps) \subseteq DOMAIN b.steps
        BY DEF ChatSteps
    <2>. QED
        BY <2>1, <2>2
<1>. QED
    BY <1>1, <1>2, <1>3 DEF Pins, c

\* What a turn reports when a model call is on belongs to that call.
LEMMA EndsOnItsCall ==
    ASSUME NEW b, Whole(b), b.turn # <<>>, ~b.turn[1].usage, NEW failure \in Reports, NEW usage \in BOOLEAN,
           NEW at \in Nat, Timed(b, at), InTurn(b), Apart(b)
    PROVE  LET c == EndCodexTurn(b, at, failure, usage) IN
           /\ Whole(c) /\ c.turn = <<>> /\ c.tools = b.tools /\ c.last = b.last
           /\ ToolCalls(c) = ToolCalls(b) /\ ModelCalls(c) = ModelCalls(b)
           /\ Used(c) = Used(b) + (IF usage THEN 1 ELSE 0)
           /\ Timed(c, at) /\ InTurn(c) /\ Apart(c)
<1>. DEFINE s == Speaks(b, at)
            u == [s EXCEPT !.turn[1].usage = usage]
            c == CloseTurn(u, failure)
<1>1. EndCodexTurn(b, at, failure, usage) = c
    BY Zenon DEF EndCodexTurn
<1>2. /\ Whole(s) /\ s.tools = b.tools /\ s.last = b.last /\ s.turn = <<[b.turn[1] EXCEPT !.end = at]>>
      /\ ToolCalls(s) = ToolCalls(b) /\ ModelCalls(s) = ModelCalls(b) /\ Used(s) = Used(b)
    BY SpeaksCounts
<1>3. Timed(s, at) /\ InTurn(s) /\ Apart(s)
    BY SpeaksTimes
<1>. HIDE DEF s
<1>4. s.turn # <<>> /\ ~s.turn[1].usage
    <2>1. b.turn[1] \in TurnSpans
        BY PartsOfBuilder DEF Whole
    <2>. QED
        BY <1>2, <2>1 DEF TurnSpans
<1>5. /\ Whole(u) /\ u.tools = s.tools /\ u.last = s.last
      /\ ToolCalls(u) = ToolCalls(s) /\ ModelCalls(u) = ModelCalls(s)
      /\ Used(u) = Used(s) + (IF usage THEN 1 ELSE 0)
      /\ Timed(u, at) /\ InTurn(u) /\ Apart(u)
    <2>1. /\ Whole(u) /\ u.tools = s.tools /\ u.last = s.last
          /\ ToolCalls(u) = ToolCalls(s) /\ ModelCalls(u) = ModelCalls(s)
          /\ ~s.turn[1].usage => Used(u) = Used(s) + (IF usage THEN 1 ELSE 0)
          /\ Timed(u, at) /\ InTurn(u) /\ (Apart(s) => Apart(u))
        BY <1>2, <1>3, <1>4, UsageCounts
    <2>. HIDE DEF u
    <2>. QED
        BY <1>3, <1>4, <2>1
<1>. HIDE DEF u
<1>6. /\ Whole(c) /\ c.turn = <<>> /\ c.tools = u.tools /\ c.last = u.last
      /\ ToolCalls(c) = ToolCalls(u) /\ ModelCalls(c) = ModelCalls(u) /\ Used(c) = Used(u)
    BY <1>5, CloseTurnCounts
<1>7. Timed(c, at) /\ InTurn(c) /\ Apart(c)
    BY <1>5, CloseTurnTimes DEF Whole
<1>. HIDE DEF c
<1>. QED
    BY <1>1, <1>2, <1>5, <1>6, <1>7

\* What a turn reports while tools run belongs to the last model call it made.
LEMMA EndsOnTheLast ==
    ASSUME NEW b, Whole(b), b.turn = <<>>, b.codex # <<>>, Pins(b), NEW failure \in Reports, NEW usage \in BOOLEAN,
           NEW at \in Nat, Timed(b, at), InTurn(b), Apart(b)
    PROVE  LET c == EndCodexTurn(b, at, failure, usage) IN
           /\ Whole(c) /\ c.turn = <<>> /\ c.tools = b.tools /\ c.last = b.last
           /\ ToolCalls(c) = ToolCalls(b) /\ ModelCalls(c) = ModelCalls(b)
           /\ Used(c) = Used(b) + (IF usage THEN 1 ELSE 0)
           /\ Timed(c, at) /\ InTurn(c) /\ Apart(c)
<1>. DEFINE chats == {i \in DOMAIN b.steps : i > b.codex[1] /\ b.steps[i].kind = "chat"}
            m == Max(chats)
            w == Takes(b.steps[m], failure, usage)
            steps == [b.steps EXCEPT ![m] = w]
            c == [b EXCEPT !.steps = steps]
<1>1. b \in Builders /\ b.steps \in Seq(StepSpans) /\ DOMAIN b.steps = 1..Len(b.steps) /\ Len(b.steps) \in Nat
    BY PartsOfBuilder DEF Whole
<1>2. chats = {i \in ChatSteps(b.steps) : i > b.codex[1]}
    BY DEF ChatSteps, IsChat
<1>3. m \in chats
    <2>1. PICK i \in ChatSteps(b.steps) : i > b.codex[1] /\ \A j \in ChatSteps(b.steps) : j <= i
        BY DEF Pins
    <2>2. i \in chats /\ \A j \in chats : i >= j
        <3>1. \A j \in ChatSteps(b.steps) : j \in Nat
            BY <1>1 DEF ChatSteps
        <3>. QED
            BY <1>2, <2>1, <3>1
    <2>. HIDE DEF chats
    <2>. QED
        BY <2>2, Zenon DEF Max
<1>4. EndCodexTurn(b, at, failure, usage) = c
    <2>1. chats # {}
        BY <1>3
    <2>2. EndCodexTurn(b, at, failure, usage) = [b EXCEPT !.steps[m] = Takes(@, failure, usage)]
        BY <2>1, Zenon DEF EndCodexTurn
    <2>. HIDE DEF m
    <2>3. [b EXCEPT !.steps[m] = Takes(@, failure, usage)] = c
        <3>1. b \in Builders
            BY <1>1
        <3>. QED
            BY <3>1 DEF Builders
    <2>. HIDE DEF c
    <2>. QED
        BY <2>2, <2>3
<1>5. m \in ChatSteps(b.steps) /\ m \in DOMAIN b.steps /\ b.steps[m] \in StepSpans /\ ~b.steps[m].usage /\ IsChat(b.steps[m])
    <2>1. m \in ChatSteps(b.steps) /\ m > b.codex[1]
        BY <1>2, <1>3
    <2>2. ~b.steps[m].usage
        BY <2>1 DEF Pins
    <2>3. m \in DOMAIN b.steps /\ IsChat(b.steps[m])
        BY <2>1 DEF ChatSteps
    <2>. HIDE DEF m
    <2>. QED
        BY <1>1, <2>1, <2>2, <2>3
<1>6. b.steps[m].failure \in Reports
    BY <1>5 DEF Whole, NotCut
<1>. HIDE DEF m
<1>7. /\ w \in StepSpans /\ IsChat(w) /\ ~IsTool(w) /\ w.usage = usage /\ w.failure \in Reports
      /\ w.start = b.steps[m].start /\ w.end = b.steps[m].end
    BY <1>5, <1>6 DEF StepSpans, IsChat, IsTool, Takes
<1>. HIDE DEF w
<1>8. /\ steps \in Seq(StepSpans) /\ DOMAIN steps = DOMAIN b.steps /\ steps[m] = w
      /\ \A i \in DOMAIN b.steps : i # m => steps[i] = b.steps[i]
    BY <1>1, <1>5, <1>7
<1>. HIDE DEF steps
<1>9. /\ c \in Builders /\ c.steps = steps /\ c.turn = <<>> /\ c.tools = b.tools /\ c.last = b.last
    BY <1>1, <1>8 DEF Builders
<1>. HIDE DEF c
<1>10. \A i \in DOMAIN b.steps : steps[i].start = b.steps[i].start /\ steps[i].end = b.steps[i].end
    BY <1>7, <1>8
<1>11. /\ ChatSteps(steps) = ChatSteps(b.steps) /\ ToolSteps(steps) = ToolSteps(b.steps)
       /\ UsedSteps(steps) = UsedSteps(b.steps) \cup (IF usage THEN {m} ELSE {}) /\ m \notin UsedSteps(b.steps)
    <2>1. ChatSteps(steps) = ChatSteps(b.steps) /\ ToolSteps(steps) = ToolSteps(b.steps)
        BY <1>5, <1>7, <1>8 DEF ChatSteps, ToolSteps, IsChat, IsTool
    <2>2. CASE usage
        BY <1>5, <1>7, <1>8, <2>1, <2>2 DEF UsedSteps, ChatSteps
    <2>3. CASE ~usage
        BY <1>5, <1>7, <1>8, <2>1, <2>3 DEF UsedSteps, ChatSteps
    <2>. QED
        BY <2>1, <2>2, <2>3
<1>12. Used(c) = Used(b) + (IF usage THEN 1 ELSE 0)
    <2>1. IsFiniteSet(UsedSteps(b.steps)) /\ Cardinality(UsedSteps(b.steps)) \in Nat
        BY <1>1, StepsAreFinite
    <2>2. Cardinality(UsedSteps(b.steps) \cup {m}) = Cardinality(UsedSteps(b.steps)) + 1
        BY <1>11, <2>1, FS_AddElement
    <2>3. Cardinality(UsedSteps(steps)) = Cardinality(UsedSteps(b.steps)) + (IF usage THEN 1 ELSE 0)
        <3>1. CASE usage
            BY <1>11, <2>2, <3>1
        <3>2. CASE ~usage
            BY <1>11, <2>1, <3>2
        <3>. QED
            BY <3>1, <3>2
    <2>. QED
        BY <1>9, <2>1, <2>3 DEF Used
<1>13. Whole(c)
    BY <1>7, <1>8, <1>9 DEF Whole, OpenOnce, NotCut
<1>14. ToolCalls(c) = ToolCalls(b) /\ ModelCalls(c) = ModelCalls(b)
    BY <1>9, <1>11 DEF ToolCalls, ModelCalls
<1>15. ChatSteps(b.steps) \subseteq DOMAIN b.steps /\ ToolSteps(b.steps) \subseteq DOMAIN b.steps
    BY DEF ChatSteps, ToolSteps
<1>16. Timed(c, at) /\ InTurn(c) /\ Apart(c)
    BY <1>8, <1>9, <1>10, <1>11, <1>15 DEF Timed, InTurn, Apart
<1>. QED
    BY <1>4, <1>9, <1>12, <1>13, <1>14, <1>16

\* Reading a line of codex about a call.
LEMMA CodexToolFollows ==
    ASSUME NEW b, NEW h, NEW l, NEW g, Follows(b, h), Wrote(h, l, g), h.format = "codex",
           l.kind \in {"started", "completed"}, NEW at \in Nat, b.last <= at
    PROVE  LET o == ObserveCodexTool(b, l, at) IN Knows(o, g) /\ o.last <= at /\ Timed(o, at) /\ Used(o) = Used(b)
<1>1. /\ Whole(b) /\ b \in Builders /\ b.last \in Nat /\ InTurn(b) /\ Timed(b, at) /\ Apart(b)
    <2>1. b \in Builders /\ b.last \in Nat
        BY PartsOfBuilder DEF Follows, Knows, Whole
    <2>. QED
        BY <2>1, TimedLater DEF Follows, Knows
<1>2. /\ OpenIds(b) = Ids(h.open) /\ ToolCalls(b) = Len(h.begun) /\ ModelCalls(b) = h.spoke
      /\ b.turn # <<>> <=> h.pc = "model"
      /\ b.codex # <<>> <=> h.pc \in {"model", "tools"}
      /\ Pins(b) /\ (b.turn # <<>> => ~b.turn[1].usage)
    BY DEF Follows, Knows
<1>3. Runs(h) /\ Runs(g) /\ l \in StreamLines /\ g.format = "codex" /\ h.spoke \in Nat /\ g.spoke \in Nat
      /\ l.call \in Calls \cup {NoCall} /\ h.pc \in {"idle", "model", "tools", "late", "over"}
    BY DEF Wrote, Runs, HarnessStates, StreamLines
<1>4. (b.tools = {} <=> h.open = {}) /\ (h.pc \notin {"tools", "late"} <=> h.open = {})
    <2>1. h.pc \notin {"tools", "late"} <=> h.open = {}
        BY <1>3 DEF Runs
    <2>2. b.tools = {} <=> OpenIds(b) = {}
        BY DEF OpenIds, Ids
    <2>3. h.open = {} <=> Ids(h.open) = {}
        BY DEF Ids
    <2>. QED
        BY <1>2, <2>1, <2>2, <2>3
<1>5. \A x :
          (  /\ Whole(x) /\ InTurn(x) /\ Apart(x)
             /\ OpenIds(x) = Ids(g.open) /\ ToolCalls(x) = Len(g.begun) /\ ModelCalls(x) = g.spoke
             /\ x.turn # <<>> <=> g.pc = "model"
             /\ x.codex # <<>> <=> g.pc \in {"model", "tools"}
             /\ Pins(x) /\ (x.turn # <<>> => ~x.turn[1].usage) )
          => Knows(x, g)
    BY <1>3 DEF Knows
<1>. DEFINE quiet == IF b.tools = {} THEN CloseTurn(Speaks(b, at), "none") ELSE b
            open == OpenTool(quiet, l.call, at)
            closed == CloseTool(open, l.call, "none", at)
            back == OpenTurn(closed, 0, at)
<1>6. /\ Whole(quiet) /\ quiet.turn = <<>> /\ quiet.tools = b.tools /\ quiet.codex = b.codex /\ quiet.last = b.last
      /\ ToolCalls(quiet) = ToolCalls(b) /\ ModelCalls(quiet) = ModelCalls(b) /\ OpenIds(quiet) = OpenIds(b)
      /\ Timed(quiet, at) /\ InTurn(quiet) /\ Apart(quiet) /\ Pins(quiet) /\ Used(quiet) = Used(b)
    <2>1. CASE b.tools = {}
        <3>. DEFINE s == Speaks(b, at)
        <3>1. /\ Whole(s) /\ s.tools = b.tools /\ s.codex = b.codex /\ s.last = b.last
              /\ ToolCalls(s) = ToolCalls(b) /\ ModelCalls(s) = ModelCalls(b) /\ Used(s) = Used(b)
            BY <1>1, SpeaksCounts
        <3>2. Timed(s, at) /\ InTurn(s) /\ Apart(s)
            BY <1>1, SpeaksTimes
        <3>3. quiet = CloseTurn(s, "none")
            BY <2>1
        <3>. HIDE DEF s, quiet
        <3>4. /\ Whole(quiet) /\ quiet.turn = <<>> /\ quiet.tools = s.tools /\ quiet.codex = s.codex
              /\ quiet.last = s.last
              /\ ToolCalls(quiet) = ToolCalls(s) /\ ModelCalls(quiet) = ModelCalls(s) /\ OpenIds(quiet) = OpenIds(s)
              /\ Timed(quiet, at) /\ InTurn(quiet) /\ Apart(quiet) /\ Used(quiet) = Used(s)
            BY <3>1, <3>2, <3>3, CloseTurnFirst
        <3>5. Pins(quiet)
            BY <1>1, <1>2, <2>1, CloseTurnPins DEF quiet
        <3>. QED
            BY <3>1, <3>4, <3>5 DEF OpenIds
    <2>2. CASE b.tools # {}
        <3>1. quiet = b /\ b.turn = <<>>
            BY <1>2, <1>3, <1>4, <2>2
        <3>. QED
            BY <1>1, <1>2, <3>1
    <2>. QED
        BY <2>1, <2>2
<1>. HIDE DEF quiet
<1>7. WroteRequest(h, l, g) \/ WroteReport(h, l, g) \/ WroteAnswer(h, l, g)
    BY DEF Wrote, WroteNothingNew, WroteTurn, WroteText, WroteEnd
<1>8. l.call \in Calls /\ l.call.id \in Nat
    <2>1. CASE WroteAnswer(h, l, g)
        BY <1>3, <2>1, OpenCallsAreBegun, CallsAreNumbered DEF WroteAnswer
    <2>2. CASE WroteRequest(h, l, g) \/ WroteReport(h, l, g)
        <3>1. l.call.id = Len(h.begun) + 1 /\ NoCall.id = 0
            BY <2>2 DEF WroteRequest, WroteReport, NextOf, CallOf, NoCall
        <3>2. Len(h.begun) \in Nat
            BY <1>3, OpenCallsAreBegun
        <3>. QED
            BY <1>3, <3>1, <3>2
    <2>. QED
        BY <1>7, <2>1, <2>2
<1>9. /\ Whole(open) /\ open.turn = <<>> /\ open.codex = b.codex /\ open.last = b.last
      /\ OpenIds(open) = OpenIds(b) \cup {l.call.id}
      /\ ToolCalls(open) = ToolCalls(b) + (IF l.call.id \in OpenIds(b) THEN 0 ELSE 1)
      /\ ModelCalls(open) = ModelCalls(b) /\ Used(open) = Used(b)
      /\ Timed(open, at) /\ InTurn(open) /\ Apart(open) /\ Pins(open)
    <2>1. /\ Whole(open) /\ open.turn = quiet.turn /\ open.codex = quiet.codex /\ open.last = quiet.last
          /\ OpenIds(open) = OpenIds(quiet) \cup {l.call.id}
          /\ l.call.id \in OpenIds(quiet) => open = quiet
          /\ l.call.id \notin OpenIds(quiet) => ToolCalls(open) = ToolCalls(quiet) + 1
          /\ ModelCalls(open) = ModelCalls(quiet) /\ Used(open) = Used(quiet) /\ open.steps = quiet.steps
        <3>1. Whole(quiet)
            BY <1>6
        <3>. QED
            BY <1>8, <3>1, OpenToolCounts
    <2>2. Timed(open, at) /\ InTurn(open) /\ Apart(open)
        BY <1>6, <1>8, OpenToolTimes
    <2>3. ToolCalls(b) \in Nat
        BY <1>2, <1>3, OpenCallsAreBegun
    <2>. HIDE DEF open
    <2>4. Pins(open)
        BY <1>6, <2>1 DEF Pins
    <2>. QED
        BY <1>6, <2>1, <2>2, <2>3, <2>4
<1>. HIDE DEF open
<1>10. /\ Whole(closed) /\ closed.turn = <<>> /\ closed.codex = b.codex /\ closed.last = b.last
       /\ OpenIds(closed) = OpenIds(b) \ {l.call.id}
       /\ ToolCalls(closed) = ToolCalls(open)
       /\ ModelCalls(closed) = ModelCalls(b) /\ Used(closed) = Used(b)
       /\ Timed(closed, at) /\ InTurn(closed) /\ Apart(closed) /\ Pins(closed)
    <2>1. l.call.id \in OpenIds(open) /\ ToolCalls(open) \in Nat
        <3>1. ToolCalls(b) \in Nat
            BY <1>2, <1>3, OpenCallsAreBegun
        <3>. QED
            BY <1>9, <3>1
    <2>2. /\ Whole(closed) /\ closed.turn = open.turn /\ closed.codex = open.codex /\ closed.last = open.last
          /\ OpenIds(closed) = OpenIds(open) \ {l.call.id}
          /\ ToolCalls(closed) = ToolCalls(open) + 0
          /\ ModelCalls(closed) = ModelCalls(open) /\ Used(closed) = Used(open)
        BY <1>8, <1>9, <2>1, CloseToolCounts, ZenonT(60)
    <2>3. Timed(closed, at) /\ InTurn(closed) /\ Apart(closed)
        BY <1>8, <1>9, CloseToolTimes
    <2>4. Pins(closed)
        BY <1>8, <1>9, CloseToolPins
    <2>. HIDE DEF closed
    <2>. QED
        BY <1>9, <2>1, <2>2, <2>3, <2>4
<1>11. ObserveCodexTool(b, l, at) =
          IF l.kind = "started" THEN open
          ELSE IF closed.tools = {} /\ b.codex # <<>> THEN back ELSE closed
    BY <1>10 DEF ObserveCodexTool, AllAnswered, quiet, open
<1>. HIDE DEF closed
<1>12. closed.tools = {} =>
          /\ Whole(back) /\ back.turn # <<>> /\ ~back.turn[1].usage /\ back.codex = b.codex /\ back.last = b.last
          /\ OpenIds(back) = OpenIds(closed)
          /\ ToolCalls(back) = ToolCalls(closed) /\ ModelCalls(back) = ModelCalls(b) + 1 /\ Used(back) = Used(b)
          /\ Timed(back, at) /\ InTurn(back) /\ Apart(back) /\ Pins(back)
    <2>. SUFFICES ASSUME closed.tools = {}
                  PROVE  /\ Whole(back) /\ back.turn # <<>> /\ ~back.turn[1].usage /\ back.codex = b.codex /\ back.last = b.last
                         /\ OpenIds(back) = OpenIds(closed)
                         /\ ToolCalls(back) = ToolCalls(closed) /\ ModelCalls(back) = ModelCalls(b) + 1 /\ Used(back) = Used(b)
                         /\ Timed(back, at) /\ InTurn(back) /\ Apart(back) /\ Pins(back)
        OBVIOUS
    <2>1. /\ Whole(back) /\ back.turn = <<[key |-> 0, start |-> at, end |-> at, usage |-> FALSE]>>
          /\ back.tools = closed.tools /\ back.codex = closed.codex /\ back.last = closed.last
          /\ ToolCalls(back) = ToolCalls(closed) /\ ModelCalls(back) = ModelCalls(closed) + 1 /\ Used(back) = Used(closed)
        BY <1>10, OpenTurnCounts
    <2>2. Timed(back, at) /\ InTurn(back) /\ Apart(back)
        <3>1. Whole(closed) /\ Timed(closed, at) /\ InTurn(closed) /\ Apart(closed) /\ at <= at /\ 0 \in Nat
            BY <1>10
        <3>. QED
            BY <3>1, OpenTurnTimes
    <2>3. back.steps = closed.steps
        BY <1>10 DEF OpenTurn, CloseTurn, Whole, Builders
    <2>. HIDE DEF back
    <2>4. back.turn # <<>> /\ ~back.turn[1].usage
        BY <2>1
    <2>5. Pins(back)
        BY <1>10, <2>1, <2>3, <2>4 DEF Pins
    <2>. QED
        BY <1>10, <2>1, <2>2, <2>4, <2>5 DEF OpenIds
<1>. HIDE DEF back
<1>13. closed.tools = {} <=> OpenIds(closed) = {}
    BY DEF OpenIds, Ids
<1>14. CASE l.kind = "started"
    <2>1. WroteRequest(h, l, g)
        BY <1>3, <1>7, <1>14 DEF WroteReport, WroteAnswer
    <2>2. /\ h.pc \in {"model", "tools"} /\ l.call = NextOf(h) /\ g.begun = Append(h.begun, l.call)
          /\ g.open = h.open \cup {l.call} /\ g.pc = "tools" /\ g.spoke = h.spoke
        BY <1>3, <2>1 DEF WroteRequest, MayBegin
    <2>3. Len(g.begun) = Len(h.begun) + 1 /\ Len(h.begun) \in Nat /\ l.call.id \notin OpenIds(b)
        <3>1. Len(h.begun) \in Nat /\ h.begun \in Seq(Calls) /\ Len(h.begun) + 1 \notin Ids(h.open)
            BY <1>3, OpenCallsAreBegun
        <3>2. l.call.id = Len(h.begun) + 1
            BY <2>2 DEF NextOf, CallOf
        <3>. QED
            BY <1>2, <2>2, <3>1, <3>2
    <2>4. OpenIds(open) = Ids(g.open)
        BY <1>2, <1>9, <2>2 DEF Ids
    <2>5. Knows(open, g)
        BY <1>2, <1>5, <1>9, <2>2, <2>3, <2>4
    <2>. QED
        BY <1>1, <1>9, <1>11, <1>14, <2>5
<1>15. CASE l.kind = "completed" /\ WroteAnswer(h, l, g)
    <2>1. /\ l.call \in h.open /\ g.open = h.open \ {l.call} /\ g.begun = h.begun
          /\ g.open # {} => g.pc = (IF h.pc = "late" THEN "late" ELSE "tools") /\ g.spoke = h.spoke
          /\ g.open = {} => IF h.pc = "tools" THEN g.pc = "model" /\ g.spoke = h.spoke + 1
                            ELSE g.pc = "idle" /\ g.spoke = h.spoke
        BY <1>3, <1>15 DEF WroteAnswer
    <2>2. l.call.id \in OpenIds(b) /\ OpenIds(closed) = Ids(g.open) /\ h.pc \in {"tools", "late"}
        <3>1. Ids(h.open \ {l.call}) = Ids(h.open) \ {l.call.id}
            BY <1>3, <2>1, OpenCallsAreBegun
        <3>. QED
            BY <1>2, <1>3, <1>4, <1>10, <2>1, <3>1 DEF Ids
    <2>3. ToolCalls(closed) = Len(g.begun)
        <3>1. Len(h.begun) \in Nat
            BY <1>3, OpenCallsAreBegun
        <3>. QED
            BY <1>2, <1>9, <1>10, <2>1, <2>2, <3>1
    <2>4. CASE g.open = {} /\ h.pc = "tools"
        <3>1. closed.tools = {} /\ b.codex # <<>>
            BY <1>2, <1>13, <2>2, <2>4 DEF Ids
        <3>2. Knows(back, g)
            BY <1>2, <1>5, <1>12, <2>1, <2>2, <2>3, <2>4, <3>1
        <3>. QED
            BY <1>1, <1>11, <1>12, <1>15, <3>1, <3>2
    <2>5. CASE g.open = {} /\ h.pc = "late"
        <3>1. b.codex = <<>> /\ g.pc = "idle" /\ g.spoke = h.spoke
            BY <1>2, <2>1, <2>5
        <3>2. Knows(closed, g)
            BY <1>2, <1>5, <1>10, <2>1, <2>2, <2>3, <3>1
        <3>. QED
            BY <1>1, <1>10, <1>11, <1>15, <3>1, <3>2
    <2>6. CASE g.open # {}
        <3>1. closed.tools # {} /\ g.pc = h.pc /\ g.spoke = h.spoke
            <4>1. closed.tools # {}
                BY <1>13, <2>2, <2>6, ZenonT(60) DEF Ids
            <4>. QED
                BY <2>1, <2>2, <2>6, <4>1
        <3>2. Knows(closed, g)
            BY <1>2, <1>5, <1>10, <2>1, <2>2, <2>3, <3>1
        <3>. QED
            BY <1>1, <1>10, <1>11, <1>15, <3>1, <3>2
    <2>. QED
        BY <2>2, <2>4, <2>5, <2>6
<1>16. CASE l.kind = "completed" /\ WroteReport(h, l, g)
    <2>1. /\ h.pc \in {"model", "tools"} /\ l.call = NextOf(h) /\ g.begun = Append(h.begun, l.call)
          /\ g.open = h.open /\ g.pc = h.pc /\ g.spoke = h.spoke + (IF h.open = {} THEN 1 ELSE 0)
        BY <1>3, <1>16 DEF WroteReport
    <2>2. /\ Len(h.begun) \in Nat /\ Len(g.begun) = Len(h.begun) + 1 /\ l.call.id \notin OpenIds(b)
          /\ OpenIds(closed) = Ids(g.open)
        <3>1. Len(h.begun) \in Nat /\ h.begun \in Seq(Calls) /\ Len(h.begun) + 1 \notin Ids(h.open)
            BY <1>3, OpenCallsAreBegun
        <3>2. l.call.id = Len(h.begun) + 1
            BY <2>1 DEF NextOf, CallOf
        <3>. QED
            BY <1>2, <1>10, <2>1, <3>1, <3>2
    <2>3. ToolCalls(closed) = Len(g.begun)
        BY <1>2, <1>9, <1>10, <2>2
    <2>4. CASE h.open = {}
        <3>1. closed.tools = {} /\ b.codex # <<>> /\ h.pc = "model"
            BY <1>2, <1>4, <1>13, <2>1, <2>2, <2>4 DEF Ids
        <3>2. Knows(back, g)
            BY <1>2, <1>5, <1>12, <2>1, <2>2, <2>3, <2>4, <3>1
        <3>. QED
            BY <1>1, <1>11, <1>12, <1>16, <3>1, <3>2
    <2>5. CASE h.open # {}
        <3>1. closed.tools # {} /\ b.codex # <<>> /\ h.pc = "tools"
            BY <1>2, <1>4, <1>13, <2>1, <2>2, <2>5, ZenonT(200) DEF Ids
        <3>2. Knows(closed, g)
            BY <1>2, <1>3, <1>5, <1>10, <2>1, <2>2, <2>3, <2>5, <3>1
        <3>. QED
            BY <1>1, <1>10, <1>11, <1>16, <3>1, <3>2
    <2>. QED
        BY <2>4, <2>5
<1>17. ~(l.kind = "completed" /\ WroteRequest(h, l, g))
    BY <1>3 DEF WroteRequest, Wrote
<1>. QED
    BY <1>7, <1>14, <1>15, <1>16, <1>17

\* Reading a line of codex.
LEMMA CodexFollows ==
    ASSUME NEW b, NEW h, NEW l, NEW g, Follows(b, h), Wrote(h, l, g), h.format = "codex", l.kind # "torn",
           NEW at \in Nat, b.last <= at
    PROVE  LET o == ObserveCodex(b, l, at) IN
           Follows(o, g) /\ o.last = at /\ Used(o) = Used(b) + (IF l.kind = "turn.completed" THEN 1 ELSE 0)
<1>1. /\ Whole(b) /\ b \in Builders /\ b.last \in Nat /\ InTurn(b) /\ Timed(b, at) /\ Apart(b)
      /\ b.steps \in Seq(StepSpans) /\ Len(b.steps) \in Nat
    <2>1. b \in Builders /\ b.last \in Nat /\ b.steps \in Seq(StepSpans) /\ Len(b.steps) \in Nat
        BY PartsOfBuilder DEF Follows, Knows, Whole
    <2>. QED
        BY <2>1, TimedLater DEF Follows, Knows
<1>2. /\ OpenIds(b) = Ids(h.open) /\ ToolCalls(b) = Len(h.begun) /\ ModelCalls(b) = h.spoke
      /\ b.turn # <<>> <=> h.pc = "model"
      /\ b.codex # <<>> <=> h.pc \in {"model", "tools"}
      /\ Pins(b) /\ (b.turn # <<>> => ~b.turn[1].usage)
    BY DEF Follows, Knows
<1>3. Runs(h) /\ Runs(g) /\ l \in StreamLines /\ g.format = "codex" /\ h.spoke \in Nat /\ g.spoke \in Nat
      /\ h.pc \in {"idle", "model", "tools", "late", "over"}
    BY DEF Wrote, Runs, HarnessStates, StreamLines
<1>4. \A x :
          (  /\ Whole(x) /\ InTurn(x) /\ Apart(x)
             /\ OpenIds(x) = Ids(g.open) /\ ToolCalls(x) = Len(g.begun) /\ ModelCalls(x) = g.spoke
             /\ x.turn # <<>> <=> g.pc = "model"
             /\ x.codex # <<>> <=> g.pc \in {"model", "tools"}
             /\ Pins(x) /\ (x.turn # <<>> => ~x.turn[1].usage) )
          => Knows(x, g)
    BY <1>3 DEF Knows
<1>5. Used(b) \in Nat
    <2>1. Cardinality(UsedSteps(b.steps)) \in Nat
        BY <1>1, StepsAreFinite
    <2>. QED
        BY <2>1 DEF Used
<1>. DEFINE On(x) == IF x.turn = <<>> THEN x ELSE Speaks(x, Later(x.turn[1].end, at))
<1>6. ASSUME NEW x, Knows(x, g), Timed(x, at), x.last <= at, Used(x) = Used(b) + (IF l.kind = "turn.completed" THEN 1 ELSE 0),
             ObserveCodex(b, l, at) = Arrived(On(x), at)
      PROVE  LET o == ObserveCodex(b, l, at) IN
             Follows(o, g) /\ o.last = at /\ Used(o) = Used(b) + (IF l.kind = "turn.completed" THEN 1 ELSE 0)
    BY <1>3, <1>6, CodexGoesOn
<1>. HIDE DEF On
<1>7. CASE l.kind = "turn.started"
    <2>. DEFINE c == CloseTurn(b, "none")
                d == [c EXCEPT !.codex = <<Len(c.steps)>>]
                x == OpenTurn(d, 0, at)
    <2>1. ObserveCodex(b, l, at) = Arrived(On(x), at)
        BY <1>7 DEF ObserveCodex, On
    <2>2. WroteTurn(h, l, g)
        BY <1>3, <1>7 DEF Wrote, WroteNothingNew, WroteText, WroteRequest, WroteReport, WroteAnswer, WroteEnd
    <2>3. h.pc = "idle" /\ g.pc = "model" /\ g.spoke = h.spoke + 1 /\ g.begun = h.begun /\ g.open = h.open
        BY <2>2 DEF WroteTurn
    <2>4. c = b
        BY <1>2, <2>3 DEF CloseTurn
    <2>5. b.tools = {}
        <3>1. OpenIds(b) = {}
            BY <1>2, <1>3, <2>3 DEF Ids, Runs
        <3>. QED
            BY <3>1 DEF OpenIds, Ids
    <2>. HIDE DEF c
    <2>6. /\ Whole(d) /\ d.steps = b.steps /\ d.tools = b.tools /\ d.codex = <<Len(b.steps)>> /\ d.last = b.last
          /\ ToolCalls(d) = ToolCalls(b) /\ ModelCalls(d) = ModelCalls(b) /\ OpenIds(d) = OpenIds(b)
          /\ Timed(d, at) /\ InTurn(d) /\ Apart(d) /\ Used(d) = Used(b)
        <3>1. <<Len(b.steps)>> \in {<<>>} \cup {<<n>> : n \in Nat}
            BY <1>1
        <3>2. d = [b EXCEPT !.codex = <<Len(b.steps)>>]
            BY <2>4
        <3>. HIDE DEF d
        <3>. QED
            BY <1>1, <3>1, <3>2, CodexTurnCounts
    <2>. HIDE DEF d
    <2>7. /\ Whole(x) /\ x.turn = <<[key |-> 0, start |-> at, end |-> at, usage |-> FALSE]>>
          /\ x.tools = d.tools /\ x.codex = d.codex /\ x.last = d.last
          /\ ToolCalls(x) = ToolCalls(d) /\ ModelCalls(x) = ModelCalls(d) + 1 /\ Used(x) = Used(d)
        BY <2>6, OpenTurnCounts
    <2>8. Timed(x, at) /\ InTurn(x) /\ Apart(x) /\ x.steps = d.steps
        <3>1. Whole(d) /\ Timed(d, at) /\ InTurn(d) /\ Apart(d) /\ d.tools = {} /\ 0 \in Nat /\ at <= at
            BY <2>5, <2>6
        <3>2. d.turn = <<>> /\ d \in Builders
            BY <1>2, <2>3, <2>4, <2>6 DEF Whole, d
        <3>3. x.steps = d.steps
            BY <3>2 DEF OpenTurn, CloseTurn, Builders
        <3>. QED
            BY <3>1, <3>3, OpenTurnTimes
    <2>. HIDE DEF x
    <2>9. x.turn # <<>> /\ ~x.turn[1].usage /\ x.codex # <<>> /\ Pins(x)
        <3>1. x.turn # <<>> /\ ~x.turn[1].usage /\ x.codex = <<Len(b.steps)>> /\ x.steps = b.steps
            BY <2>6, <2>7, <2>8
        <3>2. x.codex[1] = Len(b.steps) /\ \A i \in ChatSteps(b.steps) : i <= Len(b.steps)
            BY <1>1, <3>1 DEF ChatSteps
        <3>. QED
            BY <1>1, <3>1, <3>2 DEF Pins, ChatSteps
    <2>10. Knows(x, g)
        BY <1>2, <1>4, <2>3, <2>6, <2>7, <2>8, <2>9 DEF OpenIds
    <2>. QED
        BY <1>1, <1>5, <1>6, <1>7, <2>1, <2>6, <2>7, <2>8, <2>10
<1>8. CASE l.kind \in {"turn.completed", "turn.failed"}
    <2>1. WroteEnd(h, l, g)
        BY <1>3, <1>8 DEF Wrote, WroteNothingNew, WroteTurn, WroteText, WroteRequest, WroteReport, WroteAnswer
    <2>2. /\ h.pc \in {"model", "tools"} /\ g.pc = (IF h.pc = "model" THEN "idle" ELSE "late")
          /\ g.spoke = h.spoke /\ g.begun = h.begun /\ g.open = h.open
        BY <1>3, <2>1 DEF WroteEnd
    <2>3. PICK usage \in BOOLEAN : usage = (l.kind = "turn.completed")
        OBVIOUS
    <2>4. PICK failure \in Reports : failure = IF l.kind = "turn.failed" THEN "turn_failed" ELSE "none"
        BY DEF Reports
    <2>. DEFINE c == EndCodexTurn(b, at, failure, usage)
                x == [c EXCEPT !.codex = <<>>]
    <2>5. ObserveCodex(b, l, at) = Arrived(On(x), at)
        <3>1. b.codex # <<>>
            BY <1>2, <2>2
        <3>2. EndCodexTurn(b, at, IF l.kind = "turn.failed" THEN "turn_failed" ELSE "none", l.kind = "turn.completed") = c
            BY <2>3, <2>4, Zenon
        <3>. HIDE DEF c
        <3>3. l.kind # "turn.started" /\ l.kind \in {"turn.completed", "turn.failed"} /\ l.kind \notin {"started", "completed"}
            BY <1>8
        <3>. QED
            BY <3>1, <3>2, <3>3 DEF ObserveCodex, On
    <2>6. /\ Whole(c) /\ c.turn = <<>> /\ c.tools = b.tools /\ c.last = b.last
          /\ ToolCalls(c) = ToolCalls(b) /\ ModelCalls(c) = ModelCalls(b)
          /\ Used(c) = Used(b) + (IF usage THEN 1 ELSE 0)
          /\ Timed(c, at) /\ InTurn(c) /\ Apart(c)
        <3>1. CASE h.pc = "model"
            BY <1>1, <1>2, <3>1, EndsOnItsCall
        <3>2. CASE h.pc = "tools"
            BY <1>1, <1>2, <3>2, EndsOnTheLast
        <3>. QED
            BY <2>2, <3>1, <3>2
    <2>. HIDE DEF c
    <2>7. /\ Whole(x) /\ x.turn = <<>> /\ x.codex = <<>> /\ x.tools = b.tools /\ x.last = b.last
          /\ ToolCalls(x) = ToolCalls(b) /\ ModelCalls(x) = ModelCalls(b) /\ Used(x) = Used(c)
          /\ Timed(x, at) /\ InTurn(x) /\ Apart(x)
        <3>1. <<>> \in {<<>>} \cup {<<n>> : n \in Nat}
            OBVIOUS
        <3>2. /\ Whole(x) /\ x.turn = c.turn /\ x.codex = <<>> /\ x.tools = c.tools /\ x.last = c.last
              /\ ToolCalls(x) = ToolCalls(c) /\ ModelCalls(x) = ModelCalls(c) /\ Used(x) = Used(c)
              /\ (Timed(c, at) => Timed(x, at)) /\ (InTurn(c) => InTurn(x)) /\ (Apart(c) => Apart(x))
            BY <2>6, <3>1, CodexTurnCounts
        <3>. HIDE DEF x
        <3>. QED
            BY <2>6, <3>2
    <2>. HIDE DEF x
    <2>8. Knows(x, g)
        <3>1. g.pc \notin {"model", "tools"} /\ Pins(x)
            BY <2>2, <2>7 DEF Pins
        <3>. QED
            BY <1>2, <1>4, <2>2, <2>7, <3>1 DEF OpenIds
    <2>9. Used(x) = Used(b) + (IF l.kind = "turn.completed" THEN 1 ELSE 0)
        BY <2>3, <2>6, <2>7
    <2>. QED
        BY <1>1, <1>6, <2>5, <2>7, <2>8, <2>9
<1>9. CASE l.kind \in {"started", "completed"}
    <2>. DEFINE x == ObserveCodexTool(b, l, at)
    <2>1. ObserveCodex(b, l, at) = Arrived(On(x), at)
        BY <1>9 DEF ObserveCodex, On
    <2>2. Knows(x, g) /\ x.last <= at /\ Timed(x, at) /\ Used(x) = Used(b)
        BY <1>9, CodexToolFollows
    <2>. HIDE DEF x
    <2>. QED
        BY <1>5, <1>6, <1>9, <2>1, <2>2
<1>10. CASE l.kind \notin {"turn.started", "turn.completed", "turn.failed", "started", "completed"}
    <2>1. ObserveCodex(b, l, at) = Arrived(On(b), at)
        BY <1>10 DEF ObserveCodex, On
    <2>2. WroteNothingNew(h, l, g) \/ WroteText(h, l, g)
        BY <1>3, <1>10 DEF Wrote, WroteTurn, WroteRequest, WroteReport, WroteAnswer, WroteEnd
    <2>3. g.open = h.open /\ g.begun = h.begun /\ g.pc = h.pc /\ g.spoke = h.spoke
        BY <1>3, <2>2 DEF WroteNothingNew, WroteText, MayBegin, CallsMore
    <2>4. Knows(b, g)
        BY <1>1, <1>2, <1>4, <2>3
    <2>. QED
        BY <1>1, <1>5, <1>6, <1>10, <2>1, <2>4
<1>. QED
    BY <1>7, <1>8, <1>9, <1>10

\* Reading a line keeps a builder with its harness.
LEMMA ObserveFollows ==
    ASSUME NEW b, NEW h, NEW l, NEW g, Follows(b, h), Wrote(h, l, g), h.format = harness.format,
           l.kind = "torn" => l = Torn, NEW at \in Nat, b.last <= at
    PROVE  LET o == Observe(b, l, at) IN
           /\ Follows(o, g) /\ o.last <= at
           /\ h.format = "codex" => Used(o) = Used(b) + (IF l.kind = "turn.completed" THEN 1 ELSE 0)
<1>1. Torn.kind = "torn"
    BY DEF Torn, Plain, Line
<1>2. CASE l.kind = "torn"
    <2>1. Observe(b, l, at) = b
        BY <1>2 DEF Observe
    <2>2. g = h
        BY <1>2 DEF Wrote, WroteNothingNew, WroteTurn, WroteText, WroteRequest, WroteReport, WroteAnswer, WroteEnd
    <2>3. Used(b) \in Nat
        <3>1. Cardinality(UsedSteps(b.steps)) \in Nat
            BY StepsAreFinite, PartsOfBuilder DEF Follows, Knows, Whole
        <3>. QED
            BY <3>1 DEF Used
    <2>. QED
        BY <1>2, <2>1, <2>2, <2>3
<1>3. CASE l.kind # "torn" /\ h.format = "claude"
    BY <1>1, <1>3, ClaudeFollows DEF Observe
<1>4. CASE l.kind # "torn" /\ h.format = "cursor"
    BY <1>1, <1>4, CursorFollows DEF Observe
<1>5. CASE l.kind # "torn" /\ h.format = "codex"
    BY <1>1, <1>5, CodexFollows DEF Observe
<1>6. h.format \in StreamFormats
    BY StreamAssumption DEF Wrote, Runs, HarnessStates
<1>. QED
    BY <1>2, <1>3, <1>4, <1>5, <1>6 DEF StreamFormats

------------------------------------------------------------------------------
(* The harness and its lines so far *)

BegunBy(h) == {h.begun[n] : n \in DOMAIN h.begun}

\* Of one of the harnesses a run was, before its first line or after its n-th.
Was(h, n) ==
    /\ Runs(h) /\ h.format = harness.format /\ h.script = harness.script /\ h.caps = harness.caps
    /\ Len(h.begun) <= Len(harness.begun) /\ h.spoke <= harness.spoke
    /\ BegunBy(h) = Told(n) /\ Answered(n) \subseteq Told(n) /\ h.open = Told(n) \ Answered(n)

\* The lines are those the harness wrote from its first state to the one it is in.
Lived ==
    /\ lines \in Seq(StreamLines) /\ past \in Seq(HarnessStates) /\ Len(past) = Len(lines) + 1
    /\ \A n \in 1..Len(lines) : Wrote(past[n], lines[n], past[n + 1]) /\ (lines[n].kind = "torn" => lines[n] = Torn)
    /\ \A n \in 1..Len(past) : Was(past[n], n - 1)
    /\ past[1].begun = <<>> /\ past[1].open = {} /\ past[1].spoke = 0 /\ past[1].pc = "idle"
    /\ IF harness.pc = "gone"
       THEN harness = [past[Len(past)] EXCEPT !.pc = "gone"] /\ ended.why \in {"exited", "cap", "timed_out"} /\ ended.at = Len(lines)
       ELSE harness = past[Len(past)] /\ ended.why = "no"

\* What the harness was after each line.
LEMMA WasThen ==
    ASSUME Lived, NEW n \in 0..Len(lines)
    PROVE  Was(past[n + 1], n)
<1>. PICK i : i = n + 1
    OBVIOUS
<1>1. /\ Len(past) = Len(lines) + 1 /\ Len(lines) \in Nat
      /\ \A k \in 1..Len(past) : Was(past[k], k - 1)
    BY DEF Lived
<1>2. i \in 1..Len(past) /\ i - 1 = n
    BY <1>1
<1>. QED
    BY <1>1, <1>2

\* What a line adds to what the lines tell.
LEMMA LineMore ==
    ASSUME lines \in Seq(StreamLines), NEW l \in StreamLines, lines' = Append(lines, l)
    PROVE  /\ lines' \in Seq(StreamLines) /\ Len(lines') = Len(lines) + 1 /\ Len(lines) \in Nat
           /\ \A n \in 1..Len(lines) : lines'[n] = lines[n]
           /\ lines'[Len(lines) + 1] = l
           /\ \A n \in 0..Len(lines) : Told(n)' = Told(n) /\ Answered(n)' = Answered(n)
           /\ \A n : n = Len(lines) + 1 =>
                 /\ Told(n)' = Told(Len(lines)) \cup ({l.call} \ {NoCall})
                 /\ Answered(n)' = Answered(Len(lines)) \cup (IF l.kind \in {"user", "completed"} THEN {l.call} ELSE {})
<1>1. /\ lines' \in Seq(StreamLines) /\ Len(lines') = Len(lines) + 1 /\ Len(lines) \in Nat
      /\ \A n \in 1..Len(lines) : lines'[n] = lines[n]
      /\ lines'[Len(lines) + 1] = l
    OBVIOUS
<1>2. ASSUME NEW n \in 0..Len(lines) PROVE Told(n)' = Told(n) /\ Answered(n)' = Answered(n)
    <2>1. \A i \in 1..n : lines'[i] = lines[i]
        BY <1>1
    <2>2. {lines'[i].call : i \in 1..n} = {lines[i].call : i \in 1..n}
        BY <2>1
    <2>3. {j \in 1..n : lines'[j].kind \in {"user", "completed"}} = {j \in 1..n : lines[j].kind \in {"user", "completed"}}
        BY <2>1
    <2>4. {lines'[i].call : i \in {j \in 1..n : lines'[j].kind \in {"user", "completed"}}}
          = {lines[i].call : i \in {j \in 1..n : lines[j].kind \in {"user", "completed"}}}
        BY <2>1, <2>3
    <2>. QED
        BY <2>2, <2>4 DEF Told, Answered
<1>3. ASSUME NEW m, m = Len(lines) + 1 PROVE Told(m)' = Told(Len(lines)) \cup ({l.call} \ {NoCall})
    <2>1. 1..(Len(lines) + 1) = 1..Len(lines) \cup {Len(lines) + 1}
        BY <1>1
    <2>2. {lines'[i].call : i \in 1..(Len(lines) + 1)} = {lines[i].call : i \in 1..Len(lines)} \cup {l.call}
        BY <1>1, <2>1
    <2>3. Told(m)' = {lines'[i].call : i \in 1..m} \ {NoCall}
        BY DEF Told
    <2>. QED
        BY <1>3, <2>2, <2>3 DEF Told
<1>4. ASSUME NEW m, m = Len(lines) + 1
      PROVE  Answered(m)' = Answered(Len(lines)) \cup (IF l.kind \in {"user", "completed"} THEN {l.call} ELSE {})
    <2>. DEFINE old == {j \in 1..Len(lines) : lines[j].kind \in {"user", "completed"}}
    <2>1. {j \in 1..(Len(lines) + 1) : lines'[j].kind \in {"user", "completed"}}
          = old \cup (IF l.kind \in {"user", "completed"} THEN {Len(lines) + 1} ELSE {})
        BY <1>1
    <2>2. \A i \in old : lines'[i] = lines[i]
        BY <1>1
    <2>. HIDE DEF old
    <2>3. {lines'[i].call : i \in old \cup (IF l.kind \in {"user", "completed"} THEN {Len(lines) + 1} ELSE {})}
          = {lines[i].call : i \in old} \cup (IF l.kind \in {"user", "completed"} THEN {l.call} ELSE {})
        BY <1>1, <2>2
    <2>4. Answered(m)' = {lines'[i].call : i \in {j \in 1..m : lines'[j].kind \in {"user", "completed"}}}
        BY DEF Answered
    <2>. QED
        BY <1>4, <2>1, <2>3, <2>4 DEF Answered, old
<1>. QED
    BY <1>1, <1>2, <1>3, <1>4

\* The next call of a script is one of the calls.
LEMMA NextIsCall ==
    ASSUME NEW h, Runs(h), Len(h.begun) < Len(h.script)
    PROVE  /\ NextOf(h) \in Calls /\ NextOf(h).id = Len(h.begun) + 1
           /\ Len(h.begun) + 1 \in DOMAIN h.script
<1>1. /\ h.script \in AllScripts /\ h.script \in Scripts[h.format] /\ h.format \in Formats /\ Len(h.begun) \in Nat
    BY DEF Runs, HarnessStates
<1>2. h.script \in Seq({h.script[n] : n \in DOMAIN h.script})
    BY <1>1, StreamAssumption
<1>3. Len(h.begun) + 1 \in DOMAIN h.script
    BY <1>1, <1>2
<1>4. CallOf(h.script, Len(h.begun) + 1) \in Calls
    BY <1>1, <1>3 DEF Calls
<1>. QED
    BY <1>3, <1>4 DEF NextOf, CallOf

\* What a line does to the calls that were begun and that are open.
LEMMA WroteCalls ==
    ASSUME NEW h, NEW l, NEW g, Wrote(h, l, g), NEW told, NEW answered,
           BegunBy(h) = told, answered \subseteq told, h.open = told \ answered
    PROVE  /\ BegunBy(g) = told \cup ({l.call} \ {NoCall})
           /\ answered \cup (IF l.kind \in {"user", "completed"} THEN {l.call} ELSE {}) \subseteq BegunBy(g)
           /\ g.open = BegunBy(g) \ (answered \cup (IF l.kind \in {"user", "completed"} THEN {l.call} ELSE {}))
           /\ Len(h.begun) <= Len(g.begun) /\ h.spoke <= g.spoke
<1>. SUFFICES ASSUME NEW t, NEW a, t = told \cup ({l.call} \ {NoCall}),
                     a = answered \cup (IF l.kind \in {"user", "completed"} THEN {l.call} ELSE {})
              PROVE  /\ BegunBy(g) = t /\ a \subseteq t /\ g.open = t \ a
                     /\ Len(h.begun) <= Len(g.begun) /\ h.spoke <= g.spoke
    OBVIOUS
<1>1. Runs(h) /\ Runs(g) /\ l \in StreamLines /\ h.spoke \in Nat /\ h.begun \in Seq(Calls) /\ g.begun \in Seq(Calls)
    BY DEF Wrote, Runs, HarnessStates
<1>2. \A c \in Calls : c # NoCall
    BY CallsAreNumbered
<1>3. CASE WroteNothingNew(h, l, g)
    BY <1>1, <1>3 DEF WroteNothingNew
<1>4. CASE WroteTurn(h, l, g)
    BY <1>1, <1>4 DEF WroteTurn, BegunBy
<1>5. CASE WroteText(h, l, g)
    <2>1. l.kind \notin {"user", "completed"}
        BY <1>1, <1>5 DEF WroteText, Wrote
    <2>. QED
        BY <1>1, <1>5, <2>1 DEF WroteText, BegunBy, CallsMore
<1>6. CASE WroteAnswer(h, l, g)
    <2>1. l.kind \in {"user", "completed"} /\ l.call \in told /\ l.call # NoCall
        <3>1. l.call \in Calls
            BY <1>1, <1>6 DEF WroteAnswer, Runs, HarnessStates
        <3>. QED
            BY <1>2, <1>6, <3>1 DEF WroteAnswer
    <2>2. h.spoke <= g.spoke
        BY <1>1, <1>6 DEF WroteAnswer
    <2>. QED
        BY <1>1, <1>6, <2>1, <2>2 DEF WroteAnswer, BegunBy
<1>7. CASE WroteEnd(h, l, g)
    <2>1. l.kind \notin {"user", "completed"}
        BY <1>7 DEF WroteEnd
    <2>. QED
        BY <1>1, <1>7, <2>1 DEF WroteEnd, BegunBy
<1>8. ASSUME l.call \in Calls, g.begun = Append(h.begun, l.call)
      PROVE  BegunBy(g) = told \cup ({l.call} \ {NoCall}) /\ Len(h.begun) <= Len(g.begun) /\ l.call # NoCall
    <2>1. DOMAIN g.begun = DOMAIN h.begun \cup {Len(h.begun) + 1}
        BY <1>1, <1>8
    <2>2. \A n \in DOMAIN h.begun : g.begun[n] = h.begun[n]
        BY <1>1, <1>8
    <2>3. g.begun[Len(h.begun) + 1] = l.call
        BY <1>1, <1>8
    <2>4. BegunBy(g) = BegunBy(h) \cup {l.call}
        BY <2>1, <2>2, <2>3 DEF BegunBy
    <2>. QED
        BY <1>1, <1>2, <1>8, <2>4
<1>9. ASSUME l.call = NextOf(h), Len(h.begun) < Len(h.script)
      PROVE  l.call \in Calls /\ l.call \notin told
    <2>1. l.call \in Calls
        BY <1>1, <1>9, NextIsCall
    <2>2. \A c \in told : c.id \in 1..Len(h.begun)
        <3>. SUFFICES ASSUME NEW n \in DOMAIN h.begun PROVE h.begun[n].id \in 1..Len(h.begun)
            BY DEF BegunBy
        <3>1. h.begun[n] = CallOf(h.script, n)
            BY <1>1 DEF Runs
        <3>2. n \in 1..Len(h.begun)
            BY <1>1
        <3>. QED
            BY <3>1, <3>2 DEF CallOf
    <2>3. l.call.id = Len(h.begun) + 1
        BY <1>9 DEF NextOf, CallOf
    <2>. QED
        BY <1>1, <2>1, <2>2, <2>3
<1>10. CASE WroteRequest(h, l, g)
    <2>1. l.kind \notin {"user", "completed"}
        BY <1>1, <1>10 DEF WroteRequest
    <2>2. h.spoke <= g.spoke
        BY <1>1, <1>10 DEF WroteRequest, CallsMore
    <2>3. l.call = NextOf(h) /\ Len(h.begun) < Len(h.script) /\ g.begun = Append(h.begun, l.call) /\ g.open = h.open \cup {l.call}
        BY <1>10 DEF WroteRequest
    <2>4. l.call \in Calls /\ l.call \notin told
        BY <1>9, <2>3
    <2>5. BegunBy(g) = told \cup ({l.call} \ {NoCall}) /\ Len(h.begun) <= Len(g.begun) /\ l.call # NoCall
        BY <1>8, <2>3, <2>4
    <2>. QED
        BY <2>1, <2>2, <2>3, <2>4, <2>5
<1>11. CASE WroteReport(h, l, g)
    <2>1. l.kind = "completed"
        BY <1>11 DEF WroteReport
    <2>2. h.spoke <= g.spoke
        BY <1>1, <1>11 DEF WroteReport
    <2>3. l.call = NextOf(h) /\ Len(h.begun) < Len(h.script) /\ g.begun = Append(h.begun, l.call) /\ g.open = h.open
        BY <1>11 DEF WroteReport
    <2>4. l.call \in Calls /\ l.call \notin told
        BY <1>9, <2>3
    <2>5. BegunBy(g) = told \cup ({l.call} \ {NoCall}) /\ Len(h.begun) <= Len(g.begun) /\ l.call # NoCall
        BY <1>8, <2>3, <2>4
    <2>. QED
        BY <2>1, <2>2, <2>3, <2>4, <2>5
<1>. QED
    BY <1>3, <1>4, <1>5, <1>6, <1>7, <1>10, <1>11 DEF Wrote

\* A line more of a harness that goes on.
LEMMA WritesMore ==
    ASSUME Lived, NEW l, NEW g, Writes(l, g), Wrote(harness, l, g), l.kind # "torn"
    PROVE  Lived'
<1>1. /\ harness.pc # "gone" /\ harness = past[Len(past)] /\ ended.why = "no"
      /\ lines \in Seq(StreamLines) /\ past \in Seq(HarnessStates) /\ Len(past) = Len(lines) + 1
    BY DEF Lived, Writes, MayWrite, Alive
<1>2. /\ lines' = Append(lines, l) /\ harness' = g /\ past' = Append(past, g) /\ ended' = ended
    BY DEF Writes
<1>3. /\ l \in StreamLines /\ Runs(g) /\ g \in HarnessStates /\ g.pc # "gone"
      /\ g.format = harness.format /\ g.script = harness.script /\ g.caps = harness.caps
    BY DEF Wrote, Runs, HarnessStates
<1>. PICK n : n = Len(lines)
    OBVIOUS
<1>4. /\ lines' \in Seq(StreamLines) /\ Len(lines') = n + 1 /\ n \in Nat
      /\ \A i \in 1..n : lines'[i] = lines[i]
      /\ lines'[n + 1] = l
      /\ \A i \in 0..n : Told(i)' = Told(i) /\ Answered(i)' = Answered(i)
      /\ \A i : i = n + 1 =>
            /\ Told(i)' = Told(n) \cup ({l.call} \ {NoCall})
            /\ Answered(i)' = Answered(n) \cup (IF l.kind \in {"user", "completed"} THEN {l.call} ELSE {})
    BY <1>1, <1>2, <1>3, LineMore
<1>5. /\ past' \in Seq(HarnessStates) /\ Len(past') = n + 2 /\ past'[n + 2] = g
      /\ \A i \in 1..(n + 1) : past'[i] = past[i]
    BY <1>1, <1>2, <1>3
<1>6. \A i \in 1..(n + 1) : Was(past[i], i - 1)
    BY <1>1 DEF Lived
<1>7. Was(harness, n)
    BY <1>1, <1>4, <1>6
<1>. PICK t, a : /\ t = Told(n) \cup ({l.call} \ {NoCall})
                 /\ a = Answered(n) \cup (IF l.kind \in {"user", "completed"} THEN {l.call} ELSE {})
    OBVIOUS
<1>8. /\ BegunBy(g) = t /\ a \subseteq t /\ g.open = t \ a
      /\ Len(harness.begun) <= Len(g.begun) /\ harness.spoke <= g.spoke
    <2>1. BegunBy(harness) = Told(n) /\ Answered(n) \subseteq Told(n) /\ harness.open = Told(n) \ Answered(n)
        BY <1>7 DEF Was
    <2>. PICK h, told, answered : h = harness /\ told = Told(n) /\ answered = Answered(n)
        OBVIOUS
    <2>2. BegunBy(h) = told /\ answered \subseteq told /\ h.open = told \ answered /\ Wrote(h, l, g)
        BY <2>1
    <2>3. t = told \cup ({l.call} \ {NoCall}) /\ a = answered \cup (IF l.kind \in {"user", "completed"} THEN {l.call} ELSE {})
        OBVIOUS
    <2>4. /\ BegunBy(g) = told \cup ({l.call} \ {NoCall})
          /\ answered \cup (IF l.kind \in {"user", "completed"} THEN {l.call} ELSE {}) \subseteq BegunBy(g)
          /\ g.open = BegunBy(g) \ (answered \cup (IF l.kind \in {"user", "completed"} THEN {l.call} ELSE {}))
          /\ Len(h.begun) <= Len(g.begun) /\ h.spoke <= g.spoke
        BY <2>2, WroteCalls
    <2>. QED
        BY <2>3, <2>4
<1>9. /\ Len(harness.begun) \in Nat /\ Len(g.begun) \in Nat /\ harness.spoke \in Nat /\ g.spoke \in Nat
    <2>1. Runs(harness)
        BY <1>7 DEF Was
    <2>. QED
        BY <1>3, <2>1 DEF Runs, HarnessStates
<1>10. ASSUME NEW i \in 1..(n + 1) PROVE Was(past[i], i - 1)'
    <2>1. Was(past[i], i - 1)
        BY <1>6
    <2>. PICK h : h = past[i]
        OBVIOUS
    <2>. PICK k : k = i - 1
        OBVIOUS
    <2>2. k \in 0..n /\ Told(k)' = Told(k) /\ Answered(k)' = Answered(k) /\ past'[i] = h
        BY <1>4, <1>5
    <2>3. /\ Runs(h) /\ h.format = harness.format /\ h.script = harness.script /\ h.caps = harness.caps
          /\ Len(h.begun) <= Len(harness.begun) /\ h.spoke <= harness.spoke
          /\ BegunBy(h) = Told(k) /\ Answered(k) \subseteq Told(k) /\ h.open = Told(k) \ Answered(k)
        BY <2>1 DEF Was
    <2>4. Len(h.begun) \in Nat /\ h.spoke \in Nat
        BY <2>3 DEF Runs, HarnessStates
    <2>5. Len(h.begun) <= Len(g.begun) /\ h.spoke <= g.spoke
        BY <1>8, <1>9, <2>3, <2>4, SMTT(60)
    <2>6. Was(h, k)'
        BY <1>2, <1>3, <2>2, <2>3, <2>5 DEF Was
    <2>. QED
        BY <2>2, <2>6
<1>11. Was(past[n + 2], n + 1)'
    <2>. PICK k : k = n + 1
        OBVIOUS
    <2>1. /\ Told(k)' = Told(n) \cup ({l.call} \ {NoCall})
          /\ Answered(k)' = Answered(n) \cup (IF l.kind \in {"user", "completed"} THEN {l.call} ELSE {})
        BY <1>4
    <2>2. Was(g, k)'
        BY <1>2, <1>3, <1>8, <1>9, <2>1 DEF Was
    <2>. QED
        BY <1>5, <2>2
<1>12. ASSUME NEW i \in 1..(n + 1)
       PROVE  Wrote(past'[i], lines'[i], past'[i + 1]) /\ (lines'[i].kind = "torn" => lines'[i] = Torn)
    <2>1. CASE i \in 1..n
        BY <1>1, <1>4, <1>5, <2>1 DEF Lived
    <2>2. CASE i = n + 1
        BY <1>1, <1>4, <1>5, <2>2
    <2>. QED
        BY <1>4, <2>1, <2>2
<1>13. /\ past'[1].begun = <<>> /\ past'[1].open = {} /\ past'[1].spoke = 0 /\ past'[1].pc = "idle"
    BY <1>4, <1>5 DEF Lived
<1>14. \A i \in 1..(n + 2) : Was(past[i], i - 1)'
    BY <1>4, <1>10, <1>11
<1>15. IF harness'.pc = "gone"
       THEN harness' = [past'[Len(past')] EXCEPT !.pc = "gone"] /\ ended'.why \in {"exited", "cap", "timed_out"} /\ ended'.at = Len(lines')
       ELSE harness' = past'[Len(past')] /\ ended'.why = "no"
    BY <1>1, <1>2, <1>3, <1>5
<1>. QED
    BY <1>4, <1>5, <1>12, <1>13, <1>14, <1>15 DEF Lived

\* A harness that is not over is one between two lines.
LEMMA AliveRuns ==
    ASSUME Lived, Alive
    PROVE  /\ Runs(harness) /\ harness \in HarnessStates
           /\ harness.format \in {"claude", "cursor", "codex"} /\ harness.begun \in Seq(Calls) /\ Len(harness.begun) \in Nat
           /\ harness.open \subseteq Calls /\ harness.msg \in Nat /\ harness.spoke \in Nat
<1>1. Runs(harness) /\ harness \in HarnessStates
    <2>1. harness = past[Len(past)] /\ Len(past) \in 1..Len(past) /\ Was(past[Len(past)], Len(past) - 1)
        BY DEF Lived, Alive
    <2>. QED
        BY <2>1 DEF Was, Runs
<1>2. Formats \subseteq {"claude", "cursor", "codex"}
    BY StreamAssumption DEF StreamFormats
<1>3. /\ harness.format \in Formats /\ harness.begun \in Seq(Calls)
      /\ harness.open \subseteq Calls /\ harness.msg \in Nat /\ harness.spoke \in Nat
    BY <1>1 DEF HarnessStates
<1>4. harness.format \in {"claude", "cursor", "codex"}
    BY <1>2, <1>3
<1>5. Len(harness.begun) \in Nat
    BY <1>3
<1>. QED
    BY <1>1, <1>3, <1>4, <1>5

\* What a harness goes on as, when it begins no call.
LEMMA SameCallsRun ==
    ASSUME NEW h, Runs(h), NEW pc \in {"idle", "model", "tools", "late", "over"}, NEW m \in Nat, NEW k \in Nat,
           NEW o \in SUBSET h.open,
           pc \in {"idle", "over"} => o = {}, pc \in {"tools", "late"} => o # {}, pc = "late" => h.format = "codex",
           pc = "model" /\ h.format # "claude" => o = {}
    PROVE  Runs([h EXCEPT !.pc = pc, !.msg = m, !.spoke = k, !.open = o])
<1>. DEFINE g == [h EXCEPT !.pc = pc, !.msg = m, !.spoke = k, !.open = o]
<1>1. h \in HarnessStates
    BY DEF Runs
<1>2. /\ g \in HarnessStates /\ g.pc = pc /\ g.open = o /\ g.begun = h.begun /\ g.format = h.format /\ g.script = h.script
    BY <1>1 DEF HarnessStates
<1>. HIDE DEF g
<1>3. Runs(g)
    BY <1>2 DEF Runs
<1>. QED
    BY <1>3 DEF g

\* What a harness goes on as that begins the next call of its script.
LEMMA NextCallRuns ==
    ASSUME NEW h, Runs(h), Len(h.begun) < Len(h.script), NEW pc \in {"model", "tools"}, NEW m \in Nat, NEW k \in Nat,
           NEW o \in SUBSET (h.open \cup {NextOf(h)}),
           pc = "tools" => o # {}, pc = "model" /\ h.format # "claude" => o = {}
    PROVE  Runs([h EXCEPT !.begun = Append(@, NextOf(h)), !.pc = pc, !.msg = m, !.spoke = k, !.open = o])
<1>. PICK c : c = NextOf(h)
    OBVIOUS
<1>. PICK begun : begun = Append(h.begun, c)
    OBVIOUS
<1>. DEFINE g == [h EXCEPT !.begun = begun, !.pc = pc, !.msg = m, !.spoke = k, !.open = o]
<1>1. h \in HarnessStates /\ h.begun \in Seq(Calls) /\ h.open \subseteq Calls
    BY DEF Runs, HarnessStates
<1>2. c \in Calls /\ Len(h.begun) + 1 \in DOMAIN h.script /\ c = CallOf(h.script, Len(h.begun) + 1)
    BY NextIsCall DEF NextOf
<1>. HIDE DEF g
<1>3. /\ g \in HarnessStates /\ g.pc = pc /\ g.open = o /\ g.begun = Append(h.begun, c) /\ g.format = h.format
      /\ g.script = h.script
    <2>1. begun \in Seq(Calls)
        BY <1>1, <1>2
    <2>2. o \in SUBSET Calls
        BY <1>1, <1>2
    <2>. QED
        BY <1>1, <2>1, <2>2 DEF HarnessStates, g
<1>4. Len(h.script) \in Nat
    <2>1. h.script \in Seq({h.script[n] : n \in DOMAIN h.script})
        BY <1>1, StreamAssumption DEF Runs, HarnessStates
    <2>. QED
        BY <2>1
<1>5. Len(g.begun) = Len(h.begun) + 1 /\ Len(g.begun) <= Len(g.script)
    BY <1>1, <1>2, <1>3, <1>4
<1>6. \A n \in DOMAIN g.begun : g.begun[n] = CallOf(g.script, n)
    <2>1. \A n \in DOMAIN h.begun : h.begun[n] = CallOf(h.script, n)
        BY DEF Runs
    <2>. QED
        BY <1>1, <1>2, <1>3, <2>1
<1>7. g.open \subseteq {g.begun[n] : n \in DOMAIN g.begun}
    <2>1. h.open \subseteq {h.begun[n] : n \in DOMAIN h.begun}
        BY DEF Runs
    <2>2. \A n \in DOMAIN h.begun : n \in DOMAIN g.begun /\ g.begun[n] = h.begun[n]
        BY <1>1, <1>2, <1>3
    <2>3. Len(h.begun) + 1 \in DOMAIN g.begun /\ g.begun[Len(h.begun) + 1] = c
        BY <1>1, <1>2, <1>3
    <2>. QED
        BY <1>3, <2>1, <2>2, <2>3
<1>8. g.script \in Scripts[g.format]
    BY <1>3 DEF Runs
<1>9. Runs(g)
    BY <1>3, <1>5, <1>6, <1>7, <1>8 DEF Runs
<1>. QED
    BY <1>9 DEF g

\* Every action of a harness writes a line of its own.
LEMMA HarnessWrites ==
    ASSUME Lived,
           BeginTurn \/ Say \/ AskFor \/ TellOf \/ (\E c \in harness.open : Answer(c)) \/ Chatter \/ Think \/ EndTurn
    PROVE  \E l, g : Writes(l, g) /\ Wrote(harness, l, g) /\ l.kind # "torn"
<1>. DEFINE Goal == \E l, g : Writes(l, g) /\ Wrote(harness, l, g) /\ l.kind # "torn"
<1>1. Alive
    BY DEF BeginTurn, Say, AskFor, TellOf, Answer, Chatter, Think, EndTurn, Writes, MayWrite
<1>2. /\ Runs(harness) /\ harness \in HarnessStates
      /\ harness.format \in {"claude", "cursor", "codex"} /\ harness.begun \in Seq(Calls) /\ Len(harness.begun) \in Nat
      /\ harness.open \subseteq Calls /\ harness.msg \in Nat /\ harness.spoke \in Nat
    BY <1>1, AliveRuns
<1>3. /\ \A k \in LineKinds, m \in Nat : Line(k, m, NoCall) \in StreamLines
      /\ \A k \in LineKinds, c \in Calls : \A m \in Nat : Line(k, m, c) \in StreamLines
      /\ \A k, m, c : Line(k, m, c).kind = k /\ Line(k, m, c).msg = m /\ Line(k, m, c).call = c
      /\ \A k : Plain(k) = Line(k, 0, NoCall)
    BY DEF Line, Plain, StreamLines
<1>4. /\ Message \in Nat /\ Message = MessageOf(harness)
      /\ harness.pc = "model" => harness.msg = Message
    BY <1>2 DEF Message, MessageOf
<1>5. Thinks => MayBegin(harness) /\ Spoken(TRUE) = harness.spoke + CallsMore(harness) /\ Spoken(FALSE) = harness.spoke
    BY <1>2 DEF Thinks, MayBegin, Spoken, CallsMore
<1>6. CASE BeginTurn
    <2>. PICK l, g : l = Plain("turn.started") /\ g = [harness EXCEPT !.pc = "model", !.spoke = @ + 1]
        OBVIOUS
    <2>1. Writes(l, g) /\ harness.format = "codex" /\ harness.pc = "idle" /\ harness.open = {}
        BY <1>6 DEF BeginTurn
    <2>2. l \in StreamLines /\ l.kind = "turn.started" /\ l.call = NoCall
        BY <1>3 DEF LineKinds
    <2>3. g = [harness EXCEPT !.pc = "model", !.msg = harness.msg, !.spoke = harness.spoke + 1, !.open = {}]
        BY <1>2, <2>1 DEF HarnessStates
    <2>4. Runs(g)
        <3>1. harness.spoke + 1 \in Nat /\ {} \in SUBSET harness.open
            BY <1>2
        <3>2. Runs([harness EXCEPT !.pc = "model", !.msg = harness.msg, !.spoke = harness.spoke + 1, !.open = {}])
            BY <1>2, <3>1, SameCallsRun
        <3>. QED
            BY <2>3, <3>2, Zenon
    <2>5. /\ g.format = harness.format /\ g.script = harness.script /\ g.caps = harness.caps /\ g.begun = harness.begun
          /\ g.open = harness.open /\ g.pc = "model" /\ g.spoke = harness.spoke + 1 /\ g.msg = harness.msg
        BY <1>2 DEF HarnessStates
    <2>6. WroteTurn(harness, l, g)
        BY <2>1, <2>2, <2>5 DEF WroteTurn
    <2>7. Wrote(harness, l, g)
        BY <1>2, <2>2, <2>4, <2>5, <2>6 DEF Wrote
    <2>. QED
        BY <2>1, <2>2, <2>7
<1>7. CASE Say
    <2>. PICK l, g : /\ l = IF harness.format = "codex" THEN Plain("message") ELSE Line("assistant", Message, NoCall)
                     /\ g = [harness EXCEPT !.pc = "model", !.msg = Message, !.spoke = Spoken(TRUE)]
        OBVIOUS
    <2>1. Writes(l, g) /\ Thinks
        BY <1>7 DEF Say
    <2>2. /\ l \in StreamLines /\ l.call = NoCall /\ l.kind # "torn"
          /\ harness.format = "codex" => l.kind = "message"
          /\ harness.format # "codex" => l.kind = "assistant" /\ l.msg = MessageOf(harness)
        BY <1>3, <1>4 DEF LineKinds
    <2>3. g = [harness EXCEPT !.pc = "model", !.msg = Message, !.spoke = Spoken(TRUE), !.open = harness.open]
        BY <1>2 DEF HarnessStates
    <2>4. harness.format # "claude" => harness.open = {}
        BY <1>2, <2>1 DEF Runs, Thinks
    <2>5. Runs(g)
        <3>1. Spoken(TRUE) \in Nat
            BY <1>2 DEF Spoken
        <3>2. Runs([harness EXCEPT !.pc = "model", !.msg = Message, !.spoke = Spoken(TRUE), !.open = harness.open])
            BY <1>2, <1>4, <2>4, <3>1, SameCallsRun
        <3>. QED
            BY <2>3, <3>2, Zenon
    <2>6. /\ g.format = harness.format /\ g.script = harness.script /\ g.caps = harness.caps /\ g.begun = harness.begun
          /\ g.open = harness.open /\ g.pc = "model" /\ g.spoke = Spoken(TRUE) /\ g.msg = Message
        BY <1>2 DEF HarnessStates
    <2>7. WroteText(harness, l, g)
        BY <1>4, <1>5, <2>1, <2>2, <2>6 DEF WroteText
    <2>8. Wrote(harness, l, g)
        BY <1>2, <2>2, <2>5, <2>6, <2>7 DEF Wrote
    <2>. QED
        BY <2>1, <2>2, <2>8
<1>8. NextCall = NextOf(harness)
    BY DEF NextCall, NextOf, CallOf
<1>9. ASSUME Len(harness.begun) < Len(harness.script)
      PROVE  NextCall \in Calls /\ NextCall.id = Len(harness.begun) + 1
    BY <1>2, <1>8, <1>9, NextIsCall
<1>10. CASE AskFor
    <2>. DEFINE claude == harness.format = "claude"
    <2>. PICK pc : pc = IF harness.format = "claude" THEN "model" ELSE "tools"
        OBVIOUS
    <2>. PICK k : k = Spoken(harness.format = "claude")
        OBVIOUS
    <2>. PICK c : c = NextCall
        OBVIOUS
    <2>. PICK open : open = harness.open \cup {c}
        OBVIOUS
    <2>. PICK l, g : /\ l = IF harness.format = "claude" THEN Line("assistant", Message, c) ELSE Line("started", 0, c)
                     /\ g = [harness EXCEPT !.begun = Append(@, c), !.open = open, !.msg = Message, !.pc = pc, !.spoke = k]
        OBVIOUS
    <2>1. /\ Asks /\ Len(harness.begun) < Len(harness.script) /\ ~harness.script[NextCall.id].finishedOnly
          /\ Writes(IF harness.format = "claude" THEN Line("assistant", Message, NextCall) ELSE Line("started", 0, NextCall),
                    [harness EXCEPT !.begun = Append(@, NextCall), !.open = @ \cup {NextCall}, !.msg = Message,
                                    !.pc = IF harness.format = "claude" THEN "model" ELSE "tools",
                                    !.spoke = Spoken(harness.format = "claude")])
        BY <1>10 DEF AskFor
    <2>2. Writes(l, g)
        BY <2>1, Zenon
    <2>3. c \in Calls /\ c.id = Len(harness.begun) + 1 /\ c = NextOf(harness) /\ ~harness.script[Len(harness.begun) + 1].finishedOnly
        BY <1>8, <1>9, <2>1
    <2>4. /\ l \in StreamLines /\ l.call = c /\ l.kind # "torn"
          /\ claude => l.kind = "assistant" /\ l.msg = MessageOf(harness)
          /\ ~claude => l.kind = "started"
        BY <1>3, <1>4, <2>3 DEF LineKinds
    <2>5. /\ k \in Nat /\ pc \in {"model", "tools"} /\ open \in SUBSET (harness.open \cup {c}) /\ open # {}
          /\ pc = "model" => claude
        BY <1>2 DEF Spoken
    <2>6. g = [harness EXCEPT !.begun = Append(@, c), !.pc = pc, !.msg = Message, !.spoke = k, !.open = open]
        BY <1>2 DEF HarnessStates
    <2>7. Runs([harness EXCEPT !.begun = Append(@, NextOf(harness)), !.pc = pc, !.msg = Message, !.spoke = k, !.open = open])
        BY <1>2, <1>4, <2>1, <2>3, <2>5, NextCallRuns
    <2>8. Runs(g)
        BY <2>3, <2>6, <2>7, Zenon
    <2>9. /\ g.format = harness.format /\ g.script = harness.script /\ g.caps = harness.caps /\ g.begun = Append(harness.begun, c)
          /\ g.open = open /\ g.pc = pc /\ g.spoke = k /\ g.msg = Message
        BY <1>2 DEF HarnessStates
    <2>10. /\ MayBegin(harness) \/ (harness.format # "claude" /\ harness.pc = "tools")
           /\ claude => k = harness.spoke + CallsMore(harness)
           /\ ~claude => k = harness.spoke
        <3>1. Thinks \/ (harness.format # "claude" /\ harness.pc = "tools")
            BY <2>1 DEF Asks
        <3>2. claude => k = Spoken(TRUE)
            BY DEF Spoken
        <3>3. ~claude => k = harness.spoke
            BY <1>2 DEF Spoken
        <3>. QED
            BY <1>5, <3>1, <3>2, <3>3
    <2>. HIDE DEF claude
    <2>11. WroteRequest(harness, l, g)
        BY <1>4, <2>1, <2>3, <2>4, <2>9, <2>10 DEF WroteRequest, claude
    <2>12. Wrote(harness, l, g)
        BY <1>2, <2>4, <2>8, <2>9, <2>11 DEF Wrote
    <2>. QED
        BY <2>2, <2>4, <2>12
<1>11. CASE TellOf
    <2>. PICK k : k = IF harness.open = {} THEN harness.spoke + 1 ELSE harness.spoke
        OBVIOUS
    <2>. PICK c : c = NextCall
        OBVIOUS
    <2>. PICK l, g : /\ l = Line("completed", 0, c)
                     /\ g = [harness EXCEPT !.begun = Append(@, c), !.spoke = k]
        OBVIOUS
    <2>1. /\ Asks /\ Len(harness.begun) < Len(harness.script) /\ harness.script[NextCall.id].finishedOnly
          /\ Writes(Line("completed", 0, NextCall),
                    [harness EXCEPT !.begun = Append(@, NextCall), !.spoke = IF harness.open = {} THEN @ + 1 ELSE @])
        BY <1>11 DEF TellOf
    <2>2. Writes(l, g)
        BY <2>1, Zenon
    <2>3. c \in Calls /\ c.id = Len(harness.begun) + 1 /\ c = NextOf(harness) /\ harness.script[Len(harness.begun) + 1].finishedOnly
        BY <1>8, <1>9, <2>1
    <2>4. l \in StreamLines /\ l.call = c /\ l.kind = "completed"
        BY <1>3, <2>3 DEF LineKinds
    <2>5. harness.format = "codex" /\ harness.pc \in {"model", "tools"}
        <3>1. harness.format = "codex"
            <4>1. /\ harness.script \in Scripts[harness.format] /\ harness.format \in Formats
                  /\ Len(harness.begun) + 1 \in DOMAIN harness.script
                BY <1>2, <2>1, NextIsCall DEF Runs, HarnessStates
            <4>. QED
                BY <2>3, <4>1, StreamAssumption
        <3>. QED
            BY <1>2, <2>1, <3>1 DEF Asks, Thinks
    <2>6. /\ k \in Nat /\ k = harness.spoke + (IF harness.open = {} THEN 1 ELSE 0)
          /\ harness.open \in SUBSET (harness.open \cup {c})
          /\ harness.pc = "tools" => harness.open # {}
          /\ harness.pc = "model" => harness.open = {}
        BY <1>2, <2>5 DEF Runs
    <2>7. g = [harness EXCEPT !.begun = Append(@, c), !.pc = harness.pc, !.msg = harness.msg, !.spoke = k, !.open = harness.open]
        BY <1>2 DEF HarnessStates
    <2>8. Runs([harness EXCEPT !.begun = Append(@, NextOf(harness)), !.pc = harness.pc, !.msg = harness.msg, !.spoke = k,
                               !.open = harness.open])
        BY <1>2, <2>1, <2>3, <2>5, <2>6, NextCallRuns, ZenonT(60)
    <2>9. Runs(g)
        BY <2>3, <2>7, <2>8, Zenon
    <2>10. /\ g.format = harness.format /\ g.script = harness.script /\ g.caps = harness.caps /\ g.begun = Append(harness.begun, c)
           /\ g.open = harness.open /\ g.pc = harness.pc /\ g.spoke = k /\ g.msg = harness.msg
        BY <1>2 DEF HarnessStates
    <2>11. WroteReport(harness, l, g)
        BY <2>1, <2>3, <2>4, <2>5, <2>6, <2>10 DEF WroteReport
    <2>12. Wrote(harness, l, g)
        BY <1>2, <2>4, <2>9, <2>10, <2>11 DEF Wrote
    <2>. QED
        BY <2>2, <2>4, <2>12
<1>12. ASSUME NEW c \in harness.open, Answer(c) PROVE Goal
    <2>. PICK open : open = harness.open \ {c}
        OBVIOUS
    <2>. PICK back \in BOOLEAN : back = (open = {} /\ harness.format = "codex" /\ harness.pc = "tools")
        OBVIOUS
    <2>. PICK pc : pc = IF back THEN "model" ELSE IF open = {} THEN "idle"
                        ELSE IF harness.pc = "late" THEN "late" ELSE "tools"
        OBVIOUS
    <2>. PICK k : k = IF back THEN harness.spoke + 1 ELSE harness.spoke
        OBVIOUS
    <2>. PICK l, g : /\ l = Line(IF harness.format = "claude" THEN "user" ELSE "completed", 0, c)
                     /\ g = [harness EXCEPT !.open = open, !.pc = pc, !.spoke = k]
        OBVIOUS
    <2>1. harness.open = {c} <=> open = {}
        OBVIOUS
    <2>2. Writes(l, g)
        <3>. DEFINE again == harness.open = {c} /\ harness.format = "codex" /\ harness.pc = "tools"
        <3>1. Writes(Line(IF harness.format = "claude" THEN "user" ELSE "completed", 0, c),
                     [harness EXCEPT !.open = @ \ {c},
                         !.pc = IF again THEN "model" ELSE IF harness.open = {c} THEN "idle"
                                ELSE IF @ = "late" THEN @ ELSE "tools",
                         !.spoke = IF again THEN @ + 1 ELSE @])
            BY <1>12 DEF Answer
        <3>2. [harness EXCEPT !.open = @ \ {c},
                         !.pc = IF again THEN "model" ELSE IF harness.open = {c} THEN "idle"
                                ELSE IF @ = "late" THEN @ ELSE "tools",
                         !.spoke = IF again THEN @ + 1 ELSE @] = g
            BY <1>2, <2>1 DEF HarnessStates
        <3>. QED
            BY <3>1, <3>2, Zenon
    <2>3. c \in Calls
        BY <1>2
    <2>4. /\ l \in StreamLines /\ l.call = c /\ l.kind # "torn"
          /\ l.kind = IF harness.format = "claude" THEN "user" ELSE "completed"
        BY <1>3, <2>3 DEF LineKinds
    <2>5. /\ k \in Nat /\ open \in SUBSET harness.open /\ pc \in {"idle", "model", "tools", "late", "over"}
          /\ pc \in {"idle", "over"} => open = {}
          /\ pc \in {"tools", "late"} => open # {}
          /\ pc = "late" => harness.format = "codex"
          /\ pc = "model" => open = {}
        <3>1. harness.pc = "late" => harness.format = "codex"
            BY <1>2 DEF Runs
        <3>2. k \in Nat
            BY <1>2
        <3>3. open = {} => pc \in {"model", "idle"}
            OBVIOUS
        <3>4. open # {} => pc = "tools" \/ (pc = "late" /\ harness.pc = "late")
            OBVIOUS
        <3>. QED
            BY <3>1, <3>2, <3>3, <3>4
    <2>6. g = [harness EXCEPT !.pc = pc, !.msg = harness.msg, !.spoke = k, !.open = open]
        BY <1>2 DEF HarnessStates
    <2>7. Runs([harness EXCEPT !.pc = pc, !.msg = harness.msg, !.spoke = k, !.open = open])
        BY <1>2, <2>5, SameCallsRun
    <2>8. Runs(g)
        BY <2>6, <2>7, Zenon
    <2>9. /\ g.format = harness.format /\ g.script = harness.script /\ g.caps = harness.caps /\ g.begun = harness.begun
          /\ g.open = open /\ g.pc = pc /\ g.spoke = k /\ g.msg = harness.msg
        BY <1>2 DEF HarnessStates
    <2>10. WroteAnswer(harness, l, g)
        BY <2>4, <2>9 DEF WroteAnswer
    <2>11. Wrote(harness, l, g)
        BY <1>2, <2>4, <2>8, <2>9, <2>10 DEF Wrote
    <2>. QED
        BY <2>2, <2>4, <2>11
<1>13. CASE Chatter \/ Think
    <2>. PICK l : l = IF Chatter THEN Plain("system") ELSE Plain("thinking")
        OBVIOUS
    <2>1. Writes(l, harness)
        BY <1>13 DEF Chatter, Think
    <2>2. l \in StreamLines /\ l.call = NoCall /\ l.kind # "torn"
        BY <1>3 DEF LineKinds
    <2>3. WroteNothingNew(harness, l, harness)
        BY <1>3, <1>13, <2>2 DEF WroteNothingNew, Chatter, Think
    <2>4. Wrote(harness, l, harness)
        BY <1>2, <2>2, <2>3 DEF Wrote
    <2>. QED
        BY <2>1, <2>2, <2>4
<1>14. CASE EndTurn
    <2>. PICK pc : pc = IF harness.format # "codex" THEN "over" ELSE IF harness.pc = "model" THEN "idle" ELSE "late"
        OBVIOUS
    <2>1. (harness.pc = "model" /\ harness.open = {}) \/ (harness.format = "codex" /\ harness.pc = "tools")
        BY <1>14 DEF EndTurn
    <2>2. PICK kind \in IF harness.format = "codex" THEN {"turn.completed", "turn.failed"} ELSE {"result"} :
             Writes(Plain(kind), [harness EXCEPT !.pc = pc])
        BY <1>14 DEF EndTurn
    <2>. PICK l, g : l = Plain(kind) /\ g = [harness EXCEPT !.pc = pc]
        OBVIOUS
    <2>3. Writes(l, g)
        BY <2>2
    <2>4. kind \in LineKinds /\ kind # "torn"
        BY <2>2 DEF LineKinds
    <2>5. l \in StreamLines /\ l.call = NoCall /\ l.kind = kind
        BY <1>3, <2>4
    <2>6. g = [harness EXCEPT !.pc = pc, !.msg = harness.msg, !.spoke = harness.spoke, !.open = harness.open]
        BY <1>2, <2>1 DEF HarnessStates
    <2>7. Runs([harness EXCEPT !.pc = pc, !.msg = harness.msg, !.spoke = harness.spoke, !.open = harness.open])
        <3>1. /\ harness.open \in SUBSET harness.open /\ pc \in {"idle", "model", "tools", "late", "over"}
              /\ pc \in {"idle", "over"} => harness.open = {}
              /\ pc \in {"tools", "late"} => harness.open # {}
              /\ pc = "late" => harness.format = "codex"
              /\ pc # "model"
            BY <1>2, <2>1 DEF Runs
        <3>. QED
            BY <1>2, <3>1, SameCallsRun
    <2>8. Runs(g)
        BY <2>6, <2>7, Zenon
    <2>9. /\ g.format = harness.format /\ g.script = harness.script /\ g.caps = harness.caps /\ g.begun = harness.begun
          /\ g.open = harness.open /\ g.pc = pc /\ g.spoke = harness.spoke /\ g.msg = harness.msg
        BY <1>2 DEF HarnessStates
    <2>10. WroteEnd(harness, l, g)
        BY <2>1, <2>2, <2>5, <2>9 DEF WroteEnd
    <2>11. Wrote(harness, l, g)
        BY <1>2, <2>5, <2>8, <2>9, <2>10 DEF Wrote
    <2>. QED
        BY <2>3, <2>4, <2>5, <2>11
<1>. QED
    BY <1>6, <1>7, <1>10, <1>11, <1>12, <1>13, <1>14

\* The run begins with a harness that has done nothing.
LEMMA LivedInit ==
    ASSUME StepsInit(Harnesses)
    PROVE  Lived /\ Alive
<1>1. PICK f \in Formats :
         harness \in [format : {f}, script : Scripts[f], caps : Caps,
                     pc : {"idle"}, msg : {0}, begun : {<<>>}, open : {{}}, spoke : {0}]
    BY DEF StepsInit, Harnesses
<1>2. /\ harness = [format |-> harness.format, script |-> harness.script, caps |-> harness.caps, pc |-> "idle", msg |-> 0,
                    begun |-> <<>>, open |-> {}, spoke |-> 0]
      /\ harness.format = f /\ harness.script \in Scripts[f] /\ harness.caps \in Caps
    BY <1>1
<1>3. harness.script \in AllScripts /\ harness.caps \in RunCaps
    <2>1. Caps \subseteq RunCaps
        BY StreamAssumption
    <2>. QED
        BY <1>2, <2>1 DEF AllScripts
<1>4. /\ harness.pc = "idle" /\ harness.msg = 0 /\ harness.begun = <<>> /\ harness.open = {} /\ harness.spoke = 0
    BY <1>2
<1>5. harness \in HarnessStates
    <2>. PICK s, c : s = harness.script /\ c = harness.caps
        OBVIOUS
    <2>1. harness = [format |-> f, script |-> s, caps |-> c, pc |-> "idle", msg |-> 0, begun |-> <<>>, open |-> {}, spoke |-> 0]
        BY <1>2
    <2>2. s \in AllScripts /\ c \in RunCaps /\ f \in Formats /\ <<>> \in Seq(Calls) /\ {} \in SUBSET Calls /\ 0 \in Nat
        BY <1>3
    <2>. QED
        BY <2>1, <2>2 DEF HarnessStates
<1>6. Len(harness.script) \in Nat
    <2>1. harness.script \in Seq({harness.script[n] : n \in DOMAIN harness.script})
        BY <1>2, StreamAssumption
    <2>. QED
        BY <2>1
<1>7. Runs(harness)
    BY <1>2, <1>4, <1>5, <1>6 DEF Runs
<1>8. lines = <<>> /\ past = <<harness>> /\ ended.why = "no"
    BY DEF StepsInit
<1>9. Told(0) = {} /\ Answered(0) = {}
    BY DEF Told, Answered
<1>10. Was(harness, 0)
    BY <1>4, <1>7, <1>9 DEF Was, BegunBy
<1>. QED
    BY <1>4, <1>5, <1>8, <1>10 DEF Lived, Alive

\* The end of a run leaves what was seen of it, and perhaps a torn line more.
LEMMA EndsLived ==
    ASSUME Lived, NEW why \in {"exited", "cap", "timed_out"}, StreamEnds(why)
    PROVE  Lived'
<1>1. /\ Runs(harness) /\ harness \in HarnessStates /\ Alive
    BY AliveRuns DEF StreamEnds
<1>2. /\ harness = past[Len(past)] /\ harness' = [harness EXCEPT !.pc = "gone"] /\ ended'.why = why /\ ended'.at = Len(lines')
      /\ lines \in Seq(StreamLines) /\ past \in Seq(HarnessStates) /\ Len(past) = Len(lines) + 1 /\ Len(lines) \in Nat
    BY <1>1 DEF StreamEnds, Lived, Alive
<1>3. /\ harness'.pc = "gone" /\ harness'.format = harness.format /\ harness'.script = harness.script
      /\ harness'.caps = harness.caps /\ harness'.begun = harness.begun /\ harness'.spoke = harness.spoke
    BY <1>1, <1>2 DEF HarnessStates
<1>4. ASSUME NEW h, NEW k, Was(h, k), Told(k)' = Told(k), Answered(k)' = Answered(k) PROVE Was(h, k)'
    BY <1>3, <1>4 DEF Was
<1>. PICK n : n = Len(lines)
    OBVIOUS
<1>5. CASE UNCHANGED <<lines, past>>
    <2>1. \A k : Told(k)' = Told(k) /\ Answered(k)' = Answered(k)
        BY <1>5 DEF Told, Answered
    <2>2. ASSUME NEW i \in 1..Len(past) PROVE Was(past[i], i - 1)'
        <3>. PICK h, k : h = past[i] /\ k = i - 1
            OBVIOUS
        <3>1. Was(h, k)
            BY <2>2 DEF Lived
        <3>2. Was(h, k)'
            BY <1>4, <2>1, <3>1
        <3>. QED
            BY <1>5, <3>2
    <2>3. \A i \in 1..Len(past') : Was(past[i], i - 1)'
        BY <1>5, <2>2
    <2>. QED
        BY <1>2, <1>3, <1>5, <2>3 DEF Lived
<1>6. CASE lines' = Append(lines, Torn) /\ past' = Append(past, harness)
    <2>1. Torn \in StreamLines /\ Torn.kind = "torn" /\ Torn.call = NoCall
        BY DEF Torn, Plain, Line, StreamLines, LineKinds
    <2>2. /\ lines' \in Seq(StreamLines) /\ Len(lines') = n + 1 /\ n \in Nat
          /\ \A i \in 1..n : lines'[i] = lines[i]
          /\ lines'[n + 1] = Torn
          /\ \A i \in 0..n : Told(i)' = Told(i) /\ Answered(i)' = Answered(i)
          /\ \A i : i = n + 1 => Told(i)' = Told(n) /\ Answered(i)' = Answered(n)
        <3>. PICK l : l = Torn
            OBVIOUS
        <3>1. l \in StreamLines /\ lines' = Append(lines, l) /\ lines \in Seq(StreamLines)
            BY <1>2, <1>6, <2>1
        <3>2. /\ lines' \in Seq(StreamLines) /\ Len(lines') = Len(lines) + 1 /\ Len(lines) \in Nat
              /\ \A i \in 1..Len(lines) : lines'[i] = lines[i]
              /\ lines'[Len(lines) + 1] = l
              /\ \A i \in 0..Len(lines) : Told(i)' = Told(i) /\ Answered(i)' = Answered(i)
              /\ \A i : i = Len(lines) + 1 =>
                    /\ Told(i)' = Told(Len(lines)) \cup ({l.call} \ {NoCall})
                    /\ Answered(i)' = Answered(Len(lines)) \cup (IF l.kind \in {"user", "completed"} THEN {l.call} ELSE {})
            BY <3>1, LineMore
        <3>. QED
            BY <2>1, <3>2
    <2>3. /\ past' \in Seq(HarnessStates) /\ Len(past') = n + 2 /\ past'[n + 2] = harness
          /\ \A i \in 1..(n + 1) : past'[i] = past[i]
        BY <1>1, <1>2, <1>6
    <2>4. ASSUME NEW i \in 1..(n + 1) PROVE Was(past[i], i - 1)'
        <3>. PICK h, k : h = past[i] /\ k = i - 1
            OBVIOUS
        <3>1. Was(h, k) /\ k \in 0..n
            BY <1>2, <2>4 DEF Lived
        <3>2. Was(h, k)'
            BY <1>4, <2>2, <3>1
        <3>. QED
            BY <2>3, <3>2
    <2>5. Was(past[n + 2], n + 1)'
        <3>. PICK h, k : h = harness /\ k = n + 1
            OBVIOUS
        <3>1. h = past[n + 1] /\ n + 1 \in 1..Len(past) /\ n + 1 - 1 = n
            BY <1>2
        <3>2. Was(h, n)
            BY <3>1 DEF Lived
        <3>3. Was(h, k)'
            BY <1>3, <2>2, <3>2 DEF Was
        <3>. QED
            BY <2>3, <3>3
    <2>6. \A i \in 1..(n + 2) : Was(past[i], i - 1)'
        BY <2>2, <2>4, <2>5
    <2>7. Wrote(harness, Torn, harness)
        BY <1>1, <2>1 DEF Wrote, WroteNothingNew
    <2>8. ASSUME NEW i \in 1..(n + 1)
          PROVE  Wrote(past'[i], lines'[i], past'[i + 1]) /\ (lines'[i].kind = "torn" => lines'[i] = Torn)
        <3>1. CASE i \in 1..n
            BY <1>2, <2>2, <2>3, <3>1 DEF Lived
        <3>2. CASE i = n + 1
            BY <1>2, <2>2, <2>3, <2>7, <3>2, SMTT(60)
        <3>. QED
            BY <2>2, <3>1, <3>2
    <2>9. /\ past'[1].begun = <<>> /\ past'[1].open = {} /\ past'[1].spoke = 0 /\ past'[1].pc = "idle"
        BY <2>2, <2>3 DEF Lived
    <2>10. harness' = [past'[Len(past')] EXCEPT !.pc = "gone"]
        BY <1>2, <2>3
    <2>. QED
        BY <1>2, <1>3, <2>2, <2>3, <2>6, <2>8, <2>9, <2>10 DEF Lived
<1>. QED
    BY <1>5, <1>6 DEF StreamEnds

\* What was seen of the run is kept by every step.
LEMMA LivedStep ==
    ASSUME Lived, [StepsNext]_stepVars
    PROVE  Lived'
<1>1. CASE BeginTurn \/ Say \/ AskFor \/ TellOf \/ (\E c \in harness.open : Answer(c)) \/ Chatter \/ Think \/ EndTurn
    BY <1>1, HarnessWrites, WritesMore
<1>2. CASE HarnessExits \/ CapStops \/ LimitStops
    BY <1>2, EndsLived DEF HarnessExits, CapStops, LimitStops
<1>3. CASE ReadLine \/ ReplayLine \/ UNCHANGED stepVars
    <2>1. UNCHANGED <<harness, lines, past>> /\ ended' = ended
        BY <1>3 DEF ReadLine, ReplayLine, stepVars
    <2>2. \A k : Told(k)' = Told(k) /\ Answered(k)' = Answered(k)
        BY <2>1 DEF Told, Answered
    <2>3. \A i \in 1..Len(past) : Was(past[i], i - 1)'
        <3>. TAKE i \in 1..Len(past)
        <3>. PICK h, k : h = past[i] /\ k = i - 1
            OBVIOUS
        <3>1. Was(h, k)
            BY DEF Lived
        <3>2. Was(h, k)'
            BY <2>1, <2>2, <3>1 DEF Was
        <3>. QED
            BY <2>1, <3>2
    <2>4. \A i \in 1..Len(past') : Was(past[i], i - 1)'
        BY <2>1, <2>3
    <2>. QED
        BY <2>1, <2>4 DEF Lived
<1>. QED
    BY <1>1, <1>2, <1>3 DEF StepsNext

------------------------------------------------------------------------------
(* What is read of the lines *)

\* While it runs, its reader knows what the harness did up to the line it has read; and
\* no cap is crossed by calls the harness did not make.
Followed ==
    /\ stamps \in Seq(Nat) /\ Len(stamps) <= Len(lines)
    /\ \A n \in DOMAIN stamps : stamps[n] <= Now
    /\ \A m, n \in DOMAIN stamps : m <= n => stamps[m] <= stamps[n]
    /\ Follows(live, past[Len(stamps) + 1]) /\ live.last <= Now
    /\ crossed => \/ harness.caps.tools # 0 /\ Len(harness.begun) > harness.caps.tools
                  \/ harness.caps.turns # 0 /\ harness.spoke > harness.caps.turns

\* What a step of the run adds takes nothing away.
LEMMA NothingIsForgotten ==
    ASSUME Lived, [StepsNext]_stepVars
    PROVE  /\ Len(lines) \in Nat /\ Len(lines') \in Nat /\ Len(lines) <= Len(lines')
           /\ Len(past) = Len(lines) + 1 /\ Len(past') = Len(lines') + 1
           /\ \A n \in 1..Len(lines) : lines'[n] = lines[n]
           /\ \A n \in 1..(Len(lines) + 1) : past'[n] = past[n]
           /\ harness'.format = harness.format /\ harness'.script = harness.script /\ harness'.caps = harness.caps
           /\ Len(harness.begun) \in Nat /\ Len(harness'.begun) \in Nat /\ Len(harness.begun) <= Len(harness'.begun)
           /\ harness.spoke \in Nat /\ harness'.spoke \in Nat /\ harness.spoke <= harness'.spoke
           /\ Now \in Nat /\ Now' \in Nat /\ Now <= Now'
           /\ ended.why # "no" => UNCHANGED <<lines, past, ended, harness>>
<1>. PICK n : n = Len(lines)
    OBVIOUS
<1>1. Lived'
    BY LivedStep
<1>2. /\ lines \in Seq(StreamLines) /\ past \in Seq(HarnessStates) /\ Len(past) = Len(lines) + 1 /\ Len(lines) \in Nat
      /\ lines' \in Seq(StreamLines) /\ past' \in Seq(HarnessStates) /\ Len(past') = Len(lines') + 1 /\ Len(lines') \in Nat
      /\ harness.pc = "gone" <=> ended.why # "no"
    BY <1>1 DEF Lived
<1>3. /\ Was(past[n + 1], n)
      /\ harness.format = past[n + 1].format /\ harness.script = past[n + 1].script /\ harness.caps = past[n + 1].caps
      /\ harness.begun = past[n + 1].begun /\ harness.spoke = past[n + 1].spoke
    <2>1. n + 1 \in 1..Len(past) /\ n + 1 - 1 = n /\ Len(past) = n + 1
        BY <1>2
    <2>2. Was(past[n + 1], n)
        BY <2>1 DEF Lived
    <2>3. past[n + 1] \in HarnessStates
        BY <1>2, <2>1
    <2>4. harness = past[n + 1] \/ harness = [past[n + 1] EXCEPT !.pc = "gone"]
        BY <2>1 DEF Lived
    <2>. QED
        BY <2>2, <2>3, <2>4 DEF HarnessStates
<1>4. \/ \E l, g : /\ lines' = Append(lines, l) /\ past' = Append(past, g) /\ harness' = g /\ ended' = ended
                   /\ ended.why = "no"
      \/ /\ lines' = lines /\ past' = past /\ harness' = harness /\ ended' = ended
      \/ /\ \/ lines' = lines /\ past' = past
            \/ lines' = Append(lines, Torn) /\ past' = Append(past, harness)
         /\ harness' = [harness EXCEPT !.pc = "gone"] /\ ended.why = "no" /\ ended'.why # "no"
    <2>1. CASE BeginTurn \/ Say \/ AskFor \/ TellOf \/ (\E c \in harness.open : Answer(c)) \/ Chatter \/ Think \/ EndTurn
        <3>1. PICK l, g : Writes(l, g)
            BY <2>1, HarnessWrites
        <3>. QED
            BY <1>2, <3>1 DEF Writes, MayWrite, Alive
    <2>2. CASE HarnessExits \/ CapStops \/ LimitStops
        <3>1. PICK why \in {"exited", "cap", "timed_out"} : StreamEnds(why)
            BY <2>2 DEF HarnessExits, CapStops, LimitStops
        <3>. QED
            BY <1>2, <3>1 DEF StreamEnds, Alive
    <2>3. CASE ReadLine \/ ReplayLine \/ UNCHANGED stepVars
        BY <2>3 DEF ReadLine, ReplayLine, stepVars
    <2>. QED
        BY <2>1, <2>2, <2>3 DEF StepsNext
<1>5. /\ Len(lines) <= Len(lines')
      /\ \A i \in 1..Len(lines) : lines'[i] = lines[i]
      /\ \A i \in 1..(Len(lines) + 1) : past'[i] = past[i]
      /\ ended.why # "no" => UNCHANGED <<lines, past, ended, harness>>
    BY <1>2, <1>4
<1>6. PICK m : m = Len(lines')
    OBVIOUS
<1>7. /\ harness'.format = past'[m + 1].format /\ harness'.script = past'[m + 1].script /\ harness'.caps = past'[m + 1].caps
      /\ harness'.begun = past'[m + 1].begun /\ harness'.spoke = past'[m + 1].spoke /\ past'[m + 1] \in HarnessStates
    <2>1. m + 1 \in 1..Len(past') /\ Len(past') = m + 1
        BY <1>2, <1>6
    <2>2. past'[m + 1] \in HarnessStates
        BY <1>2, <2>1
    <2>3. harness' = past'[m + 1] \/ harness' = [past'[m + 1] EXCEPT !.pc = "gone"]
        BY <1>1, <2>1 DEF Lived
    <2>. QED
        BY <2>2, <2>3 DEF HarnessStates
<1>8. /\ past'[n + 1].format = harness'.format /\ past'[n + 1].script = harness'.script /\ past'[n + 1].caps = harness'.caps
      /\ Len(past'[n + 1].begun) <= Len(harness'.begun) /\ past'[n + 1].spoke <= harness'.spoke
    <2>1. n + 1 \in 1..Len(past')
        BY <1>2, <1>5
    <2>2. Was(past[n + 1], n + 1 - 1)'
        BY <1>1, <2>1 DEF Lived
    <2>. QED
        BY <2>2 DEF Was
<1>9. past'[n + 1] = past[n + 1]
    BY <1>2, <1>5
<1>10. /\ Len(harness.begun) \in Nat /\ harness.spoke \in Nat /\ Len(harness'.begun) \in Nat /\ harness'.spoke \in Nat
    BY <1>3, <1>7 DEF Was, Runs, HarnessStates
<1>11. Now \in Nat /\ Now' \in Nat /\ Now <= Now'
    <2>1. ended.why # "no" => ended' = ended
        BY <1>5
    <2>. QED
        BY <1>2, <1>5, <2>1 DEF Now
<1>. QED
    BY <1>2, <1>3, <1>5, <1>8, <1>9, <1>10, <1>11

\* Who has read nothing knows a harness that has done nothing.
LEMMA NewFollows ==
    ASSUME NEW h, Runs(h), h.begun = <<>>, h.open = {}, h.spoke = 0, h.pc = "idle"
    PROVE  Follows(NewBuilder, h) /\ NewBuilder.last = 0 /\ Used(NewBuilder) = 0
<1>1. /\ NewBuilder.steps = <<>> /\ NewBuilder.tools = {} /\ NewBuilder.turn = <<>> /\ NewBuilder.codex = <<>>
      /\ NewBuilder.last = 0
    BY DEF NewBuilder
<1>2. <<>> \in Seq(StepSpans) /\ DOMAIN <<>> = {} /\ {} \in SUBSET ToolSpans /\ Len(<<>>) = 0
    OBVIOUS
<1>3. NewBuilder \in Builders
    BY <1>2 DEF NewBuilder, Builders
<1>4. IsFiniteSet({}) /\ Cardinality({}) = 0
    BY FS_EmptySet
<1>. PICK b : b = NewBuilder
    OBVIOUS
<1>5. /\ b.steps = <<>> /\ b.tools = {} /\ b.turn = <<>> /\ b.codex = <<>> /\ b.last = 0 /\ b \in Builders
    BY <1>1, <1>3
<1>6. ToolSteps(b.steps) = {} /\ ChatSteps(b.steps) = {} /\ UsedSteps(b.steps) = {} /\ DOMAIN b.steps = {}
    BY <1>2, <1>5 DEF ToolSteps, ChatSteps, UsedSteps
<1>7. Whole(b)
    BY <1>4, <1>5, <1>6 DEF Whole, OpenOnce, NotCut
<1>8. ToolCalls(b) = 0 /\ ModelCalls(b) = 0 /\ Used(b) = 0
    <2>1. ToolCalls(b) = Cardinality({}) + Cardinality({})
        BY <1>5, <1>6 DEF ToolCalls
    <2>2. ModelCalls(b) = Cardinality({}) + Len(<<>>)
        BY <1>5, <1>6 DEF ModelCalls
    <2>3. Used(b) = Cardinality({}) + 0
        BY <1>5, <1>6 DEF Used
    <2>. QED
        BY <1>2, <1>4, <2>1, <2>2, <2>3
<1>9. InTurn(b) /\ Apart(b) /\ Timed(b, 0) /\ Pins(b)
    BY <1>5, <1>6 DEF InTurn, Apart, Timed, Pins
<1>10. OpenIds(b) = Ids(h.open) /\ Len(h.begun) = 0
    BY <1>2, <1>5 DEF OpenIds, Ids
<1>11. Knows(b, h)
    BY <1>5, <1>7, <1>8, <1>9, <1>10 DEF Knows
<1>. QED
    BY <1>5, <1>8, <1>9, <1>11 DEF Follows

\* A cap is crossed by calls that were made.
LEMMA CapIsCrossed ==
    ASSUME NEW b, NEW h, Knows(b, h), Runs(h), NEW k \in Nat, NEW s \in Nat, Len(h.begun) <= k, h.spoke <= s,
           harness.caps \in RunCaps, Watched(b)
    PROVE  \/ harness.caps.tools # 0 /\ k > harness.caps.tools
           \/ harness.caps.turns # 0 /\ s > harness.caps.turns
<1>1. ToolCalls(b) = Len(h.begun) /\ ModelCalls(b) = h.spoke /\ Len(h.begun) \in Nat /\ h.spoke \in Nat
    BY DEF Knows, Runs, HarnessStates
<1>. PICK c : c = IF harness.format = "claude" THEN [harness.caps EXCEPT !.turns = 0] ELSE harness.caps
    OBVIOUS
<1>2. /\ c.tools = harness.caps.tools /\ c.turns \in {0, harness.caps.turns}
      /\ harness.caps.tools \in Nat /\ harness.caps.turns \in Nat
    BY DEF RunCaps
<1>3. PastCap(b, c)
    BY DEF Watched
<1>. QED
    BY <1>1, <1>2, <1>3 DEF PastCap

\* What was heard of the run is kept by every step.
LEMMA HeardStep ==
    ASSUME Lived, Followed, [StepsNext]_stepVars
    PROVE  Followed'
<1>1. /\ Len(lines) \in Nat /\ Len(lines') \in Nat /\ Len(lines) <= Len(lines')
      /\ Len(past) = Len(lines) + 1 /\ Len(past') = Len(lines') + 1
      /\ \A i \in 1..Len(lines) : lines'[i] = lines[i]
      /\ \A i \in 1..(Len(lines) + 1) : past'[i] = past[i]
      /\ harness'.format = harness.format /\ harness'.caps = harness.caps
      /\ Len(harness.begun) \in Nat /\ Len(harness'.begun) \in Nat /\ Len(harness.begun) <= Len(harness'.begun)
      /\ harness.spoke \in Nat /\ harness'.spoke \in Nat /\ harness.spoke <= harness'.spoke
      /\ Now \in Nat /\ Now' \in Nat /\ Now <= Now'
    BY NothingIsForgotten
<1>. PICK n : n = Len(stamps)
    OBVIOUS
<1>2. /\ stamps \in Seq(Nat) /\ n <= Len(lines) /\ n \in Nat /\ DOMAIN stamps = 1..n
      /\ \A i \in DOMAIN stamps : stamps[i] <= Now /\ stamps[i] \in Nat
      /\ \A i, j \in DOMAIN stamps : i <= j => stamps[i] <= stamps[j]
      /\ Follows(live, past[n + 1]) /\ live.last <= Now /\ live.last \in Nat
    <2>1. live.last \in Nat
        BY DEF Followed, Follows, Knows, Whole, Builders
    <2>. QED
        BY <2>1 DEF Followed
<1>3. harness.caps \in RunCaps
    <2>1. \A i \in 1..Len(past) : Was(past[i], i - 1)
        BY DEF Lived
    <2>2. Len(lines) + 1 \in 1..Len(past)
        BY <1>1
    <2>3. Was(past[Len(lines) + 1], Len(lines) + 1 - 1)
        BY <2>1, <2>2
    <2>. QED
        BY <2>3 DEF Was, Runs, HarnessStates
<1>4. harness'.caps.tools \in Nat /\ harness'.caps.turns \in Nat
    BY <1>1, <1>3 DEF RunCaps
<1>5. CASE ReadLine
    <2>1. /\ n < Len(lines) /\ stamps' = Append(stamps, Now) /\ live' = Observe(live, lines[n + 1], Now)
          /\ crossed' = (crossed \/ Watched(live')) /\ UNCHANGED <<harness, lines, ended, past>>
        BY <1>5 DEF ReadLine
    <2>2. Now' = Now
        BY <2>1 DEF Now
    <2>3. /\ stamps' \in Seq(Nat) /\ Len(stamps') = n + 1 /\ DOMAIN stamps' = 1..(n + 1)
          /\ \A i \in 1..n : stamps'[i] = stamps[i]
          /\ stamps'[n + 1] = Now
        BY <1>1, <1>2, <2>1
    <2>4. /\ \A i \in DOMAIN stamps' : stamps'[i] <= Now'
          /\ \A i, j \in DOMAIN stamps' : i <= j => stamps'[i] <= stamps'[j]
        <3>1. \A i \in 1..(n + 1) : i = n + 1 \/ i \in 1..n
            BY <1>2
        <3>2. ASSUME NEW i \in 1..(n + 1) PROVE stamps'[i] <= Now /\ stamps'[i] \in Nat
            <4>1. CASE i = n + 1
                BY <1>1, <2>3, <4>1
            <4>2. CASE i \in 1..n
                <5>1. stamps[i] <= Now /\ stamps[i] \in Nat /\ stamps'[i] = stamps[i]
                    BY <1>2, <2>3, <4>2
                <5>. QED
                    BY <5>1
            <4>. QED
                BY <3>1, <4>1, <4>2
        <3>3. ASSUME NEW i \in 1..(n + 1), NEW j \in 1..(n + 1), i <= j PROVE stamps'[i] <= stamps'[j]
            <4>1. CASE j = n + 1
                BY <2>3, <3>2, <4>1
            <4>2. CASE j \in 1..n /\ i \in 1..n
                BY <1>2, <2>3, <3>3, <4>2
            <4>. QED
                BY <1>2, <3>1, <3>3, <4>1, <4>2
        <3>. QED
            BY <2>2, <2>3, <3>2, <3>3
    <2>5. /\ Wrote(past[n + 1], lines[n + 1], past[n + 2]) /\ (lines[n + 1].kind = "torn" => lines[n + 1] = Torn)
          /\ past[n + 1].format = harness.format
        <3>1. n + 1 \in 1..Len(lines) /\ n + 1 \in 1..Len(past)
            BY <1>1, <1>2, <2>1
        <3>2. Was(past[n + 1], n + 1 - 1)
            BY <3>1 DEF Lived
        <3>3. n + 1 + 1 = n + 2
            BY <1>2
        <3>. QED
            BY <3>1, <3>2, <3>3 DEF Was, Lived
    <2>. PICK b, h, l, g, at : b = live /\ h = past[n + 1] /\ l = lines[n + 1] /\ g = past[n + 2] /\ at = Now
        OBVIOUS
    <2>6. Follows(b, h) /\ Wrote(h, l, g) /\ h.format = harness.format /\ (l.kind = "torn" => l = Torn) /\ at \in Nat /\ b.last <= at
        BY <1>1, <1>2, <2>5
    <2>7. Follows(live', past'[n + 2]) /\ live'.last <= Now'
        <3>1. Follows(Observe(b, l, at), g) /\ Observe(b, l, at).last <= at
            BY <2>6, ObserveFollows
        <3>. QED
            BY <2>1, <2>2, <3>1
    <2>8. Was(past[n + 2], n + 1)
        <3>1. n + 2 \in 1..Len(past) /\ n + 2 - 1 = n + 1
            BY <1>1, <1>2, <2>1
        <3>2. \A i \in 1..Len(past) : Was(past[i], i - 1)
            BY DEF Lived
        <3>3. Was(past[n + 2], n + 2 - 1)
            BY <3>1, <3>2
        <3>. QED
            BY <3>1, <3>3
    <2>9. Watched(live') => \/ harness.caps.tools # 0 /\ Len(harness.begun) > harness.caps.tools
                            \/ harness.caps.turns # 0 /\ harness.spoke > harness.caps.turns
        <3>. PICK x, k, s : x = live' /\ k = Len(harness.begun) /\ s = harness.spoke
            OBVIOUS
        <3>1. Knows(x, g) /\ Runs(g) /\ k \in Nat /\ s \in Nat /\ Len(g.begun) <= k /\ g.spoke <= s
            BY <1>1, <2>1, <2>7, <2>8 DEF Follows, Was
        <3>. QED
            BY <1>3, <3>1, CapIsCrossed
    <2>10. crossed' => \/ harness.caps.tools # 0 /\ Len(harness.begun) > harness.caps.tools
                       \/ harness.caps.turns # 0 /\ harness.spoke > harness.caps.turns
        BY <2>1, <2>9 DEF Followed
    <2>11. Len(stamps') <= Len(lines') /\ Len(stamps') + 1 = n + 2
        BY <1>1, <1>2, <2>1, <2>3
    <2>. QED
        BY <2>1, <2>3, <2>4, <2>7, <2>10, <2>11 DEF Followed
<1>6. CASE UNCHANGED <<stamps, live, crossed>>
    <2>1. past'[n + 1] = past[n + 1] /\ n <= Len(lines')
        <3>. PICK k, k2 : k = Len(lines) /\ k2 = Len(lines')
            OBVIOUS
        <3>1. k \in Nat /\ k2 \in Nat /\ k <= k2 /\ n \in Nat /\ n <= k
            BY <1>1, <1>2
        <3>2. n + 1 \in 1..(k + 1) /\ n <= k2
            BY <3>1
        <3>3. \A i \in 1..(k + 1) : past'[i] = past[i]
            BY <1>1
        <3>. QED
            BY <3>2, <3>3
    <2>2. live'.last <= Now' /\ \A i \in DOMAIN stamps : stamps[i] <= Now'
        BY <1>1, <1>2, <1>6
    <2>3. crossed' => \/ harness'.caps.tools # 0 /\ Len(harness'.begun) > harness'.caps.tools
                      \/ harness'.caps.turns # 0 /\ harness'.spoke > harness'.caps.turns
        <3>. SUFFICES ASSUME crossed' PROVE \/ harness'.caps.tools # 0 /\ Len(harness'.begun) > harness'.caps.tools
                                            \/ harness'.caps.turns # 0 /\ harness'.spoke > harness'.caps.turns
            OBVIOUS
        <3>1. \/ harness.caps.tools # 0 /\ Len(harness.begun) > harness.caps.tools
              \/ harness.caps.turns # 0 /\ harness.spoke > harness.caps.turns
            BY <1>6 DEF Followed
        <3>. PICK c, k1, k2, s1, s2 : /\ c = harness.caps /\ k1 = Len(harness.begun) /\ k2 = Len(harness'.begun)
                                      /\ s1 = harness.spoke /\ s2 = harness'.spoke
            OBVIOUS
        <3>2. /\ c.tools \in Nat /\ c.turns \in Nat /\ k1 \in Nat /\ k2 \in Nat /\ s1 \in Nat /\ s2 \in Nat
              /\ k1 <= k2 /\ s1 <= s2 /\ harness'.caps = c
            BY <1>1, <1>4
        <3>3. CASE harness.caps.tools # 0 /\ Len(harness.begun) > harness.caps.tools
            BY <3>2, <3>3
        <3>4. CASE harness.caps.turns # 0 /\ harness.spoke > harness.caps.turns
            BY <3>2, <3>4
        <3>. QED
            BY <3>1, <3>3, <3>4
    <2>. QED
        BY <1>2, <1>6, <2>1, <2>2, <2>3 DEF Followed
<1>7. ReadLine \/ UNCHANGED <<stamps, live, crossed>>
    BY DEF StepsNext, BeginTurn, Say, AskFor, TellOf, Answer, Chatter, Think, EndTurn, Writes,
           HarnessExits, CapStops, LimitStops, StreamEnds, ReplayLine, stepVars
<1>. QED
    BY <1>5, <1>6, <1>7

------------------------------------------------------------------------------
(* What is read again when the run is over *)

\* The calls begun by h that events.json tells of.
Shown(h) == {c \in BegunBy(h) :
               h.format = "codex" =>
                  c.tool \in {"command_execution", "file_change"} /\ ~h.script[c.id].finishedOnly}

\* Events tell of calls in the order they were begun.
Ordered(events) == \A m, n \in DOMAIN events : m < n => events[m].id < events[n].id

EndsRead(n) == {i \in 1..n : lines[i].kind = "turn.completed"}

\* The readers of what was captured know what the harness did up to the line they read.
Replayed ==
    /\ replay.read \in 0..Len(lines) /\ ended.at \in Nat
    /\ replay.read > 0 => ReadToEnd
    /\ Follows(replay.spans, past[replay.read + 1]) /\ Follows(replay.plain, past[replay.read + 1])
    /\ replay.plain.last = 0 /\ replay.spans.last <= ended.at
    /\ replay.read = 0 => replay.spans.last = 0
    /\ \A n \in DOMAIN stamps : n > replay.read => replay.spans.last <= Clamped(stamps[n])
    /\ harness.format = "codex" => Used(replay.spans) = Cardinality(EndsRead(replay.read))
    /\ replay.events \in Seq(Calls) /\ Ordered(replay.events)
    /\ {replay.events[n] : n \in DOMAIN replay.events} = Shown(past[replay.read + 1])

\* A line that reports a call begins one that was not begun before.
LEMMA EventsMore ==
    ASSUME NEW h, NEW l, NEW g, Wrote(h, l, g), h.format = harness.format
    PROVE  /\ Reported(l) => /\ l.call \in Calls /\ l.call.id = Len(h.begun) + 1
                             /\ Shown(g) = Shown(h) \cup {l.call}
           /\ ~Reported(l) => Shown(g) = Shown(h)
           /\ \A c \in Shown(h) : c.id \in Nat /\ c.id < Len(h.begun) + 1
<1>1. /\ Runs(h) /\ Runs(g) /\ l \in StreamLines /\ h.begun \in Seq(Calls) /\ g.begun \in Seq(Calls) /\ Len(h.begun) \in Nat
      /\ g.format = h.format /\ g.script = h.script
    BY DEF Wrote, Runs, HarnessStates
<1>2. \A c \in Calls : c # NoCall
    BY CallsAreNumbered
<1>3. h.format \in {"claude", "cursor", "codex"}
    <2>1. Formats \subseteq {"claude", "cursor", "codex"}
        BY StreamAssumption DEF StreamFormats
    <2>. QED
        BY <1>1, <2>1 DEF Runs, HarnessStates
<1>4. g.begun = h.begun => Shown(g) = Shown(h)
    BY <1>1 DEF Shown, BegunBy
<1>5. \A c \in Shown(h) : c.id \in Nat /\ c.id < Len(h.begun) + 1
    <2>. SUFFICES ASSUME NEW n \in DOMAIN h.begun PROVE h.begun[n].id \in Nat /\ h.begun[n].id < Len(h.begun) + 1
        BY DEF Shown, BegunBy
    <2>1. h.begun[n] = CallOf(h.script, n)
        BY <1>1 DEF Runs
    <2>2. n \in 1..Len(h.begun)
        BY <1>1
    <2>. QED
        BY <1>1, <2>1, <2>2 DEF CallOf
<1>6. ASSUME l.call = NextOf(h), Len(h.begun) < Len(h.script), g.begun = Append(h.begun, l.call)
      PROVE  /\ l.call \in Calls /\ l.call.id = Len(h.begun) + 1 /\ l.call # NoCall
             /\ Shown(g) = Shown(h) \cup {c \in {l.call} : h.format = "codex" =>
                              c.tool \in {"command_execution", "file_change"} /\ ~h.script[c.id].finishedOnly}
    <2>1. l.call \in Calls /\ l.call.id = Len(h.begun) + 1
        BY <1>1, <1>6, NextIsCall
    <2>2. DOMAIN g.begun = DOMAIN h.begun \cup {Len(h.begun) + 1}
        BY <1>1, <1>6, <2>1
    <2>3. (\A n \in DOMAIN h.begun : g.begun[n] = h.begun[n]) /\ g.begun[Len(h.begun) + 1] = l.call
        BY <1>1, <1>6, <2>1
    <2>4. BegunBy(g) = BegunBy(h) \cup {l.call}
        BY <2>2, <2>3 DEF BegunBy
    <2>. QED
        BY <1>1, <1>2, <2>1, <2>4 DEF Shown
<1>7. CASE l.call = NoCall
    <2>1. ~Reported(l)
        BY <1>7 DEF Reported
    <2>2. g.begun = h.begun
        <3>1. ~WroteRequest(h, l, g) /\ ~WroteReport(h, l, g) /\ ~WroteAnswer(h, l, g)
            <4>1. Len(h.begun) < Len(h.script) => NextOf(h) \in Calls
                BY <1>1, NextIsCall
            <4>2. h.open \subseteq Calls
                BY <1>1 DEF Runs, HarnessStates
            <4>. QED
                BY <1>2, <1>7, <4>1, <4>2 DEF WroteRequest, WroteReport, WroteAnswer
        <3>. QED
            BY <3>1 DEF Wrote, WroteNothingNew, WroteTurn, WroteText, WroteEnd
    <2>. QED
        BY <1>4, <1>5, <2>1, <2>2
<1>8. CASE WroteRequest(h, l, g)
    <2>1. /\ l.call = NextOf(h) /\ Len(h.begun) < Len(h.script) /\ g.begun = Append(h.begun, l.call)
          /\ ~h.script[Len(h.begun) + 1].finishedOnly
          /\ h.format = "claude" => l.kind = "assistant"
          /\ h.format # "claude" => l.kind = "started"
        BY <1>8 DEF WroteRequest
    <2>2. /\ l.call \in Calls /\ l.call.id = Len(h.begun) + 1 /\ l.call # NoCall
          /\ Shown(g) = Shown(h) \cup {c \in {l.call} : h.format = "codex" =>
                           c.tool \in {"command_execution", "file_change"} /\ ~h.script[c.id].finishedOnly}
        BY <1>6, <2>1
    <2>3. Reported(l) <=> (h.format = "codex" => l.call.tool \in {"command_execution", "file_change"})
        BY <1>3, <2>1, <2>2 DEF Reported
    <2>. QED
        BY <1>5, <2>1, <2>2, <2>3
<1>9. CASE WroteReport(h, l, g)
    <2>1. /\ l.call = NextOf(h) /\ Len(h.begun) < Len(h.script) /\ g.begun = Append(h.begun, l.call)
          /\ h.script[Len(h.begun) + 1].finishedOnly /\ h.format = "codex" /\ l.kind = "completed"
        BY <1>9 DEF WroteReport
    <2>2. /\ l.call.id = Len(h.begun) + 1
          /\ Shown(g) = Shown(h) \cup {c \in {l.call} : h.format = "codex" =>
                           c.tool \in {"command_execution", "file_change"} /\ ~h.script[c.id].finishedOnly}
        BY <1>6, <2>1
    <2>3. ~Reported(l)
        BY <2>1 DEF Reported
    <2>. QED
        BY <1>5, <2>1, <2>2, <2>3
<1>10. CASE WroteAnswer(h, l, g)
    <2>1. ~Reported(l)
        BY <1>3, <1>10 DEF WroteAnswer, Reported
    <2>. QED
        BY <1>4, <1>5, <1>10, <2>1 DEF WroteAnswer
<1>. QED
    BY <1>7, <1>8, <1>9, <1>10 DEF Wrote, WroteNothingNew, WroteTurn, WroteText, WroteEnd

\* A line that ends a turn is one more of them.
LEMMA EndsMore ==
    ASSUME lines \in Seq(StreamLines), NEW n \in Nat, n < Len(lines)
    PROVE  /\ IsFiniteSet(EndsRead(n)) /\ Cardinality(EndsRead(n)) \in Nat
           /\ Cardinality(EndsRead(n + 1)) = Cardinality(EndsRead(n)) + (IF lines[n + 1].kind = "turn.completed" THEN 1 ELSE 0)
<1>1. IsFiniteSet(1..n)
    BY FS_Interval
<1>2. IsFiniteSet(EndsRead(n)) /\ Cardinality(EndsRead(n)) \in Nat
    <2>1. EndsRead(n) \subseteq 1..n
        BY DEF EndsRead
    <2>. QED
        BY <1>1, <2>1, FS_Subset, FS_CardinalityType
<1>3. EndsRead(n + 1) = EndsRead(n) \cup (IF lines[n + 1].kind = "turn.completed" THEN {n + 1} ELSE {})
    <2>1. 1..(n + 1) = 1..n \cup {n + 1}
        OBVIOUS
    <2>. QED
        BY <2>1 DEF EndsRead
<1>4. n + 1 \notin EndsRead(n)
    BY DEF EndsRead
<1>5. CASE lines[n + 1].kind = "turn.completed"
    <2>1. EndsRead(n + 1) = EndsRead(n) \cup {n + 1}
        BY <1>3, <1>5
    <2>2. Cardinality(EndsRead(n) \cup {n + 1}) = Cardinality(EndsRead(n)) + 1
        BY <1>2, <1>4, FS_AddElement
    <2>. QED
        BY <1>2, <1>5, <2>1, <2>2
<1>6. CASE lines[n + 1].kind # "turn.completed"
    <2>1. EndsRead(n + 1) = EndsRead(n)
        BY <1>3, <1>6
    <2>. QED
        BY <1>2, <1>6, <2>1
<1>. QED
    BY <1>2, <1>5, <1>6

\* The readers begin with nothing.
LEMMA ReadInit ==
    ASSUME StepsInit(Harnesses)
    PROVE  Followed /\ Replayed
<1>1. Lived /\ Alive
    BY LivedInit
<1>2. /\ lines = <<>> /\ stamps = <<>> /\ live = NewBuilder /\ crossed = FALSE /\ ended = [why |-> "no", at |-> 0]
      /\ replay = NewReplay /\ past = <<harness>>
    BY DEF StepsInit
<1>3. /\ replay.read = 0 /\ replay.spans = NewBuilder /\ replay.plain = NewBuilder /\ replay.events = <<>>
      /\ ended.why = "no" /\ ended.at = 0 /\ Len(lines) = 0 /\ Len(stamps) = 0
    BY <1>2 DEF NewReplay
<1>. PICK h : h = past[1]
    OBVIOUS
<1>4. /\ Runs(h) /\ h.begun = <<>> /\ h.open = {} /\ h.spoke = 0 /\ h.pc = "idle"
    <2>1. Was(past[1], 0)
        BY <1>1, <1>2 DEF Lived
    <2>. QED
        BY <1>1, <2>1 DEF Lived, Was
<1>5. Follows(NewBuilder, h) /\ NewBuilder.last = 0 /\ Used(NewBuilder) = 0
    BY <1>4, NewFollows
<1>6. Now = 0
    BY <1>3 DEF Now
<1>7. /\ DOMAIN stamps = {} /\ stamps \in Seq(Nat)
    BY <1>2
<1>8. Followed
    BY <1>2, <1>3, <1>5, <1>6, <1>7 DEF Followed
<1>9. Cardinality(EndsRead(0)) = 0
    <2>1. EndsRead(0) = {}
        BY DEF EndsRead
    <2>. QED
        BY <2>1, FS_EmptySet
<1>10. /\ replay.events \in Seq(Calls) /\ Ordered(replay.events)
       /\ {replay.events[n] : n \in DOMAIN replay.events} = Shown(h)
    <2>1. Shown(h) = {}
        BY <1>4 DEF Shown, BegunBy
    <2>2. <<>> \in Seq(Calls) /\ DOMAIN <<>> = {}
        OBVIOUS
    <2>. QED
        BY <1>3, <2>1, <2>2 DEF Ordered
<1>11. /\ replay.read \in 0..Len(lines) /\ ended.at \in Nat /\ ~(replay.read > 0) /\ replay.read + 1 = 1
       /\ replay.plain.last = 0 /\ replay.spans.last = 0 /\ replay.spans.last <= ended.at
    BY <1>3, <1>5
<1>. QED
    BY <1>3, <1>5, <1>7, <1>8, <1>9, <1>10, <1>11 DEF Replayed

\* What was read again is kept by every step.
LEMMA ReplayedStep ==
    ASSUME Lived, Followed, Replayed, [StepsNext]_stepVars
    PROVE  Replayed'
<1>1. /\ Len(lines) \in Nat /\ Len(lines') \in Nat /\ Len(lines) <= Len(lines')
      /\ Len(past) = Len(lines) + 1 /\ Len(past') = Len(lines') + 1
      /\ \A i \in 1..Len(lines) : lines'[i] = lines[i]
      /\ \A i \in 1..(Len(lines) + 1) : past'[i] = past[i]
      /\ harness'.format = harness.format
      /\ ended.why # "no" => UNCHANGED <<lines, past, ended, harness>>
    BY NothingIsForgotten
<1>2. Lived'
    BY LivedStep
<1>3. ended'.at \in Nat
    <2>1. CASE HarnessExits \/ CapStops \/ LimitStops
        <3>1. ended'.at = Len(lines')
            BY <2>1 DEF HarnessExits, CapStops, LimitStops, StreamEnds
        <3>. QED
            BY <1>1, <3>1
    <2>2. CASE ~(HarnessExits \/ CapStops \/ LimitStops)
        <3>1. ended' = ended
            BY <2>2 DEF StepsNext, BeginTurn, Say, AskFor, TellOf, Answer, Chatter, Think, EndTurn, Writes,
                        ReadLine, ReplayLine, stepVars
        <3>. QED
            BY <3>1 DEF Replayed
    <2>. QED
        BY <2>1, <2>2
<1>. PICK n : n = replay.read
    OBVIOUS
<1>4. n \in Nat /\ n <= Len(lines) /\ n + 1 \in 1..(Len(lines) + 1)
    BY <1>1 DEF Replayed
<1>5. CASE ReplayLine
    <2>. PICK b, p, h, l, g, at :
            /\ b = replay.spans /\ p = replay.plain /\ h = past[n + 1] /\ l = lines[n + 1] /\ g = past[n + 2]
            /\ at = Clamped(stamps[n + 1])
        OBVIOUS
    <2>1. /\ ReadToEnd /\ n < Len(lines) /\ UNCHANGED <<harness, lines, stamps, live, crossed, ended, past>>
          /\ replay' = [read |-> n + 1, spans |-> Observe(b, l, at), plain |-> Observe(p, l, 0),
                        events |-> IF Reported(l) THEN Append(replay.events, l.call) ELSE replay.events]
        BY <1>5 DEF ReplayLine
    <2>2. /\ replay'.read = n + 1 /\ replay'.spans = Observe(b, l, at) /\ replay'.plain = Observe(p, l, 0)
          /\ replay'.events = IF Reported(l) THEN Append(replay.events, l.call) ELSE replay.events
        BY <2>1
    <2>3. /\ n + 1 \in DOMAIN stamps /\ stamps \in Seq(Nat) /\ DOMAIN stamps = 1..Len(lines)
          /\ \A i, j \in DOMAIN stamps : i <= j => stamps[i] <= stamps[j]
        BY <1>1, <1>4, <2>1 DEF Followed, ReadToEnd
    <2>4. /\ Wrote(h, l, g) /\ (l.kind = "torn" => l = Torn) /\ h.format = harness.format
        <3>1. n + 1 \in 1..Len(lines) /\ n + 1 \in 1..Len(past) /\ n + 1 + 1 = n + 2
            BY <1>1, <1>4, <2>1
        <3>2. Was(past[n + 1], n)
            BY <1>1, <1>4, WasThen
        <3>3. Wrote(past[n + 1], lines[n + 1], past[n + 1 + 1]) /\ (lines[n + 1].kind = "torn" => lines[n + 1] = Torn)
            <4>1. \A i \in 1..Len(lines) : Wrote(past[i], lines[i], past[i + 1]) /\ (lines[i].kind = "torn" => lines[i] = Torn)
                BY DEF Lived
            <4>. QED
                BY <3>1, <4>1, Zenon
        <3>. QED
            BY <3>1, <3>2, <3>3 DEF Was
    <2>5. /\ Follows(b, h) /\ Follows(p, h) /\ p.last = 0 /\ b.last <= at /\ ended.at \in Nat
        BY <2>3 DEF Replayed
    <2>6. at \in Nat /\ at <= ended.at
        BY <2>3, <2>5 DEF Clamped
    <2>7. /\ Follows(replay'.spans, g) /\ replay'.spans.last <= at
          /\ h.format = "codex" => Used(replay'.spans) = Used(b) + (IF l.kind = "turn.completed" THEN 1 ELSE 0)
        <3>1. /\ Follows(Observe(b, l, at), g) /\ Observe(b, l, at).last <= at
              /\ h.format = "codex" => Used(Observe(b, l, at)) = Used(b) + (IF l.kind = "turn.completed" THEN 1 ELSE 0)
            BY <2>4, <2>5, <2>6, ObserveFollows
        <3>. QED
            BY <2>2, <3>1
    <2>8. Follows(replay'.plain, g) /\ replay'.plain.last <= 0
        <3>1. /\ Follows(Observe(p, l, 0), g) /\ Observe(p, l, 0).last <= 0
            BY <2>4, <2>5, ObserveFollows
        <3>. QED
            BY <2>2, <3>1
    <2>9. replay'.plain.last \in Nat /\ replay'.spans.last \in Nat
        BY <2>7, <2>8 DEF Follows, Knows, Whole, Builders
    <2>10. \A i \in DOMAIN stamps' : i > n + 1 => replay'.spans.last <= Clamped(stamps[i])'
        <3>. SUFFICES ASSUME NEW i \in DOMAIN stamps, i > n + 1 PROVE replay'.spans.last <= Clamped(stamps[i])'
            BY <2>1
        <3>1. stamps[n + 1] <= stamps[i] /\ stamps[i] \in Nat /\ stamps[n + 1] \in Nat
            <4>1. i \in Nat /\ n + 1 <= i
                BY <1>4, <2>3
            <4>2. \A j \in DOMAIN stamps : stamps[j] \in Nat
                BY <2>3
            <4>. QED
                BY <2>3, <4>1, <4>2
        <3>2. at <= Clamped(stamps[i]) /\ Clamped(stamps[i]) \in Nat
            BY <2>5, <3>1 DEF Clamped
        <3>3. Clamped(stamps[i])' = Clamped(stamps[i])
            BY <2>1 DEF Clamped
        <3>. QED
            BY <2>6, <2>7, <2>9, <3>2, <3>3
    <2>11. harness'.format = "codex" => Used(replay'.spans) = Cardinality(EndsRead(n + 1)')
        <3>1. h.format = "codex" => Used(b) = Cardinality(EndsRead(n))
            BY <2>4 DEF Replayed
        <3>2. EndsRead(n + 1)' = EndsRead(n + 1)
            BY <2>1 DEF EndsRead
        <3>3. Cardinality(EndsRead(n + 1)) = Cardinality(EndsRead(n)) + (IF l.kind = "turn.completed" THEN 1 ELSE 0)
            BY <1>4, <2>1, EndsMore DEF Lived
        <3>. QED
            BY <1>1, <2>4, <2>7, <3>1, <3>2, <3>3
    <2>12. /\ replay.events \in Seq(Calls) /\ Ordered(replay.events)
           /\ {replay.events[i] : i \in DOMAIN replay.events} = Shown(h)
        BY DEF Replayed
    <2>13. /\ replay'.events \in Seq(Calls) /\ Ordered(replay'.events)
           /\ {replay'.events[i] : i \in DOMAIN replay'.events} = Shown(g)
        <3>. PICK ev : ev = replay.events
            OBVIOUS
        <3>1. /\ Reported(l) => /\ l.call \in Calls /\ l.call.id = Len(h.begun) + 1
                                /\ Shown(g) = Shown(h) \cup {l.call}
              /\ ~Reported(l) => Shown(g) = Shown(h)
              /\ \A c \in Shown(h) : c.id \in Nat /\ c.id < Len(h.begun) + 1
            BY <2>4, EventsMore
        <3>2. CASE Reported(l)
            <4>. PICK c : c = l.call
                OBVIOUS
            <4>. PICK ev2 : ev2 = Append(ev, c)
                OBVIOUS
            <4>1. replay'.events = ev2
                BY <2>2, <3>2
            <4>2. ev \in Seq(Calls) /\ c \in Calls
                BY <2>12, <3>1, <3>2
            <4>3. /\ ev2 \in Seq(Calls) /\ Len(ev) \in Nat /\ DOMAIN ev = 1..Len(ev) /\ DOMAIN ev2 = 1..(Len(ev) + 1)
                  /\ \A i \in 1..Len(ev) : ev2[i] = ev[i]
                  /\ ev2[Len(ev) + 1] = c
                BY <4>2
            <4>4. \A i \in 1..Len(ev) : ev[i].id < c.id
                BY <2>12, <3>1, <3>2, <4>3
            <4>5. Ordered(ev2)
                BY <2>12, <4>3, <4>4 DEF Ordered
            <4>6. {ev2[i] : i \in DOMAIN ev2} = {ev[i] : i \in DOMAIN ev} \cup {c}
                <5>1. 1..(Len(ev) + 1) = 1..Len(ev) \cup {Len(ev) + 1}
                    BY <4>3
                <5>. QED
                    BY <4>3, <5>1
            <4>. QED
                BY <2>12, <3>1, <3>2, <4>1, <4>3, <4>5, <4>6
        <3>3. CASE ~Reported(l)
            BY <2>2, <2>12, <3>1, <3>3
        <3>. QED
            BY <3>2, <3>3
    <2>14. ReadToEnd'
        BY <2>1 DEF ReadToEnd
    <2>15. /\ n + 1 \in 0..Len(lines') /\ n + 1 > 0 /\ n + 1 # 0 /\ replay'.spans.last <= ended'.at /\ replay'.plain.last = 0
           /\ past'[n + 1 + 1] = g /\ n + 1 + 1 = n + 2
        <3>1. past'[n + 1 + 1] = g /\ n + 1 + 1 = n + 2
            BY <1>4, <2>1
        <3>2. replay'.spans.last <= ended'.at
            BY <2>1, <2>5, <2>6, <2>7, <2>9
        <3>3. replay'.plain.last = 0
            BY <2>8, <2>9
        <3>. QED
            BY <1>1, <1>4, <2>1, <3>1, <3>2, <3>3
    <2>. QED
        BY <1>3, <2>2, <2>7, <2>8, <2>10, <2>11, <2>13, <2>14, <2>15 DEF Replayed
<1>6. CASE UNCHANGED replay
    <2>1. n \in 0..Len(lines') /\ past'[n + 1] = past[n + 1]
        BY <1>1, <1>4
    <2>2. n > 0 => UNCHANGED <<lines, past, ended, harness, stamps>>
        <3>. SUFFICES ASSUME n > 0 PROVE UNCHANGED <<lines, past, ended, harness, stamps>>
            OBVIOUS
        <3>1. ReadToEnd
            BY DEF Replayed
        <3>2. ended.why # "no" /\ Len(stamps) = Len(lines)
            BY <3>1 DEF ReadToEnd
        <3>3. UNCHANGED stamps
            <4>1. ~ReadLine
                BY <1>1, <3>2 DEF ReadLine
            <4>. QED
                BY <4>1 DEF StepsNext, BeginTurn, Say, AskFor, TellOf, Answer, Chatter, Think, EndTurn, Writes,
                            HarnessExits, CapStops, LimitStops, StreamEnds, ReplayLine, stepVars
        <3>. QED
            BY <1>1, <3>2, <3>3
    <2>3. n > 0 => ReadToEnd'
        <3>1. n > 0 => ReadToEnd
            BY DEF Replayed
        <3>. QED
            BY <2>2, <3>1 DEF ReadToEnd
    <2>4. /\ n = 0 => replay.spans.last = 0
          /\ replay.spans.last <= ended'.at
          /\ \A i \in DOMAIN stamps' : i > n => replay.spans.last <= Clamped(stamps[i])'
        <3>1. CASE n > 0
            <4>1. UNCHANGED <<lines, past, ended, harness, stamps>>
                BY <2>2, <3>1
            <4>2. \A i : Clamped(stamps[i])' = Clamped(stamps[i])
                BY <4>1 DEF Clamped
            <4>. QED
                BY <3>1, <4>1, <4>2 DEF Replayed
        <3>2. CASE n = 0
            <4>1. replay.spans.last = 0
                BY <3>2 DEF Replayed
            <4>2. ASSUME NEW i \in DOMAIN stamps' PROVE 0 <= Clamped(stamps[i])'
                <5>1. stamps'[i] \in Nat
                    BY <4>2, HeardStep DEF Followed
                <5>. QED
                    BY <1>3, <5>1 DEF Clamped
            <4>. QED
                BY <1>3, <4>1, <4>2
        <3>. QED
            BY <1>4, <3>1, <3>2
    <2>5. EndsRead(n)' = EndsRead(n)
        BY <1>1, <1>4 DEF EndsRead
    <2>. QED
        BY <1>1, <1>3, <1>6, <2>1, <2>3, <2>4, <2>5 DEF Replayed
<1>7. ReplayLine \/ UNCHANGED replay
    BY DEF StepsNext, BeginTurn, Say, AskFor, TellOf, Answer, Chatter, Think, EndTurn, Writes,
           HarnessExits, CapStops, LimitStops, StreamEnds, ReadLine, stepVars
<1>. QED
    BY <1>5, <1>6, <1>7

------------------------------------------------------------------------------
(* What is said of the run *)

\* A case whose target could not be asked for is neither passed nor failed, whatever it is.
LEMMA UnsettledHolds == UnsettledIsNotScored
<1>. SUFFICES ASSUME NEW left \in Leavings
              PROVE  /\ ~left.transcript => \A s \in Staged, n \in BOOLEAN : SkillUsed(left, s, n) = "unsupported"
                     /\ \A c \in TextChecks \cup MadeChecks \cup JudgeChecks :
                           LET flipped == [c EXCEPT !.negate = ~@] IN
                           /\ (Evaluate(c, left) = "unsupported") = (Evaluate(flipped, left) = "unsupported")
                           /\ TargetContent(c, left) \in {"missing", "image"} /\ Evaluate(c, left) = "failed" =>
                                 Evaluate(flipped, left) # "passed"
                           /\ c.broken /\ c \in MadeChecks => Evaluate(c, left) \in {"unsupported", "authoring_error"}
    BY DEF UnsettledIsNotScored
<1>1. ~left.transcript => \A s \in Staged, n \in BOOLEAN : SkillUsed(left, s, n) = "unsupported"
    BY DEF SkillUsed, WithTranscript
<1>. SUFFICES ASSUME NEW c \in TextChecks \cup MadeChecks \cup JudgeChecks
              PROVE  LET flipped == [c EXCEPT !.negate = ~@] IN
                     /\ (Evaluate(c, left) = "unsupported") = (Evaluate(flipped, left) = "unsupported")
                     /\ TargetContent(c, left) \in {"missing", "image"} /\ Evaluate(c, left) = "failed" =>
                           Evaluate(flipped, left) # "passed"
                     /\ c.broken /\ c \in MadeChecks => Evaluate(c, left) \in {"unsupported", "authoring_error"}
    BY <1>1
<1>. PICK f : f = [c EXCEPT !.negate = ~@]
    OBVIOUS
<1>2. /\ f.kind = c.kind /\ f.target = c.target /\ f.broken = c.broken
      /\ c.kind \in {"regex", "contains", "schema", "baseline", "llm"}
      /\ c.kind \in {"regex", "contains"} <=> c \in TextChecks
      /\ c.kind \in {"schema", "baseline"} <=> c \in MadeChecks
    BY DEF TextChecks, MadeChecks, JudgeChecks
<1>3. /\ Unobservable(f, left) = Unobservable(c, left) /\ TargetContent(f, left) = TargetContent(c, left)
    BY <1>2 DEF Unobservable, TargetContent
<1>4. \A x, content : TextOutcome(x, content) \in {"failed", "authoring_error", "passed"}
                      /\ SchemaOutcome(x, content) \in {"failed", "authoring_error", "passed"}
    BY DEF TextOutcome, SchemaOutcome, FromBool
<1>5. ASSUME NEW x \in {c, f}
      PROVE  /\ Unobservable(x, left) => Evaluate(x, left) = "unsupported"
             /\ ~Unobservable(x, left) =>
                   /\ Evaluate(x, left) = IF c.kind \in {"regex", "contains"} THEN TextOutcome(x, TargetContent(c, left))
                                          ELSE IF c.kind = "schema" THEN SchemaOutcome(x, TargetContent(c, left))
                                          ELSE IF c.kind = "baseline" /\ c.broken THEN "authoring_error" ELSE "deferred"
                   /\ Evaluate(x, left) # "unsupported"
    <2>1. x.kind = c.kind /\ TargetContent(x, left) = TargetContent(c, left) /\ x.broken = c.broken
        BY <1>2, <1>3
    <2>2. Unobservable(x, left) => Evaluate(x, left) = "unsupported"
        BY DEF Evaluate
    <2>3. ASSUME ~Unobservable(x, left)
          PROVE  Evaluate(x, left) = IF c.kind \in {"regex", "contains"} THEN TextOutcome(x, TargetContent(c, left))
                                     ELSE IF c.kind = "schema" THEN SchemaOutcome(x, TargetContent(c, left))
                                     ELSE IF c.kind = "baseline" /\ c.broken THEN "authoring_error" ELSE "deferred"
        <3>1. CASE c.kind \in {"regex", "contains"}
            BY <2>1, <2>3, <3>1 DEF Evaluate
        <3>2. CASE c.kind = "schema"
            BY <2>1, <2>3, <3>2 DEF Evaluate
        <3>3. CASE c.kind = "baseline"
            BY <2>1, <2>3, <3>3 DEF Evaluate
        <3>4. CASE c.kind = "llm"
            BY <2>1, <2>3, <3>4 DEF Evaluate
        <3>. QED
            BY <1>2, <3>1, <3>2, <3>3, <3>4
    <2>. QED
        BY <1>4, <2>2, <2>3
<1>6. (Evaluate(c, left) = "unsupported") = (Evaluate(f, left) = "unsupported")
    BY <1>3, <1>5
<1>7. TargetContent(c, left) \in {"missing", "image"} /\ Evaluate(c, left) = "failed" => Evaluate(f, left) # "passed"
    <2>1. \A content : content \in {"missing", "image"} => TextOutcome(f, content) = "failed"
        BY DEF TextOutcome
    <2>2. \A content : SchemaOutcome(f, content) = SchemaOutcome(c, content)
        BY <1>2 DEF SchemaOutcome
    <2>. QED
        BY <1>3, <1>5, <2>1, <2>2
<1>8. c.broken /\ c \in MadeChecks => Evaluate(c, left) \in {"unsupported", "authoring_error"}
    <2>1. c.broken => \A content : SchemaOutcome(c, content) = "authoring_error"
        BY DEF SchemaOutcome
    <2>. QED
        BY <1>2, <1>5, <2>1
<1>. QED
    BY <1>6, <1>7, <1>8

\* The values of the calls of a run are values.
LEMMA CallsHaveValues ==
    ASSUME NEW c \in Calls, NEW v \in Values(c)
    PROVE  IsValue(v)
<1>1. PICK f \in Formats : \E s \in Scripts[f] : \E n \in DOMAIN s : c = CallOf(s, n)
    BY DEF Calls, AllScripts
<1>2. PICK s \in Scripts[f] : \E n \in DOMAIN s : c = CallOf(s, n)
    BY <1>1
<1>3. PICK n \in DOMAIN s : c = CallOf(s, n)
    BY <1>2
<1>4. c.args = s[n].args
    BY <1>3 DEF CallOf
<1>5. \A k \in DOMAIN s[n].args : IsValue(s[n].args[k])
    BY TranscriptAssumption
<1>. QED
    BY <1>4, <1>5 DEF Values

\* What a token of a call is.
LEMMA TokensAreTyped ==
    ASSUME NEW c \in Calls, NEW t \in TokensOf(c)
    PROVE  t \in Tokens /\ \E v \in Values(c) : t \in {v.tokens[i] : i \in DOMAIN v.tokens}
<1>1. PICK v \in Values(c) : t \in {v.tokens[i] : i \in DOMAIN v.tokens}
    BY DEF TokensOf
<1>2. IsValue(v)
    BY CallsHaveValues
<1>. QED
    BY <1>1, <1>2 DEF IsValue

\* The verdict on the skill, of any events whose calls are calls.
LEMMA SkillHolds ==
    ASSUME replay.events \in Seq(Calls)
    PROVE  SkillIsTheRuns
<1>1. \A n \in DOMAIN Events : Events[n] \in Calls
    BY DEF Events
<1>2. \A t \in Escapes : t.host
    BY DEF Escapes
<1>3. ASSUME NEW n \in DOMAIN Events, NEW v \in Values(Events[n]), NEW t \in WorthReading(v)
      PROVE  t \in {v.tokens[i] : i \in DOMAIN v.tokens} /\ t \in TokensOf(Events[n]) /\ (t.host => t \in HiddenHost(v))
    <2>1. t \in {v.tokens[i] : i \in DOMAIN v.tokens} /\ t \notin Escapes
        BY DEF WorthReading
    <2>2. t \in TokensOf(Events[n])
        BY <2>1 DEF TokensOf
    <2>3. ASSUME t.host PROVE t \notin Judged(v)
        <3>1. t \in Judged(v) => t \in Escapes
            BY <2>3 DEF Escapes
        <3>. QED
            BY <2>1, <3>1
    <2>. QED
        BY <2>1, <2>2, <2>3 DEF HiddenHost
<1>4. ASSUME NEW n \in DOMAIN Events, NEW t \in TokensOf(Events[n]), ~t.host
      PROVE  \E v \in Values(Events[n]) : t \in WorthReading(v)
    BY <1>1, <1>2, <1>4, TokensAreTyped DEF WorthReading
<1>5. ASSUME NEW n \in DOMAIN Events, NEW t \in TokensOf(Events[n]), t.name = SkillToken
      PROVE  ~t.host
    <2>1. t \in Tokens
        BY <1>1, TokensAreTyped
    <2>. QED
        BY <1>5, <2>1 DEF Tokens
<1>. SUFFICES ASSUME NEW staged \in Staged
              PROVE  LET Own(t) == t.dir = staged.dir /\ ~t.host
                         Native(c) == c.tool = "Skill" /\ (~staged.named \/ \E t \in TokensOf(c) : t.name = SkillToken)
                         named == \E n \in DOMAIN Events : Native(Events[n]) \/ \E t \in TokensOf(Events[n]) : Own(t)
                         hidden == \E n \in DOMAIN Events : \E v \in Values(Events[n]) :
                                      \E t \in HiddenHost(v) : t.dir = staged.dir
                     IN /\ staged.kind = "nothing" => ~Engaged(staged)
                        /\ staged.kind = "at" => /\ named => Engaged(staged)
                                                 /\ Engaged(staged) => named \/ hidden
                        /\ \A loose \in Staged : loose.kind = "unrecorded" => (Engaged(staged) => Engaged(loose))
    BY DEF SkillIsTheRuns
<1>. DEFINE Native(c) == c.tool = "Skill" /\ (~staged.named \/ \E t \in TokensOf(c) : t.name = SkillToken)
            named == \E n \in DOMAIN Events : Native(Events[n]) \/ \E t \in TokensOf(Events[n]) : t.dir = staged.dir /\ ~t.host
            hidden == \E n \in DOMAIN Events : \E v \in Values(Events[n]) : \E t \in HiddenHost(v) : t.dir = staged.dir
<1>6. ASSUME NEW s \in Staged
      PROVE  /\ s.kind \in {"unrecorded", "nothing", "at"}
             /\ s.kind = "at" => s.dir # "none" /\ s.dir \in StagedDirs
             /\ s.kind # "at" => ~s.named
    <2>1. s \in StagedSkills /\ "none" \notin StagedDirs
        BY TranscriptAssumption
    <2>. QED
        BY <2>1 DEF StagedSkills
<1>7. staged.kind = "nothing" => ~Engaged(staged)
    <2>. SUFFICES ASSUME staged.kind = "nothing" PROVE ~Engaged(staged)
        OBVIOUS
    <2>1. \A t : ~NamedBy(staged, t)
        BY DEF NamedBy
    <2>2. \A e : ~Invoked(staged, e)
        BY <1>6 DEF Invoked
    <2>. QED
        BY <2>1, <2>2 DEF Engaged
<1>8. staged.kind = "at" => \A t : NamedBy(staged, t) <=> t.dir = staged.dir
    BY DEF NamedBy
<1>9. ASSUME staged.kind = "at", named PROVE Engaged(staged)
    <2>1. PICK n \in DOMAIN Events : Native(Events[n]) \/ \E t \in TokensOf(Events[n]) : t.dir = staged.dir /\ ~t.host
        BY <1>9
    <2>2. CASE Native(Events[n])
        <3>1. CASE ~staged.named
            <4>1. Invoked(staged, Events[n])
                BY <1>9, <3>1 DEF Invoked
            <4>. QED
                BY <2>2, <4>1 DEF Engaged
        <3>2. CASE staged.named
            <4>1. PICK t \in TokensOf(Events[n]) : t.name = SkillToken
                BY <2>2, <3>2
            <4>2. \E v \in Values(Events[n]) : t \in WorthReading(v)
                BY <1>4, <1>5, <4>1
            <4>3. Invoked(staged, Events[n])
                BY <3>2, <4>1, <4>2 DEF Invoked
            <4>. QED
                BY <2>2, <4>3 DEF Engaged
        <3>. QED
            BY <3>1, <3>2
    <2>3. CASE \E t \in TokensOf(Events[n]) : t.dir = staged.dir /\ ~t.host
        <3>1. PICK t \in TokensOf(Events[n]) : t.dir = staged.dir /\ ~t.host
            BY <2>3
        <3>2. PICK v \in Values(Events[n]) : t \in WorthReading(v)
            BY <1>4, <3>1
        <3>. QED
            BY <1>8, <1>9, <3>1, <3>2 DEF Engaged
    <2>. QED
        BY <2>1, <2>2, <2>3
<1>10. ASSUME staged.kind = "at", Engaged(staged) PROVE named \/ hidden
    <2>1. PICK n \in DOMAIN Events : \/ Events[n].tool = "Skill" /\ Invoked(staged, Events[n])
                                     \/ \E v \in Values(Events[n]) : \E t \in WorthReading(v) : NamedBy(staged, t)
        BY <1>10 DEF Engaged
    <2>2. CASE Events[n].tool = "Skill" /\ Invoked(staged, Events[n])
        <3>1. staged.named => \E t \in TokensOf(Events[n]) : t.name = SkillToken
            BY <1>3, <2>2 DEF Invoked
        <3>2. Native(Events[n])
            BY <2>2, <3>1
        <3>. QED
            BY <3>2
    <2>3. CASE \E v \in Values(Events[n]) : \E t \in WorthReading(v) : NamedBy(staged, t)
        <3>1. PICK v \in Values(Events[n]) : \E t \in WorthReading(v) : NamedBy(staged, t)
            BY <2>3
        <3>2. PICK t \in WorthReading(v) : NamedBy(staged, t)
            BY <3>1
        <3>3. t.dir = staged.dir /\ t \in TokensOf(Events[n]) /\ (t.host => t \in HiddenHost(v))
            BY <1>3, <1>8, <1>10, <3>2
        <3>. QED
            BY <3>3
    <2>. QED
        BY <2>1, <2>2, <2>3
<1>11. ASSUME NEW loose \in Staged, loose.kind = "unrecorded", Engaged(staged) PROVE Engaged(loose)
    <2>1. \A e : Invoked(loose, e)
        BY <1>6, <1>11 DEF Invoked
    <2>2. ASSUME NEW t, NamedBy(staged, t) PROVE NamedBy(loose, t)
        <3>1. t.dir # "none"
            BY <1>6, <2>2 DEF NamedBy
        <3>. QED
            BY <1>11, <3>1 DEF NamedBy
    <2>. QED
        BY <1>11, <2>1, <2>2 DEF Engaged
<1>. HIDE DEF named, hidden
<1>12. /\ staged.kind = "nothing" => ~Engaged(staged)
       /\ staged.kind = "at" => /\ named => Engaged(staged)
                                /\ Engaged(staged) => named \/ hidden
       /\ \A loose \in Staged : loose.kind = "unrecorded" => (Engaged(staged) => Engaged(loose))
    BY <1>7, <1>9, <1>10, <1>11
<1>. QED
    BY <1>12 DEF named, hidden

------------------------------------------------------------------------------
(* What a run's end makes of a builder *)

\* Tagging what a set holds changes nothing in its size.
LEMMA TaggedCount ==
    ASSUME NEW S, IsFiniteSet(S), NEW k
    PROVE  IsFiniteSet({k} \X S) /\ Cardinality({k} \X S) = Cardinality(S)
<1>. DEFINE f == [x \in S |-> <<k, x>>]
<1>1. f \in Bijection(S, {k} \X S)
    <2>1. f \in [S -> {k} \X S]
        OBVIOUS
    <2>2. \A x, y \in S : f[x] = f[y] => x = y
        OBVIOUS
    <2>3. \A p \in {k} \X S : \E x \in S : f[x] = p
        OBVIOUS
    <2>. QED
        BY <2>1, <2>2, <2>3 DEF Bijection, Injection, Surjection, IsInjective
<1>. QED
    BY <1>1, FS_Bijection DEF ExistsBijection

\* A harness began as many calls as it gave numbers to.
LEMMA BegunCount ==
    ASSUME NEW h, Runs(h)
    PROVE  IsFiniteSet(BegunBy(h)) /\ Cardinality(BegunBy(h)) = Len(h.begun) /\ Len(h.begun) \in Nat
<1>1. h.begun \in Seq(Calls) /\ Len(h.begun) \in Nat /\ DOMAIN h.begun = 1..Len(h.begun)
    BY DEF Runs, HarnessStates
<1>. DEFINE n == Len(h.begun)
            f == [i \in 1..n |-> h.begun[i]]
<1>2. \A i \in 1..n : h.begun[i].id = i
    <2>1. \A i \in DOMAIN h.begun : h.begun[i] = CallOf(h.script, i)
        BY DEF Runs
    <2>. SUFFICES ASSUME NEW i \in 1..n PROVE h.begun[i].id = i
        OBVIOUS
    <2>2. h.begun[i] = CallOf(h.script, i)
        BY <1>1, <2>1
    <2>. QED
        BY <2>2 DEF CallOf
<1>3. f \in Bijection(1..n, BegunBy(h))
    <2>1. f \in [1..n -> BegunBy(h)]
        BY <1>1 DEF BegunBy
    <2>2. \A x, y \in 1..n : f[x] = f[y] => x = y
        BY <1>2
    <2>3. \A p \in BegunBy(h) : \E x \in 1..n : f[x] = p
        BY <1>1 DEF BegunBy
    <2>. QED
        BY <2>1, <2>2, <2>3 DEF Bijection, Injection, Surjection, IsInjective
<1>4. IsFiniteSet(1..n) /\ Cardinality(1..n) = n
    BY <1>1, FS_Interval
<1>. QED
    BY <1>1, <1>3, <1>4, FS_Bijection DEF ExistsBijection

CutSpan(t, end, why) ==
    [kind |-> "tool", id |-> t.id, args |-> t.args, start |-> t.start, end |-> Later(end, t.start),
     failure |-> why, usage |-> FALSE]

\* What is handed on at the end of b: the steps of c, which are those that ended and the model
\* call that was on, and the calls that were open, cut off.
HandsOn(f, b, why, end, c) ==
    /\ c.turn = <<>> /\ c.tools = b.tools
    /\ DOMAIN f = ({"done"} \X DOMAIN c.steps) \cup ({"cut"} \X b.tools)
    /\ \A i \in DOMAIN c.steps : f[<<"done", i>>] = c.steps[i]
    /\ \A t \in b.tools : f[<<"cut", t>>] = CutSpan(t, end, why)
    /\ Cardinality(ToolSteps(c.steps)) = Cardinality(ToolSteps(b.steps))
    /\ Cardinality(ChatSteps(c.steps)) = ModelCalls(b)
    /\ Cardinality(UsedSteps(c.steps)) = Used(b)
    /\ \A i \in DOMAIN c.steps : c.steps[i].failure = why => i = Len(b.steps) + 1 /\ IsChat(c.steps[i])
    /\ Timed(b, end) /\ InTurn(b) => Timed(c, end) /\ InTurn(c) /\ (Apart(b) => Apart(c))

\* A run's end cuts off what was on, and nothing else.
LEMMA CutOff ==
    ASSUME NEW b, Whole(b), NEW why \in Ends, NEW end \in Nat
    PROVE  \E c \in Builders : HandsOn(Finished(b, why, end), b, why, end, c)
<1>. DEFINE s == IF b.turn = <<>> THEN b ELSE Speaks(b, Later(end, b.turn[1].start))
<1>1. b \in Builders /\ why \in Reports \cup Ends /\ why \notin Reports
    BY DEF Whole, Reports, Ends
<1>2. /\ b.steps \in Seq(StepSpans) /\ DOMAIN b.steps = 1..Len(b.steps) /\ Len(b.steps) \in Nat
      /\ b.turn # <<>> => b.turn[1].start \in Nat /\ b.turn[1].end \in Nat /\ b.turn[1] \in TurnSpans
    BY <1>1, PartsOfBuilder
<1>3. /\ Whole(s) /\ s.steps = b.steps /\ s.tools = b.tools /\ (b.turn = <<>> <=> s.turn = <<>>)
      /\ ModelCalls(s) = ModelCalls(b) /\ Used(s) = Used(b)
      /\ Timed(b, end) /\ InTurn(b) => Timed(s, end) /\ InTurn(s) /\ (Apart(b) => Apart(s))
    <2>1. CASE b.turn = <<>>
        BY <2>1
    <2>2. CASE b.turn # <<>>
        <3>. PICK at : at = Later(end, b.turn[1].start)
            OBVIOUS
        <3>1. at \in Nat
            BY <1>2, <2>2 DEF Later
        <3>2. s = Speaks(b, at)
            BY <2>2
        <3>. HIDE DEF s
        <3>3. /\ Whole(s) /\ s.steps = b.steps /\ s.tools = b.tools
              /\ s.turn = <<[b.turn[1] EXCEPT !.end = at]>>
              /\ ModelCalls(s) = ModelCalls(b) /\ Used(s) = Used(b)
            BY <2>2, <3>1, <3>2, SpeaksCounts
        <3>4. s.turn # <<>>
            BY <3>3
        <3>5. Timed(b, end) /\ InTurn(b) => Timed(s, end) /\ InTurn(s) /\ (Apart(b) => Apart(s))
            <4>. SUFFICES ASSUME Timed(b, end), InTurn(b) PROVE Timed(s, end) /\ InTurn(s) /\ (Apart(b) => Apart(s))
                OBVIOUS
            <4>1. at = end
                BY <1>2, <2>2 DEF Timed, Later
            <4>. QED
                BY <3>2, <4>1, SpeaksTimes
        <3>. QED
            BY <2>2, <3>3, <3>4, <3>5
    <2>. QED
        BY <2>1, <2>2
<1>. DEFINE c == CloseTurn(s, why)
<1>. HIDE DEF s
<1>4. s \in Builders
    BY <1>3 DEF Whole
<1>5. /\ c \in Builders /\ c.turn = <<>> /\ c.tools = s.tools
      /\ s.turn = <<>> => c = s
      /\ \A t \in TurnSpans : s.turn = <<t>> => ChatOf(t, why) \in StepSpans /\ c.steps = Append(s.steps, ChatOf(t, why))
    BY <1>1, <1>4, CloseTurnIs
<1>6. Timed(b, end) /\ InTurn(b) => Timed(c, end) /\ InTurn(c) /\ (Apart(b) => Apart(c))
    BY <1>1, <1>3, <1>4, CloseTurnTimes
<1>7. Finished(b, why, end) =
         [x \in ({"done"} \X DOMAIN c.steps) \cup ({"cut"} \X b.tools) |->
            IF x[1] = "done" THEN c.steps[x[2]]
            ELSE [Step("tool", x[2].id, x[2].start, Later(end, x[2].start), why) EXCEPT !.args = x[2].args]]
    BY DEF Finished, s
<1>. HIDE DEF c
<1>. PICK f : f = Finished(b, why, end)
    OBVIOUS
<1>8. /\ DOMAIN f = ({"done"} \X DOMAIN c.steps) \cup ({"cut"} \X b.tools)
      /\ \A i \in DOMAIN c.steps : f[<<"done", i>>] = c.steps[i]
      /\ \A t \in b.tools : f[<<"cut", t>>] = CutSpan(t, end, why)
    <2>1. DOMAIN f = ({"done"} \X DOMAIN c.steps) \cup ({"cut"} \X b.tools)
        BY <1>7
    <2>2. \A i \in DOMAIN c.steps : f[<<"done", i>>] = c.steps[i]
        BY <1>7
    <2>3. ASSUME NEW t \in b.tools PROVE f[<<"cut", t>>] = CutSpan(t, end, why)
        <3>1. "cut" # "done" /\ <<"cut", t>> \in ({"done"} \X DOMAIN c.steps) \cup ({"cut"} \X b.tools)
            OBVIOUS
        <3>2. f[<<"cut", t>>] = [Step("tool", t.id, t.start, Later(end, t.start), why) EXCEPT !.args = t.args]
            BY <1>7, <3>1
        <3>. QED
            BY <3>2, StepWithArgs DEF CutSpan
    <2>. QED
        BY <2>1, <2>2, <2>3
<1>9. /\ Cardinality(ToolSteps(c.steps)) = Cardinality(ToolSteps(b.steps))
      /\ Cardinality(ChatSteps(c.steps)) = ModelCalls(b)
      /\ Cardinality(UsedSteps(c.steps)) = Used(b)
      /\ \A i \in DOMAIN c.steps : c.steps[i].failure = why => i = Len(b.steps) + 1 /\ IsChat(c.steps[i])
    <2>1. \A i \in DOMAIN b.steps : b.steps[i].failure # why
        BY <1>1 DEF Whole, NotCut
    <2>2. /\ Cardinality(ToolSteps(b.steps)) \in Nat /\ Cardinality(ChatSteps(b.steps)) \in Nat
          /\ Cardinality(UsedSteps(b.steps)) \in Nat
        BY <1>2, StepsAreFinite
    <2>3. CASE s.turn = <<>>
        <3>1. c.steps = b.steps /\ Len(s.turn) = 0
            BY <1>3, <1>5, <2>3
        <3>2. ModelCalls(s) = Cardinality(ChatSteps(b.steps)) /\ Used(s) = Cardinality(UsedSteps(b.steps))
            BY <1>3, <2>2, <2>3, <3>1 DEF ModelCalls, Used
        <3>. QED
            BY <1>3, <2>1, <3>1, <3>2
    <2>4. CASE s.turn # <<>>
        <3>1. PICK t \in TurnSpans : s.turn = <<t>> /\ s.turn[1] = t /\ Len(s.turn) = 1
            BY <1>4, <2>4, TurnIsOne
        <3>. PICK x : x = ChatOf(t, why)
            OBVIOUS
        <3>2. /\ x \in StepSpans /\ IsChat(x) /\ ~IsTool(x) /\ x.usage = t.usage /\ t.usage \in BOOLEAN
              /\ c.steps = Append(b.steps, x)
            BY <1>3, <1>5, <3>1 DEF ChatOf, IsChat, IsTool, TurnSpans
        <3>3. /\ DOMAIN c.steps = DOMAIN b.steps \cup {Len(b.steps) + 1}
              /\ c.steps[Len(b.steps) + 1] = x /\ \A i \in DOMAIN b.steps : c.steps[i] = b.steps[i]
              /\ ToolSteps(c.steps) = ToolSteps(b.steps)
              /\ Cardinality(ChatSteps(c.steps)) = Cardinality(ChatSteps(b.steps)) + 1
              /\ Cardinality(UsedSteps(c.steps)) = Cardinality(UsedSteps(b.steps)) + (IF x.usage THEN 1 ELSE 0)
            BY <1>2, <3>2, OneStepMore
        <3>4. /\ ModelCalls(s) = Cardinality(ChatSteps(b.steps)) + 1
              /\ Used(s) = Cardinality(UsedSteps(b.steps)) + (IF x.usage THEN 1 ELSE 0)
            BY <1>3, <2>4, <3>1, <3>2 DEF ModelCalls, Used
        <3>. QED
            BY <1>3, <2>1, <3>2, <3>3, <3>4
    <2>. QED
        BY <2>3, <2>4
<1>10. HandsOn(f, b, why, end, c)
    BY <1>3, <1>5, <1>6, <1>8, <1>9 DEF HandsOn
<1>. QED
    BY <1>5, <1>10

\* The steps handed on are the calls that were counted, each once.
LEMMA HandedOnCounts ==
    ASSUME NEW b, Whole(b), NEW why \in Ends, NEW end \in Nat, NEW f,
           NEW c \in Builders, HandsOn(f, b, why, end, c)
    PROVE  /\ ToolSteps(f) = ({"done"} \X ToolSteps(c.steps)) \cup ({"cut"} \X b.tools)
           /\ ChatSteps(f) = {"done"} \X ChatSteps(c.steps)
           /\ IsFiniteSet(ToolSteps(f)) /\ IsFiniteSet(ChatSteps(f))
           /\ Cardinality(ToolSteps(f)) = ToolCalls(b) /\ Cardinality(ChatSteps(f)) = ModelCalls(b)
<1>1. c.steps \in Seq(StepSpans) /\ \A i \in DOMAIN c.steps : c.steps[i] \in StepSpans
    BY PartsOfBuilder
<1>2. /\ DOMAIN f = ({"done"} \X DOMAIN c.steps) \cup ({"cut"} \X b.tools)
      /\ \A i \in DOMAIN c.steps : f[<<"done", i>>] = c.steps[i]
      /\ \A t \in b.tools : f[<<"cut", t>>] = CutSpan(t, end, why)
      /\ Cardinality(ToolSteps(c.steps)) = Cardinality(ToolSteps(b.steps))
      /\ Cardinality(ChatSteps(c.steps)) = ModelCalls(b)
    BY DEF HandsOn
<1>3. \A t \in b.tools : IsTool(CutSpan(t, end, why)) /\ ~IsChat(CutSpan(t, end, why))
    BY DEF IsTool, IsChat, CutSpan
<1>4. \A x \in DOMAIN f : \/ \E i \in DOMAIN c.steps : x = <<"done", i>>
                          \/ \E t \in b.tools : x = <<"cut", t>>
    BY <1>2
<1>5. /\ \A i \in DOMAIN c.steps : <<"done", i>> \in DOMAIN f
      /\ \A t \in b.tools : <<"cut", t>> \in DOMAIN f
    BY <1>2
<1>6. ToolSteps(f) = ({"done"} \X ToolSteps(c.steps)) \cup ({"cut"} \X b.tools)
    BY <1>2, <1>3, <1>4, <1>5 DEF ToolSteps
<1>7. ChatSteps(f) = {"done"} \X ChatSteps(c.steps)
    BY <1>2, <1>3, <1>4, <1>5 DEF ChatSteps
<1>8. /\ IsFiniteSet(ToolSteps(c.steps)) /\ IsFiniteSet(ChatSteps(c.steps)) /\ IsFiniteSet(b.tools)
    BY <1>1, StepsAreFinite DEF Whole, OpenOnce
<1>9. /\ IsFiniteSet({"done"} \X ToolSteps(c.steps)) /\ Cardinality({"done"} \X ToolSteps(c.steps)) = Cardinality(ToolSteps(c.steps))
      /\ IsFiniteSet({"done"} \X ChatSteps(c.steps)) /\ Cardinality({"done"} \X ChatSteps(c.steps)) = Cardinality(ChatSteps(c.steps))
      /\ IsFiniteSet({"cut"} \X b.tools) /\ Cardinality({"cut"} \X b.tools) = Cardinality(b.tools)
    BY <1>8, TaggedCount
<1>10. ({"done"} \X ToolSteps(c.steps)) \cap ({"cut"} \X b.tools) = {}
    OBVIOUS
<1>11. /\ IsFiniteSet(ToolSteps(f))
       /\ Cardinality(ToolSteps(f)) = Cardinality({"done"} \X ToolSteps(c.steps)) + Cardinality({"cut"} \X b.tools)
    <2>. PICK S, T : S = {"done"} \X ToolSteps(c.steps) /\ T = {"cut"} \X b.tools
        OBVIOUS
    <2>1. IsFiniteSet(S) /\ IsFiniteSet(T) /\ S \cap T = {}
        BY <1>9, <1>10
    <2>2. IsFiniteSet(S \cup T) /\ Cardinality(S \cup T) = Cardinality(S) + Cardinality(T)
        <3>1. IsFiniteSet(S \cup T) /\ Cardinality(S \cup T) = Cardinality(S) + Cardinality(T) - Cardinality(S \cap T)
            BY <2>1, FS_Union
        <3>2. Cardinality(S \cap T) = 0 /\ Cardinality(S) \in Nat /\ Cardinality(T) \in Nat
            BY <2>1, FS_EmptySet, FS_CardinalityType
        <3>. QED
            BY <3>1, <3>2
    <2>. QED
        BY <1>6, <2>2
<1>. QED
    BY <1>2, <1>6, <1>7, <1>9, <1>11 DEF ToolCalls

\* What a set's elements are of, there is at most one for each.
LEMMA KeysAreFewer ==
    ASSUME NEW S, IsFiniteSet(S), S # {}, NEW f
    PROVE  LET T == {f[x].args : x \in S} IN Cardinality(T) \in Nat /\ Cardinality(T) > 0
<1>. PICK T : T = {f[x].args : x \in S}
    OBVIOUS
<1>. DEFINE g == [x \in S |-> f[x].args]
<1>1. g \in Surjection(S, T)
    <2>1. g \in [S -> T]
        OBVIOUS
    <2>2. \A y \in T : \E x \in S : g[x] = y
        OBVIOUS
    <2>. QED
        BY <2>1, <2>2 DEF Surjection
<1>2. IsFiniteSet(T)
    BY <1>1, FS_Surjection
<1>3. T # {}
    OBVIOUS
<1>4. Cardinality(T) \in Nat /\ Cardinality(T) # 0
    BY <1>2, <1>3, FS_CardinalityType, FS_EmptySet
<1>. QED
    BY <1>4

\* Calls are counted once, of which the caps and the metrics hear the same.
LEMMA CountsHold ==
    ASSUME Lived, Followed, Replayed
    PROVE  CallsAreCountedOnce
<1>. PICK n : n = Len(stamps)
    OBVIOUS
<1>1. n \in 0..Len(lines) /\ Len(lines) \in Nat
    BY DEF Lived, Followed
<1>. PICK h : h = past[n + 1]
    OBVIOUS
<1>2. Was(h, n) /\ Runs(h) /\ Follows(live, h)
    BY <1>1, WasThen DEF Was, Followed
<1>3. ToolCalls(live) = Len(h.begun) /\ ModelCalls(live) = h.spoke
    BY <1>2 DEF Follows, Knows
<1>4. ToolCalls(live) = Cardinality(Told(n))
    BY <1>2, <1>3, BegunCount DEF Was
<1>5. ModelCalls(live) <= harness.spoke
    BY <1>2, <1>3 DEF Was
<1>6. crossed => \/ harness.caps.tools # 0 /\ Len(harness.begun) > harness.caps.tools
                 \/ harness.caps.turns # 0 /\ harness.spoke > harness.caps.turns
    BY DEF Followed
<1>7. ASSUME StreamDone
      PROVE  /\ Metrics.calls = ToolCalls(live) /\ Metrics.turns = ModelCalls(live)
             /\ Metrics.repeated < Metrics.calls \/ Metrics.calls = 0
    <2>. PICK b : b = replay.plain
        OBVIOUS
    <2>1. Follows(b, h)
        BY <1>7 DEF StreamDone, ReadToEnd, Replayed
    <2>2. Whole(b) /\ ToolCalls(b) = ToolCalls(live) /\ ModelCalls(b) = ModelCalls(live)
        BY <1>3, <2>1 DEF Follows, Knows
    <2>. PICK why, end : why = "unfinished" /\ end = 0
        OBVIOUS
    <2>. PICK f : f = Finished(b, why, end)
        OBVIOUS
    <2>3. why \in Ends /\ end \in Nat
        BY DEF Ends
    <2>4. PICK c \in Builders : HandsOn(f, b, why, end, c)
        BY <2>2, <2>3, CutOff
    <2>5. /\ IsFiniteSet(ToolSteps(f)) /\ Cardinality(ToolSteps(f)) = ToolCalls(b)
          /\ Cardinality(ChatSteps(f)) = ModelCalls(b)
        BY <2>2, <2>3, <2>4, HandedOnCounts
    <2>. DEFINE known == {i \in ToolSteps(f) : f[i].args # <<>>}
                keys == {f[i].args : i \in known}
    <2>6. /\ Metrics.calls = Cardinality(ToolSteps(f)) /\ Metrics.turns = Cardinality(ChatSteps(f))
          /\ Metrics.repeated = Cardinality(known) - Cardinality(keys)
        BY DEF Metrics
    <2>7. IsFiniteSet(known) /\ Cardinality(known) <= Cardinality(ToolSteps(f)) /\ Cardinality(known) \in Nat
          /\ Cardinality(ToolSteps(f)) \in Nat
        <3>1. known \subseteq ToolSteps(f)
            OBVIOUS
        <3>. HIDE DEF known
        <3>. QED
            BY <2>5, <3>1, FS_Subset, FS_CardinalityType
    <2>8. CASE known = {}
        <3>1. keys = {}
            BY <2>8
        <3>2. Metrics.repeated = 0
            <4>1. Cardinality(known) = 0 /\ Cardinality(keys) = 0
                BY <2>8, <3>1, FS_EmptySet
            <4>. HIDE DEF known, keys
            <4>. QED
                BY <2>6, <4>1
        <3>. QED
            BY <2>2, <2>5, <2>6, <2>7, <3>2
    <2>9. CASE known # {}
        <3>. HIDE DEF known
        <3>1. Cardinality(keys) \in Nat /\ Cardinality(keys) > 0
            BY <2>7, <2>9, KeysAreFewer
        <3>. HIDE DEF keys
        <3>2. Metrics.repeated < Metrics.calls
            BY <2>6, <2>7, <3>1
        <3>. QED
            BY <2>2, <2>5, <2>6, <3>2
    <2>. QED
        BY <2>8, <2>9
<1>. QED
    BY <1>4, <1>5, <1>6, <1>7 DEF CallsAreCountedOnce

\* The spans of a run tile its time.
LEMMA TilesHold ==
    ASSUME Lived, Followed, Replayed
    PROVE  StepsTileTheRun
<1>. SUFFICES ASSUME StreamDone
              PROVE  LET steps == Rebuilt
                         chats == ChatSteps(steps)
                         tools == DOMAIN steps \ chats
                         n == Len(lines)
                     IN /\ \A i \in DOMAIN steps : steps[i].start <= steps[i].end /\ steps[i].end <= ended.at
                        /\ \A i, j \in chats : i # j => ~Overlap(steps[i], steps[j])
                        /\ harness.format = "codex" => \A i \in chats, j \in tools : ~Overlap(steps[i], steps[j])
                        /\ {steps[i].id : i \in {j \in tools : steps[j].failure = EndedBy}} =
                              {c.id : c \in Told(n) \ Answered(n)}
                        /\ Cardinality({i \in chats : steps[i].failure = EndedBy}) <= 1
                        /\ harness.format = "codex" =>
                              Cardinality({i \in chats : steps[i].usage}) =
                              Cardinality({i \in 1..n : lines[i].kind = "turn.completed"})
    BY DEF StepsTileTheRun
<1>. PICK n : n = Len(lines)
    OBVIOUS
<1>1. n \in Nat /\ replay.read = n /\ n \in 0..Len(lines)
    BY DEF Lived, StreamDone
<1>. PICK h, b, why, end : h = past[n + 1] /\ b = replay.spans /\ why = EndedBy /\ end = ended.at
    OBVIOUS
<1>2. Was(h, n) /\ Runs(h)
    BY <1>1, WasThen DEF Was
<1>3. /\ Follows(b, h) /\ end \in Nat /\ b.last <= end
      /\ harness.format = "codex" => Used(b) = Cardinality(EndsRead(n))
    BY <1>1 DEF Replayed
<1>4. why \in Ends
    BY DEF EndedBy, Ends
<1>5. /\ Whole(b) /\ InTurn(b) /\ OpenIds(b) = Ids(h.open) /\ (harness.format = "codex" => Apart(b))
      /\ b \in Builders /\ b.last \in Nat /\ Timed(b, b.last)
    BY <1>2, <1>3 DEF Follows, Knows, Whole, Builders, Was
<1>6. Timed(b, end)
    BY <1>3, <1>5, TimedLater
<1>. PICK f : f = Finished(b, why, end)
    OBVIOUS
<1>7. f = Rebuilt
    BY DEF Rebuilt
<1>8. PICK c \in Builders : HandsOn(f, b, why, end, c)
    BY <1>3, <1>4, <1>5, CutOff
<1>9. /\ c.turn = <<>> /\ c.tools = b.tools
      /\ DOMAIN f = ({"done"} \X DOMAIN c.steps) \cup ({"cut"} \X b.tools)
      /\ \A i \in DOMAIN c.steps : f[<<"done", i>>] = c.steps[i]
      /\ \A t \in b.tools : f[<<"cut", t>>] = CutSpan(t, end, why)
      /\ Cardinality(UsedSteps(c.steps)) = Used(b)
      /\ \A i \in DOMAIN c.steps : c.steps[i].failure = why => i = Len(b.steps) + 1 /\ IsChat(c.steps[i])
      /\ Timed(c, end) /\ InTurn(c) /\ (harness.format = "codex" => Apart(c))
    BY <1>5, <1>6, <1>8 DEF HandsOn
<1>10. /\ ToolSteps(f) = ({"done"} \X ToolSteps(c.steps)) \cup ({"cut"} \X b.tools)
       /\ ChatSteps(f) = {"done"} \X ChatSteps(c.steps)
       /\ IsFiniteSet(ChatSteps(f))
    BY <1>3, <1>4, <1>5, <1>8, HandedOnCounts
<1>11. /\ c.steps \in Seq(StepSpans) /\ DOMAIN c.steps = 1..Len(c.steps) /\ Len(c.steps) \in Nat
       /\ \A i \in DOMAIN c.steps : c.steps[i].start \in Nat /\ c.steps[i].end \in Nat
       /\ \A t \in b.tools : t.start \in Nat /\ t.id \in Nat
    BY <1>5, PartsOfBuilder
<1>12. /\ ToolSteps(c.steps) \cup ChatSteps(c.steps) = DOMAIN c.steps /\ ToolSteps(c.steps) \cap ChatSteps(c.steps) = {}
       /\ IsFiniteSet(UsedSteps(c.steps))
    BY <1>11, StepsAreFinite
<1>13. ASSUME NEW t \in b.tools
       PROVE  CutSpan(t, end, why).start = t.start /\ CutSpan(t, end, why).end = end /\ CutSpan(t, end, why).id = t.id
              /\ CutSpan(t, end, why).failure = why /\ t.start <= end
    <2>1. t.start <= end
        BY <1>6 DEF Timed
    <2>2. Later(end, t.start) = end
        BY <1>3, <1>11, <2>1 DEF Later
    <2>. QED
        BY <2>1, <2>2 DEF CutSpan
<1>14. \A x \in DOMAIN f : \/ \E i \in DOMAIN c.steps : x = <<"done", i>> /\ f[x] = c.steps[i]
                           \/ \E t \in b.tools : x = <<"cut", t>> /\ f[x] = CutSpan(t, end, why)
    BY <1>9
<1>. DEFINE chats == ChatSteps(f)
            tools == DOMAIN f \ chats
<1>15. \A x \in chats : \E i \in ChatSteps(c.steps) : x = <<"done", i>> /\ f[x] = c.steps[i] /\ i \in DOMAIN c.steps
    BY <1>9, <1>10, <1>12
<1>16. \A x \in tools : \/ \E i \in ToolSteps(c.steps) : x = <<"done", i>> /\ f[x] = c.steps[i] /\ i \in DOMAIN c.steps
                        \/ \E t \in b.tools : x = <<"cut", t>> /\ f[x] = CutSpan(t, end, why)
    BY <1>10, <1>12, <1>14
<1>17. \A x \in DOMAIN f : f[x].start <= f[x].end /\ f[x].end <= end
    <2>. SUFFICES ASSUME NEW x \in DOMAIN f PROVE f[x].start <= f[x].end /\ f[x].end <= end
        OBVIOUS
    <2>1. CASE \E i \in DOMAIN c.steps : x = <<"done", i>> /\ f[x] = c.steps[i]
        BY <1>9, <2>1 DEF Timed
    <2>2. CASE \E t \in b.tools : x = <<"cut", t>> /\ f[x] = CutSpan(t, end, why)
        BY <1>3, <1>13, <2>2
    <2>. QED
        BY <1>14, <2>1, <2>2
<1>18. \A x, y \in chats : x # y => ~Overlap(f[x], f[y])
    <2>. SUFFICES ASSUME NEW x \in chats, NEW y \in chats, x # y PROVE ~Overlap(f[x], f[y])
        OBVIOUS
    <2>1. PICK i \in ChatSteps(c.steps) : x = <<"done", i>> /\ f[x] = c.steps[i] /\ i \in DOMAIN c.steps
        BY <1>15
    <2>2. PICK j \in ChatSteps(c.steps) : y = <<"done", j>> /\ f[y] = c.steps[j] /\ j \in DOMAIN c.steps
        BY <1>15
    <2>3. i # j /\ i \in Nat /\ j \in Nat
        BY <1>11, <2>1, <2>2
    <2>4. c.steps[i].end <= c.steps[j].start \/ c.steps[j].end <= c.steps[i].start
        BY <1>9, <2>3 DEF InTurn
    <2>5. /\ c.steps[i].start \in Nat /\ c.steps[i].end \in Nat /\ c.steps[j].start \in Nat /\ c.steps[j].end \in Nat
        BY <1>11, <2>1, <2>2
    <2>. QED
        BY <2>1, <2>2, <2>4, <2>5 DEF Overlap
<1>19. harness.format = "codex" => \A x \in chats, y \in tools : ~Overlap(f[x], f[y])
    <2>. SUFFICES ASSUME harness.format = "codex", NEW x \in chats, NEW y \in tools PROVE ~Overlap(f[x], f[y])
        OBVIOUS
    <2>1. PICK i \in ChatSteps(c.steps) : x = <<"done", i>> /\ f[x] = c.steps[i] /\ i \in DOMAIN c.steps
        BY <1>15
    <2>2. c.steps[i].start \in Nat /\ c.steps[i].end \in Nat
        BY <1>11, <2>1
    <2>3. CASE \E j \in ToolSteps(c.steps) : y = <<"done", j>> /\ f[y] = c.steps[j] /\ j \in DOMAIN c.steps
        <3>1. PICK j \in ToolSteps(c.steps) : f[y] = c.steps[j] /\ j \in DOMAIN c.steps
            BY <2>3
        <3>2. c.steps[i].end <= c.steps[j].start \/ c.steps[j].end <= c.steps[i].start
            BY <1>9 DEF Apart
        <3>3. c.steps[j].start \in Nat /\ c.steps[j].end \in Nat
            BY <1>11, <3>1
        <3>. QED
            BY <2>1, <2>2, <3>1, <3>2, <3>3 DEF Overlap
    <2>4. CASE \E t \in b.tools : y = <<"cut", t>> /\ f[y] = CutSpan(t, end, why)
        <3>1. PICK t \in b.tools : f[y] = CutSpan(t, end, why)
            BY <2>4
        <3>2. c.steps[i].end <= t.start
            BY <1>9 DEF Apart
        <3>3. t.start \in Nat /\ f[y].start = t.start
            BY <1>11, <1>13, <3>1
        <3>. QED
            BY <2>1, <2>2, <3>2, <3>3 DEF Overlap
    <2>. QED
        BY <1>16, <2>3, <2>4
<1>20. {f[x].id : x \in {y \in tools : f[y].failure = why}} = {d.id : d \in Told(n) \ Answered(n)}
    <2>1. \A x \in tools : f[x].failure = why => \E t \in b.tools : x = <<"cut", t>> /\ f[x].id = t.id
        <3>. SUFFICES ASSUME NEW x \in tools, f[x].failure = why PROVE \E t \in b.tools : x = <<"cut", t>> /\ f[x].id = t.id
            OBVIOUS
        <3>1. CASE \E i \in ToolSteps(c.steps) : x = <<"done", i>> /\ f[x] = c.steps[i] /\ i \in DOMAIN c.steps
            <4>1. PICK i \in ToolSteps(c.steps) : f[x] = c.steps[i] /\ i \in DOMAIN c.steps
                BY <3>1
            <4>2. IsTool(c.steps[i]) /\ IsChat(c.steps[i])
                BY <1>9, <4>1 DEF ToolSteps
            <4>. QED
                BY <4>2 DEF IsTool, IsChat
        <3>2. CASE \E t \in b.tools : x = <<"cut", t>> /\ f[x] = CutSpan(t, end, why)
            BY <1>13, <3>2
        <3>. QED
            BY <1>16, <3>1, <3>2
    <2>2. \A t \in b.tools : <<"cut", t>> \in tools /\ f[<<"cut", t>>].failure = why /\ f[<<"cut", t>>].id = t.id
        BY <1>9, <1>10, <1>13, ZenonT(60)
    <2>. HIDE DEF tools
    <2>3. {f[x].id : x \in {y \in tools : f[y].failure = why}} = {t.id : t \in b.tools}
        <3>1. ASSUME NEW x \in {y \in tools : f[y].failure = why} PROVE f[x].id \in {t.id : t \in b.tools}
            BY <2>1
        <3>2. ASSUME NEW t \in b.tools PROVE t.id \in {f[x].id : x \in {y \in tools : f[y].failure = why}}
            <4>. PICK x : x = <<"cut", t>>
                OBVIOUS
            <4>1. x \in tools /\ f[x].failure = why /\ f[x].id = t.id
                BY <2>2
            <4>. QED
                BY <4>1
        <3>. QED
            BY <3>1, <3>2
    <2>4. {t.id : t \in b.tools} = {d.id : d \in Told(n) \ Answered(n)}
        BY <1>2, <1>5 DEF OpenIds, Ids, Was
    <2>. QED
        BY <2>3, <2>4
<1>21. Cardinality({x \in chats : f[x].failure = why}) <= 1
    <2>. PICK last : last = <<"done", Len(b.steps) + 1>>
        OBVIOUS
    <2>1. {x \in chats : f[x].failure = why} \subseteq {last}
        BY <1>9, <1>15
    <2>2. IsFiniteSet({last}) /\ Cardinality({last}) = 1
        BY FS_Singleton
    <2>. HIDE DEF chats
    <2>. PICK S : S = {x \in chats : f[x].failure = why}
        OBVIOUS
    <2>3. Cardinality(S) <= Cardinality({last})
        BY <2>1, <2>2, FS_Subset
    <2>. QED
        BY <2>2, <2>3
<1>22. harness.format = "codex" => Cardinality({x \in chats : f[x].usage}) = Cardinality({i \in 1..n : lines[i].kind = "turn.completed"})
    <2>1. {x \in chats : f[x].usage} = {"done"} \X UsedSteps(c.steps)
        BY <1>9, <1>10, <1>12, <1>15 DEF UsedSteps
    <2>2. Cardinality({"done"} \X UsedSteps(c.steps)) = Cardinality(UsedSteps(c.steps))
        BY <1>12, TaggedCount
    <2>. QED
        BY <1>3, <1>9, <2>1, <2>2 DEF EndsRead
<1>. HIDE DEF chats, tools
<1>23. /\ \A i \in DOMAIN f : f[i].start <= f[i].end /\ f[i].end <= ended.at
       /\ \A i, j \in chats : i # j => ~Overlap(f[i], f[j])
       /\ harness.format = "codex" => \A i \in chats, j \in tools : ~Overlap(f[i], f[j])
       /\ {f[i].id : i \in {j \in tools : f[j].failure = EndedBy}} = {d.id : d \in Told(Len(lines)) \ Answered(Len(lines))}
       /\ Cardinality({i \in chats : f[i].failure = EndedBy}) <= 1
       /\ harness.format = "codex" =>
             Cardinality({i \in chats : f[i].usage}) = Cardinality({i \in 1..Len(lines) : lines[i].kind = "turn.completed"})
    BY <1>17, <1>18, <1>19, <1>20, <1>21, <1>22
<1>. QED
    BY <1>7, <1>23 DEF chats, tools

\* Two tools are found one behind the other if they are there so.
LEMMA PairIsSought ==
    ASSUME NEW obs, DOMAIN obs \subseteq Nat \ {0}, NEW x, NEW y
    PROVE  IsSubsequence(<<x, y>>, obs) <=> \E i, j \in DOMAIN obs : i < j /\ obs[i] = x /\ obs[j] = y
<1>. DEFINE e == <<x, y>>
            From(i, tool) == {j \in DOMAIN obs : j >= i /\ obs[j] = tool}
            Next(g, n) == IF n = 0 THEN 1
                          ELSE IF g[n - 1] = 0 \/ From(g[n - 1], e[n]) = {} THEN 0
                          ELSE Min(From(g[n - 1], e[n])) + 1
            cursor == CHOOSE g : g = [n \in 0..Len(e) |-> Next(g, n)]
            c1 == IF From(1, x) = {} THEN 0 ELSE Min(From(1, x)) + 1
            c2 == IF c1 = 0 \/ From(c1, y) = {} THEN 0 ELSE Min(From(c1, y)) + 1
            w == [n \in 0..2 |-> IF n = 0 THEN 1 ELSE IF n = 1 THEN c1 ELSE c2]
<1>1. IsSubsequence(e, obs) <=> cursor[Len(e)] # 0
    BY DEF IsSubsequence
<1>2. Len(e) = 2 /\ e[1] = x /\ e[2] = y /\ 0..2 = {0, 1, 2}
    OBVIOUS
<1>3. w = [n \in 0..Len(e) |-> Next(w, n)]
    <2>. HIDE DEF c1, c2
    <2>1. w[0] = 1 /\ w[1] = c1 /\ w[2] = c2
        OBVIOUS
    <2>. HIDE DEF From, e
    <2>2. Next(w, 0) = 1
        OBVIOUS
    <2>3. Next(w, 1) = c1
        BY <1>2, <2>1 DEF c1
    <2>4. Next(w, 2) = c2
        BY <1>2, <2>1 DEF c2
    <2>. HIDE DEF Next
    <2>5. \A n \in 0..2 : (IF n = 0 THEN 1 ELSE IF n = 1 THEN c1 ELSE c2) = Next(w, n)
        BY <2>2, <2>3, <2>4
    <2>. QED
        BY <1>2, <2>5
<1>. HIDE DEF w
<1>4. cursor = [n \in 0..Len(e) |-> Next(cursor, n)]
    BY <1>3
<1>. HIDE DEF cursor
<1>5. cursor[0] = 1 /\ cursor[1] = c1 /\ cursor[2] = c2
    <2>. HIDE DEF From, e
    <2>1. \A n \in {0, 1, 2} : cursor[n] = Next(cursor, n)
        BY <1>2, <1>4
    <2>2. cursor[0] = 1
        BY <2>1
    <2>3. cursor[1] = c1
        BY <1>2, <2>1, <2>2
    <2>. HIDE DEF c1
    <2>4. cursor[2] = c2
        BY <1>2, <2>1, <2>3
    <2>. QED
        BY <2>2, <2>3, <2>4
<1>6. \A S : S \subseteq DOMAIN obs /\ S # {} => Min(S) \in S /\ \A z \in S : Min(S) <= z
    <2>. SUFFICES ASSUME NEW S, S \subseteq DOMAIN obs, S # {} PROVE Min(S) \in S /\ \A z \in S : Min(S) <= z
        OBVIOUS
    <2>1. S \subseteq Nat
        OBVIOUS
    <2>. QED
        BY <2>1, FirstOf
<1>. QED
    <2>1. IsSubsequence(e, obs) <=> c2 # 0
        BY <1>1, <1>2, <1>5
    <2>2. ASSUME c2 # 0 PROVE \E i, j \in DOMAIN obs : i < j /\ obs[i] = x /\ obs[j] = y
        <3>1. From(1, x) # {} /\ c1 = Min(From(1, x)) + 1 /\ From(c1, y) # {}
            BY <2>2
        <3>. DEFINE i == Min(From(1, x))
        <3>2. i \in From(1, x)
            BY <1>6, <3>1
        <3>. HIDE DEF i
        <3>3. PICK j \in From(i + 1, y) : TRUE
            BY <3>1 DEF i
        <3>. QED
            BY <3>2, <3>3
    <2>3. ASSUME NEW i \in DOMAIN obs, NEW j \in DOMAIN obs, i < j, obs[i] = x, obs[j] = y PROVE c2 # 0
        <3>1. i \in From(1, x)
            BY <2>3
        <3>. DEFINE m == Min(From(1, x))
        <3>2. m \in From(1, x) /\ m <= i /\ c1 = m + 1
            BY <1>6, <3>1
        <3>. HIDE DEF m
        <3>3. m \in Nat /\ c1 # 0
            BY <3>2
        <3>. HIDE DEF c1
        <3>4. j \in From(c1, y)
            BY <2>3, <3>2, <3>3
        <3>5. Min(From(c1, y)) \in From(c1, y)
            BY <1>6, <3>4
        <3>. DEFINE k == Min(From(c1, y))
        <3>6. k \in Nat
            BY <3>5
        <3>7. c2 = k + 1
            BY <3>3, <3>4
        <3>. HIDE DEF k
        <3>. QED
            BY <3>6, <3>7
    <2>. QED
        BY <2>1, <2>2, <2>3

\* The checks on tools read the calls of the run.
LEMMA ToolsHold ==
    ASSUME Lived, Followed, Replayed, StreamDone
    PROVE  ToolsAreTheRuns
<1>. PICK n, h, ev : n = Len(lines) /\ h = past[n + 1] /\ ev = replay.events
    OBVIOUS
<1>1. n \in Nat /\ replay.read = n /\ n \in 0..Len(lines) /\ harness.format # "none" /\ ended.why # "no" /\ Len(stamps) = n
    BY DEF Lived, StreamDone, ReadToEnd
<1>2. Was(h, n) /\ Runs(h)
    BY <1>1, WasThen DEF Was
<1>3. harness.format = h.format /\ harness.script = h.script /\ harness.begun = h.begun
    <2>1. harness = h \/ harness = [h EXCEPT !.pc = "gone"]
        BY DEF Lived
    <2>2. h \in HarnessStates
        BY <1>2 DEF Runs
    <2>. QED
        BY <2>1, <2>2 DEF HarnessStates
<1>4. /\ ev \in Seq(Calls) /\ Ordered(ev) /\ {ev[i] : i \in DOMAIN ev} = Shown(h) /\ Events = ev
    BY <1>1 DEF Replayed, Events
<1>5. Began = Shown(h)
    BY <1>3 DEF Began, Shown, BegunBy
<1>6. DOMAIN ev = 1..Len(ev) /\ Len(ev) \in Nat /\ (\A i \in DOMAIN ev : ev[i] \in Calls /\ ev[i].id \in Nat)
    BY <1>4, CallsAreNumbered
<1>7. \A i, j \in DOMAIN ev : ev[i].id < ev[j].id <=> i < j
    <2>. SUFFICES ASSUME NEW i \in DOMAIN ev, NEW j \in DOMAIN ev PROVE ev[i].id < ev[j].id <=> i < j
        OBVIOUS
    <2>1. /\ i < j => ev[i].id < ev[j].id
          /\ j < i => ev[j].id < ev[i].id
        BY <1>4 DEF Ordered
    <2>2. ev[i].id \in Nat /\ ev[j].id \in Nat /\ i \in Nat /\ j \in Nat
        BY <1>6
    <2>. QED
        BY <2>1, <2>2
<1>. DEFINE InOrder(t, u) == \E c, d \in Began : c.id < d.id /\ Matches(c, t) /\ Matches(d, u)
<1>8. ASSUME NEW t, NEW u
      PROVE  InOrder(t, u) <=> \E i, j \in DOMAIN ev : i < j /\ Matches(ev[i], t) /\ Matches(ev[j], u)
    <2>1. ASSUME NEW c \in Began, NEW d \in Began, c.id < d.id, Matches(c, t), Matches(d, u)
          PROVE  \E i, j \in DOMAIN ev : i < j /\ Matches(ev[i], t) /\ Matches(ev[j], u)
        <3>1. PICK i \in DOMAIN ev : c = ev[i]
            BY <1>4, <1>5
        <3>2. PICK j \in DOMAIN ev : d = ev[j]
            BY <1>4, <1>5
        <3>. QED
            BY <1>7, <2>1, <3>1, <3>2
    <2>2. ASSUME NEW i \in DOMAIN ev, NEW j \in DOMAIN ev, i < j, Matches(ev[i], t), Matches(ev[j], u)
          PROVE  InOrder(t, u)
        <3>1. ev[i] \in Began /\ ev[j] \in Began /\ ev[i].id < ev[j].id
            BY <1>4, <1>5, <1>7, <2>2
        <3>. QED
            BY <2>2, <3>1
    <2>. QED
        BY <2>1, <2>2
<1>9. \A t, u : BeforeAfter(t, u) = InOrder(t, u)
    <2>. SUFFICES ASSUME NEW t, NEW u PROVE BeforeAfter(t, u) <=> InOrder(t, u)
        BY DEF BeforeAfter
    <2>. DEFINE anchors == {i \in DOMAIN ev : Matches(ev[i], t)}
    <2>1. BeforeAfter(t, u) <=> anchors # {} /\ \E j \in DOMAIN ev : j > Min(anchors) /\ Matches(ev[j], u)
        BY <1>4 DEF BeforeAfter
    <2>2. anchors # {} => Min(anchors) \in anchors /\ \A z \in anchors : Min(anchors) <= z
        <3>1. anchors \subseteq Nat
            BY <1>6
        <3>. HIDE DEF anchors
        <3>. QED
            BY <3>1, FirstOf
    <2>. DEFINE m == Min(anchors)
    <2>3. BeforeAfter(t, u) => \E i, j \in DOMAIN ev : i < j /\ Matches(ev[i], t) /\ Matches(ev[j], u)
        <3>. SUFFICES ASSUME BeforeAfter(t, u) PROVE \E i, j \in DOMAIN ev : i < j /\ Matches(ev[i], t) /\ Matches(ev[j], u)
            OBVIOUS
        <3>1. m \in DOMAIN ev /\ Matches(ev[m], t)
            BY <2>1, <2>2
        <3>. HIDE DEF anchors
        <3>2. PICK j \in DOMAIN ev : j > m /\ Matches(ev[j], u)
            BY <2>1
        <3>. HIDE DEF m
        <3>3. m < j
            BY <1>6, <3>1, <3>2
        <3>. QED
            BY <3>1, <3>2, <3>3
    <2>4. ASSUME NEW i \in DOMAIN ev, NEW j \in DOMAIN ev, i < j, Matches(ev[i], t), Matches(ev[j], u)
          PROVE  BeforeAfter(t, u)
        <3>1. i \in anchors
            BY <2>4
        <3>2. m \in anchors /\ m <= i
            BY <2>2, <3>1
        <3>3. m \in Nat
            BY <1>6, <3>2
        <3>4. j > m
            <4>. HIDE DEF m
            <4>. QED
                BY <1>6, <2>4, <3>2, <3>3
        <3>. QED
            BY <2>1, <2>4, <3>1, <3>4
    <2>. HIDE DEF InOrder
    <2>. QED
        BY <1>8, <2>3, <2>4
<1>10. ASSUME NEW t, NEW u, t.naming = {}, u.naming = {}
       PROVE  IsSubsequence(<<t.tool, u.tool>>, ToolSequence) = InOrder(t, u)
    <2>. PICK seq : seq = ToolSequence
        OBVIOUS
    <2>1. DOMAIN seq = DOMAIN ev /\ (\A i \in DOMAIN ev : seq[i] = ev[i].tool) /\ DOMAIN seq \subseteq Nat \ {0}
        BY <1>4, <1>6 DEF ToolSequence
    <2>2. \A c : Matches(c, t) <=> c.tool = t.tool
        BY <1>10 DEF Matches
    <2>3. \A c : Matches(c, u) <=> c.tool = u.tool
        BY <1>10 DEF Matches
    <2>. PICK x, y : x = t.tool /\ y = u.tool
        OBVIOUS
    <2>4. IsSubsequence(<<x, y>>, seq) <=> \E i, j \in DOMAIN seq : i < j /\ seq[i] = x /\ seq[j] = y
        BY <2>1, PairIsSought
    <2>5. InOrder(t, u) <=> \E i, j \in DOMAIN ev : i < j /\ Matches(ev[i], t) /\ Matches(ev[j], u)
        BY <1>8
    <2>6. (\E i, j \in DOMAIN seq : i < j /\ seq[i] = x /\ seq[j] = y)
          <=> \E i, j \in DOMAIN ev : i < j /\ Matches(ev[i], t) /\ Matches(ev[j], u)
        BY <2>1, <2>2, <2>3
    <2>7. IsSubsequence(<<x, y>>, seq) \in BOOLEAN /\ InOrder(t, u) \in BOOLEAN
        BY DEF IsSubsequence
    <2>. HIDE DEF InOrder
    <2>. QED
        BY <2>4, <2>5, <2>6, <2>7
<1>11. \A left \in Leavings : NoFakeToolCalls(left) = "failed" => harness.format = "codex" \/ Metrics.calls = 0
    <2>. SUFFICES ASSUME NEW left \in Leavings, NoFakeToolCalls(left) = "failed", harness.format # "codex"
                  PROVE  Metrics.calls = 0
        OBVIOUS
    <2>1. ev = <<>>
        BY <1>4 DEF NoFakeToolCalls, WithTranscript, FromBool
    <2>2. BegunBy(h) = {}
        BY <1>3, <1>4, <2>1 DEF Shown
    <2>3. Cardinality(Told(n)) = 0
        BY <1>2, <2>2, FS_EmptySet DEF Was
    <2>. QED
        BY <1>1, <2>3, CountsHold DEF CallsAreCountedOnce
<1>12. {ev[i] : i \in DOMAIN ev} = Began
    BY <1>4, <1>5
<1>. HIDE DEF InOrder
<1>13. /\ {Events[i] : i \in DOMAIN Events} = Began
       /\ \A i, j \in DOMAIN Events : i < j => Events[i].id < Events[j].id
    BY <1>4, <1>12 DEF Ordered
<1>. QED
    BY <1>9, <1>10, <1>11, <1>13 DEF ToolsAreTheRuns, InOrder

(* What is read of the stream of a run is what the run did: its calls are counted once, its  *)
(* spans tile its time, and its verdicts are about the calls it made.                        *)
THEOREM StreamsRead == StepsSpec => []StreamsAreReadRight
<1>1. StepsInit(Harnesses) => Lived /\ Followed /\ Replayed
    BY LivedInit, ReadInit
<1>2. Lived /\ Followed /\ Replayed /\ [StepsNext]_stepVars => Lived' /\ Followed' /\ Replayed'
    BY LivedStep, HeardStep, ReplayedStep
<1>3. Lived /\ Followed /\ Replayed => StreamsAreReadRight
    <2>1. Lived /\ Followed /\ Replayed => StreamAddsUp
        BY CountsHold, TilesHold DEF StreamAddsUp
    <2>2. Lived /\ Followed /\ Replayed => VerdictsAreTheRuns
        <3>1. Replayed => SkillIsTheRuns
            BY SkillHolds DEF Replayed
        <3>. QED
            BY <3>1, ToolsHold, UnsettledHolds DEF VerdictsAreTheRuns
    <2>. QED
        BY <2>1, <2>2 DEF StreamsAreReadRight
<1>. QED
    BY <1>1, <1>2, <1>3, PTL DEF StepsSpec
=============================================================================
