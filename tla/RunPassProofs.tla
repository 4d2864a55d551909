--------------------------- MODULE RunPassProofs ---------------------------
(***************************************************************************)
(* Theorems about RunPass, for any passes, runs, lanes, labels, prices and *)
(* faults that PassAssumption admits.                                      *)
(***************************************************************************)
EXTENDS RunPass, FiniteSetTheorems, TLAPS

LaneState == [pc : LanePCs, run : Runs \cup {NoRun}, src : Passes \cup {NoPass},
              tries : 0..(Retries + 1), before : Versions, given : Versions]

\* What a lane knows at each step of execute_run.
Shaped(s) ==
    /\ s.pc # "idle" => s.run \in Runs
    /\ s.pc = "idle" => s = Idle
    /\ s.pc = "restore" => s.src \in Passes
    /\ s.pc \in {"claimed", "restore", "admit"} => s.tries = 0
    /\ s.pc = "invoke" => s.tries <= Retries
    /\ s.pc = "attempt" => s.tries >= 1

LaneShape ==
    \A p \in Passes, l \in Lanes :
        /\ Shaped(lane[p][l])
        /\ phase[p] # "lanes" => lane[p][l].pc = "idle"

TypeInv == TypeOK /\ LaneShape

\* A step of lane l of pass p leaves every other lane as it was.
LaneOnly(p, l) == lane' = [lane EXCEPT ![p][l] = lane'[p][l]]

\* It settles at most the record of the lane's own run.
RunOnly(p, l) ==
    LET r == lane[p][l].run IN rec' = rec \/ (r \in Runs /\ rec' = [rec EXCEPT ![p][r] = rec'[p][r]])

\* Idle and Fresh are of the kind they stand for.
LEMMA Blank == Idle \in LaneState /\ Fresh \in Record /\ Shaped(Idle)
  BY PassAssumption DEF Idle, LaneState, LanePCs, Fresh, Record, Statuses, Versions, Shaped

\* The types of what a lane reads, in the form the proofs use them.
LEMMA LaneTypes ==
  ASSUME TypeInv, NEW p \in Passes, NEW l \in Lanes
  PROVE  /\ lane \in [Passes -> [Lanes -> LaneState]] /\ lane[p] \in [Lanes -> LaneState]
         /\ lane[p][l] \in LaneState /\ Shaped(lane[p][l])
         /\ skill \in Versions /\ todo[p] \subseteq Runs
         /\ rec[p] \in [Runs -> Record] /\ rec \in [Passes -> [Runs -> Record]]
         /\ opt[p] \in [config : Configs, mode : Modes, timed : TimeLimits] /\ opt[p].config \in Configs
         /\ digest[p] \in [skill : Versions, baseline : Versions] /\ digest[p].skill \in Versions
  BY DEF TypeInv, TypeOK, LaneState, LaneShape

\* Assigning one lane, whole or field by field, is a step of that lane.
LEMMA OneLane ==
  ASSUME lane \in [Passes -> [Lanes -> LaneState]], NEW p \in Passes, NEW l \in Lanes,
         NEW s, lane' = [lane EXCEPT ![p][l] = s]
  PROVE  LaneOnly(p, l) /\ lane'[p][l] = s
  BY DEF LaneOnly

\* A step of one lane, read lane by lane.
LEMMA EveryLane ==
  ASSUME TypeInv, NEW p \in Passes, NEW l \in Lanes, LaneOnly(p, l)
  PROVE  /\ \A q \in Passes, m \in Lanes :
              lane'[q][m] = IF q = p /\ m = l THEN lane'[p][l] ELSE lane[q][m]
         /\ lane'[p][l] \in LaneState => lane' \in [Passes -> [Lanes -> LaneState]]
<1>1. lane \in [Passes -> [Lanes -> LaneState]]
  BY LaneTypes
<1>2. PICK s : s = lane'[p][l]
  OBVIOUS
<1>3. lane' = [lane EXCEPT ![p][l] = s]
  BY <1>2 DEF LaneOnly
<1> QED BY <1>1, <1>2, <1>3

\* The records of Lookup's pointers.
LEMMA PointersAreTyped ==
  ASSUME TypeInv, NEW r \in Runs
  PROVE  /\ exact \subseteq Pointer /\ slot[r] \subseteq Pointer
         /\ \A e \in Pointer : e.pass \in Passes /\ e.run \in Runs /\ e.config \in Configs /\ e.hash \in Versions
  BY DEF TypeInv, TypeOK, Pointer

\* What each step of a lane makes of it.
LEMMA LaneMoves ==
  ASSUME TypeInv, NEW p \in Passes, NEW l \in Lanes
  PROVE  LET a == lane[p][l]
             b == lane'[p][l]
         IN
         /\ Claim(p, l) =>
              LaneOnly(p, l) /\ b.run \in todo[p] /\ b = [Idle EXCEPT !.pc = "claimed", !.run = b.run]
         /\ CaseGone(p, l) => LaneOnly(p, l) /\ b = Idle
         /\ PrepareFails(p, l) => LaneOnly(p, l) /\ b = Idle
         /\ Lookup(p, l) => LaneOnly(p, l) /\
              (b = [a EXCEPT !.pc = "admit"]
                 \/ (b.src \in Passes /\ b = [a EXCEPT !.pc = "restore", !.src = b.src]))
         /\ Restore(p, l) => LaneOnly(p, l) /\ (b = Idle \/ b = [a EXCEPT !.pc = "admit", !.src = NoPass])
         /\ Admit(p, l) => LaneOnly(p, l) /\ (b = Idle \/ b = [a EXCEPT !.pc = "invoke", !.before = skill])
         /\ Invoke(p, l) =>
              LaneOnly(p, l) /\ b = [a EXCEPT !.pc = "attempt", !.tries = a.tries + 1, !.given = skill]
         /\ Attempt(p, l) => LaneOnly(p, l) /\
              \/ a.tries <= Retries /\ b = [a EXCEPT !.pc = "invoke"] /\ rec' = rec
              \/ b = [a EXCEPT !.pc = "record"] \/ b = [a EXCEPT !.pc = "check"]
         /\ AttemptErrs(p, l) => LaneOnly(p, l) /\ b = [a EXCEPT !.pc = "check"]
         /\ RecordExact(p, l) =>
              LaneOnly(p, l) /\ (b = [a EXCEPT !.pc = "slot"] \/ b = [a EXCEPT !.pc = "check"])
         /\ RecordSlot(p, l) => LaneOnly(p, l) /\ b = [a EXCEPT !.pc = "check"]
         /\ Check(p, l) => LaneOnly(p, l) /\ b = Idle
<1> DEFINE a == lane[p][l]
           b == lane'[p][l]
<1>0. a \in LaneState /\ lane \in [Passes -> [Lanes -> LaneState]] /\ lane[p] \in [Lanes -> LaneState]
  BY LaneTypes
<1>1. ASSUME NEW pc, Goes(p, l, pc) PROVE LaneOnly(p, l) /\ b = [a EXCEPT !.pc = pc]
  BY <1>0, <1>1 DEF Goes, LaneOnly
<1>2. ASSUME Ends(p, l) PROVE LaneOnly(p, l) /\ b = Idle
  BY <1>0, <1>2 DEF Ends, LaneOnly
<1>3. ASSUME Claim(p, l)
      PROVE  LaneOnly(p, l) /\ b.run \in todo[p] /\ b = [Idle EXCEPT !.pc = "claimed", !.run = b.run]
  <2>1. PICK r \in todo[p] : lane' = [lane EXCEPT ![p][l] = [Idle EXCEPT !.pc = "claimed", !.run = r]]
    BY <1>3 DEF Claim
  <2>2. LaneOnly(p, l) /\ b = [Idle EXCEPT !.pc = "claimed", !.run = r]
    BY <2>1, <1>0, OneLane
  <2> QED BY <2>2 DEF Idle
<1>4. CaseGone(p, l) \/ PrepareFails(p, l) => LaneOnly(p, l) /\ b = Idle
  BY <1>2 DEF CaseGone, PrepareFails
<1>5. ASSUME Lookup(p, l)
      PROVE LaneOnly(p, l) /\ (b = [a EXCEPT !.pc = "admit"]
                 \/ (b.src \in Passes /\ b = [a EXCEPT !.pc = "restore", !.src = b.src]))
  <2>0. a.run \in Runs
    BY <1>5, LaneTypes DEF Lookup, At, Shaped
  <2>1. Goes(p, l, "admit") \/ \E e \in Pointer :
            lane' = [lane EXCEPT ![p][l].pc = "restore", ![p][l].src = e.pass]
    <3> DEFINE mine == ExactPointers(KeyInput(p, lane[p][l].run))
               kept == {e \in Standing(slot[a.run]) : SlotFresh(e, KeyInput(p, lane[p][l].run))}
    <3>1. Standing(mine) \subseteq Pointer /\ kept \subseteq Pointer
      BY <2>0, PointersAreTyped DEF ExactPointers, Standing
    <3>2. KeyInput(p, lane[p][l].run).run = a.run
      BY DEF KeyInput
    <3> HIDE DEF mine, kept
    <3>3. Goes(p, l, "admit") \/ \E e \in Standing(mine) \cup kept :
              lane' = [lane EXCEPT ![p][l].pc = "restore", ![p][l].src = e.pass]
      BY <1>5, <3>2 DEF Lookup, mine, kept
    <3> QED BY <3>1, <3>3
  <2>2. ASSUME NEW e \in Pointer, lane' = [lane EXCEPT ![p][l].pc = "restore", ![p][l].src = e.pass]
        PROVE  LaneOnly(p, l) /\ b.src \in Passes /\ b = [a EXCEPT !.pc = "restore", !.src = b.src]
    <3>1. e.pass \in Passes
      BY DEF Pointer
    <3> DEFINE s == [a EXCEPT !.pc = "restore", !.src = e.pass]
    <3>2. lane' = [lane EXCEPT ![p][l] = s]
      BY <2>2, <1>0
    <3>3. s.src = e.pass
      BY <1>0 DEF LaneState
    <3> HIDE DEF s
    <3>4. LaneOnly(p, l) /\ b = s
      BY <3>2, <1>0, OneLane
    <3> QED BY <3>1, <3>3, <3>4 DEF s
  <2> QED BY <2>1, <2>2, <1>1
<1>6. ASSUME Restore(p, l)
      PROVE  LaneOnly(p, l) /\ (b = Idle \/ b = [a EXCEPT !.pc = "admit", !.src = NoPass])
  <2>1. ASSUME lane' = [lane EXCEPT ![p][l].pc = "admit", ![p][l].src = NoPass]
        PROVE  LaneOnly(p, l) /\ b = [a EXCEPT !.pc = "admit", !.src = NoPass]
    BY <2>1, <1>0 DEF LaneOnly
  <2> QED BY <1>6, <2>1, <1>2 DEF Restore
<1>7. ASSUME Admit(p, l)
      PROVE  LaneOnly(p, l) /\ (b = Idle \/ b = [a EXCEPT !.pc = "invoke", !.before = skill])
  <2>1. ASSUME lane' = [lane EXCEPT ![p][l].pc = "invoke", ![p][l].before = skill]
        PROVE  LaneOnly(p, l) /\ b = [a EXCEPT !.pc = "invoke", !.before = skill]
    BY <2>1, <1>0 DEF LaneOnly
  <2> QED BY <1>7, <2>1, <1>2 DEF Admit
<1>8. ASSUME Invoke(p, l)
      PROVE  LaneOnly(p, l) /\ b = [a EXCEPT !.pc = "attempt", !.tries = a.tries + 1, !.given = skill]
  BY <1>8, <1>0 DEF Invoke, LaneOnly
<1>9. ASSUME Attempt(p, l)
      PROVE  LaneOnly(p, l) /\
              (\/ a.tries <= Retries /\ b = [a EXCEPT !.pc = "invoke"] /\ rec' = rec
               \/ b = [a EXCEPT !.pc = "record"] \/ b = [a EXCEPT !.pc = "check"])
  <2>1. \/ a.tries <= Retries /\ Goes(p, l, "invoke") /\ rec' = rec
        \/ Goes(p, l, "record") \/ Goes(p, l, "check")
    BY <1>9 DEF Attempt, MayRetry, After
  <2> QED BY <2>1, <1>1
<1>10. AttemptErrs(p, l) => LaneOnly(p, l) /\ b = [a EXCEPT !.pc = "check"]
  BY <1>1 DEF AttemptErrs
<1>11. RecordExact(p, l) =>
         LaneOnly(p, l) /\ (b = [a EXCEPT !.pc = "slot"] \/ b = [a EXCEPT !.pc = "check"])
  BY <1>1 DEF RecordExact
<1>12. RecordSlot(p, l) => LaneOnly(p, l) /\ b = [a EXCEPT !.pc = "check"]
  BY <1>1 DEF RecordSlot
<1>13. Check(p, l) => LaneOnly(p, l) /\ b = Idle
  BY <1>2 DEF Check
<1> QED BY <1>3, <1>4, <1>5, <1>6, <1>7, <1>8, <1>9, <1>10, <1>11, <1>12, <1>13

\* Every step of a lane belongs to one lane, and leaves it in a shape the next
\* step of execute_run expects.
LEMMA LaneStepTyped ==
  ASSUME TypeInv, NEW p \in Passes, NEW l \in Lanes, LaneStep(p, l)
  PROVE  /\ LaneOnly(p, l) /\ lane'[p][l] \in LaneState /\ Shaped(lane'[p][l])
         /\ phase[p] = "lanes" /\ phase' = phase
<1> DEFINE a == lane[p][l]
           b == lane'[p][l]
<1>1. /\ a \in LaneState /\ Shaped(a) /\ skill \in Versions /\ todo[p] \subseteq Runs
      /\ Idle \in LaneState /\ Shaped(Idle) /\ Retries \in Nat
  BY LaneTypes, Blank, PassAssumption
<1>2. phase[p] = "lanes" /\ phase' = phase
  BY DEF LaneStep, Claim, CaseGone, PrepareFails, Lookup, Restore, Admit, Invoke, Attempt, AttemptErrs,
         RecordExact, RecordSlot, Check, At
<1>3. CASE Claim(p, l)
  <2>1. LaneOnly(p, l) /\ b.run \in Runs /\ b = [Idle EXCEPT !.pc = "claimed", !.run = b.run]
    BY <1>1, <1>3, LaneMoves
  <2> QED BY <1>1, <1>2, <2>1 DEF LaneState, Shaped, LanePCs, Idle
<1>4. CASE CaseGone(p, l) \/ PrepareFails(p, l) \/ Check(p, l)
  BY <1>1, <1>2, <1>4, LaneMoves
<1>5. CASE Lookup(p, l)
  <2>1. a.pc = "claimed"
    BY <1>5 DEF Lookup, At
  <2>2. LaneOnly(p, l) /\ (b = [a EXCEPT !.pc = "admit"]
                 \/ (b.src \in Passes /\ b = [a EXCEPT !.pc = "restore", !.src = b.src]))
    BY <1>5, LaneMoves
  <2> QED BY <1>1, <1>2, <2>1, <2>2 DEF LaneState, Shaped, LanePCs
<1>6. CASE Restore(p, l)
  <2>1. a.pc = "restore"
    BY <1>6 DEF Restore, At
  <2>2. LaneOnly(p, l) /\ (b = Idle \/ b = [a EXCEPT !.pc = "admit", !.src = NoPass])
    BY <1>6, LaneMoves
  <2> QED BY <1>1, <1>2, <2>1, <2>2 DEF LaneState, Shaped, LanePCs
<1>7. CASE Admit(p, l)
  <2>1. a.pc = "admit"
    BY <1>7 DEF Admit, At
  <2>2. LaneOnly(p, l) /\ (b = Idle \/ b = [a EXCEPT !.pc = "invoke", !.before = skill])
    BY <1>7, LaneMoves
  <2> HIDE DEF a, b
  <2>3. ASSUME b = [a EXCEPT !.pc = "invoke", !.before = skill] PROVE b \in LaneState /\ Shaped(b)
    <3>1. b \in LaneState
      BY <1>1, <2>3 DEF LaneState, LanePCs
    <3>2. b.pc = "invoke" /\ b.run = a.run /\ b.tries = a.tries
      BY <1>1, <2>3 DEF LaneState
    <3> QED BY <1>1, <2>1, <3>1, <3>2 DEF Shaped
  <2> QED BY <1>1, <1>2, <2>2, <2>3 DEF a, b
<1>8. CASE Invoke(p, l)
  <2>1. a.pc = "invoke"
    BY <1>8 DEF Invoke, At
  <2>2. LaneOnly(p, l) /\ b = [a EXCEPT !.pc = "attempt", !.tries = a.tries + 1, !.given = skill]
    BY <1>8, LaneMoves
  <2> HIDE DEF a, b
  <2>3. b \in LaneState /\ Shaped(b)
    <3>1. a.tries \in 0..Retries /\ a.run \in Runs
      BY <1>1, <2>1 DEF LaneState, Shaped
    <3>2. b.pc = "attempt" /\ b.run = a.run /\ b.tries = a.tries + 1
      BY <1>1, <2>2 DEF LaneState
    <3>3. b.tries \in 1..(Retries + 1)
      BY <1>1, <3>1, <3>2
    <3>4. b \in LaneState
      <4>1. b = [pc |-> "attempt", run |-> a.run, src |-> a.src, tries |-> a.tries + 1,
                 before |-> a.before, given |-> skill]
        BY <1>1, <2>2 DEF LaneState
      <4>2. a.run \in Runs /\ a.src \in Passes \cup {NoPass} /\ a.before \in Versions
            /\ a.tries + 1 \in 0..(Retries + 1)
        BY <1>1, <3>1 DEF LaneState
      <4> QED BY <1>1, <4>1, <4>2 DEF LaneState, LanePCs
    <3> QED BY <3>1, <3>2, <3>3, <3>4 DEF Shaped
  <2> QED BY <1>2, <2>2, <2>3 DEF a, b
<1>9. CASE Attempt(p, l)
  <2>1. a.pc = "attempt"
    BY <1>9 DEF Attempt, At
  <2>2. LaneOnly(p, l) /\ (\/ a.tries <= Retries /\ b = [a EXCEPT !.pc = "invoke"]
                           \/ b = [a EXCEPT !.pc = "record"] \/ b = [a EXCEPT !.pc = "check"])
    BY <1>9, LaneMoves
  <2> QED BY <1>1, <1>2, <2>1, <2>2 DEF LaneState, Shaped, LanePCs
<1>10. CASE AttemptErrs(p, l) \/ RecordExact(p, l) \/ RecordSlot(p, l)
  <2>1. a.pc \in {"attempt", "record", "slot"}
    BY <1>10 DEF AttemptErrs, RecordExact, RecordSlot, At
  <2>2. LaneOnly(p, l) /\ (b = [a EXCEPT !.pc = "slot"] \/ b = [a EXCEPT !.pc = "check"])
    BY <1>10, LaneMoves
  <2> QED BY <1>1, <1>2, <2>1, <2>2 DEF LaneState, Shaped, LanePCs
<1> QED BY <1>3, <1>4, <1>5, <1>6, <1>7, <1>8, <1>9, <1>10 DEF LaneStep

\* What each step of a lane writes in the record of its run.
LEMMA RecordMoves ==
  ASSUME TypeInv, NEW p \in Passes, NEW l \in Lanes
  PROVE  LET r == lane[p][l].run
             was == rec[p][r]
             now == rec'[p][r]
         IN
         /\ LaneStep(p, l) => RunOnly(p, l)
         /\ PrepareFails(p, l) => now = [Fresh EXCEPT !.status = "failed"]
         /\ Restore(p, l) =>
              \/ rec' = rec /\ lane'[p][l] # Idle
              \/ \E report \in disk[lane[p][l].src] : now = [report[r] EXCEPT !.src = lane[p][l].src]
         /\ Admit(p, l) => rec' = rec \/ (now = Refused("budget") \/ now = Refused("control"))
         /\ Attempt(p, l) =>
              \/ rec' = rec /\ lane'[p][l].pc = "invoke"
              \/ \E status \in {"completed", "transient", "stopped"}, kind \in {"runner", "none"} :
                    now = Outcome(p, l, status, kind) /\ lane'[p][l].pc = After(p, status)
         /\ AttemptErrs(p, l) => now = Outcome(p, l, "failed", "runner")
         /\ Check(p, l) =>
              IF Serial THEN now = [was EXCEPT !.integrity = Integrity(lane[p][l].before)] ELSE rec' = rec
         /\ Claim(p, l) \/ CaseGone(p, l) \/ Lookup(p, l) \/ Invoke(p, l) \/ RecordExact(p, l) \/ RecordSlot(p, l) => rec' = rec
<1> DEFINE r == lane[p][l].run
           was == rec[p][r]
           now == rec'[p][r]
<1>0. /\ rec \in [Passes -> [Runs -> Record]] /\ rec[p] \in [Runs -> Record]
      /\ lane[p][l] \in LaneState /\ Shaped(lane[p][l]) /\ lane \in [Passes -> [Lanes -> LaneState]]
  BY LaneTypes
<1>1. ASSUME NEW entry, Settle(p, r, entry), r \in Runs
      PROVE  RunOnly(p, l) /\ now = entry
  BY <1>0, <1>1 DEF Settle, RunOnly
<1>2. ASSUME rec' = rec PROVE RunOnly(p, l)
  BY <1>2 DEF RunOnly
<1>3. ASSUME lane[p][l].pc # "idle" PROVE r \in Runs
  BY <1>0, <1>3 DEF Shaped
<1>4. ASSUME PrepareFails(p, l) PROVE RunOnly(p, l) /\ now = [Fresh EXCEPT !.status = "failed"]
  BY <1>1, <1>3, <1>4 DEF PrepareFails, At
<1>5. ASSUME Restore(p, l)
      PROVE  /\ RunOnly(p, l)
             /\ \/ rec' = rec /\ lane'[p][l] # Idle
                \/ \E report \in disk[lane[p][l].src] : now = [report[r] EXCEPT !.src = lane[p][l].src]
  <2>1. r \in Runs
    BY <1>3, <1>5 DEF Restore, At
  <2>2. CASE \E report \in disk[lane[p][l].src] : Settle(p, r, [report[r] EXCEPT !.src = lane[p][l].src])
    BY <2>2, <2>1, <1>1
  <2>3. CASE lane' = [lane EXCEPT ![p][l].pc = "admit", ![p][l].src = NoPass] /\ rec' = rec
    <3>1. lane'[p][l].pc = "admit"
      BY <2>3, <1>0 DEF LaneState
    <3>2. Idle.pc = "idle"
      BY DEF Idle
    <3> QED BY <3>1, <3>2, <2>3, <1>2
  <2> QED BY <1>5, <2>2, <2>3 DEF Restore
<1>6. ASSUME Admit(p, l)
      PROVE  RunOnly(p, l) /\ (rec' = rec \/ (now = Refused("budget") \/ now = Refused("control")))
  <2>1. r \in Runs
    BY <1>3, <1>6 DEF Admit, At
  <2>2. Settle(p, r, Refused("budget")) \/ Settle(p, r, Refused("control")) \/ rec' = rec
    BY <1>6 DEF Admit
  <2> QED BY <2>1, <2>2, <1>1, <1>2
<1>7. ASSUME Attempt(p, l)
      PROVE  /\ RunOnly(p, l)
             /\ \/ rec' = rec /\ lane'[p][l].pc = "invoke"
                \/ \E status \in {"completed", "transient", "stopped"}, kind \in {"runner", "none"} :
                      now = Outcome(p, l, status, kind) /\ lane'[p][l].pc = After(p, status)
  <2>1. r \in Runs
    BY <1>3, <1>7 DEF Attempt, At
  <2>2. ASSUME NEW pc, Goes(p, l, pc) PROVE lane'[p][l].pc = pc
    BY <2>2, <1>0 DEF Goes, LaneState
  <2>3. PICK status \in {"completed", "transient", "stopped"} :
          \/ Goes(p, l, "invoke") /\ rec' = rec
          \/ /\ Goes(p, l, After(p, status))
             /\ Settle(p, r, Outcome(p, l, status, IF status = "transient" THEN "runner" ELSE "none"))
    BY <1>7 DEF Attempt
  <2> QED BY <2>1, <2>2, <2>3, <1>1, <1>2
<1>8. ASSUME AttemptErrs(p, l) PROVE RunOnly(p, l) /\ now = Outcome(p, l, "failed", "runner")
  BY <1>1, <1>3, <1>8 DEF AttemptErrs, At
<1>9. ASSUME Check(p, l)
      PROVE  /\ RunOnly(p, l)
             /\ IF Serial THEN now = [was EXCEPT !.integrity = Integrity(lane[p][l].before)] ELSE rec' = rec
  <2>1. r \in Runs
    BY <1>3, <1>9 DEF Check, At
  <2> QED BY <1>9, <2>1, <1>0 DEF Check, RunOnly
<1>10. ASSUME Claim(p, l) \/ CaseGone(p, l) \/ Lookup(p, l) \/ Invoke(p, l) \/ RecordExact(p, l) \/ RecordSlot(p, l)
       PROVE  RunOnly(p, l) /\ rec' = rec
  BY <1>10, <1>2 DEF Claim, CaseGone, Lookup, Invoke, RecordExact, RecordSlot
<1> QED BY <1>4, <1>5, <1>6, <1>7, <1>8, <1>9, <1>10 DEF LaneStep

\* A settled record is a record.
LEMMA RecordsTyped ==
  ASSUME TypeInv, NEW p \in Passes, NEW l \in Lanes, LaneStep(p, l)
  PROVE  rec' \in [Passes -> [Runs -> Record]]
<1> DEFINE r == lane[p][l].run
           now == rec'[p][r]
<1>0. /\ rec \in [Passes -> [Runs -> Record]] /\ rec[p] \in [Runs -> Record]
      /\ lane[p][l] \in LaneState /\ Shaped(lane[p][l]) /\ Fresh \in Record
  BY LaneTypes, Blank
<1>1. RunOnly(p, l)
  BY RecordMoves
<1>2. SUFFICES ASSUME r \in Runs, rec' # rec PROVE now \in Record
  BY <1>0, <1>1 DEF RunOnly
<1>3. rec[p][r] \in Record
  BY <1>0, <1>2
<1>4. CASE PrepareFails(p, l)
  <2>1. now = [Fresh EXCEPT !.status = "failed"]
    BY <1>4, RecordMoves
  <2> QED BY <1>0, <2>1 DEF Record, Statuses
<1>5. CASE Restore(p, l)
  <2>1. lane[p][l].src \in Passes
    BY <1>0, <1>5 DEF Restore, At, Shaped
  <2>2. PICK report \in disk[lane[p][l].src] : now = [report[r] EXCEPT !.src = lane[p][l].src]
    BY <1>2, <1>5, RecordMoves
  <2>3. report[r] \in Record
    BY <2>1, <1>2 DEF TypeInv, TypeOK
  <2> QED BY <2>1, <2>2, <2>3 DEF Record
<1>6. CASE Admit(p, l)
  <2>1. now = Refused("budget") \/ now = Refused("control")
    BY <1>2, <1>6, RecordMoves
  <2> QED BY <2>1, <1>0 DEF Refused, Record
<1>7. CASE Attempt(p, l) \/ AttemptErrs(p, l)
  <2>1. \E status \in Statuses, kind \in {"runner", "none"} : now = Outcome(p, l, status, kind)
    BY <1>2, <1>7, RecordMoves, ZenonT(60) DEF Statuses
  <2>2. lane[p][l].given \in Versions
    BY <1>0 DEF LaneState
  <2> QED BY <2>1, <2>2 DEF Outcome, Record
<1>8. CASE Check(p, l)
  <2>1. now = [rec[p][r] EXCEPT !.integrity = Integrity(lane[p][l].before)]
    BY <1>2, <1>8, RecordMoves
  <2> QED BY <2>1, <1>3 DEF Integrity, Record
<1>9. CASE Claim(p, l) \/ CaseGone(p, l) \/ Lookup(p, l) \/ Invoke(p, l) \/ RecordExact(p, l) \/ RecordSlot(p, l)
  BY <1>2, <1>9, RecordMoves
<1> QED BY <1>4, <1>5, <1>6, <1>7, <1>8, <1>9 DEF LaneStep

\* The pointers a lane writes are pointers.
LEMMA CacheTyped ==
  ASSUME TypeInv, NEW p \in Passes, NEW l \in Lanes, LaneStep(p, l)
  PROVE  exact' \subseteq Pointer /\ slot' \in [Runs -> SUBSET Pointer]
<1> DEFINE k == KeyInput(p, lane[p][l].run)
<1>0. exact \subseteq Pointer /\ slot \in [Runs -> SUBSET Pointer]
  BY DEF TypeInv, TypeOK
<1>1. ASSUME lane[p][l].pc # "idle" PROVE k \in Pointer /\ k.run = lane[p][l].run /\ k.run \in Runs
  BY <1>1, LaneTypes DEF KeyInput, Pointer, Shaped
<1>2. CASE Lookup(p, l)
  <2>1. k.run \in Runs
    BY <1>1, <1>2 DEF Lookup, At
  <2> DEFINE reusable == {e \in Standing(slot[k.run]) : SlotFresh(e, k)}
  <2>2. reusable \subseteq Pointer
    BY <2>1, <1>0 DEF Standing
  <2>3. exact' \subseteq exact /\ (slot' = slot \/ slot' = [slot EXCEPT ![k.run] = reusable])
    BY <1>2 DEF Lookup
  <2> HIDE DEF reusable, k
  <2> QED BY <2>1, <2>2, <2>3, <1>0
<1>3. CASE RecordExact(p, l)
  <2>1. k \in Pointer
    BY <1>1, <1>3 DEF RecordExact, At
  <2>2. exact' \subseteq exact \cup {k} /\ slot' = slot
    BY <1>3 DEF RecordExact
  <2> QED BY <2>1, <2>2, <1>0
<1>4. CASE RecordSlot(p, l)
  <2>1. k \in Pointer /\ lane[p][l].run \in Runs
    BY <1>1, <1>4 DEF RecordSlot, At
  <2>2. exact' = exact /\ (slot' = slot \/ slot' = [slot EXCEPT ![lane[p][l].run] = {k}])
    BY <1>4 DEF RecordSlot
  <2> QED BY <2>1, <2>2, <1>0
<1>5. CASE UNCHANGED cache
  BY <1>0, <1>5 DEF cache
<1> QED
  BY <1>2, <1>3, <1>4, <1>5
     DEF LaneStep, Claim, CaseGone, PrepareFails, Restore, Admit, Invoke, Attempt, AttemptErrs, Check

\* The rest of what a step of a lane changes: the skill, who rewrote it, and
\* what was spent.
LEMMA TallyTyped ==
  ASSUME TypeInv, NEW p \in Passes, NEW l \in Lanes, LaneStep(p, l)
  PROVE  /\ skill' \in Versions /\ rewriters' \in [Passes -> SUBSET Runs] /\ spent' \in [Passes -> Nat]
         /\ todo' \in [Passes -> SUBSET Runs]
         /\ UNCHANGED <<phase, opt, digest, caseIndex, outcome>>
<1>0. /\ skill \in Versions /\ rewriters \in [Passes -> SUBSET Runs] /\ spent \in [Passes -> Nat]
      /\ todo \in [Passes -> SUBSET Runs] /\ Costs \subseteq Nat /\ MaxEdits \in Nat
  BY PassAssumption DEF TypeInv, TypeOK
<1>1. ASSUME MayRewrite(p, lane[p][l].run), lane[p][l].run \in Runs
      PROVE  skill' \in Versions /\ rewriters' \in [Passes -> SUBSET Runs]
  BY <1>0, <1>1 DEF MayRewrite, Versions
<1>2. CASE Claim(p, l)
  BY <1>0, <1>2 DEF Claim, outcome
<1>3. CASE Attempt(p, l)
  <2>1. lane[p][l].run \in Runs
    BY <1>3, LaneTypes DEF Attempt, At, Shaped
  <2>2. PICK cost \in Costs : spent' = [spent EXCEPT ![p] = @ + cost]
    BY <1>3 DEF Attempt
  <2>3. spent' \in [Passes -> Nat]
    BY <2>2, <1>0
  <2> QED BY <2>1, <2>3, <1>0, <1>1, <1>3 DEF Attempt, outcome
<1>4. CASE AttemptErrs(p, l)
  <2>1. lane[p][l].run \in Runs
    BY <1>4, LaneTypes DEF AttemptErrs, At, Shaped
  <2> QED BY <2>1, <1>0, <1>1, <1>4 DEF AttemptErrs, outcome
<1> QED
  BY <1>0, <1>2, <1>3, <1>4
     DEF LaneStep, CaseGone, PrepareFails, Lookup, Restore, Admit, Invoke, RecordExact, RecordSlot, Check, outcome

\* Before a pass the types hold and every lane is idle.
LEMMA TypeInit == Init => TypeInv
<1> SUFFICES ASSUME Init PROVE TypeInv
  OBVIOUS
<1>1. Idle \in LaneState /\ Fresh \in Record /\ Shaped(Idle) /\ 0 \in Versions
  BY Blank, PassAssumption DEF Versions
<1>2. TypeOK
  BY <1>1 DEF Init, TypeOK, LaneState
<1>3. LaneShape
  BY <1>1 DEF Init, LaneShape, Idle
<1> QED BY <1>2, <1>3 DEF TypeInv

\* The steps of the frame of a pass keep the types.
LEMMA FrameTyped ==
  ASSUME TypeInv, Edit \/ \E p \in Passes : Begin(p) \/ PassStep(p) \/ Interrupt(p) \/ Prune(p)
  PROVE  TypeInv'
<1> USE DEF TypeInv
<1>0. TypeOK /\ LaneShape /\ MaxEdits \in Nat
  BY PassAssumption
<1>1. CASE Edit
  <2>1. skill' \in Versions
    BY <1>0, <1>1 DEF Edit, TypeOK, Versions
  <2>2. UNCHANGED <<phase, opt, caseIndex, digest, todo, lane, rec, cache, outcome, spent, rewriters>>
    BY <1>1 DEF Edit
  <2> QED BY <2>1, <2>2, <1>0 DEF TypeOK, LaneShape, cache, outcome
<1> SUFFICES ASSUME NEW p \in Passes, Begin(p) \/ PassStep(p) \/ Interrupt(p) \/ Prune(p)
             PROVE  TypeInv'
  BY <1>1
<1>2. CASE Begin(p)
  <2>1. phase[p] = "unstarted" /\ phase' = [phase EXCEPT ![p] = "begun"]
        /\ digest' = [digest EXCEPT ![p].skill = skill] /\ disk' = [disk EXCEPT ![p] = {rec[p]}]
        /\ UNCHANGED <<skill, opt, caseIndex, todo, lane, rec, cache, spent, exit, rewriters>>
    BY <1>2 DEF Begin
  <2>2. digest' \in [Passes -> [skill : Versions, baseline : Versions]] /\ disk' \in [Passes -> SUBSET [Runs -> Record]]
        /\ phase' \in [Passes -> {"unstarted", "begun", "lanes", "checked", "over", "dead"}]
    <3>1. {rec[p]} \subseteq [Runs -> Record]
      BY <1>0 DEF TypeOK
    <3>2. disk \in [Passes -> SUBSET [Runs -> Record]]
      BY <1>0 DEF TypeOK
    <3> DEFINE Reports == SUBSET [Runs -> Record]
    <3>3. disk' \in [Passes -> Reports]
      <4>1. {rec[p]} \in Reports /\ disk \in [Passes -> Reports]
        BY <3>1, <3>2
      <4> HIDE DEF Reports
      <4> QED BY <2>1, <4>1
    <3>4. digest' \in [Passes -> [skill : Versions, baseline : Versions]]
      <4>1. digest[p] \in [skill : Versions, baseline : Versions] /\ skill \in Versions
        BY <1>0 DEF TypeOK
      <4>2. [digest[p] EXCEPT !.skill = skill] = [skill |-> skill, baseline |-> digest[p].baseline]
        BY <4>1
      <4>3. [digest[p] EXCEPT !.skill = skill] \in [skill : Versions, baseline : Versions]
        BY <4>1, <4>2
      <4> DEFINE Digests == [skill : Versions, baseline : Versions]
                 d == [digest[p] EXCEPT !.skill = skill]
      <4>4. digest \in [Passes -> Digests] /\ d \in Digests /\ digest' = [digest EXCEPT ![p] = d]
        BY <4>3, <2>1, <1>0 DEF TypeOK
      <4> HIDE DEF Digests, d
      <4>5. digest' \in [Passes -> Digests]
        BY <4>4
      <4> QED BY <4>5 DEF Digests
    <3>5. phase' \in [Passes -> {"unstarted", "begun", "lanes", "checked", "over", "dead"}]
      BY <2>1, <1>0 DEF TypeOK
    <3> QED BY <3>3, <3>4, <3>5
  <2>3. LaneShape'
    BY <2>1, <1>0 DEF LaneShape, TypeOK
  <2> QED BY <2>1, <2>2, <2>3, <1>0 DEF TypeOK, cache
<1>3. CASE OpenLanes(p)
  <2>1. phase[p] = "begun" /\ phase' = [phase EXCEPT ![p] = "lanes"]
        /\ digest' = [digest EXCEPT ![p].baseline = skill] /\ todo' = [todo EXCEPT ![p] = Runs]
        /\ UNCHANGED <<skill, opt, lane, rec, cache, outcome, spent, rewriters>>
    BY <1>3 DEF OpenLanes
  <2>2. digest' \in [Passes -> [skill : Versions, baseline : Versions]] /\ todo' \in [Passes -> SUBSET Runs]
        /\ phase' \in [Passes -> {"unstarted", "begun", "lanes", "checked", "over", "dead"}]
    BY <2>1, <1>0, ZenonT(60) DEF TypeOK
  <2>4. caseIndex' \in [Passes -> SUBSET Runs]
    <3>1. PICK gone \in SUBSET Vanishing : caseIndex' = [caseIndex EXCEPT ![p] = Runs \ gone]
      BY <1>3 DEF OpenLanes
    <3>2. Runs \ gone \in SUBSET Runs
      OBVIOUS
    <3> QED BY <3>1, <3>2, <1>0 DEF TypeOK
  <2>3. LaneShape'
    BY <2>1, <1>0 DEF LaneShape, TypeOK
  <2> QED BY <2>1, <2>2, <2>3, <2>4, <1>0 DEF TypeOK, cache, outcome
<1>4. CASE CloseLanes(p)
  <2>1. phase' = [phase EXCEPT ![p] = "checked"] /\ (\A l \in Lanes : lane[p][l].pc = "idle")
        /\ UNCHANGED <<skill, opt, caseIndex, digest, todo, lane, cache, outcome, spent, rewriters>>
    BY <1>4 DEF CloseLanes, Drained
  <2>2. PassIntegrity(p) \in [Runs -> Record]
    <3>1. ASSUME NEW r \in Runs
          PROVE  rec[p][r] \in Record /\ [rec[p][r] EXCEPT !.integrity = Integrity(digest[p].baseline)] \in Record
      <4>1. rec[p][r] \in Record
        BY <1>0 DEF TypeOK
      <4>2. Integrity(digest[p].baseline) \in {"kept", "tampered"}
        BY DEF Integrity
      <4> QED BY <4>1, <4>2 DEF Record
    <3> QED BY <3>1 DEF PassIntegrity
  <2>3. rec' \in [Passes -> [Runs -> Record]]
        /\ phase' \in [Passes -> {"unstarted", "begun", "lanes", "checked", "over", "dead"}]
    BY <2>1, <2>2, <1>0, <1>4 DEF TypeOK, CloseLanes
  <2>4. LaneShape'
    BY <2>1, <1>0 DEF LaneShape, TypeOK
  <2> QED BY <2>1, <2>3, <2>4, <1>0 DEF TypeOK, cache, outcome
<1>5. CASE Rewrite(p)
  <2>1. /\ phase[p] = "checked"
        /\ phase' = [phase EXCEPT ![p] = "over"] \/ phase' = [phase EXCEPT ![p] = "dead"]
        /\ disk' = disk \/ disk' = [disk EXCEPT ![p] = {rec[p]}]
        /\ \E code \in {"budget", "clean", "broken"} : exit' = [exit EXCEPT ![p] = code]
        /\ UNCHANGED <<skill, opt, caseIndex, digest, todo, lane, rec, cache, spent, rewriters>>
    BY <1>5 DEF Rewrite
  <2>2. /\ phase' \in [Passes -> {"unstarted", "begun", "lanes", "checked", "over", "dead"}]
        /\ disk' \in [Passes -> SUBSET [Runs -> Record]]
        /\ exit' \in [Passes -> {"none", "clean", "budget", "broken"}]
    <3>1. {rec[p]} \subseteq [Runs -> Record]
      BY <1>0 DEF TypeOK
    <3>2. disk \in [Passes -> SUBSET [Runs -> Record]]
      BY <1>0 DEF TypeOK
    <3> DEFINE Reports == SUBSET [Runs -> Record]
    <3>3. disk' \in [Passes -> Reports]
      <4>1. {rec[p]} \in Reports /\ disk \in [Passes -> Reports]
        BY <3>1, <3>2
      <4> HIDE DEF Reports
      <4> QED BY <2>1, <4>1
    <3> QED BY <2>1, <3>3, <1>0, ZenonT(60) DEF TypeOK
  <2>3. LaneShape'
    BY <2>1, <1>0 DEF LaneShape, TypeOK
  <2> QED BY <2>1, <2>2, <2>3, <1>0 DEF TypeOK, cache
<1>6. CASE Interrupt(p)
  <2>1. phase' = [phase EXCEPT ![p] = "dead"] /\ lane' = [lane EXCEPT ![p] = [l \in Lanes |-> Idle]]
        /\ todo' = [todo EXCEPT ![p] = {}]
        /\ UNCHANGED <<skill, opt, caseIndex, digest, rec, cache, outcome, spent, rewriters>>
    BY <1>6 DEF Interrupt
  <2>2. Idle \in LaneState /\ Shaped(Idle) /\ Idle.pc = "idle"
    BY Blank DEF Idle
  <2>3. /\ phase' \in [Passes -> {"unstarted", "begun", "lanes", "checked", "over", "dead"}]
        /\ todo' \in [Passes -> SUBSET Runs] /\ lane' \in [Passes -> [Lanes -> LaneState]]
    BY <2>1, <2>2, <1>0 DEF TypeOK, LaneState
  <2>4. LaneShape'
    BY <2>1, <2>2, <1>0 DEF LaneShape, TypeOK
  <2> QED BY <2>1, <2>3, <2>4, <1>0 DEF TypeOK, LaneState, cache, outcome
<1>7. CASE Prune(p)
  <2>1. disk' = [disk EXCEPT ![p] = {}]
        /\ UNCHANGED <<skill, phase, opt, caseIndex, digest, todo, lane, rec, cache, spent, exit, rewriters>>
    BY <1>7 DEF Prune
  <2>2. disk' \in [Passes -> SUBSET [Runs -> Record]]
    BY <2>1, <1>0 DEF TypeOK
  <2> QED BY <2>1, <2>2, <1>0 DEF TypeOK, LaneShape, cache
<1> QED BY <1>2, <1>3, <1>4, <1>5, <1>6, <1>7 DEF PassStep

\* The types and the shape of the lanes hold at every step.
LEMMA TypeStep ==
  ASSUME TypeInv, [Next]_vars
  PROVE  TypeInv'
<1>1. CASE Edit \/ \E p \in Passes : Begin(p) \/ PassStep(p) \/ Interrupt(p) \/ Prune(p)
  BY <1>1, FrameTyped
<1>2. ASSUME NEW p \in Passes, NEW l \in Lanes, LaneStep(p, l) PROVE TypeInv'
  <2>1. /\ LaneOnly(p, l) /\ lane'[p][l] \in LaneState /\ Shaped(lane'[p][l])
        /\ phase[p] = "lanes" /\ phase' = phase
    BY <1>2, LaneStepTyped
  <2>2. rec' \in [Passes -> [Runs -> Record]]
    BY <1>2, RecordsTyped
  <2>3. exact' \subseteq Pointer /\ slot' \in [Runs -> SUBSET Pointer]
    BY <1>2, CacheTyped
  <2>4. /\ skill' \in Versions /\ rewriters' \in [Passes -> SUBSET Runs] /\ spent' \in [Passes -> Nat]
        /\ todo' \in [Passes -> SUBSET Runs]
        /\ UNCHANGED <<phase, opt, digest, caseIndex, outcome>>
    BY <1>2, TallyTyped
  <2>5. lane' \in [Passes -> [Lanes -> LaneState]]
    BY <2>1, EveryLane
  <2>6. LaneShape'
    BY <2>1, EveryLane DEF TypeInv, LaneShape
  <2>7. TypeOK'
    BY <2>2, <2>3, <2>4, <2>5 DEF TypeInv, TypeOK, LaneState, outcome
  <2> QED BY <2>6, <2>7 DEF TypeInv
<1>3. CASE UNCHANGED vars
  BY <1>3 DEF vars, cache, outcome, TypeInv, TypeOK, LaneShape
<1> QED BY <1>1, <1>2, <1>3 DEF Next

\* Every variable keeps its type, and every lane the shape of its step.
THEOREM TypeCorrect == Spec => []TypeInv
  BY TypeInit, TypeStep, PTL DEF Spec

\* Every variable keeps its type, whatever the prices, faults and lanes.
THEOREM TypeSafe == Spec => []TypeOK
  BY TypeCorrect, PTL DEF TypeInv

------------------------------------------------------------------------------
(* A run is settled once. *)

\* The steps of a lane before its run has a record.
Unsettled == {"claimed", "restore", "admit", "invoke", "attempt"}

\* The queue and the lanes share the runs of a pass out: a run that waits or is
\* under way has a blank record, and no run is in two places.
QueueInv ==
    \A p \in Passes :
        /\ \A r \in todo[p] : rec[p][r] = Fresh
        /\ \A l \in Lanes :
              /\ lane[p][l].pc # "idle" => lane[p][l].run \notin todo[p]
              /\ lane[p][l].pc \in Unsettled => rec[p][lane[p][l].run] = Fresh
              /\ \A m \in Lanes :
                    lane[p][l].pc # "idle" /\ lane[p][m].pc # "idle" /\ lane[p][l].run = lane[p][m].run => l = m
        /\ phase[p] \in {"unstarted", "begun"} => \A r \in Runs : rec[p][r] = Fresh
        /\ phase[p] # "lanes" => todo[p] = {}

\* A step of a lane takes a run off the queue, ends its run, or stays with it;
\* while the run has no record, the step writes none.
LEMMA LaneKeepsItsRun ==
  ASSUME TypeInv, NEW p \in Passes, NEW l \in Lanes, LaneStep(p, l)
  PROVE  LET a == lane[p][l]
             b == lane'[p][l]
         IN \/ /\ b.run \in todo[p] /\ b.pc = "claimed" /\ a.pc = "idle" /\ rec' = rec
               /\ todo' = [todo EXCEPT ![p] = @ \ {b.run}]
            \/ /\ todo' = todo /\ a.pc # "idle"
               /\ \/ b.pc = "idle"
                  \/ /\ b.run = a.run /\ b.pc # "idle"
                     /\ b.pc \in Unsettled => a.pc \in Unsettled /\ rec' = rec
<1> DEFINE a == lane[p][l]
           b == lane'[p][l]
<1>1. a \in LaneState /\ Idle \in LaneState /\ Idle.pc = "idle"
  BY LaneTypes, Blank DEF Idle
<1>2. CASE Claim(p, l)
  <2>1. PICK r \in todo[p] : /\ lane' = [lane EXCEPT ![p][l] = [Idle EXCEPT !.pc = "claimed", !.run = r]]
                             /\ todo' = [todo EXCEPT ![p] = @ \ {r}]
    BY <1>2 DEF Claim
  <2>2. b = [Idle EXCEPT !.pc = "claimed", !.run = r]
    BY <2>1, LaneTypes, OneLane
  <2>3. b.pc = "claimed" /\ b.run = r
    BY <2>2 DEF Idle
  <2>4. rec' = rec /\ a.pc = "idle"
    BY <1>2 DEF Claim, At
  <2> QED BY <2>1, <2>3, <2>4
<1>3. CASE CaseGone(p, l) \/ PrepareFails(p, l) \/ Check(p, l)
  <2>1. b = Idle
    BY <1>3, LaneMoves
  <2>2. todo' = todo /\ a.pc # "idle"
    BY <1>3 DEF CaseGone, PrepareFails, Check, At
  <2> QED BY <1>1, <2>1, <2>2
<1>4. CASE Lookup(p, l)
  <2>1. b = [a EXCEPT !.pc = "admit"] \/ b = [a EXCEPT !.pc = "restore", !.src = b.src]
    BY <1>4, LaneMoves
  <2>2. b.run = a.run /\ b.pc \in {"admit", "restore"}
    BY <2>1, <1>1 DEF LaneState
  <2>3. todo' = todo /\ rec' = rec /\ a.pc = "claimed"
    BY <1>4 DEF Lookup, At
  <2> QED BY <2>2, <2>3 DEF Unsettled
<1>5. CASE Restore(p, l)
  <2>1. b = Idle \/ b = [a EXCEPT !.pc = "admit", !.src = NoPass]
    BY <1>5, LaneMoves
  <2>2. todo' = todo /\ a.pc = "restore"
    BY <1>5 DEF Restore, At
  <2>3. b # Idle => rec' = rec
    <3>1. Ends(p, l) \/ rec' = rec
      BY <1>5 DEF Restore
    <3>2. Ends(p, l) => b = Idle
      BY LaneTypes, OneLane DEF Ends
    <3> QED BY <3>1, <3>2
  <2>4. b = Idle \/ (b.run = a.run /\ b.pc = "admit")
    BY <2>1, <1>1 DEF LaneState
  <2> QED BY <2>2, <2>3, <2>4, <1>1 DEF Unsettled
<1>6. CASE Admit(p, l)
  <2>1. b = Idle \/ b = [a EXCEPT !.pc = "invoke", !.before = skill]
    BY <1>6, LaneMoves
  <2>2. todo' = todo /\ a.pc = "admit"
    BY <1>6 DEF Admit, At
  <2>3. b # Idle => rec' = rec
    BY <1>6, LaneTypes DEF Admit, Ends
  <2>4. b = Idle \/ (b.run = a.run /\ b.pc = "invoke")
    BY <2>1, <1>1 DEF LaneState
  <2> QED BY <2>2, <2>3, <2>4, <1>1 DEF Unsettled
<1>7. CASE Invoke(p, l)
  <2>1. b = [a EXCEPT !.pc = "attempt", !.tries = a.tries + 1, !.given = skill]
    BY <1>7, LaneMoves
  <2>2. b.run = a.run /\ b.pc = "attempt"
    BY <2>1, <1>1 DEF LaneState
  <2>3. todo' = todo /\ rec' = rec /\ a.pc = "invoke"
    BY <1>7 DEF Invoke, At
  <2> QED BY <2>2, <2>3 DEF Unsettled
<1>8. CASE Attempt(p, l)
  <2>1. (b = [a EXCEPT !.pc = "invoke"] /\ rec' = rec) \/ b = [a EXCEPT !.pc = "record"]
        \/ b = [a EXCEPT !.pc = "check"]
    BY <1>8, LaneMoves
  <2>2. todo' = todo /\ a.pc = "attempt"
    BY <1>8 DEF Attempt, At
  <2>3. b.run = a.run /\ ((b.pc = "invoke" /\ rec' = rec) \/ b.pc \in {"record", "check"})
    BY <2>1, <1>1 DEF LaneState
  <2> QED BY <2>2, <2>3 DEF Unsettled
<1>9. CASE AttemptErrs(p, l) \/ RecordExact(p, l) \/ RecordSlot(p, l)
  <2>1. b = [a EXCEPT !.pc = "slot"] \/ b = [a EXCEPT !.pc = "check"]
    BY <1>9, LaneMoves
  <2>2. todo' = todo /\ a.pc # "idle"
    BY <1>9 DEF AttemptErrs, RecordExact, RecordSlot, At
  <2>3. b.run = a.run /\ b.pc \in {"slot", "check"}
    BY <2>1, <1>1 DEF LaneState
  <2> QED BY <2>2, <2>3 DEF Unsettled
<1> QED BY <1>2, <1>3, <1>4, <1>5, <1>6, <1>7, <1>8, <1>9 DEF LaneStep

\* What a step of a lane leaves of the records: only its own run's may change.
LEMMA OtherRecords ==
  ASSUME TypeInv, NEW p \in Passes, NEW l \in Lanes, LaneStep(p, l)
  PROVE  /\ lane[p][l].pc = "idle" => rec' = rec
         /\ \A q \in Passes, r \in Runs : q # p \/ r # lane[p][l].run => rec'[q][r] = rec[q][r]
<1>1. RunOnly(p, l) /\ rec \in [Passes -> [Runs -> Record]]
  BY RecordMoves, LaneTypes
<1>2. lane[p][l].pc = "idle" => rec' = rec
  BY LaneKeepsItsRun
<1>3. PICK entry : entry = rec'[p][lane[p][l].run]
  OBVIOUS
<1>4. rec' = rec \/ rec' = [rec EXCEPT ![p][lane[p][l].run] = entry]
  BY <1>1, <1>3 DEF RunOnly
<1> QED BY <1>1, <1>2, <1>4

\* The sharing out of runs starts true.
LEMMA QueueInit == Init => QueueInv
  BY DEF Init, QueueInv, Idle, Unsettled

\* Every step keeps the runs shared out.
LEMMA QueueStep ==
  ASSUME TypeInv, QueueInv, [Next]_vars
  PROVE  QueueInv'
<1>0. /\ phase \in [Passes -> {"unstarted", "begun", "lanes", "checked", "over", "dead"}]
      /\ todo \in [Passes -> SUBSET Runs]
      /\ LaneShape
  BY DEF TypeInv, TypeOK
<1>1. CASE Edit \/ \E p \in Passes : Begin(p) \/ Prune(p) \/ Rewrite(p)
  <2>1. UNCHANGED <<todo, lane, rec>>
    BY <1>1 DEF Edit, Begin, Prune, Rewrite
  <2>2. \A p \in Passes : \/ phase'[p] = phase[p]
                          \/ phase[p] = "unstarted" /\ phase'[p] = "begun"
                          \/ phase[p] # "lanes" /\ phase'[p] \in {"over", "dead"}
    BY <1>0, <1>1 DEF Edit, Begin, Prune, Rewrite
  <2> QED BY <2>1, <2>2 DEF QueueInv
<1>2. ASSUME NEW p \in Passes, OpenLanes(p) PROVE QueueInv'
  <2>1. /\ phase[p] = "begun" /\ phase' = [phase EXCEPT ![p] = "lanes"]
        /\ todo' = [todo EXCEPT ![p] = Runs] /\ UNCHANGED <<lane, rec>>
    BY <1>2 DEF OpenLanes
  <2>2. \A l \in Lanes : lane[p][l].pc = "idle"
    BY <2>1, <1>0 DEF LaneShape
  <2>3. \A q \in Passes : q # p => phase'[q] = phase[q] /\ todo'[q] = todo[q]
    BY <2>1, <1>0
  <2>4. phase'[p] = "lanes" /\ todo'[p] = Runs
    BY <2>1, <1>0
  <2>5. "idle" \notin Unsettled
    BY DEF Unsettled
  <2> QED BY <2>1, <2>2, <2>3, <2>4, <2>5 DEF QueueInv
<1>3. ASSUME NEW p \in Passes, CloseLanes(p) PROVE QueueInv'
  <2>1. /\ phase[p] = "lanes" /\ phase' = [phase EXCEPT ![p] = "checked"] /\ todo[p] = {}
        /\ (\A l \in Lanes : lane[p][l].pc = "idle") /\ UNCHANGED <<todo, lane>>
    BY <1>3 DEF CloseLanes, Drained
  <2>2. \A q \in Passes : q # p => phase'[q] = phase[q] /\ rec'[q] = rec[q]
    BY <2>1, <1>0, <1>3 DEF CloseLanes, TypeInv, TypeOK
  <2>3. phase'[p] = "checked"
    BY <2>1, <1>0
  <2>4. "idle" \notin Unsettled
    BY DEF Unsettled
  <2> QED BY <2>1, <2>2, <2>3, <2>4 DEF QueueInv
<1>4. ASSUME NEW p \in Passes, Interrupt(p) PROVE QueueInv'
  <2>1. /\ phase[p] \in {"begun", "lanes", "checked"} /\ phase' = [phase EXCEPT ![p] = "dead"]
        /\ lane' = [lane EXCEPT ![p] = [l \in Lanes |-> Idle]] /\ todo' = [todo EXCEPT ![p] = {}]
        /\ rec' = rec
    BY <1>4 DEF Interrupt, Active
  <2>2. \A q \in Passes : q # p => phase'[q] = phase[q] /\ todo'[q] = todo[q] /\ lane'[q] = lane[q]
    BY <2>1, <1>0, LaneTypes
  <2>3. phase'[p] = "dead" /\ todo'[p] = {} /\ \A l \in Lanes : lane'[p][l].pc = "idle"
    BY <2>1, <1>0, LaneTypes DEF Idle
  <2>4. "idle" \notin Unsettled
    BY DEF Unsettled
  <2> QED BY <2>1, <2>2, <2>3, <2>4 DEF QueueInv
<1>5. ASSUME NEW p \in Passes, NEW l \in Lanes, LaneStep(p, l) PROVE QueueInv'
  <2> DEFINE a == lane[p][l]
             b == lane'[p][l]
  <2>1. \/ /\ b.run \in todo[p] /\ b.pc = "claimed" /\ a.pc = "idle" /\ rec' = rec
           /\ todo' = [todo EXCEPT ![p] = @ \ {b.run}]
        \/ /\ todo' = todo /\ a.pc # "idle"
           /\ \/ b.pc = "idle"
              \/ /\ b.run = a.run /\ b.pc # "idle"
                 /\ b.pc \in Unsettled => a.pc \in Unsettled /\ rec' = rec
    BY <1>5, LaneKeepsItsRun
  <2>2. phase' = phase /\ LaneOnly(p, l) /\ phase[p] = "lanes"
    BY <1>5, LaneStepTyped
  <2>3. \A q \in Passes, m \in Lanes : lane'[q][m] = IF q = p /\ m = l THEN b ELSE lane[q][m]
    BY <2>2, EveryLane
  <2>4. /\ a.pc = "idle" => rec' = rec
        /\ \A q \in Passes, r \in Runs : q # p \/ r # a.run => rec'[q][r] = rec[q][r]
    BY <1>5, OtherRecords
  <2>5. \A q \in Passes, m \in Lanes : lane[q][m].pc # "idle" => lane[q][m].run \in Runs
    BY <1>0 DEF LaneShape, Shaped
  <2> HIDE DEF a, b
  <2>6. "idle" \notin Unsettled /\ "claimed" \in Unsettled /\ a = lane[p][l]
    BY DEF Unsettled, a
  <2>7. ASSUME NEW q \in Passes, q # p
        PROVE  /\ todo'[q] = todo[q] /\ \A m \in Lanes : lane'[q][m] = lane[q][m]
               /\ \A r \in Runs : rec'[q][r] = rec[q][r]
    BY <2>1, <2>3, <2>4, <2>7, <1>0
  <2>8. ASSUME NEW q \in Passes, NEW r \in todo'[q] PROVE rec'[q][r] = Fresh
    <3>1. r \in todo[q] /\ r \in Runs
      BY <2>1, <2>7, <2>8, <1>0
    <3>2. q = p /\ a.pc # "idle" => r # a.run
      BY <3>1, <2>6 DEF QueueInv
    <3> QED BY <3>1, <3>2, <2>4 DEF QueueInv
  <2>9. ASSUME NEW q \in Passes, NEW m \in Lanes, lane'[q][m].pc # "idle"
        PROVE lane'[q][m].run \notin todo'[q]
    <3>1. CASE q # p
      BY <3>1, <2>7, <2>9 DEF QueueInv
    <3>2. CASE q = p /\ m = l
      BY <3>2, <2>1, <2>3, <2>6, <2>9, <1>0 DEF QueueInv
    <3>3. CASE q = p /\ m # l
      BY <3>3, <2>1, <2>3, <2>9, <1>0 DEF QueueInv
    <3> QED BY <3>1, <3>2, <3>3
  <2>10. ASSUME NEW q \in Passes, NEW m \in Lanes, lane'[q][m].pc \in Unsettled
         PROVE rec'[q][lane'[q][m].run] = Fresh
    <3>1. CASE q # p
      BY <3>1, <2>5, <2>6, <2>7, <2>10 DEF QueueInv
    <3>2. CASE q = p /\ m = l
      BY <3>2, <2>1, <2>3, <2>6, <2>10, <1>0 DEF QueueInv
    <3>3. CASE q = p /\ m # l
      <4>1. lane'[p][m] = lane[p][m] /\ lane[p][m].pc # "idle" /\ lane[p][m].run \in Runs
        BY <3>3, <2>3, <2>5, <2>6, <2>10
      <4>2. a.pc # "idle" => lane[p][m].run # a.run
        BY <4>1, <3>3, <2>6 DEF QueueInv
      <4> QED BY <4>1, <4>2, <3>3, <2>4, <2>10 DEF QueueInv
    <3> QED BY <3>1, <3>2, <3>3
  <2>11. ASSUME NEW q \in Passes, NEW m \in Lanes, NEW n \in Lanes,
                lane'[q][m].pc # "idle", lane'[q][n].pc # "idle", lane'[q][m].run = lane'[q][n].run
         PROVE  m = n
    <3>1. CASE q # p
      BY <3>1, <2>7, <2>11 DEF QueueInv
    <3>2. CASE q = p /\ m # l /\ n # l
      BY <3>2, <2>3, <2>11 DEF QueueInv
    <3>3. ASSUME NEW k \in Lanes, k # l, lane[p][k].pc # "idle", b.pc # "idle" PROVE lane[p][k].run # b.run
      BY <3>3, <2>1, <2>6 DEF QueueInv
    <3> QED BY <3>1, <3>2, <3>3, <2>3, <2>11
  <2>12. ASSUME NEW q \in Passes
         PROVE  /\ phase'[q] \in {"unstarted", "begun"} => \A r \in Runs : rec'[q][r] = Fresh
                /\ phase'[q] # "lanes" => todo'[q] = {}
    BY <2>2, <2>7 DEF QueueInv
  <2> QED BY <2>8, <2>9, <2>10, <2>11, <2>12 DEF QueueInv
<1>6. CASE UNCHANGED vars
  BY <1>6 DEF vars, QueueInv
<1> QED BY <1>1, <1>2, <1>3, <1>4, <1>5, <1>6 DEF Next, PassStep

\* A step that finds the runs shared out settles only runs without a record.
LEMMA SettlesBlanks ==
  ASSUME TypeInv, QueueInv, [Next]_vars, NEW p \in Passes, NEW r \in Runs, rec[p][r] # Fresh
  PROVE  rec'[p][r] = [rec[p][r] EXCEPT !.integrity = rec'[p][r].integrity]
<1>0. rec \in [Passes -> [Runs -> Record]] /\ rec[p][r] \in Record
  BY DEF TypeInv, TypeOK
<1>1. CASE rec'[p][r] = rec[p][r]
  BY <1>0, <1>1 DEF Record
<1>2. ASSUME NEW value, rec'[p][r] = [rec[p][r] EXCEPT !.integrity = value]
      PROVE  rec'[p][r] = [rec[p][r] EXCEPT !.integrity = rec'[p][r].integrity]
  BY <1>0, <1>2 DEF Record
<1>3. ASSUME NEW q \in Passes, CloseLanes(q)
      PROVE  rec'[p][r] = rec[p][r] \/ \E value : rec'[p][r] = [rec[p][r] EXCEPT !.integrity = value]
  BY <1>0, <1>3 DEF CloseLanes, PassIntegrity
<1>4. ASSUME NEW q \in Passes, NEW l \in Lanes, LaneStep(q, l)
      PROVE  rec'[p][r] = rec[p][r] \/ \E value : rec'[p][r] = [rec[p][r] EXCEPT !.integrity = value]
  <2>1. CASE q # p \/ r # lane[q][l].run
    BY <2>1, <1>4, OtherRecords
  <2>2. CASE q = p /\ r = lane[q][l].run /\ lane[q][l].pc \in Unsettled
    <3>1. rec[p][r] = Fresh
      BY <2>2 DEF QueueInv
    <3> QED BY <3>1
  <2>3. CASE q = p /\ r = lane[q][l].run /\ lane[q][l].pc \notin Unsettled
    <3>1. Claim(q, l) \/ RecordExact(q, l) \/ RecordSlot(q, l) \/ Check(q, l)
      BY <2>3, <1>4 DEF LaneStep, CaseGone, PrepareFails, Lookup, Restore, Admit, Invoke, Attempt, AttemptErrs, At, Unsettled
    <3>2. ASSUME Check(q, l) PROVE rec' = rec \/ \E value : rec'[p][r] = [rec[p][r] EXCEPT !.integrity = value]
      <4>1. \/ rec' = rec
            \/ rec'[q][lane[q][l].run] = [rec[q][lane[q][l].run] EXCEPT !.integrity = Integrity(lane[q][l].before)]
        BY <3>2, RecordMoves
      <4> QED BY <4>1, <2>3
    <3>3. Claim(q, l) \/ RecordExact(q, l) \/ RecordSlot(q, l) => rec' = rec
      BY DEF Claim, RecordExact, RecordSlot
    <3> QED BY <3>1, <3>2, <3>3
  <2> QED BY <2>1, <2>2, <2>3
<1>5. CASE Edit \/ (\E q \in Passes : Begin(q) \/ OpenLanes(q) \/ Rewrite(q) \/ Interrupt(q) \/ Prune(q))
           \/ UNCHANGED vars
  BY <1>5, <1>1 DEF Edit, Begin, OpenLanes, Rewrite, Interrupt, Prune, vars
<1> QED BY <1>1, <1>2, <1>3, <1>4, <1>5 DEF Next, PassStep

\* The runs of a pass are shared out between the queue and the lanes.
THEOREM QueueSafe == Spec => [](TypeInv /\ QueueInv)
  BY TypeInit, TypeStep, QueueInit, QueueStep, PTL DEF Spec

\* A run is settled by one lane, once, for any number of lanes and any faults:
\* after that only the check of the skill touches its record.
THEOREM SettledOnce == Spec => RunsSettleOnce
<1>1. TypeInv /\ QueueInv /\ [Next]_vars =>
        [\A p \in Passes, r \in Runs :
            rec[p][r].status # "skipped" => rec'[p][r] = [rec[p][r] EXCEPT !.integrity = rec'[p][r].integrity]]_vars
  <2>1. Fresh.status = "skipped"
    BY DEF Fresh
  <2> QED BY <2>1, SettlesBlanks
<1> QED BY <1>1, QueueSafe, PTL DEF Spec, RunsSettleOnce

------------------------------------------------------------------------------
(* How far a pass can overshoot its ceiling. *)

\* The attempts a pass may still be charged for: those that each run under way
\* has left of its retries, the one that is running included.
Slots == Lanes \X (1..(Retries + 1))

Owed(p) == {x \in Slots :
    \/ lane[p][x[1]].pc = "invoke" /\ x[2] > lane[p][x[1]].tries
    \/ lane[p][x[1]].pc = "attempt" /\ x[2] >= lane[p][x[1]].tries}

\* What was spent and what may still be charged, taken together, stay below the
\* bound, whichever attempts end first.
BudgetInv ==
    \A p \in Passes :
        spent[p] + Cardinality(Owed(p)) * Dearest < Ceiling + Cardinality(Lanes) * (Retries + 1) * Dearest

\* The dearest attempt is a price.
LEMMA DearestIsDear == Dearest \in Nat /\ \A c \in Costs : c <= Dearest
<1>1. PICK c \in Costs : \A d \in Costs : d <= c
  BY PassAssumption
<1>2. Dearest \in Costs /\ \A d \in Costs : d <= Dearest
  BY <1>1 DEF Dearest
<1> QED BY <1>2, PassAssumption

\* Every attempt of every lane, counted and priced.
LEMMA AllAttempts ==
  /\ IsFiniteSet(Slots) /\ Cardinality(Slots) = Cardinality(Lanes) * (Retries + 1)
  /\ Cardinality(Lanes) * (Retries + 1) \in Nat
  /\ Cardinality(Lanes) * (Retries + 1) * Dearest \in Nat
<1>1. IsFiniteSet(Lanes) /\ Retries \in Nat /\ Dearest \in Nat /\ Cardinality(Lanes) \in Nat
  BY PassAssumption, DearestIsDear, FS_CardinalityType
<1>2. IsFiniteSet(1..(Retries + 1)) /\ Cardinality(1..(Retries + 1)) = Retries + 1
  BY <1>1, FS_Interval
<1>3. IsFiniteSet(Slots) /\ Cardinality(Slots) = Cardinality(Lanes) * (Retries + 1)
  BY <1>1, <1>2, FS_Product DEF Slots
<1>4. \A a, b \in Nat : a * b \in Nat
  OBVIOUS
<1>5. Cardinality(Lanes) * (Retries + 1) \in Nat
  BY <1>1, <1>4
<1> QED BY <1>1, <1>3, <1>4, <1>5

\* What is owed is finite, and at most every attempt of every lane.
LEMMA OwedIsBounded ==
  ASSUME NEW p
  PROVE  /\ IsFiniteSet(Owed(p)) /\ Cardinality(Owed(p)) \in Nat
         /\ Cardinality(Owed(p)) <= Cardinality(Lanes) * (Retries + 1)
<1>1. Owed(p) \subseteq Slots
  BY DEF Owed
<1> QED BY <1>1, AllAttempts, FS_Subset, FS_CardinalityType

\* One attempt less, each at the dearest.
LEMMA OneAttemptLess ==
  ASSUME NEW k \in Nat, NEW j \in Nat, NEW d \in Nat, j <= k
  PROVE  j * d <= k * d /\ (j + 1 <= k => j * d + d <= k * d) /\ k * d \in Nat /\ j * d \in Nat
<1>1. \A a, b \in Nat : a <= b => a * d <= b * d
  OBVIOUS
<1>2. (j + 1) * d = j * d + d
  OBVIOUS
<1> QED BY <1>1, <1>2

\* A pass that has owed nothing more keeps below the bound.
LEMMA OwesNoMore ==
  ASSUME TypeInv, BudgetInv, NEW p \in Passes, Owed(p)' \subseteq Owed(p), spent'[p] = spent[p]
  PROVE  spent'[p] + Cardinality(Owed(p))' * Dearest < Ceiling + Cardinality(Lanes) * (Retries + 1) * Dearest
<1> DEFINE k == Cardinality(Owed(p))
           j == Cardinality(Owed(p)')
           bound == Ceiling + Cardinality(Lanes) * (Retries + 1) * Dearest
<1>1. IsFiniteSet(Owed(p)) /\ k \in Nat /\ Dearest \in Nat /\ Ceiling \in Nat /\ spent[p] \in Nat
  BY OwedIsBounded, DearestIsDear, PassAssumption DEF TypeInv, TypeOK
<1>2. j \in Nat /\ j <= k
  BY <1>1, FS_Subset, FS_CardinalityType
<1>3. j * Dearest <= k * Dearest /\ j * Dearest \in Nat /\ k * Dearest \in Nat
  BY <1>1, <1>2, OneAttemptLess
<1>4. spent[p] + k * Dearest < bound
  BY DEF BudgetInv
<1>5. bound \in Nat
  BY <1>1, AllAttempts
<1> HIDE DEF j, k, bound
<1>6. spent[p] + j * Dearest < bound
  BY <1>1, <1>3, <1>4, <1>5
<1> QED BY <1>6 DEF j, bound

\* Nothing is owed before the lanes open.
LEMMA BudgetInit == Init => BudgetInv
<1> SUFFICES ASSUME Init, NEW p \in Passes
             PROVE  spent[p] + Cardinality(Owed(p)) * Dearest
                       < Ceiling + Cardinality(Lanes) * (Retries + 1) * Dearest
  BY DEF BudgetInv
<1>1. Owed(p) = {} /\ spent[p] = 0
  BY DEF Init, Owed, Idle, Slots
<1>2. Cardinality(Owed(p)) = 0
  BY <1>1, FS_EmptySet
<1> DEFINE full == Cardinality(Lanes) * (Retries + 1) * Dearest
<1>3. full \in Nat /\ Dearest \in Nat /\ Ceiling \in Nat \ {0}
  BY AllAttempts, DearestIsDear, PassAssumption
<1> HIDE DEF full
<1>4. 0 + 0 * Dearest < Ceiling + full
  BY <1>3
<1> QED BY <1>1, <1>2, <1>4 DEF full

\* Another lane's attempts are owed as before.
LEMMA OwedElsewhere ==
  ASSUME TypeInv, NEW p \in Passes, NEW l \in Lanes, LaneStep(p, l)
  PROVE  /\ \A q \in Passes : q # p => Owed(q)' = Owed(q)
         /\ \A x \in Slots : x[1] # l => (x \in Owed(p)' <=> x \in Owed(p))
<1>1. \A q \in Passes, m \in Lanes : lane'[q][m] = IF q = p /\ m = l THEN lane'[p][l] ELSE lane[q][m]
  BY LaneStepTyped, EveryLane
<1>2. \A x \in Slots : x[1] \in Lanes
  BY DEF Slots
<1> QED BY <1>1, <1>2 DEF Owed

\* Every step keeps a pass below its bound: an attempt that ends was owed, and a
\* run is admitted only below the ceiling, when what is owed cannot be more than
\* every attempt of every lane.
LEMMA BudgetStep ==
  ASSUME TypeInv, BudgetInv, [Next]_vars
  PROVE  BudgetInv'
<1> DEFINE bound == Ceiling + Cardinality(Lanes) * (Retries + 1) * Dearest
<1>0. /\ spent \in [Passes -> Nat] /\ lane \in [Passes -> [Lanes -> LaneState]]
      /\ Dearest \in Nat /\ Ceiling \in Nat /\ Retries \in Nat
  BY DearestIsDear, PassAssumption DEF TypeInv, TypeOK, LaneState
<1>1. CASE UNCHANGED <<lane, spent>>
  <2>1. ASSUME NEW p \in Passes PROVE Owed(p)' \subseteq Owed(p) /\ spent'[p] = spent[p]
    BY <1>1 DEF Owed
  <2> QED BY <2>1, OwesNoMore DEF BudgetInv
<1>2. ASSUME NEW p \in Passes, Interrupt(p) PROVE BudgetInv'
  <2>1. \A q \in Passes : lane'[q] = lane[q] \/ \A l \in Lanes : lane'[q][l] = Idle
    BY <1>0, <1>2 DEF Interrupt
  <2>2. Idle.pc = "idle"
    BY DEF Idle
  <2>3. spent' = spent
    BY <1>2 DEF Interrupt
  <2>4. ASSUME NEW q \in Passes PROVE Owed(q)' \subseteq Owed(q) /\ spent'[q] = spent[q]
    <3>1. \A x \in Slots : x[1] \in Lanes
      BY DEF Slots
    <3> QED BY <2>1, <2>2, <2>3, <3>1 DEF Owed
  <2> QED BY <2>4, OwesNoMore DEF BudgetInv
<1>3. ASSUME NEW p \in Passes, NEW l \in Lanes, LaneStep(p, l) PROVE BudgetInv'
  <2> DEFINE a == lane[p][l]
             b == lane'[p][l]
  <2>0. a \in LaneState /\ Shaped(a) /\ b \in LaneState /\ Shaped(b)
    BY <1>3, LaneTypes, LaneStepTyped
  <2>1. /\ \A q \in Passes : q # p => Owed(q)' = Owed(q)
        /\ \A x \in Slots : x[1] # l => (x \in Owed(p)' <=> x \in Owed(p))
    BY <1>3, OwedElsewhere
  <2>2. \A x \in Slots : x[1] = l =>
          /\ x \in Owed(p) <=> (a.pc = "invoke" /\ x[2] > a.tries) \/ (a.pc = "attempt" /\ x[2] >= a.tries)
          /\ x \in Owed(p)' <=> (b.pc = "invoke" /\ x[2] > b.tries) \/ (b.pc = "attempt" /\ x[2] >= b.tries)
    BY DEF Owed
  <2>3. Owed(p) \subseteq Slots /\ Owed(p)' \subseteq Slots
    BY DEF Owed, Slots
  <2>4. \A q \in Passes : q # p => spent'[q] = spent[q]
    BY <1>0, <1>3 DEF LaneStep, Claim, CaseGone, PrepareFails, Lookup, Restore, Admit, Invoke, Attempt, AttemptErrs,
                      RecordExact, RecordSlot, Check
  <2>5. SUFFICES spent'[p] + Cardinality(Owed(p)') * Dearest < bound
    BY <2>1, <2>4 DEF BudgetInv
  <2> HIDE DEF a, b
  <2>6. CASE Admit(p, l)
    <3>1. spent' = spent /\ (b.pc = "idle" \/ spent[p] < Ceiling)
      <4>1. spent' = spent /\ (Ends(p, l) \/ ~Exhausted(p))
        BY <2>6 DEF Admit
      <4>2. Ends(p, l) => b.pc = "idle"
        BY LaneTypes, OneLane DEF Ends, b, Idle
      <4>3. spent[p] \in Nat
        BY <1>0
      <4> QED BY <4>1, <4>2, <4>3, <1>0 DEF Exhausted
    <3>2. CASE b.pc = "idle"
      <4>1. Owed(p)' \subseteq Owed(p)
        BY <3>2, <2>1, <2>2, <2>3
      <4> QED BY <4>1, <3>1, OwesNoMore
    <3>3. CASE spent[p] < Ceiling
      <4> DEFINE j == Cardinality(Owed(p)')
                 k == Cardinality(Lanes) * (Retries + 1)
      <4>1. IsFiniteSet(Slots) /\ Cardinality(Slots) = k /\ k \in Nat
        BY AllAttempts
      <4>2. j \in Nat /\ j <= k
        BY <4>1, <2>3, FS_Subset, FS_CardinalityType
      <4> HIDE DEF j, k
      <4>3. j * Dearest <= k * Dearest /\ j * Dearest \in Nat /\ k * Dearest \in Nat
        BY <1>0, <4>1, <4>2, OneAttemptLess
      <4>4. spent'[p] \in Nat /\ spent'[p] < Ceiling
        BY <3>1, <3>3, <1>0
      <4>5. spent'[p] + j * Dearest < Ceiling + k * Dearest
        BY <4>3, <4>4, <1>0
      <4> QED BY <4>5 DEF j, k
    <3> QED BY <3>1, <3>2, <3>3
  <2>7. CASE Attempt(p, l)
    <3>1. PICK cost \in Costs : spent' = [spent EXCEPT ![p] = @ + cost]
      BY <2>7 DEF Attempt
    <3>2. cost \in Nat /\ cost <= Dearest /\ spent'[p] = spent[p] + cost /\ spent[p] \in Nat
      BY <3>1, <1>0, DearestIsDear, PassAssumption
    <3> DEFINE top == <<l, a.tries>>
               j == Cardinality(Owed(p)')
               k == Cardinality(Owed(p))
    <3>3. a.pc = "attempt" /\ a.tries \in 1..(Retries + 1)
      BY <2>0, <2>7, <1>0 DEF Attempt, At, a, Shaped, LaneState
    <3>4. top \in Owed(p)
      <4>1. top \in Slots /\ top[1] = l /\ top[2] = a.tries
        BY <3>3 DEF Slots
      <4> QED BY <4>1, <3>3, <2>2, <1>0
    <3>5. (b.pc = "invoke" /\ b.tries = a.tries) \/ b.pc \in {"record", "check"}
      <4>1. b = [a EXCEPT !.pc = "invoke"] \/ b = [a EXCEPT !.pc = "record"] \/ b = [a EXCEPT !.pc = "check"]
        BY <2>7, LaneMoves DEF a, b
      <4> QED BY <4>1, <2>0 DEF LaneState
    <3>6. Owed(p)' \subseteq Owed(p) \ {top}
      <4>1. ASSUME NEW x \in Owed(p)' PROVE x \in Owed(p) /\ x # top
        <5>1. x \in Slots /\ x[2] \in 1..(Retries + 1)
          BY <2>3 DEF Slots
        <5>2. CASE x[1] # l
          BY <5>1, <5>2, <2>1
        <5>3. CASE x[1] = l
          <6>1. b.pc = "invoke" /\ x[2] > a.tries
            BY <5>1, <5>3, <2>2, <3>5
          <6> QED BY <6>1, <5>1, <5>3, <2>2, <3>3, <1>0
        <5> QED BY <5>2, <5>3
      <4> QED BY <4>1
    <3>7. k \in Nat /\ IsFiniteSet(Owed(p))
      BY OwedIsBounded
    <3>8. IsFiniteSet(Owed(p) \ {top}) /\ Cardinality(Owed(p) \ {top}) = k - 1
      BY <3>4, <3>7, FS_RemoveElement
    <3>9. j \in Nat /\ j <= k - 1
      BY <3>6, <3>8, FS_Subset, FS_CardinalityType
    <3> HIDE DEF j, k, top
    <3>10. j + 1 <= k
      BY <3>7, <3>9
    <3>11. j * Dearest + Dearest <= k * Dearest /\ j * Dearest \in Nat /\ k * Dearest \in Nat
      BY <3>7, <3>9, <3>10, <1>0, OneAttemptLess
    <3>12. spent[p] + k * Dearest < bound
      BY DEF BudgetInv, k
    <3>13. bound \in Nat
      BY <1>0, AllAttempts
    <3> HIDE DEF bound
    <3>14. spent'[p] + j * Dearest < bound
      BY <3>2, <3>11, <3>12, <3>13, <1>0
    <3> QED BY <3>14 DEF j
  <2>8. CASE ~Admit(p, l) /\ ~Attempt(p, l)
    <3>1. spent' = spent
      BY <2>8, <1>3 DEF LaneStep, Claim, CaseGone, PrepareFails, Lookup, Restore, Invoke, AttemptErrs, RecordExact, RecordSlot, Check
    <3>2. \/ b.pc \notin {"invoke", "attempt"}
          \/ a.pc = "invoke" /\ b.pc = "attempt" /\ b.tries = a.tries + 1
      <4>1. CASE Invoke(p, l)
        <5>1. b = [a EXCEPT !.pc = "attempt", !.tries = a.tries + 1, !.given = skill] /\ a.pc = "invoke"
          BY <4>1, LaneMoves DEF a, b, Invoke, At
        <5> QED BY <5>1, <2>0 DEF LaneState
      <4>2. CASE CaseGone(p, l) \/ PrepareFails(p, l) \/ Check(p, l)
        <5>1. b = Idle
          BY <4>2, LaneMoves DEF a, b
        <5> QED BY <5>1 DEF Idle
      <4>3. CASE Claim(p, l)
        <5>1. b = [Idle EXCEPT !.pc = "claimed", !.run = b.run]
          BY <4>3, LaneMoves DEF a, b
        <5> QED BY <5>1 DEF Idle
      <4>4. CASE Lookup(p, l)
        <5>1. b = [a EXCEPT !.pc = "admit"] \/ b = [a EXCEPT !.pc = "restore", !.src = b.src]
          BY <4>4, LaneMoves DEF a, b
        <5> QED BY <5>1, <2>0 DEF LaneState
      <4>5. CASE Restore(p, l)
        <5>1. b = Idle \/ b = [a EXCEPT !.pc = "admit", !.src = NoPass]
          BY <4>5, LaneMoves DEF a, b
        <5>2. Idle.pc = "idle"
          BY DEF Idle
        <5> QED BY <5>1, <5>2, <2>0 DEF LaneState
      <4>6. CASE AttemptErrs(p, l) \/ RecordExact(p, l) \/ RecordSlot(p, l)
        <5>1. b = [a EXCEPT !.pc = "slot"] \/ b = [a EXCEPT !.pc = "check"]
          BY <4>6, LaneMoves DEF a, b
        <5> QED BY <5>1, <2>0 DEF LaneState
      <4> QED BY <2>8, <1>3, <4>1, <4>2, <4>3, <4>4, <4>5, <4>6 DEF LaneStep
    <3>3. Owed(p)' \subseteq Owed(p)
      <4>1. ASSUME NEW x \in Owed(p)' PROVE x \in Owed(p)
        <5>1. x \in Slots /\ x[2] \in Int /\ a.tries \in Int
          BY <2>3, <2>0, <1>0 DEF Slots, LaneState
        <5> QED BY <5>1, <2>1, <2>2, <3>2
      <4> QED BY <4>1
    <3> QED BY <3>1, <3>3, OwesNoMore
  <2> QED BY <2>6, <2>7, <2>8
<1>4. CASE Edit \/ (\E p \in Passes : Begin(p) \/ PassStep(p) \/ Prune(p)) \/ UNCHANGED vars
  BY <1>4, <1>1 DEF Edit, Begin, PassStep, OpenLanes, CloseLanes, Rewrite, Prune, vars
<1> QED BY <1>2, <1>3, <1>4 DEF Next

\* However attempts, retries and lanes interleave, a pass never spends more than
\* one run's attempts per lane past the last cent below its ceiling.
THEOREM OvershootSafe == Spec => []OvershootIsBounded
<1>1. TypeInv /\ BudgetInv => OvershootIsBounded
  <2> SUFFICES ASSUME TypeInv, BudgetInv, NEW p \in Passes
               PROVE  spent[p] < Ceiling + Cardinality(Lanes) * (Retries + 1) * Dearest
    BY DEF OvershootIsBounded
  <2> DEFINE k == Cardinality(Owed(p))
  <2>1. k \in Nat /\ Dearest \in Nat /\ spent[p] \in Nat /\ Ceiling \in Nat
        /\ Cardinality(Lanes) * (Retries + 1) \in Nat
    BY OwedIsBounded, AllAttempts, DearestIsDear, PassAssumption DEF TypeInv, TypeOK
  <2> DEFINE full == Cardinality(Lanes) * (Retries + 1) * Dearest
  <2>2. spent[p] + k * Dearest < Ceiling + full
    BY DEF BudgetInv
  <2>3. k * Dearest \in Nat /\ full \in Nat
    BY <2>1, AllAttempts
  <2> HIDE DEF k, full
  <2>4. spent[p] < Ceiling + full
    BY <2>1, <2>2, <2>3
  <2> QED BY <2>4 DEF full
<1> QED BY <1>1, TypeInit, TypeStep, BudgetInit, BudgetStep, PTL DEF Spec

------------------------------------------------------------------------------
(* What a pass takes from the cache. *)

\* A step of a lane adds to the cache at most the pointer of its own run, after
\* the run has a record.
LEMMA PointersGrow ==
  ASSUME TypeInv, NEW p \in Passes, NEW l \in Lanes, LaneStep(p, l)
  PROVE  LET r == lane[p][l].run IN
         /\ \A e \in exact' : e \in exact \/ (e = KeyInput(p, r) /\ lane[p][l].pc = "record")
         /\ \A s \in Runs : \A e \in slot'[s] :
               e \in slot[s] \/ (e = KeyInput(p, r) /\ lane[p][l].pc = "slot" /\ s = r)
<1> DEFINE r == lane[p][l].run
<1>0. slot \in [Runs -> SUBSET Pointer]
  BY DEF TypeInv, TypeOK
<1>1. CASE Lookup(p, l)
  <2> DEFINE k == KeyInput(p, r)
             reusable == {e \in Standing(slot[k.run]) : SlotFresh(e, k)}
  <2>1. k.run = r /\ r \in Runs
    BY <1>1, LaneTypes DEF Lookup, At, KeyInput, Shaped
  <2>2. exact' \subseteq exact /\ (slot' = slot \/ slot' = [slot EXCEPT ![k.run] = reusable])
    BY <1>1 DEF Lookup
  <2>3. reusable \subseteq slot[r]
    BY <2>1 DEF Standing
  <2> HIDE DEF k, reusable, r
  <2>4. ASSUME NEW s \in Runs, NEW e \in slot'[s] PROVE e \in slot[s]
    BY <2>1, <2>2, <2>3, <2>4, <1>0
  <2> QED BY <2>2, <2>4 DEF r
<1>2. CASE RecordExact(p, l)
  <2>1. lane[p][l].pc = "record" /\ slot' = slot /\ exact' \subseteq exact \cup {KeyInput(p, r)}
    BY <1>2 DEF RecordExact, At
  <2> QED BY <2>1
<1>3. CASE RecordSlot(p, l)
  <2>1. lane[p][l].pc = "slot" /\ exact' = exact /\ (slot' = slot \/ slot' = [slot EXCEPT ![r] = {KeyInput(p, r)}])
    BY <1>3 DEF RecordSlot, At
  <2> HIDE DEF r
  <2>2. ASSUME NEW s \in Runs, NEW e \in slot'[s] PROVE e \in slot[s] \/ (e = KeyInput(p, r) /\ s = r)
    BY <2>1, <2>2, <1>0
  <2> QED BY <2>1, <2>2 DEF r
<1>4. CASE UNCHANGED cache
  BY <1>4 DEF cache
<1> QED
  BY <1>1, <1>2, <1>3, <1>4
     DEF LaneStep, Claim, CaseGone, PrepareFails, Restore, Admit, Invoke, Attempt, AttemptErrs, Check

\* A lane that goes to restore a run has a pointer to it: one that still stands,
\* made for the skill of this pass and, unless the pass reuses any completed
\* run, for its config.
LEMMA LookupFinds ==
  ASSUME TypeInv, NEW p \in Passes, NEW l \in Lanes, LaneStep(p, l), lane'[p][l].pc = "restore"
  PROVE  LET r == lane[p][l].run
             q == lane'[p][l].src
         IN
         /\ lane[p][l].pc = "claimed" /\ lane'[p][l].run = r /\ r \in Runs /\ rec' = rec /\ disk[q] # {}
         /\ opt[p].mode # "none"
         /\ \E e \in Pointer :
               /\ e.pass = q /\ e.hash = digest[p].skill
               /\ \/ e \in exact /\ e.run = r /\ e.config = opt[p].config
                  \/ e \in slot[r] /\ opt[p].mode = "reuse"
<1> DEFINE a == lane[p][l]
           b == lane'[p][l]
           r == lane[p][l].run
           k == KeyInput(p, r)
           mine == ExactPointers(k)
           reusable == {e \in Standing(slot[k.run]) : SlotFresh(e, k)}
<1>0. a \in LaneState /\ Shaped(a) /\ Idle.pc = "idle"
  BY LaneTypes DEF Idle
<1>1. Lookup(p, l)
  <2>1. CASE Claim(p, l)
    <3>1. b = [Idle EXCEPT !.pc = "claimed", !.run = b.run]
      BY <2>1, LaneMoves
    <3> QED BY <3>1 DEF Idle
  <2>2. CASE CaseGone(p, l) \/ PrepareFails(p, l) \/ Check(p, l)
    <3>1. b = Idle
      BY <2>2, LaneMoves
    <3> QED BY <3>1, <1>0
  <2>3. CASE Restore(p, l)
    <3>1. b = Idle \/ b = [a EXCEPT !.pc = "admit", !.src = NoPass]
      BY <2>3, LaneMoves
    <3> QED BY <3>1, <1>0 DEF LaneState
  <2>4. CASE Admit(p, l)
    <3>1. b = Idle \/ b = [a EXCEPT !.pc = "invoke", !.before = skill]
      BY <2>4, LaneMoves
    <3> QED BY <3>1, <1>0 DEF LaneState
  <2>5. CASE Invoke(p, l)
    <3>1. b = [a EXCEPT !.pc = "attempt", !.tries = a.tries + 1, !.given = skill]
      BY <2>5, LaneMoves
    <3> QED BY <3>1, <1>0 DEF LaneState
  <2>6. CASE Attempt(p, l)
    <3>1. b = [a EXCEPT !.pc = "invoke"] \/ b = [a EXCEPT !.pc = "record"] \/ b = [a EXCEPT !.pc = "check"]
      BY <2>6, LaneMoves
    <3> QED BY <3>1, <1>0 DEF LaneState
  <2>7. CASE AttemptErrs(p, l) \/ RecordExact(p, l) \/ RecordSlot(p, l)
    <3>1. b = [a EXCEPT !.pc = "slot"] \/ b = [a EXCEPT !.pc = "check"]
      BY <2>7, LaneMoves
    <3> QED BY <3>1, <1>0 DEF LaneState
  <2> QED BY <2>1, <2>2, <2>3, <2>4, <2>5, <2>6, <2>7 DEF LaneStep
<1>2. a.pc = "claimed" /\ r \in Runs /\ rec' = rec
  BY <1>0, <1>1 DEF Lookup, At, Shaped
<1>3. k.run = r /\ k.config = opt[p].config /\ k.hash = digest[p].skill
  BY DEF KeyInput
<1>4. ~Goes(p, l, "admit")
  <2> SUFFICES ASSUME Goes(p, l, "admit") PROVE FALSE
    OBVIOUS
  <2>1. b.pc = "admit"
    BY LaneTypes DEF Goes, LaneState
  <2> QED BY <2>1
<1>5. /\ opt[p].mode # "none"
      /\ \E e \in Standing(mine) \cup (IF opt[p].mode = "reuse" THEN reusable ELSE {}) :
            lane' = [lane EXCEPT ![p][l].pc = "restore", ![p][l].src = e.pass]
  <2> HIDE DEF mine, reusable, k
  <2> QED BY <1>1, <1>4 DEF Lookup, mine, reusable, k
<1>6. PICK e \in Standing(mine) \cup (IF opt[p].mode = "reuse" THEN reusable ELSE {}) :
            lane' = [lane EXCEPT ![p][l].pc = "restore", ![p][l].src = e.pass]
  BY <1>5
<1>7. b.src = e.pass /\ b.run = r
  BY <1>6, LaneTypes DEF LaneState
<1>8. disk[e.pass] # {} /\ e.hash = digest[p].skill
      /\ ((e \in exact /\ e.run = r /\ e.config = opt[p].config) \/ (e \in slot[r] /\ opt[p].mode = "reuse"))
  <2>1. CASE e \in Standing(mine)
    BY <2>1, <1>3 DEF Standing, ExactPointers
  <2>2. CASE e \in reusable /\ opt[p].mode = "reuse"
    BY <2>2, <1>3 DEF Standing, SlotFresh
  <2> QED BY <1>6, <2>1, <2>2
<1>9. e \in Pointer
  BY <1>2, <1>8, PointersAreTyped
<1> QED BY <1>2, <1>5, <1>7, <1>8, <1>9

\* Pass q answers for what pass p asks of the cache.
Answers(p, q) ==
    /\ phase[q] # "unstarted" /\ digest[q].skill = digest[p].skill
    /\ opt[p].mode # "none"
    /\ opt[p].mode = "exact" => opt[q].config = opt[p].config

\* A pointer tells the skill and the config of the pass that wrote it.
Stamped(e) == phase[e.pass] # "unstarted" /\ e.hash = digest[e.pass].skill /\ e.config = opt[e.pass].config

\* Pointers tell the truth of the passes they name, and what a lane restores or
\* has restored is from a pass that answers for its own.
RevisionInv ==
    /\ \A e \in exact : Stamped(e)
    /\ \A r \in Runs : \A e \in slot[r] : Stamped(e)
    /\ \A p \in Passes, l \in Lanes : lane[p][l].pc = "restore" => Answers(p, lane[p][l].src)
    /\ \A p \in Passes, r \in Runs : rec[p][r].src # NoPass => Answers(p, rec[p][r].src)

(* The invariant of the cached revision holds at the start. *)
LEMMA RevisionInit == Init => RevisionInv
  BY DEF Init, RevisionInv, Idle, Fresh

\* A pass hashes the skill once, before it or any other can refer to it.
LEMMA RevisionStep ==
  ASSUME TypeInv, QueueInv, RevisionInv, [Next]_vars
  PROVE  RevisionInv'
<1>0. /\ phase \in [Passes -> {"unstarted", "begun", "lanes", "checked", "over", "dead"}]
      /\ exact \subseteq Pointer /\ slot \in [Runs -> SUBSET Pointer] /\ LaneShape
      /\ rec \in [Passes -> [Runs -> Record]] /\ NoPass \notin Passes
  BY PassAssumption DEF TypeInv, TypeOK
<1>1. \A e \in Pointer : e.pass \in Passes
  BY DEF Pointer
<1>2. \A p \in Passes, r \in Runs : rec[p][r].src # NoPass => rec[p][r].src \in Passes
  BY <1>0 DEF Record
<1>3. \A p \in Passes, l \in Lanes : lane[p][l].pc = "restore" => lane[p][l].src \in Passes
  BY <1>0 DEF LaneShape, Shaped
<1>4. ASSUME /\ \A q \in Passes : phase[q] # "unstarted" => phase'[q] # "unstarted" /\ digest'[q].skill = digest[q].skill
             /\ opt' = opt
      PROVE  /\ \A q \in Passes, p \in Passes :
                  (Answers(p, q) /\ phase[p] # "unstarted") => Answers(p, q)'
             /\ \A e \in Pointer : Stamped(e) => Stamped(e)'
  BY <1>1, <1>4 DEF Answers, Stamped
<1>5. \A p \in Passes : phase[p] = "unstarted" =>
         (\A l \in Lanes : lane[p][l].pc = "idle") /\ \A r \in Runs : rec[p][r].src = NoPass
  BY <1>0 DEF LaneShape, QueueInv, Fresh
<1>6. ASSUME NEW p \in Passes, Begin(p) PROVE RevisionInv'
  <2>1. /\ phase[p] = "unstarted" /\ phase' = [phase EXCEPT ![p] = "begun"]
        /\ digest' = [digest EXCEPT ![p].skill = skill]
        /\ UNCHANGED <<opt, lane, rec, exact, slot>>
    BY <1>6 DEF Begin, cache
  <2>2. \A q \in Passes : phase[q] # "unstarted" => phase'[q] # "unstarted" /\ digest'[q].skill = digest[q].skill
    <3>1. digest \in [Passes -> [skill : Versions, baseline : Versions]]
      BY DEF TypeInv, TypeOK
    <3> QED BY <2>1, <3>1, <1>0
  <2>3. /\ \A e \in exact : Stamped(e)'
        /\ \A r \in Runs : \A e \in slot[r] : Stamped(e)'
    BY <2>1, <2>2, <1>0, <1>4 DEF RevisionInv
  <2>4. \A q \in Passes, l \in Lanes : lane[q][l].pc = "restore" => Answers(q, lane[q][l].src)'
    BY <2>1, <2>2, <1>3, <1>4, <1>5 DEF RevisionInv
  <2>5. \A q \in Passes, r \in Runs : rec[q][r].src # NoPass => Answers(q, rec[q][r].src)'
    BY <2>1, <2>2, <1>2, <1>4, <1>5 DEF RevisionInv
  <2> QED BY <2>1, <2>3, <2>4, <2>5 DEF RevisionInv
<1>7. ASSUME NEW p \in Passes, PassStep(p) \/ Interrupt(p) \/ Prune(p) PROVE RevisionInv'
  <2>1. /\ \A q \in Passes : phase[q] # "unstarted" => phase'[q] # "unstarted" /\ digest'[q].skill = digest[q].skill
        /\ UNCHANGED <<opt, exact, slot>>
    <3>1. digest \in [Passes -> [skill : Versions, baseline : Versions]]
      BY DEF TypeInv, TypeOK
    <3>2. UNCHANGED <<opt, exact, slot>>
      BY <1>7 DEF PassStep, OpenLanes, CloseLanes, Rewrite, Interrupt, Prune, cache
    <3>3. digest' = digest \/ digest' = [digest EXCEPT ![p].baseline = skill]
      BY <1>7 DEF PassStep, OpenLanes, CloseLanes, Rewrite, Interrupt, Prune
    <3>4. phase' = phase \/ \E to \in {"lanes", "checked", "over", "dead"} : phase' = [phase EXCEPT ![p] = to]
      BY <1>7 DEF PassStep, OpenLanes, CloseLanes, Rewrite, Interrupt, Prune
    <3>5. \A q \in Passes : digest'[q].skill = digest[q].skill
      BY <3>1, <3>3
    <3>6. \A q \in Passes : phase[q] # "unstarted" => phase'[q] # "unstarted"
      BY <3>4, <1>0
    <3> QED BY <3>2, <3>5, <3>6
  <2>2. \A q \in Passes, l \in Lanes : lane'[q][l] = lane[q][l] \/ lane'[q][l].pc = "idle"
    <3>1. CASE Interrupt(p)
      BY <3>1, LaneTypes DEF Interrupt, Idle
    <3>2. CASE ~Interrupt(p)
      BY <3>2, <1>7 DEF PassStep, OpenLanes, CloseLanes, Rewrite, Prune
    <3> QED BY <3>1, <3>2
  <2>3. \A q \in Passes, r \in Runs : rec'[q][r].src = rec[q][r].src
    <3>1. CASE CloseLanes(p)
      <4>1. ASSUME NEW r \in Runs PROVE PassIntegrity(p)[r].src = rec[p][r].src
        BY <1>0 DEF PassIntegrity, Record
      <4> QED BY <4>1, <3>1, <1>0 DEF CloseLanes
    <3>2. CASE ~CloseLanes(p)
      BY <3>2, <1>7 DEF PassStep, OpenLanes, Rewrite, Interrupt, Prune
    <3> QED BY <3>1, <3>2
  <2>4. /\ \A e \in exact' : Stamped(e)'
        /\ \A r \in Runs : \A e \in slot'[r] : Stamped(e)'
    BY <2>1, <1>0, <1>4 DEF RevisionInv
  <2>5. \A q \in Passes, l \in Lanes : lane'[q][l].pc = "restore" => Answers(q, lane[q][l].src)'
    <3> SUFFICES ASSUME NEW q \in Passes, NEW l \in Lanes, lane'[q][l].pc = "restore"
                 PROVE  Answers(q, lane[q][l].src)'
      OBVIOUS
    <3>1. lane'[q][l] = lane[q][l] /\ lane[q][l].src \in Passes /\ phase[q] # "unstarted"
      BY <2>2, <1>3, <1>5
    <3>2. Answers(q, lane[q][l].src)
      BY <3>1 DEF RevisionInv
    <3> QED BY <3>1, <3>2, <2>1 DEF Answers
  <2>6. \A q \in Passes, r \in Runs : rec'[q][r].src # NoPass => Answers(q, rec[q][r].src)'
    <3> SUFFICES ASSUME NEW q \in Passes, NEW r \in Runs, rec'[q][r].src # NoPass
                 PROVE  Answers(q, rec[q][r].src)'
      OBVIOUS
    <3>1. rec'[q][r].src = rec[q][r].src /\ rec[q][r].src \in Passes /\ phase[q] # "unstarted"
      BY <2>3, <1>2, <1>5
    <3>2. Answers(q, rec[q][r].src)
      BY <3>1 DEF RevisionInv
    <3> QED BY <3>1, <3>2, <2>1 DEF Answers
  <2> QED BY <2>4, <2>5, <2>6 DEF RevisionInv
<1>8. ASSUME NEW p \in Passes, NEW l \in Lanes, LaneStep(p, l) PROVE RevisionInv'
  <2> DEFINE a == lane[p][l]
             b == lane'[p][l]
  <2>1. UNCHANGED <<phase, opt, digest>> /\ phase[p] = "lanes"
    BY <1>8, TallyTyped, LaneStepTyped
  <2>2. /\ \A e : Stamped(e)' <=> Stamped(e)
        /\ \A q, s : Answers(q, s)' <=> Answers(q, s)
    BY <2>1 DEF Stamped, Answers
  <2>3. Stamped(KeyInput(p, a.run))
    BY <2>1 DEF Stamped, KeyInput
  <2>4. /\ \A e \in exact' : Stamped(e)
        /\ \A r \in Runs : \A e \in slot'[r] : Stamped(e)
    BY <1>8, <2>3, PointersGrow DEF RevisionInv
  <2>5. ASSUME b.pc = "restore" PROVE Answers(p, b.src)
    <3>1. PICK e \in Pointer :
            /\ e.pass = b.src /\ e.hash = digest[p].skill /\ opt[p].mode # "none"
            /\ (e \in exact /\ e.config = opt[p].config) \/ (e \in slot[a.run] /\ opt[p].mode = "reuse")
      BY <1>8, <2>5, LookupFinds
    <3>2. a.run \in Runs
      BY <1>8, <2>5, LookupFinds
    <3>3. Stamped(e)
      BY <3>1, <3>2 DEF RevisionInv
    <3> QED BY <3>1, <3>3 DEF Answers, Stamped
  <2>6. \A q \in Passes, m \in Lanes : lane'[q][m].pc = "restore" => Answers(q, lane'[q][m].src)
    <3>1. \A q \in Passes, m \in Lanes : lane'[q][m] = IF q = p /\ m = l THEN b ELSE lane[q][m]
      BY <1>8, LaneStepTyped, EveryLane
    <3> QED BY <3>1, <2>5 DEF RevisionInv
  <2>7. ASSUME a.run \in Runs, rec'[p][a.run].src # NoPass PROVE Answers(p, rec'[p][a.run].src)
    <3> DEFINE now == rec'[p][a.run]
    <3>0. rec[p][a.run] \in Record
      BY <2>7, <1>0
    <3>1. CASE rec' = rec
      BY <3>1, <2>7 DEF RevisionInv
    <3>2. CASE PrepareFails(p, l)
      <4>1. now = [Fresh EXCEPT !.status = "failed"]
        BY <3>2, RecordMoves
      <4> QED BY <4>1, <2>7 DEF Fresh
    <3>3. CASE Restore(p, l) /\ rec' # rec
      <4>1. PICK report \in disk[a.src] : now = [report[a.run] EXCEPT !.src = a.src]
        BY <3>3, RecordMoves
      <4>2. a.pc = "restore" /\ a.src \in Passes
        BY <3>3, <1>3 DEF Restore, At
      <4>3. report[a.run] \in Record
        BY <4>2, <2>7 DEF TypeInv, TypeOK
      <4>4. now.src = a.src
        BY <4>1, <4>3 DEF Record
      <4> QED BY <4>2, <4>4 DEF RevisionInv
    <3>4. CASE Admit(p, l) /\ rec' # rec
      <4>1. now = Refused("budget") \/ now = Refused("control")
        BY <3>4, RecordMoves
      <4> QED BY <4>1, <2>7 DEF Refused, Fresh
    <3>5. CASE (Attempt(p, l) \/ AttemptErrs(p, l)) /\ rec' # rec
      <4>1. \E status \in Statuses, kind \in {"runner", "none"} : now = Outcome(p, l, status, kind)
        BY <3>5, RecordMoves, ZenonT(60) DEF Statuses
      <4> QED BY <4>1, <2>7 DEF Outcome
    <3>6. CASE Check(p, l) /\ rec' # rec
      <4>1. now = [rec[p][a.run] EXCEPT !.integrity = Integrity(a.before)]
        BY <3>6, RecordMoves
      <4>2. now.src = rec[p][a.run].src
        BY <4>1, <3>0 DEF Record
      <4> QED BY <4>2, <2>7 DEF RevisionInv
    <3>7. Claim(p, l) \/ CaseGone(p, l) \/ Lookup(p, l) \/ Invoke(p, l) \/ RecordExact(p, l) \/ RecordSlot(p, l) => rec' = rec
      BY RecordMoves
    <3> QED BY <1>8, <3>1, <3>2, <3>3, <3>4, <3>5, <3>6, <3>7 DEF LaneStep
  <2>8. \A q \in Passes, r \in Runs : rec'[q][r].src # NoPass => Answers(q, rec'[q][r].src)
    BY <1>8, <2>7, OtherRecords DEF RevisionInv
  <2> QED BY <2>2, <2>4, <2>6, <2>8 DEF RevisionInv
<1>9. CASE Edit \/ UNCHANGED vars
  BY <1>9 DEF Edit, vars, cache, RevisionInv, Stamped, Answers
<1> QED BY <1>6, <1>7, <1>8, <1>9 DEF Next

\* A cache hit answers for the revision its pass hashed and, unless any completed
\* run will do, for its model config, whatever passes overlap, die or evict.
THEOREM HitsAnswer == Spec => []HitsAnswerForTheRevision
<1>1. RevisionInv => HitsAnswerForTheRevision
  BY DEF RevisionInv, Answers, HitsAnswerForTheRevision
<1> QED BY <1>1, TypeInit, TypeStep, QueueInit, QueueStep, RevisionInit, RevisionStep, PTL DEF Spec

------------------------------------------------------------------------------
(* Results taken from the cache, and passes that end clean.  Three things can  *)
(* leave a pointer that names a report without its result: a pass that is      *)
(* still running, one that was interrupted, and one whose last write failed.   *)

Orderly == ~Overlap /\ "rewrite" \notin Faults /\ "interrupt" \notin Faults

\* Pass q has a completed run r, in memory and by now or later in its report.
Served(q, r) == phase[q] \in {"lanes", "checked", "over"} /\ rec[q][r].status = "completed"

\* One pass at a time.
Exclusive == \A p \in Passes, q \in Passes : Active(p) /\ Active(q) => p = q

\* Reports of passes that are over tell what they came to; what a pointer names,
\* and what a lane is about to point to, is completed.
CompletedInv ==
    /\ \A p \in Passes : phase[p] # "dead" /\ (phase[p] = "over" => disk[p] \subseteq {rec[p]})
    /\ \A e \in exact : Served(e.pass, e.run)
    /\ \A r \in Runs : \A e \in slot[r] : Served(e.pass, r)
    /\ \A p \in Passes, l \in Lanes :
          /\ lane[p][l].pc = "restore" => Served(lane[p][l].src, lane[p][l].run) /\ phase[lane[p][l].src] = "over"
          /\ lane[p][l].pc \in {"record", "slot"} => rec[p][lane[p][l].run].status = "completed"
    /\ HitsAreCompleted

(* At the start no pass is active. *)
LEMMA ExclusiveInit == Init => Exclusive
  BY DEF Init, Exclusive, Active

(* At the start no pass is over and no pointer names a run. *)
LEMMA CompletedInit == Init => CompletedInv
  BY DEF Init, CompletedInv, Idle, Fresh, HitsAreCompleted

\* Unless passes may overlap, one begins only when no other is under way.
LEMMA ExclusiveStep ==
  ASSUME ~Overlap, TypeInv, Exclusive, [Next]_vars
  PROVE  Exclusive'
<1>0. phase \in [Passes -> {"unstarted", "begun", "lanes", "checked", "over", "dead"}]
  BY DEF TypeInv, TypeOK
<1>1. CASE phase' = phase
  BY <1>1 DEF Exclusive, Active
<1>2. ASSUME NEW p \in Passes, Begin(p) PROVE Exclusive'
  <2>1. phase' = [phase EXCEPT ![p] = "begun"] /\ \A q \in Passes : ~Active(q)
    BY <1>2 DEF Begin
  <2>2. \A q \in Passes : q # p => ~Active(q)'
    BY <2>1, <1>0 DEF Active
  <2> QED BY <2>2 DEF Exclusive
<1>3. ASSUME NEW p \in Passes, PassStep(p) \/ Interrupt(p) PROVE Exclusive'
  <2>1. Active(p) /\ \E to \in {"lanes", "checked", "over", "dead"} : phase' = [phase EXCEPT ![p] = to]
    BY <1>3 DEF PassStep, OpenLanes, CloseLanes, Rewrite, Interrupt, Active
  <2>2. \A q \in Passes : Active(q)' => Active(q)
    BY <2>1, <1>0 DEF Active
  <2> QED BY <2>2 DEF Exclusive
<1>4. \A p \in Passes, l \in Lanes : LaneStep(p, l) => phase' = phase
  BY LaneStepTyped
<1>5. Edit \/ (\E p \in Passes : Prune(p)) \/ UNCHANGED vars => phase' = phase
  BY DEF Edit, Prune, vars
<1> QED BY <1>1, <1>2, <1>3, <1>4, <1>5 DEF Next

\* A step of a lane leaves the records of the other passes.
LEMMA OtherPasses ==
  ASSUME TypeInv, NEW p \in Passes, NEW l \in Lanes, LaneStep(p, l), NEW q \in Passes, q # p
  PROVE  rec'[q] = rec[q]
<1>1. RunOnly(p, l) /\ rec \in [Passes -> [Runs -> Record]]
  BY RecordMoves, LaneTypes
<1>2. PICK entry : entry = rec'[p][lane[p][l].run]
  OBVIOUS
<1>3. rec' = rec \/ rec' = [rec EXCEPT ![p][lane[p][l].run] = entry]
  BY <1>1, <1>2 DEF RunOnly
<1> QED BY <1>1, <1>3

\* Without overlap, interrupts or reports that cannot be written, the phase of a
\* pass goes through its order, and its report is its last word.
LEMMA OrderlyPhases ==
  ASSUME Orderly, TypeInv, CompletedInv, [Next]_vars
  PROVE  \A p \in Passes :
            /\ phase'[p] # "dead"
            /\ phase[p] \in {"lanes", "checked", "over"} => phase'[p] \in {"lanes", "checked", "over"}
            /\ phase[p] = "over" => phase'[p] = "over"
            /\ phase'[p] = "over" => disk'[p] \subseteq {rec'[p]}
<1> DEFINE Goal == \A p \in Passes :
              /\ phase'[p] # "dead"
              /\ phase[p] \in {"lanes", "checked", "over"} => phase'[p] \in {"lanes", "checked", "over"}
              /\ phase[p] = "over" => phase'[p] = "over"
              /\ phase'[p] = "over" => disk'[p] \subseteq {rec'[p]}
<1>0. /\ phase \in [Passes -> {"unstarted", "begun", "lanes", "checked", "over", "dead"}]
      /\ disk \in [Passes -> SUBSET [Runs -> Record]] /\ rec \in [Passes -> [Runs -> Record]]
  BY DEF TypeInv, TypeOK
<1>1. CASE UNCHANGED <<phase, disk, rec>>
  BY <1>1 DEF CompletedInv
<1>2. ASSUME NEW p \in Passes, Begin(p) PROVE Goal
  <2>1. /\ phase[p] = "unstarted" /\ phase' = [phase EXCEPT ![p] = "begun"]
        /\ disk' = [disk EXCEPT ![p] = {rec[p]}] /\ rec' = rec
    BY <1>2 DEF Begin
  <2>2. phase'[p] = "begun" /\ \A q \in Passes : q # p => phase'[q] = phase[q] /\ disk'[q] = disk[q]
    BY <2>1, <1>0
  <2> QED BY <2>1, <2>2 DEF CompletedInv
<1>3. ASSUME NEW p \in Passes, OpenLanes(p) \/ CloseLanes(p) PROVE Goal
  <2>1. /\ phase[p] \in {"begun", "lanes"} /\ disk' = disk
        /\ phase' = [phase EXCEPT ![p] = IF phase[p] = "begun" THEN "lanes" ELSE "checked"]
    BY <1>3 DEF OpenLanes, CloseLanes, outcome
  <2>2. /\ phase'[p] \in {"lanes", "checked"}
        /\ \A q \in Passes : q # p => phase'[q] = phase[q] /\ rec'[q] = rec[q]
    BY <2>1, <1>0, <1>3 DEF OpenLanes, CloseLanes
  <2> QED BY <2>1, <2>2 DEF CompletedInv
<1>4. ASSUME NEW p \in Passes, Rewrite(p) PROVE Goal
  <2>1. /\ phase[p] = "checked" /\ phase' = [phase EXCEPT ![p] = "over"]
        /\ disk' = [disk EXCEPT ![p] = {rec[p]}] /\ rec' = rec
    BY <1>4 DEF Rewrite, Fault, Orderly
  <2>2. phase'[p] = "over" /\ disk'[p] = {rec[p]}
        /\ \A q \in Passes : q # p => phase'[q] = phase[q] /\ disk'[q] = disk[q]
    BY <2>1, <1>0
  <2> QED BY <2>1, <2>2 DEF CompletedInv
<1>5. ASSUME NEW p \in Passes, Prune(p) PROVE Goal
  <2>1. phase' = phase /\ rec' = rec /\ disk' = [disk EXCEPT ![p] = {}]
    BY <1>5 DEF Prune
  <2>2. \A q \in Passes : disk'[q] \subseteq disk[q]
    BY <2>1, <1>0
  <2> QED BY <2>1, <2>2 DEF CompletedInv
<1>6. ASSUME NEW p \in Passes, NEW l \in Lanes, LaneStep(p, l) PROVE Goal
  <2>1. phase' = phase /\ disk' = disk /\ phase[p] = "lanes"
    BY <1>6, TallyTyped, LaneStepTyped DEF outcome
  <2>2. \A q \in Passes : q # p => rec'[q] = rec[q]
    BY <1>6, OtherPasses
  <2> QED BY <2>1, <2>2 DEF CompletedInv
<1>7. ASSUME NEW p \in Passes, Interrupt(p) PROVE Goal
  BY <1>7 DEF Interrupt, Fault, Orderly
<1>8. Edit \/ UNCHANGED vars => UNCHANGED <<phase, disk, rec>>
  BY DEF Edit, vars, outcome
<1> QED BY <1>1, <1>2, <1>3, <1>4, <1>5, <1>6, <1>7, <1>8 DEF Next, PassStep

\* A completed run stays one: its record is settled.
LEMMA ServedStays ==
  ASSUME Orderly, TypeInv, QueueInv, CompletedInv, [Next]_vars,
         NEW q \in Passes, NEW r \in Runs, Served(q, r)
  PROVE  Served(q, r)'
<1>1. rec'[q][r] = [rec[q][r] EXCEPT !.integrity = rec'[q][r].integrity]
  BY SettlesBlanks DEF Served, Fresh
<1>2. rec[q][r] \in Record
  BY DEF TypeInv, TypeOK
<1>3. rec'[q][r].status = "completed"
  BY <1>1, <1>2 DEF Record, Served
<1> QED BY <1>3, OrderlyPhases DEF Served

\* What a step of a lane takes from the cache is completed.
LEMMA RestoresCompleted ==
  ASSUME TypeInv, CompletedInv, NEW p \in Passes, NEW l \in Lanes, LaneStep(p, l),
         lane[p][l].run \in Runs, rec'[p][lane[p][l].run].src # NoPass
  PROVE  rec'[p][lane[p][l].run].status = "completed"
<1> DEFINE a == lane[p][l]
           now == rec'[p][a.run]
<1>0. rec[p][a.run] \in Record
  BY LaneTypes
<1>1. CASE rec' = rec
  BY <1>1 DEF CompletedInv, HitsAreCompleted
<1>2. CASE PrepareFails(p, l)
  <2>1. now = [Fresh EXCEPT !.status = "failed"]
    BY <1>2, RecordMoves
  <2> QED BY <2>1 DEF Fresh
<1>3. CASE Restore(p, l) /\ rec' # rec
  <2>1. PICK report \in disk[a.src] : now = [report[a.run] EXCEPT !.src = a.src]
    BY <1>3, RecordMoves
  <2>2. a.pc = "restore" /\ a.src \in Passes
    BY <1>3, LaneTypes DEF Restore, At, Shaped
  <2>3. report = rec[a.src] /\ rec[a.src][a.run].status = "completed"
    BY <2>1, <2>2, SMTT(30) DEF CompletedInv, Served
  <2>4. report[a.run] \in Record
    BY <2>2 DEF TypeInv, TypeOK
  <2> QED BY <2>1, <2>3, <2>4 DEF Record
<1>4. CASE Admit(p, l) /\ rec' # rec
  <2>1. now = Refused("budget") \/ now = Refused("control")
    BY <1>4, RecordMoves
  <2> QED BY <2>1 DEF Refused, Fresh
<1>5. CASE (Attempt(p, l) \/ AttemptErrs(p, l)) /\ rec' # rec
  <2>1. \E status \in Statuses, kind \in {"runner", "none"} : now = Outcome(p, l, status, kind)
    BY <1>5, RecordMoves DEF Statuses
  <2> QED BY <2>1 DEF Outcome
<1>6. CASE Check(p, l) /\ rec' # rec
  <2>1. now = [rec[p][a.run] EXCEPT !.integrity = Integrity(a.before)]
    BY <1>6, RecordMoves
  <2>2. now.src = rec[p][a.run].src /\ now.status = rec[p][a.run].status
    BY <2>1, <1>0 DEF Record
  <2> QED BY <2>2 DEF CompletedInv, HitsAreCompleted
<1>7. Claim(p, l) \/ CaseGone(p, l) \/ Lookup(p, l) \/ Invoke(p, l) \/ RecordExact(p, l) \/ RecordSlot(p, l) => rec' = rec
  BY RecordMoves
<1> QED BY <1>1, <1>2, <1>3, <1>4, <1>5, <1>6, <1>7 DEF LaneStep

\* A lane that is to point to its run has completed it.
LEMMA RecordsCompleted ==
  ASSUME TypeInv, CompletedInv, NEW p \in Passes, NEW l \in Lanes, LaneStep(p, l),
         lane'[p][l].pc \in {"record", "slot"}
  PROVE  lane'[p][l].run \in Runs /\ rec'[p][lane'[p][l].run].status = "completed"
<1> DEFINE a == lane[p][l]
           b == lane'[p][l]
<1>0. a \in LaneState /\ Shaped(a) /\ Idle.pc = "idle" /\ Shaped(b)
  BY LaneTypes, LaneStepTyped DEF Idle
<1>1. CASE Attempt(p, l)
  <2>1. \/ b = [a EXCEPT !.pc = "invoke"] \/ b = [a EXCEPT !.pc = "record"] \/ b = [a EXCEPT !.pc = "check"]
    BY <1>1, LaneMoves
  <2>2. b.run = a.run /\ b.pc # "invoke"
    BY <2>1, <1>0 DEF LaneState
  <2>3. PICK status \in {"completed", "transient", "stopped"}, kind \in {"runner", "none"} :
          rec'[p][a.run] = Outcome(p, l, status, kind) /\ b.pc = After(p, status)
    BY <1>1, <2>2, RecordMoves
  <2>4. status = "completed"
    BY <2>3 DEF After
  <2> QED BY <2>2, <2>3, <2>4, <1>0 DEF Outcome, Shaped
<1>2. CASE RecordExact(p, l)
  <2>1. b = [a EXCEPT !.pc = "slot"] \/ b = [a EXCEPT !.pc = "check"]
    BY <1>2, LaneMoves
  <2>2. b.run = a.run /\ a.pc = "record" /\ rec' = rec
    BY <2>1, <1>0, <1>2 DEF LaneState, RecordExact, At
  <2> QED BY <2>2, <1>0 DEF CompletedInv, Shaped
<1>3. CASE RecordSlot(p, l) \/ AttemptErrs(p, l)
  <2>1. b = [a EXCEPT !.pc = "check"]
    BY <1>3, LaneMoves
  <2> QED BY <2>1, <1>0 DEF LaneState
<1>4. CASE Claim(p, l)
  <2>1. b = [Idle EXCEPT !.pc = "claimed", !.run = b.run]
    BY <1>4, LaneMoves
  <2> QED BY <2>1 DEF Idle
<1>5. CASE CaseGone(p, l) \/ PrepareFails(p, l) \/ Check(p, l)
  <2>1. b = Idle
    BY <1>5, LaneMoves
  <2> QED BY <2>1, <1>0
<1>6. CASE Lookup(p, l)
  <2>1. b = [a EXCEPT !.pc = "admit"] \/ b = [a EXCEPT !.pc = "restore", !.src = b.src]
    BY <1>6, LaneMoves
  <2> QED BY <2>1, <1>0 DEF LaneState
<1>7. CASE Restore(p, l) \/ Admit(p, l)
  <2>1. b = Idle \/ b = [a EXCEPT !.pc = "admit", !.src = NoPass] \/ b = [a EXCEPT !.pc = "invoke", !.before = skill]
    BY <1>7, LaneMoves
  <2> QED BY <2>1, <1>0 DEF LaneState
<1>8. CASE Invoke(p, l)
  <2>1. b = [a EXCEPT !.pc = "attempt", !.tries = a.tries + 1, !.given = skill]
    BY <1>8, LaneMoves
  <2> QED BY <2>1, <1>0 DEF LaneState
<1> QED BY <1>1, <1>2, <1>3, <1>4, <1>5, <1>6, <1>7, <1>8 DEF LaneStep

\* Without those three, every step keeps pointers and their reports together.
LEMMA CompletedStep ==
  ASSUME Orderly, TypeInv, QueueInv, Exclusive, CompletedInv, [Next]_vars
  PROVE  CompletedInv'
<1>0. /\ exact \subseteq Pointer /\ slot \in [Runs -> SUBSET Pointer] /\ LaneShape
      /\ rec \in [Passes -> [Runs -> Record]]
      /\ \A e \in Pointer : e.pass \in Passes /\ e.run \in Runs
  BY DEF TypeInv, TypeOK, Pointer
<1>1. \A p \in Passes : /\ phase'[p] # "dead" /\ (phase'[p] = "over" => disk'[p] \subseteq {rec'[p]})
                        /\ phase[p] = "over" => phase'[p] = "over"
  BY OrderlyPhases
<1>2. \A q \in Passes, r \in Runs : Served(q, r) => Served(q, r)'
  BY ServedStays
<1>3. CASE \E p \in Passes, l \in Lanes : LaneStep(p, l)
  <2>1. PICK p \in Passes, l \in Lanes : LaneStep(p, l)
    BY <1>3
  <2> DEFINE a == lane[p][l]
             b == lane'[p][l]
             k == KeyInput(p, a.run)
  <2>2. k.pass = p /\ k.run = a.run
    BY DEF KeyInput
  <2>3. phase[p] = "lanes" /\ phase' = phase
        /\ \A q \in Passes, m \in Lanes : lane'[q][m] = IF q = p /\ m = l THEN b ELSE lane[q][m]
    BY <2>1, LaneStepTyped, EveryLane
  <2>4. a.pc \in {"record", "slot"} => a.run \in Runs /\ Served(p, a.run)
    BY <2>3, <1>0 DEF CompletedInv, Served, LaneShape, Shaped
  <2>5. \A e \in exact' : Served(e.pass, e.run)'
    <3> SUFFICES ASSUME NEW e \in exact' PROVE Served(e.pass, e.run)'
      OBVIOUS
    <3>1. e \in exact \/ (e = k /\ a.pc = "record")
      BY <2>1, PointersGrow
    <3>2. e.pass \in Passes /\ e.run \in Runs /\ Served(e.pass, e.run)
      BY <3>1, <2>2, <2>4, <1>0 DEF CompletedInv
    <3> QED BY <3>2, <1>2
  <2>6. \A r \in Runs : \A e \in slot'[r] : Served(e.pass, r)'
    <3> SUFFICES ASSUME NEW r \in Runs, NEW e \in slot'[r] PROVE Served(e.pass, r)'
      OBVIOUS
    <3>1. e \in slot[r] \/ (e = k /\ a.pc = "slot" /\ r = a.run)
      BY <2>1, PointersGrow
    <3>2. e.pass \in Passes /\ Served(e.pass, r)
      BY <3>1, <2>2, <2>4, <1>0 DEF CompletedInv
    <3> QED BY <3>2, <1>2
  <2>7. ASSUME b.pc = "restore"
        PROVE  b.src \in Passes /\ b.run \in Runs /\ Served(b.src, b.run) /\ phase[b.src] = "over"
    <3>1. /\ a.pc = "claimed" /\ b.run = a.run /\ a.run \in Runs
          /\ \E e \in Pointer : e.pass = b.src /\ ((e \in exact /\ e.run = a.run) \/ e \in slot[a.run])
      BY <2>1, <2>7, LookupFinds
    <3>2. PICK e \in Pointer : e.pass = b.src /\ ((e \in exact /\ e.run = a.run) \/ e \in slot[a.run])
      BY <3>1
    <3>3. Served(b.src, a.run) /\ b.src \in Passes
      BY <3>1, <3>2, <1>0 DEF CompletedInv
    <3>4. rec[p][a.run] = Fresh
      BY <3>1 DEF QueueInv, Unsettled
    <3>5. b.src # p
      BY <3>3, <3>4 DEF Served, Fresh
    <3>6. ~Active(b.src)
      BY <2>3, <3>3, <3>5 DEF Exclusive, Active
    <3> QED BY <3>1, <3>3, <3>6 DEF Served, Active
  <2>8. ASSUME NEW q \in Passes, NEW m \in Lanes, lane'[q][m].pc = "restore"
        PROVE  (Served(lane[q][m].src, lane[q][m].run) /\ phase[lane[q][m].src] = "over")'
    <3>1. /\ lane'[q][m].src \in Passes /\ lane'[q][m].run \in Runs
          /\ Served(lane'[q][m].src, lane'[q][m].run) /\ phase[lane'[q][m].src] = "over"
      <4>1. CASE q = p /\ m = l
        BY <4>1, <2>7, <2>8
      <4>2. CASE ~(q = p /\ m = l)
        BY <4>2, <2>3, <2>8, <1>0 DEF CompletedInv, LaneShape, Shaped
      <4> QED BY <4>1, <4>2
    <3> DEFINE src == lane'[q][m].src
               run == lane'[q][m].run
    <3> HIDE DEF src, run
    <3>2. src \in Passes /\ run \in Runs /\ Served(src, run) /\ phase[src] = "over"
      BY <3>1 DEF src, run
    <3>3. phase'[src] \in {"lanes", "checked", "over"} /\ rec'[src][run].status = "completed" /\ phase'[src] = "over"
      BY <3>2, ServedStays, <2>3 DEF Served
    <3> QED BY <3>3 DEF Served, src, run
  <2>9. ASSUME NEW q \in Passes, NEW m \in Lanes, lane'[q][m].pc \in {"record", "slot"}
        PROVE  rec'[q][lane'[q][m].run].status = "completed"
    <3>1. CASE q = p /\ m = l
      BY <3>1, <2>1, <2>9, RecordsCompleted
    <3>2. CASE ~(q = p /\ m = l)
      <4>1. lane'[q][m] = lane[q][m] /\ lane[q][m].run \in Runs /\ rec[q][lane[q][m].run].status = "completed"
            /\ phase[q] = "lanes"
        BY <3>2, <2>3, <2>9, <1>0 DEF CompletedInv, LaneShape, Shaped
      <4>2. Served(q, lane[q][m].run)
        BY <4>1 DEF Served
      <4>3. rec'[q][lane[q][m].run].status = "completed"
        BY <4>1, <4>2, ServedStays DEF Served
      <4> QED BY <4>1, <4>3
    <3> QED BY <3>1, <3>2
  <2>10. HitsAreCompleted'
    <3>1. a.pc # "idle" => a.run \in Runs
      BY <1>0 DEF LaneShape, Shaped
    <3>2. ASSUME NEW q \in Passes, NEW r \in Runs, rec'[q][r].src # NoPass PROVE rec'[q][r].status = "completed"
      <4>1. CASE q = p /\ r = a.run
        BY <4>1, <2>1, <3>2, RestoresCompleted
      <4>2. CASE ~(q = p /\ r = a.run)
        BY <4>2, <2>1, <3>2, OtherRecords DEF CompletedInv, HitsAreCompleted
      <4> QED BY <4>1, <4>2
    <3> QED BY <3>2 DEF HitsAreCompleted
  <2> QED BY <1>1, <2>5, <2>6, <2>8, <2>9, <2>10 DEF CompletedInv
<1>4. CASE ~\E p \in Passes, l \in Lanes : LaneStep(p, l)
  <2>1. UNCHANGED <<lane, exact, slot>>
    BY <1>4 DEF Next, PassStep, Edit, Begin, OpenLanes, CloseLanes, Rewrite, Interrupt, Prune, vars, cache,
                Fault, Orderly
  <2>2. \A e \in exact' : Served(e.pass, e.run)'
    BY <2>1, <1>0, <1>2 DEF CompletedInv
  <2>3. \A r \in Runs : \A e \in slot'[r] : Served(e.pass, r)'
    BY <2>1, <1>0, <1>2 DEF CompletedInv
  <2>4. ASSUME NEW q \in Passes, NEW m \in Lanes, lane'[q][m].pc = "restore"
        PROVE  (Served(lane[q][m].src, lane[q][m].run) /\ phase[lane[q][m].src] = "over")'
    <3> DEFINE src == lane[q][m].src
               run == lane[q][m].run
    <3>1. src \in Passes /\ run \in Runs /\ Served(src, run) /\ phase[src] = "over" /\ lane' = lane
      BY <2>1, <2>4, <1>0 DEF CompletedInv, LaneShape, Shaped
    <3>2. rec'[src][run].status = "completed" /\ phase'[src] = "over"
      BY <3>1, ServedStays, <1>1 DEF Served
    <3> QED BY <3>1, <3>2 DEF Served
  <2>5. ASSUME NEW q \in Passes, NEW m \in Lanes, lane'[q][m].pc \in {"record", "slot"}
        PROVE  rec'[q][lane'[q][m].run].status = "completed"
    <3>1. lane' = lane /\ lane[q][m].run \in Runs /\ rec[q][lane[q][m].run].status = "completed" /\ phase[q] = "lanes"
      BY <2>1, <2>5, <1>0 DEF CompletedInv, LaneShape, Shaped
    <3>2. Served(q, lane[q][m].run)
      BY <3>1 DEF Served
    <3>3. rec'[q][lane[q][m].run].status = "completed"
      BY <3>1, <3>2, ServedStays DEF Served
    <3> QED BY <3>1, <3>3
  <2>6. HitsAreCompleted'
    <3>1. ASSUME NEW q \in Passes, NEW r \in Runs
          PROVE  rec'[q][r].src = rec[q][r].src /\ rec'[q][r].status = rec[q][r].status
      <4>1. CASE rec' = rec
        BY <4>1
      <4>2. ASSUME NEW p \in Passes, CloseLanes(p)
            PROVE rec'[q][r].src = rec[q][r].src /\ rec'[q][r].status = rec[q][r].status
        <5>1. PassIntegrity(p)[r].src = rec[p][r].src /\ PassIntegrity(p)[r].status = rec[p][r].status
          BY <1>0 DEF PassIntegrity, Record
        <5> QED BY <5>1, <4>2, <1>0 DEF CloseLanes
      <4> QED BY <4>1, <4>2, <1>4 DEF Next, PassStep, Edit, Begin, OpenLanes, Rewrite, Interrupt, Prune, vars
    <3> QED BY <3>1 DEF CompletedInv, HitsAreCompleted
  <2> QED BY <1>1, <2>2, <2>3, <2>4, <2>5, <2>6 DEF CompletedInv
<1> QED BY <1>3, <1>4

\* What a pass takes from the cache is a result of its own question, of a pass
\* that ended: the run completed, for the pass's revision and config.
THEOREM HitsAreSound ==
  ASSUME Orderly PROVE Spec => []HitsAreResults
<1>1. RevisionInv /\ CompletedInv => HitsAreResults
  BY DEF RevisionInv, CompletedInv, Answers, HitsAnswerForTheRevision, HitsAreResults
<1>2. ~Overlap
  BY DEF Orderly
<1> QED
  BY <1>1, <1>2, TypeInit, TypeStep, QueueInit, QueueStep, RevisionInit, RevisionStep, ExclusiveInit, ExclusiveStep,
     CompletedInit, CompletedStep, PTL DEF Spec

\* A run whose case the lanes do not know never starts, and the lane that claims
\* it puts it aside.
GoneInv ==
    \A p \in Passes :
        /\ phase[p] \in {"unstarted", "begun"} => caseIndex[p] = {}
        /\ \A r \in Runs \ caseIndex[p] :
              rec[p][r] = Fresh /\ \A l \in Lanes : lane[p][l].run = r => lane[p][l].pc = "claimed"

(* Before a pass no lane has a run. *)
LEMMA GoneInit == Init => GoneInv
  BY PassAssumption DEF Init, GoneInv, Idle

\* Every step leaves those runs alone.
LEMMA GoneStep ==
  ASSUME TypeInv, GoneInv, [Next]_vars
  PROVE  GoneInv'
<1>0. /\ phase \in [Passes -> {"unstarted", "begun", "lanes", "checked", "over", "dead"}]
      /\ rec \in [Passes -> [Runs -> Record]] /\ caseIndex \in [Passes -> SUBSET Runs] /\ NoRun \notin Runs
  BY PassAssumption DEF TypeInv, TypeOK
<1>1. CASE Edit \/ (\E p \in Passes : Begin(p) \/ Rewrite(p) \/ Prune(p)) \/ UNCHANGED vars
  <2>1. /\ UNCHANGED <<caseIndex, lane, rec>>
        /\ \A p \in Passes : phase'[p] \in {"unstarted", "begun"} => phase[p] \in {"unstarted", "begun"}
    BY <1>1, <1>0 DEF Edit, Begin, Rewrite, Prune, vars
  <2> QED BY <2>1 DEF GoneInv
<1>2. ASSUME NEW p \in Passes, OpenLanes(p) PROVE GoneInv'
  <2>1. /\ phase[p] = "begun" /\ phase' = [phase EXCEPT ![p] = "lanes"] /\ UNCHANGED <<lane, rec>>
        /\ \E known : caseIndex' = [caseIndex EXCEPT ![p] = known]
    BY <1>2 DEF OpenLanes
  <2>2. caseIndex[p] = {} /\ phase'[p] = "lanes"
        /\ \A q \in Passes : q # p => caseIndex'[q] = caseIndex[q] /\ phase'[q] = phase[q]
    BY <2>1, <1>0 DEF GoneInv
  <2> QED BY <2>1, <2>2 DEF GoneInv
<1>3. ASSUME NEW p \in Passes, CloseLanes(p) PROVE GoneInv'
  <2>1. /\ UNCHANGED <<caseIndex, lane>> /\ phase' = [phase EXCEPT ![p] = "checked"]
        /\ rec' = rec \/ rec' = [rec EXCEPT ![p] = PassIntegrity(p)]
    BY <1>3 DEF CloseLanes
  <2>2. \A q \in Passes, r \in Runs : rec[q][r] = Fresh => rec'[q][r] = Fresh
    BY <2>1, <1>0 DEF PassIntegrity, Fresh
  <2>3. \A q \in Passes : phase'[q] \in {"unstarted", "begun"} => phase[q] \in {"unstarted", "begun"}
    BY <2>1, <1>0
  <2> QED BY <2>1, <2>2, <2>3 DEF GoneInv
<1>4. ASSUME NEW p \in Passes, Interrupt(p) PROVE GoneInv'
  <2>1. /\ UNCHANGED <<caseIndex, rec>> /\ phase' = [phase EXCEPT ![p] = "dead"]
        /\ lane' = [lane EXCEPT ![p] = [l \in Lanes |-> Idle]]
    BY <1>4 DEF Interrupt
  <2>2. /\ \A q \in Passes : phase'[q] \in {"unstarted", "begun"} => phase[q] \in {"unstarted", "begun"}
        /\ \A q \in Passes, l \in Lanes : lane'[q][l].run \in Runs => lane'[q][l] = lane[q][l]
    BY <2>1, <1>0, LaneTypes DEF Idle, TypeInv, TypeOK
  <2> QED BY <2>1, <2>2 DEF GoneInv
<1>5. ASSUME NEW p \in Passes, NEW l \in Lanes, LaneStep(p, l) PROVE GoneInv'
  <2> DEFINE a == lane[p][l]
             b == lane'[p][l]
  <2>1. UNCHANGED <<phase, caseIndex>>
    BY <1>5, TallyTyped
  <2>2. \A q \in Passes, m \in Lanes : lane'[q][m] = IF q = p /\ m = l THEN b ELSE lane[q][m]
    BY <1>5, LaneStepTyped, EveryLane
  <2>3. ASSUME NEW q \in Passes, NEW r \in Runs \ caseIndex[q] PROVE rec'[q][r] = Fresh
    <3>1. rec[q][r] = Fresh
      BY DEF GoneInv
    <3>2. CASE q # p \/ r # a.run
      BY <3>1, <3>2, <1>5, OtherRecords
    <3>3. CASE q = p /\ r = a.run
      <4>1. a.pc = "claimed" /\ ~Known(p, l)
        BY <3>3 DEF GoneInv, Known
      <4>2. rec' = rec
        BY <4>1, <1>5 DEF LaneStep, Claim, CaseGone, PrepareFails, Lookup, Restore, Admit, Invoke, Attempt,
                          AttemptErrs, RecordExact, RecordSlot, Check, At
      <4> QED BY <3>1, <4>2
    <3> QED BY <3>2, <3>3
  <2>4. ASSUME b.run \in Runs \ caseIndex[p] PROVE b.pc = "claimed"
    <3>1. CASE a.pc = "idle"
      BY <3>1, <1>5, LaneKeepsItsRun
    <3>2. CASE a.pc # "idle" /\ b.pc # "idle"
      <4>1. b.run = a.run
        BY <3>2, <1>5, LaneKeepsItsRun
      <4>2. a.pc = "claimed" /\ ~Known(p, l)
        BY <4>1, <2>4 DEF GoneInv, Known
      <4>3. CaseGone(p, l)
        BY <4>2, <1>5 DEF LaneStep, Claim, PrepareFails, Lookup, Restore, Admit, Invoke, Attempt,
                          AttemptErrs, RecordExact, RecordSlot, Check, At
      <4>4. b = Idle
        BY <4>3, LaneMoves
      <4> QED BY <4>4, <3>2 DEF Idle
    <3>3. CASE b.pc = "idle"
      <4>1. b = Idle
        BY <3>3, <1>5, LaneStepTyped DEF Shaped
      <4> QED BY <4>1, <2>4, <1>0 DEF Idle
    <3> QED BY <3>1, <3>2, <3>3
  <2> HIDE DEF a, b
  <2>5. \A q \in Passes : \A r \in Runs \ caseIndex[q] :
          \A m \in Lanes : lane'[q][m].run = r => lane'[q][m].pc = "claimed"
    BY <2>2, <2>4 DEF GoneInv
  <2> QED BY <2>1, <2>3, <2>5 DEF GoneInv
<1> QED BY <1>1, <1>2, <1>3, <1>4, <1>5 DEF Next, PassStep

\* A run that has come to something: a result, a refusal that says why, or, when
\* its case was gone, what was planned of it.
Told(p, r) ==
    IF r \in caseIndex[p]
    THEN rec[p][r].status # "skipped" \/ rec[p][r].kind \in {"budget", "control"}
    ELSE rec[p][r] = Fresh

\* No run is lost between the queue, the lanes and the records, and a pass ends
\* clean only within its budget.
CoverInv ==
    \A p \in Passes :
        /\ phase[p] \in {"lanes", "checked", "over"} =>
              \A r \in Runs : \/ r \in todo[p] \/ Told(p, r)
                              \/ \E l \in Lanes : lane[p][l].pc \in Unsettled /\ lane[p][l].run = r
        /\ exit[p] = "clean" => phase[p] = "over" /\ ~OutOfBudget(p)

(* At the start every planned run is still to be settled. *)
LEMMA CoverInit == Init => CoverInv
  BY DEF Init, CoverInv

\* What the lanes know of the suite stands.
LEMMA CasesStay ==
  ASSUME TypeInv, [Next]_vars, NEW p \in Passes, phase[p] # "begun"
  PROVE  caseIndex'[p] = caseIndex[p]
<1>1. CASE \E q \in Passes, l \in Lanes : LaneStep(q, l)
  BY <1>1, TallyTyped
<1>2. ASSUME NEW q \in Passes, OpenLanes(q) PROVE caseIndex'[p] = caseIndex[p]
  <2>1. q # p /\ \E known : caseIndex' = [caseIndex EXCEPT ![q] = known]
    BY <1>2 DEF OpenLanes
  <2> QED BY <2>1 DEF TypeInv, TypeOK
<1> QED BY <1>1, <1>2 DEF Next, PassStep, Edit, Begin, CloseLanes, Rewrite, Interrupt, Prune, vars

\* What was told of a run stands.
LEMMA ToldStays ==
  ASSUME TypeInv, QueueInv, GoneInv, [Next]_vars, NEW p \in Passes, NEW r \in Runs,
         phase[p] # "begun", Told(p, r)
  PROVE  Told(p, r)'
<1>0. caseIndex'[p] = caseIndex[p] /\ rec[p][r] \in Record
  BY CasesStay DEF TypeInv, TypeOK
<1>1. CASE r \in caseIndex[p]
  <2>1. rec'[p][r] = [rec[p][r] EXCEPT !.integrity = rec'[p][r].integrity]
    BY <1>1, SettlesBlanks DEF Told, Fresh
  <2> QED BY <1>0, <1>1, <2>1 DEF Record, Told
<1>2. CASE r \notin caseIndex[p]
  BY <1>0, <1>2, GoneStep DEF GoneInv, Told
<1> QED BY <1>1, <1>2

\* A lane that leaves a run tells what came of it.
LEMMA LanesTell ==
  ASSUME TypeInv, CompletedInv, GoneInv, [Next]_vars, NEW p \in Passes, NEW l \in Lanes, LaneStep(p, l),
         lane[p][l].pc \in Unsettled, lane'[p][l].pc \notin Unsettled,
         NEW r \in Runs, r = lane[p][l].run
  PROVE  Told(p, r)'
<1> DEFINE a == lane[p][l]
           b == lane'[p][l]
           now == rec'[p][a.run]
<1>0. a \in LaneState /\ Shaped(a) /\ a.run \in Runs
  BY LaneTypes DEF Shaped, Unsettled
<1> DEFINE told == now.status # "skipped" \/ now.kind \in {"budget", "control"}
<1>1. ASSUME PrepareFails(p, l) PROVE told
  <2>1. now = [Fresh EXCEPT !.status = "failed"]
    BY <1>1, RecordMoves
  <2> QED BY <2>1 DEF Fresh
<1>2. ASSUME Restore(p, l) PROVE told
  <2>1. a.pc = "restore" /\ a.src \in Passes
    BY <1>0, <1>2 DEF Restore, At, Shaped
  <2>2. CASE \E report \in disk[a.src] : now = [report[a.run] EXCEPT !.src = a.src]
    <3>1. PICK report \in disk[a.src] : now = [report[a.run] EXCEPT !.src = a.src]
      BY <2>2
    <3>2. report = rec[a.src] /\ rec[a.src][a.run].status = "completed"
      BY <3>1, <2>1, SMTT(30) DEF CompletedInv, Served
    <3>3. report[a.run] \in Record
      BY <1>0, <2>1 DEF TypeInv, TypeOK
    <3> QED BY <3>1, <3>2, <3>3 DEF Record
  <2>3. CASE rec' = rec /\ b # Idle
    <3>1. b = Idle \/ b = [a EXCEPT !.pc = "admit", !.src = NoPass]
      BY <1>2, LaneMoves
    <3>2. b.pc = "admit"
      BY <3>1, <2>3, <1>0 DEF LaneState
    <3> QED BY <3>2 DEF Unsettled
  <2> QED BY <1>2, <2>2, <2>3, RecordMoves
<1>3. ASSUME Admit(p, l) PROVE told
  <2>1. b = Idle \/ b = [a EXCEPT !.pc = "invoke", !.before = skill]
    BY <1>3, LaneMoves
  <2>2. ~(lane' = [lane EXCEPT ![p][l].pc = "invoke", ![p][l].before = skill])
    <3> SUFFICES ASSUME lane' = [lane EXCEPT ![p][l].pc = "invoke", ![p][l].before = skill] PROVE FALSE
      OBVIOUS
    <3>1. b.pc = "invoke"
      BY LaneTypes DEF LaneState
    <3> QED BY <3>1 DEF Unsettled
  <2>3. Settle(p, a.run, Refused("budget")) \/ Settle(p, a.run, Refused("control"))
    BY <1>3, <2>2 DEF Admit
  <2>4. now = Refused("budget") \/ now = Refused("control")
    BY <2>3, <1>0, LaneTypes DEF Settle
  <2> QED BY <2>4 DEF Refused, Fresh
<1>4. ASSUME Attempt(p, l) PROVE told
  <2>1. b.pc # "invoke"
    BY DEF Unsettled
  <2>2. \E status \in {"completed", "transient", "stopped"}, kind \in {"runner", "none"} : now = Outcome(p, l, status, kind)
    BY <1>4, <2>1, RecordMoves
  <2> QED BY <2>2 DEF Outcome
<1>5. ASSUME AttemptErrs(p, l) PROVE told
  <2>1. now = Outcome(p, l, "failed", "runner")
    BY <1>5, RecordMoves
  <2> QED BY <2>1 DEF Outcome
<1>6. ASSUME Lookup(p, l) PROVE told
  <2>1. b = [a EXCEPT !.pc = "admit"] \/ b = [a EXCEPT !.pc = "restore", !.src = b.src]
    BY <1>6, LaneMoves
  <2> QED BY <2>1, <1>0 DEF LaneState, Unsettled
<1>7. ASSUME Invoke(p, l) PROVE told
  <2>1. b = [a EXCEPT !.pc = "attempt", !.tries = a.tries + 1, !.given = skill]
    BY <1>7, LaneMoves
  <2> QED BY <2>1, <1>0 DEF LaneState, Unsettled
<1>8. ~(Claim(p, l) \/ RecordExact(p, l) \/ RecordSlot(p, l) \/ Check(p, l))
  BY DEF Claim, RecordExact, RecordSlot, Check, At, Unsettled
<1>9. ~CaseGone(p, l) => told
  <2> HIDE DEF told
  <2> QED BY <1>1, <1>2, <1>3, <1>4, <1>5, <1>6, <1>7, <1>8 DEF LaneStep
<1>10. CASE r \in caseIndex[p]
  <2>1. ~CaseGone(p, l) /\ caseIndex' = caseIndex
    BY <1>10, TallyTyped DEF CaseGone
  <2> QED BY <1>9, <1>10, <2>1 DEF Told
<1>11. CASE r \notin caseIndex[p]
  <2>1. caseIndex' = caseIndex /\ now = Fresh
    BY <1>0, <1>11, TallyTyped, GoneStep DEF GoneInv
  <2> QED BY <1>11, <2>1 DEF Told
<1> QED BY <1>10, <1>11

\* Every step keeps every run accounted for.
LEMMA CoverStep ==
  ASSUME Orderly, TypeInv, QueueInv, CompletedInv, GoneInv, CoverInv, [Next]_vars
  PROVE  CoverInv'
<1>0. /\ phase \in [Passes -> {"unstarted", "begun", "lanes", "checked", "over", "dead"}]
      /\ todo \in [Passes -> SUBSET Runs] /\ exit \in [Passes -> {"none", "clean", "budget", "broken"}]
      /\ rec \in [Passes -> [Runs -> Record]] /\ spent \in [Passes -> Nat] /\ caseIndex \in [Passes -> SUBSET Runs]
      /\ LaneShape
  BY DEF TypeInv, TypeOK
<1> DEFINE Covered(p, r) ==
      \/ r \in todo[p] \/ Told(p, r)
      \/ \E l \in Lanes : lane[p][l].pc \in Unsettled /\ lane[p][l].run = r
<1>1. \A p \in Passes, r \in Runs : phase[p] # "begun" /\ Told(p, r) => Told(p, r)'
  BY ToldStays
<1>2. CASE Edit \/ (\E p \in Passes : Begin(p) \/ Prune(p)) \/ UNCHANGED vars
  <2>1. /\ UNCHANGED <<caseIndex, todo, lane, rec, exit, spent>>
        /\ \A p \in Passes : phase'[p] = phase[p] \/ (phase[p] = "unstarted" /\ phase'[p] = "begun")
    BY <1>2, <1>0 DEF Edit, Begin, Prune, vars, outcome
  <2> QED BY <2>1 DEF CoverInv, OutOfBudget, Told
<1>3. ASSUME NEW p \in Passes, OpenLanes(p) \/ CloseLanes(p) PROVE CoverInv'
  <2>1. /\ phase[p] \in {"begun", "lanes"} /\ exit' = exit /\ spent' = spent /\ lane' = lane
        /\ \E to \in {"lanes", "checked"} : phase' = [phase EXCEPT ![p] = to]
        /\ phase[p] = "begun" => todo' = [todo EXCEPT ![p] = Runs]
        /\ phase[p] # "begun" => todo' = todo
    BY <1>3 DEF OpenLanes, CloseLanes, outcome
  <2>2. \A q \in Passes : q # p => /\ phase'[q] = phase[q] /\ todo'[q] = todo[q] /\ rec'[q] = rec[q]
                                  /\ caseIndex'[q] = caseIndex[q]
    BY <2>1, <1>0, <1>3 DEF OpenLanes, CloseLanes
  <2>3. \A r \in Runs : Covered(p, r)'
    BY <2>1, <1>0, <1>1 DEF CoverInv
  <2>4. ASSUME NEW q \in Passes, exit'[q] = "clean" PROVE phase'[q] = "over" /\ ~OutOfBudget(q)'
    BY <2>1, <2>2, <2>4 DEF CoverInv, OutOfBudget
  <2>5. ASSUME NEW q \in Passes, phase'[q] \in {"lanes", "checked", "over"}, NEW r \in Runs PROVE Covered(q, r)'
    BY <2>1, <2>2, <2>3, <2>5 DEF CoverInv, Told
  <2> QED BY <2>4, <2>5 DEF CoverInv
<1>4. ASSUME NEW p \in Passes, Rewrite(p) PROVE CoverInv'
  <2>1. /\ phase[p] = "checked" /\ phase' = [phase EXCEPT ![p] = "over"]
        /\ exit' = [exit EXCEPT ![p] = IF OutOfBudget(p) THEN "budget" ELSE "clean"]
        /\ UNCHANGED <<caseIndex, todo, lane, rec, spent>>
    BY <1>4 DEF Rewrite, Fault, Orderly
  <2>2. phase'[p] = "over" /\ \A q \in Passes : q # p => phase'[q] = phase[q] /\ exit'[q] = exit[q]
    BY <2>1, <1>0
  <2>3. exit'[p] = "clean" => ~OutOfBudget(p)
    BY <2>1, <1>0
  <2> QED BY <2>1, <2>2, <2>3 DEF CoverInv, OutOfBudget, Told
<1>5. ASSUME NEW p \in Passes, NEW l \in Lanes, LaneStep(p, l) PROVE CoverInv'
  <2> DEFINE a == lane[p][l]
             b == lane'[p][l]
  <2>1. \/ /\ b.run \in todo[p] /\ b.pc = "claimed" /\ a.pc = "idle" /\ rec' = rec
           /\ todo' = [todo EXCEPT ![p] = @ \ {b.run}]
        \/ /\ todo' = todo /\ a.pc # "idle"
           /\ \/ b.pc = "idle"
              \/ /\ b.run = a.run /\ b.pc # "idle"
                 /\ b.pc \in Unsettled => a.pc \in Unsettled /\ rec' = rec
    BY <1>5, LaneKeepsItsRun
  <2>2. phase' = phase /\ phase[p] = "lanes" /\ exit' = exit /\ caseIndex' = caseIndex
    BY <1>5, LaneStepTyped, TallyTyped DEF outcome
  <2>3. \A q \in Passes, m \in Lanes : lane'[q][m] = IF q = p /\ m = l THEN b ELSE lane[q][m]
    BY <1>5, LaneStepTyped, EveryLane
  <2>4. a.pc \in Unsettled /\ b.pc \notin Unsettled => \A r \in Runs : r = a.run => Told(p, r)'
    BY <1>5, LanesTell
  <2>5. "idle" \notin Unsettled /\ "claimed" \in Unsettled
    BY DEF Unsettled
  <2> HIDE DEF a, b
  <2>6. ASSUME NEW r \in Runs PROVE Covered(p, r)'
    <3>1. Covered(p, r)
      BY <2>2 DEF CoverInv
    <3>2. CASE r \in todo[p]
      <4>1. r \in todo'[p] \/ r = b.run
        BY <3>2, <2>1, <1>0
      <4>2. r \notin todo'[p] => b.pc = "claimed" /\ r = b.run
        BY <3>2, <4>1, <2>1
      <4> QED BY <4>2, <2>3, <2>5
    <3>3. CASE Told(p, r)
      BY <3>3, <2>2, <1>1
    <3>4. ASSUME NEW m \in Lanes, lane[p][m].pc \in Unsettled, lane[p][m].run = r PROVE Covered(p, r)'
      <4>1. CASE m # l
        BY <4>1, <3>4, <2>3
      <4>2. CASE m = l
        <5>1. a.pc \in Unsettled /\ a.run = r
          BY <4>2, <3>4 DEF a
        <5>2. CASE b.pc \in Unsettled
          <6>1. b.run = r
            BY <5>1, <5>2, <2>1, <2>5
          <6> QED BY <6>1, <5>2, <2>3
        <5>3. CASE b.pc \notin Unsettled
          BY <5>1, <5>3, <2>4
        <5> QED BY <5>2, <5>3
      <4> QED BY <4>1, <4>2
    <3> QED BY <3>1, <3>2, <3>3, <3>4
  <2>7. ASSUME NEW q \in Passes, q # p
        PROVE  todo'[q] = todo[q] /\ rec'[q] = rec[q] /\ spent'[q] = spent[q] /\ \A m \in Lanes : lane'[q][m] = lane[q][m]
    <3>1. rec'[q] = rec[q]
      BY <1>5, <2>7, OtherPasses
    <3>2. spent'[q] = spent[q]
      BY <1>0, <1>5, <2>7 DEF LaneStep, Claim, CaseGone, PrepareFails, Lookup, Restore, Admit, Invoke, Attempt, AttemptErrs,
                      RecordExact, RecordSlot, Check
    <3> QED BY <3>1, <3>2, <2>1, <2>3, <2>7, <1>0
  <2>8. ASSUME NEW q \in Passes, phase'[q] \in {"lanes", "checked", "over"}, NEW r \in Runs PROVE Covered(q, r)'
    <3>1. CASE q = p
      BY <3>1, <2>6
    <3>2. CASE q # p
      BY <3>2, <2>2, <2>7, <2>8 DEF CoverInv, Told
    <3> QED BY <3>1, <3>2
  <2>9. ASSUME NEW q \in Passes, exit'[q] = "clean" PROVE phase'[q] = "over" /\ ~OutOfBudget(q)'
    <3>1. q # p
      BY <2>2, <2>9 DEF CoverInv
    <3> QED BY <3>1, <2>2, <2>7, <2>9 DEF CoverInv, OutOfBudget
  <2> QED BY <2>8, <2>9 DEF CoverInv
<1>6. ASSUME NEW p \in Passes, Interrupt(p) PROVE CoverInv'
  BY <1>6 DEF Interrupt, Fault, Orderly
<1> QED BY <1>2, <1>3, <1>4, <1>5, <1>6 DEF Next, PassStep

\* A pass that ends clean kept its ceiling, and every run has a result, asked for
\* a control the runner lacks, or was put aside because its case was gone when the
\* lanes read the suite.
THEOREM CleanIsComplete ==
  ASSUME Orderly PROVE Spec => []CleanPassIsComplete
<1>1. TypeInv /\ QueueInv /\ CoverInv => CleanPassIsComplete
  <2> SUFFICES ASSUME TypeInv, QueueInv, CoverInv, NEW p \in Passes, exit[p] = "clean"
               PROVE  /\ spent[p] <= Ceiling
                      /\ \A r \in Runs : rec[p][r].status = "skipped" =>
                            IF r \in caseIndex[p] THEN rec[p][r].kind = "control" ELSE rec[p][r] = Fresh
    BY DEF CleanPassIsComplete
  <2>1. phase[p] = "over" /\ ~OutOfBudget(p)
    BY DEF CoverInv
  <2>2. spent[p] <= Ceiling
    BY <2>1, PassAssumption DEF OutOfBudget, TypeInv, TypeOK
  <2>3. todo[p] = {} /\ \A l \in Lanes : lane[p][l].pc \notin Unsettled
    BY <2>1 DEF QueueInv, TypeInv, LaneShape, Unsettled
  <2>4. \A r \in Runs : Told(p, r) /\ rec[p][r].kind # "budget"
    BY <2>1, <2>3 DEF CoverInv, OutOfBudget
  <2> QED BY <2>2, <2>4 DEF Told
<1>2. ~Overlap
  BY DEF Orderly
<1> QED
  BY <1>1, <1>2, TypeInit, TypeStep, QueueInit, QueueStep, ExclusiveInit, ExclusiveStep, CompletedInit, CompletedStep,
     GoneInit, GoneStep, CoverInit, CoverStep, PTL DEF Spec

------------------------------------------------------------------------------
(* A skill that runs rewrite. *)

\* The steps of a lane before and after its run may have rewritten the skill.
Early(s) == s.pc \in {"claimed", "restore", "admit"} \/ (s.pc = "invoke" /\ s.tries = 0)
Working == {"invoke", "attempt", "record", "slot", "check"}

\* Whoever rewrote the skill is found out: it differs from what the window of its
\* run opened on, and the run is one the check will reach.
RewriteInv ==
    \A p \in Passes :
        /\ phase[p] \in {"unstarted", "begun"} => rewriters[p] = {}
        /\ rewriters[p] \cap todo[p] = {}
        /\ digest[p].baseline <= skill
        /\ rewriters[p] # {} => digest[p].baseline < skill
        /\ \A l \in Lanes :
              /\ Early(lane[p][l]) => lane[p][l].run \notin rewriters[p]
              /\ lane[p][l].pc \in Working =>
                    /\ lane[p][l].before <= skill
                    /\ lane[p][l].run \in rewriters[p] => lane[p][l].before < skill
              /\ lane[p][l].pc \in {"record", "slot", "check"} =>
                    rec[p][lane[p][l].run].src = NoPass /\ rec[p][lane[p][l].run].status # "skipped"
        /\ phase[p] \in {"lanes", "checked", "over"} => \A r \in rewriters[p] :
              \/ \E l \in Lanes : lane[p][l].run = r /\ lane[p][l].pc \in Working
              \/ /\ rec[p][r].src = NoPass /\ rec[p][r].status # "skipped"
                 /\ Serial \/ phase[p] # "lanes" => rec[p][r].integrity = "tampered"

(* At the start nothing has been rewritten. *)
LEMMA RewriteInit == Init => RewriteInv
  BY DEF Init, RewriteInv, Idle, Early, Working

\* The skill only moves on, and only an attempt of a run makes the run a
\* rewriter.
LEMMA LaneRewrites ==
  ASSUME TypeInv, NEW p \in Passes, NEW l \in Lanes, LaneStep(p, l)
  PROVE  \/ skill' = skill /\ rewriters' = rewriters
         \/ /\ lane[p][l].pc = "attempt" /\ skill' = skill + 1
            /\ rewriters' = [rewriters EXCEPT ![p] = @ \cup {lane[p][l].run}]
  BY DEF LaneStep, Claim, CaseGone, PrepareFails, Lookup, Restore, Admit, Invoke, Attempt, AttemptErrs, RecordExact,
         RecordSlot, Check, MayRewrite, At

\* How a lane comes to be early in a run, to work on it, and to leave it.
LEMMA LaneWorks ==
  ASSUME TypeInv, NEW p \in Passes, NEW l \in Lanes, LaneStep(p, l)
  PROVE  LET a == lane[p][l]
             b == lane'[p][l]
         IN
         /\ Early(b) => \/ b.run \in todo[p] /\ a.pc = "idle"
                        \/ b.run = a.run /\ Early(a) /\ a.pc # "attempt"
         /\ b.pc \in Working =>
              /\ b.run = a.run
              /\ \/ a.pc = "admit" /\ b.before = skill /\ b.pc = "invoke"
                 \/ a.pc \in Working /\ b.before = a.before
         /\ a.pc \in Working /\ b.pc \notin Working => Check(p, l) \/ Early(a)
         /\ b.pc \in {"record", "slot", "check"} =>
              \/ a.pc \in {"record", "slot"} /\ rec' = rec
              \/ a.pc = "attempt" /\ rec'[p][a.run].src = NoPass /\ rec'[p][a.run].status # "skipped"
<1> DEFINE a == lane[p][l]
           b == lane'[p][l]
<1>0. a \in LaneState /\ Shaped(a) /\ Idle.pc = "idle" /\ Retries \in Nat
  BY LaneTypes, PassAssumption DEF Idle
<1> USE DEF Early, Working
<1>1. CASE Claim(p, l)
  <2>1. b.run \in todo[p] /\ b = [Idle EXCEPT !.pc = "claimed", !.run = b.run]
    BY <1>1, LaneMoves
  <2>2. b.pc = "claimed" /\ a.pc = "idle"
    BY <2>1, <1>1 DEF Idle, Claim, At
  <2> QED BY <2>1, <2>2
<1>2. CASE CaseGone(p, l) \/ PrepareFails(p, l)
  <2>1. b = Idle /\ Early(a)
    BY <1>2, LaneMoves DEF CaseGone, PrepareFails, At
  <2> QED BY <2>1, <1>0
<1>3. CASE Lookup(p, l)
  <2>1. b = [a EXCEPT !.pc = "admit"] \/ b = [a EXCEPT !.pc = "restore", !.src = b.src]
    BY <1>3, LaneMoves
  <2>2. b.run = a.run /\ b.pc \in {"admit", "restore"} /\ a.pc = "claimed"
    BY <2>1, <1>0, <1>3 DEF LaneState, Lookup, At
  <2> QED BY <2>2
<1>4. CASE Restore(p, l)
  <2>1. b = Idle \/ b = [a EXCEPT !.pc = "admit", !.src = NoPass]
    BY <1>4, LaneMoves
  <2>2. a.pc = "restore" /\ (b.pc = "idle" \/ (b.pc = "admit" /\ b.run = a.run))
    BY <2>1, <1>0, <1>4 DEF LaneState, Restore, At
  <2> QED BY <2>2
<1>5. CASE Admit(p, l)
  <2>1. b = Idle \/ b = [a EXCEPT !.pc = "invoke", !.before = skill]
    BY <1>5, LaneMoves
  <2>2. a.pc = "admit" /\ (b.pc = "idle" \/ (b.pc = "invoke" /\ b.run = a.run /\ b.before = skill))
    BY <2>1, <1>0, <1>5 DEF LaneState, Admit, At
  <2> QED BY <2>2
<1>6. CASE Invoke(p, l)
  <2>1. b = [a EXCEPT !.pc = "attempt", !.tries = a.tries + 1, !.given = skill]
    BY <1>6, LaneMoves
  <2>2. a.pc = "invoke" /\ b.pc = "attempt" /\ b.run = a.run /\ b.before = a.before
    BY <2>1, <1>0, <1>6 DEF LaneState, Invoke, At
  <2> QED BY <2>2
<1>7. CASE Attempt(p, l)
  <2>1. \/ b = [a EXCEPT !.pc = "invoke"] \/ b = [a EXCEPT !.pc = "record"] \/ b = [a EXCEPT !.pc = "check"]
    BY <1>7, LaneMoves
  <2>2. /\ a.pc = "attempt" /\ b.run = a.run /\ b.before = a.before /\ b.tries = a.tries
        /\ b.pc \in {"invoke", "record", "check"} /\ a.tries \in 1..(Retries + 1)
    BY <2>1, <1>0, <1>7 DEF LaneState, Attempt, At, Shaped
  <2>3. b.pc = "invoke" \/ \E status \in {"completed", "transient", "stopped"}, kind \in {"runner", "none"} :
          rec'[p][a.run] = Outcome(p, l, status, kind)
    BY <1>7, RecordMoves
  <2>4. b.pc = "invoke" \/ (rec'[p][a.run].src = NoPass /\ rec'[p][a.run].status # "skipped")
    BY <2>3 DEF Outcome
  <2> QED BY <2>2, <2>4, <1>0
<1>8. CASE AttemptErrs(p, l)
  <2>1. b = [a EXCEPT !.pc = "check"] /\ rec'[p][a.run] = Outcome(p, l, "failed", "runner")
    BY <1>8, LaneMoves, RecordMoves
  <2>2. a.pc = "attempt" /\ b.run = a.run /\ b.before = a.before /\ b.pc = "check"
    BY <2>1, <1>0, <1>8 DEF LaneState, AttemptErrs, At
  <2>3. rec'[p][a.run].src = NoPass /\ rec'[p][a.run].status # "skipped"
    BY <2>1 DEF Outcome
  <2> QED BY <2>2, <2>3
<1>9. CASE RecordExact(p, l) \/ RecordSlot(p, l)
  <2>1. b = [a EXCEPT !.pc = "slot"] \/ b = [a EXCEPT !.pc = "check"]
    BY <1>9, LaneMoves
  <2>2. a.pc \in {"record", "slot"} /\ rec' = rec
    BY <1>9 DEF RecordExact, RecordSlot, At
  <2>3. b.run = a.run /\ b.before = a.before /\ b.pc \in {"slot", "check"}
    BY <2>1, <1>0 DEF LaneState
  <2> QED BY <2>2, <2>3
<1>10. CASE Check(p, l)
  <2>1. b = Idle
    BY <1>10, LaneMoves
  <2> QED BY <2>1, <1>0, <1>10
<1> HIDE DEF a, b
<1> QED BY <1>1, <1>2, <1>3, <1>4, <1>5, <1>6, <1>7, <1>8, <1>9, <1>10 DEF LaneStep, a, b

\* Closing the lanes reports every rewriter.
LEMMA CloseReports ==
  ASSUME TypeInv, QueueInv, RewriteInv, NEW p \in Passes, CloseLanes(p)
  PROVE  RewriteInv'
<1>0. /\ phase \in [Passes -> {"unstarted", "begun", "lanes", "checked", "over", "dead"}]
      /\ rec \in [Passes -> [Runs -> Record]] /\ rewriters \in [Passes -> SUBSET Runs] /\ skill \in Nat
      /\ digest \in [Passes -> [skill : Versions, baseline : Versions]] /\ LaneShape
      /\ \A q \in Passes : digest[q].baseline \in Nat
  BY PassAssumption DEF TypeInv, TypeOK, Versions
<1>1. /\ phase[p] = "lanes" /\ phase' = [phase EXCEPT ![p] = "checked"]
      /\ (\A l \in Lanes : lane[p][l].pc = "idle")
      /\ rec' = IF Serial THEN rec ELSE [rec EXCEPT ![p] = PassIntegrity(p)]
      /\ UNCHANGED <<skill, digest, todo, lane, rewriters>>
  BY DEF CloseLanes, Drained
<1>2. \A q \in Passes : q # p => rec'[q] = rec[q] /\ phase'[q] = phase[q]
  BY <1>1, <1>0
<1>3. ASSUME NEW r \in rewriters[p]
      PROVE  rec'[p][r].src = NoPass /\ rec'[p][r].status # "skipped" /\ rec'[p][r].integrity = "tampered"
  <2>1. r \in Runs /\ rec[p][r] \in Record /\ digest[p].baseline < skill
    BY <1>0 DEF RewriteInv
  <2>2. /\ rec[p][r].src = NoPass /\ rec[p][r].status # "skipped"
        /\ Serial => rec[p][r].integrity = "tampered"
    BY <1>1 DEF RewriteInv, Working
  <2>3. CASE Serial
    BY <2>2, <2>3, <1>1
  <2>4. CASE ~Serial
    <3>1. rec'[p][r] = [rec[p][r] EXCEPT !.integrity = Integrity(digest[p].baseline)]
      BY <2>1, <2>2, <2>4, <1>0, <1>1 DEF PassIntegrity
    <3>2. Integrity(digest[p].baseline) = "tampered"
      BY <2>1, <1>0 DEF Integrity
    <3> QED BY <2>1, <2>2, <3>1, <3>2 DEF Record
  <2> QED BY <2>3, <2>4
<1>4. phase'[p] = "checked"
  BY <1>0, <1>1
<1>5. "idle" \notin Working /\ "idle" \notin {"record", "slot", "check"} /\ "checked" \notin {"unstarted", "begun"}
      /\ \A l \in Lanes : ~Early(lane[p][l])
  BY <1>1 DEF Working, Early
<1>6. ASSUME NEW q \in Passes
      PROVE  /\ phase'[q] \in {"unstarted", "begun"} => rewriters'[q] = {}
             /\ rewriters'[q] \cap todo'[q] = {}
             /\ digest'[q].baseline <= skill'
             /\ rewriters'[q] # {} => digest'[q].baseline < skill'
  BY <1>1, <1>2, <1>4, <1>5 DEF RewriteInv
<1>7. ASSUME NEW q \in Passes, NEW l \in Lanes
      PROVE  /\ Early(lane'[q][l]) => lane'[q][l].run \notin rewriters'[q]
             /\ lane'[q][l].pc \in Working =>
                   /\ lane'[q][l].before <= skill'
                   /\ lane'[q][l].run \in rewriters'[q] => lane'[q][l].before < skill'
             /\ lane'[q][l].pc \in {"record", "slot", "check"} =>
                   rec'[q][lane'[q][l].run].src = NoPass /\ rec'[q][lane'[q][l].run].status # "skipped"
  BY <1>1, <1>2, <1>5 DEF RewriteInv
<1>8. ASSUME NEW q \in Passes, phase'[q] \in {"lanes", "checked", "over"}, NEW r \in rewriters'[q]
      PROVE  \/ \E l \in Lanes : lane'[q][l].run = r /\ lane'[q][l].pc \in Working
             \/ /\ rec'[q][r].src = NoPass /\ rec'[q][r].status # "skipped"
                /\ Serial \/ phase'[q] # "lanes" => rec'[q][r].integrity = "tampered"
  <2>1. CASE q = p
    BY <2>1, <1>1, <1>3, <1>8
  <2>2. CASE q # p
    BY <2>2, <1>1, <1>2, <1>8 DEF RewriteInv
  <2> QED BY <2>1, <2>2
<1> QED BY <1>6, <1>7, <1>8 DEF RewriteInv, Early

\* A step of a lane keeps every rewriter within reach of the check.
LEMMA LaneKeepsRewriters ==
  ASSUME TypeInv, QueueInv, RewriteInv, NEW p \in Passes, NEW l \in Lanes, LaneStep(p, l)
  PROVE  RewriteInv'
<1> DEFINE a == lane[p][l]
           b == lane'[p][l]
<1>0. /\ rec \in [Passes -> [Runs -> Record]] /\ rewriters \in [Passes -> SUBSET Runs] /\ skill \in Nat
      /\ todo \in [Passes -> SUBSET Runs] /\ LaneShape
      /\ \A q \in Passes : digest[q].baseline \in Nat
      /\ \A q \in Passes, m \in Lanes : lane[q][m].before \in Nat
  BY PassAssumption DEF TypeInv, TypeOK, Versions
<1>1. \/ skill' = skill /\ rewriters' = rewriters
      \/ /\ a.pc = "attempt" /\ skill' = skill + 1
         /\ rewriters' = [rewriters EXCEPT ![p] = @ \cup {a.run}]
  BY LaneRewrites
<1>2. /\ Early(b) => \/ b.run \in todo[p] /\ a.pc = "idle"
                     \/ b.run = a.run /\ Early(a) /\ a.pc # "attempt"
      /\ b.pc \in Working =>
           /\ b.run = a.run
           /\ \/ a.pc = "admit" /\ b.before = skill /\ b.pc = "invoke"
              \/ a.pc \in Working /\ b.before = a.before
      /\ a.pc \in Working /\ b.pc \notin Working => Check(p, l) \/ Early(a)
      /\ b.pc \in {"record", "slot", "check"} =>
           \/ a.pc \in {"record", "slot"} /\ rec' = rec
           \/ a.pc = "attempt" /\ rec'[p][a.run].src = NoPass /\ rec'[p][a.run].status # "skipped"
  BY LaneWorks
<1>3. \/ /\ b.run \in todo[p] /\ b.pc = "claimed" /\ a.pc = "idle" /\ rec' = rec
         /\ todo' = [todo EXCEPT ![p] = @ \ {b.run}]
      \/ /\ todo' = todo /\ a.pc # "idle"
         /\ \/ b.pc = "idle"
            \/ b.run = a.run /\ b.pc # "idle"
  BY LaneKeepsItsRun
<1>4. phase' = phase /\ phase[p] = "lanes" /\ digest' = digest
  BY LaneStepTyped, TallyTyped
<1>5. \A q \in Passes, m \in Lanes : lane'[q][m] = IF q = p /\ m = l THEN b ELSE lane[q][m]
  BY LaneStepTyped, EveryLane
<1>6. \A q \in Passes, r \in Runs : q # p \/ r # a.run => rec'[q][r] = rec[q][r]
  BY OtherRecords
<1>7. /\ a.pc # "idle" => a.run \in Runs /\ a.run \notin todo[p]
      /\ \A m \in Lanes : m # l /\ a.pc # "idle" /\ lane[p][m].pc # "idle" => lane[p][m].run # a.run
      /\ \A q \in Passes, m \in Lanes : lane[q][m].pc # "idle" => lane[q][m].run \in Runs
  BY <1>0 DEF QueueInv, LaneShape, Shaped
<1>8. ASSUME Check(p, l), Serial, a.run \in rewriters[p]
      PROVE  rec'[p][a.run].integrity = "tampered"
  <2>1. a.pc = "check" /\ a.run \in Runs
    BY <1>7, <1>8 DEF Check, At
  <2>2. rec'[p][a.run] = [rec[p][a.run] EXCEPT !.integrity = Integrity(a.before)]
    BY <1>8, RecordMoves
  <2>3. a.before < skill
    BY <1>8, <2>1 DEF RewriteInv, Working
  <2>4. Integrity(a.before) = "tampered"
    BY <2>3, <1>0 DEF Integrity
  <2>5. rec[p][a.run] \in Record
    BY <2>1, <1>0
  <2> QED BY <2>2, <2>4, <2>5 DEF Record
<1>9. ASSUME Check(p, l)
      PROVE  a.run \in Runs /\ a.pc = "check" /\ rec'[p][a.run].src = NoPass /\ rec'[p][a.run].status # "skipped"
  <2>1. a.pc = "check" /\ a.run \in Runs
    BY <1>7, <1>9 DEF Check, At
  <2>2. rec[p][a.run].src = NoPass /\ rec[p][a.run].status # "skipped" /\ rec[p][a.run] \in Record
    BY <2>1, <1>0 DEF RewriteInv
  <2>3. rec' = rec \/ rec'[p][a.run] = [rec[p][a.run] EXCEPT !.integrity = Integrity(a.before)]
    BY <1>9, RecordMoves
  <2> QED BY <2>1, <2>2, <2>3 DEF Record
<1> HIDE DEF a, b
<1>10. a = lane[p][l] /\ skill' \in Nat /\ skill <= skill' /\ "idle" \notin Working /\ "attempt" \in Working
       /\ \A q \in Passes : q # p => rewriters'[q] = rewriters[q] /\ todo'[q] = todo[q]
  BY <1>0, <1>1, <1>3 DEF a, Working
<1>11. rewriters'[p] \subseteq rewriters[p] \cup {a.run} /\ (a.pc # "attempt" => rewriters'[p] = rewriters[p])
       /\ rewriters[p] \subseteq rewriters'[p] /\ todo'[p] \subseteq todo[p]
       /\ (rewriters'[p] = rewriters[p] \/ (a.pc = "attempt" /\ skill < skill'))
  BY <1>0, <1>1, <1>3
<1>12. ASSUME NEW q \in Passes
       PROVE  /\ phase'[q] \in {"unstarted", "begun"} => rewriters'[q] = {}
              /\ rewriters'[q] \cap todo'[q] = {}
              /\ digest'[q].baseline <= skill'
              /\ rewriters'[q] # {} => digest'[q].baseline < skill'
  <2>1. CASE q # p
    BY <2>1, <1>0, <1>4, <1>10 DEF RewriteInv
  <2>2. CASE q = p
    <3>1. digest[p].baseline <= skill /\ (rewriters[p] # {} => digest[p].baseline < skill)
          /\ rewriters[p] \cap todo[p] = {} /\ digest[p].baseline \in Nat
      BY <1>0 DEF RewriteInv
    <3>2. rewriters'[p] \cap todo'[p] = {}
      BY <3>1, <1>7, <1>11
    <3>3. digest[p].baseline <= skill' /\ (rewriters'[p] # {} => digest[p].baseline < skill')
      BY <3>1, <1>0, <1>10, <1>11
    <3> QED BY <2>2, <3>2, <3>3, <1>4
  <2> QED BY <2>1, <2>2
<1>13. ASSUME NEW q \in Passes, NEW m \in Lanes
       PROVE  /\ Early(lane'[q][m]) => lane'[q][m].run \notin rewriters'[q]
              /\ lane'[q][m].pc \in Working =>
                    /\ lane'[q][m].before <= skill'
                    /\ lane'[q][m].run \in rewriters'[q] => lane'[q][m].before < skill'
              /\ lane'[q][m].pc \in {"record", "slot", "check"} =>
                    rec'[q][lane'[q][m].run].src = NoPass /\ rec'[q][lane'[q][m].run].status # "skipped"
  <2>1. CASE q # p
    <3>1. lane'[q][m] = lane[q][m] /\ rewriters'[q] = rewriters[q] /\ lane[q][m].before \in Nat
      BY <2>1, <1>0, <1>5, <1>10
    <3>2. lane[q][m].pc \in {"record", "slot", "check"} => lane[q][m].run \in Runs
      BY <1>7
    <3> QED BY <2>1, <3>1, <3>2, <1>0, <1>6, <1>10 DEF RewriteInv
  <2>2. CASE q = p /\ m # l
    <3>1. lane'[p][m] = lane[p][m] /\ lane[p][m].before \in Nat
      BY <2>2, <1>0, <1>5
    <3>2. ASSUME lane[p][m].pc # "idle"
          PROVE  /\ lane[p][m].run \in Runs /\ (lane[p][m].run \in rewriters'[p] => lane[p][m].run \in rewriters[p])
                 /\ a.pc # "idle" => rec'[p][lane[p][m].run] = rec[p][lane[p][m].run]
                 /\ a.pc = "idle" => rec' = rec
      <4>1. a.pc # "idle" => lane[p][m].run # a.run
        BY <2>2, <3>2, <1>7
      <4> QED BY <4>1, <3>2, <1>3, <1>6, <1>7, <1>11
    <3>3. Early(lane[p][m]) => lane[p][m].pc # "idle"
      BY DEF Early
    <3> QED BY <2>2, <3>1, <3>2, <3>3, <1>0, <1>10 DEF RewriteInv
  <2>3. CASE q = p /\ m = l
    <3>1. lane'[q][m] = b
      BY <2>3, <1>5
    <3>2. Early(b) => b.run \notin rewriters'[p]
      <4>1. CASE b.run \in todo[p] /\ a.pc = "idle"
        BY <4>1, <1>11 DEF RewriteInv
      <4>2. CASE b.run = a.run /\ Early(a) /\ a.pc # "attempt"
        BY <4>2, <1>10, <1>11 DEF RewriteInv
      <4> QED BY <4>1, <4>2, <1>2
    <3>3. ASSUME b.pc \in Working
          PROVE  b.before <= skill' /\ (b.run \in rewriters'[p] => b.before < skill')
      <4>1. CASE a.pc = "admit" /\ b.before = skill
        <5>1. a.run \notin rewriters[p]
          BY <4>1, <1>10 DEF RewriteInv, Early
        <5>2. rewriters'[p] = rewriters[p] /\ b.run = a.run
          BY <4>1, <3>3, <1>2, <1>11
        <5> QED BY <4>1, <5>1, <5>2, <1>0, <1>10
      <4>2. CASE a.pc \in Working /\ b.before = a.before
        <5>1. a.before <= skill /\ (a.run \in rewriters[p] => a.before < skill) /\ a.before \in Nat
          BY <4>2, <1>0, <1>10 DEF RewriteInv
        <5>2. b.run = a.run
          BY <3>3, <1>2
        <5> QED BY <4>2, <5>1, <5>2, <1>0, <1>10, <1>11
      <4> QED BY <4>1, <4>2, <3>3, <1>2
    <3>4. ASSUME b.pc \in {"record", "slot", "check"}
          PROVE  rec'[p][b.run].src = NoPass /\ rec'[p][b.run].status # "skipped"
      <4>1. b.run = a.run
        BY <3>4, <1>2 DEF Working
      <4>2. a.pc \in {"record", "slot"} => rec[p][a.run].src = NoPass /\ rec[p][a.run].status # "skipped"
        BY <1>10 DEF RewriteInv
      <4> QED BY <4>1, <4>2, <3>4, <1>2
    <3> QED BY <2>3, <3>1, <3>2, <3>3, <3>4
  <2> QED BY <2>1, <2>2, <2>3
<1>14. ASSUME NEW q \in Passes, phase'[q] \in {"lanes", "checked", "over"}, NEW r \in rewriters'[q]
       PROVE  \/ \E m \in Lanes : lane'[q][m].run = r /\ lane'[q][m].pc \in Working
              \/ /\ rec'[q][r].src = NoPass /\ rec'[q][r].status # "skipped"
                 /\ Serial \/ phase'[q] # "lanes" => rec'[q][r].integrity = "tampered"
  <2>1. CASE q # p
    <3>1. r \in rewriters[q] /\ r \in Runs /\ rec'[q][r] = rec[q][r] /\ \A m \in Lanes : lane'[q][m] = lane[q][m]
      BY <2>1, <1>0, <1>5, <1>6, <1>10, <1>14
    <3> QED BY <2>1, <3>1, <1>4, <1>14 DEF RewriteInv
  <2>2. CASE q = p /\ r = a.run /\ a.pc \in Working
    <3>1. CASE b.pc \in Working
      <4>1. b.run = r
        BY <2>2, <3>1, <1>2
      <4> QED BY <2>2, <3>1, <4>1, <1>5
    <3>2. CASE b.pc \notin Working
      <4>1. r \in rewriters[p]
        <5>1. Check(p, l) \/ Early(a)
          BY <2>2, <3>2, <1>2
        <5>2. Check(p, l) => a.pc = "check"
          BY <1>9
        <5>3. a.pc # "attempt"
          BY <5>1, <5>2 DEF Early
        <5> QED BY <2>2, <5>3, <1>11, <1>14
      <4>2. Check(p, l)
        <5>1. Early(a) => a.run \notin rewriters[p]
          BY <1>10 DEF RewriteInv
        <5> QED BY <2>2, <3>2, <4>1, <5>1, <1>2
      <4> QED BY <2>2, <4>1, <4>2, <1>4, <1>8, <1>9
    <3> QED BY <3>1, <3>2
  <2>3. CASE q = p /\ ~(r = a.run /\ a.pc \in Working)
    <3>1. r \in rewriters[p] /\ r \in Runs
      BY <2>3, <1>0, <1>10, <1>11, <1>14
    <3>2. CASE \E m \in Lanes : lane[p][m].run = r /\ lane[p][m].pc \in Working
      <4>1. PICK m \in Lanes : lane[p][m].run = r /\ lane[p][m].pc \in Working
        BY <3>2
      <4>2. m # l
        BY <2>3, <4>1, <1>10
      <4> QED BY <2>3, <4>1, <4>2, <1>5
    <3>3. CASE /\ rec[p][r].src = NoPass /\ rec[p][r].status # "skipped"
               /\ Serial \/ phase[p] # "lanes" => rec[p][r].integrity = "tampered"
      <4>1. rec'[p][r] = rec[p][r]
        <5>1. CASE r # a.run
          BY <5>1, <3>1, <1>6
        <5>2. CASE r = a.run /\ a.pc \in Unsettled
          BY <5>2, <3>3, <1>10 DEF QueueInv, Fresh
        <5>3. CASE r = a.run /\ a.pc \notin Working /\ a.pc \notin Unsettled
          <6>1. a.pc = "idle"
            BY <5>3, LaneTypes, <1>10 DEF LaneState, LanePCs, Working, Unsettled
          <6> QED BY <6>1, <1>3
        <5> QED BY <5>1, <5>2, <5>3, <2>3
      <4> QED BY <2>3, <3>3, <4>1, <1>4
    <3> QED BY <3>1, <3>2, <3>3, <1>4 DEF RewriteInv
  <2> QED BY <2>1, <2>2, <2>3
<1> QED BY <1>12, <1>13, <1>14 DEF RewriteInv, Early

\* Every step keeps every rewriter within reach of the check.
LEMMA RewriteStep ==
  ASSUME TypeInv, QueueInv, RewriteInv, [Next]_vars
  PROVE  RewriteInv'
<1>0. /\ phase \in [Passes -> {"unstarted", "begun", "lanes", "checked", "over", "dead"}]
      /\ todo \in [Passes -> SUBSET Runs] /\ skill \in Nat /\ rewriters \in [Passes -> SUBSET Runs]
      /\ digest \in [Passes -> [skill : Versions, baseline : Versions]] /\ LaneShape
      /\ \A q \in Passes : digest[q].baseline \in Nat
      /\ \A q \in Passes, m \in Lanes : lane[q][m].before \in Nat
  BY PassAssumption DEF TypeInv, TypeOK, Versions
<1>1. ASSUME NEW p \in Passes, NEW l \in Lanes, LaneStep(p, l) PROVE RewriteInv'
  BY <1>1, LaneKeepsRewriters
<1>2. ASSUME NEW p \in Passes, CloseLanes(p) PROVE RewriteInv'
  BY <1>2, CloseReports
<1>3. CASE Edit
  <2>1. skill' = skill + 1 /\ UNCHANGED <<phase, digest, todo, lane, rec, rewriters>>
    BY <1>3 DEF Edit
  <2>2. \A n \in Nat : (n <= skill => n <= skill') /\ (n < skill => n < skill')
    BY <2>1, <1>0
  <2> QED BY <2>1, <2>2, <1>0 DEF RewriteInv
<1>4. ASSUME NEW p \in Passes, Begin(p) \/ Rewrite(p) \/ Prune(p) PROVE RewriteInv'
  <2>1. /\ UNCHANGED <<skill, todo, lane, rec, rewriters>>
        /\ \/ phase' = phase
           \/ phase[p] = "unstarted" /\ phase' = [phase EXCEPT ![p] = "begun"]
           \/ phase[p] = "checked" /\ \E to \in {"over", "dead"} : phase' = [phase EXCEPT ![p] = to]
        /\ digest' = digest \/ digest' = [digest EXCEPT ![p].skill = skill]
    BY <1>4 DEF Begin, Rewrite, Prune
  <2>2. \A q \in Passes : /\ digest'[q].baseline = digest[q].baseline
                          /\ \/ phase'[q] = phase[q]
                             \/ phase[q] = "unstarted" /\ phase'[q] = "begun"
                             \/ phase[q] = "checked" /\ phase'[q] \in {"over", "dead"}
    BY <2>1, <1>0
  <2> QED BY <2>1, <2>2 DEF RewriteInv
<1>5. ASSUME NEW p \in Passes, OpenLanes(p) PROVE RewriteInv'
  <2>1. /\ phase[p] = "begun" /\ phase' = [phase EXCEPT ![p] = "lanes"]
        /\ digest' = [digest EXCEPT ![p].baseline = skill] /\ todo' = [todo EXCEPT ![p] = Runs]
        /\ UNCHANGED <<skill, lane, rec, rewriters>>
    BY <1>5 DEF OpenLanes
  <2>2. /\ rewriters[p] = {} /\ digest'[p].baseline = skill
        /\ \A q \in Passes : q # p => digest'[q].baseline = digest[q].baseline /\ phase'[q] = phase[q] /\ todo'[q] = todo[q]
    BY <2>1, <1>0 DEF RewriteInv
  <2> QED BY <2>1, <2>2, <1>0 DEF RewriteInv
<1>6. ASSUME NEW p \in Passes, Interrupt(p) PROVE RewriteInv'
  <2>1. /\ phase' = [phase EXCEPT ![p] = "dead"] /\ lane' = [lane EXCEPT ![p] = [l \in Lanes |-> Idle]]
        /\ todo' = [todo EXCEPT ![p] = {}] /\ UNCHANGED <<skill, digest, rec, rewriters>>
    BY <1>6 DEF Interrupt
  <2>2. /\ phase'[p] = "dead" /\ todo'[p] = {} /\ \A l \in Lanes : lane'[p][l] = Idle
        /\ \A q \in Passes : q # p => phase'[q] = phase[q] /\ todo'[q] = todo[q] /\ lane'[q] = lane[q]
    BY <2>1, <1>0, LaneTypes
  <2>3. ~Early(Idle) /\ Idle.pc \notin Working /\ Idle.pc \notin {"record", "slot", "check"}
    BY DEF Early, Working, Idle
  <2>4. ASSUME NEW q \in Passes, NEW l \in Lanes
        PROVE  /\ Early(lane'[q][l]) => lane'[q][l].run \notin rewriters'[q]
               /\ lane'[q][l].pc \in Working =>
                     /\ lane'[q][l].before <= skill'
                     /\ lane'[q][l].run \in rewriters'[q] => lane'[q][l].before < skill'
               /\ lane'[q][l].pc \in {"record", "slot", "check"} =>
                     rec'[q][lane'[q][l].run].src = NoPass /\ rec'[q][lane'[q][l].run].status # "skipped"
    <3>1. CASE q = p
      BY <3>1, <2>2, <2>3
    <3>2. CASE q # p
      BY <3>2, <2>1, <2>2 DEF RewriteInv
    <3> QED BY <3>1, <3>2
  <2>5. ASSUME NEW q \in Passes
        PROVE  /\ phase'[q] \in {"unstarted", "begun"} => rewriters'[q] = {}
               /\ rewriters'[q] \cap todo'[q] = {}
               /\ digest'[q].baseline <= skill'
               /\ rewriters'[q] # {} => digest'[q].baseline < skill'
               /\ phase'[q] \in {"lanes", "checked", "over"} => \A r \in rewriters'[q] :
                    \/ \E l \in Lanes : lane'[q][l].run = r /\ lane'[q][l].pc \in Working
                    \/ /\ rec'[q][r].src = NoPass /\ rec'[q][r].status # "skipped"
                       /\ Serial \/ phase'[q] # "lanes" => rec'[q][r].integrity = "tampered"
    BY <2>1, <2>2 DEF RewriteInv
  <2> QED BY <2>4, <2>5 DEF RewriteInv, Early
<1>7. CASE UNCHANGED vars
  BY <1>7 DEF vars, RewriteInv, Early
<1> QED BY <1>1, <1>2, <1>3, <1>4, <1>5, <1>6, <1>7 DEF Next, PassStep

\* A run that rewrote the skill is reported as tampered when its pass ends,
\* whatever it came to, however many lanes there are and whatever else happens.
THEOREM RewritersTold == Spec => []RewritersAreReported
<1>1. TypeInv /\ RewriteInv => RewritersAreReported
  BY DEF TypeInv, LaneShape, RewriteInv, RewritersAreReported, Working
<1> QED BY <1>1, TypeInit, TypeStep, QueueInit, QueueStep, RewriteInit, RewriteStep, PTL DEF Spec

\* The report a pass begins with.
Unread == [r \in Runs |-> Fresh]

KeptRecord(p, entry) == entry.status = "completed" /\ entry.integrity = "kept" => entry.ran = digest[p].skill

\* In lanes side by side, what was handed to a run lies between the revision the
\* pass opened on and the skill of now; a finding is there only after the lanes,
\* or with a run taken from a pass that is over.
KeptInv ==
    \A p \in Passes :
        /\ disk[p] \subseteq (IF phase[p] = "over" THEN {rec[p]} ELSE {Unread})
        /\ phase[p] = "begun" => digest[p].skill = skill
        /\ phase[p] = "lanes" =>
              /\ digest[p].skill = digest[p].baseline /\ digest[p].baseline <= skill
              /\ \A l \in Lanes : lane[p][l].pc = "attempt" =>
                    digest[p].baseline <= lane[p][l].given /\ lane[p][l].given <= skill
              /\ \A r \in Runs :
                    IF rec[p][r].src = NoPass
                    THEN rec[p][r].status = "completed" =>
                            /\ rec[p][r].integrity = "none"
                            /\ digest[p].baseline <= rec[p][r].ran /\ rec[p][r].ran <= skill
                    ELSE KeptRecord(p, rec[p][r])
        /\ phase[p] \in {"checked", "over"} => \A r \in Runs : KeptRecord(p, rec[p][r])

(* At the start no pass has recorded anything. *)
LEMMA KeptInit == Init => KeptInv
  BY DEF Init, KeptInv

\* What the skill was handed as, and a lane that runs an attempt.
LEMMA LaneHands ==
  ASSUME TypeInv, NEW p \in Passes, NEW l \in Lanes, LaneStep(p, l), lane'[p][l].pc = "attempt"
  PROVE  lane'[p][l].given = skill /\ skill' = skill /\ rec' = rec
<1> DEFINE a == lane[p][l]
           b == lane'[p][l]
<1>0. a \in LaneState /\ Idle.pc = "idle"
  BY LaneTypes DEF Idle
<1>1. Invoke(p, l)
  <2>1. ~Claim(p, l)
    <3>1. Claim(p, l) => b = [Idle EXCEPT !.pc = "claimed", !.run = b.run]
      BY LaneMoves
    <3> QED BY <3>1 DEF Idle
  <2>2. ~(CaseGone(p, l) \/ PrepareFails(p, l) \/ Check(p, l))
    <3>1. CaseGone(p, l) \/ PrepareFails(p, l) \/ Check(p, l) => b = Idle
      BY LaneMoves
    <3> QED BY <3>1, <1>0
  <2>3. ~Lookup(p, l)
    <3>1. Lookup(p, l) => b = [a EXCEPT !.pc = "admit"] \/ b = [a EXCEPT !.pc = "restore", !.src = b.src]
      BY LaneMoves
    <3> QED BY <3>1, <1>0 DEF LaneState
  <2>4. ~(Restore(p, l) \/ Admit(p, l))
    <3>1. Restore(p, l) \/ Admit(p, l) =>
            b = Idle \/ b = [a EXCEPT !.pc = "admit", !.src = NoPass] \/ b = [a EXCEPT !.pc = "invoke", !.before = skill]
      BY LaneMoves
    <3> QED BY <3>1, <1>0 DEF LaneState
  <2>5. ~(Attempt(p, l) \/ AttemptErrs(p, l) \/ RecordExact(p, l) \/ RecordSlot(p, l))
    <3>1. Attempt(p, l) \/ AttemptErrs(p, l) \/ RecordExact(p, l) \/ RecordSlot(p, l) =>
            \E pc \in {"invoke", "record", "slot", "check"} : b = [a EXCEPT !.pc = pc]
      BY LaneMoves
    <3> QED BY <3>1, <1>0 DEF LaneState
  <2> QED BY <2>1, <2>2, <2>3, <2>4, <2>5 DEF LaneStep
<1>2. b = [a EXCEPT !.pc = "attempt", !.tries = a.tries + 1, !.given = skill]
  BY <1>1, LaneMoves
<1>3. b.given = skill
  BY <1>2, <1>0 DEF LaneState
<1> QED BY <1>1, <1>3 DEF Invoke

\* What a lane writes of its run is not yet a finding, and if it is taken from a
\* report, it is as true as that report.
LEMMA LaneFindsNothing ==
  ASSUME ~Serial, TypeInv, QueueInv, RevisionInv, KeptInv, NEW p \in Passes, NEW l \in Lanes, LaneStep(p, l),
         lane[p][l].run \in Runs, rec' # rec
  PROVE  LET r == lane[p][l].run IN
         IF rec'[p][r].src = NoPass
         THEN rec'[p][r].status = "completed" =>
                 /\ rec'[p][r].integrity = "none"
                 /\ digest[p].baseline <= rec'[p][r].ran /\ rec'[p][r].ran <= skill
         ELSE KeptRecord(p, rec'[p][r])
<1> DEFINE a == lane[p][l]
           now == rec'[p][a.run]
<1>0. a \in LaneState /\ Shaped(a) /\ phase[p] = "lanes" /\ NoPass \notin Passes
  BY LaneTypes, LaneStepTyped, PassAssumption
<1>1. CASE PrepareFails(p, l)
  <2>1. now = [Fresh EXCEPT !.status = "failed"]
    BY <1>1, RecordMoves
  <2> QED BY <2>1 DEF Fresh
<1>2. CASE Restore(p, l)
  <2>1. PICK report \in disk[a.src] : now = [report[a.run] EXCEPT !.src = a.src]
    BY <1>2, RecordMoves
  <2>2. a.pc = "restore" /\ a.src \in Passes
    BY <1>0, <1>2 DEF Restore, At, Shaped
  <2>3. report[a.run] \in Record
    BY <2>2 DEF TypeInv, TypeOK
  <2>4. now.src = a.src /\ now.status = report[a.run].status /\ now.integrity = report[a.run].integrity
        /\ now.ran = report[a.run].ran
    BY <2>1, <2>3 DEF Record
  <2>5. digest[a.src].skill = digest[p].skill
    BY <2>2 DEF RevisionInv, Answers
  <2>6. KeptRecord(a.src, report[a.run])
    <3>1. CASE phase[a.src] = "over"
      BY <3>1, <2>1, <2>2 DEF KeptInv
    <3>2. CASE phase[a.src] # "over"
      <4>1. report = Unread
        BY <3>2, <2>1, <2>2 DEF KeptInv
      <4> QED BY <4>1 DEF Unread, Fresh, KeptRecord
    <3> QED BY <3>1, <3>2
  <2> QED BY <2>2, <2>4, <2>5, <2>6, <1>0 DEF KeptRecord
<1>3. CASE Admit(p, l)
  <2>1. now = Refused("budget") \/ now = Refused("control")
    BY <1>3, RecordMoves
  <2> QED BY <2>1 DEF Refused, Fresh
<1>4. CASE Attempt(p, l) \/ AttemptErrs(p, l)
  <2>1. \E status \in Statuses, kind \in {"runner", "none"} : now = Outcome(p, l, status, kind)
    BY <1>4, RecordMoves DEF Statuses
  <2>2. a.pc = "attempt"
    BY <1>4 DEF Attempt, AttemptErrs, At
  <2>3. digest[p].baseline <= a.given /\ a.given <= skill
    BY <2>2, <1>0 DEF KeptInv
  <2> QED BY <2>1, <2>3 DEF Outcome
<1>5. Claim(p, l) \/ CaseGone(p, l) \/ Lookup(p, l) \/ Invoke(p, l) \/ RecordExact(p, l) \/ RecordSlot(p, l) \/ Check(p, l) => rec' = rec
  BY RecordMoves
<1> QED BY <1>1, <1>2, <1>3, <1>4, <1>5 DEF LaneStep

\* Every step of lanes side by side keeps what runs were handed in its bounds.
LEMMA KeptStep ==
  ASSUME ~Serial, ~Overlap, TypeInv, QueueInv, RevisionInv, Exclusive, KeptInv, [Next]_vars
  PROVE  KeptInv'
<1>0. /\ phase \in [Passes -> {"unstarted", "begun", "lanes", "checked", "over", "dead"}]
      /\ rec \in [Passes -> [Runs -> Record]] /\ skill \in Nat /\ LaneShape
      /\ disk \in [Passes -> SUBSET [Runs -> Record]]
      /\ digest \in [Passes -> [skill : Versions, baseline : Versions]]
      /\ \A q \in Passes : digest[q].baseline \in Nat /\ digest[q].skill \in Nat
      /\ \A q \in Passes, m \in Lanes : lane[q][m].given \in Nat
      /\ \A q \in Passes, r \in Runs : rec[q][r].ran \in Int
  BY PassAssumption DEF TypeInv, TypeOK, Versions, Record
<1>1. CASE Edit
  <2>1. /\ skill' = skill + 1 /\ UNCHANGED <<phase, digest, lane, rec, disk>>
        /\ \A p \in Passes : phase[p] \notin {"begun", "lanes"}
    BY <1>1 DEF Edit, outcome, Active
  <2> QED BY <2>1 DEF KeptInv, KeptRecord
<1>2. ASSUME NEW p \in Passes, Begin(p) PROVE KeptInv'
  <2>1. /\ phase[p] = "unstarted" /\ phase' = [phase EXCEPT ![p] = "begun"]
        /\ digest' = [digest EXCEPT ![p].skill = skill] /\ disk' = [disk EXCEPT ![p] = {rec[p]}]
        /\ UNCHANGED <<skill, lane, rec>>
    BY <1>2 DEF Begin
  <2>2. /\ phase'[p] = "begun" /\ digest'[p].skill = skill /\ disk'[p] = {rec[p]}
        /\ \A q \in Passes : q # p => phase'[q] = phase[q] /\ digest'[q] = digest[q] /\ disk'[q] = disk[q]
    BY <2>1, <1>0
  <2>3. rec[p] = Unread
    <3>1. rec[p] \in [Runs -> Record] /\ \A r \in Runs : rec[p][r] = Fresh
      BY <2>1, <1>0 DEF QueueInv
    <3> QED BY <3>1 DEF Unread
  <2> QED BY <2>1, <2>2, <2>3 DEF KeptInv, KeptRecord
<1>3. ASSUME NEW p \in Passes, OpenLanes(p) PROVE KeptInv'
  <2>1. /\ phase[p] = "begun" /\ phase' = [phase EXCEPT ![p] = "lanes"]
        /\ digest' = [digest EXCEPT ![p].baseline = skill] /\ UNCHANGED <<skill, lane, rec, disk>>
    BY <1>3 DEF OpenLanes, outcome
  <2>2. /\ phase'[p] = "lanes" /\ digest'[p].skill = digest[p].skill /\ digest'[p].baseline = skill
        /\ \A q \in Passes : q # p => phase'[q] = phase[q] /\ digest'[q] = digest[q]
    BY <2>1, <1>0
  <2>3. /\ \A l \in Lanes : lane[p][l].pc # "attempt"
        /\ \A r \in Runs : rec[p][r].src = NoPass /\ rec[p][r].status # "completed"
    BY <2>1, <1>0 DEF LaneShape, QueueInv, Fresh
  <2> QED BY <2>1, <2>2, <2>3, <1>0 DEF KeptInv, KeptRecord
<1>4. ASSUME NEW p \in Passes, CloseLanes(p) PROVE KeptInv'
  <2>1. /\ phase[p] = "lanes" /\ phase' = [phase EXCEPT ![p] = "checked"]
        /\ rec' = [rec EXCEPT ![p] = PassIntegrity(p)] /\ UNCHANGED <<skill, digest, lane, disk>>
    BY <1>4 DEF CloseLanes, outcome
  <2>2. /\ phase'[p] = "checked" /\ rec'[p] = PassIntegrity(p)
        /\ \A q \in Passes : q # p => phase'[q] = phase[q] /\ rec'[q] = rec[q]
    BY <2>1, <1>0
  <2>3. ASSUME NEW r \in Runs PROVE KeptRecord(p, rec'[p][r])
    <3>1. rec[p][r] \in Record
      BY <1>0
    <3>2. CASE rec[p][r].src # NoPass \/ rec[p][r].status = "skipped"
      <4>1. rec'[p][r] = rec[p][r]
        BY <3>2, <2>2 DEF PassIntegrity
      <4> QED BY <3>2, <4>1, <2>1 DEF KeptInv, KeptRecord
    <3>3. CASE ~(rec[p][r].src # NoPass \/ rec[p][r].status = "skipped")
      <4>1. rec'[p][r] = [rec[p][r] EXCEPT !.integrity = Integrity(digest[p].baseline)]
        BY <3>3, <2>2 DEF PassIntegrity
      <4>2. rec'[p][r].status = rec[p][r].status /\ rec'[p][r].ran = rec[p][r].ran
            /\ rec'[p][r].integrity = Integrity(digest[p].baseline)
        BY <4>1, <3>1 DEF Record
      <4>3. ASSUME rec[p][r].status = "completed", skill = digest[p].baseline PROVE rec[p][r].ran = digest[p].skill
        <5>1. /\ digest[p].skill = digest[p].baseline
              /\ digest[p].baseline <= rec[p][r].ran /\ rec[p][r].ran <= skill
          BY <4>3, <3>3, <2>1 DEF KeptInv
        <5>2. digest[p].baseline \in Nat /\ rec[p][r].ran \in Int
          BY <1>0
        <5> HIDE DEF KeptInv
        <5> QED BY <5>1, <5>2, <4>3
      <4> QED BY <4>2, <4>3 DEF KeptRecord, Integrity
    <3> QED BY <3>2, <3>3
  <2> QED BY <2>1, <2>2, <2>3 DEF KeptInv, KeptRecord
<1>5. ASSUME NEW p \in Passes, Rewrite(p) PROVE KeptInv'
  <2>1. /\ phase[p] = "checked" /\ UNCHANGED <<skill, digest, lane, rec>>
        /\ \/ phase' = [phase EXCEPT ![p] = "over"] /\ disk' = [disk EXCEPT ![p] = {rec[p]}]
           \/ phase' = [phase EXCEPT ![p] = "dead"] /\ disk' = disk
    BY <1>5 DEF Rewrite
  <2>2. /\ \/ phase'[p] = "over" /\ disk'[p] = {rec[p]}
           \/ phase'[p] = "dead" /\ disk'[p] = disk[p]
        /\ \A q \in Passes : q # p => phase'[q] = phase[q] /\ disk'[q] = disk[q]
    BY <2>1, <1>0
  <2> QED BY <2>1, <2>2 DEF KeptInv, KeptRecord
<1>6. ASSUME NEW p \in Passes, Interrupt(p) PROVE KeptInv'
  <2>1. /\ phase[p] \in {"begun", "lanes", "checked"} /\ phase' = [phase EXCEPT ![p] = "dead"]
        /\ lane' = [lane EXCEPT ![p] = [l \in Lanes |-> Idle]] /\ UNCHANGED <<skill, digest, rec, disk>>
    BY <1>6 DEF Interrupt, Active, outcome
  <2>2. /\ phase'[p] = "dead" /\ disk' = disk
        /\ \A q \in Passes : q # p => phase'[q] = phase[q] /\ lane'[q] = lane[q]
    BY <2>1, <1>0, LaneTypes
  <2> QED BY <2>1, <2>2 DEF KeptInv, KeptRecord
<1>7. ASSUME NEW p \in Passes, Prune(p) PROVE KeptInv'
  <2>1. disk' = [disk EXCEPT ![p] = {}] /\ UNCHANGED <<skill, phase, digest, lane, rec>>
    BY <1>7 DEF Prune
  <2>2. \A q \in Passes : disk'[q] \subseteq disk[q]
    BY <2>1, <1>0
  <2> QED BY <2>1, <2>2 DEF KeptInv, KeptRecord
<1>8. ASSUME NEW p \in Passes, NEW l \in Lanes, LaneStep(p, l) PROVE KeptInv'
  <2> DEFINE a == lane[p][l]
             b == lane'[p][l]
  <2>1. UNCHANGED <<phase, digest, disk>> /\ phase[p] = "lanes"
    BY <1>8, LaneStepTyped, TallyTyped DEF outcome
  <2>2. skill' = skill \/ skill' = skill + 1
    BY <1>8, LaneRewrites
  <2>3. \A q \in Passes, m \in Lanes : lane'[q][m] = IF q = p /\ m = l THEN b ELSE lane[q][m]
    BY <1>8, LaneStepTyped, EveryLane
  <2>4. \A q \in Passes, r \in Runs : q # p \/ r # a.run => rec'[q][r] = rec[q][r]
    BY <1>8, OtherRecords
  <2>5. \A q \in Passes : q # p => rec'[q] = rec[q] /\ phase[q] \notin {"begun", "lanes"}
    BY <1>8, <2>1, OtherPasses DEF Exclusive, Active
  <2>6. b.pc = "attempt" => b.given = skill /\ skill' = skill
    BY <1>8, LaneHands
  <2>7. a.run \in Runs /\ rec' # rec =>
          IF rec'[p][a.run].src = NoPass
          THEN rec'[p][a.run].status = "completed" =>
                  /\ rec'[p][a.run].integrity = "none"
                  /\ digest[p].baseline <= rec'[p][a.run].ran /\ rec'[p][a.run].ran <= skill
          ELSE KeptRecord(p, rec'[p][a.run])
    BY <1>8, LaneFindsNothing
  <2> HIDE DEF a, b
  <2>8. skill <= skill' /\ skill' \in Nat /\ \A n \in Int : n <= skill => n <= skill'
    BY <2>2, <1>0
  <2>9. \A q \in Passes, r \in Runs : rec'[q][r].ran \in Int
    <3>1. rec' \in [Passes -> [Runs -> Record]]
      BY <1>8, RecordsTyped
    <3> QED BY <3>1, PassAssumption DEF Record, Versions
  <2>10. ASSUME NEW r \in Runs
         PROVE  IF rec'[p][r].src = NoPass
                THEN rec'[p][r].status = "completed" =>
                        /\ rec'[p][r].integrity = "none"
                        /\ digest[p].baseline <= rec'[p][r].ran /\ rec'[p][r].ran <= skill
                ELSE KeptRecord(p, rec'[p][r])
    <3>1. CASE rec'[p][r] = rec[p][r]
      BY <3>1, <2>1 DEF KeptInv
    <3>2. CASE rec'[p][r] # rec[p][r]
      <4>1. r = a.run /\ rec' # rec
        BY <3>2, <2>4
      <4> QED BY <4>1, <2>7
    <3> QED BY <3>1, <3>2
  <2>11. ASSUME NEW m \in Lanes, lane'[p][m].pc = "attempt"
         PROVE  digest[p].baseline <= lane'[p][m].given /\ lane'[p][m].given <= skill'
    <3>1. CASE m = l
      <4>1. lane'[p][m].given = skill /\ digest[p].baseline <= skill
        BY <3>1, <2>1, <2>3, <2>6, <2>11 DEF KeptInv
      <4> QED BY <4>1, <2>8
    <3>2. CASE m # l
      <4>1. lane'[p][m] = lane[p][m] /\ digest[p].baseline <= lane[p][m].given /\ lane[p][m].given <= skill
        BY <3>2, <2>1, <2>3, <2>11 DEF KeptInv
      <4> QED BY <4>1, <2>8, <1>0
    <3> QED BY <3>1, <3>2
  <2>12. ASSUME NEW r \in Runs
         PROVE  IF rec'[p][r].src = NoPass
                THEN rec'[p][r].status = "completed" =>
                        /\ rec'[p][r].integrity = "none"
                        /\ digest[p].baseline <= rec'[p][r].ran /\ rec'[p][r].ran <= skill'
                ELSE KeptRecord(p, rec'[p][r])
    BY <2>8, <2>9, <2>10
  <2>13. digest[p].skill = digest[p].baseline /\ digest[p].baseline <= skill'
    BY <2>1, <2>8, <1>0 DEF KeptInv
  <2>14. ASSUME NEW q \in Passes
         PROVE  /\ disk'[q] \subseteq (IF phase'[q] = "over" THEN {rec'[q]} ELSE {Unread})
                /\ phase'[q] = "begun" => digest'[q].skill = skill'
    <3>1. CASE q = p
      BY <3>1, <2>1 DEF KeptInv
    <3>2. CASE q # p
      BY <3>2, <2>1, <2>5 DEF KeptInv
    <3> QED BY <3>1, <3>2
  <2>15. ASSUME NEW q \in Passes, phase'[q] = "lanes"
         PROVE  /\ digest'[q].skill = digest'[q].baseline /\ digest'[q].baseline <= skill'
                /\ \A m \in Lanes : lane'[q][m].pc = "attempt" =>
                      digest'[q].baseline <= lane'[q][m].given /\ lane'[q][m].given <= skill'
                /\ \A r \in Runs :
                      IF rec'[q][r].src = NoPass
                      THEN rec'[q][r].status = "completed" =>
                              /\ rec'[q][r].integrity = "none"
                              /\ digest'[q].baseline <= rec'[q][r].ran /\ rec'[q][r].ran <= skill'
                      ELSE KeptRecord(q, rec[q][r])'
    <3>1. q = p
      BY <2>1, <2>5, <2>15
    <3> QED BY <3>1, <2>1, <2>11, <2>12, <2>13 DEF KeptRecord
  <2>16. ASSUME NEW q \in Passes, phase'[q] \in {"checked", "over"}, NEW r \in Runs
         PROVE  KeptRecord(q, rec[q][r])'
    <3>1. q # p
      BY <2>1, <2>16
    <3> QED BY <3>1, <2>1, <2>5, <2>16 DEF KeptInv, KeptRecord
  <2> QED BY <2>14, <2>15, <2>16 DEF KeptInv
<1>9. CASE UNCHANGED vars
  BY <1>9 DEF vars, outcome, KeptInv, KeptRecord
<1> QED BY <1>1, <1>2, <1>3, <1>4, <1>5, <1>6, <1>7, <1>8, <1>9 DEF Next, PassStep

\* In a pass of lanes side by side that no other pass overlaps, a skill that was
\* rewritten is accounted for from both sides: who did it is told, and a run
\* reported with the skill kept was handed the revision the report names.
THEOREM RewritesAccounted ==
  ASSUME ~Serial, ~Overlap PROVE Spec => []RewritesAreAccountedFor
<1>1. TypeInv /\ RewriteInv => RewritersAreReported
  BY DEF TypeInv, LaneShape, RewriteInv, RewritersAreReported, Working
<1>2. KeptInv => KeptRunsRanTheRevision
  BY DEF KeptInv, KeptRecord, KeptRunsRanTheRevision
<1> QED
  BY <1>1, <1>2, TypeInit, TypeStep, QueueInit, QueueStep, RevisionInit, RevisionStep, ExclusiveInit, ExclusiveStep,
     RewriteInit, RewriteStep, KeptInit, KeptStep, PTL DEF Spec, RewritesAreAccountedFor
=============================================================================
