----------------------------- MODULE MCRunPass -----------------------------
(* Instances of RunPass for TLC. *)
EXTENDS RunPass, TLC

CONSTANTS pA, pB, r1, r2, r3, r4, r5, l1, l2, cA, cB

\* Cells of the suite are interchangeable, and so are lanes, passes and labels.
Alike == Permutations({r1, r2, r3}) \cup Permutations({l1, l2})
         \cup Permutations({pA, pB}) \cup Permutations({cA, cB})

EveryMode == CacheModes
LastingFaults == {"restore", "record", "prune"}
=============================================================================
