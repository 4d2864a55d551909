-------------------------- MODULE MCHarnessGroups --------------------------
(* An instance of HarnessGroups for TLC. *)
EXTENDS HarnessGroups

CONSTANTS l1, l2, r1, r2, p1, p2

\* With one signal a handler on l2 is one on l1 with the lanes renamed.
LaneOrOther == {l1, "other"}

OneSignal == {"SIGTERM"}
=============================================================================
