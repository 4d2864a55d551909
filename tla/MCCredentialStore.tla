------------------------- MODULE MCCredentialStore -------------------------
(* Instances of CredentialStore for TLC. *)
EXTENDS CredentialStore, TLC

CONSTANTS p1, p2, mine, yours, shared, g1, g2

\* Two machines with a machine_id each, reading through to one shared path.
FleetPrimary == p1 :> mine @@ p2 :> yours
FleetFallback == [p \in {p1, p2} |-> shared]

\* Two processes of one machine, which has a machine_id.
StationPrimary == [p \in {p1, p2} |-> mine]
StationFallback == [p \in {p1, p2} |-> shared]

Slots == {p1, p2}
Layouts == {mine, yours, shared}

\* The shared path holds a grant older than machine_id; the others are empty.
SharedGrant == [a \in Layouts |-> IF a = shared THEN {MapOf(Token(g1, 0), FALSE)} ELSE {Absent}]

\* What an older trg, an operator or a half-done logout leaves on a path.
AnySeed ==
    mine :> {Absent, Garbled, MapOf(Corrupt, FALSE), MapOf(NoCred, TRUE)} @@
    shared :> {Absent, Garbled, MapOf(Corrupt, FALSE), MapOf(Token(g1, 0), TRUE)}

FleetCommands == p1 :> {"proxy", "logout"} @@ p2 :> {"proxy", "login"}
StationCommands == p1 :> {"proxy", "put"} @@ p2 :> {"login", "logout", "status"}
SignOnly == [p \in Slots |-> {"proxy", "login"}]
=============================================================================
