----------------------------- MODULE GrantHomes -----------------------------
(***************************************************************************)
(* What the credential paths of one MCP server promise together, whoever   *)
(* reads and writes them in whatever order: every OAuth grant has one      *)
(* home, the path it was first saved at, and never turns up anywhere else. *)
(* Two paths refreshing one grant is the replay `machine_id` exists to     *)
(* prevent (secrets/openbao.rs credential_path, oauth/store.rs write).     *)
(***************************************************************************)
CONSTANTS Paths, NoPath, Grants, NoGrant

VARIABLES
    vault,   \* Paths -> Grants \cup {NoGrant}: the grant each path holds
    owner    \* Grants -> Paths \cup {NoPath}: the home of a minted grant

hvars == <<vault, owner>>

HInit ==
    /\ vault \in [Paths -> Grants \cup {NoGrant}]
    /\ owner \in [Grants -> Paths \cup {NoPath}]
    /\ \A a \in Paths : vault[a] # NoGrant => owner[vault[a]] = a

\* A person signs in: a grant nobody holds yet gets a home.
Mint ==
    \E g \in Grants, a \in Paths :
        /\ owner[g] = NoPath
        /\ owner' = [owner EXCEPT ![g] = a]
        /\ UNCHANGED vault

\* A path takes a grant it is the home of, fresh, refreshed or written back.
Store ==
    \E a \in Paths, g \in Grants :
        /\ owner[g] = a
        /\ vault' = [vault EXCEPT ![a] = g]
        /\ UNCHANGED owner

\* A path loses its grant: signed out, discarded or overwritten.
Remove ==
    \E a \in Paths :
        /\ vault' = [vault EXCEPT ![a] = NoGrant]
        /\ UNCHANGED owner

HNext == Mint \/ Store \/ Remove

HSpec == HInit /\ [][HNext]_hvars
=============================================================================
