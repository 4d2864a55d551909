-------------------------- MODULE CredentialStore --------------------------
(***************************************************************************)
(* The OAuth credentials of one MCP server, kept by several `trg`          *)
(* processes in one secrets backend: oauth/store.rs (the adapter rmcp      *)
(* saves, loads and clears through), oauth/mod.rs (ensure), the commands   *)
(* `trg mcp proxy`, `trg mcp auth login | status | logout`, and            *)
(* `trg secret put`, which writes other keys of the same paths.            *)
(*                                                                         *)
(* Every backend call is an await, so every backend call is a step: a      *)
(* save is a read of the path followed by a write of the whole map, and    *)
(* any other process may run in between.  Nothing locks a path.            *)
(*                                                                         *)
(* The authorization server rotates refresh tokens: the n-th refresh of a  *)
(* grant makes generation n the only one it honours, and a process that    *)
(* presents an older one gets the whole grant revoked (the replay that     *)
(* `machine_id` exists to prevent).                                        *)
(***************************************************************************)
EXTENDS Naturals

CONSTANTS
    Procs,       \* trg processes; each slot runs one command after another
    Paths,       \* secret paths of this server's credentials
    NoPath,      \* Option::None of a path
    Primary,     \* Procs -> Paths: cred_path, machine-scoped or shared
    Fallback,    \* Procs -> Paths \cup {NoPath}: the pre-machine_id path
    Commands,    \* Procs -> SUBSET CommandNames: what a slot may run
    Grants,      \* OAuth grants, minted one at a time
    NoGrant,     \* no grant
    Seeds,       \* Paths -> SUBSET Payload: what a path may hold at the start
    SeedGrants,  \* grants that exist before the first process starts
    PutKeys,     \* keys `secret put` writes: "sibling", "credentials"
    Faults,      \* what may go wrong, a subset of FaultNames
    HoldsThrough,\* loads without an answer that leave rmcp its credential
    MaxGen       \* bound: refreshes of one grant

CommandNames == {"proxy", "login", "status", "logout", "put"}

\* "get", "set": a backend call fails; "ack": a write is applied and its
\* answer lost; "body": a read whose body is cut off after a 200 (openbao.rs
\* read_body takes it for an empty one); "answer": the token endpoint's answer
\* to a refresh is lost; "crash": the process dies.
FaultNames == {"get", "set", "ack", "body", "answer", "crash"}

(***************************************************************************)
(* Payloads.  A credential value is a `StoredCredentials` with a token     *)
(* response, one stripped of it, or text that is not one.  A path holds    *)
(* nothing, bytes that are no map, or a map: its credentials key and       *)
(* whether it holds another key.                                           *)
(***************************************************************************)
Cred == [kind : {"none", "corrupt", "bare"}, grant : {NoGrant}, gen : {0}]
            \cup [kind : {"token"}, grant : Grants, gen : Nat]

NoCred == [kind |-> "none", grant |-> NoGrant, gen |-> 0]
Corrupt == [kind |-> "corrupt", grant |-> NoGrant, gen |-> 0]
Bare == [kind |-> "bare", grant |-> NoGrant, gen |-> 0]
Token(g, n) == [kind |-> "token", grant |-> g, gen |-> n]

Absent == [kind |-> "absent", cred |-> NoCred, sib |-> FALSE]
Garbled == [kind |-> "garbled", cred |-> NoCred, sib |-> FALSE]

Payload == [kind : {"map"}, cred : Cred, sib : BOOLEAN] \cup {Absent, Garbled}

MapOf(c, s) == [kind |-> "map", cred |-> c, sib |-> s]
Failed == [kind |-> "failed", cred |-> NoCred, sib |-> FALSE]

HasToken(payload) == payload.cred.kind = "token"

ASSUME PathAssumption ==
    /\ NoPath \notin Paths
    /\ Primary \in [Procs -> Paths]
    /\ Fallback \in [Procs -> Paths \cup {NoPath}]

ASSUME GrantAssumption == NoGrant \notin Grants /\ SeedGrants \subseteq Grants

\* A grant that exists at the start is stored on at most one path, and its
\* generations are counted from there.
ASSUME SeedAssumption ==
    /\ Seeds \in [Paths -> SUBSET Payload]
    /\ \A a \in Paths : \A s \in Seeds[a] : HasToken(s) => s.cred.grant \in SeedGrants /\ s.cred.gen = 0
    /\ \A a, b \in Paths : \A s \in Seeds[a], t \in Seeds[b] :
          HasToken(s) /\ HasToken(t) /\ s.cred.grant = t.cred.grant => a = b

ASSUME EnvironmentAssumption ==
    /\ Commands \in [Procs -> SUBSET CommandNames]
    /\ PutKeys \subseteq {"sibling", "credentials"}
    /\ Faults \subseteq FaultNames
    /\ HoldsThrough \subseteq {"failed", "missed", "corrupt"}
    /\ MaxGen \in Nat

VARIABLES
    kv,       \* Paths -> Payload: the backend
    home,     \* Grants -> Paths \cup {NoPath}: where a grant was first saved
    live,     \* Grants -> Nat: the generation the server honours
    revoked,  \* grants the server revoked for a replayed refresh token
    st,       \* Procs -> Local: each process and the store it handed rmcp
    lost,     \* history: grants whose newest generation failed to be stored
    touched   \* history: processes whose path another wrote since their read

vars == <<kv, home, live, revoked, st, lost, touched>>

(***************************************************************************)
(* One process: where it stands (pc), the command it runs, what the        *)
(* current load or save is for (stage), the fields of its                  *)
(* OAuthCredentialStore (fb, readFrom, disabled), the credential rmcp      *)
(* holds and the grant it last cleared (history), the path and the map of  *)
(* a read-modify-write in progress, and what the last command answered.    *)
(***************************************************************************)
PCs == {"off", "load", "loadShared", "authorize", "serving", "loaded", "saveRead",
        "saveWrite", "clearRead", "clearWrite", "checkShared", "putRead", "putWrite"}

Local == [pc : PCs,
          cmd : CommandNames \cup {"none"},
          stage : {"init", "confirm", "serve", "report"},
          fb : Paths \cup {NoPath},
          readFrom : Paths \cup {NoPath},
          disabled : BOOLEAN,
          held : Cred,
          dropped : Grants \cup {NoGrant},
          at : Paths \cup {NoPath},
          snap : Payload,
          said : {"nothing", "failed", "signedIn", "clean", "shared"}]

Idle == [pc |-> "off", cmd |-> "none", stage |-> "init", fb |-> NoPath,
         readFrom |-> NoPath, disabled |-> FALSE, held |-> NoCred, dropped |-> NoGrant,
         at |-> NoPath, snap |-> Absent, said |-> "nothing"]

\* The command is over, having answered `what`.
Ended(what) == [Idle EXCEPT !.said = what]

\* OAuthCredentialStore::new with the given fallback.
NewStore(s, fb) == [s EXCEPT !.fb = fb, !.readFrom = NoPath, !.disabled = FALSE,
                             !.held = NoCred, !.dropped = NoGrant]

Init ==
    /\ kv \in {f \in [Paths -> UNION {Seeds[a] : a \in Paths}] : \A a \in Paths : f[a] \in Seeds[a]}
    /\ home \in {f \in [Grants -> Paths \cup {NoPath}] :
                    /\ \A a \in Paths : HasToken(kv[a]) => f[kv[a].cred.grant] = a
                    /\ \A g \in Grants : g \notin SeedGrants => f[g] = NoPath
                    /\ \A g \in SeedGrants : f[g] # NoPath /\
                          (HasToken(kv[f[g]]) => kv[f[g]].cred.grant = g)}
    /\ live = [g \in Grants |-> 0]
    /\ revoked = {}
    /\ st = [p \in Procs |-> Idle]
    /\ lost = {}
    /\ touched = {}

------------------------------------------------------------------------------
(* The backend. *)

\* What Backend::get may answer.
Reads(path) ==
    {kv[path]} \cup (IF "get" \in Faults THEN {Failed} ELSE {})
               \cup (IF "body" \in Faults THEN {Absent} ELSE {})

\* What one write may do: whether it was applied, and whether it was acknowledged.
WriteOutcomes ==
    {o \in [stored : BOOLEAN, acked : BOOLEAN] :
        /\ ~o.stored => ~o.acked /\ "set" \in Faults
        /\ o.stored /\ ~o.acked => "ack" \in Faults}

Step(p, local) == st' = [st EXCEPT ![p] = local]

\* The processes in the middle of a read-modify-write of `path`, or of a
\* logout that has cleared it.
Rewriting(path) ==
    {q \in Procs : \/ st[q].pc \in {"saveWrite", "clearWrite", "putWrite"} /\ st[q].at = path
                   \/ st[q].pc = "checkShared" /\ Primary[q] = path}

\* p writes `payload` at `path` with the given outcome.
Write(p, path, payload, outcome) ==
    /\ kv' = IF outcome.stored THEN [kv EXCEPT ![path] = payload] ELSE kv
    /\ touched' = IF outcome.stored THEN touched \cup (Rewriting(path) \ {p}) ELSE touched

\* p begins a read-modify-write afresh.
Untouched(p) == touched' = touched \ {p}

------------------------------------------------------------------------------
(* Starting a command: main resolves the context, the handler the store. *)

\* Mutant: a login that may find the shared credential.
LoginWithFallback(p, c) == Fallback[p]

\* `trg mcp auth login` alone runs without the fallback.
StoreFallback(p, c) == IF c = "login" THEN NoPath ELSE Fallback[p]

Begin(p, c) ==
    /\ st[p].pc = "off"
    /\ c \in Commands[p]
    /\ LET fresh == [NewStore(Idle, StoreFallback(p, c)) EXCEPT !.cmd = c,
                        !.stage = IF c = "status" THEN "report" ELSE "init"]
       IN \/ /\ c \in {"proxy", "login", "status"}
             /\ Step(p, [fresh EXCEPT !.pc = "load"])
          \/ /\ c = "logout"
             /\ Step(p, [fresh EXCEPT !.pc = "clearRead"])
          \/ /\ c = "put"
             /\ \E path \in Paths : Step(p, [fresh EXCEPT !.pc = "putRead", !.at = path])
    /\ UNCHANGED <<kv, home, live, revoked, lost, touched>>

------------------------------------------------------------------------------
(* CredentialStore::load, and what its caller does with the answer. *)

\* How a load ends: "found" or "none" when the store can vouch for it,
\* "missed" for a None that only means the fallback could not be read, and for
\* errors "corrupt" when the primary path holds what will not decode and
\* "failed" otherwise.  rmcp sees "missed" as None and both errors alike.
LoadResults == {"found", "none", "missed", "failed", "corrupt"}

\* What rmcp holds once a load answered with c.
Kept(s, result, c) ==
    CASE result = "found" -> c
      [] result # "found" /\ result \in HoldsThrough -> s.held
      [] OTHER -> NoCred

\* The process goes on serving through its store.
Serve(s, pc, held) == [s EXCEPT !.pc = pc, !.stage = "serve", !.held = held]

\* ensure, first read: AlreadyAuthorized, an error, or a store without a
\* fallback for the flow.
AfterInitialLoad(s, result, c) ==
    CASE result = "found" /\ c.kind = "token" ->
            IF s.cmd = "login" THEN Ended("signedIn") ELSE Serve(s, "serving", c)
      [] result \in {"failed", "corrupt"} -> Ended("failed")
      [] OTHER -> [NewStore(s, NoPath) EXCEPT !.pc = "authorize"]

\* ensure, confirming read: Authorized, an error, or MissingAfterFlow.
AfterConfirmingLoad(s, result, c) ==
    IF result = "found" /\ c.kind = "token"
    THEN IF s.cmd = "login" THEN Ended("signedIn") ELSE Serve(s, "serving", c)
    ELSE Ended("failed")

\* rmcp, about to use or refresh what it now holds.
AfterServingLoad(s, result, c) ==
    LET held == Kept(s, result, c)
    IN Serve(s, IF held.kind = "token" THEN "loaded" ELSE "serving", held)

\* The process once a load on its store s has answered.
Loaded(s, result, c) ==
    CASE s.stage = "init" -> AfterInitialLoad(s, result, c)
      [] s.stage = "confirm" -> AfterConfirmingLoad(s, result, c)
      [] s.stage = "serve" -> AfterServingLoad(s, result, c)
      [] s.stage = "report" -> Ended("nothing")

\* What a map read says: the credentials key absent, undecodable, or present.
Decoded(payload) ==
    CASE payload.cred.kind = "none" -> "none"
      [] payload.cred.kind = "corrupt" -> "corrupt"
      [] OTHER -> "found"

\* Mutant: a store that does not remember what it cleared.
TriesSharedAlways(s) == s.fb # NoPath

\* Whether a miss on the primary path goes on to the fallback.
TriesShared(s) == ~s.disabled /\ s.fb # NoPath

\* read: the primary path.  A clean miss goes on to the fallback unless the
\* store was told to forget it; a failure leaves read_from as it is.
LoadPrimary(p) ==
    /\ st[p].pc = "load"
    /\ \E a \in Reads(Primary[p]) :
          LET s == st[p]
              own == [s EXCEPT !.readFrom = NoPath]
          IN \/ /\ a.kind = "absent" /\ ~TriesShared(s)
                /\ Step(p, Loaded(own, "none", NoCred))
             \/ /\ a.kind = "absent" /\ TriesShared(s)
                /\ Step(p, [s EXCEPT !.pc = "loadShared"])
             \/ /\ a.kind = "map"
                /\ Step(p, Loaded(own, Decoded(a), a.cred))
             \/ /\ a.kind = "garbled"
                /\ Step(p, Loaded(own, "corrupt", NoCred))
             \/ /\ a.kind = "failed"
                /\ Step(p, Loaded(s, "failed", NoCred))
    /\ UNCHANGED <<kv, home, live, revoked, lost, touched>>

\* load_from_fallback: any failed read of the shared path, an unreadable map
\* included, answers None without moving read_from.
LoadShared(p) ==
    /\ st[p].pc = "loadShared"
    /\ \E a \in Reads(st[p].fb) :
          LET s == st[p]
          IN \/ /\ a.kind \in {"garbled", "failed"}
                /\ Step(p, Loaded(s, "missed", NoCred))
             \/ /\ a.kind \in {"absent", "map"} /\ Decoded(a) = "none"
                /\ Step(p, Loaded([s EXCEPT !.readFrom = NoPath], "none", NoCred))
             \/ /\ a.kind = "map" /\ Decoded(a) = "corrupt"
                /\ Step(p, Loaded(s, "failed", NoCred))
             \/ /\ a.kind = "map" /\ Decoded(a) = "found"
                /\ Step(p, Loaded([s EXCEPT !.readFrom = s.fb], "found", a.cred))
    /\ UNCHANGED <<kv, home, live, revoked, lost, touched>>

------------------------------------------------------------------------------
(* CredentialStore::save. *)

\* Mutants: a refresh always lands on the primary path; a discarded grant
\* goes back to where it was read; a save prefers the shared path.
SaveAtPrimary(p, s) == Primary[p]
SaveAtOrigin(p, s) == IF s.readFrom # NoPath THEN s.readFrom ELSE Primary[p]
SaveAtFallback(p, s) == IF s.fb # NoPath THEN s.fb ELSE Primary[p]

\* Where a save goes: back to where a token was read from, and never to the
\* fallback without one.
SaveTarget(p, s) ==
    IF s.held.kind = "token" /\ s.readFrom # NoPath THEN s.readFrom ELSE Primary[p]

\* What a process does after a save: the flow confirms through a store of its
\* own, the bridge goes on serving, a failed flow ends the command.
AfterSave(s, ok) ==
    CASE s.stage = "confirm" /\ ok -> [NewStore(s, NoPath) EXCEPT !.pc = "load", !.at = NoPath, !.snap = Absent]
      [] s.stage = "confirm" /\ ~ok -> Ended("failed")
      [] OTHER -> [s EXCEPT !.pc = "serving", !.at = NoPath, !.snap = Absent]

\* The grant being saved is no longer stored at its newest generation.
Losing(p) == IF st[p].held.kind = "token" THEN {st[p].held.grant} ELSE {}

\* Mutant: any unreadable path is written afresh.
NeverGivesUp(a) == FALSE

\* Only an undecodable payload may be overwritten unread.
GivesUp(a) == a.kind = "failed"

\* write, first half.  A payload that is no map is replaced by a fresh one;
\* any other failed read gives the save up.
SaveRead(p) ==
    /\ st[p].pc = "saveRead"
    /\ LET path == SaveTarget(p, st[p])
       IN \E a \in Reads(path) :
            \/ /\ GivesUp(a)
               /\ Step(p, AfterSave(st[p], FALSE))
               /\ lost' = lost \cup Losing(p)
            \/ /\ ~GivesUp(a)
               /\ Step(p, [st[p] EXCEPT !.pc = "saveWrite", !.at = path,
                             !.snap = IF a.kind = "map" THEN a ELSE MapOf(NoCred, FALSE)])
               /\ UNCHANGED lost
    /\ Untouched(p)
    /\ UNCHANGED <<kv, home, live, revoked>>

\* write, second half.
SaveWrite(p) ==
    /\ st[p].pc = "saveWrite"
    /\ \E o \in WriteOutcomes :
          /\ Write(p, st[p].at, MapOf(st[p].held, st[p].snap.sib), o)
          /\ Step(p, AfterSave(st[p], o.acked))
          /\ lost' = IF o.stored THEN lost ELSE lost \cup Losing(p)
    /\ UNCHANGED <<home, live, revoked>>

------------------------------------------------------------------------------
(* CredentialStore::clear, by `trg mcp auth logout` and by rmcp. *)

AfterClear(s, ok) ==
    CASE s.cmd = "logout" /\ ok -> [s EXCEPT !.pc = "checkShared", !.at = NoPath, !.snap = Absent]
      [] s.cmd = "logout" /\ ~ok -> Ended("failed")
      [] OTHER -> [s EXCEPT !.pc = "serving", !.at = NoPath, !.snap = Absent,
                            !.held = IF ok THEN NoCred ELSE @,
                            !.dropped = IF ok THEN s.held.grant ELSE @]

\* erase, first half: always the primary path.
ClearRead(p) ==
    /\ st[p].pc = "clearRead"
    /\ \E a \in Reads(Primary[p]) :
          IF a.kind = "failed"
          THEN Step(p, AfterClear(st[p], FALSE))
          ELSE Step(p, [st[p] EXCEPT !.pc = "clearWrite", !.at = Primary[p],
                          !.snap = IF a.kind = "map" THEN a ELSE Absent])
    /\ Untouched(p)
    /\ UNCHANGED <<kv, home, live, revoked, lost>>

\* erase, second half: the path is deleted, or rewritten without the
\* credentials key when it holds others.  A credential read from the fallback
\* makes the store forget the fallback, whatever became of the write.
ClearWrite(p) ==
    /\ st[p].pc = "clearWrite"
    /\ \E o \in WriteOutcomes :
          /\ Write(p, st[p].at, IF st[p].snap.sib THEN MapOf(NoCred, TRUE) ELSE Absent, o)
          /\ Step(p, AfterClear([st[p] EXCEPT !.disabled = @ \/ st[p].readFrom # NoPath], o.acked))
    /\ UNCHANGED <<home, live, revoked, lost>>

\* Mutant: the lenient read a load makes of the fallback.
CourtesyAnswer(a) == IF a.kind = "map" /\ a.cred.kind # "none" THEN "shared" ELSE "clean"

\* shared_is_reachable: a failed read is an error, and so is a payload the
\* backend cannot decode.
SharedAnswer(a) ==
    CASE a.kind \in {"garbled", "failed"} -> "failed"
      [] a.cred.kind # "none" -> "shared"
      [] OTHER -> "clean"

\* logout: fallback_is_reachable.
CheckShared(p) ==
    /\ st[p].pc = "checkShared"
    /\ \/ st[p].fb = NoPath /\ Step(p, Ended("clean"))
       \/ /\ st[p].fb # NoPath
          /\ \E a \in Reads(st[p].fb) : Step(p, Ended(SharedAnswer(a)))
    /\ UNCHANGED <<kv, home, live, revoked, lost, touched>>

------------------------------------------------------------------------------
(* rmcp, the browser flow and the authorization server. *)

\* run_authorization: a person signs in and a new grant is saved through the
\* store without a fallback, or the flow fails.
Authorize(p) ==
    /\ st[p].pc = "authorize"
    /\ \/ /\ \E g \in Grants :
                /\ home[g] = NoPath
                /\ home' = [home EXCEPT ![g] = Primary[p]]
                /\ Step(p, [st[p] EXCEPT !.pc = "saveRead", !.stage = "confirm", !.held = Token(g, 0)])
       \/ Step(p, Ended("failed")) /\ UNCHANGED home
    /\ UNCHANGED <<kv, live, revoked, lost, touched>>

\* The bridge asks rmcp for an access token: a load.
NeedToken(p) ==
    /\ st[p].pc = "serving"
    /\ Step(p, [st[p] EXCEPT !.pc = "load"])
    /\ UNCHANGED <<kv, home, live, revoked, lost, touched>>

\* The host closes stdin and the proxy exits.
Leave(p) ==
    /\ st[p].pc = "serving"
    /\ Step(p, Ended("nothing"))
    /\ UNCHANGED <<kv, home, live, revoked, lost, touched>>

\* The access token is still good.
UseToken(p) ==
    /\ st[p].pc = "loaded"
    /\ Step(p, [st[p] EXCEPT !.pc = "serving"])
    /\ UNCHANGED <<kv, home, live, revoked, lost, touched>>

\* The access token has expired: the refresh token is presented.
Refresh(p) ==
    /\ st[p].pc = "loaded"
    /\ LET g == st[p].held.grant
           n == st[p].held.gen
       IN /\ g \notin revoked
          /\ \/ /\ n = live[g] /\ n < MaxGen
                /\ live' = [live EXCEPT ![g] = n + 1]
                /\ \/ /\ Step(p, [st[p] EXCEPT !.pc = "saveRead", !.held = Token(g, n + 1)])
                      /\ UNCHANGED lost
                   \/ /\ "answer" \in Faults
                      /\ Step(p, [st[p] EXCEPT !.pc = "serving"])
                      /\ lost' = lost \cup {g}
                /\ UNCHANGED revoked
             \/ /\ n # live[g]
                /\ revoked' = revoked \cup {g}
                /\ Step(p, [st[p] EXCEPT !.pc = "serving"])
                /\ UNCHANGED <<live, lost>>
    /\ UNCHANGED <<kv, home, touched>>

\* The authorization server's issuer changed: rmcp saves the client without
\* its tokens, or clears the credential.
Discard(p) ==
    /\ st[p].pc = "loaded"
    /\ \/ Step(p, [st[p] EXCEPT !.pc = "saveRead", !.held = Bare])
       \/ Step(p, [st[p] EXCEPT !.pc = "clearRead"])
    /\ UNCHANGED <<kv, home, live, revoked, lost, touched>>

------------------------------------------------------------------------------
(* `trg secret put`: write_key. *)

PutRead(p) ==
    /\ st[p].pc = "putRead"
    /\ \E a \in Reads(st[p].at) :
          IF a.kind \in {"failed", "garbled"}
          THEN Step(p, Ended("failed"))
          ELSE Step(p, [st[p] EXCEPT !.pc = "putWrite",
                          !.snap = IF a.kind = "map" THEN a ELSE MapOf(NoCred, FALSE)])
    /\ Untouched(p)
    /\ UNCHANGED <<kv, home, live, revoked, lost>>

PutWrite(p) ==
    /\ st[p].pc = "putWrite"
    /\ \E key \in PutKeys, o \in WriteOutcomes :
          /\ Write(p, st[p].at,
                   IF key = "sibling" THEN MapOf(st[p].snap.cred, TRUE)
                                      ELSE MapOf(Corrupt, st[p].snap.sib), o)
          /\ Step(p, Ended(IF o.acked THEN "nothing" ELSE "failed"))
    /\ UNCHANGED <<home, live, revoked, lost>>

------------------------------------------------------------------------------

\* The process dies wherever it stands.  A grant it had not saved yet is lost.
Crash(p) ==
    /\ "crash" \in Faults
    /\ st[p].pc # "off"
    /\ Step(p, Idle)
    /\ lost' = IF st[p].pc \in {"saveRead", "saveWrite"} THEN lost \cup Losing(p) ELSE lost
    /\ Untouched(p)
    /\ UNCHANGED <<kv, home, live, revoked>>

Next ==
    \E p \in Procs :
        \/ \E c \in CommandNames : Begin(p, c)
        \/ LoadPrimary(p) \/ LoadShared(p)
        \/ SaveRead(p) \/ SaveWrite(p)
        \/ ClearRead(p) \/ ClearWrite(p) \/ CheckShared(p)
        \/ Authorize(p) \/ NeedToken(p) \/ Leave(p) \/ UseToken(p) \/ Refresh(p) \/ Discard(p)
        \/ PutRead(p) \/ PutWrite(p)
        \/ Crash(p)

Spec == Init /\ [][Next]_vars

------------------------------------------------------------------------------
(* What the store promises. *)

TypeOK ==
    /\ kv \in [Paths -> Payload]
    /\ home \in [Grants -> Paths \cup {NoPath}]
    /\ live \in [Grants -> Nat]
    /\ revoked \subseteq Grants
    /\ st \in [Procs -> Local]
    /\ lost \subseteq Grants
    /\ touched \subseteq Procs

\* A grant is only ever stored at the path it was first saved at: no refresh,
\* retry or failed read copies it to a second path, where two processes would
\* go on refreshing it (write's "both paths refreshing the same grant").
GrantStaysHome ==
    \A a \in Paths : HasToken(kv[a]) => home[kv[a].cred.grant] = a

(* The inductive invariant behind it: what is true of one process at all
   times, its store and whatever it is about to write. *)

\* The credential rmcp holds would be saved at its home, and so would the map
\* `secret put` carries back.
HomeBound(p, s) ==
    /\ s.held.kind = "token" => home[s.held.grant] = SaveTarget(p, s)
    /\ s.pc = "putWrite" /\ HasToken(s.snap) => home[s.snap.cred.grant] = s.at

\* The store remembers no origin but its fallback, and has none while a new
\* grant is minted, saved and confirmed.
StoreShape(p, s) ==
    /\ s.readFrom \in {NoPath, s.fb}
    /\ s.pc = "authorize" \/ s.stage = "confirm" => s.fb = NoPath
    /\ s.pc = "loadShared" => s.fb # NoPath
    /\ s.pc = "loaded" => s.held.kind = "token"
    /\ s.pc = "saveWrite" => s.at = SaveTarget(p, s)
    /\ s.pc = "clearWrite" => s.at = Primary[p]
    /\ s.pc \in {"putRead", "putWrite"} => s.at \in Paths /\ s.cmd = "put"

IInv ==
    /\ TypeOK
    /\ GrantStaysHome
    /\ \A p \in Procs : HomeBound(p, st[p]) /\ StoreShape(p, st[p])

\* The paths of the server, seen as homes of grants.
Homes == INSTANCE GrantHomes WITH
            vault <- [a \in Paths |-> IF HasToken(kv[a]) THEN kv[a].cred.grant ELSE NoGrant],
            owner <- home

\* The detailed store implements the abstract one: every step of a load, a
\* save, a clear or a put is a step of GrantHomes or leaves it as it was.
KeepsHomes == Homes!HSpec

\* A credential disappears from a path only through a process whose own path
\* it is: one machine's clear, discard or login never signs out the others
\* that share a path (erase's "would sign out every other machine").
OnlyOwnersSignOut ==
    [][\A a \in Paths :
          HasToken(kv[a]) /\ ~HasToken(kv'[a]) =>
              \E p \in Procs : /\ st[p].pc \in {"saveWrite", "clearWrite", "putWrite"}
                              /\ st[p].cmd # "put" => Primary[p] = a
                              /\ st'[p] # st[p]]_vars

\* The other keys of a path are lost only to a writer that interleaved between
\* a process's read of the map and its write of it, never to a failed read
\* taken for an empty path (write's "take any siblings with it").
SiblingsLostOnlyToARace ==
    [][\A a \in Paths :
          kv[a].sib /\ ~kv'[a].sib =>
              \E p \in touched : st[p].at = a /\ st'[p] # st[p]]_vars

\* Once a process has cleared a credential it read from the fallback, its
\* store never serves that grant again, although the grant is still there
\* (fallback_disabled).
ClearedStaysCleared ==
    \A p \in Procs :
        LET s == st[p] IN
        s.held.kind = "token" /\ s.held.grant = s.dropped => home[s.dropped] = Primary[p]

\* `logout` answers that the machine is signed out only when neither its own
\* path nor the shared one holds a credential, unless another process wrote
\* the path back after the clear (logout's "has to surface rather than read as
\* nothing there").
CleanLogoutIsTrue ==
    [][\A p \in Procs \ touched :
          st[p].pc = "checkShared" /\ st'[p].said = "clean" =>
              \A a \in {Primary[p], Fallback[p]} \ {NoPath} : kv[a].cred.kind = "none" /\ kv[a] # Garbled]_vars

\* `login` reports success, fresh or already there, only with a credential on
\* the machine's own path, never on the strength of the shared one ("or the
\* flow never runs and `cred_path` never gets written").
LoginOwnsItsCredential ==
    [][\A p \in Procs :
          st[p].said # "signedIn" /\ st'[p].said = "signedIn" => HasToken(kv[Primary[p]])]_vars

\* What `mcp auth` reports when it succeeds is so: nothing is left after a logout
\* and the machine has a credential of its own after a login.
CommandsTellTheTruth == CleanLogoutIsTrue /\ LoginOwnsItsCredential

\* The processes whose stores read or write the path.
Reach(a) == {p \in Procs : a \in {Primary[p], Fallback[p]}}

\* A grant that only one process can reach is revoked only if a refresh of it
\* was never stored: with a machine_id of its own, and one process at a time, a
\* machine never replays a refresh token.
OwnGrantNotReplayed ==
    \A g \in revoked, p \in Procs : Reach(home[g]) = {p} => g \in lost
==============================================================================
