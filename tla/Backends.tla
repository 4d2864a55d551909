------------------------------ MODULE Backends ------------------------------
(***************************************************************************)
(* The calls of secrets/mod.rs as its backends make them: OpenBao's HTTP   *)
(* API with whatever stands at the configured address (openbao.rs), the    *)
(* macOS Keychain through `security` (keychain.rs) and 1Password through   *)
(* `op` (onepassword.rs).  They implement KeyValue.                        *)
(***************************************************************************)
EXTENDS Naturals, FiniteSets

CONSTANTS
    Callers,      \* trg processes
    Entries,      \* what their config addresses
    KindOf,       \* Entries -> BackendKinds
    Addressable,  \* those OpenBao's URLs can spell
    Maps,         \* what an entry may hold, and
    Absent,       \* nothing, and
    Garbled,      \* something no SecretMap decodes from
    Sites,        \* what a behaviour starts from: a set of Site
    MaxRedirects, \* MAX_REDIRECTS
    MaxLogins,    \* bound: tokens `bao login` writes
    MaxUpsets,    \* bound: changes of the world
    MaxLate       \* bound: requests given up and still under way

BackendKinds == {"openbao", "keychain", "onepassword"}

Held == Maps \cup {Absent, Garbled}

\* Where a request may be: at `addr`, elsewhere in its origin, or outside it.
Hosts == {"addr", "peer", "other"}

\* What stands there: OpenBao; a redirect that keeps the request (307, 308) or
\* rewrites it to a bodyless GET (301-303), to a host; something that knows no
\* such path; or something that answers 200 to whatever it is asked.
Redirects == [is : {"kept", "rewritten"}, to : {"peer", "other"}]
Places == [is : {"bao", "front", "page"}, to : {"addr"}] \cup Redirects

\* The hosts, whether the mount exists, what entries hold, who uses which, and
\* what of the world changes meanwhile.
Site == [at : [Hosts -> Places], mount : BOOLEAN, store : [Entries -> Held],
         used : SUBSET Entries, by : SUBSET Callers, upset : SUBSET {"bao", "login", "tools"}]

ASSUME BackendAssumption ==
    /\ KindOf \in [Entries -> BackendKinds] /\ Addressable \subseteq Entries
    /\ {Absent, Garbled} \cap Maps = {} /\ Absent # Garbled
    /\ \A s \in Sites : s \in Site
    /\ {MaxRedirects, MaxLogins, MaxUpsets, MaxLate} \subseteq Nat

VARIABLES
    site,     \* the Site of this behaviour
    store,    \* Entries -> Held
    bao,      \* OpenBao: it serves, is sealed, or is down
    tools,    \* `security` and `op`: working, locked, missing or hanging
    honoured, \* the tokens OpenBao honours
    file,     \* the token file
    logins,   \* `bao login`s so far
    upsets,
    call,     \* Callers -> the call in progress, or the last one
    adrift,     \* requests nobody waits for any more
    steady    \* history: callers whose token nothing touched since they called

backendVars == <<site, store, bao, tools, honoured, file, logins, upsets, call, adrift, steady>>

Tools == {"keychain", "onepassword"}
TokenFile == [kind : {"missing", "loose", "empty", "token"}, n : 0..MaxLogins]

Nothing == [kind |-> "nothing", map |-> Absent]
NoCall == [pc |-> "idle", entry |-> CHOOSE e \in Entries : TRUE, op |-> "none", map |-> Absent,
           token |-> 0, at |-> "addr", sends |-> "none", hops |-> 0,
           reply |-> [status |-> 0, errors |-> FALSE, body |-> Absent, parses |-> TRUE],
           did |-> "nothing", seen |-> Absent, said |-> Nothing]

BackendsInit(chosen) ==
    /\ site \in chosen
    /\ store = site.store
    /\ bao = "serves"
    /\ tools = [t \in Tools |-> "works"]
    /\ honoured = {1}
    /\ file = [kind |-> "token", n |-> 1]
    /\ logins = 1 /\ upsets = 0
    /\ call = [c \in Callers |-> NoCall]
    /\ adrift = {}
    /\ steady = {}

World == <<site, bao, tools, honoured, file, logins, upsets>>

Becomes(c, local) == call' = [call EXCEPT ![c] = local]

\* The call is over; the process keeps what it sent with it.
Says(a, kind, map) == [NoCall EXCEPT !.said = [kind |-> kind, map |-> map],
                                     !.entry = a.entry, !.token = a.token]

------------------------------------------------------------------------------
(* Backend::get, set and delete: dispatch by kind. *)

BeginCall(c) ==
    /\ c \in site.by /\ call[c].pc = "idle"
    /\ \E e \in site.used, op \in {"get", "set", "delete"}, m \in Maps \cup {Absent} :
          /\ op = "set" <=> m \in Maps
          /\ Becomes(c, [NoCall EXCEPT !.entry = e, !.op = op, !.map = m, !.sends = op, !.token = call[c].token,
                            !.pc = IF KindOf[e] = "openbao" THEN "token" ELSE "tool"])
    /\ steady' = steady \cup {c}
    /\ UNCHANGED <<World, store, adrift>>

------------------------------------------------------------------------------
(* OpenBao: full_path and read_token, then one exchange. *)

\* Mutant: the token is read once.
FirstToken(c) == IF call[c].token = 0 THEN file.n ELSE call[c].token

\* read_token: afresh on every call.
TokenRead(c) == file.n

ReadToken(c) ==
    /\ call[c].pc = "token"
    /\ Becomes(c, IF call[c].entry \notin Addressable THEN Says(call[c], "unauthorized", Absent)
                  ELSE IF file.kind # "token" THEN Says(call[c], "unauthenticated", Absent)
                  ELSE [call[c] EXCEPT !.pc = "sent", !.token = TokenRead(c)])
    /\ UNCHANGED <<World, store, adrift, steady>>

\* The answer is in: its body is JSON, as far as it has one.
Replied(a, status, errors, body) ==
    [a EXCEPT !.pc = "answered",
              !.reply = [status |-> status, errors |-> errors, body |-> body, parses |-> TRUE]]

\* A body that is no JSON.
NoJson(a) == [a EXCEPT !.reply = [@ EXCEPT !.parses = FALSE]]

\* OpenBao answers a request it does not act on.
Rejection(token) ==
    CASE bao = "sealed" -> 503
      [] token \notin honoured -> 403
      [] ~site.mount -> 404
      [] OTHER -> 0

Applied(request) == IF request.op = "get" THEN store ELSE [store EXCEPT ![request.entry] = request.map]

\* Something else answers in the entry's place.
Veiled(a) == [a EXCEPT !.did = "hidden"]

\* What read_body takes for a miss though the entry was not asked: a body that is
\* cut off, read as an empty one, and a 404 of something in front of OpenBao.
Hidden(a) == IF a.op = "set" THEN a ELSE Veiled(a)

\* What stands where the request is acts on it and answers.
Serve(c) ==
    /\ call[c].pc = "sent"
    /\ LET a == call[c]
           place == site.at[a.at].is
           took == IF a.sends = a.op THEN [a EXCEPT !.did = "took", !.seen = store[a.entry]] ELSE a
       IN \/ place = "front" /\ Becomes(c, Replied(Hidden(a), 404, FALSE, Absent)) /\ UNCHANGED store
          \/ /\ place = "page"
             /\ \/ Becomes(c, Replied(Veiled(a), 200, FALSE, Absent))
                \/ Becomes(c, Replied(Veiled(a), 200, FALSE, Garbled))
                \/ Becomes(c, NoJson(Replied(Veiled(a), 200, FALSE, Garbled)))
             /\ UNCHANGED store
          \/ place \in {"kept", "rewritten"} /\ Becomes(c, Replied(a, 307, FALSE, Absent)) /\ UNCHANGED store
          \/ /\ place = "bao" /\ bao # "down" /\ Rejection(a.token) # 0
             /\ \/ Becomes(c, Replied(a, Rejection(a.token), TRUE, Absent))
                \/ Becomes(c, Replied(Hidden(a), Rejection(a.token), FALSE, Absent))
             /\ UNCHANGED store
          \/ /\ place = "bao" /\ bao # "down" /\ Rejection(a.token) = 0 /\ a.sends = "get"
             /\ \/ Becomes(c, Replied(took, IF store[a.entry] = Absent THEN 404 ELSE 200, FALSE, store[a.entry]))
                \/ store[a.entry] # Absent /\ Becomes(c, Replied(Hidden(a), 200, FALSE, Absent))
             /\ UNCHANGED store
          \/ /\ place = "bao" /\ bao # "down" /\ Rejection(a.token) = 0 /\ a.sends # "get"
             /\ store' = Applied(a)
             /\ \E body \in {Absent, Garbled} : Becomes(c, Replied(took, 200, FALSE, body))
    /\ UNCHANGED <<World, adrift, steady>>

\* Mutants: a redirect is followed wherever it leads; whatever becomes of the request.
AnyOrigin(to) == TRUE
AnyRequest(r) == TRUE

\* only_this_origin, preserves_the_request
SameOrigin(to) == to # "other"
PreservesTheRequest(r) == r.is = "kept"

\* The redirect policy.
Follow(c) ==
    /\ call[c].pc = "answered" /\ site.at[call[c].at] \in Redirects
    /\ LET a == call[c]
           r == site.at[a.at]
       IN IF ~SameOrigin(r.to) \/ ~PreservesTheRequest(r) \/ a.hops >= MaxRedirects
          THEN Becomes(c, Says(a, "transport", Absent))
          ELSE Becomes(c, [a EXCEPT !.pc = "sent", !.at = r.to, !.hops = @ + 1,
                                    !.sends = IF r.is = "kept" THEN @ ELSE "get"])
    /\ UNCHANGED <<World, store, adrift, steady>>

\* Mutant: a write that finds nothing has written.
MissAnyway(op) == TRUE

\* Absence: what a 404 with no errors means to the operation.
IsAMiss(op) == op # "set"

\* read_body, and what get, set and delete make of it: a get wants a secret in the
\* JSON, a write takes any JSON for a yes.
ReadBody(c) ==
    /\ call[c].pc = "answered" /\ site.at[call[c].at] \notin Redirects
    /\ LET a == call[c]
           r == a.reply
           none == IF a.op = "get" THEN Says(a, "absent", Absent) ELSE Says(a, "done", Absent)
           valid == r.parses /\ (a.op = "get" => r.body \in Maps)
           missed == r.status = 404 /\ ~r.errors /\ IsAMiss(a.op)
       IN \/ r.status = 200 /\ r.body = Absent /\ Becomes(c, none)
          \/ r.status = 200 /\ r.body # Absent /\ ~valid /\ Becomes(c, Says(a, "malformed", Absent))
          \/ /\ r.status = 200 /\ r.body # Absent /\ valid
             /\ Becomes(c, IF a.op = "get" THEN Says(a, "value", r.body) ELSE Says(a, "done", Absent))
          \/ missed /\ Becomes(c, none)
          \/ r.status = 403 /\ Becomes(c, Says(a, "unauthorized", Absent))
          \/ r.status \notin {200, 403} /\ ~missed /\ Becomes(c, Says(a, "unavailable", Absent))
    /\ UNCHANGED <<World, store, adrift, steady>>

\* transport_error: no connection, a connection lost, or the budget spent.  What
\* was sent may still arrive.
GiveUp(c) ==
    /\ call[c].pc \in {"sent", "answered"}
    /\ \E said \in {"unavailable", "transport"} : Becomes(c, Says(call[c], said, Absent))
    /\ adrift' = IF call[c].pc = "sent" /\ call[c].sends # "get" /\ site.at[call[c].at].is = "bao" /\ bao # "down"
                  /\ Cardinality(adrift) < MaxLate
               THEN adrift \cup {[op |-> call[c].sends, entry |-> call[c].entry, map |-> call[c].map,
                                token |-> call[c].token]}
               ELSE adrift
    /\ UNCHANGED <<World, store, steady>>

ServeLate ==
    /\ \E r \in adrift :
          /\ bao # "down" /\ Rejection(r.token) = 0
          /\ store' = Applied(r)
          /\ adrift' = adrift \ {r}
    /\ UNCHANGED <<World, call, steady>>

------------------------------------------------------------------------------
(* The Keychain and 1Password: one process per call. *)

\* Mutant: `op` is waited for as long as it takes.
PatientFailures(kind, how) ==
    CASE how = "hangs" -> {}
      [] how = "locked" -> IF kind = "keychain" THEN {"denied", "transport"} ELSE {"unavailable"}
      [] OTHER -> {"unavailable", "transport"}

\* What a call says when the tool does not do it: guard_platform, classify, a failed
\* spawn; OnePasswordBackend::failed and its timeout.  `security` is given no limit.
ToolFailures(kind, how) ==
    CASE how = "hangs" -> IF kind = "keychain" THEN {} ELSE {"transport"}
      [] how = "locked" -> IF kind = "keychain" THEN {"denied", "transport"} ELSE {"unavailable"}
      [] OTHER -> IF kind = "keychain" THEN {"unavailable", "transport"} ELSE {"transport"}

RunTool(c) ==
    /\ call[c].pc = "tool"
    /\ LET a == call[c]
           kind == KindOf[a.entry]
           unsupported == kind = "onepassword" /\ a.op # "get"
       IN \/ unsupported /\ Becomes(c, Says(a, "unsupported", Absent)) /\ UNCHANGED store
          \/ /\ ~unsupported /\ tools[kind] = "works"
             /\ store' = Applied(a)
             /\ Becomes(c, [a EXCEPT !.pc = "exited", !.did = "took", !.seen = store[a.entry]])
          \/ /\ ~unsupported /\ tools[kind] # "works"
             /\ \E said \in ToolFailures(kind, tools[kind]) : Becomes(c, Says(a, said, Absent))
             /\ UNCHANGED store
    /\ UNCHANGED <<World, adrift, steady>>

\* Its exit status and output: "could not be found" and "isn't an item in the" are misses.
ReadOutput(c) ==
    /\ call[c].pc = "exited"
    /\ LET a == call[c]
       IN Becomes(c, IF a.op # "get" THEN Says(a, "done", Absent)
                     ELSE CASE a.seen = Absent -> Says(a, "absent", Absent)
                            [] a.seen = Garbled -> Says(a, "malformed", Absent)
                            [] OTHER -> Says(a, "value", a.seen))
    /\ UNCHANGED <<World, store, adrift, steady>>

------------------------------------------------------------------------------
(* The world. *)

\* `bao login` in any terminal.
Login ==
    /\ "login" \in site.upset /\ logins < MaxLogins
    /\ logins' = logins + 1
    /\ file' = [kind |-> "token", n |-> logins + 1]
    /\ honoured' = honoured \cup {logins + 1}
    /\ steady' = {}
    /\ UNCHANGED <<site, store, bao, tools, upsets, call, adrift>>

\* A token expires, the file goes bad, OpenBao is sealed, stops or comes back, a
\* tool locks, hangs or is gone.
Upset ==
    /\ upsets < MaxUpsets
    /\ upsets' = upsets + 1
    /\ \/ /\ "login" \in site.upset
          /\ \/ (\E n \in honoured : honoured' = honoured \ {n}) /\ UNCHANGED file
             \/ file' \in [kind : {"missing", "loose", "empty"}, n : {0}] /\ UNCHANGED honoured
          /\ steady' = {}
          /\ UNCHANGED <<bao, tools>>
       \/ /\ \/ "bao" \in site.upset /\ bao' \in {"serves", "sealed", "down"} \ {bao} /\ UNCHANGED tools
             \/ \E t \in Tools : \E how \in {"works", "locked", "missing", "hangs"} \ {tools[t]} :
                   "tools" \in site.upset /\ tools' = [tools EXCEPT ![t] = how] /\ UNCHANGED bao
          /\ UNCHANGED <<honoured, file, steady>>
    /\ UNCHANGED <<site, store, logins, call, adrift>>

CallStep(c) ==
    \/ ReadToken(c) \/ Serve(c) \/ Follow(c) \/ ReadBody(c) \/ GiveUp(c)
    \/ RunTool(c) \/ ReadOutput(c)

BackendsNext == (\E c \in Callers : BeginCall(c) \/ CallStep(c)) \/ ServeLate \/ Login \/ Upset

\* The calls by themselves, of any of the sites.
BackendsSpec == BackendsInit(Sites) /\ [][BackendsNext]_backendVars

\* trg goes on with a call it has begun; its clients' budgets run out.
BackendFairness == \A c \in Callers : WF_backendVars(ReadToken(c) \/ GiveUp(c) \/ RunTool(c) \/ ReadOutput(c))

------------------------------------------------------------------------------
(* What a call promises. *)

\* allows_fallback
AllowsFallback == {"unauthorized", "unauthenticated", "unavailable", "transport", "denied"}

Contracted(a) ==
    [op |-> a.op, entry |-> IF a.op = "none" THEN NoCall.entry ELSE a.entry, map |-> a.map,
     did |-> a.did, seen |-> a.seen,
     said |-> [kind |-> CASE a.said.kind \in AllowsFallback -> "down"
                          [] a.said.kind \in {"malformed", "unsupported"} -> "refused"
                          [] OTHER -> a.said.kind,
               map |-> a.said.map]]

\* Something at the configured address, or behind it, says yes to anything.
Veil == \E h \in Hosts : site.at[h].is = "page"

Contract == INSTANCE KeyValue WITH
    veiled <- Veil,
    ask <- [c \in Callers |-> Contracted(call[c])],
    late <- {[op |-> r.op, entry |-> r.entry, map |-> r.map] : r \in adrift}

\* A call does to its entry what it says, once, between its start and its answer:
\* a value is what was stored, a set said to be done was done unless something that
\* is not OpenBao says yes to anything there, an entry is said to be absent only if
\* it was or was hidden; a call that failed may take effect later (Backend::get,
\* set, delete, over redirects, standbys, fronts, pages and lost answers).
CallsKeepTheContract == Contract!Spec

\* A login in any terminal is enough: no call begun since is refused for its token
\* while that token is honoured (openbao.rs, why the token is read on every call).
LoginIsEnough ==
    \A c \in steady :
        call[c].said.kind \in {"unauthorized", "unauthenticated"} /\ call[c].entry \in Addressable
            => ~(file.kind = "token" /\ file.n \in honoured)

\* The token goes to no host outside the configured origin (only_this_origin).
TokenStaysHome == \A c \in Callers : call[c].pc = "sent" => call[c].at # "other"

(* Tokens: a good one is enough, and none leaves the origin it is for. *)
TokensAreFreshAndHome == LoginIsEnough /\ TokenStaysHome

\* Every call ends, but those of a Keychain that waits for somebody to click.
CallsEnd ==
    \A c \in Callers :
        call[c].pc # "idle" /\ KindOf[call[c].entry] # "keychain" ~> call[c].pc = "idle"
=============================================================================
