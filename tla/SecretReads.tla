---------------------------- MODULE SecretReads ----------------------------
(***************************************************************************)
(* Reading config vars out of secrets backends: secrets/vars.rs.  One      *)
(* fetch answers for a set of reads.  The first addresses are read one     *)
(* round trip per distinct entry, then the chains of those that declared   *)
(* fallbacks and were declined.  Every round trip is an await, and others  *)
(* write the entries in between.                                           *)
(*                                                                         *)
(* An entry is a (backend, path) or a (backend, item); an address is an    *)
(* entry and a key in it.                                                  *)
(***************************************************************************)
EXTENDS Naturals, Sequences, FiniteSets

CONSTANTS
    Entries,    \* the entries of all backends
    Addresses,  \* what a config may name
    EntryOf,    \* Addresses -> Entries
    KeyOf,      \* Addresses -> Keys
    Keys,
    Values,     \* values under a key
    Twice,      \* in place of a value: a field that matches twice
    NoValue,    \* in place of a value: no such key
    Reads,      \* the reads configs declare
    Chain,      \* Reads -> sequences of addresses: the primary, then fallbacks
    Queries,    \* reads whose primary `op read` derives: a round trip each
    Wanted,     \* the sets of reads a fetch is asked for
    Paired,     \* entries nobody marks, whose keys are always written together
    Scenes,     \* what a behaviour starts from: a set of Scene
    Edited,     \* the entries others write, and the values they write there
    Fresh,
    Fetchers,   \* processes that fetch
    NoRead,
    ReadFaults, \* "down": a round trip fails
    MaxEdits    \* bound: writes of entries by others

\* Whether the backend of an entry can be built: "here" not, for want of a
\* variable or a file of this machine, or not anywhere, the config being wrong.
HostStates == {"built", "here", "nowhere"}

\* What an entry holds; an undecodable payload, and nothing, have no keys.
Held == Values \cup Addresses \cup {Twice, NoValue}
Content == {c \in [kind : {"absent", "garbled", "map"}, val : [Keys -> Held]] :
               c.kind # "map" => \A k \in Keys : c.val[k] = NoValue}

Bare(kind) == [kind |-> kind, val |-> [k \in Keys |-> NoValue]]

\* One value under every key that has one.
Together(c) ==
    \A k, l \in Keys : /\ c.val[k] \notin Addresses
                       /\ c.val[k] \in Values /\ c.val[l] \in Values => c.val[k] = c.val[l]

\* The entries and the machine at first, the mirrors declared, and the processes
\* that run.
IsScene(s) ==
    /\ s.kv \in [Entries -> Content] /\ s.host \in [Entries -> HostStates]
    /\ DOMAIN s = {"kv", "host", "cfg", "cast"}
    /\ \A e \in Paired : Together(s.kv[e])

ASSUME ReadAssumption ==
    /\ EntryOf \in [Addresses -> Entries] /\ KeyOf \in [Addresses -> Keys]
    /\ \A a, b \in Addresses : EntryOf[a] = EntryOf[b] /\ KeyOf[a] = KeyOf[b] => a = b
    /\ {Twice, NoValue} \cap (Values \cup Addresses) = {} /\ Twice # NoValue
    /\ Values \cap Addresses = {}
    /\ Chain \in [Reads -> Seq(Addresses)] /\ \A r \in Reads : Chain[r] # <<>>
    /\ Queries \subseteq Reads /\ NoRead \notin Reads
    /\ \A w \in Wanted : w \subseteq Reads
    /\ Paired \subseteq Entries
    /\ \A s \in Scenes : IsScene(s)
    /\ Edited \subseteq Entries /\ Fresh \subseteq Values
    /\ ReadFaults \subseteq {"down"} /\ MaxEdits \in Nat

VARIABLES
    kv,     \* Entries -> Content
    host,   \* Entries -> HostStates: the machine
    fetch,  \* Fetchers -> the fetch in progress or just over
    cast,   \* the processes that run
    edits,  \* writes by others so far
    calm    \* history: processes nothing has disturbed since they began

readVars == <<kv, host, fetch, cast, edits, calm>>

Answer == [kind : {"pending", "declined", "answered"}, val : Held, by : Nat]
Pending == [kind |-> "pending", val |-> NoValue, by |-> 0]
Declined == [kind |-> "declined", val |-> NoValue, by |-> 0]
Answered(v, i) == [kind |-> "answered", val |-> v, by |-> i]

Fetch == [pc : {"off", "primaries", "chains"}, wanted : Wanted \cup {{}},
          got : [Reads -> Answer], cur : Reads \cup {NoRead}, hop : Nat,
          said : {"nothing", "ok", "failed"}]

NoFetch == [pc |-> "off", wanted |-> {}, got |-> [r \in Reads |-> Pending],
            cur |-> NoRead, hop |-> 0, said |-> "nothing"]

ReadInit(s) ==
    /\ kv = s.kv
    /\ host = s.host
    /\ fetch = [f \in Fetchers |-> NoFetch]
    /\ cast = s.cast
    /\ edits = 0
    /\ calm = {}

------------------------------------------------------------------------------
(* One round trip. *)

\* The answer of an entry when no round trip fails by chance.
Steady(e) ==
    CASE host[e] = "here" -> Bare("down")
      [] host[e] = "nowhere" -> Bare("garbled")
      [] OTHER -> kv[e]

\* What building the backend and reading the entry may answer.
RoundTrip(e) ==
    {Steady(e)} \cup (IF "down" \in ReadFaults THEN {Bare("down")} ELSE {})

\* allows_fallback: what an answer says of one key.  A backend that could not
\* answer, and a value it does not hold, leave the question open; a payload that
\* will not decode, a field that matches twice and a config that is wrong do not.
Says(answer, key) ==
    CASE answer.kind \in {"down", "absent"} -> "unable"
      [] answer.kind = "garbled" -> "refused"
      [] answer.kind = "map" /\ answer.val[key] = NoValue -> "unable"
      [] answer.kind = "map" /\ answer.val[key] = Twice -> "refused"
      [] answer.kind = "map" /\ answer.val[key] \notin {NoValue, Twice} -> "value"

Address(r, i) == Chain[r][i]

SaysTo(r, i, answer) == Says(answer, KeyOf[Address(r, i)])

HasFallbacks(r) == Len(Chain[r]) > 1

------------------------------------------------------------------------------
(* fetch_with *)

BeginFetch(f) ==
    /\ f \in cast /\ fetch[f].pc = "off"
    /\ \E w \in Wanted : fetch' = [fetch EXCEPT ![f] = [NoFetch EXCEPT !.pc = "primaries", !.wanted = w]]
    /\ calm' = calm \cup {f}
    /\ UNCHANGED <<kv, host, cast, edits>>

\* Mutant: a round trip per read.
Alone(w, r) == {r}

\* read_primaries: the reads one round trip serves.
Served(w, r) ==
    IF r \in Queries THEN {r}
    ELSE {q \in w \ Queries : EntryOf[Address(q, 1)] = EntryOf[Address(r, 1)]}

\* declined: a failed round trip fails the fetch unless every read it serves
\* has a fallback.
Declinable(group) == \A r \in group : HasFallbacks(r)

\* settle: one read's own outcome, once its entry has been read.
Settled(r, answer) ==
    IF SaysTo(r, 1, answer) = "value" THEN Answered(answer.val[KeyOf[Address(r, 1)]], 1) ELSE Declined

\* Mutant: a fallback covers any failure to find a value.
Lenient(group, answer) ==
    IF answer.kind = "map"
    THEN \A r \in group : SaysTo(r, 1, answer) = "value" \/ HasFallbacks(r)
    ELSE answer.kind # "garbled" /\ Declinable(group)

\* Whether the fetch goes on after the round trip for `group`.
GoesOn(group, answer) ==
    IF answer.kind = "map"
    THEN \A r \in group : SaysTo(r, 1, answer) = "value" \/ (SaysTo(r, 1, answer) = "unable" /\ HasFallbacks(r))
    ELSE answer.kind # "garbled" /\ Declinable(group)

Over(f, said) == fetch' = [fetch EXCEPT ![f].pc = "off", ![f].said = said, ![f].cur = NoRead]

Noticed(f, e, answer) == calm' = IF answer = Steady(e) THEN calm ELSE calm \ {f}

\* One group of read_primaries.
FetchPrimary(f) ==
    /\ fetch[f].pc = "primaries"
    /\ LET w == fetch[f].wanted
           todo == {r \in w : fetch[f].got[r].kind = "pending"}
       IN \/ /\ todo = {}
             /\ fetch' = [fetch EXCEPT ![f].pc = "chains"]
             /\ UNCHANGED calm
          \/ \E r \in todo : LET e == EntryOf[Address(r, 1)]
                                 group == Served(w, r)
             IN \E answer \in RoundTrip(e) :
                   /\ IF GoesOn(group, answer)
                      THEN fetch' = [fetch EXCEPT ![f].got =
                              [q \in Reads |-> IF q \in group THEN Settled(q, answer) ELSE @[q]]]
                      ELSE Over(f, "failed")
                   /\ Noticed(f, e, answer)
    /\ UNCHANGED <<kv, host, cast, edits>>

\* resolve_chain: the next address of a read that was declined.
FetchNext(f) ==
    /\ fetch[f].pc = "chains"
    /\ LET open == {r \in fetch[f].wanted : fetch[f].got[r].kind = "declined"}
           at == IF fetch[f].cur = NoRead THEN open ELSE {fetch[f].cur}
           i == IF fetch[f].cur = NoRead THEN 2 ELSE fetch[f].hop
       IN \/ /\ open = {}
             /\ Over(f, "ok")
             /\ UNCHANGED calm
          \/ \E r \in at : LET e == EntryOf[Address(r, i)] IN
             \E answer \in RoundTrip(e) :
                /\ CASE SaysTo(r, i, answer) = "value" ->
                          fetch' = [fetch EXCEPT ![f].cur = NoRead,
                                       ![f].got[r] = Answered(answer.val[KeyOf[Address(r, i)]], i)]
                     [] SaysTo(r, i, answer) = "unable" /\ i < Len(Chain[r]) ->
                          fetch' = [fetch EXCEPT ![f].cur = r, ![f].hop = i + 1]
                     [] OTHER -> Over(f, "failed")
                /\ Noticed(f, e, answer)
    /\ UNCHANGED <<kv, host, cast, edits>>

\* Another tool or machine writes an entry: every key of it at once.
Edit(e) ==
    /\ e \in Edited /\ edits < MaxEdits
    /\ \E v \in Fresh :
          kv' = [kv EXCEPT ![e] = [kind |-> "map",
                    val |-> [k \in Keys |-> IF @.val[k] \in Addresses THEN @.val[k] ELSE v]]]
    /\ edits' = edits + 1
    /\ calm' = {}
    /\ UNCHANGED <<host, fetch, cast>>

ReadStep == \E f \in Fetchers : BeginFetch(f) \/ FetchPrimary(f) \/ FetchNext(f)

------------------------------------------------------------------------------
(* What a fetch promises. *)

ReadTypeOK ==
    /\ kv \in [Entries -> Content]
    /\ host \in [Entries -> HostStates]
    /\ fetch \in [Fetchers -> Fetch]
    /\ edits \in 0..MaxEdits

\* A read on its own: its addresses in order, each a question to one entry.
Resolved(r) ==
    LET settled == {i \in DOMAIN Chain[r] : SaysTo(r, i, Steady(EntryOf[Address(r, i)])) # "unable"}
        first == CHOOSE i \in settled : \A j \in settled : i <= j
    IN IF settled = {} \/ SaysTo(r, first, Steady(EntryOf[Address(r, first)])) = "refused"
       THEN Declined
       ELSE Answered(Steady(EntryOf[Address(r, first)]).val[KeyOf[Address(r, first)]], first)

\* Grouping changes no answer: a fetch nothing disturbed gives every read what it
\* would have got alone, address by address, and fails exactly when one of them
\* would (fetch_grouped; "a read with no fallback has always done").
GroupingChangesNoAnswer ==
    \A f \in calm \cap Fetchers :
        /\ fetch[f].said = "ok" => \A r \in fetch[f].wanted : fetch[f].got[r] = Resolved(r)
        /\ fetch[f].said = "failed" => \E r \in fetch[f].wanted : Resolved(r) = Declined

\* Two values of one entry that were written together are read together: no fetch
\* mixes the old user with the new password, whenever the entry is rewritten
\* ("one round trip per distinct entry").
PairsAreNotTorn ==
    \A f \in Fetchers : fetch[f].said = "ok" =>
        \A r, q \in fetch[f].wanted \ Queries :
            LET e == EntryOf[Address(r, 1)] IN
            /\ e \in Paired /\ e = EntryOf[Address(q, 1)]
            /\ fetch[f].got[r].by = 1 /\ fetch[f].got[q].by = 1
            => fetch[f].got[r].val = fetch[f].got[q].val

\* Reads of one entry share a round trip (fetch_grouped): that changes none of their
\* answers and keeps together what was written together.
GroupingIsSafe == GroupingChangesNoAnswer /\ PairsAreNotTorn
=============================================================================
