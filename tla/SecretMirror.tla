---------------------------- MODULE SecretMirror ----------------------------
(***************************************************************************)
(* `trg secret mirror [apply]`: secrets/mirror.rs and mirror_all of        *)
(* commands/secret.rs.  A mirror reads its source once and brings each of  *)
(* its targets in line: a read of the target's entry, a write of the whole *)
(* entry, a read back.  Each is an await, and nothing locks an entry.      *)
(***************************************************************************)
EXTENDS SecretReads

CONSTANTS
    Writable,   \* the entries of backends trg writes to
    SourceKey,  \* the key beside a mirrored value that names where it came from
    EmptyValue, \* the empty value
    Syncers,    \* processes that mirror
    SetFaults   \* "fails", "unacked", "dropped"

Indices(s) == DOMAIN s
Mirrors == [source : Addresses, targets : Seq(Addresses)]

ASSUME MirrorAssumption ==
    /\ \A s \in Scenes : s.cfg \in Seq(Mirrors)
    /\ Fetchers \cap Syncers = {} /\ Paired \cap Writable = {}
    /\ Writable \subseteq Entries /\ SourceKey \in Keys /\ EmptyValue \in Values
    /\ SetFaults \subseteq {"fails", "unacked", "dropped"}

VARIABLES
    cfg,      \* the mirrors declared, in name order
    sync,     \* Syncers -> the command in progress or just over
    touched,  \* history: processes whose entry another wrote since they read it
    rounds    \* history: Syncers -> full undisturbed successful applies in a row

mirrorVars == <<cfg, sync, touched, rounds>>
vars == <<readVars, mirrorVars>>

\* Mutant: mirrors of one path may name different sources.
AnySource(c) == TRUE

\* ConflictingSource: mirrors that write one entry share a source.
SharedSource(c) ==
    \A i, j \in Indices(c) : \A t \in Indices(c[i].targets), u \in Indices(c[j].targets) :
        EntryOf[c[i].targets[t]] = EntryOf[c[j].targets[u]] => c[i].source = c[j].source

\* resolve_one and resolve_all: what a file that loads may declare.
Accepted(c) ==
    /\ \A i \in Indices(c) :
          /\ c[i].targets # <<>>
          /\ \A t \in Indices(c[i].targets) :
                /\ EntryOf[c[i].targets[t]] \in Writable
                /\ c[i].targets[t] # c[i].source
                /\ KeyOf[c[i].targets[t]] # SourceKey
    /\ \A i, j \in Indices(c) : \A t \in Indices(c[i].targets), u \in Indices(c[j].targets) :
          c[i].targets[t] = c[j].targets[u] => i = j /\ t = u
    /\ SharedSource(c)

Sync == [pc : {"off", "source", "read", "write", "back"}, apply : BOOLEAN, all : BOOLEAN,
         todo : Seq(Nat), t : Nat, val : Held, snap : Content,
         ok : BOOLEAN, last : {"none", "synced", "drift", "failed"}]

NoSync == [pc |-> "off", apply |-> FALSE, all |-> TRUE, todo |-> <<>>, t |-> 0, val |-> NoValue,
           snap |-> Bare("absent"), ok |-> TRUE, last |-> "none"]

Init ==
    /\ \E s \in {s \in Scenes : Accepted(s.cfg)} : ReadInit(s) /\ cfg = s.cfg
    /\ sync = [p \in Syncers |-> NoSync]
    /\ touched = {}
    /\ rounds = [p \in Syncers |-> 0]

Mirror(p) == cfg[Head(sync[p].todo)]
Target(p) == Mirror(p).targets[sync[p].t]

------------------------------------------------------------------------------
(* mirror_all *)

\* select_mirrors: every mirror, or those that --name names, as they are declared.
Everything == [i \in Indices(cfg) |-> i]
Selections ==
    {s \in UNION {[1..n -> Indices(cfg)] : n \in 1..Len(cfg)} : \A i, j \in DOMAIN s : i < j => s[i] < s[j]}

BeginMirror(p) ==
    /\ p \in cast /\ sync[p].pc = "off" /\ cfg # <<>>
    /\ \E apply \in BOOLEAN, todo \in Selections :
          sync' = [sync EXCEPT ![p] = [NoSync EXCEPT !.pc = "source", !.apply = apply, !.todo = todo,
                                                      !.all = todo = Everything]]
    /\ calm' = calm \cup {p}
    /\ UNCHANGED <<kv, host, fetch, cast, edits, cfg, touched, rounds>>

\* The mirror is over; the next one starts, or the command ends.
NextMirror(s) ==
    IF Len(s.todo) > 1
    THEN [s EXCEPT !.pc = "source", !.todo = Tail(@), !.t = 0, !.val = NoValue, !.snap = Bare("absent")]
    ELSE [NoSync EXCEPT !.ok = s.ok, !.last = s.last]

\* What became of one target, and on to the next of its mirror.
Outcome(p, last) ==
    LET s == [sync[p] EXCEPT !.last = last, !.ok = @ /\ last # "failed"]
    IN IF s.t < Len(Mirror(p).targets)
       THEN [s EXCEPT !.pc = "read", !.t = @ + 1, !.snap = Bare("absent")]
       ELSE NextMirror(s)

\* A process goes to s; when that ends a command, the round counts if it was an
\* apply of every mirror that succeeded undisturbed (counted up to one per mirror).
Becomes(p, s) ==
    /\ sync' = [sync EXCEPT ![p] = s]
    /\ rounds' = IF s.pc # "off" THEN rounds
                 ELSE [rounds EXCEPT ![p] =
                         CASE ~s.ok \/ p \notin calm' -> 0
                           [] s.ok /\ p \in calm' /\ sync[p].apply /\ sync[p].all /\ @ < Len(cfg) -> @ + 1
                           [] OTHER -> @]

Seen(p, e, answer) == calm' = IF answer = Steady(e) THEN calm ELSE calm \ {p}

------------------------------------------------------------------------------
(* mirror and sync_target *)

\* The source, read once; an empty or unreadable one fails every target.
MirrorSource(p) ==
    /\ sync[p].pc = "source"
    /\ LET a == Mirror(p).source IN
       \E answer \in RoundTrip(EntryOf[a]) :
          LET v == answer.val[KeyOf[a]] IN
          /\ Seen(p, EntryOf[a], answer)
          /\ IF Says(answer, KeyOf[a]) = "value" /\ v # EmptyValue
             THEN Becomes(p, [sync[p] EXCEPT !.pc = "read", !.t = 1, !.val = v, !.last = "none"])
             ELSE Becomes(p, NextMirror([sync[p] EXCEPT !.ok = FALSE, !.last = "failed"]))
    /\ UNCHANGED <<kv, host, fetch, cast, edits, cfg, touched>>

\* Mutant: a target that holds anything is in sync.
HeldAnything(answer, key, v) == answer.val[key] # NoValue

\* held == wanted, by fingerprint
UpToDate(answer, key, v) == answer.val[key] = v

\* sync_target up to the write: a target that cannot be read or decoded is left
\* alone, and so is one in sync, and every one in a dry run.
MirrorRead(p) ==
    /\ sync[p].pc = "read"
    /\ LET e == EntryOf[Target(p)]
           key == KeyOf[Target(p)]
       IN \E answer \in RoundTrip(e) :
          /\ Seen(p, e, answer)
          /\ touched' = touched \ {p}
          /\ CASE answer.kind \in {"down", "garbled"} -> Becomes(p, Outcome(p, "failed"))
               [] answer.kind \in {"absent", "map"} /\ UpToDate(answer, key, sync[p].val) ->
                     Becomes(p, Outcome(p, "synced"))
               [] answer.kind \in {"absent", "map"} /\ ~UpToDate(answer, key, sync[p].val) ->
                     IF sync[p].apply
                     THEN Becomes(p, [sync[p] EXCEPT !.pc = "write", !.snap = answer, !.last = "none"])
                     ELSE Becomes(p, Outcome(p, "drift"))
    /\ UNCHANGED <<kv, host, fetch, cast, edits, cfg>>

\* Mutant: the entry is written afresh.
FreshEntry(p) ==
    [kind |-> "map", val |-> [Bare("map").val EXCEPT ![KeyOf[Target(p)]] = sync[p].val,
                                                     ![SourceKey] = Mirror(p).source]]

\* The map that was read, with the value and the reference to its source.
Merged(p) ==
    [kind |-> "map", val |-> [sync[p].snap.val EXCEPT ![KeyOf[Target(p)]] = sync[p].val,
                                                      ![SourceKey] = Mirror(p).source]]

\* Mutant: an acknowledged write is taken at its word.
Acknowledged(p) == Outcome(p, "synced")

\* After an acknowledged write the target is read back.
Written(p) == [sync[p] EXCEPT !.pc = "back"]

\* Backend::set may fail, be applied and not acknowledged, or be acknowledged
\* and not kept.
SetOutcomes ==
    {o \in [stored : BOOLEAN, acked : BOOLEAN] :
        /\ ~o.stored /\ ~o.acked => "fails" \in SetFaults
        /\ o.stored /\ ~o.acked => "unacked" \in SetFaults
        /\ ~o.stored /\ o.acked => "dropped" \in SetFaults}

MirrorWrite(p) ==
    /\ sync[p].pc = "write"
    /\ LET e == EntryOf[Target(p)] IN
       \E o \in SetOutcomes :
          /\ kv' = IF o.stored THEN [kv EXCEPT ![e] = Merged(p)] ELSE kv
          /\ calm' = IF o.stored THEN calm \cap {p} ELSE calm
          /\ touched' = IF o.stored
                        THEN touched \cup {q \in Syncers \ {p} : sync[q].pc = "write" /\ EntryOf[Target(q)] = e}
                        ELSE touched
          /\ sync' = [sync EXCEPT ![p] = IF o.acked THEN Written(p) ELSE Outcome(p, "failed")]
          /\ rounds' = [q \in Syncers |-> IF (q # p /\ o.stored) \/ (q = p /\ ~o.acked) THEN 0 ELSE rounds[q]]
    /\ UNCHANGED <<host, fetch, cast, edits, cfg>>

\* verify_readback
MirrorBack(p) ==
    /\ sync[p].pc = "back"
    /\ LET e == EntryOf[Target(p)] IN
       \E answer \in RoundTrip(e) :
          /\ Seen(p, e, answer)
          /\ Becomes(p, Outcome(p, IF answer.kind = "map" /\ UpToDate(answer, KeyOf[Target(p)], sync[p].val)
                                   THEN "synced" ELSE "failed"))
    /\ UNCHANGED <<kv, host, fetch, cast, edits, cfg, touched>>

\* Another tool or machine writes an entry.
Rival(e) ==
    /\ Edit(e)
    /\ touched' = touched \cup {q \in Syncers : sync[q].pc = "write" /\ EntryOf[Target(q)] = e}
    /\ rounds' = [p \in Syncers |-> 0]
    /\ UNCHANGED <<cfg, sync>>

------------------------------------------------------------------------------

Next ==
    \/ ReadStep /\ UNCHANGED mirrorVars
    \/ \E p \in Syncers :
          BeginMirror(p) \/ MirrorSource(p) \/ MirrorRead(p) \/ MirrorWrite(p) \/ MirrorBack(p)
    \/ \E e \in Entries : Rival(e)

Spec == Init /\ [][Next]_vars

------------------------------------------------------------------------------
(* What a mirror promises. *)

TypeOK ==
    /\ ReadTypeOK
    /\ cfg \in Seq(Mirrors)
    /\ sync \in [Syncers -> Sync]
    /\ calm \subseteq Fetchers \cup Syncers
    /\ touched \subseteq Syncers
    /\ rounds \in [Syncers -> 0..Len(cfg)]

\* A target is reported up to date, created or updated only while it holds the
\* value its source had when the mirror read it ("a write the backend
\* acknowledged but did not keep must not be reported as mirrored").
MirroredIsKept ==
    [][\A p \in Syncers :
          sync[p].pc \in {"read", "write", "back"} /\ sync'[p] # sync[p] /\ sync'[p].last = "synced" =>
              kv'[EntryOf[Target(p)]].val[KeyOf[Target(p)]] = sync[p].val]_vars

\* "Keys at the target path that the mirror did not write are kept", and what is
\* there but will not decode is not overwritten, unless another writer came
\* between the mirror's read of the entry and its write.
SiblingsAreKept ==
    [][\A p \in Syncers \ touched :
          sync[p].pc = "write" /\ sync'[p] # sync[p] =>
              LET e == EntryOf[Target(p)] IN
              /\ \A k \in Keys \ {KeyOf[Target(p)], SourceKey} : kv'[e].val[k] = kv[e].val[k]
              /\ kv[e].kind = "garbled" => kv'[e] = kv[e]]_vars

\* What a mirror writes is its key and nothing else, and what it says it wrote is
\* there.
TargetsAreHonest == MirroredIsKept /\ SiblingsAreKept

\* The `source` key of an entry names the one source of every mirror that writes
\* it, whatever the order and overlap of the commands: what a configuration that
\* loads guarantees (ConflictingSource: "records one origin").
MarkersNameTheOrigin ==
    \A i \in Indices(cfg) : \A t \in Indices(cfg[i].targets) :
        LET marker == kv[EntryOf[cfg[i].targets[t]]].val[SourceKey]
        IN marker \in Addresses => marker = cfg[i].source

\* Whether mirror j reads what mirror i writes.
Feeds(i, j) == \E t \in Indices(cfg[i].targets) : cfg[i].targets[t] = cfg[j].source

\* No mirror feeds itself through others: some order of the mirrors has every one
\* after those that feed it.
Acyclic ==
    \E rank \in [Indices(cfg) -> Indices(cfg)] :
        \A i, j \in Indices(cfg) : Feeds(i, j) => rank[i] < rank[j]

InSync ==
    \A i \in Indices(cfg) : \A t \in Indices(cfg[i].targets) :
        LET a == cfg[i].targets[t]
            b == cfg[i].source
        IN kv[EntryOf[a]].val[KeyOf[a]] = kv[EntryOf[b]].val[KeyOf[b]]

\* "Running it again converges": as many undisturbed successful applies in a row
\* as there are mirrors bring every target in line, mirrors that read what others
\* write included, and dry runs and partial ones in between do no harm.
ConvergesWhenQuiet ==
    \A p \in Syncers : rounds[p] >= Len(cfg) /\ Acyclic => InSync
=============================================================================
