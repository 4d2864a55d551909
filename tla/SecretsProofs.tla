---------------------------- MODULE SecretsProofs ----------------------------
(* Proofs that reading secrets by groups changes no answer, that a mirror       *)
(* writes its key and nothing else, that the markers it leaves name its source  *)
(* and that mirroring again and again brings every target in line, for any      *)
(* entries, addresses, mirrors and processes.                                   *)
EXTENDS SecretMirror, TLAPS

------------------------------------------------------------------------------
(* Entries and what they answer *)

(* What holds nothing has no key. *)
LEMMA BareIs ==
    ASSUME NEW kind
    PROVE  /\ Bare(kind).kind = kind /\ \A k \in Keys : Bare(kind).val[k] = NoValue
           /\ kind \in {"absent", "garbled"} => Bare(kind) \in Content
<1>1. NoValue \in Held
    BY DEF Held
<1>. QED
    BY <1>1 DEF Bare, Content

(* An entry that answers with a map, or that there is nothing, answers with
   what it holds. *)
LEMMA AnswerIs ==
    ASSUME kv \in [Entries -> Content], host \in [Entries -> HostStates],
           NEW e \in Entries, NEW answer \in RoundTrip(e)
    PROVE  /\ answer.kind \in {"down", "garbled", "absent", "map"}
           /\ answer.kind \in {"absent", "map"} => answer = kv[e] /\ answer = Steady(e) /\ answer \in Content
<1>1. kv[e] \in Content /\ kv[e].kind \in {"absent", "garbled", "map"}
    BY DEF Content
<1>2. answer = Steady(e) \/ answer = Bare("down")
    BY DEF RoundTrip
<1>3. Steady(e) \in {Bare("down"), Bare("garbled"), kv[e]}
    BY DEF Steady, HostStates
<1>4. Bare("down").kind = "down" /\ Bare("garbled").kind = "garbled"
    BY BareIs
<1>. QED
    BY <1>1, <1>2, <1>3, <1>4

------------------------------------------------------------------------------
(* Mirrors and the commands that run them *)

Working == {"read", "write", "back"}

(* A command works through mirrors that exist, at a target they have; one that
   runs all of them takes them in order. *)
Ready(s) ==
    /\ s \in Sync
    /\ s.pc # "off" =>
          /\ s.todo # <<>>
          /\ \A k \in 1..Len(s.todo) : s.todo[k] \in 1..Len(cfg)
          /\ s.all => \A k \in 1..Len(s.todo) : s.todo[k] = Len(cfg) - Len(s.todo) + k
    /\ s.pc \in Working => s.t \in 1..Len(cfg[Head(s.todo)].targets)

MirrorTyped ==
    /\ kv \in [Entries -> Content]
    /\ host \in [Entries -> HostStates]
    /\ cfg \in Seq(Mirrors) /\ Accepted(cfg)
    /\ sync \in [Syncers -> Sync]
    /\ calm \subseteq Fetchers \cup Syncers
    /\ touched \subseteq Syncers
    /\ rounds \in [Syncers -> 0..Len(cfg)]

\* What an address holds.
At(x) == kv[EntryOf[x]].val[KeyOf[x]]

\* Nobody else has written an entry since the process began, or since the first
\* of its rounds that count.
Undisturbed(p) == p \in calm \/ rounds[p] > 0

(* What a process is about to merge into is what the entry holds, unless
   another has written it in the meantime, and it has said nothing of the
   target yet. *)
SnapIsFresh(p) ==
    sync[p].pc = "write" =>
        /\ sync[p].snap.kind \in {"absent", "map"} /\ sync[p].last = "none"
        /\ p \notin touched => sync[p].snap = kv[EntryOf[Target(p)]]

\* No mirror copies the key where mirrors say where a value came from.
Plain == \A i \in 1..Len(cfg) : KeyOf[cfg[i].source] # SourceKey

(* What an undisturbed process carries is what its source holds, and what it
   has read is still there. *)
CarriesTheSource(p) ==
    Undisturbed(p) =>
        /\ sync[p].pc \in Working /\ Plain => sync[p].val = At(Mirror(p).source)
        /\ sync[p].pc = "write" => p \notin touched

SyncedAt(i) == \A t \in 1..Len(cfg[i].targets) : At(cfg[i].targets[t]) = At(cfg[i].source)

\* The orders of the mirrors in which each comes after those that feed it.
Ranks == {rank \in [1..Len(cfg) -> 1..Len(cfg)] :
             \A i, j \in 1..Len(cfg) : Feeds(i, j) => rank[i] < rank[j]}

\* The mirrors below `bound` of a rank up to n are in line.
InLine(n, bound) ==
    Plain => \A rank \in Ranks : \A i \in 1..Len(cfg) : rank[i] <= n /\ i < bound => SyncedAt(i)

(* So many rounds bring the mirrors up to that rank in line, and the round under
   way those of one rank more that it is done with. *)
RoundsCount(p) ==
    /\ InLine(rounds[p], Len(cfg) + 1)
    /\ sync[p].pc # "off" /\ sync[p].apply /\ sync[p].all /\ sync[p].ok /\ p \in calm =>
          InLine(rounds[p] + 1, Head(sync[p].todo))

(* The targets of the mirror under way that are done with hold its value. *)
TargetsHold(p) ==
    sync[p].pc \in Working /\ sync[p].apply /\ sync[p].ok /\ p \in calm =>
        \A u \in 1..Len(Mirror(p).targets) : u < sync[p].t => At(Mirror(p).targets[u]) = sync[p].val

Good(p) ==
    /\ Ready(sync[p]) /\ SnapIsFresh(p) /\ CarriesTheSource(p) /\ RoundsCount(p) /\ TargetsHold(p)

MirrorInv == MirrorTyped /\ \A p \in Syncers : Good(p)

(* The mirror and the target a process is at are among those declared. *)
LEMMA AtATarget ==
    ASSUME MirrorTyped, NEW p \in Syncers, Ready(sync[p]), sync[p].pc # "off"
    PROVE  /\ Head(sync[p].todo) \in 1..Len(cfg) /\ Head(sync[p].todo) = sync[p].todo[1]
           /\ Len(sync[p].todo) \in Nat /\ Len(sync[p].todo) >= 1
           /\ Mirror(p) = cfg[Head(sync[p].todo)] /\ Mirror(p) \in Mirrors
           /\ Mirror(p).source \in Addresses
           /\ sync[p].pc \in Working =>
                /\ sync[p].t \in 1..Len(Mirror(p).targets)
                /\ Target(p) = Mirror(p).targets[sync[p].t] /\ Target(p) \in Addresses
                /\ EntryOf[Target(p)] \in Writable /\ EntryOf[Target(p)] \in Entries
                /\ KeyOf[Target(p)] \in Keys /\ KeyOf[Target(p)] # SourceKey
                /\ Target(p) # Mirror(p).source
<1>1. /\ sync[p] \in Sync /\ sync[p].todo \in Seq(Nat) /\ sync[p].todo # <<>>
      /\ \A k \in 1..Len(sync[p].todo) : sync[p].todo[k] \in 1..Len(cfg)
    BY DEF Ready, Sync
<1>2. /\ Len(sync[p].todo) \in Nat /\ Len(sync[p].todo) >= 1
      /\ Head(sync[p].todo) = sync[p].todo[1]
    BY <1>1
<1>3. Head(sync[p].todo) \in 1..Len(cfg)
    BY <1>1, <1>2
<1>4. Mirror(p) = cfg[Head(sync[p].todo)] /\ Mirror(p) \in Mirrors
    BY <1>3 DEF Mirror, MirrorTyped
<1>5. Mirror(p).source \in Addresses /\ Mirror(p).targets \in Seq(Addresses)
    BY <1>4 DEF Mirrors
<1>6. ASSUME sync[p].pc \in Working
      PROVE  /\ sync[p].t \in 1..Len(Mirror(p).targets)
             /\ Target(p) = Mirror(p).targets[sync[p].t] /\ Target(p) \in Addresses
    BY <1>4, <1>5, <1>6 DEF Ready, Target
<1>7. ASSUME sync[p].pc \in Working
      PROVE  /\ EntryOf[Target(p)] \in Writable /\ KeyOf[Target(p)] # SourceKey /\ Target(p) # Mirror(p).source
    <2>1. /\ Head(sync[p].todo) \in Indices(cfg)
          /\ sync[p].t \in Indices(cfg[Head(sync[p].todo)].targets)
        BY <1>3, <1>4, <1>5, <1>6, <1>7 DEF Indices, MirrorTyped
    <2>2. \A i \in Indices(cfg) : \A t \in Indices(cfg[i].targets) :
             /\ EntryOf[cfg[i].targets[t]] \in Writable
             /\ cfg[i].targets[t] # cfg[i].source
             /\ KeyOf[cfg[i].targets[t]] # SourceKey
        BY DEF MirrorTyped, Accepted
    <2>. QED
        BY <1>4, <1>6, <1>7, <2>1, <2>2
<1>. QED
    BY <1>2, <1>3, <1>4, <1>5, <1>6, <1>7, ReadAssumption, MirrorAssumption

(* A declared target is an address in a backend trg writes, and not a marker. *)
LEMMA DeclaredTarget ==
    ASSUME MirrorTyped, NEW i \in 1..Len(cfg), NEW u \in 1..Len(cfg[i].targets)
    PROVE  /\ i \in Indices(cfg) /\ u \in Indices(cfg[i].targets)
           /\ cfg[i] \in Mirrors /\ cfg[i].source \in Addresses
           /\ cfg[i].targets[u] \in Addresses /\ KeyOf[cfg[i].targets[u]] # SourceKey
           /\ EntryOf[cfg[i].targets[u]] \in Writable /\ cfg[i].targets[u] # cfg[i].source
<1>1. cfg[i] \in Mirrors
    BY DEF MirrorTyped
<1>2. cfg[i].targets \in Seq(Addresses) /\ cfg[i].source \in Addresses
    BY <1>1 DEF Mirrors
<1>3. i \in Indices(cfg) /\ u \in Indices(cfg[i].targets) /\ cfg[i].targets[u] \in Addresses
    BY <1>2 DEF Indices, MirrorTyped
<1>. QED
    BY <1>1, <1>2, <1>3 DEF MirrorTyped, Accepted

(* Another target is another address: no address is declared twice. *)
LEMMA TargetsDiffer ==
    ASSUME MirrorTyped, NEW i \in 1..Len(cfg), NEW j \in 1..Len(cfg),
           NEW t \in 1..Len(cfg[i].targets), NEW u \in 1..Len(cfg[j].targets),
           cfg[i].targets[t] = cfg[j].targets[u]
    PROVE  i = j /\ t = u
<1>1. cfg[i] \in Mirrors /\ cfg[j] \in Mirrors
    BY DEF MirrorTyped
<1>2. cfg[i].targets \in Seq(Addresses) /\ cfg[j].targets \in Seq(Addresses)
    BY <1>1 DEF Mirrors
<1>3. i \in Indices(cfg) /\ j \in Indices(cfg) /\ t \in Indices(cfg[i].targets) /\ u \in Indices(cfg[j].targets)
    BY <1>2 DEF Indices, MirrorTyped
<1>. QED
    BY <1>3 DEF MirrorTyped, Accepted

------------------------------------------------------------------------------
(* How a command goes on *)

(* The mirror after this one, or the end. *)
LEMMA NextMirrorIs ==
    ASSUME MirrorTyped, NEW s, Ready(s), s.pc # "off"
    PROVE  /\ Ready(NextMirror(s))
           /\ NextMirror(s).ok = s.ok /\ NextMirror(s).last = s.last
           /\ NextMirror(s).pc \in {"off", "source"}
           /\ NextMirror(s).pc = "source" =>
                /\ NextMirror(s).apply = s.apply /\ NextMirror(s).all = s.all
                /\ s.all => Head(NextMirror(s).todo) = Head(s.todo) + 1
           /\ NextMirror(s).pc = "off" /\ s.all => Head(s.todo) = Len(cfg)
<1>1. s \in Sync /\ s.todo \in Seq(Nat)
    BY DEF Ready, Sync
<1>2. PICK todo \in Seq(Nat), n \in Nat : todo = s.todo /\ n = Len(cfg)
    BY <1>1 DEF MirrorTyped
<1>3. /\ todo # <<>>
      /\ \A k \in 1..Len(todo) : todo[k] \in 1..n
      /\ s.all => \A k \in 1..Len(todo) : todo[k] = n - Len(todo) + k
    BY <1>2 DEF Ready
<1>4. Len(todo) \in Nat /\ Len(todo) >= 1 /\ Head(todo) = todo[1]
    BY <1>3
<1>5. Bare("absent") \in Content /\ NoValue \in Held
    BY BareIs DEF Held
<1>6. CASE Len(todo) > 1
    <2>1. NextMirror(s) = [s EXCEPT !.pc = "source", !.todo = Tail(@), !.t = 0, !.val = NoValue, !.snap = Bare("absent")]
        BY <1>2, <1>6 DEF NextMirror
    <2>2. PICK rest \in Seq(Nat) : rest = Tail(todo)
        <3>1. Tail(todo) \in Seq(Nat)
            BY <1>3
        <3>. QED
            BY <3>1
    <2>3. Len(rest) = Len(todo) - 1 /\ \A k \in 1..Len(rest) : rest[k] = todo[k + 1]
        BY <1>3, <1>4, <2>2
    <2>4. rest # <<>> /\ Head(rest) = rest[1]
        BY <1>4, <1>6, <2>3
    <2>5. ASSUME NEW k \in 1..Len(rest) PROVE rest[k] \in 1..n
        <3>1. k + 1 \in 1..Len(todo)
            BY <1>4, <2>3
        <3>. QED
            BY <1>3, <2>3, <3>1
    <2>6. ASSUME s.all, NEW k \in 1..Len(rest) PROVE rest[k] = n - Len(rest) + k
        <3>1. k + 1 \in 1..Len(todo)
            BY <1>4, <2>3
        <3>2. rest[k] = n - Len(todo) + (k + 1)
            BY <1>3, <2>3, <2>6, <3>1
        <3>. QED
            BY <1>4, <2>3, <3>2
    <2>7. s.all => Head(rest) = Head(todo) + 1
        <3>1. 1 \in 1..Len(rest) /\ 1 \in 1..Len(todo)
            BY <1>4, <1>6, <2>3
        <3>2. s.all => rest[1] = n - Len(rest) + 1
            BY <2>6, <3>1
        <3>3. s.all => todo[1] = n - Len(todo) + 1
            BY <1>3, <3>1
        <3>. QED
            BY <1>4, <2>3, <2>4, <3>2, <3>3
    <2>8. /\ NextMirror(s) \in Sync /\ NextMirror(s).pc = "source" /\ NextMirror(s).todo = rest
          /\ NextMirror(s).apply = s.apply /\ NextMirror(s).all = s.all
          /\ NextMirror(s).ok = s.ok /\ NextMirror(s).last = s.last
        <3>1. NextMirror(s) = [s EXCEPT !.pc = "source", !.todo = rest, !.t = 0, !.val = NoValue, !.snap = Bare("absent")]
            BY <1>2, <2>1, <2>2
        <3>. HIDE DEF NextMirror
        <3>2. PICK none \in Held, bare \in Content : none = NoValue /\ bare = Bare("absent")
            BY <1>5
        <3>3. NextMirror(s) = [s EXCEPT !.pc = "source", !.todo = rest, !.t = 0, !.val = none, !.snap = bare]
            BY <3>1, <3>2
        <3>4. s = [pc |-> s.pc, apply |-> s.apply, all |-> s.all, todo |-> s.todo, t |-> s.t, val |-> s.val,
                   snap |-> s.snap, ok |-> s.ok, last |-> s.last]
            BY <1>1 DEF Sync
        <3>5. NextMirror(s) = [pc |-> "source", apply |-> s.apply, all |-> s.all, todo |-> rest, t |-> 0, val |-> none,
                               snap |-> bare, ok |-> s.ok, last |-> s.last]
            BY <3>3, <3>4
        <3>6. /\ s.apply \in BOOLEAN /\ s.all \in BOOLEAN /\ s.ok \in BOOLEAN
              /\ s.last \in {"none", "synced", "drift", "failed"}
            BY <1>1 DEF Sync
        <3>. QED
            BY <3>5, <3>6 DEF Sync
    <2>. QED
        BY <1>2, <2>4, <2>5, <2>6, <2>7, <2>8 DEF Ready, Working
<1>7. CASE ~(Len(todo) > 1)
    <2>1. NextMirror(s) = [NoSync EXCEPT !.ok = s.ok, !.last = s.last]
        BY <1>2, <1>7 DEF NextMirror
    <2>2. NoSync \in Sync
        BY <1>5 DEF NoSync, Sync
    <2>3. /\ NextMirror(s) \in Sync /\ NextMirror(s).pc = "off"
          /\ NextMirror(s).ok = s.ok /\ NextMirror(s).last = s.last
        BY <1>1, <2>1, <2>2 DEF NoSync, Sync
    <2>4. s.all => Head(todo) = n
        <3>1. Len(todo) = 1
            <4>1. PICK m \in Nat : m = Len(todo)
                BY <1>4
            <4>. QED
                BY <1>4, <1>7, <4>1
        <3>. QED
            BY <1>3, <1>4, <3>1
    <2>. QED
        BY <1>2, <2>3, <2>4 DEF Ready, Working
<1>. QED
    BY <1>6, <1>7

(* The next target of the mirror, the next mirror, or the end. *)
LEMMA OutcomeIs ==
    ASSUME MirrorTyped, NEW p \in Syncers, Ready(sync[p]), sync[p].pc \in Working,
           NEW last \in {"none", "synced", "drift", "failed"}
    PROVE  /\ Ready(Outcome(p, last))
           /\ Outcome(p, last).ok <=> sync[p].ok /\ last # "failed"
           /\ Outcome(p, last).last = last
           /\ Outcome(p, last).pc \in {"off", "source", "read"}
           /\ Outcome(p, last).pc = "read" =>
                /\ Outcome(p, last).t = sync[p].t + 1
                /\ Outcome(p, last).todo = sync[p].todo /\ Outcome(p, last).val = sync[p].val
           /\ Outcome(p, last).pc # "off" =>
                Outcome(p, last).apply = sync[p].apply /\ Outcome(p, last).all = sync[p].all
           /\ Outcome(p, last).pc # "read" => sync[p].t = Len(Mirror(p).targets)
           /\ Outcome(p, last).pc = "source" /\ sync[p].all => Head(Outcome(p, last).todo) = Head(sync[p].todo) + 1
           /\ Outcome(p, last).pc = "off" /\ sync[p].all => Head(sync[p].todo) = Len(cfg)
<1>1. sync[p] \in Sync /\ sync[p].pc # "off"
    BY DEF Ready, Working
<1>2. PICK ok \in BOOLEAN : ok = (sync[p].ok /\ last # "failed")
    BY <1>1, Zenon DEF Sync
<1>3. PICK s : s = [sync[p] EXCEPT !.last = last, !.ok = ok]
    OBVIOUS
<1>4. Outcome(p, last) = IF s.t < Len(Mirror(p).targets)
                         THEN [s EXCEPT !.pc = "read", !.t = @ + 1, !.snap = Bare("absent")]
                         ELSE NextMirror(s)
    <2>1. s = [sync[p] EXCEPT !.last = last, !.ok = @ /\ last # "failed"]
        BY <1>2, <1>3, Zenon
    <2>. QED
        BY <2>1, Zenon DEF Outcome
<1>5. /\ sync[p] = [pc |-> sync[p].pc, apply |-> sync[p].apply, all |-> sync[p].all, todo |-> sync[p].todo,
                    t |-> sync[p].t, val |-> sync[p].val, snap |-> sync[p].snap, ok |-> sync[p].ok,
                    last |-> sync[p].last]
      /\ sync[p].apply \in BOOLEAN /\ sync[p].all \in BOOLEAN /\ sync[p].todo \in Seq(Nat)
      /\ sync[p].t \in Nat /\ sync[p].val \in Held /\ sync[p].snap \in Content
    BY <1>1 DEF Sync
<1>6. s = [pc |-> sync[p].pc, apply |-> sync[p].apply, all |-> sync[p].all, todo |-> sync[p].todo,
           t |-> sync[p].t, val |-> sync[p].val, snap |-> sync[p].snap, ok |-> ok, last |-> last]
    BY <1>3, <1>5
<1>7. s \in Sync
    BY <1>1, <1>2, <1>5, <1>6 DEF Sync
<1>8. /\ s.pc = sync[p].pc /\ s.apply = sync[p].apply /\ s.all = sync[p].all /\ s.todo = sync[p].todo
      /\ s.t = sync[p].t /\ s.val = sync[p].val /\ s.ok = ok /\ s.last = last
    BY <1>6
<1>9. Ready(s)
    BY <1>1, <1>7, <1>8 DEF Ready
<1>10. ok <=> sync[p].ok /\ last # "failed"
    BY <1>2, Zenon
<1>11. /\ Mirror(p) = cfg[Head(sync[p].todo)] /\ Mirror(p) \in Mirrors
       /\ sync[p].t \in 1..Len(Mirror(p).targets) /\ Len(Mirror(p).targets) \in Nat
    <2>1. /\ Mirror(p) = cfg[Head(sync[p].todo)] /\ Mirror(p) \in Mirrors
          /\ sync[p].t \in 1..Len(Mirror(p).targets)
        BY <1>1, AtATarget
    <2>2. Len(Mirror(p).targets) \in Nat
        BY <2>1 DEF Mirrors
    <2>. QED
        BY <2>1, <2>2
<1>12. CASE s.t < Len(Mirror(p).targets)
    <2>1. PICK bare \in Content : bare = Bare("absent")
        BY BareIs
    <2>2. Outcome(p, last) = [s EXCEPT !.pc = "read", !.t = sync[p].t + 1, !.snap = bare]
        BY <1>4, <1>8, <1>12, <2>1
    <2>3. Outcome(p, last) = [pc |-> "read", apply |-> sync[p].apply, all |-> sync[p].all, todo |-> sync[p].todo,
                              t |-> sync[p].t + 1, val |-> sync[p].val, snap |-> bare, ok |-> ok, last |-> last]
        BY <1>6, <2>2
    <2>4. Outcome(p, last) \in Sync
        BY <1>2, <1>5, <2>3 DEF Sync
    <2>5. /\ Outcome(p, last).pc = "read" /\ Outcome(p, last).t = sync[p].t + 1
          /\ Outcome(p, last).todo = sync[p].todo /\ Outcome(p, last).val = sync[p].val
          /\ Outcome(p, last).apply = sync[p].apply /\ Outcome(p, last).all = sync[p].all
          /\ Outcome(p, last).ok = ok /\ Outcome(p, last).last = last
        BY <2>3
    <2>6. sync[p].t + 1 \in 1..Len(cfg[Head(sync[p].todo)].targets)
        BY <1>8, <1>11, <1>12
    <2>7. Ready(Outcome(p, last))
        BY <1>1, <2>4, <2>5, <2>6 DEF Ready
    <2>. QED
        BY <1>10, <2>5, <2>7
<1>13. CASE ~(s.t < Len(Mirror(p).targets))
    <2>1. Outcome(p, last) = NextMirror(s)
        BY <1>4, <1>13
    <2>2. sync[p].t = Len(Mirror(p).targets)
        BY <1>8, <1>11, <1>13
    <2>3. /\ Ready(NextMirror(s))
          /\ NextMirror(s).ok = s.ok /\ NextMirror(s).last = s.last
          /\ NextMirror(s).pc \in {"off", "source"}
          /\ NextMirror(s).pc = "source" =>
               /\ NextMirror(s).apply = s.apply /\ NextMirror(s).all = s.all
               /\ s.all => Head(NextMirror(s).todo) = Head(s.todo) + 1
          /\ NextMirror(s).pc = "off" /\ s.all => Head(s.todo) = Len(cfg)
        BY <1>1, <1>8, <1>9, NextMirrorIs
    <2>. QED
        BY <1>8, <1>10, <2>1, <2>2, <2>3
<1>. QED
    BY <1>12, <1>13

------------------------------------------------------------------------------
(* Steps that write nothing *)

(* A state s that process p may go to without a write. *)
Sound(p, s) ==
    /\ Ready(s)
    /\ s.pc = "write" =>
          /\ s.snap.kind \in {"absent", "map"} /\ s.last = "none"
          /\ s.snap = kv[EntryOf[cfg[Head(s.todo)].targets[s.t]]]
    /\ s.pc \in Working /\ Plain /\ Undisturbed(p) => s.val = At(cfg[Head(s.todo)].source)
    /\ s.pc # "off" /\ s.apply /\ s.all /\ s.ok /\ p \in calm => InLine(rounds[p] + 1, Head(s.todo))
    /\ s.pc = "off" /\ s.ok /\ p \in calm /\ sync[p].apply /\ sync[p].all => InLine(rounds[p] + 1, Len(cfg) + 1)
    /\ s.pc \in Working /\ s.apply /\ s.ok /\ p \in calm =>
          \A u \in 1..Len(cfg[Head(s.todo)].targets) : u < s.t => At(cfg[Head(s.todo)].targets[u]) = s.val

(* A process that does not move stays as good as it was where nothing is written. *)
LEMMA OthersKeep ==
    ASSUME MirrorInv, NEW q \in Syncers,
           kv' = kv, cfg' = cfg, sync'[q] = sync[q], rounds'[q] = rounds[q],
           q \in calm' <=> q \in calm, q \in touched' <=> q \in touched
    PROVE  Good(q)'
<1>1. Good(q)
    BY DEF MirrorInv
<1>2. Ready(sync[q])' /\ SnapIsFresh(q)'
    BY <1>1 DEF Good, Ready, SnapIsFresh, Target, Mirror
<1>3. CarriesTheSource(q)' /\ TargetsHold(q)'
    BY <1>1 DEF Good, CarriesTheSource, Undisturbed, Plain, TargetsHold, At, Mirror
<1>4. \A n, b : InLine(n, b)' <=> InLine(n, b)
    BY DEF InLine, Plain, Ranks, SyncedAt, At, Feeds, Indices
<1>5. RoundsCount(q)'
    BY <1>1, <1>4 DEF Good, RoundsCount
<1>. QED
    BY <1>2, <1>3, <1>5 DEF Good

(* What a claim on the mirrors in line means where nothing is written. *)
LEMMA InLineStays ==
    ASSUME kv' = kv, cfg' = cfg
    PROVE  \A n, b : InLine(n, b)' <=> InLine(n, b)
BY DEF InLine, Plain, Ranks, SyncedAt, At, Feeds, Indices

(* A longer claim includes a shorter one. *)
LEMMA InLineShorter ==
    ASSUME NEW n \in Nat, NEW m \in Nat, m <= n, cfg \in Seq(Mirrors), NEW b \in Nat, InLine(n, b)
    PROVE  InLine(m, b)
<1>1. ASSUME Plain, NEW rank \in Ranks, NEW i \in 1..Len(cfg), rank[i] <= m, i < b
      PROVE  SyncedAt(i)
    <2>1. rank[i] \in Nat
        BY <1>1 DEF Ranks
    <2>2. rank[i] <= n
        BY <1>1, <2>1
    <2>. QED
        BY <1>1, <2>2 DEF InLine
<1>. QED
    BY <1>1 DEF InLine

(* A process goes where it may without a write. *)
LEMMA MoveKeeps ==
    ASSUME MirrorInv, NEW p \in Syncers, NEW s, Sound(p, s), sync' = [sync EXCEPT ![p] = s],
           kv' = kv, host' = host, cfg' = cfg,
           calm' = calm \/ calm' = calm \ {p},
           touched' = touched \/ touched' = touched \ {p},
           s.pc = "write" => p \notin touched',
           rounds' \in [Syncers -> 0..Len(cfg)],
           \A q \in Syncers : q # p => rounds'[q] = rounds[q],
           \/ rounds'[p] = rounds[p]
           \/ rounds'[p] = 0 /\ (s.pc = "off" \/ ~s.ok)
           \/ rounds'[p] = rounds[p] + 1 /\ s.pc = "off" /\ s.ok /\ p \in calm /\ sync[p].apply /\ sync[p].all
    PROVE  MirrorInv'
<1>1. MirrorTyped /\ Good(p) /\ s \in Sync /\ Ready(s)
    BY DEF MirrorInv, Sound, Ready
<1>2. sync' = [sync EXCEPT ![p] = s] /\ sync'[p] = s /\ \A q \in Syncers : q # p => sync'[q] = sync[q]
    BY <1>1 DEF MirrorTyped
<1>3. PICK n \in Nat : n = Len(cfg)
    BY <1>1 DEF MirrorTyped
<1>4. rounds \in [Syncers -> 0..n] /\ rounds[p] \in 0..n
    BY <1>1, <1>3 DEF MirrorTyped
<1>5. /\ rounds' \in [Syncers -> 0..n] /\ \A q \in Syncers : q # p => rounds'[q] = rounds[q]
      /\ s.pc # "off" => rounds'[p] \in {0, rounds[p]}
      /\ s.pc # "off" /\ s.ok => rounds'[p] = rounds[p]
      /\ \/ rounds'[p] = 0 \/ rounds'[p] = rounds[p]
         \/ rounds'[p] = rounds[p] + 1 /\ s.pc = "off" /\ s.ok /\ p \in calm /\ sync[p].apply /\ sync[p].all
    BY <1>3
<1>6. MirrorTyped'
    <2>1. sync' \in [Syncers -> Sync]
        BY <1>1, <1>2 DEF MirrorTyped
    <2>2. Accepted(cfg)'
        BY <1>1 DEF MirrorTyped
    <2>. QED
        BY <1>1, <1>3, <1>5, <2>1, <2>2 DEF MirrorTyped
<1>7. Undisturbed(p)' /\ s.pc # "off" => Undisturbed(p)
    BY <1>4, <1>5 DEF Undisturbed
<1>8. Ready(sync[p])'
    BY <1>1, <1>2 DEF Ready
<1>9. SnapIsFresh(p)'
    BY <1>2 DEF SnapIsFresh, Sound, Target, Mirror
<1>10. CarriesTheSource(p)'
    BY <1>2, <1>7 DEF CarriesTheSource, Sound, Plain, Mirror, At, Working
<1>11. TargetsHold(p)'
    <2>1. ASSUME s.pc \in Working, s.apply, s.ok, p \in calm',
                 NEW u \in 1..Len(cfg[Head(s.todo)].targets), u < s.t
          PROVE  At(cfg[Head(s.todo)].targets[u]) = s.val
        BY <2>1 DEF Sound
    <2>. QED
        BY <1>2, <2>1 DEF TargetsHold, Mirror, At
<1>12. RoundsCount(p)'
    <2>1. InLine(rounds[p], n + 1)
        BY <1>1, <1>3 DEF Good, RoundsCount
    <2>2. InLine(rounds'[p], n + 1)
        <3>1. CASE rounds'[p] = rounds[p]
            BY <2>1, <3>1
        <3>2. CASE rounds'[p] = 0
            <4>1. 0 \in Nat /\ rounds[p] \in Nat /\ 0 <= rounds[p] /\ n + 1 \in Nat
                BY <1>4
            <4>2. InLine(0, n + 1)
                BY <1>1, <2>1, <4>1, InLineShorter DEF MirrorTyped
            <4>. QED
                BY <3>2, <4>2
        <3>3. CASE /\ s.pc = "off" /\ rounds'[p] = rounds[p] + 1 /\ s.ok /\ p \in calm
                   /\ sync[p].apply /\ sync[p].all
            BY <1>3, <3>3 DEF Sound
        <3>. QED
            BY <1>5, <3>1, <3>2, <3>3
    <2>3. PICK m : m = rounds'[p]
        OBVIOUS
    <2>4. InLine(m, n + 1)'
        BY <2>2, <2>3, InLineStays
    <2>5. ASSUME s.pc # "off", s.apply, s.all, s.ok, p \in calm'
          PROVE  InLine(m + 1, Head(s.todo))'
        <3>1. InLine(rounds[p] + 1, Head(s.todo))
            BY <2>5 DEF Sound
        <3>2. PICK k, h : k = rounds[p] + 1 /\ h = Head(s.todo)
            OBVIOUS
        <3>3. InLine(k, h)'
            BY <3>1, <3>2, InLineStays
        <3>. QED
            BY <1>5, <2>3, <2>5, <3>2, <3>3
    <2>. QED
        BY <1>2, <1>3, <2>3, <2>4, <2>5 DEF RoundsCount
<1>13. Good(p)'
    BY <1>8, <1>9, <1>10, <1>11, <1>12 DEF Good
<1>14. ASSUME NEW q \in Syncers, q # p PROVE Good(q)'
    <2>1. (q \in calm' <=> q \in calm) /\ (q \in touched' <=> q \in touched)
        BY <1>14
    <2>. QED
        BY <1>2, <1>5, <1>14, <2>1, OthersKeep
<1>. QED
    BY <1>6, <1>13, <1>14 DEF MirrorInv

(* A process goes where it may, and its round counts when it should. *)
LEMMA QuietKeeps ==
    ASSUME MirrorInv, NEW p \in Syncers, NEW s, Sound(p, s), Becomes(p, s),
           kv' = kv, host' = host, cfg' = cfg,
           calm' = calm \/ calm' = calm \ {p},
           touched' = touched \/ touched' = touched \ {p},
           s.pc = "write" => p \notin touched'
    PROVE  MirrorInv'
<1>1. PICK n \in Nat : n = Len(cfg)
    BY DEF MirrorInv, MirrorTyped
<1>2. rounds \in [Syncers -> 0..n] /\ rounds[p] \in 0..n
    BY <1>1 DEF MirrorInv, MirrorTyped
<1>3. sync' = [sync EXCEPT ![p] = s]
    BY DEF Becomes
<1>4. /\ rounds' \in [Syncers -> 0..n] /\ \A q \in Syncers : q # p => rounds'[q] = rounds[q]
      /\ \/ rounds'[p] = rounds[p]
         \/ rounds'[p] = 0 /\ s.pc = "off"
         \/ rounds'[p] = rounds[p] + 1 /\ s.pc = "off" /\ s.ok /\ p \in calm /\ sync[p].apply /\ sync[p].all
    <2>1. CASE s.pc # "off"
        BY <1>2, <2>1 DEF Becomes
    <2>2. CASE s.pc = "off" /\ (~s.ok \/ p \notin calm')
        <3>1. rounds' = [rounds EXCEPT ![p] = 0]
            BY <2>2 DEF Becomes
        <3>. QED
            BY <1>2, <2>2, <3>1
    <2>3. CASE s.pc = "off" /\ s.ok /\ p \in calm' /\ sync[p].apply /\ sync[p].all /\ rounds[p] < n
        <3>1. rounds' = [rounds EXCEPT ![p] = rounds[p] + 1]
            BY <1>1, <2>3 DEF Becomes
        <3>. QED
            BY <1>2, <2>3, <3>1
    <2>4. CASE s.pc = "off" /\ s.ok /\ p \in calm' /\ ~(sync[p].apply /\ sync[p].all /\ rounds[p] < n)
        <3>1. rounds' = [rounds EXCEPT ![p] = rounds[p]]
            BY <1>1, <2>4 DEF Becomes
        <3>. QED
            BY <1>2, <2>4, <3>1
    <2>. QED
        BY <2>1, <2>2, <2>3, <2>4
<1>. QED
    BY <1>1, <1>3, <1>4, MoveKeeps

(* A target that was seen to hold the value, was only looked at, or failed. *)
LEMMA OutcomeSound ==
    ASSUME MirrorInv, NEW p \in Syncers, sync[p].pc \in Working,
           NEW last \in {"none", "synced", "drift", "failed"},
           last = "synced" /\ sync[p].apply => At(Target(p)) = sync[p].val,
           last = "failed" \/ last = "synced" \/ ~sync[p].apply
    PROVE  Sound(p, Outcome(p, last))
<1>1. MirrorTyped /\ Good(p) /\ Ready(sync[p]) /\ sync[p].pc # "off"
    BY DEF MirrorInv, Good, Working
<1>2. PICK o : o = Outcome(p, last)
    OBVIOUS
<1>3. /\ Ready(o)
      /\ o.ok <=> sync[p].ok /\ last # "failed"
      /\ o.pc \in {"off", "source", "read"}
      /\ o.pc = "read" => o.t = sync[p].t + 1 /\ o.todo = sync[p].todo /\ o.val = sync[p].val
      /\ o.pc # "off" => o.apply = sync[p].apply /\ o.all = sync[p].all
      /\ o.pc # "read" => sync[p].t = Len(Mirror(p).targets)
      /\ o.pc = "source" /\ sync[p].all => Head(o.todo) = Head(sync[p].todo) + 1
      /\ o.pc = "off" /\ sync[p].all => Head(sync[p].todo) = Len(cfg)
    BY <1>1, <1>2, OutcomeIs
<1>4. /\ Head(sync[p].todo) \in 1..Len(cfg) /\ Mirror(p) = cfg[Head(sync[p].todo)] /\ Mirror(p) \in Mirrors
      /\ sync[p].t \in 1..Len(Mirror(p).targets) /\ Target(p) = Mirror(p).targets[sync[p].t]
    BY <1>1, AtATarget
<1>5. PICK h \in Nat, n \in Nat : h = Head(sync[p].todo) /\ n = Len(cfg) /\ h \in 1..n
    <2>1. Len(cfg) \in Nat
        BY <1>1 DEF MirrorTyped
    <2>2. Head(sync[p].todo) \in Nat
        BY <1>4, <2>1
    <2>. QED
        BY <1>4, <2>1, <2>2
<1>6. Plain /\ Undisturbed(p) => sync[p].val = At(Mirror(p).source)
    BY <1>1 DEF Good, CarriesTheSource
<1>7. ASSUME sync[p].apply, o.ok, p \in calm, NEW u \in 1..Len(Mirror(p).targets), u <= sync[p].t
      PROVE  At(Mirror(p).targets[u]) = sync[p].val
    <2>1. last = "synced" /\ sync[p].ok
        BY <1>3, <1>7
    <2>2. CASE u = sync[p].t
        BY <1>4, <1>7, <2>1, <2>2
    <2>3. CASE u # sync[p].t
        <3>1. u < sync[p].t
            BY <1>4, <1>7, <2>3
        <3>. QED
            BY <1>1, <1>7, <2>1, <3>1 DEF Good, TargetsHold
    <2>. QED
        BY <2>2, <2>3
<1>8. ASSUME Plain, sync[p].apply, o.ok, p \in calm, o.pc # "read"
      PROVE  SyncedAt(h)
    <2>1. sync[p].t = Len(Mirror(p).targets) /\ Undisturbed(p)
        BY <1>3, <1>8 DEF Undisturbed
    <2>2. ASSUME NEW u \in 1..Len(Mirror(p).targets) PROVE At(Mirror(p).targets[u]) = At(Mirror(p).source)
        <3>1. u <= sync[p].t
            BY <1>4, <2>1
        <3>. QED
            BY <1>6, <1>7, <1>8, <2>1, <3>1
    <2>. QED
        BY <1>4, <1>5, <2>2 DEF SyncedAt
<1>9. sync[p].apply /\ sync[p].all /\ o.ok /\ p \in calm => InLine(rounds[p] + 1, h)
    BY <1>1, <1>3, <1>5 DEF Good, RoundsCount
<1>10. ASSUME sync[p].apply, sync[p].all, o.ok, p \in calm, o.pc # "read"
       PROVE  InLine(rounds[p] + 1, h + 1)
    <2>1. ASSUME Plain, NEW rank \in Ranks, NEW i \in 1..Len(cfg), rank[i] <= rounds[p] + 1, i < h + 1
          PROVE  SyncedAt(i)
        <3>1. CASE i = h
            BY <1>8, <1>10, <2>1, <3>1
        <3>2. CASE i # h
            <4>1. i < h
                BY <1>5, <2>1, <3>2
            <4>. QED
                BY <1>9, <1>10, <2>1, <4>1 DEF InLine
        <3>. QED
            BY <3>1, <3>2
    <2>. QED
        BY <2>1 DEF InLine
<1>11. Sound(p, o)
    <2>1. o.pc # "write" /\ (o.pc \in Working => o.pc = "read")
        BY <1>3 DEF Working
    <2>2. o.pc \in Working /\ Plain /\ Undisturbed(p) => o.val = At(cfg[Head(o.todo)].source)
        BY <1>3, <1>4, <1>6, <2>1
    <2>3. o.pc # "off" /\ o.apply /\ o.all /\ o.ok /\ p \in calm => InLine(rounds[p] + 1, Head(o.todo))
        <3>1. CASE o.pc = "read"
            BY <1>3, <1>5, <1>9, <3>1
        <3>2. CASE o.pc = "source"
            BY <1>3, <1>5, <1>10, <3>2
        <3>. QED
            BY <1>3, <3>1, <3>2
    <2>4. o.pc = "off" /\ o.ok /\ p \in calm /\ sync[p].apply /\ sync[p].all => InLine(rounds[p] + 1, Len(cfg) + 1)
        BY <1>3, <1>5, <1>10
    <2>5. ASSUME o.pc \in Working, o.apply, o.ok, p \in calm,
                 NEW u \in 1..Len(cfg[Head(o.todo)].targets), u < o.t
          PROVE  At(cfg[Head(o.todo)].targets[u]) = o.val
        <3>1. /\ o.pc = "read" /\ o.t = sync[p].t + 1 /\ o.todo = sync[p].todo /\ o.val = sync[p].val
              /\ sync[p].apply
            BY <1>3, <2>1, <2>5
        <3>2. u \in 1..Len(Mirror(p).targets) /\ u <= sync[p].t
            BY <1>4, <2>5, <3>1
        <3>. QED
            BY <1>4, <1>7, <2>5, <3>1, <3>2
    <2>. QED
        BY <1>3, <2>1, <2>2, <2>3, <2>4, <2>5 DEF Sound
<1>. QED
    BY <1>2, <1>11

(* The target read, for what MirrorRead and MirrorBack ask of it. *)
LEMMA ReadKeeps ==
    ASSUME MirrorInv, NEW p \in Syncers, MirrorRead(p) \/ MirrorBack(p)
    PROVE  MirrorInv'
<1>1. /\ MirrorTyped /\ Good(p) /\ Ready(sync[p]) /\ sync[p].pc \in Working /\ sync[p].pc # "off" /\ sync[p].pc # "write"
      /\ kv' = kv /\ host' = host /\ cfg' = cfg
    BY DEF MirrorInv, Good, Working, MirrorRead, MirrorBack
<1>2. PICK e, key : e = EntryOf[Target(p)] /\ key = KeyOf[Target(p)] /\ e \in Entries
    BY <1>1, AtATarget
<1>3. At(Target(p)) = kv[e].val[key]
    BY <1>2 DEF At
<1>4. CASE MirrorBack(p)
    <2>1. PICK answer \in RoundTrip(e) :
             /\ Seen(p, e, answer)
             /\ Becomes(p, Outcome(p, IF answer.kind = "map" /\ UpToDate(answer, key, sync[p].val)
                                      THEN "synced" ELSE "failed"))
        BY <1>2, <1>4 DEF MirrorBack
    <2>2. touched' = touched /\ (calm' = calm \/ calm' = calm \ {p})
        BY <1>4, <2>1 DEF MirrorBack, Seen
    <2>3. PICK last \in {"synced", "failed"} :
             /\ Becomes(p, Outcome(p, last))
             /\ last = "synced" => answer.kind = "map" /\ answer.val[key] = sync[p].val
        BY <2>1 DEF UpToDate
    <2>4. last = "synced" => At(Target(p)) = sync[p].val
        BY <1>1, <1>2, <1>3, <2>3, AnswerIs DEF MirrorTyped
    <2>5. Sound(p, Outcome(p, last))
        BY <1>1, <2>4, OutcomeSound
    <2>6. Outcome(p, last).pc # "write"
        BY <1>1, OutcomeIs
    <2>. QED
        BY <1>1, <2>2, <2>3, <2>5, <2>6, QuietKeeps
<1>5. CASE MirrorRead(p)
    <2>1. PICK answer \in RoundTrip(e) :
          /\ Seen(p, e, answer)
          /\ touched' = touched \ {p}
          /\ CASE answer.kind \in {"down", "garbled"} -> Becomes(p, Outcome(p, "failed"))
               [] answer.kind \in {"absent", "map"} /\ UpToDate(answer, key, sync[p].val) ->
                     Becomes(p, Outcome(p, "synced"))
               [] answer.kind \in {"absent", "map"} /\ ~UpToDate(answer, key, sync[p].val) ->
                     IF sync[p].apply
                     THEN Becomes(p, [sync[p] EXCEPT !.pc = "write", !.snap = answer, !.last = "none"])
                     ELSE Becomes(p, Outcome(p, "drift"))
        BY <1>2, <1>5 DEF MirrorRead
    <2>2. touched' = touched \ {p} /\ (calm' = calm \/ calm' = calm \ {p})
        BY <2>1 DEF Seen
    <2>3. /\ answer.kind \in {"down", "garbled", "absent", "map"}
          /\ answer.kind \in {"absent", "map"} => answer = kv[e] /\ answer \in Content
        BY <1>1, <1>2, AnswerIs DEF MirrorTyped
    <2>4. ASSUME NEW last \in {"synced", "drift", "failed"}, Becomes(p, Outcome(p, last)),
                 last = "synced" => At(Target(p)) = sync[p].val,
                 last = "drift" => ~sync[p].apply
          PROVE  MirrorInv'
        <3>1. Sound(p, Outcome(p, last))
            BY <1>1, <2>4, OutcomeSound
        <3>2. Outcome(p, last).pc # "write"
            BY <1>1, OutcomeIs
        <3>. QED
            BY <1>1, <2>2, <2>4, <3>1, <3>2, QuietKeeps
    <2>5. CASE answer.kind \in {"down", "garbled"}
        <3>1. Becomes(p, Outcome(p, "failed"))
            BY <2>1, <2>5
        <3>. QED
            BY <2>4, <3>1
    <2>6. CASE answer.kind \in {"absent", "map"} /\ UpToDate(answer, key, sync[p].val)
        <3>1. Becomes(p, Outcome(p, "synced"))
            BY <2>1, <2>6
        <3>2. At(Target(p)) = sync[p].val
            BY <1>3, <2>3, <2>6 DEF UpToDate
        <3>. QED
            BY <2>4, <3>1, <3>2
    <2>7. CASE answer.kind \in {"absent", "map"} /\ ~UpToDate(answer, key, sync[p].val) /\ ~sync[p].apply
        <3>1. Becomes(p, Outcome(p, "drift"))
            BY <2>1, <2>7
        <3>. QED
            BY <2>4, <2>7, <3>1
    <2>8. CASE answer.kind \in {"absent", "map"} /\ ~UpToDate(answer, key, sync[p].val) /\ sync[p].apply
        <3>1. PICK s : s = [sync[p] EXCEPT !.pc = "write", !.snap = answer, !.last = "none"]
            OBVIOUS
        <3>2. Becomes(p, s)
            BY <2>1, <2>8, <3>1
        <3>3. /\ s.pc = "write" /\ s.snap = answer /\ s.todo = sync[p].todo /\ s.t = sync[p].t /\ s.val = sync[p].val
              /\ s.apply = sync[p].apply /\ s.all = sync[p].all /\ s.ok = sync[p].ok
              /\ s.last = "none" /\ s \in Sync
            BY <1>1, <2>3, <2>8, <3>1 DEF Ready, Sync
        <3>4. Ready(s)
            BY <1>1, <3>3 DEF Ready, Working
        <3>5. Sound(p, s)
            BY <1>1, <1>2, <2>3, <2>8, <3>3, <3>4, AtATarget, ZenonT(60)
               DEF Sound, Good, CarriesTheSource, RoundsCount, TargetsHold, Mirror, Target, Working
        <3>. QED
            BY <1>1, <2>2, <3>2, <3>5, QuietKeeps
    <2>. QED
        BY <2>3, <2>5, <2>6, <2>7, <2>8
<1>. QED
    BY <1>4, <1>5
(* The source read: what it holds is carried to the targets, and a mirror whose
   source cannot be read is over. *)
LEMMA SourceKeeps ==
    ASSUME MirrorInv, NEW p \in Syncers, MirrorSource(p)
    PROVE  MirrorInv'
<1>1. /\ MirrorTyped /\ Good(p) /\ Ready(sync[p]) /\ sync[p] \in Sync /\ sync[p].pc = "source"
      /\ kv' = kv /\ host' = host /\ cfg' = cfg /\ touched' = touched
    BY DEF MirrorInv, Good, Ready, MirrorSource
<1>2. /\ Head(sync[p].todo) \in 1..Len(cfg) /\ Mirror(p) = cfg[Head(sync[p].todo)] /\ Mirror(p) \in Mirrors
      /\ Mirror(p).source \in Addresses
    BY <1>1, AtATarget
<1>3. PICK a \in Addresses, e \in Entries, key \in Keys :
         a = Mirror(p).source /\ e = EntryOf[a] /\ key = KeyOf[a]
    BY <1>2, ReadAssumption
<1>4. PICK answer \in RoundTrip(e) :
         /\ Seen(p, e, answer)
         /\ IF Says(answer, key) = "value" /\ answer.val[key] # EmptyValue
            THEN Becomes(p, [sync[p] EXCEPT !.pc = "read", !.t = 1, !.val = answer.val[key], !.last = "none"])
            ELSE Becomes(p, NextMirror([sync[p] EXCEPT !.ok = FALSE, !.last = "failed"]))
    BY <1>3 DEF MirrorSource
<1>5. calm' = calm \/ calm' = calm \ {p}
    BY <1>4 DEF Seen
<1>6. CASE Says(answer, key) = "value" /\ answer.val[key] # EmptyValue
    <2>1. answer.kind \notin {"down", "absent", "garbled"}
        BY <1>6 DEF Says
    <2>2. answer = kv[e] /\ answer \in Content
        BY <1>1, <2>1, AnswerIs DEF MirrorTyped
    <2>3. PICK v \in Held : v = answer.val[key]
        BY <2>2 DEF Content
    <2>4. v = At(Mirror(p).source)
        BY <1>3, <2>2, <2>3 DEF At
    <2>5. PICK s : s = [sync[p] EXCEPT !.pc = "read", !.t = 1, !.val = v, !.last = "none"]
        OBVIOUS
    <2>6. Becomes(p, s)
        BY <1>4, <1>6, <2>3, <2>5
    <2>7. /\ s \in Sync /\ s.pc = "read" /\ s.t = 1 /\ s.val = v /\ s.todo = sync[p].todo
          /\ s.apply = sync[p].apply /\ s.all = sync[p].all /\ s.ok = sync[p].ok
        BY <1>1, <2>5 DEF Sync
    <2>8. 1 \in 1..Len(cfg[Head(sync[p].todo)].targets)
        <3>1. Mirror(p).targets \in Seq(Addresses)
            BY <1>2 DEF Mirrors
        <3>2. Mirror(p).targets # <<>>
            BY <1>1, <1>2 DEF MirrorTyped, Accepted, Indices
        <3>. QED
            BY <1>2, <3>1, <3>2
    <2>9. Ready(s)
        BY <1>1, <2>7, <2>8 DEF Ready
    <2>10. Sound(p, s)
        <3>1. s.all /\ s.apply /\ s.ok /\ p \in calm => InLine(rounds[p] + 1, Head(s.todo))
            BY <1>1, <2>7 DEF Good, RoundsCount
        <3>2. ASSUME NEW u \in 1..Len(cfg[Head(s.todo)].targets), u < s.t PROVE FALSE
            BY <2>7, <3>2
        <3>. QED
            BY <1>2, <2>4, <2>7, <2>9, <3>1, <3>2 DEF Sound
    <2>. QED
        BY <1>1, <1>5, <2>6, <2>7, <2>10, QuietKeeps
<1>7. CASE ~(Says(answer, key) = "value" /\ answer.val[key] # EmptyValue)
    <2>1. PICK s : s = [sync[p] EXCEPT !.ok = FALSE, !.last = "failed"]
        OBVIOUS
    <2>2. Becomes(p, NextMirror(s))
        BY <1>4, <1>7, <2>1
    <2>3. /\ s \in Sync /\ s.pc = "source" /\ s.todo = sync[p].todo /\ s.all = sync[p].all /\ ~s.ok
        BY <1>1, <2>1 DEF Sync
    <2>4. Ready(s)
        BY <1>1, <2>3 DEF Ready, Working
    <2>5. PICK n : n = NextMirror(s)
        OBVIOUS
    <2>6. Ready(n) /\ ~n.ok /\ n.pc \in {"off", "source"}
        BY <1>1, <2>3, <2>4, <2>5, NextMirrorIs
    <2>7. Sound(p, n)
        BY <2>6 DEF Sound, Working
    <2>. QED
        BY <1>1, <1>5, <2>2, <2>5, <2>6, <2>7, QuietKeeps
<1>. QED
    BY <1>6, <1>7

(* A command begins with every mirror, or with some, in the order of the file. *)
LEMMA BeginKeeps ==
    ASSUME MirrorInv, NEW p \in Syncers, BeginMirror(p)
    PROVE  MirrorInv'
<1>1. /\ MirrorTyped /\ Good(p) /\ cfg # <<>>
      /\ kv' = kv /\ host' = host /\ cfg' = cfg /\ touched' = touched /\ rounds' = rounds
      /\ calm' = calm \cup {p}
    BY DEF MirrorInv, BeginMirror
<1>2. PICK n \in Nat : n = Len(cfg) /\ Indices(cfg) = 1..n /\ n >= 1
    <2>1. Len(cfg) \in Nat /\ Indices(cfg) = 1..Len(cfg) /\ Len(cfg) >= 1
        BY <1>1 DEF MirrorTyped, Indices
    <2>. QED
        BY <2>1
<1>3. PICK apply \in BOOLEAN, todo \in Selections :
         sync' = [sync EXCEPT ![p] = [NoSync EXCEPT !.pc = "source", !.apply = apply, !.todo = todo,
                                                    !.all = todo = Everything]]
    BY DEF BeginMirror
<1>4. /\ todo \in Seq(Nat) /\ todo # <<>> /\ Len(todo) \in Nat
      /\ \A k \in 1..Len(todo) : todo[k] \in 1..n
    <2>1. PICK m \in 1..n : todo \in [1..m -> 1..n]
        BY <1>2 DEF Selections
    <2>2. todo \in Seq(Nat) /\ Len(todo) = m
        BY <2>1
    <2>. QED
        BY <2>1, <2>2
<1>5. PICK all \in BOOLEAN : all = (todo = Everything)
    BY Zenon
<1>17. all => todo = [i \in 1..n |-> i]
    BY <1>2, <1>5 DEF Everything
<1>6. PICK s : s = [NoSync EXCEPT !.pc = "source", !.apply = apply, !.todo = todo, !.all = all]
    OBVIOUS
<1>7. sync' = [sync EXCEPT ![p] = s]
    BY <1>3, <1>5, <1>6, Zenon
<1>8. PICK bare \in Content, none \in Held : bare = Bare("absent") /\ none = NoValue
    BY BareIs DEF Held
<1>9. s = [pc |-> "source", apply |-> apply, all |-> all, todo |-> todo, t |-> 0, val |-> none,
           snap |-> bare, ok |-> TRUE, last |-> "none"]
    BY <1>6, <1>8 DEF NoSync
<1>10. /\ s \in Sync /\ s.pc = "source" /\ s.todo = todo /\ s.all = all
    <2>1. apply \in BOOLEAN /\ all \in BOOLEAN /\ todo \in Seq(Nat)
        BY <1>4
    <2>. QED
        BY <1>9, <2>1 DEF Sync
<1>11. all => \A k \in 1..Len(todo) : todo[k] = n - Len(todo) + k
    <2>2. all => Len(todo) = n /\ \A k \in 1..n : todo[k] = k
        BY <1>17
    <2>. QED
        BY <1>2, <2>2
<1>12. Ready(s)
    BY <1>2, <1>4, <1>10, <1>11 DEF Ready, Working
<1>13. sync'[p] = s /\ \A q \in Syncers : q # p => sync'[q] = sync[q]
    BY <1>1, <1>7 DEF MirrorTyped
<1>14. MirrorTyped'
    <2>1. sync' \in [Syncers -> Sync]
        BY <1>1, <1>7, <1>10 DEF MirrorTyped
    <2>. QED
        BY <1>1, <2>1 DEF MirrorTyped
<1>15. Good(p)'
    <2>1. Ready(sync[p])'
        BY <1>1, <1>12, <1>13 DEF Ready
    <2>2. SnapIsFresh(p)' /\ CarriesTheSource(p)' /\ TargetsHold(p)'
        BY <1>10, <1>13 DEF SnapIsFresh, CarriesTheSource, TargetsHold, Working
    <2>3. PICK m \in Nat : m = rounds[p]
        BY <1>1 DEF MirrorTyped
    <2>4. InLine(m, n + 1)'
        <3>1. InLine(m, n + 1)
            BY <1>1, <1>2, <2>3 DEF Good, RoundsCount
        <3>. QED
            BY <1>1, <3>1, InLineStays
    <2>5. all => InLine(m + 1, Head(todo))'
        <3>1. all => Head(todo) = 1
            <4>1. Head(todo) = todo[1] /\ 1 \in 1..Len(todo)
                BY <1>4
            <4>2. all => todo[1] = 1
                BY <1>2, <1>17
            <4>. QED
                BY <1>4, <4>1, <4>2
        <3>2. all => InLine(m + 1, Head(todo))
            <4>1. ASSUME all, NEW i \in 1..Len(cfg), i < Head(todo) PROVE FALSE
                BY <1>2, <3>1, <4>1
            <4>. QED
                BY <4>1 DEF InLine
        <3>3. PICK h, k : h = Head(todo) /\ k = m + 1
            OBVIOUS
        <3>4. InLine(k, h)' <=> InLine(k, h)
            BY <1>1, InLineStays
        <3>. QED
            BY <3>2, <3>3, <3>4
    <2>6. RoundsCount(p)'
        BY <1>1, <1>2, <1>10, <1>13, <2>3, <2>4, <2>5 DEF RoundsCount
    <2>. QED
        BY <2>1, <2>2, <2>6 DEF Good
<1>16. ASSUME NEW q \in Syncers, q # p PROVE Good(q)'
    BY <1>1, <1>13, <1>16, OthersKeep
<1>. QED
    BY <1>14, <1>15, <1>16 DEF MirrorInv
------------------------------------------------------------------------------
(* Writes *)

(* A write of an entry disturbs every process that is not the writer: what it
   was about to merge is stale if it comes from that entry, and its rounds
   count from there. *)
LEMMA DisturbedKeeps ==
    ASSUME MirrorInv, NEW q \in Syncers, NEW e \in Entries, NEW c,
           kv' = [kv EXCEPT ![e] = c], cfg' = cfg, sync'[q] = sync[q],
           q \notin calm', rounds'[q] = 0,
           q \notin touched' => q \notin touched /\ ~(sync[q].pc = "write" /\ EntryOf[Target(q)] = e)
    PROVE  Good(q)'
<1>1. MirrorTyped /\ Good(q)
    BY DEF MirrorInv
<1>2. Ready(sync[q])'
    BY <1>1 DEF Good, Ready
<1>3. SnapIsFresh(q)'
    <2>1. ASSUME sync[q].pc = "write", q \notin touched' PROVE sync[q].snap = kv'[EntryOf[Target(q)]]
        <3>1. sync[q].snap = kv[EntryOf[Target(q)]] /\ EntryOf[Target(q)] # e
            BY <1>1, <2>1 DEF Good, SnapIsFresh
        <3>2. EntryOf[Target(q)] \in Entries
            BY <1>1, <2>1, AtATarget DEF Good, Working
        <3>. QED
            BY <1>1, <3>1, <3>2 DEF MirrorTyped
    <2>. QED
        BY <1>1, <2>1 DEF Good, SnapIsFresh, Target, Mirror
<1>4. CarriesTheSource(q)' /\ TargetsHold(q)'
    BY DEF CarriesTheSource, Undisturbed, TargetsHold
<1>5. RoundsCount(q)'
    <2>1. ASSUME NEW rank \in Ranks, NEW i \in 1..Len(cfg) PROVE ~(rank[i] <= 0)
        <3>1. rank[i] \in 1..Len(cfg) /\ Len(cfg) \in Nat
            BY <1>1 DEF Ranks, MirrorTyped
        <3>. QED
            BY <3>1
    <2>2. Ranks' = Ranks
        BY DEF Ranks, Feeds, Indices
    <2>3. \A b : InLine(0, b)'
        BY <2>1, <2>2 DEF InLine
    <2>. QED
        BY <2>3 DEF RoundsCount
<1>. QED
    BY <1>2, <1>3, <1>4, <1>5 DEF Good

(* Another tool writes an entry: every process is disturbed. *)
LEMMA RivalKeeps ==
    ASSUME MirrorInv, NEW e \in Entries, Rival(e)
    PROVE  MirrorInv'
<1>1. /\ MirrorTyped /\ host' = host /\ cfg' = cfg /\ sync' = sync /\ calm' = {}
      /\ rounds' = [p \in Syncers |-> 0]
      /\ touched' = touched \cup {q \in Syncers : sync[q].pc = "write" /\ EntryOf[Target(q)] = e}
    BY DEF MirrorInv, Rival, Edit
<1>2. PICK v \in Fresh :
         kv' = [kv EXCEPT ![e] = [kind |-> "map",
                   val |-> [k \in Keys |-> IF @.val[k] \in Addresses THEN @.val[k] ELSE v]]]
    BY DEF Rival, Edit
<1>3. PICK val : val = [k \in Keys |-> IF kv[e].val[k] \in Addresses THEN kv[e].val[k] ELSE v]
    OBVIOUS
<1>4. PICK c : c = [kind |-> "map", val |-> val]
    OBVIOUS
<1>5. kv' = [kv EXCEPT ![e] = c]
    BY <1>1, <1>2, <1>3, <1>4 DEF MirrorTyped
<1>6. c \in Content
    <2>1. v \in Held /\ Addresses \subseteq Held
        BY ReadAssumption DEF Held
    <2>2. val \in [Keys -> Held]
        BY <1>3, <2>1
    <2>. QED
        BY <1>4, <2>2 DEF Content
<1>7. MirrorTyped'
    BY <1>1, <1>5, <1>6 DEF MirrorTyped
<1>8. ASSUME NEW q \in Syncers PROVE Good(q)'
    BY <1>1, <1>5, DisturbedKeeps
<1>. QED
    BY <1>7, <1>8 DEF MirrorInv

(* Fetches write nothing and mirror nothing. *)
LEMMA FetchesKeep ==
    ASSUME MirrorInv, ReadStep, UNCHANGED mirrorVars
    PROVE  MirrorInv'
<1>1. /\ cfg' = cfg /\ sync' = sync /\ touched' = touched /\ rounds' = rounds
      /\ MirrorTyped
    BY DEF mirrorVars, MirrorInv
<1>2. kv' = kv /\ host' = host
    BY DEF ReadStep, BeginFetch, FetchPrimary, FetchNext
<1>3. PICK f \in Fetchers : calm' = calm \/ calm' = calm \cup {f} \/ calm' = calm \ {f}
    <2>1. PICK f \in Fetchers : BeginFetch(f) \/ FetchPrimary(f) \/ FetchNext(f)
        BY DEF ReadStep
    <2>2. CASE BeginFetch(f)
        BY <2>2 DEF BeginFetch
    <2>3. CASE FetchPrimary(f)
        BY <2>3 DEF FetchPrimary, Noticed
    <2>4. CASE FetchNext(f)
        BY <2>4 DEF FetchNext, Noticed
    <2>. QED
        BY <2>1, <2>2, <2>3, <2>4
<1>4. MirrorTyped'
    BY <1>1, <1>2, <1>3 DEF MirrorTyped
<1>5. ASSUME NEW q \in Syncers PROVE Good(q)'
    <2>1. q # f
        BY MirrorAssumption
    <2>2. q \in calm' <=> q \in calm
        BY <1>3, <2>1
    <2>. QED
        BY <1>1, <1>2, <2>2, OthersKeep
<1>. QED
    BY <1>4, <1>5 DEF MirrorInv
(* What a write changes: the target takes the value, beside it only the key
   that names its source, if nobody else came in between. *)
LEMMA WriteChanges ==
    ASSUME MirrorInv, NEW p \in Syncers, sync[p].pc = "write", kv' = [kv EXCEPT ![EntryOf[Target(p)]] = Merged(p)]
    PROVE  /\ Merged(p) \in Content
           /\ kv'[EntryOf[Target(p)]].val[KeyOf[Target(p)]] = sync[p].val
           /\ p \notin touched => \A x \in Addresses :
                 x # Target(p) /\ KeyOf[x] # SourceKey => kv'[EntryOf[x]].val[KeyOf[x]] = At(x)
<1>1. /\ MirrorTyped /\ Good(p) /\ Ready(sync[p]) /\ sync[p] \in Sync /\ sync[p].pc \in Working /\ sync[p].pc # "off"
    BY DEF MirrorInv, Good, Ready, Working
<1>2. /\ Mirror(p).source \in Addresses /\ Target(p) \in Addresses /\ EntryOf[Target(p)] \in Entries
      /\ KeyOf[Target(p)] \in Keys /\ KeyOf[Target(p)] # SourceKey
    BY <1>1, AtATarget
<1>3. PICK e \in Entries, key \in Keys, source \in Held, v \in Held, old \in [Keys -> Held] :
         /\ e = EntryOf[Target(p)] /\ key = KeyOf[Target(p)] /\ source = Mirror(p).source /\ v = sync[p].val
         /\ old = sync[p].snap.val
    BY <1>1, <1>2 DEF Sync, Content, Held
<1>4. PICK new : new = [old EXCEPT ![key] = v, ![SourceKey] = source]
    OBVIOUS
<1>5. Merged(p) = [kind |-> "map", val |-> new]
    BY <1>3, <1>4 DEF Merged
<1>6. new \in [Keys -> Held] /\ new[key] = v /\ \A k \in Keys : k # key /\ k # SourceKey => new[k] = old[k]
    BY <1>2, <1>3, <1>4
<1>7. Merged(p) \in Content
    BY <1>5, <1>6 DEF Content
<1>8. kv'[e] = Merged(p) /\ \A d \in Entries : d # e => kv'[d] = kv[d]
    BY <1>1, <1>3 DEF MirrorTyped
<1>9. ASSUME p \notin touched, NEW x \in Addresses, x # Target(p), KeyOf[x] # SourceKey
      PROVE  kv'[EntryOf[x]].val[KeyOf[x]] = At(x)
    <2>1. EntryOf[x] \in Entries /\ KeyOf[x] \in Keys
        BY ReadAssumption
    <2>2. CASE EntryOf[x] # e
        BY <1>8, <2>1, <2>2 DEF At
    <2>3. CASE EntryOf[x] = e
        <3>1. KeyOf[x] # key
            BY <1>2, <1>3, <1>9, <2>3, ReadAssumption
        <3>2. kv[e] = sync[p].snap
            BY <1>1, <1>3, <1>9 DEF Good, SnapIsFresh
        <3>3. new[KeyOf[x]] = old[KeyOf[x]]
            BY <1>6, <1>9, <2>1, <3>1
        <3>. QED
            BY <1>3, <1>5, <1>8, <2>3, <3>2, <3>3 DEF At
    <2>. QED
        BY <2>2, <2>3
<1>. QED
    BY <1>3, <1>5, <1>6, <1>7, <1>8, <1>9

(* A mirror that is in line stays so when an undisturbed process writes, unless
   the target it writes feeds that mirror, and then its own was not in line. *)
LEMMA InLineKeeps ==
    ASSUME MirrorInv, NEW p \in Syncers, sync[p].pc = "write", kv' = [kv EXCEPT ![EntryOf[Target(p)]] = Merged(p)],
           cfg' = cfg, Plain, Undisturbed(p),
           NEW rank \in Ranks, NEW n \in Nat, \A j \in 1..Len(cfg) : rank[j] <= n => SyncedAt(j),
           NEW i \in 1..Len(cfg), rank[i] <= n + 1, SyncedAt(i)
    PROVE  SyncedAt(i)'
<1>1. /\ MirrorTyped /\ Good(p) /\ Ready(sync[p]) /\ sync[p].pc \in Working /\ sync[p].pc # "off"
      /\ p \notin touched /\ sync[p].val = At(Mirror(p).source)
    BY DEF MirrorInv, Good, Working, CarriesTheSource
<1>2. PICK h, t :
         /\ h \in 1..Len(cfg) /\ t \in 1..Len(cfg[h].targets)
         /\ h = Head(sync[p].todo) /\ t = sync[p].t
         /\ Mirror(p) = cfg[h] /\ Target(p) = cfg[h].targets[t] /\ Target(p) \in Addresses
         /\ KeyOf[Target(p)] # SourceKey
    BY <1>1, AtATarget
<1>3. cfg[i] \in Mirrors /\ cfg[i].source \in Addresses /\ cfg[i].targets \in Seq(Addresses)
    <2>1. cfg[i] \in Mirrors
        BY <1>1 DEF MirrorTyped
    <2>. QED
        BY <2>1 DEF Mirrors
<1>4. /\ kv'[EntryOf[Target(p)]].val[KeyOf[Target(p)]] = sync[p].val
      /\ \A x \in Addresses : x # Target(p) /\ KeyOf[x] # SourceKey => kv'[EntryOf[x]].val[KeyOf[x]] = At(x)
    BY <1>1, WriteChanges
<1>5. KeyOf[cfg[i].source] # SourceKey
    BY DEF Plain
<1>6. ASSUME NEW u \in 1..Len(cfg[i].targets)
      PROVE  cfg[i].targets[u] \in Addresses /\ KeyOf[cfg[i].targets[u]] # SourceKey
    BY <1>1, DeclaredTarget
<1>7. CASE At(Target(p)) = sync[p].val
    <2>1. \A x \in Addresses : KeyOf[x] # SourceKey => kv'[EntryOf[x]].val[KeyOf[x]] = At(x)
        BY <1>4, <1>7
    <2>. QED
        BY <1>3, <1>5, <1>6, <2>1, ZenonT(60) DEF SyncedAt, At
<1>8. CASE At(Target(p)) # sync[p].val
    <2>1. ~SyncedAt(h)
        BY <1>1, <1>2, <1>8 DEF SyncedAt
    <2>2. i # h
        BY <2>1
    <2>3. ASSUME cfg[i].source = Target(p) PROVE FALSE
        <3>1. Feeds(h, i)
            <4>1. cfg[h] \in Mirrors
                BY <1>1, <1>2, AtATarget
            <4>2. Indices(cfg[h].targets) = 1..Len(cfg[h].targets)
                BY <4>1 DEF Mirrors, Indices
            <4>. QED
                BY <1>2, <2>3, <4>2 DEF Feeds
        <3>2. rank[h] < rank[i] /\ rank[h] \in Nat /\ rank[i] \in Nat
            <4>1. Len(cfg) \in Nat /\ rank \in [1..Len(cfg) -> 1..Len(cfg)]
                BY <1>1 DEF MirrorTyped, Ranks
            <4>2. rank[h] \in 1..Len(cfg) /\ rank[i] \in 1..Len(cfg)
                BY <1>2, <4>1
            <4>3. rank[h] < rank[i]
                BY <1>2, <3>1 DEF Ranks
            <4>. QED
                BY <4>1, <4>2, <4>3
        <3>3. rank[h] <= n
            BY <3>2
        <3>. QED
            BY <1>2, <2>1, <3>3
    <2>4. \A u \in 1..Len(cfg[i].targets) : cfg[i].targets[u] # Target(p)
        <3>1. ASSUME NEW u \in 1..Len(cfg[i].targets), cfg[i].targets[u] = cfg[h].targets[t] PROVE FALSE
            BY <1>1, <1>2, <2>2, <3>1, TargetsDiffer
        <3>. QED
            BY <1>2, <3>1
    <2>. QED
        BY <1>3, <1>4, <1>5, <1>6, <2>3, <2>4, ZenonT(60) DEF SyncedAt, At
<1>. QED
    BY <1>7, <1>8
(* What the others see of a write, and the writer's own claims. *)
LEMMA StoredKeeps ==
    ASSUME MirrorInv, NEW p \in Syncers, sync[p].pc = "write",
           NEW s, Ready(s), s.pc # "write", sync' = [sync EXCEPT ![p] = s],
           s.pc \in Working => s.val = sync[p].val /\ Head(s.todo) = Head(sync[p].todo),
           s.ok => s = Written(p),
           kv' = [kv EXCEPT ![EntryOf[Target(p)]] = Merged(p)], host' = host, cfg' = cfg,
           calm' = calm \cap {p},
           touched' = touched \cup {q \in Syncers \ {p} : sync[q].pc = "write" /\ EntryOf[Target(q)] = EntryOf[Target(p)]},
           rounds' \in [Syncers -> 0..Len(cfg)], \A q \in Syncers : q # p => rounds'[q] = 0,
           rounds'[p] \in {0, rounds[p]}
    PROVE  MirrorInv'
<1>1. /\ MirrorTyped /\ Good(p) /\ Ready(sync[p]) /\ sync[p] \in Sync /\ sync[p].pc \in Working /\ sync[p].pc # "off"
    BY DEF MirrorInv, Good, Ready, Working
<1>2. /\ Mirror(p) = cfg[Head(sync[p].todo)] /\ Head(sync[p].todo) \in 1..Len(cfg)
      /\ sync[p].t \in 1..Len(Mirror(p).targets)
      /\ Target(p) = Mirror(p).targets[sync[p].t]
      /\ Mirror(p).source \in Addresses /\ Target(p) \in Addresses /\ EntryOf[Target(p)] \in Entries
      /\ Target(p) # Mirror(p).source /\ Mirror(p) \in Mirrors
    BY <1>1, AtATarget
<1>3. /\ Merged(p) \in Content
      /\ p \notin touched => \A x \in Addresses :
            x # Target(p) /\ KeyOf[x] # SourceKey => kv'[EntryOf[x]].val[KeyOf[x]] = At(x)
      /\ kv'[EntryOf[Target(p)]].val[KeyOf[Target(p)]] = sync[p].val
    BY WriteChanges
<1>4. /\ sync'[p] = s /\ \A q \in Syncers : q # p => sync'[q] = sync[q]
      /\ s \in Sync
    BY <1>1 DEF MirrorTyped, Ready
<1>5. MirrorTyped'
    <2>1. kv' \in [Entries -> Content]
        BY <1>1, <1>2, <1>3 DEF MirrorTyped
    <2>2. sync' \in [Syncers -> Sync]
        BY <1>1, <1>4 DEF MirrorTyped
    <2>. QED
        BY <1>1, <2>1, <2>2 DEF MirrorTyped
<1>6. ASSUME NEW q \in Syncers, q # p PROVE Good(q)'
    <2>1. PICK e, c : e \in Entries /\ e = EntryOf[Target(p)] /\ c = Merged(p)
        BY <1>2
    <2>2. q \notin touched' => q \notin touched /\ ~(sync[q].pc = "write" /\ EntryOf[Target(q)] = e)
        BY <1>6, <2>1
    <2>. QED
        BY <1>4, <1>6, <2>1, <2>2, DisturbedKeeps
<1>7. PICK n \in Nat, h \in Nat, m \in Nat, k \in Nat :
         n = Len(cfg) /\ h = Head(sync[p].todo) /\ m = rounds[p] /\ k = rounds'[p]
    <2>1. Len(cfg) \in Nat
        BY <1>1 DEF MirrorTyped
    <2>2. PICK l \in Nat : l = Len(cfg)
        BY <2>1
    <2>3. rounds[p] \in 0..l /\ rounds'[p] \in 0..l
        BY <1>1, <2>2 DEF MirrorTyped
    <2>4. Head(sync[p].todo) \in 1..l
        BY <1>2, <2>2
    <2>. QED
        BY <2>2, <2>3, <2>4, SMTT(60)
<1>8. Undisturbed(p)' => Undisturbed(p)
    BY <1>7 DEF Undisturbed
<1>9. Written(p).todo = sync[p].todo /\ Written(p).val = sync[p].val /\ Written(p).t = sync[p].t
      /\ Written(p).ok = sync[p].ok /\ Written(p).pc = "back" /\ Written(p).apply = sync[p].apply
      /\ Written(p).all = sync[p].all
    BY <1>1 DEF Written, Sync
<1>10. Plain' <=> Plain
    BY DEF Plain
<1>11. Ready(sync[p])' /\ SnapIsFresh(p)'
    BY <1>4 DEF Ready, SnapIsFresh
<1>12. CarriesTheSource(p)'
    <2>1. ASSUME s.pc \in Working, Plain, Undisturbed(p)
          PROVE  s.val = kv'[EntryOf[cfg[h].source]].val[KeyOf[cfg[h].source]]
        <3>1. sync[p].val = At(cfg[h].source) /\ p \notin touched
            BY <1>1, <1>2, <1>7, <2>1 DEF Good, CarriesTheSource
        <3>2. KeyOf[cfg[h].source] # SourceKey
            BY <1>2, <1>7, <2>1 DEF Plain
        <3>. QED
            BY <1>2, <1>3, <1>7, <2>1, <3>1, <3>2
    <2>. QED
        BY <1>4, <1>7, <1>8, <1>10, <2>1 DEF CarriesTheSource, Mirror, At
<1>13. TargetsHold(p)'
    <2>1. ASSUME s.pc \in Working, s.apply, s.ok, p \in calm,
                 NEW u \in 1..Len(cfg[h].targets), u < s.t
          PROVE  kv'[EntryOf[cfg[h].targets[u]]].val[KeyOf[cfg[h].targets[u]]] = s.val
        <3>1. s.t = sync[p].t /\ sync[p].apply /\ sync[p].ok
            BY <1>9, <2>1
        <3>2. At(cfg[h].targets[u]) = sync[p].val
            BY <1>1, <1>2, <1>7, <2>1, <3>1 DEF Good, TargetsHold
        <3>3. cfg[h].targets[u] \in Addresses /\ KeyOf[cfg[h].targets[u]] # SourceKey
            <4>1. h \in 1..Len(cfg)
                BY <1>2, <1>7
            <4>. QED
                BY <1>1, <4>1, DeclaredTarget
        <3>4. cfg[h].targets[u] # Target(p)
            <4>1. ASSUME cfg[h].targets[u] = cfg[h].targets[sync[p].t] PROVE FALSE
                <5>1. u = sync[p].t
                    <6>1. h \in 1..Len(cfg) /\ sync[p].t \in 1..Len(cfg[h].targets)
                        BY <1>2, <1>7
                    <6>2. PICK w : w = sync[p].t
                        OBVIOUS
                    <6>. QED
                        BY <1>1, <4>1, <6>1, <6>2, TargetsDiffer
                <5>2. sync[p].t \in Nat
                    BY <1>1 DEF Sync
                <5>. QED
                    BY <2>1, <3>1, <5>1, <5>2
            <4>. QED
                BY <1>2, <1>7, <4>1
        <3>5. p \notin touched
            BY <1>1, <2>1 DEF Good, CarriesTheSource, Undisturbed
        <3>. QED
            BY <1>3, <2>1, <3>2, <3>3, <3>4, <3>5
    <2>2. p \in calm' <=> p \in calm
        OBVIOUS
    <2>3. s.pc \in Working => Head(s.todo) = h
        BY <1>7
    <2>. QED
        <3>1. ASSUME s.pc \in Working, s.apply, s.ok, p \in calm',
                     NEW u \in 1..Len(cfg[Head(s.todo)].targets), u < s.t
              PROVE  kv'[EntryOf[cfg[Head(s.todo)].targets[u]]].val[KeyOf[cfg[Head(s.todo)].targets[u]]] = s.val
            BY <2>1, <2>2, <2>3, <3>1
        <3>. QED
            BY <1>4, <3>1, ZenonT(60) DEF TargetsHold, Mirror, At
<1>14. ASSUME NEW rank \in Ranks, Plain, Undisturbed(p)
       PROVE  \A i \in 1..Len(cfg) : rank[i] <= m + 1 /\ SyncedAt(i) => SyncedAt(i)'
    <2>1. \A j \in 1..Len(cfg) : rank[j] <= m => SyncedAt(j)
        <3>1. InLine(m, n + 1)
            BY <1>1, <1>7 DEF Good, RoundsCount
        <3>2. \A j \in 1..Len(cfg) : j < n + 1
            BY <1>7
        <3>. QED
            BY <1>14, <3>1, <3>2 DEF InLine
    <2>. QED
        BY <1>14, <2>1, InLineKeeps
<1>15. RoundsCount(p)'
    <2>1. Ranks' = Ranks
        BY DEF Ranks, Feeds, Indices
    <2>2. \A rank \in Ranks, i \in 1..Len(cfg) : rank[i] \in 1..n
        BY <1>7 DEF Ranks
    <2>3. InLine(k, n + 1)'
        <3>1. ASSUME Plain, NEW rank \in Ranks, NEW i \in 1..Len(cfg), rank[i] <= k PROVE SyncedAt(i)'
            <4>1. k = m /\ m > 0 /\ rank[i] \in Nat
                BY <1>7, <2>2, <3>1
            <4>2. Undisturbed(p)
                BY <1>7, <4>1 DEF Undisturbed
            <4>3. InLine(m, n + 1) /\ i < n + 1
                BY <1>1, <1>7 DEF Good, RoundsCount
            <4>4. SyncedAt(i)
                BY <3>1, <4>1, <4>3 DEF InLine
            <4>. QED
                BY <1>14, <3>1, <4>1, <4>2, <4>4
        <3>. QED
            BY <1>10, <2>1, <3>1 DEF InLine
    <2>4. ASSUME s.pc # "off", s.apply, s.all, s.ok, p \in calm
          PROVE  InLine(k + 1, h)'
        <3>1. sync[p].apply /\ sync[p].all /\ sync[p].ok
            BY <1>9, <2>4
        <3>2. InLine(m + 1, h)
            BY <1>1, <1>7, <2>4, <3>1 DEF Good, RoundsCount
        <3>3. Undisturbed(p)
            BY <2>4 DEF Undisturbed
        <3>4. ASSUME Plain, NEW rank \in Ranks, NEW i \in 1..Len(cfg), rank[i] <= k + 1, i < h PROVE SyncedAt(i)'
            <4>1. rank[i] <= m + 1
                BY <1>7, <2>2, <3>4
            <4>2. SyncedAt(i)
                BY <3>2, <3>4, <4>1 DEF InLine
            <4>. QED
                BY <1>14, <3>3, <3>4, <4>1, <4>2
        <3>. QED
            BY <1>10, <2>1, <3>4 DEF InLine
    <2>5. s.ok => Head(s.todo) = h
        BY <1>7, <1>9
    <2>. QED
        BY <1>4, <1>7, <2>3, <2>4, <2>5 DEF RoundsCount
<1>16. Good(p)'
    BY <1>11, <1>12, <1>13, <1>15 DEF Good
<1>. QED
    BY <1>5, <1>6, <1>16 DEF MirrorInv
(* The write of a target: kept or not, acknowledged or not. *)
LEMMA WriteKeeps ==
    ASSUME MirrorInv, NEW p \in Syncers, MirrorWrite(p)
    PROVE  MirrorInv'
<1>1. /\ MirrorTyped /\ Good(p) /\ Ready(sync[p]) /\ sync[p] \in Sync
      /\ sync[p].pc = "write" /\ sync[p].pc \in Working /\ sync[p].pc # "off"
      /\ host' = host /\ cfg' = cfg
    BY DEF MirrorInv, Good, Ready, Working, MirrorWrite
<1>2. PICK o \in SetOutcomes :
         /\ kv' = IF o.stored THEN [kv EXCEPT ![EntryOf[Target(p)]] = Merged(p)] ELSE kv
         /\ calm' = IF o.stored THEN calm \cap {p} ELSE calm
         /\ touched' = IF o.stored
                       THEN touched \cup {q \in Syncers \ {p} : sync[q].pc = "write" /\ EntryOf[Target(q)] = EntryOf[Target(p)]}
                       ELSE touched
         /\ sync' = [sync EXCEPT ![p] = IF o.acked THEN Written(p) ELSE Outcome(p, "failed")]
         /\ rounds' = [q \in Syncers |-> IF (q # p /\ o.stored) \/ (q = p /\ ~o.acked) THEN 0 ELSE rounds[q]]
    BY DEF MirrorWrite
<1>3. PICK s : s = IF o.acked THEN Written(p) ELSE Outcome(p, "failed")
    OBVIOUS
<1>4. /\ Written(p) \in Sync /\ Written(p).todo = sync[p].todo /\ Written(p).val = sync[p].val
      /\ Written(p).t = sync[p].t /\ Written(p).ok = sync[p].ok /\ Written(p).pc = "back"
      /\ Written(p).apply = sync[p].apply /\ Written(p).all = sync[p].all
    BY <1>1 DEF Written, Sync
<1>5. Ready(Written(p))
    BY <1>1, <1>4 DEF Ready, Working
<1>6. PICK f : f = Outcome(p, "failed")
    OBVIOUS
<1>7. /\ Ready(f) /\ ~f.ok /\ f.pc \in {"off", "source", "read"}
      /\ f.pc = "read" => f.todo = sync[p].todo /\ f.val = sync[p].val
    BY <1>1, <1>6, OutcomeIs
<1>8. PICK n \in Nat : n = Len(cfg) /\ rounds \in [Syncers -> 0..n]
    BY <1>1 DEF MirrorTyped
<1>9. /\ rounds' \in [Syncers -> 0..n]
      /\ o.stored => \A q \in Syncers : q # p => rounds'[q] = 0
      /\ ~o.acked => rounds'[p] = 0
      /\ o.acked => rounds'[p] = rounds[p]
    BY <1>2, <1>8
<1>10. CASE o.stored
    <2>1. /\ Ready(s) /\ s.pc # "write"
          /\ s.ok => s = Written(p)
          /\ s.pc \in Working => s.val = sync[p].val /\ Head(s.todo) = Head(sync[p].todo)
        <3>1. CASE o.acked
            <4>1. s = Written(p)
                BY <1>3, <3>1
            <4>. QED
                BY <1>4, <1>5, <4>1
        <3>2. CASE ~o.acked
            <4>1. s = f
                BY <1>3, <1>6, <3>2
            <4>. QED
                BY <1>7, <4>1 DEF Working
        <3>. QED
            BY <3>1, <3>2
    <2>2. /\ kv' = [kv EXCEPT ![EntryOf[Target(p)]] = Merged(p)] /\ calm' = calm \cap {p}
          /\ touched' = touched \cup {q \in Syncers \ {p} : sync[q].pc = "write" /\ EntryOf[Target(q)] = EntryOf[Target(p)]}
        BY <1>2, <1>10
    <2>3. sync' = [sync EXCEPT ![p] = s] /\ rounds'[p] \in {0, rounds[p]}
        BY <1>2, <1>3, <1>9
    <2>. QED
        BY <1>1, <1>8, <1>9, <1>10, <2>1, <2>2, <2>3, StoredKeeps
<1>11. CASE ~o.stored
    <2>1. kv' = kv /\ calm' = calm /\ touched' = touched /\ sync' = [sync EXCEPT ![p] = s]
        BY <1>2, <1>3, <1>11
    <2>2. \A q \in Syncers : q # p => rounds'[q] = rounds[q]
        BY <1>2, <1>11
    <2>3. CASE o.acked
        <3>1. s = Written(p)
            BY <1>3, <2>3
        <3>2. Sound(p, s)
            <4>1. /\ Mirror(p) = cfg[Head(s.todo)] /\ Ready(s) /\ s.pc = "back" /\ s.val = sync[p].val
                  /\ s.t = sync[p].t /\ s.ok = sync[p].ok /\ s.apply = sync[p].apply /\ s.all = sync[p].all
                  /\ Head(s.todo) = Head(sync[p].todo)
                BY <1>1, <1>4, <1>5, <3>1 DEF Mirror
            <4>2. Plain /\ Undisturbed(p) => s.val = At(cfg[Head(s.todo)].source)
                BY <1>1, <4>1 DEF Good, CarriesTheSource
            <4>3. s.apply /\ s.all /\ s.ok /\ p \in calm => InLine(rounds[p] + 1, Head(s.todo))
                BY <1>1, <4>1 DEF Good, RoundsCount
            <4>4. s.apply /\ s.ok /\ p \in calm =>
                     \A u \in 1..Len(cfg[Head(s.todo)].targets) : u < s.t => At(cfg[Head(s.todo)].targets[u]) = s.val
                BY <1>1, <4>1 DEF Good, TargetsHold
            <4>. QED
                BY <4>1, <4>2, <4>3, <4>4 DEF Sound
        <3>. QED
            BY <1>1, <1>4, <1>8, <1>9, <2>1, <2>2, <2>3, <3>1, <3>2, MoveKeeps
    <2>4. CASE ~o.acked
        <3>1. s = f
            BY <1>3, <1>6, <2>4
        <3>2. Sound(p, s)
            BY <1>1, <1>6, <3>1, OutcomeSound
        <3>. QED
            BY <1>1, <1>7, <1>8, <1>9, <2>1, <2>2, <2>4, <3>1, <3>2, MoveKeeps
    <2>. QED
        BY <2>3, <2>4
<1>. QED
    BY <1>10, <1>11

------------------------------------------------------------------------------
(* Mirroring *)

(* What holds at first. *)
LEMMA MirrorBegins ==
    ASSUME Init
    PROVE  MirrorInv
<1>1. PICK s \in Scenes : Accepted(s.cfg) /\ ReadInit(s) /\ cfg = s.cfg
    BY DEF Init
<1>2. /\ kv \in [Entries -> Content] /\ host \in [Entries -> HostStates] /\ cfg \in Seq(Mirrors)
      /\ calm = {} /\ touched = {} /\ Accepted(cfg)
    <2>1. IsScene(s) /\ s.cfg \in Seq(Mirrors)
        BY ReadAssumption, MirrorAssumption
    <2>. QED
        BY <1>1, <2>1 DEF IsScene, ReadInit, Init
<1>3. PICK n \in Nat : n = Len(cfg)
    BY <1>2
<1>4. rounds = [p \in Syncers |-> 0] /\ rounds \in [Syncers -> 0..n]
    BY DEF Init
<1>5. NoSync \in Sync /\ NoSync.pc = "off"
    <2>1. PICK bare \in Content, none \in Held : bare = Bare("absent") /\ none = NoValue
        BY BareIs DEF Held
    <2>2. NoSync = [pc |-> "off", apply |-> FALSE, all |-> TRUE, todo |-> <<>>, t |-> 0, val |-> none,
                    snap |-> bare, ok |-> TRUE, last |-> "none"]
        BY <2>1 DEF NoSync
    <2>3. <<>> \in Seq(Nat)
        OBVIOUS
    <2>. QED
        BY <2>2, <2>3 DEF Sync
<1>6. sync = [p \in Syncers |-> NoSync]
    BY DEF Init
<1>7. MirrorTyped
    BY <1>2, <1>3, <1>4, <1>5, <1>6 DEF MirrorTyped
<1>8. ASSUME NEW p \in Syncers PROVE Good(p)
    <2>1. sync[p] = NoSync /\ rounds[p] = 0 /\ p \notin calm
        BY <1>2, <1>4, <1>6
    <2>2. Ready(sync[p]) /\ SnapIsFresh(p) /\ CarriesTheSource(p) /\ TargetsHold(p)
        BY <1>5, <2>1 DEF Ready, SnapIsFresh, CarriesTheSource, TargetsHold, Working, Undisturbed
    <2>3. ASSUME NEW rank \in Ranks, NEW i \in 1..Len(cfg) PROVE ~(rank[i] <= 0)
        <3>1. rank[i] \in 1..n
            BY <1>3 DEF Ranks
        <3>. QED
            BY <3>1
    <2>4. RoundsCount(p)
        BY <1>5, <2>1, <2>3 DEF RoundsCount, InLine
    <2>. QED
        BY <2>2, <2>4 DEF Good
<1>. QED
    BY <1>7, <1>8 DEF MirrorInv

(* No step breaks it. *)
LEMMA MirrorStep ==
    ASSUME MirrorInv, [Next]_vars
    PROVE  MirrorInv'
<1>1. CASE ReadStep /\ UNCHANGED mirrorVars
    BY <1>1, FetchesKeep
<1>2. ASSUME NEW p \in Syncers, BeginMirror(p) \/ MirrorSource(p) \/ MirrorRead(p) \/ MirrorWrite(p) \/ MirrorBack(p)
      PROVE  MirrorInv'
    BY <1>2, BeginKeeps, SourceKeeps, ReadKeeps, WriteKeeps
<1>3. ASSUME NEW e \in Entries, Rival(e) PROVE MirrorInv'
    BY <1>3, RivalKeeps
<1>4. CASE UNCHANGED vars
    <2>1. kv' = kv /\ host' = host /\ cfg' = cfg /\ sync' = sync /\ calm' = calm /\ touched' = touched /\ rounds' = rounds
        BY <1>4 DEF vars, readVars, mirrorVars
    <2>2. MirrorTyped'
        BY <2>1 DEF MirrorInv, MirrorTyped
    <2>3. ASSUME NEW q \in Syncers PROVE Good(q)'
        BY <2>1, OthersKeep
    <2>. QED
        BY <2>2, <2>3 DEF MirrorInv
<1>. QED
    BY <1>1, <1>2, <1>3, <1>4 DEF Next

(* The invariant of mirroring: what is carried is what the source holds, and
   what counts as a round brings mirrors in line. *)
THEOREM MirrorsAreSound == Spec => []MirrorInv
<1>. QED
    BY MirrorBegins, MirrorStep, PTL DEF Spec

(* No mirror copies the key where mirrors write where a value came from: the
   code keeps targets off it (RESERVED_KEY), and who reads it from there reads
   what another mirror writes there. *)
NoMarkerIsASource == \A s \in Scenes : \A i \in 1..Len(s.cfg) : KeyOf[s.cfg[i].source] # SourceKey

(* Running it again converges: as many undisturbed successful applies of all
   mirrors as there are mirrors bring every target of an acyclic configuration
   in line (apply: every mirror in order, each a read and a write per target). *)
THEOREM Converges ==
    ASSUME NoMarkerIsASource
    PROVE  Spec => []ConvergesWhenQuiet
<1>1. Init => Plain
    BY DEF NoMarkerIsASource, Init, Plain
<1>2. Plain /\ [Next]_vars => Plain'
    <2>1. [Next]_vars => cfg' = cfg
        BY DEF Next, vars, mirrorVars, BeginMirror, MirrorSource, MirrorRead, MirrorWrite, MirrorBack, Rival
    <2>. QED
        BY <2>1 DEF Plain
<1>3. ASSUME MirrorInv, Plain PROVE ConvergesWhenQuiet
    <2>. SUFFICES ASSUME NEW p \in Syncers, rounds[p] >= Len(cfg), Acyclic
                  PROVE  InSync
        BY DEF ConvergesWhenQuiet
    <2>1. PICK n \in Nat : n = Len(cfg) /\ Indices(cfg) = 1..n /\ cfg \in Seq(Mirrors) /\ rounds[p] \in 0..n
        <3>1. Len(cfg) \in Nat /\ Indices(cfg) = 1..Len(cfg) /\ cfg \in Seq(Mirrors) /\ rounds[p] \in 0..Len(cfg)
            BY <1>3 DEF MirrorInv, MirrorTyped, Indices
        <3>. QED
            BY <3>1
    <2>2. PICK rank \in [Indices(cfg) -> Indices(cfg)] :
             \A i, j \in Indices(cfg) : Feeds(i, j) => rank[i] < rank[j]
        BY DEF Acyclic
    <2>3. rank \in Ranks
        BY <2>1, <2>2 DEF Ranks
    <2>4. ASSUME NEW i \in Indices(cfg) PROVE SyncedAt(i)
        <3>1. i \in 1..n /\ rank[i] \in 1..n
            BY <2>1, <2>2
        <3>2. rank[i] <= rounds[p] /\ i < n + 1
            BY <2>1, <3>1
        <3>3. InLine(rounds[p], n + 1)
            BY <1>3, <2>1 DEF MirrorInv, Good, RoundsCount
        <3>. QED
            BY <1>3, <2>1, <2>3, <3>1, <3>2, <3>3 DEF InLine
    <2>5. ASSUME NEW i \in Indices(cfg), NEW u \in Indices(cfg[i].targets)
          PROVE  At(cfg[i].targets[u]) = At(cfg[i].source)
        <3>1. cfg[i] \in Mirrors
            BY <2>1
        <3>2. u \in 1..Len(cfg[i].targets)
            BY <3>1 DEF Mirrors, Indices
        <3>. QED
            BY <2>4, <3>2 DEF SyncedAt
    <2>. QED
        BY <2>5 DEF InSync, At
<1>. QED
    BY <1>1, <1>2, <1>3, MirrorsAreSound, PTL DEF Spec
------------------------------------------------------------------------------
(* What a mirror says and what it leaves *)

(* A process moves by steps of its own. *)
LEMMA OwnStep ==
    ASSUME MirrorInv, [Next]_vars, NEW p \in Syncers, sync'[p] # sync[p]
    PROVE  BeginMirror(p) \/ MirrorSource(p) \/ MirrorRead(p) \/ MirrorWrite(p) \/ MirrorBack(p)
<1>1. sync' # sync
    OBVIOUS
<1>2. PICK q \in Syncers : BeginMirror(q) \/ MirrorSource(q) \/ MirrorRead(q) \/ MirrorWrite(q) \/ MirrorBack(q)
    BY <1>1 DEF Next, vars, mirrorVars, Rival
<1>3. \E s : sync' = [sync EXCEPT ![q] = s]
    <2>1. CASE BeginMirror(q)
        BY <2>1 DEF BeginMirror
    <2>2. CASE MirrorSource(q)
        BY <2>2 DEF MirrorSource, Becomes
    <2>3. CASE MirrorRead(q)
        <3>1. \E s : Becomes(q, s)
            <4>1. PICK answer \in RoundTrip(EntryOf[Target(q)]) :
                  CASE answer.kind \in {"down", "garbled"} -> Becomes(q, Outcome(q, "failed"))
                    [] answer.kind \in {"absent", "map"} /\ UpToDate(answer, KeyOf[Target(q)], sync[q].val) ->
                          Becomes(q, Outcome(q, "synced"))
                    [] answer.kind \in {"absent", "map"} /\ ~UpToDate(answer, KeyOf[Target(q)], sync[q].val) ->
                          IF sync[q].apply
                          THEN Becomes(q, [sync[q] EXCEPT !.pc = "write", !.snap = answer, !.last = "none"])
                          ELSE Becomes(q, Outcome(q, "drift"))
                BY <2>3 DEF MirrorRead
            <4>2. EntryOf[Target(q)] \in Entries
                BY <2>3, AtATarget DEF MirrorInv, Good, Working, MirrorRead
            <4>3. answer.kind \in {"down", "garbled", "absent", "map"}
                BY <4>2, AnswerIs DEF MirrorInv, MirrorTyped
            <4>. QED
                BY <4>1, <4>3
        <3>. QED
            BY <3>1 DEF Becomes
    <2>4. CASE MirrorWrite(q)
        BY <2>4 DEF MirrorWrite
    <2>5. CASE MirrorBack(q)
        BY <2>5 DEF MirrorBack, Becomes
    <2>. QED
        BY <1>2, <2>1, <2>2, <2>3, <2>4, <2>5
<1>4. q = p
    BY <1>3 DEF MirrorInv, MirrorTyped
<1>. QED
    BY <1>2, <1>4

(* A target is said to be in sync only where it holds the value that was read. *)
LEMMA SaidIsHeld ==
    ASSUME MirrorInv, [Next]_vars, NEW p \in Syncers,
           sync[p].pc \in {"read", "write", "back"}, sync'[p] # sync[p], sync'[p].last = "synced"
    PROVE  kv'[EntryOf[Target(p)]].val[KeyOf[Target(p)]] = sync[p].val
<1>1. /\ MirrorTyped /\ Ready(sync[p]) /\ sync[p] \in Sync /\ sync \in [Syncers -> Sync] /\ sync[p].pc \in Working
      /\ sync[p].pc # "off" /\ sync[p].pc # "source"
    BY DEF MirrorInv, MirrorTyped, Good, Ready, Working
<1>2. MirrorRead(p) \/ MirrorWrite(p) \/ MirrorBack(p)
    BY <1>1, OwnStep DEF BeginMirror, MirrorSource
<1>3. PICK e, key : e \in Entries /\ e = EntryOf[Target(p)] /\ key = KeyOf[Target(p)]
    BY <1>1, AtATarget
<1>4. PICK failed, drift : failed = Outcome(p, "failed") /\ drift = Outcome(p, "drift")
    OBVIOUS
<1>5. failed.last = "failed" /\ drift.last = "drift"
    BY <1>1, <1>4, OutcomeIs
<1>6. ASSUME NEW s, Becomes(p, s) PROVE sync'[p] = s
    BY <1>1, <1>6 DEF Becomes
<1>7. CASE MirrorWrite(p)
    <2>1. sync'[p] = Written(p) \/ sync'[p] = failed
        BY <1>1, <1>4, <1>7 DEF MirrorWrite
    <2>2. Written(p).last = "none"
        <3>1. sync[p].pc = "write"
            BY <1>7 DEF MirrorWrite
        <3>2. sync[p].last = "none"
            BY <3>1 DEF MirrorInv, Good, SnapIsFresh
        <3>. QED
            BY <1>1, <3>2 DEF Written, Sync
    <2>. QED
        BY <1>5, <2>1, <2>2
<1>8. CASE MirrorBack(p)
    <2>1. kv' = kv
        BY <1>8 DEF MirrorBack
    <2>2. PICK answer \in RoundTrip(e) :
             Becomes(p, Outcome(p, IF answer.kind = "map" /\ UpToDate(answer, key, sync[p].val)
                                   THEN "synced" ELSE "failed"))
        BY <1>3, <1>8 DEF MirrorBack
    <2>3. answer.kind = "map" /\ UpToDate(answer, key, sync[p].val)
        <3>1. CASE ~(answer.kind = "map" /\ UpToDate(answer, key, sync[p].val))
            <4>1. Becomes(p, failed)
                BY <1>4, <2>2, <3>1
            <4>. QED
                BY <1>5, <1>6, <4>1
        <3>. QED
            BY <3>1
    <2>4. kv[e].val[key] = sync[p].val
        BY <1>1, <1>3, <2>3, AnswerIs DEF MirrorTyped, UpToDate
    <2>. QED
        BY <1>3, <2>1, <2>4
<1>9. CASE MirrorRead(p)
    <2>1. kv' = kv
        BY <1>9 DEF MirrorRead
    <2>2. PICK answer \in RoundTrip(e) :
          CASE answer.kind \in {"down", "garbled"} -> Becomes(p, failed)
            [] answer.kind \in {"absent", "map"} /\ UpToDate(answer, key, sync[p].val) ->
                  Becomes(p, Outcome(p, "synced"))
            [] answer.kind \in {"absent", "map"} /\ ~UpToDate(answer, key, sync[p].val) ->
                  IF sync[p].apply
                  THEN Becomes(p, [sync[p] EXCEPT !.pc = "write", !.snap = answer, !.last = "none"])
                  ELSE Becomes(p, drift)
        BY <1>3, <1>4, <1>9 DEF MirrorRead
    <2>3. answer.kind \in {"down", "garbled", "absent", "map"}
        BY <1>1, <1>3, AnswerIs DEF MirrorTyped
    <2>4. answer.kind \in {"absent", "map"} /\ UpToDate(answer, key, sync[p].val)
        <3>1. CASE answer.kind \in {"down", "garbled"}
            <4>1. Becomes(p, failed)
                BY <2>2, <3>1
            <4>. QED
                BY <1>5, <1>6, <4>1
        <3>2. CASE answer.kind \in {"absent", "map"} /\ ~UpToDate(answer, key, sync[p].val)
            <4>1. PICK s : s = [sync[p] EXCEPT !.pc = "write", !.snap = answer, !.last = "none"]
                OBVIOUS
            <4>2. s.last = "none"
                BY <1>1, <4>1 DEF Sync
            <4>3. Becomes(p, s) \/ Becomes(p, drift)
                BY <2>2, <3>2, <4>1
            <4>. QED
                BY <1>5, <1>6, <4>2, <4>3
        <3>. QED
            BY <2>3, <3>1, <3>2
    <2>5. kv[e].val[key] = sync[p].val
        BY <1>1, <1>3, <2>4, AnswerIs DEF MirrorTyped, UpToDate
    <2>. QED
        BY <1>3, <2>1, <2>5
<1>. QED
    BY <1>2, <1>7, <1>8, <1>9

(* A write that nobody came in between of leaves what is beside the target. *)
LEMMA WriteIsNarrow ==
    ASSUME MirrorInv, [Next]_vars, NEW p \in Syncers, p \notin touched,
           sync[p].pc = "write", sync'[p] # sync[p]
    PROVE  LET e == EntryOf[Target(p)] IN
           /\ \A k \in Keys \ {KeyOf[Target(p)], SourceKey} : kv'[e].val[k] = kv[e].val[k]
           /\ kv[e].kind = "garbled" => kv'[e] = kv[e]
<1>1. /\ MirrorTyped /\ Ready(sync[p]) /\ sync[p] \in Sync /\ sync \in [Syncers -> Sync] /\ sync[p].pc \in Working
      /\ sync[p].pc # "off" /\ SnapIsFresh(p)
    BY DEF MirrorInv, MirrorTyped, Good, Ready, Working
<1>2. MirrorWrite(p)
    BY <1>1, OwnStep DEF BeginMirror, MirrorSource, MirrorRead, MirrorBack
<1>3. PICK e \in Entries, key \in Keys : e = EntryOf[Target(p)] /\ key = KeyOf[Target(p)]
    BY <1>1, AtATarget
<1>4. sync[p].snap = kv[e] /\ kv[e].kind # "garbled" /\ kv[e] \in Content
    BY <1>1, <1>3 DEF SnapIsFresh, MirrorTyped
<1>5. CASE kv' = kv
    BY <1>5
<1>6. CASE kv' = [kv EXCEPT ![e] = Merged(p)]
    <2>1. kv'[e] = Merged(p)
        BY <1>1, <1>6 DEF MirrorTyped
    <2>2. PICK old, source, v :
             old \in [Keys -> Held] /\ old = kv[e].val /\ source = Mirror(p).source /\ v = sync[p].val
        BY <1>4 DEF Content
    <2>3. Merged(p).val = [old EXCEPT ![key] = v, ![SourceKey] = source]
        BY <1>3, <1>4, <2>2 DEF Merged
    <2>4. \A k \in Keys \ {key, SourceKey} : Merged(p).val[k] = old[k]
        BY <2>2, <2>3
    <2>. QED
        BY <1>3, <1>4, <2>1, <2>2, <2>4
<1>. QED
    BY <1>2, <1>3, <1>5, <1>6 DEF MirrorWrite

(* A mirror says a target is in line only while it holds what the source held,
   and writes nothing beside it but the marker, unless another writer comes
   between its read and its write. *)
THEOREM TargetsHonest == Spec => TargetsAreHonest
<1>1. MirrorInv /\ [Next]_vars =>
         [\A p \in Syncers :
            sync[p].pc \in {"read", "write", "back"} /\ sync'[p] # sync[p] /\ sync'[p].last = "synced" =>
              kv'[EntryOf[Target(p)]].val[KeyOf[Target(p)]] = sync[p].val]_vars
    BY SaidIsHeld
<1>2. MirrorInv /\ [Next]_vars =>
         [\A p \in Syncers \ touched :
            sync[p].pc = "write" /\ sync'[p] # sync[p] =>
              LET e == EntryOf[Target(p)] IN
              /\ \A k \in Keys \ {KeyOf[Target(p)], SourceKey} : kv'[e].val[k] = kv[e].val[k]
              /\ kv[e].kind = "garbled" => kv'[e] = kv[e]]_vars
    BY WriteIsNarrow
<1>. QED
    BY <1>1, <1>2, MirrorsAreSound, PTL DEF Spec, TargetsAreHonest, MirroredIsKept, SiblingsAreKept

------------------------------------------------------------------------------
(* Markers *)

(* Where an entry has a marker before trg first writes it, it is the one its
   mirrors would leave. *)
NoForeignMarker ==
    \A s \in Scenes : \A i \in Indices(s.cfg) : \A t \in Indices(s.cfg[i].targets) :
        s.kv[EntryOf[s.cfg[i].targets[t]]].val[SourceKey] \in Addresses =>
            s.kv[EntryOf[s.cfg[i].targets[t]]].val[SourceKey] = s.cfg[i].source

(* The marker a mirror leaves is its source, which every mirror of that entry
   shares; other writers leave markers alone. *)
LEMMA MarkersStay ==
    ASSUME MirrorInv, MarkersNameTheOrigin, [Next]_vars
    PROVE  MarkersNameTheOrigin'
<1>1. cfg' = cfg /\ MirrorTyped
    BY DEF MirrorInv, Next, vars, mirrorVars, BeginMirror, MirrorSource, MirrorRead, MirrorWrite, MirrorBack, Rival
<1>2. CASE kv' = kv
    BY <1>1, <1>2 DEF MarkersNameTheOrigin, Indices
<1>3. ASSUME NEW p \in Syncers, MirrorWrite(p), kv' # kv
      PROVE  MarkersNameTheOrigin'
    <2>1. /\ Ready(sync[p]) /\ sync[p] \in Sync /\ sync[p].pc = "write" /\ sync[p].pc \in Working
          /\ sync[p].pc # "off"
        BY <1>3 DEF MirrorInv, Good, Ready, Working, MirrorWrite
    <2>2. PICK h, u : /\ h \in 1..Len(cfg) /\ u \in 1..Len(cfg[h].targets) /\ Mirror(p) = cfg[h]
                      /\ Target(p) = cfg[h].targets[u] /\ EntryOf[Target(p)] \in Entries
        BY <1>1, <2>1, AtATarget
    <2>3. kv' = [kv EXCEPT ![EntryOf[Target(p)]] = Merged(p)]
        BY <1>3 DEF MirrorWrite
    <2>4. Merged(p).val[SourceKey] = cfg[h].source
        <3>1. PICK old, key, source, v :
                 old \in [Keys -> Held] /\ old = sync[p].snap.val /\ source = cfg[h].source /\ v = sync[p].val /\ key = KeyOf[Target(p)]
            BY <2>1 DEF Sync, Content
        <3>2. Merged(p).val = [old EXCEPT ![key] = v, ![SourceKey] = source]
            BY <2>2, <3>1 DEF Merged
        <3>. QED
            BY <3>1, <3>2, MirrorAssumption
    <2>5. ASSUME NEW i \in Indices(cfg), NEW t \in Indices(cfg[i].targets),
                 kv'[EntryOf[cfg[i].targets[t]]].val[SourceKey] \in Addresses
          PROVE  kv'[EntryOf[cfg[i].targets[t]]].val[SourceKey] = cfg[i].source
        <3>1. CASE EntryOf[cfg[i].targets[t]] = EntryOf[Target(p)]
            <4>1. h \in Indices(cfg) /\ u \in Indices(cfg[h].targets)
                BY <1>1, <2>2, DeclaredTarget
            <4>2. EntryOf[cfg[i].targets[t]] = EntryOf[cfg[h].targets[u]]
                BY <2>2, <3>1
            <4>3. SharedSource(cfg)
                BY <1>1 DEF MirrorTyped, Accepted
            <4>4. cfg[i].source = cfg[h].source
                BY <4>1, <4>2, <4>3 DEF SharedSource
            <4>. QED
                BY <1>1, <2>2, <2>3, <2>4, <3>1, <4>4 DEF MirrorTyped
        <3>2. CASE EntryOf[cfg[i].targets[t]] # EntryOf[Target(p)]
            <4>1. kv'[EntryOf[cfg[i].targets[t]]] = kv[EntryOf[cfg[i].targets[t]]]
                <5>1. EntryOf[cfg[i].targets[t]] \in Entries
                    BY <1>1, MirrorAssumption DEF MirrorTyped, Accepted
                <5>. QED
                    BY <1>1, <2>3, <3>2, <5>1 DEF MirrorTyped
            <4>. QED
                BY <2>5, <4>1 DEF MarkersNameTheOrigin
        <3>. QED
            BY <3>1, <3>2
    <2>. QED
        BY <1>1, <2>5 DEF MarkersNameTheOrigin, Indices
<1>4. ASSUME NEW e \in Entries, Rival(e)
      PROVE  MarkersNameTheOrigin'
    <2>1. PICK v \in Fresh :
             kv' = [kv EXCEPT ![e] = [kind |-> "map",
                       val |-> [k \in Keys |-> IF @.val[k] \in Addresses THEN @.val[k] ELSE v]]]
        BY <1>4 DEF Rival, Edit
    <2>2. v \notin Addresses
        BY ReadAssumption
    <2>3. ASSUME NEW d \in Entries, kv'[d].val[SourceKey] \in Addresses
          PROVE  kv'[d].val[SourceKey] = kv[d].val[SourceKey]
        <3>1. CASE d = e
            <4>1. kv'[e].val = [k \in Keys |-> IF kv[e].val[k] \in Addresses THEN kv[e].val[k] ELSE v]
                BY <1>1, <2>1 DEF MirrorTyped
            <4>. QED
                BY <2>2, <2>3, <3>1, <4>1, MirrorAssumption
        <3>2. CASE d # e
            BY <1>1, <2>1, <3>2 DEF MirrorTyped
        <3>. QED
            BY <3>1, <3>2
    <2>4. ASSUME NEW i \in Indices(cfg), NEW t \in Indices(cfg[i].targets)
          PROVE  EntryOf[cfg[i].targets[t]] \in Entries
        BY <1>1, MirrorAssumption DEF MirrorTyped, Accepted
    <2>. QED
        BY <1>1, <2>3, <2>4 DEF MarkersNameTheOrigin, Indices
<1>5. kv' = kv \/ (\E p \in Syncers : MirrorWrite(p)) \/ (\E e \in Entries : Rival(e))
    BY DEF Next, ReadStep, BeginFetch, FetchPrimary, FetchNext, BeginMirror, MirrorSource, MirrorRead, MirrorBack,
           vars, readVars
<1>. QED
    BY <1>2, <1>3, <1>4, <1>5

(* The marker beside a mirrored value names the one source of every mirror that
   writes there, whatever the order and overlap of the commands. *)
THEOREM MarkersAreTrue ==
    ASSUME NoForeignMarker
    PROVE  Spec => []MarkersNameTheOrigin
<1>1. Init => MarkersNameTheOrigin
    <2>. SUFFICES ASSUME Init PROVE MarkersNameTheOrigin
        OBVIOUS
    <2>1. PICK s \in Scenes : kv = s.kv /\ cfg = s.cfg
        BY DEF Init, ReadInit
    <2>. QED
        BY <2>1 DEF NoForeignMarker, MarkersNameTheOrigin
<1>. QED
    BY <1>1, MarkersStay, MirrorsAreSound, PTL DEF Spec
------------------------------------------------------------------------------
(* Fetches *)

\* What the i-th address of a read says of it when no round trip fails by
\* chance, and the value it has there.
Asked(r, i) == SaysTo(r, i, Steady(EntryOf[Address(r, i)]))
ValueAt(r, i) == Steady(EntryOf[Address(r, i)]).val[KeyOf[Address(r, i)]]

\* The addresses of a read before the i-th leave the question open.
OpenUpTo(r, i) == \A j \in 1..Len(Chain[r]) : j < i => Asked(r, j) = "unable"

\* Read on its own, r gets the answer a; or it fails.
Settles(r, a) ==
    \E i \in 1..Len(Chain[r]) : OpenUpTo(r, i) /\ Asked(r, i) = "value" /\ a = Answered(ValueAt(r, i), i)
Fails(r) ==
    \E i \in 1..Len(Chain[r]) :
        OpenUpTo(r, i) /\ (Asked(r, i) = "refused" \/ (Asked(r, i) = "unable" /\ i = Len(Chain[r])))

(* A fetch asks on only for a read that was declined, at an address its chain
   has, and has asked every primary by then. *)
FetchShape(s) ==
    /\ s \in Fetch
    /\ s.pc # "off" => s.said = "nothing"
    /\ s.pc = "chains" \/ s.said = "ok" => \A r \in s.wanted : s.got[r].kind # "pending"
    /\ \A r \in s.wanted : s.got[r].kind = "declined" => Len(Chain[r]) > 1
    /\ s.cur # NoRead =>
          s.pc = "chains" /\ s.cur \in s.wanted /\ s.got[s.cur].kind = "declined"
          /\ s.hop \in 2..Len(Chain[s.cur])

(* What an undisturbed fetch has is what each read alone would get. *)
AloneSame(s) ==
    /\ \A r \in s.wanted : s.got[r].kind = "answered" => Settles(r, s.got[r])
    /\ \A r \in s.wanted : s.got[r].kind = "declined" => Asked(r, 1) = "unable"
    /\ s.cur # NoRead => OpenUpTo(s.cur, s.hop)
    /\ s.said = "ok" => \A r \in s.wanted : s.got[r].kind = "answered"
    /\ s.said = "failed" => \E r \in s.wanted : Fails(r)

(* Primaries of one entry whose keys are written together have one value. *)
PairKept(s) ==
    \A r, q \in s.wanted \ Queries :
        /\ EntryOf[Address(r, 1)] \in Paired /\ EntryOf[Address(r, 1)] = EntryOf[Address(q, 1)]
        /\ s.got[r].by = 1 /\ s.got[q].by = 1
        => s.got[r].val = s.got[q].val

Kept(f) == FetchShape(fetch[f]) /\ (f \in calm => AloneSame(fetch[f])) /\ PairKept(fetch[f])

FetchInv ==
    /\ fetch \in [Fetchers -> Fetch]
    /\ \A f \in Fetchers : Kept(f)
    /\ \A e \in Paired : Together(kv[e])

(* What a chain says as a whole, from what its addresses say. *)
LEMMA ResolvedIs ==
    ASSUME NEW r \in Reads
    PROVE  /\ \A a : Settles(r, a) => a = Resolved(r)
           /\ Fails(r) => Resolved(r) = Declined
<1>1. PICK n \in Nat : n = Len(Chain[r]) /\ DOMAIN Chain[r] = 1..n
    <2>1. Chain[r] \in Seq(Addresses)
        BY ReadAssumption
    <2>2. Len(Chain[r]) \in Nat /\ DOMAIN Chain[r] = 1..Len(Chain[r])
        BY <2>1
    <2>. QED
        BY <2>2
<1>. DEFINE settled == {i \in DOMAIN Chain[r] : SaysTo(r, i, Steady(EntryOf[Address(r, i)])) # "unable"}
            first == CHOOSE i \in settled : \A j \in settled : i <= j
<1>2. Resolved(r) = IF settled = {} \/ SaysTo(r, first, Steady(EntryOf[Address(r, first)])) = "refused"
                    THEN Declined
                    ELSE Answered(Steady(EntryOf[Address(r, first)]).val[KeyOf[Address(r, first)]], first)
    BY Zenon DEF Resolved
<1>3. (\E i \in settled : \A j \in settled : i <= j) => first \in settled /\ \A j \in settled : first <= j
    OBVIOUS
<1>4. /\ \A i \in 1..n : i \in settled <=> Asked(r, i) # "unable"
      /\ settled \subseteq 1..n
    BY <1>1 DEF Asked
<1>. HIDE DEF settled, first
<1>5. ASSUME NEW i \in 1..n, OpenUpTo(r, i), Asked(r, i) # "unable" PROVE settled # {} /\ first = i
    <2>1. i \in settled
        BY <1>4, <1>5
    <2>2. ASSUME NEW j \in settled PROVE i <= j
        <3>1. j \in 1..n /\ Asked(r, j) # "unable"
            BY <1>4
        <3>2. ~(j < i)
            BY <1>1, <1>5, <3>1 DEF OpenUpTo
        <3>. QED
            BY <3>1, <3>2
    <2>3. first \in settled /\ \A j \in settled : first <= j
        BY <1>3, <2>1, <2>2
    <2>4. first \in 1..n /\ first <= i /\ i <= first
        BY <1>4, <2>1, <2>2, <2>3
    <2>5. first = i
        BY <2>4
    <2>. QED
        BY <2>1, <2>5
<1>6. ASSUME NEW a, Settles(r, a) PROVE a = Resolved(r)
    <2>1. PICK i \in 1..n : OpenUpTo(r, i) /\ Asked(r, i) = "value" /\ a = Answered(ValueAt(r, i), i)
        BY <1>1, <1>6 DEF Settles
    <2>2. settled # {} /\ first = i
        BY <1>5, <2>1
    <2>. QED
        BY <1>2, <2>1, <2>2 DEF Asked, ValueAt
<1>7. ASSUME Fails(r) PROVE Resolved(r) = Declined
    <2>1. PICK i \in 1..n : OpenUpTo(r, i) /\ (Asked(r, i) = "refused" \/ (Asked(r, i) = "unable" /\ i = n))
        BY <1>1, <1>7 DEF Fails
    <2>2. CASE Asked(r, i) = "refused"
        <3>1. settled # {} /\ first = i
            BY <1>5, <2>1, <2>2
        <3>. QED
            BY <1>2, <2>2, <3>1 DEF Asked
    <2>3. CASE Asked(r, i) = "unable" /\ i = n
        <3>1. ASSUME NEW j \in settled PROVE FALSE
            <4>1. j \in 1..n /\ Asked(r, j) # "unable"
                BY <1>4
            <4>2. j < i
                BY <2>3, <4>1
            <4>. QED
                BY <1>1, <2>1, <4>1, <4>2 DEF OpenUpTo
        <3>. QED
            BY <1>2, <3>1
    <2>. QED
        BY <2>1, <2>2, <2>3
<1>. QED
    BY <1>6, <1>7

(* While nothing is written, every address says what it said. *)
LEMMA SaysTheSame ==
    ASSUME kv' = kv, host' = host
    PROVE  /\ \A r, i : OpenUpTo(r, i)' <=> OpenUpTo(r, i)
           /\ \A r, i : Asked(r, i)' = Asked(r, i)
           /\ \A r, a : Settles(r, a)' <=> Settles(r, a)
           /\ \A r : Fails(r)' <=> Fails(r)
<1>1. \A e : Steady(e)' = Steady(e)
    BY DEF Steady
<1>2. \A r, i : Asked(r, i)' = Asked(r, i) /\ ValueAt(r, i)' = ValueAt(r, i)
    BY <1>1, ZenonT(60) DEF Asked, ValueAt, SaysTo, Says
<1>3. \A r, i : OpenUpTo(r, i)' <=> OpenUpTo(r, i)
    BY <1>2 DEF OpenUpTo
<1>4. \A r, a : Settles(r, a)' <=> Settles(r, a)
    BY <1>2, <1>3 DEF Settles
<1>5. \A r : Fails(r)' <=> Fails(r)
    BY <1>2, <1>3 DEF Fails
<1>. QED
    BY <1>2, <1>3, <1>4, <1>5

(* A fetch that does not move stays as good as it was: what disturbs it is
   noticed. *)
LEMMA FetchStays ==
    ASSUME FetchInv, NEW f \in Fetchers, fetch'[f] = fetch[f],
           f \in calm' => f \in calm /\ kv' = kv /\ host' = host
    PROVE  Kept(f)'
<1>1. Kept(f)
    BY DEF FetchInv
<1>2. FetchShape(fetch[f])' /\ PairKept(fetch[f])'
    BY <1>1 DEF Kept, FetchShape, PairKept
<1>3. ASSUME f \in calm' PROVE AloneSame(fetch[f])'
    <2>1. f \in calm /\ kv' = kv /\ host' = host /\ AloneSame(fetch[f])
        BY <1>1, <1>3 DEF Kept
    <2>2. PICK s : s = fetch[f] /\ s = fetch'[f]
        OBVIOUS
    <2>3. AloneSame(s)'
        BY <2>1, <2>2, SaysTheSame DEF AloneSame
    <2>. QED
        BY <2>2, <2>3 DEF AloneSame
<1>. QED
    BY <1>2, <1>3 DEF Kept
(* A chain has a first address, and every one of its addresses is a key of an
   entry. *)
LEMMA ChainIs ==
    ASSUME NEW r \in Reads
    PROVE  /\ Len(Chain[r]) \in Nat /\ Len(Chain[r]) >= 1
           /\ \A i \in 1..Len(Chain[r]) :
                 Address(r, i) \in Addresses /\ EntryOf[Address(r, i)] \in Entries /\ KeyOf[Address(r, i)] \in Keys
<1>1. Chain[r] \in Seq(Addresses) /\ Chain[r] # <<>>
    BY ReadAssumption
<1>2. Len(Chain[r]) \in Nat /\ Len(Chain[r]) >= 1
    BY <1>1
<1>3. \A i \in 1..Len(Chain[r]) : Address(r, i) \in Addresses
    BY <1>1 DEF Address
<1>. QED
    BY <1>2, <1>3, ReadAssumption

(* What a round trip says of a key: a value only where there is one. *)
LEMMA TripSays ==
    ASSUME MirrorTyped, NEW e \in Entries, NEW answer \in RoundTrip(e), NEW key \in Keys
    PROVE  /\ answer.kind \in {"down", "garbled", "absent", "map"} /\ answer.val[key] \in Held
           /\ Says(answer, key) \in {"unable", "refused", "value"}
           /\ answer.kind \in {"down", "absent"} => Says(answer, key) = "unable"
           /\ answer.kind = "garbled" => Says(answer, key) = "refused"
           /\ Says(answer, key) = "value" =>
                 answer.kind = "map" /\ answer = kv[e] /\ answer.val[key] \in Values \cup Addresses
<1>1. /\ answer.kind \in {"down", "garbled", "absent", "map"}
      /\ answer.kind \in {"absent", "map"} => answer = kv[e] /\ answer \in Content
    BY AnswerIs DEF MirrorTyped
<1>2. answer.val[key] \in Held
    <2>1. kv[e] \in Content
        BY DEF MirrorTyped
    <2>2. answer \in {Bare("down"), Bare("garbled"), kv[e]}
        BY DEF RoundTrip, Steady, HostStates, MirrorTyped
    <2>3. NoValue \in Held
        BY DEF Held
    <2>4. kv[e].val[key] \in Held
        BY <2>1 DEF Content
    <2>. QED
        BY <2>2, <2>3, <2>4, BareIs
<1>3. /\ Says(answer, key) \in {"unable", "refused", "value"}
      /\ answer.kind \in {"down", "absent"} => Says(answer, key) = "unable"
      /\ answer.kind = "garbled" => Says(answer, key) = "refused"
      /\ Says(answer, key) = "value" =>
            answer.kind \notin {"down", "absent", "garbled"} /\ answer.val[key] \notin {NoValue, Twice}
    <2>1. CASE answer.kind \in {"down", "absent"}
        BY <2>1 DEF Says
    <2>2. CASE answer.kind = "garbled"
        BY <2>2 DEF Says
    <2>3. CASE answer.kind = "map"
        <3>1. CASE answer.val[key] = NoValue
            BY <2>3, <3>1 DEF Says
        <3>2. CASE answer.val[key] = Twice
            BY <2>3, <3>2, ReadAssumption DEF Says
        <3>3. CASE answer.val[key] \notin {NoValue, Twice}
            BY <2>3, <3>3 DEF Says
        <3>. QED
            BY <3>1, <3>2, <3>3
    <2>. QED
        BY <1>1, <2>1, <2>2, <2>3
<1>. QED
    BY <1>1, <1>2, <1>3 DEF Held

(* What became of a step of one fetch: the others stay, and so do the entries. *)
LEMMA FetchMoves ==
    ASSUME FetchInv, NEW f \in Fetchers, NEW s, fetch' = [fetch EXCEPT ![f] = s],
           kv' = kv, host' = host,
           calm' = calm \/ calm' = calm \cup {f} \/ calm' = calm \ {f},
           FetchShape(s), f \in calm' => AloneSame(s), PairKept(s)
    PROVE  FetchInv'
<1>1. /\ fetch'[f] = s /\ \A g \in Fetchers : g # f => fetch'[g] = fetch[g]
      /\ fetch' \in [Fetchers -> Fetch]
    BY DEF FetchInv, FetchShape
<1>2. Kept(f)'
    <2>1. f \in calm' => AloneSame(s)'
        BY SaysTheSame DEF AloneSame
    <2>2. FetchShape(fetch[f])' /\ PairKept(fetch[f])'
        BY <1>1 DEF FetchShape, PairKept
    <2>3. f \in calm' => AloneSame(fetch[f])'
        BY <1>1, <2>1 DEF AloneSame
    <2>. QED
        BY <2>2, <2>3 DEF Kept
<1>3. ASSUME NEW g \in Fetchers, g # f PROVE Kept(g)'
    <2>1. g \in calm' => g \in calm
        BY <1>3
    <2>. QED
        BY <1>1, <1>3, <2>1, FetchStays
<1>4. \A e \in Paired : Together(kv[e])'
    BY DEF FetchInv, Together
<1>. QED
    BY <1>1, <1>2, <1>3, <1>4 DEF FetchInv

(* A fetch starts with nothing. *)
LEMMA FetchBegins ==
    ASSUME FetchInv, NEW f \in Fetchers, BeginFetch(f)
    PROVE  FetchInv'
<1>1. PICK w \in Wanted : fetch' = [fetch EXCEPT ![f] = [NoFetch EXCEPT !.pc = "primaries", !.wanted = w]]
    BY DEF BeginFetch
<1>2. PICK s : s = [NoFetch EXCEPT !.pc = "primaries", !.wanted = w]
    OBVIOUS
<1>3. PICK none \in Held : none = NoValue
    BY DEF Held
<1>4. s = [pc |-> "primaries", wanted |-> w, got |-> [r \in Reads |-> Pending], cur |-> NoRead, hop |-> 0, said |-> "nothing"]
    BY <1>2 DEF NoFetch
<1>5. Pending = [kind |-> "pending", val |-> none, by |-> 0] /\ Pending \in Answer
    BY <1>3 DEF Pending, Answer
<1>6. PICK got \in [Reads -> Answer] : got = [r \in Reads |-> Pending]
    BY <1>5
<1>7. s \in Fetch
    BY <1>4, <1>6 DEF Fetch
<1>8. w \subseteq Reads /\ \A r \in w : s.got[r].kind = "pending" /\ s.got[r].by = 0
    BY <1>4, <1>5, ReadAssumption
<1>9. FetchShape(s) /\ AloneSame(s) /\ PairKept(s)
    BY <1>4, <1>7, <1>8 DEF FetchShape, AloneSame, PairKept
<1>. QED
    BY <1>1, <1>2, <1>9, FetchMoves DEF BeginFetch

(* A fetch that ends keeps what it has. *)
LEMMA OverKeeps ==
    ASSUME FetchInv, NEW f \in Fetchers, NEW said \in {"ok", "failed"}, Over(f, said), fetch[f].pc # "off",
           kv' = kv, host' = host, calm' = calm \/ calm' = calm \ {f},
           said = "ok" => \A r \in fetch[f].wanted : fetch[f].got[r].kind = "answered",
           said = "failed" /\ f \in calm' => \E r \in fetch[f].wanted : Fails(r)
    PROVE  FetchInv'
<1>1. PICK s : s = [fetch[f] EXCEPT !.pc = "off", !.said = said, !.cur = NoRead]
    OBVIOUS
<1>2. /\ fetch \in [Fetchers -> Fetch] /\ fetch[f] \in Fetch /\ FetchShape(fetch[f]) /\ PairKept(fetch[f])
      /\ f \in calm => AloneSame(fetch[f])
    BY DEF FetchInv, Kept
<1>3. fetch' = [fetch EXCEPT ![f] = s]
    BY <1>1, <1>2 DEF Over
<1>4. /\ s \in Fetch /\ s.pc = "off" /\ s.said = said /\ s.cur = NoRead
      /\ s.wanted = fetch[f].wanted /\ s.got = fetch[f].got
    BY <1>1, <1>2 DEF Fetch
<1>5. FetchShape(s)
    BY <1>2, <1>4 DEF FetchShape
<1>6. f \in calm' => AloneSame(s)
    BY <1>2, <1>4 DEF AloneSame
<1>7. PairKept(s)
    BY <1>2, <1>4 DEF PairKept
<1>. QED
    BY <1>3, <1>5, <1>6, <1>7, FetchMoves
(* What a group of primaries gets from one round trip: each its own outcome,
   and if that is the answer the entry has, what it would have got alone; the
   fetch fails if one of them would. *)
LEMMA GroupGets ==
    ASSUME MirrorTyped, NEW w \in SUBSET Reads, NEW r \in w,
           NEW answer \in RoundTrip(EntryOf[Address(r, 1)])
    PROVE  /\ r \in Served(w, r) /\ Served(w, r) \subseteq w
           /\ \A q \in Served(w, r) :
                 /\ EntryOf[Address(q, 1)] = EntryOf[Address(r, 1)]
                 /\ Settled(q, answer) \in Answer /\ Settled(q, answer).kind # "pending"
                 /\ Settled(q, answer).by = 1 =>
                       /\ answer = kv[EntryOf[Address(r, 1)]]
                       /\ Settled(q, answer).val = answer.val[KeyOf[Address(q, 1)]]
                       /\ Settled(q, answer).val \in Values \cup Addresses
                 /\ GoesOn(Served(w, r), answer) /\ Settled(q, answer).kind = "declined" => Len(Chain[q]) > 1
           /\ answer = Steady(EntryOf[Address(r, 1)]) /\ GoesOn(Served(w, r), answer) =>
                 \A q \in Served(w, r) :
                    /\ Settled(q, answer).kind = "answered" => Settles(q, Settled(q, answer))
                    /\ Settled(q, answer).kind = "declined" => Asked(q, 1) = "unable"
           /\ answer = Steady(EntryOf[Address(r, 1)]) /\ ~GoesOn(Served(w, r), answer) =>
                 \E q \in Served(w, r) : Fails(q)
<1>1. PICK e, group : e = EntryOf[Address(r, 1)] /\ group = Served(w, r)
    OBVIOUS
<1>2. r \in group /\ group \subseteq w /\ \A q \in group : EntryOf[Address(q, 1)] = e
    BY <1>1 DEF Served
<1>3. \A q \in group : /\ q \in Reads /\ Len(Chain[q]) \in Nat /\ Len(Chain[q]) >= 1 /\ 1 \in 1..Len(Chain[q])
                       /\ KeyOf[Address(q, 1)] \in Keys /\ EntryOf[Address(q, 1)] \in Entries
    <2>. SUFFICES ASSUME NEW q \in group
                  PROVE  /\ q \in Reads /\ Len(Chain[q]) \in Nat /\ Len(Chain[q]) >= 1 /\ 1 \in 1..Len(Chain[q])
                         /\ KeyOf[Address(q, 1)] \in Keys /\ EntryOf[Address(q, 1)] \in Entries
        OBVIOUS
    <2>1. q \in Reads
        BY <1>2
    <2>2. Len(Chain[q]) \in Nat /\ Len(Chain[q]) >= 1
        BY <2>1, ChainIs
    <2>3. 1 \in 1..Len(Chain[q])
        BY <2>2
    <2>. QED
        BY <2>1, <2>2, <2>3, ChainIs
<1>4. e \in Entries /\ answer \in RoundTrip(e)
    BY <1>1, <1>2, <1>3
<1>5. ASSUME NEW q \in group
      PROVE  /\ SaysTo(q, 1, answer) \in {"unable", "refused", "value"}
             /\ answer.kind \in {"down", "garbled", "absent", "map"} /\ answer.val[KeyOf[Address(q, 1)]] \in Held
             /\ answer.kind \in {"down", "absent"} => SaysTo(q, 1, answer) = "unable"
             /\ answer.kind = "garbled" => SaysTo(q, 1, answer) = "refused"
             /\ SaysTo(q, 1, answer) = "value" =>
                   /\ answer = kv[e] /\ answer.kind = "map"
                   /\ answer.val[KeyOf[Address(q, 1)]] \in Values \cup Addresses
    <2>1. KeyOf[Address(q, 1)] \in Keys
        BY <1>3
    <2>. QED
        BY <1>4, <2>1, TripSays DEF SaysTo
<1>6. ASSUME NEW q \in group
      PROVE  /\ SaysTo(q, 1, answer) = "value" =>
                   /\ Settled(q, answer).kind = "answered" /\ Settled(q, answer).by = 1
                   /\ Settled(q, answer).val = answer.val[KeyOf[Address(q, 1)]]
                   /\ Settled(q, answer) = Answered(answer.val[KeyOf[Address(q, 1)]], 1)
             /\ SaysTo(q, 1, answer) # "value" => Settled(q, answer).kind = "declined" /\ Settled(q, answer).by = 0
             /\ Settled(q, answer) \in Answer
    <2>1. PICK v \in Held, none \in Held : v = answer.val[KeyOf[Address(q, 1)]] /\ none = NoValue
        BY <1>5 DEF Held
    <2>2. Answered(v, 1) \in Answer /\ Declined \in Answer
        BY <2>1 DEF Answered, Declined, Answer
    <2>3. Settled(q, answer) = IF SaysTo(q, 1, answer) = "value" THEN Answered(v, 1) ELSE Declined
        BY <2>1 DEF Settled
    <2>. QED
        BY <2>1, <2>2, <2>3 DEF Answered, Declined
<1>7. ASSUME GoesOn(group, answer), NEW q \in group
      PROVE  \/ SaysTo(q, 1, answer) = "value"
             \/ SaysTo(q, 1, answer) = "unable" /\ Len(Chain[q]) > 1
    <2>1. CASE answer.kind = "map"
        BY <1>7, <2>1 DEF GoesOn, HasFallbacks
    <2>2. CASE answer.kind # "map"
        <3>1. answer.kind # "garbled" /\ Len(Chain[q]) > 1
            BY <1>7, <2>2 DEF GoesOn, Declinable, HasFallbacks
        <3>. QED
            BY <1>5, <2>2, <3>1
    <2>. QED
        BY <2>1, <2>2
<1>8. ASSUME ~GoesOn(group, answer)
      PROVE  \E q \in group : \/ SaysTo(q, 1, answer) = "refused"
                              \/ SaysTo(q, 1, answer) = "unable" /\ ~(Len(Chain[q]) > 1)
    <2>1. CASE answer.kind = "map"
        <3>1. PICK q \in group : ~(SaysTo(q, 1, answer) = "value" \/ (SaysTo(q, 1, answer) = "unable" /\ HasFallbacks(q)))
            BY <1>8, <2>1 DEF GoesOn
        <3>. QED
            BY <1>5, <3>1 DEF HasFallbacks
    <2>2. CASE answer.kind = "garbled"
        BY <1>2, <1>5, <2>2
    <2>3. CASE answer.kind \in {"down", "absent"}
        <3>1. PICK q \in group : ~HasFallbacks(q)
            BY <1>8, <2>3 DEF GoesOn, Declinable
        <3>. QED
            BY <1>5, <2>3, <3>1 DEF HasFallbacks
    <2>. QED
        BY <1>2, <1>5, <2>1, <2>2, <2>3
<1>9. ASSUME answer = Steady(e), NEW q \in group
      PROVE  /\ Asked(q, 1) = SaysTo(q, 1, answer) /\ ValueAt(q, 1) = answer.val[KeyOf[Address(q, 1)]]
             /\ OpenUpTo(q, 1)
    <2>1. Steady(EntryOf[Address(q, 1)]) = answer
        BY <1>2, <1>9
    <2>. QED
        BY <1>3, <2>1 DEF Asked, ValueAt, OpenUpTo
<1>10. ASSUME answer = Steady(e), GoesOn(group, answer), NEW q \in group
       PROVE  /\ Settled(q, answer).kind = "answered" => Settles(q, Settled(q, answer))
              /\ Settled(q, answer).kind = "declined" => Asked(q, 1) = "unable"
    <2>1. CASE SaysTo(q, 1, answer) = "value"
        <3>1. Settles(q, Settled(q, answer))
            BY <1>3, <1>6, <1>9, <1>10, <2>1 DEF Settles
        <3>. QED
            BY <1>6, <2>1, <3>1
    <2>2. CASE SaysTo(q, 1, answer) = "unable"
        BY <1>6, <1>9, <1>10, <2>2
    <2>. QED
        BY <1>7, <1>10, <2>1, <2>2
<1>11. ASSUME answer = Steady(e), ~GoesOn(group, answer) PROVE \E q \in group : Fails(q)
    <2>1. PICK q \in group : \/ SaysTo(q, 1, answer) = "refused"
                             \/ SaysTo(q, 1, answer) = "unable" /\ ~(Len(Chain[q]) > 1)
        BY <1>8, <1>11
    <2>2. 1 \in 1..Len(Chain[q]) /\ (~(Len(Chain[q]) > 1) => 1 = Len(Chain[q]))
        <3>1. PICK n \in Nat : n = Len(Chain[q]) /\ n >= 1
            BY <1>3
        <3>2. n >= 1
            BY <3>1
        <3>3. ~(n > 1) => 1 = n
            BY <3>2
        <3>4. ~(Len(Chain[q]) > 1) => 1 = Len(Chain[q])
            BY <3>1, <3>3
        <3>. QED
            BY <1>3, <3>4
    <2>3. Fails(q)
        BY <1>9, <1>11, <2>1, <2>2 DEF Fails
    <2>. QED
        BY <2>3
<1>. QED
    BY <1>1, <1>2, <1>5, <1>6, <1>7, <1>10, <1>11
(* A round trip for the primaries of one entry. *)
LEMMA PrimaryKeeps ==
    ASSUME FetchInv, MirrorTyped, NEW f \in Fetchers, FetchPrimary(f)
    PROVE  FetchInv'
<1>1. /\ fetch \in [Fetchers -> Fetch] /\ fetch[f] \in Fetch /\ FetchShape(fetch[f]) /\ PairKept(fetch[f])
      /\ f \in calm => AloneSame(fetch[f])
      /\ fetch[f].pc = "primaries" /\ kv' = kv /\ host' = host
    BY DEF FetchInv, Kept, FetchPrimary
<1>2. PICK w \in SUBSET Reads, got \in [Reads -> Answer] : w = fetch[f].wanted /\ got = fetch[f].got
    BY <1>1, ReadAssumption DEF Fetch
<1>3. fetch[f].cur = NoRead /\ fetch[f].said = "nothing"
    BY <1>1 DEF FetchShape
<1>4. CASE fetch' = [fetch EXCEPT ![f].pc = "chains"] /\ calm' = calm /\ {r \in w : got[r].kind = "pending"} = {}
    <2>1. PICK s : s = [fetch[f] EXCEPT !.pc = "chains"]
        OBVIOUS
    <2>2. fetch' = [fetch EXCEPT ![f] = s]
        BY <1>1, <1>4, <2>1
    <2>3. /\ s \in Fetch /\ s.pc = "chains" /\ s.said = "nothing" /\ s.cur = NoRead /\ s.wanted = w /\ s.got = got
        BY <1>1, <1>2, <1>3, <2>1 DEF Fetch
    <2>4. FetchShape(s)
        BY <1>1, <1>2, <1>4, <2>3 DEF FetchShape
    <2>5. f \in calm' => AloneSame(s)
        BY <1>1, <1>2, <1>4, <2>3 DEF AloneSame
    <2>6. PairKept(s)
        BY <1>1, <1>2, <2>3 DEF PairKept
    <2>. QED
        BY <1>1, <1>4, <2>2, <2>4, <2>5, <2>6, FetchMoves
<1>5. ASSUME NEW r \in w, NEW answer \in RoundTrip(EntryOf[Address(r, 1)]),
             IF GoesOn(Served(w, r), answer)
             THEN fetch' = [fetch EXCEPT ![f].got = [q \in Reads |-> IF q \in Served(w, r) THEN Settled(q, answer) ELSE @[q]]]
             ELSE Over(f, "failed"),
             Noticed(f, EntryOf[Address(r, 1)], answer)
      PROVE  FetchInv'
    <2>. DEFINE e == EntryOf[Address(r, 1)]
                group == Served(w, r)
    <2>1. e = EntryOf[Address(r, 1)] /\ group = Served(w, r)
        OBVIOUS
    <2>2. /\ r \in group /\ group \subseteq w
          /\ \A q \in group :
                /\ EntryOf[Address(q, 1)] = e
                /\ Settled(q, answer) \in Answer /\ Settled(q, answer).kind # "pending"
                /\ Settled(q, answer).by = 1 =>
                      /\ answer = kv[e]
                      /\ Settled(q, answer).val = answer.val[KeyOf[Address(q, 1)]]
                      /\ Settled(q, answer).val \in Values \cup Addresses
                /\ GoesOn(group, answer) /\ Settled(q, answer).kind = "declined" => Len(Chain[q]) > 1
          /\ answer = Steady(e) /\ GoesOn(group, answer) =>
                \A q \in group :
                   /\ Settled(q, answer).kind = "answered" => Settles(q, Settled(q, answer))
                   /\ Settled(q, answer).kind = "declined" => Asked(q, 1) = "unable"
          /\ answer = Steady(e) /\ ~GoesOn(group, answer) => \E q \in group : Fails(q)
        BY GroupGets
    <2>. HIDE DEF e, group
    <2>3. /\ calm' = calm \/ calm' = calm \ {f}
          /\ f \in calm' => f \in calm /\ answer = Steady(e)
        BY <1>5, <2>1 DEF Noticed
    <2>4. CASE ~GoesOn(group, answer)
        <3>1. Over(f, "failed")
            BY <1>5, <2>1, <2>4
        <3>2. f \in calm' => \E q \in fetch[f].wanted : Fails(q)
            BY <1>2, <2>2, <2>3, <2>4
        <3>. QED
            BY <1>1, <2>3, <3>1, <3>2, OverKeeps
    <2>5. CASE GoesOn(group, answer)
        <3>1. PICK new : new = [q \in Reads |-> IF q \in group THEN Settled(q, answer) ELSE got[q]]
            OBVIOUS
        <3>2. new \in [Reads -> Answer]
            BY <2>2, <3>1
        <3>3. PICK s : s = [fetch[f] EXCEPT !.got = new]
            OBVIOUS
        <3>4. fetch' = [fetch EXCEPT ![f] = s]
            BY <1>1, <1>2, <1>5, <2>1, <2>5, <3>1, <3>3
        <3>5. s \in Fetch /\ s.pc = "primaries" /\ s.said = "nothing" /\ s.cur = NoRead /\ s.wanted = w /\ s.got = new
            BY <1>1, <1>2, <1>3, <3>2, <3>3 DEF Fetch
        <3>6. \A q \in w : /\ q \in group => new[q] = Settled(q, answer)
                           /\ q \notin group => new[q] = got[q]
            BY <3>1
        <3>7. FetchShape(s)
            BY <1>1, <1>2, <2>2, <2>5, <3>5, <3>6 DEF FetchShape
        <3>8. f \in calm' => AloneSame(s)
            BY <1>1, <1>2, <2>2, <2>3, <2>5, <3>5, <3>6 DEF AloneSame
        <3>9. PairKept(s)
            <4>. SUFFICES ASSUME NEW q \in w \ Queries, NEW o \in w \ Queries,
                                 EntryOf[Address(q, 1)] \in Paired, EntryOf[Address(q, 1)] = EntryOf[Address(o, 1)],
                                 new[q].by = 1, new[o].by = 1
                          PROVE  new[q].val = new[o].val
                BY <3>5 DEF PairKept
            <4>1. CASE q \in group /\ o \in group
                <5>1. PICK v, x : v = Settled(q, answer).val /\ x = Settled(o, answer).val
                    OBVIOUS
                <5>2. /\ v = kv[e].val[KeyOf[Address(q, 1)]] /\ v \in Values \cup Addresses
                      /\ x = kv[e].val[KeyOf[Address(o, 1)]] /\ x \in Values \cup Addresses
                    BY <2>2, <3>6, <4>1, <5>1
                <5>3. Together(kv[e]) /\ EntryOf[Address(q, 1)] = e
                    BY <2>2, <4>1 DEF FetchInv
                <5>4. KeyOf[Address(q, 1)] \in Keys /\ KeyOf[Address(o, 1)] \in Keys
                    <6>1. q \in Reads /\ o \in Reads
                        OBVIOUS
                    <6>2. 1 \in 1..Len(Chain[q]) /\ 1 \in 1..Len(Chain[o])
                        BY <6>1, ChainIs
                    <6>. QED
                        BY <6>1, <6>2, ChainIs
                <5>5. v = x
                    BY <5>2, <5>3, <5>4 DEF Together
                <5>. QED
                    BY <3>6, <4>1, <5>1, <5>5
            <4>2. CASE q \notin group /\ o \notin group
                BY <1>1, <1>2, <3>6, <4>2 DEF PairKept
            <4>3. q \in group <=> o \in group
                BY <2>1 DEF Served
            <4>. QED
                BY <4>1, <4>2, <4>3
        <3>. QED
            BY <1>1, <2>3, <3>4, <3>7, <3>8, <3>9, FetchMoves
    <2>. QED
        BY <2>4, <2>5
<1>6. \/ fetch' = [fetch EXCEPT ![f].pc = "chains"] /\ calm' = calm /\ {r \in w : got[r].kind = "pending"} = {}
      \/ \E r \in w : \E answer \in RoundTrip(EntryOf[Address(r, 1)]) :
            /\ IF GoesOn(Served(w, r), answer)
               THEN fetch' = [fetch EXCEPT ![f].got = [q \in Reads |-> IF q \in Served(w, r) THEN Settled(q, answer) ELSE @[q]]]
               ELSE Over(f, "failed")
            /\ Noticed(f, EntryOf[Address(r, 1)], answer)
    BY <1>2 DEF FetchPrimary
<1>. QED
    BY <1>4, <1>5, <1>6

(* A round trip for the next address of a read that was declined. *)
LEMMA NextKeeps ==
    ASSUME FetchInv, MirrorTyped, NEW f \in Fetchers, FetchNext(f)
    PROVE  FetchInv'
<1>1. /\ fetch \in [Fetchers -> Fetch] /\ fetch[f] \in Fetch /\ FetchShape(fetch[f]) /\ PairKept(fetch[f])
      /\ f \in calm => AloneSame(fetch[f])
      /\ fetch[f].pc = "chains" /\ kv' = kv /\ host' = host
    BY DEF FetchInv, Kept, FetchNext
<1>2. PICK w \in SUBSET Reads, got \in [Reads -> Answer] : w = fetch[f].wanted /\ got = fetch[f].got
    BY <1>1, ReadAssumption DEF Fetch
<1>3. PICK cur, i, open, at :
         /\ cur = fetch[f].cur /\ cur \in Reads \cup {NoRead}
         /\ open = {r \in w : got[r].kind = "declined"}
         /\ at = IF cur = NoRead THEN open ELSE {cur}
         /\ i = IF cur = NoRead THEN 2 ELSE fetch[f].hop
    BY <1>1 DEF Fetch
<1>4. \/ open = {} /\ Over(f, "ok") /\ calm' = calm
      \/ \E r \in at : \E answer \in RoundTrip(EntryOf[Address(r, i)]) :
            /\ CASE SaysTo(r, i, answer) = "value" ->
                      fetch' = [fetch EXCEPT ![f].cur = NoRead,
                                   ![f].got[r] = Answered(answer.val[KeyOf[Address(r, i)]], i)]
                 [] SaysTo(r, i, answer) = "unable" /\ i < Len(Chain[r]) ->
                      fetch' = [fetch EXCEPT ![f].cur = r, ![f].hop = i + 1]
                 [] OTHER -> Over(f, "failed")
            /\ Noticed(f, EntryOf[Address(r, i)], answer)
    BY <1>2, <1>3 DEF FetchNext
<1>5. \A r \in w : got[r].kind # "pending"
    BY <1>1, <1>2 DEF FetchShape
<1>6. CASE open = {} /\ Over(f, "ok") /\ calm' = calm
    <2>1. \A r \in w : got[r].kind = "answered"
        <3>1. \A r \in w : got[r].kind # "declined"
            BY <1>3, <1>6
        <3>2. \A r \in w : got[r].kind \in {"pending", "declined", "answered"}
            BY <1>2 DEF Answer
        <3>. QED
            BY <1>5, <3>1, <3>2
    <2>. QED
        BY <1>1, <1>2, <1>6, <2>1, OverKeeps
<1>7. ASSUME NEW r \in at
      PROVE  /\ r \in w /\ got[r].kind = "declined" /\ i \in 2..Len(Chain[r])
             /\ f \in calm => OpenUpTo(r, i)
    <2>1. CASE cur = NoRead
        <3>1. r \in w /\ got[r].kind = "declined" /\ i = 2
            BY <1>3, <1>7, <2>1
        <3>2. Len(Chain[r]) > 1
            BY <1>1, <1>2, <3>1 DEF FetchShape
        <3>3. Len(Chain[r]) \in Nat
            BY <3>1, ChainIs
        <3>4. f \in calm => OpenUpTo(r, 2)
            <4>1. f \in calm => Asked(r, 1) = "unable"
                BY <1>1, <1>2, <3>1 DEF AloneSame
            <4>2. \A j \in 1..Len(Chain[r]) : j < 2 => j = 1
                BY <3>3
            <4>. QED
                BY <4>1, <4>2 DEF OpenUpTo
        <3>5. 2 \in 2..Len(Chain[r])
            BY <3>2, <3>3
        <3>. QED
            BY <3>1, <3>4, <3>5
    <2>2. CASE cur # NoRead
        <3>1. r = fetch[f].cur /\ i = fetch[f].hop /\ fetch[f].cur # NoRead
            BY <1>3, <1>7, <2>2
        <3>. QED
            BY <1>1, <1>2, <3>1 DEF FetchShape, AloneSame
    <2>. QED
        BY <2>1, <2>2
<1>8. ASSUME NEW r \in at, NEW answer \in RoundTrip(EntryOf[Address(r, i)]),
             CASE SaysTo(r, i, answer) = "value" ->
                      fetch' = [fetch EXCEPT ![f].cur = NoRead,
                                   ![f].got[r] = Answered(answer.val[KeyOf[Address(r, i)]], i)]
               [] SaysTo(r, i, answer) = "unable" /\ i < Len(Chain[r]) ->
                      fetch' = [fetch EXCEPT ![f].cur = r, ![f].hop = i + 1]
               [] OTHER -> Over(f, "failed"),
             Noticed(f, EntryOf[Address(r, i)], answer)
      PROVE  FetchInv'
    <2>1. PICK n \in Nat : n = Len(Chain[r]) /\ n >= 1
        BY <1>7, <1>8, ChainIs
    <2>2. /\ r \in w /\ r \in Reads /\ got[r].kind = "declined" /\ i \in 2..n /\ i \in Nat
          /\ f \in calm => OpenUpTo(r, i)
        BY <1>7, <1>8, <2>1
    <2>3. i \in 1..Len(Chain[r])
        BY <2>1, <2>2
    <2>4. PICK e \in Entries, key \in Keys : e = EntryOf[Address(r, i)] /\ key = KeyOf[Address(r, i)]
        BY <2>2, <2>3, ChainIs
    <2>5. SaysTo(r, i, answer) \in {"unable", "refused", "value"} /\ answer.val[key] \in Held
        BY <1>8, <2>4, TripSays DEF SaysTo
    <2>6. /\ calm' = calm \/ calm' = calm \ {f}
          /\ f \in calm' => f \in calm /\ OpenUpTo(r, i) /\ Asked(r, i) = SaysTo(r, i, answer)
                            /\ ValueAt(r, i) = answer.val[key]
        BY <1>8, <2>2, <2>4 DEF Noticed, Asked, ValueAt
    <2>7. CASE SaysTo(r, i, answer) = "value"
        <3>1. PICK v \in Held : v = answer.val[key]
            BY <2>5
        <3>2. PICK a : a = Answered(v, i)
            OBVIOUS
        <3>3. a \in Answer /\ a.kind = "answered" /\ a.by = i
            BY <2>2, <3>1, <3>2 DEF Answered, Answer
        <3>4. PICK new : new = [got EXCEPT ![r] = a]
            OBVIOUS
        <3>5. new \in [Reads -> Answer] /\ new[r] = a /\ \A q \in Reads : q # r => new[q] = got[q]
            BY <2>2, <3>3, <3>4
        <3>6. PICK s : s = [fetch[f] EXCEPT !.cur = NoRead, !.got = new]
            OBVIOUS
        <3>7. fetch' = [fetch EXCEPT ![f] = s]
            <4>1. fetch' = [fetch EXCEPT ![f].cur = NoRead, ![f].got[r] = a]
                BY <1>8, <2>4, <2>7, <3>1, <3>2
            <4>. QED
                BY <1>1, <1>2, <3>4, <3>6, <4>1 DEF Fetch
        <3>8. s \in Fetch /\ s.pc = "chains" /\ s.said = fetch[f].said /\ s.cur = NoRead /\ s.wanted = w /\ s.got = new
            BY <1>1, <1>2, <3>5, <3>6 DEF Fetch
        <3>9. FetchShape(s)
            BY <1>1, <1>2, <3>3, <3>5, <3>8 DEF FetchShape
        <3>10. f \in calm' => AloneSame(s)
            <4>1. f \in calm' => Settles(r, a)
                BY <2>3, <2>6, <2>7, <3>1, <3>2 DEF Settles
            <4>2. s.said = "nothing"
                BY <1>1, <3>8 DEF FetchShape
            <4>. QED
                BY <1>1, <1>2, <2>6, <3>3, <3>5, <3>8, <4>1, <4>2 DEF AloneSame
        <3>11. PairKept(s)
            <4>1. a.by # 1
                BY <2>2, <3>3
            <4>. QED
                BY <1>1, <1>2, <3>5, <3>8, <4>1 DEF PairKept
        <3>. QED
            BY <1>1, <2>6, <3>7, <3>9, <3>10, <3>11, FetchMoves
    <2>8. CASE SaysTo(r, i, answer) = "unable" /\ i < n
        <3>1. fetch' = [fetch EXCEPT ![f].cur = r, ![f].hop = i + 1]
            BY <1>8, <2>1, <2>8
        <3>2. PICK s : s = [fetch[f] EXCEPT !.cur = r, !.hop = i + 1]
            OBVIOUS
        <3>3. fetch' = [fetch EXCEPT ![f] = s]
            BY <1>1, <3>1, <3>2
        <3>4. /\ s \in Fetch /\ s.pc = "chains" /\ s.said = fetch[f].said /\ s.cur = r /\ s.hop = i + 1
              /\ s.wanted = w /\ s.got = got
            <4>1. PICK m \in Nat : m = i + 1
                BY <2>2
            <4>2. s = [fetch[f] EXCEPT !.cur = r, !.hop = m]
                BY <3>2, <4>1
            <4>3. r \in Reads \cup {NoRead}
                BY <2>2
            <4>. QED
                BY <1>1, <1>2, <4>1, <4>2, <4>3 DEF Fetch
        <3>5. i + 1 \in 2..Len(Chain[r])
            BY <2>1, <2>2, <2>8
        <3>6. FetchShape(s)
            BY <1>1, <1>2, <1>5, <2>2, <3>4, <3>5 DEF FetchShape
        <3>7. f \in calm' => OpenUpTo(r, i + 1)
            <4>1. ASSUME f \in calm', NEW j \in 1..Len(Chain[r]), j < i + 1 PROVE Asked(r, j) = "unable"
                <5>1. CASE j = i
                    BY <2>6, <2>8, <4>1, <5>1
                <5>2. CASE j # i
                    <6>1. j < i
                        BY <2>1, <2>2, <4>1, <5>2
                    <6>. QED
                        BY <2>6, <4>1, <6>1 DEF OpenUpTo
                <5>. QED
                    BY <5>1, <5>2
            <4>. QED
                BY <4>1 DEF OpenUpTo
        <3>8. f \in calm' => AloneSame(s)
            <4>1. s.said = "nothing"
                BY <1>1, <3>4 DEF FetchShape
            <4>. QED
                BY <1>1, <1>2, <2>6, <3>4, <3>7, <4>1 DEF AloneSame
        <3>9. PairKept(s)
            BY <1>1, <1>2, <3>4 DEF PairKept
        <3>. QED
            BY <1>1, <2>6, <3>3, <3>6, <3>8, <3>9, FetchMoves
    <2>9. CASE SaysTo(r, i, answer) = "refused" \/ (SaysTo(r, i, answer) = "unable" /\ i = n)
        <3>1. Over(f, "failed")
            BY <1>8, <2>1, <2>9
        <3>2. f \in calm' => Fails(r)
            BY <2>1, <2>3, <2>6, <2>9 DEF Fails
        <3>. QED
            BY <1>1, <1>2, <2>2, <2>6, <3>1, <3>2, OverKeeps
    <2>10. i < n \/ i = n
        BY <2>2
    <2>. QED
        BY <2>5, <2>7, <2>8, <2>9, <2>10
<1>. QED
    BY <1>4, <1>6, <1>8
(* Who writes an entry disturbs every fetch, and keeps together what was
   written together. *)
LEMMA WritersKeep ==
    ASSUME FetchInv, MirrorInv, fetch' = fetch, host' = host,
           \/ \E p \in Syncers :
                 BeginMirror(p) \/ MirrorSource(p) \/ MirrorRead(p) \/ MirrorWrite(p) \/ MirrorBack(p)
           \/ \E e \in Entries : Rival(e)
    PROVE  FetchInv'
<1>1. ASSUME NEW f \in Fetchers PROVE f \in calm' => f \in calm /\ kv' = kv
    <2>1. ASSUME NEW p \in Syncers,
                 BeginMirror(p) \/ MirrorSource(p) \/ MirrorRead(p) \/ MirrorWrite(p) \/ MirrorBack(p)
          PROVE  f \in calm' => f \in calm /\ kv' = kv
        <3>1. f # p
            BY MirrorAssumption
        <3>. QED
            BY <2>1, <3>1, ZenonT(60) DEF BeginMirror, MirrorSource, MirrorRead, MirrorWrite, MirrorBack, Seen
    <2>2. ASSUME NEW e \in Entries, Rival(e) PROVE f \notin calm'
        BY <2>2 DEF Rival, Edit
    <2>. QED
        BY <2>1, <2>2
<1>2. ASSUME NEW f \in Fetchers PROVE Kept(f)'
    BY <1>1, FetchStays
<1>3. MirrorTyped /\ kv \in [Entries -> Content]
    BY DEF MirrorInv, MirrorTyped
<1>4. ASSUME NEW d \in Paired PROVE Together(kv'[d])
    <2>1. d \in Entries /\ d \notin Writable /\ Together(kv[d])
        BY ReadAssumption, MirrorAssumption DEF FetchInv
    <2>2. CASE kv'[d] = kv[d]
        BY <2>1, <2>2
    <2>3. ASSUME NEW p \in Syncers, MirrorWrite(p) PROVE kv'[d] = kv[d]
        <3>1. EntryOf[Target(p)] # d
            BY <1>3, <2>1, <2>3, AtATarget DEF MirrorInv, Good, Working, MirrorWrite
        <3>. QED
            BY <1>3, <2>1, <2>3, <3>1 DEF MirrorWrite
    <2>4. ASSUME NEW e \in Entries, Rival(e) PROVE Together(kv'[d])
        <3>1. PICK v \in Fresh :
                 kv' = [kv EXCEPT ![e] = [kind |-> "map",
                           val |-> [k \in Keys |-> IF @.val[k] \in Addresses THEN @.val[k] ELSE v]]]
            BY <2>4 DEF Rival, Edit
        <3>2. CASE d = e
            <4>1. kv'[d].val = [k \in Keys |-> IF kv[d].val[k] \in Addresses THEN kv[d].val[k] ELSE v]
                BY <1>3, <2>1, <3>1, <3>2
            <4>2. \A k \in Keys : kv'[d].val[k] = v
                BY <2>1, <4>1 DEF Together
            <4>3. v \notin Addresses
                BY ReadAssumption
            <4>. QED
                BY <4>2, <4>3 DEF Together
        <3>3. CASE d # e
            BY <1>3, <2>1, <2>2, <3>1, <3>3
        <3>. QED
            BY <3>2, <3>3
    <2>5. ASSUME NEW p \in Syncers, BeginMirror(p) \/ MirrorSource(p) \/ MirrorRead(p) \/ MirrorBack(p)
          PROVE  kv'[d] = kv[d]
        BY <2>5 DEF BeginMirror, MirrorSource, MirrorRead, MirrorBack
    <2>. QED
        BY <2>2, <2>3, <2>4, <2>5
<1>5. \A e \in Paired : Together(kv[e])'
    BY <1>4 DEF Together
<1>. QED
    BY <1>2, <1>5 DEF FetchInv

(* What holds of fetches at first. *)
LEMMA FetchesBegin ==
    ASSUME Init
    PROVE  FetchInv
<1>1. PICK s \in Scenes : ReadInit(s)
    BY DEF Init
<1>2. \A e \in Paired : Together(kv[e])
    BY <1>1, ReadAssumption DEF ReadInit, IsScene
<1>3. PICK none \in Held : none = NoValue
    BY DEF Held
<1>4. Pending = [kind |-> "pending", val |-> none, by |-> 0] /\ Pending \in Answer
    BY <1>3 DEF Pending, Answer
<1>5. PICK got \in [Reads -> Answer] : got = [r \in Reads |-> Pending]
    BY <1>4
<1>6. NoFetch = [pc |-> "off", wanted |-> {}, got |-> got, cur |-> NoRead, hop |-> 0, said |-> "nothing"]
    BY <1>5 DEF NoFetch
<1>7. PICK nobody \in Wanted \cup {{}} : nobody = {}
    OBVIOUS
<1>8. NoFetch = [pc |-> "off", wanted |-> nobody, got |-> got, cur |-> NoRead, hop |-> 0, said |-> "nothing"]
    BY <1>6, <1>7
<1>9. NoFetch \in Fetch
    BY <1>5, <1>7, <1>8 DEF Fetch
<1>10. fetch = [f \in Fetchers |-> NoFetch]
    BY <1>1 DEF ReadInit
<1>11. /\ NoFetch.pc = "off" /\ NoFetch.said = "nothing" /\ NoFetch.cur = NoRead
       /\ \A r \in NoFetch.wanted : FALSE
    BY <1>6
<1>12. FetchShape(NoFetch) /\ AloneSame(NoFetch) /\ PairKept(NoFetch)
    BY <1>9, <1>11 DEF FetchShape, AloneSame, PairKept
<1>. QED
    BY <1>2, <1>9, <1>10, <1>12 DEF FetchInv, Kept

(* The invariant of fetching. *)
LEMMA FetchesAreSound == Spec => []FetchInv
<1>1. ASSUME MirrorInv, FetchInv, [Next]_vars PROVE FetchInv'
    <2>1. CASE ReadStep
        <3>1. PICK f \in Fetchers : BeginFetch(f) \/ FetchPrimary(f) \/ FetchNext(f)
            BY <2>1 DEF ReadStep
        <3>2. MirrorTyped
            BY <1>1 DEF MirrorInv
        <3>. QED
            BY <1>1, <3>1, <3>2, FetchBegins, PrimaryKeeps, NextKeeps
    <2>2. CASE \/ \E p \in Syncers :
                    BeginMirror(p) \/ MirrorSource(p) \/ MirrorRead(p) \/ MirrorWrite(p) \/ MirrorBack(p)
               \/ \E e \in Entries : Rival(e)
        <3>1. fetch' = fetch /\ host' = host
            BY <2>2 DEF BeginMirror, MirrorSource, MirrorRead, MirrorWrite, MirrorBack, Rival, Edit
        <3>. QED
            BY <1>1, <2>2, <3>1, WritersKeep
    <2>3. CASE UNCHANGED vars
        <3>1. fetch' = fetch /\ calm' = calm /\ kv' = kv /\ host' = host
            BY <2>3 DEF vars, readVars
        <3>2. ASSUME NEW f \in Fetchers PROVE Kept(f)'
            BY <1>1, <3>1, FetchStays
        <3>. QED
            BY <1>1, <3>1, <3>2 DEF FetchInv, Together
    <2>. QED
        BY <1>1, <2>1, <2>2, <2>3 DEF Next
<1>. QED
    BY <1>1, FetchesBegin, MirrorsAreSound, PTL DEF Spec

(* Reads that share a round trip get what each would have got alone, unless a
   failure or another writer came in between, and values written together are
   read together whoever writes when (fetch_grouped, read_primaries,
   resolve_chain). *)
THEOREM GroupsAreSafe == Spec => []GroupingIsSafe
<1>1. ASSUME FetchInv PROVE GroupingIsSafe
    <2>1. ASSUME NEW f \in Fetchers
          PROVE  FetchShape(fetch[f]) /\ (f \in calm => AloneSame(fetch[f])) /\ PairKept(fetch[f])
                 /\ fetch[f].wanted \subseteq Reads
        <3>1. Kept(f) /\ fetch[f] \in Fetch
            BY <1>1 DEF FetchInv
        <3>. QED
            BY <3>1, ReadAssumption DEF Kept, Fetch
    <2>2. ASSUME NEW f \in calm \cap Fetchers, fetch[f].said = "ok", NEW r \in fetch[f].wanted
          PROVE  fetch[f].got[r] = Resolved(r)
        <3>1. Settles(r, fetch[f].got[r]) /\ r \in Reads
            BY <2>1, <2>2 DEF AloneSame
        <3>. QED
            BY <3>1, ResolvedIs
    <2>3. ASSUME NEW f \in calm \cap Fetchers, fetch[f].said = "failed"
          PROVE  \E r \in fetch[f].wanted : Resolved(r) = Declined
        <3>1. PICK r \in fetch[f].wanted : Fails(r) /\ r \in Reads
            BY <2>1, <2>3 DEF AloneSame
        <3>. QED
            BY <3>1, ResolvedIs
    <2>4. GroupingChangesNoAnswer
        BY <2>2, <2>3 DEF GroupingChangesNoAnswer
    <2>5. PairsAreNotTorn
        BY <2>1 DEF PairsAreNotTorn, PairKept
    <2>. QED
        BY <2>4, <2>5 DEF GroupingIsSafe
<1>. QED
    BY <1>1, FetchesAreSound, PTL
==============================================================================
