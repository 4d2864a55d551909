------------------------------ MODULE KeyValue ------------------------------
(***************************************************************************)
(* What the rest of trg takes a secrets backend for (secrets/mod.rs):      *)
(* entries that are read and written whole, one call at a time.  A call    *)
(* takes effect at one instant between its start and its answer, or, if    *)
(* it was given up, perhaps later or never.  Where something that is not   *)
(* the store answers in its place, even a set may be said to be done that  *)
(* was not.                                                                *)
(***************************************************************************)
CONSTANTS
    Callers,    \* whoever calls
    Entries,    \* what is addressed
    Maps,       \* what an entry may hold
    Absent,     \* it holds nothing
    Garbled     \* it holds something that is no map

VARIABLES
    store,  \* Entries -> Maps \cup {Absent, Garbled}
    ask,    \* Callers -> the call in progress, and what the last one answered
    late,   \* calls that were given up and may yet take effect
    veiled  \* something that is not the store may answer in its place

vars == <<store, ask, late, veiled>>

Nothing == [kind |-> "nothing", map |-> Absent]
Idle == [op |-> "none", entry |-> CHOOSE e \in Entries : TRUE, map |-> Absent,
         did |-> "nothing", seen |-> Absent, said |-> Nothing]

Init ==
    /\ store \in [Entries -> Maps \cup {Absent, Garbled}]
    /\ ask = [c \in Callers |-> Idle]
    /\ late = {}
    /\ veiled \in BOOLEAN

Request(what, entry, map) == [Idle EXCEPT !.op = what, !.entry = entry, !.map = map]

Asked ==
    {Request(what, e, Absent) : what \in {"get", "delete"}, e \in Entries} \cup
    {Request("set", e, m) : e \in Entries, m \in Maps}

Ask(c) ==
    /\ ask[c].op = "none"
    /\ ask'[c] \in Asked
    /\ ask' = [ask EXCEPT ![c] = ask'[c]]
    /\ UNCHANGED <<store, late, veiled>>

\* What the entry holds once `a` has taken effect.
After(a) == IF a.op = "get" THEN store ELSE [store EXCEPT ![a.entry] = a.map]

TakeEffect(c) ==
    /\ ask[c].op # "none" /\ ask[c].did = "nothing"
    /\ store' = After(ask[c])
    /\ ask' = [ask EXCEPT ![c].did = "took", ![c].seen = store[ask[c].entry]]
    /\ UNCHANGED <<late, veiled>>

\* Something between the caller and the entry answers for it: a get or a delete
\* finds nothing, or a veil over the store says yes to anything.
Hide(c) ==
    /\ ask[c].op \in {"get", "delete"} \/ (ask[c].op = "set" /\ veiled)
    /\ ask[c].did # "hidden"
    /\ ask' = [ask EXCEPT ![c].did = "hidden"]
    /\ UNCHANGED <<store, late, veiled>>

\* What may be said of a call.
Honest(a, said) ==
    CASE said.kind = "value" -> a.op = "get" /\ a.did = "took" /\ a.seen \in Maps /\ said.map = a.seen
      [] said.kind = "absent" -> a.op = "get" /\ (a.did = "hidden" \/ (a.did = "took" /\ a.seen = Absent))
      [] said.kind = "done" -> a.op \in {"set", "delete"} /\ a.did # "nothing"
      [] said.kind = "refused" -> ~(a.op = "get" /\ a.did = "took" /\ a.seen # Garbled)
      [] said.kind = "down" -> TRUE
      [] OTHER -> FALSE

Pending(a) == [op |-> a.op, entry |-> a.entry, map |-> a.map]

Answer(c) ==
    /\ ask[c].op # "none"
    /\ \E kind \in {"value", "absent", "done", "refused", "down"}, m \in Maps \cup {Absent} :
          LET said == [kind |-> kind, map |-> m]
          IN /\ Honest(ask[c], said)
             /\ ask' = [ask EXCEPT ![c] = [Idle EXCEPT !.said = said]]
             /\ \/ UNCHANGED late
                \/ kind = "down" /\ ask[c].did = "nothing" /\ late' = late \cup {Pending(ask[c])}
    /\ UNCHANGED <<store, veiled>>

TakeEffectLate ==
    /\ \E r \in late : /\ store' = After(r)
                       /\ late' \in {late, late \ {r}}
    /\ UNCHANGED <<ask, veiled>>

Next == (\E c \in Callers : Ask(c) \/ TakeEffect(c) \/ Hide(c) \/ Answer(c)) \/ TakeEffectLate

Spec == Init /\ [][Next]_vars
=============================================================================
