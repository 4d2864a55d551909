--------------------------- MODULE BackendsProofs ---------------------------
(* Proofs that the calls of the secrets backends implement the contract of    *)
(* KeyValue, and that tokens are fresh and stay home, for any number of       *)
(* callers, entries, logins, upsets and requests adrift.                      *)
EXTENDS Backends, TLAPS

Ops == {"get", "set", "delete"}
Saids == {"nothing", "value", "absent", "done", "malformed", "unsupported"} \cup AllowsFallback

CallState ==
    [pc : {"idle", "token", "tool", "sent", "answered", "exited"}, entry : Entries \cup {NoCall.entry},
     op : Ops \cup {"none"}, map : Maps \cup {Absent}, token : Nat, at : Hosts,
     sends : Ops \cup {"none"}, hops : Nat,
     reply : [status : Nat, errors : BOOLEAN, body : Held, parses : BOOLEAN],
     did : {"nothing", "hidden", "took"}, seen : Held,
     said : [kind : Saids, map : Maps \cup {Absent}]]

(* What may be read off an answer that came: a 200 of a write is OpenBao's or
   that of something in its place, an empty 200 of a get is a hidden entry, any
   other is what was seen, and a bare 404 is a miss. *)
Earned(a) ==
    LET r == a.reply IN
    /\ r.parses \/ r.body = Garbled
    /\ r.status = 200 /\ a.op # "get" => a.did # "nothing"
    /\ r.status = 200 /\ r.body = Absent /\ a.op = "get" => a.did = "hidden"
    /\ r.status = 200 /\ r.body = Garbled => ~(a.op = "get" /\ a.did = "took" /\ a.seen # Garbled)
    /\ r.status = 200 /\ r.body \in Maps => a.op = "get" /\ a.did = "took" /\ a.seen = r.body
    /\ r.status = 404 /\ ~r.errors /\ a.op # "set" =>
          a.did = "hidden" \/ (a.op = "get" /\ a.did = "took" /\ a.seen = Absent)

(* A call in progress: it has asked for something, has not been answered, has
   taken effect only if its request arrived, and is still the request that was
   made. *)
Sound(a) ==
    /\ a \in CallState
    /\ (a.pc = "idle") = (a.op = "none")
    /\ a.op # "none" => a.entry \in Entries /\ (a.op = "set" <=> a.map \in Maps)
    /\ a.pc # "idle" => a.said = Nothing
    /\ a.pc \in {"token", "tool", "sent"} => a.did = "nothing"
    /\ a.pc \in {"token", "sent", "answered"} => a.sends = a.op /\ a.at # "other"
    /\ a.pc = "exited" => a.did = "took"
    /\ a.pc = "answered" => Earned(a) /\ (a.did # "nothing" => site.at[a.at] \notin Redirects)

CallInv ==
    /\ site \in Sites
    /\ store \in [Entries -> Held] /\ file.n \in Nat /\ logins \in Nat
    /\ tools \in [Tools -> {"works", "locked", "missing", "hangs"}]
    /\ call \in [Callers -> CallState]
    /\ \A c \in Callers : Sound(call[c])
    /\ \A r \in adrift : r.map \in Held

(* A caller whose token nothing touched since it called has read the token that
   is in the file, and OpenBao said 403 only to one it does not honour. *)
Fresh(a) ==
    /\ a.pc \in {"sent", "answered"} => file.kind = "token" /\ a.token = file.n
    /\ a.pc = "answered" /\ a.reply.status = 403 => a.token \notin honoured
    /\ a.said.kind \in {"unauthorized", "unauthenticated"} /\ a.entry \in Addressable
          => ~(file.kind = "token" /\ file.n \in honoured)

TokenInv ==
    /\ steady \subseteq Callers
    /\ \A c \in steady : Fresh(call[c])

------------------------------------------------------------------------------
(* The values a call goes through. *)

\* What no call and an answered one look like.
LEMMA CallShapes ==
    /\ NoCall \in CallState /\ Nothing.kind = "nothing" /\ Nothing.map = Absent
    /\ NoCall.pc = "idle" /\ NoCall.op = "none" /\ NoCall.map = Absent /\ NoCall.token = 0
    /\ NoCall.at = "addr" /\ NoCall.hops = 0 /\ NoCall.did = "nothing" /\ NoCall.seen = Absent
    /\ NoCall.said = Nothing
    /\ \A a \in CallState, kind \in Saids, m \in Maps \cup {Absent} :
          LET b == Says(a, kind, m) IN
          /\ b \in CallState /\ b.pc = "idle" /\ b.op = "none" /\ b.map = Absent
          /\ b.did = "nothing" /\ b.seen = Absent /\ b.said = [kind |-> kind, map |-> m]
          /\ b.entry = a.entry /\ b.token = a.token
<1> DEFINE E == CHOOSE e \in Entries : TRUE
<1>1. NoCall.entry = E /\ Nothing = [kind |-> "nothing", map |-> Absent]
  BY DEF NoCall, Nothing
<1>2. NoCall = [pc |-> "idle", entry |-> E, op |-> "none", map |-> Absent,
                token |-> 0, at |-> "addr", sends |-> "none", hops |-> 0,
                reply |-> [status |-> 0, errors |-> FALSE, body |-> Absent, parses |-> TRUE],
                did |-> "nothing", seen |-> Absent, said |-> Nothing]
  BY DEF NoCall
<1>3. NoCall \in CallState
  BY <1>1 DEF NoCall, Nothing, CallState, Ops, Saids, Held, Hosts
<1> HIDE DEF E
<1>4. ASSUME NEW a \in CallState, NEW kind \in Saids, NEW m \in Maps \cup {Absent}
      PROVE  LET b == Says(a, kind, m) IN
          /\ b \in CallState /\ b.pc = "idle" /\ b.op = "none" /\ b.map = Absent
          /\ b.did = "nothing" /\ b.seen = Absent /\ b.said = [kind |-> kind, map |-> m]
          /\ b.entry = a.entry /\ b.token = a.token
  <2> DEFINE b == Says(a, kind, m)
             say == [kind |-> kind, map |-> m]
  <2>1. b = [NoCall EXCEPT !.said = say, !.entry = a.entry, !.token = a.token]
    BY DEF Says
  <2>2. a.entry \in Entries \cup {E} /\ a.token \in Nat /\ say \in [kind : Saids, map : Maps \cup {Absent}]
    BY <1>1 DEF CallState
  <2>3. Absent \in Held
    BY DEF Held
  <2> HIDE DEF say
  <2>4. b = [pc |-> "idle", entry |-> a.entry, op |-> "none", map |-> Absent,
             token |-> a.token, at |-> "addr", sends |-> "none", hops |-> 0,
             reply |-> [status |-> 0, errors |-> FALSE, body |-> Absent, parses |-> TRUE],
             did |-> "nothing", seen |-> Absent, said |-> say]
    BY <2>1, <1>2
  <2> HIDE DEF b
  <2>5. b \in CallState
    BY <2>4, <2>2, <2>3, <1>1 DEF CallState, Ops, Hosts
  <2>6. b.pc = "idle" /\ b.op = "none" /\ b.map = Absent /\ b.did = "nothing" /\ b.seen = Absent
        /\ b.said = say /\ b.entry = a.entry /\ b.token = a.token
    BY <2>4
  <2> QED BY <2>5, <2>6 DEF b, say
<1>5. Nothing.kind = "nothing" /\ Nothing.map = Absent
  BY <1>1
<1> QED BY <1>2, <1>3, <1>4, <1>5

\* The maps, nothing and something undecodable are told apart.
LEMMA HeldFacts ==
    /\ Absent \notin Maps /\ Garbled \notin Maps /\ Absent # Garbled
    /\ Absent \in Held /\ Garbled \in Held /\ Maps \subseteq Held
    /\ \A m \in Held : m = Absent \/ m = Garbled \/ m \in Maps
BY BackendAssumption DEF Held

\* An answered call keeps its entry and its token.
LEMMA SaysShapes ==
    ASSUME NEW a \in CallState, NEW kind \in Saids, NEW m \in Maps \cup {Absent}
    PROVE  /\ Says(a, kind, m).pc = "idle" /\ Says(a, kind, m).said.kind = kind
           /\ Says(a, kind, m).entry = a.entry /\ Says(a, kind, m).token = a.token
<1> DEFINE b == Says(a, kind, m)
<1>1. b.pc = "idle" /\ b.said = [kind |-> kind, map |-> m] /\ b.entry = a.entry /\ b.token = a.token
  BY CallShapes
<1> HIDE DEF b
<1>2. b.said.kind = kind
  BY <1>1
<1> QED BY <1>1, <1>2 DEF b

\* An answered call is sound, whatever it is told.
LEMMA SaysSound ==
    ASSUME NEW a \in CallState, NEW kind \in Saids, NEW m \in Maps \cup {Absent}
    PROVE  Sound(Says(a, kind, m))
BY CallShapes DEF Sound

\* A step of one call is a step of its entry in the table of calls.
LEMMA OneCall ==
    ASSUME CallInv, NEW c \in Callers, NEW b, Becomes(c, b)
    PROVE  /\ call'[c] = b
           /\ \A d \in Callers : d # c => call'[d] = call[d]
           /\ b \in CallState => call' \in [Callers -> CallState]
BY DEF CallInv, Becomes

------------------------------------------------------------------------------
(* What the steps of a call do, and that each leaves it sound. *)

\* BeginCall asks for one operation on one entry.
LEMMA BeginMakes ==
    ASSUME CallInv, NEW c \in Callers, BeginCall(c)
    PROVE  LET b == call'[c] IN
           /\ Becomes(c, b) /\ Sound(b)
           /\ call[c].pc = "idle"
           /\ b.entry \in Entries /\ b.op \in Ops /\ b.did = "nothing" /\ b.seen = Absent
           /\ b.said = Nothing /\ (IF b.op = "set" THEN b.map \in Maps ELSE b.map = Absent)
           /\ b.pc \in {"token", "tool"}
<1>1. PICK e \in site.used, op \in {"get", "set", "delete"}, m \in Maps \cup {Absent} :
         /\ op = "set" <=> m \in Maps
         /\ Becomes(c, [NoCall EXCEPT !.entry = e, !.op = op, !.map = m, !.sends = op, !.token = call[c].token,
                            !.pc = IF KindOf[e] = "openbao" THEN "token" ELSE "tool"])
  BY DEF BeginCall
<1> DEFINE b == [NoCall EXCEPT !.entry = e, !.op = op, !.map = m, !.sends = op, !.token = call[c].token,
                            !.pc = IF KindOf[e] = "openbao" THEN "token" ELSE "tool"]
<1>2. call'[c] = b
  BY <1>1, OneCall
<1>3. e \in Entries
  BY BackendAssumption DEF CallInv, Site
<1>4. b = [NoCall EXCEPT !.entry = e, !.op = op, !.map = m, !.sends = op, !.token = b.token, !.pc = b.pc]
      /\ b.token = call[c].token /\ b.token \in Nat /\ b.pc \in {"token", "tool"}
  BY CallShapes DEF CallInv, CallState, NoCall
<1>5. b \in CallState /\ b.entry = e /\ b.op = op /\ b.map = m /\ b.sends = op /\ b.did = "nothing"
      /\ b.seen = Absent /\ b.said = Nothing /\ b.at = "addr"
  BY <1>3, <1>4 DEF NoCall, CallState, Ops, Saids, Held, Hosts, Nothing
<1>6. Sound(b)
  BY <1>3, <1>4, <1>5, <1>1 DEF Sound
<1>7. call[c].pc = "idle"
  BY DEF BeginCall
<1>8. IF b.op = "set" THEN b.map \in Maps ELSE b.map = Absent
  BY <1>1, <1>5
<1> QED BY <1>1, <1>2, <1>3, <1>4, <1>5, <1>6, <1>7, <1>8 DEF Ops

(* What a step of a call is to whoever asked: nothing, an answer of something
   else on its way, the operation itself, or the answer. *)
Kept(a, b) == b.op = a.op /\ b.entry = a.entry /\ b.map = a.map /\ b.said = a.said
Silent(a, b) == Kept(a, b) /\ b.did = a.did /\ b.seen = a.seen
Hides(a, b) ==
    /\ Kept(a, b) /\ b.did = "hidden" /\ b.seen = a.seen
    /\ a.op \in {"get", "delete"} \/ (a.op = "set" /\ Veil)
    /\ a.did # "hidden"
Takes(a, b) ==
    /\ Kept(a, b) /\ b.did = "took" /\ b.seen = store[a.entry]
    /\ a.op # "none" /\ a.did = "nothing"
Tells(a, b) ==
    /\ a.op # "none"
    /\ \E kind \in Saids \ {"nothing"}, m \in Maps \cup {Absent} :
          b = Says(a, kind, m) /\ Contract!Honest(Contracted(a), Contracted(b).said)

\* Every word a call is told means one of the contract's.
LEMMA Words ==
    ASSUME NEW a \in CallState, NEW kind \in Saids, NEW m \in Maps \cup {Absent}
    PROVE  LET said == Contracted(Says(a, kind, m)).said IN
           /\ said.map = m
           /\ kind \in AllowsFallback => said.kind = "down"
           /\ kind \in {"malformed", "unsupported"} => said.kind = "refused"
           /\ kind \in {"nothing", "value", "absent", "done"} => said.kind = kind
<1> DEFINE b == Says(a, kind, m)
<1>1. b.said = [kind |-> kind, map |-> m]
  BY CallShapes
<1> HIDE DEF b
<1>2. Contracted(b).said = [kind |-> CASE kind \in AllowsFallback -> "down"
                          [] kind \in {"malformed", "unsupported"} -> "refused"
                          [] OTHER -> kind, map |-> m]
  BY <1>1 DEF Contracted
<1> QED BY <1>2 DEF b, AllowsFallback

\* A call that is told it failed is told nothing it could be held to.
LEMMA FailureTells ==
    ASSUME NEW a \in CallState, a.op # "none", NEW kind \in AllowsFallback
    PROVE  Tells(a, Says(a, kind, Absent))
<1>1. kind \in Saids \ {"nothing"}
  BY DEF AllowsFallback, Saids
<1>2. Contracted(Says(a, kind, Absent)).said.kind = "down"
  BY <1>1, Words
<1>3. Contract!Honest(Contracted(a), Contracted(Says(a, kind, Absent)).said)
  BY <1>2 DEF Contract!Honest
<1> QED BY <1>1, <1>3 DEF Tells

(* The answer that came in, of a call whose entry is x's. *)
Came(b, x, status, errors, body) ==
    /\ b \in CallState /\ b.pc = "answered" /\ b.entry = x.entry /\ b.op = x.op /\ b.map = x.map
    /\ b.token = x.token /\ b.at = x.at /\ b.sends = x.sends /\ b.did = x.did /\ b.seen = x.seen
    /\ b.said = x.said
    /\ b.reply.status = status /\ (b.reply.errors <=> errors) /\ b.reply.body = body
    /\ b.reply.parses \/ body = Garbled

\* What an answer that comes in makes of a call.
LEMMA RepliedShapes ==
    ASSUME NEW a \in CallState, NEW status \in Nat, NEW body \in Held
    PROVE  /\ Came(Replied(a, status, FALSE, body), a, status, FALSE, body)
           /\ Came(Replied(a, status, TRUE, body), a, status, TRUE, body)
<1>1. ASSUME NEW errors \in BOOLEAN PROVE Came(Replied(a, status, errors, body), a, status, errors, body)
  BY DEF Replied, CallState, Came
<1> QED BY ZenonT(60) DEF Replied, CallState, Came

\* Nor does a body that is no JSON.
LEMMA NoJsonShapes ==
    ASSUME NEW a \in CallState
    PROVE  Came(NoJson(Replied(a, 200, FALSE, Garbled)), a, 200, FALSE, Garbled)
<1> DEFINE x == Replied(a, 200, FALSE, Garbled)
           r == x.reply
           y == [x EXCEPT !.reply = [r EXCEPT !.parses = FALSE]]
<1>1. Came(x, a, 200, FALSE, Garbled)
  BY RepliedShapes, HeldFacts, ZenonT(100)
<1>2. x \in CallState /\ r \in [status : Nat, errors : BOOLEAN, body : Held, parses : BOOLEAN]
  BY <1>1, ZenonT(100) DEF Came, CallState
<1>3. NoJson(x) = y
  BY DEF NoJson
<1> HIDE DEF x
<1> DEFINE q == [r EXCEPT !.parses = FALSE]
<1>6. q \in [status : Nat, errors : BOOLEAN, body : Held, parses : BOOLEAN]
      /\ q.status = r.status /\ q.errors = r.errors /\ q.body = r.body
  <2> HIDE DEF r
  <2> QED BY <1>2
<1>7. y = [x EXCEPT !.reply = q]
  OBVIOUS
<1> HIDE DEF q, y
<1>4. /\ y \in CallState /\ y.reply = q
      /\ y.pc = x.pc /\ y.entry = x.entry /\ y.op = x.op /\ y.map = x.map /\ y.token = x.token /\ y.at = x.at
      /\ y.sends = x.sends /\ y.did = x.did /\ y.seen = x.seen /\ y.said = x.said
  BY <1>2, <1>6, <1>7 DEF CallState
<1>5. Came(y, a, 200, FALSE, Garbled)
  BY <1>1, <1>4, <1>6 DEF Came
<1> QED BY <1>3, <1>5 DEF x, y, q

\* ReadToken refuses what no URL spells and a file without a token.
LEMMA TokenMakes ==
    ASSUME CallInv, NEW c \in Callers, ReadToken(c)
    PROVE  LET a == call[c]  b == call'[c] IN
           /\ Becomes(c, b) /\ Sound(b) /\ store' = store
           /\ Silent(a, b) \/ Tells(a, b)
<1> DEFINE a == call[c]
<1>1. a \in CallState /\ Sound(a) /\ a.pc = "token" /\ a.op # "none"
  BY DEF ReadToken, CallInv, Sound
<1>2. ASSUME NEW kind \in {"unauthorized", "unauthenticated"}, Becomes(c, Says(a, kind, Absent))
      PROVE  /\ Becomes(c, call'[c]) /\ Sound(call'[c]) /\ Tells(a, call'[c])
  BY <1>1, <1>2, OneCall, FailureTells, SaysSound DEF AllowsFallback, Saids
<1>3. ASSUME Becomes(c, [a EXCEPT !.pc = "sent", !.token = TokenRead(c)])
      PROVE  Becomes(c, call'[c]) /\ Sound(call'[c]) /\ Silent(a, call'[c])
  <2> DEFINE b == [a EXCEPT !.pc = "sent", !.token = TokenRead(c)]
  <2>1. call'[c] = b
    BY <1>3, OneCall
  <2>2. /\ b \in CallState /\ b.pc = "sent" /\ b.op = a.op /\ b.entry = a.entry /\ b.map = a.map
        /\ b.said = a.said /\ b.did = a.did /\ b.seen = a.seen /\ b.sends = a.sends /\ b.at = a.at
    BY <1>1 DEF CallState, CallInv, TokenRead
  <2> HIDE DEF b
  <2>3. Sound(b) /\ Silent(a, b)
    BY <1>1, <2>2 DEF Sound, Silent, Kept
  <2> QED BY <2>1, <2>3, <1>3 DEF b
<1> QED BY <1>1, <1>2, <1>3 DEF ReadToken

\* Where a request is, one thing stands.
LEMMA PlaceFacts ==
    ASSUME CallInv, NEW h \in Hosts
    PROVE  LET r == site.at[h] IN
           /\ r \in Places /\ r.to \in Hosts /\ (r \in Redirects) = (r.is \in {"kept", "rewritten"})
           /\ r.is \in {"bao", "front", "page", "kept", "rewritten"}
<1>1. site \in Site
  BY BackendAssumption DEF CallInv
<1> QED BY <1>1 DEF Site, Places, Redirects, Hosts

\* Serve: what stands there answers for the entry, or acts on the request.
LEMMA ServeMakes ==
    ASSUME CallInv, NEW c \in Callers, Serve(c)
    PROVE  LET a == call[c]  b == call'[c] IN
           /\ Becomes(c, b) /\ Sound(b) /\ a.op # "none"
           /\ ((Silent(a, b) \/ Hides(a, b)) /\ store' = store) \/ (Takes(a, b) /\ store' = Applied(a))
           /\ b.pc = "answered" /\ b.token = a.token /\ (b.reply.status = 403 => a.token \notin honoured)
<1> DEFINE a == call[c]
           b == call'[c]
           took == [a EXCEPT !.did = "took", !.seen = store[a.entry]]
           Goal == /\ Becomes(c, b) /\ Sound(b)
                   /\ ((Silent(a, b) \/ Hides(a, b)) /\ store' = store) \/ (Takes(a, b) /\ store' = Applied(a))
                   /\ b.pc = "answered" /\ b.token = a.token /\ (b.reply.status = 403 => a.token \notin honoured)
<1>1. /\ a \in CallState /\ Sound(a) /\ a.pc = "sent" /\ a.op \in Ops /\ a.did = "nothing" /\ a.sends = a.op
      /\ a.entry \in Entries /\ a.said = Nothing /\ a.at # "other"
  BY DEF Serve, CallInv, Sound, CallState
<1>2. store[a.entry] \in Held
  BY <1>1 DEF CallInv
<1>3. took \in CallState /\ took.did = "took" /\ took.seen = store[a.entry] /\ took.pc = a.pc
      /\ took.op = a.op /\ took.entry = a.entry /\ took.map = a.map /\ took.said = a.said
      /\ took.sends = a.sends /\ took.at = a.at /\ took.token = a.token
  BY <1>1, <1>2 DEF CallState
<1>4. Hidden(a) \in CallState /\ Hidden(a).did = (IF a.op = "set" THEN "nothing" ELSE "hidden")
      /\ Hidden(a).seen = a.seen /\ Hidden(a).op = a.op /\ Hidden(a).entry = a.entry /\ Hidden(a).map = a.map
      /\ Hidden(a).said = a.said /\ Hidden(a).sends = a.sends /\ Hidden(a).at = a.at /\ Hidden(a).token = a.token
  BY <1>1 DEF Hidden, Veiled, CallState
<1>22. Veiled(a) \in CallState /\ Veiled(a).did = "hidden"
      /\ Veiled(a).seen = a.seen /\ Veiled(a).op = a.op /\ Veiled(a).entry = a.entry /\ Veiled(a).map = a.map
      /\ Veiled(a).said = a.said /\ Veiled(a).sends = a.sends /\ Veiled(a).at = a.at /\ Veiled(a).token = a.token
  BY <1>1 DEF Veiled, CallState
<1> HIDE DEF took, a, b
<1> DEFINE here == site.at[a.at] \notin Redirects
<1>21. site' = site /\ (site.at[a.at].is \in {"bao", "front", "page"} => here)
  BY <1>1, PlaceFacts DEF Serve, World, CallState
<1>20. /\ a \in CallState /\ Hidden(a) \in CallState /\ took \in CallState
       /\ Absent \in Held /\ Garbled \in Held /\ store[a.entry] \in Held
  BY <1>1, <1>2, <1>3, <1>4, HeldFacts
<1>5. ASSUME NEW x \in CallState, NEW status \in Nat, NEW body \in Held
      PROVE  /\ Becomes(c, Replied(x, status, FALSE, body)) => Becomes(c, b) /\ Came(b, x, status, FALSE, body)
             /\ Becomes(c, Replied(x, status, TRUE, body)) => Becomes(c, b) /\ Came(b, x, status, TRUE, body)
  BY OneCall, RepliedShapes DEF b
<1> HIDE DEF here
<1>6. ASSUME NEW status \in {403, 404, 503}, store' = store, here,
             status = 403 => a.token \notin honoured,
             \/ Becomes(c, Replied(a, status, TRUE, Absent))
             \/ Becomes(c, Replied(Hidden(a), status, FALSE, Absent))
      PROVE  Goal
  <2>1. /\ Becomes(c, b) /\ b \in CallState /\ b.pc = "answered" /\ b.entry = a.entry /\ b.op = a.op /\ b.map = a.map
        /\ b.token = a.token /\ b.at = a.at /\ b.sends = a.sends /\ b.seen = a.seen
        /\ b.said = a.said /\ b.reply.status = status /\ (b.reply.parses \/ b.reply.body = Garbled)
        /\ b.did = IF b.reply.errors \/ a.op = "set" THEN "nothing" ELSE "hidden"
    <3>1. CASE Becomes(c, Replied(a, status, TRUE, Absent))
      <4>s. status \in Nat
        OBVIOUS
      <4>1. Becomes(c, b)
        BY <3>1, <1>5, <1>20, <4>s
      <4>2. Came(b, a, status, TRUE, Absent)
        BY <3>1, <1>5, <1>20, <4>s
      <4> QED BY <4>1, <4>2, <1>1 DEF Came
    <3>2. CASE Becomes(c, Replied(Hidden(a), status, FALSE, Absent))
      <4>s. status \in Nat
        OBVIOUS
      <4>1. Becomes(c, b) /\ Came(b, Hidden(a), status, FALSE, Absent)
        BY <3>2, <1>5, <1>20, <4>s
      <4> QED BY <4>1, <1>1, <1>4 DEF Came
    <3> QED BY <3>1, <3>2, <1>6
  <2>2. Sound(b)
    BY <2>1, <1>1, <1>6, <1>21 DEF Sound, Earned, here
  <2>3. Silent(a, b) \/ Hides(a, b)
    BY <2>1, <1>1 DEF Silent, Hides, Kept, Ops
  <2> QED BY <2>1, <2>2, <2>3, <1>6
<1>7. ASSUME store' = store, Becomes(c, Replied(a, 307, FALSE, Absent))
      PROVE  Goal
  <2>1. /\ Becomes(c, b) /\ b \in CallState /\ b.pc = "answered" /\ b.entry = a.entry /\ b.op = a.op /\ b.map = a.map
        /\ b.token = a.token /\ b.at = a.at /\ b.sends = a.sends /\ b.seen = a.seen
        /\ b.said = a.said /\ b.reply.status = 307 /\ b.did = a.did /\ (b.reply.parses \/ b.reply.body = Garbled)
    <3> DEFINE status == 307
    <3>2. status \in Nat /\ status = 307
      OBVIOUS
    <3>4. Becomes(c, Replied(a, status, FALSE, Absent))
      BY <1>7
    <3> HIDE DEF status
    <3>3. Becomes(c, b) /\ Came(b, a, status, FALSE, Absent)
      BY <3>2, <3>4, <1>5, <1>20, ZenonT(100)
    <3>1. Becomes(c, b) /\ Came(b, a, 307, FALSE, Absent)
      BY <3>2, <3>3
    <3> QED BY <3>1, <1>1 DEF Came
  <2>2. Sound(b)
    BY <2>1, <1>1 DEF Sound, Earned
  <2>3. Silent(a, b)
    BY <2>1, <1>1 DEF Silent, Kept
  <2> QED BY <2>1, <2>2, <2>3, <1>7
<1>23. ASSUME here, Veil, store' = store, NEW body \in {Absent, Garbled},
              \/ Becomes(c, Replied(Veiled(a), 200, FALSE, body))
              \/ body = Garbled /\ Becomes(c, NoJson(Replied(Veiled(a), 200, FALSE, body)))
       PROVE  Goal
  <2>1. Becomes(c, b) /\ Came(b, Veiled(a), 200, FALSE, body)
    <3>1. CASE Becomes(c, Replied(Veiled(a), 200, FALSE, body))
      <4>1. body \in Held
        BY <1>20
      <4> QED BY <3>1, <4>1, <1>5, <1>22, ZenonT(100)
    <3>2. CASE body = Garbled /\ Becomes(c, NoJson(Replied(Veiled(a), 200, FALSE, body)))
      <4>1. Becomes(c, NoJson(Replied(Veiled(a), 200, FALSE, Garbled)))
        BY <3>2
      <4>2. Came(NoJson(Replied(Veiled(a), 200, FALSE, Garbled)), Veiled(a), 200, FALSE, Garbled)
        BY <1>22, NoJsonShapes
      <4>3. b = NoJson(Replied(Veiled(a), 200, FALSE, Garbled))
        BY <4>1, OneCall DEF b
      <4> QED BY <4>1, <4>2, <4>3, <3>2
    <3> QED BY <3>1, <3>2, <1>23
  <2>2. /\ Becomes(c, b) /\ b \in CallState /\ b.pc = "answered" /\ b.entry = a.entry /\ b.op = a.op /\ b.map = a.map
        /\ b.token = a.token /\ b.at = a.at /\ b.sends = a.sends /\ b.seen = a.seen
        /\ b.said = a.said /\ b.reply.status = 200 /\ b.reply.body = body /\ b.did = "hidden" /\ (b.reply.parses \/ b.reply.body = Garbled)
    BY <2>1, <1>22 DEF Came
  <2>3. Sound(b)
    <3>1. body \notin Maps
      BY HeldFacts
    <3>2. Earned(b)
      BY <2>2, <3>1 DEF Earned
    <3> QED BY <2>2, <3>2, <1>1, <1>21, <1>23 DEF Sound, here
  <2>4. Hides(a, b)
    BY <2>2, <1>1, <1>23 DEF Hides, Kept, Ops
  <2> QED BY <2>2, <2>3, <2>4, <1>23
<1>8. ASSUME here, a.op = "get", store' = store, store[a.entry] # Absent, Becomes(c, Replied(Hidden(a), 200, FALSE, Absent))
      PROVE  Goal
  <2>1. /\ Becomes(c, b) /\ b \in CallState /\ b.pc = "answered" /\ b.entry = a.entry /\ b.op = a.op /\ b.map = a.map
        /\ b.token = a.token /\ b.at = a.at /\ b.sends = a.sends /\ b.seen = a.seen
        /\ b.said = a.said /\ b.reply.status = 200 /\ ~b.reply.errors /\ b.did = "hidden"
        /\ b.reply.body = Absent /\ (b.reply.parses \/ b.reply.body = Garbled)
    <3>1. Becomes(c, b) /\ Came(b, Hidden(a), 200, FALSE, Absent)
      BY <1>8, <1>5, <1>20, ZenonT(60)
    <3> QED BY <3>1, <1>8, <1>1, <1>4 DEF Came
  <2>2. Sound(b)
    BY <2>1, <1>1, <1>8, <1>8, <1>21, HeldFacts DEF Sound, Earned, here
  <2>3. Hides(a, b)
    BY <2>1, <1>1, <1>8 DEF Hides, Kept
  <2> QED BY <2>1, <2>2, <2>3, <1>8
<1>9. ASSUME here, a.op = "get", store' = store,
             Becomes(c, Replied(took, IF store[a.entry] = Absent THEN 404 ELSE 200, FALSE, store[a.entry]))
      PROVE  Goal
  <2>1. /\ Becomes(c, b) /\ b \in CallState /\ b.pc = "answered" /\ b.entry = a.entry /\ b.op = a.op /\ b.map = a.map
        /\ b.token = a.token /\ b.at = a.at /\ b.sends = a.sends /\ b.seen = store[a.entry]
        /\ b.said = a.said /\ ~b.reply.errors /\ b.did = "took"
        /\ b.reply.status = (IF store[a.entry] = Absent THEN 404 ELSE 200)
        /\ b.reply.body = store[a.entry] /\ (b.reply.parses \/ b.reply.body = Garbled)
    <3> DEFINE status == IF store[a.entry] = Absent THEN 404 ELSE 200
    <3>4. Becomes(c, Replied(took, status, FALSE, store[a.entry]))
      BY <1>9
    <3>2. status \in Nat
      OBVIOUS
    <3>3. status = IF store[a.entry] = Absent THEN 404 ELSE 200
      OBVIOUS
    <3> HIDE DEF status
    <3>1. Becomes(c, b) /\ Came(b, took, status, FALSE, store[a.entry])
      BY <3>2, <3>4, <1>5, <1>20
    <3> QED BY <3>1, <3>3, <1>9, <1>1, <1>2, <1>3 DEF Came
  <2>2. Sound(b)
    BY <2>1, <1>1, <1>2, <1>9, <1>9, <1>21, HeldFacts DEF Sound, Earned, here
  <2>3. Takes(a, b)
    BY <2>1, <1>1, <1>9 DEF Takes, Kept, Ops
  <2>4. store' = Applied(a)
    BY <1>9 DEF Applied
  <2> QED BY <2>1, <2>2, <2>3, <2>4
<1>10. ASSUME here, a.op # "get", store' = Applied(a), NEW body \in {Absent, Garbled},
              Becomes(c, Replied(took, 200, FALSE, body))
      PROVE  Goal
  <2>1. /\ Becomes(c, b) /\ b \in CallState /\ b.pc = "answered" /\ b.entry = a.entry /\ b.op = a.op /\ b.map = a.map
        /\ b.token = a.token /\ b.at = a.at /\ b.sends = a.sends /\ b.seen = store[a.entry]
        /\ b.said = a.said /\ ~b.reply.errors /\ b.did = "took"
        /\ b.reply.status = 200 /\ b.reply.body = body /\ (b.reply.parses \/ b.reply.body = Garbled)
    <3>2. body \in Held
      BY <1>20
    <3>1. Becomes(c, b) /\ Came(b, took, 200, FALSE, body)
      BY <1>10, <1>5, <1>20, <3>2, ZenonT(100)
    <3> QED BY <3>1, <1>10, <1>1, <1>2, <1>3 DEF Came
  <2>2. Sound(b)
    BY <2>1, <1>1, <1>10, <1>10, <1>21, HeldFacts DEF Sound, Earned, here
  <2>3. Takes(a, b)
    BY <2>1, <1>1, <1>10 DEF Takes, Kept, Ops
  <2> QED BY <2>1, <2>2, <2>3, <1>10
<1>11. /\ site.at[a.at].is \in {"bao", "front", "page", "kept", "rewritten"}
       /\ (IF a.sends = a.op THEN took ELSE a) = took
  BY <1>1, PlaceFacts DEF CallState
<1>19. a.op # "none"
  BY <1>1 DEF Ops
<1>18. SUFFICES Goal
  BY <1>19 DEF Goal, a, b
<1> HIDE DEF Goal
<1>12. CASE site.at[a.at].is = "front"
  <2>1. Becomes(c, Replied(Hidden(a), 404, FALSE, Absent)) /\ store' = store
    BY <1>12 DEF Serve, a
  <2>2. store' = store
    BY <2>1
  <2>3. 404 \in {403, 404, 503} /\ 404 # 403
    OBVIOUS
  <2> DEFINE status == 404
  <2>4. Becomes(c, Replied(Hidden(a), status, FALSE, Absent))
    BY <2>1
  <2>5. status \in {403, 404, 503} /\ status # 403
    BY <2>3
  <2> HIDE DEF status
  <2>6. here
    BY <1>12, <1>21
  <2>7. status \in {403, 404, 503} /\ (status = 403 => a.token \notin honoured)
    BY <2>5
  <2> QED BY <2>2, <2>4, <2>6, <2>7, <1>6, ZenonT(200)
<1>13. CASE site.at[a.at].is = "page"
  <2>1. /\ \/ Becomes(c, Replied(Veiled(a), 200, FALSE, Absent))
           \/ Becomes(c, Replied(Veiled(a), 200, FALSE, Garbled))
           \/ Becomes(c, NoJson(Replied(Veiled(a), 200, FALSE, Garbled)))
        /\ store' = store
    BY <1>13 DEF Serve, a
  <2>2. here
    BY <1>13, <1>21
  <2>3. Veil
    <3>1. a.at \in Hosts
      BY <1>1 DEF CallState
    <3> QED BY <1>13, <3>1 DEF Veil
  <2>4. PICK body \in {Absent, Garbled} :
            \/ Becomes(c, Replied(Veiled(a), 200, FALSE, body))
            \/ body = Garbled /\ Becomes(c, NoJson(Replied(Veiled(a), 200, FALSE, body)))
    BY <2>1
  <2> QED BY <2>1, <2>2, <2>3, <2>4, <1>23
<1>14. CASE site.at[a.at].is \in {"kept", "rewritten"}
  <2>1. Becomes(c, Replied(a, 307, FALSE, Absent)) /\ store' = store
    BY <1>14 DEF Serve, a
  <2> QED BY <2>1, <1>7
<1>15. CASE site.at[a.at].is = "bao" /\ Rejection(a.token) # 0
  <2>1. /\ \/ Becomes(c, Replied(a, Rejection(a.token), TRUE, Absent))
           \/ Becomes(c, Replied(Hidden(a), Rejection(a.token), FALSE, Absent))
        /\ store' = store
    BY <1>15 DEF Serve, a
  <2>2. Rejection(a.token) \in {403, 404, 503} /\ (Rejection(a.token) = 403 => a.token \notin honoured)
    BY <1>15 DEF Rejection
  <2> DEFINE status == Rejection(a.token)
  <2>3. /\ status \in {403, 404, 503} /\ (status = 403 => a.token \notin honoured)
        /\ \/ Becomes(c, Replied(a, status, TRUE, Absent))
           \/ Becomes(c, Replied(Hidden(a), status, FALSE, Absent))
    BY <2>1, <2>2
  <2>4. store' = store
    BY <2>1
  <2> HIDE DEF status
  <2>5. here
    BY <1>15, <1>21
  <2> QED BY <2>3, <2>4, <2>5, <1>6, ZenonT(400)
<1>16. CASE site.at[a.at].is = "bao" /\ Rejection(a.token) = 0 /\ a.op = "get"
  <2>1. /\ \/ Becomes(c, Replied(took, IF store[a.entry] = Absent THEN 404 ELSE 200, FALSE, store[a.entry]))
           \/ store[a.entry] # Absent /\ Becomes(c, Replied(Hidden(a), 200, FALSE, Absent))
        /\ store' = store
    BY <1>16, <1>1, <1>11, ZenonT(60) DEF Serve, a, took
  <2> QED BY <2>1, <1>8, <1>9, <1>16, <1>21
<1>17. CASE site.at[a.at].is = "bao" /\ Rejection(a.token) = 0 /\ a.op # "get"
  <2>1. store' = Applied(a) /\ \E body \in {Absent, Garbled} : Becomes(c, Replied(took, 200, FALSE, body))
    BY <1>17, <1>1, <1>11, ZenonT(100) DEF Serve, a, took
  <2>2. PICK body \in {Absent, Garbled} : Becomes(c, Replied(took, 200, FALSE, body))
    BY <2>1
  <2> QED BY <2>1, <2>2, <1>10, <1>17, <1>21, ZenonT(100)
<1> QED BY <1>11, <1>12, <1>13, <1>14, <1>15, <1>16, <1>17

\* Follow goes on with the request itself, within the origin, or gives up.
LEMMA FollowMakes ==
    ASSUME CallInv, NEW c \in Callers, Follow(c)
    PROVE  LET a == call[c]  b == call'[c] IN
           /\ Becomes(c, b) /\ Sound(b) /\ a.op # "none" /\ store' = store
           /\ Silent(a, b) \/ Tells(a, b)
           /\ \/ b.pc = "sent" /\ b.token = a.token /\ b.said = a.said
              \/ b.said.kind = "transport"
<1> DEFINE a == call[c]
           b == call'[c]
           r == site.at[a.at]
           next == [a EXCEPT !.pc = "sent", !.at = r.to, !.hops = @ + 1,
                             !.sends = IF r.is = "kept" THEN @ ELSE "get"]
<1>1. a \in CallState /\ Sound(a) /\ a.pc = "answered" /\ a.op # "none" /\ a.at \in Hosts
  BY DEF Follow, CallInv, Sound, CallState
<1>2. /\ r.to \in Hosts /\ store' = store
      /\ Becomes(c, IF ~SameOrigin(r.to) \/ ~PreservesTheRequest(r) \/ a.hops >= MaxRedirects
                    THEN Says(a, "transport", Absent) ELSE next)
  BY <1>1, PlaceFacts DEF Follow
<1>3. CASE ~SameOrigin(r.to) \/ ~PreservesTheRequest(r) \/ a.hops >= MaxRedirects
  <2>1. Becomes(c, Says(a, "transport", Absent))
    BY <1>2, <1>3
  <2>2. "transport" \in AllowsFallback /\ "transport" \in Saids
    BY DEF AllowsFallback, Saids
  <2>3. b = Says(a, "transport", Absent)
    BY <2>1, OneCall
  <2>5. b.said.kind = "transport"
    <3> HIDE DEF a
    <3>1. Says(a, "transport", Absent).said = [kind |-> "transport", map |-> Absent]
      BY <1>1, <2>2, CallShapes
    <3> QED BY <3>1, <2>3
  <2>4. Tells(a, b) /\ Sound(b) /\ Becomes(c, b)
    BY <1>1, <2>1, <2>2, <2>3, FailureTells, SaysSound
  <2> QED BY <1>1, <1>2, <2>5, <2>4
<1>4. CASE SameOrigin(r.to) /\ PreservesTheRequest(r) /\ ~(a.hops >= MaxRedirects)
  <2>1. Becomes(c, next)
    BY <1>2, <1>4
  <2>2. /\ next \in CallState /\ next.pc = "sent" /\ next.op = a.op /\ next.entry = a.entry
        /\ next.map = a.map /\ next.said = a.said /\ next.did = a.did /\ next.seen = a.seen
        /\ next.token = a.token /\ next.sends = a.sends /\ next.at # "other"
    <3>1. r.to \in Hosts /\ r.to # "other" /\ r.is = "kept"
      BY <1>2, <1>4 DEF SameOrigin, PreservesTheRequest
    <3> HIDE DEF r, a
    <3>2. next = [a EXCEPT !.pc = "sent", !.at = r.to, !.hops = @ + 1, !.sends = @]
      BY <3>1
    <3>3. a.hops + 1 \in Nat
      BY <1>1 DEF CallState
    <3> QED BY <1>1, <3>1, <3>2, <3>3 DEF CallState
  <2>3. a.did = "nothing" /\ site' = site
    BY <1>1 DEF Follow, Sound, World
  <2> HIDE DEF next
  <2>4. b = next
    BY <2>1, OneCall
  <2>5. Sound(next) /\ Silent(a, next)
    BY <1>1, <2>2, <2>3 DEF Sound, Silent, Kept
  <2> QED BY <1>1, <1>2, <2>1, <2>2, <2>4, <2>5
<1> QED BY <1>3, <1>4

\* ReadBody says what the answer earns.
LEMMA ReadBodyMakes ==
    ASSUME CallInv, NEW c \in Callers, ReadBody(c)
    PROVE  LET a == call[c]  b == call'[c] IN
           /\ Becomes(c, b) /\ Sound(b) /\ a.op # "none" /\ store' = store
           /\ Tells(a, b)
           /\ b.token = a.token /\ b.said.kind # "unauthenticated"
           /\ b.said.kind = "unauthorized" => a.reply.status = 403
<1> DEFINE a == call[c]
           b == call'[c]
           r == a.reply
           missed == r.status = 404 /\ ~r.errors /\ IsAMiss(a.op)
<1>1. a \in CallState /\ Sound(a) /\ a.pc = "answered" /\ a.op \in Ops /\ a.op # "none" /\ Earned(a)
  BY DEF ReadBody, CallInv, Sound, CallState
<1>2. store' = store
  BY DEF ReadBody
<1>3. ASSUME NEW kind \in Saids \ {"nothing"}, NEW m \in Maps \cup {Absent}, Becomes(c, Says(a, kind, m)),
             Contract!Honest(Contracted(a), Contracted(Says(a, kind, m)).said),
             kind # "unauthenticated", kind = "unauthorized" => r.status = 403
      PROVE  /\ Becomes(c, b) /\ Sound(b) /\ Tells(a, b)
             /\ b.token = a.token /\ b.said.kind # "unauthenticated"
             /\ b.said.kind = "unauthorized" => r.status = 403
  <2>1. b = Says(a, kind, m)
    BY <1>3, OneCall
  <2>2. Becomes(c, b) /\ Tells(a, b)
    BY <2>1, <1>1, <1>3 DEF Tells
  <2>3. Sound(b)
    BY <2>1, <1>1, SaysSound
  <2>4. b.token = a.token /\ b.said.kind = kind
    <3> HIDE DEF a
    <3>1. b.token = a.token /\ b.said = [kind |-> kind, map |-> m]
      BY <1>1, <2>1, CallShapes
    <3> QED BY <3>1
  <2> QED BY <1>3, <2>2, <2>3, <2>4
<1>4. Contracted(a).op = a.op /\ Contracted(a).did = a.did /\ Contracted(a).seen = a.seen
  BY DEF Contracted
<1>5. r.status \in Nat /\ r.body \in Held
  BY <1>1 DEF CallState
<1>6. SUFFICES /\ Becomes(c, b) /\ Sound(b) /\ Tells(a, b)
               /\ b.token = a.token /\ b.said.kind # "unauthenticated"
               /\ b.said.kind = "unauthorized" => r.status = 403
  BY <1>1, <1>2
<1>7. ASSUME NEW kind \in AllowsFallback, Becomes(c, Says(a, kind, Absent)),
             kind # "unauthenticated", kind = "unauthorized" => r.status = 403
      PROVE  /\ Becomes(c, b) /\ Sound(b) /\ Tells(a, b)
             /\ b.token = a.token /\ b.said.kind # "unauthenticated"
             /\ b.said.kind = "unauthorized" => r.status = 403
  <2>1. kind \in Saids \ {"nothing"}
    BY DEF AllowsFallback, Saids
  <2>2. Contract!Honest(Contracted(a), Contracted(Says(a, kind, Absent)).said)
    BY <2>1, <1>1, Words DEF Contract!Honest
  <2> QED BY <1>3, <1>7, <2>1, <2>2
<1>8. ASSUME NEW kind \in {"absent", "done", "malformed"}, Becomes(c, Says(a, kind, Absent)),
             kind = "absent" => a.op = "get" /\ (a.did = "hidden" \/ (a.did = "took" /\ a.seen = Absent)),
             kind = "done" => a.op \in {"set", "delete"} /\ a.did # "nothing",
             kind = "malformed" => ~(a.op = "get" /\ a.did = "took" /\ a.seen # Garbled)
      PROVE  /\ Becomes(c, b) /\ Sound(b) /\ Tells(a, b)
             /\ b.token = a.token /\ b.said.kind # "unauthenticated"
             /\ b.said.kind = "unauthorized" => r.status = 403
  <2>1. kind \in Saids \ {"nothing"} /\ kind # "unauthenticated" /\ kind # "unauthorized"
    BY DEF Saids
  <2>2. Contract!Honest(Contracted(a), Contracted(Says(a, kind, Absent)).said)
    <3>1. LET said == Contracted(Says(a, kind, Absent)).said IN
          /\ kind = "malformed" => said.kind = "refused"
          /\ kind \in {"absent", "done"} => said.kind = kind
      BY <2>1, <1>1, Words
    <3> QED BY <3>1, <1>4, <1>8 DEF Contract!Honest
  <2> QED BY <1>3, <1>8, <2>1, <2>2
<1>9. CASE r.status = 200 /\ r.body = Absent
  <2>1. Becomes(c, IF a.op = "get" THEN Says(a, "absent", Absent) ELSE Says(a, "done", Absent))
    BY <1>9, HeldFacts DEF ReadBody
  <2>2. CASE a.op = "get"
    <3>1. Becomes(c, Says(a, "absent", Absent)) /\ a.did = "hidden"
      BY <2>1, <2>2, <1>1, <1>9 DEF Earned
    <3> QED BY <3>1, <2>2, <1>8
  <2>3. CASE a.op # "get"
    <3>1. Becomes(c, Says(a, "done", Absent)) /\ a.did # "nothing" /\ a.op \in {"set", "delete"}
      BY <2>1, <2>3, <1>1, <1>9 DEF Earned, Ops
    <3> QED BY <3>1, <1>8
  <2> QED BY <2>2, <2>3
<1> DEFINE valid == r.parses /\ (a.op = "get" => r.body \in Maps)
<1>10. CASE r.status = 200 /\ r.body # Absent /\ ~valid
  <2>1. Becomes(c, Says(a, "malformed", Absent))
    BY <1>10 DEF ReadBody
  <2>2. ~(a.op = "get" /\ a.did = "took" /\ a.seen # Garbled)
    <3>1. CASE r.body = Garbled
      BY <1>10, <1>1, <3>1 DEF Earned
    <3>2. CASE r.body \in Maps
      <4>1. r.parses
        BY <1>1, <3>2, HeldFacts DEF Earned
      <4> QED BY <4>1, <3>2, <1>10
    <3> QED BY <3>1, <3>2, <1>5, <1>10, HeldFacts
  <2> QED BY <2>1, <2>2, <1>8
<1>14. CASE r.status = 200 /\ r.body # Absent /\ valid /\ a.op # "get"
  <2>1. Becomes(c, Says(a, "done", Absent))
    BY <1>14 DEF ReadBody
  <2>2. a.did # "nothing" /\ a.op \in {"set", "delete"}
    BY <1>14, <1>1 DEF Earned, Ops
  <2> QED BY <2>1, <2>2, <1>8
<1>11. CASE r.status = 200 /\ r.body # Absent /\ valid /\ a.op = "get"
  <2>1. a.op = "get" /\ a.did = "took" /\ a.seen = r.body /\ r.body \in Maps
    BY <1>11, <1>1 DEF Earned
  <2>2. Becomes(c, Says(a, "value", r.body))
    BY <1>11 DEF ReadBody
  <2>3. "value" \in Saids \ {"nothing"} /\ r.body \in Maps \cup {Absent}
    BY <2>1 DEF Saids
  <2>4. Contract!Honest(Contracted(a), Contracted(Says(a, "value", r.body)).said)
    <3>1. LET said == Contracted(Says(a, "value", r.body)).said IN said.kind = "value" /\ said.map = r.body
      BY <2>3, <1>1, Words
    <3> QED BY <3>1, <1>4, <2>1 DEF Contract!Honest
  <2> QED BY <1>3, <2>2, <2>3, <2>4
<1>12. CASE missed
  <2>1. /\ Becomes(c, IF a.op = "get" THEN Says(a, "absent", Absent) ELSE Says(a, "done", Absent))
        /\ a.did = "hidden" \/ (a.op = "get" /\ a.did = "took" /\ a.seen = Absent)
        /\ a.op \in {"get", "delete"}
    BY <1>12, <1>1 DEF ReadBody, Earned, IsAMiss, Ops
  <2>2. CASE a.op = "get"
    BY <2>1, <2>2, <1>8
  <2>3. CASE a.op # "get"
    BY <2>1, <2>3, <1>8
  <2> QED BY <2>2, <2>3
<1>13. CASE r.status # 200 /\ ~missed
  <2>1. \/ r.status = 403 /\ Becomes(c, Says(a, "unauthorized", Absent))
        \/ Becomes(c, Says(a, "unavailable", Absent))
    BY <1>13 DEF ReadBody
  <2> QED BY <2>1, <1>7 DEF AllowsFallback
<1> QED BY <1>9, <1>10, <1>11, <1>12, <1>13, <1>14

\* GiveUp reports a failure; what was sent may be left behind, as it was made.
LEMMA GiveUpMakes ==
    ASSUME CallInv, NEW c \in Callers, GiveUp(c)
    PROVE  LET a == call[c]  b == call'[c] IN
           /\ Becomes(c, b) /\ Sound(b) /\ a.op # "none" /\ store' = store
           /\ Tells(a, b) /\ Contracted(b).said.kind = "down"
           /\ b.said.kind \notin {"unauthorized", "unauthenticated"}
           /\ \/ adrift' = adrift
              \/ /\ a.did = "nothing"
                 /\ adrift' = adrift \cup {[op |-> a.op, entry |-> a.entry, map |-> a.map, token |-> a.token]}
<1> DEFINE a == call[c]
           b == call'[c]
<1>1. a \in CallState /\ Sound(a) /\ a.pc \in {"sent", "answered"} /\ a.op # "none" /\ a.sends = a.op
  BY DEF GiveUp, CallInv, Sound
<1>2. store' = store
  BY DEF GiveUp
<1>3. PICK kind \in {"unavailable", "transport"} : Becomes(c, Says(a, kind, Absent))
  BY DEF GiveUp
<1>4. kind \in AllowsFallback /\ kind \in Saids
  BY DEF AllowsFallback, Saids
<1>5. \/ adrift' = adrift
      \/ /\ a.did = "nothing"
         /\ adrift' = adrift \cup {[op |-> a.op, entry |-> a.entry, map |-> a.map, token |-> a.token]}
  BY <1>1 DEF GiveUp, Sound
<1>6. b = Says(a, kind, Absent)
  BY <1>3, OneCall
<1>7. Contracted(b).said.kind = "down" /\ Tells(a, b) /\ Sound(b)
  <2> HIDE DEF a, b
  <2> QED BY <1>1, <1>4, <1>6, Words, FailureTells, SaysSound
<1>8. b.said.kind = kind
  <2> HIDE DEF a, b
  <2>1. b.said = [kind |-> kind, map |-> Absent]
    BY <1>1, <1>4, <1>6, CallShapes
  <2> QED BY <2>1
<1> QED BY <1>1, <1>2, <1>3, <1>5, <1>6, <1>7, <1>8

\* RunTool does the operation, or says why not.
LEMMA RunToolMakes ==
    ASSUME CallInv, NEW c \in Callers, RunTool(c)
    PROVE  LET a == call[c]  b == call'[c] IN
           /\ Becomes(c, b) /\ Sound(b) /\ a.op # "none"
           /\ (Tells(a, b) /\ store' = store) \/ (Takes(a, b) /\ store' = Applied(a))
           /\ b.pc \in {"idle", "exited"} /\ b.said.kind \notin {"unauthorized", "unauthenticated"}
<1> DEFINE a == call[c]
           b == call'[c]
           kind == KindOf[a.entry]
           did == [a EXCEPT !.pc = "exited", !.did = "took", !.seen = store[a.entry]]
<1>1. /\ a \in CallState /\ Sound(a) /\ a.pc = "tool" /\ a.op \in Ops /\ a.op # "none" /\ a.entry \in Entries
      /\ a.did = "nothing" /\ a.said = Nothing
  BY DEF RunTool, CallInv, Sound, CallState
<1>2. ASSUME NEW said \in {"unavailable", "transport", "denied"}, Becomes(c, Says(a, said, Absent))
      PROVE  /\ Becomes(c, b) /\ Sound(b) /\ Tells(a, b)
             /\ b.pc = "idle" /\ b.said.kind \notin {"unauthorized", "unauthenticated"}
  <2>1. said \in AllowsFallback /\ said \in Saids
    BY DEF AllowsFallback, Saids
  <2>2. b = Says(a, said, Absent)
    BY <1>2, OneCall
  <2>3. Tells(a, b) /\ Sound(b)
    <3> HIDE DEF a, b
    <3> QED BY <1>1, <2>1, <2>2, FailureTells, SaysSound
  <2>4. b.pc = "idle" /\ b.said.kind = said
    <3> HIDE DEF a, b
    <3>1. b.pc = "idle" /\ b.said = [kind |-> said, map |-> Absent]
      BY <1>1, <2>1, <2>2, CallShapes
    <3> QED BY <3>1
  <2> QED BY <1>2, <2>2, <2>3, <2>4
<1>3. CASE kind = "onepassword" /\ a.op # "get"
  <2>1. Becomes(c, Says(a, "unsupported", Absent)) /\ store' = store
    BY <1>3 DEF RunTool
  <2>2. "unsupported" \in Saids \ {"nothing"}
    BY DEF Saids
  <2>3. b = Says(a, "unsupported", Absent)
    BY <2>1, OneCall
  <2>4. Sound(b) /\ b.pc = "idle" /\ b.said.kind = "unsupported"
    <3> HIDE DEF a, b
    <3>1. b.pc = "idle" /\ b.said = [kind |-> "unsupported", map |-> Absent] /\ Sound(b)
      BY <1>1, <2>2, <2>3, CallShapes, SaysSound
    <3> QED BY <3>1
  <2>5. Tells(a, b)
    <3>1. Contracted(Says(a, "unsupported", Absent)).said.kind = "refused"
      BY <1>1, <2>2, Words
    <3>2. Contracted(a).op = a.op /\ Contracted(a).did = a.did
      BY DEF Contracted
    <3>3. Contract!Honest(Contracted(a), Contracted(Says(a, "unsupported", Absent)).said)
      BY <3>1, <3>2, <1>1 DEF Contract!Honest
    <3> QED BY <1>1, <2>2, <2>3, <3>3 DEF Tells
  <2> QED BY <1>1, <2>1, <2>3, <2>4, <2>5
<1>4. CASE ~(kind = "onepassword" /\ a.op # "get") /\ tools[kind] = "works"
  <2>1. store' = Applied(a) /\ Becomes(c, did)
    BY <1>4 DEF RunTool
  <2>2. store[a.entry] \in Held
    BY <1>1 DEF CallInv
  <2>3. /\ did \in CallState /\ did.pc = "exited" /\ did.did = "took" /\ did.seen = store[a.entry]
        /\ did.op = a.op /\ did.entry = a.entry /\ did.map = a.map /\ did.said = a.said
    BY <1>1, <2>2 DEF CallState
  <2>4. b = did
    BY <2>1, OneCall
  <2> HIDE DEF did
  <2>5. Sound(did) /\ Takes(a, did)
    BY <1>1, <2>3 DEF Sound, Takes, Kept
  <2> QED BY <1>1, <2>1, <2>3, <2>4, <2>5 DEF Nothing
<1>5. CASE ~(kind = "onepassword" /\ a.op # "get") /\ tools[kind] # "works"
  <2>1. PICK said \in ToolFailures(kind, tools[kind]) : Becomes(c, Says(a, said, Absent))
    BY <1>5 DEF RunTool
  <2>2. said \in {"unavailable", "transport", "denied"}
    BY <2>1 DEF ToolFailures
  <2>3. store' = store
    BY <1>5 DEF RunTool
  <2> QED BY <1>1, <1>2, <2>1, <2>2, <2>3
<1> QED BY <1>3, <1>4, <1>5

\* ReadOutput says what the tool saw.
LEMMA ReadOutputMakes ==
    ASSUME CallInv, NEW c \in Callers, ReadOutput(c)
    PROVE  LET a == call[c]  b == call'[c] IN
           /\ Becomes(c, b) /\ Sound(b) /\ a.op # "none" /\ store' = store
           /\ Tells(a, b)
           /\ b.said.kind \notin {"unauthorized", "unauthenticated"}
<1> DEFINE a == call[c]
           b == call'[c]
<1>1. /\ a \in CallState /\ Sound(a) /\ a.pc = "exited" /\ a.op \in Ops /\ a.op # "none"
      /\ a.did = "took" /\ a.seen \in Held
  BY DEF ReadOutput, CallInv, Sound, CallState
<1>2. store' = store
  BY DEF ReadOutput
<1>3. ASSUME NEW kind \in {"done", "absent", "malformed", "value"}, NEW m \in Maps \cup {Absent},
             Becomes(c, Says(a, kind, m)),
             kind = "done" <=> a.op # "get",
             kind = "absent" => a.seen = Absent, kind = "malformed" => a.seen = Garbled,
             kind = "value" => m = a.seen /\ m \in Maps
      PROVE  /\ Becomes(c, b) /\ Sound(b) /\ Tells(a, b)
             /\ b.said.kind \notin {"unauthorized", "unauthenticated"}
  <2>1. kind \in Saids \ {"nothing"} /\ kind \in Saids
    BY DEF Saids
  <2>2. b = Says(a, kind, m)
    BY <1>3, OneCall
  <2>3. Sound(b) /\ b.said = [kind |-> kind, map |-> m]
    <3> HIDE DEF a, b
    <3> QED BY <1>1, <2>1, <2>2, CallShapes, SaysSound
  <2>4. LET said == Contracted(Says(a, kind, m)).said IN
        /\ said.map = m /\ (kind = "malformed" => said.kind = "refused")
        /\ kind # "malformed" => said.kind = kind
    <3> HIDE DEF a, b
    <3> QED BY <1>1, <2>1, Words
  <2>5. Contracted(a).op = a.op /\ Contracted(a).did = a.did /\ Contracted(a).seen = a.seen
    BY DEF Contracted
  <2>6. Contract!Honest(Contracted(a), Contracted(Says(a, kind, m)).said)
    BY <2>4, <2>5, <1>1, <1>3 DEF Contract!Honest, Ops
  <2>7. Tells(a, b)
    BY <1>1, <2>1, <2>2, <2>6 DEF Tells
  <2> QED BY <1>3, <2>2, <2>3, <2>7
<1>4. SUFFICES /\ Becomes(c, b) /\ Sound(b) /\ Tells(a, b)
               /\ b.said.kind \notin {"unauthorized", "unauthenticated"}
  BY <1>1, <1>2
<1>5. CASE a.op # "get"
  <2>1. Becomes(c, Says(a, "done", Absent))
    BY <1>5 DEF ReadOutput
  <2> QED BY <2>1, <1>3, <1>5
<1>6. CASE a.op = "get" /\ a.seen = Absent
  <2>1. Becomes(c, Says(a, "absent", Absent))
    BY <1>6, HeldFacts DEF ReadOutput
  <2> QED BY <2>1, <1>3, <1>6
<1>7. CASE a.op = "get" /\ a.seen = Garbled
  <2>1. Becomes(c, Says(a, "malformed", Absent))
    BY <1>7, HeldFacts DEF ReadOutput
  <2> QED BY <2>1, <1>3, <1>7
<1>8. CASE a.op = "get" /\ a.seen \in Maps
  <2>1. Becomes(c, Says(a, "value", a.seen))
    BY <1>8, HeldFacts DEF ReadOutput
  <2> QED BY <2>1, <1>3, <1>8
<1> QED BY <1>1, <1>5, <1>6, <1>7, <1>8, HeldFacts

------------------------------------------------------------------------------
(* The calls are sound, whatever the world does. *)

\* A call that begins is sound.
LEMMA CallInvInit == BackendsInit(Sites) => CallInv
<1> SUFFICES ASSUME BackendsInit(Sites) PROVE CallInv
  OBVIOUS
<1>1. site \in Site
  BY BackendAssumption DEF BackendsInit
<1>2. Sound(NoCall)
  BY CallShapes DEF Sound
<1> QED BY <1>1, <1>2, CallShapes DEF BackendsInit, CallInv, Site, Tools

\* What an operation writes is what an entry may hold.
LEMMA AppliedTyped ==
    ASSUME store \in [Entries -> Held], NEW request,
           request.op # "get" => request.map \in Held
    PROVE  Applied(request) \in [Entries -> Held]
BY DEF Applied

\* What a call does, seen by whoever asked: the step of the contract it is.
LEMMA CallMakes ==
    ASSUME CallInv, NEW c \in Callers, CallStep(c)
    PROVE  LET a == call[c]  b == call'[c] IN
           /\ Becomes(c, b) /\ Sound(b) /\ a.op # "none"
           /\ \/ Silent(a, b) /\ store' = store /\ adrift' = adrift
              \/ Hides(a, b) /\ store' = store /\ adrift' = adrift
              \/ Takes(a, b) /\ store' = Applied(a) /\ adrift' = adrift
              \/ Tells(a, b) /\ store' = store /\ adrift' = adrift
              \/ /\ Tells(a, b) /\ store' = store /\ Contracted(b).said.kind = "down" /\ a.did = "nothing"
                 /\ adrift' = adrift \cup {[op |-> a.op, entry |-> a.entry, map |-> a.map, token |-> a.token]}
           /\ site' = site /\ file' = file /\ logins' = logins /\ tools' = tools /\ honoured' = honoured
           /\ steady' = steady
<1>1. CASE ReadToken(c)
  <2>1. call[c].op # "none" /\ adrift' = adrift
    BY <1>1 DEF ReadToken, CallInv, Sound
  <2> QED BY <1>1, <2>1, TokenMakes DEF ReadToken, World
<1>2. CASE Serve(c)
  BY <1>2, ServeMakes DEF Serve, World
<1>3. CASE Follow(c)
  BY <1>3, FollowMakes DEF Follow, World
<1>4. CASE ReadBody(c)
  BY <1>4, ReadBodyMakes, SMTT(60) DEF ReadBody, World
<1>5. CASE GiveUp(c)
  BY <1>5, GiveUpMakes DEF GiveUp, World
<1>6. CASE RunTool(c)
  BY <1>6, RunToolMakes DEF RunTool, World
<1>7. CASE ReadOutput(c)
  BY <1>7, ReadOutputMakes DEF ReadOutput, World
<1> QED BY <1>1, <1>2, <1>3, <1>4, <1>5, <1>6, <1>7 DEF CallStep

\* Every step keeps the calls sound.
LEMMA CallInvStep ==
    ASSUME CallInv, [BackendsNext]_backendVars
    PROVE  CallInv'
<1>1. ASSUME NEW c \in Callers, Becomes(c, call'[c]), Sound(call'[c]),
             site' = site, file' = file, logins' = logins, tools' = tools, store' \in [Entries -> Held],
             \A r \in adrift' : r.map \in Held
      PROVE  CallInv'
  <2>1. \A d \in Callers : Sound(call'[d])
    BY <1>1, OneCall DEF CallInv
  <2>2. call' \in [Callers -> CallState]
    BY <1>1, OneCall DEF Sound
  <2>3. \A d \in Callers : Sound(call[d])'
    BY <2>1, <1>1 DEF Sound
  <2> QED BY <1>1, <2>2, <2>3 DEF CallInv
<1>2. ASSUME NEW c \in Callers, BeginCall(c) PROVE CallInv'
  <2>1. store' = store /\ adrift' = adrift /\ site' = site /\ file' = file /\ logins' = logins /\ tools' = tools
    BY <1>2 DEF BeginCall, World
  <2>2. Becomes(c, call'[c]) /\ Sound(call'[c])
    BY <1>2, BeginMakes
  <2> QED BY <1>1, <2>1, <2>2 DEF CallInv
<1>3. ASSUME NEW c \in Callers, CallStep(c) PROVE CallInv'
  <2> DEFINE a == call[c]
  <2>1. /\ Becomes(c, call'[c]) /\ Sound(call'[c])
        /\ site' = site /\ file' = file /\ logins' = logins /\ tools' = tools
    BY <1>3, CallMakes
  <2>2. a.map \in Held /\ a \in CallState
    <3>1. a \in CallState /\ a.map \in Maps \cup {Absent}
      BY DEF CallInv, CallState
    <3> QED BY <3>1, HeldFacts
  <2>3. store' = store \/ store' = Applied(a)
    BY <1>3, CallMakes
  <2>4. store' \in [Entries -> Held]
    BY <2>2, <2>3, AppliedTyped DEF CallInv
  <2>5. \A r \in adrift' : r.map \in Held
    BY <1>3, <2>2, CallMakes DEF CallInv
  <2> QED BY <1>1, <2>1, <2>4, <2>5
<1>4. CASE ServeLate
  <2>1. PICK r \in adrift : store' = Applied(r) /\ adrift' = adrift \ {r}
    BY <1>4 DEF ServeLate
  <2>2. store' \in [Entries -> Held]
    BY <2>1, AppliedTyped DEF CallInv
  <2>3. UNCHANGED <<site, file, logins, tools, call>>
    BY <1>4 DEF ServeLate, World
  <2> QED BY <2>1, <2>2, <2>3 DEF CallInv, Sound
<1>5. CASE Login
  <2>1. UNCHANGED <<site, store, tools, call, adrift>> /\ logins' = logins + 1 /\ file'.n = logins + 1
    BY <1>5 DEF Login
  <2> QED BY <2>1 DEF CallInv, Sound
<1>6. CASE Upset
  <2>1. UNCHANGED <<site, store, logins, call, adrift>>
    BY <1>6 DEF Upset
  <2>2. file'.n \in Nat
    BY <1>6 DEF Upset, CallInv
  <2>3. tools' \in [Tools -> {"works", "locked", "missing", "hangs"}]
    BY <1>6 DEF Upset, CallInv
  <2> QED BY <2>1, <2>2, <2>3 DEF CallInv, Sound
<1>7. CASE UNCHANGED backendVars
  BY <1>7 DEF backendVars, CallInv, Sound
<1> QED BY <1>2, <1>3, <1>4, <1>5, <1>6, <1>7 DEF BackendsNext

------------------------------------------------------------------------------
(* Tokens. *)

\* A call that begins with a token nothing touched ends with one nothing touched.
LEMMA FreshMakes ==
    ASSUME CallInv, NEW c \in Callers, CallStep(c), Fresh(call[c])
    PROVE  Fresh(call'[c])
<1> DEFINE a == call[c]
           b == call'[c]
<1>0. a \in CallState
  BY DEF CallInv
<1>1. a \in CallState /\ Sound(a) /\ (a.pc # "idle" => a.said.kind = "nothing")
  BY CallShapes DEF CallInv, Sound
<1>2. CASE ReadToken(c)
  <2>1. a.pc = "token" /\ a.said.kind = "nothing"
    BY <1>1, <1>2 DEF ReadToken
  <2>2. b = IF a.entry \notin Addressable THEN Says(a, "unauthorized", Absent)
            ELSE IF file.kind # "token" THEN Says(a, "unauthenticated", Absent)
            ELSE [a EXCEPT !.pc = "sent", !.token = TokenRead(c)]
    BY <1>2, OneCall DEF ReadToken
  <2>3. CASE a.entry \notin Addressable \/ file.kind # "token"
    <3>1. PICK kind \in {"unauthorized", "unauthenticated"} : b = Says(a, kind, Absent)
      BY <2>2, <2>3
    <3>2. kind \in Saids
      BY DEF Saids, AllowsFallback
    <3> HIDE DEF a, b
    <3>3. b.pc = "idle" /\ b.entry = a.entry
      BY <1>0, <3>1, <3>2, SaysShapes
    <3> QED BY <2>3, <3>3 DEF Fresh, a, b
  <2>4. CASE ~(a.entry \notin Addressable \/ file.kind # "token")
    <3>1. b = [a EXCEPT !.pc = "sent", !.token = file.n]
      BY <2>2, <2>4 DEF TokenRead
    <3>2. b.pc = "sent" /\ b.token = file.n /\ b.said = a.said
      BY <3>1, <1>1 DEF CallState
    <3> QED BY <2>1, <2>4, <3>2 DEF Fresh
  <2> QED BY <2>3, <2>4
<1>3. CASE Serve(c)
  <2>1. a.pc = "sent"
    BY <1>3 DEF Serve
  <2>2. b.pc = "answered" /\ b.token = a.token /\ (b.reply.status = 403 => a.token \notin honoured)
        /\ b.said = a.said
    <3>1. Silent(a, b) \/ Hides(a, b) \/ Takes(a, b)
      BY <1>3, ServeMakes
    <3>2. b.said = a.said
      BY <3>1 DEF Silent, Hides, Takes, Kept
    <3>3. b.pc = "answered" /\ b.token = a.token
      BY <1>3, ServeMakes
    <3>4. b.reply.status = 403 => a.token \notin honoured
      BY <1>3, ServeMakes
    <3> QED BY <3>2, <3>3, <3>4
  <2> QED BY <1>1, <2>1, <2>2 DEF Fresh
<1>4. CASE Follow(c)
  <2>1. a.pc = "answered"
    BY <1>4 DEF Follow
  <2>2. Sound(b) /\ \/ b.pc = "sent" /\ b.token = a.token /\ b.said = a.said
                    \/ b.said.kind = "transport"
    BY <1>4, FollowMakes
  <2>3. b.pc # "idle" => b.said.kind = "nothing"
    BY <2>2, CallShapes DEF Sound
  <2> QED BY <1>1, <2>1, <2>2, <2>3 DEF Fresh
<1>5. CASE ReadBody(c)
  <2>1. a.pc = "answered" /\ a.op # "none"
    BY <1>1, <1>5 DEF ReadBody, Sound
  <2>2. Tells(a, b) /\ (b.said.kind = "unauthorized" => a.reply.status = 403)
        /\ b.said.kind # "unauthenticated"
    BY <1>5, ReadBodyMakes
  <2>3. b.pc = "idle"
    <3>1. PICK kind \in Saids \ {"nothing"}, m \in Maps \cup {Absent} : b = Says(a, kind, m)
      BY <2>2 DEF Tells
    <3>2. kind \in Saids
      OBVIOUS
    <3>3. a \in CallState /\ m \in Maps \cup {Absent}
      BY <1>0
    <3> HIDE DEF a, b
    <3>4. b.pc = "idle"
      BY <3>3, <3>1, <3>2, SaysShapes
    <3> QED BY <3>4 DEF b
  <2> QED BY <2>1, <2>2, <2>3 DEF Fresh
<1>6. CASE GiveUp(c) \/ RunTool(c) \/ ReadOutput(c)
  <2>1. b.said.kind \notin {"unauthorized", "unauthenticated"}
    BY <1>6, GiveUpMakes, RunToolMakes, ReadOutputMakes
  <2>2. b.pc \in {"idle", "exited"}
    <3>1. CASE RunTool(c)
      BY <3>1, RunToolMakes
    <3>2. CASE GiveUp(c) \/ ReadOutput(c)
      <4>1. Tells(a, b)
        BY <3>2, GiveUpMakes, ReadOutputMakes
      <4>2. PICK kind \in Saids \ {"nothing"}, m \in Maps \cup {Absent} : b = Says(a, kind, m)
        BY <4>1 DEF Tells
      <4>3. kind \in Saids
        OBVIOUS
      <4> HIDE DEF a, b
      <4>4. b.pc = "idle"
        BY <1>0, <4>2, <4>3, SaysShapes
      <4> QED BY <4>4 DEF b
    <3> QED BY <3>1, <3>2, <1>6
  <2> QED BY <2>1, <2>2 DEF Fresh
<1> QED BY <1>2, <1>3, <1>4, <1>5, <1>6 DEF CallStep

\* Every step keeps the tokens of steady callers fresh.
LEMMA TokenInvStep ==
    ASSUME CallInv, TokenInv, [BackendsNext]_backendVars
    PROVE  TokenInv'
<1>1. ASSUME NEW c \in Callers, BeginCall(c) PROVE TokenInv'
  <2>1. file' = file /\ honoured' = honoured /\ steady' = steady \cup {c}
    BY <1>1 DEF BeginCall, World
  <2>2. Becomes(c, call'[c]) /\ call'[c].pc \in {"token", "tool"} /\ call'[c].said.kind = "nothing"
    BY <1>1, BeginMakes, CallShapes
  <2>3. ASSUME NEW d \in steady' PROVE Fresh(call[d])'
    <3>1. CASE d = c
      BY <2>1, <2>2, <3>1 DEF Fresh
    <3>2. CASE d # c
      <4>1. call'[d] = call[d] /\ Fresh(call[d])
        BY <2>1, <2>2, <3>2, OneCall DEF TokenInv
      <4> QED BY <4>1, <2>1 DEF Fresh
    <3> QED BY <3>1, <3>2
  <2> QED BY <2>1, <2>3 DEF TokenInv
<1>2. ASSUME NEW c \in Callers, CallStep(c) PROVE TokenInv'
  <2>1. Becomes(c, call'[c]) /\ file' = file /\ honoured' = honoured /\ steady' = steady
    BY <1>2, CallMakes
  <2>2. ASSUME NEW d \in steady PROVE Fresh(call'[d])
    <3>1. CASE d = c
      BY <1>2, <3>1, FreshMakes DEF TokenInv
    <3>2. CASE d # c
      BY <2>1, <3>2, OneCall DEF TokenInv
    <3> QED BY <3>1, <3>2
  <2>3. \A d \in steady : Fresh(call[d])'
    BY <2>1, <2>2 DEF Fresh
  <2> QED BY <2>1, <2>3 DEF TokenInv
<1>3. CASE ServeLate
  <2>1. UNCHANGED <<file, honoured, steady, call>>
    BY <1>3 DEF ServeLate, World
  <2> QED BY <2>1 DEF TokenInv, Fresh
<1>4. CASE Login
  BY <1>4 DEF Login, TokenInv
<1>5. CASE Upset
  <2>1. call' = call /\ (steady' = {} \/ UNCHANGED <<file, honoured, steady>>)
    BY <1>5 DEF Upset
  <2> QED BY <2>1 DEF TokenInv, Fresh
<1>6. CASE UNCHANGED backendVars
  BY <1>6 DEF backendVars, TokenInv, Fresh
<1> QED BY <1>1, <1>2, <1>3, <1>4, <1>5, <1>6 DEF BackendsNext

------------------------------------------------------------------------------
(* What the calls promise. *)

\* Tokens: in every behaviour a good token is enough for a call that began since
\* it was written, and no request leaves the origin it is for (openbao.rs,
\* read_token and the redirect policy).
THEOREM TokensSafe == BackendsSpec => []TokensAreFreshAndHome
<1>1. BackendsInit(Sites) => CallInv /\ TokenInv
  BY CallInvInit DEF BackendsInit, TokenInv
<1>2. CallInv /\ TokenInv /\ [BackendsNext]_backendVars => (CallInv /\ TokenInv)'
  BY CallInvStep, TokenInvStep
<1>3. CallInv /\ TokenInv => TokensAreFreshAndHome
  <2>1. CallInv => TokenStaysHome
    BY DEF CallInv, Sound, TokenStaysHome
  <2>2. TokenInv => LoginIsEnough
    BY DEF TokenInv, Fresh, LoginIsEnough
  <2> QED BY <2>1, <2>2 DEF TokensAreFreshAndHome
<1> QED BY <1>1, <1>2, <1>3, PTL DEF BackendsSpec

------------------------------------------------------------------------------
(* The calls implement the contract. *)

\* What the callers are to the contract, and what was left behind.
Asking == [c \in Callers |-> Contracted(call[c])]
Left == {[op |-> r.op, entry |-> r.entry, map |-> r.map] : r \in adrift}

\* What stands where does not change.
LEMMA VeilStays == site' = site => Veil' = Veil
BY DEF Veil

\* A step of one call is a step of its caller in the contract.
LEMMA OneAsks ==
    ASSUME CallInv, NEW c \in Callers, NEW b, Becomes(c, b)
    PROVE  /\ Asking' = [Asking EXCEPT ![c] = Contracted(b)]
           /\ Asking[c] = Contracted(call[c]) /\ Asking'[c] = Contracted(b)
<1>1. call'[c] = b /\ \A d \in Callers : d # c => call'[d] = call[d]
  BY OneCall
<1>2. Asking' = [d \in Callers |-> Contracted(call'[d])]
  BY DEF Asking, Contracted
<1> QED BY <1>1, <1>2 DEF Asking

\* What the contract sees of a call.
LEMMA Seen ==
    ASSUME NEW a
    PROVE  /\ Contracted(a).op = a.op /\ Contracted(a).map = a.map /\ Contracted(a).did = a.did
           /\ Contracted(a).seen = a.seen /\ (a.op # "none" => Contracted(a).entry = a.entry)
BY DEF Contracted

\* Nobody asks.
LEMMA IdleShape ==
    Contract!Idle = [op |-> "none", entry |-> NoCall.entry, map |-> Absent, did |-> "nothing",
                     seen |-> Absent, said |-> Nothing]
BY DEF Contract!Idle, Contract!Nothing, Nothing, NoCall

\* What may be asked.
LEMMA AskedShape ==
    ASSUME NEW e \in Entries, NEW what \in Ops, NEW m, IF what = "set" THEN m \in Maps ELSE m = Absent
    PROVE  [op |-> what, entry |-> e, map |-> m, did |-> "nothing", seen |-> Absent, said |-> Nothing]
              \in Contract!Asked
<1> DEFINE asked == Contract!Request(what, e, m)
<1>1. asked \in Contract!Asked
  <2>1. CASE what = "set"
    BY <2>1 DEF Contract!Asked
  <2>2. CASE what # "set"
    <3>1. m = Absent /\ what \in {"get", "delete"}
      BY <2>2 DEF Ops
    <3> QED BY <3>1 DEF Contract!Asked
  <2> QED BY <2>1, <2>2
<1>2. asked = [Contract!Idle EXCEPT !.op = what, !.entry = e, !.map = m]
  BY DEF Contract!Request
<1> HIDE DEF asked
<1>3. asked = [op |-> what, entry |-> e, map |-> m, did |-> "nothing", seen |-> Absent, said |-> Nothing]
  BY <1>2, IdleShape
<1> QED BY <1>1, <1>3

\* A call that begins asks.
LEMMA BeginAsks ==
    ASSUME CallInv, NEW c \in Callers, BeginCall(c)
    PROVE  Contract!Ask(c)
<1> DEFINE b == call'[c]
<1>1. /\ Becomes(c, b) /\ call[c].op = "none"
      /\ b.entry \in Entries /\ b.op \in Ops /\ b.did = "nothing" /\ b.seen = Absent
      /\ b.said = Nothing /\ (IF b.op = "set" THEN b.map \in Maps ELSE b.map = Absent)
  BY BeginMakes DEF CallInv, Sound
<1>2. store' = store /\ adrift' = adrift /\ Veil' = Veil
  BY VeilStays DEF BeginCall, World
<1> HIDE DEF b
<1>3. Contracted(b) = [op |-> b.op, entry |-> b.entry, map |-> b.map, did |-> "nothing",
                       seen |-> Absent, said |-> Nothing]
  <2>1. Nothing.kind = "nothing" /\ Nothing.map = Absent
        /\ Nothing = [kind |-> "nothing", map |-> Absent]
    BY DEF Nothing
  <2>2. b.op # "none"
    BY <1>1 DEF Ops
  <2>3. (CASE b.said.kind \in AllowsFallback -> "down"
           [] b.said.kind \in {"malformed", "unsupported"} -> "refused"
           [] OTHER -> b.said.kind) = "nothing"
    BY <1>1, <2>1 DEF AllowsFallback
  <2> QED BY <1>1, <2>1, <2>2, <2>3 DEF Contracted
<1>4. Contracted(b) \in Contract!Asked
  BY <1>1, <1>3, AskedShape
<1>5. /\ Asking[c].op = "none" /\ Asking'[c] \in Contract!Asked
      /\ Asking' = [Asking EXCEPT ![c] = Asking'[c]]
  BY <1>1, <1>4, OneAsks, Seen
<1>6. Left' = Left
  BY <1>2 DEF Left
<1> QED BY <1>2, <1>5, <1>6 DEF Contract!Ask, Asking, Left

\* What a call was told is all that is left of it.
LEMMA ToldShape ==
    ASSUME NEW a \in CallState, NEW kind \in Saids \ {"nothing"}, NEW m \in Maps \cup {Absent}
    PROVE  LET said == Contracted(Says(a, kind, m)).said IN
           /\ Contracted(Says(a, kind, m)) = [Contract!Idle EXCEPT !.said = said]
           /\ said = [kind |-> said.kind, map |-> m]
           /\ said.kind \in {"value", "absent", "done", "refused", "down"}
<1> DEFINE b == Says(a, kind, m)
           said == Contracted(b).said
           idle == [op |-> "none", entry |-> NoCall.entry, map |-> Absent, did |-> "nothing",
                    seen |-> Absent, said |-> Nothing]
<1>1. b.op = "none" /\ b.map = Absent /\ b.did = "nothing" /\ b.seen = Absent /\ b.said = [kind |-> kind, map |-> m]
  BY CallShapes
<1> HIDE DEF b
<1>2. Contracted(b) = [op |-> "none", entry |-> NoCall.entry, map |-> Absent, did |-> "nothing",
                       seen |-> Absent, said |-> said]
  BY <1>1 DEF Contracted
<1>3. said = [kind |-> said.kind, map |-> m]
  BY <1>1 DEF Contracted
<1>4. said.kind \in {"value", "absent", "done", "refused", "down"}
  BY Words DEF b, Saids
<1> HIDE DEF said
<1>5. Contracted(b) = [Contract!Idle EXCEPT !.said = said]
  <2> DEFINE x == [Contract!Idle EXCEPT !.said = said]
  <2>1. x = [Contract!Idle EXCEPT !.said = said]
    OBVIOUS
  <2> HIDE DEF x
  <2>2. x = [op |-> "none", entry |-> NoCall.entry, map |-> Absent, did |-> "nothing",
             seen |-> Absent, said |-> said]
    BY <2>1, IdleShape
  <2> QED BY <1>2, <2>2 DEF x
<1> QED BY <1>3, <1>4, <1>5 DEF b, said

\* Whoever is told something has an answer the contract allows.
LEMMA TellsAnswers ==
    ASSUME CallInv, NEW c \in Callers, Becomes(c, call'[c]), Tells(call[c], call'[c]), store' = store,
           site' = site,
           \/ adrift' = adrift
           \/ /\ Contracted(call'[c]).said.kind = "down" /\ call[c].did = "nothing"
              /\ adrift' = adrift \cup {[op |-> call[c].op, entry |-> call[c].entry, map |-> call[c].map,
                                         token |-> call[c].token]}
    PROVE  Contract!Answer(c)
<1> DEFINE a == call[c]
           b == call'[c]
<1>1. a \in CallState /\ a.op # "none"
  BY DEF CallInv, Tells
<1>2. PICK kind \in Saids \ {"nothing"}, m \in Maps \cup {Absent} :
         b = Says(a, kind, m) /\ Contract!Honest(Contracted(a), Contracted(b).said)
  BY DEF Tells
<1> DEFINE said == Contracted(b).said
           word == said.kind
<1> HIDE DEF a, b
<1>3. /\ Contracted(b) = [Contract!Idle EXCEPT !.said = said]
      /\ said = [kind |-> word, map |-> m] /\ word \in {"value", "absent", "done", "refused", "down"}
  BY <1>1, <1>2, ToldShape
<1>4. Asking[c] = Contracted(a) /\ Asking' = [Asking EXCEPT ![c] = Contracted(b)]
  BY OneAsks DEF a, b
<1>5. \/ Left' = Left
      \/ word = "down" /\ Asking[c].did = "nothing" /\ Left' = Left \cup {Contract!Pending(Asking[c])}
  <2>1. CASE adrift' = adrift
    BY <2>1 DEF Left
  <2>2. CASE /\ word = "down" /\ a.did = "nothing"
             /\ adrift' = adrift \cup {[op |-> a.op, entry |-> a.entry, map |-> a.map, token |-> a.token]}
    <3> DEFINE x == [op |-> a.op, entry |-> a.entry, map |-> a.map, token |-> a.token]
    <3>1. Left' = Left \cup {[op |-> x.op, entry |-> x.entry, map |-> x.map]}
      <4> HIDE DEF x
      <4> QED BY <2>2 DEF Left, x
    <3>2. Contract!Pending(Asking[c]) = [op |-> a.op, entry |-> a.entry, map |-> a.map]
      BY <1>1, <1>4, Seen DEF Contract!Pending
    <3>3. Asking[c].did = "nothing"
      BY <1>4, <2>2, Seen
    <3> QED BY <2>2, <3>1, <3>2, <3>3
  <2> QED BY <2>1, <2>2 DEF a, b
<1>6. Asking[c].op # "none" /\ Contract!Honest(Asking[c], said)
  BY <1>1, <1>2, <1>4, Seen
<1> HIDE DEF said, word
<1>7. \E x \in {"value", "absent", "done", "refused", "down"}, y \in Maps \cup {Absent} :
        LET s == [kind |-> x, map |-> y]
        IN  /\ Contract!Honest(Asking[c], s)
            /\ Asking' = [Asking EXCEPT ![c] = [Contract!Idle EXCEPT !.said = s]]
            /\ \/ Left' = Left
               \/ x = "down" /\ Asking[c].did = "nothing" /\ Left' = Left \cup {Contract!Pending(Asking[c])}
  <2>1. /\ Contract!Honest(Asking[c], [kind |-> word, map |-> m])
        /\ Asking' = [Asking EXCEPT ![c] = [Contract!Idle EXCEPT !.said = [kind |-> word, map |-> m]]]
    BY <1>3, <1>4, <1>6
  <2> QED BY <1>3, <1>5, <2>1
<1>8. Veil' = Veil
  BY VeilStays
<1> QED BY <1>6, <1>7, <1>8 DEF Contract!Answer, Asking, Left

\* What a caller did not do it did not do to the contract.
LEMMA SilenceStutters ==
    ASSUME CallInv, NEW c \in Callers, Becomes(c, call'[c]), Silent(call[c], call'[c]),
           site' = site, store' = store, adrift' = adrift
    PROVE  UNCHANGED <<store, Asking, Left, Veil>>
<1> DEFINE a == call[c]
           b == call'[c]
<1>1. Asking[c] = Contracted(a) /\ Asking' = [Asking EXCEPT ![c] = Contracted(b)]
  BY OneAsks
<1>2. Contracted(b) = Contracted(a)
  <2>1. b.op = a.op /\ b.entry = a.entry /\ b.map = a.map /\ b.said = a.said /\ b.did = a.did /\ b.seen = a.seen
    BY DEF Silent, Kept
  <2> HIDE DEF a, b
  <2> QED BY <2>1 DEF Contracted
<1>3. Asking' = Asking
  <2> HIDE DEF a, b
  <2> QED BY <1>1, <1>2 DEF Asking
<1> QED BY <1>3, VeilStays DEF Left

\* What stands between answers for the entry.
LEMMA HidingHides ==
    ASSUME CallInv, NEW c \in Callers, Becomes(c, call'[c]), Hides(call[c], call'[c]),
           site' = site, store' = store, adrift' = adrift
    PROVE  Contract!Hide(c)
<1> DEFINE a == call[c]
           b == call'[c]
<1>1. Asking[c] = Contracted(a) /\ Asking' = [Asking EXCEPT ![c] = Contracted(b)]
  BY OneAsks
<1>2. /\ b.op = a.op /\ b.entry = a.entry /\ b.map = a.map /\ b.said = a.said /\ b.did = "hidden"
      /\ b.seen = a.seen /\ a.op # "none" /\ a.did # "hidden"
      /\ a.op \in {"get", "delete"} \/ (a.op = "set" /\ Veil)
  BY DEF Hides, Kept
<1> HIDE DEF a, b
<1>3. Contracted(b) = [Contracted(a) EXCEPT !.did = "hidden"]
  BY <1>2 DEF Contracted
<1>4. Asking' = [Asking EXCEPT ![c].did = "hidden"]
  BY <1>1, <1>3
<1>5. /\ Asking[c].op \in {"get", "delete"} \/ (Asking[c].op = "set" /\ Veil)
      /\ Asking[c].did # "hidden"
  BY <1>1, <1>2, Seen
<1>6. Left' = Left /\ Veil' = Veil
  BY VeilStays DEF Left
<1> QED BY <1>4, <1>5, <1>6 DEF Contract!Hide, Asking, Left

\* The operation itself is the contract's.
LEMMA TakingTakes ==
    ASSUME CallInv, NEW c \in Callers, Becomes(c, call'[c]), Takes(call[c], call'[c]),
           site' = site, store' = Applied(call[c]), adrift' = adrift
    PROVE  Contract!TakeEffect(c)
<1> DEFINE a == call[c]
           b == call'[c]
<1>1. Asking[c] = Contracted(a) /\ Asking' = [Asking EXCEPT ![c] = Contracted(b)]
  BY OneAsks
<1>2. /\ b.op = a.op /\ b.entry = a.entry /\ b.map = a.map /\ b.said = a.said /\ b.did = "took"
      /\ b.seen = store[a.entry] /\ a.op # "none" /\ a.did = "nothing"
  BY DEF Takes, Kept
<1>3. store' = Applied(a)
  OBVIOUS
<1> HIDE DEF a, b
<1>4. Asking[c].op = a.op /\ Asking[c].did = "nothing" /\ Asking[c].entry = a.entry /\ Asking[c].map = a.map
  BY <1>1, <1>2, Seen
<1>5. store' = Contract!After(Asking[c])
  BY <1>3, <1>4 DEF Applied, Contract!After
<1>6. Contracted(b) = [Contracted(a) EXCEPT !.did = "took", !.seen = store[Asking[c].entry]]
  <2> DEFINE x == [Contracted(a) EXCEPT !.did = "took", !.seen = store[Asking[c].entry]]
  <2>1. x = [Contracted(a) EXCEPT !.did = "took", !.seen = store[Asking[c].entry]]
    OBVIOUS
  <2> HIDE DEF x
  <2>2. x = Contracted(b)
    BY <2>1, <1>2, <1>4 DEF Contracted
  <2> QED BY <2>2 DEF x
<1>7. Asking' = [Asking EXCEPT ![c].did = "took", ![c].seen = store[Asking[c].entry]]
  BY <1>1, <1>6 DEF Asking
<1>8. Left' = Left /\ Veil' = Veil
  BY VeilStays DEF Left
<1> QED BY <1>2, <1>4, <1>5, <1>7, <1>8 DEF Contract!TakeEffect, Asking, Left

\* A request that was given up is served when nobody waits for it.
LEMMA LateTakes ==
    ASSUME CallInv, ServeLate
    PROVE  Contract!TakeEffectLate
<1>1. PICK r \in adrift : store' = Applied(r) /\ adrift' = adrift \ {r}
  BY DEF ServeLate
<1> DEFINE seen(x) == [op |-> x.op, entry |-> x.entry, map |-> x.map]
<1>2. seen(r) \in Left /\ seen(r).op = r.op /\ seen(r).entry = r.entry /\ seen(r).map = r.map
  BY DEF Left
<1>3. store' = Contract!After(seen(r))
  BY <1>1, <1>2 DEF Applied, Contract!After
<1>4. Left = {seen(x) : x \in adrift} /\ Left' = {seen(x) : x \in adrift \ {r}}
  BY <1>1 DEF Left
<1> HIDE DEF seen
<1>5. Left' \in {Left, Left \ {seen(r)}}
  BY <1>4
<1>6. Asking' = Asking /\ Veil' = Veil
  BY VeilStays DEF ServeLate, Asking, Contracted, World
<1> QED BY <1>2, <1>3, <1>5, <1>6 DEF Contract!TakeEffectLate, Asking, Left, seen

\* Nothing is asked or left behind when the system starts.
LEMMA ContractInit == BackendsInit(Sites) => Contract!Init
<1> SUFFICES ASSUME BackendsInit(Sites) PROVE Contract!Init
  OBVIOUS
<1>1. store \in [Entries -> Maps \cup {Absent, Garbled}]
  BY CallInvInit DEF CallInv, Held
<1>2. \A c \in Callers : Contracted(call[c]) = Contract!Idle
  <2>1. \A c \in Callers : call[c] = NoCall
    BY DEF BackendsInit
  <2>2. Contracted(NoCall) = Contract!Idle
    <3>1. Nothing.kind = "nothing" /\ Nothing.map = Absent /\ Nothing = [kind |-> "nothing", map |-> Absent]
      BY DEF Nothing
    <3>2. (CASE NoCall.said.kind \in AllowsFallback -> "down"
             [] NoCall.said.kind \in {"malformed", "unsupported"} -> "refused"
             [] OTHER -> NoCall.said.kind) = "nothing"
      BY <3>1, CallShapes DEF AllowsFallback
    <3> QED BY <3>1, <3>2, CallShapes, IdleShape DEF Contracted
  <2> QED BY <2>1, <2>2
<1>3. adrift = {}
  BY DEF BackendsInit
<1>4. Veil \in BOOLEAN
  BY DEF Veil
<1> QED BY <1>1, <1>2, <1>3, <1>4 DEF Contract!Init

\* Every step of the backends is a step of the contract, or none.
LEMMA ContractStep ==
    ASSUME CallInv, [BackendsNext]_backendVars
    PROVE  [Contract!Next]_(Contract!vars)
<1>1. ASSUME NEW c \in Callers, CallStep(c) PROVE Contract!Next \/ UNCHANGED <<store, Asking, Left, Veil>>
  <2> DEFINE a == call[c]
             b == call'[c]
  <2>1. /\ Becomes(c, b) /\ site' = site
        /\ \/ Silent(a, b) /\ store' = store /\ adrift' = adrift
           \/ Hides(a, b) /\ store' = store /\ adrift' = adrift
           \/ Takes(a, b) /\ store' = Applied(a) /\ adrift' = adrift
           \/ Tells(a, b) /\ store' = store /\ adrift' = adrift
           \/ /\ Tells(a, b) /\ store' = store /\ Contracted(b).said.kind = "down" /\ a.did = "nothing"
              /\ adrift' = adrift \cup {[op |-> a.op, entry |-> a.entry, map |-> a.map, token |-> a.token]}
    BY <1>1, CallMakes
  <2>2. CASE Silent(a, b) /\ store' = store /\ adrift' = adrift
    BY <2>1, <2>2, SilenceStutters
  <2>3. CASE Hides(a, b) /\ store' = store /\ adrift' = adrift
    BY <2>1, <2>3, HidingHides DEF Contract!Next
  <2>4. CASE Takes(a, b) /\ store' = Applied(a) /\ adrift' = adrift
    BY <2>1, <2>4, TakingTakes DEF Contract!Next
  <2>5. CASE Tells(a, b) /\ store' = store /\ adrift' = adrift
    BY <2>1, <2>5, TellsAnswers DEF Contract!Next
  <2>6. CASE /\ Tells(a, b) /\ store' = store /\ Contracted(b).said.kind = "down" /\ a.did = "nothing"
             /\ adrift' = adrift \cup {[op |-> a.op, entry |-> a.entry, map |-> a.map, token |-> a.token]}
    BY <2>1, <2>6, TellsAnswers DEF Contract!Next
  <2> QED BY <2>1, <2>2, <2>3, <2>4, <2>5, <2>6
<1>2. ASSUME NEW c \in Callers, BeginCall(c) PROVE Contract!Next
  BY <1>2, BeginAsks DEF Contract!Next
<1>3. ASSUME ServeLate PROVE Contract!Next
  BY <1>3, LateTakes DEF Contract!Next
<1>4. ASSUME Login \/ Upset \/ UNCHANGED backendVars PROVE UNCHANGED <<store, Asking, Left, Veil>>
  BY <1>4, VeilStays DEF Login, Upset, backendVars, Asking, Left, Contracted
<1>5. Contract!Next \/ UNCHANGED <<store, Asking, Left, Veil>>
  BY <1>1, <1>2, <1>3, <1>4 DEF BackendsNext
<1> QED BY <1>5 DEF Contract!vars, Asking, Left

(* Whatever stands at the address, whatever is lost or cut off on the way and
   whoever else calls, a call does to its entry what it says: every behaviour
   of the backends is one of the contract (CallsKeepTheContract). *)
THEOREM CallsRefine == BackendsSpec => CallsKeepTheContract
<1>1. BackendsInit(Sites) => CallInv /\ Contract!Init
  BY CallInvInit, ContractInit
<1>2. CallInv /\ [BackendsNext]_backendVars => CallInv' /\ [Contract!Next]_(Contract!vars)
  BY CallInvStep, ContractStep
<1> QED BY <1>1, <1>2, PTL DEF BackendsSpec, CallsKeepTheContract, Contract!Spec
=============================================================================
