------------------------ MODULE CredentialStoreProofs ------------------------
(* Proofs that the safety properties of CredentialStore hold for any number of
   processes, paths and grants. *)
EXTENDS CredentialStore, TLAPS

(* What rmcp may not do: go on saving the credential it holds after the store
   reported its primary path undecodable.  The store forgets the origin then. *)
ForgetsCorrupt == "corrupt" \notin HoldsThrough

(* Facts about the values the model is built from. *)

(* Credential values have their type, and only a token names a grant. *)
LEMMA TokenFacts ==
    /\ NoCred \in Cred /\ Corrupt \in Cred /\ Bare \in Cred
    /\ \A g \in Grants, n \in Nat : Token(g, n) \in Cred
    /\ \A c \in Cred : c.kind = "token" => c.grant \in Grants /\ c.gen \in Nat
    /\ \A c \in Cred : c.grant \in Grants \cup {NoGrant}
    /\ NoCred.kind = "none" /\ Corrupt.kind = "corrupt" /\ Bare.kind = "bare"
BY DEF NoCred, Corrupt, Bare, Token, Cred

(* Payloads have their type, and neither absence nor garbage holds anything. *)
LEMMA PayloadFacts ==
    /\ Absent \in Payload /\ Garbled \in Payload
    /\ \A c \in Cred, b \in BOOLEAN : MapOf(c, b) \in Payload /\ MapOf(c, b).cred = c
    /\ Absent.cred.kind = "none" /\ Garbled.cred.kind = "none" /\ Failed.cred.kind = "none"
    /\ Absent.sib = FALSE /\ Garbled.sib = FALSE
BY TokenFacts DEF Absent, Garbled, Failed, MapOf, Payload, NoCred

(* What a payload holds; only a map holds anything. *)
LEMMA PayloadHolds ==
    ASSUME NEW x \in Payload
    PROVE  /\ x.cred \in Cred /\ x.sib \in BOOLEAN
           /\ x.kind # "map" => x.cred.kind = "none" /\ x.sib = FALSE /\ x \in {Absent, Garbled}
<1>1. CASE x \in [kind : {"map"}, cred : Cred, sib : BOOLEAN]
    BY <1>1
<1>2. CASE x = Absent \/ x = Garbled
    <2>1. x.cred = NoCred /\ x.sib = FALSE
        BY <1>2 DEF Absent, Garbled
    <2>. QED
        BY <1>2, <2>1, TokenFacts
<1>. QED
    BY <1>1, <1>2 DEF Payload

(* A read answers with the payload of the path, or with nothing. *)
LEMMA ReadFacts ==
    ASSUME TypeOK, NEW a \in Paths, NEW x \in Reads(a)
    PROVE  /\ x = kv[a] \/ (x.cred = NoCred /\ x.kind \in {"failed", "absent"} /\ x.sib = FALSE)
           /\ x.cred \in Cred /\ x.sib \in BOOLEAN
           /\ x.kind = "map" => x \in Payload
           /\ x.cred.kind = "token" => x = kv[a]
<1>1. kv[a] \in Payload
    BY DEF TypeOK
<1>2. CASE x = kv[a]
    BY <1>1, <1>2, PayloadHolds
<1>3. CASE x = Failed
    BY <1>3, TokenFacts DEF Failed
<1>4. CASE x = Absent
    BY <1>4, TokenFacts, PayloadFacts DEF Absent
<1>. QED
    BY <1>2, <1>3, <1>4 DEF Reads

------------------------------------------------------------------------------
(* One process: what every handler must leave it in. *)

Sound(p, s) == s \in Local /\ HomeBound(p, s) /\ StoreShape(p, s)

(* A command that is over, or was killed, leaves a sound process. *)
LEMMA EndedSound ==
    ASSUME NEW p \in Procs, NEW what \in {"nothing", "failed", "signedIn", "clean", "shared"}
    PROVE  Sound(p, Ended(what)) /\ Sound(p, Idle)
BY TokenFacts, PayloadFacts, PathAssumption
   DEF Sound, Ended, Idle, Local, HomeBound, StoreShape, NoCred, PCs, CommandNames

(* A new store has the fallback it was given and remembers nothing. *)
LEMMA NewStoreFacts ==
    ASSUME NEW s \in Local, NEW fb \in Paths \cup {NoPath}
    PROVE  LET n == NewStore(s, fb)
           IN /\ n \in Local
              /\ n.fb = fb /\ n.readFrom = NoPath /\ n.held = NoCred /\ ~n.disabled
              /\ n.pc = s.pc /\ n.stage = s.stage /\ n.cmd = s.cmd /\ n.at = s.at
BY TokenFacts DEF NewStore, Local

(* A load leaves its caller sound when a credential it found is at home at the
   path the store now remembers, and one it keeps was. *)
LEMMA LoadedSound ==
    ASSUME NEW p \in Procs, NEW s \in Local, StoreShape(p, s), s.pc \in {"load", "loadShared"},
           NEW result \in LoadResults, NEW c \in Cred,
           result = "found" /\ c.kind = "token" =>
               home[c.grant] = IF s.readFrom # NoPath THEN s.readFrom ELSE Primary[p],
           result \in HoldsThrough => HomeBound(p, s)
    PROVE  Sound(p, Loaded(s, result, c))
<1>. USE DEF LoadResults
<1>. DEFINE held == Kept(s, result, c)
<1>1. held \in Cred
    BY TokenFacts DEF Kept, Local
<1>2. held.kind = "token" =>
        home[held.grant] = IF s.readFrom # NoPath THEN s.readFrom ELSE Primary[p]
    BY TokenFacts DEF Kept, HomeBound, SaveTarget
<1>3. ASSUME NEW pc \in {"serving", "loaded"}, NEW h \in Cred,
             h.kind = "token" =>
                home[h.grant] = IF s.readFrom # NoPath THEN s.readFrom ELSE Primary[p],
             pc = "loaded" => h.kind = "token"
      PROVE  Sound(p, Serve(s, pc, h))
    <2>. DEFINE n == Serve(s, pc, h)
    <2>1. /\ n \in Local
          /\ n.pc = pc /\ n.stage = "serve" /\ n.held = h /\ n.fb = s.fb /\ n.readFrom = s.readFrom
        BY <1>3, ZenonT(60) DEF Serve, Local, PCs
    <2>. HIDE DEF n
    <2>2. HomeBound(p, n)
        BY <1>3, <2>1 DEF HomeBound, SaveTarget
    <2>3. StoreShape(p, n)
        BY <1>3, <2>1 DEF StoreShape
    <2>. QED
        BY <2>1, <2>2, <2>3 DEF Sound, n
<1>4. Sound(p, [NewStore(s, NoPath) EXCEPT !.pc = "authorize"])
    <2>. DEFINE m == NewStore(s, NoPath)
                n == [m EXCEPT !.pc = "authorize"]
    <2>1. m \in Local /\ m.fb = NoPath /\ m.readFrom = NoPath /\ m.held = NoCred
        BY NewStoreFacts
    <2>. HIDE DEF m
    <2>2. n \in Local /\ n.pc = "authorize" /\ n.fb = NoPath /\ n.readFrom = NoPath /\ n.held = NoCred
        BY <2>1 DEF Local, PCs
    <2>. HIDE DEF n
    <2>3. Sound(p, n)
        BY <2>2, TokenFacts DEF Sound, HomeBound, StoreShape
    <2>. QED
        BY <2>3 DEF n, m
<1>5. \A what \in {"nothing", "failed", "signedIn"} : Sound(p, Ended(what))
    BY EndedSound
<1>6. result = "found" /\ c.kind = "token" => Sound(p, Serve(s, "serving", c))
    BY <1>3
<1>7. CASE s.stage = "init"
    BY <1>4, <1>5, <1>6, <1>7 DEF Loaded, AfterInitialLoad
<1>8. CASE s.stage = "confirm"
    BY <1>5, <1>6, <1>8 DEF Loaded, AfterConfirmingLoad
<1>9. CASE s.stage = "serve"
    <2>1. Sound(p, Serve(s, IF held.kind = "token" THEN "loaded" ELSE "serving", held))
        BY <1>1, <1>2, <1>3
    <2>. QED
        BY <1>9, <2>1 DEF Loaded, AfterServingLoad
<1>10. CASE s.stage = "report"
    BY <1>5, <1>10 DEF Loaded
<1>. QED
    BY <1>7, <1>8, <1>9, <1>10 DEF Local

------------------------------------------------------------------------------
(* Steps. *)

(* The invariant of the store says every process is sound. *)
LEMMA IInvOfSound == IInv => \A p \in Procs : Sound(p, st[p])
BY DEF IInv, TypeOK, Sound

(* A step that moves one process to a sound state and no grant's home keeps
   every process sound. *)
LEMMA StepSound ==
    ASSUME IInv, NEW p \in Procs, NEW local, Step(p, local), Sound(p, local), home' = home
    PROVE  /\ st' \in [Procs -> Local]
           /\ \A q \in Procs : (HomeBound(q, st[q]) /\ StoreShape(q, st[q]))'
<1>1. local \in Local /\ HomeBound(p, local) /\ StoreShape(p, local)
    BY DEF Sound
<1>2. st' \in [Procs -> Local] /\ st'[p] = local /\ \A q \in Procs \ {p} : st'[q] = st[q]
    BY <1>1 DEF IInv, TypeOK, Step
<1>3. \A q \in Procs : HomeBound(q, st[q])'
    BY <1>1, <1>2 DEF IInv, HomeBound, SaveTarget
<1>4. \A q \in Procs : StoreShape(q, st[q])'
    BY <1>1, <1>2 DEF IInv, StoreShape, SaveTarget
<1>. QED
    BY <1>2, <1>3, <1>4

(* Such a step that writes nothing. *)
LEMMA QuietStep ==
    ASSUME IInv, NEW p \in Procs, NEW local, Step(p, local), Sound(p, local),
           UNCHANGED <<kv, home>>, live' \in [Grants -> Nat],
           revoked' \subseteq Grants, lost' \subseteq Grants, touched' \subseteq Procs
    PROVE  IInv'
<1>1. st' \in [Procs -> Local] /\ \A q \in Procs : (HomeBound(q, st[q]) /\ StoreShape(q, st[q]))'
    BY StepSound
<1>. QED
    BY <1>1 DEF IInv, TypeOK, GrantStaysHome, HasToken

(* Such a step that writes a path: what it stores there is at home. *)
LEMMA WritingStep ==
    ASSUME IInv, NEW p \in Procs, NEW local, Step(p, local), Sound(p, local),
           NEW path \in Paths, NEW payload \in Payload, NEW o \in WriteOutcomes,
           Write(p, path, payload, o),
           HasToken(payload) => home[payload.cred.grant] = path,
           UNCHANGED <<home, live, revoked>>, lost' \subseteq Grants
    PROVE  IInv'
<1>1. st' \in [Procs -> Local] /\ \A q \in Procs : (HomeBound(q, st[q]) /\ StoreShape(q, st[q]))'
    BY StepSound
<1>2. kv' \in [Paths -> Payload] /\ \A a \in Paths : kv'[a] = kv[a] \/ (a = path /\ kv'[a] = payload)
    BY DEF Write, IInv, TypeOK
<1>3. touched' \subseteq Procs
    BY DEF Write, Rewriting, IInv, TypeOK
<1>4. GrantStaysHome'
    BY <1>2 DEF GrantStaysHome, HasToken, IInv
<1>. QED
    BY <1>1, <1>2, <1>3, <1>4 DEF IInv, TypeOK

(* Starting a command preserves the invariant. *)
LEMMA BeginInv ==
    ASSUME IInv, NEW p \in Procs, NEW c \in CommandNames, Begin(p, c)
    PROVE  IInv'
<1>. DEFINE fb == StoreFallback(p, c)
            n == NewStore(Idle, fb)
            fresh == [n EXCEPT !.cmd = c,
                        !.stage = IF c = "status" THEN "report" ELSE "init"]
<1>1. fb \in Paths \cup {NoPath}
    BY PathAssumption DEF StoreFallback
<1>2. Idle \in Local /\ Idle.pc = "off"
    BY EndedSound DEF Sound, Idle
<1>3. /\ fresh \in Local /\ fresh.fb = fb /\ fresh.readFrom = NoPath /\ fresh.held = NoCred
      /\ fresh.stage # "confirm" /\ fresh.cmd = c
    <2>1. n \in Local /\ n.fb = fb /\ n.readFrom = NoPath /\ n.held = NoCred
        BY <1>1, <1>2, NewStoreFacts
    <2>. HIDE DEF n
    <2>. QED
        BY <2>1, ZenonT(60) DEF Local
<1>. HIDE DEF fresh, fb
<1>4. \A pc \in {"load", "clearRead"} : Sound(p, [fresh EXCEPT !.pc = pc])
    BY <1>3, TokenFacts DEF Sound, Local, PCs, HomeBound, StoreShape
<1>5. c = "put" => \A path \in Paths : Sound(p, [fresh EXCEPT !.pc = "putRead", !.at = path])
    BY <1>3, TokenFacts, ZenonT(60) DEF Sound, Local, PCs, HomeBound, StoreShape
<1>6. PICK local : Step(p, local) /\ Sound(p, local)
    <2>1. CASE c \in {"proxy", "login", "status"}
        BY <1>4, <2>1 DEF Begin, fresh, n, fb
    <2>2. CASE c = "logout"
        BY <1>4, <2>2 DEF Begin, fresh, n, fb
    <2>3. CASE c = "put"
        BY <1>5, <2>3 DEF Begin, fresh, n, fb
    <2>. QED
        BY <2>1, <2>2, <2>3 DEF CommandNames
<1>. QED
    BY <1>6, QuietStep DEF Begin, IInv, TypeOK

(* Reading the own path preserves it: what is found there is at home there. *)
LEMMA LoadPrimaryInv ==
    ASSUME IInv, ForgetsCorrupt, NEW p \in Procs, LoadPrimary(p)
    PROVE  IInv'
<1>. DEFINE s == st[p]
            own == [s EXCEPT !.readFrom = NoPath]
<1>1. PICK a \in Reads(Primary[p]) :
          \/ a.kind = "absent" /\ ~TriesShared(s) /\ Step(p, Loaded(own, "none", NoCred))
          \/ a.kind = "absent" /\ TriesShared(s) /\ Step(p, [s EXCEPT !.pc = "loadShared"])
          \/ a.kind = "map" /\ Step(p, Loaded(own, Decoded(a), a.cred))
          \/ a.kind = "garbled" /\ Step(p, Loaded(own, "corrupt", NoCred))
          \/ a.kind = "failed" /\ Step(p, Loaded(s, "failed", NoCred))
    BY DEF LoadPrimary
<1>2. Sound(p, s) /\ s.pc = "load"
    BY IInvOfSound DEF LoadPrimary
<1>3. own \in Local /\ own.readFrom = NoPath /\ own.pc = "load" /\ StoreShape(p, own)
    BY <1>2 DEF Sound, Local, StoreShape
<1>4. /\ a.cred \in Cred
      /\ a.cred.kind = "token" => home[a.cred.grant] = Primary[p]
    <2>1. Primary[p] \in Paths /\ TypeOK
        BY PathAssumption DEF IInv
    <2>2. a.cred \in Cred /\ (a.cred.kind = "token" => a = kv[Primary[p]])
        BY <2>1, ReadFacts
    <2>. QED
        BY <2>1, <2>2 DEF IInv, GrantStaysHome, HasToken
<1>5. Decoded(a) \in LoadResults /\ Decoded(a) \notin HoldsThrough
    <2>1. Decoded(a) \in {"none", "corrupt", "found"}
        BY DEF Decoded
    <2>. QED
        BY <2>1, EnvironmentAssumption DEF LoadResults, ForgetsCorrupt
<1>6. {"none", "corrupt"} \cap HoldsThrough = {}
    BY EnvironmentAssumption DEF ForgetsCorrupt
<1>. HIDE DEF own, s
<1>7. Sound(p, Loaded(own, "none", NoCred)) /\ Sound(p, Loaded(own, "corrupt", NoCred))
    BY <1>3, <1>6, LoadedSound, TokenFacts DEF LoadResults
<1>8. Sound(p, Loaded(own, Decoded(a), a.cred))
    BY <1>3, <1>4, <1>5, LoadedSound
<1>9. Sound(p, Loaded(s, "failed", NoCred))
    BY <1>2, LoadedSound, TokenFacts DEF LoadResults, Sound
<1>10. TriesShared(s) => Sound(p, [s EXCEPT !.pc = "loadShared"])
    BY <1>2 DEF Sound, TriesShared, Local, PCs, HomeBound, StoreShape, SaveTarget
<1>11. PICK local : Step(p, local) /\ Sound(p, local)
    BY <1>1, <1>7, <1>8, <1>9, <1>10
<1>. QED
    BY <1>11, QuietStep DEF LoadPrimary, IInv, TypeOK

(* So does reading the fallback, which the store then remembers. *)
LEMMA LoadSharedInv ==
    ASSUME IInv, NEW p \in Procs, LoadShared(p)
    PROVE  IInv'
<1>. DEFINE s == st[p]
            none == [s EXCEPT !.readFrom = NoPath]
            some == [s EXCEPT !.readFrom = s.fb]
<1>1. PICK a \in Reads(s.fb) :
          \/ a.kind \in {"garbled", "failed"} /\ Step(p, Loaded(s, "missed", NoCred))
          \/ a.kind \in {"absent", "map"} /\ Step(p, Loaded(none, "none", NoCred))
          \/ a.kind = "map" /\ Step(p, Loaded(s, "failed", NoCred))
          \/ a.kind = "map" /\ Decoded(a) = "found" /\ Step(p, Loaded(some, "found", a.cred))
    BY DEF LoadShared
<1>2. Sound(p, s) /\ s.pc = "loadShared" /\ s.fb \in Paths
    BY IInvOfSound DEF LoadShared, Sound, StoreShape, Local
<1>3. none \in Local /\ none.readFrom = NoPath /\ none.pc = "loadShared" /\ StoreShape(p, none)
    BY <1>2 DEF Sound, Local, StoreShape
<1>4. some \in Local /\ some.readFrom = s.fb /\ some.pc = "loadShared" /\ StoreShape(p, some)
    BY <1>2 DEF Sound, Local, StoreShape
<1>5. /\ a.cred \in Cred
      /\ a.cred.kind = "token" => home[a.cred.grant] = s.fb
    BY <1>2, ReadFacts DEF IInv, GrantStaysHome, HasToken
<1>6. {"none", "found"} \cap HoldsThrough = {}
    BY EnvironmentAssumption
<1>. HIDE DEF none, some, s
<1>7. Sound(p, Loaded(s, "missed", NoCred)) /\ Sound(p, Loaded(s, "failed", NoCred))
    BY <1>2, LoadedSound, TokenFacts DEF LoadResults, Sound
<1>8. Sound(p, Loaded(none, "none", NoCred))
    BY <1>3, <1>6, LoadedSound, TokenFacts DEF LoadResults
<1>9. Sound(p, Loaded(some, "found", a.cred))
    BY <1>2, <1>4, <1>5, <1>6, LoadedSound, PathAssumption DEF LoadResults
<1>10. PICK local : Step(p, local) /\ Sound(p, local)
    BY <1>1, <1>7, <1>8, <1>9
<1>. QED
    BY <1>10, QuietStep DEF LoadShared, IInv, TypeOK

(* A store made for the confirming read holds nothing that could stray. *)
LEMMA ConfirmingSound ==
    ASSUME NEW p \in Procs, NEW m \in Local, m.fb = NoPath, m.readFrom = NoPath, m.held = NoCred
    PROVE  Sound(p, [m EXCEPT !.pc = "load", !.at = NoPath, !.snap = Absent])
<1>. DEFINE n == [m EXCEPT !.pc = "load", !.at = NoPath, !.snap = Absent]
<1>1. n \in Local
    BY PayloadFacts, ZenonT(60) DEF Local, PCs
<1>2. n.pc = "load" /\ n.fb = m.fb /\ n.readFrom = m.readFrom /\ n.held = m.held
    BY DEF Local
<1>. HIDE DEF n
<1>3. Sound(p, n)
    BY <1>1, <1>2, TokenFacts DEF Sound, HomeBound, StoreShape
<1>. QED
    BY <1>3 DEF n

(* After a save or a clear the process serves on, is over, or confirms through
   a new store. *)
LEMMA AfterSaveSound ==
    ASSUME NEW p \in Procs, NEW s \in Local, Sound(p, s), s.pc \in {"saveRead", "saveWrite"},
           NEW ok \in BOOLEAN
    PROVE  Sound(p, AfterSave(s, ok))
<1>1. Sound(p, Ended("failed"))
    BY EndedSound
<1>2. CASE s.stage = "confirm" /\ ok
    <2>2. /\ NewStore(s, NoPath) \in Local /\ NewStore(s, NoPath).fb = NoPath
          /\ NewStore(s, NoPath).readFrom = NoPath /\ NewStore(s, NoPath).held = NoCred
        BY NewStoreFacts
    <2>. QED
        BY <1>2, <2>2, ConfirmingSound DEF AfterSave
<1>3. CASE s.stage # "confirm"
    <2>. DEFINE n == [s EXCEPT !.pc = "serving", !.at = NoPath, !.snap = Absent]
    <2>1. /\ n \in Local /\ n.pc = "serving" /\ n.stage = s.stage /\ n.fb = s.fb
          /\ n.readFrom = s.readFrom /\ n.held = s.held
        BY PayloadFacts, ZenonT(60) DEF Local, PCs
    <2>. HIDE DEF n
    <2>2. Sound(p, n)
        BY <1>3, <2>1 DEF Sound, HomeBound, StoreShape, SaveTarget
    <2>. QED
        BY <1>3, <2>2 DEF AfterSave, n
<1>. QED
    BY <1>1, <1>2, <1>3 DEF AfterSave

(* A clear, whatever became of it, leaves a sound process. *)
LEMMA AfterClearSound ==
    ASSUME NEW p \in Procs, NEW s \in Local, Sound(p, s), s.pc \in {"clearRead", "clearWrite"},
           NEW ok \in BOOLEAN
    PROVE  Sound(p, AfterClear(s, ok))
<1>. DEFINE check == [s EXCEPT !.pc = "checkShared", !.at = NoPath, !.snap = Absent]
            h == IF ok THEN NoCred ELSE s.held
            d == IF ok THEN s.held.grant ELSE s.dropped
            serve == [s EXCEPT !.pc = "serving", !.at = NoPath, !.snap = Absent, !.held = h, !.dropped = d]
<1>1. /\ check \in Local /\ check.pc = "checkShared" /\ check.stage = s.stage /\ check.fb = s.fb
      /\ check.readFrom = s.readFrom /\ check.held = s.held
    BY PayloadFacts, ZenonT(60) DEF Local, PCs
<1>2. h \in Cred /\ d \in Grants \cup {NoGrant} /\ h \in {s.held, NoCred} /\ Absent \in Payload
    BY TokenFacts, PayloadFacts DEF Local
<1>. HIDE DEF h, d
<1>3. /\ serve \in Local /\ serve.pc = "serving" /\ serve.stage = s.stage /\ serve.fb = s.fb
      /\ serve.readFrom = s.readFrom /\ serve.held \in {s.held, NoCred}
    <2>1. "serving" \in PCs /\ NoPath \in Paths \cup {NoPath}
        BY DEF PCs
    <2>2. serve \in Local
        BY <1>2, <2>1, ZenonT(60) DEF Local
    <2>3. /\ serve.pc = "serving" /\ serve.stage = s.stage /\ serve.fb = s.fb
          /\ serve.readFrom = s.readFrom /\ serve.held = h
        BY DEF Local
    <2>. QED
        BY <1>2, <2>2, <2>3
<1>. HIDE DEF check, serve
<1>4. Sound(p, check)
    BY <1>1 DEF Sound, HomeBound, StoreShape, SaveTarget
<1>5. Sound(p, serve)
    BY <1>3, TokenFacts DEF Sound, HomeBound, StoreShape, SaveTarget
<1>. QED
    BY <1>4, <1>5, EndedSound DEF AfterClear, check, serve, h, d

(* The read of a save fixes the path the write will go to. *)
LEMMA SaveReadInv ==
    ASSUME IInv, NEW p \in Procs, SaveRead(p)
    PROVE  IInv'
<1>. DEFINE s == st[p]
            path == SaveTarget(p, s)
            Snap(a) == IF a.kind = "map" THEN a ELSE MapOf(NoCred, FALSE)
            Next1(a) == [s EXCEPT !.pc = "saveWrite", !.at = path, !.snap = Snap(a)]
<1>1. Sound(p, s) /\ s.pc = "saveRead"
    BY IInvOfSound DEF SaveRead
<1>2. path \in Paths
    BY <1>1, PathAssumption DEF SaveTarget, Sound, Local
<1>3. PICK a \in Reads(path) :
          Step(p, AfterSave(s, FALSE)) \/ Step(p, Next1(a))
    BY DEF SaveRead
<1>4. Snap(a) \in Payload
    <2>1. a.kind = "map" => a \in Payload
        BY <1>2, ReadFacts DEF IInv
    <2>. QED
        BY <2>1, PayloadFacts, TokenFacts
<1>. HIDE DEF Snap, path
<1>5. Sound(p, Next1(a))
    <2>. DEFINE n == Next1(a)
    <2>1. /\ n \in Local /\ n.pc = "saveWrite" /\ n.stage = s.stage /\ n.fb = s.fb
          /\ n.readFrom = s.readFrom /\ n.held = s.held /\ n.at = path
        BY <1>1, <1>2, <1>4 DEF Sound, Local, PCs
    <2>. HIDE DEF n
    <2>2. Sound(p, n)
        BY <1>1, <2>1 DEF Sound, HomeBound, StoreShape, SaveTarget, path
    <2>. QED
        BY <2>2 DEF n
<1>6. Sound(p, AfterSave(s, FALSE))
    BY <1>1, AfterSaveSound DEF Sound
<1>7. lost' \subseteq Grants
    <2>1. Losing(p) \subseteq Grants
        BY <1>1, TokenFacts DEF Losing, Sound, Local
    <2>2. lost' = lost \/ lost' = lost \cup Losing(p)
        BY DEF SaveRead
    <2>. QED
        BY <2>1, <2>2 DEF IInv, TypeOK
<1>8. touched' \subseteq Procs
    BY DEF SaveRead, Untouched, IInv, TypeOK
<1>9. PICK local : Step(p, local) /\ Sound(p, local)
    BY <1>3, <1>5, <1>6
<1>. QED
    BY <1>7, <1>8, <1>9, QuietStep DEF SaveRead, IInv, TypeOK

(* The write of a save stores the grant at its home. *)
LEMMA SaveWriteInv ==
    ASSUME IInv, NEW p \in Procs, SaveWrite(p)
    PROVE  IInv'
<1>. DEFINE s == st[p]
            payload == MapOf(s.held, s.snap.sib)
<1>1. Sound(p, s) /\ s.pc = "saveWrite"
    BY IInvOfSound DEF SaveWrite
<1>2. s.at = SaveTarget(p, s) /\ s.at \in Paths
    BY <1>1, PathAssumption DEF Sound, StoreShape, SaveTarget, Local
<1>3. payload \in Payload /\ (HasToken(payload) => home[payload.cred.grant] = s.at)
    BY <1>1, <1>2, PayloadFacts, PayloadHolds, ZenonT(60) DEF Sound, HomeBound, HasToken, Local
<1>4. PICK o \in WriteOutcomes : Write(p, s.at, payload, o) /\ Step(p, AfterSave(s, o.acked))
    BY DEF SaveWrite
<1>5. Sound(p, AfterSave(s, o.acked))
    <2>1. o.acked \in BOOLEAN
        BY DEF WriteOutcomes
    <2>. QED
        BY <1>1, <2>1, AfterSaveSound DEF Sound
<1>6. lost' \subseteq Grants
    <2>1. Losing(p) \subseteq Grants
        BY <1>1, TokenFacts DEF Losing, Sound, Local
    <2>2. lost' = lost \/ lost' = lost \cup Losing(p)
        BY DEF SaveWrite
    <2>. QED
        BY <2>1, <2>2 DEF IInv, TypeOK
<1>. HIDE DEF payload, s
<1>. QED
    BY <1>2, <1>3, <1>4, <1>5, <1>6, WritingStep DEF SaveWrite

(* The read of a clear preserves the invariant. *)
LEMMA ClearReadInv ==
    ASSUME IInv, NEW p \in Procs, ClearRead(p)
    PROVE  IInv'
<1>. DEFINE s == st[p]
            Snap(a) == IF a.kind = "map" THEN a ELSE Absent
            Next1(a) == [s EXCEPT !.pc = "clearWrite", !.at = Primary[p], !.snap = Snap(a)]
<1>1. Sound(p, s) /\ s.pc = "clearRead" /\ Primary[p] \in Paths
    BY IInvOfSound, PathAssumption DEF ClearRead
<1>2. PICK a \in Reads(Primary[p]) : Step(p, AfterClear(s, FALSE)) \/ Step(p, Next1(a))
    BY DEF ClearRead
<1>3. Snap(a) \in Payload
    <2>1. a.kind = "map" => a \in Payload
        BY <1>1, ReadFacts DEF IInv
    <2>. QED
        BY <2>1, PayloadFacts
<1>. HIDE DEF Snap
<1>4. Sound(p, Next1(a))
    <2>. DEFINE n == Next1(a)
    <2>1. /\ n \in Local /\ n.pc = "clearWrite" /\ n.stage = s.stage /\ n.fb = s.fb
          /\ n.readFrom = s.readFrom /\ n.held = s.held /\ n.at = Primary[p]
        BY <1>1, <1>3 DEF Sound, Local, PCs
    <2>. HIDE DEF n
    <2>2. Sound(p, n)
        BY <1>1, <2>1 DEF Sound, HomeBound, StoreShape, SaveTarget
    <2>. QED
        BY <2>2 DEF n
<1>5. Sound(p, AfterClear(s, FALSE))
    BY <1>1, AfterClearSound DEF Sound
<1>6. touched' \subseteq Procs
    BY DEF ClearRead, Untouched, IInv, TypeOK
<1>7. PICK local : Step(p, local) /\ Sound(p, local)
    BY <1>2, <1>4, <1>5
<1>. QED
    BY <1>6, <1>7, QuietStep DEF ClearRead, IInv, TypeOK

(* The write of a clear stores no token. *)
LEMMA ClearWriteInv ==
    ASSUME IInv, NEW p \in Procs, ClearWrite(p)
    PROVE  IInv'
<1>. DEFINE s == st[p]
            forgetful == [s EXCEPT !.disabled = @ \/ s.readFrom # NoPath]
            payload == IF s.snap.sib THEN MapOf(NoCred, TRUE) ELSE Absent
<1>1. Sound(p, s) /\ s.pc = "clearWrite" /\ s.at = Primary[p] /\ s.at \in Paths
    BY IInvOfSound, PathAssumption DEF ClearWrite, Sound, StoreShape
<1>2. payload \in Payload /\ ~HasToken(payload)
    BY PayloadFacts, TokenFacts DEF HasToken
<1>3. Sound(p, forgetful) /\ forgetful.pc = "clearWrite"
    <2>1. s \in Local /\ forgetful \in Local /\ forgetful.pc = s.pc
        BY <1>1 DEF Sound, Local
    <2>2. /\ forgetful.at = s.at /\ forgetful.fb = s.fb /\ forgetful.readFrom = s.readFrom
          /\ forgetful.held = s.held /\ forgetful.stage = s.stage /\ forgetful.cmd = s.cmd
        BY <2>1 DEF Local
    <2>. HIDE DEF forgetful, payload, s
    <2>3. HomeBound(p, forgetful)
        BY <1>1, <2>1, <2>2 DEF Sound, HomeBound, SaveTarget
    <2>4. StoreShape(p, forgetful)
        BY <1>1, <2>1, <2>2 DEF Sound, StoreShape, SaveTarget
    <2>. QED
        BY <1>1, <2>1, <2>3, <2>4 DEF Sound
<1>4. PICK o \in WriteOutcomes : Write(p, s.at, payload, o) /\ Step(p, AfterClear(forgetful, o.acked))
    BY DEF ClearWrite
<1>. HIDE DEF forgetful, payload, s
<1>5. Sound(p, AfterClear(forgetful, o.acked))
    <2>1. o.acked \in BOOLEAN
        BY DEF WriteOutcomes
    <2>. QED
        BY <1>3, <2>1, AfterClearSound DEF Sound
<1>. QED
    BY <1>1, <1>2, <1>4, <1>5, WritingStep DEF ClearWrite, IInv, TypeOK

(* The last read of a logout ends the command. *)
LEMMA CheckSharedInv ==
    ASSUME IInv, NEW p \in Procs, CheckShared(p)
    PROVE  IInv'
<1>1. \A a : SharedAnswer(a) \in {"failed", "shared", "clean"}
    BY DEF SharedAnswer
<1>2. PICK what \in {"failed", "shared", "clean"} : Step(p, Ended(what))
    BY <1>1 DEF CheckShared
<1>3. Sound(p, Ended(what))
    BY EndedSound
<1>. QED
    BY <1>2, <1>3, QuietStep DEF CheckShared, IInv, TypeOK

(* A new grant gets a home before it is stored, so nobody's grant moves. *)
LEMMA AuthorizeInv ==
    ASSUME IInv, NEW p \in Procs, Authorize(p)
    PROVE  IInv'
<1>. DEFINE s == st[p]
            Next1(g) == [s EXCEPT !.pc = "saveRead", !.stage = "confirm", !.held = Token(g, 0)]
<1>1. /\ Sound(p, s) /\ s.pc = "authorize" /\ s.fb = NoPath /\ s.readFrom = NoPath
      /\ Primary[p] \in Paths /\ Primary[p] # NoPath
    <2>1. s.pc = "authorize"
        BY DEF Authorize
    <2>2. Sound(p, s)
        BY IInvOfSound
    <2>. QED
        BY <2>1, <2>2, PathAssumption DEF Sound, StoreShape
<1>2. CASE Step(p, Ended("failed")) /\ UNCHANGED home
    BY <1>2, EndedSound, QuietStep DEF Authorize, IInv, TypeOK
<1>3. ASSUME NEW g \in Grants, home[g] = NoPath, home' = [home EXCEPT ![g] = Primary[p]],
             Step(p, Next1(g))
      PROVE  IInv'
    <2>. DEFINE n == Next1(g)
    <2>1. /\ n \in Local /\ n.pc = "saveRead" /\ n.fb = NoPath /\ n.readFrom = NoPath
          /\ n.held = Token(g, 0)
        BY <1>1, TokenFacts DEF Sound, Local, PCs
    <2>2. /\ home' \in [Grants -> Paths \cup {NoPath}] /\ home'[g] = Primary[p]
          /\ \A h \in Grants : home[h] # NoPath => home'[h] = home[h]
        BY <1>1, <1>3 DEF IInv, TypeOK
    <2>. HIDE DEF n
    <2>3. st' \in [Procs -> Local] /\ st'[p] = n /\ \A q \in Procs \ {p} : st'[q] = st[q]
        BY <1>3, <2>1 DEF n, Step, IInv, TypeOK
    <2>4. TypeOK'
        BY <2>2, <2>3 DEF Authorize, IInv, TypeOK
    <2>5. GrantStaysHome'
        <3>1. \A a \in Paths : HasToken(kv[a]) => kv[a].cred.grant \in Grants
            BY TokenFacts, PayloadHolds DEF IInv, TypeOK, HasToken
        <3>2. \A a \in Paths : HasToken(kv[a]) => home'[kv[a].cred.grant] = a
            BY <2>2, <3>1, PathAssumption DEF IInv, GrantStaysHome
        <3>. QED
            BY <3>2 DEF Authorize, GrantStaysHome, HasToken
    <2>6. ASSUME NEW q \in Procs
          PROVE  (HomeBound(q, st[q]) /\ StoreShape(q, st[q]))'
        <3>1. CASE q = p
            <4>1. n.held.kind = "token" /\ n.held.grant = g
                BY <2>1 DEF Token
            <4>. QED
                BY <1>1, <2>1, <2>2, <2>3, <3>1, <4>1 DEF HomeBound, StoreShape, SaveTarget
        <3>2. CASE q # p
            <4>1. /\ st'[q] = st[q] /\ st[q] \in Local /\ HomeBound(q, st[q]) /\ StoreShape(q, st[q])
                  /\ Primary[q] \in Paths
                BY <2>3, <3>2, PathAssumption DEF IInv, TypeOK
            <4>2. st[q].held.kind = "token" => home'[st[q].held.grant] = SaveTarget(q, st[q])
                <5>1. ASSUME st[q].held.kind = "token"
                      PROVE  st[q].held.grant \in Grants /\ SaveTarget(q, st[q]) # NoPath
                    BY <4>1, <5>1, TokenFacts, PathAssumption DEF Local, SaveTarget
                <5>. QED
                    BY <2>2, <4>1, <5>1 DEF HomeBound
            <4>3. st[q].pc = "putWrite" /\ HasToken(st[q].snap) => home'[st[q].snap.cred.grant] = st[q].at
                <5>1. ASSUME st[q].pc = "putWrite", HasToken(st[q].snap)
                      PROVE  st[q].snap.cred.grant \in Grants /\ st[q].at # NoPath
                    BY <4>1, <5>1, TokenFacts, PayloadHolds, PathAssumption DEF Local, HasToken, StoreShape
                <5>. QED
                    BY <2>2, <4>1, <5>1 DEF HomeBound
            <4>4. HomeBound(q, st[q])'
                BY <4>1, <4>2, <4>3 DEF HomeBound, SaveTarget, HasToken
            <4>5. StoreShape(q, st[q])'
                BY <4>1 DEF StoreShape, SaveTarget
            <4>. QED
                BY <4>4, <4>5
        <3>. QED
            BY <3>1, <3>2
    <2>. QED
        BY <2>4, <2>5, <2>6 DEF IInv
<1>. QED
    BY <1>2, <1>3 DEF Authorize

(* Serving: asking for a token, using it, leaving, discarding it. *)
LEMMA ServingInv ==
    ASSUME IInv, NEW p \in Procs, NeedToken(p) \/ Leave(p) \/ UseToken(p) \/ Discard(p)
    PROVE  IInv'
<1>. DEFINE s == st[p]
<1>1. Sound(p, s) /\ s.pc \in {"serving", "loaded"}
    BY IInvOfSound DEF NeedToken, Leave, UseToken, Discard
<1>2. Sound(p, [s EXCEPT !.pc = "load"])
    BY <1>1 DEF Sound, Local, PCs, HomeBound, StoreShape, SaveTarget
<1>3. Sound(p, [s EXCEPT !.pc = "serving"])
    BY <1>1 DEF Sound, Local, PCs, HomeBound, StoreShape, SaveTarget
<1>4. Sound(p, [s EXCEPT !.pc = "clearRead"])
    BY <1>1 DEF Sound, Local, PCs, HomeBound, StoreShape, SaveTarget
<1>5. Sound(p, [s EXCEPT !.pc = "saveRead", !.held = Bare])
    <2>. DEFINE n == [s EXCEPT !.pc = "saveRead", !.held = Bare]
    <2>1. /\ n \in Local /\ n.pc = "saveRead" /\ n.fb = s.fb /\ n.readFrom = s.readFrom
          /\ n.held.kind # "token" /\ n.stage = s.stage
        BY <1>1, TokenFacts, ZenonT(60) DEF Sound, Local, PCs
    <2>. HIDE DEF n
    <2>2. Sound(p, n)
        BY <1>1, <2>1 DEF Sound, HomeBound, StoreShape
    <2>. QED
        BY <2>2 DEF n
<1>6. PICK local : Step(p, local) /\ Sound(p, local)
    BY <1>2, <1>3, <1>4, <1>5, EndedSound DEF NeedToken, Leave, UseToken, Discard
<1>7. UNCHANGED <<kv, home, live, revoked, lost, touched>>
    BY DEF NeedToken, Leave, UseToken, Discard
<1>. QED
    BY <1>6, <1>7, QuietStep DEF IInv, TypeOK

(* A refresh changes the generation of the grant and not its home. *)
LEMMA RefreshInv ==
    ASSUME IInv, NEW p \in Procs, Refresh(p)
    PROVE  IInv'
<1>. DEFINE s == st[p]
            g == s.held.grant
            n == s.held.gen
            next == [s EXCEPT !.pc = "saveRead", !.held = Token(g, n + 1)]
<1>1. Sound(p, s) /\ s.pc = "loaded" /\ s.held.kind = "token" /\ g \in Grants /\ n \in Nat
    BY IInvOfSound, TokenFacts DEF Refresh, Sound, StoreShape, Local
<1>2. Sound(p, [s EXCEPT !.pc = "serving"])
    BY <1>1 DEF Sound, Local, PCs, HomeBound, StoreShape, SaveTarget
<1>3. Sound(p, next)
    <2>1. Token(g, n + 1) \in Cred
        BY <1>1, TokenFacts
    <2>2. /\ next \in Local /\ next.pc = "saveRead" /\ next.fb = s.fb /\ next.readFrom = s.readFrom
          /\ next.held = Token(g, n + 1) /\ next.stage = s.stage
        BY <1>1, <2>1 DEF Sound, Local, PCs
    <2>3. next.held.kind = "token" /\ next.held.grant = g
        BY <2>2 DEF Token
    <2>. HIDE DEF next
    <2>. QED
        BY <1>1, <2>2, <2>3 DEF Sound, HomeBound, StoreShape, SaveTarget
<1>4. PICK local : Step(p, local) /\ Sound(p, local)
    BY <1>2, <1>3 DEF Refresh
<1>5. /\ live' \in [Grants -> Nat] /\ revoked' \subseteq Grants /\ lost' \subseteq Grants
    BY <1>1 DEF Refresh, IInv, TypeOK
<1>. QED
    BY <1>4, <1>5, QuietStep DEF Refresh, IInv, TypeOK

(* `secret put` carries a map back to the path it read it from. *)
LEMMA PutReadInv ==
    ASSUME IInv, NEW p \in Procs, PutRead(p)
    PROVE  IInv'
<1>. DEFINE s == st[p]
            Snap(a) == IF a.kind = "map" THEN a ELSE MapOf(NoCred, FALSE)
            Next1(a) == [s EXCEPT !.pc = "putWrite", !.snap = Snap(a)]
<1>1. Sound(p, s) /\ s.pc = "putRead" /\ s.at \in Paths
    BY IInvOfSound DEF PutRead, Sound, StoreShape
<1>2. PICK a \in Reads(s.at) : Step(p, Ended("failed")) \/ Step(p, Next1(a))
    BY DEF PutRead
<1>3. Snap(a) \in Payload /\ (HasToken(Snap(a)) => home[Snap(a).cred.grant] = s.at)
    <2>1. a.kind = "map" => a \in Payload
        BY <1>1, ReadFacts DEF IInv
    <2>2. a.cred.kind = "token" => a = kv[s.at]
        BY <1>1, ReadFacts DEF IInv
    <2>3. HasToken(a) => home[a.cred.grant] = s.at
        BY <1>1, <2>2 DEF HasToken, IInv, GrantStaysHome
    <2>. QED
        BY <2>1, <2>3, PayloadFacts, TokenFacts DEF HasToken
<1>. HIDE DEF Snap
<1>4. Sound(p, Next1(a))
    <2>. DEFINE n == Next1(a)
    <2>1. /\ n \in Local /\ n.pc = "putWrite" /\ n.stage = s.stage /\ n.fb = s.fb
          /\ n.readFrom = s.readFrom /\ n.held = s.held /\ n.at = s.at /\ n.snap = Snap(a)
          /\ n.cmd = s.cmd
        BY <1>1, <1>3 DEF Sound, Local, PCs
    <2>. HIDE DEF n
    <2>2. HomeBound(p, n)
        BY <1>1, <1>3, <2>1 DEF Sound, HomeBound, SaveTarget
    <2>3. StoreShape(p, n)
        BY <1>1, <2>1 DEF Sound, StoreShape
    <2>. QED
        BY <2>1, <2>2, <2>3 DEF n, Sound
<1>5. touched' \subseteq Procs
    BY DEF PutRead, Untouched, IInv, TypeOK
<1>6. PICK local : Step(p, local) /\ Sound(p, local)
    BY <1>2, <1>4, EndedSound
<1>. QED
    BY <1>5, <1>6, QuietStep DEF PutRead, IInv, TypeOK

(* Its write therefore stores a grant at its home. *)
LEMMA PutWriteInv ==
    ASSUME IInv, NEW p \in Procs, PutWrite(p)
    PROVE  IInv'
<1>. DEFINE s == st[p]
            Next1(key) == IF key = "sibling" THEN MapOf(s.snap.cred, TRUE) ELSE MapOf(Corrupt, s.snap.sib)
<1>1. /\ Sound(p, s) /\ s.pc = "putWrite" /\ s.at \in Paths /\ s.snap \in Payload
      /\ s.snap.cred \in Cred /\ s.snap.sib \in BOOLEAN
    BY IInvOfSound, PayloadHolds DEF PutWrite, Sound, StoreShape, Local
<1>2. PICK key \in PutKeys, o \in WriteOutcomes :
          /\ Write(p, s.at, Next1(key), o)
          /\ Step(p, Ended(IF o.acked THEN "nothing" ELSE "failed"))
    BY DEF PutWrite
<1>3. Next1(key) \in Payload /\ (HasToken(Next1(key)) => home[Next1(key).cred.grant] = s.at)
    <2>1. MapOf(s.snap.cred, TRUE) \in Payload /\ MapOf(s.snap.cred, TRUE).cred = s.snap.cred
        BY <1>1, PayloadFacts, PayloadHolds
    <2>2. MapOf(Corrupt, s.snap.sib) \in Payload /\ ~HasToken(MapOf(Corrupt, s.snap.sib))
        BY <1>1, PayloadFacts, TokenFacts DEF HasToken
    <2>. QED
        BY <1>1, <2>1, <2>2 DEF HasToken, Sound, HomeBound
<1>4. Sound(p, Ended(IF o.acked THEN "nothing" ELSE "failed"))
    BY EndedSound
<1>. HIDE DEF s, Next1
<1>. QED
    BY <1>1, <1>2, <1>3, <1>4, WritingStep DEF PutWrite, IInv, TypeOK

(* A crash leaves an idle process. *)
LEMMA CrashInv ==
    ASSUME IInv, NEW p \in Procs, Crash(p)
    PROVE  IInv'
<1>1. lost' \subseteq Grants
    <2>1. Losing(p) \subseteq Grants
        BY TokenFacts DEF Losing, IInv, TypeOK, Local
    <2>. QED
        BY <2>1 DEF Crash, IInv, TypeOK
<1>2. touched' \subseteq Procs
    BY DEF Crash, Untouched, IInv, TypeOK
<1>. QED
    BY <1>1, <1>2, EndedSound, QuietStep DEF Crash, IInv, TypeOK

(* The invariant holds at the start. *)
LEMMA InitInv ==
    ASSUME Init
    PROVE  IInv
<1>1. kv \in [Paths -> Payload]
    BY SeedAssumption DEF Init
<1>2. TypeOK
    BY <1>1, EndedSound DEF Init, TypeOK, Sound
<1>3. GrantStaysHome
    BY DEF Init, GrantStaysHome
<1>4. \A p \in Procs : Sound(p, st[p])
    BY EndedSound DEF Init
<1>. QED
    BY <1>2, <1>3, <1>4 DEF IInv, Sound

(* Every action preserves it. *)
LEMMA NextInv ==
    ASSUME IInv, ForgetsCorrupt, [Next]_vars
    PROVE  IInv'
<1>1. CASE UNCHANGED vars
    BY <1>1 DEF vars, IInv, TypeOK, GrantStaysHome, HasToken, HomeBound, StoreShape, SaveTarget
<1>2. CASE Next
    <2>1. PICK p \in Procs :
            \/ \E c \in CommandNames : Begin(p, c)
            \/ LoadPrimary(p) \/ LoadShared(p)
            \/ SaveRead(p) \/ SaveWrite(p)
            \/ ClearRead(p) \/ ClearWrite(p) \/ CheckShared(p)
            \/ Authorize(p) \/ NeedToken(p) \/ Leave(p) \/ UseToken(p) \/ Refresh(p) \/ Discard(p)
            \/ PutRead(p) \/ PutWrite(p)
            \/ Crash(p)
        BY <1>2 DEF Next
    <2>. QED
        BY <2>1, BeginInv, LoadPrimaryInv, LoadSharedInv, SaveReadInv, SaveWriteInv, ClearReadInv,
           ClearWriteInv, CheckSharedInv, AuthorizeInv, ServingInv, RefreshInv, PutReadInv,
           PutWriteInv, CrashInv
<1>. QED
    BY <1>1, <1>2

------------------------------------------------------------------------------

(* The invariant of the store holds in every reachable state, as long as rmcp
   drops what it holds when the primary path turns out undecodable. *)
THEOREM Inductive ==
    ASSUME ForgetsCorrupt
    PROVE  Spec => []IInv
<1>1. Init => IInv
    BY InitInv
<1>2. IInv /\ [Next]_vars => IInv'
    BY NextInv
<1>. QED
    BY <1>1, <1>2, PTL DEF Spec

(* Every variable keeps its type. *)
THEOREM TypeCorrect ==
    ASSUME ForgetsCorrupt
    PROVE  Spec => []TypeOK
<1>1. IInv => TypeOK
    BY DEF IInv
<1>. QED
    BY <1>1, Inductive, PTL

(* No interleaving of refreshes, failed reads, lost writes and crashes, by any
   number of processes over any layout of paths, stores a grant anywhere but at
   the path it was first saved at (write, read, ensure). *)
THEOREM GrantsStayHome ==
    ASSUME ForgetsCorrupt
    PROVE  Spec => []GrantStaysHome
<1>1. IInv => GrantStaysHome
    BY DEF IInv
<1>. QED
    BY <1>1, Inductive, PTL

------------------------------------------------------------------------------
(* What a write does to the paths, for the properties of steps. *)

(* The three actions that write: where, and what may be stored there. *)
LEMMA WritesAtHome ==
    ASSUME IInv, NEW p \in Procs, SaveWrite(p) \/ ClearWrite(p) \/ PutWrite(p)
    PROVE  \E payload \in Payload, o \in WriteOutcomes :
              /\ st[p].at \in Paths
              /\ Write(p, st[p].at, payload, o)
              /\ HasToken(payload) => home[payload.cred.grant] = st[p].at
              /\ ~HasToken(payload) /\ st[p].cmd # "put" => st[p].at = Primary[p]
              /\ home' = home
<1>. DEFINE s == st[p]
<1>1. Sound(p, s) /\ s.snap \in Payload /\ s.held \in Cred
    BY IInvOfSound DEF Sound, Local
<1>2. s.snap.cred \in Cred /\ s.snap.sib \in BOOLEAN
    BY <1>1, PayloadHolds
<1>3. CASE SaveWrite(p)
    <2>. DEFINE payload == MapOf(s.held, s.snap.sib)
    <2>1. s.at = SaveTarget(p, s) /\ s.at \in Paths
        BY <1>1, <1>3, PathAssumption DEF SaveWrite, Sound, StoreShape, SaveTarget, Local
    <2>2. payload \in Payload /\ payload.cred = s.held
        BY <1>1, <1>2, PayloadFacts, PayloadHolds
    <2>3. HasToken(payload) => home[payload.cred.grant] = s.at
        BY <1>1, <2>1, <2>2 DEF Sound, HomeBound, HasToken
    <2>4. ~HasToken(payload) => s.at = Primary[p]
        BY <2>1, <2>2 DEF HasToken, SaveTarget
    <2>5. \E o \in WriteOutcomes : Write(p, s.at, payload, o)
        BY <1>3 DEF SaveWrite
    <2>6. home' = home
        BY <1>3 DEF SaveWrite
    <2>. HIDE DEF payload, s
    <2>. QED
        BY <2>1, <2>2, <2>3, <2>4, <2>5, <2>6 DEF s
<1>4. CASE ClearWrite(p)
    <2>. DEFINE payload == IF s.snap.sib THEN MapOf(NoCred, TRUE) ELSE Absent
    <2>1. s.at = Primary[p] /\ s.at \in Paths
        BY <1>1, <1>4, PathAssumption DEF ClearWrite, Sound, StoreShape
    <2>2. payload \in Payload /\ ~HasToken(payload)
        BY PayloadFacts, TokenFacts DEF HasToken
    <2>3. \E o \in WriteOutcomes : Write(p, s.at, payload, o)
        BY <1>4 DEF ClearWrite
    <2>4. home' = home
        BY <1>4 DEF ClearWrite
    <2>. HIDE DEF payload, s
    <2>. QED
        BY <2>1, <2>2, <2>3, <2>4 DEF s
<1>5. CASE PutWrite(p)
    <2>. DEFINE Put(key) == IF key = "sibling" THEN MapOf(s.snap.cred, TRUE) ELSE MapOf(Corrupt, s.snap.sib)
    <2>1. s.at \in Paths /\ s.cmd = "put" /\ s.pc = "putWrite"
        BY <1>1, <1>5 DEF PutWrite, Sound, StoreShape
    <2>2. PICK key \in PutKeys, o \in WriteOutcomes : Write(p, s.at, Put(key), o)
        BY <1>5 DEF PutWrite
    <2>3. MapOf(s.snap.cred, TRUE) \in Payload /\ MapOf(s.snap.cred, TRUE).cred = s.snap.cred
        BY <1>2, PayloadFacts
    <2>4. MapOf(Corrupt, s.snap.sib) \in Payload /\ ~HasToken(MapOf(Corrupt, s.snap.sib))
        BY <1>2, PayloadFacts, TokenFacts DEF HasToken
    <2>5. Put(key) \in Payload /\ (HasToken(Put(key)) => home[Put(key).cred.grant] = s.at)
        BY <1>1, <2>1, <2>3, <2>4 DEF HasToken, Sound, HomeBound
    <2>6. home' = home
        BY <1>5 DEF PutWrite
    <2>. HIDE DEF Put, s
    <2>. QED
        BY <2>1, <2>2, <2>5, <2>6 DEF s
<1>. QED
    BY <1>3, <1>4, <1>5

(* Every other action leaves the paths alone. *)
LEMMA OthersWriteNothing ==
    ASSUME [Next]_vars
    PROVE  \/ \E p \in Procs : SaveWrite(p) \/ ClearWrite(p) \/ PutWrite(p)
           \/ \E p \in Procs : Authorize(p)
           \/ UNCHANGED <<kv, home>>
BY ZenonT(60) DEF Next, vars, Begin, LoadPrimary, LoadShared, SaveRead, ClearRead, CheckShared, NeedToken,
       Leave, UseToken, Refresh, Discard, PutRead, Crash

(* A credential disappears from a path only by a step of a process whose own
   path it is, or of an operator's `secret put` (erase, write). *)
THEOREM OwnersSignOut ==
    ASSUME ForgetsCorrupt
    PROVE  Spec => OnlyOwnersSignOut
<1>1. ASSUME IInv, [Next]_vars, NEW a \in Paths, HasToken(kv[a]), ~HasToken(kv'[a])
      PROVE  \E p \in Procs : /\ st[p].pc \in {"saveWrite", "clearWrite", "putWrite"}
                             /\ st[p].cmd # "put" => Primary[p] = a
                             /\ st'[p] # st[p]
    <2>1. kv'[a] # kv[a]
        BY <1>1 DEF HasToken
    <2>2. \A p \in Procs : Authorize(p) => kv' = kv
        BY DEF Authorize
    <2>3. PICK p \in Procs : SaveWrite(p) \/ ClearWrite(p) \/ PutWrite(p)
        BY <1>1, <2>1, <2>2, OthersWriteNothing
    <2>4. PICK payload \in Payload, o \in WriteOutcomes :
              /\ st[p].at \in Paths
              /\ Write(p, st[p].at, payload, o)
              /\ HasToken(payload) => home[payload.cred.grant] = st[p].at
              /\ ~HasToken(payload) /\ st[p].cmd # "put" => st[p].at = Primary[p]
        BY <1>1, <2>3, WritesAtHome
    <2>5. a = st[p].at /\ kv'[a] = payload
        BY <1>1, <2>1, <2>4 DEF Write, IInv, TypeOK
    <2>6. st[p].cmd # "put" => Primary[p] = a
        BY <1>1, <2>4, <2>5 DEF HasToken
    <2>7. st[p].pc \in {"saveWrite", "clearWrite", "putWrite"} /\ st[p] \in Local
        BY <1>1, <2>3 DEF SaveWrite, ClearWrite, PutWrite, IInv, TypeOK
    <2>8. st'[p].pc \notin {"saveWrite", "clearWrite", "putWrite"}
        <3>1. \A s \in Local, ok \in BOOLEAN :
                AfterSave(s, ok).pc \in {"load", "off", "serving"} /\
                AfterClear(s, ok).pc \in {"checkShared", "off", "serving"}
            BY DEF AfterSave, AfterClear, NewStore, Ended, Idle, Local
        <3>2. \A what : Ended(what).pc = "off"
            BY DEF Ended, Idle
        <3>3. \A x \in WriteOutcomes : x.acked \in BOOLEAN
            BY DEF WriteOutcomes
        <3>4. \A b \in BOOLEAN : [st[p] EXCEPT !.disabled = b] \in Local
            BY <2>7 DEF Local
        <3>5. [st[p] EXCEPT !.disabled = @ \/ st[p].readFrom # NoPath] \in Local
            BY <2>7 DEF Local
        <3>6. \E l : Step(p, l) /\ l.pc \in {"load", "off", "serving", "checkShared"}
            <4>1. SaveWrite(p) => \E l : Step(p, l) /\ l.pc \in {"load", "off", "serving", "checkShared"}
                BY <2>7, <3>1, <3>3 DEF SaveWrite
            <4>2. ClearWrite(p) => \E l : Step(p, l) /\ l.pc \in {"load", "off", "serving", "checkShared"}
                BY <3>1, <3>3, <3>5 DEF ClearWrite
            <4>3. PutWrite(p) => \E l : Step(p, l) /\ l.pc \in {"load", "off", "serving", "checkShared"}
                BY <3>2 DEF PutWrite
            <4>. QED
                BY <2>3, <4>1, <4>2, <4>3
        <3>. QED
            BY <1>1, <3>6 DEF Step, IInv, TypeOK
    <2>. QED
        BY <2>6, <2>7, <2>8
<1>2. IInv /\ [Next]_vars =>
        [\A a \in Paths :
          HasToken(kv[a]) /\ ~HasToken(kv'[a]) =>
              \E p \in Procs : /\ st[p].pc \in {"saveWrite", "clearWrite", "putWrite"}
                              /\ st[p].cmd # "put" => Primary[p] = a
                              /\ st'[p] # st[p]]_vars
    BY <1>1
<1>. QED
    BY <1>2, Inductive, PTL DEF Spec, OnlyOwnersSignOut

------------------------------------------------------------------------------
(* The store implements GrantHomes. *)

(* What a write leaves on the paths. *)
LEMMA WriteMaps ==
    ASSUME IInv, NEW p \in Procs, NEW a \in Paths, NEW payload \in Payload, NEW o \in WriteOutcomes,
           Write(p, a, payload, o), home' = home,
           HasToken(payload) => home[payload.cred.grant] = a
    PROVE  [Homes!HNext]_(Homes!hvars)
<1>. DEFINE Vault == [b \in Paths |-> IF HasToken(kv[b]) THEN kv[b].cred.grant ELSE NoGrant]
            g == IF HasToken(payload) THEN payload.cred.grant ELSE NoGrant
<1>1. CASE kv' = kv
    BY <1>1 DEF Homes!hvars, HasToken
<1>2. CASE kv' = [kv EXCEPT ![a] = payload]
    <2>1. Vault' = [Vault EXCEPT ![a] = g]
        <3>1. kv'[a] = payload /\ \A b \in Paths \ {a} : kv'[b] = kv[b]
            BY <1>2 DEF IInv, TypeOK
        <3>. QED
            BY <3>1 DEF HasToken
    <2>2. HasToken(payload) => g \in Grants
        BY TokenFacts, PayloadHolds DEF HasToken
    <2>. HIDE DEF Vault
    <2>3. CASE HasToken(payload)
        BY <2>1, <2>2, <2>3 DEF Homes!HNext, Homes!Store, Vault
    <2>4. CASE ~HasToken(payload)
        BY <2>1, <2>4 DEF Homes!HNext, Homes!Remove, Vault
    <2>. QED
        BY <2>3, <2>4
<1>. QED
    BY <1>1, <1>2 DEF Write

(* Every step of every process is a step of GrantHomes or changes nothing it
   sees: the adapter of oauth/store.rs implements the promise. *)
THEOREM StoreKeepsHomes ==
    ASSUME ForgetsCorrupt
    PROVE  Spec => KeepsHomes
<1>1. Init => Homes!HInit
    <2>1. SUFFICES ASSUME Init PROVE Homes!HInit
        OBVIOUS
    <2>2. TypeOK /\ GrantStaysHome
        BY <2>1, InitInv DEF IInv
    <2>3. \A a \in Paths : HasToken(kv[a]) => kv[a].cred.grant \in Grants
        BY <2>2, TokenFacts, PayloadHolds DEF TypeOK, HasToken
    <2>. QED
        BY <2>2, <2>3 DEF Homes!HInit, TypeOK, GrantStaysHome
<1>2. IInv /\ [Next]_vars => [Homes!HNext]_(Homes!hvars)
    <2>1. SUFFICES ASSUME IInv, [Next]_vars PROVE [Homes!HNext]_(Homes!hvars)
        OBVIOUS
    <2>2. CASE UNCHANGED <<kv, home>>
        BY <2>2 DEF Homes!hvars, HasToken
    <2>3. ASSUME NEW p \in Procs, SaveWrite(p) \/ ClearWrite(p) \/ PutWrite(p)
          PROVE  [Homes!HNext]_(Homes!hvars)
        BY <2>1, <2>3, WritesAtHome, WriteMaps
    <2>4. ASSUME NEW p \in Procs, Authorize(p)
          PROVE  [Homes!HNext]_(Homes!hvars)
        <3>1. kv' = kv
            BY <2>4 DEF Authorize
        <3>2. CASE home' = home
            BY <3>1, <3>2 DEF Homes!hvars, HasToken
        <3>3. CASE \E g \in Grants : home[g] = NoPath /\ home' = [home EXCEPT ![g] = Primary[p]]
            BY <3>1, <3>3, PathAssumption DEF Homes!HNext, Homes!Mint, HasToken
        <3>. QED
            BY <2>4, <3>2, <3>3 DEF Authorize
    <2>. QED
        BY <2>1, <2>2, <2>3, <2>4, OthersWriteNothing
<1>. QED
    BY <1>1, <1>2, Inductive, PTL DEF Spec, KeepsHomes, Homes!HSpec
------------------------------------------------------------------------------
(* What the command of a process makes of its store: its fallback, what it may
   answer, and that a store which dropped a shared grant reads its own path only. *)
Command(p, s) ==
    /\ s.pc # "off" => s.said = "nothing" /\ s.cmd \in Commands[p]
    /\ s.fb \in {NoPath, StoreFallback(p, s.cmd)}
    /\ s.pc \in {"putRead", "putWrite"} => s.cmd = "put"
    /\ s.pc = "checkShared" => s.cmd = "logout"
    /\ s.cmd = "logout" => s.pc \in {"clearRead", "clearWrite", "checkShared"} /\ s.fb = Fallback[p]
    /\ s.pc = "loadShared" => ~s.disabled
    /\ s.dropped \in Grants =>
          \/ home[s.dropped] = Primary[p]
          \/ s.disabled /\ (s.held.kind = "token" => home[s.held.grant] = Primary[p])

CommandInv == \A p \in Procs : Command(p, st[p])

(* What a process whose path nobody wrote since it read it may rely on: the map
   it read has the keys the path has, and a cleared path is clear. *)
Uncrossed(p) ==
    /\ st[p].pc \in {"saveWrite", "clearWrite", "putWrite"} /\ kv[st[p].at].sib => st[p].snap.sib
    /\ st[p].pc = "checkShared" => kv[Primary[p]].cred.kind = "none" /\ kv[Primary[p]] # Garbled

UncrossedInv == \A p \in Procs \ touched : Uncrossed(p)

(* Who alone can reach a grant none of whose refreshes was lost holds it at the
   generation the server honours, and stores it so or is about to. *)
Holds(s, g) == s.held.kind = "token" /\ s.held.grant = g
Stores(g) == home[g] \in Paths /\ HasToken(kv[home[g]]) /\ kv[home[g]].cred.grant = g
Current(p, g) ==
    /\ Holds(st[p], g) => st[p].held.gen = live[g]
    /\ Stores(g) => \/ kv[home[g]].cred.gen = live[g]
                    \/ Holds(st[p], g) /\ st[p].pc \in {"saveRead", "saveWrite"}

CurrentInv ==
    /\ \A g \in Grants : home[g] = NoPath => live[g] = 0
    /\ \A p \in Procs, g \in Grants \ lost : Reach(home[g]) = {p} => Current(p, g)

(* A command that is over leaves nothing behind. *)
LEMMA EndedCommand ==
    ASSUME NEW p \in Procs, NEW what \in {"nothing", "failed", "signedIn", "clean", "shared"}
    PROVE  Command(p, Ended(what)) /\ Command(p, Idle) /\ Ended(what).pc = "off" /\ Ended(what).said = what
<1>1. /\ Idle.pc = "off" /\ Idle.fb = NoPath /\ Idle.cmd = "none" /\ Idle.dropped = NoGrant
      /\ Idle.said = "nothing" /\ ~Idle.disabled
    BY DEF Idle
<1>2. /\ Ended(what).pc = "off" /\ Ended(what).fb = NoPath /\ Ended(what).cmd = "none"
      /\ Ended(what).dropped = NoGrant /\ Ended(what).said = what
    BY DEF Ended, Idle
<1>. QED
    BY <1>1, <1>2, GrantAssumption DEF Command

(* What a load leaves its caller with, as far as its command goes. *)
LEMMA LoadedCommand ==
    ASSUME NEW p \in Procs, NEW s \in Local, Command(p, s), s.pc \in {"load", "loadShared"},
           NEW result \in LoadResults, NEW c \in Cred,
           result = "found" /\ c.kind = "token" /\ s.disabled => home[c.grant] = Primary[p]
    PROVE  Command(p, Loaded(s, result, c))
<1>. DEFINE held == Kept(s, result, c)
<1>1. /\ s.said = "nothing" /\ s.cmd \in Commands[p] /\ s.cmd # "logout"
      /\ s.fb \in {NoPath, StoreFallback(p, s.cmd)}
      /\ s.dropped \in Grants =>
          \/ home[s.dropped] = Primary[p]
          \/ s.disabled /\ (s.held.kind = "token" => home[s.held.grant] = Primary[p])
    BY DEF Command
<1>2. held \in Cred /\ (s.disabled => (held.kind = "token" =>
            \/ home[held.grant] = Primary[p]
            \/ s.held.kind = "token" /\ held = s.held))
    BY TokenFacts DEF Kept, Local, LoadResults
<1>3. ASSUME NEW pc \in {"serving", "loaded"}, NEW h \in Cred,
             s.disabled => (h.kind = "token" => home[h.grant] = Primary[p] \/ (s.held.kind = "token" /\ h = s.held))
      PROVE  Command(p, Serve(s, pc, h))
    <2>. DEFINE n == Serve(s, pc, h)
    <2>1. /\ n.pc = pc /\ n.held = h /\ n.fb = s.fb /\ n.disabled = s.disabled /\ n.dropped = s.dropped
          /\ n.said = s.said /\ n.cmd = s.cmd
        BY <1>3 DEF Serve, Local
    <2>. HIDE DEF n
    <2>2. Command(p, n)
        BY <1>1, <1>3, <2>1 DEF Command
    <2>. QED
        BY <2>2 DEF n
<1>4. Command(p, [NewStore(s, NoPath) EXCEPT !.pc = "authorize"])
    <2>. DEFINE m == NewStore(s, NoPath)
                n == [m EXCEPT !.pc = "authorize"]
    <2>1. /\ m \in Local /\ m.fb = NoPath /\ m.cmd = s.cmd /\ m.said = s.said /\ m.dropped = NoGrant
        BY NewStoreFacts DEF NewStore, Local
    <2>. HIDE DEF m
    <2>2. n.pc = "authorize" /\ n.fb = NoPath /\ n.cmd = s.cmd /\ n.said = s.said /\ n.dropped = NoGrant
        BY <2>1 DEF Local
    <2>. HIDE DEF n
    <2>3. Command(p, n)
        BY <1>1, <2>2, GrantAssumption DEF Command
    <2>. QED
        BY <2>3 DEF n, m
<1>5. \A what \in {"nothing", "failed", "signedIn"} : Command(p, Ended(what))
    BY EndedCommand
<1>6. result = "found" /\ c.kind = "token" => Command(p, Serve(s, "serving", c))
    BY <1>3
<1>7. CASE s.stage = "init"
    BY <1>4, <1>5, <1>6, <1>7 DEF Loaded, AfterInitialLoad, LoadResults
<1>8. CASE s.stage = "confirm"
    BY <1>5, <1>6, <1>8 DEF Loaded, AfterConfirmingLoad
<1>9. CASE s.stage = "serve"
    <2>1. Command(p, Serve(s, IF held.kind = "token" THEN "loaded" ELSE "serving", held))
        BY <1>2, <1>3
    <2>. QED
        BY <1>9, <2>1 DEF Loaded, AfterServingLoad
<1>10. CASE s.stage = "report"
    BY <1>5, <1>10 DEF Loaded
<1>. QED
    BY <1>7, <1>8, <1>9, <1>10 DEF Local

(* A process whose store, command and grants stay as they are. *)
LEMMA MovedCommand ==
    ASSUME NEW p \in Procs, NEW s \in Local, NEW n \in Local, Command(p, s), s.pc # "off",
           n.cmd = s.cmd, n.said = s.said, n.fb = s.fb, n.dropped = s.dropped,
           s.disabled => n.disabled,
           n.held.kind = "token" => s.held.kind = "token" /\ n.held.grant = s.held.grant,
           s.cmd = "logout" => n.pc \in {"clearRead", "clearWrite", "checkShared"},
           n.pc = "checkShared" => s.cmd = "logout",
           n.pc \in {"putRead", "putWrite"} => s.cmd = "put",
           n.pc = "loadShared" => ~n.disabled
    PROVE  Command(p, n)
BY DEF Command, Local, PCs

(* A save leaves the command it belongs to as it was, or over. *)
LEMMA AfterSaveCommand ==
    ASSUME NEW p \in Procs, NEW s \in Local, Command(p, s), s.pc \in {"saveRead", "saveWrite"},
           NEW ok \in BOOLEAN
    PROVE  Command(p, AfterSave(s, ok))
<1>1. s.said = "nothing" /\ s.cmd \in Commands[p] /\ s.cmd # "logout"
    BY DEF Command
<1>2. CASE s.stage = "confirm" /\ ok
    <2>. DEFINE m == NewStore(s, NoPath)
                n == [m EXCEPT !.pc = "load", !.at = NoPath, !.snap = Absent]
    <2>1. m \in Local /\ m.fb = NoPath /\ m.cmd = s.cmd /\ m.said = s.said /\ m.dropped = NoGrant
        BY NewStoreFacts DEF NewStore, Local
    <2>. HIDE DEF m
    <2>2. n.pc = "load" /\ n.fb = NoPath /\ n.cmd = s.cmd /\ n.said = s.said /\ n.dropped = NoGrant
        BY <2>1 DEF Local
    <2>. HIDE DEF n
    <2>3. Command(p, n)
        BY <1>1, <2>2, GrantAssumption DEF Command
    <2>. QED
        BY <1>2, <2>3 DEF AfterSave, n, m
<1>3. CASE s.stage # "confirm"
    <2>. DEFINE n == [s EXCEPT !.pc = "serving", !.at = NoPath, !.snap = Absent]
    <2>1. /\ n \in Local /\ n.pc = "serving" /\ n.fb = s.fb /\ n.cmd = s.cmd /\ n.said = s.said
          /\ n.held = s.held /\ n.dropped = s.dropped /\ n.disabled = s.disabled
        BY PayloadFacts, ZenonT(60) DEF Local, PCs
    <2>. HIDE DEF n
    <2>2. Command(p, n)
        BY <1>1, <2>1, MovedCommand
    <2>. QED
        BY <1>3, <2>2 DEF AfterSave, n
<1>. QED
    BY <1>2, <1>3, EndedCommand DEF AfterSave

(* So does a clear, and a store that forgot a shared grant is told so. *)
LEMMA AfterClearCommand ==
    ASSUME NEW p \in Procs, NEW s \in Local, Command(p, s), s.pc \in {"clearRead", "clearWrite"},
           Sound(p, s), NEW ok \in BOOLEAN,
           ok => s.readFrom = NoPath \/ s.disabled
    PROVE  Command(p, AfterClear(s, ok))
<1>. DEFINE check == [s EXCEPT !.pc = "checkShared", !.at = NoPath, !.snap = Absent]
            h == IF ok THEN NoCred ELSE s.held
            d == IF ok THEN s.held.grant ELSE s.dropped
            serve == [s EXCEPT !.pc = "serving", !.at = NoPath, !.snap = Absent, !.held = h, !.dropped = d]
<1>1. s.said = "nothing" /\ s.cmd \in Commands[p]
    BY DEF Command
<1>2. CASE s.cmd = "logout"
    <2>1. /\ check \in Local /\ check.pc = "checkShared" /\ check.fb = s.fb /\ check.cmd = s.cmd
          /\ check.said = s.said /\ check.held = s.held /\ check.dropped = s.dropped
          /\ check.disabled = s.disabled
        BY PayloadFacts, ZenonT(60) DEF Local, PCs
    <2>. HIDE DEF check
    <2>2. Command(p, check)
        BY <1>1, <1>2, <2>1, MovedCommand
    <2>. QED
        BY <1>2, <2>2, EndedCommand DEF AfterClear, check
<1>3. CASE s.cmd # "logout"
    <2>1. h \in Cred /\ d \in Grants \cup {NoGrant} /\ Absent \in Payload /\ "serving" \in PCs
        BY TokenFacts, PayloadFacts DEF Local, PCs
    <2>2. d \in Grants =>
          \/ home[d] = Primary[p]
          \/ s.disabled /\ (h.kind = "token" => home[h.grant] = Primary[p])
        <3>1. CASE ok
            <4>1. d = s.held.grant /\ h.kind = "none"
                BY <3>1, TokenFacts
            <4>2. d \in Grants => s.held.kind = "token"
                BY <4>1, GrantAssumption DEF Local, Cred
            <4>3. CASE s.readFrom = NoPath
                BY <4>1, <4>2, <4>3 DEF Sound, HomeBound, SaveTarget
            <4>4. CASE s.disabled
                BY <4>1, <4>4
            <4>. QED
                BY <3>1, <4>3, <4>4
        <3>2. CASE ~ok
            BY <3>2 DEF Command
        <3>. QED
            BY <3>1, <3>2
    <2>. HIDE DEF h, d
    <2>3. /\ serve.pc = "serving" /\ serve.fb = s.fb /\ serve.cmd = s.cmd
          /\ serve.said = s.said /\ serve.held = h /\ serve.dropped = d /\ serve.disabled = s.disabled
        BY DEF Local
    <2>. HIDE DEF serve
    <2>4. Command(p, serve)
        BY <1>1, <1>3, <2>2, <2>3 DEF Command
    <2>. QED
        BY <1>3, <2>4 DEF AfterClear, serve, h, d
<1>. QED
    BY <1>2, <1>3

(* Every step but a new grant leaves its process within its command. *)
LEMMA ActionCommand ==
    ASSUME IInv, CommandInv, NEW p \in Procs,
           \/ \E c \in CommandNames : Begin(p, c)
           \/ LoadPrimary(p) \/ LoadShared(p)
           \/ SaveRead(p) \/ SaveWrite(p)
           \/ ClearRead(p) \/ ClearWrite(p) \/ CheckShared(p)
           \/ NeedToken(p) \/ Leave(p) \/ UseToken(p) \/ Refresh(p) \/ Discard(p)
           \/ PutRead(p) \/ PutWrite(p)
           \/ Crash(p)
    PROVE  (\E local : Step(p, local) /\ Command(p, local)) /\ home' = home
<1>. DEFINE s == st[p]
            Goal == (\E local : Step(p, local) /\ Command(p, local)) /\ home' = home
<1>1. s \in Local /\ Sound(p, s) /\ Command(p, s)
    BY IInvOfSound DEF Sound, CommandInv
<1>2. ASSUME NEW c \in CommandNames, Begin(p, c) PROVE Goal
    <2>. DEFINE fb == StoreFallback(p, c)
                n == NewStore(Idle, fb)
                fresh == [n EXCEPT !.cmd = c,
                            !.stage = IF c = "status" THEN "report" ELSE "init"]
    <2>1. fb \in Paths \cup {NoPath} /\ (c = "logout" => fb = Fallback[p])
        BY PathAssumption DEF StoreFallback
    <2>2. n \in Local /\ n.fb = fb /\ n.dropped = NoGrant /\ n.said = "nothing"
        <3>1. Idle \in Local /\ Idle.said = "nothing"
            BY EndedSound DEF Sound, Idle
        <3>. QED
            BY <2>1, <3>1, NewStoreFacts, ZenonT(60) DEF NewStore, Local
    <2>. HIDE DEF n
    <2>3. fresh \in Local /\ fresh.fb = fb /\ fresh.dropped = NoGrant /\ fresh.cmd = c /\ fresh.said = "nothing"
        BY <2>2 DEF Local
    <2>4. c \in Commands[p] /\ home' = home
        BY <1>2 DEF Begin
    <2>. HIDE DEF fresh
    <2>5. /\ c \in {"proxy", "login", "status"} => Command(p, [fresh EXCEPT !.pc = "load"])
          /\ c = "logout" => Command(p, [fresh EXCEPT !.pc = "clearRead"])
          /\ c = "put" => \A path \in Paths : Command(p, [fresh EXCEPT !.pc = "putRead", !.at = path])
        BY <2>1, <2>3, <2>4, GrantAssumption DEF Local, PCs, Command, fb
    <2>. QED
        BY <1>2, <2>4, <2>5 DEF Begin, fresh, n, fb, CommandNames
<1>3. CASE LoadPrimary(p)
    <2>. DEFINE own == [s EXCEPT !.readFrom = NoPath]
    <2>1. PICK a \in Reads(Primary[p]) :
          \/ a.kind = "absent" /\ ~TriesShared(s) /\ Step(p, Loaded(own, "none", NoCred))
          \/ a.kind = "absent" /\ TriesShared(s) /\ Step(p, [s EXCEPT !.pc = "loadShared"])
          \/ a.kind = "map" /\ Step(p, Loaded(own, Decoded(a), a.cred))
          \/ a.kind = "garbled" /\ Step(p, Loaded(own, "corrupt", NoCred))
          \/ a.kind = "failed" /\ Step(p, Loaded(s, "failed", NoCred))
        BY <1>3 DEF LoadPrimary
    <2>2. s.pc = "load" /\ home' = home
        BY <1>3 DEF LoadPrimary
    <2>3. own \in Local /\ own.pc = "load" /\ Command(p, own)
        BY <1>1, <2>2 DEF Local, Command
    <2>4. a.cred \in Cred /\ (a.cred.kind = "token" => home[a.cred.grant] = Primary[p])
        <3>1. Primary[p] \in Paths /\ TypeOK
            BY PathAssumption DEF IInv
        <3>2. a.cred \in Cred /\ (a.cred.kind = "token" => a = kv[Primary[p]])
            BY <3>1, ReadFacts
        <3>. QED
            BY <3>1, <3>2 DEF IInv, GrantStaysHome, HasToken
    <2>5. Decoded(a) \in LoadResults /\ {"none", "corrupt", "failed"} \subseteq LoadResults
        BY DEF Decoded, LoadResults
    <2>. HIDE DEF own, s
    <2>6. /\ Command(p, Loaded(own, "none", NoCred)) /\ Command(p, Loaded(own, "corrupt", NoCred))
          /\ Command(p, Loaded(s, "failed", NoCred))
        BY <1>1, <2>2, <2>3, <2>5, LoadedCommand, TokenFacts
    <2>7. Command(p, Loaded(own, Decoded(a), a.cred))
        BY <2>3, <2>4, <2>5, LoadedCommand
    <2>8. TriesShared(s) => Command(p, [s EXCEPT !.pc = "loadShared"])
        BY <1>1, <2>2 DEF TriesShared, Command, Local
    <2>. QED
        BY <2>1, <2>2, <2>6, <2>7, <2>8
<1>4. CASE LoadShared(p)
    <2>. DEFINE none == [s EXCEPT !.readFrom = NoPath]
                some == [s EXCEPT !.readFrom = s.fb]
    <2>1. PICK a \in Reads(s.fb) :
          \/ a.kind \in {"garbled", "failed"} /\ Step(p, Loaded(s, "missed", NoCred))
          \/ a.kind \in {"absent", "map"} /\ Step(p, Loaded(none, "none", NoCred))
          \/ a.kind = "map" /\ Step(p, Loaded(s, "failed", NoCred))
          \/ a.kind = "map" /\ Decoded(a) = "found" /\ Step(p, Loaded(some, "found", a.cred))
        BY <1>4 DEF LoadShared
    <2>2. s.pc = "loadShared" /\ ~s.disabled /\ home' = home /\ s.fb \in Paths
        BY <1>1, <1>4 DEF LoadShared, Command, Sound, StoreShape, Local
    <2>3. none \in Local /\ none.pc = "loadShared" /\ Command(p, none) /\ ~none.disabled
        BY <1>1, <2>2 DEF Local, Command
    <2>4. some \in Local /\ some.pc = "loadShared" /\ Command(p, some) /\ ~some.disabled
        BY <1>1, <2>2 DEF Local, Command
    <2>5. a.cred \in Cred
        BY <2>2, ReadFacts DEF IInv
    <2>6. {"none", "missed", "failed", "found"} \subseteq LoadResults
        BY DEF LoadResults
    <2>. HIDE DEF none, some, s
    <2>7. /\ Command(p, Loaded(s, "missed", NoCred)) /\ Command(p, Loaded(s, "failed", NoCred))
          /\ Command(p, Loaded(none, "none", NoCred))
        BY <1>1, <2>2, <2>3, <2>6, LoadedCommand, TokenFacts
    <2>8. Command(p, Loaded(some, "found", a.cred))
        BY <2>4, <2>5, <2>6, LoadedCommand
    <2>. QED
        BY <2>1, <2>2, <2>7, <2>8
<1>5. CASE SaveRead(p)
    <2>1. s.pc = "saveRead" /\ home' = home /\ SaveTarget(p, s) \in Paths
        BY <1>1, <1>5, PathAssumption DEF SaveRead, SaveTarget, Local
    <2>2. PICK a \in Reads(SaveTarget(p, s)) :
            \/ Step(p, AfterSave(s, FALSE))
            \/ ~GivesUp(a) /\ Step(p, [s EXCEPT !.pc = "saveWrite", !.at = SaveTarget(p, s),
                             !.snap = IF a.kind = "map" THEN a ELSE MapOf(NoCred, FALSE)])
        BY <1>5 DEF SaveRead
    <2>. DEFINE snap == IF a.kind = "map" THEN a ELSE MapOf(NoCred, FALSE)
                n == [s EXCEPT !.pc = "saveWrite", !.at = SaveTarget(p, s), !.snap = snap]
    <2>3. snap \in Payload
        BY <2>1, ReadFacts, PayloadFacts, TokenFacts DEF IInv
    <2>. HIDE DEF snap
    <2>4. n \in Local /\ n.pc = "saveWrite" /\ n.cmd = s.cmd /\ n.said = s.said /\ n.fb = s.fb
          /\ n.dropped = s.dropped /\ n.disabled = s.disabled /\ n.held = s.held
        BY <1>1, <2>1, <2>3 DEF Local, PCs
    <2>5. s.cmd # "logout" /\ s.pc # "off"
        BY <1>1, <2>1 DEF Command
    <2>. HIDE DEF n, s
    <2>6. Command(p, n)
        BY <1>1, <2>4, <2>5, MovedCommand
    <2>7. Command(p, AfterSave(s, FALSE))
        BY <1>1, <2>1, AfterSaveCommand
    <2>. QED
        BY <2>1, <2>2, <2>6, <2>7 DEF n, snap
<1>6. CASE SaveWrite(p)
    <2>1. s.pc = "saveWrite" /\ home' = home
        BY <1>6 DEF SaveWrite
    <2>2. PICK o \in WriteOutcomes : Step(p, AfterSave(s, o.acked))
        BY <1>6 DEF SaveWrite
    <2>3. o.acked \in BOOLEAN
        BY DEF WriteOutcomes
    <2>4. Command(p, AfterSave(s, o.acked))
        BY <1>1, <2>1, <2>3, AfterSaveCommand
    <2>. QED
        BY <2>1, <2>2, <2>4
<1>7. CASE ClearRead(p)
    <2>1. s.pc = "clearRead" /\ home' = home /\ Primary[p] \in Paths
        BY <1>7, PathAssumption DEF ClearRead
    <2>2. PICK a \in Reads(Primary[p]) :
            \/ Step(p, AfterClear(s, FALSE))
            \/ a.kind # "failed" /\ Step(p, [s EXCEPT !.pc = "clearWrite", !.at = Primary[p],
                          !.snap = IF a.kind = "map" THEN a ELSE Absent])
        BY <1>7 DEF ClearRead
    <2>. DEFINE snap == IF a.kind = "map" THEN a ELSE Absent
                n == [s EXCEPT !.pc = "clearWrite", !.at = Primary[p], !.snap = snap]
    <2>3. snap \in Payload
        BY <2>1, ReadFacts, PayloadFacts DEF IInv
    <2>. HIDE DEF snap
    <2>4. n \in Local /\ n.pc = "clearWrite" /\ n.cmd = s.cmd /\ n.said = s.said /\ n.fb = s.fb
          /\ n.dropped = s.dropped /\ n.disabled = s.disabled /\ n.held = s.held
        BY <1>1, <2>1, <2>3 DEF Local, PCs
    <2>. HIDE DEF n, s
    <2>6. Command(p, n)
        BY <1>1, <2>1, <2>4, MovedCommand
    <2>7. Command(p, AfterClear(s, FALSE))
        BY <1>1, <2>1, AfterClearCommand
    <2>. QED
        BY <2>1, <2>2, <2>6, <2>7 DEF n, snap
<1>8. CASE ClearWrite(p)
    <2>. DEFINE n == [s EXCEPT !.disabled = @ \/ st[p].readFrom # NoPath]
    <2>1. s.pc = "clearWrite" /\ home' = home
        BY <1>8 DEF ClearWrite
    <2>2. PICK o \in WriteOutcomes : Step(p, AfterClear(n, o.acked))
        BY <1>8 DEF ClearWrite
    <2>3. o.acked \in BOOLEAN
        BY DEF WriteOutcomes
    <2>4. /\ n \in Local /\ n.pc = "clearWrite" /\ n.cmd = s.cmd /\ n.said = s.said /\ n.fb = s.fb
          /\ n.dropped = s.dropped /\ n.held = s.held /\ n.readFrom = s.readFrom
          /\ (n.disabled <=> (s.disabled \/ s.readFrom # NoPath)) /\ n.at = s.at /\ n.stage = s.stage
        BY <1>1, <2>1 DEF Local
    <2>. HIDE DEF n, s
    <2>5. Command(p, n)
        BY <1>1, <2>1, <2>4, MovedCommand
    <2>6. Sound(p, n)
        BY <1>1, <2>1, <2>4 DEF Sound, HomeBound, StoreShape, SaveTarget
    <2>7. Command(p, AfterClear(n, o.acked))
        BY <2>3, <2>4, <2>5, <2>6, AfterClearCommand
    <2>. QED
        BY <2>1, <2>2, <2>7
<1>9. CASE CheckShared(p)
    <2>1. \A a : SharedAnswer(a) \in {"failed", "shared", "clean"}
        BY DEF SharedAnswer
    <2>. QED
        BY <1>9, <2>1, EndedCommand DEF CheckShared
<1>10. CASE NeedToken(p) \/ Leave(p) \/ UseToken(p) \/ Refresh(p) \/ Discard(p)
    <2>1. s.pc \in {"serving", "loaded"} /\ home' = home /\ (s.pc = "loaded" => s.held.kind = "token")
        BY <1>1, <1>10 DEF NeedToken, Leave, UseToken, Refresh, Discard, Sound, StoreShape
    <2>2. s.cmd # "logout" /\ s.pc # "off"
        BY <1>1, <2>1 DEF Command
    <2>3. ASSUME NEW pc \in {"load", "serving", "clearRead", "saveRead"}, NEW h \in Cred,
                 h.kind = "token" => s.held.kind = "token" /\ h.grant = s.held.grant
          PROVE  Command(p, [s EXCEPT !.pc = pc, !.held = h])
        <3>. DEFINE n == [s EXCEPT !.pc = pc, !.held = h]
        <3>1. n \in Local /\ n.pc = pc /\ n.cmd = s.cmd /\ n.said = s.said /\ n.fb = s.fb
              /\ n.dropped = s.dropped /\ n.disabled = s.disabled /\ n.held = h
            BY <1>1, <2>3, ZenonT(60) DEF Local, PCs
        <3>. HIDE DEF n, s
        <3>2. Command(p, n)
            BY <1>1, <2>2, <2>3, <3>1, MovedCommand
        <3>. QED
            BY <3>2 DEF n
    <2>4. ASSUME NEW pc \in {"load", "serving", "clearRead", "saveRead"}
          PROVE  Command(p, [s EXCEPT !.pc = pc])
        <3>1. [s EXCEPT !.pc = pc] = [s EXCEPT !.pc = pc, !.held = s.held] /\ s.held \in Cred
            BY <1>1 DEF Local
        <3>. QED
            BY <2>3, <3>1
    <2>5. CASE NeedToken(p) \/ Leave(p) \/ UseToken(p)
        BY <2>1, <2>4, <2>5, EndedCommand DEF NeedToken, Leave, UseToken
    <2>6. CASE Discard(p)
        <3>1. Command(p, [s EXCEPT !.pc = "saveRead", !.held = Bare])
            BY <2>3, TokenFacts
        <3>. QED
            BY <2>1, <2>4, <2>6, <3>1 DEF Discard
    <2>7. CASE Refresh(p)
        <3>1. s.held.grant \in Grants /\ s.held.gen \in Nat /\ s.held.kind = "token"
            BY <1>1, <2>1, <2>7, TokenFacts DEF Refresh, Local
        <3>2. LET h == Token(s.held.grant, s.held.gen + 1) IN h \in Cred /\ h.grant = s.held.grant
            BY <3>1, TokenFacts DEF Token
        <3>3. Command(p, [s EXCEPT !.pc = "saveRead", !.held = Token(s.held.grant, s.held.gen + 1)])
            BY <2>3, <3>1, <3>2
        <3>. QED
            BY <2>1, <2>4, <2>7, <3>3 DEF Refresh
    <2>. QED
        BY <1>10, <2>5, <2>6, <2>7
<1>11. CASE PutRead(p)
    <2>1. s.pc = "putRead" /\ home' = home /\ s.at \in Paths /\ s.cmd = "put" /\ s.pc # "off"
        BY <1>1, <1>11 DEF PutRead, Sound, StoreShape
    <2>2. PICK a \in Reads(s.at) :
            \/ Step(p, Ended("failed"))
            \/ Step(p, [s EXCEPT !.pc = "putWrite", !.snap = IF a.kind = "map" THEN a ELSE MapOf(NoCred, FALSE)])
        BY <1>11 DEF PutRead
    <2>. DEFINE snap == IF a.kind = "map" THEN a ELSE MapOf(NoCred, FALSE)
                n == [s EXCEPT !.pc = "putWrite", !.snap = snap]
    <2>3. snap \in Payload
        BY <2>1, ReadFacts, PayloadFacts, TokenFacts DEF IInv
    <2>. HIDE DEF snap
    <2>4. n \in Local /\ n.pc = "putWrite" /\ n.cmd = s.cmd /\ n.said = s.said /\ n.fb = s.fb
          /\ n.dropped = s.dropped /\ n.disabled = s.disabled /\ n.held = s.held
        BY <1>1, <2>1, <2>3 DEF Local, PCs
    <2>. HIDE DEF n, s
    <2>5. Command(p, n)
        BY <1>1, <2>1, <2>4, MovedCommand
    <2>. QED
        BY <2>1, <2>2, <2>5, EndedCommand DEF n, snap
<1>12. CASE PutWrite(p)
    BY <1>12, EndedCommand DEF PutWrite
<1>13. CASE Crash(p)
    BY <1>13, EndedCommand DEF Crash
<1>. QED
    BY <1>2, <1>3, <1>4, <1>5, <1>6, <1>7, <1>8, <1>9, <1>10, <1>11, <1>12, <1>13

(* Every step keeps every process within its command. *)
LEMMA CommandStep ==
    ASSUME IInv, CommandInv, [Next]_vars
    PROVE  CommandInv'
<1>1. CASE UNCHANGED vars
    BY <1>1 DEF vars, CommandInv, Command
<1>2. ASSUME NEW p \in Procs, NEW local, Step(p, local), Command(p, local), home' = home
      PROVE  CommandInv'
    <2>1. st'[p] = local /\ \A q \in Procs \ {p} : st'[q] = st[q]
        BY <1>2 DEF IInv, TypeOK, Step
    <2>. QED
        BY <1>2, <2>1 DEF CommandInv, Command
<1>3. ASSUME NEW p \in Procs, Authorize(p) PROVE CommandInv'
    <2>. DEFINE s == st[p]
    <2>1. s \in Local /\ s.pc = "authorize" /\ Command(p, s) /\ Primary[p] \in Paths
        BY <1>3, PathAssumption DEF Authorize, CommandInv, IInv, TypeOK
    <2>2. CASE Step(p, Ended("failed")) /\ UNCHANGED home
        BY <1>2, <2>2, EndedCommand
    <2>3. ASSUME NEW g \in Grants, home[g] = NoPath, home' = [home EXCEPT ![g] = Primary[p]],
                 Step(p, [s EXCEPT !.pc = "saveRead", !.stage = "confirm", !.held = Token(g, 0)])
          PROVE  CommandInv'
        <3>. DEFINE n == [s EXCEPT !.pc = "saveRead", !.stage = "confirm", !.held = Token(g, 0)]
        <3>1. /\ n.pc = "saveRead" /\ n.cmd = s.cmd /\ n.said = s.said /\ n.fb = s.fb
              /\ n.dropped = s.dropped /\ n.disabled = s.disabled /\ n.held = Token(g, 0)
            BY <2>1 DEF Local
        <3>. HIDE DEF n
        <3>2. st'[p] = n /\ \A q \in Procs \ {p} : st'[q] = st[q]
            BY <2>3 DEF n, IInv, TypeOK, Step
        <3>3. home'[g] = Primary[p] /\ \A h \in Grants : home[h] # NoPath => home'[h] = home[h]
            BY <2>3 DEF IInv, TypeOK
        <3>4. \A q \in Procs : Primary[q] # NoPath
            BY PathAssumption
        <3>5. n.held.grant = g /\ n.held.kind = "token"
            BY <3>1 DEF Token
        <3>6. ASSUME NEW q \in Procs PROVE Command(q, st[q])'
            <4>1. CASE q = p
                BY <2>1, <3>1, <3>2, <3>3, <3>4, <3>5, <4>1 DEF Command
            <4>2. CASE q # p
                <5>1. st'[q] = st[q] /\ Command(q, st[q]) /\ st[q].held \in Cred
                    BY <3>2, <4>2 DEF CommandInv, IInv, TypeOK, Local
                <5>2. st[q].held.kind = "token" => st[q].held.grant \in Grants
                    BY <5>1, TokenFacts
                <5>. QED
                    BY <3>3, <3>4, <5>1, <5>2 DEF Command
            <4>. QED
                BY <4>1, <4>2
        <3>. QED
            BY <3>6 DEF CommandInv
    <2>. QED
        BY <1>3, <2>2, <2>3 DEF Authorize
<1>. QED
    BY <1>1, <1>2, <1>3, ActionCommand DEF Next

(* What a command makes of its store holds in every reachable state. *)
LEMMA CommandInductive ==
    ASSUME ForgetsCorrupt
    PROVE  Spec => [](IInv /\ CommandInv)
<1>1. Init => IInv /\ CommandInv
    BY InitInv, EndedCommand DEF Init, CommandInv
<1>2. IInv /\ CommandInv /\ [Next]_vars => (IInv /\ CommandInv)'
    BY NextInv, CommandStep
<1>. QED
    BY <1>1, <1>2, PTL DEF Spec

(* A store that cleared a credential it had read from the fallback never serves
   that grant again, whatever fails and whoever else writes (fallback_disabled). *)
THEOREM ClearedIsForgotten ==
    ASSUME ForgetsCorrupt
    PROVE  Spec => []ClearedStaysCleared
<1>1. IInv /\ CommandInv => ClearedStaysCleared
    <2>1. SUFFICES ASSUME IInv, CommandInv, NEW p \in Procs, st[p].held.kind = "token",
                          st[p].held.grant = st[p].dropped
                   PROVE  home[st[p].dropped] = Primary[p]
        BY DEF ClearedStaysCleared
    <2>2. st[p].held.grant \in Grants
        BY <2>1, TokenFacts DEF IInv, TypeOK, Local
    <2>. QED
        BY <2>1, <2>2 DEF CommandInv, Command
<1>. QED
    BY <1>1, CommandInductive, PTL

------------------------------------------------------------------------------
(* What commands report. *)

\* A load that signs a login in found a token.
LEMMA LoadedSignsIn ==
    ASSUME NEW s \in Local, NEW result, NEW c, s.said = "nothing",
           Loaded(s, result, c).said = "signedIn"
    PROVE  s.cmd = "login" /\ result = "found" /\ c.kind = "token"
<1>1. \A what : Ended(what).said = what
    BY DEF Ended, Idle
<1>2. \A pc, h : Serve(s, pc, h).said = "nothing"
    BY DEF Serve, Local
<1>3. [NewStore(s, NoPath) EXCEPT !.pc = "authorize"].said = "nothing"
    BY DEF NewStore, Local
<1>4. CASE s.stage = "init"
    BY <1>1, <1>2, <1>3, <1>4 DEF Loaded, AfterInitialLoad
<1>5. CASE s.stage = "confirm"
    BY <1>1, <1>2, <1>5 DEF Loaded, AfterConfirmingLoad
<1>6. CASE s.stage = "serve"
    BY <1>2, <1>6 DEF Loaded, AfterServingLoad
<1>7. CASE s.stage = "report"
    BY <1>1, <1>7 DEF Loaded
<1>. QED
    BY <1>4, <1>5, <1>6, <1>7 DEF Local

\* No other step reports success to a login.
LEMMA OnlyLoadsSignIn ==
    ASSUME IInv, CommandInv, [Next]_vars, NEW p \in Procs,
           st[p].said # "signedIn", st'[p].said = "signedIn"
    PROVE  LoadPrimary(p) \/ LoadShared(p)
<1>1. /\ \A what : Ended(what).said = what
      /\ Idle.said = "nothing"
    BY DEF Ended, Idle
<1>2. \A s \in Local, ok \in BOOLEAN :
        AfterSave(s, ok).said \in {s.said, "failed"} /\ AfterClear(s, ok).said \in {s.said, "failed"}
    BY DEF AfterSave, AfterClear, NewStore, Ended, Idle, Local
<1>3. \A o \in WriteOutcomes : o.acked \in BOOLEAN
    BY DEF WriteOutcomes
<1>4. \A a : SharedAnswer(a) \in {"failed", "shared", "clean"}
    BY DEF SharedAnswer
<1>5. ASSUME NEW q \in Procs, NEW local, Step(q, local), local.said # "signedIn" \/ local.said = st[q].said
      PROVE  FALSE
    BY <1>5 DEF Step, IInv, TypeOK
<1>6. ASSUME NEW q \in Procs, \E c \in CommandNames : Begin(q, c)
      PROVE  FALSE
    <2>1. PICK c \in CommandNames : Begin(q, c)
        BY <1>6
    <2>. DEFINE fresh == [NewStore(Idle, StoreFallback(q, c)) EXCEPT !.cmd = c,
                            !.stage = IF c = "status" THEN "report" ELSE "init"]
    <2>2. fresh.said = "nothing"
        BY DEF NewStore, Idle
    <2>3. \/ Step(q, [fresh EXCEPT !.pc = "load"]) \/ Step(q, [fresh EXCEPT !.pc = "clearRead"])
          \/ \E path \in Paths : Step(q, [fresh EXCEPT !.pc = "putRead", !.at = path])
        BY <2>1 DEF Begin
    <2>. HIDE DEF fresh
    <2>4. CASE Step(q, [fresh EXCEPT !.pc = "load"])
        <3>1. [fresh EXCEPT !.pc = "load"].said = fresh.said
            OBVIOUS
        <3>. QED
            BY <1>5, <2>2, <2>4, <3>1
    <2>5. CASE Step(q, [fresh EXCEPT !.pc = "clearRead"])
        <3>1. [fresh EXCEPT !.pc = "clearRead"].said = fresh.said
            OBVIOUS
        <3>. QED
            BY <1>5, <2>2, <2>5, <3>1
    <2>6. ASSUME NEW path \in Paths, Step(q, [fresh EXCEPT !.pc = "putRead", !.at = path]) PROVE FALSE
        <3>1. [fresh EXCEPT !.pc = "putRead", !.at = path].said = fresh.said
            OBVIOUS
        <3>. QED
            BY <1>5, <2>2, <2>6, <3>1
    <2>. QED
        BY <2>3, <2>4, <2>5, <2>6
<1>7. ASSUME NEW q \in Procs, SaveWrite(q) \/ SaveRead(q) PROVE FALSE
    <2>1. st[q] \in Local
        BY DEF IInv, TypeOK
    <2>2. ASSUME NEW ok \in BOOLEAN, Step(q, AfterSave(st[q], ok)) PROVE FALSE
        BY <1>2, <1>5, <2>1, <2>2
    <2>3. ASSUME NEW at, NEW snap, Step(q, [st[q] EXCEPT !.pc = "saveWrite", !.at = at, !.snap = snap])
          PROVE  FALSE
        <3>1. [st[q] EXCEPT !.pc = "saveWrite", !.at = at, !.snap = snap].said = st[q].said
            BY <2>1 DEF Local
        <3>. QED
            BY <1>5, <2>3, <3>1
    <2>4. \/ \E ok \in BOOLEAN : Step(q, AfterSave(st[q], ok))
          \/ \E at, snap : Step(q, [st[q] EXCEPT !.pc = "saveWrite", !.at = at, !.snap = snap])
        <3>1. CASE SaveWrite(q)
            BY <1>3, <3>1 DEF SaveWrite
        <3>2. CASE SaveRead(q)
            BY <3>2 DEF SaveRead
        <3>. QED
            BY <1>7, <3>1, <3>2
    <2>. QED
        BY <2>2, <2>3, <2>4
<1>8. ASSUME NEW q \in Procs, ClearWrite(q) \/ ClearRead(q) PROVE FALSE
    <2>1. st[q] \in Local
        BY DEF IInv, TypeOK
    <2>. DEFINE n == [st[q] EXCEPT !.disabled = @ \/ st[q].readFrom # NoPath]
    <2>2. n \in Local /\ n.said = st[q].said
        BY <2>1 DEF Local
    <2>. HIDE DEF n
    <2>3. ASSUME NEW ok \in BOOLEAN, Step(q, AfterClear(st[q], ok)) \/ Step(q, AfterClear(n, ok)) PROVE FALSE
        BY <1>2, <1>5, <2>1, <2>2, <2>3
    <2>4. ASSUME NEW at, NEW snap, Step(q, [st[q] EXCEPT !.pc = "clearWrite", !.at = at, !.snap = snap])
          PROVE  FALSE
        <3>1. [st[q] EXCEPT !.pc = "clearWrite", !.at = at, !.snap = snap].said = st[q].said
            BY <2>1 DEF Local
        <3>. QED
            BY <1>5, <2>4, <3>1
    <2>5. \/ \E ok \in BOOLEAN : Step(q, AfterClear(st[q], ok)) \/ Step(q, AfterClear(n, ok))
          \/ \E at, snap : Step(q, [st[q] EXCEPT !.pc = "clearWrite", !.at = at, !.snap = snap])
        <3>1. CASE ClearWrite(q)
            BY <1>3, <3>1 DEF ClearWrite, n
        <3>2. CASE ClearRead(q)
            BY <3>2 DEF ClearRead
        <3>. QED
            BY <1>8, <3>1, <3>2
    <2>. QED
        BY <2>3, <2>4, <2>5
<1>9. ASSUME NEW q \in Procs, CheckShared(q) \/ PutRead(q) \/ PutWrite(q) \/ Crash(q) PROVE FALSE
    <2>1. ASSUME NEW what \in {"failed", "shared", "clean", "nothing"}, Step(q, Ended(what)) \/ Step(q, Idle) PROVE FALSE
        BY <1>1, <1>5, <2>1
    <2>2. ASSUME NEW snap, Step(q, [st[q] EXCEPT !.pc = "putWrite", !.snap = snap]) PROVE FALSE
        <3>1. [st[q] EXCEPT !.pc = "putWrite", !.snap = snap].said = st[q].said
            BY DEF Local, IInv, TypeOK
        <3>. QED
            BY <1>5, <2>2, <3>1
    <2>3. CASE CheckShared(q)
        BY <1>4, <2>1, <2>3 DEF CheckShared
    <2>4. CASE PutRead(q)
        BY <2>1, <2>2, <2>4 DEF PutRead
    <2>5. CASE PutWrite(q)
        BY <2>1, <2>5 DEF PutWrite
    <2>6. CASE Crash(q)
        BY <2>1, <2>6 DEF Crash
    <2>. QED
        BY <1>9, <2>3, <2>4, <2>5, <2>6
<1>10. ASSUME NEW q \in Procs, Authorize(q) \/ NeedToken(q) \/ Leave(q) \/ UseToken(q) \/ Refresh(q) \/ Discard(q)
       PROVE  FALSE
    <2>1. ASSUME NEW what \in {"failed", "nothing"}, Step(q, Ended(what)) PROVE FALSE
        BY <1>1, <1>5, <2>1
    <2>2. ASSUME NEW pc, Step(q, [st[q] EXCEPT !.pc = pc]) PROVE FALSE
        <3>1. [st[q] EXCEPT !.pc = pc].said = st[q].said
            BY DEF Local, IInv, TypeOK
        <3>. QED
            BY <1>5, <2>2, <3>1
    <2>3. ASSUME NEW pc, NEW h, Step(q, [st[q] EXCEPT !.pc = pc, !.held = h]) PROVE FALSE
        <3>1. [st[q] EXCEPT !.pc = pc, !.held = h].said = st[q].said
            BY DEF Local, IInv, TypeOK
        <3>. QED
            BY <1>5, <2>3, <3>1
    <2>4. ASSUME NEW pc, NEW stage, NEW h, Step(q, [st[q] EXCEPT !.pc = pc, !.stage = stage, !.held = h])
          PROVE FALSE
        <3>1. [st[q] EXCEPT !.pc = pc, !.stage = stage, !.held = h].said = st[q].said
            BY DEF Local, IInv, TypeOK
        <3>. QED
            BY <1>5, <2>4, <3>1
    <2>5. CASE Authorize(q)
        BY <2>1, <2>4, <2>5 DEF Authorize
    <2>6. CASE NeedToken(q) \/ Leave(q) \/ UseToken(q)
        BY <2>1, <2>2, <2>6 DEF NeedToken, Leave, UseToken
    <2>7. CASE Refresh(q)
        BY <2>2, <2>3, <2>7 DEF Refresh
    <2>8. CASE Discard(q)
        BY <2>2, <2>3, <2>8 DEF Discard
    <2>. QED
        BY <1>10, <2>5, <2>6, <2>7, <2>8
<1>11. ASSUME NEW q \in Procs, LoadPrimary(q) \/ LoadShared(q) PROVE q = p
    BY <1>11 DEF LoadPrimary, LoadShared, Step, IInv, TypeOK
<1>12. vars' # vars
    BY DEF vars
<1>. QED
    BY <1>6, <1>7, <1>8, <1>9, <1>10, <1>11, <1>12 DEF Next

(* A login reports success only with a credential on the machine's own path. *)
THEOREM LoginsOwnTheirs ==
    ASSUME ForgetsCorrupt
    PROVE  Spec => LoginOwnsItsCredential
<1>1. ASSUME IInv, CommandInv, [Next]_vars, NEW p \in Procs,
             st[p].said # "signedIn", st'[p].said = "signedIn"
      PROVE  HasToken(kv[Primary[p]])
    <2>. DEFINE s == st[p]
    <2>1. s \in Local /\ Command(p, s) /\ Primary[p] \in Paths /\ TypeOK
        BY <1>1, PathAssumption DEF IInv, TypeOK, CommandInv
    <2>2. CASE LoadPrimary(p)
        <3>. DEFINE own == [s EXCEPT !.readFrom = NoPath]
        <3>1. PICK a \in Reads(Primary[p]) :
              \/ Step(p, Loaded(own, "none", NoCred))
              \/ Step(p, [s EXCEPT !.pc = "loadShared"])
              \/ Step(p, Loaded(own, Decoded(a), a.cred))
              \/ Step(p, Loaded(own, "corrupt", NoCred))
              \/ Step(p, Loaded(s, "failed", NoCred))
            BY <2>2 DEF LoadPrimary
        <3>2. own \in Local /\ own.said = "nothing" /\ s.said = "nothing"
              /\ [s EXCEPT !.pc = "loadShared"].said = "nothing"
            BY <2>1, <2>2 DEF LoadPrimary, Command, Local
        <3>3. \A l : Step(p, l) => st'[p] = l
            BY <2>1 DEF Step, TypeOK
        <3>. HIDE DEF own, s
        <3>4. st'[p] = Loaded(own, Decoded(a), a.cred)
            <4>1. ASSUME NEW n \in {own, s}, NEW result \in {"none", "corrupt", "failed"},
                         st'[p] = Loaded(n, result, NoCred)
                  PROVE  FALSE
                <5>1. n \in Local /\ n.said = "nothing" /\ Loaded(n, result, NoCred).said = "signedIn"
                    BY <1>1, <2>1, <3>2, <4>1
                <5>. QED
                    BY <5>1, LoadedSignsIn
            <4>. QED
                BY <1>1, <3>1, <3>2, <3>3, <4>1
        <3>5. a.cred.kind = "token"
            BY <1>1, <3>2, <3>4, LoadedSignsIn
        <3>6. a = kv[Primary[p]]
            BY <2>1, <3>5, ReadFacts
        <3>. QED
            BY <3>5, <3>6 DEF HasToken
    <2>3. CASE LoadShared(p)
        <3>. DEFINE none == [s EXCEPT !.readFrom = NoPath]
                    some == [s EXCEPT !.readFrom = s.fb]
        <3>1. PICK a \in Reads(s.fb) :
              \/ Step(p, Loaded(s, "missed", NoCred))
              \/ Step(p, Loaded(none, "none", NoCred))
              \/ Step(p, Loaded(s, "failed", NoCred))
              \/ Step(p, Loaded(some, "found", a.cred))
            BY <2>3 DEF LoadShared
        <3>2. /\ none \in Local /\ none.said = "nothing" /\ s.said = "nothing"
              /\ some \in Local /\ some.said = "nothing" /\ some.cmd = s.cmd
              /\ s.fb # NoPath
            BY <1>1, <2>1, <2>3 DEF LoadShared, Command, Local, IInv, StoreShape
        <3>3. \A l : Step(p, l) => st'[p] = l
            BY <2>1 DEF Step, TypeOK
        <3>4. s.cmd # "login"
            BY <2>1, <3>2 DEF Command, StoreFallback
        <3>. HIDE DEF none, some, s
        <3>5. PICK n, result, c : n \in {s, none, some} /\ st'[p] = Loaded(n, result, c)
            BY <3>1, <3>3
        <3>6. n \in Local /\ n.said = "nothing" /\ Loaded(n, result, c).said = "signedIn"
            BY <1>1, <2>1, <3>2, <3>5
        <3>7. result = "found" /\ n.cmd = "login"
            BY <3>6, LoadedSignsIn
        <3>8. none.cmd = s.cmd
            BY <2>1 DEF none, s, Local
        <3>. QED
            BY <3>2, <3>4, <3>5, <3>7, <3>8
    <2>. QED
        BY <1>1, <2>2, <2>3, OnlyLoadsSignIn
<1>2. IInv /\ CommandInv /\ [Next]_vars =>
        [\A p \in Procs :
          st[p].said # "signedIn" /\ st'[p].said = "signedIn" => HasToken(kv[Primary[p]])]_vars
    BY <1>1
<1>. QED
    BY <1>2, CommandInductive, PTL DEF Spec, LoginOwnsItsCredential

------------------------------------------------------------------------------
(* What a process may rely on while nobody writes its path. *)

(* No read of a path is cut off after its 200 and taken for an empty one. *)
NoTornReads == "body" \notin Faults

Midway == {"saveWrite", "clearWrite", "putWrite", "checkShared"}

\* A process that is not in the middle of a read-modify-write relies on nothing.
LEMMA QuietMoves ==
    ASSUME IInv, NEW p \in Procs,
           \/ \E c \in CommandNames : Begin(p, c)
           \/ LoadPrimary(p) \/ LoadShared(p) \/ SaveWrite(p) \/ CheckShared(p)
           \/ Authorize(p) \/ NeedToken(p) \/ Leave(p) \/ UseToken(p) \/ Refresh(p) \/ Discard(p)
           \/ PutWrite(p) \/ Crash(p)
    PROVE  \E local : Step(p, local) /\ local.pc \notin Midway
<1>. DEFINE s == st[p]
            Goal == \E local : Step(p, local) /\ local.pc \notin Midway
<1>. USE DEF Midway
<1>1. s \in Local
    BY DEF IInv, TypeOK
<1>2. Idle.pc = "off" /\ \A what : Ended(what).pc = "off"
    BY DEF Ended, Idle
<1>3. ASSUME NEW n \in Local, NEW result, NEW c PROVE Loaded(n, result, c).pc \in {"off", "serving", "loaded", "authorize"}
    <2>1. \A pc, h : Serve(n, pc, h).pc = pc
        BY DEF Serve, Local
    <2>2. [NewStore(n, NoPath) EXCEPT !.pc = "authorize"].pc = "authorize"
        BY DEF NewStore, Local
    <2>3. CASE n.stage = "init"
        BY <1>2, <2>1, <2>2, <2>3 DEF Loaded, AfterInitialLoad
    <2>4. CASE n.stage = "confirm"
        BY <1>2, <2>1, <2>4 DEF Loaded, AfterConfirmingLoad
    <2>5. CASE n.stage = "serve"
        BY <2>1, <2>5 DEF Loaded, AfterServingLoad
    <2>6. CASE n.stage = "report"
        BY <1>2, <2>6 DEF Loaded
    <2>. QED
        BY <2>3, <2>4, <2>5, <2>6 DEF Local
<1>4. ASSUME NEW c \in CommandNames, Begin(p, c) PROVE Goal
    <2>. DEFINE fresh == [NewStore(Idle, StoreFallback(p, c)) EXCEPT !.cmd = c,
                            !.stage = IF c = "status" THEN "report" ELSE "init"]
    <2>1. fresh.pc = "off" /\ fresh = [fresh EXCEPT !.cmd = c]
        BY ZenonT(60) DEF NewStore, Idle
    <2>2. \/ Step(p, [fresh EXCEPT !.pc = "load"]) \/ Step(p, [fresh EXCEPT !.pc = "clearRead"])
          \/ \E path \in Paths : Step(p, [fresh EXCEPT !.pc = "putRead", !.at = path])
        BY <1>4 DEF Begin
    <2>3. [fresh EXCEPT !.pc = "load"].pc = "load" /\ [fresh EXCEPT !.pc = "clearRead"].pc = "clearRead"
          /\ \A path \in Paths : [fresh EXCEPT !.pc = "putRead", !.at = path].pc = "putRead"
        BY DEF NewStore, Idle
    <2>. HIDE DEF fresh
    <2>. QED
        BY <2>2, <2>3
<1>5. CASE LoadPrimary(p)
    <2>. DEFINE own == [s EXCEPT !.readFrom = NoPath]
    <2>1. PICK a \in Reads(Primary[p]) :
          \/ Step(p, Loaded(own, "none", NoCred))
          \/ Step(p, [s EXCEPT !.pc = "loadShared"])
          \/ Step(p, Loaded(own, Decoded(a), a.cred))
          \/ Step(p, Loaded(own, "corrupt", NoCred))
          \/ Step(p, Loaded(s, "failed", NoCred))
        BY <1>5 DEF LoadPrimary
    <2>2. own \in Local /\ [s EXCEPT !.pc = "loadShared"].pc = "loadShared"
        BY <1>1 DEF Local
    <2>. HIDE DEF own, s
    <2>. QED
        BY <1>1, <1>3, <2>1, <2>2
<1>6. CASE LoadShared(p)
    <2>. DEFINE none == [s EXCEPT !.readFrom = NoPath]
                some == [s EXCEPT !.readFrom = s.fb]
    <2>1. PICK a \in Reads(s.fb) :
          \/ Step(p, Loaded(s, "missed", NoCred))
          \/ Step(p, Loaded(none, "none", NoCred))
          \/ Step(p, Loaded(s, "failed", NoCred))
          \/ Step(p, Loaded(some, "found", a.cred))
        BY <1>6 DEF LoadShared
    <2>2. none \in Local /\ some \in Local
        BY <1>1 DEF Local
    <2>. HIDE DEF none, some, s
    <2>. QED
        BY <1>1, <1>3, <2>1, <2>2
<1>7. CASE SaveWrite(p)
    <2>1. PICK o \in WriteOutcomes : Step(p, AfterSave(s, o.acked))
        BY <1>7 DEF SaveWrite
    <2>2. AfterSave(s, o.acked).pc \in {"load", "off", "serving"}
        BY <1>1 DEF AfterSave, NewStore, Ended, Idle, Local
    <2>. QED
        BY <2>1, <2>2
<1>8. CASE CheckShared(p) \/ PutWrite(p) \/ Crash(p)
    BY <1>2, <1>8 DEF CheckShared, PutWrite, Crash
<1>9. CASE Authorize(p) \/ NeedToken(p) \/ Leave(p) \/ UseToken(p) \/ Refresh(p) \/ Discard(p)
    <2>1. ASSUME NEW pc \in {"load", "serving", "clearRead", "saveRead"}, Step(p, [s EXCEPT !.pc = pc])
          PROVE  Goal
        <3>1. [s EXCEPT !.pc = pc].pc = pc
            BY <1>1 DEF Local
        <3>. QED
            BY <2>1, <3>1
    <2>2. ASSUME NEW h, Step(p, [s EXCEPT !.pc = "saveRead", !.held = h]) PROVE Goal
        <3>1. [s EXCEPT !.pc = "saveRead", !.held = h].pc = "saveRead"
            BY <1>1 DEF Local
        <3>. QED
            BY <2>2, <3>1
    <2>3. ASSUME NEW h, Step(p, [s EXCEPT !.pc = "saveRead", !.stage = "confirm", !.held = h]) PROVE Goal
        <3>1. [s EXCEPT !.pc = "saveRead", !.stage = "confirm", !.held = h].pc = "saveRead"
            BY <1>1 DEF Local
        <3>. QED
            BY <2>3, <3>1
    <2>4. CASE Authorize(p)
        BY <1>2, <2>3, <2>4 DEF Authorize
    <2>5. CASE NeedToken(p) \/ Leave(p) \/ UseToken(p)
        BY <1>2, <2>1, <2>5 DEF NeedToken, Leave, UseToken
    <2>6. CASE Refresh(p) \/ Discard(p)
        BY <2>1, <2>2, <2>6 DEF Refresh, Discard
    <2>. QED
        BY <1>9, <2>4, <2>5, <2>6
<1>. QED
    BY <1>4, <1>5, <1>6, <1>7, <1>8, <1>9

\* One process moves, the others stay.
LEMMA OneMoves ==
    ASSUME IInv, NEW p \in Procs, NEW local, Step(p, local)
    PROVE  st'[p] = local /\ \A q \in Procs \ {p} : st'[q] = st[q]
BY DEF IInv, TypeOK, Step

\* What one process writes, those it crosses are told, and the others do not see.
LEMMA WriteTouches ==
    ASSUME IInv, UncrossedInv, NEW p \in Procs, NEW local, Step(p, local),
           NEW path \in Paths, NEW payload, NEW o \in WriteOutcomes, Write(p, path, payload, o),
           NEW q \in Procs \ touched', q # p
    PROVE  Uncrossed(q)'
<1>1. st'[q] = st[q] /\ q \notin touched
    BY OneMoves DEF Write
<1>2. Uncrossed(q)
    BY <1>1 DEF UncrossedInv
<1>3. CASE kv' = kv
    BY <1>1, <1>2, <1>3 DEF Uncrossed
<1>4. CASE o.stored
    <2>1. q \notin Rewriting(path)
        BY <1>4 DEF Write
    <2>2. kv' \in [Paths -> {kv[a] : a \in Paths} \cup {payload}] /\ \A a \in Paths \ {path} : kv'[a] = kv[a]
        BY <1>4 DEF Write, IInv, TypeOK
    <2>3. /\ st[q].pc \in {"saveWrite", "clearWrite", "putWrite"} => st[q].at \in Paths \ {path}
          /\ st[q].pc = "checkShared" => Primary[q] \in Paths \ {path}
        <3>1. Sound(q, st[q]) /\ Primary[q] \in Paths
            BY IInvOfSound, PathAssumption
        <3>2. st[q].pc \in {"saveWrite", "clearWrite", "putWrite"} => st[q].at \in Paths
            BY <3>1, PathAssumption DEF Sound, StoreShape, SaveTarget, Local
        <3>. QED
            BY <2>1, <3>1, <3>2 DEF Rewriting
    <2>. QED
        BY <1>1, <1>2, <2>2, <2>3 DEF Uncrossed
<1>. QED
    BY <1>3, <1>4 DEF Write

\* A map read whole has the keys of its path.
LEMMA WholeRead ==
    ASSUME IInv, NoTornReads, NEW path \in Paths, NEW a \in Reads(path), a.kind # "failed"
    PROVE  a = kv[path] /\ a.sib \in BOOLEAN /\ (a.kind # "map" => a.sib = FALSE)
<1>1. kv[path] \in Payload /\ Failed.kind = "failed"
    BY DEF IInv, TypeOK, Failed
<1>2. a = kv[path]
    BY <1>1 DEF Reads, NoTornReads
<1>. QED
    BY <1>1, <1>2, PayloadHolds

(* A process nobody crossed still has the path as it read it. *)
LEMMA UncrossedStep ==
    ASSUME IInv, CommandInv, UncrossedInv, NoTornReads, [Next]_vars
    PROVE  UncrossedInv'
<1>1. CASE UNCHANGED vars
    BY <1>1 DEF vars, UncrossedInv, Uncrossed
<1>2. ASSUME NEW p \in Procs, NEW local, Step(p, local), kv' = kv, touched \subseteq touched' \cup {p},
             p \notin touched' => Uncrossed(p)'
      PROVE  UncrossedInv'
    <2>1. ASSUME NEW q \in Procs \ touched' PROVE Uncrossed(q)'
        <3>1. CASE q = p
            BY <1>2, <3>1
        <3>2. CASE q # p
            <4>1. st'[q] = st[q] /\ Uncrossed(q)
                BY <1>2, <3>2, OneMoves DEF UncrossedInv
            <4>. QED
                BY <1>2, <4>1 DEF Uncrossed
        <3>. QED
            BY <3>1, <3>2
    <2>. QED
        BY <2>1 DEF UncrossedInv
<1>3. ASSUME NEW p \in Procs,
             \/ \E c \in CommandNames : Begin(p, c)
             \/ LoadPrimary(p) \/ LoadShared(p) \/ CheckShared(p)
             \/ Authorize(p) \/ NeedToken(p) \/ Leave(p) \/ UseToken(p) \/ Refresh(p) \/ Discard(p)
             \/ Crash(p)
      PROVE  UncrossedInv'
    <2>1. PICK local : Step(p, local) /\ local.pc \notin Midway
        BY <1>3, QuietMoves
    <2>2. st'[p] = local
        BY <2>1, OneMoves
    <2>3. Uncrossed(p)'
        BY <2>1, <2>2 DEF Uncrossed, Midway
    <2>4. kv' = kv /\ touched \subseteq touched' \cup {p}
        BY <1>3 DEF Begin, LoadPrimary, LoadShared, CheckShared, Authorize, NeedToken, Leave, UseToken,
                    Refresh, Discard, Crash, Untouched
    <2>. QED
        BY <1>2, <2>1, <2>3, <2>4
<1>4. ASSUME NEW p \in Procs, SaveRead(p) PROVE UncrossedInv'
    <2>. DEFINE path == SaveTarget(p, st[p])
    <2>1. st[p] \in Local /\ path \in Paths /\ kv' = kv /\ touched' = touched \ {p}
        BY <1>4, PathAssumption DEF IInv, TypeOK, SaveRead, Untouched, SaveTarget, Local
    <2>2. PICK a \in Reads(path) :
            \/ Step(p, AfterSave(st[p], FALSE))
            \/ a.kind # "failed" /\ Step(p, [st[p] EXCEPT !.pc = "saveWrite", !.at = path,
                             !.snap = IF a.kind = "map" THEN a ELSE MapOf(NoCred, FALSE)])
        BY <1>4 DEF SaveRead, GivesUp
    <2>3. CASE Step(p, AfterSave(st[p], FALSE))
        <3>1. AfterSave(st[p], FALSE).pc \in {"load", "off", "serving"}
            BY <2>1 DEF AfterSave, NewStore, Ended, Idle, Local
        <3>2. Uncrossed(p)'
            BY <2>3, <3>1, OneMoves DEF Uncrossed
        <3>. QED
            BY <1>2, <2>1, <2>3, <3>2
    <2>. DEFINE snap == IF a.kind = "map" THEN a ELSE MapOf(NoCred, FALSE)
                n == [st[p] EXCEPT !.pc = "saveWrite", !.at = path, !.snap = snap]
    <2>4. CASE a.kind # "failed" /\ Step(p, n)
        <3>1. n.pc = "saveWrite" /\ n.at = path /\ n.snap = snap
            BY <2>1 DEF Local
        <3>2. kv[path].sib => snap.sib
            <4>1. a = kv[path] /\ a.sib \in BOOLEAN /\ (a.kind # "map" => a.sib = FALSE)
                BY <2>1, <2>4, WholeRead
            <4>2. CASE a.kind = "map"
                BY <4>1, <4>2
            <4>3. CASE a.kind # "map"
                BY <4>1, <4>3
            <4>. QED
                BY <4>2, <4>3
        <3>3. st'[p] = n
            BY <2>4, OneMoves
        <3>. HIDE DEF n, path, snap
        <3>4. Uncrossed(p)'
            BY <2>1, <3>1, <3>2, <3>3 DEF Uncrossed
        <3>. QED
            BY <1>2, <2>1, <2>4, <3>4
    <2>. QED
        BY <2>2, <2>3, <2>4
<1>5. ASSUME NEW p \in Procs, ClearRead(p) PROVE UncrossedInv'
    <2>1. st[p] \in Local /\ Primary[p] \in Paths /\ kv' = kv /\ touched' = touched \ {p} /\ st[p].pc = "clearRead"
        BY <1>5, PathAssumption DEF IInv, TypeOK, ClearRead, Untouched
    <2>2. PICK a \in Reads(Primary[p]) :
            \/ Step(p, AfterClear(st[p], FALSE))
            \/ a.kind # "failed" /\ Step(p, [st[p] EXCEPT !.pc = "clearWrite", !.at = Primary[p],
                             !.snap = IF a.kind = "map" THEN a ELSE Absent])
        BY <1>5 DEF ClearRead
    <2>3. CASE Step(p, AfterClear(st[p], FALSE))
        <3>1. AfterClear(st[p], FALSE).pc \in {"off", "serving"}
            BY <2>1 DEF AfterClear, Ended, Idle, Local
        <3>2. Uncrossed(p)'
            BY <2>3, <3>1, OneMoves DEF Uncrossed
        <3>. QED
            BY <1>2, <2>1, <2>3, <3>2
    <2>. DEFINE snap == IF a.kind = "map" THEN a ELSE Absent
                n == [st[p] EXCEPT !.pc = "clearWrite", !.at = Primary[p], !.snap = snap]
    <2>4. CASE a.kind # "failed" /\ Step(p, n)
        <3>1. n.pc = "clearWrite" /\ n.at = Primary[p] /\ n.snap = snap
            BY <2>1 DEF Local
        <3>2. kv[Primary[p]].sib => snap.sib
            <4>1. a = kv[Primary[p]] /\ a.sib \in BOOLEAN /\ (a.kind # "map" => a.sib = FALSE)
                BY <2>1, <2>4, WholeRead
            <4>2. CASE a.kind = "map"
                BY <4>1, <4>2
            <4>3. CASE a.kind # "map"
                BY <4>1, <4>3
            <4>. QED
                BY <4>2, <4>3
        <3>3. st'[p] = n
            BY <2>4, OneMoves
        <3>. HIDE DEF n, snap
        <3>4. Uncrossed(p)'
            BY <2>1, <3>1, <3>2, <3>3 DEF Uncrossed
        <3>. QED
            BY <1>2, <2>1, <2>4, <3>4
    <2>. QED
        BY <2>2, <2>3, <2>4
<1>6. ASSUME NEW p \in Procs, PutRead(p) PROVE UncrossedInv'
    <2>1. st[p] \in Local /\ st[p].at \in Paths /\ kv' = kv /\ touched' = touched \ {p}
        BY <1>6 DEF IInv, TypeOK, PutRead, Untouched, StoreShape
    <2>2. PICK a \in Reads(st[p].at) :
            \/ Step(p, Ended("failed"))
            \/ a.kind # "failed" /\ Step(p, [st[p] EXCEPT !.pc = "putWrite",
                             !.snap = IF a.kind = "map" THEN a ELSE MapOf(NoCred, FALSE)])
        BY <1>6 DEF PutRead
    <2>3. CASE Step(p, Ended("failed"))
        <3>1. Ended("failed").pc = "off"
            BY DEF Ended, Idle
        <3>2. Uncrossed(p)'
            BY <2>3, <3>1, OneMoves DEF Uncrossed
        <3>. QED
            BY <1>2, <2>1, <2>3, <3>2
    <2>. DEFINE snap == IF a.kind = "map" THEN a ELSE MapOf(NoCred, FALSE)
                n == [st[p] EXCEPT !.pc = "putWrite", !.snap = snap]
    <2>4. CASE a.kind # "failed" /\ Step(p, n)
        <3>1. n.pc = "putWrite" /\ n.at = st[p].at /\ n.snap = snap
            BY <2>1 DEF Local
        <3>2. kv[st[p].at].sib => snap.sib
            <4>1. a = kv[st[p].at] /\ a.sib \in BOOLEAN /\ (a.kind # "map" => a.sib = FALSE)
                BY <2>1, <2>4, WholeRead
            <4>2. CASE a.kind = "map"
                BY <4>1, <4>2
            <4>3. CASE a.kind # "map"
                BY <4>1, <4>3
            <4>. QED
                BY <4>2, <4>3
        <3>3. st'[p] = n
            BY <2>4, OneMoves
        <3>. HIDE DEF n, snap
        <3>4. Uncrossed(p)'
            BY <2>1, <3>1, <3>2, <3>3 DEF Uncrossed
        <3>. QED
            BY <1>2, <2>1, <2>4, <3>4
    <2>. QED
        BY <2>2, <2>3, <2>4
<1>7. ASSUME NEW p \in Procs, NEW local, Step(p, local), SaveWrite(p) \/ ClearWrite(p) \/ PutWrite(p),
             Uncrossed(p)'
      PROVE  UncrossedInv'
    <2>1. \E payload \in Payload, o \in WriteOutcomes : st[p].at \in Paths /\ Write(p, st[p].at, payload, o)
        BY <1>7, WritesAtHome
    <2>. QED
        BY <1>7, <2>1, WriteTouches DEF UncrossedInv
<1>8. ASSUME NEW p \in Procs, SaveWrite(p) \/ PutWrite(p) PROVE UncrossedInv'
    <2>1. PICK local : Step(p, local) /\ local.pc \notin Midway
        BY <1>8, QuietMoves
    <2>2. Uncrossed(p)'
        BY <2>1, OneMoves DEF Uncrossed, Midway
    <2>. QED
        BY <1>7, <1>8, <2>1, <2>2
<1>9. ASSUME NEW p \in Procs, ClearWrite(p) PROVE UncrossedInv'
    <2>. DEFINE n == [st[p] EXCEPT !.disabled = @ \/ st[p].readFrom # NoPath]
                payload == IF st[p].snap.sib THEN MapOf(NoCred, TRUE) ELSE Absent
    <2>1. st[p] \in Local /\ st[p].at = Primary[p] /\ Primary[p] \in Paths
        BY <1>9, PathAssumption DEF IInv, TypeOK, ClearWrite, StoreShape
    <2>2. PICK o \in WriteOutcomes : Write(p, st[p].at, payload, o) /\ Step(p, AfterClear(n, o.acked))
        BY <1>9 DEF ClearWrite
    <2>3. n \in Local
        BY <2>1 DEF Local
    <2>. HIDE DEF n
    <2>4. /\ AfterClear(n, o.acked).pc \in {"off", "serving", "checkShared"}
          /\ AfterClear(n, o.acked).pc = "checkShared" => o.acked
        BY <2>3 DEF AfterClear, Ended, Idle, Local
    <2>5. o.acked => o.stored
        BY DEF WriteOutcomes
    <2>6. payload.cred.kind = "none" /\ payload # Garbled
        BY TokenFacts DEF MapOf, Absent, Garbled
    <2>. HIDE DEF payload
    <2>7. o.acked => kv'[Primary[p]] = payload
        BY <2>1, <2>2, <2>5 DEF Write, IInv, TypeOK
    <2>8. st'[p] = AfterClear(n, o.acked)
        BY <2>2, OneMoves
    <2>9. Uncrossed(p)'
        BY <2>4, <2>6, <2>7, <2>8 DEF Uncrossed
    <2>. QED
        BY <1>7, <1>9, <2>2, <2>9
<1>. QED
    BY <1>1, <1>3, <1>4, <1>5, <1>6, <1>8, <1>9 DEF Next

(* So it does in every reachable state, where no read is cut off. *)
LEMMA UncrossedInductive ==
    ASSUME ForgetsCorrupt, NoTornReads
    PROVE  Spec => [](IInv /\ CommandInv /\ UncrossedInv)
<1>1. Init => IInv /\ CommandInv /\ UncrossedInv
    <2>1. Idle.pc = "off"
        BY DEF Idle
    <2>. QED
        BY <2>1, InitInv, EndedCommand DEF Init, CommandInv, UncrossedInv, Uncrossed
<1>2. IInv /\ CommandInv /\ UncrossedInv /\ [Next]_vars => (IInv /\ CommandInv /\ UncrossedInv)'
    BY NextInv, CommandStep, UncrossedStep
<1>. QED
    BY <1>1, <1>2, PTL DEF Spec

\* What is written keeps the keys the writer read.
LEMMA WritesKeepSiblings ==
    ASSUME IInv, NEW p \in Procs, SaveWrite(p) \/ ClearWrite(p) \/ PutWrite(p)
    PROVE  \E payload \in Payload, o \in WriteOutcomes :
              /\ Write(p, st[p].at, payload, o)
              /\ payload.sib = FALSE => st[p].snap.sib = FALSE
<1>. DEFINE s == st[p]
<1>1. s \in Local /\ s.snap.sib \in BOOLEAN /\ s.snap.cred \in Cred /\ s.held \in Cred
    <2>1. s \in Local
        BY DEF IInv, TypeOK
    <2>2. s.snap \in Payload /\ s.held \in Cred
        BY <2>1 DEF Local
    <2>. QED
        BY <2>1, <2>2, PayloadHolds
<1>2. \A c \in Cred, b \in BOOLEAN : MapOf(c, b) \in Payload /\ MapOf(c, b).sib = b
    BY PayloadFacts DEF MapOf
<1>3. CASE SaveWrite(p)
    BY <1>1, <1>2, <1>3 DEF SaveWrite
<1>4. CASE ClearWrite(p)
    <2>. DEFINE payload == IF s.snap.sib THEN MapOf(NoCred, TRUE) ELSE Absent
    <2>1. payload \in Payload /\ (payload.sib = FALSE => s.snap.sib = FALSE)
        BY <1>1, <1>2, PayloadFacts, TokenFacts
    <2>2. \E o \in WriteOutcomes : Write(p, s.at, payload, o)
        BY <1>4 DEF ClearWrite
    <2>. QED
        BY <2>1, <2>2
<1>5. CASE PutWrite(p)
    <2>1. PICK key \in PutKeys, o \in WriteOutcomes :
             Write(p, s.at, IF key = "sibling" THEN MapOf(s.snap.cred, TRUE) ELSE MapOf(Corrupt, s.snap.sib), o)
        BY <1>5 DEF PutWrite
    <2>2. MapOf(s.snap.cred, TRUE) \in Payload /\ MapOf(s.snap.cred, TRUE).sib = TRUE
        BY <1>1, <1>2
    <2>3. MapOf(Corrupt, s.snap.sib) \in Payload /\ MapOf(Corrupt, s.snap.sib).sib = s.snap.sib
        BY <1>1, <1>2, TokenFacts
    <2>. HIDE DEF s
    <2>4. CASE key = "sibling"
        BY <2>1, <2>2, <2>4 DEF s
    <2>5. CASE key # "sibling"
        BY <2>1, <2>3, <2>5 DEF s
    <2>. QED
        BY <2>4, <2>5
<1>. QED
    BY <1>3, <1>4, <1>5

\* Whoever writes moves on.
LEMMA WritersMove ==
    ASSUME IInv, NEW p \in Procs, SaveWrite(p) \/ ClearWrite(p) \/ PutWrite(p)
    PROVE  st'[p] # st[p]
<1>1. st[p] \in Local /\ st[p].pc \in {"saveWrite", "clearWrite", "putWrite"}
    BY DEF IInv, TypeOK, SaveWrite, ClearWrite, PutWrite
<1>2. CASE SaveWrite(p) \/ PutWrite(p)
    <2>1. PICK local : Step(p, local) /\ local.pc \notin Midway
        BY <1>2, QuietMoves
    <2>. QED
        BY <1>1, <2>1, OneMoves DEF Midway
<1>3. CASE ClearWrite(p)
    <2>. DEFINE n == [st[p] EXCEPT !.disabled = @ \/ st[p].readFrom # NoPath]
    <2>1. PICK o \in WriteOutcomes : Step(p, AfterClear(n, o.acked))
        BY <1>3 DEF ClearWrite
    <2>2. n \in Local
        BY <1>1 DEF Local
    <2>. HIDE DEF n
    <2>3. AfterClear(n, o.acked).pc \in {"off", "serving", "checkShared"}
        BY <2>2 DEF AfterClear, Ended, Idle, Local
    <2>. QED
        BY <1>1, <2>1, <2>3, OneMoves
<1>. QED
    BY <1>2, <1>3

(* The other keys of a path are lost only to a writer that came between a
   process's read of the map and its write, never to a failed read (write). *)
THEOREM SiblingsSurvive ==
    ASSUME ForgetsCorrupt, NoTornReads
    PROVE  Spec => SiblingsLostOnlyToARace
<1>1. ASSUME IInv, CommandInv, UncrossedInv, [Next]_vars, NEW a \in Paths, kv[a].sib, ~kv'[a].sib
      PROVE  \E p \in touched : st[p].at = a /\ st'[p] # st[p]
    <2>1. kv'[a] # kv[a]
        BY <1>1
    <2>2. PICK p \in Procs : SaveWrite(p) \/ ClearWrite(p) \/ PutWrite(p)
        BY <1>1, <2>1, OthersWriteNothing DEF Authorize
    <2>3. st[p].pc \in {"saveWrite", "clearWrite", "putWrite"}
        BY <2>2 DEF SaveWrite, ClearWrite, PutWrite
    <2>4. PICK payload \in Payload, o \in WriteOutcomes :
              /\ Write(p, st[p].at, payload, o)
              /\ payload.sib = FALSE => st[p].snap.sib = FALSE
        BY <1>1, <2>2, WritesKeepSiblings
    <2>5. st[p].at = a /\ kv'[a] = payload
        BY <1>1, <2>1, <2>4 DEF Write, IInv, TypeOK
    <2>6. payload.sib = FALSE
        BY <1>1, <2>4, <2>5, PayloadHolds
    <2>7. p \in touched
        <3>1. SUFFICES ASSUME p \notin touched PROVE FALSE
            OBVIOUS
        <3>2. st[p].snap.sib
            BY <1>1, <2>3, <2>5, <3>1 DEF UncrossedInv, Uncrossed
        <3>. QED
            BY <2>4, <2>6, <3>2
    <2>. QED
        BY <1>1, <2>2, <2>5, <2>7, WritersMove
<1>2. IInv /\ CommandInv /\ UncrossedInv /\ [Next]_vars =>
        [\A a \in Paths :
          kv[a].sib /\ ~kv'[a].sib =>
              \E p \in touched : st[p].at = a /\ st'[p] # st[p]]_vars
    BY <1>1
<1>. QED
    BY <1>2, UncrossedInductive, PTL DEF Spec, SiblingsLostOnlyToARace

\* Only its own steps move a process, and one that checks the fallback has two.
LEMMA StepsOf ==
    ASSUME IInv, CommandInv, [Next]_vars, NEW p \in Procs, st'[p] # st[p], st[p].pc = "checkShared"
    PROVE  CheckShared(p) \/ Crash(p)
<1>1. ASSUME NEW q \in Procs, NEW local, Step(q, local) PROVE q = p
    BY <1>1, OneMoves
<1>2. PICK q \in Procs :
        \/ \E c \in CommandNames : Begin(q, c)
        \/ LoadPrimary(q) \/ LoadShared(q)
        \/ SaveRead(q) \/ SaveWrite(q)
        \/ ClearRead(q) \/ ClearWrite(q) \/ CheckShared(q)
        \/ Authorize(q) \/ NeedToken(q) \/ Leave(q) \/ UseToken(q) \/ Refresh(q) \/ Discard(q)
        \/ PutRead(q) \/ PutWrite(q)
        \/ Crash(q)
    BY DEF Next, vars
<1>3. \E local : Step(q, local)
    <2>1. CASE Authorize(q)
        BY <2>1 DEF Authorize
    <2>2. CASE ~Authorize(q)
        BY <1>2, <2>2, ActionCommand
    <2>. QED
        BY <2>1, <2>2
<1>4. q = p
    BY <1>1, <1>3
<1>. QED
    BY <1>2, <1>4 DEF Begin, LoadPrimary, LoadShared, SaveRead, SaveWrite, ClearRead, ClearWrite, Authorize,
                      NeedToken, Leave, UseToken, Refresh, Discard, PutRead, PutWrite

(* A logout says the machine is signed out only if neither of its paths holds a
   credential, or another process wrote there since (fallback_is_reachable). *)
THEOREM LogoutsAreTrue ==
    ASSUME ForgetsCorrupt, NoTornReads
    PROVE  Spec => CleanLogoutIsTrue
<1>1. ASSUME IInv, CommandInv, UncrossedInv, [Next]_vars, NEW p \in Procs \ touched,
             st[p].pc = "checkShared", st'[p].said = "clean",
             NEW a \in {Primary[p], Fallback[p]} \ {NoPath}
      PROVE  kv[a].cred.kind = "none" /\ kv[a] # Garbled
    <2>1. st[p] \in Local /\ Command(p, st[p]) /\ Uncrossed(p)
        BY <1>1 DEF IInv, TypeOK, CommandInv, UncrossedInv
    <2>2. st[p].said = "nothing" /\ st[p].fb = Fallback[p]
        BY <1>1, <2>1 DEF Command
    <2>3. CASE a = Primary[p]
        BY <1>1, <2>1, <2>3 DEF Uncrossed
    <2>4. CASE a = Fallback[p]
        <3>1. a \in Paths /\ kv[a] \in Payload
            BY <1>1, <2>4, PathAssumption DEF IInv, TypeOK
        <3>2. CheckShared(p)
            <4>1. st'[p] # st[p]
                BY <1>1, <2>2
            <4>2. CheckShared(p) \/ Crash(p)
                BY <1>1, <4>1, StepsOf
            <4>3. ~Crash(p)
                <5>1. Idle.said = "nothing"
                    BY DEF Idle
                <5>2. Crash(p) => st'[p] = Idle
                    BY <1>1, OneMoves DEF Crash
                <5>. QED
                    BY <1>1, <5>1, <5>2
            <4>. QED
                BY <4>2, <4>3
        <3>3. PICK x \in Reads(a) : Step(p, Ended(SharedAnswer(x)))
            BY <2>2, <2>4, <1>1, <3>2 DEF CheckShared
        <3>4. SharedAnswer(x) = "clean"
            <4>1. Ended(SharedAnswer(x)).said = SharedAnswer(x)
                BY DEF Ended, Idle
            <4>. QED
                BY <1>1, <3>3, <4>1, OneMoves
        <3>5. x.kind \notin {"garbled", "failed"} /\ x.cred.kind = "none"
            BY <3>4 DEF SharedAnswer
        <3>6. x = kv[a]
            BY <1>1, <3>1, <3>5, WholeRead
        <3>. QED
            BY <3>5, <3>6 DEF Garbled
    <2>. QED
        BY <1>1, <2>3, <2>4
<1>2. IInv /\ CommandInv /\ UncrossedInv /\ [Next]_vars =>
        [\A p \in Procs \ touched :
          st[p].pc = "checkShared" /\ st'[p].said = "clean" =>
              \A a \in {Primary[p], Fallback[p]} \ {NoPath} : kv[a].cred.kind = "none" /\ kv[a] # Garbled]_vars
    BY <1>1
<1>. QED
    BY <1>2, UncrossedInductive, PTL DEF Spec, CleanLogoutIsTrue

(* What `mcp auth` reports when it succeeds is so. *)
THEOREM CommandsAreTruthful ==
    ASSUME ForgetsCorrupt, NoTornReads
    PROVE  Spec => CommandsTellTheTruth
BY LogoutsAreTrue, LoginsOwnTheirs DEF CommandsTellTheTruth

------------------------------------------------------------------------------
(* Generations. *)

(* No `secret put` carries the token of a map back to where it read it. *)
PutsCarryNoToken == "sibling" \in PutKeys => \A p \in Procs : "put" \notin Commands[p]

\* Who holds a grant reaches its home.
LEMMA HoldersReach ==
    ASSUME IInv, CommandInv, NEW q \in Procs, NEW g \in Grants, Holds(st[q], g)
    PROVE  home[g] = SaveTarget(q, st[q]) /\ home[g] \in Paths /\ q \in Reach(home[g])
<1>1. st[q] \in Local /\ HomeBound(q, st[q]) /\ StoreShape(q, st[q]) /\ Command(q, st[q])
    BY DEF IInv, TypeOK, CommandInv
<1>2. home[g] = SaveTarget(q, st[q])
    BY <1>1 DEF Holds, HomeBound
<1>3. st[q].fb \in {NoPath, Fallback[q]} /\ st[q].readFrom \in {NoPath, st[q].fb}
    BY <1>1 DEF Command, StoreFallback, StoreShape
<1>4. SaveTarget(q, st[q]) \in {Primary[q], Fallback[q]} /\ SaveTarget(q, st[q]) \in Paths
    BY <1>1, <1>3, PathAssumption DEF SaveTarget
<1>. QED
    BY <1>2, <1>4 DEF Reach

\* What a load leaves rmcp with: nothing, what it held, or what was found.
LEMMA LoadedHeld ==
    ASSUME NEW s \in Local, NEW result, NEW c
    PROVE  \/ Loaded(s, result, c).held \in {s.held, NoCred}
           \/ result = "found" /\ Loaded(s, result, c).held = c
<1>1. \A what : Ended(what).held = NoCred
    BY DEF Ended, Idle
<1>2. \A pc, h : Serve(s, pc, h).held = h
    BY DEF Serve, Local
<1>3. [NewStore(s, NoPath) EXCEPT !.pc = "authorize"].held = NoCred
    BY DEF NewStore, Local
<1>4. CASE s.stage = "init"
    BY <1>1, <1>2, <1>3, <1>4 DEF Loaded, AfterInitialLoad
<1>5. CASE s.stage = "confirm"
    BY <1>1, <1>2, <1>5 DEF Loaded, AfterConfirmingLoad
<1>6. CASE s.stage = "serve"
    BY <1>2, <1>6 DEF Loaded, AfterServingLoad, Kept
<1>7. CASE s.stage = "report"
    BY <1>1, <1>7 DEF Loaded
<1>. QED
    BY <1>4, <1>5, <1>6, <1>7 DEF Local

\* What a process holds after a step that neither mints, refreshes nor discards.
LEMMA HeldComes ==
    ASSUME IInv, NEW p \in Procs,
           \/ \E c \in CommandNames : Begin(p, c)
           \/ LoadPrimary(p) \/ LoadShared(p)
           \/ SaveRead(p) \/ SaveWrite(p)
           \/ ClearRead(p) \/ ClearWrite(p) \/ CheckShared(p)
           \/ NeedToken(p) \/ Leave(p) \/ UseToken(p)
           \/ PutRead(p) \/ PutWrite(p)
           \/ Crash(p)
    PROVE  \E local : /\ Step(p, local)
                      /\ \/ local.held \in {st[p].held, NoCred}
                         \/ /\ LoadPrimary(p) \/ LoadShared(p)
                            /\ \E path \in Paths : local.held = kv[path].cred
<1>. DEFINE s == st[p]
            Kept1(l) == l.held \in {s.held, NoCred}
            Goal == \E local : /\ Step(p, local)
                      /\ \/ local.held \in {st[p].held, NoCred}
                         \/ /\ LoadPrimary(p) \/ LoadShared(p)
                            /\ \E path \in Paths : local.held = kv[path].cred
<1>1. s \in Local
    BY DEF IInv, TypeOK
<1>2. Idle.held = NoCred /\ \A what : Ended(what).held = NoCred
    BY DEF Ended, Idle
<1>3. \A n \in Local, ok \in BOOLEAN :
        AfterSave(n, ok).held \in {n.held, NoCred} /\ AfterClear(n, ok).held \in {n.held, NoCred}
    BY DEF AfterSave, AfterClear, NewStore, Ended, Idle, Local
<1>4. \A o \in WriteOutcomes : o.acked \in BOOLEAN
    BY DEF WriteOutcomes
<1>5. ASSUME NEW c \in CommandNames, Begin(p, c) PROVE Goal
    <2>. DEFINE fresh == [NewStore(Idle, StoreFallback(p, c)) EXCEPT !.cmd = c,
                            !.stage = IF c = "status" THEN "report" ELSE "init"]
    <2>1. \/ Step(p, [fresh EXCEPT !.pc = "load"]) \/ Step(p, [fresh EXCEPT !.pc = "clearRead"])
          \/ \E path \in Paths : Step(p, [fresh EXCEPT !.pc = "putRead", !.at = path])
        BY <1>5 DEF Begin
    <2>2. [fresh EXCEPT !.pc = "load"].held = NoCred /\ [fresh EXCEPT !.pc = "clearRead"].held = NoCred
          /\ \A path \in Paths : [fresh EXCEPT !.pc = "putRead", !.at = path].held = NoCred
        BY DEF NewStore, Idle
    <2>. HIDE DEF fresh
    <2>. QED
        BY <2>1, <2>2
<1>6. CASE LoadPrimary(p)
    <2>. DEFINE own == [s EXCEPT !.readFrom = NoPath]
    <2>1. PICK a \in Reads(Primary[p]) :
          \/ Step(p, Loaded(own, "none", NoCred))
          \/ Step(p, [s EXCEPT !.pc = "loadShared"])
          \/ Step(p, Loaded(own, Decoded(a), a.cred))
          \/ Step(p, Loaded(own, "corrupt", NoCred))
          \/ Step(p, Loaded(s, "failed", NoCred))
        BY <1>6 DEF LoadPrimary
    <2>2. own \in Local /\ own.held = s.held /\ [s EXCEPT !.pc = "loadShared"].held = s.held
        BY <1>1 DEF Local
    <2>3. a.cred = NoCred \/ a.cred = kv[Primary[p]].cred
        BY PathAssumption, ReadFacts DEF IInv
    <2>4. Primary[p] \in Paths
        BY PathAssumption
    <2>. HIDE DEF own
    <2>5. Loaded(own, "none", NoCred).held \in {s.held, NoCred} /\ Loaded(own, "corrupt", NoCred).held \in {s.held, NoCred}
          /\ Loaded(s, "failed", NoCred).held \in {s.held, NoCred}
        BY <1>1, <2>2, LoadedHeld
    <2>6. Loaded(own, Decoded(a), a.cred).held \in {s.held, NoCred, a.cred}
        BY <2>2, LoadedHeld
    <2>. QED
        BY <1>6, <2>1, <2>2, <2>3, <2>4, <2>5, <2>6
<1>7. CASE LoadShared(p)
    <2>. DEFINE none == [s EXCEPT !.readFrom = NoPath]
                some == [s EXCEPT !.readFrom = s.fb]
    <2>1. PICK a \in Reads(s.fb) :
          \/ Step(p, Loaded(s, "missed", NoCred))
          \/ Step(p, Loaded(none, "none", NoCred))
          \/ Step(p, Loaded(s, "failed", NoCred))
          \/ Step(p, Loaded(some, "found", a.cred))
        BY <1>7 DEF LoadShared
    <2>2. none \in Local /\ some \in Local /\ none.held = s.held /\ some.held = s.held /\ s.fb \in Paths
        BY <1>1, <1>7 DEF Local, LoadShared, IInv, StoreShape
    <2>3. a.cred = NoCred \/ a.cred = kv[s.fb].cred
        BY <2>2, ReadFacts DEF IInv
    <2>. HIDE DEF none, some
    <2>5. Loaded(s, "missed", NoCred).held \in {s.held, NoCred} /\ Loaded(none, "none", NoCred).held \in {s.held, NoCred}
          /\ Loaded(s, "failed", NoCred).held \in {s.held, NoCred}
        BY <1>1, <2>2, LoadedHeld
    <2>6. Loaded(some, "found", a.cred).held \in {s.held, NoCred, a.cred}
        BY <2>2, LoadedHeld
    <2>. QED
        BY <1>7, <2>1, <2>2, <2>3, <2>5, <2>6
<1>8. CASE SaveWrite(p) \/ SaveRead(p)
    <2>1. ASSUME NEW ok \in BOOLEAN, Step(p, AfterSave(s, ok)) PROVE Goal
        BY <1>1, <1>3, <2>1
    <2>2. ASSUME NEW at, NEW snap, Step(p, [s EXCEPT !.pc = "saveWrite", !.at = at, !.snap = snap]) PROVE Goal
        <3>1. [s EXCEPT !.pc = "saveWrite", !.at = at, !.snap = snap].held = s.held
            BY <1>1 DEF Local
        <3>. QED
            BY <2>2, <3>1
    <2>3. \/ \E ok \in BOOLEAN : Step(p, AfterSave(s, ok))
          \/ \E at, snap : Step(p, [s EXCEPT !.pc = "saveWrite", !.at = at, !.snap = snap])
        <3>1. CASE SaveWrite(p)
            BY <1>4, <3>1 DEF SaveWrite
        <3>2. CASE SaveRead(p)
            BY <3>2 DEF SaveRead
        <3>. QED
            BY <1>8, <3>1, <3>2
    <2>. QED
        BY <2>1, <2>2, <2>3
<1>9. CASE ClearWrite(p) \/ ClearRead(p)
    <2>. DEFINE n == [s EXCEPT !.disabled = @ \/ st[p].readFrom # NoPath]
    <2>1. n \in Local /\ n.held = s.held
        BY <1>1 DEF Local
    <2>. HIDE DEF n
    <2>2. ASSUME NEW ok \in BOOLEAN, Step(p, AfterClear(s, ok)) \/ Step(p, AfterClear(n, ok)) PROVE Goal
        <3>1. AfterClear(s, ok).held \in {s.held, NoCred} /\ AfterClear(n, ok).held \in {s.held, NoCred}
            BY <1>1, <1>3, <2>1
        <3>. QED
            BY <2>2, <3>1
    <2>3. ASSUME NEW at, NEW snap, Step(p, [s EXCEPT !.pc = "clearWrite", !.at = at, !.snap = snap]) PROVE Goal
        <3>1. [s EXCEPT !.pc = "clearWrite", !.at = at, !.snap = snap].held = s.held
            BY <1>1 DEF Local
        <3>. QED
            BY <2>3, <3>1
    <2>4. \/ \E ok \in BOOLEAN : Step(p, AfterClear(s, ok)) \/ Step(p, AfterClear(n, ok))
          \/ \E at, snap : Step(p, [s EXCEPT !.pc = "clearWrite", !.at = at, !.snap = snap])
        <3>1. CASE ClearWrite(p)
            BY <1>4, <3>1 DEF ClearWrite, n
        <3>2. CASE ClearRead(p)
            BY <3>2 DEF ClearRead
        <3>. QED
            BY <1>9, <3>1, <3>2
    <2>. QED
        BY <2>2, <2>3, <2>4
<1>10. CASE CheckShared(p) \/ Leave(p) \/ PutWrite(p) \/ Crash(p)
    BY <1>2, <1>10 DEF CheckShared, Leave, PutWrite, Crash
<1>11. CASE NeedToken(p) \/ UseToken(p)
    <2>1. [s EXCEPT !.pc = "load"].held = s.held /\ [s EXCEPT !.pc = "serving"].held = s.held
        BY <1>1 DEF Local
    <2>. QED
        BY <1>11, <2>1 DEF NeedToken, UseToken
<1>12. CASE PutRead(p)
    <2>1. ASSUME NEW snap, Step(p, [s EXCEPT !.pc = "putWrite", !.snap = snap]) PROVE Goal
        <3>1. [s EXCEPT !.pc = "putWrite", !.snap = snap].held = s.held
            BY <1>1 DEF Local
        <3>. QED
            BY <2>1, <3>1
    <2>. QED
        BY <1>2, <1>12, <2>1 DEF PutRead
<1>. QED
    BY <1>5, <1>6, <1>7, <1>8, <1>9, <1>10, <1>11, <1>12

\* Only a save stores a token, and but for `secret put` who writes reaches the path.
LEMMA SavesStore ==
    ASSUME IInv, CommandInv, PutsCarryNoToken, NEW p \in Procs, SaveWrite(p) \/ ClearWrite(p) \/ PutWrite(p)
    PROVE  \E payload, o : /\ o \in WriteOutcomes /\ payload \in Payload /\ st[p].at \in Paths
                           /\ Write(p, st[p].at, payload, o)
                           /\ HasToken(payload) => SaveWrite(p) /\ payload.cred = st[p].held
                           /\ SaveWrite(p) => payload.cred = st[p].held
                           /\ PutWrite(p) \/ p \in Reach(st[p].at)
                           /\ SaveWrite(p) /\ ~o.stored => lost' = lost \cup Losing(p)
<1>. DEFINE s == st[p]
<1>1. /\ s \in Local /\ s.snap.sib \in BOOLEAN /\ s.snap.cred \in Cred /\ s.held \in Cred
      /\ StoreShape(p, s) /\ Command(p, s) /\ Primary[p] \in Paths
    <2>1. s \in Local
        BY DEF IInv, TypeOK
    <2>2. s.snap \in Payload /\ s.held \in Cred
        BY <2>1 DEF Local
    <2>. QED
        BY <2>1, <2>2, PayloadHolds, PathAssumption DEF IInv, CommandInv
<1>2. \A c \in Cred, b \in BOOLEAN : MapOf(c, b) \in Payload /\ MapOf(c, b).cred = c
    BY PayloadFacts
<1>3. CASE SaveWrite(p)
    <2>1. s.at = SaveTarget(p, s) /\ s.pc = "saveWrite"
        BY <1>1, <1>3 DEF SaveWrite, StoreShape
    <2>2. s.at \in Paths /\ p \in Reach(s.at)
        <3>1. s.fb \in {NoPath, Fallback[p]} /\ s.readFrom \in {NoPath, s.fb} /\ s.fb \in Paths \cup {NoPath}
            BY <1>1 DEF Command, StoreFallback, StoreShape, Local
        <3>2. s.at \in {Primary[p], Fallback[p]} /\ s.at \in Paths
            BY <1>1, <2>1, <3>1, PathAssumption DEF SaveTarget
        <3>. QED
            BY <3>2 DEF Reach
    <2>3. PICK o \in WriteOutcomes : /\ Write(p, s.at, MapOf(s.held, s.snap.sib), o)
                                     /\ lost' = IF o.stored THEN lost ELSE lost \cup Losing(p)
        BY <1>3 DEF SaveWrite
    <2>4. MapOf(s.held, s.snap.sib) \in Payload /\ MapOf(s.held, s.snap.sib).cred = s.held
        BY <1>1, <1>2
    <2>. HIDE DEF s
    <2>. QED
        BY <1>3, <2>2, <2>3, <2>4 DEF s
<1>4. CASE ClearWrite(p)
    <2>. DEFINE payload == IF s.snap.sib THEN MapOf(NoCred, TRUE) ELSE Absent
    <2>1. payload \in Payload /\ ~HasToken(payload)
        BY PayloadFacts, TokenFacts DEF HasToken
    <2>2. PICK o \in WriteOutcomes : Write(p, s.at, payload, o)
        BY <1>4 DEF ClearWrite
    <2>3. s.at = Primary[p] /\ p \in Reach(s.at) /\ s.at \in Paths
        BY <1>1, <1>4 DEF ClearWrite, StoreShape, Reach
    <2>4. ~SaveWrite(p)
        BY <1>4 DEF SaveWrite, ClearWrite
    <2>. HIDE DEF payload, s
    <2>. QED
        BY <2>1, <2>2, <2>3, <2>4 DEF s
<1>5. CASE PutWrite(p)
    <2>1. PICK key \in PutKeys, o \in WriteOutcomes :
             Write(p, s.at, IF key = "sibling" THEN MapOf(s.snap.cred, TRUE) ELSE MapOf(Corrupt, s.snap.sib), o)
        BY <1>5 DEF PutWrite
    <2>2. s.pc = "putWrite" /\ s.cmd = "put" /\ "put" \in Commands[p] /\ s.at \in Paths
        BY <1>1, <1>5 DEF PutWrite, StoreShape, Command
    <2>3. key # "sibling"
        BY <2>2 DEF PutsCarryNoToken
    <2>4. MapOf(Corrupt, s.snap.sib) \in Payload /\ ~HasToken(MapOf(Corrupt, s.snap.sib))
        BY <1>1, <1>2, TokenFacts DEF HasToken
    <2>5. ~SaveWrite(p)
        BY <1>5 DEF SaveWrite, PutWrite
    <2>. HIDE DEF s
    <2>. QED
        BY <1>5, <2>1, <2>2, <2>3, <2>4, <2>5 DEF s
<1>. QED
    BY <1>3, <1>4, <1>5

\* A step of another process leaves the only one that reaches a grant current.
LEMMA OthersKeepCurrent ==
    ASSUME IInv, CommandInv, PutsCarryNoToken, NEW q \in Procs, NEW local, Step(q, local), [Next]_vars,
           NEW p \in Procs, p # q, NEW g \in Grants, home'[g] = home[g], Reach(home[g]) = {p},
           live'[g] = live[g], Current(p, g),
           kv' = kv \/ SaveWrite(q) \/ ClearWrite(q) \/ PutWrite(q)
    PROVE  Current(p, g)'
<1>1. st'[p] = st[p]
    BY OneMoves
<1>2. CASE kv' = kv
    BY <1>1, <1>2 DEF Current, Holds, Stores, HasToken
<1>3. CASE SaveWrite(q) \/ ClearWrite(q) \/ PutWrite(q)
    <2>1. PICK payload, o :
             /\ o \in WriteOutcomes /\ payload \in Payload /\ st[q].at \in Paths
             /\ Write(q, st[q].at, payload, o)
             /\ HasToken(payload) => SaveWrite(q) /\ payload.cred = st[q].held
             /\ PutWrite(q) \/ q \in Reach(st[q].at)
        BY <1>3, SavesStore
    <2>2. CASE st[q].at = home[g]
        <3>1. q \notin Reach(home[g])
            OBVIOUS
        <3>2. PutWrite(q) /\ ~HasToken(payload)
            BY <2>1, <2>2, <3>1 DEF SaveWrite, PutWrite
        <3>3. kv'[home[g]] = payload \/ kv' = kv
            BY <2>1, <2>2 DEF Write, IInv, TypeOK
        <3>. QED
            BY <1>1, <1>2, <3>2, <3>3 DEF Current, Holds, Stores, HasToken
    <2>3. CASE st[q].at # home[g]
        <3>1. kv'[home[g]] = kv[home[g]] \/ home[g] \notin Paths
            BY <2>1, <2>3 DEF Write, IInv, TypeOK
        <3>. QED
            BY <1>1, <3>1 DEF Current, Holds, Stores, HasToken
    <2>. QED
        BY <2>2, <2>3
<1>. QED
    BY <1>2, <1>3

\* So does one of its own.
LEMMA ItsOwnKeepsCurrent ==
    ASSUME IInv, CommandInv, PutsCarryNoToken, NEW p \in Procs, NEW g \in Grants, g \notin lost', lost \subseteq lost',
           home' = home, live' = live, Reach(home[g]) = {p}, Current(p, g),
           \/ \E c \in CommandNames : Begin(p, c)
           \/ LoadPrimary(p) \/ LoadShared(p)
           \/ SaveRead(p) \/ SaveWrite(p)
           \/ ClearRead(p) \/ ClearWrite(p) \/ CheckShared(p)
           \/ NeedToken(p) \/ Leave(p) \/ UseToken(p)
           \/ PutRead(p) \/ PutWrite(p)
           \/ Crash(p)
    PROVE  Current(p, g)'
<1>. DEFINE Saving == st[p].pc \in {"saveRead", "saveWrite"}
<1>1. PICK local : /\ Step(p, local)
                   /\ \/ local.held \in {st[p].held, NoCred}
                      \/ /\ LoadPrimary(p) \/ LoadShared(p)
                         /\ \E path \in Paths : local.held = kv[path].cred
    BY HeldComes
<1>2. st'[p] = local
    BY <1>1, OneMoves
<1>3. Stores(g) /\ ~(Holds(st[p], g) /\ Saving) => kv[home[g]].cred.gen = live[g]
    BY DEF Current
<1>4. NoCred.kind # "token"
    BY TokenFacts
<1>5. Holds(local, g) => local.held.gen = live[g]
    <2>1. CASE local.held \in {st[p].held, NoCred}
        BY <1>4, <2>1 DEF Current, Holds
    <2>2. CASE /\ LoadPrimary(p) \/ LoadShared(p)
               /\ \E path \in Paths : local.held = kv[path].cred
        <3>1. PICK path \in Paths : local.held = kv[path].cred
            BY <2>2
        <3>2. Holds(local, g) => home[g] = path /\ Stores(g)
            BY <3>1 DEF Holds, Stores, HasToken, IInv, GrantStaysHome
        <3>3. ~Saving
            BY <2>2 DEF LoadPrimary, LoadShared
        <3>. QED
            BY <1>3, <3>1, <3>2, <3>3
    <2>. QED
        BY <1>1, <2>1, <2>2
<1>6. ASSUME kv' = kv, ~(Holds(st[p], g) /\ Saving) \/ (st'[p].held = st[p].held /\ st'[p].pc = "saveWrite")
      PROVE  Current(p, g)'
    <2>1. Stores(g)' = Stores(g)
        BY <1>6 DEF Stores, HasToken
    <2>. QED
        BY <1>2, <1>3, <1>5, <1>6, <2>1 DEF Current, Holds
<1>7. Holds(st[p], g) => Losing(p) = {g}
    BY DEF Holds, Losing
<1>8. CASE SaveRead(p)
    <2>1. st[p] \in Local /\ kv' = kv
        BY <1>8 DEF SaveRead, IInv, TypeOK
    <2>2. CASE lost' = lost \cup Losing(p)
        BY <1>6, <1>7, <2>1, <2>2
    <2>3. CASE \E at, snap : Step(p, [st[p] EXCEPT !.pc = "saveWrite", !.at = at, !.snap = snap])
        <3>1. PICK at, snap : Step(p, [st[p] EXCEPT !.pc = "saveWrite", !.at = at, !.snap = snap])
            BY <2>3
        <3>2. st'[p] = [st[p] EXCEPT !.pc = "saveWrite", !.at = at, !.snap = snap]
            BY <3>1, OneMoves
        <3>3. st'[p].held = st[p].held /\ st'[p].pc = "saveWrite"
            BY <2>1, <3>2 DEF Local
        <3>. QED
            BY <1>6, <2>1, <3>3
    <2>. QED
        BY <1>8, <2>2, <2>3 DEF SaveRead
<1>9. CASE Crash(p)
    <2>1. kv' = kv /\ (Saving => lost' = lost \cup Losing(p))
        BY <1>9 DEF Crash
    <2>. QED
        BY <1>6, <1>7, <2>1
<1>10. CASE SaveWrite(p) \/ ClearWrite(p) \/ PutWrite(p)
    <2>1. PICK payload, o :
             /\ o \in WriteOutcomes /\ payload \in Payload /\ st[p].at \in Paths
             /\ Write(p, st[p].at, payload, o)
             /\ HasToken(payload) => SaveWrite(p) /\ payload.cred = st[p].held
             /\ SaveWrite(p) => payload.cred = st[p].held
             /\ SaveWrite(p) /\ ~o.stored => lost' = lost \cup Losing(p)
        BY <1>10, SavesStore
    <2>2. CASE ~o.stored
        <3>1. kv' = kv
            BY <2>1, <2>2 DEF Write
        <3>2. ~(Holds(st[p], g) /\ Saving)
            BY <1>7, <1>10, <2>1, <2>2 DEF SaveWrite, ClearWrite, PutWrite
        <3>. QED
            BY <1>6, <3>1, <3>2
    <2>3. CASE o.stored /\ st[p].at = home[g]
        <3>1. kv'[home[g]] = payload
            BY <2>1, <2>3 DEF Write, IInv, TypeOK
        <3>2. Stores(g)' => kv'[home[g]].cred.gen = live[g]
            <4>1. SUFFICES ASSUME Stores(g)' PROVE kv'[home[g]].cred.gen = live[g]
                OBVIOUS
            <4>2. HasToken(payload) /\ payload.cred.grant = g
                BY <3>1, <4>1 DEF Stores, HasToken
            <4>3. Holds(st[p], g) /\ payload.cred = st[p].held
                BY <2>1, <4>2 DEF Holds, HasToken
            <4>. QED
                BY <3>1, <4>3 DEF Current
        <3>. QED
            BY <1>2, <1>5, <3>2 DEF Current, Holds, Stores
    <2>4. CASE o.stored /\ st[p].at # home[g]
        <3>1. home[g] \in Paths => kv'[home[g]] = kv[home[g]]
            BY <2>1, <2>4 DEF Write, IInv, TypeOK
        <3>2. Stores(g)' = Stores(g)
            BY <3>1 DEF Stores, HasToken
        <3>3. ~(Holds(st[p], g) /\ Saving)
            <4>1. CASE SaveWrite(p)
                <5>1. Holds(st[p], g) => home[g] = SaveTarget(p, st[p])
                    BY HoldersReach
                <5>2. st[p].at = SaveTarget(p, st[p])
                    BY <4>1 DEF SaveWrite, IInv, StoreShape
                <5>. QED
                    BY <2>4, <5>1, <5>2
            <4>2. CASE ClearWrite(p) \/ PutWrite(p)
                BY <4>2 DEF ClearWrite, PutWrite
            <4>. QED
                BY <1>10, <4>1, <4>2
        <3>4. Stores(g) => kv'[home[g]].cred.gen = live[g]
            BY <1>3, <3>1, <3>3 DEF Stores
        <3>. QED
            BY <1>2, <1>5, <3>2, <3>4 DEF Current, Holds
    <2>. QED
        BY <2>1, <2>2, <2>3, <2>4 DEF WriteOutcomes
<1>11. CASE \/ \E c \in CommandNames : Begin(p, c)
            \/ LoadPrimary(p) \/ LoadShared(p) \/ ClearRead(p) \/ CheckShared(p)
            \/ NeedToken(p) \/ Leave(p) \/ UseToken(p) \/ PutRead(p)
    <2>1. kv' = kv /\ ~Saving
        BY <1>11 DEF Begin, LoadPrimary, LoadShared, ClearRead, CheckShared, NeedToken, Leave, UseToken, PutRead
    <2>. QED
        BY <1>6, <2>1
<1>. QED
    BY <1>8, <1>9, <1>10, <1>11

\* What is lost stays so, and only Authorize and Refresh touch homes and generations.
LEMMA WhatMoves ==
    ASSUME IInv, CommandInv, NEW q \in Procs,
           \/ \E c \in CommandNames : Begin(q, c)
           \/ LoadPrimary(q) \/ LoadShared(q)
           \/ SaveRead(q) \/ SaveWrite(q)
           \/ ClearRead(q) \/ ClearWrite(q) \/ CheckShared(q)
           \/ Authorize(q) \/ NeedToken(q) \/ Leave(q) \/ UseToken(q) \/ Refresh(q) \/ Discard(q)
           \/ PutRead(q) \/ PutWrite(q)
           \/ Crash(q)
    PROVE  /\ lost \subseteq lost'
           /\ Authorize(q) \/ home' = home
           /\ Refresh(q) \/ (live' = live /\ revoked' = revoked)
           /\ kv' = kv \/ SaveWrite(q) \/ ClearWrite(q) \/ PutWrite(q)
           /\ \E local : Step(q, local)
<1>1. lost \subseteq lost' /\ (Authorize(q) \/ home' = home) /\ (Refresh(q) \/ (live' = live /\ revoked' = revoked))
    BY DEF Begin, LoadPrimary, LoadShared, SaveRead, SaveWrite, ClearRead, ClearWrite, CheckShared, Authorize,
           NeedToken, Leave, UseToken, Refresh, Discard, PutRead, PutWrite, Crash
<1>2. kv' = kv \/ SaveWrite(q) \/ ClearWrite(q) \/ PutWrite(q)
    BY DEF Begin, LoadPrimary, LoadShared, SaveRead, ClearRead, CheckShared, Authorize,
           NeedToken, Leave, UseToken, Refresh, Discard, PutRead, Crash
<1>3. \E local : Step(q, local)
    <2>1. CASE Authorize(q)
        BY <2>1 DEF Authorize
    <2>2. CASE ~Authorize(q)
        BY <2>2, ActionCommand
    <2>. QED
        BY <2>1, <2>2
<1>. QED
    BY <1>1, <1>2, <1>3

\* A discarded grant is held no more, or still at the generation it was loaded at.
LEMMA DiscardKeepsCurrent ==
    ASSUME IInv, NEW p \in Procs, NEW g \in Grants, Discard(p), Current(p, g)
    PROVE  Current(p, g)'
<1>1. st[p] \in Local /\ st[p].pc = "loaded"
    BY DEF Discard, IInv, TypeOK
<1>2. Holds(st'[p], g) => Holds(st[p], g) /\ st'[p].held = st[p].held
    <2>1. CASE Step(p, [st[p] EXCEPT !.pc = "saveRead", !.held = Bare])
        <3>1. st'[p] = [st[p] EXCEPT !.pc = "saveRead", !.held = Bare]
            BY <2>1, OneMoves
        <3>2. st'[p].held = Bare
            BY <1>1, <3>1 DEF Local
        <3>. QED
            BY <3>2, TokenFacts DEF Holds
    <2>2. CASE Step(p, [st[p] EXCEPT !.pc = "clearRead"])
        <3>1. st'[p] = [st[p] EXCEPT !.pc = "clearRead"]
            BY <2>2, OneMoves
        <3>2. st'[p].held = st[p].held
            BY <1>1, <3>1 DEF Local
        <3>. QED
            BY <3>2 DEF Holds
    <2>. QED
        BY <2>1, <2>2 DEF Discard
<1>3. Stores(g)' = Stores(g) /\ kv' = kv /\ home' = home /\ live' = live
    BY DEF Discard, Stores, HasToken
<1>. QED
    BY <1>1, <1>2, <1>3 DEF Current

\* A new grant is honoured at the generation it is minted at and stored nowhere.
LEMMA MintKeepsCurrent ==
    ASSUME IInv, CommandInv, CurrentInv, NEW q \in Procs, Authorize(q),
           NEW p \in Procs, NEW g \in Grants \ lost, Reach(home'[g]) = {p}
    PROVE  Current(p, g)'
<1>1. st[q] \in Local /\ st[q].pc = "authorize" /\ kv' = kv /\ live' = live /\ home \in [Grants -> Paths \cup {NoPath}]
    BY DEF Authorize, IInv, TypeOK
<1>2. \A a \in Paths : HasToken(kv[a]) => home[kv[a].cred.grant] = a
    BY DEF IInv, GrantStaysHome
<1>3. ASSUME NEW n \in Grants, home[n] = NoPath, home' = [home EXCEPT ![n] = Primary[q]],
             Step(q, [st[q] EXCEPT !.pc = "saveRead", !.stage = "confirm", !.held = Token(n, 0)])
      PROVE  Current(p, g)'
    <2>1. st'[q] = [st[q] EXCEPT !.pc = "saveRead", !.stage = "confirm", !.held = Token(n, 0)]
          /\ \A r \in Procs \ {q} : st'[r] = st[r]
        BY <1>3, OneMoves
    <2>2. st'[q].held = [kind |-> "token", grant |-> n, gen |-> 0]
        BY <1>1, <2>1 DEF Local, Token
    <2>3. CASE g = n
        <3>1. home'[g] = Primary[q] /\ Primary[q] \in Paths /\ live[g] = 0
            BY <1>1, <1>3, <2>3, PathAssumption DEF CurrentInv
        <3>2. q = p
            BY <3>1 DEF Reach
        <3>3. ~Stores(g)'
            <4>1. SUFFICES ASSUME Stores(g)' PROVE FALSE
                OBVIOUS
            <4>2. HasToken(kv[Primary[q]]) /\ kv[Primary[q]].cred.grant = g
                BY <1>1, <3>1, <4>1 DEF Stores, HasToken
            <4>3. home[g] = Primary[q]
                BY <1>2, <3>1, <4>2
            <4>. QED
                BY <1>3, <2>3, <3>1, <4>3, PathAssumption
        <3>. QED
            BY <1>1, <2>2, <3>1, <3>2, <3>3 DEF Current, Holds
    <2>4. CASE g # n
        <3>1. home'[g] = home[g]
            BY <1>1, <1>3, <2>4
        <3>2. Current(p, g)
            BY <3>1 DEF CurrentInv
        <3>3. Stores(g)' = Stores(g)
            BY <1>1, <3>1 DEF Stores, HasToken
        <3>4. p = q => ~Holds(st'[p], g)
            BY <2>2, <2>4 DEF Holds
        <3>5. p = q => ~Stores(g) \/ kv[home[g]].cred.gen = live[g]
            BY <1>1, <3>2 DEF Current
        <3>6. CASE p = q
            BY <1>1, <3>1, <3>3, <3>4, <3>5, <3>6 DEF Current
        <3>7. CASE p # q
            <4>1. st'[p] = st[p]
                BY <2>1, <3>7
            <4>. QED
                BY <1>1, <3>1, <3>2, <3>3, <4>1 DEF Current
        <3>. QED
            BY <3>6, <3>7
    <2>. QED
        BY <2>3, <2>4
<1>4. ASSUME Step(q, Ended("failed")), home' = home
      PROVE  Current(p, g)'
    <2>1. st'[q] = Ended("failed") /\ \A r \in Procs \ {q} : st'[r] = st[r]
        BY <1>4, OneMoves
    <2>2. Ended("failed").held = NoCred
        BY DEF Ended, Idle
    <2>3. Current(p, g)
        BY <1>4 DEF CurrentInv
    <2>4. Stores(g)' = Stores(g)
        BY <1>1, <1>4 DEF Stores, HasToken
    <2>5. CASE p = q
        <3>1. ~Holds(st'[p], g)
            BY <2>1, <2>2, <2>5, TokenFacts DEF Holds
        <3>2. ~Stores(g) \/ kv[home[g]].cred.gen = live[g]
            BY <1>1, <2>3, <2>5 DEF Current
        <3>. QED
            BY <1>1, <1>4, <2>4, <3>1, <3>2 DEF Current
    <2>6. CASE p # q
        <3>1. st'[p] = st[p]
            BY <2>1, <2>6
        <3>. QED
            BY <1>1, <1>4, <2>3, <2>4, <3>1 DEF Current
    <2>. QED
        BY <2>5, <2>6
<1>. QED
    BY <1>3, <1>4 DEF Authorize

\* A refresh makes its answer the newest generation, and whoever holds the grant
\* is about to store it; an answer that is lost loses the grant.
LEMMA RefreshKeepsCurrent ==
    ASSUME IInv, CommandInv, PutsCarryNoToken, CurrentInv, [Next]_vars, NEW q \in Procs, Refresh(q),
           NEW p \in Procs, NEW g \in Grants \ lost', Reach(home[g]) = {p}
    PROVE  Current(p, g)'
<1>. DEFINE h == st[q].held.grant
            n == st[q].held.gen
<1>1. /\ st[q] \in Local /\ st[q].pc = "loaded" /\ st[q].held.kind = "token"
      /\ kv' = kv /\ home' = home /\ live \in [Grants -> Nat] /\ lost \subseteq lost'
      /\ h \in Grants /\ n \in Nat
    BY TokenFacts DEF Refresh, IInv, TypeOK, StoreShape, Local
<1>2. Holds(st[q], h) /\ q \in Reach(home[h])
    BY <1>1, HoldersReach DEF Holds
<1>3. Current(p, g) /\ Stores(g)' = Stores(g)
    BY <1>1 DEF CurrentInv, Stores, HasToken
<1>4. ASSUME NEW local, Step(q, local), g # h, live'[g] = live[g], local.held.kind = "token" => local.held.grant = h
      PROVE  Current(p, g)'
    <2>1. CASE p = q
        <3>1. ~Holds(st[p], g) /\ ~Holds(st'[p], g)
            BY <1>2, <1>4, <2>1, OneMoves DEF Holds
        <3>. QED
            BY <1>1, <1>3, <1>4, <3>1 DEF Current
    <2>2. CASE p # q
        <3>1. home'[g] = home[g] /\ kv' = kv /\ Current(p, g)
            BY <1>1, <1>3
        <3>. HIDE DEF h, n
        <3>. QED
            BY <1>4, <2>2, <3>1, OthersKeepCurrent
    <2>. QED
        BY <2>1, <2>2
<1>5. CASE n = live[h] /\ Step(q, [st[q] EXCEPT !.pc = "saveRead", !.held = Token(h, n + 1)])
           /\ live' = [live EXCEPT ![h] = n + 1]
    <2>1. st'[q] = [st[q] EXCEPT !.pc = "saveRead", !.held = Token(h, n + 1)]
        BY <1>5, OneMoves
    <2>2. st'[q].held = [kind |-> "token", grant |-> h, gen |-> n + 1] /\ st'[q].pc = "saveRead"
        BY <1>1, <2>1 DEF Local, Token
    <2>3. CASE g = h
        <3>1. p = q
            BY <1>2, <2>3
        <3>2. live'[g] = n + 1
            BY <1>1, <1>5, <2>3
        <3>. HIDE DEF n, h
        <3>. QED
            BY <1>1, <1>3, <2>2, <2>3, <3>1, <3>2 DEF Current, Holds
    <2>4. CASE g # h
        <3>1. live'[g] = live[g]
            BY <1>1, <1>5, <2>4
        <3>2. Step(q, st'[q])
            BY <1>5, <2>1
        <3>. QED
            BY <1>4, <2>2, <2>4, <3>1, <3>2
    <2>. QED
        BY <2>3, <2>4
<1>6. CASE n = live[h] /\ Step(q, [st[q] EXCEPT !.pc = "serving"]) /\ lost' = lost \cup {h}
           /\ live' = [live EXCEPT ![h] = n + 1]
    <2>1. st'[q] = [st[q] EXCEPT !.pc = "serving"]
        BY <1>6, OneMoves
    <2>2. g # h /\ live'[g] = live[g]
        BY <1>1, <1>6
    <2>3. Step(q, st'[q]) /\ st'[q].held = st[q].held
        BY <1>1, <1>6, <2>1 DEF Local
    <2>. QED
        BY <1>4, <2>2, <2>3
<1>7. CASE n # live[h] /\ Step(q, [st[q] EXCEPT !.pc = "serving"]) /\ live' = live
    <2>1. st'[q] = [st[q] EXCEPT !.pc = "serving"] /\ \A r \in Procs \ {q} : st'[r] = st[r]
        BY <1>7, OneMoves
    <2>2. st'[q].held = st[q].held /\ st'[q].pc = "serving"
        BY <1>1, <2>1 DEF Local
    <2>3. Holds(st'[p], g) => Holds(st[p], g) /\ st'[p].held = st[p].held
        BY <2>1, <2>2 DEF Holds
    <2>4. Stores(g) => \/ kv[home[g]].cred.gen = live[g]
                       \/ Holds(st'[p], g) /\ st'[p].pc \in {"saveRead", "saveWrite"}
        <3>1. CASE p = q
            BY <1>1, <1>3, <3>1 DEF Current
        <3>2. CASE p # q
            BY <1>3, <2>1, <3>2 DEF Current
        <3>. QED
            BY <3>1, <3>2
    <2>. QED
        BY <1>1, <1>3, <1>7, <2>3, <2>4 DEF Current
<1>. QED
    BY <1>5, <1>6, <1>7 DEF Refresh

\* CurrentInv is preserved.
LEMMA CurrentStep ==
    ASSUME IInv, CommandInv, PutsCarryNoToken, CurrentInv, [Next]_vars
    PROVE  CurrentInv'
<1>1. CASE UNCHANGED vars
    BY <1>1 DEF vars, CurrentInv, Current, Stores, Holds, HasToken
<1>2. ASSUME NEW q \in Procs,
             \/ \E c \in CommandNames : Begin(q, c)
             \/ LoadPrimary(q) \/ LoadShared(q)
             \/ SaveRead(q) \/ SaveWrite(q)
             \/ ClearRead(q) \/ ClearWrite(q) \/ CheckShared(q)
             \/ Authorize(q) \/ NeedToken(q) \/ Leave(q) \/ UseToken(q) \/ Refresh(q) \/ Discard(q)
             \/ PutRead(q) \/ PutWrite(q)
             \/ Crash(q)
      PROVE  CurrentInv'
    <2>1. /\ lost \subseteq lost'
          /\ Authorize(q) \/ home' = home
          /\ Refresh(q) \/ (live' = live /\ revoked' = revoked)
          /\ kv' = kv \/ SaveWrite(q) \/ ClearWrite(q) \/ PutWrite(q)
          /\ \E local : Step(q, local)
        BY <1>2, WhatMoves
    <2>2. ASSUME NEW g \in Grants, home'[g] = NoPath PROVE live'[g] = 0
        <3>1. home[g] = NoPath
            <4>1. CASE Authorize(q)
                BY <2>2, <4>1, PathAssumption DEF Authorize, IInv, TypeOK
            <4>. QED
                BY <2>1, <2>2, <4>1
        <3>2. CASE Refresh(q)
            <4>1. Holds(st[q], st[q].held.grant) /\ st[q].held.grant \in Grants
                BY <3>2, TokenFacts DEF Refresh, Holds, IInv, TypeOK, StoreShape, Local
            <4>2. st[q].held.grant # g
                BY <3>1, <4>1, HoldersReach, PathAssumption
            <4>3. live'[g] = live[g]
                BY <3>2, <4>2 DEF Refresh, IInv, TypeOK
            <4>. QED
                BY <3>1, <4>3 DEF CurrentInv
        <3>. QED
            BY <2>1, <3>1, <3>2 DEF CurrentInv
    <2>3. ASSUME NEW p \in Procs, NEW g \in Grants \ lost', Reach(home'[g]) = {p} PROVE Current(p, g)'
        <3>1. g \in Grants \ lost
            BY <2>1, <2>3
        <3>2. CASE Authorize(q)
            BY <2>3, <3>1, <3>2, MintKeepsCurrent
        <3>3. CASE ~Authorize(q) /\ Refresh(q)
            BY <2>1, <2>3, <3>3, RefreshKeepsCurrent
        <3>4. CASE ~Authorize(q) /\ ~Refresh(q)
            <4>1. home' = home /\ live' = live /\ Current(p, g)
                BY <2>1, <2>3, <3>1, <3>4 DEF CurrentInv
            <4>2. CASE p # q
                <5>1. PICK local : Step(q, local)
                    BY <2>1
                <5>. QED
                    BY <2>1, <2>3, <4>1, <4>2, <5>1, OthersKeepCurrent
            <4>3. CASE p = q /\ Discard(q)
                BY <4>1, <4>3, DiscardKeepsCurrent
            <4>4. CASE p = q /\ ~Discard(q)
                BY <1>2, <2>1, <2>3, <3>4, <4>1, <4>4, ItsOwnKeepsCurrent
            <4>. QED
                BY <4>2, <4>3, <4>4
        <3>. QED
            BY <3>2, <3>3, <3>4
    <2>. QED
        BY <2>2, <2>3, <2>1 DEF CurrentInv, Reach
<1>. QED
    BY <1>1, <1>2 DEF Next

\* Nothing is stale at the start.
LEMMA CurrentInit ==
    ASSUME Init
    PROVE  CurrentInv
<1>1. \A a \in Paths : HasToken(kv[a]) => kv[a].cred.gen = 0
    BY SeedAssumption DEF Init
<1>2. \A p \in Procs : st[p].held = NoCred
    BY DEF Init, Idle
<1>3. \A p \in Procs, g \in Grants : ~Holds(st[p], g)
    BY <1>2, TokenFacts DEF Holds
<1>4. \A g \in Grants : live[g] = 0
    BY DEF Init
<1>. QED
    BY <1>1, <1>3, <1>4 DEF CurrentInv, Current, Stores

\* What the server revokes had a home.
RevokedInv == OwnGrantNotReplayed /\ \A g \in revoked : home[g] # NoPath

\* RevokedInv is preserved: whoever presents an old generation of a grant only it
\* can reach would hold it at the newest, had none been lost.
LEMMA RevokedStep ==
    ASSUME IInv, CommandInv, CurrentInv, RevokedInv, [Next]_vars
    PROVE  RevokedInv'
<1>1. CASE UNCHANGED vars
    BY <1>1 DEF vars, RevokedInv, OwnGrantNotReplayed
<1>2. ASSUME NEW q \in Procs,
             \/ \E c \in CommandNames : Begin(q, c)
             \/ LoadPrimary(q) \/ LoadShared(q)
             \/ SaveRead(q) \/ SaveWrite(q)
             \/ ClearRead(q) \/ ClearWrite(q) \/ CheckShared(q)
             \/ Authorize(q) \/ NeedToken(q) \/ Leave(q) \/ UseToken(q) \/ Refresh(q) \/ Discard(q)
             \/ PutRead(q) \/ PutWrite(q)
             \/ Crash(q)
      PROVE  RevokedInv'
    <2>1. /\ lost \subseteq lost'
          /\ Authorize(q) \/ home' = home
          /\ Refresh(q) \/ (live' = live /\ revoked' = revoked)
        BY <1>2, WhatMoves
    <2>2. \A g \in revoked : home'[g] = home[g]
        <3>1. CASE Authorize(q)
            BY <3>1 DEF Authorize, RevokedInv, IInv, TypeOK
        <3>. QED
            BY <2>1, <3>1
    <2>3. CASE Refresh(q)
        <3>. DEFINE h == st[q].held.grant
        <3>1. h \in Grants /\ Holds(st[q], h) /\ home' = home
            BY <2>3, TokenFacts DEF Refresh, Holds, IInv, TypeOK, StoreShape, Local
        <3>2. home[h] # NoPath /\ q \in Reach(home[h])
            BY <3>1, HoldersReach, PathAssumption
        <3>3. revoked' = revoked \/ (revoked' = revoked \cup {h} /\ st[q].held.gen # live[h])
            BY <2>3 DEF Refresh
        <3>4. ASSUME revoked' = revoked \cup {h}, st[q].held.gen # live[h], NEW p \in Procs, Reach(home[h]) = {p}
              PROVE  h \in lost
            <4>1. p = q
                BY <3>2, <3>4
            <4>. QED
                BY <3>1, <3>4, <4>1 DEF CurrentInv, Current
        <3>. HIDE DEF h
        <3>. QED
            BY <2>1, <3>1, <3>2, <3>3, <3>4 DEF RevokedInv, OwnGrantNotReplayed, Reach
    <2>4. CASE ~Refresh(q)
        BY <2>1, <2>2, <2>4 DEF RevokedInv, OwnGrantNotReplayed, Reach
    <2>. QED
        BY <2>3, <2>4
<1>. QED
    BY <1>1, <1>2 DEF Next

(* A machine whose path no other process reaches never presents a refresh token the
   server has rotated away, unless one of its refreshes was never stored: reads
   that fail, writes whose answer is lost, discards, logouts and crashes elsewhere
   do not bring an older generation back (cred_path, save, load). *)
THEOREM OwnGrantsSafe ==
    ASSUME ForgetsCorrupt, PutsCarryNoToken
    PROVE  Spec => []OwnGrantNotReplayed
<1>1. Init => CurrentInv /\ RevokedInv
    <2>1. Init => RevokedInv
        BY DEF Init, RevokedInv, OwnGrantNotReplayed
    <2>. QED
        BY <2>1, CurrentInit
<1>2. IInv /\ CommandInv /\ CurrentInv /\ RevokedInv /\ [Next]_vars => (CurrentInv /\ RevokedInv)'
    BY CurrentStep, RevokedStep
<1>3. RevokedInv => OwnGrantNotReplayed
    BY DEF RevokedInv
<1>. QED
    BY <1>1, <1>2, <1>3, CommandInductive, PTL DEF Spec

==============================================================================
