---------------------------- MODULE MCMcpSessions ----------------------------
(* One trg of three that speak MCP: a proxy, a recording, an eval run with    *)
(* mocks; or the calls two of them make of a secrets backend. They share      *)
(* nothing but the modules.                                                   *)
EXTENDS ProxyBridge, Recorder, MockRun, Backends

CONSTANTS Sessions, entry, odd, account, item, stored, other

VARIABLE session

StringValue(t) == [type |-> "string", text |-> t]
NumberValue(t) == [type |-> "number", text |-> t]
ObjectValue == [type |-> "object", text |-> ""]
K(k) == <<k>>

MCPatterns == ("/^x/" :> {"x", "xx"})

\* {"a": {"b": "x", "n": null}, "a.b": 1} and {"c": null}
NestedInput == (<<K("a")>> :> ObjectValue) @@ (<<K("a"), K("b")>> :> StringValue("x"))
               @@ (<<K("a"), K("n")>> :> Null)
               @@ (<<<<"a", "b">>>> :> NumberValue("1"))
NullInput == (<<K("c")>> :> Null)
MCRecordedCalls == <<[tool |-> "t1", input |-> NestedInput], [tool |-> "t2", input |-> NullInput]>>
MCRealAnswers ==
    {[text |-> <<<<"text", "x">>>>, isError |-> FALSE],
     [text |-> <<<<"file", "f">>>>, isError |-> TRUE],
     [text |-> <<<<"file", "f">>>>, isError |-> FALSE],
     [text |-> <<<<"text", "x">>, <<"input", <<"a", "b">>>>>>, isError |-> TRUE]}

\* The suite expects `title` to be a string; the case's own file, of one server,
\* expects it to begin with x.
MockFile(raw) == [expect |-> (<<"title">> :> raw), isError |-> FALSE, error |-> <<>>,
                  body |-> <<<<"text", "made ">>, <<"input", <<"title">>>>>>]
MCSuiteMocks == (<<"s1", "t">> :> MockFile("string")) @@ (<<"s2", "t">> :> MockFile("string"))
MCCaseMocks == (<<"s1", "t">> :> MockFile("/^x/"))
MCCalls == {[server |-> s, tool |-> "t", input |-> (<<K("title")>> :> StringValue("y"))] :
               s \in {"s1", "s2"}}

MCKindOf == entry :> "openbao" @@ odd :> "openbao" @@ account :> "keychain" @@ item :> "onepassword"

Plain(what) == [is |-> what, to |-> "addr"]
Bao == Plain("bao")
Keeping(to) == [is |-> "kept", to |-> to]
At(addr, peer) == [h \in Hosts |-> CASE h = "addr" -> addr [] h = "peer" -> peer [] OTHER -> Plain("front")]

Holding(what) == [e \in {entry, odd, account, item} |-> what]
ServedBy(addr, peer) ==
    [at |-> At(addr, peer), mount |-> TRUE, store |-> Holding(stored), used |-> {entry}, by |-> {"c1"},
     upset |-> {"bao", "login"}]

\* One caller and whatever may stand at `addr`, a loop of redirects and a mount that
\* is not there among them; a server name that no URL can spell; the tools; and two
\* callers of one entry, while nothing else changes.
MCSites ==
    {ServedBy(addr, Bao) : addr \in {Keeping("peer"), [is |-> "rewritten", to |-> "peer"], Keeping("other"),
                                     Plain("front"), Plain("page")}} \cup
    {ServedBy(Keeping("peer"), Keeping("peer")), [ServedBy(Bao, Bao) EXCEPT !.mount = FALSE, !.used = {entry, odd}]} \cup
    {[ServedBy(Bao, Bao) EXCEPT !.store = Holding(Garbled)]} \cup
    {[ServedBy(Bao, Bao) EXCEPT !.store = Holding(Garbled), !.used = {account, item}, !.upset = {"tools"}],
     [ServedBy(Bao, Bao) EXCEPT !.used = {item}, !.upset = {"tools"}]} \cup
    {[ServedBy(Bao, Bao) EXCEPT !.used = {e}, !.by = {"c1", "c2"}, !.upset = {}] : e \in {entry, account}}

MCInit ==
    /\ session \in Sessions
    /\ BridgeInit(session = "proxy")
    /\ RecorderInit(session = "record")
    /\ MockRunInit(session = "mocked")
    /\ BackendsInit(IF session = "backend" THEN Sites ELSE {ServedBy(Bao, Bao)})

MCNext ==
    /\ \/ BridgeNext /\ UNCHANGED <<recVars, mockVars, backendVars>>
       \/ RecorderNext /\ UNCHANGED <<flowVars, bridgeVars, mockVars, backendVars>>
       \/ MockRunNext /\ UNCHANGED <<flowVars, bridgeVars, recVars, backendVars>>
       \/ /\ session = "backend" /\ BackendsNext
          /\ UNCHANGED <<flowVars, bridgeVars, recVars, mockVars>>
    /\ UNCHANGED session

MCSpec == /\ MCInit
          /\ [][MCNext]_<<session, flowVars, bridgeVars, recVars, mockVars, backendVars>>
          /\ BridgeFairness /\ RecorderFairness /\ BackendFairness

(* No wait that trg limits is endless: a sign-in ends whatever browsers send  *)
(* or fail to send, a recording whatever its server writes, a proxy whose     *)
(* host closed stdin whatever its worker does, and a call of OpenBao or `op`  *)
(* whatever becomes of them. A session is held for ever only by one of the    *)
(* waits that trg sets no limit: FlowWaits, RecorderWaits, ProxyWaits.        *)
WaitsAreBounded == FlowComesToAnEnd /\ RecordingEnds /\ HostEofEndsProxy /\ CallsEnd
==============================================================================
