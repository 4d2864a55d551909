--------------------------- MODULE SessionsProofs ----------------------------
(* Proofs about the sessions with an MCP server: a proxy ends the span of     *)
(* every request once and the pages of its sign-in tell the truth, a recording *)
(* leaves no server behind and mocks that replay it, and what is read back of *)
(* a mocked run is the attempt that was kept, for any requests, messages,     *)
(* inputs, servers, calls, retries and torn writes.                           *)
EXTENDS ProxyBridge, Recorder, MockRun, WellFoundedInduction, TLAPS

------------------------------------------------------------------------------
(* The sign-in *)

FlowPCs == {"idle", "bind", "register", "open", "head", "recv", "exchange", "credentials", "done"}

(* A page says "Authorized" only once the redirect has decided the wait, and a
   failure only as the flow ends with it. *)
FlowInv ==
    /\ flow \in [pc : FlowPCs, opened : BOOLEAN, got : {"nothing"} \cup Requests,
                 result : {"none", "not_a_terminal", "bind_failed", "oauth", "timeout",
                           "browser_open_failed", "state_mismatch", "provider_error", "granted"}]
    /\ inbox \in Seq(Requests)
    /\ late \in BOOLEAN
    /\ pages \subseteq {"authorized", "failed"}
    /\ "authorized" \in pages =>
          \/ flow.pc \in {"exchange", "credentials"}
          \/ flow.pc = "done" /\ flow.result \in {"granted", "oauth"}
    /\ "failed" \in pages => flow.pc = "done" /\ flow.result = "provider_error"
    /\ flow.pc \in {"exchange", "credentials"} \/ flow.result = "granted" => "authorized" \in pages
    /\ flow.result = "none" <=> flow.pc # "done"

\* What the invariant of the flow says of its pages.
LEMMA PagesOfFlow == FlowInv => PagesTellTheTruth
BY DEF FlowInv, PagesTellTheTruth, FlowPCs

\* No flow has begun at the start.
LEMMA FlowStarts == FlowInit => FlowInv
<1>1. SUFFICES ASSUME FlowInit PROVE FlowInv
    OBVIOUS
<1>2. /\ flow = [pc |-> "idle", opened |-> TRUE, got |-> "nothing", result |-> "none"]
      /\ inbox = <<>> /\ late = FALSE /\ pages = {}
    BY <1>1 DEF FlowInit, NoFlow
<1>3. inbox \in Seq(Requests)
    BY <1>2
<1>. QED
    BY <1>2, <1>3 DEF FlowInv, FlowPCs

\* Beginning a flow shows nobody a page.
LEMMA StartKeepsFlow ==
    ASSUME FlowInv, NEW i \in BOOLEAN, NEW e \in BOOLEAN, StartFlow(i, e)
    PROVE  FlowInv'
BY ZenonT(60) DEF FlowInv, StartFlow, FlowEnds, FlowPCs

\* Whatever the flow, a browser or the clock does.
LEMMA FlowKeeps ==
    ASSUME FlowInv, FlowNext
    PROVE  FlowInv'
<1>1. CASE Bind \/ RegisterClient \/ OpenBrowser
    BY <1>1, ZenonT(60) DEF FlowInv, Bind, RegisterClient, OpenBrowser, FlowEnds, FlowPCs
<1>2. CASE WaitHead \/ ReceiveNothing
    BY <1>2, ZenonT(60) DEF FlowInv, WaitHead, ReceiveNothing, FlowEnds, TimeoutResult, Expired, FlowPCs
<1>3. CASE Receive
    <2>1. inbox # <<>> /\ inbox \in Seq(Requests) /\ flow.pc = "recv" /\ late' = late
        BY <1>3 DEF Receive, FlowInv
    <2>2. Head(inbox) \in Requests /\ inbox' \in Seq(Requests)
        BY <1>3, <2>1 DEF Receive
    <2>3. pages = {} /\ flow.result = "none"
        BY <2>1 DEF FlowInv
    <2>4. CASE Head(inbox) \in {"stray", "partial"}
        <3>1. pages' = {} /\ flow' = [flow EXCEPT !.pc = "head"]
            BY <1>3, <2>3, <2>4 DEF Receive, PageFor, Decides
        <3>. QED
            BY <2>1, <2>2, <2>3, <3>1 DEF FlowInv, FlowPCs
    <2>5. CASE Head(inbox) = "match"
        <3>1. pages' = {"authorized"} /\ flow' = [flow EXCEPT !.pc = "exchange", !.got = "match"]
            BY <1>3, <2>3, <2>5 DEF Receive, PageFor, Decides
        <3>. QED
            BY <2>1, <2>2, <2>3, <3>1 DEF FlowInv, FlowPCs, Requests
    <2>6. CASE Head(inbox) = "mismatch"
        <3>1. pages' = {} /\ flow' = [flow EXCEPT !.pc = "done", !.got = "mismatch", !.result = "state_mismatch"]
            BY <1>3, <2>3, <2>6 DEF Receive, PageFor, Decides
        <3>. QED
            BY <2>1, <2>2, <2>3, <3>1 DEF FlowInv, FlowPCs, Requests
    <2>7. CASE Head(inbox) = "provider"
        <3>1. pages' = {"failed"} /\ flow' = [flow EXCEPT !.pc = "done", !.got = "provider", !.result = "provider_error"]
            BY <1>3, <2>3, <2>7 DEF Receive, PageFor, Decides
        <3>. QED
            BY <2>1, <2>2, <2>3, <3>1 DEF FlowInv, FlowPCs, Requests
    <2>. QED
        BY <2>2, <2>4, <2>5, <2>6, <2>7 DEF Requests
<1>4. CASE ExchangeCode \/ GetCredentials
    BY <1>4 DEF FlowInv, ExchangeCode, GetCredentials, FlowEnds, FlowPCs
<1>5. CASE Arrive
    <2>1. PICK r \in Requests : inbox' = Append(inbox, r)
        BY <1>5 DEF Arrive
    <2>2. inbox' \in Seq(Requests)
        BY <2>1 DEF FlowInv
    <2>. QED
        BY <1>5, <2>2 DEF Arrive, FlowInv
<1>6. CASE Deadline
    BY <1>6 DEF Deadline, FlowInv
<1>. QED
    BY <1>1, <1>2, <1>3, <1>4, <1>5, <1>6 DEF FlowNext, FlowStep

------------------------------------------------------------------------------
(* The pump *)

FromHosts == [kind : {"other"}] \cup [kind : {"request"}, id : RequestIds]
FromRemotes == [kind : {"other"}] \cup [kind : {"request", "answer"}, id : RequestIds]

ProxyPCs == {"off", "startup", "ensure", "sign_in", "client", "connect", "refuse",
             "refusing", "bridge", "forward", "deliver", "close", "ended"}

(* How a span can have ended so far. *)
NoEnd == <<>>
Answered == <<"answered">>
Refused == <<"refused">>
Abandoned == <<"abandoned">>
Ends == {NoEnd, Answered, Refused, Abandoned}

\* A span ends in one of three ways, and once.
LEMMA EndFacts ==
    /\ NoEnd # Answered /\ NoEnd # Refused /\ NoEnd # Abandoned
    /\ Answered # Refused /\ Answered # Abandoned
    /\ Append(NoEnd, "answered") = Answered /\ Append(NoEnd, "refused") = Refused
    /\ Append(NoEnd, "abandoned") = Abandoned
    /\ \A x \in Ends : Len(x) <= 1
<1>1. NoEnd # Answered /\ NoEnd # Refused /\ NoEnd # Abandoned
    <2>1. Len(NoEnd) = 0 /\ Len(Answered) = 1 /\ Len(Refused) = 1 /\ Len(Abandoned) = 1
        BY DEF NoEnd, Answered, Refused, Abandoned
    <2>. QED
        BY <2>1
<1>2. Answered # Refused /\ Answered # Abandoned
    <2>1. Answered[1] = "answered" /\ Refused[1] = "refused" /\ Abandoned[1] = "abandoned"
        BY DEF Answered, Refused, Abandoned
    <2>. QED
        BY <2>1
<1>3. /\ Append(NoEnd, "answered") = Answered /\ Append(NoEnd, "refused") = Refused
      /\ Append(NoEnd, "abandoned") = Abandoned
    BY DEF NoEnd, Answered, Refused, Abandoned
<1>4. ASSUME NEW x \in Ends PROVE Len(x) <= 1
    <2>1. Len(NoEnd) = 0 /\ Len(Answered) = 1 /\ Len(Refused) = 1 /\ Len(Abandoned) = 1
        BY DEF NoEnd, Answered, Refused, Abandoned
    <2>2. \A n \in {0, 1} : n <= 1
        OBVIOUS
    <2>3. Len(x) \in {0, 1}
        BY <1>4, <2>1 DEF Ends
    <2>. QED
        BY <2>2, <2>3, Zenon
<1>. QED
    BY <1>1, <1>2, <1>3, <1>4

\* A request the host has sent is read once, if at all.
Waiting ==
    /\ stdin \in Seq(FromHosts) /\ asked \subseteq RequestIds
    /\ \A i \in 1..Len(stdin) : stdin[i].kind = "request" => stdin[i].id \in asked
    /\ \A i, j \in 1..Len(stdin) : stdin[i].kind = "request" /\ stdin[i] = stdin[j] => i = j

(* Every span is where its request is: open while the proxy works on it, ended by
   an answer that was read, by a refusal, or with the proxy. *)
Span(id) ==
    /\ id \in inFlight => id \in Read /\ ends[id] = NoEnd
    /\ id \in Read /\ ends[id] = NoEnd => id \in inFlight
    /\ ends[id] # NoEnd => id \in Read
    /\ id \in told => ends[id] = Answered
    /\ ends[id] = Answered => id \in told
    /\ proxy.pc \in {"bridge", "forward", "deliver", "close"} => ends[id] \in {NoEnd, Answered}
    /\ proxy.pc \in {"startup", "ensure", "sign_in", "client", "connect"} => ends[id] = NoEnd

BridgeInv ==
    /\ Waiting
    /\ proxy.pc \in ProxyPCs /\ proxy.stdinTty \in BOOLEAN /\ proxy.stderrTty \in BOOLEAN
    /\ proxy = [pc |-> proxy.pc, exit |-> proxy.exit, stdinTty |-> proxy.stdinTty,
                stderrTty |-> proxy.stderrTty, worker |-> proxy.worker, grace |-> proxy.grace]
    /\ outbox \in Seq(FromRemotes)
    /\ inFlight \subseteq RequestIds
    /\ ends \in [RequestIds -> Ends]
    /\ proxy.pc \notin {"bridge", "forward", "deliver", "close"} => inFlight = {}
    /\ \A id \in RequestIds : Span(id)

\* What the invariant of the pump says of its spans.
LEMMA EndsOfBridge == BridgeInv => RequestsEndOnce
<1>1. SUFFICES ASSUME BridgeInv, NEW id \in RequestIds
               PROVE  /\ (id \in inFlight) = (id \in Read /\ ends[id] = NoEnd)
                      /\ Len(ends[id]) <= 1
                      /\ (ends[id] = Answered) = (id \in told)
                      /\ proxy.pc = "ended" => id \notin inFlight
    BY DEF RequestsEndOnce, NoEnd, Answered
<1>2. Span(id) /\ ends[id] \in Ends
    BY <1>1 DEF BridgeInv
<1>4. Len(ends[id]) <= 1
    BY <1>2, EndFacts
<1>5. proxy.pc = "ended" => id \notin inFlight
    BY <1>1 DEF BridgeInv
<1>. QED
    BY <1>2, <1>4, <1>5 DEF Span

\* Taking the head of stdin reads its request, which was not read before.
LEMMA Taking ==
    ASSUME Waiting, stdin # <<>>, stdin' = Tail(stdin), asked' = asked
    PROVE  /\ Waiting' /\ Head(stdin) \in FromHosts
           /\ Head(stdin).kind # "request" => Read' = Read
           /\ Head(stdin).kind = "request" =>
                 /\ Head(stdin).id \in RequestIds /\ Head(stdin).id \notin Read
                 /\ Read' = Read \cup {Head(stdin).id}
<1>. DEFINE h == Head(stdin)
<1>1. /\ stdin \in Seq(FromHosts) /\ Len(stdin) \in Nat /\ Len(stdin) > 0
      /\ h = stdin[1] /\ h \in FromHosts
      /\ stdin' \in Seq(FromHosts) /\ Len(stdin') = Len(stdin) - 1
      /\ \A i \in 1..Len(stdin') : stdin'[i] = stdin[i + 1] /\ i + 1 \in 1..Len(stdin)
    BY DEF Waiting
<1>2. \A i \in 1..Len(stdin) : stdin[i] = h \/ (i - 1 \in 1..Len(stdin') /\ stdin'[i - 1] = stdin[i])
    BY <1>1
<1>3. Waiting'
    BY <1>1 DEF Waiting
<1>4. \A id \in RequestIds : Req(id).kind = "request" /\ Req(id).id = id
    BY DEF Req
<1>5. ASSUME NEW id \in RequestIds PROVE id \in Read' <=> id \in Read \/ (id \in asked /\ h = Req(id))
    <2>1. CASE h = Req(id)
        <3>1. \A i \in 1..Len(stdin') : stdin'[i] # Req(id)
            <4>1. SUFFICES ASSUME NEW i \in 1..Len(stdin'), stdin'[i] = Req(id) PROVE FALSE
                OBVIOUS
            <4>2. stdin[i + 1] = stdin[1] /\ stdin[1].kind = "request" /\ i + 1 \in 1..Len(stdin) /\ 1 \in 1..Len(stdin)
                BY <1>1, <1>4, <2>1, <4>1
            <4>3. i + 1 = 1
                BY <4>2 DEF Waiting
            <4>. QED
                BY <4>1, <4>3
        <3>. QED
            BY <2>1, <3>1 DEF Read
    <2>2. CASE h # Req(id)
        <3>1. (\A i \in 1..Len(stdin) : stdin[i] # Req(id)) <=> (\A i \in 1..Len(stdin') : stdin'[i] # Req(id))
            BY <1>1, <1>2, <2>2
        <3>. QED
            BY <2>2, <3>1 DEF Read
    <2>. QED
        BY <2>1, <2>2
<1>6. Read \subseteq RequestIds /\ Read' \subseteq RequestIds
    BY DEF Read, Waiting
<1>7. CASE h.kind # "request"
    <2>1. \A id \in RequestIds : h # Req(id)
        BY <1>4, <1>7
    <2>2. Read' = Read
        BY <1>5, <1>6, <2>1
    <2>. QED
        BY <1>1, <1>3, <1>7, <2>2
<1>8. CASE h.kind = "request"
    <2>1. h.id \in RequestIds /\ h = Req(h.id) /\ h.id \in asked
        BY <1>1, <1>8 DEF FromHosts, Req, Waiting
    <2>2. \A id \in RequestIds : h = Req(id) <=> id = h.id
        BY <1>4, <2>1
    <2>3. h.id \notin Read
        BY <1>1, <2>1 DEF Read
    <2>4. Read' = Read \cup {h.id}
        BY <1>5, <1>6, <2>1, <2>2
    <2>. HIDE DEF h
    <2>. QED
        BY <1>1, <1>3, <1>8, <2>1, <2>3, <2>4 DEF h
<1>. QED
    BY <1>7, <1>8

\* Sending leaves what was read as it is, as long as no id is used twice.
LEMMA Sending ==
    ASSUME Waiting, HostSends
    PROVE  Waiting' /\ Read' = Read
<1>1. PICK m \in FromHosts :
        /\ stdin' = Append(stdin, m)
        /\ \/ m.kind = "other" /\ asked' = asked
           \/ m.kind = "request" /\ m = Req(m.id) /\ m.id \in RequestIds \ asked /\ asked' = asked \cup {m.id}
    <2>1. Other \in FromHosts /\ Other.kind = "other"
        BY DEF Other, FromHosts
    <2>2. \A id \in RequestIds : Req(id) \in FromHosts /\ Req(id).kind = "request" /\ Req(id).id = id
        BY DEF Req, FromHosts
    <2>. QED
        BY <2>1, <2>2 DEF HostSends
<1>2. /\ stdin \in Seq(FromHosts) /\ Len(stdin) \in Nat
      /\ stdin' \in Seq(FromHosts) /\ Len(stdin') = Len(stdin) + 1
      /\ \A i \in 1..Len(stdin) : stdin'[i] = stdin[i] /\ i \in 1..Len(stdin')
      /\ stdin'[Len(stdin) + 1] = m
    BY <1>1 DEF Waiting
<1>3. \A i \in 1..Len(stdin') : i \in 1..Len(stdin) \/ (i = Len(stdin) + 1 /\ stdin'[i] = m)
    BY <1>2
<1>4. \A i \in 1..Len(stdin) : stdin[i].kind = "request" => stdin[i].id \in asked
    BY DEF Waiting
<1>5. asked' \subseteq RequestIds /\ asked \subseteq asked' /\ (m.kind = "request" => m.id \in asked' /\ m.id \notin asked)
    BY <1>1 DEF Waiting
<1>6. \A i \in 1..Len(stdin') : stdin'[i].kind = "request" => stdin'[i].id \in asked'
    BY <1>2, <1>3, <1>4, <1>5
<1>7. \A i, j \in 1..Len(stdin') : stdin'[i].kind = "request" /\ stdin'[i] = stdin'[j] => i = j
    <2>1. SUFFICES ASSUME NEW i \in 1..Len(stdin'), NEW j \in 1..Len(stdin'), stdin'[i].kind = "request",
                          stdin'[i] = stdin'[j]
                   PROVE  i = j
        OBVIOUS
    <2>2. CASE i \in 1..Len(stdin) /\ j \in 1..Len(stdin)
        BY <1>2, <2>1, <2>2 DEF Waiting
    <2>3. CASE i = Len(stdin) + 1 /\ j \in 1..Len(stdin)
        BY <1>2, <1>4, <1>5, <2>1, <2>3
    <2>4. CASE i \in 1..Len(stdin) /\ j = Len(stdin) + 1
        BY <1>2, <1>4, <1>5, <2>1, <2>4
    <2>5. CASE i = Len(stdin) + 1 /\ j = Len(stdin) + 1
        BY <2>5
    <2>. QED
        BY <1>3, <2>2, <2>3, <2>4, <2>5
<1>8. ASSUME NEW id \in RequestIds PROVE id \in Read' <=> id \in Read
    <2>1. Req(id).kind = "request" /\ Req(id).id = id
        BY DEF Req
    <2>2. CASE m = Req(id)
        <3>1. id \notin asked /\ Len(stdin) + 1 \in 1..Len(stdin')
            BY <1>2, <1>5, <2>1, <2>2
        <3>. QED
            BY <1>2, <2>2, <3>1 DEF Read
    <2>3. CASE m # Req(id)
        <3>1. id \in asked' <=> id \in asked
            <4>1. CASE m.kind = "other"
                BY <1>1, <4>1
            <4>2. CASE m.kind = "request"
                <5>1. m = Req(m.id) /\ asked' = asked \cup {m.id}
                    BY <1>1, <4>2
                <5>2. m.id # id
                    BY <2>3, <5>1
                <5>. QED
                    BY <5>1, <5>2
            <4>. QED
                BY <1>1, <4>1, <4>2
        <3>2. (\A i \in 1..Len(stdin) : stdin[i] # Req(id)) <=> (\A i \in 1..Len(stdin') : stdin'[i] # Req(id))
            BY <1>2, <1>3, <2>3
        <3>. QED
            BY <3>1, <3>2 DEF Read
    <2>. QED
        BY <2>2, <2>3
<1>9. Read' = Read
    <2>1. Read \subseteq RequestIds /\ Read' \subseteq RequestIds
        BY <1>5 DEF Read, Waiting
    <2>. QED
        BY <1>8, <2>1
<1>. QED
    BY <1>2, <1>5, <1>6, <1>7, <1>9 DEF Waiting

\* A step that moves no message of the host and no span.
LEMMA Calmly ==
    ASSUME BridgeInv, UNCHANGED <<stdin, asked, inFlight, ends, told>>, outbox' \in Seq(FromRemotes),
           proxy' = [pc |-> proxy'.pc, exit |-> proxy'.exit, stdinTty |-> proxy'.stdinTty,
                     stderrTty |-> proxy'.stderrTty, worker |-> proxy'.worker, grace |-> proxy'.grace],
           proxy'.stdinTty = proxy.stdinTty, proxy'.stderrTty = proxy.stderrTty,
           \/ proxy'.pc = proxy.pc
           \/ proxy'.pc \in {"bridge", "forward", "close"} /\ proxy.pc \in {"connect", "bridge", "forward", "deliver"}
           \/ proxy'.pc \in {"refuse", "ended"} /\ proxy.pc = "refusing"
           \/ /\ proxy'.pc \in {"ensure", "sign_in", "client", "connect", "refuse"}
              /\ proxy.pc \in {"startup", "ensure", "sign_in", "client"}
    PROVE  BridgeInv'
<1>1. Read' = Read /\ Waiting'
    BY DEF Read, BridgeInv, Waiting
<1>2. proxy'.pc \in ProxyPCs /\ (proxy'.pc \notin {"bridge", "forward", "deliver", "close"} => inFlight = {})
    BY DEF BridgeInv, ProxyPCs
<1>3. \A id \in RequestIds : Span(id)'
    BY <1>1 DEF BridgeInv, Span
<1>. QED
    BY <1>1, <1>2, <1>3 DEF BridgeInv

\* The end of the proxy ends every span that is open.
LEMMA ProxyEnding ==
    ASSUME BridgeInv, NEW exit, Finish(exit), UNCHANGED <<stdin, asked, outbox, told>>
    PROVE  BridgeInv'
<1>1. Read' = Read /\ Waiting' /\ inFlight' = {}
    BY DEF Read, BridgeInv, Waiting, Finish
<1>2. /\ proxy'.pc = "ended" /\ proxy'.stdinTty = proxy.stdinTty /\ proxy'.stderrTty = proxy.stderrTty
      /\ proxy' = [pc |-> proxy'.pc, exit |-> proxy'.exit, stdinTty |-> proxy'.stdinTty,
                   stderrTty |-> proxy'.stderrTty, worker |-> proxy'.worker, grace |-> proxy'.grace]
    BY DEF Finish, BridgeInv
<1>3. ASSUME NEW id \in RequestIds
      PROVE  /\ ends'[id] \in Ends
             /\ Span(id)'
    <2>1. Span(id) /\ ends[id] \in Ends
        BY DEF BridgeInv
    <2>2. CASE id \in inFlight
        <3>1. ends'[id] = Abandoned /\ id \notin told /\ id \in Read
            BY <2>1, <2>2, EndFacts DEF Finish, Span
        <3>. QED
            BY <1>1, <1>2, <3>1, EndFacts DEF Span, Finish, Ends
    <2>3. CASE id \notin inFlight
        <3>1. ends'[id] = ends[id] /\ told' = told
            BY <2>3 DEF Finish
        <3>. QED
            BY <1>1, <1>2, <2>1, <2>3, <3>1 DEF Span
    <2>. QED
        BY <2>2, <2>3
<1>4. ends' \in [RequestIds -> Ends]
    BY <1>3 DEF Finish
<1>. QED
    BY <1>1, <1>2, <1>3, <1>4 DEF BridgeInv, ProxyPCs

\* A request that is refused was not answered before and is not again.
LEMMA Refusing ==
    ASSUME BridgeInv, Refuse
    PROVE  BridgeInv'
<1>1. CASE Finish("failed") /\ UNCHANGED <<stdin, asked, outbox, told>>
    BY <1>1, ProxyEnding
<1>2. CASE /\ stdin # <<>> /\ stdin' = Tail(stdin)
           /\ IF Head(stdin).kind # "request" THEN UNCHANGED <<proxy, ends>>
              ELSE /\ ends' = [ends EXCEPT ![Head(stdin).id] = Append(@, "refused")]
                   /\ GoTo("refusing")
           /\ UNCHANGED <<inFlight, asked, outbox, told>>
    <2>. DEFINE h == Head(stdin)
    <2>1. /\ Waiting' /\ h \in FromHosts
          /\ h.kind # "request" => Read' = Read
          /\ h.kind = "request" => /\ h.id \in RequestIds /\ h.id \notin Read
                                   /\ Read' = Read \cup {h.id}
        BY <1>2, Taking DEF BridgeInv
    <2>2. proxy.pc = "refuse" /\ inFlight = {} /\ inFlight' = {}
        BY <1>2 DEF Refuse, BridgeInv
    <2>3. /\ proxy'.pc \in {"refuse", "refusing"} /\ proxy'.stdinTty \in BOOLEAN /\ proxy'.stderrTty \in BOOLEAN
          /\ proxy' = [pc |-> proxy'.pc, exit |-> proxy'.exit, stdinTty |-> proxy'.stdinTty,
                       stderrTty |-> proxy'.stderrTty, worker |-> proxy'.worker, grace |-> proxy'.grace]
        BY <1>2, <2>2 DEF BridgeInv, GoTo
    <2>4. CASE h.kind # "request"
        <3>1. UNCHANGED <<proxy, ends, told, inFlight, outbox>> /\ Read' = Read
            BY <1>2, <2>1, <2>4
        <3>2. \A id \in RequestIds : Span(id)'
            BY <3>1 DEF BridgeInv, Span
        <3>. QED
            BY <2>1, <3>1, <3>2 DEF BridgeInv
    <2>5. CASE h.kind = "request"
        <3>1. Span(h.id) /\ ends[h.id] = NoEnd /\ h.id \notin told
            BY <2>1, <2>5, EndFacts DEF BridgeInv, Span
        <3>2. ends' = [ends EXCEPT ![h.id] = Refused]
            <4>1. ends' = [ends EXCEPT ![h.id] = Append(ends[h.id], "refused")]
                BY <1>2, <2>5
            <4>. QED
                BY <3>1, <4>1, EndFacts
        <3>3. ASSUME NEW id \in RequestIds
              PROVE  /\ ends'[id] \in Ends
                     /\ Span(id)'
            <4>1. Span(id) /\ ends[id] \in Ends
                BY DEF BridgeInv
            <4>2. CASE id = h.id
                <5>1. ends'[id] = Refused
                    BY <3>2, <4>2 DEF BridgeInv
                <5>. QED
                    BY <1>2, <2>1, <2>2, <2>3, <2>5, <3>1, <4>2, <5>1, EndFacts DEF Span, Ends
            <4>3. CASE id # h.id
                <5>1. ends'[id] = ends[id]
                    BY <3>2, <4>3 DEF BridgeInv
                <5>. QED
                    BY <1>2, <2>1, <2>2, <2>3, <2>5, <4>1, <4>3, <5>1 DEF Span
            <4>. QED
                BY <4>2, <4>3
        <3>4. ends' \in [RequestIds -> Ends]
            BY <3>2, <3>3 DEF BridgeInv
        <3>5. outbox' \in Seq(FromRemotes)
            BY <1>2 DEF BridgeInv
        <3>. QED
            BY <2>1, <2>2, <2>3, <3>3, <3>4, <3>5 DEF BridgeInv, ProxyPCs
    <2>. QED
        BY <2>4, <2>5
<1>. QED
    BY <1>1, <1>2 DEF Refuse

\* A request that is taken to be forwarded is open from then on.
LEMMA Forwarding ==
    ASSUME BridgeInv, FromHost
    PROVE  BridgeInv'
<1>1. CASE /\ proxy' = [proxy EXCEPT !.pc = "close", !.exit = "host_eof"] /\ proxy.pc = "bridge"
           /\ UNCHANGED <<stdin, inFlight, asked, outbox, ends, told>>
    BY <1>1, Calmly DEF BridgeInv
<1>2. CASE /\ stdin # <<>> /\ stdin' = Tail(stdin) /\ proxy.pc = "bridge"
           /\ inFlight' = IF Head(stdin).kind = "request" THEN inFlight \cup {Head(stdin).id} ELSE inFlight
           /\ GoTo("forward")
           /\ UNCHANGED <<asked, outbox, ends, told>>
    <2>. DEFINE h == Head(stdin)
    <2>1. /\ Waiting' /\ h \in FromHosts
          /\ h.kind # "request" => Read' = Read
          /\ h.kind = "request" => /\ h.id \in RequestIds /\ h.id \notin Read
                                   /\ Read' = Read \cup {h.id}
        BY <1>2, Taking DEF BridgeInv
    <2>2. /\ proxy'.pc = "forward" /\ proxy'.stdinTty \in BOOLEAN /\ proxy'.stderrTty \in BOOLEAN
          /\ proxy' = [pc |-> proxy'.pc, exit |-> proxy'.exit, stdinTty |-> proxy'.stdinTty,
                       stderrTty |-> proxy'.stderrTty, worker |-> proxy'.worker, grace |-> proxy'.grace]
        BY <1>2 DEF BridgeInv, GoTo
    <2>3. inFlight' \subseteq RequestIds
        BY <1>2, <2>1 DEF BridgeInv
    <2>4. ASSUME NEW id \in RequestIds PROVE Span(id)'
        <3>1. Span(id) /\ ends' = ends /\ told' = told
            BY <1>2 DEF BridgeInv
        <3>2. CASE h.kind = "request" /\ id = h.id
            BY <1>2, <2>1, <2>2, <3>1, <3>2 DEF Span
        <3>3. CASE ~(h.kind = "request" /\ id = h.id)
            <4>1. (id \in Read' <=> id \in Read) /\ (id \in inFlight' <=> id \in inFlight)
                BY <1>2, <2>1, <3>3
            <4>. QED
                BY <1>2, <2>2, <3>1, <4>1 DEF Span
        <3>. QED
            BY <3>2, <3>3
    <2>. QED
        BY <1>2, <2>1, <2>2, <2>3, <2>4 DEF BridgeInv, ProxyPCs
<1>. QED
    BY <1>1, <1>2 DEF FromHost

\* An answer that was waited for ends its span, and one that was not does nothing.
LEMMA Answering ==
    ASSUME BridgeInv, FromRemote
    PROVE  BridgeInv'
<1>1. CASE /\ proxy' = [proxy EXCEPT !.pc = "close", !.exit = "remote_closed"] /\ proxy.pc = "bridge"
           /\ UNCHANGED <<stdin, inFlight, asked, outbox, ends, told>>
    BY <1>1, Calmly DEF BridgeInv
<1>2. ASSUME NEW m, m = Head(outbox), outbox # <<>>, outbox' = Tail(outbox), UNCHANGED <<stdin, asked>>,
             proxy.pc = "bridge",
             NEW known, known \in BOOLEAN, known <=> Answers(m) /\ m.id \in inFlight,
             inFlight' = IF known THEN inFlight \ {m.id} ELSE inFlight,
             ends' = IF known THEN [ends EXCEPT ![m.id] = Append(@, "answered")] ELSE ends,
             told' = IF m.kind = "answer" THEN told \cup ({m.id} \cap Read) ELSE told,
             GoTo("deliver")
      PROVE  BridgeInv'
    <2>1. m \in FromRemotes /\ outbox' \in Seq(FromRemotes)
        BY <1>2 DEF BridgeInv
    <2>2. /\ proxy'.pc = "deliver" /\ proxy'.stdinTty \in BOOLEAN /\ proxy'.stderrTty \in BOOLEAN
          /\ proxy' = [pc |-> proxy'.pc, exit |-> proxy'.exit, stdinTty |-> proxy'.stdinTty,
                       stderrTty |-> proxy'.stderrTty, worker |-> proxy'.worker, grace |-> proxy'.grace]
        BY <1>2 DEF BridgeInv, GoTo
    <2>3. Read' = Read /\ Waiting'
        BY <1>2 DEF Read, BridgeInv, Waiting
    <2>4. known => m.kind = "answer" /\ m.id \in RequestIds /\ ends[m.id] = NoEnd
        BY <1>2, <2>1 DEF Answers, BridgeInv, Span
    <2>5. ends' = IF known THEN [ends EXCEPT ![m.id] = Answered] ELSE ends
        BY <1>2, <2>4, EndFacts
    <2>6. ASSUME NEW id \in RequestIds
          PROVE  /\ ends'[id] \in Ends
                 /\ Span(id)'
        <3>1. Span(id) /\ ends[id] \in {NoEnd, Answered}
            BY <1>2 DEF BridgeInv, Span
        <3>2. CASE known /\ id = m.id
            <4>1. ends'[id] = Answered /\ id \in told' /\ id \notin inFlight' /\ id \in Read
                BY <1>2, <2>4, <2>5, <3>1, <3>2 DEF BridgeInv, Span
            <4>. QED
                BY <2>2, <2>3, <4>1, EndFacts DEF Span, Ends
        <3>3. CASE ~(known /\ id = m.id)
            <4>1. ends'[id] = ends[id] /\ (id \in inFlight' <=> id \in inFlight)
                BY <1>2, <2>4, <2>5, <3>3 DEF BridgeInv
            <4>2. id \in told' <=> id \in told
                <5>1. CASE m.kind = "answer" /\ id = m.id
                    BY <1>2, <3>1, <3>3, <5>1 DEF Answers, Span
                <5>2. CASE ~(m.kind = "answer" /\ id = m.id)
                    BY <1>2, <5>2
                <5>. QED
                    BY <5>1, <5>2
            <4>. QED
                BY <2>2, <2>3, <3>1, <4>1, <4>2 DEF Span, Ends
        <3>. QED
            BY <3>2, <3>3
    <2>7. ends' \in [RequestIds -> Ends] /\ inFlight' \subseteq RequestIds
        BY <1>2, <2>4, <2>5, <2>6 DEF BridgeInv
    <2>. QED
        BY <2>1, <2>2, <2>3, <2>6, <2>7 DEF BridgeInv, ProxyPCs
<1>. QED
    BY <1>1, <1>2 DEF FromRemote

\* Before there is a bridge, and while it only works.
LEMMA Working ==
    ASSUME BridgeInv,
           \/ Startup \/ Ensure \/ Confirm \/ BuildClient \/ Connect
           \/ SendRefusal \/ Forward \/ Deliver \/ Close \/ GraceOver \/ HostLeaves \/ WorkerMoves
    PROVE  BridgeInv'
<1>1. ASSUME NEW pc, proxy' = [proxy EXCEPT !.pc = pc], Piped,
             /\ pc \in {"ensure", "sign_in", "client", "connect", "refuse"}
             /\ proxy.pc \in {"startup", "ensure", "sign_in", "client"}
      PROVE  BridgeInv'
    <2>1. UNCHANGED <<stdin, asked, inFlight, ends, told>> /\ outbox' \in Seq(FromRemotes)
        BY <1>1 DEF Piped, BridgeInv
    <2>. QED
        BY <1>1, <2>1, Calmly DEF BridgeInv
<1>2. CASE Startup
    BY <1>1, <1>2, ProxyEnding DEF Startup, GoTo
<1>3. CASE Ensure \/ Confirm
    BY <1>1, <1>3 DEF Ensure, Confirm, GoTo, Calm
<1>4. CASE BuildClient
    BY <1>1, <1>4, ProxyEnding DEF BuildClient, GoTo
<1>5. ASSUME Piped, proxy'.stdinTty = proxy.stdinTty, proxy'.stderrTty = proxy.stderrTty,
             proxy' = [pc |-> proxy'.pc, exit |-> proxy'.exit, stdinTty |-> proxy'.stdinTty,
                       stderrTty |-> proxy'.stderrTty, worker |-> proxy'.worker, grace |-> proxy'.grace],
             \/ proxy'.pc = proxy.pc
             \/ proxy'.pc \in {"bridge", "forward", "close"} /\ proxy.pc \in {"connect", "bridge", "forward", "deliver"}
             \/ proxy'.pc \in {"refuse", "ended"} /\ proxy.pc = "refusing"
      PROVE  BridgeInv'
    <2>1. UNCHANGED <<stdin, asked, inFlight, ends, told>> /\ outbox' \in Seq(FromRemotes)
        BY <1>5 DEF Piped, BridgeInv
    <2>. QED
        BY <1>5, <2>1, Calmly
<1>6. CASE Connect \/ Forward
    BY <1>5, <1>6 DEF Connect, Forward, Calm, BridgeInv
<1>10. CASE SendRefusal \/ Deliver
    BY <1>5, <1>10 DEF SendRefusal, Deliver, GoTo, Calm, BridgeInv
<1>7. CASE GraceOver \/ WorkerMoves
    BY <1>5, <1>7 DEF GraceOver, WorkerMoves, Calm, BridgeInv
<1>8. CASE Close
    BY <1>8, ProxyEnding DEF Close
<1>9. CASE HostLeaves
    BY <1>9, Calmly DEF HostLeaves, BridgeInv
<1>. QED
    BY <1>2, <1>3, <1>4, <1>6, <1>7, <1>8, <1>9, <1>10

\* What the host and the remote server send ends no span.
LEMMA Receiving ==
    ASSUME BridgeInv, HostSends \/ RemoteSends
    PROVE  BridgeInv'
<1>1. CASE HostSends
    <2>1. Waiting' /\ Read' = Read
        BY <1>1, Sending DEF BridgeInv
    <2>2. UNCHANGED <<proxy, outbox, inFlight, ends, told>>
        BY <1>1 DEF HostSends
    <2>. QED
        BY <2>1, <2>2 DEF BridgeInv, Span
<1>2. CASE RemoteSends
    <2>1. UNCHANGED <<proxy, stdin, asked, inFlight, ends, told>>
        BY <1>2 DEF RemoteSends
    <2>2. PICK m \in {Other} \cup {Req(id) : id \in RequestIds} \cup {Ans(id) : id \in RequestIds} :
             outbox' = Append(outbox, m)
        BY <1>2 DEF RemoteSends
    <2>3. m \in FromRemotes
        BY <2>2 DEF FromRemotes, Other, Req, Ans
    <2>4. outbox' \in Seq(FromRemotes)
        BY <2>2, <2>3 DEF BridgeInv
    <2>. QED
        BY <2>1, <2>4, Calmly DEF BridgeInv
<1>. QED
    BY <1>1, <1>2

\* Every step of the proxy, its sign-in, the host and the remote server.
LEMMA BridgeStep ==
    ASSUME BridgeInv, FlowInv, [BridgeNext]_<<flowVars, bridgeVars>>
    PROVE  BridgeInv' /\ FlowInv'
<1>1. ASSUME UNCHANGED bridgeVars PROVE BridgeInv'
    BY <1>1, Calmly DEF bridgeVars, BridgeInv
<1>2. ASSUME UNCHANGED flowVars PROVE FlowInv'
    BY <1>2 DEF flowVars, FlowInv
<1>3. CASE UNCHANGED <<flowVars, bridgeVars>>
    BY <1>1, <1>2, <1>3
<1>4. CASE FlowNext /\ UNCHANGED bridgeVars
    BY <1>1, <1>4, FlowKeeps
<1>5. CASE Ensure
    <2>1. FlowInv'
        <3>1. CASE StartFlow(proxy.stdinTty, proxy.stderrTty)
            BY <3>1, StartKeepsFlow DEF BridgeInv
        <3>2. CASE UNCHANGED flowVars
            BY <1>2, <3>2
        <3>. QED
            BY <1>5, <3>1, <3>2 DEF Ensure, Calm
    <2>. QED
        BY <1>5, <2>1, Working
<1>6. CASE \/ Startup \/ Confirm \/ BuildClient \/ Connect \/ Refuse \/ SendRefusal \/ Forward \/ Deliver \/ Close
           \/ GraceOver \/ FromHost \/ FromRemote \/ HostSends \/ HostLeaves \/ WorkerMoves \/ RemoteSends
    <2>1. UNCHANGED flowVars
        BY <1>6 DEF Startup, Confirm, BuildClient, Connect, Refuse, SendRefusal, Forward, Deliver, Close,
                    GraceOver, FromHost, FromRemote, HostSends, HostLeaves, WorkerMoves, RemoteSends, Calm
    <2>2. BridgeInv'
        BY <1>6, Working, Refusing, Forwarding, Answering, Receiving
    <2>. QED
        BY <1>2, <2>1, <2>2
<1>. QED
    BY <1>3, <1>4, <1>5, <1>6 DEF BridgeNext, ProxyStep

\* Nothing was sent, asked or ended when the proxy starts.
LEMMA BridgeStarts == BridgeInit(TRUE) => BridgeInv /\ FlowInv
<1>1. SUFFICES ASSUME BridgeInit(TRUE) PROVE BridgeInv
    BY FlowStarts DEF BridgeInit
<1>2. /\ stdin = <<>> /\ asked = {} /\ outbox = <<>> /\ inFlight = {} /\ told = {}
      /\ ends = [id \in RequestIds |-> NoEnd]
    BY <1>1 DEF BridgeInit, NoEnd
<1>3. PICK i, e \in BOOLEAN : proxy = [NoProxy EXCEPT !.pc = "startup", !.stdinTty = i, !.stderrTty = e]
    BY <1>1 DEF BridgeInit
<1>4. proxy = [pc |-> "startup", exit |-> "none", stdinTty |-> i, stderrTty |-> e, worker |-> "none", grace |-> FALSE]
    BY <1>3 DEF NoProxy
<1>5. Waiting /\ outbox \in Seq(FromRemotes)
    BY <1>2 DEF Waiting
<1>6. Read = {}
    BY <1>2 DEF Read
<1>. QED
    BY <1>2, <1>4, <1>5, <1>6, EndFacts DEF BridgeInv, Span, ProxyPCs, Ends

(* The invariant of a proxy and its sign-in holds in every reachable state. *)
THEOREM Inductive == BridgeSpec => [](BridgeInv /\ FlowInv)
<1>1. BridgeInit(TRUE) => BridgeInv /\ FlowInv
    BY BridgeStarts
<1>2. BridgeInv /\ FlowInv /\ [BridgeNext]_<<flowVars, bridgeVars>> => (BridgeInv /\ FlowInv)'
    BY BridgeStep
<1>. QED
    BY <1>1, <1>2, PTL DEF BridgeSpec

(* Every request read from the host has one span which ends once, answered exactly
   when an answer to it was read, whether or not the host still got that, refused
   when there was no bridge and abandoned with the proxy, whatever the remote numbers, repeats or leaves out (Session, finish,
   refuse_over_stdio). *)
THEOREM SpansEndOnce == BridgeSpec => []RequestsEndOnce
<1>1. BridgeInv /\ FlowInv => RequestsEndOnce
    BY EndsOfBridge
<1>. QED
    BY <1>1, Inductive, PTL

(* The pages of a sign-in agree with its result, in whatever order redirects,
   errors, strays and the deadline come (wait_for_callback). *)
THEOREM PagesAreTrue == BridgeSpec => []PagesTellTheTruth
<1>1. BridgeInv /\ FlowInv => PagesTellTheTruth
    BY PagesOfFlow
<1>. QED
    BY <1>1, Inductive, PTL


------------------------------------------------------------------------------
(* A recording *)

(* The server runs only while the session does: before it was started, and after
   the session has ended, its group is empty. *)
RecorderInv ==
    /\ rec.pc \in {"off", "flags", "spawn", "send", "await", "reply", "initialized", "write", "finish", "drop", "ended"}
    /\ rec = [pc |-> rec.pc, id |-> rec.id, late |-> rec.late, exit |-> rec.exit, got |-> rec.got]
    /\ rec.pc \in {"off", "flags", "spawn", "ended"} => Empty(real)

\* A server that was never started, and one that was stopped, has no process.
LEMMA NoneLeft == Empty(NoServer) /\ \A server : Empty(GroupStopped(server))
<1>1. NoServer.leader = "none" /\ ~NoServer.forked
    BY DEF NoServer
<1>2. ASSUME NEW server PROVE GroupStopped(server).leader = "exited" /\ ~GroupStopped(server).forked
    BY DEF GroupStopped
<1>. QED
    BY <1>1, <1>2 DEF Empty

\* Every step of record-mcp and of its server.
LEMMA RecorderSteps ==
    ASSUME RecorderInv, [RecorderNext]_recVars
    PROVE  RecorderInv'
<1>. USE DEF RecorderInv
<1>1. CASE UNCHANGED recVars
    BY <1>1 DEF recVars, Empty
<1>2. CASE Admit
    BY <1>2 DEF Admit, Enter, Alone, Empty
<1>3. CASE Spawn
    BY <1>3 DEF Spawn, Enter, Empty
<1>4. CASE Send \/ Overdue
    BY <1>4 DEF Send, Overdue, Drops, Alone, Empty
<1>5. CASE Await \/ AnswerServer
    BY <1>5 DEF Await, AnswerServer, Drops, Enter, Alone, Empty
<1>6. CASE Initialized \/ WriteMock
    BY <1>6 DEF Initialized, WriteMock, AfterId, NoRecorder, Drops, Alone
<1>7. CASE DropSession \/ Finishing
    <2>1. rec'.pc = "ended" => \E server : real' = GroupStopped(server)
        BY <1>7 DEF DropSession, Finishing, Drops, GroupStopped
    <2>2. rec'.pc \in {"drop", "ended"}
          /\ rec' = [pc |-> rec'.pc, id |-> rec'.id, late |-> rec'.late, exit |-> rec'.exit, got |-> rec'.got]
        BY <1>7 DEF DropSession, Finishing, Drops
    <2>3. rec'.pc = "ended" => Empty(real)'
        BY <2>1, NoneLeft DEF Empty
    <2>. QED
        BY <2>2, <2>3
<1>8. CASE RealWrites
    BY <1>8 DEF RealWrites, Serving
<1>9. CASE RealMoves
    BY <1>9 DEF RealMoves, Serving
<1>. QED
    BY <1>1, <1>2, <1>3, <1>4, <1>5, <1>6, <1>7, <1>8, <1>9 DEF RecorderNext, RecorderStep

(* However a recording ends, it leaves no process of the server it started
   (terminate, the session's Drop). *)
THEOREM ServersAreStopped == RecorderSpec => []NoServerLeftBehind
<1>1. RecorderInit(TRUE) => RecorderInv
    BY NoneLeft DEF RecorderInit, NoRecorder, RecorderInv
<1>2. RecorderInv /\ [RecorderNext]_recVars => RecorderInv'
    BY RecorderSteps
<1>3. RecorderInv => NoServerLeftBehind
    BY DEF RecorderInv, NoServerLeftBehind
<1>. QED
    BY <1>1, <1>2, <1>3, PTL DEF RecorderSpec

------------------------------------------------------------------------------
(* What was recorded *)

\* A set of numbers has a least one.
LEMMA Least ==
    ASSUME NEW S, S \subseteq Nat, S # {}
    PROVE  \E x \in S : \A y \in S : x <= y
<1>1. PICK x \in S : \A y \in S : ~(<<y, x>> \in OpToRel(<, Nat))
    BY NatLessThanWellFounded, WFMin
<1>2. \A y \in S : x <= y
    <2>. SUFFICES ASSUME NEW y \in S PROVE x <= y
        OBVIOUS
    <2>1. ~(y < x)
        BY <1>1 DEF OpToRel
    <2>. QED
        BY <2>1
<1>. QED
    BY <1>2

\* A path none of whose keys contains a dot is looked up as it was written.
LEMMA KeyedAsWritten ==
    ASSUME NEW path, IsPath(path), ~HasDottedKey(path)
    PROVE  Keyed(Flattened(path)) = path
<1>. DEFINE n == Len(path)
            S == {path[i] : i \in DOMAIN path}
<1>1. path \in Seq(S) /\ n \in Nat /\ DOMAIN path = 1..n
    BY DEF IsPath, IsSeq
<1>2. \A i \in 1..n : path[i] = <<path[i][1]>>
    <2>. SUFFICES ASSUME NEW i \in 1..n PROVE path[i] = <<path[i][1]>>
        OBVIOUS
    <2>. PICK key : key = path[i]
        OBVIOUS
    <2>1. IsSeq(key) /\ key # <<>> /\ ~Dotted(key)
        BY <1>1 DEF IsPath, HasDottedKey
    <2>. PICK T : T = {key[j] : j \in DOMAIN key}
        OBVIOUS
    <2>2. key \in Seq(T) /\ Len(key) \in Nat /\ ~(Len(key) > 1) /\ Len(key) # 0
        BY <2>1 DEF IsSeq, Dotted
    <2>. PICK m \in Nat : m = Len(key)
        BY <2>2
    <2>3. m = 1
        <3>1. ~(m > 1) /\ m # 0
            BY <2>2
        <3>2. \A k \in Nat : ~(k > 1) /\ k # 0 => k = 1
            OBVIOUS
        <3>. QED
            BY <3>1, <3>2
    <2>4. key = <<key[1]>>
        <3>1. Len(key) = 1
            BY <2>3
        <3>. QED
            BY <2>2, <3>1
    <2>. QED
        BY <2>4
<1>. DEFINE F(f) == [i \in 1..n |-> IF i = 1 THEN path[i] ELSE f[i - 1] \o path[i]]
            flatten == CHOOSE f : f = F(f)
            g == [i \in 1..n |-> [j \in 1..i |-> path[j][1]]]
<1>3. Flattened(path) = IF n = 0 THEN path ELSE flatten[n]
    BY DEF Flattened, FlattenSeq
<1>4. CASE n = 0
    <2>1. path = <<>>
        BY <1>1, <1>4
    <2>2. Flattened(path) = <<>>
        BY <1>3, <1>4, <2>1
    <2>. QED
        BY <2>1, <2>2 DEF Keyed
<1>5. CASE n # 0
    <2>1. \A i \in 1..n : i # 1 => [j \in 1..(i - 1) |-> path[j][1]] \o path[i] = [j \in 1..i |-> path[j][1]]
        <3>. SUFFICES ASSUME NEW i \in 1..n, i # 1
                      PROVE  [j \in 1..(i - 1) |-> path[j][1]] \o path[i] = [j \in 1..i |-> path[j][1]]
            OBVIOUS
        <3>. DEFINE h == [j \in 1..(i - 1) |-> path[j][1]]
        <3>. PICK k \in Nat : k = i - 1
            BY <1>1
        <3>1. Len(h) = k
            OBVIOUS
        <3>2. path[i] = <<path[i][1]>>
            BY <1>2
        <3>. PICK x : x = path[i][1]
            OBVIOUS
        <3>3. h \o <<x>> = [j \in 1..i |-> IF j <= k THEN h[j] ELSE <<x>>[j - k]]
            <4>1. h \in Seq({path[j][1] : j \in 1..k}) /\ <<x>> \in Seq({x}) /\ Len(<<x>>) = 1 /\ k + 1 = i
                OBVIOUS
            <4>. PICK H, J : H = {path[j][1] : j \in 1..k} /\ J = {x}
                OBVIOUS
            <4>2. h \in Seq(H) /\ <<x>> \in Seq(J)
                BY <4>1
            <4>. HIDE DEF h
            <4>3. h \o <<x>> = [j \in 1..(k + 1) |-> IF j <= k THEN h[j] ELSE <<x>>[j - k]]
                BY <3>1, <4>1, <4>2
            <4>. QED
                BY <4>1, <4>3
        <3>4. \A j \in 1..i : (IF j <= k THEN h[j] ELSE <<x>>[j - k]) = path[j][1]
            OBVIOUS
        <3>. QED
            BY <3>2, <3>3, <3>4
    <2>2. g = F(g)
        <3>1. \A i \in 1..n : g[i] = F(g)[i]
            <4>. SUFFICES ASSUME NEW i \in 1..n PROVE g[i] = F(g)[i]
                OBVIOUS
            <4>1. CASE i = 1
                <5>1. path[1] = <<path[1][1]>>
                    BY <1>2, <4>1
                <5>2. [j \in 1..1 |-> path[j][1]] = <<path[1][1]>>
                    OBVIOUS
                <5>. QED
                    BY <4>1, <5>1, <5>2
            <4>2. CASE i # 1
                <5>1. i - 1 \in 1..n
                    BY <1>1, <4>2
                <5>2. g[i - 1] = [j \in 1..(i - 1) |-> path[j][1]]
                    BY <5>1
                <5>. QED
                    BY <2>1, <4>2, <5>2
            <4>. QED
                BY <4>1, <4>2
        <3>. QED
            BY <3>1
    <2>3. flatten = F(flatten)
        BY <2>2
    <2>. HIDE DEF flatten
    <2>4. ASSUME NEW i \in 1..n, flatten[i] # g[i] PROVE FALSE
        <3>. DEFINE B == {x \in 1..n : flatten[x] # g[x]}
        <3>1. B \subseteq Nat /\ B # {}
            <4>1. B \subseteq Nat
                BY <1>1
            <4>2. i \in B
                <5>. HIDE DEF g
                <5>. QED
                    BY <2>4
            <4>. QED
                BY <4>1, <4>2
        <3>2. PICK x \in B : \A y \in B : x <= y
            <4>. HIDE DEF B
            <4>. QED
                BY <3>1, Least
        <3>3. x \in 1..n /\ flatten[x] # g[x]
            OBVIOUS
        <3>4. flatten[x] = IF x = 1 THEN path[x] ELSE flatten[x - 1] \o path[x]
            BY <2>3, <3>3
        <3>5. g[x] = IF x = 1 THEN path[x] ELSE g[x - 1] \o path[x]
            BY <2>2, <3>3
        <3>6. x # 1
            BY <3>3, <3>4, <3>5
        <3>7. x - 1 \in 1..n /\ ~(x <= x - 1)
            BY <1>1, <3>3, <3>6
        <3>8. flatten[x - 1] = g[x - 1]
            BY <3>2, <3>7
        <3>. QED
            BY <3>3, <3>4, <3>5, <3>6, <3>8
    <2>5. flatten[n] = [j \in 1..n |-> path[j][1]]
        BY <1>1, <1>5, <2>4
    <2>. DEFINE d == [j \in 1..n |-> path[j][1]]
    <2>6. Flattened(path) = d /\ Len(d) = n
        BY <1>1, <1>3, <1>5, <2>5
    <2>7. Keyed(d) = [j \in 1..n |-> <<path[j][1]>>]
        BY <2>6 DEF Keyed
    <2>8. path = [j \in 1..n |-> path[j]]
        BY <1>1
    <2>9. Keyed(d) = path
        BY <1>2, <2>7, <2>8
    <2>. QED
        BY <2>6, <2>9
<1>. QED
    BY <1>4, <1>5

\* The constraint on every value that a recording keeps is met by the call it recorded.
LEMMA ExpectIsMet ==
    ASSUME NEW input, IsObject(input)
    PROVE  \A d \in DOMAIN DeriveExpect(input) :
              /\ DeriveExpect(input)[d] \in JsonTypes
              /\ Lookup(input, d).type = DeriveExpect(input)[d]
<1>. DEFINE kept == {q \in DOMAIN input : input[q] # Null /\ ~HasDottedKey(q)}
            D == {Flattened(p) : p \in kept}
            e == [d \in D |-> input[Keyed(d)].type]
<1>1. DeriveExpect(input) = e
    BY DEF DeriveExpect
<1>2. ASSUME NEW d \in D PROVE e[d] \in JsonTypes /\ Lookup(input, d).type = e[d]
    <2>1. PICK p \in kept : d = Flattened(p)
        BY <1>2
    <2>2. IsPath(p) /\ ~HasDottedKey(p) /\ p \in DOMAIN input /\ input[p].type \in JsonTypes
        BY DEF IsObject
    <2>3. Keyed(d) = p
        BY <2>1, <2>2, KeyedAsWritten
    <2>4. e[d] = input[p].type
        BY <2>3
    <2>5. Lookup(input, d) = input[p]
        BY <2>2, <2>3 DEF Lookup, Carries
    <2>. QED
        BY <2>2, <2>4, <2>5
<1>. QED
    BY <1>1, <1>2

\* A text that stands for nothing but itself is answered as it is.
LEMMA TextStands ==
    ASSUME NEW text, IsSeq(text), NEW input
    PROVE  /\ ~Mentions(text, "file") => FilesResolve(text) /\ FilesResolved(text) = text
           /\ ~Mentions(text, "input") => Resolves(text, input) /\ Substituted(text, input) = text
<1>1. text = [i \in 1..Len(text) |-> text[i]]
    BY DEF IsSeq
<1>2. ASSUME ~Mentions(text, "file") PROVE FilesResolve(text) /\ FilesResolved(text) = text
    <2>1. \A i \in 1..Len(text) : text[i][1] # "file"
        BY <1>2 DEF Mentions
    <2>2. FilesResolved(text) = [i \in 1..Len(text) |-> text[i]]
        BY <2>1 DEF FilesResolved
    <2>. QED
        BY <1>1, <2>1, <2>2 DEF FilesResolve
<1>3. ASSUME ~Mentions(text, "input") PROVE Resolves(text, input) /\ Substituted(text, input) = text
    <2>1. \A i \in 1..Len(text) : text[i][1] # "input"
        BY <1>3 DEF Mentions
    <2>2. Substituted(text, input) = [i \in 1..Len(text) |-> text[i]]
        BY <2>1 DEF Substituted
    <2>. QED
        BY <1>1, <2>1, <2>2 DEF Resolves
<1>. QED
    BY <1>2, <1>3

\* The mock of a call answers that call.
LEMMA RenderedReplays ==
    ASSUME NEW input, IsObject(input), NEW a, IsSeq(a.text), a.isError \in BOOLEAN, Representable(a)
    PROVE  Replays(RenderMock(input, a), input, a)
<1>. DEFINE file == RenderMock(input, a)
            parsed == ParseMock(file)
<1>1. /\ file.expect = DeriveExpect(input) /\ file.isError = a.isError
      /\ file.error = IF a.isError THEN a.text ELSE <<>>
      /\ file.body = IF a.isError THEN <<>> ELSE a.text
    BY DEF RenderMock
<1>2. /\ ~Mentions(a.text, "input") /\ (~a.isError => ~Mentions(a.text, "file"))
    BY DEF Representable
<1>3. Parses(file)
    <2>1. FilesResolve(<<>>)
        BY DEF FilesResolve
    <2>. QED
        BY <1>1, <1>2, <2>1, TextStands DEF Parses
<1>4. /\ parsed.expect = [d \in DOMAIN DeriveExpect(input) |-> Constraint(DeriveExpect(input)[d])]
      /\ parsed.isError = a.isError /\ parsed.error = file.error /\ parsed.body = FilesResolved(file.body)
    BY <1>1 DEF ParseMock
<1>5. Violations(parsed, input) = {}
    <2>1. ASSUME NEW d \in DOMAIN DeriveExpect(input) PROVE Meets(Lookup(input, d), parsed.expect[d])
        <3>. PICK raw : raw = DeriveExpect(input)[d]
            OBVIOUS
        <3>1. raw \in JsonTypes /\ Lookup(input, d).type = raw /\ raw \notin DOMAIN Patterns
            BY ExpectIsMet, PatternsAreMarked
        <3>2. Constraint(raw) = [kind |-> "type", admits |-> {raw}]
            BY <3>1 DEF Constraint
        <3>. QED
            BY <1>4, <3>1, <3>2 DEF Meets
    <2>. QED
        BY <1>4, <2>1 DEF Violations
<1>6. Raw(parsed) = a.text
    BY <1>1, <1>2, <1>4, TextStands DEF Raw
<1>7. Resolves(Raw(parsed), input) /\ Substituted(Raw(parsed), input) = a.text
    BY <1>2, <1>6, TextStands
<1>. HIDE DEF parsed, file
<1>8. ResolveCall(parsed, input) = [violations |-> {}, answered |-> TRUE, text |-> a.text, isError |-> a.isError]
    BY <1>4, <1>5, <1>7 DEF ResolveCall
<1>. QED
    BY <1>3, <1>8 DEF Replays, parsed, file

Messages == [kind : {"result"}, id : CallIds \cup {1}, answer : RealAnswers]
            \cup [kind : {"error", "request"}, id : CallIds \cup {1}] \cup [kind : {"junk"}]

(* Every answer that is on its way, or that a mock is about to be made of, is one
   the server gave to the request of that id; and each mock that was made replays. *)
AnswersAreTheServers ==
    /\ rec = [pc |-> rec.pc, id |-> rec.id, late |-> rec.late, exit |-> rec.exit, got |-> rec.got]
    /\ rec.id \in 1..(Len(RecordedCalls) + 1)
    /\ DOMAIN said = CallIds \cup {1} /\ \A id \in DOMAIN said : said[id] \subseteq RealAnswers
    /\ lines \in Seq(Messages)
    /\ \A n \in 1..Len(lines) : lines[n].kind = "result" => lines[n].answer \in said[lines[n].id]
    /\ rec.pc = "write" => rec.id # 1 /\ rec.got \in said[rec.id]
    /\ DOMAIN recorded \subseteq CallIds /\ RecordingsReplay

\* What comes after a request is one of them, or the end.
LEMMA NextId ==
    ASSUME NEW id \in 1..(Len(RecordedCalls) + 1)
    PROVE  /\ AfterId(id).id \in 1..(Len(RecordedCalls) + 1) /\ AfterId(id).pc # "write"
           /\ AfterId(id) = [pc |-> AfterId(id).pc, id |-> AfterId(id).id, late |-> AfterId(id).late,
                             exit |-> AfterId(id).exit, got |-> AfterId(id).got]
<1>1. Len(RecordedCalls) \in Nat
    BY RecordingAssumption DEF IsSeq
<1>2. CASE id = Len(RecordedCalls) + 1
    <2>1. AfterId(id) = [pc |-> "finish", id |-> id, late |-> FALSE, exit |-> "none", got |-> NullAnswer]
        BY <1>2 DEF AfterId, NoRecorder
    <2>. QED
        BY <2>1
<1>3. CASE id # Len(RecordedCalls) + 1
    <2>1. AfterId(id) = [pc |-> "send", id |-> id + 1, late |-> FALSE, exit |-> "none", got |-> NullAnswer]
        BY <1>3 DEF AfterId, NoRecorder
    <2>2. id + 1 \in 1..(Len(RecordedCalls) + 1)
        BY <1>1, <1>3
    <2>. QED
        BY <2>1, <2>2
<1>. QED
    BY <1>2, <1>3

\* The ids of calls are those of the requests but the first.
LEMMA IdsAreCounted == Len(RecordedCalls) \in Nat /\ CallIds = 2..(Len(RecordedCalls) + 1)
<1>1. Len(RecordedCalls) \in Nat /\ DOMAIN RecordedCalls = 1..Len(RecordedCalls)
    BY RecordingAssumption DEF IsSeq
<1>2. CallIds = {i + 1 : i \in 1..Len(RecordedCalls)}
    BY <1>1 DEF CallIds
<1>3. \A m \in Nat : {i + 1 : i \in 1..m} = 2..(m + 1)
    <2>. SUFFICES ASSUME NEW m \in Nat PROVE {i + 1 : i \in 1..m} = 2..(m + 1)
        OBVIOUS
    <2>1. \A k \in 2..(m + 1) : k - 1 \in 1..m /\ k = (k - 1) + 1
        OBVIOUS
    <2>2. \A i \in 1..m : i + 1 \in 2..(m + 1)
        OBVIOUS
    <2>3. \A k \in 2..(m + 1) : \E i \in 1..m : k = i + 1
        BY <2>1
    <2>. QED
        BY <2>2, <2>3
<1>. QED
    BY <1>1, <1>2, <1>3

\* Every step of record-mcp and of its server.
LEMMA AnswersSteps ==
    ASSUME AnswersAreTheServers, [RecorderNext]_recVars
    PROVE  AnswersAreTheServers'
<1>. DEFINE Sound(r) == r = [pc |-> r.pc, id |-> r.id, late |-> r.late, exit |-> r.exit, got |-> r.got]
<1>1. ASSUME UNCHANGED <<said, lines, recorded>>, Sound(rec'), rec'.id \in 1..(Len(RecordedCalls) + 1),
             rec'.pc = "write" => rec'.id # 1 /\ rec'.got \in said[rec'.id]
      PROVE  AnswersAreTheServers'
    BY <1>1 DEF AnswersAreTheServers, RecordingsReplay
<1>2. Sound(rec) /\ rec.id \in 1..(Len(RecordedCalls) + 1)
    BY DEF AnswersAreTheServers
<1>3. CASE UNCHANGED recVars
    <2>1. UNCHANGED <<said, lines, recorded, rec>>
        BY <1>3 DEF recVars
    <2>2. rec.pc = "write" => rec.id # 1 /\ rec.got \in said[rec.id]
        BY DEF AnswersAreTheServers
    <2>. QED
        BY <1>1, <1>2, <2>1, <2>2
<1>4. CASE Admit \/ Spawn \/ Send \/ AnswerServer \/ Finishing \/ DropSession \/ RealMoves \/ Overdue \/ Initialized
    <2>1. UNCHANGED <<said, lines, recorded>>
        BY <1>4 DEF Admit, Spawn, Send, AnswerServer, Finishing, DropSession, RealMoves, Overdue, Initialized, Alone
    <2>2. CASE Admit \/ Spawn \/ Send \/ AnswerServer \/ Finishing \/ DropSession
        <3>1. Sound(rec') /\ rec'.id = rec.id /\ rec'.pc # "write"
            BY <1>2, <2>2 DEF Admit, Spawn, Send, AnswerServer, Finishing, DropSession, Enter, Drops
        <3>. QED
            BY <1>1, <1>2, <2>1, <3>1
    <2>3. CASE RealMoves \/ Overdue
        <3>1. Sound(rec') /\ rec'.id = rec.id /\ (rec'.pc = "write" => rec = rec')
            BY <1>2, <2>3 DEF RealMoves, Overdue
        <3>2. rec.pc = "write" => rec.id # 1 /\ rec.got \in said[rec.id]
            BY DEF AnswersAreTheServers
        <3>. QED
            BY <1>1, <1>2, <2>1, <3>1, <3>2
    <2>4. CASE Initialized
        <3>1. CASE rec' = AfterId(rec.id)
            BY <1>1, <1>2, <2>1, <3>1, NextId
        <3>2. CASE Drops("infrastructure")
            <4>1. Sound(rec') /\ rec'.id = rec.id /\ rec'.pc # "write"
                BY <1>2, <3>2 DEF Drops
            <4>. QED
                BY <1>1, <1>2, <2>1, <4>1
        <3>. QED
            BY <2>4, <3>1, <3>2 DEF Initialized
    <2>. QED
        BY <1>4, <2>2, <2>3, <2>4
<1>5. CASE Await
    <2>1. UNCHANGED <<said, recorded>>
        BY <1>5 DEF Await
    <2>. PICK es : es = Messages
        OBVIOUS
    <2>2. \/ lines' = lines
          \/ lines # <<>> /\ lines' = Tail(lines)
        BY <1>5 DEF Await, Drops
    <2>3. lines \in Seq(es) /\ \A n \in 1..Len(lines) : lines[n].kind = "result" => lines[n].answer \in said[lines[n].id]
        BY DEF AnswersAreTheServers
    <2>4. lines' \in Seq(es) /\ \A n \in 1..Len(lines') : \E k \in 1..Len(lines) : lines'[n] = lines[k]
        <3>1. CASE lines # <<>> /\ lines' = Tail(lines)
            <4>1. lines' \in Seq(es) /\ Len(lines') = Len(lines) - 1 /\ Len(lines) \in Nat
                BY <2>3, <3>1
            <4>2. \A n \in 1..Len(lines') : lines'[n] = lines[n + 1] /\ n + 1 \in 1..Len(lines)
                BY <2>3, <3>1, <4>1
            <4>. QED
                BY <4>1, <4>2
        <3>2. CASE lines' = lines
            BY <2>3, <3>2
        <3>. QED
            BY <2>2, <3>1, <3>2
    <2>5. \A n \in 1..Len(lines') : lines'[n].kind = "result" => lines'[n].answer \in said'[lines'[n].id]
        BY <2>1, <2>3, <2>4
    <2>6. Sound(rec') /\ rec'.id = rec.id
        BY <1>2, <1>5 DEF Await, Drops, Enter
    <2>7. ASSUME rec'.pc = "write" PROVE rec'.id # 1 /\ rec'.got \in said'[rec'.id]
        <3>1. PICK m : m = Head(lines)
            OBVIOUS
        <3>2. /\ lines # <<>> /\ Responds(m, rec.id) /\ m.kind # "error"
              /\ rec' = [rec EXCEPT !.pc = IF rec.id = 1 THEN "initialized" ELSE "write", !.got = ResultOf(m)]
            <4>1. rec.pc = "await"
                BY <1>5 DEF Await
            <4>2. /\ rec' # rec /\ ~Drops("infrastructure") /\ ~Enter("reply")
                BY <1>2, <2>7, <4>1 DEF Drops, Enter
            <4>. QED
                BY <1>5, <3>1, <4>2 DEF Await, Responds
        <3>3. m.kind = "result" /\ m.id = rec.id /\ rec'.got = m.answer /\ rec.id # 1
            BY <1>2, <2>7, <3>2 DEF Responds, ResultOf
        <3>4. 1 \in 1..Len(lines) /\ m = lines[1]
            BY <2>3, <3>1, <3>2
        <3>. QED
            BY <2>1, <2>3, <2>6, <3>3, <3>4
    <2>. QED
        <3>1. DOMAIN said = CallIds \cup {1} /\ (\A id \in DOMAIN said : said[id] \subseteq RealAnswers)
              /\ DOMAIN recorded \subseteq CallIds /\ RecordingsReplay
            BY DEF AnswersAreTheServers
        <3>2. RecordingsReplay'
            BY <2>1, <3>1 DEF RecordingsReplay
        <3>. QED
            BY <1>2, <2>1, <2>4, <2>5, <2>6, <2>7, <3>1, <3>2 DEF AnswersAreTheServers
<1>6. CASE WriteMock
    <2>1. UNCHANGED <<lines, said>> /\ rec.id # 1 /\ rec.got \in said[rec.id]
        BY <1>6 DEF WriteMock, AnswersAreTheServers
    <2>2. CASE Drops("infrastructure") /\ UNCHANGED recorded
        <3>1. Sound(rec') /\ rec'.id = rec.id /\ rec'.pc # "write"
            BY <1>2, <2>2 DEF Drops
        <3>. QED
            BY <1>1, <1>2, <2>1, <2>2, <3>1
    <2>3. ASSUME Representable(rec.got), rec' = AfterId(rec.id),
                 recorded' = [id \in DOMAIN recorded \cup {rec.id} |->
                    IF id = rec.id THEN RenderMock(RecordedCalls[id - 1].input, rec.got) ELSE recorded[id]]
          PROVE  AnswersAreTheServers'
        <3>1. rec.id \in CallIds /\ rec.id - 1 \in DOMAIN RecordedCalls
            <4>1. Len(RecordedCalls) \in Nat /\ DOMAIN RecordedCalls = 1..Len(RecordedCalls)
                BY RecordingAssumption DEF IsSeq
            <4>. QED
                BY <1>2, <2>1, <4>1, IdsAreCounted
        <3>. PICK call : call = RecordedCalls[rec.id - 1]
            OBVIOUS
        <3>2. rec.got \in RealAnswers /\ IsObject(call.input)
            BY <2>1, <3>1, RecordingAssumption DEF AnswersAreTheServers
        <3>3. Replays(RenderMock(call.input, rec.got), call.input, rec.got)
            BY <2>3, <3>2, RenderedReplays, RecordingAssumption
        <3>4. /\ DOMAIN recorded' = DOMAIN recorded \cup {rec.id}
              /\ \A id \in DOMAIN recorded : id # rec.id => recorded'[id] = recorded[id]
              /\ recorded'[rec.id] = RenderMock(call.input, rec.got)
            BY <2>3
        <3>5. RecordingsReplay /\ DOMAIN recorded \subseteq CallIds
            BY DEF AnswersAreTheServers
        <3>6. \A id \in DOMAIN recorded' : \E a \in said[id] : Replays(recorded'[id], RecordedCalls[id - 1].input, a)
            BY <2>1, <3>3, <3>4, <3>5 DEF RecordingsReplay
        <3>7. RecordingsReplay'
            BY <2>1, <3>6 DEF RecordingsReplay
        <3>8. Sound(rec') /\ rec'.id \in 1..(Len(RecordedCalls) + 1) /\ rec'.pc # "write"
            BY <1>2, <2>3, NextId
        <3>. QED
            BY <2>1, <3>1, <3>4, <3>5, <3>7, <3>8 DEF AnswersAreTheServers
    <2>. QED
        BY <1>6, <2>2, <2>3 DEF WriteMock
<1>7. CASE RealWrites
    <2>1. UNCHANGED <<rec, recorded>>
        BY <1>7 DEF RealWrites
    <2>2. PICK m \in Messages :
             /\ lines' = Append(lines, m)
             /\ DOMAIN said' = DOMAIN said
             /\ \A id \in DOMAIN said : said[id] \subseteq said'[id] /\ said'[id] \subseteq RealAnswers
             /\ m.kind = "result" => m.answer \in said'[m.id]
        <3>1. DOMAIN said = CallIds \cup {1} /\ \A id \in DOMAIN said : said[id] \subseteq RealAnswers
            BY DEF AnswersAreTheServers
        <3>2. PICK i \in CallIds \cup {1} :
                 \/ \E a \in RealAnswers : /\ lines' = Append(lines, [kind |-> "result", id |-> i, answer |-> a])
                                           /\ said' = [said EXCEPT ![i] = @ \cup {a}]
                 \/ \E k \in {"error", "request"} : lines' = Append(lines, [kind |-> k, id |-> i]) /\ UNCHANGED said
                 \/ lines' = Append(lines, [kind |-> "junk"]) /\ UNCHANGED said
            BY <1>7 DEF RealWrites
        <3>3. CASE \E a \in RealAnswers : /\ lines' = Append(lines, [kind |-> "result", id |-> i, answer |-> a])
                                          /\ said' = [said EXCEPT ![i] = @ \cup {a}]
            <4>1. PICK a \in RealAnswers : /\ lines' = Append(lines, [kind |-> "result", id |-> i, answer |-> a])
                                           /\ said' = [said EXCEPT ![i] = @ \cup {a}]
                BY <3>3
            <4>. DEFINE m == [kind |-> "result", id |-> i, answer |-> a]
            <4>2. m \in Messages /\ m.answer = a /\ m.id = i
                BY DEF Messages
            <4>3. /\ DOMAIN said' = DOMAIN said /\ a \in said'[i]
                  /\ \A id \in DOMAIN said : said[id] \subseteq said'[id] /\ said'[id] \subseteq RealAnswers
                BY <3>1, <4>1
            <4>. QED
                BY <4>1, <4>2, <4>3
        <3>4. CASE \E k \in {"error", "request"} : lines' = Append(lines, [kind |-> k, id |-> i]) /\ UNCHANGED said
            <4>1. PICK k \in {"error", "request"} : lines' = Append(lines, [kind |-> k, id |-> i]) /\ UNCHANGED said
                BY <3>4
            <4>. DEFINE m == [kind |-> k, id |-> i]
            <4>2. m \in Messages /\ m.kind # "result"
                BY DEF Messages
            <4>. QED
                BY <3>1, <4>1, <4>2
        <3>5. CASE lines' = Append(lines, [kind |-> "junk"]) /\ UNCHANGED said
            <4>. DEFINE m == [kind |-> "junk"]
            <4>1. m \in Messages /\ m.kind # "result"
                BY DEF Messages
            <4>. QED
                BY <3>1, <3>5, <4>1
        <3>. QED
            BY <3>2, <3>3, <3>4, <3>5
    <2>. PICK es : es = Messages
        OBVIOUS
    <2>3. lines \in Seq(es) /\ \A n \in 1..Len(lines) : lines[n].kind = "result" => lines[n].answer \in said[lines[n].id]
        BY DEF AnswersAreTheServers
    <2>4. \A n \in 1..Len(lines) : lines[n].kind = "result" => lines[n].id \in DOMAIN said
        <3>1. \A x \in Messages : x.kind = "result" => x.id \in CallIds \cup {1}
            BY DEF Messages
        <3>2. \A n \in 1..Len(lines) : lines[n] \in es
            BY <2>3
        <3>. QED
            BY <3>1, <3>2 DEF AnswersAreTheServers
    <2>5. lines' \in Seq(es) /\ Len(lines') = Len(lines) + 1 /\ Len(lines) \in Nat
        BY <2>2, <2>3
    <2>6. \A n \in 1..Len(lines') : lines'[n].kind = "result" => lines'[n].answer \in said'[lines'[n].id]
        <3>. SUFFICES ASSUME NEW n \in 1..Len(lines'), lines'[n].kind = "result" PROVE lines'[n].answer \in said'[lines'[n].id]
            OBVIOUS
        <3>1. CASE n \in 1..Len(lines)
            <4>1. lines'[n] = lines[n]
                BY <2>2, <2>3, <3>1
            <4>. QED
                BY <2>2, <2>3, <2>4, <3>1, <4>1
        <3>2. CASE n \notin 1..Len(lines)
            <4>1. n = Len(lines) + 1
                BY <2>5, <3>2
            <4>2. lines'[n] = m
                BY <2>2, <2>3, <4>1
            <4>. QED
                BY <2>2, <4>2
        <3>. QED
            BY <3>1, <3>2
    <2>7. RecordingsReplay'
        <3>1. \A id \in DOMAIN recorded : id \in DOMAIN said /\ \E a \in said[id] : Replays(recorded[id], RecordedCalls[id - 1].input, a)
            BY DEF AnswersAreTheServers, RecordingsReplay
        <3>. QED
            BY <2>1, <2>2, <3>1 DEF RecordingsReplay
    <2>8. rec'.pc = "write" => rec'.id # 1 /\ rec'.got \in said'[rec'.id]
        <3>1. rec.pc = "write" => rec.id # 1 /\ rec.got \in said[rec.id] /\ rec.id \in DOMAIN said
            BY IdsAreCounted DEF AnswersAreTheServers
        <3>. QED
            BY <2>1, <2>2, <3>1
    <2>. QED
        BY <1>2, <2>1, <2>2, <2>5, <2>6, <2>7, <2>8 DEF AnswersAreTheServers
<1>. QED
    BY <1>3, <1>4, <1>5, <1>6, <1>7 DEF RecorderNext, RecorderStep

(* A mock that was recorded answers its call with what the server answered it
   (await_response, derive_expect, render_fixed_mock), whatever was asked and whatever
   the server wrote meanwhile. *)
THEOREM RecordingsAreTrue == RecorderSpec => []RecordingsReplay
<1>1. RecorderInit(TRUE) => AnswersAreTheServers
    <2>. SUFFICES ASSUME RecorderInit(TRUE) PROVE AnswersAreTheServers
        OBVIOUS
    <2>1. rec = [pc |-> "flags", id |-> 1, late |-> FALSE, exit |-> "none", got |-> NullAnswer] /\ lines = <<>>
          /\ recorded = <<>>
        BY DEF RecorderInit, NoRecorder
    <2>2. DOMAIN said = CallIds \cup {1} /\ \A id \in DOMAIN said : said[id] = {}
        BY DEF RecorderInit
    <2>3. 1 \in 1..(Len(RecordedCalls) + 1)
        BY IdsAreCounted
    <2>4. RecordingsReplay /\ DOMAIN recorded = {}
        BY <2>1 DEF RecordingsReplay
    <2>5. <<>> \in Seq(Messages) /\ Len(<<>>) = 0
        OBVIOUS
    <2>. QED
        BY <2>1, <2>2, <2>3, <2>4, <2>5 DEF AnswersAreTheServers
<1>2. AnswersAreTheServers /\ [RecorderNext]_recVars => AnswersAreTheServers'
    BY AnswersSteps
<1>3. AnswersAreTheServers => RecordingsReplay
    BY DEF AnswersAreTheServers
<1>. QED
    BY <1>1, <1>2, <1>3, PTL DEF RecorderSpec

------------------------------------------------------------------------------
(* The call log *)

Entries == [attempt : Nat, n : Nat, call : Calls]
Lines == [entries : SUBSET Entries, whole : BOOLEAN]

\* A log that was never opened is empty, and a cut line is its last.
GoodLog(l) ==
    /\ l = [there |-> l.there, lines |-> l.lines, cut |-> l.cut]
    /\ l.there \in BOOLEAN /\ l.lines \in Seq(Lines) /\ l.cut \in BOOLEAN
    /\ l.cut => Len(l.lines) > 0
    /\ ~l.there => l.lines = <<>> /\ ~l.cut

\* An entry is rendered when some line has it, and logged when such a line is whole.
LEMMA LogFacts ==
    ASSUME NEW l, NEW e
    PROVE  /\ e \in Rendered(l) <=> \E i \in 1..Len(l.lines) : e \in l.lines[i].entries
           /\ e \in Logged(l) <=> \E i \in 1..Len(l.lines) : e \in l.lines[i].entries /\ l.lines[i].whole
BY DEF Rendered, RenderedLine, Logged

\* Before the first server opens it there is an empty log, which opening leaves so.
LEMMA LogOpens ==
    /\ GoodLog(NoLog) /\ ~NoLog.there /\ Rendered(NoLog) = {}
    /\ \A l : GoodLog(l) => GoodLog(Opened(l)) /\ Opened(l).there /\ Rendered(Opened(l)) = Rendered(l)
<1>1. NoLog.there = FALSE /\ NoLog.lines = <<>> /\ NoLog.cut = FALSE
    BY DEF NoLog
<1>2. GoodLog(NoLog)
    <2>1. <<>> \in Seq(Lines)
        OBVIOUS
    <2>2. NoLog = [there |-> NoLog.there, lines |-> NoLog.lines, cut |-> NoLog.cut]
        BY DEF NoLog
    <2>. QED
        BY <1>1, <2>1, <2>2 DEF GoodLog
<1>3. Rendered(NoLog) = {}
    <2>1. \A e : e \notin Rendered(NoLog)
        BY <1>1, LogFacts
    <2>. QED
        BY <2>1
<1>4. ASSUME NEW l, GoodLog(l)
      PROVE  GoodLog(Opened(l)) /\ Opened(l).there /\ Rendered(Opened(l)) = Rendered(l)
    <2>1. ASSUME NEW o, o = [l EXCEPT !.there = TRUE]
          PROVE  GoodLog(o) /\ o.there /\ Rendered(o) = Rendered(l)
        <3>1. o = [there |-> o.there, lines |-> o.lines, cut |-> o.cut]
            BY <1>4, <2>1 DEF GoodLog
        <3>2. o.there = TRUE /\ o.lines = l.lines /\ o.cut = l.cut
            BY <1>4, <2>1 DEF GoodLog
        <3>. QED
            BY <1>4, <3>1, <3>2 DEF GoodLog, Rendered
    <2>. QED
        BY <2>1 DEF Opened
<1>. QED
    BY <1>1, <1>2, <1>3, <1>4

\* A line that is written, whole or cut, adds its entry and takes none away.
LEMMA LogGrows ==
    ASSUME NEW l, GoodLog(l), NEW e \in Entries, NEW whole \in BOOLEAN
    PROVE  /\ GoodLog(Appended(l, e, whole)) /\ Appended(l, e, whole).there
           /\ Rendered(Appended(l, e, whole)) = Rendered(l) \cup {e}
<1>. DEFINE new == Appended(l, e, whole)
            last == Len(l.lines)
            line == [entries |-> {e}, whole |-> whole]
            shared == [entries |-> l.lines[last].entries \cup {e}, whole |-> FALSE]
<1>1. l.lines \in Seq(Lines) /\ last \in Nat /\ l.cut \in BOOLEAN /\ (l.cut => last > 0)
    BY DEF GoodLog
<1>2. /\ new = [there |-> TRUE, lines |-> new.lines, cut |-> ~whole]
      /\ new.there = TRUE /\ new.cut = ~whole
      /\ l.cut => new.lines = [l.lines EXCEPT ![last] = shared]
      /\ ~l.cut => new.lines = Append(l.lines, line)
    BY DEF Appended
<1>3. CASE l.cut
    <2>1. last \in 1..Len(l.lines) /\ l.lines[last] \in Lines
        BY <1>1, <1>3
    <2>2. shared \in Lines /\ shared.entries = l.lines[last].entries \cup {e}
        BY <2>1 DEF Lines
    <2>. HIDE DEF shared
    <2>3. /\ new.lines \in Seq(Lines) /\ Len(new.lines) = last
          /\ \A i \in 1..last : new.lines[i] = IF i = last THEN shared ELSE l.lines[i]
        BY <1>1, <1>2, <1>3, <2>1, <2>2
    <2>4. GoodLog(new) /\ new.there
        BY <1>1, <1>2, <1>3, <2>3 DEF GoodLog
    <2>5. ASSUME NEW x PROVE x \in Rendered(new) <=> x \in Rendered(l) \cup {e}
        <3>1. x \in Rendered(new) <=> \E i \in 1..last : x \in new.lines[i].entries
            BY <2>3, LogFacts
        <3>2. x \in Rendered(l) <=> \E i \in 1..last : x \in l.lines[i].entries
            BY LogFacts
        <3>. HIDE DEF new, last
        <3>3. (\E i \in 1..last : x \in new.lines[i].entries) <=> (\E i \in 1..last : x \in l.lines[i].entries) \/ x = e
            BY <2>1, <2>2, <2>3 DEF last
        <3>. QED
            BY <3>1, <3>2, <3>3
    <2>. QED
        BY <2>4, <2>5
<1>4. CASE ~l.cut
    <2>1. line \in Lines /\ line.entries = {e}
        BY DEF Lines
    <2>. HIDE DEF line
    <2>2. /\ new.lines \in Seq(Lines) /\ Len(new.lines) = last + 1
          /\ \A i \in 1..last : new.lines[i] = l.lines[i]
          /\ new.lines[last + 1] = line
        BY <1>1, <1>2, <1>4, <2>1, SMTT(30)
    <2>3. GoodLog(new) /\ new.there
        <3>1. Len(new.lines) > 0 /\ new.cut \in BOOLEAN
            BY <1>1, <1>2, <2>2
        <3>2. new = [there |-> new.there, lines |-> new.lines, cut |-> new.cut]
            BY <1>2
        <3>. HIDE DEF new
        <3>. QED
            BY <1>2, <2>2, <3>1, <3>2 DEF GoodLog
    <2>4. ASSUME NEW x PROVE x \in Rendered(new) <=> x \in Rendered(l) \cup {e}
        <3>1. x \in Rendered(new) <=> \E i \in 1..last + 1 : x \in new.lines[i].entries
            BY <2>2, LogFacts
        <3>2. x \in Rendered(l) <=> \E i \in 1..last : x \in l.lines[i].entries
            BY LogFacts
        <3>3. \A i : i \in 1..last + 1 <=> i \in 1..last \/ i = last + 1
            BY <1>1
        <3>. HIDE DEF new, last
        <3>4. (\E i \in 1..last + 1 : x \in new.lines[i].entries) <=> (\E i \in 1..last : x \in l.lines[i].entries) \/ x = e
            BY <2>1, <2>2, <3>3
        <3>. QED
            BY <3>1, <3>2, <3>4
    <2>. QED
        BY <2>3, <2>4
<1>. QED
    BY <1>3, <1>4

------------------------------------------------------------------------------
(* A mocked run *)

ServerStates == [pc : {"down", "ready", "log", "answer", "gone"}, call : {<<>>} \cup {<<e>> : e \in Entries}]

(* A server works only while an attempt does, after it has opened the log, on a
   call of that attempt; what it answers it has logged. *)
ServerInv(m) ==
    /\ m.pc \in {"ready", "log", "answer"} => made.up /\ log.there
    /\ m.pc \in {"log", "answer"} =>
          /\ m.call[1] \in Entries /\ m.call[1].attempt = run.attempt
          /\ m.pc = "answer" => m.call[1] \in Rendered(log)

\* The log is the attempt's, unless one of an earlier attempt could not be removed.
LogIsOfTheAttempt ==
    /\ made.answered \subseteq Rendered(log)
    /\ \A e \in Rendered(log) : e.attempt = run.attempt
    /\ log.there <=> made.up

RunShape ==
    /\ run = [pc |-> run.pc, attempt |-> run.attempt, traced |-> run.traced, handed |-> run.handed,
              outcome |-> run.outcome, stale |-> run.stale, reported |-> run.reported]
    /\ run.pc \in {"off", "materialize", "attempt", "invoke", "apply", "done"}
    /\ run.attempt \in Nat
    /\ made = [sent |-> made.sent, answered |-> made.answered, up |-> made.up]
    /\ made.sent \in Nat /\ made.up \in BOOLEAN

MockInv ==
    /\ RunShape
    /\ GoodLog(log)
    /\ mock \in [Servers -> ServerStates]
    /\ run.pc # "invoke" => mock = NoServers
    /\ \A s \in Servers : ServerInv(mock[s])
    /\ ~run.stale /\ (run.pc \in {"invoke", "apply"} \/ Kept) => LogIsOfTheAttempt
    /\ Kept => run.reported = {e \in Logged(log) : Broken(e)}

\* What the invariant says of a run whose attempt is kept.
LEMMA ReadBack == MockInv => CallsReachTheLog
<1>1. SUFFICES ASSUME MockInv, Kept, ~run.stale
               PROVE  /\ made.answered \subseteq Rendered(log)
                      /\ \A e \in Rendered(log) : e.attempt = run.attempt
                      /\ log.there = made.up
                      /\ \A e \in made.answered :
                            Broken(e) /\ (\A i \in 1..Len(log.lines) : e \in log.lines[i].entries => log.lines[i].whole)
                               => e \in run.reported
                      /\ run.reported \subseteq Rendered(log)
    BY DEF CallsReachTheLog
<1>2. LogIsOfTheAttempt /\ run.reported = {e \in Logged(log) : Broken(e)}
    BY <1>1 DEF MockInv
<1>3. log.there = made.up
    BY <1>1, <1>2 DEF MockInv, LogIsOfTheAttempt, GoodLog, RunShape
<1>4. Logged(log) \subseteq Rendered(log)
    BY LogFacts
<1>5. ASSUME NEW e \in made.answered, Broken(e),
             \A i \in 1..Len(log.lines) : e \in log.lines[i].entries => log.lines[i].whole
      PROVE  e \in run.reported
    <2>1. e \in Rendered(log)
        BY <1>2 DEF LogIsOfTheAttempt
    <2>2. e \in Logged(log)
        BY <1>5, <2>1, LogFacts
    <2>. QED
        BY <1>2, <1>5, <2>2
<1>. QED
    BY <1>2, <1>3, <1>4, <1>5 DEF LogIsOfTheAttempt

\* No server is up before an attempt.
LEMMA NobodyIsUp == NoServers \in [Servers -> ServerStates] /\ \A s \in Servers : NoServers[s].pc = "down"
BY DEF NoServers, ServerStates

\* The steps of the run: each attempt begins with servers down and a log of its own,
\* and the kept one is read back as it stands.
LEMMA RunSteps ==
    ASSUME MockInv, Materialize \/ BeginAttempt \/ EndAttempt \/ ApplyOutcome
    PROVE  MockInv'
<1>1. CASE Materialize
    <2>1. mock' = mock /\ mock = NoServers /\ log' = log /\ made' = made
        BY <1>1 DEF Materialize, MockInv
    <2>2. RunShape' /\ run'.pc \in {"attempt", "done"} /\ ~Kept'
        BY <1>1, <2>1 DEF Materialize, MockInv, RunShape, Kept
    <2>. QED
        BY <2>1, <2>2, NobodyIsUp DEF MockInv, ServerInv, GoodLog
<1>2. CASE BeginAttempt
    <2>1. mock' = mock /\ mock = NoServers /\ made' = NoCalls /\ run.pc = "attempt"
        BY <1>2 DEF BeginAttempt, MockInv
    <2>2. PICK removed \in BOOLEAN, handed \in BOOLEAN, stale \in BOOLEAN :
             /\ log' = IF removed /\ log.there THEN NoLog ELSE log
             /\ stale <=> log.there /\ ~removed
             /\ run' = [run EXCEPT !.pc = "invoke", !.attempt = @ + 1, !.handed = handed, !.stale = stale]
        <3>1. PICK removed \in BOOLEAN :
                 /\ log' = IF removed /\ log.there THEN NoLog ELSE log
                 /\ run' = [run EXCEPT !.pc = "invoke", !.attempt = @ + 1, !.handed = launch',
                               !.stale = log.there /\ ~removed]
            BY <1>2 DEF BeginAttempt, DiscardedLog
        <3>2. launch' \in BOOLEAN /\ (log.there /\ ~removed) \in BOOLEAN
            BY <1>2 DEF BeginAttempt
        <3>. QED
            BY <3>1, <3>2
    <2>3. RunShape' /\ run'.pc = "invoke" /\ ~made'.up /\ made'.answered = {} /\ run'.stale = stale
        <3>1. /\ run'.pc = "invoke" /\ run'.attempt = run.attempt + 1 /\ run'.stale = stale
              /\ run' = [pc |-> run'.pc, attempt |-> run'.attempt, traced |-> run'.traced, handed |-> run'.handed,
                         outcome |-> run'.outcome, stale |-> run'.stale, reported |-> run'.reported]
            BY <2>2 DEF MockInv, RunShape
        <3>2. run'.attempt \in Nat
            BY <3>1 DEF MockInv, RunShape
        <3>3. made'.sent = 0 /\ made'.answered = {} /\ made'.up = FALSE
              /\ made' = [sent |-> made'.sent, answered |-> made'.answered, up |-> made'.up]
            BY <2>1 DEF NoCalls
        <3>4. made'.sent \in Nat
            BY <3>3
        <3>5. made'.up \in BOOLEAN /\ ~made'.up
            BY <3>3, Zenon
        <3>. QED
            BY <3>1, <3>2, <3>3, <3>4, <3>5 DEF RunShape
    <2>4. ASSUME GoodLog(log'), ~run'.stale => ~log'.there PROVE MockInv'
        <3>1. ~log'.there => Rendered(log') = {}
            <4>1. ~log'.there => \A e : e \notin Rendered(log')
                BY <2>4, LogFacts DEF GoodLog
            <4>. QED
                BY <4>1
        <3>2. ~run'.stale => LogIsOfTheAttempt'
            BY <2>3, <2>4, <3>1 DEF LogIsOfTheAttempt
        <3>3. \A s \in Servers : ServerInv(mock[s])'
            BY <2>1, NobodyIsUp DEF ServerInv
        <3>. QED
            BY <2>1, <2>3, <2>4, <3>2, <3>3, NobodyIsUp DEF MockInv, Kept
    <2>5. CASE log.there /\ ~removed
        <3>1. log' = log /\ run'.stale
            BY <2>2, <2>3, <2>5
        <3>. QED
            BY <2>4, <3>1 DEF MockInv
    <2>6. CASE ~log.there
        <3>1. log' = log
            BY <2>2, <2>6
        <3>. QED
            BY <2>4, <2>6, <3>1 DEF MockInv
    <2>7. CASE log.there /\ removed
        <3>1. log' = NoLog
            BY <2>2, <2>7
        <3>. QED
            BY <2>4, <3>1, LogOpens
    <2>. QED
        BY <2>5, <2>6, <2>7
<1>3. CASE EndAttempt
    <2>1. mock' = NoServers /\ log' = log /\ made' = made /\ run.pc = "invoke"
        BY <1>3 DEF EndAttempt
    <2>2. RunShape' /\ run'.pc \in {"attempt", "apply", "done"} /\ ~Kept' /\ run'.stale = run.stale
          /\ run'.attempt = run.attempt
        BY <1>3, <2>1 DEF EndAttempt, MockInv, RunShape, Kept
    <2>3. ~run'.stale => LogIsOfTheAttempt'
        BY <2>1, <2>2 DEF MockInv, LogIsOfTheAttempt
    <2>4. \A s \in Servers : ServerInv(mock[s])'
        BY <2>1, NobodyIsUp DEF ServerInv
    <2>. QED
        BY <2>1, <2>2, <2>3, <2>4, NobodyIsUp DEF MockInv
<1>4. CASE ApplyOutcome
    <2>1. mock' = mock /\ mock = NoServers /\ log' = log /\ made' = made /\ run.pc = "apply"
        BY <1>4 DEF ApplyOutcome, MockInv
    <2>2. RunShape' /\ run'.pc = "done" /\ run'.stale = run.stale /\ run'.attempt = run.attempt
          /\ run'.reported = {e \in Logged(log) : Broken(e)}
        BY <1>4, <2>1 DEF ApplyOutcome, MockInv, RunShape
    <2>3. ~run'.stale => LogIsOfTheAttempt'
        BY <2>1, <2>2 DEF MockInv, LogIsOfTheAttempt
    <2>4. \A s \in Servers : ServerInv(mock[s])'
        BY <2>1, NobodyIsUp DEF ServerInv
    <2>5. run'.reported = {e \in Logged(log') : Broken(e)'}
        BY <2>1, <2>2 DEF Broken, Answer, MockFiles
    <2>. QED
        BY <2>1, <2>2, <2>3, <2>4, <2>5, NobodyIsUp DEF MockInv
<1>. QED
    BY <1>1, <1>2, <1>3, <1>4

\* The steps of one server: it opens the log before it takes a call, and answers
\* no call that is not in it.
LEMMA ServerSteps ==
    ASSUME MockInv, NEW s \in Servers,
           ServerStarts(s) \/ ServerReceives(s) \/ ServerLogs(s) \/ ServerAnswers(s) \/ ServerStops(s)
    PROVE  MockInv'
<1>1. /\ mock \in [Servers -> ServerStates] /\ mock[s] \in ServerStates /\ ServerInv(mock[s])
      /\ run' = run /\ GoodLog(log) /\ RunShape
    BY DEF MockInv, ServerStarts, ServerReceives, ServerLogs, ServerAnswers, ServerStops
<1>2. run.pc = "invoke" /\ ~Kept /\ ~Kept'
    <2>1. mock[s].pc = "down" => run.pc = "invoke"
        BY DEF ServerStarts, Invoked, ServerReceives, ServerLogs, ServerAnswers, ServerStops
    <2>. QED
        BY <1>1, <2>1, NobodyIsUp DEF MockInv, Kept
<1>3. ASSUME NEW new \in ServerStates, mock' = [mock EXCEPT ![s] = new],
             GoodLog(log'), log.there => log'.there, Rendered(log) \subseteq Rendered(log'),
             made' = [sent |-> made'.sent, answered |-> made'.answered, up |-> made'.up],
             made'.sent \in Nat, made'.up \in BOOLEAN, made.up => made'.up,
             ServerInv(new)', ~run.stale => LogIsOfTheAttempt'
      PROVE  MockInv'
    <2>1. mock' \in [Servers -> ServerStates] /\ mock'[s] = new /\ \A q \in Servers \ {s} : mock'[q] = mock[q]
        BY <1>1, <1>3
    <2>2. RunShape'
        BY <1>1, <1>3 DEF RunShape
    <2>3. ASSUME NEW q \in Servers PROVE ServerInv(mock[q])'
        <3>1. CASE q = s
            BY <1>3, <2>1, <3>1 DEF ServerInv
        <3>2. CASE q # s
            <4>1. mock'[q] = mock[q] /\ ServerInv(mock[q])
                BY <2>1, <3>2 DEF MockInv
            <4>. QED
                BY <1>1, <1>3, <4>1 DEF ServerInv
        <3>. QED
            BY <3>1, <3>2
    <2>. QED
        BY <1>1, <1>2, <1>3, <2>1, <2>2, <2>3 DEF MockInv
<1>4. ~run.stale => LogIsOfTheAttempt
    BY <1>2 DEF MockInv
<1>5. made = [sent |-> made.sent, answered |-> made.answered, up |-> made.up] /\ made.sent \in Nat /\ made.up \in BOOLEAN
    BY <1>1 DEF RunShape
<1>6. CASE ServerStarts(s)
    <2>1. CASE /\ mock' = [mock EXCEPT ![s].pc = "ready"] /\ log' = Opened(log)
               /\ made' = [made EXCEPT !.up = TRUE]
        <3>0. PICK new : new = [mock[s] EXCEPT !.pc = "ready"]
            OBVIOUS
        <3>1. new \in ServerStates /\ new.pc = "ready" /\ mock' = [mock EXCEPT ![s] = new]
            BY <1>1, <2>1, <3>0 DEF ServerStates
        <3>2. GoodLog(log') /\ log'.there /\ Rendered(log') = Rendered(log)
            BY <1>1, <2>1, LogOpens
        <3>3. made' = [sent |-> made'.sent, answered |-> made'.answered, up |-> made'.up]
              /\ made'.sent \in Nat /\ made'.up = TRUE /\ made'.answered = made.answered
            BY <1>5, <2>1
        <3>4. ~run.stale => LogIsOfTheAttempt'
            BY <1>1, <1>4, <3>2, <3>3 DEF LogIsOfTheAttempt
        <3>5. ServerInv(new)'
            BY <3>1, <3>2, <3>3 DEF ServerInv
        <3>. QED
            BY <1>3, <3>1, <3>2, <3>3, <3>4, <3>5
    <2>2. CASE mock' = [mock EXCEPT ![s].pc = "gone"] /\ UNCHANGED <<log, made>>
        <3>0. PICK new : new = [mock[s] EXCEPT !.pc = "gone"]
            OBVIOUS
        <3>1. new \in ServerStates /\ new.pc = "gone" /\ mock' = [mock EXCEPT ![s] = new]
            BY <1>1, <2>2, <3>0 DEF ServerStates
        <3>2. ~run.stale => LogIsOfTheAttempt'
            BY <1>1, <1>4, <2>2 DEF LogIsOfTheAttempt
        <3>3. ServerInv(new)'
            BY <3>1 DEF ServerInv
        <3>. QED
            BY <1>1, <1>3, <1>5, <2>2, <3>1, <3>2, <3>3
    <2>. QED
        BY <1>6, <2>1, <2>2 DEF ServerStarts
<1>7. CASE ServerReceives(s)
    <2>1. PICK call \in Calls : mock' = [mock EXCEPT ![s] = [pc |-> "log", call |-> <<Entry(call)>>]]
        BY <1>7 DEF ServerReceives
    <2>2. PICK e \in Entries : e = Entry(call) /\ e.attempt = run.attempt
        <3>1. Entry(call) \in Entries /\ Entry(call).attempt = run.attempt
            BY <1>1, <1>5 DEF Entry, Entries, RunShape
        <3>. QED
            BY <3>1
    <2>3. PICK new \in ServerStates : new = [pc |-> "log", call |-> <<e>>] /\ new.pc = "log" /\ new.call[1] = e
        <3>1. [pc |-> "log", call |-> <<e>>] \in ServerStates
            BY DEF ServerStates
        <3>. QED
            BY <3>1
    <2>4. mock[s].pc = "ready" /\ made' = [made EXCEPT !.sent = @ + 1] /\ log' = log
        BY <1>7 DEF ServerReceives
    <2>5. made' = [sent |-> made'.sent, answered |-> made'.answered, up |-> made'.up]
          /\ made'.sent \in Nat /\ made'.up = made.up /\ made'.answered = made.answered
        BY <1>5, <2>4
    <2>6. ~run.stale => LogIsOfTheAttempt'
        BY <1>1, <1>4, <2>4, <2>5 DEF LogIsOfTheAttempt
    <2>7. ServerInv(new)'
        BY <1>1, <2>2, <2>3, <2>4, <2>5 DEF ServerInv
    <2>. QED
        BY <1>1, <1>3, <1>5, <2>1, <2>2, <2>3, <2>4, <2>5, <2>6, <2>7
<1>8. CASE ServerLogs(s)
    <2>1. PICK e \in Entries : e = mock[s].call[1] /\ e.attempt = run.attempt
        BY <1>1, <1>8 DEF ServerLogs, ServerInv
    <2>2. mock[s].pc = "log" /\ made' = made /\ made.up /\ log.there
        BY <1>1, <1>8 DEF ServerLogs, ServerInv
    <2>3. PICK pc \in {"answer", "gone"} :
             /\ mock' = [mock EXCEPT ![s].pc = pc]
             /\ \/ log' = Appended(log, e, TRUE)
                \/ pc = "gone" /\ (log' = log \/ log' = Appended(log, e, FALSE))
        BY <1>8, <2>1 DEF ServerLogs
    <2>4. PICK new : new = [mock[s] EXCEPT !.pc = pc]
        OBVIOUS
    <2>5. new \in ServerStates /\ new.pc = pc /\ new.call = mock[s].call /\ mock' = [mock EXCEPT ![s] = new]
        BY <1>1, <2>3, <2>4 DEF ServerStates
    <2>6. \A whole \in BOOLEAN :
             /\ GoodLog(Appended(log, e, whole)) /\ Appended(log, e, whole).there
             /\ Rendered(Appended(log, e, whole)) = Rendered(log) \cup {e}
        BY <1>1, LogGrows
    <2>7. /\ GoodLog(log') /\ log'.there
          /\ Rendered(log) \subseteq Rendered(log') /\ Rendered(log') \subseteq Rendered(log) \cup {e}
          /\ pc = "answer" => e \in Rendered(log')
        <3>1. CASE log' = log
            BY <1>1, <2>2, <2>3, <2>6, <3>1
        <3>2. ASSUME NEW whole \in BOOLEAN, log' = Appended(log, e, whole) PROVE Rendered(log') = Rendered(log) \cup {e} /\ GoodLog(log') /\ log'.there
            BY <2>6, <3>2
        <3>. QED
            BY <2>3, <3>1, <3>2
    <2>8. ~run.stale => LogIsOfTheAttempt'
        BY <1>1, <1>4, <2>1, <2>2, <2>7 DEF LogIsOfTheAttempt
    <2>9. ServerInv(new)'
        BY <1>1, <2>1, <2>2, <2>5, <2>7 DEF ServerInv
    <2>. QED
        BY <1>1, <1>3, <1>5, <2>2, <2>5, <2>7, <2>8, <2>9
<1>9. CASE ServerAnswers(s) \/ ServerStops(s)
    <2>. DEFINE e == mock[s].call[1]
    <2>1. /\ log' = log
          /\ \/ mock[s].pc = "answer" /\ made' = [made EXCEPT !.answered = @ \cup {e}]
             \/ made' = made
          /\ \E new \in {[pc |-> "ready", call |-> <<>>], NoServers[s]} :
                mock' = [mock EXCEPT ![s] = new] /\ (new.pc = "ready" => mock[s].pc = "answer")
        <3>1. CASE ServerAnswers(s)
            BY <3>1 DEF ServerAnswers
        <3>2. CASE ServerStops(s)
            BY <3>2, NobodyIsUp DEF ServerStops
        <3>. QED
            BY <1>9, <3>1, <3>2
    <2>2. PICK new \in {[pc |-> "ready", call |-> <<>>], NoServers[s]} :
             mock' = [mock EXCEPT ![s] = new] /\ (new.pc = "ready" => mock[s].pc = "answer")
        BY <2>1
    <2>3. new \in ServerStates /\ new.pc \in {"ready", "down"}
        BY NobodyIsUp DEF ServerStates
    <2>4. mock[s].pc = "answer" => e \in Rendered(log) /\ made.up /\ log.there
        BY <1>1 DEF ServerInv
    <2>. HIDE DEF e
    <2>5. /\ made' = [sent |-> made'.sent, answered |-> made'.answered, up |-> made'.up]
          /\ made'.sent \in Nat /\ made'.up = made.up
          /\ \/ made'.answered = made.answered
             \/ mock[s].pc = "answer" /\ made'.answered = made.answered \cup {e}
        BY <1>5, <2>1
    <2>6. ~run.stale => LogIsOfTheAttempt'
        BY <1>1, <1>4, <2>1, <2>4, <2>5 DEF LogIsOfTheAttempt
    <2>7. ServerInv(new)'
        BY <2>1, <2>2, <2>3, <2>4, <2>5 DEF ServerInv
    <2>. QED
        BY <1>1, <1>3, <1>5, <2>1, <2>2, <2>3, <2>5, <2>6, <2>7
<1>. QED
    BY <1>6, <1>7, <1>8, <1>9

\* Every step of a mocked run.
LEMMA MockSteps ==
    ASSUME MockInv, [MockRunNext]_mockVars
    PROVE  MockInv'
<1>1. CASE UNCHANGED mockVars
    <2>1. UNCHANGED <<run, log, mock, made>>
        BY <1>1 DEF mockVars
    <2>2. (Kept' <=> Kept) /\ (LogIsOfTheAttempt' <=> LogIsOfTheAttempt) /\ RunShape' /\ GoodLog(log)'
        BY <2>1 DEF MockInv, Kept, LogIsOfTheAttempt, RunShape
    <2>3. \A s \in Servers : ServerInv(mock[s])'
        BY <2>1 DEF MockInv, ServerInv
    <2>4. Kept => run'.reported = {e \in Logged(log') : Broken(e)'}
        BY <2>1 DEF MockInv, Broken, Answer, MockFiles
    <2>. QED
        BY <2>1, <2>2, <2>3, <2>4 DEF MockInv
<1>. QED
    BY <1>1, RunSteps, ServerSteps DEF MockRunNext

\* A mocked run starts with nothing logged and no server up.
LEMMA MockStarts == MockRunInit(TRUE) => MockInv
<1>1. SUFFICES ASSUME MockRunInit(TRUE) PROVE MockInv
    OBVIOUS
<1>2. log = NoLog /\ mock = NoServers /\ made = NoCalls
    BY <1>1 DEF MockRunInit
<1>3. PICK t \in BOOLEAN : run = [NoRun EXCEPT !.pc = "materialize", !.traced = t]
    BY <1>1 DEF MockRunInit
<1>4. RunShape /\ run.pc = "materialize"
    BY <1>2, <1>3 DEF RunShape, NoRun, NoCalls
<1>5. GoodLog(log)
    BY <1>2, LogOpens
<1>. QED
    BY <1>2, <1>4, <1>5, NobodyIsUp DEF MockInv, ServerInv, Kept

(* What is read back of the mocks of a run is the attempt that was kept: no call of
   an attempt that was thrown away, every call that was answered, and every broken
   expectation whose line was not torn, through any retries, failed writes, server
   restarts and interleavings of their lines (discard_mock_calls_from_earlier_attempts,
   append_call_log, read_mock_violations). *)
THEOREM LogsAreRead == MockRunSpec => []CallsReachTheLog
<1>1. MockRunInit(TRUE) => MockInv
    BY MockStarts
<1>2. MockInv /\ [MockRunNext]_mockVars => MockInv'
    BY MockSteps
<1>3. MockInv => CallsReachTheLog
    BY ReadBack
<1>. QED
    BY <1>1, <1>2, <1>3, PTL DEF MockRunSpec
==============================================================================
