----------------------------- MODULE ProxyBridge -----------------------------
(* trg mcp proxy, from its start to its exit: what is settled before a bridge *)
(* exists, the sign-in it may wait for, the pump between the host's pipes and *)
(* the remote server, the refusal that answers when there is no bridge, and   *)
(* the spans telemetry.rs keeps of every request.                             *)
EXTENDS BrowserFlow, FiniteSets

CONSTANTS
    RequestIds,     \* the ids a host uses, each once
    MaxStdin,       \* bound on the host's unread messages
    MaxOutbox       \* bound on the remote's unread messages

VARIABLES
    proxy,      \* pc, exit, whether stdin and stderr are terminals, rmcp's worker, the grace
    hostEnd,    \* "open"; "eof": stdin closed; "gone": stdout closed too
    stdin,      \* the host's messages, unread
    asked,      \* the ids the host has used
    outbox,     \* the remote's messages, unread
    inFlight,   \* Session::in_flight
    ends,       \* for each id, how its span was ended, as often as it was
    told        \* the ids of read requests the remote's answer was read for

bridgeVars == <<proxy, hostEnd, stdin, asked, outbox, inFlight, ends, told>>

Other == [kind |-> "other"]
Req(id) == [kind |-> "request", id |-> id]
Ans(id) == [kind |-> "answer", id |-> id]

\* The requests taken off stdin so far.
Read == {id \in asked : \A i \in 1..Len(stdin) : stdin[i] # Req(id)}

NoProxy == [pc |-> "off", exit |-> "none", stdinTty |-> FALSE, stderrTty |-> FALSE,
            worker |-> "none", grace |-> FALSE]

BridgeInit(on) ==
    /\ FlowInit
    /\ IF on
       THEN \E i, e \in BOOLEAN :
               proxy = [NoProxy EXCEPT !.pc = "startup", !.stdinTty = i, !.stderrTty = e]
       ELSE proxy = NoProxy
    /\ hostEnd = "open" /\ stdin = <<>> /\ asked = {} /\ outbox = <<>>
    /\ inFlight = {} /\ ends = [id \in RequestIds |-> <<>>] /\ told = {}

GoTo(pc) == proxy' = [proxy EXCEPT !.pc = pc]

\* finish: every request still in flight is abandoned, and the session ends.
Finish(exit) ==
    /\ proxy' = [proxy EXCEPT !.pc = "ended", !.exit = exit]
    /\ ends' = [id \in RequestIds |->
                   IF id \in inFlight THEN Append(ends[id], "abandoned") ELSE ends[id]]
    /\ inFlight' = {}

Piped == UNCHANGED <<hostEnd, stdin, asked, outbox, inFlight, ends, told>>
Calm == UNCHANGED flowVars /\ Piped

------------------------------------------------------------------------------
(* Before the bridge                                                          *)

\* main resolves configuration and backend; serve builds the transport's
\* configuration, whose failure is not answered over the pipes.
Startup ==
    /\ proxy.pc = "startup"
    /\ \/ GoTo("refuse") /\ Piped
       \/ GoTo("ensure") /\ Piped
       \/ Finish("failed") /\ UNCHANGED <<hostEnd, stdin, asked, outbox, told>>
    /\ UNCHANGED flowVars

\* ensure: no authorization needed, a usable grant, a failure, or a sign-in.
Ensure ==
    /\ proxy.pc = "ensure"
    /\ \/ GoTo("client") /\ Calm
       \/ GoTo("connect") /\ Calm
       \/ GoTo("refuse") /\ Calm
       \/ GoTo("sign_in") /\ Piped /\ StartFlow(proxy.stdinTty, proxy.stderrTty)

\* The flow's store confirms what was saved; MissingAfterFlow otherwise.
Confirm ==
    /\ proxy.pc = "sign_in" /\ flow.pc = "done"
    /\ \/ flow.result = "granted" /\ GoTo("connect")
       \/ GoTo("refuse")
    /\ Calm

\* default_http_client, without authorization only.
BuildClient ==
    /\ proxy.pc = "client"
    /\ \/ GoTo("connect") /\ Piped
       \/ Finish("failed") /\ UNCHANGED <<hostEnd, stdin, asked, outbox, told>>
    /\ UNCHANGED flowVars

\* The token is refreshed, or the first request meets the failure; the
\* transport starts its worker.
Connect ==
    /\ proxy.pc = "connect"
    /\ proxy' = [proxy EXCEPT !.pc = "bridge", !.worker = "idle"]
    /\ Calm

\* refuse_over_stdio: a terminal has no host to answer. The span of a request is
\* ended as refused before the refusal is sent.
Refuse ==
    /\ proxy.pc = "refuse"
    /\ \/ /\ proxy.stdinTty \/ (stdin = <<>> /\ hostEnd # "open")
          /\ Finish("failed")
          /\ UNCHANGED stdin
       \/ /\ ~proxy.stdinTty /\ stdin # <<>>
          /\ stdin' = Tail(stdin)
          /\ IF Head(stdin).kind # "request" THEN UNCHANGED <<proxy, ends>>
             ELSE /\ ends' = [ends EXCEPT ![Head(stdin).id] = Append(@, "refused")]
                  /\ GoTo("refusing")
          /\ UNCHANGED inFlight
    /\ UNCHANGED <<flowVars, hostEnd, asked, outbox, told>>

\* local.send of a refusal returns.
SendRefusal ==
    /\ proxy.pc = "refusing"
    /\ IF hostEnd = "gone"
       THEN proxy' = [proxy EXCEPT !.pc = "ended", !.exit = "failed"]
       ELSE GoTo("refuse")
    /\ Calm

------------------------------------------------------------------------------
(* The bridge                                                                 *)

\* local.receive: a message to forward, or the end of stdin. While the worker
\* has not taken the message, the loop looks at nothing else.
FromHost ==
    /\ proxy.pc = "bridge"
    /\ \/ /\ stdin = <<>> /\ hostEnd # "open"
          /\ proxy' = [proxy EXCEPT !.pc = "close", !.exit = "host_eof"]
          /\ UNCHANGED <<stdin, inFlight>>
       \/ /\ stdin # <<>>
          /\ stdin' = Tail(stdin)
          /\ inFlight' = IF Head(stdin).kind = "request"
                         THEN inFlight \cup {Head(stdin).id} ELSE inFlight
          /\ GoTo("forward")
    /\ UNCHANGED <<flowVars, hostEnd, asked, outbox, ends, told>>

\* remote.send returns.
Forward ==
    /\ proxy.pc = "forward"
    /\ \/ /\ proxy.worker # "gone"
          /\ proxy' = [proxy EXCEPT !.pc = "bridge",
                          !.worker = IF @ = "idle" THEN "fresh" ELSE @]
       \/ /\ proxy.worker # "idle"
          /\ proxy' = [proxy EXCEPT !.pc = "close", !.exit = "remote_closed"]
    /\ Calm

\* Mutant: any message of the remote with the id of a request ends its span.
CarriesAnId(m) == m.kind # "other"

\* on_remote_message: a response or an error, never a request of the server.
Answers(m) == m.kind = "answer"

\* remote.receive: a message to pass on, or the end of the worker. The span it
\* answers is ended before the host has it.
FromRemote ==
    /\ proxy.pc = "bridge"
    /\ \/ /\ outbox # <<>>
          /\ LET m == Head(outbox)
                 known == Answers(m) /\ m.id \in inFlight IN
             /\ inFlight' = IF known THEN inFlight \ {m.id} ELSE inFlight
             /\ ends' = IF known THEN [ends EXCEPT ![m.id] = Append(@, "answered")] ELSE ends
             /\ told' = IF m.kind = "answer" THEN told \cup ({m.id} \cap Read) ELSE told
          /\ outbox' = Tail(outbox)
          /\ GoTo("deliver")
       \/ /\ outbox = <<>> /\ proxy.worker = "gone"
          /\ proxy' = [proxy EXCEPT !.pc = "close", !.exit = "remote_closed"]
          /\ UNCHANGED <<inFlight, ends, told, outbox>>
    /\ UNCHANGED <<flowVars, hostEnd, stdin, asked>>

\* local.send returns; until then the loop looks at nothing else.
Deliver ==
    /\ proxy.pc = "deliver"
    /\ IF hostEnd = "gone"
       THEN proxy' = [proxy EXCEPT !.pc = "close", !.exit = "local_closed"]
       ELSE GoTo("bridge")
    /\ Calm

\* rmcp's worker watches for cancellation only between messages.
HeedsCancel == proxy.worker \in {"running", "gone"}

\* Mutant: the close is awaited without a bound.
CloseAwaited == HeedsCancel

\* close_remote: the close returned, or WORKER_SHUTDOWN_GRACE has passed.
CloseReturns == HeedsCancel \/ proxy.grace

Close ==
    /\ proxy.pc = "close" /\ CloseReturns
    /\ Finish(proxy.exit)
    /\ UNCHANGED <<flowVars, hostEnd, stdin, asked, outbox, told>>

GraceOver ==
    /\ proxy.pc = "close" /\ ~proxy.grace
    /\ proxy' = [proxy EXCEPT !.grace = TRUE]
    /\ Calm

------------------------------------------------------------------------------
(* External: the host, rmcp's worker and the remote server                    *)

HostSends ==
    /\ proxy.pc \notin {"off", "ended"} /\ ~proxy.stdinTty
    /\ hostEnd = "open" /\ Len(stdin) < MaxStdin
    /\ \/ stdin' = Append(stdin, Other) /\ UNCHANGED asked
       \/ \E id \in RequestIds \ asked : /\ stdin' = Append(stdin, Req(id))
                                         /\ asked' = asked \cup {id}
    /\ UNCHANGED <<flowVars, proxy, hostEnd, outbox, inFlight, ends, told>>

\* A host closes stdin and goes on reading, or dies.
HostLeaves ==
    /\ proxy.pc \notin {"off", "ended"} /\ hostEnd # "gone"
    /\ hostEnd' \in {"eof", "gone"} \ {hostEnd}
    /\ UNCHANGED <<flowVars, proxy, stdin, asked, outbox, inFlight, ends, told>>

\* The first request is answered and `initialized` sent, or the worker ends.
WorkerMoves ==
    /\ \/ proxy.worker = "fresh" /\ proxy' = [proxy EXCEPT !.worker = "running"]
       \/ proxy.worker \in {"fresh", "running"} /\ proxy' = [proxy EXCEPT !.worker = "gone"]
    /\ proxy.pc # "ended"
    /\ Calm

\* Answers may come twice, or for nobody; requests may carry the host's ids.
RemoteSends ==
    /\ proxy.pc # "ended" /\ proxy.worker \in {"fresh", "running"} /\ Len(outbox) < MaxOutbox
    /\ \E m \in {Other} \cup {Req(id) : id \in RequestIds} \cup {Ans(id) : id \in RequestIds} :
          outbox' = Append(outbox, m)
    /\ UNCHANGED <<flowVars, proxy, hostEnd, stdin, asked, inFlight, ends, told>>

------------------------------------------------------------------------------

ProxyStep == \/ Startup \/ Ensure \/ Confirm \/ BuildClient \/ Connect
             \/ Refuse \/ SendRefusal \/ Forward \/ Deliver \/ Close

\* Steps that end when somebody else lets them, and trg sets no limit: the secrets
\* and stores it reads at the start and after a sign-in, discovery and the refresh of
\* the token, the POST of a message, and a host that does not read what it is sent.
ProxyWaits ==
    \/ proxy.pc \in {"startup", "ensure", "connect"}
    \/ proxy.pc = "sign_in" /\ (FlowWaits \/ flow.result = "granted")
    \/ proxy.pc = "forward" /\ proxy.worker # "gone"
    \/ proxy.pc \in {"refusing", "deliver"} /\ hostEnd # "gone"

BridgeNext ==
    \/ ProxyStep \/ GraceOver \/ FromHost \/ FromRemote
    \/ HostSends \/ HostLeaves \/ WorkerMoves \/ RemoteSends
    \/ FlowNext /\ UNCHANGED bridgeVars

\* A proxy by itself.
BridgeSpec == BridgeInit(TRUE) /\ [][BridgeNext]_<<flowVars, bridgeVars>>

\* The proxy's own steps, the clock, and tokio::select!, which polls its arms
\* in a random order: an arm that is ready turn after turn is taken.
BridgeFairness ==
    /\ FlowFairness
    /\ WF_bridgeVars(~ProxyWaits /\ ProxyStep) /\ WF_bridgeVars(GraceOver)
    /\ SF_bridgeVars(FromHost)

------------------------------------------------------------------------------

(* Every request read from the host has one span and the span ends once:      *)
(* answered exactly when the remote's answer to it was read, whether or not   *)
(* the host still got it, however often it is answered and whatever requests  *)
(* of its own the server numbers alike;                                       *)
(* refused when there was no bridge; abandoned when the proxy ended first. No *)
(* request is left open when the proxy has ended.                             *)
RequestsEndOnce ==
    \A id \in RequestIds :
        /\ (id \in inFlight) = (id \in Read /\ ends[id] = <<>>)
        /\ Len(ends[id]) <= 1
        /\ (ends[id] = <<"answered">>) = (id \in told)
        /\ proxy.pc = "ended" => id \notin inFlight

(* Once the host has closed stdin the proxy ends, however busy the remote     *)
(* keeps it and though rmcp's worker may never heed its cancellation, unless  *)
(* one step waits for ever for somebody trg sets no limit: the select loop is *)
(* blocked by a message the remote does not take or the host does not read.   *)
HostEofEndsProxy == <>[]ProxyWaits \/ [](hostEnd # "open" => <>(proxy.pc = "ended"))
=============================================================================
