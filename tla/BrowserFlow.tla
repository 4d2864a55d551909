---------------------------- MODULE BrowserFlow ----------------------------
(* oauth/flow.rs: one interactive sign-in, from the check for a terminal to   *)
(* the exchange of the code, with the loopback server whose thread queues     *)
(* what browsers send while the flow is elsewhere.                            *)
EXTENDS Naturals, Sequences

CONSTANTS
    MaxInbox    \* bound on the requests waiting in the loopback server

ASSUME InboxAssumption == MaxInbox \in Nat \ {0}

VARIABLES
    flow,       \* pc, whether the browser opened, what ended the wait, the result
    inbox,      \* requests the loopback server has accepted and nobody has read
    late,       \* overall_timeout has passed since the wait began
    pages       \* the pages a browser was shown that say how the flow went

flowVars == <<flow, inbox, late, pages>>

\* A redirect with this flow's state; one with another state; a provider's
\* error; a path that is not the callback's; a callback with a part missing.
Requests == {"match", "mismatch", "provider", "stray", "partial"}

NoFlow == [pc |-> "idle", opened |-> TRUE, got |-> "nothing", result |-> "none"]

FlowInit == /\ flow = NoFlow /\ inbox = <<>> /\ late = FALSE /\ pages = {}

FlowEnds(result) == flow' = [flow EXCEPT !.pc = "done", !.result = result]

\* Server::http has bound its port and the flow has not returned.
Listening == flow.pc \in {"register", "open", "head", "recv", "exchange", "credentials"}

\* authorize: a person must be able to see and to answer.
StartFlow(stdinTty, stderrTty) ==
    /\ flow.pc = "idle"
    /\ IF stdinTty /\ stderrTty
       THEN flow' = [flow EXCEPT !.pc = "bind"]
       ELSE FlowEnds("not_a_terminal")
    /\ UNCHANGED <<inbox, late, pages>>

Bind ==
    /\ flow.pc = "bind"
    /\ \/ flow' = [flow EXCEPT !.pc = "register"]
       \/ FlowEnds("bind_failed")
    /\ UNCHANGED <<inbox, late, pages>>

\* AuthorizationSession::new, and the state in the URL it gives.
RegisterClient ==
    /\ flow.pc = "register"
    /\ \/ flow' = [flow EXCEPT !.pc = "open"]
       \/ FlowEnds("oauth")
    /\ UNCHANGED <<inbox, late, pages>>

\* A browser that does not open is only held against a flow that times out:
\* the URL was printed too.
OpenBrowser ==
    /\ flow.pc = "open"
    /\ \E opened \in BOOLEAN : flow' = [flow EXCEPT !.pc = "head", !.opened = opened]
    /\ UNCHANGED <<inbox, late, pages>>

\* External: any program of the machine may speak to the port, this flow's
\* redirect only once its URL exists.
Arrive ==
    /\ Listening /\ Len(inbox) < MaxInbox
    /\ \E r \in Requests :
          /\ r = "match" => flow.pc \notin {"register"}
          /\ inbox' = Append(inbox, r)
    /\ UNCHANGED <<flow, late, pages>>

Deadline ==
    /\ flow.pc \in {"head", "recv"} /\ ~late
    /\ late' = TRUE
    /\ UNCHANGED <<flow, inbox, pages>>

\* Mutant: requests that are nobody's callback keep the wait alive.
NeverExpires == FALSE

\* elapsed >= overall_timeout
Expired == late

\* What a wait that timed out is reported as.
TimeoutResult == IF flow.opened THEN "timeout" ELSE "browser_open_failed"

\* wait_for_callback, the head of the loop
WaitHead ==
    /\ flow.pc = "head"
    /\ IF Expired THEN FlowEnds(TimeoutResult) ELSE flow' = [flow EXCEPT !.pc = "recv"]
    /\ UNCHANGED <<inbox, late, pages>>

\* recv_timeout gives up, or fails.
ReceiveNothing ==
    /\ flow.pc = "recv" /\ inbox = <<>>
    /\ flow' = [flow EXCEPT !.pc = "head"]
    /\ UNCHANGED <<inbox, late, pages>>

\* Mutant: the time is looked at again after the page was sent.
AnsweredInTime(r) == r \in {"match", "mismatch", "provider"} /\ ~late

\* The requests wait_for_callback returns for.
Decides(r) == r \in {"match", "mismatch", "provider"}

\* The page a request is answered with, unless it says nothing of the flow.
PageFor(r) == CASE r = "match" -> {"authorized"}
                [] r = "provider" -> {"failed"}
                [] OTHER -> {}

\* recv_timeout gives the oldest request, even one that came just too late.
Receive ==
    /\ flow.pc = "recv" /\ inbox # <<>>
    /\ LET r == Head(inbox) IN
       /\ pages' = pages \cup PageFor(r)
       /\ IF ~Decides(r) THEN flow' = [flow EXCEPT !.pc = "head"]
          ELSE CASE r = "match" -> flow' = [flow EXCEPT !.pc = "exchange", !.got = r]
                 [] r = "mismatch" ->
                       flow' = [flow EXCEPT !.pc = "done", !.got = r, !.result = "state_mismatch"]
                 [] r = "provider" ->
                       flow' = [flow EXCEPT !.pc = "done", !.got = r, !.result = "provider_error"]
    /\ inbox' = Tail(inbox)
    /\ UNCHANGED late

\* handle_callback trades the code for tokens and saves them.
ExchangeCode ==
    /\ flow.pc = "exchange"
    /\ \/ flow' = [flow EXCEPT !.pc = "credentials"]
       \/ FlowEnds("oauth")
    /\ UNCHANGED <<inbox, late, pages>>

\* get_credentials reads back whose they are.
GetCredentials ==
    /\ flow.pc = "credentials"
    /\ \/ FlowEnds("granted")
       \/ FlowEnds("oauth")
    /\ UNCHANGED <<inbox, late, pages>>

FlowStep ==
    \/ Bind \/ RegisterClient \/ OpenBrowser
    \/ WaitHead \/ ReceiveNothing \/ Receive
    \/ ExchangeCode \/ GetCredentials

FlowNext == FlowStep \/ Arrive \/ Deadline

\* Steps that end when somebody else lets them, and trg sets no limit: the
\* provider it registers and trades the code with, the program open::that starts
\* and waits for, the keychain.
FlowWaits == flow.pc \in {"register", "open", "exchange", "credentials"}

\* The flow's own steps and the clock.
FlowFairness == WF_flowVars(~FlowWaits /\ FlowStep) /\ WF_flowVars(Deadline)

------------------------------------------------------------------------------

(* What a person reads in the browser agrees with what the terminal says: the *)
(* page "Authorized, trg is finishing" is never followed by a flow that timed *)
(* out or blames the provider, whenever the redirect came and whatever came   *)
(* before it; "Nothing was stored" never goes with a stored grant; and a      *)
(* grant is never stored behind the back of a person who was not told.        *)
PagesTellTheTruth ==
    /\ flow.result # "none" /\ "authorized" \in pages => flow.result \in {"granted", "oauth"}
    /\ "failed" \in pages => flow.result \notin {"granted"} /\ flow.pc \notin {"exchange", "credentials"}
    /\ flow.result = "granted" => "authorized" \in pages

(* A sign-in that was begun ends, whatever browsers, other programs of the    *)
(* machine or the person do or fail to do, unless it is for ever at one of    *)
(* the four calls nobody limits; the wait for the redirect is none of them.   *)
FlowComesToAnEnd == <>[]FlowWaits \/ [](flow.pc # "idle" => <>(flow.pc = "done"))
=============================================================================
