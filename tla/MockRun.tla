------------------------------- MODULE MockRun -------------------------------
(* One run of an eval case with mocks: execute_run materializes them, every   *)
(* attempt's harness is handed the launch configuration and starts the mock   *)
(* servers, whose processes share one call log, and what the kept attempt     *)
(* logged is read back. That an attempt leaves no process of its group behind *)
(* is HarnessGroups' NothingOutlivesItsRun and taken from there.              *)
EXTENDS Mocks

CONSTANTS
    Servers,        \* the servers the case declares mocks for
    SuiteMocks,     \* the mock files of the suite: by server and tool
    CaseMocks,      \* those of the case
    Calls,          \* the calls an agent may make: [server, tool, input]
    MaxAttempts,    \* --retries + 1
    MaxCalls        \* bound on the calls of an attempt

ASSUME AttemptsAssumption == MaxAttempts \in Nat \ {0}

VARIABLES
    run,        \* pc, attempt, whether a trace is active, the outcome, what is read back
    launch,     \* mcp-launch is there
    log,        \* mock-calls.jsonl
    mock,       \* each server's process: its state and the call it works on
    made        \* the calls of this attempt: those made, those answered, who came up

mockVars == <<run, launch, log, mock, made>>

NoRun == [pc |-> "off", attempt |-> 0, traced |-> FALSE, handed |-> TRUE,
          outcome |-> "none", stale |-> FALSE, reported |-> {}]
NoServers == [s \in Servers |-> [pc |-> "down", call |-> <<>>]]
NoCalls == [sent |-> 0, answered |-> {}, up |-> FALSE]

MockRunInit(on) ==
    /\ \E t \in BOOLEAN : run = IF on THEN [NoRun EXCEPT !.pc = "materialize", !.traced = t] ELSE NoRun
    /\ launch = FALSE /\ log = NoLog /\ mock = NoServers /\ made = NoCalls

\* The resolved set, or an error of the case before anything runs.
MockFiles == MockSet(SuiteMocks, CaseMocks)
Declared(call) == <<call.server, call.tool>> \in DOMAIN MockFiles
Answer(call) == ResolveCall(ParseMock(MockFiles[<<call.server, call.tool>>]), call.input)

\* The entry of a call that broke an expectation.
Broken(entry) == Answer(entry.call).violations # {}

------------------------------------------------------------------------------
(* The run                                                                    *)

\* materialize_mock_set_for_run, without a trace's environment.
Materialize ==
    /\ run.pc = "materialize"
    /\ \/ launch' = TRUE /\ run' = [run EXCEPT !.pc = "attempt"]
       \/ /\ run' = [run EXCEPT !.pc = "done", !.outcome = "failed"]
          /\ launch' \in BOOLEAN
    /\ UNCHANGED <<log, mock, made>>

\* Mutant: the log of an attempt that is thrown away is emptied, not removed.
EmptiedLog == Opened(NoLog)

\* discard_mock_calls_from_earlier_attempts
DiscardedLog == NoLog

\* trace_mock_servers: the launch configuration is written again only when a
\* trace is active, and a failure to is ignored.
Rewrites == run.traced

\* The head of an attempt. A log that cannot be removed is only reported.
BeginAttempt ==
    /\ run.pc = "attempt"
    /\ \E removed \in BOOLEAN, written \in BOOLEAN :
          /\ log' = IF removed /\ log.there THEN DiscardedLog ELSE log
          /\ launch' = (launch \/ (Rewrites /\ written))
          /\ run' = [run EXCEPT !.pc = "invoke", !.attempt = @ + 1,
                        !.handed = launch', !.stale = log.there /\ ~removed]
    /\ made' = NoCalls
    /\ UNCHANGED mock

\* Runner::invoke ends: the group is gone, the launch configuration scrubbed,
\* which failing makes a runner error of the attempt. A harness whose
\* configuration is missing may fail to start or run without servers.
EndAttempt ==
    /\ run.pc = "invoke"
    /\ mock' = NoServers
    /\ \/ /\ launch' = FALSE
          /\ \/ run' = [run EXCEPT !.pc = "apply", !.outcome = "completed"]
             \/ /\ run' = [run EXCEPT !.outcome = "transient",
                              !.pc = IF run.attempt < MaxAttempts THEN "attempt" ELSE "apply"]
             \/ run' = [run EXCEPT !.pc = "done", !.outcome = "runner_error"]
       \/ /\ UNCHANGED launch
          /\ run' = [run EXCEPT !.pc = "done", !.outcome = "runner_error"]
    /\ UNCHANGED <<log, made>>

\* apply_outcome reads the violations of the attempt that is kept.
ApplyOutcome ==
    /\ run.pc = "apply"
    /\ run' = [run EXCEPT !.pc = "done", !.reported = {e \in Logged(log) : Broken(e)}]
    /\ UNCHANGED <<launch, log, mock, made>>

------------------------------------------------------------------------------
(* The mock servers                                                           *)

Invoked(s) == run.pc = "invoke" /\ run.handed

\* load_server_mocks, then open_call_log; either failing ends the server.
ServerStarts(s) ==
    /\ Invoked(s) /\ mock[s].pc = "down"
    /\ \/ /\ mock' = [mock EXCEPT ![s].pc = "ready"]
          /\ log' = Opened(log)
          /\ made' = [made EXCEPT !.up = TRUE]
       \/ /\ mock' = [mock EXCEPT ![s].pc = "gone"]
          /\ UNCHANGED <<log, made>>
    /\ UNCHANGED <<run, launch>>

Entry(call) == [attempt |-> run.attempt, n |-> made.sent + 1, call |-> call]

\* A tools/call of a declared tool; any other request is answered without a
\* trace in the log, and a notification not at all.
ServerReceives(s) ==
    /\ run.pc = "invoke" /\ mock[s].pc = "ready" /\ made.sent < MaxCalls
    /\ \E call \in Calls :
          /\ call.server = s /\ Declared(call)
          /\ mock' = [mock EXCEPT ![s] = [pc |-> "log", call |-> <<Entry(call)>>]]
    /\ made' = [made EXCEPT !.sent = @ + 1]
    /\ UNCHANGED <<run, launch, log>>

\* append_call_log; a failure, which may leave a part of the line, ends the
\* server before it has answered.
ServerLogs(s) ==
    /\ mock[s].pc = "log"
    /\ \/ /\ log' = Appended(log, mock[s].call[1], TRUE)
          /\ mock' = [mock EXCEPT ![s].pc = "answer"]
       \/ /\ log' \in {log, Appended(log, mock[s].call[1], FALSE)}
          /\ mock' = [mock EXCEPT ![s].pc = "gone"]
    /\ UNCHANGED <<run, launch, made>>

ServerAnswers(s) ==
    /\ mock[s].pc = "answer"
    /\ mock' = [mock EXCEPT ![s] = [pc |-> "ready", call |-> <<>>]]
    /\ made' = [made EXCEPT !.answered = @ \cup {mock[s].call[1]}]
    /\ UNCHANGED <<run, launch, log>>

\* The harness closes a server or starts it again.
ServerStops(s) ==
    /\ mock[s].pc # "down"
    /\ mock' = [mock EXCEPT ![s] = NoServers[s]]
    /\ UNCHANGED <<run, launch, log, made>>

MockRunNext ==
    \/ Materialize \/ BeginAttempt \/ EndAttempt \/ ApplyOutcome
    \/ \E s \in Servers : \/ ServerStarts(s) \/ ServerReceives(s) \/ ServerLogs(s)
                          \/ ServerAnswers(s) \/ ServerStops(s)

\* A run by itself.
MockRunSpec == MockRunInit(TRUE) /\ [][MockRunNext]_mockVars

------------------------------------------------------------------------------

Kept == run.pc = "done" /\ run.outcome \in {"completed", "transient"}

(* What is read back of the mocks is the attempt that was kept: every call    *)
(* the agent got an answer to is in the log a judge is shown, no call of an   *)
(* attempt that was thrown away is, the log is missing exactly when no server *)
(* ever came up, and every answered call that broke an expectation is         *)
(* reported unless another server's torn write spoiled its line. A log that   *)
(* could not be removed is excepted.                                          *)
CallsReachTheLog ==
    Kept /\ ~run.stale =>
        /\ made.answered \subseteq Rendered(log)
        /\ \A e \in Rendered(log) : e.attempt = run.attempt
        /\ log.there = made.up
        /\ \A e \in made.answered :
              Broken(e) /\ (\A i \in 1..Len(log.lines) : e \in log.lines[i].entries => log.lines[i].whole)
                 => e \in run.reported
        /\ run.reported \subseteq Rendered(log)

(* Every attempt of a run whose case declares mocks hands its harness a       *)
(* configuration that is there: "The config already written stays in place    *)
(* when this fails, since a mock server that starts a trace of its own still  *)
(* answers every call" (run.rs:1724).                                         *)
RetriesHaveTheirMocks == run.pc = "invoke" => run.handed
=============================================================================
