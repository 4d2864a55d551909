------------------------------- MODULE Recorder -------------------------------
(* eval record-mcp: one session with a real MCP server, which is started as   *)
(* the operator, asked each call in turn, and written down as mocks.          *)
EXTENDS Mocks

CONSTANTS
    RecordedCalls,  \* the --call flags: a sequence of [tool, input]
    RealAnswers,    \* what the real server may answer: [text, isError]
    MaxLines        \* bound on the server's lines nobody has read

ASSUME RecordingAssumption ==
    /\ IsSeq(RecordedCalls) /\ \A i \in DOMAIN RecordedCalls : IsObject(RecordedCalls[i].input)
    /\ \A i, j \in DOMAIN RecordedCalls : RecordedCalls[i].tool = RecordedCalls[j].tool => i = j
    /\ \A a \in RealAnswers : IsSeq(a.text) /\ a.isError \in BOOLEAN

VARIABLES
    rec,        \* pc, the next request's id, whether its deadline has passed, the exit
    real,       \* the server: its leader and what it forked into the group
    lines,      \* what the server wrote and nobody has read
    said,       \* for each id asked, the answers the server has given it
    recorded    \* the mock files written, by call

recVars == <<rec, real, lines, said, recorded>>

CallIds == {i + 1 : i \in DOMAIN RecordedCalls}
\* RecordedToolAnswer::from_result of a message without a result.
NullAnswer == [text |-> <<<<"text", "null">>>>, isError |-> FALSE]

NoRecorder == [pc |-> "off", id |-> 1, late |-> FALSE, exit |-> "none", got |-> NullAnswer]
NoServer == [leader |-> "none", forked |-> FALSE]

RecorderInit(on) ==
    /\ rec = IF on THEN [NoRecorder EXCEPT !.pc = "flags"] ELSE NoRecorder
    /\ real = NoServer /\ lines = <<>> /\ recorded = <<>>
    /\ said = [id \in CallIds \cup {1} |-> {}]

Enter(pc) == rec' = [rec EXCEPT !.pc = pc]
Drops(exit) == rec' = [rec EXCEPT !.pc = "drop", !.exit = exit]
Alone == UNCHANGED <<real, lines, said, recorded>>

\* The group has no process left.
Empty(server) == server.leader # "running" /\ ~server.forked

\* validate_flags, then admit_real_server.
Admit ==
    /\ rec.pc = "flags"
    /\ \/ Enter("spawn")
       \/ \E e \in {"infrastructure", "gate_failed"} :
             rec' = [rec EXCEPT !.pc = "ended", !.exit = e]
    /\ Alone

Spawn ==
    /\ rec.pc = "spawn"
    /\ \/ /\ Enter("send")
          /\ real' = [leader |-> "running", forked |-> FALSE]
       \/ /\ rec' = [rec EXCEPT !.pc = "ended", !.exit = "infrastructure"]
          /\ UNCHANGED real
    /\ UNCHANGED <<lines, said, recorded>>

\* send: the request with this id; a server that is gone breaks the pipe.
Send ==
    /\ rec.pc = "send"
    /\ \/ /\ ~Empty(real)
          /\ rec' = [rec EXCEPT !.pc = "await", !.late = FALSE]
       \/ real.leader # "running" /\ Drops("infrastructure")
    /\ Alone

\* The timeout of the request passes.
Overdue ==
    /\ rec.pc \in {"await", "reply", "finish"} /\ ~rec.late
    /\ rec' = [rec EXCEPT !.late = TRUE]
    /\ Alone

\* Mutant: a message is matched to the request by its id.
CarriesId(m, id) == m.kind # "junk" /\ m.id = id

\* A response is a message without a method and with this id.
Responds(m, id) == m.kind \in {"result", "error"} /\ m.id = id

\* The answer of a response, of one without a result too.
ResultOf(m) == IF m.kind = "result" THEN m.answer ELSE NullAnswer

\* Mutant: the deadline starts again with every line.
NotYet == FALSE

\* deadline.saturating_duration_since(now) is zero.
OutOfTime == rec.late

\* await_response, one turn of the loop.
Await ==
    /\ rec.pc = "await"
    /\ \/ OutOfTime /\ Drops("infrastructure") /\ UNCHANGED lines
       \/ /\ ~OutOfTime /\ lines = <<>> /\ Empty(real)
          /\ Drops("infrastructure") /\ UNCHANGED lines
       \/ /\ ~OutOfTime /\ lines # <<>>
          /\ lines' = Tail(lines)
          /\ LET m == Head(lines) IN
             CASE ~Responds(m, rec.id) /\ m.kind = "request" -> Enter("reply")
               [] ~Responds(m, rec.id) /\ m.kind # "request" -> UNCHANGED rec
               [] Responds(m, rec.id) /\ m.kind = "error" -> Drops("infrastructure")
               [] OTHER -> rec' = [rec EXCEPT !.pc = IF rec.id = 1 THEN "initialized" ELSE "write",
                                              !.got = ResultOf(m)]
    /\ UNCHANGED <<real, said, recorded>>

\* answer_server_request: a request of the server's own is answered or refused.
AnswerServer ==
    /\ rec.pc = "reply"
    /\ \/ ~Empty(real) /\ Enter("await")
       \/ real.leader # "running" /\ Drops("infrastructure")
    /\ Alone

\* What comes after request id: the next call, or the end.
AfterId(id) == IF id = Len(RecordedCalls) + 1
               THEN [NoRecorder EXCEPT !.pc = "finish", !.id = id]
               ELSE [NoRecorder EXCEPT !.pc = "send", !.id = id + 1]

Initialized ==
    /\ rec.pc = "initialized"
    /\ \/ rec' = AfterId(rec.id)
       \/ real.leader # "running" /\ Drops("infrastructure")
    /\ Alone

\* write_recorded_mock: refused, failed or written.
WriteMock ==
    /\ rec.pc = "write"
    /\ \/ Drops("infrastructure") /\ UNCHANGED recorded
       \/ /\ Representable(rec.got)
          /\ recorded' = [id \in DOMAIN recorded \cup {rec.id} |->
                IF id = rec.id THEN RenderMock(RecordedCalls[id - 1].input, rec.got) ELSE recorded[id]]
          /\ rec' = AfterId(rec.id)
    /\ UNCHANGED <<real, lines, said>>

\* finish: stdin is closed; the server exits, overstays or cannot be waited for.
Finishing ==
    /\ rec.pc = "finish"
    /\ \/ /\ real.leader = "exited" \/ rec.late
          /\ rec' = [rec EXCEPT !.pc = "ended", !.exit = "success"]
          /\ real' = [leader |-> "exited", forked |-> FALSE]
       \/ Drops("infrastructure") /\ UNCHANGED real
    /\ UNCHANGED <<lines, said, recorded>>

\* Mutant: only the wrapper that was started is stopped.
WrapperStopped(server) == [server EXCEPT !.leader = "exited"]

\* terminate: the whole group.
GroupStopped(server) == [leader |-> "exited", forked |-> FALSE]

\* Drop: the backstop of every early return.
DropSession ==
    /\ rec.pc = "drop"
    /\ rec' = [rec EXCEPT !.pc = "ended"]
    /\ real' = GroupStopped(real)
    /\ UNCHANGED <<lines, said, recorded>>

------------------------------------------------------------------------------
(* External: the real server                                                  *)

Serving == rec.pc \notin {"off", "ended"} /\ ~Empty(real)

\* An answer may be repeated, and lines come in any order.
RealWrites ==
    /\ Serving /\ Len(lines) < MaxLines
    /\ \E id \in CallIds \cup {1} :
          \/ /\ id <= rec.id /\ (id = rec.id => rec.pc # "send")
             /\ \E a \in RealAnswers :
                   /\ said[id] \subseteq {a}
                   /\ lines' = Append(lines, [kind |-> "result", id |-> id, answer |-> a])
                   /\ said' = [said EXCEPT ![id] = @ \cup {a}]
          \/ \E k \in {"error", "request"} :
                lines' = Append(lines, [kind |-> k, id |-> id]) /\ UNCHANGED said
          \/ lines' = Append(lines, [kind |-> "junk"]) /\ UNCHANGED said
    /\ UNCHANGED <<rec, real, recorded>>

\* A wrapper forks the server, processes of the group exit.
RealMoves ==
    /\ Serving
    /\ \/ real.leader = "running" /\ real' \in [leader : {"running", "exited"}, forked : BOOLEAN]
       \/ real.forked /\ real' = [real EXCEPT !.forked = FALSE]
    /\ real' # real
    /\ UNCHANGED <<rec, lines, said, recorded>>

RecorderStep == Admit \/ Spawn \/ Send \/ Await \/ AnswerServer \/ Initialized \/ WriteMock
                \/ DropSession \/ Finishing

\* write_all to the stdin of a server that is there and does not read: the pipe fills,
\* and the request's deadline is not looked at.
RecorderWaits == rec.pc \in {"send", "initialized", "reply"} /\ ~Empty(real)

RecorderNext == RecorderStep \/ Overdue \/ RealWrites \/ RealMoves

\* A recording by itself.
RecorderSpec == RecorderInit(TRUE) /\ [][RecorderNext]_recVars

\* The command's own steps and its clock.
RecorderFairness == WF_recVars(~RecorderWaits /\ RecorderStep) /\ WF_recVars(Overdue)

------------------------------------------------------------------------------

(* A mock that was recorded answers the call it was recorded from with what   *)
(* the server answered it, text and error flag, and holds nothing against the *)
(* call: though the server's own requests may carry the id waited for, its    *)
(* late answers to other calls arrive in between, the input has nulls, nested *)
(* objects and keys with dots, and the answer may contain what a mock would   *)
(* expand.                                                                    *)
RecordingsReplay ==
    \A id \in DOMAIN recorded :
        \E a \in said[id] : Replays(recorded[id], RecordedCalls[id - 1].input, a)

(* When record-mcp has ended, nothing of the server it started as the         *)
(* operator is left running, whichever way the session ended and whatever the *)
(* server forked.                                                             *)
NoServerLeftBehind == rec.pc = "ended" => Empty(real)

(* A recording comes to an end though the server floods it with lines, stays  *)
(* silent or does not exit when its input is closed, unless the server stays  *)
(* and never reads what it is written.                                        *)
RecordingEnds == <>[]RecorderWaits \/ [](rec.pc # "off" => <>(rec.pc = "ended"))
=============================================================================
