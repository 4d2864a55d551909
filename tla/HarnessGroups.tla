---------------------------- MODULE HarnessGroups ----------------------------
(***************************************************************************)
(* The process groups of the harnesses one `trg` runs side by side, and    *)
(* what becomes of them on a time limit, a cap, an exit or a termination   *)
(* signal: agentskills/runner/group.rs, capture_capped in                  *)
(* agentskills/runner/mod.rs, the lanes of execute_all in run.rs and the   *)
(* end of main.rs.                                                         *)
(*                                                                         *)
(* A lane is a thread that runs one harness after another.  A harness      *)
(* leads a process group; its tools live in it, some holding the captured  *)
(* pipes and some detached from them.  A signal handler runs on some       *)
(* thread of trg and freezes it, while the other threads go on.            *)
(***************************************************************************)
EXTENDS Naturals, Sequences, FiniteSets

CONSTANTS
    Lanes,       \* lanes of the pass
    Runs,        \* harness runs; each is taken by one lane
    Pids,        \* process identifiers the kernel hands out
    NoPid,       \* 0, a free slot
    NoRun,       \* no run
    MaxTracked,  \* MAX_TRACKED_GROUPS
    Threads,     \* threads a handler may land on: lanes, "main", "other"
    Signals,     \* termination signals that may be sent, each once
    Recycles     \* whether the kernel may reuse an identifier that is free

ASSUME GroupAssumption ==
    /\ NoPid \notin Pids /\ NoRun \notin Runs
    /\ Recycles \in BOOLEAN

\* RunConcurrency::MAX lanes never fill the table.
ASSUME SlotAssumption ==
    MaxTracked \in Nat \ {0} /\ IsFiniteSet(Lanes) /\ Cardinality(Lanes) <= MaxTracked

Slots == 1..MaxTracked

VARIABLES
    pid,        \* Runs -> Pids \cup {NoPid}
    leader,     \* Runs -> the process that leads the group
    tools,      \* Runs -> the other members
    lane,       \* Lanes -> what the lane is doing
    slot,       \* Slots -> Pids \cup {NoPid}: TRACKED_GROUPS
    installed,  \* INSTALL_HANDLER
    handlers,   \* the handlers running, in the order they began
    sent,       \* the signals sent so far
    terminating,\* TERMINATING
    main,       \* the main thread: "lanes" (joining them), "parked" or "shutdown"
    died,       \* "no", "signal" or "exit": how trg ended
    due,        \* history: groups in the table when a handler first began
    stray       \* history: groups struck by the stop of another run

vars == <<pid, leader, tools, lane, slot, installed, handlers, sent, terminating, main, died, due, stray>>

kernel == <<pid, leader, tools>>
signals == <<installed, handlers, sent, terminating>>
ends == <<main, died>>
history == <<due, stray>>

LanePCs == {"next", "spawned", "running", "expired", "grace", "reap", "leftovers", "found",
            "linger", "drain", "drop", "done"}

HandlerPCs == {"scan", "swap", "flush", "raise"}

Init ==
    /\ pid = [g \in Runs |-> NoPid]
    /\ leader = [g \in Runs |-> "unborn"]
    /\ tools = [g \in Runs |-> "none"]
    /\ lane = [l \in Lanes |-> [pc |-> "next", run |-> NoRun, slot |-> 0]]
    /\ slot = [i \in Slots |-> NoPid]
    /\ installed \in BOOLEAN     \* telemetry that exports installs it early
    /\ handlers = <<>>
    /\ sent = {}
    /\ terminating = FALSE
    /\ main = "lanes"
    /\ died = "no"
    /\ due = {}
    /\ stray = {}

------------------------------------------------------------------------------
(* The kernel. *)

\* A group exists as long as it has a member, an unreaped leader included.
Exists(g) == leader[g] \in {"alive", "zombie"} \/ tools[g] # "none"

Running(g) == leader[g] = "alive" \/ tools[g] # "none"

\* Some process of the group still holds the write end of the captured pipes.
HoldsPipe(g) == leader[g] = "alive" \/ tools[g] = "piped"

Free(p) ==
    /\ \A g \in Runs : pid[g] = p => ~Exists(g)
    /\ Recycles \/ \A g \in Runs : pid[g] # p

At(p) == {g \in Runs : pid[g] = p /\ Exists(g)}

\* SIGKILL to a group: no member survives it; its leader waits to be reaped.
Killed(p) ==
    /\ leader' = [g \in Runs |-> IF g \in At(p) /\ leader[g] = "alive" THEN "zombie" ELSE leader[g]]
    /\ tools' = [g \in Runs |-> IF g \in At(p) THEN "none" ELSE tools[g]]
    /\ UNCHANGED pid

\* A signal to p was meant for g.
Struck(p, g) == stray' = stray \cup (At(p) \ {g})

\* A harness or a tool of it starts a tool, which holds the captured pipes or
\* has detached from them; members end on their own, asked to (SIGTERM) or not.
Fork(g) ==
    /\ Running(g)
    /\ tools[g] = "none"
    /\ \E held \in {"piped", "detached"} : tools' = [tools EXCEPT ![g] = held]
    /\ UNCHANGED <<pid, leader, lane, slot, signals, ends, history>>

LeaderExits(g) ==
    /\ leader[g] = "alive"
    /\ leader' = [leader EXCEPT ![g] = "zombie"]
    /\ UNCHANGED <<pid, tools, lane, slot, signals, ends, history>>

ToolsExit(g) ==
    /\ tools[g] # "none"
    /\ tools' = [tools EXCEPT ![g] = "none"]
    /\ UNCHANGED <<pid, leader, lane, slot, signals, ends, history>>

------------------------------------------------------------------------------
(* A lane: capture_capped, once per run it takes. *)

Frozen(t) == \E i \in DOMAIN handlers : handlers[i].on = t

\* The lane may take a step from pc.
Can(l, pc) == died = "no" /\ ~Frozen(l) /\ lane[l].pc = pc

To(l, pc) == lane' = [lane EXCEPT ![l].pc = pc]

\* pop_front, then command.spawn() with the child leading its own group.
Spawn(l) ==
    /\ Can(l, "next")
    /\ \E g \in Runs, p \in Pids :
          /\ leader[g] = "unborn" /\ Free(p)
          /\ pid' = [pid EXCEPT ![g] = p]
          /\ leader' = [leader EXCEPT ![g] = "alive"]
          /\ lane' = [lane EXCEPT ![l].pc = "spawned", ![l].run = g]
    /\ UNCHANGED <<tools, slot, signals, ends, history>>

\* The queue is empty.
Finish(l) ==
    /\ Can(l, "next")
    /\ \A g \in Runs : leader[g] # "unborn"
    /\ To(l, "done")
    /\ UNCHANGED <<kernel, slot, signals, ends, history>>

\* ProcessGroupGuard::led_by: the handler is in place before the group is, in
\* the first free slot, and a full table is no error.
Track(l) ==
    /\ Can(l, "spawned")
    /\ installed' = TRUE
    /\ \/ /\ \A i \in Slots : slot[i] # NoPid
          /\ To(l, "running") /\ UNCHANGED slot
       \/ \E i \in Slots :
             /\ slot[i] = NoPid /\ \A j \in 1..(i - 1) : slot[j] # NoPid
             /\ slot' = [slot EXCEPT ![i] = pid[lane[l].run]]
             /\ lane' = [lane EXCEPT ![l].pc = "running", ![l].slot = i]
    /\ UNCHANGED <<kernel, handlers, sent, terminating, ends, history>>

\* try_wait: the leader has exited and is reaped, or it has not and the run is
\* past its limit or its cap.  The harness may still exit before it is stopped.
Poll(l) ==
    /\ Can(l, "running")
    /\ LET g == lane[l].run IN
       \/ /\ leader[g] = "zombie"
          /\ leader' = [leader EXCEPT ![g] = "reaped"]
          /\ To(l, "leftovers")
       \/ /\ leader[g] = "alive"
          /\ To(l, "expired")
          /\ UNCHANGED leader
    /\ UNCHANGED <<pid, tools, slot, signals, ends, history>>

\* Mutant: the child is reaped before the group is.
ReapFirst(l) ==
    /\ Can(l, "expired")
    /\ leader[lane[l].run] = "zombie"
    /\ leader' = [leader EXCEPT ![lane[l].run] = "reaped"]
    /\ To(l, "grace")
    /\ UNCHANGED <<pid, tools, slot, signals, ends, history>>

\* terminate: SIGTERM to the group.
Terminate(l) ==
    /\ Can(l, "expired")
    /\ LET g == lane[l].run IN Struck(pid[g], g)
    /\ To(l, "grace")
    /\ UNCHANGED <<kernel, slot, signals, ends, due>>

\* Mutant: the leader alone is killed.
KillLeaderOnly(l) ==
    /\ Can(l, "grace")
    /\ leader' = [leader EXCEPT ![lane[l].run] = "zombie"]
    /\ To(l, "reap")
    /\ UNCHANGED <<pid, tools, slot, signals, ends, history>>

\* terminate, after TERMINATION_GRACE: SIGKILL.
KillStopped(l) ==
    /\ Can(l, "grace")
    /\ LET g == lane[l].run IN Killed(pid[g]) /\ Struck(pid[g], g)
    /\ To(l, "reap")
    /\ UNCHANGED <<slot, signals, ends, due>>

\* child.kill() and child.wait().
Reap(l) ==
    /\ Can(l, "reap")
    /\ leader' = [leader EXCEPT ![lane[l].run] = "reaped"]
    /\ To(l, "drain")
    /\ UNCHANGED <<pid, tools, slot, signals, ends, history>>

\* Mutant: what the harness left running is left alone.
KeepLeftovers(l) ==
    /\ Can(l, "leftovers")
    /\ To(l, "drain")
    /\ UNCHANGED <<kernel, slot, signals, ends, history>>

\* stop_leftovers: group_exists, then SIGTERM, then SIGKILL after the grace.
StopLeftovers(l) ==
    /\ Can(l, "leftovers")
    /\ To(l, IF At(pid[lane[l].run]) # {} THEN "found" ELSE "drain")
    /\ UNCHANGED <<kernel, slot, signals, ends, history>>

TermLeftovers(l) ==
    /\ Can(l, "found")
    /\ To(l, "linger")
    /\ UNCHANGED <<kernel, slot, signals, ends, history>>

KillLeftovers(l) ==
    /\ Can(l, "linger")
    /\ Killed(pid[lane[l].run])
    /\ To(l, "drain")
    /\ UNCHANGED <<slot, signals, ends, history>>

\* The reader threads see end of file and are joined.
Drain(l) ==
    /\ Can(l, "drain")
    /\ ~HoldsPipe(lane[l].run)
    /\ To(l, "drop")
    /\ UNCHANGED <<kernel, slot, signals, ends, history>>

\* Mutant: the slot is not given back.
KeepSlot(l) ==
    /\ Can(l, "drop")
    /\ lane' = [lane EXCEPT ![l] = [pc |-> "next", run |-> NoRun, slot |-> 0]]
    /\ UNCHANGED <<kernel, slot, signals, ends, history>>

\* Drop for ProcessGroupGuard: already disarmed, it frees the slot.
Drop(l) ==
    /\ Can(l, "drop")
    /\ lane' = [lane EXCEPT ![l] = [pc |-> "next", run |-> NoRun, slot |-> 0]]
    /\ slot' = IF lane[l].slot = 0 THEN slot ELSE [slot EXCEPT ![lane[l].slot] = NoPid]
    /\ UNCHANGED <<kernel, signals, ends, history>>

------------------------------------------------------------------------------
(* Termination signals. *)

\* Groups a guard watches over and has put in the table.
Tracked == {g \in Runs : \E l \in Lanes : lane[l].run = g /\ lane[l].slot # 0 /\ slot[lane[l].slot] = pid[g]}

\* A signal is sent.  Without a handler it is the end of trg; with one, a
\* thread that is not already handling that signal runs it.
Arrive(s) ==
    /\ died = "no"
    /\ s \notin sent
    /\ sent' = sent \cup {s}
    /\ \/ /\ ~installed
          /\ died' = "signal"
          /\ UNCHANGED <<handlers, due>>
       \/ /\ installed
          /\ \E t \in Threads :
                handlers' = Append(handlers, [sig |-> s, on |-> t, pc |-> "scan", at |-> 1])
          /\ due' = IF handlers = <<>> THEN Tracked ELSE due
          /\ UNCHANGED died
    /\ UNCHANGED <<kernel, lane, slot, installed, terminating, main, stray>>

\* Handler i may take a step from pc: it is not itself interrupted.
CanHandle(i, pc) ==
    /\ died = "no"
    /\ i \in DOMAIN handlers
    /\ handlers[i].pc = pc
    /\ \A j \in DOMAIN handlers : j > i => handlers[j].on # handlers[i].on

HandlerTo(i, pc) == handlers' = [handlers EXCEPT ![i].pc = pc]

\* Mutant: the scan stops at the first free slot.
ScanToFree(i) ==
    /\ CanHandle(i, "scan")
    /\ LET at == handlers[i].at IN
       /\ IF slot[at] # NoPid THEN Killed(slot[at]) ELSE UNCHANGED kernel
       /\ IF at = MaxTracked \/ slot[at] = NoPid
          THEN HandlerTo(i, "swap")
          ELSE handlers' = [handlers EXCEPT ![i].at = at + 1]
    /\ UNCHANGED <<lane, slot, installed, sent, terminating, ends, history>>

\* on_termination: one slot of TRACKED_GROUPS is loaded and killed.
ScanSlot(i) ==
    /\ CanHandle(i, "scan")
    /\ LET at == handlers[i].at IN
       /\ IF slot[at] # NoPid
          THEN Killed(slot[at])
          ELSE UNCHANGED kernel
       /\ IF at = MaxTracked
          THEN HandlerTo(i, "swap")
          ELSE handlers' = [handlers EXCEPT ![i].at = at + 1]
    /\ UNCHANGED <<lane, slot, installed, sent, terminating, ends, history>>

\* TERMINATING.swap: the first handler waits for the flush, a later one does not.
Swap(i) ==
    /\ CanHandle(i, "swap")
    /\ terminating' = TRUE
    /\ HandlerTo(i, IF terminating THEN "raise" ELSE "flush")
    /\ UNCHANGED <<kernel, lane, slot, installed, sent, ends, history>>

\* Mutant: no bound on the wait, and the flush needs a lock the frozen lane holds.
FlushedUnlessHeld(i) ==
    /\ CanHandle(i, "flush")
    /\ handlers[i].on \notin Lanes
    /\ HandlerTo(i, "raise")
    /\ UNCHANGED <<kernel, lane, slot, installed, sent, terminating, ends, history>>

\* wait_for_flush: the watcher answers, FLUSH_WAIT passes, or there is no watcher.
Flushed(i) ==
    /\ CanHandle(i, "flush")
    /\ HandlerTo(i, "raise")
    /\ UNCHANGED <<kernel, lane, slot, installed, sent, terminating, ends, history>>

\* Back to the default disposition, and raise.
Raise(i) ==
    /\ CanHandle(i, "raise")
    /\ died' = "signal"
    /\ UNCHANGED <<kernel, lane, slot, signals, main, history>>

------------------------------------------------------------------------------
(* The main thread, once every lane is done. *)

\* yield_to_termination: park for good when a signal is being handled.
Yield ==
    /\ died = "no" /\ ~Frozen("main")
    /\ main = "lanes"
    /\ \A l \in Lanes : lane[l].pc = "done"
    /\ main' = IF terminating THEN "parked" ELSE "shutdown"
    /\ UNCHANGED <<kernel, lane, slot, signals, died, history>>

\* Telemetry is shut down and main returns the exit code.
Exit ==
    /\ died = "no" /\ ~Frozen("main")
    /\ main = "shutdown"
    /\ died' = "exit"
    /\ UNCHANGED <<kernel, lane, slot, signals, main, history>>

------------------------------------------------------------------------------

LaneStep(l) ==
    \/ Spawn(l) \/ Finish(l) \/ Track(l) \/ Poll(l)
    \/ Terminate(l) \/ KillStopped(l) \/ Reap(l)
    \/ StopLeftovers(l) \/ TermLeftovers(l) \/ KillLeftovers(l)
    \/ Drain(l) \/ Drop(l)

HandlerStep(i) == ScanSlot(i) \/ Swap(i) \/ Flushed(i) \/ Raise(i)

Next ==
    \/ \E g \in Runs : Fork(g) \/ LeaderExits(g) \/ ToolsExit(g)
    \/ \E l \in Lanes : LaneStep(l)
    \/ \E s \in Signals : Arrive(s)
    \/ \E i \in 1..Cardinality(Signals) : HandlerStep(i)
    \/ Yield \/ Exit

Spec == Init /\ [][Next]_vars

\* The scheduler runs every thread of trg that is not frozen or waiting;
\* nothing is assumed of harnesses, tools or signals.
Fairness ==
    /\ \A l \in Lanes : WF_vars(LaneStep(l))
    /\ \A i \in 1..Cardinality(Signals) : WF_vars(HandlerStep(i))
    /\ WF_vars(Yield) /\ WF_vars(Exit)

FairSpec == Spec /\ Fairness

------------------------------------------------------------------------------
(* What the guard and the handler promise. *)

Handler == [sig : Signals, on : Threads, pc : HandlerPCs, at : Slots]

TypeOK ==
    /\ pid \in [Runs -> Pids \cup {NoPid}]
    /\ leader \in [Runs -> {"unborn", "alive", "zombie", "reaped"}]
    /\ tools \in [Runs -> {"none", "piped", "detached"}]
    /\ lane \in [Lanes -> [pc : LanePCs, run : Runs \cup {NoRun}, slot : Slots \cup {0}]]
    /\ slot \in [Slots -> Pids \cup {NoPid}]
    /\ installed \in BOOLEAN
    /\ handlers \in Seq(Handler)
    /\ sent \subseteq Signals
    /\ terminating \in BOOLEAN
    /\ main \in {"lanes", "parked", "shutdown"}
    /\ died \in {"no", "signal", "exit"}
    /\ due \subseteq Runs
    /\ stray \subseteq Runs

\* When trg dies of a signal, no process of a group that stood in the table
\* when the first handler began is left running, whatever lanes dropped, reused
\* or filled slots during the scan and whichever handler raised first
\* (on_termination: "take every running harness down before `trg` itself goes").
TrackedDieWithTrg == died = "signal" => \A g \in due : ~Running(g)

\* A run that is over has no process left, in its group or holding its pipes,
\* by the time its lane takes the next one or its workspace is scored
\* (stop_leftovers: "nothing here is free to outlive the run").
NothingOutlivesItsRun ==
    \A g \in Runs : leader[g] = "reaped" /\ Running(g) =>
        \E l \in Lanes : lane[l].run = g /\ lane[l].pc \in {"leftovers", "found", "linger"}

\* Every slot of the table names the group of the one lane that took it, and a
\* group whose guard gave up its slot is gone: the handler misses nothing.
SlotsNameGuards ==
    /\ \A i \in Slots : slot[i] # NoPid =>
          \E l \in Lanes : lane[l].slot = i /\ pid[lane[l].run] = slot[i]
    /\ \A l, m \in Lanes : l # m /\ lane[l].slot # 0 => lane[l].slot # lane[m].slot
    /\ \A l \in Lanes : lane[l].pc \notin {"next", "done", "spawned"} =>
          lane[l].slot # 0 /\ slot[lane[l].slot] = pid[lane[l].run]

\* The signals of a time limit reach the stopped run's own group and no other,
\* even if identifiers are reused: the unreaped leader pins the identifier
\* (capture_capped kills the group before it waits for the child).
LimitStrikesItsOwn == stray = {}

\* A signal that a handler was installed for ends trg, whichever threads the
\* handlers landed on (FLUSH_WAIT may "delay the exit but never prevent it").
SignalEndsTrg == sent # {} ~> died # "no"

\* A run past its limit is over in the end, although its tools ignore SIGTERM
\* and hold the pipes: "the timeout that was supposed to bound the run" returns.
LimitEndsRun ==
    \A l \in Lanes : lane[l].pc = "expired" ~> (lane[l].pc \in {"next", "done"} \/ died # "no")
==============================================================================
