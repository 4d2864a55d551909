------------------------ MODULE HarnessGroupsProofs ------------------------
(***************************************************************************)
(* Theorems about HarnessGroups, for any finite set of lanes below the     *)
(* size of the table and any runs, identifiers, threads and signals.  Each *)
(* part extends the inductive invariant of the one before: PinInv (a stop  *)
(* strikes no other run), SlotInv (the table is exact), EndInv (nothing    *)
(* outlives its run), ScanInv (trg dies with what it tracked).             *)
(***************************************************************************)
EXTENDS HarnessGroups, FiniteSetTheorems, TLAPS

\* Program counters of a lane that has not reaped the leader of its run.
Unreaped == {"spawned", "running", "expired", "grace", "reap"}

\* What a lane runs was born, and no two lanes run the same.
OwnRuns ==
    /\ \A l \in Lanes : lane[l].run \in Runs => leader[lane[l].run] # "unborn"
    /\ \A l, m \in Lanes : l # m /\ lane[l].run \in Runs => lane[l].run # lane[m].run
    /\ \A l \in Lanes : lane[l].pc \notin {"next", "done"} => lane[l].run \in Runs

\* The leader a lane has not reaped pins its identifier.
LeaderPins ==
    \A l \in Lanes : lane[l].pc \in Unreaped => leader[lane[l].run] \in {"alive", "zombie"}

\* Groups that exist have identifiers of their own.
OwnPids ==
    /\ \A g \in Runs : leader[g] = "unborn" => tools[g] = "none"
    /\ \A g, h \in Runs : g # h /\ Exists(g) /\ Exists(h) => pid[g] # pid[h]

\* The inductive invariant of LimitStrikesItsOwn.
PinInv == TypeOK /\ OwnRuns /\ LeaderPins /\ OwnPids /\ LimitStrikesItsOwn

------------------------------------------------------------------------------

\* The type invariant in four parts: what the kernel knows.
KernelType ==
    /\ pid \in [Runs -> Pids \cup {NoPid}]
    /\ leader \in [Runs -> {"unborn", "alive", "zombie", "reaped"}]
    /\ tools \in [Runs -> {"none", "piped", "detached"}]

\* The lanes and the table.
LaneType ==
    /\ lane \in [Lanes -> [pc : LanePCs, run : Runs \cup {NoRun}, slot : Slots \cup {0}]]
    /\ slot \in [Slots -> Pids \cup {NoPid}]

\* The two flags.
FlagType == installed \in BOOLEAN /\ terminating \in BOOLEAN

\* Handlers, ends and history.
SignalType ==
    /\ handlers \in Seq(Handler)
    /\ sent \subseteq Signals
    /\ main \in {"lanes", "parked", "shutdown"}
    /\ died \in {"no", "signal", "exit"}
    /\ due \subseteq Runs
    /\ stray \subseteq Runs

\* The parts make up the type invariant.
LEMMA TypeParts == TypeOK <=> KernelType /\ LaneType /\ FlagType /\ SignalType
  BY Zenon DEF TypeOK, KernelType, LaneType, FlagType, SignalType

\* And so they do in the next state.
LEMMA TypePartsNext == TypeOK' <=> KernelType' /\ LaneType' /\ FlagType' /\ SignalType'
  BY Zenon DEF TypeOK, KernelType, LaneType, FlagType, SignalType

\* The first state is typed.
LEMMA TypeInit == Init => TypeOK
<1> SUFFICES ASSUME Init PROVE TypeOK
  OBVIOUS
<1>1. KernelType
  BY DEF Init, KernelType
<1>2. LaneType
  BY DEF Init, LaneType, LanePCs, Slots
<1>3. FlagType
  BY Zenon DEF Init, FlagType
<1>4. SignalType
  BY DEF Init, SignalType
<1> QED BY <1>1, <1>2, <1>3, <1>4, TypeParts

\* The kernel's part of a kill keeps its type and only ends processes.
LEMMA KilledType ==
  ASSUME KernelType, NEW p, Killed(p)
  PROVE  /\ KernelType'
         /\ pid' = pid
         /\ \A g \in Runs : leader'[g] = leader[g] \/ (leader[g] = "alive" /\ leader'[g] = "zombie")
         /\ \A g \in Runs : tools'[g] = tools[g] \/ tools'[g] = "none"
  BY DEF KernelType, Killed

\* The kernel's variables keep their type.
LEMMA KernelTypeStep ==
  ASSUME TypeOK, OwnRuns, [Next]_vars
  PROVE  KernelType'
<1>0. KernelType /\ LaneType
  BY TypeParts
<1>1. ASSUME NEW g \in Runs, Fork(g) \/ LeaderExits(g) \/ ToolsExit(g) PROVE KernelType'
  BY <1>0, <1>1 DEF Fork, LeaderExits, ToolsExit, KernelType
<1>2. ASSUME NEW l \in Lanes, LaneStep(l) PROVE KernelType'
  <2> USE <1>0
  <2>1. CASE Spawn(l)
    BY <2>1 DEF Spawn, KernelType
  <2>2. CASE Poll(l)
    BY <2>2 DEF Poll, KernelType
  <2>3. CASE KillStopped(l) \/ KillLeftovers(l)
    BY <2>3, KilledType DEF KillStopped, KillLeftovers
  <2>4. CASE Reap(l)
    BY <2>4 DEF Reap, KernelType
  <2>5. CASE Finish(l) \/ Track(l) \/ Terminate(l) \/ StopLeftovers(l) \/ TermLeftovers(l) \/ Drain(l) \/ Drop(l)
    <3>1. UNCHANGED kernel
      BY <2>5, Zenon DEF Finish, Track, Terminate, StopLeftovers, TermLeftovers, Drain, Drop
    <3> QED BY <3>1 DEF kernel, KernelType
  <2> QED BY <1>2, <2>1, <2>2, <2>3, <2>4, <2>5 DEF LaneStep
<1>3. ASSUME NEW s \in Signals, Arrive(s) PROVE KernelType'
  BY <1>0, <1>3 DEF Arrive, kernel, KernelType
<1>4. ASSUME NEW i \in 1..Cardinality(Signals), HandlerStep(i) PROVE KernelType'
  <2>1. CASE ScanSlot(i)
    BY <1>0, <2>1, KilledType DEF ScanSlot, kernel, KernelType
  <2>2. CASE Swap(i) \/ Flushed(i) \/ Raise(i)
    BY <1>0, <2>2 DEF Swap, Flushed, Raise, kernel, KernelType
  <2> QED BY <1>4, <2>1, <2>2 DEF HandlerStep
<1>5. CASE Yield \/ Exit
  BY <1>0, <1>5 DEF Yield, Exit, kernel, KernelType
<1>6. CASE UNCHANGED vars
  BY <1>0, <1>6 DEF vars, KernelType
<1> QED BY <1>1, <1>2, <1>3, <1>4, <1>5, <1>6 DEF Next

\* A lane's move to another program counter.
LEMMA ToType ==
  ASSUME LaneType, NEW l \in Lanes, NEW pc \in LanePCs, To(l, pc), UNCHANGED slot
  PROVE  LaneType'
  BY DEF LaneType, To

\* The lanes and the table keep their type.
LEMMA LaneTypeStep ==
  ASSUME TypeOK, OwnRuns, [Next]_vars
  PROVE  LaneType'
<1>0. KernelType /\ LaneType
  BY TypeParts
<1>1. ASSUME NEW l \in Lanes, LaneStep(l) PROVE LaneType'
  <2> USE <1>0
  <2>1. CASE Spawn(l)
    <3>1. PICK g \in Runs : lane' = [lane EXCEPT ![l].pc = "spawned", ![l].run = g] /\ UNCHANGED slot
      BY <2>1 DEF Spawn
    <3> QED BY <3>1, ZenonT(60) DEF LaneType, LanePCs
  <2>2. CASE Track(l)
    <3>1. CASE To(l, "running") /\ UNCHANGED slot
      BY <3>1, ToType DEF LanePCs
    <3>2. ASSUME NEW i \in Slots,
                 slot' = [slot EXCEPT ![i] = pid[lane[l].run]],
                 lane' = [lane EXCEPT ![l].pc = "running", ![l].slot = i]
          PROVE  LaneType'
      <4>1. lane[l].run \in Runs
        BY <2>2 DEF Track, Can, OwnRuns
      <4>2. pid[lane[l].run] \in Pids \cup {NoPid}
        BY <4>1 DEF KernelType
      <4> QED BY <3>2, <4>2, ZenonT(60) DEF LaneType, LanePCs
    <3> QED BY <2>2, <3>1, <3>2 DEF Track
  <2>3. CASE Poll(l)
    BY <2>3, ToType DEF Poll, LanePCs
  <2>4. CASE StopLeftovers(l)
    BY <2>4, ToType DEF StopLeftovers, LanePCs
  <2>5. CASE Finish(l) \/ Terminate(l) \/ KillStopped(l) \/ Reap(l) \/ TermLeftovers(l) \/ KillLeftovers(l) \/ Drain(l)
    BY <2>5, ToType DEF Finish, Terminate, KillStopped, Reap, TermLeftovers, KillLeftovers, Drain, LanePCs
  <2>6. CASE Drop(l)
    BY <2>6 DEF Drop, LaneType, LanePCs
  <2> QED BY <1>1, <2>1, <2>2, <2>3, <2>4, <2>5, <2>6 DEF LaneStep
<1>2. CASE UNCHANGED <<lane, slot>>
  BY <1>0, <1>2 DEF LaneType
<1>3. (\E g \in Runs : Fork(g) \/ LeaderExits(g) \/ ToolsExit(g)) \/ (\E s \in Signals : Arrive(s))
      \/ (\E i \in 1..Cardinality(Signals) : HandlerStep(i)) \/ Yield \/ Exit \/ UNCHANGED vars
      => UNCHANGED <<lane, slot>>
  BY Zenon DEF Fork, LeaderExits, ToolsExit, Arrive, HandlerStep, ScanSlot, Swap, Flushed, Raise, Yield, Exit, vars
<1> QED BY <1>1, <1>2, <1>3 DEF Next

\* Lanes and handlers set the flags to TRUE and never back.
LEMMA FlagTypeStep ==
  ASSUME TypeOK, [Next]_vars
  PROVE  FlagType'
<1>0. FlagType
  BY TypeParts
<1>1. /\ installed' = installed \/ installed' = TRUE
      /\ terminating' = terminating \/ terminating' = TRUE
  <2>1. ASSUME NEW l \in Lanes, LaneStep(l)
        PROVE  UNCHANGED terminating /\ (installed' = installed \/ installed' = TRUE)
    BY <2>1, Zenon DEF LaneStep, Spawn, Finish, Track, Poll, Terminate, KillStopped, Reap, StopLeftovers,
       TermLeftovers, KillLeftovers, Drain, Drop, signals
  <2>2. ASSUME NEW i \in 1..Cardinality(Signals), HandlerStep(i)
        PROVE  UNCHANGED installed /\ (terminating' = terminating \/ terminating' = TRUE)
    BY <2>2, Zenon DEF HandlerStep, ScanSlot, Swap, Flushed, Raise, signals
  <2>3. (\E g \in Runs : Fork(g) \/ LeaderExits(g) \/ ToolsExit(g)) \/ (\E s \in Signals : Arrive(s))
        \/ Yield \/ Exit \/ UNCHANGED vars => UNCHANGED <<installed, terminating>>
    BY Zenon DEF Fork, LeaderExits, ToolsExit, Arrive, Yield, Exit, signals, vars
  <2> QED BY <2>1, <2>2, <2>3, Zenon DEF Next
<1> QED BY <1>0, <1>1, Zenon DEF FlagType

\* The handlers, the main thread and the history variables keep their type.
LEMMA SignalTypeStep ==
  ASSUME TypeOK, [Next]_vars
  PROVE  SignalType'
<1>0. SignalType
  BY TypeParts
<1>1. ASSUME NEW l \in Lanes, LaneStep(l) PROVE SignalType'
  <2>1. UNCHANGED <<handlers, sent, main, died, due>>
    BY <1>1, Zenon DEF LaneStep, Spawn, Finish, Track, Poll, Terminate, KillStopped, Reap, StopLeftovers,
       TermLeftovers, KillLeftovers, Drain, Drop, signals, ends, history
  <2>2. stray' \subseteq Runs
    <3>1. CASE Terminate(l) \/ KillStopped(l)
      BY <1>0, <3>1 DEF Terminate, KillStopped, Struck, At, SignalType
    <3>2. CASE UNCHANGED stray
      BY <1>0, <3>2 DEF SignalType
    <3>3. Terminate(l) \/ KillStopped(l) \/ UNCHANGED stray
      BY <1>1, Zenon DEF LaneStep, Spawn, Finish, Track, Poll, Reap, StopLeftovers, TermLeftovers,
         KillLeftovers, Drain, Drop, history
    <3> QED BY <3>1, <3>2, <3>3
  <2> QED BY <1>0, <2>1, <2>2 DEF SignalType
<1>2. ASSUME NEW s \in Signals, Arrive(s) PROVE SignalType'
  <2>1. handlers' \in Seq(Handler)
    <3>1. ASSUME NEW t \in Threads PROVE [sig |-> s, on |-> t, pc |-> "scan", at |-> 1] \in Handler
      BY SlotAssumption DEF Handler, HandlerPCs, Slots
    <3>2. CASE UNCHANGED handlers
      BY <1>0, <3>2 DEF SignalType
    <3>3. CASE \E t \in Threads : handlers' = Append(handlers, [sig |-> s, on |-> t, pc |-> "scan", at |-> 1])
      <4>1. PICK t \in Threads : handlers' = Append(handlers, [sig |-> s, on |-> t, pc |-> "scan", at |-> 1])
        BY <3>3
      <4> DEFINE h == [sig |-> s, on |-> t, pc |-> "scan", at |-> 1]
      <4>2. h \in Handler /\ handlers' = Append(handlers, h)
        BY <3>1, <4>1
      <4> HIDE DEF h
      <4> QED BY <1>0, <4>2 DEF SignalType
    <3>4. \/ UNCHANGED handlers
          \/ \E t \in Threads : handlers' = Append(handlers, [sig |-> s, on |-> t, pc |-> "scan", at |-> 1])
      BY <1>2, Zenon DEF Arrive
    <3> QED BY <3>2, <3>3, <3>4
  <2>2. due' \subseteq Runs
    BY <1>0, <1>2 DEF Arrive, Tracked, SignalType
  <2> QED BY <1>0, <1>2, <2>1, <2>2 DEF Arrive, SignalType
<1>3. ASSUME NEW i \in 1..Cardinality(Signals), HandlerStep(i) PROVE SignalType'
  <2>1. ASSUME NEW at \in Slots, i \in DOMAIN handlers
        PROVE  [handlers EXCEPT ![i].at = at] \in Seq(Handler)
    <3>1. handlers[i] \in Handler
      BY <1>0, <2>1 DEF SignalType
    <3>2. [handlers[i] EXCEPT !.at = at] \in Handler
      BY <3>1 DEF Handler
    <3> QED BY <1>0, <2>1, <3>2 DEF SignalType
  <2>2. ASSUME NEW pc \in HandlerPCs, i \in DOMAIN handlers
        PROVE  [handlers EXCEPT ![i].pc = pc] \in Seq(Handler)
    <3>1. handlers[i] \in Handler
      BY <1>0, <2>2 DEF SignalType
    <3>2. [handlers[i] EXCEPT !.pc = pc] \in Handler
      BY <3>1 DEF Handler
    <3> QED BY <1>0, <2>2, <3>2 DEF SignalType
  <2>3. CASE ScanSlot(i)
    <3>1. i \in DOMAIN handlers
      BY <2>3 DEF ScanSlot, CanHandle
    <3>2. handlers[i].at \in Slots
      <4>1. handlers[i] \in Handler
        BY <1>0, <3>1 DEF SignalType
      <4> QED BY <4>1 DEF Handler
    <3>3. ASSUME HandlerTo(i, "swap") PROVE handlers' \in Seq(Handler)
      BY <2>2, <3>1, <3>3 DEF HandlerTo, HandlerPCs
    <3>4. ASSUME handlers[i].at # MaxTracked, handlers' = [handlers EXCEPT ![i].at = handlers[i].at + 1]
          PROVE  handlers' \in Seq(Handler)
      <4>1. handlers[i].at + 1 \in Slots
        BY <3>2, <3>4, SlotAssumption DEF Slots
      <4> QED BY <2>1, <3>1, <3>4, <4>1
    <3>5. handlers' \in Seq(Handler)
      BY <2>3, <3>3, <3>4 DEF ScanSlot
    <3> QED BY <1>0, <2>3, <3>5 DEF ScanSlot, ends, history, SignalType
  <2>4. CASE Swap(i)
    BY <1>0, <2>2, <2>4 DEF Swap, CanHandle, HandlerTo, HandlerPCs, ends, history, SignalType
  <2>5. CASE Flushed(i)
    BY <1>0, <2>2, <2>5 DEF Flushed, CanHandle, HandlerTo, HandlerPCs, ends, history, SignalType
  <2>6. CASE Raise(i)
    BY <1>0, <2>6 DEF Raise, signals, history, SignalType
  <2> QED BY <1>3, <2>3, <2>4, <2>5, <2>6 DEF HandlerStep
<1>4. CASE Yield \/ Exit
  BY <1>0, <1>4 DEF Yield, Exit, signals, history, SignalType
<1>5. CASE (\E g \in Runs : Fork(g) \/ LeaderExits(g) \/ ToolsExit(g)) \/ UNCHANGED vars
  BY <1>0, <1>5 DEF Fork, LeaderExits, ToolsExit, signals, ends, history, vars, SignalType
<1> QED BY <1>1, <1>2, <1>3, <1>4, <1>5 DEF Next

\* Every step keeps the type; OwnRuns, because a lane acts on the run it has.
LEMMA TypeStep ==
  ASSUME TypeOK, OwnRuns, [Next]_vars
  PROVE  TypeOK'
  BY KernelTypeStep, LaneTypeStep, FlagTypeStep, SignalTypeStep, TypePartsNext

------------------------------------------------------------------------------

\* A step of a lane that neither takes a run nor gives one up moves its program
\* counter at most, and within the run.
LEMMA KeepsRun ==
  ASSUME LaneType, NEW l \in Lanes, LaneStep(l), ~Spawn(l), ~Drop(l)
  PROVE  /\ \A m \in Lanes : lane'[m].run = lane[m].run
         /\ \A m \in Lanes : m # l => lane'[m] = lane[m]
         /\ lane[l].pc \in {"next", "done"} => lane'[l].pc \in {"next", "done"}
<1>1. CASE \E pc \in LanePCs : To(l, pc) /\ (lane[l].pc \in {"next", "done"} => pc = "done")
  BY <1>1 DEF To, LaneType
<1>2. CASE Track(l)
  BY <1>2 DEF Track, Can, To, LaneType
<1>3. CASE Poll(l)
  BY <1>3, <1>1 DEF Poll, Can, LanePCs
<1>4. CASE StopLeftovers(l)
  BY <1>4, <1>1 DEF StopLeftovers, Can, LanePCs
<1>5. CASE Finish(l) \/ Terminate(l) \/ KillStopped(l) \/ Reap(l) \/ TermLeftovers(l) \/ KillLeftovers(l) \/ Drain(l)
  BY <1>5, <1>1 DEF Finish, Terminate, KillStopped, Reap, TermLeftovers, KillLeftovers, Drain, Can, LanePCs
<1> QED BY <1>2, <1>3, <1>4, <1>5 DEF LaneStep

\* Nothing is unborn again.
LEMMA StaysBorn ==
  ASSUME TypeOK, [Next]_vars, NEW g \in Runs, leader[g] # "unborn"
  PROVE  leader'[g] # "unborn"
<1>0. KernelType /\ LaneType
  BY TypeParts
<1>1. CASE UNCHANGED leader
  BY <1>1
<1>2. ASSUME NEW p, Killed(p) PROVE leader'[g] # "unborn"
  BY <1>0, <1>2, KilledType
<1>3. CASE \E h \in Runs : leader' = [leader EXCEPT ![h] = "alive"] \/ leader' = [leader EXCEPT ![h] = "zombie"]
  BY <1>0, <1>3 DEF KernelType
<1>4. ASSUME NEW h, leader' = [leader EXCEPT ![h] = "reaped"] PROVE leader'[g] # "unborn"
  BY <1>0, <1>4 DEF KernelType
<1>5. ASSUME NEW l \in Lanes, LaneStep(l) PROVE leader'[g] # "unborn"
  <2>1. CASE Spawn(l)
    BY <2>1, <1>3 DEF Spawn
  <2>2. CASE Poll(l)
    BY <2>2, <1>1, <1>4 DEF Poll
  <2>3. CASE KillStopped(l) \/ KillLeftovers(l)
    BY <2>3, <1>2 DEF KillStopped, KillLeftovers
  <2>4. CASE Reap(l)
    BY <2>4, <1>4 DEF Reap
  <2>5. CASE Finish(l) \/ Track(l) \/ Terminate(l) \/ StopLeftovers(l) \/ TermLeftovers(l) \/ Drain(l) \/ Drop(l)
    BY <2>5, <1>1, Zenon DEF Finish, Track, Terminate, StopLeftovers, TermLeftovers, Drain, Drop, kernel
  <2> QED BY <1>5, <2>1, <2>2, <2>3, <2>4, <2>5 DEF LaneStep
<1>6. ASSUME NEW h \in Runs, Fork(h) \/ LeaderExits(h) \/ ToolsExit(h) PROVE leader'[g] # "unborn"
  BY <1>1, <1>3, <1>6 DEF Fork, LeaderExits, ToolsExit
<1>7. ASSUME NEW i \in 1..Cardinality(Signals), HandlerStep(i) PROVE leader'[g] # "unborn"
  <2>1. CASE ScanSlot(i)
    BY <2>1, <1>1, <1>2 DEF ScanSlot, kernel
  <2>2. CASE Swap(i) \/ Flushed(i) \/ Raise(i)
    BY <2>2, <1>1 DEF Swap, Flushed, Raise, kernel
  <2> QED BY <1>7, <2>1, <2>2 DEF HandlerStep
<1>8. CASE (\E s \in Signals : Arrive(s)) \/ Yield \/ Exit \/ UNCHANGED vars
  BY <1>8, <1>1, Zenon DEF Arrive, Yield, Exit, kernel, vars
<1> QED BY <1>5, <1>6, <1>7, <1>8 DEF Next

\* Each lane has a run of its own.
LEMMA OwnRunsStep ==
  ASSUME TypeOK, OwnRuns, [Next]_vars
  PROVE  OwnRuns'
<1>0. KernelType /\ LaneType /\ LaneType'
  BY TypeParts, LaneTypeStep
<1>1. CASE UNCHANGED lane
  BY <1>0, <1>1, StaysBorn DEF OwnRuns, LaneType
<1>2. ASSUME NEW l \in Lanes, LaneStep(l) PROVE OwnRuns'
  <2>1. CASE Spawn(l)
    <3>1. PICK g \in Runs : /\ leader[g] = "unborn" /\ leader' = [leader EXCEPT ![g] = "alive"]
                            /\ lane' = [lane EXCEPT ![l].pc = "spawned", ![l].run = g]
      BY <2>1 DEF Spawn
    <3>2. /\ lane'[l].run = g /\ leader'[g] = "alive"
          /\ \A m \in Lanes : m # l => lane'[m] = lane[m]
          /\ \A m \in Lanes : lane[m].run # g
      BY <1>0, <3>1, GroupAssumption DEF OwnRuns, LaneType, KernelType
    <3>3. \A m \in Lanes : lane'[m].run \in Runs => leader'[lane'[m].run] # "unborn"
      BY <3>2, StaysBorn DEF OwnRuns
    <3>4. \A m, n \in Lanes : m # n /\ lane'[m].run \in Runs => lane'[m].run # lane'[n].run
      BY <3>2 DEF OwnRuns
    <3>5. \A m \in Lanes : lane'[m].pc \notin {"next", "done"} => lane'[m].run \in Runs
      BY <3>2 DEF OwnRuns
    <3> QED BY <3>3, <3>4, <3>5 DEF OwnRuns
  <2>2. CASE Drop(l)
    <3>1. /\ lane'[l].run = NoRun /\ lane'[l].pc = "next"
          /\ \A m \in Lanes : m # l => lane'[m] = lane[m]
      BY <1>0, <2>2 DEF Drop, LaneType
    <3>2. \A m \in Lanes : lane'[m].run \in Runs => m # l
      BY <3>1, GroupAssumption
    <3>3. \A m \in Lanes : lane'[m].run \in Runs => leader'[lane'[m].run] # "unborn"
      BY <3>1, <3>2, StaysBorn DEF OwnRuns
    <3>4. \A m, n \in Lanes : m # n /\ lane'[m].run \in Runs => lane'[m].run # lane'[n].run
      BY <3>1, <3>2 DEF OwnRuns
    <3>5. \A m \in Lanes : lane'[m].pc \notin {"next", "done"} => lane'[m].run \in Runs
      BY <3>1 DEF OwnRuns
    <3> QED BY <3>3, <3>4, <3>5 DEF OwnRuns
  <2>3. CASE ~Spawn(l) /\ ~Drop(l)
    <3>1. /\ \A m \in Lanes : lane'[m].run = lane[m].run
          /\ \A m \in Lanes : m # l => lane'[m] = lane[m]
          /\ lane[l].pc \in {"next", "done"} => lane'[l].pc \in {"next", "done"}
      BY <1>0, <1>2, <2>3, KeepsRun
    <3>2. \A m \in Lanes : lane'[m].run \in Runs => leader'[lane'[m].run] # "unborn"
      BY <3>1, StaysBorn DEF OwnRuns
    <3>3. \A m \in Lanes : lane'[m].pc \notin {"next", "done"} => lane'[m].run \in Runs
      BY <3>1 DEF OwnRuns
    <3> QED BY <3>1, <3>2, <3>3 DEF OwnRuns
  <2> QED BY <2>1, <2>2, <2>3
<1>3. (\E g \in Runs : Fork(g) \/ LeaderExits(g) \/ ToolsExit(g)) \/ (\E s \in Signals : Arrive(s))
      \/ (\E i \in 1..Cardinality(Signals) : HandlerStep(i)) \/ Yield \/ Exit \/ UNCHANGED vars
      => UNCHANGED lane
  BY Zenon DEF Fork, LeaderExits, ToolsExit, Arrive, HandlerStep, ScanSlot, Swap, Flushed, Raise, Yield, Exit, vars
<1> QED BY <1>1, <1>2, <1>3 DEF Next

\* Only its lane reaps a leader, and only when the lane has done with it.
LEMMA LeaderPinsStep ==
  ASSUME TypeOK, OwnRuns, LeaderPins, [Next]_vars
  PROVE  LeaderPins'
<1>0. KernelType /\ LaneType
  BY TypeParts
<1> DEFINE Up(h) == leader[h] \in {"alive", "zombie"}
\* Where no leader is reaped and no lane moves into Unreaped, nothing is lost.
<1>1. ASSUME \A m \in Lanes : lane'[m].pc \in Unreaped =>
                lane[m].pc \in Unreaped /\ lane'[m].run = lane[m].run /\ (Up(lane[m].run) => Up(lane[m].run)')
      PROVE  LeaderPins'
  BY <1>1 DEF LeaderPins
<1>2. ASSUME UNCHANGED lane, \A h \in Runs : Up(h) => Up(h)' PROVE LeaderPins'
  BY <1>2 DEF LeaderPins, OwnRuns, Unreaped
<1>3. ASSUME NEW p, Killed(p), NEW h \in Runs, Up(h) PROVE Up(h)'
  BY <1>0, <1>3, KilledType
<1>4. ASSUME NEW l \in Lanes, LaneStep(l) PROVE LeaderPins'
  <2>1. CASE Spawn(l)
    <3>1. PICK g \in Runs : /\ leader[g] = "unborn" /\ leader' = [leader EXCEPT ![g] = "alive"]
                            /\ lane' = [lane EXCEPT ![l].pc = "spawned", ![l].run = g]
      BY <2>1 DEF Spawn
    <3>2. /\ lane'[l].run = g /\ leader'[g] = "alive"
          /\ \A m \in Lanes : m # l => lane'[m] = lane[m]
          /\ \A h \in Runs : Up(h) => Up(h)'
      BY <1>0, <3>1 DEF LaneType, KernelType
    <3> QED BY <3>2 DEF LeaderPins, OwnRuns, Unreaped
  <2>2. CASE Drop(l)
    <3>1. lane'[l].pc = "next" /\ (\A m \in Lanes : m # l => lane'[m] = lane[m]) /\ UNCHANGED leader
      BY <1>0, <2>2 DEF Drop, LaneType, kernel
    <3> QED BY <3>1 DEF LeaderPins, Unreaped
  <2>3. CASE ~Spawn(l) /\ ~Drop(l)
    <3>1. /\ \A m \in Lanes : lane'[m].run = lane[m].run
          /\ \A m \in Lanes : m # l => lane'[m] = lane[m]
      BY <1>0, <1>4, <2>3, KeepsRun
    <3>2. ASSUME \A h \in Runs : Up(h) => Up(h)', lane'[l].pc \in Unreaped => lane[l].pc \in Unreaped
          PROVE  LeaderPins'
      <4>1. \A m \in Lanes : lane[m].pc \in Unreaped => lane[m].run \in Runs
        BY DEF OwnRuns, Unreaped
      <4> QED BY <3>1, <3>2, <4>1 DEF LeaderPins
    <3>3. ASSUME leader' = [leader EXCEPT ![lane[l].run] = "reaped"], lane'[l].pc \notin Unreaped,
                 lane[l].run \in Runs
          PROVE  LeaderPins'
      <4>1. \A m \in Lanes : m # l /\ lane[m].pc \in Unreaped => lane[m].run \in Runs /\ lane[m].run # lane[l].run
        BY <3>3 DEF OwnRuns, Unreaped
      <4>2. \A h \in Runs : h # lane[l].run => leader'[h] = leader[h]
        BY <1>0, <3>3 DEF KernelType
      <4> QED BY <3>1, <3>3, <4>1, <4>2 DEF LeaderPins
    <3>4. CASE Track(l)
      <4>1. lane[l].pc = "spawned" /\ UNCHANGED leader
        BY <3>4 DEF Track, Can, kernel
      <4> QED BY <3>2, <4>1 DEF Unreaped
    <3>5. CASE Poll(l)
      <4>1. lane[l].pc = "running" /\ lane[l].run \in Runs
        BY <3>5 DEF Poll, Can, OwnRuns
      <4>2. CASE UNCHANGED leader
        BY <3>2, <4>1, <4>2 DEF Unreaped
      <4>3. CASE leader' = [leader EXCEPT ![lane[l].run] = "reaped"] /\ To(l, "leftovers")
        <5>1. lane'[l].pc = "leftovers"
          BY <1>0, <4>3 DEF To, LaneType
        <5> QED BY <3>3, <4>1, <4>3, <5>1 DEF Unreaped
      <4> QED BY <3>5, <4>2, <4>3 DEF Poll
    <3>6. CASE Reap(l)
      <4>1. lane[l].run \in Runs
        BY <3>6 DEF Reap, Can, OwnRuns
      <4>2. lane'[l].pc = "drain"
        BY <1>0, <3>6 DEF Reap, To, LaneType
      <4> QED BY <3>3, <3>6, <4>1, <4>2 DEF Reap, Unreaped
    <3>7. CASE KillStopped(l)
      <4>1. lane[l].pc = "grace"
        BY <3>7 DEF KillStopped, Can
      <4> QED BY <1>3, <3>2, <3>7, <4>1 DEF KillStopped, Unreaped
    <3>8. CASE KillLeftovers(l)
      <4>1. lane'[l].pc = "drain"
        BY <1>0, <3>8 DEF KillLeftovers, To, LaneType
      <4> QED BY <1>3, <3>2, <3>8, <4>1 DEF KillLeftovers, Unreaped
    <3>9. CASE Terminate(l)
      <4>1. lane[l].pc = "expired" /\ UNCHANGED leader
        BY <3>9 DEF Terminate, Can, kernel
      <4> QED BY <3>2, <4>1 DEF Unreaped
    <3>10. CASE Finish(l) \/ StopLeftovers(l) \/ TermLeftovers(l) \/ Drain(l)
      <4>1. lane'[l].pc \in {"done", "found", "linger", "drain", "drop"} /\ UNCHANGED leader
        BY <1>0, <3>10 DEF Finish, StopLeftovers, TermLeftovers, Drain, To, LaneType, kernel
      <4> QED BY <3>2, <4>1 DEF Unreaped
    <3> QED BY <1>4, <2>3, <3>4, <3>5, <3>6, <3>7, <3>8, <3>9, <3>10 DEF LaneStep
  <2> QED BY <2>1, <2>2, <2>3
<1>5. ASSUME NEW g \in Runs, Fork(g) \/ LeaderExits(g) \/ ToolsExit(g) PROVE LeaderPins'
  <2>1. UNCHANGED lane /\ (UNCHANGED leader \/ leader' = [leader EXCEPT ![g] = "zombie"])
    BY <1>5 DEF Fork, LeaderExits, ToolsExit
  <2>2. \A h \in Runs : Up(h) => Up(h)'
    BY <1>0, <2>1 DEF KernelType
  <2> QED BY <1>2, <2>1, <2>2
<1>6. ASSUME NEW i \in 1..Cardinality(Signals), HandlerStep(i) PROVE LeaderPins'
  <2>1. CASE ScanSlot(i)
    BY <1>2, <1>3, <2>1 DEF ScanSlot, kernel
  <2>2. CASE Swap(i) \/ Flushed(i) \/ Raise(i)
    BY <1>2, <2>2 DEF Swap, Flushed, Raise, kernel
  <2> QED BY <1>6, <2>1, <2>2 DEF HandlerStep
<1>7. CASE (\E s \in Signals : Arrive(s)) \/ Yield \/ Exit \/ UNCHANGED vars
  <2>1. UNCHANGED <<lane, leader>>
    BY <1>7, Zenon DEF Arrive, Yield, Exit, kernel, vars
  <2> QED BY <1>2, <2>1
<1> QED BY <1>4, <1>5, <1>6, <1>7 DEF Next

\* A group comes to exist in Spawn alone, with an identifier no other group has.
LEMMA OwnPidsStep ==
  ASSUME TypeOK, OwnRuns, OwnPids, [Next]_vars
  PROVE  OwnPids'
<1>0. KernelType /\ LaneType /\ KernelType'
  BY TypeParts, KernelTypeStep
<1>1. ASSUME UNCHANGED pid, \A h \in Runs : Exists(h)' => Exists(h),
             \A h \in Runs : leader'[h] = "unborn" => tools'[h] = "none"
      PROVE  OwnPids'
  BY <1>1 DEF OwnPids
<1>2. ASSUME NEW p, Killed(p) PROVE OwnPids'
  <2>1. \A h \in Runs : Exists(h)' => Exists(h)
    BY <1>0, <1>2, KilledType DEF Exists
  <2>2. \A h \in Runs : leader'[h] = "unborn" => tools'[h] = "none"
    BY <1>0, <1>2, KilledType DEF OwnPids
  <2> QED BY <1>0, <1>1, <1>2, <2>1, <2>2, KilledType
<1>3. ASSUME UNCHANGED kernel PROVE OwnPids'
  BY <1>3 DEF kernel, OwnPids, Exists
<1>4. ASSUME NEW h \in Runs, leader[h] # "unborn", UNCHANGED <<pid, tools>>,
             leader' = [leader EXCEPT ![h] = "reaped"]
      PROVE  OwnPids'
  BY <1>0, <1>4 DEF OwnPids, Exists, KernelType
<1>5. ASSUME NEW l \in Lanes, LaneStep(l) PROVE OwnPids'
  <2>1. CASE Spawn(l)
    <3>1. PICK g \in Runs, p \in Pids :
             /\ leader[g] = "unborn" /\ Free(p)
             /\ pid' = [pid EXCEPT ![g] = p] /\ leader' = [leader EXCEPT ![g] = "alive"]
             /\ UNCHANGED tools
      BY <2>1 DEF Spawn
    <3>2. /\ pid'[g] = p /\ leader'[g] = "alive"
          /\ \A h \in Runs : h # g => pid'[h] = pid[h] /\ leader'[h] = leader[h]
      BY <1>0, <3>1 DEF KernelType
    <3>3. \A h \in Runs : h # g /\ Exists(h)' => Exists(h) /\ pid[h] # p
      BY <3>1, <3>2 DEF Exists, Free
    <3> QED BY <3>1, <3>2, <3>3 DEF OwnPids
  <2>2. CASE Poll(l)
    <3>1. lane[l].run \in Runs
      BY <2>2 DEF Poll, Can, OwnRuns
    <3>2. CASE leader[lane[l].run] = "zombie" /\ leader' = [leader EXCEPT ![lane[l].run] = "reaped"]
      BY <1>4, <2>2, <3>1, <3>2 DEF Poll
    <3>3. CASE UNCHANGED leader
      BY <1>3, <2>2, <3>3 DEF Poll, kernel
    <3> QED BY <2>2, <3>2, <3>3 DEF Poll
  <2>3. CASE KillStopped(l) \/ KillLeftovers(l)
    BY <1>2, <2>3 DEF KillStopped, KillLeftovers
  <2>4. CASE Reap(l)
    <3>1. lane[l].run \in Runs /\ leader[lane[l].run] # "unborn"
      BY <2>4 DEF Reap, Can, OwnRuns
    <3> QED BY <1>4, <2>4, <3>1 DEF Reap
  <2>5. CASE Finish(l) \/ Track(l) \/ Terminate(l) \/ StopLeftovers(l) \/ TermLeftovers(l) \/ Drain(l) \/ Drop(l)
    BY <1>3, <2>5, Zenon DEF Finish, Track, Terminate, StopLeftovers, TermLeftovers, Drain, Drop
  <2> QED BY <1>5, <2>1, <2>2, <2>3, <2>4, <2>5 DEF LaneStep
<1>6. ASSUME NEW g \in Runs, Fork(g) \/ LeaderExits(g) \/ ToolsExit(g) PROVE OwnPids'
  <2>1. CASE Fork(g)
    <3>1. Exists(g) /\ leader[g] # "unborn" /\ UNCHANGED <<pid, leader>>
      BY <2>1 DEF Fork, Running, Exists, OwnPids
    <3>2. \A h \in Runs : h # g => tools'[h] = tools[h]
      BY <1>0, <2>1 DEF Fork, KernelType
    <3> QED BY <1>1, <3>1, <3>2 DEF Exists, OwnPids
  <2>2. CASE LeaderExits(g)
    BY <1>0, <2>2 DEF LeaderExits, OwnPids, Exists, KernelType
  <2>3. CASE ToolsExit(g)
    BY <1>0, <2>3 DEF ToolsExit, OwnPids, Exists, KernelType
  <2> QED BY <1>6, <2>1, <2>2, <2>3
<1>7. ASSUME NEW i \in 1..Cardinality(Signals), HandlerStep(i) PROVE OwnPids'
  BY <1>2, <1>3, <1>7, Zenon DEF HandlerStep, ScanSlot, Swap, Flushed, Raise
<1>8. CASE (\E s \in Signals : Arrive(s)) \/ Yield \/ Exit \/ UNCHANGED vars
  <2>1. UNCHANGED kernel
    BY <1>8, Zenon DEF Arrive, Yield, Exit, kernel, vars
  <2> QED BY <1>3, <2>1
<1> QED BY <1>5, <1>6, <1>7, <1>8 DEF Next

\* The signal of a limit is sent to a group whose leader is pinned, so the
\* identifier is that group's alone.
LEMMA LimitStep ==
  ASSUME TypeOK, OwnRuns, LeaderPins, OwnPids, LimitStrikesItsOwn, [Next]_vars
  PROVE  LimitStrikesItsOwn'
<1>1. ASSUME NEW l \in Lanes, lane[l].pc \in {"expired", "grace"}, Struck(pid[lane[l].run], lane[l].run)
      PROVE  LimitStrikesItsOwn'
  <2> DEFINE g == lane[l].run
  <2>1. g \in Runs /\ Exists(g)
    BY <1>1 DEF OwnRuns, LeaderPins, Unreaped, Exists
  <2>2. At(pid[g]) \ {g} = {}
    BY <2>1 DEF At, OwnPids
  <2> QED BY <1>1, <2>2 DEF Struck, LimitStrikesItsOwn
<1>2. CASE UNCHANGED stray
  BY <1>2 DEF LimitStrikesItsOwn
<1>3. ASSUME NEW l \in Lanes, LaneStep(l) PROVE LimitStrikesItsOwn'
  <2>1. CASE Terminate(l) \/ KillStopped(l)
    BY <1>1, <2>1 DEF Terminate, KillStopped, Can
  <2>2. Terminate(l) \/ KillStopped(l) \/ UNCHANGED stray
    BY <1>3, Zenon DEF LaneStep, Spawn, Finish, Track, Poll, Reap, StopLeftovers, TermLeftovers,
       KillLeftovers, Drain, Drop, history
  <2> QED BY <1>2, <2>1, <2>2
<1>4. (\E g \in Runs : Fork(g) \/ LeaderExits(g) \/ ToolsExit(g)) \/ (\E s \in Signals : Arrive(s))
      \/ (\E i \in 1..Cardinality(Signals) : HandlerStep(i)) \/ Yield \/ Exit \/ UNCHANGED vars
      => UNCHANGED stray
  BY Zenon DEF Fork, LeaderExits, ToolsExit, Arrive, HandlerStep, ScanSlot, Swap, Flushed, Raise, Yield, Exit,
     history, vars
<1> QED BY <1>2, <1>3, <1>4 DEF Next

------------------------------------------------------------------------------

\* PinInv holds in every reachable state.
THEOREM PinsHold == Spec => []PinInv
<1>1. Init => PinInv
  <2> SUFFICES ASSUME Init PROVE PinInv
    OBVIOUS
  <2>1. OwnRuns /\ LeaderPins
    BY GroupAssumption DEF Init, OwnRuns, LeaderPins, Unreaped
  <2>2. OwnPids /\ LimitStrikesItsOwn
    BY DEF Init, OwnPids, Exists, LimitStrikesItsOwn
  <2> QED BY <2>1, <2>2, TypeInit DEF PinInv
<1>2. PinInv /\ [Next]_vars => PinInv'
  BY TypeStep, OwnRunsStep, LeaderPinsStep, OwnPidsStep, LimitStep DEF PinInv
<1> QED BY <1>1, <1>2, PTL DEF Spec

\* The state keeps its type (group.rs and capture_capped as a whole).
THEOREM GroupsTyped == Spec => []TypeOK
<1>1. PinInv => TypeOK
  BY DEF PinInv
<1> QED BY <1>1, PinsHold, PTL

\* The signals of a time limit reach the stopped run's own group only: the lane
\* reaps its leader after the group is killed, and the unreaped leader keeps the
\* kernel from reusing the identifier (capture_capped, ProcessGroupGuard::terminate).
THEOREM LimitsStrikeTheirOwn == Spec => []LimitStrikesItsOwn
<1>1. PinInv => LimitStrikesItsOwn
  BY DEF PinInv
<1> QED BY <1>1, PinsHold, PTL

------------------------------------------------------------------------------

\* A group that was born has an identifier.
BornPids == \A g \in Runs : leader[g] # "unborn" => pid[g] \in Pids

\* A lane has no slot until its guard takes one.
NoSlotYet == \A l \in Lanes : lane[l].pc \in {"next", "done", "spawned"} => lane[l].slot = 0

\* The inductive invariant of SlotsNameGuards.
SlotInv == PinInv /\ BornPids /\ NoSlotYet /\ SlotsNameGuards

\* Once born, a run keeps an identifier.
LEMMA BornPidsStep ==
  ASSUME TypeOK, OwnRuns, BornPids, [Next]_vars
  PROVE  BornPids'
<1>0. KernelType /\ KernelType' /\ LaneType
  BY TypeParts, KernelTypeStep
<1>1. CASE UNCHANGED pid /\ \A h \in Runs : leader[h] = "unborn" => leader'[h] = "unborn"
  BY <1>1 DEF BornPids
<1>2. ASSUME NEW p, Killed(p) PROVE BornPids'
  BY <1>0, <1>1, <1>2, KilledType
<1>3. ASSUME NEW h \in Runs, leader[h] # "unborn", UNCHANGED pid, NEW to, leader' = [leader EXCEPT ![h] = to]
      PROVE  BornPids'
  BY <1>0, <1>1, <1>3 DEF KernelType
<1>4. ASSUME NEW l \in Lanes, LaneStep(l) PROVE BornPids'
  <2>1. CASE Spawn(l)
    BY <1>0, <2>1 DEF Spawn, BornPids, KernelType
  <2>2. CASE Poll(l)
    BY <1>1, <1>3, <2>2 DEF Poll, Can, OwnRuns
  <2>3. CASE KillStopped(l) \/ KillLeftovers(l)
    BY <1>2, <2>3 DEF KillStopped, KillLeftovers
  <2>4. CASE Reap(l)
    BY <1>3, <2>4 DEF Reap, Can, OwnRuns
  <2>5. CASE Finish(l) \/ Track(l) \/ Terminate(l) \/ StopLeftovers(l) \/ TermLeftovers(l) \/ Drain(l) \/ Drop(l)
    <3>1. UNCHANGED kernel
      BY <2>5, Zenon DEF Finish, Track, Terminate, StopLeftovers, TermLeftovers, Drain, Drop
    <3> QED BY <1>1, <3>1 DEF kernel
  <2> QED BY <1>4, <2>1, <2>2, <2>3, <2>4, <2>5 DEF LaneStep
<1>5. ASSUME NEW g \in Runs, Fork(g) \/ LeaderExits(g) \/ ToolsExit(g) PROVE BornPids'
  BY <1>1, <1>3, <1>5 DEF Fork, LeaderExits, ToolsExit
<1>6. ASSUME NEW i \in 1..Cardinality(Signals), HandlerStep(i) PROVE BornPids'
  <2>1. CASE ScanSlot(i)
    BY <1>1, <1>2, <2>1 DEF ScanSlot, kernel
  <2>2. CASE Swap(i) \/ Flushed(i) \/ Raise(i)
    BY <1>1, <2>2 DEF Swap, Flushed, Raise, kernel
  <2> QED BY <1>6, <2>1, <2>2 DEF HandlerStep
<1>7. CASE (\E s \in Signals : Arrive(s)) \/ Yield \/ Exit \/ UNCHANGED vars
  <2>1. UNCHANGED <<pid, leader>>
    BY <1>7, Zenon DEF Arrive, Yield, Exit, kernel, vars
  <2> QED BY <1>1, <2>1
<1> QED BY <1>4, <1>5, <1>6, <1>7 DEF Next

\* Lanes are no more than slots, so a lane without a slot leaves one free.
LEMMA SlotFree ==
  ASSUME LaneType, BornPids, OwnRuns, SlotsNameGuards, NEW l \in Lanes, lane[l].slot = 0
  PROVE  \E i \in Slots : slot[i] = NoPid
<1> SUFFICES ASSUME \A i \in Slots : slot[i] # NoPid PROVE FALSE
  OBVIOUS
<1> DEFINE Holder(i) == CHOOSE m \in Lanes : lane[m].slot = i
           f == [i \in Slots |-> Holder(i)]
<1>1. \A i \in Slots : Holder(i) \in Lanes /\ lane[Holder(i)].slot = i
  BY DEF SlotsNameGuards
<1>2. \A i \in Slots : Holder(i) # l
  BY <1>1 DEF Slots
<1>3. f \in [Slots -> Lanes \ {l}]
  BY <1>1, <1>2
<1>4. \A i, j \in Slots : f[i] = f[j] => i = j
  BY <1>1
<1>5. IsFiniteSet(Lanes \ {l}) /\ Cardinality(Lanes \ {l}) = Cardinality(Lanes) - 1
  BY SlotAssumption, FS_RemoveElement
<1>6. IsFiniteSet(Slots) /\ Cardinality(Slots) = MaxTracked
  BY SlotAssumption, FS_Interval DEF Slots
<1>7. Cardinality(Lanes \ {l}) < Cardinality(Slots)
  BY <1>5, <1>6, SlotAssumption, FS_CardinalityType
<1> HIDE DEF f
<1>8. \E i, j \in Slots : i # j /\ f[i] = f[j]
  BY <1>3, <1>5, <1>6, <1>7, FS_PigeonHole
<1> QED BY <1>4, <1>8

\* Where a lane has no slot: before led_by, and after the drop.
Early == {"next", "done", "spawned"}

\* Only led_by and the drop change the table or a lane's share of it.
LEMMA KeepsSlot ==
  ASSUME LaneType, NEW l \in Lanes, LaneStep(l), ~Spawn(l), ~Track(l), ~Drop(l)
  PROVE  /\ UNCHANGED slot
         /\ pid' = pid
         /\ \A m \in Lanes : lane'[m].run = lane[m].run /\ lane'[m].slot = lane[m].slot
         /\ \A m \in Lanes : lane'[m].pc \in Early <=> lane[m].pc \in Early
<1>1. CASE \E pc \in LanePCs : To(l, pc) /\ (pc \in Early <=> lane[l].pc \in Early) /\ UNCHANGED <<slot, pid>>
  BY <1>1 DEF To, LaneType
<1>2. CASE Poll(l)
  BY <1>1, <1>2 DEF Poll, Can, LanePCs, Early
<1>3. CASE StopLeftovers(l)
  BY <1>1, <1>3 DEF StopLeftovers, Can, LanePCs, Early, kernel
<1>4. CASE Finish(l) \/ Terminate(l) \/ Reap(l) \/ TermLeftovers(l) \/ Drain(l)
  BY <1>1, <1>4 DEF Finish, Terminate, Reap, TermLeftovers, Drain, Can, LanePCs, Early, kernel
<1>5. CASE KillStopped(l) \/ KillLeftovers(l)
  BY <1>1, <1>5 DEF KillStopped, KillLeftovers, Killed, Can, LanePCs, Early
<1> QED BY <1>2, <1>3, <1>4, <1>5 DEF LaneStep

\* Guards and the table agree from one step to the next: a spawn names a group
\* no guard holds, led_by takes a free slot, and a drop clears the guard's own.
LEMMA SlotsStep ==
  ASSUME TypeOK, OwnRuns, BornPids, NoSlotYet, SlotsNameGuards, [Next]_vars
  PROVE  NoSlotYet' /\ SlotsNameGuards'
<1>0. KernelType /\ LaneType /\ LaneType'
  BY TypeParts, LaneTypeStep
<1>1. \A m \in Lanes : lane[m].slot # 0 =>
         lane[m].run \in Runs /\ leader[lane[m].run] # "unborn" /\ pid[lane[m].run] \in Pids
            /\ slot[lane[m].slot] = pid[lane[m].run]
  BY DEF NoSlotYet, OwnRuns, BornPids, SlotsNameGuards
<1>2. CASE UNCHANGED <<lane, slot, pid>>
  BY <1>2 DEF NoSlotYet, SlotsNameGuards
<1>3. ASSUME NEW l \in Lanes, LaneStep(l) PROVE NoSlotYet' /\ SlotsNameGuards'
  <2>1. CASE Spawn(l)
    <3>1. PICK g \in Runs, p \in Pids :
             /\ leader[g] = "unborn" /\ pid' = [pid EXCEPT ![g] = p] /\ UNCHANGED slot
             /\ lane' = [lane EXCEPT ![l].pc = "spawned", ![l].run = g]
      BY <2>1 DEF Spawn
    <3>2. /\ lane'[l].pc = "spawned" /\ lane'[l].slot = lane[l].slot /\ lane[l].slot = 0
          /\ \A m \in Lanes : m # l => lane'[m] = lane[m]
          /\ \A h \in Runs : h # g => pid'[h] = pid[h]
      BY <1>0, <2>1, <3>1 DEF LaneType, KernelType, Spawn, Can, NoSlotYet
    <3>3. \A m \in Lanes : lane[m].slot # 0 => m # l /\ lane[m].run # g /\ pid'[lane[m].run] = pid[lane[m].run]
      BY <1>1, <3>1, <3>2
    <3>4. NoSlotYet'
      BY <3>2 DEF NoSlotYet
    <3>5. \A i \in Slots : slot'[i] # NoPid => \E m \in Lanes : lane'[m].slot = i /\ pid'[lane'[m].run] = slot'[i]
      <4> SUFFICES ASSUME NEW i \in Slots, slot'[i] # NoPid
                   PROVE  \E m \in Lanes : lane'[m].slot = i /\ pid'[lane'[m].run] = slot'[i]
        OBVIOUS
      <4>0. slot' = slot
        BY <3>1
      <4>1. PICK m \in Lanes : lane[m].slot = i /\ pid[lane[m].run] = slot[i]
        BY <4>0 DEF SlotsNameGuards
      <4>2. lane[m].slot # 0
        BY <4>1 DEF Slots
      <4> QED BY <3>2, <3>3, <4>0, <4>1, <4>2
    <3>6. \A m, n \in Lanes : m # n /\ lane'[m].slot # 0 => lane'[m].slot # lane'[n].slot
      BY <3>2 DEF SlotsNameGuards
    <3>7. \A m \in Lanes : lane'[m].pc \notin Early => lane'[m].slot # 0 /\ slot'[lane'[m].slot] = pid'[lane'[m].run]
      <4> SUFFICES ASSUME NEW m \in Lanes, lane'[m].pc \notin Early
                   PROVE  lane'[m].slot # 0 /\ slot'[lane'[m].slot] = pid'[lane'[m].run]
        OBVIOUS
      <4>1. m # l /\ lane'[m] = lane[m]
        BY <3>2 DEF Early
      <4>2. lane[m].slot # 0 /\ slot[lane[m].slot] = pid[lane[m].run]
        BY <4>1 DEF Early, SlotsNameGuards
      <4> QED BY <3>1, <3>3, <4>1, <4>2
    <3> QED BY <3>4, <3>5, <3>6, <3>7 DEF SlotsNameGuards, Early
  <2>2. CASE Track(l)
    <3>1. lane[l].slot = 0 /\ lane[l].run \in Runs /\ pid' = pid
      BY <2>2 DEF Track, Can, NoSlotYet, OwnRuns, kernel
    <3>2. \E j \in Slots : slot[j] = NoPid
      BY <1>0, <3>1, SlotFree
    <3>3. PICK i \in Slots : /\ slot[i] = NoPid
                             /\ slot' = [slot EXCEPT ![i] = pid[lane[l].run]]
                             /\ lane' = [lane EXCEPT ![l].pc = "running", ![l].slot = i]
      BY <2>2, <3>2 DEF Track
    <3>4. /\ lane'[l].pc = "running" /\ lane'[l].slot = i /\ lane'[l].run = lane[l].run
          /\ \A m \in Lanes : m # l => lane'[m] = lane[m]
          /\ slot'[i] = pid[lane[l].run] /\ \A j \in Slots : j # i => slot'[j] = slot[j]
      BY <1>0, <3>3 DEF LaneType
    <3>5. \A m \in Lanes : lane[m].slot # i
      BY <1>1, <3>3, GroupAssumption DEF Slots
    <3>6. i # 0
      BY DEF Slots
    <3>7. NoSlotYet'
      BY <3>4 DEF NoSlotYet
    <3>8. \A j \in Slots : slot'[j] # NoPid => \E m \in Lanes : lane'[m].slot = j /\ pid'[lane'[m].run] = slot'[j]
      <4> SUFFICES ASSUME NEW j \in Slots, slot'[j] # NoPid
                   PROVE  \E m \in Lanes : lane'[m].slot = j /\ pid'[lane'[m].run] = slot'[j]
        OBVIOUS
      <4>1. CASE j = i
        BY <3>1, <3>4, <4>1
      <4>2. CASE j # i
        <5>1. PICK m \in Lanes : lane[m].slot = j /\ pid[lane[m].run] = slot[j]
          BY <3>4, <4>2 DEF SlotsNameGuards
        <5>2. m # l
          BY <3>1, <5>1 DEF Slots
        <5> QED BY <3>1, <3>4, <4>2, <5>1, <5>2
      <4> QED BY <4>1, <4>2
    <3>9. \A m, n \in Lanes : m # n /\ lane'[m].slot # 0 => lane'[m].slot # lane'[n].slot
      BY <3>4, <3>5 DEF SlotsNameGuards
    <3>10. \A m \in Lanes : lane'[m].pc \notin Early => lane'[m].slot # 0 /\ slot'[lane'[m].slot] = pid'[lane'[m].run]
      <4> SUFFICES ASSUME NEW m \in Lanes, m # l, lane[m].pc \notin Early
                   PROVE  lane[m].slot # 0 /\ slot'[lane[m].slot] = pid[lane[m].run]
        BY <3>1, <3>4, <3>6
      <4>1. lane[m].slot # 0 /\ slot[lane[m].slot] = pid[lane[m].run]
        BY DEF Early, SlotsNameGuards
      <4>2. lane[m].slot \in Slots /\ lane[m].slot # i
        BY <1>0, <3>5, <4>1 DEF LaneType
      <4> QED BY <3>4, <4>1, <4>2
    <3> QED BY <3>7, <3>8, <3>9, <3>10 DEF SlotsNameGuards, Early
  <2>3. CASE Drop(l)
    <3> DEFINE i == lane[l].slot
    <3>1. i # 0 /\ i \in Slots /\ pid' = pid
      BY <1>0, <2>3 DEF Drop, Can, SlotsNameGuards, LaneType, kernel
    <3>2. /\ lane'[l].pc = "next" /\ lane'[l].slot = 0
          /\ \A m \in Lanes : m # l => lane'[m] = lane[m]
          /\ slot'[i] = NoPid /\ \A j \in Slots : j # i => slot'[j] = slot[j]
      BY <1>0, <2>3, <3>1 DEF Drop, LaneType
    <3>3. \A m \in Lanes : m # l => lane[m].slot # i
      BY <3>1 DEF SlotsNameGuards
    <3> HIDE DEF i
    <3>4. NoSlotYet'
      BY <3>2 DEF NoSlotYet
    <3>5. \A j \in Slots : slot'[j] # NoPid => \E m \in Lanes : lane'[m].slot = j /\ pid'[lane'[m].run] = slot'[j]
      <4> SUFFICES ASSUME NEW j \in Slots, slot'[j] # NoPid
                   PROVE  \E m \in Lanes : lane'[m].slot = j /\ pid'[lane'[m].run] = slot'[j]
        OBVIOUS
      <4>1. j # i
        BY <3>2
      <4>2. PICK m \in Lanes : lane[m].slot = j /\ pid[lane[m].run] = slot[j]
        BY <3>2, <4>1 DEF SlotsNameGuards
      <4>3. m # l
        BY <4>1, <4>2 DEF i
      <4> QED BY <3>1, <3>2, <4>1, <4>2, <4>3
    <3>6. \A m, n \in Lanes : m # n /\ lane'[m].slot # 0 => lane'[m].slot # lane'[n].slot
      BY <3>2 DEF SlotsNameGuards
    <3>7. \A m \in Lanes : lane'[m].pc \notin Early => lane'[m].slot # 0 /\ slot'[lane'[m].slot] = pid'[lane'[m].run]
      <4> SUFFICES ASSUME NEW m \in Lanes, m # l, lane[m].pc \notin Early
                   PROVE  lane[m].slot # 0 /\ slot'[lane[m].slot] = pid[lane[m].run]
        BY <3>1, <3>2 DEF Early
      <4>1. lane[m].slot # 0 /\ slot[lane[m].slot] = pid[lane[m].run]
        BY DEF Early, SlotsNameGuards
      <4>2. lane[m].slot \in Slots /\ lane[m].slot # i
        BY <1>0, <3>3, <4>1 DEF LaneType
      <4> QED BY <3>2, <4>1, <4>2
    <3> QED BY <3>4, <3>5, <3>6, <3>7 DEF SlotsNameGuards, Early
  <2>4. CASE ~Spawn(l) /\ ~Track(l) /\ ~Drop(l)
    <3>1. /\ UNCHANGED slot
          /\ pid' = pid
          /\ \A m \in Lanes : lane'[m].run = lane[m].run /\ lane'[m].slot = lane[m].slot
          /\ \A m \in Lanes : lane'[m].pc \in Early <=> lane[m].pc \in Early
      BY <1>0, <1>3, <2>4, KeepsSlot
    <3> QED BY <3>1 DEF NoSlotYet, SlotsNameGuards, Early
  <2> QED BY <2>1, <2>2, <2>3, <2>4
<1>4. (\E g \in Runs : Fork(g) \/ LeaderExits(g) \/ ToolsExit(g)) \/ (\E s \in Signals : Arrive(s))
      \/ (\E i \in 1..Cardinality(Signals) : HandlerStep(i)) \/ Yield \/ Exit \/ UNCHANGED vars
      => UNCHANGED <<lane, slot, pid>>
  BY Zenon DEF Fork, LeaderExits, ToolsExit, Arrive, HandlerStep, ScanSlot, Swap, Flushed, Raise, Yield, Exit,
     Killed, kernel, vars
<1> QED BY <1>2, <1>3, <1>4 DEF Next

\* SlotInv holds in every reachable state.
THEOREM SlotsHold == Spec => []SlotInv
<1>1. Init => BornPids /\ NoSlotYet /\ SlotsNameGuards
  BY DEF Init, BornPids, NoSlotYet, SlotsNameGuards
<1>2. PinInv /\ BornPids /\ NoSlotYet /\ SlotsNameGuards /\ [Next]_vars => (BornPids /\ NoSlotYet /\ SlotsNameGuards)'
  BY BornPidsStep, SlotsStep DEF PinInv
<1>3. SlotInv <=> PinInv /\ BornPids /\ NoSlotYet /\ SlotsNameGuards
  BY DEF SlotInv
<1> QED BY <1>1, <1>2, <1>3, PinsHold, PTL DEF Spec

\* Every slot of TRACKED_GROUPS names the group of the one guard that took it,
\* and every guard past led_by is named, for any number of lanes below the size
\* of the table: the handler misses no tracked group and signals no other.
THEOREM TableIsExact == Spec => []SlotsNameGuards
<1>1. SlotInv => SlotsNameGuards
  BY DEF SlotInv
<1> QED BY <1>1, SlotsHold, PTL

------------------------------------------------------------------------------

\* A lane between the kill of its group and the reaping of its leader has
\* nothing left running, and one past that has reaped it.
Stopped ==
    /\ \A l \in Lanes : lane[l].pc = "reap" => ~Running(lane[l].run)
    /\ \A l \in Lanes : lane[l].pc \in {"leftovers", "found", "linger", "drain", "drop"} =>
          leader[lane[l].run] = "reaped"

\* The inductive invariant of NothingOutlivesItsRun.
EndInv == SlotInv /\ Stopped /\ NothingOutlivesItsRun

\* A kill leaves nothing of the groups that bear its number.
LEMMA KilledAll ==
  ASSUME KernelType, NEW g \in Runs, Killed(pid[g])
  PROVE  ~Running(g)' /\ (leader[g] = "reaped" => leader'[g] = "reaped")
  BY DEF KernelType, Killed, At, Exists, Running

\* A group that is born does not start to run again.
LEMMA StaysEnded ==
  ASSUME TypeOK, OwnRuns, [Next]_vars, NEW g \in Runs, leader[g] # "unborn", Running(g)'
  PROVE  Running(g)
<1>0. KernelType /\ LaneType
  BY TypeParts
<1>1. ASSUME NEW p, Killed(p) PROVE Running(g)
  BY <1>0, <1>1, KilledType DEF Running
<1>2. CASE UNCHANGED <<leader, tools>>
  BY <1>2 DEF Running
<1>3. ASSUME NEW h, leader' = [leader EXCEPT ![h] = "reaped"], UNCHANGED tools PROVE Running(g)
  BY <1>0, <1>3 DEF KernelType, Running
<1>4. ASSUME NEW l \in Lanes, LaneStep(l) PROVE Running(g)
  <2>1. CASE Spawn(l)
    BY <1>0, <2>1 DEF Spawn, Running, KernelType
  <2>2. CASE Poll(l)
    BY <1>2, <1>3, <2>2 DEF Poll
  <2>3. CASE KillStopped(l) \/ KillLeftovers(l)
    BY <1>1, <2>3 DEF KillStopped, KillLeftovers
  <2>4. CASE Reap(l)
    BY <1>3, <2>4 DEF Reap
  <2>5. CASE Finish(l) \/ Track(l) \/ Terminate(l) \/ StopLeftovers(l) \/ TermLeftovers(l) \/ Drain(l) \/ Drop(l)
    <3>1. UNCHANGED kernel
      BY <2>5, Zenon DEF Finish, Track, Terminate, StopLeftovers, TermLeftovers, Drain, Drop
    <3> QED BY <1>2, <3>1 DEF kernel
  <2> QED BY <1>4, <2>1, <2>2, <2>3, <2>4, <2>5 DEF LaneStep
<1>5. ASSUME NEW h \in Runs, Fork(h) \/ LeaderExits(h) \/ ToolsExit(h) PROVE Running(g)
  BY <1>0, <1>5 DEF Fork, LeaderExits, ToolsExit, Running, KernelType
<1>6. ASSUME NEW i \in 1..Cardinality(Signals), HandlerStep(i) PROVE Running(g)
  <2>1. CASE ScanSlot(i)
    BY <1>1, <1>2, <2>1 DEF ScanSlot, kernel
  <2>2. CASE Swap(i) \/ Flushed(i) \/ Raise(i)
    BY <1>2, <2>2 DEF Swap, Flushed, Raise, kernel
  <2> QED BY <1>6, <2>1, <2>2 DEF HandlerStep
<1>7. CASE (\E s \in Signals : Arrive(s)) \/ Yield \/ Exit \/ UNCHANGED vars
  <2>1. UNCHANGED <<leader, tools>>
    BY <1>7, Zenon DEF Arrive, Yield, Exit, kernel, vars
  <2> QED BY <1>2, <2>1
<1> QED BY <1>4, <1>5, <1>6, <1>7 DEF Next

\* A leader is reaped by its own lane, and then it stays reaped.
LEMMA ReapedOnce ==
  ASSUME TypeOK, OwnRuns, [Next]_vars, NEW g \in Runs
  PROVE  /\ leader[g] = "reaped" => leader'[g] = "reaped"
         /\ leader'[g] = "reaped" => \/ leader[g] = "reaped"
                                     \/ \E l \in Lanes : lane[l].run = g /\ lane[l].pc = "reap"
                                     \/ \E l \in Lanes : lane'[l].run = g /\ lane'[l].pc = "leftovers"
<1> DEFINE Goal == /\ leader[g] = "reaped" => leader'[g] = "reaped"
                   /\ leader'[g] = "reaped" =>
                         \/ leader[g] = "reaped"
                         \/ \E l \in Lanes : lane[l].run = g /\ lane[l].pc = "reap"
                         \/ \E l \in Lanes : lane'[l].run = g /\ lane'[l].pc = "leftovers"
<1>0. KernelType /\ LaneType
  BY TypeParts
<1>1. ASSUME NEW p, Killed(p) PROVE Goal
  BY <1>0, <1>1, KilledType
<1>2. CASE UNCHANGED leader
  BY <1>2
<1>3. ASSUME NEW h \in Runs, leader[h] # "reaped",
             leader' = [leader EXCEPT ![h] = "alive"] \/ leader' = [leader EXCEPT ![h] = "zombie"]
      PROVE  Goal
  BY <1>0, <1>3 DEF KernelType
<1>4. ASSUME NEW l \in Lanes, LaneStep(l) PROVE Goal
  <2>1. CASE Spawn(l)
    BY <1>3, <2>1 DEF Spawn
  <2>2. CASE Poll(l)
    <3>1. CASE leader' = [leader EXCEPT ![lane[l].run] = "reaped"] /\ To(l, "leftovers")
      <4>1. lane'[l].run = lane[l].run /\ lane'[l].pc = "leftovers"
        BY <1>0, <3>1 DEF To, LaneType
      <4> QED BY <1>0, <3>1, <4>1 DEF KernelType
    <3> QED BY <1>2, <2>2, <3>1 DEF Poll
  <2>3. CASE KillStopped(l) \/ KillLeftovers(l)
    BY <1>1, <2>3 DEF KillStopped, KillLeftovers
  <2>4. CASE Reap(l)
    BY <1>0, <2>4 DEF Reap, Can, KernelType
  <2>5. CASE Finish(l) \/ Track(l) \/ Terminate(l) \/ StopLeftovers(l) \/ TermLeftovers(l) \/ Drain(l) \/ Drop(l)
    <3>1. UNCHANGED kernel
      BY <2>5, Zenon DEF Finish, Track, Terminate, StopLeftovers, TermLeftovers, Drain, Drop
    <3> QED BY <1>2, <3>1 DEF kernel
  <2> QED BY <1>4, <2>1, <2>2, <2>3, <2>4, <2>5 DEF LaneStep
<1>5. ASSUME NEW h \in Runs, Fork(h) \/ LeaderExits(h) \/ ToolsExit(h) PROVE Goal
  BY <1>2, <1>3, <1>5 DEF Fork, LeaderExits, ToolsExit
<1>6. ASSUME NEW i \in 1..Cardinality(Signals), HandlerStep(i) PROVE Goal
  <2>1. CASE ScanSlot(i)
    BY <1>1, <1>2, <2>1 DEF ScanSlot, kernel
  <2>2. CASE Swap(i) \/ Flushed(i) \/ Raise(i)
    BY <1>2, <2>2 DEF Swap, Flushed, Raise, kernel
  <2> QED BY <1>6, <2>1, <2>2 DEF HandlerStep
<1>7. CASE (\E s \in Signals : Arrive(s)) \/ Yield \/ Exit \/ UNCHANGED vars
  <2>1. UNCHANGED leader
    BY <1>7, Zenon DEF Arrive, Yield, Exit, kernel, vars
  <2> QED BY <1>2, <2>1
<1> QED BY <1>4, <1>5, <1>6, <1>7 DEF Next

\* Where a lane knows that its leader has been reaped.
Past == {"leftovers", "found", "linger", "drain", "drop"}

\* How a lane comes to have killed, or reaped, what it runs.
LEMMA Arrives ==
  ASSUME TypeOK, OwnRuns, [Next]_vars, NEW m \in Lanes
  PROVE  /\ lane'[m].pc = "reap" =>
              lane'[m].run = lane[m].run /\ (lane[m].pc = "reap" \/ KillStopped(m))
         /\ lane'[m].pc \in Past =>
              lane'[m].run = lane[m].run /\ (lane[m].pc \in Past \/ leader'[lane[m].run] = "reaped")
<1> DEFINE Goal == /\ lane'[m].pc = "reap" =>
                        lane'[m].run = lane[m].run /\ (lane[m].pc = "reap" \/ KillStopped(m))
                   /\ lane'[m].pc \in Past =>
                        lane'[m].run = lane[m].run /\ (lane[m].pc \in Past \/ leader'[lane[m].run] = "reaped")
<1>0. KernelType /\ LaneType
  BY TypeParts
<1>1. CASE lane'[m] = lane[m]
  BY <1>1
<1>2. ASSUME NEW l \in Lanes, LaneStep(l) PROVE Goal
  <2>1. CASE Spawn(l)
    <3>1. PICK g \in Runs : lane' = [lane EXCEPT ![l].pc = "spawned", ![l].run = g]
      BY <2>1 DEF Spawn
    <3>2. lane'[m] = lane[m] \/ lane'[m].pc = "spawned"
      BY <1>0, <3>1 DEF LaneType
    <3> QED BY <3>2 DEF Past
  <2>2. CASE Drop(l)
    <3>1. lane'[m] = lane[m] \/ lane'[m].pc = "next"
      BY <1>0, <2>2 DEF Drop, LaneType
    <3> QED BY <3>1 DEF Past
  <2>3. CASE ~Spawn(l) /\ ~Drop(l)
    <3>1. /\ lane'[m].run = lane[m].run
          /\ m # l => lane'[m] = lane[m]
      BY <1>0, <1>2, <2>3, KeepsRun
    <3>2. CASE m # l
      BY <3>1, <3>2
    <3>3. CASE m = l
      <4>1. CASE Track(m)
        BY <1>0, <4>1 DEF Track, To, LaneType, Past
      <4>2. CASE Finish(m) \/ Terminate(m)
        BY <1>0, <4>2 DEF Finish, Terminate, To, LaneType, Past
      <4>3. CASE Poll(m)
        <5>1. lane[m].run \in Runs
          BY <4>3 DEF Poll, Can, OwnRuns
        <5> QED BY <1>0, <3>1, <4>3, <5>1 DEF Poll, To, LaneType, KernelType, Past
      <4>4. CASE KillStopped(m)
        BY <1>0, <3>1, <4>4 DEF KillStopped, To, LaneType, Past
      <4>5. CASE Reap(m)
        <5>1. lane[m].run \in Runs
          BY <4>5 DEF Reap, Can, OwnRuns
        <5> QED BY <1>0, <3>1, <4>5, <5>1 DEF Reap, To, LaneType, KernelType, Past
      <4>6. CASE StopLeftovers(m) \/ TermLeftovers(m) \/ KillLeftovers(m) \/ Drain(m)
        <5>1. lane[m].pc \in Past
          BY <4>6 DEF StopLeftovers, TermLeftovers, KillLeftovers, Drain, Can, Past
        <5>2. lane'[m].pc \in Past
          BY <1>0, <4>6 DEF StopLeftovers, TermLeftovers, KillLeftovers, Drain, To, LaneType, Past
        <5> QED BY <3>1, <5>1, <5>2 DEF Past
      <4> QED BY <1>2, <2>3, <3>3, <4>1, <4>2, <4>3, <4>4, <4>5, <4>6 DEF LaneStep
    <3> QED BY <3>2, <3>3
  <2> QED BY <2>1, <2>2, <2>3
<1>3. (\E g \in Runs : Fork(g) \/ LeaderExits(g) \/ ToolsExit(g)) \/ (\E s \in Signals : Arrive(s))
      \/ (\E i \in 1..Cardinality(Signals) : HandlerStep(i)) \/ Yield \/ Exit \/ UNCHANGED vars
      => UNCHANGED lane
  BY Zenon DEF Fork, LeaderExits, ToolsExit, Arrive, HandlerStep, ScanSlot, Swap, Flushed, Raise, Yield, Exit, vars
<1> QED BY <1>1, <1>2, <1>3 DEF Next

\* What a lane has killed or found gone stays gone.
LEMMA StoppedStep ==
  ASSUME TypeOK, OwnRuns, Stopped, [Next]_vars
  PROVE  Stopped'
<1>0. KernelType
  BY TypeParts
<1>1. ASSUME NEW m \in Lanes, lane'[m].pc = "reap" PROVE ~Running(lane[m].run)' /\ lane'[m].run = lane[m].run
  <2>1. lane'[m].run = lane[m].run /\ (lane[m].pc = "reap" \/ KillStopped(m))
    BY <1>1, Arrives
  <2>2. lane[m].run \in Runs /\ leader[lane[m].run] # "unborn"
    BY <2>1 DEF KillStopped, Can, OwnRuns
  <2>3. CASE lane[m].pc = "reap"
    <3>1. ~Running(lane[m].run)
      BY <2>3 DEF Stopped
    <3>2. ASSUME NEW g \in Runs, leader[g] # "unborn", ~Running(g) PROVE ~Running(g)'
      BY <3>2, StaysEnded
    <3>3. PICK g \in Runs : g = lane[m].run
      BY <2>2
    <3>4. ~Running(g)'
      BY <2>2, <3>1, <3>2, <3>3
    <3> QED BY <2>1, <3>3, <3>4 DEF Running
  <2>4. CASE KillStopped(m)
    <3>1. PICK g \in Runs : g = lane[m].run
      BY <2>2
    <3>2. Killed(pid[g])
      BY <2>4, <3>1 DEF KillStopped
    <3>3. ~Running(g)'
      BY <1>0, <3>2, KilledAll
    <3> QED BY <2>1, <3>1, <3>3 DEF Running
  <2> QED BY <2>1, <2>3, <2>4
<1>2. ASSUME NEW m \in Lanes, lane'[m].pc \in Past PROVE leader'[lane'[m].run] = "reaped"
  <2>1. lane'[m].run = lane[m].run /\ (lane[m].pc \in Past \/ leader'[lane[m].run] = "reaped")
    BY <1>2, Arrives
  <2>2. CASE lane[m].pc \in Past
    <3>1. lane[m].run \in Runs /\ leader[lane[m].run] = "reaped"
      BY <2>2 DEF Past, OwnRuns, Stopped
    <3> QED BY <2>1, <3>1, ReapedOnce
  <2> QED BY <2>1, <2>2
<1>3. \A m \in Lanes : lane'[m].pc = "reap" => ~(leader'[lane'[m].run] = "alive" \/ tools'[lane'[m].run] # "none")
  <2> SUFFICES ASSUME NEW m \in Lanes, lane'[m].pc = "reap"
               PROVE  ~(leader'[lane'[m].run] = "alive" \/ tools'[lane'[m].run] # "none")
    OBVIOUS
  <2>1. ~Running(lane[m].run)' /\ lane'[m].run = lane[m].run
    BY <1>1
  <2> QED BY <2>1 DEF Running
<1> QED BY <1>2, <1>3 DEF Stopped, Past, Running

\* Where a lane is still to find what the leader left behind.
Looking == {"leftovers", "found", "linger"}

\* A lane looks for leftovers until it finds none or has killed them.
LEMMA Leaves ==
  ASSUME TypeOK, [Next]_vars, NEW m \in Lanes, lane[m].pc \in Looking
  PROVE  \/ lane'[m].run = lane[m].run /\ lane'[m].pc \in Looking
         \/ At(pid[lane[m].run]) = {} /\ UNCHANGED kernel
         \/ KillLeftovers(m)
<1>0. LaneType
  BY TypeParts
<1>1. CASE lane'[m] = lane[m]
  BY <1>1
<1>2. ASSUME NEW l \in Lanes, LaneStep(l), lane'[m] # lane[m]
      PROVE  \/ lane'[m].run = lane[m].run /\ lane'[m].pc \in Looking
             \/ At(pid[lane[m].run]) = {} /\ UNCHANGED kernel
             \/ KillLeftovers(m)
  <2>1. m = l
    BY <1>0, <1>2 DEF LaneStep, Spawn, Finish, Track, Poll, Terminate, KillStopped, Reap, StopLeftovers,
       TermLeftovers, KillLeftovers, Drain, Drop, To, LaneType
  <2>2. StopLeftovers(m) \/ TermLeftovers(m) \/ KillLeftovers(m)
    BY <1>2, <2>1 DEF LaneStep, Spawn, Finish, Track, Poll, Terminate, KillStopped, Reap, Drain, Drop, Can, Looking
  <2>3. CASE StopLeftovers(m)
    BY <1>0, <2>3 DEF StopLeftovers, To, LaneType, Looking
  <2>4. CASE TermLeftovers(m)
    BY <1>0, <2>4 DEF TermLeftovers, To, LaneType, Looking
  <2> QED BY <2>2, <2>3, <2>4
<1>3. (\E g \in Runs : Fork(g) \/ LeaderExits(g) \/ ToolsExit(g)) \/ (\E s \in Signals : Arrive(s))
      \/ (\E i \in 1..Cardinality(Signals) : HandlerStep(i)) \/ Yield \/ Exit \/ UNCHANGED vars
      => UNCHANGED lane
  BY Zenon DEF Fork, LeaderExits, ToolsExit, Arrive, HandlerStep, ScanSlot, Swap, Flushed, Raise, Yield, Exit, vars
<1> QED BY <1>1, <1>2, <1>3 DEF Next

\* A reaped leader's survivors are always being looked for.
LEMMA OutliveStep ==
  ASSUME TypeOK, OwnRuns, Stopped, NothingOutlivesItsRun, [Next]_vars
  PROVE  NothingOutlivesItsRun'
<1>0. KernelType
  BY TypeParts
<1>1. ASSUME NEW g \in Runs, leader'[g] = "reaped", Running(g)'
      PROVE  \E l \in Lanes : lane'[l].run = g /\ lane'[l].pc \in Looking
  <2>1. CASE leader[g] = "reaped"
    <3>1. Running(g)
      BY <1>1, <2>1, StaysEnded
    <3>2. PICK l \in Lanes : lane[l].run = g /\ lane[l].pc \in Looking
      BY <2>1, <3>1 DEF NothingOutlivesItsRun, Looking
    <3>3. At(pid[g]) # {}
      BY <3>1 DEF At, Running, Exists
    <3>4. ~KillLeftovers(l)
      <4> SUFFICES ASSUME KillLeftovers(l) PROVE FALSE
        OBVIOUS
      <4>1. Killed(pid[g])
        BY <3>2 DEF KillLeftovers
      <4> QED BY <1>0, <1>1, <4>1, KilledAll
    <3> QED BY <3>2, <3>3, <3>4, Leaves
  <2>2. ASSUME NEW l \in Lanes, lane[l].run = g, lane[l].pc = "reap" PROVE FALSE
    <3>1. leader[g] # "unborn" /\ ~Running(g)
      BY <2>2 DEF OwnRuns, Stopped
    <3> QED BY <1>1, <3>1, StaysEnded
  <2> QED BY <1>1, <2>1, <2>2, ReapedOnce DEF Looking
<1>2. \A g \in Runs : leader'[g] = "reaped" /\ (leader'[g] = "alive" \/ tools'[g] # "none") =>
         \E l \in Lanes : lane'[l].run = g /\ lane'[l].pc \in Looking
  BY <1>1 DEF Running
<1> QED BY <1>2 DEF NothingOutlivesItsRun, Running, Looking

\* EndInv holds in every reachable state.
THEOREM EndsHold == Spec => []EndInv
<1>1. Init => Stopped /\ NothingOutlivesItsRun
  BY DEF Init, Stopped, NothingOutlivesItsRun
<1>2. SlotInv /\ Stopped /\ NothingOutlivesItsRun /\ [Next]_vars => (Stopped /\ NothingOutlivesItsRun)'
  BY StoppedStep, OutliveStep DEF SlotInv, PinInv
<1>3. EndInv <=> SlotInv /\ Stopped /\ NothingOutlivesItsRun
  BY DEF EndInv
<1> QED BY <1>1, <1>2, <1>3, SlotsHold, PTL DEF Spec

\* A run that is over has nothing running in its group, whether it was stopped,
\* exited or left tools behind (stop_leftovers).
THEOREM RunsLeaveNothing == Spec => []NothingOutlivesItsRun
<1>1. EndInv => NothingOutlivesItsRun
  BY DEF EndInv
<1> QED BY <1>1, EndsHold, PTL

------------------------------------------------------------------------------

\* A group that was in the table when the first handler began and still runs is
\* there still, and every handler is yet to come to it.
DueAhead ==
    /\ handlers = <<>> => due = {}
    /\ installed \/ handlers = <<>>
    /\ \A g \in due : leader[g] # "unborn"
    /\ \A g \in due : Running(g) =>
          \E l \in Lanes : /\ lane[l].run = g /\ lane[l].slot # 0
                           /\ \A i \in DOMAIN handlers :
                                 handlers[i].pc = "scan" /\ handlers[i].at <= lane[l].slot

\* The inductive invariant of TrackedDieWithTrg.
ScanInv == EndInv /\ DueAhead /\ TrackedDieWithTrg

\* The guard of a group that runs keeps its slot: a guard is dropped after the
\* leader was reaped and nothing was left.
LEMMA RunningKeepsSlot ==
  ASSUME SlotInv, Stopped, NothingOutlivesItsRun, [Next]_vars,
         NEW l \in Lanes, lane[l].slot # 0, Running(lane[l].run)
  PROVE  lane'[l].run = lane[l].run /\ lane'[l].slot = lane[l].slot
<1>0. LaneType /\ OwnRuns /\ NoSlotYet /\ SlotsNameGuards
  BY TypeParts DEF SlotInv, PinInv
<1>1. lane[l].pc \notin Early /\ lane[l].run \in Runs
  BY <1>0 DEF NoSlotYet, OwnRuns, Early
<1>2. CASE lane'[l] = lane[l]
  BY <1>2
<1>3. ASSUME NEW k \in Lanes, LaneStep(k) PROVE lane'[l].run = lane[l].run /\ lane'[l].slot = lane[l].slot
  <2>1. CASE ~Spawn(k) /\ ~Track(k) /\ ~Drop(k)
    BY <1>0, <1>3, <2>1, KeepsSlot
  <2>2. CASE Spawn(k) \/ Track(k)
    <3>1. k # l
      BY <1>1, <2>2 DEF Spawn, Track, Can, Early
    <3> QED BY <1>0, <2>2, <3>1 DEF Spawn, Track, To, LaneType
  <2>3. CASE Drop(k)
    <3>1. k # l
      <4> SUFFICES ASSUME Drop(l) PROVE FALSE
        BY <2>3
      <4>1. lane[l].pc = "drop" /\ leader[lane[l].run] = "reaped"
        BY DEF Drop, Can, Stopped
      <4>2. PICK m \in Lanes : lane[m].run = lane[l].run /\ lane[m].pc \in Looking
        BY <1>1, <4>1 DEF NothingOutlivesItsRun, Looking
      <4> QED BY <1>0, <1>1, <4>1, <4>2 DEF OwnRuns, Looking
    <3> QED BY <1>0, <2>3, <3>1 DEF Drop, LaneType
  <2> QED BY <2>1, <2>2, <2>3
<1>4. (\E g \in Runs : Fork(g) \/ LeaderExits(g) \/ ToolsExit(g)) \/ (\E s \in Signals : Arrive(s))
      \/ (\E i \in 1..Cardinality(Signals) : HandlerStep(i)) \/ Yield \/ Exit \/ UNCHANGED vars
      => UNCHANGED lane
  BY Zenon DEF Fork, LeaderExits, ToolsExit, Arrive, HandlerStep, ScanSlot, Swap, Flushed, Raise, Yield, Exit, vars
<1> QED BY <1>2, <1>3, <1>4 DEF Next

\* What a step that is no arrival leaves alone.
LEMMA OnlyArrivals ==
  ASSUME [Next]_vars, ~\E s \in Signals : Arrive(s)
  PROVE  /\ due' = due /\ (installed => installed')
         /\ died' = died \/ died' = "exit" \/ \E i \in 1..Cardinality(Signals) : Raise(i)
         /\ handlers' = handlers \/ \E i \in 1..Cardinality(Signals) : ScanSlot(i) \/ Swap(i) \/ Flushed(i)
<1>1. ASSUME NEW l \in Lanes, LaneStep(l)
      PROVE  due' = due /\ (installed => installed') /\ died' = died /\ handlers' = handlers
  <2>1. due' = due
    BY <1>1 DEF LaneStep, Spawn, Finish, Track, Poll, Terminate, KillStopped, Reap, StopLeftovers,
       TermLeftovers, KillLeftovers, Drain, Drop, history
  <2>2. died' = died
    BY <1>1 DEF LaneStep, Spawn, Finish, Track, Poll, Terminate, KillStopped, Reap, StopLeftovers,
       TermLeftovers, KillLeftovers, Drain, Drop, ends
  <2>3. handlers' = handlers
    BY <1>1 DEF LaneStep, Spawn, Finish, Track, Poll, Terminate, KillStopped, Reap, StopLeftovers,
       TermLeftovers, KillLeftovers, Drain, Drop, signals
  <2>4. installed' = installed \/ installed' = TRUE
    BY <1>1, Zenon DEF LaneStep, Spawn, Finish, Track, Poll, Terminate, KillStopped, Reap, StopLeftovers,
       TermLeftovers, KillLeftovers, Drain, Drop, signals
  <2>5. installed' = installed => (installed => installed')
    BY Zenon
  <2>6. installed' = TRUE => installed'
    OBVIOUS
  <2> QED BY <2>1, <2>2, <2>3, <2>4, <2>5, <2>6, Zenon
<1>2. ASSUME NEW i \in 1..Cardinality(Signals), HandlerStep(i)
      PROVE  /\ due' = due /\ (installed => installed')
             /\ died' = died \/ Raise(i)
             /\ handlers' = handlers \/ ScanSlot(i) \/ Swap(i) \/ Flushed(i)
  <2>1. due' = due
    BY <1>2 DEF HandlerStep, ScanSlot, Swap, Flushed, Raise, history
  <2>2. installed' = installed
    BY <1>2, Zenon DEF HandlerStep, ScanSlot, Swap, Flushed, Raise, signals
  <2>3. ScanSlot(i) \/ Swap(i) \/ Flushed(i) => died' = died
    BY DEF ScanSlot, Swap, Flushed, ends
  <2>4. Raise(i) => handlers' = handlers
    BY DEF Raise, signals
  <2> QED BY <1>2, <2>1, <2>2, <2>3, <2>4, Zenon DEF HandlerStep
<1>3. CASE (\E g \in Runs : Fork(g) \/ LeaderExits(g) \/ ToolsExit(g)) \/ Yield \/ Exit \/ UNCHANGED vars
  <2>1. due' = due
    BY <1>3 DEF Fork, LeaderExits, ToolsExit, Yield, Exit, history, vars
  <2>2. died' = died \/ died' = "exit"
    BY <1>3 DEF Fork, LeaderExits, ToolsExit, Yield, Exit, ends, vars
  <2>3. handlers' = handlers
    BY <1>3 DEF Fork, LeaderExits, ToolsExit, Yield, Exit, signals, vars
  <2>4. installed' = installed
    BY <1>3, Zenon DEF Fork, LeaderExits, ToolsExit, Yield, Exit, signals, vars
  <2> QED BY <2>1, <2>2, <2>3, <2>4, Zenon
<1> QED BY <1>1, <1>2, <1>3, Zenon DEF Next

\* The handler's scan reaches every group that was due before it raises.
LEMMA ScanStep ==
  ASSUME EndInv, DueAhead, TrackedDieWithTrg, [Next]_vars
  PROVE  DueAhead' /\ TrackedDieWithTrg'
<1>0. /\ KernelType /\ LaneType /\ SignalType /\ TypeOK /\ OwnRuns /\ BornPids /\ NoSlotYet /\ SlotsNameGuards
      /\ SlotInv /\ Stopped /\ NothingOutlivesItsRun
  BY TypeParts DEF EndInv, SlotInv, PinInv
<1>1. \A m \in Lanes : lane[m].slot # 0 =>
         /\ lane[m].slot \in Slots /\ lane[m].run \in Runs /\ leader[lane[m].run] # "unborn"
         /\ pid[lane[m].run] \in Pids /\ slot[lane[m].slot] = pid[lane[m].run]
  BY <1>0 DEF NoSlotYet, OwnRuns, BornPids, SlotsNameGuards, LaneType
<1>2. \A g \in due : g \in Runs /\ leader[g] # "unborn"
  BY <1>0 DEF SignalType, DueAhead
<1>3. ASSUME NEW g \in due, Running(g)' PROVE Running(g)
  BY <1>0, <1>2, <1>3, StaysEnded
\* A signal arrives.
<1>4. ASSUME NEW s \in Signals, Arrive(s) PROVE DueAhead' /\ TrackedDieWithTrg'
  <2>1. UNCHANGED <<pid, leader, tools, lane, installed>> /\ died = "no"
    BY <1>4 DEF Arrive, kernel
  <2>2. CASE ~installed /\ died' = "signal" /\ UNCHANGED <<handlers, due>>
    <3>1. handlers = <<>> /\ due = {}
      BY <2>2 DEF DueAhead
    <3> QED BY <2>1, <2>2, <3>1 DEF DueAhead, TrackedDieWithTrg
  <2>3. ASSUME NEW t \in Threads, installed, UNCHANGED died,
               handlers' = Append(handlers, [sig |-> s, on |-> t, pc |-> "scan", at |-> 1]),
               due' = IF handlers = <<>> THEN Tracked ELSE due
        PROVE  DueAhead' /\ TrackedDieWithTrg'
    <3> DEFINE h == [sig |-> s, on |-> t, pc |-> "scan", at |-> 1]
    <3>1. /\ h.pc = "scan" /\ h.at = 1 /\ handlers' # <<>>
          /\ DOMAIN handlers' = 1..(Len(handlers) + 1)
          /\ \A i \in DOMAIN handlers' : handlers'[i] = IF i = Len(handlers) + 1 THEN h ELSE handlers[i]
      <4>1. h.pc = "scan" /\ h.at = 1 /\ handlers' = Append(handlers, h)
        BY <2>3
      <4> HIDE DEF h
      <4> QED BY <1>0, <4>1 DEF SignalType
    <3> HIDE DEF h
    <3>2. ASSUME NEW g \in due', Running(g)
          PROVE  \E l \in Lanes : /\ lane[l].run = g /\ lane[l].slot # 0
                                  /\ \A i \in DOMAIN handlers :
                                        handlers[i].pc = "scan" /\ handlers[i].at <= lane[l].slot
      <4>1. CASE handlers = <<>>
        <5>1. g \in Tracked
          BY <2>3, <4>1
        <5> QED BY <4>1, <5>1 DEF Tracked
      <4>2. CASE handlers # <<>>
        BY <2>3, <3>2, <4>2 DEF DueAhead
      <4> QED BY <4>1, <4>2
    <3>3. ASSUME NEW g \in due', Running(g)
          PROVE  \E l \in Lanes : /\ lane[l].run = g /\ lane[l].slot # 0
                                  /\ \A i \in DOMAIN handlers' :
                                        handlers'[i].pc = "scan" /\ handlers'[i].at <= lane[l].slot
      <4>1. PICK l \in Lanes : /\ lane[l].run = g /\ lane[l].slot # 0
                               /\ \A i \in DOMAIN handlers :
                                     handlers[i].pc = "scan" /\ handlers[i].at <= lane[l].slot
        BY <3>2, <3>3
      <4>2. 1 <= lane[l].slot
        BY <1>1, <4>1 DEF Slots
      <4>3. \A i \in DOMAIN handlers' : i = Len(handlers) + 1 \/ i \in DOMAIN handlers
        BY <1>0, <3>1 DEF SignalType
      <4>4. \A i \in DOMAIN handlers' : handlers'[i].pc = "scan" /\ handlers'[i].at <= lane[l].slot
        BY <3>1, <4>1, <4>2, <4>3
      <4> QED BY <4>1, <4>4
    <3>4. \A g \in due' : leader'[g] # "unborn"
      <4>1. \A g \in Tracked : leader[g] # "unborn"
        BY <1>1 DEF Tracked
      <4> QED BY <1>2, <2>1, <2>3, <4>1
    <3>5. \A g \in due' : leader'[g] = "alive" \/ tools'[g] # "none" =>
             \E l \in Lanes : /\ lane'[l].run = g /\ lane'[l].slot # 0
                              /\ \A i \in DOMAIN handlers' :
                                    handlers'[i].pc = "scan" /\ handlers'[i].at <= lane'[l].slot
      BY <2>1, <3>3 DEF Running
    <3>6. DueAhead'
      BY <2>1, <2>3, <3>1, <3>4, <3>5 DEF DueAhead, Running
    <3> QED BY <2>1, <2>3, <3>6 DEF TrackedDieWithTrg
  <2> QED BY <1>4, <2>2, <2>3 DEF Arrive
\* Any other step.
<1>5. ASSUME ~\E s \in Signals : Arrive(s) PROVE DueAhead' /\ TrackedDieWithTrg'
  <2>1. /\ due' = due /\ (installed => installed')
        /\ died' = died \/ died' = "exit" \/ \E i \in 1..Cardinality(Signals) : Raise(i)
        /\ handlers' = handlers \/ \E i \in 1..Cardinality(Signals) : ScanSlot(i) \/ Swap(i) \/ Flushed(i)
    BY <1>5, OnlyArrivals
  <2>2. /\ handlers' = <<>> => handlers = <<>>
        /\ handlers = <<>> => handlers' = <<>>
        /\ DOMAIN handlers' = DOMAIN handlers
    BY <1>0, <2>1 DEF ScanSlot, Swap, Flushed, CanHandle, HandlerTo, SignalType
  <2>3. \A g \in due : leader'[g] # "unborn"
    BY <1>0, <1>2, StaysBorn
  <2>4. ASSUME NEW g \in due, Running(g)'
        PROVE  /\ ~\E i \in 1..Cardinality(Signals) : Raise(i)
               /\ \E l \in Lanes : /\ lane'[l].run = g /\ lane'[l].slot # 0
                                   /\ \A i \in DOMAIN handlers' :
                                         handlers'[i].pc = "scan" /\ handlers'[i].at <= lane'[l].slot
    <3>1. PICK l \in Lanes : /\ lane[l].run = g /\ lane[l].slot # 0
                             /\ \A i \in DOMAIN handlers :
                                   handlers[i].pc = "scan" /\ handlers[i].at <= lane[l].slot
      BY <1>3, <2>4 DEF DueAhead
    <3>2. lane'[l].run = g /\ lane'[l].slot = lane[l].slot
      BY <1>0, <1>3, <2>4, <3>1, RunningKeepsSlot
    <3>3. \A i \in 1..Cardinality(Signals) : ~Raise(i) /\ ~Swap(i) /\ ~Flushed(i)
      BY <3>1 DEF Raise, Swap, Flushed, CanHandle
    <3>4. ASSUME NEW i \in 1..Cardinality(Signals), ScanSlot(i)
          PROVE  \A j \in DOMAIN handlers' : handlers'[j].pc = "scan" /\ handlers'[j].at <= lane[l].slot
      <4>1. i \in DOMAIN handlers /\ handlers[i].at \in Slots /\ handlers[i].at <= lane[l].slot
        <5>1. i \in DOMAIN handlers
          BY <3>4 DEF ScanSlot, CanHandle
        <5>2. handlers[i] \in Handler
          BY <1>0, <5>1 DEF SignalType
        <5> QED BY <3>1, <5>1, <5>2 DEF Handler
      <4>2. handlers[i].at # lane[l].slot
        <5> SUFFICES ASSUME handlers[i].at = lane[l].slot PROVE FALSE
          OBVIOUS
        <5>1. slot[handlers[i].at] = pid[g] /\ pid[g] # NoPid /\ g \in Runs
          BY <1>1, <3>1, GroupAssumption
        <5>2. Killed(pid[g])
          BY <3>4, <5>1 DEF ScanSlot
        <5> QED BY <1>0, <2>4, <5>1, <5>2, KilledAll
      <4>3. lane[l].slot \in Slots
        BY <1>1, <3>1
      <4>4. handlers[i].at # MaxTracked /\ handlers[i].at + 1 <= lane[l].slot
        BY <4>1, <4>2, <4>3, SlotAssumption DEF Slots
      <4>5. handlers' = [handlers EXCEPT ![i].at = handlers[i].at + 1]
        BY <3>4, <4>4 DEF ScanSlot
      <4>6. \A j \in DOMAIN handlers : handlers[j] \in Handler
        BY <1>0 DEF SignalType
      <4>7. /\ handlers'[i].pc = "scan" /\ handlers'[i].at = handlers[i].at + 1
            /\ \A j \in DOMAIN handlers : j # i => handlers'[j] = handlers[j]
        BY <1>0, <3>1, <4>1, <4>5, <4>6 DEF SignalType, Handler
      <4> QED BY <2>2, <3>1, <4>4, <4>7
    <3>5. \A j \in DOMAIN handlers' : handlers'[j].pc = "scan" /\ handlers'[j].at <= lane[l].slot
      BY <2>1, <3>1, <3>3, <3>4
    <3> QED BY <3>1, <3>2, <3>3, <3>5
  <2>5. \A g \in due' : leader'[g] = "alive" \/ tools'[g] # "none" =>
             \E l \in Lanes : /\ lane'[l].run = g /\ lane'[l].slot # 0
                              /\ \A i \in DOMAIN handlers' :
                                    handlers'[i].pc = "scan" /\ handlers'[i].at <= lane'[l].slot
    BY <2>1, <2>4 DEF Running
  <2>6. (installed \/ handlers = <<>>)'
    BY <2>1, <2>2, Zenon DEF DueAhead
  <2>7. (handlers = <<>> => due = {})'
    BY <2>1, <2>2 DEF DueAhead
  <2>8. DueAhead'
    BY <2>1, <2>3, <2>5, <2>6, <2>7 DEF DueAhead, Running
  <2>9. ASSUME died' = "signal", NEW g \in due', Running(g)' PROVE FALSE
    <3>1. Running(g) /\ ~\E i \in 1..Cardinality(Signals) : Raise(i)
      BY <1>3, <2>1, <2>4, <2>9
    <3>2. died = "signal"
      BY <2>1, <2>9, <3>1
    <3> QED BY <2>1, <3>1, <3>2 DEF TrackedDieWithTrg
  <2>10. TrackedDieWithTrg'
    BY <2>9 DEF TrackedDieWithTrg, Running
  <2> QED BY <2>8, <2>10
<1> QED BY <1>4, <1>5

\* ScanInv holds in every reachable state.
THEOREM ScansHold == Spec => []ScanInv
<1>1. Init => DueAhead /\ TrackedDieWithTrg
  BY DEF Init, DueAhead, TrackedDieWithTrg
<1>2. EndInv /\ DueAhead /\ TrackedDieWithTrg /\ [Next]_vars => (DueAhead /\ TrackedDieWithTrg)'
  BY ScanStep
<1>3. ScanInv <=> EndInv /\ DueAhead /\ TrackedDieWithTrg
  BY DEF ScanInv
<1> QED BY <1>1, <1>2, <1>3, EndsHold, PTL DEF Spec

\* When trg dies of a signal, no group that was in the table when the first
\* handler began has a process running, for any lanes, runs and nested handlers.
THEOREM HandlersTakeAllDown == Spec => []TrackedDieWithTrg
<1>1. ScanInv => TrackedDieWithTrg
  BY DEF ScanInv
<1> QED BY <1>1, ScansHold, PTL
=============================================================================
