SPECIFICATION FairSpec
CONSTANTS
    l1 = l1
    l2 = l2
    r1 = r1
    r2 = r2
    p1 = p1
    p2 = p2
    NoPid = NoPid
    NoRun = NoRun
    Lanes = {l1, l2}
    Runs = {r1, r2}
    Pids = {p1, p2}
    MaxTracked = 2
    Threads <- LaneOrOther
    Signals <- OneSignal
    Recycles = TRUE
INVARIANTS TrackedDieWithTrg NothingOutlivesItsRun SlotsNameGuards LimitStrikesItsOwn
PROPERTIES SignalEndsTrg LimitEndsRun
CHECK_DEADLOCK FALSE
