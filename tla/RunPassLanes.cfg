SPECIFICATION FairSpec
CONSTANTS
    pA = pA
    pB = pB
    r1 = r1
    r2 = r2
    r3 = r3
    r4 = r4
    r5 = r5
    l1 = l1
    l2 = l2
    cA = cA
    cB = cB
    NoPass = NoPass
    NoRun = NoRun
    Passes = {pA}
    Runs = {r1, r2, r3}
    Lanes = {l1, l2}
    Configs = {cA}
    Modes = {"exact"}
    Retries = 1
    Costs = {1}
    Ceiling = 2
    Unsupported = {}
    OwnLimit = {r1}
    TimeLimits = {TRUE, FALSE}
    Vanishing = {}
    MaxEdits = 1
    Tampering = TRUE
    Overlap = FALSE
    Faults = {"prepare", "rewrite", "interrupt"}
INVARIANTS OvershootIsBounded RewritesAreAccountedFor
PROPERTIES RunsSettleOnce 
CHECK_DEADLOCK FALSE
