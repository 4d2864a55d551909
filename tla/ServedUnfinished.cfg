SPECIFICATION Spec
CONSTANTS
    pA = pA
    pB = pB
    r1 = r1
    r2 = r2
    r3 = r3
    r4 = r4
    r5 = r5
    l1 = l1
    l2 = l2
    cA = cA
    cB = cB
    NoPass = NoPass
    NoRun = NoRun
    Passes = {pA, pB}
    Runs = {r1}
    Lanes = {l1}
    Configs = {cA}
    Modes = {"exact"}
    Retries = 0
    Costs = {1}
    Ceiling = 2
    Unsupported = {}
    OwnLimit = {}
    TimeLimits = {TRUE}
    Vanishing = {}
    MaxEdits = 0
    Tampering = TRUE
    Overlap = FALSE
    Faults = {"interrupt"}
SYMMETRY Alike
INVARIANTS HitsAreCompleted
CHECK_DEADLOCK FALSE
