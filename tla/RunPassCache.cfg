SPECIFICATION Spec
CONSTANTS
    pA = pA
    pB = pB
    r1 = r1
    r2 = r2
    r3 = r3
    r4 = r4
    r5 = r5
    l1 = l1
    l2 = l2
    cA = cA
    cB = cB
    NoPass = NoPass
    NoRun = NoRun
    Passes = {pA, pB}
    Runs = {r1, r4, r5}
    Lanes = {l1}
    Configs = {cA, cB}
    Modes <- EveryMode
    Retries = 0
    Costs = {1}
    Ceiling = 2
    Unsupported = {r4}
    OwnLimit = {}
    TimeLimits = {FALSE}
    Vanishing = {r5}
    MaxEdits = 1
    Tampering = FALSE
    Overlap = FALSE
    Faults <- LastingFaults
SYMMETRY Alike
INVARIANTS HitsAreResults CleanPassIsComplete
CHECK_DEADLOCK FALSE
