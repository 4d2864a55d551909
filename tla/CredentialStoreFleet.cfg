SPECIFICATION Spec
CONSTANTS
    p1 = p1
    p2 = p2
    mine = mine
    yours = yours
    shared = shared
    g1 = g1
    g2 = g2
    NoPath = NoPath
    NoGrant = NoGrant
    Procs = {p1, p2}
    Paths = {mine, yours, shared}
    Primary <- FleetPrimary
    Fallback <- FleetFallback
    Commands <- FleetCommands
    Grants = {g1, g2}
    Seeds <- SharedGrant
    SeedGrants = {g1}
    PutKeys = {"sibling"}
    Faults = {"get", "set", "answer", "crash"}
    HoldsThrough = {"failed", "missed"}
    MaxGen = 1
INVARIANTS GrantStaysHome ClearedStaysCleared OwnGrantNotReplayed
PROPERTIES KeepsHomes OnlyOwnersSignOut
