SPECIFICATION Spec
CONSTANTS
    p1 = p1
    p2 = p2
    mine = mine
    yours = yours
    shared = shared
    g1 = g1
    g2 = g2
    NoPath = NoPath
    NoGrant = NoGrant
    Procs = {p1, p2}
    Paths = {mine, shared}
    Primary <- StationPrimary
    Fallback <- StationFallback
    Commands <- SignOnly
    Grants = {g1, g2}
    Seeds <- AnySeed
    SeedGrants = {g1}
    PutKeys = {"sibling", "credentials"}
    Faults = {"body"}
    HoldsThrough = {"failed", "missed"}
    MaxGen = 1
PROPERTY SiblingsLostOnlyToARace
