SPECIFICATION MCSpec
CONSTANTS
    Parts = {"tokens", "limiter", "cache", "overlap", "late", "crew", "walk", "pair"}
    a = a
    b = b
    c = c
    k1 = k1
    k2 = k2
    k3 = k3
    r1 = r1
    r2 = r2
    own = own
    Requests = {a, b, c}
    Hidden = {c}
    MaxRevokes = 1
    MaxExpiries = 1
    MaxFails = 1
INVARIANTS TokensAreShared LimitsHold ReadsTellTheTruth
PROPERTIES UpstreamSteps
SYMMETRY Alike
CHECK_DEADLOCK FALSE
