SPECIFICATION MCSpec
CONSTANTS
    Parts = {"aliases"}
    Scans = 2
    Providers = 1
    Limits = {3}
    MaxDeliveries = 2
    MaxMishaps = 1
    Requesters = {"a"}
    MaxJobs = 1
    MaxAttempts = 1
    MaxRuns = 3
    MaxEdits = 1
    MaxPresses = 1
    MaxFaults = 0
INVARIANTS MarksAreCurrent
CHECK_DEADLOCK FALSE
