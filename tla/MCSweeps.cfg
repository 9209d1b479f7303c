SPECIFICATION MCSpec
CONSTANTS
    Parts = {"budget", "chain", "retry", "takeover", "any_order", "resumed", "pages", "replay", "spending", "small"}
    MaxReservations = 2
    Cap = 2
    Budget = 3
    Hour = 2
    MaxTime = 3
    Lag = 1
    MaxJobs = 3
    MaxAttempts = 2
    MaxRuns = 2
    MaxAdmissions = 4
    MaxCursor = 2
    MaxFailures = 1
    MaxFaults = 1
INVARIANTS WithinBudget SweepsHeld SearchesTellTheTruth
PROPERTIES SweepSteps
CHECK_DEADLOCK FALSE
