SPECIFICATION LiveSpec
CONSTANTS
    Parts = {"slot", "tier", "tabs", "follow", "ordered", "mail", "links", "names", "tokens", "presence"}
    Requesters = {"a"}
    MaxJobs = 2
    MaxAttempts = 2
    MaxRuns = 1
    MaxEdits = 0
    MaxPresses = 0
    MaxFaults = 1
INVARIANTS PressesHold
PROPERTIES SlotRefined PageSteps EveryoneIsReached WaitsAreServed
CHECK_DEADLOCK FALSE
