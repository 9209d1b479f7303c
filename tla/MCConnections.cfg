SPECIFICATION MCSpec
CONSTANTS
    Parts = {"writes", "rebuilt", "in_turn", "audit", "cycle", "today", "shared", "graphs"}
    other = other
    k1 = k1
    k2 = k2
    k3 = k3
    Others = {other}
    MaxRuns = 2
    MaxCycles = 1
    MaxLate = 2
    Faults = {}
INVARIANTS WritesHold WritesInTurn GroupsSettle PagesHold
PROPERTIES OldWritesStayOut GraphSteps
SYMMETRY Alike
CHECK_DEADLOCK FALSE
