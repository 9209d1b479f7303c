CONSTANTS
  Roots = {k1}
  Callers = {c1}
  Requests = {q1}
  Visitors = {}
  Free = nobody
  MaxRuns = 1
  MaxJobs = 1
  MaxAttempts = 2
  SearchLimit = 1
SPECIFICATION FairSpec
INVARIANTS EndedByLatestAttempt
PROPERTIES PendingIsDispatched RunSettles
