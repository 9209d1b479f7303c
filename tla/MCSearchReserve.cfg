CONSTANTS
  Roots = {k1}
  Callers = {c1}
  Requests = {q1, q2}
  Visitors = {v1}
  Free = nobody
  MaxRuns = 2
  MaxJobs = 1
  MaxAttempts = 1
  SearchLimit = 1
SPECIFICATION Spec
SYMMETRY RequestSymmetry
INVARIANTS OneActiveRunPerRoot ChargesWithinLimit RefundedRunNeverRuns
PROPERTIES NoNeedlessCharge TerminalIsFinal
