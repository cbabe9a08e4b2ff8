CONSTANTS
  Admins = {a1, a2}
  Requests = {1, 2}
  Lifetimes <- MCLifetimes
  Width = 1
  None = None
  MaxChanges <- MCMaxChanges
  MaxFailures <- MCMaxFailures
  Limits <- MCLimits
  Subjects <- MCSubjects
  MaxBoots = 1
  MaxClock = 2
  Callers <- MCCallers
  Rps <- MCRps
  TicksPerSecond = 2
  IdleTicks = 2
  Ceiling = 2
SPECIFICATION RateSpec
CHECK_DEADLOCK FALSE
INVARIANT WorkIsBounded
INVARIANT OverridesApply
PROPERTY CacheCatchesUp
