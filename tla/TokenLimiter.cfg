CONSTANTS
  Subjects = {alice, bob}
  Requests = {r1, r2, r3}
  NoCall = NoCall
  LimitPairs <- MCLimitPairs
  Bypasses = {FALSE, TRUE}
  Amounts = {1, 2}
  GlobalLimit = 3
  SecsPerMinute = 1
  SecsPerHour = 2
  HourlyMinutes = 2
  DailyHours = 2
  GlobalMinutes = 3
  IdleSecs = 4
  SnapshotHours = 1
  Ttl = 1
  CallTimeout = 2
  MaxClock = 5
  MaxCrashes = 2
SPECIFICATION MCSpec
SYMMETRY MCSymmetry
CHECK_DEADLOCK FALSE
INVARIANT InFlightReserved
INVARIANT LedgersExact
INVARIANT NeverOvercharged
PROPERTY NoOvershoot
PROPERTY RefusalJustified
PROPERTY DurableMonotone
