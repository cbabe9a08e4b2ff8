\* Two invocations on one machine.
CONSTANTS
  Flows = {f1, f2}
  Handlers = {h1, h2}
  Ids = {i1, i2, i3}
  Ports = {p1}
  FirstFiles = {None}
  None = None
  Ttl = 1
  MaxEntries = 2
  MaxClock = 1
  MaxRestarts = 1
SPECIFICATION Spec
SYMMETRY MCSymmetry
CHECK_DEADLOCK FALSE
INVARIANT OneTokenPerTicket
INVARIANT OwnToken
PROPERTY ImplementsTickets
PROPERTY EvictionIsFair
PROPERTY SerialWritesLand
