SPECIFICATION Spec
CONSTANTS
  Workspaces = {w1, w2}
  Handlers = {h1, h2}
  NoOne = NoOne
  MaxSeats = 1
  MaxRequests = 2
  MaxRemote = 2
  MaxEvents = 2
  MaxScans = 1
  MaxUpsets = 1
SYMMETRY symmetry
CHECK_DEADLOCK FALSE
INVARIANTS TypeOK AppliedOnce InvoicesAreSequential ClaimsAreSerialized
PROPERTIES ScanSparesPaidPeriods
