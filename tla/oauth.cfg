SPECIFICATION Spec
CONSTANTS
  Callbacks = {c1, c2}
  Selections = {s1, s2, s3}
  Profiles = {p1, p2, p3}
  StateTtl = 1
  DiscoveryTtl = 3
  MaxTime = 4
  MaxFaults = 2
SYMMETRY symmetry
CHECK_DEADLOCK FALSE
INVARIANTS TypeOK ConnectedOnce SessionKeepsDeadline FailedSelectionCanBeRetried
