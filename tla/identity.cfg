SPECIFICATION Spec
CONSTANTS
  Requests = {r1, r2, r3, r4}
  NoOne = NoOne
  SessionTtl = 2
  TokenTtl = 1
  MaxTime = 3
  MaxFaults = 1
  MaxOutages = 1
SYMMETRY symmetry
CHECK_DEADLOCK FALSE
INVARIANTS TypeOK OnlyPresentGeneration RacingLoginsLeaveNothing IndexReachesSessions LinksAndAccountsAreSingle
PROPERTIES NeverResurrected ImplementsAccess
