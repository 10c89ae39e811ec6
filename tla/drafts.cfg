SPECIFICATION Spec
CONSTANTS
  Accounts = {a1, a2}
  Workers = {w1, w2}
  Calls = {c1}
  MaxRows = 2
  MaxEdits = 3
  MaxCommands = 3
SYMMETRY symmetry
CHECK_DEADLOCK FALSE
INVARIANTS TypeOK PublishesWhatIsSeen CancelledIsNotSent
