SPECIFICATION Spec
CONSTANTS
  Users = {u1, u2}
  Handlers = {h1, h2, h3}
  Limit = 2
  Pieces = 2
  MaxCalls = 3
  MaxFaults = 1
SYMMETRY Symmetry
INVARIANTS TypeOK WorkersAgree ContextIsOwn RepliesAreOwn
CHECK_DEADLOCK FALSE
