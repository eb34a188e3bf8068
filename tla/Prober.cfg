SPECIFICATION FairSpec
CONSTANTS
  a1 = a1
  a2 = a2
  Authz = {a1, a2}
CHECK_DEADLOCK FALSE
INVARIANTS TypeOK SolvedOrReported NothingLeftBehind OneSequentialRecord
PROPERTIES Returns Implements
