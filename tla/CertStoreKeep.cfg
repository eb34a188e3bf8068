SPECIFICATION Spec
CONSTANTS
  d1 = d1
  d2 = d2
  Domains = {d1, d2}
  MaxIssued = 2
SYMMETRY Symmetry
CHECK_DEADLOCK FALSE
INVARIANT RevokesAll
