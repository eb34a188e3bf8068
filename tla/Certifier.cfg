SPECIFICATION FairSpec
CONSTANTS
  d1 = d1
  d2 = d2
  d3 = d3
  Domains = {d1, d2, d3}
CHECK_DEADLOCK FALSE
INVARIANTS SuccessHasCertificate SolveSeesAll NoSendOnClosed AuthorizationsReleased
PROPERTY Returns
