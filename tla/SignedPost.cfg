SPECIFICATION FairPostSpec
CONSTANTS
  p1 = p1
  p2 = p2
  Posts = {p1, p2}
  RetryMax = 2
  MaxSigned = 3
  MaxCliCalls = 1
CHECK_DEADLOCK FALSE
INVARIANTS PostTypeOK AtMostOnce EffectsBounded OkIsExecuted
PROPERTIES FreshSignature PostReturns
