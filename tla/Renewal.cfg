SPECIFICATION RenewSpec
CONSTANTS
  Lifetimes <- MCLifetimes
  DaysValues <- MCDays
  Periods <- MCPeriods
  MaxFailures = 1
INVARIANTS RenewTypeOK NeverExpired
