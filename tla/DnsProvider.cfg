SPECIFICATION Spec
CONSTANTS
  Providers <- AllProviders
  MaxFaults = 2
INVARIANTS
  BothStayUp
  StandingStays
  LateStays
  CleanUpOkMeansGone
  CleanUpWorks
PROPERTY PresentPublishes
