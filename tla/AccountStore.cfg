SPECIFICATION FairSpec
CONSTANTS
  MaxKeys = 2
  MaxCrashes = 3
INVARIANTS RegisteredKeyKept AccountOfKey
PROPERTY Recovers
