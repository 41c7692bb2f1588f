CONSTANTS
  MaxChanges = 3
  MaxFaults = 1
SPECIFICATION FairSpec
INVARIANTS TypeOK AttemptAccounted NeverStrandedUnlessStale
PROPERTY EventuallyConnected
CHECK_DEADLOCK FALSE
