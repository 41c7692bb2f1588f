CONSTANTS
  MaxChanges = 2
  MaxFaults = 0
SPECIFICATION Spec
INVARIANT ReconnectsWhenBack
CHECK_DEADLOCK FALSE
