\* A child answers the health probe and exits before the answer is handled.
CONSTANTS
  Keys = {k1}
  Starts = {1, 2}
  None = none
  MaxRestarts = 1
  MaxEnsures = 1
  MaxExits = 1
  MaxStops = 0
SPECIFICATION Spec
INVARIANTS
  CrashIsSeen
CHECK_DEADLOCK FALSE
