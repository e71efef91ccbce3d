CONSTANTS
  None = none
  Sends = {1}
  Chunks = {}
  MaxEvents = 0
  MaxRoots = 2
  MaxFaults = 0
SPECIFICATION ConvSpec
INVARIANT ResumedTurnIsShown
CHECK_DEADLOCK FALSE
