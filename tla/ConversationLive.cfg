CONSTANTS
  None = none
  Sends = {}
  Chunks = {"a", "b"}
  MaxEvents = 2
  MaxRoots = 1
  MaxFaults = 0
SPECIFICATION ConvSpec
INVARIANT LiveMatchesReplay
CHECK_DEADLOCK FALSE
