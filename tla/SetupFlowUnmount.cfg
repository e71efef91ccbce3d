\* The user leaves the page while the first step of a flow is on its way.
CONSTANTS
  Flows = {1}
  Advances = {11}
  None = none
  MaxSteps = 2
  MaxFaults = 0
SPECIFICATION Spec
INVARIANTS
  UnmountStopsFlow
CHECK_DEADLOCK FALSE
