\* Two flows in turn, three steps: a double click, a poll racing a submit, and a
\* step in flight when the deadline, the sweep or a cancel ends the flow.
CONSTANTS
  Flows = {1, 2}
  Advances = {11, 12}
  None = none
  MaxSteps = 2
  MaxFaults = 1
SPECIFICATION Spec
INVARIANTS
  TypeOK
  ChildHasAnOwner
  EndsOnceAndSaysWhy
  SecretsAreDrained
  NoStrandedSession
PROPERTIES
  ChildrenStop
\* The user may stop, and every call is made once.
CHECK_DEADLOCK FALSE
