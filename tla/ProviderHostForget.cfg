\* A key that retainOnly has forgotten is asked for again while the child it
\* killed is still exiting.
CONSTANTS
  Keys = {k1}
  Starts = {1, 2, 3}
  None = none
  MaxRestarts = 1
  MaxEnsures = 2
  MaxExits = 0
  MaxStops = 1
SPECIFICATION Spec
PROPERTIES
  NeverAnothersCrash
CHECK_DEADLOCK FALSE
