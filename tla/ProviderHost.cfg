\* Safety of one instance key: keys share nothing but the loops that stop them.
\* Three requests, a spontaneous exit and two stops, so that a stop, a start and
\* the late exit of an older child can all overlap; and every start settles.
CONSTANTS
  Keys = {k1}
  Starts = {1, 2, 3, 4}
  None = none
  MaxRestarts = 1
  MaxEnsures = 3
  MaxExits = 1
  MaxStops = 2
SPECIFICATION FairSpec
INVARIANTS
  TypeOK
  NoOrphan
  OneStart
  RunningIsWatched
PROPERTIES
  StartsSettle
  StopIsFinal
  StaleStartsAreInert
  CrashesAreItsOwn
\* Calls are bounded and children need not exit.
CHECK_DEADLOCK FALSE
