\* Two sessions share the manager, three driver starts, three turns, one
\* interrupt and one exit of the process; safety, and the refinement with its
\* liveness, so no symmetry.
CONSTANTS
  Sessions = {s1, s2}
  Agents = {1, 2, 3}
  Turns = {1, 2, 3}
  Interrupt = interrupt
  NoAgent = none
  NoSession = nosession
  MaxInterrupts = 1
  MaxCrashes = 1
SPECIFICATION FairSpec
INVARIANTS
  TypeOK
  SingleAgent
  HandleIsTheAgent
  RowTracksAgent
  QueueHasResume
  TurnsAccounted
  OrderKept
  PersistedFirst
  NothingAfterFinish
PROPERTIES
  DeliversTurns
\* The user may stop sending.
CHECK_DEADLOCK FALSE
