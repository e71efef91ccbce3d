\* What the comment of `resuming` says of two rapid sends.
CONSTANTS
  Sessions = {s1}
  Agents = {1, 2, 3}
  Turns = {1, 2, 3}
  Interrupt = interrupt
  NoAgent = none
  NoSession = nosession
  MaxInterrupts = 1
  MaxCrashes = 0
SPECIFICATION Spec
INVARIANTS
  OneResume
CHECK_DEADLOCK FALSE
