\* What the comment of mountTray says of a launch from the tray.
CONSTANTS
  None = none
  MaxStarted = 1
  MaxEntries = 1
SPECIFICATION LaunchesSpec
INVARIANTS
  TrayOpensSession
CHECK_DEADLOCK FALSE
