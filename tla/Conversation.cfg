CONSTANTS
  None = none
  Sends = {1}
  Chunks = {}
  MaxEvents = 1
  MaxRoots = 2
  MaxFaults = 2
  Turns = {1, 2}
  Unsendable = {2}
  Asks = {1}
  MaxUpdates = 1
  MaxLog = 3
  MaxChoices = 2
  MaxRuns = 2
  MaxMishaps = 1
SPECIFICATION MCSpec
INVARIANTS
  TypesOK NoTurnVanishes NoSendHangs NothingShownTwice ViewCatchesUp
  ReplayKeepsOrder SettingsAreHonoured TurnsEndOnce AsksAreHonoured AgentIsHeld
CHECK_DEADLOCK FALSE
