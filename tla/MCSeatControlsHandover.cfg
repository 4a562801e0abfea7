SPECIFICATION Spec
CONSTANTS
  Lease = 2
  BotTakeover = 2
  MaxActions = 1
  MaxWaiting = 2
  MaxLag = 1
  MaxLead = 1
  MaxSteps = 2
  MaxOwed = 2
  RetryAfter = 0
  HumansOnly = FALSE
  Pilot = FALSE
  Presses = {"action"}
  Leads = {2}
  MaxTime = 4
  MaxInputs = 2
  MaxDeaths = 1
  MaxAway = 1
INVARIANTS
  InputsDriveTheirLife
  PlayerKnowsDriver
PROPERTIES
  EpochsAreUnambiguous
CHECK_DEADLOCK FALSE
