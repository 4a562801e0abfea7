SPECIFICATION Spec
CONSTANTS
  Lease = 3
  BotTakeover = 5
  MaxActions = 1
  MaxWaiting = 2
  MaxLag = 1
  MaxLead = 1
  MaxSteps = 2
  MaxOwed = 2
  RetryAfter = 1
  HumansOnly = TRUE
  Pilot = FALSE
  Presses = {"none","fire","action"}
  Leads = {2}
  MaxTime = 5
  MaxInputs = 3
  MaxDeaths = 0
  MaxAway = 0
INVARIANTS
  InputsKeepTheirTime

  
CHECK_DEADLOCK FALSE
