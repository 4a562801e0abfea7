SPECIFICATION Spec
CONSTANTS
  Players = {a, b}
  Slots <- TwoSlots
  Team <- TwoTeams
  Nobody = Nobody
  MaxRounds = 1
  MaxLife = 3
SYMMETRY Symmetry
INVARIANTS
  ControlsDriveAPlayersTank
CHECK_DEADLOCK FALSE
