SPECIFICATION Spec
CONSTANTS
  Players = {a, b}
  Slots <- TwoSlots
  Team <- TwoTeams
  Nobody = Nobody
  MaxRounds = 2
  MaxLife = 3
SYMMETRY Symmetry
INVARIANTS
  OwnersDrove
  KillsAreCredited
  ScoreIsShown
CHECK_DEADLOCK FALSE
