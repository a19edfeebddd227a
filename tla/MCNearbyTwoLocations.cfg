SPECIFICATION Spec
CONSTANTS
  v1 = v1
  v2 = v2
  Nil = Nil
  Venues = {v1}
  Answers <- OneVenue
  MaxHelpers = 2
  Refusals = {}
  MaxTaps = 0
CHECK_DEADLOCK FALSE
INVARIANTS NoRowTrap
