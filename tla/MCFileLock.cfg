SPECIFICATION Spec
CONSTANTS
  Openers = {o1, o2, o3}
  Processes = {p1, p2}
  Homes <- AnyHome
  MaxCalls = 4
  Nil = Nil
CHECK_DEADLOCK FALSE
INVARIANTS OneProcessAtATime
