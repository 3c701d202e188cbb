SPECIFICATION BellSpec
CONSTANTS
  Notices = {1, 2}
  PageSize = 1
  Nil = Nil
  MaxBreaks = 1
INVARIANTS
  BellInv
PROPERTIES
  CountSettles
CHECK_DEADLOCK FALSE
