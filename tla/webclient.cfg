SPECIFICATION WebSpec
CONSTANTS
  tab1 = tab1
  tab2 = tab2
  ann = ann
  bob = bob
  q1 = q1
  q2 = q2
  Tabs = {tab1}
  Calls = {q1, q2}
  Users = {ann, bob}
  None = None
  MaxPairs = 2
  MaxBreaks = 1
INVARIANTS
  SessionInv
  OneRefresh
  NoReuse
PROPERTIES
  Settles
CHECK_DEADLOCK FALSE
