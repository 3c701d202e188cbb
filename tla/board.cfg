SPECIFICATION Spec
CONSTANTS
  i1 = i1
  i2 = i2
  i3 = i3
  todoCol = todoCol
  doneCol = doneCol
  Clients = {c1}
  Elsewhere = Elsewhere
  Orders = {8, 12}
  Issues = {i1, i2, i3}
  Statuses = {todoCol, doneCol}
  Requests = {r1, r2}
  One = 8
  Threshold = 2
  InitRows <- MCInitRows
  NoCard = NoCard
  Removed = Removed
  NoOne = NoOne
  MaxRequests = 2
  MaxBreaks = 1
INVARIANTS
  BoardInv
PROPERTY
  ImplementsIssueRows
CHECK_DEADLOCK FALSE
