SPECIFICATION Spec
CONSTANTS
  i1 = i1
  i2 = i2
  i3 = i3
  todoCol = todoCol
  doneCol = doneCol
  someone = someone
  Issues = {i1, i2, i3}
  Statuses = {todoCol, doneCol}
  Assignees = {Nobody, someone}
  Nobody = Nobody
  Requests = {r1, r2}
  Orders = {2, 3}
  One = 2
  Threshold = 2
  PoolSize = 2
  InitRows <- MCInitRows
  NoRow = NoRow
  Removed = Removed
  Unset = Unset
  MaxRequests = 2
INVARIANT
  TypeOK
PROPERTIES
  RebalanceMovesOnly
  RequestsAnswered
  ImplementsIssueRows
CHECK_DEADLOCK FALSE
