SPECIFICATION Spec
CONSTANTS
  backlog = backlog
  done = done
  c1 = c1
  c2 = c2
  c3 = c3
  c4 = c4
  s1 = s1
  s2 = s2
  r1 = r1
  r2 = r2
  Columns = {c1, c2, c3, c4}
  Sprints = {s1, s2}
  Issues = {i1}
  Keys = {backlog, done}
  Backlog = backlog
  Done = done
  NoKey = NoKey
  DefaultBoard <- MCDefaultBoard
  Requests = {r1, r2}
  Nothing = Nothing
  Removed = Removed
  MaxRequests = 3
INVARIANTS
  PlanningInv
  ColumnsOrdered
  OneActiveSprint
  CompletedSprintsDrained
PROPERTIES
  RequestsAnswered
CHECK_DEADLOCK FALSE
