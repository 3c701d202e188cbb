-------------------------- MODULE IssuesServiceProofs --------------------------
(***************************************************************************)
(* What IssuesService guarantees for any issues, requests and connections: *)
(* types, that a rebalance only moves, and that it implements IssueRows.   *)
(***************************************************************************)
EXTENDS IssuesService, FiniteSetTheorems, TLAPS

-----------------------------------------------------------------------------
(* The inductive invariant.                                                 *)

\* A request that is at a step has what the step needs.
StepRight(r) ==
  /\ pc[r] = "insert" => op[r].kind = "create" /\ entity[r] \in Row
  /\ pc[r] = "connect" => op[r].kind \in {"update", "move", "remove"}
  /\ pc[r] \in {"select", "write"} => op[r].kind \in {"update", "move"}
  /\ pc[r] = "log" => op[r].kind = "update"
  /\ pc[r] \in {"count", "rank", "rebalance", "commit"} => op[r].kind = "move"
  /\ pc[r] = "delete" => op[r].kind = "remove"
  /\ pc[r] = "emit" => op[r].kind \in {"create", "update", "move", "remove"}
  /\ pc[r] \notin {"idle", "insert"} => op[r].issue \in Issues
  /\ op[r].kind \in {"update", "move"} => entity[r] \in Row
  /\ op[r].kind = "move" => op[r].status \in Statuses

\* Between its first write and its commit a transaction has written its own issue,
\* and of others only the order; they stay as they are until it ends.
WritesRight(r) ==
  \A j \in Issues : tx[r][j] # NoRow =>
    /\ pc[r] \in {"log", "count", "rank", "rebalance", "commit"}
    /\ j # op[r].issue =>
         /\ pc[r] \in {"rebalance", "commit"} /\ rows[j] \in Row
         /\ tx[r][j].status = rows[j].status /\ tx[r][j].assignee = rows[j].assignee

\* Rows are left to write during a rebalance only.
TodoRight(r) == \A j \in Issues : todo[r][j] # NoRow => pc[r] = "rebalance"

\* The rebalance of r has given issue j its order, or will.
Ranked(r, j) == j # op[r].issue /\ (todo[r][j] # NoRow \/ tx[r][j] # NoRow)

Rank(r, j) == IF todo[r][j] # NoRow THEN todo[r][j].order ELSE tx[r][j].order

\* These orders are ranks, no two of them alike.
RanksRight(r) ==
  \A j \in Issues : Ranked(r, j) =>
    /\ Rank(r, j) \in {n * One : n \in 1..Cardinality(Issues)}
    /\ \A k \in Issues : Ranked(r, k) /\ k # j => Rank(r, k) # Rank(r, j)

RequestRight(r) == StepRight(r) /\ WritesRight(r) /\ TodoRight(r) /\ RanksRight(r)

\* No row is written by two open transactions.
LocksRight ==
  \A r, q \in Requests, j \in Issues : tx[r][j] # NoRow /\ tx[q][j] # NoRow => r = q

IssuesInv == TypeOK /\ LocksRight /\ \A r \in Requests : RequestRight(r)

-----------------------------------------------------------------------------
(* What the records are made of.                                            *)

(* What a request knows.                                                    *)
LEMMA RequestType ==
  ASSUME TypeOK, NEW r \in Requests
  PROVE  /\ op[r] \in Ops
         /\ op[r].kind \in {"none", "create", "update", "move", "remove"}
         /\ op[r].issue \in Issues \cup {Unset} /\ op[r].status \in Statuses \cup {Unset}
         /\ op[r].order \in Int
         /\ entity[r] \in Row \cup {NoRow} /\ entries[r] \in Seq(Entry)
         /\ tx[r] \in [Issues -> Row \cup {NoRow}] /\ todo[r] \in [Issues -> Row \cup {NoRow}]
         /\ NoOp \in Ops /\ NoneIn \in [Issues -> Row \cup {NoRow}]
<1>1. op[r] \in Ops
  BY DEF TypeOK
<1>2. NoOp \in Ops
  BY DEF NoOp, Ops
<1>3. NoneIn \in [Issues -> Row \cup {NoRow}]
  BY DEF NoneIn
<1>4. /\ entity[r] \in Row \cup {NoRow} /\ entries[r] \in Seq(Entry)
      /\ tx[r] \in [Issues -> Row \cup {NoRow}] /\ todo[r] \in [Issues -> Row \cup {NoRow}]
  BY DEF TypeOK
<1>5. QED
  BY <1>1, <1>2, <1>3, <1>4 DEF Ops

(* A statement reads what the transaction wrote, or what is committed.      *)
LEMMA ViewType ==
  ASSUME TypeOK, NEW r \in Requests, NEW i \in Issues
  PROVE  /\ View(r, i) \in Row \cup {NoRow, Removed}
         /\ tx[r][i] = NoRow => View(r, i) = rows[i]
         /\ tx[r][i] # NoRow => View(r, i) = tx[r][i] /\ tx[r][i] \in Row
<1>1. tx[r][i] \in Row \cup {NoRow} /\ rows[i] \in Row \cup {NoRow, Removed}
  BY RequestType DEF TypeOK
<1>2. QED
  BY <1>1 DEF View

(* The fields of a row.                                                     *)
LEMMA RowType ==
  ASSUME NEW x \in Row
  PROVE  x.status \in Statuses /\ x.order \in Int /\ x.assignee \in Assignees
BY DEF Row

(* The columns that save() lays over a row.                                 *)
LEMMA PatchedType ==
  ASSUME NEW x \in Row, NEW e \in Row, NEW columns
  PROVE  Patched(x, e, columns) \in Row
BY DEF Patched, Row

(* A transaction that is not open has written nothing, and only a rebalance *)
(* has rows left to write.                                                  *)
LEMMA NothingWritten ==
  ASSUME NEW r \in Requests, RequestRight(r), NEW j \in Issues
  PROVE  /\ pc[r] \notin {"log", "count", "rank", "rebalance", "commit"} => tx[r][j] = NoRow
         /\ pc[r] \notin {"rebalance", "commit"} /\ j # op[r].issue => tx[r][j] = NoRow
         /\ pc[r] # "rebalance" => todo[r][j] = NoRow
BY DEF RequestRight, WritesRight, TodoRight

(* A request whose transaction has written nothing and has nothing to write.*)
LEMMA NothingToRank ==
  ASSUME NEW r \in Requests, StepRight(r)',
         \A j \in Issues : tx'[r][j] = NoRow /\ todo'[r][j] = NoRow
  PROVE  RequestRight(r)'
BY DEF RequestRight, WritesRight, TodoRight, RanksRight, Ranked

(* What a step of one request leaves right of the others: it takes no row   *)
(* that another has written, and commits none that another has reordered.   *)
LEMMA Frame ==
  ASSUME IssuesInv, NEW r \in Requests, TypeOK', RequestRight(r)',
         \A q \in Requests \ {r} : /\ pc'[q] = pc[q] /\ op'[q] = op[q] /\ entity'[q] = entity[q]
                                   /\ tx'[q] = tx[q] /\ todo'[q] = todo[q],
         \A q \in Requests \ {r}, j \in Issues : tx[q][j] # NoRow /\ j # op[q].issue => rows'[j] = rows[j],
         \A j \in Issues : tx'[r][j] # NoRow => tx[r][j] # NoRow \/ ~LockedFor(r, j)
  PROVE  IssuesInv'
<1>1. ASSUME NEW q \in Requests, q # r PROVE RequestRight(q)'
  <2>1. /\ pc'[q] = pc[q] /\ op'[q] = op[q] /\ entity'[q] = entity[q]
        /\ tx'[q] = tx[q] /\ todo'[q] = todo[q] /\ RequestRight(q)
    BY <1>1 DEF IssuesInv
  <2>2. StepRight(q)'
    BY <2>1 DEF RequestRight, StepRight
  <2>3. WritesRight(q)'
    BY <1>1, <2>1 DEF RequestRight, WritesRight
  <2>4. TodoRight(q)'
    BY <2>1 DEF RequestRight, TodoRight
  <2>5. RanksRight(q)'
    BY <2>1 DEF RequestRight, RanksRight, Ranked, Rank
  <2>6. QED
    BY <2>2, <2>3, <2>4, <2>5 DEF RequestRight
<1>2. LocksRight'
  <2>1. SUFFICES ASSUME NEW p \in Requests, NEW q \in Requests, p # q, NEW j \in Issues,
                        tx'[p][j] # NoRow, tx'[q][j] # NoRow
                 PROVE  FALSE
    BY DEF LocksRight
  <2>2. CASE p # r /\ q # r
    BY <2>1, <2>2 DEF IssuesInv, LocksRight
  <2>3. ASSUME NEW o \in Requests, o # r, tx'[r][j] # NoRow, tx'[o][j] # NoRow PROVE FALSE
    <3>1. tx[o][j] # NoRow
      BY <2>3
    <3>2. tx[r][j] = NoRow
      BY <2>3, <3>1 DEF IssuesInv, LocksRight
    <3>3. QED
      BY <2>3, <3>1, <3>2 DEF LockedFor
  <2>4. QED
    BY <2>1, <2>2, <2>3
<1>3. QED
  BY <1>1, <1>2 DEF IssuesInv

-----------------------------------------------------------------------------
(* Steps that commit nothing and write nothing.                             *)

(* A step that only goes on leaves the invariant when its own request may   *)
(* be there with what it has written.                                       *)
LEMMA GotoStep ==
  ASSUME IssuesInv, NEW r \in Requests, NEW step \in Steps, Goto(r, step),
         UNCHANGED <<rows, op, entity, tx, todo>>, TypeOK', StepRight(r)',
         \A j \in Issues : tx[r][j] # NoRow =>
           /\ step \in {"log", "count", "rank", "rebalance", "commit"}
           /\ j # op[r].issue => step \in {"rebalance", "commit"},
         \A j \in Issues : todo[r][j] = NoRow
  PROVE  IssuesInv'
<1>1. TypeOK /\ RequestRight(r)
  BY DEF IssuesInv
<1>2. pc'[r] = step /\ \A q \in Requests \ {r} : pc'[q] = pc[q]
  BY <1>1 DEF Goto, TypeOK
<1>3. WritesRight(r)'
  BY <1>1, <1>2 DEF RequestRight, WritesRight
<1>4. TodoRight(r)'
  BY DEF TodoRight
<1>5. RanksRight(r)'
  BY <1>1 DEF RequestRight, RanksRight, Ranked, Rank
<1>6. RequestRight(r)'
  BY <1>3, <1>4, <1>5 DEF RequestRight
<1>7. QED
  BY <1>2, <1>6, Frame

(* A request is answered.                                                   *)
LEMMA FinishStep ==
  ASSUME IssuesInv, NEW r \in Requests, Finish(r),
         UNCHANGED <<rows, log, started>>, emitted' \in Events,
         \/ tx' = tx /\ \A j \in Issues : tx[r][j] = NoRow
         \/ tx' = [tx EXCEPT ![r] = NoneIn]
  PROVE  IssuesInv'
<1>1. TypeOK /\ NoOp \in Ops /\ NoneIn \in [Issues -> Row \cup {NoRow}]
  BY RequestType DEF IssuesInv
<1>2. tx' \in [Requests -> [Issues -> Row \cup {NoRow}]] /\ \A j \in Issues : tx'[r][j] = NoRow
  <2>1. tx \in [Requests -> [Issues -> Row \cup {NoRow}]]
    BY <1>1 DEF TypeOK
  <2>2. CASE tx' = tx /\ \A j \in Issues : tx[r][j] = NoRow
    BY <2>1, <2>2
  <2>3. CASE tx' = [tx EXCEPT ![r] = NoneIn]
    <3>1. tx' \in [Requests -> [Issues -> Row \cup {NoRow}]] /\ tx'[r] = NoneIn
      BY <1>1, <2>1, <2>3
    <3>2. \A j \in Issues : NoneIn[j] = NoRow
      BY DEF NoneIn
    <3>3. QED
      BY <3>1, <3>2
  <2>4. QED
    BY <2>2, <2>3
<1>3. \A q \in Requests \ {r} : tx'[q] = tx[q]
  BY <1>1 DEF TypeOK
<1>4. /\ pc' \in [Requests -> Steps] /\ pc'[r] = "idle" /\ \A q \in Requests \ {r} : pc'[q] = pc[q]
      /\ op' \in [Requests -> Ops] /\ op'[r] = NoOp /\ \A q \in Requests \ {r} : op'[q] = op[q]
  BY <1>1 DEF Finish, Goto, TypeOK, Steps
<1>5. /\ entity' \in [Requests -> Row \cup {NoRow}] /\ \A q \in Requests \ {r} : entity'[q] = entity[q]
      /\ todo' \in [Requests -> [Issues -> Row \cup {NoRow}]] /\ todo'[r] = NoneIn
      /\ \A q \in Requests \ {r} : todo'[q] = todo[q]
  BY <1>1 DEF Finish, TypeOK
<1>6. diff' \in [Requests -> SUBSET (Columns \cup {"insert"})] /\ entries' \in [Requests -> Seq(Entry)]
      /\ held' \in SUBSET Requests
  BY <1>1 DEF Finish, TypeOK
<1>7. TypeOK'
  BY <1>1, <1>2, <1>4, <1>5, <1>6 DEF TypeOK
<1>8. NoOp.kind = "none"
  BY DEF NoOp
<1>9. StepRight(r)'
  BY <1>4, <1>8 DEF StepRight
<1>10. \A j \in Issues : tx'[r][j] = NoRow /\ todo'[r][j] = NoRow
  BY <1>2, <1>5 DEF NoneIn
<1>11. RequestRight(r)'
  BY <1>9, <1>10, NothingToRank
<1>12. QED
  BY <1>2, <1>3, <1>4, <1>5, <1>7, <1>11, Frame

(* A transaction is rolled back, and its error is the answer.               *)
LEMMA DatabaseErrorStep ==
  ASSUME IssuesInv, NEW r \in Requests, DatabaseError(r)
  PROVE  IssuesInv'
<1>1. Rollback(r) /\ Finish(r) /\ Quietly /\ UNCHANGED <<rows, log, started>>
  BY DEF DatabaseError, Fail
<1>2. emitted' \in Events
  BY <1>1 DEF Quietly, NoEvent, Events
<1>3. tx' = [tx EXCEPT ![r] = NoneIn]
  BY <1>1 DEF Rollback
<1>4. QED
  BY <1>1, <1>2, <1>3, FinishStep

(* An update has fetched its answer.                                        *)
LEMMA UpdateRefetchStep ==
  ASSUME IssuesInv, NEW r \in Requests, UpdateRefetch(r)
  PROVE  IssuesInv'
<1>1. Finish(r) /\ Quietly /\ UNCHANGED <<rows, log, tx, started>> /\ pc[r] = "refetch"
  BY DEF UpdateRefetch
<1>2. emitted' \in Events
  BY <1>1 DEF Quietly, NoEvent, Events
<1>3. \A j \in Issues : tx[r][j] = NoRow
  BY <1>1, NothingWritten DEF IssuesInv
<1>4. QED
  BY <1>1, <1>2, <1>3, FinishStep

(* The event is emitted; an update goes on, and the others are answered.    *)
LEMMA EmitStep ==
  ASSUME IssuesInv, NEW r \in Requests, Emit(r)
  PROVE  IssuesInv'
<1>1. TypeOK /\ RequestRight(r) /\ pc[r] = "emit" /\ UNCHANGED <<rows, log, tx, started>> /\ emitted' = Event(r)
  BY DEF Emit, IssuesInv
<1>2. /\ op[r].kind \in {"create", "update", "move", "remove"} /\ op[r].issue \in Issues
      /\ op[r].kind = "move" => op[r].status \in Statuses
      /\ op[r].order \in Int
  BY <1>1, RequestType DEF RequestRight, StepRight
<1>3. Event(r) \in Events
  <2>1. CASE op[r].kind = "create"
    BY <1>2, <2>1 DEF Event, Events
  <2>2. CASE op[r].kind = "remove"
    BY <1>2, <2>2 DEF Event, Events
  <2>3. CASE op[r].kind = "move"
    BY <1>2, <2>3 DEF Event, Events
  <2>4. CASE op[r].kind = "update"
    <3> DEFINE assigned == \E n \in DOMAIN entries[r] :
                             entries[r][n].field = "assignee" /\ entries[r][n].new # Nobody
               changed == \E n \in DOMAIN entries[r] : entries[r][n].field = "status"
    <3>1. assigned \in BOOLEAN /\ changed \in BOOLEAN
      OBVIOUS
    <3>2. Event(r) = [type |-> "updated", issue |-> op[r].issue, assigned |-> assigned, statusChanged |-> changed]
      BY <2>4 DEF Event
    <3> HIDE DEF assigned, changed
    <3>3. QED
      BY <1>2, <3>1, <3>2 DEF Events
  <2>5. QED
    BY <1>2, <2>1, <2>2, <2>3, <2>4
<1>4. \A j \in Issues : tx[r][j] = NoRow /\ todo[r][j] = NoRow
  BY <1>1, NothingWritten
<1>5. CASE op[r].kind = "update"
  <2>1. Goto(r, "refetch") /\ UNCHANGED <<op, entity, diff, entries, todo, held>>
    BY <1>5 DEF Emit
  <2>2. pc' \in [Requests -> Steps] /\ pc'[r] = "refetch"
    BY <1>1, <2>1 DEF Goto, TypeOK, Steps
  <2>3. TypeOK'
    BY <1>1, <1>3, <2>1, <2>2 DEF TypeOK
  <2>4. StepRight(r)'
    BY <1>1, <1>2, <2>1, <2>2 DEF RequestRight, StepRight
  <2>5. QED
    BY <1>1, <1>4, <2>1, <2>3, <2>4, GotoStep DEF Steps
<1>6. CASE op[r].kind # "update"
  <2>1. Finish(r)
    BY <1>6 DEF Emit
  <2>2. QED
    BY <1>1, <1>3, <1>4, <2>1, FinishStep
<1>7. QED
  BY <1>5, <1>6

(* A request has its connection.                                            *)
LEMMA ConnectStep ==
  ASSUME IssuesInv, NEW r \in Requests, Connect(r)
  PROVE  IssuesInv'
<1>1. /\ TypeOK /\ RequestRight(r) /\ pc[r] = "connect" /\ emitted' = NoEvent
      /\ UNCHANGED <<rows, log, op, entity, diff, entries, todo, tx, started>>
      /\ held' = held \cup {r}
  BY DEF Connect, Quietly, IssuesInv
<1>2. PICK step : step = IF op[r].kind = "remove" THEN "delete" ELSE "select"
  OBVIOUS
<1>3. Goto(r, step) /\ step \in Steps
  BY <1>2 DEF Connect, Steps
<1>4. pc' \in [Requests -> Steps] /\ pc'[r] = step
  BY <1>1, <1>3 DEF Goto, TypeOK
<1>5. emitted' \in Events
  BY <1>1 DEF NoEvent, Events
<1>6. TypeOK'
  BY <1>1, <1>4, <1>5 DEF TypeOK
<1>7. StepRight(r)'
  BY <1>1, <1>2, <1>4 DEF RequestRight, StepRight
<1>8. \A j \in Issues : tx[r][j] = NoRow /\ todo[r][j] = NoRow
  BY <1>1, NothingWritten
<1>9. QED
  BY <1>1, <1>3, <1>6, <1>7, <1>8, GotoStep

(* save() has compared the entity with the row.                             *)
LEMMA SaveSelectStep ==
  ASSUME IssuesInv, NEW r \in Requests, SaveSelect(r)
  PROVE  IssuesInv'
<1>1. /\ TypeOK /\ RequestRight(r) /\ pc[r] = "select" /\ emitted' = NoEvent /\ Goto(r, "write")
      /\ UNCHANGED <<rows, log, op, entity, entries, todo, tx, held, started>>
  BY DEF SaveSelect, Quietly, IssuesInv
<1>2. pc' \in [Requests -> Steps] /\ pc'[r] = "write" /\ emitted' \in Events
  BY <1>1 DEF Goto, TypeOK, Steps, NoEvent, Events
<1>3. PICK d : diff' = [diff EXCEPT ![r] = d] /\ d \in SUBSET (Columns \cup {"insert"})
  BY DEF SaveSelect
<1>4. diff' \in [Requests -> SUBSET (Columns \cup {"insert"})]
  BY <1>1, <1>3 DEF TypeOK
<1>5. TypeOK'
  BY <1>1, <1>2, <1>4 DEF TypeOK
<1>6. StepRight(r)'
  BY <1>1, <1>2 DEF RequestRight, StepRight
<1>7. \A j \in Issues : tx[r][j] = NoRow /\ todo[r][j] = NoRow
  BY <1>1, NothingWritten
<1>8. QED
  BY <1>1, <1>5, <1>6, <1>7, GotoStep DEF Steps

(* The neighbours have been counted.                                        *)
LEMMA MoveCountStep ==
  ASSUME IssuesInv, NEW r \in Requests, MoveCount(r)
  PROVE  IssuesInv'
<1>1. /\ TypeOK /\ RequestRight(r) /\ pc[r] = "count" /\ emitted' = NoEvent
      /\ UNCHANGED <<rows, log, op, entity, diff, entries, todo, tx, held, started>>
  BY DEF MoveCount, Quietly, IssuesInv
<1>2. PICK step \in {"rank", "commit"} : Goto(r, step)
  BY DEF MoveCount
<1>3. pc' \in [Requests -> Steps] /\ pc'[r] = step /\ emitted' \in Events
  BY <1>1, <1>2 DEF Goto, TypeOK, Steps, NoEvent, Events
<1>4. TypeOK'
  BY <1>1, <1>3 DEF TypeOK
<1>5. StepRight(r)'
  BY <1>1, <1>2, <1>3 DEF RequestRight, StepRight
<1>6. \A j \in Issues : todo[r][j] = NoRow /\ (j # op[r].issue => tx[r][j] = NoRow)
  BY <1>1, NothingWritten
<1>7. QED
  BY <1>1, <1>2, <1>4, <1>5, <1>6, GotoStep DEF Steps

(* A request that starts has read what it needs; it has written nothing.    *)
LEMMA BeginStep ==
  ASSUME IssuesInv, NEW r \in Requests, NEW o \in Ops, NEW step \in {"insert", "connect"},
         Begin(r, o, step),
         entity' \in [Requests -> Row \cup {NoRow}], \A q \in Requests \ {r} : entity'[q] = entity[q],
         entries' \in [Requests -> Seq(Entry)],
         step = "insert" => o.kind = "create" /\ entity'[r] \in Row,
         step = "connect" => o.kind \in {"update", "move", "remove"} /\ o.issue \in Issues,
         o.kind \in {"update", "move"} => entity'[r] \in Row,
         o.kind = "move" => o.status \in Statuses
  PROVE  IssuesInv'
<1>1. /\ TypeOK /\ RequestRight(r) /\ pc[r] = "idle" /\ emitted' = NoEvent
      /\ UNCHANGED <<rows, log, diff, todo, tx, held>>
      /\ started' = started + 1 /\ op' = [op EXCEPT ![r] = o] /\ pc' = [pc EXCEPT ![r] = step]
  BY DEF Begin, Goto, Quietly, IssuesInv
<1>2. /\ pc' \in [Requests -> Steps] /\ pc'[r] = step /\ \A q \in Requests \ {r} : pc'[q] = pc[q]
      /\ op' \in [Requests -> Ops] /\ op'[r] = o /\ \A q \in Requests \ {r} : op'[q] = op[q]
  BY <1>1 DEF TypeOK, Steps
<1>3. emitted' \in Events /\ started' \in Nat
  BY <1>1 DEF TypeOK, NoEvent, Events
<1>4. TypeOK'
  BY <1>1, <1>2, <1>3 DEF TypeOK
<1>5. StepRight(r)'
  BY <1>2 DEF StepRight
<1>6. \A j \in Issues : tx'[r][j] = NoRow /\ todo'[r][j] = NoRow
  BY <1>1, NothingWritten
<1>7. RequestRight(r)'
  BY <1>5, <1>6, NothingToRank
<1>8. QED
  BY <1>1, <1>2, <1>4, <1>6, <1>7, Frame

-----------------------------------------------------------------------------
(* Requests that arrive.                                                    *)

(* A finite set of integers, given as the values of a function, has a       *)
(* greatest one.                                                            *)
LEMMA GreatestExists ==
  ASSUME NEW S, IsFiniteSet(S), S # {}, NEW f \in [S -> Int]
  PROVE  \E m \in S : \A j \in S : f[j] <= f[m]
<1> DEFINE HasGreatest(T) == \E m \in T : \A j \in T : f[j] <= f[m]
           Lacking == {T \in FiniteSubsetsOf(S) : T # {} /\ ~HasGreatest(T)}
<1>1. ASSUME Lacking # {} PROVE FALSE
  <2>1. Lacking \subseteq FiniteSubsetsOf(S)
    OBVIOUS
  <2>2. PICK T \in Lacking : \A U \in Lacking : <<U, T>> \notin StrictSubsetOrdering(S)
    <3> HIDE DEF Lacking
    <3> QED BY <1>1, <2>1, FS_StrictSubsetOrderingWellFounded, WFMin
  <2>3. PICK x \in T : TRUE
    BY <2>2
  <2>4. T \subseteq S /\ IsFiniteSet(T) /\ IsFiniteSet(T \ {x})
    BY <2>2, FS_RemoveElement DEF FiniteSubsetsOf
  <2>5. T \ {x} \notin Lacking
    <3>1. T \ {x} \in SUBSET S /\ T \in SUBSET S /\ T \ {x} \subseteq T /\ T \ {x} # T
      BY <2>3, <2>4
    <3>2. <<T \ {x}, T>> \in StrictSubsetOrdering(S)
      BY <3>1 DEF StrictSubsetOrdering
    <3> HIDE DEF Lacking
    <3> QED BY <2>2, <3>2
  <2>6. T \ {x} = {} \/ HasGreatest(T \ {x})
    BY <2>4, <2>5 DEF FiniteSubsetsOf
  <2>7. \A j \in T : f[j] \in Int
    BY <2>4
  <2>8. T \ {x} = {} => HasGreatest(T)
    BY <2>3, <2>7
  <2>9. ASSUME HasGreatest(T \ {x}) PROVE HasGreatest(T)
    <3>1. PICK m \in T \ {x} : \A j \in T \ {x} : f[j] <= f[m]
      BY <2>9
    <3>2. CASE f[x] <= f[m]
      BY <3>1, <3>2
    <3>3. CASE ~(f[x] <= f[m])
      <4>1. \A j \in T : f[j] <= f[x]
        BY <2>3, <2>7, <3>1, <3>3
      <4>2. QED
        BY <2>3, <4>1
    <3>4. QED
      BY <3>2, <3>3
  <2> QED BY <2>2, <2>6, <2>8, <2>9
<1>2. S \in FiniteSubsetsOf(S)
  BY DEF FiniteSubsetsOf
<1> QED BY <1>1, <1>2


(* The order of a new issue is a number.                                    *)
LEMMA MaxOrderType ==
  ASSUME TypeOK, NEW S, S \subseteq Issues, \A i \in S : rows[i] \in Row
  PROVE  Max0({rows[i].order : i \in S}) \in Int
<1> DEFINE orders == {rows[i].order : i \in S}
<1>1. CASE orders = {}
  BY <1>1 DEF Max0
<1>2. CASE orders # {}
  <2>1. IsFiniteSet(S) /\ S # {} /\ \A i \in S : rows[i].order \in Int
    BY <1>2, FS_Subset, IssuesAssumption, RowType
  <2>2. PICK f : f = [i \in S |-> rows[i].order]
    OBVIOUS
  <2>3. f \in [S -> Int]
    BY <2>1, <2>2
  <2>4. PICK m \in S : \A j \in S : f[j] <= f[m]
    BY <2>1, <2>3, GreatestExists
  <2>5. rows[m].order \in orders /\ \A y \in orders : y <= rows[m].order
    BY <2>2, <2>4
  <2>6. Max0(orders) \in orders
    <3> HIDE DEF orders
    <3> QED BY <1>2, <2>5 DEF Max0
  <2>7. QED
    BY <2>1, <2>6
<1>3. QED
  BY <1>1, <1>2

(* create has read the greatest order of its column.                        *)
LEMMA CreateReadMaxStep ==
  ASSUME IssuesInv, NEW r \in Requests, NEW s \in Statuses, CreateReadMax(r, s)
  PROVE  IssuesInv'
<1>1. TypeOK
  BY DEF IssuesInv
<1>2. PICK o : o = [NoOp EXCEPT !.kind = "create", !.status = s]
  OBVIOUS
<1>3. o \in Ops /\ o.kind = "create"
  <2>1. o = [kind |-> "create", issue |-> Unset, status |-> s, order |-> 0, assignee |-> Unset]
    BY <1>2 DEF NoOp
  <2>2. QED
    BY <2>1 DEF Ops
<1>4. Begin(r, o, "insert") /\ UNCHANGED entries
  BY <1>2 DEF CreateReadMax
<1>5. PICK max : max = Max0({rows[i].order : i \in {j \in Issues : Live(j) /\ rows[j].status = s}})
  OBVIOUS
<1>6. max \in Int
  <2>1. PICK S : S = {j \in Issues : Live(j) /\ rows[j].status = s}
    OBVIOUS
  <2>2. S \subseteq Issues /\ \A i \in S : rows[i] \in Row
    BY <2>1 DEF Live
  <2>3. QED
    BY <1>1, <1>5, <2>1, <2>2, MaxOrderType
<1>7. PICK e : e = [status |-> s, order |-> max + One, assignee |-> Nobody]
  OBVIOUS
<1>8. e \in Row
  BY <1>6, <1>7, IssuesAssumption DEF Row
<1>9. entity' = [entity EXCEPT ![r] = e]
  BY <1>5, <1>7 DEF CreateReadMax
<1>10. /\ entity' \in [Requests -> Row \cup {NoRow}] /\ entity'[r] \in Row
       /\ \A q \in Requests \ {r} : entity'[q] = entity[q]
       /\ entries' \in [Requests -> Seq(Entry)]
  BY <1>1, <1>4, <1>8, <1>9 DEF TypeOK
<1>11. QED
  BY <1>3, <1>4, <1>10, BeginStep

(* remove has found its issue.                                              *)
LEMMA RemoveReadStep ==
  ASSUME IssuesInv, NEW r \in Requests, NEW i \in Issues, RemoveRead(r, i)
  PROVE  IssuesInv'
<1>1. TypeOK
  BY DEF IssuesInv
<1>2. PICK o : o = [NoOp EXCEPT !.kind = "remove", !.issue = i]
  OBVIOUS
<1>3. o \in Ops /\ o.kind = "remove" /\ o.issue = i
  <2>1. o = [kind |-> "remove", issue |-> i, status |-> Unset, order |-> 0, assignee |-> Unset]
    BY <1>2 DEF NoOp
  <2>2. QED
    BY <2>1 DEF Ops
<1>4. Begin(r, o, "connect") /\ UNCHANGED <<entity, entries>>
  BY <1>2 DEF RemoveRead
<1>5. entity' \in [Requests -> Row \cup {NoRow}] /\ entries' \in [Requests -> Seq(Entry)]
  BY <1>1, <1>4 DEF TypeOK
<1>6. QED
  BY <1>3, <1>4, <1>5, BeginStep

(* The entry of a field that has changed.                                   *)
LEMMA ChangedType ==
  ASSUME NEW field \in {"status", "assignee"}, NEW old \in Statuses \cup Assignees,
         NEW new \in Statuses \cup Assignees \cup {Unset}
  PROVE  Changed(field, old, new) \in Seq(Entry)
<1>1. CASE new = Unset \/ new = old
  BY <1>1 DEF Changed
<1>2. CASE ~(new = Unset \/ new = old)
  <2>1. PICK e : e = [field |-> field, old |-> old, new |-> new]
    OBVIOUS
  <2>2. e \in Entry
    BY <1>2, <2>1 DEF Entry
  <2>3. Changed(field, old, new) = <<e>>
    BY <1>2, <2>1 DEF Changed
  <2>4. QED
    BY <2>2, <2>3
<1>3. QED
  BY <1>1, <1>2

(* update has found its issue, and computed the entries.                    *)
LEMMA UpdateReadStep ==
  ASSUME IssuesInv, NEW r \in Requests, NEW i \in Issues, NEW s \in Statuses \cup {Unset},
         NEW a \in Assignees \cup {Unset}, UpdateRead(r, i, s, a)
  PROVE  IssuesInv'
<1>1. TypeOK /\ rows[i] \in Row
  BY DEF IssuesInv, UpdateRead, Live
<1>2. PICK o : o = [NoOp EXCEPT !.kind = "update", !.issue = i, !.status = s, !.assignee = a]
  OBVIOUS
<1>3. o \in Ops /\ o.kind = "update" /\ o.issue = i
  <2>1. o = [kind |-> "update", issue |-> i, status |-> s, order |-> 0, assignee |-> a]
    BY <1>2 DEF NoOp
  <2>2. QED
    BY <2>1 DEF Ops
<1>4. Begin(r, o, "connect")
  BY <1>2 DEF UpdateRead
<1>5. PICK e : e = [rows[i] EXCEPT !.status = Or(s, rows[i].status), !.assignee = Or(a, rows[i].assignee)]
  OBVIOUS
<1>6. e \in Row
  <2>1. Or(s, rows[i].status) \in Statuses /\ Or(a, rows[i].assignee) \in Assignees
    BY <1>1, RowType DEF Or
  <2>2. QED
    BY <1>1, <1>5, <2>1 DEF Row
<1>7. entity' = [entity EXCEPT ![r] = e]
  BY <1>5 DEF UpdateRead
<1>8. PICK c : c = Changed("status", rows[i].status, s) \o Changed("assignee", rows[i].assignee, a)
  OBVIOUS
<1>9. c \in Seq(Entry)
  <2>1. Changed("status", rows[i].status, s) \in Seq(Entry)
    BY <1>1, RowType, ChangedType
  <2>2. Changed("assignee", rows[i].assignee, a) \in Seq(Entry)
    BY <1>1, RowType, ChangedType
  <2>3. QED
    BY <1>8, <2>1, <2>2
<1>10. entries' = [entries EXCEPT ![r] = c]
  BY <1>8 DEF UpdateRead
<1>11. entries' \in [Requests -> Seq(Entry)]
  BY <1>1, <1>9, <1>10 DEF TypeOK
<1>12. /\ entity' \in [Requests -> Row \cup {NoRow}] /\ entity'[r] \in Row
       /\ \A q \in Requests \ {r} : entity'[q] = entity[q]
  BY <1>1, <1>6, <1>7 DEF TypeOK
<1>13. QED
  BY <1>3, <1>4, <1>11, <1>12, BeginStep

(* move has found its issue.                                                *)
LEMMA MoveReadStep ==
  ASSUME IssuesInv, NEW r \in Requests, NEW i \in Issues, NEW s \in Statuses, NEW o \in Orders,
         MoveRead(r, i, s, o)
  PROVE  IssuesInv'
<1>1. TypeOK /\ rows[i] \in Row /\ o \in Int
  BY IssuesAssumption DEF IssuesInv, MoveRead, Live
<1>2. PICK p : p = [NoOp EXCEPT !.kind = "move", !.issue = i, !.status = s, !.order = o]
  OBVIOUS
<1>3. p \in Ops /\ p.kind = "move" /\ p.issue = i /\ p.status = s
  <2>1. p = [kind |-> "move", issue |-> i, status |-> s, order |-> o, assignee |-> Unset]
    BY <1>2 DEF NoOp
  <2>2. QED
    BY <1>1, <2>1 DEF Ops
<1>4. Begin(r, p, "connect") /\ UNCHANGED entries
  BY <1>2 DEF MoveRead
<1>5. PICK e : e = [rows[i] EXCEPT !.status = s, !.order = o]
  OBVIOUS
<1>6. e \in Row
  BY <1>1, <1>5 DEF Row
<1>7. entity' = [entity EXCEPT ![r] = e]
  BY <1>5 DEF MoveRead
<1>8. /\ entity' \in [Requests -> Row \cup {NoRow}] /\ entity'[r] \in Row
      /\ \A q \in Requests \ {r} : entity'[q] = entity[q]
      /\ entries' \in [Requests -> Seq(Entry)]
  BY <1>1, <1>4, <1>6, <1>7 DEF TypeOK
<1>9. QED
  BY <1>3, <1>4, <1>8, BeginStep

-----------------------------------------------------------------------------
(* Steps of a transaction.                                                  *)

(* What a step that writes into its transaction has to leave right.         *)
LEMMA WriteStep ==
  ASSUME IssuesInv, NEW r \in Requests, NEW step \in Steps, Goto(r, step), Quietly,
         UNCHANGED <<rows, log, op, entity, diff, entries, held, started>>,
         tx' \in [Requests -> [Issues -> Row \cup {NoRow}]], \A q \in Requests \ {r} : tx'[q] = tx[q],
         todo' \in [Requests -> [Issues -> Row \cup {NoRow}]], \A q \in Requests \ {r} : todo'[q] = todo[q],
         pc'[r] = step => StepRight(r)' /\ WritesRight(r)' /\ TodoRight(r)',
         RanksRight(r)',
         \A j \in Issues : tx'[r][j] # NoRow => tx[r][j] # NoRow \/ ~LockedFor(r, j)
  PROVE  IssuesInv'
<1>1. TypeOK
  BY DEF IssuesInv
<1>2. pc' \in [Requests -> Steps] /\ pc'[r] = step /\ \A q \in Requests \ {r} : pc'[q] = pc[q]
  BY <1>1 DEF Goto, TypeOK
<1>3. emitted' \in Events
  BY DEF Quietly, NoEvent, Events
<1>4. TypeOK'
  BY <1>1, <1>2, <1>3 DEF TypeOK
<1>5. RequestRight(r)'
  BY <1>2 DEF RequestRight
<1>6. QED
  BY <1>2, <1>4, <1>5, Frame

(* What save() writes: nothing, or a row of its own issue that no other     *)
(* transaction has written.                                                 *)
LEMMA SaveWriteEffect ==
  ASSUME IssuesInv, NEW r \in Requests, SaveWrite(r)
  PROVE  \/ tx' = tx
         \/ /\ ~LockedFor(r, op[r].issue)
            /\ \E x \in Row : tx' = [tx EXCEPT ![r] = [tx[r] EXCEPT ![op[r].issue] = x]]
<1>1. TypeOK /\ RequestRight(r) /\ pc[r] = "write"
  BY DEF IssuesInv, SaveWrite
<1>2. op[r].issue \in Issues /\ entity[r] \in Row
  BY <1>1 DEF RequestRight, StepRight
<1>3. tx \in [Requests -> [Issues -> Row \cup {NoRow}]]
  BY <1>1 DEF TypeOK
<1>4. CASE diff[r] = {"insert"}
  <2>1. tx' = [tx EXCEPT ![r][op[r].issue] = entity[r]]
    BY <1>4 DEF SaveWrite
  <2>2. ~LockedFor(r, op[r].issue)
    BY <1>4 DEF SaveWrite
  <2>3. QED
    BY <1>2, <1>3, <2>1, <2>2
<1>5. CASE diff[r] # {} /\ diff[r] # {"insert"} /\ Live(op[r].issue)
  <2>1. PICK x : x = Patched(rows[op[r].issue], entity[r], diff[r])
    OBVIOUS
  <2>2. x \in Row
    BY <1>2, <1>5, <2>1, PatchedType DEF Live
  <2>3. tx' = [tx EXCEPT ![r][op[r].issue] = x]
    BY <1>5, <2>1 DEF SaveWrite
  <2>4. ~LockedFor(r, op[r].issue)
    BY <1>5 DEF SaveWrite
  <2>5. QED
    BY <1>2, <1>3, <2>2, <2>3, <2>4
<1>6. CASE ~(diff[r] = {"insert"}) /\ ~(diff[r] # {} /\ diff[r] # {"insert"} /\ Live(op[r].issue))
  BY <1>6 DEF SaveWrite
<1>7. QED
  BY <1>4, <1>5, <1>6

(* save() has written.                                                      *)
LEMMA SaveWriteStep ==
  ASSUME IssuesInv, NEW r \in Requests, SaveWrite(r)
  PROVE  IssuesInv'
<1>1. /\ TypeOK /\ RequestRight(r) /\ pc[r] = "write" /\ Quietly
      /\ UNCHANGED <<rows, log, op, entity, diff, entries, todo, held, started>>
  BY DEF SaveWrite, IssuesInv
<1>2. op[r].issue \in Issues /\ op[r].kind \in {"update", "move"}
  BY <1>1 DEF RequestRight, StepRight
<1>3. PICK step : step = IF op[r].kind = "move" THEN "count" ELSE "log"
  OBVIOUS
<1>4. Goto(r, step) /\ step \in Steps
  BY <1>3 DEF SaveWrite, Steps
<1>5. \A j \in Issues : tx[r][j] = NoRow /\ todo[r][j] = NoRow
  BY <1>1, NothingWritten
<1>6. tx \in [Requests -> [Issues -> Row \cup {NoRow}]]
  BY <1>1 DEF TypeOK
<1>7. /\ tx' \in [Requests -> [Issues -> Row \cup {NoRow}]]
      /\ \A q \in Requests \ {r} : tx'[q] = tx[q]
      /\ \A j \in Issues : tx'[r][j] # NoRow => j = op[r].issue /\ ~LockedFor(r, j)
  <2>1. CASE tx' = tx
    BY <1>5, <1>6, <2>1
  <2>2. ASSUME ~LockedFor(r, op[r].issue),
               NEW x \in Row, tx' = [tx EXCEPT ![r] = [tx[r] EXCEPT ![op[r].issue] = x]]
        PROVE  <1>7!1 /\ <1>7!2 /\ <1>7!3
    BY <1>2, <1>5, <1>6, <2>2
  <2>3. QED
    BY <2>1, <2>2, SaveWriteEffect
<1>8. todo' \in [Requests -> [Issues -> Row \cup {NoRow}]]
  BY <1>1 DEF TypeOK
<1>9. ASSUME pc'[r] = step PROVE StepRight(r)' /\ WritesRight(r)' /\ TodoRight(r)'
  <2>1. StepRight(r)'
    BY <1>1, <1>3, <1>9 DEF RequestRight, StepRight
  <2>2. WritesRight(r)'
    BY <1>1, <1>3, <1>7, <1>9 DEF WritesRight
  <2>3. TodoRight(r)'
    BY <1>1, <1>5 DEF TodoRight
  <2>4. QED
    BY <2>1, <2>2, <2>3
<1>10. RanksRight(r)'
  BY <1>1, <1>5, <1>7 DEF RanksRight, Ranked
<1>11. QED
  BY <1>1, <1>4, <1>7, <1>8, <1>9, <1>10, WriteStep

(* The rebalance has ranked the column.                                     *)
LEMMA RebalanceSelectStep ==
  ASSUME IssuesInv, NEW r \in Requests, RebalanceSelect(r)
  PROVE  IssuesInv'
<1>1. /\ TypeOK /\ RequestRight(r) /\ pc[r] = "rank" /\ Quietly
      /\ UNCHANGED <<rows, log, op, entity, diff, entries, tx, held, started>>
  BY DEF RebalanceSelect, IssuesInv
<1>2. PICK column : column = InColumn(r, op[r].status)
  OBVIOUS
<1>3. PICK rank \in Rankings(r, column) :
        todo' = [todo EXCEPT ![r] = [i \in Issues |->
          IF i \in column THEN [View(r, i) EXCEPT !.order = rank[i] * One] ELSE NoRow]]
  BY ZenonT(60), <1>2 DEF RebalanceSelect
<1>4. PICK step : step = IF column = {} THEN "commit" ELSE "rebalance"
  OBVIOUS
<1>5. Goto(r, step) /\ step \in Steps
  BY <1>2, <1>4 DEF RebalanceSelect, Steps
<1>6. column \subseteq Issues /\ \A i \in column : View(r, i) \in Row
  BY <1>2 DEF InColumn
<1>7. \A i \in column : rank[i] \in 1..Cardinality(Issues) /\ \A j \in column : i # j => rank[i] # rank[j]
  <2>1. rank \in [column -> 1..Cardinality(column)] /\ \A i, j \in column : i # j => rank[i] # rank[j]
    BY DEF Rankings
  <2>2. Cardinality(column) \in Nat /\ Cardinality(Issues) \in Nat /\ Cardinality(column) <= Cardinality(Issues)
    BY <1>6, FS_Subset, FS_CardinalityType, IssuesAssumption
  <2>3. QED
    BY <2>1, <2>2
<1>8. PICK left : left = [i \in Issues |->
        IF i \in column THEN [View(r, i) EXCEPT !.order = rank[i] * One] ELSE NoRow]
  OBVIOUS
<1>9. \A i \in column : left[i] \in Row /\ left[i].order = rank[i] * One
  <2>1. ASSUME NEW i \in column PROVE left[i] \in Row /\ left[i].order = rank[i] * One
    <3>1. rank[i] * One \in Int
      BY <1>7, IssuesAssumption
    <3>2. PICK n \in Int : n = rank[i] * One
      BY <3>1
    <3>3. left[i] = [View(r, i) EXCEPT !.order = n]
      BY <1>6, <1>8, <3>2
    <3>4. View(r, i) \in Row
      BY <1>6
    <3>5. QED
      BY <3>2, <3>3, <3>4 DEF Row
  <2>2. QED
    BY <2>1
<1>10. left \in [Issues -> Row \cup {NoRow}] /\ \A i \in Issues : i \notin column => left[i] = NoRow
  BY <1>8, <1>9
<1>11. /\ todo' \in [Requests -> [Issues -> Row \cup {NoRow}]] /\ todo'[r] = left
       /\ \A q \in Requests \ {r} : todo'[q] = todo[q]
  BY <1>1, <1>3, <1>8, <1>10 DEF TypeOK
<1>12. \A j \in Issues : j # op[r].issue => tx[r][j] = NoRow
  BY <1>1, NothingWritten
<1>13. tx' \in [Requests -> [Issues -> Row \cup {NoRow}]]
  BY <1>1 DEF TypeOK
<1>14. ASSUME pc'[r] = step PROVE StepRight(r)' /\ WritesRight(r)' /\ TodoRight(r)'
  <2>1. StepRight(r)'
    BY <1>1, <1>4, <1>14 DEF RequestRight, StepRight
  <2>2. WritesRight(r)'
    BY <1>1, <1>4, <1>12, <1>14 DEF WritesRight
  <2>3. TodoRight(r)'
    BY <1>4, <1>10, <1>11, <1>14 DEF TodoRight
  <2>4. QED
    BY <2>1, <2>2, <2>3
<1>15. RanksRight(r)'
  <2>1. NoRow \notin Row /\ One \in Nat \ {0}
    BY IssuesAssumption
  <2>2. ASSUME NEW j \in Issues, Ranked(r, j)'
        PROVE  j \in column /\ Rank(r, j)' = rank[j] * One
    BY <1>1, <1>9, <1>10, <1>11, <1>12, <2>1, <2>2 DEF Ranked, Rank
  <2>3. ASSUME NEW j \in column, NEW k \in column, j # k
        PROVE  rank[j] * One # rank[k] * One
    <3>1. rank[j] \in Int /\ rank[k] \in Int /\ rank[j] # rank[k]
      BY <1>7, <2>3
    <3>2. ASSUME NEW x \in Int, NEW y \in Int, x # y PROVE x * One # y * One
      BY <2>1, <3>2
    <3>3. QED
      BY <3>1, <3>2
  <2>4. ASSUME NEW j \in Issues, Ranked(r, j)'
        PROVE  /\ Rank(r, j)' \in {n * One : n \in 1..Cardinality(Issues)}
               /\ \A k \in Issues : Ranked(r, k)' /\ k # j => Rank(r, k)' # Rank(r, j)'
    BY <1>7, <2>2, <2>3, <2>4
  <2>5. QED
    BY <2>4 DEF RanksRight
<1>16. QED
  BY <1>1, <1>5, <1>11, <1>13, <1>14, <1>15, WriteStep

(* What the rebalance writes: it takes a row off its list, and gives the    *)
(* row as it is now the order from the list, unless the row is gone.        *)
LEMMA RebalanceWriteEffect ==
  ASSUME IssuesInv, NEW r \in Requests, RebalanceWrite(r)
  PROVE  \E i \in Issues :
           /\ todo[r][i] # NoRow /\ ~LockedFor(r, i)
           /\ todo' = [todo EXCEPT ![r] = [todo[r] EXCEPT ![i] = NoRow]]
           /\ \/ tx' = tx /\ tx[r][i] = NoRow
              \/ \E x \in Row :
                   /\ tx' = [tx EXCEPT ![r] = [tx[r] EXCEPT ![i] = x]]
                   /\ View(r, i) \in Row /\ x.order = todo[r][i].order
                   /\ x.status = View(r, i).status /\ x.assignee = View(r, i).assignee
           /\ Goto(r, IF \A j \in Issues \ {i} : todo[r][j] = NoRow THEN "commit" ELSE "rebalance")
<1>1. TypeOK /\ pc[r] = "rebalance" /\ NoRow \notin Row
  BY IssuesAssumption DEF IssuesInv, RebalanceWrite
<1>2. Wants(r) = {i \in Issues : todo[r][i] # NoRow}
  BY <1>1 DEF Wants
<1>3. PICK i \in Wants(r) :
        /\ ~LockedFor(r, i)
        /\ tx' = IF View(r, i) \in Row
                 THEN [tx EXCEPT ![r][i] = Reordered(View(r, i), todo[r][i])] ELSE tx
        /\ todo' = [todo EXCEPT ![r][i] = NoRow]
        /\ Goto(r, IF Wants(r) = {i} THEN "commit" ELSE "rebalance")
  BY DEF RebalanceWrite
<1>4. i \in Issues /\ todo[r][i] # NoRow /\ todo[r] \in [Issues -> Row \cup {NoRow}]
  BY <1>1, <1>2, RequestType
<1>5. todo' = [todo EXCEPT ![r] = [todo[r] EXCEPT ![i] = NoRow]]
  BY <1>1, <1>3, <1>4 DEF TypeOK
<1>6. (Wants(r) = {i}) <=> \A j \in Issues \ {i} : todo[r][j] = NoRow
  BY <1>2, <1>4
<1>7. Goto(r, IF \A j \in Issues \ {i} : todo[r][j] = NoRow THEN "commit" ELSE "rebalance")
  BY <1>3, <1>6
<1>8. CASE View(r, i) \notin Row
  <2>1. tx' = tx
    BY <1>3, <1>8
  <2>2. tx[r][i] = NoRow
    BY <1>1, <1>4, <1>8, ViewType
  <2>3. QED
    BY <1>3, <1>4, <1>5, <1>7, <2>1, <2>2
<1>9. CASE View(r, i) \in Row
  <2>1. PICK x : x = Reordered(View(r, i), todo[r][i])
    OBVIOUS
  <2>2. todo[r][i].order \in Int
    BY <1>4, RowType
  <2>3. /\ x \in Row /\ x.order = todo[r][i].order
        /\ x.status = View(r, i).status /\ x.assignee = View(r, i).assignee
    <3>1. PICK n \in Int : n = todo[r][i].order
      BY <2>2
    <3>2. x = [View(r, i) EXCEPT !.order = n]
      BY <2>1, <3>1 DEF Reordered
    <3>3. PICK y \in Row : y = View(r, i)
      BY <1>9
    <3>4. x = [y EXCEPT !.order = n]
      BY <3>2, <3>3
    <3>5. x \in Row /\ x.order = n /\ x.status = y.status /\ x.assignee = y.assignee
      BY <3>1, <3>4 DEF Row
    <3>6. QED
      BY <3>1, <3>3, <3>5
  <2>4. tx' = [tx EXCEPT ![r] = [tx[r] EXCEPT ![i] = x]]
    BY <1>1, <1>3, <1>4, <1>9, <2>1 DEF TypeOK
  <2>5. QED
    BY <1>3, <1>4, <1>5, <1>7, <1>9, <2>3, <2>4
<1>10. QED
  BY <1>8, <1>9

(* The rebalance has written one row.                                       *)
LEMMA RebalanceWriteStep ==
  ASSUME IssuesInv, NEW r \in Requests, RebalanceWrite(r)
  PROVE  IssuesInv'
<1>1. /\ TypeOK /\ RequestRight(r) /\ pc[r] = "rebalance" /\ Quietly /\ NoRow \notin Row
      /\ UNCHANGED <<rows, log, op, entity, diff, entries, held, started>>
  BY IssuesAssumption DEF RebalanceWrite, IssuesInv
<1>2. PICK i \in Issues :
           /\ todo[r][i] # NoRow /\ ~LockedFor(r, i)
           /\ todo' = [todo EXCEPT ![r] = [todo[r] EXCEPT ![i] = NoRow]]
           /\ \/ tx' = tx /\ tx[r][i] = NoRow
              \/ \E x \in Row :
                   /\ tx' = [tx EXCEPT ![r] = [tx[r] EXCEPT ![i] = x]]
                   /\ View(r, i) \in Row /\ x.order = todo[r][i].order
                   /\ x.status = View(r, i).status /\ x.assignee = View(r, i).assignee
           /\ Goto(r, IF \A j \in Issues \ {i} : todo[r][j] = NoRow THEN "commit" ELSE "rebalance")
  BY RebalanceWriteEffect
<1>3. PICK step : step = IF \A j \in Issues \ {i} : todo[r][j] = NoRow THEN "commit" ELSE "rebalance"
  OBVIOUS
<1>4. Goto(r, step) /\ step \in Steps /\ step \in {"commit", "rebalance"}
  BY <1>2, <1>3 DEF Steps
<1>5. /\ todo \in [Requests -> [Issues -> Row \cup {NoRow}]]
      /\ tx \in [Requests -> [Issues -> Row \cup {NoRow}]]
  BY <1>1 DEF TypeOK
<1>6. /\ todo' \in [Requests -> [Issues -> Row \cup {NoRow}]]
      /\ \A q \in Requests \ {r} : todo'[q] = todo[q]
      /\ todo'[r][i] = NoRow /\ \A j \in Issues \ {i} : todo'[r][j] = todo[r][j]
  BY <1>2, <1>5
<1>7. /\ tx' \in [Requests -> [Issues -> Row \cup {NoRow}]]
      /\ \A q \in Requests \ {r} : tx'[q] = tx[q]
      /\ \A j \in Issues \ {i} : tx'[r][j] = tx[r][j]
      /\ tx'[r][i] # NoRow =>
           /\ View(r, i) \in Row /\ tx'[r][i].order = todo[r][i].order
           /\ tx'[r][i].status = View(r, i).status /\ tx'[r][i].assignee = View(r, i).assignee
  <2>1. CASE tx' = tx /\ tx[r][i] = NoRow
    BY <1>5, <2>1
  <2>2. ASSUME NEW x \in Row, tx' = [tx EXCEPT ![r] = [tx[r] EXCEPT ![i] = x]],
               View(r, i) \in Row, x.order = todo[r][i].order,
               x.status = View(r, i).status, x.assignee = View(r, i).assignee
        PROVE  <1>7!1 /\ <1>7!2 /\ <1>7!3 /\ <1>7!4
    <3>1. <1>7!1 /\ <1>7!2 /\ <1>7!3 /\ tx'[r][i] = x
      BY <1>5, <2>2
    <3>2. QED
      BY <2>2, <3>1
  <2>3. QED
    BY <1>2, <2>1, <2>2
<1>8. ASSUME pc'[r] = step PROVE StepRight(r)' /\ WritesRight(r)' /\ TodoRight(r)'
  <2>1. StepRight(r)'
    BY <1>1, <1>4, <1>8 DEF RequestRight, StepRight
  <2>2. WritesRight(r)'
    <3>1. SUFFICES ASSUME NEW j \in Issues, tx'[r][j] # NoRow, j # op[r].issue
                   PROVE  /\ rows[j] \in Row
                          /\ tx'[r][j].status = rows[j].status /\ tx'[r][j].assignee = rows[j].assignee
      BY <1>1, <1>4, <1>8 DEF WritesRight
    <3>2. tx[r][j] # NoRow => /\ rows[j] \in Row
                              /\ tx[r][j].status = rows[j].status /\ tx[r][j].assignee = rows[j].assignee
      BY <1>1, <3>1 DEF RequestRight, WritesRight
    <3>3. CASE j # i
      BY <1>7, <3>1, <3>2, <3>3
    <3>4. CASE j = i /\ tx[r][i] = NoRow
      <4>1. View(r, i) = rows[i]
        BY <1>1, <3>4, ViewType
      <4>2. QED
        BY <1>7, <3>1, <3>4, <4>1
    <3>5. CASE j = i /\ tx[r][i] # NoRow
      <4>1. View(r, i) = tx[r][i]
        BY <1>1, <3>5, ViewType
      <4>2. QED
        BY <1>7, <3>1, <3>2, <3>5, <4>1
    <3>6. QED
      BY <3>3, <3>4, <3>5
  <2>3. TodoRight(r)'
    BY <1>3, <1>6, <1>8 DEF TodoRight
  <2>4. QED
    BY <2>1, <2>2, <2>3
<1>9. RanksRight(r)'
  <2>1. ASSUME NEW j \in Issues, Ranked(r, j)'
        PROVE  Ranked(r, j) /\ Rank(r, j)' = Rank(r, j)
    <3>1. CASE j = i
      BY <1>1, <1>2, <1>6, <1>7, <2>1, <3>1 DEF Ranked, Rank
    <3>2. CASE j # i
      BY <1>1, <1>6, <1>7, <2>1, <3>2 DEF Ranked, Rank
    <3>3. QED
      BY <3>1, <3>2
  <2>2. RanksRight(r)
    BY <1>1 DEF RequestRight
  <2>3. ASSUME NEW j \in Issues, Ranked(r, j)'
        PROVE  /\ Rank(r, j)' \in {n * One : n \in 1..Cardinality(Issues)}
               /\ \A k \in Issues : Ranked(r, k)' /\ k # j => Rank(r, k)' # Rank(r, j)'
    BY <2>1, <2>2, <2>3 DEF RanksRight
  <2>4. QED
    BY <2>3 DEF RanksRight
<1>10. \A j \in Issues : tx'[r][j] # NoRow => tx[r][j] # NoRow \/ ~LockedFor(r, j)
  BY <1>2, <1>7
<1>11. QED
  BY <1>1, <1>4, <1>6, <1>7, <1>8, <1>9, <1>10, WriteStep

-----------------------------------------------------------------------------
(* Commits.                                                                 *)

(* What a step that commits has to leave right.                             *)
LEMMA CommitStep ==
  ASSUME IssuesInv, NEW r \in Requests, Goto(r, "emit"), Quietly,
         UNCHANGED <<entity, diff, entries, todo, started>>,
         rows' \in [Issues -> Row \cup {NoRow, Removed}], log' \in [Issues -> Seq(Entry)],
         op' \in [Requests -> Ops], \A q \in Requests \ {r} : op'[q] = op[q],
         tx' \in [Requests -> [Issues -> Row \cup {NoRow}]], \A q \in Requests \ {r} : tx'[q] = tx[q],
         held' \in SUBSET Requests,
         op'[r].kind = op[r].kind, op[r].kind # "none", op'[r].status = op[r].status,
         op'[r].issue \in Issues, pc[r] # "rebalance",
         \A j \in Issues : tx'[r][j] = NoRow,
         \A q \in Requests \ {r}, j \in Issues : tx[q][j] # NoRow /\ j # op[q].issue => rows'[j] = rows[j]
  PROVE  IssuesInv'
<1>1. TypeOK /\ RequestRight(r)
  BY DEF IssuesInv
<1>2. pc' \in [Requests -> Steps] /\ pc'[r] = "emit" /\ \A q \in Requests \ {r} : pc'[q] = pc[q]
  BY <1>1 DEF Goto, TypeOK, Steps
<1>3. emitted' \in Events
  BY DEF Quietly, NoEvent, Events
<1>4. TypeOK'
  BY <1>1, <1>2, <1>3 DEF TypeOK
<1>5. op[r].kind \in {"create", "update", "move", "remove"}
  BY <1>1, RequestType
<1>6. StepRight(r)'
  BY <1>1, <1>2, <1>5 DEF RequestRight, StepRight
<1>7. \A j \in Issues : tx'[r][j] = NoRow /\ todo'[r][j] = NoRow
  BY <1>1, NothingWritten
<1>8. RequestRight(r)'
  BY <1>6, <1>7, NothingToRank
<1>9. QED
  BY <1>2, <1>4, <1>7, <1>8, Frame

(* What a transaction commits is what it has written; no other transaction  *)
(* has written these rows.                                                  *)
LEMMA MergedRows ==
  ASSUME IssuesInv, NEW r \in Requests, rows' = Merged(r)
  PROVE  /\ rows' \in [Issues -> Row \cup {NoRow, Removed}]
         /\ \A j \in Issues : rows'[j] = View(r, j)
         /\ \A q \in Requests \ {r}, j \in Issues : tx[q][j] # NoRow => rows'[j] = rows[j]
<1>1. TypeOK
  BY DEF IssuesInv
<1>2. \A j \in Issues : rows'[j] = View(r, j) /\ View(r, j) \in Row \cup {NoRow, Removed}
  BY <1>1, ViewType DEF Merged
<1>3. rows' \in [Issues -> Row \cup {NoRow, Removed}]
  BY <1>2 DEF Merged
<1>4. ASSUME NEW q \in Requests \ {r}, NEW j \in Issues, tx[q][j] # NoRow PROVE rows'[j] = rows[j]
  <2>1. tx[r][j] = NoRow
    BY <1>4 DEF IssuesInv, LocksRight
  <2>2. QED
    BY <1>1, <1>2, <2>1, ViewType
<1>5. QED
  BY <1>2, <1>3, <1>4

(* create has inserted its issue, under an id that nobody has used.         *)
LEMMA CreateInsertStep ==
  ASSUME IssuesInv, NEW r \in Requests, CreateInsert(r)
  PROVE  IssuesInv'
<1>1. /\ TypeOK /\ RequestRight(r) /\ pc[r] = "insert" /\ Quietly /\ Goto(r, "emit") /\ NoRow \notin Row
      /\ UNCHANGED <<log, entity, diff, entries, todo, tx, held, started>>
  BY IssuesAssumption DEF CreateInsert, IssuesInv
<1>2. PICK i \in Issues : /\ rows[i] = NoRow /\ rows' = [rows EXCEPT ![i] = entity[r]]
                          /\ op' = [op EXCEPT ![r].issue = i]
  BY DEF CreateInsert
<1>3. op[r] \in Ops /\ op[r].kind = "create" /\ entity[r] \in Row
  BY <1>1, RequestType DEF RequestRight, StepRight
<1>4. rows' \in [Issues -> Row \cup {NoRow, Removed}] /\ \A j \in Issues \ {i} : rows'[j] = rows[j]
  BY <1>1, <1>2, <1>3 DEF TypeOK
<1>5. PICK o : o = [op[r] EXCEPT !.issue = i]
  OBVIOUS
<1>6. o \in Ops /\ o.kind = "create" /\ o.issue = i /\ o.status = op[r].status
  BY <1>3, <1>5 DEF Ops
<1>7. op' = [op EXCEPT ![r] = o]
  BY <1>1, <1>2, <1>5 DEF TypeOK
<1>8. op' \in [Requests -> Ops] /\ op'[r] = o /\ \A q \in Requests \ {r} : op'[q] = op[q]
  BY <1>1, <1>6, <1>7 DEF TypeOK
<1>9. ASSUME NEW q \in Requests \ {r}, NEW j \in Issues, tx[q][j] # NoRow, j # op[q].issue
      PROVE  rows'[j] = rows[j]
  <2>1. rows[j] \in Row
    BY <1>9 DEF IssuesInv, RequestRight, WritesRight
  <2>2. QED
    BY <1>1, <1>2, <1>4, <2>1
<1>10. \A j \in Issues : tx'[r][j] = NoRow
  BY <1>1, NothingWritten
<1>11. /\ log' \in [Issues -> Seq(Entry)] /\ held' \in SUBSET Requests
       /\ tx' \in [Requests -> [Issues -> Row \cup {NoRow}]] /\ \A q \in Requests \ {r} : tx'[q] = tx[q]
  BY <1>1 DEF TypeOK
<1>12. QED
  BY <1>1, <1>3, <1>4, <1>6, <1>8, <1>9, <1>10, <1>11, CommitStep

(* A transaction that has ended has written nothing.                        *)
LEMMA TransactionEnds ==
  ASSUME TypeOK, NEW r \in Requests, tx' = [tx EXCEPT ![r] = NoneIn]
  PROVE  /\ tx' \in [Requests -> [Issues -> Row \cup {NoRow}]]
         /\ \A q \in Requests \ {r} : tx'[q] = tx[q]
         /\ \A j \in Issues : tx'[r][j] = NoRow
<1>1. NoneIn \in [Issues -> Row \cup {NoRow}] /\ \A j \in Issues : NoneIn[j] = NoRow
  BY DEF NoneIn
<1>2. tx \in [Requests -> [Issues -> Row \cup {NoRow}]]
  BY DEF TypeOK
<1>3. tx'[r] = NoneIn
  BY <1>2
<1>4. QED
  BY <1>1, <1>2, <1>3

(* update has committed its row and its entries.                            *)
LEMMA UpdateCommitStep ==
  ASSUME IssuesInv, NEW r \in Requests, UpdateCommit(r)
  PROVE  IssuesInv'
<1>1. /\ TypeOK /\ RequestRight(r) /\ pc[r] = "log" /\ Quietly /\ Goto(r, "emit") /\ rows' = Merged(r)
      /\ log' = [log EXCEPT ![op[r].issue] = log[op[r].issue] \o entries[r]]
      /\ tx' = [tx EXCEPT ![r] = NoneIn]
      /\ UNCHANGED <<op, entity, diff, entries, todo, held, started>>
  BY DEF UpdateCommit, IssuesInv
<1>2. op[r].kind = "update" /\ op[r].issue \in Issues /\ entries[r] \in Seq(Entry)
  BY <1>1, RequestType DEF RequestRight, StepRight
<1>3. PICK l : l = log[op[r].issue] \o entries[r]
  OBVIOUS
<1>4. l \in Seq(Entry)
  <2>1. log[op[r].issue] \in Seq(Entry)
    BY <1>1, <1>2 DEF TypeOK
  <2>2. QED
    BY <1>2, <1>3, <2>1
<1>5. log' \in [Issues -> Seq(Entry)]
  BY <1>1, <1>3, <1>4 DEF TypeOK
<1>6. op' \in [Requests -> Ops] /\ held' \in SUBSET Requests
  BY <1>1 DEF TypeOK
<1>7. /\ rows' \in [Issues -> Row \cup {NoRow, Removed}]
      /\ \A q \in Requests \ {r}, j \in Issues : tx[q][j] # NoRow => rows'[j] = rows[j]
  BY <1>1, MergedRows
<1>8. /\ tx' \in [Requests -> [Issues -> Row \cup {NoRow}]] /\ \A q \in Requests \ {r} : tx'[q] = tx[q]
      /\ \A j \in Issues : tx'[r][j] = NoRow
  BY <1>1, TransactionEnds
<1>9. QED
  BY <1>1, <1>2, <1>5, <1>6, <1>7, <1>8, CommitStep

(* move has committed the rows it has written.                              *)
LEMMA MoveCommitStep ==
  ASSUME IssuesInv, NEW r \in Requests, MoveCommit(r)
  PROVE  IssuesInv'
<1>1. /\ TypeOK /\ RequestRight(r) /\ pc[r] = "commit" /\ Quietly /\ Goto(r, "emit") /\ rows' = Merged(r)
      /\ tx' = [tx EXCEPT ![r] = NoneIn] /\ held' = held \ {r}
      /\ UNCHANGED <<log, op, entity, diff, entries, todo, started>>
  BY DEF MoveCommit, IssuesInv
<1>2. op[r].kind = "move" /\ op[r].issue \in Issues
  BY <1>1 DEF RequestRight, StepRight
<1>3. log' \in [Issues -> Seq(Entry)] /\ op' \in [Requests -> Ops] /\ held' \in SUBSET Requests
  BY <1>1 DEF TypeOK
<1>4. /\ rows' \in [Issues -> Row \cup {NoRow, Removed}]
      /\ \A q \in Requests \ {r}, j \in Issues : tx[q][j] # NoRow => rows'[j] = rows[j]
  BY <1>1, MergedRows
<1>5. /\ tx' \in [Requests -> [Issues -> Row \cup {NoRow}]] /\ \A q \in Requests \ {r} : tx'[q] = tx[q]
      /\ \A j \in Issues : tx'[r][j] = NoRow
  BY <1>1, TransactionEnds
<1>6. /\ Goto(r, "emit") /\ Quietly /\ UNCHANGED <<entity, diff, entries, todo, started>>
      /\ \A q \in Requests \ {r} : op'[q] = op[q]
      /\ op'[r].kind = op[r].kind /\ op[r].kind # "none" /\ op'[r].status = op[r].status
      /\ op'[r].issue \in Issues /\ pc[r] # "rebalance"
  BY <1>1, <1>2
<1>7. QED
  BY <1>3, <1>4, <1>5, <1>6, CommitStep

(* remove has deleted its row, which no open transaction has written.       *)
LEMMA RemoveDeleteStep ==
  ASSUME IssuesInv, NEW r \in Requests, RemoveDelete(r)
  PROVE  IssuesInv'
<1>1. /\ TypeOK /\ RequestRight(r) /\ pc[r] = "delete" /\ Quietly /\ Goto(r, "emit")
      /\ ~LockedFor(r, op[r].issue) /\ rows' = [rows EXCEPT ![op[r].issue] = Removed]
      /\ log' = [log EXCEPT ![op[r].issue] = <<>>] /\ held' = held \ {r}
      /\ UNCHANGED <<op, entity, diff, entries, todo, tx, started>>
  BY DEF RemoveDelete, IssuesInv
<1>2. op[r].kind = "remove" /\ op[r].issue \in Issues
  BY <1>1 DEF RequestRight, StepRight
<1>3. /\ log' \in [Issues -> Seq(Entry)] /\ op' \in [Requests -> Ops] /\ held' \in SUBSET Requests
      /\ rows' \in [Issues -> Row \cup {NoRow, Removed}]
      /\ \A j \in Issues : j # op[r].issue => rows'[j] = rows[j]
      /\ tx' \in [Requests -> [Issues -> Row \cup {NoRow}]] /\ \A q \in Requests \ {r} : tx'[q] = tx[q]
  <2>1. /\ rows' \in [Issues -> Row \cup {NoRow, Removed}]
        /\ \A j \in Issues : j # op[r].issue => rows'[j] = rows[j]
    BY <1>1, <1>2 DEF TypeOK
  <2>2. log' \in [Issues -> Seq(Entry)]
    <3>1. <<>> \in Seq(Entry) /\ log \in [Issues -> Seq(Entry)]
      BY <1>1 DEF TypeOK
    <3>2. QED
      BY <1>1, <3>1
  <2>3. QED
    BY <1>1, <2>1, <2>2 DEF TypeOK
<1>4. \A q \in Requests \ {r}, j \in Issues : tx[q][j] # NoRow => rows'[j] = rows[j]
  BY <1>1, <1>3 DEF LockedFor
<1>5. \A j \in Issues : tx'[r][j] = NoRow
  BY <1>1, NothingWritten
<1>6. /\ Goto(r, "emit") /\ Quietly /\ UNCHANGED <<entity, diff, entries, todo, started>>
      /\ \A q \in Requests \ {r} : op'[q] = op[q]
      /\ op'[r].kind = op[r].kind /\ op[r].kind # "none" /\ op'[r].status = op[r].status
      /\ op'[r].issue \in Issues /\ pc[r] # "rebalance"
  BY <1>1, <1>2
<1>7. QED
  BY <1>3, <1>4, <1>5, <1>6, CommitStep

-----------------------------------------------------------------------------
(* The invariant.                                                           *)

(* To begin with no request is under way.                                   *)
LEMMA IssuesInit ==
  ASSUME Init
  PROVE  IssuesInv
<1>1. NoOp \in Ops /\ NoOp.kind = "none" /\ NoneIn \in [Issues -> Row \cup {NoRow}] /\ \A j \in Issues : NoneIn[j] = NoRow
  BY DEF NoOp, Ops, NoneIn
<1>2. /\ rows \in [Issues -> Row \cup {NoRow, Removed}] /\ log \in [Issues -> Seq(Entry)]
      /\ pc \in [Requests -> Steps] /\ op \in [Requests -> Ops] /\ entity \in [Requests -> Row \cup {NoRow}]
  BY <1>1, IssuesAssumption DEF Init, Steps
<1>3. /\ diff \in [Requests -> SUBSET (Columns \cup {"insert"})] /\ entries \in [Requests -> Seq(Entry)]
      /\ tx \in [Requests -> [Issues -> Row \cup {NoRow}]] /\ todo \in [Requests -> [Issues -> Row \cup {NoRow}]]
      /\ held \in SUBSET Requests /\ started \in Nat
  BY <1>1 DEF Init
<1>4. emitted \in Events
  BY DEF Init, NoEvent, Events
<1>5. TypeOK
  BY <1>2, <1>3, <1>4 DEF TypeOK
<1>6. \A r \in Requests, j \in Issues : tx[r][j] = NoRow /\ todo[r][j] = NoRow
  BY <1>1 DEF Init
<1>7. ASSUME NEW r \in Requests PROVE RequestRight(r)
  <2>1. StepRight(r)
    BY <1>1 DEF Init, StepRight
  <2>2. QED
    BY <1>6, <2>1 DEF RequestRight, WritesRight, TodoRight, RanksRight, Ranked
<1>8. LocksRight
  BY <1>6 DEF LocksRight
<1>9. QED
  BY <1>5, <1>7, <1>8 DEF IssuesInv

(* Every step leaves the invariant.                                         *)
LEMMA IssuesNext ==
  ASSUME IssuesInv, [Next]_vars
  PROVE  IssuesInv'
<1>1. CASE UNCHANGED vars
  BY <1>1 DEF vars, reqVars, IssuesInv, TypeOK, LocksRight, RequestRight, StepRight, WritesRight, TodoRight,
              RanksRight, Ranked, Rank
<1>2. ASSUME NEW r \in Requests, Arrive(r) PROVE IssuesInv'
  BY <1>2, CreateReadMaxStep, RemoveReadStep, UpdateReadStep, MoveReadStep DEF Arrive
<1>3. ASSUME NEW r \in Requests, Proceed(r) PROVE IssuesInv'
  BY <1>3, ConnectStep, SaveSelectStep, SaveWriteStep, DatabaseErrorStep, CreateInsertStep, UpdateCommitStep,
     UpdateRefetchStep, MoveCountStep, RebalanceSelectStep, RebalanceWriteStep, MoveCommitStep,
     RemoveDeleteStep, EmitStep DEF Proceed
<1>4. QED
  BY <1>1, <1>2, <1>3 DEF Next

(* The invariant holds throughout.                                          *)
THEOREM RequestsInOrder == Spec => []IssuesInv
<1>1. Init => IssuesInv
  BY IssuesInit
<1>2. IssuesInv /\ [Next]_vars => IssuesInv'
  BY IssuesNext
<1>3. QED
  BY <1>1, <1>2, PTL DEF Spec

(* Whatever the requests do to each other, the service's rows, transactions *)
(* and events are well formed: what is committed for an issue is a row, a   *)
(* placeholder never reaches the table, no update of a missing row is one.  *)
THEOREM IssuesTyped == Spec => []TypeOK
<1>1. IssuesInv => TypeOK
  BY DEF IssuesInv
<1>2. QED
  BY <1>1, RequestsInOrder, PTL

-----------------------------------------------------------------------------
(* What a commit does to the rows.                                          *)

(* A commit changes its own issue, and of others the order only, to the     *)
(* ranks of a rebalance.                                                    *)
LEMMA CommitOnlyReorders ==
  ASSUME IssuesInv, NEW r \in Requests, pc[r] \in {"log", "commit"}, rows' = Merged(r),
         NEW j \in Issues, j # op[r].issue, rows'[j] # rows[j]
  PROVE  /\ pc[r] = "commit" /\ rows[j] \in Row /\ rows'[j] \in Row
         /\ rows'[j].status = rows[j].status /\ rows'[j].assignee = rows[j].assignee
         /\ Ranked(r, j) /\ rows'[j].order = Rank(r, j)
<1>1. TypeOK /\ RequestRight(r)
  BY DEF IssuesInv
<1>2. rows'[j] = View(r, j)
  BY DEF Merged
<1>3. tx[r][j] # NoRow
  BY <1>1, <1>2, ViewType
<1>4. rows'[j] = tx[r][j] /\ rows'[j] \in Row
  BY <1>1, <1>2, <1>3, ViewType
<1>5. todo[r][j] = NoRow
  BY <1>1, NothingWritten
<1>6. /\ pc[r] = "commit" /\ rows[j] \in Row
      /\ tx[r][j].status = rows[j].status /\ tx[r][j].assignee = rows[j].assignee
  BY <1>1, <1>3 DEF RequestRight, WritesRight
<1>7. QED
  BY <1>3, <1>4, <1>5, <1>6 DEF Ranked, Rank

(* The rows change by an insert, a transaction's commit and a delete only.  *)
LEMMA RowsChange ==
  ASSUME IssuesInv, [Next]_vars, rows' # rows
  PROVE  \E r \in Requests : CreateInsert(r) \/ UpdateCommit(r) \/ MoveCommit(r) \/ RemoveDelete(r)
<1>1. ~UNCHANGED vars
  BY DEF vars
<1>2. PICK r \in Requests : Arrive(r) \/ Proceed(r)
  BY <1>1 DEF Next
<1>3. ~Arrive(r)
  <2>1. ASSUME NEW o, NEW step, Begin(r, o, step) PROVE FALSE
    BY <2>1 DEF Begin
  <2>2. QED
    BY <2>1 DEF Arrive, CreateReadMax, RemoveRead, UpdateRead, MoveRead
<1>4. /\ ~Connect(r) /\ ~SaveSelect(r) /\ ~SaveWrite(r) /\ ~DatabaseError(r) /\ ~UpdateRefetch(r)
      /\ ~MoveCount(r) /\ ~RebalanceSelect(r) /\ ~RebalanceWrite(r) /\ ~Emit(r)
  BY DEF Connect, SaveSelect, SaveWrite, DatabaseError, Fail, UpdateRefetch, MoveCount, RebalanceSelect,
         RebalanceWrite, Emit
<1>5. QED
  BY <1>2, <1>3, <1>4 DEF Proceed

(* A step leaves the status and the assignee of every issue alone, unless a *)
(* request for that very issue commits with it.                             *)
LEMMA OthersKeepTheirColumn ==
  ASSUME IssuesInv, [Next]_vars, NEW i \in Issues, Live(i), rows'[i] \in Row,
         ~\E r \in Requests : op[r].issue = i /\ pc'[r] = "emit" /\ pc[r] # "emit"
  PROVE  rows'[i].status = rows[i].status /\ rows'[i].assignee = rows[i].assignee
<1>1. CASE rows' = rows
  BY <1>1
<1>2. CASE rows' # rows
  <2>1. PICK r \in Requests : CreateInsert(r) \/ UpdateCommit(r) \/ MoveCommit(r) \/ RemoveDelete(r)
    BY <1>2, RowsChange
  <2>2. TypeOK /\ RequestRight(r) /\ rows[i] \in Row /\ NoRow \notin Row
    BY IssuesAssumption DEF IssuesInv, Live
  <2>3. CASE CreateInsert(r)
    <3>1. PICK j \in Issues : rows[j] = NoRow /\ rows' = [rows EXCEPT ![j] = entity[r]]
      BY <2>3 DEF CreateInsert
    <3>2. QED
      BY <2>2, <3>1 DEF TypeOK
  <2>4. CASE UpdateCommit(r) \/ MoveCommit(r)
    <3>1. pc[r] \in {"log", "commit"} /\ rows' = Merged(r) /\ Goto(r, "emit")
      BY <2>4 DEF UpdateCommit, MoveCommit
    <3>2. pc'[r] = "emit" /\ pc[r] # "emit"
      BY <2>2, <3>1 DEF Goto, TypeOK
    <3>3. i # op[r].issue
      BY <3>2
    <3>4. QED
      BY <3>1, <3>3, CommitOnlyReorders
  <2>5. CASE RemoveDelete(r)
    <3>1. pc[r] = "delete" /\ rows' = [rows EXCEPT ![op[r].issue] = Removed] /\ Goto(r, "emit")
      BY <2>5 DEF RemoveDelete
    <3>2. pc'[r] = "emit" /\ pc[r] # "emit"
      BY <2>2, <3>1 DEF Goto, TypeOK
    <3>3. i # op[r].issue
      BY <3>2
    <3>4. QED
      BY <2>2, <3>1, <3>3 DEF TypeOK
  <2>6. QED
    BY <2>1, <2>3, <2>4, <2>5
<1>3. QED
  BY <1>1, <1>2

(* A rebalance never undoes what others did to the issues it renumbers,     *)
(* however many requests overlap and wherever their transactions wait.      *)
THEOREM RebalanceKeepsOthersWork == Spec => RebalanceMovesOnly
<1>1. IssuesInv /\ [Next]_vars =>
        [\A i \in Issues :
           Live(i) /\ rows'[i] \in Row /\ ~(\E r \in Requests : op[r].issue = i /\ pc'[r] = "emit" /\ pc[r] # "emit") =>
             rows'[i].status = rows[i].status /\ rows'[i].assignee = rows[i].assignee]_vars
  BY OthersKeepTheirColumn
<1>2. QED
  BY <1>1, RequestsInOrder, PTL DEF Spec, RebalanceMovesOnly

-----------------------------------------------------------------------------
(* The rows promise what IssueRows says.                                    *)

Place == [status : Statuses, order : Int]

PlaceOf(row) == IF row \in Row THEN [status |-> row.status, order |-> row.order] ELSE NoRow

(* The board shows where each issue is.                                     *)
LEMMA BoardType ==
  ASSUME TypeOK, TypeOK'
  PROVE  /\ Board \in [Issues -> Place \cup {NoRow}] /\ Board' \in [Issues -> Place \cup {NoRow}]
         /\ \A i \in Issues : Board[i] = PlaceOf(rows[i]) /\ Board'[i] = PlaceOf(rows'[i])
         /\ \A row \in Row : /\ PlaceOf(row) \in Place
                             /\ PlaceOf(row).status = row.status /\ PlaceOf(row).order = row.order
<1>1. \A row \in Row : /\ PlaceOf(row) \in Place
                       /\ PlaceOf(row).status = row.status /\ PlaceOf(row).order = row.order
  BY RowType DEF PlaceOf, Place
<1>2. \A row : PlaceOf(row) \in Place \cup {NoRow}
  BY <1>1 DEF PlaceOf
<1>3. Board = [i \in Issues |-> PlaceOf(rows[i])] /\ Board' = [i \in Issues |-> PlaceOf(rows'[i])]
  BY DEF Board, Live, PlaceOf
<1>4. QED
  BY <1>1, <1>2, <1>3

(* A write of issue x, in the words of IssueRows.                           *)
LEMMA WriteOf ==
  ASSUME TypeOK, TypeOK', NEW x \in Issues, Board'[x] \in Place,
         \A j \in Issues \ {x} : Board'[j] # Board[j] =>
           /\ Board[j] \in Place /\ Board'[j] \in Place /\ Board'[j].status = Board[j].status
           /\ Board'[j].order \in {n * One : n \in 1..Cardinality(Issues)}
           /\ \A k \in Issues \ {x} : k # j /\ Board'[k] # Board[k] => Board'[k].order # Board'[j].order
  PROVE  Rows!Next
<1>1. Board' \in [Issues -> Place \cup {NoRow}]
  BY BoardType
<1>2. \A j \in Rows!Renumbered(x) : j \in Issues \ {x} /\ Board'[j] # Board[j]
  BY DEF Rows!Renumbered
<1>3. Rows!Card = Place /\ Rows!Ranks = {n * One : n \in 1..Cardinality(Issues)}
  BY Zenon DEF Rows!Card, Place, Rows!Ranks, Rows!Cardinality, Cardinality
<1>4. ASSUME NEW j \in Rows!Renumbered(x)
      PROVE  /\ Board[j] \in Place /\ Board'[j] \in Place
             /\ Board'[j].status = Board[j].status
             /\ Board'[j].order \in {n * One : n \in 1..Cardinality(Issues)}
             /\ \A k \in Rows!Renumbered(x) \ {j} : Board'[k].order # Board'[j].order
  BY <1>2, <1>4
<1>5. Rows!Write(x)
  BY <1>1, <1>3, <1>4 DEF Rows!Write
<1>6. QED
  BY <1>5 DEF Rows!Next

(* A write of an issue that renumbers no other.                             *)
LEMMA WriteAlone ==
  ASSUME TypeOK, TypeOK', NEW x \in Issues, rows'[x] \in Row,
         \A j \in Issues \ {x} : rows'[j] = rows[j]
  PROVE  Rows!Next
<1>1. Board'[x] \in Place /\ \A j \in Issues \ {x} : Board'[j] = Board[j]
  BY BoardType
<1>2. QED
  BY <1>1, WriteOf

(* What a transaction commits is one write of an issue: its own or, when it *)
(* has nothing to write there, one of those it renumbers; or nothing.       *)
LEMMA TransactionWrites ==
  ASSUME IssuesInv, TypeOK', NEW r \in Requests, pc[r] \in {"log", "commit"}, rows' = Merged(r)
  PROVE  Rows!Next \/ Board' = Board
<1>1. TypeOK /\ RequestRight(r) /\ op[r].issue \in Issues
  BY DEF IssuesInv, RequestRight, StepRight
<1>2. PICK x : x = op[r].issue
  OBVIOUS
<1>3. ASSUME NEW j \in Issues \ {x}, Board'[j] # Board[j]
      PROVE  /\ Board[j] \in Place /\ Board'[j] \in Place /\ Board'[j].status = Board[j].status
             /\ Ranked(r, j) /\ Board'[j].order = Rank(r, j)
  <2>1. Board[j] = PlaceOf(rows[j]) /\ Board'[j] = PlaceOf(rows'[j])
    BY <1>1, <1>3, BoardType
  <2>2. rows'[j] # rows[j]
    BY <1>3, <2>1
  <2>3. /\ rows[j] \in Row /\ rows'[j] \in Row /\ rows'[j].status = rows[j].status
        /\ Ranked(r, j) /\ rows'[j].order = Rank(r, j)
    BY <1>2, <1>3, <2>2, CommitOnlyReorders
  <2>4. QED
    BY <1>1, <2>1, <2>3, BoardType
<1>4. RanksRight(r)
  BY <1>1 DEF RequestRight
<1>5. ASSUME NEW j \in Issues \ {x}, Board'[j] # Board[j]
      PROVE  /\ Board'[j].order \in {n * One : n \in 1..Cardinality(Issues)}
             /\ \A k \in Issues \ {x} : k # j /\ Board'[k] # Board[k] => Board'[k].order # Board'[j].order
  <2>1. Ranked(r, j) /\ Board'[j].order = Rank(r, j)
    BY <1>3, <1>5
  <2>2. Rank(r, j) \in {n * One : n \in 1..Cardinality(Issues)}
    BY <1>4, <1>5, <2>1 DEF RanksRight
  <2>3. ASSUME NEW k \in Issues \ {x}, k # j, Board'[k] # Board[k] PROVE Board'[k].order # Board'[j].order
    <3>1. Ranked(r, k) /\ Board'[k].order = Rank(r, k)
      BY <1>3, <2>3
    <3>2. Rank(r, k) # Rank(r, j)
      BY <1>4, <1>5, <2>1, <2>3, <3>1 DEF RanksRight
    <3>3. QED
      BY <2>1, <3>1, <3>2
  <2>4. QED
    BY <2>1, <2>2, <2>3
<1>6. CASE Board'[x] \in Place
  BY <1>1, <1>2, <1>3, <1>5, <1>6, WriteOf
<1>7. CASE Board'[x] \notin Place
  <2>1. Board'[x] = PlaceOf(rows'[x]) /\ Board[x] = PlaceOf(rows[x])
    BY <1>1, <1>2, BoardType
  <2>2. rows'[x] \notin Row
    BY <1>1, <1>7, <2>1, BoardType
  <2>3. rows'[x] = View(r, x)
    BY <1>1, <1>2 DEF Merged
  <2>4. rows'[x] = rows[x]
    BY <1>1, <1>2, <2>2, <2>3, ViewType
  <2>5. Board'[x] = Board[x]
    BY <2>1, <2>4
  <2>6. CASE \E y \in Issues : Board'[y] # Board[y]
    <3>1. PICK y \in Issues : Board'[y] # Board[y]
      BY <2>6
    <3>2. y \in Issues \ {x} /\ Board'[y] \in Place
      BY <1>3, <2>5, <3>1
    <3>3. ASSUME NEW j \in Issues \ {y}, Board'[j] # Board[j]
          PROVE  /\ Board[j] \in Place /\ Board'[j] \in Place /\ Board'[j].status = Board[j].status
                 /\ Board'[j].order \in {n * One : n \in 1..Cardinality(Issues)}
                 /\ \A k \in Issues \ {y} : k # j /\ Board'[k] # Board[k] => Board'[k].order # Board'[j].order
      <4>1. j \in Issues \ {x} /\ \A k \in Issues : Board'[k] # Board[k] => k \in Issues \ {x}
        BY <2>5, <3>3
      <4>2. QED
        BY <1>3, <1>5, <3>3, <4>1
    <3>4. QED
      BY <1>1, <3>2, <3>3, WriteOf
  <2>7. CASE \A y \in Issues : Board'[y] = Board[y]
    BY <1>1, <2>7, BoardType
  <2>8. QED
    BY <2>6, <2>7
<1>8. QED
  BY <1>6, <1>7

(* Every step of the requests is a step of IssueRows, or changes nothing    *)
(* there.                                                                   *)
LEMMA RowsStep ==
  ASSUME IssuesInv, TypeOK', [Next]_vars
  PROVE  [Rows!Next]_Board
<1>1. TypeOK
  BY DEF IssuesInv
<1>2. CASE rows' = rows
  BY <1>2 DEF Board, Live
<1>3. CASE rows' # rows
  <2>1. PICK r \in Requests : CreateInsert(r) \/ UpdateCommit(r) \/ MoveCommit(r) \/ RemoveDelete(r)
    BY <1>3, RowsChange
  <2>2. RequestRight(r)
    BY DEF IssuesInv
  <2>3. CASE CreateInsert(r)
    <3>1. PICK i \in Issues : rows' = [rows EXCEPT ![i] = entity[r]]
      BY <2>3 DEF CreateInsert
    <3>2. entity[r] \in Row
      BY <2>2, <2>3 DEF CreateInsert, RequestRight, StepRight
    <3>3. rows'[i] \in Row /\ \A j \in Issues \ {i} : rows'[j] = rows[j]
      BY <1>1, <3>1, <3>2 DEF TypeOK
    <3>4. QED
      BY <1>1, <3>3, WriteAlone
  <2>4. CASE UpdateCommit(r) \/ MoveCommit(r)
    <3>1. pc[r] \in {"log", "commit"} /\ rows' = Merged(r)
      BY <2>4 DEF UpdateCommit, MoveCommit
    <3>2. QED
      BY <3>1, TransactionWrites
  <2>5. CASE RemoveDelete(r)
    <3>1. PICK i : i = op[r].issue
      OBVIOUS
    <3>2. i \in Issues /\ rows' = [rows EXCEPT ![i] = Removed]
      BY <2>2, <2>5, <3>1 DEF RemoveDelete, RequestRight, StepRight
    <3>3. Removed \notin Row /\ rows'[i] = Removed /\ \A j \in Issues \ {i} : rows'[j] = rows[j]
      BY <1>1, <3>2, IssuesAssumption DEF TypeOK
    <3>4. PICK B, C : B = Board /\ C = Board'
      OBVIOUS
    <3>5. /\ B \in [Issues -> Place \cup {NoRow}] /\ C \in [Issues -> Place \cup {NoRow}]
          /\ C[i] = NoRow /\ \A j \in Issues \ {i} : C[j] = B[j]
      BY <1>1, <3>2, <3>3, <3>4, BoardType DEF PlaceOf
    <3>6. C = [B EXCEPT ![i] = NoRow]
      BY <3>2, <3>5
    <3>7. CASE B[i] \in Place
      <4>1. Board[i] \in Place /\ Board' = [Board EXCEPT ![i] = NoRow]
        BY <3>4, <3>6, <3>7
      <4>2. QED
        BY <3>2, <4>1 DEF Rows!Next, Rows!Remove, Rows!Card, Place
    <3>8. CASE B[i] \notin Place
      <4>1. B[i] = NoRow
        BY <3>2, <3>5, <3>8
      <4>2. C = B
        BY <3>2, <3>5, <3>6, <4>1
      <4>3. QED
        BY <3>4, <4>2
    <3>9. QED
      BY <3>7, <3>8
  <2>6. QED
    BY <2>1, <2>3, <2>4, <2>5
<1>4. QED
  BY <1>2, <1>3

(* Whatever the transactions do between their reads and their commits, what *)
(* others read is as if each request had been applied to its own issue in   *)
(* one step: the requests implement IssueRows.                              *)
THEOREM RequestsImplementIssueRows == Spec => ImplementsIssueRows
<1>1. Init => IssuesInv
  BY IssuesInit
<1>2. IssuesInv /\ [Next]_vars => IssuesInv'
  BY IssuesNext
<1>3. Init => Rows!Init
  <2>1. SUFFICES ASSUME Init PROVE Board \in [Issues -> Place \cup {NoRow}]
    BY DEF Rows!Init, Rows!Card, Place
  <2>2. \A i \in Issues : rows[i] \in Row => [status |-> rows[i].status, order |-> rows[i].order] \in Place
    BY RowType DEF Place
  <2>3. QED
    BY <2>2 DEF Board, Live
<1>4. IssuesInv /\ IssuesInv' /\ [Next]_vars => [Rows!Next]_Board
  BY RowsStep DEF IssuesInv
<1>5. QED
  BY <1>1, <1>2, <1>3, <1>4, PTL DEF Spec, ImplementsIssueRows, Rows!Spec
=============================================================================
