------------------------ MODULE ProjectPlanningProofs ------------------------
(* What ProjectPlanning guarantees for any columns, sprints and requests.   *)
EXTENDS ProjectPlanning, FiniteSetTheorems, TLAPS

\* What a request is, by what it asks for and how far it got.
Ask(ops, ids, dtos, seen, at) ==
  [op : ops, id : ids, dto : dtos, seen : seen, at : at, raced : BOOLEAN]

Asked ==
  Ask({"createColumn"}, {Nothing}, {Nothing}, Nat, {"read"})
    \cup Ask({"updateColumn", "deleteColumn"}, Columns, {Nothing}, ColumnRow, {"read"})
    \cup Ask({"start", "complete", "remove"}, Sprints, {Nothing}, SprintStatus, {"read"})
    \cup Ask({"complete"}, Sprints, {Nothing}, SUBSET Issues, {"swept"})
    \cup Ask({"remove"}, Sprints, {Nothing}, SprintStatus, {"deleting"})
    \cup Ask({"edit"}, Issues, Dtos, IssueRow, {"read"})

RowsTyped ==
  /\ project \in BOOLEAN
  /\ column \in [Columns -> ColumnRow \cup {Nothing, Removed}]
  /\ sprint \in [Sprints -> SprintStatus \cup {Nothing, Removed}]
  /\ issue \in [Issues -> IssueRow \cup {Nothing, Removed}]
  /\ dropped \subseteq Keys \cup {NoKey} /\ raced \subseteq Columns \cup Sprints
  /\ strays \subseteq Issues /\ begun \in 0..MaxRequests

\* TypeOK, and what the steps of a request are.
Typed == RowsTyped /\ req \in [Requests -> Asked \cup {Nothing}]

-----------------------------------------------------------------------------
(* What a request knows, and how far it is still so when it writes.         *)

\* createColumn: the order is above those of the columns nobody raced for, unless
\* another one has been created since.
OrderKnown ==
  \A r \in Requests : Doing(r, "createColumn", "read") /\ ~req[r].raced =>
    \A c \in Rows(column) \ raced : column[c].order < req[r].seen

\* start: no other sprint is active, but for raced ones, unless another start was
\* saved since.
StartKnown ==
  \A r \in Requests : Doing(r, "start", "read") /\ ~req[r].raced =>
    \A t \in Sprints \ {req[r].id} : sprint[t] = "ACTIVE" => t \in raced

OnColumn(r) == Doing(r, "updateColumn", "read") \/ Doing(r, "deleteColumn", "read")

\* updateColumn and deleteColumn: the column is as it was read, or was deleted, and all
\* of them have read the same.
ColumnKnown ==
  \A r \in Requests : OnColumn(r) =>
    /\ column[req[r].id] # Nothing
    /\ req[r].id \in Rows(column) => column[req[r].id] = req[r].seen
    /\ project /\ column[req[r].id] = Removed => req[r].seen.key \in dropped
    /\ \A q \in Requests : OnColumn(q) /\ req[q].id = req[r].id => req[q].seen = req[r].seen

\* complete: what is unfinished is what it has moved, or strayed in since.
SweepKnown ==
  \A r \in Requests : Doing(r, "complete", "swept") => Unfinished(req[r].id) \subseteq req[r].seen \cup strays

-----------------------------------------------------------------------------

WithKey(k) == {c \in Rows(column) : column[c].key = k}

\* Each column of the first board that was never deleted is the only one of its key.
KeysKept ==
  project => \A k \in DOMAIN DefaultBoard \ dropped : \E c \in Rows(column) : WithKey(k) = {c}

ColumnsInv == Typed /\ OrderKnown /\ ColumnKnown /\ KeysKept /\ ColumnsOrdered
SprintsInv == Typed /\ StartKnown /\ SweepKnown /\ OneActiveSprint /\ CompletedSprintsDrained

-----------------------------------------------------------------------------
(* Operators.                                                              *)

\* A set of numbers that is finite and not empty has a greatest one.  (The finite
\* subsets are well-founded: take a smallest one without.)
LEMMA GreatestExists ==
  ASSUME NEW S \in SUBSET Int, IsFiniteSet(S), S # {}
  PROVE  \E m \in S : \A o \in S : o <= m
<1> DEFINE Greatest(T) == \E m \in T : \A o \in T : o <= m
           None == {T \in FiniteSubsetsOf(S) : T # {} /\ ~Greatest(T)}
<1>1. ASSUME None # {} PROVE FALSE
  <2>1. None \subseteq FiniteSubsetsOf(S)
    OBVIOUS
  <2>2. PICK T \in None : \A U \in None : <<U, T>> \notin StrictSubsetOrdering(S)
    <3> HIDE DEF None
    <3> QED BY <1>1, <2>1, FS_StrictSubsetOrderingWellFounded, WFMin
  <2>3. PICK x \in T : TRUE
    BY <2>2
  <2>4. T \subseteq S /\ IsFiniteSet(T) /\ IsFiniteSet(T \ {x})
    BY <2>2, FS_RemoveElement DEF FiniteSubsetsOf
  <2>5. T \ {x} \notin None
    BY <2>2, <2>3, <2>4 DEF StrictSubsetOrdering
  <2>6. T \ {x} = {} \/ Greatest(T \ {x})
    BY <2>4, <2>5 DEF FiniteSubsetsOf
  <2>7. T \ {x} = {} => Greatest(T)
    BY <2>3, <2>4
  <2>8. ASSUME Greatest(T \ {x}) PROVE Greatest(T)
    <3>1. PICK m \in T \ {x} : \A o \in T \ {x} : o <= m
      BY <2>8
    <3>2. CASE x <= m
      BY <2>4, <3>1, <3>2
    <3>3. CASE m < x
      BY <2>3, <2>4, <3>1, <3>3
    <3> QED BY <2>3, <2>4, <3>1, <3>2, <3>3
  <2> QED BY <2>2, <2>6, <2>7, <2>8
<1>2. S \in FiniteSubsetsOf(S)
  BY DEF FiniteSubsetsOf
<1> QED BY <1>1, <1>2

\* The next order is a number above all there are.
LEMMA NextOrderAbove ==
  ASSUME NEW orders \in SUBSET Nat, IsFiniteSet(orders)
  PROVE  NextOrder(orders) \in Nat /\ \A o \in orders : o < NextOrder(orders)
<1>1. CASE orders = {}
  BY <1>1 DEF NextOrder
<1>2. CASE orders # {}
  <2>1. \E m \in orders : \A o \in orders : o <= m
    BY <1>2, GreatestExists
  <2>2. MaxOf(orders) \in orders /\ \A o \in orders : o <= MaxOf(orders)
    BY <2>1 DEF MaxOf
  <2>3. NextOrder(orders) = MaxOf(orders) + 1 /\ MaxOf(orders) \in Nat
    BY <1>2, <2>2 DEF NextOrder
  <2>4. \A o \in orders : o \in Nat /\ o <= MaxOf(orders)
    BY <2>2
  <2> QED BY <2>3, <2>4
<1> QED BY <1>1, <1>2

\* The orders of the columns are numbers, and finitely many.
LEMMA ColumnOrdersFinite ==
  ASSUME Typed
  PROVE  ColumnOrders \in SUBSET Nat /\ IsFiniteSet(ColumnOrders)
<1>1. Rows(column) \in SUBSET Columns /\ \A c \in Rows(column) : column[c] \in ColumnRow
  BY DEF Typed, RowsTyped, Rows
<1>2. IsFiniteSet(Rows(column))
  BY <1>1, FS_Subset, PlanningAssumption
<1>3. [c \in Rows(column) |-> column[c].order] \in Surjection(Rows(column), ColumnOrders)
  BY DEF ColumnOrders, Surjection
<1>4. IsFiniteSet(ColumnOrders)
  BY <1>2, <1>3, FS_Surjection
<1> QED BY <1>1, <1>4 DEF ColumnOrders, ColumnRow

-----------------------------------------------------------------------------
(* Types.                                                                  *)

LEMMA TypedIsTypeOK == ASSUME Typed PROVE TypeOK
<1>1. ASSUME NEW r \in Requests, req[r] # Nothing
      PROVE  LET q == req[r] IN
             /\ q.op \in Ops /\ q.at \in {"read", "swept", "deleting"} /\ q.raced \in BOOLEAN
             /\ q.id \in Ids(q.op) /\ q.seen \in Seen(q.op, q.at)
             /\ q.dto \in IF q.op = "edit" THEN Dtos ELSE {Nothing}
  <2>1. req[r] \in Asked
    BY <1>1 DEF Typed
  <2>2. CASE req[r] \in Ask({"createColumn"}, {Nothing}, {Nothing}, Nat, {"read"})
    BY <2>2 DEF Ask, Ops, Ids, Seen
  <2>3. CASE req[r] \in Ask({"updateColumn", "deleteColumn"}, Columns, {Nothing}, ColumnRow, {"read"})
    BY <2>3 DEF Ask, Ops, Ids, Seen
  <2>4. CASE req[r] \in Ask({"start", "complete", "remove"}, Sprints, {Nothing}, SprintStatus, {"read"})
    BY <2>4 DEF Ask, Ops, Ids, Seen
  <2>5. CASE req[r] \in Ask({"complete"}, Sprints, {Nothing}, SUBSET Issues, {"swept"})
    BY <2>5 DEF Ask, Ops, Ids, Seen
  <2>6. CASE req[r] \in Ask({"remove"}, Sprints, {Nothing}, SprintStatus, {"deleting"})
    BY <2>6 DEF Ask, Ops, Ids, Seen
  <2>7. CASE req[r] \in Ask({"edit"}, Issues, Dtos, IssueRow, {"read"})
    BY <2>7 DEF Ask, Ops, Ids, Seen
  <2> QED BY <2>1, <2>2, <2>3, <2>4, <2>5, <2>6, <2>7 DEF Asked
<1> QED BY <1>1 DEF Typed, RowsTyped, TypeOK

\* What a request of each kind holds.
LEMMA KindsTyped ==
  ASSUME Typed, NEW r \in Requests
  PROVE  /\ Doing(r, "createColumn", "read") => req[r].seen \in Nat
         /\ Doing(r, "updateColumn", "read") \/ Doing(r, "deleteColumn", "read") =>
              req[r].id \in Columns /\ req[r].seen \in ColumnRow
         /\ Doing(r, "start", "read") \/ Doing(r, "complete", "read") \/ Doing(r, "complete", "swept")
              \/ Doing(r, "remove", "read") \/ Doing(r, "remove", "deleting") => req[r].id \in Sprints
         /\ Doing(r, "complete", "swept") => req[r].seen \subseteq Issues
         /\ Doing(r, "edit", "read") => req[r].id \in Issues /\ req[r].seen \in IssueRow /\ req[r].dto \in Dtos
<1>1. req[r] # Nothing => req[r] \in Asked
  BY DEF Typed
<1>2. req[r] \in Ask({"createColumn"}, {Nothing}, {Nothing}, Nat, {"read"}) =>
        req[r].op = "createColumn" /\ req[r].seen \in Nat
  BY DEF Ask
<1>3. req[r] \in Ask({"updateColumn", "deleteColumn"}, Columns, {Nothing}, ColumnRow, {"read"}) =>
        req[r].op \in {"updateColumn", "deleteColumn"} /\ req[r].id \in Columns /\ req[r].seen \in ColumnRow
  BY DEF Ask
<1>4. req[r] \in Ask({"start", "complete", "remove"}, Sprints, {Nothing}, SprintStatus, {"read"}) =>
        req[r].op \in {"start", "complete", "remove"} /\ req[r].id \in Sprints /\ req[r].at = "read"
  BY DEF Ask
<1>5. req[r] \in Ask({"complete"}, Sprints, {Nothing}, SUBSET Issues, {"swept"}) =>
        req[r].op = "complete" /\ req[r].id \in Sprints /\ req[r].seen \subseteq Issues
  BY DEF Ask
<1>6. req[r] \in Ask({"remove"}, Sprints, {Nothing}, SprintStatus, {"deleting"}) =>
        req[r].op = "remove" /\ req[r].id \in Sprints
  BY DEF Ask
<1>7. req[r] \in Ask({"edit"}, Issues, Dtos, IssueRow, {"read"}) =>
        req[r].op = "edit" /\ req[r].id \in Issues /\ req[r].seen \in IssueRow /\ req[r].dto \in Dtos
  BY DEF Ask
<1> QED BY <1>1, <1>2, <1>3, <1>4, <1>5, <1>6, <1>7 DEF Asked, Doing

\* A request that has been told of a race is still one.
LEMMA RacedIsAsked == ASSUME NEW q \in Asked PROVE [q EXCEPT !.raced = TRUE] \in Asked
<1>1. ASSUME NEW ops, NEW ids, NEW dtos, NEW seen, NEW at, q \in Ask(ops, ids, dtos, seen, at)
      PROVE  [q EXCEPT !.raced = TRUE] \in Ask(ops, ids, dtos, seen, at)
  <2>1. PICK f : f = [q EXCEPT !.raced = TRUE]
    OBVIOUS
  <2>2. f = [op |-> q.op, id |-> q.id, dto |-> q.dto, seen |-> q.seen, at |-> q.at, raced |-> TRUE]
    BY <1>1, <2>1 DEF Ask
  <2> QED BY <1>1, <2>1, <2>2 DEF Ask
<1>2. CASE q \in Ask({"createColumn"}, {Nothing}, {Nothing}, Nat, {"read"})
  BY <1>1, <1>2 DEF Asked
<1>3. CASE q \in Ask({"updateColumn", "deleteColumn"}, Columns, {Nothing}, ColumnRow, {"read"})
  BY <1>1, <1>3 DEF Asked
<1>4. CASE q \in Ask({"start", "complete", "remove"}, Sprints, {Nothing}, SprintStatus, {"read"})
  BY <1>1, <1>4 DEF Asked
<1>5. CASE q \in Ask({"complete"}, Sprints, {Nothing}, SUBSET Issues, {"swept"})
  BY <1>1, <1>5 DEF Asked
<1>6. CASE q \in Ask({"remove"}, Sprints, {Nothing}, SprintStatus, {"deleting"})
  BY <1>1, <1>6 DEF Asked
<1>7. CASE q \in Ask({"edit"}, Issues, Dtos, IssueRow, {"read"})
  BY <1>1, <1>7 DEF Asked
<1> QED BY <1>2, <1>3, <1>4, <1>5, <1>6, <1>7 DEF Asked

\* A request that ends leaves the others as they are, or tells them of a race.
LEMMA Ended ==
  ASSUME Typed, NEW r \in Requests
  PROVE  /\ Finished(r) \in [Requests -> Asked \cup {Nothing}]
         /\ Outdated(r) \in [Requests -> Asked \cup {Nothing}]
<1>1. Finished(r) \in [Requests -> Asked \cup {Nothing}]
  BY DEF Finished, Typed
<1>2. ASSUME NEW q \in Requests PROVE Outdated(r)[q] \in Asked \cup {Nothing}
  <2>1. req[q] # Nothing => [req[q] EXCEPT !.raced = TRUE] \in Asked /\ req[q] \in Asked
    BY RacedIsAsked DEF Typed
  <2> QED BY <2>1 DEF Outdated, Doing
<1> QED BY <1>1, <1>2 DEF Outdated

\* A request that begins.
LEMMA ReadsTyped ==
  ASSUME Typed, NEW r \in Requests, NEW op, NEW id, NEW dto, NEW value, Reads(r, op, id, dto, value),
         [op |-> op, id |-> id, dto |-> dto, seen |-> value, at |-> "read", raced |-> FALSE] \in Asked
  PROVE  Typed'
BY PlanningAssumption DEF Reads, Typed, RowsTyped


\* The columns to begin with: each key of the first board has a column, with its order,
\* and the other ids have none.
LEMMA FirstColumns ==
  ASSUME Init
  PROVE  \E f \in [DOMAIN DefaultBoard -> Columns] :
           /\ \A j, k \in DOMAIN DefaultBoard : f[j] = f[k] => j = k
           /\ \A k \in DOMAIN DefaultBoard : column[f[k]] = [key |-> k, order |-> DefaultBoard[k]]
           /\ \A c \in Columns : column[c] = Nothing \/ \E k \in DOMAIN DefaultBoard : f[k] = c
<1> DEFINE f == CHOOSE g \in [DOMAIN DefaultBoard -> Columns] :
                  \A j, k \in DOMAIN g : g[j] = g[k] => j = k
           rows == {[key |-> k, order |-> DefaultBoard[k]] : k \in DOMAIN f}
<1>1. f \in [DOMAIN DefaultBoard -> Columns] /\ \A j, k \in DOMAIN f : f[j] = f[k] => j = k
  BY PlanningAssumption
<1>2. column = [c \in Columns |-> IF \E k \in DOMAIN f : f[k] = c
                                  THEN CHOOSE row \in rows : f[row.key] = c ELSE Nothing]
  BY DEF Init
<1> HIDE DEF f
<1>3. ASSUME NEW k \in DOMAIN DefaultBoard
      PROVE  column[f[k]] = [key |-> k, order |-> DefaultBoard[k]]
  <2> DEFINE row == CHOOSE row \in rows : f[row.key] = f[k]
  <2>1. column[f[k]] = row
    BY <1>1, <1>2
  <2>2. [key |-> k, order |-> DefaultBoard[k]] \in rows
    BY <1>1
  <2>3. row \in rows /\ f[row.key] = f[k]
    <3>1. \E x \in rows : f[x.key] = f[k]
      BY <2>2
    <3> HIDE DEF rows
    <3> QED BY <3>1
  <2>4. PICK j \in DOMAIN f : row = [key |-> j, order |-> DefaultBoard[j]]
    <3> HIDE DEF row
    <3> QED BY <2>3
  <2>5. j = k
    <3> HIDE DEF row
    <3> QED BY <1>1, <2>3, <2>4
  <2> QED BY <2>1, <2>4, <2>5
<1>4. \A c \in Columns : column[c] = Nothing \/ \E k \in DOMAIN DefaultBoard : f[k] = c
  BY <1>1, <1>2
<1> QED BY <1>1, <1>3, <1>4

\* The first state is typed.
LEMMA InitTyped == ASSUME Init PROVE Typed
<1>0. MaxRequests \in Nat /\ Backlog \in Keys /\ DOMAIN DefaultBoard \subseteq Keys
      /\ \A k \in DOMAIN DefaultBoard : DefaultBoard[k] \in Nat
  BY PlanningAssumption
<1>1. column \in [Columns -> ColumnRow \cup {Nothing, Removed}]
  <2>1. PICK f \in [DOMAIN DefaultBoard -> Columns] :
           /\ \A k \in DOMAIN DefaultBoard : column[f[k]] = [key |-> k, order |-> DefaultBoard[k]]
           /\ \A c \in Columns : column[c] = Nothing \/ \E k \in DOMAIN DefaultBoard : f[k] = c
    BY FirstColumns
  <2>2. \A k \in DOMAIN DefaultBoard : [key |-> k, order |-> DefaultBoard[k]] \in ColumnRow
    BY <1>0 DEF ColumnRow
  <2>3. ASSUME NEW c \in Columns PROVE column[c] \in ColumnRow \cup {Nothing, Removed}
    <3>1. CASE column[c] = Nothing
      BY <3>1
    <3>2. CASE \E k \in DOMAIN DefaultBoard : f[k] = c
      <4>1. PICK k \in DOMAIN DefaultBoard : f[k] = c
        BY <3>2
      <4>2. column[c] = [key |-> k, order |-> DefaultBoard[k]]
        BY <2>1, <4>1
      <4> QED BY <2>2, <4>2
    <3> QED BY <2>1, <3>1, <3>2
  <2>4. column = [c \in Columns |-> column[c]]
    BY DEF Init
  <2> QED BY <2>3, <2>4
<1>2. sprint \in [Sprints -> SprintStatus \cup {Nothing, Removed}]
  BY DEF Init, SprintStatus
<1>3. issue \in [Issues -> IssueRow \cup {Nothing, Removed}]
  <2>1. Rows(sprint) \subseteq Sprints
    BY <1>2 DEF Rows
  <2> QED BY <1>0, <2>1 DEF Init, IssueRow
<1>4. req \in [Requests -> Asked \cup {Nothing}]
  BY DEF Init
<1>5. /\ project = TRUE /\ dropped = {} /\ raced = {} /\ strays = {} /\ begun = 0
  BY DEF Init
<1>6. begun \in 0..MaxRequests
  BY <1>0, <1>5
<1> QED BY <1>1, <1>2, <1>3, <1>4, <1>5, <1>6 DEF Typed, RowsTyped

\* Rows of a table are rows.
LEMMA RowsAre ==
  ASSUME Typed
  PROVE  /\ \A c \in Rows(column) : c \in Columns /\ column[c] \in ColumnRow
         /\ \A s \in Rows(sprint) : s \in Sprints /\ sprint[s] \in SprintStatus
         /\ \A i \in Rows(issue) : i \in Issues /\ issue[i] \in IssueRow
BY DEF Typed, RowsTyped, Rows

\* A request that begins is typed.
LEMMA BeginTyped == ASSUME Typed, NEW r \in Requests, Begin(r) PROVE Typed'
<1>1. CASE CreateColumnRead(r)
  <2>1. NextOrder(ColumnOrders) \in Nat
    BY ColumnOrdersFinite, NextOrderAbove
  <2> QED BY <1>1, <2>1, ReadsTyped DEF CreateColumnRead, Asked, Ask
<1>2. ASSUME NEW c \in Columns, ColumnRead(r, c) PROVE Typed'
  BY <1>2, RowsAre, ReadsTyped DEF ColumnRead, Asked, Ask
<1>3. ASSUME NEW s \in Sprints, StartRead(r, s) \/ CompleteRead(r, s) \/ RemoveRead(r, s) PROVE Typed'
  BY <1>3, RowsAre, ReadsTyped DEF StartRead, CompleteRead, RemoveRead, Asked, Ask
<1>4. ASSUME NEW i \in Issues, EditRead(r, i) PROVE Typed'
  BY <1>4, RowsAre, ReadsTyped DEF EditRead, Asked, Ask
<1> QED BY <1>1, <1>2, <1>3, <1>4 DEF Begin

\* The row an edit saves is one.
LEMMA WrittenTyped ==
  ASSUME Typed, NEW r \in Requests, Doing(r, "edit", "read"), req[r].id \in Rows(issue)
  PROVE  \A row \in Written(r) : row \in IssueRow
<1>1. ASSUME NEW row \in IssueRow, NEW dto \in Dtos PROVE Merged(row, dto) \in IssueRow
  BY DEF Merged, Dtos, IssueRow
<1> QED BY <1>1, KindsTyped, RowsAre DEF Written

\* A request that goes on leaves the types.
LEMMA ProceedTyped == ASSUME Typed, NEW r \in Requests, Proceed(r) PROVE Typed'
<1> USE DEF Typed, RowsTyped
<1>0. /\ Finished(r) \in [Requests -> Asked \cup {Nothing}]
      /\ Outdated(r) \in [Requests -> Asked \cup {Nothing}]
  BY Ended
<1>1. CASE CreateColumnSave(r)
  <2>1. /\ req' \in [Requests -> Asked \cup {Nothing}]
        /\ UNCHANGED <<project, sprint, issue, dropped, strays, begun>>
    BY <1>0, <1>1 DEF CreateColumnSave
  <2>2. column' \in [Columns -> ColumnRow \cup {Nothing, Removed}] /\ raced' \subseteq Columns \cup Sprints
    <3>1. NewColumn(r) \subseteq ColumnRow
      BY <1>1, KindsTyped DEF CreateColumnSave, NewColumn, ColumnRow
    <3> QED BY <1>1, <3>1 DEF CreateColumnSave, MarkIfRaced
  <2> QED BY <2>1, <2>2
<1>2. CASE UpdateColumnSave(r)
  BY <1>0, <1>2, KindsTyped DEF UpdateColumnSave
<1>3. CASE DeleteColumnRemove(r)
  BY <1>0, <1>3, KindsTyped DEF DeleteColumnRemove, ColumnRow
<1>4. CASE StartSave(r)
  <2>1. req[r].id \in Sprints
    BY <1>4, KindsTyped DEF StartSave
  <2>2. /\ req' \in [Requests -> Asked \cup {Nothing}]
        /\ UNCHANGED <<project, column, issue, dropped, strays, begun>>
    BY <1>0, <1>4 DEF StartSave
  <2>3. sprint' \in [Sprints -> SprintStatus \cup {Nothing, Removed}] /\ raced' \subseteq Columns \cup Sprints
    BY <1>4, <2>1 DEF StartSave, SprintStatus, MarkIfRaced
  <2> QED BY <2>2, <2>3
<1>5. CASE CompleteSweep(r)
  <2>1. Unfinished(req[r].id) \subseteq Issues
    BY DEF Unfinished, InSprint, Rows
  <2>2. req[r] \in Ask({"start", "complete", "remove"}, Sprints, {Nothing}, SprintStatus, {"read"})
    BY <1>5 DEF CompleteSweep, Doing, Asked, Ask
  <2>3. [req[r] EXCEPT !.seen = Unfinished(req[r].id), !.at = "swept"]
          \in Ask({"complete"}, Sprints, {Nothing}, SUBSET Issues, {"swept"})
    BY <1>5, <2>1, <2>2 DEF CompleteSweep, Doing, Ask
  <2>4. [req[r] EXCEPT !.seen = Unfinished(req[r].id), !.at = "swept"] \in Asked
    BY <2>3 DEF Asked
  <2>5. req' = [req EXCEPT ![r] = [req[r] EXCEPT !.seen = Unfinished(req[r].id), !.at = "swept"]]
    BY <1>5 DEF CompleteSweep
  <2> QED BY <1>5, <2>4, <2>5 DEF CompleteSweep
<1>6. CASE CompleteCommit(r)
  <2>1. req[r].id \in Sprints
    BY <1>6, KindsTyped DEF CompleteCommit
  <2>2. \A i \in Issues : i \in req[r].seen => SweptIssue(issue[i]) \in IssueRow
    BY PlanningAssumption DEF SweptIssue, IssueRow
  <2>3. issue' \in [Issues -> IssueRow \cup {Nothing, Removed}]
    BY <1>6, <2>2 DEF CompleteCommit
  <2>4. sprint' \in [Sprints -> SprintStatus \cup {Nothing, Removed}]
    BY <1>6, <2>1 DEF CompleteCommit, SprintStatus
  <2> QED BY <1>0, <1>6, <2>3, <2>4 DEF CompleteCommit
<1>7. CASE RemoveDelete(r)
  <2>1. req[r] \in Ask({"start", "complete", "remove"}, Sprints, {Nothing}, SprintStatus, {"read"})
    BY <1>7 DEF RemoveDelete, Doing, Asked, Ask
  <2>2. [req[r] EXCEPT !.at = "deleting"] \in Ask({"remove"}, Sprints, {Nothing}, SprintStatus, {"deleting"})
    BY <1>7, <2>1 DEF RemoveDelete, Doing, Ask
  <2>3. [req[r] EXCEPT !.at = "deleting"] \in Asked
    BY <2>2 DEF Asked
  <2>4. req' = Finished(r) \/ req' = [req EXCEPT ![r] = [req[r] EXCEPT !.at = "deleting"]]
    BY <1>7 DEF RemoveDelete
  <2> QED BY <1>0, <1>7, <2>3, <2>4 DEF RemoveDelete
<1>8. CASE RemoveCascade(r)
  <2>1. req[r].id \in Sprints
    BY <1>8, KindsTyped DEF RemoveCascade
  <2>2. \A i \in InSprint(req[r].id) : [issue[i] EXCEPT !.sprint = Nothing] \in IssueRow
    BY RowsAre DEF InSprint, IssueRow
  <2>3. issue' \in [Issues -> IssueRow \cup {Nothing, Removed}]
    BY <1>8, <2>2 DEF RemoveCascade
  <2> QED BY <1>0, <1>8, <2>1, <2>3 DEF RemoveCascade
<1>9. CASE DatabaseError(r) \/ EditRefused(r)
  BY <1>0, <1>9 DEF DatabaseError, EditRefused, Abandoned
<1>10. CASE EditSave(r)
  <2>1. PICK row \in Written(r) :
          /\ issue' = [issue EXCEPT ![req[r].id] = row]
          /\ strays' = strays \cup {req[r].id} \/ strays' = strays
    BY <1>10 DEF EditSave, Strayed
  <2>2. req[r].id \in Issues /\ row \in IssueRow
    BY <1>10, KindsTyped, WrittenTyped DEF EditSave
  <2> QED BY <1>0, <1>10, <2>1, <2>2 DEF EditSave
<1> QED BY <1>1, <1>2, <1>3, <1>4, <1>5, <1>6, <1>7, <1>8, <1>9, <1>10 DEF Proceed

\* The types are inductive by themselves.
LEMMA TypedStep == ASSUME Typed, [Next]_vars PROVE Typed'
<1>1. ASSUME NEW r \in Requests, Begin(r) PROVE Typed'
  BY <1>1, BeginTyped
<1>2. ASSUME NEW r \in Requests, Proceed(r) PROVE Typed'
  BY <1>2, ProceedTyped
<1>3. ASSUME NEW s \in Sprints, CreateSprint(s) PROVE Typed'
  BY <1>3 DEF CreateSprint, Typed, RowsTyped, SprintStatus
<1>4. CASE RemoveProject
  BY <1>4 DEF RemoveProject, Typed, RowsTyped
<1>6. ASSUME NEW i \in Issues, CreateIssue(i) PROVE Typed'
  BY <1>6 DEF CreateIssue, Strayed, Typed, RowsTyped
<1>5. CASE UNCHANGED vars
  BY <1>5 DEF vars, Typed, RowsTyped
<1> QED BY <1>1, <1>2, <1>3, <1>4, <1>5, <1>6 DEF Next

-----------------------------------------------------------------------------
(* Columns.                                                                *)

\* The first board has each of its keys once, and no two orders alike.
LEMMA InitColumns == ASSUME Init PROVE ColumnsInv
<1>1. PICK f \in [DOMAIN DefaultBoard -> Columns] :
        /\ \A j, k \in DOMAIN DefaultBoard : f[j] = f[k] => j = k
        /\ \A k \in DOMAIN DefaultBoard : column[f[k]] = [key |-> k, order |-> DefaultBoard[k]]
        /\ \A c \in Columns : column[c] = Nothing \/ \E k \in DOMAIN DefaultBoard : f[k] = c
  BY FirstColumns
<1>2. Typed /\ DOMAIN column = Columns
  BY InitTyped DEF Init
<1>3. \A r \in Requests : req[r] = Nothing
  BY DEF Init
<1>4. ASSUME NEW c \in Rows(column) PROVE \E k \in DOMAIN DefaultBoard : f[k] = c
  BY <1>1, <1>2 DEF Rows
<1>5. ASSUME NEW k \in DOMAIN DefaultBoard PROVE f[k] \in Rows(column)
  <2>1. [key |-> k, order |-> DefaultBoard[k]] \in ColumnRow
    BY PlanningAssumption DEF ColumnRow
  <2>2. column[f[k]] \notin {Nothing, Removed}
    BY <1>1, <2>1, PlanningAssumption
  <2> QED BY <1>2, <2>2 DEF Rows
<1>6. ASSUME NEW k \in DOMAIN DefaultBoard PROVE \E c \in Rows(column) : WithKey(k) = {c}
  <2>1. f[k] \in WithKey(k)
    <3>1. column[f[k]] = [key |-> k, order |-> DefaultBoard[k]]
      BY <1>1
    <3> QED BY <1>5, <3>1 DEF WithKey
  <2>2. ASSUME NEW c \in WithKey(k) PROVE c = f[k]
    <3>1. PICK j \in DOMAIN DefaultBoard : f[j] = c
      BY <1>4 DEF WithKey
    <3>2. column[c] = [key |-> j, order |-> DefaultBoard[j]] /\ column[c].key = k
      BY <1>1, <3>1 DEF WithKey
    <3> QED BY <3>1, <3>2
  <2>3. WithKey(k) = {f[k]}
    BY <2>1, <2>2
  <2> QED BY <1>5, <2>3
<1>7. KeysKept
  BY <1>6 DEF KeysKept, Init
<1>8. ColumnsOrdered
  <2>1. ASSUME NEW c \in Rows(column), NEW d \in Rows(column), column[c].order = column[d].order PROVE c = d
    <3>1. PICK j \in DOMAIN DefaultBoard : f[j] = c
      BY <1>4
    <3>2. PICK k \in DOMAIN DefaultBoard : f[k] = d
      BY <1>4
    <3>3. /\ column[c] = [key |-> j, order |-> DefaultBoard[j]]
          /\ column[d] = [key |-> k, order |-> DefaultBoard[k]]
      BY <1>1, <3>1, <3>2
    <3> QED BY <2>1, <3>1, <3>2, <3>3, PlanningAssumption
  <2> QED BY <2>1 DEF ColumnsOrdered
<1> QED BY <1>2, <1>3, <1>7, <1>8 DEF ColumnsInv, OrderKnown, ColumnKnown, OnColumn, Doing

\* Of the requests on columns, none has begun, and what one knows is what it knew.
ColumnRequestsGoOn ==
  \A q \in Requests :
    /\ \A op \in {"createColumn", "updateColumn", "deleteColumn"} : Doing(q, op, "read")' =>
         /\ Doing(q, op, "read")
         /\ req'[q].id = req[q].id /\ req'[q].seen = req[q].seen
         /\ req[q].raced => req'[q].raced

\* Steps that leave the columns alone.
LEMMA ColumnsKept ==
  ASSUME ColumnsInv, Typed', UNCHANGED <<project, column, dropped>>, raced \subseteq raced',
         ColumnRequestsGoOn
  PROVE  ColumnsInv'
<1> USE DEF ColumnsInv
<1>1. Rows(column)' = Rows(column) /\ \A k : WithKey(k)' = WithKey(k)
  BY DEF Rows, WithKey
<1>2. OrderKnown'
  BY <1>1 DEF OrderKnown, ColumnRequestsGoOn
<1>3. \A q \in Requests : OnColumn(q)' => OnColumn(q) /\ req'[q].id = req[q].id /\ req'[q].seen = req[q].seen
  BY DEF OnColumn, ColumnRequestsGoOn
<1>4. ColumnKnown'
  BY <1>1, <1>3 DEF ColumnKnown
<1>5. KeysKept'
  BY <1>1 DEF KeysKept
<1>6. ColumnsOrdered'
  BY <1>1 DEF ColumnsOrdered
<1> QED BY <1>2, <1>4, <1>5, <1>6

\* A request that ends, with or without telling others, and one that goes on.
LEMMA EndedGoesOn ==
  ASSUME Typed, NEW r \in Requests, req' = Finished(r) \/ req' = Outdated(r)
  PROVE  /\ req'[r] = Nothing
         /\ \A q \in Requests \ {r} :
              /\ req'[q] # Nothing => req[q] # Nothing
              /\ req[q] # Nothing =>
                   /\ req'[q].op = req[q].op /\ req'[q].id = req[q].id /\ req'[q].seen = req[q].seen
                   /\ req'[q].at = req[q].at
                   /\ req[q].raced => req'[q].raced
         /\ ColumnRequestsGoOn
<1>1. CASE req' = Finished(r)
  <2>1. req'[r] = Nothing /\ \A q \in Requests \ {r} : req'[q] = req[q]
    BY <1>1 DEF Finished, Typed
  <2> QED BY <2>1 DEF ColumnRequestsGoOn, Doing
<1>2. CASE req' = Outdated(r)
  <2>1. req'[r] = Nothing
    BY <1>2 DEF Outdated
  <2>2. ASSUME NEW q \in Requests \ {r}
        PROVE  /\ req'[q] # Nothing => req[q] # Nothing
               /\ req[q] # Nothing =>
                    /\ req'[q].op = req[q].op /\ req'[q].id = req[q].id /\ req'[q].seen = req[q].seen
                    /\ req'[q].at = req[q].at
                    /\ req[q].raced => req'[q].raced
    <3>1. req'[q] = req[q] \/ (req[q] # Nothing /\ req'[q] = [req[q] EXCEPT !.raced = TRUE])
      BY <1>2 DEF Outdated, Doing
    <3>2. req[q] # Nothing => req[q] \in Asked
      BY DEF Typed
    <3>3. ASSUME req[q] \in Asked
          PROVE  LET a == [req[q] EXCEPT !.raced = TRUE] IN
                 /\ a.op = req[q].op /\ a.id = req[q].id /\ a.seen = req[q].seen
                 /\ a.at = req[q].at /\ a.raced = TRUE
      BY <3>3 DEF Asked, Ask
    <3> QED BY <3>1, <3>2, <3>3
  <2> QED BY <2>1, <2>2 DEF ColumnRequestsGoOn, Doing
<1> QED BY <1>1, <1>2

\* createColumn has read the orders: its own is above them all.
LEMMA CreateColumnReads ==
  ASSUME ColumnsInv, Typed', NEW r \in Requests, CreateColumnRead(r)
  PROVE  ColumnsInv'
<1> USE DEF ColumnsInv
<1>1. /\ UNCHANGED <<project, column, issue, dropped, raced>> /\ req \in [Requests -> Asked \cup {Nothing}]
      /\ req' = [req EXCEPT ![r] = [op |-> "createColumn", id |-> Nothing, dto |-> Nothing,
                                    seen |-> NextOrder(ColumnOrders), at |-> "read", raced |-> FALSE]]
  BY DEF CreateColumnRead, Reads, Typed
<1>2. /\ req'[r].op = "createColumn" /\ req'[r].seen = NextOrder(ColumnOrders)
      /\ \A q \in Requests \ {r} : req'[q] = req[q]
  BY <1>1
<1>3. Rows(column)' = Rows(column) /\ \A k : WithKey(k)' = WithKey(k)
  BY <1>1 DEF Rows, WithKey
<1>4. \A c \in Rows(column) : column[c].order < NextOrder(ColumnOrders)
  BY ColumnOrdersFinite, NextOrderAbove DEF ColumnOrders
<1>5. OrderKnown'
  BY <1>1, <1>2, <1>3, <1>4 DEF OrderKnown, Doing
<1>6. \A q \in Requests : OnColumn(q)' => q # r /\ OnColumn(q)
  BY <1>2 DEF OnColumn, Doing
<1>7. ColumnKnown'
  BY <1>1, <1>2, <1>3, <1>6 DEF ColumnKnown
<1>8. KeysKept' /\ ColumnsOrdered'
  BY <1>1, <1>3 DEF KeysKept, ColumnsOrdered, Rows
<1> QED BY <1>5, <1>7, <1>8

\* updateColumn and deleteColumn have read the column.
LEMMA ColumnReads ==
  ASSUME ColumnsInv, Typed', NEW r \in Requests, NEW x \in Columns, ColumnRead(r, x)
  PROVE  ColumnsInv'
<1> USE DEF ColumnsInv
<1>1. /\ UNCHANGED <<project, column, issue, dropped, raced>> /\ req \in [Requests -> Asked \cup {Nothing}]
      /\ \E op \in {"updateColumn", "deleteColumn"} :
           req' = [req EXCEPT ![r] = [op |-> op, id |-> x, dto |-> Nothing,
                                      seen |-> column[x], at |-> "read", raced |-> FALSE]]
      /\ x \in Rows(column)
  BY DEF ColumnRead, Reads, Typed
<1>2. /\ req'[r].op \in {"updateColumn", "deleteColumn"} /\ req'[r].id = x /\ req'[r].seen = column[x]
      /\ \A q \in Requests \ {r} : req'[q] = req[q]
  BY <1>1
<1>3. Rows(column)' = Rows(column) /\ \A k : WithKey(k)' = WithKey(k)
  BY <1>1 DEF Rows, WithKey
<1>4. OrderKnown'
  BY <1>1, <1>2, <1>3 DEF OrderKnown, Doing
<1>5. column[x] # Nothing /\ column[x] # Removed
  BY <1>1 DEF Rows
<1>6. \A q \in Requests \ {r} : OnColumn(q)' => OnColumn(q) /\ (req[q].id = x => req[q].seen = column[x])
  BY <1>1, <1>2 DEF OnColumn, Doing, ColumnKnown
<1>7. ColumnKnown'
  BY <1>1, <1>2, <1>3, <1>5, <1>6 DEF ColumnKnown
<1>8. KeysKept' /\ ColumnsOrdered'
  BY <1>1, <1>3 DEF KeysKept, ColumnsOrdered, Rows
<1> QED BY <1>4, <1>7, <1>8

\* The new column has no key, and an order of its own, or raced for it; the others that
\* have read their order are told.
LEMMA CreateColumnSaves ==
  ASSUME ColumnsInv, Typed', NEW r \in Requests, CreateColumnSave(r), project
  PROVE  ColumnsInv'
<1> USE DEF ColumnsInv
<1>1. PICK x \in Columns, row \in NewColumn(r) :
        column[x] = Nothing /\ column' = [column EXCEPT ![x] = row] /\ MarkIfRaced(r, x)
  BY DEF CreateColumnSave
<1>2. /\ Doing(r, "createColumn", "read") /\ req' = Outdated(r) /\ UNCHANGED <<project, issue, dropped>>
      /\ column \in [Columns -> ColumnRow \cup {Nothing, Removed}]
  BY DEF CreateColumnSave, Typed, RowsTyped
<1>3. row.key = NoKey /\ row.order = req[r].seen /\ row \in ColumnRow /\ req[r].seen \in Nat
  BY <1>2, KindsTyped DEF NewColumn, ColumnRow
<1>4. column'[x] = row /\ \A c \in Columns \ {x} : column'[c] = column[c]
  BY <1>1, <1>2
<1>5. Rows(column)' = Rows(column) \cup {x} /\ x \notin Rows(column)
  <2>1. row \notin {Nothing, Removed}
    BY <1>3, PlanningAssumption
  <2> QED BY <1>1, <1>2, <1>4, <2>1 DEF Rows
<1>6. raced \subseteq raced' /\ (req[r].raced => x \in raced') /\ raced' \subseteq raced \cup {x}
  BY <1>1 DEF MarkIfRaced
<1>7. ColumnRequestsGoOn /\ req'[r] = Nothing
  BY <1>2, EndedGoesOn
<1>8. OrderKnown'
  <2>1. \A q \in Requests : Doing(q, "createColumn", "read")' => req'[q].raced
    <3>1. ASSUME NEW q \in Requests, Doing(q, "createColumn", "read")' PROVE req'[q].raced
      <4>1. q # r /\ Doing(q, "createColumn", "read")
        BY <1>7, <3>1 DEF ColumnRequestsGoOn, Doing
      <4>2. req'[q] = [req[q] EXCEPT !.raced = TRUE]
        BY <1>2, <4>1 DEF Outdated, Doing
      <4>3. req[q] \in Asked
        BY <4>1 DEF Doing, Typed
      <4> QED BY <4>2, <4>3 DEF Asked, Ask
    <3> QED BY <3>1
  <2> QED BY <2>1 DEF OrderKnown
<1>9. \A q \in Requests : OnColumn(q)' =>
        OnColumn(q) /\ req'[q].id = req[q].id /\ req'[q].seen = req[q].seen /\ req[q].id \in Columns \ {x}
  <2>1. ASSUME NEW q \in Requests, OnColumn(q)'
        PROVE  OnColumn(q) /\ req'[q].id = req[q].id /\ req'[q].seen = req[q].seen
    BY <1>7, <2>1 DEF OnColumn, ColumnRequestsGoOn
  <2>2. \A q \in Requests : OnColumn(q) => req[q].id \in Columns /\ req[q].id # x
    BY <1>1, KindsTyped DEF OnColumn, ColumnKnown
  <2> QED BY <2>1, <2>2
<1>10. ColumnKnown'
  BY <1>2, <1>4, <1>5, <1>9 DEF ColumnKnown
<1>11. KeysKept'
  <2>1. \A k \in DOMAIN DefaultBoard : k # NoKey
    BY PlanningAssumption
  <2>2. \A k \in DOMAIN DefaultBoard : WithKey(k)' = WithKey(k)
    <3>1. \A c \in Rows(column) : c \in Columns \ {x}
      BY <1>1, RowsAre DEF Rows
    <3> QED BY <1>3, <1>4, <1>5, <2>1, <3>1 DEF WithKey
  <2> QED BY <1>2, <1>5, <2>2 DEF KeysKept
<1>12. ColumnsOrdered'
  <2>1. ASSUME NEW c \in Rows(column), c \notin raced', ~req[r].raced PROVE column[c].order # row.order
    BY <1>2, <1>3, <1>6, <2>1, RowsAre DEF OrderKnown, ColumnRow
  <2>2. ASSUME NEW c \in Rows(column), NEW d \in Rows(column), c # d, column[c].order = column[d].order
        PROVE  {c, d} \cap raced' # {}
    BY <1>6, <2>2 DEF ColumnsOrdered
  <2>3. \A c \in Rows(column) : c # x /\ column'[c] = column[c]
    BY <1>4, <1>5, RowsAre
  <2> QED BY <1>4, <1>5, <1>6, <2>1, <2>2, <2>3 DEF ColumnsOrdered
<1> QED BY <1>8, <1>10, <1>11, <1>12

\* A column that comes back had its key dropped, and counts as raced for.
LEMMA UpdateColumnSaves ==
  ASSUME ColumnsInv, Typed', NEW r \in Requests, UpdateColumnSave(r)
  PROVE  ColumnsInv'
<1> USE DEF ColumnsInv
<1> DEFINE x == req[r].id
<1>1. /\ Doing(r, "updateColumn", "read") /\ OnColumn(r) /\ UNCHANGED <<project, issue, dropped>>
      /\ req' = Finished(r)
      /\ column \in [Columns -> ColumnRow \cup {Nothing, Removed}]
  BY DEF UpdateColumnSave, Typed, RowsTyped, OnColumn
<1>2. x \in Columns /\ req[r].seen \in ColumnRow
  BY <1>1, KindsTyped
<1>3. ColumnRequestsGoOn /\ req'[r] = Nothing
  BY <1>1, EndedGoesOn
<1>4. CASE ~(project /\ column[x] = Removed)
  BY <1>1, <1>3, <1>4, ColumnsKept DEF UpdateColumnSave, Rows
<1>5. CASE project /\ column[x] = Removed
  <2>1. /\ column' = [column EXCEPT ![x] = req[r].seen] /\ raced' = raced \cup {x}
        /\ req[r].seen.key \in dropped
    BY <1>1, <1>5 DEF UpdateColumnSave, ColumnKnown
  <2>2. column'[x] = req[r].seen /\ \A c \in Columns \ {x} : column'[c] = column[c]
    BY <1>1, <1>2, <2>1
  <2>3. Rows(column)' = Rows(column) \cup {x} /\ x \notin Rows(column)
    <3>1. req[r].seen \notin {Nothing, Removed}
      BY <1>2, PlanningAssumption
    <3> QED BY <1>1, <1>2, <1>5, <2>1, <2>2, <3>1 DEF Rows
  <2>4. \A c \in Rows(column) : c # x /\ c \in Columns /\ column'[c] = column[c]
    BY <2>2, <2>3, RowsAre
  <2>5. OrderKnown'
    BY <1>3, <2>1, <2>3, <2>4 DEF OrderKnown, ColumnRequestsGoOn
  <2>6. \A q \in Requests : OnColumn(q)' =>
          OnColumn(q) /\ req'[q].id = req[q].id /\ req'[q].seen = req[q].seen /\ req[q].id \in Columns
    BY <1>3, KindsTyped DEF OnColumn, ColumnRequestsGoOn
  <2>7. req[r].seen # Nothing /\ req[r].seen # Removed
    BY <1>2, PlanningAssumption
  <2>8. \A q \in Requests : OnColumn(q) /\ req[q].id = x => req[q].seen = req[r].seen
    BY <1>1 DEF ColumnKnown
  <2>9. ColumnKnown'
    BY <1>1, <2>2, <2>3, <2>6, <2>7, <2>8 DEF ColumnKnown
  <2>10. ASSUME NEW k \in DOMAIN DefaultBoard \ dropped PROVE WithKey(k)' = WithKey(k)
    <3>1. WithKey(k)' = {c \in Rows(column) \cup {x} : column'[c].key = k}
      BY <2>3 DEF WithKey
    <3>2. column'[x].key # k
      BY <2>1, <2>2
    <3> QED BY <2>4, <3>1, <3>2 DEF WithKey
  <2>11. KeysKept'
    BY <1>1, <1>5, <2>3, <2>10 DEF KeysKept
  <2>12. ColumnsOrdered'
    BY <2>1, <2>3, <2>4 DEF ColumnsOrdered
  <2> QED BY <2>5, <2>9, <2>11, <2>12
<1> QED BY <1>4, <1>5

\* The key of a column that is deleted is dropped.
LEMMA DeleteColumnRemoves ==
  ASSUME ColumnsInv, Typed', NEW r \in Requests, DeleteColumnRemove(r)
  PROVE  ColumnsInv'
<1> USE DEF ColumnsInv
<1> DEFINE x == req[r].id
<1>1. /\ Doing(r, "deleteColumn", "read") /\ OnColumn(r) /\ UNCHANGED <<project, issue, raced>>
      /\ req' = Finished(r) /\ column' = [column EXCEPT ![x] = Removed]
      /\ dropped' = dropped \cup {req[r].seen.key}
      /\ column \in [Columns -> ColumnRow \cup {Nothing, Removed}]
  BY DEF DeleteColumnRemove, Typed, RowsTyped, OnColumn
<1>2. x \in Columns /\ req[r].seen \in ColumnRow
  BY <1>1, KindsTyped
<1>3. ColumnRequestsGoOn /\ req'[r] = Nothing
  BY <1>1, EndedGoesOn
<1>4. column'[x] = Removed /\ \A c \in Columns \ {x} : column'[c] = column[c]
  BY <1>1, <1>2
<1>5. Rows(column)' = Rows(column) \ {x}
  BY <1>1, <1>4 DEF Rows
<1>6. \A c \in Rows(column)' : c \in Rows(column) /\ column'[c] = column[c]
  BY <1>4, <1>5, RowsAre
<1>7. OrderKnown'
  BY <1>1, <1>3, <1>6 DEF OrderKnown, ColumnRequestsGoOn
<1>8. \A q \in Requests : OnColumn(q)' =>
        OnColumn(q) /\ req'[q].id = req[q].id /\ req'[q].seen = req[q].seen /\ req[q].id \in Columns
  BY <1>3, KindsTyped DEF OnColumn, ColumnRequestsGoOn
<1>9. \A q \in Requests : OnColumn(q) /\ req[q].id = x => req[q].seen = req[r].seen
  BY <1>1 DEF ColumnKnown
<1>10. ColumnKnown'
  <2>1. ASSUME NEW q \in Requests, OnColumn(q)'
        PROVE  /\ column'[req'[q].id] # Nothing
               /\ req'[q].id \in Rows(column)' => column'[req'[q].id] = req'[q].seen
               /\ project' /\ column'[req'[q].id] = Removed => req'[q].seen.key \in dropped'
    <3>1. OnColumn(q) /\ req[q].id \in Columns /\ req'[q].id = req[q].id /\ req'[q].seen = req[q].seen
      BY <1>8, <2>1
    <3>2. CASE req[q].id = x
      BY <1>1, <1>4, <1>5, <1>9, <3>1, <3>2, PlanningAssumption
    <3>3. CASE req[q].id # x
      BY ZenonT(60), <1>1, <1>4, <1>6, <3>1, <3>3 DEF ColumnKnown
    <3> QED BY <3>2, <3>3
  <2>2. ASSUME NEW q \in Requests, NEW u \in Requests, OnColumn(q)', OnColumn(u)', req'[u].id = req'[q].id
        PROVE  req'[u].seen = req'[q].seen
    BY <1>8, <2>2 DEF ColumnKnown
  <2> QED BY <2>1, <2>2 DEF ColumnKnown
<1>11. \A k \in DOMAIN DefaultBoard \ dropped' : project => WithKey(k)' = WithKey(k)
  <2>1. x \in Rows(column) => column[x].key = req[r].seen.key
    BY <1>1 DEF ColumnKnown
  <2>2. ASSUME NEW k \in DOMAIN DefaultBoard \ dropped' PROVE x \notin WithKey(k)
    BY <1>1, <2>1, <2>2 DEF WithKey
  <2> QED BY <1>5, <1>6, <2>2 DEF WithKey
<1>12. KeysKept'
  BY <1>1, <1>5, <1>11 DEF KeysKept, WithKey, Rows
<1>13. ColumnsOrdered'
  BY <1>1, <1>6 DEF ColumnsOrdered
<1> QED BY <1>7, <1>10, <1>12, <1>13

\* Nothing is left of a project that was removed.
LEMMA RemoveProjectColumns == ASSUME ColumnsInv, Typed', RemoveProject PROVE ColumnsInv'
<1> USE DEF ColumnsInv
<1>1. /\ project' = FALSE /\ UNCHANGED <<req, dropped, raced>>
      /\ column' = [c \in Columns |-> Removed] /\ issue' = [i \in Issues |-> Removed]
  BY DEF RemoveProject
<1>2. Rows(column)' = {} /\ Rows(issue)' = {}
  BY <1>1 DEF Rows
<1>3. \A q \in Requests : OnColumn(q)' => OnColumn(q) /\ req[q].id \in Columns
  BY <1>1, KindsTyped DEF OnColumn, Doing
<1>4. ColumnKnown'
  BY <1>1, <1>2, <1>3, PlanningAssumption DEF ColumnKnown
<1> QED BY <1>1, <1>2, <1>4 DEF OrderKnown, KeysKept, ColumnsOrdered

\* A request that begins and is about no column.
LEMMA ReadsGoOn ==
  ASSUME Typed, NEW r \in Requests, NEW op, NEW id, NEW dto, NEW value, Reads(r, op, id, dto, value)
  PROVE  /\ \A q \in Requests \ {r} : req'[q] = req[q]
         /\ req'[r] = [op |-> op, id |-> id, dto |-> dto, seen |-> value, at |-> "read", raced |-> FALSE]
         /\ op \notin {"createColumn", "updateColumn", "deleteColumn"} => ColumnRequestsGoOn
         /\ UNCHANGED <<project, column, sprint, issue, dropped, raced, strays>>
BY DEF Reads, Typed, ColumnRequestsGoOn, Doing

\* complete and remove, between their steps.
LEMMA StagesGoOn ==
  ASSUME Typed, NEW r \in Requests, CompleteSweep(r) \/ RemoveDelete(r)
  PROVE  /\ \A q \in Requests \ {r} : req'[q] = req[q]
         /\ CompleteSweep(r) => /\ req'[r].op = "complete" /\ req'[r].at = "swept" /\ req'[r].id = req[r].id
                                /\ req'[r].seen = Unfinished(req[r].id)
         /\ RemoveDelete(r) /\ req'[r] # Nothing => req'[r].op = "remove" /\ req'[r].at = "deleting"
         /\ ColumnRequestsGoOn
<1>1. CASE CompleteSweep(r)
  <2>1. req' = [req EXCEPT ![r] = [req[r] EXCEPT !.seen = Unfinished(req[r].id), !.at = "swept"]]
    BY <1>1 DEF CompleteSweep
  <2>2. req[r] \in Asked /\ req[r].op = "complete"
    BY <1>1 DEF CompleteSweep, Doing, Typed
  <2>3. LET a == [req[r] EXCEPT !.seen = Unfinished(req[r].id), !.at = "swept"] IN
        a.op = "complete" /\ a.at = "swept" /\ a.id = req[r].id /\ a.seen = Unfinished(req[r].id)
    BY <2>2 DEF Asked, Ask
  <2>4. req'[r] = [req[r] EXCEPT !.seen = Unfinished(req[r].id), !.at = "swept"]
        /\ \A q \in Requests \ {r} : req'[q] = req[q]
    BY <2>1 DEF Typed
  <2>5. ~RemoveDelete(r)
    BY <1>1 DEF RemoveDelete, CompleteSweep, Doing
  <2> QED BY <1>1, <2>3, <2>4, <2>5 DEF ColumnRequestsGoOn, Doing
<1>2. CASE RemoveDelete(r)
  <2>1. req' = Finished(r) \/ req' = [req EXCEPT ![r] = [req[r] EXCEPT !.at = "deleting"]]
    BY <1>2 DEF RemoveDelete
  <2>2. req[r] \in Asked /\ req[r].op = "remove"
    BY <1>2 DEF RemoveDelete, Doing, Typed
  <2>3. LET a == [req[r] EXCEPT !.at = "deleting"] IN a.op = "remove" /\ a.at = "deleting"
    BY <2>2 DEF Asked, Ask
  <2>4. /\ req'[r] = Nothing \/ req'[r] = [req[r] EXCEPT !.at = "deleting"]
        /\ \A q \in Requests \ {r} : req'[q] = req[q]
    BY <2>1 DEF Typed, Finished
  <2>5. ~CompleteSweep(r)
    BY <1>2 DEF RemoveDelete, CompleteSweep, Doing
  <2> QED BY <1>2, <2>3, <2>4, <2>5 DEF ColumnRequestsGoOn, Doing
<1> QED BY <1>1, <1>2

\* Every step keeps what there is to know of the columns.
LEMMA ColumnsStep == ASSUME ColumnsInv, [Next]_vars PROVE ColumnsInv'
<1>0. Typed /\ Typed'
  BY TypedStep DEF ColumnsInv
<1>1. ASSUME NEW r \in Requests, CreateColumnRead(r) PROVE ColumnsInv'
  BY <1>0, <1>1, CreateColumnReads
<1>2. ASSUME NEW r \in Requests, NEW c \in Columns, ColumnRead(r, c) PROVE ColumnsInv'
  BY <1>0, <1>2, ColumnReads
<1>3. ASSUME NEW r \in Requests, NEW s \in Sprints, StartRead(r, s) \/ CompleteRead(r, s) \/ RemoveRead(r, s)
      PROVE  ColumnsInv'
  <2>1. \E op \in {"start", "complete", "remove"} : Reads(r, op, s, Nothing, sprint[s])
    BY <1>3 DEF StartRead, CompleteRead, RemoveRead
  <2> QED BY <1>0, <2>1, ReadsGoOn, ColumnsKept DEF Rows
<1>4. ASSUME NEW r \in Requests, NEW i \in Issues, EditRead(r, i) PROVE ColumnsInv'
  <2>1. PICK dto \in Dtos : Reads(r, "edit", i, dto, issue[i])
    BY <1>4 DEF EditRead
  <2>2. ColumnRequestsGoOn /\ UNCHANGED <<project, column, sprint, issue, dropped, raced, strays>>
    <3>1. "edit" \notin {"createColumn", "updateColumn", "deleteColumn"}
      OBVIOUS
    <3> QED BY <1>0, <2>1, <3>1, ReadsGoOn
  <2> QED BY <1>0, <2>2, ColumnsKept DEF Rows
<1>5. ASSUME NEW r \in Requests, CreateColumnSave(r) PROVE ColumnsInv'
  <2>1. CASE project
    BY <1>0, <1>5, <2>1, CreateColumnSaves
  <2>2. CASE ~project
    BY <1>0, <1>5, <2>2, EndedGoesOn, ColumnsKept DEF CreateColumnSave, Rows
  <2> QED BY <2>1, <2>2
<1>6. ASSUME NEW r \in Requests, UpdateColumnSave(r) PROVE ColumnsInv'
  BY <1>0, <1>6, UpdateColumnSaves
<1>7. ASSUME NEW r \in Requests, DeleteColumnRemove(r) PROVE ColumnsInv'
  BY <1>0, <1>7, DeleteColumnRemoves
<1>8. ASSUME NEW r \in Requests, StartSave(r) PROVE ColumnsInv'
  BY <1>0, <1>8, EndedGoesOn, ColumnsKept DEF StartSave, MarkIfRaced, Rows
<1>9. ASSUME NEW r \in Requests, CompleteSweep(r) \/ RemoveDelete(r) PROVE ColumnsInv'
  BY <1>0, <1>9, StagesGoOn, ColumnsKept DEF CompleteSweep, RemoveDelete, Rows
<1>10. ASSUME NEW r \in Requests, CompleteCommit(r) PROVE ColumnsInv'
  BY <1>0, <1>10, EndedGoesOn, ColumnsKept DEF CompleteCommit
<1>11. ASSUME NEW r \in Requests, RemoveCascade(r) PROVE ColumnsInv'
  BY <1>0, <1>11, EndedGoesOn, ColumnsKept DEF RemoveCascade
<1>12. ASSUME NEW r \in Requests, DatabaseError(r) \/ EditRefused(r) PROVE ColumnsInv'
  BY <1>0, <1>12, EndedGoesOn, ColumnsKept DEF DatabaseError, EditRefused, Abandoned, Rows
<1>13. ASSUME NEW r \in Requests, EditSave(r) PROVE ColumnsInv'
  BY <1>0, <1>13, EndedGoesOn, ColumnsKept DEF EditSave
<1>14. ASSUME NEW s \in Sprints, CreateSprint(s) PROVE ColumnsInv'
  BY <1>0, <1>14, ColumnsKept DEF CreateSprint, Rows, ColumnRequestsGoOn, Doing
<1>17. ASSUME NEW i \in Issues, CreateIssue(i) PROVE ColumnsInv'
  BY <1>0, <1>17, ColumnsKept DEF CreateIssue, ColumnRequestsGoOn, Doing
<1>15. CASE RemoveProject
  BY <1>0, <1>15, RemoveProjectColumns
<1>16. CASE UNCHANGED vars
  BY <1>0, <1>16, ColumnsKept DEF vars, Rows, ColumnRequestsGoOn, Doing
<1> QED BY <1>1, <1>2, <1>3, <1>4, <1>5, <1>6, <1>7, <1>8, <1>9, <1>10, <1>11, <1>12, <1>13, <1>14, <1>15, <1>16, <1>17
        DEF Next, Begin, Proceed

\* A column, or a request that has read it, holds the key.
Holds(c, k) ==
  \/ c \in Rows(column) /\ column[c].key = k
  \/ \E r \in Requests : OnColumn(r) /\ req[r].id = c /\ req[r].seen.key = k

\* A key other than '' is held for one column only.
KeysApart == \A c, d \in Columns : \A k \in Keys : Holds(c, k) /\ Holds(d, k) => c = d

\* The keys of the first board are on one column each.
LEMMA InitKeys == ASSUME Init PROVE KeysApart
<1>1. PICK f \in [DOMAIN DefaultBoard -> Columns] :
        /\ \A k \in DOMAIN DefaultBoard : column[f[k]] = [key |-> k, order |-> DefaultBoard[k]]
        /\ \A c \in Columns : column[c] = Nothing \/ \E k \in DOMAIN DefaultBoard : f[k] = c
  BY FirstColumns
<1>2. ASSUME NEW c \in Columns, NEW k \in Keys, Holds(c, k) PROVE k \in DOMAIN DefaultBoard /\ c = f[k]
  <2>1. c \in Rows(column) /\ column[c].key = k
    BY <1>2 DEF Holds, Init, OnColumn, Doing
  <2>2. PICK j \in DOMAIN DefaultBoard : f[j] = c
    BY <1>1, <2>1 DEF Rows
  <2>3. column[c] = [key |-> j, order |-> DefaultBoard[j]]
    BY <1>1, <2>2
  <2> QED BY <2>1, <2>2, <2>3
<1> QED BY <1>2 DEF KeysApart

\* No step makes a column, or a request, hold another key than '' that was not held
\* for it.
LEMMA KeysKeep ==
  ASSUME KeysApart,
         \A c \in Rows(column)' : column'[c].key = NoKey \/ Holds(c, column'[c].key),
         \A q \in Requests : OnColumn(q)' => Holds(req'[q].id, req'[q].seen.key)
  PROVE  KeysApart'
<1>1. ASSUME NEW c \in Columns, NEW k \in Keys, Holds(c, k)' PROVE Holds(c, k)
  <2>1. CASE c \in Rows(column)' /\ column'[c].key = k
    BY <2>1, PlanningAssumption
  <2>2. CASE \E q \in Requests : OnColumn(q)' /\ req'[q].id = c /\ req'[q].seen.key = k
    BY <2>2
  <2> QED BY <1>1, <2>1, <2>2 DEF Holds
<1> QED BY <1>1 DEF KeysApart

\* Every step keeps the keys apart.
LEMMA KeysStep == ASSUME Typed, KeysApart, [Next]_vars PROVE KeysApart'
<1>0. Typed'
  BY TypedStep
<1>1. \A c \in Rows(column) : Holds(c, column[c].key)
  BY DEF Holds
<1>2. ASSUME ColumnRequestsGoOn
      PROVE  \A q \in Requests : OnColumn(q)' => Holds(req'[q].id, req'[q].seen.key)
  BY <1>2 DEF ColumnRequestsGoOn, OnColumn, Holds
<1>3. ASSUME ColumnRequestsGoOn, UNCHANGED column PROVE KeysApart'
  <2>1. \A c \in Rows(column)' : Holds(c, column'[c].key)
    BY <1>1, <1>3 DEF Rows
  <2> QED BY <1>2, <1>3, <2>1, KeysKeep
<1>4. ASSUME NEW r \in Requests, NEW op, NEW id, NEW dto, NEW value, Reads(r, op, id, dto, value),
             op \in {"updateColumn", "deleteColumn"} => id \in Rows(column) /\ value = column[id]
      PROVE  KeysApart'
  <2>1. /\ \A q \in Requests \ {r} : req'[q] = req[q]
        /\ req'[r].op = op /\ req'[r].id = id /\ req'[r].seen = value
        /\ UNCHANGED column
    <3>1. Reads(r, op, id, dto, value)
      BY <1>4
    <3>2. /\ \A q \in Requests \ {r} : req'[q] = req[q]
          /\ req'[r] = [op |-> op, id |-> id, dto |-> dto, seen |-> value, at |-> "read", raced |-> FALSE]
          /\ UNCHANGED column
      BY <3>1, ReadsGoOn
    <3> QED BY <3>2
  <2>2. ASSUME NEW q \in Requests, OnColumn(q)' PROVE Holds(req'[q].id, req'[q].seen.key)
    <3>1. CASE q = r
      BY <1>1, <1>4, <2>1, <2>2, <3>1 DEF OnColumn, Doing
    <3>2. CASE q # r
      BY <2>1, <2>2, <3>2 DEF OnColumn, Doing, Holds
    <3> QED BY <3>1, <3>2
  <2>3. \A c \in Rows(column)' : Holds(c, column'[c].key)
    BY <1>1, <2>1 DEF Rows
  <2> QED BY <2>2, <2>3, KeysKeep
<1>5. ASSUME NEW r \in Requests, Begin(r) PROVE KeysApart'
  BY <1>4, <1>5 DEF Begin, CreateColumnRead, ColumnRead, StartRead, CompleteRead, RemoveRead, EditRead
<1>6. ASSUME NEW r \in Requests, req' = Finished(r) \/ req' = Outdated(r) PROVE ColumnRequestsGoOn
  BY <1>6, EndedGoesOn
<1>7. ASSUME NEW r \in Requests, CreateColumnSave(r) PROVE KeysApart'
  <2>1. ColumnRequestsGoOn
    BY <1>6, <1>7 DEF CreateColumnSave
  <2>2. CASE UNCHANGED column
    BY <1>3, <2>1, <2>2
  <2>3. CASE project
    <3>1. PICK x \in Columns, row \in NewColumn(r) : column' = [column EXCEPT ![x] = row]
      BY <1>7, <2>3 DEF CreateColumnSave
    <3>2. column'[x] = row /\ row.key = NoKey /\ \A c \in Columns \ {x} : column'[c] = column[c]
      BY <3>1 DEF NewColumn, Typed, RowsTyped
    <3>3. DOMAIN column' = Columns /\ DOMAIN column = Columns
      BY <3>1 DEF Typed, RowsTyped
    <3>4. ASSUME NEW c \in Rows(column)' PROVE column'[c].key = NoKey \/ Holds(c, column'[c].key)
      <4>1. CASE c = x
        BY <3>2, <4>1
      <4>2. CASE c # x
        <5>1. c \in Rows(column) /\ column'[c] = column[c]
          BY <3>2, <3>3, <3>4, <4>2 DEF Rows
        <5> QED BY <1>1, <5>1
      <4> QED BY <4>1, <4>2
    <3> QED BY <1>2, <2>1, <3>4, KeysKeep
  <2> QED BY <1>7, <2>2, <2>3 DEF CreateColumnSave
<1>8. ASSUME NEW r \in Requests, UpdateColumnSave(r) PROVE KeysApart'
  <2>1. /\ ColumnRequestsGoOn /\ OnColumn(r)
        /\ UNCHANGED column \/ column' = [column EXCEPT ![req[r].id] = req[r].seen]
    BY <1>6, <1>8 DEF UpdateColumnSave, OnColumn
  <2>2. Holds(req[r].id, req[r].seen.key) /\ req[r].id \in Columns
    BY <1>8, <2>1, KindsTyped DEF Holds, UpdateColumnSave
  <2>3. CASE column' = [column EXCEPT ![req[r].id] = req[r].seen]
    <3>1. PICK x \in Columns : x = req[r].id
      BY <2>2
    <3>2. column'[x] = req[r].seen /\ \A c \in Columns \ {x} : column'[c] = column[c]
      BY <2>3, <3>1 DEF Typed, RowsTyped
    <3>3. DOMAIN column' = Columns /\ DOMAIN column = Columns
      BY <2>3 DEF Typed, RowsTyped
    <3>4. ASSUME NEW c \in Rows(column)' PROVE Holds(c, column'[c].key)
      <4>1. CASE c = x
        BY <2>2, <3>1, <3>2, <4>1
      <4>2. CASE c # x
        <5>1. c \in Rows(column) /\ column'[c] = column[c]
          BY <3>2, <3>3, <3>4, <4>2 DEF Rows
        <5> QED BY <1>1, <5>1
      <4> QED BY <4>1, <4>2
    <3> QED BY <1>2, <2>1, <3>4, KeysKeep
  <2> QED BY <1>3, <2>1, <2>3
<1>9. ASSUME NEW r \in Requests, DeleteColumnRemove(r) PROVE KeysApart'
  <2>1. /\ ColumnRequestsGoOn
        /\ column' = [column EXCEPT ![req[r].id] = Removed]
    BY <1>6, <1>9 DEF DeleteColumnRemove
  <2>2. ASSUME NEW c \in Rows(column)' PROVE c \in Rows(column) /\ column'[c] = column[c]
    BY <2>1, <2>2 DEF Rows, Typed, RowsTyped
  <2> QED BY <1>1, <1>2, <2>1, <2>2, KeysKeep
<1>10. ASSUME NEW r \in Requests, StartSave(r) \/ CompleteCommit(r) \/ RemoveCascade(r) \/ DatabaseError(r)
                                   \/ EditSave(r) \/ EditRefused(r)
       PROVE  KeysApart'
  BY <1>3, <1>6, <1>10 DEF StartSave, CompleteCommit, RemoveCascade, DatabaseError, EditSave, EditRefused, Abandoned
<1>11. ASSUME NEW r \in Requests, CompleteSweep(r) \/ RemoveDelete(r) PROVE KeysApart'
  BY <1>3, <1>11, StagesGoOn DEF CompleteSweep, RemoveDelete
<1>12. ASSUME UNCHANGED <<column, req>> PROVE KeysApart'
  BY <1>3, <1>12 DEF ColumnRequestsGoOn, Doing
<1>13. ASSUME RemoveProject PROVE KeysApart'
  <2>1. Rows(column)' = {} /\ UNCHANGED req
    BY <1>13 DEF RemoveProject, Rows
  <2>2. ColumnRequestsGoOn
    BY <2>1 DEF ColumnRequestsGoOn, Doing
  <2> QED BY <1>2, <2>1, <2>2, KeysKeep
<1>14. ASSUME NEW s \in Sprints, CreateSprint(s) PROVE KeysApart'
  BY <1>12, <1>14 DEF CreateSprint
<1>15. ASSUME NEW i \in Issues, CreateIssue(i) PROVE KeysApart'
  BY <1>12, <1>15 DEF CreateIssue
<1>16. CASE UNCHANGED vars
  BY <1>12, <1>16 DEF vars
<1> QED BY <1>5, <1>7, <1>8, <1>9, <1>10, <1>11, <1>13, <1>14, <1>15, <1>16 DEF Next, Proceed

-----------------------------------------------------------------------------
(* Sprints.                                                                *)

\* At most one sprint is active to begin with, and none completed.
LEMMA InitSprints == ASSUME Init PROVE SprintsInv
<1>1. Typed /\ \A r \in Requests : req[r] = Nothing
  BY InitTyped DEF Init
<1>2. OneActiveSprint
  BY DEF Init, OneActiveSprint
<1>3. \A s \in Sprints : sprint[s] # "COMPLETED"
  BY PlanningAssumption DEF Init, SprintStatus
<1> QED BY <1>1, <1>2, <1>3 DEF SprintsInv, StartKnown, SweepKnown, CompletedSprintsDrained, Doing

\* Of the requests that start a sprint or have swept one, none has got there just now.
SprintRequestsGoOn ==
  \A q \in Requests :
    /\ Doing(q, "start", "read")' =>
         Doing(q, "start", "read") /\ req'[q].id = req[q].id /\ (req[q].raced => req'[q].raced)
    /\ Doing(q, "complete", "swept")' =>
         Doing(q, "complete", "swept") /\ req'[q].id = req[q].id /\ req'[q].seen = req[q].seen

\* Steps that make no sprint active or completed, and put no unfinished issue in one
\* but as a stray.
LEMMA SprintsKept ==
  ASSUME SprintsInv, Typed', raced \subseteq raced', strays \subseteq strays', SprintRequestsGoOn,
         \A s \in Sprints : sprint'[s] \in {"ACTIVE", "COMPLETED"} => sprint'[s] = sprint[s],
         \A s \in Sprints : \A i \in Unfinished(s)' :
           i \in Unfinished(s) \/ i \in strays' \/ ~Completing(s)
  PROVE  SprintsInv'
<1> USE DEF SprintsInv
<1>1. StartKnown'
  BY DEF StartKnown, SprintRequestsGoOn
<1>2. SweepKnown'
  <2>1. ASSUME NEW r \in Requests, Doing(r, "complete", "swept")'
        PROVE  (Unfinished(req[r].id) \subseteq req[r].seen \cup strays)'
    <3>1. Doing(r, "complete", "swept") /\ req'[r].id = req[r].id /\ req'[r].seen = req[r].seen
      BY <2>1 DEF SprintRequestsGoOn
    <3>2. PICK s \in Sprints : s = req[r].id
      BY <3>1, KindsTyped
    <3>3. Completing(s)
      BY <3>1, <3>2 DEF Completing
    <3>4. Unfinished(s) \subseteq req[r].seen \cup strays
      BY <3>1, <3>2 DEF SweepKnown
    <3>5. Unfinished(s)' \subseteq req'[r].seen \cup strays'
      BY <3>1, <3>3, <3>4
    <3> QED BY <3>1, <3>2, <3>5 DEF Unfinished, InSprint
  <2> QED BY <2>1 DEF SweepKnown
<1>3. OneActiveSprint'
  BY DEF OneActiveSprint
<1>4. CompletedSprintsDrained'
  <2>1. ASSUME NEW s \in Sprints, sprint'[s] = "COMPLETED" PROVE Unfinished(s)' \subseteq strays'
    <3>1. sprint[s] = "COMPLETED" /\ Completing(s)
      BY <2>1 DEF Completing
    <3> QED BY <3>1 DEF CompletedSprintsDrained
  <2> QED BY <2>1 DEF CompletedSprintsDrained
<1> QED BY <1>1, <1>2, <1>3, <1>4

\* A request that begins and starts no sprint.
LEMMA ReadsKeepSprints ==
  ASSUME SprintsInv, Typed', NEW r \in Requests, NEW op, NEW id, NEW dto, NEW value,
         Reads(r, op, id, dto, value), op # "start"
  PROVE  SprintsInv'
<1>1. /\ \A q \in Requests \ {r} : req'[q] = req[q]
      /\ req'[r] = [op |-> op, id |-> id, dto |-> dto, seen |-> value, at |-> "read", raced |-> FALSE]
      /\ UNCHANGED <<sprint, issue, raced, strays>>
  BY ReadsGoOn DEF SprintsInv
<1>2. SprintRequestsGoOn
  <2>1. req'[r].op = op /\ req'[r].at = "read"
    BY <1>1
  <2> QED BY <1>1, <2>1 DEF SprintRequestsGoOn, Doing
<1>3. \A s \in Sprints : Unfinished(s)' = Unfinished(s)
  BY <1>1 DEF Unfinished, InSprint, Rows
<1> QED BY <1>1, <1>2, <1>3, SprintsKept

\* A request that ends and has touched neither sprints nor issues.
LEMMA EndsKeepSprints ==
  ASSUME SprintsInv, Typed', NEW r \in Requests, req' = Finished(r) \/ req' = Outdated(r),
         UNCHANGED <<sprint, issue, strays>>, raced \subseteq raced'
  PROVE  SprintsInv'
<1>1. SprintRequestsGoOn
  BY EndedGoesOn DEF SprintsInv, SprintRequestsGoOn, Doing
<1>2. \A s \in Sprints : Unfinished(s)' = Unfinished(s)
  BY DEF Unfinished, InSprint, Rows
<1> QED BY <1>1, <1>2, SprintsKept

\* start has seen no other active sprint.
LEMMA StartReads ==
  ASSUME SprintsInv, Typed', NEW r \in Requests, NEW x \in Sprints, StartRead(r, x)
  PROVE  SprintsInv'
<1> USE DEF SprintsInv
<1>1. /\ Reads(r, "start", x, Nothing, sprint[x])
      /\ \A t \in Sprints \ {x} : sprint[t] # "ACTIVE"
  BY DEF StartRead, MayStart, OthersActive
<1>2. /\ \A q \in Requests \ {r} : req'[q] = req[q]
      /\ req'[r] = [op |-> "start", id |-> x, dto |-> Nothing, seen |-> sprint[x], at |-> "read", raced |-> FALSE]
      /\ UNCHANGED <<sprint, issue, raced, strays>>
  BY <1>1, ReadsGoOn
<1>3. req'[r].op = "start" /\ req'[r].id = x
  BY <1>2
<1>4. StartKnown'
  <2>1. ASSUME NEW q \in Requests, Doing(q, "start", "read")', ~req'[q].raced,
               NEW t \in Sprints \ {req'[q].id}, sprint[t] = "ACTIVE"
        PROVE  t \in raced
    <3>1. CASE q = r
      BY <1>1, <1>3, <2>1, <3>1
    <3>2. CASE q # r
      BY <1>2, <2>1, <3>2 DEF StartKnown, Doing
    <3> QED BY <3>1, <3>2
  <2> QED BY <1>2, <2>1 DEF StartKnown
<1>5. \A s : Unfinished(s)' = Unfinished(s)
  BY <1>2 DEF Unfinished, InSprint, Rows
<1>6. SweepKnown'
  <2>1. ASSUME NEW q \in Requests, Doing(q, "complete", "swept")'
        PROVE  (Unfinished(req[q].id) \subseteq req[q].seen \cup strays)'
    <3>1. q # r
      BY <1>3, <2>1 DEF Doing
    <3>2. Doing(q, "complete", "swept") /\ req'[q] = req[q]
      BY <1>2, <2>1, <3>1 DEF Doing
    <3>3. Unfinished(req[q].id) \subseteq req[q].seen \cup strays
      BY <3>2 DEF SweepKnown
    <3> QED BY <1>2, <3>2, <3>3 DEF Unfinished, InSprint, Rows
  <2> QED BY <2>1 DEF SweepKnown
<1>7. OneActiveSprint' /\ CompletedSprintsDrained'
  BY <1>2, <1>5 DEF OneActiveSprint, CompletedSprintsDrained
<1> QED BY <1>4, <1>6, <1>7

\* A sprint that is started has seen no other active one, but for raced ones, or is raced
\* itself; the other starts are told.
LEMMA StartSaves ==
  ASSUME SprintsInv, Typed', NEW r \in Requests, StartSave(r)
  PROVE  SprintsInv'
<1> USE DEF SprintsInv
<1>1. CASE ~project
  BY <1>1, EndsKeepSprints DEF StartSave
<1>2. CASE project
  <2>1. PICK x \in Sprints : x = req[r].id
    BY KindsTyped DEF StartSave
  <2>2. /\ Doing(r, "start", "read") /\ sprint' = [sprint EXCEPT ![x] = "ACTIVE"] /\ req' = Outdated(r)
        /\ UNCHANGED <<issue, strays>> /\ MarkIfRaced(r, x)
    BY <1>2, <2>1 DEF StartSave
  <2>3. sprint'[x] = "ACTIVE" /\ \A t \in Sprints \ {x} : sprint'[t] = sprint[t]
    BY <2>2 DEF Typed, RowsTyped
  <2>4. raced \subseteq raced' /\ (req[r].raced => x \in raced')
    BY <2>2 DEF MarkIfRaced
  <2>5. ASSUME NEW q \in Requests, Doing(q, "start", "read")' PROVE req'[q].raced
    <3>1. q # r /\ Doing(q, "start", "read")
      BY <2>2, <2>5, EndedGoesOn DEF Doing
    <3>2. req'[q] = [req[q] EXCEPT !.raced = TRUE]
      BY <2>2, <3>1 DEF Outdated, Doing
    <3>3. req[q] \in Asked
      BY <3>1 DEF Doing, Typed
    <3> QED BY <3>2, <3>3 DEF Asked, Ask
  <2>6. StartKnown'
    BY <2>5 DEF StartKnown
  <2>7. \A s : Unfinished(s)' = Unfinished(s)
    BY <2>2 DEF Unfinished, InSprint, Rows
  <2>8. SweepKnown'
    <3>1. ASSUME NEW q \in Requests, Doing(q, "complete", "swept")'
          PROVE  (Unfinished(req[q].id) \subseteq req[q].seen \cup strays)'
      <4>1. Doing(q, "complete", "swept") /\ req'[q].id = req[q].id /\ req'[q].seen = req[q].seen
        BY <2>2, <3>1, EndedGoesOn DEF Doing
      <4>2. Unfinished(req[q].id) \subseteq req[q].seen \cup strays
        BY <4>1 DEF SweepKnown
      <4> QED BY <2>2, <4>1, <4>2 DEF Unfinished, InSprint, Rows
    <3> QED BY <3>1 DEF SweepKnown
  <2>9. OneActiveSprint'
    <3>1. ASSUME NEW t \in Sprints \ {x}, sprint[t] = "ACTIVE" PROVE {x, t} \cap raced' # {}
      BY <2>1, <2>2, <2>4, <3>1 DEF StartKnown
    <3>2. ASSUME NEW s \in Sprints \ {x}, NEW t \in Sprints \ {x}, s # t, sprint[s] = "ACTIVE", sprint[t] = "ACTIVE"
          PROVE  {s, t} \cap raced' # {}
      BY <2>4, <3>2 DEF OneActiveSprint
    <3> QED BY <2>3, <3>1, <3>2 DEF OneActiveSprint
  <2>10. CompletedSprintsDrained'
    BY <2>2, <2>3, <2>7 DEF CompletedSprintsDrained
  <2> QED BY <2>6, <2>8, <2>9, <2>10
<1> QED BY <1>1, <1>2

\* What complete has moved is all that was unfinished.
LEMMA CompleteSweeps ==
  ASSUME SprintsInv, Typed', NEW r \in Requests, CompleteSweep(r)
  PROVE  SprintsInv'
<1> USE DEF SprintsInv
<1>1. UNCHANGED <<sprint, issue, raced, strays>>
  BY DEF CompleteSweep
<1>2. /\ \A q \in Requests \ {r} : req'[q] = req[q]
      /\ req'[r].op = "complete" /\ req'[r].id = req[r].id /\ req'[r].seen = Unfinished(req[r].id)
  BY StagesGoOn
<1>3. \A s : Unfinished(s)' = Unfinished(s)
  BY <1>1 DEF Unfinished, InSprint, Rows
<1>4. StartKnown'
  <2>1. \A q \in Requests : Doing(q, "start", "read")' => q # r
    BY <1>2 DEF Doing
  <2> QED BY <1>1, <1>2, <2>1 DEF StartKnown, Doing
<1>5. SweepKnown'
  <2>1. ASSUME NEW q \in Requests, Doing(q, "complete", "swept")'
        PROVE  (Unfinished(req[q].id) \subseteq req[q].seen \cup strays)'
    <3>1. CASE q = r
      BY <1>1, <1>2, <3>1 DEF Unfinished, InSprint, Rows
    <3>2. CASE q # r
      <4>1. Doing(q, "complete", "swept") /\ req'[q] = req[q]
        BY <1>2, <2>1, <3>2 DEF Doing
      <4>2. Unfinished(req[q].id) \subseteq req[q].seen \cup strays
        BY <4>1 DEF SweepKnown
      <4> QED BY <1>1, <4>1, <4>2 DEF Unfinished, InSprint, Rows
    <3> QED BY <3>1, <3>2
  <2> QED BY <2>1 DEF SweepKnown
<1>6. OneActiveSprint' /\ CompletedSprintsDrained'
  BY <1>1, <1>3 DEF OneActiveSprint, CompletedSprintsDrained
<1> QED BY <1>4, <1>5, <1>6

\* Of the unfinished issues of the sprint, those complete has moved leave it now; the
\* others are strays.
LEMMA CompleteCommits ==
  ASSUME SprintsInv, Typed', NEW r \in Requests, CompleteCommit(r)
  PROVE  SprintsInv'
<1> USE DEF SprintsInv
<1>1. PICK x \in Sprints : x = req[r].id
  BY KindsTyped DEF CompleteCommit
<1>2. /\ Doing(r, "complete", "swept") /\ sprint' = [sprint EXCEPT ![x] = "COMPLETED"] /\ req' = Finished(r)
      /\ issue' = [i \in Issues |-> IF i \in req[r].seen THEN SweptIssue(issue[i]) ELSE issue[i]]
      /\ UNCHANGED <<raced, strays>>
  BY <1>1 DEF CompleteCommit
<1>3. sprint'[x] = "COMPLETED" /\ \A t \in Sprints \ {x} : sprint'[t] = sprint[t]
  BY <1>2 DEF Typed, RowsTyped
<1>4. ASSUME NEW s \in Sprints PROVE Unfinished(s)' \subseteq Unfinished(s) \ req[r].seen
  <2>1. ASSUME NEW i \in Issues, i \in Unfinished(s)' PROVE i \in Unfinished(s) \ req[r].seen
    <3>1. issue'[i].sprint = s
      BY <2>1 DEF Unfinished, InSprint
    <3>2. i \notin req[r].seen
      <4>1. SweptIssue(issue[i]).sprint = Nothing /\ s # Nothing
        BY PlanningAssumption DEF SweptIssue
      <4> QED BY <1>2, <3>1, <4>1
    <3>3. issue'[i] = issue[i] /\ i \in DOMAIN issue
      BY <1>2, <3>2 DEF Typed, RowsTyped
    <3> QED BY <2>1, <3>2, <3>3 DEF Unfinished, InSprint, Rows
  <2>2. Unfinished(s)' \subseteq Issues
    BY <1>2 DEF Unfinished, InSprint, Rows
  <2> QED BY <2>1, <2>2
<1>5. Unfinished(x) \subseteq req[r].seen \cup strays
  BY <1>1, <1>2 DEF SweepKnown
<1>6. \A q \in Requests : Doing(q, "start", "read")' \/ Doing(q, "complete", "swept")' => q # r /\ req'[q] = req[q]
  BY <1>2 DEF Finished, Typed, Doing
<1>7. StartKnown'
  BY <1>2, <1>3, <1>6 DEF StartKnown, Doing
<1>8. SweepKnown'
  <2>1. ASSUME NEW q \in Requests, Doing(q, "complete", "swept")'
        PROVE  (Unfinished(req[q].id) \subseteq req[q].seen \cup strays)'
    <3>1. Doing(q, "complete", "swept") /\ req'[q] = req[q]
      BY <1>6, <2>1 DEF Doing
    <3>2. PICK s \in Sprints : s = req[q].id
      BY <3>1, KindsTyped
    <3>3. Unfinished(s) \subseteq req[q].seen \cup strays
      BY <3>1, <3>2 DEF SweepKnown
    <3>4. Unfinished(s)' \subseteq req[q].seen \cup strays
      BY <1>4, <3>3
    <3> QED BY <1>2, <3>1, <3>2, <3>4 DEF Unfinished, InSprint
  <2> QED BY <2>1 DEF SweepKnown
<1>9. OneActiveSprint'
  BY <1>2, <1>3 DEF OneActiveSprint
<1>10. CompletedSprintsDrained'
  <2>1. ASSUME NEW s \in Sprints, sprint'[s] = "COMPLETED" PROVE Unfinished(s)' \subseteq strays
    <3>1. CASE s = x
      BY <1>4, <1>5, <3>1
    <3>2. CASE s # x
      BY <1>3, <1>4, <2>1, <3>2 DEF CompletedSprintsDrained
    <3> QED BY <3>1, <3>2
  <2> QED BY <1>2, <2>1 DEF CompletedSprintsDrained
<1> QED BY <1>7, <1>8, <1>9, <1>10

\* The issues of a sprint that is removed leave it.
LEMMA RemoveCascades ==
  ASSUME SprintsInv, Typed', NEW r \in Requests, RemoveCascade(r)
  PROVE  SprintsInv'
<1>1. PICK x \in Sprints : x = req[r].id
  BY KindsTyped DEF RemoveCascade, SprintsInv
<1>2. /\ sprint' = [sprint EXCEPT ![x] = Removed] /\ req' = Finished(r)
      /\ issue' = [i \in Issues |-> IF i \in InSprint(x) THEN [issue[i] EXCEPT !.sprint = Nothing] ELSE issue[i]]
      /\ UNCHANGED <<raced, strays>>
  BY <1>1 DEF RemoveCascade
<1>3. \A s \in Sprints : sprint'[s] \in {"ACTIVE", "COMPLETED"} => sprint'[s] = sprint[s]
  BY <1>2, PlanningAssumption DEF SprintsInv, Typed, RowsTyped, SprintStatus
<1>4. ASSUME NEW s \in Sprints, NEW i \in Unfinished(s)' PROVE i \in Unfinished(s)
  <2>1. i \in Issues /\ issue'[i].sprint = s
    BY <1>2, <1>4 DEF Unfinished, InSprint, Rows
  <2>2. i \notin InSprint(x)
    <3>1. ASSUME i \in InSprint(x) PROVE FALSE
      <4>1. issue'[i] = [issue[i] EXCEPT !.sprint = Nothing] /\ issue[i] \in IssueRow
        BY <1>2, <2>1, <3>1, RowsAre DEF InSprint, SprintsInv
      <4>2. issue'[i].sprint = Nothing
        BY <4>1 DEF IssueRow
      <4> QED BY <2>1, <4>2, PlanningAssumption
    <3> QED BY <3>1
  <2>3. issue'[i] = issue[i] /\ i \in DOMAIN issue
    BY <1>2, <2>1, <2>2 DEF SprintsInv, Typed, RowsTyped
  <2> QED BY <1>4, <2>1, <2>3 DEF Unfinished, InSprint, Rows
<1>5. SprintRequestsGoOn
  BY <1>2, EndedGoesOn DEF SprintRequestsGoOn, Doing, SprintsInv
<1> QED BY <1>2, <1>3, <1>4, <1>5, SprintsKept

\* An unfinished issue that is put in a sprint is a stray when the sprint is completed,
\* or is being completed.
LEMMA IssueSaved ==
  ASSUME SprintsInv, Typed', NEW x \in Issues, NEW row \in IssueRow,
         issue' = [issue EXCEPT ![x] = row], strays' = Strayed(x, row),
         UNCHANGED <<sprint, raced>>, SprintRequestsGoOn
  PROVE  SprintsInv'
<1>1. strays' = IF row.sprint # Nothing /\ Completing(row.sprint) /\ row.status # Done
                THEN strays \cup {x} ELSE strays
  BY DEF Strayed
<1>2. issue'[x] = row /\ DOMAIN issue' = Issues /\ \A i \in Issues \ {x} : issue'[i] = issue[i]
  BY DEF SprintsInv, Typed, RowsTyped
<1>3. ASSUME NEW s \in Sprints, NEW i \in Unfinished(s)'
      PROVE  i \in Unfinished(s) \/ i \in strays' \/ ~Completing(s)
  <2>1. i \in Issues /\ issue'[i].sprint = s /\ issue'[i].status # Done /\ issue'[i] \notin {Nothing, Removed}
    BY <1>2, <1>3 DEF Unfinished, InSprint, Rows
  <2>2. CASE i = x
    BY <1>1, <1>2, <2>1, <2>2, PlanningAssumption
  <2>3. CASE i # x
    BY <1>2, <2>1, <2>3 DEF Unfinished, InSprint, Rows, SprintsInv, Typed, RowsTyped
  <2> QED BY <2>2, <2>3
<1> QED BY <1>1, <1>3, SprintsKept

\* So by an update,
LEMMA EditSaves ==
  ASSUME SprintsInv, Typed', NEW r \in Requests, EditSave(r)
  PROVE  SprintsInv'
<1>1. PICK x \in Issues : x = req[r].id
  BY KindsTyped DEF EditSave, SprintsInv
<1>2. PICK row \in Written(r) : issue' = [issue EXCEPT ![x] = row] /\ strays' = Strayed(x, row)
  BY <1>1 DEF EditSave
<1>3. row \in IssueRow
  BY <1>2, WrittenTyped DEF EditSave, SprintsInv
<1>4. req' = Finished(r) /\ UNCHANGED <<sprint, raced>>
  BY DEF EditSave
<1>5. SprintRequestsGoOn
  BY <1>4, EndedGoesOn DEF SprintRequestsGoOn, Doing, SprintsInv
<1> QED BY <1>2, <1>3, <1>4, <1>5, IssueSaved

\* or by a create.
LEMMA IssueCreated ==
  ASSUME SprintsInv, Typed', NEW i \in Issues, CreateIssue(i)
  PROVE  SprintsInv'
<1>1. PICK row \in IssueRow : issue' = [issue EXCEPT ![i] = row] /\ strays' = Strayed(i, row)
  BY DEF CreateIssue
<1>2. UNCHANGED <<sprint, raced, req>>
  BY DEF CreateIssue
<1>3. SprintRequestsGoOn
  BY <1>2 DEF SprintRequestsGoOn, Doing
<1> QED BY <1>1, <1>2, <1>3, IssueSaved

\* Every step keeps what there is to know of the sprints.
LEMMA SprintsStep == ASSUME SprintsInv, [Next]_vars PROVE SprintsInv'
<1>0. Typed /\ Typed'
  BY TypedStep DEF SprintsInv
<1>1. ASSUME NEW r \in Requests, NEW op, NEW id, NEW dto, NEW value,
             Reads(r, op, id, dto, value), op # "start"
      PROVE  SprintsInv'
  BY <1>0, <1>1, ReadsKeepSprints
<1>2. ASSUME NEW r \in Requests, CreateColumnRead(r) \/ \E c \in Columns : ColumnRead(r, c) PROVE SprintsInv'
  <2>1. \E op \in {"createColumn", "updateColumn", "deleteColumn"} : \E id, value : Reads(r, op, id, Nothing, value)
    BY <1>2 DEF CreateColumnRead, ColumnRead
  <2> QED BY <1>1, <2>1
<1>3. ASSUME NEW r \in Requests, NEW s \in Sprints, CompleteRead(r, s) \/ RemoveRead(r, s) PROVE SprintsInv'
  <2>1. \E op \in {"complete", "remove"} : Reads(r, op, s, Nothing, sprint[s])
    BY <1>3 DEF CompleteRead, RemoveRead
  <2> QED BY <1>1, <2>1
<1>4. ASSUME NEW r \in Requests, NEW i \in Issues, EditRead(r, i) PROVE SprintsInv'
  BY <1>1, <1>4 DEF EditRead
<1>5. ASSUME NEW r \in Requests, NEW s \in Sprints, StartRead(r, s) PROVE SprintsInv'
  BY <1>0, <1>5, StartReads
<1>6. ASSUME NEW r \in Requests, CreateColumnSave(r) \/ UpdateColumnSave(r) \/ DeleteColumnRemove(r)
                                   \/ DatabaseError(r) \/ EditRefused(r)
      PROVE  SprintsInv'
  BY <1>0, <1>6, EndsKeepSprints DEF CreateColumnSave, UpdateColumnSave, DeleteColumnRemove, DatabaseError,
       EditRefused, Abandoned, MarkIfRaced
<1>7. ASSUME NEW r \in Requests, StartSave(r) \/ CompleteSweep(r) \/ CompleteCommit(r) \/ RemoveCascade(r) \/ EditSave(r)
      PROVE  SprintsInv'
  BY <1>0, <1>7, StartSaves, CompleteSweeps, CompleteCommits, RemoveCascades, EditSaves
<1>8. ASSUME NEW r \in Requests, RemoveDelete(r) PROVE SprintsInv'
  <2>1. SprintRequestsGoOn
    BY <1>0, <1>8, StagesGoOn DEF SprintRequestsGoOn, Doing
  <2>2. UNCHANGED <<sprint, issue, raced, strays>> /\ \A s : Unfinished(s)' = Unfinished(s)
    BY <1>8 DEF RemoveDelete, Unfinished, InSprint, Rows
  <2> QED BY <1>0, <2>1, <2>2, SprintsKept
<1>9. ASSUME UNCHANGED <<req, raced, strays>>, \A s : Unfinished(s)' \subseteq Unfinished(s),
             \A s \in Sprints : sprint'[s] \in {"ACTIVE", "COMPLETED"} => sprint'[s] = sprint[s]
      PROVE  SprintsInv'
  BY <1>0, <1>9, SprintsKept DEF SprintRequestsGoOn, Doing
<1>10. ASSUME NEW s \in Sprints, CreateSprint(s) PROVE SprintsInv'
  <2>1. \A t \in Sprints : sprint'[t] \in {"ACTIVE", "COMPLETED"} => sprint'[t] = sprint[t]
    BY <1>0, <1>10 DEF CreateSprint, Typed, RowsTyped
  <2> QED BY <1>9, <1>10, <2>1 DEF CreateSprint, Unfinished, InSprint, Rows
<1>13. ASSUME NEW i \in Issues, CreateIssue(i) PROVE SprintsInv'
  BY <1>0, <1>13, IssueCreated
<1>11. CASE RemoveProject
  <2>1. Rows(issue)' = {}
    BY <1>11 DEF RemoveProject, Rows
  <2>2. \A t \in Sprints : sprint'[t] \notin {"ACTIVE", "COMPLETED"}
    BY <1>11, PlanningAssumption DEF RemoveProject, SprintStatus
  <2> QED BY <1>9, <1>11, <2>1, <2>2 DEF RemoveProject, Unfinished, InSprint
<1>12. CASE UNCHANGED vars
  BY <1>9, <1>12 DEF vars, Unfinished, InSprint, Rows
<1> QED BY <1>2, <1>3, <1>4, <1>5, <1>6, <1>7, <1>8, <1>10, <1>11, <1>12, <1>13 DEF Next, Begin, Proceed

-----------------------------------------------------------------------------
(* The guarantees.                                                         *)

\* However column requests race, and whatever else runs, the variables have their types,
\* no key but '' is on two columns, and each key of the first board has a column until
\* that is deleted.
THEOREM KeysHaveOneColumn == Spec => []PlanningInv
<1>1. ColumnsInv /\ KeysApart => PlanningInv
  <2>1. ASSUME ColumnsInv, project, NEW k \in DOMAIN DefaultBoard \ dropped
        PROVE  \E c \in Rows(column) : column[c].key = k
    BY <2>1 DEF ColumnsInv, KeysKept, WithKey
  <2>2. ASSUME Typed, KeysApart, NEW c \in Rows(column), NEW d \in Rows(column), c # d,
               column[c].key = column[d].key
        PROVE  column[c].key = NoKey
    BY <2>2, RowsAre DEF KeysApart, Holds, ColumnRow
  <2> QED BY <2>1, <2>2, TypedIsTypeOK DEF ColumnsInv, PlanningInv, OneColumnPerKey
<1>2. Init => ColumnsInv /\ KeysApart
  BY InitColumns, InitKeys
<1>3. ColumnsInv /\ KeysApart /\ [Next]_vars => (ColumnsInv /\ KeysApart)'
  BY ColumnsStep, KeysStep DEF ColumnsInv
<1> QED BY <1>1, <1>2, <1>3, PTL DEF Spec

\* Two columns of one order are columns that were created at the same time, or one came
\* back by a save.
THEOREM ColumnsAreOrdered == Spec => []ColumnsOrdered
<1>1. ColumnsInv => ColumnsOrdered
  BY DEF ColumnsInv
<1> QED BY <1>1, InitColumns, ColumnsStep, PTL DEF Spec

\* Two sprints are active only when two starts overlapped.
THEOREM OneSprintIsActive == Spec => []OneActiveSprint
<1>1. SprintsInv => OneActiveSprint
  BY DEF SprintsInv
<1> QED BY <1>1, InitSprints, SprintsStep, PTL DEF Spec

\* An unfinished issue is in a completed sprint only when an update or a create put it
\* there after the completion had looked.
THEOREM SprintsAreDrained == Spec => []CompletedSprintsDrained
<1>1. SprintsInv => CompletedSprintsDrained
  BY DEF SprintsInv
<1> QED BY <1>1, InitSprints, SprintsStep, PTL DEF Spec
=============================================================================
