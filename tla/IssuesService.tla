---------------------------- MODULE IssuesService ----------------------------
(***************************************************************************)
(* The issues of one project (apps/api/src/modules/issues/issues.service.ts): *)
(* create, update with changelog, move with rebalance, remove, handled by  *)
(* overlapping requests.  Between two awaits of a request any other may    *)
(* run, so each database round trip is an action.                          *)
(*                                                                         *)
(* PostgreSQL runs the transactions at READ COMMITTED: a statement sees    *)
(* what is committed and what its own transaction wrote, and a statement   *)
(* that writes a row waits while another open transaction has written it;  *)
(* a cycle of waiting transactions is broken by an error in one of them.   *)
(* TypeORM's save() reads the row again and updates the columns in which   *)
(* the entity differs from it; without a row it inserts.  A request that   *)
(* needs a pool connection waits until one is free, without a timeout.     *)
(*                                                                         *)
(* Of a row the model keeps the status, the order and one more tracked     *)
(* field, the assignee.  Orders are integers in units of 1.0 / One.        *)
(***************************************************************************)
EXTENDS Integers, FiniteSets, Sequences

CONSTANTS
  Issues,       \* issue ids
  Statuses,
  Assignees,    \* with the value for "nobody"
  Nobody,
  Requests,     \* requests the API handles at a time
  Orders,       \* the newOrder values clients may send
  One,          \* 1.0
  Threshold,    \* ORDER_REBALANCE_THRESHOLD
  PoolSize,     \* connections in the pool
  InitRows,     \* [Issues -> Row \cup {NoRow}], the board to begin with
  NoRow,        \* never inserted
  Removed,      \* deleted
  Unset,        \* a field the dto leaves out
  MaxRequests   \* bound: requests in all

VARIABLES
  rows,         \* committed rows
  log,          \* committed changelog: issue -> entries, in order of commit
  pc,           \* request -> the round trip it does next
  op,           \* request -> its operation and parameters
  entity,       \* request -> the row object in its memory
  diff,         \* request -> columns save() will write
  entries,      \* request -> changelog entries to insert
  tx,           \* request -> rows its open transaction has written
  todo,         \* request -> rows its rebalance has still to write
  held,         \* requests that hold a pool connection across awaits
  emitted,      \* the event the latest step emitted
  started       \* counter of the bound

reqVars == <<pc, op, entity, diff, entries, todo>>
vars == <<rows, log, reqVars, tx, held, emitted, started>>

Row == [status : Statuses, order : Int, assignee : Assignees]
Columns == {"status", "order", "assignee"}
Entry == [field : {"status", "assignee"}, old : Statuses \cup Assignees,
          new : Statuses \cup Assignees]

Ops == [kind : {"none", "create", "update", "move", "remove"},
        issue : Issues \cup {Unset}, status : Statuses \cup {Unset},
        order : Int, assignee : Assignees \cup {Unset}]

Events ==
  [type : {"none"}]
    \cup [type : {"created", "deleted"}, issue : Issues]
    \cup [type : {"moved"}, issue : Issues, status : Statuses, order : Int]
    \cup [type : {"updated"}, issue : Issues, assigned : BOOLEAN, statusChanged : BOOLEAN]

Steps == {"idle", "insert", "connect", "select", "write", "log", "count", "rank", "rebalance",
          "commit", "delete", "emit", "refetch"}

ASSUME IssuesAssumption ==
  /\ IsFiniteSet(Issues) /\ Nobody \in Assignees
  /\ Orders \subseteq Int
  /\ One \in Nat \ {0} /\ Threshold \in Nat \ {0}
  /\ PoolSize \in Nat \ {0} /\ MaxRequests \in Nat
  /\ NoRow \notin Row /\ Removed \notin Row /\ NoRow # Removed
  /\ Unset \notin Issues \cup Statuses \cup Assignees
  /\ InitRows \in [Issues -> Row \cup {NoRow}]

NoEvent  == [type |-> "none"]
NoOp     == [kind |-> "none", issue |-> Unset, status |-> Unset, order |-> 0, assignee |-> Unset]
NoneIn   == [i \in Issues |-> NoRow]

Init ==
  /\ rows = InitRows
  /\ log = [i \in Issues |-> <<>>]
  /\ pc = [r \in Requests |-> "idle"]
  /\ op = [r \in Requests |-> NoOp]
  /\ entity = [r \in Requests |-> NoRow]
  /\ diff = [r \in Requests |-> {}]
  /\ entries = [r \in Requests |-> <<>>]
  /\ tx = [r \in Requests |-> NoneIn]
  /\ todo = [r \in Requests |-> NoneIn]
  /\ held = {}
  /\ emitted = NoEvent
  /\ started = 0

-----------------------------------------------------------------------------
(* The database and the pool.                                              *)

Live(i) == rows[i] \in Row

\* What a statement of request r reads.
View(r, i) == IF tx[r][i] # NoRow THEN tx[r][i] ELSE rows[i]

InColumn(r, s) == {i \in Issues : View(r, i) \in Row /\ View(r, i).status = s}

LockedFor(r, i) == \E q \in Requests \ {r} : tx[q][i] # NoRow

\* A connection for one query, returned when it is answered.
PoolFree == Cardinality(held) < PoolSize

\* The rows request r is waiting to write.
Wants(r) ==
  CASE pc[r] \in {"write", "delete"} -> {op[r].issue}
    [] pc[r] = "rebalance"           -> {i \in Issues : todo[r][i] # NoRow}
    [] OTHER                         -> {}

WaitsFor(r, q) == q # r /\ \E i \in Wants(r) : tx[q][i] # NoRow

Blocked(r) == Wants(r) # {} /\ \A i \in Wants(r) : LockedFor(r, i)

\* Transactions that wait for each other in a cycle.
Deadlocked(r) ==
  \E S \in SUBSET Requests :
    /\ r \in S
    /\ \A q \in S : Blocked(q) /\ (\E p \in S : WaitsFor(q, p))
                               /\ (\E p \in S : WaitsFor(p, q))

Max0(S) == IF S = {} THEN 0 ELSE CHOOSE x \in S : \A y \in S : y <= x

-----------------------------------------------------------------------------
(* Steps shared by the operations.                                         *)

Goto(r, step) == pc' = [pc EXCEPT ![r] = step]

Quietly == emitted' = NoEvent

\* The request is answered; what it had in memory is gone.
Finish(r) ==
  /\ Goto(r, "idle")
  /\ op' = [op EXCEPT ![r] = NoOp]
  /\ entity' = [entity EXCEPT ![r] = NoRow]
  /\ diff' = [diff EXCEPT ![r] = {}]
  /\ entries' = [entries EXCEPT ![r] = <<>>]
  /\ todo' = [todo EXCEPT ![r] = NoneIn]
  /\ held' = held \ {r}

Begin(r, o, step) ==
  /\ pc[r] = "idle" /\ started < MaxRequests
  /\ PoolFree
  /\ started' = started + 1
  /\ op' = [op EXCEPT ![r] = o]
  /\ Goto(r, step)
  /\ Quietly
  /\ UNCHANGED <<rows, log, diff, todo, tx, held>>

\* createQueryRunner, connect, startTransaction; remove() does it inside TypeORM.
Connect(r) ==
  /\ pc[r] = "connect" /\ PoolFree
  /\ held' = held \cup {r}
  /\ Goto(r, IF op[r].kind = "remove" THEN "delete" ELSE "select")
  /\ Quietly
  /\ UNCHANGED <<rows, log, op, entity, diff, entries, todo, tx, started>>

\* save(), first half: compare with the row as it is now.
SaveSelect(r) ==
  /\ pc[r] = "select"
  /\ LET row == View(r, op[r].issue)
     IN diff' = [diff EXCEPT ![r] =
          IF row \in Row THEN {c \in Columns : entity[r][c] # row[c]} ELSE {"insert"}]
  /\ Goto(r, "write")
  /\ Quietly
  /\ UNCHANGED <<rows, log, op, entity, entries, todo, tx, held, started>>

\* The columns of save() laid over a row.
Patched(row, e, columns) ==
  [status   |-> IF "status" \in columns THEN e.status ELSE row.status,
   order    |-> IF "order" \in columns THEN e.order ELSE row.order,
   assignee |-> IF "assignee" \in columns THEN e.assignee ELSE row.assignee]

\* save(), second half: UPDATE (of no row, if it is gone by now) or INSERT.
SaveWrite(r) ==
  LET i == op[r].issue IN
  /\ pc[r] = "write"
  /\ diff[r] # {} => ~LockedFor(r, i)
  /\ diff[r] = {"insert"} => ~Live(i)
  /\ tx' = CASE diff[r] = {"insert"}       -> [tx EXCEPT ![r][i] = entity[r]]
             [] diff[r] # {} /\ Live(i)
                /\ diff[r] # {"insert"}    -> [tx EXCEPT ![r][i] = Patched(rows[i], entity[r], diff[r])]
             [] OTHER                      -> tx
  /\ Goto(r, IF op[r].kind = "move" THEN "count" ELSE "log")
  /\ Quietly
  /\ UNCHANGED <<rows, log, op, entity, diff, entries, todo, held, started>>

Merged(r) == [i \in Issues |-> View(r, i)]

\* Mutant of Rollback: the transaction is left open when the error is rethrown.
NoRollback(r) == UNCHANGED tx

\* rollbackTransaction.
Rollback(r) == tx' = [tx EXCEPT ![r] = NoneIn]

\* catch and finally: rollback, release, and the error is the answer.
Fail(r) ==
  /\ Rollback(r)
  /\ Finish(r)
  /\ Quietly
  /\ UNCHANGED <<rows, log, started>>

\* PostgreSQL refuses: a deadlock, an INSERT of an id that another request has
\* inserted by now, or a changelog entry for an issue that is gone.
DatabaseError(r) ==
  /\ \/ Deadlocked(r)
     \/ pc[r] = "write" /\ diff[r] = {"insert"} /\ Live(op[r].issue)
     \/ pc[r] = "log" /\ entries[r] # <<>> /\ View(r, op[r].issue) \notin Row
  /\ Fail(r)

-----------------------------------------------------------------------------
(* create.                                                                 *)

\* Bound: every issue being created will find an id.
IdLeft ==
  Cardinality({q \in Requests : pc[q] = "insert"}) < Cardinality({i \in Issues : rows[i] = NoRow})

\* SELECT MAX(order) of the column.
CreateReadMax(r, s) ==
  /\ IdLeft
  /\ Begin(r, [NoOp EXCEPT !.kind = "create", !.status = s], "insert")
  /\ LET max == Max0({rows[i].order : i \in {j \in Issues : Live(j) /\ rows[j].status = s}})
     IN entity' = [entity EXCEPT ![r] =
          [status |-> s, order |-> max + One, assignee |-> Nobody]]
  /\ UNCHANGED entries

\* The INSERT gives the issue a new id.
CreateInsert(r) ==
  /\ pc[r] = "insert" /\ PoolFree
  /\ \E i \in Issues :
       /\ rows[i] = NoRow
       /\ rows' = [rows EXCEPT ![i] = entity[r]]
       /\ op' = [op EXCEPT ![r].issue = i]
  /\ Goto(r, "emit")
  /\ Quietly
  /\ UNCHANGED <<log, entity, diff, entries, todo, tx, held, started>>

-----------------------------------------------------------------------------
(* update.                                                                 *)

\* Findings of the loop over CHANGELOG_TRACKED_FIELDS.
Changed(field, old, new) ==
  IF new = Unset \/ new = old THEN <<>>
  ELSE <<[field |-> field, old |-> old, new |-> new]>>

\* Mutant of Or: the test for undefined is missing.
Overwritten(new, old) == new

\* if (dto.field !== undefined) current.field = dto.field.
Or(new, old) == IF new = Unset THEN old ELSE new

\* findOne; the entries and the patched entity are computed from what it found.
\* With both fields Unset the dto changes a field the model leaves out.
UpdateRead(r, i, s, a) ==
  /\ Live(i)
  /\ Begin(r, [NoOp EXCEPT !.kind = "update", !.issue = i, !.status = s, !.assignee = a], "connect")
  /\ entity' = [entity EXCEPT ![r] =
       [rows[i] EXCEPT !.status = Or(s, @), !.assignee = Or(a, @)]]
  /\ entries' = [entries EXCEPT ![r] =
       Changed("status", rows[i].status, s) \o Changed("assignee", rows[i].assignee, a)]

\* The changelog entries, and the commit.
UpdateCommit(r) ==
  /\ pc[r] = "log"
  /\ entries[r] # <<>> => View(r, op[r].issue) \in Row
  /\ rows' = Merged(r)
  /\ log' = [log EXCEPT ![op[r].issue] = @ \o entries[r]]
  /\ tx' = [tx EXCEPT ![r] = NoneIn]
  /\ Goto(r, "emit")
  /\ Quietly
  /\ UNCHANGED <<op, entity, diff, entries, todo, held, started>>

\* The relations for the answer, on a second connection: release comes last.
UpdateRefetch(r) ==
  /\ pc[r] = "refetch" /\ PoolFree
  /\ Finish(r)
  /\ Quietly
  /\ UNCHANGED <<rows, log, tx, started>>

-----------------------------------------------------------------------------
(* move.                                                                   *)

MoveRead(r, i, s, o) ==
  /\ Live(i)
  /\ Begin(r, [NoOp EXCEPT !.kind = "move", !.issue = i, !.status = s, !.order = o], "connect")
  /\ entity' = [entity EXCEPT ![r] = [rows[i] EXCEPT !.status = s, !.order = o]]
  /\ UNCHANGED entries

Distance(a, b) == IF a < b THEN b - a ELSE a - b

\* neighborsCount > 0.
TooClose(r) ==
  \E j \in InColumn(r, op[r].status) \ {op[r].issue} :
    Distance(View(r, j).order, op[r].order) < Threshold

MoveCount(r) ==
  /\ pc[r] = "count"
  /\ Goto(r, IF TooClose(r) THEN "rank" ELSE "commit")
  /\ Quietly
  /\ UNCHANGED <<rows, log, op, entity, diff, entries, todo, tx, held, started>>

\* Rank k of every issue of the column: by order, equal orders in any order.
Rankings(r, column) ==
  {k \in [column -> 1..Cardinality(column)] :
     \A i, j \in column : i # j =>
       k[i] # k[j] /\ (View(r, i).order < View(r, j).order => k[i] < k[j])}

\* rebalanceColumnTx, SELECT: the new order of every issue of the column.
RebalanceSelect(r) ==
  LET column == InColumn(r, op[r].status) IN
  /\ pc[r] = "rank"
  /\ \E rank \in Rankings(r, column) :
       todo' = [todo EXCEPT ![r] = [i \in Issues |->
         IF i \in column THEN [View(r, i) EXCEPT !.order = rank[i] * One] ELSE NoRow]]
  /\ Goto(r, IF column = {} THEN "commit" ELSE "rebalance")
  /\ Quietly
  /\ UNCHANGED <<rows, log, op, entity, diff, entries, tx, held, started>>

\* Mutant of Reordered: the rows as selected are saved.
SavedWhole(row, selected) == selected

\* Mutant of Reordered: ROW_NUMBER() counted from 0.
RankedFromZero(row, selected) == [row EXCEPT !.order = selected.order - One]

\* SET "order" = v.new_order.
Reordered(row, selected) == [row EXCEPT !.order = selected.order]

\* rebalanceColumnTx, UPDATE: the rows are locked one after the other; one that
\* has gone is skipped, one that has changed is updated as it is now.
RebalanceWrite(r) ==
  /\ pc[r] = "rebalance"
  /\ \E i \in Wants(r) :
       /\ ~LockedFor(r, i)
       /\ tx' = IF View(r, i) \in Row
                THEN [tx EXCEPT ![r][i] = Reordered(View(r, i), todo[r][i])] ELSE tx
       /\ todo' = [todo EXCEPT ![r][i] = NoRow]
       /\ Goto(r, IF Wants(r) = {i} THEN "commit" ELSE "rebalance")
  /\ Quietly
  /\ UNCHANGED <<rows, log, op, entity, diff, entries, held, started>>

\* commitTransaction and release.
MoveCommit(r) ==
  /\ pc[r] = "commit"
  /\ rows' = Merged(r)
  /\ tx' = [tx EXCEPT ![r] = NoneIn]
  /\ held' = held \ {r}
  /\ Goto(r, "emit")
  /\ Quietly
  /\ UNCHANGED <<log, op, entity, diff, entries, todo, started>>

-----------------------------------------------------------------------------
(* remove.                                                                 *)

RemoveRead(r, i) ==
  /\ Live(i)
  /\ Begin(r, [NoOp EXCEPT !.kind = "remove", !.issue = i], "connect")
  /\ UNCHANGED <<entity, entries>>

\* DELETE, which takes the changelog of the issue along.
RemoveDelete(r) ==
  LET i == op[r].issue IN
  /\ pc[r] = "delete"
  /\ ~LockedFor(r, i)
  /\ rows' = [rows EXCEPT ![i] = Removed]
  /\ log' = [log EXCEPT ![i] = <<>>]
  /\ held' = held \ {r}
  /\ Goto(r, "emit")
  /\ Quietly
  /\ UNCHANGED <<op, entity, diff, entries, todo, tx, started>>

-----------------------------------------------------------------------------
(* The events, after the commit and before the answer.                     *)

Event(r) ==
  LET i == op[r].issue IN
  CASE op[r].kind = "create" -> [type |-> "created", issue |-> i]
    [] op[r].kind = "remove" -> [type |-> "deleted", issue |-> i]
    [] op[r].kind = "move"   -> [type |-> "moved", issue |-> i,
                                 status |-> op[r].status, order |-> op[r].order]
    [] op[r].kind = "update" ->
         [type |-> "updated", issue |-> i,
          assigned |-> \E n \in DOMAIN entries[r] :
                         entries[r][n].field = "assignee" /\ entries[r][n].new # Nobody,
          statusChanged |-> \E n \in DOMAIN entries[r] : entries[r][n].field = "status"]

Emit(r) ==
  /\ pc[r] = "emit"
  /\ emitted' = Event(r)
  /\ IF op[r].kind = "update"
     THEN /\ Goto(r, "refetch")
          /\ UNCHANGED <<op, entity, diff, entries, todo, held>>
     ELSE Finish(r)
  /\ UNCHANGED <<rows, log, tx, started>>

-----------------------------------------------------------------------------

\* What a request does by itself once it has started.
Proceed(r) ==
  \/ Connect(r) \/ SaveSelect(r) \/ SaveWrite(r) \/ DatabaseError(r)
  \/ CreateInsert(r)
  \/ UpdateCommit(r) \/ UpdateRefetch(r)
  \/ MoveCount(r) \/ RebalanceSelect(r) \/ RebalanceWrite(r) \/ MoveCommit(r)
  \/ RemoveDelete(r)
  \/ Emit(r)

Arrive(r) ==
  \/ \E s \in Statuses : CreateReadMax(r, s)
  \/ \E i \in Issues : RemoveRead(r, i)
  \/ \E i \in Issues, s \in Statuses \cup {Unset}, a \in Assignees \cup {Unset} :
       UpdateRead(r, i, s, a)
  \/ \E i \in Issues, s \in Statuses, o \in Orders : MoveRead(r, i, s, o)

Next == \E r \in Requests : Arrive(r) \/ Proceed(r)

\* The database and the event loop run what they were given.
Fairness == \A r \in Requests : WF_vars(Proceed(r))

Spec == Init /\ [][Next]_vars /\ Fairness

-----------------------------------------------------------------------------
(* Properties.                                                             *)

TypeOK ==
  /\ rows \in [Issues -> Row \cup {NoRow, Removed}]
  /\ log \in [Issues -> Seq(Entry)]
  /\ pc \in [Requests -> Steps]
  /\ op \in [Requests -> Ops]
  /\ entity \in [Requests -> Row \cup {NoRow}]
  /\ diff \in [Requests -> SUBSET (Columns \cup {"insert"})]
  /\ entries \in [Requests -> Seq(Entry)]
  /\ tx \in [Requests -> [Issues -> Row \cup {NoRow}]]
  /\ todo \in [Requests -> [Issues -> Row \cup {NoRow}]]
  /\ held \in SUBSET Requests
  /\ emitted \in Events
  /\ started \in Nat

\* Rebalancing a column never undoes what others did to its issues meanwhile: the
\* status and the assignee of an issue change only when a request for that very
\* issue commits, however its reads and writes interleave with a rebalance.
RebalanceMovesOnly ==
  [][\A i \in Issues :
       Live(i) /\ rows'[i] \in Row /\ ~(\E r \in Requests : op[r].issue = i /\ pc'[r] = "emit" /\ pc[r] # "emit") =>
         rows'[i].status = rows[i].status /\ rows'[i].assignee = rows[i].assignee]_vars

\* Every connection is with an update that asks for a second one before its
\* release: nothing gives one back.
PoolStuck == ~PoolFree /\ \A r \in held : pc[r] = "refetch"

\* Every request is answered, although transactions wait for each other's rows and
\* for connections, and some are broken off by the database, unless updates that
\* fetch their answer before they release have taken the whole pool.
RequestsAnswered ==
  \A r \in Requests : pc[r] # "idle" ~> (pc[r] = "idle" \/ PoolStuck)

\* The rows as others read them.
Board == [i \in Issues |-> IF Live(i) THEN [status |-> rows[i].status, order |-> rows[i].order] ELSE NoRow]

Rows == INSTANCE IssueRows WITH Gone <- NoRow, issues <- Board

\* However the round trips of overlapping requests interleave, what is committed
\* looks as if one request after the other had been applied to the rows, each to its
\* own issue: IssueRows.
ImplementsIssueRows == Rows!Spec
=============================================================================
