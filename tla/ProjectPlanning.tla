--------------------------- MODULE ProjectPlanning ---------------------------
(***************************************************************************)
(* The columns and the sprints of one project, and the issues they group   *)
(* (apps/api/src/modules/projects), under overlapping requests.  Each      *)
(* await of a handler that another request could slip into ends an action. *)
(*                                                                         *)
(* PostgreSQL runs every statement on what is committed, and a statement   *)
(* that writes a row waits for the open transaction that wrote it.  Two    *)
(* requests hold locks here from one action to the next: complete, on the  *)
(* issues it has moved, and the DELETE of a sprint, on the sprint, while   *)
(* its ON DELETE SET NULL waits for the issues.  TypeORM's save() makes    *)
(* the row equal to the entity, or inserts it again when it is gone.       *)
(***************************************************************************)
EXTENDS Integers, FiniteSets

CONSTANTS
  Columns, Sprints, Issues,   \* ids
  Keys,          \* statusKey of columns, status of issues
  Backlog, Done, \* two of them
  NoKey,         \* '', the default of status_key
  DefaultBoard,  \* DEFAULT_BOARD_COLUMNS: [key -> order] of the project's first columns
  Requests,      \* requests under way at a time
  Nothing,       \* no row yet, no sprint, no request
  Removed,       \* of a row: deleted
  MaxRequests    \* bound: requests in all

VARIABLES
  project,   \* does its row exist
  column,    \* id -> row, Nothing or Removed
  sprint,    \* id -> status, Nothing or Removed
  issue,     \* id -> its status and sprint, Nothing or Removed
  req,       \* request -> what it does, and how far it got
  dropped,   \* history: keys whose column was deleted
  raced,     \* history: rows written by a request whose check another one outdated
  strays,    \* history: issues put in a sprint that was completed by then, or being completed
  begun      \* counter of the bound

vars == <<project, column, sprint, issue, req, dropped, raced, strays, begun>>

ColumnRow == [key : Keys \cup {NoKey}, order : Nat]
SprintStatus == {"PLANNED", "ACTIVE", "COMPLETED"}
IssueRow == [status : Keys, sprint : Sprints \cup {Nothing}]
Ops == {"createColumn", "updateColumn", "deleteColumn", "start", "complete", "remove", "edit"}

\* The dto of an update, of one field; "other" stands for the rest of them.
Dtos == [field : {"status"}, value : Keys] \cup [field : {"sprint"}, value : Sprints \cup {Nothing}]
          \cup [field : {"other"}, value : {Nothing}]

Ids(op) ==
  CASE op = "createColumn" -> {Nothing}
    [] op \in {"updateColumn", "deleteColumn"} -> Columns
    [] op = "edit" -> Issues
    [] OTHER -> Sprints

\* What a request knows: the maximum or the row it has read, the rows it has locked.
Seen(op, at) ==
  CASE at = "swept" -> SUBSET Issues
    [] op = "createColumn" -> Nat
    [] op \in {"updateColumn", "deleteColumn"} -> ColumnRow
    [] op = "edit" -> IssueRow
    [] OTHER -> SprintStatus

ASSUME PlanningAssumption ==
  /\ Backlog \in Keys /\ Done \in Keys /\ Backlog # Done /\ NoKey \notin Keys
  /\ DOMAIN DefaultBoard \subseteq Keys /\ MaxRequests \in Nat
  /\ \A k \in DOMAIN DefaultBoard : DefaultBoard[k] \in Nat
  /\ \A j, k \in DOMAIN DefaultBoard : DefaultBoard[j] = DefaultBoard[k] => j = k
  /\ IsFiniteSet(Columns)
  /\ \E f \in [DOMAIN DefaultBoard -> Columns] : \A j, k \in DOMAIN f : f[j] = f[k] => j = k
  /\ Nothing # Removed /\ Nothing \notin Sprints
  /\ {Nothing, Removed} \cap (ColumnRow \cup IssueRow \cup SprintStatus) = {}

Rows(table) == {x \in DOMAIN table : table[x] \notin {Nothing, Removed}}

\* ProjectsService.create has committed the project with its default columns; some
\* sprints are planned, and one may have been started.
Init ==
  /\ project = TRUE
  /\ column = LET f == CHOOSE f \in [DOMAIN DefaultBoard -> Columns] :
                           \A j, k \in DOMAIN f : f[j] = f[k] => j = k
              IN [c \in Columns |->
                    IF \E k \in DOMAIN f : f[k] = c
                    THEN CHOOSE row \in {[key |-> k, order |-> DefaultBoard[k]] : k \in DOMAIN f} :
                           f[row.key] = c
                    ELSE Nothing]
  /\ sprint \in [Sprints -> {"PLANNED", "ACTIVE", Nothing}]
  /\ \A s, t \in Sprints : sprint[s] = "ACTIVE" /\ sprint[t] = "ACTIVE" => s = t
  /\ issue \in [Issues -> [status : {Backlog}, sprint : Rows(sprint) \cup {Nothing}] \cup {Nothing}]
  /\ req = [r \in Requests |-> Nothing]
  /\ dropped = {} /\ raced = {} /\ strays = {}
  /\ begun = 0

-----------------------------------------------------------------------------
(* Requests and locks.                                                     *)

Doing(r, op, at) == req[r] # Nothing /\ req[r].op = op /\ req[r].at = at

\* Rows an open transaction has written.
IssueLocked(i) ==
  \E r \in Requests : Doing(r, "complete", "swept") /\ i \in req[r].seen
SprintLocked(s) == \E r \in Requests : Doing(r, "remove", "deleting") /\ req[r].id = s

InSprint(s) == {i \in Rows(issue) : issue[i].sprint = s}

\* Issues complete moves out of sprint s.
Unfinished(s) == {i \in InSprint(s) : issue[i].status # Done}

\* A request arrives and has done its first reads: what came before them no other
\* request could tell.  One that gets 404 or 409 there changes nothing.
Reads(r, op, id, dto, value) ==
  /\ req[r] = Nothing /\ begun < MaxRequests
  /\ req' = [req EXCEPT ![r] = [op |-> op, id |-> id, dto |-> dto, seen |-> value,
                                at |-> "read", raced |-> FALSE]]
  /\ begun' = begun + 1
  /\ UNCHANGED <<project, column, sprint, issue, dropped, raced, strays>>

\* An answer, or an exception that becomes one.
Finished(r) == [req EXCEPT ![r] = Nothing]

\* Other requests of the same kind that have made their check and not yet written.
Outdated(r) ==
  [q \in Requests |->
     IF q # r /\ Doing(q, req[r].op, "read") THEN [req[q] EXCEPT !.raced = TRUE]
     ELSE IF q = r THEN Nothing ELSE req[q]]

MarkIfRaced(r, row) == raced' = IF req[r].raced THEN raced \cup {row} ELSE raced

-----------------------------------------------------------------------------
(* Board columns.                                                          *)

Creating == Cardinality({r \in Requests : Doing(r, "createColumn", "read")})

ColumnOrders == {column[c].order : c \in Rows(column)}

MaxOf(orders) == CHOOSE m \in orders : \A o \in orders : o <= m

\* Mutant of NextOrder: a count instead of MAX.
CountOrder(orders) == Cardinality(Rows(column))

\* (maxOrder?.max ?? -1) + 1
NextOrder(orders) == IF orders = {} THEN 0 ELSE MaxOf(orders) + 1

\* findOne and MAX(col.order).  The bound: an id is left.
CreateColumnRead(r) ==
  /\ project /\ Cardinality({c \in Columns : column[c] = Nothing}) > Creating
  /\ Reads(r, "createColumn", Nothing, Nothing, NextOrder(ColumnOrders))

\* Mutant of NewColumn: the column gets the key of its name.
NamedColumn(r) == {[key |-> k, order |-> req[r].seen] : k \in Keys}

\* The dto has no statusKey.
NewColumn(r) == {[key |-> NoKey, order |-> req[r].seen]}

\* The foreign key refuses a column of no project.
CreateColumnSave(r) ==
  /\ Doing(r, "createColumn", "read")
  /\ \/ /\ project
        /\ \E c \in Columns, row \in NewColumn(r) :
             /\ column[c] = Nothing
             /\ column' = [column EXCEPT ![c] = row]
             /\ MarkIfRaced(r, c)
        /\ req' = Outdated(r)
     \/ /\ ~project
        /\ req' = Finished(r)
        /\ UNCHANGED <<column, raced>>
  /\ UNCHANGED <<project, sprint, issue, dropped, strays, begun>>

ColumnRead(r, c) ==
  /\ c \in Rows(column)
  /\ \E op \in {"updateColumn", "deleteColumn"} : Reads(r, op, c, Nothing, column[c])

\* Name and color are left out, so the row stays as it is, or comes back.
UpdateColumnSave(r) ==
  /\ Doing(r, "updateColumn", "read")
  /\ LET c == req[r].id
         back == project /\ column[c] = Removed IN
     /\ column' = IF back THEN [column EXCEPT ![c] = req[r].seen] ELSE column
     /\ raced' = IF back THEN raced \cup {c} ELSE raced
  /\ req' = Finished(r)
  /\ UNCHANGED <<project, sprint, issue, dropped, strays, begun>>

\* Issues keep their status.
DeleteColumnRemove(r) ==
  /\ Doing(r, "deleteColumn", "read")
  /\ column' = [column EXCEPT ![req[r].id] = Removed]
  /\ dropped' = dropped \cup {req[r].seen.key}
  /\ req' = Finished(r)
  /\ UNCHANGED <<project, sprint, issue, raced, strays, begun>>

-----------------------------------------------------------------------------
(* Sprints.                                                                *)

\* create checks nothing; the foreign key refuses a sprint of no project.
CreateSprint(s) ==
  /\ project /\ sprint[s] = Nothing
  /\ sprint' = [sprint EXCEPT ![s] = "PLANNED"]
  /\ UNCHANGED <<project, column, issue, req, dropped, raced, strays, begun>>

OthersActive(s) == {t \in Sprints \ {s} : sprint[t] = "ACTIVE"}

\* Mutant of MayStart: the check is left out.
Always(s) == TRUE

MayStart(s) == OthersActive(s) = {}

\* findOne, and findOne of another ACTIVE sprint.
StartRead(r, s) ==
  /\ s \in Rows(sprint) /\ MayStart(s)
  /\ Reads(r, "start", s, Nothing, sprint[s])

\* The sprint may have been completed meanwhile, or removed.
StartSave(r) ==
  /\ Doing(r, "start", "read") /\ ~SprintLocked(req[r].id)
  /\ LET s == req[r].id IN
     \/ /\ project
        /\ sprint' = [sprint EXCEPT ![s] = "ACTIVE"]
        /\ MarkIfRaced(r, s)
        /\ req' = Outdated(r)
     \/ /\ ~project
        /\ req' = Finished(r)
        /\ UNCHANGED <<sprint, raced>>
  /\ UNCHANGED <<project, column, issue, dropped, strays, begun>>

CompleteRead(r, s) == s \in Rows(sprint) /\ Reads(r, "complete", s, Nothing, sprint[s])

\* The UPDATE of the transaction; nobody sees what it wrote before the commit.
CompleteSweep(r) ==
  /\ Doing(r, "complete", "read")
  /\ LET moved == Unfinished(req[r].id) IN
     /\ \A i \in moved : ~IssueLocked(i)
     /\ req' = [req EXCEPT ![r].seen = moved, ![r].at = "swept"]
  /\ UNCHANGED <<project, column, sprint, issue, dropped, raced, strays, begun>>

\* Mutant of SweptIssue: sprintId is kept.
StillInSprint(row) == [row EXCEPT !.status = Backlog]

SweptIssue(row) == [status |-> Backlog, sprint |-> Nothing]

\* save(sprint) and COMMIT.
CompleteCommit(r) ==
  /\ Doing(r, "complete", "swept") /\ ~SprintLocked(req[r].id) /\ project
  /\ issue' = [i \in Issues |-> IF i \in req[r].seen THEN SweptIssue(issue[i]) ELSE issue[i]]
  /\ sprint' = [sprint EXCEPT ![req[r].id] = "COMPLETED"]
  /\ req' = Finished(r)
  /\ UNCHANGED <<project, column, dropped, raced, strays, begun>>

RemoveRead(r, s) == s \in Rows(sprint) /\ Reads(r, "remove", s, Nothing, sprint[s])

\* DELETE FROM sprints locks the row; one that is gone is no error.
RemoveDelete(r) ==
  /\ Doing(r, "remove", "read") /\ ~SprintLocked(req[r].id)
  /\ req' = IF req[r].id \notin Rows(sprint) THEN Finished(r) ELSE [req EXCEPT ![r].at = "deleting"]
  /\ UNCHANGED <<project, column, sprint, issue, dropped, raced, strays, begun>>

\* ON DELETE SET NULL, and the end of the statement.
RemoveCascade(r) ==
  /\ Doing(r, "remove", "deleting")
  /\ LET s == req[r].id IN
     /\ \A i \in InSprint(s) : ~IssueLocked(i)
     /\ issue' = [i \in Issues |-> IF i \in InSprint(s) THEN [issue[i] EXCEPT !.sprint = Nothing] ELSE issue[i]]
     /\ sprint' = [sprint EXCEPT ![s] = Removed]
  /\ req' = Finished(r)
  /\ UNCHANGED <<project, column, dropped, raced, strays, begun>>

\* r waits for the sprint q deletes, and q for the issues r has moved.
Deadlocked(r, q) ==
  /\ Doing(r, "complete", "swept") /\ Doing(q, "remove", "deleting") /\ req[r].id = req[q].id
  /\ \E i \in req[r].seen : issue[i].sprint = req[q].id

\* Mutant of Abandoned: the catch block does not roll back, and keeps the locks.
NotRolledBack(r) == req

Abandoned(r) == Finished(r)

\* The database gives one of them an error; a completion whose project is gone
\* fails on the foreign key.  Its catch block rolls back.
DatabaseError(r) ==
  /\ \/ \E q \in Requests : Deadlocked(r, q) \/ Deadlocked(q, r)
     \/ Doing(r, "complete", "swept") /\ ~project
  /\ req' = Abandoned(r)
  /\ UNCHANGED <<project, column, sprint, issue, dropped, raced, strays, begun>>

-----------------------------------------------------------------------------
(* IssuesService.create and update, and DELETE /projects/:id.              *)

Completing(s) ==
  \/ sprint[s] = "COMPLETED"
  \/ \E q \in Requests : Doing(q, "complete", "swept") /\ req[q].id = s

Strayed(i, row) ==
  IF row.sprint # Nothing /\ Completing(row.sprint) /\ row.status # Done THEN strays \cup {i} ELSE strays

\* A sprint the foreign key of an issue accepts; its check waits for a DELETE of it.
MayJoin(s) == s # Nothing => s \in Rows(sprint) /\ ~SprintLocked(s)

\* create takes any sprint; the maximum of the orders it reads before matters to
\* nothing here, and a status without a column counts as unfinished like Backlog.
CreateIssue(i) ==
  /\ project /\ issue[i] = Nothing
  /\ \E row \in IssueRow :
       /\ MayJoin(row.sprint)
       /\ issue' = [issue EXCEPT ![i] = row]
       /\ strays' = Strayed(i, row)
  /\ UNCHANGED <<project, column, sprint, req, dropped, raced, begun>>

EditRead(r, i) ==
  /\ i \in Rows(issue)
  /\ \E dto \in Dtos : Reads(r, "edit", i, dto, issue[i])

Merged(row, dto) ==
  CASE dto.field = "status" -> [row EXCEPT !.status = dto.value]
    [] dto.field = "sprint" -> [row EXCEPT !.sprint = dto.value]
    [] OTHER -> row

\* What save() leaves of the row: the entity as a whole, or only the fields of the
\* dto when the row changed after save() had read it again.
Written(r) == {Merged(req[r].seen, req[r].dto), Merged(issue[req[r].id], req[r].dto)}

EditSave(r) ==
  /\ Doing(r, "edit", "read")
  /\ LET i == req[r].id IN
     /\ i \in Rows(issue) /\ ~IssueLocked(i)
     /\ \E row \in Written(r) :
          /\ MayJoin(row.sprint)
          /\ issue' = [issue EXCEPT ![i] = row]
          /\ strays' = Strayed(i, row)
  /\ req' = Finished(r)
  /\ UNCHANGED <<project, column, sprint, dropped, raced, begun>>

\* A foreign key refuses: the project is gone, or the sprint.
EditRefused(r) ==
  /\ Doing(r, "edit", "read")
  /\ req[r].id \in Rows(issue) => \E row \in Written(r) : row.sprint \notin Rows(sprint) \cup {Nothing}
  /\ req' = Finished(r)
  /\ UNCHANGED <<project, column, sprint, issue, dropped, raced, strays, begun>>

\* The columns, the sprints and the issues go with the project.
RemoveProject ==
  /\ project
  /\ \A i \in Issues : ~IssueLocked(i)
  /\ \A s \in Sprints : ~SprintLocked(s)
  /\ project' = FALSE
  /\ column' = [c \in Columns |-> Removed]
  /\ sprint' = [s \in Sprints |-> Removed]
  /\ issue' = [i \in Issues |-> Removed]
  /\ UNCHANGED <<req, dropped, raced, strays, begun>>

-----------------------------------------------------------------------------

Begin(r) ==
  \/ CreateColumnRead(r)
  \/ \E c \in Columns : ColumnRead(r, c)
  \/ \E s \in Sprints : StartRead(r, s) \/ CompleteRead(r, s) \/ RemoveRead(r, s)
  \/ \E i \in Issues : EditRead(r, i)

Proceed(r) ==
  \/ CreateColumnSave(r) \/ UpdateColumnSave(r) \/ DeleteColumnRemove(r)
  \/ StartSave(r)
  \/ CompleteSweep(r) \/ CompleteCommit(r)
  \/ RemoveDelete(r) \/ RemoveCascade(r)
  \/ DatabaseError(r)
  \/ EditSave(r) \/ EditRefused(r)

Next ==
  \/ \E r \in Requests : Begin(r) \/ Proceed(r)
  \/ \E s \in Sprints : CreateSprint(s)
  \/ \E i \in Issues : CreateIssue(i)
  \/ RemoveProject

\* The event loop and the database go on with every request.
Spec == Init /\ [][Next]_vars /\ \A r \in Requests : WF_vars(Proceed(r))

-----------------------------------------------------------------------------
(* Properties.                                                             *)

TypeOK ==
  /\ project \in BOOLEAN
  /\ column \in [Columns -> ColumnRow \cup {Nothing, Removed}]
  /\ sprint \in [Sprints -> SprintStatus \cup {Nothing, Removed}]
  /\ issue \in [Issues -> IssueRow \cup {Nothing, Removed}]
  /\ \A r \in Requests : req[r] # Nothing =>
       LET q == req[r] IN
       /\ q.op \in Ops /\ q.at \in {"read", "swept", "deleting"} /\ q.raced \in BOOLEAN
       /\ q.id \in Ids(q.op) /\ q.seen \in Seen(q.op, q.at)
       /\ q.dto \in IF q.op = "edit" THEN Dtos ELSE {Nothing}
  /\ dropped \subseteq Keys \cup {NoKey} /\ raced \subseteq Columns \cup Sprints
  /\ strays \subseteq Issues /\ begun \in 0..MaxRequests

\* getBoard lists an issue under the last column with its status: no key but the ''
\* of all columns created later is on two columns, and no key of the first board is
\* lost before its column is deleted, however columns are created, renamed, deleted
\* and saved back at the same time.
OneColumnPerKey ==
  /\ \A c, d \in Rows(column) : c # d /\ column[c].key = column[d].key => column[c].key = NoKey
  /\ project => \A k \in DOMAIN DefaultBoard \ dropped : \E c \in Rows(column) : column[c].key = k

\* What board-column.entity.ts says of statusKey: "Must be unique per project".
StatusKeysUnique ==
  \A c, d \in Rows(column) : column[c].key = column[d].key => c = d

\* Columns have an order of their own unless two requests created them at the same
\* time or one saved back a column deleted meanwhile.
ColumnsOrdered ==
  \A c, d \in Rows(column) :
    c # d /\ column[c].order = column[d].order => {c, d} \cap raced # {}

\* Two sprints are active only when two starts overlapped, whatever else ran:
\* completions, removals, starts of completed sprints.
OneActiveSprint ==
  \A s, t \in Sprints :
    s # t /\ sprint[s] = "ACTIVE" /\ sprint[t] = "ACTIVE" => {s, t} \cap raced # {}

\* A completed sprint keeps finished issues only, but for those an update or a create
\* put there after the completion had looked for unfinished ones.
CompletedSprintsDrained ==
  \A s \in Sprints : sprint[s] = "COMPLETED" => Unfinished(s) \subseteq strays

\* Every request is answered: no completion and removal of one sprint wait for
\* each other for ever.
RequestsAnswered == \A r \in Requests : req[r] # Nothing ~> req[r] = Nothing

\* The variables have their types, and OneColumnPerKey: no race of column requests
\* gives a key two columns, or loses one.
PlanningInv == TypeOK /\ OneColumnPerKey
=============================================================================
