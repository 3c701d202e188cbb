------------------------------- MODULE BoardSync -------------------------------
(***************************************************************************)
(* The boards of several clients beside the rows of the project: each      *)
(* client shows its query cache (apps/web/src/lib/queryClient.ts), patches *)
(* it when the user drops a card (features/board/useBoardDnd.ts) and when  *)
(* an event arrives (hooks/useProjectSocket.ts), and fetches the board when *)
(* the cache was invalidated.  Requests, their answers, the events and the *)
(* boards fetched travel independently; only the events of one client stay *)
(* in order.                                                               *)
(*                                                                         *)
(* A request reads its issue, takes effect in a later step and emits its   *)
(* event in one later still; IssuesService has the round trips of that     *)
(* transaction.  Every client that has joined gets every event;            *)
(* IssuesGateway and BoardPresence say when that is so.  The columns stay  *)
(* as they are.                                                            *)
(*                                                                         *)
(* Orders are integers in units of 1.0 / One.                              *)
(***************************************************************************)
EXTENDS Integers, FiniteSets, Sequences

CONSTANTS
  Clients,      \* those whose boards the model has
  Elsewhere,    \* everybody else who uses the API
  Orders,       \* the newOrder values of moves from elsewhere
  Issues,       \* issue ids
  Statuses,     \* one column for each
  Requests,     \* requests under way at a time
  One,          \* 1.0
  Threshold,    \* 0.001, the client's guard and ORDER_REBALANCE_THRESHOLD
  InitRows,     \* [Issues -> Card \cup {NoCard}], the board to begin with
  NoCard,       \* not on the board; of a row: not inserted yet
  Removed,      \* of a row: deleted
  NoOne,        \* the request is free
  MaxRequests,  \* bound: requests in all
  MaxBreaks     \* bound: times a client leaves, or its fetch fails, in all

VARIABLES
  rows,         \* the issues of the project
  req,          \* request -> what it asks, and how far it got
  inbox,        \* client -> events emitted to it, in order
  page,         \* client -> "away", "open" (BoardPage), "joined" (the room)
  cache,        \* client -> the data of its query ['board', projectId]
  query,        \* client -> the state of that query
  astray,       \* history: client -> issues its board may show wrongly
  started,      \* counters of the bounds
  breaks

vars == <<rows, req, inbox, page, cache, query, astray, started, breaks>>

Card == [status : Statuses, order : Int]
Boards == [Issues -> Card \cup {NoCard}]

\* fetch: "served" when the server has read the board it will answer with (NoBoard
\* otherwise).
\* due: isInvalidated.  failed: the latest fetch failed, and the page shows that.
Queries == [fetch : {"none", "sent", "served"}, board : Boards, due : BOOLEAN, failed : BOOLEAN]

Stages == {"sent", "read", "committed", "emitted", "rejected"}

\* order: newOrder of a move; of an update, the order that it read.
Asked == [by : Clients \cup {Elsewhere}, kind : {"move", "update", "create", "delete"},
          issue : Issues \cup {NoCard}, status : Statuses \cup {NoCard},
          order : Int, stage : Stages]

Events == [type : {"moved"}, issue : Issues, status : Statuses, order : Int]
            \cup [type : {"updated", "created", "deleted"}, issue : Issues]

ASSUME BoardSyncAssumption ==
  /\ One \in Nat \ {0} /\ Threshold \in Nat \ {0}
  /\ Elsewhere \notin Clients /\ Orders \subseteq Int
  /\ MaxRequests \in Nat /\ MaxBreaks \in Nat
  /\ One % 2^MaxRequests = 0       \* so that no midpoint is rounded
  /\ IsFiniteSet(Issues) /\ NoOne \notin Asked
  /\ NoCard \notin Card \cup Issues \cup Statuses /\ Removed \notin Card /\ NoCard # Removed
  /\ InitRows \in [Issues -> Card \cup {NoCard}]

NoBoard == [i \in Issues |-> NoCard]

Init ==
  /\ rows = InitRows
  /\ req = [r \in Requests |-> NoOne]
  /\ inbox = [c \in Clients |-> <<>>]
  /\ page = [c \in Clients |-> "joined"]
  /\ cache = [c \in Clients |-> InitRows]
  /\ query = [c \in Clients |-> [fetch |-> "none", board |-> NoBoard, due |-> FALSE, failed |-> FALSE]]
  /\ astray = [c \in Clients |-> {}]
  /\ started = 0
  /\ breaks = 0

-----------------------------------------------------------------------------
(* Columns and orders.                                                     *)

Live(i) == rows[i] \in Card

\* GET /projects/:id/board.
Board == [i \in Issues |-> IF Live(i) THEN rows[i] ELSE NoCard]

InColumn(board, s) == {i \in Issues : board[i] \in Card /\ board[i].status = s}

\* The issues of a column in the order of the list; equal orders either way.
Listings(board, s) ==
  LET column == InColumn(board, s) IN
  {l \in [1..Cardinality(column) -> column] :
     \A m, n \in DOMAIN l : m < n => l[m] # l[n] /\ board[l[m]].order <= board[l[n]].order}

\* issues[n]?.order, counted from 1.
OrderAt(board, list, n, default) ==
  IF n \in DOMAIN list THEN board[list[n]].order ELSE default

\* newOrder of a card dropped at destIndex; list has the card filtered out.
NewOrder(board, list, index) ==
  LET prev == OrderAt(board, list, index, 0)
      next == OrderAt(board, list, index + 1, prev + 2 * One)
      mid  == (prev + next) \div 2
  IN IF mid - prev < Threshold THEN prev + One ELSE mid

\* The list of the column without the card that is dragged.
Without(list, i) ==
  LET others == {n \in DOMAIN list : list[n] # i}
      Place(n) == IF \E m \in 1..n : list[m] = i THEN n + 1 ELSE n
  IN [n \in 1..Cardinality(others) |-> list[Place(n)]]

Distance(a, b) == IF a < b THEN b - a ELSE a - b

\* Mutant of AfterMove: the ranks of the rebalance are counted from 0.
RankedFromZero(i, s, o) ==
  LET moved  == [rows EXCEPT ![i] = [status |-> s, order |-> o]]
      column == InColumn(moved, s)
  IN IF \E j \in column \ {i} : Distance(moved[j].order, o) < Threshold
     THEN {[j \in Issues |-> IF j \in column
              THEN [moved[j] EXCEPT !.order = One * ((CHOOSE n \in DOMAIN l : l[n] = j) - 1)]
              ELSE moved[j]] : l \in Listings(moved, s)}
     ELSE {moved}

\* The rows after a move: the column is renumbered when a neighbour is too close.
AfterMove(i, s, o) ==
  LET moved  == [rows EXCEPT ![i] = [status |-> s, order |-> o]]
      column == InColumn(moved, s)
  IN IF \E j \in column \ {i} : Distance(moved[j].order, o) < Threshold
     THEN {[j \in Issues |-> IF j \in column
              THEN [moved[j] EXCEPT !.order = One * (CHOOSE n \in DOMAIN l : l[n] = j)]
              ELSE moved[j]] : l \in Listings(moved, s)}
     ELSE {moved}

MaxOrder(s) ==
  LET orders == {rows[i].order : i \in InColumn(rows, s)}
  IN IF orders = {} THEN 0 ELSE CHOOSE x \in orders : \A y \in orders : y <= x

-----------------------------------------------------------------------------
(* The query.                                                              *)

Shown(c) == page[c] # "away" /\ ~query[c].failed

\* Mutant of Invalidated: a fetch under way is left to finish.
InvalidatedOnce(c) ==
  IF page[c] # "away" /\ query[c].fetch = "none"
  THEN [query EXCEPT ![c].fetch = "sent", ![c].due = TRUE]
  ELSE [query EXCEPT ![c].due = TRUE]

\* invalidateQueries: a query that is shown is fetched again, and a fetch under
\* way is cancelled for it; one that is not waits for the next visit.
Invalidated(c) ==
  IF page[c] # "away"
  THEN [query EXCEPT ![c].fetch = "sent", ![c].board = NoBoard, ![c].due = TRUE]
  ELSE [query EXCEPT ![c].due = TRUE]

\* setQueryData: the query counts as fresh.
Patch(c, board) ==
  /\ cache' = [cache EXCEPT ![c] = board]
  /\ query' = [query EXCEPT ![c].due = FALSE]

Busy(r) == req[r] # NoOne

Underway(i) == \E r \in Requests : Busy(r) /\ req[r].issue = i

Announced(c, i) == \E n \in DOMAIN inbox[c] : inbox[c][n].issue = i

ServeBoard(c) ==
  /\ query[c].fetch = "sent"
  /\ query' = [query EXCEPT ![c].fetch = "served", ![c].board = Board]
  /\ astray' = [astray EXCEPT ![c] = {i \in @ : Underway(i) \/ Announced(c, i)}]
  /\ UNCHANGED <<rows, req, inbox, page, cache, started, breaks>>

ReceiveBoard(c) ==
  /\ query[c].fetch = "served"
  /\ cache' = [cache EXCEPT ![c] = query[c].board]
  /\ query' = [query EXCEPT ![c].fetch = "none", ![c].board = NoBoard, ![c].due = FALSE, ![c].failed = FALSE]
  /\ UNCHANGED <<rows, req, inbox, page, astray, started, breaks>>

\* The board leaves the screen, and with it the room; events are no longer handled.
Unmount(c, to) ==
  /\ page' = [page EXCEPT ![c] = to]
  /\ inbox' = [inbox EXCEPT ![c] = <<>>]
  /\ breaks < MaxBreaks /\ breaks' = breaks + 1

\* The fetch and its retry fail: BoardPage shows the error in place of the board.
FailBoard(c) ==
  /\ query[c].fetch # "none"
  /\ query' = [query EXCEPT ![c].fetch = "none", ![c].board = NoBoard, ![c].failed = TRUE]
  /\ Unmount(c, IF page[c] = "away" THEN "away" ELSE "open")
  /\ astray' = [astray EXCEPT ![c] = Issues]
  /\ UNCHANGED <<rows, req, cache, started>>

-----------------------------------------------------------------------------
(* The page.                                                               *)

Leave(c) ==
  /\ page[c] # "away"
  /\ Unmount(c, "away")
  /\ astray' = [astray EXCEPT ![c] = @ \cup {i \in Issues : Announced(c, i)}]
  /\ UNCHANGED <<rows, req, cache, query, started>>

\* A query that is due or older than staleTime is fetched.  (One that was thrown
\* away, after gcTime, is shown only when it has arrived.)
Return(c) ==
  /\ page[c] = "away"
  /\ page' = [page EXCEPT ![c] = "open"]
  /\ query' \in {[query EXCEPT ![c].fetch = f] :
       f \in IF query[c].fetch # "none" THEN {query[c].fetch}
             ELSE IF query[c].due THEN {"sent"} ELSE {"none", "sent"}}
  /\ UNCHANGED <<rows, req, inbox, cache, astray, started, breaks>>

\* The gateway has handled the join:project of the board.
Join(c) ==
  /\ page[c] = "open" /\ ~query[c].failed
  /\ page' = [page EXCEPT ![c] = "joined"]
  /\ UNCHANGED <<rows, req, inbox, cache, query, astray, started, breaks>>

-----------------------------------------------------------------------------
(* What users do.                                                          *)

Send(by, kind, i, s, o) ==
  /\ started < MaxRequests
  /\ \E r \in Requests :
       /\ ~Busy(r)
       /\ req' = [req EXCEPT ![r] = [by |-> by, kind |-> kind, issue |-> i,
                                     status |-> s, order |-> o, stage |-> "sent"]]
  /\ started' = started + 1
  /\ UNCHANGED <<rows, inbox, page, astray, breaks>>

\* onDragEnd: card i is dropped at position index of column s as the client sees
\* it: on the card that is there, or behind the last when it is dropped on the
\* column.  The list of the column may contain i itself.
Drop(c, i, s) ==
  /\ Shown(c) /\ cache[c][i] \in Card
  /\ \E list \in Listings(cache[c], s), index \in 0..Cardinality(Issues) :
       /\ index <= Len(list)
       /\ index < Len(list) => list[index + 1] # i
       /\ LET o == NewOrder(cache[c], Without(list, i), index)
          IN /\ Patch(c, [cache[c] EXCEPT ![i] = [status |-> s, order |-> o]])
             /\ Send(c, "move", i, s, o)

\* IssueDetailDrawer, of an issue on the board.
Update(c, i, s) ==
  /\ Shown(c) /\ cache[c][i] \in Card /\ cache[c][i].status # s
  /\ Send(c, "update", i, s, 0)
  /\ UNCHANGED <<cache, query>>

\* KanbanColumn, "add".
Create(c, s) ==
  /\ Shown(c)
  /\ Send(c, "create", NoCard, s, 0)
  /\ UNCHANGED <<cache, query>>

\* The same from other boards, which may be out of date, and DELETE /issues/:id.
SendElsewhere ==
  /\ \/ \E s \in Statuses : Send(Elsewhere, "create", NoCard, s, 0)
     \/ \E i \in Issues, s \in Statuses :
          /\ rows[i] # NoCard
          /\ \/ \E o \in Orders : Send(Elsewhere, "move", i, s, o)
             \/ Send(Elsewhere, "update", i, s, 0)
     \/ \E i \in Issues : rows[i] # NoCard /\ Send(Elsewhere, "delete", i, NoCard, 0)
  /\ UNCHANGED <<cache, query>>

-----------------------------------------------------------------------------
(* The server.                                                             *)

\* The findOne before the transaction.
Read(r) ==
  /\ Busy(r) /\ req[r].stage = "sent" /\ req[r].kind # "create"
  /\ Live(req[r].issue)
  /\ req' = [req EXCEPT ![r].stage = "read",
                        ![r].order = IF req[r].kind = "update" THEN rows[req[r].issue].order ELSE @]
  /\ UNCHANGED <<rows, inbox, page, cache, query, astray, started, breaks>>

\* The rows request r may leave, with the issue it is about.  save() writes the
\* columns in which the entity that was read differs from the row, and inserts an
\* issue that is gone by now.
Outcomes(r) ==
  LET q == req[r] IN
  CASE q.kind = "create" ->
         {[issue |-> i, rows |-> [rows EXCEPT ![i] = [status |-> q.status, order |-> MaxOrder(q.status) + One]]]
            : i \in {j \in Issues : rows[j] = NoCard}}
    [] q.kind = "move" ->
         {[issue |-> q.issue, rows |-> t] : t \in AfterMove(q.issue, q.status, q.order)}
    [] q.kind = "update" ->
         {[issue |-> q.issue, rows |-> [rows EXCEPT ![q.issue] = [status |-> q.status, order |-> q.order]]]}
    [] q.kind = "delete" ->
         {[issue |-> q.issue, rows |-> [rows EXCEPT ![q.issue] = Removed]]}

\* Issues the event of request r will not tell, or not in time: renumbered by a
\* rebalance, inserted again by a move, or with an earlier change still to be
\* announced.
Untold(r, i, new) ==
  {j \in Issues \ {i} : new[j] # rows[j]}
  \cup {j \in {i} :
         \/ req[r].kind = "move" /\ (~Live(i) \/ new[i].order # req[r].order)
         \/ \E q \in Requests : Busy(q) /\ req[q].issue = i /\ req[q].stage = "committed"}

Commit(r) ==
  /\ Busy(r) /\ req[r].stage = (IF req[r].kind = "create" THEN "sent" ELSE "read")
  /\ \E o \in Outcomes(r) :
       /\ rows' = o.rows
       /\ req' = [req EXCEPT ![r].stage = "committed", ![r].issue = o.issue]
       /\ astray' = [c \in Clients |-> astray[c] \cup Untold(r, o.issue, o.rows)]
  /\ UNCHANGED <<inbox, page, cache, query, started, breaks>>

\* The issue is gone, or the request fails for a reason of its own.
Reject(r) ==
  /\ Busy(r) /\ req[r].stage \in {"sent", "read"}
  /\ req' = [req EXCEPT ![r].stage = "rejected"]
  /\ UNCHANGED <<rows, inbox, page, cache, query, astray, started, breaks>>

EventOf(q) ==
  CASE q.kind = "move"   -> [type |-> "moved", issue |-> q.issue, status |-> q.status, order |-> q.order]
    [] q.kind = "update" -> [type |-> "updated", issue |-> q.issue]
    [] q.kind = "create" -> [type |-> "created", issue |-> q.issue]
    [] q.kind = "delete" -> [type |-> "deleted", issue |-> q.issue]

\* To the room, the sender included.
Emit(r) ==
  /\ Busy(r) /\ req[r].stage = "committed"
  /\ req' = [req EXCEPT ![r].stage = "emitted"]
  /\ inbox' = [c \in Clients |->
       IF page[c] = "joined" THEN Append(inbox[c], EventOf(req[r])) ELSE inbox[c]]
  /\ astray' = [c \in Clients |->
       IF page[c] = "joined" THEN astray[c] ELSE astray[c] \cup {req[r].issue}]
  /\ UNCHANGED <<rows, page, cache, query, started, breaks>>

-----------------------------------------------------------------------------
(* What the clients hear.                                                  *)

\* onIssueMoved and onIssueDeleted.
AfterEvent(board, e) ==
  CASE e.type = "moved" /\ board[e.issue] \in Card ->
         [board EXCEPT ![e.issue] = [status |-> e.status, order |-> e.order]]
    [] e.type = "deleted" -> [board EXCEPT ![e.issue] = NoCard]
    [] OTHER -> board

\* A patch is lost when a board read before it is still on its way.
Handle(c) ==
  /\ inbox[c] # <<>>
  /\ LET e == Head(inbox[c]) IN
     IF e.type \in {"updated", "created"}
     THEN /\ query' = Invalidated(c)
          /\ UNCHANGED <<cache, astray>>
     ELSE /\ Patch(c, AfterEvent(cache[c], e))
          /\ astray' = [astray EXCEPT ![c] =
               IF query[c].fetch = "served" THEN @ \cup {e.issue} ELSE @]
  /\ inbox' = [inbox EXCEPT ![c] = Tail(@)]
  /\ UNCHANGED <<rows, req, page, started, breaks>>

\* onSuccess of update and create, onError of move.
Refetches(r) ==
  \/ req[r].kind \in {"update", "create"} /\ req[r].stage = "emitted"
  \/ req[r].kind = "move" /\ req[r].stage = "rejected"

Answer(r) ==
  /\ Busy(r) /\ req[r].stage \in {"emitted", "rejected"}
  /\ query' = IF Refetches(r) /\ req[r].by \in Clients THEN Invalidated(req[r].by) ELSE query
  /\ req' = [req EXCEPT ![r] = NoOne]
  /\ UNCHANGED <<rows, inbox, page, cache, astray, started, breaks>>

\* The answer is lost on the way: an error to the client.
LoseAnswer(r) ==
  /\ Busy(r) /\ req[r].stage = "emitted"
  /\ query' = IF req[r].kind = "move" /\ req[r].by \in Clients THEN Invalidated(req[r].by) ELSE query
  /\ req' = [req EXCEPT ![r] = NoOne]
  /\ UNCHANGED <<rows, inbox, page, cache, astray, started, breaks>>

-----------------------------------------------------------------------------

Next ==
  \/ \E r \in Requests : Read(r) \/ Commit(r) \/ Reject(r) \/ Emit(r) \/ Answer(r) \/ LoseAnswer(r)
  \/ \E c \in Clients :
       \/ ServeBoard(c) \/ ReceiveBoard(c) \/ FailBoard(c)
       \/ Leave(c) \/ Return(c) \/ Join(c) \/ Handle(c)
       \/ \E s \in Statuses : Create(c, s)
       \/ \E i \in Issues, s \in Statuses : Drop(c, i, s) \/ Update(c, i, s)
  \/ SendElsewhere

Spec == Init /\ [][Next]_vars

-----------------------------------------------------------------------------
(* Properties.                                                             *)

TypeOK ==
  /\ rows \in [Issues -> Card \cup {NoCard, Removed}]
  /\ req \in [Requests -> Asked \cup {NoOne}]
  /\ inbox \in [Clients -> Seq(Events)]
  /\ page \in [Clients -> {"away", "open", "joined"}]
  /\ cache \in [Clients -> Boards]
  /\ query \in [Clients -> Queries]
  /\ astray \in [Clients -> SUBSET Issues]
  /\ started \in 0..MaxRequests /\ breaks \in 0..MaxBreaks

\* Nothing that could still change what client c shows of issue i is under way.
Calm(c, i) ==
  /\ page[c] = "joined" /\ query[c].fetch = "none"
  /\ ~Underway(i) /\ ~Announced(c, i)

\* Once its requests are answered and its events handled, a card is where the
\* server has it on every board, however drops, rejections, events and fetches
\* overtook each other.  The exceptions are those of astray: a rebalance renumbered
\* it, a move inserted it again that had read it before it was deleted, the client
\* was not in the room or its fetch failed, its event was handled while an older
\* board was on its way, or two changes were announced out of order; and each is
\* over with the next board fetched.
BoardsAgree ==
  \A c \in Clients, i \in Issues :
    Calm(c, i) /\ i \notin astray[c] => cache[c][i] = Board[i]

\* The variables have their types, and BoardsAgree: boards show the server's cards.
BoardInv == TypeOK /\ BoardsAgree

Rows == INSTANCE IssueRows WITH Gone <- NoCard, issues <- Board

\* The server of this module, which commits a request in one step, promises the
\* same as the one of IssuesService: IssueRows.
ImplementsIssueRows == Rows!Spec
=============================================================================
