------------------------------ MODULE IssuePages ------------------------------
(***************************************************************************)
(* The list of issues, page by page (apps/api/src/modules/issues/          *)
(* issues.service.ts, findAll): a client follows nextCursor while hasMore, *)
(* and meanwhile issues are created, moved, renumbered, updated so that    *)
(* the filters let them in or no longer do, and deleted.  A page is read   *)
(* by two SELECTs, in no transaction: getMany with a join and take selects *)
(* the ids, in their order, and then the rows with these ids, for which    *)
(* the conditions are asked again.                                         *)
(***************************************************************************)
EXTENDS Integers, FiniteSets

CONSTANTS
  Ids,         \* issue ids, numbers
  Places,      \* values of the order column
  Out,         \* not there, or not let in by the filters
  NoCursor,
  Limit,
  MaxShifts    \* bound: changes in all

VARIABLES
  order,     \* issue -> its order, or Out
  reader,    \* the client: cursor of the next page; ids of the page under way; done;
             \* torn: history: an issue of a page was changed between its two SELECTs
  got,       \* how often the client was given an issue
  shifted,   \* history: the issues changed since the first page
  shifts     \* counter of the bound

pagesVars == <<order, reader, got, shifted, shifts>>

Cursor == [order : Places, id : Ids]

ASSUME PagesAssumption ==
  /\ IsFiniteSet(Ids) /\ Ids \subseteq Int /\ Places \subseteq Int /\ Out \notin Int /\ NoCursor \notin Cursor
  /\ Limit \in Nat \ {0} /\ MaxShifts \in Nat

PagesInit ==
  /\ order \in [Ids -> Places \cup {Out}]
  /\ reader = [cursor |-> NoCursor, ids |-> {}, done |-> FALSE, torn |-> FALSE]
  /\ got = [i \in Ids |-> 0]
  /\ shifted = {} /\ shifts = 0

\* ORDER BY order, id.
Before(i, j) == order[i] < order[j] \/ (order[i] = order[j] /\ i < j)

\* Mutant of After: the id does not count.
AfterOrder(i, c) == c = NoCursor \/ order[i] > c.order

\* order > :cursorOrder OR (order = :cursorOrder AND id > :cursorId).
After(i, c) == c = NoCursor \/ order[i] > c.order \/ (order[i] = c.order /\ i > c.id)

Matches(c) == {i \in Ids : order[i] # Out /\ After(i, c)}

FirstOf(S, n) == {i \in S : Cardinality({j \in S : Before(j, i)}) < n}

\* The ids, take(limit + 1).  No second SELECT if there are none.
FindIds ==
  LET found == Matches(reader.cursor)
  IN /\ ~reader.done /\ reader.ids = {}
     /\ reader' = [reader EXCEPT !.ids = FirstOf(found, Limit + 1), !.done = found = {}]
     /\ UNCHANGED <<order, got, shifted, shifts>>

\* The rows: what still matches.  All but the extra one are given.
FindRows ==
  LET rows == reader.ids \cap Matches(reader.cursor)
      page == FirstOf(rows, Limit)
      last == CHOOSE i \in page : \A j \in page \ {i} : Before(j, i)
  IN /\ reader.ids # {}
     /\ got' = [i \in Ids |-> IF i \in page THEN got[i] + 1 ELSE got[i]]
     /\ reader' = [reader EXCEPT
          !.cursor = IF page = {} THEN NoCursor ELSE [order |-> order[last], id |-> last],
          !.ids = {}, !.done = Cardinality(rows) <= Limit]
     /\ UNCHANGED <<order, shifted, shifts>>

Shift(i) ==
  /\ shifts < MaxShifts /\ ~reader.done
  /\ \E o \in (Places \cup {Out}) \ {order[i]} : order' = [order EXCEPT ![i] = o]
  /\ reader' = [reader EXCEPT !.torn = @ \/ i \in reader.ids]
  /\ shifted' = shifted \cup {i} /\ shifts' = shifts + 1
  /\ UNCHANGED got

PagesNext == FindIds \/ FindRows \/ \E i \in Ids : Shift(i)

PagesSpec == PagesInit /\ [][PagesNext]_pagesVars

\* A client that has followed the cursors to the end was given every issue that
\* stayed where it was exactly once, whatever became of the others between the pages,
\* the one the cursor names included, and of those not on the page within one; never
\* twice, even if an issue of a page was changed between its two SELECTs.  After such
\* a change the list may end early, or its cursor skip issues.
EachGivenOnce ==
  \A i \in Ids \ shifted :
    /\ got[i] <= 1
    /\ reader.done /\ ~reader.torn => got[i] = IF order[i] = Out THEN 0 ELSE 1
=============================================================================
