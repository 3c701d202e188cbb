--------------------------- MODULE MCIssuesService ---------------------------
(* IssuesService on a board with two or three issues and two columns. *)
EXTENDS IssuesService

CONSTANTS i1, i2, i3, todoCol, doneCol, someone

\* What two creates in one column leave.
MCInitRows == [i \in Issues |->
  CASE i = i1 -> [status |-> todoCol, order |-> One, assignee |-> Nobody]
    [] i = i2 -> [status |-> todoCol, order |-> 2 * One, assignee |-> Nobody]
    [] OTHER  -> NoRow]
=============================================================================
