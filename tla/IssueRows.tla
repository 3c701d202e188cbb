------------------------------- MODULE IssueRows -------------------------------
(***************************************************************************)
(* What the rows of a project's issues promise to those who read them: a   *)
(* commit is a request for one issue.  The others stay in their columns;   *)
(* at most they are renumbered along with it, to the whole multiples of    *)
(* 1.0 that a rebalance deals out, no two of them alike.                   *)
(*                                                                         *)
(* IssuesService, with its transactions of many round trips, and BoardSync, *)
(* where a request takes effect in one step, both implement this.          *)
(***************************************************************************)
EXTENDS Integers, FiniteSets

CONSTANTS Issues, Statuses, One, Gone

VARIABLE issues     \* issue -> where it is, or Gone

Card == [status : Statuses, order : Int]

\* The orders a rebalance deals out.
Ranks == {n * One : n \in 1..Cardinality(Issues)}

Init == issues \in [Issues -> Card \cup {Gone}]

\* The issues other than i whose order changes.
Renumbered(i) == {j \in Issues \ {i} : issues'[j] # issues[j]}

\* create, update and move of issue i.  (A move or an update that has read the
\* issue before it was deleted inserts it again; a move that loses the column to an
\* update renumbers the column it was meant for, without the issue.)
Write(i) ==
  /\ issues' \in [Issues -> Card \cup {Gone}] /\ issues'[i] \in Card
  /\ \A j \in Renumbered(i) :
       /\ issues[j] \in Card /\ issues'[j] \in Card
       /\ issues'[j].status = issues[j].status
       /\ issues'[j].order \in Ranks
       /\ \A k \in Renumbered(i) \ {j} : issues'[k].order # issues'[j].order

\* remove.
Remove(i) ==
  /\ issues[i] \in Card
  /\ issues' = [issues EXCEPT ![i] = Gone]

Next == \E i \in Issues : Write(i) \/ Remove(i)

Spec == Init /\ [][Next]_issues
=============================================================================
