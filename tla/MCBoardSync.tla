----------------------------- MODULE MCBoardSync -----------------------------
(* BoardSync with one board among others, two issues (and one to create) and two columns. *)
EXTENDS BoardSync

CONSTANTS i1, i2, i3, todoCol, doneCol

MCInitRows == [i \in Issues |->
  CASE i = i1 -> [status |-> todoCol, order |-> One]
    [] i = i2 -> [status |-> todoCol, order |-> 2 * One]
    [] OTHER  -> NoCard]
=============================================================================
