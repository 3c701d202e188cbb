-------------------------- MODULE MCProjectPlanning --------------------------
(* ProjectPlanning with a board of two columns, two sprints and one issue. *)
EXTENDS ProjectPlanning, TLC

CONSTANTS backlog, done, c1, c2, c3, c4, s1, s2, r1, r2

MCDefaultBoard == (backlog :> 0) @@ (done :> 1)
MCSymmetry == Permutations({s1, s2})
=============================================================================
