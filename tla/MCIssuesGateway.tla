--------------------------- MODULE MCIssuesGateway ---------------------------
(* The open gateway on small sets: any socket sends any command at any time. *)
EXTENDS IssuesGateway, Naturals, TLC

CONSTANTS
  u1, u2, T,
  MaxQueued     \* bound: messages waiting at one socket

MCUserTenant == [u \in Users |-> T]

\* States with more messages waiting are not explored further.
OutboxBound == \A s \in Sockets : Len(outbox[s]) <= MaxQueued

\* Sockets are interchangeable, and so are projects.
Symmetry == Permutations(Sockets) \cup Permutations(Projects)
=============================================================================
