---------------------------- MODULE MCAuthService ----------------------------
(* AuthService with one user who has a few tokens, and requests that overlap. *)
EXTENDS AuthService, TLC

CONSTANT u1

MCTokenUser == [k \in TokenIds |-> u1]

\* Requests are interchangeable, and so are the token ids of the one user.
Symmetry == Permutations(Requests) \cup Permutations(TokenIds)
=============================================================================
