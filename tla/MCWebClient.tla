------------------------------ MODULE MCWebClient ------------------------------
(* WebClient with two users and small numbers. *)
EXTENDS WebClient

CONSTANTS tab1, tab2, ann, bob, q1, q2
=============================================================================
