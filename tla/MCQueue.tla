------------------------------- MODULE MCQueue -------------------------------
(***************************************************************************)
(* A small instance of Queue: two producers, three consumers and a poller, *)
(* which is more than the cache node has (one of each and no poller).      *)
(***************************************************************************)
EXTENDS Queue

CONSTANTS p1, p2, c1, c2, c3
=============================================================================
