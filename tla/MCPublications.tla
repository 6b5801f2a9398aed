--------------------------- MODULE MCPublications ---------------------------
(* Publications alone, as in MCPublished, for the runs that find a         *)
(* violation: PublicationsDeadlock.cfg needs no failure, PublicationsCap   *)
(* also a third actor: two refreshes and the sweep of one of them.         *)
EXTENDS Publications, TLC

CONSTANTS a1, a2, a3, p1, p2, p3

Interchangeable == Permutations(Actor) \cup Permutations(Pub)
=============================================================================
