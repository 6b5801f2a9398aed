------------------------- MODULE MCPublishedTokens -------------------------
(* PublishedTokens for model checking.                                     *)
(*                                                                         *)
(* PublishedTokens alone, as in MCPublished but without failures, for the  *)
(* run that finds a violation.                                             *)
EXTENDS PublishedTokens, TLC

CONSTANTS a1, a2, p1, p2, t1, t2

Interchangeable ==
  Permutations(Actor) \cup Permutations(Pub) \cup Permutations(Token \ Legacy)
=============================================================================
