--------------------------- MODULE MCAccessCounts ---------------------------
(* AccessCounts for model checking: three actors, so that a download, a    *)
(* timer's goroutine and a deletion (or two timers' goroutines) overlap;   *)
(* three downloads, so that one is written, one is pending and one is on   *)
(* its way; one failed write or restart.  The actors would be              *)
(* interchangeable, but the run checks liveness and uses no symmetry.      *)
EXTENDS AccessCounts

CONSTANTS a1, a2, a3
=============================================================================
