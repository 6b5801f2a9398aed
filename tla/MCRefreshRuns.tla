---------------------------- MODULE MCRefreshRuns ----------------------------
(* RefreshRuns for model checking: the scheduler and two requests, two     *)
(* workspaces that share one published file beside the file of the         *)
(* service, and two slots: enough for a job to meet another one on its     *)
(* workspace, on its output only, or with all slots taken.  One edit of    *)
(* each workspace makes a lost update visible, one restart leaves a staged *)
(* file behind.  Requests are interchangeable, and so are workspaces.      *)
(* MCProgress has the smaller instance on which liveness is checked.       *)
EXTENDS RefreshRuns, TLC

CONSTANTS sched, r1, r2, w1, w2

Interchangeable == Permutations({r1, r2}) \cup Permutations({w1, w2})
=============================================================================
