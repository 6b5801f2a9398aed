---------------------------- MODULE MCResources -----------------------------
(* Resources for model checking.                                           *)
(*                                                                         *)
(* Two workspaces fetch one URL, so that writes to the shared directory    *)
(* overlap; sizes 1 and 2, so that two downloads differ in size or do not; *)
(* one failed write or crash.  Two requests parse, with six sources and    *)
(* limits that each bind first for some of them.  Two clients for a map    *)
(* of one, and a request may be one tick late.  Two restores overlap, one  *)
(* step fails and one is killed.  Two visitors for at most two workspaces  *)
(* of three IDs; one creation or removal fails or one crash.                *)
EXTENDS Resources, TLC

CONSTANTS k1, k2, k3, k4, k5, k6

(* No clock reading is as early.                                           *)
LongAgo == -10

(* Bytes and nodes of the six sources.                                     *)
BytesOfSources == k1 :> 1 @@ k2 :> 1 @@ k3 :> 1 @@ k4 :> 4 @@ k5 :> 1 @@ k6 :> 1
NodesOfSources == k1 :> 1 @@ k2 :> 1 @@ k3 :> 1 @@ k4 :> 1 @@ k5 :> 3 @@ k6 :> 1

(* One workspace or two are left from an earlier run, and the first may be *)
(* pinned.  The components that a behaviour does not exercise begin in one *)
(* of their initial states.                                                *)
MCInit ==
  /\ ResourcesInit
  /\ dirs \in {{1}, {1, 2}} /\ pinned \subseteq {1}
  /\ component # "workspaces" => dirs = {1} /\ pinned = {}
  /\ component # "restore" =>
       data = Nothing /\ config = Nothing /\ ~running /\ DOMAIN tree = {Restore!ConfigFile}

MCSpec == MCInit /\ [][ResourcesNext]_resourcesVars
=============================================================================
