---------------------------- MODULE MCProgress ------------------------------
(* Two components that share no state, for model checking what must        *)
(* eventually happen: the locks of workspaces and the refresh jobs.  A     *)
(* behaviour exercises one of them, chosen in the initial state; nothing   *)
(* that is fair is enabled in the other.  No symmetry: the run checks      *)
(* liveness.                                                               *)
(*                                                                         *)
(* Locks: three calls of lock or tryLock over two workspaces, one inside,  *)
(* one waiting or refused, and one that leaves or comes back in between,   *)
(* on the same key and on another; with three addresses, more than are in  *)
(* use, deleted entries are reused.  Refreshes: the scheduler and a        *)
(* request with one slot, so that each can be refused for want of it, and  *)
(* one restart.                                                            *)
EXTENDS WorkspaceLocks, TLC

CONSTANTS c1, c2, c3, sched, w1, w2, Service, o1, oService, NoJob, NoFile

VARIABLES
  component,  \* the component of this behaviour
  at, scope, target, built, written, wsLock, runs, slots, refreshing, state, output,
  staged, saved, crashes

refreshVars == <<at, scope, target, built, written, wsLock, runs, slots, refreshing, state,
  output, staged, saved, crashes>>

Refreshes == INSTANCE RefreshRuns WITH
  pc <- at, Scheduler <- sched, Job <- {sched, c1}, Workspace <- {w1, w2},
  Output <- {o1, oService}, ServiceOutput <- oService, Cap <- 1, MaxEdits <- 0,
  MaxCrashes <- 1

ProgressInit ==
  /\ component \in {"locks", "refreshes"} /\ Init /\ Refreshes!Init
  /\ component = "refreshes" => wanted = [c \in Caller |-> w1]

ProgressNext ==
  /\ UNCHANGED component
  /\ \/ component = "locks" /\ Next /\ UNCHANGED refreshVars
     \/ component = "refreshes" /\ Refreshes!Next /\ UNCHANGED vars

ProgressSpec ==
  /\ ProgressInit
  /\ [][ProgressNext]_<<component, vars, refreshVars>>
  /\ Fairness /\ Refreshes!Fairness

-----------------------------------------------------------------------------
(* Refreshes: a registered key becomes free again (see RefreshRuns).       *)
RunsEnd == Refreshes!RunsEnd
=============================================================================
