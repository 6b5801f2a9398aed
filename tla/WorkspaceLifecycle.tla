------------------------- MODULE WorkspaceLifecycle -------------------------
(***************************************************************************)
(* The life of a workspace directory (internal/api/workspaces.go): created *)
(* under the limit of the server, touched by every request that uses it,   *)
(* removed by DELETE, by a request that finds it expired, by the clean-up  *)
(* of StartScheduler and by the clean-up that every creation begins with.  *)
(*                                                                         *)
(* Requests and visits of the clean-up hold the workspace's lock (see      *)
(* WorkspaceLocks), and workspaceMetaMu is only held inside a step, so a   *)
(* load, the decision and the removal that follow the lock are one action. *)
(* workspaceCreateMu is held across several: creator.  What a publication  *)
(* does to a workspace is in Publications; here it pins it.                *)
(***************************************************************************)
EXTENDS Integers, FiniteSets

CONSTANTS
  Visitor,        \* requests and the clean-up goroutine
  Id,             \* workspace IDs that randomWorkspaceID can return
  MaxWorkspaces,  \* SUBCONV_MAX_WORKSPACES
  TTL,            \* workspace_ttl_seconds
  NoMeta,         \* of a directory without a meta.json
  Nobody,         \* holder of a free lock
  MaxTime,        \* bound: the clock
  MaxMishaps      \* bound: crashes, and writes and removals that fail

ASSUME IdsAreFinite == IsFiniteSet(Id) /\ Id # {}
ASSUME LimitIsNat == MaxWorkspaces \in Nat
ASSUME NobodyIsNoVisitor == Nobody \notin Visitor

VARIABLES
  time,
  dirs,           \* workspaces with a directory
  lastAccess,     \* LastAccessAt in the meta.json of each, or NoMeta
  pinned,         \* bound to a live publication
  holder,         \* of each workspace lock
  creator,        \* holder of workspaceCreateMu
  step,           \* where each visitor is
  visits,         \* the directories its clean-up has still to visit
  failed,         \* its clean-up met an error
  target,         \* the workspace it uses or creates
  drawn,          \* history: IDs handed out
  asked,          \* history: when each workspace was last asked for
  faults          \* mishaps so far

diskVars == <<dirs, lastAccess, pinned>>
lifeVars == <<time, diskVars, holder, creator, step, visits, failed, target,
              drawn, asked, faults>>

Expired(w) == lastAccess[w] + TTL <= time

NoTarget == CHOOSE w \in Id : TRUE

(* Some workspaces are left from an earlier run.                           *)
Init ==
  /\ time = 0
  /\ dirs \in {D \in SUBSET Id : Cardinality(D) <= MaxWorkspaces}
  /\ lastAccess = [w \in Id |-> IF w \in dirs THEN 0 ELSE NoMeta]
  /\ pinned \in SUBSET dirs
  /\ holder = [w \in Id |-> Nobody]
  /\ creator = Nobody
  /\ step = [v \in Visitor |-> "idle"]
  /\ visits = [v \in Visitor |-> {}]
  /\ failed = [v \in Visitor |-> FALSE]
  /\ target = [v \in Visitor |-> NoTarget]
  /\ drawn = dirs
  /\ asked = [w \in Id |-> 0]
  /\ faults = 0

Goto(v, stage) == step' = [step EXCEPT ![v] = stage]
Aim(v, w) == target' = [target EXCEPT ![v] = w]
Idle(v) == step[v] = "idle"
Mishap == faults < MaxMishaps /\ faults' = faults + 1

(* removeWorkspace; one that fails may have removed any of the files.      *)
Remove(w) ==
  /\ pinned' = pinned \ {w}
  /\ \/ /\ dirs' = dirs \ {w}
        /\ lastAccess' = [lastAccess EXCEPT ![w] = NoMeta]
        /\ UNCHANGED faults
     \/ /\ Mishap
        /\ lastAccess' \in {lastAccess, [lastAccess EXCEPT ![w] = NoMeta]}
        /\ UNCHANGED dirs

-----------------------------------------------------------------------------
(* Requests.  loadWorkspace: an expired workspace is removed and not       *)
(* found, unless it is pinned; any other one is touched and stays locked   *)
(* while the request lasts.                                                *)
Use(v, w) ==
  /\ Idle(v)
  /\ w \in dirs /\ holder[w] = Nobody /\ lastAccess[w] # NoMeta
  /\ \/ /\ Expired(w) /\ w \notin pinned
        /\ Remove(w)
        /\ UNCHANGED <<holder, step, target, asked>>
     \/ /\ ~Expired(w) \/ w \in pinned
        /\ lastAccess' = [lastAccess EXCEPT ![w] = time]
        /\ asked' = [asked EXCEPT ![w] = time]
        /\ holder' = [holder EXCEPT ![w] = v]
        /\ Aim(v, w)
        /\ Goto(v, "using")
        /\ UNCHANGED <<dirs, pinned, faults>>
  /\ UNCHANGED <<time, creator, visits, failed, drawn>>

(* The handler returns; it may have published the workspace.               *)
Return(v) ==
  /\ step[v] = "using"
  /\ pinned' \in {pinned, pinned \cup {target[v]}}
  /\ holder' = [holder EXCEPT ![target[v]] = Nobody]
  /\ Aim(v, NoTarget)
  /\ Goto(v, "idle")
  /\ UNCHANGED <<time, dirs, lastAccess, creator, visits, failed, drawn, asked, faults>>

(* DELETE /api/workspaces/ID: deleteWorkspace, pinned or not.              *)
Delete(v, w) ==
  /\ Idle(v)
  /\ w \in dirs /\ holder[w] = Nobody /\ lastAccess[w] # NoMeta
  /\ Remove(w)
  /\ UNCHANGED <<time, holder, creator, step, visits, failed, target, drawn, asked>>

(* Its publication is deleted, which needs no lock of the workspace.       *)
Unpin(w) ==
  /\ w \in pinned
  /\ pinned' = pinned \ {w}
  /\ UNCHANGED <<time, dirs, lastAccess, holder, creator, step, visits, failed,
                 target, drawn, asked, faults>>

-----------------------------------------------------------------------------
(* cleanupExpiredWorkspaces: list the directories, then visit each.        *)
List(v, stage) ==
  /\ visits' = [visits EXCEPT ![v] = dirs]
  /\ Goto(v, stage)
  /\ UNCHANGED <<time, diskVars, holder, failed, target, drawn, asked, faults>>

CleanUp(v) == Idle(v) /\ List(v, "cleaning") /\ UNCHANGED creator

(* Mutant: the clean-up does not wait for the workspace's lock.            *)
VisitUnlocked(v, w) ==
  /\ step[v] \in {"cleaning", "making room"}
  /\ w \in visits[v]
  /\ visits' = [visits EXCEPT ![v] = @ \ {w}]
  /\ failed' = [failed EXCEPT ![v] = @ \/ lastAccess[w] = NoMeta]
  /\ IF lastAccess[w] # NoMeta /\ w \notin pinned /\ Expired(w)
     THEN Remove(w)
     ELSE UNCHANGED <<diskVars, faults>>
  /\ UNCHANGED <<time, holder, creator, step, target, drawn, asked>>

(* A directory whose meta.json cannot be loaded, because it is gone by now *)
(* or because it never had one, is an error; so is a removal that fails.   *)
Visit(v, w) ==
  /\ step[v] \in {"cleaning", "making room"}
  /\ w \in visits[v] /\ holder[w] = Nobody
  /\ visits' = [visits EXCEPT ![v] = @ \ {w}]
  /\ IF lastAccess[w] # NoMeta /\ w \notin pinned /\ Expired(w)
     THEN Remove(w) /\ failed' = [failed EXCEPT ![v] = @ \/ w \in dirs']
     ELSE /\ failed' = [failed EXCEPT ![v] = @ \/ lastAccess[w] = NoMeta]
          /\ UNCHANGED <<diskVars, faults>>
  /\ UNCHANGED <<time, holder, creator, step, target, drawn, asked>>

(* The goroutine only logs the errors.                                     *)
Cleaned(v) ==
  /\ step[v] = "cleaning" /\ visits[v] = {}
  /\ failed' = [failed EXCEPT ![v] = FALSE]
  /\ Goto(v, "idle")
  /\ UNCHANGED <<time, diskVars, holder, creator, visits, target, drawn, asked, faults>>

-----------------------------------------------------------------------------
(* createWorkspace.                                                        *)
(* Mutant: creations do not exclude each other.                            *)
BeginCreateUnlocked(v) == Idle(v) /\ creator' = v /\ List(v, "making room")

BeginCreate(v) ==
  /\ Idle(v) /\ creator = Nobody
  /\ creator' = v
  /\ List(v, "making room")

(* Refused for any error of the clean-up, then for the limit, which counts *)
(* every directory.                                                        *)
Count(v) ==
  /\ step[v] = "making room" /\ visits[v] = {}
  /\ \/ /\ failed[v] \/ Cardinality(dirs) >= MaxWorkspaces
        /\ creator' = Nobody
        /\ Goto(v, "idle")
     \/ /\ ~failed[v] /\ Cardinality(dirs) < MaxWorkspaces
        /\ Goto(v, "counted")
        /\ UNCHANGED creator
  /\ failed' = [failed EXCEPT ![v] = FALSE]
  /\ UNCHANGED <<time, diskVars, holder, visits, target, drawn, asked, faults>>

MakeDir(v) ==
  /\ step[v] = "counted"
  /\ \E w \in Id \ drawn :
       /\ dirs' = dirs \cup {w}
       /\ drawn' = drawn \cup {w}
       /\ Aim(v, w)
  /\ Goto(v, "made")
  /\ UNCHANGED <<time, lastAccess, pinned, holder, creator, visits, failed, asked, faults>>

(* config.json, meta.json and state.json; a write that fails ends the      *)
(* request and leaves the directory as it is.                              *)
WriteMeta(v) ==
  /\ step[v] = "made"
  /\ \/ /\ lastAccess' = [lastAccess EXCEPT ![target[v]] = time]
        /\ asked' = [asked EXCEPT ![target[v]] = time]
        /\ UNCHANGED faults
     \/ Mishap /\ UNCHANGED <<lastAccess, asked>>
  /\ creator' = Nobody
  /\ Aim(v, NoTarget)
  /\ Goto(v, "idle")
  /\ UNCHANGED <<time, dirs, pinned, holder, visits, failed, drawn>>

-----------------------------------------------------------------------------
(* The process dies and starts again: what is on disk stays as it is.      *)
Restart ==
  /\ Mishap
  /\ holder' = [w \in Id |-> Nobody]
  /\ creator' = Nobody
  /\ step' = [v \in Visitor |-> "idle"]
  /\ visits' = [v \in Visitor |-> {}]
  /\ failed' = [v \in Visitor |-> FALSE]
  /\ target' = [v \in Visitor |-> NoTarget]
  /\ UNCHANGED <<time, diskVars, drawn, asked>>

Tick ==
  /\ time < MaxTime
  /\ time' = time + 1
  /\ UNCHANGED <<diskVars, holder, creator, step, visits, failed, target, drawn, asked, faults>>

Next ==
  \/ \E v \in Visitor :
       \/ \E w \in Id : Use(v, w) \/ Delete(v, w) \/ Visit(v, w)
       \/ Return(v) \/ CleanUp(v) \/ Cleaned(v)
       \/ BeginCreate(v) \/ Count(v) \/ MakeDir(v) \/ WriteMeta(v)
  \/ \E w \in Id : Unpin(w)
  \/ Restart \/ Tick

Spec == Init /\ [][Next]_lifeVars

-----------------------------------------------------------------------------
(* There are never more directories than the server allows: two creations  *)
(* cannot count the same room (workspaceCreateMu), and directories that a  *)
(* failed creation or removal left behind count as well.                   *)
LimitIsKept == Cardinality(dirs) <= MaxWorkspaces

(* A workspace disappears when its owner deletes it, or when nothing has   *)
(* asked for it for the time to live, no publication pins it and no        *)
(* request is using it.                                                    *)
Abandoned(w) == w \notin pinned /\ holder[w] = Nobody /\ asked[w] + TTL <= time

WorkspacesInUseSurvive ==
  [][\A w \in dirs \ dirs' : Abandoned(w) \/ \E v \in Visitor : Delete(v, w)]_lifeVars
=============================================================================
