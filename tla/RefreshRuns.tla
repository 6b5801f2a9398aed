---------------------------- MODULE RefreshRuns ----------------------------
(***************************************************************************)
(* The refresh engine of internal/api/refresh.go: jobs that load the node  *)
(* state of a workspace (or of the service), fetch and render, and publish *)
(* the rendered file, while requests edit the same node states.            *)
(*                                                                         *)
(* Three mechanisms keep the jobs apart.  The workspace lock, here the     *)
(* abstract mutex of WorkspaceMutex, is held by every request on the       *)
(* workspace and by its scheduled refresh.  Server.refreshRuns holds the   *)
(* keys of the running jobs: their workspace (or the service) and their    *)
(* output file, which two workspaces bound to one publication share.       *)
(* Server.refreshSlots bounds how many jobs run at once.                   *)
(*                                                                         *)
(* A job that fails, or panics inside a request, runs its deferred calls:  *)
(* both are the failing alternative of a step.  Deleting publications is   *)
(* the subject of the module Publications.                                 *)
(***************************************************************************)
EXTENDS Integers, FiniteSets

CONSTANTS
  Job,            \* goroutines: the requests and the scheduler
  Scheduler,      \* the only one that refreshes without a request
  Workspace,
  Service,        \* the scope of the service's own configuration
  Output,         \* output files
  ServiceOutput,  \* the output file of the service's configuration
  Cap,            \* maxRefreshWorkers
  NoJob,          \* no holder of a key or a lock
  NoFile,         \* a file that does not exist
  MaxEdits,       \* bound: edits of one workspace
  MaxCrashes      \* bound: restarts of the process

Scope == Workspace \cup {Service}
RunKey == Scope \cup Output

ASSUME JobIsFinite == IsFiniteSet(Job) /\ Scheduler \in Job
ASSUME CapIsNat == Cap \in Nat
ASSUME NoJobIsNoJob == NoJob \notin Job
ASSUME KeysAreDistinct ==
  Service \notin Workspace /\ Scope \cap Output = {} /\ ServiceOutput \in Output

VARIABLES
  pc,          \* where each job is
  scope,       \* the workspace of the job, or the service
  target,      \* cfg.Service.OutputPath of the job
  built,       \* the result of its RenderConfigWithProgress
  written,     \* what it read back from the staged file
  wsLock,      \* holder of each workspace lock
  runs,        \* Server.refreshRuns: the job of each key, or NoJob
  slots,       \* len(Server.refreshSlots)
  refreshing,  \* Server.status.Refreshing
  state,       \* node state file of each scope: the number of edits it has
  output,      \* content of each output file
  staged,      \* content of each .validate file
  saved,       \* history: edits confirmed to the users of each scope
  crashes

jobVars == <<scope, target, built, written>>
runVars == <<runs, slots, refreshing>>
fileVars == <<state, output, staged>>
vars == <<pc, jobVars, wsLock, runVars, fileVars, saved, crashes>>

Locks == INSTANCE WorkspaceMutex WITH
           Caller <- Job, Key <- Workspace, Nobody <- NoJob, holder <- wsLock

(* A rendered file: for which scope, after how many of its edits, and      *)
(* whether it passes ValidateFinalConfig.                                  *)
Content == [scope : Scope, edits : Nat, ok : BOOLEAN]

(* Stages between the admission of a job and finishRefresh.                *)
RunStage == {"render", "save", "stage", "validate", "publish", "cleanup", "finish"}

Stage == RunStage \cup {"idle", "start", "edit", "leave"}

Running == {j \in Job : pc[j] \in RunStage}

(* refreshRunKeys                                                          *)
Keys(j) == {scope[j], target[j]}

Init ==
  /\ pc = [j \in Job |-> "idle"]
  /\ scope = [j \in Job |-> Service]
  /\ target = [j \in Job |-> ServiceOutput]
  /\ built = [j \in Job |-> NoFile]
  /\ written = [j \in Job |-> NoFile]
  /\ wsLock = [w \in Workspace |-> NoJob]
  /\ runs = [k \in RunKey |-> NoJob]
  /\ slots = 0
  /\ refreshing = FALSE
  /\ state = [s \in Scope |-> 0]
  /\ output = [o \in Output |-> NoFile]
  /\ staged = [o \in Output |-> NoFile]
  /\ saved = [s \in Scope |-> 0]
  /\ crashes = 0

Goto(j, stage) == pc' = [pc EXCEPT ![j] = stage]

-----------------------------------------------------------------------------
(* Mutant: the request does not take the workspace lock.                   *)
EnterUnlocked(j, w, o, stage) ==
  /\ pc[j] = "idle"
  /\ scope' = [scope EXCEPT ![j] = w]
  /\ target' = [target EXCEPT ![j] = o]
  /\ Goto(j, stage)
  /\ UNCHANGED <<built, written, wsLock, runVars, fileVars, saved, crashes>>

(* A job on workspace w, bound to the publication with file o, gets the    *)
(* workspace lock: lock or tryLock succeed in the middleware, or lock in   *)
(* refreshPublishedWorkspace.  A refused tryLock changes nothing.          *)
Enter(j, w, o, stage) ==
  /\ pc[j] = "idle"
  /\ Locks!Acquire(j, w)
  /\ scope' = [scope EXCEPT ![j] = w]
  /\ target' = [target EXCEPT ![j] = o]
  /\ Goto(j, stage)
  /\ UNCHANGED <<built, written, runVars, fileVars, saved, crashes>>

(* POST /api/refresh, or refreshPublishedWorkspaces in the scheduler.      *)
BeginRefresh(j) ==
  \E w \in Workspace, o \in Output \ {ServiceOutput} : Enter(j, w, o, "start")

(* A request that edits the node state of its workspace.                   *)
BeginEdit(j) ==
  /\ j # Scheduler
  /\ \E w \in Workspace :
       state[w] < MaxEdits /\ Enter(j, w, ServiceOutput, "edit")

(* startRefresh of the scheduler: the service's configuration, no lock.    *)
BeginServiceRefresh ==
  /\ pc[Scheduler] = "idle"
  /\ scope' = [scope EXCEPT ![Scheduler] = Service]
  /\ target' = [target EXCEPT ![Scheduler] = ServiceOutput]
  /\ Goto(Scheduler, "start")
  /\ UNCHANGED <<built, written, wsLock, runVars, fileVars, saved, crashes>>

-----------------------------------------------------------------------------
(* Mutant: only the workspace key is looked up before the job is admitted. *)
StartIgnoringOutput(j) ==
  /\ pc[j] = "start"
  /\ IF runs[scope[j]] # NoJob \/ slots >= Cap
       THEN Goto(j, "leave") /\ UNCHANGED runVars
       ELSE /\ runs' = [k \in RunKey |-> IF k \in Keys(j) THEN j ELSE runs[k]]
            /\ slots' = slots + 1
            /\ refreshing' = TRUE
            /\ Goto(j, "render")
  /\ UNCHANGED <<jobVars, wsLock, fileVars, saved, crashes>>

(* Mutant: the slot is taken before the keys are looked up.                *)
StartTakingSlotFirst(j) ==
  /\ pc[j] = "start"
  /\ IF slots >= Cap
       THEN Goto(j, "leave") /\ UNCHANGED runVars
       ELSE /\ slots' = slots + 1
            /\ IF \E k \in Keys(j) : runs[k] # NoJob
                 THEN Goto(j, "leave") /\ UNCHANGED <<runs, refreshing>>
                 ELSE /\ runs' = [k \in RunKey |->
                                    IF k \in Keys(j) THEN j ELSE runs[k]]
                      /\ refreshing' = TRUE
                      /\ Goto(j, "render")
  /\ UNCHANGED <<jobVars, wsLock, fileVars, saved, crashes>>

(* startRefreshForConfig under refreshMu: the job is refused when one of   *)
(* its keys is running (ErrRefreshInProgress) or no slot is free           *)
(* (ErrRefreshCapacity), and registered otherwise.                         *)
Start(j) ==
  /\ pc[j] = "start"
  /\ \/ /\ (\E k \in Keys(j) : runs[k] # NoJob) \/ slots >= Cap
        /\ Goto(j, "leave")
        /\ UNCHANGED runVars
     \/ /\ \A k \in Keys(j) : runs[k] = NoJob
        /\ slots < Cap
        /\ runs' = [k \in RunKey |-> IF k \in Keys(j) THEN j ELSE runs[k]]
        /\ slots' = slots + 1
        /\ refreshing' = TRUE
        /\ Goto(j, "render")
  /\ UNCHANGED <<jobVars, wsLock, fileVars, saved, crashes>>

(* RenderConfigWithProgress reads the node state, then fetches and renders *)
(* for as long as that takes.  Outside strict mode a result that fails the *)
(* validation is returned all the same.                                    *)
Render(j) ==
  /\ pc[j] = "render"
  /\ \/ Goto(j, "finish") /\ UNCHANGED built
     \/ /\ \E ok \in BOOLEAN :
             built' = [built EXCEPT ![j] =
               [scope |-> scope[j], edits |-> state[scope[j]], ok |-> ok]]
        /\ Goto(j, "save")
  /\ UNCHANGED <<scope, target, written, wsLock, runVars, fileVars, saved, crashes>>

(* SaveNodeState writes back the node state the job loaded.                *)
Save(j) ==
  /\ pc[j] = "save"
  /\ \/ Goto(j, "finish") /\ UNCHANGED state
     \/ /\ state' = [state EXCEPT ![scope[j]] = built[j].edits]
        /\ Goto(j, "stage")
  /\ UNCHANGED <<jobVars, wsLock, runVars, output, staged, saved, crashes>>

(* The result goes to the staged file next to the output.                  *)
StageResult(j) ==
  /\ pc[j] = "stage"
  /\ \/ Goto(j, "cleanup") /\ UNCHANGED staged
     \/ /\ staged' = [staged EXCEPT ![target[j]] = built[j]]
        /\ Goto(j, "validate")
  /\ UNCHANGED <<jobVars, wsLock, runVars, state, output, saved, crashes>>

(* Mutant: what the validation says of the staged file is not looked at.   *)
ValidateNothing(j) ==
  /\ pc[j] = "validate"
  /\ staged[target[j]] # NoFile
  /\ written' = [written EXCEPT ![j] = staged[target[j]]]
  /\ Goto(j, "publish")
  /\ UNCHANGED <<scope, target, built, wsLock, runVars, fileVars, saved, crashes>>

(* The staged file is read back and validated against the job's own final  *)
(* nodes; another job's file need not differ from them.                    *)
Validate(j) ==
  /\ pc[j] = "validate"
  /\ \/ Goto(j, "cleanup") /\ UNCHANGED written
     \/ /\ staged[target[j]] # NoFile
        /\ staged[target[j]].ok
        /\ written' = [written EXCEPT ![j] = staged[target[j]]]
        /\ Goto(j, "publish")
  /\ UNCHANGED <<scope, target, built, wsLock, runVars, fileVars, saved, crashes>>

(* What was validated replaces the output file.                            *)
Publish(j) ==
  /\ pc[j] = "publish"
  /\ \/ UNCHANGED output
     \/ output' = [output EXCEPT ![target[j]] = written[j]]
  /\ Goto(j, "cleanup")
  /\ UNCHANGED <<jobVars, wsLock, runVars, state, staged, saved, crashes>>

(* The deferred os.Remove of the staged file, whose error is ignored.      *)
Cleanup(j) ==
  /\ pc[j] = "cleanup"
  /\ \/ staged' = [staged EXCEPT ![target[j]] = NoFile]
     \/ UNCHANGED staged
  /\ Goto(j, "finish")
  /\ UNCHANGED <<jobVars, wsLock, runVars, state, output, saved, crashes>>

(* Mutant: the slot is given back but the keys stay.                       *)
FinishKeepingKeys(j) ==
  /\ pc[j] = "finish"
  /\ slots' = slots - 1
  /\ refreshing' = (slots' > 0)
  /\ Goto(j, "leave")
  /\ UNCHANGED <<runs, jobVars, wsLock, fileVars, saved, crashes>>

(* Mutant: every key gives a slot back.                                    *)
FinishSlotPerKey(j) ==
  /\ pc[j] = "finish"
  /\ LET mine == {k \in Keys(j) : runs[k] = j} IN
       /\ runs' = [k \in RunKey |-> IF k \in mine THEN NoJob ELSE runs[k]]
       /\ slots' = slots - Cardinality(mine)
  /\ refreshing' = (slots' > 0)
  /\ Goto(j, "leave")
  /\ UNCHANGED <<jobVars, wsLock, fileVars, saved, crashes>>

(* finishRefresh: the keys that are still this run's and, if there was     *)
(* one, its slot.                                                          *)
Finish(j) ==
  /\ pc[j] = "finish"
  /\ LET mine == {k \in Keys(j) : runs[k] = j} IN
       /\ runs' = [k \in RunKey |-> IF k \in mine THEN NoJob ELSE runs[k]]
       /\ slots' = IF mine = {} THEN slots ELSE slots - 1
  /\ refreshing' = (slots' > 0)
  /\ Goto(j, "leave")
  /\ UNCHANGED <<jobVars, wsLock, fileVars, saved, crashes>>

(* The handler of an edit loads the node state and saves it changed; the   *)
(* user is told when it was saved.                                         *)
Edit(j) ==
  /\ pc[j] = "edit"
  /\ \/ UNCHANGED <<state, saved>>
     \/ /\ state' = [state EXCEPT ![scope[j]] = @ + 1]
        /\ saved' = [saved EXCEPT ![scope[j]] = @ + 1]
  /\ Goto(j, "leave")
  /\ UNCHANGED <<jobVars, wsLock, runVars, output, staged, crashes>>

(* The job returns and, if it had one, releases its workspace lock.  What  *)
(* its local variables hold is forgotten.                                  *)
Leave(j) ==
  /\ pc[j] = "leave"
  /\ IF scope[j] \in Workspace
       THEN Locks!Release(j, scope[j])
       ELSE UNCHANGED wsLock
  /\ Goto(j, "idle")
  /\ scope' = [scope EXCEPT ![j] = Service]
  /\ target' = [target EXCEPT ![j] = ServiceOutput]
  /\ built' = [built EXCEPT ![j] = NoFile]
  /\ written' = [written EXCEPT ![j] = NoFile]
  /\ UNCHANGED <<runVars, fileVars, saved, crashes>>

(* The process stops and starts again: files stay, memory does not.        *)
Crash ==
  /\ crashes < MaxCrashes
  /\ crashes' = crashes + 1
  /\ pc' = [j \in Job |-> "idle"]
  /\ scope' = [j \in Job |-> Service]
  /\ target' = [j \in Job |-> ServiceOutput]
  /\ built' = [j \in Job |-> NoFile]
  /\ written' = [j \in Job |-> NoFile]
  /\ wsLock' = [w \in Workspace |-> NoJob]
  /\ runs' = [k \in RunKey |-> NoJob]
  /\ slots' = 0
  /\ refreshing' = FALSE
  /\ UNCHANGED <<fileVars, saved>>

Step(j) ==
  \/ Start(j) \/ Render(j) \/ Save(j) \/ StageResult(j) \/ Validate(j)
  \/ Publish(j) \/ Cleanup(j) \/ Finish(j) \/ Edit(j) \/ Leave(j)

Next ==
  \/ \E j \in Job : BeginRefresh(j) \/ BeginEdit(j) \/ Step(j)
  \/ BeginServiceRefresh
  \/ Crash

Spec == Init /\ [][Next]_vars

(* A job that was let in goes on: fetching gives up after its timeouts.    *)
Fairness == \A j \in Job : WF_vars(Step(j))

FairSpec == Spec /\ Fairness

-----------------------------------------------------------------------------
(* Every variable has its type: in particular no slot is given back twice, *)
(* which would make the count of slots negative.                           *)
TypeOK ==
  /\ pc \in [Job -> Stage]
  /\ scope \in [Job -> Scope]
  /\ target \in [Job -> Output]
  /\ built \in [Job -> Content \cup {NoFile}]
  /\ written \in [Job -> Content \cup {NoFile}]
  /\ wsLock \in [Workspace -> Job \cup {NoJob}]
  /\ runs \in [RunKey -> Job \cup {NoJob}]
  /\ slots \in Nat
  /\ refreshing \in BOOLEAN
  /\ state \in [Scope -> Nat]
  /\ output \in [Output -> Content \cup {NoFile}]
  /\ staged \in [Output -> Content \cup {NoFile}]
  /\ saved \in [Scope -> Nat]
  /\ crashes \in Nat

(* The registered keys are exactly those of the running jobs, so no two    *)
(* running jobs share a workspace or an output file.                       *)
RunsAreExclusive ==
  \A k \in RunKey, j \in Job : runs[k] = j <=> j \in Running /\ k \in Keys(j)

(* Every running job has one slot and nobody else has any, whatever way    *)
(* earlier jobs ended; the status says "refreshing" exactly then.          *)
SlotsAreExact ==
  /\ slots = Cardinality(Running)
  /\ slots <= Cap
  /\ refreshing <=> slots > 0

(* An edit the user saw confirmed is never undone by a refresh that had    *)
(* loaded the node state before it.                                        *)
EditsSurvive == \A s \in Scope : state[s] = saved[s]

(* An output file only ever changes to what its writer rendered itself and *)
(* validated, and shows every edit of that workspace confirmed so far.     *)
PublishesOwnBuild ==
  [][\A o \in Output : output'[o] # output[o] =>
       \E j \in Job :
         /\ pc[j] = "publish" /\ target[j] = o
         /\ output'[o] = built[j]
         /\ built[j].ok
         /\ built[j].edits = saved[scope[j]]]_vars

(* A key that is registered becomes free again: no failure and no crash    *)
(* blocks the refreshes of a workspace for good.                           *)
RunsEnd == \A k \in RunKey : runs[k] # NoJob ~> runs[k] = NoJob
=============================================================================
