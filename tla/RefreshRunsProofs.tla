------------------------- MODULE RefreshRunsProofs -------------------------
(***************************************************************************)
(* The refresh engine keeps its jobs apart, for any finite set of jobs and *)
(* any numbers of workspaces, output files and slots: the registered keys  *)
(* and the slots are those of the running jobs, no refresh undoes an edit, *)
(* and an output file only gets what its own job rendered and validated.   *)
(***************************************************************************)
EXTENDS RefreshRuns, FiniteSetTheorems, TLAPS

(* A job that works on a workspace holds its lock; edits are such jobs.    *)
LocksAreHeld ==
  /\ \A j \in Job : scope[j] \in Workspace => wsLock[scope[j]] = j
  /\ \A j \in Job : pc[j] = "edit" => scope[j] \in Workspace

(* What a running job has rendered is still up to date, and the staged     *)
(* file is its own until it is done with it.                               *)
BuildsAreCurrent ==
  \A j \in Job :
    /\ pc[j] \in {"save", "stage", "validate", "publish"} =>
         built[j] \in Content /\ built[j].edits = state[scope[j]]
    /\ pc[j] = "validate" => staged[target[j]] = built[j]
    /\ pc[j] = "publish" => written[j] = built[j] /\ built[j].ok

RefreshInv ==
  /\ TypeOK
  /\ RunsAreExclusive
  /\ SlotsAreExact
  /\ LocksAreHeld
  /\ EditsSurvive
  /\ BuildsAreCurrent

-----------------------------------------------------------------------------
(* Running jobs are finitely many.                                         *)
LEMMA RunningFinite == IsFiniteSet(Running) /\ Cardinality(Running) \in Nat
<1>1. Running \in SUBSET Job
  BY DEF Running
<1>2. IsFiniteSet(Running)
  BY <1>1, JobIsFinite, FS_Subset
<1> QED
  BY <1>2, FS_CardinalityType

(* Two running jobs have neither a workspace nor an output in common.      *)
LEMMA RunningApart ==
  ASSUME RunsAreExclusive, TypeOK, NEW i \in Running, NEW j \in Running, i # j
  PROVE  scope[i] # scope[j] /\ target[i] # target[j]
<1>1. i \in Job /\ j \in Job
  BY DEF Running
<1>2. scope[i] \in RunKey /\ target[i] \in RunKey
  BY <1>1 DEF TypeOK, RunKey
<1>3. runs[scope[i]] = i /\ runs[target[i]] = i
  BY <1>1, <1>2 DEF RunsAreExclusive, Keys
<1>4. ASSUME scope[i] = scope[j] \/ target[i] = target[j] PROVE FALSE
  BY <1>1, <1>2, <1>3, <1>4 DEF RunsAreExclusive, Keys
<1> QED
  BY <1>4

(* While a request edits a workspace, no other job works on it.            *)
LEMMA EditorAlone ==
  ASSUME LocksAreHeld, NEW i \in Job, NEW j \in Job, pc[j] = "edit", i # j
  PROVE  scope[i] # scope[j]
  BY DEF LocksAreHeld

(* A step that registers and unregisters nobody and moves no running job   *)
(* to another key keeps the registrations right.                           *)
LEMMA RunsKept ==
  ASSUME RunsAreExclusive, SlotsAreExact, UNCHANGED runVars, Running' = Running,
         \A j \in Running : scope'[j] = scope[j] /\ target'[j] = target[j]
  PROVE  RunsAreExclusive' /\ SlotsAreExact'
<1>1. \A j \in Running : Keys(j)' = Keys(j)
  BY DEF Keys
<1>2. RunsAreExclusive'
  BY <1>1 DEF RunsAreExclusive, runVars
<1>3. SlotsAreExact'
  BY DEF SlotsAreExact, runVars
<1> QED
  BY <1>2, <1>3

-----------------------------------------------------------------------------
(* Before anything has run.                                                *)
LEMMA InitRefreshInv == Init => RefreshInv
<1> SUFFICES ASSUME Init PROVE RefreshInv
  OBVIOUS
<1>1. TypeOK
  BY KeysAreDistinct DEF Init, TypeOK, Stage, RunStage, Scope
<1>2. Running = {}
  BY DEF Init, Running, RunStage
<1>3. RunsAreExclusive
  BY <1>2, NoJobIsNoJob DEF Init, RunsAreExclusive
<1>4. SlotsAreExact
  BY <1>2, CapIsNat, FS_EmptySet DEF Init, SlotsAreExact
<1>5. LocksAreHeld
  BY KeysAreDistinct DEF Init, LocksAreHeld
<1>6. EditsSurvive
  BY DEF Init, EditsSurvive
<1>7. BuildsAreCurrent
  BY DEF Init, BuildsAreCurrent
<1> QED
  BY <1>1, <1>3, <1>4, <1>5, <1>6, <1>7 DEF RefreshInv

(* Entering a workspace: its lock was free, so nobody works on it.         *)
LEMMA EnterRefreshInv ==
  ASSUME RefreshInv, NEW j \in Job, NEW w \in Workspace, NEW o \in Output,
         NEW stage \in {"start", "edit"}, Enter(j, w, o, stage)
  PROVE  RefreshInv'
<1> USE DEF RefreshInv
<1>1. /\ pc[j] = "idle" /\ pc' = [pc EXCEPT ![j] = stage]
      /\ scope' = [scope EXCEPT ![j] = w] /\ target' = [target EXCEPT ![j] = o]
      /\ wsLock[w] = NoJob /\ wsLock' = [wsLock EXCEPT ![w] = j]
      /\ UNCHANGED <<built, written, runVars, fileVars, saved, crashes>>
  BY DEF Enter, Goto, Locks!Acquire
<1>2. TypeOK'
  BY <1>1 DEF TypeOK, Stage, Scope, runVars, fileVars
<1>3. j \notin Running /\ Running' = Running
  BY <1>1 DEF TypeOK, Running, RunStage
<1>4. RunsAreExclusive' /\ SlotsAreExact'
  <2>1. \A i \in Running : scope'[i] = scope[i] /\ target'[i] = target[i]
    BY <1>1, <1>3 DEF TypeOK, Running
  <2> QED
    BY <1>1, <1>3, <2>1, RunsKept
<1>5. LocksAreHeld'
  BY <1>1, NoJobIsNoJob DEF LocksAreHeld, TypeOK
<1>6. EditsSurvive'
  BY <1>1 DEF EditsSurvive, fileVars
<1>7. BuildsAreCurrent'
  BY <1>1 DEF BuildsAreCurrent, TypeOK, fileVars
<1> QED
  BY <1>2, <1>4, <1>5, <1>6, <1>7

(* The scheduler turns to the service's own configuration.                 *)
LEMMA BeginServiceRefreshInv ==
  ASSUME RefreshInv, BeginServiceRefresh
  PROVE  RefreshInv'
<1> USE DEF RefreshInv
<1>1. /\ Scheduler \in Job
      /\ pc[Scheduler] = "idle" /\ pc' = [pc EXCEPT ![Scheduler] = "start"]
      /\ scope' = [scope EXCEPT ![Scheduler] = Service]
      /\ target' = [target EXCEPT ![Scheduler] = ServiceOutput]
      /\ UNCHANGED <<built, written, wsLock, runVars, fileVars, saved, crashes>>
  BY JobIsFinite DEF BeginServiceRefresh, Goto
<1>2. TypeOK'
  BY <1>1, KeysAreDistinct DEF TypeOK, Stage, Scope, runVars, fileVars
<1>3. Scheduler \notin Running /\ Running' = Running
  BY <1>1 DEF TypeOK, Running, RunStage
<1>4. RunsAreExclusive' /\ SlotsAreExact'
  <2>1. \A i \in Running : scope'[i] = scope[i] /\ target'[i] = target[i]
    BY <1>1, <1>3 DEF TypeOK, Running
  <2> QED
    BY <1>1, <1>3, <2>1, RunsKept
<1>5. LocksAreHeld'
  BY <1>1, KeysAreDistinct DEF LocksAreHeld, TypeOK
<1>6. EditsSurvive'
  BY <1>1 DEF EditsSurvive, fileVars
<1>7. BuildsAreCurrent'
  BY <1>1 DEF BuildsAreCurrent, TypeOK, fileVars
<1> QED
  BY <1>2, <1>4, <1>5, <1>6, <1>7

-----------------------------------------------------------------------------
(* A step inside a run changes neither the registrations nor the locks.    *)
LEMMA StepInRun ==
  ASSUME RefreshInv, NEW j \in Job, pc[j] \in RunStage,
         NEW s \in RunStage, pc' = [pc EXCEPT ![j] = s],
         UNCHANGED <<scope, target, wsLock, runVars>>
  PROVE  /\ j \in Running /\ Running' = Running
         /\ RunsAreExclusive' /\ SlotsAreExact' /\ LocksAreHeld'
<1> USE DEF RefreshInv
<1>1. j \in Running /\ Running' = Running
  BY DEF TypeOK, Running
<1>2. RunsAreExclusive' /\ SlotsAreExact'
  BY <1>1, RunsKept
<1>3. LocksAreHeld'
  BY DEF LocksAreHeld, TypeOK, RunStage
<1> QED
  BY <1>1, <1>2, <1>3

(* Rendering reads the node state as it is.                                *)
LEMMA RenderRefreshInv ==
  ASSUME RefreshInv, NEW j \in Job, Render(j)
  PROVE  RefreshInv'
<1> USE DEF RefreshInv
<1>1. PICK s \in {"finish", "save"}, content \in Content :
        /\ pc[j] = "render" /\ pc' = [pc EXCEPT ![j] = s]
        /\ content.edits = state[scope[j]]
        /\ IF s = "save" THEN built' = [built EXCEPT ![j] = content] ELSE UNCHANGED built
        /\ UNCHANGED <<scope, target, written, wsLock, runVars, fileVars, saved, crashes>>
  <2>1. \A ok \in BOOLEAN :
          [scope |-> scope[j], edits |-> state[scope[j]], ok |-> ok] \in Content
    BY DEF TypeOK, Content
  <2> QED
    BY <2>1 DEF Render, Goto
<1>2. TypeOK'
  BY <1>1 DEF TypeOK, Stage, RunStage, runVars, fileVars
<1>3. RunsAreExclusive' /\ SlotsAreExact' /\ LocksAreHeld'
  BY <1>1, StepInRun DEF RunStage
<1>4. EditsSurvive'
  BY <1>1 DEF EditsSurvive, fileVars
<1>5. BuildsAreCurrent'
  BY <1>1 DEF BuildsAreCurrent, TypeOK, fileVars
<1> QED
  BY <1>2, <1>3, <1>4, <1>5

(* Saving writes back the very node state that is there.                   *)
LEMMA SaveRefreshInv ==
  ASSUME RefreshInv, NEW j \in Job, Save(j)
  PROVE  RefreshInv'
<1> USE DEF RefreshInv
<1>1. PICK s \in {"finish", "stage"} :
        pc[j] = "save" /\ pc' = [pc EXCEPT ![j] = s]
  BY DEF Save, Goto
<1>2. UNCHANGED state
  <2>1. built[j].edits = state[scope[j]]
    BY <1>1 DEF BuildsAreCurrent
  <2> QED
    BY <2>1 DEF Save, TypeOK
<1>3. UNCHANGED <<jobVars, wsLock, runVars, fileVars, saved, crashes>>
  BY <1>2 DEF Save, fileVars
<1>4. TypeOK'
  BY <1>1, <1>3 DEF TypeOK, Stage, RunStage, jobVars, runVars, fileVars
<1>5. RunsAreExclusive' /\ SlotsAreExact' /\ LocksAreHeld'
  BY <1>1, <1>3, StepInRun DEF RunStage, jobVars
<1>6. EditsSurvive'
  BY <1>3 DEF EditsSurvive, fileVars
<1>7. BuildsAreCurrent'
  BY <1>1, <1>3 DEF BuildsAreCurrent, TypeOK, jobVars, fileVars
<1> QED
  BY <1>4, <1>5, <1>6, <1>7

(* Nobody else is about to read the staged file of this output.            *)
LEMMA StageResultRefreshInv ==
  ASSUME RefreshInv, NEW j \in Job, StageResult(j)
  PROVE  RefreshInv'
<1> USE DEF RefreshInv
<1>1. PICK s \in {"cleanup", "validate"} :
        /\ pc[j] = "stage" /\ pc' = [pc EXCEPT ![j] = s]
        /\ IF s = "validate" THEN staged' = [staged EXCEPT ![target[j]] = built[j]]
                              ELSE UNCHANGED staged
        /\ UNCHANGED <<jobVars, wsLock, runVars, state, output, saved, crashes>>
  BY DEF StageResult, Goto
<1>2. TypeOK'
  BY <1>1 DEF TypeOK, Stage, RunStage, jobVars, runVars
<1>3. j \in Running /\ RunsAreExclusive' /\ SlotsAreExact' /\ LocksAreHeld'
  BY <1>1, StepInRun DEF RunStage, jobVars
<1>4. EditsSurvive'
  BY <1>1 DEF EditsSurvive
<1>5. BuildsAreCurrent'
  <2> SUFFICES ASSUME NEW i \in Job
               PROVE  /\ pc'[i] \in {"save", "stage", "validate", "publish"} =>
                           built'[i] \in Content /\ built'[i].edits = state'[scope'[i]]
                      /\ pc'[i] = "validate" => staged'[target'[i]] = built'[i]
                      /\ pc'[i] = "publish" => written'[i] = built'[i] /\ built'[i].ok
    BY DEF BuildsAreCurrent
  <2>1. CASE i = j
    BY <1>1, <2>1 DEF BuildsAreCurrent, TypeOK, jobVars
  <2>2. CASE i # j
    <3>1. pc'[i] = pc[i] /\ UNCHANGED <<built, written, state, scope, target>>
      BY <1>1, <2>2 DEF TypeOK, jobVars
    <3>2. pc[i] = "validate" => target[i] # target[j]
      BY <1>3, <2>2, RunningApart DEF Running, RunStage
    <3> QED
      BY <1>1, <3>1, <3>2 DEF BuildsAreCurrent, TypeOK
  <2> QED
    BY <2>1, <2>2
<1> QED
  BY <1>2, <1>3, <1>4, <1>5

(* What is read back from the staged file is what this job put there.      *)
LEMMA ValidateRefreshInv ==
  ASSUME RefreshInv, NEW j \in Job, Validate(j)
  PROVE  RefreshInv'
<1> USE DEF RefreshInv
<1>1. PICK s \in {"cleanup", "publish"} :
        /\ pc[j] = "validate" /\ pc' = [pc EXCEPT ![j] = s]
        /\ IF s = "publish"
             THEN /\ staged[target[j]].ok
                  /\ written' = [written EXCEPT ![j] = staged[target[j]]]
             ELSE UNCHANGED written
        /\ UNCHANGED <<scope, target, built, wsLock, runVars, fileVars, saved, crashes>>
  BY DEF Validate, Goto
<1>2. TypeOK'
  BY <1>1 DEF TypeOK, Stage, RunStage, runVars, fileVars
<1>3. RunsAreExclusive' /\ SlotsAreExact' /\ LocksAreHeld'
  BY <1>1, StepInRun DEF RunStage
<1>4. EditsSurvive'
  BY <1>1 DEF EditsSurvive, fileVars
<1>5. BuildsAreCurrent'
  BY <1>1 DEF BuildsAreCurrent, TypeOK, fileVars
<1> QED
  BY <1>2, <1>3, <1>4, <1>5

(* Publishing touches the output file only.                                *)
LEMMA PublishRefreshInv ==
  ASSUME RefreshInv, NEW j \in Job, Publish(j)
  PROVE  RefreshInv'
<1> USE DEF RefreshInv
<1>1. /\ pc[j] = "publish" /\ pc' = [pc EXCEPT ![j] = "cleanup"]
      /\ output' = output \/ output' = [output EXCEPT ![target[j]] = written[j]]
      /\ UNCHANGED <<jobVars, wsLock, runVars, state, staged, saved, crashes>>
  BY DEF Publish, Goto
<1>2. TypeOK'
  BY <1>1 DEF TypeOK, Stage, RunStage, jobVars, runVars
<1>3. RunsAreExclusive' /\ SlotsAreExact' /\ LocksAreHeld'
  BY <1>1, StepInRun DEF RunStage, jobVars
<1>4. EditsSurvive'
  BY <1>1 DEF EditsSurvive
<1>5. BuildsAreCurrent'
  BY <1>1 DEF BuildsAreCurrent, TypeOK, jobVars
<1> QED
  BY <1>2, <1>3, <1>4, <1>5

(* The staged file that is removed is not one that another job still needs. *)
LEMMA CleanupRefreshInv ==
  ASSUME RefreshInv, NEW j \in Job, Cleanup(j)
  PROVE  RefreshInv'
<1> USE DEF RefreshInv
<1>1. /\ pc[j] = "cleanup" /\ pc' = [pc EXCEPT ![j] = "finish"]
      /\ staged' = [staged EXCEPT ![target[j]] = NoFile] \/ UNCHANGED staged
      /\ UNCHANGED <<jobVars, wsLock, runVars, state, output, saved, crashes>>
  BY DEF Cleanup, Goto
<1>2. TypeOK'
  BY <1>1 DEF TypeOK, Stage, RunStage, jobVars, runVars
<1>3. j \in Running /\ RunsAreExclusive' /\ SlotsAreExact' /\ LocksAreHeld'
  BY <1>1, StepInRun DEF RunStage, jobVars
<1>4. EditsSurvive'
  BY <1>1 DEF EditsSurvive
<1>5. BuildsAreCurrent'
  <2>1. ASSUME NEW i \in Job, pc[i] = "validate"
        PROVE  target[i] # target[j]
    BY <1>1, <1>3, <2>1, RunningApart DEF Running, RunStage
  <2> QED
    BY <1>1, <2>1 DEF BuildsAreCurrent, TypeOK, jobVars
<1> QED
  BY <1>2, <1>3, <1>4, <1>5

-----------------------------------------------------------------------------
(* Admission: a refused job changes nothing; an admitted one registers     *)
(* keys nobody has and takes one more slot.                                *)
LEMMA StartRefreshInv ==
  ASSUME RefreshInv, NEW j \in Job, Start(j)
  PROVE  RefreshInv'
<1> USE DEF RefreshInv
<1>0. pc[j] = "start" /\ UNCHANGED <<jobVars, wsLock, fileVars, saved, crashes>>
  BY DEF Start
<1>1. j \in Job /\ j \notin Running /\ Keys(j) \subseteq RunKey
  BY <1>0 DEF Running, RunStage, Keys, RunKey, TypeOK
<1>2. PICK s \in {"leave", "render"} : pc' = [pc EXCEPT ![j] = s]
  BY DEF Start, Goto
<1>3. EditsSurvive'
  BY <1>0 DEF EditsSurvive, fileVars
<1>4. BuildsAreCurrent'
  BY <1>0, <1>2 DEF BuildsAreCurrent, TypeOK, jobVars, fileVars
<1>5. LocksAreHeld'
  BY <1>0, <1>2 DEF LocksAreHeld, TypeOK, jobVars
<1>6. CASE pc' = [pc EXCEPT ![j] = "leave"] /\ UNCHANGED runVars
  <2>1. TypeOK'
    BY <1>0, <1>6 DEF TypeOK, Stage, jobVars, runVars, fileVars
  <2>2. Running' = Running
    BY <1>0, <1>6 DEF TypeOK, Running, RunStage
  <2>3. RunsAreExclusive' /\ SlotsAreExact'
    BY <1>0, <1>6, <2>2, RunsKept DEF jobVars
  <2> QED
    BY <1>3, <1>4, <1>5, <2>1, <2>3
<1>7. CASE /\ \A k \in Keys(j) : runs[k] = NoJob
           /\ slots < Cap
           /\ runs' = [k \in RunKey |-> IF k \in Keys(j) THEN j ELSE runs[k]]
           /\ slots' = slots + 1
           /\ refreshing' = TRUE
           /\ pc' = [pc EXCEPT ![j] = "render"]
  <2>1. TypeOK'
    BY <1>0, <1>7 DEF TypeOK, Stage, RunStage, jobVars, fileVars
  <2>2. Running' = Running \cup {j} /\ \A i \in Job : Keys(i)' = Keys(i)
    BY <1>0, <1>7 DEF TypeOK, Running, RunStage, Keys, jobVars
  <2>3. RunsAreExclusive'
    <3> SUFFICES ASSUME NEW k \in RunKey, NEW i \in Job
                 PROVE  runs'[k] = i <=> i \in Running' /\ k \in Keys(i)'
      BY DEF RunsAreExclusive
    <3>1. runs[k] = i <=> i \in Running /\ k \in Keys(i)
      BY DEF RunsAreExclusive
    <3>2. CASE k \in Keys(j)
      BY <1>1, <1>7, <2>2, <3>1, <3>2, NoJobIsNoJob
    <3>3. CASE k \notin Keys(j)
      BY <1>1, <1>7, <2>2, <3>1, <3>3
    <3> QED
      BY <3>2, <3>3
  <2>4. Cardinality(Running') = Cardinality(Running) + 1
    BY <1>1, <2>2, RunningFinite, FS_AddElement
  <2>5. SlotsAreExact'
    BY <1>7, <2>4, RunningFinite, CapIsNat DEF SlotsAreExact
  <2> QED
    BY <1>3, <1>4, <1>5, <2>1, <2>3, <2>5
<1> QED
  BY <1>6, <1>7 DEF Start, Goto

(* The end of a run gives back its keys, all of them its own, and one slot. *)
LEMMA FinishRefreshInv ==
  ASSUME RefreshInv, NEW j \in Job, Finish(j)
  PROVE  RefreshInv'
<1> USE DEF RefreshInv
<1>0. /\ pc[j] = "finish" /\ pc' = [pc EXCEPT ![j] = "leave"]
      /\ UNCHANGED <<jobVars, wsLock, fileVars, saved, crashes>>
  BY DEF Finish, Goto
<1>1. j \in Running /\ Keys(j) \subseteq RunKey /\ Keys(j) # {}
  BY <1>0 DEF Running, RunStage, Keys, RunKey, TypeOK
<1>2. {k \in Keys(j) : runs[k] = j} = Keys(j)
  BY <1>1 DEF RunsAreExclusive
<1>3. /\ runs' = [k \in RunKey |-> IF k \in Keys(j) THEN NoJob ELSE runs[k]]
      /\ slots' = slots - 1
      /\ refreshing' = (slots' > 0)
  BY <1>1, <1>2 DEF Finish
<1>4. /\ Running' = Running \ {j}
      /\ \A i \in Job : Keys(i)' = Keys(i)
  BY <1>0 DEF TypeOK, Running, RunStage, Keys, jobVars
<1>5. /\ Cardinality(Running') = Cardinality(Running) - 1
      /\ Cardinality(Running') \in Nat
  <2>1. Cardinality(Running \ {j}) = Cardinality(Running) - 1
    BY <1>1, RunningFinite, FS_RemoveElement
  <2>2. IsFiniteSet(Running \ {j})
    BY RunningFinite, FS_Subset
  <2> QED
    BY <1>4, <2>1, <2>2, FS_CardinalityType
<1>6. SlotsAreExact'
  <2>1. slots' = Cardinality(Running') /\ slots' <= Cap
    BY <1>3, <1>5, RunningFinite, CapIsNat DEF SlotsAreExact
  <2>2. refreshing' <=> slots' > 0
    BY <1>3, Zenon
  <2> QED
    BY <2>1, <2>2 DEF SlotsAreExact
<1>7. TypeOK'
  <2>1. slots' \in Nat
    BY <1>5, <1>6 DEF SlotsAreExact
  <2>2. (slots' > 0) = TRUE \/ (slots' > 0) = FALSE
    BY <2>1
  <2>3. refreshing' \in BOOLEAN
    BY <1>3, <2>2, Zenon
  <2> QED
    BY <1>0, <1>3, <2>1, <2>3 DEF TypeOK, Stage, jobVars, fileVars
<1>8. RunsAreExclusive'
  <2> SUFFICES ASSUME NEW k \in RunKey, NEW i \in Job
               PROVE  runs'[k] = i <=> i \in Running' /\ k \in Keys(i)'
    BY DEF RunsAreExclusive
  <2>1. runs[k] = i <=> i \in Running /\ k \in Keys(i)
    BY DEF RunsAreExclusive
  <2>2. k \in Keys(j) => runs[k] = j
    BY <1>1 DEF RunsAreExclusive
  <2>3. CASE k \in Keys(j)
    BY <1>3, <1>4, <2>1, <2>2, <2>3, NoJobIsNoJob
  <2>4. CASE k \notin Keys(j)
    BY <1>3, <1>4, <2>1, <2>4
  <2> QED
    BY <2>3, <2>4
<1>9. LocksAreHeld' /\ EditsSurvive'
  BY <1>0 DEF LocksAreHeld, EditsSurvive, TypeOK, jobVars, fileVars
<1>10. BuildsAreCurrent'
  BY <1>0 DEF BuildsAreCurrent, TypeOK, jobVars, fileVars
<1> QED
  BY <1>6, <1>7, <1>8, <1>9, <1>10

-----------------------------------------------------------------------------
(* An edit counts for the state and for the user at once, and no job that  *)
(* has rendered works on the same workspace.                               *)
LEMMA EditRefreshInv ==
  ASSUME RefreshInv, NEW j \in Job, Edit(j)
  PROVE  RefreshInv'
<1> USE DEF RefreshInv
<1>1. /\ pc[j] = "edit" /\ pc' = [pc EXCEPT ![j] = "leave"]
      /\ \/ UNCHANGED <<state, saved>>
         \/ /\ state' = [state EXCEPT ![scope[j]] = @ + 1]
            /\ saved' = [saved EXCEPT ![scope[j]] = @ + 1]
      /\ UNCHANGED <<jobVars, wsLock, runVars, output, staged, crashes>>
  BY DEF Edit, Goto
<1>2. TypeOK'
  BY <1>1 DEF TypeOK, Stage, jobVars, runVars
<1>3. Running' = Running
  BY <1>1 DEF TypeOK, Running, RunStage
<1>4. RunsAreExclusive' /\ SlotsAreExact'
  BY <1>1, <1>3, RunsKept DEF jobVars
<1>5. LocksAreHeld'
  BY <1>1 DEF LocksAreHeld, TypeOK, jobVars
<1>6. EditsSurvive'
  BY <1>1 DEF EditsSurvive, TypeOK
<1>7. \A i \in Job : i # j => scope[i] # scope[j]
  BY <1>1, EditorAlone
<1>8. BuildsAreCurrent'
  BY <1>1, <1>7 DEF BuildsAreCurrent, TypeOK, jobVars
<1> QED
  BY <1>2, <1>4, <1>5, <1>6, <1>8

(* A job that leaves gives its lock back and no other one.                 *)
LEMMA LeaveRefreshInv ==
  ASSUME RefreshInv, NEW j \in Job, Leave(j)
  PROVE  RefreshInv'
<1> USE DEF RefreshInv
<1>1. /\ pc[j] = "leave" /\ pc' = [pc EXCEPT ![j] = "idle"]
      /\ IF scope[j] \in Workspace
           THEN wsLock' = [wsLock EXCEPT ![scope[j]] = NoJob]
           ELSE UNCHANGED wsLock
      /\ scope' = [scope EXCEPT ![j] = Service]
      /\ target' = [target EXCEPT ![j] = ServiceOutput]
      /\ built' = [built EXCEPT ![j] = NoFile]
      /\ written' = [written EXCEPT ![j] = NoFile]
      /\ UNCHANGED <<runVars, fileVars, saved, crashes>>
  BY DEF Leave, Goto, Locks!Release
<1>2. TypeOK'
  BY <1>1, KeysAreDistinct DEF TypeOK, Stage, Scope, runVars, fileVars
<1>3. j \notin Running /\ Running' = Running
  BY <1>1 DEF TypeOK, Running, RunStage
<1>4. RunsAreExclusive' /\ SlotsAreExact'
  <2>1. \A i \in Running : scope'[i] = scope[i] /\ target'[i] = target[i]
    BY <1>1, <1>3 DEF TypeOK, Running
  <2> QED
    BY <1>1, <1>3, <2>1, RunsKept
<1>5. LocksAreHeld'
  BY <1>1, KeysAreDistinct DEF LocksAreHeld, TypeOK
<1>6. EditsSurvive'
  BY <1>1 DEF EditsSurvive, fileVars
<1>7. BuildsAreCurrent'
  BY <1>1 DEF BuildsAreCurrent, TypeOK, fileVars
<1> QED
  BY <1>2, <1>4, <1>5, <1>6, <1>7

(* After a restart nothing runs, and the files are as they were.           *)
LEMMA CrashRefreshInv ==
  ASSUME RefreshInv, Crash
  PROVE  RefreshInv'
<1> USE DEF RefreshInv
<1>1. /\ pc' = [j \in Job |-> "idle"]
      /\ scope' = [j \in Job |-> Service]
      /\ target' = [j \in Job |-> ServiceOutput]
      /\ built' = [j \in Job |-> NoFile] /\ written' = [j \in Job |-> NoFile]
      /\ wsLock' = [w \in Workspace |-> NoJob]
      /\ runs' = [k \in RunKey |-> NoJob]
      /\ slots' = 0 /\ refreshing' = FALSE
      /\ UNCHANGED <<state, output, staged, saved>>
      /\ crashes' = crashes + 1
  BY DEF Crash, fileVars
<1>2. TypeOK'
  <2>1. /\ pc' \in [Job -> Stage] /\ scope' \in [Job -> Scope] /\ target' \in [Job -> Output]
        /\ built' \in [Job -> Content \cup {NoFile}]
        /\ written' \in [Job -> Content \cup {NoFile}]
        /\ wsLock' \in [Workspace -> Job \cup {NoJob}]
        /\ runs' \in [RunKey -> Job \cup {NoJob}]
    BY <1>1, KeysAreDistinct DEF Stage, Scope
  <2>2. slots' \in Nat /\ crashes' \in Nat
    BY <1>1 DEF TypeOK
  <2>3. refreshing' \in BOOLEAN
    BY <1>1, Zenon
  <2>4. /\ state' \in [Scope -> Nat] /\ saved' \in [Scope -> Nat]
        /\ output' \in [Output -> Content \cup {NoFile}]
        /\ staged' \in [Output -> Content \cup {NoFile}]
    BY <1>1 DEF TypeOK
  <2> QED
    BY <2>1, <2>2, <2>3, <2>4 DEF TypeOK
<1>3. Running' = {}
  BY <1>1 DEF Running, RunStage
<1>4. RunsAreExclusive'
  BY <1>1, <1>3, NoJobIsNoJob DEF RunsAreExclusive
<1>5. SlotsAreExact'
  BY <1>1, <1>3, CapIsNat, FS_EmptySet DEF SlotsAreExact
<1>6. LocksAreHeld' /\ EditsSurvive'
  BY <1>1, KeysAreDistinct DEF LocksAreHeld, EditsSurvive
<1>7. BuildsAreCurrent'
  BY <1>1 DEF BuildsAreCurrent
<1> QED
  BY <1>2, <1>4, <1>5, <1>6, <1>7

(* Every step preserves the invariant.                                     *)
LEMMA NextRefreshInv == RefreshInv /\ [Next]_vars => RefreshInv'
<1> SUFFICES ASSUME RefreshInv, [Next]_vars PROVE RefreshInv'
  OBVIOUS
<1>1. ASSUME NEW j \in Job, BeginRefresh(j) PROVE RefreshInv'
  BY <1>1, EnterRefreshInv DEF BeginRefresh
<1>2. ASSUME NEW j \in Job, BeginEdit(j) PROVE RefreshInv'
  BY <1>2, EnterRefreshInv, KeysAreDistinct DEF BeginEdit
<1>3. ASSUME NEW j \in Job, Step(j) PROVE RefreshInv'
  BY <1>3, StartRefreshInv, RenderRefreshInv, SaveRefreshInv, StageResultRefreshInv,
     ValidateRefreshInv, PublishRefreshInv, CleanupRefreshInv, FinishRefreshInv,
     EditRefreshInv, LeaveRefreshInv DEF Step
<1>4. CASE UNCHANGED vars
  <2>1. Running' = Running
    BY <1>4 DEF Running, vars
  <2>2. RunsAreExclusive' /\ SlotsAreExact'
    BY <1>4, <2>1, RunsKept DEF vars, jobVars, RefreshInv
  <2>3. TypeOK' /\ LocksAreHeld' /\ EditsSurvive' /\ BuildsAreCurrent'
    BY <1>4 DEF RefreshInv, TypeOK, LocksAreHeld, EditsSurvive, BuildsAreCurrent, vars,
                jobVars, runVars, fileVars
  <2> QED
    BY <2>2, <2>3 DEF RefreshInv
<1> QED
  BY <1>1, <1>2, <1>3, <1>4, BeginServiceRefreshInv, CrashRefreshInv DEF Next

-----------------------------------------------------------------------------
(* The strengthened invariant of the refresh engine.                       *)
THEOREM RefreshInvariant == Spec => []RefreshInv
BY InitRefreshInv, NextRefreshInv, PTL DEF Spec

(* Every variable keeps its type.                                          *)
THEOREM RefreshTypeCorrect == Spec => []TypeOK
<1>1. RefreshInv => TypeOK
  BY DEF RefreshInv
<1> QED
  BY <1>1, RefreshInvariant, PTL

(* No two running jobs share a workspace or an output file, and the        *)
(* registered keys are those of the running jobs.                          *)
THEOREM RunsExclude == Spec => []RunsAreExclusive
<1>1. RefreshInv => RunsAreExclusive
  BY DEF RefreshInv
<1> QED
  BY <1>1, RefreshInvariant, PTL

(* Never more than maxRefreshWorkers jobs, each with exactly one slot.     *)
THEOREM SlotsCount == Spec => []SlotsAreExact
<1>1. RefreshInv => SlotsAreExact
  BY DEF RefreshInv
<1> QED
  BY <1>1, RefreshInvariant, PTL

(* No refresh undoes an edit that was confirmed.                           *)
THEOREM EditsAreKept == Spec => []EditsSurvive
<1>1. RefreshInv => EditsSurvive
  BY DEF RefreshInv
<1> QED
  BY <1>1, RefreshInvariant, PTL

(* An output file only changes to what the job that writes it has rendered *)
(* and validated, with all edits of its workspace.                         *)
THEOREM OwnBuildsPublished == Spec => PublishesOwnBuild
<1> DEFINE Own(o) == output'[o] # output[o] =>
                       \E j \in Job :
                         /\ pc[j] = "publish" /\ target[j] = o
                         /\ output'[o] = built[j]
                         /\ built[j].ok
                         /\ built[j].edits = saved[scope[j]]
<1>1. ASSUME RefreshInv, [Next]_vars, NEW o \in Output
      PROVE  Own(o)
  <2> SUFFICES ASSUME output'[o] # output[o]
               PROVE  \E j \in Job :
                        /\ pc[j] = "publish" /\ target[j] = o
                        /\ output'[o] = built[j]
                        /\ built[j].ok
                        /\ built[j].edits = saved[scope[j]]
    OBVIOUS
  <2>1. PICK j \in Job : Publish(j)
    BY <1>1 DEF Next, Step, vars, fileVars, BeginRefresh, BeginEdit, BeginServiceRefresh,
       Enter, Crash, Start, Render, Save, StageResult, Validate, Cleanup, Finish, Edit, Leave
  <2>2. pc[j] = "publish" /\ output' = [output EXCEPT ![target[j]] = written[j]]
    BY <2>1 DEF Publish
  <2>3. target[j] = o /\ output'[o] = written[j]
    BY <1>1, <2>2 DEF RefreshInv, TypeOK
  <2>4. written[j] = built[j] /\ built[j].ok /\ built[j].edits = state[scope[j]]
    BY <1>1, <2>2 DEF RefreshInv, BuildsAreCurrent
  <2>5. state[scope[j]] = saved[scope[j]]
    BY <1>1 DEF RefreshInv, EditsSurvive, TypeOK
  <2> QED
    BY <2>2, <2>3, <2>4, <2>5
<1>2. RefreshInv /\ [Next]_vars => [\A o \in Output : Own(o)]_vars
  BY <1>1
<1> QED
  BY <1>2, RefreshInvariant, PTL DEF Spec, PublishesOwnBuild
=============================================================================
