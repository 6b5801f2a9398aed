--------------------------- MODULE BackupRestore ----------------------------
(***************************************************************************)
(* Export and restore of a router's data (backup/archive.go).  A restore   *)
(* checks the archive, unpacks it beside the data directory, stops the     *)
(* service, swaps data and configuration one after the other, and starts   *)
(* the service again; whatever fails after the stop is rolled back.        *)
(*                                                                         *)
(* The content of the data directory and of the configuration file is      *)
(* named by where it came from: Old, or the restore that installed it.     *)
(* Sizes are small numbers and a checksum stands for the content.          *)
(***************************************************************************)
EXTENDS Naturals, Sequences, FiniteSets, FiniteSetsExt, SequencesExt

CONSTANTS
  Restorer,       \* invocations of the restore command
  Old, Nothing,   \* the initial content; a file that does not exist
  MaxFiles, MaxFileSize, MaxExpandedSize, ManifestSize,
  MaxFailures,    \* bound: steps that fail
  MaxCrashes      \* bound: restores that are killed

VARIABLES
  tree,            \* sizes of the files to export
  archive,         \* the archive given to each restore
  lock,            \* the restore holding the lock file, or Nothing
  pc,              \* where each restore is
  data, config,    \* what is installed
  tempData, tempConfig,          \* per restore: what it unpacked
  rollbackData, rollbackConfig,  \* per restore: what it put aside
  running,         \* the service runs
  wasRunning,      \* per restore: it found the service running
  dataReplaced, configReplaced,
  before,          \* history: <<data, config, running>> when a restore began
  serviceFailed,   \* history: a service command of this restore failed
  unseen,          \* history: this restore took the running service for stopped
  failures, crashes

filesOf == <<tempData, tempConfig, rollbackData, rollbackConfig>>
flags == <<wasRunning, dataReplaced, configReplaced>>
live == <<data, config>>
history == <<before, serviceFailed, unseen, failures, crashes>>
vars == <<tree, archive, lock, pc, live, filesOf, running, flags, history>>

-----------------------------------------------------------------------------
(* The archive.                                                            *)

ConfigFile == "config/subconv-next"
DataFile == {"data/a", "data/b"}
Excluded == {"data/cache"}

(* Sizes of the configuration and of the data files that exist.            *)
Trees == UNION {[{ConfigFile} \cup files -> 1 .. (MaxFileSize + 1)] :
                  files \in SUBSET (DataFile \cup Excluded)}

Sources(t) == DOMAIN t \ Excluded

Total(t) == SumFunctionOnSet(t, Sources(t))

Exportable(t) ==
  /\ \A f \in Sources(t) \ {ConfigFile} : t[f] <= MaxFileSize
  /\ Total(t) <= MaxExpandedSize
  /\ Cardinality(Sources(t)) <= MaxFiles

Record(f, size) == [name |-> f, size |-> size, sum |-> <<f, size>>]

Export(t) ==
  LET files == SetToSeq({Record(f, t[f]) : f \in Sources(t)})
  IN  [entries |-> files, manifest |-> ToSet(files)]

(* What a broken download or a careless edit makes of an archive.          *)
Damaged(a) ==
  {[a EXCEPT !.entries = Tail(@)]}
    \cup {[a EXCEPT !.entries = <<Head(@)>> \o @]}
    \cup {[a EXCEPT !.entries = <<[Head(@) EXCEPT !.sum = <<ConfigFile, 0>>]>> \o Tail(@)]}
    \cup {[a EXCEPT !.entries[1].name = "etc/passwd"]}
    \cup {[a EXCEPT !.manifest = {}]}
    \cup {[a EXCEPT !.manifest = {r \in @ : r.name # ConfigFile},
                    !.entries = SelectSeq(@, LAMBDA r : r.name # ConfigFile)]}

Names(a) == {a.entries[i].name : i \in DOMAIN a.entries}
Sizes(a) == [i \in DOMAIN a.entries |-> a.entries[i].size]

(* scanArchive: the entries within their limits, each once and known, and  *)
(* exactly those of the manifest, which counts towards the total.          *)
(* Mutant: the manifest counts as one of the files.                        *)
InspectCountingManifest(a) ==
  /\ Len(a.entries) + 1 <= MaxFiles
  /\ Names(a) \subseteq {ConfigFile} \cup DataFile \cup Excluded
  /\ a.manifest = ToSet(a.entries)

Inspect(a) ==
  /\ Len(a.entries) + 1 <= MaxFiles + 1
  /\ \A i \in DOMAIN a.entries : a.entries[i].size <= MaxFileSize
  /\ ManifestSize + SumFunction(Sizes(a)) <= MaxExpandedSize
  /\ Names(a) \subseteq {ConfigFile} \cup DataFile \cup Excluded
  /\ Cardinality(Names(a)) = Len(a.entries)
  /\ a.manifest = ToSet(a.entries)
  /\ ConfigFile \in {r.name : r \in a.manifest}

-----------------------------------------------------------------------------
Nowhere == [r \in Restorer |-> Nothing]
No == [r \in Restorer |-> FALSE]

Init ==
  /\ tree \in {t \in Trees : Exportable(t)}
  /\ archive = [r \in Restorer |-> Export(tree)]
  /\ lock = Nothing
  /\ pc = [r \in Restorer |-> "ready"]
  /\ data \in {Old, Nothing} /\ config \in {Old, Nothing}
  /\ tempData = Nowhere /\ tempConfig = Nowhere
  /\ rollbackData = Nowhere /\ rollbackConfig = Nowhere
  /\ running \in BOOLEAN
  /\ wasRunning = No /\ dataReplaced = No /\ configReplaced = No
  /\ before = [r \in Restorer |-> <<Nothing, Nothing, FALSE>>]
  /\ serviceFailed = No /\ unseen = No
  /\ failures = 0 /\ crashes = 0

Goto(r, stage) == pc' = [pc EXCEPT ![r] = stage]

Fail == failures < MaxFailures /\ failures' = failures + 1

(* The lock is taken without waiting; then the archive and the free space  *)
(* are checked before anything is written.                                 *)
Begin(r) ==
  /\ pc[r] = "ready"
  /\ archive' \in {[archive EXCEPT ![r] = a] : a \in {Export(tree)} \cup Damaged(Export(tree))}
  /\ IF lock = Nothing THEN lock' = r /\ Goto(r, "inspect")
                       ELSE UNCHANGED lock /\ Goto(r, "refused")
  /\ before' = [before EXCEPT ![r] = <<data, config, running>>]
  /\ UNCHANGED <<tree, live, filesOf, running, flags, serviceFailed, unseen,
                 failures, crashes>>

InspectArchive(r) ==
  /\ pc[r] = "inspect"
  /\ \/ Inspect(archive[r]) /\ Goto(r, "unpack") /\ UNCHANGED failures
     \/ ~Inspect(archive[r]) /\ Goto(r, "cleanup") /\ UNCHANGED failures
     \/ Fail /\ Goto(r, "cleanup")
  /\ UNCHANGED <<tree, archive, lock, live, filesOf, running, flags, before,
                 serviceFailed, unseen, crashes>>

(* Both temporary copies are complete, with data_dir put back to this      *)
(* router's, before the service is stopped.                                *)
Unpack(r) ==
  /\ pc[r] = "unpack"
  /\ \/ /\ tempData' = [tempData EXCEPT ![r] = r]
        /\ tempConfig' = [tempConfig EXCEPT ![r] = r]
        /\ Goto(r, "stop")
        /\ UNCHANGED failures
     \/ /\ Fail
        /\ tempData' = [tempData EXCEPT ![r] = "part"]
        /\ Goto(r, "cleanup")
        /\ UNCHANGED tempConfig
  /\ UNCHANGED <<tree, archive, lock, live, rollbackData, rollbackConfig, running,
                 flags, before, serviceFailed, unseen, crashes>>

(* A service command that fails may or may not have taken effect: a start  *)
(* also fails when the service is not found running after it.              *)
ServiceCommandFails(r) ==
  /\ Fail
  /\ serviceFailed' = [serviceFailed EXCEPT ![r] = TRUE]
  /\ running' \in BOOLEAN

(* serviceRunning: what the init script answers to "running".  A question  *)
(* that fails or times out counts as a no.                                 *)
ServiceRunning == IF running THEN {TRUE, FALSE} ELSE {FALSE}

(* Before the swap the service is stopped if it is seen to run; when that  *)
(* fails the restore gives up, with nothing to roll back yet.  When it     *)
(* runs unseen nobody is told, and the restore goes on underneath it.      *)
StopService(r) ==
  /\ pc[r] = "stop"
  /\ \E seen \in ServiceRunning :
       /\ wasRunning' = [wasRunning EXCEPT ![r] = seen]
       /\ unseen' = [unseen EXCEPT ![r] = running /\ ~seen]
       /\ \/ /\ seen /\ running' = FALSE
             /\ Goto(r, "copy config")
             /\ UNCHANGED <<failures, serviceFailed>>
          \/ seen /\ ServiceCommandFails(r) /\ Goto(r, "cleanup")
          \/ ~seen /\ Goto(r, "copy config") /\ UNCHANGED <<running, failures, serviceFailed>>
  /\ UNCHANGED <<tree, archive, lock, live, filesOf, dataReplaced, configReplaced,
                 before, crashes>>

(* The old configuration is copied, the old data directory renamed; either *)
(* may not exist.  A step that fails goes to the rollback.                 *)
CopyConfig(r) ==
  /\ pc[r] = "copy config"
  /\ \/ /\ rollbackConfig' = [rollbackConfig EXCEPT ![r] = config]
        /\ Goto(r, "save data")
        /\ UNCHANGED failures
     \/ Fail /\ Goto(r, "undo stop") /\ UNCHANGED rollbackConfig
  /\ UNCHANGED <<tree, archive, lock, live, tempData, tempConfig, rollbackData,
                 running, flags, before, serviceFailed, unseen, crashes>>

SaveData(r) ==
  /\ pc[r] = "save data"
  /\ \/ /\ rollbackData' = [rollbackData EXCEPT ![r] = data]
        /\ data' = Nothing
        /\ Goto(r, "swap data")
        /\ UNCHANGED failures
     \/ Fail /\ Goto(r, "undo stop") /\ UNCHANGED <<data, rollbackData>>
  /\ UNCHANGED <<tree, archive, lock, config, tempData, tempConfig, rollbackConfig,
                 running, flags, before, serviceFailed, unseen, crashes>>

(* When the new data cannot be moved into place the old is moved back at   *)
(* once, and the rollback has nothing to undo but the stop.                *)
SwapData(r) ==
  /\ pc[r] = "swap data"
  /\ \/ /\ data' = tempData[r]
        /\ tempData' = [tempData EXCEPT ![r] = Nothing]
        /\ dataReplaced' = [dataReplaced EXCEPT ![r] = TRUE]
        /\ Goto(r, "swap config")
        /\ UNCHANGED <<rollbackData, failures>>
     \/ /\ Fail
        /\ data' = rollbackData[r]
        /\ rollbackData' = [rollbackData EXCEPT ![r] = Nothing]
        /\ Goto(r, "undo stop")
        /\ UNCHANGED <<tempData, dataReplaced>>
  /\ UNCHANGED <<tree, archive, lock, config, tempConfig, rollbackConfig, running,
                 wasRunning, configReplaced, before, serviceFailed, unseen, crashes>>

(* Changing a mode after a rename can fail with the new file in place.     *)
(* Mutant: the replacement is noted after the mode was changed.            *)
SwapConfigNotedLate(r) ==
  /\ pc[r] = "swap config"
  /\ config' = tempConfig[r]
  /\ tempConfig' = [tempConfig EXCEPT ![r] = Nothing]
  /\ \/ /\ Goto(r, "start") /\ UNCHANGED failures
        /\ configReplaced' = [configReplaced EXCEPT ![r] = TRUE]
     \/ Fail /\ Goto(r, "undo stop") /\ UNCHANGED configReplaced
  /\ UNCHANGED <<tree, archive, lock, data, tempData, rollbackData, rollbackConfig,
                 running, wasRunning, dataReplaced, before, serviceFailed, unseen, crashes>>

SwapConfig(r) ==
  /\ pc[r] = "swap config"
  /\ \/ /\ config' = tempConfig[r]
        /\ tempConfig' = [tempConfig EXCEPT ![r] = Nothing]
        /\ configReplaced' = [configReplaced EXCEPT ![r] = TRUE]
        /\ \/ Goto(r, "start") /\ UNCHANGED failures
           \/ Fail /\ Goto(r, "undo stop")
     \/ Fail /\ Goto(r, "undo stop") /\ UNCHANGED <<config, tempConfig, configReplaced>>
  /\ UNCHANGED <<tree, archive, lock, data, tempData, rollbackData, rollbackConfig,
                 running, wasRunning, dataReplaced, before, serviceFailed, unseen, crashes>>

StartService(r) ==
  /\ pc[r] = "start"
  /\ \/ /\ running' = (running \/ wasRunning[r])
        /\ Goto(r, "commit")
        /\ UNCHANGED <<failures, serviceFailed>>
     \/ wasRunning[r] /\ ServiceCommandFails(r) /\ Goto(r, "undo stop")
  /\ UNCHANGED <<tree, archive, lock, live, filesOf, flags, before, unseen, crashes>>

Commit(r) ==
  /\ pc[r] = "commit"
  /\ Goto(r, "cleanup restored")
  /\ UNCHANGED <<tree, archive, lock, live, filesOf, running, flags, history>>

(* The rollback: stop, data, configuration, start; errors are ignored.     *)
UndoStop(r) ==
  /\ pc[r] = "undo stop"
  /\ Goto(r, "undo data")
  /\ \/ running' = FALSE /\ UNCHANGED <<failures, serviceFailed>>
     \/ ServiceCommandFails(r)
  /\ UNCHANGED <<tree, archive, lock, live, filesOf, flags, before, unseen, crashes>>

(* Mutant: the rollback drops what was put aside with what was installed.  *)
UndoBoth(r) ==
  /\ pc[r] = "undo data"
  /\ Goto(r, "undo config")
  /\ data' = IF dataReplaced[r] THEN rollbackData[r] ELSE Nothing
  /\ rollbackData' = [rollbackData EXCEPT ![r] = Nothing]
  /\ UNCHANGED <<tree, archive, lock, config, tempData, tempConfig, rollbackConfig,
                 running, flags, history>>

UndoData(r) ==
  /\ pc[r] = "undo data"
  /\ Goto(r, IF dataReplaced[r] THEN "undo rename" ELSE "undo config")
  /\ \/ data' = (IF dataReplaced[r] THEN Nothing ELSE data) /\ UNCHANGED failures
     \/ dataReplaced[r] /\ Fail /\ data' = "part"
  /\ UNCHANGED <<tree, archive, lock, config, filesOf, running, flags, before,
                 serviceFailed, unseen, crashes>>

UndoRename(r) ==
  /\ pc[r] = "undo rename"
  /\ Goto(r, "undo config")
  /\ \/ /\ data = Nothing /\ rollbackData[r] # Nothing
        /\ data' = rollbackData[r]
        /\ rollbackData' = [rollbackData EXCEPT ![r] = Nothing]
        /\ UNCHANGED failures
     \/ /\ data # Nothing \/ rollbackData[r] = Nothing
        /\ UNCHANGED <<data, rollbackData, failures>>
     \/ Fail /\ UNCHANGED <<data, rollbackData>>
  /\ UNCHANGED <<tree, archive, lock, config, tempData, tempConfig, rollbackConfig,
                 running, flags, before, serviceFailed, unseen, crashes>>

UndoConfig(r) ==
  /\ pc[r] = "undo config"
  /\ Goto(r, "undo start")
  /\ IF configReplaced[r]
       THEN \/ /\ config' = rollbackConfig[r]
               /\ rollbackConfig' = [rollbackConfig EXCEPT ![r] = Nothing]
               /\ UNCHANGED failures
            \/ Fail /\ config' = Nothing /\ UNCHANGED rollbackConfig
       ELSE UNCHANGED <<config, rollbackConfig, failures>>
  /\ UNCHANGED <<tree, archive, lock, data, tempData, tempConfig, rollbackData,
                 running, flags, before, serviceFailed, unseen, crashes>>

UndoStart(r) ==
  /\ pc[r] = "undo start"
  /\ Goto(r, "cleanup")
  /\ \/ running' = (running \/ wasRunning[r]) /\ UNCHANGED <<failures, serviceFailed>>
     \/ wasRunning[r] /\ ServiceCommandFails(r)
  /\ UNCHANGED <<tree, archive, lock, live, filesOf, flags, before, unseen, crashes>>

(* The deferred calls run last: every temporary and put-aside file goes,   *)
(* and the lock.                                                           *)
Cleanup(r) ==
  /\ pc[r] \in {"cleanup", "cleanup restored"}
  /\ tempData' = [tempData EXCEPT ![r] = Nothing]
  /\ tempConfig' = [tempConfig EXCEPT ![r] = Nothing]
  /\ rollbackData' = [rollbackData EXCEPT ![r] = Nothing]
  /\ rollbackConfig' = [rollbackConfig EXCEPT ![r] = Nothing]
  /\ lock' = Nothing
  /\ Goto(r, IF pc[r] = "cleanup" THEN "failed" ELSE "restored")
  /\ UNCHANGED <<tree, archive, live, running, flags, history>>

(* The command is killed: nothing is undone, the system drops the lock.    *)
Kill(r) ==
  /\ lock = r
  /\ crashes < MaxCrashes
  /\ crashes' = crashes + 1
  /\ lock' = Nothing
  /\ Goto(r, "killed")
  /\ UNCHANGED <<tree, archive, live, filesOf, running, flags, before, serviceFailed,
                 unseen, failures>>

Next ==
  \E r \in Restorer :
    \/ Begin(r) \/ InspectArchive(r) \/ Unpack(r) \/ StopService(r)
    \/ CopyConfig(r) \/ SaveData(r) \/ SwapData(r) \/ SwapConfig(r)
    \/ StartService(r) \/ Commit(r)
    \/ UndoStop(r) \/ UndoData(r) \/ UndoRename(r) \/ UndoConfig(r) \/ UndoStart(r)
    \/ Cleanup(r) \/ Kill(r)

Spec == Init /\ [][Next]_vars

-----------------------------------------------------------------------------
(* After one failing step at most, a restore has either installed data and *)
(* configuration of the archive, or left both as it found them, even when  *)
(* it took the running service for stopped.  A restore that failed leaves  *)
(* the service as it was unless a service command is what failed, or it    *)
(* had not seen the service running: then the rollback stops it, and       *)
(* nobody starts it again.                                                 *)
AllOrNothing ==
  \A r \in Restorer :
    failures <= 1 /\ crashes = 0 =>
      /\ pc[r] = "restored" =>
           \/ data = r /\ config = r
           \/ \E s \in Restorer \ {r} : pc[s] # "ready" /\ pc[s] # "refused"
      /\ pc[r] = "failed" /\ lock = Nothing
           /\ (\A s \in Restorer \ {r} : pc[s] \in {"ready", "refused"}) =>
           /\ <<data, config>> = <<before[r][1], before[r][2]>>
           /\ running = before[r][3] \/ serviceFailed[r] \/ unseen[r]

(* Until a restore has succeeded, the data it replaces is on the disk, in  *)
(* place or beside it, whichever step fails and wherever the command is    *)
(* killed.  Only a second failure, of the rollback, loses it: the deferred *)
(* removal of what was put aside does not ask whether it was put back.     *)
OldDataSurvives ==
  failures <= 1 =>
    \A r \in Restorer :
      /\ pc[r] \notin {"ready", "refused", "restored", "cleanup restored"}
      /\ \A s \in Restorer \ {r} : pc[s] # "restored"
      => before[r][1] \in {data} \cup {rollbackData[s] : s \in Restorer}

(* The stages at which data and configuration may be of different origin   *)
(* and the rollback has not yet stopped the service.                       *)
Swapping == {"swap data", "swap config", "undo stop"}

(* The service never runs on the data of one archive and the configuration *)
(* of another: two restores, or a rollback, do not overlap it.  The        *)
(* exception is the swap of a restore that took the running service for    *)
(* stopped, until its two files are in place or the rollback has stopped   *)
(* the service after all.                                                  *)
NeverRunsOnAMixture ==
  running /\ crashes = 0 /\ failures <= 1 =>
    \/ {data, config} \subseteq {Old, Nothing}
    \/ data = config
    \/ \E r \in Restorer : unseen[r] /\ pc[r] \in Swapping

(* What is installed is what was exported: an archive with a changed,      *)
(* missing, repeated or unknown file is refused before the service stops.  *)
OnlyExportsAreInstalled ==
  \A r \in Restorer :
    r \in {data, config} => archive[r] = Export(tree)

(* What Export writes, Restore accepts, so a backup is of use; except that *)
(* Export counts neither its manifest nor the size of the configuration    *)
(* against the limits that Restore applies to both.                        *)
ExportsAreRestorable ==
  /\ Total(tree) + ManifestSize <= MaxExpandedSize
  /\ tree[ConfigFile] <= MaxFileSize
  => Inspect(Export(tree))
=============================================================================
