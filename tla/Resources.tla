----------------------------- MODULE Resources ------------------------------
(***************************************************************************)
(* Five components that share no state: the workspace directories          *)
(* (WorkspaceLifecycle), the download cache, the parse cache, the request  *)
(* limiter and the restore command.  A behaviour exercises one of them,    *)
(* chosen in the initial state, so that their state spaces add up and do   *)
(* not multiply; the others stay as they begin.                            *)
(***************************************************************************)
EXTENDS WorkspaceLifecycle

CONSTANTS
  Workspace, Shared, NoFile, MaxBody, CacheTTL, MaxDownloads,       \* FetchCache
  Source, SourceBytes, SourceNodes, Faulty, MaxEntries, MaxBytes,   \* ParseCache
  MaxNodes, NoKey,
  Client, Limit, Window, MaxKeys, MaxClock, MaxLag, Never,          \* RateLimiter
  Old, Nothing, MaxFiles, MaxFileSize, MaxExpandedSize,             \* BackupRestore
  ManifestSize, MaxFailures, MaxCrashes

VARIABLES
  component,  \* the component of this behaviour
  now, body, meta, stage, mode, seen, got, answer, downloads, saved, disturbed, mishaps,
  lru, bytes, nodes, parsing,
  clock, entries, lastCleanup, waiting, accepted,
  tree, archive, lock, pc, data, config, tempData, tempConfig, rollbackData,
  rollbackConfig, running, wasRunning, dataReplaced, configReplaced, before,
  serviceFailed, unseen, failures, crashes

fetchVars == <<now, body, meta, stage, mode, seen, got, answer, downloads, saved, disturbed,
  mishaps>>
parseVars == <<lru, bytes, nodes, parsing>>
limiterVars == <<clock, entries, lastCleanup, waiting, accepted>>
restoreVars == <<tree, archive, lock, pc, data, config, tempData, tempConfig,
  rollbackData, rollbackConfig, running, wasRunning, dataReplaced, configReplaced,
  before, serviceFailed, unseen, failures, crashes>>
resourcesVars == <<component, lifeVars, fetchVars, parseVars, limiterVars, restoreVars>>

Fetch == INSTANCE FetchCache WITH TTL <- CacheTTL

Parse == INSTANCE ParseCache WITH
  Request <- Visitor, Key <- Source, Bytes <- SourceBytes, Nodes <- SourceNodes

Limiter == INSTANCE RateLimiter WITH
  Request <- Visitor, Key <- Client, MaxTime <- MaxClock, now <- clock

Restore == INSTANCE BackupRestore WITH Restorer <- Visitor

(* No workspace is the shared directory, and no download a missing file;   *)
(* a TTL of zero or less is one that nothing is fresh for.                 *)
ASSUME FetchAssumption ==
  /\ Shared \notin Workspace /\ NoFile \notin Fetch!Download
  /\ MaxTime \in Nat /\ MaxMishaps \in Nat /\ MaxBody \in Nat /\ MaxDownloads \in Nat
  /\ CacheTTL \in Int

(* The files are not taken for each other, and the limits are numbers.     *)
ASSUME RestoreAssumption ==
  /\ Nothing \notin Visitor /\ Old \notin Visitor /\ "part" \notin Visitor
  /\ MaxFiles \in Nat /\ MaxFileSize \in Nat
  /\ MaxExpandedSize \in Nat /\ ManifestSize \in Nat

(* Sizes, node counts and limits are numbers, and none is a key.            *)
ASSUME ParseAssumption ==
  /\ SourceBytes \in [Source -> Nat] /\ SourceNodes \in [Source -> Nat]
  /\ NoKey \notin Source
  /\ MaxEntries \in Nat /\ MaxBytes \in Nat /\ MaxNodes \in Nat

(* The limits are positive (allow with a limit of zero accepts all), and a *)
(* request takes the mutex at most a window after it read the clock.       *)
ASSUME LimiterAssumption ==
  /\ Limit \in Nat \ {0} /\ MaxKeys \in Nat \ {0}
  /\ Window \in Nat /\ MaxLag \in Nat /\ MaxLag <= Window
  /\ Never \notin Int /\ Never \notin Client \X Nat

-----------------------------------------------------------------------------
ResourcesInit ==
  /\ component \in {"fetch", "parse", "limiter", "restore", "workspaces"}
  /\ Init /\ Fetch!Init /\ Parse!Init /\ Limiter!Init /\ Restore!Init

ResourcesNext ==
  /\ UNCHANGED component
  /\ \/ /\ component = "fetch" /\ Fetch!Next
        /\ UNCHANGED <<lifeVars, parseVars, limiterVars, restoreVars>>
     \/ /\ component = "parse" /\ Parse!Next
        /\ UNCHANGED <<lifeVars, fetchVars, limiterVars, restoreVars>>
     \/ /\ component = "limiter" /\ Limiter!Next
        /\ UNCHANGED <<lifeVars, fetchVars, parseVars, restoreVars>>
     \/ /\ component = "restore" /\ Restore!Next
        /\ UNCHANGED <<lifeVars, fetchVars, parseVars, limiterVars>>
     \/ /\ component = "workspaces" /\ Next
        /\ UNCHANGED <<fetchVars, parseVars, limiterVars, restoreVars>>

ResourcesSpec == ResourcesInit /\ [][ResourcesNext]_resourcesVars

-----------------------------------------------------------------------------
(* The properties of the components (see their modules).                   *)

(* Downloads: a copy that is there is found.                               *)
CopiesAreFound == Fetch!CopiesAreFound

(* Downloads: an answer taken from the cache for fresh is fresh.           *)
FreshAnswersAreFresh == Fetch!FreshAnswersAreFresh

(* The parse cache: counters and entries agree and stay within limits.     *)
ParseCacheIsBounded == Parse!CountersAddUp /\ Parse!WithinLimits

(* The limiter: requests per client and window.                            *)
AcceptedPerWindow == Limiter!AcceptedPerWindow

(* The limiter: a full map accepts new clients again.                      *)
FullTableRecovers == Limiter!FullTableRecovers

(* Restore: the archive's data and configuration, or what was there.       *)
AllOrNothing == Restore!AllOrNothing /\ Restore!NeverRunsOnAMixture

(* Restore: the data being replaced is never lost.                         *)
OldDataSurvives == Restore!OldDataSurvives

(* Restore: what was exported is accepted, and nothing else installed.     *)
ArchivesAreIntact == Restore!OnlyExportsAreInstalled /\ Restore!ExportsAreRestorable
=============================================================================
