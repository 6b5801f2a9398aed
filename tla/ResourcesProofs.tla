-------------------------- MODULE ResourcesProofs ---------------------------
(***************************************************************************)
(* What holds of the components of Resources for every value of the        *)
(* constants: the workspace directories (LimitIsKept,                      *)
(* WorkspacesInUseSurvive), the download cache (CopiesAreFound,            *)
(* FreshAnswersAreFresh), the restore command (AllOrNothing,               *)
(* OldDataSurvives, ArchivesAreIntact), the parse cache                    *)
(* (ParseCacheIsBounded) and the request limiter (AcceptedPerWindow,       *)
(* FullTableRecovers).  Each has inductive invariants of its own.          *)
(***************************************************************************)
EXTENDS Resources, Sequences, FiniteSums, FiniteSetTheorems, TLAPS

(* The workspace directories.                                              *)

Creating == {"making room", "counted", "made"}
VisitorStage == {"idle", "using", "cleaning"} \cup Creating

LifeTypes ==
  /\ time \in Nat
  /\ dirs \in SUBSET Id
  /\ lastAccess \in [Id -> Nat \cup {NoMeta}]
  /\ asked \in [Id -> Nat]
  /\ step \in [Visitor -> VisitorStage]
  /\ target \in [Visitor -> Id]

(* Only the holder of workspaceCreateMu is inside a creation.              *)
OneCreator == \A v \in Visitor : step[v] \in Creating => creator = v

(* What it counted is still true when it makes the directory: others only  *)
(* remove directories meanwhile.                                           *)
RoomIsKept == \A v \in Visitor : step[v] = "counted" => Cardinality(dirs) < MaxWorkspaces

(* A meta.json that can be loaded says when its workspace was last asked   *)
(* for.                                                                    *)
AccessIsKnown == \A w \in Id : lastAccess[w] \in {NoMeta, asked[w]}

LifeInv == LifeTypes /\ LimitIsKept /\ OneCreator /\ RoomIsKept /\ AccessIsKnown

(* What a step may do to the directories, if it is not a creation.         *)
LEMMA FewerDirectories ==
  ASSUME IsFiniteSet(Id), dirs \in SUBSET Id, NEW D, D \subseteq dirs
  PROVE  Cardinality(D) <= Cardinality(dirs) /\ Cardinality(dirs) \in Nat
         /\ Cardinality(D) \in Nat
<1>1. IsFiniteSet(dirs)
  BY FS_Subset
<1>2. IsFiniteSet(D)
  BY <1>1, FS_Subset
<1>3. Cardinality(D) <= Cardinality(dirs)
  BY <1>1, FS_Subset
<1> QED
  BY <1>1, <1>2, <1>3, FS_CardinalityType

LEMMA OneMoreDirectory ==
  ASSUME IsFiniteSet(Id), dirs \in SUBSET Id, NEW w \in Id
  PROVE  Cardinality(dirs \cup {w}) <= Cardinality(dirs) + 1
         /\ Cardinality(dirs) \in Nat /\ Cardinality(dirs \cup {w}) \in Nat
<1>1. IsFiniteSet(dirs)
  BY FS_Subset
<1>2. /\ IsFiniteSet(dirs \cup {w})
      /\ Cardinality(dirs \cup {w})
           = IF w \in dirs THEN Cardinality(dirs) ELSE Cardinality(dirs) + 1
  BY <1>1, FS_AddElement
<1>3. Cardinality(dirs) \in Nat /\ Cardinality(dirs \cup {w}) \in Nat
  BY <1>1, <1>2, FS_CardinalityType
<1> QED
  BY <1>2, <1>3

(* Removing a directory, or failing to, keeps the invariant.               *)
LEMMA RemoveKeepsInvariant ==
  ASSUME IsFiniteSet(Id), MaxWorkspaces \in Nat, LifeInv, NEW w \in Id, Remove(w),
         UNCHANGED <<time, asked, step, target, creator>>
  PROVE  LifeInv'
<1>1. dirs' \subseteq dirs
  BY DEF Remove
<1>2. Cardinality(dirs') <= Cardinality(dirs) /\ Cardinality(dirs) \in Nat
      /\ Cardinality(dirs') \in Nat
  BY <1>1, FewerDirectories DEF LifeInv, LifeTypes
<1>3. LifeTypes'
  BY <1>1 DEF LifeInv, LifeTypes, Remove
<1>4. LimitIsKept'
  BY <1>2 DEF LifeInv, LimitIsKept
<1>5. OneCreator'
  BY DEF LifeInv, OneCreator
<1>6. RoomIsKept'
  BY <1>2 DEF LifeInv, RoomIsKept
<1>7. AccessIsKnown'
  BY DEF LifeInv, LifeTypes, AccessIsKnown, Remove
<1> QED
  BY <1>3, <1>4, <1>5, <1>6, <1>7 DEF LifeInv

(* A step that leaves the disk alone keeps it if the steps of creations    *)
(* are right.                                                              *)
LEMMA DiskUnchanged ==
  ASSUME LifeInv, UNCHANGED <<time, dirs, lastAccess, asked>>,
         step' \in [Visitor -> VisitorStage], target' \in [Visitor -> Id], OneCreator', RoomIsKept'
  PROVE  LifeInv'
BY DEF LifeInv, LifeTypes, LimitIsKept, AccessIsKnown

LEMMA InitInvariant ==
  ASSUME MaxWorkspaces \in Nat, Id # {}, Init
  PROVE  LifeInv
<1>1. NoTarget \in Id
  BY DEF NoTarget
<1>2. LifeTypes
  BY <1>1 DEF Init, LifeTypes, VisitorStage
<1>3. LimitIsKept
  BY DEF Init, LimitIsKept
<1>4. OneCreator /\ RoomIsKept
  BY DEF Init, OneCreator, RoomIsKept, Creating
<1>5. AccessIsKnown
  BY DEF Init, AccessIsKnown
<1> QED
  BY <1>2, <1>3, <1>4, <1>5 DEF LifeInv

(* Requests and clean-ups.                                                 *)
LEMMA UseKeepsInvariant ==
  ASSUME IsFiniteSet(Id), MaxWorkspaces \in Nat, LifeInv,
         NEW v \in Visitor, NEW w \in Id, Use(v, w)
  PROVE  LifeInv'
<1>1. CASE Expired(w) /\ w \notin pinned /\ Remove(w) /\ UNCHANGED <<step, target, asked>>
  BY <1>1, RemoveKeepsInvariant DEF Use
<1>2. CASE UNCHANGED dirs /\ lastAccess' = [lastAccess EXCEPT ![w] = time]
           /\ asked' = [asked EXCEPT ![w] = time] /\ Aim(v, w) /\ Goto(v, "using")
  <2>1. LifeTypes'
    BY <1>2 DEF Use, LifeInv, LifeTypes, Aim, Goto, VisitorStage
  <2>2. OneCreator' /\ RoomIsKept'
    BY <1>2 DEF Use, LifeInv, LifeTypes, OneCreator, RoomIsKept, Goto, Creating
  <2>3. AccessIsKnown'
    BY <1>2 DEF LifeInv, LifeTypes, AccessIsKnown
  <2>4. LimitIsKept'
    BY <1>2 DEF LifeInv, LimitIsKept
  <2> QED
    BY <2>1, <2>2, <2>3, <2>4 DEF LifeInv
<1> QED
  BY <1>1, <1>2 DEF Use

LEMMA VisitKeepsInvariant ==
  ASSUME IsFiniteSet(Id), MaxWorkspaces \in Nat, LifeInv,
         NEW v \in Visitor, NEW w \in Id, Visit(v, w)
  PROVE  LifeInv'
<1>1. CASE Remove(w)
  BY <1>1, RemoveKeepsInvariant DEF Visit
<1>2. CASE UNCHANGED diskVars
  BY <1>2, DiskUnchanged DEF Visit, diskVars, LifeInv, LifeTypes, OneCreator, RoomIsKept
<1> QED
  BY <1>1, <1>2 DEF Visit

(* Creations.                                                              *)
LEMMA BeginCreateKeepsInvariant ==
  ASSUME Nobody \notin Visitor, LifeInv, NEW v \in Visitor, BeginCreate(v)
  PROVE  LifeInv'
<1>1. \A u \in Visitor : step[u] \notin Creating
  BY DEF BeginCreate, LifeInv, OneCreator
<1>2. step' = [step EXCEPT ![v] = "making room"] /\ creator' = v
      /\ UNCHANGED <<time, dirs, lastAccess, asked, target>>
  BY DEF BeginCreate, List, Goto, diskVars
<1>3. OneCreator'
  BY <1>1, <1>2 DEF OneCreator, LifeInv, LifeTypes
<1>4. RoomIsKept'
  BY <1>2 DEF RoomIsKept, LifeInv, LifeTypes
<1>5. step' \in [Visitor -> VisitorStage]
  BY <1>2 DEF LifeInv, LifeTypes, VisitorStage, Creating
<1> QED
  BY <1>2, <1>3, <1>4, <1>5, DiskUnchanged DEF LifeInv, LifeTypes

LEMMA CountKeepsInvariant ==
  ASSUME LifeInv, NEW v \in Visitor, Count(v)
  PROVE  LifeInv'
<1>1. UNCHANGED <<time, dirs, lastAccess, asked, target>>
  BY DEF Count, diskVars
<1>2. \A u \in Visitor : step[u] \in Creating => u = v
  BY DEF Count, LifeInv, OneCreator, Creating
<1>3. CASE creator' = Nobody /\ Goto(v, "idle")
  <2>1. step' = [step EXCEPT ![v] = "idle"]
    BY <1>3 DEF Goto
  <2>2. OneCreator' /\ RoomIsKept'
    BY <1>1, <1>2, <2>1 DEF OneCreator, RoomIsKept, LifeInv, LifeTypes, Creating
  <2> QED
    BY <1>1, <2>1, <2>2, DiskUnchanged DEF LifeInv, LifeTypes, VisitorStage
<1>4. CASE Cardinality(dirs) < MaxWorkspaces /\ Goto(v, "counted") /\ UNCHANGED creator
  <2>1. step' = [step EXCEPT ![v] = "counted"]
    BY <1>4 DEF Goto
  <2>2. creator = v
    BY DEF Count, LifeInv, OneCreator, Creating
  <2>3. OneCreator' /\ RoomIsKept'
    BY <1>1, <1>2, <1>4, <2>1, <2>2 DEF OneCreator, RoomIsKept, LifeInv, LifeTypes
  <2> QED
    BY <1>1, <2>1, <2>3, DiskUnchanged DEF LifeInv, LifeTypes, VisitorStage, Creating
<1> QED
  BY <1>3, <1>4 DEF Count

LEMMA MakeDirKeepsInvariant ==
  ASSUME IsFiniteSet(Id), MaxWorkspaces \in Nat, LifeInv, NEW v \in Visitor, MakeDir(v)
  PROVE  LifeInv'
<1>1. PICK w \in Id : dirs' = dirs \cup {w} /\ Aim(v, w)
  BY DEF MakeDir
<1>2. step' = [step EXCEPT ![v] = "made"] /\ UNCHANGED <<time, lastAccess, asked, creator>>
  BY DEF MakeDir, Goto
<1>3. creator = v /\ Cardinality(dirs) < MaxWorkspaces
  BY DEF MakeDir, LifeInv, OneCreator, RoomIsKept, Creating
<1>4. LimitIsKept'
  BY <1>1, <1>3, OneMoreDirectory DEF LifeInv, LifeTypes, LimitIsKept
<1>5. LifeTypes'
  BY <1>1, <1>2 DEF LifeInv, LifeTypes, Aim, VisitorStage, Creating
<1>6. \A u \in Visitor : step[u] \in Creating => u = v
  BY <1>3 DEF LifeInv, OneCreator
<1>7. OneCreator' /\ RoomIsKept'
  BY <1>2, <1>3, <1>6 DEF OneCreator, RoomIsKept, LifeInv, LifeTypes, Creating
<1>8. AccessIsKnown'
  BY <1>2 DEF LifeInv, AccessIsKnown
<1> QED
  BY <1>4, <1>5, <1>7, <1>8 DEF LifeInv

LEMMA WriteMetaKeepsInvariant ==
  ASSUME Id # {}, LifeInv, NEW v \in Visitor, WriteMeta(v)
  PROVE  LifeInv'
<1>1. step' = [step EXCEPT ![v] = "idle"] /\ UNCHANGED <<time, dirs>>
      /\ target' = [target EXCEPT ![v] = NoTarget]
  BY DEF WriteMeta, Goto, Aim
<1>2. \/ /\ lastAccess' = [lastAccess EXCEPT ![target[v]] = time]
         /\ asked' = [asked EXCEPT ![target[v]] = time]
      \/ UNCHANGED <<lastAccess, asked>>
  BY DEF WriteMeta
<1>3. LifeTypes'
  <2>1. NoTarget \in Id
    BY DEF NoTarget
  <2> QED
    BY <1>1, <1>2, <2>1 DEF LifeInv, LifeTypes, VisitorStage
<1>4. AccessIsKnown'
  BY <1>2 DEF LifeInv, LifeTypes, AccessIsKnown
<1>5. \A u \in Visitor : step[u] \in Creating => u = v
  BY DEF WriteMeta, LifeInv, OneCreator, Creating
<1>6. OneCreator' /\ RoomIsKept'
  BY <1>1, <1>5 DEF OneCreator, RoomIsKept, LifeInv, LifeTypes, Creating
<1>7. LimitIsKept'
  BY <1>1 DEF LifeInv, LimitIsKept
<1> QED
  BY <1>3, <1>4, <1>6, <1>7 DEF LifeInv

(* Steps that only move a visitor to a stage outside creations, or all of  *)
(* them to the beginning.                                                  *)
LEMMA OtherStepsKeepInvariant ==
  ASSUME Id # {}, LifeInv,
         \/ \E v \in Visitor : Return(v) \/ CleanUp(v) \/ Cleaned(v)
         \/ \E w \in Id : Unpin(w)
         \/ Restart \/ Tick
  PROVE  LifeInv'
<1>0. NoTarget \in Id
  BY DEF NoTarget
<1>1. ASSUME NEW v \in Visitor, Return(v) PROVE LifeInv'
  <2>1. UNCHANGED <<time, dirs, lastAccess, asked, creator>>
        /\ step' = [step EXCEPT ![v] = "idle"] /\ target' = [target EXCEPT ![v] = NoTarget]
    BY <1>1 DEF Return, Goto, Aim
  <2>2. OneCreator' /\ RoomIsKept'
    BY <2>1 DEF OneCreator, RoomIsKept, LifeInv, LifeTypes, Creating
  <2> QED
    BY <1>0, <2>1, <2>2, DiskUnchanged DEF LifeInv, LifeTypes, VisitorStage
<1>2. ASSUME NEW v \in Visitor, CleanUp(v) \/ Cleaned(v) PROVE LifeInv'
  <2>1. PICK s \in {"cleaning", "idle"} : step' = [step EXCEPT ![v] = s]
    BY <1>2 DEF CleanUp, Cleaned, List, Goto
  <2>2. UNCHANGED <<time, dirs, lastAccess, asked, creator, target>>
    BY <1>2 DEF CleanUp, Cleaned, List, diskVars
  <2>3. OneCreator' /\ RoomIsKept'
    BY <2>1, <2>2 DEF OneCreator, RoomIsKept, LifeInv, LifeTypes, Creating
  <2> QED
    BY <2>1, <2>2, <2>3, DiskUnchanged DEF LifeInv, LifeTypes, VisitorStage
<1>3. ASSUME NEW w \in Id, Unpin(w) PROVE LifeInv'
  BY <1>3, DiskUnchanged DEF Unpin, LifeInv, LifeTypes, OneCreator, RoomIsKept
<1>4. ASSUME Restart PROVE LifeInv'
  <2>1. UNCHANGED <<time, dirs, lastAccess, asked>> /\ step' = [v \in Visitor |-> "idle"]
        /\ target' = [v \in Visitor |-> NoTarget]
    BY <1>4 DEF Restart, diskVars
  <2>2. OneCreator' /\ RoomIsKept'
    BY <2>1 DEF OneCreator, RoomIsKept, Creating
  <2> QED
    BY <1>0, <2>1, <2>2, DiskUnchanged DEF VisitorStage
<1>5. ASSUME Tick PROVE LifeInv'
  BY <1>5 DEF Tick, diskVars, LifeInv, LifeTypes, LimitIsKept, OneCreator, RoomIsKept,
              AccessIsKnown
<1> QED
  BY <1>1, <1>2, <1>3, <1>4, <1>5

LEMMA NextInvariant ==
  ASSUME IsFiniteSet(Id), Id # {}, MaxWorkspaces \in Nat, Nobody \notin Visitor,
         LifeInv, [Next]_lifeVars
  PROVE  LifeInv'
<1>1. ASSUME NEW v \in Visitor, NEW w \in Id, Use(v, w) PROVE LifeInv'
  BY <1>1, UseKeepsInvariant
<1>2. ASSUME NEW v \in Visitor, NEW w \in Id, Delete(v, w) PROVE LifeInv'
  BY <1>2, RemoveKeepsInvariant DEF Delete
<1>3. ASSUME NEW v \in Visitor, NEW w \in Id, Visit(v, w) PROVE LifeInv'
  BY <1>3, VisitKeepsInvariant
<1>4. ASSUME NEW v \in Visitor, BeginCreate(v) PROVE LifeInv'
  BY <1>4, BeginCreateKeepsInvariant
<1>5. ASSUME NEW v \in Visitor, Count(v) PROVE LifeInv'
  BY <1>5, CountKeepsInvariant
<1>6. ASSUME NEW v \in Visitor, MakeDir(v) PROVE LifeInv'
  BY <1>6, MakeDirKeepsInvariant
<1>7. ASSUME NEW v \in Visitor, WriteMeta(v) PROVE LifeInv'
  BY <1>7, WriteMetaKeepsInvariant
<1>8. CASE UNCHANGED lifeVars
  BY <1>8 DEF lifeVars, diskVars, LifeInv, LifeTypes, LimitIsKept, OneCreator, RoomIsKept,
              AccessIsKnown
<1> QED
  BY <1>1, <1>2, <1>3, <1>4, <1>5, <1>6, <1>7, <1>8, OtherStepsKeepInvariant DEF Next

(* A directory only disappears with a workspace that is abandoned, or that *)
(* its owner deletes.                                                      *)
LEMMA StepSparesWorkspacesInUse ==
  ASSUME LifeInv, [Next]_lifeVars, NEW w \in dirs \ dirs'
  PROVE  Abandoned(w) \/ \E v \in Visitor : Delete(v, w)
<1>1. w \in Id /\ (lastAccess[w] # NoMeta => lastAccess[w] = asked[w])
  BY DEF LifeInv, LifeTypes, AccessIsKnown
<1>2. \A u \in Id : Remove(u) => u = w
  BY DEF Remove
<1>3. ASSUME NEW v \in Visitor, NEW u \in Id, Use(v, u) PROVE Abandoned(w)
  BY <1>1, <1>2, <1>3 DEF Use, Abandoned, Expired
<1>4. ASSUME NEW v \in Visitor, NEW u \in Id, Visit(v, u) PROVE Abandoned(w)
  BY <1>1, <1>2, <1>4 DEF Visit, Abandoned, Expired, diskVars
<1>5. ASSUME NEW v \in Visitor, NEW u \in Id, Delete(v, u) PROVE Delete(v, w)
  BY <1>2, <1>5 DEF Delete
<1>6. ASSUME NEW v \in Visitor,
             Return(v) \/ CleanUp(v) \/ Cleaned(v) \/ BeginCreate(v) \/ Count(v) \/ MakeDir(v)
               \/ WriteMeta(v)
      PROVE  FALSE
  BY <1>6 DEF Return, CleanUp, Cleaned, BeginCreate, List, Count, MakeDir, WriteMeta, diskVars
<1>7. ASSUME (\E u \in Id : Unpin(u)) \/ Restart \/ Tick \/ UNCHANGED lifeVars PROVE FALSE
  BY <1>7 DEF Unpin, Restart, Tick, lifeVars, diskVars
<1> QED
  BY <1>3, <1>4, <1>5, <1>6, <1>7 DEF Next

-----------------------------------------------------------------------------
(* The inductive invariant of the life of workspaces.                      *)
THEOREM LifeInvariant == Spec => []LifeInv
<1>1. Init => LifeInv
  BY InitInvariant, IdsAreFinite, LimitIsNat
<1>2. LifeInv /\ [Next]_lifeVars => LifeInv'
  BY NextInvariant, IdsAreFinite, LimitIsNat, NobodyIsNoVisitor
<1> QED
  BY <1>1, <1>2, PTL DEF Spec

(* However many requests create workspaces at once, and whatever a crash   *)
(* leaves behind, the limit on directories is kept (createWorkspace).      *)
THEOREM LimitHolds == Spec => []LimitIsKept
<1>1. LifeInv => LimitIsKept
  BY DEF LifeInv
<1> QED
  BY <1>1, LifeInvariant, PTL

(* No clean-up and no expired request removes a workspace in use           *)
(* (cleanupExpiredWorkspaces, loadWorkspace).                              *)
THEOREM InUseSurvive == Spec => WorkspacesInUseSurvive
<1>1. LifeInv /\ [Next]_lifeVars =>
        [\A w \in dirs \ dirs' : Abandoned(w) \/ \E v \in Visitor : Delete(v, w)]_lifeVars
  BY StepSparesWorkspacesInUse
<1> QED
  BY <1>1, LifeInvariant, PTL DEF Spec, WorkspacesInUseSurvive
-----------------------------------------------------------------------------
(* The download cache.  Where a fetch that writes is.                      *)
Writing == {"write first", "write second", "share first", "share second"}

(* Where a fetch is says what it holds: only offline views and failed      *)
(* fetches reach the shared directory, and who writes has something to     *)
(* write.                                                                  *)
StageOK(w) ==
  /\ answer[w] \in {"fresh", "offline", "fallback", "network"} => stage[w] = "answered"
  /\ mode[w] = "offline" =>
       /\ stage[w] \in {"own body", "own meta", "shared body", "shared meta", "answered"}
       /\ stage[w] # "answered" => answer[w] = "none"
  /\ stage[w] \in {"shared body", "shared meta"} => mode[w] = "offline" \/ answer[w] = "error"
  /\ stage[w] = "idle" => answer[w] = "none"
  /\ stage[w] \in {"own body", "own meta"} /\ mode[w] = "plain" => answer[w] = "error"
  /\ stage[w] \in {"own meta", "shared meta"} => seen[w] # NoFile
  /\ stage[w] \in Writing \cup {"retry"} => got[w] # NoFile

(* The own directory has one writer, and its body is never older than its  *)
(* metadata.                                                               *)
OwnOK(w) ==
  /\ stage[w] = "own meta" => seen[w] = body[w]
  /\ stage[w] = "write second" => body[w] = got[w]
  /\ saved[w] => body[w] # NoFile /\ body[w] = meta[w]
  /\ meta[w] # NoFile => /\ body[w] # NoFile
                         /\ Fetch!Time(meta[w]) <= Fetch!Time(body[w])
                         /\ Fetch!Time(meta[w]) <= now
  /\ stage[w] \in Writing \cup {"retry"} =>
       /\ Fetch!Time(got[w]) <= now
       /\ meta[w] # NoFile => Fetch!Time(meta[w]) <= Fetch!Time(got[w])

(* An offline view of a workspace with a saved copy never leaves its own   *)
(* directory.                                                              *)
OfflineOK(w) ==
  saved[w] /\ mode[w] = "offline" =>
    \/ stage[w] \in {"own body", "own meta"}
    \/ stage[w] = "answered" /\ answer[w] # "error"

(* While nobody writes to the shared directory, what a fetch has read of   *)
(* it is still there.                                                      *)
SharedOK(w) ==
  ~disturbed[w] =>
    /\ stage[w] = "shared meta" => seen[w] = body[Shared]
    /\ stage[w] = "answered" /\ answer[w] = "error" => ~Fetch!WholeCopy(Shared)

(* The inductive invariant says this of every workspace.                   *)
FetchOK(w) == StageOK(w) /\ OwnOK(w) /\ OfflineOK(w) /\ SharedOK(w)

FetchInv == Fetch!TypeOK /\ \A w \in Workspace : FetchOK(w)

(* The types in groups that few steps change together.                     *)
FetchTypes ==
  /\ stage \in [Workspace -> Fetch!Stage]
  /\ mode \in [Workspace -> Fetch!Mode]
  /\ seen \in [Workspace -> Fetch!Download \cup {NoFile}]
  /\ got \in [Workspace -> Fetch!Download \cup {NoFile}]
  /\ answer \in [Workspace -> Fetch!Kind]

FileTypes ==
  /\ body \in [Fetch!Dir -> Fetch!Download \cup {NoFile}]
  /\ meta \in [Fetch!Dir -> Fetch!Download \cup {NoFile}]
  /\ disturbed \in [Workspace -> BOOLEAN]

OtherTypes ==
  /\ now \in 0 .. MaxTime /\ mishaps \in 0 .. MaxMishaps
  /\ downloads \subseteq Fetch!Download
  /\ saved \in [Workspace -> BOOLEAN]

LEMMA FetchTypesSplit == Fetch!TypeOK <=> FetchTypes /\ FileTypes /\ OtherTypes
BY DEF Fetch!TypeOK, FetchTypes, FileTypes, OtherTypes

(* Every step keeps the types.                                             *)
LEMMA AnswerTypes ==
  ASSUME FetchTypes, NEW w \in Workspace, NEW kind \in Fetch!Kind,
         NEW d \in Fetch!Download \cup {NoFile},
         Fetch!Answer(w, kind, d)
  PROVE  FetchTypes'
<1>1. "answered" \in Fetch!Stage
  BY DEF Fetch!Stage
<1> QED
  BY <1>1 DEF FetchTypes, Fetch!Answer, Fetch!Goto

LEMMA MissTypes ==
  ASSUME FetchTypes, NEW w \in Workspace, NEW d, Fetch!Miss(w, d)
  PROVE  FetchTypes'
<1>1. CASE d = Fetch!Own(w)
  <2>1. {"network", "shared body"} \subseteq Fetch!Stage
    BY DEF Fetch!Stage
  <2> QED
    BY <1>1, <2>1 DEF FetchTypes, Fetch!Miss, Fetch!AfterOwnMiss, Fetch!Goto
<1>2. CASE d # Fetch!Own(w)
  <2>1. "error" \in Fetch!Kind
    BY DEF Fetch!Kind
  <2>2. Fetch!Answer(w, "error", NoFile)
    BY <1>2 DEF Fetch!Miss
  <2> QED
    BY <2>1, <2>2, AnswerTypes
<1> QED
  BY <1>1, <1>2

LEMMA FetchTypeStep == Fetch!TypeOK /\ [Fetch!Next]_(Fetch!vars) => FetchTypes'
<1> SUFFICES ASSUME FetchTypes, Fetch!TypeOK, [Fetch!Next]_(Fetch!vars)  PROVE FetchTypes'
  BY FetchTypesSplit
<1>1. ASSUME NEW w \in Workspace, NEW m \in Fetch!Mode, Fetch!Fetch(w, m)  PROVE FetchTypes'
  <2>1. {"network", "own body"} \subseteq Fetch!Stage
    BY DEF Fetch!Stage
  <2> QED
    BY <1>1, <2>1 DEF Fetch!Fetch, Fetch!Goto, FetchTypes
<1>2. ASSUME NEW w \in Workspace, NEW d \in {Fetch!Own(w), Shared}, Fetch!ReadBody(w, d)
      PROVE  FetchTypes'
  <2>1. {"own meta", "shared meta"} \subseteq Fetch!Stage
    BY DEF Fetch!Stage
  <2>2. body[d] \in Fetch!Download \cup {NoFile}
    BY DEF Fetch!Own, Fetch!Dir, Fetch!TypeOK
  <2> QED
    BY <1>2, <2>1, <2>2, MissTypes DEF Fetch!ReadBody, Fetch!Goto, FetchTypes
<1>3. ASSUME NEW w \in Workspace, NEW d \in {Fetch!Own(w), Shared}, Fetch!ReadMeta(w, d)
      PROVE  FetchTypes'
  <2>1. {"fresh", "offline", "fallback"} \subseteq Fetch!Kind
    BY DEF Fetch!Kind
  <2>2. seen[w] \in Fetch!Download \cup {NoFile}
    BY DEF FetchTypes
  <2> QED
    BY <1>3, <2>1, <2>2, MissTypes, AnswerTypes DEF Fetch!ReadMeta, Fetch!Hit
<1>4. ASSUME NEW w \in Workspace, Fetch!WriteOwn(w) \/ Fetch!WriteShared(w)  PROVE FetchTypes'
  <2>1. /\ {"write second", "share first", "share second"} \subseteq Fetch!Stage
        /\ "network" \in Fetch!Kind
    BY DEF Fetch!Stage, Fetch!Kind
  <2>2. got[w] \in Fetch!Download \cup {NoFile}
    BY DEF FetchTypes
  <2>3. CASE Fetch!Answer(w, "network", got[w])
    BY <2>1, <2>2, <2>3, AnswerTypes
  <2>4. CASE UNCHANGED <<mode, seen, got, answer>> /\ \E s \in Fetch!Stage : Fetch!Goto(w, s)
    BY <2>4 DEF Fetch!Goto, FetchTypes
  <2> QED
    BY <1>4, <2>1, <2>3, <2>4 DEF Fetch!WriteOwn, Fetch!WriteShared
<1>6. ASSUME NEW w \in Workspace, Fetch!Return(w)  PROVE FetchTypes'
  <2>1. "idle" \in Fetch!Stage /\ "none" \in Fetch!Kind /\ "plain" \in Fetch!Mode
    BY DEF Fetch!Stage, Fetch!Kind, Fetch!Mode
  <2> QED
    BY <1>6, <2>1 DEF Fetch!Return, Fetch!Goto, FetchTypes
<1>7. ASSUME NEW w \in Workspace, Fetch!NetworkFails(w)  PROVE FetchTypes'
  <2>1. "own body" \in Fetch!Stage /\ "error" \in Fetch!Kind
    BY DEF Fetch!Stage, Fetch!Kind
  <2> QED
    BY <1>7, <2>1 DEF Fetch!NetworkFails, Fetch!Goto, FetchTypes
<1>8. ASSUME NEW w \in Workspace, Fetch!NetworkAnswers(w) \/ Fetch!RetryAsGenericClient(w)
      PROVE  FetchTypes'
  <2>1. {"write first", "retry"} \subseteq Fetch!Stage
    BY DEF Fetch!Stage
  <2>2. \A size \in 1 .. MaxBody, n \in 1 .. MaxDownloads : <<size, now, n>> \in Fetch!Download
    BY DEF Fetch!TypeOK, Fetch!Download
  <2>3. got' \in [Workspace -> Fetch!Download \cup {NoFile}]
    <3>1. UNCHANGED got \/ \E size \in 1 .. MaxBody, n \in 1 .. MaxDownloads :
                             got' = [got EXCEPT ![w] = <<size, now, n>>]
      BY <1>8, Zenon DEF Fetch!NetworkAnswers, Fetch!RetryAsGenericClient
    <3> QED
      BY <3>1, <2>2 DEF FetchTypes
  <2> QED
    BY <1>8, <2>1, <2>3 DEF Fetch!NetworkAnswers, Fetch!RetryAsGenericClient, Fetch!Goto, FetchTypes
<1>10. ASSUME NEW w \in Workspace, Fetch!WriteFails(w)  PROVE FetchTypes'
  <2>1. "network" \in Fetch!Kind /\ got[w] \in Fetch!Download \cup {NoFile}
    BY DEF Fetch!Kind, FetchTypes
  <2> QED
    BY <1>10, <2>1, AnswerTypes DEF Fetch!WriteFails
<1>11. CASE Fetch!Crash
  <2>1. "idle" \in Fetch!Stage /\ "none" \in Fetch!Kind /\ "plain" \in Fetch!Mode
    BY DEF Fetch!Stage, Fetch!Kind, Fetch!Mode
  <2> QED
    BY <1>11, <2>1 DEF Fetch!Crash, FetchTypes
<1>12. CASE Fetch!Tick \/ UNCHANGED Fetch!vars
  BY <1>12 DEF Fetch!Tick, Fetch!vars, Fetch!fetchVars, FetchTypes
<1> QED
  BY <1>1, <1>2, <1>3, <1>4, <1>6, <1>7, <1>8, <1>10, <1>11, <1>12 DEF Fetch!Next

LEMMA FileTypeStep == Fetch!TypeOK /\ [Fetch!Next]_(Fetch!vars) => FileTypes'
<1> SUFFICES ASSUME FetchTypes, FileTypes, [Fetch!Next]_(Fetch!vars)  PROVE FileTypes'
  BY FetchTypesSplit
<1>1. ASSUME NEW w \in Workspace, NEW d \in Fetch!Dir, NEW file, Fetch!Write(d, file, got[w])
      PROVE  FileTypes'
  BY <1>1 DEF Fetch!Write, FetchTypes, FileTypes
<1>2. ASSUME NEW w \in Workspace, Fetch!WriteOwn(w) \/ Fetch!WriteShared(w)  PROVE FileTypes'
  <2>1. Fetch!Own(w) \in Fetch!Dir /\ Shared \in Fetch!Dir
    BY DEF Fetch!Own, Fetch!Dir
  <2>2. \E d \in Fetch!Dir, file \in {"body", "meta"} : Fetch!Write(d, file, got[w])
    BY <1>2, <2>1 DEF Fetch!WriteOwn, Fetch!WriteShared, Fetch!WriteOrder
  <2> QED
    BY <2>2, <1>1
<1>3. CASE Fetch!Crash
  BY <1>3 DEF Fetch!Crash, FileTypes, Fetch!cacheVars
<1>4. ASSUME NEW w \in Workspace, Fetch!Return(w)  PROVE FileTypes'
  BY <1>4 DEF Fetch!Return, FileTypes, Fetch!cacheVars
<1>5. CASE UNCHANGED <<Fetch!cacheVars, disturbed>>
  BY <1>5 DEF FileTypes, Fetch!cacheVars
<1> QED
  BY <1>2, <1>3, <1>4, <1>5 DEF Fetch!Next, Fetch!Fetch, Fetch!ReadBody, Fetch!ReadMeta,
     Fetch!NetworkFails, Fetch!NetworkAnswers,
     Fetch!RetryAsGenericClient, Fetch!WriteFails, Fetch!Tick, Fetch!vars

LEMMA OtherTypeStep == Fetch!TypeOK /\ [Fetch!Next]_(Fetch!vars) => OtherTypes'
<1> SUFFICES ASSUME OtherTypes, [Fetch!Next]_(Fetch!vars)  PROVE OtherTypes'
  BY FetchTypesSplit
<1>1. now' \in 0 .. MaxTime
  <2>1. CASE Fetch!Tick
    BY <2>1, FetchAssumption DEF Fetch!Tick, OtherTypes
  <2>2. CASE UNCHANGED now
    BY <2>2 DEF OtherTypes
  <2> QED
    BY <2>1, <2>2 DEF Fetch!Next, Fetch!vars, Fetch!Fetch, Fetch!ReadBody, Fetch!ReadMeta,
       Fetch!WriteOwn, Fetch!WriteShared, Fetch!Return,
       Fetch!NetworkFails, Fetch!NetworkAnswers, Fetch!RetryAsGenericClient, Fetch!WriteFails,
       Fetch!Crash
<1>2. mishaps' \in 0 .. MaxMishaps
  <2>1. CASE mishaps < MaxMishaps /\ mishaps' = mishaps + 1
    BY <2>1, FetchAssumption DEF OtherTypes
  <2>2. CASE UNCHANGED mishaps
    BY <2>2 DEF OtherTypes
  <2>3. CASE Fetch!Crash \/ \E w \in Workspace : Fetch!WriteFails(w)
    BY <2>1, <2>3 DEF Fetch!Crash, Fetch!WriteFails
  <2>4. CASE ~(Fetch!Crash \/ \E w \in Workspace : Fetch!WriteFails(w))
    BY <2>2, <2>4 DEF Fetch!Next, Fetch!vars, Fetch!Fetch, Fetch!ReadBody, Fetch!ReadMeta,
       Fetch!WriteOwn, Fetch!WriteShared, Fetch!Return,
       Fetch!NetworkFails, Fetch!NetworkAnswers, Fetch!RetryAsGenericClient, Fetch!Tick
  <2> QED
    BY <2>3, <2>4
<1>3. downloads' \subseteq Fetch!Download
  <2>1. UNCHANGED downloads \/ \E size \in 1 .. MaxBody, n \in 1 .. MaxDownloads :
                                 downloads' = downloads \cup {<<size, now, n>>}
    BY DEF Fetch!Next, Fetch!vars, Fetch!Fetch, Fetch!ReadBody, Fetch!ReadMeta, Fetch!WriteOwn,
       Fetch!WriteShared, Fetch!Return,
       Fetch!NetworkFails, Fetch!NetworkAnswers, Fetch!RetryAsGenericClient, Fetch!WriteFails,
       Fetch!Crash, Fetch!Tick
  <2> QED
    BY <2>1 DEF OtherTypes, Fetch!Download
<1>4. saved' \in [Workspace -> BOOLEAN]
  <2>1. UNCHANGED saved \/ \E w \in Workspace : \E b \in BOOLEAN :
                             saved' = [saved EXCEPT ![w] = b]
    BY DEF Fetch!Next, Fetch!vars, Fetch!Fetch, Fetch!ReadBody, Fetch!ReadMeta, Fetch!WriteOwn,
       Fetch!WriteShared, Fetch!Return,
       Fetch!NetworkFails, Fetch!NetworkAnswers, Fetch!RetryAsGenericClient, Fetch!WriteFails,
       Fetch!Crash, Fetch!Tick
  <2> QED
    BY <2>1 DEF OtherTypes
<1> QED
  BY <1>1, <1>2, <1>3, <1>4 DEF OtherTypes

LEMMA FetchTypesKept == Fetch!TypeOK /\ [Fetch!Next]_(Fetch!vars) => Fetch!TypeOK'
BY FetchTypeStep, FileTypeStep, OtherTypeStep DEF Fetch!TypeOK, FetchTypes, FileTypes, OtherTypes

(* What one workspace does.                                                *)
FetchStep(w) ==
  \/ \E m \in Fetch!Mode : Fetch!Fetch(w, m)
  \/ \E d \in {Fetch!Own(w), Shared} : Fetch!ReadBody(w, d) \/ Fetch!ReadMeta(w, d)
  \/ Fetch!WriteOwn(w) \/ Fetch!WriteShared(w)
  \/ Fetch!Return(w) \/ Fetch!NetworkFails(w) \/ Fetch!NetworkAnswers(w)
  \/ Fetch!RetryAsGenericClient(w) \/ Fetch!WriteFails(w)

LEMMA FetchSteps == Fetch!Next <=> (\E w \in Workspace : FetchStep(w)) \/ Fetch!Crash \/ Fetch!Tick
BY DEF Fetch!Next, FetchStep

(* A step of a workspace changes the clock and the fetch of no other.      *)
LEMMA FetchAlone ==
  ASSUME Fetch!TypeOK, NEW w \in Workspace, FetchStep(w), NEW v \in Workspace, v # w
  PROVE  /\ stage'[v] = stage[v] /\ mode'[v] = mode[v] /\ seen'[v] = seen[v]
         /\ got'[v] = got[v] /\ answer'[v] = answer[v] /\ saved'[v] = saved[v]
         /\ now' = now
<1>0. FetchTypes /\ saved \in [Workspace -> BOOLEAN]
  BY FetchTypesSplit DEF OtherTypes
<1>a. ASSUME NEW kind, NEW d, Fetch!Answer(w, kind, d)
      PROVE  /\ stage'[v] = stage[v] /\ mode'[v] = mode[v] /\ seen'[v] = seen[v]
             /\ got'[v] = got[v] /\ answer'[v] = answer[v]
  BY <1>0, <1>a DEF Fetch!Answer, Fetch!Goto, FetchTypes
<1>b. ASSUME NEW d, Fetch!Miss(w, d)
      PROVE  /\ stage'[v] = stage[v] /\ mode'[v] = mode[v] /\ seen'[v] = seen[v]
             /\ got'[v] = got[v] /\ answer'[v] = answer[v]
  BY <1>0, <1>a, <1>b DEF Fetch!Miss, Fetch!AfterOwnMiss, Fetch!Goto, FetchTypes
<1>1. ASSUME NEW m \in Fetch!Mode, Fetch!Fetch(w, m)
      PROVE  /\ stage'[v] = stage[v] /\ mode'[v] = mode[v] /\ seen'[v] = seen[v]
             /\ got'[v] = got[v] /\ answer'[v] = answer[v] /\ saved'[v] = saved[v]
             /\ now' = now
  BY <1>0, <1>1 DEF Fetch!Fetch, Fetch!Goto, FetchTypes
<1>2. ASSUME NEW d \in {Fetch!Own(w), Shared}, Fetch!ReadBody(w, d)
      PROVE  /\ stage'[v] = stage[v] /\ mode'[v] = mode[v] /\ seen'[v] = seen[v]
             /\ got'[v] = got[v] /\ answer'[v] = answer[v] /\ saved'[v] = saved[v]
             /\ now' = now
  BY <1>0, <1>b, <1>2 DEF Fetch!ReadBody, Fetch!Goto, FetchTypes
<1>3. ASSUME NEW d \in {Fetch!Own(w), Shared}, Fetch!ReadMeta(w, d)
      PROVE  /\ stage'[v] = stage[v] /\ mode'[v] = mode[v] /\ seen'[v] = seen[v]
             /\ got'[v] = got[v] /\ answer'[v] = answer[v] /\ saved'[v] = saved[v]
             /\ now' = now
  BY <1>0, <1>a, <1>b, <1>3 DEF Fetch!ReadMeta, Fetch!Hit
<1>4. ASSUME Fetch!WriteOwn(w) \/ Fetch!WriteShared(w) \/ Fetch!WriteFails(w)
      PROVE  /\ stage'[v] = stage[v] /\ mode'[v] = mode[v] /\ seen'[v] = seen[v]
             /\ got'[v] = got[v] /\ answer'[v] = answer[v] /\ saved'[v] = saved[v]
             /\ now' = now
  BY <1>0, <1>a, <1>4 DEF Fetch!WriteOwn, Fetch!WriteShared, Fetch!WriteFails, Fetch!Goto,
     FetchTypes
<1>5. ASSUME \/ Fetch!Return(w) \/ Fetch!NetworkFails(w) \/ Fetch!NetworkAnswers(w)
             \/ Fetch!RetryAsGenericClient(w)
      PROVE  /\ stage'[v] = stage[v] /\ mode'[v] = mode[v] /\ seen'[v] = seen[v]
             /\ got'[v] = got[v] /\ answer'[v] = answer[v] /\ saved'[v] = saved[v]
             /\ now' = now
  BY <1>0, <1>5 DEF Fetch!Return, Fetch!NetworkFails, Fetch!NetworkAnswers,
     Fetch!RetryAsGenericClient, Fetch!Goto, FetchTypes
<1> QED
  BY <1>1, <1>2, <1>3, <1>4, <1>5 DEF FetchStep

(* Nor does it touch the directory of another workspace; when it writes to *)
(* the shared one, every fetch under way is disturbed.                     *)
LEMMA FilesAlone ==
  ASSUME Fetch!TypeOK, NEW w \in Workspace, FetchStep(w), NEW v \in Workspace
  PROVE  /\ v # w => body'[v] = body[v] /\ meta'[v] = meta[v]
         /\ \/ body'[Shared] = body[Shared] /\ meta'[Shared] = meta[Shared]
            \/ stage[v] # "idle" => disturbed'[v]
         /\ v # w /\ disturbed[v] => disturbed'[v]
<1>0. FileTypes /\ Fetch!Own(w) = w /\ Shared \notin Workspace
  BY FetchTypesSplit, FetchAssumption DEF Fetch!Own
<1>1. ASSUME NEW d \in Fetch!Dir, d \in {w, Shared}, NEW file, NEW download, Fetch!Write(d, file,
             download)
      PROVE  /\ v # w => body'[v] = body[v] /\ meta'[v] = meta[v]
             /\ \/ body'[Shared] = body[Shared] /\ meta'[Shared] = meta[Shared]
                \/ stage[v] # "idle" => disturbed'[v]
             /\ disturbed[v] => disturbed'[v]
  BY <1>0, <1>1 DEF Fetch!Write, FileTypes, Fetch!Dir
<1>2. CASE Fetch!WriteOwn(w)
  BY <1>0, <1>1, <1>2 DEF Fetch!WriteOwn, Fetch!Dir
<1>3. CASE Fetch!WriteShared(w)
  BY <1>0, <1>1, <1>3 DEF Fetch!WriteShared, Fetch!Dir
<1>4. CASE Fetch!Return(w)
  BY <1>0, <1>4 DEF Fetch!Return, Fetch!cacheVars, FileTypes
<1>5. CASE UNCHANGED <<Fetch!cacheVars, disturbed>>
  BY <1>5 DEF Fetch!cacheVars
<1> QED
  BY <1>2, <1>3, <1>4, <1>5 DEF FetchStep, Fetch!Fetch, Fetch!ReadBody, Fetch!ReadMeta,
     Fetch!NetworkFails,
     Fetch!NetworkAnswers, Fetch!RetryAsGenericClient, Fetch!WriteFails

(* So it keeps the invariant of the others.                                *)
LEMMA OtherFetchesStayOK ==
  ASSUME Fetch!TypeOK, NEW w \in Workspace, FetchStep(w), NEW v \in Workspace, v # w, FetchOK(v)
  PROVE  FetchOK(v)'
<1> USE FetchAlone, FilesAlone
<1>1. StageOK(v)'
  BY DEF FetchOK, StageOK
<1>2. OwnOK(v)'
  BY DEF FetchOK, OwnOK
<1>3. OfflineOK(v)'
  BY DEF FetchOK, OfflineOK
<1>4. SharedOK(v)'
  BY DEF FetchOK, SharedOK, Fetch!WholeCopy
<1> QED
  BY <1>1, <1>2, <1>3, <1>4 DEF FetchOK

(* What an answer needs in order to be right: nothing is looked for any    *)
(* more, an error has nothing to hide.                                     *)
LEMMA AnswerStaysOK ==
  ASSUME Fetch!TypeOK, NEW w \in Workspace, FetchOK(w), NEW kind \in Fetch!Kind,
         NEW d \in Fetch!Download \cup {NoFile}, Fetch!Answer(w, kind, d),
         UNCHANGED <<now, Fetch!cacheVars, saved>>, disturbed'[w] = disturbed[w],
         kind = "error" => /\ ~(saved[w] /\ mode[w] = "offline")
                           /\ disturbed[w] \/ ~Fetch!WholeCopy(Shared)
  PROVE  FetchOK(w)'
<1>0. FetchTypes
  BY FetchTypesSplit
<1>1. /\ stage'[w] = "answered" /\ answer'[w] = kind /\ got'[w] = d /\ mode'[w] = mode[w]
      /\ now' = now /\ saved'[w] = saved[w] /\ body' = body /\ meta' = meta
  BY <1>0 DEF Fetch!Answer, Fetch!Goto, FetchTypes, Fetch!cacheVars
<1>2. StageOK(w)'
  BY <1>1 DEF StageOK, Writing
<1>3. OwnOK(w)'
  BY <1>1 DEF OwnOK, Writing, FetchOK
<1>4. OfflineOK(w)'
  BY <1>1 DEF OfflineOK
<1>5. SharedOK(w)'
  BY <1>1 DEF SharedOK, Fetch!WholeCopy
<1> QED
  BY <1>2, <1>3, <1>4, <1>5 DEF FetchOK

(* A fetch may only miss a directory where it has nothing to find.         *)
LEMMA MissStaysOK ==
  ASSUME Fetch!TypeOK, NEW w \in Workspace, FetchOK(w), NEW d \in {w, Shared}, Fetch!Miss(w, d),
         UNCHANGED <<now, Fetch!cacheVars, saved, disturbed>>,
         d = w => stage[w] \in {"own body", "own meta"} /\ ~(saved[w] /\ mode[w] = "offline"),
         d = Shared => /\ ~(saved[w] /\ mode[w] = "offline")
                       /\ disturbed[w] \/ ~Fetch!WholeCopy(Shared)
  PROVE  FetchOK(w)'
<1>0. FetchTypes /\ Fetch!Own(w) = w /\ Shared # w
  BY FetchTypesSplit, FetchAssumption DEF Fetch!Own
<1>1. CASE d = Shared
  <2>1. Fetch!Answer(w, "error", NoFile) /\ "error" \in Fetch!Kind
    BY <1>0, <1>1 DEF Fetch!Miss, Fetch!Kind
  <2> QED
    BY <2>1, <1>1, AnswerStaysOK
<1>2. CASE d = w
  <2>1. /\ stage'[w] = IF mode[w] = "ttl" /\ answer[w] = "none" THEN "network" ELSE "shared body"
        /\ mode' = mode /\ got' = got /\ answer' = answer
        /\ now' = now /\ saved' = saved /\ body' = body /\ meta' = meta /\ disturbed' = disturbed
    BY <1>0, <1>2 DEF Fetch!Miss, Fetch!AfterOwnMiss, Fetch!Goto, FetchTypes, Fetch!cacheVars
  <2>2. answer[w] \in {"none", "error"} /\ (mode[w] = "plain" => answer[w] = "error")
    BY <1>0, <1>2 DEF FetchOK, StageOK, FetchTypes, Fetch!Kind
  <2>3. StageOK(w)'
    BY <2>1, <2>2, <1>0, <1>2 DEF FetchOK, StageOK, Writing, FetchTypes, Fetch!Mode
  <2>4. OwnOK(w)'
    BY <2>1, <1>2 DEF OwnOK, Writing, FetchOK
  <2>5. OfflineOK(w)'
    BY <2>1, <1>2 DEF OfflineOK
  <2>6. SharedOK(w)'
    BY <2>1, <1>2 DEF SharedOK
  <2> QED
    BY <2>3, <2>4, <2>5, <2>6 DEF FetchOK
<1> QED
  BY <1>1, <1>2

(* Reading a body, and the steps of a write.                               *)
LEMMA ReadBodyStaysOK ==
  ASSUME Fetch!TypeOK, NEW w \in Workspace, FetchOK(w), NEW d \in {w, Shared}, Fetch!ReadBody(w, d)
  PROVE  FetchOK(w)'
<1>0. FetchTypes /\ Fetch!Own(w) = w /\ Shared # w
  BY FetchTypesSplit, FetchAssumption DEF Fetch!Own
<1>1. CASE body[d] = NoFile
  <2>1. Fetch!Miss(w, d) /\ UNCHANGED <<now, Fetch!cacheVars, saved, disturbed>>
    BY <1>1 DEF Fetch!ReadBody
  <2>2. d = w => stage[w] = "own body" /\ ~(saved[w] /\ mode[w] = "offline")
    BY <1>0, <1>1 DEF Fetch!ReadBody, FetchOK, OwnOK
  <2>3. d = Shared => /\ ~(saved[w] /\ mode[w] = "offline")
                      /\ disturbed[w] \/ ~Fetch!WholeCopy(Shared)
    BY <1>0, <1>1 DEF Fetch!ReadBody, FetchOK, OfflineOK, Fetch!WholeCopy
  <2> QED
    BY <2>1, <2>2, <2>3, MissStaysOK
<1>2. CASE body[d] # NoFile
  <2>1. /\ stage[w] = IF d = w THEN "own body" ELSE "shared body"
        /\ stage'[w] = IF d = w THEN "own meta" ELSE "shared meta"
        /\ seen'[w] = body[d]
        /\ mode' = mode /\ got' = got /\ answer' = answer
        /\ now' = now /\ saved' = saved /\ body' = body /\ meta' = meta /\ disturbed' = disturbed
    BY <1>0, <1>2 DEF Fetch!ReadBody, Fetch!Goto, FetchTypes, Fetch!cacheVars
  <2>2. StageOK(w)'
    BY <2>1, <1>0, <1>2 DEF FetchOK, StageOK, Writing
  <2>3. OwnOK(w)'
    BY <2>1, <1>0 DEF OwnOK, Writing, FetchOK
  <2>4. OfflineOK(w)'
    BY <2>1 DEF OfflineOK, FetchOK
  <2>5. SharedOK(w)'
    BY <2>1, <1>0 DEF SharedOK
  <2> QED
    BY <2>2, <2>3, <2>4, <2>5 DEF FetchOK
<1> QED
  BY <1>1, <1>2

(* A copy that was saved matches, so that an offline view finds it; a      *)
(* whole shared copy matches unless it changed after its body was read.    *)
LEMMA ReadMetaStaysOK ==
  ASSUME Fetch!TypeOK, NEW w \in Workspace, FetchOK(w), NEW d \in {w, Shared}, Fetch!ReadMeta(w, d)
  PROVE  FetchOK(w)'
<1>0. FetchTypes /\ Fetch!Own(w) = w /\ Shared # w
  BY FetchTypesSplit, FetchAssumption DEF Fetch!Own
<1>1. /\ stage[w] = IF d = w THEN "own meta" ELSE "shared meta"
      /\ UNCHANGED <<now, Fetch!cacheVars, saved, disturbed>>
  BY <1>0 DEF Fetch!ReadMeta
<1>2. seen[w] \in Fetch!Download \cup {NoFile}
  BY <1>0 DEF FetchTypes
<1>3. ASSUME NEW kind \in {"fresh", "offline", "fallback"}, Fetch!Answer(w, kind, seen[w])
      PROVE  FetchOK(w)'
  <2>1. kind \in Fetch!Kind /\ kind # "error"
    BY DEF Fetch!Kind
  <2> QED
    BY <1>1, <1>2, <1>3, <2>1, AnswerStaysOK
<1>4. ASSUME Fetch!Miss(w, d), ~(meta[d] # NoFile /\ Fetch!Matches(seen[w], meta[d]))
      PROVE  FetchOK(w)'
  <2>2. d = w => stage[w] = "own meta" /\ ~(saved[w] /\ mode[w] = "offline")
    BY <1>0, <1>1, <1>4 DEF FetchOK, OwnOK, Fetch!Matches
  <2>3. d = Shared => /\ ~(saved[w] /\ mode[w] = "offline")
                      /\ disturbed[w] \/ ~Fetch!WholeCopy(Shared)
    BY <1>0, <1>1, <1>4 DEF FetchOK, OfflineOK, SharedOK, Fetch!WholeCopy, Fetch!Matches
  <2> QED
    BY <1>1, <1>4, <2>2, <2>3, MissStaysOK
<1>5. ASSUME Fetch!Miss(w, d), mode[w] # "offline", answer[w] # "error"
      PROVE  FetchOK(w)'
  <2>1. d = w /\ stage[w] = "own meta"
    BY <1>0, <1>1, <1>5 DEF FetchOK, StageOK
  <2> QED
    BY <1>0, <1>1, <1>5, <2>1, MissStaysOK
<1> QED
  BY <1>3, <1>4, <1>5 DEF Fetch!ReadMeta, Fetch!Hit

LEMMA TimesAreNumbers ==
  ASSUME Fetch!TypeOK
  PROVE  /\ now \in Int /\ \A d \in Fetch!Download : Fetch!Time(d) \in Int
         /\ \A size \in 1 .. MaxBody, n \in 1 .. MaxDownloads :
              <<size, now, n>> \in Fetch!Download /\ Fetch!Time(<<size, now, n>>) = now
BY DEF Fetch!TypeOK, Fetch!Download, Fetch!Time

LEMMA WriteStaysOK ==
  ASSUME Fetch!TypeOK, NEW w \in Workspace, FetchOK(w),
         Fetch!WriteOwn(w) \/ Fetch!WriteShared(w) \/ Fetch!WriteFails(w)
  PROVE  FetchOK(w)'
<1>0. /\ FetchTypes /\ FileTypes /\ saved \in [Workspace -> BOOLEAN]
      /\ Fetch!Own(w) = w /\ Shared # w /\ w \in Fetch!Dir /\ Shared \in Fetch!Dir
      /\ got[w] \in Fetch!Download \cup {NoFile} /\ stage[w] \in Writing
      /\ Fetch!WriteOrder[1] = "body" /\ Fetch!WriteOrder[2] = "meta"
  BY FetchTypesSplit, FetchAssumption DEF Fetch!Own, Fetch!Dir, FetchTypes, Writing,
     Fetch!WriteOwn, Fetch!WriteShared,
     Fetch!WriteFails, OtherTypes, Fetch!WriteOrder
<1>a. got[w] \in Fetch!Download /\ Fetch!Time(got[w]) \in Int /\ Fetch!Time(got[w]) <= now
  BY <1>0, TimesAreNumbers DEF FetchOK, StageOK, OwnOK
<1>b. answer[w] \in {"none", "error"} /\ mode[w] # "offline"
  BY <1>0 DEF FetchOK, StageOK, FetchTypes, Fetch!Kind, Writing
<1>1. ASSUME NEW s \in Writing, Fetch!Goto(w, s), UNCHANGED <<now, mode, seen, got, answer>>
      PROVE  /\ stage'[w] = s /\ mode' = mode /\ got' = got /\ answer' = answer /\ now' = now
             /\ StageOK(w)' /\ OfflineOK(w)' /\ SharedOK(w)'
  <2>1. stage'[w] = s /\ mode' = mode /\ got' = got /\ answer' = answer /\ now' = now
    BY <1>0, <1>1 DEF Fetch!Goto, FetchTypes
  <2>2. StageOK(w)'
    BY <2>1, <1>a, <1>b, FetchAssumption DEF StageOK, Writing
  <2>3. OfflineOK(w)'
    BY <2>1, <1>b DEF OfflineOK
  <2>4. SharedOK(w)'
    BY <2>1 DEF SharedOK, Writing
  <2> QED
    BY <2>1, <2>2, <2>3, <2>4
<1>2. CASE Fetch!WriteOwn(w) /\ stage[w] = "write first"
  <2>1. body'[w] = got[w] /\ meta'[w] = meta[w] /\ saved'[w] = FALSE
    BY <1>0, <1>2 DEF Fetch!WriteOwn, Fetch!Write, FileTypes
  <2>2. /\ Fetch!Goto(w, "write second") /\ "write second" \in Writing
        /\ UNCHANGED <<now, mode, seen, got, answer>>
    BY <1>2 DEF Fetch!WriteOwn, Writing
  <2>3. OwnOK(w)'
    BY <1>1, <2>1, <2>2, <1>0, <1>a, FetchAssumption DEF OwnOK, FetchOK, Writing
  <2> QED
    BY <1>1, <2>2, <2>3 DEF FetchOK
<1>3. CASE Fetch!WriteOwn(w) /\ stage[w] = "write second"
  <2>1. body'[w] = got[w] /\ meta'[w] = got[w] /\ saved'[w] = TRUE
    BY <1>0, <1>3 DEF Fetch!WriteOwn, Fetch!Write, FileTypes, FetchOK, OwnOK
  <2>2. /\ Fetch!Goto(w, "share first") /\ "share first" \in Writing
        /\ UNCHANGED <<now, mode, seen, got, answer>>
    BY <1>3 DEF Fetch!WriteOwn, Writing
  <2>3. OwnOK(w)'
    <3>1. /\ stage'[w] = "share first" /\ got' = got /\ now' = now
      BY <1>1, <2>2
    <3>2. got[w] # NoFile /\ Fetch!Time(got[w]) <= Fetch!Time(got[w]) /\ Fetch!Time(got[w]) <= now
      BY <1>a, FetchAssumption
    <3> QED
      BY <3>1, <3>2, <2>1 DEF OwnOK, Writing
  <2> QED
    BY <1>1, <2>2, <2>3 DEF FetchOK
<1>4. CASE Fetch!WriteShared(w) /\ stage[w] = "share first"
  <2>1. body'[w] = body[w] /\ meta'[w] = meta[w] /\ saved'[w] = saved[w]
    BY <1>0, <1>4 DEF Fetch!WriteShared, Fetch!Write, FileTypes
  <2>2. /\ Fetch!Goto(w, "share second") /\ "share second" \in Writing
        /\ UNCHANGED <<now, mode, seen, got, answer>>
    BY <1>4 DEF Fetch!WriteShared, Writing
  <2>3. OwnOK(w)'
    BY <1>1, <2>1, <2>2, <1>0 DEF OwnOK, FetchOK, Writing
  <2> QED
    BY <1>1, <2>2, <2>3 DEF FetchOK
<1>5. CASE Fetch!WriteShared(w) /\ stage[w] = "share second"
  <2>1. body'[w] = body[w] /\ meta'[w] = meta[w] /\ saved'[w] = saved[w] /\ now' = now
    BY <1>0, <1>5 DEF Fetch!WriteShared, Fetch!Write, FileTypes
  <2>2. /\ stage'[w] = "answered" /\ answer'[w] = "network" /\ got'[w] = got[w]
        /\ mode'[w] = mode[w]
    BY <1>0, <1>5 DEF Fetch!WriteShared, Fetch!Answer, Fetch!Goto, FetchTypes
  <2>3. StageOK(w)' /\ OwnOK(w)'
    BY <2>1, <2>2 DEF StageOK, OwnOK, FetchOK, Writing
  <2>4. OfflineOK(w)' /\ SharedOK(w)'
    BY <2>2 DEF OfflineOK, SharedOK
  <2> QED
    BY <2>3, <2>4 DEF FetchOK
<1>6. CASE Fetch!WriteFails(w)
  <2>1. "network" \in Fetch!Kind
    BY DEF Fetch!Kind
  <2> QED
    BY <1>0, <1>6, <2>1, AnswerStaysOK DEF Fetch!WriteFails
<1> QED
  BY <1>2, <1>3, <1>4, <1>5, <1>6 DEF Fetch!WriteOwn, Fetch!WriteShared

(* The steps that touch no file.                                           *)
LEMMA NetworkStaysOK ==
  ASSUME Fetch!TypeOK, NEW w \in Workspace, FetchOK(w),
         \/ \E m \in Fetch!Mode : Fetch!Fetch(w, m)
         \/ Fetch!Return(w) \/ Fetch!NetworkFails(w) \/ Fetch!NetworkAnswers(w)
         \/ Fetch!RetryAsGenericClient(w)
  PROVE  FetchOK(w)'
<1>0. FetchTypes /\ saved \in [Workspace -> BOOLEAN]
  BY FetchTypesSplit DEF OtherTypes
<1>1. ASSUME NEW m \in Fetch!Mode, Fetch!Fetch(w, m)  PROVE FetchOK(w)'
  <2>1. /\ stage[w] = "idle" /\ stage'[w] = IF m = "plain" THEN "network" ELSE "own body"
        /\ mode'[w] = m
        /\ seen' = seen /\ got' = got /\ answer' = answer
        /\ now' = now /\ saved' = saved /\ body' = body /\ meta' = meta /\ disturbed' = disturbed
    BY <1>0, <1>1 DEF Fetch!Fetch, Fetch!Goto, FetchTypes, Fetch!cacheVars
  <2>2. answer[w] \in {"none", "error"}
    BY <1>0, <2>1 DEF FetchOK, StageOK, FetchTypes, Fetch!Kind
  <2>3. StageOK(w)'
    BY <2>1, <2>2 DEF StageOK, Writing, FetchOK, Fetch!Mode
  <2>4. OwnOK(w)'
    BY <2>1 DEF OwnOK, Writing, FetchOK
  <2>5. /\ stage'[w] \in {"network", "own body"}
        /\ mode'[w] = "offline" => stage'[w] = "own body"
    BY <2>1
  <2>6. OfflineOK(w)'
    BY <2>5 DEF OfflineOK
  <2>7. SharedOK(w)'
    BY <2>5 DEF SharedOK
  <2> QED
    BY <2>3, <2>4, <2>6, <2>7 DEF FetchOK
<1>2. CASE Fetch!Return(w)
  <2>1. /\ stage'[w] = "idle" /\ mode'[w] = "plain" /\ answer'[w] = "none"
        /\ now' = now /\ saved' = saved /\ body' = body /\ meta' = meta
    BY <1>0, <1>2 DEF Fetch!Return, Fetch!Goto, FetchTypes, Fetch!cacheVars
  <2>2. StageOK(w)' /\ OwnOK(w)' /\ OfflineOK(w)' /\ SharedOK(w)'
    BY <2>1 DEF StageOK, OwnOK, OfflineOK, SharedOK, Writing, FetchOK
  <2> QED
    BY <2>2 DEF FetchOK
<1>3. CASE Fetch!NetworkFails(w)
  <2>1. /\ stage[w] = "network" /\ stage'[w] = "own body" /\ answer'[w] = "error"
        /\ mode' = mode /\ seen' = seen /\ got' = got /\ disturbed' = disturbed
        /\ now' = now /\ saved' = saved /\ body' = body /\ meta' = meta
    BY <1>0, <1>3 DEF Fetch!NetworkFails, Fetch!Goto, FetchTypes, Fetch!cacheVars
  <2>2. StageOK(w)' /\ OwnOK(w)' /\ OfflineOK(w)' /\ SharedOK(w)'
    BY <2>1 DEF StageOK, OwnOK, OfflineOK, SharedOK, Writing, FetchOK
  <2> QED
    BY <2>2 DEF FetchOK
<1>4. CASE Fetch!NetworkAnswers(w) \/ Fetch!RetryAsGenericClient(w)
  <2>1. /\ stage[w] \in {"network", "retry"} /\ stage'[w] \in {"write first", "retry"}
        /\ answer' = answer /\ mode' = mode /\ seen' = seen /\ disturbed' = disturbed
        /\ now' = now /\ saved' = saved /\ body' = body /\ meta' = meta
    BY <1>0, <1>4 DEF Fetch!NetworkAnswers, Fetch!RetryAsGenericClient, Fetch!Goto, FetchTypes,
       Fetch!cacheVars
  <2>2. \/ stage[w] = "retry" /\ got'[w] = got[w]
        \/ got'[w] \in Fetch!Download /\ Fetch!Time(got'[w]) = now
    <3>1. \/ stage[w] = "retry" /\ UNCHANGED got
          \/ \E size \in 1 .. MaxBody, n \in 1 .. MaxDownloads :
               got' = [got EXCEPT ![w] = <<size, now, n>>]
      BY <1>4, Zenon DEF Fetch!NetworkAnswers, Fetch!RetryAsGenericClient
    <3> QED
      BY <3>1, <1>0, TimesAreNumbers DEF FetchTypes
  <2>3. StageOK(w)'
    BY <2>1, <2>2, FetchAssumption DEF StageOK, Writing, FetchOK
  <2>4. OwnOK(w)'
    <3>1. stage[w] \in Writing \cup {"retry"} \/ Fetch!Time(got'[w]) = now
      BY <2>2 DEF Writing
    <3>2. now <= now /\ (Fetch!Time(got'[w]) = now => Fetch!Time(got'[w]) <= now)
      BY TimesAreNumbers
    <3>3. /\ Fetch!Time(got'[w]) <= now
          /\ meta[w] # NoFile => Fetch!Time(meta[w]) <= Fetch!Time(got'[w])
      BY <2>2, <3>2 DEF OwnOK, Writing, FetchOK
    <3> QED
      BY <2>1, <3>3 DEF OwnOK, Writing, FetchOK
  <2>5. OfflineOK(w)' /\ SharedOK(w)'
    BY <2>1 DEF OfflineOK, SharedOK, FetchOK, StageOK
  <2> QED
    BY <2>3, <2>4, <2>5 DEF FetchOK
<1> QED
  BY <1>1, <1>2, <1>3, <1>4

LEMMA FetchInvStep == FetchInv /\ [Fetch!Next]_(Fetch!vars) => FetchInv'
<1> SUFFICES ASSUME FetchInv, [Fetch!Next]_(Fetch!vars)  PROVE \A v \in Workspace : FetchOK(v)'
  BY FetchTypesKept DEF FetchInv
<1>0. Fetch!TypeOK /\ FetchTypes /\ \A v \in Workspace : FetchOK(v)
  BY FetchTypesSplit DEF FetchInv
<1>1. ASSUME NEW w \in Workspace, FetchStep(w)  PROVE FetchOK(w)'
  <2>1. Fetch!Own(w) = w
    BY DEF Fetch!Own
  <2> QED
    BY <1>0, <1>1, <2>1, ReadBodyStaysOK, ReadMetaStaysOK, WriteStaysOK, NetworkStaysOK
    DEF FetchStep
<1>2. ASSUME NEW w \in Workspace, FetchStep(w)  PROVE \A v \in Workspace : FetchOK(v)'
  BY <1>0, <1>1, <1>2, OtherFetchesStayOK
<1>3. ASSUME Fetch!Crash, NEW v \in Workspace  PROVE FetchOK(v)'
  <2>1. /\ stage'[v] = "idle" /\ answer'[v] = "none" /\ mode'[v] = "plain"
        /\ now' = now /\ saved' = saved /\ body' = body /\ meta' = meta
    BY <1>3 DEF Fetch!Crash, Fetch!cacheVars
  <2> QED
    BY <2>1, <1>0 DEF FetchOK, StageOK, OwnOK, OfflineOK, SharedOK, Writing
<1>4. ASSUME Fetch!Tick, NEW v \in Workspace  PROVE FetchOK(v)'
  <2>1. now' = now + 1 /\ UNCHANGED <<body, meta, stage, mode, seen, got, answer, saved, disturbed>>
    BY <1>4 DEF Fetch!Tick, Fetch!cacheVars, Fetch!fetchVars
  <2>2. StageOK(v)' /\ OfflineOK(v)' /\ SharedOK(v)'
    BY <2>1, <1>0 DEF FetchOK, StageOK, OfflineOK, SharedOK, Fetch!WholeCopy
  <2>3. OwnOK(v)'
    <3>1. meta[v] \in Fetch!Download \cup {NoFile} /\ got[v] \in Fetch!Download \cup {NoFile}
      BY <1>0, FetchTypesSplit DEF FileTypes, FetchTypes, Fetch!Dir
    <3>2. \A t \in Int : t <= now => t <= now + 1
      BY <1>0, TimesAreNumbers
    <3>3. meta[v] # NoFile => Fetch!Time(meta[v]) <= now + 1
      BY <1>0, <3>1, <3>2, TimesAreNumbers DEF FetchOK, OwnOK
    <3>4. stage[v] \in Writing \cup {"retry"} => Fetch!Time(got[v]) <= now + 1
      BY <1>0, <3>1, <3>2, TimesAreNumbers DEF FetchOK, OwnOK, StageOK
    <3> QED
      BY <2>1, <1>0, <3>3, <3>4 DEF FetchOK, OwnOK
  <2> QED
    BY <2>2, <2>3 DEF FetchOK
<1>5. ASSUME UNCHANGED Fetch!vars, NEW v \in Workspace  PROVE FetchOK(v)'
  BY <1>0, <1>5 DEF Fetch!vars, Fetch!cacheVars, Fetch!fetchVars, FetchOK, StageOK, OwnOK,
     OfflineOK, SharedOK, Fetch!WholeCopy
<1> QED
  BY <1>2, <1>3, <1>4, <1>5, FetchSteps

LEMMA FetchInvInit == Fetch!Init => FetchInv
<1> SUFFICES ASSUME Fetch!Init PROVE FetchInv
  OBVIOUS
<1>1. Fetch!TypeOK
  <2>1. FetchTypes
    BY DEF Fetch!Init, FetchTypes, Fetch!Stage, Fetch!Mode, Fetch!Kind
  <2>2. FileTypes
    BY DEF Fetch!Init, FileTypes
  <2>3. OtherTypes
    BY FetchAssumption DEF Fetch!Init, OtherTypes
  <2> QED
    BY <2>1, <2>2, <2>3, FetchTypesSplit
<1>2. ASSUME NEW w \in Workspace  PROVE FetchOK(w)
  BY DEF Fetch!Init, FetchOK, StageOK, OwnOK, OfflineOK, SharedOK, Writing, Fetch!Dir
<1> QED
  BY <1>1, <1>2 DEF FetchInv

-----------------------------------------------------------------------------
(* A step of Resources is one of the download cache or leaves it alone.    *)
LEMMA FetchSimulates ==
  /\ ResourcesInit => Fetch!Init
  /\ [ResourcesNext]_resourcesVars => [Fetch!Next]_(Fetch!vars)
<1>1. ResourcesInit => Fetch!Init
  BY DEF ResourcesInit
<1>2. UNCHANGED fetchVars => UNCHANGED Fetch!vars
  BY DEF fetchVars, Fetch!vars, Fetch!cacheVars, Fetch!fetchVars
<1>3. [ResourcesNext]_resourcesVars => Fetch!Next \/ UNCHANGED fetchVars
  BY DEF ResourcesNext, resourcesVars
<1> QED
  BY <1>1, <1>2, <1>3

(* The inductive invariant of the download cache.                          *)
THEOREM FetchInvariant == ResourcesSpec => []FetchInv
BY FetchSimulates, FetchInvInit, FetchInvStep, PTL DEF ResourcesSpec

(* A copy that a refresh saved is found by every offline view, and no      *)
(* fetch fails while the shared directory holds a whole copy that nobody   *)
(* touched (readCacheFrom, Fetch), for any number of workspaces, answers   *)
(* of the server, failed writes and crashes.                               *)
THEOREM CopiesFound == ResourcesSpec => []CopiesAreFound
<1>1. FetchInv => CopiesAreFound
  BY DEF FetchInv, FetchOK, OfflineOK, SharedOK, CopiesAreFound, Fetch!CopiesAreFound
<1> QED
  BY <1>1, FetchInvariant, PTL

(* What is answered as fresh was downloaded less than CacheTTL ago, also   *)
(* when a crash came between a body and its metadata (writeCacheDir).      *)
THEOREM AnswersFresh == ResourcesSpec => FreshAnswersAreFresh
<1>1. FetchInv /\ [Fetch!Next]_(Fetch!vars) =>
        [\A w \in Workspace :
           stage[w] # "answered" /\ answer'[w] = "fresh"
             => now - Fetch!Time(got'[w]) < CacheTTL]_(Fetch!vars)
  <2> SUFFICES ASSUME FetchInv, Fetch!Next, NEW w \in Workspace,
                      stage[w] # "answered", answer'[w] = "fresh"
               PROVE  now - Fetch!Time(got'[w]) < CacheTTL
    OBVIOUS
  <2>0. Fetch!TypeOK /\ FetchTypes /\ FileTypes /\ FetchOK(w) /\ Fetch!Own(w) = w /\ w \in Fetch!Dir
    BY FetchTypesSplit DEF FetchInv, Fetch!Own, Fetch!Dir
  <2>1. answer[w] # "fresh"
    BY <2>0 DEF FetchOK, StageOK
  <2>2. FetchStep(w)
    <3>1. ~Fetch!Crash /\ ~Fetch!Tick
      BY <2>0, <2>1 DEF Fetch!Crash, Fetch!Tick, Fetch!fetchVars
    <3> QED
      BY <3>1, <2>0, <2>1, FetchAlone, FetchSteps
  <2>3. ASSUME NEW d, Fetch!Miss(w, d)  PROVE FALSE
    BY <2>0, <2>1, <2>3 DEF Fetch!Miss, Fetch!Answer, FetchTypes
  <2>4. PICK d \in {w, Shared} : Fetch!ReadMeta(w, d) /\ Fetch!Hit(w, d, meta[d], seen[w])
    BY <2>0, <2>1, <2>2, <2>3 DEF FetchStep, Fetch!Fetch, Fetch!ReadBody, Fetch!ReadMeta,
       Fetch!WriteOwn, Fetch!WriteShared,
       Fetch!Return, Fetch!NetworkFails, Fetch!NetworkAnswers, Fetch!RetryAsGenericClient,
       Fetch!WriteFails, Fetch!Answer, FetchTypes
  <2>5. /\ mode[w] # "offline" /\ answer[w] # "error" /\ now - Fetch!Time(meta[d]) < CacheTTL
        /\ got'[w] = seen[w]
    BY <2>0, <2>3, <2>4 DEF Fetch!Hit, Fetch!Fresh, Fetch!Answer, FetchTypes
  <2>6. d = w /\ stage[w] = "own meta" /\ meta[w] # NoFile
    BY <2>0, <2>4, <2>5, <2>3 DEF Fetch!ReadMeta, FetchOK, StageOK
  <2>7. Fetch!Time(meta[w]) <= Fetch!Time(got'[w])
    BY <2>0, <2>5, <2>6 DEF FetchOK, OwnOK
  <2>8. /\ CacheTTL \in Int /\ now \in Int
        /\ Fetch!Time(meta[w]) \in Int /\ Fetch!Time(got'[w]) \in Int
    BY <2>0, <2>5, <2>6, TimesAreNumbers, FetchAssumption
    DEF FetchTypes, FileTypes, FetchOK, StageOK
  <2>9. now - Fetch!Time(meta[w]) < CacheTTL
    BY <2>5, <2>6
  <2> QED
    BY ONLY <2>7, <2>8, <2>9
<1> QED
  BY <1>1, FetchSimulates, FetchInvariant, PTL
  DEF ResourcesSpec, FreshAnswersAreFresh, Fetch!FreshAnswersAreFresh

-----------------------------------------------------------------------------
(* The restore command.                                                    *)

(* The library operators that BackupRestore uses are those of this module. *)
LEMMA RestoreCardinality == \A S : Restore!Cardinality(S) = Cardinality(S)
BY DEF Restore!Cardinality, Cardinality

LEMMA RestoreSums == \A f, S : Restore!SumFunctionOnSet(f, S) = SumFunctionOnSet(f, S)
BY DEF Restore!SumFunctionOnSet, Restore!FoldFunctionOnSet, Restore!MapThenFoldSet,
   SumFunctionOnSet, FoldFunctionOnSet, MapThenFoldSet

(* What a directory or a file may hold; "part" is what an interrupted copy *)
(* or removal left.                                                        *)
Content == Visitor \cup {Old, Nothing, "part"}
(* The stages without the lock, and those of the rollback.                 *)
Out == {"ready", "refused", "failed", "restored", "killed"}
Undoing == {"undo stop", "undo data", "undo rename", "undo config", "undo start"}

RestoreControlTypes ==
  /\ pc = [r \in Visitor |-> pc[r]]
  /\ lock \in Visitor \cup {Nothing}
  /\ failures \in Nat /\ crashes \in Nat

RestoreFileTypes ==
  /\ data \in Content /\ config \in Content
  /\ tempData \in [Visitor -> Content] /\ tempConfig \in [Visitor -> Content]
  /\ rollbackData \in [Visitor -> Content] /\ rollbackConfig \in [Visitor -> Content]

RestoreFlagTypes ==
  /\ running \in BOOLEAN
  /\ wasRunning \in [Visitor -> BOOLEAN]
  /\ dataReplaced \in [Visitor -> BOOLEAN] /\ configReplaced \in [Visitor -> BOOLEAN]
  /\ before \in [Visitor -> Content \X Content \X BOOLEAN]
  /\ serviceFailed \in [Visitor -> BOOLEAN] /\ unseen \in [Visitor -> BOOLEAN]

RestoreTypes == RestoreControlTypes /\ RestoreFileTypes /\ RestoreFlagTypes

(* Who is between taking and dropping the lock file holds it, and nobody   *)
(* else.                                                                   *)
LockHeld == \A r \in Visitor : pc[r] \notin Out <=> lock = r

(* Where the data directory is that a restore found: in place, put aside,  *)
(* put aside with the new one in its place, put back.                      *)
Untouched(r) == ~dataReplaced[r] /\ rollbackData[r] = Nothing /\ data = before[r][1]
PutAside(r) == data = Nothing /\ rollbackData[r] = before[r][1]
Replaced(r) == dataReplaced[r] /\ data = r /\ rollbackData[r] = before[r][1]
PutBack(r) == rollbackData[r] = Nothing /\ data = before[r][1]

(* The data directory at each stage of the holder of the lock.  A copy     *)
(* that was put aside is the one that the restore found.                   *)
DataOK(r) ==
  /\ pc[r] \in {"ready", "refused"} => /\ ~dataReplaced[r] /\ rollbackData[r] = Nothing
                                       /\ data # r
  /\ pc[r] \in {"inspect", "unpack", "stop", "copy config", "save data"} => Untouched(r)
  /\ pc[r] = "swap data" => PutAside(r) /\ ~dataReplaced[r]
  /\ pc[r] \in {"swap config", "start", "commit", "cleanup restored"} => Replaced(r)
  /\ pc[r] \in {"undo stop", "undo data"} => Replaced(r) \/ Untouched(r)
  /\ pc[r] = "undo rename" => PutAside(r)
  /\ pc[r] \in {"undo config", "undo start", "cleanup"} => PutBack(r)
  /\ pc[r] \in {"failed", "restored"} => rollbackData[r] = Nothing
  /\ rollbackData[r] \in {Nothing, before[r][1]}
  /\ pc[r] \notin Out => before[r][1] \in {data, rollbackData[r]}
  /\ pc[r] \in {"stop", "copy config", "save data", "swap data"} => tempData[r] = r

(* The configuration is copied before it is replaced, so it is never       *)
(* missing.                                                                *)
ConfigKept(r) == ~configReplaced[r] /\ config = before[r][2]
ConfigReplaced(r) == configReplaced[r] /\ config = r /\ rollbackConfig[r] = before[r][2]

ConfigOK(r) ==
  /\ pc[r] \in {"ready", "refused"} => ~configReplaced[r]
  /\ pc[r] \in {"inspect", "unpack", "stop", "copy config"} => ConfigKept(r)
  /\ pc[r] \in {"save data", "swap data", "swap config"} =>
       ConfigKept(r) /\ rollbackConfig[r] = before[r][2]
  /\ pc[r] \in {"start", "commit", "cleanup restored"} => ConfigReplaced(r)
  /\ pc[r] \in {"undo stop", "undo data", "undo rename", "undo config"} =>
       ConfigKept(r) \/ ConfigReplaced(r)
  /\ pc[r] \in {"undo start", "cleanup"} => config = before[r][2]
  /\ pc[r] \in {"stop", "copy config", "save data", "swap data", "swap config"} =>
       tempConfig[r] = r

(* The service is stopped while files are swapped, unless the restore took *)
(* it for stopped; then it runs on until a rollback stops it.  A rollback  *)
(* is the first thing that failed.                                         *)
Ahead == {"copy config", "save data", "swap data", "swap config", "start"}

ServiceOK(r) ==
  /\ pc[r] \in {"inspect", "unpack", "stop"} => running = before[r][3] /\ ~unseen[r]
  /\ pc[r] \in Ahead =>
       running = unseen[r] /\ wasRunning[r] = (before[r][3] /\ ~unseen[r])
  /\ pc[r] = "undo stop" => /\ wasRunning[r] = (before[r][3] /\ ~unseen[r])
                            /\ running /\ ~unseen[r] => data = r /\ config = r
  /\ pc[r] \in {"undo data", "undo rename", "undo config", "undo start"} =>
       ~running /\ wasRunning[r] = (before[r][3] /\ ~unseen[r])
  /\ pc[r] = "cleanup" => running = before[r][3] \/ serviceFailed[r] \/ unseen[r]
  /\ pc[r] \in Undoing => failures = 1
  /\ pc[r] \in {"ready", "refused"} => ~unseen[r]
  /\ pc[r] \notin Out /\ running =>
       \/ pc[r] \in {"inspect", "unpack", "stop", "undo stop", "commit", "cleanup",
                    "cleanup restored"}
       \/ pc[r] \in Ahead /\ unseen[r]

RestoreOK(r) == DataOK(r) /\ ConfigOK(r) /\ ServiceOK(r)

(* A restore that has not ended did not install what another one found.    *)
NothingNewIsOld ==
  \A r, q \in Visitor :
    pc[r] \notin {"failed", "restored", "killed"} /\ pc[q] \notin {"ready", "refused"}
    => before[q][1] # r

(* What an ended restore left, as long as no other has run.                *)
Alone(r) == \A s \in Visitor \ {r} : pc[s] \in {"ready", "refused"}

Settled(r) ==
  Alone(r) =>
    /\ pc[r] = "restored" => data = r /\ config = r
    /\ pc[r] = "failed" => /\ data = before[r][1] /\ config = before[r][2]
                           /\ running = before[r][3] \/ serviceFailed[r] \/ unseen[r]

Coherent(d, c) == {d, c} \subseteq {Old, Nothing} \/ d = c

(* Data and configuration are of one origin whenever nobody holds the      *)
(* lock, and were when the holder took it.                                 *)
NoMixture ==
  crashes = 0 =>
    /\ lock = Nothing => Coherent(data, config)
    /\ lock # Nothing => Coherent(before[lock][1], before[lock][2])

(* The inductive invariant, as long as at most one step has failed.        *)
RestoreGood ==
  /\ \A r \in Visitor : RestoreOK(r) /\ Settled(r)
  /\ NothingNewIsOld /\ NoMixture

(* Without a bound on the failures only the types, the lock and the        *)
(* survival of the old data remain.                                        *)
RestoreInv ==
  /\ RestoreTypes /\ LockHeld
  /\ failures <= 1 => RestoreGood
  /\ Restore!OldDataSurvives

(* What a restore that holds the lock does.                                *)
Work(r) ==
  \/ Restore!InspectArchive(r) \/ Restore!Unpack(r) \/ Restore!StopService(r)
  \/ Restore!CopyConfig(r) \/ Restore!SaveData(r) \/ Restore!SwapData(r)
  \/ Restore!SwapConfig(r) \/ Restore!StartService(r) \/ Restore!Commit(r)
  \/ Restore!UndoStop(r) \/ Restore!UndoData(r) \/ Restore!UndoRename(r)
  \/ Restore!UndoConfig(r) \/ Restore!UndoStart(r)
  \/ Restore!Cleanup(r) \/ Restore!Kill(r)

LEMMA RestoreSteps == Restore!Next <=> \E r \in Visitor : Restore!Begin(r) \/ Work(r)
BY DEF Restore!Next, Work

(* A step moves one restore on, and counts at most one failure and crash.  *)
LEMMA WorkMoves ==
  ASSUME RestoreControlTypes, NEW r \in Visitor, Work(r)
  PROVE  /\ \E next : Restore!Goto(r, next)
         /\ \A s \in Visitor \ {r} : pc'[s] = pc[s]
         /\ lock' \in {lock, Nothing}
         /\ failures' \in {failures, failures + 1} /\ crashes' \in {crashes, crashes + 1}
<1>1. \E next : Restore!Goto(r, next)
  BY Zenon DEF Work, Restore!InspectArchive, Restore!Unpack, Restore!StopService,
     Restore!CopyConfig, Restore!SaveData,
   Restore!SwapData, Restore!SwapConfig, Restore!StartService, Restore!Commit, Restore!UndoStop,
   Restore!UndoData, Restore!UndoRename, Restore!UndoConfig,
   Restore!UndoStart, Restore!Cleanup, Restore!Kill
<1>2. \A s \in Visitor \ {r} : pc'[s] = pc[s]
  BY <1>1 DEF Restore!Goto, RestoreControlTypes
<1>3. lock' \in {lock, Nothing}
  BY DEF Work, Restore!InspectArchive, Restore!Unpack, Restore!StopService, Restore!CopyConfig,
     Restore!SaveData,
   Restore!SwapData, Restore!SwapConfig, Restore!StartService, Restore!Commit, Restore!UndoStop,
   Restore!UndoData, Restore!UndoRename, Restore!UndoConfig,
   Restore!UndoStart, Restore!Cleanup, Restore!Kill
<1>4. failures' \in {failures, failures + 1}
  BY DEF Work, Restore!InspectArchive, Restore!Unpack, Restore!StopService, Restore!CopyConfig,
     Restore!SaveData,
   Restore!SwapData, Restore!SwapConfig, Restore!StartService, Restore!Commit, Restore!UndoStop,
   Restore!UndoData, Restore!UndoRename, Restore!UndoConfig,
   Restore!UndoStart, Restore!Cleanup, Restore!Kill, Restore!ServiceCommandFails, Restore!history,
   Restore!Fail
<1>5. crashes' \in {crashes, crashes + 1}
  BY DEF Work, Restore!InspectArchive, Restore!Unpack, Restore!StopService, Restore!CopyConfig,
     Restore!SaveData,
   Restore!SwapData, Restore!SwapConfig, Restore!StartService, Restore!Commit, Restore!UndoStop,
   Restore!UndoData, Restore!UndoRename, Restore!UndoConfig,
   Restore!UndoStart, Restore!Cleanup, Restore!Kill, Restore!ServiceCommandFails, Restore!history
<1> QED
  BY <1>1, <1>2, <1>3, <1>4, <1>5

(* A state with one failure at most came from one.                         *)
LEMMA FailuresGrow ==
  ASSUME RestoreControlTypes, NEW r \in Visitor, Work(r)
  PROVE  failures' <= 1 => failures <= 1
BY WorkMoves DEF RestoreControlTypes

(* What moving on changes.                                                 *)
LEMMA GotoMoves ==
  ASSUME RestoreControlTypes, NEW r \in Visitor
  PROVE  \A next : Restore!Goto(r, next) =>
           /\ pc'[r] = next
           /\ \A s \in Visitor \ {r} : pc'[s] = pc[s]
           /\ pc' = [s \in Visitor |-> pc'[s]]
BY DEF Restore!Goto, RestoreControlTypes

(* Every step keeps the types.                                             *)
LEMMA WorkKeepsFileTypes ==
  ASSUME RestoreFileTypes, NEW r \in Visitor, Work(r)
  PROVE  RestoreFileTypes'
<1>1. CASE Restore!Unpack(r) \/ Restore!CopyConfig(r)
  BY <1>1 DEF Content, RestoreFileTypes, Restore!live, Restore!Unpack, Restore!CopyConfig
<1>2. CASE Restore!SaveData(r) \/ Restore!SwapData(r) \/ Restore!SwapConfig(r)
  BY <1>2 DEF Content, RestoreFileTypes, Restore!SaveData, Restore!SwapData, Restore!SwapConfig
<1>3. CASE Restore!UndoData(r) \/ Restore!UndoRename(r) \/ Restore!UndoConfig(r)
  BY <1>3 DEF Content, RestoreFileTypes, Restore!filesOf, Restore!UndoData, Restore!UndoRename,
     Restore!UndoConfig
<1>4. CASE Restore!Cleanup(r)
  BY <1>4 DEF Content, RestoreFileTypes, Restore!live, Restore!Cleanup
<1>5. CASE UNCHANGED <<Restore!live, Restore!filesOf>>
  BY <1>5 DEF RestoreFileTypes, Restore!live, Restore!filesOf
<1> QED
  BY <1>1, <1>2, <1>3, <1>4, <1>5 DEF Work, Restore!InspectArchive, Restore!StopService,
     Restore!StartService, Restore!Commit, Restore!UndoStop, Restore!UndoStart, Restore!Kill

LEMMA WorkKeepsFlagTypes ==
  ASSUME RestoreFlagTypes, NEW r \in Visitor, Work(r)
  PROVE  RestoreFlagTypes'
BY DEF Content, RestoreFlagTypes, Restore!flags, Restore!history, Restore!ServiceRunning, Restore!ServiceCommandFails, Work,
   Restore!InspectArchive, Restore!Unpack, Restore!StopService, Restore!CopyConfig,
   Restore!SaveData,
   Restore!SwapData, Restore!SwapConfig, Restore!StartService, Restore!Commit, Restore!UndoStop,
   Restore!UndoData, Restore!UndoRename, Restore!UndoConfig,
   Restore!UndoStart, Restore!Cleanup, Restore!Kill

LEMMA WorkKeepsTypes ==
  ASSUME RestoreTypes, NEW r \in Visitor, Work(r)
  PROVE  RestoreTypes'
<1>1. RestoreControlTypes'
  BY WorkMoves, GotoMoves DEF RestoreTypes, RestoreControlTypes
<1> QED
  BY <1>1, WorkKeepsFileTypes, WorkKeepsFlagTypes DEF RestoreTypes

LEMMA BeginKeepsTypes ==
  ASSUME RestoreTypes, NEW r \in Visitor, Restore!Begin(r)
  PROVE  RestoreTypes'
<1>1. RestoreControlTypes'
  BY GotoMoves DEF RestoreTypes, RestoreControlTypes, Restore!Begin
<1>2. RestoreFileTypes'
  BY DEF RestoreTypes, RestoreFileTypes, Restore!filesOf, Restore!live, Restore!Begin
<1>3. RestoreFlagTypes'
  BY DEF RestoreTypes, RestoreFileTypes, RestoreFlagTypes, Restore!flags, Restore!Begin
<1> QED
  BY <1>1, <1>2, <1>3 DEF RestoreTypes

(* The files, flags and history of the others stay as they are.            *)
LEMMA RestoreAlone ==
  ASSUME RestoreTypes, NEW r \in Visitor, Work(r), NEW s \in Visitor, s # r
  PROVE  /\ pc'[s] = pc[s] /\ before' = before
         /\ tempData'[s] = tempData[s] /\ tempConfig'[s] = tempConfig[s]
         /\ rollbackData'[s] = rollbackData[s] /\ rollbackConfig'[s] = rollbackConfig[s]
         /\ wasRunning'[s] = wasRunning[s] /\ serviceFailed'[s] = serviceFailed[s]
      /\ unseen'[s] = unseen[s]
         /\ dataReplaced'[s] = dataReplaced[s] /\ configReplaced'[s] = configReplaced[s]
<1>1. pc'[s] = pc[s]
  BY WorkMoves DEF RestoreTypes
<1>2. /\ tempData'[s] = tempData[s] /\ tempConfig'[s] = tempConfig[s]
      /\ rollbackData'[s] = rollbackData[s] /\ rollbackConfig'[s] = rollbackConfig[s]
  BY DEF RestoreTypes, RestoreFileTypes, Restore!filesOf, Restore!ServiceCommandFails, Work,
   Restore!InspectArchive, Restore!Unpack, Restore!StopService, Restore!CopyConfig,
   Restore!SaveData,
   Restore!SwapData, Restore!SwapConfig, Restore!StartService, Restore!Commit, Restore!UndoStop,
   Restore!UndoData, Restore!UndoRename, Restore!UndoConfig,
   Restore!UndoStart, Restore!Cleanup, Restore!Kill
<1>3. /\ before' = before
      /\ wasRunning'[s] = wasRunning[s] /\ serviceFailed'[s] = serviceFailed[s]
      /\ unseen'[s] = unseen[s]
      /\ dataReplaced'[s] = dataReplaced[s] /\ configReplaced'[s] = configReplaced[s]
  BY DEF RestoreTypes, RestoreFlagTypes, Restore!flags, Restore!history,
     Restore!ServiceCommandFails, Work,
   Restore!InspectArchive, Restore!Unpack, Restore!StopService, Restore!CopyConfig,
   Restore!SaveData,
   Restore!SwapData, Restore!SwapConfig, Restore!StartService, Restore!Commit, Restore!UndoStop,
   Restore!UndoData, Restore!UndoRename, Restore!UndoConfig,
   Restore!UndoStart, Restore!Cleanup, Restore!Kill
<1> QED
  BY <1>1, <1>2, <1>3

(* Only the holder of the lock works.                                      *)
LEMMA WorkKeepsLock ==
  ASSUME RestoreTypes, LockHeld, NEW r \in Visitor, Work(r)
  PROVE  lock = r /\ LockHeld'
<1>1. lock = r
  BY DEF LockHeld, Out, Work, Restore!InspectArchive, Restore!Unpack, Restore!StopService,
     Restore!CopyConfig, Restore!SaveData,
   Restore!SwapData, Restore!SwapConfig, Restore!StartService, Restore!Commit, Restore!UndoStop,
   Restore!UndoData, Restore!UndoRename, Restore!UndoConfig,
   Restore!UndoStart, Restore!Cleanup, Restore!Kill
<1>2. CASE Restore!Cleanup(r) \/ Restore!Kill(r)
  <2>1. lock' = Nothing /\ pc'[r] \in {"failed", "restored", "killed"}
    BY <1>2, GotoMoves DEF RestoreTypes, Restore!Cleanup, Restore!Kill
  <2> QED
    BY <1>1, <2>1, RestoreAlone, RestoreAssumption DEF LockHeld, Out
<1>3. CASE ~(Restore!Cleanup(r) \/ Restore!Kill(r))
  <2>1. lock' = r
    BY <1>1, <1>3 DEF Work, Restore!InspectArchive, Restore!Unpack, Restore!StopService,
       Restore!CopyConfig, Restore!SaveData,
   Restore!SwapData, Restore!SwapConfig, Restore!StartService, Restore!Commit, Restore!UndoStop,
   Restore!UndoData, Restore!UndoRename, Restore!UndoConfig,
   Restore!UndoStart, Restore!Cleanup, Restore!Kill
  <2>2. \E next : next \notin Out /\ Restore!Goto(r, next)
    BY <1>3, Zenon DEF Out, Work, Restore!InspectArchive, Restore!Unpack, Restore!StopService,
       Restore!CopyConfig, Restore!SaveData,
   Restore!SwapData, Restore!SwapConfig, Restore!StartService, Restore!Commit, Restore!UndoStop,
   Restore!UndoData, Restore!UndoRename, Restore!UndoConfig,
   Restore!UndoStart, Restore!Cleanup, Restore!Kill
  <2>3. pc'[r] \notin Out
    BY <2>2, GotoMoves DEF RestoreTypes
  <2> QED
    BY <1>1, <2>1, <2>3, RestoreAlone DEF LockHeld
<1> QED
  BY <1>1, <1>2, <1>3

(* A failure is the first and last one, so that a rollback has none.       *)
LEMMA FailsOnce ==
  ASSUME RestoreTypes, NEW r \in Visitor, RestoreOK(r), failures' <= 1
  PROVE  /\ Restore!Fail => failures' = 1
         /\ pc[r] \in Undoing => ~Restore!Fail /\ failures = 1
<1>1. failures \in Nat
  BY DEF RestoreTypes, RestoreControlTypes
<1>2. Restore!Fail => failures' = 1
  BY <1>1 DEF Restore!Fail
<1>3. pc[r] \in Undoing => failures = 1
  BY DEF RestoreOK, ServiceOK
<1>4. pc[r] \in Undoing => ~Restore!Fail
  BY <1>3 DEF Restore!Fail
<1> QED
  BY <1>2, <1>3, <1>4

(* What each step needs to find, and leaves.                               *)
LEMMA InspectArchiveStaysOK ==
  ASSUME RestoreTypes, NEW r \in Visitor, RestoreOK(r), Restore!InspectArchive(r), failures' <= 1
  PROVE  RestoreOK(r)'
<1>1. pc[r] = "inspect" /\ pc'[r] \in {"unpack", "cleanup"}
  BY GotoMoves DEF RestoreTypes, RestoreFlagTypes, Restore!InspectArchive
<1>2. UNCHANGED <<Restore!live, Restore!filesOf, running, Restore!flags, before, serviceFailed,
               unseen>>
  BY FailsOnce, <1>1 DEF Restore!InspectArchive, Restore!filesOf, Restore!flags, Restore!live,
     Restore!history, Undoing
<1>3. DataOK(r)'
  BY <1>1, <1>2 DEF RestoreOK, DataOK, Out, Untouched, PutAside, Replaced, PutBack,
     Restore!live, Restore!filesOf, Restore!flags
<1>4. ConfigOK(r)'
  BY <1>1, <1>2 DEF RestoreOK, ConfigOK, ConfigKept, ConfigReplaced,
     Restore!live, Restore!filesOf, Restore!flags
<1>5. ServiceOK(r)'
  BY <1>1, <1>2 DEF RestoreOK, ServiceOK, Ahead, DataOK, ConfigOK, Replaced, ConfigReplaced,
     Undoing, Out,
     Restore!live, Restore!filesOf, Restore!flags, Restore!history
<1> QED
  BY <1>3, <1>4, <1>5 DEF RestoreOK

LEMMA UnpackStaysOK ==
  ASSUME RestoreTypes, NEW r \in Visitor, RestoreOK(r), Restore!Unpack(r), failures' <= 1
  PROVE  RestoreOK(r)'
<1>1. pc[r] = "unpack"
  BY GotoMoves DEF RestoreTypes, RestoreFlagTypes, Restore!Unpack
<1>2. \/ pc'[r] = "stop" /\ tempData'[r] = r /\ tempConfig'[r] = r
      \/ pc'[r] = "cleanup"
  BY FailsOnce, GotoMoves, <1>1
  DEF RestoreTypes, RestoreFileTypes, RestoreFlagTypes, Restore!Unpack, Undoing
<1>3. UNCHANGED <<Restore!live, rollbackData, rollbackConfig, running, Restore!flags,
               before, serviceFailed, unseen>>
  BY FailsOnce, <1>1 DEF Restore!Unpack, Restore!filesOf, Restore!flags, Restore!live,
     Restore!history, Undoing
<1>4. DataOK(r)'
  BY <1>1, <1>2, <1>3 DEF RestoreOK, DataOK, Out, Untouched, PutAside, Replaced, PutBack,
     Restore!live, Restore!filesOf, Restore!flags
<1>5. ConfigOK(r)'
  BY <1>1, <1>2, <1>3 DEF RestoreOK, ConfigOK, ConfigKept, ConfigReplaced,
     Restore!live, Restore!filesOf, Restore!flags
<1>6. ServiceOK(r)'
  BY <1>1, <1>2, <1>3 DEF RestoreOK, ServiceOK, Ahead, DataOK, ConfigOK, Replaced, ConfigReplaced,
     Undoing, Out,
     Restore!live, Restore!filesOf, Restore!flags, Restore!history
<1> QED
  BY <1>4, <1>5, <1>6 DEF RestoreOK

LEMMA StopServiceStaysOK ==
  ASSUME RestoreTypes, NEW r \in Visitor, RestoreOK(r), Restore!StopService(r), failures' <= 1
  PROVE  RestoreOK(r)'
<1>1. pc[r] = "stop"
  BY GotoMoves DEF RestoreTypes, RestoreFlagTypes, Restore!StopService
<1>2. \/ /\ pc'[r] = "copy config" /\ running' = FALSE
         /\ wasRunning'[r] = running /\ unseen'[r] = FALSE
      \/ /\ pc'[r] = "copy config" /\ running /\ running' = TRUE
         /\ wasRunning'[r] = FALSE /\ unseen'[r] = TRUE
      \/ pc'[r] = "cleanup" /\ serviceFailed'[r] = TRUE
  BY FailsOnce, GotoMoves, <1>1
  DEF RestoreTypes, RestoreFileTypes, RestoreFlagTypes, Restore!StopService,
      Restore!ServiceRunning, Restore!ServiceCommandFails, Undoing
<1>3. UNCHANGED <<Restore!live, Restore!filesOf, dataReplaced, configReplaced, before>>
  BY FailsOnce, <1>1 DEF Restore!StopService, Restore!filesOf, Restore!flags, Restore!live,
     Restore!history, Restore!ServiceCommandFails, Undoing
<1>4. DataOK(r)'
  BY <1>1, <1>2, <1>3 DEF RestoreOK, DataOK, Out, Untouched, PutAside, Replaced, PutBack,
     Restore!live, Restore!filesOf, Restore!flags
<1>5. ConfigOK(r)'
  BY <1>1, <1>2, <1>3 DEF RestoreOK, ConfigOK, ConfigKept, ConfigReplaced,
     Restore!live, Restore!filesOf, Restore!flags
<1>6. ServiceOK(r)'
  <2>1. before[r][3] \in BOOLEAN /\ running \in BOOLEAN /\ unseen[r] \in BOOLEAN
        /\ wasRunning[r] \in BOOLEAN
    BY DEF RestoreTypes, RestoreFlagTypes
  <2> QED
    BY <2>1, <1>1, <1>2, <1>3 DEF RestoreOK, ServiceOK, Ahead, DataOK, ConfigOK, Replaced,
       ConfigReplaced,
       Undoing, Out,
       Restore!live, Restore!filesOf, Restore!flags, Restore!history
<1> QED
  BY <1>4, <1>5, <1>6 DEF RestoreOK

LEMMA CopyConfigStaysOK ==
  ASSUME RestoreTypes, NEW r \in Visitor, RestoreOK(r), Restore!CopyConfig(r), failures' <= 1
  PROVE  RestoreOK(r)'
<1>1. pc[r] = "copy config"
  BY GotoMoves DEF RestoreTypes, RestoreFlagTypes, Restore!CopyConfig
<1>2. \/ pc'[r] = "save data" /\ rollbackConfig'[r] = config
      \/ pc'[r] = "undo stop" /\ failures' = 1
  BY FailsOnce, GotoMoves, <1>1
  DEF RestoreTypes, RestoreFileTypes, RestoreFlagTypes, Restore!CopyConfig, Undoing
<1>3. UNCHANGED <<Restore!live, tempData, tempConfig, rollbackData, running, Restore!flags,
               before, serviceFailed, unseen>>
  BY FailsOnce, <1>1 DEF Restore!CopyConfig, Restore!filesOf, Restore!flags, Restore!live,
     Restore!history, Undoing
<1>4. DataOK(r)'
  BY <1>1, <1>2, <1>3 DEF RestoreOK, DataOK, Out, Untouched, PutAside, Replaced, PutBack,
     Restore!live, Restore!filesOf, Restore!flags
<1>5. ConfigOK(r)'
  BY <1>1, <1>2, <1>3 DEF RestoreOK, ConfigOK, ConfigKept, ConfigReplaced,
     Restore!live, Restore!filesOf, Restore!flags
<1>6. ServiceOK(r)'
  BY <1>1, <1>2, <1>3 DEF RestoreOK, ServiceOK, Ahead, DataOK, ConfigOK, Replaced, ConfigReplaced,
     Undoing, Out,
     Restore!live, Restore!filesOf, Restore!flags, Restore!history
<1> QED
  BY <1>4, <1>5, <1>6 DEF RestoreOK

LEMMA SaveDataStaysOK ==
  ASSUME RestoreTypes, NEW r \in Visitor, RestoreOK(r), Restore!SaveData(r), failures' <= 1
  PROVE  RestoreOK(r)'
<1>1. pc[r] = "save data"
  BY GotoMoves DEF RestoreTypes, RestoreFlagTypes, Restore!SaveData
<1>2. \/ pc'[r] = "swap data" /\ rollbackData'[r] = data /\ data' = Nothing
      \/ pc'[r] = "undo stop" /\ failures' = 1 /\ data' = data /\ rollbackData' = rollbackData
  BY FailsOnce, GotoMoves, <1>1
  DEF RestoreTypes, RestoreFileTypes, RestoreFlagTypes, Restore!SaveData, Undoing
<1>3. UNCHANGED <<config, tempData, tempConfig, rollbackConfig, running, Restore!flags,
               before, serviceFailed, unseen>>
  BY FailsOnce, <1>1 DEF Restore!SaveData, Restore!filesOf, Restore!flags, Restore!live,
     Restore!history, Undoing
<1>4. DataOK(r)'
  BY <1>1, <1>2, <1>3 DEF RestoreOK, DataOK, Out, Untouched, PutAside, Replaced, PutBack,
     Restore!live, Restore!filesOf, Restore!flags
<1>5. ConfigOK(r)'
  BY <1>1, <1>2, <1>3 DEF RestoreOK, ConfigOK, ConfigKept, ConfigReplaced,
     Restore!live, Restore!filesOf, Restore!flags
<1>6. ServiceOK(r)'
  BY <1>1, <1>2, <1>3 DEF RestoreOK, ServiceOK, Ahead, DataOK, ConfigOK, Replaced, ConfigReplaced,
     Undoing, Out,
     Restore!live, Restore!filesOf, Restore!flags, Restore!history
<1> QED
  BY <1>4, <1>5, <1>6 DEF RestoreOK

LEMMA SwapDataStaysOK ==
  ASSUME RestoreTypes, NEW r \in Visitor, RestoreOK(r), Restore!SwapData(r), failures' <= 1
  PROVE  RestoreOK(r)'
<1>1. pc[r] = "swap data"
  BY GotoMoves DEF RestoreTypes, RestoreFlagTypes, Restore!SwapData
<1>2. \/ /\ pc'[r] = "swap config" /\ data' = tempData[r] /\ dataReplaced'[r] = TRUE
         /\ rollbackData' = rollbackData
      \/ /\ pc'[r] = "undo stop" /\ failures' = 1 /\ data' = rollbackData[r]
         /\ rollbackData'[r] = Nothing /\ dataReplaced' = dataReplaced
  BY FailsOnce, GotoMoves, <1>1
  DEF RestoreTypes, RestoreFileTypes, RestoreFlagTypes, Restore!SwapData, Undoing
<1>3. UNCHANGED <<config, tempConfig, rollbackConfig, running, wasRunning, configReplaced, before,
                  serviceFailed, unseen>>
  BY FailsOnce, <1>1 DEF Restore!SwapData, Restore!filesOf, Restore!flags, Restore!live,
     Restore!history, Undoing
<1>4. DataOK(r)'
  BY <1>1, <1>2, <1>3 DEF RestoreOK, DataOK, Out, Untouched, PutAside, Replaced, PutBack,
     Restore!live, Restore!filesOf, Restore!flags
<1>5. ConfigOK(r)'
  BY <1>1, <1>2, <1>3 DEF RestoreOK, ConfigOK, ConfigKept, ConfigReplaced,
     Restore!live, Restore!filesOf, Restore!flags
<1>6. ServiceOK(r)'
  BY <1>1, <1>2, <1>3 DEF RestoreOK, ServiceOK, Ahead, DataOK, ConfigOK, Replaced, ConfigReplaced,
     Undoing, Out,
     Restore!live, Restore!filesOf, Restore!flags, Restore!history
<1> QED
  BY <1>4, <1>5, <1>6 DEF RestoreOK

LEMMA SwapConfigStaysOK ==
  ASSUME RestoreTypes, NEW r \in Visitor, RestoreOK(r), Restore!SwapConfig(r), failures' <= 1
  PROVE  RestoreOK(r)'
<1>1. pc[r] = "swap config"
  BY GotoMoves DEF RestoreTypes, RestoreFlagTypes, Restore!SwapConfig
<1>2. \/ /\ config' = tempConfig[r] /\ configReplaced'[r] = TRUE
         /\ \/ pc'[r] = "start"
            \/ pc'[r] = "undo stop" /\ failures' = 1
      \/ /\ pc'[r] = "undo stop" /\ failures' = 1
         /\ config' = config /\ configReplaced' = configReplaced
  BY FailsOnce, GotoMoves, <1>1
  DEF RestoreTypes, RestoreFileTypes, RestoreFlagTypes, Restore!SwapConfig, Undoing
<1>3. UNCHANGED <<data, tempData, rollbackData, rollbackConfig, running, wasRunning, dataReplaced,
                  before, serviceFailed, unseen>>
  BY FailsOnce, <1>1 DEF Restore!SwapConfig, Restore!filesOf, Restore!flags, Restore!live,
     Restore!history, Undoing
<1>4. DataOK(r)'
  BY <1>1, <1>2, <1>3 DEF RestoreOK, DataOK, Out, Untouched, PutAside, Replaced, PutBack,
     Restore!live, Restore!filesOf, Restore!flags
<1>5. ConfigOK(r)'
  BY <1>1, <1>2, <1>3 DEF RestoreOK, ConfigOK, ConfigKept, ConfigReplaced,
     Restore!live, Restore!filesOf, Restore!flags
<1>6. ServiceOK(r)'
  BY <1>1, <1>2, <1>3 DEF RestoreOK, ServiceOK, Ahead, DataOK, ConfigOK, Replaced, ConfigReplaced,
     Undoing, Out,
     Restore!live, Restore!filesOf, Restore!flags, Restore!history
<1> QED
  BY <1>4, <1>5, <1>6 DEF RestoreOK

LEMMA StartServiceStaysOK ==
  ASSUME RestoreTypes, NEW r \in Visitor, RestoreOK(r), Restore!StartService(r), failures' <= 1
  PROVE  RestoreOK(r)'
<1>1. pc[r] = "start"
  BY GotoMoves DEF RestoreTypes, RestoreFlagTypes, Restore!StartService
<1>2. \/ pc'[r] = "commit"
      \/ pc'[r] = "undo stop" /\ failures' = 1
  BY FailsOnce, GotoMoves, <1>1
  DEF RestoreTypes, RestoreFileTypes, RestoreFlagTypes, Restore!StartService,
      Restore!ServiceCommandFails, Undoing
<1>3. UNCHANGED <<Restore!live, Restore!filesOf, Restore!flags, before, unseen>>
  BY FailsOnce, <1>1 DEF Restore!StartService, Restore!filesOf, Restore!flags, Restore!live,
     Restore!history, Restore!ServiceCommandFails, Undoing
<1>4. DataOK(r)'
  BY <1>1, <1>2, <1>3 DEF RestoreOK, DataOK, Out, Untouched, PutAside, Replaced, PutBack,
     Restore!live, Restore!filesOf, Restore!flags
<1>5. ConfigOK(r)'
  BY <1>1, <1>2, <1>3 DEF RestoreOK, ConfigOK, ConfigKept, ConfigReplaced,
     Restore!live, Restore!filesOf, Restore!flags
<1>6. ServiceOK(r)'
  BY <1>1, <1>2, <1>3 DEF RestoreOK, ServiceOK, Ahead, DataOK, ConfigOK, Replaced, ConfigReplaced,
     Undoing, Out,
     Restore!live, Restore!filesOf, Restore!flags, Restore!history
<1> QED
  BY <1>4, <1>5, <1>6 DEF RestoreOK

LEMMA CommitStaysOK ==
  ASSUME RestoreTypes, NEW r \in Visitor, RestoreOK(r), Restore!Commit(r), failures' <= 1
  PROVE  RestoreOK(r)'
<1>1. pc[r] = "commit" /\ pc'[r] = "cleanup restored"
  BY GotoMoves DEF RestoreTypes, RestoreFlagTypes, Restore!Commit
<1>2. UNCHANGED <<Restore!live, Restore!filesOf, running, Restore!flags, Restore!history>>
  BY FailsOnce, <1>1 DEF Restore!Commit, Restore!filesOf, Restore!flags, Restore!live,
     Restore!history, Undoing
<1>3. DataOK(r)'
  BY <1>1, <1>2 DEF RestoreOK, DataOK, Out, Untouched, PutAside, Replaced, PutBack,
     Restore!live, Restore!filesOf, Restore!flags, Restore!history
<1>4. ConfigOK(r)'
  BY <1>1, <1>2 DEF RestoreOK, ConfigOK, ConfigKept, ConfigReplaced,
     Restore!live, Restore!filesOf, Restore!flags, Restore!history
<1>5. ServiceOK(r)'
  BY <1>1, <1>2 DEF RestoreOK, ServiceOK, Ahead, DataOK, ConfigOK, Replaced, ConfigReplaced,
     Undoing, Out,
     Restore!live, Restore!filesOf, Restore!flags, Restore!history
<1> QED
  BY <1>3, <1>4, <1>5 DEF RestoreOK

LEMMA UndoStopStaysOK ==
  ASSUME RestoreTypes, NEW r \in Visitor, RestoreOK(r), Restore!UndoStop(r), failures' <= 1
  PROVE  RestoreOK(r)'
<1>1. pc[r] = "undo stop" /\ pc'[r] = "undo data"
  BY GotoMoves DEF RestoreTypes, RestoreFlagTypes, Restore!UndoStop
<1>2. running' = FALSE /\ failures' = failures
  BY FailsOnce, GotoMoves, <1>1
  DEF RestoreTypes, RestoreFileTypes, RestoreFlagTypes, Restore!UndoStop,
      Restore!ServiceCommandFails, Undoing
<1>3. UNCHANGED <<Restore!live, Restore!filesOf, Restore!flags, before, unseen>>
  BY FailsOnce, <1>1 DEF Restore!UndoStop, Restore!filesOf, Restore!flags, Restore!live,
     Restore!history, Restore!ServiceCommandFails, Undoing
<1>4. DataOK(r)'
  BY <1>1, <1>2, <1>3 DEF RestoreOK, DataOK, Out, Untouched, PutAside, Replaced, PutBack,
     Restore!live, Restore!filesOf, Restore!flags
<1>5. ConfigOK(r)'
  BY <1>1, <1>2, <1>3 DEF RestoreOK, ConfigOK, ConfigKept, ConfigReplaced,
     Restore!live, Restore!filesOf, Restore!flags
<1>6. ServiceOK(r)'
  BY <1>1, <1>2, <1>3 DEF RestoreOK, ServiceOK, Ahead, DataOK, ConfigOK, Replaced, ConfigReplaced,
     Undoing, Out,
     Restore!live, Restore!filesOf, Restore!flags, Restore!history
<1> QED
  BY <1>4, <1>5, <1>6 DEF RestoreOK

LEMMA UndoDataStaysOK ==
  ASSUME RestoreTypes, NEW r \in Visitor, RestoreOK(r), Restore!UndoData(r), failures' <= 1
  PROVE  RestoreOK(r)'
<1>1. /\ pc[r] = "undo data"
      /\ pc'[r] = (IF dataReplaced[r] THEN "undo rename" ELSE "undo config")
  BY GotoMoves DEF RestoreTypes, RestoreFlagTypes, Restore!UndoData
<1>2. /\ data' = (IF dataReplaced[r] THEN Nothing ELSE data)
      /\ failures' = failures
  BY FailsOnce, GotoMoves, <1>1
  DEF RestoreTypes, RestoreFileTypes, RestoreFlagTypes, Restore!UndoData, Undoing
<1>3. UNCHANGED <<config, Restore!filesOf, running, Restore!flags, before, unseen>>
  BY FailsOnce, <1>1 DEF Restore!UndoData, Restore!filesOf, Restore!flags, Restore!live,
     Restore!history, Undoing
<1>4. DataOK(r)'
  BY <1>1, <1>2, <1>3 DEF RestoreOK, DataOK, Out, Untouched, PutAside, Replaced, PutBack,
     Restore!live, Restore!filesOf, Restore!flags
<1>5. ConfigOK(r)'
  BY <1>1, <1>2, <1>3 DEF RestoreOK, ConfigOK, ConfigKept, ConfigReplaced,
     Restore!live, Restore!filesOf, Restore!flags
<1>6. ServiceOK(r)'
  BY <1>1, <1>2, <1>3 DEF RestoreOK, ServiceOK, Ahead, DataOK, ConfigOK, Replaced, ConfigReplaced,
     Undoing, Out,
     Restore!live, Restore!filesOf, Restore!flags, Restore!history
<1> QED
  BY <1>4, <1>5, <1>6 DEF RestoreOK

LEMMA UndoRenameStaysOK ==
  ASSUME RestoreTypes, NEW r \in Visitor, RestoreOK(r), Restore!UndoRename(r), failures' <= 1
  PROVE  RestoreOK(r)'
<1>1. pc[r] = "undo rename" /\ pc'[r] = "undo config"
  BY GotoMoves DEF RestoreTypes, RestoreFlagTypes, Restore!UndoRename
<1>2. \/ /\ data = Nothing /\ rollbackData[r] # Nothing
         /\ data' = rollbackData[r] /\ rollbackData'[r] = Nothing
      \/ /\ data # Nothing \/ rollbackData[r] = Nothing
         /\ data' = data /\ rollbackData' = rollbackData
  BY FailsOnce, GotoMoves, <1>1
  DEF RestoreTypes, RestoreFileTypes, RestoreFlagTypes, Restore!UndoRename, Undoing
<1>3. failures' = failures
  BY FailsOnce, GotoMoves, <1>1
  DEF RestoreTypes, RestoreFileTypes, RestoreFlagTypes, Restore!UndoRename, Undoing
<1>4. UNCHANGED <<config, tempData, tempConfig, rollbackConfig, running, Restore!flags, before,
               unseen>>
  BY FailsOnce, <1>1 DEF Restore!UndoRename, Restore!filesOf, Restore!flags, Restore!live,
     Restore!history, Undoing
<1>5. DataOK(r)'
  BY <1>1, <1>2, <1>3, <1>4 DEF RestoreOK, DataOK, Out, Untouched, PutAside, Replaced, PutBack,
     Restore!live, Restore!filesOf, Restore!flags
<1>6. ConfigOK(r)'
  BY <1>1, <1>2, <1>3, <1>4 DEF RestoreOK, ConfigOK, ConfigKept, ConfigReplaced,
     Restore!live, Restore!filesOf, Restore!flags
<1>7. ServiceOK(r)'
  BY <1>1, <1>2, <1>3, <1>4 DEF RestoreOK, ServiceOK, Ahead, DataOK, ConfigOK, Replaced,
     ConfigReplaced,
     Undoing, Out,
     Restore!live, Restore!filesOf, Restore!flags, Restore!history
<1> QED
  BY <1>5, <1>6, <1>7 DEF RestoreOK

LEMMA UndoConfigStaysOK ==
  ASSUME RestoreTypes, NEW r \in Visitor, RestoreOK(r), Restore!UndoConfig(r), failures' <= 1
  PROVE  RestoreOK(r)'
<1>1. pc[r] = "undo config" /\ pc'[r] = "undo start"
  BY GotoMoves DEF RestoreTypes, RestoreFlagTypes, Restore!UndoConfig
<1>2. config' = IF configReplaced[r] THEN rollbackConfig[r] ELSE config
  BY FailsOnce, GotoMoves, <1>1
  DEF RestoreTypes, RestoreFileTypes, RestoreFlagTypes, Restore!UndoConfig, Undoing
<1>3. failures' = failures
  BY FailsOnce, GotoMoves, <1>1
  DEF RestoreTypes, RestoreFileTypes, RestoreFlagTypes, Restore!UndoConfig, Undoing
<1>4. UNCHANGED <<data, tempData, tempConfig, rollbackData, running, Restore!flags, before, unseen>>
  BY FailsOnce, <1>1 DEF Restore!UndoConfig, Restore!filesOf, Restore!flags, Restore!live,
     Restore!history, Undoing
<1>5. DataOK(r)'
  BY <1>1, <1>2, <1>3, <1>4 DEF RestoreOK, DataOK, Out, Untouched, PutAside, Replaced, PutBack,
     Restore!live, Restore!filesOf, Restore!flags
<1>6. ConfigOK(r)'
  BY <1>1, <1>2, <1>3, <1>4 DEF RestoreOK, ConfigOK, ConfigKept, ConfigReplaced,
     Restore!live, Restore!filesOf, Restore!flags
<1>7. ServiceOK(r)'
  BY <1>1, <1>2, <1>3, <1>4 DEF RestoreOK, ServiceOK, Ahead, DataOK, ConfigOK, Replaced,
     ConfigReplaced,
     Undoing, Out,
     Restore!live, Restore!filesOf, Restore!flags, Restore!history
<1> QED
  BY <1>5, <1>6, <1>7 DEF RestoreOK

LEMMA UndoStartStaysOK ==
  ASSUME RestoreTypes, NEW r \in Visitor, RestoreOK(r), Restore!UndoStart(r), failures' <= 1
  PROVE  RestoreOK(r)'
<1>1. pc[r] = "undo start" /\ pc'[r] = "cleanup"
  BY GotoMoves DEF RestoreTypes, RestoreFlagTypes, Restore!UndoStart
<1>2. ~running => running' = wasRunning[r]
  BY FailsOnce, GotoMoves, <1>1
  DEF RestoreTypes, RestoreFileTypes, RestoreFlagTypes, Restore!UndoStart,
      Restore!ServiceCommandFails, Undoing
<1>3. UNCHANGED <<Restore!live, Restore!filesOf, Restore!flags, before, serviceFailed, unseen>>
  BY FailsOnce, <1>1 DEF Restore!UndoStart, Restore!filesOf, Restore!flags, Restore!live,
     Restore!history, Restore!ServiceCommandFails, Undoing
<1>4. DataOK(r)'
  BY <1>1, <1>2, <1>3 DEF RestoreOK, DataOK, Out, Untouched, PutAside, Replaced, PutBack,
     Restore!live, Restore!filesOf, Restore!flags
<1>5. ConfigOK(r)'
  BY <1>1, <1>2, <1>3 DEF RestoreOK, ConfigOK, ConfigKept, ConfigReplaced,
     Restore!live, Restore!filesOf, Restore!flags
<1>6. ServiceOK(r)'
  <2>1. before[r][3] \in BOOLEAN /\ running \in BOOLEAN /\ unseen[r] \in BOOLEAN
        /\ wasRunning[r] \in BOOLEAN
    BY DEF RestoreTypes, RestoreFlagTypes
  <2> QED
    BY <2>1, <1>1, <1>2, <1>3 DEF RestoreOK, ServiceOK, Ahead, DataOK, ConfigOK, Replaced,
       ConfigReplaced,
       Undoing, Out,
       Restore!live, Restore!filesOf, Restore!flags, Restore!history
<1> QED
  BY <1>4, <1>5, <1>6 DEF RestoreOK

LEMMA CleanupStaysOK ==
  ASSUME RestoreTypes, NEW r \in Visitor, RestoreOK(r), Restore!Cleanup(r), failures' <= 1
  PROVE  RestoreOK(r)'
<1>1. /\ pc[r] \in {"cleanup", "cleanup restored"}
      /\ pc'[r] = (IF pc[r] = "cleanup" THEN "failed" ELSE "restored")
  BY GotoMoves DEF RestoreTypes, RestoreFlagTypes, Restore!Cleanup
<1>2. rollbackData'[r] = Nothing
  BY FailsOnce, GotoMoves, <1>1
  DEF RestoreTypes, RestoreFileTypes, RestoreFlagTypes, Restore!Cleanup, Undoing
<1>3. UNCHANGED <<Restore!live, Restore!flags, before, unseen>>
  BY FailsOnce, <1>1 DEF Restore!Cleanup, Restore!filesOf, Restore!flags, Restore!live,
     Restore!history, Undoing
<1>4. DataOK(r)'
  BY <1>1, <1>2, <1>3 DEF RestoreOK, DataOK, Out, Untouched, PutAside, Replaced, PutBack,
     Restore!live, Restore!filesOf, Restore!flags
<1>5. ConfigOK(r)'
  BY <1>1, <1>2, <1>3 DEF RestoreOK, ConfigOK, ConfigKept, ConfigReplaced,
     Restore!live, Restore!filesOf, Restore!flags
<1>6. ServiceOK(r)'
  BY <1>1, <1>2, <1>3 DEF RestoreOK, ServiceOK, Ahead, DataOK, ConfigOK, Replaced, ConfigReplaced,
     Undoing, Out,
     Restore!live, Restore!filesOf, Restore!flags, Restore!history
<1> QED
  BY <1>4, <1>5, <1>6 DEF RestoreOK

LEMMA KillStaysOK ==
  ASSUME RestoreTypes, NEW r \in Visitor, RestoreOK(r), Restore!Kill(r), failures' <= 1
  PROVE  RestoreOK(r)'
<1>1. pc'[r] = "killed"
  BY GotoMoves DEF RestoreTypes, RestoreFlagTypes, Restore!Kill
<1>2. UNCHANGED <<rollbackData, before, unseen>>
  BY FailsOnce, <1>1 DEF Restore!Kill, Restore!filesOf, Restore!flags, Restore!live,
     Restore!history, Undoing
<1>3. DataOK(r)'
  BY <1>1, <1>2 DEF RestoreOK, DataOK, Out, Untouched, PutAside, Replaced, PutBack,
     Restore!live, Restore!filesOf, Restore!flags
<1>4. ConfigOK(r)'
  BY <1>1, <1>2 DEF RestoreOK, ConfigOK, ConfigKept, ConfigReplaced,
     Restore!live, Restore!filesOf, Restore!flags
<1>5. ServiceOK(r)'
  BY <1>1, <1>2 DEF RestoreOK, ServiceOK, Ahead, DataOK, ConfigOK, Replaced, ConfigReplaced,
     Undoing, Out,
     Restore!live, Restore!filesOf, Restore!flags, Restore!history
<1> QED
  BY <1>3, <1>4, <1>5 DEF RestoreOK

(* Together: the holder of the lock keeps what the invariant says of it.   *)
LEMMA WorkStaysOK ==
  ASSUME RestoreTypes, NEW r \in Visitor, RestoreOK(r), Work(r), failures' <= 1
  PROVE  RestoreOK(r)'
BY InspectArchiveStaysOK, UnpackStaysOK, StopServiceStaysOK, CopyConfigStaysOK,
   SaveDataStaysOK, SwapDataStaysOK, SwapConfigStaysOK, StartServiceStaysOK, CommitStaysOK,
   UndoStopStaysOK, UndoDataStaysOK, UndoRenameStaysOK, UndoConfigStaysOK,
   UndoStartStaysOK, CleanupStaysOK, KillStaysOK DEF Work

(* The content of the data directory comes from the archive or from before.*)
LEMMA DataChanges ==
  ASSUME RestoreTypes, NEW r \in Visitor, RestoreOK(r), Work(r), failures' <= 1
  PROVE  data' \in {data, Nothing, r, before[r][1]}
<1>1. pc[r] \in Undoing => ~Restore!Fail
  BY FailsOnce
<1>2. pc[r] = "swap data" => tempData[r] = r
  BY DEF RestoreOK, DataOK
<1>3. rollbackData[r] \in {Nothing, before[r][1]}
  BY DEF RestoreOK, DataOK
<1> QED
  BY <1>1, <1>2, <1>3 DEF Work, Undoing, Restore!live, Restore!InspectArchive, Restore!Unpack,
     Restore!StopService, Restore!CopyConfig,
     Restore!SaveData, Restore!SwapData, Restore!SwapConfig, Restore!StartService, Restore!Commit,
     Restore!UndoStop, Restore!UndoData, Restore!UndoRename,
     Restore!UndoConfig, Restore!UndoStart, Restore!Cleanup, Restore!Kill

(* A step that keeps the data of an earlier restore: it drops nothing but  *)
(* what it installed itself.                                               *)
LEMMA NothingIsLost ==
  ASSUME RestoreTypes, NEW r \in Visitor, RestoreOK(r), Work(r), failures' <= 1,
         pc'[r] # "restored", NEW x \in {data, rollbackData[r]}, x # Nothing, x # r
  PROVE  x \in {data', rollbackData'[r]}
<1>0. RestoreFileTypes /\ (pc[r] \in Undoing => ~Restore!Fail) /\ DataOK(r)
  BY FailsOnce DEF RestoreTypes, RestoreOK
<1>1. CASE Restore!SaveData(r)
  BY <1>0, <1>1 DEF Restore!SaveData, DataOK, Untouched, RestoreFileTypes
<1>2. CASE Restore!SwapData(r)
  BY <1>0, <1>2 DEF Restore!SwapData, DataOK, PutAside, RestoreFileTypes
<1>3. CASE Restore!UndoData(r)
  BY <1>0, <1>3 DEF Restore!UndoData, DataOK, Untouched, Replaced, Restore!filesOf, Undoing
<1>4. CASE Restore!UndoRename(r)
  BY <1>0, <1>4 DEF Restore!UndoRename, DataOK, PutAside, Undoing, RestoreFileTypes
<1>5. CASE Restore!Cleanup(r)
  <2>1. pc[r] = "cleanup"
    BY <1>5, GotoMoves DEF Restore!Cleanup, RestoreTypes
  <2> QED
    BY <1>0, <1>5, <2>1 DEF Restore!Cleanup, DataOK, PutBack, Restore!live
<1>6. CASE UNCHANGED <<data, rollbackData>>
  BY <1>6
<1> QED
  BY <1>1, <1>2, <1>3, <1>4, <1>5, <1>6 DEF Work, Restore!live, Restore!filesOf,
     Restore!InspectArchive, Restore!Unpack,
     Restore!StopService, Restore!CopyConfig, Restore!SwapConfig, Restore!StartService,
     Restore!Commit, Restore!UndoStop, Restore!UndoConfig,
     Restore!UndoStart, Restore!Kill

(* A restore that works is not waiting, and ends when it cleans up.        *)
LEMMA WorkStages ==
  ASSUME RestoreTypes, LockHeld, NEW r \in Visitor, Work(r)
  PROVE  /\ pc[r] \notin Out
         /\ pc'[r] \notin {"ready", "refused"}
         /\ pc'[r] \in {"failed", "restored"} => Restore!Cleanup(r)
         /\ pc'[r] = "killed" => Restore!Kill(r)
<1>1. CASE Restore!Cleanup(r)
  <2>1. /\ pc[r] \in {"cleanup", "cleanup restored"}
        /\ pc'[r] = (IF pc[r] = "cleanup" THEN "failed" ELSE "restored")
    BY <1>1, GotoMoves DEF RestoreTypes, Restore!Cleanup
  <2> QED
    BY <1>1, <2>1 DEF Out
<1>2. CASE Restore!Kill(r)
  BY <1>2, GotoMoves DEF RestoreTypes, LockHeld, Restore!Kill
<1>3. CASE ~(Restore!Cleanup(r) \/ Restore!Kill(r))
  <2>1. pc[r] \notin Out
    BY <1>3 DEF Out, Work, Restore!InspectArchive, Restore!Unpack, Restore!StopService,
       Restore!CopyConfig, Restore!SaveData, Restore!SwapData,
       Restore!SwapConfig, Restore!StartService, Restore!Commit, Restore!UndoStop,
       Restore!UndoData, Restore!UndoRename, Restore!UndoConfig, Restore!UndoStart
  <2>2. \E next : next \notin Out /\ Restore!Goto(r, next)
    BY <1>3, Zenon DEF Out, Work, Restore!InspectArchive, Restore!Unpack, Restore!StopService,
       Restore!CopyConfig, Restore!SaveData,
       Restore!SwapData, Restore!SwapConfig, Restore!StartService, Restore!Commit,
       Restore!UndoStop, Restore!UndoData, Restore!UndoRename, Restore!UndoConfig,
       Restore!UndoStart
  <2> QED
    BY <2>1, <2>2, GotoMoves DEF RestoreTypes, Out
<1> QED
  BY <1>1, <1>2, <1>3

(* A step of one restore keeps what the invariant says of the others ...   *)
LEMMA OtherRestoresStayOK ==
  ASSUME RestoreTypes, LockHeld, RestoreGood, NEW r \in Visitor, Work(r), failures' <= 1,
         NEW s \in Visitor, s # r
  PROVE  RestoreOK(s)'
<1>1. pc[s] \in Out /\ pc[r] \notin Out
  BY WorkKeepsLock, WorkStages DEF LockHeld
<1>2. RestoreOK(r) /\ RestoreOK(s)
  BY DEF RestoreGood
<1>3. pc[s] \in {"ready", "refused"} => data' # s
  <2>1. data' \in {data, Nothing, r, before[r][1]}
    BY <1>2, DataChanges
  <2>2. pc[s] \in {"ready", "refused"} => before[r][1] # s
    BY <1>1 DEF RestoreGood, NothingNewIsOld, Out
  <2> QED
    BY <2>1, <2>2, <1>2, RestoreAssumption DEF RestoreOK, DataOK
<1>4. DataOK(s)'
  BY <1>1, <1>2, <1>3, RestoreAlone DEF RestoreOK, DataOK, Out
<1>5. ConfigOK(s)'
  BY <1>1, <1>2, RestoreAlone DEF RestoreOK, ConfigOK, Out
<1>6. ServiceOK(s)'
  BY <1>1, <1>2, RestoreAlone DEF RestoreOK, ServiceOK, Ahead, Out, Undoing
<1> QED
  BY <1>4, <1>5, <1>6 DEF RestoreOK

(* ... and of what is installed.                                           *)
LEMMA WorkKeepsGood ==
  ASSUME RestoreTypes, LockHeld, RestoreGood, NEW r \in Visitor, Work(r), failures' <= 1
  PROVE  RestoreGood'
<1>0. RestoreOK(r) /\ lock = r /\ before' = before
  BY WorkKeepsLock DEF RestoreGood, Work, Restore!history, Restore!InspectArchive, Restore!Unpack,
     Restore!StopService,
     Restore!CopyConfig, Restore!SaveData, Restore!SwapData, Restore!SwapConfig,
     Restore!StartService, Restore!Commit, Restore!UndoStop, Restore!UndoData,
     Restore!UndoRename, Restore!UndoConfig, Restore!UndoStart, Restore!Cleanup, Restore!Kill
<1>1. \A s \in Visitor : RestoreOK(s)'
  BY <1>0, WorkStaysOK, OtherRestoresStayOK
<1>2. ASSUME NEW s \in Visitor  PROVE Settled(s)'
  <2>1. CASE s # r
    BY <2>1, WorkStages DEF Settled, Alone
  <2>2. CASE s = r /\ Restore!Cleanup(r)
    <3>1. /\ \/ pc[r] = "cleanup" /\ pc'[r] = "failed"
             \/ pc[r] = "cleanup restored" /\ pc'[r] = "restored"
          /\ UNCHANGED <<data, config, running, serviceFailed, unseen>>
      BY <2>2, GotoMoves DEF Restore!Cleanup, RestoreTypes, Restore!live, Restore!history
    <3>2. pc[r] = "cleanup" => /\ data = before[r][1] /\ config = before[r][2]
                               /\ running = before[r][3] \/ serviceFailed[r] \/ unseen[r]
      BY <1>0 DEF RestoreOK, DataOK, ConfigOK, ServiceOK, PutBack
    <3>3. pc[r] = "cleanup restored" => data = r /\ config = r
      BY <1>0 DEF RestoreOK, DataOK, ConfigOK, Replaced, ConfigReplaced
    <3> QED
      BY <1>0, <2>2, <3>1, <3>2, <3>3 DEF Settled
  <2>3. CASE s = r /\ ~Restore!Cleanup(r)
    BY <2>3, WorkStages DEF Settled
  <2> QED
    BY <2>1, <2>2, <2>3
<1>3. NothingNewIsOld'
  BY <1>0, WorkStages, RestoreAlone DEF RestoreGood, NothingNewIsOld, Out
<1>4. NoMixture'
  <2>1. SUFFICES ASSUME crashes' = 0  PROVE NoMixture'
    BY DEF NoMixture
  <2>2. crashes = 0
    BY <2>1, WorkMoves DEF RestoreTypes, RestoreControlTypes
  <2>3. Coherent(before[r][1], before[r][2])
    BY <1>0, <2>2, RestoreAssumption DEF RestoreGood, NoMixture
  <2>4. CASE lock' = r
    BY <1>0, <2>3, <2>4, RestoreAssumption DEF NoMixture
  <2>5. CASE lock' # r
    <3>1. Restore!Cleanup(r)
      <4>1. ~Restore!Kill(r)
        BY <2>1, <2>2 DEF Restore!Kill
      <4> QED
        BY <1>0, <2>5, <4>1 DEF Work, Restore!InspectArchive, Restore!Unpack, Restore!StopService,
           Restore!CopyConfig, Restore!SaveData,
           Restore!SwapData, Restore!SwapConfig, Restore!StartService, Restore!Commit,
           Restore!UndoStop, Restore!UndoData, Restore!UndoRename,
           Restore!UndoConfig, Restore!UndoStart
    <3>2. pc[r] = "cleanup" => data = before[r][1] /\ config = before[r][2]
      BY <1>0 DEF RestoreOK, DataOK, ConfigOK, PutBack
    <3>3. pc[r] = "cleanup restored" => data = r /\ config = r
      BY <1>0 DEF RestoreOK, DataOK, ConfigOK, Replaced, ConfigReplaced
    <3>4. Coherent(data, config)
      BY <2>3, <3>1, <3>2, <3>3 DEF Coherent, Restore!Cleanup
    <3> QED
      BY <3>1, <3>4 DEF NoMixture, Restore!Cleanup, Restore!live
  <2> QED
    BY <2>4, <2>5
<1> QED
  BY <1>1, <1>2, <1>3, <1>4 DEF RestoreGood

(* The data that a restore found is where it left it.                      *)
LEMMA WorkKeepsOldData ==
  ASSUME RestoreInv, NEW r \in Visitor, Work(r)
  PROVE  Restore!OldDataSurvives'
<1> SUFFICES ASSUME failures' <= 1, NEW q \in Visitor,
                    pc'[q] \notin {"ready", "refused", "restored", "cleanup restored"},
                    \A s \in Visitor \ {q} : pc'[s] # "restored"
             PROVE  \/ before'[q][1] = data'
                    \/ \E s \in Visitor : before'[q][1] = rollbackData'[s]
  BY DEF Restore!OldDataSurvives
<1>a. RestoreTypes /\ LockHeld
  BY DEF RestoreInv
<1>b. failures <= 1 /\ RestoreGood
  <2>1. failures <= 1
    BY <1>a, FailuresGrow DEF RestoreTypes
  <2> QED
    BY <2>1 DEF RestoreInv
<1>c. before' = before
  BY DEF Work, Restore!history, Restore!InspectArchive, Restore!Unpack, Restore!StopService,
     Restore!CopyConfig, Restore!SaveData, Restore!SwapData,
     Restore!SwapConfig, Restore!StartService, Restore!Commit, Restore!UndoStop, Restore!UndoData,
     Restore!UndoRename, Restore!UndoConfig, Restore!UndoStart,
     Restore!Cleanup, Restore!Kill
<1>0. failures <= 1 /\ RestoreGood /\ RestoreTypes /\ LockHeld /\ before' = before
  BY <1>a, <1>b, <1>c
<1>1. RestoreOK(r) /\ RestoreOK(q) /\ RestoreOK(q)' /\ lock = r
  BY <1>0, WorkKeepsLock, WorkKeepsGood DEF RestoreGood
<1>2. CASE q = r
  <2>1. CASE Restore!Cleanup(r)
    BY <1>0, <1>1, <1>2, <2>1, GotoMoves
    DEF Restore!Cleanup, RestoreTypes, Restore!live, RestoreOK, DataOK, PutBack
  <2>2. CASE Restore!Kill(r)
    <3>1. UNCHANGED <<data, rollbackData>>
      BY <2>2 DEF Restore!Kill, Restore!live, Restore!filesOf
    <3>2. before[r][1] \in {data, rollbackData[r]}
      BY <1>0, <1>1 DEF LockHeld, RestoreOK, DataOK
    <3> QED
      BY <1>0, <1>2, <3>1, <3>2
  <2>3. CASE pc'[r] \notin Out
    BY <1>1, <1>2, <2>3 DEF RestoreOK, DataOK
  <2> QED
    BY <1>0, <1>2, <2>1, <2>2, <2>3, WorkStages DEF Out
<1>3. CASE q # r
  <2>1. pc'[q] = pc[q] /\ pc[q] \in Out /\ pc[r] \notin Out
    BY <1>0, <1>1, <1>3, RestoreAlone, WorkStages DEF LockHeld
  <2>2. \A s \in Visitor \ {q} : pc[s] # "restored"
    BY <1>0, <2>1, RestoreAlone DEF Out
  <2>3. \/ before[q][1] = data
        \/ \E s \in Visitor : before[q][1] = rollbackData[s]
    BY <1>0, <2>1, <2>2 DEF RestoreInv, Restore!OldDataSurvives
  <2>4. before[q][1] # r /\ rollbackData[q] \in {Nothing, before[q][1]}
    BY <1>0, <1>1, <2>1 DEF RestoreGood, NothingNewIsOld, RestoreOK, DataOK, Out
  <2>5. \A s \in Visitor \ {r} : rollbackData'[s] = rollbackData[s]
    BY <1>0, RestoreAlone
  <2>6. CASE before[q][1] \in {data, rollbackData[r]} /\ before[q][1] # Nothing
    BY <1>0, <1>1, <1>3, <2>4, <2>6, NothingIsLost
  <2>7. CASE before[q][1] = Nothing
    BY <1>0, <1>3, <2>4, <2>5, <2>7
  <2> QED
    BY <1>0, <2>3, <2>5, <2>6, <2>7
<1> QED
  BY <1>2, <1>3

(* A restore that begins finds the lock free, or is refused.               *)
LEMMA BeginKeepsInvariant ==
  ASSUME RestoreInv, NEW r \in Visitor, Restore!Begin(r)
  PROVE  RestoreInv'
<1>0. /\ RestoreTypes /\ RestoreFlagTypes /\ LockHeld /\ pc[r] = "ready"
      /\ UNCHANGED <<data, config, tempData, tempConfig, rollbackData, rollbackConfig, running,
                     wasRunning, dataReplaced, configReplaced, serviceFailed, unseen, failures,
                     crashes>>
  BY DEF RestoreInv, RestoreTypes, Restore!Begin, Restore!live, Restore!filesOf, Restore!flags
<1>1. /\ before'[r] = <<data, config, running>>
      /\ \A s \in Visitor \ {r} : before'[s] = before[s] /\ pc'[s] = pc[s]
  BY <1>0, GotoMoves DEF Restore!Begin, RestoreTypes, RestoreFlagTypes
<1>b. before'[r][1] = data
  BY <1>1
<1>2. \/ lock = Nothing /\ lock' = r /\ pc'[r] = "inspect"
      \/ lock # Nothing /\ lock' = lock /\ pc'[r] = "refused"
  BY <1>0, GotoMoves DEF Restore!Begin, RestoreTypes
<1>3. RestoreTypes'
  BY <1>0, BeginKeepsTypes
<1>4. LockHeld'
  BY <1>0, <1>1, <1>2, RestoreAssumption DEF LockHeld, Out
<1>5. ASSUME failures' <= 1  PROVE RestoreGood'
  <2>0. RestoreGood
    BY <1>0, <1>5 DEF RestoreInv
  <2>1. ASSUME NEW s \in Visitor, s # r  PROVE RestoreOK(s)'
    <3>1. RestoreOK(s)
      BY <2>0 DEF RestoreGood
    <3>2. DataOK(s)'
      BY <1>0, <1>1, <2>1, <3>1 DEF RestoreOK, DataOK, Untouched, PutAside, Replaced, PutBack
    <3>3. ConfigOK(s)'
      BY <1>0, <1>1, <2>1, <3>1 DEF RestoreOK, ConfigOK, ConfigKept, ConfigReplaced
    <3>4. ServiceOK(s)'
      BY <1>0, <1>1, <2>1, <3>1 DEF RestoreOK, ServiceOK
    <3> QED
      BY <3>2, <3>3, <3>4 DEF RestoreOK
  <2>2. RestoreOK(r)'
    <3>1. /\ ~dataReplaced[r] /\ ~configReplaced[r] /\ rollbackData[r] = Nothing /\ data # r
      BY <1>0, <2>0 DEF RestoreGood, RestoreOK, DataOK, ConfigOK
    <3>2. before'[r][1] = data /\ before'[r][2] = config /\ before'[r][3] = running
      BY <1>1
    <3>3. pc'[r] = "inspect" \/ pc'[r] = "refused"
      BY <1>2
    <3>4. DataOK(r)'
      BY <1>0, <3>1, <3>2, <3>3 DEF DataOK, Untouched, Out
    <3>5. ConfigOK(r)'
      BY <1>0, <3>1, <3>2, <3>3 DEF ConfigOK, ConfigKept
    <3>6. ServiceOK(r)'
      BY <1>0, <2>0, <3>2, <3>3 DEF RestoreGood, RestoreOK, ServiceOK, Ahead, Undoing, Out
    <3> QED
      BY <3>4, <3>5, <3>6 DEF RestoreOK
  <2>3. ASSUME NEW s \in Visitor  PROVE Settled(s)'
    BY <1>0, <1>1, <1>2, <2>0, <2>3 DEF RestoreGood, Settled, Alone
  <2>4. NothingNewIsOld'
    <3>1. ASSUME NEW s \in Visitor, pc'[s] \notin {"failed", "restored", "killed"},
                 lock = Nothing
          PROVE  data # s
      BY <1>0, <1>1, <2>0, <3>1, RestoreAssumption DEF RestoreGood, RestoreOK, DataOK, LockHeld, Out
    <3> QED
      BY <1>0, <1>1, <1>2, <2>0, <3>1 DEF RestoreGood, NothingNewIsOld
  <2>5. NoMixture'
    BY <1>0, <1>1, <1>2, <2>0, RestoreAssumption DEF RestoreGood, NoMixture, LockHeld, Out,
       RestoreTypes, RestoreControlTypes
  <2> QED
    BY <2>1, <2>2, <2>3, <2>4, <2>5 DEF RestoreGood
<1>6. Restore!OldDataSurvives'
  <2> SUFFICES ASSUME failures' <= 1, NEW q \in Visitor,
                      pc'[q] \notin {"ready", "refused", "restored", "cleanup restored"},
                      \A s \in Visitor \ {q} : pc'[s] # "restored"
               PROVE  \/ before'[q][1] = data'
                      \/ \E s \in Visitor : before'[q][1] = rollbackData'[s]
    BY DEF Restore!OldDataSurvives
  <2>1. CASE q = r
    <3>1. data' = data
      BY <1>0
    <3> QED
      BY <1>b, <2>1, <3>1
  <2>2. CASE q # r
    <3>1. failures <= 1 /\ pc[q] = pc'[q] /\ \A s \in Visitor \ {q} : pc[s] # "restored"
      BY <1>0, <1>1, <2>2
    <3>2. \/ before[q][1] = data
          \/ \E s \in Visitor : before[q][1] = rollbackData[s]
      BY <3>1 DEF RestoreInv, Restore!OldDataSurvives
    <3> QED
      BY <1>0, <1>1, <2>2, <3>2
  <2> QED
    BY <2>1, <2>2
<1> QED
  BY <1>3, <1>4, <1>5, <1>6 DEF RestoreInv

(* Every step keeps the invariant ...                                      *)
LEMMA RestoreInvStep == RestoreInv /\ [Restore!Next]_(Restore!vars) => RestoreInv'
<1> SUFFICES ASSUME RestoreInv, [Restore!Next]_(Restore!vars)  PROVE RestoreInv'
  OBVIOUS
<1>0. RestoreTypes /\ LockHeld
  BY DEF RestoreInv
<1>1. ASSUME NEW r \in Visitor, Restore!Begin(r)  PROVE RestoreInv'
  BY <1>1, BeginKeepsInvariant
<1>2. ASSUME NEW r \in Visitor, Work(r)  PROVE RestoreInv'
  <2>1. failures' <= 1 => failures <= 1
    BY <1>0, <1>2, FailuresGrow DEF RestoreTypes
  <2>2. failures' <= 1 => RestoreGood'
    BY <1>0, <1>2, <2>1, WorkKeepsGood DEF RestoreInv
  <2> QED
    BY <1>0, <1>2, <2>2, WorkKeepsTypes, WorkKeepsLock, WorkKeepsOldData DEF RestoreInv
<1>3. CASE UNCHANGED Restore!vars
  <2>1. UNCHANGED <<pc, lock, data, config, tempData, tempConfig, rollbackData, rollbackConfig,
                    running, wasRunning, dataReplaced, configReplaced, before, serviceFailed,
                    unseen, failures, crashes>>
    BY <1>3 DEF Restore!vars, Restore!live, Restore!filesOf, Restore!flags, Restore!history
  <2>2. RestoreTypes' /\ LockHeld'
    BY <1>0, <2>1 DEF RestoreTypes, RestoreControlTypes, RestoreFileTypes, RestoreFlagTypes,
       LockHeld
  <2>3. failures <= 1 => RestoreGood'
    <3> SUFFICES ASSUME RestoreGood  PROVE RestoreGood'
      BY DEF RestoreInv
    <3>1. ASSUME NEW s \in Visitor  PROVE RestoreOK(s)'
      <4>0. RestoreOK(s)
        BY DEF RestoreGood
      <4>1. DataOK(s)'
        BY <2>1, <4>0 DEF RestoreOK, DataOK, Untouched, PutAside, Replaced, PutBack
      <4>2. ConfigOK(s)'
        BY <2>1, <4>0 DEF RestoreOK, ConfigOK, ConfigKept, ConfigReplaced
      <4>3. ServiceOK(s)'
        BY <2>1, <4>0 DEF RestoreOK, ServiceOK
      <4> QED
        BY <4>1, <4>2, <4>3 DEF RestoreOK
    <3>2. \A s \in Visitor : Settled(s)'
      BY <2>1 DEF RestoreGood, Settled, Alone
    <3>3. NothingNewIsOld' /\ NoMixture'
      BY <2>1 DEF RestoreGood, NothingNewIsOld, NoMixture
    <3> QED
      BY <3>1, <3>2, <3>3 DEF RestoreGood
  <2>4. Restore!OldDataSurvives'
    BY <2>1 DEF RestoreInv, Restore!OldDataSurvives
  <2> QED
    BY <2>1, <2>2, <2>3, <2>4 DEF RestoreInv
<1> QED
  BY <1>1, <1>2, <1>3, RestoreSteps

(* ... which holds initially ...                                           *)
LEMMA RestoreInvInit == Restore!Init => RestoreInv
<1> SUFFICES ASSUME Restore!Init  PROVE RestoreInv
  OBVIOUS
<1>1. RestoreTypes
  BY DEF Restore!Init, RestoreTypes, RestoreControlTypes, RestoreFileTypes, RestoreFlagTypes,
     Content,
     Restore!Nowhere, Restore!No
<1>2. LockHeld
  BY RestoreAssumption DEF Restore!Init, LockHeld, Out
<1>3. \A r \in Visitor : RestoreOK(r) /\ Settled(r)
  BY RestoreAssumption DEF Restore!Init, RestoreOK, DataOK, ConfigOK, ServiceOK, Ahead, Settled,
     Restore!Nowhere, Restore!No,
     Out, Undoing
<1>4. NothingNewIsOld /\ NoMixture
  BY DEF Restore!Init, NothingNewIsOld, NoMixture, Coherent
<1>5. Restore!OldDataSurvives
  BY DEF Restore!Init, Restore!OldDataSurvives
<1> QED
  BY <1>1, <1>2, <1>3, <1>4, <1>5 DEF RestoreInv, RestoreGood

(* ... and implies the properties of the files and the service.            *)
LEMMA RestoreInvImplies ==
  ASSUME RestoreInv
  PROVE  Restore!AllOrNothing /\ Restore!NeverRunsOnAMixture /\ Restore!OldDataSurvives
<1>1. Restore!AllOrNothing
  <2> SUFFICES ASSUME NEW r \in Visitor, failures <= 1
      PROVE  /\ pc[r] = "restored" =>
                  \/ data = r /\ config = r
                  \/ \E s \in Visitor \ {r} : pc[s] # "ready" /\ pc[s] # "refused"
             /\ pc[r] = "failed" /\ (\A s \in Visitor \ {r} : pc[s] \in {"ready", "refused"}) =>
                  /\ <<data, config>> = <<before[r][1], before[r][2]>>
                  /\ running = before[r][3] \/ serviceFailed[r] \/ unseen[r]
    BY DEF Restore!AllOrNothing
  <2>1. Settled(r)
    BY DEF RestoreInv, RestoreGood
  <2> QED
    BY <2>1 DEF Settled, Alone
<1>2. Restore!NeverRunsOnAMixture
  <2> SUFFICES ASSUME running, crashes = 0, failures <= 1,
                      \A r \in Visitor : unseen[r] => pc[r] \notin Restore!Swapping
               PROVE  Coherent(data, config)
    BY DEF Restore!NeverRunsOnAMixture, Coherent
  <2>0. RestoreGood /\ RestoreTypes /\ LockHeld
    BY DEF RestoreInv
  <2>1. CASE lock = Nothing
    BY <2>0, <2>1 DEF RestoreGood, NoMixture
  <2>2. CASE lock # Nothing
    <3>1. PICK r \in Visitor : lock = r
      BY <2>0, <2>2 DEF RestoreTypes, RestoreControlTypes
    <3>2. RestoreOK(r) /\ pc[r] \notin Out /\ Coherent(before[r][1], before[r][2])
      BY <2>0, <2>2, <3>1 DEF RestoreGood, LockHeld, NoMixture
    <3>3. \/ pc[r] \in {"inspect", "unpack", "stop", "cleanup", "copy config", "save data"}
          \/ pc[r] = "undo stop" /\ ~unseen[r]
          \/ pc[r] \in {"start", "commit", "cleanup restored"}
      BY <3>2 DEF RestoreOK, ServiceOK, Ahead, Restore!Swapping
    <3>4. \/ data = before[r][1] /\ config = before[r][2]
          \/ data = r /\ config = r
      BY <3>2, <3>3 DEF RestoreOK, DataOK, ConfigOK, ServiceOK, Untouched, Replaced, PutBack,
         ConfigKept, ConfigReplaced
    <3> QED
      BY <3>2, <3>4 DEF Coherent
  <2> QED
    BY <2>1, <2>2
<1> QED
  BY <1>1, <1>2 DEF RestoreInv

-----------------------------------------------------------------------------
(* What Export reads: a configuration and perhaps data files, none of size *)
(* 0.                                                                      *)
LEMMA TreeFacts ==
  ASSUME NEW t \in Restore!Trees
  PROVE  /\ IsFiniteSet(Restore!Sources(t)) /\ Restore!ConfigFile \in Restore!Sources(t)
         /\ Restore!Sources(t) \subseteq {Restore!ConfigFile} \cup Restore!DataFile
         /\ \A f \in Restore!Sources(t) : t[f] \in Nat /\ t[f] # 0
<1>1. PICK files \in SUBSET (Restore!DataFile \cup Restore!Excluded) :
        t \in [{Restore!ConfigFile} \cup files -> 1 .. (MaxFileSize + 1)]
  BY DEF Restore!Trees
<1>2. IsFiniteSet({Restore!ConfigFile} \cup Restore!DataFile)
  <2>1. IsFiniteSet({} \cup {Restore!ConfigFile})
    BY FS_EmptySet, FS_AddElement
  <2>2. IsFiniteSet(({} \cup {Restore!ConfigFile}) \cup {"data/a"})
    BY <2>1, FS_AddElement
  <2>3. IsFiniteSet((({} \cup {Restore!ConfigFile}) \cup {"data/a"}) \cup {"data/b"})
    BY <2>2, FS_AddElement
  <2>4. {Restore!ConfigFile} \cup Restore!DataFile =
          (({} \cup {Restore!ConfigFile}) \cup {"data/a"}) \cup {"data/b"}
    BY DEF Restore!DataFile
  <2> QED
    BY <2>3, <2>4
<1>3. /\ Restore!Sources(t) \subseteq {Restore!ConfigFile} \cup Restore!DataFile
      /\ Restore!ConfigFile \in Restore!Sources(t)
  BY <1>1 DEF Restore!Sources, Restore!ConfigFile, Restore!DataFile, Restore!Excluded
<1>4. \A f \in Restore!Sources(t) : t[f] \in Nat /\ t[f] # 0
  BY <1>1, RestoreAssumption DEF Restore!Sources
<1> QED
  BY <1>2, <1>3, <1>4, FS_Subset

(* An export lists every file once, in an order that SetToSeq picks.       *)
Records(t) == {Restore!Record(f, t[f]) : f \in Restore!Sources(t)}

LEMMA ExportFacts ==
  ASSUME NEW t \in Restore!Trees
  PROVE  /\ Cardinality(Restore!Sources(t)) \in Nat /\ Cardinality(Restore!Sources(t)) # 0
         /\ Restore!Export(t).entries \in
              Bijection(1 .. Cardinality(Restore!Sources(t)), Records(t))
         /\ Restore!Export(t).manifest = Records(t)
<1> DEFINE n == Cardinality(Restore!Sources(t))
           record == [f \in Restore!Sources(t) |-> Restore!Record(f, t[f])]
           e == Restore!Export(t).entries
<1>1. record \in Bijection(Restore!Sources(t), Records(t))
  BY DEF Bijection, Injection, Surjection, IsInjective, Records, Restore!Record
<1>2. IsFiniteSet(Restore!Sources(t)) /\ Restore!Sources(t) # {}
  BY TreeFacts
<1>3. n \in Nat /\ n # 0
  BY <1>2, FS_CardinalityType, FS_EmptySet
<1>4. IsFiniteSet(Records(t)) /\ Cardinality(Records(t)) = n
  <2>1. ExistsBijection(Restore!Sources(t), Records(t))
    BY <1>1, Zenon DEF ExistsBijection
  <2> QED
    BY <1>2, <2>1, FS_Bijection, Zenon
<1>5. \E s \in [1 .. Cardinality(Records(t)) -> Records(t)] : IsInjective(s)
  <2>1. ExistsBijection(1 .. Cardinality(Records(t)), Records(t))
    BY <1>4, FS_CardinalityType, Zenon
  <2> QED
    BY <2>1, Zenon DEF ExistsBijection, Bijection, Injection
<1>6. e \in [1 .. n -> Records(t)] /\ IsInjective(e)
  <2>1. e = Restore!SetToSeq(Records(t))
    BY DEF Restore!Export, Records
  <2> HIDE DEF e
  <2> QED
    BY <1>4, <1>5, <2>1, RestoreCardinality, Zenon
    DEF Restore!SetToSeq, Restore!IsInjective, IsInjective
<1> HIDE DEF e, n
<1>7. e \in Injection(1 .. n, Records(t))
  BY <1>6, Zenon DEF Injection
<1>8. IsFiniteSet(1 .. n) /\ Cardinality(1 .. n) = n
  BY <1>3, FS_Interval
<1>9. e \in Surjection(1 .. n, Records(t))
  BY <1>4, <1>7, <1>8, FS_Injection, Zenon
<1>10. e \in Bijection(1 .. n, Records(t))
  BY <1>7, <1>9, Zenon DEF Bijection
<1>11. Restore!Export(t).manifest = Records(t)
  <2>1. Restore!Export(t).manifest = {e[i] : i \in DOMAIN e}
    BY DEF Restore!Export, Restore!ToSet, e
  <2>2. DOMAIN e = 1 .. n
    BY <1>6
  <2> QED
    BY <1>9, <2>1, <2>2 DEF Surjection
<1> QED
  BY <1>3, <1>10, <1>11 DEF e, n

LEMMA ExportEntries ==
  ASSUME NEW t \in Restore!Trees, NEW n, n = Cardinality(Restore!Sources(t))
  PROVE  /\ n \in Nat /\ n # 0
         /\ Restore!Export(t).entries \in [1 .. n -> Records(t)]
         /\ \A i, j \in 1 .. n :
              Restore!Export(t).entries[i] = Restore!Export(t).entries[j] => i = j
         /\ \A f \in Restore!Sources(t) :
              \E i \in 1 .. n : Restore!Export(t).entries[i] = Restore!Record(f, t[f])
         /\ Restore!Export(t).entries \in Seq(Records(t)) /\ Len(Restore!Export(t).entries) = n
         /\ Restore!Export(t).manifest = Records(t)
<1> DEFINE e == Restore!Export(t).entries
<1>1. /\ n \in Nat /\ n # 0 /\ e \in Bijection(1 .. n, Records(t))
      /\ Restore!Export(t).manifest = Records(t)
  BY ExportFacts
<1> HIDE DEF e
<1>2. /\ e \in [1 .. n -> Records(t)]
      /\ \A i, j \in DOMAIN e : e[i] = e[j] => i = j
      /\ \A x \in Records(t) : \E i \in 1 .. n : e[i] = x
  BY <1>1, Zenon DEF Bijection, Injection, Surjection, IsInjective
<1>3. e \in Seq(Records(t)) /\ Len(e) = n
  BY <1>1, <1>2
<1>4. \A f \in Restore!Sources(t) : \E i \in 1 .. n : e[i] = Restore!Record(f, t[f])
  BY <1>2 DEF Records
<1>5. DOMAIN e = 1 .. n
  BY <1>2
<1> QED
  BY <1>1, <1>2, <1>3, <1>4, <1>5 DEF e

(* What scanArchive refuses: each kind of damage breaks one of its checks. *)
LEMMA NoDamageIsAccepted ==
  ASSUME NEW t \in Restore!Trees, NEW a \in Restore!Damaged(Restore!Export(t))
  PROVE  ~Restore!Inspect(a)
<1> DEFINE e == Restore!Export(t).entries
           n == Cardinality(Restore!Sources(t))
<1>0. Restore!Export(t) = [entries |-> e, manifest |-> Records(t)]
  BY ExportEntries DEF Restore!Export
<1>1. /\ n \in Nat /\ n # 0 /\ e \in [1 .. n -> Records(t)]
      /\ \A i, j \in 1 .. n : e[i] = e[j] => i = j
      /\ e \in Seq(Records(t)) /\ Len(e) = n
  BY ExportEntries
<1>2. Head(e) = e[1] /\ e[1] \in Records(t) /\ DOMAIN e = 1 .. n
  BY <1>1
<1> HIDE DEF e, n
<1>3. \A x \in Records(t) :
        \E f \in Restore!Sources(t) : x = [name |-> f, size |-> t[f], sum |-> <<f, t[f]>>]
  BY DEF Records, Restore!Record
<1>4. CASE a = [Restore!Export(t) EXCEPT !.entries = Tail(@)]
  <2>1. a.manifest = Records(t) /\ a.entries = Tail(e)
    BY <1>0, <1>4
  <2>2. \A i \in DOMAIN Tail(e) : i + 1 \in 1 .. n /\ i + 1 # 1 /\ Tail(e)[i] = e[i + 1]
    BY <1>1
  <2>3. e[1] \notin Restore!ToSet(Tail(e))
    BY <1>1, <2>2 DEF Restore!ToSet
  <2> QED
    BY <1>2, <2>1, <2>3 DEF Restore!Inspect
<1>5. CASE a = [Restore!Export(t) EXCEPT !.entries = <<Head(@)>> \o @]
  <2>1. a.entries = <<e[1]>> \o e
    BY <1>0, <1>2, <1>5
  <2>2. /\ Len(a.entries) = n + 1 /\ DOMAIN a.entries = 1 .. (n + 1)
        /\ a.entries[1] = e[1] /\ \A i \in 2 .. (n + 1) : a.entries[i] = e[i - 1]
    BY <1>1, <1>2, <2>1
  <2>3. IsFiniteSet(1 .. n) /\ Cardinality(1 .. n) = n
    BY <1>1, FS_Interval
  <2> DEFINE name == [i \in 1 .. n |-> e[i].name]
  <2>4. name \in Surjection(1 .. n, Restore!Names(a))
    <3>1. Restore!Names(a) = {e[i].name : i \in 1 .. n}
      <4>1. \A i \in 1 .. (n + 1) : \E j \in 1 .. n : a.entries[i] = e[j]
        BY <1>1, <2>2
      <4>2. \A j \in 1 .. n : j + 1 \in 1 .. (n + 1) /\ a.entries[j + 1] = e[j]
        BY <1>1, <2>2
      <4>3. Restore!Names(a) = {a.entries[i].name : i \in 1 .. (n + 1)}
        BY <2>2 DEF Restore!Names
      <4>4. \A i \in 1 .. (n + 1) : a.entries[i].name \in {e[j].name : j \in 1 .. n}
        BY <4>1
      <4>5. \A j \in 1 .. n : e[j].name \in Restore!Names(a)
        BY <4>2, <4>3
      <4> QED
        BY <4>3, <4>4, <4>5
    <3> QED
      BY <3>1 DEF Surjection
  <2> HIDE DEF name
  <2>5. Cardinality(Restore!Names(a)) <= n
    <3>1. Cardinality(Restore!Names(a)) <= Cardinality(1 .. n)
      BY <2>3, <2>4, FS_Surjection, Zenon
    <3> QED
      BY <2>3, <3>1
  <2>6. Cardinality(Restore!Names(a)) # n + 1
    <3>1. IsFiniteSet(Restore!Names(a))
      BY <2>3, <2>4, FS_Surjection, Zenon
    <3> QED
      BY <1>1, <2>5, <3>1, FS_CardinalityType
  <2> QED
    BY <2>2, <2>6, RestoreCardinality DEF Restore!Inspect
<1>6. CASE a = [Restore!Export(t) EXCEPT
                  !.entries = <<[Head(@) EXCEPT !.sum = <<Restore!ConfigFile, 0>>]>> \o Tail(@)]
  <2> DEFINE x == [e[1] EXCEPT !.sum = <<Restore!ConfigFile, 0>>]
  <2>1. a.manifest = Records(t) /\ a.entries = <<x>> \o Tail(e)
    BY <1>0, <1>2, <1>6
  <2>2. x.sum = <<Restore!ConfigFile, 0>>
    BY <1>2, <1>3
  <2>3. x \notin Records(t)
    <3>1. \A f \in Restore!Sources(t) : t[f] # 0
      BY TreeFacts
    <3> QED
      BY <2>2, <3>1, <1>3
  <2> HIDE DEF x
  <2>4. x \in Restore!ToSet(a.entries)
    BY <1>1, <2>1 DEF Restore!ToSet
  <2> QED
    BY <2>1, <2>3, <2>4 DEF Restore!Inspect
<1>7. CASE a = [Restore!Export(t) EXCEPT !.entries[1].name = "etc/passwd"]
  <2>1. a.entries = [e EXCEPT ![1].name = "etc/passwd"]
    BY <1>0, <1>7
  <2>2. 1 \in DOMAIN a.entries /\ a.entries[1].name = "etc/passwd"
    BY <1>1, <1>2, <1>3, <2>1
  <2>3. "etc/passwd" \in Restore!Names(a)
    BY <2>2 DEF Restore!Names
  <2> QED
    BY <2>3 DEF Restore!Inspect, Restore!ConfigFile, Restore!DataFile, Restore!Excluded
<1>8. CASE a = [Restore!Export(t) EXCEPT !.manifest = {}]
  <2>1. a.manifest = {}
    BY <1>0, <1>8
  <2> QED
    BY <2>1 DEF Restore!Inspect
<1>9. CASE a = [Restore!Export(t) EXCEPT !.manifest = {r \in @ : r.name # Restore!ConfigFile},
                                 !.entries = SelectSeq(@, LAMBDA r : r.name # Restore!ConfigFile)]
  <2>1. a.manifest = {r \in Records(t) : r.name # Restore!ConfigFile}
    BY <1>0, <1>9
  <2> QED
    BY <2>1 DEF Restore!Inspect
<1> QED
  BY <1>4, <1>5, <1>6, <1>7, <1>8, <1>9 DEF Restore!Damaged

(* What it accepts: the limits of Export imply those of the inspection,    *)
(* except for the manifest and the size of the configuration.              *)
LEMMA ExportIsAccepted ==
  ASSUME NEW t \in Restore!Trees, Restore!Exportable(t),
         Restore!Total(t) + ManifestSize <= MaxExpandedSize, t[Restore!ConfigFile] <= MaxFileSize
  PROVE  Restore!Inspect(Restore!Export(t))
<1> DEFINE e == Restore!Export(t).entries
           n == Cardinality(Restore!Sources(t))
           name == [i \in 1 .. n |-> e[i].name]
<1>1. /\ n \in Nat /\ n # 0 /\ e \in [1 .. n -> Records(t)]
      /\ \A i, j \in 1 .. n : e[i] = e[j] => i = j
      /\ \A f \in Restore!Sources(t) : \E i \in 1 .. n : e[i] = Restore!Record(f, t[f])
      /\ e \in Seq(Records(t)) /\ Len(e) = n
      /\ Restore!Export(t).manifest = Records(t)
  BY ExportEntries
<1>2. \A i \in 1 .. n : /\ e[i].name \in Restore!Sources(t) /\ e[i].size = t[e[i].name]
                        /\ e[i] = Restore!Record(e[i].name, t[e[i].name])
  <2> HIDE DEF e, n
  <2> SUFFICES ASSUME NEW i \in 1 .. n
               PROVE  /\ e[i].name \in Restore!Sources(t) /\ e[i].size = t[e[i].name]
                      /\ e[i] = Restore!Record(e[i].name, t[e[i].name])
    OBVIOUS
  <2>1. PICK f \in Restore!Sources(t) : e[i] = Restore!Record(f, t[f])
    BY <1>1 DEF Records
  <2> QED
    BY <2>1 DEF Restore!Record
<1>3. DOMAIN e = 1 .. n
  BY <1>1
<1> HIDE DEF e, n
<1>b. \A f \in Restore!Sources(t) : \E i \in 1 .. n : e[i].name = f
  <2>1. \A f : Restore!Record(f, t[f]).name = f
    BY DEF Restore!Record
  <2> QED
    BY <1>1, <2>1
<1>4. name \in Bijection(1 .. n, Restore!Sources(t))
  <2>1. name \in [1 .. n -> Restore!Sources(t)]
    BY <1>2
  <2>2. \A i, j \in 1 .. n : e[i].name = e[j].name => i = j
    BY <1>1, <1>2
  <2>3. \A f \in Restore!Sources(t) : \E i \in 1 .. n : e[i].name = f
    BY <1>b
  <2> QED
    BY <2>1, <2>2, <2>3 DEF Bijection, Injection, Surjection, IsInjective
<1>5. IsFiniteSet(1 .. n) /\ Cardinality(1 .. n) = n
  BY <1>1, FS_Interval
<1>6. Restore!SumFunction(Restore!Sizes(Restore!Export(t))) = Restore!Total(t)
  <2>1. Restore!Sizes(Restore!Export(t)) = [i \in 1 .. n |-> e[i].size]
    BY <1>3 DEF Restore!Sizes, e
  <2>2. \A f \in Restore!Sources(t) : t[f] \in Nat
    BY TreeFacts
  <2>3. \A i \in 1 .. n : Restore!Sizes(Restore!Export(t))[i] = t[name[i]]
    BY <1>2, <2>1
  <2>4. DOMAIN Restore!Sizes(Restore!Export(t)) = 1 .. n
    BY <2>1
  <2> DEFINE units == 1 .. n
             sizes == Restore!Sizes(Restore!Export(t))
  <2>a. /\ IsFiniteSet(units) /\ name \in Bijection(units, Restore!Sources(t))
        /\ \A i \in units : sizes[i] = t[name[i]]
    BY <1>4, <1>5, <2>3
  <2> HIDE DEF name, units, sizes
  <2>b. SumFunctionOnSet(sizes, units) = SumFunctionOnSet(t, Restore!Sources(t))
    BY <2>a, <2>2, SumRenamed
  <2>5. SumFunctionOnSet(Restore!Sizes(Restore!Export(t)), 1 .. n) =
          SumFunctionOnSet(t, Restore!Sources(t))
    BY <2>b DEF units, sizes
  <2> QED
    BY <2>4, <2>5, RestoreSums DEF Restore!SumFunction, Restore!Total
<1>7. Restore!Names(Restore!Export(t)) = Restore!Sources(t)
  <2>1. Restore!Names(Restore!Export(t)) = {e[i].name : i \in 1 .. n}
    BY <1>3 DEF Restore!Names, e
  <2> QED
    BY <1>b, <1>2, <2>1
<1>8. Restore!Export(t).manifest = Restore!ToSet(Restore!Export(t).entries)
  BY DEF Restore!Export
<1>9. Restore!ConfigFile \in {r.name : r \in Restore!Export(t).manifest}
  <2>1. PICK i \in 1 .. n : e[i].name = Restore!ConfigFile
    BY <1>b, TreeFacts
  <2>2. e[i] \in Restore!Export(t).manifest
    BY <1>1
  <2> QED
    BY <2>1, <2>2
<1>10. Len(Restore!Export(t).entries) + 1 <= MaxFiles + 1
  BY <1>1, RestoreAssumption, RestoreCardinality DEF Restore!Exportable, e, n
<1>11. \A i \in DOMAIN Restore!Export(t).entries : Restore!Export(t).entries[i].size <= MaxFileSize
  <2>1. \A f \in Restore!Sources(t) : t[f] <= MaxFileSize
    BY DEF Restore!Exportable
  <2> QED
    BY <1>2, <1>3, <2>1 DEF e
<1>12. ManifestSize + Restore!SumFunction(Restore!Sizes(Restore!Export(t))) <= MaxExpandedSize
  <2>1. Restore!Total(t) \in Nat
    BY TreeFacts, SumIsNatural, RestoreSums DEF Restore!Total
  <2> QED
    BY <1>6, <2>1, RestoreAssumption
<1>13. Cardinality(Restore!Names(Restore!Export(t))) = Len(Restore!Export(t).entries)
  BY <1>1, <1>7 DEF e, n
<1>14. Restore!Names(Restore!Export(t)) \subseteq
         {Restore!ConfigFile} \cup Restore!DataFile \cup Restore!Excluded
  BY <1>7, TreeFacts
<1> QED
  BY <1>8, <1>9, <1>10, <1>11, <1>12, <1>13, <1>14, RestoreCardinality DEF Restore!Inspect

-----------------------------------------------------------------------------
(* What is installed, unpacked or put aside came from an accepted archive. *)
Valid(c) == c \in Visitor => archive[c] = Restore!Export(tree) /\ pc[c] # "ready"

(* The inductive invariant of the archives.                                *)
ArchiveInv ==
  /\ tree \in Restore!Trees /\ Restore!Exportable(tree)
  /\ archive \in [Visitor -> {Restore!Export(tree)} \cup Restore!Damaged(Restore!Export(tree))]
  /\ Valid(data) /\ Valid(config)
  /\ \A r \in Visitor :
       /\ Valid(tempData[r]) /\ Valid(tempConfig[r])
       /\ Valid(rollbackData[r]) /\ Valid(rollbackConfig[r])
       /\ pc[r] = "unpack" => archive[r] = Restore!Export(tree)

(* Content only moves from one place to another, unless it is unpacked.    *)
LEMMA ContentMoves ==
  ASSUME RestoreTypes, NEW r \in Visitor, Work(r)
  PROVE  /\ data' \in {data, Nothing, "part", tempData[r], rollbackData[r]}
         /\ config' \in {config, Nothing, tempConfig[r], rollbackConfig[r]}
         /\ rollbackData'[r] \in {rollbackData[r], Nothing, data}
         /\ rollbackConfig'[r] \in {rollbackConfig[r], Nothing, config}
         /\ \/ tempData'[r] \in {tempData[r], Nothing, "part"}
            \/ pc[r] = "unpack" /\ tempData'[r] = r
         /\ \/ tempConfig'[r] \in {tempConfig[r], Nothing}
            \/ pc[r] = "unpack" /\ tempConfig'[r] = r
<1>1. RestoreFileTypes
  BY DEF RestoreTypes
<1>2. /\ data' \in {data, Nothing, "part", tempData[r], rollbackData[r]}
      /\ config' \in {config, Nothing, tempConfig[r], rollbackConfig[r]}
  BY DEF Restore!live, Work, Restore!InspectArchive, Restore!Unpack, Restore!StopService,
     Restore!CopyConfig, Restore!SaveData,
     Restore!SwapData, Restore!SwapConfig, Restore!StartService, Restore!Commit, Restore!UndoStop,
     Restore!UndoData, Restore!UndoRename, Restore!UndoConfig,
     Restore!UndoStart, Restore!Cleanup, Restore!Kill
<1>3. /\ rollbackData'[r] \in {rollbackData[r], Nothing, data}
      /\ rollbackConfig'[r] \in {rollbackConfig[r], Nothing, config}
  BY <1>1 DEF RestoreFileTypes, Restore!filesOf, Work, Restore!InspectArchive, Restore!Unpack,
     Restore!StopService, Restore!CopyConfig,
     Restore!SaveData, Restore!SwapData, Restore!SwapConfig, Restore!StartService, Restore!Commit,
     Restore!UndoStop, Restore!UndoData, Restore!UndoRename,
     Restore!UndoConfig, Restore!UndoStart, Restore!Cleanup, Restore!Kill
<1>4. /\ \/ tempData'[r] \in {tempData[r], Nothing, "part"}
         \/ pc[r] = "unpack" /\ tempData'[r] = r
      /\ \/ tempConfig'[r] \in {tempConfig[r], Nothing}
         \/ pc[r] = "unpack" /\ tempConfig'[r] = r
  <2>1. CASE Restore!Unpack(r)
    BY <1>1, <2>1 DEF RestoreFileTypes, Restore!Unpack
  <2>2. CASE ~Restore!Unpack(r)
    <3>1. tempData'[r] \in {tempData[r], Nothing} /\ tempConfig'[r] \in {tempConfig[r], Nothing}
      BY <1>1, <2>2 DEF RestoreFileTypes, Restore!filesOf, Work, Restore!InspectArchive,
         Restore!StopService, Restore!CopyConfig,
         Restore!SaveData, Restore!SwapData, Restore!SwapConfig, Restore!StartService,
         Restore!Commit, Restore!UndoStop, Restore!UndoData, Restore!UndoRename,
         Restore!UndoConfig, Restore!UndoStart, Restore!Cleanup, Restore!Kill
    <3> QED
      BY <3>1
  <2> QED
    BY <2>1, <2>2
<1> QED
  BY <1>2, <1>3, <1>4

(* Only an archive that passes the inspection is unpacked.                 *)
LEMMA UnpacksInspected ==
  ASSUME RestoreTypes, NEW r \in Visitor, Work(r), pc'[r] = "unpack"
  PROVE  Restore!Inspect(archive[r])
<1>1. CASE Restore!InspectArchive(r)
  BY <1>1, GotoMoves DEF Restore!InspectArchive, RestoreTypes
<1>2. CASE ~Restore!InspectArchive(r)
  <2>1. \E next : next # "unpack" /\ Restore!Goto(r, next)
    BY <1>2, Zenon DEF Work, Restore!Unpack, Restore!StopService, Restore!CopyConfig,
       Restore!SaveData, Restore!SwapData, Restore!SwapConfig,
       Restore!StartService, Restore!Commit, Restore!UndoStop, Restore!UndoData,
       Restore!UndoRename, Restore!UndoConfig, Restore!UndoStart, Restore!Cleanup, Restore!Kill
  <2> QED
    BY <2>1, GotoMoves DEF RestoreTypes
<1> QED
  BY <1>1, <1>2

(* The restore that holds the lock installs what it unpacked ...           *)
LEMMA WorkKeepsArchives ==
  ASSUME RestoreTypes, LockHeld, ArchiveInv, NEW r \in Visitor, Work(r)
  PROVE  ArchiveInv'
<1>1. UNCHANGED <<tree, archive>>
  BY DEF Work, Restore!InspectArchive, Restore!Unpack, Restore!StopService, Restore!CopyConfig,
     Restore!SaveData, Restore!SwapData, Restore!SwapConfig,
     Restore!StartService, Restore!Commit, Restore!UndoStop, Restore!UndoData, Restore!UndoRename,
     Restore!UndoConfig, Restore!UndoStart, Restore!Cleanup, Restore!Kill
<1>2. pc'[r] # "ready" /\ \A s \in Visitor \ {r} : pc'[s] = pc[s]
  BY WorkStages, WorkMoves DEF RestoreTypes
<1>3. ASSUME NEW c, Valid(c)
      PROVE  c \in Visitor => archive'[c] = Restore!Export(tree)' /\ pc'[c] # "ready"
  <2>1. Restore!Export(tree)' = Restore!Export(tree)
    BY <1>1
  <2> QED
    BY <1>1, <1>2, <1>3, <2>1 DEF Valid
<1>4. Valid(Nothing) /\ Valid("part")
  BY RestoreAssumption DEF Valid
<1>5. pc[r] = "unpack" => Valid(r)
  BY DEF ArchiveInv, Valid
<1>6. Valid(data)' /\ Valid(config)'
  BY <1>3, <1>4, ContentMoves DEF ArchiveInv, Valid
<1>7. ASSUME NEW s \in Visitor
      PROVE  /\ Valid(tempData[s])' /\ Valid(tempConfig[s])'
             /\ Valid(rollbackData[s])' /\ Valid(rollbackConfig[s])'
  <2>1. CASE s = r
    BY <1>3, <1>4, <1>5, <2>1, ContentMoves DEF ArchiveInv, Valid
  <2>2. CASE s # r
    BY <1>3, <2>2, RestoreAlone DEF ArchiveInv, Valid
  <2> QED
    BY <2>1, <2>2
<1>8. ASSUME NEW s \in Visitor, pc'[s] = "unpack"  PROVE archive[s] = Restore!Export(tree)
  <2>1. CASE s = r
    BY <1>8, <2>1, UnpacksInspected, NoDamageIsAccepted DEF ArchiveInv
  <2>2. CASE s # r
    BY <1>2, <1>8, <2>2 DEF ArchiveInv
  <2> QED
    BY <2>1, <2>2
<1>9. /\ (tree \in Restore!Trees)' /\ Restore!Exportable(tree)'
      /\ (archive \in
            [Visitor -> {Restore!Export(tree)} \cup Restore!Damaged(Restore!Export(tree))])'
  BY <1>1 DEF ArchiveInv
<1>10. \A s \in Visitor : (pc[s] = "unpack" => archive[s] = Restore!Export(tree))'
  BY <1>1, <1>8
<1> QED
  BY <1>6, <1>7, <1>9, <1>10 DEF ArchiveInv

(* ... and one that begins has installed nothing.                          *)
LEMMA BeginKeepsArchives ==
  ASSUME RestoreTypes, ArchiveInv, NEW r \in Visitor, Restore!Begin(r)
  PROVE  ArchiveInv'
<1>1. /\ tree' = tree /\ pc[r] = "ready"
      /\ \E next : next \notin {"ready", "unpack"} /\ Restore!Goto(r, next)
      /\ \E a \in {Restore!Export(tree)} \cup Restore!Damaged(Restore!Export(tree)) :
           archive' = [archive EXCEPT ![r] = a]
  BY DEF Restore!Begin
<1>2. /\ pc'[r] \notin {"ready", "unpack"} /\ \A s \in Visitor \ {r} : pc'[s] = pc[s]
  BY <1>1, GotoMoves DEF RestoreTypes
<1>3. /\ archive' \in [Visitor -> {Restore!Export(tree)} \cup Restore!Damaged(Restore!Export(tree))]
      /\ \A s \in Visitor \ {r} : archive'[s] = archive[s]
  BY <1>1 DEF ArchiveInv
<1>4. UNCHANGED <<data, config, tempData, tempConfig, rollbackData, rollbackConfig>>
  BY DEF Restore!Begin, Restore!live, Restore!filesOf
<1>5. ASSUME NEW c, Valid(c)
      PROVE  c \in Visitor => archive'[c] = Restore!Export(tree) /\ pc'[c] # "ready"
  BY <1>1, <1>2, <1>3, <1>5 DEF Valid
<1>6. Restore!Export(tree)' = Restore!Export(tree)
  BY <1>1
<1>7. /\ Valid(data)' /\ Valid(config)'
      /\ \A s \in Visitor : /\ Valid(tempData[s])' /\ Valid(tempConfig[s])'
                             /\ Valid(rollbackData[s])' /\ Valid(rollbackConfig[s])'
  BY <1>4, <1>5, <1>6 DEF ArchiveInv, Valid
<1>8. \A s \in Visitor : (pc[s] = "unpack" => archive[s] = Restore!Export(tree))'
  BY <1>2, <1>3, <1>6 DEF ArchiveInv
<1>9. /\ (tree \in Restore!Trees)' /\ Restore!Exportable(tree)'
      /\ (archive \in
            [Visitor -> {Restore!Export(tree)} \cup Restore!Damaged(Restore!Export(tree))])'
  BY <1>1, <1>3 DEF ArchiveInv
<1> QED
  BY <1>7, <1>8, <1>9 DEF ArchiveInv

(* The invariant of the archives is kept, holds initially and implies the  *)
(* properties.                                                             *)
LEMMA ArchiveInvStep == RestoreInv /\ ArchiveInv /\ [Restore!Next]_(Restore!vars) => ArchiveInv'
<1> SUFFICES ASSUME RestoreInv, ArchiveInv, [Restore!Next]_(Restore!vars)  PROVE ArchiveInv'
  OBVIOUS
<1>1. RestoreTypes /\ LockHeld
  BY DEF RestoreInv
<1>2. CASE UNCHANGED Restore!vars
  BY <1>2 DEF ArchiveInv, Valid, Restore!vars, Restore!live, Restore!filesOf
<1> QED
  BY <1>1, <1>2, BeginKeepsArchives, WorkKeepsArchives, RestoreSteps

LEMMA ArchiveInvInit == Restore!Init => ArchiveInv
BY RestoreAssumption DEF Restore!Init, ArchiveInv, Valid, Restore!Nowhere

LEMMA ArchiveInvImplies ==
  ASSUME ArchiveInv
  PROVE  Restore!OnlyExportsAreInstalled /\ Restore!ExportsAreRestorable
BY ExportIsAccepted DEF ArchiveInv, Valid, Restore!OnlyExportsAreInstalled,
   Restore!ExportsAreRestorable

-----------------------------------------------------------------------------
(* A step of Resources is one of the restore command or leaves it alone.   *)
LEMMA RestoreSimulates ==
  /\ ResourcesInit => Restore!Init
  /\ [ResourcesNext]_resourcesVars => [Restore!Next]_(Restore!vars)
<1>1. ResourcesInit => Restore!Init
  BY DEF ResourcesInit
<1>2. UNCHANGED restoreVars => UNCHANGED Restore!vars
  BY DEF restoreVars, Restore!vars, Restore!live, Restore!filesOf, Restore!flags,
     Restore!history
<1>3. [ResourcesNext]_resourcesVars => Restore!Next \/ UNCHANGED restoreVars
  BY DEF ResourcesNext, resourcesVars
<1> QED
  BY <1>1, <1>2, <1>3

(* The inductive invariants of the restore command.                        *)
THEOREM RestoreInvariant == ResourcesSpec => [](RestoreInv /\ ArchiveInv)
<1>1. ResourcesInit => RestoreInv /\ ArchiveInv
  BY RestoreSimulates, RestoreInvInit, ArchiveInvInit
<1>2. RestoreInv /\ ArchiveInv /\ [ResourcesNext]_resourcesVars => (RestoreInv /\ ArchiveInv)'
  BY RestoreSimulates, RestoreInvStep, ArchiveInvStep
<1> QED
  BY <1>1, <1>2, PTL DEF ResourcesSpec

(* Of one failing step at most, a restore leaves the archive's data and    *)
(* configuration or those it found, and the service as it was, and the     *)
(* service never runs on a mixture (Restore, rollback), for any number of  *)
(* invocations of the command.                                             *)
THEOREM RestoresAreWhole == ResourcesSpec => []AllOrNothing
<1>1. RestoreInv => AllOrNothing
  BY RestoreInvImplies DEF AllOrNothing
<1> QED
  BY <1>1, RestoreInvariant, PTL

(* The data that a restore replaces stays on the disk until it succeeds,   *)
(* wherever one step fails or the command is killed (Restore's deferred    *)
(* removals and rollback).                                                 *)
THEOREM OldDataKept == ResourcesSpec => []OldDataSurvives
<1>1. RestoreInv => OldDataSurvives
  BY DEF RestoreInv, OldDataSurvives
<1> QED
  BY <1>1, RestoreInvariant, PTL

(* Nothing is installed but what Export wrote, and what Export writes is   *)
(* accepted within the limits that both count (scanArchive), for all       *)
(* limits and sizes.                                                       *)
THEOREM ArchivesChecked == ResourcesSpec => []ArchivesAreIntact
<1>1. ArchiveInv => ArchivesAreIntact
  BY ArchiveInvImplies DEF ArchivesAreIntact
<1> QED
  BY <1>1, RestoreInvariant, PTL

-----------------------------------------------------------------------------
(* The parse cache.                                                        *)

(* The sums of ParseCache are those of this module.                        *)
LEMMA ParseSums == \A f, S : Parse!SumFunctionOnSet(f, S) = SumFunctionOnSet(f, S)
BY DEF Parse!SumFunctionOnSet, Parse!FoldFunctionOnSet, Parse!MapThenFoldSet,
   SumFunctionOnSet, FoldFunctionOnSet, MapThenFoldSet

ParseTypes ==
  /\ lru \in Seq(Source) /\ bytes \in Nat /\ nodes \in Nat
  /\ parsing \in [Visitor -> Source \cup {NoKey}]

(* What stays of the list when its first n entries are kept, and what      *)
(* goes.                                                                   *)
Cached(n) == {lru[i] : i \in 1 .. n}
Gone(n) == {lru[i] : i \in (n + 1) .. Len(lru)}

(* A request parses outside the mutex only what the cache may hold.        *)
ParseInv ==
  /\ ParseTypes /\ Parse!CountersAddUp /\ Parse!WithinLimits
  /\ \A r \in Visitor : parsing[r] # NoKey => Parse!Cacheable(parsing[r])

(* The list by its positions.                                              *)
LEMMA CachedFacts ==
  ASSUME ParseTypes
  PROVE  /\ Len(lru) \in Nat /\ DOMAIN lru = 1 .. Len(lru)
         /\ \A i \in 1 .. Len(lru) : lru[i] \in Source
         /\ Parse!ToSet(lru) = {lru[i] : i \in 1 .. Len(lru)}
BY DEF ParseTypes, Parse!ToSet

(* A piece of a list.                                                      *)
LEMMA SubSeqFacts ==
  ASSUME NEW s \in Seq(Source), NEW m \in 1 .. (Len(s) + 1), NEW n \in (m - 1) .. Len(s)
  PROVE  /\ SubSeq(s, m, n) \in Seq(Source) /\ Len(SubSeq(s, m, n)) = n - m + 1
         /\ \A i \in 1 .. (n - m + 1) : SubSeq(s, m, n)[i] = s[m + i - 1]
OBVIOUS

(* Two lists in a row.                                                     *)
LEMMA ConcatFacts ==
  ASSUME NEW s \in Seq(Source), NEW u \in Seq(Source)
  PROVE  /\ s \o u \in Seq(Source) /\ Len(s \o u) = Len(s) + Len(u)
         /\ \A i \in 1 .. (Len(s) + Len(u)) :
              (s \o u)[i] = IF i <= Len(s) THEN s[i] ELSE u[i - Len(s)]
OBVIOUS

(* A list with a new first element.                                        *)
LEMMA PrependFacts ==
  ASSUME NEW k \in Source, NEW s \in Seq(Source)
  PROVE  /\ <<k>> \o s \in Seq(Source) /\ Len(<<k>> \o s) = Len(s) + 1 /\ (<<k>> \o s)[1] = k
         /\ \A i \in 2 .. (Len(s) + 1) : (<<k>> \o s)[i] = s[i - 1]
OBVIOUS

(* Moving an entry to the front keeps the entries, each of them once.      *)
LEMMA ToFrontKeeps ==
  ASSUME ParseTypes, Parse!IsInjective(lru), NEW k, Parse!Contains(lru, k)
  PROVE  /\ Parse!ToFront(k) \in Seq(Source) /\ Len(Parse!ToFront(k)) = Len(lru)
         /\ Parse!IsInjective(Parse!ToFront(k)) /\ Parse!ToSet(Parse!ToFront(k)) = Parse!ToSet(lru)
<1> DEFINE at == CHOOSE i \in DOMAIN lru : lru[i] = k
           n == Len(lru)
           rest == Parse!RemoveAt(lru, at)
<1>1. /\ n \in Nat /\ DOMAIN lru = 1 .. n /\ lru \in Seq(Source)
      /\ \A i, j \in 1 .. n : lru[i] = lru[j] => i = j
  BY CachedFacts DEF Parse!IsInjective, ParseTypes
<1>2. at \in 1 .. n /\ lru[at] = k
  BY <1>1, Zenon DEF Parse!Contains
<1> HIDE DEF at
<1>3. /\ rest \in Seq(Source) /\ Len(rest) = n - 1
      /\ \A i \in 1 .. (n - 1) : rest[i] = IF i < at THEN lru[i] ELSE lru[i + 1]
  <2> DEFINE low == SubSeq(lru, 1, at - 1)
             high == SubSeq(lru, at + 1, n)
  <2>1. /\ low \in Seq(Source) /\ Len(low) = at - 1
        /\ \A i \in 1 .. (at - 1) : low[i] = lru[i]
    BY <1>1, <1>2
  <2>2. /\ high \in Seq(Source) /\ Len(high) = n - at
        /\ \A i \in 1 .. (n - at) : high[i] = lru[at + i]
    <3>1. /\ at + 1 \in 1 .. (n + 1) /\ n \in (at + 1 - 1) .. n /\ n - (at + 1) + 1 = n - at
          /\ \A i \in 1 .. (n - at) : at + 1 + i - 1 = at + i
      BY <1>1, <1>2
    <3>2. /\ high \in Seq(Source) /\ Len(high) = n - (at + 1) + 1
          /\ \A i \in 1 .. (n - (at + 1) + 1) : high[i] = lru[at + 1 + i - 1]
      BY <1>1, <3>1, SubSeqFacts
    <3> QED
      BY <3>1, <3>2
  <2>3. rest = low \o high
    BY Zenon DEF Parse!RemoveAt
  <2> HIDE DEF low, high, rest, n
  <2>4. /\ rest \in Seq(Source) /\ Len(rest) = n - 1
        /\ \A i \in 1 .. (n - 1) : rest[i] = IF i <= at - 1 THEN low[i] ELSE high[i - (at - 1)]
    <3>1. Len(low) + Len(high) = n - 1
      BY <1>1, <1>2, <2>1, <2>2
    <3>2. /\ rest \in Seq(Source) /\ Len(rest) = Len(low) + Len(high)
          /\ \A i \in 1 .. (Len(low) + Len(high)) :
               rest[i] = IF i <= Len(low) THEN low[i] ELSE high[i - Len(low)]
      BY <2>1, <2>2, <2>3, ConcatFacts
    <3> QED
      BY <2>1, <3>1, <3>2
  <2>5. ASSUME NEW i \in 1 .. (n - 1)  PROVE rest[i] = IF i < at THEN lru[i] ELSE lru[i + 1]
    <3>1. CASE i < at
      <4>1. i \in 1 .. (at - 1)
        BY <1>1, <1>2, <3>1
      <4> QED
        BY <2>1, <2>4, <3>1, <4>1
    <3>2. CASE ~(i < at)
      <4>1. i - (at - 1) \in 1 .. (n - at) /\ at + (i - (at - 1)) = i + 1 /\ ~(i <= at - 1)
        BY <1>1, <1>2, <3>2
      <4> QED
        BY <2>2, <2>4, <3>2, <4>1
    <3> QED
      BY <3>1, <3>2
  <2> QED
    BY <2>4, <2>5
<1> DEFINE new == <<k>> \o rest
<1>4. /\ new \in Seq(Source) /\ Len(new) = n /\ new[1] = k
      /\ \A i \in 2 .. n : new[i] = IF i <= at THEN lru[i - 1] ELSE lru[i]
  <2> HIDE DEF rest
  <2>1. k \in Source
    BY <1>1, <1>2
  <2>2. new \in Seq(Source) /\ Len(new) = n /\ new[1] = k /\ \A i \in 2 .. n : new[i] = rest[i - 1]
    <3>1. Len(rest) + 1 = n
      BY <1>1, <1>3
    <3> HIDE DEF n
    <3> QED
      BY <1>3, <2>1, <3>1, PrependFacts
  <2> HIDE DEF new, n
  <2>3. ASSUME NEW i \in 2 .. n  PROVE new[i] = IF i <= at THEN lru[i - 1] ELSE lru[i]
    <3>1. i - 1 \in 1 .. (n - 1) /\ (i - 1 < at <=> i <= at) /\ (i - 1) + 1 = i
      BY <1>1, <1>2
    <3>2. new[i] = rest[i - 1]
      BY <2>2
    <3> QED
      BY <1>3, <3>1, <3>2
  <2> QED
    BY <2>2, <2>3
<1>5. Parse!ToFront(k) = new
  BY DEF Parse!ToFront, at
<1> HIDE DEF new, n, rest
<1>6. \A i \in 1 .. n : new[i] = lru[IF i = 1 THEN at ELSE IF i <= at THEN i - 1 ELSE i]
  BY <1>1, <1>2, <1>4
<1>7. DOMAIN new = 1 .. n
  BY <1>4
<1>8. Parse!IsInjective(new)
  BY <1>1, <1>2, <1>6, <1>7 DEF Parse!IsInjective
<1>9. Parse!ToSet(new) = Parse!ToSet(lru)
  <2>1. Parse!ToSet(new) \subseteq Parse!ToSet(lru)
    BY <1>1, <1>2, <1>6, <1>7 DEF Parse!ToSet
  <2>2. ASSUME NEW j \in 1 .. n  PROVE lru[j] \in Parse!ToSet(new)
    <3>1. CASE j = at
      BY <1>1, <1>2, <1>6, <1>7, <3>1 DEF Parse!ToSet
    <3>2. CASE j < at
      <4>1. j + 1 \in 1 .. n /\ new[j + 1] = lru[j]
        BY <1>1, <1>2, <1>6, <3>2
      <4> QED
        BY <1>7, <4>1 DEF Parse!ToSet
    <3>3. CASE j > at
      <4>1. new[j] = lru[j]
        BY <1>1, <1>2, <1>6, <3>3
      <4> QED
        BY <1>7, <4>1 DEF Parse!ToSet
    <3> QED
      BY <1>1, <1>2, <3>1, <3>2, <3>3
  <2> QED
    BY <1>1, <2>1, <2>2 DEF Parse!ToSet
<1> QED
  BY <1>4, <1>5, <1>8, <1>9 DEF n

(* Splitting the list splits the sums over its entries.                    *)
LEMMA PrefixSum ==
  ASSUME ParseInv, NEW n \in 0 .. Len(lru), NEW f \in [Source -> Nat]
  PROVE  /\ Parse!SumFunctionOnSet(f, Parse!ToSet(lru)) =
              Parse!SumFunctionOnSet(f, Cached(n)) + Parse!SumFunctionOnSet(f, Gone(n))
         /\ Parse!SumFunctionOnSet(f, Cached(n)) \in Nat
         /\ Parse!SumFunctionOnSet(f, Gone(n)) \in Nat
         /\ IsFiniteSet(Cached(n)) /\ Cached(n) \subseteq Source
<1> DEFINE gone == Gone(n)
<1>0. /\ Len(lru) \in Nat /\ DOMAIN lru = 1 .. Len(lru)
      /\ \A i \in 1 .. Len(lru) : lru[i] \in Source
      /\ Parse!ToSet(lru) = {lru[i] : i \in 1 .. Len(lru)}
      /\ \A i, j \in 1 .. Len(lru) : lru[i] = lru[j] => i = j
  BY CachedFacts DEF ParseInv, Parse!CountersAddUp, Parse!IsInjective
<1>1. Parse!ToSet(lru) = Cached(n) \cup gone
  BY <1>0 DEF Cached, Gone
<1>2. Cached(n) \cap gone = {}
  BY <1>0 DEF Cached, Gone
<1>3. IsFiniteSet(Parse!ToSet(lru))
  <2>1. Len(lru) \in Nat
    BY <1>0
  <2>2. IsFiniteSet({lru[i] : i \in 1 .. Len(lru)})
    BY <2>1, RangeIsFinite, Zenon
  <2> QED
    BY <1>0, <2>2
<1>4. IsFiniteSet(Cached(n)) /\ IsFiniteSet(gone)
  BY <1>1, <1>3, FS_Subset
<1>5. Cached(n) \subseteq Source /\ gone \subseteq Source
  BY <1>0 DEF Cached, Gone
<1> HIDE DEF gone
<1>6. \A x \in Cached(n) \cup gone : f[x] \in Nat
  BY <1>5
<1>7. Parse!SumFunctionOnSet(f, Cached(n)) \in Nat /\ Parse!SumFunctionOnSet(f, gone) \in Nat
  BY <1>4, <1>6, SumIsNatural, ParseSums
<1>8. Parse!SumFunctionOnSet(f, Parse!ToSet(lru)) =
        Parse!SumFunctionOnSet(f, Cached(n)) + Parse!SumFunctionOnSet(f, gone)
  <2>1. SumFunctionOnSet(f, Parse!ToSet(lru)) =
          SumFunctionOnSet(f, Cached(n)) + SumFunctionOnSet(f, gone)
    BY <1>1, <1>2, <1>4, <1>6, SumOfUnion
  <2> QED
    BY <2>1, ParseSums
<1> QED
  BY <1>4, <1>5, <1>7, <1>8 DEF gone

(* LeavesRoom, with the entries that go by their name.                     *)
LEMMA RoomFacts ==
  ASSUME NEW n, NEW k
  PROVE  Parse!LeavesRoom(n, k) <=>
           /\ n < MaxEntries
           /\ bytes - Parse!SumFunctionOnSet(SourceBytes, Gone(n)) + SourceBytes[k] <= MaxBytes
           /\ nodes - Parse!SumFunctionOnSet(SourceNodes, Gone(n)) + SourceNodes[k] <= MaxNodes
BY Zenon DEF Parse!LeavesRoom, Gone

(* The eviction stops: an empty list leaves room for whatever may be       *)
(* stored.                                                                 *)
LEMMA KeptLeavesRoom ==
  ASSUME ParseInv, NEW k \in Source, Parse!Cacheable(k), Parse!Storable(k)
  PROVE  Parse!Kept(k) \in 0 .. Len(lru) /\ Parse!LeavesRoom(Parse!Kept(k), k)
<1> DEFINE S == {n \in 0 .. Len(lru) : Parse!LeavesRoom(n, k)}
<1>0. Len(lru) \in Nat /\ ParseTypes
  BY CachedFacts DEF ParseInv
<1>1. Parse!LeavesRoom(0, k)
  <2>1. Gone(0) = Parse!ToSet(lru)
    BY <1>0, CachedFacts DEF Gone
  <2>2. /\ bytes - Parse!SumFunctionOnSet(SourceBytes, Parse!ToSet(lru)) = 0
        /\ nodes - Parse!SumFunctionOnSet(SourceNodes, Parse!ToSet(lru)) = 0
    BY <1>0 DEF ParseInv, Parse!CountersAddUp, ParseTypes
  <2>3. SourceBytes[k] <= MaxBytes /\ 0 < MaxEntries
    BY ParseAssumption DEF Parse!Cacheable
  <2>4. SourceNodes[k] <= MaxNodes
    BY ParseAssumption DEF Parse!Storable
  <2>5. SourceBytes[k] \in Nat /\ SourceNodes[k] \in Nat
    BY ParseAssumption
  <2> QED
    BY <2>1, <2>2, <2>3, <2>4, <2>5, RoomFacts
<1>2. S \in SUBSET (0 .. Len(lru)) /\ S # {}
  BY <1>0, <1>1
<1>3. Parse!Kept(k) = Parse!Max(S)
  BY DEF Parse!Kept
<1>4. Parse!Kept(k) \in S
  <2> HIDE DEF S
  <2>1. \E x \in S : \A y \in S : x >= y
    BY <1>0, <1>2, GreatestNatural
  <2> QED
    BY <1>3, <2>1, Zenon DEF Parse!Max
<1> QED
  BY <1>4

(* Storing a new entry: the counters lose what the evicted entries counted *)
(* and gain the new one.                                                   *)
LEMMA StoreKeeps ==
  ASSUME ParseInv, NEW k \in Source, Parse!Cacheable(k), Parse!Storable(k), ~Parse!Contains(lru, k),
         lru' = <<k>> \o SubSeq(lru, 1, Parse!Kept(k)),
         bytes' = bytes - Parse!SumFunctionOnSet(SourceBytes, Parse!Evicted(k)) + SourceBytes[k],
         nodes' = nodes - Parse!SumFunctionOnSet(SourceNodes, Parse!Evicted(k)) + SourceNodes[k]
  PROVE  /\ lru' \in Seq(Source) /\ bytes' \in Nat /\ nodes' \in Nat
         /\ Parse!CountersAddUp' /\ Parse!WithinLimits'
<1> DEFINE n == Parse!Kept(k)
           gone == Gone(n)
<1>1. n \in 0 .. Len(lru) /\ Parse!LeavesRoom(n, k)
  BY KeptLeavesRoom
<1>2. Parse!Evicted(k) = gone
  BY Zenon DEF Parse!Evicted, Gone
<1>3. /\ bytes = Parse!SumFunctionOnSet(SourceBytes, Cached(n))
                   + Parse!SumFunctionOnSet(SourceBytes, gone)
      /\ nodes = Parse!SumFunctionOnSet(SourceNodes, Cached(n))
                   + Parse!SumFunctionOnSet(SourceNodes, gone)
      /\ Parse!SumFunctionOnSet(SourceBytes, Cached(n)) \in Nat
      /\ Parse!SumFunctionOnSet(SourceBytes, gone) \in Nat
      /\ Parse!SumFunctionOnSet(SourceNodes, Cached(n)) \in Nat
      /\ Parse!SumFunctionOnSet(SourceNodes, gone) \in Nat
  <2> HIDE DEF n
  <2> QED
    BY <1>1, PrefixSum, ParseAssumption DEF ParseInv, Parse!CountersAddUp
<1>a. IsFiniteSet(Cached(n)) /\ Cached(n) \subseteq Source
  <2> HIDE DEF n
  <2> QED
    BY <1>1, PrefixSum, ParseAssumption
<1>4. /\ n < MaxEntries
      /\ bytes - Parse!SumFunctionOnSet(SourceBytes, gone) + SourceBytes[k] <= MaxBytes
      /\ nodes - Parse!SumFunctionOnSet(SourceNodes, gone) + SourceNodes[k] <= MaxNodes
  BY <1>1, RoomFacts
<1> HIDE DEF n, gone
<1>5. SourceBytes[k] \in Nat /\ SourceNodes[k] \in Nat
  BY ParseAssumption
<1>6. /\ bytes' = Parse!SumFunctionOnSet(SourceBytes, Cached(n)) + SourceBytes[k]
      /\ bytes' <= MaxBytes
      /\ nodes' = Parse!SumFunctionOnSet(SourceNodes, Cached(n)) + SourceNodes[k]
      /\ nodes' <= MaxNodes
  BY <1>2, <1>3, <1>4, <1>5
<1>7. /\ Len(lru) \in Nat /\ lru \in Seq(Source) /\ DOMAIN lru = 1 .. Len(lru)
      /\ \A i, j \in 1 .. Len(lru) : lru[i] = lru[j] => i = j
      /\ \A i \in 1 .. Len(lru) : lru[i] # k
  BY CachedFacts DEF ParseInv, ParseTypes, Parse!CountersAddUp, Parse!IsInjective, Parse!Contains
<1>8. /\ lru' \in Seq(Source) /\ Len(lru') = n + 1 /\ lru'[1] = k
      /\ \A i \in 2 .. (n + 1) : lru'[i] = lru[i - 1]
  <2>1. lru' = <<k>> \o SubSeq(lru, 1, n)
    BY DEF n
  <2> DEFINE front == SubSeq(lru, 1, n)
  <2>2. front \in Seq(Source) /\ Len(front) = n /\ \A i \in 1 .. n : front[i] = lru[i]
    BY <1>1, <1>7
  <2> HIDE DEF front
  <2>3. /\ lru' \in Seq(Source) /\ Len(lru') = n + 1 /\ lru'[1] = k
        /\ \A i \in 2 .. (n + 1) : lru'[i] = front[i - 1]
    <3>1. lru' = <<k>> \o front
      BY <2>1 DEF front
    <3>2. /\ lru' \in Seq(Source) /\ Len(lru') = Len(front) + 1 /\ lru'[1] = k
          /\ \A i \in 2 .. (Len(front) + 1) : lru'[i] = front[i - 1]
      <4>1. /\ <<k>> \o front \in Seq(Source) /\ Len(<<k>> \o front) = Len(front) + 1
            /\ (<<k>> \o front)[1] = k
            /\ \A i \in 2 .. (Len(front) + 1) : (<<k>> \o front)[i] = front[i - 1]
        BY <2>2, PrependFacts
      <4> QED
        BY <3>1, <4>1, Zenon
    <3> QED
      BY <2>2, <3>2
  <2>4. ASSUME NEW i \in 2 .. (n + 1)  PROVE lru'[i] = lru[i - 1]
    <3>1. i - 1 \in 1 .. n
      BY <1>1, <1>7
    <3> QED
      BY <2>2, <2>3, <3>1
  <2> QED
    BY <2>3, <2>4
<1>9. DOMAIN lru' = 1 .. (n + 1)
  BY <1>8
<1>10. Parse!IsInjective(lru')
  <2>1. \A i \in 2 .. (n + 1) : i - 1 \in 1 .. n /\ i - 1 \in 1 .. Len(lru)
    BY <1>1, <1>7
  <2>2. \A i \in 2 .. (n + 1) : lru'[i] # k
    BY <1>7, <1>8, <2>1
  <2>3. ASSUME NEW i \in 1 .. (n + 1), NEW j \in 1 .. (n + 1), lru'[i] = lru'[j]
        PROVE  i = j
    <3>1. CASE i = 1 \/ j = 1
      BY <1>1, <1>7, <1>8, <2>2, <2>3, <3>1
    <3>2. CASE i # 1 /\ j # 1
      <4>1. i \in 2 .. (n + 1) /\ j \in 2 .. (n + 1)
        BY <1>1, <1>7, <3>2
      <4>2. i - 1 = j - 1
        BY <1>7, <1>8, <2>1, <2>3, <4>1
      <4> QED
        BY <4>1, <4>2
    <3> QED
      BY <3>1, <3>2
  <2> QED
    BY <1>9, <2>3 DEF Parse!IsInjective
<1>11. Parse!ToSet(lru') = Cached(n) \cup {k} /\ k \notin Cached(n)
  <2>1. k \notin Cached(n)
    BY <1>1, <1>7 DEF Cached
  <2>2. Parse!ToSet(lru') \subseteq Cached(n) \cup {k}
    BY <1>1, <1>8, <1>9 DEF Cached, Parse!ToSet
  <2>3. ASSUME NEW j \in 1 .. n  PROVE lru[j] \in Parse!ToSet(lru')
    <3>1. j + 1 \in 2 .. (n + 1) /\ lru'[j + 1] = lru[j]
      BY <1>1, <1>7, <1>8
    <3>2. j + 1 \in 1 .. (n + 1)
      BY <1>1, <1>7
    <3> QED
      BY <1>9, <3>1, <3>2, Zenon DEF Parse!ToSet
  <2>4. k \in Parse!ToSet(lru')
    <3>1. 1 \in 1 .. (n + 1) /\ lru'[1] = k
      BY <1>1, <1>7, <1>8
    <3> QED
      BY <1>9, <3>1, Zenon DEF Parse!ToSet
  <2> QED
    BY <2>1, <2>2, <2>3, <2>4 DEF Cached
<1>12. ASSUME NEW f \in [Source -> Nat]
       PROVE  Parse!SumFunctionOnSet(f, Parse!ToSet(lru')) =
                Parse!SumFunctionOnSet(f, Cached(n)) + f[k]
  <2>1. IsFiniteSet(Cached(n) \cup {k})
    BY <1>a, FS_AddElement
  <2>2. \A x \in Cached(n) \cup {k} : f[x] \in Nat
    BY <1>a
  <2>3. Parse!SumFunctionOnSet(f, Cached(n) \cup {k}) =
          f[k] + Parse!SumFunctionOnSet(f, (Cached(n) \cup {k}) \ {k})
    <3>1. SumFunctionOnSet(f, Cached(n) \cup {k}) =
            f[k] + SumFunctionOnSet(f, (Cached(n) \cup {k}) \ {k})
      BY <2>1, <2>2, SumOfMore
    <3> QED
      BY <3>1, ParseSums
  <2>4. (Cached(n) \cup {k}) \ {k} = Cached(n)
    BY <1>11
  <2>5. Parse!SumFunctionOnSet(f, Cached(n)) \in Nat /\ f[k] \in Nat
    BY <1>a, <2>2, SumIsNatural, ParseSums
  <2>6. Parse!SumFunctionOnSet(f, Parse!ToSet(lru')) = f[k] + Parse!SumFunctionOnSet(f, Cached(n))
    BY <1>11, <2>3, <2>4
  <2> QED
    BY <2>5, <2>6
<1>13. Parse!CountersAddUp'
  BY <1>6, <1>10, <1>12, ParseAssumption DEF Parse!CountersAddUp
<1>14. Parse!WithinLimits'
  BY <1>1, <1>4, <1>6, <1>8, ParseAssumption DEF Parse!WithinLimits
<1>15. bytes' \in Nat /\ nodes' \in Nat
  <2>1. /\ Parse!SumFunctionOnSet(SourceBytes, Cached(n)) + SourceBytes[k] \in Nat
        /\ Parse!SumFunctionOnSet(SourceNodes, Cached(n)) + SourceNodes[k] \in Nat
    BY <1>3, <1>5
  <2> QED
    BY <1>6, <2>1
<1> QED
  BY <1>8, <1>13, <1>14, <1>15

(* The invariant holds initially.                                          *)
LEMMA ParseInvInit == Parse!Init => ParseInv
<1> SUFFICES ASSUME Parse!Init  PROVE ParseInv
  OBVIOUS
<1>1. ParseTypes
  BY DEF Parse!Init, ParseTypes
<1>2. Parse!ToSet(lru) = {} /\ Parse!IsInjective(lru) /\ Len(lru) = 0
  BY DEF Parse!Init, Parse!ToSet, Parse!IsInjective
<1>a. /\ Parse!SumFunctionOnSet(SourceBytes, Parse!ToSet(lru)) = 0
      /\ Parse!SumFunctionOnSet(SourceNodes, Parse!ToSet(lru)) = 0
  BY <1>2, SumOfNone, ParseSums
<1>3. Parse!CountersAddUp /\ Parse!WithinLimits
  BY <1>2, <1>a, ParseAssumption DEF Parse!Init, Parse!CountersAddUp, Parse!WithinLimits
<1> QED
  BY <1>1, <1>3 DEF Parse!Init, ParseInv

(* Every step keeps the invariant.                                         *)
LEMMA ParseInvStep == ParseInv /\ [Parse!Next]_(Parse!vars) => ParseInv'
<1> SUFFICES ASSUME ParseInv, [Parse!Next]_(Parse!vars)  PROVE ParseInv'
  OBVIOUS
<1>0. ParseTypes /\ Parse!CountersAddUp /\ Parse!WithinLimits
  BY DEF ParseInv
<1>1. ASSUME NEW k, Parse!Contains(lru, k), lru' = Parse!ToFront(k), UNCHANGED <<bytes, nodes>>
      PROVE  lru' \in Seq(Source) /\ Parse!CountersAddUp' /\ Parse!WithinLimits'
  <2>1. /\ lru' \in Seq(Source) /\ Len(lru') = Len(lru)
        /\ Parse!IsInjective(lru') /\ Parse!ToSet(lru') = Parse!ToSet(lru)
    BY <1>0, <1>1, ToFrontKeeps DEF Parse!CountersAddUp
  <2> QED
    BY <1>0, <1>1, <2>1 DEF Parse!CountersAddUp, Parse!WithinLimits
<1>2. ASSUME NEW r \in Visitor, NEW k \in Source, Parse!Lookup(r, k)  PROVE ParseInv'
  <2>1. UNCHANGED <<bytes, nodes>> /\ Parse!Cacheable(k)
    BY <1>2 DEF Parse!Lookup
  <2>2. CASE Parse!Contains(lru, k)
    BY <1>0, <1>1, <1>2, <2>1, <2>2 DEF Parse!Lookup, ParseInv, ParseTypes, Parse!Cacheable
  <2>3. CASE ~Parse!Contains(lru, k)
    <3>1. lru' = lru /\ parsing' = [parsing EXCEPT ![r] = k]
      BY <1>2, <2>3 DEF Parse!Lookup
    <3>2. ParseTypes'
      BY <1>0, <2>1, <3>1 DEF ParseTypes
    <3>3. Parse!CountersAddUp' /\ Parse!WithinLimits'
      BY <1>0, <2>1, <3>1 DEF Parse!CountersAddUp, Parse!WithinLimits
    <3>4. \A s \in Visitor : parsing'[s] # NoKey => Parse!Cacheable(parsing'[s])
      BY <1>0, <2>1, <3>1 DEF ParseInv, ParseTypes
    <3> QED
      BY <3>2, <3>3, <3>4 DEF ParseInv, Parse!Cacheable
  <2> QED
    BY <2>2, <2>3
<1>3. ASSUME NEW r \in Visitor, parsing' = [parsing EXCEPT ![r] = NoKey],
             lru' \in Seq(Source), bytes' \in Nat, nodes' \in Nat,
             Parse!CountersAddUp', Parse!WithinLimits'
      PROVE  ParseInv'
  <2>1. ParseTypes'
    BY <1>0, <1>3 DEF ParseTypes
  <2>2. \A s \in Visitor : parsing'[s] # NoKey => Parse!Cacheable(parsing'[s])
    BY <1>0, <1>3 DEF ParseInv, ParseTypes
  <2> QED
    BY <1>3, <2>1, <2>2 DEF ParseInv, Parse!Cacheable
<1>4. ASSUME NEW r \in Visitor, Parse!Discard(r)  PROVE ParseInv'
  BY <1>0, <1>3, <1>4 DEF Parse!Discard, ParseTypes, Parse!CountersAddUp, Parse!WithinLimits
<1>5. ASSUME NEW r \in Visitor, Parse!Store(r)  PROVE ParseInv'
  <2> DEFINE k == parsing[r]
  <2>1. /\ k \in Source /\ Parse!Cacheable(k) /\ Parse!Storable(k)
        /\ parsing' = [parsing EXCEPT ![r] = NoKey]
    BY <1>0, <1>5 DEF Parse!Store, ParseInv, ParseTypes
  <2>2. CASE Parse!Contains(lru, k)
    <3>1. lru' = Parse!ToFront(k) /\ UNCHANGED <<bytes, nodes>>
      BY <1>5, <2>2 DEF Parse!Store
    <3> QED
      BY <1>0, <1>1, <1>3, <2>1, <2>2, <3>1 DEF ParseTypes
  <2>3. CASE ~Parse!Contains(lru, k)
    <3>1. /\ lru' = <<k>> \o SubSeq(lru, 1, Parse!Kept(k))
          /\ bytes' = bytes - Parse!SumFunctionOnSet(SourceBytes, Parse!Evicted(k)) + SourceBytes[k]
          /\ nodes' = nodes - Parse!SumFunctionOnSet(SourceNodes, Parse!Evicted(k)) + SourceNodes[k]
      BY <1>5, <2>3 DEF Parse!Store
    <3> HIDE DEF k
    <3>2. /\ lru' \in Seq(Source) /\ bytes' \in Nat /\ nodes' \in Nat
          /\ Parse!CountersAddUp' /\ Parse!WithinLimits'
      BY <2>1, <2>3, <3>1, StoreKeeps
    <3> QED
      BY <1>3, <2>1, <3>2
  <2> QED
    BY <2>2, <2>3
<1>6. CASE UNCHANGED Parse!vars
  BY <1>0, <1>6 DEF Parse!vars, ParseInv, ParseTypes, Parse!CountersAddUp, Parse!WithinLimits,
     Parse!Cacheable
<1> QED
  BY <1>2, <1>4, <1>5, <1>6 DEF Parse!Next

(* A step of Resources is one of the parse cache or leaves it alone.       *)
LEMMA ParseSimulates ==
  /\ ResourcesInit => Parse!Init
  /\ [ResourcesNext]_resourcesVars => [Parse!Next]_(Parse!vars)
<1>1. ResourcesInit => Parse!Init
  BY DEF ResourcesInit
<1>2. UNCHANGED parseVars => UNCHANGED Parse!vars
  BY DEF parseVars, Parse!vars
<1>3. [ResourcesNext]_resourcesVars => Parse!Next \/ UNCHANGED parseVars
  BY DEF ResourcesNext, resourcesVars
<1> QED
  BY <1>1, <1>2, <1>3

(* The inductive invariant of the parse cache.                             *)
THEOREM ParseInvariant == ResourcesSpec => []ParseInv
BY ParseSimulates, ParseInvInit, ParseInvStep, PTL DEF ResourcesSpec

(* The counters of the parse cache are what its entries add up to, no      *)
(* entry is there twice, and the three limits are kept                     *)
(* (parseCache.parse), for any number of requests that parse the same      *)
(* source at once, any sizes and any limits.                               *)
THEOREM ParseCacheBounded == ResourcesSpec => []ParseCacheIsBounded
<1>1. ParseInv => ParseCacheIsBounded
  BY DEF ParseInv, ParseCacheIsBounded
<1> QED
  BY <1>1, ParseInvariant, PTL

-----------------------------------------------------------------------------
(* The request limiter.                                                    *)

(* The cardinality of RateLimiter is that of this module.                  *)
LEMMA LimiterCardinality == \A S : Limiter!Cardinality(S) = Cardinality(S)
BY DEF Limiter!Cardinality, Cardinality

(* What the map remembers of a client.                                     *)
Times(k) == IF k \in DOMAIN entries THEN entries[k] ELSE <<>>

(* One sequence of times is the end of another.                            *)
EndOf(s, all) ==
  /\ s \in Seq(Nat) /\ all \in Seq(Nat) /\ Len(s) <= Len(all)
  /\ \A i \in 1 .. Len(s) : s[i] = all[Len(all) - Len(s) + i]

(* What it leaves out is older than a time.                                *)
Before(s, all, bound) == \A i \in 1 .. (Len(all) - Len(s)) : all[i] < bound

(* The map holds the end of a client's history, and what it dropped is too *)
(* old to share a window with a request that comes now or later.           *)
Remembered(s, all) == EndOf(s, all) /\ Before(s, all, clock - Window + MaxLag)

LimiterTypes ==
  /\ clock \in Nat
  /\ lastCleanup \in Nat \cup {Never}
  /\ DOMAIN entries \subseteq Client
  /\ waiting \in [Visitor -> (Client \X Nat) \cup {Never}]
  /\ accepted \in [Client -> Seq(Nat)]

(* No time is ahead of the clock, and nobody waits longer than MaxLag.     *)
NotAhead ==
  /\ lastCleanup # Never => lastCleanup <= clock
  /\ \A r \in Visitor :
       waiting[r] # Never => waiting[r][2] <= clock /\ clock - waiting[r][2] <= MaxLag
  /\ \A k \in Client : \A i \in 1 .. Len(accepted[k]) : accepted[k][i] <= clock

(* A history is in order but for the lag.                                  *)
AlmostOrdered(times) ==
  \A i, j \in 1 .. Len(times) : i < j => times[i] <= times[j] + MaxLag

(* What AcceptedPerWindow says, at every time and not only at those of     *)
(* requests.                                                               *)
Windowed(times) == \A t \in Int : Cardinality(Limiter!InWindow(times, t)) <= Limit

(* The last clean-up left only clients that were recent then.              *)
CleanedUp ==
  \A k \in DOMAIN entries :
    /\ entries[k] # <<>>
    /\ lastCleanup # Never => Limiter!Last(entries[k]) >= lastCleanup - Window

(* The inductive invariant.                                                *)
LimiterInv ==
  /\ LimiterTypes /\ NotAhead /\ CleanedUp
  /\ \A k \in Client : /\ Remembered(Times(k), accepted[k])
                    /\ AlmostOrdered(accepted[k]) /\ Windowed(accepted[k])

(* A sequence is its own end, and the empty one is an end of any.          *)
LEMMA EndOfSelf ==
  ASSUME NEW s \in Seq(Nat)
  PROVE  EndOf(s, s) /\ EndOf(<<>>, s)
BY DEF EndOf

(* The end of an end.                                                      *)
LEMMA EndOfEnd ==
  ASSUME NEW a, NEW b, NEW c, EndOf(a, b), EndOf(b, c), NEW bound \in Int,
         Before(a, b, bound), Before(b, c, bound)
  PROVE  EndOf(a, c) /\ Before(a, c, bound)
<1>1. /\ Len(a) \in Nat /\ Len(b) \in Nat /\ Len(c) \in Nat
      /\ Len(a) <= Len(b) /\ Len(b) <= Len(c)
      /\ a \in Seq(Nat) /\ c \in Seq(Nat)
  BY DEF EndOf
<1>2. ASSUME NEW i \in 1 .. Len(a)  PROVE a[i] = c[Len(c) - Len(a) + i]
  <2>1. a[i] = b[Len(b) - Len(a) + i]
    BY DEF EndOf
  <2>2. /\ Len(b) - Len(a) + i \in 1 .. Len(b)
        /\ Len(c) - Len(b) + (Len(b) - Len(a) + i) = Len(c) - Len(a) + i
    BY <1>1
  <2>3. b[Len(b) - Len(a) + i] = c[Len(c) - Len(b) + (Len(b) - Len(a) + i)]
    BY <2>2 DEF EndOf
  <2> QED
    BY <2>1, <2>2, <2>3
<1>3. ASSUME NEW i \in 1 .. (Len(c) - Len(a))  PROVE c[i] < bound
  <2>1. CASE i <= Len(c) - Len(b)
    <3>1. i \in 1 .. (Len(c) - Len(b))
      BY <1>1, <2>1
    <3> QED
      BY <3>1 DEF Before
  <2>2. CASE i > Len(c) - Len(b)
    <3> DEFINE j == i - (Len(c) - Len(b))
    <3>1. j \in 1 .. (Len(b) - Len(a)) /\ j \in 1 .. Len(b) /\ Len(c) - Len(b) + j = i
      BY <1>1, <2>2
    <3> HIDE DEF j
    <3>2. b[j] < bound
      BY <3>1 DEF Before
    <3>3. b[j] = c[Len(c) - Len(b) + j]
      BY <3>1 DEF EndOf
    <3> QED
      BY <3>1, <3>2, <3>3
  <2> QED
    BY <1>1, <2>1, <2>2
<1> QED
  BY <1>1, <1>2, <1>3 DEF EndOf, Before

(* An end stays one when both grow by the same time.                       *)
LEMMA EndOfLonger ==
  ASSUME NEW s, NEW all, EndOf(s, all), NEW t \in Nat, NEW bound, Before(s, all, bound)
  PROVE  EndOf(Append(s, t), Append(all, t)) /\ Before(Append(s, t), Append(all, t), bound)
<1> DEFINE m == Len(s)
           n == Len(all)
<1>1. s \in Seq(Nat) /\ all \in Seq(Nat) /\ m \in Nat /\ n \in Nat /\ m <= n
  BY DEF EndOf
<1>2. /\ Append(s, t) \in Seq(Nat) /\ Append(all, t) \in Seq(Nat)
      /\ Len(Append(s, t)) = m + 1 /\ Len(Append(all, t)) = n + 1
      /\ \A i \in 1 .. m : Append(s, t)[i] = s[i]
      /\ \A i \in 1 .. n : Append(all, t)[i] = all[i]
      /\ Append(s, t)[m + 1] = t /\ Append(all, t)[n + 1] = t
  BY <1>1
<1>a. /\ \A i \in 1 .. m : s[i] = all[n - m + i]
      /\ \A i \in 1 .. (n - m) : all[i] < bound
  BY DEF EndOf, Before
<1> DEFINE s1 == Append(s, t)
           all1 == Append(all, t)
<1> HIDE DEF m, n, s1, all1
<1>3. ASSUME NEW i \in 1 .. (m + 1)  PROVE s1[i] = all1[(n + 1) - (m + 1) + i]
  <2>1. (n + 1) - (m + 1) + i = n - m + i
    BY <1>1
  <2>2. CASE i \in 1 .. m
    <3>1. n - m + i \in 1 .. n
      BY <1>1, <2>2
    <3> QED
      BY <1>2, <1>a, <2>1, <2>2, <3>1 DEF s1, all1
  <2>3. CASE i = m + 1
    <3>1. n - m + i = n + 1
      BY <1>1, <2>3
    <3> QED
      BY <1>2, <2>1, <2>3, <3>1 DEF s1, all1
  <2> QED
    BY <1>1, <2>2, <2>3
<1>4. ASSUME NEW i \in 1 .. ((n + 1) - (m + 1))  PROVE all1[i] < bound
  <2>1. i \in 1 .. (n - m) /\ i \in 1 .. n
    BY <1>1
  <2> QED
    BY <1>2, <1>a, <2>1 DEF all1
<1>5. s1 \in Seq(Nat) /\ all1 \in Seq(Nat) /\ Len(s1) = m + 1 /\ Len(all1) = n + 1
  BY <1>2 DEF s1, all1
<1>6. EndOf(s1, all1) /\ Before(s1, all1, bound)
  BY <1>1, <1>3, <1>4, <1>5 DEF EndOf, Before
<1> QED
  BY <1>6 DEF s1, all1

(* The last time of an end is that of the whole.                           *)
LEMMA LastOfEnd ==
  ASSUME NEW s, NEW all, EndOf(s, all), s # <<>>
  PROVE  /\ Limiter!Last(s) = Limiter!Last(all) /\ Limiter!Last(s) \in Nat
         /\ Len(all) \in 1 .. Len(all) /\ Limiter!Last(all) = all[Len(all)]
<1>1. /\ Len(s) \in Nat /\ Len(s) # 0 /\ Len(all) \in Nat /\ Len(s) <= Len(all)
      /\ s \in Seq(Nat)
  BY DEF EndOf
<1>2. Len(s) \in 1 .. Len(s) /\ Len(all) \in 1 .. Len(all) /\ Len(all) - Len(s) + Len(s) = Len(all)
  BY <1>1
<1>3. s[Len(s)] = all[Len(all)]
  BY <1>2 DEF EndOf
<1> QED
  BY <1>1, <1>2, <1>3 DEF Limiter!Last

(* The loop that drops expired times leaves an end, and drops only what is *)
(* older than the window.                                                  *)
LEMMA RecentFacts ==
  ASSUME NEW times \in Seq(Nat), NEW t \in Nat
  PROVE  /\ EndOf(Limiter!Recent(times, t), times)
         /\ Before(Limiter!Recent(times, t), times, t - Window)
<1> DEFINE inWindow == {i \in DOMAIN times : times[i] >= t - Window}
           n == Len(times)
<1>1. n \in Nat /\ DOMAIN times = 1 .. n /\ \A i \in 1 .. n : times[i] \in Nat
  OBVIOUS
<1>2. CASE inWindow = {}
  <2>1. Limiter!Recent(times, t) = <<>>
    BY <1>2, Zenon DEF Limiter!Recent
  <2>2. \A i \in 1 .. n : times[i] < t - Window
    <3> SUFFICES ASSUME NEW i \in 1 .. n  PROVE times[i] < t - Window
      OBVIOUS
    <3>1. ~(times[i] >= t - Window)
      BY <1>1, <1>2
    <3>2. times[i] \in Nat /\ Window \in Nat
      BY <1>1, LimiterAssumption
    <3> QED
      BY <3>1, <3>2
  <2> QED
    BY <1>1, <2>1, <2>2, EndOfSelf DEF Before
<1>3. CASE inWindow # {}
  <2> DEFINE m == Limiter!Min(inWindow)
  <2>1. Limiter!Recent(times, t) = SubSeq(times, m, n)
    BY <1>3, Zenon DEF Limiter!Recent
  <2>2. m \in inWindow /\ \A y \in inWindow : m <= y
    <3>1. inWindow \in SUBSET Nat
      BY <1>1
    <3> HIDE DEF inWindow
    <3>2. \E x \in inWindow : \A y \in inWindow : x <= y
      BY <1>3, <3>1, LeastNatural
    <3> QED
      BY <3>2, Zenon DEF Limiter!Min
  <2>3. m \in 1 .. n
    BY <1>1, <2>2
  <2>4. ASSUME NEW i \in 1 .. n, i < m  PROVE times[i] < t - Window
    <3>1. m \in Nat /\ i \in Nat /\ ~(m <= i)
      BY <2>3, <2>4
    <3>2. i \notin inWindow
      BY <2>2, <3>1
    <3>3. ~(times[i] >= t - Window)
      BY <1>1, <3>2
    <3>4. times[i] \in Nat /\ Window \in Nat
      BY <1>1, LimiterAssumption
    <3> QED
      BY <3>3, <3>4
  <2> HIDE DEF m, inWindow
  <2>5. /\ SubSeq(times, m, n) \in Seq(Nat) /\ Len(SubSeq(times, m, n)) = n - m + 1
        /\ \A i \in 1 .. (n - m + 1) : SubSeq(times, m, n)[i] = times[m + i - 1]
    BY <1>1, <2>3
  <2> DEFINE rest == SubSeq(times, m, n)
  <2> HIDE DEF n, rest
  <2>6. /\ rest \in Seq(Nat) /\ Len(rest) = n - m + 1
        /\ \A i \in 1 .. (n - m + 1) : rest[i] = times[m + i - 1]
    BY <2>5 DEF rest
  <2>7. Len(rest) <= n /\ n - Len(rest) = m - 1
    BY <1>1, <2>3, <2>6
  <2>8. ASSUME NEW i \in 1 .. Len(rest)  PROVE rest[i] = times[n - Len(rest) + i]
    <3>1. i \in 1 .. (n - m + 1) /\ m + i - 1 = n - Len(rest) + i
      BY <1>1, <2>3, <2>6
    <3> QED
      BY <2>6, <3>1
  <2>9. ASSUME NEW i \in 1 .. (n - Len(rest))  PROVE times[i] < t - Window
    <3>1. i \in 1 .. n /\ i < m
      BY <1>1, <2>3, <2>7
    <3> QED
      BY <2>4, <3>1
  <2>10. EndOf(rest, times) /\ Before(rest, times, t - Window)
    BY <2>6, <2>7, <2>8, <2>9 DEF EndOf, Before, n
  <2> QED
    BY <2>1, <2>10 DEF rest, n
<1> QED
  BY <1>2, <1>3

(* What the map remembers of a client after the clean-up.                  *)
Tidy(t, k) == IF k \in DOMAIN Limiter!Cleaned(t) THEN Limiter!Cleaned(t)[k] ELSE <<>>

(* The clean-up keeps Remembered: the last time of a client that it        *)
(* removes is out of the window, so all of them are out of the window less *)
(* the lag.                                                                *)
LEMMA CleanedFacts ==
  ASSUME LimiterInv, NEW t \in Nat, t <= clock, clock - t <= MaxLag
  PROVE  /\ DOMAIN Limiter!Cleaned(t) \subseteq Client
         /\ \A k \in DOMAIN Limiter!Cleaned(t) :
              /\ Limiter!Cleaned(t)[k] = entries[k] /\ k \in DOMAIN entries
              /\ Limiter!Cleaned(t)[k] # <<>>
              /\ Limiter!Last(Limiter!Cleaned(t)[k]) >=
                   (IF Limiter!CleanupDue(t) THEN t ELSE lastCleanup) - Window
              /\ Limiter!Last(Limiter!Cleaned(t)[k]) \in Nat
         /\ \A k \in Client : Remembered(Tidy(t, k), accepted[k])
<1> DEFINE table == Limiter!Cleaned(t)
<1>0. /\ DOMAIN entries \subseteq Client /\ clock \in Nat /\ accepted \in [Client -> Seq(Nat)]
      /\ Window \in Nat /\ MaxLag \in Nat
  BY LimiterAssumption DEF LimiterInv, LimiterTypes
<1>1. /\ DOMAIN table \subseteq DOMAIN entries
      /\ \A k \in DOMAIN table : table[k] = entries[k]
      /\ \A k \in DOMAIN entries :
           k \notin DOMAIN table <=> Limiter!CleanupDue(t) /\ Limiter!Expired(entries[k], t)
  BY Zenon DEF Limiter!Cleaned
<1> HIDE DEF table
<1>2. ASSUME NEW k \in DOMAIN entries
      PROVE  /\ entries[k] # <<>> /\ Limiter!Last(entries[k]) \in Nat
             /\ EndOf(entries[k], accepted[k])
             /\ Limiter!Last(entries[k]) = accepted[k][Len(accepted[k])]
             /\ Len(accepted[k]) \in 1 .. Len(accepted[k])
  <2>1. entries[k] # <<>> /\ EndOf(entries[k], accepted[k])
    BY <1>0 DEF LimiterInv, CleanedUp, Remembered, Times
  <2> QED
    BY <2>1, LastOfEnd
<1>3. ASSUME NEW k \in DOMAIN table
      PROVE  Limiter!Last(entries[k]) >= (IF Limiter!CleanupDue(t) THEN t ELSE lastCleanup) - Window
  <2>0. k \in DOMAIN entries
    BY <1>1
  <2>1. CASE Limiter!CleanupDue(t)
    <3>1. ~(Limiter!Last(entries[k]) < t - Window)
      BY <1>1, <2>0, <2>1 DEF Limiter!Expired
    <3>2. Limiter!Last(entries[k]) \in Nat
      BY <1>2, <2>0
    <3> QED
      BY <1>0, <2>1, <3>1, <3>2
  <2>2. CASE ~Limiter!CleanupDue(t)
    BY <2>0, <2>2 DEF LimiterInv, CleanedUp, Limiter!CleanupDue
  <2> QED
    BY <2>1, <2>2
<1>4. ASSUME NEW k \in Client  PROVE Remembered(Tidy(t, k), accepted[k])
  <2>1. CASE k \in DOMAIN table
    <3>1. Tidy(t, k) = Times(k)
      BY <1>1, <2>1 DEF Tidy, Times, table
    <3> QED
      BY <3>1 DEF LimiterInv
  <2>2. CASE k \notin DOMAIN table /\ k \notin DOMAIN entries
    <3>1. Tidy(t, k) = Times(k)
      BY <2>2 DEF Tidy, Times, table
    <3> QED
      BY <3>1 DEF LimiterInv
  <2>3. CASE k \notin DOMAIN table /\ k \in DOMAIN entries
    <3>1. Tidy(t, k) = <<>>
      BY <2>3 DEF Tidy, table
    <3>2. Limiter!Last(entries[k]) < t - Window
      BY <1>1, <1>2, <2>3 DEF Limiter!Expired
    <3> DEFINE n == Len(accepted[k])
    <3>3. /\ n \in 1 .. n /\ accepted[k][n] < t - Window /\ accepted[k] \in Seq(Nat)
      BY <1>0, <1>2, <2>3, <3>2
    <3>4. ASSUME NEW i \in 1 .. n  PROVE accepted[k][i] < clock - Window + MaxLag
      <4>1. accepted[k][i] <= accepted[k][n] + MaxLag
        <5>1. CASE i = n
          BY <1>0, <3>3, <5>1
        <5>2. CASE i < n
          BY <3>3, <5>2 DEF LimiterInv, AlmostOrdered
        <5> QED
          BY <3>3, <5>1, <5>2
      <4>2. accepted[k][i] \in Nat /\ accepted[k][n] \in Nat
        BY <3>3
      <4> HIDE DEF n
      <4> QED
        BY <1>0, <3>3, <4>1, <4>2
    <3>5. EndOf(<<>>, accepted[k])
      BY <3>3, EndOfSelf
    <3>6. Before(<<>>, accepted[k], clock - Window + MaxLag)
      BY <3>3, <3>4 DEF Before
    <3> QED
      BY <3>1, <3>5, <3>6 DEF Remembered
  <2> QED
    BY <2>1, <2>2, <2>3
<1> QED
  BY <1>0, <1>1, <1>2, <1>3, <1>4 DEF table

(* So does the loop that follows it.                                       *)
LEMMA RecentRemembered ==
  ASSUME LimiterInv, NEW t \in Nat, t <= clock, clock - t <= MaxLag, NEW k \in Client,
         NEW recent, recent = Limiter!Requests(Limiter!Cleaned(t), k, t)
  PROVE  /\ Remembered(recent, accepted[k]) /\ recent \in Seq(Nat)
         /\ recent # <<>> =>
              /\ k \in DOMAIN Limiter!Cleaned(t)
              /\ Limiter!Last(recent) = Limiter!Last(Limiter!Cleaned(t)[k])
<1>0. clock \in Nat /\ Window \in Nat /\ MaxLag \in Nat
  BY LimiterAssumption DEF LimiterInv, LimiterTypes
<1>1. Remembered(Tidy(t, k), accepted[k])
  BY CleanedFacts
<1>2. CASE k \in DOMAIN Limiter!Cleaned(t)
  <2>1. recent = Limiter!Recent(Tidy(t, k), t) /\ Tidy(t, k) = Limiter!Cleaned(t)[k]
    BY <1>2 DEF Limiter!Requests, Tidy
  <2>2. Tidy(t, k) \in Seq(Nat)
    BY <1>1 DEF Remembered, EndOf
  <2>3. EndOf(recent, Tidy(t, k)) /\ Before(recent, Tidy(t, k), t - Window)
    BY <2>1, <2>2, RecentFacts
  <2>4. Before(recent, Tidy(t, k), clock - Window + MaxLag)
    <3>1. \A i \in 1 .. (Len(Tidy(t, k)) - Len(recent)) : i \in 1 .. Len(Tidy(t, k))
      BY <2>3 DEF EndOf
    <3>2. \A i \in 1 .. Len(Tidy(t, k)) : Tidy(t, k)[i] \in Nat
      BY <2>2
    <3> QED
      BY <1>0, <2>3, <3>1, <3>2 DEF Before
  <2>5. clock - Window + MaxLag \in Int
    BY <1>0
  <2>6. Remembered(recent, accepted[k])
    BY <1>1, <2>3, <2>4, <2>5, EndOfEnd DEF Remembered
  <2> QED
    BY <1>2, <2>1, <2>3, <2>6, LastOfEnd DEF EndOf
<1>3. CASE k \notin DOMAIN Limiter!Cleaned(t)
  <2>1. recent = <<>> /\ Tidy(t, k) = <<>>
    BY <1>3 DEF Limiter!Requests, Tidy
  <2> QED
    BY <1>1, <2>1
<1> QED
  BY <1>2, <1>3

(* A request accepted below the limit: the times that can share its window *)
(* are among those remembered.                                             *)
LEMMA OneMoreInWindow ==
  ASSUME NEW all, NEW recent, Remembered(recent, all), Windowed(all), Len(recent) < Limit,
         clock \in Nat, NEW t \in Nat, t <= clock, clock - t <= MaxLag
  PROVE  Windowed(Append(all, t))
<1> DEFINE n == Len(all)
           m == Len(recent)
           new == Append(all, t)
<1>0. Window \in Nat /\ MaxLag \in Nat /\ Limit \in Nat
  BY LimiterAssumption
<1>1. all \in Seq(Nat) /\ n \in Nat /\ m \in Nat /\ m <= n /\ \A i \in 1 .. n : all[i] \in Nat
  BY DEF Remembered, EndOf
<1>2. /\ DOMAIN new = 1 .. (n + 1) /\ DOMAIN all = 1 .. n
      /\ new[n + 1] = t /\ \A i \in 1 .. n : new[i] = all[i]
  BY <1>1
<1>3. \A i \in 1 .. (n - m) : all[i] < clock - Window + MaxLag
  BY DEF Remembered, Before
<1>4. m < Limit
  OBVIOUS
<1> HIDE DEF n, m, new
<1> SUFFICES ASSUME NEW a \in Int  PROVE Cardinality(Limiter!InWindow(new, a)) <= Limit
  BY DEF Windowed, new
<1>5. CASE t \notin a .. (a + Window - 2 * MaxLag)
  <2>1. \A i : i \in 1 .. (n + 1) <=> i \in 1 .. n \/ i = n + 1
    BY <1>1
  <2>2. Limiter!InWindow(new, a) = Limiter!InWindow(all, a)
    BY <1>2, <1>5, <2>1 DEF Limiter!InWindow
  <2> QED
    BY <2>2 DEF Windowed
<1>6. CASE t \in a .. (a + Window - 2 * MaxLag)
  <2> DEFINE last == (n - m + 1) .. (n + 1)
  <2>1. ASSUME NEW i \in Limiter!InWindow(new, a)  PROVE i \in last
    <3>1. i \in 1 .. (n + 1) /\ new[i] \in a .. (a + Window - 2 * MaxLag)
      BY <1>2 DEF Limiter!InWindow
    <3>2. CASE i <= n - m
      <4>1. i \in 1 .. (n - m) /\ i \in 1 .. n
        BY <1>1, <3>1, <3>2
      <4>2. new[i] < clock - Window + MaxLag
        BY <1>2, <1>3, <4>1
      <4>3. new[i] \in Int /\ new[i] >= a
        BY <1>0, <3>1
      <4> QED
        BY <1>0, <1>6, <4>2, <4>3
    <3> QED
      BY <1>1, <3>1, <3>2
  <2>2. IsFiniteSet(last) /\ Cardinality(last) = m + 1
    BY <1>1, FS_Interval
  <2>3. Limiter!InWindow(new, a) \in SUBSET last
    BY <2>1
  <2> HIDE DEF last
  <2>4. /\ IsFiniteSet(Limiter!InWindow(new, a))
        /\ Cardinality(Limiter!InWindow(new, a)) <= Cardinality(last)
    BY <2>2, <2>3, FS_Subset
  <2>5. Cardinality(Limiter!InWindow(new, a)) \in Nat
    BY <2>4, FS_CardinalityType
  <2> QED
    BY <1>0, <1>1, <1>4, <2>2, <2>4, <2>5
<1> QED
  BY <1>5, <1>6

(* allow keeps the invariant, whether it turns the request away or accepts *)
(* it.                                                                     *)
LEMMA AllowKeeps ==
  ASSUME LimiterInv, NEW r \in Visitor, Limiter!Allow(r)
  PROVE  LimiterInv'
<1>k. PICK k, t : k = waiting[r][1] /\ t = waiting[r][2]
  OBVIOUS
<1> DEFINE table == Limiter!Cleaned(t)
           recent == Limiter!Requests(table, k, t)
           full == k \notin DOMAIN table /\ Cardinality(DOMAIN table) >= MaxKeys
<1>0. /\ clock \in Nat /\ Window \in Nat /\ MaxLag \in Nat /\ MaxLag <= Window
      /\ accepted \in [Client -> Seq(Nat)] /\ waiting \in [Visitor -> (Client \X Nat) \cup {Never}]
      /\ lastCleanup \in Nat \cup {Never} /\ Never \notin Int
  BY LimiterAssumption DEF LimiterInv, LimiterTypes
<1>1. k \in Client /\ t \in Nat /\ t <= clock /\ clock - t <= MaxLag
  <2>1. waiting[r] # Never /\ waiting[r] \in Client \X Nat
    BY <1>0 DEF Limiter!Allow
  <2>2. waiting[r][2] <= clock /\ clock - waiting[r][2] <= MaxLag
    BY <2>1 DEF LimiterInv, NotAhead
  <2> QED
    BY <1>k, <2>1, <2>2
<1>2. /\ lastCleanup' = (IF Limiter!CleanupDue(t) THEN t ELSE lastCleanup)
      /\ waiting' = [waiting EXCEPT ![r] = Never] /\ clock' = clock
      /\ \/ entries' = table /\ accepted' = accepted
         \/ ~full /\ Len(recent) >= Limit /\ entries' = Limiter!Put(table, k, recent)
            /\ accepted' = accepted
         \/ /\ ~full /\ ~(Len(recent) >= Limit)
            /\ entries' = Limiter!Put(table, k, Append(recent, t))
            /\ accepted' = [accepted EXCEPT ![k] = Append(@, t)]
  BY <1>k, LimiterCardinality, Zenon DEF Limiter!Allow
<1>3. /\ DOMAIN table \subseteq Client
      /\ \A x \in DOMAIN table :
              /\ table[x] = entries[x] /\ x \in DOMAIN entries
              /\ table[x] # <<>>
              /\ Limiter!Last(table[x]) >=
                   (IF Limiter!CleanupDue(t) THEN t ELSE lastCleanup) - Window
              /\ Limiter!Last(table[x]) \in Nat
      /\ \A x \in Client : Remembered(Tidy(t, x), accepted[x])
  BY <1>1, CleanedFacts
<1>4. /\ Remembered(recent, accepted[k]) /\ recent \in Seq(Nat)
      /\ recent # <<>> => k \in DOMAIN table /\ Limiter!Last(recent) = Limiter!Last(table[k])
  BY <1>1, RecentRemembered
<1>5. \A x \in DOMAIN table : Tidy(t, x) = table[x]
  BY DEF Tidy
<1>6. \A x \in Client : x \notin DOMAIN table => Tidy(t, x) = <<>>
  BY DEF Tidy
<1>7. lastCleanup' \in Nat /\ lastCleanup' <= clock
  BY <1>0, <1>1, <1>2 DEF LimiterInv, NotAhead, Limiter!CleanupDue
<1>8. \A x \in DOMAIN table : Limiter!Last(table[x]) >= lastCleanup' - Window
  BY <1>2, <1>3
<1> HIDE DEF table, recent, full
<1>9. /\ waiting' \in [Visitor -> (Client \X Nat) \cup {Never}]
      /\ \A v \in Visitor :
           waiting'[v] # Never => waiting'[v][2] <= clock' /\ clock' - waiting'[v][2] <= MaxLag
  BY <1>0, <1>2 DEF LimiterInv, NotAhead
<1>a. \A x \in Client : /\ AlmostOrdered(accepted[x]) /\ Windowed(accepted[x])
                     /\ \A i \in 1 .. Len(accepted[x]) : accepted[x][i] <= clock
  BY DEF LimiterInv, NotAhead
<1> SUFFICES
      /\ DOMAIN entries' \subseteq Client /\ accepted' \in [Client -> Seq(Nat)]
      /\ \A x \in Client :
           /\ \A i \in 1 .. Len(accepted'[x]) : accepted'[x][i] <= clock
           /\ Remembered(Times(x)', accepted'[x])
           /\ AlmostOrdered(accepted'[x]) /\ Windowed(accepted'[x])
      /\ \A x \in DOMAIN entries' :
           entries'[x] # <<>> /\ Limiter!Last(entries'[x]) >= lastCleanup' - Window
  BY <1>0, <1>2, <1>7, <1>9
  DEF LimiterInv, LimiterTypes, NotAhead, CleanedUp, Remembered, Before, EndOf
<1>b. CASE entries' = table /\ accepted' = accepted
  <2>1. \A x \in Client : Times(x)' = Tidy(t, x)
    BY <1>b DEF Tidy, Times, table
  <2> QED
    BY <1>0, <1>3, <1>8, <1>a, <1>b, <2>1
<1>c. CASE /\ ~full /\ Len(recent) >= Limit /\ entries' = Limiter!Put(table, k, recent)
           /\ accepted' = accepted
  <2>1. DOMAIN entries' = DOMAIN table \cup {k}
    BY <1>c DEF Limiter!Put
  <2>2. entries'[k] = recent
    BY <1>c DEF Limiter!Put
  <2>3. \A x \in DOMAIN table : x # k => entries'[x] = table[x]
    BY <1>c DEF Limiter!Put
  <2>4. Times(k)' = recent
    BY <2>1, <2>2 DEF Times
  <2>5. \A x \in Client : x # k => Times(x)' = Tidy(t, x)
    BY <1>5, <1>6, <2>1, <2>3 DEF Times
  <2>6. recent # <<>>
    BY <1>4, <1>c, LimiterAssumption
  <2>7. \A x \in Client : Remembered(Times(x)', accepted[x])
    BY <1>3, <1>4, <2>4, <2>5
  <2>8. Limiter!Last(recent) >= lastCleanup' - Window
    BY <1>4, <1>8, <2>6
  <2> QED
    BY <1>0, <1>1, <1>3, <1>8, <1>a, <1>c, <2>1, <2>2, <2>3, <2>6, <2>7, <2>8
<1>d. CASE /\ ~full /\ ~(Len(recent) >= Limit)
           /\ entries' = Limiter!Put(table, k, Append(recent, t))
           /\ accepted' = [accepted EXCEPT ![k] = Append(@, t)]
  <2>0. k \in Client /\ t \in Nat /\ t <= clock /\ clock - t <= MaxLag
    BY <1>1
  <2> DEFINE new == Append(recent, t)
             all == Append(accepted[k], t)
             n == Len(accepted[k])
  <2>1. DOMAIN entries' = DOMAIN table \cup {k}
    BY <1>d DEF Limiter!Put
  <2>2. entries'[k] = new
    BY <1>d DEF Limiter!Put
  <2>3. \A x \in DOMAIN table : x # k => entries'[x] = table[x]
    BY <1>d DEF Limiter!Put
  <2>4. Times(k)' = new
    BY <2>1, <2>2 DEF Times
  <2>5. \A x \in Client : x # k => Times(x)' = Tidy(t, x)
    BY <1>5, <1>6, <2>1, <2>3 DEF Times
  <2>6. /\ accepted' \in [Client -> Seq(Nat)] /\ accepted'[k] = all
        /\ \A x \in Client : x # k => accepted'[x] = accepted[x]
    <3>1. accepted[k] \in Seq(Nat)
      BY <1>0, <2>0
    <3>2. all \in Seq(Nat)
      BY <2>0, <3>1
    <3> QED
      BY <1>0, <1>d, <2>0, <3>2
  <2>7. /\ accepted[k] \in Seq(Nat) /\ n \in Nat /\ all \in Seq(Nat) /\ Len(all) = n + 1
        /\ all[n + 1] = t /\ \A i \in 1 .. n : all[i] = accepted[k][i] /\ accepted[k][i] \in Nat
    BY <1>0, <2>0
  <2>8. Remembered(new, all)
    BY <1>4, <2>0, EndOfLonger DEF Remembered
  <2>9. Windowed(all)
    <3>1. Windowed(accepted[k])
      BY <1>a, <2>0
    <3>2. Len(recent) < Limit
      BY <1>4, <1>d, LimiterAssumption
    <3> QED
      BY <1>0, <1>4, <2>0, <3>1, <3>2, OneMoreInWindow
  <2>10. new # <<>> /\ Limiter!Last(new) = t
    <3>1. Append(recent, t) # <<>> /\ Len(Append(recent, t)) = Len(recent) + 1
          /\ Append(recent, t)[Len(recent) + 1] = t
      <4>1. recent \in Seq(Nat) /\ t \in Nat
        BY <1>4, <2>0
      <4>2. Len(Append(recent, t)) = Len(recent) + 1
        BY <4>1
      <4>3. Append(recent, t)[Len(recent) + 1] = t
        BY <4>1
      <4> QED
        BY <4>1, <4>2, <4>3
    <3> QED
      BY <3>1 DEF Limiter!Last
  <2>11. t >= lastCleanup' - Window
    <3>1. /\ Window \in Nat /\ MaxLag \in Nat /\ MaxLag <= Window /\ clock \in Nat
          /\ lastCleanup' \in Nat /\ lastCleanup' <= clock
      BY <1>0, <1>7
    <3> DEFINE c == lastCleanup'
    <3> HIDE DEF c
    <3>2. c \in Nat /\ c <= clock
      BY <3>1 DEF c
    <3>3. t >= c - Window
      BY <2>0, <3>1, <3>2
    <3> QED
      BY <3>3 DEF c
  <2> HIDE DEF new, all, n
  <2>12. \A i \in 1 .. n : accepted[k][i] <= clock
    BY <1>a, <2>0 DEF n
  <2>13. AlmostOrdered(accepted[k])
    BY <1>a, <2>0
  <2>14. \A i \in 1 .. (n + 1) : i \in 1 .. n \/ i = n + 1
    BY <2>7
  <2>15. \A i \in 1 .. Len(all) : all[i] <= clock
    BY <2>0, <2>7, <2>12, <2>14
  <2>16. AlmostOrdered(all)
    <3> SUFFICES ASSUME NEW i \in 1 .. (n + 1), NEW j \in 1 .. (n + 1), i < j
                 PROVE  all[i] <= all[j] + MaxLag
      BY <2>7 DEF AlmostOrdered
    <3>1. i \in 1 .. n
      BY <2>7
    <3>2. CASE j \in 1 .. n
      <4>1. accepted[k][i] <= accepted[k][j] + MaxLag
        BY <2>13, <3>1, <3>2 DEF AlmostOrdered, n
      <4> QED
        BY <2>7, <3>1, <3>2, <4>1
    <3>3. CASE j = n + 1
      <4>1. all[i] \in Nat /\ all[i] <= clock /\ all[j] = t
        BY <2>7, <2>12, <3>1, <3>3
      <4> QED
        BY <1>0, <2>0, <4>1
    <3> QED
      BY <2>14, <3>2, <3>3
  <2>17. \A x \in Client : Remembered(Times(x)', accepted'[x])
    BY <1>3, <2>4, <2>5, <2>6, <2>8
  <2>18. \A x \in DOMAIN entries' :
           entries'[x] # <<>> /\ Limiter!Last(entries'[x]) >= lastCleanup' - Window
    BY <1>3, <1>8, <2>1, <2>2, <2>3, <2>10, <2>11
  <2>19. \A x \in Client :
           /\ \A i \in 1 .. Len(accepted'[x]) : accepted'[x][i] <= clock
           /\ AlmostOrdered(accepted'[x]) /\ Windowed(accepted'[x])
    BY <1>a, <2>6, <2>9, <2>15, <2>16
  <2> QED
    BY <1>3, <2>0, <2>1, <2>6, <2>17, <2>18, <2>19
<1> QED
  BY <1>2, <1>b, <1>c, <1>d

(* The invariant holds initially.                                          *)
LEMMA LimiterInvInit == Limiter!Init => LimiterInv
<1> SUFFICES ASSUME Limiter!Init  PROVE LimiterInv
  OBVIOUS
<1>1. LimiterTypes /\ NotAhead /\ CleanedUp
  BY LimiterAssumption DEF Limiter!Init, LimiterTypes, NotAhead, CleanedUp
<1>2. ASSUME NEW k \in Client
      PROVE  /\ Remembered(Times(k), accepted[k])
             /\ AlmostOrdered(accepted[k]) /\ Windowed(accepted[k])
  <2>1. Times(k) = <<>> /\ accepted[k] = <<>>
    BY DEF Limiter!Init, Times
  <2>2. Remembered(<<>>, <<>>)
    <3>1. <<>> \in Seq(Nat) /\ Len(<<>>) = 0
      OBVIOUS
    <3>2. EndOf(<<>>, <<>>)
      BY <3>1, EndOfSelf
    <3>3. Before(<<>>, <<>>, clock - Window + MaxLag)
      BY <3>1 DEF Before
    <3> QED
      BY <3>2, <3>3 DEF Remembered
  <2>3. AlmostOrdered(<<>>)
    BY DEF AlmostOrdered
  <2>4. Windowed(<<>>)
    <3> SUFFICES ASSUME NEW a \in Int  PROVE Cardinality(Limiter!InWindow(<<>>, a)) <= Limit
      BY DEF Windowed
    <3>1. Limiter!InWindow(<<>>, a) = {}
      BY DEF Limiter!InWindow
    <3>2. Cardinality({}) = 0
      BY FS_EmptySet
    <3>3. 0 <= Limit
      BY LimiterAssumption
    <3> QED
      BY <3>1, <3>2, <3>3
  <2> QED
    BY <2>1, <2>2, <2>3, <2>4
<1> QED
  BY <1>1, <1>2 DEF LimiterInv

(* Nothing of the map and of the histories changes, and time does not go   *)
(* back.                                                                   *)
LEMMA HistoriesKeep ==
  ASSUME LimiterInv, entries' = entries, accepted' = accepted, clock' \in Nat, clock' >= clock
  PROVE  \A k \in Client : /\ Remembered(Times(k), accepted[k])'
                        /\ AlmostOrdered(accepted[k])' /\ Windowed(accepted[k])'
<1>0. clock \in Nat /\ Window \in Nat /\ MaxLag \in Nat /\ accepted \in [Client -> Seq(Nat)]
  BY LimiterAssumption DEF LimiterInv, LimiterTypes
<1> SUFFICES ASSUME NEW k \in Client
             PROVE  /\ Remembered(Times(k), accepted[k])'
                    /\ AlmostOrdered(accepted[k])' /\ Windowed(accepted[k])'
  OBVIOUS
<1>1. /\ Remembered(Times(k), accepted[k]) /\ accepted[k] \in Seq(Nat)
      /\ AlmostOrdered(accepted[k]) /\ Windowed(accepted[k])
  BY <1>0 DEF LimiterInv
<1>2. Times(k)' = Times(k) /\ accepted'[k] = accepted[k]
  BY DEF Times
<1>3. EndOf(Times(k), accepted[k])
  BY <1>1 DEF Remembered
<1>4. Before(Times(k), accepted[k], clock' - Window + MaxLag)
  <2>1. \A i \in 1 .. (Len(accepted[k]) - Len(Times(k))) : i \in 1 .. Len(accepted[k])
    BY <1>3 DEF EndOf
  <2>2. \A i \in 1 .. Len(accepted[k]) : accepted[k][i] \in Nat
    BY <1>1
  <2> QED
    BY <1>0, <1>1, <2>1, <2>2 DEF Remembered, Before
<1>5. Remembered(Times(k), accepted[k])'
  <2>1. EndOf(Times(k)', accepted'[k]) /\ Before(Times(k)', accepted'[k], clock' - Window + MaxLag)
    BY <1>2, <1>3, <1>4
  <2> QED
    BY <2>1 DEF Remembered
<1>6. AlmostOrdered(accepted'[k]) /\ Windowed(accepted'[k])
  BY <1>1, <1>2
<1> QED
  BY <1>5, <1>6 DEF AlmostOrdered, Windowed, Limiter!InWindow

(* The clock moves only while nobody waits too long.                       *)
LEMMA TickKeeps ==
  ASSUME LimiterInv, Limiter!Tick
  PROVE  LimiterInv'
<1>0. /\ clock \in Nat /\ Window \in Nat /\ MaxLag \in Nat
      /\ accepted \in [Client -> Seq(Nat)] /\ waiting \in [Visitor -> (Client \X Nat) \cup {Never}]
      /\ lastCleanup \in Nat \cup {Never} /\ Never \notin Int
  BY LimiterAssumption DEF LimiterInv, LimiterTypes
<1>1. /\ clock' = clock + 1 /\ entries' = entries /\ lastCleanup' = lastCleanup
      /\ waiting' = waiting /\ accepted' = accepted
      /\ \A r \in Visitor : waiting[r] # Never => clock + 1 - waiting[r][2] <= MaxLag
  BY DEF Limiter!Tick
<1>2. LimiterTypes' /\ CleanedUp'
  BY <1>0, <1>1 DEF LimiterInv, LimiterTypes, CleanedUp
<1>3. NotAhead'
  <2>1. lastCleanup # Never => lastCleanup <= clock + 1
    BY <1>0 DEF LimiterInv, NotAhead
  <2>2. ASSUME NEW r \in Visitor, waiting[r] # Never
        PROVE  waiting[r][2] <= clock + 1 /\ clock + 1 - waiting[r][2] <= MaxLag
    <3>1. waiting[r][2] \in Nat /\ waiting[r][2] <= clock
      BY <1>0, <2>2 DEF LimiterInv, NotAhead
    <3> QED
      BY <1>0, <1>1, <2>2, <3>1
  <2>3. ASSUME NEW k \in Client, NEW i \in 1 .. Len(accepted[k])  PROVE accepted[k][i] <= clock + 1
    <3>1. accepted[k][i] \in Nat /\ accepted[k][i] <= clock
      BY <1>0 DEF LimiterInv, NotAhead
    <3> QED
      BY <1>0, <3>1
  <2> QED
    <3>1. \A r \in Visitor : waiting'[r] # Never =>
            waiting'[r][2] <= clock' /\ clock' - waiting'[r][2] <= MaxLag
      <4>1. clock' = clock + 1 /\ waiting' = waiting
        BY <1>1
      <4>2. \A r \in Visitor : waiting[r] # Never => waiting[r][2] \in Nat
        BY <1>0
      <4> QED
        BY <1>0, <2>2, <4>1, <4>2
    <3>2. \A k \in Client : \A i \in 1 .. Len(accepted'[k]) : accepted'[k][i] <= clock'
      BY <1>1, <2>3
    <3>3. lastCleanup' # Never => lastCleanup' <= clock'
      BY <1>1, <2>1
    <3> QED
      BY <3>1, <3>2, <3>3 DEF NotAhead
<1>4. clock' \in Nat /\ clock' >= clock
  BY <1>0, <1>1
<1> QED
  BY <1>1, <1>2, <1>3, <1>4, HistoriesKeep DEF LimiterInv

(* A request reads the clock.                                              *)
LEMMA ArriveKeeps ==
  ASSUME LimiterInv, NEW r \in Visitor, NEW k \in Client, Limiter!Arrive(r, k)
  PROVE  LimiterInv'
<1>0. /\ clock \in Nat /\ MaxLag \in Nat /\ waiting \in [Visitor -> (Client \X Nat) \cup {Never}]
  BY LimiterAssumption DEF LimiterInv, LimiterTypes
<1>1. /\ clock' = clock /\ entries' = entries /\ lastCleanup' = lastCleanup
      /\ accepted' = accepted /\ waiting' = [waiting EXCEPT ![r] = <<k, clock>>]
  BY DEF Limiter!Arrive
<1>2. waiting' \in [Visitor -> (Client \X Nat) \cup {Never}]
  BY <1>0, <1>1
<1>3. ASSUME NEW v \in Visitor, waiting'[v] # Never
      PROVE  waiting'[v][2] <= clock /\ clock - waiting'[v][2] <= MaxLag
  <2>1. CASE v = r
    BY <1>0, <1>1, <2>1
  <2>2. CASE v # r
    BY <1>0, <1>1, <1>3, <2>2 DEF LimiterInv, NotAhead
  <2> QED
    BY <2>1, <2>2
<1>4. LimiterTypes' /\ CleanedUp'
  BY <1>1, <1>2 DEF LimiterInv, LimiterTypes, CleanedUp
<1>5. NotAhead'
  BY <1>1, <1>3 DEF LimiterInv, NotAhead
<1>6. clock' \in Nat /\ clock' >= clock
  BY <1>0, <1>1
<1> QED
  BY <1>1, <1>4, <1>5, <1>6, HistoriesKeep DEF LimiterInv

(* Every step keeps the invariant.                                         *)
LEMMA LimiterInvStep ==
  ASSUME LimiterInv, [Limiter!Next]_(Limiter!vars)
  PROVE  LimiterInv'
<1>1. CASE Limiter!vars' = Limiter!vars
  <2>1. /\ clock' = clock /\ entries' = entries /\ lastCleanup' = lastCleanup
        /\ waiting' = waiting /\ accepted' = accepted
    BY <1>1 DEF Limiter!vars
  <2>2. LimiterTypes' /\ CleanedUp' /\ NotAhead'
    BY <2>1 DEF LimiterInv, LimiterTypes, CleanedUp, NotAhead
  <2>3. clock' \in Nat /\ clock' >= clock
    BY <2>1 DEF LimiterInv, LimiterTypes
  <2> QED
    BY <2>1, <2>2, <2>3, HistoriesKeep DEF LimiterInv
<1>2. CASE Limiter!Next
  BY <1>2, AllowKeeps, ArriveKeeps, TickKeeps DEF Limiter!Next
<1> QED
  BY <1>1, <1>2

(* The invariant implies AcceptedPerWindow.                                *)
LEMMA InvAccepted == LimiterInv => Limiter!AcceptedPerWindow
<1> SUFFICES ASSUME LimiterInv, NEW k \in Client, NEW i \in DOMAIN accepted[k]
             PROVE  Cardinality(Limiter!InWindow(accepted[k], accepted[k][i])) <= Limit
  BY LimiterCardinality DEF Limiter!AcceptedPerWindow
<1>1. accepted[k] \in Seq(Nat)
  BY DEF LimiterInv, LimiterTypes
<1>2. accepted[k][i] \in Int
  BY <1>1
<1> QED
  BY <1>2 DEF LimiterInv, Windowed

(* What FullTableRecovers says of a step.                                  *)
Recovers ==
  \A r \in Visitor :
       LET k == waiting[r][1]
           t == waiting[r][2]
       IN  /\ waiting[r] # Never /\ waiting'[r] = Never
           /\ \A other \in Client : \A i \in DOMAIN accepted[other] :
                accepted[other][i] < t - 2 * Window
           => accepted'[k] # accepted[k]

(* When every client was silent for two windows, the clean-up is due or    *)
(* has been since, and leaves an empty map.                                *)
LEMMA StepRecovers ==
  ASSUME LimiterInv, [Limiter!Next]_(Limiter!vars)
  PROVE  Recovers
<1> SUFFICES ASSUME NEW r \in Visitor, waiting[r] # Never, waiting'[r] = Never,
                    \A other \in Client : \A i \in DOMAIN accepted[other] :
                      accepted[other][i] < waiting[r][2] - 2 * Window
             PROVE  accepted'[waiting[r][1]] # accepted[waiting[r][1]]
  BY Zenon DEF Recovers
<1> DEFINE k == waiting[r][1]
           t == waiting[r][2]
           table == Limiter!Cleaned(t)
           recent == Limiter!Requests(table, k, t)
<1>0. /\ clock \in Nat /\ Window \in Nat /\ MaxLag \in Nat /\ Limit \in Nat \ {0}
      /\ MaxKeys \in Nat \ {0} /\ Never \notin Client \X Nat
      /\ accepted \in [Client -> Seq(Nat)] /\ waiting \in [Visitor -> (Client \X Nat) \cup {Never}]
      /\ lastCleanup \in Nat \cup {Never} /\ Never \notin Int
  BY LimiterAssumption DEF LimiterInv, LimiterTypes
<1>1. Limiter!Allow(r)
  <2>1. Limiter!Next
    BY DEF Limiter!vars
  <2>2. ASSUME NEW v \in Visitor, Limiter!Allow(v)  PROVE v = r
    BY <1>0, <2>2 DEF Limiter!Allow
  <2>3. ASSUME NEW v \in Visitor, NEW x \in Client, Limiter!Arrive(v, x)  PROVE FALSE
    <3>1. <<x, clock>> \in Client \X Nat /\ <<x, clock>> # Never
      BY <1>0
    <3>2. waiting'[v] = <<x, clock>> /\ \A y \in Visitor : y # v => waiting'[y] = waiting[y]
      BY <1>0, <2>3 DEF Limiter!Arrive
    <3> QED
      BY <3>1, <3>2
  <2>4. ~Limiter!Tick
    BY DEF Limiter!Tick
  <2> QED
    BY <2>1, <2>2, <2>3, <2>4 DEF Limiter!Next
<1>2. k \in Client /\ t \in Nat /\ t <= clock /\ clock - t <= MaxLag
  <2>1. waiting[r] \in Client \X Nat
    BY <1>0
  <2>2. waiting[r][2] <= clock /\ clock - waiting[r][2] <= MaxLag
    BY DEF LimiterInv, NotAhead
  <2> QED
    BY <2>1, <2>2
<1>3. DOMAIN table = {}
  <2> SUFFICES ASSUME NEW x \in DOMAIN table  PROVE FALSE
    OBVIOUS
  <2>1. /\ x \in Client /\ x \in DOMAIN entries /\ table[x] = entries[x] /\ table[x] # <<>>
        /\ Limiter!Last(table[x]) >=
                   (IF Limiter!CleanupDue(t) THEN t ELSE lastCleanup) - Window
        /\ Limiter!Last(table[x]) \in Nat
    BY <1>2, CleanedFacts
  <2>2. EndOf(entries[x], accepted[x])
    BY <2>1 DEF LimiterInv, Remembered, Times
  <2>3. /\ Limiter!Last(entries[x]) = accepted[x][Len(accepted[x])]
        /\ Len(accepted[x]) \in 1 .. Len(accepted[x])
    BY <2>1, <2>2, LastOfEnd
  <2>4. accepted[x] \in Seq(Nat) /\ DOMAIN accepted[x] = 1 .. Len(accepted[x])
    BY <1>0, <2>1
  <2>5. accepted[x][Len(accepted[x])] < t - 2 * Window
    BY <2>1, <2>3, <2>4
  <2>6. (IF Limiter!CleanupDue(t) THEN t ELSE lastCleanup) >= t - Window
    <3>1. CASE Limiter!CleanupDue(t)
      BY <1>0, <1>2, <3>1
    <3>2. CASE ~Limiter!CleanupDue(t)
      <4>1. lastCleanup \in Nat /\ ~(t - lastCleanup >= Window)
        BY <1>0, <3>2 DEF Limiter!CleanupDue
      <4>2. lastCleanup >= t - Window
        BY <1>0, <1>2, <4>1
      <4> QED
        BY <3>2, <4>2
    <3> QED
      BY <3>1, <3>2
  <2>7. (IF Limiter!CleanupDue(t) THEN t ELSE lastCleanup) \in Nat
    BY <1>0, <1>2 DEF Limiter!CleanupDue
  <2> DEFINE c == IF Limiter!CleanupDue(t) THEN t ELSE lastCleanup
             l == Limiter!Last(table[x])
  <2>8. l \in Nat /\ l >= c - Window /\ l < t - 2 * Window /\ c >= t - Window /\ c \in Nat
    BY <2>1, <2>3, <2>5, <2>6, <2>7
  <2> HIDE DEF c, l, t
  <2>9. t \in Nat
    BY <1>2 DEF t
  <2> QED
    BY <1>0, <2>8, <2>9
<1>4. recent = <<>>
  BY <1>3 DEF Limiter!Requests
<1>5. ~(k \notin DOMAIN table /\ Cardinality(DOMAIN table) >= MaxKeys)
  <2>1. Cardinality(DOMAIN table) = 0
    BY <1>3, FS_EmptySet
  <2> HIDE DEF table
  <2> QED
    BY <1>0, <2>1
<1>6. ~(Len(recent) >= Limit)
  <2> HIDE DEF recent
  <2> QED
    BY <1>0, <1>4
<1>7. accepted' = [accepted EXCEPT ![k] = Append(@, t)]
  BY <1>1, <1>5, <1>6, LimiterCardinality, Zenon DEF Limiter!Allow
<1>8. accepted[k] \in Seq(Nat) /\ accepted'[k] = Append(accepted[k], t)
  BY <1>0, <1>2, <1>7
<1>9. Len(Append(accepted[k], t)) # Len(accepted[k])
  BY <1>2, <1>8
<1> QED
  BY <1>8, <1>9

(* A step of Resources is one of the limiter or leaves it alone.           *)
LEMMA LimiterSimulates ==
  /\ ResourcesInit => Limiter!Init
  /\ [ResourcesNext]_resourcesVars => [Limiter!Next]_(Limiter!vars)
<1>1. ResourcesInit => Limiter!Init
  BY DEF ResourcesInit
<1>2. UNCHANGED limiterVars => UNCHANGED Limiter!vars
  BY DEF limiterVars, Limiter!vars
<1>3. [ResourcesNext]_resourcesVars => Limiter!Next \/ UNCHANGED limiterVars
  BY DEF ResourcesNext, resourcesVars
<1> QED
  BY <1>1, <1>2, <1>3

(* The inductive invariant of the request limiter.                         *)
THEOREM LimiterInvariant == ResourcesSpec => []LimiterInv
BY LimiterSimulates, LimiterInvInit, LimiterInvStep, PTL DEF ResourcesSpec

(* Of no client are more than Limit requests accepted within a window less *)
(* twice the lag (allow), however requests that read the clock at          *)
(* different times follow each other into the mutex.                       *)
THEOREM WindowsHold == ResourcesSpec => []AcceptedPerWindow
<1>1. LimiterInv => AcceptedPerWindow
  BY InvAccepted DEF AcceptedPerWindow
<1> QED
  BY <1>1, LimiterInvariant, PTL

(* A full map takes new clients again: when all were silent for two        *)
(* windows, the next request is accepted (the clean-up within allow).      *)
THEOREM FullTablesRecover == ResourcesSpec => FullTableRecovers
<1>1. LimiterInv /\ [Limiter!Next]_(Limiter!vars) => [Recovers]_(Limiter!vars)
  BY StepRecovers
<1> QED
  BY <1>1, LimiterSimulates, LimiterInvariant, PTL
  DEF ResourcesSpec, FullTableRecovers, Limiter!FullTableRecovers, Recovers
=============================================================================
