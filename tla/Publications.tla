---------------------------- MODULE Publications ----------------------------
(***************************************************************************)
(* The published subscriptions of internal/api/published.go together with  *)
(* the workspaces that are bound to them: binding, refreshing into a       *)
(* publication, deleting one, sweeping the stale ones and dropping idle    *)
(* workspaces, all of them running concurrently.                           *)
(*                                                                         *)
(* A publication is a directory with a meta.json and, once refreshed, a    *)
(* current.yaml.  A workspace that is bound to it names it in its own      *)
(* meta.json, and there is no index from a publication to its workspaces:  *)
(* whoever deletes a publication visits every workspace, taking its lock.  *)
(* Every access to the binding of a workspace happens under that lock, so  *)
(* the lock, a load, a save and the unlock are one action when nothing     *)
(* else happens between them.  publishedMetaMu is held inside one action   *)
(* only; publishedCreateMu is held across several, as creator.             *)
(*                                                                         *)
(* Publications of earlier versions are two files, which become a          *)
(* publication of this kind when their workspace is refreshed or their     *)
(* link is used.  Nothing limits that: no publishedCreateMu is taken, and  *)
(* the refresh does not give up what it did not create itself.             *)
(*                                                                         *)
(* Refreshing is the outline of RefreshRuns that touches publications.     *)
(* Creating workspaces is left out: a new one is bound to nothing.         *)
(***************************************************************************)
EXTENDS Integers, FiniteSets

CONSTANTS
  Actor,            \* requests and the two goroutines of StartScheduler
  Workspace,        \* hashes, in the order in which os.ReadDir lists them
  Pub,              \* publish IDs that randomPublishID can return
  MaxPublications,  \* SUBCONV_MAX_PUBLICATIONS, heeded in public mode only
  Inherited,        \* workspaces with a publication of an earlier version
  NoActor,          \* holder of a free lock
  NoPub,            \* the empty publish ID
  MaxMishaps        \* bound: restarts of the process, and failures (FailOn)

ASSUME WorkspacesAreOrdered == Workspace \subseteq Nat
ASSUME NoActorIsNoActor == NoActor \notin Actor
ASSUME NoPubIsNoPub == NoPub \notin Pub
ASSUME LimitIsNat == MaxPublications \in Nat
ASSUME MishapsAreCounted == MaxMishaps \in Nat
ASSUME ThereAreWorkspaces == Workspace # {}
ASSUME InheritedAreWorkspaces == Inherited \subseteq Workspace

VARIABLES
  public,       \* SUBCONV_PUBLIC_CONVERTER, read once at the start
  pc,           \* where each actor is
  home,         \* the workspace of its request
  pub,          \* the publication it works on
  made,         \* its refresh created that publication
  todo,         \* workspaces it still has to lock or to visit
  sweep,        \* published items it still has to look at
  after,        \* where it goes after the sweep
  wsLock,       \* holder of each workspace lock
  creator,      \* holder of publishedCreateMu
  running,      \* publications whose output file is a key of refreshRuns
  exists,       \* workspaces on disk
  bound,        \* publish_id of each workspace
  oldRefs,      \* workspaces with a published_token of an earlier version
  oldFiles,     \* workspaces whose earlier publication still has its files
  dirOf,        \* publications with a directory,
  metaOf,       \*   with a meta.json in it,
  yamlOf,       \*   with a current.yaml in it
  stale,        \* publications not accessed for 30 days
  migrated,     \* publications made of earlier ones, or for want of their files
  leftBehind,   \* publications that are empty because a failed refresh left
                \* them, though nothing kept it from removing them
  used,         \* history: publish IDs that were drawn
  interrupted,  \* history: publications whose handling was cut short by a
                \* crash, or by a write or a removal that failed
  mishaps

actorVars == <<home, pub, made, todo, sweep, after>>
lockVars == <<wsLock, creator, running>>
oldVars == <<oldRefs, oldFiles>>
diskVars == <<exists, bound, oldVars, dirOf, metaOf, yamlOf>>
kindVars == <<stale, migrated, leftBehind>>
historyVars == <<public, used, interrupted, mishaps>>
vars == <<pc, actorVars, lockVars, diskVars, kindVars, historyVars>>

Locks == INSTANCE WorkspaceMutex WITH
           Caller <- Actor, Key <- Workspace, Nobody <- NoActor, holder <- wsLock

Stage == {"idle", "leave", "lock", "check", "draft", "bind", "save", "drop",
          "expire", "pinned", "ensure", "scheduled", "migrate", "fill", "date",
          "fallback", "rebind", "adopt", "adoptFill", "adoptDate", "create",
          "count", "recount", "make", "bindNew", "config", "start", "stage",
          "publish", "release", "discard", "finalize", "bindDone", "remove",
          "clear", "sweep", "unbind"}

First(S) == CHOOSE w \in S : \A v \in S : w <= v

(* publishedRestorable: Revoked is never set and every token is non-empty. *)
Restorable(p) == p \in metaOf /\ p \in yamlOf

Init ==
  /\ public \in BOOLEAN
  /\ pc = [a \in Actor |-> "idle"]
  /\ home \in [Actor -> {First(Workspace)}]
  /\ pub = [a \in Actor |-> NoPub]
  /\ made = [a \in Actor |-> FALSE]
  /\ todo = [a \in Actor |-> {}]
  /\ sweep = [a \in Actor |-> {}]
  /\ after = [a \in Actor |-> "leave"]
  /\ wsLock = [w \in Workspace |-> NoActor]
  /\ creator = NoActor
  /\ running = {}
  /\ exists = Workspace
  /\ bound = [w \in Workspace |-> NoPub]
  /\ oldRefs \in SUBSET Inherited /\ oldFiles \in SUBSET Inherited
  /\ dirOf = {} /\ metaOf = {} /\ yamlOf = {}
  /\ stale = {} /\ used = {} /\ interrupted = {}
  /\ migrated = {} /\ leftBehind = {}
  /\ mishaps = 0

Goto(a, stage) == pc' = [pc EXCEPT ![a] = stage]

(* Whoever sets or clears publish_id clears published_token as well.       *)
SetBound(w, p) ==
  /\ bound' = [bound EXCEPT ![w] = p]
  /\ oldRefs' = oldRefs \ {w}

Mishap ==
  /\ mishaps < MaxMishaps
  /\ mishaps' = mishaps + 1

(* A write or a removal that concerns p fails.                             *)
FailOn(p) ==
  /\ Mishap
  /\ interrupted' = interrupted \cup {p}

(* os.RemoveAll of the directory of p.                                     *)
RemoveDir(p) ==
  /\ dirOf' = dirOf \ {p}
  /\ metaOf' = metaOf \ {p}
  /\ yamlOf' = yamlOf \ {p}
  /\ stale' = stale \ {p} /\ migrated' = migrated \ {p} /\ leftBehind' = leftBehind \ {p}
  /\ UNCHANGED <<interrupted, mishaps>>

(* The same when it fails half-way: any file may be gone.                  *)
RemoveDirFails(p) ==
  /\ FailOn(p)
  /\ metaOf' \in {metaOf, metaOf \ {p}}
  /\ yamlOf' \in {yamlOf, yamlOf \ {p}}
  /\ UNCHANGED <<dirOf, kindVars>>

-----------------------------------------------------------------------------
(* Requests on one workspace, which the middleware locks for as long as    *)
(* they last.                                                              *)
(* Mutant: the request, or the cleanup, does not wait for the lock.        *)
EnterUnlocked(a, w, p, stage) ==
  /\ pc[a] = "idle"
  /\ home' = [home EXCEPT ![a] = w]
  /\ pub' = [pub EXCEPT ![a] = p]
  /\ Goto(a, stage)
  /\ UNCHANGED <<made, todo, sweep, after, lockVars, diskVars, kindVars, historyVars>>

Enter(a, w, p, stage) ==
  /\ pc[a] = "idle"
  /\ Locks!Acquire(a, w)
  /\ home' = [home EXCEPT ![a] = w]
  /\ pub' = [pub EXCEPT ![a] = p]
  /\ Goto(a, stage)
  /\ UNCHANGED <<made, todo, sweep, after, creator, running, diskVars, kindVars, historyVars>>

(* POST bind-publish.                                                      *)
BeginBind(a) == \E w \in exists, p \in used : Enter(a, w, p, "check")

(* POST restore-draft; without a publish reference it saves back the one   *)
(* that it loaded.                                                         *)
BeginDraft(a) ==
  \E w \in exists :
    \/ \E p \in used : Enter(a, w, p, "draft")
    \/ Enter(a, w, bound[w], "save")

(* POST restore-from-published: the workspace and the source of the        *)
(* publication, found through its token, are locked in ascending order.    *)
BeginRestore(a) ==
  \E w, source \in exists, p \in used :
    /\ ~public
    /\ pc[a] = "idle"
    /\ Restorable(p)
    /\ home' = [home EXCEPT ![a] = w]
    /\ pub' = [pub EXCEPT ![a] = p]
    /\ todo' = [todo EXCEPT ![a] = {w, source}]
    /\ Goto(a, "lock")
    /\ UNCHANGED <<made, sweep, after, lockVars, diskVars, kindVars, historyVars>>

(* lockWorkspaceHashes                                                     *)
LockNext(a) ==
  /\ pc[a] = "lock"
  /\ LET w == First(todo[a]) IN
       /\ Locks!Acquire(a, w)
       /\ todo' = [todo EXCEPT ![a] = @ \ {w}]
       /\ Goto(a, IF todo[a] = {w} THEN "check" ELSE "lock")
  /\ UNCHANGED <<home, pub, made, sweep, after, creator, running, diskVars,
                 kindVars, historyVars>>

(* bind-publish and restore-from-published refuse a missing publication;   *)
(* restore-draft goes on without a reference.                              *)
Check(a) ==
  /\ pc[a] \in {"check", "draft"}
  /\ \/ /\ Restorable(pub[a])
        /\ Goto(a, "bind")
        /\ UNCHANGED pub
     \/ /\ ~Restorable(pub[a]) /\ pc[a] = "check"
        /\ Goto(a, "leave")
        /\ UNCHANGED pub
     \/ /\ ~Restorable(pub[a]) /\ pc[a] = "draft"
        /\ pub' = [pub EXCEPT ![a] = NoPub]
        /\ Goto(a, "bind")
  /\ UNCHANGED <<home, made, todo, sweep, after, lockVars, diskVars, kindVars,
                 historyVars>>

(* saveWorkspaceMeta with the reference; it may fail, and the workspace    *)
(* may have been removed while restore-from-published waited for it.       *)
Bind(a) ==
  /\ pc[a] \in {"bind", "save"}
  /\ \/ /\ home[a] \in exists
        /\ bound' = [bound EXCEPT ![home[a]] = pub[a]]
        /\ oldRefs' = oldRefs \ (IF pc[a] = "bind" THEN {home[a]} ELSE {})
     \/ UNCHANGED <<bound, oldRefs>>
  /\ Goto(a, "leave")
  /\ UNCHANGED <<actorVars, lockVars, exists, oldFiles, dirOf, metaOf, yamlOf, kindVars,
                 historyVars>>

(* Every lock is released when the request returns.                        *)
Leave(a) ==
  /\ pc[a] = "leave"
  /\ wsLock' = [w \in Workspace |-> IF wsLock[w] = a THEN NoActor ELSE wsLock[w]]
  /\ Goto(a, "idle")
  /\ home' = [home EXCEPT ![a] = First(Workspace)]
  /\ pub' = [pub EXCEPT ![a] = NoPub]
  /\ made' = [made EXCEPT ![a] = FALSE]
  /\ todo' = [todo EXCEPT ![a] = {}]
  /\ sweep' = [sweep EXCEPT ![a] = {}]
  /\ after' = [after EXCEPT ![a] = "leave"]
  /\ UNCHANGED <<creator, running, diskVars, kindVars, historyVars>>

-----------------------------------------------------------------------------
(* DELETE of a workspace.                                                  *)
BeginDrop(a) == \E w \in exists : Enter(a, w, NoPub, "drop")

(* cleanupExpiredWorkspaces, or loadWorkspaceNoTouch inside a request, on  *)
(* a workspace that is past its time to live.                              *)
BeginExpire(a) == \E w \in exists : Enter(a, w, NoPub, "pinned")

(* workspaceHasPublishedRefreshBinding keeps a workspace whose publication *)
(* is alive.                                                               *)
Pinned(a) ==
  /\ pc[a] = "pinned"
  /\ Goto(a, IF bound[home[a]] \in metaOf THEN "leave" ELSE "expire")
  /\ UNCHANGED <<actorVars, lockVars, diskVars, kindVars, historyVars>>

(* removeWorkspace; the publications it was bound to are left alone.       *)
RemoveWorkspace(a) ==
  /\ pc[a] \in {"drop", "expire"}
  /\ exists' = exists \ {home[a]}
  /\ SetBound(home[a], NoPub)
  /\ Goto(a, "leave")
  /\ UNCHANGED <<actorVars, lockVars, oldFiles, dirOf, metaOf, yamlOf, kindVars, historyVars>>

-----------------------------------------------------------------------------
(* Refreshing.                                                             *)

(* POST /api/refresh; a tryLock that is refused changes nothing.           *)
BeginRefresh(a) == \E w \in exists : Enter(a, w, NoPub, "ensure")

(* refreshPublishedWorkspace, by the scheduler or a download of /s/.       *)
BeginScheduled(a) == \E w \in exists : Enter(a, w, NoPub, "scheduled")

(* It refreshes a live publication only and creates none.                  *)
LoadScheduled(a) ==
  /\ pc[a] = "scheduled"
  /\ IF bound[home[a]] \in metaOf
       THEN pub' = [pub EXCEPT ![a] = bound[home[a]]] /\ Goto(a, "config")
       ELSE UNCHANGED pub /\ Goto(a, "leave")
  /\ UNCHANGED <<home, made, todo, sweep, after, lockVars, diskVars, kindVars, historyVars>>

(* ensureWorkspacePublishedRef keeps a restorable publication.  It forgets *)
(* another one, ignoring a failure to save that, and the earlier one with  *)
(* it; only a workspace that has nothing but an earlier one migrates.      *)
Ensure(a) ==
  /\ pc[a] = "ensure"
  /\ LET w == home[a]
         p == bound[home[a]] IN
       \/ /\ Restorable(p)
          /\ pub' = [pub EXCEPT ![a] = p]
          /\ Goto(a, "config")
          /\ UNCHANGED <<bound, oldRefs>>
       \/ /\ p = NoPub
          /\ Goto(a, IF w \in oldRefs THEN "migrate" ELSE "create")
          /\ UNCHANGED <<pub, bound, oldRefs>>
       \/ /\ p # NoPub /\ ~Restorable(p)
          /\ SetBound(w, NoPub) \/ UNCHANGED <<bound, oldRefs>>
          /\ Goto(a, "create")
          /\ UNCHANGED pub
  /\ UNCHANGED <<home, made, todo, sweep, after, lockVars, exists, oldFiles, dirOf,
                 metaOf, yamlOf, kindVars, historyVars>>

(* createPublishedWithToken: a directory with a new ID and its meta.json.  *)
(* When writing that fails, the directory stays.                           *)
CreateWithToken(a, p, onSuccess, onError) ==
  /\ used' = used \cup {p}
  /\ dirOf' = dirOf \cup {p}
  /\ \/ /\ metaOf' = metaOf \cup {p}
        /\ pub' = [pub EXCEPT ![a] = p]
        /\ Goto(a, onSuccess)
        /\ UNCHANGED <<interrupted, mishaps>>
     \/ /\ FailOn(p)
        /\ Goto(a, onError)
        /\ UNCHANGED <<metaOf, pub>>

(* The download of a link that no publication of this version has, while   *)
(* the files of an earlier one are there; it holds no lock.                *)
BeginAdopt(a) ==
  /\ pc[a] = "idle"
  /\ \E w \in oldFiles : home' = [home EXCEPT ![a] = w]
  /\ Goto(a, "adopt")
  /\ UNCHANGED <<pub, made, todo, sweep, after, lockVars, diskVars, kindVars, historyVars>>

(* migrateLegacyPublishedToken, for a refresh or for a download: when a    *)
(* file is gone, or cannot be read, there is nothing to migrate.           *)
Migrate(a) ==
  /\ pc[a] \in {"migrate", "adopt"}
  /\ LET failed == IF pc[a] = "migrate" THEN "fallback" ELSE "leave" IN
       \/ /\ home[a] \in oldFiles
          /\ \E p \in Pub \ used :
               /\ CreateWithToken(a, p, IF pc[a] = "migrate" THEN "fill" ELSE "adoptFill", failed)
               /\ migrated' = migrated \cup {p}
       \/ /\ Mishap \/ (home[a] \notin oldFiles /\ UNCHANGED mishaps)
          /\ Goto(a, failed)
          /\ UNCHANGED <<pub, dirOf, metaOf, used, migrated, interrupted>>
  /\ UNCHANGED <<home, made, todo, sweep, after, lockVars, exists, bound, oldVars, yamlOf,
                 stale, leftBehind, public>>

(* The earlier content becomes the current.yaml; when that fails the new   *)
(* publication stays as it is.                                             *)
Fill(a) ==
  /\ pc[a] \in {"fill", "adoptFill"}
  /\ \/ /\ dirOf' = dirOf \cup {pub[a]}
        /\ yamlOf' = yamlOf \cup {pub[a]}
        /\ Goto(a, IF pc[a] = "fill" THEN "date" ELSE "adoptDate")
        /\ UNCHANGED <<interrupted, mishaps>>
     \/ /\ FailOn(pub[a])
        /\ Goto(a, IF pc[a] = "fill" THEN "fallback" ELSE "leave")
        /\ UNCHANGED <<dirOf, yamlOf>>
  /\ UNCHANGED <<actorVars, lockVars, exists, bound, oldVars, metaOf, kindVars, public, used>>

(* updatePublishedMeta takes over the earlier dates, which may be long     *)
(* ago, and the earlier files are removed if that succeeds, as far as they *)
(* can be.  It fails when the publication was deleted meanwhile, or for    *)
(* want of a write.                                                        *)
Date(a) ==
  /\ pc[a] \in {"date", "adoptDate"}
  /\ \/ /\ pub[a] \in metaOf
        /\ stale' \in {stale, stale \cup {pub[a]}}
        /\ \/ oldFiles' = oldFiles \ {home[a]} /\ UNCHANGED mishaps
           \/ UNCHANGED oldFiles /\ Mishap
        /\ Goto(a, IF pc[a] = "date" THEN "rebind" ELSE "leave")
     \/ /\ Mishap \/ (pub[a] \notin metaOf /\ UNCHANGED mishaps)
        /\ Goto(a, IF pc[a] = "date" THEN "fallback" ELSE "leave")
        /\ UNCHANGED <<stale, oldFiles>>
  /\ UNCHANGED <<actorVars, lockVars, exists, bound, oldRefs, dirOf, metaOf, yamlOf, migrated,
                 leftBehind, public, used, interrupted>>

(* migrateWorkspaceLegacyPublished: a refresh that could not migrate makes *)
(* an empty publication with the earlier token, or else goes on without.   *)
Fallback(a) ==
  /\ pc[a] = "fallback"
  /\ \E p \in Pub \ used :
       /\ CreateWithToken(a, p, "rebind", "create")
       /\ migrated' = migrated \cup {p}
  /\ UNCHANGED <<home, made, todo, sweep, after, lockVars, exists, bound, oldVars, yamlOf,
                 stale, leftBehind, public>>

(* The migrated publication is saved in the workspace.  It does not count  *)
(* as created by this refresh; when it cannot be saved, one is created.    *)
Rebind(a) ==
  /\ pc[a] = "rebind"
  /\ \/ /\ SetBound(home[a], pub[a])
        /\ Goto(a, "config")
        /\ UNCHANGED <<interrupted, mishaps>>
     \/ /\ FailOn(pub[a])
        /\ Goto(a, "create")
        /\ UNCHANGED <<bound, oldRefs>>
  /\ UNCHANGED <<actorVars, lockVars, exists, oldFiles, dirOf, metaOf, yamlOf, kindVars,
                 public, used>>

(* Mutant: createPublished does not take publishedCreateMu.                *)
LockCreateSkipped(a) ==
  /\ pc[a] = "create"
  /\ creator' = a
  /\ Goto(a, "count")
  /\ UNCHANGED <<actorVars, wsLock, running, diskVars, kindVars, historyVars>>

(* createPublished locks publishedCreateMu ...                             *)
LockCreate(a) ==
  /\ pc[a] = "create"
  /\ creator = NoActor
  /\ creator' = a
  /\ Goto(a, "count")
  /\ UNCHANGED <<actorVars, wsLock, running, diskVars, kindVars, historyVars>>

AtLimit == public /\ Cardinality(dirOf) >= MaxPublications

(* ... and counts the published items; at the limit it sweeps the stale    *)
(* ones, counts again and refuses when that did not help.                  *)
Count(a) ==
  /\ pc[a] \in {"count", "recount"}
  /\ \/ /\ ~AtLimit
        /\ Goto(a, "make")
        /\ UNCHANGED <<sweep, after, creator>>
     \/ /\ AtLimit /\ pc[a] = "count"
        /\ sweep' = [sweep EXCEPT ![a] = dirOf]
        /\ after' = [after EXCEPT ![a] = "recount"]
        /\ Goto(a, "sweep")
        /\ UNCHANGED creator
     \/ /\ AtLimit /\ pc[a] = "recount"
        /\ creator' = NoActor
        /\ Goto(a, "leave")
        /\ UNCHANGED <<sweep, after>>
  /\ UNCHANGED <<home, pub, made, todo, wsLock, running, diskVars, kindVars,
                 historyVars>>

(* ... and makes a publication with a random token.                        *)
Make(a) ==
  /\ pc[a] = "make"
  /\ \E p \in Pub \ used : CreateWithToken(a, p, "bindNew", "leave")
  /\ made' = [made EXCEPT ![a] = pc'[a] = "bindNew"]
  /\ creator' = NoActor
  /\ UNCHANGED <<home, todo, sweep, after, wsLock, running, exists, bound, oldVars, yamlOf,
                 kindVars, public>>

(* The new publication is saved in the workspace, or thrown away.          *)
BindNew(a) ==
  /\ pc[a] = "bindNew"
  /\ \/ /\ SetBound(home[a], pub[a])
        /\ Goto(a, "config")
        /\ UNCHANGED <<dirOf, metaOf, yamlOf, kindVars, interrupted, mishaps>>
     \/ /\ RemoveDir(pub[a]) \/ RemoveDirFails(pub[a])
        /\ Goto(a, "leave")
        /\ UNCHANGED <<bound, oldRefs>>
  /\ UNCHANGED <<actorVars, lockVars, exists, oldFiles, used, public>>

(* A refresh ends without content for its publication, and leaves it as it *)
(* is.                                                                     *)
LeaveBehind(p) == leftBehind' = leftBehind \cup ({p} \ (yamlOf \cup interrupted))

(* loadWorkspaceConfig; when it fails the publication stays, also one that *)
(* this refresh has created.                                               *)
Config(a) ==
  /\ pc[a] = "config"
  /\ \/ Goto(a, "start") /\ UNCHANGED <<leftBehind, mishaps>>
     \/ Goto(a, "leave") /\ LeaveBehind(pub[a]) /\ Mishap
  /\ UNCHANGED <<actorVars, lockVars, diskVars, stale, migrated, public, used, interrupted>>

(* startRefreshForConfig: refused while another workspace refreshes into   *)
(* the same file, or for want of a slot.                                   *)
Start(a) ==
  /\ pc[a] = "start"
  /\ \/ /\ pub[a] \notin running
        /\ running' = running \cup {pub[a]}
        /\ Goto(a, "stage")
     \/ /\ Goto(a, "release")
        /\ UNCHANGED running
  /\ UNCHANGED <<actorVars, wsLock, creator, diskVars, kindVars, historyVars>>

(* The staged file is written, and with it the directory it belongs into;  *)
(* or the refresh fails before.                                            *)
StageResult(a) ==
  /\ pc[a] = "stage"
  /\ \/ /\ dirOf' = dirOf \cup {pub[a]}
        /\ Goto(a, "publish")
        /\ UNCHANGED running
     \/ /\ running' = running \ {pub[a]}
        /\ Goto(a, "release")
        /\ UNCHANGED dirOf
  /\ UNCHANGED <<actorVars, wsLock, creator, exists, bound, oldVars, metaOf, yamlOf, kindVars,
                 historyVars>>

(* What passed the validation becomes current.yaml; or the refresh fails.  *)
Publish(a) ==
  /\ pc[a] = "publish"
  /\ \/ /\ dirOf' = dirOf \cup {pub[a]}
        /\ yamlOf' = yamlOf \cup {pub[a]}
        /\ Goto(a, "finalize")
     \/ /\ Goto(a, "release")
        /\ UNCHANGED <<dirOf, yamlOf>>
  /\ running' = running \ {pub[a]}
  /\ leftBehind' = leftBehind \ yamlOf'
  /\ UNCHANGED <<actorVars, wsLock, creator, exists, bound, oldVars, metaOf, stale, migrated,
                 historyVars>>

(* Mutant: finalizePublishedRefresh saves the meta.json it had loaded.     *)
FinalizeWithoutReload(a) ==
  /\ pc[a] = "finalize"
  /\ dirOf' = dirOf \cup {pub[a]}
  /\ metaOf' = metaOf \cup {pub[a]}
  /\ stale' = stale \ {pub[a]}
  /\ Goto(a, "bindDone")
  /\ UNCHANGED <<actorVars, lockVars, exists, bound, oldVars, yamlOf, migrated, leftBehind,
                 historyVars>>

(* finalizePublishedRefresh loads meta.json again under publishedMetaMu.   *)
(* When it is gone, what the refresh wrote is removed as well.  The new    *)
(* UpdatedAt keeps it from being stale only if it was never downloaded.    *)
Finalize(a) ==
  /\ pc[a] = "finalize"
  /\ \/ /\ pub[a] \in metaOf
        /\ stale' \in {stale, stale \ {pub[a]}}
        /\ Goto(a, "bindDone")
        /\ UNCHANGED <<dirOf, metaOf, yamlOf, migrated, leftBehind, interrupted, mishaps>>
     \/ /\ pub[a] \in metaOf           \* the write fails
        /\ Goto(a, "leave")
        /\ UNCHANGED <<dirOf, metaOf, yamlOf, kindVars, interrupted, mishaps>>
     \/ /\ pub[a] \notin metaOf
        /\ RemoveDir(pub[a]) \/ RemoveDirFails(pub[a])
        /\ Goto(a, "leave")
  /\ UNCHANGED <<actorVars, lockVars, exists, bound, oldVars, used, public>>

(* ... and saves the reference in the workspace once more.                 *)
BindDone(a) ==
  /\ pc[a] = "bindDone"
  /\ SetBound(home[a], pub[a]) \/ UNCHANGED <<bound, oldRefs>>
  /\ Goto(a, "leave")
  /\ UNCHANGED <<actorVars, lockVars, exists, oldFiles, dirOf, metaOf, yamlOf, kindVars,
                 historyVars>>

(* Mutant: a refused or failed refresh keeps the publication it created.   *)
ReleaseNothing(a) ==
  /\ pc[a] = "release"
  /\ Goto(a, "leave")
  /\ UNCHANGED <<actorVars, lockVars, diskVars, kindVars, historyVars>>

(* releaseWorkspacePublishedRef after a refused or failed refresh: only a  *)
(* publication that this refresh created is given up, its reference first; *)
(* one that it migrated is not, empty or not.                              *)
Release(a) ==
  /\ pc[a] = "release"
  /\ \/ /\ ~made[a]
        /\ LeaveBehind(pub[a])
        /\ Goto(a, "leave")
        /\ UNCHANGED <<bound, oldRefs, interrupted, mishaps>>
     \/ /\ made[a]
        /\ \/ SetBound(home[a], NoPub) /\ UNCHANGED <<interrupted, mishaps>>
           \/ FailOn(pub[a]) /\ UNCHANGED <<bound, oldRefs>>
        /\ Goto(a, "discard")
        /\ UNCHANGED leftBehind
  /\ UNCHANGED <<actorVars, lockVars, exists, oldFiles, dirOf, metaOf, yamlOf, stale,
                 migrated, used, public>>

Discard(a) ==
  /\ pc[a] = "discard"
  /\ RemoveDir(pub[a]) \/ RemoveDirFails(pub[a])
  /\ Goto(a, "leave")
  /\ UNCHANGED <<actorVars, lockVars, exists, bound, oldVars, used, public>>

-----------------------------------------------------------------------------
(* Deleting publications.                                                  *)

(* removePublishedIfWithWorkspace under publishedMetaMu.  The workspaces   *)
(* to visit are those on disk when clearPublishedAssociations reads the    *)
(* directory, a moment later; more of them only make it skip some.  When   *)
(* the removal fails, nobody is visited (onError).                         *)
RemovePublished(a, p, onSuccess, onError) ==
  /\ p \in metaOf
  /\ \/ /\ RemoveDir(p)
        /\ todo' = [todo EXCEPT ![a] = exists]
        /\ Goto(a, onSuccess)
     \/ /\ RemoveDirFails(p)
        /\ Goto(a, onError)
        /\ UNCHANGED todo

(* DELETE /api/published/p from a workspace that is bound to p.            *)
BeginDelete(a) ==
  \E w \in exists, p \in used :
    bound[w] = p /\ Restorable(p) /\ Enter(a, w, p, "remove")

Remove(a) ==
  /\ pc[a] = "remove"
  /\ \/ RemovePublished(a, pub[a], "clear", "leave")
     \/ /\ pub[a] \notin metaOf
        /\ Goto(a, "leave")
        /\ UNCHANGED <<dirOf, metaOf, yamlOf, todo, kindVars, interrupted, mishaps>>
  /\ UNCHANGED <<home, pub, made, sweep, after, lockVars, exists, bound, oldVars, used,
                 public>>

(* The cleanup goroutine starts cleanupStalePublished, with no lock.       *)
BeginSweep(a) ==
  /\ pc[a] = "idle"
  /\ sweep' = [sweep EXCEPT ![a] = dirOf]
  /\ after' = [after EXCEPT ![a] = "leave"]
  /\ Goto(a, "sweep")
  /\ UNCHANGED <<home, pub, made, todo, lockVars, diskVars, kindVars, historyVars>>

(* cleanupStalePublished looks at one item after the other.  An item       *)
(* without a meta.json is an error, and so is one that cannot be removed;  *)
(* after an error createPublished gives up, after the rest of the sweep.   *)
SweepOne(a) ==
  /\ pc[a] = "sweep"
  /\ \E p \in sweep[a] :
       /\ sweep' = [sweep EXCEPT ![a] = @ \ {p}]
       /\ \/ /\ p \in metaOf \ stale
             /\ UNCHANGED <<pc, pub, after, todo, dirOf, metaOf, yamlOf, kindVars,
                            interrupted, mishaps>>
          \/ /\ p \notin metaOf
             /\ after' = [after EXCEPT ![a] = "leave"]
             /\ UNCHANGED <<pc, pub, todo, dirOf, metaOf, yamlOf, kindVars, interrupted,
                            mishaps>>
          \/ /\ p \in metaOf \cap stale
             /\ RemovePublished(a, p, "unbind", "sweep")
             /\ pub' = [pub EXCEPT ![a] = p]
             /\ after' = [after EXCEPT ![a] = IF pc'[a] = "sweep" THEN "leave" ELSE @]
  /\ UNCHANGED <<home, made, lockVars, exists, bound, oldVars, used, public>>

SweepDone(a) ==
  /\ pc[a] = "sweep" /\ sweep[a] = {}
  /\ Goto(a, after[a])
  /\ creator' = IF creator = a /\ after[a] = "leave" THEN NoActor ELSE creator
  /\ UNCHANGED <<actorVars, wsLock, running, diskVars, kindVars, historyVars>>

(* Only DELETE skips the lock that its request holds: a sweep knows of no  *)
(* lock, whatever the request around it holds.                             *)
MayVisit(a, w) ==
  wsLock[w] = NoActor \/ (pc[a] = "clear" /\ w = home[a])

VisitsDone(a) == Goto(a, IF pc[a] = "clear" THEN "leave" ELSE "sweep")

(* Mutant: the last workspace in the directory is not visited.             *)
ClearAllButLast(a) ==
  /\ pc[a] \in {"clear", "unbind"}
  /\ IF Cardinality(todo[a]) <= 1
       THEN VisitsDone(a) /\ todo' = [todo EXCEPT ![a] = {}] /\ UNCHANGED <<bound, oldRefs>>
       ELSE LET w == First(todo[a]) IN
            /\ MayVisit(a, w)
            /\ todo' = [todo EXCEPT ![a] = @ \ {w}]
            /\ IF bound[w] = pub[a] THEN SetBound(w, NoPub) ELSE UNCHANGED <<bound, oldRefs>>
            /\ UNCHANGED pc
  /\ UNCHANGED <<home, pub, made, sweep, after, lockVars, exists, oldFiles, dirOf, metaOf,
                 yamlOf, kindVars, historyVars>>

(* clearPublishedAssociations visits one workspace after the other, each   *)
(* under its lock, and clears the reference where it finds it.             *)
Clear(a) ==
  /\ pc[a] \in {"clear", "unbind"}
  /\ \/ /\ todo[a] = {}
        /\ VisitsDone(a)
        /\ UNCHANGED <<bound, oldRefs, todo, interrupted, mishaps>>
     \/ \E w \in todo[a] :
          /\ w = First(todo[a])
          /\ MayVisit(a, w)
          /\ todo' = [todo EXCEPT ![a] = @ \ {w}]
          /\ \/ bound[w] = pub[a] /\ SetBound(w, NoPub) /\ UNCHANGED <<interrupted, mishaps>>
             \/ bound[w] = pub[a] /\ UNCHANGED <<bound, oldRefs>> /\ FailOn(pub[a])
             \/ bound[w] # pub[a] /\ UNCHANGED <<bound, oldRefs, interrupted, mishaps>>
          /\ UNCHANGED pc
  /\ UNCHANGED <<home, pub, made, sweep, after, lockVars, exists, oldFiles, dirOf, metaOf,
                 yamlOf, kindVars, used, public>>

-----------------------------------------------------------------------------
(* Thirty days without an access; no request takes that long.              *)
Age ==
  /\ \A a \in Actor : pc[a] = "idle"
  /\ \E p \in metaOf \ stale : stale' = stale \cup {p}
  /\ UNCHANGED <<pc, actorVars, lockVars, diskVars, migrated, leftBehind, historyVars>>

(* persistPublishedAccess after a download.                                *)
Access ==
  /\ \E p \in metaOf \cap stale : stale' = stale \ {p}
  /\ UNCHANGED <<pc, actorVars, lockVars, diskVars, migrated, leftBehind, historyVars>>

(* The process stops and starts again: memory is lost, files stay.         *)
Crash ==
  /\ Mishap
  /\ interrupted' = interrupted \cup ({pub[a] : a \in Actor} \ {NoPub})
  /\ pc' = [a \in Actor |-> "idle"]
  /\ home' = [a \in Actor |-> First(Workspace)]
  /\ pub' = [a \in Actor |-> NoPub]
  /\ made' = [a \in Actor |-> FALSE]
  /\ todo' = [a \in Actor |-> {}]
  /\ sweep' = [a \in Actor |-> {}]
  /\ after' = [a \in Actor |-> "leave"]
  /\ wsLock' = [w \in Workspace |-> NoActor]
  /\ creator' = NoActor
  /\ running' = {}
  /\ UNCHANGED <<diskVars, kindVars, used, public>>

Begin(a) ==
  \/ BeginBind(a) \/ BeginDraft(a) \/ BeginRestore(a) \/ BeginDrop(a)
  \/ BeginExpire(a) \/ BeginRefresh(a) \/ BeginScheduled(a) \/ BeginDelete(a)
  \/ BeginSweep(a) \/ BeginAdopt(a)

Step(a) ==
  \/ LockNext(a) \/ Check(a) \/ Bind(a) \/ Leave(a) \/ Pinned(a)
  \/ RemoveWorkspace(a) \/ LoadScheduled(a) \/ Ensure(a) \/ Migrate(a)
  \/ Fill(a) \/ Date(a) \/ Fallback(a) \/ Rebind(a) \/ LockCreate(a)
  \/ Count(a) \/ Make(a) \/ BindNew(a) \/ Config(a) \/ Start(a)
  \/ StageResult(a) \/ Publish(a) \/ Finalize(a) \/ BindDone(a) \/ Release(a)
  \/ Discard(a) \/ Remove(a) \/ SweepOne(a) \/ SweepDone(a) \/ Clear(a)

Next == (\E a \in Actor : Begin(a) \/ Step(a)) \/ Age \/ Access \/ Crash

Spec == Init /\ [][Next]_vars

-----------------------------------------------------------------------------
(* Every variable has its type: in particular files lie in directories,    *)
(* and only publications that were created have any.                       *)
TypeOK ==
  /\ public \in BOOLEAN
  /\ pc \in [Actor -> Stage]
  /\ home \in [Actor -> Workspace]
  /\ pub \in [Actor -> Pub \cup {NoPub}]
  /\ made \in [Actor -> BOOLEAN]
  /\ todo \in [Actor -> SUBSET Workspace]
  /\ sweep \in [Actor -> SUBSET Pub]
  /\ after \in [Actor -> {"leave", "recount"}]
  /\ wsLock \in [Workspace -> Actor \cup {NoActor}]
  /\ creator \in Actor \cup {NoActor}
  /\ running \subseteq Pub
  /\ exists \subseteq Workspace
  /\ bound \in [Workspace -> Pub \cup {NoPub}]
  /\ oldRefs \subseteq Inherited /\ oldFiles \subseteq Inherited
  /\ metaOf \subseteq dirOf /\ yamlOf \subseteq dirOf
  /\ dirOf \subseteq used /\ stale \subseteq used
  /\ used \subseteq Pub /\ interrupted \subseteq Pub
  /\ migrated \subseteq used /\ leftBehind \subseteq used
  /\ mishaps \in 0..MaxMishaps

(* A workspace is never left with a reference to a publication that was    *)
(* deleted: whoever deleted it is on the way to that workspace.            *)
NoDanglingBinding ==
  \A w \in Workspace :
    bound[w] \in used \ (metaOf \cup interrupted) =>
      \E a \in Actor :
        pc[a] \in {"clear", "unbind"} /\ pub[a] = bound[w] /\ w \in todo[a]

(* Concurrent refreshes create no more publications than the limit, also   *)
(* when they have swept the stale ones to make room, and whatever is       *)
(* migrated meanwhile.  The migrated ones come on top: a migration does    *)
(* not look at the limit, so all live publications together may exceed it. *)
Created == metaOf \ migrated
LivePublicationsBounded == public => Cardinality(Created) <= MaxPublications

(* A publication that was deleted never comes back under its ID, whatever  *)
(* refresh was under way.                                                  *)
DeletedStaysDeleted == [][\A p \in used \ metaOf : p \notin metaOf']_vars

(* The stages in which someone is about to write the content of his        *)
(* publication, or to give it up.                                          *)
Working == {"fill", "adoptFill", "rebind", "bindNew", "config", "start", "stage",
            "publish", "release", "discard"}

(* A publication without any content belongs to the refresh or migration   *)
(* that is about to write it, or to give it up.  There are two exceptions, *)
(* with no crash and no failed write (leftBehind): a refresh that cannot   *)
(* load its configuration keeps what it created, and one that fails keeps  *)
(* the empty publication that it got for want of the earlier files.        *)
NoForgottenPublication ==
  \A p \in metaOf \ (yamlOf \cup interrupted \cup leftBehind) :
    \E a \in Actor : pub[a] = p /\ pc[a] \in Working

(* A workspace that is bound to a live publication, and so has to refresh  *)
(* it, is only ever removed on request.                                    *)
PinnedWorkspaceSurvives ==
  [][\A w \in exists \ exists' :
       bound[w] \in metaOf => \E a \in Actor : pc[a] = "drop" /\ home[a] = w]_vars

(* What a blocked actor waits for, or nobody.                              *)
WaitsFor(a) ==
  CASE pc[a] = "lock"   -> wsLock[First(todo[a])]
    [] pc[a] = "create" -> creator
    [] pc[a] \in {"clear", "unbind"} /\ todo[a] # {} ->
         IF MayVisit(a, First(todo[a])) THEN NoActor ELSE wsLock[First(todo[a])]
    [] OTHER -> NoActor

(* No set of actors waits for each other: refreshes and state changes are  *)
(* isolated per workspace (docs/docker.md).                                *)
NoDeadlock ==
  ~\E S \in SUBSET Actor : S # {} /\ \A a \in S : WaitsFor(a) \in S

(* The service retains at most MaxPublications published items             *)
(* (docs/security.md).                                                     *)
PublishedItemsBounded == public => Cardinality(dirOf) <= MaxPublications
=============================================================================
