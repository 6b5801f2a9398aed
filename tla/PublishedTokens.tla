--------------------------- MODULE PublishedTokens ---------------------------
(***************************************************************************)
(* The private links of internal/api/published.go: the token in the        *)
(* meta.json of a publication, the index in memory that finds the          *)
(* publication of a token, and the lookups of /s/{token}/ that use it.     *)
(*                                                                         *)
(* A change of meta.json happens under publishedMetaMu and the index       *)
(* follows after the unlock, so that changes and lookups interleave        *)
(* between the two.  The index starts out empty and is filled from disk by *)
(* the first lookup that misses.  Publications of earlier versions are two *)
(* files named by the hash of their token; they migrate when the link is   *)
(* used, or when their workspace is refreshed.                             *)
(*                                                                         *)
(* Tokens stand for their hashes: sha256 is taken to be injective.         *)
(***************************************************************************)
EXTENDS Integers, FiniteSets

CONSTANTS
  Actor,       \* requests and goroutines
  Pub,         \* publish IDs
  Token,       \* tokens that randomSubscriptionToken can return, and
  Legacy,      \*   those of publications of an earlier version
  NoPub,       \* the empty publish ID
  NoToken,     \* no meta.json
  MaxMishaps   \* bound: restarts, and files that cannot be read

VARIABLES
  token,       \* the token in the meta.json of each publication
  legacyFiles, \* tokens with files of the earlier version
  legacyRefs,  \* tokens that a workspace has as legacy_published_token
  index,       \* publishedTokenIndex
  loaded,      \* publishedIndexLoaded
  pc,          \* where each actor is
  key,         \* the token that it looks up or migrates
  old, new,    \* the tokens of the meta.json it changed, before and after
  found,       \* the publication that it found or changed
  todo,        \* publications it still has to scan
  discovered,  \* tokens it has scanned, with their publications
  binds,       \* it migrates for a workspace, not for a lookup
  drawn,       \* history: publish IDs and tokens that were drawn
  revoked,     \* history: tokens that were rotated away or deleted
  misread,     \* history: publications whose meta.json could not be read
  expect,      \* history: what a lookup has to answer
  mishaps

diskVars == <<token, legacyFiles, legacyRefs>>
indexVars == <<index, loaded>>
actorVars == <<key, old, new, found, todo, discovered, binds>>
historyVars == <<drawn, revoked, misread, expect, mishaps>>
vars == <<diskVars, indexVars, pc, actorVars, historyVars>>

Stage == {"idle", "look", "load", "drop", "ensure", "scan", "lookAgain",
          "loadAgain", "dropAgain", "legacy", "served", "missing",
          "reindex", "unindex", "fallback", "fallbackIndex",
          "migrateIndex", "migrateUpdate", "migrateReindex", "migrateDone",
          "bind"}

(* Publications with a meta.json, and the tokens they answer to.           *)
Published == {p \in Pub : token[p] # NoToken}
LiveTokens == {token[p] : p \in Published} \cup legacyFiles

(* Publications in the making have no owner yet who could change them.     *)
Settled == Published \ {found[a] : a \in {b \in Actor :
             pc[b] \in {"fallbackIndex", "migrateIndex", "migrateUpdate",
                       "migrateReindex", "migrateDone", "bind"}}}

Init ==
  /\ token = [p \in Pub |-> NoToken]
  /\ legacyFiles = Legacy /\ legacyRefs = Legacy
  /\ index = [t \in Token |-> NoPub] /\ loaded = FALSE
  /\ pc = [a \in Actor |-> "idle"]
  /\ key = [a \in Actor |-> NoToken] /\ old = [a \in Actor |-> NoToken]
  /\ new = [a \in Actor |-> NoToken]
  /\ found = [a \in Actor |-> NoPub]
  /\ todo = [a \in Actor |-> {}] /\ discovered = [a \in Actor |-> {}]
  /\ binds = [a \in Actor |-> FALSE]
  /\ drawn = Legacy /\ revoked = {} /\ misread = {}
  /\ expect = [a \in Actor |-> "any"]
  /\ mishaps = 0

Goto(a, stage) == pc' = [pc EXCEPT ![a] = stage]

(* The actor is done and forgets its local variables.                      *)
Return(a) ==
  /\ Goto(a, "idle")
  /\ key' = [key EXCEPT ![a] = NoToken]
  /\ old' = [old EXCEPT ![a] = NoToken]
  /\ new' = [new EXCEPT ![a] = NoToken]
  /\ found' = [found EXCEPT ![a] = NoPub]
  /\ todo' = [todo EXCEPT ![a] = {}]
  /\ discovered' = [discovered EXCEPT ![a] = {}]
  /\ binds' = [binds EXCEPT ![a] = FALSE]
  /\ expect' = [expect EXCEPT ![a] = "any"]

(* A lookup under way may answer either way once its token was changed.    *)
Revoke(t) ==
  /\ revoked' = revoked \cup {t}
  /\ expect' = [b \in Actor |-> IF key[b] = t /\ expect[b] = "live" THEN "any" ELSE expect[b]]

-----------------------------------------------------------------------------
(* Changes of meta.json.                                                   *)

(* savePublishedMeta of a new publication with token t.                    *)
SaveNew(a, t, stage) ==
  /\ \E p \in Pub \ drawn :
       /\ token' = [token EXCEPT ![p] = t]
       /\ found' = [found EXCEPT ![a] = p]
       /\ drawn' = drawn \cup {p, t}
  /\ old' = [old EXCEPT ![a] = NoToken]
  /\ new' = [new EXCEPT ![a] = t]
  /\ Goto(a, stage)

(* createPublishedWithToken with a random token.                           *)
Create(a) ==
  /\ pc[a] = "idle"
  /\ \E t \in Token \ drawn : SaveNew(a, t, "reindex")
  /\ UNCHANGED <<legacyFiles, legacyRefs, indexVars, key, todo, discovered, binds, revoked,
                 misread, expect, mishaps>>

(* rotatePublishedToken: updatePublishedMeta up to its unlock.             *)
Rotate(a) ==
  /\ pc[a] = "idle"
  /\ \E p \in Settled, t \in Token \ drawn :
       /\ token' = [token EXCEPT ![p] = t]
       /\ drawn' = drawn \cup {t}
       /\ Revoke(token[p])
       /\ old' = [old EXCEPT ![a] = token[p]]
       /\ new' = [new EXCEPT ![a] = t]
       /\ found' = [found EXCEPT ![a] = p]
  /\ Goto(a, "reindex")
  /\ UNCHANGED <<legacyFiles, legacyRefs, indexVars, key, todo, discovered, binds,
                 misread, mishaps>>

(* updatePublishedMeta of a refresh or a counted access keeps the token.   *)
Update(a) ==
  /\ pc[a] = "idle"
  /\ \E p \in Published :
       /\ old' = [old EXCEPT ![a] = token[p]]
       /\ new' = [new EXCEPT ![a] = token[p]]
       /\ found' = [found EXCEPT ![a] = p]
  /\ Goto(a, "reindex")
  /\ UNCHANGED <<diskVars, indexVars, key, todo, discovered, binds, historyVars>>

(* removePublishedIfWithWorkspace up to its unlock.                        *)
Delete(a) ==
  /\ pc[a] = "idle"
  /\ \E p \in Settled :
       /\ token' = [token EXCEPT ![p] = NoToken]
       /\ Revoke(token[p])
       /\ old' = [old EXCEPT ![a] = token[p]]
       /\ found' = [found EXCEPT ![a] = p]
  /\ Goto(a, "unindex")
  /\ UNCHANGED <<legacyFiles, legacyRefs, indexVars, key, new, todo, discovered, binds,
                 drawn, misread, mishaps>>

(* removePublishedTokenIndex                                               *)
Without(t, p) ==
  [u \in Token |-> IF u = t /\ index[u] = p THEN NoPub ELSE index[u]]

(* replacePublishedTokenIndex                                              *)
Replace(a) ==
  index' = [(IF old[a] # new[a] THEN Without(old[a], found[a]) ELSE index)
              EXCEPT ![new[a]] = found[a]]

Reindex(a) ==
  /\ pc[a] = "reindex"
  /\ Replace(a)
  /\ Return(a)
  /\ UNCHANGED <<diskVars, loaded, drawn, revoked, misread, mishaps>>

Unindex(a) ==
  /\ pc[a] = "unindex"
  /\ index' = Without(old[a], found[a])
  /\ Return(a)
  /\ UNCHANGED <<diskVars, loaded, drawn, revoked, misread, mishaps>>

-----------------------------------------------------------------------------
(* Tokens that the owner was told: the response to a change comes after    *)
(* the index.                                                              *)
Known == (Token \cap drawn) \ {new[b] : b \in {c \in Actor : pc[c] = "reindex" /\ old[c] # new[c]}}

(* loadPublishedByToken                                                    *)
Lookup(a) ==
  /\ pc[a] = "idle"
  /\ \E t \in Known :
       /\ key' = [key EXCEPT ![a] = t]
       /\ expect' = [expect EXCEPT ![a] =
            IF t \in revoked THEN "revoked" ELSE IF t \in LiveTokens THEN "live" ELSE "any"]
  /\ binds' = [binds EXCEPT ![a] = FALSE]
  /\ Goto(a, "look")
  /\ UNCHANGED <<diskVars, indexVars, old, new, found, todo, discovered, drawn, revoked, misread,
                 mishaps>>

(* indexedPublishID                                                        *)
Look(a) ==
  /\ pc[a] \in {"look", "lookAgain"}
  /\ found' = [found EXCEPT ![a] = index[key[a]]]
  /\ Goto(a, CASE found'[a] # NoPub -> IF pc[a] = "look" THEN "load" ELSE "loadAgain"
               [] OTHER             -> IF pc[a] = "look" THEN "ensure" ELSE "legacy")
  /\ UNCHANGED <<diskVars, indexVars, key, old, new, todo, discovered, binds, historyVars>>

(* Mutant: what the index says is not compared with meta.json.             *)
LoadUnchecked(a) ==
  /\ pc[a] \in {"load", "loadAgain"}
  /\ Goto(a, IF found[a] \in Published THEN "served"
             ELSE IF pc[a] = "load" THEN "drop" ELSE "dropAgain")
  /\ UNCHANGED <<diskVars, indexVars, actorVars, historyVars>>

(* A file exists but cannot be read.                                       *)
Misread(p) ==
  /\ p \in Published
  /\ mishaps < MaxMishaps
  /\ mishaps' = mishaps + 1
  /\ misread' = misread \cup {p}

(* The publication must be there and have this token.                      *)
Load(a) ==
  /\ pc[a] \in {"load", "loadAgain"}
  /\ \/ /\ token[found[a]] = key[a]
        /\ Goto(a, "served")
        /\ UNCHANGED <<misread, mishaps>>
     \/ /\ \/ token[found[a]] # key[a] /\ UNCHANGED <<misread, mishaps>>
           \/ Misread(found[a])
        /\ Goto(a, IF pc[a] = "load" THEN "drop" ELSE "dropAgain")
  /\ UNCHANGED <<diskVars, indexVars, actorVars, drawn, revoked, expect>>

Drop(a) ==
  /\ pc[a] \in {"drop", "dropAgain"}
  /\ index' = Without(key[a], found[a])
  /\ Goto(a, IF pc[a] = "drop" THEN "ensure" ELSE "legacy")
  /\ UNCHANGED <<diskVars, loaded, actorVars, historyVars>>

(* Mutant: the index counts as loaded as soon as the scan begins.          *)
EnsureMarkingLoaded(a) ==
  /\ pc[a] = "ensure"
  /\ IF loaded
       THEN Goto(a, "lookAgain") /\ UNCHANGED <<todo, discovered>>
       ELSE /\ todo' = [todo EXCEPT ![a] = Published]
            /\ discovered' = [discovered EXCEPT ![a] = {}]
            /\ Goto(a, "scan")
  /\ loaded' = TRUE
  /\ UNCHANGED <<diskVars, index, key, old, new, found, binds, historyVars>>

(* ensurePublishedTokenIndex: nothing to do, or a scan of the directory.   *)
Ensure(a) ==
  /\ pc[a] = "ensure"
  /\ IF loaded
       THEN Goto(a, "lookAgain") /\ UNCHANGED <<todo, discovered>>
       ELSE /\ todo' = [todo EXCEPT ![a] = Published]
            /\ discovered' = [discovered EXCEPT ![a] = {}]
            /\ Goto(a, "scan")
  /\ UNCHANGED <<diskVars, indexVars, key, old, new, found, binds, historyVars>>

(* Mutant: a directory without a meta.json is not skipped.                 *)
ScanUnpublished(a) ==
  /\ pc[a] = "scan"
  /\ \E p \in todo[a] :
       /\ todo' = [todo EXCEPT ![a] = @ \ {p}]
       /\ discovered' = [discovered EXCEPT ![a] = @ \cup {<<token[p], p>>}]
  /\ UNCHANGED <<diskVars, indexVars, pc, key, old, new, found, binds, historyVars>>

(* One directory; one that cannot be read is skipped.                      *)
Scan(a) ==
  /\ pc[a] = "scan"
  /\ \E p \in todo[a] :
       /\ todo' = [todo EXCEPT ![a] = @ \ {p}]
       /\ \/ /\ p \in Published
             /\ discovered' = [discovered EXCEPT ![a] =
                  {d \in @ : d[1] # token[p]} \cup {<<token[p], p>>}]
             /\ UNCHANGED <<misread, mishaps>>
          \/ /\ (p \notin Published /\ UNCHANGED <<misread, mishaps>>) \/ Misread(p)
             /\ UNCHANGED discovered
  /\ UNCHANGED <<diskVars, indexVars, pc, key, old, new, found, binds, drawn, revoked, expect>>

(* Mutant: what was discovered becomes the index.                          *)
MergeReplacing(a) ==
  /\ pc[a] = "scan" /\ todo[a] = {}
  /\ index' = [t \in Token |->
       IF \E p \in Pub : <<t, p>> \in discovered[a]
         THEN CHOOSE p \in Pub : <<t, p>> \in discovered[a]
         ELSE NoPub]
  /\ loaded' = TRUE
  /\ Goto(a, "lookAgain")
  /\ UNCHANGED <<diskVars, actorVars, historyVars>>

(* What was discovered fills up the index, but replaces nothing in it.     *)
Merge(a) ==
  /\ pc[a] = "scan" /\ todo[a] = {}
  /\ index' = [t \in Token |->
       IF index[t] = NoPub /\ \E p \in Pub : <<t, p>> \in discovered[a]
         THEN CHOOSE p \in Pub : <<t, p>> \in discovered[a]
         ELSE index[t]]
  /\ loaded' = TRUE
  /\ Goto(a, "lookAgain")
  /\ UNCHANGED <<diskVars, actorVars, historyVars>>

-----------------------------------------------------------------------------
(* ensureWorkspacePublishedRef on a workspace with a legacy token; its     *)
(* lock keeps a second refresh out.                                        *)
BeginMigration(a) ==
  /\ pc[a] = "idle"
  /\ \E t \in legacyRefs :
       /\ \A b \in Actor : ~(binds[b] /\ key[b] = t)
       /\ key' = [key EXCEPT ![a] = t]
  /\ binds' = [binds EXCEPT ![a] = TRUE]
  /\ Goto(a, "legacy")
  /\ UNCHANGED <<diskVars, indexVars, old, new, found, todo, discovered, historyVars>>

(* migrateLegacyPublishedToken: a publication with the token of the files. *)
(* Without files a lookup has failed.                                      *)
MigrateLegacy(a) ==
  /\ pc[a] = "legacy"
  /\ \/ key[a] \in legacyFiles /\ SaveNew(a, key[a], "migrateIndex")
     \/ /\ key[a] \notin legacyFiles
        /\ Goto(a, IF binds[a] THEN "fallback" ELSE "missing")
        /\ UNCHANGED <<token, found, drawn, old, new>>
  /\ UNCHANGED <<legacyFiles, legacyRefs, indexVars, key, todo, discovered, binds, revoked,
                 misread, expect, mishaps>>

(* migrateWorkspaceLegacyPublished: a workspace whose token has no files   *)
(* gets an empty publication with that token.                              *)
Fallback(a) ==
  /\ pc[a] = "fallback"
  /\ SaveNew(a, key[a], "fallbackIndex")
  /\ UNCHANGED <<legacyFiles, legacyRefs, indexVars, key, todo, discovered, binds, revoked,
                 misread, expect, mishaps>>

(* The index follows, as after every change of meta.json.                  *)
IndexMigrated(a) ==
  /\ pc[a] \in {"fallbackIndex", "migrateIndex", "migrateReindex"}
  /\ Replace(a)
  /\ Goto(a, CASE pc[a] = "fallbackIndex" -> "bind"
               [] pc[a] = "migrateIndex"  -> "migrateUpdate"
               [] OTHER                   -> "migrateDone")
  /\ UNCHANGED <<diskVars, loaded, actorVars, historyVars>>

(* After the content, the new meta.json gets its old dates.                *)
MigrateUpdate(a) ==
  /\ pc[a] = "migrateUpdate"
  /\ old' = [old EXCEPT ![a] = token[found[a]]]
  /\ new' = [new EXCEPT ![a] = token[found[a]]]
  /\ Goto(a, "migrateReindex")
  /\ UNCHANGED <<diskVars, indexVars, key, found, todo, discovered, binds, historyVars>>

(* The files are removed.                                                  *)
MigrateDone(a) ==
  /\ pc[a] = "migrateDone"
  /\ legacyFiles' = legacyFiles \ {key[a]}
  /\ Goto(a, IF binds[a] THEN "bind" ELSE "served")
  /\ UNCHANGED <<token, legacyRefs, indexVars, actorVars, historyVars>>

(* The workspace is saved with the publication instead of the token.       *)
BindMigrated(a) ==
  /\ pc[a] = "bind"
  /\ legacyRefs' = legacyRefs \ {key[a]}
  /\ Return(a)
  /\ UNCHANGED <<token, legacyFiles, indexVars, drawn, revoked, misread, mishaps>>

(* The answer is sent.                                                     *)
Answer(a) ==
  /\ pc[a] \in {"served", "missing"}
  /\ Return(a)
  /\ UNCHANGED <<diskVars, indexVars, drawn, revoked, misread, mishaps>>

(* The process stops and starts again with an empty index.                 *)
Crash ==
  /\ mishaps < MaxMishaps
  /\ mishaps' = mishaps + 1
  /\ index' = [t \in Token |-> NoPub] /\ loaded' = FALSE
  /\ pc' = [a \in Actor |-> "idle"]
  /\ key' = [a \in Actor |-> NoToken]
  /\ old' = [a \in Actor |-> NoToken] /\ new' = [a \in Actor |-> NoToken]
  /\ found' = [a \in Actor |-> NoPub]
  /\ todo' = [a \in Actor |-> {}] /\ discovered' = [a \in Actor |-> {}]
  /\ binds' = [a \in Actor |-> FALSE]
  /\ expect' = [a \in Actor |-> "any"]
  /\ UNCHANGED <<diskVars, drawn, revoked, misread>>

Begin(a) == Create(a) \/ Rotate(a) \/ Update(a) \/ Delete(a) \/ Lookup(a) \/ BeginMigration(a)

Step(a) ==
  \/ Reindex(a) \/ Unindex(a) \/ Look(a) \/ Load(a) \/ Drop(a) \/ Ensure(a)
  \/ Scan(a) \/ Merge(a) \/ MigrateLegacy(a) \/ Fallback(a) \/ IndexMigrated(a)
  \/ MigrateUpdate(a) \/ MigrateDone(a) \/ BindMigrated(a) \/ Answer(a)

Next == (\E a \in Actor : Begin(a) \/ Step(a)) \/ Crash

Spec == Init /\ [][Next]_vars

-----------------------------------------------------------------------------
(* Every variable has its type: in particular a scan finds only tokens that *)
(* some publication has had.                                               *)
TypeOK ==
  /\ token \in [Pub -> Token \cup {NoToken}]
  /\ legacyFiles \subseteq Legacy /\ legacyRefs \subseteq Legacy
  /\ index \in [Token -> Pub \cup {NoPub}] /\ loaded \in BOOLEAN
  /\ pc \in [Actor -> Stage]
  /\ key \in [Actor -> Token \cup {NoToken}]
  /\ old \in [Actor -> Token \cup {NoToken}]
  /\ new \in [Actor -> Token \cup {NoToken}]
  /\ found \in [Actor -> Pub \cup {NoPub}]
  /\ todo \in [Actor -> SUBSET Pub]
  /\ discovered \in [Actor -> SUBSET (Token \X Pub)]
  /\ binds \in [Actor -> BOOLEAN]
  /\ drawn \subseteq Pub \cup Token
  /\ revoked \subseteq Token /\ misread \subseteq Pub
  /\ expect \in [Actor -> {"any", "live", "revoked"}]
  /\ mishaps \in 0..MaxMishaps

(* A link that was live when a download began, and still is, is found:     *)
(* none of the concurrent changes, scans and clean-ups of the index, nor a *)
(* restart, loses it.  (A link of an earlier version may be missed while   *)
(* it migrates, and one whose meta.json could once not be read until the   *)
(* next change of it.)                                                     *)
LiveLinkIsFound ==
  \A a \in Actor :
    pc[a] = "missing" /\ expect[a] = "live" =>
      key[a] \in Legacy \/ \E p \in misread : token[p] = key[a]

(* A link that was rotated away or deleted before a download began is not  *)
(* served.                                                                 *)
NewLinksDie ==
  \A a \in Actor : pc[a] = "served" /\ key[a] \notin Legacy => expect[a] # "revoked"

(* Once the index is loaded and nobody is between a change and the index,  *)
(* every publication is in the index under its token.                      *)
IndexIsComplete ==
  loaded =>
    \A p \in Published \ misread :
      \/ index[token[p]] = p
      \/ token[p] \in Legacy
      \/ \E a \in Actor : found[a] = p /\ pc[a] = "reindex" /\ new[a] = token[p]

(* The same of every link (docs/security.md: the old token immediately     *)
(* returns 404).                                                           *)
OldTokenReturns404 ==
  \A a \in Actor : pc[a] = "served" => expect[a] # "revoked"
=============================================================================
