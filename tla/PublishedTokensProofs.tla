------------------------ MODULE PublishedTokensProofs ------------------------
(***************************************************************************)
(* Private links, for any number of downloads, changes, publications and   *)
(* tokens, under restarts and unreadable files at any step.                *)
(*                                                                         *)
(* The invariant LinkInv says what stale data may say: an entry of the     *)
(* index, the result of a scan under way, or the tokens that an actor      *)
(* holds between a change and the index.  The lemmas on what a step may    *)
(* change alone look at the actions; then there is one lemma per conjunct. *)
(***************************************************************************)
EXTENDS PublishedTokens, TLAPS

(* The constants are what they are named for.                              *)
ConstantsDiffer == NoPub \notin Pub /\ NoToken \notin Token /\ Legacy \subseteq Token

(* The tokens that this version drew or will draw.                         *)
Fresh == Token \ Legacy

(* The types that the proofs need.                                         *)
LinkTypes ==
  /\ token \in [Pub -> Token \cup {NoToken}]
  /\ legacyFiles \subseteq Legacy /\ legacyRefs \subseteq Legacy
  /\ index \in [Token -> Pub \cup {NoPub}] /\ loaded \in BOOLEAN
  /\ pc \in [Actor -> Stage]
  /\ key \in [Actor -> Token \cup {NoToken}]
  /\ old \in [Actor -> Token \cup {NoToken}]
  /\ new \in [Actor -> Token \cup {NoToken}]
  /\ found \in [Actor -> Pub \cup {NoPub}]
  /\ todo \in [Actor -> SUBSET Pub]
  /\ discovered \in [Actor -> SUBSET (Token \X Pub)]
  /\ binds \in [Actor -> BOOLEAN]
  /\ revoked \subseteq Token /\ misread \subseteq Pub
  /\ expect \in [Actor -> {"any", "live", "revoked"}]

(* The stages in which an actor will bring the index up to date.           *)
Indexing == {"reindex", "unindex", "fallbackIndex", "migrateIndex", "migrateReindex"}

(* Somewhere t is said to be the token of p.                               *)
Claimed(t, p) ==
  \/ token[p] = t
  \/ index[t] = p
  \/ \E a \in Actor : <<t, p>> \in discovered[a]
  \/ \E a \in Actor : pc[a] \in Indexing /\ found[a] = p /\ t \in {old[a], new[a]}

(* A fresh token belongs to one publication for good, and what is said of  *)
(* it in stale data is about the same publication.                         *)
OneOwner ==
  \A t \in Fresh, p \in Pub : Claimed(t, p) =>
    t \in drawn /\ \A q \in Pub : Claimed(t, q) => q = p

(* A token that is claimed for a publication that has another one now was  *)
(* revoked, and no publication has a revoked token.                        *)
RevokedAreDead ==
  /\ \A t \in Fresh, p \in Pub : Claimed(t, p) /\ token[p] # t => t \in revoked
  /\ \A t \in Fresh \cap revoked : t \in drawn /\ \A p \in Pub : token[p] # t

(* Publish IDs and tokens are not used twice.                              *)
DrawnOnce == Legacy \subseteq drawn /\ \A p \in Pub \ drawn : token[p] = NoToken

(* What an actor takes out of the index is revoked.                        *)
RemovesRevoked ==
  \A a \in Actor :
    /\ pc[a] \in Indexing /\ old[a] \in Fresh /\ (old[a] # new[a] \/ pc[a] = "unindex")
         => old[a] \in revoked
    /\ pc[a] \in {"drop", "dropAgain"} /\ key[a] \in Fresh
         => token[found[a]] # key[a] \/ found[a] \in misread

(* Migrations are about links of the earlier version, lookups about links  *)
(* that were drawn.                                                        *)
KeysAreKnown ==
  \A a \in Actor :
    /\ key[a] \in Fresh => key[a] \in drawn
    /\ binds[a] => key[a] \in Legacy
    /\ pc[a] = "idle" => new[a] = NoToken
    /\ pc[a] \in {"fallback", "fallbackIndex", "migrateIndex", "migrateUpdate",
                  "migrateReindex", "migrateDone", "bind"} => key[a] \in Legacy
    /\ pc[a] \in {"load", "loadAgain", "drop", "dropAgain", "reindex", "unindex", "fallbackIndex",
                  "migrateIndex", "migrateUpdate", "migrateReindex"} => found[a] \in Pub
    /\ pc[a] \in {"look", "lookAgain", "load", "loadAgain", "drop", "dropAgain", "ensure", "scan",
                  "legacy"} => key[a] \in Token

(* The change that gave p its token t is not in the index yet.             *)
Pending(t, p) ==
  \E a \in Actor : pc[a] = "reindex" /\ found[a] = p /\ new[a] = t /\ old[a] # t

(* p is still to be scanned, or was, by every scan under way.              *)
InEveryScan(t, p) == \A a \in Actor : pc[a] = "scan" => p \in todo[a] \/ <<t, p>> \in discovered[a]

(* Every fresh link is in the index once it is loaded, and will be after   *)
(* any of the scans under way.                                             *)
Indexed ==
  \A p \in Pub \ misread : token[p] \in Fresh =>
    \/ index[token[p]] = p
    \/ Pending(token[p], p)
    \/ ~loaded /\ InEveryScan(token[p], p)

(* A lookup that has to find a link is about one that exists and that its  *)
(* owner knows; one that has to fail, about a revoked one.                 *)
Expected ==
  \A a \in Actor :
    /\ pc[a] = "idle" => expect[a] = "any"
    /\ expect[a] = "revoked" => key[a] \in revoked
    /\ expect[a] = "live" => key[a] \in Token
    /\ expect[a] = "live" /\ key[a] \in Fresh =>
         /\ \E p \in Pub : token[p] = key[a]
         /\ \A p \in Pub : ~Pending(key[a], p)

(* The second look of a lookup finds a link that exists.                   *)
SecondLook ==
  \A a \in Actor :
    /\ pc[a] \in {"lookAgain", "loadAgain"} => loaded
    /\ expect[a] = "live" /\ key[a] \in Fresh =>
         \A p \in Pub \ misread : token[p] = key[a] =>
           /\ pc[a] \notin {"dropAgain", "legacy", "missing"}
           /\ pc[a] = "loadAgain" => found[a] = p

(* The inductive invariant.                                                *)
LinkInv ==
  /\ ConstantsDiffer /\ LinkTypes /\ OneOwner /\ RevokedAreDead /\ DrawnOnce /\ RemovesRevoked
  /\ KeysAreKnown /\ Indexed /\ Expected /\ SecondLook /\ NewLinksDie

-----------------------------------------------------------------------------
(* What a step may change.                                                 *)

(* The actions that write a token into a meta.json, or remove it.          *)
LEMMA NewTokens ==
  ASSUME LinkTypes, ConstantsDiffer, DrawnOnce, KeysAreKnown, NEW a \in Actor,
         Create(a) \/ MigrateLegacy(a) \/ Fallback(a), token' # token
  PROVE  \E p \in Pub \ drawn, t \in Token :
           /\ token' = [token EXCEPT ![p] = t] /\ drawn' = drawn \cup {p, t}
           /\ found' = [found EXCEPT ![a] = p]
           /\ old' = [old EXCEPT ![a] = NoToken] /\ new' = [new EXCEPT ![a] = t]
           /\ \/ t \notin drawn /\ pc' = [pc EXCEPT ![a] = "reindex"]
              \/ /\ t = key[a] /\ t \in Legacy
                 /\ \/ pc' = [pc EXCEPT ![a] = "migrateIndex"]
                    \/ pc' = [pc EXCEPT ![a] = "fallbackIndex"]
<1>1. CASE Create(a)
  BY <1>1 DEF Create, SaveNew, Goto
<1>2. CASE MigrateLegacy(a)
  BY <1>2 DEF MigrateLegacy, SaveNew, Goto, LinkTypes, ConstantsDiffer
<1>3. CASE Fallback(a)
  BY <1>3 DEF Fallback, SaveNew, Goto, KeysAreKnown, ConstantsDiffer
<1> QED
  BY <1>1, <1>2, <1>3

(* Where the two looks at the index lead.                                  *)
LEMMA LookSteps ==
  ASSUME NEW a \in Actor, Look(a)
  PROVE  /\ found' = [found EXCEPT ![a] = index[key[a]]]
         /\ UNCHANGED <<diskVars, indexVars, key, old, new, todo, discovered, binds, historyVars>>
         /\ found'[a] # NoPub =>
              \/ pc[a] = "look" /\ pc' = [pc EXCEPT ![a] = "load"]
              \/ pc[a] = "lookAgain" /\ pc' = [pc EXCEPT ![a] = "loadAgain"]
         /\ found'[a] = NoPub =>
              \/ pc[a] = "look" /\ pc' = [pc EXCEPT ![a] = "ensure"]
              \/ pc[a] = "lookAgain" /\ pc' = [pc EXCEPT ![a] = "legacy"]
BY Zenon DEF Look, Goto

(* Where a migration goes on once the index is up to date.                 *)
LEMMA IndexMigratedSteps ==
  ASSUME NEW a \in Actor, IndexMigrated(a)
  PROVE  \/ pc[a] = "fallbackIndex" /\ pc' = [pc EXCEPT ![a] = "bind"]
         \/ pc[a] = "migrateIndex" /\ pc' = [pc EXCEPT ![a] = "migrateUpdate"]
         \/ pc[a] = "migrateReindex" /\ pc' = [pc EXCEPT ![a] = "migrateDone"]
BY Zenon DEF IndexMigrated, Goto

(* A scan adds to the index what it discovered and replaces nothing.       *)
LEMMA MergeFills ==
  ASSUME LinkTypes, NEW a \in Actor, Merge(a)
  PROVE  /\ index' \in [Token -> Pub \cup {NoPub}]
         /\ \A t \in Token :
              \/ /\ index'[t] = index[t]
                 /\ index[t] = NoPub => \A p \in Pub : <<t, p>> \notin discovered[a]
              \/ index[t] = NoPub /\ index'[t] \in Pub /\ <<t, index'[t]>> \in discovered[a]
<1>1. /\ index \in [Token -> Pub \cup {NoPub}]
      /\ index' = [t \in Token |->
           IF index[t] = NoPub /\ \E p \in Pub : <<t, p>> \in discovered[a]
             THEN CHOOSE p \in Pub : <<t, p>> \in discovered[a]
             ELSE index[t]]
  BY DEF Merge, LinkTypes
<1>2. ASSUME NEW t \in Token, \E p \in Pub : <<t, p>> \in discovered[a]
      PROVE  /\ (CHOOSE p \in Pub : <<t, p>> \in discovered[a]) \in Pub
             /\ <<t, CHOOSE p \in Pub : <<t, p>> \in discovered[a]>> \in discovered[a]
  BY <1>2, Zenon
<1> QED
  BY <1>1, <1>2

(* What a change does to the index: the new token is found, and the old    *)
(* one is not if it was in the index for the same publication.             *)
LEMMA ReplaceSets ==
  ASSUME LinkTypes, NEW a \in Actor, Replace(a)
  PROVE  /\ index' \in [Token -> Pub \cup {NoPub}]
         /\ \A t \in Token :
              index'[t] = IF t = new[a] THEN found[a]
                          ELSE IF old[a] # new[a] /\ t = old[a] /\ index[t] = found[a] THEN NoPub
                          ELSE index[t]
<1>1. index \in [Token -> Pub \cup {NoPub}] /\ found[a] \in Pub \cup {NoPub}
  BY DEF LinkTypes
<1>2. CASE old[a] # new[a]
  BY <1>1, <1>2 DEF Replace, Without
<1>3. CASE old[a] = new[a]
  BY <1>1, <1>3 DEF Replace
<1> QED
  BY <1>2, <1>3

(* The types hold in the beginning.                                        *)
LEMMA TypesInit ==
  ASSUME ConstantsDiffer, Init
  PROVE  LinkTypes
BY DEF ConstantsDiffer, Init, LinkTypes, Stage

(* They are kept by every step.                                            *)
LEMMA TypesNext ==
  ASSUME LinkInv, [Next]_vars
  PROVE  LinkTypes'
<1> USE DEF LinkInv, LinkTypes, Goto, Return
<1>1. CASE UNCHANGED vars
  BY <1>1 DEF vars, diskVars, indexVars, actorVars, historyVars
<1>2. CASE Crash
  BY <1>2 DEF Crash, Stage, diskVars
<1>3. ASSUME NEW a \in Actor, Create(a) \/ MigrateLegacy(a) \/ Fallback(a)
      PROVE  LinkTypes'
  <2>1. CASE token' = token
    BY <1>3, <2>1 DEF Create, MigrateLegacy, Fallback, SaveNew, indexVars, Stage,
      ConstantsDiffer, KeysAreKnown
  <2>2. CASE token' # token
    <3>1. PICK p \in Pub, t \in Token :
            /\ token' = [token EXCEPT ![p] = t] /\ found' = [found EXCEPT ![a] = p]
            /\ old' = [old EXCEPT ![a] = NoToken] /\ new' = [new EXCEPT ![a] = t]
            /\ \E s \in Stage : pc' = [pc EXCEPT ![a] = s]
      BY <1>3, <2>2, NewTokens DEF Stage
    <3> QED
      BY <1>3, <3>1 DEF Create, MigrateLegacy, Fallback, indexVars
  <2> QED
    BY <2>1, <2>2
<1>4. ASSUME NEW a \in Actor, Rotate(a) \/ Update(a) \/ Delete(a)
      PROVE  LinkTypes'
  BY <1>4 DEF Rotate, Update, Delete, Revoke, Settled, Published, indexVars, diskVars,
    historyVars, Stage
<1>5. ASSUME NEW a \in Actor, Lookup(a) \/ BeginMigration(a) \/ Load(a) \/ Drop(a)
      PROVE  LinkTypes'
  <2>1. CASE Lookup(a)
    BY <2>1 DEF Lookup, Known, Stage, diskVars, indexVars
  <2>2. CASE BeginMigration(a)
    BY <2>2 DEF BeginMigration, Stage, ConstantsDiffer, diskVars, indexVars, historyVars
  <2>3. CASE Load(a)
    BY <2>3 DEF Load, Misread, Published, Stage, diskVars, indexVars, actorVars
  <2>4. CASE Drop(a)
    BY <2>4 DEF Drop, Without, Stage, diskVars, actorVars, historyVars
  <2> QED
    BY <1>5, <2>1, <2>2, <2>3, <2>4
<1>6. ASSUME NEW a \in Actor, Reindex(a) \/ Unindex(a)
      PROVE  LinkTypes'
  <2>1. index' \in [Token -> Pub \cup {NoPub}]
    BY <1>6, ReplaceSets DEF Reindex, Unindex, Without
  <2> QED
    BY <1>6, <2>1 DEF Reindex, Unindex, diskVars, Stage
<1>7. ASSUME NEW a \in Actor, Look(a)
      PROVE  LinkTypes'
  BY <1>7, LookSteps DEF KeysAreKnown, Stage, diskVars, indexVars, historyVars
<1>8. ASSUME NEW a \in Actor, IndexMigrated(a)
      PROVE  LinkTypes'
  BY <1>8, IndexMigratedSteps, ReplaceSets DEF IndexMigrated, diskVars, actorVars, historyVars,
    Stage
<1>9. ASSUME NEW a \in Actor, Ensure(a) \/ Scan(a)
      PROVE  LinkTypes'
  BY <1>9 DEF Ensure, Scan, Published, Misread, diskVars, indexVars, actorVars, historyVars, Stage
<1>10. ASSUME NEW a \in Actor, Merge(a)
      PROVE  LinkTypes'
  BY <1>10, MergeFills DEF Merge, diskVars, actorVars, historyVars, Stage
<1>11. ASSUME NEW a \in Actor, MigrateUpdate(a)
      PROVE  LinkTypes'
  BY <1>11 DEF MigrateUpdate, diskVars, indexVars, historyVars, Stage, KeysAreKnown
<1>12. ASSUME NEW a \in Actor, MigrateDone(a) \/ BindMigrated(a) \/ Answer(a)
      PROVE  LinkTypes'
  BY <1>12 DEF MigrateDone, BindMigrated, Answer, diskVars, indexVars, actorVars, historyVars, Stage
<1> QED
  BY <1>1, <1>2, <1>3, <1>4, <1>5, <1>6, <1>7, <1>8, <1>9, <1>10, <1>11, <1>12 DEF Next, Begin, Step

(* Histories grow, and only by a change of the token of a publication.     *)
Histories ==
  /\ drawn \subseteq drawn' /\ revoked \subseteq revoked' /\ misread \subseteq misread'
  /\ \A t \in revoked' \ revoked : \E p \in Pub : token[p] = t /\ token'[p] # t

(* A step changes the token of at most one publication: the old token was  *)
(* revoked then, and a new one that was not there before is not in the     *)
(* index yet.                                                              *)
TokenChanges ==
  \A p \in Pub : token'[p] # token[p] =>
    /\ p \in drawn'
    /\ \A q \in Pub \ {p} : token'[q] = token[q]
    /\ token[p] \in Token => token[p] \in revoked'
    /\ token'[p] \in Fresh =>
         token'[p] \notin drawn /\ token'[p] \in drawn' /\ Pending(token[p], p)'

LEMMA StepsOnTokens ==
  ASSUME LinkInv, [Next]_vars
  PROVE  Histories /\ TokenChanges
<1> USE DEF LinkInv, LinkTypes
<1>1. CASE UNCHANGED <<token, revoked, drawn>> /\ misread \subseteq misread'
  BY <1>1 DEF Histories, TokenChanges
<1>2. ASSUME NEW a \in Actor, Create(a) \/ MigrateLegacy(a) \/ Fallback(a)
      PROVE  Histories /\ TokenChanges
  <2>1. UNCHANGED <<revoked, misread>> /\ drawn \subseteq drawn'
    BY <1>2 DEF Create, MigrateLegacy, Fallback, SaveNew
  <2>2. CASE token' = token
    BY <2>1, <2>2 DEF Histories, TokenChanges
  <2>3. CASE token' # token
    <3>1. PICK p \in Pub \ drawn, t \in Token :
            /\ token' = [token EXCEPT ![p] = t] /\ drawn' = drawn \cup {p, t}
            /\ found' = [found EXCEPT ![a] = p]
            /\ old' = [old EXCEPT ![a] = NoToken] /\ new' = [new EXCEPT ![a] = t]
            /\ t \notin Legacy => t \notin drawn /\ pc' = [pc EXCEPT ![a] = "reindex"]
      BY <1>2, <2>3, NewTokens
    <3>2. token[p] = NoToken /\ NoToken \notin Token
      BY DEF DrawnOnce, ConstantsDiffer
    <3>3. t \in Fresh => Pending(token[p], p)'
      BY <3>1, <3>2 DEF Pending, Fresh
    <3> QED
      BY <2>1, <3>1, <3>2, <3>3 DEF Histories, TokenChanges, Fresh
  <2> QED
    BY <2>2, <2>3
<1>3. ASSUME NEW a \in Actor, Rotate(a)
      PROVE  Histories /\ TokenChanges
  <2>1. PICK p \in Pub, t \in Token \ drawn :
          /\ token[p] # NoToken
          /\ token' = [token EXCEPT ![p] = t] /\ drawn' = drawn \cup {t}
          /\ revoked' = revoked \cup {token[p]}
          /\ old' = [old EXCEPT ![a] = token[p]] /\ new' = [new EXCEPT ![a] = t]
          /\ found' = [found EXCEPT ![a] = p]
          /\ pc' = [pc EXCEPT ![a] = "reindex"] /\ UNCHANGED misread
    BY <1>3 DEF Rotate, Settled, Published, Revoke, Goto
  <2>2. p \in drawn
    BY <2>1 DEF DrawnOnce
  <2>3. t # token[p]
    BY <2>1 DEF DrawnOnce, OneOwner, Claimed, Fresh
  <2>4. Pending(token[p], p)'
    BY <2>1, <2>3 DEF Pending
  <2> QED
    BY <2>1, <2>2, <2>3, <2>4 DEF Histories, TokenChanges
<1>4. ASSUME NEW a \in Actor, Delete(a)
      PROVE  Histories /\ TokenChanges
  <2>1. PICK p \in Pub :
          /\ token[p] # NoToken
          /\ token' = [token EXCEPT ![p] = NoToken] /\ drawn' = drawn
          /\ revoked' = revoked \cup {token[p]} /\ UNCHANGED misread
    BY <1>4 DEF Delete, Settled, Published, Revoke
  <2>2. p \in drawn
    BY <2>1 DEF DrawnOnce
  <2> QED
    BY <2>1, <2>2 DEF Histories, TokenChanges, Fresh, ConstantsDiffer
<1>5. CASE UNCHANGED vars \/ Crash
  BY <1>5, <1>1 DEF vars, diskVars, historyVars, Crash
<1>6. ASSUME NEW a \in Actor,
             \/ Update(a) \/ Lookup(a) \/ BeginMigration(a) \/ Reindex(a) \/ Unindex(a)
             \/ Look(a) \/ Load(a)
      PROVE  Histories /\ TokenChanges
  BY <1>6, <1>1 DEF Update, Lookup, BeginMigration, Reindex, Unindex, Look, Load, Misread,
    diskVars, historyVars
<1>7. ASSUME NEW a \in Actor,
             \/ Drop(a) \/ Ensure(a) \/ Scan(a) \/ Merge(a) \/ IndexMigrated(a) \/ MigrateUpdate(a)
             \/ MigrateDone(a) \/ BindMigrated(a) \/ Answer(a)
      PROVE  Histories /\ TokenChanges
  BY <1>7, <1>1 DEF Drop, Ensure, Scan, Merge, IndexMigrated, MigrateUpdate, MigrateDone,
    BindMigrated, Answer,
                    Misread, diskVars, historyVars
<1> QED
  BY <1>2, <1>3, <1>4, <1>5, <1>6, <1>7 DEF Next, Begin, Step

(* A fresh token is claimed for another publication only when it is drawn. *)
ClaimChanges ==
  \A t \in Fresh, p \in Pub : Claimed(t, p)' => Claimed(t, p) \/ (t \notin drawn /\ token'[p] = t)

LEMMA StepsOnClaims ==
  ASSUME LinkInv, [Next]_vars
  PROVE  ClaimChanges
<1> USE DEF LinkInv, LinkTypes, Goto, Return, Fresh, Indexing
<1> SUFFICES ASSUME NEW t \in Fresh, NEW p \in Pub, Claimed(t, p)'
             PROVE  Claimed(t, p) \/ (t \notin drawn /\ token'[p] = t)
  BY DEF ClaimChanges
<1>0. NoToken # t /\ NoPub # p
  BY DEF ConstantsDiffer
<1>1. CASE UNCHANGED <<token, index, discovered, pc, found, old, new>>
  BY <1>1 DEF Claimed
<1>2. CASE UNCHANGED vars
  BY <1>1, <1>2 DEF vars, diskVars, indexVars, actorVars
<1>3. CASE Crash
  BY <1>0, <1>3 DEF Crash, Claimed, diskVars
<1>4. ASSUME NEW a \in Actor, Create(a) \/ MigrateLegacy(a) \/ Fallback(a)
      PROVE  Claimed(t, p) \/ (t \notin drawn /\ token'[p] = t)
  <2>1. UNCHANGED <<index, discovered>>
    BY <1>4 DEF Create, MigrateLegacy, Fallback, indexVars
  <2>2. CASE token' = token
    <3>1. UNCHANGED <<found, old, new>> /\ \E s \in {"fallback", "missing"} : pc' = [pc EXCEPT ![a] = s]
      BY <1>4, <2>2 DEF Create, MigrateLegacy, Fallback, SaveNew, DrawnOnce, ConstantsDiffer,
        KeysAreKnown
    <3> QED
      BY <2>1, <2>2, <3>1 DEF Claimed
  <2>3. CASE token' # token
    <3>1. PICK q \in Pub \ drawn, u \in Token :
            /\ token' = [token EXCEPT ![q] = u]
            /\ found' = [found EXCEPT ![a] = q]
            /\ old' = [old EXCEPT ![a] = NoToken] /\ new' = [new EXCEPT ![a] = u]
            /\ u \notin Legacy => u \notin drawn
            /\ \E s \in Indexing : pc' = [pc EXCEPT ![a] = s]
      BY <1>4, <2>3, NewTokens
    <3> QED
      BY <1>0, <2>1, <3>1 DEF Claimed
  <2> QED
    BY <2>2, <2>3
<1>5. ASSUME NEW a \in Actor, Rotate(a)
      PROVE  Claimed(t, p) \/ (t \notin drawn /\ token'[p] = t)
  <2>1. PICK q \in Pub, u \in Token \ drawn :
          /\ token' = [token EXCEPT ![q] = u]
          /\ old' = [old EXCEPT ![a] = token[q]] /\ new' = [new EXCEPT ![a] = u]
          /\ found' = [found EXCEPT ![a] = q]
          /\ pc' = [pc EXCEPT ![a] = "reindex"] /\ UNCHANGED <<index, discovered>>
    BY <1>5 DEF Rotate, Settled, Published, indexVars
  <2> QED
    BY <1>0, <2>1 DEF Claimed
<1>6. ASSUME NEW a \in Actor, Update(a) \/ MigrateUpdate(a)
      PROVE  Claimed(t, p) \/ (t \notin drawn /\ token'[p] = t)
  <2>1. PICK q \in Pub, s \in Indexing :
          /\ old' = [old EXCEPT ![a] = token[q]] /\ new' = [new EXCEPT ![a] = token[q]]
          /\ found' = [found EXCEPT ![a] = q]
          /\ pc' = [pc EXCEPT ![a] = s] /\ UNCHANGED <<token, index, discovered>>
    <3>1. CASE Update(a)
      BY <3>1 DEF Update, Published, indexVars, diskVars
    <3>2. CASE MigrateUpdate(a)
      <4>1. found[a] \in Pub /\ found' = [found EXCEPT ![a] = found[a]]
        BY <3>2 DEF MigrateUpdate, KeysAreKnown
      <4> QED
        BY <3>2, <4>1 DEF MigrateUpdate, indexVars, diskVars
    <3> QED
      BY <1>6, <3>1, <3>2
  <2> QED
    BY <1>0, <2>1 DEF Claimed
<1>7. ASSUME NEW a \in Actor, Delete(a)
      PROVE  Claimed(t, p) \/ (t \notin drawn /\ token'[p] = t)
  <2>1. PICK q \in Pub :
          /\ token' = [token EXCEPT ![q] = NoToken] /\ old' = [old EXCEPT ![a] = token[q]]
          /\ found' = [found EXCEPT ![a] = q] /\ pc' = [pc EXCEPT ![a] = "unindex"]
          /\ UNCHANGED <<index, discovered, new>>
    BY <1>7 DEF Delete, Settled, Published, indexVars
  <2>2. new[a] = NoToken
    BY <1>7 DEF Delete, KeysAreKnown
  <2> QED
    BY <1>0, <2>1, <2>2 DEF Claimed
<1>8. ASSUME NEW a \in Actor, Reindex(a) \/ IndexMigrated(a)
      PROVE  Claimed(t, p) \/ (t \notin drawn /\ token'[p] = t)
  <2>1. /\ UNCHANGED token
        /\ pc[a] \in Indexing /\ Replace(a)
        /\ \A d \in Token \X Pub : d \in discovered'[a] => d \in discovered[a]
        /\ \A b \in Actor \ {a} : /\ pc'[b] = pc[b] /\ found'[b] = found[b] /\ old'[b] = old[b]
                                  /\ new'[b] = new[b] /\ discovered'[b] = discovered[b]
        /\ found'[a] \in {found[a], NoPub} /\ old'[a] \in {old[a], NoToken}
        /\ new'[a] \in {new[a], NoToken}
    <3>1. CASE Reindex(a)
      BY <3>1 DEF Reindex, diskVars
    <3>2. CASE IndexMigrated(a)
      BY <3>2, IndexMigratedSteps DEF IndexMigrated, diskVars, actorVars
    <3> QED
      BY <1>8, <3>1, <3>2
  <2>2. index'[t] = p => Claimed(t, p)
    BY <1>0, <2>1, ReplaceSets DEF Claimed
  <2> QED
    BY <1>0, <2>1, <2>2 DEF Claimed
<1>9. ASSUME NEW a \in Actor, Unindex(a) \/ Drop(a)
      PROVE  Claimed(t, p) \/ (t \notin drawn /\ token'[p] = t)
  <2>1. CASE Unindex(a)
    BY <1>0, <2>1 DEF Unindex, Without, Claimed, diskVars
  <2>2. CASE Drop(a)
    BY <1>0, <2>2 DEF Drop, Without, Claimed, diskVars, actorVars
  <2> QED
    BY <1>9, <2>1, <2>2
<1>10. ASSUME NEW a \in Actor, Scan(a)
      PROVE  Claimed(t, p) \/ (t \notin drawn /\ token'[p] = t)
  BY <1>10 DEF Scan, Published, Claimed, diskVars, indexVars
<1>11. ASSUME NEW a \in Actor, Merge(a)
      PROVE  Claimed(t, p) \/ (t \notin drawn /\ token'[p] = t)
  <2>1. /\ UNCHANGED <<token, discovered, found, old, new>>
        /\ pc[a] = "scan" /\ pc' = [pc EXCEPT ![a] = "lookAgain"]
    BY <1>11 DEF Merge, diskVars, actorVars
  <2>2. index'[t] = p => index[t] = p \/ <<t, p>> \in discovered[a]
    BY <1>11, MergeFills
  <2> QED
    BY <2>1, <2>2 DEF Claimed
<1>12. ASSUME NEW a \in Actor, Look(a)
      PROVE  Claimed(t, p) \/ (t \notin drawn /\ token'[p] = t)
  BY <1>12, LookSteps DEF Claimed, diskVars, indexVars
<1>13. ASSUME NEW a \in Actor, Lookup(a) \/ BeginMigration(a) \/ Load(a) \/ Ensure(a)
      PROVE  Claimed(t, p) \/ (t \notin drawn /\ token'[p] = t)
  BY <1>13 DEF Lookup, BeginMigration, Load, Ensure, Claimed, diskVars, indexVars, actorVars
<1>14. ASSUME NEW a \in Actor, MigrateDone(a) \/ BindMigrated(a) \/ Answer(a)
      PROVE  Claimed(t, p) \/ (t \notin drawn /\ token'[p] = t)
  BY <1>14 DEF MigrateDone, BindMigrated, Answer, Claimed, diskVars, indexVars, actorVars
<1> QED
  BY <1>2, <1>3, <1>4, <1>5, <1>6, <1>7, <1>8, <1>9, <1>10, <1>11, <1>12, <1>13, <1>14
     DEF Next, Begin, Step

-----------------------------------------------------------------------------
(* The conjuncts of the invariant.                                         *)

(* A fresh token keeps its owner.                                          *)
LEMMA OwnersStay ==
  ASSUME LinkInv, [Next]_vars
  PROVE  OneOwner'
<1>1. ClaimChanges /\ Histories /\ TokenChanges
  BY StepsOnClaims, StepsOnTokens
<1>2. SUFFICES ASSUME NEW t \in Fresh, NEW p \in Pub, NEW q \in Pub, Claimed(t, p)'
               PROVE  t \in drawn' /\ (Claimed(t, q)' => q = p)
  BY DEF OneOwner, Fresh
<1>3. \A r \in Pub : token[r] = t => Claimed(t, r)
  BY DEF Claimed
<1>4. CASE Claimed(t, p)
  BY <1>1, <1>4 DEF LinkInv, OneOwner, ClaimChanges, Histories
<1>5. CASE t \notin drawn /\ token'[p] = t
  <2>1. token'[p] # token[p] /\ \A r \in Pub : ~Claimed(t, r)
    BY <1>3, <1>5 DEF LinkInv, OneOwner
  <2>2. t \in drawn' /\ \A r \in Pub \ {p} : token'[r] = token[r]
    BY <1>1, <1>5, <2>1 DEF TokenChanges
  <2> QED
    BY <1>1, <1>3, <2>1, <2>2 DEF ClaimChanges
<1> QED
  BY <1>1, <1>2, <1>4, <1>5 DEF ClaimChanges

(* Revoked tokens stay dead.                                               *)
LEMMA RevokedStayDead ==
  ASSUME LinkInv, [Next]_vars
  PROVE  RevokedAreDead' /\ DrawnOnce'
<1>1. ClaimChanges /\ Histories /\ TokenChanges /\ LinkTypes
  BY StepsOnClaims, StepsOnTokens DEF LinkInv
<1>2. \A t \in Fresh, p \in Pub : token[p] = t => Claimed(t, p)
  BY DEF Claimed
<1>3. ASSUME NEW t \in Fresh, NEW p \in Pub, Claimed(t, p)', token'[p] # t
      PROVE  t \in revoked'
  BY <1>1, <1>3 DEF ClaimChanges, Histories, TokenChanges, LinkInv, RevokedAreDead, Fresh
<1>4. ASSUME NEW t \in Fresh \cap revoked', NEW p \in Pub
      PROVE  t \in drawn' /\ token'[p] # t
  <2>1. CASE t \in revoked
    BY <1>1, <2>1 DEF Histories, TokenChanges, LinkInv, RevokedAreDead
  <2>2. CASE t \notin revoked
    <3>1. PICK q \in Pub : token[q] = t /\ token'[q] # t
      BY <1>1, <2>2 DEF Histories
    <3>2. t \in drawn /\ \A r \in Pub : token[r] = t => r = q
      BY <1>2, <3>1 DEF LinkInv, OneOwner
    <3> QED
      BY <1>1, <3>1, <3>2 DEF Histories, TokenChanges
  <2> QED
    BY <2>1, <2>2
<1>5. CASE Pub = {}
  BY <1>1, <1>5 DEF RevokedAreDead, DrawnOnce, Histories, LinkInv
<1>6. CASE Pub # {}
  BY <1>1, <1>3, <1>4, <1>6 DEF RevokedAreDead, DrawnOnce, Histories, TokenChanges, LinkInv, Fresh
<1> QED
  BY <1>5, <1>6

(* Actors keep knowing what they are about.                                *)
LEMMA KeysStayKnown ==
  ASSUME LinkInv, [Next]_vars
  PROVE  KeysAreKnown'
<1> USE DEF LinkInv, LinkTypes, Goto, Return, KeysAreKnown, Fresh
<1>0. drawn \subseteq drawn' /\ NoToken \notin Token /\ NoPub \notin Pub /\ Legacy \subseteq Token
  BY StepsOnTokens DEF Histories, ConstantsDiffer
<1>1. CASE UNCHANGED vars
  BY <1>0, <1>1 DEF vars, actorVars
<1>2. CASE Crash
  BY <1>0, <1>2 DEF Crash
<1>3. ASSUME NEW a \in Actor, Create(a)
      PROVE  KeysAreKnown'
  BY <1>0, <1>3 DEF Create, SaveNew
<1>4. ASSUME NEW a \in Actor, MigrateLegacy(a)
      PROVE  KeysAreKnown'
  <2>1. CASE key[a] \in legacyFiles /\ SaveNew(a, key[a], "migrateIndex")
    BY <1>0, <1>4, <2>1 DEF MigrateLegacy, SaveNew
  <2>2. CASE /\ pc' = [pc EXCEPT ![a] = IF binds[a] THEN "fallback" ELSE "missing"]
             /\ UNCHANGED <<found, new>>
    BY <1>0, <1>4, <2>2 DEF MigrateLegacy
  <2> QED
    BY <1>4, <2>1, <2>2 DEF MigrateLegacy
<1>5. ASSUME NEW a \in Actor, Fallback(a)
      PROVE  KeysAreKnown'
  BY <1>0, <1>5 DEF Fallback, SaveNew
<1>6. ASSUME NEW a \in Actor, Rotate(a) \/ Update(a) \/ Delete(a)
      PROVE  KeysAreKnown'
  <2>1. CASE Rotate(a)
    BY <1>0, <2>1 DEF Rotate, Settled, Published
  <2>2. CASE Update(a)
    BY <1>0, <2>2 DEF Update, Published
  <2>3. CASE Delete(a)
    BY <1>0, <2>3 DEF Delete, Settled, Published
  <2> QED
    BY <1>6, <2>1, <2>2, <2>3
<1>7. ASSUME NEW a \in Actor, Lookup(a) \/ BeginMigration(a)
      PROVE  KeysAreKnown'
  <2>1. CASE Lookup(a)
    BY <1>0, <2>1 DEF Lookup, Known
  <2>2. CASE BeginMigration(a)
    BY <1>0, <2>2 DEF BeginMigration
  <2> QED
    BY <1>7, <2>1, <2>2
<1>8. ASSUME NEW a \in Actor, Look(a)
      PROVE  KeysAreKnown'
  <2>1. index[key[a]] \in Pub \cup {NoPub}
    BY <1>8, LookSteps
  <2> QED
    BY <1>0, <1>8, <2>1, LookSteps DEF actorVars
<1>9. ASSUME NEW a \in Actor, Load(a) \/ Drop(a) \/ Ensure(a) \/ Scan(a)
      PROVE  KeysAreKnown'
  BY <1>0, <1>9 DEF Load, Drop, Ensure, Scan, actorVars, historyVars
<1>10. ASSUME NEW a \in Actor, Merge(a)
       PROVE  KeysAreKnown'
  <2>1. pc[a] = "scan" /\ pc' = [pc EXCEPT ![a] = "lookAgain"] /\ UNCHANGED actorVars
    BY <1>10 DEF Merge
  <2> QED
    BY <1>0, <2>1 DEF actorVars
<1>11. ASSUME NEW a \in Actor, IndexMigrated(a)
       PROVE  KeysAreKnown'
  <2>1. UNCHANGED actorVars
    BY <1>11 DEF IndexMigrated
  <2> QED
    BY <1>0, <1>11, <2>1, IndexMigratedSteps DEF actorVars
<1>12. ASSUME NEW a \in Actor, MigrateUpdate(a)
       PROVE  KeysAreKnown'
  <2>1. token[found[a]] \in Token \cup {NoToken}
    BY <1>12 DEF MigrateUpdate
  <2> QED
    BY <1>0, <1>12, <2>1 DEF MigrateUpdate
<1>13. ASSUME NEW a \in Actor, Reindex(a) \/ Unindex(a) \/ BindMigrated(a) \/ Answer(a)
       PROVE  KeysAreKnown'
  BY <1>0, <1>13 DEF Reindex, Unindex, BindMigrated, Answer
<1>14. ASSUME NEW a \in Actor, MigrateDone(a)
       PROVE  KeysAreKnown'
  BY <1>0, <1>14 DEF MigrateDone, actorVars
<1> QED
  BY <1>1, <1>2, <1>3, <1>4, <1>5, <1>6, <1>7, <1>8, <1>9, <1>10, <1>11, <1>12, <1>13, <1>14
     DEF Next, Begin, Step

(* What is taken out of the index goes on to be revoked.                   *)
LEMMA RemovalsStayRevoked ==
  ASSUME LinkInv, [Next]_vars
  PROVE  \A b \in Actor :
           pc'[b] \in Indexing /\ old'[b] \in Fresh /\ (old'[b] # new'[b] \/ pc'[b] = "unindex")
             => old'[b] \in revoked'
<1> USE DEF LinkInv, LinkTypes, Goto, Return, Fresh, Indexing
<1> DEFINE Stay == \A b \in Actor :
           pc'[b] \in Indexing /\ old'[b] \in Fresh /\ (old'[b] # new'[b] \/ pc'[b] = "unindex")
             => old'[b] \in revoked'
<1>0. revoked \subseteq revoked' /\ NoToken \notin Token
  BY StepsOnTokens DEF Histories, ConstantsDiffer
<1>1. CASE UNCHANGED vars
  BY <1>0, <1>1 DEF vars, actorVars, RemovesRevoked
<1>2. CASE Crash
  BY <1>2 DEF Crash
<1>3. ASSUME NEW a \in Actor, NEW s, s \notin Indexing, pc' = [pc EXCEPT ![a] = s],
             \A b \in Actor \ {a} : old'[b] = old[b] /\ new'[b] = new[b]
      PROVE  Stay
  BY <1>0, <1>3 DEF RemovesRevoked
<1>4. ASSUME NEW a \in Actor, Create(a) \/ Fallback(a)
      PROVE  Stay
  BY <1>0, <1>4 DEF Create, Fallback, SaveNew, RemovesRevoked
<1>5. ASSUME NEW a \in Actor, MigrateLegacy(a)
      PROVE  Stay
  BY <1>0, <1>5 DEF MigrateLegacy, SaveNew, RemovesRevoked
<1>6. ASSUME NEW a \in Actor, Rotate(a)
      PROVE  Stay
  BY <1>0, <1>6 DEF Rotate, Revoke, RemovesRevoked
<1>7. ASSUME NEW a \in Actor, Update(a) \/ MigrateUpdate(a)
      PROVE  Stay
  BY <1>0, <1>7 DEF Update, MigrateUpdate, RemovesRevoked
<1>8. ASSUME NEW a \in Actor, Delete(a)
      PROVE  Stay
  BY <1>0, <1>8 DEF Delete, Revoke, RemovesRevoked
<1>9. ASSUME NEW a \in Actor, Look(a) \/ Merge(a)
      PROVE  Stay
  <2>1. CASE Look(a)
    BY <1>3, <2>1, LookSteps
  <2>2. CASE Merge(a)
    BY <1>3, <2>2 DEF Merge, actorVars
  <2> QED
    BY <1>9, <2>1, <2>2
<1>10. ASSUME NEW a \in Actor, IndexMigrated(a)
       PROVE  Stay
  <2>1. UNCHANGED actorVars
    BY <1>10 DEF IndexMigrated
  <2> QED
    BY <1>3, <1>10, <2>1, IndexMigratedSteps DEF actorVars
<1>11. ASSUME NEW a \in Actor, Lookup(a) \/ BeginMigration(a) \/ Load(a) \/ Drop(a) \/ Ensure(a) \/ Scan(a)
       PROVE  Stay
  BY <1>0, <1>11 DEF Lookup, BeginMigration, Load, Drop, Ensure, Scan, RemovesRevoked, actorVars
<1>12. ASSUME NEW a \in Actor,
              Reindex(a) \/ Unindex(a) \/ MigrateDone(a) \/ BindMigrated(a) \/ Answer(a)
       PROVE  Stay
  BY <1>0, <1>12 DEF Reindex, Unindex, MigrateDone, BindMigrated, Answer, RemovesRevoked, actorVars
<1> QED
  BY <1>1, <1>2, <1>4, <1>5, <1>6, <1>7, <1>8, <1>9, <1>10, <1>11, <1>12 DEF Next, Begin, Step

(* How an actor comes to take an entry out of the index that did not fit:  *)
(* its meta.json did not have the token, or could not be read.             *)
LEMMA DropsComeFromLoad ==
  ASSUME LinkInv, [Next]_vars, NEW b \in Actor, pc'[b] \in {"drop", "dropAgain"}
  PROVE  /\ key'[b] = key[b] /\ found'[b] = found[b] /\ expect'[b] \in {expect[b], "any"}
         /\ \/ pc[b] = pc'[b]
            \/ /\ pc[b] \in {"load", "loadAgain"} /\ UNCHANGED token
               /\ pc'[b] = "dropAgain" => pc[b] = "loadAgain"
               /\ token[found[b]] # key[b] \/ found[b] \in misread'
<1> USE DEF LinkInv, LinkTypes, Goto, Return
<1>1. CASE UNCHANGED vars
  BY <1>1 DEF vars, actorVars, historyVars
<1>2. CASE Crash
  BY <1>2 DEF Crash
<1>3. ASSUME NEW a \in Actor, Create(a) \/ Fallback(a) \/ MigrateLegacy(a)
      PROVE  /\ key'[b] = key[b] /\ found'[b] = found[b] /\ expect'[b] = expect[b]
             /\ pc[b] = pc'[b]
  <2>1. a # b /\ UNCHANGED <<key, expect>> /\ pc'[b] = pc[b] /\ found'[b] = found[b]
    BY <1>3 DEF Create, Fallback, MigrateLegacy, SaveNew
  <2> QED
    BY <2>1
<1>4. ASSUME NEW a \in Actor, Rotate(a) \/ Update(a) \/ Delete(a)
      PROVE  /\ key'[b] = key[b] /\ found'[b] = found[b] /\ expect'[b] \in {expect[b], "any"}
             /\ pc[b] = pc'[b]
  BY <1>4 DEF Rotate, Update, Delete, Revoke, historyVars
<1>5. ASSUME NEW a \in Actor, Lookup(a) \/ BeginMigration(a) \/ Drop(a) \/ Ensure(a) \/ Scan(a)
      PROVE  /\ key'[b] = key[b] /\ found'[b] = found[b] /\ expect'[b] = expect[b]
             /\ pc[b] = pc'[b]
  BY <1>5 DEF Lookup, BeginMigration, Drop, Ensure, Scan, historyVars, actorVars
<1>6. ASSUME NEW a \in Actor, Look(a)
      PROVE  /\ key'[b] = key[b] /\ found'[b] = found[b] /\ expect'[b] = expect[b]
             /\ pc[b] = pc'[b]
  BY <1>6, LookSteps DEF historyVars
<1>7. ASSUME NEW a \in Actor, Merge(a) \/ IndexMigrated(a)
      PROVE  /\ key'[b] = key[b] /\ found'[b] = found[b] /\ expect'[b] = expect[b]
             /\ pc[b] = pc'[b]
  <2>1. UNCHANGED <<actorVars, historyVars>>
    BY <1>7 DEF Merge, IndexMigrated
  <2>2. \E s \in {"lookAgain", "bind", "migrateUpdate", "migrateDone"} : pc' = [pc EXCEPT ![a] = s]
    BY <1>7, IndexMigratedSteps DEF Merge
  <2> QED
    BY <2>1, <2>2 DEF actorVars, historyVars
<1>8. ASSUME NEW a \in Actor,
             \/ Reindex(a) \/ Unindex(a) \/ MigrateUpdate(a) \/ MigrateDone(a) \/ BindMigrated(a)
             \/ Answer(a)
      PROVE  /\ key'[b] = key[b] /\ found'[b] = found[b] /\ expect'[b] = expect[b]
             /\ pc[b] = pc'[b]
  BY <1>8 DEF Reindex, Unindex, MigrateUpdate, MigrateDone, BindMigrated, Answer, historyVars,
    actorVars
<1>9. ASSUME NEW a \in Actor, Load(a)
      PROVE  /\ key'[b] = key[b] /\ found'[b] = found[b] /\ expect'[b] = expect[b]
             /\ \/ pc[b] = pc'[b]
                \/ /\ pc[b] \in {"load", "loadAgain"} /\ UNCHANGED token
                   /\ pc'[b] = "dropAgain" => pc[b] = "loadAgain"
                   /\ token[found[b]] # key[b] \/ found[b] \in misread'
  BY <1>9 DEF Load, Misread, actorVars, diskVars
<1> QED
  BY <1>1, <1>2, <1>3, <1>4, <1>5, <1>6, <1>7, <1>8, <1>9 DEF Next, Begin, Step

(* What leaves the index is revoked, or did not fit.                       *)
LEMMA RemovesStayRevoked ==
  ASSUME LinkInv, [Next]_vars
  PROVE  RemovesRevoked'
<1>1. ASSUME NEW b \in Actor, pc'[b] \in {"drop", "dropAgain"}, key'[b] \in Fresh
      PROVE  token'[found'[b]] # key'[b] \/ found'[b] \in misread'
  <2>1. /\ key'[b] = key[b] /\ found'[b] = found[b] /\ found[b] \in Pub
        /\ key[b] \in Fresh /\ key[b] \in drawn /\ misread \subseteq misread'
    BY <1>1, DropsComeFromLoad, StepsOnTokens DEF LinkInv, KeysAreKnown, Histories
  <2>2. token[found[b]] # key[b] \/ found[b] \in misread'
    BY <1>1, <2>1, DropsComeFromLoad DEF LinkInv, RemovesRevoked
  <2> QED
    BY <2>1, <2>2, StepsOnTokens DEF TokenChanges
<1> QED
  BY <1>1, RemovalsStayRevoked DEF RemovesRevoked, Fresh

(* An entry of the index of a link that exists stays, until a restart.     *)
LEMMA EntriesStay ==
  ASSUME LinkInv, [Next]_vars, NEW p \in Pub \ misread', NEW t \in Fresh,
         token[p] = t, token'[p] = t, index[t] = p
  PROVE  index'[t] = p \/ (~loaded' /\ \A b \in Actor : pc'[b] = "idle")
<1>0. /\ p \notin misread /\ t \notin revoked /\ t \in Token /\ p # NoPub
      /\ \A q \in Pub : Claimed(t, q) => q = p
  BY StepsOnTokens DEF Histories, LinkInv, RevokedAreDead, OneOwner, Claimed, Fresh, ConstantsDiffer
<1> USE DEF LinkInv, LinkTypes
<1>1. CASE UNCHANGED index
  BY <1>1
<1>2. CASE Crash
  BY <1>2 DEF Crash
<1>3. ASSUME NEW a \in Actor,
             pc[a] \in {"reindex", "fallbackIndex", "migrateIndex", "migrateReindex"},
             Replace(a)
      PROVE  index'[t] = p
  <2>1. found[a] \in Pub /\ (t \in {old[a], new[a]} => found[a] = p)
    BY <1>0, <1>3 DEF KeysAreKnown, Claimed, Indexing
  <2>2. old[a] = t => old[a] = new[a]
    BY <1>0, <1>3 DEF RemovesRevoked, Indexing
  <2> QED
    BY <1>0, <1>3, <2>1, <2>2, ReplaceSets
<1>4. ASSUME NEW a \in Actor, Reindex(a) \/ IndexMigrated(a)
      PROVE  index'[t] = p
  BY <1>3, <1>4 DEF Reindex, IndexMigrated
<1>5. ASSUME NEW a \in Actor, Unindex(a)
      PROVE  index'[t] = p
  <2>1. old[a] # t
    BY <1>0, <1>5 DEF Unindex, RemovesRevoked, Indexing
  <2> QED
    BY <1>0, <1>5, <2>1 DEF Unindex, Without
<1>6. ASSUME NEW a \in Actor, Drop(a)
      PROVE  index'[t] = p
  <2>1. key[a] # t \/ found[a] # p
    BY <1>0, <1>6 DEF Drop, RemovesRevoked
  <2> QED
    BY <1>0, <1>6, <2>1 DEF Drop, Without
<1>7. ASSUME NEW a \in Actor, Merge(a)
      PROVE  index'[t] = p
  BY <1>0, <1>7, MergeFills
<1>8. ASSUME NEW a \in Actor, Begin(a)
      PROVE  UNCHANGED index
  BY <1>8 DEF Begin, Create, Rotate, Update, Delete, Lookup, BeginMigration, indexVars
<1>9. ASSUME NEW a \in Actor,
             \/ Look(a) \/ Load(a) \/ Ensure(a) \/ Scan(a) \/ MigrateLegacy(a) \/ Fallback(a)
             \/ MigrateUpdate(a) \/ MigrateDone(a) \/ BindMigrated(a) \/ Answer(a)
      PROVE  UNCHANGED index
  BY <1>9 DEF Look, Load, Ensure, Scan, MigrateLegacy, Fallback, MigrateUpdate, MigrateDone,
              BindMigrated, Answer, indexVars
<1> QED
  BY <1>1, <1>2, <1>4, <1>5, <1>6, <1>7, <1>8, <1>9 DEF Next, Step, vars, indexVars

(* A change that is not in the index yet comes into the index.             *)
LEMMA PendingComes ==
  ASSUME LinkInv, [Next]_vars, NEW p \in Pub, NEW t \in Fresh, Pending(t, p)
  PROVE  \/ Pending(t, p)' \/ index'[t] = p
         \/ ~loaded' /\ \A b \in Actor : pc'[b] = "idle"
<1> USE DEF LinkInv, LinkTypes, Goto
<1>0. PICK b \in Actor : pc[b] = "reindex" /\ found[b] = p /\ new[b] = t /\ old[b] # t
  BY DEF Pending
<1>1. CASE pc'[b] = pc[b] /\ found'[b] = found[b] /\ new'[b] = new[b] /\ old'[b] = old[b]
  BY <1>0, <1>1 DEF Pending
<1>2. CASE Crash
  BY <1>2 DEF Crash
<1>3. CASE UNCHANGED vars
  BY <1>1, <1>3 DEF vars, actorVars
<1>4. ASSUME NEW a \in Actor, Reindex(a), a = b
      PROVE  index'[t] = p
  BY <1>0, <1>4, ReplaceSets DEF Reindex, Fresh
<1>5. ASSUME NEW a \in Actor, Begin(a)
      PROVE  pc'[b] = pc[b] /\ found'[b] = found[b] /\ new'[b] = new[b] /\ old'[b] = old[b]
  BY <1>0, <1>5 DEF Begin, Create, SaveNew, Rotate, Update, Delete, Lookup, BeginMigration
<1>6. ASSUME NEW a \in Actor, Reindex(a), a # b
      PROVE  pc'[b] = pc[b] /\ found'[b] = found[b] /\ new'[b] = new[b] /\ old'[b] = old[b]
  BY <1>6 DEF Reindex, Return
<1>7. ASSUME NEW a \in Actor, Look(a) \/ Merge(a) \/ IndexMigrated(a)
      PROVE  pc'[b] = pc[b] /\ found'[b] = found[b] /\ new'[b] = new[b] /\ old'[b] = old[b]
  <2>1. CASE Look(a)
    BY <1>0, <2>1, LookSteps
  <2>2. CASE Merge(a)
    BY <1>0, <2>2 DEF Merge, actorVars
  <2>3. CASE IndexMigrated(a)
    <3>1. UNCHANGED actorVars
      BY <2>3 DEF IndexMigrated
    <3> QED
      BY <1>0, <2>3, <3>1, IndexMigratedSteps DEF actorVars
  <2> QED
    BY <1>7, <2>1, <2>2, <2>3
<1>8. ASSUME NEW a \in Actor, Unindex(a) \/ Load(a) \/ Drop(a) \/ Ensure(a) \/ Scan(a) \/ Answer(a)
      PROVE  pc'[b] = pc[b] /\ found'[b] = found[b] /\ new'[b] = new[b] /\ old'[b] = old[b]
  BY <1>0, <1>8 DEF Unindex, Load, Drop, Ensure, Scan, Answer, Return, actorVars
<1>9. ASSUME NEW a \in Actor,
             MigrateLegacy(a) \/ Fallback(a) \/ MigrateUpdate(a) \/ MigrateDone(a) \/ BindMigrated(a)
      PROVE  pc'[b] = pc[b] /\ found'[b] = found[b] /\ new'[b] = new[b] /\ old'[b] = old[b]
  BY <1>0, <1>9 DEF MigrateLegacy, Fallback, SaveNew, MigrateUpdate, MigrateDone, BindMigrated,
                    Return, actorVars
<1> QED
  BY <1>1, <1>2, <1>3, <1>4, <1>5, <1>6, <1>7, <1>8, <1>9 DEF Next, Step

(* A scan finds every link that exists.                                    *)
LEMMA ScansFind ==
  ASSUME LinkInv, [Next]_vars, NEW p \in Pub \ misread', NEW t \in Fresh,
         token[p] = t, token'[p] = t, ~loaded, InEveryScan(t, p)
  PROVE  index'[t] = p \/ (~loaded' /\ InEveryScan(t, p)')
<1> USE DEF LinkInv, LinkTypes, Goto
<1>0. /\ t \in Token /\ p # NoPub /\ t # NoToken /\ \A q \in Pub : Claimed(t, q) => q = p
  <2>1. Claimed(t, p)
    BY DEF Claimed
  <2> QED
    BY <2>1 DEF OneOwner, Fresh, ConstantsDiffer
<1>1. CASE UNCHANGED loaded /\ \A b \in Actor : pc'[b] = "scan" =>
             pc[b] = "scan" /\ todo'[b] = todo[b] /\ discovered'[b] = discovered[b]
  BY <1>1 DEF InEveryScan
<1>2. CASE Crash
  BY <1>2 DEF Crash, InEveryScan
<1>3. CASE UNCHANGED vars
  BY <1>1, <1>3 DEF vars, indexVars, actorVars
<1>4. ASSUME NEW a \in Actor, Ensure(a)
      PROVE  ~loaded' /\ InEveryScan(t, p)'
  BY <1>0, <1>4 DEF Ensure, Published, indexVars, InEveryScan
<1>5. ASSUME NEW a \in Actor, Scan(a)
      PROVE  ~loaded' /\ InEveryScan(t, p)'
  <2>1. PICK q \in todo[a] :
          /\ todo' = [todo EXCEPT ![a] = @ \ {q}]
          /\ \/ /\ q \in Published
                /\ discovered' = [discovered EXCEPT ![a] =
                     {d \in @ : d[1] # token[q]} \cup {<<token[q], q>>}]
             \/ (q \notin Published \/ q \in misread') /\ UNCHANGED discovered
    BY <1>5 DEF Scan, Misread
  <2>2. q \in Pub /\ UNCHANGED <<loaded, pc>>
    BY <1>5, <2>1 DEF Scan, indexVars
  <2>3. token[q] = t => q = p
    BY <1>0, <2>2 DEF Claimed
  <2> QED
    BY <1>0, <2>1, <2>2, <2>3 DEF InEveryScan, Published
<1>6. ASSUME NEW a \in Actor, Merge(a)
      PROVE  index'[t] = p
  <2>1. <<t, p>> \in discovered[a]
    BY <1>6 DEF Merge, InEveryScan
  <2>2. index[t] \in Pub => index[t] = p
    BY <1>0 DEF Claimed
  <2>3. index'[t] \in Pub /\ <<t, index'[t]>> \in discovered[a] => index'[t] = p
    <3>1. \A q \in Pub : <<t, q>> \in discovered[a] => q = p
      BY <1>0, <1>6 DEF Claimed
    <3> QED
      BY <3>1
  <2> QED
    BY <1>0, <1>6, <2>1, <2>2, <2>3, MergeFills
<1>7. ASSUME NEW a \in Actor, Begin(a)
      PROVE  /\ UNCHANGED <<loaded, todo, discovered>>
             /\ \A b \in Actor : pc'[b] = "scan" => pc[b] = "scan"
  BY <1>7 DEF Begin, Create, SaveNew, Rotate, Update, Delete, Lookup, BeginMigration, indexVars
<1>8. ASSUME NEW a \in Actor, Look(a) \/ IndexMigrated(a)
      PROVE  /\ UNCHANGED <<loaded, todo, discovered>>
             /\ \A b \in Actor : pc'[b] = "scan" => pc[b] = "scan"
  <2>1. UNCHANGED <<loaded, todo, discovered>>
    BY <1>8, LookSteps DEF IndexMigrated, indexVars, actorVars
  <2> QED
    BY <1>8, <2>1, LookSteps, IndexMigratedSteps
<1>9. ASSUME NEW a \in Actor, Load(a) \/ Drop(a) \/ MigrateUpdate(a) \/ MigrateDone(a)
      PROVE  /\ UNCHANGED <<loaded, todo, discovered>>
             /\ \A b \in Actor : pc'[b] = "scan" => pc[b] = "scan"
  BY <1>9 DEF Load, Drop, MigrateUpdate, MigrateDone, indexVars, actorVars
<1>10. ASSUME NEW a \in Actor, MigrateLegacy(a) \/ Fallback(a)
       PROVE  /\ UNCHANGED <<loaded, todo, discovered>>
             /\ \A b \in Actor : pc'[b] = "scan" => pc[b] = "scan"
  BY <1>10 DEF MigrateLegacy, Fallback, SaveNew, indexVars
<1>11. ASSUME NEW a \in Actor, Reindex(a) \/ Unindex(a) \/ BindMigrated(a) \/ Answer(a)
       PROVE  UNCHANGED loaded /\ \A b \in Actor : pc'[b] = "scan" =>
                pc[b] = "scan" /\ todo'[b] = todo[b] /\ discovered'[b] = discovered[b]
  BY <1>11 DEF Reindex, Unindex, BindMigrated, Answer, Return, indexVars
<1> QED
  BY <1>1, <1>2, <1>3, <1>4, <1>5, <1>6, <1>7, <1>8, <1>9, <1>10, <1>11 DEF Next, Step

(* Every link stays in the index, or on its way there.                     *)
LEMMA LinksStayIndexed ==
  ASSUME LinkInv, [Next]_vars
  PROVE  Indexed'
<1>1. SUFFICES ASSUME NEW p \in Pub \ misread', NEW t \in Fresh, token'[p] = t
               PROVE  index'[t] = p \/ Pending(t, p)' \/ (~loaded' /\ InEveryScan(t, p)')
  <2>1. ASSUME NEW p \in Pub \ misread', token'[p] \in Fresh
        PROVE  \/ index'[token'[p]] = p \/ Pending(token[p], p)'
               \/ ~loaded' /\ InEveryScan(token[p], p)'
    <3> DEFINE t == token'[p]
    <3>1. \A u \in Fresh : token'[p] = u =>
            index'[u] = p \/ Pending(u, p)' \/ (~loaded' /\ InEveryScan(u, p)')
      BY <1>1
    <3> QED
      BY <2>1, <3>1 DEF Pending, InEveryScan
  <2> QED
    BY <2>1 DEF Indexed, Fresh
<1>2. CASE token[p] # t
  <2>1. Pending(token[p], p)'
    BY <1>1, <1>2, StepsOnTokens DEF TokenChanges
  <2> QED
    BY <1>1, <2>1 DEF Pending
<1>3. CASE token[p] = t
  <2>1. index[t] = p \/ Pending(t, p) \/ (~loaded /\ InEveryScan(t, p))
    BY <1>1, <1>3, StepsOnTokens DEF Histories, LinkInv, Indexed
  <2>2. ~loaded' /\ (\A b \in Actor : pc'[b] = "idle") => ~loaded' /\ InEveryScan(t, p)'
    BY DEF InEveryScan
  <2> QED
    BY <1>1, <1>3, <2>1, <2>2, EntriesStay, PendingComes, ScansFind
<1> QED
  BY <1>2, <1>3

-----------------------------------------------------------------------------
(* Lookups.                                                                *)

(* What a lookup has to answer is fixed when it begins; that its link has  *)
(* to be found no longer holds once the link was revoked.                  *)
LEMMA LookupsGoOn ==
  ASSUME LinkInv, [Next]_vars, NEW b \in Actor, expect'[b] # "any"
  PROVE  \/ /\ expect'[b] = expect[b] /\ key'[b] = key[b] /\ pc'[b] # "idle"
            /\ expect[b] = "live" /\ key[b] \in revoked' => key[b] \in revoked
         \/ Lookup(b)
<1> USE DEF LinkInv, LinkTypes, Goto, Return
<1> DEFINE Same == expect'[b] = expect[b] /\ key'[b] = key[b] /\ pc'[b] # "idle"
<1>0. expect[b] # "any" => pc[b] # "idle"
  BY DEF Expected
<1>1. CASE UNCHANGED vars
  BY <1>0, <1>1 DEF vars, actorVars, historyVars
<1>2. CASE Crash
  BY <1>2 DEF Crash
<1>3. ASSUME NEW a \in Actor, Rotate(a) \/ Delete(a)
      PROVE  Same /\ (expect[b] = "live" /\ key[b] \in revoked' => key[b] \in revoked)
  <2>1. UNCHANGED key /\ \E p \in Pub : Revoke(token[p])
    BY <1>3 DEF Rotate, Delete, Settled, Published
  <2>2. expect[b] # "any" => pc'[b] # "idle"
    BY <1>0, <1>3 DEF Rotate, Delete
  <2> QED
    BY <2>1, <2>2 DEF Revoke
<1>4. ASSUME NEW a \in Actor, Update(a) \/ BeginMigration(a) \/ Create(a)
      PROVE  Same /\ UNCHANGED revoked
  <2>1. CASE Update(a) \/ Create(a)
    BY <1>0, <2>1 DEF Update, Create, SaveNew, historyVars
  <2>2. CASE BeginMigration(a)
    BY <1>0, <2>2 DEF BeginMigration, historyVars
  <2> QED
    BY <1>4, <2>1, <2>2
<1>5. ASSUME NEW a \in Actor, Lookup(a)
      PROVE  (Same /\ UNCHANGED revoked) \/ Lookup(b)
  BY <1>0, <1>5 DEF Lookup
<1>6. ASSUME NEW a \in Actor, Look(a) \/ Merge(a) \/ IndexMigrated(a)
      PROVE  Same /\ UNCHANGED revoked
  <2>1. UNCHANGED <<key, expect, revoked>>
    BY <1>6, LookSteps DEF Merge, IndexMigrated, actorVars, historyVars
  <2>2. \E s \in Stage \ {"idle"} : pc' = [pc EXCEPT ![a] = s]
    BY <1>6, LookSteps, IndexMigratedSteps DEF Merge, Stage
  <2> QED
    BY <1>0, <2>1, <2>2
<1>7. ASSUME NEW a \in Actor, Load(a) \/ Drop(a) \/ Ensure(a) \/ Scan(a)
      PROVE  Same /\ UNCHANGED revoked
  BY <1>0, <1>7 DEF Load, Drop, Ensure, Scan, actorVars, historyVars
<1>8. ASSUME NEW a \in Actor, Reindex(a) \/ Unindex(a) \/ BindMigrated(a) \/ Answer(a)
      PROVE  Same /\ UNCHANGED revoked
  BY <1>0, <1>8 DEF Reindex, Unindex, BindMigrated, Answer
<1>9. ASSUME NEW a \in Actor, MigrateLegacy(a) \/ Fallback(a) \/ MigrateUpdate(a) \/ MigrateDone(a)
      PROVE  Same /\ UNCHANGED revoked
  BY <1>0, <1>9 DEF MigrateLegacy, Fallback, SaveNew, MigrateUpdate, MigrateDone, actorVars,
    historyVars
<1> QED
  BY <1>1, <1>2, <1>3, <1>4, <1>5, <1>6, <1>7, <1>8, <1>9 DEF Next, Begin, Step

(* A new token is in the index before its owner knows it.                  *)
LEMMA PendingIsNew ==
  ASSUME LinkInv, [Next]_vars, NEW t \in drawn, NEW p, Pending(t, p)'
  PROVE  Pending(t, p)
<1> USE DEF LinkInv, LinkTypes, Goto, Return
<1>0. PICK b \in Actor : pc'[b] = "reindex" /\ found'[b] = p /\ new'[b] = t /\ old'[b] # t
  BY DEF Pending
<1> DEFINE Same == pc[b] = "reindex" /\ found'[b] = found[b] /\ new'[b] = new[b] /\ old'[b] = old[b]
<1>1. CASE UNCHANGED vars
  BY <1>0, <1>1 DEF vars, actorVars, Pending
<1>2. CASE Crash
  BY <1>0, <1>2 DEF Crash
<1>3. ASSUME NEW a \in Actor, Create(a) \/ Rotate(a)
      PROVE  Same
  BY <1>0, <1>3 DEF Create, SaveNew, Rotate
<1>4. ASSUME NEW a \in Actor, Update(a) \/ Delete(a) \/ Lookup(a) \/ BeginMigration(a)
      PROVE  Same
  BY <1>0, <1>4 DEF Update, Delete, Lookup, BeginMigration
<1>5. ASSUME NEW a \in Actor, Look(a) \/ Merge(a) \/ IndexMigrated(a)
      PROVE  Same
  <2>1. CASE Look(a)
    BY <1>0, <2>1, LookSteps
  <2>2. CASE Merge(a) \/ IndexMigrated(a)
    <3>1. UNCHANGED actorVars
      BY <2>2 DEF Merge, IndexMigrated
    <3>2. \E s \in {"lookAgain", "bind", "migrateUpdate", "migrateDone"} : pc' = [pc EXCEPT ![a] = s]
      BY <2>2, IndexMigratedSteps DEF Merge
    <3> QED
      BY <1>0, <3>1, <3>2 DEF actorVars
  <2> QED
    BY <1>5, <2>1, <2>2
<1>6. ASSUME NEW a \in Actor, Load(a) \/ Drop(a) \/ Ensure(a) \/ Scan(a)
      PROVE  Same
  BY <1>0, <1>6 DEF Load, Drop, Ensure, Scan, actorVars
<1>7. ASSUME NEW a \in Actor, Reindex(a) \/ Unindex(a) \/ BindMigrated(a) \/ Answer(a)
      PROVE  Same
  BY <1>0, <1>7 DEF Reindex, Unindex, BindMigrated, Answer
<1>8. ASSUME NEW a \in Actor, MigrateLegacy(a) \/ Fallback(a) \/ MigrateUpdate(a) \/ MigrateDone(a)
      PROVE  Same
  BY <1>0, <1>8 DEF MigrateLegacy, Fallback, SaveNew, MigrateUpdate, MigrateDone, actorVars
<1>9. CASE Same
  BY <1>0, <1>9 DEF Pending
<1> QED
  BY <1>1, <1>2, <1>3, <1>4, <1>5, <1>6, <1>7, <1>8, <1>9 DEF Next, Begin, Step

(* What a lookup has to answer stays true of its link.                     *)
LEMMA ExpectationsStay ==
  ASSUME LinkInv, [Next]_vars
  PROVE  Expected'
<1> USE DEF LinkInv, LinkTypes
<1>0. SUFFICES ASSUME NEW b \in Actor, expect'[b] # "any"
               PROVE  /\ pc'[b] # "idle"
                      /\ expect'[b] = "revoked" => key'[b] \in revoked'
                      /\ expect'[b] = "live" => key'[b] \in Token
                      /\ \A t \in Fresh : expect'[b] = "live" /\ key'[b] = t =>
                           /\ \E p \in Pub : token'[p] = t
                           /\ \A p \in Pub : ~Pending(t, p)'
  BY DEF Expected, Pending, Fresh
<1>1. Histories /\ TokenChanges /\ Legacy \subseteq drawn
  BY StepsOnTokens DEF DrawnOnce
<1>2. \A t \in drawn, p \in Pub : Pending(t, p)' => Pending(t, p)
  BY PendingIsNew
<1>3. CASE Lookup(b)
  <2>1. PICK t \in Known :
          /\ key' = [key EXCEPT ![b] = t]
          /\ expect' = [expect EXCEPT ![b] =
               IF t \in revoked THEN "revoked" ELSE IF t \in LiveTokens THEN "live" ELSE "any"]
    BY <1>3 DEF Lookup
  <2>2. pc'[b] = "look" /\ UNCHANGED <<token, revoked>> /\ t \in Token /\ t \in drawn
    BY <1>3, <2>1 DEF Lookup, Goto, Known, diskVars
  <2>3. t \in Fresh /\ t \in LiveTokens => \E p \in Pub : token[p] = t
    BY DEF LiveTokens, Published, Fresh
  <2>4. \A p \in Pub : ~Pending(t, p)
    BY <2>1 DEF Known, Pending
  <2> QED
    BY <1>2, <2>1, <2>2, <2>3, <2>4
<1>4. CASE /\ expect'[b] = expect[b] /\ key'[b] = key[b] /\ pc'[b] # "idle"
           /\ expect[b] = "live" /\ key[b] \in revoked' => key[b] \in revoked
  <2>1. ASSUME NEW t \in Fresh, expect[b] = "live", key[b] = t
        PROVE  (\E p \in Pub : token'[p] = t) /\ \A p \in Pub : ~Pending(t, p)'
    <3>1. PICK p \in Pub : token[p] = t
      BY <2>1 DEF Expected
    <3>2. t \notin revoked /\ t \in Token
      BY <3>1 DEF RevokedAreDead, Fresh
    <3>3. token'[p] = t
      BY <1>1, <1>4, <2>1, <3>1, <3>2 DEF TokenChanges
    <3>4. t \in drawn
      BY <2>1 DEF KeysAreKnown
    <3>5. \A q \in Pub : ~Pending(t, q)
      BY <2>1 DEF Expected
    <3> QED
      BY <1>2, <3>3, <3>4, <3>5
  <2> QED
    BY <1>0, <1>1, <1>4, <2>1 DEF Expected, Histories
<1> QED
  BY <1>0, <1>3, <1>4, LookupsGoOn

(* How a lookup comes to the stages after its second look.                 *)
LEMMA LastLook ==
  ASSUME LinkInv, [Next]_vars, NEW b \in Actor, pc'[b] \in {"loadAgain", "legacy", "missing"}
  PROVE  \/ pc[b] = pc'[b] /\ (pc[b] = "loadAgain" => found'[b] = found[b])
         \/ /\ pc[b] = "lookAgain"
            /\ pc'[b] = "legacy" => index[key[b]] = NoPub
            /\ pc'[b] = "loadAgain" => found'[b] = index[key[b]]
            /\ pc'[b] # "missing"
         \/ pc[b] = "dropAgain" /\ pc'[b] = "legacy"
         \/ pc[b] = "legacy" /\ pc'[b] = "missing"
         \/ key'[b] \in Legacy
<1> USE DEF LinkInv, LinkTypes, Goto, Return
<1> DEFINE Same == pc[b] = pc'[b] /\ (pc[b] = "loadAgain" => found'[b] = found[b])
<1>1. CASE UNCHANGED vars
  BY <1>1 DEF vars, actorVars
<1>2. CASE Crash
  BY <1>2 DEF Crash
<1>3. ASSUME NEW a \in Actor, Create(a) \/ Rotate(a) \/ Update(a) \/ Delete(a) \/ Lookup(a)
      PROVE  Same
  BY <1>3 DEF Create, SaveNew, Rotate, Update, Delete, Lookup
<1>4. ASSUME NEW a \in Actor, BeginMigration(a)
      PROVE  Same \/ key'[b] \in Legacy
  BY <1>4 DEF BeginMigration, ConstantsDiffer
<1>5. ASSUME NEW a \in Actor, Look(a)
      PROVE  \/ Same
             \/ /\ pc[b] = "lookAgain"
                /\ pc'[b] = "legacy" => index[key[b]] = NoPub
                /\ pc'[b] = "loadAgain" => found'[b] = index[key[b]]
                /\ pc'[b] # "missing"
  BY <1>5, LookSteps
<1>6. ASSUME NEW a \in Actor, Merge(a) \/ IndexMigrated(a)
      PROVE  Same
  <2>1. UNCHANGED actorVars
    BY <1>6 DEF Merge, IndexMigrated
  <2>2. \E s \in {"lookAgain", "bind", "migrateUpdate", "migrateDone"} : pc' = [pc EXCEPT ![a] = s]
    BY <1>6, IndexMigratedSteps DEF Merge
  <2> QED
    BY <2>1, <2>2 DEF actorVars
<1>7. ASSUME NEW a \in Actor, Load(a) \/ Ensure(a) \/ Scan(a)
      PROVE  Same
  BY <1>7 DEF Load, Ensure, Scan, actorVars
<1>8. ASSUME NEW a \in Actor, Drop(a)
      PROVE  Same \/ (pc[b] = "dropAgain" /\ pc'[b] = "legacy")
  BY <1>8 DEF Drop, actorVars
<1>9. ASSUME NEW a \in Actor, MigrateLegacy(a)
      PROVE  Same \/ (pc[b] = "legacy" /\ pc'[b] = "missing")
  BY <1>9 DEF MigrateLegacy, SaveNew
<1>10. ASSUME NEW a \in Actor, Fallback(a) \/ MigrateUpdate(a) \/ MigrateDone(a)
       PROVE  Same
  BY <1>10 DEF Fallback, SaveNew, MigrateUpdate, MigrateDone, actorVars
<1>11. ASSUME NEW a \in Actor, Reindex(a) \/ Unindex(a) \/ BindMigrated(a) \/ Answer(a)
       PROVE  Same
  BY <1>11 DEF Reindex, Unindex, BindMigrated, Answer
<1> QED
  BY <1>1, <1>2, <1>3, <1>4, <1>5, <1>6, <1>7, <1>8, <1>9, <1>10, <1>11 DEF Next, Begin, Step

(* The second look is at an index that is loaded.                          *)
LEMMA SecondLookIsLoaded ==
  ASSUME LinkInv, [Next]_vars, NEW b \in Actor, pc'[b] \in {"lookAgain", "loadAgain"}
  PROVE  loaded'
<1> USE DEF LinkInv, LinkTypes, Goto, Return
<1> DEFINE Same == pc[b] \in {"lookAgain", "loadAgain"} /\ UNCHANGED loaded
<1>1. CASE UNCHANGED vars
  BY <1>1 DEF vars, indexVars, SecondLook
<1>2. CASE Crash
  BY <1>2 DEF Crash
<1>3. ASSUME NEW a \in Actor, Begin(a)
      PROVE  Same
  BY <1>3 DEF Begin, Create, SaveNew, Rotate, Update, Delete, Lookup, BeginMigration, indexVars
<1>4. ASSUME NEW a \in Actor, Look(a)
      PROVE  Same
  BY <1>4, LookSteps DEF indexVars
<1>5. ASSUME NEW a \in Actor, IndexMigrated(a)
      PROVE  Same
  <2>1. UNCHANGED loaded
    BY <1>5 DEF IndexMigrated
  <2> QED
    BY <1>5, <2>1, IndexMigratedSteps
<1>6. ASSUME NEW a \in Actor, Merge(a)
      PROVE  loaded'
  BY <1>6 DEF Merge
<1>7. ASSUME NEW a \in Actor, Ensure(a)
      PROVE  loaded' \/ Same
  BY <1>7 DEF Ensure, indexVars
<1>8. ASSUME NEW a \in Actor, Load(a) \/ Drop(a) \/ Scan(a) \/ MigrateLegacy(a) \/ Fallback(a)
      PROVE  Same
  BY <1>8 DEF Load, Drop, Scan, MigrateLegacy, Fallback, SaveNew, indexVars
<1>9. ASSUME NEW a \in Actor,
             \/ MigrateUpdate(a) \/ MigrateDone(a) \/ Reindex(a) \/ Unindex(a) \/ BindMigrated(a)
             \/ Answer(a)
      PROVE  Same
  BY <1>9 DEF MigrateUpdate, MigrateDone, Reindex, Unindex, BindMigrated, Answer, indexVars
<1>10. CASE Same
  BY <1>10 DEF SecondLook
<1> QED
  BY <1>1, <1>2, <1>3, <1>4, <1>5, <1>6, <1>7, <1>8, <1>9, <1>10 DEF Next, Step

(* The second look finds a link that exists.                               *)
LEMMA SecondLookFinds ==
  ASSUME LinkInv, [Next]_vars
  PROVE  SecondLook'
<1> USE DEF LinkInv, LinkTypes
<1>0. SUFFICES ASSUME NEW b \in Actor, expect'[b] = "live",
                      NEW t \in Fresh, key'[b] = t, NEW p \in Pub \ misread', token'[p] = t
               PROVE  /\ pc'[b] \notin {"dropAgain", "legacy", "missing"}
                      /\ pc'[b] = "loadAgain" => found'[b] = p
  BY SecondLookIsLoaded DEF SecondLook, Fresh
<1>1. CASE Lookup(b)
  <2>1. pc'[b] = "look"
    BY <1>1 DEF Lookup, Goto
  <2> QED
    BY <2>1
<1>2. CASE expect'[b] = expect[b] /\ key'[b] = key[b]
  <2>1. t \in drawn /\ p \notin misread /\ t \in Token /\ t \notin Legacy
    BY <1>0, <1>2, StepsOnTokens DEF KeysAreKnown, Histories, Fresh
  <2>2. token[p] = t
    BY <1>0, <2>1, StepsOnTokens DEF TokenChanges
  <2>3. /\ pc[b] \notin {"dropAgain", "legacy", "missing"}
        /\ pc[b] = "loadAgain" => found[b] = p
    BY <1>0, <1>2, <2>1, <2>2 DEF SecondLook
  <2>4. pc[b] = "lookAgain" => index[t] = p
    <3>1. pc[b] = "lookAgain" => loaded
      BY DEF SecondLook
    <3>2. ~Pending(t, p)
      BY <1>0, <1>2 DEF Expected
    <3> QED
      BY <2>1, <2>2, <3>1, <3>2 DEF Indexed
  <2>5. pc'[b] # "dropAgain"
    BY <1>0, <1>2, <2>1, <2>2, <2>3, DropsComeFromLoad
  <2> QED
    BY <1>0, <1>2, <2>1, <2>3, <2>4, <2>5, LastLook DEF ConstantsDiffer
<1> QED
  BY <1>0, <1>1, <1>2, LookupsGoOn

(* How a lookup comes to be served.                                        *)
LEMMA ServedSteps ==
  ASSUME LinkInv, [Next]_vars, NEW b \in Actor, pc'[b] = "served"
  PROVE  /\ key'[b] = key[b] /\ expect'[b] \in {expect[b], "any"}
         /\ \/ pc[b] = "served" \/ key[b] \in Legacy
            \/ pc[b] \in {"load", "loadAgain"} /\ token[found[b]] = key[b]
<1> USE DEF LinkInv, LinkTypes, Goto, Return
<1> DEFINE Same == key'[b] = key[b] /\ expect'[b] \in {expect[b], "any"} /\ pc[b] = "served"
<1>1. CASE UNCHANGED vars
  BY <1>1 DEF vars, actorVars, historyVars
<1>2. CASE Crash
  BY <1>2 DEF Crash
<1>3. ASSUME NEW a \in Actor, Create(a) \/ Rotate(a) \/ Update(a) \/ Delete(a)
      PROVE  Same
  BY <1>3 DEF Create, SaveNew, Rotate, Update, Delete, Revoke, historyVars
<1>4. ASSUME NEW a \in Actor, Lookup(a) \/ BeginMigration(a)
      PROVE  Same
  BY <1>4 DEF Lookup, BeginMigration, historyVars
<1>5. ASSUME NEW a \in Actor, Look(a)
      PROVE  Same
  BY <1>5, LookSteps DEF historyVars
<1>6. ASSUME NEW a \in Actor, Merge(a) \/ IndexMigrated(a)
      PROVE  Same
  <2>1. UNCHANGED <<actorVars, historyVars>>
    BY <1>6 DEF Merge, IndexMigrated
  <2>2. \E s \in {"lookAgain", "bind", "migrateUpdate", "migrateDone"} : pc' = [pc EXCEPT ![a] = s]
    BY <1>6, IndexMigratedSteps DEF Merge
  <2> QED
    BY <2>1, <2>2 DEF actorVars, historyVars
<1>7. ASSUME NEW a \in Actor, Drop(a) \/ Ensure(a) \/ Scan(a)
      PROVE  Same
  BY <1>7 DEF Drop, Ensure, Scan, actorVars, historyVars
<1>8. ASSUME NEW a \in Actor, MigrateLegacy(a) \/ Fallback(a) \/ MigrateUpdate(a)
      PROVE  Same
  BY <1>8 DEF MigrateLegacy, Fallback, SaveNew, MigrateUpdate, historyVars
<1>9. ASSUME NEW a \in Actor, Reindex(a) \/ Unindex(a) \/ BindMigrated(a) \/ Answer(a)
      PROVE  Same
  BY <1>9 DEF Reindex, Unindex, BindMigrated, Answer
<1>10. ASSUME NEW a \in Actor, Load(a)
       PROVE  /\ key'[b] = key[b] /\ expect'[b] = expect[b]
              /\ \/ pc[b] = "served"
                 \/ pc[b] \in {"load", "loadAgain"} /\ token[found[b]] = key[b]
  BY <1>10 DEF Load, actorVars
<1>11. ASSUME NEW a \in Actor, MigrateDone(a)
       PROVE  /\ key'[b] = key[b] /\ expect'[b] = expect[b]
              /\ pc[b] = "served" \/ key[b] \in Legacy
  BY <1>11 DEF MigrateDone, KeysAreKnown, actorVars, historyVars
<1> QED
  BY <1>1, <1>2, <1>3, <1>4, <1>5, <1>6, <1>7, <1>8, <1>9, <1>10, <1>11 DEF Next, Begin, Step

(* A revoked link is not served.                                           *)
LEMMA RevokedAreNotServed ==
  ASSUME LinkInv, [Next]_vars
  PROVE  NewLinksDie'
<1> USE DEF LinkInv, LinkTypes
<1>1. SUFFICES ASSUME NEW b \in Actor, pc'[b] = "served", key'[b] \notin Legacy
               PROVE  expect'[b] # "revoked"
  BY DEF NewLinksDie
<1>2. CASE pc[b] = "served"
  BY <1>1, <1>2, ServedSteps DEF NewLinksDie
<1>3. CASE pc[b] \in {"load", "loadAgain"} /\ token[found[b]] = key[b]
  <2>1. key[b] \in Fresh /\ found[b] \in Pub
    BY <1>1, <1>3, ServedSteps DEF KeysAreKnown, Fresh
  <2>2. key[b] \notin revoked
    BY <1>3, <2>1 DEF RevokedAreDead
  <2> QED
    BY <1>1, <2>2, ServedSteps DEF Expected
<1> QED
  BY <1>1, <1>2, <1>3, ServedSteps

-----------------------------------------------------------------------------
(* The theorems.                                                           *)

(* The invariant: what the index and the actors say of a private link is   *)
(* about the publication it was made for, and a link that is not in the    *)
(* index is revoked, or on its way there.                                  *)
THEOREM LinkInvariant ==
  ConstantsDiffer /\ Spec => []LinkInv
<1>1. ConstantsDiffer /\ Init => LinkInv
  <2> SUFFICES ASSUME ConstantsDiffer, Init
               PROVE  LinkInv
    OBVIOUS
  <2>1. \A t \in Fresh, p \in Pub : ~Claimed(t, p)
    BY DEF Claimed, Init, Fresh, ConstantsDiffer, Indexing
  <2> QED
    BY <2>1, TypesInit DEF Init, LinkInv, OneOwner, RevokedAreDead, DrawnOnce, RemovesRevoked,
       KeysAreKnown, Indexed, Expected, SecondLook, NewLinksDie, Fresh, Indexing, ConstantsDiffer
<1>2. LinkInv /\ [Next]_vars => LinkInv'
  <2>1. ASSUME LinkInv
        PROVE  ConstantsDiffer'
    BY <2>1 DEF LinkInv, ConstantsDiffer
  <2> QED
    BY <2>1, TypesNext, OwnersStay, RevokedStayDead, RemovesStayRevoked, KeysStayKnown,
       LinksStayIndexed, ExpectationsStay, SecondLookFinds, RevokedAreNotServed DEF LinkInv
<1> QED
  BY <1>1, <1>2, PTL DEF Spec

(* A link that was rotated away or deleted before a download began is not  *)
(* served: load compares with meta.json what the index says.               *)
THEOREM RevokedLinksDie ==
  ConstantsDiffer /\ Spec => []NewLinksDie
<1>1. LinkInv => NewLinksDie
  BY DEF LinkInv
<1> QED
  BY <1>1, LinkInvariant, PTL

(* Once the index is loaded, every publication is in it under its token,   *)
(* whatever scan, clean-up, change or restart happened.                    *)
THEOREM LoadedIndexIsComplete ==
  ConstantsDiffer /\ Spec => []IndexIsComplete
<1>1. LinkInv => IndexIsComplete
  BY DEF LinkInv, LinkTypes, Indexed, Pending, Fresh, IndexIsComplete, Published
<1> QED
  BY <1>1, LinkInvariant, PTL

(* A link that was live when a download began, and still is, is found.     *)
THEOREM LiveLinksAreFound ==
  ConstantsDiffer /\ Spec => []LiveLinkIsFound
<1>1. LinkInv => LiveLinkIsFound
  <2> SUFFICES ASSUME LinkInv, NEW a \in Actor, pc[a] = "missing", expect[a] = "live",
                      key[a] \notin Legacy
               PROVE  \E p \in misread : token[p] = key[a]
    BY DEF LiveLinkIsFound
  <2>1. key[a] \in Fresh
    BY DEF LinkInv, Expected, Fresh
  <2>2. PICK p \in Pub : token[p] = key[a]
    BY <2>1 DEF LinkInv, Expected
  <2> QED
    BY <2>1, <2>2 DEF LinkInv, SecondLook
<1> QED
  BY <1>1, LinkInvariant, PTL
=============================================================================
