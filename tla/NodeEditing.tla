---------------------------- MODULE NodeEditing ----------------------------
(***************************************************************************)
(* Editing the nodes of one workspace (api/nodes.go), what its node state  *)
(* remembers (model/node_state.go, model/node_deletion.go), when records   *)
(* are pruned (api/node_state_cleanup.go) and what a rendering makes of it *)
(* (pipeline/node_state.go, pipeline/final_nodes.go).                      *)
(*                                                                         *)
(* A subscription serves a list of entries, each a name with a connection: *)
(* server, port, credentials and what else goes into the key by which      *)
(* nodes are merged (equal IDs have equal keys; ProxyFields has the fields *)
(* of both). A node is identified by its connection, by its connection and *)
(* source, or also by its place in the collection; so a source that gives  *)
(* an entry a new connection makes a new node of it.  A name stands for    *)
(* the name and the type of a proxy (one connection has one type), which   *)
(* deletion records use together; and a source ID stands for the ID and    *)
(* the URL of a subscription, since no configuration here changes a URL.   *)
(*                                                                         *)
(* The workspace lock keeps the requests of a workspace apart, so each is  *)
(* one step here; PUT /api/config, which writes two files, may stop half   *)
(* way.  A rendering sees what the editor sees once its fetches are done:  *)
(* the invariants are about what is rendered now, from what was fetched.   *)
(***************************************************************************)
EXTENDS Integers, Sequences, FiniteSets, SequencesExt, TLC

CONSTANTS
  Subscription,  \* source IDs, in the order of the configuration
  Versions,      \* Versions[s]: what subscription s serves, now or later
  Content,       \* Content[v]: the entries of a version
  InlineList,    \* the nodes typed into the configuration
  Additions,     \* nodes a user may add, each a name with a connection
  NewName,       \* a name a user gives to nodes
  Info,          \* the name of an entry that is not a node
  Configs,       \* configurations a user may save: scope and modes
  NoList,        \* stands for the version of a source never fetched
  MaxEdits       \* bound: what users do

VARIABLES
  cfg,    \* scope; mode: of the subscriptions and of the inline list
  cache,  \* the version last fetched from each subscription
  st,     \* the node state: overrides, disabled, deleted, custom, audit
  gone,   \* history: what the user deleted and has not restored
  edits

vars == <<cfg, cache, st, gone, edits>>

SubscriptionSet == {Subscription[i] : i \in DOMAIN Subscription}
Inline == "inline"
Custom == "custom"

-----------------------------------------------------------------------------
(* Collecting nodes.                                                       *)

ListOf(c, kept, s) ==
  IF c.mode[s] # "on" THEN <<>>
  ELSE IF s = Inline THEN InlineList
  ELSE IF kept[s] = NoList THEN <<>> ELSE Content[kept[s]]

(* collectNodes: the inline list, then the enabled subscriptions in order. *)
Entries(c, kept) ==
  LET From(s) == [i \in DOMAIN ListOf(c, kept, s) |->
        [name |-> ListOf(c, kept, s)[i].name, conn |-> ListOf(c, kept, s)[i].conn,
         source |-> s]]
  IN  FoldLeft(LAMBDA es, s : es \o From(s), From(Inline), Subscription)

(* StableNodeIDWithScope.                                                  *)
NodeID(c, e, i) ==
  CASE c.scope = "global"     -> <<e.conn, "", 0>>
    [] c.scope = "per_source" -> <<e.conn, e.source, 0>>
    [] c.scope = "none"       -> <<e.conn, e.source, i>>
CustomID(a) == <<a.conn, Custom, 0>>

(* What may have been fetched.                                             *)
Cache ==
  {kept \in [SubscriptionSet -> DOMAIN Content \cup {NoList}] :
     \A x \in SubscriptionSet : kept[x] \in Versions[x] \cup {NoList}}

(* DedupeNodesByScope: entries with one ID are one row, under the name of  *)
(* the first, with the sources of all.                                     *)
Rows == [c \in Configs |-> [kept \in Cache |->
  LET es    == Entries(c, kept)
      id(i) == NodeID(c, es[i], i)
  IN  {[id |-> id(i), name |-> es[i].name, conn |-> es[i].conn, source |-> es[i].source,
        sources |-> {es[j].source : j \in {k \in DOMAIN es : id(k) = id(i)}}] :
         i \in {k \in DOMAIN es : \A j \in 1 .. (k - 1) : id(j) # id(k)}}]]

CustomRows(s) ==
  {[id |-> CustomID(a), name |-> a.name, conn |-> a.conn, source |-> Custom,
    sources |-> {Custom}] : a \in s.custom}

(* CollectNodesWithState: original names; custom nodes keep their own IDs. *)
Original(c, kept, s) == Rows[c][kept] \cup CustomRows(s)

(* applyNodeOverrides.                                                     *)
Renamed(r, s) == IF r.id \in DOMAIN s.overrides THEN [r EXCEPT !.name = s.overrides[r.id]] ELSE r
Shown(c, kept, s) == {Renamed(r, s) : r \in Original(c, kept, s)}

IDs(rows) == {r.id : r \in rows}
SourcesOf(rows, id) == UNION {r.sources : r \in {q \in rows : q.id = id}}

-----------------------------------------------------------------------------
(* Deletion records: a deleted ID, the subscriptions the node was seen in, *)
(* and the names it went by there.                                         *)

(* nodeDeletionSignatures: the hash of a subscription's ID and URL with    *)
(* the type and the name of the node.                                      *)
Signatures(r) == {<<s, r.name>> : s \in r.sources \cap SubscriptionSet}

(* A signature means a node only if no second node of that source has the  *)
(* name: ambiguous names never hide another node.                          *)
(* Mutant: any node of that name.                                          *)
OwnersOfAnyName(rows, signature) == {r.id : r \in {q \in rows : signature \in Signatures(q)}}

Owners(rows, signature) ==
  LET owners == {r.id : r \in {q \in rows : signature \in Signatures(q)}}
  IN  IF Cardinality(owners) = 1 THEN owners ELSE {}

UniqueSignatures(rows, id) ==
  {x \in UNION {Signatures(r) : r \in rows} : Owners(rows, x) = {id}}

(* ResolveDeletedNodes: the records that a row stands for now.             *)
Records(s, rows, id) ==
  {d \in DOMAIN s.deleted :
     d = id \/ \E x \in s.deleted[d].signatures : id \in Owners(rows, x)}

NoRecord == [sources |-> {}, signatures |-> {}]

Without(f, S) == Restrict(f, DOMAIN f \ S)

(* rememberDeletedNodeSources and RememberDeletedNodeSignatures.           *)
RememberSources(deleted, rows) ==
  [d \in DOMAIN deleted |->
     [deleted[d] EXCEPT !.sources = @ \cup (SourcesOf(rows, d) \cap SubscriptionSet)]]

RememberSignatures(deleted, rows) ==
  [d \in DOMAIN deleted |->
     [deleted[d] EXCEPT !.signatures = @ \cup UniqueSignatures(rows, d)]]

(* rememberDeletedNodeSourcesFromAudit.                                    *)
RememberAudit(s) ==
  [s EXCEPT !.deleted = [d \in DOMAIN s.deleted |->
     [s.deleted[d] EXCEPT
        !.sources = @ \cup {x[2] : x \in {y \in s.audit : y[1] = d}}]]]

(* pruneDeletedNodeState: a record stays if its node is there, or if one   *)
(* of its subscriptions is configured, or if nobody can say.               *)
Active(c) == {x \in SubscriptionSet : c.mode[x] # "absent"}

Prune(s, active, current, sure) ==
  IF DOMAIN s.deleted = {} THEN s ELSE
  LET kept == {d \in DOMAIN s.deleted :
                 \/ d \in current
                 \/ s.deleted[d].sources = {} /\ ~sure
                 \/ s.deleted[d].sources \cap active # {}}
  IN  [s EXCEPT !.deleted = Restrict(@, kept),
                !.audit = {x \in @ : x[1] \in DOMAIN s.deleted => x[1] \in kept}]

SomeUnknown(s) == \E d \in DOMAIN s.deleted : s.deleted[d].sources = {}

(* pruneDeletedNodeStateForCurrentConfig.                                  *)
PruneForCurrent(c, s, rows, sure) ==
  Prune(RememberAudit([s EXCEPT !.deleted = RememberSources(@, rows)]),
        Active(c), IDs(rows), sure)

(* pruneRestoredDraftDeletedNodeState.                                     *)
PruneRestored(c, kept, s, sure) ==
  LET first == Prune(RememberAudit(s), Active(c), {}, FALSE)
  IN  IF SomeUnknown(first) THEN PruneForCurrent(c, first, Shown(c, kept, first), sure)
      ELSE first

(* pruneDeletedNodeStateForConfigChange.                                   *)
PruneForConfig(old, new, kept, s, sure) ==
  LET audited  == RememberAudit(s)
      known    == [audited EXCEPT !.deleted = RememberSources(@, Shown(old, kept, audited))]
  IN  IF Active(old) \subseteq Active(new) \/ DOMAIN s.deleted = {} THEN s
      ELSE IF ~SomeUnknown(audited) THEN Prune(audited, Active(new), {}, FALSE)
      ELSE Prune(known, Active(new), IDs(Shown(new, kept, known)), sure)

-----------------------------------------------------------------------------
(* BuildFinalNodes: every record decides about its own row; only then are  *)
(* copies of one connection merged.                                        *)
Hidden(s, rows) ==
  {r.id : r \in {q \in rows : \/ q.name = Info \/ q.id \in s.disabled
                              \/ Records(s, rows, q.id) # {}}}

FinalKey(c, r) ==
  CASE c.scope = "global"     -> <<r.conn>>
    [] c.scope = "per_source" -> <<r.conn, r.source>>
    [] c.scope = "none"       -> r.id

Merged(c, rows) ==
  {r \in rows : r.source = Custom =>
                  \A q \in rows : FinalKey(c, q) = FinalKey(c, r) => q.source = Custom}

Final(c, s, rows) ==
  LET hidden == Hidden(s, rows) IN Merged(c, {r \in rows : r.id \notin hidden})

Audit(s, rows) ==
  {<<r.id, r.source>> : r \in {q \in rows :
     /\ q.source \in SubscriptionSet /\ q.name # Info /\ q.id \notin s.disabled
     /\ Records(s, rows, q.id) # {}}}

-----------------------------------------------------------------------------
(* What the user deleted: the ID of the row, the names and sources it had, *)
(* all sources known of it, then or later (seen), and whether it has to    *)
(* stay hidden: as long as a subscription it was deleted from is           *)
(* configured; without one, as long as its sources are all there and the   *)
(* inline list still has it under that ID.                                 *)
Held(c) == Active(c) \cup IF c.mode[Inline] = "on" THEN {Inline} ELSE {}
Nothing == [x \in SubscriptionSet |-> NoList]

Lasting(c, x) ==
  \/ x.sources \cap Active(c) # {}
  \/ x.seen \subseteq Held(c) /\ x.id \in IDs(Rows[c][Nothing])

Released(c, g) == {[x EXCEPT !.firm = @ /\ Lasting(c, x)] : x \in g}

Seen(g, rows) == {[x EXCEPT !.seen = @ \cup SourcesOf(rows, x.id)] : x \in g}

Named(rows, y) == {r.id : r \in {q \in rows : y[1] \in q.sources /\ y[2] = q.name}}
Stands(x, rows, id) == x.id = id \/ \E y \in x.names : Named(rows, y) = {id}
WithLaterNames(x) == [x EXCEPT !.names = @ \cup x.later]

Here == Original(cfg, cache, st)
Edit == edits < MaxEdits /\ edits' = edits + 1

-----------------------------------------------------------------------------
Init ==
  /\ cfg \in {c \in Configs : \A x \in SubscriptionSet \cup {Inline} : c.mode[x] = "on"}
  /\ cache = [x \in SubscriptionSet |-> NoList]
  /\ st = [overrides |-> <<>>, disabled |-> {}, deleted |-> <<>>, custom |-> {},
           audit |-> {}]
  /\ gone = {} /\ edits = 0

(* A refresh fetches what the subscriptions serve now, or answers from the *)
(* cache; without a node left it fails and saves no state.                 *)
Refresh ==
  /\ cache' \in Cache
  /\ \A x \in SubscriptionSet :
       cache'[x] # cache[x] => cfg.mode[x] = "on" /\ cache'[x] # NoList
  /\ LET rows == Original(cfg, cache', st)
     IN  /\ st' = IF Final(cfg, st, rows) = {} THEN st
                  ELSE [st EXCEPT !.audit = Audit(st, rows)]
         /\ gone' = Seen(gone, rows)
  /\ UNCHANGED <<cfg, edits>>

(* PUT /api/config writes the configuration and then the pruned state.  A  *)
(* failure of the second write restores the first, unless that fails too   *)
(* or the process dies between them.                                       *)
(* Mutant: the state is written first.                                     *)
StateFirst(new, sure) ==
  \/ cfg' = new /\ st' = PruneForConfig(cfg, new, cache, st, sure)
  \/ cfg' = cfg /\ st' = PruneForConfig(cfg, new, cache, st, sure)

WriteBoth(new, sure) ==
  \/ cfg' = new /\ st' = PruneForConfig(cfg, new, cache, st, sure)
  \/ cfg' = new /\ st' = st

HandleConfig(new, sure) ==
  /\ Edit /\ new # cfg
  /\ WriteBoth(new, sure)
  /\ gone' = Seen(Released(cfg', gone), Rows[cfg'][cache])
  /\ UNCHANGED cache

(* POST /api/nodes/delete: all or nothing; custom nodes leave the state.   *)
Remember(s) == RememberSignatures(RememberSources(s.deleted, Shown(cfg, cache, st)), Here)

Deletion(here, r) ==
  LET known == {a[2] : a \in {b \in st.audit : b[1] = r.id}}
                 \cup UNION {x.seen : x \in {y \in gone : y.id = r.id}}
      x == [id |-> r.id, names |-> UniqueSignatures(here, r.id), later |-> {},
            sources |-> r.sources, seen |-> r.sources \cup known, firm |-> TRUE]
  IN  [x EXCEPT !.firm = Lasting(cfg, x)]

DeleteNodes(ids) ==
  LET here   == Here
      custom == ids \cap IDs(CustomRows(st))
      next   == (DOMAIN st.deleted \cup ids) \ custom
      marked == [st EXCEPT
        !.custom = {a \in @ : CustomID(a) \notin custom},
        !.overrides = Without(@, custom),
        !.disabled = @ \ ids,
        !.deleted = [d \in next |-> IF d \in DOMAIN @ THEN @[d] ELSE NoRecord]]
  IN  /\ Edit /\ ids # {} /\ ids \subseteq IDs(Here) \cup DOMAIN st.deleted
      /\ st' = [marked EXCEPT !.deleted = Remember(marked)]
      /\ gone' = {[x EXCEPT !.later = @ \cup UniqueSignatures(here, x.id)] : x \in gone}
           \cup {Deletion(here, r) : r \in {q \in here : q.id \in ids \ custom}}
      /\ UNCHANGED <<cfg, cache>>

(* POST /api/nodes/enable restores rows: whatever record a row stands for  *)
(* now goes with it.                                                       *)
Restored(ids) ==
  ids \cup IF \A d \in DOMAIN st.deleted : st.deleted[d].signatures = {} THEN {}
           ELSE UNION {Records(st, Here, id) : id \in ids \cap IDs(Here)}

EnableNodes(ids) ==
  /\ Edit /\ ids # {}
  /\ st' = [st EXCEPT !.disabled = @ \ Restored(ids),
                      !.deleted = Without(@, Restored(ids))]
  /\ LET restored == {x \in gone : \E id \in ids : Stands(WithLaterNames(x), Here, id)}
     IN  gone' = {[x EXCEPT !.firm = @ /\ x.id \notin IDs(restored)] : x \in gone \ restored}
  /\ UNCHANGED <<cfg, cache>>

DisableNodes(ids) ==
  /\ Edit /\ ids # {}
  /\ st' = [st EXCEPT !.disabled = @ \cup ids]
  /\ UNCHANGED <<cfg, cache, gone>>

(* PUT /api/nodes/{id}/override: any row of the editor, on or off.         *)
SaveOverride(id, on) ==
  /\ Edit /\ id \in IDs(Here)
  /\ st' = [st EXCEPT !.overrides = (id :> NewName) @@ @,
                      !.disabled = IF on THEN @ \ {id} ELSE @ \cup {id}]
  /\ UNCHANGED <<cfg, cache, gone>>

ResetOverride(id) ==
  /\ Edit
  /\ st' = [st EXCEPT !.overrides = Without(@, {id}), !.disabled = @ \ {id}]
  /\ UNCHANGED <<cfg, cache, gone>>

(* POST /api/nodes/bulk-rename: the rows that are listed.                  *)
BulkRename(ids) ==
  LET targets == {id \in ids \cap IDs(Here) : Records(st, Here, id) = {}}
  IN  /\ Edit
      /\ st' = [st EXCEPT !.overrides = [id \in targets |-> NewName] @@ @]
      /\ UNCHANGED <<cfg, cache, gone>>

AddCustom(a) ==
  /\ Edit /\ CustomID(a) \notin IDs(CustomRows(st))
  /\ st' = [st EXCEPT !.custom = @ \cup {a}]
  /\ UNCHANGED <<cfg, cache, gone>>

DeleteCustom(a) ==
  /\ Edit /\ a \in st.custom
  /\ st' = [st EXCEPT !.custom = @ \ {a}, !.overrides = Without(@, {CustomID(a)}),
                      !.disabled = @ \ {CustomID(a)}, !.deleted = Without(@, {CustomID(a)})]
  /\ UNCHANGED <<cfg, cache, gone>>

ClearOverrides ==
  /\ Edit
  /\ st' = [st EXCEPT !.overrides = <<>>, !.disabled = {}, !.deleted = <<>>]
  /\ gone' = {}
  /\ UNCHANGED <<cfg, cache>>

(* GET /api/nodes/deleted prunes as it lists.                              *)
ListDeleted(sure) ==
  /\ st' = PruneForCurrent(cfg, st, Shown(cfg, cache, st), sure)
  /\ UNCHANGED <<cfg, cache, gone, edits>>

(* POST restore-draft: what the browser kept goes to a new workspace, with *)
(* a cache directory of its own.                                           *)
RestoreDraft(sure) ==
  LET empty == [x \in SubscriptionSet |-> NoList]
  IN  /\ Edit
      /\ cache' = empty
      /\ st' = PruneRestored(cfg, empty, [st EXCEPT !.audit = {}], sure)
      /\ UNCHANGED <<cfg, gone>>

(* A browser may still show a row that is no longer there.                 *)
KnownIDs == IDs(Here) \cup DOMAIN st.deleted \cup st.disabled

Batches == LET known == KnownIDs IN {{id} : id \in known} \cup {IDs(Here), known}

Next ==
  \/ Refresh
  \/ \E new \in Configs, sure \in BOOLEAN : HandleConfig(new, sure)
  \/ \E ids \in Batches :
       DeleteNodes(ids) \/ EnableNodes(ids) \/ DisableNodes(ids) \/ BulkRename(ids)
  \/ \E id \in KnownIDs : \E on \in BOOLEAN : SaveOverride(id, on)
  \/ \E id \in KnownIDs : ResetOverride(id)
  \/ \E a \in Additions : AddCustom(a) \/ DeleteCustom(a)
  \/ ClearOverrides
  \/ \E sure \in BOOLEAN : ListDeleted(sure) \/ RestoreDraft(sure)

Spec == Init /\ [][Next]_vars

-----------------------------------------------------------------------------
(* A node the user deleted stays out of everything that is rendered until  *)
(* it is restored: whatever the sources serve, under its old connection or *)
(* under a new one, if the name is still that of one node of the source;   *)
(* through renamings, changes of scope, configuration changes that stop    *)
(* half way, pruning and the move of a draft to a new workspace.           *)
DeletedStaysHidden ==
  LET rows  == Here
      final == Final(cfg, st, rows)
  IN  \A x \in gone : x.firm => \A r \in final : ~Stands(x, rows, r.id)

(* Nothing else is hidden: a row that is neither an informational one nor  *)
(* disabled, and that is not what the user deleted, is rendered, by itself *)
(* or merged with a row of the same connection.  In particular restoring a *)
(* row undoes all records it stands for, a name that two nodes of a source *)
(* share hides neither, and deleting one copy of a connection leaves the   *)
(* other.                                                                  *)
OnlyDeletedIsHidden ==
  LET rows   == Here
      served == {q.conn : q \in Final(cfg, st, rows)}
  IN  \A r \in rows :
        ( /\ r.name # Info /\ r.id \notin st.disabled
          /\ \A x \in gone : ~Stands(WithLaterNames(x), rows, r.id) )
        => r.conn \in served
=============================================================================
