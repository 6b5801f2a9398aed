# Verification of subconv-next

subconv-next is a Go service that fetches proxy subscriptions, merges and edits
their nodes per workspace, renders a Mihomo configuration, and serves the result
under private links. This directory holds TLA+ models of its state and of the
conversion itself, TLC runs over small instances of them, and TLAPS proofs of what
matters most for every instance.

* [The system](#the-system) — components, state, operations, hard behaviours
* [The modules](#the-modules) — what models what, and how
* [The runs](#the-runs) — what is checked, bounds, fairness
* [The proofs](#the-proofs)
* [Where code and documents disagree](#where-code-and-documents-disagree)
* [What is not modelled](#what-is-not-modelled)
* [Plan](#plan)

`PROJECT.json` lists all of this by name, with the lines of the source that each
definition translates, the hazards of the code, and for every property a change of
the code that it would catch.

## The system

One process serves HTTP requests, each in a goroutine of its own, next to two
goroutines of `StartScheduler`: one refreshes the service's own configuration and
every workspace bound to a publication, the other removes expired workspaces and
stale publications. All durable state is files below the data directory. A file is
written to a temporary name and renamed (`storage.AtomicWriteFile`), so a write
happens completely or not at all; a change of two files can stop between them.

| Component | State | Operations | Interacts with |
| --- | --- | --- | --- |
| Workspace locks, `workspace_locks.go` | table of reference-counted mutexes by workspace hash | `lock`, `tryLock`, unlock; `lockWorkspaceHashes` for two | middleware around every workspace request; refreshes; deletions of publications |
| Refresh engine, `refresh.go` | `refreshRuns` (keys of running jobs), `refreshSlots`, status; staged and output files | `startRefreshForConfig`, `executeRefresh`, `finishRefresh`, scheduled refreshes | locks, pipeline, node state, publications |
| Publications, `published.go` | a directory per publication with `meta.json` and `current.yaml`; legacy files; token index; access counters and timers | create, bind, finalize, release, rotate, delete, sweep, look up, migrate, count accesses | workspaces name a publication; there is no index back |
| Workspaces, `workspaces.go` | a directory per workspace: `config.json`, `meta.json`, `state.json`, cache | create under a limit, load and touch, expire unless pinned, remove | locks, publications |
| Handlers, `handlers.go`, `nodes.go` | none of their own | edit configuration and nodes, bind, restore, refresh, download | all of the above |
| Node state, `nodestate`, `model/node_state.go`, `node_state_cleanup.go` | overrides, disabled, custom and deleted nodes, subscription metadata | load, normalise, save; prune after configuration changes; resolve deleted nodes | refreshes write it back after rendering |
| Pipeline, `internal/pipeline` | parse cache in memory | collect, filter, override, de-duplicate and name nodes; render; validate the output | fetcher, parsers, renderer |
| Fetcher, `internal/fetcher` | cache directories, one shared by all workspaces | fetch with redirects, limits and fallback to the cache | pipeline |
| Backup, `internal/backup` | archive and staging directories | export, inspect, restore with rollback | service init script |
| Limits and sessions, `security.go`, `auth.go` | sliding windows per client | allow or refuse; sign and verify sessions | middleware |
| Renderer, parsers, configuration | none | translations: links, YAML and WireGuard files to nodes; nodes and options to proxies, groups, rules and providers | pipeline |
| Site logo, update check, redaction, CLI, web interfaces, OpenWrt files | small caches, or none | | |

What makes each of them correct, and hard to test:

* **Locks.** At most one caller is inside a workspace, although entries come and go
  while callers are between finding an entry and locking it; nothing stays in the
  table; whoever waits gets in.
* **Refresh engine.** Jobs that share a workspace or an output file exclude each
  other; every way a job ends gives back its keys and its slot once; minutes of
  fetching between loading and saving the node state lose no edit; a published file
  is what its job rendered and validated.
* **Publications.** A deletion races bindings and refreshes of other workspaces: no
  dangling reference, nothing comes back, nothing is left that nobody refers to,
  limits hold, no deadlock between callers that hold one workspace and visit others.
* **Links.** The index lags behind `meta.json`; a live link is found all the same and
  a rotated one is not served, whatever scan or clean-up is under way.
* **Access counts.** Batches, timers, failed writes and deletions overlap, and every
  download counts once.
* **Workspaces.** Creations count directories that others remove meanwhile; the limit
  holds, and neither of the clean-ups removes a workspace that somebody uses.
* **Download cache.** An entry is two files, and one directory is written by all
  workspaces at once; nothing stale passes for fresh, and a copy that is there is found.
* **Parse cache and limiter.** Counters agree with what they count although parsing
  happens outside the mutex and requests reach it late; a full table recovers.
* **Backup.** Six steps that can each fail or be cut off, with a rollback for each:
  the result is the old state or the new one, and the old data are never lost.
* **Node state.** A deletion is remembered by node IDs, by sources and by names, since a
  subscription may give a node a new connection at any time; renaming, scopes, merges,
  disappearing sources and half-written configurations must neither bring a deleted
  node back nor hide another.
* **Rendering.** Nodes, groups, rules and providers refer to each other by name, in
  functions that each resolve the user's rules anew; a file that is written must load.
* **Fields.** A value of a source passes through three tables, defaults, and a
  passthrough of unknown fields; it must reach the file under the key mihomo reads.

## The modules

Each concurrent module has one action per critical section or per stretch of code in
which nothing shared is touched; a local variable of a handler that lives across two
actions is a variable indexed by actor, and `pc`, `stage` or `step` says where the actor
is. Every possible failure of a step (an error, or a panic, which runs the same deferred
calls) is an alternative of its action. `Crash`, `Restart` and `Kill` lose memory and
keep files.

```
WorkspaceMutex            one plain mutex per workspace (abstract)
  ^ implemented by WorkspaceLocks        the reference-counted table
  ^ used by        RefreshRuns           jobs, slots, staged files, node state
  ^ used by        Publications          bindings, deletion, sweep, limits
PublishedTokens           links, token index, legacy migration
AccessCounts              one publication's access counter
WorkspaceLifecycle        workspace directories: limit, use, expiry, clean-up
FetchCache                two-file copies in own and shared directories
ParseCache                least-recently-used cache under three limits
RateLimiter               sliding windows in a bounded table
BackupRestore             export, inspection, restore and rollback
Resources                 the last five, each in behaviours of its own
NodeEditing               node edits, deletion records, pruning, what is rendered
Rendering                 configuration and nodes to groups, rules, providers
ProxyFields               fields of a proxy from source to file and back
  ^ inputs from    ProxySources
Conversion                the last three, each in behaviours of its own
```

**WorkspaceMutex** is what every other component assumes of the locks: `holder[k]`
is the caller inside workspace `k`, `Acquire` and `Release` change it. WorkspaceLocks
implements it, and RefreshRuns and Publications take it as `Locks!Acquire`, so that
they need not know of entries and counters.

**WorkspaceLocks** models `workspaceLockManager`. `entries` is the table, `refs` the
counters, `heldBy` the state of each `entry.mu`; `Register` is the first critical
section of `lock` and `tryLock`, `Acquire` and `Refuse` the attempt on `entry.mu`,
`Unlock` and `Leave` the two steps of the unlock function. Entries are addresses, so
an entry that nothing refers to can be allocated again for another key.

**RefreshRuns** models `refresh.go` around the pipeline. A job enters a workspace
(`Enter`), is admitted or refused (`Start`), renders from the node state it finds
(`Render`), saves that state (`Save`), stages the result (`StageResult`), reads it
back and validates it (`Validate`), publishes (`Publish`), removes the staged file
(`Cleanup`) and gives back its keys and slot (`Finish`); `Edit` is any handler that
loads, changes and saves the node state. A node state is the number of edits it
contains, a rendered file the record of what it was rendered from. The scheduler's
refresh of the service's own configuration takes no lock and uses the scope
`Service`.

**Publications** models the life of a publication together with the workspaces bound
to it. On disk, `dirOf`, `metaOf` and `yamlOf` are the publications with a directory,
a `meta.json` and a `current.yaml`; `bound` is the `publish_id` of each workspace.
The refresh appears with those of its steps that touch publications: `Ensure`,
`LockCreate`, `Count`, `Make`, `BindNew`, `Config`, `Start`, `StageResult`, `Publish`,
`Finalize`, `BindDone`, and `Release` and `Discard` when it fails. `Remove` and
`Clear` are a deletion and its visits of all workspaces; `BeginSweep`, `SweepOne`,
`SweepDone` are `cleanupStalePublished`, in the cleanup goroutine or inside
`createPublished` at the limit.

A publication of an earlier version is two files named by its token (`oldFiles`) and a token
in the `meta.json` of its workspace (`oldRefs`). The first refresh of that workspace, or the
first download of its link, makes a publication of it: `Migrate` reads the files and creates
a directory and a `meta.json`, `Fill` writes the content, `Date` takes over the dates and
removes the files. A refresh that finds the files gone, or fails on the way, creates an
empty publication with the earlier token instead (`Fallback`), and `Rebind` saves either in
the workspace. None of these takes `publishedCreateMu`, looks at the limit, or counts as
created by the refresh. `migrated` are the publications made that way.

Creating workspaces is left out (a new one is bound to nothing), and so is the token, which
is the subject of

**PublishedTokens.** `token` is the token in each `meta.json`, `index` and `loaded`
the index in memory. A change (`Create`, `Rotate`, `Update`, `Delete`) ends at the
unlock of `publishedMetaMu`, and `Reindex` or `Unindex` follows. A lookup reads the
index (`Look`), checks the `meta.json` (`Load`), drops a wrong entry (`Drop`), scans
the directory once (`Ensure`, `Scan`, `Merge`), tries again and falls back on the
files of earlier versions (`MigrateLegacy` and what follows). Hashing is taken to be
injective. A token is looked up by somebody who was told it: not before the response
of the request that set it, which comes after the index.

**AccessCounts** models the counter of one publication: `Record` under
`publishedAccessMu`, the timer (`Fire`, `Flush`), `Persist` into `meta.json`,
`Requeue` when that fails, `Forget` after a deletion. A timer that has fired cannot be
stopped any more, and a flush drops the reference to a newer timer: such timers are
`orphans`. Time is abstract: the interval may have passed at any step.

**WorkspaceLifecycle** models `workspaces.go`. `Use` is a request: under the workspace
lock, `loadWorkspace` removes the workspace if it has expired and is not pinned, and
otherwise writes `LastAccessAt`; `Return` gives the lock back. A clean-up lists the
directories (`List`) and visits each under its lock (`Visit`), in the goroutine of
`StartScheduler` (`CleanUp`) or as the first part of a creation (`BeginCreate`, which
holds `workspaceCreateMu`); `Count`, `MakeDir` and `WriteMeta` are the rest of
`createWorkspace`. Removals and writes can fail, and a directory without `meta.json`
remains. `asked` remembers when a request last asked for a workspace, apart from what
the file says.

**FetchCache** models the download cache of one URL in `fetcher.go`. A fetch reads the
body and then the metadata (`ReadBody`, `ReadMeta`) of its own and of the shared
directory, asks the network (`NetworkAnswers`, `NetworkFails`, and the second attempt
`RetryAsGenericClient`), and writes the body and then the metadata of each directory
(`WriteOwn`, `WriteShared`), each file by itself. A download is its size, time and
number: the code compares the first two, the number is what really distinguishes two
downloads.

**ParseCache** models `parse_cache.go`: `Lookup` and `Store` are its two critical
sections, parsing happens in between. **RateLimiter** models `requestRateLimiter` in
`security.go`: `Arrive` reads the clock, `Allow` is the critical section, with the
clean-up once per window and the refusal of new keys in a full map.

**BackupRestore** models `archive.go`. `Export` is what the export writes for a tree of
files; `Inspect` the checks on an archive, which may also be a damaged one. `Begin` to
`Commit` are the steps of `Restore` in the order of the code, the `Undo…` actions the
rollback, and `Kill` ends the process at any of them,
which releases the lock file as the operating system does. `ServiceRunning` is the question
to the init script (`archive.go:637-644`), for which every failure and every time-out is a
no: a restore may take the running service for stopped. It then skips the stop and the start
and swaps the files under the running service; `unseen` is the history of that. The same
question after the start makes the start fail and is part of `ServiceCommandFails`. What the
service itself writes meanwhile is not modelled.

**NodeEditing** models one workspace's `nodes.go`, `model/node_state.go`,
`model/node_deletion.go`, `node_state_cleanup.go` and the parts of the pipeline that
apply the state. `cache` is what each subscription served last, `st` the node state with
its overrides, disabled and deleted nodes, custom nodes and the audit that pruning reads.
Every handler is one action, since it holds the workspace lock; `HandleConfig` is
`PUT /api/config`, whose two writes may stop half way (`StateFirst`, `WriteBoth`). An
identity is built from what the code builds it from: the connection, the source or the
position, by scope. `gone` is a history of what the user deleted and has not restored:
the ID of each row, the names and sources it had, and in `seen` every source it was known
to have. `Lasting` says how long a deletion has to hold (see `DeletedStaysHidden` below).
The code remembers a deleted node by a hash of its subscription's ID and URL, its type and
its name (`node_deletion.go:22`). Here a name stands for the type and the name together, as
one connection has one type, so "another name" also covers an entry of the same name whose
protocol changes. The URL is left out: no configuration of the model gives a subscription
another one.

**Rendering** models the way from a submitted configuration and collected nodes to a
written file: `Save` (normalisation and validation), `BuildFinalNodes` (prefixes,
filters, unique names), `SnapshotRemoteCustomRules`, `ValidateFinalNodes`,
`RenderMihomo` (groups, rules, providers) and `ValidateFinalConfig` with the lint. Most
of the module is pure operators, one per function of `mihomo.go`, `pipeline.go` and
`output_validation.go`. A custom rule keeps its rules inline, at a URL or in a file, at the
path it gets or at one of the user's. A name is a short sequence of words, so that a prefix, a suffix
and a clash are visible. The catalog of rule categories is a constant.

**ProxyFields** models what happens to the fields of a proxy. Copying is written as
tables (`YamlTable`, one `Link…` table per scheme, `WriteTable`), as in the code, where
it is a list of assignments; what is not copying (defaults, sections of nested mappings,
transports, fingerprints, the passthrough, de-duplication, identity) is an operator of
its own. `NormalizeNode` puts servers in lower case, sorts ALPN and takes out repetitions:
a value that is not normal yet ("SERVER", "unsorted alpn") and its normal form are two
tokens. `Parse`, `ApplyNodeOverrides` and `RenderMihomo` are the three stages, the last with
the options of the rendering that override nodes (`ApplyNodeRenderFlags`: the default
fingerprint, `skip_tls_verify`, `udp`), and `Import` takes the written file as a source for
a second round. **ProxySources** builds
its bounded inputs.

The modules named MC… only add constants, symmetry and inputs; each says what its
instances cover. MCProgress, MCPublished, Conversion and Resources put
components that share no state into one run: the initial state chooses the one that moves, the
others stay where they are, so that their state spaces add up and do not multiply. A
definition whose comment starts with "Mutant" is a plausible bug in the definition after
it; it is not part of any specification.

## The runs

Twelve runs, six of which must hold and six of which must show a disagreement between
the code and a document. `tlc -workers 2 -config X.cfg M` runs one of them; none takes
longer than a few minutes.

| Run | Configuration, module | States | What it shows |
| --- | --- | --- | --- |
| `progress` | `Progress.cfg`, MCProgress | 0.1 million | The lock table excludes, leaks no entry, lets every waiter in, and implements WorkspaceMutex; every registered key of a refresh becomes free again |
| `refresh_runs` | `RefreshRuns.cfg`, MCRefreshRuns | 2.5 million | Jobs exclude each other, slots are exact, edits survive refreshes, a file is what its own job validated |
| `published` | `Published.cfg`, MCPublished | 2.5 million | No dangling reference, no resurrected or forgotten publication, the limit holds, pinned workspaces stay; a live link is found, a dead one is not served, the index is complete |
| `access_counts` | `AccessCounts.cfg`, MCAccessCounts | 0.7 million | Accesses are conserved and written eventually, the last access never goes back |
| `resources` | `Resources.cfg`, MCResources | 2.3 million | Download cache, parse cache, rate limiter, restore, workspace directories |
| `conversion` | `Conversion.cfg`, MCConversion | 0.4 million | Groups and rules, node edits, fields of proxies |
| `publications_deadlock` | `PublicationsDeadlock.cfg`, MCPublications | | Fails: requests on two workspaces wait for each other |
| `publications_cap` | `PublicationsCap.cfg`, MCPublications | | Fails: more published items than the limit |
| `published_tokens_rotated` | `PublishedTokensRotated.cfg`, MCPublishedTokens | | Fails: an old link is served after its rotation |
| `rendering_source_names` | `RenderingSourceNames.cfg`, MCRendering | | Fails: a source's name makes every rendering fail |
| `explicit_fingerprints` | `ProxyFieldsFingerprint.cfg`, MCProxyFields | | Fails: a default replaces a fingerprint of the source |
| `ssr_links` | `ProxyFieldsSSR.cfg`, MCProxyFields | | Fails: a node is written without a field it needs |

### What each run says of the code

*progress.* The hazard of the lock table is the gap between finding an entry under
`m.mu` and locking `entry.mu`: another caller may leave in it, delete the entry, and a
third may create a second one for the same hash. `MutualExclusion` fails at once if a
caller other than the last deletes the entry; `NoLeakedEntry` fails if a refused
`tryLock` does not take back its reference; `ImplementsMutex` is the refinement of
WorkspaceMutex. `WaiterAcquires` says what the table owes to a caller whatever the holders
do: if the workspace it waits for is left again and again, it gets in, and only a holder of
that same workspace that stays for ever can keep it out; it fails if the closure counts its
caller out without unlocking the entry. `RunsEnd` says that no way of ending a refresh, failure, panic and
restart included, leaves a key registered.

*refresh_runs.* A refresh reads the node state, fetches for a long time, writes the
state back, stages a file at a path derived from its output, reads it back, and
renames it. `EditsSurvive` and `PublishesOwnBuild` would both fail if two jobs could
be inside one workspace; `PublishesOwnBuild` also depends on the second key of
`startRefreshForConfig`, as two workspaces bound to one publication have the same
output and the same staged file, and on the validation of what was read back.
`SlotsAreExact` covers all ways in which a job ends: refused for one of its keys or
for want of a slot, failed before or after each file, panicked, finished.

*published.* The deletion of a publication removes its directory first and visits
the workspaces afterwards, so references dangle for a while: `NoDanglingBinding` says
that whoever made one dangle still has that workspace ahead. `DeletedStaysDeleted`
rests on `finalizePublishedRefresh` loading `meta.json` again, `LivePublicationsBounded` on
`publishedCreateMu`, `NoForgottenPublication` on `releaseWorkspacePublishedRef` after a
refresh that failed, and `PinnedWorkspaceSurvives` on the workspace lock that the removal of
an expired workspace takes. A crash, or a write or removal that failed, may leave things
behind, which the code accepts; the variable `interrupted` records whose.

Two of these properties hold with exceptions that are no crash and no failed write, but what
the code does; the definitions name them:

* `LivePublicationsBounded` counts what `createPublished` created. What is migrated from an
  earlier version comes on top (`Created`): `createPublishedWithToken` is called without
  `publishedCreateMu` and without a look at the limit (`published.go:408`, `published.go:439`),
  so that all live publications together may be more than the limit. The run shows that a
  migration between the count and the creation does not mislead the others.
* `NoForgottenPublication` excepts the publications in `leftBehind`. A refresh whose
  `loadWorkspaceConfig` fails returns without giving up the publication it has just created
  (`handlers.go:1083`), and a refresh that could not migrate and then fails leaves the empty
  publication it made for want of the files, since `created` is false of it
  (`published.go:387-388`, `published.go:461`). Both stay bound to their workspace, without
  content, until a refresh of that workspace replaces them (`ensureWorkspacePublishedRef`
  does not keep a publication without content) or a sweep finds them stale; a refresh that
  replaces one leaves its directory, which counts against the limit.

`LiveLinkIsFound` speaks of a link that was live when the download
began and until it is answered. It fails if a scan is taken for finished before it is
merged. `IndexIsComplete` fails if the scan replaces the index instead of adding to it,
since a link created during the scan is then lost. `NewLinksDie` fails if the index is
believed without a look at `meta.json`. `misread` records publications whose
`meta.json` could once not be read: the code drops their index entries, and nothing
restores them before the next change.

*access_counts.* `AccessesAreConserved` says that each counted download is in one
place; it fails if a failed batch replaces what arrived meanwhile. `EventuallyCounted`
fails if putting a batch back arms no timer.

*resources.* `FreshAnswersAreFresh` is the reason why a body is written before its
metadata: in the other order a crash leaves an old body under new metadata of the same
size, which is then answered as fresh. `CopiesAreFound` says what the fallbacks are for:
an editor that works offline finds what a refresh saved, whatever other workspaces do to
the shared directory. `ParseCacheIsBounded` fails if the second of two requests that
parsed the same source counts it again. `AcceptedPerWindow` is stated for a window that
is shorter by twice the time a request may be late: a key whose times are out of order
can be cleaned away although one of them is recent, and the code bounds no better.
`FullTableRecovers` fails if only the first request ever triggers the clean-up.
`AllOrNothing` allows one failing step and no kill, as the code's rollback does. It has two
exceptions for a restore whose question whether the service runs failed (`unseen`), which
the code does not tell from a stopped service: if it fails later, the service may be left
stopped, because the rollback stops it and the start is skipped; and while its swap is under
way (`Swapping`) the service may run on files of different origin. Without the second one
TLC shows a service that runs with the data directory moved away. The files themselves are
all or nothing in either case;
`OldDataSurvives` allows both, but not a second failure. `ArchivesAreIntact` also says that what Export writes is
accepted by Restore, except that Export counts neither the manifest nor the
configuration against limits that Restore applies to them. `LimitIsKept` fails without
`workspaceCreateMu`, `WorkspacesInUseSurvive` if a visit of the clean-up does not take the
workspace's lock.

*conversion.* `WrittenFilesLoad` says that the checks before a write suffice, whatever
groups, rules and providers the user defines: every reference in the file resolves, names
are unique, the last rule is a MATCH. Outside strict mode nothing looks where a MATCH leads,
so the property says that of strict mode only. `GeneratedFilesPass` says that, as long as
nothing of the user's own names something that could be missing, no set of nodes makes the
checks fail, under two further conditions without which TLC finds a refusal. No final name,
prefix included, is the name under which a source sent a node that was filtered out: the
checks compare the two as plain names (`final_nodes.go:120`, `output_validation.go:41`), so
a source called S with a node A is refused as soon as another source sends an "S A" that is
hidden. And no file of a custom rule is that of another rule provider: the lint refuses two
providers with one path (`lint.go:68`), which the configuration's validation lets pass.
`CustomRulesAreServed`
says that a custom rule reaches the file before the catalog, with its own provider and with
the target it was told (a group named after its label and after nothing else, or the target
it names), although three functions resolve it separately with different reserved names.
`OrdinaryLabel` excepts the labels for which that is false. A rule that makes its own group
and is labelled PROXY, without an icon, gets a group called PROXY, but `mergeRules` takes the
target of its line for the alias of the main selection (`mihomo.go:1465`, `mihomo.go:1525`).
A label that is the name of a region group does the same: the group, made with the region
groups in view (`mihomo.go:846`), is called something else, and the line, made without them
(`mihomo.go:1414`), leads to the region. In both cases nothing uses the new group. `GroupsDoNotLoop` says that
generated groups contain no cycle, unless a group has the name of a node or of a built-in
policy, which nothing in the code rules out.
`DeletedStaysHidden` and `OnlyDeletedIsHidden` are the two sides of deletion records:
what the user deleted does not come back, under a new connection either as long as its
name tells it apart, and nothing else disappears. The first says it of a deletion that is
*lasting*, and the code decides for how long: as long as one of the subscriptions the node
was deleted from is configured, and for a node that was never in one, as long as the
inline list has it under the ID it was deleted by. The code forgets two deletions that a
user might expect it to keep. A node that is typed into the configuration *and* was seen in
a subscription loses its record when that subscription is removed, since its record names a
source by then, and the comment in `pruneDeletedNodeStateForConfigChange` that records of
inline nodes are kept (`node_state_cleanup.go:26`) holds only while some other record has no
source. And the record of an inline node goes with the removal of any subscription while
the scope of de-duplication is another one than at the deletion, since IDs depend on it.
`DeletedStaysHidden` excepts both by `Lasting`. `ValuesAreServed` and
`RenderingIsStable` are about fields: each value of a source is in the file under the key
that mihomo reads, or its normal form (see `NormalizeNode`), and the file is a fixed point
of the conversion. The normal form of an ALPN list is sorted, so the order of preference a
source gave is lost. The inputs have every form below; what `ValuesAreServed` excepts
(`NotServed`) is a list:

* of a YAML proxy: `client-fingerprint` of trojan (see `explicit_fingerprints`); `obfs` and
  `obfs-password` of hysteria2 when the method is "none"; the unknown keys of a transport's
  mapping or of `reality-opts` that is written anew from its known keys, which
  `xhttp-opts` (so its `host`, too) and `reality-opts` always are;
* of any link: parameters unknown to its parser;
* of single kinds of links: the plugin of `ss://`; protocol and the two parameters of
  `ssr://` (see `ssr_links`); `alpn` of `vmess://` and `vless://`, the header type of
  `vmess://`; `fp` of `trojan://`; `ech` of `anytls://`;
* of a link's transport: the service name of gRPC in `trojan://` (`serviceName`,
  `uri_trojan.go:30`) and `vmess://` (`path`, `uri_vmess.go:30`); the host of xhttp, which
  `applyTransport` does not write (`mihomo.go:779`); the mode and the gRPC header of xhttp
  in `trojan://`; and what a transport has no use for, such as a host with gRPC;
* of a WireGuard file: unknown keys; with several peers their keys are written as a list,
  which is one value here, like the `peers` of a YAML proxy;
* the second of two tuic nodes that differ in nothing but their password, since nodes are
  merged by endpoint and one credential;
* edits that take something away: an emptied field, a flag switched off, the password of a
  hysteria node, the server of a WireGuard node with peers. The passthrough writes the
  source's value back.

`skip_tls_verify` turns a flag on that a source switched off, which is what it is for.

### Bounds, and why they are enough

* *Actors.* Two, wherever a property is about a pair of overlapping requests; three
  where a third matters: the caller who comes between two others (`progress`),
  the job that shares the workspace of one job and the output of another and the job
  that finds all slots taken (`refresh_runs`), a download, a timer and a deletion
  (`access_counts`), and two refreshes beside a sweep (`publications_cap`).
* *Workspaces.* Two: what one may do to the other, and a "next" workspace for whoever
  visits all of them. In WorkspaceLifecycle there is one ID more than the limit allows.
* *Publications.* Two IDs under a limit of one. IDs are drawn at random and never
  reused, so an instance with more of them can do the same things more often. The
  limit of one is hit by the second creation. A behaviour of `published` is one of three:
  publications of this version only, with every request and one crash or failure anywhere
  (in a private instance, which adds restoring and drops the limit, one failed write only:
  what a crash or a failed removal leaves behind is excused there as in the public one);
  one workspace with an earlier publication and its files, with the requests that refresh,
  download, delete and sweep, and one failure in the migration; or links. Migration and the
  bindings that a user sets by hand are not combined, since the state space would be several
  times as large; the proofs are about all of it together.
* *Tokens.* One of an earlier version and two fresh ones: a token before and after a
  rotation of one publication, or the tokens of two publications.
* *Caches.* Two downloads of sizes that differ or not, at two times; six sources, so that
  each of three limits binds first for one of them and one source has errors. Two clients
  for a limiter of one, seven ticks for a window of three.
* *Archives.* Two data files and the configuration, of sizes around the limits, and each
  way in which an archive can be damaged.
* *Nodes.* Three in Rendering, with two regions and five categories, one of every kind the
  code treats differently, one of them hidden under the final name of another; two custom
  rules, whose files may be one, one group, one provider of the user's. Two
  subscriptions, one with three versions, and two edits in NodeEditing: a deletion and
  whatever may undo it. In ProxyFields each type in each form, with none, one, two, all or
  all but one of its optional fields, every transport with its settings, values that are
  not normal, three sets of render options, and pairs that may be merged.
* `MaxEdits`, `MaxCrashes`, `MaxFailures`, `MaxMishaps`, `MaxAccesses` and `MaxTime` bound
  counters of the environment: one edit is enough to be lost, and one crash or failure
  can come at any step. Three downloads are one written, one pending, one on its way.
* `Cap`, the number of refresh slots (`maxRefreshWorkers`), is 2 with three jobs and 1
  with two, so that slots do run out.
* Addresses of lock entries: one per caller, as no more can be in use.

Symmetry is used for interchangeable actors, publication IDs and tokens, and only in
runs without liveness properties. Workspaces are not interchangeable in Publications:
they are visited in the order of `os.ReadDir`.

### Fairness

* WorkspaceLocks: the steps of the manager go on, so `Leave` and `Refuse` are weakly
  fair. `Acquire` is strongly fair: `sync.Mutex` hands the mutex to the longest
  waiter once one has waited for a millisecond, so a waiter does not lose against
  newcomers for ever. `Unlock` is not fair: a holder may wait for another mutex, and
  `publications_deadlock` shows one that waits for ever (`published.go:943`).
* RefreshRuns: a job that was let in goes on (weak fairness of its step). Each step is
  bounded in time: fetching has timeouts, and nothing in a job waits for another job.
  Nobody is obliged to send a request and no crash is obliged to happen.
* AccessCounts: a goroutine goes on, and a timer fires (`time.AfterFunc`). Downloads,
  deletions and the passing of the interval are not fair.
* All other modules state safety only. Liveness of deletions would be false, as
  `publications_deadlock` shows; the limiter's recovery is stated as a property of the
  step that answers a request (`FullTableRecovers`), and so is the freshness of an answer.

### Deadlock

TLC looks for deadlock in `progress` and `refresh_runs`. The other specifications may
stop: publication IDs, tokens, downloads and clock ticks run out, a restore or a rendering
ends. In Publications the question is asked properly by `NoDeadlock`, which is about
actors that wait for each other, whatever else goes on.

## The proofs

`tlapm M.tla` checks a module. `WorkspaceLocksProofs`, `RefreshRunsProofs`,
`PublicationsProofs`, `PublishedTokensProofs`, `AccessCountsProofs` and `ResourcesProofs`
prove, for every value of the constants, every safety property that `progress`,
`refresh_runs`, `published`, `access_counts` and `resources` check on small instances, and
`ConversionProofs` five of those of `conversion`; `FiniteSums` has the lemmas on sums that
three of the arguments need, and those on least elements for a fourth. ResourcesProofs and
ConversionProofs are the longest and take about ten minutes each, the others one or two.

Assumptions on constants (all evaluated by TLC as well): the sets of callers and of
jobs are finite, as they are goroutines; `Nobody`, `NoEntry`, `NoJob` are none of the
values they stand beside; `Cap` is a natural number; the keys of jobs
(workspaces, output files, the service) are different values, as the code gives them
different prefixes; workspace IDs are finitely many and at least one (they have 144 random
bits); in Publications, where they are listed in an order, they are natural numbers;
the empty publish ID and the missing token are none of the IDs and tokens;
the limits on workspaces and on publications are natural numbers; the goroutines that count
downloads are finitely many (`ActorsAreFinite`). In Resources: the shared directory is no
workspace's, and a missing file no download (`FetchAssumption`); the marks for old, missing
and partial data are no restorer's name (`RestoreAssumption`); sizes and limits are natural
numbers (`ParseAssumption`); the limits of the limiter are at least one, and a request takes
the mutex at most one window after it read the clock (`LimiterAssumption`; a window is a
minute). In Rendering: the catalog, the preset and every configuration have the shapes that
the structures of the code give them, and lists of regions and of nodes are lists
(`InputsAssumption`), and the words that the module
writes as literals are strings (`StringsAssumption`), which is true of TLA+ and not known to
the prover. In Conversion (`EditingAssumption`): the inline list and what a version serves are
lists, a configuration has one of the three scopes of de-duplication, and no subscription
has the name that stands for the inline list or for the custom nodes, which the code tells
apart by their kind. Keys, output files, addresses, publish IDs, workspaces of the download cache,
sources, clients and requests may be infinitely many. The bounds on edits, crashes,
mishaps and time are arbitrary: what is proved holds for each of them, so for every
behaviour with finitely many such events, and a safety property that is violated is
violated after finitely many.

**WorkspaceLocksProofs.** `MutualExclusion` is not inductive: nothing in it says that
two holders of a hash hold the same entry. The invariant `LockInv` adds what the code
relies on silently:

* `RegisteredIsCurrent`: whoever has registered is registered with the entry that the
  table holds *now*, so the entry found under `m.mu` is still the right one when
  `entry.mu` is locked;
* `EntriesDistinct`: no entry belongs to two hashes;
* `HeldByHolders`: `entry.mu` is locked by the caller inside, and by nobody if there is
  none;
* `RefsCountUsers`: `refs` is the number of registered callers, which is why the entry
  survives as long as anybody is registered. This is a statement on cardinalities, and
  the two lemmas on `Users` gaining and losing a caller carry it.

There is one lemma per action, and `LockInvariant`, `TypeCorrect`, `Exclusion` and
`NothingLeaks` follow. `TableImplementsMutex` shows the refinement of WorkspaceMutex:
`Acquire` and `Unlock` are its `Acquire` and `Release`, the rest are stutters.

**RefreshRunsProofs.** The invariant `RefreshInv` is the conjunction of the checked
ones and of two more:

* `LocksAreHeld`: a job in a workspace holds its lock. `RunsAreExclusive` alone keeps
  refreshes apart but says nothing of edits; without this conjunct `EditsSurvive` is
  not preserved by `Save`;
* `BuildsAreCurrent`: between rendering and saving the node state has not changed, and
  the staged file between writing and validation is the job's own. Both are about
  *other* jobs: the first needs `LocksAreHeld`, the second `RunsAreExclusive`, since
  the staged path depends on the output file.

From it follow `RefreshTypeCorrect`, `RunsExclude`, `SlotsCount`, `EditsAreKept`, and
the action property `OwnBuildsPublished`.

**PublicationsProofs.** `LivePublicationsBounded` is strengthened as in the life of
workspaces, by `OneCreator` and `RoomIsKept`. Here the holder of `publishedCreateMu` also
goes through the sweep and its visits, so that being inside depends on where an actor will
go afterwards (`after`), and the directories, not the publications, are what is counted. A
migration adds a publication while another refresh is between its count and its creation;
`RoomIsKept` survives that because it is about `Created`, and what is migrated is not in it
from its first moment on (`MigrationsKeepLimit`).

The second half is about bindings. `NoDanglingBinding` says who will clear a reference that
dangles. It is not inductive: a request may have found a publication alive and bind it after
the deletion has visited its workspace. `BindInv` says why that does not happen:

* `LocksAreHeld`: a request holds the lock of its workspace, also while it sweeps inside
  `createPublished`; so a deletion cannot visit that workspace before the request ends;
* `BindersAreVisited`: what an actor is about to bind is alive, or the deletion has yet to
  visit its workspace. It carries the argument from the check to the save;
* `Private`: until a publication that a refresh or a migration made has content, no other workspace is
  bound to it and no other actor will bind it. `Discard` and `BindNew` remove one without
  visiting anybody, and that is safe for this reason only: the other requests refuse a
  publication without a `current.yaml`;
* `RefreshersStay` and `GoneAreFree`: a deletion lists the workspaces that exist at that
  moment, and everything that is bound is among them;
* `NoForgottenPublication` itself: whoever is at work on a publication stays so until the
  content is written, the publication is removed, or it is left in one of the ways that the
  property names (`WorkEnds`, `StepsOnLeftBehind`);
* `ExpiringAreFree`, for `PinnedWorkspaceSurvives`: between looking at a binding and removing
  the workspace nobody binds it, since the lock is held.

The module first proves what one step may change (`OthersAlone`, `BoundChanges`,
`PubChanges`, `LockChanges`, ...); only these lemmas look at the actions. One lemma per
conjunct follows, and then the theorems `BindingsAreLive`, `PublicationsAreFilled`,
`DeletionIsFinal`, `PinnedSurvive` and `TypesAreKept`, the last for the type invariant, which
needs that a set of natural numbers has a least one.

**PublishedTokensProofs.** Neither `NewLinksDie` nor `IndexIsComplete` is inductive: what a
step writes into the index was read earlier, by a scan or before an unlock, and may be out
of date. `LinkInv` says what such data can still claim:

* `OneOwner`: wherever a fresh token is said to belong to a publication (in a `meta.json`,
  in the index, in the result of a scan, or in the hands of an actor between a change and
  the index), it is the same publication. Stale data may name a token that is dead, never
  the wrong publication, so that a merge cannot put a token in another's place;
* `RevokedAreDead`: a token that is claimed for a publication and is not its token any more
  was revoked, and no publication has a revoked one;
* `RemovesRevoked`: what an actor takes out of the index is revoked, or did not match when it
  was loaded. This is why the clean-up after a failed load does not lose a live link;
* `Indexed`: a link that is not in the index is on its way there, or the index does not count
  as loaded and every scan under way has found it or has yet to come to it;
* `Expected` and `SecondLook`: what a lookup has to answer, and that the look after
  `ensurePublishedTokenIndex` finds a link that exists.

`RevokedLinksDie`, `LoadedIndexIsComplete` and `LiveLinksAreFound` follow, under the
assumption `ConstantsDiffer` on the constants (no publication is the empty ID, no token is
the missing one, legacy tokens are tokens). Links of an earlier version are excepted, as in
the properties. The end of **PublicationsProofs** carries the three over to MCPublished, whose
behaviours are behaviours of the links; there the assumption is `LinksDiffer`, which TLC
evaluates (`PublishedLinksDie`, `PublishedIndexIsComplete`, `PublishedLinksAreFound`).

**AccessCountsProofs.** `AccessesAreConserved` equates what has arrived with a sum over the
goroutines, so the counters only have to be natural numbers for it to be inductive
(`AccessInv`); the work is in what a step of one goroutine does to the sum. **FiniteSums**
answers that. `SumFunctionOnSet` of the community modules recurs over subsets in an order
that CHOOSE picks; the module shows that it is the number of *units*, pairs of an element and
a number up to its value, because counting units satisfies the equation of the recursion and
a smallest subset on which two solutions differ cannot exist. From there on, sums over finite
sets behave as expected: `SumOfMore`, `SumChangesInOnePlace`, `SumRenamed`, `SumOfUnion`.
`LastAccessIsMonotonic` is an action property, by cases on the two actions that write.

**ResourcesProofs, the workspaces.** `LimitIsKept` is not inductive, since a creation counts in one
step and makes a directory in a later one. `LifeInv` adds

* `OneCreator`: whoever is inside a creation holds `workspaceCreateMu`;
* `RoomIsKept`: what a creation counted is still true when it makes its directory, as
  everybody else only removes directories meanwhile;
* `AccessIsKnown`: a `meta.json` that can be loaded tells when its workspace was last asked
  for. It is what `WorkspacesInUseSurvive` needs: the removals decide by the file.

`LimitHolds` follows with two lemmas on cardinalities, and `InUseSurvive`, an action
property, from `StepSparesWorkspacesInUse`, which goes through the actions once more.

**ResourcesProofs, the download cache.** `CopiesAreFound` and `FreshAnswersAreFresh` need to
know, for every stage of a fetch, what it holds (`FetchInv`):

* `OwnOK`: the workspace's own directory has one writer, so what a reader saw is still there;
  the body is never older than its metadata, which is the point of the order of the two
  writes and all that `FreshAnswersAreFresh` rests on, crashes included;
* `OfflineOK`: an offline view of a workspace with a saved copy never leaves the own directory;
* `SharedOK`: while nobody wrote to the shared directory, what a fetch read of it is there;
* `StageOK`: only offline views and failed fetches reach the shared directory at all.

**ResourcesProofs, the restore command.** `RestoreInv` gives, for each step of `Restore` and of
the rollback, where the data are (`DataOK`: in place, put aside, put aside with the new ones
in their place, or put back), where the configuration is (`ConfigOK`) and whether the service
runs (`ServiceOK`: until the swap is over it runs only if it was taken for stopped), for the
holder of the lock file; `Settled` what an ended restore leaves,
and `NoMixture` that data and configuration have one origin whenever the lock is free. All
of it holds as long as one step at most has failed: after a second failure only the types,
the lock and, before it, the old data are certain (`failures <= 1 =>` in `RestoreInv`). That
is the code's own limit: when `SaveData` has put the old data aside, a later step fails, and
the rename of the rollback fails as well, the deferred removal of the rollback directory
(`archive.go:228`) takes the only copy. `MaxFailures = 2` shows it to TLC if the guard of
`OldDataSurvives` is dropped. `ArchiveInv` follows the archive: whatever is unpacked,
put aside or installed came from what Export wrote. `ExportIsAccepted` is the arithmetic of
the limits: names are distinct, and the sum over the entries in the archive is the sum over
the files (`SumRenamed`), for trees of any size.

**ResourcesProofs, the parse cache.** `ParseInv` is `ParseCacheIsBounded` with types and one
more conjunct: what is being parsed outside the mutex fits into an empty cache. It makes the
eviction stop (`KeptLeavesRoom`): the set of prefixes that leave room is never empty, because
the counters, being the sums, would be zero without entries. `StoreKeeps` and `ToFrontKeeps`
are about the list, `PrefixSum` about the sum over what stays and what goes.

**ResourcesProofs, the limiter.** The map forgets most of the history, so `AcceptedPerWindow`
says nothing of the map and is not inductive. `LimiterInv` relates the two:

* `Remembered`: what the map holds of a client is the end of its history, and all it left out
  is older than `clock - Window + MaxLag`;
* `AlmostOrdered`: a history is in order but for `MaxLag`. The clean-up looks at the last time
  only, so what it removes is out of the window by that time, and the rest of the history by
  `MaxLag` less. This is where the property loses one lag;
* `NotAhead`: a request is at most `MaxLag` behind the clock. Here it loses the other;
* `CleanedUp`: the last time of whoever is in the map was in the window at the last clean-up;
  `FullTableRecovers` follows from it, since silent clients cannot have passed that clean-up.

`OneMoreInWindow` puts it together: the accepted times that share a window with a new request
are among those that the map remembers, and those are fewer than the limit.

**ConversionProofs, the rendering.** Rendering takes six steps, and what has to be shown is what its functions
return, for any catalog, configuration and nodes. They are folds over sequences, and the fold
of the community modules is defined by a recursion on sets. The first part of the module
brings that down to something that can be used:

* `FoldsAgree` and `FoldExists`: a function that satisfies the equations of a fold is the
  fold, by contradiction at a smallest set of positions on which it is not, and there is one;
* `FoldSteps`: folding over the first n + 1 elements is one step after folding over the first
  n, from which `UniqueIs`, `KeepIs` and `ConcatIs` say what the three folds of the module
  return, and `ResolvedInPlace` what `ResolveCustomRules` does to one rule: how, among all the
  rules, its name is chosen, and that the set of reserved names only grows.

`Passed` is the invariant for `WrittenFilesLoad`: a file that is past the lint is not
`Critical`, and one that is written in strict mode is sound. The theorem is then that what the
two checks ask for implies what a client needs (`PassedFilesLoad`); that the last rule is a
MATCH is not what the lint asks in so many words: it compares the place of the last MATCH with
the number of rules, and that number is not zero by `BuildRulesAre`. `Made` is the one for
`CustomRulesAreServed`: what is past the lint was built from the configuration by
`BuildRules` and `BuildRuleProviders`. `LineIsServed` and `ProviderIsServed` follow one rule
through both. What is difficult is the name (`OwnTargetIs`): the search for a free number
ends, since of the numbers from 2 to the size of the reserved set plus 2 one must be free
(`UniqueGroupNameIsNew`, the pigeonhole principle), and the chosen name is not rewritten as
an alias. It needs that different numbers have different numerals, which the prover cannot
know of `ToString`; `RulesAreServed` therefore has this fact, `NumeralsDiffer`, as an
explicit hypothesis. Two errors in the properties came to light here. `WrittenFilesLoad` was
stated of the target of every MATCH, and `CustomRulesAreServed` of every label; TLC's inputs
had neither a MATCH to nowhere nor a label that is an alias. They have now, and the properties
say what is true of them.

**ConversionProofs, cycles of groups.** `GroupsDoNotLoop` is about `OnCycles`, the groups that
are left when, as often as there are groups, those that refer to nothing that is left are
taken away. Three things are needed:

* what each group refers to, after the two passes that tidy its members (`GroupsAre`): the
  functions that build lists are brought down to sets of elements (`ConcatHas`, `ListUnique`,
  `ListKept`, `ListNames`), and there is one lemma for each kind of group (`ServiceMembersAre`,
  `MainMembersAre`, `RegionMembersAre`, `RegionGroupsAre`, `RuleGroupsAre`,
  `CustomGroupsAre`);
* an order (`Rank`): groups that test their members refer to nodes only, regions to the tested
  group of their own and to nodes, the main selection to both, the services to all of these,
  and the user's groups to anything but each other. That a name means one group only
  (`NamesDiffer`) comes from the lint, through `Passed`: without it a user's group could
  stand for a region and lead back (`RefersDown`);
* that peeling ends with nothing (`NothingIsLeft`): as long as a group is left, one of the
  lowest rank goes, so the number of those left decreases with every step (`PeelSteps`).

The invariant, `Grouped`, says that the groups of whatever is past the lint were built by
`BuildProxyGroups` from the nodes that were written.

**ConversionProofs, the node editor.** Neither `DeletedStaysHidden` nor `OnlyDeletedIsHidden`
speaks of the sources and names in a deletion record, on which pruning and resolving depend.
`EditingInv` relates the records to the history of deletions (`Remembered`):

* `FirmIsRecorded`: a deletion that has to last has a record under its ID, which has all the
  names the row had when it was deleted and all the subscriptions it was deleted from, and no
  source the history does not know of (`Recorded`);
* `RecordsAreKnown`: every record is of a deletion, and its names are those the row had at
  the deletion or at a later one; this is what `OnlyDeletedIsHidden` needs;
* `SeenIsComplete`: what the rows and the audit say of the sources of a deleted node is in
  the history. The audit is evidence of earlier refreshes, and pruning adds it to a record
  long after, so that without this conjunct a record could acquire a source that is not
  there any more and be dropped with it;
* `IsState` and `IsDeletion`: the shapes, among them that sources are subscriptions and that
  custom nodes, which are told apart by their IDs, have no deletion.

Every kind of pruning is shown to be a `Follows`: a state with fewer records, each with the
same names and with sources for which there is `Evidence`. `PruneKeeps` says when a record
stays, `PrunedRecords` that a pruned state is still `Remembered`. There is one lemma per
action then. Rows come from `RowsDiffer` (de-duplication leaves one row for an ID), from
finiteness, since owners are counted, and from `RowsOfNothing`: the inline list has the same
rows whatever was fetched, since it comes first. From the invariant follow `DeletedAreHidden`
(a record hides its row, and whoever `Stands` for it by a name that is unique now) and
`OthersAreServed`, where the work is in `Merged`: rows of one connection are merged after the
deleted ones are out, so a deleted copy takes no other with it.

With three edits instead of two TLC shows what `Lasting` is for: without it the two cases
above violate `DeletedStaysHidden`.

### What is only model-checked

The liveness properties `WaiterAcquires`, `RunsEnd` and `EventuallyCounted`, since TLAPS proves
nothing about fairness and ENABLED here, and three of the eight properties of `conversion`.
`ValuesAreServed` and `RenderingIsStable` of ProxyFields are about tables of fields for every
type of proxy, which TLC goes through one by one; of arbitrary sources they are not true (of
known and unknown keys of one nested mapping the unknown ones are lost), so that a theorem
would have to describe the sources that ProxySources lists. `GeneratedFilesPass` of Rendering
says that the renderer accepts what it generates itself. Beside the conditions it states it
depends on the data: on a catalog without two categories of one name or provider, and with
the providers its rules name. Each would be a hypothesis on constants that the code does
not establish, and the theorem would say little more than these hypotheses.

## Where code and documents disagree

1. **Requests on different workspaces can wait for each other** (`NoDeadlock`).
   `clearPublishedAssociations` (`published.go:943`) runs in a request that holds the
   lock of its own workspace, and locks every other one in directory order. A request
   that restores workspace 1 from a publication of workspace 2 takes lock 1 and then
   lock 2; the deletion from workspace 2 holds lock 2 and waits for lock 1. Two
   deletions from different workspaces do the same. A refresh that sweeps stale
   publications at the limit visits its own workspace, whose lock it holds itself,
   while it also holds `publishedCreateMu`. `docs/security.md:14` says that locking is
   scoped per workspace and `docs/docker.md:160` that state changes are isolated per
   workspace; `workspace_locks_test.go:81` tests the one caller that takes two locks in
   order.
2. **More published items than the limit** (`PublishedItemsBounded`). The staged write
   of a refresh starts with `MkdirAll` (`refresh.go:182`) and re-creates the directory
   of a publication swept meanwhile, although another one has been created in its
   place. `docs/security.md:13` says that at most 256 items are retained. What
   `createPublished` creates does stay within the limit (`LivePublicationsBounded`), but
   publications migrated from an earlier version come on top, which is the second way to
   have more of them than that document says.
3. **A rotated link is served** (`OldTokenReturns404`). A link of an earlier version
   is migrated by the first download and again by the first refresh of its workspace,
   which makes a second publication with the same token (`published.go:408`). Rotating
   one leaves the token valid for the other. `docs/security.md:33` says that the old
   token immediately returns 404. Links created by this version do
   (`NewLinksDie`).
4. **A source's name makes every rendering fail** (`SourceNamesDoNotMatter`).
   `looksLikeInfoNode` (`pipeline.go:490`) takes a node for informational, such as "traffic
   left", when its name contains the word for subscription. The final check applies it to
   names that already carry the prefix of their source, while the renderer's own copy of
   the test (`rendererInfoNode`, `mihomo.go:1006`) does not know the word: the renderer
   puts the nodes into the automatic groups, and the check refuses the file. Prefixes and
   strict mode are on by default. `docs/README.zh-CN.md:11` advertises source names as
   prefixes, and `source_prefix_test.go:26` uses just such a name.
5. **A default replaces a fingerprint of the source** (`ExplicitFingerprintsWin`).
   `mihomo.go:571-573` says that explicit upstream fingerprints always win, and
   `fingerprint_migration_test.go:40` expects it of a trojan node. The YAML parser never
   reads `client-fingerprint` of a trojan proxy (`yaml_mihomo.go:285-293`), so the default
   of `global_client_fingerprint` is written first and the passthrough keeps it.
6. **A node is written without a field it needs** (`RequiredFieldsAreWritten`).
   `buildProxy` copies the protocol of an ssr node (`mihomo.go:611`), and
   `isRenderableNode` requires it, but `buildProxyNode` (`mihomo.go:2309-2525`), which
   writes the file, has no such key. Proxies from YAML get it back through the passthrough;
   a node from an `ssr://` link has nothing to pass through. `README.md:23` lists `ssr`
   among the supported protocols.

## What is not modelled

* *Input and output*: HTTP, DNS, redirects and address checks of the fetcher (a fetch
  answers or fails), syntax of YAML, links and JSON, base64 and percent encodings, HTML,
  compression, cryptography (tokens, hashes and signatures are taken to be unguessable and
  without collisions).
* *Views*: status requests, previews, log lines, progress stages, the web interfaces.
* *Subscription metadata*: traffic and expiry (`userinfo`) of subscriptions, and their
  refresh in an old publication, an update of `meta.json` that changes no field any
  property speaks of.
* *`PUT /api/nodes/state`*, which replaces the node state by what the client sends: the
  bundled web interface has a function for it that nothing calls. It is listed as a hazard.
* *A subscription that gets another URL under its ID*: records of deleted nodes then apply
  by connection only (`node_deletion.go:22`).
* *One-time migrations*: workspaces without `LastAccessAt`, and the legacy forms of
  configuration fields. Legacy published links are modelled.
* *Sections of the output that copy options*: DNS, sniffer, profile, geodata; and the
  entries of the rule catalog, which are data. Rendering takes a small catalog with a
  category of each kind.
* *Defaults, UCI syntax and ranges of numbers* in the configuration.
* *Redaction* of secrets in answers, the *site logo* and *update check* caches, the
  *command line*, packaging and the OpenWrt scripts that start the service.
* *A write that stops halfway*: `storage.AtomicWriteFile` renames a complete file.
  Loss of power, after which a rename may not have reached the disk, is not considered.
* *Reads of a meta.json before a lock is taken* that only choose what a handler answers.

## Plan

What would add most next:

| Module | What it would add |
| --- | --- |
| ConversionProofs | `GeneratedFilesPass`, from hypotheses on the catalog's data that a test of the built-in catalog can check |
| Redaction | Secrets shown redacted and sent back in `PUT /api/config` are kept |
| SubscriptionMeta | Metadata of a source that fails or disappears |
| WorkspaceState | The composition of NodeEditing with the steps of a refresh: today RefreshRuns counts edits and NodeEditing has their content |
