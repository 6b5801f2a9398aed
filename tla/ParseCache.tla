----------------------------- MODULE ParseCache -----------------------------
(***************************************************************************)
(* The cache of parsed sources (parse_cache.go): a least-recently-used     *)
(* list under three limits.  The mutex is held to look up and to store,    *)
(* not while a source is parsed, so two requests can parse the same        *)
(* source at once and the second one finds the entry of the first.         *)
(*                                                                         *)
(* A key stands for a content together with its source; its size and the   *)
(* number of nodes its parsing yields are functions of it.                 *)
(***************************************************************************)
EXTENDS Naturals, Sequences, FiniteSetsExt, SequencesExt

CONSTANTS
  Request,     \* goroutines that parse
  Key,
  Bytes,       \* Key -> length of the content
  Nodes,       \* Key -> nodes that it parses to
  Faulty,      \* keys whose parsing reports errors
  MaxEntries, MaxBytes, MaxNodes,
  NoKey

VARIABLES
  lru,     \* the keys of the cache, the most recently used first
  bytes,   \* the two counters
  nodes,
  parsing  \* the key each request is parsing, outside the mutex

vars == <<lru, bytes, nodes, parsing>>

Init ==
  /\ lru = <<>> /\ bytes = 0 /\ nodes = 0
  /\ parsing = [r \in Request |-> NoKey]

ToFront(k) == <<k>> \o RemoveAt(lru, CHOOSE i \in DOMAIN lru : lru[i] = k)

(* An oversized source is parsed without the cache, and changes nothing.   *)
Cacheable(k) == Bytes[k] <= MaxBytes /\ MaxEntries > 0

Lookup(r, k) ==
  /\ parsing[r] = NoKey
  /\ Cacheable(k)
  /\ IF Contains(lru, k)
       THEN lru' = ToFront(k) /\ UNCHANGED parsing
       ELSE parsing' = [parsing EXCEPT ![r] = k] /\ UNCHANGED lru
  /\ UNCHANGED <<bytes, nodes>>

(* Results with errors, without nodes or with too many are not kept.       *)
Storable(k) == k \notin Faulty /\ Nodes[k] \in 1 .. MaxNodes

Discard(r) ==
  /\ parsing[r] # NoKey
  /\ ~Storable(parsing[r])
  /\ parsing' = [parsing EXCEPT ![r] = NoKey]
  /\ UNCHANGED <<lru, bytes, nodes>>

(* The least recently used entries go, one at a time, until the new one    *)
(* fits: what stays is the longest prefix that leaves room.                *)
LeavesRoom(n, k) ==
  LET gone == {lru[i] : i \in (n + 1) .. Len(lru)}
  IN  /\ n < MaxEntries
      /\ bytes - SumFunctionOnSet(Bytes, gone) + Bytes[k] <= MaxBytes
      /\ nodes - SumFunctionOnSet(Nodes, gone) + Nodes[k] <= MaxNodes

Kept(k) == Max({n \in 0 .. Len(lru) : LeavesRoom(n, k)})

Evicted(k) == {lru[i] : i \in (Kept(k) + 1) .. Len(lru)}

(* Mutant: no second lookup after the source was parsed.                   *)
StoreWithoutLookup(r) ==
  LET k == parsing[r]
  IN  /\ k # NoKey
      /\ Storable(k)
      /\ lru' = <<k>> \o SubSeq(lru, 1, Kept(k))
      /\ bytes' = bytes - SumFunctionOnSet(Bytes, Evicted(k)) + Bytes[k]
      /\ nodes' = nodes - SumFunctionOnSet(Nodes, Evicted(k)) + Nodes[k]
      /\ parsing' = [parsing EXCEPT ![r] = NoKey]

Store(r) ==
  LET k == parsing[r]
  IN  /\ k # NoKey
      /\ Storable(k)
      /\ IF Contains(lru, k)
           THEN lru' = ToFront(k) /\ UNCHANGED <<bytes, nodes>>
           ELSE /\ lru' = <<k>> \o SubSeq(lru, 1, Kept(k))
                /\ bytes' = bytes - SumFunctionOnSet(Bytes, Evicted(k)) + Bytes[k]
                /\ nodes' = nodes - SumFunctionOnSet(Nodes, Evicted(k)) + Nodes[k]
      /\ parsing' = [parsing EXCEPT ![r] = NoKey]

Next ==
  \E r \in Request : \/ \E k \in Key : Lookup(r, k)
                     \/ Discard(r)
                     \/ Store(r)

Spec == Init /\ [][Next]_vars

-----------------------------------------------------------------------------
(* The two counters are what the entries add up to, and nothing is in the  *)
(* list twice, whatever requests parse at the same time: a counter that    *)
(* drifted would make the eviction loop run past the end of the list.      *)
CountersAddUp ==
  /\ IsInjective(lru)
  /\ bytes = SumFunctionOnSet(Bytes, ToSet(lru))
  /\ nodes = SumFunctionOnSet(Nodes, ToSet(lru))

(* The cache stays within its three limits, so the process-wide cache of   *)
(* all workspaces cannot outgrow a router's memory.                        *)
WithinLimits == Len(lru) <= MaxEntries /\ bytes <= MaxBytes /\ nodes <= MaxNodes
=============================================================================
