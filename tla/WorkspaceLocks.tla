--------------------------- MODULE WorkspaceLocks ---------------------------
(***************************************************************************)
(* workspaceLockManager of internal/api/workspace_locks.go: a table of     *)
(* reference-counted mutexes, one for each workspace hash in use.  An      *)
(* entry is created by the first caller that needs it and deleted by the   *)
(* last one that leaves, so the table must never forget an entry somebody  *)
(* still waits on, nor keep one nobody uses.                               *)
(*                                                                         *)
(* The manager's own mutex m.mu guards every access to the table and the   *)
(* counters and is released before anything else is waited for, so each    *)
(* of its critical sections is one action.  A caller is one call of lock   *)
(* or tryLock: a request that holds several keys is several callers.       *)
(***************************************************************************)
EXTENDS Integers, FiniteSets

CONSTANTS
  Caller,    \* calls of lock and tryLock
  Key,       \* workspace hashes
  Entry,     \* addresses a workspaceLockEntry can be allocated at
  NoEntry,   \* the nil entry
  Nobody     \* the holder of an unlocked entry.mu

ASSUME CallerIsFinite == IsFiniteSet(Caller)
ASSUME NoEntryIsNoEntry == NoEntry \notin Entry
ASSUME NobodyIsNoCaller == Nobody \notin Caller

VARIABLES
  entries,   \* m.entries: the entry of each key, or NoEntry
  refs,      \* entry.refs of each entry
  heldBy,    \* the caller that locked entry.mu, or Nobody
  pc,        \* where each caller is
  wanted,    \* the key of each caller
  entry      \* the entry each caller registered with

vars == <<entries, refs, heldBy, pc, wanted, entry>>

Stage == {"idle", "waiting", "trying", "holding", "leaving"}

(* The callers that registered with e and have not left it.                *)
Users(e) == {c \in Caller : pc[c] # "idle" /\ entry[c] = e}

(* Nothing points to e any more: the collector may hand its memory out.    *)
Unreachable(e) == Users(e) = {} /\ \A k \in Key : entries[k] # e

Init ==
  /\ entries = [k \in Key |-> NoEntry]
  /\ refs = [e \in Entry |-> 0]
  /\ heldBy = [e \in Entry |-> Nobody]
  /\ pc = [c \in Caller |-> "idle"]
  /\ wanted \in [Caller -> Key]
  /\ entry = [c \in Caller |-> NoEntry]

-----------------------------------------------------------------------------
(* The first critical section of lock and tryLock: find or create the      *)
(* entry of k and count the caller in.                                     *)
Register(c, k, next) ==
  /\ pc[c] = "idle"
  /\ \E e \in Entry :
       /\ \/ /\ entries[k] = e
             /\ refs' = [refs EXCEPT ![e] = @ + 1]
             /\ UNCHANGED <<entries, heldBy>>
          \/ /\ entries[k] = NoEntry
             /\ Unreachable(e)
             /\ entries' = [entries EXCEPT ![k] = e]
             /\ refs' = [refs EXCEPT ![e] = 1]
             /\ heldBy' = [heldBy EXCEPT ![e] = Nobody]
       /\ entry' = [entry EXCEPT ![c] = e]
  /\ wanted' = [wanted EXCEPT ![c] = k]
  /\ pc' = [pc EXCEPT ![c] = next]

Lock(c, k) == Register(c, k, "waiting")

TryLock(c, k) == Register(c, k, "trying")

(* Mutant: a tryLock that goes on whatever TryLock answered.               *)
AcquireUnchecked(c) ==
  /\ pc[c] \in {"waiting", "trying"}
  /\ pc[c] = "waiting" => heldBy[entry[c]] = Nobody
  /\ heldBy' = [heldBy EXCEPT ![entry[c]] = c]
  /\ pc' = [pc EXCEPT ![c] = "holding"]
  /\ UNCHANGED <<entries, refs, wanted, entry>>

(* entry.mu.Lock returns, or entry.mu.TryLock succeeds.                    *)
Acquire(c) ==
  /\ pc[c] \in {"waiting", "trying"}
  /\ heldBy[entry[c]] = Nobody
  /\ heldBy' = [heldBy EXCEPT ![entry[c]] = c]
  /\ pc' = [pc EXCEPT ![c] = "holding"]
  /\ UNCHANGED <<entries, refs, wanted, entry>>

(* Mutant: a refused tryLock returns without counting itself out.          *)
RefuseWithoutLeaving(c) ==
  /\ pc[c] = "trying"
  /\ heldBy[entry[c]] # Nobody
  /\ pc' = [pc EXCEPT ![c] = "idle"]
  /\ entry' = [entry EXCEPT ![c] = NoEntry]
  /\ UNCHANGED <<entries, refs, heldBy, wanted>>

(* entry.mu.TryLock fails: the mutex is locked, or being handed over to a  *)
(* caller already waiting for it.                                          *)
Refuse(c) ==
  /\ pc[c] = "trying"
  /\ \/ heldBy[entry[c]] # Nobody
     \/ \E d \in Users(entry[c]) : pc[d] = "waiting"
  /\ pc' = [pc EXCEPT ![c] = "leaving"]
  /\ UNCHANGED <<entries, refs, heldBy, wanted, entry>>

(* Mutant: the closure counts the caller out but leaves entry.mu locked.   *)
UnlockForgotten(c) ==
  /\ pc[c] = "holding"
  /\ pc' = [pc EXCEPT ![c] = "leaving"]
  /\ UNCHANGED <<entries, refs, heldBy, wanted, entry>>

(* The returned closure first unlocks the entry ...                        *)
Unlock(c) ==
  /\ pc[c] = "holding"
  /\ heldBy' = [heldBy EXCEPT ![entry[c]] = Nobody]
  /\ pc' = [pc EXCEPT ![c] = "leaving"]
  /\ UNCHANGED <<entries, refs, wanted, entry>>

(* Mutant: the first caller to leave deletes the entry.                    *)
LeaveDeletingEntry(c) ==
  /\ pc[c] = "leaving"
  /\ refs' = [refs EXCEPT ![entry[c]] = @ - 1]
  /\ entries' = [entries EXCEPT ![wanted[c]] = NoEntry]
  /\ entry' = [entry EXCEPT ![c] = NoEntry]
  /\ pc' = [pc EXCEPT ![c] = "idle"]
  /\ UNCHANGED <<heldBy, wanted>>

(* Mutant: the closure can run its second half twice.                      *)
LeaveTwice(c) ==
  /\ pc[c] = "leaving"
  /\ refs' = [refs EXCEPT ![entry[c]] = @ - 1]
  /\ pc' \in {pc, [pc EXCEPT ![c] = "idle"]}
  /\ UNCHANGED <<entries, heldBy, wanted, entry>>

(* ... and then, as a refused tryLock does, counts the caller out and      *)
(* deletes the entry with its last user.                                   *)
Leave(c) ==
  /\ pc[c] = "leaving"
  /\ LET e == entry[c] IN
       /\ refs' = [refs EXCEPT ![e] = @ - 1]
       /\ entries' = IF refs[e] = 1 /\ entries[wanted[c]] = e
                       THEN [entries EXCEPT ![wanted[c]] = NoEntry]
                       ELSE entries
  /\ entry' = [entry EXCEPT ![c] = NoEntry]
  /\ pc' = [pc EXCEPT ![c] = "idle"]
  /\ UNCHANGED <<heldBy, wanted>>

Next ==
  \E c \in Caller :
    \/ \E k \in Key : Lock(c, k) \/ TryLock(c, k)
    \/ Acquire(c)
    \/ Refuse(c)
    \/ Unlock(c)
    \/ Leave(c)

Spec == Init /\ [][Next]_vars

(* Every call of the manager goes on; sync.Mutex turns to first-come-      *)
(* first-served when a waiter starves, so a waiter that finds the entry    *)
(* free again and again is let in.  Nothing is assumed of Unlock: when the *)
(* holder calls it is up to the holder, which may wait for another mutex   *)
(* under this one, even for ever (NoDeadlock of Publications).             *)
Fairness ==
  \A c \in Caller :
    /\ SF_vars(Acquire(c))
    /\ WF_vars(Refuse(c))
    /\ WF_vars(Leave(c))

FairSpec == Spec /\ Fairness

-----------------------------------------------------------------------------
(* Every variable has its type: in particular no count of users goes below *)
(* zero.                                                                   *)
TypeOK ==
  /\ entries \in [Key -> Entry \cup {NoEntry}]
  /\ refs \in [Entry -> Nat]
  /\ heldBy \in [Entry -> Caller \cup {Nobody}]
  /\ pc \in [Caller -> Stage]
  /\ wanted \in [Caller -> Key]
  /\ entry \in [Caller -> Entry \cup {NoEntry}]

(* Two requests are never inside the critical section of the same          *)
(* workspace, however often its entry was deleted and created again        *)
(* between them.                                                           *)
MutualExclusion ==
  \A c, d \in Caller :
    pc[c] = "holding" /\ pc[d] = "holding" /\ wanted[c] = wanted[d] => c = d

(* Whoever has registered for a key is in the entry the table holds for    *)
(* it: the comparison m.entries[key] == entry of the release never fails,  *)
(* and no caller waits on an entry that newcomers cannot find.             *)
RegisteredIsCurrent ==
  \A c \in Caller : pc[c] # "idle" =>
    entry[c] \in Entry /\ entries[wanted[c]] = entry[c]

(* The counter of an entry in the table is the number of its users, so it  *)
(* reaches zero exactly when the last of them has left.                    *)
RefsCountUsers ==
  \A k \in Key, e \in Entry :
    entries[k] = e => refs[e] = Cardinality(Users(e))

(* The table holds entries of workspaces in use only: hashes that nobody   *)
(* locks any more leave nothing behind.                                    *)
NoLeakedEntry ==
  \A k \in Key, e \in Entry : entries[k] = e => Users(e) # {}

(* Somebody is inside the workspace that c waits for.                      *)
KeptOut(c) ==
  /\ pc[c] = "waiting"
  /\ \E d \in Caller : pc[d] = "holding" /\ wanted[d] = wanted[c]

(* A caller of lock gets its workspace, unless from some time on it is     *)
(* kept out for ever: as long as those inside leave, no waiter is passed   *)
(* over for good or left behind on an entry that was forgotten, whatever   *)
(* becomes of the holders of other workspaces.                             *)
WaiterAcquires ==
  \A c \in Caller :
    []<>~KeptOut(c) => (pc[c] = "waiting" ~> pc[c] = "holding")

-----------------------------------------------------------------------------
(* The abstract mutex is held by whoever holds the entry of the key.       *)
Holders(k) == {c \in Caller : pc[c] = "holding" /\ wanted[c] = k}

TheOneIn(S) == IF S = {} THEN Nobody ELSE CHOOSE c \in S : TRUE

HolderMap == [k \in Key |-> TheOneIn(Holders(k))]

Mutex == INSTANCE WorkspaceMutex WITH holder <- HolderMap

(* The reference-counted table behaves as one plain mutex per workspace.   *)
ImplementsMutex == Mutex!Spec
=============================================================================
