------------------------ MODULE WorkspaceLocksProofs ------------------------
(***************************************************************************)
(* Mutual exclusion of the reference-counted lock table, for any finite    *)
(* number of callers and any numbers of keys and entries, and its          *)
(* refinement of one plain mutex per workspace.                            *)
(***************************************************************************)
EXTENDS WorkspaceLocks, FiniteSetTheorems, TLAPS

(* An entry belongs to one key only.                                       *)
EntriesDistinct ==
  \A k, l \in Key : entries[k] # NoEntry /\ entries[k] = entries[l] => k = l

(* entry.mu is locked by c exactly while c is inside with that entry.      *)
HeldByHolders ==
  /\ \A c \in Caller : pc[c] = "holding" => heldBy[entry[c]] = c
  /\ \A e \in Entry, c \in Caller :
       heldBy[e] = c => pc[c] = "holding" /\ entry[c] = e

LockInv ==
  /\ TypeOK
  /\ RegisteredIsCurrent
  /\ EntriesDistinct
  /\ HeldByHolders
  /\ RefsCountUsers
  /\ NoLeakedEntry

-----------------------------------------------------------------------------
(* The users of an entry are finitely many, whoever they are.              *)
LEMMA UsersFinite ==
  ASSUME NEW e
  PROVE  IsFiniteSet(Users(e)) /\ Cardinality(Users(e)) \in Nat
<1>1. Users(e) \in SUBSET Caller
  BY DEF Users
<1>2. IsFiniteSet(Users(e))
  BY <1>1, CallerIsFinite, FS_Subset
<1> QED
  BY <1>2, FS_CardinalityType

(* Counting one more caller in.                                            *)
LEMMA UsersAdd ==
  ASSUME NEW e, NEW c \in Caller, c \notin Users(e),
         Users(e)' = Users(e) \cup {c}
  PROVE  Cardinality(Users(e))' = Cardinality(Users(e)) + 1
<1>1. Cardinality(Users(e) \cup {c}) = Cardinality(Users(e)) + 1
  BY UsersFinite, FS_AddElement
<1> QED
  BY <1>1

(* Counting one caller out.                                                *)
LEMMA UsersRemove ==
  ASSUME NEW e, NEW c \in Users(e), Users(e)' = Users(e) \ {c}
  PROVE  /\ Cardinality(Users(e))' = Cardinality(Users(e)) - 1
         /\ (Cardinality(Users(e)) = 1 <=> Users(e)' = {})
<1>1. IsFiniteSet(Users(e)) /\ Cardinality(Users(e)) \in Nat
  BY UsersFinite
<1>2. Cardinality(Users(e) \ {c}) = Cardinality(Users(e)) - 1
  BY <1>1, FS_RemoveElement
<1>3. IsFiniteSet(Users(e) \ {c})
  BY <1>1, FS_Subset
<1>4. Cardinality(Users(e) \ {c}) = 0 <=> Users(e) \ {c} = {}
  BY <1>3, FS_EmptySet
<1> QED
  BY <1>1, <1>2, <1>4

-----------------------------------------------------------------------------
(* The empty table satisfies the invariant.                                *)
LEMMA InitLockInv == Init => LockInv
<1> SUFFICES ASSUME Init PROVE LockInv
  OBVIOUS
<1>1. TypeOK
  BY DEF Init, TypeOK, Stage
<1>2. RegisteredIsCurrent
  BY DEF Init, RegisteredIsCurrent
<1>3. EntriesDistinct
  BY DEF Init, EntriesDistinct
<1>4. HeldByHolders
  BY NobodyIsNoCaller DEF Init, HeldByHolders
<1>5. RefsCountUsers
  BY NoEntryIsNoEntry DEF Init, RefsCountUsers
<1>6. NoLeakedEntry
  BY NoEntryIsNoEntry DEF Init, NoLeakedEntry
<1> QED
  BY <1>1, <1>2, <1>3, <1>4, <1>5, <1>6 DEF LockInv

(* Registering: either the entry of the key counts one more user, or a     *)
(* fresh entry, which nobody uses and no other key has, counts its first.  *)
LEMMA RegisterLockInv ==
  ASSUME LockInv, NEW c \in Caller, NEW k \in Key,
         NEW next \in {"waiting", "trying"}, Register(c, k, next)
  PROVE  LockInv'
<1> USE DEF LockInv
<1>0. pc[c] = "idle" /\ pc' = [pc EXCEPT ![c] = next] /\ wanted' = [wanted EXCEPT ![c] = k]
  BY DEF Register
<1>1. PICK e \in Entry :
        /\ \/ /\ entries[k] = e
              /\ refs' = [refs EXCEPT ![e] = @ + 1]
              /\ UNCHANGED <<entries, heldBy>>
           \/ /\ entries[k] = NoEntry
              /\ Unreachable(e)
              /\ entries' = [entries EXCEPT ![k] = e]
              /\ refs' = [refs EXCEPT ![e] = 1]
              /\ heldBy' = [heldBy EXCEPT ![e] = Nobody]
        /\ entry' = [entry EXCEPT ![c] = e]
  BY DEF Register
<1>2. TypeOK'
  BY <1>0, <1>1 DEF TypeOK, Stage
<1>3. /\ c \notin Users(e)
      /\ Users(e)' = Users(e) \cup {c}
      /\ \A f \in Entry \ {e} : Users(f)' = Users(f)
  BY <1>0, <1>1 DEF TypeOK, Stage, Users
<1>4. RegisteredIsCurrent'
  <2>1. entries'[k] = e /\ \A l \in Key : entries[l] # NoEntry => entries'[l] = entries[l]
    BY <1>1 DEF TypeOK
  <2>2. entry'[c] = e /\ wanted'[c] = k
    BY <1>0, <1>1 DEF TypeOK
  <2>3. ASSUME NEW d \in Caller, d # c, pc'[d] # "idle"
        PROVE  entry'[d] \in Entry /\ entries'[wanted'[d]] = entry'[d]
    <3>1. pc[d] # "idle" /\ entry'[d] = entry[d] /\ wanted'[d] = wanted[d] /\ wanted[d] \in Key
      BY <2>3, <1>0, <1>1 DEF TypeOK
    <3>2. entry[d] \in Entry /\ entries[wanted[d]] = entry[d]
      BY <3>1 DEF RegisteredIsCurrent
    <3> QED
      BY <3>1, <3>2, <2>1, NoEntryIsNoEntry
  <2> QED
    BY <2>1, <2>2, <2>3 DEF RegisteredIsCurrent
<1>5. EntriesDistinct'
  BY <1>1, NoEntryIsNoEntry DEF EntriesDistinct, TypeOK, Unreachable
<1>6. HeldByHolders'
  <2>1. \A d \in Caller : pc'[d] = "holding" => d # c /\ pc[d] = "holding" /\ entry'[d] = entry[d]
    BY <1>0, <1>1 DEF TypeOK
  <2>2. \A d \in Caller : pc[d] = "holding" => pc'[d] = "holding" /\ entry'[d] = entry[d]
    BY <1>0, <1>1 DEF TypeOK
  <2>3. CASE UNCHANGED heldBy
    BY <2>1, <2>2, <2>3 DEF HeldByHolders
  <2>4. CASE Users(e) = {} /\ heldBy' = [heldBy EXCEPT ![e] = Nobody]
    <3>1. \A d \in Caller : pc[d] = "holding" => entry[d] # e /\ entry[d] \in Entry
      BY <2>4 DEF Users, RegisteredIsCurrent
    <3>2. heldBy'[e] = Nobody /\ \A f \in Entry \ {e} : heldBy'[f] = heldBy[f]
      BY <2>4 DEF TypeOK
    <3> QED
      BY <2>1, <2>2, <3>1, <3>2, NobodyIsNoCaller DEF HeldByHolders
  <2> QED
    BY <1>1, <2>3, <2>4 DEF Unreachable
<1>7. RefsCountUsers'
  <2> SUFFICES ASSUME NEW l \in Key, NEW f \in Entry, entries'[l] = f
               PROVE  refs'[f] = Cardinality(Users(f)')
    BY DEF RefsCountUsers
  <2>1. CASE f = e
    <3>1. Cardinality(Users(e)') = Cardinality(Users(e)) + 1
      BY <1>3, UsersAdd
    <3>2. CASE entries[k] = e /\ refs' = [refs EXCEPT ![e] = @ + 1]
      <4>1. refs'[e] = refs[e] + 1
        BY <3>2 DEF TypeOK
      <4>2. refs[e] = Cardinality(Users(e))
        BY <3>2 DEF RefsCountUsers
      <4> QED
        BY <2>1, <3>1, <4>1, <4>2
    <3>3. CASE Users(e) = {} /\ refs' = [refs EXCEPT ![e] = 1]
      <4>1. refs'[e] = 1
        BY <3>3 DEF TypeOK
      <4>2. Cardinality(Users(e)) = 0
        BY <3>3, FS_EmptySet
      <4> QED
        BY <2>1, <3>1, <4>1, <4>2
    <3> QED
      BY <1>1, <3>2, <3>3 DEF Unreachable
  <2>2. CASE f # e
    <3>1. entries[l] = f
      BY <1>1, <2>2 DEF TypeOK
    <3>2. refs'[f] = refs[f] /\ Users(f)' = Users(f)
      BY <1>1, <1>3, <2>2 DEF TypeOK
    <3>3. refs[f] = Cardinality(Users(f))
      BY <3>1 DEF RefsCountUsers
    <3> QED
      BY <3>2, <3>3
  <2> QED
    BY <2>1, <2>2
<1>8. NoLeakedEntry'
  <2> SUFFICES ASSUME NEW l \in Key, NEW f \in Entry, entries'[l] = f
               PROVE  Users(f)' # {}
    BY DEF NoLeakedEntry
  <2>1. CASE f = e
    BY <2>1, <1>3
  <2>2. CASE f # e
    <3>1. entries[l] = f /\ Users(f)' = Users(f)
      BY <1>1, <1>3, <2>2 DEF TypeOK
    <3> QED
      BY <3>1 DEF NoLeakedEntry
  <2> QED
    BY <2>1, <2>2
<1> QED
  BY <1>2, <1>4, <1>5, <1>6, <1>7, <1>8

(* Unlocking and refusing to lock leave the table and its counters alone;  *)
(* the users stay the same, so only the holder needs care.                 *)
LEMMA SameTableLockInv ==
  ASSUME LockInv, NEW c \in Caller, pc[c] # "idle",
         NEW next \in Stage \ {"idle"}, pc' = [pc EXCEPT ![c] = next],
         UNCHANGED <<entries, refs, wanted, entry>>,
         heldBy' \in [Entry -> Caller \cup {Nobody}],
         HeldByHolders'
  PROVE  LockInv'
<1> USE DEF LockInv
<1>1. TypeOK'
  BY DEF TypeOK
<1>2. \A e : Users(e)' = Users(e)
  BY DEF TypeOK, Users
<1>3. RegisteredIsCurrent'
  BY DEF TypeOK, RegisteredIsCurrent
<1>4. EntriesDistinct'
  BY DEF EntriesDistinct
<1>5. RefsCountUsers'
  BY <1>2 DEF RefsCountUsers
<1>6. NoLeakedEntry'
  BY <1>2 DEF NoLeakedEntry
<1> QED
  BY <1>1, <1>3, <1>4, <1>5, <1>6

(* Locking the entry.                                                      *)
LEMMA AcquireLockInv ==
  ASSUME LockInv, NEW c \in Caller, Acquire(c)
  PROVE  LockInv'
<1>1. entry[c] \in Entry /\ heldBy[entry[c]] = Nobody
  BY DEF LockInv, RegisteredIsCurrent, Acquire
<1>2. HeldByHolders'
  BY <1>1, NobodyIsNoCaller DEF LockInv, TypeOK, HeldByHolders, Acquire
<1> QED
  BY <1>1, <1>2, SameTableLockInv DEF LockInv, TypeOK, Stage, Acquire

(* A refused tryLock never held the entry.                                 *)
LEMMA RefuseLockInv ==
  ASSUME LockInv, NEW c \in Caller, Refuse(c)
  PROVE  LockInv'
<1>1. HeldByHolders'
  BY DEF LockInv, TypeOK, HeldByHolders, Refuse
<1> QED
  BY <1>1, SameTableLockInv DEF LockInv, TypeOK, Stage, Refuse

(* Unlocking the entry.                                                    *)
LEMMA UnlockLockInv ==
  ASSUME LockInv, NEW c \in Caller, Unlock(c)
  PROVE  LockInv'
<1>1. entry[c] \in Entry /\ heldBy[entry[c]] = c
  BY DEF LockInv, RegisteredIsCurrent, HeldByHolders, Unlock
<1>2. HeldByHolders'
  BY <1>1, NobodyIsNoCaller DEF LockInv, TypeOK, HeldByHolders, Unlock
<1> QED
  BY <1>1, <1>2, SameTableLockInv DEF LockInv, TypeOK, Stage, Unlock

(* Leaving: the entry goes with its last user.                             *)
LEMMA LeaveLockInv ==
  ASSUME LockInv, NEW c \in Caller, Leave(c)
  PROVE  LockInv'
<1> USE DEF LockInv
<1>0. /\ pc[c] = "leaving" /\ pc' = [pc EXCEPT ![c] = "idle"]
      /\ entry' = [entry EXCEPT ![c] = NoEntry]
      /\ UNCHANGED <<heldBy, wanted>>
  BY DEF Leave
<1>1. PICK e \in Entry, k \in Key :
        entry[c] = e /\ wanted[c] = k /\ entries[k] = e
  BY <1>0 DEF RegisteredIsCurrent, TypeOK
<1>2. refs' = [refs EXCEPT ![e] = @ - 1]
  BY <1>1 DEF Leave
<1>3. entries' = IF refs[e] = 1 THEN [entries EXCEPT ![k] = NoEntry] ELSE entries
  BY <1>1 DEF Leave
<1>4. /\ c \in Users(e)
      /\ Users(e)' = Users(e) \ {c}
      /\ \A f \in Entry \ {e} : Users(f)' = Users(f)
  BY <1>0, <1>1, NoEntryIsNoEntry DEF TypeOK, Stage, Users
<1>5. /\ refs[e] = Cardinality(Users(e))
      /\ refs[e] \in Nat \ {0}
      /\ Cardinality(Users(e)') = refs[e] - 1
      /\ (refs[e] = 1 <=> Users(e)' = {})
  <2>1. refs[e] = Cardinality(Users(e))
    BY <1>1 DEF RefsCountUsers
  <2>2. IsFiniteSet(Users(e)) /\ refs[e] \in Nat
    BY <2>1, UsersFinite
  <2>3. refs[e] # 0
    BY <1>4, <2>1, <2>2, FS_EmptySet
  <2> QED
    BY <1>4, <2>1, <2>2, <2>3, UsersRemove
<1>6. TypeOK'
  <2>1. refs' \in [Entry -> Nat]
    BY <1>2, <1>5 DEF TypeOK
  <2> QED
    BY <1>0, <1>3, <2>1 DEF TypeOK, Stage
<1>7. RegisteredIsCurrent'
  <2> SUFFICES ASSUME NEW d \in Caller, pc'[d] # "idle"
               PROVE  entry'[d] \in Entry /\ entries'[wanted'[d]] = entry'[d]
    BY DEF RegisteredIsCurrent
  <2>1. d # c /\ pc[d] # "idle" /\ entry'[d] = entry[d] /\ wanted'[d] = wanted[d]
    BY <1>0 DEF TypeOK
  <2>2. entry[d] \in Entry /\ entries[wanted[d]] = entry[d] /\ wanted[d] \in Key
    BY <2>1 DEF RegisteredIsCurrent, TypeOK
  <2>3. CASE entry[d] = e
    <3>1. d \in Users(e)'
      BY <1>4, <2>1, <2>3 DEF Users
    <3> QED
      BY <1>3, <1>5, <2>1, <2>2, <3>1
  <2>4. CASE entry[d] # e
    BY <1>1, <1>3, <2>1, <2>2, <2>4 DEF TypeOK
  <2> QED
    BY <2>3, <2>4
<1>8. EntriesDistinct'
  BY <1>1, <1>3 DEF EntriesDistinct, TypeOK
<1>9. HeldByHolders'
  BY <1>0, NoEntryIsNoEntry DEF HeldByHolders, TypeOK
<1>10. ASSUME NEW l \in Key, NEW f \in Entry, entries'[l] = f
       PROVE  entries[l] = f /\ (f = e => refs[e] # 1)
  BY <1>1, <1>3, <1>10, NoEntryIsNoEntry DEF TypeOK, EntriesDistinct
<1>11. RefsCountUsers'
  <2> SUFFICES ASSUME NEW l \in Key, NEW f \in Entry, entries'[l] = f
               PROVE  refs'[f] = Cardinality(Users(f)')
    BY DEF RefsCountUsers
  <2>1. CASE f = e
    BY <1>2, <1>5, <2>1 DEF TypeOK
  <2>2. CASE f # e
    <3>1. refs'[f] = refs[f] /\ Users(f)' = Users(f)
      BY <1>2, <1>4, <2>2 DEF TypeOK
    <3> QED
      BY <1>10, <3>1 DEF RefsCountUsers
  <2> QED
    BY <2>1, <2>2
<1>12. NoLeakedEntry'
  <2> SUFFICES ASSUME NEW l \in Key, NEW f \in Entry, entries'[l] = f
               PROVE  Users(f)' # {}
    BY DEF NoLeakedEntry
  <2>1. CASE f = e
    BY <1>5, <1>10, <2>1
  <2>2. CASE f # e
    BY <1>4, <1>10, <2>2 DEF NoLeakedEntry
  <2> QED
    BY <2>1, <2>2
<1> QED
  BY <1>6, <1>7, <1>8, <1>9, <1>11, <1>12

(* Every step preserves the invariant.                                     *)
LEMMA NextLockInv == LockInv /\ [Next]_vars => LockInv'
<1> SUFFICES ASSUME LockInv, [Next]_vars PROVE LockInv'
  OBVIOUS
<1>1. ASSUME NEW c \in Caller, NEW k \in Key, Lock(c, k) \/ TryLock(c, k)
      PROVE  LockInv'
  BY <1>1, RegisterLockInv DEF Lock, TryLock
<1>2. ASSUME NEW c \in Caller, Acquire(c) PROVE LockInv'
  BY <1>2, AcquireLockInv
<1>3. ASSUME NEW c \in Caller, Refuse(c) PROVE LockInv'
  BY <1>3, RefuseLockInv
<1>4. ASSUME NEW c \in Caller, Unlock(c) PROVE LockInv'
  BY <1>4, UnlockLockInv
<1>5. ASSUME NEW c \in Caller, Leave(c) PROVE LockInv'
  BY <1>5, LeaveLockInv
<1>6. CASE UNCHANGED vars
  BY <1>6 DEF vars, LockInv, TypeOK, RegisteredIsCurrent, EntriesDistinct,
              HeldByHolders, RefsCountUsers, NoLeakedEntry, Users
<1> QED
  BY <1>1, <1>2, <1>3, <1>4, <1>5, <1>6 DEF Next

(* The inductive invariant of the lock table: what the counters, the table *)
(* and the holders say of each other in every reachable state.             *)
THEOREM LockInvariant == Spec => []LockInv
BY InitLockInv, NextLockInv, PTL DEF Spec

(* Type correctness; in particular no counter ever drops below zero.       *)
THEOREM TypeCorrect == Spec => []TypeOK
<1>1. LockInv => TypeOK
  BY DEF LockInv
<1> QED
  BY <1>1, LockInvariant, PTL

(* Two requests never work on the same workspace at once, although the     *)
(* mutex that keeps them apart is deleted and allocated again and again.   *)
THEOREM Exclusion == Spec => []MutualExclusion
<1>1. LockInv => MutualExclusion
  BY DEF LockInv, RegisteredIsCurrent, HeldByHolders, MutualExclusion
<1> QED
  BY <1>1, LockInvariant, PTL

(* The table never keeps an entry that nobody uses.                        *)
THEOREM NothingLeaks == Spec => []NoLeakedEntry
<1>1. LockInv => NoLeakedEntry
  BY DEF LockInv
<1> QED
  BY <1>1, LockInvariant, PTL

-----------------------------------------------------------------------------
(* What the refinement mapping makes of the holders of a key.              *)
LEMMA TheOneInFacts ==
  /\ TheOneIn({}) = Nobody
  /\ \A c : TheOneIn({c}) = c
BY DEF TheOneIn

(* A step that leaves every caller inside, or outside, does not touch the  *)
(* abstract mutexes.                                                       *)
LEMMA SameHolders ==
  ASSUME \A k \in Key : Holders(k)' = Holders(k)
  PROVE  UNCHANGED HolderMap
BY DEF HolderMap

(* Going in acquires the abstract mutex of the key, coming out releases it *)
(* and the bookkeeping of the table is invisible.                          *)
LEMMA StepImplementsMutex ==
  LockInv /\ [Next]_vars => [Mutex!Next]_HolderMap
<1> SUFFICES ASSUME LockInv, [Next]_vars PROVE [Mutex!Next]_HolderMap
  OBVIOUS
<1> USE DEF LockInv
<1>1. ASSUME NEW c \in Caller, NEW k \in Key, Lock(c, k) \/ TryLock(c, k)
      PROVE  UNCHANGED HolderMap
  <2>1. \A l \in Key : Holders(l)' = Holders(l)
    BY <1>1 DEF Lock, TryLock, Register, Holders, TypeOK
  <2> QED
    BY <2>1, SameHolders
<1>2. ASSUME NEW c \in Caller, Refuse(c) \/ Leave(c)
      PROVE  UNCHANGED HolderMap
  <2>1. \A l \in Key : Holders(l)' = Holders(l)
    BY <1>2 DEF Refuse, Leave, Holders, TypeOK
  <2> QED
    BY <2>1, SameHolders
<1>3. ASSUME NEW c \in Caller, Acquire(c)
      PROVE  Mutex!Next
  <2>1. PICK k \in Key : wanted[c] = k
    BY DEF TypeOK
  <2>2. Holders(k) = {}
    BY <1>3, <2>1, NobodyIsNoCaller
       DEF Acquire, Holders, RegisteredIsCurrent, HeldByHolders
  <2>3. Holders(k)' = {c} /\ \A l \in Key \ {k} : Holders(l)' = Holders(l)
    BY <1>3, <2>1, <2>2 DEF Acquire, Holders, TypeOK
  <2>4. HolderMap[k] = Nobody
    BY <2>2, TheOneInFacts DEF HolderMap
  <2>5. HolderMap' = [HolderMap EXCEPT ![k] = c]
    BY <2>3, TheOneInFacts DEF HolderMap
  <2>6. Mutex!Acquire(c, k)
    BY <2>4, <2>5 DEF Mutex!Acquire
  <2> QED
    BY <2>6 DEF Mutex!Next
<1>4. ASSUME NEW c \in Caller, Unlock(c)
      PROVE  Mutex!Next
  <2>1. PICK k \in Key : wanted[c] = k
    BY DEF TypeOK
  <2>2. Holders(k) = {c}
    BY <1>4, <2>1 DEF Unlock, Holders, RegisteredIsCurrent, HeldByHolders
  <2>3. Holders(k)' = {} /\ \A l \in Key \ {k} : Holders(l)' = Holders(l)
    BY <1>4, <2>1, <2>2 DEF Unlock, Holders, TypeOK
  <2>4. HolderMap[k] = c
    BY <2>2, TheOneInFacts DEF HolderMap
  <2>5. HolderMap' = [HolderMap EXCEPT ![k] = Nobody]
    BY <2>3, TheOneInFacts DEF HolderMap
  <2>6. Mutex!Release(c, k)
    BY <2>4, <2>5 DEF Mutex!Release
  <2> QED
    BY <2>6 DEF Mutex!Next
<1>5. CASE UNCHANGED vars
  <2>1. \A l \in Key : Holders(l)' = Holders(l)
    BY <1>5 DEF vars, Holders
  <2> QED
    BY <2>1, SameHolders
<1> QED
  BY <1>1, <1>2, <1>3, <1>4, <1>5 DEF Next

(* At the start every abstract mutex is free.                              *)
LEMMA InitImplementsMutex == Init => Mutex!Init
<1> SUFFICES ASSUME Init PROVE Mutex!Init
  OBVIOUS
<1>1. \A k \in Key : Holders(k) = {}
  BY DEF Init, Holders
<1> QED
  BY <1>1, TheOneInFacts DEF HolderMap, Mutex!Init

(* The reference-counted table implements one plain mutex per workspace.   *)
THEOREM TableImplementsMutex == Spec => ImplementsMutex
BY InitImplementsMutex, StepImplementsMutex, LockInvariant, PTL
   DEF Spec, ImplementsMutex, Mutex!Spec
=============================================================================
