--------------------------- MODULE WorkspaceMutex ---------------------------
(***************************************************************************)
(* What the API layer expects of workspaceLockManager: one mutex for each  *)
(* workspace hash, held by at most one caller, and nothing else.  How the  *)
(* mutexes are created, counted and thrown away is not visible here; the   *)
(* module WorkspaceLocks describes that and implements this one.           *)
(***************************************************************************)
CONSTANTS
  Caller,   \* calls of lock and tryLock
  Key,      \* workspace hashes
  Nobody    \* the holder of a free mutex

VARIABLE holder   \* the caller inside the critical section of each key

Init == holder = [k \in Key |-> Nobody]

Acquire(c, k) ==
  /\ holder[k] = Nobody
  /\ holder' = [holder EXCEPT ![k] = c]

Release(c, k) ==
  /\ holder[k] = c
  /\ holder' = [holder EXCEPT ![k] = Nobody]

Next == \E c \in Caller, k \in Key : Acquire(c, k) \/ Release(c, k)

Spec == Init /\ [][Next]_holder
=============================================================================
