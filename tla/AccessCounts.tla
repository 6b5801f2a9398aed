---------------------------- MODULE AccessCounts ----------------------------
(***************************************************************************)
(* The access counter of one publication (published.go): downloads are     *)
(* counted in memory and added to AccessCount and LastAccessAt in its      *)
(* meta.json at most once per publishedAccessWriteInterval by a download,  *)
(* or later by a timer.  What could not be written is put back.  Deleting  *)
(* the publication forgets the counter, and so does a restart.             *)
(*                                                                         *)
(* publishedAccess holds an independent state per publication, so one is   *)
(* modelled.  Time is abstract: the interval may have passed at any step,  *)
(* and a timer may fire at any step.                                       *)
(***************************************************************************)
EXTENDS Integers, FiniteSets, Functions

CONSTANTS
  Actor,        \* downloads, requests and goroutines of fired timers
  MaxAccesses,  \* bound: downloads
  MaxMishaps    \* bound: failed writes and restarts

ASSUME ActorsAreFinite == IsFiniteSet(Actor)

VARIABLES
  exists,        \* the publication has a meta.json
  accessCount,   \* AccessCount and
  lastAccessAt,  \*   LastAccessAt in it, as the number of a download
  known,         \* publishedAccess has a state, and in it:
  pending,       \*   accesses to add
  latest,        \*   lastAccessAt
  recent,        \*   lastPersisted is younger than the interval
  flushTimer,    \*   the timer: "none", "armed" or "fired"
  orphans,       \* armed timers that flushTimer does not name any more
  pc,            \* where each actor is
  taken,         \* accesses that it took from pending
  takenAt,       \* the time it counts or writes them with
  arrived,       \* history: downloads so far, which is also the clock
  served,        \* history: downloads that have been counted
  lost,          \* history: accesses forgotten by a deletion or a restart
  mishaps

metaVars == <<exists, accessCount, lastAccessAt>>
stateVars == <<known, pending, latest, recent, flushTimer>>
history == <<arrived, served, lost, mishaps>>
vars == <<metaVars, stateVars, orphans, pc, taken, takenAt, history>>

Stage == {"idle", "record", "persist", "requeue", "flush", "forget"}

Init ==
  /\ exists = TRUE /\ accessCount = 0 /\ lastAccessAt = 0
  /\ known = FALSE /\ pending = 0 /\ latest = 0 /\ recent = FALSE
  /\ flushTimer = "none" /\ orphans = 0
  /\ pc = [a \in Actor |-> "idle"]
  /\ taken = [a \in Actor |-> 0] /\ takenAt = [a \in Actor |-> 0]
  /\ arrived = 0 /\ served = 0 /\ lost = 0 /\ mishaps = 0

Goto(a, stage) == pc' = [pc EXCEPT ![a] = stage]

Later(m, n) == IF n > m THEN n ELSE m

(* Accesses that actors have taken and not yet written or put back.        *)
InFlight ==
  [a \in Actor |-> IF pc[a] \in {"persist", "requeue"} THEN taken[a] ELSE 0]

-----------------------------------------------------------------------------
(* loadPublishedYAML found the publication and read its content, and      *)
(* recordPublishedAccess reads the clock, before it has the mutex.         *)
Download(a) ==
  /\ pc[a] = "idle"
  /\ exists
  /\ arrived < MaxAccesses
  /\ arrived' = arrived + 1
  /\ taken' = [taken EXCEPT ![a] = 0]
  /\ takenAt' = [takenAt EXCEPT ![a] = arrived + 1]
  /\ Goto(a, "record")
  /\ UNCHANGED <<metaVars, stateVars, orphans, served, lost, mishaps>>

(* Mutant: what is taken stays pending.                                    *)
TakeCopy(a, count, at) ==
  /\ taken' = [taken EXCEPT ![a] = count]
  /\ takenAt' = [takenAt EXCEPT ![a] = at]
  /\ pending' = count
  /\ recent' = TRUE

(* Take everything that is pending in order to write it.                   *)
Take(a, count, at) ==
  /\ taken' = [taken EXCEPT ![a] = count]
  /\ takenAt' = [takenAt EXCEPT ![a] = at]
  /\ pending' = 0
  /\ recent' = TRUE

(* recordPublishedAccess under publishedAccessMu.  A timer that has fired  *)
(* already cannot be stopped.                                              *)
Record(a) ==
  /\ pc[a] = "record"
  /\ served' = served + 1
  /\ known' = TRUE
  /\ latest' = takenAt[a]
  /\ \/ /\ ~recent
        /\ Take(a, pending + 1, takenAt[a])
        /\ flushTimer' = "none"
        /\ Goto(a, "persist")
     \/ /\ recent
        /\ pending' = pending + 1
        /\ flushTimer' = IF flushTimer = "none" THEN "armed" ELSE flushTimer
        /\ Goto(a, "idle")
        /\ UNCHANGED <<recent, taken, takenAt>>
  /\ UNCHANGED <<metaVars, orphans, arrived, lost, mishaps>>

(* A timer fires: its goroutine starts, but has not got the mutex yet.     *)
Fire(a) ==
  /\ pc[a] = "idle"
  /\ \/ flushTimer = "armed" /\ flushTimer' = "fired" /\ UNCHANGED orphans
     \/ orphans > 0 /\ orphans' = orphans - 1 /\ UNCHANGED flushTimer
  /\ Goto(a, "flush")
  /\ UNCHANGED <<metaVars, known, pending, latest, recent, taken, takenAt, history>>

(* flushPublishedAccess under publishedAccessMu.  It drops the reference   *)
(* to whatever timer is registered, which may be a newer one.              *)
Flush(a) ==
  /\ pc[a] = "flush"
  /\ \/ ~known /\ Goto(a, "idle") /\ UNCHANGED <<stateVars, orphans, taken, takenAt>>
     \/ /\ known
        /\ Take(a, pending, latest)
        /\ flushTimer' = "none"
        /\ orphans' = IF flushTimer = "armed" THEN orphans + 1 ELSE orphans
        /\ Goto(a, IF pending = 0 THEN "idle" ELSE "persist")
        /\ UNCHANGED <<known, latest>>
  /\ UNCHANGED <<metaVars, history>>

(* Mutant: the time that was taken is written whatever meta.json says.     *)
PersistOverwriting(a) ==
  /\ pc[a] = "persist" /\ exists
  /\ accessCount' = accessCount + taken[a]
  /\ lastAccessAt' = takenAt[a]
  /\ Goto(a, "idle")
  /\ UNCHANGED <<exists, stateVars, orphans, taken, takenAt, history>>

(* persistPublishedAccess: updatePublishedMeta adds to the counts of the   *)
(* meta.json on disk, which may be gone or fail to be written.             *)
Persist(a) ==
  /\ pc[a] = "persist"
  /\ \/ /\ exists
        /\ accessCount' = accessCount + taken[a]
        /\ lastAccessAt' = Later(lastAccessAt, takenAt[a])
        /\ Goto(a, "idle")
        /\ UNCHANGED mishaps
     \/ /\ \/ ~exists /\ UNCHANGED mishaps
           \/ exists /\ mishaps < MaxMishaps /\ mishaps' = mishaps + 1
        /\ Goto(a, "requeue")
        /\ UNCHANGED <<accessCount, lastAccessAt>>
  /\ UNCHANGED <<exists, stateVars, orphans, taken, takenAt, arrived, served, lost>>

(* Mutant: what could not be written replaces what came in meanwhile.      *)
RequeueReplacing(a) ==
  /\ pc[a] = "requeue"
  /\ known' = TRUE
  /\ pending' = taken[a]
  /\ latest' = Later(latest, takenAt[a])
  /\ flushTimer' = IF flushTimer = "none" THEN "armed" ELSE flushTimer
  /\ Goto(a, "idle")
  /\ UNCHANGED <<metaVars, recent, orphans, taken, takenAt, history>>

(* Mutant: no timer is started for what was put back.                      *)
RequeueWithoutTimer(a) ==
  /\ pc[a] = "requeue"
  /\ known' = TRUE
  /\ pending' = pending + taken[a]
  /\ latest' = Later(latest, takenAt[a])
  /\ Goto(a, "idle")
  /\ UNCHANGED <<metaVars, recent, flushTimer, orphans, taken, takenAt, history>>

(* requeuePublishedAccess                                                  *)
Requeue(a) ==
  /\ pc[a] = "requeue"
  /\ known' = TRUE
  /\ pending' = pending + taken[a]
  /\ latest' = Later(latest, takenAt[a])
  /\ flushTimer' = IF flushTimer = "none" THEN "armed" ELSE flushTimer
  /\ Goto(a, "idle")
  /\ UNCHANGED <<metaVars, recent, orphans, taken, takenAt, history>>

(* The publication is deleted ...                                          *)
Delete(a) ==
  /\ pc[a] = "idle"
  /\ exists
  /\ exists' = FALSE
  /\ Goto(a, "forget")
  /\ UNCHANGED <<accessCount, lastAccessAt, stateVars, orphans, taken, takenAt, history>>

Forgotten ==
  /\ known' = FALSE /\ pending' = 0 /\ latest' = 0 /\ recent' = FALSE
  /\ flushTimer' = "none"

(* ... and then its counter: forgetPublishedAccess.                        *)
Forget(a) ==
  /\ pc[a] = "forget"
  /\ Forgotten
  /\ lost' = lost + pending
  /\ Goto(a, "idle")
  /\ UNCHANGED <<metaVars, orphans, taken, takenAt, arrived, served,
                 mishaps>>

(* publishedAccessWriteInterval passes.                                    *)
Elapse ==
  /\ recent
  /\ recent' = FALSE
  /\ UNCHANGED <<metaVars, known, pending, latest, flushTimer, orphans, pc, taken, takenAt,
                 history>>

(* The process stops and starts again.                                     *)
Crash ==
  /\ mishaps < MaxMishaps
  /\ mishaps' = mishaps + 1
  /\ Forgotten
  /\ lost' = lost + pending + SumFunctionOnSet(InFlight, Actor)
  /\ orphans' = 0
  /\ pc' = [a \in Actor |-> "idle"]
  /\ taken' = [a \in Actor |-> 0] /\ takenAt' = [a \in Actor |-> 0]
  /\ UNCHANGED <<metaVars, arrived, served>>

Step(a) == Record(a) \/ Flush(a) \/ Persist(a) \/ Requeue(a) \/ Forget(a)

Next ==
  \/ \E a \in Actor : Download(a) \/ Delete(a) \/ Fire(a) \/ Step(a)
  \/ Elapse
  \/ Crash

Spec == Init /\ [][Next]_vars

(* Goroutines go on, and timers fire.                                      *)
Fairness == WF_vars(\E a \in Actor : Fire(a)) /\ \A a \in Actor : WF_vars(Step(a))

FairSpec == Spec /\ Fairness
-----------------------------------------------------------------------------
(* Every variable has its type.  That the counters and the number of       *)
(* timers stay within the number of downloads is not a matter of course:   *)
(* a timer that flushes arms a new one when its write fails, and may leave *)
(* one behind that nobody refers to.                                       *)
TypeOK ==
  /\ exists \in BOOLEAN /\ known \in BOOLEAN /\ recent \in BOOLEAN
  /\ accessCount \in 0..MaxAccesses /\ lastAccessAt \in 0..MaxAccesses
  /\ pending \in 0..MaxAccesses /\ latest \in 0..MaxAccesses
  /\ flushTimer \in {"none", "armed", "fired"} /\ orphans \in 0..MaxAccesses
  /\ pc \in [Actor -> Stage]
  /\ taken \in [Actor -> 0..MaxAccesses] /\ takenAt \in [Actor -> 0..MaxAccesses]
  /\ arrived \in 0..MaxAccesses /\ served \in 0..arrived /\ lost \in 0..served
  /\ mishaps \in 0..MaxMishaps

(* Every counted download is in exactly one place: in access_count of      *)
(* meta.json, pending in memory, in the hands of a goroutine that writes   *)
(* it or puts it back, or forgotten with the publication or the process.   *)
(* None is counted twice and none is dropped, however downloads, timers,   *)
(* failed writes and a deletion interleave (published.go:622-714).         *)
AccessesAreConserved ==
  served = accessCount + pending + SumFunctionOnSet(InFlight, Actor) + lost

(* Writers take their batches in one order and may reach meta.json in      *)
(* another: LastAccessAt, by which cleanupStalePublished finds the links   *)
(* nobody uses, never goes back (published.go:680-688).                    *)
LastAccessIsMonotonic ==
  [][lastAccessAt' >= lastAccessAt /\ accessCount' >= accessCount]_metaVars

(* While the publication exists, no download stays uncounted for good: the *)
(* first one after a pause writes at once, the next ones rely on a timer,  *)
(* and a failed write relies on the timer that putting it back starts.     *)
EventuallyCounted == <>[](exists => accessCount + lost = served)
=============================================================================
