----------------------------- MODULE RateLimiter ----------------------------
(***************************************************************************)
(* The request limiter of the HTTP server (requestRateLimiter in           *)
(* security.go): for each key, a client and a class of requests, the times *)
(* of the requests accepted in the last window.  The middleware reads the  *)
(* clock before it calls allow, so a request can enter the mutex after one *)
(* with a later time.                                                      *)
(***************************************************************************)
EXTENDS Integers, Sequences, FiniteSets, FiniteSetsExt, SequencesExt

CONSTANTS
  Key,
  Request,   \* concurrent requests
  Limit,     \* requests of one key per window
  Window,    \* managementRateWindow
  MaxKeys,   \* requestRateLimiterMaxKeys
  MaxTime,   \* bound: the clock
  MaxLag,    \* bound: time between reading the clock and taking the mutex
  Never

VARIABLES
  now,
  entries,      \* key -> sequence of times, for the keys in the map
  lastCleanup,
  waiting,      \* request -> <<key, its time>>, or Never
  accepted      \* history: key -> sequence of the accepted times

vars == <<now, entries, lastCleanup, waiting, accepted>>

Init ==
  /\ now = 0 /\ entries = <<>> /\ lastCleanup = Never
  /\ waiting = [r \in Request |-> Never]
  /\ accepted = [k \in Key |-> <<>>]

Arrive(r, k) ==
  /\ waiting[r] = Never
  /\ waiting' = [waiting EXCEPT ![r] = <<k, now>>]
  /\ UNCHANGED <<now, entries, lastCleanup, accepted>>

(* Once per window the keys without a recent request leave the map.        *)
(* Mutant: only the first request cleans up.                               *)
FirstRequestOnly(t) == lastCleanup = Never
CleanupDue(t) == lastCleanup = Never \/ t - lastCleanup >= Window

(* Mutant: a key expires with its first request.                           *)
FirstExpired(times, t) == times = <<>> \/ Head(times) < t - Window
Expired(times, t) == times = <<>> \/ Last(times) < t - Window

Cleaned(t) ==
  LET stay == {k \in DOMAIN entries : ~CleanupDue(t) \/ ~Expired(entries[k], t)}
  IN  [k \in stay |-> entries[k]]

(* The loop drops times from the front up to the first one in the window.  *)
Recent(times, t) ==
  LET inWindow == {i \in DOMAIN times : times[i] >= t - Window}
  IN  IF inWindow = {} THEN <<>> ELSE SubSeq(times, Min(inWindow), Len(times))

Requests(table, k, t) == IF k \in DOMAIN table THEN Recent(table[k], t) ELSE <<>>

Put(table, k, times) ==
  [other \in DOMAIN table \cup {k} |-> IF other = k THEN times ELSE table[other]]

(* allow: a new key is turned away while the map is full.                  *)
Allow(r) ==
  /\ waiting[r] # Never
  /\ LET k == waiting[r][1]
         t == waiting[r][2]
         table == Cleaned(t)
         recent == Requests(table, k, t)
     IN  /\ lastCleanup' = IF CleanupDue(t) THEN t ELSE lastCleanup
         /\ IF k \notin DOMAIN table /\ Cardinality(DOMAIN table) >= MaxKeys
              THEN entries' = table /\ UNCHANGED accepted
            ELSE IF Len(recent) >= Limit
              THEN entries' = Put(table, k, recent) /\ UNCHANGED accepted
            ELSE /\ entries' = Put(table, k, Append(recent, t))
                 /\ accepted' = [accepted EXCEPT ![k] = Append(@, t)]
  /\ waiting' = [waiting EXCEPT ![r] = Never]
  /\ UNCHANGED now

Tick ==
  /\ now < MaxTime
  /\ \A r \in Request : waiting[r] # Never => now + 1 - waiting[r][2] <= MaxLag
  /\ now' = now + 1
  /\ UNCHANGED <<entries, lastCleanup, waiting, accepted>>

Next ==
  \/ \E r \in Request : Allow(r) \/ \E k \in Key : Arrive(r, k)
  \/ Tick

Spec == Init /\ [][Next]_vars

-----------------------------------------------------------------------------
(* Of no client are more than Limit requests accepted whose times lie in   *)
(* one window, whatever the cleanup removed in between.  The window is     *)
(* shorter by twice the lag: a late request leaves the times of a key out  *)
(* of order, and the cleanup, which looks only at the last one, can then   *)
(* remove a key that still has a recent request.                           *)
InWindow(times, t) == {i \in DOMAIN times : times[i] \in t .. (t + Window - 2 * MaxLag)}

AcceptedPerWindow ==
  \A k \in Key : \A i \in DOMAIN accepted[k] :
    Cardinality(InWindow(accepted[k], accepted[k][i])) <= Limit

(* The map never holds more than MaxKeys clients, however many there are.  *)
TableBounded == Cardinality(DOMAIN entries) <= MaxKeys

(* A full map does not lock new clients out for good: a first request that *)
(* comes when every client of the map has been silent for two windows is   *)
(* accepted.                                                               *)
FullTableRecovers ==
  [][\A r \in Request :
       LET k == waiting[r][1]
           t == waiting[r][2]
       IN  /\ waiting[r] # Never /\ waiting'[r] = Never
           /\ \A other \in Key : \A i \in DOMAIN accepted[other] :
                accepted[other][i] < t - 2 * Window
           => accepted'[k] # accepted[k]]_vars
=============================================================================
