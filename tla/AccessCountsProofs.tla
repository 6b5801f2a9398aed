------------------------- MODULE AccessCountsProofs -------------------------
(***************************************************************************)
(* The access counter, for any finite number of downloads, timers and      *)
(* requests, and any number of restarts and failed writes.                 *)
(*                                                                         *)
(* Conservation is inductive as soon as the counters are natural numbers;  *)
(* what a step does to the sum of the accesses in the hands of goroutines  *)
(* is a fact about sums (module FiniteSums).                               *)
(***************************************************************************)
EXTENDS AccessCounts, FiniteSums

(* The counters are natural numbers.                                       *)
CountersAreNatural ==
  /\ accessCount \in Nat /\ lastAccessAt \in Nat /\ pending \in Nat /\ latest \in Nat
  /\ arrived \in Nat /\ served \in Nat /\ lost \in Nat
  /\ taken \in [Actor -> Nat] /\ takenAt \in [Actor -> Nat]
  /\ pc \in [Actor -> Stage]

(* The inductive invariant.                                                *)
AccessInv == CountersAreNatural /\ AccessesAreConserved

(* No counter goes below zero.                                             *)
LEMMA NaturalStep == CountersAreNatural /\ [Next]_vars => CountersAreNatural'
<1> SUFFICES ASSUME CountersAreNatural, [Next]_vars  PROVE CountersAreNatural'
  OBVIOUS
<1> USE DEF CountersAreNatural, metaVars, stateVars, history, Goto, Stage
<1>1. ASSUME NEW a \in Actor, Download(a)  PROVE CountersAreNatural'
  BY <1>1 DEF Download
<1>2. ASSUME NEW a \in Actor, Delete(a)  PROVE CountersAreNatural'
  BY <1>2 DEF Delete
<1>3. ASSUME NEW a \in Actor, Fire(a)  PROVE CountersAreNatural'
  BY <1>3 DEF Fire
<1>4. ASSUME NEW a \in Actor, Record(a)  PROVE CountersAreNatural'
  BY <1>4 DEF Record, Take
<1>5. ASSUME NEW a \in Actor, Flush(a)  PROVE CountersAreNatural'
  BY <1>5 DEF Flush, Take
<1>6. ASSUME NEW a \in Actor, Persist(a)  PROVE CountersAreNatural'
  BY <1>6 DEF Persist, Later
<1>7. ASSUME NEW a \in Actor, Requeue(a)  PROVE CountersAreNatural'
  BY <1>7 DEF Requeue, Later
<1>8. ASSUME NEW a \in Actor, Forget(a)  PROVE CountersAreNatural'
  BY <1>8 DEF Forget, Forgotten
<1>9. CASE Elapse
  BY <1>9 DEF Elapse
<1>10. ASSUME Crash  PROVE CountersAreNatural'
  <2>1. SumFunctionOnSet(InFlight, Actor) \in Nat
    <3>1. \A a \in Actor : InFlight[a] \in Nat
      BY DEF InFlight
    <3> QED
      BY <3>1, ActorsAreFinite, SumIsNatural
  <2> QED
    BY <1>10, <2>1 DEF Crash, Forgotten
<1>11. CASE UNCHANGED vars
  BY <1>11 DEF vars
<1> QED
  BY <1>1, <1>2, <1>3, <1>4, <1>5, <1>6, <1>7, <1>8, <1>9, <1>10, <1>11 DEF Next, Step

(* A step of one actor changes the sum of what is in flight by what it     *)
(* changes of its own.                                                     *)
LEMMA InFlightChanges ==
  ASSUME CountersAreNatural, CountersAreNatural', NEW a \in Actor,
         \A b \in Actor \ {a} : InFlight'[b] = InFlight[b]
  PROVE  SumFunctionOnSet(InFlight, Actor)' =
           SumFunctionOnSet(InFlight, Actor) - InFlight[a] + InFlight'[a]
<1>1. \A b \in Actor : InFlight[b] \in Nat /\ InFlight'[b] \in Nat
  BY DEF InFlight, CountersAreNatural
<1>2. SumFunctionOnSet(InFlight', Actor) =
           SumFunctionOnSet(InFlight, Actor) - InFlight[a] + InFlight'[a]
  BY <1>1, ActorsAreFinite, SumChangesInOnePlace
<1>3. Actor' = Actor
  OBVIOUS
<1> QED
  BY <1>2

(* Every step moves accesses from one place to another.                    *)
LEMMA ConservationStep == AccessInv /\ [Next]_vars => AccessesAreConserved'
<1> SUFFICES ASSUME AccessInv, [Next]_vars  PROVE AccessesAreConserved'
  OBVIOUS
<1>n. CountersAreNatural /\ CountersAreNatural'
  BY NaturalStep DEF AccessInv
<1> DEFINE inFlight == SumFunctionOnSet(InFlight, Actor)
<1>s. served = accessCount + pending + inFlight + lost
  BY DEF AccessInv, AccessesAreConserved
<1>t. inFlight \in Nat
  <2>1. \A a \in Actor : InFlight[a] \in Nat
    BY <1>n DEF InFlight, CountersAreNatural
  <2> QED
    BY <2>1, ActorsAreFinite, SumIsNatural
<1> SUFFICES served' = accessCount' + pending' + inFlight' + lost'
  BY DEF AccessesAreConserved
<1>a. ASSUME NEW a \in Actor, \A b \in Actor \ {a} : pc'[b] = pc[b] /\ taken'[b] = taken[b]
      PROVE  inFlight' = inFlight - InFlight[a] + InFlight'[a]
  <2>1. \A b \in Actor \ {a} : InFlight'[b] = InFlight[b]
    BY <1>a DEF InFlight
  <2> QED
    BY <2>1, <1>n, InFlightChanges
<1> HIDE DEF inFlight
<1> USE DEF CountersAreNatural, metaVars, stateVars, history, Goto, Stage, InFlight
<1>1. ASSUME NEW a \in Actor, Download(a)
      PROVE  served' = accessCount' + pending' + inFlight' + lost'
  BY <1>1, <1>a, <1>n, <1>s, <1>t DEF Download
<1>2. ASSUME NEW a \in Actor, Delete(a)
      PROVE  served' = accessCount' + pending' + inFlight' + lost'
  BY <1>2, <1>a, <1>n, <1>s, <1>t DEF Delete
<1>3. ASSUME NEW a \in Actor, Fire(a)
      PROVE  served' = accessCount' + pending' + inFlight' + lost'
  BY <1>3, <1>a, <1>n, <1>s, <1>t DEF Fire
<1>4. ASSUME NEW a \in Actor, Record(a)
      PROVE  served' = accessCount' + pending' + inFlight' + lost'
  BY <1>4, <1>a, <1>n, <1>s, <1>t DEF Record, Take
<1>5. ASSUME NEW a \in Actor, Flush(a)
      PROVE  served' = accessCount' + pending' + inFlight' + lost'
  BY <1>5, <1>a, <1>n, <1>s, <1>t DEF Flush, Take
<1>6. ASSUME NEW a \in Actor, Persist(a)
      PROVE  served' = accessCount' + pending' + inFlight' + lost'
  BY <1>6, <1>a, <1>n, <1>s, <1>t DEF Persist
<1>7. ASSUME NEW a \in Actor, Requeue(a)
      PROVE  served' = accessCount' + pending' + inFlight' + lost'
  BY <1>7, <1>a, <1>n, <1>s, <1>t DEF Requeue
<1>8. ASSUME NEW a \in Actor, Forget(a)
      PROVE  served' = accessCount' + pending' + inFlight' + lost'
  BY <1>8, <1>a, <1>n, <1>s, <1>t DEF Forget, Forgotten
<1>9. ASSUME Crash
      PROVE  served' = accessCount' + pending' + inFlight' + lost'
  <2>1. inFlight' = 0
    <3>1. \A a \in Actor : InFlight'[a] = 0
      BY <1>9 DEF Crash
    <3> HIDE DEF InFlight
    <3> QED
      BY <3>1, ActorsAreFinite, SumOfZeros DEF inFlight
  <2> QED
    BY <1>9, <2>1, <1>n, <1>s, <1>t DEF Crash, Forgotten, inFlight
<1>10. ASSUME Elapse \/ UNCHANGED vars
       PROVE  served' = accessCount' + pending' + inFlight' + lost'
  <2>1. inFlight' = inFlight
    BY <1>10 DEF Elapse, vars, inFlight
  <2> QED
    BY <1>10, <2>1, <1>s DEF Elapse, vars
<1> QED
  BY <1>1, <1>2, <1>3, <1>4, <1>5, <1>6, <1>7, <1>8, <1>9, <1>10 DEF Next, Step

(* The inductive invariant holds in every reachable state.                 *)
THEOREM AccessInvariant == Spec => []AccessInv
<1>1. Init => AccessInv
  <2> SUFFICES ASSUME Init PROVE AccessInv
    OBVIOUS
  <2>1. CountersAreNatural
    BY DEF Init, CountersAreNatural, Stage
  <2>2. SumFunctionOnSet(InFlight, Actor) = 0
    <3>1. \A a \in Actor : InFlight[a] = 0
      BY DEF Init, InFlight
    <3> QED
      BY <3>1, ActorsAreFinite, SumOfZeros
  <2> QED
    BY <2>1, <2>2 DEF Init, AccessInv, AccessesAreConserved
<1>2. AccessInv /\ [Next]_vars => AccessInv'
  BY NaturalStep, ConservationStep DEF AccessInv
<1> QED
  BY <1>1, <1>2, PTL DEF Spec

(* Every counted download is in access_count, pending, in the hands of one *)
(* goroutine, or forgotten with the publication or the process             *)
(* (published.go:622-714).                                                 *)
THEOREM NoAccessIsLostOrCountedTwice == Spec => []AccessesAreConserved
<1>1. AccessInv => AccessesAreConserved
  BY DEF AccessInv
<1> QED
  BY <1>1, AccessInvariant, PTL

(* Neither LastAccessAt nor access_count of meta.json ever goes back,      *)
(* whatever order batches are written in (published.go:680-688).           *)
THEOREM LastAccessNeverGoesBack == Spec => LastAccessIsMonotonic
<1>1. CountersAreNatural /\ [Next]_vars
        => [lastAccessAt' >= lastAccessAt /\ accessCount' >= accessCount]_metaVars
  <2> SUFFICES ASSUME CountersAreNatural, Next,
                      ~ UNCHANGED metaVars
               PROVE  lastAccessAt' >= lastAccessAt /\ accessCount' >= accessCount
    BY DEF vars
  <2> USE DEF CountersAreNatural, metaVars
  <2>1. ASSUME NEW a \in Actor, Persist(a)
        PROVE  lastAccessAt' >= lastAccessAt /\ accessCount' >= accessCount
    BY <2>1 DEF Persist, Later
  <2>2. ASSUME NEW a \in Actor, Delete(a)
        PROVE  lastAccessAt' >= lastAccessAt /\ accessCount' >= accessCount
    BY <2>2 DEF Delete
  <2> QED
    BY <2>1, <2>2 DEF Next, Step, Download, Fire, Record, Flush, Requeue, Forget, Elapse, Crash
<1>2. AccessInv => CountersAreNatural
  BY DEF AccessInv
<1> QED
  BY <1>1, <1>2, AccessInvariant, PTL DEF Spec, LastAccessIsMonotonic
=============================================================================
