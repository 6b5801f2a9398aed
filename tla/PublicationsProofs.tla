------------------------- MODULE PublicationsProofs -------------------------
(***************************************************************************)
(* The limit on live publications and the bindings of workspaces to them,  *)
(* for any number of actors, workspaces and publications, under restarts   *)
(* and failed writes at any step.                                          *)
(*                                                                         *)
(* The first part is about the limit.  Its invariant is OneCreator, which  *)
(* says that whoever is inside createPublished holds publishedCreateMu,    *)
(* also while it sweeps, and RoomIsKept: what it counted is still true     *)
(* when it makes its own.                                                  *)
(*                                                                         *)
(* The second part is about bindings.  First the lemmas on what a step may *)
(* change: the variables of other actors, references, publications, locks, *)
(* workspaces, and how an actor comes to the stages that matter.  They     *)
(* alone look at the actions.  Then one lemma per conjunct of the          *)
(* invariant BindInv, then the theorems.                                   *)
(*                                                                         *)
(* The third part carries the theorems on private links over to the        *)
(* specification that composes links with publications.                    *)
(***************************************************************************)
EXTENDS MCPublished, FiniteSetTheorems, WellFoundedInduction, TLAPS

(* a is in createPublished, under publishedCreateMu.                        *)
Creating(a) ==
  \/ pc[a] \in {"count", "recount", "make"}
  \/ pc[a] \in {"sweep", "unbind"} /\ after[a] = "recount"

StagesTyped ==
  /\ pc \in [Actor -> Stage]
  /\ after \in [Actor -> {"leave", "recount"}]

DirsFinite == IsFiniteSet(dirOf) /\ metaOf \subseteq dirOf

OneCreator == \A a \in Actor : Creating(a) => creator = a

(* What a refresh counted is still true when it makes its publication:     *)
(* others only remove publications meanwhile, or migrate some.             *)
RoomIsKept ==
  \A a \in Actor : pc[a] = "make" /\ public => Cardinality(Created) < MaxPublications

LimitInv ==
  StagesTyped /\ DirsFinite /\ OneCreator /\ RoomIsKept /\ LivePublicationsBounded

-----------------------------------------------------------------------------
(* Fewer of the created publications are live, and no more than before.    *)
LEMMA FewerLive ==
  ASSUME DirsFinite, NEW S, S \subseteq Created
  PROVE  Cardinality(S) <= Cardinality(Created) /\ Cardinality(S) \in Nat
         /\ Cardinality(Created) \in Nat
<1>1. IsFiniteSet(Created)
  BY FS_Subset DEF DirsFinite, Created
<1>2. IsFiniteSet(S) /\ Cardinality(S) <= Cardinality(Created)
  BY <1>1, FS_Subset
<1> QED
  BY <1>1, <1>2, FS_CardinalityType

(* A step that creates no publication, of an actor that comes to hold or   *)
(* to count only in its turn, keeps the invariant.                         *)
LEMMA QuietStep ==
  ASSUME LimitInv, UNCHANGED public, StagesTyped', DirsFinite', Created' \subseteq Created,
         \A a \in Actor : Creating(a)' => creator' = a,
         \A a \in Actor : pc'[a] = "make" => pc[a] = "make"
  PROVE  LimitInv'
<1>1. Cardinality(Created') <= Cardinality(Created) /\ Cardinality(Created') \in Nat
      /\ Cardinality(Created) \in Nat
  BY FewerLive DEF LimitInv
<1>2. RoomIsKept' /\ LivePublicationsBounded'
  BY <1>1, LimitIsNat DEF LimitInv, RoomIsKept, LivePublicationsBounded
<1> QED
  BY <1>2 DEF LimitInv, OneCreator

(* Most steps move one actor from one stage to another one outside         *)
(* createPublished, and create no publication.                             *)
LEMMA MoveOutside ==
  ASSUME LimitInv, NEW a \in Actor,
         NEW s \in Stage \ {"count", "recount", "make", "sweep", "unbind"}, Goto(a, s),
         after' \in [Actor -> {"leave", "recount"}],
         \A b \in Actor \ {a} : after'[b] = after[b],
         UNCHANGED <<public, creator>>, DirsFinite', Created' \subseteq Created
  PROVE  LimitInv'
<1>1. pc' = [pc EXCEPT ![a] = s]
  BY DEF Goto
<1>2. StagesTyped'
  BY <1>1 DEF LimitInv, StagesTyped
<1>3. \A b \in Actor : Creating(b)' => Creating(b) /\ b # a
  BY <1>1 DEF LimitInv, StagesTyped, Creating
<1>4. \A b \in Actor : pc'[b] = "make" => pc[b] = "make"
  BY <1>1 DEF LimitInv, StagesTyped
<1> QED
  BY <1>2, <1>3, <1>4, QuietStep DEF LimitInv, OneCreator

(* Neither a removal nor a step without one creates a publication.         *)
LEMMA NoneCreated ==
  ASSUME NEW p, RemoveDir(p) \/ RemoveDirFails(p) \/ UNCHANGED <<metaOf, migrated>>
  PROVE  Created' \subseteq Created
BY DEF RemoveDir, RemoveDirFails, kindVars, Created

(* Directories come and go one at a time.                                  *)
LEMMA DirsStayFinite ==
  ASSUME DirsFinite, NEW p,
         \/ RemoveDir(p) \/ RemoveDirFails(p)
         \/ dirOf' = dirOf \cup {p} /\ metaOf' \in {metaOf, metaOf \cup {p}}
         \/ UNCHANGED <<dirOf, metaOf>>
  PROVE  DirsFinite'
<1>1. IsFiniteSet(dirOf \cup {p}) /\ IsFiniteSet(dirOf \ {p}) /\ IsFiniteSet(dirOf)
  BY FS_AddElement, FS_RemoveElement DEF DirsFinite
<1> QED
  BY <1>1 DEF DirsFinite, RemoveDir, RemoveDirFails

LEMMA InitLimit == Init => LimitInv
<1> SUFFICES ASSUME Init PROVE LimitInv
  OBVIOUS
<1>1. StagesTyped
  BY DEF Init, StagesTyped, Stage
<1>2. DirsFinite /\ Cardinality(Created) = 0
  BY FS_EmptySet DEF Init, DirsFinite, Created
<1>3. OneCreator /\ RoomIsKept
  BY DEF Init, OneCreator, RoomIsKept, Creating
<1>4. LivePublicationsBounded
  BY <1>2, LimitIsNat DEF LivePublicationsBounded
<1> QED
  BY <1>1, <1>2, <1>3, <1>4 DEF LimitInv

LEMMA BeginKeepsLimit ==
  ASSUME LimitInv, NEW a \in Actor, Begin(a)
  PROVE  LimitInv'
<1>1. CASE BeginSweep(a)
  <2>1. pc' = [pc EXCEPT ![a] = "sweep"] /\ after' = [after EXCEPT ![a] = "leave"]
        /\ UNCHANGED <<public, creator, dirOf, metaOf, migrated>>
    BY <1>1 DEF BeginSweep, Goto, lockVars, diskVars, kindVars, historyVars
  <2>2. StagesTyped' /\ DirsFinite' /\ Created' \subseteq Created
    BY <2>1 DEF LimitInv, StagesTyped, DirsFinite, Stage, Created
  <2>3. \A b \in Actor : Creating(b)' => Creating(b) /\ b # a
    BY <2>1 DEF LimitInv, StagesTyped, Creating
  <2>4. \A b \in Actor : pc'[b] = "make" => pc[b] = "make"
    BY <2>1 DEF LimitInv, StagesTyped
  <2> QED
    BY <2>1, <2>2, <2>3, <2>4, QuietStep DEF LimitInv, OneCreator
<1>2. ASSUME NEW w, NEW p, NEW s \in {"check", "draft", "save", "drop", "pinned", "ensure",
                                     "scheduled", "remove"}, Enter(a, w, p, s)
      PROVE  LimitInv'
  BY <1>2, MoveOutside DEF Enter, LimitInv, StagesTyped, DirsFinite, Stage, diskVars, kindVars,
                           historyVars, Created
<1>3. CASE BeginRestore(a)
  BY <1>3, MoveOutside DEF BeginRestore, LimitInv, StagesTyped, DirsFinite, Stage, lockVars,
                           diskVars, kindVars, historyVars, Created
<1>4. CASE BeginAdopt(a)
  BY <1>4, MoveOutside DEF BeginAdopt, LimitInv, StagesTyped, DirsFinite, Stage, lockVars,
                           diskVars, kindVars, historyVars, Created
<1> QED
  BY <1>1, <1>2, <1>3, <1>4 DEF Begin, BeginBind, BeginDraft, BeginDrop, BeginExpire,
                                BeginRefresh, BeginScheduled, BeginDelete

(* The steps outside createPublished that leave publications alone.        *)
LEMMA OutsideKeepsLimit ==
  ASSUME LimitInv, NEW a \in Actor,
         \/ LockNext(a) \/ Check(a) \/ Bind(a) \/ Leave(a) \/ Pinned(a) \/ RemoveWorkspace(a)
         \/ LoadScheduled(a) \/ Ensure(a) \/ Rebind(a) \/ Config(a) \/ Start(a)
         \/ BindDone(a) \/ Release(a)
  PROVE  LimitInv'
<1>1. PICK s \in Stage \ {"count", "recount", "make", "sweep", "unbind"} : Goto(a, s)
  BY DEF LockNext, Check, Bind, Leave, Pinned, RemoveWorkspace, LoadScheduled, Ensure, Rebind,
         Config, Start, BindDone, Release, Stage
<1>2. UNCHANGED <<public, creator, dirOf, metaOf, migrated>>
  BY DEF LockNext, Check, Bind, Leave, Pinned, RemoveWorkspace, LoadScheduled, Ensure, Rebind,
         Config, Start, BindDone, Release, lockVars, diskVars, kindVars, historyVars
<1>3. after' \in {after, [after EXCEPT ![a] = "leave"]}
  BY DEF LockNext, Check, Bind, Leave, Pinned, RemoveWorkspace, LoadScheduled, Ensure, Rebind,
         Config, Start, BindDone, Release, actorVars
<1>4. DirsFinite' /\ Created' \subseteq Created
  BY <1>2 DEF LimitInv, DirsFinite, Created
<1> QED
  BY <1>1, <1>2, <1>3, <1>4, MoveOutside DEF LimitInv, StagesTyped

(* The steps outside createPublished that write or remove a publication.   *)
LEMMA WritersKeepLimit ==
  ASSUME LimitInv, NEW a \in Actor,
         BindNew(a) \/ StageResult(a) \/ Publish(a) \/ Finalize(a) \/ Discard(a) \/ Remove(a)
  PROVE  LimitInv'
<1>1. PICK s \in Stage \ {"count", "recount", "make", "sweep", "unbind"} : Goto(a, s)
  BY DEF BindNew, StageResult, Publish, Finalize, Discard, Remove, RemovePublished, Stage
<1>2. UNCHANGED <<public, creator, after>>
  BY DEF BindNew, StageResult, Publish, Finalize, Discard, Remove, RemovePublished, RemoveDir,
         RemoveDirFails, lockVars, actorVars, historyVars
<1>3. \/ RemoveDir(pub[a]) \/ RemoveDirFails(pub[a])
      \/ dirOf' = dirOf \cup {pub[a]} /\ UNCHANGED <<metaOf, migrated>>
      \/ UNCHANGED <<dirOf, metaOf, migrated>>
  BY DEF BindNew, StageResult, Publish, Finalize, Discard, Remove, RemovePublished, kindVars
<1>4. DirsFinite' /\ Created' \subseteq Created
  BY <1>3, DirsStayFinite, NoneCreated DEF LimitInv
<1> QED
  BY <1>1, <1>2, <1>4, MoveOutside DEF LimitInv, StagesTyped

(* A migration makes a publication, though not one that counts.            *)
LEMMA MigrationsKeepLimit ==
  ASSUME LimitInv, NEW a \in Actor, Migrate(a) \/ Fill(a) \/ Date(a) \/ Fallback(a)
  PROVE  LimitInv'
<1>1. PICK s \in Stage \ {"count", "recount", "make", "sweep", "unbind"} : Goto(a, s)
  BY DEF Migrate, Fill, Date, Fallback, CreateWithToken, Stage
<1>2. UNCHANGED <<public, creator, after>>
  BY DEF Migrate, Fill, Date, Fallback, lockVars, actorVars
<1>3. \E p : \/ /\ dirOf' = dirOf \cup {p} /\ metaOf' \in {metaOf, metaOf \cup {p}}
                /\ migrated' = migrated \cup {p}
             \/ dirOf' = dirOf \cup {p} /\ UNCHANGED <<metaOf, migrated>>
             \/ UNCHANGED <<dirOf, metaOf, migrated>>
  BY DEF Migrate, Fill, Date, Fallback, CreateWithToken, kindVars
<1>4. DirsFinite' /\ Created' \subseteq Created
  BY <1>3, DirsStayFinite DEF LimitInv, Created
<1> QED
  BY <1>1, <1>2, <1>4, MoveOutside DEF LimitInv, StagesTyped

(* createPublished.                                                        *)
LEMMA LockCreateKeepsLimit ==
  ASSUME LimitInv, NEW a \in Actor, LockCreate(a)
  PROVE  LimitInv'
<1>1. pc' = [pc EXCEPT ![a] = "count"] /\ creator = NoActor /\ creator' = a
      /\ UNCHANGED <<public, after, dirOf, metaOf, migrated>>
  BY DEF LockCreate, Goto, actorVars, diskVars, kindVars, historyVars
<1>2. \A b \in Actor : ~Creating(b)
  BY <1>1, NoActorIsNoActor DEF LimitInv, OneCreator
<1>3. \A b \in Actor : Creating(b)' => b = a
  BY <1>1, <1>2 DEF LimitInv, StagesTyped, Creating
<1>4. /\ StagesTyped' /\ DirsFinite' /\ Created' \subseteq Created
      /\ \A b \in Actor : pc'[b] = "make" => pc[b] = "make"
  BY <1>1 DEF LimitInv, StagesTyped, DirsFinite, Stage, Created
<1> QED
  BY <1>1, <1>3, <1>4, QuietStep

LEMMA CountKeepsLimit ==
  ASSUME LimitInv, NEW a \in Actor, Count(a)
  PROVE  LimitInv'
<1>1. UNCHANGED <<public, dirOf, metaOf, migrated>> /\ creator = a
  BY DEF Count, diskVars, kindVars, historyVars, LimitInv, OneCreator, Creating
<1>2. \A b \in Actor : Creating(b) => b = a
  BY <1>1 DEF LimitInv, OneCreator
<1>3. DirsFinite' /\ Created' = Created
  BY <1>1 DEF LimitInv, DirsFinite, Created
<1>4. CASE ~AtLimit /\ Goto(a, "make") /\ UNCHANGED <<sweep, after, creator>>
  <2>1. pc' = [pc EXCEPT ![a] = "make"]
    BY <1>4 DEF Goto
  <2>2. StagesTyped' /\ OneCreator'
    BY <1>1, <1>2, <1>4, <2>1 DEF LimitInv, StagesTyped, OneCreator, Creating, Stage
  <2>3. public => Cardinality(Created) < MaxPublications
    <3>1. IsFiniteSet(dirOf) /\ IsFiniteSet(Created)
          /\ Cardinality(Created) <= Cardinality(dirOf)
      BY FS_Subset DEF LimitInv, DirsFinite, Created
    <3>2. Cardinality(dirOf) \in Nat /\ Cardinality(Created) \in Nat
      BY <3>1, FS_CardinalityType
    <3> QED
      BY <1>4, <3>1, <3>2, LimitIsNat DEF AtLimit
  <2>4. RoomIsKept' /\ LivePublicationsBounded'
    BY <1>1, <1>3, <2>3 DEF RoomIsKept, LimitInv, LivePublicationsBounded
  <2> QED
    BY <1>3, <2>2, <2>4 DEF LimitInv
<1>5. CASE /\ after' = [after EXCEPT ![a] = "recount"] /\ Goto(a, "sweep")
           /\ UNCHANGED creator
  <2>1. pc' = [pc EXCEPT ![a] = "sweep"]
    BY <1>5 DEF Goto
  <2>2. StagesTyped' /\ (\A b \in Actor : pc'[b] = "make" => pc[b] = "make")
    BY <1>5, <2>1 DEF LimitInv, StagesTyped, Stage
  <2>3. \A b \in Actor : Creating(b)' => creator' = b
    BY <1>1, <1>2, <1>5, <2>1 DEF LimitInv, StagesTyped, Creating
  <2> QED
    BY <1>1, <1>3, <2>2, <2>3, QuietStep
<1>6. CASE creator' = NoActor /\ Goto(a, "leave") /\ UNCHANGED <<sweep, after>>
  <2>1. pc' = [pc EXCEPT ![a] = "leave"]
    BY <1>6 DEF Goto
  <2>2. StagesTyped' /\ (\A b \in Actor : pc'[b] = "make" => pc[b] = "make")
    BY <1>6, <2>1 DEF LimitInv, StagesTyped, Stage
  <2>3. \A b \in Actor : ~Creating(b)'
    BY <1>2, <1>6, <2>1 DEF LimitInv, StagesTyped, Creating
  <2> QED
    BY <1>1, <1>3, <2>2, <2>3, QuietStep
<1> QED
  BY <1>4, <1>5, <1>6 DEF Count

LEMMA MakeKeepsLimit ==
  ASSUME LimitInv, NEW a \in Actor, Make(a)
  PROVE  LimitInv'
<1>1. PICK p \in Pub \ used :
        dirOf' = dirOf \cup {p} /\ metaOf' \in {metaOf, metaOf \cup {p}}
  BY DEF Make, CreateWithToken
<1>2. PICK s \in {"bindNew", "leave"} : pc' = [pc EXCEPT ![a] = s]
  BY DEF Make, CreateWithToken, Goto
<1>3. UNCHANGED <<public, after>> /\ creator' = NoActor
  BY DEF Make
<1>4. \A b \in Actor : Creating(b) => b = a
  BY DEF Make, LimitInv, OneCreator, Creating
<1>5. StagesTyped'
  BY <1>2, <1>3 DEF LimitInv, StagesTyped, Stage
<1>6. \A b \in Actor : ~Creating(b)'
  BY <1>2, <1>3, <1>4 DEF LimitInv, StagesTyped, Creating
<1>7. OneCreator' /\ RoomIsKept'
  BY <1>6 DEF OneCreator, RoomIsKept, Creating
<1>8. DirsFinite'
  BY <1>1, DirsStayFinite DEF LimitInv
<1>9. LivePublicationsBounded'
  <2>1. Created' \subseteq Created \cup {p}
    BY <1>1 DEF Make, kindVars, Created
  <2>2. IsFiniteSet(Created)
    BY FS_Subset DEF LimitInv, DirsFinite, Created
  <2>3. IsFiniteSet(Created \cup {p})
        /\ Cardinality(Created \cup {p})
             = IF p \in Created THEN Cardinality(Created) ELSE Cardinality(Created) + 1
    BY <2>2, FS_AddElement
  <2>4. IsFiniteSet(Created') /\ Cardinality(Created') <= Cardinality(Created \cup {p})
    BY <2>1, <2>3, FS_Subset
  <2>5. /\ Cardinality(Created) \in Nat /\ Cardinality(Created') \in Nat
        /\ Cardinality(Created \cup {p}) \in Nat
    BY <2>2, <2>3, <2>4, FS_CardinalityType
  <2>6. public => Cardinality(Created) < MaxPublications
    BY DEF Make, LimitInv, RoomIsKept
  <2>7. public => Cardinality(Created') <= MaxPublications
    BY <2>3, <2>4, <2>5, <2>6, LimitIsNat
  <2> QED
    BY <1>3, <2>7 DEF LivePublicationsBounded
<1> QED
  BY <1>5, <1>7, <1>8, <1>9 DEF LimitInv

LEMMA SweepOneKeepsLimit ==
  ASSUME LimitInv, NEW a \in Actor, SweepOne(a)
  PROVE  LimitInv'
<1>1. PICK p \in sweep[a] :
        \/ /\ UNCHANGED <<pc, dirOf, metaOf, migrated>>
           /\ after' \in {after, [after EXCEPT ![a] = "leave"]}
        \/ /\ Goto(a, "unbind") /\ RemoveDir(p)
           /\ after' \in {after, [after EXCEPT ![a] = "leave"]}
        \/ /\ Goto(a, "sweep") /\ RemoveDirFails(p)
           /\ after' \in {after, [after EXCEPT ![a] = "leave"]}
  BY DEF SweepOne, RemovePublished, LimitInv, StagesTyped, kindVars
<1>2. pc[a] = "sweep" /\ pc' \in {pc, [pc EXCEPT ![a] = "unbind"], [pc EXCEPT ![a] = "sweep"]}
      /\ after' \in {after, [after EXCEPT ![a] = "leave"]}
  BY <1>1 DEF SweepOne, Goto
<1>3. UNCHANGED <<public, creator>>
  BY DEF SweepOne, lockVars
<1>4. DirsFinite' /\ Created' \subseteq Created
  BY <1>1, DirsStayFinite, NoneCreated DEF LimitInv
<1>5. StagesTyped' /\ (\A b \in Actor : pc'[b] = "make" => pc[b] = "make")
  BY <1>2 DEF LimitInv, StagesTyped, Stage
<1>6. \A b \in Actor : Creating(b)' => Creating(b)
  BY <1>2 DEF LimitInv, StagesTyped, Creating
<1> QED
  BY <1>3, <1>4, <1>5, <1>6, QuietStep DEF LimitInv, OneCreator

LEMMA SweepEndsKeepLimit ==
  ASSUME LimitInv, NEW a \in Actor, SweepDone(a) \/ Clear(a)
  PROVE  LimitInv'
<1>1. UNCHANGED <<public, after, dirOf, metaOf, migrated>>
  BY DEF SweepDone, Clear, actorVars, diskVars, kindVars, historyVars
<1>2. DirsFinite' /\ Created' \subseteq Created
  BY <1>1 DEF LimitInv, DirsFinite, Created
<1>3. CASE SweepDone(a)
  <2>1. pc' = [pc EXCEPT ![a] = after[a]] /\ pc[a] = "sweep"
        /\ creator' = IF creator = a /\ after[a] = "leave" THEN NoActor ELSE creator
    BY <1>3 DEF SweepDone, Goto
  <2>2. StagesTyped' /\ (\A b \in Actor : pc'[b] = "make" => pc[b] = "make")
    BY <1>1, <2>1 DEF LimitInv, StagesTyped, Stage
  <2>3. \A b \in Actor : Creating(b)' => Creating(b) /\ (b = a => after[a] = "recount")
    BY <1>1, <2>1 DEF LimitInv, StagesTyped, Creating
  <2>4. \A b \in Actor : Creating(b)' => creator' = b
    BY <2>1, <2>3 DEF LimitInv, OneCreator
  <2> QED
    BY <1>1, <1>2, <2>2, <2>4, QuietStep
<1>4. CASE Clear(a)
  <2>1. \/ pc' = pc
        \/ pc[a] = "clear" /\ pc' = [pc EXCEPT ![a] = "leave"]
        \/ pc[a] = "unbind" /\ pc' = [pc EXCEPT ![a] = "sweep"]
    BY <1>4 DEF Clear, VisitsDone, Goto
  <2>2. UNCHANGED creator
    BY <1>4 DEF Clear, lockVars
  <2>3. StagesTyped' /\ (\A b \in Actor : pc'[b] = "make" => pc[b] = "make")
    BY <1>1, <2>1 DEF LimitInv, StagesTyped, Stage
  <2>4. \A b \in Actor : Creating(b)' => Creating(b)
    BY <1>1, <2>1 DEF LimitInv, StagesTyped, Creating
  <2> QED
    BY <1>1, <1>2, <2>2, <2>3, <2>4, QuietStep DEF LimitInv, OneCreator
<1> QED
  BY <1>3, <1>4

LEMMA NextLimit == LimitInv /\ [Next]_vars => LimitInv'
<1> SUFFICES ASSUME LimitInv, [Next]_vars PROVE LimitInv'
  OBVIOUS
<1>1. ASSUME NEW a \in Actor, Begin(a) PROVE LimitInv'
  BY <1>1, BeginKeepsLimit
<1>2. ASSUME NEW a \in Actor, Step(a) PROVE LimitInv'
  BY <1>2, OutsideKeepsLimit, WritersKeepLimit, MigrationsKeepLimit, LockCreateKeepsLimit,
     CountKeepsLimit, MakeKeepsLimit, SweepOneKeepsLimit, SweepEndsKeepLimit DEF Step
<1>3. CASE Crash
  <2>1. pc' = [a \in Actor |-> "idle"] /\ after' = [a \in Actor |-> "leave"]
        /\ UNCHANGED <<public, dirOf, metaOf, migrated>>
    BY <1>3 DEF Crash, diskVars, kindVars
  <2>2. StagesTyped' /\ DirsFinite' /\ (\A b \in Actor : ~Creating(b)')
        /\ (\A b \in Actor : pc'[b] # "make") /\ Created' \subseteq Created
    BY <2>1 DEF LimitInv, StagesTyped, DirsFinite, Creating, Stage, Created
  <2> QED
    BY <2>1, <2>2, QuietStep
<1>4. CASE Age \/ Access \/ UNCHANGED vars
  <2>1. UNCHANGED <<pc, after, creator, public, dirOf, metaOf, migrated>>
    BY <1>4 DEF Age, Access, vars, actorVars, lockVars, diskVars, kindVars, historyVars
  <2> QED
    BY <2>1 DEF LimitInv, StagesTyped, DirsFinite, OneCreator, Creating, RoomIsKept,
                LivePublicationsBounded, Created
<1> QED
  BY <1>1, <1>2, <1>3, <1>4 DEF Next

(* Inside createPublished the lock is held and the room that was counted   *)
(* is still there, whatever other requests and sweeps do meanwhile.  The   *)
(* migrations, which take no lock and count nothing, are outside.          *)
THEOREM LimitInvariant == Spec => []LimitInv
  BY InitLimit, NextLimit, PTL DEF Spec

(* In public mode createPublished never lets the live publications that it *)
(* created exceed SUBCONV_MAX_PUBLICATIONS, however many refreshes create  *)
(* one at once and whatever is migrated meanwhile.                         *)
THEOREM LimitHolds == Spec => []LivePublicationsBounded
<1>1. LimitInv => LivePublicationsBounded
  BY DEF LimitInv
<1> QED
  BY <1>1, LimitInvariant, PTL

-----------------------------------------------------------------------------
(* Part two: the bindings.                                                 *)

(* The types that references need.                                         *)
RefTypes ==
  /\ home \in [Actor -> Workspace \cup {First(Workspace)}]
  /\ pub \in [Actor -> used \cup {NoPub}]
  /\ made \in [Actor -> BOOLEAN]
  /\ todo \in [Actor -> SUBSET Workspace]
  /\ wsLock \in [Workspace -> Actor \cup {NoActor}]
  /\ exists \subseteq Workspace /\ oldFiles \subseteq Workspace
  /\ bound \in [Workspace -> used \cup {NoPub}]
  /\ metaOf \subseteq used /\ yamlOf \subseteq used /\ used \subseteq Pub

(* A request holds the lock of its workspace, from its first step on or    *)
(* when it has locked two; a sweep only does inside createPublished, and a *)
(* download that migrates never.                                           *)
Holding(a) ==
  \/ pc[a] \notin {"idle", "lock", "leave", "sweep", "unbind", "adopt", "adoptFill", "adoptDate"}
  \/ pc[a] \in {"sweep", "unbind"} /\ after[a] = "recount"

LocksAreHeld ==
  \A a \in Actor :
    /\ Holding(a) => home[a] \in Workspace /\ wsLock[home[a]] = a
    /\ pc[a] = "lock" => home[a] \in Workspace /\ (home[a] \in todo[a] \/ wsLock[home[a]] = a)

(* A stage of a refresh that will bind its workspace to its publication.   *)
Refreshing == {"rebind", "bindNew", "config", "start", "stage", "publish", "finalize", "bindDone"}
Binding == Refreshing \cup {"bind", "save"}

(* A stage of a migration that has made its publication.                   *)
Named == {"fill", "date", "adoptFill", "adoptDate"}

(* Whoever is there may write, bind or give up its publication.            *)
Handling == Binding \cup Named \cup {"release", "discard"}

(* The stages in which a publication that the refresh made may be given up.*)
Giving == {"bindNew", "config", "start", "stage", "publish", "release", "discard"}

(* a is on the way to the publication of a refresh.                        *)
Ensuring(a) ==
  \/ pc[a] \in {"ensure", "migrate", "fill", "date", "fallback", "create", "count", "recount",
                 "make", "scheduled"}
  \/ pc[a] \in {"sweep", "unbind"} /\ after[a] = "recount"

(* A refresh has a publication, and its workspace stays.                   *)
RefreshersStay ==
  \A a \in Actor :
    /\ pc[a] \in Refreshing \cup Named \cup {"release", "discard"} => pub[a] \in used
    /\ pc[a] \in Refreshing \/ Ensuring(a) => home[a] \in exists

(* A workspace that is gone is bound to nothing.                           *)
GoneAreFree == \A w \in Workspace \ exists : bound[w] = NoPub

(* Only a refresh has made a publication.                                  *)
MakerRefreshes ==
  \A a \in Actor :
    /\ made[a] => pc[a] \in (Refreshing \ {"rebind"}) \cup {"release", "discard", "leave"}
    /\ pc[a] \in {"bindNew", "discard"} => made[a]

(* Until it has content, the publication that a refresh made is its own:   *)
(* no other workspace is bound to it and no other actor will bind one.     *)
Private ==
  \A a \in Actor : made[a] /\ pc[a] \in Giving =>
    /\ pub[a] \notin yamlOf
    /\ \A w \in Workspace : bound[w] = pub[a] => w = home[a] /\ pc[a] # "bindNew"
    /\ pc[a] = "discard" /\ bound[home[a]] = pub[a] => pub[a] \in interrupted
    /\ \A b \in Actor \ {a} : pc[b] \in Handling => pub[b] # pub[a]

(* A workspace that will be removed was seen to be free.                   *)
ExpiringAreFree == \A a \in Actor : pc[a] = "expire" => bound[home[a]] \notin metaOf

(* p was deleted and whoever did it has not come to w yet.                 *)
Unbinding(p, w) ==
  \E a \in Actor : pc[a] \in {"clear", "unbind"} /\ pub[a] = p /\ w \in todo[a]

(* What an actor is about to bind may be deleted, but then the deletion    *)
(* still has to visit its workspace.                                       *)
BindersAreVisited ==
  \A a \in Actor :
    /\ pc[a] \in Binding /\ home[a] \in exists
    /\ pub[a] \in used \ (metaOf \cup interrupted)
    => Unbinding(pub[a], home[a])

BindInv ==
  /\ StagesTyped /\ RefTypes /\ LocksAreHeld /\ RefreshersStay /\ GoneAreFree /\ MakerRefreshes
  /\ Private /\ ExpiringAreFree /\ BindersAreVisited
  /\ NoDanglingBinding /\ NoForgottenPublication

-----------------------------------------------------------------------------
(* A step of one actor leaves the variables of the others alone.           *)
OthersAlone(a) ==
  \A b \in Actor \ {a} :
    /\ pc'[b] = pc[b] /\ home'[b] = home[b] /\ pub'[b] = pub[b] /\ made'[b] = made[b]
    /\ todo'[b] = todo[b] /\ after'[b] = after[b]

LEMMA StepsAreLocal ==
  ASSUME StagesTyped, RefTypes, NEW a \in Actor, Begin(a) \/ Step(a)
  PROVE  OthersAlone(a)
<1>1. CASE Begin(a)
  BY <1>1 DEF Begin, BeginBind, BeginDraft, BeginDrop, BeginExpire, BeginRefresh, BeginScheduled,
    BeginDelete, BeginRestore, BeginSweep, BeginAdopt, Enter, Goto, OthersAlone, StagesTyped,
    RefTypes
<1>2. CASE LockNext(a) \/ Check(a) \/ Bind(a) \/ Pinned(a) \/ RemoveWorkspace(a)
             \/ LoadScheduled(a) \/ Ensure(a) \/ Migrate(a) \/ Fill(a) \/ Date(a) \/ Fallback(a)
             \/ Rebind(a) \/ LockCreate(a) \/ Config(a)
  BY <1>2 DEF LockNext, Check, Bind, Pinned, RemoveWorkspace, LoadScheduled, Ensure, Migrate, Fill,
    Date, Fallback, Rebind, CreateWithToken, LockCreate, Config, Goto, OthersAlone, StagesTyped,
    RefTypes, actorVars
<1>3. CASE Leave(a) \/ Count(a) \/ Make(a) \/ BindNew(a) \/ Start(a) \/ StageResult(a)
             \/ Publish(a) \/ Finalize(a) \/ BindDone(a) \/ Release(a) \/ Discard(a)
  BY <1>3 DEF Leave, Count, Make, CreateWithToken, BindNew, Start, StageResult, Publish, Finalize,
              BindDone, Release, Discard, Goto, OthersAlone, StagesTyped, RefTypes, actorVars
<1>4. CASE Remove(a) \/ SweepOne(a) \/ SweepDone(a) \/ Clear(a)
  BY <1>4 DEF Remove, SweepOne, SweepDone, Clear, RemovePublished, VisitsDone,
              Goto, OthersAlone, StagesTyped, RefTypes, actorVars
<1> QED
  BY <1>1, <1>2, <1>3, <1>4 DEF Step

(* What a step may do to the references of workspaces.                     *)
BoundChanges(a) ==
  \A w \in Workspace : bound'[w] # bound[w] =>
    \/ bound'[w] = NoPub
    \/ /\ w = home[a] /\ bound'[w] = pub[a] /\ UNCHANGED metaOf
       /\ \/ pc[a] \in {"rebind", "bindNew", "bindDone"}
          \/ pc[a] \in {"bind", "save"} /\ w \in exists

LEMMA StepsOnBound ==
  ASSUME RefTypes, NEW a \in Actor, Begin(a) \/ Step(a)
  PROVE  BoundChanges(a) /\ bound' \in [Workspace -> used' \cup {NoPub}] /\ used \subseteq used'
<1>1. CASE UNCHANGED <<bound, used>>
  BY <1>1 DEF BoundChanges, RefTypes
<1>2. CASE Make(a) \/ Migrate(a) \/ Fallback(a)
  BY <1>2 DEF BoundChanges, RefTypes, Make, Migrate, Fallback, CreateWithToken
<1>3. CASE Fill(a) \/ Date(a)
  BY <1>1, <1>3 DEF Fill, Date
<1>4. CASE Bind(a) \/ BindNew(a) \/ BindDone(a) \/ Release(a) \/ Ensure(a) \/ Rebind(a)
           \/ RemoveWorkspace(a)
  BY <1>4 DEF BoundChanges, RefTypes, Bind, BindNew, BindDone, Release, Ensure, Rebind,
    RemoveWorkspace, SetBound, historyVars
<1>5. CASE Clear(a)
  BY <1>5 DEF BoundChanges, RefTypes, Clear, SetBound
<1>6. CASE Begin(a)
  BY <1>1, <1>6 DEF Begin, BeginBind, BeginDraft, BeginDrop, BeginExpire, BeginRefresh,
    BeginScheduled, BeginDelete, BeginRestore, BeginSweep, BeginAdopt, Enter, diskVars, historyVars
<1>7. CASE \/ LockNext(a) \/ Check(a) \/ Leave(a) \/ Pinned(a) \/ LoadScheduled(a)
           \/ LockCreate(a) \/ Count(a) \/ Config(a) \/ Start(a) \/ StageResult(a) \/ Publish(a)
           \/ Finalize(a) \/ Discard(a) \/ Remove(a) \/ SweepOne(a) \/ SweepDone(a)
  BY <1>1, <1>7 DEF LockNext, Check, Leave, Pinned, LoadScheduled, LockCreate, Count,
    Config, Start, StageResult, Publish, Finalize, Discard, Remove, SweepOne, SweepDone,
    diskVars, historyVars
<1> QED
  BY <1>2, <1>3, <1>4, <1>5, <1>6, <1>7 DEF Step

(* What a step may do to publications.                                     *)
PubChanges(a) ==
  /\ \A p \in metaOf' \ metaOf :
       pc[a] \in {"make", "migrate", "adopt", "fallback"} /\ p \in Pub \ used
  /\ \A p \in yamlOf' \ yamlOf : pc[a] \in {"publish", "fill", "adoptFill"} /\ p = pub[a]
  /\ \A p \in metaOf \ metaOf' :
       \/ p \in interrupted'
       \/ p = pub'[a] /\ pc'[a] \in {"clear", "unbind"} /\ todo'[a] = exists
       \/ p = pub[a] /\ pc[a] \in {"bindNew", "discard"} /\ pc'[a] = "leave"
  /\ \A p \in yamlOf \ yamlOf' : p \in interrupted' \/ p \notin metaOf'
  /\ interrupted \subseteq interrupted'

LEMMA RemovalChanges ==
  ASSUME StagesTyped, RefTypes, NEW a \in Actor, NEW p, NEW s \in {"clear", "unbind"}, NEW t,
         RemovePublished(a, p, s, t), pub'[a] = p
  PROVE  PubChanges(a)
<1>1. CASE RemoveDir(p) /\ todo' = [todo EXCEPT ![a] = exists] /\ Goto(a, s)
  BY <1>1 DEF PubChanges, RemoveDir, Goto, StagesTyped, RefTypes
<1>2. CASE RemoveDirFails(p)
  BY <1>2 DEF PubChanges, RemoveDirFails, FailOn
<1> QED
  BY <1>1, <1>2 DEF RemovePublished

LEMMA StepsOnPubs ==
  ASSUME StagesTyped, RefTypes, NEW a \in Actor, Begin(a) \/ Step(a)
  PROVE  PubChanges(a)
<1>1. CASE UNCHANGED <<metaOf, yamlOf, interrupted>>
  BY <1>1 DEF PubChanges
<1>2. CASE Make(a) \/ Migrate(a) \/ Fallback(a)
  BY <1>2 DEF PubChanges, Make, Migrate, Fallback, CreateWithToken, FailOn
<1>3. CASE Fill(a) \/ Date(a) \/ Rebind(a)
  BY <1>3 DEF PubChanges, Fill, Date, Rebind, FailOn
<1>4. CASE BindNew(a) \/ Discard(a)
  BY <1>4 DEF PubChanges, BindNew, Discard, RemoveDir, RemoveDirFails, FailOn, Goto, StagesTyped
<1>5. CASE Finalize(a)
  BY <1>5 DEF PubChanges, Finalize, RemoveDir, RemoveDirFails, FailOn
<1>6. CASE Remove(a)
  BY <1>6, RemovalChanges DEF Remove, actorVars, lockVars, PubChanges
<1>7. CASE SweepOne(a)
  <2>1. PICK p \in sweep[a] :
          \/ UNCHANGED <<metaOf, yamlOf, interrupted>>
          \/ RemovePublished(a, p, "unbind", "sweep") /\ pub' = [pub EXCEPT ![a] = p]
    BY <1>7 DEF SweepOne
  <2> QED
    BY <1>1, <2>1, RemovalChanges DEF RefTypes
<1>8. CASE StageResult(a) \/ Publish(a) \/ Config(a) \/ Release(a) \/ Clear(a)
  BY <1>8 DEF PubChanges, StageResult, Publish, Config, Release, Clear, FailOn, diskVars,
    historyVars
<1>9. CASE Begin(a)
  BY <1>1, <1>9 DEF Begin, BeginBind, BeginDraft, BeginDrop, BeginExpire, BeginRefresh,
    BeginScheduled, BeginDelete, BeginRestore, BeginSweep, BeginAdopt, Enter, diskVars, historyVars
<1>10. CASE \/ LockNext(a) \/ Check(a) \/ Bind(a) \/ Leave(a) \/ Pinned(a) \/ RemoveWorkspace(a)
           \/ LoadScheduled(a) \/ Ensure(a) \/ LockCreate(a) \/ Count(a) \/ Start(a)
           \/ BindDone(a) \/ SweepDone(a)
  BY <1>1, <1>10 DEF LockNext, Check, Bind, Leave, Pinned, RemoveWorkspace, LoadScheduled, Ensure,
    LockCreate, Count, Start, BindDone, SweepDone, diskVars, historyVars
<1> QED
  BY <1>2, <1>3, <1>4, <1>5, <1>6, <1>7, <1>8, <1>9, <1>10 DEF Step

(* What a step does to the locks.                                          *)
LockChanges(a) ==
  \A w \in Workspace : wsLock'[w] # wsLock[w] =>
    \/ wsLock[w] = NoActor /\ wsLock'[w] = a
    \/ wsLock[w] = a /\ wsLock'[w] = NoActor /\ pc'[a] = "idle"

LEMMA StepsOnLocks ==
  ASSUME StagesTyped, RefTypes, NEW a \in Actor, Begin(a) \/ Step(a)
  PROVE  LockChanges(a) /\ wsLock' \in [Workspace -> Actor \cup {NoActor}]
<1>1. CASE UNCHANGED wsLock
  BY <1>1 DEF LockChanges, RefTypes
<1>2. CASE Begin(a)
  <2>1. \/ UNCHANGED wsLock
        \/ \E w \in Workspace : Locks!Acquire(a, w)
    BY <1>2 DEF Begin, BeginBind, BeginDraft, BeginDrop, BeginExpire, BeginRefresh, BeginScheduled,
      BeginDelete, BeginRestore, BeginSweep, BeginAdopt, Enter, lockVars, RefTypes
  <2> QED
    BY <1>1, <2>1 DEF Locks!Acquire, LockChanges, RefTypes
<1>3. CASE LockNext(a)
  <2>1. PICK w : Locks!Acquire(a, w)
    BY <1>3 DEF LockNext
  <2> QED
    BY <2>1 DEF Locks!Acquire, LockChanges, RefTypes
<1>4. CASE Leave(a)
  BY <1>4 DEF Leave, Goto, LockChanges, RefTypes, StagesTyped
<1>5. CASE \/ Check(a) \/ Bind(a) \/ Pinned(a) \/ RemoveWorkspace(a) \/ LoadScheduled(a)
           \/ Ensure(a) \/ Migrate(a) \/ Fill(a) \/ Date(a) \/ Fallback(a) \/ Rebind(a)
           \/ LockCreate(a) \/ Count(a) \/ Make(a) \/ BindNew(a) \/ Config(a)
           \/ Start(a) \/ StageResult(a) \/ Publish(a) \/ Finalize(a) \/ BindDone(a)
           \/ Release(a) \/ Discard(a) \/ Remove(a) \/ SweepOne(a) \/ SweepDone(a) \/ Clear(a)
  BY <1>1, <1>5 DEF Check, Bind, Pinned, RemoveWorkspace, LoadScheduled, Ensure, Migrate, Fill,
    Date, Fallback, Rebind, CreateWithToken, LockCreate, Count, Make, BindNew, Config, Start,
    StageResult, Publish, Finalize, BindDone, Release, Discard, Remove, SweepOne, SweepDone, Clear,
    lockVars
<1> QED
  BY <1>2, <1>3, <1>4, <1>5 DEF Step

(* An actor that holds the lock of its workspace after a step held it, and *)
(* keeps its workspace, or has just entered.                               *)
Entered(a) == home'[a] \in Workspace /\ wsLock'[home'[a]] = a

HoldingChanges(a) ==
  /\ Holding(a)' => Entered(a) \/ (Holding(a) /\ home'[a] = home[a])
  /\ pc'[a] = "lock" =>
       \/ home'[a] \in Workspace /\ home'[a] \in todo'[a]
       \/ Entered(a)

LEMMA StepsOnHolders ==
  ASSUME StagesTyped, RefTypes, LocksAreHeld, NEW a \in Actor, Begin(a) \/ Step(a)
  PROVE  HoldingChanges(a)
<1>1. ASSUME NEW w \in exists, NEW p, NEW s, Enter(a, w, p, s)
      PROVE  Entered(a)
  BY <1>1 DEF Enter, Locks!Acquire, Entered, RefTypes
<1>2. CASE BeginRestore(a)
  BY <1>2 DEF BeginRestore, Goto, HoldingChanges, Holding, StagesTyped, RefTypes
<1>3. CASE BeginSweep(a)
  BY <1>3 DEF BeginSweep, Goto, HoldingChanges, Holding, StagesTyped, RefTypes
<1>4. CASE BeginAdopt(a)
  BY <1>4 DEF BeginAdopt, Goto, HoldingChanges, Holding, StagesTyped, RefTypes
<1>5. CASE Begin(a)
  BY <1>1, <1>2, <1>3, <1>4, <1>5 DEF Begin, BeginBind, BeginDraft, BeginDrop, BeginExpire,
    BeginRefresh, BeginScheduled, BeginDelete, HoldingChanges, RefTypes
<1>6. CASE LockNext(a)
  <2>1. PICK w : w = First(todo[a]) /\ Locks!Acquire(a, w)
                 /\ todo' = [todo EXCEPT ![a] = @ \ {w}]
                 /\ Goto(a, IF todo[a] = {w} THEN "check" ELSE "lock")
                 /\ pc[a] = "lock" /\ UNCHANGED <<home>>
    BY <1>6 DEF LockNext
  <2>2. wsLock' = [wsLock EXCEPT ![w] = a]
    BY <2>1 DEF Locks!Acquire
  <2>3. home[a] \in Workspace /\ (home[a] \in todo[a] \/ wsLock[home[a]] = a)
    BY <2>1 DEF LocksAreHeld
  <2>4. CASE home[a] \in todo[a] \ {w}
    BY <2>1, <2>3, <2>4 DEF HoldingChanges, Holding, Goto, StagesTyped, RefTypes
  <2>5. CASE home[a] = w \/ wsLock[home[a]] = a
    BY <2>1, <2>2, <2>3, <2>5 DEF HoldingChanges, Entered, RefTypes
  <2> QED
    BY <2>3, <2>4, <2>5
<1>7. CASE \/ Check(a) \/ Bind(a) \/ Leave(a) \/ Pinned(a) \/ RemoveWorkspace(a)
           \/ LoadScheduled(a) \/ Ensure(a) \/ LockCreate(a)
  BY <1>7 DEF Check, Bind, Leave, Pinned, RemoveWorkspace, LoadScheduled, Ensure, LockCreate,
    Goto, HoldingChanges, Holding, StagesTyped, actorVars
<1>8. CASE Count(a) \/ Make(a) \/ BindNew(a) \/ Config(a) \/ Start(a)
  BY <1>8 DEF Count, Make, CreateWithToken, BindNew, Config, Start,
    Goto, HoldingChanges, Holding, StagesTyped, actorVars
<1>9. CASE Migrate(a) \/ Fill(a) \/ Date(a) \/ Fallback(a) \/ Rebind(a)
  BY <1>9 DEF Migrate, Fill, Date, Fallback, Rebind, CreateWithToken,
    Goto, HoldingChanges, Holding, StagesTyped, actorVars
<1>10. CASE StageResult(a) \/ Publish(a) \/ Finalize(a) \/ BindDone(a) \/ Release(a) \/ Discard(a)
  BY <1>10 DEF StageResult, Publish, Finalize, BindDone, Release, Discard,
    Goto, HoldingChanges, Holding, StagesTyped, actorVars
<1>11. CASE Remove(a) \/ SweepDone(a) \/ Clear(a)
  BY <1>11 DEF Remove, RemovePublished, SweepDone, Clear, VisitsDone,
    Goto, HoldingChanges, Holding, StagesTyped, actorVars
<1>12. CASE SweepOne(a)
  <2>1. pc[a] = "sweep" /\ UNCHANGED home
        /\ pc' \in {pc, [pc EXCEPT ![a] = "unbind"], [pc EXCEPT ![a] = "sweep"]}
        /\ after' \in {after, [after EXCEPT ![a] = "leave"]}
    BY <1>12 DEF SweepOne, RemovePublished, Goto, StagesTyped
  <2> QED
    BY <2>1 DEF HoldingChanges, Holding, StagesTyped
<1> QED
  BY <1>5, <1>6, <1>7, <1>8, <1>9, <1>10, <1>11, <1>12 DEF Step

LEMMA StepKeepsLocks ==
  ASSUME StagesTyped, RefTypes, LocksAreHeld, NEW a \in Actor, Begin(a) \/ Step(a)
  PROVE  LocksAreHeld'
<1>1. LockChanges(a) /\ HoldingChanges(a) /\ OthersAlone(a)
  BY StepsOnLocks, StepsOnHolders, StepsAreLocal
<1>2. ASSUME NEW b \in Actor, b # a
      PROVE  /\ Holding(b)' => home'[b] \in Workspace /\ wsLock'[home'[b]] = b
             /\ pc'[b] = "lock" => home'[b] \in Workspace
                                   /\ (home'[b] \in todo'[b] \/ wsLock'[home'[b]] = b)
  BY <1>1, <1>2, NoActorIsNoActor DEF LockChanges, OthersAlone, LocksAreHeld, Holding
<1>3. Holding(a)' => home'[a] \in Workspace /\ wsLock'[home'[a]] = a
  BY <1>1, NoActorIsNoActor DEF LockChanges, HoldingChanges, Entered, LocksAreHeld, Holding
<1>4. pc'[a] = "lock" => home'[a] \in Workspace /\ (home'[a] \in todo'[a] \/ wsLock'[home'[a]] = a)
  BY <1>1 DEF HoldingChanges, Entered
<1> QED
  BY <1>2, <1>3, <1>4 DEF LocksAreHeld

(* The types are kept.                                                     *)
LEMMA StepKeepsTypes ==
  ASSUME StagesTyped, RefTypes, RefreshersStay, NEW a \in Actor, Begin(a) \/ Step(a)
  PROVE  RefTypes'
<1> USE DEF RefTypes
<1>1. wsLock' \in [Workspace -> Actor \cup {NoActor}] /\ used \subseteq used'
      /\ bound' \in [Workspace -> used' \cup {NoPub}]
  BY StepsOnLocks, StepsOnBound
<1>2. CASE Begin(a)
  <2>1. UNCHANGED <<made, exists, oldFiles, metaOf, yamlOf, used>>
    BY <1>2 DEF Begin, BeginBind, BeginDraft, BeginDrop, BeginExpire, BeginRefresh,
      BeginScheduled, BeginDelete, BeginRestore, BeginSweep, BeginAdopt, Enter, diskVars, oldVars,
      historyVars
  <2>2. home' \in [Actor -> Workspace \cup {First(Workspace)}]
        /\ pub' \in [Actor -> used \cup {NoPub}]
        /\ todo' \in [Actor -> SUBSET Workspace]
    BY <1>2 DEF Begin, BeginBind, BeginDraft, BeginDrop, BeginExpire, BeginRefresh,
      BeginScheduled, BeginDelete, BeginRestore, BeginSweep, BeginAdopt, Enter
  <2> QED
    BY <1>1, <2>1, <2>2
<1>3. CASE \/ LockNext(a) \/ Check(a) \/ Bind(a) \/ Pinned(a) \/ RemoveWorkspace(a)
           \/ LoadScheduled(a) \/ Ensure(a) \/ LockCreate(a) \/ Count(a)
  BY <1>1, <1>3 DEF LockNext, Check, Bind, Pinned, RemoveWorkspace, LoadScheduled, Ensure,
    LockCreate, Count, Restorable, actorVars, lockVars, diskVars, oldVars, historyVars
<1>4. CASE Leave(a)
  BY <1>1, <1>4 DEF Leave, diskVars, oldVars, historyVars
<1>5. CASE Make(a) \/ Migrate(a) \/ Fallback(a)
  BY <1>1, <1>5 DEF Make, Migrate, Fallback, CreateWithToken, oldVars
<1>6. CASE Fill(a) \/ Date(a) \/ Rebind(a)
  BY <1>1, <1>6 DEF Fill, Date, Rebind, RefreshersStay, Named, actorVars, lockVars, oldVars
<1>7. CASE BindNew(a) \/ Config(a) \/ Start(a) \/ Finalize(a) \/ BindDone(a) \/ Release(a)
             \/ Discard(a)
  BY <1>1, <1>7 DEF BindNew, Config, Start, Finalize, BindDone, Release, Discard, RemoveDir,
    RemoveDirFails, actorVars, lockVars, diskVars, oldVars, historyVars
<1>8. CASE StageResult(a) \/ Publish(a)
  BY <1>1, <1>8 DEF StageResult, Publish, RefreshersStay, Refreshing, actorVars, oldVars,
    historyVars
<1>9. CASE Remove(a)
  BY <1>1, <1>9 DEF Remove, RemovePublished, RemoveDir, RemoveDirFails, oldVars
<1>10. CASE SweepOne(a)
  <2>1. PICK p \in sweep[a] :
          \/ UNCHANGED <<pub, todo, metaOf, yamlOf>>
          \/ /\ p \in metaOf /\ RemovePublished(a, p, "unbind", "sweep")
             /\ pub' = [pub EXCEPT ![a] = p]
    BY <1>10 DEF SweepOne
  <2>2. todo' \in [Actor -> SUBSET Workspace] /\ metaOf' \subseteq used /\ yamlOf' \subseteq used
        /\ pub' \in [Actor -> used \cup {NoPub}]
    BY <2>1 DEF RemovePublished, RemoveDir, RemoveDirFails
  <2> QED
    BY <1>1, <1>10, <2>2 DEF SweepOne, oldVars
<1>11. CASE SweepDone(a) \/ Clear(a)
  BY <1>1, <1>11 DEF SweepDone, Clear, actorVars, diskVars, oldVars, historyVars
<1> QED
  BY <1>2, <1>3, <1>4, <1>5, <1>6, <1>7, <1>8, <1>9, <1>10, <1>11 DEF Step

(* Whether a workspace exists: it is removed by an actor that holds its    *)
(* lock, and then bound to nothing.                                        *)
ExistsChanges(a) ==
  \A w \in exists \ exists' :
    w = home[a] /\ pc[a] \in {"drop", "expire"} /\ pc'[a] = "leave" /\ bound'[w] = NoPub

LEMMA StepsOnExists ==
  ASSUME StagesTyped, RefTypes, NEW a \in Actor, Begin(a) \/ Step(a)
  PROVE  ExistsChanges(a) /\ exists' \subseteq exists
<1>1. CASE UNCHANGED exists
  BY <1>1 DEF ExistsChanges
<1>2. CASE RemoveWorkspace(a)
  BY <1>2 DEF RemoveWorkspace, Goto, SetBound, ExistsChanges, StagesTyped, RefTypes
<1>3. CASE Begin(a)
  BY <1>1, <1>3 DEF Begin, BeginBind, BeginDraft, BeginDrop, BeginExpire, BeginRefresh,
    BeginScheduled, BeginDelete, BeginRestore, BeginSweep, BeginAdopt, Enter, diskVars
<1>4. CASE Step(a) /\ ~RemoveWorkspace(a)
  BY <1>1, <1>4 DEF Step, LockNext, Check, Bind, Leave, Pinned, LoadScheduled, Ensure, Migrate,
    Fill, Date, Fallback, Rebind, CreateWithToken, LockCreate, Count, Make, BindNew, Config, Start,
    StageResult, Publish, Finalize, BindDone, Release, Discard, Remove, SweepOne, SweepDone, Clear,
    diskVars
<1> QED
  BY <1>2, <1>3, <1>4

(* How an actor comes to a stage of a refresh.                             *)
RefreshChanges(a) ==
  /\ pc'[a] \in Refreshing \cup {"release", "discard"} =>
       \/ pc[a] \in Refreshing \cup {"release"} /\ home'[a] = home[a] /\ pub'[a] = pub[a]
       \/ Ensuring(a) /\ home'[a] = home[a] /\ pub'[a] \in used' /\ pc'[a] \in Refreshing
  /\ pc'[a] \in Named =>
       \/ pub'[a] \in used' \ used
       \/ pc[a] \in Named /\ pub'[a] = pub[a]
  /\ Ensuring(a)' => \/ home'[a] \in exists
                     \/ (Ensuring(a) \/ pc[a] = "rebind") /\ home'[a] = home[a]
  /\ pc'[a] \in Refreshing \cup {"release"} => pc[a] # "release"

LEMMA StepsOnRefreshers ==
  ASSUME StagesTyped, RefTypes, NEW a \in Actor, Begin(a) \/ Step(a)
  PROVE  RefreshChanges(a)
<1> USE DEF RefreshChanges, Refreshing, Named, Ensuring, StagesTyped, RefTypes, Goto
<1>1. CASE Begin(a)
  BY <1>1 DEF Begin, BeginBind, BeginDraft, BeginDrop, BeginExpire, BeginRefresh,
    BeginScheduled, BeginDelete, BeginRestore, BeginSweep, BeginAdopt, Enter
<1>2. CASE \/ LockNext(a) \/ Check(a) \/ Bind(a) \/ Leave(a) \/ Pinned(a) \/ RemoveWorkspace(a)
  BY <1>2 DEF LockNext, Check, Bind, Leave, Pinned, RemoveWorkspace
<1>3. CASE LoadScheduled(a) \/ Ensure(a)
  BY <1>3 DEF LoadScheduled, Ensure, Restorable, historyVars
<1>4. CASE Migrate(a) \/ Fallback(a)
  <2>1. PICK s \in {"fill", "adoptFill", "rebind", "leave", "fallback", "create"} :
          /\ pc[a] \in {"migrate", "adopt", "fallback"} /\ UNCHANGED home
          /\ pc' = [pc EXCEPT ![a] = s] /\ (pc[a] = "adopt" => s \in {"adoptFill", "leave"})
          /\ s \in {"fill", "adoptFill", "rebind"} =>
               \E p \in Pub \ used : pub' = [pub EXCEPT ![a] = p] /\ used' = used \cup {p}
    BY <1>4 DEF Migrate, Fallback, CreateWithToken
  <2> QED
    BY <2>1
<1>5. CASE Fill(a) \/ Date(a) \/ Rebind(a)
  BY <1>5 DEF Fill, Date, Rebind, actorVars
<1>6. CASE LockCreate(a)
  BY <1>6 DEF LockCreate, actorVars
<1>7. CASE Count(a)
  <2>1. pc[a] \in {"count", "recount"} /\ UNCHANGED home
        /\ pc' \in {[pc EXCEPT ![a] = "make"], [pc EXCEPT ![a] = "sweep"],
                    [pc EXCEPT ![a] = "leave"]}
    BY <1>7 DEF Count
  <2> QED
    BY <2>1
<1>8. CASE Make(a)
  <2>1. PICK p \in Pub \ used :
          /\ used' = used \cup {p} /\ pc[a] = "make" /\ UNCHANGED home
          /\ \/ pc' = [pc EXCEPT ![a] = "bindNew"] /\ pub' = [pub EXCEPT ![a] = p]
             \/ pc' = [pc EXCEPT ![a] = "leave"]
    BY <1>8 DEF Make, CreateWithToken
  <2> QED
    BY <2>1
<1>9. CASE \/ BindNew(a) \/ Config(a) \/ Start(a) \/ StageResult(a) \/ Publish(a) \/ Finalize(a)
           \/ BindDone(a) \/ Release(a) \/ Discard(a)
  BY <1>9 DEF BindNew, Config, Start, StageResult, Publish, Finalize, BindDone, Release, Discard,
    actorVars
<1>10. CASE Remove(a) \/ SweepDone(a) \/ Clear(a)
  BY <1>10 DEF Remove, RemovePublished, SweepDone, Clear, VisitsDone, actorVars
<1>11. CASE SweepOne(a)
  <2>1. pc[a] = "sweep" /\ UNCHANGED home
        /\ pc' \in {pc, [pc EXCEPT ![a] = "unbind"], [pc EXCEPT ![a] = "sweep"]}
        /\ after' \in {after, [after EXCEPT ![a] = "leave"]}
    BY <1>11 DEF SweepOne, RemovePublished
  <2> QED
    BY <2>1
<1> QED
  BY <1>1, <1>2, <1>3, <1>4, <1>5, <1>6, <1>7, <1>8, <1>9, <1>10, <1>11 DEF Step

LEMMA StepKeepsRefreshers ==
  ASSUME StagesTyped, RefTypes, LocksAreHeld, RefreshersStay, NEW a \in Actor, Begin(a) \/ Step(a)
  PROVE  RefreshersStay'
<1>1. RefreshChanges(a) /\ ExistsChanges(a) /\ OthersAlone(a) /\ used \subseteq used'
  BY StepsOnRefreshers, StepsOnExists, StepsAreLocal, StepsOnBound
<1>2. ASSUME NEW b \in Actor, b # a
      PROVE  /\ pc'[b] \in Refreshing \cup Named \cup {"release", "discard"} => pub'[b] \in used'
             /\ pc'[b] \in Refreshing \/ Ensuring(b)' => home'[b] \in exists'
  <2>1. Ensuring(b)' <=> Ensuring(b)
    BY <1>1, <1>2 DEF OthersAlone, Ensuring
  <2>2. ASSUME pc[b] \in Refreshing \/ Ensuring(b) PROVE home[b] \in exists'
    <3>1. home[b] \in exists /\ Holding(b)
      BY <2>2 DEF RefreshersStay, Ensuring, Refreshing, Holding
    <3>2. pc[a] \in {"drop", "expire"} => wsLock[home[a]] = a
      BY DEF LocksAreHeld, Holding
    <3> QED
      BY <1>1, <1>2, <3>1, <3>2 DEF ExistsChanges, LocksAreHeld
  <2> QED
    BY <1>1, <1>2, <2>1, <2>2 DEF OthersAlone, RefreshersStay
<1>3. pc'[a] \in Refreshing \cup Named \cup {"release", "discard"} => pub'[a] \in used'
  BY <1>1 DEF RefreshChanges, RefreshersStay
<1>4. pc'[a] \in Refreshing \/ Ensuring(a)' => home'[a] \in exists'
  <2>1. pc'[a] \in Refreshing \/ Ensuring(a)' => home'[a] \in exists /\ pc'[a] # "leave"
    BY <1>1 DEF RefreshChanges, RefreshersStay, Refreshing, Ensuring
  <2> QED
    BY <1>1, <2>1 DEF ExistsChanges
<1> QED
  BY <1>2, <1>3, <1>4 DEF RefreshersStay

LEMMA StepKeepsGoneFree ==
  ASSUME StagesTyped, RefTypes, RefreshersStay, GoneAreFree, NEW a \in Actor, Begin(a) \/ Step(a)
  PROVE  GoneAreFree'
<1>1. BoundChanges(a) /\ ExistsChanges(a)
  BY StepsOnBound, StepsOnExists
<1>2. pc[a] \in {"rebind", "bindNew", "bindDone"} => home[a] \in exists
  BY DEF RefreshersStay, Refreshing
<1> QED
  BY <1>1, <1>2 DEF GoneAreFree, BoundChanges, ExistsChanges

(* Who has made a publication.                                             *)
MadeChanges(a) ==
  /\ made'[a] => \/ pc[a] = "make" /\ pc'[a] = "bindNew" /\ pub'[a] \in Pub \ used
                 \/ /\ made[a] /\ pc[a] # "leave" /\ pub'[a] = pub[a] /\ home'[a] = home[a]
                    /\ pc'[a] \in (Refreshing \ {"rebind"}) \cup {"release", "discard", "leave"}
  /\ pc'[a] \in {"bindNew", "discard"} => made'[a]

LEMMA StepsOnMakers ==
  ASSUME StagesTyped, RefTypes, MakerRefreshes, NEW a \in Actor, Begin(a) \/ Step(a)
  PROVE  MadeChanges(a)
<1> USE DEF MadeChanges, MakerRefreshes, Refreshing, StagesTyped, RefTypes, Goto
<1>1. CASE Begin(a)
  <2>1. UNCHANGED made /\ pc[a] = "idle"
        /\ pc'[a] \in {"check", "draft", "save", "drop", "pinned", "ensure", "scheduled",
                       "remove", "lock", "sweep", "adopt"}
    BY <1>1 DEF Begin, BeginBind, BeginDraft, BeginDrop, BeginExpire, BeginRefresh,
      BeginScheduled, BeginDelete, BeginRestore, BeginSweep, BeginAdopt, Enter
  <2> QED
    BY <2>1
<1>2. CASE \/ LockNext(a) \/ Check(a) \/ Bind(a) \/ Pinned(a) \/ RemoveWorkspace(a)
           \/ LoadScheduled(a) \/ Ensure(a) \/ LockCreate(a)
  BY <1>2 DEF LockNext, Check, Bind, Pinned, RemoveWorkspace, LoadScheduled, Ensure, LockCreate,
    actorVars
<1>3. CASE Leave(a)
  BY <1>3 DEF Leave
<1>4. CASE Count(a)
  BY <1>4 DEF Count
<1>5. CASE Make(a)
  BY <1>5 DEF Make, CreateWithToken
<1>6. CASE Migrate(a) \/ Fallback(a)
  BY <1>6 DEF Migrate, Fallback, CreateWithToken
<1>7. CASE Fill(a) \/ Date(a) \/ Rebind(a)
  BY <1>7 DEF Fill, Date, Rebind, actorVars
<1>8. CASE \/ BindNew(a) \/ Config(a) \/ Start(a) \/ StageResult(a) \/ Publish(a) \/ Finalize(a)
           \/ BindDone(a) \/ Release(a) \/ Discard(a)
  BY <1>8 DEF BindNew, Config, Start, StageResult, Publish, Finalize, BindDone, Release, Discard,
    actorVars
<1>9. CASE Remove(a) \/ SweepOne(a) \/ SweepDone(a) \/ Clear(a)
  <2>1. UNCHANGED made /\ pc[a] \in {"remove", "sweep", "clear", "unbind"}
        /\ pc'[a] \in {"clear", "unbind", "leave", "sweep", "recount"}
    BY <1>9 DEF Remove, SweepOne, RemovePublished, SweepDone, Clear, VisitsDone, actorVars
  <2> QED
    BY <2>1
<1> QED
  BY <1>1, <1>2, <1>3, <1>4, <1>5, <1>6, <1>7, <1>8, <1>9 DEF Step

LEMMA StepKeepsMakers ==
  ASSUME StagesTyped, RefTypes, MakerRefreshes, NEW a \in Actor, Begin(a) \/ Step(a)
  PROVE  MakerRefreshes'
<1>1. MadeChanges(a) /\ OthersAlone(a)
  BY StepsOnMakers, StepsAreLocal
<1> QED
  BY <1>1 DEF MadeChanges, OthersAlone, MakerRefreshes, Refreshing

LEMMA StepKeepsExpiring ==
  ASSUME StagesTyped, RefTypes, RefTypes', LocksAreHeld, ExpiringAreFree,
         NEW a \in Actor, Begin(a) \/ Step(a)
  PROVE  ExpiringAreFree'
<1>1. BoundChanges(a) /\ PubChanges(a) /\ OthersAlone(a)
  BY StepsOnBound, StepsOnPubs, StepsAreLocal
<1>2. NoPub \notin metaOf'
  BY NoPubIsNoPub DEF RefTypes
<1>3. ASSUME NEW b \in Actor, b # a, pc'[b] = "expire"
      PROVE  bound'[home'[b]] \notin metaOf'
  <2>1. pc[b] = "expire" /\ home'[b] = home[b]
    BY <1>1, <1>3 DEF OthersAlone
  <2>2. home[b] \in Workspace /\ wsLock[home[b]] = b /\ bound[home[b]] \notin metaOf
    BY <2>1 DEF LocksAreHeld, Holding, ExpiringAreFree
  <2>3. pc[a] \in {"rebind", "bindNew", "bindDone", "bind", "save"} => wsLock[home[a]] = a
    BY DEF LocksAreHeld, Holding
  <2>4. bound'[home[b]] \in {NoPub, bound[home[b]]}
    BY <1>1, <1>3, <2>2, <2>3 DEF BoundChanges
  <2>5. bound[home[b]] \notin metaOf'
    BY <1>1, <1>2, <2>2, NoPubIsNoPub DEF PubChanges, RefTypes
  <2> QED
    BY <1>2, <2>1, <2>4, <2>5
<1>4. ASSUME pc'[a] = "expire"
      PROVE  bound'[home'[a]] \notin metaOf'
  <2>1. Pinned(a)
    <3>1. CASE Begin(a)
      BY <1>4, <3>1 DEF Begin, BeginBind, BeginDraft, BeginDrop, BeginExpire, BeginRefresh,
        BeginScheduled, BeginDelete, BeginRestore, BeginSweep, BeginAdopt, Enter, Goto, StagesTyped
    <3>2. CASE \/ LockNext(a) \/ Check(a) \/ Bind(a) \/ Leave(a) \/ RemoveWorkspace(a)
               \/ LoadScheduled(a) \/ Ensure(a) \/ Migrate(a) \/ Fill(a) \/ Date(a) \/ Fallback(a)
               \/ Rebind(a) \/ LockCreate(a) \/ Count(a) \/ Make(a) \/ BindNew(a)
      BY <1>4, <3>2 DEF LockNext, Check, Bind, Leave, RemoveWorkspace, LoadScheduled, Ensure,
        Migrate, Fill, Date, Fallback, Rebind, CreateWithToken, LockCreate, Count, Make, BindNew,
        Goto, StagesTyped
    <3>3. CASE \/ Config(a) \/ Start(a) \/ StageResult(a) \/ Publish(a) \/ Finalize(a)
               \/ BindDone(a) \/ Release(a) \/ Discard(a)
      BY <1>4, <3>3 DEF Config, Start, StageResult, Publish, Finalize, BindDone, Release, Discard,
        Goto, StagesTyped
    <3>4. CASE Remove(a) \/ SweepOne(a) \/ SweepDone(a) \/ Clear(a)
      BY <1>4, <3>4 DEF Remove, SweepOne, RemovePublished, SweepDone, Clear, VisitsDone, Goto,
        StagesTyped
    <3> QED
      BY <3>1, <3>2, <3>3, <3>4 DEF Step
  <2> QED
    BY <1>4, <2>1 DEF Pinned, Goto, StagesTyped, actorVars, diskVars
<1> QED
  BY <1>3, <1>4 DEF ExpiringAreFree

(* How an actor comes to bind, or to give up, its publication.             *)
BinderChanges(a) ==
  pc'[a] \in Handling =>
    \/ /\ pc[a] \in Refreshing \/ (pc[a] = "release" /\ pc'[a] = "discard")
       /\ pub'[a] = pub[a] /\ home'[a] = home[a]
    \/ /\ pc[a] \in Named /\ pub'[a] = pub[a] /\ home'[a] = home[a]
       /\ pc'[a] \in Binding => pub'[a] \in metaOf'
    \/ pub'[a] = NoPub
    \/ pub'[a] \in (Pub \ used) \cap metaOf'
    \/ pub'[a] \in metaOf' \cap yamlOf
    \/ /\ pub'[a] = bound[home'[a]] /\ home'[a] \in exists /\ wsLock'[home'[a]] = a
       /\ UNCHANGED <<bound, metaOf, interrupted, used>> /\ pc[a] \in {"idle", "scheduled"}

LEMMA StepsOnBinders ==
  ASSUME StagesTyped, RefTypes, LocksAreHeld, RefreshersStay, NEW a \in Actor, Begin(a) \/ Step(a)
  PROVE  BinderChanges(a)
<1> USE DEF BinderChanges, Handling, Binding, Named, Refreshing, StagesTyped, RefTypes, Goto
<1>1. CASE Begin(a)
  <2>1. \/ pc'[a] \in {"check", "draft", "drop", "pinned", "ensure", "scheduled", "remove",
                       "lock", "sweep", "adopt"}
        \/ \E w \in exists : Enter(a, w, bound[w], "save")
    BY <1>1 DEF Begin, BeginBind, BeginDraft, BeginDrop, BeginExpire, BeginRefresh,
      BeginScheduled, BeginDelete, BeginRestore, BeginSweep, BeginAdopt, Enter
  <2> QED
    BY <2>1 DEF Enter, Locks!Acquire, diskVars, historyVars
<1>2. CASE LockNext(a) \/ Bind(a) \/ Leave(a) \/ Pinned(a) \/ RemoveWorkspace(a) \/ LockCreate(a)
  BY <1>2 DEF LockNext, Bind, Leave, Pinned, RemoveWorkspace, LockCreate
<1>3. CASE Check(a)
  BY <1>3 DEF Check, Restorable, diskVars
<1>4. CASE LoadScheduled(a)
  <2>1. home[a] \in exists /\ wsLock[home[a]] = a
    BY <1>4 DEF LoadScheduled, LocksAreHeld, RefreshersStay, Ensuring, Holding
  <2> QED
    BY <1>4, <2>1 DEF LoadScheduled, lockVars, diskVars, historyVars
<1>5. CASE Ensure(a)
  BY <1>5 DEF Ensure, Restorable
<1>6. CASE Migrate(a) \/ Fallback(a)
  BY <1>6 DEF Migrate, Fallback, CreateWithToken
<1>7. CASE Fill(a) \/ Date(a) \/ Rebind(a)
  BY <1>7 DEF Fill, Date, Rebind, actorVars
<1>8. CASE Count(a)
  BY <1>8 DEF Count
<1>9. CASE Make(a)
  BY <1>9 DEF Make, CreateWithToken
<1>10. CASE \/ BindNew(a) \/ Config(a) \/ Start(a) \/ StageResult(a) \/ Publish(a) \/ Finalize(a)
           \/ BindDone(a) \/ Release(a) \/ Discard(a)
  BY <1>10 DEF BindNew, Config, Start, StageResult, Publish, Finalize, BindDone, Release, Discard,
    actorVars
<1>11. CASE Remove(a) \/ SweepOne(a) \/ SweepDone(a) \/ Clear(a)
  <2>1. pc'[a] \in {"clear", "unbind", "leave", "sweep", "recount"}
    BY <1>11 DEF Remove, SweepOne, RemovePublished, SweepDone, Clear, VisitsDone, actorVars
  <2> QED
    BY <2>1
<1> QED
  BY <1>1, <1>2, <1>3, <1>4, <1>5, <1>6, <1>7, <1>8, <1>9, <1>10, <1>11 DEF Step

(* How a refresh comes to a stage in which it may give up what it made.    *)
GivingChanges(a) ==
  made'[a] /\ pc'[a] \in Giving =>
    \/ /\ pc[a] = "make" /\ pc'[a] = "bindNew" /\ pub'[a] \in Pub \ used
       /\ UNCHANGED <<bound, yamlOf>>
    \/ /\ made[a] /\ pc[a] \in Giving /\ pc'[a] # "bindNew"
       /\ pub'[a] = pub[a] /\ home'[a] = home[a] /\ UNCHANGED yamlOf
       /\ pc'[a] = "discard" => bound'[home[a]] = NoPub \/ pub[a] \in interrupted'

LEMMA StepsOnGivers ==
  ASSUME StagesTyped, RefTypes, LocksAreHeld, MakerRefreshes,
         NEW a \in Actor, Begin(a) \/ Step(a)
  PROVE  GivingChanges(a)
<1> USE DEF GivingChanges, Giving, Refreshing, StagesTyped, RefTypes, Goto
<1>1. CASE Make(a)
  BY <1>1 DEF Make, CreateWithToken
<1>2. CASE BindNew(a) \/ Config(a) \/ Start(a) \/ StageResult(a)
  BY <1>2 DEF BindNew, Config, Start, StageResult, actorVars, diskVars
<1>3. CASE Release(a)
  <2>1. CASE made[a]
    BY <1>3, <2>1 DEF Release, SetBound, FailOn, actorVars, diskVars, LocksAreHeld, Holding
  <2>2. CASE ~made[a]
    BY <1>3, <2>2 DEF Release
  <2> QED
    BY <2>1, <2>2
<1>4. CASE Publish(a) \/ Finalize(a) \/ BindDone(a) \/ Discard(a)
  BY <1>4 DEF Publish, Finalize, BindDone, Discard, actorVars, diskVars
<1>5. CASE ~(Make(a) \/ BindNew(a) \/ Config(a) \/ Start(a) \/ StageResult(a) \/ Publish(a)
             \/ Finalize(a) \/ BindDone(a) \/ Release(a) \/ Discard(a) \/ Rebind(a))
  <2>1. CASE pc[a] \in Refreshing \cup {"make", "release", "discard"}
    BY <1>5, <2>1 DEF Begin, BeginBind, BeginDraft, BeginDrop, BeginExpire, BeginRefresh,
      BeginScheduled, BeginDelete, BeginRestore, BeginSweep, BeginAdopt, Enter, Step, LockNext,
      Check, Bind, Leave, Pinned, RemoveWorkspace, LoadScheduled, Ensure, Migrate, Fill, Date,
      Fallback, LockCreate, Count, Remove, SweepOne, SweepDone, Clear
  <2>2. CASE pc[a] \notin Refreshing \cup {"make", "release", "discard"}
    BY <2>2, StepsOnMakers DEF MadeChanges, MakerRefreshes
  <2> QED
    BY <2>1, <2>2
<1>6. CASE Rebind(a)
  BY <1>6 DEF Rebind, MakerRefreshes, actorVars
<1> QED
  BY <1>1, <1>2, <1>3, <1>4, <1>5, <1>6

-----------------------------------------------------------------------------
(* The rest of the invariant, one conjunct after the other.                *)
LEMMA StepKeepsPrivate ==
  ASSUME BindInv, RefTypes', NEW a \in Actor, Begin(a) \/ Step(a)
  PROVE  Private'
<1> USE DEF BindInv
<1>1. BoundChanges(a) /\ PubChanges(a) /\ OthersAlone(a) /\ LockChanges(a)
      /\ BinderChanges(a) /\ GivingChanges(a)
  BY StepsOnBound, StepsOnPubs, StepsAreLocal, StepsOnLocks, StepsOnBinders, StepsOnGivers
<1>2. NoPub \notin used' /\ NoPub \notin used
  BY NoPubIsNoPub DEF RefTypes
<1>3. ASSUME NEW b \in Actor, b # a, made[b], pc[b] \in Giving
      PROVE  /\ pub[b] \notin yamlOf'
             /\ \A w \in Workspace : bound'[w] = pub[b] => w = home[b] /\ pc[b] # "bindNew"
             /\ pc[b] = "discard" /\ bound'[home[b]] = pub[b] => pub[b] \in interrupted'
             /\ \A c \in Actor \ {b} :
                  pc'[c] \in Handling => pub'[c] # pub[b]
  <2>1. pub[b] \in used /\ home[b] \in Workspace /\ wsLock[home[b]] = b
    BY <1>3 DEF RefreshersStay, Refreshing, Giving, LocksAreHeld, Holding
  <2>2. pub[b] \notin yamlOf
        /\ (\A w \in Workspace : bound[w] = pub[b] => w = home[b] /\ pc[b] # "bindNew")
        /\ (pc[b] = "discard" /\ bound[home[b]] = pub[b] => pub[b] \in interrupted)
        /\ (\A c \in Actor \ {b} : pc[c] \in Handling => pub[c] # pub[b])
    BY <1>3 DEF Private
  <2>3. pc[a] \in {"bind", "save", "rebind", "bindNew", "publish", "bindDone"} \cup Named
          => pub[a] # pub[b]
    BY <1>3, <2>2 DEF Handling, Binding, Refreshing
  <2>4. pub[b] \notin yamlOf'
    BY <1>1, <2>2, <2>3 DEF PubChanges, Named
  <2>5. \A w \in Workspace : bound'[w] = pub[b] => bound[w] = pub[b]
    BY <1>1, <1>2, <2>1, <2>3 DEF BoundChanges
  <2>6. \A c \in Actor \ {a, b} : pc'[c] \in Handling => pub'[c] # pub[b]
    BY <1>1, <2>2 DEF OthersAlone
  <2>7. pc'[a] \in Handling => pub'[a] # pub[b]
    <3> SUFFICES ASSUME pc'[a] \in Handling, pub'[a] = pub[b]
                 PROVE  FALSE
      OBVIOUS
    <3>1. CASE /\ pc[a] \in Refreshing \cup Named \/ (pc[a] = "release" /\ pc'[a] = "discard")
               /\ pub'[a] = pub[a]
      BY <1>3, <2>2, <3>1 DEF Handling, Binding
    <3>2. CASE \/ pub'[a] = NoPub \/ pub'[a] \in (Pub \ used) \cap metaOf'
               \/ pub'[a] \in metaOf' \cap yamlOf
      BY <1>2, <2>1, <2>2, <3>2
    <3>3. CASE pub'[a] = bound[home'[a]] /\ home'[a] \in exists /\ wsLock'[home'[a]] = a
      <4>1. home'[a] = home[b]
        BY <2>2, <3>3 DEF RefTypes
      <4> QED
        BY <1>1, <1>3, <2>1, <3>3, <4>1, NoActorIsNoActor DEF LockChanges
    <3> QED
      BY <1>1, <3>1, <3>2, <3>3 DEF BinderChanges
  <2> QED
    BY <1>1, <2>1, <2>2, <2>4, <2>5, <2>6, <2>7 DEF PubChanges
<1>4. ASSUME made'[a], pc'[a] \in Giving
      PROVE  /\ pub'[a] \notin yamlOf'
             /\ \A w \in Workspace : bound'[w] = pub'[a] => w = home'[a] /\ pc'[a] # "bindNew"
             /\ pc'[a] = "discard" /\ bound'[home'[a]] = pub'[a] => pub'[a] \in interrupted'
             /\ \A c \in Actor \ {a} :
                  pc'[c] \in Handling => pub'[c] # pub'[a]
  <2>1. CASE pc'[a] = "bindNew" /\ pub'[a] \in Pub \ used /\ UNCHANGED <<bound, yamlOf>>
    <3>1. \A w \in Workspace : bound'[w] # pub'[a]
      BY <2>1, NoPubIsNoPub DEF RefTypes
    <3>2. \A c \in Actor \ {a} : pub'[c] # pub'[a]
      BY <1>1, <2>1, NoPubIsNoPub DEF RefTypes, OthersAlone
    <3> QED
      BY <2>1, <3>1, <3>2 DEF RefTypes
  <2>2. CASE /\ made[a] /\ pc[a] \in Giving /\ pc'[a] # "bindNew"
             /\ pub'[a] = pub[a] /\ home'[a] = home[a] /\ UNCHANGED yamlOf
             /\ pc'[a] = "discard" => bound'[home[a]] = NoPub \/ pub[a] \in interrupted'
    <3>1. pub[a] \in used
      BY <2>2 DEF RefreshersStay, Refreshing, Giving
    <3>2. pub[a] \notin yamlOf /\ (\A w \in Workspace : bound[w] = pub[a] => w = home[a])
          /\ (\A c \in Actor \ {a} : pc[c] \in Handling => pub[c] # pub[a])
      BY <2>2 DEF Private
    <3>3. \A w \in Workspace : bound'[w] = pub[a] => w = home[a]
      BY <1>1, <1>2, <3>1, <3>2 DEF BoundChanges
    <3>4. \A c \in Actor \ {a} : pc'[c] \in Handling => pub'[c] # pub[a]
      BY <1>1, <3>2 DEF OthersAlone
    <3> QED
      BY <1>2, <2>2, <3>1, <3>2, <3>3, <3>4
  <2> QED
    BY <1>1, <1>4, <2>1, <2>2 DEF GivingChanges
<1>5. \A b \in Actor \ {a} :
        pc'[b] = pc[b] /\ made'[b] = made[b] /\ pub'[b] = pub[b] /\ home'[b] = home[b]
  BY <1>1 DEF OthersAlone
<1> QED
  BY <1>3, <1>4, <1>5 DEF Private

(* A deletion forgets a workspace only by visiting it.                     *)
LEMMA UnbindingKept ==
  ASSUME StagesTyped, RefTypes, LocksAreHeld, NEW a \in Actor, Begin(a) \/ Step(a),
         NEW p \in used, NEW w \in Workspace, Unbinding(p, w), ~Unbinding(p, w)'
  PROVE  /\ pc[a] \in {"clear", "unbind"}
         /\ wsLock[w] = NoActor \/ (wsLock[w] = a /\ pc[a] = "clear")
         /\ bound'[w] # p \/ p \in interrupted'
<1>1. PICK d \in Actor : pc[d] \in {"clear", "unbind"} /\ pub[d] = p /\ w \in todo[d]
  BY DEF Unbinding
<1>2. d = a
  BY <1>1, StepsAreLocal DEF OthersAlone, Unbinding
<1>3. Clear(a)
  BY <1>1, <1>2 DEF Begin, BeginBind, BeginDraft, BeginDrop, BeginExpire, BeginRefresh,
    BeginScheduled, BeginDelete, BeginRestore, BeginSweep, BeginAdopt, Enter, Step, LockNext,
    Check, Bind, Leave, Pinned, RemoveWorkspace, LoadScheduled, Ensure, Migrate, Fill, Date,
    Fallback, Rebind, CreateWithToken, LockCreate, Count, Make, BindNew, Config, Start,
    StageResult, Publish, Finalize, BindDone, Release, Discard, Remove, SweepOne, SweepDone
<1>4. todo[a] # {}
  BY <1>1, <1>2
<1>5. PICK v \in todo[a] :
        /\ MayVisit(a, v) /\ todo' = [todo EXCEPT ![a] = @ \ {v}] /\ UNCHANGED <<pc, pub>>
        /\ \/ bound[v] = pub[a] /\ SetBound(v, NoPub)
           \/ pub[a] \in interrupted'
           \/ bound[v] # pub[a] /\ UNCHANGED bound
  BY <1>3, <1>4 DEF Clear, FailOn
<1>6. v = w
  BY <1>1, <1>2, <1>5 DEF Unbinding, RefTypes
<1>7. wsLock[w] = NoActor \/ (wsLock[w] = a /\ pc[a] = "clear")
  BY <1>5, <1>6 DEF MayVisit, LocksAreHeld, Holding
<1>8. bound'[w] # p \/ p \in interrupted'
  BY <1>1, <1>2, <1>5, <1>6, NoPubIsNoPub DEF SetBound, RefTypes
<1> QED
  BY <1>1, <1>2, <1>7, <1>8

(* When p is dangling after a step, and was bound to w or about to be by b,*)
(* then either it was dangling before, or the step has deleted it and will *)
(* visit w.                                                                *)
LEMMA DeletionVisits ==
  ASSUME BindInv, NEW a \in Actor, Begin(a) \/ Step(a),
         NEW p \in used, p \notin metaOf', p \notin interrupted', p \in metaOf,
         NEW w \in exists, ~(p = pub[a] /\ pc[a] \in {"bindNew", "discard"} /\ pc'[a] = "leave")
  PROVE  Unbinding(p, w)'
<1>1. PubChanges(a)
  BY StepsOnPubs DEF BindInv
<1>2. p = pub'[a] /\ pc'[a] \in {"clear", "unbind"} /\ todo'[a] = exists
  BY <1>1 DEF PubChanges
<1> QED
  BY <1>2 DEF Unbinding

LEMMA StepKeepsBinders ==
  ASSUME BindInv, RefTypes', NEW a \in Actor, Begin(a) \/ Step(a)
  PROVE  BindersAreVisited'
<1> USE DEF BindInv
<1>1. BoundChanges(a) /\ PubChanges(a) /\ OthersAlone(a) /\ BinderChanges(a)
      /\ exists' \subseteq exists
  BY StepsOnBound, StepsOnPubs, StepsAreLocal, StepsOnBinders, StepsOnExists
<1>2. NoPub \notin used' /\ NoPub \notin used /\ interrupted \subseteq interrupted'
  BY <1>1, NoPubIsNoPub DEF RefTypes, PubChanges
<1>3. ASSUME NEW b \in Actor \ {a}, NEW p, NEW w, p = pub'[b], w = home'[b],
             pc'[b] \in Binding, w \in exists', p \in used' \ (metaOf' \cup interrupted')
      PROVE  Unbinding(p, w)'
  <2>1. p = pub[b] /\ w = home[b] /\ pc[b] \in Binding /\ w \in exists /\ p \in used
    BY <1>1, <1>2, <1>3 DEF OthersAlone, RefTypes
  <2>2. wsLock[w] = b /\ w \in Workspace
    BY <2>1 DEF LocksAreHeld, Holding, Binding, Refreshing
  <2>3. CASE p \in metaOf
    <3>1. ~(p = pub[a] /\ pc[a] \in {"bindNew", "discard"})
      BY <2>1 DEF Private, MakerRefreshes, Giving, Handling
    <3> QED
      BY <1>3, <2>1, <2>3, <3>1, DeletionVisits
  <2>4. CASE p \notin metaOf
    <3>1. Unbinding(p, w)
      BY <1>2, <1>3, <2>1, <2>4 DEF BindersAreVisited
    <3>2. ~(wsLock[w] = NoActor \/ (wsLock[w] = a /\ pc[a] = "clear"))
      BY <2>2, NoActorIsNoActor
    <3> QED
      BY <2>1, <2>2, <3>1, <3>2, UnbindingKept
  <2> QED
    BY <2>3, <2>4
<1>4. ASSUME NEW p, NEW w, p = pub'[a], w = home'[a],
             pc'[a] \in Binding, w \in exists', p \in used' \ (metaOf' \cup interrupted')
      PROVE  Unbinding(p, w)'
  <2>1. CASE pc[a] \in Refreshing /\ pub'[a] = pub[a] /\ home'[a] = home[a]
    <3>1. p \in used /\ w \in exists /\ w \in Workspace
      BY <1>1, <1>4, <2>1 DEF RefreshersStay, RefTypes
    <3>2. CASE p \in metaOf
      BY <1>4, <3>1, <3>2, DeletionVisits DEF Binding, Refreshing
    <3>3. CASE p \notin metaOf
      <4>1. Unbinding(p, w)
        BY <1>2, <1>4, <2>1, <3>1, <3>3 DEF BindersAreVisited, Binding
      <4>2. pc[a] \notin {"clear", "unbind"}
        BY <2>1 DEF Refreshing
      <4> QED
        BY <3>1, <4>1, <4>2, UnbindingKept
    <3> QED
      BY <3>2, <3>3
  <2>2. CASE /\ pub'[a] = bound[home'[a]] /\ home'[a] \in exists
             /\ UNCHANGED <<bound, metaOf, interrupted, used>> /\ pc[a] \in {"idle", "scheduled"}
    <3>1. p \in used /\ w \in Workspace /\ p = bound[w] /\ p \notin metaOf \cup interrupted
      BY <1>4, <2>2 DEF RefTypes
    <3>2. Unbinding(p, w)
      BY <3>1 DEF NoDanglingBinding, Unbinding
    <3> QED
      BY <2>2, <3>1, <3>2, UnbindingKept
  <2> QED
    BY <1>1, <1>2, <1>4, <2>1, <2>2 DEF BinderChanges, Handling, Binding, Refreshing
<1> QED
  BY <1>3, <1>4 DEF BindersAreVisited

LEMMA StepKeepsBindings ==
  ASSUME BindInv, RefTypes', NEW a \in Actor, Begin(a) \/ Step(a)
  PROVE  NoDanglingBinding'
<1> USE DEF BindInv
<1>1. BoundChanges(a)
  BY StepsOnBound
<1>2. NoPub \notin used' /\ NoPub \notin used /\ interrupted \subseteq interrupted'
  BY StepsOnPubs, NoPubIsNoPub DEF RefTypes, PubChanges
<1>3. ASSUME NEW w \in Workspace, NEW p, p = bound'[w], p \in used' \ (metaOf' \cup interrupted')
      PROVE  Unbinding(p, w)'
  <2>1. CASE bound'[w] = bound[w]
    <3>1. p \in used /\ p = bound[w] /\ w \in exists
      BY <1>2, <1>3, <2>1 DEF RefTypes, GoneAreFree
    <3>2. CASE p \in metaOf
      <4>1. ~(p = pub[a] /\ pc[a] \in {"bindNew", "discard"})
        <5> SUFFICES ASSUME p = pub[a], pc[a] \in {"bindNew", "discard"} PROVE FALSE
          OBVIOUS
        <5>1. made[a] /\ pc[a] \in Giving
          BY DEF MakerRefreshes, Giving
        <5>2. w = home[a] /\ pc[a] = "discard"
          BY <3>1, <5>1 DEF Private
        <5>3. p \in interrupted
          BY <3>1, <5>1, <5>2 DEF Private
        <5> QED
          BY <1>2, <1>3, <5>3
      <4> QED
        BY <1>3, <3>1, <3>2, <4>1, DeletionVisits
    <3>3. CASE p \notin metaOf
      <4>1. Unbinding(p, w)
        BY <1>2, <1>3, <3>1, <3>3 DEF NoDanglingBinding, Unbinding
      <4> QED
        BY <1>3, <3>1, <4>1, UnbindingKept
    <3> QED
      BY <3>2, <3>3
  <2>2. CASE bound'[w] # bound[w]
    <3>1. /\ p # NoPub /\ w = home[a] /\ p = pub[a] /\ UNCHANGED metaOf
          /\ \/ pc[a] \in {"rebind", "bindNew", "bindDone"}
             \/ pc[a] \in {"bind", "save"} /\ w \in exists
      BY <1>1, <1>2, <1>3, <2>2 DEF BoundChanges
    <3>2. p \in used /\ w \in exists
      BY <1>2, <3>1 DEF RefTypes, RefreshersStay, Refreshing
    <3>3. Unbinding(p, w)
      BY <1>2, <1>3, <3>1, <3>2 DEF BindersAreVisited, Binding, Refreshing
    <3> QED
      BY <3>1, <3>2, <3>3, UnbindingKept
  <2> QED
    BY <2>1, <2>2
<1> QED
  BY <1>3 DEF NoDanglingBinding, Unbinding

(* Whoever turns away from a publication that is still empty has removed   *)
(* it, was cut short, or leaves it behind.                                 *)
WorkEnds(a) ==
  pc[a] \in Working =>
    \/ pc'[a] \in Working /\ pub'[a] = pub[a]
    \/ pub[a] \notin metaOf'
    \/ pub[a] \in yamlOf' \cup interrupted' \cup leftBehind'

LEMMA StepsAtWork ==
  ASSUME StagesTyped, RefTypes, NEW a \in Actor, Begin(a) \/ Step(a)
  PROVE  WorkEnds(a)
<1> USE DEF WorkEnds, Working, StagesTyped, RefTypes, Goto
<1>1. CASE BindNew(a) \/ Discard(a)
  BY <1>1 DEF BindNew, Discard, RemoveDir, RemoveDirFails, FailOn, actorVars
<1>2. CASE Fill(a) \/ Rebind(a) \/ Start(a) \/ StageResult(a) \/ Publish(a)
  BY <1>2 DEF Fill, Rebind, Start, StageResult, Publish, FailOn, actorVars
<1>3. CASE Config(a)
  BY <1>3 DEF Config, LeaveBehind, diskVars, actorVars
<1>4. CASE Release(a)
  BY <1>4 DEF Release, LeaveBehind, FailOn, actorVars
<1>5. CASE pc[a] \notin Working
  BY <1>5
<1>6. CASE ~(BindNew(a) \/ Discard(a) \/ Fill(a) \/ Rebind(a) \/ Start(a) \/ StageResult(a)
             \/ Publish(a) \/ Config(a) \/ Release(a))
  BY <1>5, <1>6 DEF Begin, BeginBind, BeginDraft, BeginDrop, BeginExpire, BeginRefresh,
    BeginScheduled, BeginDelete, BeginRestore, BeginSweep, BeginAdopt, Enter, Step, LockNext,
    Check, Bind, Leave, Pinned, RemoveWorkspace, LoadScheduled, Ensure, Migrate, Date, Fallback,
    LockCreate, Count, Make, Finalize, BindDone, Remove, SweepOne, SweepDone, Clear
<1> QED
  BY <1>1, <1>2, <1>3, <1>4, <1>6

(* What was left behind stays so until it is filled or removed.            *)
LEMMA StepsOnLeftBehind ==
  ASSUME NEW a \in Actor, Begin(a) \/ Step(a)
  PROVE  \A p \in leftBehind \ leftBehind' : p \in yamlOf' \/ p \notin metaOf'
<1>1. CASE leftBehind \subseteq leftBehind'
  BY <1>1
<1>2. CASE Publish(a)
  BY <1>2 DEF Publish
<1>3. CASE \E p : RemoveDir(p) \/ RemoveDirFails(p)
  BY <1>3 DEF RemoveDir, RemoveDirFails, kindVars
<1>4. CASE BindNew(a) \/ Finalize(a) \/ Discard(a)
  BY <1>1, <1>3, <1>4 DEF BindNew, Finalize, Discard, kindVars
<1>5. CASE Remove(a) \/ SweepOne(a)
  BY <1>1, <1>3, <1>5 DEF Remove, SweepOne, RemovePublished, kindVars
<1>6. CASE Config(a) \/ Release(a)
  BY <1>1, <1>6 DEF Config, Release, LeaveBehind
<1>7. CASE Begin(a)
  BY <1>1, <1>7 DEF Begin, BeginBind, BeginDraft, BeginDrop, BeginExpire, BeginRefresh,
    BeginScheduled, BeginDelete, BeginRestore, BeginSweep, BeginAdopt, Enter, kindVars
<1>8. CASE \/ LockNext(a) \/ Check(a) \/ Bind(a) \/ Leave(a) \/ Pinned(a) \/ RemoveWorkspace(a)
           \/ LoadScheduled(a) \/ Ensure(a) \/ Migrate(a) \/ Fill(a) \/ Date(a) \/ Fallback(a)
           \/ Rebind(a) \/ LockCreate(a) \/ Count(a) \/ Make(a) \/ Start(a)
           \/ StageResult(a) \/ BindDone(a) \/ SweepDone(a) \/ Clear(a)
  BY <1>1, <1>8 DEF LockNext, Check, Bind, Leave, Pinned, RemoveWorkspace, LoadScheduled, Ensure,
    Migrate, Fill, Date, Fallback, Rebind, LockCreate, Count, Make, Start, StageResult, BindDone,
    SweepDone, Clear, kindVars
<1> QED
  BY <1>2, <1>4, <1>5, <1>6, <1>7, <1>8 DEF Step

LEMMA StepKeepsFilled ==
  ASSUME BindInv, NEW a \in Actor, Begin(a) \/ Step(a)
  PROVE  NoForgottenPublication'
<1> USE DEF BindInv
<1>1. PubChanges(a) /\ OthersAlone(a) /\ WorkEnds(a)
  BY StepsOnPubs, StepsAreLocal, StepsAtWork
<1>2. ASSUME NEW p \in metaOf' \ (yamlOf' \cup interrupted' \cup leftBehind')
      PROVE  \E b \in Actor : pub'[b] = p /\ pc'[b] \in Working
  <2>1. CASE p \notin metaOf
    <3>1. Make(a) \/ Migrate(a) \/ Fallback(a)
      <4>1. pc[a] \in {"make", "migrate", "adopt", "fallback"}
        BY <1>1, <2>1 DEF PubChanges
      <4> QED
        BY <4>1 DEF Begin, BeginBind, BeginDraft, BeginDrop, BeginExpire, BeginRefresh,
          BeginScheduled, BeginDelete, BeginRestore, BeginSweep, BeginAdopt, Enter, Step,
          LockNext, Check, Bind, Leave, Pinned, RemoveWorkspace, LoadScheduled, Ensure, Fill,
          Date, Rebind, LockCreate, Count, BindNew, Config, Start, StageResult, Publish,
          Finalize, BindDone, Release, Discard, Remove, SweepOne, SweepDone, Clear
    <3>2. pub'[a] = p /\ pc'[a] \in {"bindNew", "fill", "adoptFill", "rebind"}
      BY <2>1, <3>1 DEF Make, Migrate, Fallback, CreateWithToken, Goto, StagesTyped, RefTypes
    <3> QED
      BY <3>2 DEF Working
  <2>2. CASE p \in metaOf
    <3>1. p \notin yamlOf \cup interrupted \cup leftBehind
      BY <1>1, <1>2, StepsOnLeftBehind DEF PubChanges
    <3>2. PICK b \in Actor : pub[b] = p /\ pc[b] \in Working
      BY <2>2, <3>1 DEF NoForgottenPublication
    <3>3. CASE b # a
      BY <1>1, <3>2, <3>3 DEF OthersAlone
    <3>4. CASE b = a
      BY <1>1, <1>2, <3>2, <3>4 DEF WorkEnds
    <3> QED
      BY <3>3, <3>4
  <2> QED
    BY <2>1, <2>2
<1> QED
  BY <1>2 DEF NoForgottenPublication

-----------------------------------------------------------------------------
(* The invariant and what follows from it.                                 *)
LEMMA InitBind == Init => BindInv
<1> SUFFICES ASSUME Init PROVE BindInv
  OBVIOUS
<1>1. StagesTyped
  BY DEF Init, StagesTyped, Stage
<1>2. RefTypes
  BY InheritedAreWorkspaces DEF Init, RefTypes
<1>3. LocksAreHeld /\ RefreshersStay /\ MakerRefreshes /\ Private /\ ExpiringAreFree
      /\ BindersAreVisited
  BY DEF Init, LocksAreHeld, Holding, RefreshersStay, Refreshing, Named, Ensuring,
         MakerRefreshes, Private, ExpiringAreFree, BindersAreVisited, Binding
<1>4. GoneAreFree /\ NoDanglingBinding /\ NoForgottenPublication
  BY DEF Init, GoneAreFree, NoDanglingBinding, NoForgottenPublication
<1> QED
  BY <1>1, <1>2, <1>3, <1>4 DEF BindInv

(* After a restart nobody is at work, and what anyone worked on counts as  *)
(* interrupted.                                                            *)
LEMMA CrashKeepsBind ==
  ASSUME BindInv, Crash
  PROVE  BindInv'
<1> USE DEF BindInv
<1>1. /\ pc' = [a \in Actor |-> "idle"] /\ home' = [a \in Actor |-> First(Workspace)]
      /\ pub' = [a \in Actor |-> NoPub] /\ made' = [a \in Actor |-> FALSE]
      /\ todo' = [a \in Actor |-> {}] /\ after' = [a \in Actor |-> "leave"]
      /\ wsLock' = [w \in Workspace |-> NoActor]
      /\ interrupted' = interrupted \cup ({pub[a] : a \in Actor} \ {NoPub})
      /\ UNCHANGED <<exists, bound, oldFiles, metaOf, yamlOf, used, leftBehind>>
  BY DEF Crash, diskVars, oldVars, kindVars
<1>2. StagesTyped'
  BY <1>1 DEF StagesTyped, Stage
<1>3. RefTypes'
  BY <1>1 DEF RefTypes
<1>4. LocksAreHeld' /\ RefreshersStay' /\ MakerRefreshes' /\ Private' /\ ExpiringAreFree'
      /\ BindersAreVisited'
  BY <1>1 DEF LocksAreHeld, Holding, RefreshersStay, Refreshing, Named, Ensuring, MakerRefreshes,
         Private, ExpiringAreFree, BindersAreVisited, Binding
<1>5. GoneAreFree'
  BY <1>1 DEF GoneAreFree
<1>6. NoDanglingBinding'
  <2>1. ASSUME NEW w \in Workspace, bound[w] \in used \ (metaOf \cup interrupted')
        PROVE  FALSE
    <3>1. PICK a \in Actor : pub[a] = bound[w]
      BY <1>1, <2>1 DEF NoDanglingBinding
    <3> QED
      BY <1>1, <2>1, <3>1, NoPubIsNoPub DEF RefTypes
  <2> QED
    BY <1>1, <2>1 DEF NoDanglingBinding
<1>7. NoForgottenPublication'
  <2>1. ASSUME NEW p \in metaOf \ (yamlOf \cup interrupted' \cup leftBehind)
        PROVE  FALSE
    <3>1. PICK a \in Actor : pub[a] = p
      BY <1>1, <2>1 DEF NoForgottenPublication
    <3> QED
      BY <1>1, <2>1, <3>1, NoPubIsNoPub DEF RefTypes
  <2> QED
    BY <1>1, <2>1 DEF NoForgottenPublication
<1> QED
  BY <1>2, <1>3, <1>4, <1>5, <1>6, <1>7

LEMMA NextBind == BindInv /\ StagesTyped' /\ [Next]_vars => BindInv'
<1> SUFFICES ASSUME BindInv, StagesTyped', [Next]_vars PROVE BindInv'
  OBVIOUS
<1>1. ASSUME NEW a \in Actor, Begin(a) \/ Step(a) PROVE BindInv'
  <2>1. RefTypes'
    BY <1>1, StepKeepsTypes DEF BindInv
  <2>2. LocksAreHeld' /\ RefreshersStay' /\ GoneAreFree' /\ MakerRefreshes' /\ ExpiringAreFree'
    BY <1>1, <2>1, StepKeepsLocks, StepKeepsRefreshers, StepKeepsGoneFree, StepKeepsMakers,
       StepKeepsExpiring DEF BindInv
  <2>3. Private' /\ BindersAreVisited' /\ NoDanglingBinding' /\ NoForgottenPublication'
    BY <1>1, <2>1, StepKeepsPrivate, StepKeepsBinders, StepKeepsBindings, StepKeepsFilled
  <2> QED
    BY <2>1, <2>2, <2>3 DEF BindInv
<1>2. CASE Crash
  BY <1>2, CrashKeepsBind
<1>3. CASE Age \/ Access \/ UNCHANGED vars
  <2>1. UNCHANGED <<pc, home, pub, made, todo, after, wsLock, exists, bound, oldFiles, metaOf,
                    yamlOf, used, interrupted, leftBehind>>
    BY <1>3 DEF Age, Access, vars, actorVars, lockVars, diskVars, oldVars, kindVars, historyVars
  <2>2. StagesTyped' /\ RefTypes'
    BY <2>1 DEF BindInv, StagesTyped, RefTypes
  <2>3. LocksAreHeld' /\ RefreshersStay' /\ GoneAreFree' /\ MakerRefreshes' /\ ExpiringAreFree'
    BY <2>1 DEF BindInv, LocksAreHeld, Holding, RefreshersStay, Ensuring, GoneAreFree,
                MakerRefreshes, ExpiringAreFree
  <2>4. Private'
    BY <2>1 DEF BindInv, Private
  <2>5. BindersAreVisited' /\ NoDanglingBinding' /\ NoForgottenPublication'
    BY <2>1 DEF BindInv, BindersAreVisited, Unbinding, NoDanglingBinding, NoForgottenPublication
  <2> QED
    BY <2>2, <2>3, <2>4, <2>5 DEF BindInv
<1> QED
  BY <1>1, <1>2, <1>3 DEF Next

(* Who works on a workspace holds its lock; what a refresh made is its own *)
(* until it has content; and a deletion is on the way to every workspace   *)
(* that is bound, or about to be bound, to what it deleted.                *)
THEOREM BindInvariant == Spec => []BindInv
<1>1. LimitInv' => StagesTyped'
  BY DEF LimitInv
<1> QED
  BY <1>1, InitBind, NextBind, LimitInvariant, InitLimit, NextLimit, PTL DEF Spec

(* However deletions, sweeps and requests that bind the same publication   *)
(* interleave, clearPublishedAssociations leaves no workspace with a       *)
(* reference to a deleted publication, unless it was cut short.            *)
THEOREM BindingsAreLive == Spec => []NoDanglingBinding
<1>1. BindInv => NoDanglingBinding
  BY DEF BindInv
<1> QED
  BY <1>1, BindInvariant, PTL

(* ensureWorkspacePublishedRef creates a publication before its content    *)
(* exists: some refresh is always on the way to write it or to give it up. *)
THEOREM PublicationsAreFilled == Spec => []NoForgottenPublication
<1>1. BindInv => NoForgottenPublication
  BY DEF BindInv
<1> QED
  BY <1>1, BindInvariant, PTL

(* finalizePublishedRefresh and every other writer of a meta.json never    *)
(* bring a deleted publication back.                                       *)
THEOREM DeletionIsFinal == Spec => DeletedStaysDeleted
<1>1. BindInv /\ [Next]_vars => [\A p \in used \ metaOf : p \notin metaOf']_vars
  <2> SUFFICES ASSUME BindInv, Next PROVE \A p \in used \ metaOf : p \notin metaOf'
    OBVIOUS
  <2>1. ASSUME NEW a \in Actor, Begin(a) \/ Step(a)
        PROVE  \A p \in used \ metaOf : p \notin metaOf'
    BY <2>1, StepsOnPubs DEF BindInv, PubChanges
  <2>2. CASE Age \/ Access \/ Crash
    BY <2>2 DEF Age, Access, Crash, diskVars
  <2> QED
    BY <2>1, <2>2 DEF Next
<1> QED
  BY <1>1, BindInvariant, PTL DEF Spec, DeletedStaysDeleted

(* The cleanup of expired workspaces never removes one that is bound to a  *)
(* live publication, though it looks at the binding and removes the        *)
(* workspace in two steps.                                                 *)
THEOREM PinnedSurvive == Spec => PinnedWorkspaceSurvives
<1> DEFINE Survives == \A w \in exists \ exists' :
                         bound[w] \in metaOf => \E a \in Actor : pc[a] = "drop" /\ home[a] = w
<1>1. BindInv /\ [Next]_vars => [Survives]_vars
  <2> SUFFICES ASSUME BindInv, Next PROVE Survives
    OBVIOUS
  <2>1. ASSUME NEW a \in Actor, Begin(a) \/ Step(a) PROVE Survives
    BY <2>1, StepsOnExists DEF BindInv, ExistsChanges, ExpiringAreFree
  <2>2. CASE Age \/ Access \/ Crash
    BY <2>2 DEF Age, Access, Crash, diskVars
  <2> QED
    BY <2>1, <2>2 DEF Next
<1> QED
  BY <1>1, BindInvariant, PTL DEF Spec, PinnedWorkspaceSurvives

-----------------------------------------------------------------------------
(* Types.                                                                  *)
(* There is a least one among the workspaces.                              *)
LessThan == {ss \in Nat \X Nat : ss[1] < ss[2]}

LEMMA FirstIsThere == First(Workspace) \in Workspace
<1>1. IsWellFoundedOn(LessThan, Nat)
  BY NatLessThanWellFounded DEF OpToRel, LessThan
<1>2. PICK w \in Workspace : \A v \in Workspace : ~(<<v, w>> \in LessThan)
  BY <1>1, WorkspacesAreOrdered, ThereAreWorkspaces, WFMin, Zenon
<1>3. ASSUME NEW v \in Workspace PROVE w <= v
  <2>1. v \in Nat /\ w \in Nat
    BY WorkspacesAreOrdered
  <2>2. <<v, w>> \in Nat \X Nat /\ <<v, w>>[1] = v /\ <<v, w>>[2] = w
    BY <2>1
  <2>3. ~(v < w)
    BY <1>2, <2>2 DEF LessThan
  <2> QED
    BY <2>1, <2>3
<1> QED
  BY <1>3 DEF First

(* What TypeOK says beyond the types that references need.                 *)
OtherTypes ==
  /\ public \in BOOLEAN
  /\ sweep \in [Actor -> SUBSET Pub]
  /\ creator \in Actor \cup {NoActor}
  /\ running \subseteq Pub
  /\ metaOf \subseteq dirOf /\ yamlOf \subseteq dirOf
  /\ dirOf \subseteq used /\ stale \subseteq used
  /\ oldRefs \subseteq Inherited /\ oldFiles \subseteq Inherited
  /\ migrated \subseteq used /\ leftBehind \subseteq used
  /\ interrupted \subseteq Pub
  /\ mishaps \in 0..MaxMishaps
  /\ \A a \in Actor : pc[a] \in {"clear", "unbind"} => pub[a] \in used

LEMMA InitOtherTypes == Init => OtherTypes
  BY MishapsAreCounted DEF Init, OtherTypes

LEMMA MishapsBounded ==
  ASSUME OtherTypes, NEW p \in Pub, FailOn(p)
  PROVE  interrupted' \subseteq Pub /\ mishaps' \in 0..MaxMishaps
  BY MishapsAreCounted DEF OtherTypes, FailOn, Mishap

LEMMA StepKeepsOtherTypes ==
  ASSUME OtherTypes, StagesTyped, RefTypes, RefreshersStay, NEW a \in Actor, Begin(a) \/ Step(a)
  PROVE  OtherTypes'
<1> USE DEF OtherTypes, RefTypes
<1>1. used \subseteq used'
  BY StepsOnBound
<1>2. UNCHANGED public
  BY DEF Begin, BeginBind, BeginDraft, BeginDrop, BeginExpire, BeginRefresh, BeginScheduled,
    BeginDelete, BeginRestore, BeginSweep, BeginAdopt, Enter, Step, LockNext, Check, Bind, Leave,
    Pinned, RemoveWorkspace, LoadScheduled, Ensure, Migrate, Fill, Date, Fallback, Rebind,
    CreateWithToken, LockCreate, Count, Make, BindNew, Config, Start, StageResult, Publish,
    Finalize, BindDone, Release, Discard, Remove, SweepOne, SweepDone, Clear, historyVars
<1>3. sweep' \in [Actor -> SUBSET Pub] /\ creator' \in Actor \cup {NoActor}
  BY DEF Begin, BeginBind, BeginDraft, BeginDrop, BeginExpire, BeginRefresh, BeginScheduled,
    BeginDelete, BeginRestore, BeginSweep, BeginAdopt, Enter, Step, LockNext, Check, Bind, Leave,
    Pinned, RemoveWorkspace, LoadScheduled, Ensure, Migrate, Fill, Date, Fallback, Rebind,
    CreateWithToken, LockCreate, Count, Make, BindNew, Config, Start, StageResult, Publish,
    Finalize, BindDone, Release, Discard, Remove, SweepOne, SweepDone, Clear, actorVars, lockVars
<1>4. running' \subseteq Pub
  BY DEF RefreshersStay, Refreshing, Begin, BeginBind, BeginDraft, BeginDrop, BeginExpire,
    BeginRefresh, BeginScheduled, BeginDelete, BeginRestore, BeginSweep, BeginAdopt, Enter, Step,
    LockNext, Check, Bind, Leave, Pinned, RemoveWorkspace, LoadScheduled, Ensure, Migrate, Fill,
    Date, Fallback, Rebind, CreateWithToken, LockCreate, Count, Make, BindNew, Config, Start,
    StageResult, Publish, Finalize, BindDone, Release, Discard, Remove, SweepOne, SweepDone, Clear,
    lockVars
<1>5. /\ metaOf' \subseteq dirOf' /\ yamlOf' \subseteq dirOf' /\ dirOf' \subseteq used'
      /\ stale' \subseteq used' /\ migrated' \subseteq used' /\ leftBehind' \subseteq used'
  <2>1. CASE Begin(a)
    BY <2>1 DEF Begin, BeginBind, BeginDraft, BeginDrop, BeginExpire, BeginRefresh,
      BeginScheduled, BeginDelete, BeginRestore, BeginSweep, BeginAdopt, Enter, diskVars, kindVars,
      historyVars
  <2>2. CASE Make(a) \/ Migrate(a) \/ Fallback(a)
    BY <2>2 DEF Make, Migrate, Fallback, CreateWithToken, kindVars
  <2>3. CASE Fill(a) \/ Date(a) \/ Rebind(a)
    BY <2>3 DEF Fill, Date, Rebind, RefreshersStay, Named, kindVars
  <2>4. CASE BindNew(a) \/ Finalize(a) \/ Discard(a)
    BY <1>1, <2>4 DEF BindNew, Finalize, Discard, RemoveDir, RemoveDirFails, kindVars
  <2>5. CASE StageResult(a) \/ Publish(a)
    BY <1>1, <2>5 DEF StageResult, Publish, RefreshersStay, Refreshing, kindVars, historyVars
  <2>6. CASE Remove(a)
    BY <1>1, <2>6 DEF Remove, RemovePublished, RemoveDir, RemoveDirFails, kindVars
  <2>7. CASE SweepOne(a)
    <3>1. PICK p \in sweep[a] :
            \/ UNCHANGED <<dirOf, metaOf, yamlOf, kindVars>>
            \/ RemoveDir(p) \/ RemoveDirFails(p)
      BY <2>7 DEF SweepOne, RemovePublished, RemoveDirFails
    <3>2. UNCHANGED used
      BY <2>7 DEF SweepOne
    <3> QED
      BY <3>1, <3>2 DEF RemoveDir, RemoveDirFails, kindVars
  <2>8. CASE \/ LockNext(a) \/ Check(a) \/ Bind(a) \/ Leave(a) \/ Pinned(a) \/ RemoveWorkspace(a)
             \/ LoadScheduled(a) \/ Ensure(a) \/ LockCreate(a) \/ Count(a) \/ Start(a)
             \/ BindDone(a) \/ SweepDone(a) \/ Clear(a)
    BY <2>8 DEF LockNext, Check, Bind, Leave, Pinned, RemoveWorkspace, LoadScheduled, Ensure,
      LockCreate, Count, Start, BindDone, SweepDone, Clear, diskVars, kindVars, historyVars
  <2>9. CASE Config(a) \/ Release(a)
    BY <2>9 DEF Config, Release, LeaveBehind, RefreshersStay, Refreshing, diskVars
  <2> QED
    BY <2>1, <2>2, <2>3, <2>4, <2>5, <2>6, <2>7, <2>8, <2>9 DEF Step
<1>6. \A b \in Actor : pc'[b] \in {"clear", "unbind"} => pub'[b] \in used'
  <2>1. OthersAlone(a)
    BY StepsAreLocal
  <2>2. pc'[a] \in {"clear", "unbind"} => pub'[a] \in used'
    <3> USE DEF StagesTyped, Goto
    <3>1. CASE Begin(a)
      BY <3>1 DEF Begin, BeginBind, BeginDraft, BeginDrop, BeginExpire, BeginRefresh,
        BeginScheduled, BeginDelete, BeginRestore, BeginSweep, BeginAdopt, Enter
    <3>2. CASE \/ LockNext(a) \/ Check(a) \/ Bind(a) \/ Leave(a) \/ Pinned(a)
               \/ RemoveWorkspace(a) \/ LoadScheduled(a) \/ Ensure(a) \/ Migrate(a) \/ Fill(a)
               \/ Date(a) \/ Fallback(a) \/ Rebind(a)
               \/ LockCreate(a) \/ Count(a) \/ Make(a)
      BY <3>2 DEF LockNext, Check, Bind, Leave, Pinned, RemoveWorkspace, LoadScheduled, Ensure,
        Migrate, Fill, Date, Fallback, Rebind, CreateWithToken, LockCreate, Count, Make
    <3>3. CASE \/ BindNew(a) \/ Config(a) \/ Start(a) \/ StageResult(a) \/ Publish(a)
               \/ Finalize(a) \/ BindDone(a) \/ Release(a) \/ Discard(a)
      BY <3>3 DEF BindNew, Config, Start, StageResult, Publish, Finalize, BindDone, Release, Discard
    <3>4. CASE Remove(a) \/ SweepDone(a) \/ Clear(a)
      BY <1>1, <3>4 DEF Remove, RemovePublished, SweepDone, Clear, VisitsDone, actorVars
    <3>5. CASE SweepOne(a)
      BY <1>1, <3>5 DEF SweepOne, RemovePublished
    <3> QED
      BY <3>1, <3>2, <3>3, <3>4, <3>5 DEF Step
  <2> QED
    BY <1>1, <2>1, <2>2 DEF OthersAlone
<1>7. interrupted' \subseteq Pub /\ mishaps' \in 0..MaxMishaps
  <2>1. CASE UNCHANGED <<interrupted, mishaps>>
    BY <2>1
  <2>2. CASE \E p \in Pub : FailOn(p)
    BY <2>2, MishapsBounded
  <2>3. CASE UNCHANGED interrupted /\ Mishap
    BY <2>3, MishapsAreCounted DEF Mishap
  <2>4. CASE Begin(a)
    BY <2>1, <2>4 DEF Begin, BeginBind, BeginDraft, BeginDrop, BeginExpire, BeginRefresh,
      BeginScheduled, BeginDelete, BeginRestore, BeginSweep, BeginAdopt, Enter, historyVars
  <2>5. CASE Make(a) \/ Migrate(a) \/ Fallback(a)
    BY <2>1, <2>2, <2>3, <2>5 DEF Make, Migrate, Fallback, CreateWithToken
  <2>6. CASE Config(a) \/ Date(a)
    BY <2>1, <2>3, <2>6 DEF Config, Date
  <2>7. CASE Fill(a) \/ Rebind(a) \/ BindNew(a) \/ Finalize(a) \/ Release(a) \/ Discard(a)
    <3>1. pub[a] \in Pub
      BY <2>7 DEF RefreshersStay, Refreshing, Named, Fill, Rebind, BindNew, Finalize, Release,
                  Discard
    <3>2. UNCHANGED <<interrupted, mishaps>> \/ FailOn(pub[a])
      BY <2>7 DEF Fill, Rebind, BindNew, Finalize, Release, Discard, RemoveDir, RemoveDirFails
    <3> QED
      BY <2>1, <2>2, <3>1, <3>2
  <2>8. CASE Remove(a)
    BY <2>1, <2>2, <2>8 DEF Remove, RemovePublished, RemoveDir, RemoveDirFails
  <2>9. CASE SweepOne(a)
    <3>1. PICK p \in sweep[a] : UNCHANGED <<interrupted, mishaps>> \/ FailOn(p)
      BY <2>9 DEF SweepOne, RemovePublished, RemoveDir, RemoveDirFails
    <3> QED
      BY <2>1, <2>2, <3>1
  <2>10. CASE Clear(a)
    BY <2>1, <2>2, <2>10 DEF Clear
  <2>11. CASE \/ LockNext(a) \/ Check(a) \/ Bind(a) \/ Leave(a) \/ Pinned(a) \/ RemoveWorkspace(a)
             \/ LoadScheduled(a) \/ Ensure(a) \/ LockCreate(a) \/ Count(a) \/ Start(a)
             \/ StageResult(a) \/ Publish(a) \/ BindDone(a) \/ SweepDone(a)
    BY <2>1, <2>11 DEF LockNext, Check, Bind, Leave, Pinned, RemoveWorkspace, LoadScheduled, Ensure,
      LockCreate, Count, Start, StageResult, Publish, BindDone, SweepDone, historyVars
  <2> QED
    BY <2>4, <2>5, <2>6, <2>7, <2>8, <2>9, <2>10, <2>11 DEF Step
<1>8. oldRefs' \subseteq oldRefs /\ oldFiles' \subseteq oldFiles
  <2>1. CASE Begin(a)
    BY <2>1 DEF Begin, BeginBind, BeginDraft, BeginDrop, BeginExpire, BeginRefresh,
      BeginScheduled, BeginDelete, BeginRestore, BeginSweep, BeginAdopt, Enter, diskVars, oldVars
  <2>2. CASE Step(a)
    BY <2>2 DEF Step, LockNext, Check, Bind, Leave, Pinned, RemoveWorkspace, LoadScheduled, Ensure,
      Migrate, Fill, Date, Fallback, Rebind, LockCreate, Count, Make, BindNew, Config, Start,
      StageResult, Publish, Finalize, BindDone, Release, Discard, Remove, SweepOne, SweepDone,
      Clear, SetBound, diskVars, oldVars
  <2> QED
    BY <2>1, <2>2
<1> QED
  BY <1>2, <1>3, <1>4, <1>5, <1>6, <1>7, <1>8

LEMMA NextOtherTypes == OtherTypes /\ BindInv /\ [Next]_vars => OtherTypes'
<1> SUFFICES ASSUME OtherTypes, BindInv, [Next]_vars PROVE OtherTypes'
  OBVIOUS
<1>1. ASSUME NEW a \in Actor, Begin(a) \/ Step(a) PROVE OtherTypes'
  BY <1>1, StepKeepsOtherTypes DEF BindInv
<1>2. CASE Crash
  <2>1. interrupted' \subseteq Pub
    BY <1>2 DEF Crash, BindInv, RefTypes, OtherTypes
  <2>2. mishaps' \in 0..MaxMishaps
    BY <1>2, MishapsAreCounted DEF Crash, Mishap, OtherTypes
  <2> QED
    BY <1>2, <2>1, <2>2 DEF Crash, OtherTypes, diskVars, oldVars, kindVars
<1>3. CASE Age \/ Access \/ UNCHANGED vars
  BY <1>3 DEF Age, Access, vars, actorVars, lockVars, diskVars, oldVars, kindVars, historyVars,
              OtherTypes, BindInv, RefTypes
<1> QED
  BY <1>1, <1>2, <1>3 DEF Next

(* Files lie in directories, directories belong to publications that were  *)
(* created, and every variable has its type.                               *)
THEOREM TypesAreKept == Spec => []TypeOK
<1>1. BindInv /\ OtherTypes => TypeOK
  BY FirstIsThere DEF BindInv, StagesTyped, RefTypes, OtherTypes, TypeOK
<1> QED
  BY <1>1, InitOtherTypes, NextOtherTypes, BindInvariant, PTL DEF Spec

-----------------------------------------------------------------------------
(* What PublishedTokensProofs proves of private links, for the             *)
(* specification that composes them with publications: its behaviours are  *)
(* behaviours of the links, whichever component they exercise.             *)
Links == INSTANCE PublishedTokensProofs WITH
  pc <- at, todo <- remaining, mishaps <- incidents

(* The composition implements the specification of the links.              *)
LEMMA LinksRun ==
  PublishedSpec => Links!ConstantsDiffer /\ Links!Spec
<1>1. Links!ConstantsDiffer
  BY LinksDiffer DEF Links!ConstantsDiffer
<1>2. PublishedInit => Links!Init
  BY DEF PublishedInit, Tokens!Init, Links!Init
<1>3. Tokens!Next => Links!Next
  BY DEF
    Tokens!Next, Tokens!Begin, Tokens!Step, Tokens!Crash, Tokens!Create, Tokens!Rotate,
    Tokens!Update, Tokens!Delete, Tokens!Lookup, Tokens!BeginMigration, Tokens!Reindex,
    Tokens!Unindex, Tokens!Look, Tokens!Load, Tokens!Drop, Tokens!Ensure, Tokens!Scan,
    Tokens!Merge, Tokens!MigrateLegacy, Tokens!Fallback, Tokens!IndexMigrated,
    Tokens!MigrateUpdate, Tokens!MigrateDone, Tokens!BindMigrated, Tokens!Answer,
    Tokens!SaveNew, Tokens!Replace, Tokens!Without, Tokens!Revoke, Tokens!Misread,
    Tokens!Goto, Tokens!Return, Tokens!Published, Tokens!Settled, Tokens!LiveTokens,
    Tokens!Known, Tokens!diskVars, Tokens!indexVars, Tokens!actorVars, Tokens!historyVars,
    Links!Next, Links!Begin, Links!Step, Links!Crash, Links!Create, Links!Rotate,
    Links!Update, Links!Delete, Links!Lookup, Links!BeginMigration, Links!Reindex,
    Links!Unindex, Links!Look, Links!Load, Links!Drop, Links!Ensure, Links!Scan,
    Links!Merge, Links!MigrateLegacy, Links!Fallback, Links!IndexMigrated,
    Links!MigrateUpdate, Links!MigrateDone, Links!BindMigrated, Links!Answer, Links!SaveNew,
    Links!Replace, Links!Without, Links!Revoke, Links!Misread, Links!Goto, Links!Return,
    Links!Published, Links!Settled, Links!LiveTokens, Links!Known, Links!diskVars,
    Links!indexVars, Links!actorVars, Links!historyVars
<1>4. [PublishedNext]_<<component, vars, tokenVars>> => [Links!Next]_Links!vars
  BY <1>3 DEF PublishedNext, tokenVars, Links!vars, Links!diskVars, Links!indexVars,
    Links!actorVars, Links!historyVars
<1> QED
  BY <1>1, <1>2, <1>4, PTL DEF PublishedSpec, Links!Spec

(* A link that was rotated away or deleted before a download began is not  *)
(* served.                                                                 *)
THEOREM PublishedLinksDie ==
  PublishedSpec => []NewLinksDie
<1>1. Links!NewLinksDie => NewLinksDie
  BY DEF NewLinksDie, Tokens!NewLinksDie, Links!NewLinksDie
<1> QED
  BY <1>1, LinksRun, Links!RevokedLinksDie, PTL

(* Once the index is loaded, every publication is in it under its token.   *)
THEOREM PublishedIndexIsComplete ==
  PublishedSpec => []IndexIsComplete
<1>1. Links!IndexIsComplete => IndexIsComplete
  BY DEF IndexIsComplete, Tokens!IndexIsComplete, Links!IndexIsComplete,
         Tokens!Published, Links!Published
<1> QED
  BY <1>1, LinksRun, Links!LoadedIndexIsComplete, PTL

(* A link that was live when a download began, and still is, is found.     *)
THEOREM PublishedLinksAreFound ==
  PublishedSpec => []LiveLinkIsFound
<1>1. Links!LiveLinkIsFound => LiveLinkIsFound
  BY DEF LiveLinkIsFound, Tokens!LiveLinkIsFound, Links!LiveLinkIsFound
<1> QED
  BY <1>1, LinksRun, Links!LiveLinksAreFound, PTL
=============================================================================
