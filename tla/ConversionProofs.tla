-------------------------- MODULE ConversionProofs --------------------------
(***************************************************************************)
(* What is written and what is shown, for every catalog, every list of     *)
(* nodes, every configuration and any number of edits.                     *)
(*                                                                         *)
(* Rendering.  Groups and rules are built with folds over sequences.  The  *)
(* first part says what a fold of the community modules computes, step by  *)
(* step; the second what the folds of Rendering come to (KeepIs, UniqueIs, *)
(* ConcatIs, ResolvedInPlace); the third which lines a configuration has   *)
(* (BuildRulesAre).  On these rest that every written file can be loaded   *)
(* (FilesLoad) and that the user's rules are served (RulesAreServed).  The *)
(* fourth says what groups refer to (GroupsAre): each to groups of a lower *)
(* rank (RefersDown), so that none is on a cycle (GroupsHaveNoCycle).      *)
(*                                                                         *)
(* Node editing.  The fifth part says what the rows of the editor are: at  *)
(* most one for an ID (RowsDiffer), finitely many, and those of the inline *)
(* list whatever was fetched (RowsOfNothing).  The sixth is the agreement  *)
(* of the node state with the history of deletions (Remembered), which all *)
(* kinds of pruning (Follows, PruneKeeps) and all actions keep.  On it     *)
(* rest that what was deleted is not rendered (DeletedAreHidden) and that  *)
(* nothing else is left out (OthersAreServed).                             *)
(***************************************************************************)
EXTENDS Conversion, SequenceTheorems, FiniteSums, FiniteSetTheorems, TLAPS

(* The greatest number of a set with a bound.                              *)
LEMMA MaxOfSome ==
  ASSUME NEW n \in Nat, NEW S \in SUBSET (0 .. n), S # {}
  PROVE  Max(S) \in S /\ \A y \in S : Max(S) >= y
BY GreatestNatural DEF Max

LEMMA MaxWithin ==
  ASSUME NEW n \in Nat, NEW S \in SUBSET (1 .. n), S # {}
  PROVE  Max(S) \in 1 .. n
<1>1. S \in SUBSET (0 .. n)
  OBVIOUS
<1> QED
  BY <1>1, MaxOfSome

LEMMA MaxOfAll ==
  ASSUME NEW k \in Nat, k # 0
  PROVE  Max(1 .. k) = k /\ (1 .. k) \ {k} = 1 .. (k - 1)
<1>1. 1 .. k \in SUBSET (0 .. k) /\ 1 .. k # {}
  BY k \in 1 .. k
<1>2. Max(1 .. k) \in 1 .. k /\ \A y \in 1 .. k : Max(1 .. k) >= y
  BY <1>1, MaxOfSome
<1>3. Max(1 .. k) >= k
  BY <1>2, k \in 1 .. k
<1> QED
  BY <1>2, <1>3

(* What is folded: n values step by step, from base, staying within V.     *)
Setting(n, V, base, step) == n \in Nat /\ base \in V /\ step \in [V \X (1 .. n) -> V]

(* f says for every set of positions in T what folding over them gives.    *)
Folded(f, T, base, step) ==
  \A R \in SUBSET T :
    f[R] = IF R = {} THEN base ELSE step[<<f[R \ {Max(R)}], Max(R)>>]

Parts(B, A, n) == A \in SUBSET (1 .. n) /\ B \in SUBSET A

(* There is one such function at most,                                     *)
LEMMA FoldsAgree ==
  ASSUME NEW n \in Nat, NEW base, NEW step, NEW A, NEW B, Parts(B, A, n),
         NEW f, NEW g, Folded(f, A, base, step), Folded(g, B, base, step)
  PROVE  f[B] = g[B]
<1> DEFINE D == 1 .. n
           Bad == {Q \in SUBSET B : f[Q] # g[Q]}
<1> SUFFICES ASSUME Bad # {}  PROVE FALSE
  OBVIOUS
<1>1. IsFiniteSet(D) /\ Bad \in SUBSET SUBSET D
  <2>1. IsFiniteSet(D)
    BY FS_Interval
  <2>2. B \in SUBSET D
    BY DEF Parts
  <2>3. Bad \in SUBSET SUBSET D
    <3> HIDE DEF D
    <3> QED
      BY <2>2
  <2> QED
    BY <2>1, <2>3
<1>2. PICK Q \in Bad : \A U \in Bad : U \subseteq Q => U = Q
  <2>1. Bad # {}
    OBVIOUS
  <2> HIDE DEF Bad, D
  <2> QED
    BY <1>1, <2>1, LeastCounterexample
<1>3. CASE Q = {}
  <2>1. f[Q] = base /\ g[Q] = base
    BY <1>3 DEF Folded
  <2> QED
    BY <2>1
<1>4. CASE Q # {}
  <2>1. Max(Q) \in Q
    <3>1. Q \in SUBSET (0 .. n)
      BY DEF Parts
    <3> QED
      BY <3>1, <1>4, MaxOfSome
  <2>2. Q \ {Max(Q)} \notin Bad
    BY <2>1, <1>2
  <2>3. f[Q \ {Max(Q)}] = g[Q \ {Max(Q)}]
    BY <2>2
  <2> QED
    <3>1. Q \in SUBSET A /\ Q \in SUBSET B
      BY DEF Parts
    <3>2. f[Q] = step[<<f[Q \ {Max(Q)}], Max(Q)>>] /\ g[Q] = step[<<g[Q \ {Max(Q)}], Max(Q)>>]
      <4> HIDE DEF Bad
      <4> QED
        BY <3>1, <1>4 DEF Folded
    <3> QED
      BY <3>2, <2>3
<1> QED
  BY <1>3, <1>4

(* and if the steps stay within V, there is one.                           *)
LEMMA FoldExists ==
  ASSUME NEW n, NEW V, NEW base, NEW step, Setting(n, V, base, step)
  PROVE  \E f : f \in [SUBSET (1 .. n) -> V] /\ Folded(f, 1 .. n, base, step)
<1> n \in Nat /\ base \in V /\ step \in [V \X (1 .. n) -> V]
  BY DEF Setting
<1> DEFINE D == 1 .. n
           Fits(f, T) == f \in [SUBSET T -> V] /\ Folded(f, T, base, step)
           Bad == {T \in SUBSET D : ~\E f : Fits(f, T)}
<1> SUFFICES ASSUME Bad # {}  PROVE FALSE
  <2>1. D \notin Bad => \E f : Fits(f, D)
    OBVIOUS
  <2> QED
    BY <2>1
<1>1. IsFiniteSet(D) /\ Bad \in SUBSET SUBSET D
  BY FS_Interval
<1>2. PICK T \in Bad : \A U \in Bad : U \subseteq T => U = T
  <2> HIDE DEF Bad, D
  <2> QED
    BY <1>1, LeastCounterexample
<1>3. T # {}
  <2> SUFFICES ASSUME T = {}  PROVE FALSE
    OBVIOUS
  <2> DEFINE f == [R \in SUBSET T |-> base]
  <2>1. Fits(f, T)
    BY DEF Folded
  <2> QED
    BY <2>1
<1>4. Max(T) \in T
  <2>1. T \in SUBSET (0 .. n)
    OBVIOUS
  <2> QED
    BY <2>1, <1>3, MaxOfSome
<1>5. \A R \in SUBSET T : R # T => \E f : Fits(f, R)
  BY <1>2
<1> DEFINE fit(R) == CHOOSE f : Fits(f, R)
           val(R) == fit(R)[R]
           last == T \ {Max(T)}
           F == [R \in SUBSET T |-> IF R = T THEN step[<<val(last), Max(T)>>] ELSE val(R)]
<1>6. \A R \in SUBSET T : R # T => Fits(fit(R), R)
  BY <1>5
<1>7. \A R \in SUBSET T : R # T => val(R) \in V
  BY <1>6
<1>8. last \in SUBSET T /\ last # T
  BY <1>4
<1>9. F \in [SUBSET T -> V]
  <2>1. step[<<val(last), Max(T)>>] \in V
    <3>1. val(last) \in V /\ Max(T) \in 1 .. n
      BY <1>7, <1>8, <1>4
    <3> HIDE DEF val, last
    <3> QED
      BY <3>1
  <2> HIDE DEF val, last
  <2> QED
    BY <2>1, <1>7
<1>10. ASSUME NEW R \in SUBSET T
       PROVE  F[R] = IF R = {} THEN base ELSE step[<<F[R \ {Max(R)}], Max(R)>>]
  <2>1. CASE R = T
    <3>1. F[R] = step[<<val(last), Max(T)>>] /\ F[last] = val(last)
      <4> HIDE DEF val, last
      <4> QED
        BY <2>1, <1>8
    <3> QED
      BY <3>1, <2>1, <1>3
  <2>2. CASE R # T /\ R = {}
    <3>1. Folded(fit(R), R, base, step)
      BY <2>2, <1>6
    <3> HIDE DEF fit
    <3> QED
      BY <3>1, <2>2 DEF Folded
  <2>3. CASE R # T /\ R # {}
    <3> DEFINE P == R \ {Max(R)}
    <3>1. Max(R) \in R
      <4>1. R \in SUBSET (0 .. n)
        OBVIOUS
      <4> QED
        BY <4>1, <2>3, MaxOfSome
    <3>2. P \in SUBSET T /\ P # T /\ P \in SUBSET R
      BY <3>1
    <3>3. Folded(fit(R), R, base, step) /\ Folded(fit(P), P, base, step)
      BY <3>2, <2>3, <1>6
    <3>4. fit(R)[P] = fit(P)[P]
      <4>1. Parts(P, R, n)
        BY <3>2 DEF Parts
      <4> HIDE DEF fit, P
      <4> QED
        BY <3>3, <4>1, FoldsAgree
    <3>5. F[R] = fit(R)[R] /\ F[P] = fit(P)[P]
      <4> HIDE DEF fit
      <4> QED
        BY <2>3, <3>2
    <3>6. fit(R)[R] = step[<<fit(R)[P], Max(R)>>]
      <4> HIDE DEF fit
      <4> QED
        BY <3>3, <2>3 DEF Folded
    <3> HIDE DEF F, fit
    <3> QED
      BY <3>4, <3>5, <3>6, <2>3
  <2> QED
    BY <2>1, <2>2, <2>3
<1>11. Fits(F, T)
  <2> HIDE DEF F
  <2> QED
    BY <1>9, <1>10 DEF Folded
<1> QED
  BY <1>11

(* g says what folding gives as long as it stays within V,                 *)
Stepwise(g, n, V, base, step) ==
  /\ g[{}] = base
  /\ \A R \in SUBSET (1 .. n) :
       R # {} /\ g[R \ {Max(R)}] \in V => g[R] = step[<<g[R \ {Max(R)}], Max(R)>>]

(* and u are the results of folding over longer and longer beginnings.     *)
Results(u, n, V, base, step) ==
  /\ u \in [0 .. n -> V] /\ u[0] = base
  /\ \A k \in 1 .. n : u[k] = step[<<u[k - 1], k>>]

LEMMA FoldSteps ==
  ASSUME NEW n, NEW V, NEW base, NEW step, Setting(n, V, base, step),
         NEW g, Stepwise(g, n, V, base, step)
  PROVE  \E u : Results(u, n, V, base, step) /\ u[n] = g[1 .. n]
<1> n \in Nat /\ base \in V /\ step \in [V \X (1 .. n) -> V]
  BY DEF Setting
<1> DEFINE u == [k \in 0 .. n |-> g[1 .. k]]
           Bad == {k \in 0 .. n : g[1 .. k] \notin V}
<1>1. g[1 .. 0] = base
  <2>1. 1 .. 0 = {}
    OBVIOUS
  <2> QED
    BY <2>1 DEF Stepwise
<1>2. ASSUME NEW k \in 1 .. n, g[1 .. (k - 1)] \in V
      PROVE  g[1 .. k] = step[<<g[1 .. (k - 1)], k>>] /\ g[1 .. k] \in V
  <2>1. Max(1 .. k) = k /\ (1 .. k) \ {k} = 1 .. (k - 1)
    BY MaxOfAll
  <2>2. 1 .. k \in SUBSET (1 .. n) /\ 1 .. k # {}
    BY k \in 1 .. k
  <2>3. g[1 .. k] = step[<<g[1 .. (k - 1)], k>>]
    BY <2>1, <2>2, <1>2 DEF Stepwise
  <2> QED
    BY <2>3, <1>2
<1>3. Bad = {}
  <2> SUFFICES ASSUME Bad # {}  PROVE FALSE
    OBVIOUS
  <2>1. PICK k \in Bad : \A j \in Bad : k <= j
    <3>1. Bad \in SUBSET Nat
      OBVIOUS
    <3> HIDE DEF Bad
    <3> QED
      BY <3>1, LeastNatural
  <2>2. k # 0
    BY <1>1
  <2>3. k - 1 \notin Bad /\ k - 1 \in 0 .. n /\ k \in 1 .. n
    BY <2>1, <2>2
  <2>4. g[1 .. (k - 1)] \in V /\ g[1 .. k] \notin V
    BY <2>3
  <2> QED
    BY <2>3, <2>4, <1>2
<1>4. u \in [0 .. n -> V]
  BY <1>3
<1>5. \A k \in 1 .. n : u[k] = step[<<u[k - 1], k>>]
  <2> TAKE k \in 1 .. n
  <2>1. k - 1 \in 0 .. n /\ k \in 0 .. n
    OBVIOUS
  <2>2. g[1 .. (k - 1)] \in V
    BY <2>1, <1>3
  <2> QED
    BY <2>1, <2>2, <1>2
<1>6. u[0] = base /\ u[n] = g[1 .. n]
  BY <1>1
<1> HIDE DEF u
<1> QED
  BY <1>4, <1>5, <1>6 DEF Results

-----------------------------------------------------------------------------
(* The folds of Rendering.                                                 *)

(* What Keep, UniqueOrdered and Concat have after each element.            *)
Kept(u, s, S, X) ==
  /\ u \in [0 .. Len(s) -> Seq(X)] /\ u[0] = <<>> /\ u[Len(s)] = Keep(s, S)
  /\ \A k \in 1 .. Len(s) : u[k] = IF s[k] \in S THEN Append(u[k - 1], s[k]) ELSE u[k - 1]

Met(u, s, X) ==
  /\ u \in [0 .. Len(s) -> Seq(X)] /\ u[0] = <<>> /\ u[Len(s)] = UniqueOrdered(s)
  /\ \A k \in 1 .. Len(s) :
       u[k] = IF Contains(u[k - 1], s[k]) THEN u[k - 1] ELSE Append(u[k - 1], s[k])

Joined(u, s, X) ==
  /\ u \in [0 .. Len(s) -> Seq(X)] /\ u[0] = <<>> /\ u[Len(s)] = Concat(s)
  /\ \A k \in 1 .. Len(s) : u[k] = u[k - 1] \o s[k]

LEMMA UniqueSteps ==
  ASSUME NEW S, NEW s \in Seq(S)
  PROVE  \E u : Met(u, s, S)
<1> DEFINE n == Len(s)
           V == Seq(S)
           next(v, x) == IF Contains(v, x) THEN v ELSE Append(v, x)
           step == [p \in V \X (1 .. n) |-> next(p[1], s[p[2]])]
           Solves(g) == g = [R \in SUBSET DOMAIN s |->
                               IF R = {} THEN <<>> ELSE next(g[R \ {Max(R)}], s[Max(R)])]
<1>1. Setting(n, V, <<>>, step) /\ n \in Nat /\ DOMAIN s = 1 .. n
  BY DEF Setting
<1>2. PICK f : f \in [SUBSET (1 .. n) -> V] /\ Folded(f, 1 .. n, <<>>, step)
  <2> HIDE DEF step, V, n
  <2> QED
    BY <1>1, FoldExists
<1>3. \A v \in V, k \in 1 .. n : step[<<v, k>>] = next(v, s[k])
  <2> HIDE DEF V, n, next
  <2> QED
    OBVIOUS
<1> HIDE DEF next, V, n, step
<1>4. \E h : Solves(h)
  <2> SUFFICES Solves(f)
    <3> HIDE DEF Solves
    <3> QED
      OBVIOUS
  <2> SUFFICES ASSUME NEW R \in SUBSET (1 .. n)
               PROVE  f[R] = IF R = {} THEN <<>> ELSE next(f[R \ {Max(R)}], s[Max(R)])
    BY <1>1, <1>2
  <2>1. R # {} => Max(R) \in 1 .. n /\ f[R \ {Max(R)}] \in V
    BY <1>1, <1>2, MaxWithin
  <2> QED
    BY <1>2, <1>3, <2>1 DEF Folded
<1> DEFINE g == CHOOSE h : Solves(h)
<1>5. UniqueOrdered(s) = g[1 .. n]
  BY <1>1 DEF UniqueOrdered, FoldLeft, MapThenFoldSet, next
<1>6. Solves(g)
  <2> HIDE DEF Solves
  <2> QED
    BY <1>4
<1>7. \A R \in SUBSET (1 .. n) :
         g[R] = IF R = {} THEN <<>> ELSE next(g[R \ {Max(R)}], s[Max(R)])
  <2> HIDE DEF g
  <2> QED
    BY <1>1, <1>6
<1> HIDE DEF g
<1>8. Stepwise(g, n, V, <<>>, step)
  BY <1>1, <1>3, <1>7, MaxWithin DEF Stepwise
<1>9. PICK u : Results(u, n, V, <<>>, step) /\ u[n] = g[1 .. n]
  BY <1>1, <1>8, FoldSteps
<1>10. \A k \in 1 .. n : u[k - 1] \in V
  BY <1>1, <1>9 DEF Results
<1>11. \A k \in 1 .. n : u[k] = next(u[k - 1], s[k])
  BY <1>3, <1>9, <1>10 DEF Results
<1> QED
  BY <1>5, <1>9, <1>11 DEF Results, n, V, next, Met

LEMMA KeepSteps ==
  ASSUME NEW X, NEW s \in Seq(X), NEW S
  PROVE  \E u : Kept(u, s, S, X)
<1> DEFINE n == Len(s)
           V == Seq(X)
           next(v, x) == IF x \in S THEN Append(v, x) ELSE v
           step == [p \in V \X (1 .. n) |-> next(p[1], s[p[2]])]
           Solves(g) == g = [R \in SUBSET DOMAIN s |->
                               IF R = {} THEN <<>> ELSE next(g[R \ {Max(R)}], s[Max(R)])]
<1>1. Setting(n, V, <<>>, step) /\ n \in Nat /\ DOMAIN s = 1 .. n
  BY DEF Setting
<1>2. PICK f : f \in [SUBSET (1 .. n) -> V] /\ Folded(f, 1 .. n, <<>>, step)
  <2> HIDE DEF step, V, n
  <2> QED
    BY <1>1, FoldExists
<1>3. \A v \in V, k \in 1 .. n : step[<<v, k>>] = next(v, s[k])
  <2> HIDE DEF V, n, next
  <2> QED
    OBVIOUS
<1> HIDE DEF next, V, n, step
<1>4. \E h : Solves(h)
  <2> SUFFICES Solves(f)
    <3> HIDE DEF Solves
    <3> QED
      OBVIOUS
  <2> SUFFICES ASSUME NEW R \in SUBSET (1 .. n)
               PROVE  f[R] = IF R = {} THEN <<>> ELSE next(f[R \ {Max(R)}], s[Max(R)])
    BY <1>1, <1>2
  <2>1. R # {} => Max(R) \in 1 .. n /\ f[R \ {Max(R)}] \in V
    BY <1>1, <1>2, MaxWithin
  <2> QED
    BY <1>2, <1>3, <2>1 DEF Folded
<1> DEFINE g == CHOOSE h : Solves(h)
<1>5. Keep(s, S) = g[1 .. n]
  BY <1>1 DEF Keep, FoldLeft, MapThenFoldSet, next
<1>6. Solves(g)
  <2> HIDE DEF Solves
  <2> QED
    BY <1>4
<1>7. \A R \in SUBSET (1 .. n) :
         g[R] = IF R = {} THEN <<>> ELSE next(g[R \ {Max(R)}], s[Max(R)])
  <2> HIDE DEF g
  <2> QED
    BY <1>1, <1>6
<1> HIDE DEF g
<1>8. Stepwise(g, n, V, <<>>, step)
  BY <1>1, <1>3, <1>7, MaxWithin DEF Stepwise
<1>9. PICK u : Results(u, n, V, <<>>, step) /\ u[n] = g[1 .. n]
  BY <1>1, <1>8, FoldSteps
<1>10. \A k \in 1 .. n : u[k - 1] \in V
  BY <1>1, <1>9 DEF Results
<1>11. \A k \in 1 .. n : u[k] = next(u[k - 1], s[k])
  BY <1>3, <1>9, <1>10 DEF Results
<1> QED
  BY <1>5, <1>9, <1>11 DEF Results, n, V, next, Kept

LEMMA ConcatSteps ==
  ASSUME NEW X, NEW s \in Seq(Seq(X))
  PROVE  \E u : Joined(u, s, X)
<1> DEFINE n == Len(s)
           V == Seq(X)
           next(v, x) == v \o x
           step == [p \in V \X (1 .. n) |-> next(p[1], s[p[2]])]
           Solves(g) == g = [R \in SUBSET DOMAIN s |->
                               IF R = {} THEN <<>> ELSE next(g[R \ {Max(R)}], s[Max(R)])]
<1>1. Setting(n, V, <<>>, step) /\ n \in Nat /\ DOMAIN s = 1 .. n
  BY DEF Setting
<1>2. PICK f : f \in [SUBSET (1 .. n) -> V] /\ Folded(f, 1 .. n, <<>>, step)
  <2> HIDE DEF step, V, n
  <2> QED
    BY <1>1, FoldExists
<1>3. \A v \in V, k \in 1 .. n : step[<<v, k>>] = next(v, s[k])
  <2> HIDE DEF V, n, next
  <2> QED
    OBVIOUS
<1> HIDE DEF next, V, n, step
<1>4. \E h : Solves(h)
  <2> SUFFICES Solves(f)
    <3> HIDE DEF Solves
    <3> QED
      OBVIOUS
  <2> SUFFICES ASSUME NEW R \in SUBSET (1 .. n)
               PROVE  f[R] = IF R = {} THEN <<>> ELSE next(f[R \ {Max(R)}], s[Max(R)])
    BY <1>1, <1>2
  <2>1. R # {} => Max(R) \in 1 .. n /\ f[R \ {Max(R)}] \in V
    BY <1>1, <1>2, MaxWithin
  <2> QED
    BY <1>2, <1>3, <2>1 DEF Folded
<1> DEFINE g == CHOOSE h : Solves(h)
<1>5. Concat(s) = g[1 .. n]
  BY <1>1 DEF Concat, FoldLeft, MapThenFoldSet, next
<1>6. Solves(g)
  <2> HIDE DEF Solves
  <2> QED
    BY <1>4
<1>7. \A R \in SUBSET (1 .. n) :
         g[R] = IF R = {} THEN <<>> ELSE next(g[R \ {Max(R)}], s[Max(R)])
  <2> HIDE DEF g
  <2> QED
    BY <1>1, <1>6
<1> HIDE DEF g
<1>8. Stepwise(g, n, V, <<>>, step)
  BY <1>1, <1>3, <1>7, MaxWithin DEF Stepwise
<1>9. PICK u : Results(u, n, V, <<>>, step) /\ u[n] = g[1 .. n]
  BY <1>1, <1>8, FoldSteps
<1>10. \A k \in 1 .. n : u[k - 1] \in V
  BY <1>1, <1>9 DEF Results
<1>11. \A k \in 1 .. n : u[k] = next(u[k - 1], s[k])
  BY <1>3, <1>9, <1>10 DEF Results
<1> QED
  BY <1>5, <1>9, <1>11 DEF Results, n, V, next, Joined

LEMMA ConcatIs ==
  ASSUME NEW X, NEW s \in Seq(Seq(X))
  PROVE  Concat(s) \in Seq(X)
<1>1. PICK u : Joined(u, s, X)
  BY ConcatSteps
<1> QED
  BY <1>1, LenProperties DEF Joined

(* Counting up to n.                                                       *)
LEMMA UpTo ==
  ASSUME NEW n \in Nat, NEW Good, 0 \in Good, \A k \in 1 .. n : k - 1 \in Good => k \in Good
  PROVE  0 .. n \subseteq Good
<1> DEFINE Bad == {k \in 0 .. n : k \notin Good}
<1> SUFFICES ASSUME Bad # {}  PROVE FALSE
  OBVIOUS
<1>1. PICK k \in Bad : \A j \in Bad : k <= j
  <2>1. Bad \in SUBSET Nat
    OBVIOUS
  <2> HIDE DEF Bad
  <2> QED
    BY <2>1, LeastNatural
<1>2. k # 0 /\ k \in 1 .. n /\ k - 1 \in 0 .. n
  OBVIOUS
<1>3. k - 1 \notin Bad
  BY <1>1, <1>2
<1> QED
  BY <1>2, <1>3

(* The first l elements of s.                                              *)
Beginning(s, l) == {s[i] : i \in 1 .. l}

LEMMA Appended ==
  ASSUME NEW X, NEW s \in Seq(X), NEW x \in X
  PROVE  /\ Append(s, x) \in Seq(X) /\ Len(Append(s, x)) = Len(s) + 1
         /\ Elements(Append(s, x)) = Elements(s) \cup {x}
         /\ \A j \in 1 .. Len(s) : Append(s, x)[j] = s[j]
<1>1. /\ Append(s, x) \in Seq(X) /\ Len(Append(s, x)) = Len(s) + 1
      /\ \A j \in 1 .. Len(s) : Append(s, x)[j] = s[j]
      /\ Append(s, x)[Len(s) + 1] = x
  OBVIOUS
<1>2. DOMAIN s = 1 .. Len(s) /\ DOMAIN Append(s, x) = (1 .. Len(s)) \cup {Len(s) + 1}
  OBVIOUS
<1> QED
  BY <1>1, <1>2 DEF Elements

(* Keep keeps the elements in S,                                           *)
LEMMA KeepIs ==
  ASSUME NEW X, NEW s \in Seq(X), NEW S
  PROVE  Keep(s, S) \in Seq(X) /\ Elements(Keep(s, S)) = Elements(s) \cap S
<1> DEFINE first(k) == {s[i] : i \in 1 .. k}
<1>0. Len(s) \in Nat
  BY LenProperties
<1>1. PICK u : Kept(u, s, S, X)
  BY KeepSteps
<1> DEFINE Good == {k \in 0 .. Len(s) : Elements(u[k]) = first(k) \cap S}
<1>2. 0 \in Good
  BY <1>0, <1>1 DEF Elements, Kept
<1>3. ASSUME NEW k \in 1 .. Len(s), k - 1 \in Good  PROVE k \in Good
  <2>1. u[k - 1] \in Seq(X) /\ s[k] \in X
    BY <1>0, <1>1 DEF Kept
  <2>2. first(k) = first(k - 1) \cup {s[k]}
    <3>1. 1 .. k = (1 .. (k - 1)) \cup {k}
      OBVIOUS
    <3> QED
      BY <3>1
  <2>3. Elements(u[k]) = IF s[k] \in S THEN Elements(u[k - 1]) \cup {s[k]} ELSE Elements(u[k - 1])
    <3>1. u[k] = IF s[k] \in S THEN Append(u[k - 1], s[k]) ELSE u[k - 1]
      BY <1>1 DEF Kept
    <3>2. Elements(Append(u[k - 1], s[k])) = Elements(u[k - 1]) \cup {s[k]}
      BY <2>1, Appended
    <3> QED
      BY <3>1, <3>2
  <2>4. Elements(u[k - 1]) = first(k - 1) \cap S
    BY <1>3
  <2> HIDE DEF first
  <2> QED
    BY <2>2, <2>3, <2>4
<1>4. 0 .. Len(s) \subseteq Good
  <2> HIDE DEF Good
  <2> QED
    BY <1>0, <1>2, <1>3, UpTo
<1>5. Elements(Keep(s, S)) = first(Len(s)) \cap S
  BY <1>0, <1>1, <1>4 DEF Kept
<1>6. first(Len(s)) = Elements(s)
  BY DEF Elements
<1> QED
  BY <1>0, <1>1, <1>5, <1>6 DEF Kept

(* and UniqueOrdered all of them, those of every beginning of s before the *)
(* others.                                                                 *)
LEMMA UniqueIs ==
  ASSUME NEW X, NEW s \in Seq(X)
  PROVE  /\ UniqueOrdered(s) \in Seq(X) /\ Elements(UniqueOrdered(s)) = Elements(s)
         /\ \A m \in 0 .. Len(s) : \E l \in 0 .. Len(UniqueOrdered(s)) :
              Beginning(UniqueOrdered(s), l) = Beginning(s, m)
<1> DEFINE first(k) == {s[i] : i \in 1 .. k}
           U == UniqueOrdered(s)
<1>0. Len(s) \in Nat
  BY LenProperties
<1>1. PICK u : Met(u, s, X)
  BY UniqueSteps
<1> HIDE DEF U
<1> DEFINE Good == {k \in 0 .. Len(s) : Elements(u[k]) = first(k)}
<1>2. 0 \in Good
  BY <1>0, <1>1 DEF Elements, Met
<1>3. ASSUME NEW k \in 1 .. Len(s)
      PROVE  /\ u[k - 1] \in Seq(X) /\ u[k] \in Seq(X) /\ s[k] \in X
             /\ Elements(u[k]) = Elements(u[k - 1]) \cup {s[k]}
             /\ Len(u[k - 1]) <= Len(u[k]) /\ \A j \in 1 .. Len(u[k - 1]) : u[k][j] = u[k - 1][j]
  <2>1. u[k - 1] \in Seq(X) /\ u[k] \in Seq(X) /\ s[k] \in X
    BY <1>0, <1>1 DEF Met
  <2>2. CASE Contains(u[k - 1], s[k])
    <3>1. u[k] = u[k - 1] /\ s[k] \in Elements(u[k - 1])
      BY <1>1, <2>1, <2>2 DEF Contains, Elements, Met
    <3> QED
      BY <2>1, <3>1
  <2>3. CASE ~Contains(u[k - 1], s[k])
    <3>1. u[k] = Append(u[k - 1], s[k])
      BY <1>1, <2>3 DEF Met
    <3> QED
      BY <2>1, <3>1, Appended
  <2> QED
    BY <2>2, <2>3
<1>4. ASSUME NEW k \in 1 .. Len(s), k - 1 \in Good  PROVE k \in Good
  <2>1. first(k) = first(k - 1) \cup {s[k]}
    <3>1. 1 .. k = (1 .. (k - 1)) \cup {k}
      OBVIOUS
    <3> QED
      BY <3>1
  <2>2. Elements(u[k - 1]) = first(k - 1)
    BY <1>4
  <2>3. Elements(u[k]) = Elements(u[k - 1]) \cup {s[k]}
    BY <1>3
  <2>4. Elements(u[k]) = first(k)
    <3> HIDE DEF first
    <3> QED
      BY <2>1, <2>2, <2>3
  <2> QED
    BY <1>0, <2>4
<1>5. 0 .. Len(s) \subseteq Good
  <2> HIDE DEF Good
  <2> QED
    BY <1>0, <1>2, <1>4, UpTo
<1>6. U \in Seq(X) /\ Elements(U) = Elements(s)
  <2>1. U \in Seq(X) /\ Elements(U) = first(Len(s))
    BY <1>0, <1>1, <1>5 DEF Met, U
  <2>2. first(Len(s)) = Elements(s)
    BY DEF Elements
  <2> QED
    BY <2>1, <2>2
<1>7. ASSUME NEW m \in 0 .. Len(s)
      PROVE  \E l \in 0 .. Len(U) : {U[j] : j \in 1 .. l} = first(m)
  <2> DEFINE l == Len(u[m])
             Same == {k \in 0 .. Len(s) :
                        k >= m => l <= Len(u[k]) /\ \A j \in 1 .. l : u[k][j] = u[m][j]}
  <2>1. l \in Nat /\ \A k \in 0 .. Len(s) : Len(u[k]) \in Nat
    BY <1>0, <1>1 DEF Met
  <2>2. 0 \in Same
    <3>1. 0 >= m => m = 0
      OBVIOUS
    <3> QED
      BY <2>1, <3>1
  <2>3. ASSUME NEW k \in 1 .. Len(s), k - 1 \in Same  PROVE k \in Same
    <3>1. CASE k <= m
      <4>1. k >= m => k = m
        BY <3>1
      <4> QED
        BY <2>1, <4>1
    <3>2. CASE k > m
      <4>1. l <= Len(u[k - 1]) /\ \A j \in 1 .. l : u[k - 1][j] = u[m][j]
        BY <2>3, <3>2
      <4>2. Len(u[k - 1]) \in Nat /\ Len(u[k]) \in Nat
        BY <2>1
      <4> HIDE DEF l
      <4> QED
        BY <1>3, <2>1, <4>1, <4>2
    <3> QED
      BY <3>1, <3>2
  <2>4. Len(s) \in Same
    <3>1. 0 .. Len(s) \subseteq Same
      <4> HIDE DEF Same
      <4> QED
        BY <1>0, <2>2, <2>3, UpTo
    <3> QED
      BY <1>0, <3>1
  <2>5. l \in 0 .. Len(U) /\ \A j \in 1 .. l : U[j] = u[m][j]
    BY <1>0, <1>1, <2>1, <2>4 DEF Met, U
  <2>6. {U[j] : j \in 1 .. l} = Elements(u[m])
    <3>1. DOMAIN u[m] = 1 .. l
      BY <1>0, <1>1 DEF Met
    <3> HIDE DEF l
    <3> QED
      BY <2>5, <3>1 DEF Elements
  <2>7. Elements(u[m]) = first(m)
    BY <1>5
  <2> QED
    BY <2>5, <2>6, <2>7
<1> QED
  BY <1>6, <1>7 DEF U, Beginning

-----------------------------------------------------------------------------
(* Types.  The names of groups the program makes have the decimal numerals *)
(* of ToString in them, of which the TLC module only says what they are    *)
(* when they are printed: Targets has room for whatever they are.          *)

Words == STRING \cup {ToString(i) : i \in Nat \cup {Min({})}}
Targets == Seq(Words)
Lines == [kind : STRING, provider : STRING, target : Targets]
Resolved == [rule : CustomRules, target : Targets, creates : BOOLEAN, hasProvider : BOOLEAN]
Pending == [reserved : {R \in SUBSET Targets : IsFiniteSet(R)}, rules : Seq(Resolved)]

LEMMA TextIsTarget == Text \in SUBSET Targets
<1>1. STRING \in SUBSET Words
  BY DEF Words
<1> HIDE DEF Words
<1>2. \A t \in Seq(STRING) : t \in Seq(Words)
  BY <1>1, SeqMonotonic
<1> QED
  BY <1>2 DEF Text, Targets

LEMMA One ==
  ASSUME NEW X, NEW x \in X
  PROVE  <<x>> \in Seq(X) /\ Len(<<x>>) = 1 /\ <<x>>[1] = x /\ Elements(<<x>>) = {x}
<1>1. Len(<<x>>) = 1 /\ <<x>>[1] = x /\ DOMAIN <<x>> = 1 .. 1
  OBVIOUS
<1>2. <<x>> \in [1 .. 1 -> X]
  OBVIOUS
<1>3. <<x>> \in Seq(X)
  BY <1>2, SeqDef
<1> QED
  BY <1>1, <1>3 DEF Elements

LEMMA WordsAreText ==
  /\ Select \in Text /\ AutoSelect \in Text /\ Final \in Text /\ Direct \in Text /\ Reject \in Text
<1>1. /\ <<"select">> \in Seq(STRING) /\ <<"auto">> \in Seq(STRING)
      /\ <<"final">> \in Seq(STRING) /\ <<"DIRECT">> \in Seq(STRING)
      /\ <<"REJECT">> \in Seq(STRING)
  <2>1. /\ "select" \in STRING /\ "auto" \in STRING /\ "final" \in STRING
        /\ "DIRECT" \in STRING /\ "REJECT" \in STRING
    BY StringsAssumption
  <2> QED
    BY <2>1, One
<1> QED
  BY <1>1 DEF Select, AutoSelect, Final, Direct, Reject, Text

LEMMA MinOfSome ==
  ASSUME NEW S \in SUBSET Nat, S # {}
  PROVE  Min(S) \in S /\ \A y \in S : Min(S) <= y
<1>1. \E x \in S : \A y \in S : x <= y
  BY LeastNatural
<1> QED
  BY <1>1 DEF Min

LEMMA FiniteElements ==
  ASSUME NEW X, NEW s \in Seq(X)
  PROVE  IsFiniteSet(Elements(s)) /\ Elements(s) \in SUBSET X
<1>1. DOMAIN s = 1 .. Len(s) /\ Len(s) \in Nat
  OBVIOUS
<1>2. s \in Surjection(1 .. Len(s), Elements(s))
  BY <1>1 DEF Surjection, Elements
<1>3. IsFiniteSet(1 .. Len(s))
  BY <1>1, FS_Interval
<1>4. IsFiniteSet(Elements(s))
  BY <1>2, <1>3, FS_Surjection
<1>5. Elements(s) \in SUBSET X
  BY DEF Elements
<1> QED
  BY <1>4, <1>5

LEMMA UniqueGroupNameIs ==
  ASSUME NEW name \in Text, NEW R, IsFiniteSet(R)
  PROVE  UniqueGroupName(name, R) \in Targets
<1> DEFINE C == {i \in 2 .. Cardinality(R) + 2 : Numbered(name, i) \notin R}
<1>1. Cardinality(R) \in Nat
  BY FS_CardinalityType
<1>2. C \in SUBSET Nat
  BY <1>1
<1> HIDE DEF C
<1>3. Min(C) \in Nat \cup {Min({})}
  BY <1>2, MinOfSome
<1>4. ToString(Min(C)) \in Words
  BY <1>3 DEF Words
<1> HIDE DEF Words
<1>5. name \in Seq(Words)
  BY TextIsTarget DEF Targets
<1>6. Append(name, ToString(Min(C))) \in Seq(Words)
  BY <1>4, <1>5
<1> QED
  BY <1>5, <1>6 DEF UniqueGroupName, Numbered, Targets, C

LEMMA AliasIs ==
  ASSUME NEW t
  PROVE  Alias(Alias(t)) = Alias(t) /\ (t \in Text => Alias(t) \in Text)
         /\ (t \in Targets => Alias(t) \in Targets)
<1>1. Select # <<"PROXY">>
  BY DEF Select
<1> QED
  BY <1>1, WordsAreText, TextIsTarget DEF Alias

LEMMA ResolveOneIs ==
  ASSUME NEW acc \in Pending, NEW r \in CustomRules
  PROVE  ResolveOne(acc, r) \in Pending
<1> DEFINE name == IF CreatesGroup(r) THEN UniqueGroupName(r.label, acc.reserved)
                   ELSE Alias(r.target)
<1>1. r.label \in Text /\ r.target \in Text
  BY DEF CustomRules
<1>2. acc.reserved \in SUBSET Targets /\ IsFiniteSet(acc.reserved) /\ acc.rules \in Seq(Resolved)
  BY DEF Pending
<1>3. name \in Targets
  BY <1>1, <1>2, UniqueGroupNameIs, AliasIs, TextIsTarget
<1> HIDE DEF name
<1>4. IsFiniteSet(acc.reserved \cup {name})
  BY <1>2, FS_AddElement
<1> DEFINE one == [rule |-> r, target |-> name, creates |-> CreatesGroup(r),
                   hasProvider |-> r.source # "group_only"]
<1>5. one \in Resolved
  BY <1>3 DEF Resolved, CreatesGroup
<1> HIDE DEF one
<1>6. Append(acc.rules, one) \in Seq(Resolved)
  BY <1>2, <1>5
<1>7. ResolveOne(acc, r) =
        [reserved |-> IF CreatesGroup(r) THEN acc.reserved \cup {name} ELSE acc.reserved,
         rules |-> Append(acc.rules, one)]
  BY DEF ResolveOne, name, one
<1>8. (IF CreatesGroup(r) THEN acc.reserved \cup {name} ELSE acc.reserved)
        \in {R \in SUBSET Targets : IsFiniteSet(R)}
  BY <1>2, <1>3, <1>4
<1> QED
  BY <1>6, <1>7, <1>8 DEF Pending

(* Resolving one custom rule after the other.                              *)
Resolving(u, s, R) ==
  /\ u \in [0 .. Len(s) -> Pending]
  /\ u[0] = [reserved |-> R, rules |-> <<>>]
  /\ u[Len(s)] = FoldLeft(ResolveOne, [reserved |-> R, rules |-> <<>>], s)
  /\ \A k \in 1 .. Len(s) : u[k] = ResolveOne(u[k - 1], s[k])

LEMMA ResolveSteps ==
  ASSUME NEW s \in Seq(CustomRules), NEW taken \in SUBSET Targets, IsFiniteSet(taken)
  PROVE  \E u : Resolving(u, s, taken)
<1> DEFINE n == Len(s)
           V == Pending
           next(v, x) == ResolveOne(v, x)
           base == [reserved |-> taken, rules |-> <<>>]
           step == [p \in V \X (1 .. n) |-> next(p[1], s[p[2]])]
           Solves(g) == g = [R \in SUBSET DOMAIN s |->
                               IF R = {} THEN base ELSE next(g[R \ {Max(R)}], s[Max(R)])]
<1>1. Setting(n, V, base, step) /\ n \in Nat /\ DOMAIN s = 1 .. n
  <2>1. base \in V
    BY DEF Pending
  <2>2. \A v \in V, x \in CustomRules : next(v, x) \in V
    BY ResolveOneIs
  <2>3. n \in Nat /\ DOMAIN s = 1 .. n /\ \A k \in 1 .. n : s[k] \in CustomRules
    OBVIOUS
  <2> HIDE DEF n, next, V, base
  <2>4. step \in [V \X (1 .. n) -> V]
    BY <2>2, <2>3
  <2> HIDE DEF step
  <2> QED
    BY <2>1, <2>3, <2>4 DEF Setting
<1>2. PICK f : f \in [SUBSET (1 .. n) -> V] /\ Folded(f, 1 .. n, base, step)
  <2> HIDE DEF step, V, n, base
  <2> QED
    BY <1>1, FoldExists
<1>3. \A v \in V, k \in 1 .. n : step[<<v, k>>] = next(v, s[k])
  <2> HIDE DEF V, n, next
  <2> QED
    OBVIOUS
<1> HIDE DEF next, V, n, step, base
<1>4. \E h : Solves(h)
  <2> SUFFICES Solves(f)
    <3> HIDE DEF Solves
    <3> QED
      OBVIOUS
  <2> SUFFICES ASSUME NEW R \in SUBSET (1 .. n)
               PROVE  f[R] = IF R = {} THEN base ELSE next(f[R \ {Max(R)}], s[Max(R)])
    BY <1>1, <1>2
  <2>1. R # {} => Max(R) \in 1 .. n /\ f[R \ {Max(R)}] \in V
    BY <1>1, <1>2, MaxWithin
  <2> QED
    BY <1>2, <1>3, <2>1 DEF Folded
<1> DEFINE g == CHOOSE h : Solves(h)
<1>5. FoldLeft(ResolveOne, base, s) = g[1 .. n]
  BY <1>1 DEF FoldLeft, MapThenFoldSet, next
<1>6. Solves(g)
  <2> HIDE DEF Solves
  <2> QED
    BY <1>4
<1>7. \A R \in SUBSET (1 .. n) :
         g[R] = IF R = {} THEN base ELSE next(g[R \ {Max(R)}], s[Max(R)])
  <2> HIDE DEF g
  <2> QED
    BY <1>1, <1>6
<1> HIDE DEF g
<1>8. Stepwise(g, n, V, base, step)
  BY <1>1, <1>3, <1>7, MaxWithin DEF Stepwise
<1>9. PICK u : Results(u, n, V, base, step) /\ u[n] = g[1 .. n]
  BY <1>1, <1>8, FoldSteps
<1>10. \A k \in 1 .. n : u[k - 1] \in V
  BY <1>1, <1>9 DEF Results
<1>11. \A k \in 1 .. n : u[k] = next(u[k - 1], s[k])
  BY <1>3, <1>9, <1>10 DEF Results
<1> QED
  BY <1>5, <1>9, <1>11 DEF Results, n, V, next, base, Resolving

(* Every rule is resolved in its place, a group's name being chosen with   *)
(* more names reserved than at the start.                                  *)
AsTold(e, r, R) ==
  /\ e.rule = r /\ e.hasProvider = (r.source # "group_only")
  /\ IF CreatesGroup(r)
       THEN \E Q : IsFiniteSet(Q) /\ R \subseteq Q /\ e.target = UniqueGroupName(r.label, Q)
       ELSE e.target = Alias(r.target)

LEMMA ResolvedInPlace ==
  ASSUME NEW s \in Seq(CustomRules), NEW R \in SUBSET Targets, IsFiniteSet(R)
  PROVE  LET all == FoldLeft(ResolveOne, [reserved |-> R, rules |-> <<>>], s).rules
         IN  /\ all \in Seq(Resolved) /\ Len(all) = Len(s)
             /\ \A i \in 1 .. Len(s) : AsTold(all[i], s[i], R)
<1> DEFINE n == Len(s)
<1>0. n \in Nat /\ \A k \in 1 .. n : s[k] \in CustomRules
  OBVIOUS
<1>1. PICK u : Resolving(u, s, R)
  BY ResolveSteps
<1>2. /\ \A k \in 0 .. n : u[k] \in Pending
      /\ u[0] = [reserved |-> R, rules |-> <<>>]
      /\ \A k \in 1 .. n : u[k] = ResolveOne(u[k - 1], s[k])
  BY <1>1 DEF Resolving
<1> DEFINE Right(k) == /\ R \subseteq u[k].reserved /\ Len(u[k].rules) = k
                       /\ \A i \in 1 .. k : AsTold(u[k].rules[i], s[i], R)
           Good == {k \in 0 .. n : Right(k)}
<1>3. 0 \in Good
  BY <1>0, <1>2
<1>4. ASSUME NEW k \in 1 .. n, k - 1 \in Good  PROVE k \in Good
  <2> DEFINE acc == u[k - 1]
             r == s[k]
             name == IF CreatesGroup(r) THEN UniqueGroupName(r.label, acc.reserved)
                     ELSE Alias(r.target)
             one == [rule |-> r, target |-> name, creates |-> CreatesGroup(r),
                     hasProvider |-> r.source # "group_only"]
  <2>1. acc \in Pending /\ u[k] \in Pending /\ Right(k - 1) /\ k - 1 \in Nat
    BY <1>0, <1>2, <1>4
  <2>2. /\ u[k].rules = Append(acc.rules, one)
        /\ u[k].reserved = IF CreatesGroup(r) THEN acc.reserved \cup {name} ELSE acc.reserved
    <3>1. ResolveOne(acc, r) =
            [reserved |-> IF CreatesGroup(r) THEN acc.reserved \cup {name} ELSE acc.reserved,
             rules |-> Append(acc.rules, one)]
      BY DEF ResolveOne
    <3>2. u[k] = ResolveOne(acc, r)
      BY <1>2
    <3> HIDE DEF one, name, acc, r
    <3> QED
      BY <3>1, <3>2
  <2>3. AsTold(one, r, R)
    <3>1. IsFiniteSet(acc.reserved) /\ R \subseteq acc.reserved
      BY <2>1 DEF Pending
    <3> HIDE DEF acc, r
    <3> QED
      BY <3>1 DEF AsTold
  <2>4. acc.rules \in Seq(Resolved) /\ u[k].rules \in Seq(Resolved)
    BY <2>1 DEF Pending
  <2> HIDE DEF one, name
  <2>5. /\ Len(u[k].rules) = k /\ u[k].rules[k] = one
        /\ \A i \in 1 .. (k - 1) : u[k].rules[i] = acc.rules[i]
    BY <2>1, <2>2, <2>4
  <2>6. ASSUME NEW i \in 1 .. k  PROVE AsTold(u[k].rules[i], s[i], R)
    <3>1. CASE i = k
      BY <2>3, <2>5, <3>1
    <3>2. CASE i # k
      <4>1. i \in 1 .. (k - 1)
        BY <3>2
      <4> QED
        BY <4>1, <2>1, <2>5
    <3> QED
      BY <3>1, <3>2
  <2>7. R \subseteq u[k].reserved
    BY <2>1, <2>2
  <2> QED
    BY <2>5, <2>6, <2>7, <1>0
<1>5. n \in Good
  <2>1. 0 .. n \subseteq Good
    <3> HIDE DEF Good, n
    <3> QED
      BY <1>0, <1>3, <1>4, UpTo
  <2> QED
    BY <1>0, <2>1
<1>6. u[n].rules \in Seq(Resolved)
  BY <1>0, <1>2 DEF Pending
<1>7. u[n].rules = FoldLeft(ResolveOne, [reserved |-> R, rules |-> <<>>], s).rules
  BY <1>1 DEF Resolving
<1> QED
  BY <1>5, <1>6, <1>7

-----------------------------------------------------------------------------
(* The rules of a configuration.                                           *)

LEMMA Listed ==
  ASSUME NEW n \in Nat, NEW X, NEW f \in [1 .. n -> X]
  PROVE  f \in Seq(X) /\ Len(f) = n /\ DOMAIN f = 1 .. n
BY SeqDef

LEMMA SwitchedOnIs ==
  ASSUME NEW X, NEW s \in Seq(X)
  PROVE  SwitchedOn(s) \in Seq(X) /\ Elements(SwitchedOn(s)) = {x \in Elements(s) : x.enabled}
BY KeepIs DEF SwitchedOn

LEMMA WithKeyIs ==
  ASSUME NEW X, NEW cats \in Seq(X), NEW keys
  PROVE  WithKey(cats, keys) \in Seq(X)
BY KeepIs DEF WithKey

LEMMA EnabledIs ==
  ASSUME NEW c
  PROVE  Enabled(c) \in Seq(Categories)
BY WithKeyIs, InputsAssumption DEF Enabled

LEMMA ReservedIs ==
  ASSUME NEW c \in Configurations, NEW names \in SUBSET Targets, IsFiniteSet(names)
  PROVE  Reserved(c, names) \in SUBSET Targets /\ IsFiniteSet(Reserved(c, names))
<1>1. {Select, AutoSelect, Final} \in SUBSET Targets
  BY WordsAreText, TextIsTarget
<1>2. IsFiniteSet({Select, AutoSelect, Final})
  <2>1. IsFiniteSet({Select}) /\ IsFiniteSet({AutoSelect}) /\ IsFiniteSet({Final})
    BY FS_Singleton
  <2>2. IsFiniteSet(({Select} \cup {AutoSelect}) \cup {Final})
    BY <2>1, FS_Union
  <2>3. {Select, AutoSelect, Final} = ({Select} \cup {AutoSelect}) \cup {Final}
    OBVIOUS
  <2> QED
    BY <2>2, <2>3
<1> DEFINE cats == Enabled(c)
           groups == {cat.group : cat \in Elements(cats)}
<1>3. cats \in Seq(Categories)
  BY EnabledIs
<1>4. IsFiniteSet(groups) /\ groups \in SUBSET Targets
  <2> DEFINE f == [cat \in Elements(cats) |-> cat.group]
  <2>1. IsFiniteSet(Elements(cats)) /\ Elements(cats) \in SUBSET Categories
    BY <1>3, FiniteElements
  <2> HIDE DEF cats
  <2>2. f \in Surjection(Elements(cats), groups)
    BY DEF Surjection
  <2>3. groups \in SUBSET Text
    BY <2>1 DEF Categories
  <2> QED
    BY <2>1, <2>2, <2>3, FS_Surjection, TextIsTarget
<1>5. IsFiniteSet(Elements(Names(c.groups))) /\ Elements(Names(c.groups)) \in SUBSET Targets
  <2>1. c.groups \in Seq(CustomGroups)
    BY DEF Configurations
  <2>2. Names(c.groups) \in [1 .. Len(c.groups) -> Text] /\ Len(c.groups) \in Nat
    <3>1. Len(c.groups) \in Nat /\ DOMAIN c.groups = 1 .. Len(c.groups)
          /\ \A i \in 1 .. Len(c.groups) : c.groups[i] \in CustomGroups
      BY <2>1
    <3>2. \A g \in CustomGroups : g.name \in Text
      BY DEF CustomGroups
    <3> QED
      BY <3>1, <3>2 DEF Names
  <2>3. Names(c.groups) \in Seq(Text)
    BY <2>2, Listed
  <2> QED
    BY <2>3, FiniteElements, TextIsTarget
<1> HIDE DEF groups, cats
<1>6. Reserved(c, names) = {Select, AutoSelect, Final} \cup names \cup groups
                             \cup Elements(Names(c.groups))
  BY DEF Reserved, groups, cats
<1>7. IsFiniteSet({Select, AutoSelect, Final} \cup names \cup groups
                    \cup Elements(Names(c.groups)))
  BY <1>2, <1>4, <1>5, FS_Union
<1> QED
  BY <1>1, <1>4, <1>5, <1>6, <1>7

LEMMA ResolvedIs ==
  ASSUME NEW c \in Configurations, NEW names \in SUBSET Targets, IsFiniteSet(names)
  PROVE  /\ ResolveCustomRules(c, names) \in Seq(Resolved)
         /\ Len(ResolveCustomRules(c, names)) = Len(SwitchedOn(c.custom))
         /\ \A i \in 1 .. Len(SwitchedOn(c.custom)) :
              AsTold(ResolveCustomRules(c, names)[i], SwitchedOn(c.custom)[i],
                     Reserved(c, names))
<1>1. SwitchedOn(c.custom) \in Seq(CustomRules)
  BY SwitchedOnIs DEF Configurations
<1>2. Reserved(c, names) \in SUBSET Targets /\ IsFiniteSet(Reserved(c, names))
  BY ReservedIs
<1> QED
  BY <1>1, <1>2, ResolvedInPlace DEF ResolveCustomRules

LEMMA WithProviderIs ==
  ASSUME NEW c \in Configurations
  PROVE  /\ WithProvider(c) \in Seq(Resolved)
         /\ Elements(WithProvider(c))
              = {e \in Elements(ResolveCustomRules(c, {})) : e.hasProvider}
<1>1. {} \in SUBSET Targets /\ IsFiniteSet({})
  BY FS_EmptySet
<1>2. ResolveCustomRules(c, {}) \in Seq(Resolved)
  BY <1>1, ResolvedIs
<1> QED
  BY <1>2, KeepIs DEF WithProvider

LEMMA LineIs ==
  ASSUME NEW p \in STRING, NEW t \in Targets
  PROVE  /\ RuleSet(p, t) \in Lines /\ Match(t) \in Lines
         /\ RuleSet(p, t).provider = p /\ RuleSet(p, t).target = t
BY StringsAssumption DEF RuleSet, Match, Rule, Lines

LEMMA CustomRuleLinesAre ==
  ASSUME NEW c \in Configurations
  PROVE  /\ CustomRuleLines(c) \in Seq(Lines)
         /\ Elements(CustomRuleLines(c))
              = {RuleSet(e.rule.key, e.target) : e \in Elements(WithProvider(c))}
<1> DEFINE on == WithProvider(c)
<1>1. on \in Seq(Resolved)
  BY WithProviderIs
<1>2. Len(on) \in Nat /\ DOMAIN on = 1 .. Len(on) /\ \A i \in 1 .. Len(on) : on[i] \in Resolved
  BY <1>1
<1>3. \A e \in Resolved : RuleSet(e.rule.key, e.target) \in Lines
  BY LineIs DEF Resolved, CustomRules
<1> HIDE DEF on
<1> DEFINE f == [i \in 1 .. Len(on) |-> RuleSet(on[i].rule.key, on[i].target)]
<1>4. f \in [1 .. Len(on) -> Lines]
  BY <1>2, <1>3
<1>5. CustomRuleLines(c) = f
  BY <1>2 DEF CustomRuleLines, on
<1>6. f \in Seq(Lines) /\ DOMAIN f = 1 .. Len(on)
  BY <1>2, <1>4, Listed
<1>7. Elements(f) = {RuleSet(e.rule.key, e.target) : e \in Elements(on)}
  BY <1>2, <1>6 DEF Elements
<1> QED
  BY <1>5, <1>6, <1>7 DEF on

LEMMA AliasTargetsAre ==
  ASSUME NEW s \in Seq(Lines)
  PROVE  /\ AliasTargets(s) \in Seq(Lines)
         /\ Elements(AliasTargets(s)) = {WithAlias(e) : e \in Elements(s)}
<1>1. Len(s) \in Nat /\ DOMAIN s = 1 .. Len(s) /\ \A i \in 1 .. Len(s) : s[i] \in Lines
  OBVIOUS
<1>2. \A e \in Lines : WithAlias(e) \in Lines
  BY AliasIs DEF WithAlias, Lines
<1> DEFINE f == [i \in 1 .. Len(s) |-> WithAlias(s[i])]
<1>3. f \in [1 .. Len(s) -> Lines]
  BY <1>1, <1>2
<1>4. f \in Seq(Lines) /\ DOMAIN f = 1 .. Len(s)
  BY <1>1, <1>3, Listed
<1>5. Elements(f) = {WithAlias(e) : e \in Elements(s)}
  BY <1>1, <1>4 DEF Elements
<1>6. AliasTargets(s) = UniqueOrdered(f)
  BY <1>1 DEF AliasTargets
<1> HIDE DEF f
<1> QED
  BY <1>4, <1>5, <1>6, UniqueIs

LEMMA CategoryRulesAre ==
  ASSUME NEW cats \in Seq(Categories)
  PROVE  CategoryRules(cats) \in Seq(Lines)
<1> DEFINE of(i) == [j \in DOMAIN cats[i].rules |->
                       RuleSet(cats[i].rules[j][1], cats[i].rules[j][2])]
           all == [i \in 1 .. Len(cats) |-> of(i)]
<1>1. Len(cats) \in Nat /\ DOMAIN cats = 1 .. Len(cats)
      /\ \A i \in 1 .. Len(cats) : cats[i] \in Categories
  OBVIOUS
<1>2. ASSUME NEW i \in 1 .. Len(cats)  PROVE of(i) \in Seq(Lines)
  <2> DEFINE rules == cats[i].rules
  <2>1. rules \in Seq(STRING \X Text)
    BY <1>1 DEF Categories
  <2>2. Len(rules) \in Nat /\ DOMAIN rules = 1 .. Len(rules)
        /\ \A j \in 1 .. Len(rules) : rules[j] \in STRING \X Text
    BY <2>1
  <2>3. \A q \in STRING \X Text : RuleSet(q[1], q[2]) \in Lines
    BY LineIs, TextIsTarget
  <2> HIDE DEF rules
  <2>4. [j \in 1 .. Len(rules) |-> RuleSet(rules[j][1], rules[j][2])] \in Seq(Lines)
    BY <2>2, <2>3, Listed
  <2>5. of(i) = [j \in DOMAIN rules |-> RuleSet(rules[j][1], rules[j][2])]
    BY DEF rules
  <2> QED
    BY <2>2, <2>4, <2>5
<1>3. all \in Seq(Seq(Lines))
  <2> HIDE DEF of
  <2> QED
    BY <1>1, <1>2, Listed
<1>4. CategoryRules(cats) = Concat(all)
  BY <1>1 DEF CategoryRules
<1> HIDE DEF all
<1> QED
  BY <1>3, <1>4, ConcatIs

LEMMA CategoriesForRulesAre ==
  ASSUME NEW c
  PROVE  CategoriesForRules(c) \in Seq(Categories)
<1> DEFINE keys == FrontKeys(c)
           parts == [i \in 1 .. Len(keys) |-> WithKey(Enabled(c), {keys[i]})]
<1>1. Len(keys) \in Nat /\ DOMAIN keys = 1 .. Len(keys)
  <2> DEFINE K == {"adblock", "private", "aethersailor_direct", "game_direct"}
             direct == <<"private", "aethersailor_direct", "game_direct">>
  <2>1. direct \in [1 .. 3 -> K]
    OBVIOUS
  <2>2. direct \in Seq(K)
    BY <2>1, Listed
  <2>3. <<"adblock">> \in Seq(K) /\ <<>> \in Seq(K)
    BY One, EmptySeq
  <2> HIDE DEF direct, K
  <2>4. keys \in Seq(K)
    BY <2>2, <2>3, ConcatProperties DEF FrontKeys, direct
  <2> QED
    BY <2>4, LenProperties
<1>2. parts \in Seq(Seq(Categories))
  <2>1. \A i \in 1 .. Len(keys) : WithKey(Enabled(c), {keys[i]}) \in Seq(Categories)
    BY EnabledIs, WithKeyIs
  <2> HIDE DEF keys
  <2> QED
    BY <1>1, <2>1, Listed
<1>3. CategoriesForRules(c) = UniqueOrdered(Concat(parts) \o Enabled(c))
  BY <1>1 DEF CategoriesForRules
<1> HIDE DEF parts
<1>4. Concat(parts) \o Enabled(c) \in Seq(Categories)
  BY <1>2, ConcatIs, EnabledIs, ConcatProperties
<1> QED
  BY <1>3, <1>4, UniqueIs

LEMMA BuiltinRulesAre ==
  ASSUME NEW c
  PROVE  BuiltinRules(c) \in Seq(Lines)
<1> DEFINE first == CategoryRules(WithKey(CategoriesForRules(c), c.enabled \ {"nonstandard_port"}))
           cn == IF "domestic" \in c.enabled THEN <<RuleSet("cn", <<"domestic">>)>> ELSE <<>>
           last == CategoryRules(WithKey(CategoriesForRules(c), {"nonstandard_port"}))
<1>1. first \in Seq(Lines) /\ last \in Seq(Lines)
  <2>1. \A keys : WithKey(CategoriesForRules(c), keys) \in Seq(Categories)
    BY CategoriesForRulesAre, WithKeyIs
  <2> QED
    BY <2>1, CategoryRulesAre
<1>2. cn \in Seq(Lines)
  <2>1. "cn" \in STRING /\ "domestic" \in STRING
    BY StringsAssumption
  <2>2. <<"domestic">> \in Text
    BY <2>1, One DEF Text
  <2>3. RuleSet("cn", <<"domestic">>) \in Lines
    BY <2>1, <2>2, TextIsTarget, LineIs
  <2> QED
    BY <2>3, One, EmptySeq
<1>3. BuiltinRules(c) = first \o cn \o last
  BY DEF BuiltinRules
<1> HIDE DEF first, cn, last
<1> QED
  BY <1>1, <1>2, <1>3, ConcatProperties

LEMMA ProviderRulesAre ==
  ASSUME NEW c \in Configurations
  PROVE  ProviderRules(c) \in Seq(Lines)
<1> DEFINE on == SwitchedOn(c.providers)
<1>1. on \in Seq(RuleProviders)
  BY SwitchedOnIs DEF Configurations
<1>2. Len(on) \in Nat /\ DOMAIN on = 1 .. Len(on) /\ \A i \in 1 .. Len(on) : on[i] \in RuleProviders
  BY <1>1
<1>3. \A p \in RuleProviders : RuleSet(p.name, p.policy) \in Lines
  BY LineIs, TextIsTarget DEF RuleProviders
<1>4. ProviderRules(c) = [i \in DOMAIN on |-> RuleSet(on[i].name, on[i].policy)]
  BY DEF ProviderRules
<1> HIDE DEF on
<1> QED
  BY <1>2, <1>3, <1>4, Listed

(* The lines of a configuration begin with those of the custom rules.      *)
LEMMA BuildRulesAre ==
  ASSUME NEW c \in Configurations
  PROVE  /\ BuildRules(c) \in Seq(Lines) /\ BuildRules(c) # <<>>
         /\ \E l \in 0 .. Len(BuildRules(c)) :
              Beginning(BuildRules(c), l) = Elements(AliasTargets(CustomRuleLines(c)))
<1> DEFINE own == AliasTargets(CustomRuleLines(c))
           extra == AliasTargets(c.extra)
           user == AliasTargets(ProviderRules(c))
           builtin == BuiltinRules(c)
           all == own \o extra \o user \o builtin \o <<Match(c.final)>>
<1>1. own \in Seq(Lines)
  BY CustomRuleLinesAre, AliasTargetsAre
<1>2. extra \in Seq(Lines)
  <2>1. c.extra \in Seq(Rules)
    BY DEF Configurations
  <2>2. Rules \subseteq Lines
    BY TextIsTarget DEF Rules, Lines
  <2>3. c.extra \in Seq(Lines)
    BY <2>1, <2>2, SeqMonotonic
  <2> QED
    BY <2>3, AliasTargetsAre
<1>3. user \in Seq(Lines)
  BY ProviderRulesAre, AliasTargetsAre
<1>4. builtin \in Seq(Lines)
  BY BuiltinRulesAre
<1>5. <<Match(c.final)>> \in Seq(Lines) /\ Len(<<Match(c.final)>>) = 1
  <2>1. Match(c.final) \in Lines
    BY LineIs, TextIsTarget, StringsAssumption DEF Configurations
  <2> QED
    BY <2>1, One
<1>6. BuildRules(c) = UniqueOrdered(all)
  BY DEF BuildRules
<1> DEFINE final == <<Match(c.final)>>
<1> HIDE DEF own, extra, user, builtin, final
<1>7. all \in Seq(Lines) /\ Len(all) > 0 /\ Len(own) \in 0 .. Len(all)
      /\ \A i \in 1 .. Len(own) : all[i] = own[i]
  <2> DEFINE a == own \o extra
             b == a \o user
             d == b \o builtin
  <2>1. a \in Seq(Lines) /\ Len(a) = Len(own) + Len(extra)
        /\ \A i \in 1 .. Len(own) : a[i] = own[i]
    BY <1>1, <1>2
  <2>2. b \in Seq(Lines) /\ Len(b) = Len(a) + Len(user) /\ \A i \in 1 .. Len(a) : b[i] = a[i]
    <3> HIDE DEF a
    <3> QED
      BY <2>1, <1>3
  <2>3. d \in Seq(Lines) /\ Len(d) = Len(b) + Len(builtin) /\ \A i \in 1 .. Len(b) : d[i] = b[i]
    <3> HIDE DEF b
    <3> QED
      BY <2>2, <1>4
  <2>4. all = d \o final
    BY DEF final
  <2>5. all \in Seq(Lines) /\ Len(all) = Len(d) + 1 /\ \A i \in 1 .. Len(d) : all[i] = d[i]
    <3> HIDE DEF d, all
    <3> QED
      BY <2>3, <2>4, <1>5 DEF final
  <2>6. Len(own) \in Nat /\ Len(extra) \in Nat /\ Len(user) \in Nat /\ Len(builtin) \in Nat
    BY <1>1, <1>2, <1>3, <1>4, LenProperties
  <2> HIDE DEF a, b, d, all
  <2> QED
    BY <2>1, <2>2, <2>3, <2>5, <2>6
<1> HIDE DEF all
<1>8. Beginning(all, Len(own)) = Elements(own)
  <2>1. DOMAIN own = 1 .. Len(own)
    BY <1>1
  <2> QED
    BY <2>1, <1>7 DEF Elements, Beginning
<1>9. BuildRules(c) \in Seq(Lines) /\ Elements(BuildRules(c)) = Elements(all)
      /\ \E l \in 0 .. Len(BuildRules(c)) :
           Beginning(BuildRules(c), l) = Beginning(all, Len(own))
  <2>1. /\ UniqueOrdered(all) \in Seq(Lines) /\ Elements(UniqueOrdered(all)) = Elements(all)
        /\ \A m \in 0 .. Len(all) : \E l \in 0 .. Len(UniqueOrdered(all)) :
             Beginning(UniqueOrdered(all), l) = Beginning(all, m)
    <3>1. all \in Seq(Lines)
      BY <1>7
    <3> QED
      BY <3>1, UniqueIs
  <2>2. Len(own) \in 0 .. Len(all)
    BY <1>7
  <2> QED
    BY <1>6, <2>1, <2>2
<1>10. BuildRules(c) # <<>>
  <2>1. all[1] \in Elements(all)
    BY <1>7 DEF Elements
  <2>2. Elements(<<>>) = {}
    BY DEF Elements
  <2> QED
    BY <2>1, <2>2, <1>9
<1> QED
  BY <1>8, <1>9, <1>10 DEF own

-----------------------------------------------------------------------------
(* Types and loadable files.                                               *)

(* The configuration stays one, and strict or not, whatever a step makes   *)
(* of it.                                                                  *)
LEMMA StillConfigurations ==
  ASSUME NEW c \in Configurations
  PROVE  /\ Normalize(c) \in Configurations /\ Normalize(c).strict = c.strict
         /\ Embedded(c) \in Configurations /\ Embedded(c).strict = c.strict
         /\ ApplyTemplateMode(c) \in Configurations /\ ApplyTemplateMode(c).strict = c.strict
<1>1. c.custom \in Seq(CustomRules) /\ c.strict \in BOOLEAN
  BY DEF Configurations
<1>2. Len(c.custom) \in Nat /\ DOMAIN c.custom = 1 .. Len(c.custom)
      /\ \A i \in 1 .. Len(c.custom) : c.custom[i] \in CustomRules
  BY <1>1
<1>3. \A s \in Seq(CustomRules) : [c EXCEPT !.custom = s] \in Configurations
        /\ [c EXCEPT !.custom = s].strict = c.strict
  BY DEF Configurations
<1>4. Normalize(c) \in Configurations /\ Normalize(c).strict = c.strict
  <2>1. \A r \in CustomRules : NormalizeCustomRule(r) \in CustomRules
    <3>1. Direct \in Text /\ Reject \in Text
      BY WordsAreText
    <3> QED
      BY <3>1 DEF NormalizeCustomRule, CustomRules
  <2> DEFINE s == [i \in 1 .. Len(c.custom) |-> NormalizeCustomRule(c.custom[i])]
  <2>2. s \in Seq(CustomRules)
    BY <1>2, <2>1, Listed
  <2>3. Normalize(c) = [c EXCEPT !.custom = s]
    BY <1>2 DEF Normalize
  <2> HIDE DEF s
  <2> QED
    BY <1>3, <2>2, <2>3
<1>5. Embedded(c) \in Configurations /\ Embedded(c).strict = c.strict
  <2> DEFINE one(r) == IF r.enabled /\ r.source = "http" /\ ~r.mrs
                         THEN [r EXCEPT !.source = "inline"] ELSE r
             s == [i \in 1 .. Len(c.custom) |-> one(c.custom[i])]
  <2>1. \A r \in CustomRules : one(r) \in CustomRules
    BY StringsAssumption DEF CustomRules
  <2>2. Embedded(c) = [c EXCEPT !.custom = s]
    BY <1>2 DEF Embedded
  <2>3. s \in Seq(CustomRules)
    <3> HIDE DEF one
    <3> QED
      BY <1>2, <2>1, Listed
  <2> HIDE DEF s
  <2> QED
    BY <1>3, <2>2, <2>3
<1>6. ApplyTemplateMode(c) \in Configurations /\ ApplyTemplateMode(c).strict = c.strict
  <2>1. <<>> \in Seq(CustomRules)
    BY EmptySeq
  <2> QED
    BY <2>1, InputsAssumption DEF ApplyTemplateMode, Configurations
<1> QED
  BY <1>4, <1>5, <1>6

(* TypeOK, in every rendering.                                             *)
THEOREM TypesAreRight == Spec => []TypeOK
<1>1. Init => TypeOK
  BY InputsAssumption DEF Init, TypeOK, Elements, NoOutput
<1>2. TypeOK /\ [Next]_vars => TypeOK'
  <2> SUFFICES ASSUME TypeOK, [Next]_vars  PROVE TypeOK'
    OBVIOUS
  <2> USE DEF TypeOK, Refuse, Reach
  <2>1. CASE Save
    BY <2>1, StillConfigurations DEF Save
  <2>2. CASE BuildFinalNodes
    BY <2>2 DEF BuildFinalNodes
  <2>3. CASE SnapshotRemoteCustomRules
    <3>1. ApplyTemplateMode(Embedded(cfg)) \in Configurations
      BY StillConfigurations
    <3> QED
      BY <2>3, <3>1 DEF SnapshotRemoteCustomRules
  <2>4. CASE ValidateFinalNodes
    BY <2>4 DEF ValidateFinalNodes, Checked
  <2>5. CASE RenderMihomo
    BY <2>5 DEF RenderMihomo
  <2>6. CASE ValidateFinalConfig
    BY <2>6 DEF ValidateFinalConfig, Checked
  <2>7. CASE UNCHANGED vars
    BY <2>7 DEF vars
  <2> QED
    BY <2>1, <2>2, <2>3, <2>4, <2>5, <2>6, <2>7 DEF Next
<1> QED
  BY <1>1, <1>2, PTL DEF Spec

(* What the checks leave of it: after the lint nothing critical, and in    *)
(* strict mode nothing to warn about.                                      *)
Passed ==
  /\ stage \in {"rendered", "written"} =>
       ~Critical(out) /\ out.rules \in Seq(Lines) /\ out.rules # <<>>
  /\ cfg.strict /\ stage # "refused" => ~warned
  /\ cfg.strict /\ stage = "written" => FinalConfigIsSound(cfg, out, nodes, excluded)

LEMMA PassedIsKept ==
  TypeOK /\ Passed /\ [Next]_vars => Passed'
<1> SUFFICES ASSUME TypeOK, Passed, [Next]_vars  PROVE Passed'
  OBVIOUS
<1>1. cfg \in Configurations /\ warned \in BOOLEAN
  BY DEF TypeOK
<1>2. CASE Save
  BY <1>1, <1>2, StillConfigurations DEF Save, Passed, Refuse, Reach
<1>3. CASE BuildFinalNodes
  BY <1>3 DEF BuildFinalNodes, Passed, Refuse, Reach
<1>4. CASE SnapshotRemoteCustomRules
  <2>1. ApplyTemplateMode(Embedded(cfg)).strict = cfg.strict
    BY <1>1, StillConfigurations
  <2> QED
    BY <1>4, <2>1 DEF SnapshotRemoteCustomRules, Passed, Refuse, Reach
<1>5. CASE ValidateFinalNodes
  BY <1>1, <1>5 DEF ValidateFinalNodes, Checked, Passed, Refuse, Reach
<1>6. CASE RenderMihomo
  <2> DEFINE proxies == EnsureUnique(nodes)
             o == [proxies |-> proxies, groups |-> BuildProxyGroups(cfg, proxies),
                   providers |-> BuildRuleProviders(cfg), rules |-> BuildRules(cfg)]
  <2>1. o.rules \in Seq(Lines) /\ o.rules # <<>>
    BY <1>1, BuildRulesAre
  <2>2. /\ stage = "validated" /\ UNCHANGED <<cfg, nodes, excluded, warned>>
        /\ \/ stage' = "refused"
           \/ stage' = "rendered" /\ ~Critical(o) /\ out' = o
    BY <1>6 DEF RenderMihomo, Refuse, Reach
  <2> HIDE DEF o
  <2> QED
    BY <2>1, <2>2 DEF Passed
<1>7. CASE ValidateFinalConfig
  BY <1>1, <1>7 DEF ValidateFinalConfig, Checked, Passed, Refuse, Reach
<1>8. CASE UNCHANGED vars
  BY <1>8 DEF vars, Passed
<1> QED
  BY <1>2, <1>3, <1>4, <1>5, <1>6, <1>7, <1>8 DEF Next

LEMMA PassedFilesLoad == Passed => WrittenFilesLoad
<1> SUFFICES ASSUME Passed, stage = "written"
             PROVE  WrittenFilesLoad
  BY DEF WrittenFilesLoad
<1>1. ~Critical(out) /\ out.rules \in Seq(Lines) /\ out.rules # <<>>
  BY DEF Passed
<1>2. /\ NoDuplicates(Names(out.proxies)) /\ NoDuplicates(Names(out.groups))
      /\ \A g \in Elements(out.groups) : \A m \in Elements(g.members) : MemberResolves(out, m)
      /\ \A r \in Elements(out.rules) :
           /\ r.kind = "RULE-SET" => r.provider \in DOMAIN out.providers
           /\ r.kind # "MATCH" => TargetResolves(out, r.target)
      /\ LastMatch(out.rules) = Len(out.rules)
  BY <1>1 DEF Critical, SomeEqual
<1>3. out.rules[Len(out.rules)].kind = "MATCH"
  <2> DEFINE n == Len(out.rules)
             S == {i \in 1 .. n : out.rules[i].kind = "MATCH"} \cup {0}
  <2>1. n \in Nat /\ DOMAIN out.rules = 1 .. n /\ n # 0
    BY <1>1, EmptySeq, LenProperties
  <2>2. LastMatch(out.rules) = Max(S)
    BY <2>1 DEF LastMatch
  <2>3. S \in SUBSET (0 .. n) /\ S # {}
    BY <2>1
  <2>4. Max(S) \in S
    <3> HIDE DEF S, n
    <3> QED
      BY <2>1, <2>3, MaxOfSome
  <2> QED
    BY <1>2, <2>1, <2>2, <2>4
<1>4. ASSUME cfg.strict
      PROVE  /\ \A r \in Elements(out.rules) : TargetResolves(out, r.target)
             /\ ~warned
             /\ \A n \in Elements(out.proxies) : n.name \notin excluded
             /\ \A i \in DOMAIN out.rules : out.rules[i].kind = "MATCH" => i = Len(out.rules)
  <2>1. ~warned /\ FinalConfigIsSound(cfg, out, nodes, excluded)
    BY <1>4 DEF Passed
  <2>2. RulesAreSound(out) /\ ReferencesAreKnown(out, nodes, excluded)
    BY <2>1 DEF FinalConfigIsSound
  <2>3. \A n \in Elements(out.proxies) : n.name \notin excluded
    <3>1. Elements(Names(out.proxies)) \subseteq Elements(Names(nodes)) \ excluded
      BY <2>2 DEF ReferencesAreKnown
    <3>2. \A i \in DOMAIN out.proxies : out.proxies[i].name \in Elements(Names(out.proxies))
      BY DEF Elements, Names
    <3> QED
      BY <3>1, <3>2 DEF Elements
  <2> QED
    BY <2>1, <2>2, <2>3 DEF RulesAreSound
<1> QED
  BY <1>1, <1>2, <1>3, <1>4 DEF WrittenFilesLoad

(* A file that is written can be loaded, in every rendering: what          *)
(* RenderMihomo makes passed the lint, and nothing touches it afterwards;  *)
(* its rules are a sequence with an end, whatever the templates and the    *)
(* user's rules are, because mergeRules adds the final MATCH.              *)
THEOREM FilesLoad == Spec => []WrittenFilesLoad
<1>1. Init => TypeOK /\ Passed
  BY InputsAssumption DEF Init, TypeOK, Passed, Elements, NoOutput
<1>2. TypeOK /\ Passed /\ [Next]_vars => Passed'
  BY PassedIsKept
<1> QED
  BY <1>1, <1>2, TypesAreRight, PassedFilesLoad, PTL DEF Spec

-----------------------------------------------------------------------------
(* The user's rules are served.  Different numbers are written with        *)
(* different numerals, which the TLC module does not say of ToString.      *)

NumeralsDiffer == \A i, j \in Nat : ToString(i) = ToString(j) => i = j

LEMMA NumberedIs ==
  ASSUME NEW name \in Text, NEW i \in Nat
  PROVE  /\ name \in Seq(Words) /\ ToString(i) \in Words
         /\ Numbered(name, i) \in Targets /\ Len(Numbered(name, i)) = Len(name) + 1
         /\ Numbered(name, i)[Len(name) + 1] = ToString(i)
         /\ \A k \in 1 .. Len(name) : Numbered(name, i)[k] = name[k]
<1>1. name \in Seq(Words)
  BY TextIsTarget DEF Targets
<1>2. ToString(i) \in Words
  BY DEF Words
<1> HIDE DEF Words
<1> QED
  BY <1>1, <1>2, AppendProperties DEF Numbered, Targets

(* A group's name is new, and begins with the label.                       *)
LEMMA UniqueGroupNameIsNew ==
  ASSUME NumeralsDiffer, NEW name \in Text, NEW R, IsFiniteSet(R)
  PROVE  /\ UniqueGroupName(name, R) \notin R
         /\ \/ UniqueGroupName(name, R) = name
            \/ \E i \in Nat : UniqueGroupName(name, R) = Numbered(name, i)
<1> DEFINE n == Cardinality(R)
           C == {i \in 2 .. n + 2 : Numbered(name, i) \notin R}
<1>1. n \in Nat
  BY FS_CardinalityType
<1>2. C # {}
  <2> SUFFICES ASSUME C = {}  PROVE FALSE
    OBVIOUS
  <2> DEFINE f == [i \in 2 .. n + 2 |-> Numbered(name, i)]
  <2> HIDE DEF n
  <2>1. \A i \in 2 .. n + 2 : i \in Nat /\ Numbered(name, i) \in R
    BY <1>1
  <2>2. \A i, j \in 2 .. n + 2 : Numbered(name, i) = Numbered(name, j) => i = j
    <3>1. \A i, j \in Nat : Numbered(name, i) = Numbered(name, j) => ToString(i) = ToString(j)
      BY NumberedIs
    <3> QED
      BY <2>1, <3>1 DEF NumeralsDiffer
  <2>3. f \in [2 .. n + 2 -> R]
    BY <2>1
  <2>4. f \in Injection(2 .. n + 2, R)
    BY <2>2, <2>3 DEF Injection, IsInjective
  <2>5. Cardinality(2 .. n + 2) <= Cardinality(R)
    BY <2>4, FS_Injection
  <2>6. Cardinality(2 .. n + 2) = n + 1
    BY <1>1, FS_Interval
  <2> QED
    BY <2>5, <2>6, <1>1 DEF n
<1>3. Min(C) \in C
  <2>1. C \in SUBSET Nat
    BY <1>1
  <2> HIDE DEF C
  <2> QED
    BY <1>2, <2>1, MinOfSome
<1>4. UniqueGroupName(name, R) = IF name \notin R THEN name ELSE Numbered(name, Min(C))
  BY DEF UniqueGroupName
<1>5. Min(C) \in Nat /\ Numbered(name, Min(C)) \notin R
  BY <1>1, <1>3
<1> HIDE DEF C
<1> QED
  BY <1>4, <1>5

LEMMA OwnTargetIs ==
  ASSUME NumeralsDiffer, cfg \in Configurations, NEW r \in CustomRules, OrdinaryLabel(r.label),
         NEW e, AsTold(e, r, Reserved(cfg, {}))
  PROVE  OwnTarget(r, Alias(e.target))
<1> DEFINE l == r.label
           t == e.target
<1>1. l \in Text /\ l # <<>> /\ l # <<"PROXY">> /\ l[1] \notin {"region", "region auto"}
  BY DEF OrdinaryLabel, CustomRules
<1>2. CASE ~CreatesGroup(r)
  BY <1>2, AliasIs DEF AsTold, OwnTarget
<1>3. CASE CreatesGroup(r)
  <2>1. PICK Q : IsFiniteSet(Q) /\ Reserved(cfg, {}) \subseteq Q /\ t = UniqueGroupName(l, Q)
    BY <1>3 DEF AsTold
  <2>2. t \notin Q /\ (t = l \/ \E i \in Nat : t = Numbered(l, i))
    BY <1>1, <2>1, UniqueGroupNameIsNew
  <2>3. l \in Seq(STRING) /\ Len(l) \in Nat /\ Len(l) # 0
    BY <1>1, EmptySeq DEF Text
  <2>4. \A i \in Nat : /\ Len(Numbered(l, i)) = Len(l) + 1
                       /\ \A k \in 1 .. Len(l) : Numbered(l, i)[k] = l[k]
    <3> HIDE DEF l
    <3> QED
      BY <1>1, NumberedIs
  <2>5. Len(t) \in Nat /\ Len(t) >= Len(l) /\ \A k \in 1 .. Len(l) : t[k] = l[k]
    <3> HIDE DEF l, t
    <3> QED
      BY <2>2, <2>3, <2>4
  <2>6. t # <<"PROXY">>
    <3>1. Len(<<"PROXY">>) = 1
      OBVIOUS
    <3>2. t = l \/ Len(t) = Len(l) + 1
      <4> HIDE DEF l, t
      <4> QED
        BY <2>2, <2>4
    <3>3. CASE Len(t) = Len(l) + 1
      <4>1. Len(t) # 1
        <5> HIDE DEF l, t
        <5> QED
          BY <2>3, <3>3
      <4> HIDE DEF l, t
      <4> QED
        BY <3>1, <4>1
    <3> HIDE DEF l, t
    <3> QED
      BY <1>1, <3>2, <3>3
  <2>7. SubSeq(t, 1, Len(l)) = l
    <3> DEFINE u == SubSeq(t, 1, Len(l))
    <3>1. u \in Seq(STRING) /\ Len(u) = Len(l) /\ \A k \in 1 .. Len(l) : u[k] = t[k]
      <4>1. \A k \in 1 .. Len(l) : t[k] \in STRING
        BY <2>3, <2>5
      <4> QED
        BY <2>3, <4>1, SubSeqProperties
    <3> HIDE DEF u
    <3> QED
      BY <2>3, <2>5, <3>1, SeqEqual DEF u
  <2>8. t \notin RegionReserved(Regions)
    <3>1. t[1] \notin {"region", "region auto"}
      <4>1. 1 \in 1 .. Len(l)
        BY <2>3
      <4> HIDE DEF l, t
      <4> QED
        BY <4>1, <1>1, <2>5
    <3>2. \A tag : Region(tag)[1] = "region" /\ RegionAuto(tag)[1] = "region auto"
      BY DEF Region, RegionAuto
    <3> QED
      BY <3>1, <3>2 DEF RegionReserved
  <2>9. Reserved(cfg, RegionReserved(Regions)) = Reserved(cfg, {}) \cup RegionReserved(Regions)
    BY DEF Reserved
  <2>10. Alias(t) = t
    BY <2>6 DEF Alias
  <2> QED
    BY <1>3, <2>1, <2>2, <2>5, <2>7, <2>8, <2>9, <2>10 DEF OwnTarget
<1> QED
  BY <1>2, <1>3

(* Custom rules have keys of their own.                                    *)
KeysDiffer(c) ==
  \A r, q \in Elements(c.custom) : r.key = q.key => r = q

LEMMA ValidKeysDiffer ==
  ASSUME NEW c \in Configurations, ValidCustomRules(c.custom)
  PROVE  KeysDiffer(c)
<1> DEFINE s == c.custom
           n == Len(s)
           keys == [i \in 1 .. n |-> s[i].key]
<1>1. n \in Nat /\ DOMAIN s = 1 .. n /\ \A i \in 1 .. n : s[i] \in CustomRules
  <2>1. s \in Seq(CustomRules)
    BY DEF Configurations
  <2> HIDE DEF s
  <2> QED
    BY <2>1
<1>2. NoDuplicates(keys)
  BY <1>1 DEF ValidCustomRules
<1> HIDE DEF s, n
<1>3. keys \in [1 .. n -> STRING]
  BY <1>1 DEF CustomRules
<1>4. keys \in Surjection(1 .. n, Elements(keys))
  BY <1>3 DEF Surjection, Elements
<1>5. IsFiniteSet(1 .. n) /\ Cardinality(1 .. n) = n
  BY <1>1, FS_Interval
<1>6. Len(keys) = n
  BY <1>1, <1>3, Listed
<1>7. Cardinality(Elements(keys)) = n
  BY <1>2, <1>6 DEF NoDuplicates
<1>8. keys \in Injection(1 .. n, Elements(keys))
  <2> HIDE DEF keys
  <2> QED
    BY <1>4, <1>5, <1>7, FS_Surjection
<1>9. \A i, j \in 1 .. n : s[i].key = s[j].key => i = j
  <2>1. \A i, j \in 1 .. n : keys[i] = keys[j] => i = j
    <3> HIDE DEF keys
    <3> QED
      BY <1>3, <1>8 DEF Injection, IsInjective
  <2> QED
    BY <2>1
<1> QED
  BY <1>1, <1>9 DEF KeysDiffer, Elements, s

(* The resolved rules with a provider are the enabled ones that have one.  *)
LEMMA WithProviderAre ==
  ASSUME NEW c \in Configurations
  PROVE  /\ \A e \in Elements(WithProvider(c)) :
              e \in Resolved /\ e.rule \in Elements(c.custom)
         /\ \A r \in Elements(c.custom) : r.enabled /\ r.source # "group_only" =>
              \E e \in Elements(WithProvider(c)) : e.rule = r /\ AsTold(e, r, Reserved(c, {}))
<1> DEFINE on == SwitchedOn(c.custom)
           all == ResolveCustomRules(c, {})
<1>1. on \in Seq(CustomRules) /\ Elements(on) = {x \in Elements(c.custom) : x.enabled}
  BY SwitchedOnIs DEF Configurations
<1>2. /\ all \in Seq(Resolved) /\ Len(all) = Len(on)
      /\ \A i \in 1 .. Len(on) : AsTold(all[i], on[i], Reserved(c, {}))
  <2>1. {} \in SUBSET Targets /\ IsFiniteSet({})
    BY FS_EmptySet
  <2> QED
    BY <2>1, ResolvedIs
<1>3. Elements(WithProvider(c)) = {e \in Elements(all) : e.hasProvider}
  BY WithProviderIs
<1> HIDE DEF on, all
<1>4. /\ Len(on) \in Nat /\ DOMAIN on = 1 .. Len(on) /\ DOMAIN all = 1 .. Len(on)
      /\ \A i \in 1 .. Len(on) : all[i] \in Resolved
  BY <1>1, <1>2
<1>5. ASSUME NEW e \in Elements(WithProvider(c))
      PROVE  e \in Resolved /\ e.rule \in Elements(c.custom)
  <2>1. PICK i \in 1 .. Len(on) : e = all[i]
    BY <1>3, <1>4 DEF Elements
  <2>2. e.rule = on[i]
    BY <1>2, <2>1 DEF AsTold
  <2>3. on[i] \in Elements(on)
    BY <1>4 DEF Elements
  <2> QED
    BY <1>1, <1>4, <2>1, <2>2, <2>3
<1>6. ASSUME NEW r \in Elements(c.custom), r.enabled, r.source # "group_only"
      PROVE  \E e \in Elements(WithProvider(c)) : e.rule = r /\ AsTold(e, r, Reserved(c, {}))
  <2>1. PICK i \in 1 .. Len(on) : r = on[i]
    <3>1. r \in Elements(on)
      BY <1>1, <1>6
    <3> QED
      BY <3>1, <1>4 DEF Elements
  <2>2. AsTold(all[i], r, Reserved(c, {}))
    BY <1>2, <2>1
  <2>3. all[i].rule = r /\ all[i].hasProvider
    BY <2>2, <1>6 DEF AsTold
  <2>4. all[i] \in Elements(WithProvider(c))
    BY <1>3, <1>4, <2>3 DEF Elements
  <2> QED
    BY <2>2, <2>3, <2>4
<1> QED
  BY <1>5, <1>6

(* Its line comes after lines of custom rules only, and leads where the    *)
(* rule says.                                                              *)
LEMMA LineIsServed ==
  ASSUME NumeralsDiffer, cfg \in Configurations, NEW r \in Elements(cfg.custom),
         r.enabled, r.source # "group_only", OrdinaryLabel(r.label)
  PROVE  \E i \in DOMAIN BuildRules(cfg) :
           /\ BuildRules(cfg)[i].provider = r.key
           /\ OwnTarget(r, BuildRules(cfg)[i].target)
           /\ \A j \in 1 .. i : BuildRules(cfg)[j].provider \in {q.key : q \in Elements(cfg.custom)}
<1> DEFINE rules == BuildRules(cfg)
           own == Elements(AliasTargets(CustomRuleLines(cfg)))
           line(e) == WithAlias(RuleSet(e.rule.key, e.target))
<1>1. own = {line(e) : e \in Elements(WithProvider(cfg))}
  <2>1. CustomRuleLines(cfg) \in Seq(Lines)
        /\ Elements(CustomRuleLines(cfg))
             = {RuleSet(e.rule.key, e.target) : e \in Elements(WithProvider(cfg))}
    BY CustomRuleLinesAre
  <2>2. own = {WithAlias(x) : x \in Elements(CustomRuleLines(cfg))}
    BY <2>1, AliasTargetsAre
  <2> QED
    BY <2>1, <2>2
<1>2. \A e : line(e).provider = e.rule.key /\ line(e).target = Alias(e.target)
  BY DEF WithAlias, RuleSet, Rule
<1>3. PICK e \in Elements(WithProvider(cfg)) : e.rule = r /\ AsTold(e, r, Reserved(cfg, {}))
  BY WithProviderAre
<1>4. r \in CustomRules
  <2>1. cfg.custom \in Seq(CustomRules)
    BY DEF Configurations
  <2> QED
    BY <2>1, FiniteElements
<1>5. OwnTarget(r, Alias(e.target))
  BY <1>3, <1>4, OwnTargetIs
<1>6. \A x \in own : x.provider \in {q.key : q \in Elements(cfg.custom)}
  <2>1. \A d \in Elements(WithProvider(cfg)) : d.rule \in Elements(cfg.custom)
    BY WithProviderAre
  <2> HIDE DEF line
  <2> QED
    BY <1>1, <1>2, <2>1
<1>7. PICK l \in 0 .. Len(rules) : Beginning(rules, l) = own
  BY BuildRulesAre
<1>8. DOMAIN rules = 1 .. Len(rules) /\ Len(rules) \in Nat
  BY BuildRulesAre
<1> HIDE DEF rules, own, line
<1>9. PICK i \in 1 .. l : rules[i] = line(e)
  BY <1>1, <1>3, <1>7 DEF Beginning
<1>10. \A j \in 1 .. i : rules[j] \in own
  BY <1>7, <1>9 DEF Beginning
<1>11. rules[i].provider = r.key /\ rules[i].target = Alias(e.target)
  BY <1>2, <1>3, <1>9
<1>12. i \in DOMAIN rules
  BY <1>8, <1>9
<1> QED
  BY <1>5, <1>6, <1>10, <1>11, <1>12 DEF rules

Providers == [name : STRING, owner : STRING, path : Text, badShape : BOOLEAN]

LEMMA Two ==
  ASSUME NEW X, NEW x \in X, NEW y \in X
  PROVE  <<x, y>> \in Seq(X)
<1>1. <<x, y>> \in [1 .. 2 -> X]
  OBVIOUS
<1> QED
  BY <1>1, Listed

LEMMA CatalogProvidersAre ==
  ASSUME NEW c
  PROVE  CatalogProviders(c) \in Seq(Providers)
<1> DEFINE cats == Enabled(c)
           one(name) == Provider(name, "catalog", <<"ruleset", name>>, FALSE)
           of(i) == [j \in DOMAIN cats[i].providers |-> one(cats[i].providers[j])]
           all == [i \in 1 .. Len(cats) |-> of(i)]
<1>1. Len(cats) \in Nat /\ DOMAIN cats = 1 .. Len(cats)
      /\ \A i \in 1 .. Len(cats) : cats[i] \in Categories
  BY EnabledIs
<1>2. \A name \in STRING : one(name) \in Providers
  <2>1. \A name \in STRING : <<"ruleset", name>> \in Text
    BY Two, StringsAssumption DEF Text
  <2> QED
    BY <2>1, StringsAssumption DEF Provider, Providers
<1>3. CatalogProviders(c) = Concat(all)
  BY <1>1 DEF CatalogProviders
<1> HIDE DEF one, cats
<1>4. ASSUME NEW i \in 1 .. Len(cats)  PROVE of(i) \in Seq(Providers)
  <2> DEFINE names == cats[i].providers
  <2>1. names \in Seq(STRING)
    BY <1>1 DEF Categories
  <2>2. Len(names) \in Nat /\ DOMAIN names = 1 .. Len(names)
        /\ \A j \in 1 .. Len(names) : names[j] \in STRING
    BY <2>1
  <2>3. of(i) = [j \in DOMAIN names |-> one(names[j])]
    OBVIOUS
  <2> HIDE DEF names, of
  <2> QED
    BY <1>2, <2>2, <2>3, Listed
<1>5. all \in Seq(Seq(Providers))
  <2> HIDE DEF of
  <2> QED
    BY <1>1, <1>4, Listed
<1> HIDE DEF all
<1> QED
  BY <1>3, <1>5, ConcatIs

(* The provider of its key is its own: it comes last, and no other custom  *)
(* rule has the key.                                                       *)
LEMMA ProviderIsServed ==
  ASSUME NEW c \in Configurations, KeysDiffer(c), NEW r \in Elements(c.custom),
         r.enabled, r.source # "group_only"
  PROVE  /\ BuildRuleProviders(c)[r.key].owner = "custom"
         /\ BuildRuleProviders(c)[r.key].path = CustomPath(r)
<1> DEFINE users == SwitchedOn(c.providers)
           on == WithProvider(c)
           a == CatalogProviders(c)
           b == [i \in DOMAIN users |-> Provider(users[i].name, "provider",
                   IF users[i].path = <<>> THEN <<"rule-providers", users[i].name>>
                   ELSE users[i].path, users[i].badShape)]
           d == [i \in DOMAIN on |->
                   Provider(on[i].rule.key, "custom", CustomPath(on[i].rule), FALSE)]
           all == a \o b \o d
<1>1. a \in Seq(Providers)
  BY CatalogProvidersAre
<1>2. b \in Seq(Providers)
  <2>1. users \in Seq(RuleProviders)
    BY SwitchedOnIs DEF Configurations
  <2> DEFINE one(p) == Provider(p.name, "provider",
                         IF p.path = <<>> THEN <<"rule-providers", p.name>> ELSE p.path,
                         p.badShape)
  <2>2. \A p \in RuleProviders : one(p) \in Providers
    <3>1. \A p \in RuleProviders : <<"rule-providers", p.name>> \in Text
      BY Two, StringsAssumption DEF RuleProviders, Text
    <3> QED
      BY <3>1, StringsAssumption DEF Provider, Providers, RuleProviders
  <2>3. Len(users) \in Nat /\ DOMAIN users = 1 .. Len(users)
        /\ \A i \in 1 .. Len(users) : users[i] \in RuleProviders
    BY <2>1
  <2>4. b = [i \in DOMAIN users |-> one(users[i])]
    OBVIOUS
  <2> HIDE DEF b, one, users
  <2> QED
    BY <2>2, <2>3, <2>4, Listed
<1>3. /\ Len(on) \in Nat /\ DOMAIN on = 1 .. Len(on)
      /\ \A i \in 1 .. Len(on) : on[i] \in Elements(on) /\ on[i].rule \in Elements(c.custom)
  <2>1. on \in Seq(Resolved)
    BY WithProviderIs
  <2>2. Len(on) \in Nat /\ DOMAIN on = 1 .. Len(on)
    BY <2>1
  <2>3. \A i \in 1 .. Len(on) : on[i] \in Elements(on)
    BY <2>2 DEF Elements
  <2> QED
    BY <2>2, <2>3, WithProviderAre
<1>4. \A q \in Elements(c.custom) : q \in CustomRules
  <2>1. c.custom \in Seq(CustomRules)
    BY DEF Configurations
  <2> QED
    BY <2>1, FiniteElements
<1>5. d \in Seq(Providers) /\ Len(d) = Len(on)
  <2> DEFINE one(q) == Provider(q.key, "custom", CustomPath(q), FALSE)
  <2>1. \A q \in CustomRules : one(q) \in Providers
    <3>1. \A q \in CustomRules : CustomPath(q) \in Text
      <4>1. <<>> \in Text
        BY EmptySeq DEF Text
      <4>2. \A q \in CustomRules : q.path \in Text /\ <<"ruleset", q.key>> \in Text
        BY Two, StringsAssumption DEF CustomRules, Text
      <4> QED
        BY <4>1, <4>2 DEF CustomPath
    <3> QED
      BY <3>1, StringsAssumption DEF Provider, Providers, CustomRules
  <2>2. d = [i \in DOMAIN on |-> one(on[i].rule)]
    OBVIOUS
  <2> HIDE DEF d, one, on
  <2> QED
    BY <1>3, <1>4, <2>1, <2>2, Listed
<1>6. \A i \in 1 .. Len(on) :
        /\ d[i].name = on[i].rule.key /\ d[i].owner = "custom"
        /\ d[i].path = CustomPath(on[i].rule)
  <2> HIDE DEF on
  <2> QED
    BY <1>3 DEF Provider
<1>7. BuildRuleProviders(c) = ByName(all)
  BY DEF BuildRuleProviders
<1>8. PICK k \in 1 .. Len(on) : on[k].rule = r
  <2>1. PICK e \in Elements(on) : e.rule = r
    BY WithProviderAre
  <2> HIDE DEF on
  <2> QED
    BY <2>1, <1>3 DEF Elements
<1> DEFINE m == Len(a) + Len(b)
<1> HIDE DEF users, on, a, b, d
<1>9. /\ m \in Nat /\ Len(all) = m + Len(on) /\ DOMAIN all = 1 .. (m + Len(on))
      /\ \A i \in 1 .. Len(on) : all[m + i] = d[i]
  <2>1. a \o b \in Seq(Providers) /\ Len(a \o b) = m /\ m \in Nat
    BY <1>1, <1>2
  <2>2. all \in Seq(Providers) /\ Len(all) = m + Len(on)
        /\ \A i \in 1 .. Len(on) : all[m + i] = d[i]
    <3> DEFINE n == Len(on)
    <3>1. n \in Nat /\ m \in Nat
      BY <1>3, <2>1
    <3> HIDE DEF m, n
    <3>2. \A i \in 1 .. n : m + i \in 1 .. (m + n) /\ ~(m + i <= m) /\ (m + i) - m = i
      BY <3>1
    <3>3. /\ all \in Seq(Providers) /\ Len(all) = m + n
          /\ \A i \in 1 .. (m + n) : all[i] = IF i <= m THEN (a \o b)[i] ELSE d[i - m]
      <4>1. d \in Seq(Providers) /\ Len(d) = n
        BY <1>5 DEF n
      <4> DEFINE ab == a \o b
      <4>2. ab \in Seq(Providers) /\ Len(ab) = m
        BY <2>1
      <4> HIDE DEF ab
      <4>3. /\ ab \o d \in Seq(Providers) /\ Len(ab \o d) = m + n
            /\ \A i \in 1 .. (m + n) : (ab \o d)[i] = IF i <= m THEN ab[i] ELSE d[i - m]
        BY <4>1, <4>2, ConcatProperties
      <4> QED
        BY <4>3 DEF ab
    <3> HIDE DEF all
    <3>4. \A i \in 1 .. n : all[m + i] = d[i]
      BY <3>2, <3>3
    <3> QED
      BY <3>3, <3>4 DEF n
  <2> HIDE DEF all, m
  <2> QED
    BY <2>1, <2>2, LenProperties
<1> DEFINE S == {i \in DOMAIN all : all[i].name = r.key}
<1> HIDE DEF all, m
<1>10. m + k \in S
  <2>1. all[m + k] = d[k] /\ d[k].name = r.key
    BY <1>6, <1>8, <1>9
  <2>2. m + k \in DOMAIN all
    BY <1>3, <1>8, <1>9
  <2> QED
    BY <2>1, <2>2
<1>11. Max(S) \in S /\ Max(S) >= m + k
  <2>1. S \in SUBSET (0 .. m + Len(on)) /\ m + Len(on) \in Nat
    BY <1>3, <1>9
  <2> HIDE DEF S
  <2> QED
    BY <1>10, <2>1, MaxOfSome
<1>12. PICK i \in 1 .. Len(on) : Max(S) = m + i
  <2>1. Max(S) \in 1 .. m + Len(on)
    BY <1>9, <1>11
  <2>2. Max(S) - m \in 1 .. Len(on) /\ Max(S) = m + (Max(S) - m)
    <3> HIDE DEF S
    <3> QED
      BY <1>3, <1>8, <1>9, <1>11, <2>1
  <2> QED
    BY <2>2
<1>13. on[i].rule = r
  <2>1. all[Max(S)].name = r.key
    BY <1>11
  <2>2. on[i].rule.key = r.key
    <3> HIDE DEF S
    <3> QED
      BY <1>6, <1>9, <1>12, <2>1
  <2> QED
    BY <1>3, <2>2 DEF KeysDiffer
<1>14. BuildRuleProviders(c)[r.key] = all[Max(S)]
  <2>1. r.key \in Elements(Names(all))
    <3>1. Names(all)[m + k] = r.key /\ m + k \in DOMAIN Names(all)
      BY <1>10 DEF Names
    <3> QED
      BY <3>1 DEF Elements
  <2> QED
    BY <1>7, <2>1 DEF ByName, LastNamed
<1>15. all[Max(S)] = d[i]
  <2> HIDE DEF S
  <2> QED
    BY <1>9, <1>12
<1> HIDE DEF S
<1> QED
  BY <1>6, <1>13, <1>14, <1>15

LEMMA KeysStillDiffer ==
  ASSUME NEW c \in Configurations, KeysDiffer(c)
  PROVE  KeysDiffer(ApplyTemplateMode(Embedded(c)))
<1> DEFINE one(r) == IF r.enabled /\ r.source = "http" /\ ~r.mrs
                       THEN [r EXCEPT !.source = "inline"] ELSE r
<1>1. c.custom \in Seq(CustomRules)
  BY DEF Configurations
<1>2. \A r \in CustomRules : one(r).key = r.key
  BY DEF CustomRules
<1>3. Embedded(c).custom = [i \in DOMAIN c.custom |-> one(c.custom[i])]
  BY DEF Embedded, Configurations
<1> HIDE DEF one
<1>4. Elements(Embedded(c).custom) = {one(r) : r \in Elements(c.custom)}
  BY <1>3 DEF Elements
<1>5. \A r \in Elements(c.custom) : one(r).key = r.key
  BY <1>1, <1>2, FiniteElements
<1>6. KeysDiffer(Embedded(c))
  BY <1>4, <1>5 DEF KeysDiffer
<1>7. Embedded(c) \in Configurations
  BY StillConfigurations
<1> DEFINE e == Embedded(c)
<1> HIDE DEF e
<1>8. ApplyTemplateMode(e).custom = e.custom \/ ApplyTemplateMode(e).custom = <<>>
  BY <1>7 DEF ApplyTemplateMode, Configurations, e
<1> QED
  BY <1>6, <1>8 DEF KeysDiffer, Elements, e

(* What the checks do not look at: the file is the one that was made from  *)
(* the configuration, whose custom rules have different keys.              *)
Made ==
  /\ stage \in {"rendered", "written"} =>
       out.rules = BuildRules(cfg) /\ out.providers = BuildRuleProviders(cfg)
  /\ stage \notin {"submitted", "refused"} => KeysDiffer(cfg)

LEMMA MadeIsKept ==
  TypeOK /\ Made /\ [Next]_vars => Made'
<1> SUFFICES ASSUME TypeOK, Made, [Next]_vars  PROVE Made'
  OBVIOUS
<1>1. cfg \in Configurations
  BY DEF TypeOK
<1>2. CASE Save
  <2>1. Valid(Normalize(cfg)) => KeysDiffer(Normalize(cfg))
    BY <1>1, StillConfigurations, ValidKeysDiffer DEF Valid
  <2> QED
    BY <1>2, <2>1 DEF Save, Made, Refuse, Reach
<1>3. CASE BuildFinalNodes
  BY <1>3 DEF BuildFinalNodes, Made, Refuse, Reach
<1>4. CASE SnapshotRemoteCustomRules
  <2>1. KeysDiffer(cfg) => KeysDiffer(ApplyTemplateMode(Embedded(cfg)))
    BY <1>1, KeysStillDiffer
  <2> QED
    BY <1>4, <2>1 DEF SnapshotRemoteCustomRules, Made, Refuse, Reach
<1>5. CASE ValidateFinalNodes
  BY <1>5 DEF ValidateFinalNodes, Checked, Made, Refuse, Reach
<1>6. CASE RenderMihomo
  BY <1>6 DEF RenderMihomo, Made, Refuse, Reach
<1>7. CASE ValidateFinalConfig
  BY <1>7 DEF ValidateFinalConfig, Checked, Made, Refuse, Reach
<1>8. CASE UNCHANGED vars
  BY <1>8 DEF vars, Made
<1> QED
  BY <1>2, <1>3, <1>4, <1>5, <1>6, <1>7, <1>8 DEF Next

LEMMA MadeFilesServe ==
  ASSUME NumeralsDiffer, TypeOK, Made
  PROVE  CustomRulesAreServed
<1> SUFFICES ASSUME stage = "written", NEW r \in Elements(cfg.custom),
                    r.enabled, r.source # "group_only", OrdinaryLabel(r.label)
             PROVE  Served(r)
  BY DEF CustomRulesAreServed
<1>1. cfg \in Configurations /\ KeysDiffer(cfg)
      /\ out.rules = BuildRules(cfg) /\ out.providers = BuildRuleProviders(cfg)
  BY DEF TypeOK, Made
<1>2. \E i \in DOMAIN out.rules :
        /\ out.rules[i].provider = r.key /\ OwnTarget(r, out.rules[i].target)
        /\ \A j \in 1 .. i : out.rules[j].provider \in {q.key : q \in Elements(cfg.custom)}
  BY <1>1, LineIsServed
<1>3. out.providers[r.key].owner = "custom" /\ out.providers[r.key].path = CustomPath(r)
  BY <1>1, ProviderIsServed
<1> QED
  BY <1>2, <1>3 DEF Served

(* The rules a user adds are served, in every rendering of every           *)
(* configuration and catalog: their lines come first, lead where they      *)
(* say, and refer to providers of their own.                               *)
THEOREM RulesAreServed ==
  ASSUME NumeralsDiffer
  PROVE  Spec => []CustomRulesAreServed
<1>1. Init => Made
  BY DEF Init, Made
<1>2. TypeOK /\ Made /\ [Next]_vars => Made'
  BY MadeIsKept
<1>3. TypeOK /\ Made => CustomRulesAreServed
  BY MadeFilesServe
<1> QED
  BY <1>1, <1>2, <1>3, TypesAreRight, PTL DEF Spec

-----------------------------------------------------------------------------
(* Lists and their elements.                                               *)

IsList(s) == s \in Seq(Elements(s))

LEMMA ListOf ==
  ASSUME NEW X, NEW s \in Seq(X)
  PROVE  IsList(s) /\ Elements(s) \in SUBSET X
<1>1. Len(s) \in Nat /\ s \in [1 .. Len(s) -> Elements(s)]
  BY DEF Elements
<1>2. s \in Seq(Elements(s))
  BY <1>1, Listed
<1>3. Elements(s) \in SUBSET X
  BY DEF Elements
<1> QED
  BY <1>2, <1>3 DEF IsList

LEMMA ListIs ==
  ASSUME NEW s, IsList(s)
  PROVE  /\ Len(s) \in Nat /\ DOMAIN s = 1 .. Len(s)
         /\ s = <<>> <=> Elements(s) = {}
<1>1. s \in Seq(Elements(s))
  BY DEF IsList
<1>2. Len(s) \in Nat /\ DOMAIN s = 1 .. Len(s)
  BY <1>1
<1>3. s = <<>> => Elements(s) = {}
  BY <1>2 DEF Elements
<1>4. Elements(s) = {} => s = <<>>
  <2> HAVE Elements(s) = {}
  <2>1. DOMAIN s = {}
    BY DEF Elements
  <2>2. Len(s) = 0
    BY <1>2, <2>1
  <2> QED
    BY <1>1, <2>2
<1> QED
  BY <1>2, <1>3, <1>4

(* A list has a list of what becomes of its elements.                      *)
LEMMA Mapped ==
  ASSUME NEW n \in Nat, NEW f, f = [i \in 1 .. n |-> f[i]]
  PROVE  /\ IsList(f) /\ Len(f) = n /\ DOMAIN f = 1 .. n
         /\ Elements(f) = {f[i] : i \in 1 .. n}
<1>1. DOMAIN f = 1 .. n
  OBVIOUS
<1>2. Elements(f) = {f[i] : i \in 1 .. n}
  BY <1>1 DEF Elements
<1>3. f \in [1 .. n -> Elements(f)]
  BY <1>2
<1>4. f \in Seq(Elements(f)) /\ Len(f) = n
  BY <1>3, Listed
<1> QED
  BY <1>1, <1>2, <1>4 DEF IsList

LEMMA ListsJoined ==
  ASSUME NEW s, NEW t, IsList(s), IsList(t)
  PROVE  IsList(s \o t) /\ Elements(s \o t) = Elements(s) \cup Elements(t)
<1> DEFINE X == Elements(s) \cup Elements(t)
<1>1. s \in Seq(Elements(s)) /\ t \in Seq(Elements(t))
  BY DEF IsList
<1>2. s \in Seq(X) /\ t \in Seq(X)
  <2>1. Elements(s) \in SUBSET X /\ Elements(t) \in SUBSET X
    OBVIOUS
  <2> HIDE DEF X
  <2> QED
    BY <1>1, <2>1, SeqMonotonic
<1>3. s \o t \in Seq(X)
  <2> HIDE DEF X
  <2> QED
    BY <1>2
<1>4. IsList(s \o t) /\ Elements(s \o t) \in SUBSET X
  <2> HIDE DEF X
  <2> QED
    BY <1>3, ListOf
<1>5. /\ Len(s \o t) = Len(s) + Len(t)
      /\ \A i \in 1 .. Len(s) : (s \o t)[i] = s[i]
      /\ \A i \in 1 .. Len(t) : (s \o t)[Len(s) + i] = t[i]
      /\ DOMAIN s = 1 .. Len(s) /\ DOMAIN t = 1 .. Len(t) /\ Len(s) \in Nat /\ Len(t) \in Nat
      /\ DOMAIN (s \o t) = 1 .. Len(s \o t)
  <2> HIDE DEF X
  <2>1. /\ DOMAIN s = 1 .. Len(s) /\ DOMAIN t = 1 .. Len(t) /\ Len(s) \in Nat /\ Len(t) \in Nat
        /\ DOMAIN (s \o t) = 1 .. Len(s \o t)
    BY <1>2, <1>3
  <2>2. /\ Len(s \o t) = Len(s) + Len(t)
        /\ \A i \in 1 .. Len(s) : (s \o t)[i] = s[i]
        /\ \A i \in 1 .. Len(t) : (s \o t)[Len(s) + i] = t[i]
    BY <1>2, <2>1
  <2> QED
    BY <2>1, <2>2
<1>6. \A x \in Elements(s) : x \in Elements(s \o t)
  BY <1>5 DEF Elements
<1>7. \A i \in 1 .. Len(t) : Len(s) + i \in 1 .. Len(s \o t)
  BY <1>5
<1>8. \A x \in Elements(t) : x \in Elements(s \o t)
  BY <1>5, <1>7 DEF Elements
<1> QED
  BY <1>4, <1>6, <1>8

LEMMA ListKept ==
  ASSUME NEW s, IsList(s), NEW S
  PROVE  IsList(Keep(s, S)) /\ Elements(Keep(s, S)) = Elements(s) \cap S
BY KeepIs, ListOf DEF IsList

LEMMA ListUnique ==
  ASSUME NEW s, IsList(s)
  PROVE  IsList(UniqueOrdered(s)) /\ Elements(UniqueOrdered(s)) = Elements(s)
BY UniqueIs, ListOf DEF IsList

LEMMA ListNames ==
  ASSUME NEW s, IsList(s)
  PROVE  IsList(Names(s)) /\ Elements(Names(s)) = {x.name : x \in Elements(s)}
<1>1. Len(s) \in Nat /\ DOMAIN s = 1 .. Len(s)
  BY ListIs
<1>2. Names(s) = [i \in 1 .. Len(s) |-> s[i].name]
  BY <1>1 DEF Names
<1>3. IsList(Names(s)) /\ Elements(Names(s)) = {Names(s)[i] : i \in 1 .. Len(s)}
  BY <1>1, <1>2, Mapped
<1>4. {Names(s)[i] : i \in 1 .. Len(s)} = {x.name : x \in Elements(s)}
  BY <1>1, <1>2 DEF Elements
<1> QED
  BY <1>3, <1>4

(* Concat has the elements of all parts.                                   *)
LEMMA ConcatHas ==
  ASSUME NEW X, NEW s \in Seq(Seq(X))
  PROVE  /\ IsList(Concat(s))
         /\ Elements(Concat(s)) = UNION {Elements(s[i]) : i \in 1 .. Len(s)}
<1> DEFINE some(k) == UNION {Elements(s[i]) : i \in 1 .. k}
<1>0. Len(s) \in Nat
  BY LenProperties
<1>1. PICK u : Joined(u, s, X)
  BY ConcatSteps
<1> DEFINE Good == {k \in 0 .. Len(s) : Elements(u[k]) = some(k)}
<1>2. 0 \in Good
  <2>1. 1 .. 0 = {}
    OBVIOUS
  <2>2. Elements(<<>>) = {}
    BY DEF Elements
  <2> QED
    BY <1>0, <1>1, <2>1, <2>2 DEF Joined
<1>3. ASSUME NEW k \in 1 .. Len(s), k - 1 \in Good  PROVE k \in Good
  <2>1. u[k - 1] \in Seq(X) /\ s[k] \in Seq(X) /\ u[k] = u[k - 1] \o s[k]
    <3> DEFINE V == Seq(X)
    <3>1. u \in [0 .. Len(s) -> V] /\ s \in Seq(V) /\ u[k] = u[k - 1] \o s[k]
      BY <1>1 DEF Joined
    <3>2. k - 1 \in 0 .. Len(s)
      BY <1>0
    <3> HIDE DEF V
    <3>3. u[k - 1] \in V
      BY <3>1, <3>2
    <3>4. s[k] \in V
      BY <3>1
    <3> QED
      BY <3>1, <3>3, <3>4 DEF V
  <2>2. some(k) = some(k - 1) \cup Elements(s[k])
    <3>1. 1 .. k = (1 .. (k - 1)) \cup {k}
      OBVIOUS
    <3> QED
      BY <3>1
  <2>3. Elements(u[k]) = Elements(u[k - 1]) \cup Elements(s[k])
    BY <2>1, ListOf, ListsJoined
  <2>4. Elements(u[k - 1]) = some(k - 1)
    BY <1>3
  <2>5. Elements(u[k]) = some(k)
    <3> HIDE DEF some
    <3> QED
      BY <2>2, <2>3, <2>4
  <2> QED
    BY <2>5
<1>4. 0 .. Len(s) \subseteq Good
  <2> HIDE DEF Good
  <2> QED
    BY <1>0, <1>2, <1>3, UpTo
<1>5. Elements(Concat(s)) = some(Len(s))
  BY <1>0, <1>1, <1>4 DEF Joined
<1>6. IsList(Concat(s))
  BY ConcatIs, ListOf
<1> QED
  BY <1>5, <1>6

LEMMA Three ==
  ASSUME NEW x, NEW y, NEW z
  PROVE  IsList(<<x, y, z>>) /\ Elements(<<x, y, z>>) = {x, y, z}
<1>1. <<x, y, z>> \in Seq({x, y, z})
  OBVIOUS
<1>2. DOMAIN <<x, y, z>> = {1, 2, 3}
  OBVIOUS
<1>3. Elements(<<x, y, z>>) = {x, y, z}
  BY <1>2 DEF Elements
<1> QED
  BY <1>1, <1>3 DEF IsList

LEMMA Pair ==
  ASSUME NEW x, NEW y
  PROVE  IsList(<<x, y>>) /\ Elements(<<x, y>>) = {x, y}
<1>1. <<x, y>> \in Seq({x, y})
  OBVIOUS
<1>2. DOMAIN <<x, y>> = {1, 2}
  OBVIOUS
<1>3. Elements(<<x, y>>) = {x, y}
  BY <1>2 DEF Elements
<1> QED
  BY <1>1, <1>3 DEF IsList

LEMMA Single ==
  ASSUME NEW x
  PROVE  IsList(<<x>>) /\ Elements(<<x>>) = {x}
BY One, ListOf

LEMMA EmptyIsList == IsList(<<>>) /\ Elements(<<>>) = {}
<1>1. Elements(<<>>) = {}
  BY DEF Elements
<1> QED
  BY <1>1 DEF IsList

-----------------------------------------------------------------------------
(* What the groups of a file refer to.                                     *)

(* The nodes the renderer takes for real ones, and the regions they are in.*)
RealNodes(c, proxies) == Keep(proxies, {n \in Elements(proxies) : ~RendererInfoNode(c, n)})
NodeNames(proxies) == {n.name : n \in Elements(proxies)}

(* The names of the groups that test their members, of the regions, and of *)
(* what is no group.                                                       *)
Tested(regular, tags) ==
  (IF regular = <<>> THEN {} ELSE {AutoSelect}) \cup {RegionAuto(t) : t \in Elements(tags)}
OfRegions(tags) == {Region(t) : t \in Elements(tags)}
Ends(regular) == Builtin \cup NodeNames(regular)

LEMMA RegionNamesAre ==
  ASSUME NEW tags, IsList(tags)
  PROVE  IsList(RegionNames(tags)) /\ Elements(RegionNames(tags)) = OfRegions(tags)
<1>1. Len(tags) \in Nat /\ DOMAIN tags = 1 .. Len(tags)
  BY ListIs
<1>2. RegionNames(tags) = [i \in 1 .. Len(tags) |-> Region(tags[i])]
  BY <1>1 DEF RegionNames
<1>3. IsList(RegionNames(tags))
      /\ Elements(RegionNames(tags)) = {RegionNames(tags)[i] : i \in 1 .. Len(tags)}
  BY <1>1, <1>2, Mapped
<1>4. {RegionNames(tags)[i] : i \in 1 .. Len(tags)} = OfRegions(tags)
  BY <1>1, <1>2 DEF OfRegions, Elements
<1> QED
  BY <1>3, <1>4

LEMMA MembersAre ==
  ASSUME NEW regular, IsList(regular), NEW tag
  PROVE  IsList(MembersOf(regular, tag)) /\ Elements(MembersOf(regular, tag)) \subseteq NodeNames(regular)
<1> DEFINE inside == Keep(regular, {n \in Elements(regular) : n.region = tag})
<1>1. IsList(inside) /\ Elements(inside) \subseteq Elements(regular)
  BY ListKept
<1> HIDE DEF inside
<1>2. IsList(Names(inside)) /\ Elements(Names(inside)) \subseteq NodeNames(regular)
  BY <1>1, ListNames DEF NodeNames
<1>3. MembersOf(regular, tag) = UniqueOrdered(Names(inside))
  BY DEF MembersOf, inside
<1> QED
  BY <1>2, <1>3, ListUnique

(* A service's group refers to the groups of the program and to nodes.     *)
LEMMA ServiceMembersAre ==
  ASSUME NEW regular, IsList(regular), NEW tags, IsList(tags), NEW c, NEW key
  PROVE  /\ IsList(ServiceMembers(c, key, regular, tags))
         /\ Elements(ServiceMembers(c, key, regular, tags))
              \subseteq Tested(regular, tags) \cup OfRegions(tags) \cup {Select} \cup Ends(regular)
<1> DEFINE some == IfAny(regular, <<AutoSelect>>)
           names == IF c.full THEN Names(regular) ELSE <<>>
           S == Tested(regular, tags) \cup OfRegions(tags) \cup {Select} \cup Ends(regular)
<1>1. IsList(some) /\ Elements(some) \subseteq S
  BY Single, EmptyIsList DEF IfAny, Tested
<1>2. IsList(names) /\ Elements(names) \subseteq S
  BY ListNames, EmptyIsList DEF Ends, NodeNames
<1>3. IsList(RegionNames(tags)) /\ Elements(RegionNames(tags)) \subseteq S
  BY RegionNamesAre
<1>4. {Select, Direct, Reject} \subseteq S
  BY DEF Ends, Builtin
<1>5. ServiceMembers(c, key, regular, tags)
        = CASE key = "adblock" -> <<Reject, Direct, Select>>
            [] key \in {"private", "domestic"} -> <<Direct, Reject, Select>> \o some
            [] OTHER -> <<Select>> \o some \o <<Direct, Reject>> \o RegionNames(tags) \o names
  BY DEF ServiceMembers
<1> HIDE DEF some, names, S
<1>6. CASE key = "adblock"
  BY <1>4, <1>5, <1>6, Three DEF S
<1>7. CASE key \in {"private", "domestic"}
  <2>1. IsList(<<Direct, Reject, Select>>) /\ Elements(<<Direct, Reject, Select>>) \subseteq S
    BY <1>4, Three
  <2>2. IsList(<<Direct, Reject, Select>> \o some)
        /\ Elements(<<Direct, Reject, Select>> \o some) \subseteq S
    BY <1>1, <2>1, ListsJoined
  <2>3. ServiceMembers(c, key, regular, tags) = <<Direct, Reject, Select>> \o some
    BY <1>5, <1>7
  <2> QED
    BY <2>2, <2>3 DEF S
<1>8. CASE key \notin {"adblock", "private", "domestic"}
  <2> DEFINE a == <<Select>>
             b == <<Direct, Reject>>
  <2>1. IsList(a) /\ Elements(a) \subseteq S /\ IsList(b) /\ Elements(b) \subseteq S
    BY <1>4, Single, Pair
  <2>2. ServiceMembers(c, key, regular, tags) = a \o some \o b \o RegionNames(tags) \o names
    BY <1>5, <1>8
  <2> HIDE DEF a, b
  <2>3. IsList(a \o some) /\ Elements(a \o some) \subseteq S
    BY <1>1, <2>1, ListsJoined
  <2>4. IsList(a \o some \o b) /\ Elements(a \o some \o b) \subseteq S
    BY <2>1, <2>3, ListsJoined
  <2>5. IsList(a \o some \o b \o RegionNames(tags))
        /\ Elements(a \o some \o b \o RegionNames(tags)) \subseteq S
    BY <1>3, <2>4, ListsJoined
  <2>6. IsList(a \o some \o b \o RegionNames(tags) \o names)
        /\ Elements(a \o some \o b \o RegionNames(tags) \o names) \subseteq S
    BY <1>2, <2>5, ListsJoined
  <2> QED
    BY <2>2, <2>6 DEF S
<1> QED
  BY <1>6, <1>7, <1>8

LEMMA MainMembersAre ==
  ASSUME NEW regular, IsList(regular), NEW tags, IsList(tags)
  PROVE  /\ IsList(MainMembers(regular, tags)) /\ MainMembers(regular, tags) # <<>>
         /\ Elements(MainMembers(regular, tags))
              \subseteq Tested(regular, tags) \cup OfRegions(tags) \cup Ends(regular)
<1> DEFINE S == Tested(regular, tags) \cup OfRegions(tags) \cup Ends(regular)
<1>1. {Direct, Reject} \subseteq S
  BY DEF Ends, Builtin
<1>2. CASE regular = <<>>
  <2>1. MainMembers(regular, tags) = <<Direct, Reject>>
    BY <1>2 DEF MainMembers
  <2> QED
    BY <1>1, <2>1, Pair, ListIs
<1>3. CASE regular # <<>>
  <2> DEFINE a == <<AutoSelect, Direct, Reject>>
  <2>1. IsList(a) /\ Elements(a) \subseteq S /\ AutoSelect \in Elements(a)
    BY <1>1, <1>3, Three DEF Tested
  <2>2. MainMembers(regular, tags) = a \o RegionNames(tags) \o Names(regular)
    BY <1>3 DEF MainMembers
  <2> HIDE DEF a
  <2>3. IsList(RegionNames(tags)) /\ Elements(RegionNames(tags)) \subseteq S
    BY RegionNamesAre
  <2>4. IsList(Names(regular)) /\ Elements(Names(regular)) \subseteq S
    BY ListNames DEF Ends, NodeNames
  <2> HIDE DEF S
  <2>5. /\ IsList(a \o RegionNames(tags)) /\ Elements(a \o RegionNames(tags)) \subseteq S
        /\ AutoSelect \in Elements(a \o RegionNames(tags))
    BY <2>1, <2>3, ListsJoined
  <2>6. /\ IsList(a \o RegionNames(tags) \o Names(regular))
        /\ Elements(a \o RegionNames(tags) \o Names(regular)) \subseteq S
        /\ AutoSelect \in Elements(a \o RegionNames(tags) \o Names(regular))
    BY <2>4, <2>5, ListsJoined
  <2> QED
    BY <2>2, <2>6, ListIs DEF S
<1> QED
  BY <1>2, <1>3

(* A region has nodes; it refers to its tested group and to nodes.         *)
LEMMA TagsAre ==
  ASSUME NEW c, NEW regular
  PROVE  /\ IsList(RegionTags(c, regular))
         /\ RegionTags(c, regular) \in Seq(STRING)
         /\ \A t \in Elements(RegionTags(c, regular)) :
              t \in Elements(Regions) /\ MembersOf(regular, t) # <<>>
<1> DEFINE S == {t \in Elements(Regions) : MembersOf(regular, t) # <<>>}
<1>1. Regions \in Seq(STRING)
  BY InputsAssumption
<1>2. Keep(Regions, S) \in Seq(STRING) /\ Elements(Keep(Regions, S)) = Elements(Regions) \cap S
  BY <1>1, KeepIs
<1>3. RegionTags(c, regular) = IF c.regions THEN Keep(Regions, S) ELSE <<>>
  BY DEF RegionTags
<1>4. <<>> \in Seq(STRING) /\ Elements(<<>>) = {}
  BY EmptyIsList
<1>5. RegionTags(c, regular) \in Seq(STRING)
      /\ Elements(RegionTags(c, regular)) \subseteq Elements(Regions) \cap S
  <2> HIDE DEF S
  <2> QED
    BY <1>2, <1>3, <1>4
<1>6. IsList(RegionTags(c, regular))
  BY <1>5, ListOf
<1> QED
  BY <1>5, <1>6

LEMMA RegionMembersAre ==
  ASSUME NEW regular, IsList(regular), NEW tag
  PROVE  /\ IsList(RegionMembers(regular, tag)) /\ RegionMembers(regular, tag) # <<>>
         /\ Elements(RegionMembers(regular, tag)) \subseteq {RegionAuto(tag)} \cup Ends(regular)
<1> DEFINE a == <<RegionAuto(tag), Direct>>
<1>1. IsList(a) /\ Elements(a) = {RegionAuto(tag), Direct}
  BY Pair
<1> HIDE DEF a
<1>2. IsList(MembersOf(regular, tag)) /\ Elements(MembersOf(regular, tag)) \subseteq NodeNames(regular)
  BY MembersAre
<1>3. RegionMembers(regular, tag) = a \o MembersOf(regular, tag)
  BY DEF RegionMembers, a
<1>4. /\ IsList(RegionMembers(regular, tag))
      /\ Elements(RegionMembers(regular, tag)) = Elements(a) \cup Elements(MembersOf(regular, tag))
  BY <1>1, <1>2, <1>3, ListsJoined
<1>5. RegionMembers(regular, tag) # <<>>
  BY <1>1, <1>4, ListIs
<1> QED
  BY <1>1, <1>2, <1>4, <1>5 DEF Ends, Builtin

-----------------------------------------------------------------------------
(* The groups of a file, before they are tidied.                           *)

(* A group of the program, and one of the user's.                          *)
IsGroup(g) ==
  g = [name |-> g.name, type |-> g.type, members |-> g.members] /\ IsList(g.members)
Generated(g, regular, tags) ==
  Elements(g.members) \subseteq Tested(regular, tags) \cup OfRegions(tags) \cup {Select} \cup Ends(regular)
FromUser(g, c) ==
  \E h \in Elements(c.groups) : g.name = h.name /\ g.members = h.members

AllGroups(c, regular, tags) ==
  <<Group(Select, "select", MainMembers(regular, tags)),
    Group(AutoSelect, "url-test", Names(regular))>>
  \o RegionGroups(regular, tags) \o RuleGroups(c, regular, tags)
  \o <<Group(Final, "select", ServiceMembers(c, "", regular, tags))>>
  \o CustomProxyGroups(c)

LEMMA GroupIs ==
  ASSUME NEW name, NEW type, NEW members, IsList(members)
  PROVE  /\ IsGroup(Group(name, type, members))
         /\ Group(name, type, members).name = name
         /\ Group(name, type, members).members = members
BY DEF IsGroup, Group

LEMMA RegionGroupsAre ==
  ASSUME NEW regular, IsList(regular), NEW tags, IsList(tags)
  PROVE  /\ IsList(RegionGroups(regular, tags))
         /\ \A g \in Elements(RegionGroups(regular, tags)) : \E t \in Elements(tags) :
              \/ g = Group(RegionAuto(t), "url-test", MembersOf(regular, t))
              \/ g = Group(Region(t), "select", RegionMembers(regular, t))
         /\ \A t \in Elements(tags) :
              /\ Group(RegionAuto(t), "url-test", MembersOf(regular, t))
                   \in Elements(RegionGroups(regular, tags))
              /\ Group(Region(t), "select", RegionMembers(regular, t))
                   \in Elements(RegionGroups(regular, tags))
<1> DEFINE auto(t) == Group(RegionAuto(t), "url-test", MembersOf(regular, t))
           own(t) == Group(Region(t), "select", RegionMembers(regular, t))
           X == {auto(t) : t \in Elements(tags)} \cup {own(t) : t \in Elements(tags)}
           two == [i \in 1 .. Len(tags) |-> <<auto(tags[i]), own(tags[i])>>]
<1>1. Len(tags) \in Nat /\ DOMAIN tags = 1 .. Len(tags)
  BY ListIs
<1>2. RegionGroups(regular, tags) = Concat(two)
  BY <1>1 DEF RegionGroups
<1>3. \A i \in 1 .. Len(tags) : tags[i] \in Elements(tags)
  BY <1>1 DEF Elements
<1>4. \A i \in 1 .. Len(tags) : auto(tags[i]) \in X /\ own(tags[i]) \in X
  BY <1>3
<1> HIDE DEF auto, own, X
<1>5. \A i \in 1 .. Len(tags) : two[i] \in Seq(X)
  BY <1>4, Two
<1>6. two \in Seq(Seq(X)) /\ Len(two) = Len(tags)
  <2> DEFINE V == Seq(X)
  <2>1. two \in [1 .. Len(tags) -> V]
    BY <1>5
  <2> HIDE DEF V, two
  <2>2. two \in Seq(V) /\ Len(two) = Len(tags)
    BY <1>1, <2>1, Listed
  <2> QED
    BY <2>2 DEF V
<1>7. \A i \in 1 .. Len(tags) : Elements(two[i]) = {auto(tags[i]), own(tags[i])}
  BY Pair
<1> HIDE DEF two
<1>8. /\ IsList(Concat(two))
      /\ Elements(Concat(two)) = UNION {Elements(two[i]) : i \in 1 .. Len(tags)}
  BY <1>6, ConcatHas
<1>9. \A g \in Elements(Concat(two)) : \E t \in Elements(tags) : g = auto(t) \/ g = own(t)
  BY <1>3, <1>7, <1>8
<1>10. \A t \in Elements(tags) : \E i \in 1 .. Len(tags) : t = tags[i]
  BY <1>1 DEF Elements
<1>11. \A t \in Elements(tags) : auto(t) \in Elements(Concat(two)) /\ own(t) \in Elements(Concat(two))
  BY <1>7, <1>8, <1>10
<1> QED
  BY <1>2, <1>8, <1>9, <1>11 DEF auto, own

LEMMA ReservedNamesAre ==
  ASSUME NEW tags \in Seq(STRING)
  PROVE  RegionReserved(tags) \in SUBSET Targets /\ IsFiniteSet(RegionReserved(tags))
<1> DEFINE f == [t \in Elements(tags) |-> Region(t)]
           a == [t \in Elements(tags) |-> RegionAuto(t)]
           R == {Region(t) : t \in Elements(tags)}
           A == {RegionAuto(t) : t \in Elements(tags)}
<1>1. IsFiniteSet(Elements(tags)) /\ Elements(tags) \in SUBSET STRING
  BY FiniteElements
<1>2. f \in Surjection(Elements(tags), R) /\ a \in Surjection(Elements(tags), A)
  BY DEF Surjection
<1>3. \A t \in STRING : Region(t) \in Text /\ RegionAuto(t) \in Text
  <2>1. "region" \in STRING /\ "region auto" \in STRING
    BY StringsAssumption
  <2> QED
    BY <2>1, Two DEF Region, RegionAuto, Text
<1>4. R \in SUBSET Text /\ A \in SUBSET Text
  BY <1>1, <1>3
<1>5. RegionReserved(tags) = R \cup A
  BY DEF RegionReserved
<1> HIDE DEF f, a, R, A
<1>6. IsFiniteSet(R) /\ IsFiniteSet(A)
  BY <1>1, <1>2, FS_Surjection
<1>7. IsFiniteSet(R \cup A)
  BY <1>6, FS_Union
<1> QED
  BY <1>4, <1>5, <1>7, TextIsTarget

LEMMA RuleGroupsAre ==
  ASSUME NEW regular, IsList(regular), NEW tags \in Seq(STRING), NEW c \in Configurations
  PROVE  /\ IsList(RuleGroups(c, regular, tags))
         /\ \A g \in Elements(RuleGroups(c, regular, tags)) : \E name, key :
              g = Group(name, "select", ServiceMembers(c, key, regular, tags))
<1> DEFINE all == ResolveCustomRules(c, RegionReserved(tags))
           cats == Keep(Enabled(c), {cat \in Elements(Catalog) : cat.group # <<>>})
           made == Keep(all, {r \in Elements(all) : r.creates})
           one == [i \in DOMAIN cats |-> Group(cats[i].group, "select",
                               ServiceMembers(c, cats[i].key, regular, tags))]
           other == [i \in DOMAIN made |-> Group(made[i].target, "select",
                                    ServiceMembers(c, "", regular, tags))]
<1>1. IsList(cats)
  BY EnabledIs, ListOf, ListKept
<1>2. IsList(all)
  BY ReservedNamesAre, ResolvedIs, ListOf
<1> HIDE DEF all
<1>3. IsList(made)
  BY <1>2, ListKept
<1>4. RuleGroups(c, regular, tags) = one \o other
  BY DEF RuleGroups, all
<1> HIDE DEF cats, made
<1>5. /\ Len(cats) \in Nat /\ DOMAIN cats = 1 .. Len(cats)
      /\ Len(made) \in Nat /\ DOMAIN made = 1 .. Len(made)
  BY <1>1, <1>3, ListIs
<1>6. /\ one = [i \in 1 .. Len(cats) |-> one[i]] /\ other = [i \in 1 .. Len(made) |-> other[i]]
  BY <1>5
<1>7. /\ \A i \in 1 .. Len(cats) : \E name, key :
           one[i] = Group(name, "select", ServiceMembers(c, key, regular, tags))
      /\ \A i \in 1 .. Len(made) : \E name, key :
           other[i] = Group(name, "select", ServiceMembers(c, key, regular, tags))
  BY <1>5
<1> HIDE DEF one, other
<1>8. /\ IsList(one) /\ Elements(one) = {one[i] : i \in 1 .. Len(cats)}
      /\ IsList(other) /\ Elements(other) = {other[i] : i \in 1 .. Len(made)}
  BY <1>5, <1>6, Mapped
<1>9. IsList(one \o other) /\ Elements(one \o other) = Elements(one) \cup Elements(other)
  BY <1>8, ListsJoined
<1> QED
  BY <1>4, <1>7, <1>8, <1>9

LEMMA CustomGroupsAre ==
  ASSUME NEW c \in Configurations
  PROVE  /\ IsList(CustomProxyGroups(c))
         /\ \A g \in Elements(CustomProxyGroups(c)) : IsGroup(g) /\ FromUser(g, c)
<1> DEFINE on == SwitchedOn(c.groups)
<1>0. c.groups \in Seq(CustomGroups)
  BY DEF Configurations
<1>1. on \in Seq(CustomGroups) /\ Elements(on) \subseteq Elements(c.groups)
  BY <1>0, SwitchedOnIs
<1>2. CustomProxyGroups(c) = [i \in DOMAIN on |-> Group(on[i].name, on[i].type, on[i].members)]
  BY DEF CustomProxyGroups
<1> HIDE DEF on
<1>3. Len(on) \in Nat /\ DOMAIN on = 1 .. Len(on)
      /\ \A i \in 1 .. Len(on) : on[i] \in CustomGroups /\ on[i] \in Elements(c.groups)
  BY <1>1 DEF Elements
<1> DEFINE f == [i \in 1 .. Len(on) |-> Group(on[i].name, on[i].type, on[i].members)]
<1>4. CustomProxyGroups(c) = f
  BY <1>2, <1>3
<1>5. \A i \in 1 .. Len(on) : IsGroup(f[i]) /\ FromUser(f[i], c)
  <2> TAKE i \in 1 .. Len(on)
  <2>1. on[i].members \in Seq(Text)
    BY <1>3 DEF CustomGroups
  <2>2. IsList(on[i].members)
    BY <2>1, ListOf
  <2>3. f[i] = Group(on[i].name, on[i].type, on[i].members)
    OBVIOUS
  <2> HIDE DEF f
  <2> QED
    BY <1>3, <2>2, <2>3, GroupIs DEF FromUser
<1>6. f = [i \in 1 .. Len(on) |-> f[i]]
  OBVIOUS
<1> HIDE DEF f
<1>7. IsList(f) /\ Elements(f) = {f[i] : i \in 1 .. Len(on)}
  BY <1>3, <1>6, Mapped
<1> QED
  BY <1>4, <1>5, <1>7

LEMMA AllGroupsAre ==
  ASSUME NEW regular, IsList(regular), NEW tags, IsList(tags), tags \in Seq(STRING),
         NEW c \in Configurations
  PROVE  LET all == AllGroups(c, regular, tags)
         IN  /\ IsList(all)
             /\ \A g \in Elements(all) :
                  IsGroup(g) /\ (Generated(g, regular, tags) \/ FromUser(g, c))
             /\ Group(Select, "select", MainMembers(regular, tags)) \in Elements(all)
             /\ Group(AutoSelect, "url-test", Names(regular)) \in Elements(all)
             /\ \A t \in Elements(tags) :
                  /\ Group(RegionAuto(t), "url-test", MembersOf(regular, t)) \in Elements(all)
                  /\ Group(Region(t), "select", RegionMembers(regular, t)) \in Elements(all)
<1> DEFINE Good(g) == IsGroup(g) /\ (Generated(g, regular, tags) \/ FromUser(g, c))
           main == Group(Select, "select", MainMembers(regular, tags))
           auto == Group(AutoSelect, "url-test", Names(regular))
           last == Group(Final, "select", ServiceMembers(c, "", regular, tags))
           s1 == <<main, auto>>
           s2 == RegionGroups(regular, tags)
           s3 == RuleGroups(c, regular, tags)
           s4 == <<last>>
           s5 == CustomProxyGroups(c)
<1>1. Good(main)
  BY MainMembersAre, GroupIs DEF Generated
<1>2. Good(auto)
  <2>1. Elements(Names(regular)) \subseteq Ends(regular) /\ IsList(Names(regular))
    BY ListNames DEF Ends, NodeNames
  <2> QED
    BY <2>1, GroupIs DEF Generated
<1>3. \A name, key : Good(Group(name, "select", ServiceMembers(c, key, regular, tags)))
  BY ServiceMembersAre, GroupIs DEF Generated
<1>4. ASSUME NEW t \in Elements(tags)
      PROVE  /\ Good(Group(RegionAuto(t), "url-test", MembersOf(regular, t)))
             /\ Good(Group(Region(t), "select", RegionMembers(regular, t)))
  <2>1. IsList(MembersOf(regular, t)) /\ Elements(MembersOf(regular, t)) \subseteq Ends(regular)
    BY MembersAre DEF Ends
  <2>2. IsList(RegionMembers(regular, t))
        /\ Elements(RegionMembers(regular, t)) \subseteq Tested(regular, tags) \cup Ends(regular)
    BY RegionMembersAre DEF Tested
  <2> QED
    BY <2>1, <2>2, GroupIs DEF Generated
<1>5. IsList(s1) /\ Elements(s1) = {main, auto}
  BY Pair
<1>6. IsList(s2) /\ \A g \in Elements(s2) : Good(g)
  <2> HIDE DEF Good
  <2> QED
    BY <1>4, RegionGroupsAre
<1>7. IsList(s3) /\ \A g \in Elements(s3) : Good(g)
  <2> HIDE DEF Good
  <2> QED
    BY <1>3, RuleGroupsAre
<1>8. IsList(s4) /\ Elements(s4) = {last}
  BY Single
<1>9. IsList(s5) /\ \A g \in Elements(s5) : Good(g)
  BY CustomGroupsAre
<1>10. Good(last)
  BY <1>3
<1>11. \A t \in Elements(tags) :
         /\ Group(RegionAuto(t), "url-test", MembersOf(regular, t)) \in Elements(s2)
         /\ Group(Region(t), "select", RegionMembers(regular, t)) \in Elements(s2)
  BY RegionGroupsAre
<1>12. AllGroups(c, regular, tags) = s1 \o s2 \o s3 \o s4 \o s5
  BY DEF AllGroups
<1> HIDE DEF s1, s2, s3, s4, s5, main, auto, last
<1>13. IsList(s1 \o s2) /\ Elements(s1 \o s2) = Elements(s1) \cup Elements(s2)
  BY <1>5, <1>6, ListsJoined
<1>14. IsList(s1 \o s2 \o s3) /\ Elements(s1 \o s2 \o s3) = Elements(s1 \o s2) \cup Elements(s3)
  BY <1>7, <1>13, ListsJoined
<1>15. IsList(s1 \o s2 \o s3 \o s4)
       /\ Elements(s1 \o s2 \o s3 \o s4) = Elements(s1 \o s2 \o s3) \cup Elements(s4)
  BY <1>8, <1>14, ListsJoined
<1>16. IsList(s1 \o s2 \o s3 \o s4 \o s5)
       /\ Elements(s1 \o s2 \o s3 \o s4 \o s5) = Elements(s1 \o s2 \o s3 \o s4) \cup Elements(s5)
  BY <1>9, <1>15, ListsJoined
<1>17. Elements(AllGroups(c, regular, tags))
         = {main, auto} \cup Elements(s2) \cup Elements(s3) \cup {last} \cup Elements(s5)
  BY <1>5, <1>8, <1>12, <1>13, <1>14, <1>15, <1>16
<1>18. \A g \in Elements(AllGroups(c, regular, tags)) : Good(g)
  <2> HIDE DEF Good
  <2> QED
    BY <1>1, <1>2, <1>6, <1>7, <1>9, <1>10, <1>17
<1>19. IsList(AllGroups(c, regular, tags))
  BY <1>12, <1>16
<1> QED
  BY <1>11, <1>17, <1>18, <1>19 DEF main, auto

(* Tidied groups have their names and no other members.                    *)
Tidied(g, real) == Sanitize([g EXCEPT !.members = UniqueOrdered(@)], real)

LEMMA TidiedIs ==
  ASSUME NEW g, IsGroup(g), NEW real
  PROVE  /\ Tidied(g, real).name = g.name /\ Tidied(g, real).type = g.type
         /\ IsList(Tidied(g, real).members)
         /\ Elements(Tidied(g, real).members) \subseteq Elements(g.members)
<1> DEFINE h == [g EXCEPT !.members = UniqueOrdered(@)]
<1>1. IsList(UniqueOrdered(g.members)) /\ Elements(UniqueOrdered(g.members)) = Elements(g.members)
  BY ListUnique DEF IsGroup
<1>2. h = [name |-> g.name, type |-> g.type, members |-> UniqueOrdered(g.members)]
  BY DEF IsGroup
<1> HIDE DEF h
<1>3. IsList(h.members) /\ Elements(h.members) = Elements(g.members)
  BY <1>1, <1>2
<1>4. IsList(Keep(h.members, real)) /\ Elements(Keep(h.members, real)) \subseteq Elements(h.members)
  BY <1>3, ListKept
<1>5. [h EXCEPT !.members = Keep(@, real)]
        = [name |-> g.name, type |-> g.type, members |-> Keep(h.members, real)]
  BY <1>2
<1>6. Tidied(g, real) = IF h.type \in AutoTypes THEN [h EXCEPT !.members = Keep(@, real)] ELSE h
  BY DEF Tidied, Sanitize, h
<1> QED
  BY <1>2, <1>3, <1>4, <1>5, <1>6

LEMMA GroupsAre ==
  ASSUME NEW c \in Configurations, NEW proxies, IsList(proxies)
  PROVE  LET regular == RealNodes(c, proxies)
             all     == AllGroups(c, regular, RegionTags(c, regular))
             real    == Elements(Names(regular))
         IN  /\ IsList(BuildProxyGroups(c, proxies))
             /\ Elements(BuildProxyGroups(c, proxies))
                  = {Tidied(g, real) : g \in {h \in Elements(all) : h.members # <<>>}}
<1> DEFINE regular == RealNodes(c, proxies)
           tags == RegionTags(c, regular)
           all == AllGroups(c, regular, tags)
           real == Elements(Names(regular))
           some == Keep(all, {g \in Elements(all) : g.members # <<>>})
<1>1. IsList(regular)
  BY ListKept DEF RealNodes
<1>2. IsList(tags) /\ tags \in Seq(STRING)
  BY TagsAre
<1>3. IsList(all)
  <2> HIDE DEF regular, tags
  <2> QED
    BY <1>1, <1>2, AllGroupsAre
<1>4. BuildProxyGroups(c, proxies) = [i \in DOMAIN some |-> Tidied(some[i], real)]
  BY DEF BuildProxyGroups, RealNodes, AllGroups, Tidied
<1> HIDE DEF regular, tags, all, real
<1>5. IsList(some) /\ Elements(some) = {h \in Elements(all) : h.members # <<>>}
  BY <1>3, ListKept
<1> HIDE DEF some
<1>6. Len(some) \in Nat /\ DOMAIN some = 1 .. Len(some)
  BY <1>5, ListIs
<1> DEFINE f == [i \in 1 .. Len(some) |-> Tidied(some[i], real)]
<1>7. BuildProxyGroups(c, proxies) = f /\ f = [i \in 1 .. Len(some) |-> f[i]]
  BY <1>4, <1>6
<1>8. {f[i] : i \in 1 .. Len(some)} = {Tidied(g, real) : g \in Elements(some)}
  BY <1>6 DEF Elements
<1> HIDE DEF f
<1>9. IsList(f) /\ Elements(f) = {f[i] : i \in 1 .. Len(some)}
  BY <1>6, <1>7, Mapped
<1> QED
  BY <1>5, <1>7, <1>8, <1>9 DEF real, all, tags, regular

LEMMA NamesDiffer ==
  ASSUME NEW s, IsList(s), NoDuplicates(Names(s)),
         NEW g \in Elements(s), NEW h \in Elements(s), g.name = h.name
  PROVE  g = h
<1> DEFINE n == Len(s)
           names == Names(s)
<1>1. n \in Nat /\ DOMAIN s = 1 .. n
  BY ListIs
<1>2. names = [i \in 1 .. n |-> s[i].name]
  BY <1>1 DEF Names
<1> HIDE DEF n
<1>3. names \in [1 .. n -> Elements(names)]
  BY <1>2 DEF Elements
<1>4. names \in Surjection(1 .. n, Elements(names))
  BY <1>2, <1>3 DEF Surjection, Elements
<1>5. IsFiniteSet(1 .. n) /\ Cardinality(1 .. n) = n
  BY <1>1, FS_Interval
<1>6. Cardinality(Elements(names)) = n
  <2>1. Len(names) = n
    <3> HIDE DEF names
    <3> QED
      BY <1>1, <1>3, Listed
  <2> QED
    BY <2>1 DEF NoDuplicates
<1>7. \A i, j \in 1 .. n : names[i] = names[j] => i = j
  <2> HIDE DEF names
  <2>1. names \in Injection(1 .. n, Elements(names))
    BY <1>4, <1>5, <1>6, FS_Surjection
  <2> QED
    BY <1>3, <2>1 DEF Injection, IsInjective
<1>8. PICK i \in 1 .. n, j \in 1 .. n : g = s[i] /\ h = s[j]
  BY <1>1 DEF Elements
<1>9. i = j
  BY <1>2, <1>7, <1>8
<1> QED
  BY <1>8, <1>9

-----------------------------------------------------------------------------
(* Every group refers to groups of a lower rank: tested groups to nodes    *)
(* only, regions to tested groups, the main selection to both, the other   *)
(* groups of the program to these, the user's to all of them.              *)

UserNames(c) == {h.name : h \in Elements(c.groups)}

Rank(g, c, regular, tags) ==
  CASE g.name \in Tested(regular, tags) -> 0
    [] g.name \in OfRegions(tags) \ Tested(regular, tags) -> 1
    [] g.name \in {Select} \ (Tested(regular, tags) \cup OfRegions(tags)) -> 2
    [] g.name \in UserNames(c) \ (Tested(regular, tags) \cup OfRegions(tags) \cup {Select}) -> 4
    [] OTHER -> 3

LEMMA RankIs ==
  ASSUME NEW g, NEW c, NEW regular, NEW tags
  PROVE  /\ Rank(g, c, regular, tags) \in 0 .. 4
         /\ g.name \in Tested(regular, tags) <=> Rank(g, c, regular, tags) = 0
         /\ g.name \in Tested(regular, tags) \cup OfRegions(tags)
              <=> Rank(g, c, regular, tags) <= 1
         /\ g.name \in Tested(regular, tags) \cup OfRegions(tags) \cup {Select}
              <=> Rank(g, c, regular, tags) <= 2
         /\ Rank(g, c, regular, tags) = 4
              <=> g.name \in UserNames(c) \ (Tested(regular, tags) \cup OfRegions(tags) \cup {Select})
BY DEF Rank

LEMMA RefersDown ==
  ASSUME NEW c \in Configurations, NEW proxies, IsList(proxies),
         NoDuplicates(Names(BuildProxyGroups(c, proxies))),
         \A g \in Elements(BuildProxyGroups(c, proxies)) :
           g.name \notin Builtin \cup NodeNames(proxies),
         \A g, h \in Elements(c.groups) : h.name \notin Elements(g.members),
         NEW g \in Elements(BuildProxyGroups(c, proxies)),
         NEW h \in Elements(BuildProxyGroups(c, proxies)), h.name \in Elements(g.members)
  PROVE  LET regular == RealNodes(c, proxies)
             tags    == RegionTags(c, regular)
         IN  Rank(h, c, regular, tags) < Rank(g, c, regular, tags)
<1> DEFINE G == BuildProxyGroups(c, proxies)
           regular == RealNodes(c, proxies)
           tags == RegionTags(c, regular)
           all == AllGroups(c, regular, tags)
           real == Elements(Names(regular))
           low == Rank(h, c, regular, tags)
           high == Rank(g, c, regular, tags)
<1>1. IsList(regular) /\ Elements(regular) \subseteq Elements(proxies)
  BY ListKept DEF RealNodes
<1>2. IsList(tags) /\ tags \in Seq(STRING)
      /\ \A t \in Elements(tags) : MembersOf(regular, t) # <<>>
  BY TagsAre
<1>3. IsList(G) /\ Elements(G) = {Tidied(x, real) : x \in {y \in Elements(all) : y.members # <<>>}}
  BY GroupsAre
<1> HIDE DEF regular, tags, all, real
<1>4. /\ \A x \in Elements(all) : IsGroup(x) /\ (Generated(x, regular, tags) \/ FromUser(x, c))
      /\ Group(Select, "select", MainMembers(regular, tags)) \in Elements(all)
      /\ Group(AutoSelect, "url-test", Names(regular)) \in Elements(all)
      /\ \A t \in Elements(tags) :
           /\ Group(RegionAuto(t), "url-test", MembersOf(regular, t)) \in Elements(all)
           /\ Group(Region(t), "select", RegionMembers(regular, t)) \in Elements(all)
  BY <1>1, <1>2, AllGroupsAre DEF all
<1>5. h.name \notin Ends(regular)
  BY <1>1 DEF Ends, NodeNames
<1>6. ASSUME NEW x \in Elements(all), x.members # <<>>, x.name = g.name
      PROVE  h.name \in Elements(x.members)
  <2>1. Tidied(x, real) \in Elements(G)
    BY <1>3, <1>6
  <2>2. Tidied(x, real).name = g.name
        /\ Elements(Tidied(x, real).members) \subseteq Elements(x.members)
    BY <1>4, <1>6, TidiedIs
  <2>3. Tidied(x, real) = g
    BY <1>3, <2>1, <2>2, NamesDiffer
  <2> QED
    BY <2>2, <2>3
<1>7. PICK x \in Elements(all) : h.name \in Elements(x.members) /\ x.name = g.name
  BY <1>3, <1>4, TidiedIs
<1>8. Generated(x, regular, tags) => low <= 2
  BY <1>5, <1>7, RankIs DEF Generated
<1>9. FromUser(x, c) => low # 4 /\ g.name \in UserNames(c)
  BY <1>7, RankIs DEF FromUser, UserNames
<1>10. CASE g.name \in Tested(regular, tags)
  <2>1. CASE g.name = AutoSelect /\ regular # <<>>
    <3> DEFINE y == Group(AutoSelect, "url-test", Names(regular))
    <3>1. IsList(Names(regular)) /\ Elements(Names(regular)) \subseteq Ends(regular)
      BY <1>1, ListNames DEF Ends, NodeNames
    <3>2. Names(regular) # <<>>
      <4>1. Elements(regular) # {}
        BY <1>1, <2>1, ListIs
      <4>2. Elements(Names(regular)) # {}
        BY <1>1, <4>1, ListNames
      <4> QED
        BY <3>1, <4>2, ListIs
    <3> QED
      BY <1>4, <1>5, <1>6, <2>1, <3>1, <3>2, GroupIs
  <2>2. ASSUME NEW t \in Elements(tags), g.name = RegionAuto(t)  PROVE FALSE
    <3>1. IsList(MembersOf(regular, t)) /\ Elements(MembersOf(regular, t)) \subseteq Ends(regular)
      BY <1>1, MembersAre DEF Ends
    <3> QED
      BY <1>2, <1>4, <1>5, <1>6, <2>2, <3>1, GroupIs
  <2> QED
    BY <1>10, <2>1, <2>2 DEF Tested
<1>11. CASE g.name \in OfRegions(tags) \ Tested(regular, tags)
  <2>1. PICK t \in Elements(tags) : g.name = Region(t)
    BY <1>11 DEF OfRegions
  <2>2. /\ IsList(RegionMembers(regular, t)) /\ RegionMembers(regular, t) # <<>>
        /\ Elements(RegionMembers(regular, t)) \subseteq {RegionAuto(t)} \cup Ends(regular)
    BY <1>1, RegionMembersAre
  <2>3. h.name \in Elements(RegionMembers(regular, t))
    BY <1>4, <1>6, <2>1, <2>2, GroupIs
  <2>4. h.name \in Tested(regular, tags)
    BY <1>5, <2>2, <2>3 DEF Tested
  <2>5. low = 0 /\ high \in 1 .. 4
    BY <1>11, <2>4, RankIs
  <2> HIDE DEF low, high
  <2>6. low < high
    BY <2>5
  <2> QED
    BY <2>6 DEF low, high, regular, tags
<1>12. CASE g.name = Select /\ g.name \notin Tested(regular, tags) \cup OfRegions(tags)
  <2>1. /\ IsList(MainMembers(regular, tags)) /\ MainMembers(regular, tags) # <<>>
        /\ Elements(MainMembers(regular, tags))
             \subseteq Tested(regular, tags) \cup OfRegions(tags) \cup Ends(regular)
    BY <1>1, <1>2, MainMembersAre
  <2>2. h.name \in Elements(MainMembers(regular, tags))
    BY <1>4, <1>6, <1>12, <2>1, GroupIs
  <2>3. h.name \in Tested(regular, tags) \cup OfRegions(tags)
    BY <1>5, <2>1, <2>2
  <2>4. low \in 0 .. 1 /\ high \in 2 .. 4
    BY <1>12, <2>3, RankIs
  <2> HIDE DEF low, high
  <2>5. low < high
    BY <2>4
  <2> QED
    BY <2>5 DEF low, high, regular, tags
<1>13. CASE g.name \notin Tested(regular, tags) \cup OfRegions(tags) \cup {Select}
  <2>1. high \in 3 .. 4 /\ low \in 0 .. 4 /\ (g.name \in UserNames(c) => high = 4)
    BY <1>13, RankIs
  <2>2. low <= 2 \/ (low # 4 /\ g.name \in UserNames(c))
    BY <1>4, <1>7, <1>8, <1>9
  <2> HIDE DEF low, high
  <2>3. low < high
    BY <2>1, <2>2
  <2> QED
    BY <2>3 DEF low, high, regular, tags
<1> QED
  BY <1>10, <1>11, <1>12, <1>13 DEF regular, tags

-----------------------------------------------------------------------------
(* Peeling off what refers to nothing that is left.                        *)

Peeled(u) ==
  /\ u[0] = Elements(out.groups) /\ u[Len(out.groups)] = OnCycles
  /\ \A k \in 1 .. Len(out.groups) : u[k] = Peel(u[k - 1])

LEMMA PeelSteps ==
  ASSUME IsList(out.groups)
  PROVE  \E u : Peeled(u) /\ \A k \in 0 .. Len(out.groups) : u[k] \in SUBSET Elements(out.groups)
<1> DEFINE s == out.groups
           n == Len(s)
           V == SUBSET Elements(s)
           next(v, x) == Peel(v)
           step == [p \in V \X (1 .. n) |-> next(p[1], s[p[2]])]
           base == Elements(s)
           Solves(g) == g = [R \in SUBSET DOMAIN s |->
                               IF R = {} THEN base ELSE next(g[R \ {Max(R)}], s[Max(R)])]
<1>0. \A v \in V : \A x : next(v, x) \in V
  BY DEF Peel
<1>1. Setting(n, V, base, step) /\ n \in Nat /\ DOMAIN s = 1 .. n
  <2>1. n \in Nat /\ DOMAIN s = 1 .. n
    BY ListIs
  <2>2. base \in V
    OBVIOUS
  <2> HIDE DEF next, n, V
  <2> QED
    BY <1>0, <2>1, <2>2 DEF Setting
<1>2. PICK f : f \in [SUBSET (1 .. n) -> V] /\ Folded(f, 1 .. n, base, step)
  <2> HIDE DEF step, V, n, base
  <2> QED
    BY <1>1, FoldExists
<1>3. \A v \in V, k \in 1 .. n : step[<<v, k>>] = next(v, s[k])
  <2> HIDE DEF V, n, next
  <2> QED
    OBVIOUS
<1> HIDE DEF next, V, n, step, base
<1>4. \E h : Solves(h)
  <2> SUFFICES Solves(f)
    <3> HIDE DEF Solves
    <3> QED
      OBVIOUS
  <2> SUFFICES ASSUME NEW R \in SUBSET (1 .. n)
               PROVE  f[R] = IF R = {} THEN base ELSE next(f[R \ {Max(R)}], s[Max(R)])
    BY <1>1, <1>2
  <2>1. R # {} => Max(R) \in 1 .. n /\ f[R \ {Max(R)}] \in V
    BY <1>1, <1>2, MaxWithin
  <2> QED
    BY <1>2, <1>3, <2>1 DEF Folded
<1> DEFINE g == CHOOSE h : Solves(h)
<1>5. OnCycles = g[1 .. n]
  BY <1>1 DEF OnCycles, FoldLeft, MapThenFoldSet, next, base
<1>6. Solves(g)
  <2> HIDE DEF Solves
  <2> QED
    BY <1>4
<1>7. \A R \in SUBSET (1 .. n) :
         g[R] = IF R = {} THEN base ELSE next(g[R \ {Max(R)}], s[Max(R)])
  <2> HIDE DEF g
  <2> QED
    BY <1>1, <1>6
<1> HIDE DEF g
<1>8. Stepwise(g, n, V, base, step)
  BY <1>1, <1>3, <1>7, MaxWithin DEF Stepwise
<1>9. PICK u : Results(u, n, V, base, step) /\ u[n] = g[1 .. n]
  BY <1>1, <1>8, FoldSteps
<1>10. \A k \in 1 .. n : u[k - 1] \in V
  BY <1>1, <1>9 DEF Results
<1>11. \A k \in 1 .. n : u[k] = next(u[k - 1], s[k])
  BY <1>3, <1>9, <1>10 DEF Results
<1>12. \A k \in 0 .. n : u[k] \in V
  BY <1>9 DEF Results
<1> QED
  BY <1>5, <1>9, <1>11, <1>12 DEF Results, n, V, next, base, Peeled

(* If references lead to lower ranks, nothing is left in the end: the ones *)
(* of the lowest rank go each time.                                        *)
LEMMA NothingIsLeft ==
  ASSUME IsList(out.groups), NEW rank,
         \A g \in Elements(out.groups) : rank[g] \in Nat,
         \A g, h \in Elements(out.groups) : h \in References(g) => rank[h] < rank[g]
  PROVE  OnCycles = {}
<1> DEFINE G == Elements(out.groups)
           n == Len(out.groups)
<1>1. PICK u : Peeled(u) /\ \A k \in 0 .. n : u[k] \in SUBSET G
  BY PeelSteps
<1>2. n \in Nat /\ DOMAIN out.groups = 1 .. n
  BY ListIs
<1>3. IsFiniteSet(G) /\ Cardinality(G) \in Nat /\ Cardinality(G) <= n
  <2>1. out.groups \in Surjection(1 .. n, G)
    BY <1>2 DEF Surjection, Elements, IsList
  <2>2. IsFiniteSet(1 .. n) /\ Cardinality(1 .. n) = n
    BY <1>2, FS_Interval
  <2> HIDE DEF G, n
  <2> QED
    BY <2>1, <2>2, FS_Surjection, FS_CardinalityType
<1>4. ASSUME NEW S \in SUBSET G, S # {}
      PROVE  /\ Peel(S) \in SUBSET S /\ Cardinality(Peel(S)) \in Nat
             /\ Cardinality(S) \in Nat /\ Cardinality(Peel(S)) < Cardinality(S)
  <2>1. PICK g \in S : \A h \in S : rank[g] <= rank[h]
    <3> DEFINE R == {rank[h] : h \in S}
    <3>1. R \in SUBSET Nat /\ R # {}
      BY <1>4
    <3>2. PICK r \in R : \A q \in R : r <= q
      <4> HIDE DEF R
      <4> QED
        BY <3>1, LeastNatural
    <3> QED
      BY <3>2
  <2>2. \A h \in S : h \notin References(g)
    <3> TAKE h \in S
    <3>1. rank[g] \in Nat /\ rank[h] \in Nat /\ rank[g] <= rank[h]
      BY <2>1
    <3>2. h \in References(g) => rank[h] < rank[g]
      BY <2>1
    <3> QED
      BY <3>1, <3>2
  <2>3. Peel(S) \in SUBSET S /\ g \notin Peel(S)
    BY <2>2 DEF Peel
  <2>4. IsFiniteSet(S) /\ Peel(S) # S
    BY <1>3, <2>1, <2>3, FS_Subset
  <2>5. IsFiniteSet(Peel(S)) /\ Cardinality(Peel(S)) <= Cardinality(S)
        /\ Cardinality(Peel(S)) # Cardinality(S)
    BY <2>3, <2>4, FS_Subset
  <2> QED
    BY <2>3, <2>4, <2>5, FS_CardinalityType
<1> DEFINE Good == {k \in 0 .. n : u[k] = {} \/ Cardinality(u[k]) + k <= n}
<1>5. 0 \in Good
  BY <1>1, <1>2, <1>3 DEF Peeled
<1>6. ASSUME NEW k \in 1 .. n, k - 1 \in Good  PROVE k \in Good
  <2>1. u[k] = Peel(u[k - 1]) /\ u[k - 1] \in SUBSET G
    <3>1. k - 1 \in 0 .. n
      BY <1>2
    <3> QED
      BY <1>1, <3>1 DEF Peeled
  <2>2. CASE u[k - 1] = {}
    BY <2>1, <2>2 DEF Peel
  <2>3. CASE u[k - 1] # {}
    <3>1. /\ Cardinality(u[k]) \in Nat /\ Cardinality(u[k - 1]) \in Nat
          /\ Cardinality(u[k]) < Cardinality(u[k - 1])
      BY <1>4, <2>1, <2>3
    <3>2. Cardinality(u[k - 1]) + (k - 1) <= n
      BY <1>6, <2>3
    <3> HIDE DEF n
    <3>3. Cardinality(u[k]) + k <= n
      BY <1>2, <3>1, <3>2
    <3> QED
      BY <1>2, <3>3
  <2> QED
    BY <2>2, <2>3
<1>7. n \in Good
  <2>1. 0 .. n \subseteq Good
    <3> HIDE DEF Good, n
    <3> QED
      BY <1>2, <1>5, <1>6, UpTo
  <2> QED
    BY <1>2, <2>1
<1>8. u[n] = {} \/ Cardinality(u[n]) = 0
  <2>1. u[n] \in SUBSET G
    BY <1>1, <1>2
  <2>2. Cardinality(u[n]) \in Nat
    BY <1>3, <2>1, FS_Subset, FS_CardinalityType
  <2> QED
    BY <1>2, <1>7, <2>2
<1>9. u[n] = {}
  BY <1>1, <1>2, <1>3, <1>8, FS_Subset, FS_EmptySet
<1> QED
  BY <1>1, <1>9 DEF Peeled

-----------------------------------------------------------------------------
(* What is past the lint was made by BuildProxyGroups from lists.          *)
Grouped ==
  /\ IsList(nodes)
  /\ stage \in {"rendered", "written"} =>
       IsList(out.proxies) /\ out.groups = BuildProxyGroups(cfg, out.proxies)

LEMMA EnsuredIs ==
  ASSUME NEW s, IsList(s)
  PROVE  IsList(EnsureUnique(s))
<1>1. Len(s) \in Nat /\ DOMAIN s = 1 .. Len(s)
  BY ListIs
<1> DEFINE f == EnsureUnique(s)
<1>2. f = [i \in 1 .. Len(s) |-> f[i]]
  BY <1>1 DEF EnsureUnique
<1> HIDE DEF f
<1>3. IsList(f)
  BY <1>1, <1>2, Mapped
<1> QED
  BY <1>3 DEF f

LEMMA FinalNodesAre ==
  ASSUME IsList(nodes), BuildFinalNodes
  PROVE  IsList(nodes')
<1> DEFINE kept == Keep(nodes, {n \in Elements(nodes) : ~Filtered(cfg, n)})
           f == [i \in DOMAIN kept |-> Prefixed(cfg, kept[i])]
<1>1. IsList(kept)
  BY ListKept
<1>2. nodes' = EnsureUnique(f)
  BY DEF BuildFinalNodes
<1> HIDE DEF kept
<1>3. Len(kept) \in Nat /\ DOMAIN kept = 1 .. Len(kept)
  BY <1>1, ListIs
<1>4. f = [i \in 1 .. Len(kept) |-> f[i]]
  BY <1>3
<1> HIDE DEF f
<1>5. IsList(f)
  BY <1>3, <1>4, Mapped
<1> QED
  BY <1>2, <1>5, EnsuredIs

LEMMA GroupedIsKept ==
  Grouped /\ [Next]_vars => Grouped'
<1> SUFFICES ASSUME Grouped, [Next]_vars  PROVE Grouped'
  OBVIOUS
<1>1. CASE Save
  BY <1>1 DEF Save, Grouped, Refuse, Reach
<1>2. CASE BuildFinalNodes
  <2>1. IsList(nodes') /\ stage' \notin {"rendered", "written"}
    BY <1>2, FinalNodesAre DEF Grouped, BuildFinalNodes, Refuse, Reach
  <2> QED
    BY <2>1 DEF Grouped
<1>3. CASE SnapshotRemoteCustomRules
  BY <1>3 DEF SnapshotRemoteCustomRules, Grouped, Refuse, Reach
<1>4. CASE ValidateFinalNodes
  BY <1>4 DEF ValidateFinalNodes, Checked, Grouped, Refuse, Reach
<1>5. CASE RenderMihomo
  <2> DEFINE proxies == EnsureUnique(nodes)
             o == [proxies |-> proxies, groups |-> BuildProxyGroups(cfg, proxies),
                   providers |-> BuildRuleProviders(cfg), rules |-> BuildRules(cfg)]
  <2>1. /\ UNCHANGED <<cfg, nodes>> /\ IsList(nodes)
        /\ \/ stage' = "refused"
           \/ stage' = "rendered" /\ out' = o
    BY <1>5 DEF RenderMihomo, Refuse, Reach, Grouped
  <2>2. IsList(proxies)
    BY <2>1, EnsuredIs
  <2>3. o.proxies = proxies /\ o.groups = BuildProxyGroups(cfg, proxies)
    OBVIOUS
  <2> HIDE DEF o, proxies
  <2> QED
    BY <2>1, <2>2, <2>3 DEF Grouped
<1>6. CASE ValidateFinalConfig
  BY <1>6 DEF ValidateFinalConfig, Checked, Grouped, Refuse, Reach
<1>7. CASE UNCHANGED vars
  BY <1>7 DEF vars, Grouped
<1> QED
  BY <1>1, <1>2, <1>3, <1>4, <1>5, <1>6, <1>7 DEF Next

LEMMA GroupedDoNotLoop ==
  ASSUME TypeOK, Passed, Grouped
  PROVE  GroupsDoNotLoop
<1> SUFFICES ASSUME stage = "written",
                    (Elements(Names(out.proxies)) \cup Builtin) \cap Elements(Names(out.groups)) = {},
                    \A g, h \in Elements(cfg.groups) : h.name \notin Elements(g.members)
             PROVE  OnCycles = {}
  BY DEF GroupsDoNotLoop
<1> DEFINE regular == RealNodes(cfg, out.proxies)
           tags == RegionTags(cfg, regular)
           rank == [g \in Elements(out.groups) |-> Rank(g, cfg, regular, tags)]
<1>1. cfg \in Configurations
  BY DEF TypeOK
<1>2. IsList(out.proxies) /\ out.groups = BuildProxyGroups(cfg, out.proxies)
  BY DEF Grouped
<1>3. NoDuplicates(Names(out.groups))
  BY DEF Passed, Critical, SomeEqual
<1>4. IsList(out.groups)
  BY <1>1, <1>2, GroupsAre
<1>5. \A g \in Elements(out.groups) : g.name \notin Builtin \cup NodeNames(out.proxies)
  BY <1>2, <1>4, ListNames DEF NodeNames
<1>6. \A g, h \in Elements(out.groups) :
        h.name \in Elements(g.members) =>
          Rank(h, cfg, regular, tags) < Rank(g, cfg, regular, tags)
  BY <1>1, <1>2, <1>3, <1>5, RefersDown
<1> HIDE DEF regular, tags
<1>7. \A g \in Elements(out.groups) : rank[g] \in Nat
  <2> TAKE g \in Elements(out.groups)
  <2>1. Rank(g, cfg, regular, tags) \in 0 .. 4
    BY RankIs
  <2> QED
    BY <2>1
<1>8. \A g, h \in Elements(out.groups) : h \in References(g) => rank[h] < rank[g]
  BY <1>6 DEF References
<1> HIDE DEF rank
<1> QED
  BY <1>4, <1>7, <1>8, NothingIsLeft

(* The groups the program makes contain no cycle, for any catalog, regions *)
(* and nodes, beside any groups of the user's that do not contain each     *)
(* other: buildProxyGroups refers from the services to the main selection, *)
(* from there to the regions, from these to the tested groups, and from    *)
(* those to nodes, and the lint lets no other group take one of the names. *)
THEOREM GroupsHaveNoCycle == Spec => []GroupsDoNotLoop
<1>1. Init => Grouped
  <2> SUFFICES ASSUME Init  PROVE Grouped
    OBVIOUS
  <2>1. PICK i \in DOMAIN Inputs : nodes \in Inputs[i].nodes
    BY DEF Init, Elements
  <2>2. IsList(nodes)
    BY <2>1, InputsAssumption DEF IsList, Elements
  <2> QED
    BY <2>2 DEF Init, Grouped
<1>2. Grouped /\ [Next]_vars => Grouped'
  BY GroupedIsKept
<1>3. Init => Passed
  BY InputsAssumption DEF Init, TypeOK, Passed, Elements, NoOutput
<1>4. TypeOK /\ Passed /\ [Next]_vars => Passed'
  BY PassedIsKept
<1> QED
  BY <1>1, <1>2, <1>3, <1>4, TypesAreRight, GroupedDoNotLoop, PTL DEF Spec

-----------------------------------------------------------------------------
(* The entries of a source, and all of a collection.                       *)
EntriesFrom(c, kept, s) ==
  [i \in DOMAIN Editing!ListOf(c, kept, s) |->
     [name |-> Editing!ListOf(c, kept, s)[i].name,
      conn |-> Editing!ListOf(c, kept, s)[i].conn, source |-> s]]

EditSources == Editing!SubscriptionSet \cup {Editing!Inline}
EntrySet(c, kept) == UNION {Elements(EntriesFrom(c, kept, s)) : s \in EditSources}

Collected(u, c, kept) ==
  /\ u \in [0 .. Len(Subscription) -> Seq(EntrySet(c, kept))]
  /\ u[0] = EntriesFrom(c, kept, Editing!Inline)
  /\ u[Len(Subscription)] = Editing!Entries(c, kept)
  /\ \A k \in 1 .. Len(Subscription) : u[k] = u[k - 1] \o EntriesFrom(c, kept, Subscription[k])

LEMMA SubscriptionsAre ==
  /\ Len(Subscription) \in Nat /\ DOMAIN Subscription = 1 .. Len(Subscription)
  /\ \A k \in 1 .. Len(Subscription) : Subscription[k] \in Editing!SubscriptionSet
BY EditingAssumption, LenProperties DEF Editing!SubscriptionSet, Elements

LEMMA EntriesFromAre ==
  ASSUME NEW c, NEW kept \in Editing!Cache, NEW s \in EditSources
  PROVE  /\ EntriesFrom(c, kept, s) \in Seq(EntrySet(c, kept))
         /\ \A i \in DOMAIN EntriesFrom(c, kept, s) :
              EntriesFrom(c, kept, s)[i].source = s /\ c.mode[s] = "on"
<1> DEFINE list == Editing!ListOf(c, kept, s)
           es == EntriesFrom(c, kept, s)
<1>1. \E n \in Nat : DOMAIN list = 1 .. n
  <2>1. CASE c.mode[s] # "on" \/ (s # Editing!Inline /\ kept[s] = NoList)
    <3>1. list = <<>>
      BY <2>1, EditingAssumption DEF Editing!ListOf, EditSources
    <3> QED
      BY <3>1
  <2>2. CASE c.mode[s] = "on" /\ s = Editing!Inline
    <3>1. list = InlineList
      BY <2>2 DEF Editing!ListOf
    <3> QED
      BY <3>1, EditingAssumption
  <2>3. CASE c.mode[s] = "on" /\ s # Editing!Inline /\ kept[s] # NoList
    <3>1. list = Content[kept[s]] /\ kept[s] \in DOMAIN Content
      BY <2>3 DEF Editing!ListOf, EditSources, Editing!Cache
    <3> HIDE DEF list
    <3> QED
      BY <3>1, EditingAssumption
  <2> QED
    BY <2>1, <2>2, <2>3
<1>2. es \in Seq(Elements(es))
  <2>1. PICK n \in Nat : DOMAIN list = 1 .. n
    BY <1>1
  <2>2. DOMAIN es = 1 .. n
    BY <2>1 DEF EntriesFrom
  <2>3. es = [i \in 1 .. n |-> es[i]]
    BY <2>1 DEF EntriesFrom
  <2> HIDE DEF es
  <2>4. \A i \in 1 .. n : es[i] \in Elements(es)
    BY <2>2 DEF Elements
  <2> QED
    BY <2>3, <2>4, IsASeq
<1>3. Elements(es) \subseteq EntrySet(c, kept)
  BY DEF EntrySet
<1>4. es \in Seq(EntrySet(c, kept))
  <2> HIDE DEF es
  <2> QED
    BY <1>2, <1>3
<1>5. \A i \in DOMAIN es : es[i].source = s /\ c.mode[s] = "on"
  <2> TAKE i \in DOMAIN es
  <2>1. es[i].source = s
    BY DEF EntriesFrom
  <2>2. c.mode[s] = "on"
    BY DEF EntriesFrom, Editing!ListOf
  <2> QED
    BY <2>1, <2>2
<1> QED
  BY <1>4, <1>5

LEMMA EntriesSteps ==
  ASSUME NEW c, NEW kept \in Editing!Cache
  PROVE  \E u : Collected(u, c, kept)
<1> DEFINE n == Len(Subscription)
           X == EntrySet(c, kept)
           V == Seq(X)
           base == EntriesFrom(c, kept, Editing!Inline)
           next(v, s) == v \o EntriesFrom(c, kept, s)
           step == [p \in V \X (1 .. n) |-> next(p[1], Subscription[p[2]])]
           Solves(g) == g = [R \in SUBSET DOMAIN Subscription |->
                               IF R = {} THEN base
                               ELSE next(g[R \ {Editing!Max(R)}], Subscription[Editing!Max(R)])]
<1>0. base \in V /\ \A s \in EditSources : EntriesFrom(c, kept, s) \in V
  BY EntriesFromAre DEF EditSources
<1>1. Setting(n, V, base, step) /\ n \in Nat /\ DOMAIN Subscription = 1 .. n
  <2>1. \A k \in 1 .. n : Subscription[k] \in EditSources
    BY SubscriptionsAre DEF EditSources
  <2>2. \A v \in V, s \in EditSources : next(v, s) \in V
    <3> HIDE DEF base, X
    <3> QED
      BY <1>0
  <2>3. step \in [V \X (1 .. n) -> V]
    <3> HIDE DEF next, V, base, X
    <3> QED
      BY <2>1, <2>2
  <2> HIDE DEF step, base
  <2> QED
    BY <1>0, <2>3, SubscriptionsAre DEF Setting
<1>2. PICK f : f \in [SUBSET (1 .. n) -> V] /\ Folded(f, 1 .. n, base, step)
  <2> HIDE DEF step, V, n, base
  <2> QED
    BY <1>1, FoldExists
<1>3. \A v \in V, k \in 1 .. n : step[<<v, k>>] = next(v, Subscription[k])
  <2> HIDE DEF V, n, next
  <2> QED
    OBVIOUS
<1> HIDE DEF next, V, n, step, base
<1>12. \A S : Editing!Max(S) = Max(S)
  BY DEF Editing!Max, Max
<1>4. \E h : Solves(h)
  <2> SUFFICES Solves(f)
    <3> HIDE DEF Solves
    <3> QED
      OBVIOUS
  <2> SUFFICES ASSUME NEW R \in SUBSET (1 .. n)
               PROVE  f[R] = IF R = {} THEN base ELSE next(f[R \ {Max(R)}], Subscription[Max(R)])
    BY <1>1, <1>2, <1>12
  <2>1. R # {} => Max(R) \in 1 .. n /\ f[R \ {Max(R)}] \in V
    BY <1>1, <1>2, MaxWithin
  <2> QED
    BY <1>2, <1>3, <2>1 DEF Folded
<1> DEFINE g == CHOOSE h : Solves(h)
<1>5. Editing!Entries(c, kept) = g[DOMAIN Subscription]
  BY DEF Editing!Entries, Editing!FoldLeft, Editing!MapThenFoldSet, next, base, EntriesFrom, n
<1>6. Solves(g)
  <2> HIDE DEF Solves
  <2> QED
    BY <1>4
<1>7. \A R \in SUBSET (1 .. n) :
         g[R] = IF R = {} THEN base ELSE next(g[R \ {Max(R)}], Subscription[Max(R)])
  <2> HIDE DEF g
  <2> QED
    BY <1>1, <1>6, <1>12
<1> HIDE DEF g
<1>8. Stepwise(g, n, V, base, step)
  BY <1>1, <1>3, <1>7, MaxWithin DEF Stepwise
<1>9. PICK u : Results(u, n, V, base, step) /\ u[n] = g[1 .. n]
  BY <1>1, <1>8, FoldSteps
<1>10. \A k \in 1 .. n : u[k - 1] \in V
  BY <1>1, <1>9 DEF Results
<1>11. \A k \in 1 .. n : u[k] = next(u[k - 1], Subscription[k])
  BY <1>3, <1>9, <1>10 DEF Results
<1> QED
  BY <1>1, <1>5, <1>9, <1>11 DEF Results, n, V, next, base, Collected

(* The inline list comes first, and is all there is if nothing was fetched.*)
LEMMA EntriesAre ==
  ASSUME NEW c, NEW kept \in Editing!Cache
  PROVE  /\ Editing!Entries(c, kept) \in Seq(EntrySet(c, kept))
         /\ \A i \in DOMAIN Editing!Entries(c, kept) :
              /\ Editing!Entries(c, kept)[i].source \in EditSources
              /\ c.mode[Editing!Entries(c, kept)[i].source] = "on"
         /\ \A i \in DOMAIN EntriesFrom(c, kept, Editing!Inline) :
              /\ i \in DOMAIN Editing!Entries(c, kept)
              /\ Editing!Entries(c, kept)[i] = EntriesFrom(c, kept, Editing!Inline)[i]
<1> DEFINE n == Len(Subscription)
           X == EntrySet(c, kept)
           es == Editing!Entries(c, kept)
           base == EntriesFrom(c, kept, Editing!Inline)
<1>0. n \in Nat /\ \A k \in 1 .. n : Subscription[k] \in EditSources
  BY SubscriptionsAre DEF EditSources
<1>1. PICK u : Collected(u, c, kept)
  BY EntriesSteps
<1>2. es \in Seq(X)
  BY <1>0, <1>1 DEF Collected
<1>3. \A x \in X : x.source \in EditSources /\ c.mode[x.source] = "on"
  <2> TAKE x \in X
  <2>1. PICK s \in EditSources : x \in Elements(EntriesFrom(c, kept, s))
    BY DEF EntrySet
  <2>2. PICK i \in DOMAIN EntriesFrom(c, kept, s) : x = EntriesFrom(c, kept, s)[i]
    BY <2>1 DEF Elements
  <2> QED
    BY <2>2, EntriesFromAre
<1>4. \A i \in DOMAIN es : es[i] \in X
  <2> HIDE DEF es, X
  <2> QED
    BY <1>2
<1> DEFINE Begins(v) == \A i \in 1 .. Len(base) : i \in DOMAIN v /\ v[i] = base[i]
           Good == {k \in 0 .. n : Begins(u[k])}
<1>5. base \in Seq(X) /\ \A s \in EditSources : EntriesFrom(c, kept, s) \in Seq(X)
  BY EntriesFromAre DEF EditSources
<1>6. 0 \in Good
  <2>1. u[0] = base
    BY <1>1 DEF Collected
  <2>2. DOMAIN base = 1 .. Len(base)
    <3> HIDE DEF base, X
    <3> QED
      BY <1>5
  <2> HIDE DEF base
  <2> QED
    BY <1>0, <2>1, <2>2
<1>7. ASSUME NEW k \in 1 .. n, k - 1 \in Good  PROVE k \in Good
  <2> DEFINE v == u[k - 1]
             t == EntriesFrom(c, kept, Subscription[k])
  <2>1. v \in Seq(X) /\ t \in Seq(X) /\ u[k] = v \o t
    <3>1. k - 1 \in 0 .. n
      BY <1>0
    <3>2. u \in [0 .. n -> Seq(X)] /\ u[k] = u[k - 1] \o t
      BY <1>1 DEF Collected
    <3>3. t \in Seq(X)
      BY <1>0, <1>5
    <3> HIDE DEF n, X, t
    <3> QED
      BY <3>1, <3>2, <3>3
  <2>2. Begins(v)
    BY <1>7
  <2> HIDE DEF v, t, base, X
  <2>3. Begins(v \o t)
    <3>1. \A i \in DOMAIN v : i \in DOMAIN (v \o t) /\ (v \o t)[i] = v[i]
      BY <2>1
    <3> QED
      BY <2>2, <3>1
  <2> QED
    BY <2>1, <2>3
<1>8. Begins(es)
  <2>1. 0 .. n \subseteq Good
    <3> HIDE DEF Good
    <3> QED
      BY <1>0, <1>6, <1>7, UpTo
  <2>2. n \in Good
    BY <1>0, <2>1
  <2>3. u[n] = es
    BY <1>1 DEF Collected
  <2> HIDE DEF es, Begins
  <2> QED
    BY <2>2, <2>3
<1>9. DOMAIN base = 1 .. Len(base)
  <2> HIDE DEF base, X
  <2> QED
    BY <1>5
<1> HIDE DEF base, es, X
<1> QED
  BY <1>2, <1>3, <1>4, <1>8, <1>9 DEF es, base, X

LEMMA NothingIsCached == Editing!Nothing \in Editing!Cache
BY DEF Editing!Nothing, Editing!Cache

LEMMA EntriesOfNothing ==
  ASSUME NEW c, NEW kept \in Editing!Cache
  PROVE  Editing!Entries(c, Editing!Nothing) = EntriesFrom(c, kept, Editing!Inline)
<1> DEFINE n == Len(Subscription)
           none == Editing!Nothing
           base == EntriesFrom(c, none, Editing!Inline)
           X == EntrySet(c, none)
<1>0. n \in Nat /\ \A k \in 1 .. n : Subscription[k] \in Editing!SubscriptionSet
  BY SubscriptionsAre
<1>1. PICK u : Collected(u, c, none)
  BY NothingIsCached, EntriesSteps
<1>2. \A s \in Editing!SubscriptionSet : EntriesFrom(c, none, s) = <<>>
  <2> TAKE s \in Editing!SubscriptionSet
  <2>1. Editing!ListOf(c, none, s) = <<>>
    BY EditingAssumption DEF Editing!ListOf, Editing!Nothing
  <2> QED
    BY <2>1 DEF EntriesFrom
<1> DEFINE Good == {k \in 0 .. n : u[k] = base}
<1>3. 0 \in Good
  BY <1>0, <1>1 DEF Collected
<1>4. base \in Seq(X)
  BY NothingIsCached, EntriesFromAre DEF EditSources
<1>5. ASSUME NEW k \in 1 .. n, k - 1 \in Good  PROVE k \in Good
  <2>1. u[k] = u[k - 1] \o <<>>
    BY <1>0, <1>1, <1>2 DEF Collected
  <2>2. u[k - 1] = base
    BY <1>5
  <2>3. base \o <<>> = base
    <3> HIDE DEF base, X
    <3> QED
      BY <1>4
  <2> HIDE DEF base
  <2> QED
    BY <2>1, <2>2, <2>3
<1>6. 0 .. n \subseteq Good
  <2> HIDE DEF Good
  <2> QED
    BY <1>0, <1>3, <1>5, UpTo
<1>7. u[n] = base
  BY <1>0, <1>6
<1>8. Editing!ListOf(c, none, Editing!Inline) = Editing!ListOf(c, kept, Editing!Inline)
  BY DEF Editing!ListOf
<1> QED
  BY <1>1, <1>7, <1>8 DEF Collected, EntriesFrom

-----------------------------------------------------------------------------
(* The rows of the editor.                                                 *)
EntryID(c, kept, i) == Editing!NodeID(c, Editing!Entries(c, kept)[i], i)
Alike(c, kept, i) ==
  {k \in DOMAIN Editing!Entries(c, kept) : EntryID(c, kept, k) = EntryID(c, kept, i)}
Firsts(c, kept) ==
  {k \in DOMAIN Editing!Entries(c, kept) :
     \A j \in 1 .. (k - 1) : EntryID(c, kept, j) # EntryID(c, kept, k)}
RowAt(c, kept, i) ==
  LET e == Editing!Entries(c, kept)[i]
  IN  [id |-> EntryID(c, kept, i), name |-> e.name, conn |-> e.conn, source |-> e.source,
       sources |-> {Editing!Entries(c, kept)[j].source : j \in Alike(c, kept, i)}]

LEMMA RowsAre ==
  ASSUME NEW c \in Configs, NEW kept \in Editing!Cache
  PROVE  Editing!Rows[c][kept] = {RowAt(c, kept, i) : i \in Firsts(c, kept)}
<1> DEFINE es == Editing!Entries(c, kept)
           id(i) == Editing!NodeID(c, es[i], i)
           firsts == {k \in DOMAIN es : \A j \in 1 .. (k - 1) : id(j) # id(k)}
           row(i) == [id |-> id(i), name |-> es[i].name, conn |-> es[i].conn,
                      source |-> es[i].source,
                      sources |-> {es[j].source : j \in {k \in DOMAIN es : id(k) = id(i)}}]
<1>1. Editing!Rows[c][kept] = {row(i) : i \in firsts}
  BY DEF Editing!Rows
<1>2. \E n \in Nat : DOMAIN es = 1 .. n
  <2>1. es \in Seq(EntrySet(c, kept))
    BY EntriesAre
  <2> HIDE DEF es
  <2> QED
    BY <2>1
<1>3. \A k \in DOMAIN es : id(k) = EntryID(c, kept, k) /\ \A j \in 1 .. (k - 1) : j \in DOMAIN es
  <2> HIDE DEF es
  <2> QED
    BY <1>2 DEF es, EntryID
<1>4. firsts = Firsts(c, kept)
  BY <1>3 DEF Firsts
<1>5. \A i \in DOMAIN es : {k \in DOMAIN es : id(k) = id(i)} = Alike(c, kept, i)
  BY <1>3 DEF Alike
<1>6. \A i \in firsts : row(i) = RowAt(c, kept, i)
  BY <1>3, <1>5 DEF RowAt
<1> HIDE DEF row, firsts
<1> QED
  BY <1>1, <1>4, <1>6

(* One row for each ID.                                                    *)
LEMMA EntryHasRow ==
  ASSUME NEW c \in Configs, NEW kept \in Editing!Cache, NEW i \in DOMAIN Editing!Entries(c, kept)
  PROVE  \E r \in Editing!Rows[c][kept] :
           r.id = EntryID(c, kept, i) /\ Editing!Entries(c, kept)[i].source \in r.sources
<1> DEFINE es == Editing!Entries(c, kept)
<1>1. \E n \in Nat : DOMAIN es = 1 .. n
  <2>1. es \in Seq(EntrySet(c, kept))
    BY EntriesAre
  <2> HIDE DEF es
  <2> QED
    BY <2>1
<1>2. PICK k \in Alike(c, kept, i) : \A j \in Alike(c, kept, i) : k <= j
  <2>1. Alike(c, kept, i) \in SUBSET Nat /\ i \in Alike(c, kept, i)
    BY <1>1 DEF Alike
  <2> QED
    BY <2>1, LeastNatural
<1>3. k \in DOMAIN es /\ EntryID(c, kept, k) = EntryID(c, kept, i)
  BY <1>2 DEF Alike
<1>4. k \in Firsts(c, kept)
  <2> SUFFICES ASSUME NEW j \in 1 .. (k - 1), EntryID(c, kept, j) = EntryID(c, kept, k)
               PROVE  FALSE
    BY <1>3 DEF Firsts
  <2>1. j \in DOMAIN es /\ ~(k <= j)
    <3> HIDE DEF es
    <3> QED
      BY <1>1, <1>3
  <2>2. j \in Alike(c, kept, i)
    BY <2>1, <1>3 DEF Alike
  <2> QED
    BY <2>1, <2>2, <1>2
<1>5. RowAt(c, kept, k) \in Editing!Rows[c][kept]
  BY <1>4, RowsAre
<1>6. Alike(c, kept, k) = Alike(c, kept, i) /\ i \in Alike(c, kept, i)
  BY <1>3 DEF Alike
<1>7. RowAt(c, kept, k).id = EntryID(c, kept, i) /\ es[i].source \in RowAt(c, kept, k).sources
  BY <1>3, <1>6 DEF RowAt
<1> QED
  BY <1>5, <1>7

LEMMA RowsDiffer ==
  ASSUME NEW c \in Configs, NEW kept \in Editing!Cache,
         NEW r \in Editing!Rows[c][kept], NEW q \in Editing!Rows[c][kept], r.id = q.id
  PROVE  r = q
<1>1. PICK i \in Firsts(c, kept) : r = RowAt(c, kept, i)
  BY RowsAre
<1>2. PICK j \in Firsts(c, kept) : q = RowAt(c, kept, j)
  BY RowsAre
<1>3. EntryID(c, kept, i) = EntryID(c, kept, j)
  BY <1>1, <1>2 DEF RowAt
<1>4. \E n \in Nat : DOMAIN Editing!Entries(c, kept) = 1 .. n
  <2>1. Editing!Entries(c, kept) \in Seq(EntrySet(c, kept))
    BY EntriesAre
  <2>2. \A X, z : z \in Seq(X) => \E n \in Nat : DOMAIN z = 1 .. n
    OBVIOUS
  <2> QED
    BY <2>1, <2>2
<1>5. i = j
  <2>1. i \in Nat \ {0} /\ j \in Nat \ {0}
    <3>1. i \in DOMAIN Editing!Entries(c, kept) /\ j \in DOMAIN Editing!Entries(c, kept)
      BY DEF Firsts
    <3> QED
      BY <1>4, <3>1
  <2>2. /\ \A k \in 1 .. (j - 1) : EntryID(c, kept, k) # EntryID(c, kept, j)
        /\ \A k \in 1 .. (i - 1) : EntryID(c, kept, k) # EntryID(c, kept, i)
    BY DEF Firsts
  <2>3. i \notin 1 .. (j - 1) /\ j \notin 1 .. (i - 1)
    BY <2>2, <1>3
  <2> HIDE <1>1, <1>2, <1>3
  <2> QED
    BY <2>1, <2>3
<1> QED
  BY <1>1, <1>2, <1>5

LEMMA RowsAreFinite ==
  ASSUME NEW c \in Configs, NEW kept \in Editing!Cache
  PROVE  IsFiniteSet(Editing!Rows[c][kept])
<1> DEFINE S == Firsts(c, kept)
           es == Editing!Entries(c, kept)
           f == [i \in S |-> RowAt(c, kept, i)]
<1>1. IsFiniteSet(S)
  <2>1. es \in Seq(EntrySet(c, kept))
    BY EntriesAre
  <2>2. PICK n \in Nat : DOMAIN es = 1 .. n
    <3> HIDE DEF es
    <3> QED
      BY <2>1
  <2>3. IsFiniteSet(1 .. n) /\ S \subseteq 1 .. n
    BY <2>2, FS_Interval DEF Firsts
  <2> QED
    BY <2>3, FS_Subset
<1>2. Editing!Rows[c][kept] = {f[i] : i \in S}
  BY RowsAre
<1>3. f \in Surjection(S, {f[i] : i \in S})
  BY DEF Surjection
<1> HIDE DEF f, S
<1> QED
  BY <1>1, <1>2, <1>3, FS_Surjection

LEMMA RowIs ==
  ASSUME NEW c \in Configs, NEW kept \in Editing!Cache, NEW r \in Editing!Rows[c][kept]
  PROVE  /\ r.source \in r.sources /\ r.source # Editing!Custom
         /\ \A s \in r.sources : s \in EditSources /\ c.mode[s] = "on"
         /\ r.id[2] # Editing!Custom
<1> DEFINE es == Editing!Entries(c, kept)
<1>1. PICK i \in Firsts(c, kept) : r = RowAt(c, kept, i)
  BY RowsAre
<1>2. i \in DOMAIN es /\ i \in Alike(c, kept, i)
  BY DEF Firsts, Alike
<1>3. r.source = es[i].source /\ r.sources = {es[j].source : j \in Alike(c, kept, i)}
      /\ r.id = EntryID(c, kept, i)
  BY <1>1 DEF RowAt
<1>4. \A j \in Alike(c, kept, i) : j \in DOMAIN es
  BY DEF Alike
<1>5. \A s \in r.sources : s \in EditSources /\ c.mode[s] = "on"
  <2> TAKE s \in r.sources
  <2>1. PICK j \in DOMAIN es : s = es[j].source
    BY <1>3, <1>4
  <2> QED
    BY <2>1, EntriesAre
<1>6. Editing!Custom \notin EditSources /\ Editing!Custom # ""
  BY EditingAssumption DEF EditSources, Editing!Custom, Editing!Inline
<1>7. r.source \in r.sources
  BY <1>2, <1>3
<1>8. r.id[2] # Editing!Custom
  <2>1. es[i].source # Editing!Custom
    BY <1>3, <1>5, <1>6, <1>7
  <2>2. c.scope \in {"global", "per_source", "none"}
    BY EditingAssumption
  <2>3. CASE c.scope = "global"
    <3>1. EntryID(c, kept, i) = <<es[i].conn, "", 0>>
      BY <2>3 DEF EntryID, Editing!NodeID
    <3>2. <<es[i].conn, "", 0>>[2] = ""
      OBVIOUS
    <3> HIDE DEF es
    <3>3. r.id[2] = ""
      BY <1>3, <3>1, <3>2
    <3> QED
      BY <1>6, <3>3
  <2>4. CASE c.scope = "per_source"
    BY <1>3, <2>1, <2>4 DEF EntryID, Editing!NodeID
  <2>5. CASE c.scope = "none"
    BY <1>3, <2>1, <2>5 DEF EntryID, Editing!NodeID
  <2> QED
    BY <2>2, <2>3, <2>4, <2>5
<1> QED
  BY <1>5, <1>6, <1>7, <1>8

(* What the inline list has under an ID is there whatever is fetched.      *)
LEMMA RowsOfNothing ==
  ASSUME NEW c \in Configs, NEW kept \in Editing!Cache,
         NEW r \in Editing!Rows[c][Editing!Nothing]
  PROVE  \E q \in Editing!Rows[c][kept] : q.id = r.id /\ r.sources \subseteq q.sources
<1> DEFINE few == Editing!Entries(c, Editing!Nothing)
           es == Editing!Entries(c, kept)
<1>1. PICK i \in Firsts(c, Editing!Nothing) : r = RowAt(c, Editing!Nothing, i)
  BY NothingIsCached, RowsAre
<1>2. \A j \in DOMAIN few : /\ j \in DOMAIN es /\ es[j] = few[j]
                            /\ few[j].source = Editing!Inline
  <2>1. few = EntriesFrom(c, kept, Editing!Inline) /\ Editing!Inline \in EditSources
    BY EntriesOfNothing DEF EditSources
  <2>2. \A j \in DOMAIN EntriesFrom(c, kept, Editing!Inline) :
          EntriesFrom(c, kept, Editing!Inline)[j].source = Editing!Inline
    BY DEF EntriesFrom
  <2> HIDE DEF few
  <2> QED
    BY <2>1, <2>2, EntriesAre
<1>3. i \in DOMAIN few /\ i \in DOMAIN es
  BY <1>2 DEF Firsts
<1>4. EntryID(c, kept, i) = EntryID(c, Editing!Nothing, i)
  BY <1>2, <1>3 DEF EntryID
<1>5. PICK q \in Editing!Rows[c][kept] : q.id = EntryID(c, kept, i) /\ es[i].source \in q.sources
  BY <1>3, EntryHasRow
<1>6. r.id = EntryID(c, Editing!Nothing, i) /\ r.sources \subseteq {Editing!Inline}
  <2>1. r.sources = {few[j].source : j \in Alike(c, Editing!Nothing, i)}
    BY <1>1 DEF RowAt
  <2>2. \A j \in Alike(c, Editing!Nothing, i) : j \in DOMAIN few
    BY DEF Alike
  <2> QED
    BY <1>1, <1>2, <2>1, <2>2 DEF RowAt
<1>7. es[i].source = Editing!Inline
  BY <1>2, <1>3
<1> QED
  BY <1>4, <1>5, <1>6, <1>7

-----------------------------------------------------------------------------
(* What the editor shows: the rows of the sources and the custom nodes.    *)
CustomsDiffer(s) ==
  \A a, b \in s.custom : Editing!CustomID(a) = Editing!CustomID(b) => a = b

LEMMA CustomRowIs ==
  ASSUME NEW s, NEW r \in Editing!CustomRows(s)
  PROVE  /\ r.id[2] = Editing!Custom /\ r.id[1] = r.conn
         /\ r.source = Editing!Custom /\ r.sources = {Editing!Custom}
         /\ r.sources \cap Editing!SubscriptionSet = {}
         /\ r = [id |-> r.id, name |-> r.name, conn |-> r.conn, source |-> r.source,
                 sources |-> r.sources]
<1>1. PICK a \in s.custom :
        r = [id |-> Editing!CustomID(a), name |-> a.name, conn |-> a.conn,
             source |-> Editing!Custom, sources |-> {Editing!Custom}]
  BY DEF Editing!CustomRows
<1>2. Editing!CustomID(a)[2] = Editing!Custom /\ Editing!CustomID(a)[1] = a.conn
  BY DEF Editing!CustomID
<1> QED
  BY <1>1, <1>2, EditingAssumption

LEMMA RowHas ==
  ASSUME NEW c \in Configs, NEW kept \in Editing!Cache, NEW r \in Editing!Rows[c][kept]
  PROVE  /\ r.id[1] = r.conn
         /\ r = [id |-> r.id, name |-> r.name, conn |-> r.conn, source |-> r.source,
                 sources |-> r.sources]
<1>1. PICK i \in Firsts(c, kept) : r = RowAt(c, kept, i)
  BY RowsAre
<1> DEFINE e == Editing!Entries(c, kept)[i]
<1>2. c.scope \in {"global", "per_source", "none"}
  BY EditingAssumption
<1>3. EntryID(c, kept, i)[1] = e.conn
  BY <1>2 DEF EntryID, Editing!NodeID
<1>4. r.id = EntryID(c, kept, i) /\ r.conn = e.conn
  BY <1>1 DEF RowAt
<1>5. r = [id |-> r.id, name |-> r.name, conn |-> r.conn, source |-> r.source,
           sources |-> r.sources]
  BY <1>1 DEF RowAt
<1> QED
  BY <1>3, <1>4, <1>5

LEMMA OriginalDiffer ==
  ASSUME NEW c \in Configs, NEW kept \in Editing!Cache, NEW s, CustomsDiffer(s),
         NEW r \in Editing!Original(c, kept, s), NEW q \in Editing!Original(c, kept, s),
         r.id = q.id
  PROVE  r = q
<1>1. CASE r \in Editing!CustomRows(s) /\ q \in Editing!CustomRows(s)
  BY <1>1 DEF Editing!CustomRows, CustomsDiffer
<1>2. CASE r \in Editing!Rows[c][kept] /\ q \in Editing!Rows[c][kept]
  BY <1>2, RowsDiffer
<1>3. CASE r \in Editing!Rows[c][kept] /\ q \in Editing!CustomRows(s)
  BY <1>3, RowIs, CustomRowIs
<1>4. CASE q \in Editing!Rows[c][kept] /\ r \in Editing!CustomRows(s)
  BY <1>4, RowIs, CustomRowIs
<1> QED
  BY <1>1, <1>2, <1>3, <1>4 DEF Editing!Original

(* A name means a node if one row of the source has it.                    *)
IsSignature(y) == y = <<y[1], y[2]>> /\ y[1] \in Editing!SubscriptionSet

LEMMA SignatureNames ==
  ASSUME NEW rows, NEW y, IsSignature(y)
  PROVE  {r.id : r \in {q \in rows : y \in Editing!Signatures(q)}} = Editing!Named(rows, y)
<1>1. ASSUME NEW q \in rows
      PROVE  y \in Editing!Signatures(q) <=> y[1] \in q.sources /\ y[2] = q.name
  <2>1. y = <<y[1], y[2]>> /\ y[1] \in Editing!SubscriptionSet
    BY DEF IsSignature
  <2>2. ASSUME y \in Editing!Signatures(q)  PROVE y[1] \in q.sources /\ y[2] = q.name
    <3>1. PICK z \in q.sources \cap Editing!SubscriptionSet : y = <<z, q.name>>
      BY <2>2 DEF Editing!Signatures
    <3> QED
      BY <3>1
  <2>3. ASSUME y[1] \in q.sources, y[2] = q.name  PROVE y \in Editing!Signatures(q)
    <3>1. y = <<y[1], q.name>>
      BY <2>1, <2>3
    <3> QED
      BY <2>1, <2>3, <3>1 DEF Editing!Signatures
  <2> QED
    BY <2>2, <2>3
<1> QED
  BY <1>1 DEF Editing!Named

LEMMA OwnerNamed ==
  ASSUME NEW c \in Configs, NEW kept \in Editing!Cache, NEW s, NEW y, IsSignature(y), NEW id
  PROVE  LET rows == Editing!Original(c, kept, s)
         IN  id \in Editing!Owners(rows, y) <=> Editing!Named(rows, y) = {id}
<1> DEFINE rows == Editing!Original(c, kept, s)
           named == Editing!Named(rows, y)
<1>1. IsFiniteSet(named)
  <2> DEFINE few == Editing!Rows[c][kept]
             f == [r \in few |-> r.id]
  <2>1. named \subseteq {f[r] : r \in few}
    <3> SUFFICES ASSUME NEW q \in rows, y[1] \in q.sources  PROVE q \in few
      BY DEF Editing!Named
    <3>1. q \notin Editing!CustomRows(s)
      BY CustomRowIs DEF IsSignature
    <3> QED
      BY <3>1 DEF Editing!Original
  <2>2. f \in Surjection(few, {f[r] : r \in few})
    BY DEF Surjection
  <2>3. IsFiniteSet(few)
    BY RowsAreFinite
  <2> HIDE DEF f, few
  <2>4. IsFiniteSet({f[r] : r \in few})
    BY <2>2, <2>3, FS_Surjection
  <2> QED
    BY <2>1, <2>4, FS_Subset
<1>2. Editing!Owners(rows, y) = IF Cardinality(named) = 1 THEN named ELSE {}
  <2> HIDE DEF rows
  <2> DEFINE owners == {r.id : r \in {q \in rows : y \in Editing!Signatures(q)}}
  <2>1. owners = named
    BY SignatureNames
  <2>2. Editing!Owners(rows, y) = IF Cardinality(owners) = 1 THEN owners ELSE {}
    <3>1. Editing!Cardinality(owners) = Cardinality(owners)
      BY DEF Editing!Cardinality, Cardinality
    <3> QED
      BY <3>1 DEF Editing!Owners
  <2> QED
    BY <2>1, <2>2
<1> HIDE DEF named
<1>3. Cardinality(named) = 1 <=> \E x : named = {x}
  BY <1>1, FS_Singleton
<1> QED
  BY <1>2, <1>3 DEF named

LEMMA UniqueSignaturesAre ==
  ASSUME NEW c \in Configs, NEW kept \in Editing!Cache, NEW s, NEW id,
         NEW y \in Editing!UniqueSignatures(Editing!Original(c, kept, s), id)
  PROVE  IsSignature(y)
<1>1. PICK r \in Editing!Original(c, kept, s) : y \in Editing!Signatures(r)
  BY DEF Editing!UniqueSignatures
<1>2. PICK z \in r.sources \cap Editing!SubscriptionSet : y = <<z, r.name>>
  BY <1>1 DEF Editing!Signatures
<1> QED
  BY <1>2 DEF IsSignature

(* Overrides leave IDs and sources alone; custom nodes have no subscription*)
LEMMA ShownAre ==
  ASSUME NEW c \in Configs, NEW kept \in Editing!Cache, NEW s
  PROVE  /\ Editing!IDs(Editing!Shown(c, kept, s)) = Editing!IDs(Editing!Original(c, kept, s))
         /\ \A d : Editing!SourcesOf(Editing!Shown(c, kept, s), d)
                     = Editing!SourcesOf(Editing!Original(c, kept, s), d)
         /\ \A d : Editing!SourcesOf(Editing!Original(c, kept, s), d) \cap Editing!SubscriptionSet
                     = Editing!SourcesOf(Editing!Rows[c][kept], d) \cap Editing!SubscriptionSet
<1> DEFINE rows == Editing!Original(c, kept, s)
<1>1. \A r \in rows : r = [id |-> r.id, name |-> r.name, conn |-> r.conn, source |-> r.source,
                           sources |-> r.sources]
  BY RowHas, CustomRowIs DEF Editing!Original
<1>2. \A r \in rows : /\ Editing!Renamed(r, s).id = r.id
                      /\ Editing!Renamed(r, s).sources = r.sources
  BY <1>1 DEF Editing!Renamed
<1>3. Editing!Shown(c, kept, s) = {Editing!Renamed(r, s) : r \in rows}
  BY DEF Editing!Shown
<1>4. \A r \in Editing!CustomRows(s) : r.sources \cap Editing!SubscriptionSet = {}
  BY CustomRowIs
<1>5. rows = Editing!Rows[c][kept] \cup Editing!CustomRows(s)
  BY DEF Editing!Original
<1> HIDE DEF rows
<1>6. Editing!IDs(Editing!Shown(c, kept, s)) = Editing!IDs(rows)
  BY <1>2, <1>3 DEF Editing!IDs
<1>7. \A d : Editing!SourcesOf(Editing!Shown(c, kept, s), d) = Editing!SourcesOf(rows, d)
  <2> TAKE d
  <2>1. \A z : z \in Editing!SourcesOf(Editing!Shown(c, kept, s), d)
                 <=> z \in Editing!SourcesOf(rows, d)
    BY <1>2, <1>3 DEF Editing!SourcesOf
  <2> QED
    BY <2>1 DEF Editing!SourcesOf
<1>8. \A d : Editing!SourcesOf(rows, d) \cap Editing!SubscriptionSet
               = Editing!SourcesOf(Editing!Rows[c][kept], d) \cap Editing!SubscriptionSet
  BY <1>4, <1>5 DEF Editing!SourcesOf
<1> QED
  BY <1>6, <1>7, <1>8 DEF rows

-----------------------------------------------------------------------------
(* What the node state and the history agree on.                           *)
IsState(s) ==
  /\ s = [overrides |-> s.overrides, disabled |-> s.disabled, deleted |-> s.deleted,
          custom |-> s.custom, audit |-> s.audit]
  /\ \A d \in DOMAIN s.deleted :
       /\ s.deleted[d] = [sources |-> s.deleted[d].sources,
                          signatures |-> s.deleted[d].signatures]
       /\ s.deleted[d].sources \subseteq Editing!SubscriptionSet
  /\ \A a \in s.audit : a[2] \in Editing!SubscriptionSet
  /\ CustomsDiffer(s)

IsDeletion(x) ==
  /\ x = [id |-> x.id, names |-> x.names, later |-> x.later, sources |-> x.sources,
          seen |-> x.seen, firm |-> x.firm]
  /\ x.firm \in BOOLEAN
  /\ \A y \in x.names \cup x.later : IsSignature(y)
  /\ x.id[2] # Editing!Custom

(* A record is of a deletion, has its names, and knows what was seen.      *)
Matches(s, d, x) ==
  /\ x.id = d /\ s.deleted[d].signatures = x.names \cup x.later
  /\ s.deleted[d].sources \subseteq x.seen

RecordsAreKnown(s, g) == \A d \in DOMAIN s.deleted : \E x \in g : Matches(s, d, x)

(* The history has all sources of a node that the state can hear of.       *)
SeenIsComplete(c, kept, s, g) ==
  \A x \in g : /\ Editing!SourcesOf(Editing!Rows[c][kept], x.id) \subseteq x.seen
               /\ \A a \in s.audit : a[1] = x.id => a[2] \in x.seen

(* A deletion that has to last has a record that will.                     *)
Recorded(c, s, x) ==
  /\ x.id \in DOMAIN s.deleted
  /\ x.names \subseteq s.deleted[x.id].signatures
  /\ x.sources \cap Editing!SubscriptionSet \subseteq s.deleted[x.id].sources
  /\ s.deleted[x.id].sources \subseteq x.seen
  /\ Editing!Lasting(c, x)

FirmIsRecorded(c, s, g) == \A x \in g : x.firm => Recorded(c, s, x)

Remembered(c, kept, s, g) ==
  /\ IsState(s) /\ \A x \in g : IsDeletion(x)
  /\ RecordsAreKnown(s, g) /\ SeenIsComplete(c, kept, s, g) /\ FirmIsRecorded(c, s, g)

(* t has records of s, with sources the node was seen in.                  *)
Evidence(c, kept, s, d) ==
  (Editing!SourcesOf(Editing!Rows[c][kept], d) \cap Editing!SubscriptionSet)
    \cup {a[2] : a \in {b \in s.audit : b[1] = d}}

Follows(c, kept, s, t) ==
  /\ IsState(t) /\ t.custom = s.custom /\ t.audit \subseteq s.audit
  /\ DOMAIN t.deleted \subseteq DOMAIN s.deleted
  /\ \A d \in DOMAIN t.deleted :
       /\ t.deleted[d].signatures = s.deleted[d].signatures
       /\ s.deleted[d].sources \subseteq t.deleted[d].sources
       /\ t.deleted[d].sources \subseteq s.deleted[d].sources \cup Evidence(c, kept, s, d)

LEMMA FollowsOn ==
  ASSUME NEW c, NEW kept, NEW s, NEW t, NEW u, Follows(c, kept, s, t), Follows(c, kept, t, u)
  PROVE  Follows(c, kept, s, u)
<1>1. \A d : Evidence(c, kept, t, d) \subseteq Evidence(c, kept, s, d)
  BY DEF Follows, Evidence
<1> QED
  BY <1>1 DEF Follows

LEMMA FollowsItself ==
  ASSUME NEW c, NEW kept, NEW s, IsState(s)
  PROVE  Follows(c, kept, s, s)
BY DEF Follows

(* Pruning a state leaves the history true, if the lasting records stay.   *)
LEMMA StillRemembered ==
  ASSUME NEW c, NEW new, NEW kept, NEW s, NEW t, NEW g, Remembered(c, kept, s, g),
         Follows(c, kept, s, t),
         \A x \in g : x.firm /\ Editing!Lasting(new, x) => x.id \in DOMAIN t.deleted
  PROVE  /\ RecordsAreKnown(t, g)
         /\ SeenIsComplete(c, kept, t, g)
         /\ \A x \in g : x.firm /\ Editing!Lasting(new, x) => Recorded(new, t, x)
<1>1. ASSUME NEW x \in g  PROVE Evidence(c, kept, s, x.id) \subseteq x.seen
  BY DEF Remembered, SeenIsComplete, Evidence
<1>2. RecordsAreKnown(t, g)
  <2> SUFFICES ASSUME NEW d \in DOMAIN t.deleted  PROVE \E x \in g : Matches(t, d, x)
    BY DEF RecordsAreKnown
  <2>1. PICK x \in g : Matches(s, d, x)
    BY DEF Remembered, RecordsAreKnown, Follows
  <2> QED
    BY <1>1, <2>1 DEF Matches, Follows
<1>3. SeenIsComplete(c, kept, t, g)
  BY DEF Remembered, SeenIsComplete, Follows
<1>4. ASSUME NEW x \in g, x.firm, Editing!Lasting(new, x)  PROVE Recorded(new, t, x)
  <2>1. Recorded(c, s, x)
    BY <1>4 DEF Remembered, FirmIsRecorded
  <2>2. x.id \in DOMAIN t.deleted
    BY <1>4
  <2> QED
    BY <1>1, <1>4, <2>1, <2>2 DEF Recorded, Follows
<1> QED
  BY <1>2, <1>3, <1>4

(* Pruning first writes sources into the records.                          *)
Enriched(s, more) ==
  [overrides |-> s.overrides, disabled |-> s.disabled,
   deleted |-> [d \in DOMAIN s.deleted |->
                 [sources |-> s.deleted[d].sources \cup more[d],
                  signatures |-> s.deleted[d].signatures]],
   custom |-> s.custom, audit |-> s.audit]

LEMMA EnrichedFollows ==
  ASSUME NEW c, NEW kept, NEW s, IsState(s), NEW more,
         \A d \in DOMAIN s.deleted : /\ more[d] \subseteq Editing!SubscriptionSet
                                     /\ more[d] \subseteq Evidence(c, kept, s, d)
  PROVE  /\ Follows(c, kept, s, Enriched(s, more))
         /\ DOMAIN Enriched(s, more).deleted = DOMAIN s.deleted
<1> DEFINE t == Enriched(s, more)
<1>1. /\ t.deleted = [d \in DOMAIN s.deleted |->
                        [sources |-> s.deleted[d].sources \cup more[d],
                         signatures |-> s.deleted[d].signatures]]
      /\ t.custom = s.custom /\ t.audit = s.audit
      /\ t = [overrides |-> t.overrides, disabled |-> t.disabled, deleted |-> t.deleted,
              custom |-> t.custom, audit |-> t.audit]
  BY DEF Enriched
<1> HIDE DEF t
<1>2. DOMAIN t.deleted = DOMAIN s.deleted
  BY <1>1
<1>3. ASSUME NEW d \in DOMAIN s.deleted
      PROVE  /\ t.deleted[d].sources = s.deleted[d].sources \cup more[d]
             /\ t.deleted[d].signatures = s.deleted[d].signatures
             /\ t.deleted[d] = [sources |-> t.deleted[d].sources,
                                signatures |-> t.deleted[d].signatures]
  <2>1. t.deleted[d] = [sources |-> s.deleted[d].sources \cup more[d],
                        signatures |-> s.deleted[d].signatures]
    BY <1>1, Zenon
  <2> QED
    BY <2>1
<1>4. IsState(t)
  <2>1. (\A a \in t.audit : a[2] \in Editing!SubscriptionSet) /\ CustomsDiffer(t)
    BY <1>1 DEF IsState, CustomsDiffer
  <2>2. ASSUME NEW d \in DOMAIN t.deleted
        PROVE  t.deleted[d].sources \subseteq Editing!SubscriptionSet
    <3>1. d \in DOMAIN s.deleted /\ t.deleted[d].sources = s.deleted[d].sources \cup more[d]
      BY <1>2, <1>3
    <3>2. s.deleted[d].sources \subseteq Editing!SubscriptionSet
      BY <3>1 DEF IsState
    <3> QED
      BY <3>1, <3>2
  <2> QED
    BY <1>1, <1>2, <1>3, <2>1, <2>2 DEF IsState
<1> QED
  BY <1>1, <1>2, <1>3, <1>4 DEF Follows, t

LEMMA AuditFollows ==
  ASSUME NEW c, NEW kept, NEW s, IsState(s)
  PROVE  /\ Follows(c, kept, s, Editing!RememberAudit(s))
         /\ DOMAIN Editing!RememberAudit(s).deleted = DOMAIN s.deleted
<1> DEFINE more == [d \in DOMAIN s.deleted |-> {x[2] : x \in {y \in s.audit : y[1] = d}}]
           known == [d \in DOMAIN s.deleted |->
                      [s.deleted[d] EXCEPT !.sources =
                         @ \cup {x[2] : x \in {y \in s.audit : y[1] = d}}]]
<1>1. Editing!RememberAudit(s) = [s EXCEPT !.deleted = known]
  BY DEF Editing!RememberAudit
<1>2. known = [d \in DOMAIN s.deleted |->
                [sources |-> s.deleted[d].sources \cup more[d],
                 signatures |-> s.deleted[d].signatures]]
  <2> SUFFICES ASSUME NEW d \in DOMAIN s.deleted
               PROVE  known[d] = [sources |-> s.deleted[d].sources \cup more[d],
                                  signatures |-> s.deleted[d].signatures]
    OBVIOUS
  <2> HIDE DEF more
  <2>1. known[d] = [s.deleted[d] EXCEPT !.sources = @ \cup more[d]]
    BY DEF more
  <2>2. s.deleted[d] = [sources |-> s.deleted[d].sources, signatures |-> s.deleted[d].signatures]
    BY DEF IsState
  <2> HIDE DEF known
  <2> QED
    BY <2>1, <2>2
<1>3. \A d \in DOMAIN s.deleted : /\ more[d] \subseteq Editing!SubscriptionSet
                                  /\ more[d] \subseteq Evidence(c, kept, s, d)
  BY DEF IsState, Evidence
<1> HIDE DEF known, more
<1>4. Editing!RememberAudit(s) = Enriched(s, more)
  BY <1>1, <1>2 DEF Enriched, IsState
<1> QED
  BY <1>3, <1>4, EnrichedFollows

LEMMA SourcesFollow ==
  ASSUME NEW c, NEW kept, NEW s, IsState(s), NEW rows,
         \A d : Editing!SourcesOf(rows, d) \cap Editing!SubscriptionSet
                  = Editing!SourcesOf(Editing!Rows[c][kept], d) \cap Editing!SubscriptionSet
  PROVE  LET t == [s EXCEPT !.deleted = Editing!RememberSources(@, rows)]
         IN  Follows(c, kept, s, t) /\ DOMAIN t.deleted = DOMAIN s.deleted
<1> DEFINE t == [s EXCEPT !.deleted = Editing!RememberSources(@, rows)]
           more == [d \in DOMAIN s.deleted |->
                      Editing!SourcesOf(rows, d) \cap Editing!SubscriptionSet]
           known == Editing!RememberSources(s.deleted, rows)
<1>1. known = [d \in DOMAIN s.deleted |->
                [sources |-> s.deleted[d].sources \cup more[d],
                 signatures |-> s.deleted[d].signatures]]
  <2>1. known = [d \in DOMAIN s.deleted |->
                   [s.deleted[d] EXCEPT !.sources =
                      @ \cup (Editing!SourcesOf(rows, d) \cap Editing!SubscriptionSet)]]
    BY DEF Editing!RememberSources
  <2>2. \A d \in DOMAIN s.deleted :
          more[d] = Editing!SourcesOf(rows, d) \cap Editing!SubscriptionSet
    OBVIOUS
  <2> HIDE DEF known
  <2> SUFFICES ASSUME NEW d \in DOMAIN s.deleted
               PROVE  known[d] = [sources |-> s.deleted[d].sources \cup more[d],
                                  signatures |-> s.deleted[d].signatures]
    BY <2>1
  <2> HIDE DEF more
  <2>3. known[d] = [s.deleted[d] EXCEPT !.sources = @ \cup more[d]]
    BY <2>1, <2>2
  <2>4. s.deleted[d] = [sources |-> s.deleted[d].sources, signatures |-> s.deleted[d].signatures]
    BY DEF IsState
  <2> QED
    BY <2>3, <2>4
<1>2. \A d \in DOMAIN s.deleted : /\ more[d] \subseteq Editing!SubscriptionSet
                                  /\ more[d] \subseteq Evidence(c, kept, s, d)
  BY DEF Evidence
<1> HIDE DEF known, more
<1>3. t = [s EXCEPT !.deleted = known]
  BY DEF known
<1> HIDE DEF t
<1>4. t = Enriched(s, more)
  BY <1>1, <1>3 DEF Enriched, IsState
<1>5. Follows(c, kept, s, t) /\ DOMAIN t.deleted = DOMAIN s.deleted
  BY <1>2, <1>4, EnrichedFollows
<1> QED
  BY <1>5 DEF t

LEMMA PruneFollows ==
  ASSUME NEW c, NEW kept, NEW s, IsState(s), NEW active, NEW current, NEW sure
  PROVE  Follows(c, kept, s, Editing!Prune(s, active, current, sure))
<1> DEFINE t == Editing!Prune(s, active, current, sure)
           stays == {d \in DOMAIN s.deleted :
                       \/ d \in current
                       \/ s.deleted[d].sources = {} /\ ~sure
                       \/ s.deleted[d].sources \cap active # {}}
<1>1. CASE DOMAIN s.deleted = {}
  BY <1>1, FollowsItself DEF Editing!Prune
<1>2. CASE DOMAIN s.deleted # {}
  <2>1. t = [s EXCEPT !.deleted = Editing!Restrict(@, stays),
                      !.audit = {x \in @ : x[1] \in DOMAIN s.deleted => x[1] \in stays}]
    BY <1>2 DEF Editing!Prune
  <2>2. stays \subseteq DOMAIN s.deleted
    OBVIOUS
  <2> HIDE DEF t, stays
  <2> DEFINE some == [d \in stays |-> s.deleted[d]]
             audit == {x \in s.audit : x[1] \in DOMAIN s.deleted => x[1] \in stays}
  <2>3. t = [s EXCEPT !.deleted = some, !.audit = audit]
    BY <2>1 DEF Editing!Restrict
  <2>4. DOMAIN some = stays /\ \A d \in stays : some[d] = s.deleted[d]
    OBVIOUS
  <2>5. audit \subseteq s.audit
    OBVIOUS
  <2> HIDE DEF some, audit
  <2>6. t = [overrides |-> s.overrides, disabled |-> s.disabled, deleted |-> some,
             custom |-> s.custom, audit |-> audit]
    BY <2>3 DEF IsState
  <2>7. IsState(t)
    BY <2>2, <2>4, <2>5, <2>6 DEF IsState, CustomsDiffer
  <2> QED
    BY <2>2, <2>4, <2>5, <2>6, <2>7 DEF Follows, t
<1> QED
  BY <1>1, <1>2

(* What has to last is still seen in a configured subscription, or, if it  *)
(* is one of the inline list, is there.                                    *)
LEMMA PruneKeeps ==
  ASSUME NEW c, NEW s, IsState(s), NEW current, NEW sure \in BOOLEAN, NEW x,
         x.id \in DOMAIN s.deleted,
         x.sources \cap Editing!SubscriptionSet \subseteq s.deleted[x.id].sources,
         s.deleted[x.id].sources \subseteq x.seen,
         Editing!Lasting(c, x),
         Editing!IDs(Editing!Rows[c][Editing!Nothing]) \subseteq current \/ ~sure
  PROVE  x.id \in DOMAIN Editing!Prune(s, Editing!Active(c), current, sure).deleted
<1> DEFINE t == Editing!Prune(s, Editing!Active(c), current, sure)
           sources == s.deleted[x.id].sources
           stays == {d \in DOMAIN s.deleted :
                       \/ d \in current
                       \/ s.deleted[d].sources = {} /\ ~sure
                       \/ s.deleted[d].sources \cap Editing!Active(c) # {}}
<1>1. x.id \in current \/ (sources = {} /\ ~sure) \/ sources \cap Editing!Active(c) # {}
  <2>1. sources \subseteq Editing!SubscriptionSet /\ Editing!Active(c) \subseteq Editing!SubscriptionSet
    BY DEF IsState, Editing!Active
  <2>2. CASE x.sources \cap Editing!Active(c) # {}
    BY <2>1, <2>2
  <2>3. CASE x.seen \subseteq Editing!Held(c) /\ x.id \in Editing!IDs(Editing!Rows[c][Editing!Nothing])
    <3>1. \A z \in sources : z \in Editing!Active(c)
      BY <2>1, <2>3, EditingAssumption DEF Editing!Held
    <3> QED
      BY <2>3, <3>1
  <2> QED
    BY <2>2, <2>3 DEF Editing!Lasting
<1>2. x.id \in stays
  BY <1>1
<1>3. t = [s EXCEPT !.deleted = Editing!Restrict(@, stays),
                    !.audit = {y \in @ : y[1] \in DOMAIN s.deleted => y[1] \in stays}]
  BY DEF Editing!Prune
<1> HIDE DEF stays, t
<1>4. t.deleted = [d \in stays |-> s.deleted[d]]
  BY <1>3 DEF Editing!Restrict, IsState
<1> QED
  BY <1>2, <1>4 DEF t

(* The three prunings.                                                     *)
Sees(c, kept, s, x) ==
  /\ Editing!SourcesOf(Editing!Rows[c][kept], x.id) \subseteq x.seen
  /\ \A a \in s.audit : a[1] = x.id => a[2] \in x.seen

LEMMA CurrentFollows ==
  ASSUME NEW c \in Configs, NEW kept \in Editing!Cache, NEW s, IsState(s),
         NEW u, NEW sure \in BOOLEAN
  PROVE  LET rows == Editing!Shown(c, kept, u)
             t == Editing!PruneForCurrent(c, s, rows, sure)
         IN  /\ Follows(c, kept, s, t)
             /\ \A x : Sees(c, kept, s, x) /\ Recorded(c, s, x) => x.id \in DOMAIN t.deleted
<1> DEFINE rows == Editing!Shown(c, kept, u)
           first == [s EXCEPT !.deleted = Editing!RememberSources(@, rows)]
           second == Editing!RememberAudit(first)
           t == Editing!Prune(second, Editing!Active(c), Editing!IDs(rows), sure)
<1>0. Editing!PruneForCurrent(c, s, rows, sure) = t
  BY DEF Editing!PruneForCurrent
<1>1. Follows(c, kept, s, first) /\ DOMAIN first.deleted = DOMAIN s.deleted
  <2>1. \A d : Editing!SourcesOf(rows, d) \cap Editing!SubscriptionSet
                 = Editing!SourcesOf(Editing!Rows[c][kept], d) \cap Editing!SubscriptionSet
    BY ShownAre
  <2> HIDE DEF rows
  <2> QED
    BY <2>1, SourcesFollow
<1> HIDE DEF first
<1>2. Follows(c, kept, first, second) /\ DOMAIN second.deleted = DOMAIN first.deleted
  BY <1>1, AuditFollows DEF Follows
<1> HIDE DEF second
<1>3. Follows(c, kept, s, second)
  BY <1>1, <1>2, FollowsOn
<1>4. IsState(second) /\ Follows(c, kept, second, t)
  <2>1. IsState(second)
    BY <1>3 DEF Follows
  <2> HIDE DEF rows
  <2> QED
    BY <2>1, PruneFollows
<1>5. Follows(c, kept, s, t)
  BY <1>3, <1>4, FollowsOn
<1>6. Editing!IDs(Editing!Rows[c][Editing!Nothing]) \subseteq Editing!IDs(rows)
  <2>1. Editing!IDs(Editing!Rows[c][Editing!Nothing]) \subseteq Editing!IDs(Editing!Rows[c][kept])
    BY RowsOfNothing DEF Editing!IDs
  <2>2. Editing!IDs(Editing!Rows[c][kept]) \subseteq Editing!IDs(Editing!Original(c, kept, u))
    BY DEF Editing!IDs, Editing!Original
  <2> QED
    BY <2>1, <2>2, ShownAre
<1> HIDE DEF rows
<1>7. ASSUME NEW x, Sees(c, kept, s, x), Recorded(c, s, x)
      PROVE  x.id \in DOMAIN t.deleted
  <2>1. Evidence(c, kept, s, x.id) \subseteq x.seen
    BY <1>7 DEF Evidence, Sees
  <2>2. x.id \in DOMAIN second.deleted
    BY <1>1, <1>2, <1>7 DEF Recorded
  <2>3. /\ s.deleted[x.id].sources \subseteq second.deleted[x.id].sources
        /\ second.deleted[x.id].sources \subseteq x.seen
    BY <1>3, <1>7, <2>1, <2>2 DEF Follows, Recorded
  <2>4. x.sources \cap Editing!SubscriptionSet \subseteq second.deleted[x.id].sources
    BY <1>7, <2>3 DEF Recorded
  <2> QED
    BY <1>4, <1>6, <1>7, <2>2, <2>3, <2>4, PruneKeeps DEF Recorded
<1> HIDE DEF t
<1> QED
  BY <1>0, <1>5, <1>7 DEF rows

LEMMA AuditedFollows ==
  ASSUME NEW c, NEW kept, NEW new, NEW s, IsState(s)
  PROVE  LET t == Editing!Prune(Editing!RememberAudit(s), Editing!Active(new), {}, FALSE)
         IN  /\ Follows(c, kept, s, t)
             /\ \A x : Sees(c, kept, s, x) /\ Recorded(new, s, x) => x.id \in DOMAIN t.deleted
<1> DEFINE first == Editing!RememberAudit(s)
           t == Editing!Prune(first, Editing!Active(new), {}, FALSE)
<1>1. Follows(c, kept, s, first) /\ DOMAIN first.deleted = DOMAIN s.deleted
  BY AuditFollows
<1> HIDE DEF first
<1>2. IsState(first)
  BY <1>1 DEF Follows
<1>3. Follows(c, kept, first, t)
  BY <1>2, PruneFollows
<1>4. Follows(c, kept, s, t)
  BY <1>1, <1>3, FollowsOn
<1>5. ASSUME NEW x, Sees(c, kept, s, x), Recorded(new, s, x)
      PROVE  x.id \in DOMAIN t.deleted
  <2>1. Evidence(c, kept, s, x.id) \subseteq x.seen
    BY <1>5 DEF Evidence, Sees
  <2>2. x.id \in DOMAIN first.deleted
    BY <1>1, <1>5 DEF Recorded
  <2>3. /\ s.deleted[x.id].sources \subseteq first.deleted[x.id].sources
        /\ first.deleted[x.id].sources \subseteq x.seen
    BY <1>1, <1>5, <2>1, <2>2 DEF Follows, Recorded
  <2>4. x.sources \cap Editing!SubscriptionSet \subseteq first.deleted[x.id].sources
    BY <1>5, <2>3 DEF Recorded
  <2>5. Editing!Lasting(new, x)
    BY <1>5 DEF Recorded
  <2> QED
    BY <1>2, <2>2, <2>3, <2>4, <2>5, PruneKeeps
<1> HIDE DEF t
<1> QED
  BY <1>4, <1>5 DEF t, first

(* What a state that follows knows of a deletion that lasts.               *)
LEMMA RecordedOn ==
  ASSUME NEW c, NEW kept, NEW new, NEW s, NEW t, NEW x, Follows(c, kept, s, t),
         Sees(c, kept, s, x), Recorded(new, s, x), x.id \in DOMAIN t.deleted
  PROVE  Sees(c, kept, t, x) /\ Recorded(new, t, x)
<1>1. Evidence(c, kept, s, x.id) \subseteq x.seen
  BY DEF Evidence, Sees
<1>2. Sees(c, kept, t, x)
  BY DEF Follows, Sees
<1>3. /\ x.id \in DOMAIN s.deleted
      /\ t.deleted[x.id].signatures = s.deleted[x.id].signatures
      /\ s.deleted[x.id].sources \subseteq t.deleted[x.id].sources
      /\ t.deleted[x.id].sources \subseteq s.deleted[x.id].sources \cup Evidence(c, kept, s, x.id)
  BY DEF Follows
<1> QED
  BY <1>1, <1>2, <1>3 DEF Recorded

LEMMA RestoredFollows ==
  ASSUME NEW c \in Configs, NEW kept \in Editing!Cache, NEW s, IsState(s),
         NEW sure \in BOOLEAN
  PROVE  LET t == Editing!PruneRestored(c, kept, s, sure)
         IN  /\ Follows(c, kept, s, t)
             /\ \A x : Sees(c, kept, s, x) /\ Recorded(c, s, x) => x.id \in DOMAIN t.deleted
<1> DEFINE first == Editing!Prune(Editing!RememberAudit(s), Editing!Active(c), {}, FALSE)
           second == Editing!PruneForCurrent(c, first, Editing!Shown(c, kept, first), sure)
           t == Editing!PruneRestored(c, kept, s, sure)
<1>0. t = first \/ t = second
  BY DEF Editing!PruneRestored
<1>1. /\ Follows(c, kept, s, first)
      /\ \A x : Sees(c, kept, s, x) /\ Recorded(c, s, x) => x.id \in DOMAIN first.deleted
  BY AuditedFollows
<1> HIDE DEF first
<1>2. IsState(first)
  BY <1>1 DEF Follows
<1>3. /\ Follows(c, kept, first, second)
      /\ \A x : Sees(c, kept, first, x) /\ Recorded(c, first, x) => x.id \in DOMAIN second.deleted
  BY <1>2, CurrentFollows
<1> HIDE DEF second, t
<1>4. Follows(c, kept, s, second)
  BY <1>1, <1>3, FollowsOn
<1>5. ASSUME NEW x, Sees(c, kept, s, x), Recorded(c, s, x)
      PROVE  x.id \in DOMAIN second.deleted
  BY <1>1, <1>3, <1>5, RecordedOn
<1> QED
  BY <1>0, <1>1, <1>4, <1>5 DEF t

LEMMA ConfigFollows ==
  ASSUME NEW c \in Configs, NEW new \in Configs, NEW kept \in Editing!Cache, NEW s, IsState(s),
         NEW sure \in BOOLEAN
  PROVE  LET t == Editing!PruneForConfig(c, new, kept, s, sure)
         IN  /\ Follows(c, kept, s, t)
             /\ \A x : Sees(c, kept, s, x) /\ Recorded(new, s, x) => x.id \in DOMAIN t.deleted
<1> DEFINE first == Editing!RememberAudit(s)
           known == [first EXCEPT !.deleted =
                       Editing!RememberSources(@, Editing!Shown(c, kept, first))]
           active == Editing!Active(new)
           current == Editing!IDs(Editing!Shown(new, kept, known))
           audited == Editing!Prune(first, active, {}, FALSE)
           pruned == Editing!Prune(known, active, current, sure)
           t == Editing!PruneForConfig(c, new, kept, s, sure)
<1>0. t = s \/ t = audited \/ t = pruned
  BY Zenon DEF Editing!PruneForConfig
<1>1. /\ Follows(c, kept, s, audited)
      /\ \A x : Sees(c, kept, s, x) /\ Recorded(new, s, x) => x.id \in DOMAIN audited.deleted
  BY AuditedFollows
<1> HIDE DEF audited, t
<1>2. Follows(c, kept, s, first) /\ DOMAIN first.deleted = DOMAIN s.deleted
  BY AuditFollows
<1> HIDE DEF first
<1>3. Follows(c, kept, first, known) /\ DOMAIN known.deleted = DOMAIN first.deleted
  <2> DEFINE rows == Editing!Shown(c, kept, first)
  <2>1. \A d : Editing!SourcesOf(rows, d) \cap Editing!SubscriptionSet
                 = Editing!SourcesOf(Editing!Rows[c][kept], d) \cap Editing!SubscriptionSet
    BY ShownAre
  <2>2. IsState(first)
    BY <1>2 DEF Follows
  <2> HIDE DEF rows
  <2>3. LET u == [first EXCEPT !.deleted = Editing!RememberSources(@, rows)]
        IN  Follows(c, kept, first, u) /\ DOMAIN u.deleted = DOMAIN first.deleted
    BY <2>1, <2>2, SourcesFollow
  <2> QED
    BY <2>3 DEF rows
<1> HIDE DEF known
<1>4. Follows(c, kept, s, known) /\ IsState(known)
  <2>1. Follows(c, kept, s, known)
    BY <1>2, <1>3, FollowsOn
  <2> QED
    BY <2>1 DEF Follows
<1>5. Editing!IDs(Editing!Rows[new][Editing!Nothing]) \subseteq current
  <2>1. Editing!IDs(Editing!Rows[new][Editing!Nothing]) \subseteq Editing!IDs(Editing!Rows[new][kept])
    BY RowsOfNothing DEF Editing!IDs
  <2>2. Editing!IDs(Editing!Rows[new][kept]) \subseteq Editing!IDs(Editing!Original(new, kept, known))
    BY DEF Editing!IDs, Editing!Original
  <2> QED
    BY <2>1, <2>2, ShownAre
<1> HIDE DEF current
<1>6. Follows(c, kept, s, pruned)
  <2>1. Follows(c, kept, known, pruned)
    BY <1>4, PruneFollows
  <2> QED
    BY <1>4, <2>1, FollowsOn
<1>7. ASSUME NEW x, Sees(c, kept, s, x), Recorded(new, s, x)
      PROVE  x.id \in DOMAIN pruned.deleted
  <2>1. x.id \in DOMAIN known.deleted
    BY <1>2, <1>3, <1>7 DEF Recorded
  <2>2. Recorded(new, known, x)
    BY <1>4, <1>7, <2>1, RecordedOn
  <2> QED
    BY <1>4, <1>5, <2>2, PruneKeeps DEF Recorded
<1>8. Follows(c, kept, s, s) /\ \A x : Recorded(new, s, x) => x.id \in DOMAIN s.deleted
  BY FollowsItself DEF Recorded
<1> HIDE DEF pruned
<1> QED
  BY <1>0, <1>1, <1>6, <1>7, <1>8 DEF t

-----------------------------------------------------------------------------
(* The history, seen again.                                                *)
LEMMA RowsHeld ==
  ASSUME NEW c \in Configs, NEW kept \in Editing!Cache, NEW id
  PROVE  Editing!SourcesOf(Editing!Rows[c][kept], id) \subseteq Editing!Held(c)
<1> SUFFICES ASSUME NEW r \in Editing!Rows[c][kept], NEW s \in r.sources
             PROVE  s \in Editing!Held(c)
  BY DEF Editing!SourcesOf
<1>1. s \in EditSources /\ c.mode[s] = "on"
  BY RowIs
<1> QED
  BY <1>1 DEF EditSources, Editing!Held, Editing!Active

LEMMA NotCustomRows ==
  ASSUME NEW c, NEW kept, NEW s, NEW id, id[2] # Editing!Custom
  PROVE  Editing!SourcesOf(Editing!Original(c, kept, s), id)
           = Editing!SourcesOf(Editing!Rows[c][kept], id)
<1>1. \A r \in Editing!CustomRows(s) : r.id # id
  BY CustomRowIs
<1>2. \A z : z \in Editing!SourcesOf(Editing!Original(c, kept, s), id)
               <=> z \in Editing!SourcesOf(Editing!Rows[c][kept], id)
  BY <1>1 DEF Editing!SourcesOf, Editing!Original
<1> QED
  BY <1>2

Observed(x, z, more) ==
  x = [id |-> z.id, names |-> z.names, later |-> z.later, sources |-> z.sources,
       seen |-> z.seen \cup more, firm |-> z.firm]

LEMMA ObservedAre ==
  ASSUME NEW g, \A z \in g : IsDeletion(z), NEW rows
  PROVE  /\ \A x \in Editing!Seen(g, rows) : \E z \in g :
              Observed(x, z, Editing!SourcesOf(rows, z.id))
         /\ \A z \in g : \E x \in Editing!Seen(g, rows) :
              Observed(x, z, Editing!SourcesOf(rows, z.id))
<1>1. ASSUME NEW z \in g
      PROVE  Observed([z EXCEPT !.seen = @ \cup Editing!SourcesOf(rows, z.id)], z,
                      Editing!SourcesOf(rows, z.id))
  <2> DEFINE more == Editing!SourcesOf(rows, z.id)
  <2>1. z = [id |-> z.id, names |-> z.names, later |-> z.later, sources |-> z.sources,
             seen |-> z.seen, firm |-> z.firm]
    BY DEF IsDeletion
  <2> HIDE DEF more
  <2>2. Observed([z EXCEPT !.seen = @ \cup more], z, more)
    BY <2>1 DEF Observed
  <2> QED
    BY <2>2 DEF more
<1> QED
  BY <1>1 DEF Editing!Seen

LEMMA SeenAgain ==
  ASSUME NEW c \in Configs, NEW kept \in Editing!Cache, NEW s, IsState(s), NEW g, NEW rows,
         \A z \in g : /\ IsDeletion(z)
                      /\ Editing!SourcesOf(rows, z.id)
                           = Editing!SourcesOf(Editing!Rows[c][kept], z.id)
                      /\ \A a \in s.audit : a[1] = z.id =>
                           a[2] \in z.seen \cup Editing!SourcesOf(rows, z.id),
         RecordsAreKnown(s, g), FirmIsRecorded(c, s, g)
  PROVE  Remembered(c, kept, s, Editing!Seen(g, rows))
<1> DEFINE h == Editing!Seen(g, rows)
           more(z) == Editing!SourcesOf(rows, z.id)
<1>1. /\ \A x \in h : \E z \in g : Observed(x, z, more(z))
      /\ \A z \in g : \E x \in h : Observed(x, z, more(z))
  BY ObservedAre
<1> HIDE DEF h
<1>2. ASSUME NEW x, NEW z, NEW m, Observed(x, z, m)
      PROVE  /\ x.id = z.id /\ x.names = z.names /\ x.later = z.later
             /\ x.sources = z.sources /\ x.firm = z.firm /\ x.seen = z.seen \cup m
             /\ x = [id |-> x.id, names |-> x.names, later |-> x.later,
                     sources |-> x.sources, seen |-> x.seen, firm |-> x.firm]
  BY <1>2 DEF Observed
<1>3. ASSUME NEW x \in h  PROVE IsDeletion(x)
  <2>1. PICK z \in g : Observed(x, z, more(z))
    BY <1>1
  <2> HIDE DEF more
  <2> QED
    BY <1>2, <2>1 DEF IsDeletion
<1>4. RecordsAreKnown(s, h)
  <2> SUFFICES ASSUME NEW d \in DOMAIN s.deleted  PROVE \E x \in h : Matches(s, d, x)
    BY DEF RecordsAreKnown
  <2>1. PICK z \in g : Matches(s, d, z)
    BY DEF RecordsAreKnown
  <2>2. PICK x \in h : Observed(x, z, more(z))
    BY <1>1
  <2> HIDE DEF more
  <2>3. Matches(s, d, x)
    BY <1>2, <2>1, <2>2 DEF Matches
  <2> QED
    BY <2>3
<1>5. SeenIsComplete(c, kept, s, h)
  <2> SUFFICES ASSUME NEW x \in h
               PROVE  /\ Editing!SourcesOf(Editing!Rows[c][kept], x.id) \subseteq x.seen
                      /\ \A a \in s.audit : a[1] = x.id => a[2] \in x.seen
    BY DEF SeenIsComplete
  <2>1. PICK z \in g : Observed(x, z, more(z))
    BY <1>1
  <2>2. x.id = z.id /\ x.seen = z.seen \cup more(z)
    BY <1>2, <2>1
  <2> QED
    BY <2>2
<1>6. FirmIsRecorded(c, s, h)
  <2> SUFFICES ASSUME NEW x \in h, x.firm  PROVE Recorded(c, s, x)
    BY DEF FirmIsRecorded
  <2>1. PICK z \in g : Observed(x, z, more(z))
    BY <1>1
  <2>2. /\ x.id = z.id /\ x.names = z.names /\ x.sources = z.sources /\ z.firm
        /\ x.seen = z.seen \cup more(z)
    BY <1>2, <2>1
  <2>3. Recorded(c, s, z)
    BY <2>2 DEF FirmIsRecorded
  <2>4. more(z) \subseteq Editing!Held(c)
    BY RowsHeld
  <2> HIDE DEF more
  <2>5. Editing!Lasting(c, x)
    BY <2>2, <2>3, <2>4 DEF Recorded, Editing!Lasting
  <2> QED
    BY <2>2, <2>3, <2>5 DEF Recorded
<1> QED
  BY <1>3, <1>4, <1>5, <1>6 DEF Remembered, h

(* A deletion that the new configuration ends is still a deletion.         *)
LEMMA ReleasedAre ==
  ASSUME NEW c, NEW s, NEW g, \A x \in g : IsDeletion(x), RecordsAreKnown(s, g),
         \A x \in g : x.firm /\ Editing!Lasting(c, x) => Recorded(c, s, x)
  PROVE  LET h == Editing!Released(c, g)
         IN  /\ \A z \in h : IsDeletion(z) /\ \E x \in g : z.id = x.id /\ z.seen = x.seen
             /\ RecordsAreKnown(s, h) /\ FirmIsRecorded(c, s, h)
<1> DEFINE h == Editing!Released(c, g)
           Of(z, x) == z = [id |-> x.id, names |-> x.names, later |-> x.later,
                            sources |-> x.sources, seen |-> x.seen,
                            firm |-> x.firm /\ Editing!Lasting(c, x)]
<1>1. ASSUME NEW x \in g
      PROVE  Of([x EXCEPT !.firm = @ /\ Editing!Lasting(c, x)], x)
  <2>1. x = [id |-> x.id, names |-> x.names, later |-> x.later, sources |-> x.sources,
             seen |-> x.seen, firm |-> x.firm]
    BY DEF IsDeletion
  <2> QED
    BY <2>1
<1>2. /\ \A z \in h : \E x \in g : Of(z, x)
      /\ \A x \in g : \E z \in h : Of(z, x)
  BY <1>1 DEF Editing!Released
<1>3. ASSUME NEW z, NEW x \in g, Of(z, x)
      PROVE  /\ z.id = x.id /\ z.names = x.names /\ z.later = x.later
             /\ z.sources = x.sources /\ z.seen = x.seen
             /\ z.firm = (x.firm /\ Editing!Lasting(c, x)) /\ z.firm \in BOOLEAN
             /\ z = [id |-> z.id, names |-> z.names, later |-> z.later,
                     sources |-> z.sources, seen |-> z.seen, firm |-> z.firm]
  BY <1>3
<1> HIDE DEF h, Of
<1>4. ASSUME NEW z \in h
      PROVE  IsDeletion(z) /\ \E x \in g : z.id = x.id /\ z.seen = x.seen
  <2>1. PICK x \in g : Of(z, x)
    BY <1>2
  <2>2. IsDeletion(z)
    BY <1>3, <2>1 DEF IsDeletion
  <2> QED
    BY <1>3, <2>1, <2>2
<1>5. RecordsAreKnown(s, h)
  <2> SUFFICES ASSUME NEW d \in DOMAIN s.deleted  PROVE \E z \in h : Matches(s, d, z)
    BY DEF RecordsAreKnown
  <2>1. PICK x \in g : Matches(s, d, x)
    BY DEF RecordsAreKnown
  <2>2. PICK z \in h : Of(z, x)
    BY <1>2
  <2>3. Matches(s, d, z)
    BY <1>3, <2>1, <2>2 DEF Matches
  <2> QED
    BY <2>3
<1>6. FirmIsRecorded(c, s, h)
  <2> SUFFICES ASSUME NEW z \in h, z.firm  PROVE Recorded(c, s, z)
    BY DEF FirmIsRecorded
  <2>1. PICK x \in g : Of(z, x)
    BY <1>2
  <2>2. /\ z.id = x.id /\ z.names = x.names /\ z.sources = x.sources /\ z.seen = x.seen
        /\ x.firm /\ Editing!Lasting(c, x)
    BY <1>3, <2>1
  <2>3. Recorded(c, s, x)
    BY <2>2
  <2> QED
    BY <2>2, <2>3 DEF Recorded, Editing!Lasting
<1> QED
  BY <1>4, <1>5, <1>6 DEF h

-----------------------------------------------------------------------------
(* Every action leaves the state and the history in agreement.             *)
EditingInv ==
  /\ edited \in Configs /\ cache \in Editing!Cache
  /\ Remembered(edited, cache, st, gone)

LEMMA SameRecords ==
  ASSUME NEW c, NEW kept, NEW s, NEW t, NEW g, Remembered(c, kept, s, g), IsState(t),
         t.deleted = s.deleted, t.audit = s.audit
  PROVE  Remembered(c, kept, t, g)
BY DEF Remembered, RecordsAreKnown, Matches, SeenIsComplete, FirmIsRecorded, Recorded

LEMMA PrunedRecords ==
  ASSUME NEW c, NEW kept, NEW s, NEW t, NEW g, Remembered(c, kept, s, g),
         Follows(c, kept, s, t),
         \A x : Sees(c, kept, s, x) /\ Recorded(c, s, x) => x.id \in DOMAIN t.deleted
  PROVE  Remembered(c, kept, t, g)
<1>1. ASSUME NEW x \in g, x.firm  PROVE x.id \in DOMAIN t.deleted /\ Editing!Lasting(c, x)
  <2>1. Recorded(c, s, x)
    BY <1>1 DEF Remembered, FirmIsRecorded
  <2>2. Sees(c, kept, s, x)
    BY DEF Remembered, SeenIsComplete, Sees
  <2> QED
    BY <2>1, <2>2 DEF Recorded
<1>2. /\ RecordsAreKnown(t, g) /\ SeenIsComplete(c, kept, t, g)
      /\ \A x \in g : x.firm /\ Editing!Lasting(c, x) => Recorded(c, t, x)
  BY <1>1, StillRemembered
<1>3. IsState(t) /\ \A x \in g : IsDeletion(x)
  BY DEF Follows, Remembered
<1> QED
  BY <1>1, <1>2, <1>3 DEF Remembered, FirmIsRecorded

LEMMA EditingStarts ==
  ASSUME Editing!Init  PROVE EditingInv
<1>1. edited \in Configs /\ cache \in Editing!Cache
  <2>1. cache = Editing!Nothing
    BY DEF Editing!Init, Editing!Nothing
  <2> QED
    BY <2>1, NothingIsCached DEF Editing!Init
<1>2. st = [overrides |-> <<>>, disabled |-> {}, deleted |-> <<>>, custom |-> {}, audit |-> {}]
      /\ gone = {}
  BY DEF Editing!Init
<1>3. DOMAIN st.deleted = {} /\ st.audit = {} /\ st.custom = {}
  BY <1>2
<1>4. IsState(st)
  BY <1>2, <1>3 DEF IsState, CustomsDiffer
<1> QED
  BY <1>1, <1>2, <1>3, <1>4
  DEF EditingInv, Remembered, RecordsAreKnown, SeenIsComplete, FirmIsRecorded

LEMMA RefreshRemembers ==
  ASSUME EditingInv, Editing!Refresh  PROVE EditingInv'
<1> DEFINE rows == Editing!Original(edited, cache', st)
           audit == Editing!Audit(st, rows)
<1>0. edited' = edited /\ edited \in Configs /\ cache' \in Editing!Cache
  BY DEF Editing!Refresh, EditingInv
<1>1. st' = st \/ st' = [st EXCEPT !.audit = audit]
  BY DEF Editing!Refresh
<1>2. gone' = Editing!Seen(gone, rows)
  BY DEF Editing!Refresh
<1>3. IsState(st) /\ \A x \in gone : IsDeletion(x)
  BY DEF EditingInv, Remembered
<1>4. ASSUME NEW z \in gone
      PROVE  Editing!SourcesOf(rows, z.id) = Editing!SourcesOf(Editing!Rows[edited][cache'], z.id)
  BY <1>3, <1>4, NotCustomRows DEF IsDeletion
<1>5. ASSUME NEW a \in audit
      PROVE  a[2] \in Editing!SubscriptionSet /\ a[2] \in Editing!SourcesOf(rows, a[1])
  <2>1. PICK r \in rows : a = <<r.id, r.source>> /\ r.source \in Editing!SubscriptionSet
    BY DEF Editing!Audit
  <2>2. r \notin Editing!CustomRows(st)
    BY <2>1, CustomRowIs, EditingAssumption
  <2>3. r \in Editing!Rows[edited][cache']
    BY <2>2 DEF Editing!Original
  <2>4. r.source \in r.sources
    BY <1>0, <2>3, RowIs
  <2>5. a[1] = r.id /\ a[2] = r.source
    BY <2>1
  <2> HIDE DEF rows
  <2> QED
    BY <2>1, <2>4, <2>5 DEF Editing!SourcesOf
<1> HIDE DEF rows, audit
<1>6. st' = [overrides |-> st.overrides, disabled |-> st.disabled, deleted |-> st.deleted,
             custom |-> st.custom, audit |-> st'.audit] /\ st'.audit \in {st.audit, audit}
  BY <1>1, <1>3 DEF IsState
<1>7. IsState(st')
  BY <1>3, <1>5, <1>6 DEF IsState, CustomsDiffer
<1>8. st'.deleted = st.deleted
  BY <1>6
<1>9. RecordsAreKnown(st', gone) /\ FirmIsRecorded(edited, st', gone)
  BY <1>8 DEF EditingInv, Remembered, RecordsAreKnown, Matches, FirmIsRecorded, Recorded
<1>10. ASSUME NEW z \in gone, NEW a \in st'.audit, a[1] = z.id
       PROVE  a[2] \in z.seen \cup Editing!SourcesOf(rows, z.id)
  <2>1. CASE a \in audit
    BY <1>5, <1>10, <2>1
  <2>2. CASE a \in st.audit
    BY <1>10, <2>2 DEF EditingInv, Remembered, SeenIsComplete
  <2> QED
    BY <1>6, <2>1, <2>2
<1>11. Remembered(edited, cache', st', gone')
  BY <1>0, <1>2, <1>3, <1>4, <1>7, <1>9, <1>10, SeenAgain
<1> QED
  BY <1>0, <1>11 DEF EditingInv

LEMMA ConfigRemembers ==
  ASSUME EditingInv, NEW new \in Configs, NEW sure \in BOOLEAN, Editing!HandleConfig(new, sure)
  PROVE  EditingInv'
<1> DEFINE t == Editing!PruneForConfig(edited, new, cache, st, sure)
           g == Editing!Released(new, gone)
           rows == Editing!Rows[new][cache]
<1>0. edited' = new /\ cache' = cache /\ edited \in Configs /\ cache \in Editing!Cache
  BY DEF Editing!HandleConfig, Editing!WriteBoth, EditingInv
<1>1. st' = st \/ st' = t
  BY DEF Editing!HandleConfig, Editing!WriteBoth
<1>2. gone' = Editing!Seen(g, rows)
  BY <1>0 DEF Editing!HandleConfig
<1>3. IsState(st) /\ (\A x \in gone : IsDeletion(x)) /\ Remembered(edited, cache, st, gone)
  BY DEF EditingInv, Remembered
<1>4. /\ Follows(edited, cache, st, t)
      /\ \A x : Sees(edited, cache, st, x) /\ Recorded(new, st, x) => x.id \in DOMAIN t.deleted
  BY <1>0, <1>3, ConfigFollows
<1> HIDE DEF t
<1>5. Follows(edited, cache, st, st')
  BY <1>1, <1>3, <1>4, FollowsItself
<1>6. ASSUME NEW x \in gone, x.firm, Editing!Lasting(new, x)  PROVE x.id \in DOMAIN st'.deleted
  <2>1. Recorded(edited, st, x)
    BY <1>3, <1>6 DEF Remembered, FirmIsRecorded
  <2>2. Sees(edited, cache, st, x)
    BY <1>3 DEF Remembered, SeenIsComplete, Sees
  <2>3. Recorded(new, st, x)
    BY <1>6, <2>1 DEF Recorded
  <2> QED
    BY <1>1, <1>4, <2>2, <2>3 DEF Recorded
<1>7. /\ RecordsAreKnown(st', gone)
      /\ SeenIsComplete(edited, cache, st', gone)
      /\ \A x \in gone : x.firm /\ Editing!Lasting(new, x) => Recorded(new, st', x)
  BY <1>3, <1>5, <1>6, StillRemembered
<1>8. /\ \A z \in g : IsDeletion(z) /\ \E x \in gone : z.id = x.id /\ z.seen = x.seen
      /\ RecordsAreKnown(st', g) /\ FirmIsRecorded(new, st', g)
  BY <1>3, <1>7, ReleasedAre
<1> HIDE DEF g
<1>9. \A z \in g : \A a \in st'.audit : a[1] = z.id => a[2] \in z.seen
  BY <1>7, <1>8 DEF SeenIsComplete
<1>10. IsState(st')
  BY <1>5 DEF Follows
<1> HIDE DEF rows
<1>11. Remembered(new, cache, st', gone')
  BY <1>0, <1>2, <1>8, <1>9, <1>10, SeenAgain DEF rows
<1> QED
  BY <1>0, <1>11 DEF EditingInv

LEMMA RememberSourcesAre ==
  ASSUME NEW f, NEW rows,
         \A d \in DOMAIN f : f[d] = [sources |-> f[d].sources, signatures |-> f[d].signatures]
  PROVE  LET h == Editing!RememberSources(f, rows)
         IN  /\ DOMAIN h = DOMAIN f
             /\ \A d \in DOMAIN f :
                  h[d] = [sources |-> f[d].sources
                            \cup (Editing!SourcesOf(rows, d) \cap Editing!SubscriptionSet),
                          signatures |-> f[d].signatures]
<1> DEFINE h == Editing!RememberSources(f, rows)
           more(d) == Editing!SourcesOf(rows, d) \cap Editing!SubscriptionSet
<1>1. h = [d \in DOMAIN f |-> [f[d] EXCEPT !.sources = @ \cup more(d)]]
  BY DEF Editing!RememberSources
<1> HIDE DEF h, more
<1>2. ASSUME NEW d \in DOMAIN f
      PROVE  h[d] = [sources |-> f[d].sources \cup more(d), signatures |-> f[d].signatures]
  <2>1. h[d] = [f[d] EXCEPT !.sources = @ \cup more(d)]
    BY <1>1
  <2> QED
    BY <2>1
<1>3. DOMAIN h = DOMAIN f
  BY <1>1
<1> QED
  BY <1>2, <1>3 DEF h, more

LEMMA RememberSignaturesAre ==
  ASSUME NEW f, NEW rows,
         \A d \in DOMAIN f : f[d] = [sources |-> f[d].sources, signatures |-> f[d].signatures]
  PROVE  LET h == Editing!RememberSignatures(f, rows)
         IN  /\ DOMAIN h = DOMAIN f
             /\ \A d \in DOMAIN f :
                  h[d] = [sources |-> f[d].sources,
                          signatures |-> f[d].signatures
                            \cup Editing!UniqueSignatures(rows, d)]
<1> DEFINE h == Editing!RememberSignatures(f, rows)
           more(d) == Editing!UniqueSignatures(rows, d)
<1>1. h = [d \in DOMAIN f |-> [f[d] EXCEPT !.signatures = @ \cup more(d)]]
  BY DEF Editing!RememberSignatures
<1> HIDE DEF h, more
<1>2. ASSUME NEW d \in DOMAIN f
      PROVE  h[d] = [sources |-> f[d].sources, signatures |-> f[d].signatures \cup more(d)]
  <2>1. h[d] = [f[d] EXCEPT !.signatures = @ \cup more(d)]
    BY <1>1
  <2> QED
    BY <2>1
<1>3. DOMAIN h = DOMAIN f
  BY <1>1
<1> QED
  BY <1>2, <1>3 DEF h, more

(* The records after a deletion.                                           *)
OldSources(s, d) == IF d \in DOMAIN s.deleted THEN s.deleted[d].sources ELSE {}
OldSignatures(s, d) == IF d \in DOMAIN s.deleted THEN s.deleted[d].signatures ELSE {}
Deletable(ids) ==
  (DOMAIN st.deleted \cup ids) \ (ids \cap Editing!IDs(Editing!CustomRows(st)))

LEMMA DeletedRecords ==
  ASSUME NEW ids, EditingInv, Editing!DeleteNodes(ids)
  PROVE  /\ IsState(st') /\ st'.audit = st.audit
         /\ DOMAIN st'.deleted = Deletable(ids)
         /\ \A d \in Deletable(ids) :
              /\ st'.deleted[d].sources = OldSources(st, d)
                   \cup (Editing!SourcesOf(Editing!Rows[edited][cache], d)
                           \cap Editing!SubscriptionSet)
              /\ st'.deleted[d].signatures = OldSignatures(st, d)
                   \cup Editing!UniqueSignatures(Editing!Here, d)
<1> DEFINE here == Editing!Here
           custom == ids \cap Editing!IDs(Editing!CustomRows(st))
           next == (DOMAIN st.deleted \cup ids) \ custom
           customs == {a \in st.custom : Editing!CustomID(a) \notin custom}
           overrides == Editing!Without(st.overrides, custom)
           disabled == st.disabled \ ids
           base == [d \in next |-> IF d \in DOMAIN st.deleted THEN st.deleted[d]
                                   ELSE Editing!NoRecord]
           marked == [st EXCEPT !.custom = customs, !.overrides = overrides,
                                !.disabled = disabled, !.deleted = base]
           shown == Editing!Shown(edited, cache, st)
           some == Editing!RememberSources(base, shown)
           all == Editing!RememberSignatures(some, here)
<1>0. edited \in Configs /\ cache \in Editing!Cache /\ IsState(st)
  BY DEF EditingInv, Remembered
<1>1. st' = [marked EXCEPT !.deleted = Editing!Remember(marked)]
  BY DEF Editing!DeleteNodes
<1>2. marked = [overrides |-> overrides, disabled |-> disabled, deleted |-> base,
                custom |-> customs, audit |-> st.audit]
  <2> HIDE DEF overrides, disabled, base, customs
  <2>1. st = [overrides |-> st.overrides, disabled |-> st.disabled, deleted |-> st.deleted,
              custom |-> st.custom, audit |-> st.audit]
    BY <1>0 DEF IsState
  <2> DEFINE m1 == [st EXCEPT !.custom = customs]
             m2 == [m1 EXCEPT !.overrides = overrides]
             m3 == [m2 EXCEPT !.disabled = disabled]
             m4 == [m3 EXCEPT !.deleted = base]
  <2>2. marked = m4
    OBVIOUS
  <2> HIDE DEF marked
  <2>3. m1 = [overrides |-> st.overrides, disabled |-> st.disabled, deleted |-> st.deleted,
              custom |-> customs, audit |-> st.audit]
    BY <2>1
  <2> HIDE DEF m1
  <2>4. m2 = [overrides |-> overrides, disabled |-> st.disabled, deleted |-> st.deleted,
              custom |-> customs, audit |-> st.audit]
    BY <2>3
  <2> HIDE DEF m2
  <2>5. m3 = [overrides |-> overrides, disabled |-> disabled, deleted |-> st.deleted,
              custom |-> customs, audit |-> st.audit]
    BY <2>4
  <2> HIDE DEF m3
  <2>6. m4 = [overrides |-> overrides, disabled |-> disabled, deleted |-> base,
              custom |-> customs, audit |-> st.audit]
    BY <2>5
  <2> QED
    BY <2>2, <2>6
<1>3. \A d \in next :
        /\ base[d].sources = OldSources(st, d) /\ base[d].signatures = OldSignatures(st, d)
        /\ base[d] = [sources |-> base[d].sources, signatures |-> base[d].signatures]
  BY <1>0 DEF OldSources, OldSignatures, Editing!NoRecord, IsState
<1>4. DOMAIN base = next /\ next = Deletable(ids)
  BY DEF Deletable
<1>5. customs \subseteq st.custom
  OBVIOUS
<1> HIDE DEF overrides, disabled, base, customs, next
<1>6. Editing!Remember(marked) = all
  <2>1. marked.deleted = base
    BY <1>2
  <2> HIDE DEF marked
  <2> QED
    BY <2>1 DEF Editing!Remember
<1> HIDE DEF marked, shown
<1>7. /\ DOMAIN some = next
      /\ \A d \in next : some[d] = [sources |-> base[d].sources
                                      \cup (Editing!SourcesOf(shown, d) \cap Editing!SubscriptionSet),
                                    signatures |-> base[d].signatures]
  BY <1>3, <1>4, RememberSourcesAre
<1> HIDE DEF some, here
<1>8. /\ DOMAIN all = next
      /\ \A d \in next : all[d] = [sources |-> some[d].sources,
                                   signatures |-> some[d].signatures
                                     \cup Editing!UniqueSignatures(here, d)]
  <2>1. \A d \in DOMAIN some : some[d] = [sources |-> some[d].sources,
                                          signatures |-> some[d].signatures]
    BY <1>7
  <2> QED
    BY <2>1, <1>7, RememberSignaturesAre
<1> HIDE DEF all
<1>9. st' = [overrides |-> overrides, disabled |-> disabled, deleted |-> all,
             custom |-> customs, audit |-> st.audit]
  BY <1>1, <1>2, <1>6
<1>10. ASSUME NEW d \in next
       PROVE  /\ all[d].sources = OldSources(st, d)
                   \cup (Editing!SourcesOf(Editing!Rows[edited][cache], d)
                           \cap Editing!SubscriptionSet)
              /\ all[d].signatures = OldSignatures(st, d)
                   \cup Editing!UniqueSignatures(here, d)
              /\ all[d] = [sources |-> all[d].sources, signatures |-> all[d].signatures]
  <2>1. Editing!SourcesOf(shown, d) \cap Editing!SubscriptionSet
          = Editing!SourcesOf(Editing!Rows[edited][cache], d) \cap Editing!SubscriptionSet
    BY <1>0, ShownAre DEF shown
  <2>2. some[d].sources = base[d].sources
          \cup (Editing!SourcesOf(shown, d) \cap Editing!SubscriptionSet)
        /\ some[d].signatures = base[d].signatures
    BY <1>7
  <2>3. all[d].sources = some[d].sources
        /\ all[d].signatures = some[d].signatures \cup Editing!UniqueSignatures(here, d)
        /\ all[d] = [sources |-> all[d].sources, signatures |-> all[d].signatures]
    BY <1>8
  <2> QED
    BY <1>3, <2>1, <2>2, <2>3
<1>11. IsState(st')
  <2>1. \A d \in next : OldSources(st, d) \subseteq Editing!SubscriptionSet
    BY <1>0 DEF OldSources, IsState
  <2>2. \A d \in next : all[d].sources \subseteq Editing!SubscriptionSet
    BY <1>10, <2>1
  <2>3. CustomsDiffer(st') /\ \A a \in st'.audit : a[2] \in Editing!SubscriptionSet
    BY <1>0, <1>5, <1>9 DEF IsState, CustomsDiffer
  <2>4. st'.deleted = all /\ st' = [overrides |-> st'.overrides, disabled |-> st'.disabled,
                                    deleted |-> st'.deleted, custom |-> st'.custom,
                                    audit |-> st'.audit]
    BY <1>9
  <2> QED
    BY <1>8, <1>10, <2>2, <2>3, <2>4 DEF IsState
<1> QED
  BY <1>4, <1>8, <1>9, <1>10, <1>11 DEF here

(* The history after a deletion: names that come later, and the rows.      *)
Extended(x, z, more) ==
  x = [id |-> z.id, names |-> z.names, later |-> z.later \cup more, sources |-> z.sources,
       seen |-> z.seen, firm |-> z.firm]
Known(id) ==
  {a[2] : a \in {b \in st.audit : b[1] = id}} \cup UNION {x.seen : x \in {y \in gone : y.id = id}}
Fresh(x, r) ==
  /\ x = [id |-> r.id, names |-> Editing!UniqueSignatures(Editing!Here, r.id), later |-> {},
          sources |-> r.sources, seen |-> r.sources \cup Known(r.id), firm |-> x.firm]
  /\ x.firm \in BOOLEAN /\ (x.firm => Editing!Lasting(edited, x))

LEMMA DeletionIsFresh ==
  ASSUME NEW r
  PROVE  Fresh(Editing!Deletion(Editing!Here, r), r)
<1> DEFINE known == {a[2] : a \in {b \in st.audit : b[1] = r.id}}
                      \cup UNION {x.seen : x \in {y \in gone : y.id = r.id}}
           u == [id |-> r.id, names |-> Editing!UniqueSignatures(Editing!Here, r.id),
                 later |-> {}, sources |-> r.sources, seen |-> r.sources \cup known,
                 firm |-> TRUE]
           lasting == Editing!Lasting(edited, u)
           x == [id |-> r.id, names |-> Editing!UniqueSignatures(Editing!Here, r.id),
                 later |-> {}, sources |-> r.sources, seen |-> r.sources \cup known,
                 firm |-> lasting]
<1>1. Editing!Deletion(Editing!Here, r) = [u EXCEPT !.firm = lasting]
  BY DEF Editing!Deletion
<1>2. lasting \in BOOLEAN
  BY DEF Editing!Lasting
<1>3. [u EXCEPT !.firm = lasting] = x
  <2> HIDE DEF known, lasting
  <2> QED
    OBVIOUS
<1>4. lasting => Editing!Lasting(edited, x)
  <2>1. u.id = x.id /\ u.sources = x.sources /\ u.seen = x.seen
    <3> HIDE DEF known, lasting
    <3> QED
      OBVIOUS
  <2> HIDE DEF u, x
  <2> QED
    BY <2>1 DEF Editing!Lasting
<1>5. known = Known(r.id)
  BY DEF Known
<1> HIDE DEF known, lasting
<1> QED
  BY <1>1, <1>2, <1>3, <1>4, <1>5 DEF Fresh

LEMMA ExtendedAre ==
  ASSUME NEW z, IsDeletion(z), NEW more
  PROVE  Extended([z EXCEPT !.later = @ \cup more], z, more)
BY DEF IsDeletion, Extended

LEMMA DeleteRemembers ==
  ASSUME EditingInv, NEW ids, Editing!DeleteNodes(ids)
  PROVE  EditingInv'
<1> DEFINE here == Editing!Here
           rows == Editing!Rows[edited][cache]
           custom == ids \cap Editing!IDs(Editing!CustomRows(st))
           unique(d) == Editing!UniqueSignatures(here, d)
           chosen == {q \in here : q.id \in ids \ custom}
<1>0. /\ edited' = edited /\ cache' = cache /\ edited \in Configs /\ cache \in Editing!Cache
      /\ Remembered(edited, cache, st, gone)
  BY DEF Editing!DeleteNodes, EditingInv
<1>1. /\ IsState(st') /\ st'.audit = st.audit
      /\ DOMAIN st'.deleted = Deletable(ids)
      /\ \A d \in Deletable(ids) :
           /\ st'.deleted[d].sources = OldSources(st, d)
                \cup (Editing!SourcesOf(rows, d) \cap Editing!SubscriptionSet)
           /\ st'.deleted[d].signatures = OldSignatures(st, d) \cup unique(d)
  BY DeletedRecords
<1>2. gone' = {[x EXCEPT !.later = @ \cup unique(x.id)] : x \in gone}
                \cup {Editing!Deletion(here, r) : r \in chosen}
  BY DEF Editing!DeleteNodes
<1>3. ids \subseteq Editing!IDs(here) \cup DOMAIN st.deleted
  BY DEF Editing!DeleteNodes
<1>4. here = Editing!Original(edited, cache, st)
  BY DEF Editing!Here
<1>5. ASSUME NEW r \in chosen
      PROVE  /\ r \in rows /\ r.id \in ids /\ r.id \in Deletable(ids)
             /\ r.id[2] # Editing!Custom
             /\ Editing!SourcesOf(rows, r.id) = r.sources
  <2>1. r \in here /\ r.id \in ids /\ r.id \notin Editing!IDs(Editing!CustomRows(st))
    OBVIOUS
  <2>2. r \in rows
    BY <1>4, <2>1 DEF Editing!Original, Editing!IDs
  <2>3. r.id[2] # Editing!Custom
    BY <1>0, <2>2, RowIs
  <2>4. \A q \in rows : q.id = r.id => q = r
    BY <1>0, <2>2, RowsDiffer
  <2>5. r.id \in Deletable(ids)
    BY <2>1 DEF Deletable
  <2>6. Editing!SourcesOf(rows, r.id) = r.sources
    <3> HIDE DEF rows
    <3>1. \A z : z \in Editing!SourcesOf(rows, r.id) <=> z \in r.sources
      BY <2>2, <2>4 DEF Editing!SourcesOf
    <3> QED
      BY <3>1
  <2> QED
    BY <2>1, <2>2, <2>3, <2>5, <2>6
<1>6. \A d : \A y \in unique(d) : IsSignature(y)
  BY <1>0, <1>4, UniqueSignaturesAre
<1> HIDE DEF rows, custom, unique, here, chosen
<1>7. /\ \A x \in gone' : \/ \E z \in gone : Extended(x, z, unique(z.id))
                          \/ \E r \in chosen : Fresh(x, r)
      /\ \A z \in gone : \E x \in gone' : Extended(x, z, unique(z.id))
      /\ \A r \in chosen : \E x \in gone' : Fresh(x, r)
  <2>1. \A z \in gone : Extended([z EXCEPT !.later = @ \cup unique(z.id)], z, unique(z.id))
    BY <1>0, ExtendedAre DEF Remembered
  <2>2. \A r \in chosen : Fresh(Editing!Deletion(here, r), r)
    BY DeletionIsFresh DEF here
  <2> QED
    BY <1>2, <2>1, <2>2
<1>8. ASSUME NEW x, NEW z, NEW more, Extended(x, z, more)
      PROVE  /\ x.id = z.id /\ x.names = z.names /\ x.later = z.later \cup more
             /\ x.sources = z.sources /\ x.seen = z.seen /\ x.firm = z.firm
             /\ x = [id |-> x.id, names |-> x.names, later |-> x.later,
                     sources |-> x.sources, seen |-> x.seen, firm |-> x.firm]
  BY <1>8 DEF Extended
<1>9. ASSUME NEW x, NEW r, Fresh(x, r)
      PROVE  /\ x.id = r.id /\ x.names = unique(r.id) /\ x.later = {}
             /\ x.sources = r.sources /\ x.seen = r.sources \cup Known(r.id)
             /\ x.firm \in BOOLEAN /\ (x.firm => Editing!Lasting(edited, x))
             /\ x = [id |-> x.id, names |-> x.names, later |-> x.later,
                     sources |-> x.sources, seen |-> x.seen, firm |-> x.firm]
  BY <1>9 DEF Fresh, unique, here
<1>10. ASSUME NEW x \in gone'  PROVE IsDeletion(x)
  <2>1. ASSUME NEW z \in gone, Extended(x, z, unique(z.id))  PROVE IsDeletion(x)
    <3>1. IsDeletion(z)
      BY <1>0 DEF Remembered
    <3> QED
      BY <1>6, <1>8, <2>1, <3>1 DEF IsDeletion
  <2>2. ASSUME NEW r \in chosen, Fresh(x, r)  PROVE IsDeletion(x)
    BY <1>5, <1>6, <1>9, <2>2 DEF IsDeletion
  <2> QED
    BY <1>7, <2>1, <2>2
<1>11. \A z \in gone : /\ Editing!SourcesOf(rows, z.id) \subseteq z.seen
                       /\ \A a \in st.audit : a[1] = z.id => a[2] \in z.seen
  BY <1>0 DEF Remembered, SeenIsComplete, rows
<1>12. \A d \in DOMAIN st.deleted : \E z \in gone : Matches(st, d, z)
  BY <1>0 DEF Remembered, RecordsAreKnown
<1>13. RecordsAreKnown(st', gone')
  <2> SUFFICES ASSUME NEW d \in Deletable(ids)  PROVE \E x \in gone' : Matches(st', d, x)
    BY <1>1 DEF RecordsAreKnown
  <2>1. CASE d \in DOMAIN st.deleted
    <3>1. PICK z \in gone : Matches(st, d, z)
      BY <1>12, <2>1
    <3>2. PICK x \in gone' : Extended(x, z, unique(z.id))
      BY <1>7
    <3>3. Matches(st', d, x)
      BY <1>1, <1>8, <1>11, <2>1, <3>1, <3>2 DEF Matches, OldSources, OldSignatures
    <3> QED
      BY <3>3
  <2>2. CASE d \notin DOMAIN st.deleted
    <3>1. PICK r \in chosen : r.id = d
      BY <1>3, <2>2 DEF Deletable, chosen, custom, Editing!IDs
    <3>2. PICK x \in gone' : Fresh(x, r)
      BY <1>7
    <3>3. Matches(st', d, x)
      BY <1>1, <1>5, <1>9, <2>2, <3>1, <3>2 DEF Matches, OldSources, OldSignatures
    <3> QED
      BY <3>3
  <2> QED
    BY <2>1, <2>2
<1>14. SeenIsComplete(edited, cache, st', gone')
  <2> SUFFICES ASSUME NEW x \in gone'
               PROVE  /\ Editing!SourcesOf(rows, x.id) \subseteq x.seen
                      /\ \A a \in st.audit : a[1] = x.id => a[2] \in x.seen
    BY <1>1 DEF SeenIsComplete, rows
  <2>1. ASSUME NEW z \in gone, Extended(x, z, unique(z.id))
        PROVE  /\ Editing!SourcesOf(rows, x.id) \subseteq x.seen
               /\ \A a \in st.audit : a[1] = x.id => a[2] \in x.seen
    BY <1>8, <1>11, <2>1
  <2>2. ASSUME NEW r \in chosen, Fresh(x, r)
        PROVE  /\ Editing!SourcesOf(rows, x.id) \subseteq x.seen
               /\ \A a \in st.audit : a[1] = x.id => a[2] \in x.seen
    BY <1>5, <1>9, <2>2 DEF Known
  <2> QED
    BY <1>7, <2>1, <2>2
<1>15. FirmIsRecorded(edited, st', gone')
  <2> SUFFICES ASSUME NEW x \in gone', x.firm  PROVE Recorded(edited, st', x)
    BY DEF FirmIsRecorded
  <2>1. ASSUME NEW z \in gone, Extended(x, z, unique(z.id))  PROVE Recorded(edited, st', x)
    <3>1. /\ x.id = z.id /\ x.names = z.names /\ x.sources = z.sources /\ x.seen = z.seen
          /\ z.firm
      BY <1>8, <2>1
    <3>2. Recorded(edited, st, z)
      BY <1>0, <3>1 DEF Remembered, FirmIsRecorded
    <3>3. x.id \in Deletable(ids)
      <4>1. z.id[2] # Editing!Custom
        BY <1>0 DEF Remembered, IsDeletion
      <4>2. z.id \notin Editing!IDs(Editing!CustomRows(st))
        BY <4>1, CustomRowIs DEF Editing!IDs
      <4> QED
        BY <3>1, <3>2, <4>2 DEF Deletable, Recorded
    <3>4. Editing!Lasting(edited, x)
      BY <3>1, <3>2 DEF Recorded, Editing!Lasting
    <3> QED
      BY <1>1, <1>11, <3>1, <3>2, <3>3, <3>4 DEF Recorded, OldSources, OldSignatures
  <2>2. ASSUME NEW r \in chosen, Fresh(x, r)  PROVE Recorded(edited, st', x)
    <3>1. /\ x.id = r.id /\ x.names = unique(r.id) /\ x.sources = r.sources
          /\ x.seen = r.sources \cup Known(r.id) /\ Editing!Lasting(edited, x)
      BY <1>9, <2>2
    <3>2. r.id \in Deletable(ids) /\ Editing!SourcesOf(rows, r.id) = r.sources
      BY <1>5
    <3>3. OldSources(st, r.id) \subseteq Known(r.id)
      <4>1. CASE r.id \in DOMAIN st.deleted
        <5>1. PICK z \in gone : Matches(st, r.id, z)
          BY <1>12, <4>1
        <5> QED
          BY <4>1, <5>1 DEF Matches, OldSources, Known
      <4>2. CASE r.id \notin DOMAIN st.deleted
        BY <4>2 DEF OldSources
      <4> QED
        BY <4>1, <4>2
    <3> QED
      BY <1>1, <3>1, <3>2, <3>3 DEF Recorded
  <2> QED
    BY <1>7, <2>1, <2>2
<1>16. Remembered(edited, cache, st', gone')
  BY <1>1, <1>10, <1>13, <1>14, <1>15 DEF Remembered
<1> QED
  BY <1>0, <1>16 DEF EditingInv

(* A row stands for a record as it stands for its deletion.                *)
StandsFor(x, rows, id) ==
  x.id = id \/ \E y \in x.names \cup x.later : Editing!Named(rows, y) = {id}

LEMMA StandsLater ==
  ASSUME NEW x, IsDeletion(x), NEW rows, NEW id
  PROVE  Editing!Stands(Editing!WithLaterNames(x), rows, id) <=> StandsFor(x, rows, id)
<1> DEFINE z == Editing!WithLaterNames(x)
<1>1. z = [x EXCEPT !.names = x.names \cup x.later]
  BY DEF Editing!WithLaterNames
<1>2. z.id = x.id /\ z.names = x.names \cup x.later
  BY <1>1 DEF IsDeletion
<1> HIDE DEF z
<1> QED
  BY <1>2 DEF Editing!Stands, StandsFor, z

LEMMA RecordStands ==
  ASSUME NEW c \in Configs, NEW kept \in Editing!Cache, NEW s, NEW x, NEW d,
         d \in DOMAIN s.deleted, Matches(s, d, x), IsDeletion(x), NEW id
  PROVE  LET rows == Editing!Original(c, kept, s)
         IN  d \in Editing!Records(s, rows, id) <=> StandsFor(x, rows, id)
<1> DEFINE rows == Editing!Original(c, kept, s)
           signatures == s.deleted[d].signatures
<1>1. \A y \in signatures : id \in Editing!Owners(rows, y) <=> Editing!Named(rows, y) = {id}
  <2>1. \A y \in signatures : IsSignature(y)
    BY DEF Matches, IsDeletion
  <2> QED
    BY <2>1, OwnerNamed
<1>2. signatures = x.names \cup x.later /\ x.id = d
  BY DEF Matches
<1> HIDE DEF rows
<1>3. d \in Editing!Records(s, rows, id)
        <=> d = id \/ \E y \in signatures : id \in Editing!Owners(rows, y)
  BY DEF Editing!Records
<1> QED
  BY <1>1, <1>2, <1>3 DEF StandsFor, rows

LEMMA EnableRemembers ==
  ASSUME EditingInv, NEW ids, Editing!EnableNodes(ids)
  PROVE  EditingInv'
<1> DEFINE rows == Editing!Original(edited, cache, st)
           freed == Editing!Restored(ids)
           left == DOMAIN st.deleted \ freed
           restored == {x \in gone : \E id \in ids :
                          Editing!Stands(Editing!WithLaterNames(x), Editing!Here, id)}
           others == Editing!IDs(restored)
           deleted == [d \in left |-> st.deleted[d]]
           disabled == st.disabled \ freed
<1>0. /\ edited' = edited /\ cache' = cache /\ edited \in Configs /\ cache \in Editing!Cache
      /\ Remembered(edited, cache, st, gone) /\ rows = Editing!Here
  BY DEF Editing!EnableNodes, EditingInv, Editing!Here
<1>1. st' = [overrides |-> st.overrides, disabled |-> disabled, deleted |-> deleted,
             custom |-> st.custom, audit |-> st.audit]
  <2>1. st = [overrides |-> st.overrides, disabled |-> st.disabled, deleted |-> st.deleted,
              custom |-> st.custom, audit |-> st.audit]
    BY <1>0 DEF Remembered, IsState
  <2>2. st' = [st EXCEPT !.disabled = disabled, !.deleted = Editing!Without(@, freed)]
    BY DEF Editing!EnableNodes
  <2>3. Editing!Without(st.deleted, freed) = deleted
    BY DEF Editing!Without, Editing!Restrict
  <2> HIDE DEF disabled, deleted
  <2> DEFINE half == [st EXCEPT !.disabled = disabled]
  <2>4. half = [overrides |-> st.overrides, disabled |-> disabled, deleted |-> st.deleted,
                custom |-> st.custom, audit |-> st.audit]
    BY <2>1
  <2>5. st' = [half EXCEPT !.deleted = Editing!Without(@, freed)]
    BY <2>2
  <2> HIDE DEF half, freed
  <2>6. half.deleted = st.deleted
    BY <2>4
  <2>7. st' = [half EXCEPT !.deleted = deleted]
    BY <2>3, <2>5, <2>6
  <2> QED
    BY <2>4, <2>7
<1>2. DOMAIN deleted = left /\ \A d \in left : deleted[d] = st.deleted[d]
  OBVIOUS
<1>3. IsState(st')
  <2>1. left \subseteq DOMAIN st.deleted
    OBVIOUS
  <2> HIDE DEF deleted, disabled, left
  <2> QED
    BY <1>0, <1>1, <1>2, <2>1 DEF Remembered, IsState, CustomsDiffer
<1>4. \A x \in gone : x \in restored <=> \E id \in ids : StandsFor(x, rows, id)
  BY <1>0, StandsLater DEF Remembered
<1>5. \A d \in DOMAIN st.deleted : \E x \in gone : Matches(st, d, x) /\ IsDeletion(x)
  BY <1>0 DEF Remembered, RecordsAreKnown
<1>6. ASSUME NEW d \in DOMAIN st.deleted, NEW x \in gone, Matches(st, d, x)
      PROVE  d \in freed <=> x \in restored
  <2>0. IsDeletion(x) /\ \A y \in x.names \cup x.later : IsSignature(y)
    BY <1>0 DEF Remembered, IsDeletion
  <2>1. \A id : d \in Editing!Records(st, rows, id) <=> StandsFor(x, rows, id)
    BY <1>0, <1>6, <2>0, RecordStands
  <2>2. freed = ids \cup IF \A e \in DOMAIN st.deleted : st.deleted[e].signatures = {} THEN {}
                       ELSE UNION {Editing!Records(st, rows, id) : id \in ids \cap Editing!IDs(rows)}
    BY <1>0 DEF Editing!Restored
  <2>3. x.id = d /\ st.deleted[d].signatures = x.names \cup x.later
    BY <1>6 DEF Matches
  <2> HIDE DEF rows, freed, restored
  <2>4. ASSUME d \in freed  PROVE x \in restored
    <3>1. CASE d \in ids
      BY <1>4, <2>3, <3>1 DEF StandsFor
    <3>2. CASE \E id \in ids : d \in Editing!Records(st, rows, id)
      BY <1>4, <2>1, <3>2
    <3> QED
      BY <2>2, <2>4, <3>1, <3>2
  <2>5. ASSUME x \in restored  PROVE d \in freed
    <3>1. PICK id \in ids : StandsFor(x, rows, id)
      BY <1>4, <2>5
    <3>2. CASE d = id
      BY <2>2, <3>2
    <3>3. CASE d # id
      <4>1. PICK y \in x.names \cup x.later : Editing!Named(rows, y) = {id}
        BY <2>3, <3>1, <3>3 DEF StandsFor
      <4>2. id \in Editing!IDs(rows)
        BY <4>1 DEF Editing!Named, Editing!IDs
      <4>3. ~(\A e \in DOMAIN st.deleted : st.deleted[e].signatures = {})
        BY <2>3, <4>1
      <4>4. d \in Editing!Records(st, rows, id)
        BY <2>1, <3>1
      <4> QED
        BY <2>2, <4>2, <4>3, <4>4
    <3> QED
      BY <3>2, <3>3
  <2> QED
    BY <2>4, <2>5
<1> DEFINE Of(z, x) == z = [id |-> x.id, names |-> x.names, later |-> x.later,
                            sources |-> x.sources, seen |-> x.seen,
                            firm |-> x.firm /\ x.id \notin others]
<1>7. gone' = {[x EXCEPT !.firm = @ /\ x.id \notin others] : x \in gone \ restored}
  BY DEF Editing!EnableNodes
<1>8. \A x \in restored : x.id \in others
  BY DEF Editing!IDs
<1> HIDE DEF others
<1>9. ASSUME NEW x \in gone
      PROVE  Of([x EXCEPT !.firm = @ /\ x.id \notin others], x)
  <2>1. x = [id |-> x.id, names |-> x.names, later |-> x.later, sources |-> x.sources,
             seen |-> x.seen, firm |-> x.firm]
    BY <1>0 DEF Remembered, IsDeletion
  <2> QED
    BY <2>1
<1> HIDE DEF restored, freed, rows, deleted, disabled
<1>10. /\ \A z \in gone' : \E x \in gone \ restored : Of(z, x)
       /\ \A x \in gone \ restored : \E z \in gone' : Of(z, x)
  <2> DEFINE new(x) == [x EXCEPT !.firm = @ /\ x.id \notin others]
  <2>1. gone' = {new(x) : x \in gone \ restored}
    BY <1>7
  <2>2. \A x \in gone : Of(new(x), x)
    BY <1>9
  <2> HIDE DEF new
  <2> QED
    BY <2>1, <2>2
<1>11. ASSUME NEW z, NEW x \in gone, Of(z, x)
       PROVE  /\ z.id = x.id /\ z.names = x.names /\ z.later = x.later
              /\ z.sources = x.sources /\ z.seen = x.seen
              /\ z.firm = (x.firm /\ x.id \notin others) /\ z.firm \in BOOLEAN
              /\ z = [id |-> z.id, names |-> z.names, later |-> z.later,
                      sources |-> z.sources, seen |-> z.seen, firm |-> z.firm]
  BY <1>11
<1> HIDE DEF Of
<1>12. ASSUME NEW z \in gone'  PROVE IsDeletion(z)
  <2>1. PICK x \in gone : Of(z, x)
    BY <1>10
  <2>2. IsDeletion(x)
    BY <1>0 DEF Remembered
  <2> QED
    BY <1>11, <2>1, <2>2 DEF IsDeletion
<1>13. DOMAIN st'.deleted = left /\ (\A d \in left : st'.deleted[d] = st.deleted[d])
       /\ st'.audit = st.audit
  BY <1>1, <1>2
<1>14. RecordsAreKnown(st', gone')
  <2> SUFFICES ASSUME NEW d \in left  PROVE \E z \in gone' : Matches(st', d, z)
    BY <1>13 DEF RecordsAreKnown
  <2>1. PICK x \in gone : Matches(st, d, x)
    BY <1>5
  <2>2. x \notin restored
    BY <1>6, <2>1
  <2>3. PICK z \in gone' : Of(z, x)
    BY <1>10, <2>2
  <2>4. Matches(st', d, z)
    BY <1>11, <1>13, <2>1, <2>3 DEF Matches
  <2> QED
    BY <2>4
<1>15. SeenIsComplete(edited, cache, st', gone')
  <2> SUFFICES ASSUME NEW z \in gone'
               PROVE  /\ Editing!SourcesOf(Editing!Rows[edited][cache], z.id) \subseteq z.seen
                      /\ \A a \in st.audit : a[1] = z.id => a[2] \in z.seen
    BY <1>13 DEF SeenIsComplete
  <2>1. PICK x \in gone : Of(z, x)
    BY <1>10
  <2>2. z.id = x.id /\ z.seen = x.seen
    BY <1>11, <2>1
  <2> QED
    BY <1>0, <2>2 DEF Remembered, SeenIsComplete
<1>16. FirmIsRecorded(edited, st', gone')
  <2> SUFFICES ASSUME NEW z \in gone', z.firm  PROVE Recorded(edited, st', z)
    BY DEF FirmIsRecorded
  <2>1. PICK x \in gone \ restored : Of(z, x)
    BY <1>10
  <2>2. /\ z.id = x.id /\ z.names = x.names /\ z.sources = x.sources /\ z.seen = x.seen
        /\ x.firm /\ x.id \notin others
    BY <1>11, <2>1
  <2>3. Recorded(edited, st, x)
    BY <1>0, <2>2 DEF Remembered, FirmIsRecorded
  <2>4. x.id \in DOMAIN st.deleted
    BY <2>3 DEF Recorded
  <2>5. PICK y \in gone : Matches(st, x.id, y)
    BY <1>5, <2>4
  <2>6. y \notin restored
    BY <1>8, <2>2, <2>5 DEF Matches
  <2>7. x.id \in left
    BY <1>6, <2>4, <2>5, <2>6
  <2> QED
    BY <1>13, <2>2, <2>3, <2>7 DEF Recorded, Editing!Lasting
<1>17. Remembered(edited, cache, st', gone')
  BY <1>3, <1>12, <1>14, <1>15, <1>16 DEF Remembered
<1> QED
  BY <1>0, <1>17 DEF EditingInv

(* Overrides and switches are not part of a record.                        *)
Alters(s, t) ==
  IsState(t) /\ t.deleted = s.deleted /\ t.audit = s.audit /\ t.custom = s.custom

LEMMA OverridesAlter ==
  ASSUME NEW s, IsState(s), NEW new
  PROVE  Alters(s, [s EXCEPT !.overrides = new])
<1> DEFINE t == [s EXCEPT !.overrides = new]
<1>1. t = [overrides |-> new, disabled |-> s.disabled, deleted |-> s.deleted,
           custom |-> s.custom, audit |-> s.audit]
  BY DEF IsState
<1> HIDE DEF t
<1>2. IsState(t)
  BY <1>1 DEF IsState, CustomsDiffer
<1>3. t.deleted = s.deleted /\ t.audit = s.audit /\ t.custom = s.custom
  BY <1>1
<1> QED
  BY <1>2, <1>3 DEF Alters, t

LEMMA DisabledAlter ==
  ASSUME NEW s, IsState(s), NEW new
  PROVE  Alters(s, [s EXCEPT !.disabled = new])
<1> DEFINE t == [s EXCEPT !.disabled = new]
<1>1. t = [overrides |-> s.overrides, disabled |-> new, deleted |-> s.deleted,
           custom |-> s.custom, audit |-> s.audit]
  BY DEF IsState
<1> HIDE DEF t
<1>2. IsState(t)
  BY <1>1 DEF IsState, CustomsDiffer
<1>3. t.deleted = s.deleted /\ t.audit = s.audit /\ t.custom = s.custom
  BY <1>1
<1> QED
  BY <1>2, <1>3 DEF Alters, t

LEMMA BothAlter ==
  ASSUME NEW s, IsState(s), NEW overrides, NEW disabled
  PROVE  Alters(s, [s EXCEPT !.overrides = overrides, !.disabled = disabled])
<1> DEFINE half == [s EXCEPT !.overrides = overrides]
<1>1. Alters(s, half)
  BY OverridesAlter
<1> HIDE DEF half
<1>2. Alters(half, [half EXCEPT !.disabled = disabled])
  BY <1>1, DisabledAlter DEF Alters
<1>3. Alters(s, [half EXCEPT !.disabled = disabled])
  BY <1>1, <1>2 DEF Alters
<1> QED
  BY <1>3 DEF half

LEMMA AlterRemembers ==
  ASSUME EditingInv, Alters(st, st'), UNCHANGED <<edited, cache, gone>>
  PROVE  EditingInv'
<1>1. Remembered(edited, cache, st', gone)
  BY SameRecords DEF EditingInv, Alters
<1> QED
  BY <1>1 DEF EditingInv

LEMMA SwitchesRemember ==
  ASSUME EditingInv,
         \/ \E ids : Editing!DisableNodes(ids) \/ Editing!BulkRename(ids)
         \/ \E id, on : Editing!SaveOverride(id, on)
         \/ \E id : Editing!ResetOverride(id)
  PROVE  EditingInv'
<1>0. IsState(st)
  BY DEF EditingInv, Remembered
<1>1. ASSUME NEW ids, Editing!DisableNodes(ids)  PROVE EditingInv'
  <2> DEFINE new == st.disabled \cup ids
  <2>1. st' = [st EXCEPT !.disabled = new] /\ UNCHANGED <<edited, cache, gone>>
    BY <1>1 DEF Editing!DisableNodes
  <2> HIDE DEF new
  <2> QED
    BY <1>0, <2>1, DisabledAlter, AlterRemembers
<1>2. ASSUME NEW ids, Editing!BulkRename(ids)  PROVE EditingInv'
  <2>1. PICK new : st' = [st EXCEPT !.overrides = new]
    BY <1>2 DEF Editing!BulkRename
  <2>2. UNCHANGED <<edited, cache, gone>>
    BY <1>2 DEF Editing!BulkRename
  <2> QED
    BY <1>0, <2>1, <2>2, OverridesAlter, AlterRemembers
<1>3. ASSUME NEW id, NEW on, Editing!SaveOverride(id, on)  PROVE EditingInv'
  <2>1. PICK overrides, disabled :
          st' = [st EXCEPT !.overrides = overrides, !.disabled = disabled]
    BY <1>3 DEF Editing!SaveOverride
  <2>2. UNCHANGED <<edited, cache, gone>>
    BY <1>3 DEF Editing!SaveOverride
  <2> QED
    BY <1>0, <2>1, <2>2, BothAlter, AlterRemembers
<1>4. ASSUME NEW id, Editing!ResetOverride(id)  PROVE EditingInv'
  <2>1. PICK overrides, disabled :
          st' = [st EXCEPT !.overrides = overrides, !.disabled = disabled]
    BY <1>4 DEF Editing!ResetOverride
  <2>2. UNCHANGED <<edited, cache, gone>>
    BY <1>4 DEF Editing!ResetOverride
  <2> QED
    BY <1>0, <2>1, <2>2, BothAlter, AlterRemembers
<1> QED
  BY <1>1, <1>2, <1>3, <1>4

LEMMA AddCustomRemembers ==
  ASSUME EditingInv, NEW a, Editing!AddCustom(a)
  PROVE  EditingInv'
<1> DEFINE new == st.custom \cup {a}
<1>0. Remembered(edited, cache, st, gone) /\ IsState(st)
  BY DEF EditingInv, Remembered
<1>1. st' = [st EXCEPT !.custom = new] /\ UNCHANGED <<edited, cache, gone>>
  BY DEF Editing!AddCustom
<1>2. \A b \in st.custom : Editing!CustomID(b) # Editing!CustomID(a)
  <2> SUFFICES ASSUME NEW b \in st.custom
               PROVE  Editing!CustomID(b) \in Editing!IDs(Editing!CustomRows(st))
    BY DEF Editing!AddCustom
  <2> DEFINE r == [id |-> Editing!CustomID(b), name |-> b.name, conn |-> b.conn,
                   source |-> Editing!Custom, sources |-> {Editing!Custom}]
  <2>1. r \in Editing!CustomRows(st)
    BY DEF Editing!CustomRows
  <2>2. r.id = Editing!CustomID(b)
    OBVIOUS
  <2> HIDE DEF r
  <2> QED
    BY <2>1, <2>2 DEF Editing!IDs
<1>3. \A b, d \in new : Editing!CustomID(b) = Editing!CustomID(d) => b = d
  BY <1>0, <1>2 DEF IsState, CustomsDiffer
<1> HIDE DEF new
<1>4. st' = [overrides |-> st.overrides, disabled |-> st.disabled, deleted |-> st.deleted,
             custom |-> new, audit |-> st.audit]
  BY <1>0, <1>1 DEF IsState
<1>5. IsState(st')
  BY <1>0, <1>3, <1>4 DEF IsState, CustomsDiffer
<1>6. st'.deleted = st.deleted /\ st'.audit = st.audit
  BY <1>4
<1>7. Remembered(edited, cache, st', gone)
  BY <1>0, <1>5, <1>6, SameRecords
<1> QED
  BY <1>1, <1>7 DEF EditingInv

LEMMA DeleteCustomRemembers ==
  ASSUME EditingInv, NEW a, Editing!DeleteCustom(a)
  PROVE  EditingInv'
<1> DEFINE id == Editing!CustomID(a)
           custom == st.custom \ {a}
           overrides == Editing!Without(st.overrides, {id})
           disabled == st.disabled \ {id}
           left == DOMAIN st.deleted \ {id}
           deleted == [d \in left |-> st.deleted[d]]
<1>0. Remembered(edited, cache, st, gone) /\ IsState(st)
  BY DEF EditingInv, Remembered
<1>1. st' = [st EXCEPT !.custom = custom, !.overrides = overrides, !.disabled = disabled,
                       !.deleted = deleted]
  BY DEF Editing!DeleteCustom, Editing!Without, Editing!Restrict
<1>2. UNCHANGED <<edited, cache, gone>>
  BY DEF Editing!DeleteCustom
<1>3. DOMAIN deleted = left /\ (\A d \in left : deleted[d] = st.deleted[d])
      /\ left \subseteq DOMAIN st.deleted /\ custom \subseteq st.custom
  OBVIOUS
<1>4. id[2] = Editing!Custom
  BY DEF Editing!CustomID
<1> HIDE DEF custom, overrides, disabled, deleted, id
<1>5. st' = [overrides |-> overrides, disabled |-> disabled, deleted |-> deleted,
             custom |-> custom, audit |-> st.audit]
  <2>1. st = [overrides |-> st.overrides, disabled |-> st.disabled, deleted |-> st.deleted,
              custom |-> st.custom, audit |-> st.audit]
    BY <1>0 DEF IsState
  <2> DEFINE m1 == [st EXCEPT !.custom = custom]
             m2 == [m1 EXCEPT !.overrides = overrides]
             m3 == [m2 EXCEPT !.disabled = disabled]
             m4 == [m3 EXCEPT !.deleted = deleted]
  <2>2. st' = m4
    BY <1>1
  <2>3. m1 = [overrides |-> st.overrides, disabled |-> st.disabled, deleted |-> st.deleted,
              custom |-> custom, audit |-> st.audit]
    BY <2>1
  <2> HIDE DEF m1
  <2>4. m2 = [overrides |-> overrides, disabled |-> st.disabled, deleted |-> st.deleted,
              custom |-> custom, audit |-> st.audit]
    BY <2>3
  <2> HIDE DEF m2
  <2>5. m3 = [overrides |-> overrides, disabled |-> disabled, deleted |-> st.deleted,
              custom |-> custom, audit |-> st.audit]
    BY <2>4
  <2> HIDE DEF m3
  <2>6. m4 = [overrides |-> overrides, disabled |-> disabled, deleted |-> deleted,
              custom |-> custom, audit |-> st.audit]
    BY <2>5
  <2> QED
    BY <2>2, <2>6
<1>6. IsState(st')
  BY <1>0, <1>3, <1>5 DEF IsState, CustomsDiffer
<1>7. DOMAIN st'.deleted = left /\ (\A d \in left : st'.deleted[d] = st.deleted[d])
      /\ st'.audit = st.audit
  BY <1>3, <1>5
<1>8. \A x \in gone : x.id # id
  BY <1>0, <1>4 DEF Remembered, IsDeletion
<1>9. RecordsAreKnown(st', gone)
  BY <1>0, <1>3, <1>7 DEF Remembered, RecordsAreKnown, Matches
<1>10. SeenIsComplete(edited, cache, st', gone)
  BY <1>0, <1>7 DEF Remembered, SeenIsComplete
<1>11. FirmIsRecorded(edited, st', gone)
  <2> SUFFICES ASSUME NEW x \in gone, x.firm  PROVE Recorded(edited, st', x)
    BY DEF FirmIsRecorded
  <2>1. Recorded(edited, st, x)
    BY <1>0 DEF Remembered, FirmIsRecorded
  <2>2. x.id \in left
    BY <1>8, <2>1 DEF Recorded
  <2> QED
    BY <1>7, <2>1, <2>2 DEF Recorded
<1>12. Remembered(edited, cache, st', gone)
  BY <1>0, <1>6, <1>9, <1>10, <1>11 DEF Remembered
<1> QED
  BY <1>2, <1>12 DEF EditingInv

LEMMA ClearRemembers ==
  ASSUME EditingInv, Editing!ClearOverrides
  PROVE  EditingInv'
<1>0. IsState(st) /\ edited \in Configs /\ cache \in Editing!Cache
  BY DEF EditingInv, Remembered
<1>1. st' = [st EXCEPT !.overrides = <<>>, !.disabled = {}, !.deleted = <<>>]
      /\ gone' = {} /\ edited' = edited /\ cache' = cache
  BY DEF Editing!ClearOverrides
<1> DEFINE half == [st EXCEPT !.overrides = <<>>, !.disabled = {}]
<1>2. Alters(st, half)
  BY <1>0, BothAlter
<1>3. st' = [half EXCEPT !.deleted = <<>>]
  BY <1>1
<1> HIDE DEF half
<1>4. st' = [overrides |-> half.overrides, disabled |-> half.disabled, deleted |-> <<>>,
             custom |-> half.custom, audit |-> half.audit]
  BY <1>2, <1>3 DEF Alters, IsState
<1>5. DOMAIN st'.deleted = {}
  BY <1>4
<1>6. IsState(st')
  BY <1>2, <1>4, <1>5 DEF Alters, IsState, CustomsDiffer
<1> QED
  BY <1>0, <1>1, <1>5, <1>6
  DEF EditingInv, Remembered, RecordsAreKnown, SeenIsComplete, FirmIsRecorded

LEMMA ListRemembers ==
  ASSUME EditingInv, NEW sure \in BOOLEAN, Editing!ListDeleted(sure)
  PROVE  EditingInv'
<1> DEFINE t == Editing!PruneForCurrent(edited, st, Editing!Shown(edited, cache, st), sure)
<1>0. /\ Remembered(edited, cache, st, gone) /\ IsState(st)
      /\ edited \in Configs /\ cache \in Editing!Cache
  BY DEF EditingInv, Remembered
<1>1. st' = t /\ UNCHANGED <<edited, cache, gone>>
  BY DEF Editing!ListDeleted
<1>2. /\ Follows(edited, cache, st, t)
      /\ \A x : Sees(edited, cache, st, x) /\ Recorded(edited, st, x) => x.id \in DOMAIN t.deleted
  BY <1>0, CurrentFollows
<1> HIDE DEF t
<1>3. Remembered(edited, cache, t, gone)
  BY <1>0, <1>2, PrunedRecords
<1> QED
  BY <1>0, <1>1, <1>3 DEF EditingInv

LEMMA DraftRemembers ==
  ASSUME EditingInv, NEW sure \in BOOLEAN, Editing!RestoreDraft(sure)
  PROVE  EditingInv'
<1> DEFINE none == Editing!Nothing
           draft == [st EXCEPT !.audit = {}]
           t == Editing!PruneRestored(edited, none, draft, sure)
<1>0. /\ Remembered(edited, cache, st, gone) /\ IsState(st)
      /\ edited \in Configs /\ cache \in Editing!Cache /\ none \in Editing!Cache
  BY NothingIsCached DEF EditingInv, Remembered
<1>1. st' = t /\ cache' = none /\ UNCHANGED <<edited, gone>>
  BY DEF Editing!RestoreDraft, Editing!Nothing
<1> HIDE DEF none
<1>2. draft = [overrides |-> st.overrides, disabled |-> st.disabled, deleted |-> st.deleted,
               custom |-> st.custom, audit |-> {}]
  <2>1. st = [overrides |-> st.overrides, disabled |-> st.disabled, deleted |-> st.deleted,
              custom |-> st.custom, audit |-> st.audit]
    BY <1>0 DEF IsState
  <2> QED
    BY <2>1
<1> HIDE DEF draft
<1>3. IsState(draft) /\ draft.deleted = st.deleted /\ draft.audit = {}
  BY <1>0, <1>2 DEF IsState, CustomsDiffer
<1>4. \A id : Editing!SourcesOf(Editing!Rows[edited][none], id)
                \subseteq Editing!SourcesOf(Editing!Rows[edited][cache], id)
  BY <1>0, RowsOfNothing DEF Editing!SourcesOf, none
<1>5. Remembered(edited, none, draft, gone)
  BY <1>0, <1>3, <1>4
  DEF Remembered, RecordsAreKnown, Matches, SeenIsComplete, FirmIsRecorded, Recorded
<1>6. /\ Follows(edited, none, draft, t)
      /\ \A x : Sees(edited, none, draft, x) /\ Recorded(edited, draft, x)
                => x.id \in DOMAIN t.deleted
  BY <1>0, <1>3, RestoredFollows
<1> HIDE DEF t
<1>7. Remembered(edited, none, t, gone)
  BY <1>5, <1>6, PrunedRecords
<1> QED
  BY <1>0, <1>1, <1>7 DEF EditingInv

LEMMA EditingSteps ==
  ASSUME EditingInv, Editing!Next
  PROVE  EditingInv'
<1>1. CASE Editing!Refresh
  BY <1>1, RefreshRemembers
<1>2. CASE \E new \in Configs, sure \in BOOLEAN : Editing!HandleConfig(new, sure)
  BY <1>2, ConfigRemembers
<1>3. CASE \E ids : Editing!DeleteNodes(ids)
  BY <1>3, DeleteRemembers
<1>4. CASE \E ids : Editing!EnableNodes(ids)
  BY <1>4, EnableRemembers
<1>5. CASE \/ \E ids : Editing!DisableNodes(ids) \/ Editing!BulkRename(ids)
           \/ \E id, on : Editing!SaveOverride(id, on)
           \/ \E id : Editing!ResetOverride(id)
  BY <1>5, SwitchesRemember
<1>6. CASE \E a : Editing!AddCustom(a) \/ Editing!DeleteCustom(a)
  BY <1>6, AddCustomRemembers, DeleteCustomRemembers
<1>7. CASE Editing!ClearOverrides
  BY <1>7, ClearRemembers
<1>8. CASE \E sure \in BOOLEAN : Editing!ListDeleted(sure) \/ Editing!RestoreDraft(sure)
  BY <1>8, ListRemembers, DraftRemembers
<1> QED
  BY <1>1, <1>2, <1>3, <1>4, <1>5, <1>6, <1>7, <1>8 DEF Editing!Next

-----------------------------------------------------------------------------
(* The editor's two promises.                                              *)
LEMMA RecordedAreHidden ==
  ASSUME EditingInv  PROVE Editing!DeletedStaysHidden
<1> DEFINE rows == Editing!Original(edited, cache, st)
           hidden == Editing!Hidden(st, rows)
<1>0. /\ Remembered(edited, cache, st, gone) /\ rows = Editing!Here
      /\ edited \in Configs /\ cache \in Editing!Cache
  BY DEF EditingInv, Editing!Here
<1> SUFFICES ASSUME NEW x \in gone, x.firm, NEW r \in Editing!Final(edited, st, rows),
                    Editing!Stands(x, rows, r.id)
             PROVE  FALSE
  BY <1>0 DEF Editing!DeletedStaysHidden
<1>1. r \in rows /\ r.id \notin hidden
  <2>1. Editing!Final(edited, st, rows) = Editing!Merged(edited, {q \in rows : q.id \notin hidden})
    BY DEF Editing!Final
  <2> HIDE DEF rows, hidden
  <2> QED
    BY <2>1 DEF Editing!Merged
<1>2. Recorded(edited, st, x) /\ IsDeletion(x)
  BY <1>0 DEF Remembered, FirmIsRecorded
<1>3. x.id \in DOMAIN st.deleted /\ x.names \subseteq st.deleted[x.id].signatures
  BY <1>2 DEF Recorded
<1>4. x.id = r.id \/ \E y \in st.deleted[x.id].signatures : r.id \in Editing!Owners(rows, y)
  <2>1. CASE x.id = r.id
    BY <2>1
  <2>2. CASE \E y \in x.names : Editing!Named(rows, y) = {r.id}
    <3>1. PICK y \in x.names : Editing!Named(rows, y) = {r.id}
      BY <2>2
    <3>2. IsSignature(y)
      BY <1>2 DEF IsDeletion
    <3>3. r.id \in Editing!Owners(rows, y)
      BY <1>0, <3>1, <3>2, OwnerNamed
    <3> QED
      BY <1>3, <3>1, <3>3
  <2> HIDE DEF rows
  <2> QED
    BY <2>1, <2>2 DEF Editing!Stands
<1> HIDE DEF rows
<1>5. x.id \in Editing!Records(st, rows, r.id)
  BY <1>3, <1>4 DEF Editing!Records
<1>6. r.id \in hidden
  BY <1>1, <1>5 DEF Editing!Hidden, hidden
<1> QED
  BY <1>1, <1>6

LEMMA OriginalHas ==
  ASSUME NEW c \in Configs, NEW kept \in Editing!Cache, NEW s,
         NEW r \in Editing!Original(c, kept, s)
  PROVE  /\ r.id[1] = r.conn
         /\ r.source = Editing!Custom => r \in Editing!CustomRows(s)
<1>1. r \in Editing!Rows[c][kept] \/ r \in Editing!CustomRows(s)
  BY DEF Editing!Original
<1> QED
  BY <1>1, RowHas, RowIs, CustomRowIs

LEMMA FinalKeysAre ==
  ASSUME NEW c \in Configs, NEW r, NEW q, r.id[1] = r.conn, q.id[1] = q.conn,
         Editing!FinalKey(c, q) = Editing!FinalKey(c, r)
  PROVE  q.conn = r.conn
<1>1. c.scope \in {"global", "per_source", "none"}
  BY EditingAssumption
<1>2. CASE c.scope = "global"
  <2>1. <<q.conn>> = <<r.conn>>
    BY <1>2 DEF Editing!FinalKey
  <2> QED
    BY <2>1
<1>3. CASE c.scope = "per_source"
  <2>1. <<q.conn, q.source>> = <<r.conn, r.source>>
    BY <1>3 DEF Editing!FinalKey
  <2> QED
    BY <2>1
<1>4. CASE c.scope = "none"
  <2>1. q.id = r.id
    BY <1>4 DEF Editing!FinalKey
  <2> QED
    BY <2>1
<1> QED
  BY <1>1, <1>2, <1>3, <1>4

LEMMA HiddenAreRecorded ==
  ASSUME EditingInv  PROVE Editing!OnlyDeletedIsHidden
<1> DEFINE rows == Editing!Original(edited, cache, st)
           hidden == Editing!Hidden(st, rows)
           visible == {q \in rows : q.id \notin hidden}
           final == Editing!Final(edited, st, rows)
           served == {q.conn : q \in final}
<1>0. /\ Remembered(edited, cache, st, gone) /\ rows = Editing!Here
      /\ edited \in Configs /\ cache \in Editing!Cache
  BY DEF EditingInv, Editing!Here
<1> SUFFICES ASSUME NEW r \in rows, r.name # Info, r.id \notin st.disabled,
                    \A x \in gone : ~Editing!Stands(Editing!WithLaterNames(x), rows, r.id)
             PROVE  r.conn \in served
  BY <1>0 DEF Editing!OnlyDeletedIsHidden
<1>1. final = Editing!Merged(edited, visible)
  BY DEF Editing!Final
<1>2. \A q \in rows : q.id = r.id => q = r
  BY <1>0, OriginalDiffer DEF Remembered, IsState
<1>3. Editing!Records(st, rows, r.id) = {}
  <2> SUFFICES ASSUME NEW d \in Editing!Records(st, rows, r.id)  PROVE FALSE
    OBVIOUS
  <2>1. d \in DOMAIN st.deleted
    BY DEF Editing!Records
  <2>2. PICK x \in gone : Matches(st, d, x)
    BY <1>0, <2>1 DEF Remembered, RecordsAreKnown
  <2>3. IsDeletion(x)
    BY <1>0 DEF Remembered
  <2>4. StandsFor(x, rows, r.id)
    BY <1>0, <2>1, <2>2, <2>3, RecordStands
  <2> QED
    BY <2>3, <2>4, StandsLater
<1>4. \A q \in rows : q.id[1] = q.conn
  BY <1>0, OriginalHas
<1> HIDE DEF rows
<1>5. r.id \notin hidden
  BY <1>2, <1>3 DEF Editing!Hidden, hidden
<1> HIDE DEF hidden
<1>6. r \in visible
  BY <1>5
<1>7. CASE r \in final
  BY <1>7
<1>8. CASE r \notin final
  <2>1. PICK q \in visible : /\ Editing!FinalKey(edited, q) = Editing!FinalKey(edited, r)
                             /\ q.source # Editing!Custom
    BY <1>1, <1>6, <1>8 DEF Editing!Merged
  <2>2. q \in final
    BY <1>1, <2>1 DEF Editing!Merged
  <2>3. q.conn = r.conn
    BY <1>0, <1>4, <2>1, FinalKeysAre
  <2> QED
    BY <2>2, <2>3
<1> QED
  BY <1>7, <1>8

EditingRemembers == component = "editing" => EditingInv

LEMMA EditingIsKept ==
  EditingRemembers /\ [ConversionNext]_<<component, vars, editVars, fieldVars>>
    => EditingRemembers'
<1> SUFFICES ASSUME EditingRemembers, component' = "editing",
                    [ConversionNext]_<<component, vars, editVars, fieldVars>>
             PROVE  EditingInv'
  BY DEF EditingRemembers
<1>1. CASE ConversionNext
  <2>1. component = "editing" /\ Editing!Next
    BY <1>1 DEF ConversionNext
  <2> QED
    BY <2>1, EditingSteps DEF EditingRemembers
<1>2. CASE UNCHANGED <<component, vars, editVars, fieldVars>>
  <2>1. component = "editing" /\ UNCHANGED <<edited, cache, st, gone>>
    BY <1>2 DEF editVars
  <2> QED
    BY <2>1 DEF EditingRemembers, EditingInv
<1> QED
  BY <1>1, <1>2

(* State and history agree, whatever users and sources do: every record is *)
(* of a deletion, and a deletion that has to last has a record.            *)
THEOREM EditingIsRemembered ==
  ConversionSpec => []EditingRemembers
<1>1. ConversionInit => EditingRemembers
  BY EditingStarts DEF ConversionInit, EditingRemembers
<1> QED
  BY <1>1, EditingIsKept, PTL DEF ConversionSpec

(* What a user deleted is not rendered, for all sources, configurations    *)
(* and cached lists, and after any number of edits.                        *)
THEOREM DeletedAreHidden ==
  ConversionSpec => []DeletedStaysHidden
<1>1. EditingRemembers => DeletedStaysHidden
  BY RecordedAreHidden DEF EditingRemembers, DeletedStaysHidden
<1> QED
  BY <1>1, EditingIsRemembered, PTL

(* Nothing else is: every row that no deletion stands for is rendered, or  *)
(* a row of the same connection is.                                        *)
THEOREM OthersAreServed ==
  ConversionSpec => []OnlyDeletedIsHidden
<1>1. EditingRemembers => OnlyDeletedIsHidden
  BY HiddenAreRecorded DEF EditingRemembers, OnlyDeletedIsHidden
<1> QED
  BY <1>1, EditingIsRemembered, PTL

=============================================================================
