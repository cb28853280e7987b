------------------------------ MODULE Otsu_proof ------------------------------
(***************************************************************************)
(* Proofs about Otsu for every range of grey levels, every size of frame   *)
(* and every width of the counters: the one-pass scan with its running     *)
(* sums finds the lowest level of the largest between-class variance, and  *)
(* both colours are left in the frame.                                     *)
(*                                                                         *)
(* Count and Light are folds over sets of levels.  What a fold computes is *)
(* shown here without an induction rule: a set of counterexamples would    *)
(* have a smallest member, and that one is none.                           *)
(***************************************************************************)
EXTENDS Otsu, FiniteSetTheorems, WellFoundedInduction, TLAPS

(***************************************************************************)
(* Sums over sets of levels.                                               *)
(***************************************************************************)
Pick(s) == CHOOSE x \in s : TRUE

\* The recursive function behind a fold, on a set D of sets of levels.
Solves(g, f, D) ==
  g = [s \in D |-> IF s = {} THEN 0 ELSE f[Pick(s)] + g[s \ {Pick(s)}]]

Sum(f) == CHOOSE g : Solves(g, f, SUBSET Levels)

Small(n) == {s \in SUBSET Levels : Cardinality(s) <= n}

LEMMA PickIn == ASSUME NEW s, s # {} PROVE Pick(s) \in s
<1>1. \E x \in s : TRUE
  OBVIOUS
<1> QED BY <1>1, Zenon DEF Pick

LEMMA LevelsFinite ==
  /\ IsFiniteSet(Levels) /\ Cardinality(Levels) = Top + 1
  /\ \A s \in SUBSET Levels : IsFiniteSet(s) /\ Cardinality(s) \in Nat
                              /\ Cardinality(s) <= Top + 1
<1>1. IsFiniteSet(Levels) /\ Cardinality(Levels) = Top + 1
  <2>1. 0 \in Int /\ Top \in Int /\ ~(0 > Top)
    BY TopAssumption
  <2> QED BY <2>1, FS_Interval DEF Levels
<1>2. ASSUME NEW s \in SUBSET Levels
      PROVE  IsFiniteSet(s) /\ Cardinality(s) \in Nat /\ Cardinality(s) <= Top + 1
  <2>1. IsFiniteSet(s) /\ Cardinality(s) <= Cardinality(Levels)
    BY <1>1, FS_Subset
  <2>2. Cardinality(s) \in Nat
    BY <2>1, FS_CardinalityType
  <2> QED BY <1>1, <2>1, <2>2
<1> QED BY <1>1, <1>2

LEMMA LevelRemoved ==
  ASSUME NEW s \in SUBSET Levels, NEW x \in s
  PROVE  s \ {x} \in SUBSET Levels /\ Cardinality(s \ {x}) = Cardinality(s) - 1
BY LevelsFinite, FS_RemoveElement

\* Among sets of levels there is a smallest.
LEMMA Smallest ==
  ASSUME NEW C \in SUBSET SUBSET Levels, C # {}
  PROVE  \E s \in C : \A t \in SUBSET s : t \in C => t = s
<1>1. FiniteSubsetsOf(Levels) = SUBSET Levels
  BY LevelsFinite, FS_FiniteSubsetsOfFinite
<1>2. IsWellFoundedOn(StrictSubsetOrdering(Levels), SUBSET Levels)
  BY <1>1, FS_StrictSubsetOrderingWellFounded
<1>3. PICK s \in C : \A t \in C : <<t, s>> \notin StrictSubsetOrdering(Levels)
  BY <1>2, WFMin, Zenon
<1>4. ASSUME NEW t \in SUBSET s, t \in C, t # s PROVE FALSE
  <2>1. <<t, s>> \in (SUBSET Levels) \X (SUBSET Levels)
    BY <1>4
  <2>2. <<t, s>> \in StrictSubsetOrdering(Levels)
    BY <1>4, <2>1 DEF StrictSubsetOrdering
  <2> QED BY <1>3, <1>4, <2>2
<1> QED BY <1>4

\* The function behind a fold exists, by the number of levels.
LEMMA SmallSumExists ==
  ASSUME NEW f, NEW n \in Nat
  PROVE  \E g : Solves(g, f, Small(n))
<1> DEFINE B == {m \in Nat : ~ \E g : Solves(g, f, Small(m))}
<1> SUFFICES ASSUME B # {} PROVE FALSE
  OBVIOUS
<1>1. PICK m \in B : \A k \in B : <<k, m>> \notin OpToRel(<, Nat)
  <2>1. B \subseteq Nat
    OBVIOUS
  <2> HIDE DEF B
  <2> QED BY <2>1, WFMin, NatLessThanWellFounded, Zenon
<1>2. \A k \in B : ~(k < m)
  BY <1>1, Zenon DEF OpToRel
<1>3. m \in Nat /\ ~ \E g : Solves(g, f, Small(m))
  OBVIOUS
<1>4. CASE m = 0
  <2>1. Small(0) = {{}}
    <3>1. \A s \in SUBSET Levels : Cardinality(s) <= 0 <=> s = {}
      BY LevelsFinite, FS_EmptySet
    <3>2. {} \in SUBSET Levels
      OBVIOUS
    <3> QED BY <3>1, <3>2 DEF Small
  <2>2. Solves([s \in {{}} |-> 0], f, {{}})
    BY DEF Solves
  <2> QED BY <1>3, <1>4, <2>1, <2>2
<1>5. CASE m # 0
  <2>1. m - 1 \in Nat /\ m - 1 < m
    BY <1>3, <1>5
  <2>2. PICK g : Solves(g, f, Small(m - 1))
    BY <1>2, <2>1
  <2> DEFINE h == [s \in Small(m) |->
                     IF s = {} THEN 0 ELSE f[Pick(s)] + g[s \ {Pick(s)}]]
  <2>3. ASSUME NEW s \in Small(m), s # {}
        PROVE  /\ s \ {Pick(s)} \in Small(m)
               /\ h[s \ {Pick(s)}] = g[s \ {Pick(s)}]
    <3> DEFINE t == s \ {Pick(s)}
    <3>1. s \in SUBSET Levels /\ Cardinality(s) <= m /\ Cardinality(s) \in Nat
      BY LevelsFinite DEF Small
    <3>2. t \in SUBSET Levels /\ Cardinality(t) = Cardinality(s) - 1
      BY <2>3, <3>1, PickIn, LevelRemoved
    <3>3. t \in Small(m - 1) /\ t \in Small(m)
      BY <1>3, <3>1, <3>2 DEF Small
    <3> HIDE DEF t
    <3>4. g[t] = IF t = {} THEN 0 ELSE f[Pick(t)] + g[t \ {Pick(t)}]
      BY <2>2, <3>3, Zenon DEF Solves
    <3>5. h[t] = IF t = {} THEN 0 ELSE f[Pick(t)] + g[t \ {Pick(t)}]
      BY <3>3
    <3> QED BY <3>3, <3>4, <3>5 DEF t
  <2>4. h = [s \in Small(m) |->
               IF s = {} THEN 0 ELSE f[Pick(s)] + h[s \ {Pick(s)}]]
    <3>1. \A s \in Small(m) :
            (IF s = {} THEN 0 ELSE f[Pick(s)] + g[s \ {Pick(s)}])
              = (IF s = {} THEN 0 ELSE f[Pick(s)] + h[s \ {Pick(s)}])
      BY <2>3, Zenon
    <3> QED BY <3>1, Zenon
  <2> QED BY <1>3, <2>4 DEF Solves
<1> QED BY <1>4, <1>5

LEMMA SumExists ==
  ASSUME NEW f PROVE Solves(Sum(f), f, SUBSET Levels)
<1>1. Top + 1 \in Nat
  BY TopAssumption
<1>2. Small(Top + 1) = SUBSET Levels
  BY LevelsFinite DEF Small
<1>3. \E g : Solves(g, f, SUBSET Levels)
  <2>1. \E g : Solves(g, f, Small(Top + 1))
    BY <1>1, SmallSumExists
  <2> QED BY <1>2, <2>1, Zenon
<1> QED BY <1>3, Zenon DEF Sum

LEMMA SumStep ==
  ASSUME NEW f
  PROVE  /\ Sum(f)[{}] = 0
         /\ \A s \in SUBSET Levels :
              s # {} => Sum(f)[s] = f[Pick(s)] + Sum(f)[s \ {Pick(s)}]
<1>1. Sum(f) = [s \in SUBSET Levels |->
                  IF s = {} THEN 0 ELSE f[Pick(s)] + Sum(f)[s \ {Pick(s)}]]
  BY SumExists, Zenon DEF Solves
<1>2. {} \in SUBSET Levels
  OBVIOUS
<1>3. \A s \in SUBSET Levels :
        Sum(f)[s] = IF s = {} THEN 0 ELSE f[Pick(s)] + Sum(f)[s \ {Pick(s)}]
  BY <1>1, Zenon
<1> QED BY <1>2, <1>3

\* Any solution on the subsets of S is Sum there.
LEMMA SumUnique ==
  ASSUME NEW f, NEW S \in SUBSET Levels, NEW g, Solves(g, f, SUBSET S)
  PROVE  g[S] = Sum(f)[S]
<1> DEFINE C == {s \in SUBSET S : g[s] # Sum(f)[s]}
<1> SUFFICES ASSUME C # {} PROVE FALSE
  BY Zenon
<1>1. C \in SUBSET SUBSET Levels
  OBVIOUS
<1>2. PICK s \in C : \A t \in SUBSET s : t \in C => t = s
  <2> HIDE DEF C
  <2> QED BY <1>1, Smallest
<1>3. \A t \in SUBSET S : g[t] = IF t = {} THEN 0 ELSE f[Pick(t)] + g[t \ {Pick(t)}]
  BY Zenon DEF Solves
<1>4. s \in SUBSET S /\ s \in SUBSET Levels /\ g[s] # Sum(f)[s]
  BY <1>1
<1>5. s # {}
  BY <1>3, <1>4, SumStep
<1>6. Pick(s) \in s
  BY <1>5, PickIn
<1>7. s \ {Pick(s)} \in SUBSET S /\ s \ {Pick(s)} \in SUBSET s /\ s \ {Pick(s)} # s
  BY <1>4, <1>6
<1>8. g[s \ {Pick(s)}] = Sum(f)[s \ {Pick(s)}]
  BY <1>2, <1>7
<1>9. g[s] = f[Pick(s)] + g[s \ {Pick(s)}]
  BY <1>3, <1>4, <1>5, Zenon
<1>10. Sum(f)[s] = f[Pick(s)] + Sum(f)[s \ {Pick(s)}]
  BY <1>4, <1>5, SumStep, Zenon
<1> QED BY <1>4, <1>8, <1>9, <1>10, Zenon

\* And there is one, so a fold is Sum.
LEMMA SumRestricts ==
  ASSUME NEW f, NEW S \in SUBSET Levels
  PROVE  \E g : Solves(g, f, SUBSET S)
<1> DEFINE g == [s \in SUBSET S |-> Sum(f)[s]]
<1>1. ASSUME NEW s \in SUBSET S
      PROVE  Sum(f)[s] = IF s = {} THEN 0 ELSE f[Pick(s)] + g[s \ {Pick(s)}]
  <2>1. s \in SUBSET Levels /\ s \ {Pick(s)} \in SUBSET S
    BY <1>1
  <2>2. g[s \ {Pick(s)}] = Sum(f)[s \ {Pick(s)}]
    BY <2>1
  <2> QED BY <2>1, <2>2, SumStep, Zenon
<1>2. g = [s \in SUBSET S |-> IF s = {} THEN 0 ELSE f[Pick(s)] + g[s \ {Pick(s)}]]
  BY <1>1, Zenon
<1> QED BY <1>2 DEF Solves

LEMMA CountIsSum ==
  ASSUME NEW hist, NEW S \in SUBSET Levels
  PROVE  Count(hist, S) = Sum(hist)[S]
<1> DEFINE Iter == CHOOSE g : Solves(g, hist, SUBSET S)
<1>1. Solves(Iter, hist, SUBSET S)
  BY SumRestricts, Zenon
<1>2. Count(hist, S) = Iter[S]
  BY Zenon DEF Count, MapThenSumSet, MapThenFoldSet, Solves, Pick
<1> HIDE DEF Iter
<1> QED BY <1>1, <1>2, SumUnique

\* What the levels of S weigh.
Weights(hist) == [g \in Levels |-> hist[g] * g]

LEMMA LightIsSum ==
  ASSUME NEW hist, NEW S \in SUBSET Levels
  PROVE  Light(hist, S) = Sum(Weights(hist))[S]
<1> DEFINE Iter == CHOOSE g : g = [s \in SUBSET S |-> IF s = {} THEN 0
                     ELSE hist[Pick(s)] * Pick(s) + g[s \ {Pick(s)}]]
<1>1. Light(hist, S) = Iter[S]
  BY Zenon DEF Light, MapThenSumSet, MapThenFoldSet, Pick
<1>2. ASSUME NEW g
      PROVE  Solves(g, Weights(hist), SUBSET S)
               <=> g = [s \in SUBSET S |-> IF s = {} THEN 0
                          ELSE hist[Pick(s)] * Pick(s) + g[s \ {Pick(s)}]]
  <2>1. \A s \in SUBSET S :
          (IF s = {} THEN 0 ELSE hist[Pick(s)] * Pick(s) + g[s \ {Pick(s)}])
            = (IF s = {} THEN 0 ELSE Weights(hist)[Pick(s)] + g[s \ {Pick(s)}])
    <3>1. ASSUME NEW s \in SUBSET S, s # {}
          PROVE  Weights(hist)[Pick(s)] = hist[Pick(s)] * Pick(s)
      <4>1. Pick(s) \in Levels
        BY <3>1, PickIn
      <4> QED BY <4>1, Zenon DEF Weights
    <3> QED BY <3>1, Zenon
  <2> QED BY <2>1, Zenon DEF Solves
<1>3. \E g : Solves(g, Weights(hist), SUBSET S)
  BY SumRestricts
<1>4. Solves(Iter, Weights(hist), SUBSET S)
  BY <1>2, <1>3, Zenon
<1> HIDE DEF Iter
<1> QED BY <1>1, <1>4, SumUnique

LEMMA SumNat ==
  ASSUME NEW f \in [Levels -> Nat], NEW S \in SUBSET Levels
  PROVE  Sum(f)[S] \in Nat
<1> DEFINE C == {s \in SUBSET Levels : Sum(f)[s] \notin Nat}
<1> SUFFICES ASSUME C # {} PROVE FALSE
  BY Zenon
<1>1. PICK s \in C : \A t \in SUBSET s : t \in C => t = s
  <2>1. C \in SUBSET SUBSET Levels
    OBVIOUS
  <2> HIDE DEF C
  <2> QED BY <2>1, Smallest
<1>2. s \in SUBSET Levels /\ Sum(f)[s] \notin Nat
  OBVIOUS
<1>3. s # {}
  <2>1. Sum(f)[{}] = 0
    BY SumStep
  <2> QED BY <1>2, <2>1
<1>4. Pick(s) \in s /\ f[Pick(s)] \in Nat
  BY <1>2, <1>3, PickIn
<1>5. Sum(f)[s \ {Pick(s)}] \in Nat
  BY <1>1, <1>2, <1>4
<1>6. Sum(f)[s] = f[Pick(s)] + Sum(f)[s \ {Pick(s)}]
  BY <1>2, <1>3, SumStep, Zenon
<1> QED BY <1>2, <1>4, <1>5, <1>6

\* Any level may be taken out of the sum, not only the one the fold picks.
LEMMA SumOut ==
  ASSUME NEW f \in [Levels -> Nat], NEW S \in SUBSET Levels, NEW x \in S
  PROVE  Sum(f)[S] = f[x] + Sum(f)[S \ {x}]
<1> DEFINE C == {s \in SUBSET Levels :
                   \E y \in s : Sum(f)[s] # f[y] + Sum(f)[s \ {y}]}
<1> SUFFICES ASSUME C # {} PROVE FALSE
  BY Zenon
<1>1. PICK s \in C : \A t \in SUBSET s : t \in C => t = s
  <2>1. C \in SUBSET SUBSET Levels
    OBVIOUS
  <2> HIDE DEF C
  <2> QED BY <2>1, Smallest
<1>2. s \in SUBSET Levels
  OBVIOUS
<1>3. PICK y \in s : Sum(f)[s] # f[y] + Sum(f)[s \ {y}]
  OBVIOUS
<1> DEFINE p == Pick(s)
<1>4. p \in s
  BY <1>3, PickIn
<1> HIDE DEF p
<1>5. Sum(f)[s] = f[p] + Sum(f)[s \ {p}]
  BY <1>2, <1>4, SumStep, Zenon DEF p
<1>6. p # y
  BY <1>3, <1>5
<1>7. \A t \in SUBSET s : t # s => \A z \in t : Sum(f)[t] = f[z] + Sum(f)[t \ {z}]
  BY <1>1, <1>2
<1>8. Sum(f)[s \ {p}] = f[y] + Sum(f)[(s \ {p}) \ {y}]
  <2>1. s \ {p} \in SUBSET s /\ y \in s \ {p} /\ s \ {p} # s
    BY <1>3, <1>4, <1>6
  <2> QED BY <1>7, <2>1
<1>9. Sum(f)[s \ {y}] = f[p] + Sum(f)[(s \ {y}) \ {p}]
  <2>1. s \ {y} \in SUBSET s /\ p \in s \ {y} /\ s \ {y} # s
    BY <1>3, <1>4, <1>6
  <2> QED BY <1>7, <2>1
<1>10. (s \ {y}) \ {p} = (s \ {p}) \ {y}
  OBVIOUS
<1>11. f[y] \in Nat /\ f[p] \in Nat /\ Sum(f)[(s \ {p}) \ {y}] \in Nat
  <2>1. (s \ {p}) \ {y} \in SUBSET Levels
    BY <1>2
  <2> QED BY <1>2, <1>3, <1>4, <2>1, SumNat
<1>12. Sum(f)[s \ {y}] = f[p] + Sum(f)[(s \ {p}) \ {y}]
  BY <1>9, <1>10
<1> HIDE DEF C
<1>13. Sum(f)[s] = f[y] + Sum(f)[s \ {y}]
  BY <1>5, <1>8, <1>11, <1>12
<1> QED BY <1>3, <1>13

\* A set of levels may be summed in two parts.
LEMMA SumParts ==
  ASSUME NEW f \in [Levels -> Nat], NEW S \in SUBSET Levels, NEW A \in SUBSET S
  PROVE  Sum(f)[S] = Sum(f)[A] + Sum(f)[S \ A]
<1> DEFINE C == {a \in SUBSET S : Sum(f)[S] # Sum(f)[a] + Sum(f)[S \ a]}
<1> SUFFICES ASSUME C # {} PROVE FALSE
  BY Zenon
<1>1. PICK a \in C : \A t \in SUBSET a : t \in C => t = a
  <2>1. C \in SUBSET SUBSET Levels
    OBVIOUS
  <2> HIDE DEF C
  <2> QED BY <2>1, Smallest
<1>2. a \in SUBSET S /\ Sum(f)[S] # Sum(f)[a] + Sum(f)[S \ a]
  OBVIOUS
<1>3. a # {}
  <2> SUFFICES ASSUME a = {} PROVE FALSE
    OBVIOUS
  <2>1. S \ a = S
    OBVIOUS
  <2> QED BY <1>2, <2>1, SumStep, SumNat
<1>4. PICK x \in a : TRUE
  BY <1>3
<1> DEFINE b == a \ {x}
<1>5. /\ b \in SUBSET a /\ b # a /\ b \in SUBSET S
      /\ a \in SUBSET Levels /\ b \in SUBSET Levels
      /\ S \ a \in SUBSET Levels /\ S \ b \in SUBSET Levels
      /\ x \in S \ b /\ (S \ b) \ {x} = S \ a
  BY <1>2, <1>4
<1>6. Sum(f)[S] = Sum(f)[b] + Sum(f)[S \ b]
  BY <1>1, <1>5
<1>7. Sum(f)[a] = f[x] + Sum(f)[b]
  BY <1>4, <1>5, SumOut
<1> HIDE DEF b
<1>8. Sum(f)[S \ b] = f[x] + Sum(f)[S \ a]
  BY <1>5, SumOut
<1>9. /\ f[x] \in Nat /\ Sum(f)[b] \in Nat /\ Sum(f)[S \ a] \in Nat
  BY <1>2, <1>4, <1>5, SumNat
<1> QED BY <1>2, <1>6, <1>7, <1>8, <1>9

\* A sum is zero exactly when all of it is.
LEMMA SumZero ==
  ASSUME NEW f \in [Levels -> Nat], NEW S \in SUBSET Levels
  PROVE  Sum(f)[S] = 0 <=> \A x \in S : f[x] = 0
<1>1. ASSUME NEW x \in S, f[x] # 0 PROVE Sum(f)[S] # 0
  <2>1. S \ {x} \in SUBSET Levels
    OBVIOUS
  <2>2. f[x] \in Nat /\ Sum(f)[S \ {x}] \in Nat
    BY <2>1, SumNat
  <2>3. Sum(f)[S] = f[x] + Sum(f)[S \ {x}]
    BY SumOut
  <2> QED BY <1>1, <2>2, <2>3
<1>2. ASSUME \A x \in S : f[x] = 0, Sum(f)[S] # 0 PROVE FALSE
  <2> DEFINE C == {s \in SUBSET S : Sum(f)[s] # 0}
  <2>1. C # {}
    BY <1>2
  <2>2. PICK s \in C : \A t \in SUBSET s : t \in C => t = s
    <3>1. C \in SUBSET SUBSET Levels
      OBVIOUS
    <3> HIDE DEF C
    <3> QED BY <2>1, <3>1, Smallest
  <2>3. s \in SUBSET S /\ s \in SUBSET Levels /\ Sum(f)[s] # 0
    OBVIOUS
  <2>4. s # {}
    BY <2>3, SumStep
  <2>5. Pick(s) \in s /\ f[Pick(s)] = 0
    BY <1>2, <2>3, <2>4, PickIn
  <2>6. Sum(f)[s \ {Pick(s)}] = 0
    BY <2>2, <2>3, <2>5
  <2>7. Sum(f)[s] = f[Pick(s)] + Sum(f)[s \ {Pick(s)}]
    BY <2>3, <2>4, SumStep, Zenon
  <2> QED BY <2>3, <2>5, <2>6, <2>7
<1> QED BY <1>1, <1>2

(***************************************************************************)
(* Histograms.                                                             *)
(***************************************************************************)
Hists == [Levels -> Nat]

LEMMA WeightsAre ==
  ASSUME NEW hist \in Hists PROVE Weights(hist) \in [Levels -> Nat]
BY TopAssumption DEF Hists, Weights, Levels

LEMMA CountParts ==
  ASSUME NEW hist \in Hists, NEW S \in SUBSET Levels, NEW A \in SUBSET S
  PROVE  /\ Count(hist, S) \in Nat /\ Light(hist, S) \in Nat
         /\ Count(hist, S) = Count(hist, A) + Count(hist, S \ A)
         /\ Light(hist, S) = Light(hist, A) + Light(hist, S \ A)
         /\ Count(hist, S) = 0 <=> \A x \in S : hist[x] = 0
<1>1. A \in SUBSET Levels /\ S \ A \in SUBSET Levels /\ hist \in [Levels -> Nat]
  BY DEF Hists
<1>2. Weights(hist) \in [Levels -> Nat]
  BY WeightsAre
<1>3. /\ Count(hist, S) = Sum(hist)[S] /\ Count(hist, A) = Sum(hist)[A]
      /\ Count(hist, S \ A) = Sum(hist)[S \ A]
  BY <1>1, CountIsSum
<1>4. /\ Light(hist, S) = Sum(Weights(hist))[S]
      /\ Light(hist, A) = Sum(Weights(hist))[A]
      /\ Light(hist, S \ A) = Sum(Weights(hist))[S \ A]
  BY <1>1, LightIsSum
<1>5. Count(hist, S) \in Nat /\ Light(hist, S) \in Nat
  BY <1>1, <1>2, <1>3, <1>4, SumNat
<1>6. Count(hist, S) = Count(hist, A) + Count(hist, S \ A)
  BY <1>1, <1>3, SumParts
<1>7. Light(hist, S) = Light(hist, A) + Light(hist, S \ A)
  BY <1>2, <1>4, SumParts
<1>8. Count(hist, S) = 0 <=> \A x \in S : hist[x] = 0
  BY <1>1, <1>3, SumZero
<1> QED BY <1>5, <1>6, <1>7, <1>8

\* One level more.
LEMMA CountNext ==
  ASSUME NEW hist \in Hists, NEW t \in Levels
  PROVE  /\ Count(hist, 0 .. t) = Count(hist, 0 .. t - 1) + hist[t]
         /\ Light(hist, 0 .. t) = Light(hist, 0 .. t - 1) + hist[t] * t
<1> DEFINE S == 0 .. t
           R == 0 .. t - 1
<1>1. S \in SUBSET Levels /\ t \in S /\ S \ {t} = R /\ R \in SUBSET Levels
  BY TopAssumption DEF Levels
<1> HIDE DEF S, R
<1>2. Weights(hist) \in [Levels -> Nat] /\ hist \in [Levels -> Nat]
  BY WeightsAre DEF Hists
<1>3. Sum(hist)[S] = hist[t] + Sum(hist)[R]
  <2>1. Sum(hist)[S] = hist[t] + Sum(hist)[S \ {t}]
    BY <1>1, <1>2, SumOut
  <2> QED BY <1>1, <2>1
<1>4. Sum(Weights(hist))[S] = hist[t] * t + Sum(Weights(hist))[R]
  <2>1. Weights(hist)[t] = hist[t] * t
    BY DEF Weights
  <2>2. Sum(Weights(hist))[S] = Weights(hist)[t] + Sum(Weights(hist))[S \ {t}]
    BY <1>1, <1>2, SumOut
  <2> QED BY <1>1, <2>1, <2>2
<1>5. hist[t] \in Nat /\ hist[t] * t \in Nat
  BY <1>2, TopAssumption DEF Levels
<1>6. /\ Count(hist, S) = Sum(hist)[S] /\ Count(hist, R) = Sum(hist)[R]
      /\ Light(hist, S) = Sum(Weights(hist))[S]
      /\ Light(hist, R) = Sum(Weights(hist))[R]
  BY <1>1, CountIsSum, LightIsSum
<1>7. Count(hist, R) \in Nat /\ Light(hist, R) \in Nat
  BY <1>1, CountParts
<1>8. /\ Count(hist, S) = Count(hist, R) + hist[t]
      /\ Light(hist, S) = Light(hist, R) + hist[t] * t
  BY <1>3, <1>4, <1>5, <1>6, <1>7
<1> QED BY <1>8 DEF S, R

LEMMA CountNone ==
  ASSUME NEW hist \in Hists
  PROVE  Count(hist, {}) = 0 /\ Light(hist, {}) = 0
BY CountIsSum, LightIsSum, SumStep

\* Below the darkest level there is nothing.
LEMMA CountDark ==
  ASSUME NEW hist \in Hists, NEW t \in 0 .. Top + 1,
         \A g \in Levels : g < t => hist[g] = 0
  PROVE  Count(hist, 0 .. t - 1) = 0 /\ Light(hist, 0 .. t - 1) = 0
<1>1. 0 .. t - 1 \in SUBSET Levels /\ \A g \in 0 .. t - 1 : hist[g] = 0
  BY TopAssumption DEF Levels
<1>2. Count(hist, 0 .. t - 1) = 0
  BY <1>1, CountParts
<1>3. \A g \in 0 .. t - 1 : Weights(hist)[g] = 0
  <2> SUFFICES ASSUME NEW g \in 0 .. t - 1 PROVE Weights(hist)[g] = 0
    OBVIOUS
  <2>1. g \in Levels /\ hist[g] = 0 /\ g \in Int
    BY <1>1
  <2> QED BY <2>1 DEF Weights
<1>4. Light(hist, 0 .. t - 1) = 0
  BY <1>1, <1>3, WeightsAre, LightIsSum, SumZero
<1> QED BY <1>2, <1>4

(***************************************************************************)
(* Fractions, and the two ways to write the variance.                      *)
(***************************************************************************)
LEMMA Scale ==
  ASSUME NEW x \in Int, NEW y \in Int, NEW k \in Nat, k > 0
  PROVE  x >= y <=> k * x >= k * y
<1>1. k * x - k * y = k * (x - y)
  OBVIOUS
<1>2. CASE x >= y
  <2>1. x - y \in Nat /\ k * (x - y) >= 0
    BY <1>2
  <2> QED BY <1>1, <1>2, <2>1
<1>3. CASE ~(x >= y)
  <2>1. y - x >= 1 /\ y - x \in Nat
    BY <1>3
  <2>2. k * (y - x) >= 1
    BY <2>1
  <2>3. k * (y - x) = k * y - k * x
    OBVIOUS
  <2> QED BY <1>3, <2>2, <2>3
<1> QED BY <1>2, <1>3

LEMMA LargerThanAll ==
  ASSUME NEW a1 \in Int, NEW a2 \in Nat, NEW b1 \in Int, NEW b2 \in Nat,
         NEW c1 \in Int, NEW c2 \in Nat, a2 > 0, b2 > 0, c2 > 0,
         ~(b1 * a2 >= a1 * b2), b1 * c2 >= c1 * b2
  PROVE  a1 * c2 >= c1 * a2 /\ ~(c1 * a2 >= a1 * c2)
<1>1. /\ c2 * (b1 * a2) \in Int /\ c2 * (a1 * b2) \in Int
      /\ ~(c2 * (b1 * a2) >= c2 * (a1 * b2))
  <2>1. b1 * a2 \in Int /\ a1 * b2 \in Int
    OBVIOUS
  <2> QED BY <2>1, Scale
<1>2. a2 * (b1 * c2) >= a2 * (c1 * b2)
  <2>1. b1 * c2 \in Int /\ c1 * b2 \in Int
    OBVIOUS
  <2> QED BY <2>1, Scale
<1>3. /\ a2 * (b1 * c2) = c2 * (b1 * a2)
      /\ a2 * (c1 * b2) = b2 * (c1 * a2)
      /\ c2 * (a1 * b2) = b2 * (a1 * c2)
  OBVIOUS
<1>4. b2 * (a1 * c2) \in Int /\ b2 * (c1 * a2) \in Int
  OBVIOUS
<1>5. ~(b2 * (c1 * a2) >= b2 * (a1 * c2))
  BY <1>1, <1>2, <1>3, <1>4
<1>6. a1 * c2 \in Int /\ c1 * a2 \in Int
  OBVIOUS
<1>7. ~(c1 * a2 >= a1 * c2)
  BY <1>5, <1>6, Scale
<1> QED BY <1>6, <1>7

\* The squared distances of the two class means, weighted by the class sizes,
\* add up to the one product the scan computes.
LEMMA VarianceAlgebra ==
  ASSUME NEW d \in Int, NEW l \in Int, NEW sd \in Int, NEW sl \in Int
  PROVE  LET n == d + l
             s == sd + sl
             gap == sd * l - sl * d
         IN  /\ sd * n - s * d = gap
             /\ sl * n - s * l = -gap
             /\ l * gap * gap + d * (-gap) * (-gap) = n * (gap * gap)
<1> DEFINE n == d + l
           s == sd + sl
           gap == sd * l - sl * d
<1>1. sd * n = sd * d + sd * l /\ s * d = sd * d + sl * d
  OBVIOUS
<1>2. sl * n = sl * d + sl * l /\ s * l = sd * l + sl * l
  OBVIOUS
<1>3. gap \in Int
  OBVIOUS
<1>4. sd * n - s * d = gap /\ sl * n - s * l = -gap
  BY <1>1, <1>2
<1> HIDE DEF gap
<1>5. (-gap) * (-gap) = gap * gap
  BY <1>3
<1>6. l * gap * gap = l * (gap * gap) /\ d * (-gap) * (-gap) = d * (gap * gap)
  BY <1>3, <1>5
<1>7. n * (gap * gap) = d * (gap * gap) + l * (gap * gap)
  BY <1>3
<1>8. l * (gap * gap) \in Int /\ d * (gap * gap) \in Int
  BY <1>3
<1> QED BY <1>4, <1>6, <1>7, <1>8 DEF gap

(***************************************************************************)
(* What the scan finds.                                                    *)
(***************************************************************************)
\* The variance of the split at a level, as the scan computes it.
Sig(t) == Sigma(Count(HistoGram, 0 .. t), Light(HistoGram, 0 .. t))

LEMMA SplitAt ==
  ASSUME HistoGram \in Hists, NEW t \in Levels
  PROVE  LET dark  == Count(HistoGram, 0 .. t)
             light == Count(HistoGram, Levels \ 0 .. t)
             sd    == Light(HistoGram, 0 .. t)
             sl    == Light(HistoGram, Levels \ 0 .. t)
         IN  /\ dark \in Nat /\ light \in Nat /\ sd \in Nat /\ sl \in Nat
             /\ Amount = dark + light /\ PixelIntegral = sd + sl
             /\ t \in Splits(HistoGram) <=> dark > 0 /\ light > 0
<1> DEFINE A == 0 .. t
           B == Levels \ A
<1>1. /\ Levels \in SUBSET Levels /\ A \in SUBSET Levels /\ B \in SUBSET Levels
      /\ {} \in SUBSET A /\ {} \in SUBSET B
      /\ \A g \in Levels : (g \in A <=> g <= t) /\ (g \in B <=> t < g)
  BY TopAssumption DEF Levels
<1> HIDE DEF A
<1> HIDE DEF B
<1>2. /\ Amount = Count(HistoGram, A) + Count(HistoGram, B)
      /\ PixelIntegral = Light(HistoGram, A) + Light(HistoGram, B)
  BY <1>1, CountParts DEF Amount, PixelIntegral, B
<1>3. /\ Count(HistoGram, A) \in Nat /\ Light(HistoGram, A) \in Nat
      /\ Count(HistoGram, A) = 0 <=> \A x \in A : HistoGram[x] = 0
  BY <1>1, CountParts
<1>4. /\ Count(HistoGram, B) \in Nat /\ Light(HistoGram, B) \in Nat
      /\ Count(HistoGram, B) = 0 <=> \A x \in B : HistoGram[x] = 0
  BY <1>1, CountParts
<1>5. t \in Splits(HistoGram)
        <=> /\ \E d \in A : HistoGram[d] # 0
            /\ \E l \in B : HistoGram[l] # 0
  BY <1>1 DEF Splits, Present
<1>6. t \in Splits(HistoGram) <=> Count(HistoGram, A) > 0 /\ Count(HistoGram, B) > 0
  BY <1>3, <1>4, <1>5
<1> QED BY <1>2, <1>3, <1>4, <1>6 DEF A, B

LEMMA SigIs ==
  ASSUME HistoGram \in Hists, NEW t \in Levels
  PROVE  /\ Sig(t)[1] \in Nat /\ Sig(t)[2] \in Nat
         /\ Sig(t) = <<Sig(t)[1], Sig(t)[2]>>
         /\ t \in Splits(HistoGram) <=> Sig(t)[2] > 0
<1> DEFINE dark == Count(HistoGram, 0 .. t)
           sd == Light(HistoGram, 0 .. t)
           fore == Amount - dark
           gap == sd * fore - (PixelIntegral - sd) * dark
<1>1. /\ dark \in Nat /\ fore \in Nat /\ sd \in Nat /\ PixelIntegral - sd \in Nat
      /\ t \in Splits(HistoGram) <=> dark > 0 /\ fore > 0
  <2> DEFINE light == Count(HistoGram, Levels \ 0 .. t)
             sl == Light(HistoGram, Levels \ 0 .. t)
  <2>1. /\ dark \in Nat /\ light \in Nat /\ sd \in Nat /\ sl \in Nat
        /\ Amount = dark + light /\ PixelIntegral = sd + sl
        /\ t \in Splits(HistoGram) <=> dark > 0 /\ light > 0
    BY SplitAt
  <2> HIDE DEF dark, light, sd, sl
  <2>2. Amount - dark = light /\ PixelIntegral - sd = sl
    BY <2>1
  <2> QED BY <2>1, <2>2
<1>2. Sig(t) = <<gap * gap, dark * fore>>
  BY DEF Sig, Sigma
<1>3. gap \in Int
  <2> HIDE DEF dark, sd, fore
  <2> QED BY <1>1
<1> HIDE DEF dark, fore, gap
<1>4. gap * gap \in Nat
  BY <1>3
<1>5. dark * fore \in Nat /\ (dark * fore > 0 <=> dark > 0 /\ fore > 0)
  BY <1>1
<1> QED BY <1>1, <1>2, <1>4, <1>5

\* The definition of the properties and the product of the scan order the
\* splits alike.
LEMMA BetweenIs ==
  ASSUME HistoGram \in Hists, NEW t \in Levels
  PROVE  Between(HistoGram, t) = <<Amount * Sig(t)[1], Sig(t)[2]>>
<1> DEFINE d == Count(HistoGram, 0 .. t)
           l == Count(HistoGram, Levels \ 0 .. t)
           sd == Light(HistoGram, 0 .. t)
           sl == Light(HistoGram, Levels \ 0 .. t)
           gap == sd * l - sl * d
<1>1. /\ d \in Nat /\ l \in Nat /\ sd \in Nat /\ sl \in Nat
      /\ Amount = d + l /\ PixelIntegral = sd + sl
  BY SplitAt
<1>2. {g \in Levels : g <= t} = 0 .. t
  BY TopAssumption DEF Levels
<1>3. Between(HistoGram, t) =
        << l * (sd * Amount - PixelIntegral * d) * (sd * Amount - PixelIntegral * d)
           + d * (sl * Amount - PixelIntegral * l) * (sl * Amount - PixelIntegral * l),
           d * l >>
  BY <1>2 DEF Between, Amount, PixelIntegral
<1>4. Sig(t) = << (sd * (Amount - d) - (PixelIntegral - sd) * d)
                    * (sd * (Amount - d) - (PixelIntegral - sd) * d),
                  d * (Amount - d) >>
  BY DEF Sig, Sigma
<1> HIDE DEF d, l, sd, sl
<1>5. Amount - d = l /\ PixelIntegral - sd = sl
  BY <1>1
<1>6. Sig(t) = <<gap * gap, d * l>>
  BY <1>4, <1>5
<1>7. /\ sd * Amount - PixelIntegral * d = gap
      /\ sl * Amount - PixelIntegral * l = -gap
      /\ l * gap * gap + d * (-gap) * (-gap) = Amount * (gap * gap)
  BY <1>1, VarianceAlgebra
<1> HIDE DEF gap
<1>8. Between(HistoGram, t) = <<Amount * (gap * gap), d * l>>
  BY <1>3, <1>7
<1> QED BY <1>6, <1>8

LEMMA SameOrder ==
  ASSUME HistoGram \in Hists,
         NEW t \in Splits(HistoGram), NEW u \in Splits(HistoGram)
  PROVE  AtLeast(Between(HistoGram, t), Between(HistoGram, u))
           <=> AtLeast(Sig(t), Sig(u))
<1>1. t \in Levels /\ u \in Levels
  BY DEF Splits
<1>2. Amount \in Nat /\ Amount > 0
  <2> DEFINE dark == Count(HistoGram, 0 .. t)
             light == Count(HistoGram, Levels \ 0 .. t)
  <2>1. /\ dark \in Nat /\ light \in Nat /\ Amount = dark + light
        /\ dark > 0 /\ light > 0
    BY <1>1, SplitAt
  <2> HIDE DEF dark, light
  <2> QED BY <2>1
<1> DEFINE a1 == Sig(t)[1]
           a2 == Sig(t)[2]
           b1 == Sig(u)[1]
           b2 == Sig(u)[2]
<1>3. a1 \in Nat /\ a2 \in Nat /\ b1 \in Nat /\ b2 \in Nat
  BY <1>1, SigIs
<1>4. AtLeast(Between(HistoGram, t), Between(HistoGram, u))
        <=> (Amount * a1) * b2 >= (Amount * b1) * a2
  BY <1>1, BetweenIs DEF AtLeast
<1>5. AtLeast(Sig(t), Sig(u)) <=> a1 * b2 >= b1 * a2
  BY DEF AtLeast
<1> HIDE DEF a1, a2, b1, b2
<1>6. /\ (Amount * a1) * b2 = Amount * (a1 * b2)
      /\ (Amount * b1) * a2 = Amount * (b1 * a2)
      /\ a1 * b2 \in Int /\ b1 * a2 \in Int
  BY <1>2, <1>3
<1>7. a1 * b2 >= b1 * a2 <=> Amount * (a1 * b2) >= Amount * (b1 * a2)
  BY <1>2, <1>6, Scale
<1> QED BY <1>4, <1>5, <1>6, <1>7

LEMMA LeastLevel ==
  ASSUME NEW S \in SUBSET Nat, S # {}
  PROVE  Min(S) \in S /\ \A y \in S : Min(S) <= y
<1>1. PICK x \in S : \A y \in S : <<y, x>> \notin OpToRel(<, Nat)
  BY WFMin, NatLessThanWellFounded, Zenon
<1>2. \A y \in S : ~(y < x)
  BY <1>1, Zenon DEF OpToRel
<1>3. \E z \in S : \A y \in S : z <= y
  BY <1>2
<1> QED BY <1>3, Zenon DEF Min

\* The range of the scan: the second loop looks at the wrong counter, so it
\* always ends at the lightest level there is.
LEMMA RangeIs ==
  ASSUME HistoGram \in Hists
  PROVE  /\ MinValue \in 0 .. Top + 1 /\ MaxValue = Top
         /\ \A g \in Levels : g < MinValue => HistoGram[g] = 0
         /\ Present(HistoGram) # {} => MinValue \in Present(HistoGram)
<1> DEFINE P == Present(HistoGram) \cup {Top + 1}
<1>1. P \in SUBSET Nat /\ P # {} /\ Present(HistoGram) \subseteq Levels
  BY TopAssumption DEF Present, Levels
<1>2. MinValue \in P /\ \A y \in P : MinValue <= y
  BY <1>1, LeastLevel, Zenon DEF MinValue
<1>3. MinValue \in 0 .. Top + 1
  BY <1>1, <1>2, TopAssumption DEF Levels
<1>4. \A g \in Levels : g < MinValue => HistoGram[g] = 0
  BY <1>2, <1>3, TopAssumption DEF Present, Levels
<1>5. Present(HistoGram) # {} => MinValue \in Present(HistoGram)
  BY <1>1, <1>2, TopAssumption DEF Levels
<1>6. MaxValue = Top
  <2>1. {m \in Levels : m <= MinValue \/ MinValue \in Present(HistoGram)} = Levels
    <3>1. CASE Present(HistoGram) # {}
      BY <1>5, <3>1
    <3>2. CASE Present(HistoGram) = {}
      <4>1. MinValue = Top + 1
        BY <1>2, <3>2
      <4> QED BY <4>1, TopAssumption DEF Levels
    <3> QED BY <3>1, <3>2
  <2>2. Top \in Levels /\ \A y \in Levels : Top >= y
    BY TopAssumption DEF Levels
  <2>3. Max(Levels) \in Levels /\ \A y \in Levels : Max(Levels) >= y
    BY <2>2, Zenon DEF Max
  <2>4. Max(Levels) = Top
    BY <2>2, <2>3, TopAssumption DEF Levels
  <2> QED BY <2>1, <2>4 DEF MaxValue
<1> QED BY <1>3, <1>4, <1>5, <1>6

LEMMA SplitRange ==
  ASSUME HistoGram \in Hists, NEW t \in Splits(HistoGram)
  PROVE  t \in MinValue .. Top - 1 /\ t \in Levels /\ Present(HistoGram) # {}
<1>1. PICK d \in Present(HistoGram), l \in Present(HistoGram) : d <= t /\ t < l
  BY DEF Splits
<1>2. t \in Levels /\ d \in Levels /\ l \in Levels /\ HistoGram[d] # 0
  BY DEF Splits, Present
<1>3. MinValue \in Nat /\ ~(d < MinValue)
  BY <1>2, RangeIs, TopAssumption
<1> QED BY <1>1, <1>2, <1>3, TopAssumption DEF Levels

(***************************************************************************)
(* The invariant: the running sums are those of the levels scanned, and    *)
(* the threshold is the lowest best of the splits among them.              *)
(***************************************************************************)
Counted ==
  /\ stage \in {"count", "scan", "done"}
  /\ frame \in Hists /\ HistoGram \in Hists
  /\ \A g \in Levels : HistoGram[g] # 0 => frame[g] # 0
  /\ \A g \in Levels : frame[g] < Wrap => HistoGram[g] = frame[g]

Cleared == PixelBack = 0 /\ PixelIntegralBack = 0 /\ SigmaB = NoVariance

SumsOK ==
  /\ j \in MinValue .. Top
  /\ PixelBack = Count(HistoGram, 0 .. j - 1)
  /\ PixelIntegralBack = Light(HistoGram, 0 .. j - 1)

Seen == {t \in Splits(HistoGram) : t < j}

BestSoFar ==
  \/ Seen = {} /\ SigmaB = NoVariance
  \/ /\ Threshold \in Seen /\ SigmaB = Sig(Threshold)
     /\ \A u \in Seen : /\ AtLeast(Sig(Threshold), Sig(u))
                        /\ u < Threshold => ~AtLeast(Sig(u), Sig(Threshold))

Found ==
  /\ Threshold \in Best(HistoGram)
  /\ \A u \in Best(HistoGram) : Threshold <= u

OtsuInv ==
  /\ Counted
  /\ stage = "count" => Cleared
  /\ stage = "scan" /\ Present(HistoGram) # {} => SumsOK /\ BestSoFar
  /\ stage = "done" /\ Splits(HistoGram) # {} => Found

LEMMA SameHistogram ==
  ASSUME HistoGram' = HistoGram
  PROVE  /\ MinValue' = MinValue /\ MaxValue' = MaxValue
         /\ \A t : Sig(t)' = Sig(t)
<1>1. Present(HistoGram)' = Present(HistoGram)
  BY DEF Present
<1>2. MinValue' = MinValue
  BY <1>1 DEF MinValue
<1>3. MaxValue' = MaxValue
  BY <1>1, <1>2 DEF MaxValue
<1> QED BY <1>2, <1>3 DEF Sig, Sigma, Amount, PixelIntegral

\* The best so far, once all levels are scanned, is the best.
LEMMA BestFound ==
  ASSUME HistoGram \in Hists, BestSoFar, Seen = Splits(HistoGram),
         Splits(HistoGram) # {}
  PROVE  Found
<1>1. /\ Threshold \in Splits(HistoGram)
      /\ \A u \in Splits(HistoGram) :
           /\ AtLeast(Sig(Threshold), Sig(u))
           /\ u < Threshold => ~AtLeast(Sig(u), Sig(Threshold))
  BY DEF BestSoFar
<1>2. \A u \in Splits(HistoGram) :
        /\ AtLeast(Between(HistoGram, Threshold), Between(HistoGram, u))
        /\ u < Threshold =>
             ~AtLeast(Between(HistoGram, u), Between(HistoGram, Threshold))
  BY <1>1, SameOrder
<1>3. Threshold \in Best(HistoGram)
  BY <1>1, <1>2 DEF Best
<1>4. ASSUME NEW u \in Best(HistoGram) PROVE Threshold <= u
  <2>1. u \in Splits(HistoGram) /\ ~(u < Threshold)
    BY <1>1, <1>2, <1>4 DEF Best
  <2>2. u \in Int /\ Threshold \in Int
    BY <1>1, <2>1, TopAssumption DEF Splits, Levels
  <2> QED BY <2>1, <2>2
<1> QED BY <1>3, <1>4 DEF Found

\* One or two adjacent levels: there is one split at most.
LEMMA OnlySplit ==
  ASSUME HistoGram \in Hists, Top \in {MinValue, MinValue + 1},
         Splits(HistoGram) # {}
  PROVE  /\ MinValue \in Best(HistoGram)
         /\ \A u \in Best(HistoGram) : MinValue <= u
<1>1. MinValue \in Nat
  BY RangeIs, TopAssumption
<1>2. \A t \in Splits(HistoGram) : t = MinValue
  BY <1>1, SplitRange, TopAssumption
<1>3. MinValue \in Splits(HistoGram)
  BY <1>2
<1>4. AtLeast(Sig(MinValue), Sig(MinValue))
  <2>1. Sig(MinValue)[1] \in Nat /\ Sig(MinValue)[2] \in Nat
    BY <1>3, SplitRange, SigIs
  <2> QED BY <2>1 DEF AtLeast
<1>5. AtLeast(Between(HistoGram, MinValue), Between(HistoGram, MinValue))
  BY <1>3, <1>4, SameOrder
<1>6. MinValue \in Best(HistoGram)
  BY <1>2, <1>3, <1>5 DEF Best
<1> QED BY <1>1, <1>2, <1>6 DEF Best

\* The scan begins: below the darkest level there is nothing to sum.
LEMMA ScanBegins ==
  ASSUME HistoGram \in Hists, HistoGram' = HistoGram, j' = MinValue,
         Present(HistoGram) # {}, Cleared, UNCHANGED <<sums, SigmaB>>
  PROVE  SumsOK' /\ BestSoFar'
<1>1. MinValue' = MinValue
  BY SameHistogram
<1>2. MinValue \in 0 .. Top + 1 /\ MinValue \in Levels
  BY RangeIs DEF Present
<1>3. Count(HistoGram, 0 .. MinValue - 1) = 0 /\ Light(HistoGram, 0 .. MinValue - 1) = 0
  BY <1>2, RangeIs, CountDark
<1>4. SumsOK'
  BY <1>1, <1>2, <1>3, TopAssumption DEF SumsOK, Cleared, sums, Levels
<1>5. Seen' = {}
  <2>1. \A t \in Splits(HistoGram) : ~(t < MinValue)
    BY <1>2, SplitRange
  <2> QED BY <2>1 DEF Seen
<1> QED BY <1>4, <1>5 DEF BestSoFar, Cleared, NoVariance

\* The sums of a step, and what is compared with the largest variance.
LEMMA ScanSums ==
  ASSUME HistoGram \in Hists, Present(HistoGram) # {}, SumsOK, Scan
  PROVE  /\ j \in Levels /\ SumsOK'
         /\ Sigma(PixelBack', PixelIntegralBack') = Sig(j)
<1>1. /\ HistoGram' = HistoGram /\ j < Top /\ j' = j + 1
      /\ PixelBack' = PixelBack + HistoGram[j]
      /\ PixelIntegralBack' = PixelIntegralBack + HistoGram[j] * j
  BY RangeIs DEF Scan
<1>2. MinValue \in 0 .. Top + 1 /\ j \in MinValue .. Top
  BY RangeIs DEF SumsOK
<1>3. j \in Levels /\ j + 1 - 1 = j /\ j + 1 \in MinValue .. Top
  BY <1>1, <1>2, TopAssumption DEF Levels
<1>4. /\ PixelBack' = Count(HistoGram, 0 .. j)
      /\ PixelIntegralBack' = Light(HistoGram, 0 .. j)
  BY <1>1, <1>3, CountNext DEF SumsOK
<1>5. SumsOK'
  BY <1>1, <1>3, <1>4, SameHistogram DEF SumsOK
<1> QED BY <1>3, <1>4, <1>5 DEF Sig

LEMMA ScanStep ==
  ASSUME HistoGram \in Hists, Present(HistoGram) # {}, SumsOK, BestSoFar, Scan
  PROVE  BestSoFar'
<1>1. j \in Levels /\ Sigma(PixelBack', PixelIntegralBack') = Sig(j)
  BY ScanSums
<1>2. /\ HistoGram' = HistoGram /\ j' = j + 1
      /\ IF Larger(Sig(j), SigmaB)
         THEN SigmaB' = Sig(j) /\ Threshold' = j
         ELSE UNCHANGED <<SigmaB, Threshold>>
  BY <1>1 DEF Scan
<1>3. \A t : Sig(t)' = Sig(t)
  BY <1>2, SameHistogram
<1>4. \A t \in Splits(HistoGram) : t \in Levels /\ t \in Int
  BY TopAssumption DEF Splits, Levels
<1>5. Seen' = Seen \cup {t \in Splits(HistoGram) : t = j}
  BY <1>1, <1>2, <1>4, TopAssumption DEF Seen, Levels
<1>6. CASE j \notin Splits(HistoGram)
  <2>1. Seen' = Seen
    BY <1>5, <1>6
  <2>2. ~Larger(Sig(j), SigmaB)
    <3>1. Sig(j)[2] = 0
      BY <1>1, <1>6, SigIs
    <3> QED BY <3>1 DEF Larger
  <2>3. SigmaB' = SigmaB /\ Threshold' = Threshold
    BY <1>2, <2>2
  <2> QED BY <1>3, <2>1, <2>3 DEF BestSoFar
<1>7. CASE j \in Splits(HistoGram)
  <2>1. Seen' = Seen \cup {j} /\ j \in Seen'
    BY <1>5, <1>7
  <2>2. Sig(j)[1] \in Nat /\ Sig(j)[2] \in Nat /\ Sig(j)[2] > 0
    BY <1>1, <1>7, SigIs
  <2>3. \A u \in Seen : /\ u \in Int /\ u < j
                        /\ Sig(u)[1] \in Nat /\ Sig(u)[2] \in Nat /\ Sig(u)[2] > 0
    BY <1>4, SigIs DEF Seen
  <2>4. AtLeast(Sig(j), Sig(j))
    BY <2>2 DEF AtLeast
  <2>5. CASE Seen = {} /\ SigmaB = NoVariance
    <3>1. Larger(Sig(j), SigmaB)
      BY <2>2, <2>5 DEF Larger, NoVariance
    <3>2. Seen' = {j} /\ SigmaB' = Sig(j) /\ Threshold' = j
      BY <1>2, <2>1, <2>5, <3>1
    <3>3. j \in Int
      BY <1>4, <1>7
    <3> QED BY <1>3, <2>4, <3>2, <3>3 DEF BestSoFar
  <2>6. CASE /\ Threshold \in Seen /\ SigmaB = Sig(Threshold)
             /\ \A u \in Seen :
                  /\ AtLeast(Sig(Threshold), Sig(u))
                  /\ u < Threshold => ~AtLeast(Sig(u), Sig(Threshold))
    <3>1. Larger(Sig(j), SigmaB) <=> ~AtLeast(Sig(Threshold), Sig(j))
      <4>1. /\ Sig(Threshold)[1] \in Nat /\ Sig(Threshold)[2] \in Nat
            /\ Sig(j)[2] # 0
        BY <2>2, <2>3, <2>6
      <4> QED BY <2>2, <2>6, <4>1 DEF Larger, AtLeast
    <3>2. CASE AtLeast(Sig(Threshold), Sig(j))
      <4>1. SigmaB' = SigmaB /\ Threshold' = Threshold
        BY <1>2, <3>1, <3>2
      <4>2. Threshold \in Int /\ j \in Int /\ Threshold < j
        BY <1>4, <1>7, <2>3, <2>6
      <4>3. \A u \in Seen' :
              /\ AtLeast(Sig(Threshold), Sig(u))
              /\ u < Threshold => ~AtLeast(Sig(u), Sig(Threshold))
        BY <2>1, <2>6, <3>2, <4>2
      <4> QED BY <1>3, <2>1, <2>6, <4>1, <4>3 DEF BestSoFar
    <3>3. CASE ~AtLeast(Sig(Threshold), Sig(j))
      <4>1. SigmaB' = Sig(j) /\ Threshold' = j
        BY <1>2, <3>1, <3>3
      <4>2. ASSUME NEW u \in Seen
            PROVE  AtLeast(Sig(j), Sig(u)) /\ ~AtLeast(Sig(u), Sig(j))
        <5>1. /\ Sig(u)[1] \in Int /\ Sig(u)[2] \in Nat /\ Sig(u)[2] > 0
              /\ Sig(j)[1] \in Int /\ Sig(Threshold)[1] \in Int
              /\ Sig(Threshold)[2] \in Nat /\ Sig(Threshold)[2] > 0
          BY <2>2, <2>3, <2>6, <4>2
        <5>2. /\ ~(Sig(Threshold)[1] * Sig(j)[2] >= Sig(j)[1] * Sig(Threshold)[2])
              /\ Sig(Threshold)[1] * Sig(u)[2] >= Sig(u)[1] * Sig(Threshold)[2]
          BY <2>6, <3>3, <4>2 DEF AtLeast
        <5> QED BY <2>2, <5>1, <5>2, LargerThanAll DEF AtLeast
      <4>3. j \in Int
        BY <1>4, <1>7
      <4>4. \A u \in Seen' : /\ AtLeast(Sig(j), Sig(u))
                             /\ u < j => ~AtLeast(Sig(u), Sig(j))
        BY <2>1, <2>4, <4>2, <4>3
      <4> QED BY <1>3, <2>1, <4>1, <4>4 DEF BestSoFar
    <3> QED BY <3>2, <3>3
  <2> QED BY <2>5, <2>6 DEF BestSoFar
<1> QED BY <1>6, <1>7

LEMMA OtsuInit == Init => OtsuInv
BY DEF Init, OtsuInv, Counted, Cleared, Hists

\* A counter that does not wrap counts.
LEMMA CountsUp ==
  ASSUME NEW n \in Nat, n + 1 < Wrap
  PROVE  (n + 1) % Wrap = n + 1
<1>1. Wrap \in Nat /\ Wrap > 0
  BY WrapAssumption
<1> QED BY <1>1

LEMMA CountedKept == Counted /\ [Next]_vars => Counted'
<1> SUFFICES ASSUME Counted, [Next]_vars PROVE Counted'
  OBVIOUS
<1> USE DEF Counted
<1>1. ASSUME NEW g \in Levels, CountPixel(g) PROVE Counted'
  <2>1. /\ frame' = [frame EXCEPT ![g] = frame[g] + 1]
        /\ HistoGram' = [HistoGram EXCEPT ![g] = (HistoGram[g] + 1) % Wrap]
        /\ stage' = "count"
    BY <1>1 DEF CountPixel
  <2>2. frame[g] \in Nat /\ HistoGram[g] \in Nat
    BY DEF Hists
  <2>3. frame[g] + 1 \in Nat /\ frame[g] + 1 # 0 /\ (HistoGram[g] + 1) % Wrap \in Nat
    BY <2>2, WrapAssumption
  <2>4. frame' \in Hists /\ HistoGram' \in Hists
    BY <2>1, <2>3 DEF Hists
  <2>5. \A x \in Levels : HistoGram'[x] # 0 => frame'[x] # 0
    BY <2>1, <2>3 DEF Hists
  <2>6. frame[g] + 1 < Wrap => (HistoGram[g] + 1) % Wrap = frame[g] + 1
    <3>1. frame[g] + 1 < Wrap => frame[g] < Wrap
      BY <2>2, WrapAssumption
    <3> QED BY <2>2, <3>1, CountsUp
  <2>7. ASSUME NEW x \in Levels, frame'[x] < Wrap PROVE HistoGram'[x] = frame'[x]
    <3>1. CASE x = g
      BY <2>1, <2>6, <2>7, <3>1 DEF Hists
    <3>2. CASE x # g
      BY <2>1, <2>7, <3>2 DEF Hists
    <3> QED BY <3>1, <3>2
  <2> QED BY <2>1, <2>4, <2>5, <2>7
<1>2. CASE FindRange \/ ScanEnds
  BY <1>2 DEF FindRange, ScanEnds
<1>3. CASE Scan
  BY <1>3 DEF Scan
<1>4. CASE NextFrame
  BY <1>4 DEF NextFrame, Hists
<1>5. CASE UNCHANGED vars
  BY <1>5 DEF vars
<1> QED BY <1>1, <1>2, <1>3, <1>4, <1>5 DEF Next

LEMMA OtsuNext == OtsuInv /\ [Next]_vars => OtsuInv'
<1> SUFFICES ASSUME OtsuInv, [Next]_vars PROVE OtsuInv'
  OBVIOUS
<1>1. Counted' /\ HistoGram \in Hists
  BY CountedKept DEF OtsuInv, Counted
<1>2. ASSUME NEW g \in Levels, CountPixel(g) PROVE OtsuInv'
  BY <1>1, <1>2 DEF OtsuInv, CountPixel, Cleared, sums
<1>3. CASE FindRange
  <2>1. /\ HistoGram' = HistoGram /\ Cleared /\ UNCHANGED <<sums, SigmaB>>
        /\ MaxValue = Top
    BY <1>1, <1>3, RangeIs DEF FindRange, OtsuInv
  <2>2. CASE Top \in {MinValue, MinValue + 1}
    <3>1. stage' = "done" /\ Threshold' = MinValue
      BY <1>3, <2>1, <2>2 DEF FindRange
    <3>2. ASSUME Splits(HistoGram) # {} PROVE Found'
      <4>1. MinValue' = MinValue
        BY <2>1, SameHistogram
      <4>2. MinValue \in Best(HistoGram) /\ \A u \in Best(HistoGram) : MinValue <= u
        BY <1>1, <2>2, <3>2, OnlySplit
      <4> QED BY <2>1, <3>1, <4>2 DEF Found
    <3> QED BY <1>1, <2>1, <3>1, <3>2 DEF OtsuInv
  <2>3. CASE Top \notin {MinValue, MinValue + 1}
    <3>1. stage' = "scan" /\ j' = MinValue
      BY <1>3, <2>1, <2>3 DEF FindRange
    <3>2. Present(HistoGram) # {} => SumsOK' /\ BestSoFar'
      BY <1>1, <2>1, <3>1, ScanBegins
    <3> QED BY <1>1, <2>1, <3>1, <3>2 DEF OtsuInv
  <2> QED BY <2>2, <2>3
<1>4. CASE Scan
  <2>1. stage = "scan" /\ stage' = "scan" /\ HistoGram' = HistoGram
    BY <1>4 DEF Scan
  <2>2. ASSUME Present(HistoGram) # {} PROVE SumsOK' /\ BestSoFar'
    BY <1>1, <1>4, <2>1, <2>2, ScanSums, ScanStep DEF OtsuInv
  <2> QED BY <1>1, <2>1, <2>2 DEF OtsuInv
<1>5. CASE ScanEnds
  <2>1. /\ stage = "scan" /\ stage' = "done" /\ j >= Top
        /\ UNCHANGED <<HistoGram, Threshold>>
    BY <1>1, <1>5, RangeIs DEF ScanEnds
  <2>2. ASSUME Splits(HistoGram) # {} PROVE Found'
    <3>1. PICK t \in Splits(HistoGram) : TRUE
      BY <2>2
    <3>2. SumsOK /\ BestSoFar
      BY <1>1, <2>1, <3>1, SplitRange DEF OtsuInv
    <3>3. MinValue \in Nat /\ j \in MinValue .. Top
      BY <1>1, <3>2, RangeIs DEF SumsOK
    <3>4. Seen = Splits(HistoGram)
      BY <1>1, <2>1, <3>3, SplitRange, TopAssumption DEF Seen
    <3>5. Found
      BY <1>1, <2>2, <3>2, <3>4, BestFound
    <3> QED BY <2>1, <3>5 DEF Found
  <2> QED BY <1>1, <2>1, <2>2 DEF OtsuInv
<1>6. CASE NextFrame
  BY <1>1, <1>6 DEF NextFrame, OtsuInv, Cleared
<1>7. CASE UNCHANGED vars
  <2>1. /\ UNCHANGED <<stage, frame, HistoGram, j, PixelBack, PixelIntegralBack,
                       SigmaB, Threshold>>
        /\ \A t : Sig(t)' = Sig(t)
        /\ MinValue' = MinValue
    BY <1>7, SameHistogram DEF vars
  <2>2. BestSoFar' <=> BestSoFar
    BY <2>1 DEF BestSoFar, Seen
  <2> QED BY <1>1, <2>1, <2>2 DEF OtsuInv, Cleared, SumsOK, Found
<1> QED BY <1>2, <1>3, <1>4, <1>5, <1>6, <1>7 DEF Next

LEMMA OtsuInvariant == Spec => []OtsuInv
BY OtsuInit, OtsuNext, PTL DEF Spec

\* The one-pass scan finds the lowest level of the largest between-class
\* variance, for every histogram that has two levels.
THEOREM ScanFindsOtsu == Spec => []ThresholdIsOtsu
<1>1. OtsuInv => ThresholdIsOtsu
  <2> SUFFICES ASSUME Found PROVE Threshold = Min(Best(HistoGram))
    BY Zenon DEF OtsuInv, ThresholdIsOtsu
  <2>1. Best(HistoGram) \subseteq Nat
    BY TopAssumption DEF Best, Splits, Levels
  <2>2. /\ Min(Best(HistoGram)) \in Best(HistoGram)
        /\ \A y \in Best(HistoGram) : Min(Best(HistoGram)) <= y
    BY <2>1, LeastLevel DEF Found
  <2> QED BY <2>1, <2>2 DEF Found
<1> QED BY <1>1, OtsuInvariant, PTL

\* Some of the frame becomes black and some of it white, as long as two levels
\* are left in the counters, wrapped or not.
THEOREM RoadStaysInPicture == Spec => []BothColours
<1>1. OtsuInv => BothColours
  <2> SUFFICES ASSUME OtsuInv, stage = "done", Splits(HistoGram) # {}
               PROVE  /\ \E g \in Present(frame) : White(g)
                      /\ \E g \in Present(frame) : ~White(g)
    BY DEF BothColours
  <2>1. Threshold \in Splits(HistoGram)
    BY DEF OtsuInv, Found, Best
  <2>2. PICK d \in Present(HistoGram), l \in Present(HistoGram) :
          d <= Threshold /\ Threshold < l
    BY <2>1 DEF Splits
  <2>3. d \in Present(frame) /\ l \in Present(frame)
    BY DEF OtsuInv, Counted, Present
  <2>4. White(l) /\ ~White(d)
    <3>1. d \in Int /\ Threshold \in Int
      BY <2>1, TopAssumption DEF Present, Splits, Levels
    <3> QED BY <2>2, <3>1 DEF White
  <2> QED BY <2>3, <2>4
<1> QED BY <1>1, OtsuInvariant, PTL

\* Where no counter wrapped, that is Otsu's threshold of the frame itself.
THEOREM FrameGetsOtsu == Spec => []ThresholdIsFrames
<1>1. OtsuInv /\ ThresholdIsOtsu => ThresholdIsFrames
  <2> SUFFICES ASSUME OtsuInv, ThresholdIsOtsu, stage = "done",
                      \A g \in Levels : frame[g] < Wrap, Splits(frame) # {}
               PROVE  Threshold = Min(Best(frame))
    BY DEF ThresholdIsFrames
  <2>1. HistoGram = frame
    BY DEF OtsuInv, Counted, Hists
  <2> QED BY <2>1, Zenon DEF ThresholdIsOtsu
<1> QED BY <1>1, OtsuInvariant, ScanFindsOtsu, PTL

=============================================================================
