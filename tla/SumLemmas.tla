----------------------------- MODULE SumLemmas -----------------------------
(***************************************************************************)
(* What the sum of a function over a finite set is, for every function and *)
(* set.  The community modules define it by a recursive function over the  *)
(* subsets, which takes one chosen element after another: these lemmas say *)
(* that the choice does not matter, that a larger set has no smaller sum   *)
(* and that a union has no more than its parts.                            *)
(*                                                                         *)
(* Each is proved from a smallest subset that it would fail for, which the *)
(* library gives as a minimal element of a well-founded ordering.          *)
(***************************************************************************)
EXTENDS Integers, FiniteSetsExt, FiniteSetTheorems, TLAPS

(* The sum of f over the set us. *)
SumOf(f, us) == MapThenSumSet(LAMBDA u : f[u], us)

(* What the sum is defined by: a function on the subsets of us. *)
Pick(s) == CHOOSE x \in s : TRUE

IsTally(g, f, us) ==
  g = [s \in SUBSET us |-> IF s = {} THEN 0 ELSE f[Pick(s)] + g[s \ {Pick(s)}]]

Tally(f, us) == CHOOSE g : IsTally(g, f, us)

(* The fold's recursive function, by its name.                             *)
LEMMA SumIsTally ==
  ASSUME NEW f, NEW us
  PROVE  SumOf(f, us) = Tally(f, us)[us]
BY DEF SumOf, MapThenSumSet, MapThenFoldSet, Tally, IsTally, Pick

(* Induction over the subsets of a finite set: of those that fail there is *)
(* one all of whose own subsets do not.                                    *)
LEMMA SmallestSubset ==
  ASSUME NEW S, IsFiniteSet(S), NEW T \in SUBSET (SUBSET S), T # {}
  PROVE  \E t \in T : t \subseteq S /\ \A q \in T : q \subseteq t => q = t
<1>1. IsWellFoundedOn(StrictSubsetOrdering(S), FiniteSubsetsOf(S))
  BY FS_StrictSubsetOrderingWellFounded
<1>2. T \subseteq FiniteSubsetsOf(S)
  BY FS_FiniteSubsetsOfFinite
<1>3. PICK t \in T : \A q \in T : ~(<<q, t>> \in StrictSubsetOrdering(S))
  BY <1>1, <1>2, WFMin
<1>4. t \subseteq S
  OBVIOUS
<1>5. ASSUME NEW q \in T, q \subseteq t PROVE q = t
  BY <1>3, <1>4, <1>5 DEF StrictSubsetOrdering
<1> QED
  BY <1>4, <1>5

(* The function on a larger set agrees with that on a smaller one.         *)
LEMMA TalliesAgree ==
  ASSUME NEW f, NEW S, NEW R \in SUBSET S, IsFiniteSet(R),
         NEW g, IsTally(g, f, S), NEW k, IsTally(k, f, R)
  PROVE  g[R] = k[R]
<1> DEFINE T == {t \in SUBSET R : g[t] # k[t]}
<1> SUFFICES ASSUME T # {} PROVE FALSE
  OBVIOUS
<1>0. \E t \in T : t \subseteq R /\ \A q \in T : q \subseteq t => q = t
  <2>1. T \in SUBSET (SUBSET R)
    OBVIOUS
  <2> HIDE DEF T
  <2> QED
    BY <2>1, SmallestSubset
<1>1. PICK t \in T : t \subseteq R /\ \A q \in T : q \subseteq t => q = t
  BY <1>0
<1>2. /\ g[t] = IF t = {} THEN 0 ELSE f[Pick(t)] + g[t \ {Pick(t)}]
      /\ k[t] = IF t = {} THEN 0 ELSE f[Pick(t)] + k[t \ {Pick(t)}]
  BY <1>1 DEF IsTally
<1>3. t # {} /\ g[t \ {Pick(t)}] # k[t \ {Pick(t)}]
  BY <1>1, <1>2
<1>4. t \ {Pick(t)} \in T
  BY <1>1, <1>3
<1>5. Pick(t) \in t
  BY <1>3 DEF Pick
<1> QED
  BY <1>1, <1>4, <1>5

(* There is such a function on every finite set.                           *)
LEMMA TallyExists ==
  ASSUME NEW f, NEW S, IsFiniteSet(S)
  PROVE  IsTally(Tally(f, S), f, S)
<1> DEFINE T == {t \in SUBSET S : ~IsTally(Tally(f, t), f, t)}
<1> SUFFICES ASSUME T # {} PROVE FALSE
  OBVIOUS
<1>0. \E t \in T : t \subseteq S /\ \A q \in T : q \subseteq t => q = t
  <2>1. T \in SUBSET (SUBSET S)
    OBVIOUS
  <2> HIDE DEF T
  <2> QED
    BY <2>1, SmallestSubset
<1>1. PICK t \in T : t \subseteq S /\ \A q \in T : q \subseteq t => q = t
  BY <1>0
<1>2. ASSUME NEW r \in SUBSET t, r # t
      PROVE  IsTally(Tally(f, r), f, r)
  BY <1>1, <1>2
<1>3. ASSUME NEW r \in SUBSET t, r # t
      PROVE  Tally(f, r)[r] = IF r = {} THEN 0
                              ELSE f[Pick(r)] + Tally(f, r \ {Pick(r)})[r \ {Pick(r)}]
  <2>1. Tally(f, r)[r] = IF r = {} THEN 0 ELSE f[Pick(r)] + Tally(f, r)[r \ {Pick(r)}]
    BY <1>2, <1>3 DEF IsTally
  <2>2. CASE r # {}
    <3> DEFINE q == r \ {Pick(r)}
    <3>1. q \in SUBSET t /\ q # t /\ q \in SUBSET r
      BY <1>3
    <3>2. IsFiniteSet(q)
      BY <1>1, <3>1, FS_Subset
    <3>3. Tally(f, r)[q] = Tally(f, q)[q]
      BY <3>1, <3>2, <1>2, <1>3, TalliesAgree
    <3> QED
      BY <2>1, <3>3
  <2> QED
    BY <2>1, <2>2
<1> DEFINE h == [s \in SUBSET t |->
                   IF s = {} THEN 0 ELSE f[Pick(s)] + Tally(f, s \ {Pick(s)})[s \ {Pick(s)}]]
<1>4. ASSUME NEW s \in SUBSET t, s # {}
      PROVE  h[s \ {Pick(s)}] = Tally(f, s \ {Pick(s)})[s \ {Pick(s)}]
  <2> DEFINE q == s \ {Pick(s)}
  <2>1. Pick(s) \in s
    BY <1>4 DEF Pick
  <2>2. q \in SUBSET t /\ q # t
    BY <2>1
  <2>3. h[q] = IF q = {} THEN 0 ELSE f[Pick(q)] + Tally(f, q \ {Pick(q)})[q \ {Pick(q)}]
    BY <2>2
  <2> QED
    BY <2>2, <2>3, <1>3
<1>5. h = [s \in SUBSET t |-> IF s = {} THEN 0 ELSE f[Pick(s)] + h[s \ {Pick(s)}]]
  BY <1>4
<1>6. IsTally(h, f, t)
  BY <1>5 DEF IsTally
<1>7. IsTally(Tally(f, t), f, t)
  BY <1>6 DEF Tally
<1> QED
  BY <1>1, <1>7

(* A sum is that of one element and of the rest.                           *)
LEMMA SumEquation ==
  ASSUME NEW f, NEW S, IsFiniteSet(S)
  PROVE  SumOf(f, S) = IF S = {} THEN 0 ELSE f[Pick(S)] + SumOf(f, S \ {Pick(S)})
<1> DEFINE R == S \ {Pick(S)}
<1>1. SumOf(f, S) = Tally(f, S)[S] /\ SumOf(f, R) = Tally(f, R)[R]
  BY SumIsTally
<1>2. IsFiniteSet(R) /\ R \in SUBSET S
  BY FS_Subset
<1>3. IsTally(Tally(f, S), f, S) /\ IsTally(Tally(f, R), f, R)
  BY <1>2, TallyExists
<1>4. Tally(f, S)[R] = Tally(f, R)[R]
  BY <1>2, <1>3, TalliesAgree
<1>5. Tally(f, S)[S] = IF S = {} THEN 0 ELSE f[Pick(S)] + Tally(f, S)[R]
  BY <1>3 DEF IsTally
<1> QED
  BY <1>1, <1>4, <1>5

(* A sum of natural numbers is one.                                        *)
LEMMA SumType ==
  ASSUME NEW f, NEW S, IsFiniteSet(S), \A u \in S : f[u] \in Nat
  PROVE  SumOf(f, S) \in Nat
<1> DEFINE T == {t \in SUBSET S : SumOf(f, t) \notin Nat}
<1> SUFFICES ASSUME T # {} PROVE FALSE
  OBVIOUS
<1>0. \E t \in T : t \subseteq S /\ \A q \in T : q \subseteq t => q = t
  <2>1. T \in SUBSET (SUBSET S)
    OBVIOUS
  <2> HIDE DEF T
  <2> QED
    BY <2>1, SmallestSubset
<1>1. PICK t \in T : t \subseteq S /\ \A q \in T : q \subseteq t => q = t
  BY <1>0
<1>2. SumOf(f, t) = IF t = {} THEN 0 ELSE f[Pick(t)] + SumOf(f, t \ {Pick(t)})
  BY <1>1, FS_Subset, SumEquation
<1>3. t # {} => Pick(t) \in t
  BY DEF Pick
<1>4. t # {} => SumOf(f, t \ {Pick(t)}) \in Nat
  BY <1>1, <1>3
<1> QED
  BY <1>1, <1>2, <1>3, <1>4

(* It does not matter which element is taken out.                          *)
LEMMA SumWithout ==
  ASSUME NEW f, NEW S, IsFiniteSet(S), \A u \in S : f[u] \in Nat, NEW x \in S
  PROVE  SumOf(f, S) = f[x] + SumOf(f, S \ {x})
<1> DEFINE T == {t \in SUBSET S : \E y \in t : SumOf(f, t) # f[y] + SumOf(f, t \ {y})}
<1> SUFFICES ASSUME T # {} PROVE FALSE
  OBVIOUS
<1>0. \E t \in T : t \subseteq S /\ \A q \in T : q \subseteq t => q = t
  <2>1. T \in SUBSET (SUBSET S)
    OBVIOUS
  <2> HIDE DEF T
  <2> QED
    BY <2>1, SmallestSubset
<1>1. PICK t \in T : t \subseteq S /\ \A q \in T : q \subseteq t => q = t
  BY <1>0
<1>2. PICK y \in t : SumOf(f, t) # f[y] + SumOf(f, t \ {y})
  BY <1>1
<1> DEFINE p == Pick(t)
<1>3. p \in t
  BY <1>2 DEF Pick
<1>4. SumOf(f, t) = f[p] + SumOf(f, t \ {p})
  BY <1>1, <1>2, FS_Subset, SumEquation
<1>5. p # y
  BY <1>2, <1>4
<1> HIDE DEF p
<1>6. t \ {p} \notin T /\ t \ {y} \notin T
  BY <1>1, <1>2, <1>3
<1>7. SumOf(f, t \ {p}) = f[y] + SumOf(f, (t \ {p}) \ {y})
  BY <1>1, <1>2, <1>5, <1>6
<1>8. SumOf(f, t \ {y}) = f[p] + SumOf(f, (t \ {y}) \ {p})
  BY <1>1, <1>3, <1>5, <1>6
<1>9. (t \ {p}) \ {y} = (t \ {y}) \ {p}
  OBVIOUS
<1>10. SumOf(f, (t \ {y}) \ {p}) \in Nat /\ f[p] \in Nat /\ f[y] \in Nat
  BY <1>1, <1>2, <1>3, FS_Subset, SumType
<1> QED
  BY <1>2, <1>4, <1>7, <1>8, <1>9, <1>10

(* Only what the function is on the set matters.                           *)
LEMMA SumSame ==
  ASSUME NEW f, NEW g, NEW S, IsFiniteSet(S), \A u \in S : f[u] = g[u]
  PROVE  SumOf(f, S) = SumOf(g, S)
<1> DEFINE T == {t \in SUBSET S : SumOf(f, t) # SumOf(g, t)}
<1> SUFFICES ASSUME T # {} PROVE FALSE
  OBVIOUS
<1>0. \E t \in T : t \subseteq S /\ \A q \in T : q \subseteq t => q = t
  <2>1. T \in SUBSET (SUBSET S)
    OBVIOUS
  <2> HIDE DEF T
  <2> QED
    BY <2>1, SmallestSubset
<1>1. PICK t \in T : t \subseteq S /\ \A q \in T : q \subseteq t => q = t
  BY <1>0
<1>2. IsFiniteSet(t)
  BY <1>1, FS_Subset
<1>3. /\ SumOf(f, t) = IF t = {} THEN 0 ELSE f[Pick(t)] + SumOf(f, t \ {Pick(t)})
      /\ SumOf(g, t) = IF t = {} THEN 0 ELSE g[Pick(t)] + SumOf(g, t \ {Pick(t)})
  BY <1>2, SumEquation
<1>4. t # {} => Pick(t) \in t
  BY DEF Pick
<1>5. t # {} => SumOf(f, t \ {Pick(t)}) = SumOf(g, t \ {Pick(t)})
  BY <1>1, <1>4
<1> QED
  BY <1>1, <1>3, <1>4, <1>5

(* A larger set has no smaller sum.                                        *)
LEMMA SumMonotone ==
  ASSUME NEW f, NEW S, IsFiniteSet(S), \A u \in S : f[u] \in Nat, NEW R \in SUBSET S
  PROVE  SumOf(f, R) <= SumOf(f, S)
<1> DEFINE T == {t \in SUBSET S : R \subseteq t /\ ~(SumOf(f, R) <= SumOf(f, t))}
<1> SUFFICES ASSUME T # {} PROVE FALSE
  OBVIOUS
<1>0. \E t \in T : t \subseteq S /\ \A q \in T : q \subseteq t => q = t
  <2>1. T \in SUBSET (SUBSET S)
    OBVIOUS
  <2> HIDE DEF T
  <2> QED
    BY <2>1, SmallestSubset
<1>1. PICK t \in T : t \subseteq S /\ \A q \in T : q \subseteq t => q = t
  BY <1>0
<1>2. SumOf(f, R) \in Nat /\ SumOf(f, t) \in Nat
  BY <1>1, FS_Subset, SumType
<1>3. PICK x \in t : x \notin R
  <2>1. t # R
    BY <1>1, <1>2
  <2>2. R \subseteq t
    BY <1>1
  <2> QED
    BY <2>1, <2>2
<1>4. t \ {x} \notin T
  BY <1>1, <1>3
<1>5. SumOf(f, R) <= SumOf(f, t \ {x})
  BY <1>1, <1>3, <1>4
<1>6. SumOf(f, t) = f[x] + SumOf(f, t \ {x}) /\ SumOf(f, t \ {x}) \in Nat /\ f[x] \in Nat
  BY <1>1, <1>3, FS_Subset, SumWithout, SumType
<1> QED
  BY <1>1, <1>2, <1>5, <1>6

(* A union has no larger sum than its parts have together.                 *)
LEMMA SumUnion ==
  ASSUME NEW f, NEW R, IsFiniteSet(R), NEW S, IsFiniteSet(S),
         \A u \in R \union S : f[u] \in Nat
  PROVE  SumOf(f, R \union S) <= SumOf(f, R) + SumOf(f, S)
<1> DEFINE T == {t \in SUBSET S : ~(SumOf(f, R \union t) <= SumOf(f, R) + SumOf(f, t))}
<1> SUFFICES ASSUME T # {} PROVE FALSE
  OBVIOUS
<1>0. \E t \in T : t \subseteq S /\ \A q \in T : q \subseteq t => q = t
  <2>1. T \in SUBSET (SUBSET S)
    OBVIOUS
  <2> HIDE DEF T
  <2> QED
    BY <2>1, SmallestSubset
<1>1. PICK t \in T : t \subseteq S /\ \A q \in T : q \subseteq t => q = t
  BY <1>0
<1>2. IsFiniteSet(t) /\ IsFiniteSet(R \union t)
  BY <1>1, FS_Subset, FS_Union
<1>3. SumOf(f, R) \in Nat /\ SumOf(f, t) \in Nat
  BY <1>1, <1>2, SumType
<1>4. t # {}
  <2> SUFFICES ASSUME t = {} PROVE FALSE
    OBVIOUS
  <2>1. R \union t = R
    OBVIOUS
  <2>2. SumOf(f, t) = 0
    BY <1>2, SumEquation
  <2> QED
    BY <1>1, <1>3, <2>1, <2>2
<1>5. PICK x \in t : TRUE
  BY <1>4
<1> DEFINE q == t \ {x}
<1>6. q \in SUBSET S /\ q \notin T
  BY <1>1, <1>5
<1>7. SumOf(f, R \union q) <= SumOf(f, R) + SumOf(f, q)
  BY <1>6
<1>8. IsFiniteSet(q) /\ IsFiniteSet(R \union q)
  BY <1>6, FS_Subset, FS_Union
<1>9. SumOf(f, q) \in Nat /\ SumOf(f, R \union q) \in Nat /\ f[x] \in Nat
  BY <1>1, <1>5, <1>6, <1>8, SumType
<1>10. SumOf(f, t) = f[x] + SumOf(f, q)
  BY <1>1, <1>2, <1>5, SumWithout
<1>11. SumOf(f, R \union t) <= f[x] + SumOf(f, R \union q)
  <2>1. CASE x \in R
    <3>1. R \union t = R \union q
      BY <2>1, <1>5
    <3>2. SumOf(f, R \union t) = SumOf(f, R \union q)
      BY <3>1
    <3> QED
      BY <3>2, <1>9
  <2>2. CASE x \notin R
    <3>1. (R \union t) \ {x} = R \union q
      BY <2>2, <1>5
    <3>2. SumOf(f, R \union t) = f[x] + SumOf(f, (R \union t) \ {x})
      BY <1>1, <1>2, <1>5, SumWithout
    <3> QED
      BY <3>1, <3>2, <1>9
  <2> QED
    BY <2>1, <2>2
<1>12. SumOf(f, R \union t) \in Nat
  BY <1>1, <1>2, SumType
<1> QED
  BY <1>1, <1>3, <1>7, <1>9, <1>10, <1>11, <1>12
=============================================================================
