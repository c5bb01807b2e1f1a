-------------------------------- MODULE Sums --------------------------------
(***************************************************************************)
(* Lemmas about the sums of the community modules, SumFunctionOnSet and    *)
(* SumFunction, over finite sets, and about the sums and the powers of     *)
(* WeightedSums.  They are proved by induction on finite sets and on the   *)
(* natural numbers, which is stated for a set instead of an operator, so   *)
(* that it can be cited.                                                   *)
(***************************************************************************)
EXTENDS WeightedSums, FiniteSets, FiniteSetTheorems, WellFoundedInduction, TLAPS

\* Among the subsets of a finite set that are in P there is a smallest one.
LEMMA SmallestSubset ==
  ASSUME NEW S, IsFiniteSet(S), NEW P \in SUBSET SUBSET S, P # {}
  PROVE  \E T \in P : \A U \in SUBSET T : U # T => U \notin P
  <1>1. IsWellFoundedOn(StrictSubsetOrdering(S), FiniteSubsetsOf(S))
    BY FS_StrictSubsetOrderingWellFounded
  <1>2. P \subseteq FiniteSubsetsOf(S)
    BY FS_FiniteSubsetsOfFinite
  <1>3. PICK T \in P : \A U \in P : <<U, T>> \notin StrictSubsetOrdering(S)
    BY <1>1, <1>2, WFMin
  <1>4. ASSUME NEW U \in SUBSET T, U # T, U \in P
        PROVE  FALSE
    BY <1>3, <1>4 DEF StrictSubsetOrdering
  <1> QED BY <1>4

\* Induction on finite sets: what holds of the empty set, and of a set with one
\* more element whenever it holds of the set, holds of every finite set.
LEMMA FiniteSetInduction ==
  ASSUME NEW S, IsFiniteSet(S), NEW P, {} \in P,
         \A T \in SUBSET S : \A x \in S \ T : T \in P => T \cup {x} \in P
  PROVE  S \in P
  <1> SUFFICES ASSUME S \notin P PROVE FALSE
    OBVIOUS
  <1> DEFINE Q == {T \in SUBSET S : T \notin P}
  <1>1. PICK T \in Q : \A U \in SUBSET T : U # T => U \notin Q
    <2>1. Q \in SUBSET SUBSET S /\ Q # {}
      OBVIOUS
    <2> HIDE DEF Q
    <2> QED BY <2>1, SmallestSubset
  <1>2. PICK x \in T : TRUE
    OBVIOUS
  <1>3. T \ {x} \in P
    BY <1>1
  <1>4. (T \ {x}) \cup {x} = T
    OBVIOUS
  <1> QED BY <1>1, <1>3, <1>4

-----------------------------------------------------------------------------
(* A sum is well defined *)

Pick(s) == CHOOSE x \in s : TRUE

\* g says for each subset of S what the fold that defines a sum makes of it.
Unfolds(g, f, S) ==
    g = [s \in SUBSET S |-> IF s = {} THEN 0 ELSE f[Pick(s)] + g[s \ {Pick(s)}]]

LEMMA SumIsUnfolding ==
  ASSUME NEW f, NEW S
  PROVE  SumFunctionOnSet(f, S) = (CHOOSE g : Unfolds(g, f, S))[S]
  BY DEF SumFunctionOnSet, FoldFunctionOnSet, MapThenFoldSet, Unfolds, Pick

LEMMA UnfoldingAt ==
  ASSUME NEW f, NEW S, NEW g, Unfolds(g, f, S), NEW s \in SUBSET S
  PROVE  g[s] = IF s = {} THEN 0 ELSE f[Pick(s)] + g[s \ {Pick(s)}]
  BY DEF Unfolds

LEMMA UnfoldingUnique ==
  ASSUME NEW f, NEW S, IsFiniteSet(S), NEW g, NEW h,
         Unfolds(g, f, S), Unfolds(h, f, S)
  PROVE  g = h
  <1> DEFINE P == {s \in SUBSET S : g[s] # h[s]}
  <1>1. P = {}
    <2> SUFFICES ASSUME P # {} PROVE FALSE
      OBVIOUS
    <2>1. PICK s \in P : \A u \in SUBSET s : u # s => u \notin P
      <3>1. P \in SUBSET SUBSET S
        OBVIOUS
      <3> HIDE DEF P
      <3> QED BY <3>1, SmallestSubset
    <2>2. CASE s = {}
      BY <2>2, UnfoldingAt
    <2>3. CASE s # {}
      <3>1. Pick(s) \in s
        BY <2>3 DEF Pick
      <3>2. g[s \ {Pick(s)}] = h[s \ {Pick(s)}]
        BY <2>1, <3>1
      <3>3. g[s] = h[s]
        BY <2>3, <3>2, UnfoldingAt
      <3> QED BY <3>3
    <2> QED BY <2>2, <2>3
  <1>2. \A s \in SUBSET S : g[s] = h[s]
    BY <1>1
  <1>3. g = [s \in SUBSET S |-> g[s]] /\ h = [s \in SUBSET S |-> h[s]]
    BY DEF Unfolds
  <1> QED BY <1>2, <1>3

\* An unfolding of a set is one of each of its subsets.
LEMMA UnfoldingRestricted ==
  ASSUME NEW f, NEW S, NEW g, Unfolds(g, f, S), NEW T \in SUBSET S
  PROVE  Unfolds([s \in SUBSET T |-> g[s]], f, T)
  <1> DEFINE h == [s \in SUBSET T |-> g[s]]
  <1>1. \A s \in SUBSET T :
           h[s] = IF s = {} THEN 0 ELSE f[Pick(s)] + h[s \ {Pick(s)}]
    <2> TAKE s \in SUBSET T
    <2>1. g[s] = IF s = {} THEN 0 ELSE f[Pick(s)] + g[s \ {Pick(s)}]
      BY UnfoldingAt
    <2>2. h[s] = g[s] /\ h[s \ {Pick(s)}] = g[s \ {Pick(s)}]
      OBVIOUS
    <2> HIDE DEF h
    <2> QED BY <2>1, <2>2
  <1>2. h = [s \in SUBSET T |-> h[s]]
    OBVIOUS
  <1> HIDE DEF h
  <1>3. h = [s \in SUBSET T |->
                IF s = {} THEN 0 ELSE f[Pick(s)] + h[s \ {Pick(s)}]]
    BY <1>1, <1>2
  <1> QED BY <1>3 DEF Unfolds, h

\* And so it says what the sums over the subsets are.
LEMMA UnfoldingSums ==
  ASSUME NEW f, NEW S, IsFiniteSet(S), NEW g, Unfolds(g, f, S), NEW T \in SUBSET S
  PROVE  SumFunctionOnSet(f, T) = g[T]
  <1> DEFINE h == [s \in SUBSET T |-> g[s]]
  <1>1. Unfolds(h, f, T)
    BY UnfoldingRestricted
  <1>2. IsFiniteSet(T)
    BY FS_Subset
  <1> HIDE DEF h
  <1>3. Unfolds(CHOOSE k : Unfolds(k, f, T), f, T)
    BY <1>1
  <1>4. (CHOOSE k : Unfolds(k, f, T)) = h
    BY <1>1, <1>2, <1>3, UnfoldingUnique
  <1> QED BY <1>4, SumIsUnfolding DEF h

LEMMA UnfoldingExists ==
  ASSUME NEW f, NEW S, IsFiniteSet(S)
  PROVE  \E g : Unfolds(g, f, S)
  <1> DEFINE P == {s \in SUBSET S : ~ \E g : Unfolds(g, f, s)}
  <1> SUFFICES ASSUME P # {} PROVE FALSE
    OBVIOUS
  <1>1. PICK T \in P : \A u \in SUBSET T : u # T => u \notin P
    <2>1. P \in SUBSET SUBSET S
      OBVIOUS
    <2> HIDE DEF P
    <2> QED BY <2>1, SmallestSubset
  <1> DEFINE Sum(u) == SumFunctionOnSet(f, u)
             g == [s \in SUBSET T |->
                      IF s = {} THEN 0 ELSE f[Pick(s)] + Sum(s \ {Pick(s)})]
  <1>2. ASSUME NEW u \in SUBSET T, u # T
        PROVE  Sum(u) = g[u]
    <2>1. IsFiniteSet(u)
      BY FS_Subset
    <2>2. PICK k : Unfolds(k, f, u)
      BY <1>1, <1>2
    <2>3. Sum(u) = k[u] /\ Sum(u \ {Pick(u)}) = k[u \ {Pick(u)}]
      BY <2>1, <2>2, UnfoldingSums
    <2>4. k[u] = IF u = {} THEN 0 ELSE f[Pick(u)] + k[u \ {Pick(u)}]
      BY <2>2, UnfoldingAt
    <2> QED BY <2>3, <2>4
  <1>3. ASSUME NEW s \in SUBSET T, s # {}
        PROVE  Sum(s \ {Pick(s)}) = g[s \ {Pick(s)}]
    <2>1. Pick(s) \in s
      BY <1>3 DEF Pick
    <2>2. s \ {Pick(s)} \in SUBSET T /\ s \ {Pick(s)} # T
      BY <2>1
    <2> HIDE DEF Sum, g
    <2> QED BY <1>2, <2>2
  <1>4. Unfolds(g, f, T)
    <2>1. g = [s \in SUBSET T |->
                  IF s = {} THEN 0 ELSE f[Pick(s)] + g[s \ {Pick(s)}]]
      <3>1. \A s \in SUBSET T :
               (IF s = {} THEN 0 ELSE f[Pick(s)] + Sum(s \ {Pick(s)}))
               = IF s = {} THEN 0 ELSE f[Pick(s)] + g[s \ {Pick(s)}]
        BY <1>3
      <3> HIDE DEF Sum
      <3> QED BY <3>1
    <2> QED BY <2>1 DEF Unfolds
  <1> QED BY <1>1, <1>4

-----------------------------------------------------------------------------
(* What a sum is *)

LEMMA SumEmpty ==
  ASSUME NEW f
  PROVE  SumFunctionOnSet(f, {}) = 0
  <1>1. IsFiniteSet({})
    BY FS_EmptySet
  <1>2. PICK g : Unfolds(g, f, {})
    BY <1>1, UnfoldingExists
  <1>3. g[{}] = 0
    BY <1>2, UnfoldingAt
  <1> QED BY <1>1, <1>2, <1>3, UnfoldingSums

LEMMA SumUnfold ==
  ASSUME NEW f, NEW S, IsFiniteSet(S), S # {}
  PROVE  /\ Pick(S) \in S
         /\ SumFunctionOnSet(f, S) = f[Pick(S)] + SumFunctionOnSet(f, S \ {Pick(S)})
  <1>1. PICK g : Unfolds(g, f, S)
    BY UnfoldingExists
  <1>2. SumFunctionOnSet(f, S) = g[S]
    BY <1>1, UnfoldingSums
  <1>3. SumFunctionOnSet(f, S \ {Pick(S)}) = g[S \ {Pick(S)}]
    BY <1>1, UnfoldingSums
  <1>4. g[S] = f[Pick(S)] + g[S \ {Pick(S)}]
    BY <1>1, UnfoldingAt
  <1>5. Pick(S) \in S
    BY DEF Pick
  <1> QED BY <1>2, <1>3, <1>4, <1>5

\* A sum of integers is an integer.
LEMMA SumInt ==
  ASSUME NEW S, IsFiniteSet(S), NEW f, \A x \in S : f[x] \in Int
  PROVE  SumFunctionOnSet(f, S) \in Int
  <1> DEFINE P == {T \in SUBSET S : SumFunctionOnSet(f, T) \notin Int}
  <1> SUFFICES ASSUME P # {} PROVE FALSE
    OBVIOUS
  <1>1. PICK T \in P : \A U \in SUBSET T : U # T => U \notin P
    <2>1. P \in SUBSET SUBSET S
      OBVIOUS
    <2> HIDE DEF P
    <2> QED BY <2>1, SmallestSubset
  <1>2. IsFiniteSet(T) /\ T \in SUBSET S
    BY FS_Subset
  <1>3. CASE T = {}
    BY <1>3, SumEmpty
  <1>4. CASE T # {}
    <2>1. /\ Pick(T) \in T
          /\ SumFunctionOnSet(f, T) = f[Pick(T)] + SumFunctionOnSet(f, T \ {Pick(T)})
      BY <1>2, <1>4, SumUnfold
    <2>2. SumFunctionOnSet(f, T \ {Pick(T)}) \in Int
      BY <1>1, <2>1
    <2>3. f[Pick(T)] \in Int
      BY <1>2, <2>1
    <2> QED BY <2>1, <2>2, <2>3
  <1> QED BY <1>3, <1>4

\* Any element may be taken out of a sum.
LEMMA SumTakeOut ==
  ASSUME NEW S, IsFiniteSet(S), NEW f, \A x \in S : f[x] \in Int, NEW x \in S
  PROVE  SumFunctionOnSet(f, S) = f[x] + SumFunctionOnSet(f, S \ {x})
  <1> DEFINE P == {T \in SUBSET S : \E y \in T :
                SumFunctionOnSet(f, T) # f[y] + SumFunctionOnSet(f, T \ {y})}
  <1> SUFFICES ASSUME P # {} PROVE FALSE
    OBVIOUS
  <1>1. PICK T \in P : \A U \in SUBSET T : U # T => U \notin P
    <2>1. P \in SUBSET SUBSET S
      OBVIOUS
    <2> HIDE DEF P
    <2> QED BY <2>1, SmallestSubset
  <1>2. \A U \in SUBSET T : IsFiniteSet(U) /\ SumFunctionOnSet(f, U) \in Int
    <2> TAKE U \in SUBSET T
    <2>1. IsFiniteSet(U) /\ \A z \in U : f[z] \in Int
      BY FS_Subset
    <2> QED BY <2>1, SumInt
  <1>3. PICK y \in T : SumFunctionOnSet(f, T) # f[y] + SumFunctionOnSet(f, T \ {y})
    OBVIOUS
  <1> DEFINE p == Pick(T)
  <1>4. p \in T /\ SumFunctionOnSet(f, T) = f[p] + SumFunctionOnSet(f, T \ {p})
    BY <1>2, <1>3, SumUnfold
  <1>5. T \ {p} \notin P /\ T \ {y} \notin P
    BY <1>1, <1>3, <1>4
  <1>6. y # p
    BY <1>3, <1>4
  <1> HIDE DEF p
  <1>7. SumFunctionOnSet(f, T \ {p}) = f[y] + SumFunctionOnSet(f, (T \ {p}) \ {y})
    BY <1>3, <1>5, <1>6
  <1>8. SumFunctionOnSet(f, T \ {y}) = f[p] + SumFunctionOnSet(f, (T \ {y}) \ {p})
    BY <1>4, <1>5, <1>6
  <1>9. (T \ {p}) \ {y} = (T \ {y}) \ {p}
    OBVIOUS
  <1> DEFINE rest == SumFunctionOnSet(f, (T \ {y}) \ {p})
  <1>10. f[p] \in Int /\ f[y] \in Int /\ rest \in Int
    BY <1>2, <1>3, <1>4
  <1>11. SumFunctionOnSet(f, T) = f[p] + (f[y] + rest)
    BY <1>4, <1>7, <1>9
  <1>12. SumFunctionOnSet(f, T \ {y}) = f[p] + rest
    BY <1>8
  <1> HIDE DEF rest, P
  <1>13. f[p] + (f[y] + rest) = f[y] + (f[p] + rest)
    BY ONLY <1>10
  <1> QED BY <1>3, <1>11, <1>12, <1>13

\* An element that is put in is added.
LEMMA SumPutIn ==
  ASSUME NEW S, IsFiniteSet(S), NEW x, x \notin S,
         NEW f, \A y \in S \cup {x} : f[y] \in Int
  PROVE  SumFunctionOnSet(f, S \cup {x}) = SumFunctionOnSet(f, S) + f[x]
  <1>1. IsFiniteSet(S \cup {x}) /\ (S \cup {x}) \ {x} = S
    BY FS_AddElement
  <1>2. SumFunctionOnSet(f, S \cup {x}) = f[x] + SumFunctionOnSet(f, S)
    BY <1>1, SumTakeOut
  <1>3. SumFunctionOnSet(f, S) \in Int /\ f[x] \in Int
    BY SumInt
  <1> QED BY <1>2, <1>3

\* Sums of the same terms are the same.
LEMMA SumSame ==
  ASSUME NEW S, IsFiniteSet(S), NEW f, NEW g, \A x \in S : f[x] = g[x]
  PROVE  SumFunctionOnSet(f, S) = SumFunctionOnSet(g, S)
  <1> DEFINE P == {T \in SUBSET S : SumFunctionOnSet(f, T) # SumFunctionOnSet(g, T)}
  <1> SUFFICES ASSUME P # {} PROVE FALSE
    OBVIOUS
  <1>1. PICK T \in P : \A U \in SUBSET T : U # T => U \notin P
    <2>1. P \in SUBSET SUBSET S
      OBVIOUS
    <2> HIDE DEF P
    <2> QED BY <2>1, SmallestSubset
  <1>2. IsFiniteSet(T) /\ T \in SUBSET S
    BY FS_Subset
  <1>3. CASE T = {}
    BY <1>3, SumEmpty
  <1>4. CASE T # {}
    <2>1. /\ Pick(T) \in T
          /\ SumFunctionOnSet(f, T) = f[Pick(T)] + SumFunctionOnSet(f, T \ {Pick(T)})
          /\ SumFunctionOnSet(g, T) = g[Pick(T)] + SumFunctionOnSet(g, T \ {Pick(T)})
      BY <1>2, <1>4, SumUnfold
    <2>2. SumFunctionOnSet(f, T \ {Pick(T)}) = SumFunctionOnSet(g, T \ {Pick(T)})
      BY <1>1, <2>1
    <2> QED BY <1>2, <2>1, <2>2
  <1> QED BY <1>3, <1>4

\* Sums grow with their terms.
LEMMA SumMonotone ==
  ASSUME NEW S, IsFiniteSet(S), NEW f, NEW g,
         \A x \in S : f[x] \in Int /\ g[x] \in Int /\ f[x] <= g[x]
  PROVE  SumFunctionOnSet(f, S) <= SumFunctionOnSet(g, S)
  <1> DEFINE P == {T \in SUBSET S : SumFunctionOnSet(f, T) <= SumFunctionOnSet(g, T)}
  <1>1. {} \in P
    BY SumEmpty
  <1>2. ASSUME NEW T \in SUBSET S, NEW x \in S \ T, T \in P
        PROVE  T \cup {x} \in P
    <2>1. IsFiniteSet(T)
      BY FS_Subset
    <2>2. /\ SumFunctionOnSet(f, T \cup {x}) = SumFunctionOnSet(f, T) + f[x]
          /\ SumFunctionOnSet(g, T \cup {x}) = SumFunctionOnSet(g, T) + g[x]
      BY <2>1, SumPutIn
    <2>3. /\ SumFunctionOnSet(f, T) \in Int /\ SumFunctionOnSet(g, T) \in Int
          /\ f[x] \in Int /\ g[x] \in Int /\ f[x] <= g[x]
      BY <2>1, SumInt
    <2>4. SumFunctionOnSet(f, T) <= SumFunctionOnSet(g, T)
      BY <1>2
    <2> QED BY <2>2, <2>3, <2>4
  <1> HIDE DEF P
  <1>3. S \in P
    BY <1>1, <1>2, FiniteSetInduction
  <1> QED BY <1>3 DEF P

\* A sum of zeros is zero.
LEMMA SumZero ==
  ASSUME NEW S, IsFiniteSet(S), NEW f, \A x \in S : f[x] = 0
  PROVE  SumFunctionOnSet(f, S) = 0
  <1> DEFINE P == {T \in SUBSET S : SumFunctionOnSet(f, T) = 0}
  <1>1. {} \in P
    BY SumEmpty
  <1>2. ASSUME NEW T \in SUBSET S, NEW x \in S \ T, T \in P
        PROVE  T \cup {x} \in P
    <2>1. IsFiniteSet(T) /\ \A y \in T \cup {x} : f[y] \in Int
      BY FS_Subset
    <2>2. SumFunctionOnSet(f, T \cup {x}) = SumFunctionOnSet(f, T) + f[x]
      BY <2>1, SumPutIn
    <2>3. SumFunctionOnSet(f, T) = 0 /\ f[x] = 0
      BY <1>2
    <2> QED BY <2>2, <2>3
  <1> HIDE DEF P
  <1>3. S \in P
    BY <1>1, <1>2, FiniteSetInduction
  <1> QED BY <1>3 DEF P

\* A sum with one term that is not zero is that term.
LEMMA SumSingle ==
  ASSUME NEW S, IsFiniteSet(S), NEW x \in S,
         NEW f, f[x] \in Int, \A y \in S \ {x} : f[y] = 0
  PROVE  SumFunctionOnSet(f, S) = f[x]
  <1>1. IsFiniteSet(S \ {x}) /\ \A y \in S : f[y] \in Int
    BY FS_RemoveElement
  <1>2. SumFunctionOnSet(f, S \ {x}) = 0
    BY <1>1, SumZero
  <1>3. SumFunctionOnSet(f, S) = f[x] + SumFunctionOnSet(f, S \ {x})
    BY <1>1, SumTakeOut
  <1> QED BY <1>2, <1>3

\* A factor of all terms is a factor of the sum.
LEMMA SumScaled ==
  ASSUME NEW S, IsFiniteSet(S), NEW c \in Int, NEW f, NEW g,
         \A x \in S : f[x] \in Int /\ g[x] = c * f[x]
  PROVE  SumFunctionOnSet(g, S) = c * SumFunctionOnSet(f, S)
  <1> DEFINE P == {T \in SUBSET S : SumFunctionOnSet(g, T) = c * SumFunctionOnSet(f, T)}
  <1>1. {} \in P
    BY SumEmpty
  <1>2. ASSUME NEW T \in SUBSET S, NEW x \in S \ T, T \in P
        PROVE  T \cup {x} \in P
    <2>1. IsFiniteSet(T) /\ \A y \in T \cup {x} : f[y] \in Int /\ g[y] \in Int
      BY FS_Subset
    <2>2. /\ SumFunctionOnSet(f, T \cup {x}) = SumFunctionOnSet(f, T) + f[x]
          /\ SumFunctionOnSet(g, T \cup {x}) = SumFunctionOnSet(g, T) + g[x]
      BY <2>1, SumPutIn
    <2>3. SumFunctionOnSet(f, T) \in Int /\ f[x] \in Int
      BY <2>1, SumInt
    <2>4. SumFunctionOnSet(g, T) = c * SumFunctionOnSet(f, T) /\ g[x] = c * f[x]
      BY <1>2
    <2>5. \A a, b \in Int : c * a + c * b = c * (a + b)
      OBVIOUS
    <2> QED BY <2>2, <2>3, <2>4, <2>5
  <1> HIDE DEF P
  <1>3. S \in P
    BY <1>1, <1>2, FiniteSetInduction
  <1> QED BY <1>3 DEF P

-----------------------------------------------------------------------------
(* Powers *)

\* Induction on the natural numbers, for a set instead of an operator.
LEMMA NaturalInduction ==
  ASSUME NEW P, 0 \in P, \A n \in Nat : n \in P => n + 1 \in P
  PROVE  Nat \subseteq P
  <1> SUFFICES ASSUME NEW n \in Nat, n \notin P PROVE FALSE
    OBVIOUS
  <1> DEFINE Missing == {k \in Nat : k \notin P}
             Less == OpToRel(<, Nat)
  <1>1. IsWellFoundedOn(Less, Nat)
    BY NatLessThanWellFounded
  <1>2. Missing \subseteq Nat /\ n \in Missing
    OBVIOUS
  <1>3. \E m \in Missing : \A k \in Missing : <<k, m>> \notin Less
    <2> HIDE DEF Missing, Less
    <2> QED BY <1>1, <1>2, WFMin
  <1>4. PICK m \in Missing : \A k \in Missing : ~(k < m)
    BY <1>3 DEF OpToRel
  <1>5. m # 0 /\ m - 1 \in Nat /\ m - 1 < m /\ (m - 1) + 1 = m
    OBVIOUS
  <1>6. m - 1 \in P
    BY <1>4, <1>5
  <1> QED BY <1>5, <1>6

\* g agrees with the recursion of Power up to n.
PowersOf(b, g, n) == \A k \in 0..n : g[k] = IF k = 0 THEN 1 ELSE b * g[k - 1]

\* There is one function that does,
LEMMA PowersUnique ==
  ASSUME NEW b, NEW n \in Nat, NEW g, NEW h, PowersOf(b, g, n), PowersOf(b, h, n)
  PROVE  g[n] = h[n]
  <1> DEFINE P == {k \in Nat : k <= n => g[k] = h[k]}
  <1>1. 0 \in P
    BY DEF PowersOf
  <1>2. ASSUME NEW k \in Nat, k \in P PROVE k + 1 \in P
    <2> SUFFICES ASSUME k + 1 <= n PROVE g[k + 1] = h[k + 1]
      OBVIOUS
    <2>1. k + 1 \in 0..n /\ (k + 1) - 1 = k /\ k + 1 # 0
      OBVIOUS
    <2>2. g[k + 1] = b * g[k] /\ h[k + 1] = b * h[k]
      BY <2>1 DEF PowersOf
    <2>3. g[k] = h[k]
      BY <1>2
    <2> QED BY <2>2, <2>3
  <1> HIDE DEF P
  <1>3. n \in P
    BY <1>1, <1>2, NaturalInduction
  <1> QED BY <1>3 DEF P

\* and there is one that does.
LEMMA PowersExist ==
  ASSUME NEW b, NEW n \in Nat
  PROVE  \E g : PowersOf(b, g, n)
  <1> DEFINE P == {k \in Nat : \E g : PowersOf(b, g, k)}
  <1>1. 0 \in P
    <2>1. PowersOf(b, [k \in 0..0 |-> 1], 0)
      BY DEF PowersOf
    <2> QED BY <2>1
  <1>2. ASSUME NEW k \in Nat, k \in P PROVE k + 1 \in P
    <2>1. PICK g : PowersOf(b, g, k)
      BY <1>2
    <2> DEFINE h == [i \in 0..(k + 1) |-> IF i = k + 1 THEN b * g[k] ELSE g[i]]
    <2>2. ASSUME NEW i \in 0..(k + 1) PROVE h[i] = IF i = 0 THEN 1 ELSE b * h[i - 1]
      <3>1. CASE i = k + 1
        BY <3>1
      <3>2. CASE i # k + 1
        <4>1. i \in 0..k /\ (i # 0 => i - 1 \in 0..(k + 1) /\ i - 1 # k + 1)
          BY <3>2
        <4>2. g[i] = IF i = 0 THEN 1 ELSE b * g[i - 1]
          BY <2>1, <4>1 DEF PowersOf
        <4> QED BY <3>2, <4>1, <4>2
      <3> QED BY <3>1, <3>2
    <2> HIDE DEF h
    <2>3. PowersOf(b, h, k + 1)
      BY <2>2 DEF PowersOf
    <2> QED BY <2>3
  <1> HIDE DEF P
  <1>3. n \in P
    BY <1>1, <1>2, NaturalInduction
  <1> QED BY <1>3 DEF P

\* What the recursion of Power defines.
LEMMA PowerRecursion ==
  ASSUME NEW b
  PROVE  /\ Power(b, 0) = 1
         /\ \A n \in Nat : Power(b, n + 1) = b * Power(b, n)
  <1> DEFINE good(g) == g = [k \in Nat |-> IF k = 0 THEN 1 ELSE b * g[k - 1]]
             some(n) == CHOOSE g : PowersOf(b, g, n)
             powers == [n \in Nat |-> some(n)[n]]
  <1>1. \A n \in Nat : PowersOf(b, some(n), n)
    BY PowersExist
  <1>2. ASSUME NEW n \in Nat
        PROVE  powers[n] = IF n = 0 THEN 1 ELSE b * powers[n - 1]
    <2>1. n \in 0..n /\ some(n)[n] = IF n = 0 THEN 1 ELSE b * some(n)[n - 1]
      BY <1>1 DEF PowersOf
    <2>2. ASSUME n # 0 PROVE some(n)[n - 1] = some(n - 1)[n - 1]
      <3>1. n - 1 \in Nat /\ 0..(n - 1) \subseteq 0..n
        BY <2>2
      <3>2. PowersOf(b, some(n), n - 1)
        BY <1>1, <3>1 DEF PowersOf
      <3>3. PowersOf(b, some(n - 1), n - 1)
        BY <1>1, <3>1
      <3> HIDE DEF some
      <3> QED BY <3>1, <3>2, <3>3, PowersUnique
    <2> HIDE DEF some
    <2> QED BY <2>1, <2>2
  <1> HIDE DEF some
  <1>3. good(powers)
    <2> HIDE DEF powers
    <2>1. powers = [k \in Nat |-> powers[k]]
      BY DEF powers
    <2> QED BY <1>2, <2>1
  <1>4. \E g : good(g)
    BY <1>3
  <1> DEFINE power == CHOOSE g : good(g)
  <1>5. good(power)
    BY <1>4
  <1>6. \A n : Power(b, n) = power[n]
    BY DEF Power, power, good
  <1> HIDE DEF power
  <1>7. power[0] = 1 /\ \A n \in Nat : power[n + 1] = b * power[n]
    BY <1>5
  <1> QED BY <1>6, <1>7

\* A power of an integer is an integer.
LEMMA PowerInt ==
  ASSUME NEW b \in Int, NEW n \in Nat
  PROVE  Power(b, n) \in Int
  <1> DEFINE P == {k \in Nat : Power(b, k) \in Int}
  <1>1. 0 \in P
    BY PowerRecursion
  <1>2. ASSUME NEW k \in Nat, k \in P PROVE k + 1 \in P
    <2>1. Power(b, k) \in Int /\ Power(b, k + 1) = b * Power(b, k)
      BY <1>2, PowerRecursion
    <2>2. Power(b, k + 1) \in Int
      BY <2>1
    <2> QED BY <2>2
  <1> HIDE DEF P
  <1>3. n \in P
    BY <1>1, <1>2, NaturalInduction
  <1> QED BY <1>3 DEF P

-----------------------------------------------------------------------------
(* Sums over intervals *)

\* The first power of a number is the number.
LEMMA PowerOne ==
  ASSUME NEW b \in Int PROVE Power(b, 1) = b
  <1>1. Power(b, 0 + 1) = b * Power(b, 0) /\ Power(b, 0) = 1
    BY PowerRecursion
  <1> QED BY <1>1

\* An interval with one more index.
LEMMA IntervalGrows ==
  ASSUME NEW from \in Int, NEW to \in Int, from <= to + 1
  PROVE  /\ IsFiniteSet(from..to)
         /\ to + 1 \notin from..to
         /\ from..(to + 1) = (from..to) \cup {to + 1}
  <1>1. IsFiniteSet(from..to)
    BY FS_Interval
  <1>2. ASSUME NEW i
        PROVE  i \in from..(to + 1) <=> i \in (from..to) \cup {to + 1}
    OBVIOUS
  <1> QED BY <1>1, <1>2

\* A sum over an interval is an integer.
LEMMA SumOverInt ==
  ASSUME NEW from \in Int, NEW to \in Int, NEW f, \A i \in from..to : f[i] \in Int
  PROVE  SumOver(f, from, to) \in Int
  BY FS_Interval, SumInt DEF SumOver

\* Sums of the same terms over an interval are the same.
LEMMA SumOverSame ==
  ASSUME NEW from \in Int, NEW to \in Int, NEW f, NEW g,
         \A i \in from..to : f[i] = g[i]
  PROVE  SumOver(f, from, to) = SumOver(g, from, to)
  <1>1. IsFiniteSet(from..to)
    BY FS_Interval
  <1> QED BY <1>1, SumSame DEF SumOver

\* One more term at the end is added,
LEMMA SumOverGrows ==
  ASSUME NEW from \in Int, NEW to \in Int, from <= to + 1,
         NEW f, \A i \in from..(to + 1) : f[i] \in Int
  PROVE  SumOver(f, from, to + 1) = SumOver(f, from, to) + f[to + 1]
  <1> DEFINE S == from..to
  <1>1. /\ IsFiniteSet(S) /\ to + 1 \notin S /\ from..(to + 1) = S \cup {to + 1}
    BY IntervalGrows
  <1>2. \A i \in S \cup {to + 1} : f[i] \in Int
    BY <1>1
  <1> HIDE DEF S
  <1>3. SumFunctionOnSet(f, S \cup {to + 1}) = SumFunctionOnSet(f, S) + f[to + 1]
    BY <1>1, <1>2, SumPutIn
  <1> QED BY <1>1, <1>3 DEF SumOver, S

\* and one less at the start is subtracted.
LEMMA SumOverShrinks ==
  ASSUME NEW from \in Int, NEW to \in Int, from <= to,
         NEW f, \A i \in from..to : f[i] \in Int
  PROVE  SumOver(f, from + 1, to) = SumOver(f, from, to) - f[from]
  <1> DEFINE S == from..to
             rest == SumFunctionOnSet(f, S \ {from})
  <1>1. IsFiniteSet(S) /\ from \in S
    BY FS_Interval
  <1>2. (from + 1)..to = S \ {from}
    <2>1. ASSUME NEW i PROVE i \in (from + 1)..to <=> i \in S \ {from}
      OBVIOUS
    <2> QED BY <2>1
  <1>3. f[from] \in Int /\ \A i \in S : f[i] \in Int
    BY <1>1
  <1>4. IsFiniteSet(S \ {from}) /\ \A i \in S \ {from} : f[i] \in Int
    BY <1>1, <1>3, FS_RemoveElement
  <1> HIDE DEF S
  <1>5. rest \in Int
    BY <1>4, SumInt
  <1>6. SumFunctionOnSet(f, S) = f[from] + rest
    BY <1>1, <1>3, SumTakeOut
  <1>7. SumOver(f, from + 1, to) = rest /\ SumOver(f, from, to) = SumFunctionOnSet(f, S)
    BY <1>2 DEF SumOver, S
  <1> HIDE DEF rest
  <1> QED BY <1>3, <1>5, <1>6, <1>7

\* A sum over no index is zero.
LEMMA SumOverNothing ==
  ASSUME NEW from \in Int, NEW to \in Int, to < from, NEW f
  PROVE  SumOver(f, from, to) = 0
  <1>1. from..to = {}
    OBVIOUS
  <1> QED BY <1>1, SumEmpty DEF SumOver

\* The terms of Weighted
Terms(f, from, to, p, q) ==
    [j \in from..to |-> f[j] * (Power(p, to - j) * Power(q, j - from))]

\* A weighted sum is a sum of terms,
LEMMA WeightedIsSum ==
  ASSUME NEW f, NEW from, NEW to, NEW p, NEW q
  PROVE  Weighted(f, from, to, p, q) = SumFunctionOnSet(Terms(f, from, to, p, q), from..to)
  BY DEF Weighted, SumFunction, Terms

\* which are integers,
LEMMA TermsInt ==
  ASSUME NEW from \in Int, NEW to \in Int, NEW p \in Int, NEW q \in Int,
         NEW f, NEW j \in from..to, f[j] \in Int
  PROVE  /\ Terms(f, from, to, p, q)[j] = f[j] * (Power(p, to - j) * Power(q, j - from))
         /\ Power(p, to - j) \in Int /\ Power(q, j - from) \in Int
         /\ Terms(f, from, to, p, q)[j] \in Int
  <1>1. to - j \in Nat /\ j - from \in Nat
    OBVIOUS
  <1>2. Power(p, to - j) \in Int /\ Power(q, j - from) \in Int
    BY <1>1, PowerInt
  <1>3. Terms(f, from, to, p, q)[j] = f[j] * (Power(p, to - j) * Power(q, j - from))
    BY DEF Terms
  <1>4. \A a, b, c \in Int : a * (b * c) \in Int
    OBVIOUS
  <1> QED BY <1>2, <1>3, <1>4

\* and so is the sum.
LEMMA WeightedInt ==
  ASSUME NEW from \in Int, NEW to \in Int, NEW p \in Int, NEW q \in Int,
         NEW f, \A j \in from..to : f[j] \in Int
  PROVE  Weighted(f, from, to, p, q) \in Int
  <1> DEFINE t == Terms(f, from, to, p, q)
  <1>1. IsFiniteSet(from..to)
    BY FS_Interval
  <1>2. \A j \in from..to : t[j] \in Int
    BY TermsInt
  <1> HIDE DEF t
  <1>3. SumFunctionOnSet(t, from..to) \in Int
    BY <1>1, <1>2, SumInt
  <1> QED BY <1>3, WeightedIsSum DEF t

\* Weighted sums of the same values are the same.
LEMMA WeightedSame ==
  ASSUME NEW from \in Int, NEW to \in Int, NEW p, NEW q,
         NEW f, NEW g, \A j \in from..to : f[j] = g[j]
  PROVE  Weighted(f, from, to, p, q) = Weighted(g, from, to, p, q)
  <1>1. Terms(f, from, to, p, q) = Terms(g, from, to, p, q)
    BY DEF Terms
  <1> QED BY <1>1, WeightedIsSum

\* A weighted sum of no value is zero.
LEMMA WeightedNothing ==
  ASSUME NEW from \in Int, NEW to \in Int, to < from, NEW p, NEW q, NEW f
  PROVE  Weighted(f, from, to, p, q) = 0
  <1>1. from..to = {}
    OBVIOUS
  <1> QED BY <1>1, WeightedIsSum, SumEmpty

\* A weighted sum may be computed from left to right.
LEMMA WeightedGrows ==
  ASSUME NEW from \in Int, NEW to \in Int, from <= to + 1,
         NEW p \in Int, NEW q \in Int,
         NEW f, \A j \in from..(to + 1) : f[j] \in Int
  PROVE  Weighted(f, from, to + 1, p, q)
            = p * Weighted(f, from, to, p, q) + f[to + 1] * Power(q, to + 1 - from)
  <1> DEFINE S == from..to
             old == Terms(f, from, to, p, q)
             new == Terms(f, from, to + 1, p, q)
  <1>1. IsFiniteSet(S) /\ to + 1 \notin S /\ from..(to + 1) = S \cup {to + 1}
    BY IntervalGrows
  <1>2. \A j \in S \cup {to + 1} : new[j] \in Int
    BY <1>1, TermsInt
  <1>3. \A j \in S : old[j] \in Int /\ new[j] = p * old[j]
    <2> TAKE j \in S
    <2> DEFINE a == f[j]
               b == Power(p, to - j)
               c == Power(q, j - from)
    <2>1. a \in Int /\ j \in from..(to + 1)
      BY <1>1
    <2>2. old[j] = a * (b * c) /\ b \in Int /\ c \in Int /\ old[j] \in Int
      BY <2>1, TermsInt
    <2>3. new[j] = a * (Power(p, to + 1 - j) * c)
      BY <2>1, TermsInt
    <2>4. to + 1 - j = (to - j) + 1 /\ to - j \in Nat
      OBVIOUS
    <2>5. Power(p, to + 1 - j) = p * b
      BY <2>4, PowerRecursion
    <2> HIDE DEF a, b, c, old, new
    <2>6. \A x, y, z, w \in Int : x * ((w * y) * z) = w * (x * (y * z))
      OBVIOUS
    <2>7. a * ((p * b) * c) = p * (a * (b * c))
      BY ONLY <2>1, <2>2, <2>6, p \in Int
    <2> QED BY <2>2, <2>3, <2>5, <2>7
  <1>4. new[to + 1] = f[to + 1] * Power(q, to + 1 - from)
    <2>1. to + 1 \in from..(to + 1) /\ f[to + 1] \in Int
      OBVIOUS
    <2>2. /\ new[to + 1] = f[to + 1] * (Power(p, to + 1 - (to + 1)) * Power(q, to + 1 - from))
          /\ Power(q, to + 1 - from) \in Int
      BY <2>1, TermsInt
    <2>3. to + 1 - (to + 1) = 0
      OBVIOUS
    <2>4. Power(p, to + 1 - (to + 1)) = 1
      BY <2>3, PowerRecursion
    <2> HIDE DEF new
    <2> QED BY <2>1, <2>2, <2>4
  <1> HIDE DEF S, old, new
  <1>5. SumFunctionOnSet(new, S \cup {to + 1}) = SumFunctionOnSet(new, S) + new[to + 1]
    <2> DEFINE x == to + 1
    <2>1. IsFiniteSet(S) /\ x \notin S
      BY <1>1
    <2>2. \A y \in S \cup {x} : new[y] \in Int
      BY <1>2
    <2> HIDE DEF x
    <2>3. SumFunctionOnSet(new, S \cup {x}) = SumFunctionOnSet(new, S) + new[x]
      BY ONLY <2>1, <2>2, SumPutIn
    <2> QED BY <2>3 DEF x
  <1>6. SumFunctionOnSet(new, S) = p * SumFunctionOnSet(old, S)
    BY <1>1, <1>3, SumScaled
  <1>7. /\ Weighted(f, from, to, p, q) = SumFunctionOnSet(old, S)
        /\ Weighted(f, from, to + 1, p, q) = SumFunctionOnSet(new, S \cup {to + 1})
    BY <1>1, WeightedIsSum DEF S, old, new
  <1>8. Weighted(f, from, to + 1, p, q) = SumFunctionOnSet(new, S) + new[to + 1]
    BY <1>5, <1>7
  <1>9. SumFunctionOnSet(new, S) = p * Weighted(f, from, to, p, q)
    BY <1>6, <1>7
  <1> QED BY ONLY <1>4, <1>8, <1>9
=============================================================================
