----------------------------- MODULE SumTheorems -----------------------------
(***************************************************************************)
(* What the proofs need of SumFunctionOnSet(f, S), the sum of f over a     *)
(* finite set S.  The sum is defined by recursion over the subsets of S,   *)
(* and the proofs by induction are stated with sets instead of predicates: *)
(* of a set of subsets of S that violate a claim, take a smallest one.     *)
(***************************************************************************)
EXTENDS Functions, FiniteSetTheorems, WellFoundedInduction, TLAPS

\* The element of s that the recursion treats first.
Pick(s) == CHOOSE x \in s : TRUE

\* g is the recursive function that the sum of f over S is read from.
Sums(f, g, S) == g = [s \in SUBSET S |->
                        IF s = {} THEN 0 ELSE f[Pick(s)] + g[s \ {Pick(s)}]]

LEMMA SumAsChoice ==
  ASSUME NEW f, NEW S
  PROVE  SumFunctionOnSet(f, S) = (CHOOSE g : Sums(f, g, S))[S]
BY DEF SumFunctionOnSet, FoldFunctionOnSet, MapThenFoldSet, Sums, Pick

\* A non-empty set of naturals has a least member.
LEMMA SmallestNat ==
  ASSUME NEW S \in SUBSET Nat, S # {}
  PROVE  \E n \in S : \A m \in S : n <= m
<1> DEFINE Less == {ss \in Nat \X Nat : ss[1] < ss[2]}
<1>1. IsWellFoundedOn(Less, Nat)
  BY NatLessThanWellFounded DEF OpToRel
<1>2. \E n \in S : \A m \in S : ~ (<<m, n>> \in Less)
  <2> HIDE DEF Less
  <2> QED  BY <1>1, WFMin
<1>3. PICK n \in S : \A m \in S : ~ (<<m, n>> \in Less)
  BY <1>2
<1>4. ASSUME NEW m \in S PROVE n <= m
  <2>1. m \in Nat /\ n \in Nat /\ <<m, n>> \notin Less
    BY <1>3
  <2>2. m < n => <<m, n>> \in Less
    BY <2>1
  <2> QED  BY <2>1, <2>2
<1> QED  BY <1>4

\* A non-empty set of subsets of a finite set has a smallest member.
LEMMA SmallestSubset ==
  ASSUME NEW S, IsFiniteSet(S), NEW Bad \in SUBSET (SUBSET S), Bad # {}
  PROVE  \E T \in Bad : \A U \in Bad : U \subseteq T => U = T
<1> DEFINE Sizes == {Cardinality(T) : T \in Bad}
<1>1. \A T \in Bad : IsFiniteSet(T) /\ Cardinality(T) \in Nat
  BY FS_Subset, FS_CardinalityType
<1>2. Sizes \in SUBSET Nat /\ Sizes # {}
  BY <1>1
<1>3. \E n \in Sizes : \A m \in Sizes : n <= m
  <2> HIDE DEF Sizes
  <2> QED  BY <1>2, SmallestNat
<1>4. PICK T \in Bad : \A U \in Bad : Cardinality(T) <= Cardinality(U)
  BY <1>3
<1>5. \A U \in Bad : U \subseteq T => U = T
  BY <1>1, <1>4, FS_Subset
<1> QED  BY <1>5

\* There is at most one such function: two of them agree where both are defined.
LEMMA SumsAgree ==
  ASSUME NEW f, NEW S, IsFiniteSet(S), NEW T \in SUBSET S, NEW U \in SUBSET S,
         NEW g, NEW h, Sums(f, g, T), Sums(f, h, U)
  PROVE  \A s \in (SUBSET T) \cap (SUBSET U) : g[s] = h[s]
<1> DEFINE Bad == {s \in (SUBSET T) \cap (SUBSET U) : g[s] # h[s]}
<1>1. Bad \in SUBSET (SUBSET S)
  OBVIOUS
<1>2. SUFFICES ASSUME Bad # {} PROVE FALSE
  OBVIOUS
<1>3. PICK s \in Bad : \A r \in Bad : r \subseteq s => r = s
  <2> HIDE DEF Bad
  <2> QED  BY <1>1, <1>2, SmallestSubset
<1>4. s # {}
  BY DEF Sums
<1>5. Pick(s) \in s
  BY <1>4 DEF Pick
<1>6. g[s \ {Pick(s)}] = h[s \ {Pick(s)}]
  BY <1>3, <1>5
<1>7. g[s] = h[s]
  BY <1>4, <1>6 DEF Sums
<1> QED  BY <1>7

\* And there is one.
LEMMA SumsExist ==
  ASSUME NEW f, NEW S, IsFiniteSet(S)
  PROVE  \E g : Sums(f, g, S)
<1> DEFINE Bad == {T \in SUBSET S : ~ \E g : Sums(f, g, T)}
<1>1. SUFFICES ASSUME Bad # {} PROVE FALSE
  OBVIOUS
<1>2. PICK T \in Bad : \A r \in Bad : r \subseteq T => r = T
  <2>1. Bad \in SUBSET (SUBSET S)
    OBVIOUS
  <2> HIDE DEF Bad
  <2> QED  BY <1>1, <2>1, SmallestSubset
<1> DEFINE G(s) == CHOOSE g : Sums(f, g, s)
           v(s) == G(s)[s]
           k == [s \in SUBSET T |-> IF s = {} THEN 0 ELSE f[Pick(s)] + v(s \ {Pick(s)})]
<1>3. \A s \in SUBSET T : s # T => Sums(f, G(s), s)
  <2> SUFFICES ASSUME NEW s \in SUBSET T, s # T PROVE Sums(f, G(s), s)
    OBVIOUS
  <2>1. \E g : Sums(f, g, s)
    BY <1>2
  <2> QED  BY <2>1
<1>4. \A s \in SUBSET T : s # {} => Pick(s) \in s
  BY DEF Pick
<1>5. \A s \in SUBSET T : s # T => k[s] = v(s)
  <2> SUFFICES ASSUME NEW s \in SUBSET T, s # T PROVE k[s] = v(s)
    OBVIOUS
  <2>1. Sums(f, G(s), s)
    BY <1>3
  <2>2. CASE s = {}
    BY <2>1, <2>2 DEF Sums
  <2>3. CASE s # {}
    <3> DEFINE r == s \ {Pick(s)}
    <3>1. r \in SUBSET T /\ r # T /\ r \in SUBSET s /\ r \in SUBSET r
      BY <1>4, <2>3
    <3>2. Sums(f, G(r), r)
      BY <1>3, <3>1
    <3>3. G(r)[r] = G(s)[r]
      <4> HIDE DEF r, G
      <4> QED  BY <2>1, <3>1, <3>2, SumsAgree
    <3>4. G(s)[s] = f[Pick(s)] + G(s)[r]
      BY <2>1, <2>3 DEF Sums
    <3>5. k[s] = f[Pick(s)] + G(r)[r]
      BY <2>3
    <3> QED  BY <3>3, <3>4, <3>5
  <2> QED  BY <2>2, <2>3
<1>6. Sums(f, k, T)
  <2>1. \A s \in SUBSET T : s # {} =>
          s \ {Pick(s)} \in SUBSET T /\ s \ {Pick(s)} # T
    BY <1>4
  <2>2. \A s \in SUBSET T : s # {} => k[s \ {Pick(s)}] = v(s \ {Pick(s)})
    <3> HIDE DEF k, v
    <3> QED  BY <1>5, <2>1
  <2>3. k = [s \in SUBSET T |-> IF s = {} THEN 0 ELSE f[Pick(s)] + k[s \ {Pick(s)}]]
    <3> HIDE DEF v
    <3> QED  BY <2>2
  <2> QED  BY <2>3 DEF Sums
<1> QED  BY <1>6

\* The equation that SumFunctionOnSet is meant to satisfy.
LEMMA SumUnfold ==
  ASSUME NEW f, NEW S, IsFiniteSet(S)
  PROVE  SumFunctionOnSet(f, S) =
           IF S = {} THEN 0
           ELSE f[Pick(S)] + SumFunctionOnSet(f, S \ {Pick(S)})
<1> DEFINE G(s) == CHOOSE g : Sums(f, g, s)
           r == S \ {Pick(S)}
<1>1. Sums(f, G(S), S)
  BY SumsExist
<1>2. IsFiniteSet(r)
  BY FS_Subset
<1>3. Sums(f, G(r), r)
  BY <1>2, SumsExist
<1>4. CASE S = {}
  <2>1. G(S)[S] = 0
    BY <1>1, <1>4 DEF Sums
  <2> QED  BY <1>4, <2>1, SumAsChoice
<1>5. CASE S # {}
  <2>1. r \in SUBSET S /\ r \in SUBSET r /\ S \in SUBSET S
    OBVIOUS
  <2>2. G(r)[r] = G(S)[r]
    <3> HIDE DEF G, r
    <3> QED  BY <1>1, <1>3, <2>1, SumsAgree
  <2>3. G(S)[S] = f[Pick(S)] + G(S)[r]
    BY <1>1, <1>5 DEF Sums
  <2>4. SumFunctionOnSet(f, r) = G(r)[r] /\ SumFunctionOnSet(f, S) = G(S)[S]
    BY SumAsChoice
  <2> QED  BY <1>5, <2>2, <2>3, <2>4
<1> QED  BY <1>4, <1>5

-----------------------------------------------------------------------------
\* Nothing sums to zero.
THEOREM SumEmpty == \A f : SumFunctionOnSet(f, {}) = 0
BY SumUnfold, FS_EmptySet

LEMMA PickIn == ASSUME NEW S, S # {} PROVE Pick(S) \in S
BY DEF Pick

\* A sum of integers is an integer.
THEOREM SumInt ==
  ASSUME NEW f, NEW S, IsFiniteSet(S), \A s \in S : f[s] \in Int
  PROVE  SumFunctionOnSet(f, S) \in Int
<1> DEFINE Bad == {T \in SUBSET S : SumFunctionOnSet(f, T) \notin Int}
<1>1. SUFFICES ASSUME Bad # {} PROVE FALSE
  OBVIOUS
<1>2. PICK T \in Bad : \A r \in Bad : r \subseteq T => r = T
  <2>1. Bad \in SUBSET (SUBSET S)
    OBVIOUS
  <2> HIDE DEF Bad
  <2> QED  BY <1>1, <2>1, SmallestSubset
<1>3. IsFiniteSet(T)
  BY FS_Subset
<1>4. T # {}
  BY SumEmpty
<1>5. Pick(T) \in T
  BY <1>4, PickIn
<1>6. SumFunctionOnSet(f, T \ {Pick(T)}) \in Int
  BY <1>2, <1>5
<1>7. SumFunctionOnSet(f, T) = f[Pick(T)] + SumFunctionOnSet(f, T \ {Pick(T)})
  BY <1>3, <1>4, SumUnfold
<1> QED  BY <1>5, <1>6, <1>7

\* A sum of naturals is a natural.
THEOREM SumNat ==
  ASSUME NEW f, NEW S, IsFiniteSet(S), \A s \in S : f[s] \in Nat
  PROVE  SumFunctionOnSet(f, S) \in Nat
<1> DEFINE Bad == {T \in SUBSET S : SumFunctionOnSet(f, T) \notin Nat}
<1>1. SUFFICES ASSUME Bad # {} PROVE FALSE
  OBVIOUS
<1>2. PICK T \in Bad : \A r \in Bad : r \subseteq T => r = T
  <2>1. Bad \in SUBSET (SUBSET S)
    OBVIOUS
  <2> HIDE DEF Bad
  <2> QED  BY <1>1, <2>1, SmallestSubset
<1>3. IsFiniteSet(T)
  BY FS_Subset
<1>4. T # {}
  BY SumEmpty
<1>5. Pick(T) \in T
  BY <1>4, PickIn
<1>6. SumFunctionOnSet(f, T \ {Pick(T)}) \in Nat
  BY <1>2, <1>5
<1>7. SumFunctionOnSet(f, T) = f[Pick(T)] + SumFunctionOnSet(f, T \ {Pick(T)})
  BY <1>3, <1>4, SumUnfold
<1> QED  BY <1>5, <1>6, <1>7

\* Functions that agree on S have the same sum over S.
THEOREM SumEqual ==
  ASSUME NEW f, NEW g, NEW S, IsFiniteSet(S), \A s \in S : f[s] = g[s]
  PROVE  SumFunctionOnSet(f, S) = SumFunctionOnSet(g, S)
<1> DEFINE Bad == {T \in SUBSET S : SumFunctionOnSet(f, T) # SumFunctionOnSet(g, T)}
<1>1. SUFFICES ASSUME Bad # {} PROVE FALSE
  OBVIOUS
<1>2. PICK T \in Bad : \A r \in Bad : r \subseteq T => r = T
  <2>1. Bad \in SUBSET (SUBSET S)
    OBVIOUS
  <2> HIDE DEF Bad
  <2> QED  BY <1>1, <2>1, SmallestSubset
<1>3. IsFiniteSet(T)
  BY FS_Subset
<1>4. T # {}
  BY <1>3, SumUnfold
<1>5. Pick(T) \in T
  BY <1>4, PickIn
<1>6. SumFunctionOnSet(f, T \ {Pick(T)}) = SumFunctionOnSet(g, T \ {Pick(T)})
  BY <1>2, <1>5
<1>7. /\ SumFunctionOnSet(f, T) = f[Pick(T)] + SumFunctionOnSet(f, T \ {Pick(T)})
      /\ SumFunctionOnSet(g, T) = g[Pick(T)] + SumFunctionOnSet(g, T \ {Pick(T)})
  BY <1>3, <1>4, SumUnfold
<1> QED  BY <1>2, <1>5, <1>6, <1>7

\* A sum of zeros is zero.
THEOREM SumZero ==
  ASSUME NEW f, NEW S, IsFiniteSet(S), \A s \in S : f[s] = 0
  PROVE  SumFunctionOnSet(f, S) = 0
<1> DEFINE Bad == {T \in SUBSET S : SumFunctionOnSet(f, T) # 0}
<1>1. SUFFICES ASSUME Bad # {} PROVE FALSE
  OBVIOUS
<1>2. PICK T \in Bad : \A r \in Bad : r \subseteq T => r = T
  <2>1. Bad \in SUBSET (SUBSET S)
    OBVIOUS
  <2> HIDE DEF Bad
  <2> QED  BY <1>1, <2>1, SmallestSubset
<1>3. IsFiniteSet(T)
  BY FS_Subset
<1>4. T # {}
  BY SumEmpty
<1>5. Pick(T) \in T
  BY <1>4, PickIn
<1>6. SumFunctionOnSet(f, T \ {Pick(T)}) = 0
  BY <1>2, <1>5
<1>7. SumFunctionOnSet(f, T) = f[Pick(T)] + SumFunctionOnSet(f, T \ {Pick(T)})
  BY <1>3, <1>4, SumUnfold
<1> QED  BY <1>5, <1>6, <1>7

\* Any element can be taken out first, whichever the recursion chooses.
THEOREM SumRemove ==
  ASSUME NEW f, NEW S, IsFiniteSet(S), \A s \in S : f[s] \in Int, NEW t \in S
  PROVE  SumFunctionOnSet(f, S) = f[t] + SumFunctionOnSet(f, S \ {t})
<1> DEFINE Sum(T) == SumFunctionOnSet(f, T)
           Bad == {T \in SUBSET S : \E u \in T : Sum(T) # f[u] + Sum(T \ {u})}
<1>1. SUFFICES ASSUME Bad # {} PROVE FALSE
  OBVIOUS
<1>2. PICK T \in Bad : \A r \in Bad : r \subseteq T => r = T
  <2>1. Bad \in SUBSET (SUBSET S)
    OBVIOUS
  <2> HIDE DEF Bad
  <2> QED  BY <1>1, <2>1, SmallestSubset
<1>3. \A U \in SUBSET S : IsFiniteSet(U) /\ Sum(U) \in Int
  BY FS_Subset, SumInt
<1> DEFINE c == Pick(T)
<1>4. T \in SUBSET S /\ T # {} /\ c \in T
  BY PickIn
<1>5. Sum(T) = f[c] + Sum(T \ {c})
  BY <1>3, <1>4, SumUnfold
<1>6. PICK u \in T : Sum(T) # f[u] + Sum(T \ {u})
  OBVIOUS
<1> HIDE DEF Sum, c
<1>7. u # c
  BY <1>5, <1>6
<1>8. Sum(T \ {c}) = f[u] + Sum((T \ {c}) \ {u})
  <2>1. T \ {c} \in SUBSET S /\ u \in T \ {c} /\ T \ {c} # T
    BY <1>4, <1>7
  <2>2. T \ {c} \notin Bad
    BY <1>2, <2>1
  <2> QED  BY <2>1, <2>2
<1>9. Sum(T \ {u}) = f[c] + Sum((T \ {u}) \ {c})
  <2>1. T \ {u} \in SUBSET S /\ c \in T \ {u} /\ T \ {u} # T
    BY <1>4, <1>7
  <2>2. T \ {u} \notin Bad
    BY <1>2, <2>1
  <2> QED  BY <2>1, <2>2
<1>10. (T \ {u}) \ {c} = (T \ {c}) \ {u}
  OBVIOUS
<1>11. f[u] \in Int /\ f[c] \in Int /\ Sum((T \ {c}) \ {u}) \in Int
  BY <1>3, <1>4
<1> QED  BY <1>5, <1>6, <1>8, <1>9, <1>10, <1>11

\* The sum over one element more.
THEOREM SumAdd ==
  ASSUME NEW f, NEW S, IsFiniteSet(S), NEW t, t \notin S,
         \A s \in S \cup {t} : f[s] \in Int
  PROVE  SumFunctionOnSet(f, S \cup {t}) = f[t] + SumFunctionOnSet(f, S)
<1>1. IsFiniteSet(S \cup {t})
  BY FS_AddElement
<1>2. t \in S \cup {t} /\ (S \cup {t}) \ {t} = S
  OBVIOUS
<1> DEFINE U == S \cup {t}
<1>3. SumFunctionOnSet(f, U) = f[t] + SumFunctionOnSet(f, U \ {t})
  <2>1. IsFiniteSet(U) /\ t \in U /\ \A s \in U : f[s] \in Int
    BY <1>1
  <2> HIDE DEF U
  <2> QED  BY <2>1, SumRemove
<1> QED  BY <1>2, <1>3

\* The sums of two functions that agree on S except at t.
THEOREM SumChange ==
  ASSUME NEW f, NEW g, NEW S, IsFiniteSet(S), NEW t \in S,
         \A s \in S : f[s] \in Int /\ g[s] \in Int,
         \A s \in S \ {t} : f[s] = g[s]
  PROVE  SumFunctionOnSet(g, S) = SumFunctionOnSet(f, S) + g[t] - f[t]
<1>1. IsFiniteSet(S \ {t})
  BY FS_Subset
<1>2. SumFunctionOnSet(g, S \ {t}) = SumFunctionOnSet(f, S \ {t})
  BY <1>1, SumEqual
<1>3. SumFunctionOnSet(f, S) = f[t] + SumFunctionOnSet(f, S \ {t})
  BY SumRemove
<1>4. SumFunctionOnSet(g, S) = g[t] + SumFunctionOnSet(g, S \ {t})
  BY SumRemove
<1>5. SumFunctionOnSet(f, S \ {t}) \in Int
  BY <1>1, SumInt
<1> QED  BY <1>2, <1>3, <1>4, <1>5

\* Leaving out natural summands makes a sum no larger.
THEOREM SumSubset ==
  ASSUME NEW f, NEW S, IsFiniteSet(S), \A s \in S : f[s] \in Nat, NEW T \in SUBSET S
  PROVE  SumFunctionOnSet(f, T) <= SumFunctionOnSet(f, S)
<1> DEFINE Sum(U) == SumFunctionOnSet(f, U)
           Bad == {U \in SUBSET S : T \subseteq U /\ ~(Sum(T) <= Sum(U))}
<1>1. SUFFICES ASSUME Bad # {} PROVE FALSE
  OBVIOUS
<1>2. PICK U \in Bad : \A r \in Bad : r \subseteq U => r = U
  <2>1. Bad \in SUBSET (SUBSET S)
    OBVIOUS
  <2> HIDE DEF Bad
  <2> QED  BY <1>1, <2>1, SmallestSubset
<1>3. \A V \in SUBSET S : IsFiniteSet(V) /\ Sum(V) \in Nat
  BY FS_Subset, SumNat
<1>4. U \in SUBSET S /\ T \subseteq U /\ ~(Sum(T) <= Sum(U))
  OBVIOUS
<1>5. U # T
  BY <1>3, <1>4
<1>6. PICK u \in U : u \notin T
  BY <1>4, <1>5
<1>7. U \ {u} \in SUBSET S /\ T \subseteq U \ {u} /\ U \ {u} # U
  BY <1>4, <1>6
<1>8. Sum(T) <= Sum(U \ {u})
  BY <1>2, <1>7
<1>9. Sum(U) = f[u] + Sum(U \ {u})
  <2>1. IsFiniteSet(U) /\ \A s \in U : f[s] \in Int
    BY <1>3, <1>4
  <2> QED  BY <2>1, SumRemove
<1>10. /\ Sum(U \ {u}) \in Nat /\ Sum(T) \in Nat /\ f[u] \in Nat
  BY <1>3, <1>4, <1>7
<1> HIDE DEF Sum
<1> QED  BY <1>4, <1>8, <1>9, <1>10
=============================================================================
