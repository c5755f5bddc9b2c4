----------------------------- MODULE Sums_proofs -----------------------------
(***************************************************************************)
(* What sums over finite sets are, from the definition of the fold.  What  *)
(* fails for a set fails for a smallest of its subsets, since inclusion is *)
(* well-founded on the subsets of a finite set: this takes the place of an *)
(* induction.                                                              *)
(***************************************************************************)
EXTENDS Sums, FiniteSetTheorems, WellFoundedInduction, TLAPS

\* A non-empty set of subsets of a finite set has a minimal one.
LEMMA MinimalSubset ==
  ASSUME NEW S, IsFiniteSet(S), NEW B, B \subseteq SUBSET S, B # {}
  PROVE  \E T \in B : \A U \in B : U \subseteq T => U = T
<1>1. FiniteSubsetsOf(S) = SUBSET S
  BY FS_FiniteSubsetsOfFinite
<1>2. IsWellFoundedOn(StrictSubsetOrdering(S), SUBSET S)
  BY <1>1, FS_StrictSubsetOrderingWellFounded
<1>3. PICK T \in B : \A U \in B : ~(<<U, T>> \in StrictSubsetOrdering(S))
  BY <1>2, WFMin
<1>4. \A U \in B : U \subseteq T => U = T
  BY <1>3 DEF StrictSubsetOrdering
<1>5. QED
  BY <1>4

\* The element that the fold takes first.
Pick(T) == CHOOSE x \in T : TRUE

\* The equation of the fold that defines a sum, for the subsets of T.
Folds(f, T, g) ==
  g = [s \in SUBSET T |-> IF s = {} THEN 0 ELSE f[Pick(s)] + g[s \ {Pick(s)}]]

\* A sum is the element taken first and the sum of the others.
Unfolds(f, T) ==
  SumOver(f, T) = IF T = {} THEN 0 ELSE f[Pick(T)] + SumOver(f, T \ {Pick(T)})

\* SumOver is the fold of the community modules.
LEMMA SumIsFold ==
  ASSUME NEW f, NEW S PROVE SumOver(f, S) = (CHOOSE g : Folds(f, S, g))[S]
BY DEF SumOver, MapThenSumSet, MapThenFoldSet, Folds, Pick

\* The fold is well defined.
LEMMA SumUnfolds ==
  ASSUME NEW S, IsFiniteSet(S), NEW f
  PROVE  Unfolds(f, S)
<1> DEFINE Bad == {T \in SUBSET S : ~Unfolds(f, T)}
<1> SUFFICES ASSUME Bad # {} PROVE FALSE
  <2>1. S \in SUBSET S
    OBVIOUS
  <2>2. QED
    BY <2>1
<1>1. PICK T \in Bad : \A U \in Bad : U \subseteq T => U = T
  <2>1. Bad \subseteq SUBSET S
    OBVIOUS
  <2> HIDE DEF Bad
  <2>2. QED
    BY <2>1, MinimalSubset
<1>2. \A U \in SUBSET T : U # T => Unfolds(f, U)
  BY <1>1
<1> DEFINE g == [s \in SUBSET T |-> IF s # T THEN SumOver(f, s)
                                    ELSE IF s = {} THEN 0
                                    ELSE f[Pick(s)] + SumOver(f, s \ {Pick(s)})]
<1>3. Folds(f, T, g)
  <2>1. \A s \in SUBSET T : s # {} => Pick(s) \in s
    BY DEF Pick
  <2>2. ASSUME NEW s \in SUBSET T
        PROVE  g[s] = IF s = {} THEN 0 ELSE f[Pick(s)] + g[s \ {Pick(s)}]
    <3>1. CASE s = {}
      BY <3>1, <1>2 DEF Unfolds
    <3>2. CASE s # {}
      <4>1. s \ {Pick(s)} \in SUBSET T /\ s \ {Pick(s)} # T
        BY <2>1, <3>2
      <4>2. g[s \ {Pick(s)}] = SumOver(f, s \ {Pick(s)})
        BY <4>1
      <4>3. QED
        BY <3>2, <4>2, <1>2 DEF Unfolds
    <3>3. QED BY <3>1, <3>2
  <2>3. QED
    BY <2>2 DEF Folds
<1> DEFINE h == CHOOSE g1 : Folds(f, T, g1)
<1>4. Folds(f, T, h)
  <2> HIDE DEF g
  <2>1. QED BY <1>3
<1>5. SumOver(f, T) = h[T]
  BY SumIsFold
<1> HIDE DEF h
<1>6. \A U \in SUBSET T : U # T => h[U] = SumOver(f, U)
  <2> DEFINE Other == {U \in SUBSET T : U # T /\ h[U] # SumOver(f, U)}
  <2> SUFFICES ASSUME Other # {} PROVE FALSE
    OBVIOUS
  <2>0. IsFiniteSet(T)
    BY FS_Subset
  <2>1. PICK V \in Other : \A U \in Other : U \subseteq V => U = V
    <3>1. Other \subseteq SUBSET T
      OBVIOUS
    <3> HIDE DEF Other
    <3>2. QED
      BY <2>0, <3>1, MinimalSubset
  <2>2. h[V] = IF V = {} THEN 0 ELSE f[Pick(V)] + h[V \ {Pick(V)}]
    BY <1>4, <2>1 DEF Folds
  <2>3. V # {} => h[V \ {Pick(V)}] = SumOver(f, V \ {Pick(V)})
    BY <2>1 DEF Pick
  <2>4. Unfolds(f, V)
    BY <1>2, <2>1
  <2>5. QED
    BY <2>1, <2>2, <2>3, <2>4 DEF Unfolds
<1>7. h[T] = IF T = {} THEN 0 ELSE f[Pick(T)] + h[T \ {Pick(T)}]
  BY <1>4 DEF Folds
<1>8. Unfolds(f, T)
  <2>1. T # {} => T \ {Pick(T)} # T
    BY DEF Pick
  <2>2. QED
    BY <1>5, <1>6, <1>7, <2>1 DEF Unfolds
<1>9. QED
  BY <1>1, <1>8

\* Nothing sums to zero.
LEMMA SumEmpty == ASSUME NEW f PROVE SumOver(f, {}) = 0
BY SumUnfolds, FS_EmptySet DEF Unfolds

\* A sum of integers is an integer.
LEMMA SumType ==
  ASSUME NEW S, IsFiniteSet(S), NEW f, \A x \in S : f[x] \in Int
  PROVE  SumOver(f, S) \in Int
<1> DEFINE Bad == {T \in SUBSET S : SumOver(f, T) \notin Int}
<1> SUFFICES ASSUME Bad # {} PROVE FALSE
  <2>1. S \in SUBSET S
    OBVIOUS
  <2>2. QED
    BY <2>1
<1>1. PICK T \in Bad : \A U \in Bad : U \subseteq T => U = T
  <2>1. Bad \subseteq SUBSET S
    OBVIOUS
  <2> HIDE DEF Bad
  <2>2. QED
    BY <2>1, MinimalSubset
<1>2. IsFiniteSet(T)
  BY FS_Subset
<1>3. Unfolds(f, T)
  BY <1>2, SumUnfolds
<1>4. T # {}
  BY <1>1, <1>3 DEF Unfolds
<1>5. Pick(T) \in T
  BY <1>4 DEF Pick
<1>6. SumOver(f, T \ {Pick(T)}) \in Int
  BY <1>1, <1>5
<1>7. QED
  BY <1>1, <1>3, <1>4, <1>5, <1>6 DEF Unfolds

\* The order in which a sum is taken does not matter.
LEMMA SumRemove ==
  ASSUME NEW S, IsFiniteSet(S), NEW f, \A x \in S : f[x] \in Int, NEW x \in S
  PROVE  SumOver(f, S) = f[x] + SumOver(f, S \ {x})
<1> DEFINE Bad == {T \in SUBSET S : \E y \in T : SumOver(f, T) # f[y] + SumOver(f, T \ {y})}
<1> SUFFICES ASSUME Bad # {} PROVE FALSE
  <2>1. S \in SUBSET S
    OBVIOUS
  <2>2. QED
    BY <2>1
<1>1. PICK T \in Bad : \A U \in Bad : U \subseteq T => U = T
  <2>1. Bad \subseteq SUBSET S
    OBVIOUS
  <2> HIDE DEF Bad
  <2>2. QED
    BY <2>1, MinimalSubset
<1>2. PICK y \in T : SumOver(f, T) # f[y] + SumOver(f, T \ {y})
  BY <1>1
<1> DEFINE z == Pick(T)
<1>3. IsFiniteSet(T) /\ IsFiniteSet((T \ {y}) \ {z})
  BY FS_Subset
<1>4. z \in T
  BY <1>2 DEF Pick
<1>5. SumOver(f, T) = f[z] + SumOver(f, T \ {z})
  BY <1>2, <1>3, SumUnfolds DEF Unfolds
<1> HIDE DEF z
<1>6. z # y
  BY <1>2, <1>5
<1>7. SumOver(f, T \ {z}) = f[y] + SumOver(f, (T \ {z}) \ {y})
  <2>1. T \ {z} \notin Bad
    BY <1>1, <1>4
  <2>2. T \ {z} \in SUBSET S /\ y \in T \ {z}
    BY <1>1, <1>6
  <2>3. QED
    BY <2>1, <2>2
<1>8. SumOver(f, T \ {y}) = f[z] + SumOver(f, (T \ {y}) \ {z})
  <2>1. T \ {y} \notin Bad
    BY <1>1, <1>2
  <2>2. T \ {y} \in SUBSET S /\ z \in T \ {y}
    BY <1>1, <1>4, <1>6
  <2>3. QED
    BY <2>1, <2>2
<1>9. \A A, a, b : (A \ {a}) \ {b} = (A \ {b}) \ {a}
  OBVIOUS
<1>10. f[y] \in Int /\ f[z] \in Int /\ SumOver(f, (T \ {y}) \ {z}) \in Int
  <2>1. \A a \in (T \ {y}) \ {z} : f[a] \in Int
    BY <1>1
  <2>2. QED
    BY <2>1, <1>1, <1>2, <1>3, <1>4, SumType
<1>11. QED
  BY <1>2, <1>5, <1>7, <1>8, <1>9, <1>10

\* One element more.
LEMMA SumAdd ==
  ASSUME NEW S, NEW f, NEW x, IsFiniteSet(S), x \notin S,
         f[x] \in Int, \A y \in S : f[y] \in Int
  PROVE  SumOver(f, S \cup {x}) = SumOver(f, S) + f[x]
<1>1. IsFiniteSet(S \cup {x}) /\ (S \cup {x}) \ {x} = S
  BY FS_AddElement
<1>2. SumOver(f, S) \in Int
  BY SumType
<1>3. x \in S \cup {x} /\ \A y \in S \cup {x} : f[y] \in Int
  OBVIOUS
<1>4. SumOver(f, S \cup {x}) = f[x] + SumOver(f, (S \cup {x}) \ {x})
  BY <1>1, <1>3, SumRemove
<1>5. SumOver(f, S \cup {x}) = f[x] + SumOver(f, S)
  BY <1>1, <1>4, Zenon
<1>6. QED
  BY <1>2, <1>5

\* A sum depends on what is summed only.
LEMMA SumSame ==
  ASSUME NEW S, IsFiniteSet(S), NEW f, NEW g, \A x \in S : f[x] = g[x]
  PROVE  SumOver(f, S) = SumOver(g, S)
<1> DEFINE Bad == {T \in SUBSET S : SumOver(f, T) # SumOver(g, T)}
<1> SUFFICES ASSUME Bad # {} PROVE FALSE
  <2>1. S \in SUBSET S
    OBVIOUS
  <2>2. QED
    BY <2>1
<1>1. PICK T \in Bad : \A U \in Bad : U \subseteq T => U = T
  <2>1. Bad \subseteq SUBSET S
    OBVIOUS
  <2> HIDE DEF Bad
  <2>2. QED
    BY <2>1, MinimalSubset
<1>2. Unfolds(f, T) /\ Unfolds(g, T)
  <2>1. IsFiniteSet(T)
    BY FS_Subset
  <2>2. QED
    BY <2>1, SumUnfolds
<1>3. T # {}
  BY <1>1, <1>2 DEF Unfolds
<1>4. Pick(T) \in T
  BY <1>3 DEF Pick
<1>5. SumOver(f, T \ {Pick(T)}) = SumOver(g, T \ {Pick(T)})
  BY <1>1, <1>4
<1>6. QED
  BY <1>1, <1>2, <1>3, <1>4, <1>5 DEF Unfolds

\* Where two functions differ in one place, so do their sums.
LEMMA SumChange ==
  ASSUME NEW S, IsFiniteSet(S), NEW f, NEW g, NEW x \in S,
         \A y \in S : f[y] \in Int /\ g[y] \in Int,
         \A y \in S \ {x} : g[y] = f[y]
  PROVE  SumOver(g, S) = SumOver(f, S) + g[x] - f[x]
<1>1. IsFiniteSet(S \ {x})
  BY FS_RemoveElement
<1>2. SumOver(f, S \ {x}) = SumOver(g, S \ {x})
  BY <1>1, SumSame
<1>3. SumOver(f, S \ {x}) \in Int
  BY <1>1, SumType
<1>4. SumOver(f, S) = f[x] + SumOver(f, S \ {x})
  BY SumRemove
<1>5. SumOver(g, S) = g[x] + SumOver(g, S \ {x})
  BY SumRemove
<1>6. QED
  BY <1>2, <1>3, <1>4, <1>5

\* Sums add up.
LEMMA SumPlus ==
  ASSUME NEW S, IsFiniteSet(S), NEW f, NEW g, NEW h,
         \A x \in S : f[x] \in Int /\ g[x] \in Int /\ h[x] = f[x] + g[x]
  PROVE  SumOver(h, S) = SumOver(f, S) + SumOver(g, S)
<1> DEFINE Bad == {T \in SUBSET S : SumOver(h, T) # SumOver(f, T) + SumOver(g, T)}
<1> SUFFICES ASSUME Bad # {} PROVE FALSE
  <2>1. S \in SUBSET S
    OBVIOUS
  <2>2. QED
    BY <2>1
<1>1. PICK T \in Bad : \A U \in Bad : U \subseteq T => U = T
  <2>1. Bad \subseteq SUBSET S
    OBVIOUS
  <2> HIDE DEF Bad
  <2>2. QED
    BY <2>1, MinimalSubset
<1>2. IsFiniteSet(T)
  BY FS_Subset
<1>3. T # {}
  <2>1. SumOver(f, {}) = 0 /\ SumOver(g, {}) = 0 /\ SumOver(h, {}) = 0
    BY SumEmpty
  <2>2. {} \notin Bad
    BY <2>1
  <2> HIDE DEF Bad
  <2>3. QED
    BY <2>2
<1>4. PICK x \in T : TRUE
  BY <1>3
<1>5. IsFiniteSet(T \ {x}) /\ T \ {x} \in SUBSET S
  BY <1>1, <1>2, FS_RemoveElement
<1>6. SumOver(h, T \ {x}) = SumOver(f, T \ {x}) + SumOver(g, T \ {x})
  BY <1>1, <1>5
<1>7. \A y \in T : f[y] \in Int /\ g[y] \in Int /\ h[y] \in Int
  BY <1>1
<1>8. /\ SumOver(f, T) = f[x] + SumOver(f, T \ {x})
      /\ SumOver(g, T) = g[x] + SumOver(g, T \ {x})
      /\ SumOver(h, T) = h[x] + SumOver(h, T \ {x})
  BY <1>2, <1>7, SumRemove
<1>9. SumOver(f, T \ {x}) \in Int /\ SumOver(g, T \ {x}) \in Int
  BY <1>5, <1>7, SumType
<1>10. h[x] = f[x] + g[x]
  BY <1>1
<1>11. QED
  BY <1>1, <1>6, <1>7, <1>8, <1>9, <1>10

\* They are monotonic.
LEMMA SumMonotonic ==
  ASSUME NEW S, IsFiniteSet(S), NEW f, NEW g,
         \A x \in S : f[x] \in Int /\ g[x] \in Int /\ f[x] <= g[x]
  PROVE  SumOver(f, S) <= SumOver(g, S)
<1> DEFINE Bad == {T \in SUBSET S : ~(SumOver(f, T) <= SumOver(g, T))}
<1> SUFFICES ASSUME Bad # {} PROVE FALSE
  <2>1. S \in SUBSET S
    OBVIOUS
  <2>2. QED
    BY <2>1
<1>1. PICK T \in Bad : \A U \in Bad : U \subseteq T => U = T
  <2>1. Bad \subseteq SUBSET S
    OBVIOUS
  <2> HIDE DEF Bad
  <2>2. QED
    BY <2>1, MinimalSubset
<1>2. IsFiniteSet(T)
  BY FS_Subset
<1>3. T # {}
  <2>1. SumOver(f, {}) = 0 /\ SumOver(g, {}) = 0
    BY SumEmpty
  <2>2. {} \notin Bad
    BY <2>1
  <2> HIDE DEF Bad
  <2>3. QED
    BY <2>2
<1>4. PICK x \in T : TRUE
  BY <1>3
<1>5. IsFiniteSet(T \ {x}) /\ T \ {x} \in SUBSET S
  BY <1>1, <1>2, FS_RemoveElement
<1>6. SumOver(f, T \ {x}) <= SumOver(g, T \ {x})
  BY <1>1, <1>5
<1>7. \A y \in T : f[y] \in Int /\ g[y] \in Int
  BY <1>1
<1>8. /\ SumOver(f, T) = f[x] + SumOver(f, T \ {x})
      /\ SumOver(g, T) = g[x] + SumOver(g, T \ {x})
  BY <1>2, <1>7, SumRemove
<1>9. SumOver(f, T \ {x}) \in Int /\ SumOver(g, T \ {x}) \in Int
  BY <1>5, <1>7, SumType
<1>10. f[x] <= g[x]
  BY <1>1
<1>11. QED
  BY <1>1, <1>6, <1>7, <1>8, <1>9, <1>10

\* The sum over two disjoint sets.
LEMMA SumUnion ==
  ASSUME NEW S, IsFiniteSet(S), NEW R, IsFiniteSet(R), S \cap R = {}, NEW f,
         \A x \in S \cup R : f[x] \in Int
  PROVE  SumOver(f, S \cup R) = SumOver(f, S) + SumOver(f, R)
<1> DEFINE Bad == {T \in SUBSET R : SumOver(f, S \cup T) # SumOver(f, S) + SumOver(f, T)}
<1> SUFFICES ASSUME Bad # {} PROVE FALSE
  <2>1. R \in SUBSET R
    OBVIOUS
  <2>2. QED
    BY <2>1
<1>1. PICK T \in Bad : \A U \in Bad : U \subseteq T => U = T
  <2>1. Bad \subseteq SUBSET R
    OBVIOUS
  <2> HIDE DEF Bad
  <2>2. QED
    BY <2>1, MinimalSubset
<1>2. IsFiniteSet(T)
  BY FS_Subset
<1>0. SumOver(f, S) \in Int
  BY SumType
<1>3. T # {}
  <2>1. S \cup {} = S /\ SumOver(f, {}) = 0
    BY SumEmpty
  <2>2. {} \notin Bad
    BY <1>0, <2>1
  <2> HIDE DEF Bad
  <2>3. QED
    BY <2>2
<1>4. PICK x \in T : TRUE
  BY <1>3
<1>5. IsFiniteSet(T \ {x}) /\ T \ {x} \in SUBSET R
  BY <1>1, <1>2, FS_RemoveElement
<1>6. SumOver(f, S \cup (T \ {x})) = SumOver(f, S) + SumOver(f, T \ {x})
  BY <1>1, <1>5
<1>7. /\ IsFiniteSet(S \cup T) /\ (S \cup T) \ {x} = S \cup (T \ {x})
      /\ x \in S \cup T
      /\ \A y \in S \cup T : f[y] \in Int
  BY <1>1, <1>2, FS_Union
<1>8. SumOver(f, S \cup T) = f[x] + SumOver(f, (S \cup T) \ {x})
  BY <1>7, SumRemove
<1>9. SumOver(f, T) = f[x] + SumOver(f, T \ {x})
  BY <1>2, <1>7, SumRemove
<1>10. SumOver(f, T \ {x}) \in Int /\ f[x] \in Int
  BY <1>5, <1>7, SumType
<1>11. QED
  BY <1>0, <1>1, <1>6, <1>7, <1>8, <1>9, <1>10

\* A sum of nothings is nothing.
LEMMA SumZero ==
  ASSUME NEW S, IsFiniteSet(S), NEW f, \A x \in S : f[x] = 0
  PROVE  SumOver(f, S) = 0
<1> DEFINE Bad == {T \in SUBSET S : SumOver(f, T) # 0}
<1> SUFFICES ASSUME Bad # {} PROVE FALSE
  <2>1. S \in SUBSET S
    OBVIOUS
  <2>2. QED
    BY <2>1
<1>1. PICK T \in Bad : \A U \in Bad : U \subseteq T => U = T
  <2>1. Bad \subseteq SUBSET S
    OBVIOUS
  <2> HIDE DEF Bad
  <2>2. QED
    BY <2>1, MinimalSubset
<1>2. Unfolds(f, T)
  <2>1. IsFiniteSet(T)
    BY FS_Subset
  <2>2. QED
    BY <2>1, SumUnfolds
<1>3. T # {}
  BY <1>1, <1>2 DEF Unfolds
<1>4. Pick(T) \in T
  BY <1>3 DEF Pick
<1>5. SumOver(f, T \ {Pick(T)}) = 0
  BY <1>1, <1>4
<1>6. f[Pick(T)] = 0
  BY <1>1, <1>4
<1>7. QED
  BY <1>1, <1>2, <1>3, <1>5, <1>6 DEF Unfolds

\* A sum over other names of the same things.
LEMMA SumRenamed ==
  ASSUME NEW S, NEW R, NEW b \in [S -> R], NEW f, NEW g, IsFiniteSet(S),
         \A x, y \in S : b[x] = b[y] => x = y, \A z \in R : \E x \in S : b[x] = z,
         \A x \in S : f[x] \in Int /\ g[b[x]] = f[x]
  PROVE  SumOver(g, R) = SumOver(f, S)
<1> DEFINE Named(T) == {z \in R : \E x \in T : b[x] = z}
           Bad == {T \in SUBSET S : SumOver(g, Named(T)) # SumOver(f, T)}
<1>0. Named(S) = R
  OBVIOUS
<1> SUFFICES ASSUME Bad # {} PROVE FALSE
  <2>1. S \in SUBSET S
    OBVIOUS
  <2>2. QED
    BY <1>0, <2>1
<1>1. PICK T \in Bad : \A U \in Bad : U \subseteq T => U = T
  <2>1. Bad \subseteq SUBSET S
    OBVIOUS
  <2> HIDE DEF Bad
  <2>2. QED
    BY <2>1, MinimalSubset
<1>2. IsFiniteSet(T)
  BY FS_Subset
<1>3. T # {}
  <2>1. Named({}) = {}
    OBVIOUS
  <2>2. QED
    BY <1>1, <2>1, SumEmpty
<1>4. PICK x \in T : TRUE
  BY <1>3
<1>5. IsFiniteSet(T \ {x}) /\ T \ {x} \in SUBSET S
  BY <1>1, <1>2, FS_RemoveElement
<1>6. SumOver(g, Named(T \ {x})) = SumOver(f, T \ {x})
  BY <1>1, <1>5
<1>7. Named(T) = Named(T \ {x}) \cup {b[x]} /\ b[x] \notin Named(T \ {x})
  BY <1>1
<1>8. IsFiniteSet(Named(T \ {x}))
  <2> DEFINE U == T \ {x}
             V == Named(U)
             c == [y \in U |-> b[y]]
  <2>1. c \in [U -> V] /\ \A z \in V : \E y \in U : c[y] = z
    BY <1>5
  <2>2. c \in Surjection(U, V)
    <3> HIDE DEF V, c
    <3>1. QED BY <2>1 DEF Surjection
  <2>3. IsFiniteSet(V)
    <3> HIDE DEF V, c, U
    <3>1. IsFiniteSet(U)
      BY <1>5 DEF U
    <3>2. QED
      BY <2>2, <3>1, FS_Surjection
  <2>4. QED BY <2>3
<1>9. \A y \in Named(T \ {x}) \cup {b[x]} : g[y] \in Int
  BY <1>1
<1>10. SumOver(g, Named(T)) = SumOver(g, Named(T \ {x})) + g[b[x]]
  <2> DEFINE V == Named(T \ {x})
             z == b[x]
  <2>1. IsFiniteSet(V) /\ z \notin V /\ g[z] \in Int /\ \A y \in V : g[y] \in Int
    BY <1>7, <1>8, <1>9
  <2> HIDE DEF V, z
  <2>2. SumOver(g, V \cup {z}) = SumOver(g, V) + g[z]
    BY <2>1, SumAdd
  <2>3. QED
    BY <1>7, <2>2 DEF V, z
<1>11. SumOver(f, T) = f[x] + SumOver(f, T \ {x})
  <2>1. \A y \in T : f[y] \in Int
    BY <1>1
  <2>2. QED
    BY <1>2, <2>1, SumRemove
<1>12. SumOver(f, T \ {x}) \in Int
  BY <1>1, <1>5, SumType
<1> HIDE DEF Named
<1>13. QED
  BY <1>1, <1>6, <1>10, <1>11, <1>12
=============================================================================
