---------------------------- MODULE Stock_proofs ----------------------------
(***************************************************************************)
(* Theorems of Stock.                                                      *)
(*                                                                         *)
(* However requests overlap: the types (TypesHold) and the agreement of    *)
(* the inventory accounts with the movements (LedgerIsMovements).          *)
(*                                                                         *)
(* One request at a time (OneClient): a count leaves what was counted      *)
(* (CountsAreApplied).  With negative stock forbidden and no audit         *)
(* approved besides (NoShortage): quantities are balances, the layers of a *)
(* FIFO replay are the units in stock, and the accounts carry their cost.  *)
(* The layers are what a recursion over the movements computes; what it    *)
(* does with one movement more is found from the smallest position where   *)
(* two replays could differ, since induction is out of the provers' reach. *)
(***************************************************************************)
EXTENDS Stock, Sums_proofs, SequenceTheorems

\* A set of natural numbers that is not empty has a smallest member.
LEMMA SmallestOf ==
  ASSUME NEW B, B \subseteq Nat, B # {}
  PROVE  \E n \in B : \A m \in B : n <= m
<1>1. PICK b \in B : TRUE
  OBVIOUS
<1> DEFINE All == 0..b
           Below == {T \in SUBSET All : \E n \in B : n <= b /\ T = 0..n}
<1>2. IsFiniteSet(All)
  BY FS_Interval
<1>3. Below \subseteq SUBSET All /\ Below # {}
  <2>1. 0..b \in Below
    BY <1>1
  <2>2. QED
    BY <2>1
<1>4. PICK T \in Below : \A U \in Below : U \subseteq T => U = T
  <2> HIDE DEF Below, All
  <2>1. QED
    BY <1>2, <1>3, MinimalSubset
<1>5. PICK n \in B : n <= b /\ T = 0..n
  BY <1>4
<1>6. ASSUME NEW m \in B, m < n PROVE FALSE
  <2>1. 0..m \subseteq 0..n /\ 0..m \in SUBSET (0..b)
    BY <1>5, <1>6
  <2>2. 0..m \in Below
    BY <1>5, <1>6, <2>1
  <2>3. 0..m = 0..n
    BY <1>4, <1>5, <2>1, <2>2
  <2>4. n \in 0..n /\ n \notin 0..m
    BY <1>6
  <2>5. QED
    BY <2>3, <2>4
<1>7. QED
  BY <1>6

\* left[k] is what the first k movements of s leave.
Replayed(s, n, left) ==
  left = [k \in 0..n |-> IF k = 0 THEN <<>> ELSE Replay(left[k - 1], s[k])]

LEMMA LayersByReplay ==
  ASSUME NEW s PROVE Layers(s) = (CHOOSE left : Replayed(s, Len(s), left))[Len(s)]
BY DEF Layers, Replayed

\* The replay is well defined, however many movements there are.
LEMMA ReplayExists ==
  ASSUME NEW s, NEW n \in Nat
  PROVE  \E left : Replayed(s, n, left)
<1> DEFINE Bad == {k \in Nat : ~\E left : Replayed(s, k, left)}
<1> SUFFICES ASSUME Bad # {} PROVE FALSE
  OBVIOUS
<1>1. PICK k \in Bad : \A j \in Bad : k <= j
  <2>1. Bad \subseteq Nat
    OBVIOUS
  <2> HIDE DEF Bad
  <2>2. QED
    BY <2>1, SmallestOf
<1>2. CASE k = 0
  <2> DEFINE h == [i \in 0..0 |-> <<>>]
  <2>1. h = [i \in 0..0 |-> IF i = 0 THEN <<>> ELSE Replay(h[i - 1], s[i])]
    OBVIOUS
  <2> HIDE DEF h
  <2>2. QED
    BY <1>1, <1>2, <2>1 DEF Replayed
<1>3. CASE k # 0
  <2>1. k - 1 \in Nat /\ k - 1 \notin Bad /\ k \in Nat
    BY <1>1, <1>3
  <2>2. PICK g : Replayed(s, k - 1, g)
    BY <2>1
  <2> DEFINE h == [i \in 0..k |-> IF i = k THEN Replay(g[k - 1], s[k]) ELSE g[i]]
             good == [i \in 0..k |-> IF i = 0 THEN <<>> ELSE Replay(h[i - 1], s[i])]
  <2>3. ASSUME NEW i \in 0..k PROVE h[i] = good[i]
    <3>1. CASE i = k
      <4>1. h[k - 1] = g[k - 1] /\ h[i] = Replay(g[k - 1], s[k])
        BY <1>3, <2>1, <3>1
      <4>2. QED
        BY <1>3, <3>1, <4>1
    <3>2. CASE i = 0
      <4>1. h[i] = g[0] /\ g[0] = <<>>
        BY <1>3, <2>1, <2>2, <3>2 DEF Replayed
      <4>2. QED
        BY <3>2, <4>1
    <3>3. CASE i # k /\ i # 0
      <4>1. i \in 0..(k - 1) /\ i - 1 \in 0..(k - 1) /\ i - 1 # k
        BY <2>1, <3>3
      <4>2. h[i] = g[i] /\ h[i - 1] = g[i - 1]
        BY <4>1, <3>3
      <4>3. g[i] = Replay(g[i - 1], s[i])
        BY <2>2, <3>3, <4>1 DEF Replayed
      <4>4. QED
        BY <3>3, <4>2, <4>3
    <3>4. QED
      BY <3>1, <3>2, <3>3
  <2>4. h = good
    <3> HIDE DEF Bad
    <3>1. DOMAIN h = 0..k /\ DOMAIN good = 0..k /\ h = [i \in 0..k |-> h[i]] /\ good = [i \in 0..k |-> good[i]]
      OBVIOUS
    <3> HIDE DEF h, good
    <3>2. QED
      BY <2>3, <3>1
  <2>5. Replayed(s, k, h)
    BY <2>4 DEF Replayed
  <2>6. QED
    BY <1>1, <2>5
<1>4. QED
  BY <1>2, <1>3

\* Two replays of the same movements agree, as far as both go.
LEMMA ReplaysAgree ==
  ASSUME NEW s, NEW t, NEW n \in Nat, NEW m \in Nat, NEW g, NEW h,
         Replayed(s, n, g), Replayed(t, m, h), n <= m, \A k \in 1..n : s[k] = t[k]
  PROVE  \A k \in 0..n : g[k] = h[k]
<1> DEFINE Bad == {k \in 0..n : g[k] # h[k]}
<1> SUFFICES ASSUME Bad # {} PROVE FALSE
  OBVIOUS
<1>1. PICK k \in Bad : \A j \in Bad : k <= j
  <2>1. Bad \subseteq Nat
    OBVIOUS
  <2> HIDE DEF Bad
  <2>2. QED
    BY <2>1, SmallestOf
<1>2. k # 0
  BY <1>1 DEF Replayed
<1>3. k - 1 \in 0..n /\ k \in 1..n /\ k - 1 \notin Bad /\ k \in 0..m
  BY <1>1, <1>2
<1>4. g[k - 1] = h[k - 1]
  BY <1>3
<1>5. g[k] = Replay(g[k - 1], s[k]) /\ h[k] = Replay(h[k - 1], t[k])
  BY <1>2, <1>3 DEF Replayed
<1>6. g[k] = h[k]
  BY <1>3, <1>4, <1>5
<1>7. QED
  BY <1>1, <1>6

\* fifoIssueUnitCost starts with no layers, and takes one movement after the other.
LEMMA NoLayers == Layers(<<>>) = <<>>
<1>1. Len(<<>>) = 0
  OBVIOUS
<1>2. PICK left : Replayed(<<>>, 0, left)
  BY ReplayExists
<1> DEFINE found == CHOOSE g : Replayed(<<>>, 0, g)
<1>3. Replayed(<<>>, 0, found)
  BY <1>2
<1> HIDE DEF found
<1>4. found[0] = <<>>
  BY <1>3 DEF Replayed
<1>5. QED
  BY <1>1, <1>4, LayersByReplay DEF found

LEMMA LayersAppend ==
  ASSUME NEW s \in Seq(Movement), NEW m \in Movement
  PROVE  Layers(Append(s, m)) = Replay(Layers(s), m)
<1> DEFINE t == Append(s, m)
           n == Len(s)
           g == CHOOSE left : Replayed(s, n, left)
           h == CHOOSE left : Replayed(t, n + 1, left)
<1>1. n \in Nat /\ Len(t) = n + 1 /\ t[n + 1] = m /\ \A k \in 1..n : s[k] = t[k]
  BY LenProperties, AppendProperties
<1> HIDE DEF n, t
<1>2. Replayed(s, n, g)
  BY <1>1, ReplayExists
<1>3. Replayed(t, n + 1, h)
  BY <1>1, ReplayExists
<1>4. Layers(s) = g[n] /\ Layers(t) = h[n + 1]
  BY <1>1, LayersByReplay DEF n
<1> HIDE DEF g, h
<1>5. n + 1 \in Nat /\ n <= n + 1
  BY <1>1
<1>6. g[n] = h[n]
  <2> DEFINE l == n + 1
  <2>0. /\ n \in Nat /\ l \in Nat /\ n <= l /\ Replayed(s, n, g) /\ Replayed(t, l, h)
        /\ \A k \in 1..n : s[k] = t[k]
    BY <1>1, <1>2, <1>3, <1>5
  <2> HIDE DEF l
  <2>1. \A k \in 0..n : g[k] = h[k]
    BY <2>0, ReplaysAgree
  <2>2. QED
    BY <1>1, <2>1
<1>7. h[n + 1] = Replay(h[n], m)
  <2>1. n + 1 \in 0..(n + 1) /\ n + 1 # 0 /\ (n + 1) - 1 = n
    BY <1>1
  <2>2. h[n + 1] = Replay(h[(n + 1) - 1], t[n + 1])
    BY <1>3, <2>1 DEF Replayed
  <2>3. QED
    BY <1>1, <2>1, <2>2
<1>8. QED
  BY <1>4, <1>6, <1>7 DEF t

\* n units at the same cost.
LEMMA Repeated ==
  ASSUME NEW n \in Nat, NEW c, n > 0 => c \in Nat
  PROVE  /\ [k \in 1..n |-> c] \in Seq(Nat)
         /\ Len([k \in 1..n |-> c]) = n
         /\ \A i \in 1..n : [k \in 1..n |-> c][i] = c
<1>1. [k \in 1..n |-> c] \in [1..n -> Nat]
  <2>1. CASE n = 0
    <3>1. 1..n = {}
      BY <2>1
    <3>2. QED
      BY <3>1
  <2>2. CASE n > 0
    BY <2>2
  <2>3. QED
    BY <2>1, <2>2
<1>2. QED
  BY <1>1

LEMMA ReplayType ==
  ASSUME NEW l \in Seq(Nat), NEW m \in Movement
  PROVE  /\ Replay(l, m) \in Seq(Nat)
         /\ m.in => Len(Replay(l, m)) = Len(l) + m.n
         /\ ~m.in /\ m.n <= Len(l) => Len(Replay(l, m)) = Len(l) - m.n
<1>1. m.n \in Nat /\ m.cost \in Nat /\ m.in \in BOOLEAN
  BY DEF Movement
<1>2. CASE m.in
  <2> DEFINE c == m.cost \div m.n
  <2>1. m.n > 0 => c \in Nat
    BY <1>1
  <2> HIDE DEF c
  <2>2. /\ [k \in 1..m.n |-> c] \in Seq(Nat) /\ Len([k \in 1..m.n |-> c]) = m.n
    BY <1>1, <2>1, Repeated
  <2> DEFINE new == [k \in 1..m.n |-> c]
  <2>3. Replay(l, m) = l \o new
    BY <1>2 DEF Replay, c
  <2>4. new \in Seq(Nat) /\ Len(new) = m.n
    BY <2>2
  <2> HIDE DEF new
  <2>5. QED
    BY <1>2, <2>3, <2>4, ConcatProperties
<1>3. CASE ~m.in
  <2> DEFINE a == Lesser(m.n, Len(l)) + 1
             r == SubSeq(l, a, Len(l))
  <2>1. a \in 1..Len(l) + 1 /\ Len(l) \in Nat /\ (m.n <= Len(l) => a = m.n + 1)
    BY <1>1, LenProperties DEF Lesser
  <2>2. \A i \in a..Len(l) : l[i] \in Nat
    BY <2>1, LenProperties
  <2> HIDE DEF a
  <2>3. r \in Seq(Nat) /\ Len(r) = IF a <= Len(l) THEN Len(l) - a + 1 ELSE 0
    BY <2>1, <2>2, SubSeqProperties
  <2>4. Replay(l, m) = r
    BY <1>3 DEF Replay, a
  <2> HIDE DEF r
  <2>5. QED
    BY <1>1, <1>3, <2>1, <2>3, <2>4
<1>4. QED
  BY <1>1, <1>2, <1>3

\* The layers are costs.
LEMMA LayersType ==
  ASSUME NEW s \in Seq(Movement)
  PROVE  Layers(s) \in Seq(Nat)
<1> DEFINE left == CHOOSE g : Replayed(s, Len(s), g)
           Bad == {k \in 0..Len(s) : left[k] \notin Seq(Nat)}
<1>1. Len(s) \in Nat /\ \A k \in 1..Len(s) : s[k] \in Movement
  BY LenProperties
<1>2. Replayed(s, Len(s), left)
  BY <1>1, ReplayExists
<1>3. Layers(s) = left[Len(s)]
  BY LayersByReplay
<1> HIDE DEF left
<1> SUFFICES ASSUME Bad # {} PROVE FALSE
  BY <1>1, <1>3
<1>4. PICK k \in Bad : \A j \in Bad : k <= j
  <2>1. Bad \subseteq Nat
    BY <1>1
  <2> HIDE DEF Bad
  <2>2. QED
    BY <2>1, SmallestOf
<1>5. k # 0
  BY <1>1, <1>2, <1>4 DEF Replayed
<1>6. k - 1 \in 0..Len(s) /\ k \in 1..Len(s) /\ k - 1 \notin Bad
  BY <1>1, <1>4, <1>5
<1>7. left[k - 1] \in Seq(Nat) /\ s[k] \in Movement
  BY <1>1, <1>6
<1>8. left[k] = Replay(left[k - 1], s[k])
  BY <1>2, <1>5, <1>6 DEF Replayed
<1>9. Replay(left[k - 1], s[k]) \in Seq(Nat)
  BY <1>7, ReplayType
<1>10. QED
  BY <1>4, <1>8, <1>9

\* A set renamed, and one member more.
LEMMA SumInserted ==
  ASSUME NEW S, NEW R, NEW b \in [S -> R], NEW f, NEW g, NEW p,
         IsFiniteSet(S), IsFiniteSet(R), p \notin R, g[p] \in Int,
         \A x, y \in S : b[x] = b[y] => x = y, \A z \in R : \E x \in S : b[x] = z,
         \A x \in S : f[x] \in Int /\ g[b[x]] = f[x]
  PROVE  SumOver(g, R \cup {p}) = SumOver(f, S) + g[p]
<1>1. SumOver(g, R) = SumOver(f, S)
  BY SumRenamed
<1>2. \A y \in R : g[y] \in Int
  OBVIOUS
<1>3. SumOver(g, R \cup {p}) = SumOver(g, R) + g[p]
  BY <1>2, SumAdd
<1>4. QED
  BY <1>1, <1>3

\* The total of costs one after the other.
LEMMA TotalConcat ==
  ASSUME NEW s \in Seq(Nat), NEW t \in Seq(Nat)
  PROVE  Total(s \o t) = Total(s) + Total(t)
<1> DEFINE a == Len(s)
           n == Len(t)
           u == s \o t
           S == 1..a
           R == (a + 1)..(a + n)
           b == [k \in 1..n |-> k + a]
<1>1. /\ a \in Nat /\ n \in Nat /\ DOMAIN s = 1..a /\ DOMAIN t = 1..n
      /\ \A k \in 1..a : s[k] \in Int
      /\ \A k \in 1..n : t[k] \in Int
  BY LenProperties
<1>2. /\ DOMAIN u = 1..(a + n)
      /\ \A k \in 1..(a + n) : u[k] = IF k <= a THEN s[k] ELSE t[k - a]
  <2>1. u \in Seq(Nat) /\ Len(u) = a + n
    BY ConcatProperties
  <2>2. DOMAIN u = 1..(a + n)
    BY <2>1, LenProperties
  <2>3. QED
    BY <2>2, ConcatProperties
<1> HIDE DEF a, n, u
<1>3. IsFiniteSet(S) /\ IsFiniteSet(R) /\ S \cap R = {} /\ S \cup R = 1..(a + n) /\ IsFiniteSet(1..n)
  <2> DEFINE i == a + 1
             j == a + n
  <2>1. i \in Int /\ j \in Int
    BY <1>1
  <2> HIDE DEF i, j
  <2>2. IsFiniteSet(i..j) /\ IsFiniteSet(S) /\ IsFiniteSet(1..n)
    BY <1>1, <2>1, FS_Interval
  <2>3. S \cap R = {} /\ S \cup R = 1..(a + n)
    BY <1>1
  <2>4. QED
    BY <2>2, <2>3 DEF i, j
<1>4. \A x \in S : u[x] = s[x]
  BY <1>1, <1>2
<1>5. /\ b \in [1..n -> R]
      /\ \A x, y \in 1..n : b[x] = b[y] => x = y
      /\ \A x \in 1..n : t[x] \in Int /\ u[b[x]] = t[x]
  BY <1>1, <1>2
<1>6. ASSUME NEW z \in R PROVE \E x \in 1..n : b[x] = z
  <2>1. z - a \in 1..n /\ b[z - a] = z
    BY <1>1
  <2>2. QED
    BY <2>1
<1>7. \A x \in S \cup R : u[x] \in Int
  <2>1. \A x \in S : u[x] \in Int
    BY <1>1, <1>4
  <2>2. ASSUME NEW z \in R PROVE u[z] \in Int
    <3>1. PICK x \in 1..n : b[x] = z
      BY <1>6
    <3> HIDE DEF b
    <3>2. QED
      BY <1>5, <3>1
  <2>3. QED
    BY <2>1, <2>2
<1>8. Total(u) = SumOver(u, S \cup R) /\ Total(s) = SumOver(s, S) /\ Total(t) = SumOver(t, 1..n)
  BY <1>1, <1>2, <1>3 DEF Total
<1> DEFINE N == 1..n
<1>9. /\ IsFiniteSet(N) /\ b \in [N -> R]
      /\ \A x, y \in N : b[x] = b[y] => x = y
      /\ \A z \in R : \E x \in N : b[x] = z
      /\ \A x \in N : t[x] \in Int /\ u[b[x]] = t[x]
  BY <1>3, <1>5, <1>6
<1>10. Total(t) = SumOver(t, N)
  BY <1>8
<1> HIDE DEF S, R, b, N
<1>11. SumOver(u, S \cup R) = SumOver(u, S) + SumOver(u, R)
  BY <1>3, <1>7, SumUnion
<1>12. SumOver(u, S) = SumOver(s, S)
  BY <1>3, <1>4, SumSame
<1>13. SumOver(u, R) = SumOver(t, N)
  BY <1>9, SumRenamed
<1>14. QED
  BY <1>8, <1>10, <1>11, <1>12, <1>13 DEF u

\* A total of costs is a cost.
LEMMA TotalType == ASSUME NEW s \in Seq(Nat) PROVE Total(s) \in Nat
<1> DEFINE zero == [k \in DOMAIN s |-> 0]
           S == DOMAIN s
<1>1. IsFiniteSet(S) /\ \A k \in S : s[k] \in Nat
  <2> DEFINE n == Len(s)
  <2>1. n \in Nat /\ S = 1..n /\ \A k \in S : s[k] \in Nat
    BY LenProperties
  <2> HIDE DEF n, S
  <2>2. IsFiniteSet(1..n)
    BY <2>1, FS_Interval
  <2>3. QED
    BY <2>1, <2>2
<1>2. \A k \in S : zero[k] = 0
  OBVIOUS
<1> HIDE DEF zero, S
<1>3. SumOver(zero, S) = 0
  BY <1>1, <1>2, SumZero
<1>4. SumOver(s, S) \in Int
  BY <1>1, SumType
<1>5. SumOver(zero, S) <= SumOver(s, S)
  BY <1>1, <1>2, SumMonotonic
<1>6. QED
  BY <1>3, <1>4, <1>5 DEF Total, S

\* n units at cost c cost n times c.
LEMMA TotalRepeated ==
  ASSUME NEW n \in Nat, NEW c \in Nat
  PROVE  Total([k \in 1..n |-> c]) = n * c
<1> DEFINE f == [k \in Nat |-> c]
           Bad == {k \in Nat : SumOver(f, 1..k) # k * c}
<1>1. Bad = {}
  <2> SUFFICES ASSUME Bad # {} PROVE FALSE
    OBVIOUS
  <2>1. PICK k \in Bad : \A j \in Bad : k <= j
    <3>1. Bad \subseteq Nat
      OBVIOUS
    <3> HIDE DEF Bad
    <3>2. QED
      BY <3>1, SmallestOf
  <2>2. k # 0
    <3>1. 1..0 = {} /\ 0 * c = 0
      OBVIOUS
    <3>2. SumOver(f, 1..0) = 0
      BY <3>1, SumEmpty
    <3>3. 0 \notin Bad
      BY <3>1, <3>2
    <3>4. QED
      BY <2>1, <3>3
  <2> DEFINE S == 1..(k - 1)
  <2>3. k - 1 \in Nat /\ k - 1 \notin Bad
    <3>1. k \in Nat
      BY <2>1
    <3> HIDE DEF Bad
    <3>2. QED
      BY <2>1, <2>2, <3>1
  <2>4. SumOver(f, S) = (k - 1) * c
    <3>1. k - 1 \in Nat /\ ~(SumOver(f, 1..(k - 1)) # (k - 1) * c)
      BY <2>3
    <3>2. QED
      BY <3>1
  <2>5. /\ IsFiniteSet(S) /\ k \notin S /\ f[k] \in Int /\ \A y \in S : f[y] \in Int
        /\ S \cup {k} = 1..k /\ f[k] = c
    <3> DEFINE j == k - 1
    <3>1. j \in Int
      BY <2>3
    <3> HIDE DEF j
    <3>2. IsFiniteSet(1..j)
      BY <3>1, FS_Interval
    <3>3. k \notin S /\ S \cup {k} = 1..k
      BY <2>3
    <3>4. f[k] = c /\ \A y \in S : f[y] = c
      BY <2>3
    <3>5. QED
      BY <3>2, <3>3, <3>4 DEF j
  <2> HIDE DEF S, f
  <2>6. SumOver(f, S \cup {k}) = SumOver(f, S) + f[k]
    <3>1. IsFiniteSet(S) /\ k \notin S /\ f[k] \in Int /\ \A y \in S : f[y] \in Int
      BY <2>5
    <3> HIDE DEF Bad
    <3>2. QED
      BY <3>1, SumAdd
  <2>7. (k - 1) * c + c = k * c
    BY <2>3
  <2>8. QED
    BY <2>1, <2>4, <2>5, <2>6, <2>7
<1> DEFINE N == 1..n
           u == [k \in N |-> c]
<1>2. IsFiniteSet(N) /\ (\A x \in N : u[x] = f[x]) /\ DOMAIN u = N
  BY FS_Interval
<1>3. SumOver(f, N) = n * c
  BY <1>1
<1> HIDE DEF N, u, f
<1>4. SumOver(u, N) = SumOver(f, N)
  BY <1>2, SumSame
<1>5. QED
  BY <1>2, <1>3, <1>4 DEF Total, u, N

LEMMA NotAfterCounts ==
  ASSUME NEW s \in Seq(Movement), NEW d \in Nat
  PROVE  /\ NotAfter(s, d) \in 0..Len(s)
         /\ NotAfter(s, d) = Len(s) <=> \A k \in 1..Len(s) : s[k].date <= d
<1> DEFINE n == Len(s)
           S == 1..n
           T == {k \in S : s[k].date <= d}
<1>1. n \in Nat /\ DOMAIN s = S
  BY LenProperties
<1>2. NotAfter(s, d) = Cardinality(T)
  BY <1>1 DEF NotAfter
<1>3. T \subseteq S /\ (T = S <=> \A k \in S : s[k].date <= d)
  OBVIOUS
<1> HIDE DEF n
<1>4. IsFiniteSet(S) /\ Cardinality(S) = n
  <2>1. IsFiniteSet(1..n)
    BY <1>1, FS_Interval
  <2>2. Cardinality(1..n) = IF 1 > n THEN 0 ELSE n - 1 + 1
    BY <1>1, FS_Interval
  <2>3. QED
    BY <1>1, <2>1, <2>2
<1> HIDE DEF S, T
<1>5. IsFiniteSet(T) /\ Cardinality(T) <= Cardinality(S) /\ (Cardinality(S) = Cardinality(T) => S = T)
  BY <1>3, <1>4, FS_Subset
<1>6. Cardinality(T) \in Nat
  BY <1>5, FS_CardinalityType
<1>7. Cardinality(T) = n <=> T = S
  BY <1>4, <1>5
<1>8. NotAfter(s, d) \in 0..n /\ (NotAfter(s, d) = n <=> T = S)
  BY <1>1, <1>2, <1>4, <1>5, <1>6, <1>7
<1>9. QED
  BY <1>3, <1>8 DEF n, S

\* The new movement is at its place, the others keep their order.
LEMMA InsertedAt ==
  ASSUME NEW s \in Seq(Movement), NEW m \in Movement
  PROVE  \E p \in 1..Len(s) + 1 :
           /\ p = NotAfter(s, m.date) + 1
           /\ Inserted(s, m) \in Seq(Movement)
           /\ Len(Inserted(s, m)) = Len(s) + 1
           /\ Inserted(s, m)[p] = m
           /\ \A k \in 1..Len(s) : Inserted(s, m)[IF k < p THEN k ELSE k + 1] = s[k]
<1> DEFINE n == Len(s)
           p == NotAfter(s, m.date) + 1
           a == SubSeq(s, 1, p - 1)
           e == <<m>>
           z == SubSeq(s, p, n)
<1>1. m.date \in Nat
  BY DEF Movement
<1>2. n \in Nat /\ \A k \in 1..n : s[k] \in Movement
  BY LenProperties
<1>3. p \in 1..n + 1
  <2>1. NotAfter(s, m.date) \in 0..n
    BY <1>1, NotAfterCounts
  <2>2. QED
    BY <1>2, <2>1
<1>4. Inserted(s, m) = (a \o e) \o z
  BY DEF Inserted, InsertAt
<1> HIDE DEF n, p
<1>5. /\ a \in Seq(Movement) /\ Len(a) = p - 1
      /\ \A i \in 1..p - 1 : a[i] = s[i]
  <2> DEFINE q == p - 1
  <2>1. q \in Int /\ q \in 0..n /\ \A i \in 1..q : s[i] \in Movement
    BY <1>2, <1>3
  <2> HIDE DEF q
  <2>2. /\ SubSeq(s, 1, q) \in Seq(Movement)
        /\ Len(SubSeq(s, 1, q)) = IF 1 <= q THEN q - 1 + 1 ELSE 0
        /\ \A i \in 1..q - 1 + 1 : SubSeq(s, 1, q)[i] = s[1 + i - 1]
    BY <2>1, SubSeqProperties
  <2>3. QED
    BY <2>1, <2>2 DEF q
<1>6. /\ z \in Seq(Movement) /\ Len(z) = n - p + 1
      /\ \A i \in 1..n - p + 1 : z[i] = s[p + i - 1]
  <2>1. p \in Int /\ n \in Int /\ \A i \in p..n : s[i] \in Movement
    BY <1>2, <1>3
  <2>2. /\ SubSeq(s, p, n) \in Seq(Movement)
        /\ Len(SubSeq(s, p, n)) = IF p <= n THEN n - p + 1 ELSE 0
        /\ \A i \in 1..n - p + 1 : SubSeq(s, p, n)[i] = s[p + i - 1]
    BY <2>1, SubSeqProperties
  <2>3. QED
    BY <1>2, <1>3, <2>2
<1>7. e \in Seq(Movement) /\ Len(e) = 1 /\ e[1] = m
  OBVIOUS
<1> HIDE DEF a, e, z
<1> DEFINE b == a \o e
<1>8. b \in Seq(Movement) /\ Len(b) = p /\ \A i \in 1..p : b[i] = IF i < p THEN s[i] ELSE m
  <2>1. /\ b \in Seq(Movement) /\ Len(b) = Len(a) + Len(e)
        /\ \A i \in 1..Len(a) + Len(e) : b[i] = IF i <= Len(a) THEN a[i] ELSE e[i - Len(a)]
    BY <1>5, <1>7, ConcatProperties
  <2>2. QED
    BY <1>3, <1>2, <1>5, <1>7, <2>1
<1> DEFINE t == b \o z
<1>9. Inserted(s, m) = t
  BY <1>4
<1> HIDE DEF b
<1>10. /\ t \in Seq(Movement) /\ Len(t) = n + 1
       /\ \A i \in 1..n + 1 : t[i] = IF i <= p THEN b[i] ELSE z[i - p]
  <2>1. /\ t \in Seq(Movement) /\ Len(t) = Len(b) + Len(z)
        /\ \A i \in 1..Len(b) + Len(z) : t[i] = IF i <= Len(b) THEN b[i] ELSE z[i - Len(b)]
    BY <1>6, <1>8, ConcatProperties
  <2>2. Len(b) + Len(z) = n + 1
    BY <1>2, <1>3, <1>6, <1>8
  <2>3. QED
    BY <1>8, <2>1, <2>2
<1> HIDE DEF t
<1>11. t[p] = m
  BY <1>2, <1>3, <1>8, <1>10
<1>12. ASSUME NEW k \in 1..n PROVE t[IF k < p THEN k ELSE k + 1] = s[k]
  <2>1. CASE k < p
    BY <1>2, <1>3, <1>8, <1>10, <2>1
  <2>2. CASE k >= p
    <3>1. k + 1 \in 1..n + 1 /\ ~(k + 1 <= p) /\ (k + 1) - p \in 1..n - p + 1 /\ p + ((k + 1) - p) - 1 = k
      BY <1>2, <1>3, <2>2
    <3>2. t[k + 1] = z[(k + 1) - p] /\ z[(k + 1) - p] = s[k]
      BY <1>6, <1>10, <3>1
    <3>3. ~(k < p)
      BY <1>3, <1>2, <2>2
    <3>4. QED
      BY <3>2, <3>3
  <2>3. QED
    BY <1>2, <1>3, <2>1, <2>2
<1>13. QED
  BY <1>3, <1>9, <1>10, <1>11, <1>12 DEF n, p

\* A movement of the last date comes last.
LEMMA InsertedLast ==
  ASSUME NEW s \in Seq(Movement), NEW m \in Movement, \A k \in 1..Len(s) : s[k].date <= m.date
  PROVE  /\ Inserted(s, m) = Append(s, m)
         /\ \A k \in 1..Len(s) + 1 : Append(s, m)[k].date <= m.date
<1> DEFINE n == Len(s)
           t == Inserted(s, m)
           u == Append(s, m)
<1>1. m.date \in Nat /\ n \in Nat
  BY LenProperties DEF Movement
<1>2. NotAfter(s, m.date) = n
  BY <1>1, NotAfterCounts
<1>3. /\ t \in Seq(Movement) /\ Len(t) = n + 1 /\ t[n + 1] = m
      /\ \A k \in 1..n : t[IF k < n + 1 THEN k ELSE k + 1] = s[k]
  <2>1. PICK p \in 1..n + 1 :
          /\ p = NotAfter(s, m.date) + 1
          /\ t \in Seq(Movement) /\ Len(t) = n + 1 /\ t[p] = m
          /\ \A k \in 1..n : t[IF k < p THEN k ELSE k + 1] = s[k]
    BY InsertedAt
  <2>2. p = n + 1
    BY <1>2, <2>1
  <2>3. QED
    BY <2>1, <2>2
<1>4. /\ u \in Seq(Movement) /\ Len(u) = n + 1 /\ u[n + 1] = m
      /\ \A k \in 1..n : u[k] = s[k]
  BY AppendProperties
<1> HIDE DEF n, t, u
<1>5. ASSUME NEW k \in 1..Len(t) PROVE t[k] = u[k]
  <2>1. CASE k = n + 1
    BY <1>3, <1>4, <2>1
  <2>2. CASE k # n + 1
    <3>1. k \in 1..n /\ k < n + 1
      BY <1>1, <1>3, <2>2
    <3>2. QED
      BY <1>3, <1>4, <3>1
  <2>3. QED
    BY <2>1, <2>2
<1>6. t = u
  BY <1>3, <1>4, <1>5, SeqEqual
<1>7. ASSUME NEW k \in 1..n + 1 PROVE u[k].date <= m.date
  <2>1. CASE k = n + 1
    BY <1>1, <1>4, <2>1
  <2>2. CASE k # n + 1
    <3>1. k \in 1..n
      BY <1>1, <2>2
    <3>2. QED
      BY <1>4, <3>1 DEF n
  <2>3. QED
    BY <2>1, <2>2
<1>8. QED
  BY <1>6, <1>7 DEF n, t, u

\* What a new movement adds to the balance and the worth of a row.
LEMMA SignedType ==
  ASSUME NEW m \in Movement
  PROVE  Signed(m, m.n) \in Int /\ Signed(m, m.cost) \in Int
BY DEF Signed, Movement

LEMMA SumsOfInserted ==
  ASSUME NEW s \in Seq(Movement), NEW m \in Movement
  PROVE  /\ Balance(Inserted(s, m)) = Balance(s) + Signed(m, m.n)
         /\ Worth(Inserted(s, m)) = Worth(s) + Signed(m, m.cost)
<1> DEFINE n == Len(s)
           t == Inserted(s, m)
<1>1. PICK p \in 1..n + 1 :
        /\ t \in Seq(Movement) /\ Len(t) = n + 1 /\ t[p] = m
        /\ \A k \in 1..n : t[IF k < p THEN k ELSE k + 1] = s[k]
  BY InsertedAt
<1> DEFINE S == 1..n
           N == 1..n + 1
           R == N \ {p}
           b == [k \in S |-> IF k < p THEN k ELSE k + 1]
<1>2. n \in Nat /\ DOMAIN s = S /\ \A k \in S : s[k] \in Movement
  BY LenProperties
<1>3. DOMAIN t = N
  BY <1>1, LenProperties
<1> HIDE DEF n, t
<1>4. IsFiniteSet(S) /\ IsFiniteSet(R)
  <2> DEFINE l == n + 1
  <2>1. IsFiniteSet(S) /\ IsFiniteSet(1..l)
    BY <1>2, FS_Interval
  <2>2. QED
    BY <2>1, FS_RemoveElement
<1>5. b \in [S -> R] /\ \A x, y \in S : b[x] = b[y] => x = y
  BY <1>2
<1>6. ASSUME NEW z \in R PROVE \E x \in S : b[x] = z
  <2>1. CASE z < p
    <3>1. z \in S /\ b[z] = z
      BY <1>2, <2>1
    <3>2. QED
      BY <3>1
  <2>2. CASE z > p
    <3>1. z - 1 \in S /\ b[z - 1] = z
      BY <1>2, <2>2
    <3>2. QED
      BY <3>1
  <2>3. QED
    BY <1>2, <2>1, <2>2
<1>7. \A k \in S : t[b[k]] = s[k]
  BY <1>1
<1>8. p \notin R /\ R \cup {p} = N /\ p \in N
  BY <1>1
<1> DEFINE Whole == IsFiniteSet(S) /\ IsFiniteSet(R) /\ p \notin R
           OneToOne == /\ b \in [S -> R] /\ \A x, y \in S : b[x] = b[y] => x = y
                       /\ \A z \in R : \E x \in S : b[x] = z
<1>9. Whole /\ OneToOne
  BY <1>4, <1>5, <1>6, <1>8
<1>10. \A k \in S : s[k] \in Movement /\ b[k] \in N
  BY <1>2, <1>5
<1>11. t[p] = m
  BY <1>1
<1> HIDE DEF S, N, R, b, Whole, OneToOne
<1>12. Balance(t) = Balance(s) + Signed(m, m.n)
  <2> DEFINE f == [k \in S |-> Signed(s[k], s[k].n)]
             g == [k \in N |-> Signed(t[k], t[k].n)]
  <2>1. \A k \in S : f[k] \in Int /\ g[b[k]] = f[k]
    BY <1>7, <1>10, SignedType
  <2>2. g[p] = Signed(m, m.n) /\ g[p] \in Int
    BY <1>8, <1>11, SignedType
  <2>3. Balance(t) = SumOver(g, N) /\ Balance(s) = SumOver(f, S)
    BY <1>2, <1>3 DEF Balance
  <2> HIDE DEF f, g
  <2>4. SumOver(g, R \cup {p}) = SumOver(f, S) + g[p]
    <3>1. /\ b \in [S -> R] /\ IsFiniteSet(S) /\ IsFiniteSet(R) /\ p \notin R /\ g[p] \in Int
          /\ \A x, y \in S : b[x] = b[y] => x = y
          /\ \A z \in R : \E x \in S : b[x] = z
          /\ \A x \in S : f[x] \in Int /\ g[b[x]] = f[x]
      BY <1>9, <2>1, <2>2 DEF Whole, OneToOne
    <3>2. QED
      BY <3>1, SumInserted
  <2>5. QED
    BY <1>8, <2>2, <2>3, <2>4
<1>13. Worth(t) = Worth(s) + Signed(m, m.cost)
  <2> DEFINE f == [k \in S |-> Signed(s[k], s[k].cost)]
             g == [k \in N |-> Signed(t[k], t[k].cost)]
  <2>1. \A k \in S : f[k] \in Int /\ g[b[k]] = f[k]
    BY <1>7, <1>10, SignedType
  <2>2. g[p] = Signed(m, m.cost) /\ g[p] \in Int
    BY <1>8, <1>11, SignedType
  <2>3. Worth(t) = SumOver(g, N) /\ Worth(s) = SumOver(f, S)
    BY <1>2, <1>3 DEF Worth
  <2> HIDE DEF f, g
  <2>4. SumOver(g, R \cup {p}) = SumOver(f, S) + g[p]
    <3>1. /\ b \in [S -> R] /\ IsFiniteSet(S) /\ IsFiniteSet(R) /\ p \notin R /\ g[p] \in Int
          /\ \A x, y \in S : b[x] = b[y] => x = y
          /\ \A z \in R : \E x \in S : b[x] = z
          /\ \A x \in S : f[x] \in Int /\ g[b[x]] = f[x]
      BY <1>9, <2>1, <2>2 DEF Whole, OneToOne
    <3>2. QED
      BY <3>1, SumInserted
  <2>5. QED
    BY <1>8, <2>2, <2>3, <2>4
<1>14. QED
  BY <1>12, <1>13 DEF t

LEMMA SumsType ==
  ASSUME NEW s \in Seq(Movement)
  PROVE  Balance(s) \in Int /\ Worth(s) \in Int
<1> DEFINE S == DOMAIN s
           f == [k \in S |-> Signed(s[k], s[k].n)]
           g == [k \in S |-> Signed(s[k], s[k].cost)]
<1>1. IsFiniteSet(S)
  <2> DEFINE n == Len(s)
  <2>1. n \in Nat /\ S = 1..n
    BY LenProperties
  <2> HIDE DEF n, S
  <2>2. IsFiniteSet(1..n)
    BY <2>1, FS_Interval
  <2>3. QED
    BY <2>1, <2>2
<1>2. \A k \in S : f[k] \in Int /\ g[k] \in Int
  BY LenProperties, SignedType
<1>3. Balance(s) = SumOver(f, S) /\ Worth(s) = SumOver(g, S)
  BY DEF Balance, Worth
<1> HIDE DEF S, f, g
<1>4. QED
  BY <1>1, <1>2, <1>3, SumType

LEMMA SumsOfNone == Balance(<<>>) = 0 /\ Worth(<<>>) = 0 /\ Total(<<>>) = 0
<1>1. DOMAIN <<>> = {}
  OBVIOUS
<1>2. QED
  BY <1>1, SumEmpty DEF Balance, Worth, Total

\* Goods in: n layers more, which cost what was booked when the unit cost is whole.
LEMMA LayersOfReceipt ==
  ASSUME NEW s \in Seq(Movement), NEW m \in Movement, m.in
  PROVE  /\ Layers(Append(s, m)) \in Seq(Nat)
         /\ Len(Layers(Append(s, m))) = Len(Layers(s)) + m.n
         /\ (\E u \in Nat : m.cost = m.n * u)
              => Total(Layers(Append(s, m))) = Total(Layers(s)) + m.cost
<1> DEFINE l == Layers(s)
<1>1. l \in Seq(Nat) /\ Layers(Append(s, m)) = Replay(l, m)
  BY LayersType, LayersAppend
<1>2. m.n \in Nat /\ m.cost \in Nat
  BY DEF Movement
<1> HIDE DEF l
<1>3. Replay(l, m) \in Seq(Nat) /\ Len(Replay(l, m)) = Len(l) + m.n
  BY <1>1, ReplayType
<1>4. ASSUME NEW u \in Nat, m.cost = m.n * u PROVE Total(Replay(l, m)) = Total(l) + m.cost
  <2> DEFINE new == [k \in 1..m.n |-> u]
             old == [k \in 1..m.n |-> m.cost \div m.n]
  <2>1. old = new
    <3>1. CASE m.n = 0
      <4>1. 1..m.n = {}
        BY <3>1
      <4>2. QED
        BY <4>1
    <3>2. CASE m.n > 0
      <4>1. (m.n * u) \div m.n = u
        BY <1>2, <3>2
      <4>2. QED
        BY <1>4, <4>1
    <3>3. QED
      BY <1>2, <3>1, <3>2
  <2>2. new \in Seq(Nat) /\ Total(new) = m.n * u
    BY <1>2, Repeated, TotalRepeated
  <2>3. Replay(l, m) = l \o new
    BY <2>1 DEF Replay
  <2> HIDE DEF new
  <2>4. QED
    BY <1>1, <1>4, <2>2, <2>3, TotalConcat
<1>5. QED
  BY <1>1, <1>3, <1>4 DEF l

\* Goods out: the oldest n layers less.
LEMMA LayersOfIssue ==
  ASSUME NEW s \in Seq(Movement), NEW m \in Movement, ~m.in, m.n <= Len(Layers(s))
  PROVE  /\ Layers(Append(s, m)) \in Seq(Nat)
         /\ Len(Layers(Append(s, m))) = Len(Layers(s)) - m.n
         /\ Total(Layers(Append(s, m))) = Total(Layers(s)) - Total(SubSeq(Layers(s), 1, m.n))
<1> DEFINE l == Layers(s)
           n == m.n
<1>1. l \in Seq(Nat) /\ Layers(Append(s, m)) = Replay(l, m)
  BY LayersType, LayersAppend
<1>2. n \in Nat /\ n <= Len(l) /\ Len(l) \in Nat
  BY <1>1, LenProperties DEF Movement
<1> HIDE DEF l
<1>3. Replay(l, m) \in Seq(Nat) /\ Len(Replay(l, m)) = Len(l) - n
  BY <1>1, <1>2, ReplayType
<1>4. Replay(l, m) = SubSeq(l, n + 1, Len(l))
  <2>1. Lesser(n, Len(l)) = n
    BY <1>2 DEF Lesser
  <2>2. QED
    BY <2>1 DEF Replay
<1> HIDE DEF n
<1> DEFINE a == SubSeq(l, 1, n)
           z == SubSeq(l, n + 1, Len(l))
<1>5. a \in Seq(Nat)
  <2>1. \A i \in 1..n : l[i] \in Nat
    BY <1>1, <1>2, LenProperties
  <2>2. QED
    BY <1>2, <2>1, SubSeqProperties
<1>6. a \o z = l
  <2> DEFINE j == Len(l)
  <2>1. 1 \in 1..j + 1 /\ n \in 1 - 1..j /\ j \in n..j
    BY <1>2
  <2>2. SubSeq(l, 1, n) \o SubSeq(l, n + 1, j) = SubSeq(l, 1, j)
    BY <1>1, <2>1, ConcatAdjacentSubSeq
  <2>3. SubSeq(l, 1, j) = l
    BY <1>1, SubSeqFull
  <2>4. QED
    BY <2>2, <2>3
<1>7. z \in Seq(Nat)
  BY <1>3, <1>4
<1> HIDE DEF a, z
<1>8. Total(l) = Total(a) + Total(z) /\ Total(a) \in Nat /\ Total(z) \in Nat
  BY <1>5, <1>6, <1>7, TotalConcat, TotalType
<1>9. Replay(l, m) = z
  BY <1>4 DEF z
<1>10. Total(z) = Total(l) - Total(a)
  BY <1>8
<1>11. Total(Replay(l, m)) = Total(l) - Total(SubSeq(l, 1, n))
  BY <1>9, <1>10 DEF a
<1>12. QED
  BY <1>1, <1>3, <1>11 DEF l, n

-----------------------------------------------------------------------------
\* What all rows are worth by their movements, and by their layers.
WorthOf(mv) == SumOver([w \in Warehouses |-> Worth(mv[w])], Warehouses)
CostOf(mv) == SumOver([w \in Warehouses |-> Total(Layers(mv[w]))], Warehouses)

LEMMA OneRow ==
  ASSUME NEW mv \in [Warehouses -> Seq(Movement)], NEW w \in Warehouses, NEW t \in Seq(Movement)
  PROVE  /\ [mv EXCEPT ![w] = t] \in [Warehouses -> Seq(Movement)]
         /\ WorthOf(mv) \in Int /\ CostOf(mv) \in Int
         /\ WorthOf([mv EXCEPT ![w] = t]) = WorthOf(mv) + Worth(t) - Worth(mv[w])
         /\ CostOf([mv EXCEPT ![w] = t]) = CostOf(mv) + Total(Layers(t)) - Total(Layers(mv[w]))
<1> DEFINE nv == [mv EXCEPT ![w] = t]
           S == Warehouses
<1>1. IsFiniteSet(S) /\ w \in S
  BY StockAssumption
<1>2. nv \in [S -> Seq(Movement)] /\ nv[w] = t /\ \A v \in S \ {w} : nv[v] = mv[v]
  OBVIOUS
<1>3. \A u \in Seq(Movement) : Worth(u) \in Int /\ Total(Layers(u)) \in Int
  <2> TAKE u \in Seq(Movement)
  <2>1. Worth(u) \in Int
    BY SumsType
  <2>2. Layers(u) \in Seq(Nat)
    BY LayersType
  <2>3. Total(Layers(u)) \in Nat
    BY <2>2, TotalType
  <2>4. QED
    BY <2>1, <2>3
<1> HIDE DEF nv
<1>4. WorthOf(mv) \in Int /\ WorthOf(nv) = WorthOf(mv) + Worth(t) - Worth(mv[w])
  <2> DEFINE f == [v \in S |-> Worth(mv[v])]
             g == [v \in S |-> Worth(nv[v])]
  <2>1. /\ \A v \in S : f[v] \in Int /\ g[v] \in Int
        /\ \A v \in S \ {w} : g[v] = f[v]
        /\ f[w] = Worth(mv[w]) /\ g[w] = Worth(t)
    BY <1>2, <1>3
  <2>2. WorthOf(mv) = SumOver(f, S) /\ WorthOf(nv) = SumOver(g, S)
    BY DEF WorthOf
  <2> HIDE DEF f, g, S
  <2>3. /\ IsFiniteSet(S) /\ w \in S /\ \A v \in S : f[v] \in Int /\ g[v] \in Int
        /\ \A v \in S \ {w} : g[v] = f[v]
    BY <1>1, <2>1
  <2>4. SumOver(g, S) = SumOver(f, S) + g[w] - f[w]
    BY <2>3, SumChange
  <2>5. SumOver(f, S) \in Int
    BY <2>3, SumType
  <2>6. QED
    BY <2>1, <2>2, <2>4, <2>5
<1>5. CostOf(mv) \in Int /\ CostOf(nv) = CostOf(mv) + Total(Layers(t)) - Total(Layers(mv[w]))
  <2> DEFINE f == [v \in S |-> Total(Layers(mv[v]))]
             g == [v \in S |-> Total(Layers(nv[v]))]
  <2>1. /\ \A v \in S : f[v] \in Int /\ g[v] \in Int
        /\ \A v \in S \ {w} : g[v] = f[v]
        /\ f[w] = Total(Layers(mv[w])) /\ g[w] = Total(Layers(t))
    BY <1>2, <1>3
  <2>2. CostOf(mv) = SumOver(f, S) /\ CostOf(nv) = SumOver(g, S)
    BY DEF CostOf
  <2> HIDE DEF f, g, S
  <2>3. /\ IsFiniteSet(S) /\ w \in S /\ \A v \in S : f[v] \in Int /\ g[v] \in Int
        /\ \A v \in S \ {w} : g[v] = f[v]
    BY <1>1, <2>1
  <2>4. SumOver(g, S) = SumOver(f, S) + g[w] - f[w]
    BY <2>3, SumChange
  <2>5. SumOver(f, S) \in Int
    BY <2>3, SumType
  <2>6. QED
    BY <2>1, <2>2, <2>4, <2>5
<1>6. QED
  BY <1>2, <1>4, <1>5 DEF nv, S

LEMMA WorthOfType ==
  ASSUME NEW mv \in [Warehouses -> Seq(Movement)]
  PROVE  WorthOf(mv) \in Int
<1> DEFINE f == [w \in Warehouses |-> Worth(mv[w])]
<1>1. IsFiniteSet(Warehouses)
  BY StockAssumption
<1>2. \A w \in Warehouses : f[w] \in Int
  BY SumsType
<1>3. WorthOf(mv) = SumOver(f, Warehouses)
  BY DEF WorthOf
<1> HIDE DEF f
<1>4. QED
  BY <1>1, <1>2, <1>3, SumType

\* A movement entered in one row.
LEMMA OneMovement ==
  ASSUME NEW mv \in [Warehouses -> Seq(Movement)], NEW w \in Warehouses, NEW m \in Movement
  PROVE  /\ Inserted(mv[w], m) \in Seq(Movement)
         /\ [mv EXCEPT ![w] = Inserted(mv[w], m)] \in [Warehouses -> Seq(Movement)]
         /\ WorthOf(mv) \in Int
         /\ WorthOf([mv EXCEPT ![w] = Inserted(mv[w], m)]) = WorthOf(mv) + Signed(m, m.cost)
<1> DEFINE t == Inserted(mv[w], m)
<1>1. t \in Seq(Movement) /\ mv[w] \in Seq(Movement)
  BY InsertedAt
<1>2. Worth(t) = Worth(mv[w]) + Signed(m, m.cost)
  BY <1>1, SumsOfInserted
<1>3. Worth(mv[w]) \in Int /\ Signed(m, m.cost) \in Int
  BY <1>1, SumsType, SignedType
<1> HIDE DEF t
<1>4. /\ WorthOf(mv) \in Int
      /\ [mv EXCEPT ![w] = t] \in [Warehouses -> Seq(Movement)]
      /\ WorthOf([mv EXCEPT ![w] = t]) = WorthOf(mv) + Worth(t) - Worth(mv[w])
  BY <1>1, OneRow
<1>5. WorthOf([mv EXCEPT ![w] = t]) = WorthOf(mv) + Signed(m, m.cost)
  BY <1>2, <1>3, <1>4
<1>6. QED
  BY <1>1, <1>4, <1>5 DEF t

LEMMA WorthOfNone ==
  ASSUME NEW mv, mv = [w \in Warehouses |-> <<>>]
  PROVE  WorthOf(mv) = 0 /\ CostOf(mv) = 0
<1> DEFINE f == [w \in Warehouses |-> Worth(mv[w])]
           g == [w \in Warehouses |-> Total(Layers(mv[w]))]
<1>1. \A w \in Warehouses : f[w] = 0 /\ g[w] = 0
  BY NoLayers, SumsOfNone
<1>2. WorthOf(mv) = SumOver(f, Warehouses) /\ CostOf(mv) = SumOver(g, Warehouses)
  BY DEF WorthOf, CostOf
<1>3. IsFiniteSet(Warehouses)
  BY StockAssumption
<1> HIDE DEF f, g
<1>4. SumOver(f, Warehouses) = 0 /\ SumOver(g, Warehouses) = 0
  BY <1>1, <1>3, SumZero
<1>5. QED
  BY <1>2, <1>4

-----------------------------------------------------------------------------
\* A request names what exists: documents and invoices that are written, goods of this
\* world.  The draft or the invoice it is about keeps its kind, its warehouse and its date.
Asked(r, docs, sales) ==
  /\ r.op \in Requests /\ r.from \in Warehouses /\ r.date \in Nat /\ r.n \in Int
  /\ r.op \in {"BUY", "IN", "APPROVE"} => r.price \in Nat
  /\ r.op \in {"BUY", "IN", "OUT", "SALE", "MOVE", "RELEASE"} => r.n \in Nat \ {0}
  /\ r.op \in {"MOVE", "RELEASE"} => r.to \in Warehouses /\ r.to # r.from
  /\ r.op = "MOVE" => r.n = 1
  /\ r.op = "RELEASE" => r.id \in Recipes
  /\ r.op = "SALE" => r.id \in Invoices /\ sales[r.id].made \in Nat
  /\ r.op \in {"POST", "APPROVE"} =>
       /\ r.id \in Docs /\ docs[r.id].st # "NONE" /\ docs[r.id].wh = r.from
       /\ r.op = "APPROVE" <=> docs[r.id].kind = "AUDIT"

At(p, r, docs, sales) ==
  /\ p # "idle" => Asked(r, docs, sales)
  /\ p = "again" => r.op = "POST"
  /\ p \in {"target", "target2"} => r.op \in {"MOVE", "RELEASE"}
  /\ p = "commit" => r.op \notin {"MOVE", "RELEASE"}

Written(docs) == \A d \in Docs : docs[d].st # "NONE" => docs[d].wh \in Warehouses

TypeInv ==
  /\ TypeOK
  /\ Written(doc)
  /\ req = [c \in Clients |-> req[c]]
  /\ \A c \in Clients : At(pc[c], req[c], doc, sale)

\* What requests rely on is not taken back.
Kept(docs, docs2, sales, sales2) ==
  /\ \A d \in Docs : docs[d].st # "NONE" =>
       docs2[d].st # "NONE" /\ docs2[d].wh = docs[d].wh /\ docs2[d].kind = docs[d].kind
  /\ \A i \in Invoices : sales[i].made \in Nat => sales2[i].made \in Nat

LEMMA AtKept ==
  ASSUME NEW p, NEW r, NEW docs, NEW docs2, NEW sales, NEW sales2,
         At(p, r, docs, sales), Kept(docs, docs2, sales, sales2)
  PROVE  At(p, r, docs2, sales2)
<1>1. Asked(r, docs, sales) => Asked(r, docs2, sales2)
  BY DEF Kept, Asked
<1>2. QED
  BY <1>1 DEF At

LEMMA MoveType ==
  ASSUME NEW delta \in Int, NEW cost \in Nat, NEW date \in Nat
  PROVE  /\ MoveOf(delta, cost, date) \in Movement
         /\ MoveOf(delta, cost, date).in = (delta > 0)
         /\ MoveOf(delta, cost, date).n = Abs(delta)
         /\ MoveOf(delta, cost, date).cost = cost
         /\ MoveOf(delta, cost, date).date = date
BY DEF MoveOf, Movement, Abs

LEMMA IssueCostsType ==
  ASSUME TypeOK, NEW w \in Warehouses, NEW n \in Nat, NEW x \in IssueCosts(w, n)
  PROVE  x \in Nat
<1> DEFINE layers == IF Fifo THEN Layers(moves[w]) ELSE <<>>
           covered == Lesser(n, Len(layers))
           oldest == SubSeq(layers, 1, covered)
<1>1. moves[w] \in Seq(Movement)
  BY DEF TypeOK
<1>2. layers \in Seq(Nat)
  <2>1. Layers(moves[w]) \in Seq(Nat)
    BY <1>1, LayersType
  <2>2. QED
    BY <2>1
<1>3. PICK p \in Prices : x = Total(oldest) + (n - covered) * p
  BY DEF IssueCosts
<1> HIDE DEF layers
<1>4. covered \in 0..n /\ covered <= Len(layers) /\ Len(layers) \in Nat
  BY <1>2, LenProperties DEF Lesser
<1>5. oldest \in Seq(Nat)
  <2>1. \A i \in 1..covered : layers[i] \in Nat
    BY <1>2, <1>4, LenProperties
  <2> HIDE DEF covered
  <2>2. QED
    BY <1>4, <2>1, SubSeqProperties
<1> HIDE DEF covered, oldest
<1>6. Total(oldest) \in Nat
  BY <1>5, TotalType
<1>7. p \in Nat /\ n - covered \in Nat
  BY <1>4, StockAssumption
<1>8. (n - covered) * p \in Nat
  BY <1>7
<1>9. QED
  BY <1>3, <1>6, <1>8

LEMMA DateType ==
  ASSUME TypeInv, NEW c \in Clients, pc[c] # "idle"
  PROVE  DateOf(req[c]) \in Nat
<1>1. Asked(req[c], doc, sale) /\ doc \in [Docs -> Doc]
  BY DEF TypeInv, TypeOK, At
<1>2. CASE req[c].op \in {"POST", "APPROVE"}
  BY <1>1, <1>2 DEF DateOf, Asked, Doc
<1>3. CASE req[c].op = "SALE"
  BY <1>1, <1>3 DEF DateOf, Asked
<1>4. CASE req[c].op \notin {"POST", "APPROVE", "SALE"}
  BY <1>1, <1>4 DEF DateOf, Asked
<1>5. QED
  BY <1>2, <1>3, <1>4

-----------------------------------------------------------------------------
LEMMA InitTyped == Init => TypeInv
<1> SUFFICES ASSUME Init PROVE TypeInv
  OBVIOUS
<1>1. TypeOK
  <2>1. today \in 0..MaxDate /\ qty \in [Warehouses -> Int] /\ account \in Int /\ disordered \in BOOLEAN
    <3>1. MaxDate \in Nat
      BY StockAssumption
    <3>2. today = 0 /\ account = 0 /\ disordered = FALSE /\ qty = [w \in Warehouses |-> 0]
      BY DEF Init
    <3>3. today \in 0..MaxDate
      BY <3>1, <3>2
    <3>4. qty \in [Warehouses -> Int] /\ account \in Int
      BY <3>2
    <3>5. disordered \in BOOLEAN
      BY <3>2
    <3>6. QED
      BY <3>3, <3>4, <3>5
  <2>2. moves \in [Warehouses -> Seq(Movement)]
    BY DEF Init
  <2>3. sale \in [Invoices -> [made : Nat \cup {None}, settled : BOOLEAN]]
    BY DEF Init
  <2>4. doc \in [Docs -> Doc]
    BY DEF Init, Doc, NoDoc
  <2>5. pc \in [Clients -> {"idle", "stock", "target", "target2", "again", "commit"}]
    BY DEF Init
  <2>6. work \in [Clients -> Work]
    BY DEF Init, Work, NoWork
  <2>7. QED
    BY <2>1, <2>2, <2>3, <2>4, <2>5, <2>6 DEF TypeOK
<1>2. Written(doc)
  BY DEF Init, NoDoc, Written
<1>3. req = [c \in Clients |-> req[c]] /\ \A c \in Clients : At(pc[c], req[c], doc, sale)
  BY DEF Init, At
<1>4. QED
  BY <1>1, <1>2, <1>3 DEF TypeInv

\* Documents and invoices are written by nobody's transaction.
LEMMA DocumentsTyped ==
  ASSUME TypeInv, Document
  PROVE  TypeInv' /\ Kept(doc, doc', sale, sale') /\ pc' = pc /\ req' = req
<1> USE DEF TypeInv, TypeOK
<1>0. today \in Nat /\ 0..MaxDate \subseteq Nat /\ Quantities \subseteq Nat /\ Prices \subseteq Nat
  BY StockAssumption
<1>1. ASSUME NEW i \in Invoices, CreateInvoice(i)
      PROVE  /\ sale' \in [Invoices -> [made : Nat \cup {None}, settled : BOOLEAN]] /\ doc' = doc
             /\ \A j \in Invoices : sale[j].made \in Nat => sale'[j].made \in Nat
             /\ UNCHANGED <<today, qty, moves, account, pc, req, work, disordered>>
  <2>1. QED
    BY <1>0, <1>1 DEF CreateInvoice
<1>2. ASSUME NEW d \in Docs, NEW kind \in Kinds, NEW w \in Warehouses, NEW fact \in {0} \cup Quantities,
             NEW p \in Prices, NEW date \in 0..MaxDate, CreateDoc(d, kind, w, fact, p, date)
      PROVE  /\ doc' \in [Docs -> Doc] /\ sale' = sale /\ Written(doc')
             /\ \A e \in Docs : doc[e].st # "NONE" => doc'[e] = doc[e]
             /\ UNCHANGED <<today, qty, moves, account, pc, req, work, disordered>>
  <2> DEFINE n == [st |-> "DRAFT", kind |-> kind, wh |-> w, fact |-> fact, system |-> qty[w],
                   price |-> IF kind = "AUDIT" THEN p ELSE 0, date |-> date]
  <2>1. n \in Doc /\ n.wh = w
    BY <1>0 DEF Doc
  <2>2. doc' = [doc EXCEPT ![d] = n] /\ doc[d].st = "NONE" /\ sale' = sale
        /\ UNCHANGED <<today, qty, moves, account, pc, req, work, disordered>>
    BY <1>2 DEF CreateDoc
  <2> HIDE DEF n
  <2>3. QED
    BY <2>1, <2>2 DEF Written
<1>3. ASSUME NEW d \in Docs, NEW fact \in {0} \cup Quantities, PatchLine(d, fact)
      PROVE  /\ doc' \in [Docs -> Doc] /\ sale' = sale
             /\ \A e \in Docs : /\ doc'[e].st = doc[e].st /\ doc'[e].wh = doc[e].wh
                                /\ doc'[e].kind = doc[e].kind
             /\ UNCHANGED <<today, qty, moves, account, pc, req, work, disordered>>
  <2>1. fact \in Nat /\ doc[d] \in Doc
    BY <1>0
  <2> DEFINE n == [doc[d] EXCEPT !.fact = fact]
  <2>2. n \in Doc /\ n.st = doc[d].st /\ n.wh = doc[d].wh /\ n.kind = doc[d].kind
    BY <2>1 DEF Doc
  <2>3. doc' = [doc EXCEPT ![d] = n] /\ sale' = sale
        /\ UNCHANGED <<today, qty, moves, account, pc, req, work, disordered>>
    BY <1>3 DEF PatchLine
  <2> HIDE DEF n
  <2>4. QED
    BY <2>2, <2>3
<1>4. ASSUME NEW d \in Docs, SyncSystem(d)
      PROVE  /\ doc' \in [Docs -> Doc] /\ sale' = sale
             /\ \A e \in Docs : /\ doc'[e].st = doc[e].st /\ doc'[e].wh = doc[e].wh
                                /\ doc'[e].kind = doc[e].kind
             /\ UNCHANGED <<today, qty, moves, account, pc, req, work, disordered>>
  <2>1. doc[d].st # "NONE" /\ qty[doc[d].wh] \in Int
    BY <1>4 DEF SyncSystem, Written
  <2>2. QED
    BY <1>4, <2>1 DEF SyncSystem, Doc
<1>5. /\ doc' \in [Docs -> Doc] /\ sale' \in [Invoices -> [made : Nat \cup {None}, settled : BOOLEAN]]
      /\ Written(doc') /\ Kept(doc, doc', sale, sale')
      /\ UNCHANGED <<today, qty, moves, account, pc, req, work, disordered>>
  BY <1>1, <1>2, <1>3, <1>4 DEF Document, Written, Kept
<1>6. \A c \in Clients : At(pc[c], req[c], doc', sale')
  BY <1>5, AtKept
<1>7. QED
  BY <1>5, <1>6

\* A client's own step that leaves documents, invoices and the other clients alone.
LEMMA ClientTyped ==
  ASSUME NEW c \in Clients, NEW p, NEW r, TypeInv,
         p \in {"idle", "stock", "target", "target2", "again", "commit"},
         pc' = [pc EXCEPT ![c] = p], req' = [req EXCEPT ![c] = r], TypeOK', Written(doc'),
         Kept(doc, doc', sale, sale'), At(p, r, doc', sale')
  PROVE  TypeInv'
<1>1. pc \in [Clients -> {"idle", "stock", "target", "target2", "again", "commit"}] /\ req = [e \in Clients |-> req[e]]
  BY DEF TypeInv, TypeOK
<1>2. req' = [e \in Clients |-> req'[e]] /\ pc'[c] = p /\ req'[c] = r
      /\ \A e \in Clients \ {c} : pc'[e] = pc[e] /\ req'[e] = req[e]
  BY <1>1
<1>3. ASSUME NEW e \in Clients \ {c} PROVE At(pc[e], req[e], doc', sale')
  <2>1. At(pc[e], req[e], doc, sale)
    BY DEF TypeInv
  <2>2. QED
    BY <2>1, AtKept
<1>4. \A e \in Clients : At(pc'[e], req'[e], doc', sale')
  BY <1>2, <1>3
<1>5. QED
  BY <1>2, <1>4 DEF TypeInv

-----------------------------------------------------------------------------
(* Accepting a request, the reads of its transaction, and its end without effect. *)

LEMMA SaleOrDocKept == Kept(doc, doc, sale, sale)
BY DEF Kept

\* The requests a client may be given.
LEMMA AcceptTyped ==
  ASSUME TypeInv, NEW c \in Clients, Request(c)
  PROVE  TypeInv' /\ UNCHANGED <<today, qty, moves, account, sale, doc, work, disordered>>
<1>0. /\ today \in Nat /\ None \notin Docs \cup Invoices \cup Warehouses
      /\ Quantities \subseteq Nat \ {0} /\ Prices \subseteq Nat \ {0} /\ Receiving \subseteq Warehouses
      /\ Need \in [Invoices -> Nat \ {0}] /\ From \in [Invoices -> Warehouses]
      /\ Recipes \subseteq [of : Warehouses, takes : Nat \ {0}, makes : Warehouses, returns : Nat]
      /\ \A r \in Recipes : r.of # r.makes
      /\ sale \in [Invoices -> [made : Nat \cup {None}, settled : BOOLEAN]]
      /\ doc \in [Docs -> Doc] /\ Written(doc)
  BY StockAssumption DEF TypeInv, TypeOK
<1>1. PICK r : Accept(c, r) /\ (r.op \in Requests => Asked(r, doc, sale))
  <2>1. ASSUME NEW op \in {"BUY", "IN"}, NEW w \in Receiving, NEW n \in Quantities, NEW p \in Prices
        PROVE  Ask(op, w, None, n, p, None).op \in Requests => Asked(Ask(op, w, None, n, p, None), doc, sale)
    BY <1>0 DEF Ask, Asked
  <2>2. ASSUME NEW w \in Warehouses, NEW n \in Quantities
        PROVE  Ask("OUT", w, None, n, 0, None).op \in Requests => Asked(Ask("OUT", w, None, n, 0, None), doc, sale)
    BY <1>0 DEF Ask, Asked
  <2>3. ASSUME NEW r \in Recipes
        PROVE  Ask("RELEASE", r.of, r.makes, r.takes, 0, r).op \in Requests
                 => Asked(Ask("RELEASE", r.of, r.makes, r.takes, 0, r), doc, sale)
    BY <1>0 DEF Ask, Asked
  <2>4. ASSUME NEW w \in Warehouses, NEW v \in Warehouses, w # v
        PROVE  Ask("MOVE", w, v, 1, 0, None).op \in Requests => Asked(Ask("MOVE", w, v, 1, 0, None), doc, sale)
    BY <1>0, <2>4 DEF Ask, Asked
  <2>5. ASSUME NEW i \in Invoices, sale[i].made # None
        PROVE  Ask("SALE", From[i], None, Need[i], 0, i).op \in Requests
                 => Asked(Ask("SALE", From[i], None, Need[i], 0, i), doc, sale)
    <3>1. sale[i].made \in Nat /\ From[i] \in Warehouses /\ Need[i] \in Nat \ {0}
      BY <1>0, <2>5
    <3>2. QED
      BY <1>0, <3>1 DEF Ask, Asked
  <2>6. ASSUME NEW d \in Docs, doc[d].st = "DRAFT", doc[d].kind = "AUDIT"
        PROVE  Ask("APPROVE", doc[d].wh, None, doc[d].fact - doc[d].system, doc[d].price, d).op \in Requests
                 => Asked(Ask("APPROVE", doc[d].wh, None, doc[d].fact - doc[d].system, doc[d].price, d), doc, sale)
    <3>1. /\ doc[d].wh \in Warehouses /\ doc[d].fact - doc[d].system \in Int /\ doc[d].price \in Nat
          /\ doc[d].st # "NONE"
      BY <1>0, <2>6 DEF Doc, Written
    <3>2. QED
      BY <1>0, <2>6, <3>1 DEF Ask, Asked
  <2>7. ASSUME NEW d \in Docs, doc[d].st = "DRAFT", doc[d].kind # "AUDIT"
        PROVE  Ask("POST", doc[d].wh, None, 0, 0, d).op \in Requests
                 => Asked(Ask("POST", doc[d].wh, None, 0, 0, d), doc, sale)
    <3>1. doc[d].wh \in Warehouses /\ doc[d].st # "NONE"
      BY <1>0, <2>7 DEF Doc, Written
    <3>2. QED
      BY <1>0, <2>7, <3>1 DEF Ask, Asked
  <2>8. QED
    BY <2>1, <2>2, <2>3, <2>4, <2>5, <2>6, <2>7 DEF Request
<1>2. /\ pc' = [pc EXCEPT ![c] = "stock"] /\ req' = [req EXCEPT ![c] = r]
      /\ UNCHANGED <<today, qty, moves, account, sale, doc, work, disordered>>
      /\ r.op \in Requests
  BY <1>1 DEF Accept
<1>3. At("stock", r, doc, sale)
  BY <1>1, <1>2 DEF At
<1>4. TypeOK' /\ Written(doc') /\ Kept(doc, doc', sale, sale') /\ At("stock", r, doc', sale')
  BY <1>2, <1>3, SaleOrDocKept DEF TypeInv, TypeOK
<1> DEFINE p == "stock"
<1>5. p \in {"idle", "stock", "target", "target2", "again", "commit"} /\ pc' = [pc EXCEPT ![c] = p]
      /\ At(p, r, doc', sale')
  BY <1>2, <1>4
<1> HIDE DEF p
<1>6. /\ TypeInv /\ p \in {"idle", "stock", "target", "target2", "again", "commit"}
      /\ pc' = [pc EXCEPT ![c] = p] /\ req' = [req EXCEPT ![c] = r] /\ TypeOK' /\ Written(doc')
      /\ Kept(doc, doc', sale, sale') /\ At(p, r, doc', sale')
  BY <1>2, <1>4, <1>5
<1>7. TypeInv'
  BY <1>6, ClientTyped
<1>8. QED
  BY <1>2, <1>7

\* The reads: only what the client has read, and where it is, changes.
ReadStep(c) == ReadReceipt(c) \/ ReadIssue(c) \/ ReadTarget(c) \/ ReadCount(c) \/ ReadAgain(c) \/ ReadDifference(c)

LEMMA RequestOf ==
  ASSUME TypeInv, NEW c \in Clients, pc[c] # "idle"
  PROVE  Asked(req[c], doc, sale) /\ At(pc[c], req[c], doc, sale) /\ work[c] \in Work
         /\ req[c].from \in Warehouses /\ qty[req[c].from] \in Int
BY DEF TypeInv, TypeOK, At, Asked

LEMMA ReadTyped ==
  ASSUME TypeInv, NEW c \in Clients, ReadStep(c)
  PROVE  /\ TypeInv'
         /\ UNCHANGED <<today, qty, moves, account, sale, doc, req, disordered>>
         /\ work' \in [Clients -> Work]
         /\ \A e \in Clients \ {c} : work'[e] = work[e] /\ pc'[e] = pc[e]
<1> DEFINE r == req[c]
<1>0. work \in [Clients -> Work] /\ pc \in [Clients -> {"idle", "stock", "target", "target2", "again", "commit"}]
      /\ qty \in [Warehouses -> Int] /\ TypeOK /\ Prices \subseteq Nat
  BY StockAssumption DEF TypeInv, TypeOK
<1>1. pc[c] # "idle"
  BY DEF ReadStep, ReadReceipt, ReadIssue, ReadTarget, ReadCount, ReadAgain, ReadDifference
<1>2. Asked(r, doc, sale) /\ At(pc[c], r, doc, sale) /\ work[c] \in Work /\ r.from \in Warehouses
      /\ qty[r.from] \in Int
  BY <1>1, RequestOf
<1>3. \E p \in {"target", "target2", "again", "commit"}, x \in Work :
        /\ pc' = [pc EXCEPT ![c] = p] /\ work' = [work EXCEPT ![c] = x] /\ At(p, r, doc, sale)
        /\ UNCHANGED <<today, qty, moves, account, sale, doc, req, disordered>>
  <2>1. CASE ReadReceipt(c)
    <3> DEFINE x == [qty |-> qty[r.from], delta |-> r.n, cost |-> r.n * r.price, other |-> 0]
    <3>1. r.op \in {"BUY", "IN"} /\ r.n \in Nat /\ r.price \in Nat
      BY <1>2, <2>1 DEF ReadReceipt, Asked
    <3>2. x \in Work
      <4>1. r.n * r.price \in Nat
        BY <3>1
      <4>2. QED
        BY <1>2, <3>1, <4>1 DEF Work
    <3>3. At("commit", r, doc, sale)
      BY <1>2, <3>1 DEF At
    <3>4. /\ pc' = [pc EXCEPT ![c] = "commit"] /\ work' = [work EXCEPT ![c] = x]
          /\ UNCHANGED <<today, qty, moves, account, sale, doc, req, disordered>>
      BY <2>1 DEF ReadReceipt
    <3> HIDE DEF x, r
    <3>5. QED
      BY <3>2, <3>3, <3>4
  <2>2. CASE ReadIssue(c)
    <3>1. PICK x \in IssueCosts(r.from, r.n) :
            work' = [work EXCEPT ![c] = [qty |-> qty[r.from], delta |-> -r.n, cost |-> x, other |-> 0]]
      BY <2>2 DEF ReadIssue
    <3>2. r.op \in {"SALE", "OUT", "MOVE", "RELEASE"} /\ r.n \in Nat
      BY <1>2, <2>2 DEF ReadIssue, Asked
    <3>3. x \in Nat
      BY <1>0, <1>2, <3>2, IssueCostsType
    <3> DEFINE y == [qty |-> qty[r.from], delta |-> -r.n, cost |-> x, other |-> 0]
               p == IF r.op \in {"MOVE", "RELEASE"} THEN "target" ELSE "commit"
    <3>4. y \in Work
      BY <1>2, <3>2, <3>3 DEF Work
    <3>5. p \in {"target", "target2", "again", "commit"} /\ At(p, r, doc, sale)
      BY <1>2, <3>2 DEF At
    <3>6. /\ pc' = [pc EXCEPT ![c] = p]
          /\ UNCHANGED <<today, qty, moves, account, sale, doc, req, disordered>>
      BY <2>2 DEF ReadIssue
    <3>7. work' = [work EXCEPT ![c] = y]
      BY <3>1
    <3> HIDE DEF y, p, r
    <3>8. QED
      BY <3>4, <3>5, <3>6, <3>7
  <2>3. CASE ReadTarget(c)
    <3>1. r.op \in {"MOVE", "RELEASE"} /\ r.to \in Warehouses
      BY <1>2, <2>3 DEF ReadTarget, At, Asked
    <3> DEFINE x == [work[c] EXCEPT !.other = qty[r.to]]
    <3>2. x \in Work
      BY <1>0, <1>2, <3>1 DEF Work
    <3>3. /\ pc' = [pc EXCEPT ![c] = "target2"] /\ work' = [work EXCEPT ![c] = x]
          /\ UNCHANGED <<today, qty, moves, account, sale, doc, req, disordered>>
      BY <2>3 DEF ReadTarget
    <3>4. At("target2", r, doc, sale)
      BY <1>2, <3>1 DEF At
    <3> HIDE DEF x, r
    <3>5. QED
      BY <3>2, <3>3, <3>4
  <2>4. CASE ReadCount(c)
    <3> DEFINE d == doc[r.id]
               delta == Difference(d, qty[d.wh])
               x == [work[c] EXCEPT !.delta = delta]
    <3>1. r.op = "POST" /\ r.id \in Docs /\ d.wh = r.from /\ d \in Doc
      BY <1>2, <2>4 DEF ReadCount, Asked, TypeInv, TypeOK
    <3>2. delta \in Int
      BY <1>2, <3>1 DEF Difference, Doc
    <3>3. x \in Work
      BY <1>2, <3>2 DEF Work
    <3>4. /\ pc' = [pc EXCEPT ![c] = "again"] /\ work' = [work EXCEPT ![c] = x]
          /\ UNCHANGED <<today, qty, moves, account, sale, doc, req, disordered>>
      BY <2>4 DEF ReadCount
    <3>5. At("again", r, doc, sale)
      BY <1>2, <3>1 DEF At
    <3> HIDE DEF x, r
    <3>6. QED
      BY <3>3, <3>4, <3>5
  <2>5. CASE ReadAgain(c)
    <3> DEFINE delta == work[c].delta
    <3>0. delta \in Int /\ r.op = "POST"
      BY <1>2, <2>5 DEF Work, ReadAgain, At
    <3>1. PICK x \in IF delta < 0 THEN IssueCosts(r.from, -delta) ELSE {delta * p : p \in Prices} :
            work' = [work EXCEPT ![c] = [@ EXCEPT !.qty = qty[r.from], !.cost = x]]
      BY <2>5 DEF ReadAgain
    <3>2. x \in Nat
      <4>1. CASE delta < 0
        <5>1. -delta \in Nat /\ x \in IssueCosts(r.from, -delta)
          BY <3>0, <3>1, <4>1
        <5> HIDE DEF delta
        <5>2. QED
          BY <1>0, <1>2, <5>1, IssueCostsType
      <4>2. CASE ~(delta < 0)
        <5>1. PICK p \in Prices : x = delta * p
          BY <3>1, <4>2
        <5> HIDE DEF delta
        <5>2. delta \in Nat /\ p \in Nat
          BY <1>0, <3>0, <4>2
        <5>3. QED
          BY <5>1, <5>2
      <4>3. QED
        BY <4>1, <4>2
    <3> DEFINE y == [work[c] EXCEPT !.qty = qty[r.from], !.cost = x]
    <3>3. y \in Work
      BY <1>2, <3>2 DEF Work
    <3>4. /\ pc' = [pc EXCEPT ![c] = "commit"]
          /\ UNCHANGED <<today, qty, moves, account, sale, doc, req, disordered>>
      BY <2>5 DEF ReadAgain
    <3>5. work' = [work EXCEPT ![c] = y]
      BY <1>0, <3>1
    <3>6. At("commit", r, doc, sale)
      BY <1>2, <3>0 DEF At
    <3> HIDE DEF y, r
    <3>7. QED
      BY <3>3, <3>4, <3>5, <3>6
  <2>6. CASE ReadDifference(c)
    <3> DEFINE x == [qty |-> qty[r.from], delta |-> r.n, cost |-> Abs(r.n) * r.price, other |-> 0]
    <3>1. r.op = "APPROVE" /\ r.n \in Int /\ r.price \in Nat /\ Abs(r.n) \in Nat
      BY <1>2, <2>6 DEF ReadDifference, Asked, Abs
    <3>2. Abs(r.n) * r.price \in Nat
      BY <3>1
    <3>3. x \in Work
      BY <1>2, <3>1, <3>2 DEF Work
    <3>4. At("commit", r, doc, sale)
      BY <1>2, <3>1 DEF At
    <3>5. /\ pc' = [pc EXCEPT ![c] = "commit"] /\ work' = [work EXCEPT ![c] = x]
          /\ UNCHANGED <<today, qty, moves, account, sale, doc, req, disordered>>
      BY <2>6 DEF ReadDifference
    <3> HIDE DEF x, r
    <3>6. QED
      BY <3>3, <3>4, <3>5
  <2>7. QED
    BY <2>1, <2>2, <2>3, <2>4, <2>5, <2>6 DEF ReadStep
<1>4. PICK p \in {"target", "target2", "again", "commit"}, x \in Work :
        /\ pc' = [pc EXCEPT ![c] = p] /\ work' = [work EXCEPT ![c] = x] /\ At(p, r, doc, sale)
        /\ UNCHANGED <<today, qty, moves, account, sale, doc, req, disordered>>
  BY <1>3
<1>5. TypeOK' /\ Written(doc') /\ Kept(doc, doc', sale, sale') /\ At(p, r, doc', sale')
  BY <1>0, <1>4, SaleOrDocKept DEF TypeInv, TypeOK
<1>6. /\ p \in {"idle", "stock", "target", "target2", "again", "commit"}
      /\ req' = [req EXCEPT ![c] = r] /\ pc' = [pc EXCEPT ![c] = p]
  BY <1>4 DEF TypeInv
<1>7. TypeInv'
  <2> HIDE DEF r
  <2>1. QED
    BY <1>5, <1>6, ClientTyped
<1>8. QED
  BY <1>0, <1>4, <1>7

LEMMA AbortTyped ==
  ASSUME TypeInv, NEW c \in Clients, Abort(c)
  PROVE  TypeInv' /\ UNCHANGED <<today, qty, moves, account, sale, doc, disordered>>
<1>1. /\ pc' = [pc EXCEPT ![c] = "idle"] /\ req' = [req EXCEPT ![c] = NoRequest]
      /\ work' = [work EXCEPT ![c] = NoWork]
      /\ UNCHANGED <<today, qty, moves, account, sale, doc, disordered>>
  BY DEF Abort, Finish
<1>2. NoWork \in Work
  BY DEF NoWork, Work
<1>3. TypeOK' /\ Written(doc') /\ Kept(doc, doc', sale, sale')
  BY <1>1, <1>2, SaleOrDocKept DEF TypeInv, TypeOK
<1> DEFINE p == "idle"
           r == NoRequest
<1>4. p \in {"idle", "stock", "target", "target2", "again", "commit"} /\ pc' = [pc EXCEPT ![c] = p]
      /\ req' = [req EXCEPT ![c] = r] /\ At(p, r, doc', sale')
  BY <1>1 DEF At
<1> HIDE DEF p, r
<1>5. QED
  BY <1>1, <1>3, <1>4, ClientTyped

LEMMA NextDayTyped ==
  ASSUME TypeInv, NextDay
  PROVE  TypeInv' /\ UNCHANGED <<qty, moves, account, sale, doc, pc, req, work, disordered>>
<1>1. today + 1 \in 0..MaxDate
  BY StockAssumption DEF NextDay, TypeInv, TypeOK
<1>2. today' = today + 1 /\ UNCHANGED <<qty, moves, account, sale, doc, pc, req, work, disordered>>
  BY DEF NextDay
<1>3. TypeOK'
  BY <1>1, <1>2 DEF TypeInv, TypeOK
<1>4. QED
  BY <1>2, <1>3 DEF TypeInv

-----------------------------------------------------------------------------
(* The commits. *)

\* A transaction that ends leaves its client idle.
LEMMA FinishTyped ==
  ASSUME NEW c \in Clients, TypeInv, Finish(c), UNCHANGED today, Written(doc'),
         Kept(doc, doc', sale, sale'),
         qty' \in [Warehouses -> Int], moves' \in [Warehouses -> Seq(Movement)], account' \in Int,
         sale' \in [Invoices -> [made : Nat \cup {None}, settled : BOOLEAN]],
         doc' \in [Docs -> Doc], disordered' \in BOOLEAN
  PROVE  TypeInv'
<1>1. /\ pc' = [pc EXCEPT ![c] = "idle"] /\ req' = [req EXCEPT ![c] = NoRequest]
      /\ work' = [work EXCEPT ![c] = NoWork]
  BY DEF Finish
<1>2. NoWork \in Work
  BY DEF NoWork, Work
<1>3. today' \in 0..MaxDate /\ pc' \in [Clients -> {"idle", "stock", "target", "target2", "again", "commit"}]
      /\ work' \in [Clients -> Work]
  BY <1>1, <1>2 DEF TypeInv, TypeOK
<1>4. TypeOK'
  BY <1>3 DEF TypeOK
<1> DEFINE p == "idle"
           r == NoRequest
<1>5. p \in {"idle", "stock", "target", "target2", "again", "commit"} /\ pc' = [pc EXCEPT ![c] = p]
      /\ req' = [req EXCEPT ![c] = r] /\ At(p, r, doc', sale')
  BY <1>1 DEF At
<1> HIDE DEF p, r
<1>6. QED
  BY <1>4, <1>5, ClientTyped

LEMMA BookedIsSigned ==
  ASSUME NEW b \in Int, NEW op, NEW m \in Movement, NEW p
  PROVE  Booked(b, op, m, p) = b + Signed(m, m.cost)
BY DEF Booked, Signed, Movement

LEMMA NothingSigned ==
  ASSUME NEW m, NEW x \in Int, x <= 0, x >= 0 PROVE Signed(m, x) = x
<1>1. -x = x
  OBVIOUS
<1>2. QED
  BY <1>1, Zenon DEF Signed

\* What one row, one sale or one document becomes.
LEMMA CommitWrites ==
  ASSUME NEW c \in Clients, TypeInv, Commit(c)
  PROVE  /\ Kept(doc, doc', sale, sale') /\ Written(doc')
         /\ sale' \in [Invoices -> [made : Nat \cup {None}, settled : BOOLEAN]]
         /\ doc' \in [Docs -> Doc]
<1> DEFINE r == req[c]
<1>0. pc[c] = "commit"
  BY DEF Commit
<1>1. Asked(r, doc, sale)
  BY <1>0, RequestOf
<1>2. sale \in [Invoices -> [made : Nat \cup {None}, settled : BOOLEAN]] /\ doc \in [Docs -> Doc]
      /\ Written(doc)
  BY DEF TypeInv, TypeOK
<1>3. /\ sale' \in [Invoices -> [made : Nat \cup {None}, settled : BOOLEAN]]
      /\ \A i \in Invoices : sale'[i].made = sale[i].made
  <2>1. CASE r.op = "SALE"
    <3>1. r.id \in Invoices /\ sale' = [sale EXCEPT ![r.id] = [sale[r.id] EXCEPT !.settled = TRUE]]
      BY <1>1, <2>1 DEF Commit, Asked
    <3> DEFINE x == [sale[r.id] EXCEPT !.settled = TRUE]
    <3>2. x \in [made : Nat \cup {None}, settled : BOOLEAN] /\ x.made = sale[r.id].made
      BY <1>2, <3>1
    <3>3. sale' = [sale EXCEPT ![r.id] = x]
      BY <3>1
    <3> HIDE DEF x
    <3>4. QED
      BY <1>2, <3>1, <3>2, <3>3
  <2>2. CASE r.op # "SALE"
    BY <1>2, <2>2 DEF Commit
  <2>3. QED
    BY <2>1, <2>2
<1>4. /\ doc' \in [Docs -> Doc]
      /\ \A d \in Docs : /\ doc'[d].wh = doc[d].wh /\ doc'[d].kind = doc[d].kind
                         /\ doc'[d].st = "NONE" <=> doc[d].st = "NONE"
  <2>1. CASE r.op \in {"POST", "APPROVE"}
    <3>1. r.id \in Docs /\ doc[r.id].st # "NONE" /\ doc' = [doc EXCEPT ![r.id] = [doc[r.id] EXCEPT !.st = "POSTED"]]
      BY <1>1, <2>1 DEF Commit, Asked
    <3> DEFINE x == [doc[r.id] EXCEPT !.st = "POSTED"]
    <3>2. x \in Doc /\ x.wh = doc[r.id].wh /\ x.kind = doc[r.id].kind /\ x.st = "POSTED"
      BY <1>2, <3>1 DEF Doc
    <3>3. doc' = [doc EXCEPT ![r.id] = x]
      BY <3>1
    <3> HIDE DEF x
    <3>4. QED
      BY <1>2, <3>1, <3>2, <3>3
  <2>2. CASE r.op \notin {"POST", "APPROVE"}
    <3>1. doc' = doc
      BY <2>2 DEF Commit
    <3>2. QED
      BY <1>2, <3>1
  <2>3. QED
    BY <2>1, <2>2
<1>5. QED
  BY <1>2, <1>3, <1>4 DEF Kept, Written

LEMMA CommitTyped ==
  ASSUME NEW c \in Clients, TypeInv, Commit(c)
  PROVE  TypeInv' /\ account' = account + WorthOf(moves') - WorthOf(moves)
<1> DEFINE r == req[c]
           w == r.from
           m == MoveOf(work[c].delta, work[c].cost, DateOf(r))
<1>0. pc[c] = "commit" /\ Finish(c) /\ UNCHANGED today
  BY DEF Commit
<1>1. w \in Warehouses /\ qty[w] \in Int /\ work[c] \in Work
  BY <1>0, RequestOf
<1>2. work[c].delta \in Int /\ work[c].cost \in Nat /\ work[c].qty \in Int
  BY <1>1 DEF Work
<1>3. DateOf(r) \in Nat
  BY <1>0, DateType
<1>4. m \in Movement
  BY <1>2, <1>3, MoveType
<1>5. moves \in [Warehouses -> Seq(Movement)] /\ account \in Int /\ qty \in [Warehouses -> Int]
  BY DEF TypeInv, TypeOK
<1>6. disordered \in BOOLEAN
  BY DEF TypeInv, TypeOK
<1>7. /\ qty' \in [Warehouses -> Int] /\ moves' \in [Warehouses -> Seq(Movement)] /\ account' \in Int
      /\ account' = account + WorthOf(moves') - WorthOf(moves)
  <2>1. CASE m.n = 0
    <3>1. qty' = qty /\ moves' = moves /\ account' = account
      BY <2>1 DEF Commit
    <3>2. WorthOf(moves) \in Int
      BY <1>1, <1>4, <1>5, OneMovement
    <3>3. QED
      BY <1>5, <3>1, <3>2
  <2>2. CASE m.n # 0
    <3> DEFINE q == NewQuantity(r.op, work[c].qty, work[c].delta)
    <3>1. /\ qty' = [qty EXCEPT ![w] = q]
          /\ moves' = [moves EXCEPT ![w] = Inserted(moves[w], m)]
          /\ account' = Booked(account, r.op, m, r.price)
      BY <2>2 DEF Commit
    <3>2. q \in Int
      BY <1>2 DEF NewQuantity
    <3> HIDE DEF q, m, w
    <3>3. account' = account + Signed(m, m.cost) /\ Signed(m, m.cost) \in Int
      BY <1>4, <1>5, <3>1, BookedIsSigned, SignedType
    <3>4. /\ [moves EXCEPT ![w] = Inserted(moves[w], m)] \in [Warehouses -> Seq(Movement)]
          /\ WorthOf(moves) \in Int
          /\ WorthOf([moves EXCEPT ![w] = Inserted(moves[w], m)]) = WorthOf(moves) + Signed(m, m.cost)
      BY <1>1, <1>4, <1>5, OneMovement
    <3>5. moves' \in [Warehouses -> Seq(Movement)] /\ WorthOf(moves') = WorthOf(moves) + Signed(m, m.cost)
      BY <3>1, <3>4
    <3>6. qty' \in [Warehouses -> Int]
      BY <1>5, <3>1, <3>2
    <3>7. QED
      BY <1>5, <3>3, <3>4, <3>5, <3>6
  <2>3. QED
    BY <2>1, <2>2
<1>8. disordered' \in BOOLEAN
  BY <1>6 DEF Commit
<1>9. QED
  BY <1>0, <1>7, <1>8, CommitWrites, FinishTyped

LEMMA CommitTransferTyped ==
  ASSUME NEW c \in Clients, TypeInv, CommitTransfer(c)
  PROVE  TypeInv' /\ account' = account + WorthOf(moves') - WorthOf(moves)
<1> DEFINE r == req[c]
           a == r.from
           b == r.to
           out == MoveOf(-r.n, work[c].cost, r.date)
           in == MoveOf(r.n, work[c].cost, r.date)
           mid == [moves EXCEPT ![a] = Inserted(moves[a], out)]
           last == [mid EXCEPT ![b] = Inserted(mid[b], in)]
<1>0. /\ pc[c] = "target2" /\ r.op = "MOVE" /\ Finish(c) /\ UNCHANGED <<today, account, sale, doc>>
      /\ qty' = [qty EXCEPT ![a] = work[c].qty - r.n, ![b] = work[c].other + r.n]
      /\ moves' = [moves EXCEPT ![a] = Inserted(@, out), ![b] = Inserted(@, in)]
  BY DEF CommitTransfer
<1>1. /\ a \in Warehouses /\ b \in Warehouses /\ b # a /\ r.n = 1 /\ r.date \in Nat
      /\ work[c].qty \in Int /\ work[c].other \in Int /\ work[c].cost \in Nat
  BY <1>0, RequestOf DEF Asked, Work
<1>2. moves \in [Warehouses -> Seq(Movement)] /\ account \in Int /\ qty \in [Warehouses -> Int]
  BY DEF TypeInv, TypeOK
<1>3. /\ out \in Movement /\ out.in = FALSE /\ out.cost = work[c].cost
      /\ in \in Movement /\ in.in = TRUE /\ in.cost = work[c].cost
  <2>1. -r.n \in Int /\ r.n \in Int /\ (-r.n > 0) = FALSE /\ (r.n > 0) = TRUE
    BY <1>1
  <2> HIDE DEF r
  <2>2. out \in Movement /\ out.in = (-r.n > 0) /\ out.cost = work[c].cost
    <3>1. -r.n \in Int /\ work[c].cost \in Nat /\ r.date \in Nat
      BY <1>1, <2>1
    <3>2. QED
      BY <3>1, MoveType
  <2>3. in \in Movement /\ in.in = (r.n > 0) /\ in.cost = work[c].cost
    <3>1. r.n \in Int /\ work[c].cost \in Nat /\ r.date \in Nat
      BY <1>1, <2>1
    <3>2. QED
      BY <3>1, MoveType
  <2>4. QED
    BY <2>1, <2>2, <2>3
<1> HIDE DEF out, in
<1>4. moves' = last
  BY <1>0, <1>1, <1>2
<1> HIDE DEF a, b
<1>5. /\ mid \in [Warehouses -> Seq(Movement)] /\ WorthOf(moves) \in Int
      /\ WorthOf(mid) = WorthOf(moves) + Signed(out, out.cost)
  BY <1>1, <1>2, <1>3, OneMovement
<1> HIDE DEF mid
<1>6. /\ last \in [Warehouses -> Seq(Movement)] /\ WorthOf(last) = WorthOf(mid) + Signed(in, in.cost)
  <2>1. mid \in [Warehouses -> Seq(Movement)] /\ b \in Warehouses /\ in \in Movement
    BY <1>1, <1>3, <1>5
  <2>2. QED
    BY <2>1, OneMovement
<1>7. Signed(out, out.cost) = -work[c].cost /\ Signed(in, in.cost) = work[c].cost
  BY <1>3 DEF Signed
<1> HIDE DEF last
<1>8. account' = account + WorthOf(moves') - WorthOf(moves)
  <2>1. account' = account
    BY <1>0
  <2>2. WorthOf(last) = WorthOf(moves)
    BY <1>1, <1>5, <1>6, <1>7
  <2>3. QED
    BY <1>2, <1>4, <1>5, <2>1, <2>2
<1>9. qty' \in [Warehouses -> Int]
  BY <1>0, <1>1, <1>2
<1>10. disordered' \in BOOLEAN
  BY DEF CommitTransfer, TypeInv, TypeOK
<1>11. /\ Kept(doc, doc', sale, sale') /\ Written(doc') /\ account' \in Int
       /\ sale' \in [Invoices -> [made : Nat \cup {None}, settled : BOOLEAN]]
       /\ doc' \in [Docs -> Doc] /\ UNCHANGED today
  BY <1>0, SaleOrDocKept DEF TypeInv, TypeOK
<1>12. TypeInv'
  BY <1>0, <1>4, <1>6, <1>9, <1>10, <1>11, FinishTyped
<1>13. QED
  BY <1>8, <1>12

LEMMA CommitReleaseTyped ==
  ASSUME NEW c \in Clients, TypeInv, CommitRelease(c)
  PROVE  TypeInv' /\ account' = account + WorthOf(moves') - WorthOf(moves)
<1> DEFINE r == req[c]
           a == r.from
           b == r.to
           out == MoveOf(-r.n, work[c].cost, r.date)
           in == MoveOf(1, work[c].cost, r.date)
           scrap == MoveOf(r.id.returns, 0, r.date)
           first == [moves EXCEPT ![a] = Inserted(moves[a], out)]
           mid == IF scrap.n = 0 THEN first ELSE [first EXCEPT ![a] = Inserted(first[a], scrap)]
           last == [mid EXCEPT ![b] = Inserted(mid[b], in)]
<1>0. /\ pc[c] = "target2" /\ r.op = "RELEASE" /\ Finish(c) /\ UNCHANGED <<today, sale, doc>>
      /\ qty' = [qty EXCEPT ![a] = work[c].qty - r.n + scrap.n, ![b] = work[c].other + 1]
      /\ moves' = [moves EXCEPT ![a] = IF scrap.n = 0 THEN Inserted(@, out) ELSE Inserted(Inserted(@, out), scrap),
                                ![b] = Inserted(@, in)]
      /\ account' = Booked(Booked(account, r.op, out, 0), r.op, in, 0)
  BY DEF CommitRelease
<1>1. /\ a \in Warehouses /\ b \in Warehouses /\ b # a /\ r.n \in Nat \ {0} /\ r.date \in Nat
      /\ work[c].qty \in Int /\ work[c].other \in Int /\ work[c].cost \in Nat /\ r.id.returns \in Nat
  BY <1>0, RequestOf, StockAssumption DEF Asked, Work
<1>2. moves \in [Warehouses -> Seq(Movement)] /\ account \in Int /\ qty \in [Warehouses -> Int]
  BY DEF TypeInv, TypeOK
<1>3. /\ out \in Movement /\ out.in = FALSE /\ out.cost = work[c].cost
      /\ in \in Movement /\ in.in = TRUE /\ in.cost = work[c].cost
      /\ scrap \in Movement /\ scrap.cost = 0
  <2>1. -r.n \in Int /\ (-r.n > 0) = FALSE /\ (1 > 0) = TRUE /\ 1 \in Int /\ 0 \in Nat /\ r.id.returns \in Int
    BY <1>1
  <2> HIDE DEF r
  <2>2. /\ out \in Movement /\ out.in = (-r.n > 0) /\ out.cost = work[c].cost
    <3>1. -r.n \in Int /\ work[c].cost \in Nat /\ r.date \in Nat
      BY <1>1, <2>1
    <3>2. QED
      BY <3>1, MoveType
  <2>3. /\ in \in Movement /\ in.in = (1 > 0) /\ in.cost = work[c].cost
    <3>1. 1 \in Int /\ work[c].cost \in Nat /\ r.date \in Nat
      BY <1>1, <2>1
    <3>2. QED
      BY <3>1, MoveType
  <2>4. scrap \in Movement /\ scrap.cost = 0
    BY <1>1, <2>1, MoveType
  <2>5. QED
    BY <2>1, <2>2, <2>3, <2>4
<1> HIDE DEF out, in, scrap
<1>4. moves' = last
  <2>1. CASE scrap.n = 0
    BY <1>0, <1>1, <1>2, <2>1
  <2>2. CASE scrap.n # 0
    BY <1>0, <1>1, <1>2, <2>2
  <2>3. QED
    BY <2>1, <2>2
<1> HIDE DEF a, b
<1>5. /\ first \in [Warehouses -> Seq(Movement)] /\ WorthOf(moves) \in Int
      /\ WorthOf(first) = WorthOf(moves) + Signed(out, out.cost)
  BY <1>1, <1>2, <1>3, OneMovement
<1> HIDE DEF first
<1>6. /\ Signed(out, out.cost) = -work[c].cost /\ Signed(in, in.cost) = work[c].cost
      /\ Signed(scrap, scrap.cost) = 0
  <2>1. Signed(out, out.cost) = -work[c].cost /\ Signed(in, in.cost) = work[c].cost
    BY <1>3 DEF Signed
  <2>2. Signed(scrap, scrap.cost) = 0
    <3>1. scrap.cost \in Int /\ scrap.cost <= 0 /\ scrap.cost >= 0
      BY <1>3
    <3>2. Signed(scrap, scrap.cost) = scrap.cost
      BY <3>1, NothingSigned
    <3>3. QED
      BY <1>3, <3>2
  <2>3. QED
    BY <2>1, <2>2
<1>7. mid \in [Warehouses -> Seq(Movement)] /\ WorthOf(mid) = WorthOf(moves) - work[c].cost
  <2>1. WorthOf(first) \in Int /\ WorthOf(first) = WorthOf(moves) - work[c].cost
    BY <1>1, <1>5, <1>6
  <2>2. CASE scrap.n = 0
    BY <1>5, <2>1, <2>2
  <2>3. CASE scrap.n # 0
    <3> DEFINE next == [first EXCEPT ![a] = Inserted(first[a], scrap)]
    <3>1. next \in [Warehouses -> Seq(Movement)] /\ WorthOf(next) = WorthOf(first) + Signed(scrap, scrap.cost)
      BY <1>1, <1>3, <1>5, OneMovement
    <3>2. mid = next
      BY <2>3
    <3> HIDE DEF next, mid
    <3>3. QED
      BY <1>6, <2>1, <3>1, <3>2
  <2>4. QED
    BY <2>2, <2>3
<1> HIDE DEF mid
<1>8. /\ last \in [Warehouses -> Seq(Movement)] /\ WorthOf(last) = WorthOf(mid) + Signed(in, in.cost)
  BY <1>1, <1>3, <1>7, OneMovement
<1> HIDE DEF last
<1>9. account' = account
  <2> DEFINE x == Booked(account, r.op, out, 0)
  <2>1. x = account + Signed(out, out.cost)
    BY <1>2, <1>3, BookedIsSigned
  <2>2. x \in Int
    BY <1>1, <1>2, <1>6, <2>1
  <2> HIDE DEF x
  <2>3. Booked(x, r.op, in, 0) = x + Signed(in, in.cost)
    BY <1>3, <2>2, BookedIsSigned
  <2>4. account' = Booked(x, r.op, in, 0)
    BY <1>0 DEF x
  <2>5. QED
    BY <1>1, <1>2, <1>6, <2>1, <2>2, <2>3, <2>4
<1>10. account' = account + WorthOf(moves') - WorthOf(moves)
  BY <1>1, <1>2, <1>4, <1>5, <1>6, <1>7, <1>8, <1>9
<1>11. qty' \in [Warehouses -> Int]
  <2>1. scrap.n \in Nat
    BY <1>3 DEF Movement
  <2>2. work[c].qty - r.n + scrap.n \in Int /\ work[c].other + 1 \in Int
    BY <1>1, <2>1
  <2> HIDE DEF r
  <2>3. QED
    BY <1>0, <1>1, <1>2, <2>2
<1>12. disordered' \in BOOLEAN
  BY DEF CommitRelease, TypeInv, TypeOK
<1>13. /\ Kept(doc, doc', sale, sale') /\ Written(doc') /\ account' \in Int
       /\ sale' \in [Invoices -> [made : Nat \cup {None}, settled : BOOLEAN]]
       /\ doc' \in [Docs -> Doc] /\ UNCHANGED today
  BY <1>0, <1>2, <1>9, SaleOrDocKept DEF TypeInv, TypeOK
<1>14. TypeInv'
  BY <1>0, <1>4, <1>8, <1>11, <1>12, <1>13, FinishTyped
<1>15. QED
  BY <1>10, <1>14

-----------------------------------------------------------------------------
LEMMA StutterTyped ==
  ASSUME TypeInv, UNCHANGED vars
  PROVE  TypeInv' /\ UNCHANGED <<moves, account>>
<1>1. /\ today' = today /\ qty' = qty /\ moves' = moves /\ account' = account /\ sale' = sale /\ doc' = doc
      /\ pc' = pc /\ req' = req /\ work' = work /\ disordered' = disordered
  BY DEF vars
<1>2. QED
  BY <1>1 DEF TypeInv, TypeOK

LEMMA StepTyped ==
  ASSUME TypeInv, [Next]_vars
  PROVE  /\ TypeInv'
         /\ UNCHANGED <<moves, account>> \/ account' = account + WorthOf(moves') - WorthOf(moves)
<1>1. CASE Document
  <2>1. UNCHANGED <<moves, account>>
    BY <1>1 DEF Document, CreateInvoice, CreateDoc, PatchLine, SyncSystem
  <2>2. QED
    BY <1>1, <2>1, DocumentsTyped
<1>2. ASSUME NEW c \in Clients, Request(c) PROVE TypeInv' /\ UNCHANGED <<moves, account>>
  BY <1>2, AcceptTyped
<1>3. ASSUME NEW c \in Clients, Transaction(c)
      PROVE  /\ TypeInv'
             /\ UNCHANGED <<moves, account>> \/ account' = account + WorthOf(moves') - WorthOf(moves)
  <2>1. CASE ReadStep(c)
    BY <2>1, ReadTyped
  <2>2. CASE Commit(c)
    BY <2>2, CommitTyped
  <2>3. CASE CommitTransfer(c)
    BY <2>3, CommitTransferTyped
  <2>4. CASE CommitRelease(c)
    BY <2>4, CommitReleaseTyped
  <2>5. QED
    BY <1>3, <2>1, <2>2, <2>3, <2>4 DEF Transaction, ReadStep
<1>4. ASSUME NEW c \in Clients, Abort(c) PROVE TypeInv' /\ UNCHANGED <<moves, account>>
  BY <1>4, AbortTyped
<1>5. CASE NextDay
  BY <1>5, NextDayTyped
<1>6. CASE UNCHANGED vars
  BY <1>6, StutterTyped
<1>7. QED
  BY <1>1, <1>2, <1>3, <1>4, <1>5, <1>6 DEF Next

\* The variables of Stock have their types, however requests overlap.
THEOREM TypesHold == Spec => []TypeOK
<1>1. Init => TypeInv
  BY InitTyped
<1>2. TypeInv /\ [Next]_vars => TypeInv'
  BY StepTyped
<1>3. TypeInv => TypeOK
  BY DEF TypeInv
<1>4. QED
  BY <1>1, <1>2, <1>3, PTL DEF Spec

\* Whatever requests overlap, and wherever they are cut off, the inventory accounts hold
\* what all movements brought in less what they took out.
THEOREM LedgerIsMovements == Spec => []LedgerFollowsMovements
<1> DEFINE Inv == TypeInv /\ account = WorthOf(moves)
<1>1. Init => Inv
  <2> SUFFICES ASSUME Init PROVE Inv
    OBVIOUS
  <2>1. account = 0 /\ moves = [w \in Warehouses |-> <<>>]
    BY DEF Init
  <2>2. QED
    BY <2>1, InitTyped, WorthOfNone
<1>2. Inv /\ [Next]_vars => Inv'
  <2> SUFFICES ASSUME Inv, [Next]_vars PROVE Inv'
    OBVIOUS
  <2>1. account \in Int
    BY DEF TypeInv, TypeOK
  <2>2. /\ TypeInv'
        /\ UNCHANGED <<moves, account>> \/ account' = account + WorthOf(moves') - WorthOf(moves)
    BY StepTyped
  <2>3. account' \in Int /\ moves' \in [Warehouses -> Seq(Movement)]
    BY <2>2 DEF TypeInv, TypeOK
  <2>4. account' = WorthOf(moves')
    <3>1. CASE UNCHANGED <<moves, account>>
      BY <3>1
    <3>2. CASE account' = account + WorthOf(moves') - WorthOf(moves)
      <4>1. WorthOf(moves') \in Int
        <5>1. PICK mv \in [Warehouses -> Seq(Movement)] : mv = moves'
          BY <2>3
        <5>2. QED
          BY <5>1, WorthOfType
      <4>2. QED
        BY <2>1, <3>2, <4>1
    <3>3. QED
      BY <2>2, <3>1, <3>2
  <2>5. QED
    BY <2>2, <2>4
<1>3. Inv => LedgerFollowsMovements
  BY DEF LedgerFollowsMovements, WorthOf
<1>4. QED
  BY <1>1, <1>2, <1>3, PTL DEF Spec

-----------------------------------------------------------------------------
\* One request at a time.
OneClient == \A c, d \in Clients : c = d

\* What the client's transaction has read is still so.
Fresh(p, r, x, q, docs) ==
  /\ p \in {"target", "target2", "commit"} => x.qty = q[r.from]
  /\ p = "target2" => x.other = q[r.to]
  /\ p \in {"again", "commit"} /\ r.op = "POST" => x.delta = docs[r.id].fact - q[r.from]

FreshInv ==
  /\ TypeInv
  /\ \A c \in Clients : Fresh(pc[c], req[c], work[c], qty, doc)

LEMMA DocumentsKeepCounts ==
  ASSUME NEW d \in Docs, TypeInv, Document, doc[d].st # "NONE", doc[d].kind # "AUDIT"
  PROVE  doc'[d].fact = doc[d].fact /\ doc'[d].st = doc[d].st
<1>0. doc \in [Docs -> Doc]
  BY DEF TypeInv, TypeOK
<1>1. ASSUME NEW i \in Invoices, CreateInvoice(i) PROVE doc' = doc
  BY <1>1 DEF CreateInvoice
<1>2. ASSUME NEW e \in Docs, NEW kind \in Kinds, NEW w \in Warehouses, NEW fact \in {0} \cup Quantities,
             NEW p \in Prices, NEW date \in 0..MaxDate, CreateDoc(e, kind, w, fact, p, date)
      PROVE  doc'[d] = doc[d]
  BY <1>0, <1>2 DEF CreateDoc
<1>3. ASSUME NEW e \in Docs, NEW fact \in {0} \cup Quantities, PatchLine(e, fact)
      PROVE  doc'[d] = doc[d]
  BY <1>0, <1>3 DEF PatchLine
<1>4. ASSUME NEW e \in Docs, SyncSystem(e)
      PROVE  doc'[d] = doc[d]
  BY <1>0, <1>4 DEF SyncSystem
<1>5. QED
  BY <1>1, <1>2, <1>3, <1>4 DEF Document

LEMMA DocumentFrame ==
  ASSUME Document PROVE UNCHANGED <<today, qty, moves, account, pc, req, work, disordered>>
BY DEF Document, CreateInvoice, CreateDoc, PatchLine, SyncSystem

LEMMA InitFresh == Init => FreshInv
<1> SUFFICES ASSUME Init PROVE FreshInv
  OBVIOUS
<1>1. \A c \in Clients : Fresh(pc[c], req[c], work[c], qty, doc)
  BY DEF Init, Fresh
<1>2. QED
  BY <1>1, InitTyped DEF FreshInv

LEMMA ReadFresh ==
  ASSUME NEW c \in Clients, FreshInv, ReadStep(c)
  PROVE  Fresh(pc'[c], req'[c], work'[c], qty', doc')
<1> DEFINE r == req[c]
<1>0. TypeInv /\ Fresh(pc[c], r, work[c], qty, doc)
  BY DEF FreshInv
<1>1. UNCHANGED <<qty, doc, req>> /\ work' \in [Clients -> Work]
  BY <1>0, ReadTyped
<1>2. work \in [Clients -> Work] /\ pc \in [Clients -> {"idle", "stock", "target", "target2", "again", "commit"}]
      /\ work[c] \in Work
  BY <1>0 DEF TypeInv, TypeOK
<1>3. pc[c] # "idle"
  BY DEF ReadStep, ReadReceipt, ReadIssue, ReadTarget, ReadCount, ReadAgain, ReadDifference
<1>4. Asked(r, doc, sale) /\ At(pc[c], r, doc, sale)
  BY <1>0, <1>3, RequestOf
<1>5. Fresh(pc'[c], r, work'[c], qty, doc)
  <2>1. CASE ReadReceipt(c)
    <3>1. pc'[c] = "commit" /\ work'[c].qty = qty[r.from] /\ r.op # "POST"
      BY <1>2, <2>1 DEF ReadReceipt
    <3>2. QED
      BY <3>1 DEF Fresh
  <2>2. CASE ReadIssue(c)
    <3>1. pc'[c] \in {"target", "commit"} /\ work'[c].qty = qty[r.from] /\ r.op # "POST"
      BY <1>2, <2>2 DEF ReadIssue
    <3>2. QED
      BY <3>1 DEF Fresh
  <2>3. CASE ReadTarget(c)
    <3>1. pc[c] = "target" /\ pc'[c] = "target2" /\ work' = [work EXCEPT ![c].other = qty[r.to]]
      BY <1>2, <2>3 DEF ReadTarget
    <3>2. work'[c].other = qty[r.to] /\ work'[c].qty = work[c].qty
      BY <1>2, <3>1 DEF Work
    <3>3. QED
      BY <1>0, <3>1, <3>2 DEF Fresh
  <2>4. CASE ReadCount(c)
    <3>1. pc'[c] = "again" /\ work' = [work EXCEPT ![c].delta = Difference(doc[r.id], qty[doc[r.id].wh])]
          /\ r.op = "POST"
      BY <1>2, <2>4 DEF ReadCount
    <3>2. work'[c].delta = doc[r.id].fact - qty[r.from]
      BY <1>2, <1>4, <3>1 DEF Work, Difference, Asked
    <3>3. QED
      BY <3>1, <3>2 DEF Fresh
  <2>5. CASE ReadAgain(c)
    <3>1. PICK x : work' = [work EXCEPT ![c] = [@ EXCEPT !.qty = qty[r.from], !.cost = x]]
      BY <2>5 DEF ReadAgain
    <3>2. pc[c] = "again" /\ pc'[c] = "commit" /\ work'[c].qty = qty[r.from] /\ work'[c].delta = work[c].delta
      BY <1>2, <2>5, <3>1 DEF ReadAgain, Work
    <3>3. QED
      BY <1>0, <3>2 DEF Fresh
  <2>6. CASE ReadDifference(c)
    <3>1. pc'[c] = "commit" /\ work'[c].qty = qty[r.from] /\ r.op # "POST"
      BY <1>2, <2>6 DEF ReadDifference
    <3>2. QED
      BY <3>1 DEF Fresh
  <2>7. QED
    BY <2>1, <2>2, <2>3, <2>4, <2>5, <2>6 DEF ReadStep
<1>6. QED
  BY <1>1, <1>5

LEMMA FinishIsIdle ==
  ASSUME NEW c \in Clients, TypeInv, Finish(c)
  PROVE  pc'[c] = "idle" /\ work'[c] = NoWork
BY DEF Finish, TypeInv, TypeOK

LEMMA StepFresh ==
  ASSUME OneClient, FreshInv, [Next]_vars
  PROVE  FreshInv'
<1>0. TypeInv /\ TypeInv'
  BY StepTyped DEF FreshInv
<1> DEFINE Same == UNCHANGED <<qty, pc, req, work>>
<1>1. ASSUME Document PROVE \A c \in Clients : Fresh(pc'[c], req'[c], work'[c], qty', doc')
  <2>1. UNCHANGED <<qty, pc, req, work>>
    BY <1>1, DocumentFrame
  <2>2. ASSUME NEW c \in Clients PROVE Fresh(pc[c], req[c], work[c], qty, doc')
    <3>1. Fresh(pc[c], req[c], work[c], qty, doc)
      BY DEF FreshInv
    <3>2. CASE pc[c] \in {"again", "commit"} /\ req[c].op = "POST"
      <4>1. Asked(req[c], doc, sale)
        BY <1>0, <3>2, RequestOf
      <4>2. req[c].id \in Docs /\ doc[req[c].id].st # "NONE" /\ doc[req[c].id].kind # "AUDIT"
        BY <3>2, <4>1 DEF Asked
      <4>3. doc'[req[c].id].fact = doc[req[c].id].fact
        BY <1>0, <1>1, <4>2, DocumentsKeepCounts
      <4>4. QED
        BY <3>1, <4>3 DEF Fresh
    <3>3. CASE ~(pc[c] \in {"again", "commit"} /\ req[c].op = "POST")
      BY <3>1, <3>3 DEF Fresh
    <3>4. QED
      BY <3>2, <3>3
  <2>3. QED
    BY <2>1, <2>2
<1>2. ASSUME NEW c \in Clients, Request(c) PROVE Fresh(pc'[c], req'[c], work'[c], qty', doc')
  <2>1. pc'[c] = "stock"
    <3>1. PICK r : Accept(c, r)
      BY <1>2 DEF Request
    <3>2. QED
      BY <1>0, <3>1 DEF Accept, TypeInv, TypeOK
  <2>2. QED
    BY <2>1 DEF Fresh
<1>3. ASSUME NEW c \in Clients, Transaction(c) PROVE Fresh(pc'[c], req'[c], work'[c], qty', doc')
  <2>1. CASE ReadStep(c)
    BY <2>1, ReadFresh
  <2>2. CASE Commit(c) \/ CommitTransfer(c) \/ CommitRelease(c)
    <3>1. Finish(c)
      BY <2>2 DEF Commit, CommitTransfer, CommitRelease
    <3>2. pc'[c] = "idle"
      BY <1>0, <3>1, FinishIsIdle
    <3>3. QED
      BY <3>2 DEF Fresh
  <2>3. QED
    BY <1>3, <2>1, <2>2 DEF Transaction, ReadStep
<1>4. ASSUME NEW c \in Clients, Abort(c) PROVE Fresh(pc'[c], req'[c], work'[c], qty', doc')
  <2>1. pc'[c] = "idle"
    BY <1>0, <1>4, FinishIsIdle DEF Abort
  <2>2. QED
    BY <2>1 DEF Fresh
<1>5. ASSUME NextDay \/ UNCHANGED vars PROVE \A c \in Clients : Fresh(pc'[c], req'[c], work'[c], qty', doc')
  <2>1. UNCHANGED <<qty, pc, req, work, doc>>
    BY <1>5 DEF NextDay, vars
  <2>2. QED
    BY <2>1 DEF FreshInv
<1>6. \A c \in Clients : Fresh(pc'[c], req'[c], work'[c], qty', doc')
  <2>1. ASSUME NEW c \in Clients, Request(c) \/ Transaction(c) \/ Abort(c)
        PROVE  \A e \in Clients : Fresh(pc'[e], req'[e], work'[e], qty', doc')
    <3>1. Fresh(pc'[c], req'[c], work'[c], qty', doc')
      BY <1>2, <1>3, <1>4, <2>1
    <3>2. \A e \in Clients : e = c
      BY DEF OneClient
    <3>3. QED
      BY <3>1, <3>2
  <2>2. QED
    BY <1>1, <1>5, <2>1 DEF Next
<1>7. QED
  BY <1>0, <1>6 DEF FreshInv

LEMMA FreshInvariance == ASSUME OneClient PROVE Spec => []FreshInv
BY InitFresh, StepFresh, PTL DEF Spec

\* The commit of a counting document leaves what was counted.
LEMMA CountCommitted ==
  ASSUME NEW d \in Docs, FreshInv, [Next]_vars,
         doc[d].kind # "AUDIT", doc[d].st = "DRAFT", doc'[d].st = "POSTED"
  PROVE  qty'[doc[d].wh] = doc[d].fact
<1>0. TypeInv /\ doc \in [Docs -> Doc] /\ qty \in [Warehouses -> Int] /\ doc[d] \in Doc
  BY DEF FreshInv, TypeInv, TypeOK
<1>1. ASSUME Document PROVE FALSE
  <2>1. doc'[d].st = doc[d].st
    BY <1>0, <1>1, DocumentsKeepCounts
  <2>2. QED
    BY <2>1
<1>2. PICK c \in Clients : Commit(c)
  <2>1. ASSUME NEW c \in Clients, Request(c) PROVE doc' = doc
    BY <1>0, <2>1, AcceptTyped
  <2>2. ASSUME NEW c \in Clients, ReadStep(c) PROVE doc' = doc
    BY <1>0, <2>2, ReadTyped
  <2>3. ASSUME NEW c \in Clients, Transaction(c), ~Commit(c) PROVE doc' = doc
    <3>1. CASE CommitTransfer(c) \/ CommitRelease(c)
      BY <3>1 DEF CommitTransfer, CommitRelease
    <3>2. CASE ReadStep(c)
      BY <2>2, <3>2
    <3>3. QED
      BY <2>3, <3>1, <3>2 DEF Transaction, ReadStep
  <2>4. ASSUME NEW c \in Clients, Abort(c) PROVE doc' = doc
    BY <2>4 DEF Abort
  <2>5. ASSUME NextDay \/ UNCHANGED vars PROVE doc' = doc
    BY <2>5 DEF NextDay, vars
  <2>6. doc' # doc
    OBVIOUS
  <2>7. QED
    BY <1>1, <2>1, <2>3, <2>4, <2>5, <2>6 DEF Next
<1> DEFINE r == req[c]
           w == r.from
           m == MoveOf(work[c].delta, work[c].cost, DateOf(r))
<1>3. pc[c] = "commit" /\ Asked(r, doc, sale) /\ work[c] \in Work /\ w \in Warehouses /\ qty[w] \in Int
  <2>1. pc[c] = "commit"
    BY <1>2 DEF Commit
  <2>2. QED
    BY <1>0, <2>1, RequestOf
<1>4. r.op \in {"POST", "APPROVE"} /\ r.id = d
  <2>1. doc' = IF r.op \in {"POST", "APPROVE"} THEN [doc EXCEPT ![r.id].st = "POSTED"] ELSE doc
    BY <1>2 DEF Commit
  <2>2. r.op \in {"POST", "APPROVE"}
    BY <2>1
  <2>3. r.id \in Docs
    BY <1>3, <2>2 DEF Asked
  <2>4. QED
    BY <1>0, <2>1, <2>2, <2>3
<1>5. r.op = "POST" /\ doc[d].wh = w
  BY <1>3, <1>4 DEF Asked
<1>6. work[c].qty = qty[w] /\ work[c].delta = doc[d].fact - qty[w]
  BY <1>3, <1>4, <1>5 DEF FreshInv, Fresh
<1>7. doc[d].fact \in Nat /\ work[c].delta \in Int
  BY <1>0, <1>3 DEF Doc, Work
<1>8. m.n = Abs(work[c].delta)
  BY DEF MoveOf
<1>9. CASE m.n = 0
  <2>1. work[c].delta = 0
    BY <1>7, <1>8, <1>9 DEF Abs
  <2>2. qty' = qty
    BY <1>2, <1>9 DEF Commit
  <2>3. QED
    BY <1>3, <1>5, <1>6, <1>7, <2>1, <2>2
<1>10. CASE m.n # 0
  <2>1. qty' = [qty EXCEPT ![w] = NewQuantity(r.op, work[c].qty, work[c].delta)]
    BY <1>2, <1>10 DEF Commit
  <2>2. NewQuantity(r.op, work[c].qty, work[c].delta) = qty[w] + work[c].delta
    BY <1>5, <1>6 DEF NewQuantity
  <2>3. QED
    BY <1>0, <1>3, <1>5, <1>6, <1>7, <2>1, <2>2
<1>11. QED
  BY <1>9, <1>10

\* A posted counting document leaves the quantity that was counted, whatever happened
\* between its draft and its posting, one request at a time.
THEOREM CountsAreApplied == ASSUME OneClient PROVE Spec => CountIsApplied
<1>1. FreshInv /\ [Next]_vars =>
        [\A d \in Docs :
           doc[d].kind # "AUDIT" /\ doc[d].st = "DRAFT" /\ doc'[d].st = "POSTED"
             => qty'[doc[d].wh] = doc[d].fact]_vars
  BY CountCommitted
<1>2. QED
  BY <1>1, FreshInvariance, PTL DEF Spec, CountIsApplied

-----------------------------------------------------------------------------
\* Stock is never issued beyond what there is.
NoShortage == ~AllowNegative /\ "APPROVE" \notin Requests

\* Every row holds the balance of its movements, and as many layers.
Rows(mv, q) == \A w \in Warehouses : q[w] = Balance(mv[w]) /\ q[w] >= 0
Layered(mv, q) == \A w \in Warehouses : Len(Layers(mv[w])) = q[w]

\* A receipt of whole unit costs, an issue at the cost of the oldest layers.
Priced(s, m) ==
  IF m.in THEN \E u \in Nat : m.cost = m.n * u
  ELSE m.cost = Total(SubSeq(Layers(s), 1, m.n))

InOrder(s, d) == ~(NotAfter(s, d) < Len(s))

LEMMA RowMoved ==
  ASSUME NEW s \in Seq(Movement), NEW m \in Movement, NEW q \in Int, NEW t, t = Inserted(s, m),
         q = Balance(s), q + Signed(m, m.n) >= 0
  PROVE  /\ t \in Seq(Movement) /\ Balance(t) = q + Signed(m, m.n)
         /\ InOrder(s, m.date) /\ Len(Layers(s)) = q =>
              /\ Len(Layers(t)) = q + Signed(m, m.n)
              /\ Priced(s, m) => Total(Layers(t)) = Total(Layers(s)) + Signed(m, m.cost)
              /\ InOrder(t, m.date)
<1>1. t \in Seq(Movement) /\ Balance(t) = q + Signed(m, m.n)
  BY InsertedAt, SumsOfInserted
<1>2. m.date \in Nat /\ m.n \in Nat /\ m.cost \in Nat /\ m.in \in BOOLEAN
  BY DEF Movement
<1> SUFFICES ASSUME InOrder(s, m.date), Len(Layers(s)) = q
             PROVE  /\ Len(Layers(t)) = q + Signed(m, m.n)
                    /\ Priced(s, m) => Total(Layers(t)) = Total(Layers(s)) + Signed(m, m.cost)
                    /\ InOrder(t, m.date)
  BY <1>1
<1>3. \A k \in 1..Len(s) : s[k].date <= m.date
  <2>1. Len(s) \in Nat /\ NotAfter(s, m.date) \in 0..Len(s)
    BY <1>2, LenProperties, NotAfterCounts
  <2>2. NotAfter(s, m.date) = Len(s)
    BY <2>1 DEF InOrder
  <2>3. QED
    BY <1>2, <2>2, NotAfterCounts
<1>4. t = Append(s, m) /\ \A k \in 1..Len(s) + 1 : t[k].date <= m.date
  BY <1>3, InsertedLast
<1>5. InOrder(t, m.date)
  <2>1. Len(t) = Len(s) + 1
    BY <1>4, AppendProperties
  <2>2. NotAfter(t, m.date) = Len(t) /\ Len(t) \in Nat
    BY <1>1, <1>2, <1>4, <2>1, NotAfterCounts, LenProperties
  <2>3. QED
    BY <2>2 DEF InOrder
<1>6. Total(Layers(s)) \in Nat
  <2>1. Layers(s) \in Seq(Nat)
    BY LayersType
  <2>2. QED
    BY <2>1, TotalType
<1>7. CASE m.in
  <2>1. Signed(m, m.n) = m.n /\ Signed(m, m.cost) = m.cost
    BY <1>7 DEF Signed
  <2>2. Len(Layers(t)) = q + m.n
    BY <1>4, <1>7, LayersOfReceipt
  <2>3. ASSUME Priced(s, m) PROVE Total(Layers(t)) = Total(Layers(s)) + m.cost
    <3>1. \E u \in Nat : m.cost = m.n * u
      BY <1>7, <2>3 DEF Priced
    <3>2. QED
      BY <1>4, <1>7, <3>1, LayersOfReceipt
  <2>4. QED
    BY <1>5, <2>1, <2>2, <2>3
<1>8. CASE ~m.in
  <2>1. Signed(m, m.n) = -m.n /\ Signed(m, m.cost) = -m.cost
    BY <1>8 DEF Signed
  <2>2. m.n <= Len(Layers(s))
    BY <1>2, <2>1
  <2>3. /\ Len(Layers(t)) = q - m.n
        /\ Total(Layers(t)) = Total(Layers(s)) - Total(SubSeq(Layers(s), 1, m.n))
    BY <1>4, <1>8, <2>2, LayersOfIssue
  <2>4. ASSUME Priced(s, m) PROVE Total(Layers(t)) = Total(Layers(s)) - m.cost
    <3>1. m.cost = Total(SubSeq(Layers(s), 1, m.n))
      BY <1>8, <2>4 DEF Priced
    <3>2. QED
      BY <2>3, <3>1
  <2>5. q - m.n = q + Signed(m, m.n) /\ Total(Layers(s)) - m.cost = Total(Layers(s)) + Signed(m, m.cost)
    BY <1>2, <1>6, <2>1
  <2>6. QED
    BY <1>5, <2>3, <2>4, <2>5
<1>9. QED
  BY <1>7, <1>8

\* A movement entered in one row, the quantity written with it.
Enters(mv, q, w, m, mv2, q2) ==
  /\ mv \in [Warehouses -> Seq(Movement)] /\ q \in [Warehouses -> Int] /\ w \in Warehouses /\ m \in Movement
  /\ mv2 = [mv EXCEPT ![w] = Inserted(mv[w], m)]
  /\ q2 = [q EXCEPT ![w] = q[w] + Signed(m, m.n)]
  /\ Rows(mv, q) /\ q[w] + Signed(m, m.n) >= 0

\* What becomes of the layers if the movement is not entered before a later one.
Moved(mv, q, w, m, mv2, q2) ==
  InOrder(mv[w], m.date) /\ Layered(mv, q) =>
    /\ Layered(mv2, q2) /\ InOrder(mv2[w], m.date)
    /\ Priced(mv[w], m) => CostOf(mv2) = CostOf(mv) + Signed(m, m.cost)

LEMMA RowEntered ==
  ASSUME NEW mv, NEW q, NEW w, NEW m, NEW mv2, NEW q2, Enters(mv, q, w, m, mv2, q2)
  PROVE  /\ mv2 \in [Warehouses -> Seq(Movement)] /\ q2 \in [Warehouses -> Int] /\ Rows(mv2, q2)
         /\ CostOf(mv) \in Int /\ CostOf(mv2) \in Int
         /\ \A v \in Warehouses \ {w} : mv2[v] = mv[v]
         /\ Moved(mv, q, w, m, mv2, q2)
<1>0. /\ mv \in [Warehouses -> Seq(Movement)] /\ q \in [Warehouses -> Int] /\ w \in Warehouses /\ m \in Movement
      /\ mv2 = [mv EXCEPT ![w] = Inserted(mv[w], m)] /\ q2 = [q EXCEPT ![w] = q[w] + Signed(m, m.n)]
      /\ Rows(mv, q) /\ q[w] + Signed(m, m.n) >= 0
  BY DEF Enters
<1> DEFINE s == mv[w]
           t == Inserted(mv[w], m)
           d == Signed(m, m.n)
<1>1. s \in Seq(Movement) /\ q[w] \in Int /\ q[w] = Balance(s) /\ d \in Int
  BY <1>0, SignedType DEF Rows
<1>2. /\ t \in Seq(Movement) /\ Balance(t) = q[w] + d
      /\ InOrder(s, m.date) /\ Len(Layers(s)) = q[w] =>
           /\ Len(Layers(t)) = q[w] + d
           /\ Priced(s, m) => Total(Layers(t)) = Total(Layers(s)) + Signed(m, m.cost)
           /\ InOrder(t, m.date)
  BY <1>0, <1>1, RowMoved
<1> HIDE DEF t, d
<1>3. /\ mv2 = [mv EXCEPT ![w] = t] /\ q2 = [q EXCEPT ![w] = q[w] + d] /\ q[w] + d >= 0
  BY <1>0 DEF t, d
<1>4. /\ mv2 \in [Warehouses -> Seq(Movement)] /\ CostOf(mv) \in Int /\ CostOf(mv2) \in Int
      /\ CostOf(mv2) = CostOf(mv) + Total(Layers(t)) - Total(Layers(s))
  <2>1. /\ [mv EXCEPT ![w] = t] \in [Warehouses -> Seq(Movement)] /\ CostOf(mv) \in Int
        /\ CostOf([mv EXCEPT ![w] = t]) = CostOf(mv) + Total(Layers(t)) - Total(Layers(s))
    BY <1>0, <1>2, OneRow
  <2>2. mv2 \in [Warehouses -> Seq(Movement)]
    BY <1>3, <2>1
  <2>3. CostOf(mv2) \in Int
    BY <1>0, <1>2, <2>2, OneRow
  <2>4. QED
    BY <1>3, <2>1, <2>2, <2>3
<1>5. /\ mv2[w] = t /\ q2[w] = q[w] + d /\ q2 \in [Warehouses -> Int]
      /\ \A v \in Warehouses \ {w} : mv2[v] = mv[v] /\ q2[v] = q[v]
  BY <1>0, <1>1, <1>3
<1>6. Rows(mv2, q2)
  BY <1>0, <1>1, <1>2, <1>3, <1>5 DEF Rows
<1>7. ASSUME InOrder(s, m.date), Layered(mv, q)
      PROVE  /\ Layered(mv2, q2) /\ InOrder(mv2[w], m.date)
             /\ Priced(s, m) => CostOf(mv2) = CostOf(mv) + Signed(m, m.cost)
  <2>1. Len(Layers(s)) = q[w]
    BY <1>0, <1>7 DEF Layered
  <2>2. Layered(mv2, q2)
    BY <1>0, <1>2, <1>5, <1>7, <2>1 DEF Layered
  <2>3. InOrder(mv2[w], m.date)
    BY <1>2, <1>5, <1>7, <2>1
  <2>4. ASSUME Priced(s, m) PROVE CostOf(mv2) = CostOf(mv) + Signed(m, m.cost)
    <3>1. Total(Layers(t)) = Total(Layers(s)) + Signed(m, m.cost)
      BY <1>2, <1>7, <2>1, <2>4
    <3>2. Total(Layers(s)) \in Nat /\ Signed(m, m.cost) \in Int
      <4>1. Layers(s) \in Seq(Nat)
        BY <1>1, LayersType
      <4>2. QED
        BY <1>0, <4>1, TotalType, SignedType
    <3>3. QED
      BY <1>4, <3>1, <3>2
  <2>5. QED
    BY <2>2, <2>3, <2>4
<1>8. Moved(mv, q, w, m, mv2, q2)
  BY <1>7 DEF Moved
<1>9. QED
  BY <1>4, <1>5, <1>6, <1>8

-----------------------------------------------------------------------------
\* The transaction found enough, and what it takes costs what the oldest layers cost.
Covered(p, r, x, q) ==
  p \in {"target", "target2", "commit"} =>
    /\ q[r.from] + x.delta >= 0
    /\ r.op \in {"BUY", "IN"} => x.delta = r.n
    /\ r.op \in {"SALE", "OUT", "MOVE", "RELEASE"} => x.delta = -r.n

Costed(p, r, x, mv) ==
  p \in {"target", "target2", "commit"} =>
    /\ x.delta > 0 => \E u \in Nat : x.cost = Abs(x.delta) * u
    /\ x.delta < 0 => x.cost = Total(SubSeq(Layers(mv[r.from]), 1, Abs(x.delta)))

SerialInv ==
  /\ FreshInv
  /\ Rows(moves, qty)
  /\ ~disordered => Layered(moves, qty)
  /\ Fifo /\ ~disordered => account = CostOf(moves)
  /\ \A c \in Clients : Covered(pc[c], req[c], work[c], qty)
  /\ Fifo /\ ~disordered => \A c \in Clients : Costed(pc[c], req[c], work[c], moves)

LEMMA InitSerial == Init => SerialInv
<1> SUFFICES ASSUME Init PROVE SerialInv
  OBVIOUS
<1>1. account = 0 /\ moves = [w \in Warehouses |-> <<>>] /\ qty = [w \in Warehouses |-> 0]
      /\ \A c \in Clients : pc[c] = "idle"
  BY DEF Init
<1>2. Rows(moves, qty)
  BY <1>1, SumsOfNone DEF Rows
<1>3. Layered(moves, qty)
  BY <1>1, NoLayers DEF Layered
<1>4. account = CostOf(moves)
  BY <1>1, WorthOfNone
<1>5. \A c \in Clients : Covered(pc[c], req[c], work[c], qty) /\ Costed(pc[c], req[c], work[c], moves)
  BY <1>1 DEF Covered, Costed
<1>6. QED
  BY <1>2, <1>3, <1>4, <1>5, InitFresh DEF SerialInv

\* What an issue costs while the layers cover it.
LEMMA IssueFromLayers ==
  ASSUME NEW w \in Warehouses, NEW n \in Nat, NEW x \in IssueCosts(w, n), TypeOK,
         Fifo, n <= Len(Layers(moves[w]))
  PROVE  x = Total(SubSeq(Layers(moves[w]), 1, n))
<1> DEFINE l == Layers(moves[w])
<1>1. l \in Seq(Nat)
  <2>1. moves[w] \in Seq(Movement)
    BY DEF TypeOK
  <2>2. QED
    BY <2>1, LayersType
<1>2. PICK p \in Prices : x = Total(SubSeq(l, 1, Lesser(n, Len(l)))) + (n - Lesser(n, Len(l))) * p
  BY DEF IssueCosts
<1>3. Len(l) \in Nat /\ n <= Len(l)
  BY <1>1, LenProperties
<1> HIDE DEF l
<1>4. Lesser(n, Len(l)) = n
  BY <1>3 DEF Lesser
<1>5. p \in Nat /\ (n - n) * p = 0
  BY StockAssumption
<1>6. SubSeq(l, 1, n) \in Seq(Nat)
  <2>1. \A i \in 1..n : l[i] \in Nat
    BY <1>1, <1>3, LenProperties
  <2>2. QED
    BY <2>1, SubSeqProperties
<1>7. Total(SubSeq(l, 1, n)) \in Nat
  BY <1>6, TotalType
<1>8. QED
  BY <1>2, <1>4, <1>5, <1>7 DEF l

LEMMA AbsFacts ==
  ASSUME NEW x \in Int
  PROVE  /\ x >= 0 => Abs(x) = x
         /\ x < 0 => Abs(x) = -x
         /\ Abs(-x) = Abs(x) /\ Abs(x) \in Nat
BY DEF Abs

LEMMA ReadSerial ==
  ASSUME NEW c \in Clients, NoShortage, SerialInv, ReadStep(c)
  PROVE  /\ Covered(pc'[c], req'[c], work'[c], qty')
         /\ Fifo /\ ~disordered => Costed(pc'[c], req'[c], work'[c], moves')
<1> DEFINE r == req[c]
           w == r.from
<1>0. TypeInv /\ TypeOK /\ Covered(pc[c], r, work[c], qty)
      /\ (Fifo /\ ~disordered => Costed(pc[c], r, work[c], moves))
  BY DEF SerialInv, FreshInv, TypeInv
<1>1. UNCHANGED <<qty, moves, req>>
  BY <1>0, ReadTyped
<1>2. work \in [Clients -> Work] /\ pc \in [Clients -> {"idle", "stock", "target", "target2", "again", "commit"}]
      /\ work[c] \in Work
  BY <1>0 DEF TypeOK
<1>3. pc[c] # "idle"
  BY DEF ReadStep, ReadReceipt, ReadIssue, ReadTarget, ReadCount, ReadAgain, ReadDifference
<1>4. Asked(r, doc, sale) /\ At(pc[c], r, doc, sale) /\ w \in Warehouses /\ qty[w] \in Int
  BY <1>0, <1>3, RequestOf
<1>5. qty[w] >= 0 /\ (~disordered => Len(Layers(moves[w])) = qty[w])
  BY <1>4 DEF SerialInv, Rows, Layered
<1>6. ~AllowNegative /\ r.op # "APPROVE"
  BY <1>4 DEF NoShortage, Asked
<1>7. /\ Covered(pc'[c], r, work'[c], qty)
      /\ Fifo /\ ~disordered => Costed(pc'[c], r, work'[c], moves)
  <2>1. CASE ReadReceipt(c)
    <3>1. /\ r.op \in {"BUY", "IN"} /\ r.n \in Nat \ {0} /\ r.price \in Nat
          /\ work'[c].delta = r.n /\ work'[c].cost = r.n * r.price
      BY <1>2, <1>4, <2>1 DEF ReadReceipt, Asked
    <3>2. Covered(pc'[c], r, work'[c], qty)
      BY <1>4, <1>5, <3>1 DEF Covered
    <3>3. Abs(r.n) = r.n /\ r.n \in Int /\ ~(r.n < 0)
      BY <3>1, AbsFacts
    <3>4. Costed(pc'[c], r, work'[c], moves)
      BY <3>1, <3>3 DEF Costed
    <3>5. QED
      BY <3>2, <3>4
  <2>2. CASE ReadIssue(c)
    <3>1. PICK x \in IssueCosts(w, r.n) :
            work' = [work EXCEPT ![c] = [qty |-> qty[w], delta |-> -r.n, cost |-> x, other |-> 0]]
      BY <2>2 DEF ReadIssue
    <3>2. /\ r.op \in {"SALE", "OUT", "MOVE", "RELEASE"} /\ r.n \in Nat \ {0} /\ qty[w] >= r.n
          /\ work'[c].delta = -r.n /\ work'[c].cost = x
      BY <1>2, <1>4, <1>6, <2>2, <3>1 DEF ReadIssue, Asked, Suffices
    <3>3. Covered(pc'[c], r, work'[c], qty)
      BY <1>4, <1>5, <3>2 DEF Covered
    <3>4. ASSUME Fifo, ~disordered PROVE Costed(pc'[c], r, work'[c], moves)
      <4>1. r.n \in Nat /\ r.n <= Len(Layers(moves[w]))
        BY <1>5, <3>2, <3>4
      <4>2. x = Total(SubSeq(Layers(moves[w]), 1, r.n))
        <5> HIDE DEF w, r
        <5>1. QED
          BY <1>0, <1>4, <3>4, <4>1, IssueFromLayers
      <4>3. Abs(-r.n) = r.n /\ ~(-r.n > 0)
        BY <3>2 DEF Abs
      <4>4. QED
        BY <3>2, <4>2, <4>3 DEF Costed
    <3>5. QED
      BY <3>3, <3>4
  <2>3. CASE ReadTarget(c)
    <3>1. pc[c] = "target" /\ pc'[c] = "target2" /\ work' = [work EXCEPT ![c].other = qty[r.to]]
      BY <1>2, <2>3 DEF ReadTarget
    <3>2. work'[c].delta = work[c].delta /\ work'[c].cost = work[c].cost
      BY <1>2, <3>1 DEF Work
    <3>3. Covered(pc'[c], r, work'[c], qty)
      BY <1>0, <3>1, <3>2 DEF Covered
    <3>4. ASSUME Fifo, ~disordered PROVE Costed(pc'[c], r, work'[c], moves)
      BY <1>0, <3>1, <3>2, <3>4 DEF Costed
    <3>5. QED
      BY <3>3, <3>4
  <2>4. CASE ReadCount(c)
    <3>1. pc'[c] = "again"
      BY <1>2, <2>4 DEF ReadCount
    <3>2. QED
      BY <3>1 DEF Covered, Costed
  <2>5. CASE ReadAgain(c)
    <3> DEFINE delta == work[c].delta
    <3>0. delta \in Int /\ r.op = "POST" /\ pc'[c] = "commit"
      BY <1>2, <1>4, <2>5 DEF Work, ReadAgain, At
    <3>1. PICK x \in IF delta < 0 THEN IssueCosts(w, -delta) ELSE {delta * p : p \in Prices} :
            work' = [work EXCEPT ![c] = [@ EXCEPT !.qty = qty[w], !.cost = x]]
      BY <2>5 DEF ReadAgain
    <3>2. work'[c].delta = delta /\ work'[c].cost = x
      BY <1>2, <3>1 DEF Work
    <3>3. delta < 0 => qty[w] >= -delta
      BY <1>6, <2>5 DEF ReadAgain, Suffices
    <3>4. qty[w] + delta >= 0
      BY <1>4, <1>5, <3>0, <3>3
    <3>5. Covered(pc'[c], r, work'[c], qty)
      BY <3>0, <3>2, <3>4 DEF Covered
    <3>6. ASSUME Fifo, ~disordered PROVE Costed(pc'[c], r, work'[c], moves)
      <4> HIDE DEF delta
      <4>1. ASSUME delta < 0 PROVE x = Total(SubSeq(Layers(moves[w]), 1, Abs(delta)))
        <5> DEFINE n == -delta
        <5>1. n \in Nat /\ n <= Len(Layers(moves[w])) /\ x \in IssueCosts(w, n) /\ Abs(delta) = n
          BY <1>5, <3>0, <3>1, <3>3, <3>6, <4>1, AbsFacts
        <5> HIDE DEF n, w, r
        <5>2. QED
          BY <1>0, <1>4, <3>6, <5>1, IssueFromLayers
      <4>2. ASSUME delta > 0 PROVE \E u \in Nat : x = Abs(delta) * u
        <5>1. ~(delta < 0) /\ Abs(delta) = delta
          BY <3>0, <4>2, AbsFacts
        <5>2. PICK p \in Prices : x = delta * p
          BY <3>1, <5>1
        <5>3. p \in Nat
          BY StockAssumption
        <5>4. QED
          BY <5>1, <5>2, <5>3
      <4>3. QED
        BY <3>2, <4>1, <4>2 DEF Costed
    <3>7. QED
      BY <3>5, <3>6
  <2>6. CASE ReadDifference(c)
    BY <1>6, <2>6 DEF ReadDifference
  <2>7. QED
    BY <2>1, <2>2, <2>3, <2>4, <2>5, <2>6 DEF ReadStep
<1>8. QED
  BY <1>1, <1>7

\* What the commits leave to the rows, the layers and the account.
RowsInv ==
  /\ Rows(moves, qty)
  /\ ~disordered => Layered(moves, qty)
  /\ Fifo /\ ~disordered => account = CostOf(moves)

LEMMA CommitRows ==
  ASSUME NEW c \in Clients, NoShortage, SerialInv, Commit(c)
  PROVE  RowsInv'
<1> DEFINE r == req[c]
           w == r.from
           delta == work[c].delta
           m == MoveOf(delta, work[c].cost, DateOf(r))
<1>0. TypeInv /\ Covered(pc[c], r, work[c], qty) /\ Fresh(pc[c], r, work[c], qty, doc)
      /\ (Fifo /\ ~disordered => Costed(pc[c], r, work[c], moves)) /\ RowsInv
  BY DEF SerialInv, FreshInv, RowsInv
<1>1. pc[c] = "commit"
  BY DEF Commit
<1>2. w \in Warehouses /\ work[c] \in Work
  BY <1>0, <1>1, RequestOf
<1>3. delta \in Int /\ work[c].cost \in Nat /\ DateOf(r) \in Nat
  <2>1. DateOf(r) \in Nat
    BY <1>0, <1>1, DateType
  <2>2. QED
    BY <1>2, <2>1 DEF Work
<1>4. moves \in [Warehouses -> Seq(Movement)] /\ account \in Int /\ qty \in [Warehouses -> Int]
  BY <1>0 DEF TypeInv, TypeOK
<1>5. work[c].qty = qty[w] /\ qty[w] + delta >= 0 /\ qty[w] \in Int /\ qty[w] >= 0
  <2>1. work[c].qty = qty[w] /\ qty[w] + delta >= 0
    BY <1>0, <1>1 DEF Fresh, Covered
  <2>2. qty[w] \in Int /\ qty[w] >= 0
    BY <1>0, <1>2, <1>4 DEF RowsInv, Rows
  <2>3. QED
    BY <2>1, <2>2
<1>6. CASE m.n = 0
  <2>1. UNCHANGED <<qty, moves, account, disordered>>
    BY <1>6 DEF Commit
  <2>2. QED
    BY <1>0, <2>1 DEF RowsInv
<1>7. CASE m.n # 0
  <2>1. /\ qty' = [qty EXCEPT ![w] = NewQuantity(r.op, work[c].qty, delta)]
        /\ moves' = [moves EXCEPT ![w] = Inserted(moves[w], m)]
        /\ account' = Booked(account, r.op, m, r.price)
        /\ disordered' = (disordered \/ NotAfter(moves[w], m.date) < Len(moves[w]))
    BY <1>7 DEF Commit
  <2>2. /\ m \in Movement /\ m.in = (delta > 0) /\ m.n = Abs(delta) /\ m.cost = work[c].cost
    BY <1>3, MoveType
  <2>3. delta # 0
    BY <1>3, <1>7, <2>2, AbsFacts
  <2> HIDE DEF m
  <2>4. Signed(m, m.n) = delta
    <3>1. CASE delta > 0
      <4>1. m.in = TRUE /\ m.n = delta
        <5>1. (delta > 0) = TRUE /\ Abs(delta) = delta
          BY <1>3, <3>1, AbsFacts
        <5>2. QED
          BY <2>2, <5>1
      <4>2. QED
        BY <4>1 DEF Signed
    <3>2. CASE delta < 0
      <4>1. m.in = FALSE /\ m.n = -delta
        <5>1. (delta > 0) = FALSE /\ Abs(delta) = -delta
          BY <1>3, <3>2, AbsFacts
        <5>2. QED
          BY <2>2, <5>1
      <4>2. -m.n = delta
        BY <1>3, <4>1
      <4>3. QED
        BY <4>1, <4>2 DEF Signed
    <3>3. QED
      BY <1>3, <2>3, <3>1, <3>2
  <2>5. NewQuantity(r.op, work[c].qty, delta) = qty[w] + Signed(m, m.n)
    <3>1. CASE r.op = "BUY" /\ work[c].qty <= 0
      <4>1. qty[w] + delta = delta
        BY <1>3, <1>5, <3>1
      <4>2. QED
        BY <2>4, <3>1, <4>1 DEF NewQuantity
    <3>2. CASE ~(r.op = "BUY" /\ work[c].qty <= 0)
      BY <1>5, <2>4, <3>2 DEF NewQuantity
    <3>3. QED
      BY <3>1, <3>2
  <2>6. account' = account + Signed(m, m.cost) /\ Signed(m, m.cost) \in Int
    BY <1>4, <2>1, <2>2, BookedIsSigned, SignedType
  <2>7. Fifo /\ ~disordered => Priced(moves[w], m)
    <3> SUFFICES ASSUME Fifo, ~disordered PROVE Priced(moves[w], m)
      OBVIOUS
    <3>1. /\ delta > 0 => \E u \in Nat : work[c].cost = Abs(delta) * u
          /\ delta < 0 => work[c].cost = Total(SubSeq(Layers(moves[w]), 1, Abs(delta)))
      BY <1>0, <1>1 DEF Costed
    <3>2. CASE delta > 0
      <4>1. m.in = TRUE /\ \E u \in Nat : m.cost = m.n * u
        BY <2>2, <3>1, <3>2
      <4>2. QED
        BY <4>1 DEF Priced
    <3>3. CASE delta < 0
      <4>1. m.in = FALSE /\ m.cost = Total(SubSeq(Layers(moves[w]), 1, m.n))
        <5>1. (delta > 0) = FALSE
          BY <1>3, <3>3
        <5>2. QED
          BY <2>2, <3>1, <3>3, <5>1
      <4>2. QED
        BY <4>1 DEF Priced
    <3>4. QED
      BY <1>3, <2>3, <3>2, <3>3
  <2> DEFINE mv2 == [moves EXCEPT ![w] = Inserted(moves[w], m)]
             q2 == [qty EXCEPT ![w] = qty[w] + Signed(m, m.n)]
  <2>8. moves' = mv2 /\ qty' = q2
    BY <2>1, <2>5
  <2>9. Rows(moves, qty) /\ qty[w] + Signed(m, m.n) >= 0
    BY <1>0, <1>5, <2>4 DEF RowsInv
  <2>10. mv2 = [moves EXCEPT ![w] = Inserted(moves[w], m)] /\ q2 = [qty EXCEPT ![w] = qty[w] + Signed(m, m.n)]
    OBVIOUS
  <2> HIDE DEF mv2, q2, w, r, delta
  <2>11. /\ Rows(mv2, q2)
         /\ InOrder(moves[w], m.date) /\ Layered(moves, qty) =>
              /\ Layered(mv2, q2)
              /\ Priced(moves[w], m) => CostOf(mv2) = CostOf(moves) + Signed(m, m.cost)
    <3>1. Enters(moves, qty, w, m, mv2, q2)
      BY <1>2, <1>4, <2>2, <2>9, <2>10 DEF Enters
    <3>2. Rows(mv2, q2) /\ Moved(moves, qty, w, m, mv2, q2)
      BY <3>1, RowEntered
    <3>3. QED
      BY <3>2 DEF Moved
  <2>12. ~disordered' => ~disordered /\ InOrder(moves[w], m.date)
    BY <2>1 DEF InOrder
  <2>13. Rows(moves', qty')
    BY <2>8, <2>11
  <2>14. ~disordered' => Layered(moves', qty')
    BY <1>0, <2>8, <2>11, <2>12 DEF RowsInv
  <2>15. Fifo /\ ~disordered' => account' = CostOf(moves')
    BY <1>0, <2>6, <2>7, <2>8, <2>11, <2>12 DEF RowsInv
  <2>16. QED
    BY <2>13, <2>14, <2>15 DEF RowsInv
<1>8. QED
  BY <1>6, <1>7

\* Two rows: what goes out of one comes into the other at the same cost.
LEMMA TransferRows ==
  ASSUME NEW c \in Clients, NoShortage, SerialInv, CommitTransfer(c)
  PROVE  RowsInv'
<1> DEFINE r == req[c]
           a == r.from
           b == r.to
           x == work[c].cost
           out == MoveOf(-r.n, x, r.date)
           in == MoveOf(r.n, x, r.date)
           mv1 == [moves EXCEPT ![a] = Inserted(moves[a], out)]
           q1 == [qty EXCEPT ![a] = qty[a] + Signed(out, out.n)]
           mv2 == [mv1 EXCEPT ![b] = Inserted(mv1[b], in)]
           q2 == [q1 EXCEPT ![b] = q1[b] + Signed(in, in.n)]
<1>0. TypeInv /\ Covered(pc[c], r, work[c], qty) /\ Fresh(pc[c], r, work[c], qty, doc)
      /\ (Fifo /\ ~disordered => Costed(pc[c], r, work[c], moves)) /\ RowsInv
  BY DEF SerialInv, FreshInv, RowsInv
<1>1. /\ pc[c] = "target2" /\ r.op = "MOVE" /\ account' = account
      /\ qty' = [qty EXCEPT ![a] = work[c].qty - r.n, ![b] = work[c].other + r.n]
      /\ moves' = [moves EXCEPT ![a] = Inserted(@, out), ![b] = Inserted(@, in)]
      /\ disordered' = (disordered \/ \E w \in {a, b} : NotAfter(moves[w], r.date) < Len(moves[w]))
  BY DEF CommitTransfer
<1>2. /\ a \in Warehouses /\ b \in Warehouses /\ b # a /\ r.n = 1 /\ r.date \in Nat /\ x \in Nat
  BY <1>0, <1>1, RequestOf DEF Asked, Work
<1>3. moves \in [Warehouses -> Seq(Movement)] /\ account \in Int /\ qty \in [Warehouses -> Int]
  BY <1>0 DEF TypeInv, TypeOK
<1>4. work[c].qty = qty[a] /\ work[c].other = qty[b] /\ qty[a] - 1 >= 0 /\ work[c].delta = -r.n
      /\ qty[a] \in Int /\ qty[b] \in Int /\ qty[b] >= 0
  <2>1. work[c].qty = qty[a] /\ work[c].other = qty[b] /\ qty[a] + work[c].delta >= 0 /\ work[c].delta = -r.n
    BY <1>0, <1>1 DEF Fresh, Covered
  <2>2. qty[a] \in Int /\ qty[b] \in Int /\ qty[b] >= 0
    BY <1>0, <1>2, <1>3 DEF RowsInv, Rows
  <2>3. -r.n = -1
    BY <1>2
  <2>4. qty[a] - 1 >= 0
    BY <2>1, <2>2, <2>3
  <2>5. QED
    BY <2>1, <2>2, <2>4
<1>5. /\ out \in Movement /\ out.in = FALSE /\ out.cost = x /\ out.n = 1 /\ out.date = r.date
      /\ in \in Movement /\ in.in = TRUE /\ in.cost = x /\ in.n = 1 /\ in.date = r.date
  <2>1. -r.n \in Int /\ r.n \in Int /\ (-r.n > 0) = FALSE /\ (r.n > 0) = TRUE /\ Abs(-r.n) = 1 /\ Abs(r.n) = 1
    <3>1. Abs(r.n) = r.n /\ Abs(-r.n) = Abs(r.n)
      BY <1>2, AbsFacts
    <3>2. QED
      BY <1>2, <3>1
  <2> HIDE DEF r, x
  <2>2. out \in Movement /\ out.in = (-r.n > 0) /\ out.cost = x /\ out.n = Abs(-r.n) /\ out.date = r.date
    <3>1. -r.n \in Int /\ x \in Nat /\ r.date \in Nat
      BY <1>2, <2>1
    <3>2. QED
      BY <3>1, MoveType
  <2>3. in \in Movement /\ in.in = (r.n > 0) /\ in.cost = x /\ in.n = Abs(r.n) /\ in.date = r.date
    <3>1. r.n \in Int /\ x \in Nat /\ r.date \in Nat
      BY <1>2, <2>1
    <3>2. QED
      BY <3>1, MoveType
  <2>4. QED
    BY <2>1, <2>2, <2>3
<1>6. Signed(out, out.n) = -1 /\ Signed(in, in.n) = 1 /\ Signed(out, out.cost) = -x /\ Signed(in, in.cost) = x
  BY <1>5 DEF Signed
<1> HIDE DEF out, in
<1>7. moves' = mv2
  BY <1>1, <1>2, <1>3
<1>8. qty' = q2
  <2>1. q1[b] = qty[b] /\ qty[a] + Signed(out, out.n) = work[c].qty - r.n /\ qty[b] + Signed(in, in.n) = work[c].other + r.n
    BY <1>2, <1>3, <1>4, <1>6
  <2>2. QED
    BY <1>1, <1>2, <1>3, <2>1
<1>9. ~disordered' => ~disordered /\ InOrder(moves[a], out.date) /\ InOrder(moves[b], in.date)
  BY <1>1, <1>5 DEF InOrder
<1>10. Fifo /\ ~disordered => Priced(moves[a], out)
  <2> SUFFICES ASSUME Fifo, ~disordered PROVE Priced(moves[a], out)
    OBVIOUS
  <2>1. work[c].delta < 0 /\ Abs(work[c].delta) = 1
    <3>1. Abs(r.n) = r.n /\ Abs(-r.n) = Abs(r.n)
      BY <1>2, AbsFacts
    <3>2. QED
      BY <1>2, <1>4, <3>1
  <2>2. x = Total(SubSeq(Layers(moves[a]), 1, 1))
    BY <1>0, <1>1, <2>1 DEF Costed
  <2>3. QED
    BY <1>5, <2>2 DEF Priced
<1>11. \A s : Priced(s, in)
  <2>1. x = 1 * x
    BY <1>2
  <2>2. \E u \in Nat : in.cost = in.n * u
    BY <1>2, <1>5, <2>1
  <2>3. QED
    BY <1>5, <2>2 DEF Priced
<1>12. Rows(moves, qty) /\ qty[a] + Signed(out, out.n) >= 0
  BY <1>0, <1>4, <1>6 DEF RowsInv
<1>13. mv1 = [moves EXCEPT ![a] = Inserted(moves[a], out)] /\ q1 = [qty EXCEPT ![a] = qty[a] + Signed(out, out.n)]
       /\ q1[b] = qty[b]
  BY <1>2, <1>3
<1>14. mv2 = [mv1 EXCEPT ![b] = Inserted(mv1[b], in)] /\ q2 = [q1 EXCEPT ![b] = q1[b] + Signed(in, in.n)]
  OBVIOUS
<1> HIDE DEF mv1, q1, mv2, q2, a, b, x, r
<1>15. /\ mv1 \in [Warehouses -> Seq(Movement)] /\ q1 \in [Warehouses -> Int] /\ Rows(mv1, q1)
       /\ CostOf(moves) \in Int /\ CostOf(mv1) \in Int
       /\ \A v \in Warehouses \ {a} : mv1[v] = moves[v]
       /\ InOrder(moves[a], out.date) /\ Layered(moves, qty) =>
            /\ Layered(mv1, q1)
            /\ Priced(moves[a], out) => CostOf(mv1) = CostOf(moves) + Signed(out, out.cost)
  <2>1. Enters(moves, qty, a, out, mv1, q1)
    BY <1>2, <1>3, <1>5, <1>12, <1>13 DEF Enters
  <2>2. /\ mv1 \in [Warehouses -> Seq(Movement)] /\ q1 \in [Warehouses -> Int] /\ Rows(mv1, q1)
        /\ CostOf(moves) \in Int /\ CostOf(mv1) \in Int
        /\ \A v \in Warehouses \ {a} : mv1[v] = moves[v]
        /\ Moved(moves, qty, a, out, mv1, q1)
    BY <2>1, RowEntered
  <2>3. QED
    BY <2>2 DEF Moved
<1>16. mv1[b] = moves[b] /\ q1[b] + Signed(in, in.n) >= 0
  BY <1>2, <1>4, <1>6, <1>13, <1>15
<1>17. /\ Rows(mv2, q2)
       /\ InOrder(mv1[b], in.date) /\ Layered(mv1, q1) =>
            /\ Layered(mv2, q2)
            /\ Priced(mv1[b], in) => CostOf(mv2) = CostOf(mv1) + Signed(in, in.cost)
  <2>1. Enters(mv1, q1, b, in, mv2, q2)
    BY <1>2, <1>5, <1>14, <1>15, <1>16 DEF Enters
  <2>2. Rows(mv2, q2) /\ Moved(mv1, q1, b, in, mv2, q2)
    BY <2>1, RowEntered
  <2>3. QED
    BY <2>2 DEF Moved
<1>18. ~disordered' => Layered(mv2, q2)
  BY <1>0, <1>9, <1>15, <1>16, <1>17 DEF RowsInv
<1>19. Fifo /\ ~disordered' => account = CostOf(mv2)
  <2> SUFFICES ASSUME Fifo, ~disordered' PROVE account = CostOf(mv2)
    OBVIOUS
  <2>1. ~disordered /\ account = CostOf(moves) /\ Layered(moves, qty)
    BY <1>0, <1>9 DEF RowsInv
  <2>2. CostOf(mv1) = CostOf(moves) + Signed(out, out.cost)
    BY <1>9, <1>10, <1>15, <2>1
  <2>3. CostOf(mv2) = CostOf(mv1) + Signed(in, in.cost)
    BY <1>9, <1>11, <1>15, <1>16, <1>17, <2>1
  <2>4. QED
    BY <1>2, <1>6, <1>15, <2>1, <2>2, <2>3
<1>20. QED
  BY <1>1, <1>7, <1>8, <1>17, <1>18, <1>19 DEF RowsInv

\* Material out, scrap back at no cost, the product in at the cost of the material.
LEMMA ReleaseRows ==
  ASSUME NEW c \in Clients, NoShortage, SerialInv, CommitRelease(c)
  PROVE  RowsInv'
<1> DEFINE r == req[c]
           a == r.from
           b == r.to
           x == work[c].cost
           k == r.id.returns
           out == MoveOf(-r.n, x, r.date)
           in == MoveOf(1, x, r.date)
           scrap == MoveOf(k, 0, r.date)
           mv1 == [moves EXCEPT ![a] = Inserted(moves[a], out)]
           q1 == [qty EXCEPT ![a] = qty[a] + Signed(out, out.n)]
           mvs == [mv1 EXCEPT ![a] = Inserted(mv1[a], scrap)]
           qs == [q1 EXCEPT ![a] = q1[a] + Signed(scrap, scrap.n)]
           mv2 == IF scrap.n = 0 THEN mv1 ELSE mvs
           q2 == IF scrap.n = 0 THEN q1 ELSE qs
           mv3 == [mv2 EXCEPT ![b] = Inserted(mv2[b], in)]
           q3 == [q2 EXCEPT ![b] = q2[b] + Signed(in, in.n)]
<1>0. TypeInv /\ Covered(pc[c], r, work[c], qty) /\ Fresh(pc[c], r, work[c], qty, doc)
      /\ (Fifo /\ ~disordered => Costed(pc[c], r, work[c], moves)) /\ RowsInv
  BY DEF SerialInv, FreshInv, RowsInv
<1>1. /\ pc[c] = "target2" /\ r.op = "RELEASE"
      /\ qty' = [qty EXCEPT ![a] = work[c].qty - r.n + scrap.n, ![b] = work[c].other + 1]
      /\ moves' = [moves EXCEPT ![a] = IF scrap.n = 0 THEN Inserted(@, out) ELSE Inserted(Inserted(@, out), scrap),
                                ![b] = Inserted(@, in)]
      /\ account' = Booked(Booked(account, r.op, out, 0), r.op, in, 0)
      /\ disordered' = (disordered \/ \E w \in {a, b} : NotAfter(moves[w], r.date) < Len(moves[w]))
  BY DEF CommitRelease
<1>2. /\ a \in Warehouses /\ b \in Warehouses /\ b # a /\ r.n \in Nat \ {0} /\ r.date \in Nat /\ x \in Nat
      /\ k \in Nat
  BY <1>0, <1>1, RequestOf, StockAssumption DEF Asked, Work
<1>3. moves \in [Warehouses -> Seq(Movement)] /\ account \in Int /\ qty \in [Warehouses -> Int]
  BY <1>0 DEF TypeInv, TypeOK
<1>4. work[c].qty = qty[a] /\ work[c].other = qty[b] /\ qty[a] - r.n >= 0 /\ work[c].delta = -r.n
      /\ qty[a] \in Int /\ qty[b] \in Int /\ qty[b] >= 0
  <2>1. work[c].qty = qty[a] /\ work[c].other = qty[b] /\ qty[a] + work[c].delta >= 0 /\ work[c].delta = -r.n
    BY <1>0, <1>1 DEF Fresh, Covered
  <2>2. qty[a] \in Int /\ qty[b] \in Int /\ qty[b] >= 0
    BY <1>0, <1>2, <1>3 DEF RowsInv, Rows
  <2>3. qty[a] - r.n >= 0
    BY <1>2, <2>1, <2>2
  <2>4. QED
    BY <2>1, <2>2, <2>3
<1>5. /\ out \in Movement /\ out.in = FALSE /\ out.cost = x /\ out.n = r.n /\ out.date = r.date
      /\ in \in Movement /\ in.in = TRUE /\ in.cost = x /\ in.n = 1 /\ in.date = r.date
      /\ scrap \in Movement /\ scrap.cost = 0 /\ scrap.n = k /\ scrap.date = r.date
      /\ scrap.n # 0 => scrap.in = TRUE
  <2>1. /\ -r.n \in Int /\ (-r.n > 0) = FALSE /\ (1 > 0) = TRUE /\ 1 \in Int /\ 0 \in Nat /\ k \in Int
        /\ Abs(-r.n) = r.n /\ Abs(1) = 1 /\ Abs(k) = k /\ (k # 0 => (k > 0) = TRUE)
    <3>1. Abs(r.n) = r.n /\ Abs(-r.n) = Abs(r.n) /\ Abs(1) = 1 /\ Abs(k) = k
      BY <1>2, AbsFacts
    <3>2. QED
      BY <1>2, <3>1
  <2> HIDE DEF r, x, k
  <2>2. out \in Movement /\ out.in = (-r.n > 0) /\ out.cost = x /\ out.n = Abs(-r.n) /\ out.date = r.date
    <3>1. -r.n \in Int /\ x \in Nat /\ r.date \in Nat
      BY <1>2, <2>1
    <3>2. QED
      BY <3>1, MoveType
  <2>3. in \in Movement /\ in.in = (1 > 0) /\ in.cost = x /\ in.n = Abs(1) /\ in.date = r.date
    <3>1. 1 \in Int /\ x \in Nat /\ r.date \in Nat
      BY <1>2, <2>1
    <3>2. QED
      BY <3>1, MoveType
  <2>4. scrap \in Movement /\ scrap.in = (k > 0) /\ scrap.cost = 0 /\ scrap.n = Abs(k) /\ scrap.date = r.date
    <3>1. k \in Int /\ 0 \in Nat /\ r.date \in Nat
      BY <1>2, <2>1
    <3>2. QED
      BY <3>1, MoveType
  <2>5. QED
    BY <2>1, <2>2, <2>3, <2>4
<1>6. /\ Signed(out, out.n) = -r.n /\ Signed(in, in.n) = 1 /\ Signed(out, out.cost) = -x /\ Signed(in, in.cost) = x
      /\ scrap.n # 0 => Signed(scrap, scrap.n) = k /\ Signed(scrap, scrap.cost) = 0
  BY <1>5 DEF Signed
<1> HIDE DEF out, in, scrap
<1>7. q1[a] = qty[a] - r.n /\ q1[b] = qty[b] /\ q1[a] \in Int /\ q1[a] >= 0 /\ mv1[b] = moves[b]
  BY <1>2, <1>3, <1>4, <1>6
<1>8. moves' = mv3
  <2>1. CASE scrap.n = 0
    BY <1>1, <1>2, <1>3, <2>1
  <2>2. CASE scrap.n # 0
    BY <1>1, <1>2, <1>3, <2>2
  <2>3. QED
    BY <2>1, <2>2
<1>9. qty' = q3 /\ q2[b] = qty[b]
  <2> DEFINE y == work[c].qty - r.n + scrap.n
             z == work[c].other + 1
  <2>1. qty' = [qty EXCEPT ![a] = y, ![b] = z]
    BY <1>1
  <2>2. z = qty[b] + Signed(in, in.n)
    BY <1>4, <1>6
  <2>3. CASE scrap.n = 0
    <3>1. y = qty[a] + Signed(out, out.n)
      BY <1>2, <1>4, <1>6, <2>3
    <3> HIDE DEF y, z
    <3>2. q2 = q1 /\ q2[b] = qty[b]
      BY <1>7, <2>3
    <3>3. QED
      BY <1>2, <1>3, <2>1, <2>2, <3>1, <3>2
  <2>4. CASE scrap.n # 0
    <3>1. y = q1[a] + Signed(scrap, scrap.n)
      BY <1>2, <1>4, <1>5, <1>6, <1>7, <2>4
    <3> HIDE DEF y, z
    <3>2. q2 = qs /\ q2[b] = qty[b]
      BY <1>2, <1>3, <1>7, <2>4
    <3>3. QED
      BY <1>2, <1>3, <2>1, <2>2, <3>1, <3>2
  <2>5. QED
    BY <2>3, <2>4
<1>10. ~disordered' => ~disordered /\ InOrder(moves[a], out.date) /\ InOrder(moves[b], in.date)
  BY <1>1, <1>5 DEF InOrder
<1>11. Fifo /\ ~disordered => Priced(moves[a], out)
  <2> SUFFICES ASSUME Fifo, ~disordered PROVE Priced(moves[a], out)
    OBVIOUS
  <2>1. work[c].delta < 0 /\ Abs(work[c].delta) = r.n
    <3>1. Abs(r.n) = r.n /\ Abs(-r.n) = Abs(r.n)
      BY <1>2, AbsFacts
    <3>2. QED
      BY <1>2, <1>4, <3>1
  <2>2. x = Total(SubSeq(Layers(moves[a]), 1, r.n))
    BY <1>0, <1>1, <2>1 DEF Costed
  <2>3. QED
    BY <1>5, <2>2 DEF Priced
<1>12. \A s : Priced(s, in) /\ (scrap.n # 0 => Priced(s, scrap))
  <2>1. x = 1 * x /\ 0 = k * 0
    BY <1>2
  <2>2. (\E u \in Nat : in.cost = in.n * u) /\ (\E u \in Nat : scrap.cost = scrap.n * u)
    BY <1>2, <1>5, <2>1
  <2>3. QED
    BY <1>5, <2>2 DEF Priced
<1>13. Rows(moves, qty) /\ qty[a] + Signed(out, out.n) >= 0
  BY <1>0, <1>4, <1>6 DEF RowsInv
<1>14. account' = account
  <2> DEFINE y == Booked(account, r.op, out, 0)
  <2>1. y = account + Signed(out, out.cost)
    BY <1>3, <1>5, BookedIsSigned
  <2>2. y \in Int
    BY <1>2, <1>3, <1>6, <2>1
  <2> HIDE DEF y
  <2>3. Booked(y, r.op, in, 0) = y + Signed(in, in.cost)
    BY <1>5, <2>2, BookedIsSigned
  <2>4. account' = Booked(y, r.op, in, 0)
    BY <1>1 DEF y
  <2>5. QED
    BY <1>2, <1>3, <1>6, <2>1, <2>2, <2>3, <2>4
<1>15. mv1 = [moves EXCEPT ![a] = Inserted(moves[a], out)] /\ q1 = [qty EXCEPT ![a] = qty[a] + Signed(out, out.n)]
       /\ mvs = [mv1 EXCEPT ![a] = Inserted(mv1[a], scrap)] /\ qs = [q1 EXCEPT ![a] = q1[a] + Signed(scrap, scrap.n)]
       /\ mv2 = (IF scrap.n = 0 THEN mv1 ELSE mvs) /\ q2 = (IF scrap.n = 0 THEN q1 ELSE qs)
       /\ mv3 = [mv2 EXCEPT ![b] = Inserted(mv2[b], in)] /\ q3 = [q2 EXCEPT ![b] = q2[b] + Signed(in, in.n)]
  OBVIOUS
<1> HIDE DEF mv1, q1, mvs, qs, mv2, q2, mv3, q3, a, b, x, r, k
<1>16. /\ mv1 \in [Warehouses -> Seq(Movement)] /\ q1 \in [Warehouses -> Int] /\ Rows(mv1, q1)
       /\ CostOf(moves) \in Int /\ CostOf(mv1) \in Int
       /\ Moved(moves, qty, a, out, mv1, q1)
  <2>1. Enters(moves, qty, a, out, mv1, q1)
    BY <1>2, <1>3, <1>5, <1>13, <1>15 DEF Enters
  <2>2. QED
    BY <2>1, RowEntered
<1>17. scrap.n # 0 =>
         /\ mvs \in [Warehouses -> Seq(Movement)] /\ qs \in [Warehouses -> Int] /\ Rows(mvs, qs)
         /\ CostOf(mvs) \in Int /\ mvs[b] = moves[b]
         /\ Moved(mv1, q1, a, scrap, mvs, qs)
  <2> SUFFICES ASSUME scrap.n # 0
               PROVE  /\ mvs \in [Warehouses -> Seq(Movement)] /\ qs \in [Warehouses -> Int] /\ Rows(mvs, qs)
                      /\ CostOf(mvs) \in Int /\ mvs[b] = moves[b]
                      /\ Moved(mv1, q1, a, scrap, mvs, qs)
    OBVIOUS
  <2>1. q1[a] + Signed(scrap, scrap.n) >= 0
    BY <1>2, <1>6, <1>7
  <2>2. Enters(mv1, q1, a, scrap, mvs, qs)
    BY <1>2, <1>5, <1>15, <1>16, <2>1 DEF Enters
  <2>3. /\ mvs \in [Warehouses -> Seq(Movement)] /\ qs \in [Warehouses -> Int] /\ Rows(mvs, qs)
        /\ CostOf(mvs) \in Int /\ \A v \in Warehouses \ {a} : mvs[v] = mv1[v]
        /\ Moved(mv1, q1, a, scrap, mvs, qs)
    BY <2>2, RowEntered
  <2>4. QED
    BY <1>2, <1>7, <2>3
<1>18. /\ mv2 \in [Warehouses -> Seq(Movement)] /\ q2 \in [Warehouses -> Int] /\ Rows(mv2, q2)
       /\ CostOf(mv2) \in Int /\ mv2[b] = moves[b]
  <2>1. CASE scrap.n = 0
    BY <1>7, <1>15, <1>16, <2>1
  <2>2. CASE scrap.n # 0
    BY <1>15, <1>17, <2>2
  <2>3. QED
    BY <2>1, <2>2
<1>19. InOrder(moves[a], out.date) /\ Layered(moves, qty) =>
         Layered(mv2, q2) /\ (Priced(moves[a], out) => CostOf(mv2) = CostOf(moves) - x)
  <2> SUFFICES ASSUME InOrder(moves[a], out.date), Layered(moves, qty)
               PROVE  Layered(mv2, q2) /\ (Priced(moves[a], out) => CostOf(mv2) = CostOf(moves) - x)
    OBVIOUS
  <2>1. /\ Layered(mv1, q1) /\ InOrder(mv1[a], out.date)
        /\ Priced(moves[a], out) => CostOf(mv1) = CostOf(moves) + Signed(out, out.cost)
    BY <1>16 DEF Moved
  <2>2. Priced(moves[a], out) => CostOf(mv1) = CostOf(moves) - x
    BY <1>2, <1>6, <1>16, <2>1
  <2>3. CASE scrap.n = 0
    BY <1>15, <2>1, <2>2, <2>3
  <2>4. CASE scrap.n # 0
    <3>1. Layered(mvs, qs) /\ CostOf(mvs) = CostOf(mv1) + Signed(scrap, scrap.cost)
      <4>1. out.date = scrap.date
        BY <1>5
      <4>2. Priced(mv1[a], scrap)
        BY <1>12, <2>4
      <4>3. QED
        BY <1>17, <2>1, <2>4, <4>1, <4>2 DEF Moved
    <3>2. CostOf(mvs) = CostOf(mv1)
      BY <1>6, <1>16, <2>4, <3>1
    <3>3. QED
      BY <1>15, <2>2, <2>4, <3>1, <3>2
  <2>5. QED
    BY <2>3, <2>4
<1>20. Rows(mv3, q3) /\ Moved(mv2, q2, b, in, mv3, q3) /\ CostOf(mv3) \in Int
  <2>1. q2[b] + Signed(in, in.n) >= 0
    BY <1>4, <1>6, <1>9
  <2>2. Enters(mv2, q2, b, in, mv3, q3)
    BY <1>2, <1>5, <1>15, <1>18, <2>1 DEF Enters
  <2>3. QED
    BY <2>2, RowEntered
<1>21. ~disordered' => Layered(mv3, q3)
  BY <1>0, <1>10, <1>18, <1>19, <1>20 DEF RowsInv, Moved
<1>22. Fifo /\ ~disordered' => account = CostOf(mv3)
  <2> SUFFICES ASSUME Fifo, ~disordered' PROVE account = CostOf(mv3)
    OBVIOUS
  <2>1. ~disordered /\ account = CostOf(moves) /\ Layered(moves, qty)
    BY <1>0, <1>10 DEF RowsInv
  <2>2. CostOf(mv2) = CostOf(moves) - x /\ Layered(mv2, q2)
    BY <1>10, <1>11, <1>19, <2>1
  <2>3. CostOf(mv3) = CostOf(mv2) + Signed(in, in.cost)
    BY <1>10, <1>12, <1>18, <1>20, <2>1, <2>2 DEF Moved
  <2>4. QED
    BY <1>2, <1>6, <1>16, <2>1, <2>2, <2>3
<1>23. QED
  BY <1>8, <1>9, <1>14, <1>20, <1>21, <1>22 DEF RowsInv

-----------------------------------------------------------------------------
\* What a client has read and computed, in a state of the invariant.
Planned(p, r, x, q, mv, d) == Covered(p, r, x, q) /\ (Fifo /\ ~d => Costed(p, r, x, mv))

LEMMA NothingPlanned ==
  ASSUME NEW p, NEW r, NEW x, NEW q, NEW mv, NEW d, p \notin {"target", "target2", "commit"}
  PROVE  Planned(p, r, x, q, mv, d)
BY DEF Planned, Covered, Costed

LEMMA StepSerial ==
  ASSUME OneClient, NoShortage, SerialInv, [Next]_vars
  PROVE  SerialInv'
<1> DEFINE Plan(c) == Planned(pc[c], req[c], work[c], qty, moves, disordered)
           Next1(c) == Planned(pc'[c], req'[c], work'[c], qty', moves', disordered')
<1>0. TypeInv /\ FreshInv /\ FreshInv' /\ RowsInv /\ \A c \in Clients : Plan(c)
  BY StepFresh DEF SerialInv, FreshInv, RowsInv, Planned
<1>1. ASSUME Document \/ NextDay \/ UNCHANGED vars PROVE RowsInv' /\ \A c \in Clients : Next1(c)
  <2>1. UNCHANGED <<qty, moves, account, pc, req, work, disordered>>
    BY <1>1, DocumentFrame DEF NextDay, vars
  <2>2. RowsInv'
    BY <1>0, <2>1 DEF RowsInv
  <2>3. \A c \in Clients : Next1(c)
    BY <1>0, <2>1
  <2>4. QED
    BY <2>2, <2>3
<1>2. ASSUME NEW c \in Clients, Request(c) \/ Abort(c) PROVE RowsInv' /\ Next1(c)
  <2>1. UNCHANGED <<qty, moves, account, disordered>>
    BY <1>0, <1>2, AcceptTyped, AbortTyped
  <2>2. pc'[c] \in {"stock", "idle"}
    <3>1. CASE Request(c)
      <4>1. PICK r : Accept(c, r)
        BY <3>1 DEF Request
      <4>2. QED
        BY <1>0, <4>1 DEF Accept, TypeInv, TypeOK
    <3>2. CASE Abort(c)
      BY <1>0, <3>2, FinishIsIdle DEF Abort
    <3>3. QED
      BY <1>2, <3>1, <3>2
  <2>3. RowsInv'
    BY <1>0, <2>1 DEF RowsInv
  <2>4. QED
    BY <2>2, <2>3, NothingPlanned
<1>3. ASSUME NEW c \in Clients, ReadStep(c) PROVE RowsInv' /\ Next1(c)
  <2>1. UNCHANGED <<qty, moves, account, disordered>>
    BY <1>0, <1>3, ReadTyped
  <2>2. RowsInv'
    BY <1>0, <2>1 DEF RowsInv
  <2>3. /\ Covered(pc'[c], req'[c], work'[c], qty')
        /\ Fifo /\ ~disordered => Costed(pc'[c], req'[c], work'[c], moves')
    BY <1>3, ReadSerial
  <2>4. QED
    BY <2>1, <2>2, <2>3 DEF Planned
<1>4. ASSUME NEW c \in Clients, Commit(c) \/ CommitTransfer(c) \/ CommitRelease(c) PROVE RowsInv' /\ Next1(c)
  <2>1. RowsInv'
    BY <1>4, CommitRows, TransferRows, ReleaseRows
  <2>2. pc'[c] = "idle"
    <3>1. Finish(c)
      BY <1>4 DEF Commit, CommitTransfer, CommitRelease
    <3>2. QED
      BY <1>0, <3>1, FinishIsIdle
  <2>3. QED
    BY <2>1, <2>2, NothingPlanned
<1>5. RowsInv' /\ \A c \in Clients : Next1(c)
  <2>1. ASSUME NEW c \in Clients, Request(c) \/ Transaction(c) \/ Abort(c)
        PROVE  RowsInv' /\ \A e \in Clients : Next1(e)
    <3>1. RowsInv' /\ Next1(c)
      BY <1>2, <1>3, <1>4, <2>1 DEF Transaction, ReadStep
    <3>2. \A e \in Clients : e = c
      BY DEF OneClient
    <3> HIDE DEF Next1
    <3>3. QED
      BY <3>1, <3>2
  <2>2. QED
    BY <1>1, <2>1 DEF Next
<1>6. QED
  BY <1>0, <1>5 DEF SerialInv, RowsInv, Planned

LEMMA SerialInvariance == ASSUME OneClient, NoShortage PROVE Spec => []SerialInv
BY InitSerial, StepSerial, PTL DEF Spec

\* One request at a time, negative stock forbidden, no audit approved: the quantity of a
\* stock row is the balance of its movements and never negative.
THEOREM QuantitiesAreMovements == ASSUME OneClient, NoShortage PROVE Spec => []QtyIsMovements
<1>1. SerialInv => QtyIsMovements
  BY DEF SerialInv, Rows, QtyIsMovements
<1>2. QED
  BY <1>1, SerialInvariance, PTL

\* Under the same assumptions, as long as movements are entered by date, the layers that a
\* FIFO replay finds are the units in stock.
THEOREM LayersAreQuantities == ASSUME OneClient, NoShortage PROVE Spec => []LayersAreStock
<1>1. SerialInv => LayersAreStock
  BY DEF SerialInv, Layered, LayersAreStock
<1>2. QED
  BY <1>1, SerialInvariance, PTL

\* Under FIFO the inventory accounts then carry exactly the cost of those layers: what an
\* issue takes out of the ledger is what the replay takes out of the layers.
THEOREM LedgerCarriesLayers == ASSUME OneClient, NoShortage, Fifo PROVE Spec => []LedgerIsLayers
<1>1. SerialInv => LedgerIsLayers
  BY DEF SerialInv, CostOf, LedgerIsLayers
<1>2. QED
  BY <1>1, SerialInvariance, PTL
=============================================================================
