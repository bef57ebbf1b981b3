------------------------- MODULE CauliBench_proofs -------------------------
(***************************************************************************)
(* What CauliBench.tla states, for every number of operations and every    *)
(* order of the keys: what each benchmark has met when it is measured, and *)
(* that the measure of the order experiment is Spearman's correlation.     *)
(***************************************************************************)
EXTENDS CauliBench, WellOrder_proofs, SequenceTheorems

-----------------------------------------------------------------------------
(* Sums over finite sets, as Folds computes them: what MapThenSumSet adds up *)

\* Among sets of elements of a finite set there is one with fewest elements.
LEMMA SmallestSet ==
  ASSUME NEW S, IsFiniteSet(S), NEW F, F \subseteq SUBSET S, F # {}
  PROVE  \E T \in F : \A U \in F : Cardinality(T) <= Cardinality(U)
<1> DEFINE Sizes == {Cardinality(T) : T \in F}
<1>1. \A T \in F : Cardinality(T) \in Nat
  BY FS_Subset, FS_CardinalityType
<1>2. Sizes \subseteq Nat /\ Sizes # {}
  BY <1>1
<1>3. PICK m \in Sizes : \A n \in Sizes : m <= n
  <2> HIDE DEF Sizes
  <2> QED BY <1>2, LeastNat
<1> QED BY <1>3

\* The element that a fold takes next.
Some(s) == CHOOSE x \in s : TRUE

\* f is how the sums of g over the subsets of S are computed.
IsSum(S, g, f) ==
  f = [s \in SUBSET S |-> IF s = {} THEN 0 ELSE g[Some(s)] + f[s \ {Some(s)}]]

\* A set of fewer elements, for the induction over subsets.
LEMMA Without ==
  ASSUME NEW S, IsFiniteSet(S), NEW s \in SUBSET S, NEW x \in s
  PROVE  /\ s \ {x} \in SUBSET S
         /\ Cardinality(s) \in Nat /\ Cardinality(s \ {x}) \in Nat
         /\ Cardinality(s \ {x}) = Cardinality(s) - 1
         /\ ~ (Cardinality(s) <= Cardinality(s \ {x}))
BY FS_Subset, FS_CardinalityType, FS_RemoveElement

LEMMA SomeIn == \A s : s # {} => Some(s) \in s
BY DEF Some

\* The sums exist: they are found for the sets of n elements, one n after the other.
LEMMA SumExists == ASSUME NEW S, IsFiniteSet(S), NEW g
                   PROVE  \E f : IsSum(S, g, f)
<1> DEFINE UpTo(n) == {s \in SUBSET S : Cardinality(s) <= n}
           SumTo(n, f) ==
             f = [s \in UpTo(n) |-> IF s = {} THEN 0 ELSE g[Some(s)] + f[s \ {Some(s)}]]
           Lacking == {n \in Nat : ~ \E f : SumTo(n, f)}
<1>1. \A s \in SUBSET S : Cardinality(s) \in Nat /\ Cardinality(s) <= Cardinality(S)
  BY FS_Subset, FS_CardinalityType
<1>2. \A n \in Nat : \A s \in UpTo(n) : s # {} =>
        s \ {Some(s)} \in UpTo(n) /\ Cardinality(s \ {Some(s)}) <= n - 1
  BY Without, SomeIn
<1>3. SumTo(0, [s \in UpTo(0) |-> 0])
  <2>1. \A s \in UpTo(0) : s = {}
    BY <1>1, FS_EmptySet, FS_Subset
  <2> HIDE DEF UpTo
  <2> QED BY <2>1
<1>4. ASSUME NEW n \in Nat \ {0}, NEW e, SumTo(n - 1, e)
      PROVE  \E f : SumTo(n, f)
  <2> DEFINE f == [s \in UpTo(n) |-> IF s \in UpTo(n - 1) THEN e[s]
                                     ELSE IF s = {} THEN 0 ELSE g[Some(s)] + e[s \ {Some(s)}]]
  <2>1. UpTo(n - 1) \subseteq UpTo(n)
    BY <1>1
  <2>2. \A s \in UpTo(n) : s # {} => s \ {Some(s)} \in UpTo(n - 1)
    BY <1>2
  <2>3. \A s \in UpTo(n - 1) : e[s] = IF s = {} THEN 0 ELSE g[Some(s)] + e[s \ {Some(s)}]
    <3> HIDE DEF UpTo
    <3> QED BY <1>4
  <2> HIDE DEF UpTo
  <2>4. \A s \in UpTo(n) : s # {} => f[s \ {Some(s)}] = e[s \ {Some(s)}]
    BY <2>1, <2>2
  <2>5. \A s \in UpTo(n) : f[s] = IF s = {} THEN 0 ELSE g[Some(s)] + f[s \ {Some(s)}]
    BY <2>3, <2>4
  <2>6. f = [s \in UpTo(n) |-> f[s]]
    OBVIOUS
  <2> HIDE DEF f
  <2>7. SumTo(n, f)
    BY <2>5, <2>6
  <2> QED BY <2>7
<1>5. Lacking = {}
  <2> SUFFICES ASSUME Lacking # {} PROVE FALSE
    OBVIOUS
  <2>1. Lacking \subseteq Nat
    OBVIOUS
  <2>2. PICK m \in Lacking : \A n \in Lacking : m <= n
    <3> HIDE DEF Lacking
    <3> QED BY <2>1, LeastNat
  <2>3. m \in Nat /\ ~ \E f : SumTo(m, f)
    OBVIOUS
  <2>4. m # 0
    BY <1>3, <2>3
  <2>5. m - 1 \in Nat /\ ~ (m <= m - 1)
    BY <2>3, <2>4
  <2>6. \E e : SumTo(m - 1, e)
    BY <2>2, <2>5
  <2> HIDE DEF SumTo
  <2> QED BY <1>4, <2>3, <2>4, <2>6
<1>6. Cardinality(S) \in Nat /\ UpTo(Cardinality(S)) = SUBSET S
  BY <1>1, FS_CardinalityType
<1>7. PICK f : SumTo(Cardinality(S), f)
  <2> HIDE DEF SumTo
  <2> QED BY <1>5, <1>6
<1> HIDE DEF UpTo
<1>8. IsSum(S, g, f)
  BY <1>6, <1>7 DEF IsSum
<1> QED BY <1>8

\* Sums of integers are integers.
LEMMA SumType ==
  ASSUME NEW S, IsFiniteSet(S), NEW g \in [S -> Int], NEW f, IsSum(S, g, f)
  PROVE  f \in [SUBSET S -> Int]
<1> DEFINE Wrong == {s \in SUBSET S : f[s] \notin Int}
<1>1. \A s \in SUBSET S : f[s] = IF s = {} THEN 0 ELSE g[Some(s)] + f[s \ {Some(s)}]
  BY DEF IsSum
<1>2. Wrong = {}
  <2> SUFFICES ASSUME Wrong # {} PROVE FALSE
    OBVIOUS
  <2>1. PICK s \in Wrong : \A t \in Wrong : Cardinality(s) <= Cardinality(t)
    <3>1. Wrong \subseteq SUBSET S
      OBVIOUS
    <3> HIDE DEF Wrong
    <3> QED BY <3>1, SmallestSet
  <2>2. s # {}
    <3>1. s \in SUBSET S /\ f[s] \notin Int
      OBVIOUS
    <3>2. s = {} => f[s] = 0
      BY <1>1, <3>1
    <3> QED BY <3>1, <3>2
  <2>3. Some(s) \in s /\ Some(s) \in S
    BY <2>2, SomeIn
  <2>4. s \ {Some(s)} \in SUBSET S /\ ~ (Cardinality(s) <= Cardinality(s \ {Some(s)}))
    BY <2>3, Without
  <2>5. f[s \ {Some(s)}] \in Int
    BY <2>1, <2>4
  <2>6. f[s] = g[Some(s)] + f[s \ {Some(s)}]
    BY <1>1, <2>2
  <2> QED BY <2>3, <2>5, <2>6
<1>3. f = [s \in SUBSET S |-> f[s]]
  BY DEF IsSum
<1> QED BY <1>2, <1>3

\* A sum does not depend on the order in which the elements are taken.
LEMMA SumWithout ==
  ASSUME NEW S, IsFiniteSet(S), NEW g \in [S -> Int], NEW f, IsSum(S, g, f),
         NEW t \in SUBSET S, NEW y \in t
  PROVE  f[t] = g[y] + f[t \ {y}]
<1> DEFINE Wrong == {s \in SUBSET S : \E x \in s : f[s] # g[x] + f[s \ {x}]}
<1>1. \A s \in SUBSET S : f[s] = IF s = {} THEN 0 ELSE g[Some(s)] + f[s \ {Some(s)}]
  BY DEF IsSum
<1>2. \A s \in SUBSET S : f[s] \in Int
  <2>1. f \in [SUBSET S -> Int]
    BY SumType
  <2> QED BY <2>1
<1>3. Wrong = {}
  <2> SUFFICES ASSUME Wrong # {} PROVE FALSE
    OBVIOUS
  <2>1. PICK s \in Wrong : \A u \in Wrong : Cardinality(s) <= Cardinality(u)
    <3>1. Wrong \subseteq SUBSET S
      OBVIOUS
    <3> HIDE DEF Wrong
    <3> QED BY <3>1, SmallestSet
  <2>2. PICK x \in s : f[s] # g[x] + f[s \ {x}]
    OBVIOUS
  <2>3. s \in SUBSET S /\ Some(s) \in s
    BY <2>2, SomeIn
  <2> DEFINE c == Some(s)
  <2>4. f[s] = g[c] + f[s \ {c}]
    BY <1>1, <2>2, <2>3
  <2>5. c \in s /\ c # x
    BY <2>2, <2>3, <2>4
  <2> HIDE DEF c
  <2>6. /\ s \ {c} \in SUBSET S /\ ~ (Cardinality(s) <= Cardinality(s \ {c}))
        /\ s \ {x} \in SUBSET S /\ ~ (Cardinality(s) <= Cardinality(s \ {x}))
    BY <2>2, <2>3, <2>5, Without
  <2>7. s \ {c} \notin Wrong /\ s \ {x} \notin Wrong
    BY <2>1, <2>6
  <2>8. /\ f[s \ {c}] = g[x] + f[(s \ {c}) \ {x}]
        /\ f[s \ {x}] = g[c] + f[(s \ {x}) \ {c}]
    BY <2>2, <2>5, <2>6, <2>7
  <2>9. (s \ {c}) \ {x} = (s \ {x}) \ {c} /\ (s \ {c}) \ {x} \in SUBSET S
    BY <2>6
  <2>10. g[x] \in Int /\ g[c] \in Int /\ f[(s \ {c}) \ {x}] \in Int
    BY <1>2, <2>2, <2>3, <2>5, <2>9
  <2>11. f[s] = g[c] + (g[x] + f[(s \ {c}) \ {x}])
    BY <2>4, <2>8
  <2>12. f[s \ {x}] = g[c] + f[(s \ {c}) \ {x}]
    BY <2>8, <2>9
  <2>13. f[s] = g[x] + f[s \ {x}]
    BY <2>10, <2>11, <2>12
  <2> QED BY <2>2, <2>13
<1> QED BY <1>3

\* The sum of nothing.
LEMMA SumEmpty ==
  ASSUME NEW S, NEW g, NEW f, IsSum(S, g, f)
  PROVE  f[{}] = 0
BY DEF IsSum

-----------------------------------------------------------------------------
(* The measure of the order experiment *)

\* The orders in which shuffled keys may lie.
Permutation == {f \in [Key -> Key] : \A j, k \in Key : f[j] = f[k] => j = k}

\* The keys are the numbers from 0 on.
LEMMA KeysCount == /\ Cardinality(Key) \in Nat \ {0} /\ IsFiniteSet(Key)
                   /\ Key = 0 .. Cardinality(Key) - 1
<1> DEFINE n == IF operations > compact_operations THEN operations ELSE compact_operations
<1>1. n \in Nat \ {0} /\ Key = 0 .. n - 1
  BY OperationsAssumption DEF Key
<1> HIDE DEF n
<1>2. IsFiniteSet(Key) /\ Cardinality(Key) = n
  BY <1>1, FS_Interval
<1> QED BY <1>1, <1>2

\* f[t] is one of g's values and the sum of the others.
Adds(f, g, t, y) == f[t] = g[y] + f[t \ {y}]

\* All that the arithmetic below needs to know of a sum over keys.
LEMMA KeySum ==
  ASSUME NEW g, g \in [Key -> Int], NEW f, IsSum(Key, g, f)
  PROVE  /\ f[{}] = 0
         /\ \A s \in SUBSET Key : f[s] \in Int
         /\ \A s \in SUBSET Key : \A x \in s : Adds(f, g, s, x)
<1>1. f \in [SUBSET Key -> Int]
  BY KeysCount, SumType
<1>2. ASSUME NEW s \in SUBSET Key, NEW x \in s PROVE Adds(f, g, s, x)
  BY KeysCount, SumWithout DEF Adds
<1>3. f[{}] = 0
  BY SumEmpty
<1> QED BY <1>1, <1>2, <1>3

\* Every place in the order has its key, and every key its place.
LEMMA RanksMatch ==
  ASSUME storageKey \in Permutation
  PROVE  /\ \A r \in Key : logical_rank(r) \in Key /\ storageKey[logical_rank(r)] = r
         /\ \A k \in Key : logical_rank(storageKey[k]) = k
<1>1. storageKey \in [Key -> Key] /\ \A j, k \in Key : storageKey[j] = storageKey[k] => j = k
  BY DEF Permutation
<1>2. storageKey \in Injection(Key, Key)
  BY <1>1 DEF Injection, IsInjective
<1>3. storageKey \in Surjection(Key, Key)
  BY <1>2, KeysCount, FS_Injection
<1>4. ASSUME NEW r \in Key PROVE \E k \in Key : storageKey[k] = r
  BY <1>3 DEF Surjection
<1>5. ASSUME NEW r \in Key PROVE logical_rank(r) \in Key /\ storageKey[logical_rank(r)] = r
  BY <1>4, Zenon DEF logical_rank
<1> QED BY <1>1, <1>5

\* The sums are taken over the keys one at a time: the least that is wrong has one more.
LEMMA SumOfSquaredDistances ==
  ASSUME NEW l \in [Key -> Int], NEW f1, NEW f2, NEW f3, NEW f4,
         IsSum(Key, [r \in Key |-> (l[r] - r) * (l[r] - r)], f1),
         IsSum(Key, [r \in Key |-> r * l[r]], f2),
         IsSum(Key, [r \in Key |-> r * r], f3),
         IsSum(Key, [r \in Key |-> l[r] * l[r]], f4)
  PROVE  f1[Key] = f3[Key] + f4[Key] - 2 * f2[Key]
<1> DEFINE g1 == [r \in Key |-> (l[r] - r) * (l[r] - r)]
           g2 == [r \in Key |-> r * l[r]]
           g3 == [r \in Key |-> r * r]
           g4 == [r \in Key |-> l[r] * l[r]]
           Wrong == {s \in SUBSET Key : f1[s] # f3[s] + f4[s] - 2 * f2[s]}
<1>1. \A r \in Key : r \in Int /\ l[r] \in Int
  BY KeysCount
<1>2. /\ g1 \in [Key -> Int] /\ g2 \in [Key -> Int]
      /\ g3 \in [Key -> Int] /\ g4 \in [Key -> Int]
  BY <1>1
<1>3. \A r \in Key : g1[r] = g3[r] + g4[r] - 2 * g2[r]
  <2> SUFFICES ASSUME NEW r \in Key PROVE g1[r] = g3[r] + g4[r] - 2 * g2[r]
    OBVIOUS
  <2> DEFINE m == l[r]
  <2>1. m \in Int /\ r \in Int
    BY <1>1
  <2>2. g1[r] = (m - r) * (m - r) /\ g2[r] = r * m /\ g3[r] = r * r /\ g4[r] = m * m
    OBVIOUS
  <2> HIDE DEF m, g1, g2, g3, g4
  <2>3. (m - r) * (m - r) = r * r + m * m - 2 * (r * m)
    BY <2>1
  <2> QED BY <2>2, <2>3
<1> HIDE DEF g1, g2, g3, g4
<1>4. IsSum(Key, g1, f1) /\ IsSum(Key, g2, f2) /\ IsSum(Key, g3, f3) /\ IsSum(Key, g4, f4)
  BY DEF g1, g2, g3, g4
<1>5. \A s \in SUBSET Key : /\ f1[s] \in Int /\ f2[s] \in Int
                            /\ f3[s] \in Int /\ f4[s] \in Int
  <2>1. /\ f1 \in [SUBSET Key -> Int] /\ f2 \in [SUBSET Key -> Int]
        /\ f3 \in [SUBSET Key -> Int] /\ f4 \in [SUBSET Key -> Int]
    BY <1>2, <1>4, KeysCount, SumType
  <2> QED BY <2>1
<1>6. Wrong = {}
  <2> SUFFICES ASSUME Wrong # {} PROVE FALSE
    OBVIOUS
  <2>1. PICK s \in Wrong : \A u \in Wrong : Cardinality(s) <= Cardinality(u)
    <3>1. Wrong \subseteq SUBSET Key
      OBVIOUS
    <3> HIDE DEF Wrong
    <3> QED BY <3>1, KeysCount, SmallestSet
  <2>2. s \in SUBSET Key /\ f1[s] # f3[s] + f4[s] - 2 * f2[s]
    OBVIOUS
  <2>3. s # {}
    <3>1. f1[{}] = 0 /\ f2[{}] = 0 /\ f3[{}] = 0 /\ f4[{}] = 0
      BY <1>4, SumEmpty
    <3>2. 0 = 0 + 0 - 2 * 0
      OBVIOUS
    <3> HIDE DEF Wrong
    <3> QED BY <2>2, <3>1, <3>2
  <2>4. PICK x \in s : TRUE
    BY <2>3
  <2>5. s \ {x} \in SUBSET Key /\ ~ (Cardinality(s) <= Cardinality(s \ {x}))
    BY <2>2, KeysCount, Without
  <2>6. f1[s \ {x}] = f3[s \ {x}] + f4[s \ {x}] - 2 * f2[s \ {x}]
    BY <2>1, <2>5
  <2> HIDE DEF Wrong
  <2>7. /\ f1[s] = g1[x] + f1[s \ {x}]  /\ f2[s] = g2[x] + f2[s \ {x}]
        /\ f3[s] = g3[x] + f3[s \ {x}]  /\ f4[s] = g4[x] + f4[s \ {x}]
    <3>1. \A t \in SUBSET Key : \A y \in t : Adds(f1, g1, t, y)
      BY <1>2, <1>4, KeySum, Zenon
    <3>2. \A t \in SUBSET Key : \A y \in t : Adds(f2, g2, t, y)
      BY <1>2, <1>4, KeySum, Zenon
    <3>3. \A t \in SUBSET Key : \A y \in t : Adds(f3, g3, t, y)
      BY <1>2, <1>4, KeySum, Zenon
    <3>4. \A t \in SUBSET Key : \A y \in t : Adds(f4, g4, t, y)
      BY <1>2, <1>4, KeySum, Zenon
    <3> QED BY <2>2, <3>1, <3>2, <3>3, <3>4 DEF Adds
  <2>8. /\ g1[x] = g3[x] + g4[x] - 2 * g2[x]
        /\ g1[x] \in Int /\ g2[x] \in Int /\ g3[x] \in Int /\ g4[x] \in Int
    BY <1>2, <1>3, <2>2
  <2>9. /\ f1[s \ {x}] \in Int /\ f2[s \ {x}] \in Int
        /\ f3[s \ {x}] \in Int /\ f4[s \ {x}] \in Int
    BY <1>5, <2>5
  <2> QED BY <2>2, <2>6, <2>7, <2>8, <2>9
<1> QED BY <1>6

\* The squares of the keys' own ranks are, in another order, those of the places.
LEMMA SumInAnyOrder ==
  ASSUME NEW l \in [Key -> Key], \A r, q \in Key : l[r] = l[q] => r = q,
         \A k \in Key : \E r \in Key : l[r] = k,
         NEW f3, NEW f4, IsSum(Key, [r \in Key |-> r * r], f3),
         IsSum(Key, [r \in Key |-> l[r] * l[r]], f4)
  PROVE  f4[Key] = f3[Key]
<1> DEFINE g3 == [r \in Key |-> r * r]
           g4 == [r \in Key |-> l[r] * l[r]]
           Of(s) == {l[r] : r \in s}
           Wrong == {s \in SUBSET Key : f4[s] # f3[Of(s)]}
<1>1. \A r \in Key : r \in Int /\ l[r] \in Key
  BY KeysCount
<1>2. g3 \in [Key -> Int] /\ g4 \in [Key -> Int] /\ \A r \in Key : g4[r] = g3[l[r]]
  BY <1>1
<1> HIDE DEF g3, g4
<1>3. IsSum(Key, g3, f3) /\ IsSum(Key, g4, f4)
  BY DEF g3, g4
<1>4. Wrong = {}
  <2> SUFFICES ASSUME Wrong # {} PROVE FALSE
    OBVIOUS
  <2>1. PICK s \in Wrong : \A u \in Wrong : Cardinality(s) <= Cardinality(u)
    <3>1. Wrong \subseteq SUBSET Key
      OBVIOUS
    <3> HIDE DEF Wrong
    <3> QED BY <3>1, KeysCount, SmallestSet
  <2>2. s \in SUBSET Key /\ f4[s] # f3[Of(s)]
    OBVIOUS
  <2>3. s # {}
    <3>1. f3[{}] = 0 /\ f4[{}] = 0 /\ Of({}) = {}
      BY <1>3, SumEmpty
    <3> QED BY <2>2, <3>1
  <2>4. PICK x \in s : TRUE
    BY <2>3
  <2>5. s \ {x} \in SUBSET Key /\ ~ (Cardinality(s) <= Cardinality(s \ {x}))
    BY <2>2, KeysCount, Without
  <2>6. f4[s \ {x}] = f3[Of(s \ {x})]
    BY <2>1, <2>5
  <2>7. x \in Key /\ l[x] \in Of(s) /\ Of(s) \in SUBSET Key /\ Of(s \ {x}) = Of(s) \ {l[x]}
    BY <1>1, <2>2
  <2> HIDE DEF Wrong, Of
  <2>8. f4[s] = g4[x] + f4[s \ {x}]
    <3>1. \A t \in SUBSET Key : \A y \in t : Adds(f4, g4, t, y)
      BY <1>2, <1>3, KeySum, Zenon
    <3> QED BY <2>2, <3>1 DEF Adds
  <2>9. f3[Of(s)] = g3[l[x]] + f3[Of(s) \ {l[x]}]
    <3>1. \A t \in SUBSET Key : \A y \in t : Adds(f3, g3, t, y)
      BY <1>2, <1>3, KeySum, Zenon
    <3> QED BY <2>7, <3>1 DEF Adds
  <2> QED BY <1>2, <2>2, <2>6, <2>7, <2>8, <2>9
<1>5. Of(Key) = Key
  BY <1>1
<1> QED BY <1>4, <1>5

\* The sum of the first squares, by what six times it is.
LEMMA SumOfSquares ==
  ASSUME NEW f3, IsSum(Key, [r \in Key |-> r * r], f3)
  PROVE  LET n == Cardinality(Key) IN 6 * f3[Key] = (n - 1) * (n * (2 * n - 1))
<1> DEFINE n == Cardinality(Key)
           g3 == [r \in Key |-> r * r]
           Below(m) == 0 .. m - 1
           Wrong == {m \in 0 .. n : 6 * f3[Below(m)] # (m - 1) * (m * (2 * m - 1))}
<1>1. g3 \in [Key -> Int] /\ \A r \in Key : r \in Int /\ g3[r] = r * r
  BY KeysCount
<1> HIDE DEF g3
<1>2. IsSum(Key, g3, f3)
  BY DEF g3
<1>3. n \in Nat /\ IsFiniteSet(Key) /\ Key = Below(n)
  BY KeysCount
<1> HIDE DEF n
<1>4. \A m \in 0 .. n : Below(m) \in SUBSET Key
  BY <1>3
<1>5. \A m \in 0 .. n : f3[Below(m)] \in Int
  <2>1. f3 \in [SUBSET Key -> Int]
    BY <1>1, <1>2, <1>3, SumType
  <2> HIDE DEF Below
  <2> QED BY <1>4, <2>1
<1>6. Wrong = {}
  <2> SUFFICES ASSUME Wrong # {} PROVE FALSE
    OBVIOUS
  <2>1. PICK m \in Wrong : \A q \in Wrong : m <= q
    <3>1. Wrong \subseteq 0 .. n /\ 0 \in Int /\ n \in Int
      BY <1>3
    <3> HIDE DEF Wrong
    <3> QED BY <3>1, LeastInRange
  <2>2. m \in 0 .. n /\ m \in Nat /\ 6 * f3[Below(m)] # (m - 1) * (m * (2 * m - 1))
    BY <1>3
  <2>3. m # 0
    <3>1. Below(0) = {} /\ f3[{}] = 0
      BY <1>2, SumEmpty
    <3>2. (0 - 1) * (0 * (2 * 0 - 1)) = 6 * 0
      OBVIOUS
    <3> HIDE DEF Below, Wrong
    <3>3. m = 0 => 6 * f3[Below(m)] = 6 * 0
      BY <3>1
    <3>4. m = 0 => (m - 1) * (m * (2 * m - 1)) = 6 * 0
      BY <3>2
    <3> QED BY <2>2, <3>3, <3>4
  <2> DEFINE j == m - 1
  <2>4. j \in 0 .. n /\ j \in Nat /\ j \in Key /\ ~ (m <= j) /\ m = j + 1
    BY <1>3, <2>2, <2>3
  <2>5. 6 * f3[Below(j)] = (j - 1) * (j * (2 * j - 1))
    BY <2>1, <2>4
  <2>6. j \in Below(m) /\ Below(m) \ {j} = Below(j)
    BY <2>4
  <2> HIDE DEF j, Below, Wrong
  <2>7. f3[Below(m)] = g3[j] + f3[Below(j)]
    BY <1>1, <1>2, <1>3, <1>4, <2>2, <2>6, SumWithout
  <2>8. g3[j] = j * j /\ f3[Below(j)] \in Int
    BY <1>1, <1>5, <2>4
  <2>9. 6 * (j * j) + (j - 1) * (j * (2 * j - 1)) = j * ((j + 1) * (2 * (j + 1) - 1))
    BY <2>4
  <2>10. 6 * f3[Below(m)] = j * ((j + 1) * (2 * (j + 1) - 1))
    <3> DEFINE a == j * j
               b == f3[Below(j)]
    <3>1. a \in Int /\ b \in Int /\ f3[Below(m)] = a + b
      BY <2>4, <2>7, <2>8
    <3>2. 6 * b = (j - 1) * (j * (2 * j - 1))
      BY <2>5
    <3>3. 6 * a + 6 * b = j * ((j + 1) * (2 * (j + 1) - 1))
      BY <2>9, <3>2
    <3> HIDE DEF a, b
    <3> QED BY <3>1, <3>3
  <2>11. j = m - 1 /\ j + 1 = m
    BY <2>2 DEF j
  <2> QED BY <2>2, <2>10, <2>11
<1>7. n \in 0 .. n
  BY <1>3
<1> HIDE DEF Below
<1>8. 6 * f3[Below(n)] = (n - 1) * (n * (2 * n - 1))
  BY <1>6, <1>7
<1> QED BY <1>3, <1>8 DEF n

\* The two sums of the measure are sums as above.
LEMMA SumOfDistances ==
  \E f : /\ IsSum(Key, [r \in Key |-> Distance(r) * Distance(r)], f)
         /\ MapThenSumSet(LAMBDA rank : Distance(rank) * Distance(rank), Key) = f[Key]
<1> DEFINE g == [r \in Key |-> Distance(r) * Distance(r)]
           IsIter(f) == f = [s \in SUBSET Key |->
                              IF s = {} THEN 0
                              ELSE Distance(Some(s)) * Distance(Some(s)) + f[s \ {Some(s)}]]
           iter == CHOOSE f : IsIter(f)
<1>1. \A s \in SUBSET Key : s # {} => g[Some(s)] = Distance(Some(s)) * Distance(Some(s))
  <2>1. \A s \in SUBSET Key : s # {} => Some(s) \in Key
    BY SomeIn
  <2> QED BY <2>1
<1>2. \A f : IsSum(Key, g, f) <=> IsIter(f)
  <2> HIDE DEF g
  <2> QED BY <1>1 DEF IsSum
<1>3. \E f : IsSum(Key, g, f)
  BY KeysCount, SumExists
<1>4. IsSum(Key, g, iter)
  <2> HIDE DEF g, IsIter
  <2> QED BY <1>2, <1>3
<1>5. MapThenSumSet(LAMBDA rank : Distance(rank) * Distance(rank), Key) = iter[Key]
  BY DEF MapThenSumSet, MapThenFoldSet, Some
<1> QED BY <1>4, <1>5

\* The sum that RhoIsCorrelation names, as a function on the sets of keys.
LEMMA SumOfProducts ==
  \E f : /\ IsSum(Key, [r \in Key |-> r * logical_rank(r)], f)
         /\ MapThenSumSet(LAMBDA rank : rank * logical_rank(rank), Key) = f[Key]
<1> DEFINE g == [r \in Key |-> r * logical_rank(r)]
           IsIter(f) == f = [s \in SUBSET Key |->
                              IF s = {} THEN 0
                              ELSE Some(s) * logical_rank(Some(s)) + f[s \ {Some(s)}]]
           iter == CHOOSE f : IsIter(f)
<1>1. \A s \in SUBSET Key : s # {} => g[Some(s)] = Some(s) * logical_rank(Some(s))
  <2>1. \A s \in SUBSET Key : s # {} => Some(s) \in Key
    BY SomeIn
  <2> QED BY <2>1
<1>2. \A f : IsSum(Key, g, f) <=> IsIter(f)
  <2> HIDE DEF g
  <2> QED BY <1>1 DEF IsSum
<1>3. \E f : IsSum(Key, g, f)
  BY KeysCount, SumExists
<1>4. IsSum(Key, g, iter)
  <2> HIDE DEF g, IsIter
  <2> QED BY <1>2, <1>3
<1>5. MapThenSumSet(LAMBDA rank : rank * logical_rank(rank), Key) = iter[Key]
  BY DEF MapThenSumSet, MapThenFoldSet, Some
<1> QED BY <1>4, <1>5

\* n times n squared less one is, with the sums of the squares, what is left of rho.
LEMMA RhoArithmetic ==
  ASSUME NEW n \in Nat, NEW d \in Int, NEW p \in Int, NEW q \in Int,
         d = q + q - 2 * p, 6 * q = (n - 1) * (n * (2 * n - 1))
  PROVE  Cubic(n) - 6 * d = 12 * p - 3 * n * (n - 1) * (n - 1)
<1>1. 6 * d = 2 * ((n - 1) * (n * (2 * n - 1))) - 12 * p
  OBVIOUS
<1>2. n * (n * n - 1) - 2 * ((n - 1) * (n * (2 * n - 1))) = 0 - 3 * n * (n - 1) * (n - 1)
  OBVIOUS
<1> DEFINE a == n * (n * n - 1)
           b == 2 * ((n - 1) * (n * (2 * n - 1)))
           c == 3 * n * (n - 1) * (n - 1)
<1>3. a \in Int /\ b \in Int /\ c \in Int
  OBVIOUS
<1>4. 6 * d = b - 12 * p /\ a - b = 0 - c
  BY <1>1, <1>2
<1> HIDE DEF a, b, c
<1>5. a - 6 * d = 12 * p - c
  BY <1>3, <1>4
<1> QED BY <1>5 DEF Cubic, a, c

\* RhoIsCorrelation is a fact about permutations; no step of a program has a part in it.
LEMMA RhoRight == storageKey \in Permutation => RhoIsCorrelation
<1> SUFFICES ASSUME storageKey \in Permutation PROVE RhoIsCorrelation
  OBVIOUS
<1> DEFINE n == Cardinality(Key)
           l == [r \in Key |-> logical_rank(r)]
<1>1. /\ \A r \in Key : logical_rank(r) \in Key
      /\ \A r, q \in Key : logical_rank(r) = logical_rank(q) => r = q
      /\ \A k \in Key : \E r \in Key : logical_rank(r) = k
  <2>1. \A k \in Key : storageKey[k] \in Key
    BY DEF Permutation
  <2> QED BY <2>1, RanksMatch
<1>2. l \in [Key -> Key] /\ l \in [Key -> Int]
  <2>1. Key \subseteq Int
    BY KeysCount
  <2> QED BY <1>1, <2>1
<1>3. PICK f1 : /\ IsSum(Key, [r \in Key |-> (l[r] - r) * (l[r] - r)], f1)
                /\ MapThenSumSet(LAMBDA rank : Distance(rank) * Distance(rank), Key) = f1[Key]
  <2>1. [r \in Key |-> (l[r] - r) * (l[r] - r)] = [r \in Key |-> Distance(r) * Distance(r)]
    BY DEF Distance
  <2> HIDE DEF l
  <2> QED BY <2>1, SumOfDistances, Zenon
<1>4. PICK f2 : /\ IsSum(Key, [r \in Key |-> r * l[r]], f2)
                /\ MapThenSumSet(LAMBDA rank : rank * logical_rank(rank), Key) = f2[Key]
  <2>1. [r \in Key |-> r * l[r]] = [r \in Key |-> r * logical_rank(r)]
    OBVIOUS
  <2> HIDE DEF l
  <2> QED BY <2>1, SumOfProducts, Zenon
<1>5. PICK f3 : IsSum(Key, [r \in Key |-> r * r], f3)
  BY KeysCount, SumExists
<1>6. PICK f4 : IsSum(Key, [r \in Key |-> l[r] * l[r]], f4)
  BY KeysCount, SumExists
<1>7. \A r, q \in Key : l[r] = l[q] => r = q
  BY <1>1
<1>8. \A k \in Key : \E r \in Key : l[r] = k
  BY <1>1
<1> HIDE DEF l
<1>9. f1[Key] = f3[Key] + f4[Key] - 2 * f2[Key]
  <2>1. /\ IsSum(Key, [r \in Key |-> (l[r] - r) * (l[r] - r)], f1)
        /\ IsSum(Key, [r \in Key |-> r * l[r]], f2)
        /\ IsSum(Key, [r \in Key |-> r * r], f3)
        /\ IsSum(Key, [r \in Key |-> l[r] * l[r]], f4)
        /\ l \in [Key -> Int]
    BY <1>2, <1>3, <1>4, <1>5, <1>6
  <2> QED BY <2>1, SumOfSquaredDistances
<1>10. f4[Key] = f3[Key]
  BY <1>2, <1>5, <1>6, <1>7, <1>8, SumInAnyOrder
<1>11. 6 * f3[Key] = (n - 1) * (n * (2 * n - 1))
  BY <1>5, SumOfSquares
<1>12. n \in Nat /\ f1[Key] \in Int /\ f2[Key] \in Int /\ f3[Key] \in Int
  <2>1. /\ [r \in Key |-> (l[r] - r) * (l[r] - r)] \in [Key -> Int]
        /\ [r \in Key |-> r * l[r]] \in [Key -> Int]
        /\ [r \in Key |-> r * r] \in [Key -> Int]
    BY <1>2, KeysCount
  <2>2. f1[Key] \in Int
    BY <1>3, <2>1, KeySum
  <2>3. f2[Key] \in Int
    BY <1>4, <2>1, KeySum
  <2>4. f3[Key] \in Int
    BY <1>5, <2>1, KeySum
  <2> QED BY <2>2, <2>3, <2>4, KeysCount
<1> HIDE DEF n
<1>13. Cubic(n) - 6 * f1[Key] = 12 * f2[Key] - 3 * n * (n - 1) * (n - 1)
  BY <1>9, <1>10, <1>11, <1>12, RhoArithmetic
<1> QED BY <1>3, <1>4, <1>13 DEF RhoIsCorrelation, spearmanForPhysicalOrder, n

-----------------------------------------------------------------------------
(* The inductive invariant of the benchmark programs *)

\* The keys that operations puts and dels are about, and the store before its first call.
Used == {storageKey[j] : j \in 0 .. operations - 1}

\* The control states of the constructor.
Opening == {"down", "replay", "load"}

\* A memtable that never fills up: no table is ever written.
InMemory ==
  /\ pc \in Opening \cup {"idle", "sync", "return"}
  /\ Roomy!Files = {} /\ sstables = <<>> /\ ~walTorn
  /\ pc \in Opening => walFile = <<>>
  /\ pc = "replay" => pos = 1
  /\ pc # "sync" => walBuf = <<>>
  /\ pc = "sync" => \E k \in Used, r \in Roomy!Rec : walBuf = <<[key |-> k, rec |-> r]>>
  /\ memtable \in [Key -> Roomy!Rec \cup {Absent}]
  /\ Roomy!Keys(memtable) \subseteq Used
  /\ tables \in [Roomy!TableId -> Roomy!TableFile]

\* The one flush of benchGetFromSSTable.
Flushing ==
  /\ pc \in {"create", "write", "seal", "install", "reset", "return", "idle"}
  /\ ~walTorn /\ walBuf = <<>>
  /\ pc # "idle" => op = "flush"
  /\ memtable \in [Key -> Roomy!Rec \cup {Absent}]
  /\ tables \in [Roomy!TableId -> Roomy!TableFile]
  /\ pc \in {"create", "write", "seal", "install"} => sstables = <<>>
  /\ pc = "create" => Roomy!Files = {}
  /\ pc \in {"write", "seal", "install"} => newId = 1
  /\ pc # "create" => Roomy!Files = {1}
  /\ pc \in {"reset", "return", "idle"} => Len(sstables) = 1 /\ memtable = Roomy!NoRecords
  /\ pc \in {"return", "idle"} => walFile = <<>>

\* The second object finds the one table that the first left, and nothing else.
FoundTable == <<[id |-> 1, cached |-> FALSE, index |-> {}]>>

\* The life of the second object of benchGetFromSSTable.
Reopening ==
  /\ pc \in Opening \cup {"idle"}
  /\ pc = "replay" => pos = 1
  /\ ~walTorn /\ walBuf = <<>> /\ walFile = <<>>
  /\ memtable = Roomy!NoRecords
  /\ Roomy!Files = {1}
  /\ pc \in {"down", "replay"} => sstables = <<>>
  /\ pc = "load" => sstables \in {<<>>, FoundTable}
  /\ pc = "idle" => sstables = FoundTable

\* benchGetFromSSTable, part by part.
GetSstInv ==
  /\ part = 1 \/ (part = 2 /\ i = 0) => InMemory
  /\ part = 2 /\ i # 0 => Flushing
  /\ part = 3 /\ i = 0 => Flushing /\ pc = "idle"
  /\ part = 3 /\ i # 0 => Reopening
  /\ part = 4 => Reopening /\ pc = "idle"

\* A call has begun and its table is not yet listed.
Owing == pc \in {"sync", "create", "write", "seal", "install"}

\* A memtable that one record fills: each put and each del leaves a table.
TableEach ==
  /\ pc \in Opening \cup {"idle", "reset", "return"} \/ Owing
  /\ op # "compact" /\ ~walTorn
  /\ pc \in Opening => walFile = <<>> /\ Roomy!Files = {} /\ sstables = <<>>
  /\ pc = "replay" => pos = 1
  /\ pc # "sync" => walBuf = <<>>
  /\ memtable \in [Key -> Roomy!Rec \cup {Absent}]
  /\ pc \notin {"create", "write", "seal", "install"} => memtable = Roomy!NoRecords
  /\ kv \in [Key -> Value \cup {None}]
  /\ sstables \in Seq({sstables[p] : p \in DOMAIN sstables})

\* The map has exactly the keys that were put in the turns of D.
Has(D) == \A k \in Key : kv[k] # None <=> \E j \in D : storageKey[j] = k

\* The turns whose key is there after the puts, and after the dels, before turn done.
PutTurns(done) == {j \in 0 .. compact_operations - 1 : j < done}
DelTurns(done) == {j \in 0 .. compact_operations - 1 : j % 2 = 1 \/ j >= done}

\* benchCompact, part by part: the loop counter, the tables and the keys belong together.
\* Of its compact and what follows nothing is claimed.
CompactInv ==
  /\ part \in {1, 2} => TableEach
  /\ part = 1 =>
       /\ i <= compact_operations
       /\ pc \in Opening => i = 0
       /\ Owing => i > 0
       /\ Len(sstables) = IF Owing THEN i - 1 ELSE i
       /\ Has(PutTurns(IF pc = "sync" THEN i - 1 ELSE i))
       /\ pc = "sync" => \E v \in Value : walBuf = <<[key |-> storageKey[i - 1], rec |-> v]>>
  /\ part = 2 =>
       /\ pc \notin Opening
       /\ i % 2 = 0 /\ i <= compact_operations + 1
       /\ Owing => i > 0
       /\ Len(sstables) = compact_operations + (IF Owing THEN i \div 2 - 1 ELSE i \div 2)
       /\ Has(DelTurns(IF pc = "sync" THEN i - 2 ELSE i))
       /\ pc = "sync" => walBuf = <<[key |-> storageKey[i - 2], rec |-> Tombstone]>>
  /\ part = 3 /\ i = 0 =>
       /\ pc = "idle"
       /\ Len(sstables) = compact_operations + (compact_operations + 1) \div 2
       /\ Has(DelTurns(compact_operations))

\* The inductive invariant of all five benchmarks.
BenchInv ==
  /\ benchmark \in {"put", "get_mem", "get_sst", "del", "compact"}
  /\ storageKey \in Permutation
  /\ part \in Nat /\ i \in Nat
  /\ benchmark \in {"put", "get_mem", "del"} => InMemory
  /\ benchmark = "get_sst" => GetSstInv
  /\ benchmark = "compact" => CompactInv

-----------------------------------------------------------------------------
(* What a part of a benchmark may do *)

\* Which benchmark can be in a part of that name, and where in its program.
LEMMA PartNames ==
  ASSUME BenchInv
  PROVE  /\ Part = "flush" => benchmark = "get_sst" /\ part = 2
         /\ Part = "reopen" => benchmark = "get_sst" /\ part = 3
         /\ Part = "compact" => benchmark = "compact" /\ part = 3
         /\ Part = "put" => part = 1
         /\ Part = "del" => part = 2 /\ benchmark \in {"del", "compact"}
         /\ Part = "get" => \/ benchmark = "get_mem" /\ part = 2
                            \/ benchmark = "get_sst" /\ part = 4
         /\ DOMAIN Program = 1 .. Len(Program)
         /\ Len(Program) = CASE benchmark = "put" -> 1
                             [] benchmark \in {"get_mem", "del"} -> 2
                             [] benchmark = "get_sst" -> 4
                             [] benchmark = "compact" -> 3
<1>1. CASE benchmark = "put"
  BY <1>1 DEF Part, Program, BenchInv
<1>2. CASE benchmark = "get_mem"
  BY <1>2 DEF Part, Program, BenchInv
<1>3. CASE benchmark = "get_sst"
  BY <1>3 DEF Part, Program, BenchInv
<1>4. CASE benchmark = "del"
  BY <1>4 DEF Part, Program, BenchInv
<1>5. CASE benchmark = "compact"
  BY <1>5 DEF Part, Program, BenchInv
<1> QED BY <1>1, <1>2, <1>3, <1>4, <1>5 DEF BenchInv

\* Counted as keys of the memtable, the keys of all turns are too few to fill it.
LEMMA UsedFew ==
  ASSUME storageKey \in Permutation, NEW S, S \subseteq Used
  PROVE  Cardinality(S) <= operations
<1> DEFINE f == [j \in 0 .. operations - 1 |-> storageKey[j]]
<1>1. operations \in Nat \ {0}
  BY OperationsAssumption
<1>2. f \in Surjection(0 .. operations - 1, Used)
  BY DEF Used, Surjection
<1>3. IsFiniteSet(0 .. operations - 1) /\ Cardinality(0 .. operations - 1) = operations
  BY <1>1, FS_Interval
<1>4. IsFiniteSet(Used) /\ Cardinality(Used) <= operations /\ Cardinality(Used) \in Nat
  BY <1>2, <1>3, FS_Surjection, FS_CardinalityType
<1>5. Cardinality(S) <= Cardinality(Used) /\ Cardinality(S) \in Nat
  BY <1>4, FS_Subset, FS_CardinalityType
<1> QED BY <1>1, <1>4, <1>5

\* The instances of the engine bring their own copies of what it is written with.
LEMMA SameCardinality ==
  \A S : Roomy!Cardinality(S) = Cardinality(S) /\ Tight!Cardinality(S) = Cardinality(S)
BY DEF Roomy!Cardinality, Tight!Cardinality, Cardinality

\* The keys of the puts are keys.
LEMMA UsedKeys == storageKey \in Permutation => Used \subseteq Key
BY OperationsAssumption DEF Used, Permutation, Key

\* The memtable of a new object.
LEMMA NothingInNoRecords ==
  /\ Roomy!NoRecords \in [Key -> Roomy!Rec \cup {Absent}]
  /\ Roomy!Keys(Roomy!NoRecords) = {}
BY DEF Roomy!NoRecords, Roomy!Keys

\* Every benchmark starts with a store in a new directory.
LEMMA InitBench == BenchInit => BenchInv
<1> SUFFICES ASSUME BenchInit PROVE BenchInv
  OBVIOUS
<1>1. /\ storageKey \in Permutation /\ part = 1 /\ i = 0
      /\ benchmark \in {"put", "get_mem", "get_sst", "del", "compact"}
  BY DEF BenchInit, Permutation
<1>2. /\ walFile = <<>> /\ walTorn = FALSE /\ walBuf = <<>> /\ memtable = Roomy!NoRecords
      /\ tables = [t \in Roomy!TableId |-> Roomy!NoFile]
      /\ sstables = <<>> /\ pc = "down" /\ op = "none" /\ kv = [k \in Key |-> None]
  BY DEF BenchInit, Roomy!Init
<1>3. /\ Roomy!Files = {} /\ tables \in [Roomy!TableId -> Roomy!TableFile]
      /\ memtable \in [Key -> Roomy!Rec \cup {Absent}] /\ Roomy!Keys(memtable) = {}
  BY <1>2, NothingInNoRecords DEF Roomy!Files, Roomy!NoFile, Roomy!TableFile
<1>4. InMemory
  BY <1>2, <1>3 DEF InMemory, Opening
<1>5. TableEach
  BY <1>2, <1>3 DEF TableEach, Opening, Owing
<1>6. Has(PutTurns(0))
  BY <1>2 DEF Has, PutTurns
<1>7. CompactInv
  BY <1>1, <1>2, <1>5, <1>6, OperationsAssumption DEF CompactInv, Opening, Owing
<1> QED BY <1>1, <1>4, <1>7 DEF BenchInv, GetSstInv

-----------------------------------------------------------------------------
(* Puts, dels and gets that only meet memtable and log *)

\* A record goes to a memtable with room for it: the limit is operations + 1.
LEMMA MemorySync ==
  ASSUME storageKey \in Permutation, storageKey' = storageKey, InMemory, Roomy!Sync
  PROVE  InMemory'
<1>1. PICK k \in Used, r \in Roomy!Rec : walBuf = <<[key |-> k, rec |-> r]>>
  BY DEF InMemory, Roomy!Sync
<1> DEFINE mem == [memtable EXCEPT ![k] = r]
<1>2. k \in Key /\ Head(walBuf).key = k /\ Head(walBuf).rec = r /\ Tail(walBuf) = <<>>
  BY <1>1, UsedKeys
<1>3. mem \in [Key -> Roomy!Rec \cup {Absent}] /\ Roomy!Keys(mem) \subseteq Used
  BY <1>1, <1>2 DEF InMemory, Roomy!Keys
<1>4. ~ Roomy!Full(mem)
  <2>1. Cardinality(Roomy!Keys(mem)) <= operations
    BY <1>3, UsedFew
  <2>2. Cardinality(Roomy!Keys(mem)) \in Nat
    <3>1. IsFiniteSet(Roomy!Keys(mem))
      BY KeysCount, FS_Subset DEF Roomy!Keys
    <3> QED BY <3>1, FS_CardinalityType
  <2>3. operations \in Nat
    BY OperationsAssumption
  <2> DEFINE c == Cardinality(Roomy!Keys(mem))
  <2>4. c \in Nat /\ c <= operations
    BY <2>1, <2>2
  <2> HIDE DEF c, mem
  <2>5. ~ (c >= operations + 1)
    BY <2>3, <2>4
  <2> QED BY <2>5, SameCardinality DEF Roomy!Full, RoomyLimit, c
<1>5. /\ pc' = "return" /\ memtable' = mem /\ walBuf' = <<>>
      /\ UNCHANGED <<walTorn, tables, sstables>>
  BY <1>2, <1>4 DEF Roomy!Sync, Roomy!Control
<1>6. Used' = Used
  BY DEF Used
<1> QED BY <1>3, <1>5, <1>6 DEF InMemory, Opening, Roomy!Files, Roomy!Keys

\* The constructor and the calls in the benchmarks that flush nothing.
LEMMA MemoryWork ==
  ASSUME storageKey \in Permutation, storageKey' = storageKey, InMemory,
         Roomy!Recovery \/ Roomy!Serve
  PROVE  InMemory'
<1>1. Used' = Used
  BY DEF Used
<1>2. CASE Roomy!Sync
  BY <1>2, MemorySync
<1>3. CASE Roomy!Return
  BY <1>1, <1>3 DEF Roomy!Return, Roomy!Done, Roomy!Quiet, Roomy!Control, Roomy!diskVars,
       Roomy!memVars, InMemory, Opening, Roomy!Files, Roomy!Keys
<1>4. CASE Roomy!Open \/ Roomy!ReplayEnd \/ Roomy!LoadEnd
  BY <1>1, <1>4 DEF Roomy!Open, Roomy!ReplayEnd, Roomy!LoadEnd, Roomy!Control, Roomy!diskVars,
       Roomy!memVars, InMemory, Opening, Roomy!Files, Roomy!Keys
<1>5. ~ Roomy!ReplayRecord /\ ~ Roomy!ReplayRefused /\ ~ Roomy!LoadTable
  <2>1. ~ Roomy!ReplayRefused
    BY DEF Roomy!ReplayRefused, InMemory
  <2>2. ~ Roomy!LoadTable
    BY DEF Roomy!LoadTable, Roomy!FirstOf, InMemory
  <2>3. ~ Roomy!ReplayRecord
    <3>1. pc = "replay" => Len(walFile) = 0 /\ pos = 1
      BY DEF InMemory, Opening
    <3> QED BY <3>1 DEF Roomy!ReplayRecord
  <2> QED BY <2>1, <2>2, <2>3
<1>6. Roomy!Serve => Roomy!Sync \/ Roomy!Return
  BY DEF InMemory, Opening, Roomy!Serve, Roomy!CreateTable, Roomy!WriteRecord, Roomy!Seal,
         Roomy!Install, Roomy!MergeTable, Roomy!MergeFails, Roomy!MergeEnd, Roomy!RemoveTable,
         Roomy!Swap, Roomy!Reset
<1> QED BY <1>2, <1>3, <1>4, <1>5, <1>6 DEF Roomy!Recovery

\* A call of theirs begins.
LEMMA MemoryCall ==
  ASSUME InMemory, storageKey' = storageKey, NEW k \in Used,
         \/ \E v \in Value : Roomy!Put(k, v)
         \/ Roomy!Del(k) \/ Roomy!Get(k)
  PROVE  InMemory'
<1>1. Used' = Used
  BY DEF Used
<1>2. CASE Roomy!Get(k)
  BY <1>1, <1>2 DEF Roomy!Get, Roomy!diskVars, Roomy!memVars, Roomy!ctlVars, InMemory,
       Opening, Roomy!Files, Roomy!Keys
<1>3. ASSUME NEW name, NEW r \in Roomy!Rec, Roomy!Append1(name, k, r) PROVE InMemory'
  <2>1. pc = "idle" /\ walBuf = <<>>
    BY <1>3 DEF Roomy!Append1, Roomy!Accepting, InMemory
  <2>2. walBuf' = <<[key |-> k, rec |-> r]>>
    BY <1>3, <2>1 DEF Roomy!Append1
  <2>3. pc' = "sync" /\ UNCHANGED <<walFile, walTorn, tables, memtable, sstables>>
    BY <1>3 DEF Roomy!Append1, Roomy!Control, Roomy!diskVars
  <2> QED BY <1>1, <2>2, <2>3 DEF InMemory, Opening, Roomy!Files, Roomy!Keys
<1>4. CASE Roomy!Del(k)
  BY <1>3, <1>4 DEF Roomy!Del, Roomy!Rec
<1>5. CASE \E v \in Value : Roomy!Put(k, v)
  BY <1>3, <1>5 DEF Roomy!Put, Roomy!Rec
<1> QED BY <1>2, <1>4, <1>5

-----------------------------------------------------------------------------
(* One table, and gets that only meet that *)

\* The flush begins with all records still in the memtable.
LEMMA FlushBegins ==
  ASSUME InMemory, Roomy!Flush
  PROVE  Flushing'
<1>1. /\ pc = "idle" /\ pc' = "create" /\ op' = "flush"
      /\ UNCHANGED <<walTorn, tables, walBuf, memtable, sstables>>
  BY DEF Roomy!Flush, Roomy!Accepting, Roomy!Control, Roomy!diskVars, Roomy!memVars
<1> QED BY <1>1 DEF InMemory, Flushing, Roomy!Files

\* The first table of a directory is number 1.
LEMMA FirstId ==
  ASSUME sstables = <<>>
  PROVE  Roomy!NextId = 1
<1>1. Roomy!Listed = {}
  BY DEF Roomy!Listed
<1>2. Roomy!Max({0}) = 0
  BY DEF Roomy!Max
<1>3. {0} \cup {} = {0}
  OBVIOUS
<1> QED BY <1>1, <1>2, <1>3 DEF Roomy!NextId

\* The bound on the numbers leaves room for it.
LEMMA TableIds == 1 \in Roomy!TableId
BY OperationsAssumption DEF Roomy!TableId

\* Writing to the file of number 1 leaves a file there and touches no other.
LEMMA OneFile ==
  ASSUME tables \in [Roomy!TableId -> Roomy!TableFile], Roomy!Files \subseteq {1},
         NEW file \in Roomy!TableFile, file.state # "none",
         tables' = [tables EXCEPT ![1] = file]
  PROVE  Roomy!Files' = {1} /\ tables' \in [Roomy!TableId -> Roomy!TableFile]
<1>1. tables' \in [Roomy!TableId -> Roomy!TableFile]
  OBVIOUS
<1>2. \A t \in Roomy!TableId : tables'[t].state # "none" <=> t = 1
  BY TableIds DEF Roomy!Files
<1> QED BY <1>1, <1>2, TableIds DEF Roomy!Files

\* The flush writes one table, lists it, and clears memtable and log.
LEMMA FlushWork ==
  ASSUME Flushing, Roomy!Recovery \/ Roomy!Serve
  PROVE  Flushing' /\ pc # "idle"
<1> USE DEF Flushing, Roomy!Control
<1>1. CASE Roomy!CreateTable
  <2> DEFINE file == [state |-> "torn", recs |-> Roomy!NoRecords]
  <2>1. pc = "create" /\ newId' = 1 /\ tables' = [tables EXCEPT ![1] = file]
    BY <1>1, FirstId DEF Roomy!CreateTable
  <2>2. file \in Roomy!TableFile /\ file.state # "none"
    BY NothingInNoRecords DEF Roomy!TableFile
  <2>3. Roomy!Files' = {1} /\ tables' \in [Roomy!TableId -> Roomy!TableFile]
    BY <2>1, <2>2, OneFile
  <2> QED BY <1>1, <2>1, <2>3 DEF Roomy!CreateTable, Roomy!memVars
<1>2. CASE Roomy!WriteRecord
  <2>1. pc = "write" /\ newId = 1 /\ Roomy!Source = memtable
    BY <1>2 DEF Roomy!WriteRecord, Roomy!Source
  <2>2. PICK k \in Roomy!Remaining :
          /\ tables' = [tables EXCEPT ![1] =
                         [state |-> IF Roomy!Remaining = {k} THEN "whole" ELSE "torn",
                          recs  |-> [@.recs EXCEPT ![k] = memtable[k]]]]
          /\ pc' = IF Roomy!Remaining = {k} THEN "seal" ELSE "write"
    BY <1>2, <2>1 DEF Roomy!WriteRecord
  <2> DEFINE file == [state |-> IF Roomy!Remaining = {k} THEN "whole" ELSE "torn",
                      recs  |-> [tables[1].recs EXCEPT ![k] = memtable[k]]]
  <2>3. tables[1] \in Roomy!TableFile /\ k \in Key /\ memtable[k] \in Roomy!Rec \cup {Absent}
    BY <2>2, TableIds DEF Roomy!Remaining, Roomy!Keys
  <2>4. file \in Roomy!TableFile /\ file.state # "none"
    BY <2>3 DEF Roomy!TableFile
  <2>5. tables' = [tables EXCEPT ![1] = file]
    BY <2>2
  <2>6. Roomy!Files' = {1} /\ tables' \in [Roomy!TableId -> Roomy!TableFile]
    <3> HIDE DEF file
    <3> QED BY <2>1, <2>4, <2>5, OneFile
  <2> QED BY <1>2, <2>1, <2>2, <2>6 DEF Roomy!WriteRecord, Roomy!memVars
<1>3. CASE Roomy!Seal
  <2>1. pc = "seal" /\ newId = 1 /\ op = "flush"
    BY <1>3 DEF Roomy!Seal
  <2> DEFINE file == [tables[1] EXCEPT !.state = "sealed"]
  <2>2. tables[1] \in Roomy!TableFile
    BY TableIds
  <2>3. file \in Roomy!TableFile /\ file.state # "none"
    BY <2>2 DEF Roomy!TableFile
  <2>4. tables' = [tables EXCEPT ![1] = file]
    BY <1>3, <2>1 DEF Roomy!Seal
  <2>5. Roomy!Files' = {1} /\ tables' \in [Roomy!TableId -> Roomy!TableFile]
    <3> HIDE DEF file
    <3> QED BY <2>1, <2>3, <2>4, OneFile
  <2>6. pc' = "install" /\ newId' = 1 /\ UNCHANGED <<walTorn, walBuf, memtable, sstables, op>>
    BY <1>3, <2>1 DEF Roomy!Seal, Roomy!AfterSeal, Roomy!memVars
  <2> QED BY <2>1, <2>5, <2>6
<1>4. CASE Roomy!Install
  <2>1. pc = "install" /\ sstables = <<>>
    BY <1>4 DEF Roomy!Install
  <2>2. Len(sstables') = 1
    BY <1>4, <2>1 DEF Roomy!Install
  <2> QED BY <1>4, <2>1, <2>2, NothingInNoRecords DEF Roomy!Install, Roomy!diskVars, Roomy!Files
<1>5. CASE Roomy!Reset
  <2>1. pc = "reset" /\ pc' = "return" /\ walFile' = <<>>
        /\ UNCHANGED <<walTorn, tables, walBuf, memtable, sstables, op>>
    BY <1>5 DEF Roomy!Reset, Roomy!Truncate
  <2> QED BY <2>1 DEF Roomy!Files
<1>6. CASE Roomy!Return
  BY <1>6 DEF Roomy!Return, Roomy!Done, Roomy!Quiet, Roomy!diskVars, Roomy!memVars, Roomy!Files
<1>7. Roomy!Recovery \/ Roomy!Serve =>
        \/ Roomy!CreateTable \/ Roomy!WriteRecord \/ Roomy!Seal
        \/ Roomy!Install \/ Roomy!Reset \/ Roomy!Return
  BY DEF Roomy!Recovery, Roomy!Open, Roomy!ReplayRecord, Roomy!ReplayEnd, Roomy!ReplayRefused,
         Roomy!LoadTable, Roomy!LoadEnd, Roomy!Serve, Roomy!Sync, Roomy!MergeTable,
         Roomy!MergeFails, Roomy!MergeEnd, Roomy!RemoveTable, Roomy!Swap
<1>8. pc # "idle"
  BY <1>7 DEF Roomy!CreateTable, Roomy!WriteRecord, Roomy!Seal, Roomy!Install, Roomy!Reset,
              Roomy!Return
<1> QED BY <1>1, <1>2, <1>3, <1>4, <1>5, <1>6, <1>7, <1>8

\* The scope of the first object ends; its table stays.
LEMMA StoreCloses ==
  ASSUME Flushing, pc = "idle", Roomy!Die, UNCHANGED <<walFile, walTorn, tables>>
  PROVE  Reopening'
BY DEF Flushing, Reopening, Opening, Roomy!Die, Roomy!Control, Roomy!Forget, Roomy!Files

\* The constructor of the second object loads that table and replays nothing.
LEMMA ReopenWork ==
  ASSUME Reopening, Roomy!Recovery \/ Roomy!Serve
  PROVE  Reopening' /\ pc # "idle"
<1> USE DEF Reopening, Opening, Roomy!Control
<1>1. CASE Roomy!Open \/ Roomy!ReplayEnd
  BY <1>1 DEF Roomy!Open, Roomy!ReplayEnd, Roomy!diskVars, Roomy!memVars, Roomy!Files
<1>2. CASE Roomy!LoadTable
  <2>1. PICK t \in Roomy!FirstOf(Roomy!Files \ Roomy!Listed) :
          sstables' = Append(sstables, [id |-> t, cached |-> FALSE, index |-> {}])
    BY <1>2 DEF Roomy!LoadTable
  <2>2. t = 1 /\ 1 \notin Roomy!Listed
    BY DEF Roomy!FirstOf
  <2>3. sstables = <<>>
    <3>1. sstables = FoundTable => 1 \in Roomy!Listed
      BY DEF FoundTable, Roomy!Listed
    <3> QED BY <1>2, <2>2, <3>1 DEF Roomy!LoadTable
  <2>4. sstables' = FoundTable
    BY <2>1, <2>2, <2>3 DEF FoundTable
  <2> QED BY <1>2, <2>4 DEF Roomy!LoadTable, Roomy!diskVars, Roomy!ctlVars, Roomy!Files
<1>3. CASE Roomy!LoadEnd
  <2>1. sstables # <<>>
    <3>1. sstables = <<>> => Roomy!Listed = {}
      BY DEF Roomy!Listed
    <3> QED BY <1>3, <3>1 DEF Roomy!LoadEnd
  <2> QED BY <1>3, <2>1 DEF Roomy!LoadEnd, Roomy!diskVars, Roomy!memVars, Roomy!Files
<1>4. ~ Roomy!ReplayRecord /\ ~ Roomy!ReplayRefused /\ ~ Roomy!Serve
  <2>1. ~ Roomy!ReplayRecord
    <3>1. pc = "replay" => Len(walFile) = 0 /\ pos = 1
      OBVIOUS
    <3> QED BY <3>1 DEF Roomy!ReplayRecord
  <2>2. ~ Roomy!ReplayRefused
    BY DEF Roomy!ReplayRefused
  <2>3. ~ Roomy!Serve
    BY DEF Roomy!Serve, Roomy!Sync, Roomy!Return, Roomy!CreateTable, Roomy!WriteRecord,
           Roomy!Seal, Roomy!Install, Roomy!MergeTable, Roomy!MergeFails, Roomy!MergeEnd,
           Roomy!RemoveTable, Roomy!Swap, Roomy!Reset
  <2> QED BY <2>1, <2>2, <2>3
<1>5. pc # "idle"
  BY <1>4 DEF Roomy!Recovery, Roomy!Open, Roomy!ReplayEnd, Roomy!LoadTable, Roomy!LoadEnd
<1> QED BY <1>1, <1>2, <1>3, <1>4, <1>5 DEF Roomy!Recovery

-----------------------------------------------------------------------------
(* A table for each put and del *)

\* The list of tables stays a sequence, one longer with each table.
LEMMA NewestLast ==
  \A s, e : s \in Seq({s[p] : p \in DOMAIN s}) =>
              /\ Append(s, e) \in Seq({Append(s, e)[p] : p \in DOMAIN Append(s, e)})
              /\ Len(Append(s, e)) = Len(s) + 1
<1> SUFFICES ASSUME NEW s, s \in Seq({s[p] : p \in DOMAIN s}), NEW e, NEW t, t = Append(s, e)
             PROVE  t \in Seq({t[p] : p \in DOMAIN t}) /\ Len(t) = Len(s) + 1
  OBVIOUS
<1> DEFINE T == {s[p] : p \in DOMAIN s} \cup {e}
<1>1. s \in Seq(T)
  OBVIOUS
<1>2. e \in T
  OBVIOUS
<1> HIDE DEF T
<1>3. t \in Seq(T) /\ Len(t) = Len(s) + 1
  BY <1>1, <1>2
<1>4. t \in Seq({t[p] : p \in DOMAIN t})
  <2>1. Len(t) \in Nat /\ t \in [1 .. Len(t) -> T] /\ DOMAIN t = 1 .. Len(t)
    BY <1>3, LenProperties
  <2>2. t \in [1 .. Len(t) -> {t[p] : p \in DOMAIN t}]
    BY <2>1
  <2> DEFINE n == Len(t)
             R == {t[p] : p \in DOMAIN t}
  <2>3. n \in Nat /\ t \in [1 .. n -> R]
    BY <2>1, <2>2
  <2> HIDE DEF n, R
  <2>4. t \in UNION {[1 .. m -> R] : m \in Nat}
    BY <2>3, Zenon
  <2>5. Seq(R) = UNION {[1 .. m -> R] : m \in Nat}
    BY SeqDef, Zenon
  <2> QED BY <2>4, <2>5, Zenon DEF R
<1> QED BY <1>3, <1>4

\* A record in an empty memtable fills it.
LEMMA TableSync ==
  ASSUME TableEach, NEW k \in Key, NEW r \in Roomy!Rec, walBuf = <<[key |-> k, rec |-> r]>>,
         Tight!Sync
  PROVE  /\ TableEach'
         /\ pc = "sync" /\ pc' = "create"
         /\ sstables' = sstables
         /\ kv' = [kv EXCEPT ![k] = IF r \in Value THEN r ELSE None]
<1> DEFINE mem == [memtable EXCEPT ![k] = r]
<1>1. pc = "sync" /\ memtable = Roomy!NoRecords
  BY DEF Tight!Sync, TableEach
<1>2. Head(walBuf).key = k /\ Head(walBuf).rec = r /\ Tail(walBuf) = <<>>
  OBVIOUS
<1>3. mem \in [Key -> Roomy!Rec \cup {Absent}] /\ Tight!Keys(mem) = {k}
  <2>1. r # Absent
    BY ValuesAssumption DEF Roomy!Rec
  <2> QED BY <1>1, <2>1 DEF Roomy!NoRecords, Tight!Keys
<1>4. Tight!Full(mem)
  <2>1. Tight!Cardinality({k}) = 1
    BY FS_Singleton, SameCardinality
  <2>2. Tight!Cardinality(Tight!Keys(mem)) = 1
    BY <1>3, <2>1
  <2> DEFINE c == Tight!Cardinality(Tight!Keys(mem))
  <2> HIDE DEF c, mem
  <2>3. c >= 1
    BY <2>2 DEF c
  <2> QED BY <2>3 DEF Tight!Full, TightLimit, c
<1>5. /\ pc' = "create" /\ memtable' = mem /\ walBuf' = <<>>
      /\ kv' = [kv EXCEPT ![k] = IF r \in Value THEN r ELSE None]
      /\ UNCHANGED <<walTorn, tables, sstables, op>>
  BY <1>2, <1>4 DEF Tight!Sync, Tight!Control, Tight!Visible
<1>6. kv' \in [Key -> Value \cup {None}]
  BY <1>5 DEF TableEach
<1> QED BY <1>1, <1>3, <1>5, <1>6 DEF TableEach, Opening, Owing

\* While a table is written neither the list of tables nor the map changes.
LEMMA TableWrite ==
  ASSUME TableEach, Tight!CreateTable \/ Tight!WriteRecord \/ Tight!Seal
  PROVE  /\ TableEach'
         /\ pc \in {"create", "write", "seal"} /\ pc' \in {"write", "seal", "install"}
         /\ UNCHANGED <<sstables, kv>>
<1>1. /\ pc \in {"create", "write", "seal"} /\ pc' \in {"write", "seal", "install"}
      /\ UNCHANGED <<sstables, kv, walFile, walTorn, walBuf, memtable, op>>
  BY DEF TableEach, Tight!CreateTable, Tight!WriteRecord, Tight!Seal, Tight!AfterSeal,
         Tight!Control, Tight!memVars
<1> QED BY <1>1 DEF TableEach, Opening, Owing

\* The table is listed, and the memtable is empty again.
LEMMA TableInstall ==
  ASSUME TableEach, Tight!Install
  PROVE  /\ TableEach'
         /\ pc = "install" /\ pc' = "reset"
         /\ Len(sstables') = Len(sstables) + 1 /\ kv' = kv
<1>1. /\ pc = "install" /\ pc' = "reset" /\ memtable' = Roomy!NoRecords
      /\ UNCHANGED <<kv, walFile, walTorn, tables, walBuf, op>>
  BY DEF Tight!Install, Tight!Control, Tight!diskVars, Tight!NoRecords, Roomy!NoRecords
<1>2. sstables' = Append(sstables, [id |-> newId, cached |-> TRUE, index |-> Tight!Keys(memtable)])
  BY DEF Tight!Install
<1>3. sstables \in Seq({sstables[p] : p \in DOMAIN sstables})
  BY DEF TableEach
<1>4. /\ sstables' \in Seq({sstables'[p] : p \in DOMAIN sstables'})
      /\ Len(sstables') = Len(sstables) + 1
  <2> DEFINE e == [id |-> newId, cached |-> TRUE, index |-> Tight!Keys(memtable)]
  <2> HIDE DEF e
  <2>1. sstables' = Append(sstables, e)
    BY <1>2 DEF e
  <2>2. /\ Append(sstables, e) \in Seq({Append(sstables, e)[p] : p \in DOMAIN Append(sstables, e)})
        /\ Len(Append(sstables, e)) = Len(sstables) + 1
    BY <1>3, NewestLast
  <2> QED BY <2>1, <2>2
<1> QED BY <1>1, <1>4, NothingInNoRecords DEF TableEach, Opening, Owing

\* The log is emptied and the call returns.
LEMMA TableReturn ==
  ASSUME TableEach, Tight!Reset \/ Tight!Return
  PROVE  /\ TableEach'
         /\ pc \in {"reset", "return"} /\ pc' \in {"return", "idle"}
         /\ UNCHANGED <<sstables, kv>>
<1>1. CASE Tight!Reset
  BY <1>1 DEF Tight!Reset, Tight!Control, TableEach, Opening, Owing
<1>2. CASE Tight!Return
  BY <1>2 DEF Tight!Return, Tight!Done, Tight!Quiet, Tight!Control, Tight!diskVars,
       Tight!memVars, TableEach, Opening, Owing
<1> QED BY <1>1, <1>2

\* The constructor finds an empty directory.
LEMMA TableOpen ==
  ASSUME TableEach, Roomy!Recovery
  PROVE  /\ TableEach'
         /\ pc \in Opening /\ pc' \in Opening \cup {"idle"}
         /\ UNCHANGED <<sstables, kv>>
<1> USE DEF TableEach, Opening, Owing
<1>1. CASE Roomy!Open \/ Roomy!ReplayEnd \/ Roomy!LoadEnd
  BY <1>1 DEF Roomy!Open, Roomy!ReplayEnd, Roomy!LoadEnd, Roomy!Control, Roomy!diskVars,
       Roomy!memVars, Roomy!Files
<1>2. ~ Roomy!ReplayRecord
  <2>1. pc = "replay" => Len(walFile) = 0 /\ pos = 1
    OBVIOUS
  <2> QED BY <2>1 DEF Roomy!ReplayRecord
<1>3. ~ Roomy!ReplayRefused /\ ~ Roomy!LoadTable
  BY DEF Roomy!ReplayRefused, Roomy!LoadTable, Roomy!FirstOf
<1> QED BY <1>1, <1>2, <1>3 DEF Roomy!Recovery

\* What the store may be busy with, outside compact.
LEMMA TableServe ==
  ASSUME TableEach, Tight!Serve
  PROVE  \/ Tight!Sync \/ Tight!CreateTable \/ Tight!WriteRecord \/ Tight!Seal
         \/ Tight!Install \/ Tight!Reset \/ Tight!Return
BY DEF TableEach, Opening, Owing, Tight!Serve, Tight!MergeTable, Tight!MergeFails,
       Tight!MergeEnd, Tight!RemoveTable, Tight!Swap

\* A put or del begins: its record waits for the log.
LEMMA TableCall ==
  ASSUME TableEach, NEW name, name # "compact", NEW k \in Key, NEW r \in Roomy!Rec,
         Roomy!Append1(name, k, r)
  PROVE  /\ TableEach'
         /\ pc = "idle" /\ pc' = "sync"
         /\ walBuf' = <<[key |-> k, rec |-> r]>>
         /\ UNCHANGED <<sstables, kv>>
<1>1. pc = "idle" /\ walBuf = <<>>
  BY DEF TableEach, Roomy!Append1, Roomy!Accepting
<1>2. walBuf' = <<[key |-> k, rec |-> r]>>
  BY <1>1 DEF Roomy!Append1
<1>3. /\ pc' = "sync" /\ op' = name
      /\ UNCHANGED <<walFile, walTorn, tables, memtable, sstables, kv>>
  BY DEF Roomy!Append1, Roomy!Control, Roomy!diskVars
<1> QED BY <1>1, <1>2, <1>3 DEF TableEach, Opening, Owing

\* What a put and a del do to the keys that there are.
LEMMA HasPut ==
  ASSUME storageKey \in Permutation, storageKey' = storageKey,
         NEW j \in 0 .. compact_operations - 1, NEW v \in Value,
         kv \in [Key -> Value \cup {None}], kv' = [kv EXCEPT ![storageKey[j]] = v],
         Has(PutTurns(j))
  PROVE  \A k \in Key : kv'[k] # None <=> \E t \in PutTurns(j + 1) : storageKey[t] = k
<1>1. PutTurns(j + 1) = PutTurns(j) \cup {j}
  BY OperationsAssumption DEF PutTurns
<1>2. v # None
  BY ValuesAssumption
<1> QED BY <1>1, <1>2 DEF Has

\* A del of an even turn takes away the key of that turn and no other.
LEMMA HasDel ==
  ASSUME storageKey \in Permutation, storageKey' = storageKey,
         NEW j \in 0 .. compact_operations - 1, j % 2 = 0,
         kv \in [Key -> Value \cup {None}], kv' = [kv EXCEPT ![storageKey[j]] = None],
         Has(DelTurns(j))
  PROVE  \A k \in Key : kv'[k] # None <=> \E t \in DelTurns(j + 2) : storageKey[t] = k
<1>1. DelTurns(j + 2) = DelTurns(j) \ {j}
  <2> SUFFICES ASSUME NEW t \in 0 .. compact_operations - 1
               PROVE  t % 2 = 1 \/ t >= j + 2 <=> (t % 2 = 1 \/ t >= j) /\ t # j
    BY DEF DelTurns
  <2>1. t \in Nat /\ j \in Nat
    OBVIOUS
  <2>2. t = j + 1 => t % 2 = 1
    BY <2>1
  <2>3. j % 2 # 1
    OBVIOUS
  <2> QED BY <2>1, <2>2, <2>3
<1>2. \A s, t \in 0 .. compact_operations - 1 : storageKey[s] = storageKey[t] => s = t
  BY OperationsAssumption DEF Permutation, Key
<1>3. DelTurns(j) \subseteq 0 .. compact_operations - 1
  BY DEF DelTurns
<1> QED BY <1>1, <1>2, <1>3 DEF Has

-----------------------------------------------------------------------------
(* The parts of benchCompact *)

\* A put that the store serves, and the opening of the store before the first one.
LEMMA PutServed ==
  ASSUME storageKey \in Permutation, storageKey' = storageKey, CompactInv,
         part = 1, part' = 1, NEW n \in Nat, i = n, i' = n,
         Roomy!Recovery \/ Tight!Serve
  PROVE  CompactInv'
<1>1. /\ TableEach /\ n <= compact_operations
      /\ pc \in Opening => n = 0
      /\ Owing => n > 0
      /\ Len(sstables) = IF Owing THEN n - 1 ELSE n
      /\ Has(PutTurns(IF pc = "sync" THEN n - 1 ELSE n))
      /\ pc = "sync" => \E v \in Value : walBuf = <<[key |-> storageKey[n - 1], rec |-> v]>>
  BY DEF CompactInv
<1>2. SUFFICES /\ TableEach'
               /\ pc' \in Opening => n = 0
               /\ Owing' => n > 0
               /\ Len(sstables') = IF Owing' THEN n - 1 ELSE n
               /\ \A k \in Key : kv'[k] # None <=> \E t \in PutTurns(n) : storageKey[t] = k
               /\ pc' # "sync"
  BY <1>1 DEF CompactInv, Has
<1>3. CASE Roomy!Recovery
  BY <1>1, <1>3, TableOpen DEF Opening, Owing, Has
<1>4. CASE Tight!Sync
  <2>1. pc = "sync"
    BY <1>4 DEF Tight!Sync
  <2>2. n > 0 /\ Len(sstables) = n - 1 /\ Has(PutTurns(n - 1))
    BY <1>1, <2>1 DEF Owing
  <2>3. PICK v \in Value : walBuf = <<[key |-> storageKey[n - 1], rec |-> v]>>
    BY <1>1, <2>1
  <2>4. PICK j \in 0 .. compact_operations - 1 : j = n - 1
    BY <1>1, <2>2, OperationsAssumption
  <2>5. j \in Key
    BY OperationsAssumption DEF Key
  <2>6. PICK k \in Key : k = storageKey[j]
    BY <2>5 DEF Permutation
  <2>7. v \in Roomy!Rec /\ walBuf = <<[key |-> k, rec |-> v]>>
    BY <2>3, <2>4, <2>6 DEF Roomy!Rec
  <2>8. /\ TableEach' /\ pc' = "create" /\ sstables' = sstables
        /\ kv' = [kv EXCEPT ![k] = IF v \in Value THEN v ELSE None]
    BY <1>1, <1>4, <2>7, TableSync
  <2>9. kv' = [kv EXCEPT ![storageKey[j]] = v] /\ kv \in [Key -> Value \cup {None}]
    BY <1>1, <2>6, <2>8 DEF TableEach
  <2>10. \A q \in Key : kv'[q] # None <=> \E t \in PutTurns(j + 1) : storageKey[t] = q
    BY <2>2, <2>4, <2>9, HasPut
  <2>11. j + 1 = n
    BY <2>4
  <2> QED BY <2>2, <2>8, <2>10, <2>11 DEF Opening, Owing
<1>5. CASE Tight!CreateTable \/ Tight!WriteRecord \/ Tight!Seal
  BY <1>1, <1>5, TableWrite DEF Opening, Owing, Has
<1>6. CASE Tight!Install
  BY <1>1, <1>6, TableInstall DEF Opening, Owing, Has
<1>7. CASE Tight!Reset \/ Tight!Return
  BY <1>1, <1>7, TableReturn DEF Opening, Owing, Has
<1> QED BY <1>1, <1>3, <1>4, <1>5, <1>6, <1>7, TableServe

\* A del that the store serves.
LEMMA DelServed ==
  ASSUME storageKey \in Permutation, storageKey' = storageKey, CompactInv,
         part = 2, part' = 2, NEW n \in Nat, i = n, i' = n,
         Roomy!Recovery \/ Tight!Serve
  PROVE  CompactInv'
<1>1. /\ TableEach /\ n % 2 = 0 /\ n <= compact_operations + 1
      /\ pc \notin Opening
      /\ Owing => n > 0
      /\ Len(sstables) = compact_operations + (IF Owing THEN n \div 2 - 1 ELSE n \div 2)
      /\ Has(DelTurns(IF pc = "sync" THEN n - 2 ELSE n))
      /\ pc = "sync" => walBuf = <<[key |-> storageKey[n - 2], rec |-> Tombstone]>>
  BY DEF CompactInv
<1>2. SUFFICES /\ TableEach'
               /\ pc' \notin Opening
               /\ Owing' => n > 0
               /\ Len(sstables') = compact_operations + (IF Owing' THEN n \div 2 - 1 ELSE n \div 2)
               /\ \A k \in Key : kv'[k] # None <=> \E t \in DelTurns(n) : storageKey[t] = k
               /\ pc' # "sync"
  BY <1>1 DEF CompactInv, Has
<1>3. CASE Roomy!Recovery
  BY <1>1, <1>3, TableOpen
<1>4. CASE Tight!Sync
  <2>1. pc = "sync"
    BY <1>4 DEF Tight!Sync
  <2>2. /\ n > 0 /\ Has(DelTurns(n - 2))
        /\ Len(sstables) = compact_operations + (n \div 2 - 1)
    BY <1>1, <2>1 DEF Owing
  <2>3. PICK j \in 0 .. compact_operations - 1 : j = n - 2
    BY <1>1, <2>2, OperationsAssumption
  <2>4. j % 2 = 0
    BY <1>1, <2>3
  <2>5. j \in Key
    BY OperationsAssumption DEF Key
  <2>6. PICK k \in Key : k = storageKey[j]
    BY <2>5 DEF Permutation
  <2>7. Tombstone \in Roomy!Rec /\ walBuf = <<[key |-> k, rec |-> Tombstone]>>
    BY <1>1, <2>1, <2>3, <2>6 DEF Roomy!Rec
  <2>8. /\ TableEach' /\ pc' = "create" /\ sstables' = sstables
        /\ kv' = [kv EXCEPT ![k] = IF Tombstone \in Value THEN Tombstone ELSE None]
    BY <1>1, <1>4, <2>7, TableSync
  <2>9. kv' = [kv EXCEPT ![storageKey[j]] = None] /\ kv \in [Key -> Value \cup {None}]
    BY <1>1, <2>6, <2>8, ValuesAssumption DEF TableEach
  <2>10. \A q \in Key : kv'[q] # None <=> \E t \in DelTurns(j + 2) : storageKey[t] = q
    BY <2>2, <2>3, <2>4, <2>9, HasDel
  <2>11. j + 2 = n
    BY <2>3
  <2> QED BY <2>2, <2>8, <2>10, <2>11 DEF Opening, Owing
<1>5. CASE Tight!CreateTable \/ Tight!WriteRecord \/ Tight!Seal
  BY <1>1, <1>5, TableWrite DEF Opening, Owing, Has
<1>6. CASE Tight!Install
  <2> DEFINE h == n \div 2
  <2>1. h \in Int
    OBVIOUS
  <2>2. Len(sstables) = compact_operations + (h - 1) /\ Len(sstables') = Len(sstables) + 1
    BY <1>1, <1>6, TableInstall DEF Owing
  <2>3. Len(sstables') = compact_operations + h
    <3> HIDE DEF h
    <3> QED BY <2>1, <2>2, OperationsAssumption
  <2> QED BY <1>1, <1>6, <2>3, TableInstall DEF Opening, Owing, Has
<1>7. CASE Tight!Reset \/ Tight!Return
  BY <1>1, <1>7, TableReturn DEF Opening, Owing, Has
<1> QED BY <1>1, <1>3, <1>4, <1>5, <1>6, <1>7, TableServe

\* The next put, which waits for the log with its key.
LEMMA NextPut ==
  ASSUME storageKey \in Permutation, storageKey' = storageKey, CompactInv,
         part = 1, part' = 1, NEW n \in Nat, i = n, i' = n + 1, n < compact_operations,
         NEW v \in Value, Roomy!Put(storageKey[i], v)
  PROVE  CompactInv'
<1>1. TableEach /\ Len(sstables) = (IF Owing THEN n - 1 ELSE n)
      /\ Has(PutTurns(IF pc = "sync" THEN n - 1 ELSE n))
  BY DEF CompactInv
<1>2. n \in Key
  BY OperationsAssumption DEF Key
<1>3. PICK k \in Key : k = storageKey[n]
  BY <1>2 DEF Permutation
<1>4. Roomy!Append1("put", k, v) /\ v \in Roomy!Rec
  BY <1>3 DEF Roomy!Put, Roomy!Rec
<1>5. /\ TableEach' /\ pc = "idle" /\ pc' = "sync"
      /\ walBuf' = <<[key |-> k, rec |-> v]>>
      /\ UNCHANGED <<sstables, kv>>
  BY <1>1, <1>4, TableCall
<1>6. Len(sstables') = n /\ n + 1 <= compact_operations /\ (n + 1) - 1 = n /\ n + 1 > 0
  BY <1>1, <1>5, OperationsAssumption DEF Owing
<1>7. \A q \in Key : kv'[q] # None <=> \E t \in PutTurns((n + 1) - 1) : storageKey[t] = q
  BY <1>1, <1>5, <1>6 DEF Has
<1>8. walBuf' = <<[key |-> storageKey'[(n + 1) - 1], rec |-> v]>>
  BY <1>3, <1>5, <1>6
<1> QED BY <1>5, <1>6, <1>7, <1>8 DEF CompactInv, Opening, Owing, Has

\* The next del, two turns on.
LEMMA NextDel ==
  ASSUME storageKey \in Permutation, storageKey' = storageKey, CompactInv,
         part = 2, part' = 2, NEW n \in Nat, i = n, i' = n + 2, n < compact_operations,
         Roomy!Del(storageKey[i])
  PROVE  CompactInv'
<1>1. /\ TableEach /\ n % 2 = 0
      /\ Len(sstables) = compact_operations + (IF Owing THEN n \div 2 - 1 ELSE n \div 2)
      /\ Has(DelTurns(IF pc = "sync" THEN n - 2 ELSE n))
  BY DEF CompactInv
<1>2. n \in Key
  BY OperationsAssumption DEF Key
<1>3. PICK k \in Key : k = storageKey[n]
  BY <1>2 DEF Permutation
<1>4. Roomy!Append1("del", k, Tombstone) /\ Tombstone \in Roomy!Rec
  BY <1>3 DEF Roomy!Del, Roomy!Rec
<1>5. /\ TableEach' /\ pc = "idle" /\ pc' = "sync"
      /\ walBuf' = <<[key |-> k, rec |-> Tombstone]>>
      /\ UNCHANGED <<sstables, kv>>
  BY <1>1, <1>4, TableCall
<1>6. /\ n + 2 <= compact_operations + 1 /\ (n + 2) - 2 = n /\ n + 2 > 0
      /\ (n + 2) % 2 = 0 /\ (n + 2) \div 2 - 1 = n \div 2
  BY <1>1, OperationsAssumption
<1>7. Len(sstables') = compact_operations + ((n + 2) \div 2 - 1)
  BY <1>1, <1>5, <1>6 DEF Owing
<1>8. \A q \in Key : kv'[q] # None <=> \E t \in DelTurns((n + 2) - 2) : storageKey[t] = q
  BY <1>1, <1>5, <1>6 DEF Has
<1>9. walBuf' = <<[key |-> storageKey'[(n + 2) - 2], rec |-> Tombstone]>>
  BY <1>3, <1>5, <1>6
<1> QED BY <1>5, <1>6, <1>7, <1>8, <1>9 DEF CompactInv, Opening, Owing, Has

\* After the last put every key is there; after the last del, those of the odd turns.
LEMMA PutsDone == PutTurns(compact_operations) = DelTurns(0)
BY OperationsAssumption DEF PutTurns, DelTurns

\* The dels are as many as the turns, halved and rounded up.
LEMMA DelsDone ==
  ASSUME NEW n \in Nat, n % 2 = 0, n >= compact_operations, n <= compact_operations + 1
  PROVE  /\ DelTurns(n) = DelTurns(compact_operations)
         /\ n \div 2 = (compact_operations + 1) \div 2
<1>1. DelTurns(n) = DelTurns(compact_operations)
  BY OperationsAssumption DEF DelTurns
<1>2. n = compact_operations \/ n = compact_operations + 1
  BY OperationsAssumption
<1>3. n = compact_operations => n \div 2 = (n + 1) \div 2
  OBVIOUS
<1> QED BY <1>1, <1>2, <1>3

\* A part of benchCompact ends and leaves what the next one begins with.
LEMMA PartEnds ==
  ASSUME CompactInv, pc = "idle", NEW n \in Nat, i = n, n >= compact_operations, i' = 0,
         part' = part + 1, UNCHANGED <<storageKey, storeVars>>, part \in 1 .. 3
  PROVE  CompactInv'
<1>1. CASE part = 1
  <2>1. TableEach /\ n = compact_operations /\ Len(sstables) = n /\ Has(PutTurns(n))
    BY <1>1, OperationsAssumption DEF CompactInv, Owing
  <2>2. TableEach'
    BY <2>1 DEF TableEach, storeVars, Opening, Owing, Roomy!Files
  <2>3. Has(DelTurns(0)) /\ Len(sstables) = compact_operations + 0 \div 2
    BY <2>1, PutsDone, OperationsAssumption
  <2> QED BY <1>1, <2>2, <2>3, OperationsAssumption DEF CompactInv, storeVars, Opening, Owing, Has
<1>2. CASE part = 2
  <2>1. /\ n % 2 = 0 /\ n <= compact_operations + 1
        /\ Len(sstables) = compact_operations + n \div 2 /\ Has(DelTurns(n))
    BY <1>2 DEF CompactInv, Owing
  <2>2. DelTurns(n) = DelTurns(compact_operations) /\ n \div 2 = (compact_operations + 1) \div 2
    BY <2>1, DelsDone
  <2>3. /\ Has(DelTurns(compact_operations))
        /\ Len(sstables) = compact_operations + (compact_operations + 1) \div 2
    BY <2>1, <2>2
  <2> QED BY <1>2, <2>3 DEF CompactInv, storeVars, Has
<1>3. CASE part = 3
  BY <1>3 DEF CompactInv
<1> QED BY <1>1, <1>2, <1>3

-----------------------------------------------------------------------------
(* The steps of a benchmark *)

\* A store that is idle has nothing to go on with.
LEMMA IdleWaits == pc = "idle" => ~ Roomy!Recovery /\ ~ Roomy!Serve /\ ~ Tight!Serve
<1>1. pc = "idle" => ~ Roomy!Recovery
  BY DEF Roomy!Recovery, Roomy!Open, Roomy!ReplayRecord, Roomy!ReplayEnd, Roomy!ReplayRefused,
         Roomy!LoadTable, Roomy!LoadEnd
<1>2. pc = "idle" => ~ Roomy!Serve
  BY DEF Roomy!Serve, Roomy!Sync, Roomy!Return, Roomy!CreateTable, Roomy!WriteRecord,
         Roomy!Seal, Roomy!Install, Roomy!MergeTable, Roomy!MergeFails, Roomy!MergeEnd,
         Roomy!RemoveTable, Roomy!Swap, Roomy!Reset
<1>3. pc = "idle" => ~ Tight!Serve
  BY DEF Tight!Serve, Tight!Sync, Tight!Return, Tight!CreateTable, Tight!WriteRecord,
         Tight!Seal, Tight!Install, Tight!MergeTable, Tight!MergeFails, Tight!MergeEnd,
         Tight!RemoveTable, Tight!Swap, Tight!Reset
<1> QED BY <1>1, <1>2, <1>3

\* What holds of the store alone survives a step that leaves the store alone.
LEMMA StoreRests ==
  ASSUME UNCHANGED <<storageKey, storeVars>>
  PROVE  /\ InMemory => InMemory'
         /\ Flushing => Flushing'
         /\ Reopening => Reopening'
         /\ TableEach => TableEach'
<1>1. InMemory => InMemory'
  BY DEF storeVars, InMemory, Used, Opening, Roomy!Files, Roomy!Keys
<1>2. Flushing => Flushing'
  BY DEF storeVars, Flushing, Roomy!Files
<1>3. Reopening => Reopening'
  BY DEF storeVars, Reopening, Opening, Roomy!Files
<1>4. TableEach => TableEach'
  BY DEF storeVars, TableEach, Opening, Owing, Roomy!Files
<1> QED BY <1>1, <1>2, <1>3, <1>4

\* The store goes on by itself.
LEMMA BenchWork == ASSUME BenchInv, Work PROVE BenchInv'
<1>1. /\ UNCHANGED <<benchmark, storageKey, part, i, hits>>
      /\ storageKey \in Permutation
      /\ Roomy!Recovery \/ IF benchmark = "compact" THEN Tight!Serve ELSE Roomy!Serve
  BY DEF Work, BenchInv, progressVars
<1>2. ASSUME benchmark \in {"put", "get_mem", "del"} PROVE InMemory'
  BY <1>1, <1>2, MemoryWork DEF BenchInv
<1>3. ASSUME benchmark = "get_sst" PROVE GetSstInv'
  <2>1. GetSstInv /\ (Roomy!Recovery \/ Roomy!Serve)
    BY <1>1, <1>3 DEF BenchInv
  <2>2. part = 1 \/ (part = 2 /\ i = 0) => InMemory'
    BY <1>1, <2>1, MemoryWork DEF GetSstInv
  <2>3. part = 2 /\ i # 0 => Flushing'
    BY <2>1, FlushWork DEF GetSstInv
  <2>4. part = 3 /\ i # 0 => Reopening'
    BY <2>1, ReopenWork DEF GetSstInv
  <2>5. ~ (part = 3 /\ i = 0) /\ part # 4
    BY <2>1, IdleWaits DEF GetSstInv
  <2> QED BY <1>1, <2>2, <2>3, <2>4, <2>5 DEF GetSstInv
<1>4. ASSUME benchmark = "compact" PROVE CompactInv'
  <2>1. CompactInv /\ (Roomy!Recovery \/ Tight!Serve)
    BY <1>1, <1>4 DEF BenchInv
  <2>2. PICK n \in Nat : i = n
    BY DEF BenchInv
  <2>3. i' = n /\ part' = part
    BY <1>1, <2>2
  <2>4. CASE part = 1
    BY <1>1, <2>1, <2>2, <2>3, <2>4, PutServed
  <2>5. CASE part = 2
    BY <1>1, <2>1, <2>2, <2>3, <2>5, DelServed
  <2>6. CASE part \notin {1, 2}
    <3>1. ~ (part = 3 /\ i = 0)
      BY <2>1, IdleWaits DEF CompactInv
    <3> QED BY <1>1, <2>6, <3>1 DEF CompactInv
  <2> QED BY <2>4, <2>5, <2>6
<1> QED BY <1>1, <1>2, <1>3, <1>4 DEF BenchInv

\* A turn of a loop is about one of the keys in use and leaves the loop in its part.
LEMMA TurnTaken ==
  ASSUME BenchInv, Turn
  PROVE  /\ UNCHANGED <<benchmark, storageKey, part>>
         /\ i \in Nat /\ Stride \in {1, 2} /\ i' = i + Stride /\ i' \in Nat
         /\ benchmark # "compact" => KeyFor \in Used
         /\ benchmark = "compact" => i < compact_operations
<1>1. /\ UNCHANGED <<benchmark, storageKey, part>> /\ i' = i + Stride /\ i < Turns /\ i \in Nat
  BY DEF Turn, BenchInv
<1>2. Stride \in {1, 2}
  BY DEF Stride
<1>3. benchmark # "compact" => KeyFor \in Used
  <2>1. benchmark # "compact" => i \in 0 .. operations - 1
    BY <1>1, OperationsAssumption DEF Turns
  <2> QED BY <2>1 DEF KeyFor, Used
<1> QED BY <1>1, <1>2, <1>3 DEF Turns

\* Puts, dels and gets of the benchmarks whose memtable never fills up.
LEMMA MemoryTurn ==
  ASSUME BenchInv, PutNext \/ DelNext \/ GetNext, InMemory, benchmark # "compact"
  PROVE  InMemory'
<1>1. storageKey' = storageKey /\ KeyFor \in Used
  BY TurnTaken DEF PutNext, DelNext, GetNext
<1>2. PICK k \in Used : k = KeyFor
  BY <1>1
<1>3. \/ \E v \in Value : Roomy!Put(k, v)
      \/ Roomy!Del(k) \/ Roomy!Get(k)
  BY <1>2 DEF PutNext, DelNext, GetNext
<1> QED BY <1>1, <1>3, MemoryCall

\* A turn of a loop.
LEMMA BenchTurn == ASSUME BenchInv, PutNext \/ DelNext \/ GetNext PROVE BenchInv'
<1>1. Turn
  BY DEF PutNext, DelNext, GetNext
<1>2. /\ UNCHANGED <<benchmark, storageKey, part>>
      /\ i \in Nat /\ i' = i + Stride /\ i' \in Nat
      /\ benchmark = "compact" => i < compact_operations
  BY <1>1, TurnTaken
<1>3. ASSUME benchmark \in {"put", "get_mem", "del"} PROVE InMemory'
  BY <1>3, MemoryTurn DEF BenchInv
<1>4. ASSUME benchmark = "get_sst" PROVE GetSstInv'
  <2>1. GetSstInv
    BY <1>4 DEF BenchInv
  <2>2. CASE part = 1
    BY <1>2, <1>4, <2>1, <2>2, MemoryTurn DEF GetSstInv
  <2>3. CASE part = 4
    <3>1. Roomy!Get(KeyFor)
      BY <1>4, <2>3, PartNames DEF PutNext, DelNext, GetNext
    <3>2. Reopening /\ pc = "idle"
      BY <2>1, <2>3 DEF GetSstInv
    <3>3. Reopening' /\ pc' = "idle"
      BY <3>1, <3>2 DEF Roomy!Get, Roomy!diskVars, Roomy!memVars, Roomy!ctlVars, Reopening,
           Opening, Roomy!Files
    <3> QED BY <1>2, <2>3, <3>3 DEF GetSstInv
  <2>4. part = 1 \/ part = 4
    BY <1>4, PartNames DEF PutNext, DelNext, GetNext
  <2> QED BY <2>2, <2>3, <2>4
<1>5. ASSUME benchmark = "compact" PROVE CompactInv'
  <2>1. CompactInv
    BY <1>5 DEF BenchInv
  <2>2. PICK n \in Nat : i = n
    BY <1>2
  <2>3. CASE PutNext
    <3>1. Stride = 1 /\ part = 1
      BY <2>3, PartNames DEF PutNext, Stride
    <3>2. PICK v \in Value : Roomy!Put(storageKey[i], v)
      BY <2>3 DEF PutNext, KeyFor
    <3>3. i' = n + 1 /\ part' = 1 /\ n < compact_operations
      BY <1>2, <1>5, <2>2, <3>1
    <3> QED BY <1>2, <2>1, <2>2, <3>1, <3>2, <3>3, NextPut DEF BenchInv
  <2>4. CASE DelNext
    <3>1. Stride = 2 /\ part = 2
      BY <1>5, <2>4, PartNames DEF DelNext, Stride
    <3>2. Roomy!Del(storageKey[i])
      BY <2>4 DEF DelNext, KeyFor
    <3>3. i' = n + 2 /\ part' = 2 /\ n < compact_operations
      BY <1>2, <1>5, <2>2, <3>1
    <3> QED BY <1>2, <2>1, <2>2, <3>1, <3>2, <3>3, NextDel DEF BenchInv
  <2>5. ~ GetNext
    BY <1>5, PartNames DEF GetNext
  <2> QED BY <2>3, <2>4, <2>5
<1> QED BY <1>2, <1>3, <1>4, <1>5 DEF BenchInv

\* A part that is one call.
LEMMA BenchOnce == ASSUME BenchInv, FlushAll \/ CompactAll \/ Reopen PROVE BenchInv'
<1>1. /\ UNCHANGED <<benchmark, storageKey, part, hits>> /\ i = 0 /\ i' = Turns
  BY DEF FlushAll, CompactAll, Reopen, Once
<1>2. i' \in Nat /\ i' # 0
  BY <1>1, OperationsAssumption DEF Turns
<1>3. CASE FlushAll
  <2>1. benchmark = "get_sst" /\ part = 2
    BY <1>3, PartNames DEF FlushAll
  <2>2. InMemory
    BY <1>1, <2>1 DEF BenchInv, GetSstInv
  <2>3. Flushing'
    BY <1>3, <2>2, FlushBegins DEF FlushAll
  <2> QED BY <1>1, <1>2, <2>1, <2>3 DEF BenchInv, GetSstInv
<1>4. CASE Reopen
  <2>1. benchmark = "get_sst" /\ part = 3
    BY <1>4, PartNames DEF Reopen
  <2>2. Flushing /\ pc = "idle"
    BY <1>1, <2>1 DEF BenchInv, GetSstInv
  <2>3. Reopening'
    BY <1>4, <2>2, StoreCloses DEF Reopen
  <2> QED BY <1>1, <1>2, <2>1, <2>3 DEF BenchInv, GetSstInv
<1>5. CASE CompactAll
  <2>1. benchmark = "compact" /\ part = 3
    BY <1>5, PartNames DEF CompactAll
  <2> QED BY <1>1, <1>2, <2>1 DEF BenchInv, CompactInv
<1> QED BY <1>3, <1>4, <1>5

\* A part ends.
LEMMA BenchPartEnds == ASSUME BenchInv, EndPart PROVE BenchInv'
<1>1. /\ UNCHANGED <<benchmark, storageKey, hits, storeVars>>
      /\ i \in Nat /\ i >= Turns /\ pc = "idle" /\ i' = 0
      /\ part \in 1 .. Len(Program) /\ part \in Nat
      /\ part' = IF Part = "get" /\ hits # operations THEN 0 ELSE part + 1
  BY PartNames DEF EndPart, BenchInv
<1>2. part' \in Nat /\ (part' = 0 \/ part' = part + 1)
  BY <1>1
<1>3. i # 0
  BY <1>1, OperationsAssumption DEF Turns
<1>4. ASSUME benchmark \in {"put", "get_mem", "del"} PROVE InMemory'
  BY <1>1, <1>4, StoreRests DEF BenchInv
<1>5. ASSUME benchmark = "get_sst" PROVE GetSstInv'
  <2>1. GetSstInv
    BY <1>5 DEF BenchInv
  <2>2. CASE part = 1
    BY <1>1, <1>2, <2>1, <2>2, StoreRests DEF GetSstInv
  <2>3. CASE part = 2
    <3>1. Flushing' /\ pc' = "idle"
      BY <1>1, <1>3, <2>1, <2>3, StoreRests DEF GetSstInv, storeVars
    <3> QED BY <1>1, <1>2, <2>3, <3>1 DEF GetSstInv
  <2>4. CASE part = 3
    <3>1. Reopening' /\ pc' = "idle"
      BY <1>1, <1>3, <2>1, <2>4, StoreRests DEF GetSstInv, storeVars
    <3> QED BY <1>1, <1>2, <2>4, <3>1 DEF GetSstInv
  <2>5. CASE part \notin {1, 2, 3}
    BY <1>1, <1>2, <2>5 DEF GetSstInv
  <2> QED BY <2>2, <2>3, <2>4, <2>5
<1>6. ASSUME benchmark = "compact" PROVE CompactInv'
  <2>1. CompactInv /\ Len(Program) = 3
    BY <1>6, PartNames DEF BenchInv
  <2>2. PICK n \in Nat : i = n
    BY <1>1
  <2>3. n >= compact_operations
    BY <1>1, <1>6, <2>2 DEF Turns
  <2>4. part \in 1 .. 3
    BY <1>1, <2>1
  <2>5. CASE part' = 0
    BY <2>5 DEF CompactInv
  <2>6. CASE part' = part + 1
    BY <1>1, <2>1, <2>2, <2>3, <2>4, <2>6, PartEnds
  <2> QED BY <1>2, <2>5, <2>6
<1> QED BY <1>1, <1>2, <1>4, <1>5, <1>6 DEF BenchInv

\* Nothing happens.
LEMMA BenchRests == ASSUME BenchInv, UNCHANGED benchVars PROVE BenchInv'
<1>1. UNCHANGED <<benchmark, storageKey, part, i, hits, storeVars>>
  BY DEF benchVars, progressVars
<1>2. InMemory => InMemory'
  BY <1>1, StoreRests
<1>3. GetSstInv => GetSstInv'
  BY <1>1, StoreRests DEF GetSstInv, storeVars
<1>4. CompactInv => CompactInv'
  <2>1. UNCHANGED <<kv, sstables, pc, walBuf>>
    BY <1>1 DEF storeVars
  <2>2. TableEach => TableEach'
    BY <1>1, StoreRests
  <2> QED BY <1>1, <2>1, <2>2 DEF CompactInv, Has, Opening, Owing
<1> QED BY <1>1, <1>2, <1>3, <1>4 DEF BenchInv

\* The invariant is inductive.
LEMMA BenchStep == BenchInv /\ [BenchNext]_benchVars => BenchInv'
BY BenchWork, BenchTurn, BenchOnce, BenchPartEnds, BenchRests DEF BenchNext

-----------------------------------------------------------------------------
(* The theorems *)

\* The programs keep their invariant, with every number of operations in every order.
LEMMA BenchInductive == BenchSpec => []BenchInv
BY InitBench, BenchStep, PTL DEF BenchSpec

\* A benchmark in its last part has the store that its name promises.
LEMMA Measuring == BenchInv => MeasuresWhatItNames
<1> SUFFICES ASSUME BenchInv, Measured
             PROVE  /\ benchmark \in {"put", "get_mem", "del"} => Roomy!Files = {}
                    /\ benchmark = "get_sst" => /\ memtable = Roomy!NoRecords
                                                /\ Len(sstables) = 1 /\ ~sstables[1].cached
  BY DEF MeasuresWhatItNames
<1>1. ASSUME benchmark \in {"put", "get_mem", "del"} PROVE Roomy!Files = {}
  BY <1>1 DEF BenchInv, InMemory
<1>2. ASSUME benchmark = "get_sst"
      PROVE  memtable = Roomy!NoRecords /\ Len(sstables) = 1 /\ ~sstables[1].cached
  <2>1. part = 4
    BY <1>2, PartNames DEF Measured
  <2>2. memtable = Roomy!NoRecords /\ sstables = FoundTable
    BY <1>2, <2>1 DEF BenchInv, GetSstInv, Reopening
  <2> QED BY <2>2 DEF FoundTable
<1> QED BY <1>1, <1>2

\* What a benchmark measures is what it is named for: memtable and log alone, or one
\* table that an earlier object left.
THEOREM MeasuresItsName == BenchSpec => []MeasuresWhatItNames
BY BenchInductive, Measuring, PTL

\* Every other one of the keys of n turns is n \div 2 keys, whatever their order.
LEMMA OddTurns ==
  ASSUME storageKey \in Permutation
  PROVE  Cardinality({k \in Key : \E j \in DelTurns(compact_operations) : storageKey[j] = k})
           = compact_operations \div 2
<1> DEFINE n == compact_operations
           h == n \div 2
           S == {k \in Key : \E j \in DelTurns(n) : storageKey[j] = k}
           f == [m \in 1 .. h |-> storageKey[2 * m - 1]]
<1>1. n \in Nat /\ h \in Nat /\ 2 * h <= n /\ n <= 2 * h + 1
  BY OperationsAssumption
<1>2. 0 .. n - 1 \subseteq Key
  BY OperationsAssumption DEF Key
<1>3. \A m \in 1 .. h : 2 * m - 1 \in 0 .. n - 1 /\ (2 * m - 1) % 2 = 1
  <2> SUFFICES ASSUME NEW m \in 1 .. h PROVE 2 * m - 1 \in 0 .. n - 1 /\ (2 * m - 1) % 2 = 1
    OBVIOUS
  <2> HIDE DEF n, h
  <2> QED BY <1>1
<1>4. \A j \in DelTurns(n) : j \in 0 .. n - 1 /\ j % 2 = 1
  BY <1>1 DEF DelTurns
<1>5. \A j \in DelTurns(n) : \E m \in 1 .. h : j = 2 * m - 1
  <2> SUFFICES ASSUME NEW j \in DelTurns(n) PROVE \E m \in 1 .. h : j = 2 * m - 1
    OBVIOUS
  <2>1. j \in 0 .. n - 1 /\ j % 2 = 1
    BY <1>4
  <2> DEFINE m == (j + 1) \div 2
  <2> HIDE DEF n, h
  <2>2. m \in Int /\ j = 2 * m - 1
    BY <1>1, <2>1
  <2>3. m \in 1 .. h
    <3> HIDE DEF m
    <3> QED BY <1>1, <2>1, <2>2
  <2> QED BY <2>2, <2>3
<1>6. \A m \in 1 .. h : 2 * m - 1 \in DelTurns(n)
  BY <1>3 DEF DelTurns
<1> HIDE DEF n, h
<1>7. f \in [1 .. h -> S]
  BY <1>2, <1>3, <1>6 DEF Permutation
<1>8. ASSUME NEW a \in 1 .. h, NEW b \in 1 .. h, f[a] = f[b] PROVE a = b
  <2>1. storageKey[2 * a - 1] = storageKey[2 * b - 1]
    BY <1>8
  <2>2. 2 * a - 1 = 2 * b - 1
    BY <1>2, <1>3, <2>1 DEF Permutation
  <2> QED BY <1>1, <2>2
<1>9. ASSUME NEW k \in S PROVE \E m \in 1 .. h : f[m] = k
  <2>1. PICK j \in DelTurns(n) : storageKey[j] = k
    BY <1>9
  <2>2. PICK m \in 1 .. h : j = 2 * m - 1
    BY <1>5
  <2> QED BY <2>1, <2>2
<1> HIDE DEF f, S
<1>10. f \in Bijection(1 .. h, S)
  BY <1>7, <1>8, <1>9 DEF Bijection, Injection, Surjection, IsInjective
<1>11. IsFiniteSet(1 .. h) /\ Cardinality(1 .. h) = h
  BY <1>1, FS_Interval
<1>12. Cardinality(S) = h
  BY <1>10, <1>11, FS_Bijection DEF ExistsBijection
<1> QED BY <1>12 DEF S, h, n

\* Before its compact, benchCompact has a table for every put and every del.
LEMMA Compacting == BenchInv => CompactMergesAll
<1> SUFFICES ASSUME BenchInv, benchmark = "compact", Part = "compact", i = 0
             PROVE  /\ Len(sstables) = compact_operations + (compact_operations + 1) \div 2
                    /\ Cardinality({k \in Key : kv[k] # None}) = compact_operations \div 2
  BY DEF CompactMergesAll
<1>1. /\ Len(sstables) = compact_operations + (compact_operations + 1) \div 2
      /\ Has(DelTurns(compact_operations)) /\ storageKey \in Permutation
  BY PartNames DEF BenchInv, CompactInv
<1>2. {k \in Key : kv[k] # None} =
        {k \in Key : \E j \in DelTurns(compact_operations) : storageKey[j] = k}
  BY <1>1 DEF Has
<1> QED BY <1>1, <1>2, OddTurns

\* The divisor of benchCompact's cost is the number of tables it merges, for every
\* number of operations, odd ones too, and half the keys are left.
THEOREM CompactMeetsAll == BenchSpec => []CompactMergesAll
BY BenchInductive, Compacting, PTL

\* The measure is the correlation of the ranks, for every number of keys in every order.
THEOREM RhoMeasures == BenchSpec => []RhoIsCorrelation
<1>1. BenchInv => RhoIsCorrelation
  BY RhoRight DEF BenchInv
<1> QED BY <1>1, BenchInductive, PTL
=============================================================================
