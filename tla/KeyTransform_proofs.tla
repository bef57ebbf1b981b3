------------------------ MODULE KeyTransform_proofs ------------------------
(***************************************************************************)
(* The permutation is one, whatever the round functions are: with hashes   *)
(* that differ, storage keys differ, no key reads another one's value, and *)
(* the store over storage keys is a map over the client's keys.  The bytes *)
(* of storage keys have the order of their numbers.                        *)
(***************************************************************************)
EXTENDS KeyTransform, WellOrder_proofs

\* The mask can be taken off: ^ with the same half is injective.
LEMMA XorInjective == ASSUME NEW a \in Half, NEW b \in Half, NEW m \in Half,
                             Xor[a][m] = Xor[b][m]
                      PROVE  a = b
BY XorAssumption

LEMMA XorType == ASSUME NEW a \in Half, NEW m \in Half
                 PROVE  Xor[a][m] \in Half
<1>1. Xor[a] \in [Half -> Half]
  BY XorAssumption
<1> QED BY <1>1

LEMMA RoundType == ASSUME NEW v \in Position, NEW rk \in RoundKey
                   PROVE  Round(v, rk) \in Position
<1>1. v[1] \in Half /\ v[2] \in Half
  BY DEF Position
<1>2. roundFunction[rk][v[2]] \in Half
  BY <1>1, RoundAssumption
<1>3. Xor[v[1]][roundFunction[rk][v[2]]] \in Half
  BY <1>1, <1>2, XorType
<1>4. <<v[2], Xor[v[1]][roundFunction[rk][v[2]]]>> \in Half \X Half
  BY <1>1, <1>3
<1> QED BY <1>4 DEF Round, Position

\* The half that moves over is still there, and with it the mask of the other.
LEMMA RoundInjective == ASSUME NEW v \in Position, NEW w \in Position, NEW rk \in RoundKey,
                               Round(v, rk) = Round(w, rk)
                        PROVE  v = w
<1>1. v[2] = w[2] /\ Xor[v[1]][roundFunction[rk][v[2]]] = Xor[w[1]][roundFunction[rk][w[2]]]
  BY DEF Round
<1>2. v[1] \in Half /\ w[1] \in Half /\ roundFunction[rk][v[2]] \in Half
  BY RoundAssumption DEF Position
<1>3. v[1] = w[1]
  BY <1>1, <1>2, XorInjective
<1> QED BY <1>1, <1>3 DEF Position

LEMMA FeistelType == ASSUME NEW v \in Position, NEW rks \in [1 .. 4 -> RoundKey]
                     PROVE  feistel64(v, rks) \in Position
<1>1. Round(v, rks[1]) \in Position
  BY RoundType
<1>2. Round(Round(v, rks[1]), rks[2]) \in Position
  BY <1>1, RoundType
<1>3. Round(Round(Round(v, rks[1]), rks[2]), rks[3]) \in Position
  BY <1>2, RoundType
<1> QED BY <1>3, RoundType DEF feistel64

LEMMA FeistelInjective ==
  ASSUME NEW v \in Position, NEW w \in Position, NEW rks \in [1 .. 4 -> RoundKey],
         feistel64(v, rks) = feistel64(w, rks)
  PROVE  v = w
<1> DEFINE v1 == Round(v, rks[1])   w1 == Round(w, rks[1])
           v2 == Round(v1, rks[2])  w2 == Round(w1, rks[2])
           v3 == Round(v2, rks[3])  w3 == Round(w2, rks[3])
<1>1. v1 \in Position /\ w1 \in Position
  BY RoundType
<1>2. v2 \in Position /\ w2 \in Position
  BY <1>1, RoundType
<1>3. v3 \in Position /\ w3 \in Position
  BY <1>2, RoundType
<1>4. v3 = w3
  BY <1>3, RoundInjective DEF feistel64
<1>5. v2 = w2
  BY <1>2, <1>4, RoundInjective
<1>6. v1 = w1
  BY <1>1, <1>5, RoundInjective
<1> QED BY <1>6, RoundInjective

LEMMA StorageKeyType == ASSUME NEW o \in Options, NEW k \in Key
                        PROVE  storageKey(o, k) \in StorageKey
<1>1. normalize[k] \in Position /\ RoundKeys[o.seed] \in [1 .. 4 -> RoundKey]
  BY HashAssumption, OptionsAssumption, RoundAssumption
<1>2. feistel64(normalize[k], RoundKeys[o.seed]) \in Position
  BY <1>1, FeistelType
<1> QED BY <1>1, <1>2 DEF storageKey, StorageKey

\* Keys whose hashes differ have different storage keys, under one choice of options
\* and across the choices between which only shuffling differs.
THEOREM StorageKeysDiffer ==
  ASSUME Distinct, NEW o \in Options, NEW p \in Options, NEW j \in Key, NEW k \in Key,
         storageKey(o, j) = storageKey(p, k)
  PROVE  j = k
<1>1. o.seed = p.seed /\ RoundKeys[o.seed] \in [1 .. 4 -> RoundKey]
  BY OptionsAssumption, RoundAssumption DEF Distinct
<1>2. normalize[j] \in Position /\ normalize[k] \in Position
  BY HashAssumption
<1>3. normalize[j] = normalize[k]
  <2>1. CASE o.shuffling /\ p.shuffling
    <3>1. feistel64(normalize[j], RoundKeys[o.seed]) = feistel64(normalize[k], RoundKeys[o.seed])
      BY <1>1, <2>1 DEF storageKey
    <3> QED BY <1>1, <1>2, <3>1, FeistelInjective
  <2>2. CASE ~o.shuffling /\ ~p.shuffling
    BY <2>2 DEF storageKey
  <2>3. CASE o.shuffling /\ ~p.shuffling
    BY <2>3 DEF storageKey
  <2>4. CASE ~o.shuffling /\ p.shuffling
    BY <2>4 DEF storageKey
  <2> QED BY <2>1, <2>2, <2>3, <2>4
<1> QED BY <1>3 DEF Distinct

-----------------------------------------------------------------------------
(* The invariants *)

\* The call that is served is about the storage key of the key it was asked for, and
\* a record was written by a key whose storage key it has.
KeyInv == /\ options \in Options
          /\ DOMAIN cache \subseteq Key
          /\ CacheTrue
          /\ op = "none" => todo = {}
          /\ \A c \in todo : asked \in Key /\ c.key = storageKey(options, asked)
          /\ \A c, d \in todo : c = d
          /\ writer \in [StorageKey -> Key \cup {None}]
          /\ \A s \in StorageKey : writer[s] \in Key =>
               \E o \in Options : s = storageKey(o, writer[s])

LEMMA InitKeyInv == Init => KeyInv
BY NoneAssumption DEF Init, KeyInv, CacheTrue, Store!KVInit

LEMMA PrepareStep == ASSUME KeyInv, NEW k \in Key, Prepare(k), options' = options
                     PROVE  DOMAIN cache' \subseteq Key /\ CacheTrue'
BY DEF KeyInv, Prepare, CacheTrue, storageKeyFor

LEMMA KeyInvStep == KeyInv /\ [Next]_vars => KeyInv'
<1> SUFFICES ASSUME KeyInv, [Next]_vars PROVE KeyInv'
  OBVIOUS
<1>1. ASSUME NEW k \in Key, Del(k) PROVE KeyInv'
  <2>1. DOMAIN cache' \subseteq Key /\ CacheTrue'
    BY <1>1, PrepareStep DEF Del
  <2>2. op' = "del" /\ todo' = {[key |-> storageKey(options, k), val |-> None]}
    BY <1>1 DEF Del, Store!Del, Store!Ask, storageKeyFor, KeyInv, CacheTrue
  <2> QED BY <1>1, <2>1, <2>2 DEF Del, KeyInv
<1>2. ASSUME NEW k \in Key, NEW v \in Value, Put(k, v) PROVE KeyInv'
  <2>1. DOMAIN cache' \subseteq Key /\ CacheTrue'
    BY <1>2, PrepareStep DEF Put
  <2>2. op' = "put" /\ todo' = {[key |-> storageKey(options, k), val |-> v]}
    BY <1>2 DEF Put, Store!Put, Store!Ask, storageKeyFor, KeyInv, CacheTrue
  <2> QED BY <1>2, <2>1, <2>2 DEF Put, KeyInv
<1>3. ASSUME NEW k \in Key, Get(k) PROVE KeyInv'
  <2>1. DOMAIN cache' \subseteq Key /\ CacheTrue'
    BY <1>3, PrepareStep DEF Get
  <2>2. op = "none" /\ todo = {} /\ UNCHANGED <<op, todo>>
    BY <1>3 DEF Get, Store!Get, KeyInv
  <2> QED BY <1>3, <2>1, <2>2 DEF Get, KeyInv
<1>4. ASSUME NEW k \in Key, PrepareKey(k) PROVE KeyInv'
  BY <1>4, PrepareStep DEF PrepareKey, KeyInv, storeVars
<1>5. CASE Commit
  <2>1. /\ todo' \subseteq todo
        /\ UNCHANGED <<options, cache, asked, op>>
        /\ writer' = [s \in StorageKey |->
                       IF \E c \in todo : c.key = s THEN asked ELSE writer[s]]
    BY <1>5 DEF Commit, Store!Commit
  <2>2. writer' \in [StorageKey -> Key \cup {None}]
    BY <2>1 DEF KeyInv
  <2>3. ASSUME NEW s \in StorageKey, writer'[s] \in Key
        PROVE  \E o \in Options : s = storageKey(o, writer'[s])
    BY <2>1, <2>3 DEF KeyInv
  <2> QED BY <2>1, <2>2, <2>3 DEF KeyInv, CacheTrue
<1>6. CASE Finish
  BY <1>6 DEF Finish, Store!Respond, Store!Fail, KeyInv, CacheTrue
<1>7. ASSUME NEW o \in Options, Reopen(o) PROVE KeyInv'
  BY <1>7 DEF Reopen, Store!Crash, KeyInv, CacheTrue
<1>8. CASE UNCHANGED vars
  BY <1>8 DEF vars, storeVars, KeyInv, CacheTrue
<1> QED BY <1>1, <1>2, <1>3, <1>4, <1>5, <1>6, <1>7, <1>8 DEF Next

\* A remembered storage key is always the one that the open store's transform gives.
THEOREM CacheIsTrue == Spec => []CacheTrue
<1>1. KeyInv => CacheTrue
  BY DEF KeyInv
<1> QED BY <1>1, InitKeyInv, KeyInvStep, PTL DEF Spec

-----------------------------------------------------------------------------
(* The bytes of a number and their order *)

\* There is such a function: a longest part of it is all of it.
LEMMA WeightEquation ==
  \A i \in 0 .. Bytes : Weight[i] = IF i = 0 THEN 1 ELSE Byte * Weight[i - 1]
<1> DEFINE IsWeight(m, w) ==
             w = [i \in 0 .. m |-> IF i = 0 THEN 1 ELSE Byte * w[i - 1]]
           Lacking == {m \in 0 .. Bytes : ~ \E w : IsWeight(m, w)}
<1>1. IsWeight(0, [i \in 0 .. 0 |-> 1])
  OBVIOUS
<1>2. ASSUME NEW m \in 1 .. Bytes, NEW w, IsWeight(m - 1, w)
      PROVE  IsWeight(m, [i \in 0 .. m |-> IF i = m THEN Byte * w[m - 1] ELSE w[i]])
  <2> DEFINE v == [i \in 0 .. m |-> IF i = m THEN Byte * w[m - 1] ELSE w[i]]
  <2>1. m \in Nat /\ m # 0 /\ v[m] = Byte * w[m - 1] /\ v[m - 1] = w[m - 1]
    BY SizeAssumption
  <2>2. ASSUME NEW i \in 0 .. m, i # m
        PROVE  v[i] = IF i = 0 THEN 1 ELSE Byte * v[i - 1]
    <3>1. i \in 0 .. m - 1 /\ (i # 0 => i - 1 \in 0 .. m - 1 /\ i - 1 # m)
      BY <2>1, <2>2
    <3>2. v[i] = w[i] /\ (i # 0 => v[i - 1] = w[i - 1])
      BY <2>1, <2>2, <3>1
    <3>3. w[i] = IF i = 0 THEN 1 ELSE Byte * w[i - 1]
      BY <1>2, <3>1
    <3> QED BY <3>2, <3>3
  <2>3. \A i \in 0 .. m : v[i] = IF i = 0 THEN 1 ELSE Byte * v[i - 1]
    BY <2>1, <2>2
  <2>4. v = [i \in 0 .. m |-> v[i]]
    OBVIOUS
  <2> HIDE DEF v
  <2>5. v = [i \in 0 .. m |-> IF i = 0 THEN 1 ELSE Byte * v[i - 1]]
    BY <2>3, <2>4
  <2> QED BY <2>5 DEF v
<1>3. Lacking = {}
  <2> SUFFICES ASSUME Lacking # {} PROVE FALSE
    OBVIOUS
  <2>1. Lacking \subseteq 0 .. Bytes /\ 0 \in Int /\ Bytes \in Int
    BY SizeAssumption
  <2>2. PICK m \in Lacking : \A n \in Lacking : m <= n
    <3> HIDE DEF Lacking
    <3> QED BY <2>1, LeastInRange
  <2>3. m # 0
    BY <1>1
  <2>4. m \in 1 .. Bytes /\ m - 1 \in 0 .. Bytes /\ ~ (m <= m - 1)
    BY <2>1, <2>3
  <2>5. PICK w : IsWeight(m - 1, w)
    BY <2>2, <2>4
  <2>6. \E v : IsWeight(m, v)
    <3> HIDE DEF IsWeight
    <3> QED BY <1>2, <2>4, <2>5
  <2> QED BY <2>6
<1>4. \E w : IsWeight(Bytes, w)
  <2>1. Bytes \in 0 .. Bytes
    BY SizeAssumption
  <2> QED BY <1>3, <2>1
<1>5. IsWeight(Bytes, Weight)
  BY <1>4 DEF Weight
<1> QED BY <1>5

LEMMA WeightType == \A i \in 0 .. Bytes : Weight[i] \in Nat \ {0}
<1> DEFINE Lacking == {i \in 0 .. Bytes : Weight[i] \notin Nat \ {0}}
<1> SUFFICES ASSUME Lacking # {} PROVE FALSE
  OBVIOUS
<1>1. Lacking \subseteq 0 .. Bytes /\ 0 \in Int /\ Bytes \in Int
  BY SizeAssumption
<1>2. PICK m \in Lacking : \A n \in Lacking : m <= n
  <2> HIDE DEF Lacking
  <2> QED BY <1>1, LeastInRange
<1>3. CASE m = 0
  BY <1>2, <1>3, WeightEquation
<1>4. CASE m # 0
  <2>1. m - 1 \in 0 .. Bytes /\ ~ (m <= m - 1)
    BY <1>1, <1>4
  <2>2. Weight[m - 1] \in Nat \ {0}
    BY <1>2, <2>1
  <2>3. Weight[m] = Byte * Weight[m - 1]
    BY <1>4, WeightEquation
  <2>4. Byte * Weight[m - 1] \in Nat \ {0}
    BY <2>2, SizeAssumption
  <2> QED BY <2>3, <2>4
<1> QED BY <1>3, <1>4

\* What is known of a quotient and a rest.
LEMMA Division ==
  ASSUME NEW n \in Nat, NEW b \in Nat \ {0}
  PROVE  /\ n \div b \in Nat /\ n % b \in 0 .. b - 1
         /\ n = b * (n \div b) + (n % b)
OBVIOUS

LEMMA TimesMonotone ==
  ASSUME NEW b \in Nat, NEW p \in Nat, NEW q \in Nat, p < q
  PROVE  b * p + b <= b * q
<1>1. p + 1 <= q /\ q - (p + 1) \in Nat
  OBVIOUS
<1>2. b * (q - (p + 1)) \in Nat
  BY <1>1
<1>3. b * (q - (p + 1)) = b * q - (b * p + b)
  OBVIOUS
<1>4. b * q \in Nat /\ b * p + b \in Nat
  OBVIOUS
<1> QED BY <1>2, <1>3, <1>4

LEMMA QuotientUnique ==
  ASSUME NEW n \in Nat, NEW b \in Nat \ {0}, NEW q \in Nat, NEW r \in 0 .. b - 1,
         n = b * q + r
  PROVE  n \div b = q /\ n % b = r
<1> DEFINE p == n \div b
           s == n % b
<1>1. p \in Nat /\ s \in 0 .. b - 1 /\ n = b * p + s
  BY Division
<1> HIDE DEF p, s
<1>2. b * p \in Nat /\ b * q \in Nat
  BY <1>1
<1>3. ~ (p < q)
  <2>1. p < q => b * p + b <= b * q
    BY <1>1, TimesMonotone
  <2> QED BY <1>1, <1>2, <2>1
<1>4. ~ (q < p)
  <2>1. q < p => b * q + b <= b * p
    BY <1>1, TimesMonotone
  <2> QED BY <1>1, <1>2, <2>1
<1>5. p = q
  BY <1>1, <1>3, <1>4
<1>6. s = r
  BY <1>1, <1>2, <1>5
<1> QED BY <1>5, <1>6 DEF p, s

\* A quotient is divided once more as the number is by both together.
LEMMA QuotientOfQuotient ==
  ASSUME NEW n \in Nat, NEW w \in Nat \ {0}, NEW b \in Nat \ {0}
  PROVE  n \div w = b * (n \div (b * w)) + ((n \div w) % b)
<1> DEFINE p == n \div w
           r == n % w
           q == p \div b
           d == p % b
<1>1. p \in Nat /\ r \in 0 .. w - 1 /\ n = w * p + r
  BY Division
<1>2. q \in Nat /\ d \in 0 .. b - 1 /\ p = b * q + d
  BY <1>1, Division
<1> HIDE DEF p, r, q, d
<1>3. b * w \in Nat \ {0}
  OBVIOUS
<1>4. n = (b * w) * q + (w * d + r)
  <2>1. n = w * (b * q + d) + r
    BY <1>1, <1>2
  <2>2. w * (b * q + d) = (b * w) * q + w * d
    BY <1>2
  <2>3. (b * w) * q \in Nat /\ w * d \in Nat
    BY <1>2, <1>3
  <2> QED BY <2>1, <2>2, <2>3, <1>1
<1>5. w * d + r \in 0 .. b * w - 1
  <2>1. w * d + w <= w * b
    BY <1>2, TimesMonotone
  <2>2. w * b = b * w /\ w * d \in Nat
    BY <1>2
  <2> QED BY <2>1, <2>2, <1>1, <1>3
<1>6. n \div (b * w) = q
  BY <1>2, <1>3, <1>4, <1>5, QuotientUnique
<1>7. p = b * (n \div (b * w)) + d
  BY <1>2, <1>6
<1> QED BY <1>7, Zenon DEF p, q, d

\* A greater number has no smaller quotient.
LEMMA QuotientMonotone ==
  ASSUME NEW m \in Nat, NEW n \in Nat, NEW w \in Nat \ {0}, m <= n
  PROVE  m \div w <= n \div w
<1> DEFINE p == m \div w
           q == n \div w
<1>1. p \in Nat /\ m % w \in 0 .. w - 1 /\ m = w * p + (m % w)
  BY Division
<1>2. q \in Nat /\ n % w \in 0 .. w - 1 /\ n = w * q + (n % w)
  BY Division
<1> HIDE DEF p, q
<1>3. q < p => w * q + w <= w * p
  BY <1>1, <1>2, TimesMonotone
<1>4. w * p \in Nat /\ w * q \in Nat
  BY <1>1, <1>2
<1>5. ~ (q < p)
  BY <1>1, <1>2, <1>3, <1>4
<1>6. p <= q
  BY <1>1, <1>2, <1>5
<1> QED BY <1>6 DEF p, q

\* What is left of a number when all its last bytes are gone, and how a byte extends it.
LEMMA Leading ==
  ASSUME NEW n \in Nat, n < Weight[Bytes]
  PROVE  /\ n \div Weight[Bytes] = 0  /\ n \div Weight[0] = n
         /\ \A i \in 0 .. Bytes : n \div Weight[i] \in Nat
         /\ appendBigEndian64(n) \in [1 .. Bytes -> 0 .. Byte - 1]
         /\ \A i \in 1 .. Bytes :
              n \div Weight[Bytes - i] =
                Byte * (n \div Weight[Bytes - (i - 1)]) + appendBigEndian64(n)[i]
<1>1. Bytes \in 0 .. Bytes /\ 0 \in 0 .. Bytes /\ Weight[0] = 1
  BY SizeAssumption, WeightEquation
<1>2. Weight[Bytes] \in Nat \ {0}
  BY <1>1, WeightType
<1>3. n \div Weight[Bytes] = 0
  BY <1>2, QuotientUnique
<1>4. n \div 1 = n
  BY QuotientUnique
<1>5. ASSUME NEW i \in 0 .. Bytes PROVE n \div Weight[i] \in Nat
  BY WeightType, Division
<1>6. ASSUME NEW i \in 1 .. Bytes
      PROVE  /\ (n \div Weight[Bytes - i]) % Byte \in 0 .. Byte - 1
             /\ n \div Weight[Bytes - i] =
                  Byte * (n \div Weight[Bytes - (i - 1)]) + ((n \div Weight[Bytes - i]) % Byte)
  <2>1. Bytes - i \in 0 .. Bytes /\ Bytes - (i - 1) \in 0 .. Bytes
        /\ Bytes - (i - 1) # 0 /\ (Bytes - (i - 1)) - 1 = Bytes - i
    BY SizeAssumption
  <2>2. Weight[Bytes - (i - 1)] = Byte * Weight[Bytes - i]
    BY <2>1, WeightEquation
  <2>3. Weight[Bytes - i] \in Nat \ {0} /\ Byte \in Nat \ {0}
    BY <2>1, WeightType, SizeAssumption
  <2>4. (n \div Weight[Bytes - i]) % Byte \in 0 .. Byte - 1
    BY <2>1, <2>3, <1>5, Division
  <2> QED BY <2>2, <2>3, <2>4, QuotientOfQuotient
<1>7. appendBigEndian64(n) \in [1 .. Bytes -> 0 .. Byte - 1]
  BY <1>6, Zenon DEF appendBigEndian64
<1>8. \A i \in 1 .. Bytes : appendBigEndian64(n)[i] = (n \div Weight[Bytes - i]) % Byte
  BY Zenon DEF appendBigEndian64
<1> QED BY <1>1, <1>3, <1>4, <1>5, <1>6, <1>7, <1>8, Zenon

\* The smaller of two numbers is the smaller one at the first byte that is not the
\* same: up to there what leads is the same, and the quotients keep the order.
LEMMA SmallerIsLess ==
  ASSUME NEW m \in Nat, NEW n \in Nat, m < n, n < Weight[Bytes]
  PROVE  BytesLess(appendBigEndian64(m), appendBigEndian64(n))
<1> DEFINE a == appendBigEndian64(m)
           b == appendBigEndian64(n)
           p(i) == m \div Weight[Bytes - i]
           q(i) == n \div Weight[Bytes - i]
           Apart == {i \in 0 .. Bytes : p(i) # q(i)}
<1>1. Bytes \in Nat \ {0} /\ Byte \in Nat \ {0} /\ Weight[Bytes] \in Nat
  BY SizeAssumption, WeightType
<1>2. m < Weight[Bytes]
  BY <1>1
<1>3. a \in [1 .. Bytes -> 0 .. Byte - 1] /\ b \in [1 .. Bytes -> 0 .. Byte - 1]
  BY <1>2, Leading
<1>4. p(0) = q(0) /\ p(Bytes) # q(Bytes)
  <2>1. Bytes - 0 = Bytes /\ Bytes - Bytes = 0
    BY <1>1
  <2> QED BY <1>2, <2>1, Leading
<1>5. \A i \in 0 .. Bytes : p(i) \in Nat /\ q(i) \in Nat /\ p(i) <= q(i)
  <2> SUFFICES ASSUME NEW i \in 0 .. Bytes PROVE p(i) \in Nat /\ q(i) \in Nat /\ p(i) <= q(i)
    OBVIOUS
  <2>1. Bytes - i \in 0 .. Bytes
    BY <1>1
  <2>2. Weight[Bytes - i] \in Nat \ {0}
    BY <2>1, WeightType
  <2>3. p(i) \in Nat /\ q(i) \in Nat
    BY <2>1, <1>2, Leading
  <2>4. p(i) <= q(i)
    BY <2>2, QuotientMonotone
  <2> QED BY <2>3, <2>4
<1>6. \A i \in 1 .. Bytes : /\ p(i) = Byte * p(i - 1) + a[i]
                            /\ q(i) = Byte * q(i - 1) + b[i]
  BY <1>2, Leading
<1> HIDE DEF a, b, p, q
<1>7. PICK i \in Apart : \A j \in Apart : i <= j
  <2>1. Apart \subseteq 0 .. Bytes /\ Apart # {} /\ 0 \in Int /\ Bytes \in Int
    BY <1>1, <1>4
  <2> HIDE DEF Apart
  <2> QED BY <2>1, LeastInRange
<1>8. i \in 1 .. Bytes /\ p(i) < q(i)
  BY <1>1, <1>4, <1>5, <1>7
<1>9. \A j \in 0 .. i - 1 : p(j) = q(j)
  <2> SUFFICES ASSUME NEW j \in 0 .. i - 1 PROVE p(j) = q(j)
    OBVIOUS
  <2>1. j \in 0 .. Bytes /\ ~ (i <= j)
    BY <1>1, <1>8
  <2> QED BY <1>7, <2>1
<1>10. a[i] < b[i]
  <2>1. i - 1 \in 0 .. i - 1 /\ i - 1 \in 0 .. Bytes /\ i \in 0 .. Bytes
    BY <1>1, <1>8
  <2>2. /\ p(i) = Byte * p(i - 1) + a[i]  /\ q(i) = Byte * p(i - 1) + b[i]
        /\ Byte * p(i - 1) \in Nat /\ a[i] \in Nat /\ b[i] \in Nat
    <3>1. p(i - 1) = q(i - 1) /\ p(i - 1) \in Nat /\ a[i] \in Nat /\ b[i] \in Nat
      <4>1. p(i - 1) = q(i - 1)
        BY <1>9, <2>1
      <4>2. p(i - 1) \in Nat
        BY <1>5, <2>1
      <4>3. a[i] \in 0 .. Byte - 1 /\ b[i] \in 0 .. Byte - 1
        BY <1>3, <1>8
      <4> QED BY <1>1, <4>1, <4>2, <4>3
    <3>2. p(i) = Byte * p(i - 1) + a[i] /\ q(i) = Byte * q(i - 1) + b[i]
      BY <1>6, <1>8
    <3>3. Byte * p(i - 1) \in Nat
      BY <1>1, <3>1
    <3> QED BY <3>1, <3>2, <3>3
  <2> QED BY <1>8, <2>2
<1>11. \A j \in 1 .. i - 1 : a[j] = b[j]
  <2> SUFFICES ASSUME NEW j \in 1 .. i - 1 PROVE a[j] = b[j]
    OBVIOUS
  <2>1. j \in 1 .. Bytes /\ j \in 0 .. i - 1 /\ j - 1 \in 0 .. i - 1 /\ j - 1 \in 0 .. Bytes
    BY <1>1, <1>8
  <2>2. /\ p(j) = Byte * p(j - 1) + a[j]  /\ p(j) = Byte * p(j - 1) + b[j]
        /\ Byte * p(j - 1) \in Nat /\ a[j] \in Nat /\ b[j] \in Nat
    <3>1. p(j) = q(j) /\ p(j - 1) = q(j - 1) /\ p(j - 1) \in Nat
      BY <1>5, <1>9, <2>1
    <3>2. a[j] \in Nat /\ b[j] \in Nat
      BY <1>1, <1>3, <2>1
    <3> QED BY <1>1, <1>6, <2>1, <3>1, <3>2
  <2> QED BY <2>2
<1> QED BY <1>8, <1>10, <1>11 DEF BytesLess, a, b

\* Of two byte strings at most one comes before the other.
LEMMA LessOneWay ==
  ASSUME NEW a \in [1 .. Bytes -> 0 .. Byte - 1], NEW b \in [1 .. Bytes -> 0 .. Byte - 1],
         BytesLess(a, b)
  PROVE  ~ BytesLess(b, a)
<1> SUFFICES ASSUME BytesLess(b, a) PROVE FALSE
  OBVIOUS
<1>1. PICK i \in 1 .. Bytes : a[i] < b[i] /\ \A j \in 1 .. i-1 : a[j] = b[j]
  BY DEF BytesLess
<1>2. PICK k \in 1 .. Bytes : b[k] < a[k] /\ \A j \in 1 .. k-1 : b[j] = a[j]
  BY DEF BytesLess
<1>3. a[i] \in Nat /\ b[i] \in Nat /\ a[k] \in Nat /\ b[k] \in Nat
  BY SizeAssumption
<1>4. i # k /\ i \notin 1 .. k - 1 /\ k \notin 1 .. i - 1
  BY <1>1, <1>2, <1>3
<1> QED BY <1>4, SizeAssumption

LEMMA OrderOfBytes ==
  ASSUME NEW m \in Nat, NEW n \in Nat, m < Weight[Bytes], n < Weight[Bytes]
  PROVE  BytesLess(appendBigEndian64(m), appendBigEndian64(n)) <=> m < n
<1> DEFINE a == appendBigEndian64(m)
           b == appendBigEndian64(n)
<1>1. a \in [1 .. Bytes -> 0 .. Byte - 1] /\ b \in [1 .. Bytes -> 0 .. Byte - 1]
  BY Leading
<1>2. (m < n => BytesLess(a, b)) /\ (n < m => BytesLess(b, a))
  BY SmallerIsLess
<1>3. BytesLess(a, b) => ~ BytesLess(b, a)
  BY <1>1, LessOneWay
<1>4. m = n => a = b
  OBVIOUS
<1> HIDE DEF a, b
<1>5. m < n \/ n < m \/ m = n
  OBVIOUS
<1>6. n < m => ~ (m < n)
  OBVIOUS
<1>7. BytesLess(a, b) <=> m < n
  BY <1>2, <1>3, <1>4, <1>5, <1>6, Zenon
<1> QED BY <1>7 DEF a, b

\* The two halves of a position make a number that its bytes can hold.
LEMMA NumberFits == ASSUME NEW v \in Position
                    PROVE  Number(v) \in Nat /\ Number(v) < Weight[Bytes]
<1>1. HalfSize \in Nat \ {0} /\ v[1] \in 0 .. HalfSize - 1 /\ v[2] \in 0 .. HalfSize - 1
  BY SizeAssumption DEF Position, Half
<1>2. HalfSize * v[1] + HalfSize <= HalfSize * HalfSize
  BY <1>1, TimesMonotone
<1>3. HalfSize * v[1] = v[1] * HalfSize /\ HalfSize * v[1] \in Nat /\ HalfSize * HalfSize \in Nat
  BY <1>1
<1>4. Weight[Bytes] \in Nat /\ HalfSize * HalfSize <= Weight[Bytes]
  BY SizeAssumption, WeightType, FitsAssumption
<1> QED BY <1>1, <1>2, <1>3, <1>4 DEF Number

\* The bytes of the remembered storage keys are in the order of their numbers, whatever
\* the widths of a half and of a byte are: the seek in a table and the merge meet the
\* records in the order that the permutation chose.
THEOREM BytesInOrder == Spec => []BytesKeepOrder
<1>1. KeyInv => BytesKeepOrder
  <2> SUFFICES ASSUME KeyInv, NEW j \in DOMAIN cache, NEW k \in DOMAIN cache
               PROVE  LET m == Number(cache[j].position)  n == Number(cache[k].position)
                      IN  BytesLess(appendBigEndian64(m), appendBigEndian64(n)) <=> m < n
    BY DEF BytesKeepOrder
  <2>1. cache[j] \in StorageKey /\ cache[k] \in StorageKey
    BY StorageKeyType DEF KeyInv, CacheTrue
  <2>2. cache[j].position \in Position /\ cache[k].position \in Position
    BY <2>1 DEF StorageKey
  <2> QED BY <2>2, NumberFits, OrderOfBytes
<1> QED BY <1>1, InitKeyInv, KeyInvStep, PTL DEF Spec

\* If the hash keeps the keys in use apart and the seed stays, no key ever reads what
\* another key wrote, shuffled or not, then or now.
THEOREM OwnKeys == ASSUME Distinct PROVE Spec => []OwnKeysOnly
<1>1. KeyInv => OwnKeysOnly
  <2> SUFFICES ASSUME KeyInv, NEW k \in Key, writer[storageKey(options, k)] # None
               PROVE  writer[storageKey(options, k)] = k
    BY DEF OwnKeysOnly
  <2> DEFINE s == storageKey(options, k)
  <2>1. s \in StorageKey
    BY StorageKeyType DEF KeyInv
  <2>2. writer[s] \in Key
    BY <2>1 DEF KeyInv
  <2>3. PICK o \in Options : s = storageKey(o, writer[s])
    BY <2>1, <2>2 DEF KeyInv
  <2> QED BY <2>2, <2>3, StorageKeysDiffer DEF KeyInv
<1> QED BY <1>1, InitKeyInv, KeyInvStep, PTL DEF Spec

-----------------------------------------------------------------------------
(* Types *)

KeyTypes == TypeOK /\ KeyInv

LEMMA KeyForType == ASSUME KeyInv, NEW k \in Key
                    PROVE  /\ storageKeyFor(k) = storageKey(options, k)
                           /\ storageKeyFor(k) \in StorageKey
BY StorageKeyType DEF KeyInv, CacheTrue, storageKeyFor

\* A call of the store over storage keys keeps the store's types.
LEMMA AskType ==
  ASSUME Store!KVTypeOK, NEW name \in {"put", "del"}, NEW s \in StorageKey,
         NEW v \in Value \cup {None}, Store!Ask(name, {[key |-> s, val |-> v]})
  PROVE  Store!KVTypeOK'
BY DEF Store!Ask, Store!KVTypeOK, Store!Change

LEMMA StoreType == ASSUME KeyTypes, [Next]_vars PROVE Store!KVTypeOK'
<1> USE DEF Store!KVTypeOK
<1>0. Store!KVTypeOK /\ KeyInv
  BY DEF KeyTypes, TypeOK
<1>1. ASSUME NEW k \in Key, Del(k) PROVE Store!KVTypeOK'
  <2> HIDE DEF Store!KVTypeOK
  <2> QED BY <1>0, <1>1, KeyForType, AskType DEF Del, Store!Del
<1>2. ASSUME NEW k \in Key, NEW v \in Value, Put(k, v) PROVE Store!KVTypeOK'
  <2> HIDE DEF Store!KVTypeOK
  <2> QED BY <1>0, <1>2, KeyForType, AskType DEF Put, Store!Put
<1>3. ASSUME NEW k \in Key, Get(k) PROVE Store!KVTypeOK'
  BY <1>0, <1>3, KeyForType DEF Get, Store!Get
<1>4. ASSUME NEW k \in Key, PrepareKey(k) PROVE Store!KVTypeOK'
  BY <1>0, <1>4 DEF PrepareKey, storeVars
<1>5. CASE Commit
  <2>1. PICK c \in todo : /\ kv' = [kv EXCEPT ![c.key] = c.val]
                          /\ todo' = todo \ {c}
                          /\ UNCHANGED <<op, reply>>
    BY <1>5 DEF Commit, Store!Commit
  <2>2. c.val \in Value \cup {None}
    BY <1>0 DEF Store!Change
  <2> QED BY <1>0, <2>1, <2>2
<1>6. CASE Finish
  BY <1>0, <1>6 DEF Finish, Store!Respond, Store!Fail
<1>7. ASSUME NEW o \in Options, Reopen(o) PROVE Store!KVTypeOK'
  BY <1>0, <1>7 DEF Reopen, Store!Crash
<1>8. CASE UNCHANGED vars
  BY <1>0, <1>8 DEF vars, storeVars
<1> QED BY <1>1, <1>2, <1>3, <1>4, <1>5, <1>6, <1>7, <1>8 DEF Next

LEMMA KeyTypesStep == KeyTypes /\ [Next]_vars => KeyTypes'
<1> SUFFICES ASSUME KeyTypes, [Next]_vars PROVE KeyTypes'
  OBVIOUS
<1>1. KeyInv' /\ Store!KVTypeOK'
  BY KeyInvStep, StoreType DEF KeyTypes
<1>2. \A k \in DOMAIN cache' : cache'[k] \in StorageKey
  BY <1>1, StorageKeyType DEF KeyInv, CacheTrue
<1>3. asked' \in Key \cup {None}
  BY DEF KeyTypes, TypeOK, Next, Del, Put, Get, PrepareKey, Commit, Finish, Reopen, vars
<1> QED BY <1>1, <1>2, <1>3 DEF KeyTypes, TypeOK, KeyInv

LEMMA InitKeyTypes == Init => KeyTypes
<1> SUFFICES ASSUME Init PROVE TypeOK
  BY InitKeyInv DEF KeyTypes
<1>1. DOMAIN cache = {}
  BY DEF Init
<1> QED BY <1>1 DEF Init, TypeOK, Store!KVInit, Store!KVTypeOK

\* Every variable keeps its type: whatever is asked, the store gets storage keys only.
THEOREM KeysTyped == Spec => []TypeOK
<1>1. KeyTypes => TypeOK
  BY DEF KeyTypes
<1> QED BY <1>1, InitKeyTypes, KeyTypesStep, PTL DEF Spec

-----------------------------------------------------------------------------
(* The client's map *)

\* Two of the client's entries never share a storage key.
LEMMA EntriesDiffer ==
  ASSUME Distinct, NEW c \in Options \X Key, NEW d \in Options \X Key,
         storageKey(c[1], c[2]) = storageKey(d[1], d[2])
  PROVE  c = d
<1>1. /\ c[1] \in Options /\ d[1] \in Options /\ c[2] \in Key /\ d[2] \in Key
      /\ c = <<c[1], c[2]>> /\ d = <<d[1], d[2]>>
  OBVIOUS
<1>2. c[2] = d[2]
  BY <1>1, StorageKeysDiffer
<1>3. c[1].seed = d[1].seed /\ c[1].shuffling = d[1].shuffling
  BY <1>1, OptionsAssumption DEF Distinct, storageKey
<1>4. c[1] = d[1]
  BY <1>1, <1>3, OptionsAssumption
<1> QED BY <1>1, <1>2, <1>4

UserMap  == [c \in Options \X Key |-> kv[storageKey(c[1], c[2])]]
UserTodo == {[key |-> <<options, asked>>, val |-> c.val] : c \in todo}

\* put and del of the client are one change of the client's map.
LEMMA AskMaps ==
  ASSUME KeyTypes, NEW k \in Key, NEW name, NEW v \in Value \cup {None},
         Store!Ask(name, {[key |-> storageKeyFor(k), val |-> v]}), asked' = k, options' = options
  PROVE  User!Ask(name, {[key |-> <<options, k>>, val |-> v]})
<1>1. /\ op = "none" /\ op' = name /\ reply' = "none" /\ kv' = kv
      /\ todo' = {[key |-> storageKeyFor(k), val |-> v]}
  BY DEF Store!Ask
<1>2. UserTodo' = {[key |-> <<options, k>>, val |-> v]}
  BY <1>1 DEF UserTodo
<1>3. UserMap' = UserMap
  BY <1>1 DEF UserMap
<1> QED BY <1>1, <1>2, <1>3 DEF User!Ask, UserTodo, UserMap

\* Nothing the client sees changes but the call and its answer.
LEMMA TodoGone == todo' = {} => UserTodo' = {}
BY DEF UserTodo

LEMMA MapSame == kv' = kv => UserMap' = UserMap
BY DEF UserMap

\* A change of one storage key is a change of one entry, that of the key asked for.
LEMMA CommitMaps == ASSUME Distinct, KeyTypes, Commit PROVE User!Commit
<1>1. PICK c \in todo : /\ kv' = [kv EXCEPT ![c.key] = c.val]
                        /\ todo' = todo \ {c}
                        /\ UNCHANGED <<op, reply, options, asked>>
  BY DEF Commit, Store!Commit
<1>2. /\ todo = {c} /\ todo' = {}
      /\ asked \in Key /\ options \in Options /\ c.key = storageKey(options, asked)
      /\ kv \in [StorageKey -> Value \cup {None}]
  BY <1>1 DEF KeyTypes, KeyInv, TypeOK, Store!KVTypeOK
<1> DEFINE e == <<options, asked>>
           u == [key |-> e, val |-> c.val]
<1>3. e \in Options \X Key /\ e[1] = options /\ e[2] = asked
  BY <1>2
<1>4. UserTodo = {u} /\ UserTodo' = {}
  BY <1>2 DEF UserTodo
<1>5. ASSUME NEW d \in Options \X Key
      PROVE  UserMap'[d] = IF d = e THEN c.val ELSE UserMap[d]
  <2>1. storageKey(d[1], d[2]) \in StorageKey
    BY StorageKeyType
  <2>2. storageKey(d[1], d[2]) = c.key => d = e
    BY <1>2, <1>3, EntriesDiffer
  <2> QED BY <1>1, <1>2, <1>3, <2>1, <2>2 DEF UserMap
<1>6. UserMap' = [UserMap EXCEPT ![e] = c.val]
  BY <1>5 DEF UserMap
<1> HIDE DEF e
<1>7. u.key = e /\ u.val = c.val
  OBVIOUS
<1> HIDE DEF u
<1>8. u \in UserTodo /\ UserMap' = [UserMap EXCEPT ![u.key] = u.val] /\ UserTodo' = UserTodo \ {u}
  BY <1>4, <1>6, <1>7
<1> QED BY <1>1, <1>8 DEF User!Commit, UserMap, UserTodo

LEMMA KeyStepMaps == Distinct /\ KeyTypes /\ [Next]_vars => [User!KVNext]_User!kvVars
<1> SUFFICES ASSUME Distinct, KeyTypes, [Next]_vars PROVE [User!KVNext]_User!kvVars
  OBVIOUS
<1>0. KeyInv /\ options \in Options
  BY DEF KeyTypes, KeyInv
<1>1. ASSUME NEW k \in Key, Del(k) PROVE User!KVNext
  <2>1. /\ Store!Ask("del", {[key |-> storageKeyFor(k), val |-> None]})
        /\ asked' = k /\ options' = options
    BY <1>1 DEF Del, Store!Del
  <2>2. User!Ask("del", {[key |-> <<options, k>>, val |-> None]})
    BY <2>1, AskMaps DEF User!Ask
  <2>3. User!Del(<<options, k>>)
    BY <2>2 DEF User!Del
  <2> QED BY <1>0, <2>3 DEF User!KVNext, User!Request
<1>2. ASSUME NEW k \in Key, NEW v \in Value, Put(k, v) PROVE User!KVNext
  <2>1. /\ Store!Ask("put", {[key |-> storageKeyFor(k), val |-> v]})
        /\ asked' = k /\ options' = options
    BY <1>2 DEF Put, Store!Put
  <2>2. User!Ask("put", {[key |-> <<options, k>>, val |-> v]})
    BY <2>1, AskMaps
  <2>3. User!Put(<<options, k>>, v)
    BY <2>2 DEF User!Put
  <2> QED BY <1>0, <2>3 DEF User!KVNext, User!Request
<1>3. ASSUME NEW k \in Key, Get(k) PROVE User!KVNext
  <2>1. /\ reply' = kv[storageKey(options, k)] /\ op = "none" /\ todo' = {}
        /\ todo = {} /\ UNCHANGED <<kv, op>>
    BY <1>0, <1>3, KeyForType DEF Get, Store!Get, KeyInv
  <2>2. UserTodo = {} /\ UserTodo' = {} /\ UserMap' = UserMap
    BY <2>1, TodoGone, MapSame DEF UserTodo
  <2>3. <<options, k>> \in Options \X Key /\ reply' = UserMap[<<options, k>>]
    BY <1>0, <2>1 DEF UserMap
  <2>4. User!Get(<<options, k>>)
    BY <2>1, <2>2, <2>3 DEF User!Get, UserMap, UserTodo
  <2> QED BY <2>3, <2>4 DEF User!KVNext
<1>4. ASSUME NEW k \in Key, PrepareKey(k) PROVE UNCHANGED User!kvVars
  BY <1>4 DEF PrepareKey, storeVars, User!kvVars
<1>5. CASE Commit
  BY <1>5, CommitMaps DEF User!KVNext
<1>6. CASE Store!Respond /\ UNCHANGED <<options, asked>>
  <2>1. UserTodo = {} /\ UserTodo' = {} /\ UserMap' = UserMap
    BY <1>6, TodoGone, MapSame DEF Store!Respond, UserTodo
  <2>2. User!Respond
    BY <1>6, <2>1 DEF Store!Respond, User!Respond, UserMap, UserTodo
  <2> QED BY <2>2 DEF User!KVNext
<1>7. CASE Store!Fail
  <2>1. UserTodo' = {} /\ UserMap' = UserMap
    BY <1>7, TodoGone, MapSame DEF Store!Fail
  <2>2. User!Fail
    BY <1>7, <2>1 DEF Store!Fail, User!Fail, UserMap, UserTodo
  <2> QED BY <2>2 DEF User!KVNext
<1>8. ASSUME NEW o \in Options, Reopen(o) PROVE User!KVNext
  <2>1. UserTodo' = {} /\ UserMap' = UserMap
    BY <1>8, TodoGone, MapSame DEF Reopen, Store!Crash
  <2>2. User!Crash
    BY <1>8, <2>1 DEF Reopen, Store!Crash, User!Crash, UserMap, UserTodo
  <2> QED BY <2>2 DEF User!KVNext
<1>9. CASE UNCHANGED vars
  BY <1>9 DEF vars, storeVars, User!kvVars
<1> QED BY <1>1, <1>2, <1>3, <1>4, <1>5, <1>6, <1>7, <1>8, <1>9 DEF Next, Finish

\* For the client the store is a durable map over its own keys, one for each choice of
\* options, as long as the hash keeps its keys apart and the seed stays.
THEOREM KeysImplement == ASSUME Distinct PROVE Spec => ImplementsKVStore
<1>1. Init => User!KVInit
  <2> SUFFICES ASSUME Init PROVE User!KVInit
    OBVIOUS
  <2>1. UserTodo = {}
    BY DEF Init, Store!KVInit, UserTodo
  <2>2. UserMap = [c \in Options \X Key |-> None]
    BY StorageKeyType DEF Init, Store!KVInit, UserMap
  <2> QED BY <2>1, <2>2 DEF Init, Store!KVInit, User!KVInit, UserMap, UserTodo
<1>2. KeyTypes /\ [Next]_vars => [User!KVNext]_User!kvVars
  BY KeyStepMaps
<1> QED BY <1>1, <1>2, InitKeyTypes, KeyTypesStep, PTL DEF Spec, ImplementsKVStore, User!KVSpec
=============================================================================
