----------------------------- MODULE WAL_proofs -----------------------------
(***************************************************************************)
(* What WAL.tla states of the log, for every set of records, sizes of the  *)
(* fields and points at which a write stops: what was synced survives, and *)
(* nothing is read from the log that was not appended.                     *)
(*                                                                         *)
(* replay is a recursive function.  Its value is known through the chain   *)
(* of the positions at which it reads records: a log that holds a chain of *)
(* records keeps it when bytes are appended, and replay follows it.        *)
(***************************************************************************)
EXTENDS WAL, WellOrder_proofs, SequenceTheorems

-----------------------------------------------------------------------------
(* Chains *)

\* pos names where each record of rs starts in f, and where the last one ends.
Chain(f, rs, pos) ==
  /\ pos \in [1 .. Len(rs) + 1 -> 1 .. Len(f) + 1]
  /\ \A i \in 1 .. Len(rs) : /\ pos[i] <= Len(f) /\ ~Short(f, pos[i])
                             /\ RecordAt(f, pos[i]) = rs[i]
                             /\ pos[i + 1] = EndOf(f, pos[i]) + 1

\* f begins with the records rs; f is made of the records rs.
Holds(f, rs) == \E pos : Chain(f, rs, pos) /\ pos[1] = 1
Is(f, rs)    == \E pos : Chain(f, rs, pos) /\ pos[1] = 1 /\ pos[Len(rs) + 1] = Len(f) + 1

-----------------------------------------------------------------------------
(* The inductive invariant *)

All == synced \o unsynced

\* The stream: bytes wait only in an open one, and a damaged log is not written on but
\* after a truncation that failed.
StreamInv ==
  /\ stream \in {"none", "opened", "closed"} => buffer = <<>>
  /\ stream = "closed" => unsynced = <<>>
  /\ stream \in {"good", "closed"} => damage # "tail"
  /\ stream = "bad" => damage # "none"

\* The file begins with the synced records, up to the first that does not fit.
SyncedInv ==
  damage # "inside" =>
    \A n \in 0 .. Len(synced) : AllFit(First(synced, n)) => Holds(file, First(synced, n))

\* File and buffer together begin with all records, up to the first that does not fit.
AllInv ==
  stream \in {"good", "closed"} /\ damage = "none" =>
    /\ unsynced = <<>> => buffer = <<>>
    /\ \A n \in 0 .. Len(All) : AllFit(First(All, n)) => Holds(file \o buffer, First(All, n))
    /\ AllFit(All) => Is(file \o buffer, All)

WALInv == TypeOK /\ StreamInv /\ SyncedInv /\ AllInv /\ NothingInvented
-----------------------------------------------------------------------------
(* Records in a sequence of bytes *)

\* X begins with f.
Within(f, X) == /\ f \in Seq(Byte) /\ X \in Seq(Byte) /\ Len(f) <= Len(X)
                /\ \A i \in 1 .. Len(f) : f[i] = X[i]

LEMMA WidthTwo == /\ Width \in Nat /\ Width > 1 /\ PutOp # DelOp
                  /\ PutOp \in Byte /\ DelOp \in Byte /\ Byte \subseteq Nat
BY WidthAssumption DEF Byte

\* A record that is not cut off ends inside the bytes, after it started.
LEMMA RecordInside ==
  ASSUME NEW f \in Seq(Byte), NEW p \in Nat, p <= Len(f), ~Short(f, p)
  PROVE  /\ Len(f) \in Nat /\ p + 2 <= Len(f)
         /\ f[p + 1] \in Byte /\ f[p + 2] \in Byte /\ f[p + 1] \in Nat /\ f[p + 2] \in Nat
         /\ EndOf(f, p) \in Nat /\ EndOf(f, p) >= p + 2 /\ EndOf(f, p) <= Len(f)
<1>1. Len(f) \in Nat /\ p + 2 <= Len(f)
  BY DEF Short
<1>2. p + 1 \in 1 .. Len(f) /\ p + 2 \in 1 .. Len(f)
  BY <1>1
<1>3. f[p + 1] \in Byte /\ f[p + 2] \in Byte
  BY <1>2, ElementOfSeq
<1>4. f[p + 1] \in Nat /\ f[p + 2] \in Nat
  BY <1>3, WidthTwo
<1>5. EndOf(f, p) = p + 2 + f[p + 1] + f[p + 2]
  BY DEF EndOf
<1>6. ~(EndOf(f, p) > Len(f))
  BY DEF Short
<1> QED BY <1>1, <1>3, <1>4, <1>5, <1>6

LEMMA RecordTyped ==
  ASSUME NEW f \in Seq(Byte), NEW p \in Nat \ {0}, p <= Len(f), ~Short(f, p)
  PROVE  RecordAt(f, p) \in Log
<1>1. /\ f[p + 1] \in Nat /\ f[p + 2] \in Nat /\ Len(f) \in Nat
      /\ EndOf(f, p) \in Nat /\ EndOf(f, p) <= Len(f)
  <2>1. p \in Nat
    OBVIOUS
  <2> QED BY <2>1, RecordInside
<1>2. EndOf(f, p) = p + 2 + f[p + 1] + f[p + 2]
  BY DEF EndOf
<1>3. \A i \in 1 .. Len(f) : f[i] \in Byte
  BY ElementOfSeq
<1>4. SubSeq(f, p + 3, p + 2 + f[p + 1]) \in Seq(Byte)
  <2>1. \A i \in p + 3 .. p + 2 + f[p + 1] : f[i] \in Byte
    BY <1>1, <1>2, <1>3
  <2> QED BY <1>1, <2>1, SubSeqProperties
<1>5. SubSeq(f, p + 3 + f[p + 1], EndOf(f, p)) \in Seq(Byte)
  <2>1. \A i \in p + 3 + f[p + 1] .. EndOf(f, p) : f[i] \in Byte
    BY <1>1, <1>2, <1>3
  <2>2. p + 3 + f[p + 1] \in Int /\ EndOf(f, p) \in Int
    BY <1>1
  <2> QED BY <2>1, <2>2, SubSeqProperties
<1> QED BY <1>4, <1>5 DEF RecordAt, Log

\* Longer bytes hold the same record at the same place.
LEMMA RecordWithin ==
  ASSUME NEW f, NEW X, Within(f, X), NEW p \in Nat \ {0}, p <= Len(f), ~Short(f, p)
  PROVE  /\ p <= Len(X) /\ ~Short(X, p)
         /\ EndOf(X, p) = EndOf(f, p) /\ RecordAt(X, p) = RecordAt(f, p)
<1>1. /\ f \in Seq(Byte) /\ X \in Seq(Byte) /\ Len(f) <= Len(X)
      /\ \A i \in 1 .. Len(f) : f[i] = X[i]
  BY DEF Within
<1>2. /\ f[p + 1] \in Nat /\ f[p + 2] \in Nat /\ Len(f) \in Nat /\ Len(X) \in Nat
      /\ p + 2 <= Len(f) /\ EndOf(f, p) \in Nat /\ EndOf(f, p) <= Len(f)
  <2>1. p \in Nat
    OBVIOUS
  <2>2. /\ f[p + 1] \in Nat /\ f[p + 2] \in Nat /\ Len(f) \in Nat
        /\ p + 2 <= Len(f) /\ EndOf(f, p) \in Nat /\ EndOf(f, p) <= Len(f)
    BY <1>1, <2>1, RecordInside
  <2> QED BY <1>1, <2>2, LenProperties
<1>3. f[p] = X[p] /\ f[p + 1] = X[p + 1] /\ f[p + 2] = X[p + 2]
  BY <1>1, <1>2
<1>4. EndOf(X, p) = EndOf(f, p)
  BY <1>3 DEF EndOf
<1>5. p <= Len(X) /\ ~Short(X, p)
  BY <1>1, <1>2, <1>4 DEF Short
<1>6. ASSUME NEW m \in Int, NEW n \in Int, m >= 1, n <= Len(f)
      PROVE  SubSeq(X, m, n) = SubSeq(f, m, n)
  <2>1. \A i \in m .. n : X[i] = f[i] /\ f[i] \in Byte
    BY <1>1, <1>2, <1>6, ElementOfSeq
  <2>2. \A i \in m .. n : X[i] \in Byte
    BY <2>1
  <2>3. /\ SubSeq(f, m, n) \in Seq(Byte) /\ Len(SubSeq(f, m, n)) = IF m <= n THEN n - m + 1 ELSE 0
        /\ \A i \in 1 .. n - m + 1 : SubSeq(f, m, n)[i] = f[m + i - 1]
    BY <2>1, SubSeqProperties
  <2>4. /\ SubSeq(X, m, n) \in Seq(Byte) /\ Len(SubSeq(X, m, n)) = IF m <= n THEN n - m + 1 ELSE 0
        /\ \A i \in 1 .. n - m + 1 : SubSeq(X, m, n)[i] = X[m + i - 1]
    BY <2>2, SubSeqProperties
  <2>5. \A i \in 1 .. Len(SubSeq(f, m, n)) : SubSeq(X, m, n)[i] = SubSeq(f, m, n)[i]
    <3> SUFFICES ASSUME NEW i \in 1 .. Len(SubSeq(f, m, n))
                 PROVE  SubSeq(X, m, n)[i] = SubSeq(f, m, n)[i]
      OBVIOUS
    <3>1. i \in 1 .. n - m + 1 /\ m + i - 1 \in m .. n
      BY <2>3
    <3> QED BY <2>1, <2>3, <2>4, <3>1
  <2> QED BY <2>3, <2>4, <2>5, SeqEqual
<1>7. SubSeq(X, p + 3, p + 2 + X[p + 1]) = SubSeq(f, p + 3, p + 2 + f[p + 1])
  <2>1. p + 2 + f[p + 1] <= Len(f) /\ p + 3 \in Int /\ p + 2 + f[p + 1] \in Int /\ p + 3 >= 1
    BY <1>2 DEF EndOf
  <2>2. SubSeq(X, p + 3, p + 2 + f[p + 1]) = SubSeq(f, p + 3, p + 2 + f[p + 1])
    BY <1>6, <2>1
  <2> QED BY <1>3, <2>2
<1>8. SubSeq(X, p + 3 + X[p + 1], EndOf(X, p)) = SubSeq(f, p + 3 + f[p + 1], EndOf(f, p))
  <2>1. p + 3 + f[p + 1] \in Int /\ p + 3 + f[p + 1] >= 1 /\ EndOf(f, p) \in Int
    BY <1>2
  <2>2. SubSeq(X, p + 3 + f[p + 1], EndOf(f, p)) = SubSeq(f, p + 3 + f[p + 1], EndOf(f, p))
    BY <1>2, <1>6, <2>1
  <2> QED BY <1>3, <1>4, <2>2
<1> QED BY <1>3, <1>4, <1>5, <1>7, <1>8 DEF RecordAt

-----------------------------------------------------------------------------
(* What replay reads *)

\* The function replay is defined by, and its body for p.
Reads(f) ==
  CHOOSE from : from = [p \in Nat |->
    IF p > Len(f) THEN <<>>
    ELSE IF Short(f, p) THEN Corrupt
    ELSE IF from[EndOf(f, p) + 1] = Corrupt THEN Corrupt
                                            ELSE <<RecordAt(f, p)>> \o from[EndOf(f, p) + 1]]

Body(f, from, p) ==
  IF p > Len(f) THEN <<>>
  ELSE IF Short(f, p) THEN Corrupt
  ELSE IF from[EndOf(f, p) + 1] = Corrupt THEN Corrupt
                                          ELSE <<RecordAt(f, p)>> \o from[EndOf(f, p) + 1]

LEMMA ReplayReads == ASSUME NEW f PROVE replay(f) = Reads(f)[1]
BY DEF replay, Reads

\* The recursion ends, because a record ends after it starts: there is such a function.
\* One that is right from the place n on can be made right at n - 1.
LEMMA ReadsExists ==
  ASSUME NEW f \in Seq(Byte)
  PROVE  \E from : from = [p \in Nat |-> Body(f, from, p)]
<1> DEFINE Right(g, n) == /\ g = [p \in Nat |-> g[p]]
                          /\ \A p \in Nat : p >= n => g[p] = Body(f, g, p)
           S == {n \in 0 .. Len(f) + 1 : \E g : Right(g, n)}
<1>1. Len(f) \in Nat
  BY LenProperties
<1>2. Len(f) + 1 \in S
  <2> DEFINE g == [p \in Nat |-> <<>>]
  <2>1. g = [p \in Nat |-> g[p]]
    OBVIOUS
  <2>2. ASSUME NEW p \in Nat, p >= Len(f) + 1 PROVE g[p] = Body(f, g, p)
    <3>1. p > Len(f)
      BY <1>1, <2>2
    <3> QED BY <3>1 DEF Body
  <2>3. Right(g, Len(f) + 1)
    BY <2>1, <2>2
  <2>4. Len(f) + 1 \in 0 .. Len(f) + 1
    BY <1>1
  <2> HIDE DEF g, Right
  <2> QED BY <2>3, <2>4
<1>3. PICK n \in S : \A i \in S : n <= i
  <2>1. S \subseteq 0 .. Len(f) + 1 /\ S # {} /\ 0 \in Int /\ Len(f) + 1 \in Int
    BY <1>1, <1>2
  <2> HIDE DEF S
  <2> QED BY <2>1, LeastInRange
<1>4. PICK g : Right(g, n)
  BY <1>3
<1>5. n \in Nat /\ n <= Len(f) + 1
  BY <1>1, <1>3
<1>6. ASSUME n # 0 PROVE FALSE
  <2> DEFINE m == n - 1
             h == [p \in Nat |-> IF p = m THEN Body(f, g, m) ELSE g[p]]
  <2>1. m \in Nat /\ m \in 0 .. Len(f) + 1 /\ m < n /\ \A p \in Nat : p >= m => p = m \/ p >= n
    BY <1>1, <1>5, <1>6
  <2> HIDE DEF m
  <2>2. ASSUME NEW p \in Nat, p >= m PROVE Body(f, h, p) = Body(f, g, p)
    <3>1. CASE p > Len(f) \/ Short(f, p)
      BY <3>1 DEF Body
    <3>2. CASE ~(p > Len(f)) /\ ~Short(f, p)
      <4>1. EndOf(f, p) + 1 \in Nat /\ EndOf(f, p) + 1 # m
        <5>1. p <= Len(f)
          BY <1>1, <3>2
        <5>2. EndOf(f, p) \in Nat /\ EndOf(f, p) >= p + 2
          BY <3>2, <5>1, RecordInside
        <5> QED BY <2>1, <2>2, <5>2
      <4>2. h[EndOf(f, p) + 1] = g[EndOf(f, p) + 1]
        BY <4>1
      <4> HIDE DEF h
      <4> QED BY <4>2 DEF Body
    <3> QED BY <3>1, <3>2
  <2>3. ASSUME NEW p \in Nat, p >= m PROVE h[p] = Body(f, h, p)
    <3>1. CASE p = m
      BY <2>1, <2>2, <2>3, <3>1
    <3>2. CASE p # m
      <4>1. h[p] = g[p] /\ p >= n
        BY <2>1, <2>3, <3>2
      <4>2. g[p] = Body(f, g, p)
        BY <1>4, <4>1
      <4> QED BY <2>2, <2>3, <4>1, <4>2
    <3> QED BY <3>1, <3>2
  <2>4. h = [p \in Nat |-> h[p]]
    OBVIOUS
  <2>5. m \in S
    <3> HIDE DEF h
    <3> QED BY <2>1, <2>3, <2>4
  <2>6. n <= m
    BY <1>3, <2>5
  <2> QED BY <1>5, <2>1, <2>6
<1>7. g = [p \in Nat |-> g[p]] /\ \A p \in Nat : g[p] = Body(f, g, p)
  BY <1>4, <1>6
<1>8. [p \in Nat |-> g[p]] = [p \in Nat |-> Body(f, g, p)]
  BY <1>7
<1> QED BY <1>7, <1>8

LEMMA ReadsUnfolds ==
  ASSUME NEW f \in Seq(Byte), NEW p \in Nat
  PROVE  Reads(f)[p] = Body(f, Reads(f), p)
<1>1. Reads(f) = CHOOSE from : from = [q \in Nat |-> Body(f, from, q)]
  BY DEF Reads, Body
<1>2. Reads(f) = [q \in Nat |-> Body(f, Reads(f), q)]
  BY <1>1, ReadsExists
<1> QED BY <1>2

LEMMA ReadsEnd ==
  ASSUME NEW f \in Seq(Byte), NEW p \in Nat, p > Len(f)
  PROVE  Reads(f)[p] = <<>>
BY ReadsUnfolds DEF Body

LEMMA ReadsOn ==
  ASSUME NEW f \in Seq(Byte), NEW p \in Nat, p <= Len(f), Reads(f)[p] # Corrupt
  PROVE  /\ ~Short(f, p) /\ Reads(f)[EndOf(f, p) + 1] # Corrupt
         /\ Reads(f)[p] = <<RecordAt(f, p)>> \o Reads(f)[EndOf(f, p) + 1]
<1>1. ~(p > Len(f))
  BY LenProperties
<1> QED BY <1>1, ReadsUnfolds DEF Body

LEMMA NotCorrupt == \A rs \in Seq(Log) : rs # Corrupt
BY RecordAssumption

-----------------------------------------------------------------------------
(* Chains *)

LEMMA ChainFacts ==
  ASSUME NEW f \in Seq(Byte), NEW rs \in Seq(Log), NEW pos, Chain(f, rs, pos)
  PROVE  /\ Len(f) \in Nat /\ Len(rs) \in Nat
         /\ \A i \in 1 .. Len(rs) + 1 : pos[i] \in Nat \ {0} /\ pos[i] <= Len(f) + 1
         /\ \A i \in 1 .. Len(rs) : /\ pos[i] <= Len(f) /\ ~Short(f, pos[i])
                                    /\ RecordAt(f, pos[i]) = rs[i]
                                    /\ pos[i + 1] = EndOf(f, pos[i]) + 1
<1>1. Len(f) \in Nat /\ Len(rs) \in Nat
  BY LenProperties
<1>2. pos \in [1 .. Len(rs) + 1 -> 1 .. Len(f) + 1]
  BY DEF Chain
<1>3. \A i \in 1 .. Len(rs) + 1 : pos[i] \in 1 .. Len(f) + 1
  BY <1>2
<1> QED BY <1>1, <1>3 DEF Chain

\* Longer bytes have the chain of shorter ones.
LEMMA ChainWithin ==
  ASSUME NEW f, NEW X, Within(f, X), NEW rs \in Seq(Log), NEW pos, Chain(f, rs, pos)
  PROVE  Chain(X, rs, pos)
<1>1. f \in Seq(Byte) /\ X \in Seq(Byte) /\ Len(f) <= Len(X) /\ Len(f) \in Nat /\ Len(X) \in Nat
  BY LenProperties DEF Within
<1>2. Len(rs) \in Nat
  BY LenProperties
<1>3. pos \in [1 .. Len(rs) + 1 -> 1 .. Len(X) + 1]
  <2>1. pos \in [1 .. Len(rs) + 1 -> 1 .. Len(f) + 1]
    BY DEF Chain
  <2>2. 1 .. Len(f) + 1 \subseteq 1 .. Len(X) + 1
    BY <1>1
  <2> QED BY <2>1, <2>2
<1>4. ASSUME NEW i \in 1 .. Len(rs)
      PROVE  /\ pos[i] <= Len(X) /\ ~Short(X, pos[i])
             /\ RecordAt(X, pos[i]) = rs[i] /\ pos[i + 1] = EndOf(X, pos[i]) + 1
  <2>1. i \in 1 .. Len(rs) + 1
    BY <1>2
  <2>2. /\ pos[i] \in Nat \ {0} /\ pos[i] <= Len(f) /\ ~Short(f, pos[i])
        /\ RecordAt(f, pos[i]) = rs[i] /\ pos[i + 1] = EndOf(f, pos[i]) + 1
    BY <1>1, <2>1, ChainFacts
  <2> QED BY <2>2, RecordWithin
<1> QED BY <1>3, <1>4 DEF Chain

\* A chain that starts where another one does is the same as far as both go.
LEMMA ChainsAgree ==
  ASSUME NEW f \in Seq(Byte), NEW rs \in Seq(Log), NEW pos, Chain(f, rs, pos),
         NEW ts \in Seq(Log), NEW qos, Chain(f, ts, qos), pos[1] = qos[1]
  PROVE  /\ \A i \in 1 .. Len(rs) + 1 : i <= Len(ts) + 1 => pos[i] = qos[i]
         /\ \A i \in 1 .. Len(rs) : i <= Len(ts) => rs[i] = ts[i]
<1>1. /\ Len(f) \in Nat /\ Len(rs) \in Nat /\ Len(ts) \in Nat
      /\ \A i \in 1 .. Len(rs) : RecordAt(f, pos[i]) = rs[i] /\ pos[i + 1] = EndOf(f, pos[i]) + 1
      /\ \A i \in 1 .. Len(ts) : RecordAt(f, qos[i]) = ts[i] /\ qos[i + 1] = EndOf(f, qos[i]) + 1
  BY ChainFacts
<1> DEFINE S == {i \in 1 .. Len(rs) + 1 : i <= Len(ts) + 1 /\ pos[i] # qos[i]}
<1>2. S = {}
  <2> SUFFICES ASSUME S # {} PROVE FALSE
    OBVIOUS
  <2>1. PICK i \in S : \A j \in S : i <= j
    <3>1. S \subseteq 1 .. Len(rs) + 1 /\ 1 \in Int /\ Len(rs) + 1 \in Int
      BY <1>1
    <3> HIDE DEF S
    <3> QED BY <3>1, LeastInRange
  <2>2. i \in 1 .. Len(rs) + 1 /\ i <= Len(ts) + 1 /\ pos[i] # qos[i]
    BY <2>1
  <2>3. i # 1
    BY <2>2
  <2> DEFINE j == i - 1
  <2>4. j \in 1 .. Len(rs) /\ j \in 1 .. Len(ts) /\ j \in 1 .. Len(rs) + 1 /\ j + 1 = i /\ ~(i <= j)
        /\ j <= Len(ts) + 1
    BY <1>1, <2>2, <2>3
  <2> HIDE DEF j
  <2>5. pos[j] = qos[j]
    BY <2>1, <2>4
  <2>6. pos[j + 1] = qos[j + 1]
    BY <1>1, <2>4, <2>5
  <2> QED BY <2>2, <2>4, <2>6
<1>3. \A i \in 1 .. Len(rs) + 1 : i <= Len(ts) + 1 => pos[i] = qos[i]
  BY <1>2
<1>4. ASSUME NEW i \in 1 .. Len(rs), i <= Len(ts) PROVE rs[i] = ts[i]
  <2>1. i \in 1 .. Len(rs) + 1 /\ i <= Len(ts) + 1 /\ i \in 1 .. Len(ts)
    BY <1>1, <1>4
  <2>2. pos[i] = qos[i]
    BY <1>3, <2>1
  <2> QED BY <1>1, <2>1, <2>2
<1> QED BY <1>3, <1>4

LEMMA FirstFacts ==
  ASSUME NEW S, NEW s \in Seq(S), NEW n \in 0 .. Len(s)
  PROVE  /\ First(s, n) \in Seq(S) /\ Len(First(s, n)) = n /\ n \in Nat /\ Len(s) \in Nat
         /\ \A i \in 1 .. n : First(s, n)[i] = s[i]
<1>1. Len(s) \in Nat /\ n \in Nat /\ n <= Len(s)
  BY LenProperties
<1>2. \A i \in 1 .. n : s[i] \in S
  BY <1>1, ElementOfSeq
<1>3. /\ SubSeq(s, 1, n) \in Seq(S)
      /\ Len(SubSeq(s, 1, n)) = IF 1 <= n THEN n - 1 + 1 ELSE 0
      /\ \A i \in 1 .. n - 1 + 1 : SubSeq(s, 1, n)[i] = s[1 + i - 1]
  BY <1>1, <1>2, SubSeqProperties
<1>4. \A i \in 1 .. n : i \in 1 .. n - 1 + 1 /\ 1 + i - 1 = i
  BY <1>1
<1> QED BY <1>1, <1>3, <1>4 DEF First

LEMMA RestFacts ==
  ASSUME NEW S, NEW s \in Seq(S), NEW n \in 0 .. Len(s)
  PROVE  /\ Rest(s, n) \in Seq(S) /\ Len(Rest(s, n)) = Len(s) - n
         /\ \A i \in 1 .. Len(s) - n : Rest(s, n)[i] = s[n + i]
<1>1. Len(s) \in Nat /\ n \in Nat /\ n <= Len(s)
  BY LenProperties
<1>2. \A i \in n + 1 .. Len(s) : s[i] \in S
  BY <1>1, ElementOfSeq
<1>3. /\ SubSeq(s, n + 1, Len(s)) \in Seq(S)
      /\ Len(SubSeq(s, n + 1, Len(s))) = IF n + 1 <= Len(s) THEN Len(s) - (n + 1) + 1 ELSE 0
      /\ \A i \in 1 .. Len(s) - (n + 1) + 1 : SubSeq(s, n + 1, Len(s))[i] = s[n + 1 + i - 1]
  BY <1>1, <1>2, SubSeqProperties
<1>4. \A i \in 1 .. Len(s) - n : i \in 1 .. Len(s) - (n + 1) + 1 /\ n + 1 + i - 1 = n + i
  BY <1>1
<1> QED BY <1>1, <1>3, <1>4 DEF Rest

\* The first records of a chain.
LEMMA HoldsFirst ==
  ASSUME NEW f \in Seq(Byte), NEW rs \in Seq(Log), Holds(f, rs), NEW n \in 0 .. Len(rs)
  PROVE  Holds(f, First(rs, n))
<1>1. PICK pos : Chain(f, rs, pos) /\ pos[1] = 1
  BY DEF Holds
<1>2. /\ First(rs, n) \in Seq(Log) /\ Len(First(rs, n)) = n /\ n \in Nat /\ Len(rs) \in Nat
      /\ n <= Len(rs) /\ \A i \in 1 .. n : First(rs, n)[i] = rs[i]
  BY FirstFacts
<1> DEFINE qos == [i \in 1 .. n + 1 |-> pos[i]]
<1>3. pos \in [1 .. Len(rs) + 1 -> 1 .. Len(f) + 1]
  BY <1>1 DEF Chain
<1>4. qos \in [1 .. n + 1 -> 1 .. Len(f) + 1]
  <2>1. \A i \in 1 .. n + 1 : i \in 1 .. Len(rs) + 1
    BY <1>2
  <2> QED BY <1>3, <2>1
<1>5. ASSUME NEW i \in 1 .. n
      PROVE  /\ qos[i] <= Len(f) /\ ~Short(f, qos[i]) /\ RecordAt(f, qos[i]) = First(rs, n)[i]
             /\ qos[i + 1] = EndOf(f, qos[i]) + 1
  <2>1. i \in 1 .. Len(rs) /\ qos[i] = pos[i] /\ qos[i + 1] = pos[i + 1] /\ First(rs, n)[i] = rs[i]
    BY <1>2
  <2> HIDE DEF qos
  <2> QED BY <1>1, <2>1, ChainFacts
<1>6. qos[1] = 1
  BY <1>1, <1>2
<1> HIDE DEF qos
<1> QED BY <1>2, <1>4, <1>5, <1>6 DEF Holds, Chain

LEMMA HoldsWithin ==
  ASSUME NEW f, NEW X, Within(f, X), NEW rs \in Seq(Log), Holds(f, rs)
  PROVE  Holds(X, rs)
BY ChainWithin DEF Holds

LEMMA IsHolds == ASSUME NEW f, NEW rs, Is(f, rs) PROVE Holds(f, rs)
BY DEF Is, Holds

LEMMA NothingIs == Is(<<>>, <<>>) /\ Holds(<<>>, <<>>)
<1> DEFINE pos == [i \in 1 .. 1 |-> 1]
<1>1. Len(<<>>) = 0
  OBVIOUS
<1>2. pos \in [1 .. Len(<<>>) + 1 -> 1 .. Len(<<>>) + 1] /\ pos[1] = 1 /\ pos[Len(<<>>) + 1] = Len(<<>>) + 1
  BY <1>1
<1>3. \A i \in 1 .. Len(<<>>) : FALSE
  BY <1>1
<1> HIDE DEF pos
<1>4. Chain(<<>>, <<>>, pos)
  BY <1>2, <1>3 DEF Chain
<1> QED BY <1>2, <1>4 DEF Is, Holds

-----------------------------------------------------------------------------
(* Replay and chains *)

\* A replay that does not throw has read a chain that ends with the bytes: the last place
\* for which that fails is followed by one for which it holds.
LEMMA ReadsChain ==
  ASSUME NEW f \in Seq(Byte), NEW q \in 1 .. Len(f) + 1, Reads(f)[q] # Corrupt
  PROVE  /\ Reads(f)[q] \in Seq(Log)
         /\ \E pos : /\ Chain(f, Reads(f)[q], pos)
                     /\ pos[1] = q /\ pos[Len(Reads(f)[q]) + 1] = Len(f) + 1
<1> DEFINE Good(p) == /\ Reads(f)[p] \in Seq(Log)
                      /\ \E pos : /\ Chain(f, Reads(f)[p], pos)
                                  /\ pos[1] = p /\ pos[Len(Reads(f)[p]) + 1] = Len(f) + 1
           S == {p \in 1 .. Len(f) + 1 : Reads(f)[p] # Corrupt /\ ~Good(p)}
<1>1. Len(f) \in Nat
  BY LenProperties
<1>2. S = {}
  <2> SUFFICES ASSUME S # {} PROVE FALSE
    OBVIOUS
  <2>1. PICK p \in S : \A i \in S : i <= p
    <3>1. S \subseteq 1 .. Len(f) + 1 /\ 1 \in Int /\ Len(f) + 1 \in Int
      BY <1>1
    <3> HIDE DEF S
    <3> QED BY <3>1, GreatestInRange
  <2>2. /\ p \in 1 .. Len(f) + 1 /\ p \in Nat \ {0} /\ p \in Nat /\ p <= Len(f) + 1
        /\ Reads(f)[p] # Corrupt /\ ~Good(p)
    BY <1>1, <2>1
  <2>3. CASE p = Len(f) + 1
    <3> DEFINE pos == [i \in 1 .. 1 |-> p]
    <3>1. Reads(f)[p] = <<>>
      <4>1. p > Len(f)
        BY <1>1, <2>3
      <4> QED BY <2>2, <4>1, ReadsEnd
    <3>2. /\ pos \in [1 .. Len(Reads(f)[p]) + 1 -> 1 .. Len(f) + 1]
          /\ pos[1] = p /\ pos[Len(Reads(f)[p]) + 1] = Len(f) + 1
          /\ Reads(f)[p] \in Seq(Log) /\ \A i \in 1 .. Len(Reads(f)[p]) : FALSE
      BY <2>2, <2>3, <3>1
    <3> HIDE DEF pos
    <3>3. Chain(f, Reads(f)[p], pos)
      BY <3>2 DEF Chain
    <3> QED BY <2>2, <3>2, <3>3
  <2>4. CASE p # Len(f) + 1
    <3> DEFINE e == EndOf(f, p) + 1
               rs == Reads(f)[e]
               all == Reads(f)[p]
    <3>1. p <= Len(f)
      BY <1>1, <2>2, <2>4
    <3>2. ~Short(f, p) /\ rs # Corrupt /\ all = <<RecordAt(f, p)>> \o rs
      BY <2>2, <3>1, ReadsOn
    <3>3. EndOf(f, p) \in Nat /\ EndOf(f, p) >= p + 2 /\ EndOf(f, p) <= Len(f)
      BY <2>2, <3>1, <3>2, RecordInside
    <3>4. e \in 1 .. Len(f) + 1 /\ ~(e <= p)
      BY <1>1, <2>2, <3>3
    <3>5. Good(e)
      <4>1. e \notin S
        BY <2>1, <3>4
      <4> QED BY <3>2, <3>4, <4>1
    <3>6. RecordAt(f, p) \in Log
      BY <2>2, <3>1, <3>2, RecordTyped
    <3> HIDE DEF e
    <3>7. PICK pos : Chain(f, rs, pos) /\ pos[1] = e /\ pos[Len(rs) + 1] = Len(f) + 1
      BY <3>5
    <3>8. rs \in Seq(Log)
      BY <3>5
    <3> DEFINE r == RecordAt(f, p)
    <3>9. e = EndOf(f, p) + 1
      BY DEF e
    <3> HIDE DEF Good, rs, all, r
    <3>10. /\ all \in Seq(Log) /\ Len(rs) \in Nat /\ Len(all) = Len(rs) + 1
           /\ all[1] = r /\ \A i \in 1 .. Len(rs) : all[i + 1] = rs[i]
      <4>1. <<r>> \in Seq(Log) /\ Len(<<r>>) = 1 /\ <<r>>[1] = r
        BY <3>6 DEF r
      <4>2. /\ <<r>> \o rs \in Seq(Log) /\ Len(<<r>> \o rs) = Len(<<r>>) + Len(rs)
            /\ \A i \in 1 .. Len(<<r>>) + Len(rs) :
                 (<<r>> \o rs)[i] = IF i <= Len(<<r>>) THEN <<r>>[i] ELSE rs[i - Len(<<r>>)]
        BY <3>8, <4>1, ConcatProperties
      <4>3. all = <<r>> \o rs
        BY <3>2 DEF r
      <4>4. Len(rs) \in Nat
        BY <3>8, LenProperties
      <4>5. \A i \in 1 .. Len(rs) : (<<r>> \o rs)[i + 1] = rs[i]
        <5> SUFFICES ASSUME NEW i \in 1 .. Len(rs) PROVE (<<r>> \o rs)[i + 1] = rs[i]
          OBVIOUS
        <5>1. i + 1 \in 1 .. Len(<<r>>) + Len(rs) /\ ~(i + 1 <= Len(<<r>>)) /\ i + 1 - Len(<<r>>) = i
          BY <4>1, <4>4
        <5> QED BY <4>2, <5>1
      <4>6. (<<r>> \o rs)[1] = r
        <5>1. 1 \in 1 .. Len(<<r>>) + Len(rs) /\ 1 <= Len(<<r>>)
          BY <4>1, <4>4
        <5> QED BY <4>1, <4>2, <5>1
      <4>7. Len(<<r>> \o rs) = Len(rs) + 1
        BY <4>1, <4>2, <4>4
      <4> QED BY <4>2, <4>3, <4>4, <4>5, <4>6, <4>7
    <3> DEFINE qos == [i \in 1 .. Len(all) + 1 |-> IF i = 1 THEN p ELSE pos[i - 1]]
    <3>11. pos \in [1 .. Len(rs) + 1 -> 1 .. Len(f) + 1]
      BY <3>7 DEF Chain
    <3>12. qos \in [1 .. Len(all) + 1 -> 1 .. Len(f) + 1]
      <4>1. \A i \in 1 .. Len(all) + 1 : i = 1 \/ i - 1 \in 1 .. Len(rs) + 1
        BY <3>10
      <4> QED BY <2>2, <3>11, <4>1
    <3>13. qos[1] = p /\ qos[Len(all) + 1] = Len(f) + 1
      BY <3>7, <3>10
    <3>14. ASSUME NEW i \in 1 .. Len(all)
           PROVE  /\ qos[i] <= Len(f) /\ ~Short(f, qos[i]) /\ RecordAt(f, qos[i]) = all[i]
                  /\ qos[i + 1] = EndOf(f, qos[i]) + 1
      <4>1. CASE i = 1
        <5>1. qos[i] = p /\ qos[i + 1] = pos[1] /\ all[i] = r
          BY <3>10, <4>1
        <5> HIDE DEF qos
        <5> QED BY <3>1, <3>2, <3>7, <3>9, <5>1 DEF r
      <4>2. CASE i # 1
        <5> DEFINE j == i - 1
        <5>1. j \in 1 .. Len(rs) /\ i = j + 1 /\ j + 1 \in 1 .. Len(rs) + 1
          BY <3>10, <4>2
        <5>2. qos[i] = pos[j] /\ qos[i + 1] = pos[j + 1]
          BY <3>10, <4>2, <5>1
        <5> HIDE DEF qos, j
        <5>3. all[i] = rs[j]
          BY <3>10, <5>1
        <5> QED BY <3>7, <3>8, <5>1, <5>2, <5>3, ChainFacts
      <4> QED BY <4>1, <4>2
    <3> HIDE DEF qos
    <3>15. Chain(f, all, qos)
      BY <3>12, <3>14 DEF Chain
    <3>16. Good(p)
      BY <3>10, <3>13, <3>15 DEF Good, all
    <3> QED BY <2>2, <3>16 DEF Good
  <2> QED BY <2>3, <2>4
<1>3. Good(q)
  BY <1>2
<1> QED BY <1>3

\* So what a replay reads is what the log is made of.
LEMMA ReplayIs ==
  ASSUME NEW f \in Seq(Byte), replay(f) # Corrupt
  PROVE  replay(f) \in Seq(Log) /\ Is(f, replay(f))
<1>1. 1 \in 1 .. Len(f) + 1 /\ Reads(f)[1] # Corrupt /\ replay(f) = Reads(f)[1]
  BY LenProperties, ReplayReads
<1>2. /\ Reads(f)[1] \in Seq(Log)
      /\ \E pos : /\ Chain(f, Reads(f)[1], pos)
                  /\ pos[1] = 1 /\ pos[Len(Reads(f)[1]) + 1] = Len(f) + 1
  BY <1>1, ReadsChain
<1> QED BY <1>1, <1>2 DEF Is

\* Two lists of records bytes are made of are one; what they begin with begins the list.
LEMMA HoldsPrefix ==
  ASSUME NEW f \in Seq(Byte), NEW rs \in Seq(Log), Holds(f, rs),
         NEW ts \in Seq(Log), Is(f, ts)
  PROVE  IsPrefix(rs, ts)
<1>1. PICK pos : Chain(f, rs, pos) /\ pos[1] = 1
  BY DEF Holds
<1>2. PICK qos : Chain(f, ts, qos) /\ qos[1] = 1 /\ qos[Len(ts) + 1] = Len(f) + 1
  BY DEF Is
<1>3. /\ \A i \in 1 .. Len(rs) + 1 : i <= Len(ts) + 1 => pos[i] = qos[i]
      /\ \A i \in 1 .. Len(rs) : i <= Len(ts) => rs[i] = ts[i]
  BY <1>1, <1>2, ChainsAgree
<1>4. /\ Len(f) \in Nat /\ Len(rs) \in Nat /\ Len(ts) \in Nat
      /\ \A i \in 1 .. Len(rs) : pos[i] <= Len(f)
  BY <1>1, ChainFacts, LenProperties
<1>5. Len(rs) <= Len(ts)
  <2> SUFFICES ASSUME Len(ts) < Len(rs) PROVE FALSE
    BY <1>4
  <2>1. Len(ts) + 1 \in 1 .. Len(rs) /\ Len(ts) + 1 \in 1 .. Len(rs) + 1 /\ Len(ts) + 1 <= Len(ts) + 1
    BY <1>4
  <2>2. pos[Len(ts) + 1] = Len(f) + 1 /\ pos[Len(ts) + 1] <= Len(f)
    BY <1>2, <1>3, <1>4, <2>1
  <2> QED BY <1>4, <2>2
<1>6. \A i \in 1 .. Len(rs) : rs[i] = ts[i]
  BY <1>3, <1>4, <1>5
<1>7. Len(rs) \in 0 .. Len(rs) /\ Len(rs) \in 0 .. Len(ts)
  BY <1>4, <1>5
<1>8. /\ First(rs, Len(rs)) \in Seq(Log) /\ Len(First(rs, Len(rs))) = Len(rs)
      /\ \A i \in 1 .. Len(rs) : First(rs, Len(rs))[i] = rs[i]
  BY <1>7, FirstFacts
<1>9. /\ First(ts, Len(rs)) \in Seq(Log) /\ Len(First(ts, Len(rs))) = Len(rs)
      /\ \A i \in 1 .. Len(rs) : First(ts, Len(rs))[i] = ts[i]
  BY <1>7, FirstFacts
<1>10. First(rs, Len(rs)) = First(ts, Len(rs))
  BY <1>6, <1>8, <1>9, SeqEqual
<1> QED BY <1>5, <1>10 DEF IsPrefix, First

LEMMA PrefixBoth ==
  ASSUME NEW rs \in Seq(Log), NEW ts \in Seq(Log), IsPrefix(rs, ts), IsPrefix(ts, rs)
  PROVE  rs = ts
<1>1. Len(rs) \in Nat /\ Len(ts) \in Nat /\ Len(rs) = Len(ts)
  BY LenProperties DEF IsPrefix
<1>2. SubSeq(rs, 1, Len(rs)) = rs /\ SubSeq(ts, 1, Len(ts)) = ts
  BY SubSeqFull
<1> QED BY <1>1, <1>2 DEF IsPrefix

\* A replay of bytes made of records does not throw, and reads them.
LEMMA IsReplays ==
  ASSUME NEW f \in Seq(Byte), NEW rs \in Seq(Log), Is(f, rs)
  PROVE  replay(f) = rs
<1>1. PICK pos : Chain(f, rs, pos) /\ pos[1] = 1 /\ pos[Len(rs) + 1] = Len(f) + 1
  BY DEF Is
<1>2. /\ Len(f) \in Nat /\ Len(rs) \in Nat
      /\ \A i \in 1 .. Len(rs) + 1 : pos[i] \in Nat \ {0} /\ pos[i] <= Len(f) + 1
      /\ \A i \in 1 .. Len(rs) : /\ pos[i] <= Len(f) /\ ~Short(f, pos[i])
                                 /\ pos[i + 1] = EndOf(f, pos[i]) + 1
  BY <1>1, ChainFacts
<1> DEFINE S == {i \in 1 .. Len(rs) + 1 : Reads(f)[pos[i]] = Corrupt}
<1>3. S = {}
  <2> SUFFICES ASSUME S # {} PROVE FALSE
    OBVIOUS
  <2>1. PICK i \in S : \A j \in S : j <= i
    <3>1. S \subseteq 1 .. Len(rs) + 1 /\ 1 \in Int /\ Len(rs) + 1 \in Int
      BY <1>2
    <3> HIDE DEF S
    <3> QED BY <3>1, GreatestInRange
  <2>2. i \in 1 .. Len(rs) + 1 /\ Reads(f)[pos[i]] = Corrupt
    BY <2>1
  <2>3. i # Len(rs) + 1
    <3> SUFFICES ASSUME i = Len(rs) + 1 PROVE FALSE
      OBVIOUS
    <3>1. Len(f) + 1 \in Nat /\ Len(f) + 1 > Len(f)
      BY <1>2
    <3>2. Reads(f)[Len(f) + 1] = <<>> /\ <<>> \in Seq(Log)
      BY <3>1, ReadsEnd
    <3> QED BY <1>1, <2>2, <3>2, NotCorrupt
  <2>4. i \in 1 .. Len(rs) /\ i + 1 \in 1 .. Len(rs) + 1 /\ ~(i + 1 <= i)
    BY <1>2, <2>2, <2>3
  <2>5. Reads(f)[pos[i + 1]] # Corrupt
    BY <2>1, <2>4
  <2>6. /\ pos[i] \in Nat \ {0} /\ pos[i] <= Len(f) /\ ~Short(f, pos[i])
        /\ pos[i + 1] = EndOf(f, pos[i]) + 1 /\ pos[i + 1] \in 1 .. Len(f) + 1
    BY <1>2, <2>4
  <2>7. Reads(f)[pos[i]] = <<RecordAt(f, pos[i])>> \o Reads(f)[pos[i + 1]]
    <3>1. ~(pos[i] > Len(f)) /\ pos[i] \in Nat
      BY <1>2, <2>6
    <3> QED BY <2>5, <2>6, <3>1, ReadsUnfolds DEF Body
  <2>8. Reads(f)[pos[i + 1]] \in Seq(Log)
    BY <2>5, <2>6, ReadsChain
  <2>9. RecordAt(f, pos[i]) \in Log
    BY <2>6, RecordTyped
  <2>10. <<RecordAt(f, pos[i])>> \o Reads(f)[pos[i + 1]] \in Seq(Log)
    <3>1. <<RecordAt(f, pos[i])>> \in Seq(Log)
      BY <2>9
    <3> QED BY <2>8, <3>1, ConcatProperties
  <2> QED BY <2>2, <2>7, <2>10, NotCorrupt
<1>4. replay(f) # Corrupt
  <2>1. 1 \in 1 .. Len(rs) + 1
    BY <1>2
  <2> QED BY <1>1, <1>3, <2>1, ReplayReads
<1>5. replay(f) \in Seq(Log) /\ Is(f, replay(f))
  BY <1>4, ReplayIs
<1>6. IsPrefix(rs, replay(f)) /\ IsPrefix(replay(f), rs)
  BY <1>5, HoldsPrefix, IsHolds
<1> QED BY <1>5, <1>6, PrefixBoth

\* A log cut short replays as a prefix, or throws.
LEMMA CutPrefix ==
  ASSUME NEW f, NEW X, Within(f, X), NEW rs \in Seq(Log), Is(X, rs), replay(f) # Corrupt
  PROVE  IsPrefix(replay(f), rs)
<1>1. f \in Seq(Byte) /\ X \in Seq(Byte)
  BY DEF Within
<1>2. replay(f) \in Seq(Log) /\ Holds(X, replay(f))
  BY <1>1, ReplayIs, IsHolds, HoldsWithin
<1> QED BY <1>1, <1>2, HoldsPrefix

-----------------------------------------------------------------------------
(* Sequences of bytes put together *)

LEMMA WithinConcat ==
  ASSUME NEW f \in Seq(Byte), NEW b \in Seq(Byte)
  PROVE  Within(f, f \o b)
<1>1. /\ f \o b \in Seq(Byte) /\ Len(f \o b) = Len(f) + Len(b)
      /\ \A i \in 1 .. Len(f) + Len(b) : (f \o b)[i] = IF i <= Len(f) THEN f[i] ELSE b[i - Len(f)]
  BY ConcatProperties
<1>2. Len(f) \in Nat /\ Len(b) \in Nat
  BY LenProperties
<1>3. \A i \in 1 .. Len(f) : i \in 1 .. Len(f) + Len(b) /\ i <= Len(f)
  BY <1>2
<1> QED BY <1>1, <1>2, <1>3 DEF Within

LEMMA FirstRest ==
  ASSUME NEW b \in Seq(Byte), NEW n \in 0 .. Len(b)
  PROVE  /\ First(b, n) \in Seq(Byte) /\ Rest(b, n) \in Seq(Byte) /\ First(b, n) \o Rest(b, n) = b
<1>1. /\ First(b, n) \in Seq(Byte) /\ Len(First(b, n)) = n /\ n \in Nat /\ Len(b) \in Nat
      /\ \A i \in 1 .. n : First(b, n)[i] = b[i]
  BY FirstFacts
<1>2. /\ Rest(b, n) \in Seq(Byte) /\ Len(Rest(b, n)) = Len(b) - n
      /\ \A i \in 1 .. Len(b) - n : Rest(b, n)[i] = b[n + i]
  BY RestFacts
<1> DEFINE c == First(b, n) \o Rest(b, n)
<1>3. /\ c \in Seq(Byte) /\ Len(c) = Len(First(b, n)) + Len(Rest(b, n))
      /\ \A i \in 1 .. Len(First(b, n)) + Len(Rest(b, n)) :
           c[i] = IF i <= Len(First(b, n)) THEN First(b, n)[i] ELSE Rest(b, n)[i - Len(First(b, n))]
  BY <1>1, <1>2, ConcatProperties
<1> HIDE DEF c
<1>4. Len(c) = Len(b) /\ Len(First(b, n)) + Len(Rest(b, n)) = Len(b)
  BY <1>1, <1>2, <1>3
<1>5. ASSUME NEW i \in 1 .. Len(c) PROVE c[i] = b[i]
  <2>1. c[i] = IF i <= n THEN First(b, n)[i] ELSE Rest(b, n)[i - n]
    BY <1>1, <1>3, <1>4
  <2>2. CASE i <= n
    <3>1. i \in 1 .. n
      BY <1>1, <2>2
    <3> QED BY <1>1, <2>1, <2>2, <3>1
  <2>3. CASE ~(i <= n)
    <3>1. i - n \in 1 .. Len(b) - n /\ n + (i - n) = i
      BY <1>1, <1>4, <2>3
    <3>2. Rest(b, n)[i - n] = b[n + (i - n)]
      BY <1>2, <3>1
    <3> QED BY <2>1, <2>3, <3>1, <3>2
  <2> QED BY <2>2, <2>3
<1>6. c = b
  BY <1>3, <1>4, <1>5, SeqEqual
<1> QED BY <1>1, <1>2, <1>6 DEF c

\* What Encode puts where.
LEMMA EncodeFacts ==
  ASSUME NEW r \in Log, Fits(r)
  PROVE  /\ Encode(r) \in Seq(Byte)
         /\ Len(r.key) \in Nat /\ Len(r.val) \in Nat
         /\ Len(Encode(r)) = 3 + Len(r.key) + Len(r.val)
         /\ Encode(r)[1] = IF r.tombstone THEN DelOp ELSE PutOp
         /\ Encode(r)[2] = Len(r.key) /\ Encode(r)[3] = Len(r.val)
         /\ \A i \in 1 .. Len(r.key) : Encode(r)[3 + i] = r.key[i]
         /\ \A i \in 1 .. Len(r.val) : Encode(r)[3 + Len(r.key) + i] = r.val[i]
<1> DEFINE op == IF r.tombstone THEN DelOp ELSE PutOp
           k == Len(r.key)
           v == Len(r.val)
           h == <<op, k, v>>
           c == h \o r.key
           d == c \o r.val
<1>1. r.key \in Seq(Byte) /\ r.val \in Seq(Byte)
  BY DEF Log
<1>2. k \in Nat /\ v \in Nat /\ k < Width /\ v < Width
  BY <1>1, LenProperties DEF Fits
<1>3. Size(r.key) = k /\ Size(r.val) = v
  <2> HIDE DEF k, v
  <2>1. k % Width = k /\ v % Width = v
    BY <1>2, WidthTwo
  <2> QED BY <2>1 DEF Size, k, v
<1>4. op \in Byte /\ k \in Byte /\ v \in Byte
  BY <1>2, WidthTwo DEF Byte
<1>5. Encode(r) = d
  BY <1>3 DEF Encode
<1> HIDE DEF op
<1>6. h \in Seq(Byte) /\ Len(h) = 3 /\ h[1] = op /\ h[2] = k /\ h[3] = v
  <2> HIDE DEF k, v
  <2> QED BY <1>4
<1> HIDE DEF h
<1>7. /\ c \in Seq(Byte) /\ Len(c) = Len(h) + Len(r.key)
      /\ \A i \in 1 .. Len(h) + Len(r.key) : c[i] = IF i <= Len(h) THEN h[i] ELSE r.key[i - Len(h)]
  BY <1>1, <1>6, ConcatProperties
<1> HIDE DEF c
<1>8. /\ d \in Seq(Byte) /\ Len(d) = Len(c) + Len(r.val)
      /\ \A i \in 1 .. Len(c) + Len(r.val) : d[i] = IF i <= Len(c) THEN c[i] ELSE r.val[i - Len(c)]
  <2>1. c \in Seq(Byte) /\ r.val \in Seq(Byte)
    BY <1>1, <1>7
  <2> HIDE DEF k, v
  <2> QED BY <2>1, ConcatProperties
<1> HIDE DEF d, k, v
<1>9. Len(r.key) = k /\ Len(r.val) = v
  BY DEF k, v
<1>10. Len(c) = 3 + k /\ Len(d) = 3 + k + v
  BY <1>2, <1>6, <1>7, <1>8, <1>9
<1>11. /\ \A i \in 1 .. 3 + k : c[i] = IF i <= 3 THEN h[i] ELSE r.key[i - 3]
       /\ \A i \in 1 .. 3 + k + v : d[i] = IF i <= 3 + k THEN c[i] ELSE r.val[i - (3 + k)]
  BY <1>6, <1>7, <1>8, <1>9, <1>10
<1>12. d[1] = op /\ d[2] = k /\ d[3] = v
  <2>1. \A i \in 1 .. 3 : i \in 1 .. 3 + k /\ i \in 1 .. 3 + k + v /\ i <= 3 + k /\ i <= 3
    BY <1>2
  <2>2. \A i \in 1 .. 3 : d[i] = h[i]
    BY <1>11, <2>1
  <2> QED BY <1>6, <2>2
<1>13. ASSUME NEW i \in 1 .. k PROVE d[3 + i] = r.key[i]
  <2>1. 3 + i \in 1 .. 3 + k /\ 3 + i \in 1 .. 3 + k + v /\ 3 + i <= 3 + k /\ ~(3 + i <= 3) /\ 3 + i - 3 = i
    BY <1>2
  <2> QED BY <1>11, <2>1
<1>14. ASSUME NEW i \in 1 .. v PROVE d[3 + k + i] = r.val[i]
  <2> DEFINE j == 3 + k + i
  <2>1. j \in 1 .. 3 + k + v /\ ~(j <= 3 + k) /\ j - (3 + k) = i
    BY <1>2
  <2> HIDE DEF j
  <2>2. d[j] = r.val[i]
    BY <1>11, <2>1
  <2> QED BY <2>2 DEF j
<1>15. Encode(r)[1] = IF r.tombstone THEN DelOp ELSE PutOp
  BY <1>5, <1>12 DEF op
<1> QED BY <1>2, <1>5, <1>8, <1>9, <1>10, <1>12, <1>13, <1>14, <1>15

\* A record that fits can be appended: it is read where the others end.
LEMMA AppendIs ==
  ASSUME NEW f \in Seq(Byte), NEW rs \in Seq(Log), Is(f, rs), NEW r \in Log, Fits(r)
  PROVE  Is(f \o Encode(r), Append(rs, r))
<1> DEFINE e == Encode(r)
           X == f \o e
           p == Len(f) + 1
           k == Len(r.key)
           v == Len(r.val)
           ts == Append(rs, r)
<1>1. /\ e \in Seq(Byte) /\ k \in Nat /\ v \in Nat /\ Len(e) = 3 + k + v
      /\ e[1] = (IF r.tombstone THEN DelOp ELSE PutOp) /\ e[2] = k /\ e[3] = v
      /\ \A i \in 1 .. k : e[3 + i] = r.key[i]
      /\ \A i \in 1 .. v : e[3 + k + i] = r.val[i]
  BY EncodeFacts
<1>2. r.key \in Seq(Byte) /\ r.val \in Seq(Byte) /\ r.tombstone \in BOOLEAN
      /\ r = [key |-> r.key, val |-> r.val, tombstone |-> r.tombstone]
  BY DEF Log
<1> HIDE DEF e
<1>3. /\ X \in Seq(Byte) /\ Len(X) = Len(f) + Len(e)
      /\ \A i \in 1 .. Len(f) + Len(e) : X[i] = IF i <= Len(f) THEN f[i] ELSE e[i - Len(f)]
  <2>1. e \in Seq(Byte)
    BY <1>1
  <2> HIDE DEF k, v
  <2> QED BY <2>1, ConcatProperties
<1>4. Within(f, X)
  BY <1>1, WithinConcat
<1>5. Len(f) \in Nat /\ Len(rs) \in Nat
  BY LenProperties
<1> HIDE DEF X
<1>6. \A i \in 1 .. 3 + k + v : X[Len(f) + i] = e[i]
  <2> SUFFICES ASSUME NEW i \in 1 .. 3 + k + v PROVE X[Len(f) + i] = e[i]
    OBVIOUS
  <2> HIDE DEF k, v
  <2>1. Len(f) + i \in 1 .. Len(f) + Len(e) /\ ~(Len(f) + i <= Len(f)) /\ Len(f) + i - Len(f) = i
    BY <1>1, <1>5
  <2> QED BY <1>3, <2>1
<1> HIDE DEF k, v
<1>7. p \in Nat \ {0} /\ Len(X) = Len(f) + 3 + k + v /\ X[p] = e[1] /\ X[p + 1] = k /\ X[p + 2] = v
  <2>1. 1 \in 1 .. 3 + k + v /\ 2 \in 1 .. 3 + k + v /\ 3 \in 1 .. 3 + k + v
    BY <1>1
  <2>2. X[Len(f) + 1] = e[1] /\ X[Len(f) + 2] = e[2] /\ X[Len(f) + 3] = e[3]
    BY <1>6, <2>1
  <2>3. p = Len(f) + 1 /\ p + 1 = Len(f) + 2 /\ p + 2 = Len(f) + 3
    BY <1>5
  <2>4. Len(X) = Len(f) + 3 + k + v
    BY <1>1, <1>3, <1>5
  <2> HIDE DEF p
  <2> QED BY <1>1, <1>5, <2>2, <2>3, <2>4
<1> HIDE DEF p
<1>8. p = Len(f) + 1
  BY DEF p
<1>9. EndOf(X, p) = p + 2 + k + v /\ EndOf(X, p) = Len(X) /\ p <= Len(X) /\ ~Short(X, p)
  <2>1. EndOf(X, p) = p + 2 + k + v
    BY <1>7 DEF EndOf
  <2>2. EndOf(X, p) = Len(X) /\ p <= Len(X) /\ ~(p + 2 > Len(X)) /\ ~(EndOf(X, p) > Len(X))
    BY <1>1, <1>5, <1>7, <1>8, <2>1
  <2> QED BY <2>1, <2>2 DEF Short
<1> DEFINE Sizes == /\ k \in Nat /\ v \in Nat /\ Len(f) \in Nat /\ p = Len(f) + 1
                      /\ Len(X) = Len(f) + 3 + k + v /\ EndOf(X, p) = p + 2 + k + v
<1>num. Sizes
  BY <1>1, <1>5, <1>7, <1>8, <1>9
<1>10. RecordAt(X, p).key = r.key
  <2> DEFINE a == p + 3
             b == p + 2 + k
             s == SubSeq(X, a, b)
  <2>1. a \in Int /\ b \in Int /\ b - a + 1 = k /\ (a <= b <=> k > 0) /\ a = Len(f) + 4
        /\ \A i \in a .. b : i \in 1 .. Len(X)
    BY <1>num
  <2> HIDE DEF a, b
  <2>2. \A i \in a .. b : X[i] \in Byte
    BY <1>3, <2>1, ElementOfSeq
  <2>3. /\ s \in Seq(Byte) /\ Len(s) = IF a <= b THEN b - a + 1 ELSE 0
        /\ \A i \in 1 .. b - a + 1 : s[i] = X[a + i - 1]
    BY <2>1, <2>2, SubSeqProperties
  <2> HIDE DEF s
  <2>4. Len(s) = k
    BY <1>1, <2>1, <2>3
  <2>5. ASSUME NEW i \in 1 .. k PROVE s[i] = r.key[i]
    <3>1. i \in 1 .. b - a + 1 /\ a + i - 1 = Len(f) + (3 + i) /\ 3 + i \in 1 .. 3 + k + v
      BY <1>1, <1>5, <2>1
    <3>2. s[i] = X[Len(f) + (3 + i)]
      BY <2>3, <3>1
    <3> QED BY <1>1, <1>6, <3>1, <3>2
  <2>6. s = r.key
    BY <1>2, <2>3, <2>4, <2>5, SeqEqual DEF k
  <2>7. RecordAt(X, p).key = s
    BY <1>7 DEF RecordAt, s, a, b
  <2> QED BY <2>6, <2>7
<1>11. RecordAt(X, p).val = r.val
  <2> DEFINE s == SubSeq(X, p + 3 + k, EndOf(X, p))
  <2>1. \A i \in p + 3 + k .. EndOf(X, p) : i \in 1 .. Len(X)
    BY <1>num
  <2>2. \A i \in p + 3 + k .. EndOf(X, p) : X[i] \in Byte
    BY <1>3, <2>1, ElementOfSeq
  <2>3. /\ s \in Seq(Byte)
        /\ Len(s) = IF p + 3 + k <= EndOf(X, p) THEN EndOf(X, p) - (p + 3 + k) + 1 ELSE 0
        /\ \A i \in 1 .. EndOf(X, p) - (p + 3 + k) + 1 : s[i] = X[p + 3 + k + i - 1]
    <3>1. p + 3 + k \in Int /\ EndOf(X, p) \in Int
      BY <1>num
    <3> DEFINE a == p + 3 + k
               b == EndOf(X, p)
    <3>2. a \in Int /\ b \in Int /\ \A i \in a .. b : X[i] \in Byte
      BY <2>2, <3>1
    <3> HIDE DEF a, b
    <3>3. /\ SubSeq(X, a, b) \in Seq(Byte)
          /\ Len(SubSeq(X, a, b)) = IF a <= b THEN b - a + 1 ELSE 0
          /\ \A i \in 1 .. b - a + 1 : SubSeq(X, a, b)[i] = X[a + i - 1]
      BY <3>2, SubSeqProperties
    <3> QED BY <3>3 DEF a, b
  <2> HIDE DEF s
  <2>4. Len(s) = v
    BY <1>1, <1>7, <1>9, <2>3
  <2>5. ASSUME NEW i \in 1 .. v PROVE s[i] = r.val[i]
    <3>1. /\ i \in 1 .. EndOf(X, p) - (p + 3 + k) + 1 /\ p + 3 + k + i - 1 = Len(f) + (3 + k + i)
          /\ 3 + k + i \in 1 .. 3 + k + v
      BY <1>1, <1>5, <1>7, <1>8, <1>9
    <3>2. s[i] = X[Len(f) + (3 + k + i)]
      BY <2>3, <3>1
    <3> QED BY <1>1, <1>6, <3>1, <3>2
  <2>6. s = r.val
    BY <1>2, <2>3, <2>4, <2>5, SeqEqual DEF v
  <2>7. RecordAt(X, p).val = s
    BY <1>7 DEF RecordAt, s
  <2> QED BY <2>6, <2>7
<1>12. RecordAt(X, p).tombstone = r.tombstone
  <2>1. RecordAt(X, p).tombstone = (X[p] = DelOp)
    BY DEF RecordAt
  <2>2. CASE r.tombstone
    <3>1. X[p] = DelOp
      BY <1>1, <1>7, <2>2
    <3> QED BY <1>2, <2>1, <2>2, <3>1
  <2>3. CASE ~r.tombstone
    <3>1. X[p] # DelOp
      BY <1>1, <1>7, <2>3, WidthTwo
    <3> QED BY <1>2, <2>1, <2>3, <3>1
  <2> QED BY <2>2, <2>3
<1>13. RecordAt(X, p) = r
  <2>1. RecordAt(X, p) = [key |-> RecordAt(X, p).key, val |-> RecordAt(X, p).val,
                          tombstone |-> RecordAt(X, p).tombstone]
    BY DEF RecordAt
  <2> QED BY <1>2, <1>10, <1>11, <1>12, <2>1
<1>14. /\ ts \in Seq(Log) /\ Len(ts) = Len(rs) + 1 /\ ts[Len(rs) + 1] = r
       /\ \A i \in 1 .. Len(rs) : ts[i] = rs[i]
  BY AppendProperties
<1>15. PICK pos : Chain(f, rs, pos) /\ pos[1] = 1 /\ pos[Len(rs) + 1] = Len(f) + 1
  BY DEF Is
<1>16. Chain(X, rs, pos)
  BY <1>4, <1>15, ChainWithin
<1> HIDE DEF ts
<1> DEFINE qos == [i \in 1 .. Len(ts) + 1 |-> IF i = Len(rs) + 2 THEN Len(X) + 1 ELSE pos[i]]
<1>17. \A i \in 1 .. Len(rs) + 1 : i \in 1 .. Len(ts) + 1 /\ i # Len(rs) + 2
  BY <1>5, <1>14
<1>18. (\A i \in 1 .. Len(rs) + 1 : qos[i] = pos[i]) /\ qos[Len(rs) + 2] = Len(X) + 1
  BY <1>5, <1>14, <1>17
<1>19. qos \in [1 .. Len(ts) + 1 -> 1 .. Len(X) + 1]
  <2>1. pos \in [1 .. Len(rs) + 1 -> 1 .. Len(X) + 1]
    BY <1>16 DEF Chain
  <2>2. \A i \in 1 .. Len(ts) + 1 : i = Len(rs) + 2 \/ i \in 1 .. Len(rs) + 1
    BY <1>5, <1>14
  <2>3. Len(X) + 1 \in 1 .. Len(X) + 1
    BY <1>1, <1>5, <1>7
  <2> QED BY <2>1, <2>2, <2>3
<1> HIDE DEF qos
<1>20. ASSUME NEW i \in 1 .. Len(ts)
       PROVE  /\ qos[i] <= Len(X) /\ ~Short(X, qos[i]) /\ RecordAt(X, qos[i]) = ts[i]
              /\ qos[i + 1] = EndOf(X, qos[i]) + 1
  <2>1. CASE i = Len(rs) + 1
    <3>1. i \in 1 .. Len(rs) + 1 /\ i + 1 = Len(rs) + 2
      BY <1>5, <2>1
    <3>2. qos[i] = p /\ qos[i + 1] = Len(X) + 1 /\ ts[i] = r
      BY <1>8, <1>14, <1>15, <1>18, <2>1, <3>1
    <3> QED BY <1>9, <1>13, <3>2
  <2>2. CASE i # Len(rs) + 1
    <3>1. i \in 1 .. Len(rs) /\ i \in 1 .. Len(rs) + 1 /\ i + 1 \in 1 .. Len(rs) + 1
      BY <1>5, <1>14, <2>2
    <3>2. qos[i] = pos[i] /\ qos[i + 1] = pos[i + 1] /\ ts[i] = rs[i]
      BY <1>14, <1>18, <3>1
    <3> QED BY <1>3, <1>16, <3>1, <3>2, ChainFacts
  <2> QED BY <2>1, <2>2
<1>21. Chain(X, ts, qos)
  BY <1>19, <1>20 DEF Chain
<1>22. qos[1] = 1 /\ qos[Len(ts) + 1] = Len(X) + 1
  <2>1. 1 \in 1 .. Len(rs) + 1 /\ Len(ts) + 1 = Len(rs) + 2
    BY <1>5, <1>14
  <2> QED BY <1>15, <1>18, <2>1
<1>23. Is(X, ts)
  BY <1>21, <1>22 DEF Is
<1> QED BY <1>23 DEF X, ts, e

-----------------------------------------------------------------------------
(* What the records of a log are, before and after a step *)

LEMMA FirstWhole == ASSUME NEW S, NEW s \in Seq(S) PROVE First(s, Len(s)) = s
BY SubSeqFull DEF First

LEMMA FirstAppend ==
  ASSUME NEW s \in Seq(Log), NEW r \in Log, NEW n \in 0 .. Len(s)
  PROVE  First(Append(s, r), n) = First(s, n)
<1>1. /\ First(s, n) \in Seq(Log) /\ Len(First(s, n)) = n /\ n \in Nat /\ Len(s) \in Nat
      /\ \A i \in 1 .. n : First(s, n)[i] = s[i]
  BY FirstFacts
<1>2. /\ Append(s, r) \in Seq(Log) /\ Len(Append(s, r)) = Len(s) + 1
      /\ \A i \in 1 .. Len(s) : Append(s, r)[i] = s[i]
  BY AppendProperties
<1>3. n \in 0 .. Len(Append(s, r)) /\ \A i \in 1 .. n : i \in 1 .. Len(s)
  BY <1>1, <1>2
<1>4. /\ First(Append(s, r), n) \in Seq(Log) /\ Len(First(Append(s, r), n)) = n
      /\ \A i \in 1 .. n : First(Append(s, r), n)[i] = Append(s, r)[i]
  BY <1>2, <1>3, FirstFacts
<1> QED BY <1>1, <1>2, <1>3, <1>4, SeqEqual

LEMMA FitAppend ==
  ASSUME NEW s \in Seq(Log), NEW r \in Log, AllFit(Append(s, r))
  PROVE  AllFit(s) /\ Fits(r)
<1>1. /\ Len(s) \in Nat /\ DOMAIN s = 1 .. Len(s) /\ Append(s, r) \in Seq(Log)
      /\ Len(Append(s, r)) = Len(s) + 1 /\ Append(s, r)[Len(s) + 1] = r
      /\ \A i \in 1 .. Len(s) : Append(s, r)[i] = s[i]
  BY AppendProperties, LenProperties
<1>2. DOMAIN Append(s, r) = 1 .. Len(s) + 1
  BY <1>1, LenProperties
<1>3. \A i \in 1 .. Len(s) + 1 : Fits(Append(s, r)[i])
  BY <1>2 DEF AllFit
<1>4. \A i \in 1 .. Len(s) : i \in 1 .. Len(s) + 1
  BY <1>1
<1>5. Len(s) + 1 \in 1 .. Len(s) + 1
  BY <1>1
<1>6. Fits(r)
  BY <1>1, <1>3, <1>5
<1>7. \A i \in 1 .. Len(s) : Fits(s[i])
  BY <1>1, <1>3, <1>4
<1> QED BY <1>1, <1>6, <1>7 DEF AllFit

LEMMA FitConcat ==
  ASSUME NEW s \in Seq(Log), NEW u \in Seq(Log), AllFit(s \o u)
  PROVE  AllFit(s)
<1>1. /\ s \o u \in Seq(Log) /\ Len(s \o u) = Len(s) + Len(u)
      /\ \A i \in 1 .. Len(s) + Len(u) : (s \o u)[i] = IF i <= Len(s) THEN s[i] ELSE u[i - Len(s)]
  BY ConcatProperties
<1>2. Len(s) \in Nat /\ Len(u) \in Nat /\ DOMAIN s = 1 .. Len(s) /\ DOMAIN (s \o u) = 1 .. Len(s) + Len(u)
  BY <1>1, LenProperties
<1>3. \A i \in 1 .. Len(s) : i \in 1 .. Len(s) + Len(u) /\ i <= Len(s)
  BY <1>2
<1>4. \A i \in 1 .. Len(s) : (s \o u)[i] = s[i]
  BY <1>1, <1>3
<1>5. \A i \in 1 .. Len(s) : Fits((s \o u)[i])
  BY <1>2, <1>3 DEF AllFit
<1> QED BY <1>2, <1>4, <1>5 DEF AllFit

\* Bytes between the synced records and all records replay as what lies between them.
LEMMA ReplayBetween ==
  ASSUME NEW f, NEW X, Within(f, X), NEW s \in Seq(Log), NEW u \in Seq(Log),
         Holds(f, s), Is(X, s \o u), replay(f) # Corrupt
  PROVE  IsPrefix(s, replay(f)) /\ IsPrefix(replay(f), s \o u)
<1>1. f \in Seq(Byte) /\ s \o u \in Seq(Log)
  BY ConcatProperties DEF Within
<1>2. replay(f) \in Seq(Log) /\ Is(f, replay(f))
  BY <1>1, ReplayIs
<1>3. IsPrefix(s, replay(f))
  BY <1>1, <1>2, HoldsPrefix
<1>4. IsPrefix(replay(f), s \o u)
  BY <1>1, CutPrefix
<1> QED BY <1>3, <1>4

LEMMA BytesAssociative == \A a, b, c \in Seq(Byte) : (a \o b) \o c = a \o (b \o c)
BY ConcatAssociative

\* A part of what is waiting is written.
LEMMA PartWritten ==
  ASSUME NEW f \in Seq(Byte), NEW b \in Seq(Byte), NEW n \in 0 .. Len(b)
  PROVE  /\ f \o First(b, n) \in Seq(Byte) /\ Rest(b, n) \in Seq(Byte)
         /\ (f \o First(b, n)) \o Rest(b, n) = f \o b
         /\ Within(f, f \o First(b, n)) /\ Within(f \o First(b, n), f \o b)
<1>1. First(b, n) \in Seq(Byte) /\ Rest(b, n) \in Seq(Byte) /\ First(b, n) \o Rest(b, n) = b
  BY FirstRest
<1>2. f \o First(b, n) \in Seq(Byte)
  BY <1>1, ConcatProperties
<1>3. (f \o First(b, n)) \o Rest(b, n) = f \o b
  <2>1. (f \o First(b, n)) \o Rest(b, n) = f \o (First(b, n) \o Rest(b, n))
    BY <1>1, BytesAssociative, Zenon
  <2> QED BY <1>1, <2>1, Zenon
<1>4. Within(f, f \o First(b, n))
  BY <1>1, WithinConcat
<1>5. Within(f \o First(b, n), (f \o First(b, n)) \o Rest(b, n))
  BY <1>1, <1>2, WithinConcat
<1> QED BY <1>1, <1>2, <1>3, <1>4, <1>5

LEMMA RecordInLog == \A r \in Record : r \in Log
BY RecordAssumption

LEMMA BytesConcat ==
  ASSUME NEW a \in Seq(Byte), NEW b \in Seq(Byte) PROVE a \o b \in Seq(Byte)
BY ConcatProperties

LEMMA LogsConcat ==
  ASSUME NEW a \in Seq(Log), NEW b \in Seq(Log) PROVE a \o b \in Seq(Log)
BY ConcatProperties

\* Encode gives bytes for records that do not fit, too.
LEMMA EncodeBytes == ASSUME NEW r \in Log PROVE Encode(r) \in Seq(Byte)
<1>1. r.key \in Seq(Byte) /\ r.val \in Seq(Byte)
  BY DEF Log
<1>2. Size(r.key) \in Byte /\ Size(r.val) \in Byte
  <2>1. \A n \in Nat : n % Width \in Byte
    BY WidthTwo DEF Byte
  <2> QED BY <1>1, <2>1, LenProperties DEF Size
<1> DEFINE op == IF r.tombstone THEN DelOp ELSE PutOp
<1>3. op \in Byte
  BY WidthTwo
<1> HIDE DEF op
<1>4. <<op, Size(r.key), Size(r.val)>> \in Seq(Byte)
  BY <1>2, <1>3
<1>5. (<<op, Size(r.key), Size(r.val)>> \o r.key) \o r.val \in Seq(Byte)
  BY <1>1, <1>4, BytesConcat
<1> QED BY <1>5 DEF Encode, op

-----------------------------------------------------------------------------
(* The steps *)

LEMMA TypesOf ==
  ASSUME TypeOK
  PROVE  /\ file \in Seq(Byte) /\ buffer \in Seq(Byte) /\ synced \in Seq(Log) /\ unsynced \in Seq(Log)
         /\ file \o buffer \in Seq(Byte) /\ All \in Seq(Log)
         /\ Len(buffer) \in Nat /\ Len(synced) \in Nat /\ Len(unsynced) \in Nat
BY BytesConcat, LogsConcat, LenProperties DEF TypeOK, All

\* Bytes that are added disturb no synced record.
LEMMA SyncedKept ==
  ASSUME TypeOK, SyncedInv, Within(file, file'), synced' = synced,
         damage' # "inside" => damage # "inside"
  PROVE  SyncedInv'
<1> SUFFICES ASSUME damage' # "inside", NEW n \in 0 .. Len(synced), AllFit(First(synced, n))
             PROVE  Holds(file', First(synced, n))
  BY DEF SyncedInv
<1>1. Holds(file, First(synced, n))
  BY DEF SyncedInv
<1>2. First(synced, n) \in Seq(Log)
  BY TypesOf, FirstFacts
<1> QED BY <1>1, <1>2, HoldsWithin

LEMMA NoneInvented ==
  ASSUME TypeOK', SyncedInv', damage' = "none" => (AllFit(All') => \E X : Within(file', X) /\ Is(X, All'))
  PROVE  NothingInvented'
<1> SUFFICES ASSUME damage' = "none", AllFit(All'), replay(file') # Corrupt
             PROVE  IsPrefix(synced', replay(file')) /\ IsPrefix(replay(file'), All')
  BY DEF NothingInvented, All
<1>1. synced' \in Seq(Log) /\ unsynced' \in Seq(Log) /\ file' \in Seq(Byte) /\ All' = synced' \o unsynced'
  BY DEF TypeOK, All
<1>2. PICK X : Within(file', X) /\ Is(X, All')
  OBVIOUS
<1>3. Holds(file', synced')
  <2>1. AllFit(synced')
    BY <1>1, FitConcat
  <2>2. Len(synced') \in 0 .. Len(synced') /\ First(synced', Len(synced')) = synced'
    BY <1>1, FirstWhole, LenProperties
  <2> QED BY <2>1, <2>2 DEF SyncedInv
<1> QED BY <1>1, <1>2, <1>3, ReplayBetween

\* With a usable stream, file and buffer are what lies above the file.
LEMMA NoneInventedUsable ==
  ASSUME TypeOK', SyncedInv', AllInv', stream' \in {"good", "closed"}
  PROVE  NothingInvented'
<1>1. file' \in Seq(Byte) /\ buffer' \in Seq(Byte)
  BY DEF TypeOK
<1>2. Within(file', file' \o buffer')
  BY <1>1, WithinConcat
<1>3. damage' = "none" => (AllFit(All') => Is(file' \o buffer', All'))
  BY DEF AllInv
<1> QED BY <1>2, <1>3, NoneInvented

LEMMA InitHolds == Init => WALInv
<1> SUFFICES ASSUME Init PROVE WALInv
  OBVIOUS
<1>1. file = <<>> /\ buffer = <<>> /\ stream = "none" /\ synced = <<>> /\ unsynced = <<>> /\ damage = "none"
  BY DEF Init
<1>2. TypeOK /\ StreamInv
  BY <1>1 DEF TypeOK, StreamInv
<1>3. \A n \in 0 .. Len(<<>>) : First(<<>>, n) = <<>>
  <2>1. \A n \in 0 .. Len(<<>>) : n \in Int /\ n < 1
    OBVIOUS
  <2> QED BY <2>1, SubSeqEmpty DEF First
<1>4. SyncedInv
  BY <1>1, <1>3, NothingIs DEF SyncedInv
<1>5. AllInv
  BY <1>1 DEF AllInv
<1>6. NothingInvented
  <2>1. <<>> \o <<>> = <<>> /\ <<>> \in Seq(Log) /\ <<>> \in Seq(Byte)
    OBVIOUS
  <2>2. replay(<<>>) = <<>>
    BY <2>1, NothingIs, IsReplays
  <2>3. IsPrefix(<<>>, <<>>)
    BY DEF IsPrefix
  <2> QED BY <1>1, <2>1, <2>2, <2>3 DEF NothingInvented
<1> QED BY <1>2, <1>4, <1>5, <1>6 DEF WALInv

LEMMA WALKeeps == ASSUME WALInv, WAL PROVE WALInv'
<1>1. TypeOK' /\ StreamInv'
  BY DEF WALInv, WAL, TypeOK, StreamInv, Opened, historyVars
<1>2. SyncedInv' /\ NothingInvented'
  BY DEF WALInv, WAL, Opened, historyVars, SyncedInv, NothingInvented
<1>3. AllInv'
  BY DEF WAL, AllInv
<1> QED BY <1>1, <1>2, <1>3 DEF WALInv

LEMMA RecoverKeeps == ASSUME WALInv, Recover PROVE WALInv'
<1>1. TypeOK /\ StreamInv /\ SyncedInv /\ NothingInvented
  BY DEF WALInv
<1>2. stream = "opened" /\ file' = file /\ buffer' = buffer /\ buffer = <<>> /\ file \in Seq(Byte)
  BY <1>1 DEF Recover, StreamInv, TypeOK
<1>3. CASE replay(file) = Corrupt
  <2>1. stream' = "none" /\ synced' = synced /\ unsynced' = unsynced /\ damage' = damage
    BY <1>3 DEF Recover, historyVars
  <2>2. TypeOK' /\ StreamInv' /\ SyncedInv' /\ AllInv' /\ NothingInvented'
    BY <1>1, <1>2, <2>1 DEF TypeOK, StreamInv, SyncedInv, AllInv, NothingInvented
  <2> QED BY <2>2 DEF WALInv
<1>4. CASE replay(file) # Corrupt
  <2> DEFINE rs == replay(file)
  <2>1. stream' = "good" /\ synced' = rs /\ unsynced' = <<>> /\ damage' = "none"
    BY <1>4 DEF Recover
  <2>2. rs \in Seq(Log) /\ Is(file, rs)
    BY <1>2, <1>4, ReplayIs
  <2> HIDE DEF rs
  <2>3. All' = rs /\ file' \o buffer' = file
    <3>1. rs \o <<>> = rs /\ file \o <<>> = file
      BY <1>2, <2>2, ConcatEmptySeq
    <3> QED BY <1>2, <2>1, <3>1 DEF All
  <2>4. TypeOK' /\ StreamInv'
    BY <1>1, <1>2, <2>1, <2>2 DEF TypeOK, StreamInv
  <2>5. \A n \in 0 .. Len(rs) : Holds(file, First(rs, n))
    BY <1>2, <2>2, IsHolds, HoldsFirst
  <2>6. SyncedInv'
    BY <1>2, <2>1, <2>5 DEF SyncedInv
  <2>7. AllInv'
    BY <1>2, <2>2, <2>3, <2>5 DEF AllInv
  <2>8. NothingInvented'
    BY <2>1, <2>4, <2>6, <2>7, NoneInventedUsable
  <2> QED BY <2>4, <2>6, <2>7, <2>8 DEF WALInv
<1> QED BY <1>3, <1>4

LEMMA appendRecordKeeps == ASSUME WALInv, NEW r \in Record, appendRecord(r) PROVE WALInv'
<1>1. TypeOK /\ StreamInv /\ SyncedInv /\ AllInv
  BY DEF WALInv
<1>2. /\ file \in Seq(Byte) /\ buffer \in Seq(Byte) /\ synced \in Seq(Log) /\ unsynced \in Seq(Log)
      /\ All \in Seq(Log) /\ file \o buffer \in Seq(Byte) /\ r \in Log /\ Encode(r) \in Seq(Byte)
  BY <1>1, TypesOf, RecordInLog, EncodeBytes
<1> DEFINE bytes == buffer \o Encode(r)
<1>3. /\ stream = "good" /\ unsynced' = Append(unsynced, r) /\ synced' = synced
      /\ stream' = stream /\ damage' = damage
      /\ \E n \in 0 .. Len(bytes) : file' = file \o First(bytes, n) /\ buffer' = Rest(bytes, n)
  BY DEF appendRecord, Appending
<1>4. bytes \in Seq(Byte)
  BY <1>2, BytesConcat
<1> HIDE DEF bytes
<1>5. PICK n \in 0 .. Len(bytes) : file' = file \o First(bytes, n) /\ buffer' = Rest(bytes, n)
  BY <1>3
<1>6. /\ file' \in Seq(Byte) /\ buffer' \in Seq(Byte) /\ file' \o buffer' = file \o bytes
      /\ Within(file, file')
  BY <1>2, <1>4, <1>5, PartWritten
<1>7. file' \o buffer' = (file \o buffer) \o Encode(r)
  <2>1. file \o (buffer \o Encode(r)) = (file \o buffer) \o Encode(r)
    BY <1>2, BytesAssociative, Zenon
  <2> QED BY <1>6, <2>1 DEF bytes
<1>8. All' = Append(All, r) /\ unsynced' \in Seq(Log) /\ unsynced' # <<>>
  <2>1. /\ Append(unsynced, r) = unsynced \o <<r>> /\ Append(All, r) = All \o <<r>>
        /\ Append(unsynced, r) \in Seq(Log) /\ Append(unsynced, r) # <<>>
    BY <1>2, AppendIsConcat, AppendProperties
  <2>2. <<r>> \in Seq(Log)
    BY <1>2
  <2>3. synced \o (unsynced \o <<r>>) = (synced \o unsynced) \o <<r>>
    BY <1>2, <2>2, ConcatAssociative
  <2> QED BY <1>3, <2>1, <2>3 DEF All
<1>9. TypeOK' /\ StreamInv'
  BY <1>1, <1>3, <1>6, <1>8 DEF TypeOK, StreamInv
<1>10. SyncedInv'
  BY <1>1, <1>3, <1>6, SyncedKept
<1>11. AllInv'
  <2> SUFFICES ASSUME damage = "none"
               PROVE  /\ \A m \in 0 .. Len(All') : AllFit(First(All', m)) => Holds(file' \o buffer', First(All', m))
                      /\ AllFit(All') => Is(file' \o buffer', All')
    BY <1>3, <1>8 DEF AllInv
  <2>1. /\ \A m \in 0 .. Len(All) : AllFit(First(All, m)) => Holds(file \o buffer, First(All, m))
        /\ AllFit(All) => Is(file \o buffer, All)
    BY <1>1, <1>3 DEF AllInv
  <2>2. Within(file \o buffer, file' \o buffer')
    BY <1>2, <1>7, WithinConcat
  <2>3. AllFit(All') => Is(file' \o buffer', All')
    <3> SUFFICES ASSUME AllFit(All') PROVE Is(file' \o buffer', All')
      OBVIOUS
    <3>1. AllFit(All) /\ Fits(r)
      BY <1>2, <1>8, FitAppend
    <3>2. Is((file \o buffer) \o Encode(r), Append(All, r))
      BY <1>2, <2>1, <3>1, AppendIs
    <3> QED BY <1>7, <1>8, <3>2
  <2>4. Len(All') = Len(All) + 1 /\ Len(All) \in Nat /\ All' \in Seq(Log)
    BY <1>2, <1>8, AppendProperties, LenProperties
  <2>5. ASSUME NEW m \in 0 .. Len(All'), AllFit(First(All', m))
        PROVE  Holds(file' \o buffer', First(All', m))
    <3>1. CASE m = Len(All')
      <4>1. First(All', m) = All'
        BY <2>4, <3>1, FirstWhole
      <4>2. Is(file' \o buffer', All')
        BY <2>3, <2>5, <4>1
      <4> QED BY <4>1, <4>2, IsHolds
    <3>2. CASE m # Len(All')
      <4>1. m \in 0 .. Len(All)
        BY <2>4, <2>5, <3>2
      <4>2. First(All', m) = First(All, m) /\ First(All, m) \in Seq(Log)
        BY <1>2, <1>8, <4>1, FirstAppend, FirstFacts
      <4>3. Holds(file \o buffer, First(All, m))
        BY <2>1, <2>5, <4>1, <4>2
      <4> QED BY <2>2, <4>2, <4>3, HoldsWithin
    <3> QED BY <3>1, <3>2
  <2> QED BY <2>3, <2>5
<1>12. NothingInvented'
  BY <1>3, <1>9, <1>10, <1>11, NoneInventedUsable
<1> QED BY <1>9, <1>10, <1>11, <1>12 DEF WALInv

\* A write that fails leaves a log that nothing is claimed of but what was synced.
LEMMA BrokenKeeps ==
  ASSUME WALInv, Break, stream = "good", Within(file, file'),
         file' \in Seq(Byte), buffer' \in Seq(Byte), synced' = synced, unsynced' \in Seq(Log)
  PROVE  WALInv'
<1>1. TypeOK /\ StreamInv /\ SyncedInv
  BY DEF WALInv
<1>2. /\ stream' = "bad" /\ damage' \in {"tail", "inside"}
      /\ damage' # "inside" => damage # "inside"
  BY <1>1 DEF Break, TypeOK
<1>3. TypeOK' /\ StreamInv'
  BY <1>1, <1>2 DEF TypeOK, StreamInv
<1>4. SyncedInv'
  BY <1>1, <1>2, SyncedKept
<1>5. AllInv' /\ NothingInvented'
  BY <1>2 DEF AllInv, NothingInvented
<1> QED BY <1>3, <1>4, <1>5 DEF WALInv

LEMMA AppendFailsKeeps == ASSUME WALInv, NEW r \in Record, AppendFails(r) PROVE WALInv'
<1>1. /\ file \in Seq(Byte) /\ buffer \in Seq(Byte) /\ unsynced \in Seq(Log)
      /\ r \in Log /\ Encode(r) \in Seq(Byte) /\ buffer \o Encode(r) \in Seq(Byte)
  BY TypesOf, RecordInLog, EncodeBytes, BytesConcat DEF WALInv
<1> DEFINE bytes == buffer \o Encode(r)
<1>2. /\ stream = "good" /\ unsynced' = Append(unsynced, r) /\ synced' = synced /\ Break
      /\ \E done, sent, kept \in 0 .. Len(bytes) :
           /\ file' = file \o First(bytes, sent)
           /\ buffer' = SubSeq(bytes, done + 1, kept)
  BY DEF AppendFails, Appending
<1> HIDE DEF bytes
<1>3. PICK done \in 0 .. Len(bytes), sent \in 0 .. Len(bytes), kept \in 0 .. Len(bytes) :
        file' = file \o First(bytes, sent) /\ buffer' = SubSeq(bytes, done + 1, kept)
  BY <1>2
<1>4. bytes \in Seq(Byte)
  BY <1>1 DEF bytes
<1>5. file' \in Seq(Byte) /\ Within(file, file')
  BY <1>1, <1>3, <1>4, PartWritten
<1>6. buffer' \in Seq(Byte)
  <2>1. Len(bytes) \in Nat
    BY <1>4, LenProperties
  <2>2. done + 1 \in Int /\ kept \in Int /\ \A i \in done + 1 .. kept : i \in 1 .. Len(bytes)
    BY <2>1
  <2>3. \A i \in done + 1 .. kept : bytes[i] \in Byte
    BY <1>4, <2>2, ElementOfSeq
  <2>4. SubSeq(bytes, done + 1, kept) \in Seq(Byte)
    BY <2>2, <2>3, SubSeqProperties
  <2> QED BY <1>3, <2>4
<1>7. unsynced' \in Seq(Log)
  BY <1>1, <1>2, AppendProperties
<1> QED BY <1>2, <1>5, <1>6, <1>7, BrokenKeeps

LEMMA SyncFailsKeeps == ASSUME WALInv, SyncFails PROVE WALInv'
<1>1. file \in Seq(Byte) /\ buffer \in Seq(Byte) /\ unsynced \in Seq(Log) /\ Len(buffer) \in Nat
  BY TypesOf DEF WALInv
<1>2. PICK sent \in 0 .. Len(buffer) - 1 : file' = file \o First(buffer, sent)
  BY DEF SyncFails
<1>3. sent \in 0 .. Len(buffer)
  BY <1>1
<1>4. file' \in Seq(Byte) /\ Within(file, file')
  BY <1>1, <1>2, <1>3, PartWritten
<1>5. stream = "good" /\ Break /\ buffer' = buffer /\ synced' = synced /\ unsynced' = unsynced
  BY DEF SyncFails
<1> QED BY <1>1, <1>4, <1>5, BrokenKeeps

LEMMA syncKeeps == ASSUME WALInv, sync PROVE WALInv'
<1>1. TypeOK /\ StreamInv /\ SyncedInv /\ AllInv
  BY DEF WALInv
<1>2. /\ file \in Seq(Byte) /\ buffer \in Seq(Byte) /\ synced \in Seq(Log) /\ unsynced \in Seq(Log)
      /\ All \in Seq(Log) /\ file \o buffer \in Seq(Byte)
  BY <1>1, TypesOf
<1>3. /\ stream = "good" /\ stream' = stream /\ damage' = damage /\ file' = file \o buffer
      /\ buffer' = <<>> /\ synced' = All /\ unsynced' = <<>>
  BY DEF sync, All
<1>4. All' = All /\ file' \o buffer' = file \o buffer
  <2>1. All \o <<>> = All /\ (file \o buffer) \o <<>> = file \o buffer
    BY <1>2, ConcatEmptySeq
  <2>2. All' = synced' \o unsynced'
    BY DEF All
  <2> QED BY <1>3, <2>1, <2>2
<1>5. TypeOK' /\ StreamInv'
  BY <1>1, <1>2, <1>3 DEF TypeOK, StreamInv
<1>6. damage # "inside" => damage = "none"
  BY <1>1, <1>3 DEF TypeOK, StreamInv
<1>7. SyncedInv'
  BY <1>1, <1>3, <1>6 DEF SyncedInv, AllInv
<1>8. AllInv'
  BY <1>1, <1>3, <1>4 DEF AllInv
<1>9. NothingInvented'
  BY <1>3, <1>5, <1>7, <1>8, NoneInventedUsable
<1> QED BY <1>5, <1>7, <1>8, <1>9 DEF WALInv

\* A log that is truncated is empty; one that was not, and that claims to be whole, had
\* nothing waiting.
LEMMA resetKeeps == ASSUME WALInv, reset PROVE WALInv'
<1>1. TypeOK /\ StreamInv /\ SyncedInv /\ AllInv
  BY DEF WALInv
<1>2. /\ file \in Seq(Byte) /\ buffer \in Seq(Byte) /\ synced \in Seq(Log)
      /\ file \o buffer \in Seq(Byte) /\ All \in Seq(Log)
  BY <1>1, TypesOf
<1>3. /\ stream \in {"good", "bad", "closed"} /\ (stream = "good" => unsynced = <<>>)
      /\ buffer' = <<>> /\ unsynced' = <<>> /\ stream' \in {"good", "closed"}
  BY DEF reset
<1>4. PICK n \in 0 .. Len(buffer) :
        \/ /\ file' = <<>> /\ synced' = <<>> /\ damage' = "none"
        \/ /\ file' = file \o First(buffer, n) /\ synced' = synced
           /\ damage' = IF stream = "bad" THEN "inside" ELSE damage
  BY DEF reset, Sent, Truncated
<1>5. CASE file' = <<>> /\ synced' = <<>> /\ damage' = "none"
  <2>1. TypeOK' /\ StreamInv'
    BY <1>3, <1>5 DEF TypeOK, StreamInv
  <2>2. <<>> \o <<>> = <<>> /\ <<>> \in Seq(Log) /\ <<>> \in Seq(Byte)
    OBVIOUS
  <2>3. All' = <<>> /\ file' \o buffer' = <<>>
    BY <1>3, <1>5, <2>2 DEF All
  <2>4. \A m \in 0 .. Len(<<>>) : Holds(<<>>, First(<<>>, m))
    BY <2>2, NothingIs, HoldsFirst
  <2>5. SyncedInv'
    BY <1>5, <2>4 DEF SyncedInv
  <2>6. AllInv'
    BY <1>3, <2>3, <2>4, NothingIs DEF AllInv
  <2>7. NothingInvented'
    BY <1>3, <2>1, <2>5, <2>6, NoneInventedUsable
  <2> QED BY <2>1, <2>5, <2>6, <2>7 DEF WALInv
<1>6. CASE /\ file' = file \o First(buffer, n) /\ synced' = synced
           /\ damage' = IF stream = "bad" THEN "inside" ELSE damage
  <2>1. file' \in Seq(Byte) /\ Within(file, file')
    BY <1>2, <1>6, PartWritten
  <2>2. damage' \in {"none", "tail", "inside"} /\ (damage' # "inside" => stream # "bad" /\ damage' = damage)
    BY <1>1, <1>6 DEF TypeOK
  <2>3. TypeOK'
    BY <1>1, <1>3, <1>6, <2>1, <2>2 DEF TypeOK
  <2>4. StreamInv'
    BY <1>1, <1>3, <2>2 DEF StreamInv
  <2>5. SyncedInv'
    BY <1>1, <1>6, <2>1, <2>2, SyncedKept
  <2>6. AllInv'
    <3> SUFFICES ASSUME damage' = "none"
                 PROVE  /\ \A m \in 0 .. Len(All') : AllFit(First(All', m)) => Holds(file' \o buffer', First(All', m))
                        /\ AllFit(All') => Is(file' \o buffer', All')
      BY <1>3 DEF AllInv
    <3>1. stream \in {"good", "closed"} /\ damage = "none"
      BY <1>3, <2>2
    <3>2. unsynced = <<>> /\ buffer = <<>>
      BY <1>1, <1>3, <3>1 DEF StreamInv, AllInv
    <3>3. All' = All
      BY <1>3, <1>6, <3>2 DEF All
    <3>4. file' \o buffer' = file \o buffer
      <4>1. Len(buffer) = 0 /\ n = 0
        BY <3>2
      <4>2. First(buffer, n) = <<>>
        BY <4>1, SubSeqEmpty DEF First
      <4> QED BY <1>3, <1>6, <3>2, <4>2, <1>2, ConcatEmptySeq
    <3> QED BY <1>1, <3>1, <3>3, <3>4 DEF AllInv
  <2>7. NothingInvented'
    BY <1>3, <2>3, <2>5, <2>6, NoneInventedUsable
  <2> QED BY <2>3, <2>4, <2>5, <2>6, <2>7 DEF WALInv
<1> QED BY <1>4, <1>5, <1>6

\* However little of the buffer is written, the file lies between the synced records and
\* all of them.
LEMMA CloseKeeps == ASSUME WALInv, Close PROVE WALInv'
<1>1. TypeOK /\ StreamInv /\ SyncedInv /\ AllInv /\ NothingInvented
  BY DEF WALInv
<1>2. file \in Seq(Byte) /\ buffer \in Seq(Byte) /\ synced \in Seq(Log) /\ unsynced \in Seq(Log)
  BY <1>1, TypesOf
<1>3. /\ stream # "none" /\ buffer' = <<>> /\ stream' = "none"
      /\ synced' = synced /\ unsynced' = unsynced /\ damage' = damage
  BY DEF Close, historyVars
<1>4. PICK n \in 0 .. Len(buffer) : file' = file \o First(buffer, n)
  BY DEF Close
<1>5. file' \in Seq(Byte) /\ Within(file, file') /\ Within(file', file \o buffer)
  BY <1>2, <1>4, PartWritten
<1>6. TypeOK' /\ StreamInv'
  BY <1>1, <1>3, <1>5 DEF TypeOK, StreamInv
<1>7. SyncedInv'
  BY <1>1, <1>3, <1>5, SyncedKept
<1>8. AllInv'
  BY <1>3 DEF AllInv
<1>9. NothingInvented'
  <2>1. CASE stream = "opened"
    <3>1. buffer = <<>>
      BY <1>1, <2>1 DEF StreamInv
    <3>2. Len(buffer) = 0 /\ n = 0
      BY <3>1
    <3>3. First(buffer, n) = <<>>
      BY <3>2, SubSeqEmpty DEF First
    <3>4. file' = file
      BY <1>2, <1>4, <3>3, ConcatEmptySeq
    <3> QED BY <1>1, <1>3, <3>4 DEF NothingInvented
  <2>2. CASE stream = "bad"
    BY <1>1, <1>3, <2>2 DEF StreamInv, NothingInvented
  <2>3. CASE stream \in {"good", "closed"}
    <3>1. All' = All
      BY <1>3 DEF All
    <3>2. damage' = "none" => (AllFit(All') => Is(file \o buffer, All'))
      BY <1>1, <1>3, <2>3, <3>1 DEF AllInv
    <3> QED BY <1>5, <1>6, <1>7, <3>2, NoneInvented
  <2> QED BY <1>1, <1>3, <2>1, <2>2, <2>3 DEF TypeOK
<1> QED BY <1>6, <1>7, <1>8, <1>9 DEF WALInv

LEMMA StutterKeeps == ASSUME WALInv, UNCHANGED vars PROVE WALInv'
<1>1. /\ file' = file /\ buffer' = buffer /\ stream' = stream
      /\ synced' = synced /\ unsynced' = unsynced /\ damage' = damage
  BY DEF vars, historyVars
<1>2. All' = All
  BY <1>1 DEF All
<1>3. TypeOK' /\ StreamInv' /\ SyncedInv' /\ AllInv' /\ NothingInvented'
  BY <1>1, <1>2 DEF WALInv, TypeOK, StreamInv, SyncedInv, AllInv, NothingInvented
<1> QED BY <1>3 DEF WALInv

-----------------------------------------------------------------------------
(* Theorems *)

LEMMA WALInvariant == Spec => []WALInv
<1>1. ASSUME WALInv, [Next]_vars PROVE WALInv'
  <2>1. CASE Next
    BY <1>1, <2>1, WALKeeps, RecoverKeeps, appendRecordKeeps, AppendFailsKeeps, syncKeeps,
       SyncFailsKeeps, resetKeeps, CloseKeeps DEF Next
  <2>2. CASE UNCHANGED vars
    BY <1>1, <2>2, StutterKeeps
  <2> QED BY <1>1, <2>1, <2>2
<1> QED BY <1>1, InitHolds, PTL DEF Spec

\* The log is made of bytes, however much of a write is done and however large a record is.
THEOREM LogTyped == Spec => []TypeOK
<1>1. WALInv => TypeOK
  BY DEF WALInv
<1> QED BY <1>1, WALInvariant, PTL

\* "If program crashes, data can be recovered from log files": replay has the synced
\* records first or throws, whatever writes fail and whatever the sizes of the fields.
THEOREM SyncedStay == Spec => []SyncedSurvive
<1>1. ASSUME WALInv PROVE SyncedSurvive
  <2>1. file \in Seq(Byte) /\ synced \in Seq(Log) /\ SyncedInv
    BY <1>1, TypesOf DEF WALInv
  <2> SUFFICES ASSUME damage # "inside", replay(file) # Corrupt,
                      NEW n \in 0 .. Len(synced), AllFit(First(synced, n))
               PROVE  IsPrefix(First(synced, n), replay(file))
    BY DEF SyncedSurvive
  <2>2. Holds(file, First(synced, n)) /\ First(synced, n) \in Seq(Log)
    BY <2>1, FirstFacts DEF SyncedInv
  <2>3. replay(file) \in Seq(Log) /\ Is(file, replay(file))
    BY <2>1, ReplayIs
  <2> QED BY <2>1, <2>2, <2>3, HoldsPrefix
<1> QED BY <1>1, WALInvariant, PTL

\* No part of a record is taken for one, whatever byte a crash cuts the log at.
THEOREM NoneIsInvented == Spec => []NothingInvented
<1>1. WALInv => NothingInvented
  BY DEF WALInv
<1> QED BY <1>1, WALInvariant, PTL

\* A log no write failed on replays as exactly the records appended, in their order.
THEOREM LogComplete == Spec => []LogReplays
<1>1. ASSUME WALInv PROVE LogReplays
  <2> SUFFICES ASSUME stream = "good", damage = "none", AllFit(All) PROVE replay(file \o buffer) = All
    BY DEF LogReplays, All
  <2>1. file \o buffer \in Seq(Byte) /\ All \in Seq(Log) /\ AllInv
    BY <1>1, TypesOf DEF WALInv
  <2>2. Is(file \o buffer, All)
    BY <2>1 DEF AllInv
  <2> QED BY <2>1, <2>2, IsReplays
<1> QED BY <1>1, WALInvariant, PTL
=============================================================================
