--------------------------- MODULE SSTable_proofs ---------------------------
(***************************************************************************)
(* What SSTable.tla states of a table file and its object, for every set   *)
(* of keys, every pair of hashes and every size of the filter: a lookup    *)
(* through the Bloom filter and the index, or by a scan, and a load of the *)
(* whole file tell the truth about the map that was written, and a file    *)
(* and an object answer as CauliBase.tla assumes they do.                  *)
(***************************************************************************)
EXTENDS SSTable, WellOrder_proofs, FiniteSetTheorems, SequenceTheorems

-----------------------------------------------------------------------------
(* The inductive invariant *)

\* The records of the file: in the order of their keys, with what the map has for
\* them, and none left out below the last one.
RecsInv ==
  /\ \A p, q \in DOMAIN file.recs : p < q => file.recs[p].key < file.recs[q].key
  /\ \A p \in DOMAIN file.recs : /\ file.recs[p].key \in Keys(source)
                                 /\ file.recs[p].rec = source[file.recs[p].key]
  /\ \A p \in DOMAIN file.recs : \A k \in Remaining : file.recs[p].key < k

\* The header, and what a file without one cannot have.
HeaderInv ==
  /\ file.count \in {NoHeader, Cardinality(Keys(source))}
  /\ file.count = NoHeader => file.recs = <<>> /\ file.meta = NoMeta

\* The metadata m tells all keys of the map in their order, with the places of their
\* records, and no key is missing in its filter; the file may have been cut since.
Faithful(m) ==
  /\ m \in Metadata
  /\ \A p, q \in DOMAIN m.index : p < q => m.index[p].key < m.index[q].key
  /\ \A p \in DOMAIN m.index : /\ m.index[p].key \in Keys(source)
                               /\ m.index[p].offset = p
                               /\ Probes(m.index[p].key, m.bitCount) \subseteq m.bits
  /\ \A k \in Keys(source) : \E p \in DOMAIN m.index : m.index[p].key = k
  /\ \A p \in DOMAIN file.recs : p \in DOMAIN m.index /\ m.index[p].key = file.recs[p].key

\* What writeFromMap has collected when it is at a step of its own.
BuiltInv ==
  pc \in {"header", "write", "seal"} =>
    /\ file.there /\ file.meta = NoMeta
    /\ built \in Metadata
    /\ DOMAIN built.index = DOMAIN file.recs
    /\ \A p \in DOMAIN file.recs :
         /\ built.index[p] = [key |-> file.recs[p].key, offset |-> p]
         /\ Probes(file.recs[p].key, built.bitCount) \subseteq built.bits
    /\ (pc = "header") <=> (file.count = NoHeader)
    /\ pc = "seal" => Remaining = {}

\* A footer that is there came last; an object that has looked for it knows it.
MetaInv ==
  /\ file.meta # NoMeta => Faithful(file.meta) /\ Remaining = {}
  /\ pc = "open" => \/ cache = Unread
                    \/ cache = NoMeta /\ file.meta = NoMeta
                    \/ Faithful(cache)

SSTableInv == /\ TypeOK /\ RecsInv /\ HeaderInv /\ BuiltInv /\ MetaInv
              /\ ~file.there => file = NoFile

-----------------------------------------------------------------------------
(* Numbers and sets *)

LEMMA MinOf ==
  ASSUME NEW n \in Nat, NEW S, S \subseteq 1 .. n, S # {}
  PROVE  Min(S) \in S /\ \A p \in S : Min(S) <= p
<1>0. 1 \in Int /\ n \in Int
  OBVIOUS
<1>1. \E m \in S : \A p \in S : m <= p
  BY <1>0, LeastInRange
<1> QED BY <1>1 DEF Min

LEMMA MaxOf ==
  ASSUME NEW n \in Nat, NEW S, S \subseteq 1 .. n, S # {}
  PROVE  Max(S) \in S /\ \A p \in S : p <= Max(S)
<1>0. 1 \in Int /\ n \in Int
  OBVIOUS
<1>1. PICK m \in S : \A p \in S : p <= m
  BY <1>0, GreatestInRange
<1>2. \A p \in S : m >= p
  BY <1>0, <1>1
<1>3. Max(S) \in S /\ \A p \in S : Max(S) >= p
  BY <1>2 DEF Max
<1> QED BY <1>0, <1>3

LEMMA KeysFinite ==
  ASSUME NEW map PROVE IsFiniteSet(Keys(map)) /\ Cardinality(Keys(map)) \in Nat
<1>1. Keys(map) \in SUBSET Key
  BY DEF Keys
<1> QED BY <1>1, KeyAssumption, FS_Subset, FS_CardinalityType

\* Every filter has a bit, and every key's bits are numbers.
LEMMA BitCount == ASSUME NEW n \in Nat PROVE bloomBitCount(n) \in Nat \ {0}
<1> DEFINE S == {MinBits, n * BitsPerRecord}
           b == IF MinBits <= n * BitsPerRecord THEN n * BitsPerRecord ELSE MinBits
<1>1. MinBits \in Nat \ {0} /\ BitsPerRecord \in Nat
  BY BloomAssumption
<1>2. n * BitsPerRecord \in Nat
  BY <1>1
<1>3. b \in S /\ \A x \in S : b >= x
  BY <1>1, <1>2
<1>4. Max(S) \in S /\ \A x \in S : Max(S) >= x
  <2> HIDE DEF S
  <2> QED BY <1>3 DEF Max
<1>5. MinBits \in S /\ S \subseteq Nat
  BY <1>1, <1>2
<1>6. Max(S) \in Nat /\ Max(S) >= MinBits
  <2> HIDE DEF S
  <2> QED BY <1>4, <1>5
<1> QED BY <1>1, <1>6 DEF bloomBitCount

LEMMA ProbesAreNumbers ==
  ASSUME NEW k \in Key, NEW b \in Nat \ {0} PROVE Probes(k, b) \subseteq Nat
<1>1. Word \in Nat \ {0} /\ First[k] \in Nat /\ Second[k] \in Nat
  BY HashAssumption
<1> DEFINE second == IF Second[k] % 2 = 0 THEN Second[k] + 1 ELSE Second[k]
<1>2. second \in Nat
  BY <1>1
<1>3. ASSUME NEW i \in 0 .. HashCount - 1
      PROVE  ((First[k] + i * second) % Word) % b \in Nat
  <2>1. i \in Nat
    BY BloomAssumption
  <2> HIDE DEF second
  <2>2. i * second \in Nat
    BY <1>2, <2>1
  <2>3. First[k] + i * second \in Nat
    BY <1>1, <2>2
  <2> DEFINE n == First[k] + i * second
  <2> HIDE DEF n
  <2>4. n % Word \in Nat
    BY <1>1, <2>3 DEF n
  <2>5. (n % Word) % b \in Nat
    BY <2>4
  <2> QED BY <2>5 DEF n
<1> HIDE DEF second
<1>4. Probes(k, b) = {((First[k] + i * second) % Word) % b : i \in 0 .. HashCount - 1}
  BY DEF Probes, second
<1> QED BY <1>3, <1>4

-----------------------------------------------------------------------------
(* How much of the file is there *)

LEMMA RecsAreSeq ==
  ASSUME SSTableInv
  PROVE  /\ file.recs \in Seq(Entry) /\ Len(file.recs) \in Nat
         /\ DOMAIN file.recs = 1 .. Len(file.recs)
         /\ \A p \in DOMAIN file.recs : file.recs[p].key \in Key /\ file.recs[p].key \in Int
<1>1. file.recs \in Seq(Entry)
  BY DEF SSTableInv, TypeOK
<1>2. \A p \in 1 .. Len(file.recs) : file.recs[p] \in Entry
  BY <1>1
<1>3. \A p \in 1 .. Len(file.recs) : file.recs[p].key \in Key
  BY <1>2 DEF Entry
<1>4. \A k \in Key : k \in Int
  BY KeyAssumption
<1>5. Len(file.recs) \in Nat /\ DOMAIN file.recs = 1 .. Len(file.recs)
  BY <1>1
<1> QED BY <1>1, <1>3, <1>4, <1>5

\* A file has no more records than the map, and as many only when it has them all.
LEMMA WholeWhenAll ==
  ASSUME SSTableInv
  PROVE  /\ Len(file.recs) <= Cardinality(Keys(source))
         /\ Len(file.recs) = Cardinality(Keys(source)) <=> Remaining = {}
<1> DEFINE Written == {file.recs[p].key : p \in DOMAIN file.recs}
           f == [p \in 1 .. Len(file.recs) |-> file.recs[p].key]
<1>1. /\ Len(file.recs) \in Nat /\ DOMAIN file.recs = 1 .. Len(file.recs)
      /\ \A p \in DOMAIN file.recs : file.recs[p].key \in Int
  BY RecsAreSeq
<1>2. IsFiniteSet(Keys(source)) /\ Cardinality(Keys(source)) \in Nat
  BY KeysFinite
<1>3. f \in [1 .. Len(file.recs) -> Written] /\ \A y \in Written : \E p \in 1 .. Len(file.recs) : f[p] = y
  BY <1>1
<1>4. \A p, q \in 1 .. Len(file.recs) : f[p] = f[q] => p = q
  <2>1. \A p, q \in 1 .. Len(file.recs) : p < q => file.recs[p].key < file.recs[q].key
    BY <1>1 DEF SSTableInv, RecsInv
  <2>2. \A p \in 1 .. Len(file.recs) : f[p] = file.recs[p].key /\ f[p] \in Int
    BY <1>1
  <2> HIDE DEF f
  <2>3. \A p, q \in 1 .. Len(file.recs) : p < q => f[p] < f[q]
    BY <2>1, <2>2
  <2>4. \A p, q \in 1 .. Len(file.recs) : p = q \/ p < q \/ q < p
    BY <1>1
  <2> QED BY <2>2, <2>3, <2>4
<1>5. f \in Bijection(1 .. Len(file.recs), Written)
  BY <1>3, <1>4 DEF Bijection, Injection, Surjection, IsInjective
<1>6. IsFiniteSet(1 .. Len(file.recs)) /\ Cardinality(1 .. Len(file.recs)) = Len(file.recs)
  BY <1>1, FS_Interval
<1>7. IsFiniteSet(Written) /\ Cardinality(Written) = Len(file.recs)
  BY <1>5, <1>6, FS_Bijection DEF ExistsBijection
<1>8. Written \in SUBSET Keys(source)
  BY DEF SSTableInv, RecsInv
<1>9. Remaining = Keys(source) \ Written
  BY DEF Remaining
<1> HIDE DEF Written
<1>10. /\ Cardinality(Written) <= Cardinality(Keys(source))
       /\ Cardinality(Keys(source)) = Cardinality(Written) => Keys(source) = Written
  BY <1>2, <1>8, FS_Subset
<1>11. Remaining = {} <=> Keys(source) = Written
  BY <1>8, <1>9
<1> QED BY <1>7, <1>10, <1>11

\* A file is cut when it lacks its header or a record that the map has.
LEMMA CutWhenMissing ==
  ASSUME SSTableInv, file.there
  PROVE  /\ Cut <=> file.count = NoHeader \/ Remaining # {}
         /\ file.count # NoHeader => file.count \in Nat /\ Len(file.recs) <= file.count
<1>1. Cardinality(Keys(source)) \in Nat /\ Len(file.recs) \in Nat
  BY KeysFinite, RecsAreSeq
<1>2. file.count = NoHeader \/ file.count = Cardinality(Keys(source))
  BY DEF SSTableInv, HeaderInv
<1> QED BY <1>1, <1>2, WholeWhenAll DEF Cut

-----------------------------------------------------------------------------
(* What the readers find *)

\* A key whose record is not in the file is not in the map, or the file is cut.
LEMMA NotInFile ==
  ASSUME SSTableInv, NEW k \in Key, k \notin Remaining,
         \A p \in DOMAIN file.recs : file.recs[p].key # k
  PROVE  source[k] = Absent
BY DEF Remaining, Keys

\* The scan: it stops at the key, at a larger one or at the end of what is there, and
\* fails only when it gets to the end of a file that is cut.
LEMMA ScanTrue ==
  ASSUME SSTableInv, file.there, NEW k \in Key
  PROVE  ScanGet(k) = IF Cut /\ \A p \in DOMAIN file.recs : file.recs[p].key < k
                      THEN Error ELSE source[k]
<1> DEFINE stops == {p \in 1 .. file.count : \/ p \notin DOMAIN file.recs
                                             \/ file.recs[p].key >= k}
           m == Min(stops)
<1>1. CASE file.count = NoHeader
  <2>1. Cut /\ file.recs = <<>>
    BY <1>1, CutWhenMissing DEF SSTableInv, HeaderInv
  <2>2. DOMAIN file.recs = {}
    BY <2>1
  <2> QED BY <1>1, <2>1, <2>2 DEF ScanGet
<1>2. CASE file.count # NoHeader
  <2>1. file.count \in Nat /\ Len(file.recs) <= file.count
    BY <1>2, CutWhenMissing
  <2>2. /\ Len(file.recs) \in Nat /\ DOMAIN file.recs = 1 .. Len(file.recs)
        /\ \A p \in DOMAIN file.recs : file.recs[p].key \in Int
        /\ k \in Int
    BY RecsAreSeq, KeyAssumption
  <2>3. \A p \in DOMAIN file.recs : p \in 1 .. file.count
    BY <2>1, <2>2
  <2>4. file.count = Cardinality(Keys(source))
    BY <1>2 DEF SSTableInv, HeaderInv
  <2>5. ScanGet(k) = IF stops = {} THEN Absent
                     ELSE IF m \notin DOMAIN file.recs THEN Error
                     ELSE IF file.recs[m].key = k THEN file.recs[m].rec ELSE Absent
    BY <1>2 DEF ScanGet
  <2> HIDE DEF m
  <2>6. CASE stops = {}
    <3>1. \A p \in 1 .. file.count : p \in DOMAIN file.recs /\ ~(file.recs[p].key >= k)
      BY <2>6
    <3>2. Len(file.recs) = file.count
      <4>1. CASE file.count = 0
        BY <2>1, <2>2, <4>1
      <4>2. CASE file.count # 0
        <5>1. file.count \in 1 .. file.count
          BY <2>1, <4>2
        <5> QED BY <2>1, <2>2, <3>1, <5>1
      <4> QED BY <4>1, <4>2
    <3>3. Remaining = {}
      BY <2>4, <3>2, WholeWhenAll
    <3>4. \A p \in DOMAIN file.recs : file.recs[p].key # k
      BY <2>2, <2>3, <3>1
    <3>5. source[k] = Absent
      BY <3>3, <3>4, NotInFile
    <3>6. ~Cut
      BY <1>2, <3>3, CutWhenMissing
    <3> QED BY <2>5, <2>6, <3>5, <3>6
  <2>7. CASE stops # {}
    <3>1. m \in stops /\ \A p \in stops : m <= p
      BY <2>1, <2>7, MinOf DEF m
    <3>2. CASE m \notin DOMAIN file.recs
      <4>1. Len(file.recs) # file.count
        BY <2>1, <2>2, <3>1, <3>2
      <4>2. Cut
        BY <2>4, <4>1, WholeWhenAll, CutWhenMissing
      <4>3. ASSUME NEW p \in DOMAIN file.recs PROVE file.recs[p].key < k
        <5>1. p \notin stops
          BY <2>1, <2>2, <2>3, <3>1, <3>2
        <5> QED BY <2>2, <2>3, <5>1
      <4> QED BY <2>5, <2>7, <3>2, <4>2, <4>3
    <3>3. CASE m \in DOMAIN file.recs /\ file.recs[m].key = k
      <4>1. file.recs[m].rec = source[k]
        BY <3>3 DEF SSTableInv, RecsInv
      <4>2. ~(file.recs[m].key < k)
        BY <2>2, <3>3
      <4> QED BY <2>5, <2>7, <3>3, <4>1, <4>2
    <3>4. CASE m \in DOMAIN file.recs /\ file.recs[m].key # k
      <4>1. file.recs[m].key > k
        BY <2>2, <3>1, <3>4
      <4>2. k \notin Remaining
        BY <2>2, <3>4, <4>1 DEF SSTableInv, RecsInv
      <4>3. ASSUME NEW p \in DOMAIN file.recs PROVE file.recs[p].key # k
        <5>1. CASE p < m
          BY <2>2, <2>3, <3>1, <5>1
        <5>2. CASE p = m
          BY <3>4, <5>2
        <5>3. CASE m < p
          BY <2>2, <3>4, <4>1, <5>3 DEF SSTableInv, RecsInv
        <5> QED BY <2>1, <2>2, <3>1, <5>1, <5>2, <5>3
      <4>4. source[k] = Absent
        BY <4>2, <4>3, NotInFile
      <4>5. ~(file.recs[m].key < k)
        BY <2>2, <3>4, <4>1
      <4> QED BY <2>5, <2>7, <3>4, <4>4, <4>5
    <3> QED BY <3>2, <3>3, <3>4
  <2> QED BY <2>6, <2>7
<1> QED BY <1>1, <1>2

\* Filter and index: the filter denies no key of the map, lower_bound finds it, and its
\* offset is its record's; the read fails only for a record that was cut off.
LEMMA IndexTrue ==
  ASSUME SSTableInv, file.there, NEW m, Faithful(m), NEW k \in Key
  PROVE  IndexGet(m, k) = IF k \in Remaining THEN Error ELSE source[k]
<1>1. /\ m.index \in Seq(IndexEntry) /\ Len(m.index) \in Nat
      /\ DOMAIN m.index = 1 .. Len(m.index)
      /\ \A p \in DOMAIN m.index : m.index[p].key \in Int /\ m.index[p].offset = p
  <2>1. m.index \in Seq(IndexEntry)
    BY DEF Faithful, Metadata
  <2>2. Len(m.index) \in Nat /\ DOMAIN m.index = 1 .. Len(m.index)
    BY <2>1
  <2>3. \A p \in DOMAIN m.index : m.index[p].key \in Key
    BY DEF Faithful, Keys
  <2> QED BY <2>1, <2>2, <2>3, KeyAssumption DEF Faithful
<1> DEFINE from == {p \in DOMAIN m.index : m.index[p].key >= k}
           l == LowerBound(m, k)
<1>2. l = IF from = {} THEN 0 ELSE Min(from)
  BY DEF LowerBound
<1>3. from # {} => l \in DOMAIN m.index /\ m.index[l].key >= k /\ \A p \in from : l <= p
  BY <1>1, <1>2, MinOf
<1>4. IndexGet(m, k) = IF ~bloomMayContain(m, k) \/ l = 0 THEN Absent
                       ELSE IF m.index[l].key # k THEN Absent ELSE readRecord(l)
  BY <1>1, <1>2, <1>3 DEF IndexGet
<1>5. CASE k \in Keys(source)
  <2>1. PICK p \in DOMAIN m.index : m.index[p].key = k
    BY <1>5 DEF Faithful
  <2>2. p \in from
    BY <1>1, <2>1
  <2>3. l = p
    <3>1. l \in DOMAIN m.index /\ m.index[l].key >= k /\ l <= p
      BY <1>3, <2>2
    <3>2. ~(l < p)
      BY <1>1, <2>1, <3>1 DEF Faithful
    <3> QED BY <1>1, <3>1, <3>2
  <2>4. bloomMayContain(m, k) /\ l # 0
    BY <1>1, <2>1, <2>3 DEF Faithful, bloomMayContain
  <2>5. IndexGet(m, k) = readRecord(p)
    BY <1>4, <2>1, <2>3, <2>4
  <2>6. CASE p \in DOMAIN file.recs
    <3>1. file.recs[p].key = k /\ file.recs[p].rec = source[k]
      BY <2>1, <2>6 DEF Faithful, SSTableInv, RecsInv
    <3> QED BY <2>5, <2>6, <3>1 DEF readRecord, Remaining
  <2>7. CASE p \notin DOMAIN file.recs
    <3>1. \A q \in DOMAIN file.recs : file.recs[q].key # k
      <4> SUFFICES ASSUME NEW q \in DOMAIN file.recs, file.recs[q].key = k PROVE FALSE
        OBVIOUS
      <4>1. q \in DOMAIN m.index /\ m.index[q].key = k
        BY DEF Faithful
      <4>2. q = p
        BY <1>1, <2>1, <4>1 DEF Faithful
      <4> QED BY <2>7, <4>2
    <3>2. k \in Remaining
      BY <1>5, <3>1 DEF Remaining
    <3> QED BY <2>5, <2>7, <3>2 DEF readRecord
  <2> QED BY <2>6, <2>7
<1>6. CASE k \notin Keys(source)
  <2>1. \A p \in DOMAIN m.index : m.index[p].key # k
    BY <1>6 DEF Faithful
  <2>2. IndexGet(m, k) = Absent
    BY <1>2, <1>3, <1>4, <2>1
  <2> QED BY <1>6, <2>2 DEF Keys, Remaining
<1> QED BY <1>5, <1>6

\* get, through whatever the object knows of the file.
LEMMA LookupIs ==
  ASSUME SSTableInv, pc = "open", NEW k \in Key
  PROVE  Lookup(k) =
           IF \/ ~file.there
              \/ metadata # NoMeta /\ k \in Remaining
              \/ metadata = NoMeta /\ Cut /\ \A p \in DOMAIN file.recs : file.recs[p].key < k
           THEN Error ELSE source[k]
<1>1. CASE ~file.there
  BY <1>1 DEF Lookup
<1>2. CASE file.there /\ metadata = NoMeta
  BY <1>2, ScanTrue DEF Lookup
<1>3. CASE file.there /\ metadata # NoMeta
  <2>1. Faithful(metadata)
    BY <1>3 DEF SSTableInv, MetaInv, metadata
  <2> HIDE DEF metadata
  <2> QED BY <1>3, <2>1, IndexTrue DEF Lookup
<1> QED BY <1>1, <1>2, <1>3

LEMMA LookupsTrue == SSTableInv => LookupTrue
<1> SUFFICES ASSUME SSTableInv, pc = "open", NEW k \in Key
             PROVE  Lookup(k) = source[k] \/ (Lookup(k) = Error /\ Cut)
  BY DEF LookupTrue
<1>1. ~file.there => Cut
  BY DEF Cut
<1>2. file.there /\ k \in Remaining => Cut
  BY CutWhenMissing
<1> HIDE DEF metadata
<1> QED BY <1>1, <1>2, LookupIs

LEMMA FormatsSame == SSTableInv => FormatsAgree
<1> SUFFICES ASSUME SSTableInv, file.meta # NoMeta, NEW k \in Key
             PROVE  IndexGet(file.meta, k) = ScanGet(k)
  BY DEF FormatsAgree
<1>1. Faithful(file.meta) /\ Remaining = {} /\ file.there /\ file.count # NoHeader
  BY DEF SSTableInv, MetaInv, HeaderInv, NoFile
<1>2. ~Cut
  BY <1>1, CutWhenMissing
<1>3. ScanGet(k) = source[k]
  BY <1>1, <1>2, ScanTrue
<1>4. IndexGet(file.meta, k) = source[k]
  BY <1>1, IndexTrue
<1> QED BY <1>3, <1>4

\* The place of a key's only record.
LEMMA LastRecord ==
  ASSUME SSTableInv, NEW k \in Key, NEW n \in Nat
  PROVE  LET at == {p \in 1 .. n : p \in DOMAIN file.recs /\ file.recs[p].key = k}
         IN  at # {} => file.recs[Max(at)].rec = source[k]
<1> DEFINE at == {p \in 1 .. n : p \in DOMAIN file.recs /\ file.recs[p].key = k}
<1> SUFFICES ASSUME at # {} PROVE file.recs[Max(at)].rec = source[k]
  OBVIOUS
<1>1. at \subseteq 1 .. n
  OBVIOUS
<1>2. Max(at) \in at
  <2> HIDE DEF at
  <2> QED BY <1>1, MaxOf
<1>3. PICK m \in at : m = Max(at)
  BY <1>2
<1>4. file.recs[m].rec = source[k]
  BY DEF SSTableInv, RecsInv
<1> HIDE DEF at
<1> QED BY <1>3, <1>4

LEMMA LoadsTrue == SSTableInv => LoadAllTrue
<1> SUFFICES ASSUME SSTableInv, pc = "open" PROVE loadAll = IF Cut THEN Error ELSE source
  BY DEF LoadAllTrue
<1>1. CASE ~file.there
  BY <1>1 DEF loadAll, Cut
<1>2. CASE file.there /\ Cut
  BY <1>2 DEF loadAll, Cut
<1>3. CASE file.there /\ ~Cut
  <2>1. /\ file.count # NoHeader /\ Remaining = {}
        /\ file.count \in Nat /\ Len(file.recs) <= file.count
    BY <1>3, CutWhenMissing
  <2>2. Len(file.recs) \in Nat /\ DOMAIN file.recs = 1 .. Len(file.recs)
    BY RecsAreSeq
  <2>3. Len(file.recs) = file.count
    BY <1>3, <2>1, <2>2 DEF Cut
  <2> DEFINE At(k) == {p \in 1 .. file.count : file.recs[p].key = k}
  <2>4. loadAll = [k \in Key |-> IF At(k) = {} THEN Absent ELSE file.recs[Max(At(k))].rec]
    BY <1>3, <2>1, <2>2, <2>3 DEF loadAll
  <2>5. ASSUME NEW k \in Key
        PROVE  (IF At(k) = {} THEN Absent ELSE file.recs[Max(At(k))].rec) = source[k]
    <3>1. At(k) = {p \in 1 .. file.count : p \in DOMAIN file.recs /\ file.recs[p].key = k}
      BY <2>2, <2>3
    <3>2. CASE At(k) = {}
      <4>1. \A p \in DOMAIN file.recs : file.recs[p].key # k
        BY <2>2, <2>3, <3>2
      <4>2. source[k] = Absent
        BY <2>1, <4>1, NotInFile
      <4> QED BY <3>2, <4>2
    <3>3. CASE At(k) # {}
      <4>1. file.recs[Max(At(k))].rec = source[k]
        BY <2>1, <3>1, <3>3, LastRecord
      <4> QED BY <3>3, <4>1
    <3> QED BY <3>2, <3>3
  <2> HIDE DEF At
  <2>6. source = [k \in Key |-> source[k]]
    BY DEF SSTableInv, TypeOK
  <2>7. loadAll = source
    BY <2>4, <2>5, <2>6
  <2> QED BY <1>3, <2>7
<1> QED BY <1>1, <1>2, <1>3

-----------------------------------------------------------------------------
(* The file and the object as CauliBase sees them *)

\* The record CauliBase has for a key of the file: what the map had, unless it was cut.
LEMMA EngineRecs ==
  ASSUME SSTableInv, NEW k \in Key
  PROVE  /\ EngineTable.recs[k] = IF k \in Remaining THEN Absent ELSE source[k]
         /\ (\E p \in DOMAIN file.recs : file.recs[p].key = k) <=> EngineTable.recs[k] # Absent
<1> DEFINE At == {p \in DOMAIN file.recs : file.recs[p].key = k}
<1>1. Len(file.recs) \in Nat /\ DOMAIN file.recs = 1 .. Len(file.recs)
  BY RecsAreSeq
<1>2. EngineTable.recs[k] = IF At = {} THEN Absent ELSE file.recs[Max(At)].rec
  BY DEF EngineTable
<1>3. At = {p \in 1 .. Len(file.recs) : p \in DOMAIN file.recs /\ file.recs[p].key = k}
  BY <1>1
<1>4. CASE At = {}
  <2>1. \A p \in DOMAIN file.recs : file.recs[p].key # k
    BY <1>4
  <2>2. k \notin Remaining => source[k] = Absent
    BY <2>1, NotInFile
  <2>3. EngineTable.recs[k] = Absent
    BY <1>2, <1>4
  <2> QED BY <2>1, <2>2, <2>3
<1>5. CASE At # {}
  <2>1. file.recs[Max(At)].rec = source[k]
    BY <1>1, <1>3, <1>5, LastRecord
  <2>2. PICK p \in DOMAIN file.recs : file.recs[p].key = k
    BY <1>5
  <2>3. k \notin Remaining /\ k \in Keys(source)
    BY <2>2 DEF Remaining, SSTableInv, RecsInv
  <2>4. EngineTable.recs[k] = source[k] /\ source[k] # Absent
    <3> HIDE DEF At
    <3> QED BY <1>2, <1>5, <2>1, <2>3 DEF Keys
  <2> QED BY <2>2, <2>3, <2>4
<1> QED BY <1>4, <1>5

LEMMA EngineState ==
  /\ EngineTable.state # "none" <=> file.there
  /\ EngineTable.state \in {"whole", "sealed"} <=> file.there /\ ~Cut
BY DEF EngineTable

\* An object that is cached there has the index of the whole map.
LEMMA EngineIndex ==
  ASSUME SSTableInv, pc = "open", file.there, NEW k \in Key
  PROVE  /\ EngineObject.cached => metadata # NoMeta /\ (k \in EngineObject.index <=> k \in Keys(source))
         /\ ~EngineObject.cached /\ metadata # NoMeta => ~Cut
<1>1. CASE cache \in {Unread, NoMeta}
  <2>1. ~EngineObject.cached
    BY <1>1 DEF EngineObject
  <2>2. metadata # NoMeta => file.meta # NoMeta
    BY <1>1 DEF metadata
  <2>3. file.meta # NoMeta => ~Cut
    BY CutWhenMissing DEF SSTableInv, MetaInv, HeaderInv
  <2> QED BY <2>1, <2>2, <2>3
<1>2. CASE cache \notin {Unread, NoMeta}
  <2>1. Faithful(cache)
    BY <1>2 DEF SSTableInv, MetaInv
  <2>2. EngineObject.cached /\ EngineObject.index = {cache.index[p].key : p \in DOMAIN cache.index}
    BY <1>2 DEF EngineObject
  <2>3. k \in EngineObject.index <=> k \in Keys(source)
    BY <2>1, <2>2 DEF Faithful
  <2> QED BY <1>2, <2>2, <2>3 DEF metadata
<1> QED BY <1>1, <1>2

\* What CauliBase's helpers say of the one table and object.
LEMMA EngineHits ==
  ASSUME NEW k \in Key
  PROVE  Engine!Hits(EngineObject, k) <=>
           /\ EngineTable.state # "none"
           /\ EngineObject.cached => k \in EngineObject.index
           /\ EngineTable.recs[k] # Absent
<1>1. EngineObject.id = 1
  BY DEF EngineObject
<1> HIDE DEF EngineObject, EngineTable
<1> QED BY <1>1 DEF Engine!Hits, Engine!Indexed

LEMMA EngineMisses ==
  ASSUME NEW k \in Key
  PROVE  Engine!Misses(EngineObject, k) <=>
           /\ EngineTable.state # "none"
           /\ \/ EngineObject.cached /\ k \notin EngineObject.index
              \/ /\ ~EngineObject.cached
                 /\ EngineTable.recs[k] = Absent
                 /\ \/ EngineTable.state \in {"whole", "sealed"}
                    \/ \E j \in Key : EngineTable.recs[j] # Absent /\ j > k
<1>1. EngineObject.id = 1
  BY DEF EngineObject
<1> HIDE DEF EngineObject, EngineTable
<1> QED BY <1>1 DEF Engine!Misses, Engine!Indexed, Engine!Keys

LEMMA EngineAnswer ==
  ASSUME NEW k \in Key
  PROVE  Engine!Answer(k) = IF Engine!Misses(EngineObject, k) THEN None
                            ELSE IF Engine!Hits(EngineObject, k)
                                 THEN Engine!Visible(EngineTable.recs[k])
                                 ELSE "error"
<1>1. EngineObject.id = 1
  BY DEF EngineObject
<1> HIDE DEF EngineObject, EngineTable
<1> DEFINE Ends(p) == Engine!SearchEndsAt(k, p)
<1>2. /\ Ends(0) <=> Engine!Misses(EngineObject, k)
      /\ Ends(1) <=> ~Engine!Misses(EngineObject, k)
  BY DEF Engine!SearchEndsAt
<1>3. ~Engine!InMemtable(k)
  BY DEF Engine!InMemtable
<1> DEFINE e == CHOOSE p \in 0 .. Len(<<EngineObject>>) : Ends(p)
<1>4. Engine!Answer(k) = IF e = 0 THEN None
                         ELSE IF Engine!Hits(<<EngineObject>>[e], k)
                              THEN Engine!Visible(<<EngineTable>>[<<EngineObject>>[e].id].recs[k])
                              ELSE "error"
  BY <1>3 DEF Engine!Answer
<1>5. 0 .. Len(<<EngineObject>>) = {0, 1}
  OBVIOUS
<1> HIDE DEF Ends
<1>6. e = IF Engine!Misses(EngineObject, k) THEN 0 ELSE 1
  BY <1>2, <1>5
<1> HIDE DEF e
<1> QED BY <1>1, <1>4, <1>6

\* The three ways in which a lookup ends are the engine's three.
LEMMA LookupsAgree ==
  ASSUME SSTableInv, pc = "open", NEW k \in Key
  PROVE  /\ Engine!Hits(EngineObject, k) <=> Lookup(k) \in Rec
         /\ Engine!Misses(EngineObject, k) <=> Lookup(k) = Absent
         /\ Lookup(k) \in Rec => EngineTable.recs[k] = Lookup(k)
         /\ Lookup(k) \in Rec \cup {Absent, Error}
<1> DEFINE Cached == EngineObject.cached
           recs == EngineTable.recs
<1>1. Error \notin Rec /\ Absent \notin Rec /\ Error # Absent
  BY AbsentAssumption
<1>2. source[k] \in Rec \cup {Absent}
  BY DEF SSTableInv, TypeOK
<1>3. /\ recs[k] = IF k \in Remaining THEN Absent ELSE source[k]
      /\ \A j \in Key : (\E p \in DOMAIN file.recs : file.recs[p].key = j) <=> recs[j] # Absent
  BY EngineRecs
<1>4. k \in Keys(source) <=> source[k] # Absent
  BY DEF Keys
<1>5. k \in Remaining => k \in Keys(source) /\ Cut
  <2>1. k \in Remaining /\ file.there => Cut
    BY CutWhenMissing
  <2> QED BY <2>1 DEF Remaining, Cut
<1>6. CASE ~file.there
  BY <1>1, <1>6, LookupIs, EngineHits, EngineMisses, EngineState
<1>7. CASE file.there /\ Cached
  <2>1. metadata # NoMeta /\ (k \in EngineObject.index <=> k \in Keys(source))
    BY <1>7, EngineIndex
  <2>2. Lookup(k) = IF k \in Remaining THEN Error ELSE source[k]
    BY <1>7, <2>1, LookupIs
  <2>3. Engine!Hits(EngineObject, k) <=> k \in Keys(source) /\ recs[k] # Absent
    BY <1>7, <2>1, EngineHits, EngineState
  <2>4. Engine!Misses(EngineObject, k) <=> k \notin Keys(source)
    BY <1>7, <2>1, EngineMisses, EngineState
  <2> HIDE DEF recs, Cached
  <2> QED BY <1>1, <1>2, <1>3, <1>4, <1>5, <2>2, <2>3, <2>4 DEF recs
<1>8. CASE file.there /\ ~Cached
  <2>1. metadata # NoMeta => ~Cut
    BY <1>8, EngineIndex
  <2> DEFINE end == Cut /\ \A p \in DOMAIN file.recs : file.recs[p].key < k
  <2>2. Lookup(k) = IF end THEN Error ELSE source[k]
    <3> HIDE DEF metadata
    <3> QED BY <1>5, <1>8, <2>1, LookupIs
  <2>3. Engine!Hits(EngineObject, k) <=> recs[k] # Absent
    BY <1>8, EngineHits, EngineState
  <2>4. Engine!Misses(EngineObject, k) <=>
          recs[k] = Absent /\ (~Cut \/ \E j \in Key : recs[j] # Absent /\ j > k)
    BY <1>8, EngineMisses, EngineState
  <2>5. k \in Int /\ \A p \in DOMAIN file.recs : file.recs[p].key \in Key /\ file.recs[p].key \in Int
    BY RecsAreSeq, KeyAssumption
  <2>6. k \in Remaining => end
    BY <1>5 DEF SSTableInv, RecsInv
  <2>7. recs[k] # Absent => ~end
    BY <1>3, <2>5
  <2>8. recs[k] = Absent => (end <=> Cut /\ ~ \E j \in Key : recs[j] # Absent /\ j > k)
    <3> SUFFICES ASSUME recs[k] = Absent
                 PROVE  (\A p \in DOMAIN file.recs : file.recs[p].key < k)
                          <=> (~ \E j \in Key : recs[j] # Absent /\ j > k)
      OBVIOUS
    <3>1. \A p \in DOMAIN file.recs : file.recs[p].key # k
      BY <1>3
    <3>2. \A p \in DOMAIN file.recs : file.recs[p].key < k <=> ~(file.recs[p].key > k)
      BY <2>5, <3>1
    <3>3. (\E j \in Key : recs[j] # Absent /\ j > k)
            <=> \E p \in DOMAIN file.recs : file.recs[p].key > k
      <4> HIDE DEF recs
      <4> QED BY <1>3, <2>5
    <3> HIDE DEF recs
    <3> QED BY <3>2, <3>3
  <2> HIDE DEF end, recs
  <2> QED BY <1>1, <1>2, <1>3, <1>4, <1>5, <2>2, <2>3, <2>4, <2>6, <2>7, <2>8 DEF recs
<1> QED BY <1>6, <1>7, <1>8

LEMMA EngineLoads == SSTableInv => (Engine!Loadable(1) <=> loadAll # Error)
<1> SUFFICES ASSUME SSTableInv PROVE Engine!Loadable(1) <=> loadAll # Error
  OBVIOUS
<1>1. Engine!Loadable(1) <=> file.there /\ ~Cut
  <2>1. Engine!Loadable(1) <=> EngineTable.state \in {"whole", "sealed"}
    <3> HIDE DEF EngineTable
    <3> QED BY DEF Engine!Loadable
  <2> QED BY <2>1, EngineState
<1>2. ~file.there \/ Cut => loadAll = Error
  BY DEF loadAll, Cut
<1>3. file.there /\ ~Cut => loadAll # Error
  <2> SUFFICES ASSUME file.there, ~Cut PROVE loadAll # Error
    OBVIOUS
  <2>1. /\ Len(file.recs) \in Nat /\ DOMAIN file.recs = 1 .. Len(file.recs)
        /\ file.count # NoHeader /\ file.count \in Nat /\ Len(file.recs) <= file.count
    BY RecsAreSeq, CutWhenMissing
  <2>2. Len(file.recs) = file.count
    BY <2>1 DEF Cut
  <2> DEFINE At(k) == {p \in 1 .. file.count : file.recs[p].key = k}
  <2>3. loadAll = [k \in Key |-> IF At(k) = {} THEN Absent ELSE file.recs[Max(At(k))].rec]
    BY <2>1, <2>2 DEF loadAll
  <2>4. ASSUME NEW k \in Key
        PROVE  (IF At(k) = {} THEN Absent ELSE file.recs[Max(At(k))].rec) \in Rec \cup {Absent}
    <3>1. At(k) = {p \in 1 .. file.count : p \in DOMAIN file.recs /\ file.recs[p].key = k}
      BY <2>1, <2>2
    <3>2. At(k) # {} => file.recs[Max(At(k))].rec = source[k]
      BY <2>1, <3>1, LastRecord
    <3>3. source[k] \in Rec \cup {Absent}
      BY DEF SSTableInv, TypeOK
    <3> HIDE DEF At
    <3> QED BY <3>2, <3>3
  <2> HIDE DEF At
  <2>5. loadAll \in [Key -> Rec \cup {Absent}]
    BY <2>3, <2>4
  <2> QED BY <2>5, ErrorAssumption
<1> QED BY <1>1, <1>2, <1>3

LEMMA EngineAgrees == SSTableInv => AnswersAsEngine
<1> SUFFICES ASSUME SSTableInv, pc = "open" PROVE AnswersAsEngine
  BY DEF AnswersAsEngine
<1>1. ASSUME NEW k \in Key
      PROVE  Engine!Answer(k) = IF Lookup(k) = Error THEN "error" ELSE Engine!Visible(Lookup(k))
  <2>1. Error \notin Rec /\ Absent \notin Rec /\ Error # Absent
    BY AbsentAssumption
  <2>2. Engine!Visible(Absent) = None
    BY <2>1 DEF Engine!Visible, Rec
  <2>3. CASE Lookup(k) = Absent
    BY <2>1, <2>2, <2>3, LookupsAgree, EngineAnswer
  <2>4. CASE Lookup(k) \in Rec
    BY <2>1, <2>4, LookupsAgree, EngineAnswer
  <2>5. CASE Lookup(k) = Error
    BY <2>1, <2>5, LookupsAgree, EngineAnswer
  <2> QED BY <2>3, <2>4, <2>5, LookupsAgree
<1> QED BY <1>1, LookupsAgree, EngineLoads DEF AnswersAsEngine

-----------------------------------------------------------------------------
(* Every step keeps the invariant *)

\* A step that leaves the file and the map alone leaves alone what is said of them.
LEMMA SameFile ==
  ASSUME SSTableInv, UNCHANGED <<file, source>>
  PROVE  /\ RecsInv' /\ HeaderInv' /\ Remaining' = Remaining
         /\ \A m : Faithful(m)' <=> Faithful(m)
<1>1. Keys(source)' = Keys(source)
  BY DEF Keys
<1>2. Remaining' = Remaining
  BY <1>1 DEF Remaining
<1>3. RecsInv' /\ HeaderInv'
  BY <1>1, <1>2 DEF SSTableInv, RecsInv, HeaderInv
<1>4. ASSUME NEW m PROVE Faithful(m)' <=> Faithful(m)
  BY <1>1 DEF Faithful
<1> QED BY <1>2, <1>3, <1>4

\* Metadata stays faithful to a file that loses records at its end.
LEMMA StaysFaithful ==
  ASSUME NEW m, Faithful(m), source' = source,
         \A p \in DOMAIN file'.recs :
           p \in DOMAIN file.recs /\ file'.recs[p].key = file.recs[p].key
  PROVE  Faithful(m)'
<1>1. Keys(source)' = Keys(source)
  BY DEF Keys
<1> QED BY <1>1 DEF Faithful

LEMMA NoRecords ==
  ASSUME file'.recs = <<>>, file'.count = NoHeader, file'.meta = NoMeta
  PROVE  RecsInv' /\ HeaderInv'
<1>1. DOMAIN file'.recs = {}
  OBVIOUS
<1> QED BY <1>1 DEF RecsInv, HeaderInv

LEMMA CreateKeeps ==
  ASSUME SSTableInv, NEW map \in [Key -> Rec \cup {Absent}], Create(map)
  PROVE  SSTableInv'
<1>1. /\ file' = [there |-> TRUE, count |-> NoHeader, recs |-> <<>>, meta |-> NoMeta]
      /\ source' = map /\ cache' = Unread /\ pc' = "header"
      /\ built' = [index |-> <<>>, bits |-> {},
                   bitCount |-> bloomBitCount(Cardinality(Keys(map)))]
  BY DEF Create, NoFile
<1>2. built' \in Metadata /\ DOMAIN built'.index = {} /\ DOMAIN file'.recs = {}
  <2>1. bloomBitCount(Cardinality(Keys(map))) \in Nat \ {0}
    BY KeysFinite, BitCount
  <2> QED BY <1>1, <2>1 DEF Metadata
<1>3. TypeOK'
  BY <1>1, <1>2 DEF TypeOK
<1>4. RecsInv' /\ HeaderInv'
  BY <1>1, NoRecords
<1>5. BuiltInv' /\ MetaInv'
  BY <1>1, <1>2 DEF BuiltInv, MetaInv
<1> QED BY <1>1, <1>3, <1>4, <1>5 DEF SSTableInv

LEMMA HeaderKeeps == ASSUME SSTableInv, WriteHeader PROVE SSTableInv'
<1>1. /\ pc = "header" /\ file' = [file EXCEPT !.count = Cardinality(Keys(source))]
      /\ pc' = IF Keys(source) = {} THEN "seal" ELSE "write"
      /\ UNCHANGED <<source, built, cache>>
  BY DEF WriteHeader
<1>2. /\ file.there /\ file.meta = NoMeta /\ file.recs = <<>>
      /\ file'.there /\ file'.meta = NoMeta /\ file'.recs = <<>>
      /\ file'.count = Cardinality(Keys(source))
  BY <1>1 DEF SSTableInv, BuiltInv, HeaderInv, TypeOK
<1>3. Cardinality(Keys(source)) \in Nat
  BY KeysFinite
<1>4. Keys(source)' = Keys(source) /\ DOMAIN file'.recs = {} /\ Remaining' \subseteq Keys(source)
  BY <1>1, <1>2 DEF Keys, Remaining
<1>5. TypeOK'
  BY <1>1, <1>3 DEF SSTableInv, TypeOK, BuiltInv
<1>6. RecsInv' /\ HeaderInv'
  BY <1>2, <1>3, <1>4 DEF RecsInv, HeaderInv, NoHeader
<1>7. BuiltInv'
  <2>1. built \in Metadata /\ DOMAIN built.index = {}
    BY <1>1, <1>2 DEF SSTableInv, BuiltInv
  <2>2. file'.count # NoHeader
    BY <1>2, <1>3 DEF NoHeader
  <2>3. pc' \in {"seal", "write"} /\ (pc' = "seal" => Remaining' = {})
    BY <1>1, <1>4
  <2> QED BY <1>1, <1>2, <1>4, <2>1, <2>2, <2>3 DEF BuiltInv
<1>8. MetaInv'
  BY <1>1, <1>2 DEF MetaInv
<1> QED BY <1>2, <1>5, <1>6, <1>7, <1>8 DEF SSTableInv

LEMMA RecordKeeps == ASSUME SSTableInv, WriteRecord PROVE SSTableInv'
<1>1. PICK k \in Remaining :
        /\ \A j \in Remaining : k <= j
        /\ file' = [file EXCEPT !.recs = Append(@, [key |-> k, rec |-> source[k]])]
        /\ built' = [built EXCEPT
                      !.index = Append(@, [key |-> k, offset |-> Len(file.recs) + 1]),
                      !.bits  = @ \cup Probes(k, built.bitCount)]
        /\ pc' = IF Remaining = {k} THEN "seal" ELSE "write"
  BY DEF WriteRecord
<1>2. pc = "write" /\ source' = source /\ cache' = cache
  BY DEF WriteRecord
<1>3. /\ k \in Key /\ k \in Int /\ k \in Keys(source) /\ source[k] \in Rec
      /\ \A j \in Remaining : j \in Int
  BY KeyAssumption DEF Remaining, Keys, SSTableInv, TypeOK
<1> DEFINE n == Len(file.recs)
           e == [key |-> k, rec |-> source[k]]
           x == [key |-> k, offset |-> n + 1]
<1>4. /\ file.recs \in Seq(Entry) /\ n \in Nat /\ DOMAIN file.recs = 1 .. n
      /\ \A p \in 1 .. n : file.recs[p].key \in Int
  BY RecsAreSeq
<1>5. /\ built \in Metadata /\ DOMAIN built.index = 1 .. n /\ file.there /\ file.meta = NoMeta
      /\ file.count # NoHeader
      /\ \A p \in 1 .. n : /\ built.index[p] = [key |-> file.recs[p].key, offset |-> p]
                           /\ Probes(file.recs[p].key, built.bitCount) \subseteq built.bits
  BY <1>2, <1>4 DEF SSTableInv, BuiltInv
<1>6. built.index \in Seq(IndexEntry) /\ Len(built.index) = n
  <2>1. built.index \in Seq(IndexEntry)
    BY <1>5 DEF Metadata
  <2>2. Len(built.index) \in Nat /\ DOMAIN built.index = 1 .. Len(built.index)
    BY <2>1
  <2> QED BY <1>4, <1>5, <2>1, <2>2
<1>7. e \in Entry /\ x \in IndexEntry
  BY <1>3, <1>4 DEF Entry, IndexEntry
<1>8. /\ file'.recs = Append(file.recs, e)
      /\ file'.there = file.there /\ file'.count = file.count /\ file'.meta = file.meta
      /\ file' \in [there : BOOLEAN, count : Nat \cup {NoHeader}, recs : Seq(Entry),
                    meta : Metadata \cup {NoMeta}]
  <2>1. Append(file.recs, e) \in Seq(Entry)
    BY <1>4, <1>7
  <2>2. file \in [there : BOOLEAN, count : Nat \cup {NoHeader}, recs : Seq(Entry),
                 meta : Metadata \cup {NoMeta}]
    BY DEF SSTableInv, TypeOK
  <2>3. file' = [file EXCEPT !.recs = Append(@, e)]
    BY <1>1
  <2> HIDE DEF e
  <2> QED BY <2>1, <2>2, <2>3
<1>9. /\ built'.index = Append(built.index, x)
      /\ built'.bits = built.bits \cup Probes(k, built.bitCount)
      /\ built'.bitCount = built.bitCount
      /\ built' \in Metadata
  <2>1. Probes(k, built.bitCount) \subseteq Nat
    BY <1>3, <1>5, ProbesAreNumbers DEF Metadata
  <2>2. Append(built.index, x) \in Seq(IndexEntry)
    BY <1>6, <1>7
  <2> QED BY <1>1, <1>5, <2>1, <2>2 DEF Metadata
<1>10. /\ DOMAIN file'.recs = 1 .. n + 1
       /\ \A p \in 1 .. n + 1 : file'.recs[p] = IF p = n + 1 THEN e ELSE file.recs[p]
  BY <1>4, <1>7, <1>8, AppendProperties
<1>11. /\ DOMAIN built'.index = 1 .. n + 1
       /\ \A p \in 1 .. n + 1 : built'.index[p] = IF p = n + 1 THEN x ELSE built.index[p]
  BY <1>4, <1>6, <1>7, <1>9, AppendProperties
<1>12. Keys(source)' = Keys(source)
  BY <1>2 DEF Keys
<1>13. Remaining' = Remaining \ {k}
  <2>1. ASSUME NEW j \in Key
        PROVE  (\A p \in DOMAIN file'.recs : file'.recs[p].key # j)
                 <=> (j # k /\ \A p \in DOMAIN file.recs : file.recs[p].key # j)
    <3>1. 1 .. n + 1 = 1 .. n \cup {n + 1} /\ n + 1 \notin 1 .. n
      BY <1>4
    <3>2. e.key = k
      OBVIOUS
    <3> HIDE DEF e
    <3>3. file'.recs[n + 1] = e /\ \A p \in 1 .. n : file'.recs[p] = file.recs[p]
      BY <1>10, <3>1
    <3>4. DOMAIN file'.recs = 1 .. n \cup {n + 1} /\ DOMAIN file.recs = 1 .. n
      BY <1>4, <1>10, <3>1
    <3> QED BY <3>2, <3>3, <3>4
  <2> QED BY <1>12, <2>1 DEF Remaining, Keys
<1> HIDE DEF x
<1>14. RecsInv'
  <2>1. \A p \in 1 .. n : file.recs[p].key < k
    BY <1>4 DEF SSTableInv, RecsInv
  <2>2. ASSUME NEW p \in DOMAIN file'.recs, NEW q \in DOMAIN file'.recs, p < q
        PROVE  file'.recs[p].key < file'.recs[q].key
    <3>1. p \in 1 .. n /\ q \in 1 .. n + 1
      BY <1>4, <1>10, <2>2
    <3>2. CASE q = n + 1
      BY <1>4, <1>10, <2>1, <3>1, <3>2
    <3>3. CASE q # n + 1
      <4>1. q \in 1 .. n
        BY <1>4, <3>1, <3>3
      <4>2. file.recs[p].key < file.recs[q].key
        BY <1>4, <2>2, <3>1, <4>1 DEF SSTableInv, RecsInv
      <4>3. p \in 1 .. n + 1 /\ p # n + 1
        BY <1>4, <3>1
      <4>4. file'.recs[p] = file.recs[p] /\ file'.recs[q] = file.recs[q]
        BY <1>10, <3>1, <3>3, <4>3
      <4> QED BY <4>2, <4>4
    <3> QED BY <3>2, <3>3
  <2>3. ASSUME NEW p \in DOMAIN file'.recs
        PROVE  /\ file'.recs[p].key \in Keys(source) /\ file'.recs[p].rec = source[file'.recs[p].key]
               /\ \A j \in Remaining \ {k} : file'.recs[p].key < j
    <3>1. CASE p = n + 1
      BY <1>1, <1>3, <1>10, <3>1
    <3>2. CASE p # n + 1
      <4>1. p \in DOMAIN file.recs /\ file'.recs[p] = file.recs[p]
        BY <1>4, <1>10, <3>2
      <4> QED BY <4>1 DEF SSTableInv, RecsInv
    <3> QED BY <3>1, <3>2
  <2> HIDE DEF e
  <2> QED BY <1>2, <1>12, <1>13, <2>2, <2>3 DEF RecsInv
<1>15. HeaderInv'
  BY <1>5, <1>8, <1>12 DEF SSTableInv, HeaderInv
<1>16. BuiltInv'
  <2>1. ASSUME NEW p \in 1 .. n + 1
        PROVE  /\ built'.index[p] = [key |-> file'.recs[p].key, offset |-> p]
               /\ Probes(file'.recs[p].key, built.bitCount) \subseteq built'.bits
    <3>1. CASE p = n + 1
      BY <1>9, <1>10, <1>11, <3>1 DEF x
    <3>2. CASE p # n + 1
      <4>1. p \in 1 .. n /\ file'.recs[p] = file.recs[p] /\ built'.index[p] = built.index[p]
        BY <1>4, <1>10, <1>11, <3>2
      <4> QED BY <1>5, <1>9, <4>1
    <3> QED BY <3>1, <3>2
  <2>2. pc' = "seal" => Remaining' = {}
    BY <1>1, <1>13
  <2> HIDE DEF e
  <2> QED BY <1>1, <1>5, <1>8, <1>9, <1>10, <1>11, <2>1, <2>2 DEF BuiltInv
<1>17. MetaInv' /\ TypeOK' /\ file'.there
  BY <1>1, <1>2, <1>5, <1>8, <1>9 DEF SSTableInv, MetaInv, TypeOK
<1> QED BY <1>14, <1>15, <1>16, <1>17 DEF SSTableInv

\* After writeFromMap the writer's metadata tells the whole map.
LEMMA BuiltFaithful == ASSUME SSTableInv, pc = "seal" PROVE Faithful(built) /\ built # Unread
<1>1. /\ built \in Metadata /\ Remaining = {} /\ DOMAIN built.index = DOMAIN file.recs
      /\ \A p \in DOMAIN file.recs :
           /\ built.index[p] = [key |-> file.recs[p].key, offset |-> p]
           /\ Probes(file.recs[p].key, built.bitCount) \subseteq built.bits
  BY DEF SSTableInv, BuiltInv
<1>2. \A k \in Keys(source) : \E p \in DOMAIN file.recs : file.recs[p].key = k
  BY <1>1 DEF Remaining
<1>3. \A p, q \in DOMAIN file.recs : p < q => file.recs[p].key < file.recs[q].key
  BY DEF SSTableInv, RecsInv
<1>4. \A p \in DOMAIN file.recs : file.recs[p].key \in Keys(source)
  BY DEF SSTableInv, RecsInv
<1>5. Faithful(built)
  <2>1. \A p \in DOMAIN file.recs : /\ built.index[p].key = file.recs[p].key
                                    /\ built.index[p].offset = p
    <3> SUFFICES ASSUME NEW p \in DOMAIN file.recs
                 PROVE  built.index[p].key = file.recs[p].key /\ built.index[p].offset = p
      OBVIOUS
    <3>1. built.index[p] = [key |-> file.recs[p].key, offset |-> p]
      BY <1>1
    <3> QED BY <3>1
  <2>2. \A p \in DOMAIN built.index :
          /\ built.index[p].key \in Keys(source) /\ built.index[p].offset = p
          /\ Probes(built.index[p].key, built.bitCount) \subseteq built.bits
    BY <1>1, <1>4, <2>1
  <2>3. \A p, q \in DOMAIN built.index : p < q => built.index[p].key < built.index[q].key
    BY <1>1, <1>3, <2>1
  <2>4. \A k \in Keys(source) : \E p \in DOMAIN built.index : built.index[p].key = k
    BY <1>1, <1>2, <2>1
  <2>5. \A p \in DOMAIN file.recs :
          p \in DOMAIN built.index /\ built.index[p].key = file.recs[p].key
    BY <1>1, <2>1
  <2> QED BY <1>1, <2>2, <2>3, <2>4, <2>5 DEF Faithful
<1> QED BY <1>1, <1>5, UnreadAssumption

LEMMA MetadataKeeps == ASSUME SSTableInv, WriteMetadata PROVE SSTableInv'
<1>1. /\ pc = "seal" /\ file' = [file EXCEPT !.meta = built] /\ cache' = built /\ pc' = "open"
      /\ source' = source /\ built' = built
  BY DEF WriteMetadata
<1>2. file.there /\ file.count # NoHeader /\ Remaining = {} /\ built \in Metadata
  BY <1>1 DEF SSTableInv, BuiltInv
<1>3. /\ file'.there /\ file'.recs = file.recs /\ file'.count = file.count /\ file'.meta = built
      /\ Keys(source)' = Keys(source)
  BY <1>1, <1>2 DEF SSTableInv, TypeOK, Keys
<1>4. Remaining' = Remaining
  BY <1>3 DEF Remaining
<1>5. TypeOK'
  BY <1>1, <1>2 DEF SSTableInv, TypeOK
<1>6. RecsInv' /\ HeaderInv' /\ BuiltInv'
  BY <1>1, <1>2, <1>3, <1>4 DEF SSTableInv, RecsInv, HeaderInv, BuiltInv
<1>7. MetaInv'
  <2>1. PICK m : m = built
    OBVIOUS
  <2>2. Faithful(m)'
    BY <1>1, <1>3, <2>1, BuiltFaithful, StaysFaithful
  <2>3. file'.meta = m /\ cache' = m
    BY <1>1, <1>3, <2>1
  <2> QED BY <1>2, <1>4, <2>2, <2>3 DEF MetaInv, Faithful
<1> QED BY <1>3, <1>5, <1>6, <1>7 DEF SSTableInv

LEMMA CloseKeeps == ASSUME SSTableInv, CloseFails PROVE SSTableInv'
<1>1. /\ pc = "seal" /\ cache' = built /\ pc' = "open"
      /\ source' = source /\ built' = built
  BY DEF CloseFails
<1>2. /\ file.there /\ file.meta = NoMeta /\ file.count # NoHeader /\ built \in Metadata
  BY <1>1 DEF SSTableInv, BuiltInv
<1>3. /\ file.recs \in Seq(Entry) /\ Len(file.recs) \in Nat
      /\ DOMAIN file.recs = 1 .. Len(file.recs)
  BY RecsAreSeq
<1>4. Keys(source)' = Keys(source)
  BY <1>1 DEF Keys
<1>5. /\ file'.there /\ file'.meta = NoMeta
      /\ file' \in [there : BOOLEAN, count : Nat \cup {NoHeader}, recs : Seq(Entry),
                    meta : Metadata \cup {NoMeta}]
      /\ \A p \in DOMAIN file'.recs : p \in DOMAIN file.recs /\ file'.recs[p] = file.recs[p]
      /\ RecsInv' /\ HeaderInv'
  <2>1. CASE file' = file
    BY <1>1, <1>2, <2>1, SameFile DEF SSTableInv, TypeOK
  <2>2. CASE \E n \in 0 .. Len(file.recs) - 1 : file' = [file EXCEPT !.recs = SubSeq(@, 1, n)]
    <3>1. PICK n \in 0 .. Len(file.recs) - 1 : file' = [file EXCEPT !.recs = SubSeq(@, 1, n)]
      BY <2>2
    <3> DEFINE r == SubSeq(file.recs, 1, n)
    <3>2. /\ n \in Nat /\ n < Len(file.recs) /\ r \in Seq(Entry) /\ DOMAIN r = 1 .. n
          /\ \A p \in 1 .. n : p \in DOMAIN file.recs /\ r[p] = file.recs[p]
      BY <1>3
    <3>3. /\ file'.there /\ file'.meta = NoMeta /\ file'.count = file.count /\ file'.recs = r
          /\ file' \in [there : BOOLEAN, count : Nat \cup {NoHeader}, recs : Seq(Entry),
                        meta : Metadata \cup {NoMeta}]
      <4>1. file \in [there : BOOLEAN, count : Nat \cup {NoHeader}, recs : Seq(Entry),
                      meta : Metadata \cup {NoMeta}]
        BY DEF SSTableInv, TypeOK
      <4>2. file' = [file EXCEPT !.recs = r]
        BY <3>1
      <4> HIDE DEF r
      <4> QED BY <1>2, <3>2, <4>1, <4>2
    <3> HIDE DEF r
    <3>4. HeaderInv'
      BY <1>2, <1>4, <3>3 DEF SSTableInv, HeaderInv
    <3>5. ASSUME NEW p \in 1 .. n, NEW k \in Remaining' PROVE r[p].key < k
      <4>1. CASE k \in Remaining
        BY <3>2, <4>1 DEF SSTableInv, RecsInv
      <4>2. CASE k \notin Remaining
        <5>1. k \in Keys(source)
          BY <1>4 DEF Remaining
        <5>2. PICK q \in DOMAIN file.recs : file.recs[q].key = k
          BY <4>2, <5>1 DEF Remaining
        <5>3. q \notin 1 .. n
          BY <3>2, <3>3, <5>2 DEF Remaining
        <5>4. p < q
          BY <1>3, <3>2, <5>3
        <5>5. file.recs[p].key < file.recs[q].key
          BY <3>2, <5>4 DEF SSTableInv, RecsInv
        <5> QED BY <3>2, <5>2, <5>5
      <4> QED BY <4>1, <4>2
    <3>6. RecsInv'
      BY <1>1, <1>4, <3>2, <3>3, <3>5 DEF SSTableInv, RecsInv
    <3> QED BY <3>2, <3>3, <3>4, <3>6
  <2>3. CASE file' = [NoFile EXCEPT !.there = TRUE]
    <3>1. file' = [there |-> TRUE, count |-> NoHeader, recs |-> <<>>, meta |-> NoMeta]
      BY <2>3 DEF NoFile
    <3>2. DOMAIN file'.recs = {}
      BY <3>1
    <3> QED BY <3>1, <3>2, NoRecords
  <2> QED BY <2>1, <2>2, <2>3 DEF CloseFails
<1>6. PICK m : m = built
  OBVIOUS
<1>7. Faithful(m)'
  BY <1>1, <1>5, <1>6, BuiltFaithful, StaysFaithful
<1>8. MetaInv'
  BY <1>1, <1>5, <1>6, <1>7 DEF MetaInv
<1>9. TypeOK' /\ BuiltInv'
  BY <1>1, <1>2, <1>5 DEF SSTableInv, TypeOK, BuiltInv
<1> QED BY <1>5, <1>8, <1>9 DEF SSTableInv

\* Objects come and go, and fill their caches, without a change of the file.
LEMMA ObjectKeeps ==
  ASSUME SSTableInv, Abandon \/ Open \/ Get \/ Drop \/ UNCHANGED vars
  PROVE  SSTableInv'
<1>1. /\ UNCHANGED <<file, source, built>>
      /\ pc' \in {"header", "write", "seal"} => pc' = pc
      /\ pc' \in {"closed", "header", "write", "seal", "open"}
  BY DEF Abandon, Open, Get, Drop, vars, SSTableInv, TypeOK
<1>2. /\ RecsInv' /\ HeaderInv' /\ Remaining' = Remaining
      /\ \A m : Faithful(m)' <=> Faithful(m)
  BY <1>1, SameFile
<1>3. BuiltInv'
  BY <1>1, <1>2 DEF SSTableInv, BuiltInv
<1>4. /\ cache' \in {cache, Unread} \/ (pc = "open" /\ cache' = metadata)
      /\ pc' = "open" /\ cache' = cache => pc = "open" \/ cache = Unread
  BY DEF Abandon, Open, Get, Drop, vars
<1>5. cache' \in {cache, Unread, file.meta}
  BY <1>4 DEF metadata
<1>6. TypeOK'
  BY <1>1, <1>5 DEF SSTableInv, TypeOK
<1>7. MetaInv'
  <2>1. PICK m, c : m = file.meta /\ c = cache'
    OBVIOUS
  <2>2. m # NoMeta => Faithful(m)' /\ Remaining' = {}
    BY <1>2, <2>1 DEF SSTableInv, MetaInv
  <2>3. ASSUME pc' = "open"
        PROVE  c = Unread \/ (c = NoMeta /\ m = NoMeta) \/ Faithful(c)'
    BY <1>2, <1>4, <2>1, <2>2, <2>3 DEF SSTableInv, MetaInv, metadata
  <2>4. file'.meta = m
    BY <1>1, <2>1
  <2> QED BY <2>1, <2>2, <2>3, <2>4 DEF MetaInv
<1> QED BY <1>1, <1>2, <1>3, <1>6, <1>7 DEF SSTableInv

LEMMA RemoveKeeps == ASSUME SSTableInv, Remove PROVE SSTableInv'
<1>1. /\ pc = "open" /\ file' = [there |-> FALSE, count |-> NoHeader, recs |-> <<>>, meta |-> NoMeta]
      /\ UNCHANGED <<source, built, cache, pc>>
  BY DEF Remove, NoFile
<1>2. DOMAIN file'.recs = {} /\ RecsInv' /\ HeaderInv'
  BY <1>1, NoRecords
<1>3. PICK c : c = cache
  OBVIOUS
<1>4. Faithful(c) => Faithful(c)'
  BY <1>1, <1>2, StaysFaithful
<1>5. MetaInv'
  BY <1>1, <1>3, <1>4 DEF SSTableInv, MetaInv
<1>6. TypeOK' /\ BuiltInv' /\ file' = NoFile'
  BY <1>1 DEF SSTableInv, TypeOK, BuiltInv, NoFile
<1> QED BY <1>1, <1>2, <1>5, <1>6 DEF SSTableInv

LEMMA SSTableStep == SSTableInv /\ [Next]_vars => SSTableInv'
BY CreateKeeps, HeaderKeeps, RecordKeeps, MetadataKeeps, CloseKeeps, ObjectKeeps, RemoveKeeps
   DEF Next

LEMMA InitSSTable == Init => SSTableInv
<1> SUFFICES ASSUME Init PROVE SSTableInv
  OBVIOUS
<1>1. file = [there |-> FALSE, count |-> NoHeader, recs |-> <<>>, meta |-> NoMeta]
  BY DEF Init, NoFile
<1>2. DOMAIN file.recs = {}
  BY <1>1
<1>3. TypeOK
  BY <1>1 DEF Init, TypeOK
<1>4. RecsInv /\ HeaderInv /\ BuiltInv /\ MetaInv /\ file = NoFile
  BY <1>1, <1>2 DEF Init, RecsInv, HeaderInv, BuiltInv, MetaInv, NoFile
<1> QED BY <1>3, <1>4 DEF SSTableInv

-----------------------------------------------------------------------------
(* The theorems *)

LEMMA SSTableInvariant == Spec => []SSTableInv
BY InitSSTable, SSTableStep, PTL DEF Spec

\* Every variable keeps its type, and no filter is without bits.
THEOREM TableTyped == Spec => []TypeOK
<1>1. SSTableInv => TypeOK
  BY DEF SSTableInv
<1> QED BY <1>1, SSTableInvariant, PTL

\* No lookup denies or invents a record, whatever the hashes of the keys, the size of
\* the filter and the point at which the file was cut.
THEOREM LookupRight == Spec => []LookupTrue
BY LookupsTrue, SSTableInvariant, PTL

\* A file that has a footer reads the same without it.
THEOREM FormatsRight == Spec => []FormatsAgree
BY FormatsSame, SSTableInvariant, PTL

\* A load gives the whole map that was written, or throws.
THEOREM LoadRight == Spec => []LoadAllTrue
BY LoadsTrue, SSTableInvariant, PTL

\* The table of CauliBase.tla is this one: with EngineTable for the file and EngineObject
\* for the object its helpers answer as the code's do, so that what is proved there of
\* all tables is true of these.
THEOREM EngineRight == Spec => []AnswersAsEngine
BY EngineAgrees, SSTableInvariant, PTL
=============================================================================
