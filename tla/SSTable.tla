------------------------------ MODULE SSTable ------------------------------
(***************************************************************************)
(* One table file of src/src/sstable.cpp and the SSTable object that wrote *)
(* it or opened it: writeFromMap with its Bloom filter, index and footer,  *)
(* lookups through them or, without a footer, by a scan, the metadata that *)
(* an object caches, and files cut short at any point of the write.        *)
(*                                                                         *)
(* CauliBase.tla keeps of all this which records a file has and how much   *)
(* of it is there; AnswersAsEngine relates the two.                        *)
(***************************************************************************)
EXTENDS Integers, Sequences, FiniteSets, FiniteSetsExt

CONSTANTS
  Key, Value, Tombstone, Absent, None,   \* as in CauliBase
  First, Second,  \* the two hashes of each key
  Word,           \* how many values a hash has, 2^64 in the code
  HashCount,      \* kBloomHashCount
  BitsPerRecord,  \* kBloomBitsPerRecord
  MinBits,        \* the smallest filter
  Error, Unread   \* an exception; a cache that was not filled yet

Rec == Value \cup {Tombstone}

ASSUME KeyAssumption == Key \subseteq Int /\ IsFiniteSet(Key)
ASSUME AbsentAssumption == /\ Absent \notin Rec /\ Error \notin Rec
                           /\ None \notin Value /\ Tombstone \notin Value
                           /\ Error # Absent
\* An exception is not a map.
ASSUME ErrorAssumption == Error \notin [Key -> Rec \cup {Absent}]
ASSUME HashAssumption == /\ Word \in Nat \ {0}
                         /\ First \in [Key -> 0 .. Word-1]
                         /\ Second \in [Key -> 0 .. Word-1]
ASSUME BloomAssumption == {HashCount, BitsPerRecord, MinBits} \subseteq Nat \ {0}

VARIABLES
  file,    \* the file: is it there, its header, its whole records, its metadata
  source,  \* the std::map that writeFromMap was given
  built,   \* the index and the filter that writeFromMap collects
  cache,   \* metadata_cache_ of the object
  pc       \* "closed" without an object, "open" with one, or a step of writeFromMap

vars == <<file, source, built, cache, pc>>

Entry      == [key : Key, rec : Rec]
IndexEntry == [key : Key, offset : Nat]
Metadata   == [index : Seq(IndexEntry), bits : SUBSET Nat, bitCount : Nat \ {0}]

\* loadMetadata's std::nullopt: no valid footer.
NoMeta == [index |-> <<>>, bits |-> {}, bitCount |-> 0]
ASSUME UnreadAssumption == Unread \notin Metadata \cup {NoMeta}
\* The header of a file that is too short to have one.
NoHeader == -1
NoFile == [there |-> FALSE, count |-> NoHeader, recs |-> <<>>, meta |-> NoMeta]

\* Every variable has its type; a filter that is written has at least one bit, since
\* loadMetadata refuses a footer without.
TypeOK ==
  /\ file \in [there : BOOLEAN, count : Nat \cup {NoHeader}, recs : Seq(Entry),
               meta : Metadata \cup {NoMeta}]
  /\ source \in [Key -> Rec \cup {Absent}]
  /\ built \in Metadata \cup {NoMeta}
  /\ pc \in {"header", "write", "seal"} => built \in Metadata
  /\ cache \in Metadata \cup {NoMeta, Unread}
  /\ pc \in {"closed", "header", "write", "seal", "open"}

-----------------------------------------------------------------------------
(* The Bloom filter *)

Keys(map) == {k \in Key : map[k] # Absent}

\* Slip: the smallest filter is forgotten.
BitCountUnbounded(n) == n * BitsPerRecord

bloomBitCount(n) == Max({MinBits, n * BitsPerRecord})

\* The bits of a key: double hashing, the second hash made odd by | 1.
Probes(k, bitCount) ==
  LET second == IF Second[k] % 2 = 0 THEN Second[k] + 1 ELSE Second[k]
  IN  {((First[k] + i * second) % Word) % bitCount : i \in 0 .. HashCount-1}

\* Slip: the filter is tested with the bits of another size.
MayContainOtherSize(m, k) == Probes(k, m.bitCount + 1) \subseteq m.bits

bloomMayContain(m, k) == Probes(k, m.bitCount) \subseteq m.bits

-----------------------------------------------------------------------------
(* Reading *)

\* The record that starts where the record number p was written.
readRecord(p) == IF p \in DOMAIN file.recs THEN file.recs[p].rec ELSE Error

\* The entry std::lower_bound finds in the sorted index, 0 for end().
LowerBound(m, k) ==
  LET from == {p \in DOMAIN m.index : m.index[p].key >= k}
  IN  IF from = {} THEN 0 ELSE Min(from)

IndexGet(m, k) ==
  LET p == LowerBound(m, k)
  IN  IF ~bloomMayContain(m, k) THEN Absent
      ELSE IF p = 0 THEN Absent
      ELSE IF m.index[p].key # k THEN Absent
      ELSE readRecord(m.index[p].offset)

\* Slip: the scan ends before it reads the last record of the header's count.
ScanStopsEarly(k) ==
  LET stops == {p \in 1 .. file.count - 1 : \/ p \notin DOMAIN file.recs
                                            \/ file.recs[p].key >= k}
      p     == Min(stops)
  IN  IF file.count = NoHeader THEN Error
      ELSE IF stops = {} THEN Absent
      ELSE IF p \notin DOMAIN file.recs THEN Error
      ELSE IF file.recs[p].key = k THEN file.recs[p].rec ELSE Absent

\* Without metadata: record after record, up to the key or a larger one.
ScanGet(k) ==
  LET stops == {p \in 1 .. file.count : \/ p \notin DOMAIN file.recs
                                        \/ file.recs[p].key >= k}
      p     == Min(stops)
  IN  IF file.count = NoHeader THEN Error
      ELSE IF stops = {} THEN Absent
      ELSE IF p \notin DOMAIN file.recs THEN Error
      ELSE IF file.recs[p].key = k THEN file.recs[p].rec ELSE Absent

\* What metadata() returns: the cache, filled from the file on first use.
metadata == IF cache = Unread THEN file.meta ELSE cache

\* What get(k) returns: the record's content, Absent for std::nullopt, or Error.
Lookup(k) == IF ~file.there THEN Error
             ELSE IF metadata = NoMeta THEN ScanGet(k)
             ELSE IndexGet(metadata, k)

\* What loadAll returns: a map, or Error.
loadAll ==
  IF ~file.there \/ file.count = NoHeader \/ Len(file.recs) < file.count THEN Error
  ELSE [k \in Key |->
         LET at == {p \in 1 .. file.count : file.recs[p].key = k}
         IN  IF at = {} THEN Absent ELSE file.recs[Max(at)].rec]

-----------------------------------------------------------------------------
(* writeFromMap *)

Remaining == {k \in Keys(source) : \A p \in DOMAIN file.recs : file.recs[p].key # k}

\* The engine writes a number only while no object has it; the file may be there.
Create(map) ==
  /\ pc = "closed"
  /\ file' = [NoFile EXCEPT !.there = TRUE]
  /\ source' = map
  /\ built' = [index |-> <<>>, bits |-> {}, bitCount |-> bloomBitCount(Cardinality(Keys(map)))]
  /\ cache' = Unread
  /\ pc' = "header"

\* Slip: the header counts the live records only.
HeaderCountsLive ==
  /\ pc = "header"
  /\ file' = [file EXCEPT !.count = Cardinality({k \in Key : source[k] \in Value})]
  /\ pc' = IF Keys(source) = {} THEN "seal" ELSE "write"
  /\ UNCHANGED <<source, built, cache>>

WriteHeader ==
  /\ pc = "header"
  /\ file' = [file EXCEPT !.count = Cardinality(Keys(source))]
  /\ pc' = IF Keys(source) = {} THEN "seal" ELSE "write"
  /\ UNCHANGED <<source, built, cache>>

\* Slip: tellp is asked after the record was written.
OffsetAfter ==
  /\ pc = "write"
  /\ \E k \in Remaining :
       /\ \A j \in Remaining : k <= j
       /\ file' = [file EXCEPT !.recs = Append(@, [key |-> k, rec |-> source[k]])]
       /\ built' = [built EXCEPT
                     !.index = Append(@, [key |-> k, offset |-> Len(file.recs) + 2]),
                     !.bits  = @ \cup Probes(k, built.bitCount)]
       /\ pc' = IF Remaining = {k} THEN "seal" ELSE "write"
  /\ UNCHANGED <<source, cache>>

\* One record, its entry of the index and its bits of the filter.
WriteRecord ==
  /\ pc = "write"
  /\ \E k \in Remaining :
       /\ \A j \in Remaining : k <= j
       /\ file' = [file EXCEPT !.recs = Append(@, [key |-> k, rec |-> source[k]])]
       /\ built' = [built EXCEPT
                     !.index = Append(@, [key |-> k, offset |-> Len(file.recs) + 1]),
                     !.bits  = @ \cup Probes(k, built.bitCount)]
       /\ pc' = IF Remaining = {k} THEN "seal" ELSE "write"
  /\ UNCHANGED <<source, cache>>

\* Index, filter and footer; without the whole footer they are not there at all.
WriteMetadata ==
  /\ pc = "seal"
  /\ file' = [file EXCEPT !.meta = built]
  /\ cache' = built
  /\ pc' = "open"
  /\ UNCHANGED <<source, built>>

\* The stream's destructor does not get the rest of the file written; the object
\* that goes on knows the whole index.
CloseFails ==
  /\ pc = "seal"
  /\ \/ file' = file
     \/ \E n \in 0 .. Len(file.recs) - 1 : file' = [file EXCEPT !.recs = SubSeq(@, 1, n)]
     \/ file' = [NoFile EXCEPT !.there = TRUE]
  /\ cache' = built
  /\ pc' = "open"
  /\ UNCHANGED <<source, built>>

\* An exception or a crash in the middle of the write: what has been written stays.  After
\* a failed write the stream's destructor may write its buffer once more, behind bytes
\* of it that are there already; WriteRepeats of CauliBase has the files of that kind.
Abandon == /\ pc \in {"header", "write", "seal"}
           /\ pc' = "closed"
           /\ UNCHANGED <<file, source, built, cache>>

-----------------------------------------------------------------------------
(* Objects *)

\* loadSSTables, or the new object that compact lists.
Open == /\ pc \in {"closed", "open"}
        /\ file.there
        /\ cache' = Unread
        /\ pc' = "open"
        /\ UNCHANGED <<file, source, built>>

\* get fills the cache before it looks for the key, whatever the key.
Get == /\ pc = "open"
       /\ file.there
       /\ cache' = metadata
       /\ UNCHANGED <<file, source, built, pc>>

\* The object goes: the engine is closed, or sstables_ is cleared.
Drop == /\ pc = "open"
        /\ pc' = "closed"
        /\ UNCHANGED <<file, source, built, cache>>

\* compact removes the file; an exception after that leaves the object listed.
Remove == /\ pc = "open"
          /\ file' = NoFile
          /\ UNCHANGED <<source, built, cache, pc>>

Init == /\ file = NoFile
        /\ source = [k \in Key |-> Absent]
        /\ built = NoMeta
        /\ cache = Unread
        /\ pc = "closed"

Next == \/ \E map \in [Key -> Rec \cup {Absent}] : Create(map)
        \/ WriteHeader \/ WriteRecord \/ WriteMetadata \/ CloseFails \/ Abandon
        \/ Open \/ Get \/ Drop \/ Remove

Spec == Init /\ [][Next]_vars

-----------------------------------------------------------------------------
(* Properties *)

Cut == file.there => (file.count = NoHeader \/ Len(file.recs) < file.count)

\* A lookup answers what the map had, through the filter and the index or by a scan,
\* from the writer's cache or a new one; of a file cut short it may throw instead,
\* but it never denies or invents a record.
LookupTrue ==
  pc = "open" => \A k \in Key : \/ Lookup(k) = source[k]
                                \/ Lookup(k) = Error /\ Cut

\* "Older SSTable files without metadata still fall back to sequential scanning"
\* (README.md): with metadata or without, a lookup of a file gives the same answer.
FormatsAgree ==
  pc # "seal" /\ file.meta # NoMeta => \A k \in Key : IndexGet(file.meta, k) = ScanGet(k)

\* loadAll gives compact the whole map or nothing: a file cut short makes it throw.
LoadAllTrue == pc = "open" => loadAll = IF Cut THEN Error ELSE source

\* The file as CauliBase keeps it: how much of it is there, and its records.
EngineTable ==
  [state |-> IF ~file.there THEN "none"
             ELSE IF Cut THEN "torn"
             ELSE IF file.meta = NoMeta THEN "whole" ELSE "sealed",
   recs  |-> [k \in Key |-> LET at == {p \in DOMAIN file.recs : file.recs[p].key = k}
                            IN  IF at = {} THEN Absent ELSE file.recs[Max(at)].rec]]

\* The object as CauliBase keeps it.
EngineObject ==
  [id |-> 1, cached |-> cache \notin {Unread, NoMeta},
   index |-> IF cache = Unread THEN {} ELSE {cache.index[p].key : p \in DOMAIN cache.index}]

Engine == INSTANCE CauliBase WITH
  Limit <- 1, ExitOnError <- FALSE, Faults <- {}, MaxLog <- 0, MaxTableId <- 1,
  walFile <- <<>>, walTorn <- FALSE, tables <- <<EngineTable>>,
  walBuf <- <<>>, walOpen <- TRUE, memtable <- [k \in Key |-> Absent],
  sstables <- <<EngineObject>>, pc <- "idle", op <- "none", pos <- 0,
  merged <- [k \in Key |-> Absent], newId <- 0, reply <- "none",
  kv <- [k \in Key |-> None]

\* What CauliBase assumes of a table (Hits, Misses, Loadable) is what the file and its
\* object do, in every state of both: filter, index, offsets, scan and cache included.
AnswersAsEngine ==
  pc = "open" =>
    /\ \A k \in Key :
         /\ Engine!Hits(EngineObject, k) <=> Lookup(k) \in Rec
         /\ Engine!Misses(EngineObject, k) <=> Lookup(k) = Absent
         /\ Engine!Answer(k) = (IF Lookup(k) = Error THEN "error" ELSE Engine!Visible(Lookup(k)))
    /\ Engine!Loadable(1) <=> loadAll # Error
=============================================================================
