----------------------------- MODULE CauliBench -----------------------------
(***************************************************************************)
(* The micro benchmarks of src/bench/cauli_bench.cpp as the programs they  *)
(* are: each opens a store in a new directory and runs its loops of calls  *)
(* over CauliBase.tla.  What is measured is the last of its parts.  Time   *)
(* is left out, and prepareKeys, which changes no answer.  The measure of  *)
(* shuffle_order_experiment.cpp is here too, for the same order of keys.   *)
(***************************************************************************)
EXTENDS Integers, Sequences, FiniteSets, FiniteSetsExt

CONSTANTS
  operations, compact_operations,  \* of BenchConfig
  Value, None, Tombstone, Absent   \* as in CauliBase

Key == 0 .. (IF operations > compact_operations THEN operations ELSE compact_operations) - 1

ASSUME ValuesAssumption == {None, Tombstone, Absent} \cap Value = {} /\ Absent # Tombstone
ASSUME OperationsAssumption == {operations, compact_operations} \subseteq Nat \ {0}

VARIABLES
  benchmark,  \* which of the benchmarks runs
  part,       \* the number of its part that runs, 0 when it threw
  i,          \* the counter of that part's loop
  hits,       \* the keys found
  storageKey, \* the place of each key in the store's order
  walFile, walTorn, tables, walBuf, walOpen, memtable, sstables,
  pc, op, pos, merged, newId, reply, kv   \* CauliBase

progressVars == <<part, i, hits>>
storeVars == <<walFile, walTorn, tables, walBuf, walOpen, memtable, sstables,
               pc, op, pos, merged, newId, reply, kv>>
benchVars == <<benchmark, storageKey, progressVars, storeVars>>

\* Slip: the memtable is full with the last key.
LimitTooLow == operations

\* The limits of the stores: one for all but benchCompact.
RoomyLimit == operations + 1
TightLimit == 1

\* No failures; the bounds are beyond what a benchmark needs.
Roomy == INSTANCE CauliBase WITH Limit <- RoomyLimit, ExitOnError <- TRUE, Faults <- {},
           MaxLog <- 2 * operations + 1, MaxTableId <- 2 * compact_operations + 2
Tight == INSTANCE CauliBase WITH Limit <- TightLimit, ExitOnError <- TRUE, Faults <- {},
           MaxLog <- 2 * operations + 1, MaxTableId <- 2 * compact_operations + 2

Program == CASE benchmark = "put"     -> <<"put">>
             [] benchmark = "get_mem" -> <<"put", "get">>
             [] benchmark = "get_sst" -> <<"put", "flush", "reopen", "get">>
             [] benchmark = "del"     -> <<"put", "del">>
             [] benchmark = "compact" -> <<"put", "del", "compact">>

Part == CASE part = 0 -> "threw"
          [] part \in DOMAIN Program -> Program[part]
          [] OTHER -> "done"
Measured == part = Len(Program)

Turns == IF benchmark = "compact" THEN compact_operations ELSE operations

\* Slip: every key is deleted.
StrideOne == 1

\* benchCompact deletes every other key.
Stride == IF benchmark = "compact" /\ Part = "del" THEN 2 ELSE 1

-----------------------------------------------------------------------------
KeyFor == storageKey[i]

\* The store goes on with the call it serves, or with its constructor.
Work == /\ \/ Roomy!Recovery
           \/ IF benchmark = "compact" THEN Tight!Serve ELSE Roomy!Serve
        /\ UNCHANGED <<benchmark, storageKey, progressVars>>

\* One turn of a loop; the next waits until the call has returned.
Turn == i < Turns /\ i' = i + Stride /\ UNCHANGED <<benchmark, storageKey, part>>

PutNext == /\ Part = "put" /\ Turn
           /\ \E v \in Value : Roomy!Put(KeyFor, v)
           /\ UNCHANGED hits
DelNext == /\ Part = "del" /\ Turn
           /\ Roomy!Del(KeyFor)
           /\ UNCHANGED hits
GetNext == /\ Part = "get" /\ Turn
           /\ Roomy!Get(KeyFor)
           /\ hits' = IF reply' # None THEN hits + 1 ELSE hits

\* A part that is a single call.
Once == i = 0 /\ i' = Turns /\ UNCHANGED <<benchmark, storageKey, part, hits>>

FlushAll   == Part = "flush" /\ Once /\ Roomy!Flush
CompactAll == Part = "compact" /\ Once /\ Tight!Compact

\* Slip: the directory goes with the first store.
ReopenEmptied == /\ Part = "reopen" /\ Once
                 /\ Roomy!Die
                 /\ walFile' = <<>> /\ tables' = [n \in DOMAIN tables |-> Roomy!NoFile]
                 /\ UNCHANGED walTorn

\* The scope of the first store ends, and with it the object.
Reopen == /\ Part = "reopen" /\ Once
          /\ Roomy!Die
          /\ UNCHANGED <<walFile, walTorn, tables>>

\* A part ends when its last call has; the gets must have found every key.
EndPart == /\ part \in DOMAIN Program
           /\ i >= Turns /\ pc = "idle"
           /\ part' = IF Part = "get" /\ hits # operations THEN 0 ELSE part + 1
           /\ i' = 0
           /\ UNCHANGED <<benchmark, storageKey, hits, storeVars>>

-----------------------------------------------------------------------------
(* The order experiment: how far from its place in the keys' own order, its *)
(* logical rank, is the key at each physical rank of the table?             *)

logical_rank(rank) == CHOOSE k \in Key : storageKey[k] = rank

\* Slip: physical ranks are counted from one.
DistanceFromOne(rank) == logical_rank(rank) - (rank + 1)
Distance(rank)        == logical_rank(rank) - rank

\* Spearman's rho as a numerator over n * (n * n - 1), n being the number of keys; a
\* single key has rho 1 by itself.
Cubic(n) == n * (n * n - 1)
spearmanForPhysicalOrder ==
  Cubic(Cardinality(Key)) - 6 * MapThenSumSet(LAMBDA rank : Distance(rank) * Distance(rank), Key)

-----------------------------------------------------------------------------
\* appendSuite runs the benchmarks one after the other, shuffled and plain, each in a
\* directory of its own; shuffled keys lie in any order.
BenchInit == /\ benchmark \in {"put", "get_mem", "get_sst", "del", "compact"}
             /\ storageKey \in {f \in [Key -> Key] : \A j, k \in Key : f[j] = f[k] => j = k}
             /\ part = 1 /\ i = 0 /\ hits = 0
             /\ Roomy!Init

BenchNext == \/ Work \/ EndPart
             \/ PutNext \/ DelNext \/ GetNext
             \/ FlushAll \/ CompactAll \/ Reopen

BenchSpec == BenchInit /\ [][BenchNext]_benchVars

-----------------------------------------------------------------------------
(* Properties *)

\* The numbers measured are about what they are named for: puts, dels and gets that
\* only meet memtable and log, and gets that only meet one table, which an earlier
\* object wrote.
MeasuresWhatItNames ==
  Measured =>
    /\ benchmark \in {"put", "get_mem", "del"} => Roomy!Files = {}
    /\ benchmark = "get_sst" => /\ memtable = Roomy!NoRecords
                                /\ Len(sstables) = 1 /\ ~sstables[1].cached

\* benchCompact gives its cost over operations + (operations + 1) / 2: as many tables
\* are merged, one for each put and del, and the other half of the keys is left.
CompactMergesAll ==
  benchmark = "compact" /\ Part = "compact" /\ i = 0 =>
    /\ Len(sstables) = compact_operations + (compact_operations + 1) \div 2
    /\ Cardinality({k \in Key : kv[k] # None}) = compact_operations \div 2

\* The measure is what its name says: the correlation of logical and physical ranks,
\* here multiplied by twelve times the variance of either, whatever the order.
RhoIsCorrelation ==
  LET n == Cardinality(Key)
  IN  spearmanForPhysicalOrder =
        12 * MapThenSumSet(LAMBDA rank : rank * logical_rank(rank), Key) - 3 * n * (n - 1) * (n - 1)
=============================================================================
