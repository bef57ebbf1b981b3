# CauliBase: verification project

CauliBase is a small LSM-style key-value store in C++17: a write-ahead log, a
memtable, immutable table files and a compaction that merges them, used as a
library or through a command line. These modules describe what its code does,
check it with TLC on small instances, and prove what matters most with TLAPS.
Paths below are those of the repository with `src/` in front, as in
`PROJECT.json`; `src/src/cauli_base.cpp` is the file `src/cauli_base.cpp`.

## 1. The system

One thread, no locks and no callbacks. What makes the program hard is that a
call is many writes to several files, that the process may die between any two
of them, and that each of them may fail.

| Component | State | Operations | Hard behaviour |
|---|---|---|---|
| Storage engine `cauli_base.cpp` | `memtable_`, `sstables_`, the files of the directory | open, put, del, get, flush, compact | crash between the steps of flush and compact, a step that throws, numbering and order of tables |
| Write-ahead log `wal.cpp` | `wal.log`, the stream `wal_out_` with its buffer | append, sync, reset, replay | torn record, a write that fails half way and is repeated, stream that is closed, sizes cut to 32 bits |
| Table `sstable.cpp` | one `.sst` file, `metadata_cache_` | writeFromMap, get, loadAll | torn file, Bloom filter, index, cached metadata, scan of files without metadata |
| Key transform `key_transform.cpp` | options, `key_cache_` of the engine | storageKey | permutation, collisions, other options at the next open |
| Command line `main.cpp`, `command.h` | the open store | put, get, del, flush, compact, debug, help, exit | exit at the first exception |
| YCSB workloads `bench/ycsb_*.cpp` | the generator's counters | load, nextTransaction, executeOperation | keys chosen while keys are inserted |
| Micro benchmarks `bench/cauli_bench.cpp`, `bench/shuffle_order_experiment.cpp` | a loop over a store of its own | put, get, del, flush, reopen, compact | limits and strides chosen so that only what is named is measured |

How they interact: the command line or a benchmark calls the engine; the engine
turns each key into its storage key, appends to the log and syncs it, then
changes the memtable; a full memtable is written to a new table and the log is
emptied; `compact` merges all tables and the memtable into one new table,
removes the old ones and empties the log; opening replays the log into the
memtable and lists the tables of the directory.

What makes each part correct:

* Engine: a put or del that was answered survives every crash; a get answers
  the newest record, never an older one; a deleted key stays deleted, through
  compactions and reopenings; the list in memory is the directory, in order of
  age; a finished table is never written again; every call ends; after a crash
  the store opens again.
* Log: replay returns the records that were synced, in order, and nothing that
  was not appended; whatever fails, it gives nothing else in their place.
* Table: a lookup through filter and index, one through a scan, and loadAll
  agree; no lookup of a file cut short gives a wrong answer.
* Key transform: distinct normalised keys have distinct storage keys.
* Command line: one answer to each line, "OK" only after the store's.
* YCSB: a key that is read was inserted before; inserted keys are new.
* Micro benchmarks: what is measured is what the benchmark is named for.

## 2. Modules

| Module | What it is |
|---|---|
| `KVStore` | abstract: what the store promises a client, a durable map with one call at a time |
| `CauliBase` | the engine with the log and the tables it drives, and the failures of process and file system |
| `CauliBaseInv` | the parts of the engine's inductive invariants, and what the theorems assume of the failures |
| `CauliBase_proofs` | first what holds under failures that lose data, too: the engine's types, the list of tables, the room in the memtable, the end of every call; then durability, answers, compaction and the refinement of `KVStore` |
| `WAL` | the log byte by byte: the format of a record, the stream, its buffer and its errors, `replay` |
| `SSTable` | one table file: how it is written, what is left of it after a crash, and what the lookups through filter and index, the scan and `loadAll` make of it |
| `KeyTransform` | the storage keys between a client and the map of `KVStore`: permutation, prefix, `key_cache_`, reopening with other options |
| `KeyTransform_proofs` | distinct storage keys, the order of their bytes, the cache, and the refinement of a map over the client's keys |
| `Cli` | the command line over the map of `KVStore` |
| `YcsbWorkload` | the workload generator and its driver |
| `CauliBench` | the micro benchmarks as programs over `CauliBase`, and the measure of the order experiment |
| `CauliBench_proofs` | what the benchmarks measure, what the compaction benchmark merges, and that its measure is the correlation |
| `WAL_proofs`, `SSTable_proofs`, `Cli_proofs`, `YcsbWorkload_proofs` | every safety property of the four modules, with its inductive invariant |
| `WellOrder_proofs` | sets of natural numbers have a least and a greatest element: the other proofs' induction |
| `MCCauliBase`, `MCWAL`, `MCSSTable`, `MCKeyTransform`, `MCCliLoop`, `MCBenchmarks` | instances for TLC |

How they compose: `CauliBase` implements `KVStore`; `KeyTransform` and `Cli` run
over an instance of `KVStore`, so what they show holds over every store that
keeps its promise; `SSTable` shows that what `CauliBase` takes a `get` of a file
for (`AnswersAsEngine`) is what file, filter, index and cache give; `WAL` shows
that a log of bytes is the sequence of records that `CauliBase` takes it for;
`CauliBench` calls two instances of `CauliBase` that differ in `Limit`. `Cli` in turn shows
what `CauliBase` assumes of its caller when `ExitOnError` is TRUE
(`ErrorEndsProcess`).

### 2.1 CauliBase

A state is what the disk holds (`walFile`, `walTorn`, `tables`), what the
object holds (`walBuf`, `walOpen`, `memtable`, `sstables`), where the thread is
(`pc`, `op`, `pos`, `merged`, `newId`), the answer to the latest call (`reply`)
and one history variable: `kv`, the map that the records synced so far add up
to. Keys are storage keys, as integers, because `std::map` and the files are
ordered by them.

| Code | Actions |
|---|---|
| constructor | `Open`, `ReplayRecord`, `ReplayEnd` or `ReplayRefused`, `LoadTable`, `LoadEnd`; `OpenFails` if it throws before the end |
| `put`, `del` | `Put`, `Del` (append), `Sync` (sync, memtable, `maybeFlush`), `Return`; `AppendRefused` if the log is closed |
| `get` | `Get`, `GetThrows` |
| `flush` | `FlushEmpty`, or `Flush`, `CreateTable`, `WriteRecord`, `Seal`, `Install`, `Reset`, `Return` |
| `compact` | `Compact`, `MergeTable`, `MergeEnd`, the table steps of flush unless nothing is left, `RemoveTable`, `Swap`, `Reset`, `Return` |
| `WAL::reset` | `Reset`, `ReopenFails` |

What an action decides by is a helper of its own, named for the question it
answers: `Full` (is the memtable to be flushed?), `NextId`, `Survivors` (what the
merge keeps), `OldestLeft` (which table goes first), `ListedAlone`.

Each step that leaves a different state on disk is an action, so that a crash
can fall between any two of them. The failures are chosen by the constant
`Faults`:

| Failure | Where it bites |
|---|---|
| `crash` | `Crash`: the process dies, memory and buffers are lost; what sync wrote stays |
| `tear` | a crash that leaves a part of the record being appended |
| `create` | `CreateFails`, `sstable.cpp:76` |
| `write` | `WriteFails`, `sstable.cpp:111` and `:136`: noticed, thrown, the part that was written stays |
| `repeat` | `WriteRepeats`: the same, and the stream's destructor writes its kept buffer again, so that the file may read as other records from some key on |
| `close` | `CloseFails`: the stream's destructor cannot write the rest, nobody is told |
| `remove` | `RemoveFails`, `cauli_base.cpp:168` |
| `truncate` | `Truncate` keeps the log, `wal.cpp:29` does not look |
| `reopen` | `ReopenFails`, `wal.cpp:88`: the log stays closed; `OpenFails`: `cauli_base.cpp:31`, `:223`, `wal.cpp:36`, `:88`, the constructor throws |
| `power` | `PowerLoss`: records of the log that were never fsync'ed are lost |

`ExitOnError` says what the caller does at an exception: `main.cpp` leaves the
process, a library user may go on with the same object.

Abstractions: a value has no content and a record no length; a table file is
the set of its records and how much of it is there (`torn`, `whole` without
metadata, `sealed`); a write to the log takes effect in whole or, with `tear`, in
part (failed writes of its stream are in `WAL`); an `SSTable` object remembers only whether its own
`writeFromMap` filled its metadata and with which keys, since metadata that is
read from a sealed file gives the answers of a scan. What a buffer that is written twice
leaves of a table is any records from the first wrong one on, the same for `get` and
`loadAll`: the real bytes fix which ones, and no theorem that speaks of values has
`repeat` among its failures. A clean exit is a crash in
`idle`, because the destructors write nothing more. Bounds: `put` and `del` are
accepted while the log is shorter than `MaxLog`, calls that may create a table
while the next number is at most `MaxTableId`.

### 2.2 The refinement

`KV == INSTANCE KVStore WITH todo <- Pending` maps a record that waits in the
log's buffer to a change that did not take effect; `Sync` is the abstract
`Commit`. Flush, compact, recovery and crashes are stutters or end a call
without changing the map: this is what `ImplementsKVStore` checks, for every
state of the files that a failure can leave behind.

### 2.3 WAL

A byte is a number below `Width`, and a size field is one byte, so that a size
is taken modulo a number as `static_cast<uint32_t>` does and a byte of one field
can be read as any other. `file` is what the system has, `buffer` what the
stream has not written, or will write again, `stream` the state of `wal_out_`.

| Code | Actions |
|---|---|
| constructor, `replay` by the engine | `WAL`, `Recover` |
| `appendPut`, `appendDelete` | `appendRecord`, `AppendFails` |
| `sync` | `sync`, `SyncFails` |
| `reset` | `reset`, which closes, truncates or fails to, and opens or fails to |
| destructor, end of the process | `Close` |

The stream is the one of libstdc++: a buffer that is written whenever it is
full, which may be within a record; after a failed write the whole buffer is
kept, the part that was written too, and closing the stream writes it once more.
So `AppendFails` may leave a part of a record in the file, and `Close` the
same bytes behind it. `synced`, `unsynced` and `damage` are history variables:
the records that replay must have, those it may have, and whether bytes of a
failed write are in the file. `damage = "inside"`, records that were synced
behind such bytes, takes a failed write, then a truncation that fails unnoticed;
such a log may lose them, and `SyncedSurvive` does not speak of it.

### 2.4 SSTable

A file is its header (the number of records), the records that are there in
whole, and its metadata: index, filter and footer, which count as absent unless
the footer is whole, as in `loadMetadata`. `writeFromMap` is `Create`,
`WriteHeader`, one `WriteRecord` per record and `WriteMetadata`; `Abandon` and
`CloseFails` leave any part of it. A buffer that the stream's destructor writes again
after a failed write (`WriteRepeats` of `CauliBase`) is not among the ways a write can
end here: it would take the table byte by byte, as `WAL` takes the log. An object has a
cache of metadata, and may outlive its file or be dropped while the file stays. The hashes of a key are any
numbers, given by the instance; what is exact is the arithmetic on them: their
sums modulo `Word`, the odd second hash, the modulus of the filter. `Lookup`,
`IndexGet`, `ScanGet` and `loadAll` are operators over file and cache.

### 2.5 KeyTransform

A position is a pair of halves, as in `feistel64`; the round functions, the mask
`Xor`, the hash and the round keys are constants, so the theorems do not depend
on the mixing constants of the code. A byte is a digit to the base `Byte`, the n-th
from below the quotient by `Weight[n]` modulo `Byte`, and a position fits its bytes
(`FitsAssumption`, 64 bits in eight bytes). `storageKeyFor` and the cache are part of
each call. `writer` is a history variable: which key wrote last under each
storage key. `ImplementsKVStore` maps the store over storage keys to one over
pairs of options and client's keys: each choice of options has a map of its own.

### 2.6 Cli

A line is what the handlers parse of it: a command, a key or none, and the rest.
Each handler is an action; the store's call goes on in steps of its own
(`StoreWorks`), so that a kill can fall before, between and after them, and
`Returned` prints the answer. `told` is a history variable: the answers of a get
that agree with what the user has seen, over all restarts. Texts are abstract
up to one fact, whether they have a space in front (`Trim`).

### 2.7 YcsbWorkload

The counters of the generator, the length of its Zipfian table and the set of
stored keys. Every roll of the random numbers is a choice; the shares of the
operations are counted in twentieths, which the code's decimals sum to 1.0
exactly (0.95 + 0.05 is 1.0 in a double), and a roll is below 1.0, as
`std::uniform_real_distribution` promises. `Valid` has the constructor's checks of counts
and scan bounds; a negative `zipfian_theta` is refused too, and the driver, which leaves
it at its default, cannot give one.

### 2.8 CauliBench

A benchmark is a sequence of parts (`Program`): loops of puts, dels or gets, a
flush, the end of one object and the opening of another, a compaction. The last
part is what is measured. A turn of a loop is one call of the engine; `Work` is
the engine's own steps of it, and the next turn waits until it has returned.
`storageKey` is any order of the keys: shuffled, or that of their names, which is
not that of their numbers. Every store of a benchmark has a directory of its
own, so that each starts at `Init`. `spearmanForPhysicalOrder` is over the same
orders, without its division: `RhoIsCorrelation` compares it with the definition
of the correlation of two rankings. `ValuesAssumption` is the engine's
`ValueAssumption`, for the two instances.

## 3. Runs

Two keys are the fewest that order the records in a file and let one be
deleted while the other stays. A log of two records lets one key be overwritten
or deleted in it. Three numbers of tables allow an old table, a newer one and a
compaction's result; each finding needs two or three. `MCLibrary` has a limit of 2,
so that a memtable is seen below it and at it. `MCCli` has a limit of 1 and a log of three
records: recovery, or a flush that failed before a restart, leaves a memtable at its
limit or above it with room in the log for one more put, which must then flush.

| Run | Instance | Checks |
|---|---|---|
| `MCLibrary` | two values, library user, every failure that leaves the object usable | `TypeOK`, `DurableView`, `AnswersTrue`, `ListMatchesDisk`, `CompactLeavesLive`, `SSTablesImmutable`, `ImplementsKVStore` |
| `MCCli` | one value, limit 1, a log of three records, the process exits at an exception, writes and removals may fail too | `RInv`, the inductive invariant that `DurableView`, `AnswersTrue` and `CompactLeavesLive` are proved from, `RoomInMemtable`, `ImplementsKVStore` |
| `MCLiveness` | every failure but a torn log record, the process exits at an exception, two numbers of tables, fairness | `Responds`, `EventuallyServes`, `ListMatchesDisk` |
| `MCWAL` | three records, one too long for its size field, bytes and sizes below four, a record appended while the log is shorter than eight bytes, every failure | `TypeOK`, `SyncedSurvive`, `NothingInvented`, `LogReplays` |
| `MCSSTable` | three keys, every map over them, files cut after any record, two hashes modulo 16, two bits per record | `TypeOK`, `LookupTrue`, `FormatsAgree`, `LoadAllTrue`, `AnswersAsEngine` |
| `MCKeys` | two keys, halves of two bits, four rounds, reopened with and without shuffling | `TypeOK`, `BytesKeepOrder`, `OwnKeysOnly`, `CacheTrue`, `ImplementsKVStore` |
| `MCCliLoop` | two keys, texts with none, one and two spaces in front, every command with and without its key | `TypeOK`, `PrintsWhatWasTold`, `ErrorEndsProcess`, `EveryLineAnswered` |
| `MCBenchmarks` | every YCSB workload and distribution, up to two records, four transactions, wrong bounds too; or every micro benchmark with three keys, four for compact, in any order | `TypeOK`, `AlwaysFound`, `CountMatches`, `CdfCoversKeys`, `MixRespected`; `MeasuresWhatItNames`, `CompactMergesAll`, `RhoIsCorrelation`, `BenchmarksEnd` |

`MCSSTable` and `MCKeys` take numbers so small that keys do collide: two keys
share bits of the filter; the hashes of the two keys of `MCKeys` share a half,
the permuted position of one is the plain position of the other, and the round
functions are no permutations, so that network and prefix alone have to keep the
keys apart. In
`MCBenchmarks` a `size_t` has three bits: four inserts do not wrap it, and a
count of zero would. It runs one of two programs, the YCSB driver or a micro
benchmark, and the other stays where it starts. The compaction benchmark has four keys, an
even number; the odd ones are in the theorem `CompactMeetsAll` alone.

In `MCWAL` the bytes of operations, sizes, keys and values overlap: what is read
from a wrong place does make records, and the value that is too long for its
field reads as a deletion behind the cut. The bound lets a second record of any
kind be appended behind a short one: the first is synced, and the second fails, is
repeated or is cut, at every byte.

With one value the deletion of a key and its overwriting are still different
records; `MCLibrary` has the second value, with symmetry, as it checks safety
only.

Fairness: `WF_vars(Recovery) /\ WF_vars(Serve)`. The program's thread goes on
by itself when a call or the constructor has begun. That somebody opens the
store again after it went down is assumed as part of `Recovery`. Nothing is
assumed of calls, failures or crashes; `EventuallyServes` speaks of behaviours in which
crashes and failed openings (`OpenFails`) come to an end. `MCCliLoop` has `WF_vars(Handle)`: main's
thread and the call it made go on; nothing is assumed of the user or of kills.
`MCBenchmarks` has weak fairness of its next-state relation: both programs are one
thread that waits for nobody.

### Disagreements with what the repository says

Each of these runs has one property and TLC finds it violated.

| Run | Property | What happens |
|---|---|---|
| `MCTornLog` | `EventuallyServes` | a crash inside `appendRecord` leaves a part of a record; replay throws at every later open |
| `MCTornTable` | `EveryKeyReadable` | a crash inside `writeFromMap` leaves a short file that the next open lists; gets throw, compact cannot repair it |
| `MCRemoveFails` | `DurableView` | `compact` throws before it lists the table it wrote; a deleted key comes back at a later open |
| `MCCloseFails` | `DurableView` | the last write of a table fails unnoticed and the log is emptied |

`MCRemoveFails` needs a caller that goes on after the exception: with
`ExitOnError` the same failure is harmless (`MCCli`, theorem `Durable`), because
the next open lists the files that are there. A failed `writeFromMap`
(`Faults = {"write"}`) leaves such a file in the same way.

Seen while modelling, without a run:

* Sync is no fsync: the failure `power` takes records that were acknowledged, and
  `wal.h:22` speaks of the hard disk.
* A put that threw may be found after a restart: its bytes stay in the stream's
  buffer and are written when the stream is closed.
* A write that fails half way and a close that repeats it leave a log that
  `replay` refuses, although every acknowledged record is in it.
* A failed write of a table, repeated by the stream's destructor, can leave a file that
  reads as records nobody wrote, and the next open lists it: `DurableView` fails with
  `Faults = {"repeat"}` as well, even for a caller that exits.
* Recovery leaves a memtable that has reached its limit as it is; the next put
  or del flushes it, a put of a key that it has already too (`RoomInMemtable`).
* `handlePut` erases one leading space of a value where its comment
  (`main.cpp:21`) says "spaces".

## 4. Proofs

Each theorem holds for every value of the constants that the assumptions of its
module allow. The run `MCCli` checks the inductive invariant `RInv`; the other
invariants (`WALInv`, `SSTableInv`, `CliInv`, `YcsbInv`, `BenchInv`, `ProgressInv`) were found
with TLC on the instances of section 3, as an extra INVARIANT, before they were
proved. Every invariant that a passing run checks is stated by a theorem.

| Theorem | States | Hypothesis |
|---|---|---|
| `TypeCorrect`, `RoomLeft` | `TypeOK`, `RoomInMemtable` of `CauliBase` | none: every set of failures |
| `CallsEnd`, `NeverStuck` | `StepsShrink`, `CanGoOn` of `CauliBaseInv` | none: every set of failures |
| `ListRight`, `TablesImmutable` | `ListMatchesDisk`, `SSTablesImmutable` | `SeenFaults` |
| `Durable`, `AnswersInvariant`, `AnswersRight`, `CompactRight`, `Implements` | `DurableView`, `RInv`, `AnswersTrue`, `CompactLeavesLive`, `ImplementsKVStore` | `SafeFaults` |
| `LogTyped`, `SyncedStay`, `NoneIsInvented`, `LogComplete` | `TypeOK`, `SyncedSurvive`, `NothingInvented`, `LogReplays` of `WAL` | none |
| `TableTyped`, `LookupRight`, `FormatsRight`, `LoadRight`, `EngineRight` | `TypeOK`, `LookupTrue`, `FormatsAgree`, `LoadAllTrue`, `AnswersAsEngine` of `SSTable` | none |
| `StorageKeysDiffer`, `OwnKeys`, `KeysImplement` | storage keys differ, `OwnKeysOnly`, `ImplementsKVStore` of `KeyTransform` | `Distinct` |
| `KeysTyped`, `CacheIsTrue`, `BytesInOrder` | `TypeOK`, `CacheTrue`, `BytesKeepOrder` | none |
| `CliTyped`, `PrintsRight`, `ErrorEnds` | `TypeOK`, `PrintsWhatWasTold`, `ErrorEndsProcess` of `Cli` | none |
| `YcsbTyped`, `AlwaysFinds`, `CountsMatch`, `CdfCovers` | `TypeOK`, `AlwaysFound`, `CountMatches`, `CdfCoversKeys` of `YcsbWorkload` | `NoWrap` |
| `MixKept` | `MixRespected` | none |
| `MeasuresItsName`, `CompactMeetsAll`, `RhoMeasures` | `MeasuresWhatItNames`, `CompactMergesAll`, `RhoIsCorrelation` of `CauliBench` | none |

The hypotheses:

* `SeenFaults`: a caller that sees a table half written or half removed exits, as
  `main.cpp` does (`ErrorEnds`). One that goes on is what `MCRemoveFails` is about.
* `SafeFaults`: that, and none of the three failures that damage data: `close`
  (`MCCloseFails`), `repeat` (a table with records nobody wrote) and `power`, which undoes
  what was synced by definition.
* `Distinct`: the 64-bit hashes of the keys in use differ, and one seed is used.
  With equal hashes the code gives two keys one record.
* `NoWrap`: records and operations together are fewer than a `size_t` counts.
  Without it `current_record_count_` wraps to zero, after 2^64 inserts.

Three assumptions on constants are there for the proofs alone. TLC takes model
values for unequal to everything; a prover has to be told that an exception is
not a map of records (`ErrorAssumption`), that a cache which was not filled is no
metadata (`UnreadAssumption`), and that a call that returned or threw is not a
text (`ReplyAssumption`).

**Engine, under all failures.** `TypeOK` is inductive with `CtlInv`, which says
what the control state knows of the log's buffer and of the numbers: without it
`Sync` might take the head of an empty buffer and `CreateTable` a number out of
range. For the list of tables (`FilesInv`), `ListInv` says which files there are
beside the listed ones at each step and that the new one has the highest number,
`NewFileInv` that a file being written is not a finished one. For the memtable
(`RoomInv`) it is enough that the memtable is finite and that a reset follows
an emptied one; counting its keys needs the theorems on finite sets.

**Engine, the end of calls.** `StepsShrink` says that each step the program takes by
itself, a failing one too, ends what is under way or decreases the pair of `Stage`
(control states, counted from the end) and `Left` (turns that the stage's loop still
has to take), in the order of pairs. `CanGoOn` says that the steps which take
something find it: a record to sync, a first file to list, a least key to write.
`ProgressInv` keeps all maps finite (`FiniteInv`), the loops within their bounds, and
says that a table is begun only with something to write (`BusyInv`): an empty one would
never be sealed. Together they are the safety half of `Responds`, for every instance and every set of
failures and not for two numbers of tables only; that the thread does take
its next step is fairness, and remains with `MCLiveness`.

**Engine, durability.** The log has the map's value for each key that
it has at all (`LogInv`), the memtable holds only records that the log has too
(`MemInv`), so a key in neither is left to the tables, and there its newest
record is the map's (`TablesInv`). To carry `TablesInv` through flush and compact,
the proof needs `ListInv`, what the merge has collected (`MergeInv`), and what of
the new table is written (`NewTableInv`). Removing the oldest table first keeps
`TablesInv` because the compacted table already covers every key it held. `IInv`
is their conjunction.

**Engine, answers and refinement.** `IInv` does not say what an object has cached
of a table, nor what a compaction leaves: `RInv` adds `IndexInv`, that cached
metadata lists the keys of the file as long as there is one, `ResultInv`, and
`OpInv`. `get` looks for the highest position at which some table has the key;
that it exists, and that all above it miss, comes from `GreatestInRange`. The
refinement has one step per action: `Sync` is `Commit`, the first step of a call
`Ask`, the last one `Respond`, an exception `Fail`, a crash drops the call, and all else is a stutter.

**Log.** `replay` is recursive, and what it computes is known in two steps.
`ReadsExists` shows that its equation has a solution at all, although the domain
is infinite: a solution from the place n on extends to n - 1, because a record
ends after it starts. Then a chain names the places at which records start: `Is`
says that bytes are made of a list of records, `Holds` that they begin with it.
`ReplayIs` and `IsReplays` say that a replay that does not throw returns
the records the bytes are made of, and `ChainsAgree` that two chains from one
place agree, so that a log that is cut replays a prefix (`CutPrefix`). `AppendIs`
is the round trip of `Encode`, for records that fit their size fields. In the
invariant `WALInv` the synced records are held by the file up to the first that does
not fit (`SyncedInv`), and file and buffer together are made of all of them as
long as no write has failed (`AllInv`).

**Table.** `SSTableInv`: the records of the file are in the order of their keys
with none left out below the last (`RecsInv`), a footer comes last of all, and
index and filter tell the map (`Faithful`), for the cached ones too, whose
file may have been cut or removed since. Truth of a lookup then rests on three
lemmas: a key in the index is where `lower_bound` puts it, the filter
has every bit of a key that was added to it (hashes, word and size are
arbitrary), and a scan of a whole file meets every key. `EngineRight` ties the
result to the operators `Hits`, `Misses`, `Answer` and `Loadable` of `CauliBase`.

**Keys.** A round of the network is injective because the half that moves over
names the mask of the other, and masking is undone by masking again
(`XorAssumption`); four rounds are then injective, and the prefix keeps permuted
and plain positions apart. `CacheIsTrue` and `OwnKeys` follow with `KeyInv`, which
says of each storage key in use that its writer has it under some options, and of
the call being served that it is for the storage key of the key that was asked.
`BytesInOrder` says that files are laid out in the order of the permutation, which no other
property needs: it compares two positions by the quotients of their `Weight`s: where the
bytes above are equal the quotients are, so the first byte that differs decides; that
there is one comes from `FitsAssumption`. `KeysImplement` maps each step of the store to one of the map over pairs of
options and client's keys.

**Command line.** `CliInv` says what a handler that waits for the store has asked
it, and that the value it writes is already among those the user may be told: so a
kill between the store's step and the answer does no harm.

**YCSB.** `YcsbInv` keeps the two counters equal and says that the database is
all keys below them, but for one insert that is drawn and not done; every
distribution then draws a key that is there.

**Benchmarks.** `BenchInv` says of the engine under measurement, part by part, only what
the benchmark's program and the limit of its store leave possible. Where the memtable
has room for all keys no call ever flushes (`InMemory`), so a get is answered from
memory; `benchGetFromSSTable` flushes once (`Flushing`), and its second object finds one
table and an empty log (`Reopening`). For `benchCompact`, whose limit is one record,
`CompactInv` relates the loop counter, the number of tables and the keys in the map at
each step of a call: a turn may be in the middle of its flush, and its table counts
only once it is listed. That half of the keys are left for the compaction is a
bijection between the odd turns and their halves.

**The measure.** `RhoMeasures` is an identity between sums over permutations of any
length. Sums are folds over finite sets, which are defined by the choice of an element;
a claim about a sum is proved for the smallest set for which it fails, and that makes it
independent of the order. The sums of a permutation's ranks and of their squares are
then those of the first n numbers, and the identity follows by expanding squares.

The library's induction theorems take an operator and cannot be used; where a
proof needs induction it takes the least, or the greatest, number for which a
claim fails (`WellOrder_proofs`).

Only model-checked, and why: liveness (`Responds`, `EventuallyServes`,
`EveryLineAnswered`, `BenchmarksEnd`). The prover has neither `ENABLED` nor fairness;
for `Responds`, `CallsEnd` and `NeverStuck` are what can be said without.

## 5. Not modelled, or not yet

* Failed writes of the log's stream under the engine: `WAL` has them, and shows
  what the next opening finds; `CauliBase` takes a write to the log for one that
  works or, with a crash, is cut. An engine on a stream that is bad answers as one
  whose stream is closed (`AppendRefused`): it throws and changes nothing.
* Sizes above 4 GiB in a table: the log's are in `WAL`, a table's record is one
  element here.
* The memory that `key_cache_` and a long log take.
* The bytes of a table whose failed write is repeated: `CauliBase` has any file such bytes
  can read as, `SSTable` does not have them.
* Two keys with the same 64-bit hash: `Distinct` excludes them. With them, the
  code gives one record to both.
* `block_size` of the options: the constructor checks it, nothing uses it.
* Help texts, the wording of answers; of the benchmarks, argument parsing, timing
  and medians, `prepareKeys`, CSV and hexadecimal output; the values and
  floating-point distributions of the workloads; the `main` of
  `ycsb_workload_generator.cpp`, which prints what the generator gives.
* Names of `.sst` files that the program does not produce.

## 6. Plan

The model is complete but for what section 5 lists, and every safety property that a
passing run checks is a theorem. What is open:

1. `CauliBase`: durability with `close` among the failures, weakened to the
   records of tables that were written in whole.
2. Liveness: the step from `CallsEnd` and `NeverStuck` to `Responds` under fairness, and
   measures of that kind for `Cli` and `CauliBench`.
3. `CauliBase` over the stream of `WAL` with its failed writes, in place of a log that
   is written in whole or torn.
