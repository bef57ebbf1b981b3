----------------------------- MODULE CauliBase -----------------------------
(***************************************************************************)
(* The storage engine of src/src/cauli_base.cpp with the write-ahead log   *)
(* (wal.cpp) and the sorted tables (sstable.cpp) it drives: put, del, get, *)
(* flush, compact, recovery when the store is opened, and the failures of  *)
(* the process and of the file system between any two of their steps.      *)
(*                                                                         *)
(* The program is one thread, so the steps of a call interleave with       *)
(* nothing but crashes; they are separate actions because each leaves      *)
(* another state on disk.  A table file is kept at the grain of records,   *)
(* a log record is whole or torn.                                          *)
(***************************************************************************)
EXTENDS Integers, Sequences, FiniteSets, FiniteSetsExt

CONSTANTS
  Key,          \* storage keys, in the order std::map keeps them
  Value,        \* values
  None,         \* std::nullopt
  Tombstone,    \* the content of a Record whose tombstone flag is set
  Absent,       \* no record
  Limit,        \* memtable_limit_
  ExitOnError,  \* does the caller exit at the first exception, as main.cpp does?
  Faults,       \* the failures that may happen, a subset of AllFaults
  MaxLog,       \* bound: put and del are accepted while wal.log is shorter
  MaxTableId    \* bound: calls are accepted while the next id is at most this

AllFaults == {"crash",      \* the process dies
              "tear",       \* ... in the middle of the write of a log record
              "create",     \* a table file cannot be created
              "write",      \* an error while a table is written is noticed
              "repeat",     \* ... and the stream's destructor writes its buffer again
              "close",      \* the buffer's last write fails: nobody notices
              "remove",     \* a table file cannot be removed
              "truncate",   \* wal.log cannot be truncated: nobody notices
              "reopen",     \* wal.log cannot be opened, at first or again
              "power"}      \* the machine loses what was not fsync'ed

Rec == Value \cup {Tombstone}
TableId == 1 .. MaxTableId

ASSUME KeyAssumption == Key \subseteq Int
ASSUME ValueAssumption == /\ None \notin Value
                          /\ Tombstone \notin Value
                          /\ Absent \notin Value
                          /\ Absent # Tombstone
ASSUME LimitAssumption == Limit \in Nat
ASSUME ModeAssumption == ExitOnError \in BOOLEAN /\ Faults \subseteq AllFaults
ASSUME BoundAssumption == MaxLog \in Nat /\ MaxTableId \in Nat

VARIABLES
  \* on disk
  walFile,      \* wal.log: the whole records, oldest first
  walTorn,      \* is there a part of a record after them?
  tables,       \* the .sst files by id
  \* in memory
  walBuf,       \* what wal_out_ buffers
  walOpen,      \* is wal_out_ open?
  memtable,     \* memtable_
  sstables,     \* sstables_: for each table its id and its metadata_cache_
  \* where the thread is
  pc, op, pos, merged, newId,
  \* the client's side
  reply,        \* the answer to the latest call
  kv            \* history: the map that the records synced so far add up to

diskVars == <<walFile, walTorn, tables>>
memVars  == <<walBuf, walOpen, memtable, sstables>>
ctlVars  == <<pc, op, pos, merged, newId>>
vars     == <<diskVars, memVars, ctlVars, reply, kv>>

NoRecords == [k \in Key |-> Absent]
NoFile    == [state |-> "none", recs |-> NoRecords]

\* A file is "torn" while it has fewer records than its header counts, "whole"
\* when it has them all but no valid footer, and "sealed" when it is complete.
TableFile == [state : {"none", "torn", "whole", "sealed"},
              recs  : [Key -> Rec \cup {Absent}]]

Entry == [key : Key, rec : Rec]

\* An SSTable object: its file's number and, once writeFromMap has filled it, the
\* keys of its metadata_cache_.
Table == [id : TableId, cached : BOOLEAN, index : SUBSET Key]

FlagsOK == walTorn \in BOOLEAN /\ walOpen \in BOOLEAN

DataOK ==
  /\ walFile \in Seq(Entry)
  /\ tables \in [TableId -> TableFile]
  /\ walBuf \in Seq(Entry)
  /\ memtable \in [Key -> Rec \cup {Absent}]
  /\ sstables \in Seq(Table)
  /\ pc \in {"down", "replay", "load", "idle", "sync", "create", "write", "seal",
             "install", "merge", "remove", "reset", "return"}
  /\ op \in {"none", "put", "del", "flush", "compact"}
  /\ pos \in Nat
  /\ merged \in [Key -> Rec \cup {Absent}]
  /\ newId \in TableId \cup {0}
  /\ reply \in Value \cup {None, "none", "ok", "error"}
  /\ kv \in [Key -> Value \cup {None}]

\* Every variable has its type.
TypeOK == DataOK /\ FlagsOK

-----------------------------------------------------------------------------
(* Operators *)

Keys(recs) == {k \in Key : recs[k] # Absent}

\* What a client sees of a key whose newest record is r.
Visible(r) == IF r \in Value THEN r ELSE None

Files       == {i \in TableId : tables[i].state # "none"}
Listed      == {sstables[p].id : p \in DOMAIN sstables}
\* Slip: the next number is taken from the number of tables.
CountedId   == Cardinality(Listed) + 1
NextId      == Max({0} \cup Listed) + 1

\* SSTable::get: the metadata, when there is any, decides whether the record is
\* read at all; without it the records are scanned up to the first larger key.
Indexed(t, k) == t.cached => k \in t.index
Hits(t, k)    == /\ tables[t.id].state # "none"
                 /\ Indexed(t, k)
                 /\ tables[t.id].recs[k] # Absent
Misses(t, k)  == /\ tables[t.id].state # "none"
                 /\ \/ ~Indexed(t, k)
                    \/ /\ ~t.cached
                       /\ tables[t.id].recs[k] = Absent
                       /\ \/ tables[t.id].state \in {"whole", "sealed"}
                          \/ \E j \in Keys(tables[t.id].recs) : j > k

\* Slip: begin() for rbegin(), a search from the oldest table.
SearchFromOldest(k, p) ==
  \/ p = 0 /\ \A q \in DOMAIN sstables : Misses(sstables[q], k)
  \/ /\ p \in DOMAIN sstables
     /\ \A q \in 1 .. p-1 : Misses(sstables[q], k)
     /\ ~Misses(sstables[p], k)

\* The table at which a search of sstables_ from the newest ends, 0 if it passes all.
SearchEndsAt(k, p) ==
  /\ p \in 0 .. Len(sstables)
  /\ \A q \in p+1 .. Len(sstables) : Misses(sstables[q], k)
  /\ p > 0 => ~Misses(sstables[p], k)

\* Slip: a tombstone in the memtable sends the search on to the tables.
ValueInMemtable(k) == memtable[k] \in Value
InMemtable(k)      == memtable[k] # Absent

\* What CauliBase::get returns.
Answer(k) ==
  IF InMemtable(k)
  THEN Visible(memtable[k])
  ELSE LET p == CHOOSE p \in 0 .. Len(sstables) : SearchEndsAt(k, p)
       IN  IF p = 0 THEN None
           ELSE IF Hits(sstables[p], k) THEN Visible(tables[sstables[p].id].recs[k])
           ELSE "error"

\* The std::map that SSTable::writeFromMap is given.
Source == IF op = "compact" THEN merged ELSE memtable

\* The keys still to be written to the new table.
Remaining == {k \in Keys(Source) : tables[newId].recs[k] = Absent}

\* The records that come before key k in a file.
Before(recs, k) == [j \in Key |-> IF j < k THEN recs[j] ELSE Absent]

\* Slip: a loop does not move on.
SamePos == pos
NextPos == pos + 1

\* Slip: emplace for the assignment, the older record stays.
Under(recs, older) == [k \in Key |-> IF older[k] # Absent THEN older[k] ELSE recs[k]]

\* The records of recs take the place of older ones.
Over(recs, older) == [k \in Key |-> IF recs[k] # Absent THEN recs[k] ELSE older[k]]

-----------------------------------------------------------------------------
(* How a call ends *)

Control(at, i) == pc' = at /\ pos' = i

Quiet == op' = "none" /\ merged' = NoRecords /\ newId' = 0

Forget == /\ walBuf' = <<>>
          /\ walOpen' = FALSE
          /\ memtable' = NoRecords
          /\ sstables' = <<>>

\* An exception leaves the call, wal_out_ being open or not.  A library user may
\* call again on the same object; main.cpp leaves the process and its memory.
Throw(open) == /\ Quiet
               /\ reply' = "error"
               /\ kv' = kv
               /\ IF ExitOnError
                  THEN Control("down", 0) /\ Forget
                  ELSE /\ Control("idle", 0)
                       /\ walOpen' = open
                       /\ UNCHANGED <<walBuf, memtable, sstables>>

Done == /\ Quiet
        /\ Control("idle", 0)
        /\ reply' = "ok"
        /\ kv' = kv

-----------------------------------------------------------------------------
(* Opening the store *)

Open == /\ pc = "down"
        /\ walOpen' = TRUE
        /\ Control("replay", 1)
        /\ UNCHANGED <<diskVars, walBuf, memtable, sstables, op, merged, newId, reply, kv>>

ReplayRecord ==
  /\ pc = "replay"
  /\ pos <= Len(walFile)
  /\ memtable' = [memtable EXCEPT ![walFile[pos].key] = walFile[pos].rec]
  /\ Control("replay", NextPos)
  /\ UNCHANGED <<diskVars, walBuf, walOpen, sstables, op, merged, newId, reply, kv>>

ReplayEnd == /\ pc = "replay"
             /\ pos > Len(walFile)
             /\ ~walTorn
             /\ Control("load", 0)
             /\ UNCHANGED <<diskVars, memVars, op, merged, newId, reply, kv>>

\* A part of a record makes replay throw, and with it the constructor.
ReplayRefused == /\ pc = "replay"
                 /\ pos > Len(walFile)
                 /\ walTorn
                 /\ Control("down", 0)
                 /\ Forget
                 /\ reply' = "error"
                 /\ UNCHANGED <<diskVars, op, merged, newId, kv>>

\* The directory or a file of it cannot be opened: no object comes to be.
OpenFails == /\ pc \in {"down", "replay", "load"}
             /\ "reopen" \in Faults
             /\ Quiet
             /\ Control("down", 0)
             /\ Forget
             /\ reply' = "error"
             /\ UNCHANGED <<diskVars, kv>>

\* Slip: the files are listed in the order of the directory.
AnyOf(ids)   == ids
FirstOf(ids) == {i \in ids : \A j \in ids : i <= j}

\* The files are listed in the order of their numbers; none is read.
LoadTable == /\ pc = "load"
             /\ \E i \in FirstOf(Files \ Listed) :
                  sstables' = Append(sstables, [id |-> i, cached |-> FALSE, index |-> {}])
             /\ UNCHANGED <<diskVars, walBuf, walOpen, memtable, ctlVars, reply, kv>>

LoadEnd == /\ pc = "load"
           /\ Files \subseteq Listed
           /\ Control("idle", 0)
           /\ reply' = "none"
           /\ UNCHANGED <<diskVars, memVars, op, merged, newId, kv>>

-----------------------------------------------------------------------------
(* put and del *)

Accepting == pc = "idle" /\ NextId \in TableId

Append1(name, k, r) ==
  /\ Accepting
  /\ Len(walFile) < MaxLog
  /\ walOpen
  /\ walBuf' = Append(walBuf, [key |-> k, rec |-> r])
  /\ op' = name
  /\ Control("sync", 0)
  /\ reply' = "none"
  /\ UNCHANGED <<diskVars, walOpen, memtable, sstables, merged, newId, kv>>

Put(k, v) == Append1("put", k, v)
Del(k)    == Append1("del", k, Tombstone)

\* WAL::appendRecord throws when reset could not open the file again.
AppendRefused == /\ pc = "idle"
                 /\ ~walOpen
                 /\ Throw(walOpen)
                 /\ UNCHANGED diskVars

\* Slip: == for >=, which a memtable that was full already goes past.
JustFull(recs) == Cardinality(Keys(recs)) = Limit
Full(recs)     == Cardinality(Keys(recs)) >= Limit

\* sync, the memtable's update and maybeFlush: nothing else reaches the disk.
Sync ==
  LET e    == Head(walBuf)
      mem  == [memtable EXCEPT ![e.key] = e.rec]
  IN  /\ pc = "sync"
      /\ walFile' = Append(walFile, e)
      /\ walBuf' = Tail(walBuf)
      /\ memtable' = mem
      /\ kv' = [kv EXCEPT ![e.key] = Visible(e.rec)]
      /\ IF Full(mem) THEN Control("create", 0) ELSE Control("return", 0)
      /\ UNCHANGED <<walTorn, tables, walOpen, sstables, op, merged, newId, reply>>

Return == /\ pc = "return"
          /\ Done
          /\ UNCHANGED <<diskVars, memVars>>

Get(k) == /\ pc = "idle"
          /\ Answer(k) # "error"
          /\ reply' = Answer(k)
          /\ UNCHANGED <<diskVars, memVars, ctlVars, kv>>

GetThrows(k) == /\ pc = "idle"
                /\ Answer(k) = "error"
                /\ Throw(walOpen)
                /\ UNCHANGED diskVars

-----------------------------------------------------------------------------
(* Writing a table: SSTable::writeFromMap, for flush and for compact *)

FlushEmpty == /\ pc = "idle"
              /\ memtable = NoRecords
              /\ Done
              /\ UNCHANGED <<diskVars, memVars>>

Flush == /\ Accepting
         /\ memtable # NoRecords
         /\ op' = "flush"
         /\ Control("create", 0)
         /\ reply' = "none"
         /\ UNCHANGED <<diskVars, memVars, merged, newId, kv>>

\* Slip: the log is reset before the table is written.
CreateAfterReset ==
  /\ pc = "create"
  /\ newId' = NextId
  /\ tables' = [tables EXCEPT ![NextId] = [state |-> "torn", recs |-> NoRecords]]
  /\ walFile' = <<>>
  /\ Control("write", 0)
  /\ UNCHANGED <<walTorn, memVars, op, merged, reply, kv>>

\* std::ios::trunc: a file of that name is emptied.
CreateTable == /\ pc = "create"
               /\ newId' = NextId
               /\ tables' = [tables EXCEPT ![NextId] = [state |-> "torn", recs |-> NoRecords]]
               /\ Control("write", 0)
               /\ UNCHANGED <<walFile, walTorn, memVars, op, merged, reply, kv>>

CreateFails == /\ pc = "create"
               /\ "create" \in Faults
               /\ Throw(walOpen)
               /\ UNCHANGED diskVars

\* Records go out in the order of their keys.
WriteRecord ==
  /\ pc = "write"
  /\ \E k \in Remaining :
       /\ \A j \in Remaining : k <= j
       /\ tables' = [tables EXCEPT ![newId] =
                      [state |-> IF Remaining = {k} THEN "whole" ELSE "torn",
                       recs  |-> [@.recs EXCEPT ![k] = Source[k]]]]
       /\ Control(IF Remaining = {k} THEN "seal" ELSE "write", 0)
  /\ UNCHANGED <<walFile, walTorn, memVars, op, merged, newId, reply, kv>>

AfterSeal == IF op = "compact" THEN Control("remove", 1) ELSE Control("install", 0)

\* Index, bloom filter, footer; the stream's destructor closes the file.
Seal == /\ pc = "seal"
        /\ tables' = [tables EXCEPT ![newId].state = "sealed"]
        /\ AfterSeal
        /\ UNCHANGED <<walFile, walTorn, memVars, op, merged, newId, reply, kv>>

\* The part of the file that was still buffered does not get there, and the
\* destructor has nobody to tell.
CloseFails ==
  /\ pc = "seal"
  /\ "close" \in Faults
  /\ \/ UNCHANGED tables
     \/ \E k \in Keys(Source) :
          tables' = [tables EXCEPT ![newId] = [state |-> "torn", recs |-> Before(Source, k)]]
  /\ AfterSeal
  /\ UNCHANGED <<walFile, walTorn, memVars, op, merged, newId, reply, kv>>

WriteFails == /\ pc \in {"write", "seal"}
              /\ "write" \in Faults
              /\ Throw(walOpen)
              /\ UNCHANGED diskVars

\* After an error the stream has the bytes it tried to write still, and its destructor
\* appends them again: from the record that was cut on, whatever stands there is read.
WriteRepeats ==
  /\ pc \in {"write", "seal"}
  /\ "repeat" \in Faults
  /\ \E k \in Keys(Source), state \in {"torn", "whole"}, rest \in [Key -> Rec \cup {Absent}] :
       /\ IsFiniteSet(Keys(rest))
       /\ tables' = [tables EXCEPT ![newId] =
                      [state |-> state,
                       recs  |-> [j \in Key |-> IF j < k THEN Source[j] ELSE rest[j]]]]
  /\ Throw(walOpen)
  /\ UNCHANGED <<walFile, walTorn>>

\* flush: the new table is the newest, the memtable is cleared.
Install ==
  /\ pc = "install"
  /\ sstables' = Append(sstables, [id |-> newId, cached |-> TRUE, index |-> Keys(memtable)])
  /\ memtable' = NoRecords
  /\ Control("reset", 0)
  /\ UNCHANGED <<diskVars, walBuf, walOpen, op, merged, newId, reply, kv>>

-----------------------------------------------------------------------------
(* compact *)

Compact == /\ Accepting
           /\ op' = "compact"
           /\ Control("merge", 1)
           /\ reply' = "none"
           /\ UNCHANGED <<diskVars, memVars, merged, newId, kv>>

Loadable(i) == tables[i].state \in {"whole", "sealed"}

\* SSTable::loadAll of the table at pos; what it holds overrides what older ones did.
MergeTable ==
  /\ pc = "merge"
  /\ pos <= Len(sstables)
  /\ Loadable(sstables[pos].id)
  /\ merged' = Over(tables[sstables[pos].id].recs, merged)
  /\ Control("merge", NextPos)
  /\ UNCHANGED <<diskVars, memVars, op, newId, reply, kv>>

MergeFails == /\ pc = "merge"
              /\ pos <= Len(sstables)
              /\ ~Loadable(sstables[pos].id)
              /\ Throw(walOpen)
              /\ UNCHANGED diskVars

\* The memtable overrides the tables, then the tombstones go.
Overlay    == Over(memtable, merged)
Live(recs) == [k \in Key |-> IF recs[k] = Tombstone THEN Absent ELSE recs[k]]

\* Slip: the tombstones go before the memtable's are there.
LiveTooEarly == Over(memtable, Live(merged))
Survivors    == Live(Overlay)

MergeEnd == /\ pc = "merge"
            /\ pos > Len(sstables)
            /\ merged' = Survivors
            /\ IF merged' = NoRecords THEN Control("remove", 1) ELSE Control("create", 0)
            /\ UNCHANGED <<diskVars, memVars, op, newId, reply, kv>>

\* Slip: the old tables are removed newest first.
NewestLeft == sstables[Len(sstables) + 1 - pos].id
OldestLeft == sstables[pos].id

\* std::filesystem::remove of a file that is not there is no error.
RemoveTable ==
  /\ pc = "remove"
  /\ pos <= Len(sstables)
  /\ tables' = [tables EXCEPT ![OldestLeft] = NoFile]
  /\ Control("remove", NextPos)
  /\ UNCHANGED <<walFile, walTorn, memVars, op, merged, newId, reply, kv>>

RemoveFails == /\ pc = "remove"
               /\ pos <= Len(sstables)
               /\ "remove" \in Faults
               /\ Throw(walOpen)
               /\ UNCHANGED diskVars

NewTable == <<[id |-> newId, cached |-> FALSE, index |-> {}]>>

\* Slips: the new table is listed even if none was written, or after the old ones.
ListedAlways == NewTable
ListedAfter  == IF newId = 0 THEN sstables ELSE sstables \o NewTable
ListedAlone  == IF newId = 0 THEN <<>> ELSE NewTable

Swap == /\ pc = "remove"
        /\ pos > Len(sstables)
        /\ sstables' = ListedAlone
        /\ memtable' = NoRecords
        /\ Control("reset", 0)
        /\ UNCHANGED <<diskVars, walBuf, walOpen, op, merged, newId, reply, kv>>

-----------------------------------------------------------------------------
(* WAL::reset, the last step of flush and of compact *)

\* The stream that truncates the file is not checked.
Truncate == \/ walFile' = <<>>
            \/ "truncate" \in Faults /\ walFile' = walFile

Reset == /\ pc = "reset"
         /\ Truncate
         /\ walOpen' = TRUE
         /\ Control("return", 0)
         /\ UNCHANGED <<walTorn, tables, walBuf, memtable, sstables, op, merged, newId, reply, kv>>

ReopenFails == /\ pc = "reset"
               /\ "reopen" \in Faults
               /\ Truncate
               /\ Throw(FALSE)
               /\ UNCHANGED <<walTorn, tables>>

-----------------------------------------------------------------------------
(* Failures of the process and of the machine *)

Die == /\ pc # "down"
       /\ Quiet
       /\ Control("down", 0)
       /\ Forget
       /\ reply' = "none"
       /\ kv' = kv

\* A record is torn when the process dies while appendRecord or sync writes it.
Crash == /\ "crash" \in Faults
         /\ Die
         /\ \/ walTorn' = walTorn
            \/ /\ "tear" \in Faults
               /\ walBuf # <<>>
               /\ walTorn' = TRUE
         /\ UNCHANGED <<walFile, tables>>

\* sync hands the records to the system; only fsync would make them last.
PowerLoss == /\ "power" \in Faults
             /\ Die
             /\ \E n \in 0 .. Len(walFile) : walFile' = SubSeq(walFile, 1, n)
             /\ UNCHANGED <<walTorn, tables>>

-----------------------------------------------------------------------------
Init == /\ walFile = <<>> /\ walTorn = FALSE
        /\ tables = [i \in TableId |-> NoFile]
        /\ walBuf = <<>> /\ walOpen = FALSE
        /\ memtable = NoRecords /\ sstables = <<>>
        /\ pc = "down" /\ op = "none" /\ pos = 0
        /\ merged = NoRecords /\ newId = 0
        /\ reply = "none"
        /\ kv = [k \in Key |-> None]

Recovery == \/ Open \/ ReplayRecord \/ ReplayEnd \/ ReplayRefused
            \/ LoadTable \/ LoadEnd

\* What the client may ask for in "idle".
Call == \/ \E k \in Key, v \in Value : Put(k, v)
        \/ \E k \in Key : Del(k) \/ Get(k) \/ GetThrows(k)
        \/ AppendRefused \/ FlushEmpty \/ Flush \/ Compact

\* What the program does by itself to serve a call.
Serve == \/ Sync \/ Return
         \/ CreateTable \/ WriteRecord \/ Seal \/ Install
         \/ MergeTable \/ MergeFails \/ MergeEnd \/ RemoveTable \/ Swap \/ Reset

FileFault == \/ OpenFails \/ CreateFails \/ WriteFails \/ WriteRepeats
             \/ CloseFails \/ RemoveFails \/ ReopenFails

Next == Recovery \/ Call \/ Serve \/ FileFault \/ Crash \/ PowerLoss

Spec == Init /\ [][Next]_vars

\* The program's own steps do not stop; nobody has to call, nothing has to fail.
Fairness == WF_vars(Recovery) /\ WF_vars(Serve)
FairSpec == Spec /\ Fairness

-----------------------------------------------------------------------------
(* What the files hold, whoever reads them *)

InWal(k) == \E i \in DOMAIN walFile : walFile[i].key = k

\* r is the last record of k in the log.
WalSays(k, r) == \E i \in DOMAIN walFile :
                   /\ walFile[i] = [key |-> k, rec |-> r]
                   /\ \A j \in DOMAIN walFile : j > i => walFile[j].key # k

\* r is the record of k in the newest table that has one.
TablesSay(k, r) ==
  \/ r = Absent /\ \A i \in TableId : tables[i].recs[k] = Absent
  \/ r # Absent /\ \E i \in TableId :
                     /\ tables[i].recs[k] = r
                     /\ \A j \in TableId : j > i => tables[j].recs[k] = Absent

DiskSays(k, r) == IF InWal(k) THEN WalSays(k, r) ELSE TablesSay(k, r)

-----------------------------------------------------------------------------
(* Properties *)

\* Durability, at every step of every call: the newest record of each key among
\* the log and the table files is the one of the last put or del that was synced.
\* A store that opens now recovers the whole map ("If program crashes, data can be
\* recovered from log files", wal.h); a torn log keeps it from opening, but loses
\* no record.
DurableView == \A k \in Key : \E r \in Rec \cup {Absent} :
                 DiskSays(k, r) /\ Visible(r) = kv[k]

\* Between calls the object in memory answers every get with the map's value:
\* memtable_, the order of sstables_, the cached metadata and the files agree,
\* whatever was cut short before.  A get may throw only if a listed table was cut.
AnswersTrue ==
  pc = "idle" => \A k \in Key : \/ Answer(k) = kv[k]
                                \/ /\ Answer(k) = "error"
                                   /\ \E i \in Listed : ~Loadable(i)

\* Between calls sstables_ lists the files of the directory, oldest first; a file
\* it missed would be overwritten by the next flush or come back when reopened.
ListMatchesDisk ==
  pc = "idle" => /\ Listed = Files
                 /\ \A p, q \in DOMAIN sstables : p < q => sstables[p].id < sstables[q].id

\* After compact one file at most is left, it has the live keys and no tombstone, and
\* neither the memtable nor the log shadows it: a log whose truncation failed unnoticed
\* would replay what the file says.
CompactLeavesLive ==
  pc = "return" /\ op = "compact" =>
    /\ Cardinality(Files) <= 1
    /\ memtable = NoRecords
    /\ \/ walFile = <<>>
       \/ /\ "truncate" \in Faults
          /\ \A k \in Key : InWal(k) => \E r \in Rec : WalSays(k, r) /\ Visible(r) = kv[k]
    /\ \A i \in Files : \A k \in Key :
         tables[i].recs[k] = (IF kv[k] = None THEN Absent ELSE kv[k])
    /\ Files = {} => kv = [k \in Key |-> None]

\* "Check if memtable size reaches memtable_limit_, and flush if so": recovery may leave
\* a memtable at its limit or, with failed flushes, above it, and nobody flushes it then;
\* the first put or del that is answered has done so.
RoomInMemtable ==
  pc = "return" /\ memtable # NoRecords => Cardinality(Keys(memtable)) < Limit

\* "immutable data files in disk" (cauli_base.h): a finished table never changes;
\* it can only be removed.
SSTablesImmutable ==
  [][\A i \in TableId : tables[i].state = "sealed" => tables'[i] \in {tables[i], NoFile}]_tables

\* The log is there to recover from crashes ("wal_: recovery from crashes"): no get
\* of a store that only ever crashed throws.
EveryKeyReadable == pc = "idle" => \A k \in Key : Answer(k) # "error"

\* Every call ends: with its answer, with an exception or with the process.
Responds == op # "none" ~> op = "none"

\* Once crashes stop, and the system lets files be opened, the store is open and idle
\* again and again.
EventuallyServes == <>[][~(Crash \/ OpenFails)]_vars => []<>(pc = "idle")

\* The changes that are not durable yet, for the abstract map.
Pending == {[key |-> walBuf[i].key, val |-> Visible(walBuf[i].rec)] : i \in DOMAIN walBuf}

KV == INSTANCE KVStore WITH todo <- Pending

\* CauliBase implements the durable map of KVStore.
ImplementsKVStore == KV!KVSpec
=============================================================================
