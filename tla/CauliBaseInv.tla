---------------------------- MODULE CauliBaseInv ----------------------------
(***************************************************************************)
(* The inductive invariant behind the durability of CauliBase: how log,    *)
(* memtable, table files and list of tables depend on each other at each   *)
(* step of a call, as long as the failures are those of SafeFaults.        *)
(***************************************************************************)
EXTENDS CauliBase

\* No failure leaves a table that reads as what was not written, or takes synced records
\* away, and a caller that sees one in the middle of writing or removing a table exits.
SafeFaults == /\ Faults \cap {"repeat", "close", "power"} = {}
              /\ Faults \cap {"write", "remove"} # {} => ExitOnError

Serving == pc \notin {"down", "replay", "load"}

\* The record that put or del of the value v leaves, and the one compact keeps.
RecOf(v) == IF v = None THEN Tombstone ELSE v
Kept(v)  == IF v = None THEN Absent ELSE v

\* What the control state says of the buffer and of the numbers of tables.
CtlInv ==
  /\ pc = "sync" => \E e \in Entry : walBuf = <<e>>
  /\ pc # "sync" => walBuf = <<>>
  /\ pc \in {"sync", "merge", "create"} => NextId \in TableId
  /\ pc \in {"write", "seal", "install"} => newId \in TableId
  /\ pc \in {"replay", "merge", "remove"} => pos \in Nat \ {0}

\* What a call starts with, and which calls reach which steps.
CallInv ==
  /\ pc \in {"down", "replay", "load", "idle"} => merged = NoRecords
  /\ pc \in {"down", "replay", "load", "idle", "sync", "create", "merge"} => newId = 0
  /\ pc \in {"down", "reset"} => memtable = NoRecords
  /\ pc \in {"sync", "install"} => op # "compact"
  /\ pc \in {"merge", "remove"} => op = "compact"

\* The log has the map's value for every key it has at all.
LogInv == \A k \in Key : InWal(k) => WalSays(k, RecOf(kv[k]))

\* While the log is replayed the memtable is the map of the records read so far.
ReplayInv ==
  pc = "replay" =>
    /\ pos <= Len(walFile) + 1
    /\ \A k \in Key :
         \/ /\ memtable[k] = Absent
            /\ \A j \in 1 .. pos-1 : walFile[j].key # k
         \/ \E i \in 1 .. pos-1 :
              /\ walFile[i] = [key |-> k, rec |-> memtable[k]]
              /\ \A j \in i+1 .. pos-1 : walFile[j].key # k

\* A record of the memtable is the map's, and the log can bring it back.
MemInv ==
  /\ pc = "load" \/ Serving =>
       \A k \in Key : memtable[k] # Absent => memtable[k] = RecOf(kv[k]) /\ InWal(k)
  /\ pc = "load" => \A k \in Key : memtable[k] = Absent => ~InWal(k)

\* The newest of the tables' records of k, if there is one, is the map's.
SafeInTables(k) ==
  \/ kv[k] = None /\ \A i \in TableId : tables[i].recs[k] = Absent
  \/ \E i \in TableId : /\ tables[i].recs[k] = RecOf(kv[k])
                        /\ \A j \in TableId : j > i => tables[j].recs[k] = Absent

\* A key is left to the tables only if they are right about it.
TablesInv == \A k \in Key : (IF Serving THEN memtable[k] = Absent ELSE ~InWal(k))
                            => SafeInTables(k)

FileInv == \A i \in TableId : tables[i].state = "none" => tables[i].recs = NoRecords

\* Which files there are beside those of sstables_, and in which order.
ListInv ==
  /\ \A p, q \in DOMAIN sstables : p < q => sstables[p].id < sstables[q].id
  /\ pc \in {"down", "replay"} => sstables = <<>>
  /\ pc = "load" => /\ Listed \subseteq Files
                    /\ \A i \in Listed, j \in Files \ Listed : i < j
  /\ pc \in {"idle", "sync", "create", "merge", "reset", "return"} => Files = Listed
  /\ pc \in {"write", "seal", "install"} => /\ Files = Listed \cup {newId}
                                            /\ \A i \in Listed : i < newId
  /\ pc = "remove" =>
       /\ \A i \in Files : \/ i = newId
                           \/ \E p \in DOMAIN sstables : p >= pos /\ sstables[p].id = i
       /\ newId # 0 => newId \in Files /\ \A i \in Listed : i < newId

\* merged is the map of the records of the tables read so far.
MergeInv ==
  pc = "merge" =>
    /\ pos <= Len(sstables) + 1
    /\ \A k \in Key :
         \/ /\ merged[k] = Absent
            /\ \A p \in 1 .. pos-1 : tables[sstables[p].id].recs[k] = Absent
         \/ \E p \in 1 .. pos-1 :
              /\ merged[k] # Absent
              /\ tables[sstables[p].id].recs[k] = merged[k]
              /\ \A q \in p+1 .. pos-1 : tables[sstables[q].id].recs[k] = Absent

\* The new table has nothing but what it is to have, and all of it once it is whole.
NewTableInv ==
  /\ op = "compact" /\ pc \in {"create", "write", "seal"} =>
       \A k \in Key : merged[k] = Kept(kv[k])
  /\ pc = "write" => \A k \in Key : tables[newId].recs[k] \in {Absent, Source[k]}
  /\ pc = "seal" => \A k \in Key : tables[newId].recs[k] = Source[k]
  /\ pc = "install" => \A k \in Key : tables[newId].recs[k] = memtable[k]
  /\ pc = "remove" /\ newId # 0 => \A k \in Key : tables[newId].recs[k] = Kept(kv[k])
  /\ pc = "remove" /\ newId = 0 => \A k \in Key : kv[k] = None

StoreInv == CallInv /\ LogInv /\ ReplayInv /\ MemInv /\ TablesInv /\ FileInv
            /\ ListInv /\ MergeInv /\ NewTableInv

\* Everything above: it holds initially and every step of the program keeps it.
IInv == TypeOK /\ CtlInv /\ StoreInv

-----------------------------------------------------------------------------
(* What the answers to the client rest on beside that *)

\* A call is being served exactly when the thread is at one of its steps.
OpInv == op = "none" <=> pc \in {"down", "replay", "load", "idle"}

\* The metadata of a table lists the keys of its file, as long as there is one.
IndexInv == \A p \in DOMAIN sstables :
              LET t == sstables[p]
              IN  t.cached /\ t.id \in Files => t.index = Keys(tables[t.id].recs)

\* What compact leaves: the new table alone, or nothing if nothing was live.
ResultInv ==
  op = "compact" /\ pc \in {"reset", "return"} =>
    /\ Files \subseteq {newId}
    /\ \A i \in Files : \A k \in Key : tables[i].recs[k] = Kept(kv[k])
    /\ Files = {} => \A k \in Key : kv[k] = None
    /\ pc = "return" => /\ memtable = NoRecords
                        /\ "truncate" \notin Faults => walFile = <<>>

\* The inductive invariant behind the answers and the refinement of KVStore.
RInv == IInv /\ OpInv /\ IndexInv /\ ResultInv

-----------------------------------------------------------------------------
(* Which files there are, whatever happens to the records in them *)

\* A caller that sees a table half written or half removed exits.
SeenFaults == Faults \cap {"write", "repeat", "remove"} # {} => ExitOnError

\* The file being written is an unfinished one, and has a number only then.
NewFileInv ==
  /\ pc \in {"down", "replay", "load", "idle", "sync", "create", "merge"} => newId = 0
  /\ pc = "write" => tables[newId].state = "torn"
  /\ pc = "seal" => tables[newId].state = "whole"

FilesInv == TypeOK /\ CtlInv /\ ListInv /\ NewFileInv

\* The memtable has finitely many records, fewer than the limit when a call returns.
RoomInv == /\ TypeOK /\ CtlInv
           /\ IsFiniteSet(Keys(memtable))
           /\ pc = "reset" => memtable = NoRecords
           /\ RoomInMemtable
-----------------------------------------------------------------------------
(* How far a call, or the constructor, has come *)

\* The control states, counted from the end of what is under way.
Stage == CASE pc = "idle" -> 0
           [] pc \in {"load", "return"} -> 1
           [] pc \in {"replay", "reset"} -> 2
           [] pc \in {"down", "install", "remove"} -> 3
           [] pc = "seal" -> 4
           [] pc = "write" -> 5
           [] pc = "create" -> 6
           [] OTHER -> 7

\* The turns that the loop of this stage still has to take.
Left == CASE pc = "replay" -> Len(walFile) + 1 - pos
          [] pc = "load" -> Cardinality(Files \ Listed)
          [] pc = "write" -> Cardinality(Remaining)
          [] pc \in {"merge", "remove"} -> Len(sstables) + 1 - pos
          [] OTHER -> 0

\* Stage and turns left go down in the order of pairs of numbers, which has no infinite
\* descent.
Shrinks == /\ {Stage, Stage', Left, Left'} \subseteq Nat
           /\ Stage' < Stage \/ (Stage' = Stage /\ Left' < Left)

\* What is under way has ended: answered, or with an exception.
Ended == pc \in {"idle", "down"}

\* No call and no opening goes on for ever: whatever fails, each of the program's own
\* steps ends it or brings it nearer to its end.
StepsShrink == [][Recovery \/ Serve \/ FileFault => Ended' \/ Shrinks]_vars

\* Nor does one get stuck for want of what its next step takes: the record to be synced,
\* the file to be listed, the key to be written.
CanGoOn == /\ pc = "sync" => walBuf # <<>>
           /\ pc = "load" => Files \subseteq Listed \/ FirstOf(Files \ Listed) # {}
           /\ pc = "write" => \E k \in Remaining : \A j \in Remaining : k <= j

\* All maps are finite.
FiniteInv == /\ IsFiniteSet(Keys(memtable)) /\ IsFiniteSet(Keys(merged))
             /\ \A i \in TableId : IsFiniteSet(Keys(tables[i].recs))

\* No loop is past its end, and a table is begun only with something to write.
BusyInv == /\ pc = "replay" => pos \in 1 .. Len(walFile) + 1
           /\ pc \in {"merge", "remove"} => pos \in 1 .. Len(sstables) + 1
           /\ pc \in {"sync", "install"} => op # "compact"
           /\ pc = "merge" => op = "compact"
           /\ pc = "create" => Keys(Source) # {}
           /\ pc = "write" => Remaining # {}

\* The inductive invariant behind the end of calls.
ProgressInv == TypeOK /\ CtlInv /\ FiniteInv /\ BusyInv
=============================================================================
