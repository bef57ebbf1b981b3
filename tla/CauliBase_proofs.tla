-------------------------- MODULE CauliBase_proofs --------------------------
(***************************************************************************)
(* Theorems about CauliBase, for every set of keys and values, every limit *)
(* and every bound.  The first part is about the engine with every kind of *)
(* failure: types, what may follow what, numbers of tables, room in the    *)
(* memtable, the end of every call.  The second is the proof that, under   *)
(* the failures of SafeFaults, nothing is lost that was synced and that    *)
(* the engine implements the durable map of KVStore: the parts of IInv,    *)
(* one action at a time; then what get answers, what compact leaves, and   *)
(* every step of the engine as a step of the abstract map.                 *)
(***************************************************************************)
EXTENDS CauliBaseInv, SequenceTheorems, WellOrder_proofs

TInv == TypeOK /\ CtlInv

USE DEF diskVars, memVars, ctlVars, Control, Quiet

LEMMA EmptyTypes ==
  /\ NoRecords \in [Key -> Rec \cup {Absent}]
  /\ NoFile \in TableFile
  /\ [state |-> "torn", recs |-> NoRecords] \in TableFile
  BY DEF NoRecords, NoFile, TableFile

LEMMA VisibleType == \A r : Visible(r) \in Value \cup {None}
  BY DEF Visible

LEMMA FlagsStep == FlagsOK /\ [Next]_vars => FlagsOK'
<1> SUFFICES ASSUME FlagsOK, [Next]_vars PROVE FlagsOK'
  OBVIOUS
<1> USE DEF FlagsOK
<1>1. ASSUME NEW open \in BOOLEAN, Throw(open), walTorn' = walTorn PROVE FlagsOK'
  BY <1>1 DEF Throw, Forget
<1>2. CASE Recovery
  BY <1>2 DEF Recovery, Open, ReplayRecord, ReplayEnd, ReplayRefused, LoadTable, LoadEnd, Forget
<1>3. CASE Call
  BY <1>1, <1>3 DEF Call, Put, Del, Append1, Get, GetThrows, AppendRefused, FlushEmpty, Flush, Compact
<1>4. CASE Serve
  BY <1>1, <1>4 DEF Serve, Sync, Return, CreateTable, WriteRecord, Seal, Install, MergeTable,
                    MergeFails, MergeEnd, RemoveTable, Swap, Reset
<1>5. CASE FileFault
  BY <1>1, <1>5 DEF FileFault, OpenFails, Forget, CreateFails, WriteFails, WriteRepeats, CloseFails,
                    RemoveFails, ReopenFails
<1>6. CASE Crash \/ PowerLoss
  BY <1>6 DEF Crash, PowerLoss, Die, Forget
<1>7. CASE UNCHANGED vars
  BY <1>7 DEF vars
<1> QED BY <1>2, <1>3, <1>4, <1>5, <1>6, <1>7 DEF Next

LEMMA ThrowType ==
  ASSUME DataOK, CtlInv, pc # "sync", NEW open, Throw(open),
         walFile' \in Seq(Entry), tables' \in [TableId -> TableFile]
  PROVE  DataOK' /\ CtlInv'
<1>1. walBuf' = <<>>
  BY DEF Throw, Forget, CtlInv
<1>2. DataOK'
  <2>1. CASE ExitOnError
    BY <2>1, EmptyTypes DEF DataOK, Throw, Forget
  <2>2. CASE ~ExitOnError
    BY <2>2, EmptyTypes DEF DataOK, Throw
  <2> QED BY <2>1, <2>2
<1>3. CtlInv'
  <2>1. pc' \in {"down", "idle"}
    BY DEF Throw
  <2> QED BY <1>1, <2>1 DEF CtlInv
<1> QED BY <1>2, <1>3

LEMMA RecoveryType == TInv /\ Recovery => DataOK' /\ CtlInv'
<1> SUFFICES ASSUME DataOK, CtlInv, Recovery PROVE DataOK' /\ CtlInv'
  BY DEF TInv, TypeOK
<1> USE DEF CtlInv, NextId, Listed
<1>1. CASE Open
  BY <1>1 DEF DataOK, Open
<1>2. CASE ReplayRecord
  <2>1. walFile[pos] \in Entry
    BY <1>2 DEF DataOK, ReplayRecord, NextPos
  <2>2. memtable' \in [Key -> Rec \cup {Absent}]
    BY <1>2, <2>1 DEF DataOK, ReplayRecord, NextPos, Entry
  <2>3. DataOK'
    BY <1>2, <2>2 DEF DataOK, ReplayRecord, NextPos
  <2> QED BY <1>2, <2>3 DEF ReplayRecord, NextPos, DataOK
<1>3. CASE ReplayEnd
  BY <1>3 DEF DataOK, ReplayEnd
<1>4. CASE ReplayRefused
  BY <1>4, EmptyTypes DEF DataOK, ReplayRefused, Forget
<1>5. CASE LoadTable
  <2>1. PICK i \in TableId : sstables' = Append(sstables, [id |-> i, cached |-> FALSE, index |-> {}])
    BY <1>5 DEF LoadTable, FirstOf, Files
  <2>2. [id |-> i, cached |-> FALSE, index |-> {}] \in Table
    BY DEF Table
  <2>3. sstables' \in Seq(Table)
    BY <2>1, <2>2 DEF DataOK
  <2> QED BY <1>5, <2>3 DEF DataOK, LoadTable, FirstOf
<1>6. CASE LoadEnd
  BY <1>6 DEF DataOK, LoadEnd
<1> QED BY <1>1, <1>2, <1>3, <1>4, <1>5, <1>6 DEF Recovery

LEMMA CallType == TInv /\ Call => DataOK' /\ CtlInv'
<1> SUFFICES ASSUME DataOK, CtlInv, Call PROVE DataOK' /\ CtlInv'
  BY DEF TInv, TypeOK
<1> USE DEF NextId, Listed
<1>1. ASSUME NEW name \in {"put", "del"}, NEW k \in Key, NEW r \in Rec, Append1(name, k, r)
      PROVE  DataOK' /\ CtlInv'
  <2>1. /\ [key |-> k, rec |-> r] \in Entry
        /\ walBuf' = <<[key |-> k, rec |-> r]>>
    BY <1>1 DEF Append1, Accepting, CtlInv, Entry
  <2>2. DataOK'
    BY <1>1, <2>1 DEF DataOK, Append1
  <2>3. CtlInv'
    BY <1>1, <2>1 DEF CtlInv, Append1, Accepting
  <2> QED BY <2>2, <2>3
<1>2. ASSUME NEW k \in Key, NEW v \in Value, Put(k, v) PROVE DataOK' /\ CtlInv'
  BY <1>1, <1>2 DEF Put, Rec
<1>3. ASSUME NEW k \in Key, Del(k) PROVE DataOK' /\ CtlInv'
  BY <1>1, <1>3 DEF Del, Rec
<1>4. ASSUME NEW k \in Key, Get(k) PROVE DataOK' /\ CtlInv'
  <2>1. Answer(k) \in Value \cup {None}
    <3>1. \A r : Visible(r) \in Value \cup {None}
      BY VisibleType
    <3> QED BY <1>4, <3>1 DEF Answer, Get
  <2>2. DataOK'
    BY <1>4, <2>1 DEF DataOK, Get
  <2>3. CtlInv'
    BY <1>4 DEF CtlInv, Get
  <2> QED BY <2>2, <2>3
<1>5. ASSUME NEW k \in Key, GetThrows(k) PROVE DataOK' /\ CtlInv'
  BY <1>5, ThrowType DEF DataOK, GetThrows
<1>6. CASE AppendRefused
  BY <1>6, ThrowType DEF DataOK, AppendRefused
<1>7. CASE FlushEmpty
  BY <1>7, EmptyTypes DEF DataOK, CtlInv, FlushEmpty, Done
<1>8. CASE Flush
  BY <1>8 DEF DataOK, CtlInv, Flush, Accepting
<1>9. CASE Compact
  BY <1>9 DEF DataOK, CtlInv, Compact, Accepting
<1> QED BY <1>2, <1>3, <1>4, <1>5, <1>6, <1>7, <1>8, <1>9 DEF Call

LEMMA SourceType == DataOK => Source \in [Key -> Rec \cup {Absent}]
  BY DEF DataOK, Source

LEMMA WriteType ==
  ASSUME DataOK, CtlInv, CreateTable \/ WriteRecord \/ Seal \/ Install
  PROVE  DataOK' /\ CtlInv'
<1> USE DEF NextId, Listed
<1>1. CASE CreateTable
  <2>1. NextId \in TableId /\ tables' \in [TableId -> TableFile]
    BY <1>1, EmptyTypes DEF CreateTable, CtlInv, DataOK
  <2>2. DataOK'
    BY <1>1, <2>1 DEF DataOK, CreateTable
  <2> QED BY <1>1, <2>1, <2>2 DEF CtlInv, CreateTable
<1>2. CASE WriteRecord
  <2>1. newId \in TableId
    BY <1>2 DEF WriteRecord, CtlInv
  <2>2. PICK k \in Remaining, st \in {"whole", "torn"} :
          /\ tables' = [tables EXCEPT ![newId] =
                          [state |-> st, recs |-> [tables[newId].recs EXCEPT ![k] = Source[k]]]]
          /\ pc' \in {"seal", "write"} /\ pos' = 0
    BY <1>2 DEF WriteRecord
  <2>3. k \in Key /\ Source[k] \in Rec \cup {Absent}
    BY SourceType DEF Remaining, Keys
  <2>4. tables' \in [TableId -> TableFile]
    BY <2>1, <2>2, <2>3 DEF DataOK, TableFile
  <2>5. DataOK'
    BY <1>2, <2>2, <2>4 DEF DataOK, WriteRecord
  <2> QED BY <1>2, <2>1, <2>2, <2>5 DEF CtlInv, WriteRecord
<1>3. CASE Seal
  <2>1. newId \in TableId
    BY <1>3 DEF Seal, CtlInv
  <2>2. tables' \in [TableId -> TableFile]
    BY <1>3, <2>1 DEF DataOK, TableFile, Seal
  <2>3. DataOK'
    BY <1>3, <2>2 DEF DataOK, Seal, AfterSeal
  <2> QED BY <1>3, <2>1, <2>3 DEF CtlInv, Seal, AfterSeal
<1>4. CASE Install
  <2>1. newId \in TableId /\ Keys(memtable) \subseteq Key
    BY <1>4 DEF Install, CtlInv, Keys
  <2>2. [id |-> newId, cached |-> TRUE, index |-> Keys(memtable)] \in Table
    BY <2>1 DEF Table
  <2>3. sstables' \in Seq(Table)
    BY <1>4, <2>2 DEF DataOK, Install
  <2>4. DataOK'
    BY <1>4, <2>3, EmptyTypes DEF DataOK, Install
  <2> QED BY <1>4, <2>4 DEF CtlInv, Install
<1> QED BY <1>1, <1>2, <1>3, <1>4

LEMMA CompactType ==
  ASSUME DataOK, CtlInv, MergeTable \/ MergeEnd \/ RemoveTable \/ Swap
  PROVE  DataOK' /\ CtlInv'
<1> USE DEF NextId, Listed
<1>1. CASE MergeTable
  <2>1. tables[sstables[pos].id].recs \in [Key -> Rec \cup {Absent}]
    <3>1. sstables[pos] \in Table
      BY <1>1 DEF MergeTable, Over, NextPos, DataOK, CtlInv
    <3>2. tables[sstables[pos].id] \in TableFile
      BY <3>1 DEF DataOK, Table
    <3> QED BY <3>2 DEF TableFile
  <2>2. merged' \in [Key -> Rec \cup {Absent}]
    BY <1>1, <2>1 DEF MergeTable, Over, NextPos, DataOK
  <2>3. DataOK'
    BY <1>1, <2>2 DEF DataOK, MergeTable, Over, NextPos
  <2> QED BY <1>1, <2>3 DEF CtlInv, MergeTable, Over, NextPos, DataOK
<1>2. CASE MergeEnd
  <2>1. merged' \in [Key -> Rec \cup {Absent}]
    BY <1>2 DEF MergeEnd, Survivors, Live, Overlay, Over, DataOK
  <2>2. DataOK'
    BY <1>2, <2>1 DEF DataOK, MergeEnd, Survivors
  <2> QED BY <1>2, <2>2 DEF CtlInv, MergeEnd, Survivors
<1>3. CASE RemoveTable
  <2>1. tables' \in [TableId -> TableFile]
    BY <1>3, EmptyTypes DEF DataOK, RemoveTable, OldestLeft, NextPos
  <2>2. DataOK'
    BY <1>3, <2>1 DEF DataOK, RemoveTable, OldestLeft, NextPos
  <2> QED BY <1>3, <2>2 DEF CtlInv, RemoveTable, OldestLeft, NextPos, DataOK
<1>4. CASE Swap
  <2>1. newId # 0 => [id |-> newId, cached |-> FALSE, index |-> {}] \in Table
    BY DEF Table, DataOK
  <2>2. sstables' \in Seq(Table)
    BY <1>4, <2>1 DEF DataOK, Swap, NewTable, ListedAlone
  <2>3. DataOK'
    BY <1>4, <2>2, EmptyTypes DEF DataOK, Swap, NewTable, ListedAlone
  <2> QED BY <1>4, <2>3 DEF CtlInv, Swap, NewTable, ListedAlone
<1> QED BY <1>1, <1>2, <1>3, <1>4

LEMMA LogType ==
  ASSUME DataOK, CtlInv, Sync \/ Reset \/ Return
  PROVE  DataOK' /\ CtlInv'
<1> USE DEF NextId, Listed
<1>1. CASE Sync
  <2>1. PICK e \in Entry : walBuf = <<e>>
    BY <1>1 DEF CtlInv, Sync
  <2>2. Head(walBuf) = e /\ Tail(walBuf) = <<>>
    BY <2>1
  <2>3. /\ walFile' \in Seq(Entry)
        /\ walBuf' = <<>>
    BY <1>1, <2>1, <2>2 DEF Sync, DataOK
  <2>4. /\ memtable' \in [Key -> Rec \cup {Absent}]
        /\ kv' \in [Key -> Value \cup {None}]
    BY <1>1, <2>1, <2>2, VisibleType DEF Sync, DataOK, Entry
  <2>5. pc' \in {"create", "return"} /\ pos' = 0
    BY <1>1 DEF Sync
  <2>6. UNCHANGED <<tables, sstables, op, merged, newId, reply>>
    BY <1>1 DEF Sync
  <2>7. DataOK'
    BY <2>3, <2>4, <2>5, <2>6 DEF DataOK
  <2> QED BY <1>1, <2>3, <2>5, <2>6, <2>7 DEF CtlInv, Sync
<1>2. CASE Reset
  BY <1>2 DEF DataOK, CtlInv, Reset, Truncate
<1>3. CASE Return
  BY <1>3, EmptyTypes DEF DataOK, CtlInv, Return, Done
<1> QED BY <1>1, <1>2, <1>3

\* A table whose stream wrote its buffer twice is some file of finitely many records.
LEMMA RepeatedFile ==
  ASSUME WriteRepeats, memtable \in [Key -> Rec \cup {Absent}], merged \in [Key -> Rec \cup {Absent}]
  PROVE  \E state \in {"torn", "whole"}, recs \in [Key -> Rec \cup {Absent}] :
           /\ tables' = [tables EXCEPT ![newId] = [state |-> state, recs |-> recs]]
           /\ IsFiniteSet(Keys(Source)) => IsFiniteSet(Keys(recs))
<1>1. PICK k \in Keys(Source), state \in {"torn", "whole"}, rest \in [Key -> Rec \cup {Absent}] :
             /\ IsFiniteSet(Keys(rest))
             /\ tables' = [tables EXCEPT ![newId] =
                            [state |-> state,
                             recs  |-> [j \in Key |-> IF j < k THEN Source[j] ELSE rest[j]]]]
  BY DEF WriteRepeats
<1> DEFINE recs == [j \in Key |-> IF j < k THEN Source[j] ELSE rest[j]]
<1>2. recs \in [Key -> Rec \cup {Absent}]
  BY DEF Source
<1>3. ASSUME IsFiniteSet(Keys(Source)) PROVE IsFiniteSet(Keys(recs))
  <2>1. Keys(recs) \subseteq Keys(Source) \cup Keys(rest)
    BY DEF Keys
  <2>2. IsFiniteSet(Keys(Source) \cup Keys(rest))
    BY <1>1, <1>3, FS_Union
  <2> QED BY <2>1, <2>2, FS_Subset
<1> QED BY <1>1, <1>2, <1>3

LEMMA FaultType == DataOK /\ CtlInv /\ (FileFault \/ MergeFails) => DataOK' /\ CtlInv'
<1> SUFFICES ASSUME DataOK, CtlInv, FileFault \/ MergeFails PROVE DataOK' /\ CtlInv'
  OBVIOUS
<1>1. CASE CreateFails \/ WriteFails \/ RemoveFails \/ MergeFails
  BY <1>1, ThrowType DEF DataOK, CreateFails, WriteFails, RemoveFails, MergeFails
<1>2. CASE ReopenFails
  <2>1. walFile' \in Seq(Entry)
    <3>1. Truncate
      BY <1>2 DEF ReopenFails
    <3>2. walFile' = <<>> \/ walFile' = walFile
      BY <3>1 DEF Truncate
    <3>3. walFile \in Seq(Entry) /\ <<>> \in Seq(Entry)
      BY DEF DataOK
    <3> QED BY <3>2, <3>3
  <2>2. tables' \in [TableId -> TableFile]
    BY <1>2 DEF ReopenFails, DataOK
  <2>3. Throw(FALSE) /\ pc # "sync"
    BY <1>2 DEF ReopenFails
  <2> QED BY <2>1, <2>2, <2>3, ThrowType
<1>3. CASE CloseFails
  <2>1. newId \in TableId
    BY <1>3 DEF CloseFails, CtlInv
  <2>2. \A k : Before(Source, k) \in [Key -> Rec \cup {Absent}]
    BY SourceType DEF Before
  <2>3. tables' \in [TableId -> TableFile]
    <3>1. CASE tables' = tables
      BY <3>1 DEF DataOK
    <3>2. ASSUME NEW k \in Keys(Source),
                 tables' = [tables EXCEPT ![newId] = [state |-> "torn", recs |-> Before(Source, k)]]
          PROVE  tables' \in [TableId -> TableFile]
      <4>1. [state |-> "torn", recs |-> Before(Source, k)] \in TableFile
        BY <2>2 DEF TableFile
      <4> QED BY <2>1, <3>2, <4>1 DEF DataOK
    <3> QED BY <1>3, <3>1, <3>2 DEF CloseFails
  <2>4. DataOK'
    BY <1>3, <2>3 DEF DataOK, CloseFails, AfterSeal
  <2> QED BY <1>3, <2>1, <2>4 DEF CtlInv, CloseFails, AfterSeal
<1>4. CASE WriteRepeats
  <2>1. PICK state \in {"torn", "whole"}, recs \in [Key -> Rec \cup {Absent}] :
               tables' = [tables EXCEPT ![newId] = [state |-> state, recs |-> recs]]
    BY <1>4, RepeatedFile DEF DataOK
  <2>2. [state |-> state, recs |-> recs] \in TableFile
    BY DEF TableFile
  <2>3. tables' \in [TableId -> TableFile]
    BY <2>1, <2>2 DEF DataOK
  <2> QED BY <1>4, <2>3, ThrowType DEF WriteRepeats, DataOK
<1>5. CASE OpenFails
  BY <1>5, EmptyTypes DEF OpenFails, Quiet, Forget, DataOK, CtlInv
<1> QED BY <1>1, <1>2, <1>3, <1>4, <1>5 DEF FileFault

LEMMA DieType == DataOK /\ (Crash \/ PowerLoss) => DataOK' /\ CtlInv'
<1> SUFFICES ASSUME DataOK, Crash \/ PowerLoss PROVE DataOK' /\ CtlInv'
  OBVIOUS
<1>1. walFile' \in Seq(Entry)
  <2>1. \A n \in 0 .. Len(walFile) : SubSeq(walFile, 1, n) \in Seq(Entry)
    BY SubSeqProperties DEF DataOK
  <2> QED BY <2>1 DEF DataOK, Crash, PowerLoss
<1>2. Die /\ tables' = tables
  BY DEF Crash, PowerLoss
<1>3. DataOK'
  BY <1>1, <1>2, EmptyTypes DEF DataOK, Die, Forget
<1> QED BY <1>2, <1>3 DEF CtlInv, Die, Forget

LEMMA InitType == Init => TInv
<1> SUFFICES ASSUME Init PROVE TInv
  OBVIOUS
<1>1. FlagsOK
  BY DEF Init, FlagsOK
<1>2. DataOK
  BY EmptyTypes DEF Init, DataOK
<1> QED BY <1>1, <1>2 DEF Init, TInv, TypeOK, CtlInv

LEMMA TInvStep == TInv /\ [Next]_vars => TInv'
<1> SUFFICES ASSUME TInv, [Next]_vars PROVE DataOK' /\ CtlInv'
  BY FlagsStep DEF TInv, TypeOK
<1>0. DataOK /\ CtlInv
  BY DEF TInv, TypeOK
<1>1. CASE Recovery
  BY <1>1, RecoveryType
<1>2. CASE Call
  BY <1>2, CallType
<1>3. CASE Serve
  BY <1>0, <1>3, WriteType, CompactType, LogType, FaultType DEF Serve
<1>4. CASE FileFault
  BY <1>0, <1>4, FaultType
<1>5. CASE Crash \/ PowerLoss
  BY <1>0, <1>5, DieType
<1>6. CASE UNCHANGED vars
  BY <1>0, <1>6 DEF vars, DataOK, CtlInv, NextId, Listed
<1> QED BY <1>1, <1>2, <1>3, <1>4, <1>5, <1>6 DEF Next

\* Every variable keeps its type, whatever fails: no file number out of range, no
\* record read or removed past the end of sstables_, no table without a number.
THEOREM TypeCorrect == Spec => []TypeOK
<1>1. Init => TInv
  BY InitType
<1>2. TInv /\ [Next]_vars => TInv'
  BY TInvStep
<1>3. TInv => TypeOK
  BY DEF TInv
<1> QED BY <1>1, <1>2, <1>3, PTL DEF Spec

-----------------------------------------------------------------------------
(* The files and the list of them *)

LEMMA MaxOfSet ==
  ASSUME NEW S, \E m \in S : \A i \in S : m >= i
  PROVE  Max(S) \in S /\ \A i \in S : Max(S) >= i
  BY DEF Max

\* In an ascending list of tables the next number is above every one of them.
LEMMA NextIdAbove ==
  ASSUME sstables \in Seq(Table),
         \A p, q \in DOMAIN sstables : p < q => sstables[p].id < sstables[q].id
  PROVE  NextId \in Nat \ {0} /\ \A i \in Listed : i < NextId
<1> DEFINE S == {0} \cup Listed
<1>1. \A p \in DOMAIN sstables : sstables[p].id \in Nat \ {0}
  <2>1. \A p \in DOMAIN sstables : sstables[p] \in Table
    OBVIOUS
  <2>2. \A t \in Table : t.id \in TableId
    BY DEF Table
  <2>3. TableId \subseteq Nat \ {0}
    BY BoundAssumption DEF TableId
  <2> QED BY <2>1, <2>2, <2>3
<1>2. S \subseteq Nat
  BY <1>1 DEF Listed
<1>3. \E m \in S : \A i \in S : m >= i
  <2>1. CASE sstables = <<>>
    BY <2>1 DEF Listed
  <2>2. CASE sstables # <<>>
    <3>1. Len(sstables) \in DOMAIN sstables /\ DOMAIN sstables = 1 .. Len(sstables)
      BY <2>2
    <3>2. \A p \in DOMAIN sstables : sstables[p].id <= sstables[Len(sstables)].id
      <4> SUFFICES ASSUME NEW p \in DOMAIN sstables
                   PROVE  sstables[p].id <= sstables[Len(sstables)].id
        OBVIOUS
      <4>1. p = Len(sstables) \/ p < Len(sstables)
        BY <3>1
      <4>2. p < Len(sstables) => sstables[p].id < sstables[Len(sstables)].id
        BY <3>1
      <4>3. sstables[p].id \in Nat /\ sstables[Len(sstables)].id \in Nat
        BY <1>1, <3>1
      <4> QED BY <4>1, <4>2, <4>3
    <3>3. sstables[Len(sstables)].id \in S
      BY <3>1 DEF Listed
    <3>4. ASSUME NEW i \in S PROVE sstables[Len(sstables)].id >= i
      <4>1. CASE i = 0
        BY <1>1, <3>1, <4>1
      <4>2. CASE i \in Listed
        <5>1. PICK p \in DOMAIN sstables : i = sstables[p].id
          BY <4>2 DEF Listed
        <5> QED BY <1>1, <3>1, <3>2, <5>1
      <4> QED BY <4>1, <4>2
    <3> QED BY <3>3, <3>4
  <2> QED BY <2>1, <2>2
<1>4. Max(S) \in S /\ \A i \in S : Max(S) >= i
  <2> HIDE DEF S
  <2> QED BY <1>3, MaxOfSet
<1>5. NextId = Max(S) + 1
  BY DEF NextId
<1>6. Max(S) \in Nat /\ Listed \subseteq Nat /\ \A i \in Listed : Max(S) >= i
  BY <1>2, <1>4
<1> HIDE DEF S
<1> QED BY <1>5, <1>6


\* Neither the files nor the list change, nor what a step may assume about them.
LEMMA FilesSame ==
  ASSUME FilesInv, UNCHANGED <<tables, sstables>>,
         \/ UNCHANGED <<pc, pos, newId>>
         \/ /\ pc \in {"idle", "sync", "create", "merge", "reset", "return"}
            /\ pc' \in {"idle", "sync", "create", "merge", "reset", "return"}
            /\ pc' \in {"idle", "sync", "create", "merge"} => newId' = 0
  PROVE  ListInv' /\ NewFileInv'
<1>1. Files' = Files /\ Listed' = Listed
  BY DEF Files, Listed
<1> QED BY <1>1 DEF FilesInv, ListInv, NewFileInv

\* The memory is gone; the files are as they were.
LEMMA FilesDown ==
  ASSUME pc' = "down", sstables' = <<>>, newId' = 0
  PROVE  ListInv' /\ NewFileInv'
  BY DEF ListInv, NewFileInv

LEMMA FilesThrow ==
  ASSUME FilesInv, NEW open, Throw(open), tables' = tables,
         pc \in {"idle", "create", "merge", "reset"} \/ ExitOnError
  PROVE  ListInv' /\ NewFileInv'
<1>1. CASE ExitOnError
  BY <1>1, FilesDown DEF Throw, Forget
<1>2. CASE ~ExitOnError
  BY <1>2, FilesSame DEF Throw
<1> QED BY <1>1, <1>2

LEMMA FilesRecovery == ASSUME FilesInv, Recovery PROVE ListInv' /\ NewFileInv'
<1>1. CASE ReplayRefused
  BY <1>1, FilesDown DEF ReplayRefused, Forget, FilesInv, NewFileInv
<1>2. CASE LoadTable
  <2>1. PICK i \in Files \ Listed :
          /\ \A j \in Files \ Listed : i <= j
          /\ sstables' = Append(sstables, [id |-> i, cached |-> FALSE, index |-> {}])
          /\ UNCHANGED <<tables, pc, newId>> /\ pc = "load"
    BY <1>2 DEF LoadTable, FirstOf
  <2>2. sstables \in Seq(Table)
    BY DEF FilesInv, TypeOK, DataOK
  <2>3. /\ Len(sstables') = Len(sstables) + 1
        /\ DOMAIN sstables' = 1 .. Len(sstables) + 1
        /\ \A p \in DOMAIN sstables : sstables'[p] = sstables[p]
        /\ sstables'[Len(sstables) + 1].id = i
    BY <2>1, <2>2
  <2>4. Listed' = Listed \cup {i} /\ Files' = Files
    BY <2>1, <2>2, <2>3 DEF Listed, Files
  <2>5. Listed \subseteq Files /\ \A l \in Listed, j \in Files \ Listed : l < j
    BY <2>1 DEF FilesInv, ListInv
  <2>6. \A p, q \in DOMAIN sstables' : p < q => sstables'[p].id < sstables'[q].id
    BY <2>1, <2>2, <2>3, <2>5 DEF FilesInv, ListInv, Listed
  <2>7. \A l \in Listed \cup {i}, j \in Files \ (Listed \cup {i}) : l < j
    <3>1. Files \subseteq TableId
      BY DEF Files
    <3> QED BY <2>1, <2>5, <3>1, BoundAssumption DEF TableId
  <2> QED BY <2>1, <2>4, <2>5, <2>6, <2>7 DEF ListInv, NewFileInv, FilesInv
<1>3. CASE Open \/ ReplayRecord \/ ReplayEnd \/ LoadEnd
  <2>1. /\ UNCHANGED <<tables, sstables, newId>>
        /\ \/ pc = "down" /\ pc' = "replay"
           \/ pc = "replay" /\ pc' \in {"replay", "load"}
           \/ pc = "load" /\ pc' = "idle" /\ Files \subseteq Listed
    BY <1>3 DEF Open, ReplayRecord, ReplayEnd, LoadEnd
  <2>2. Files' = Files /\ Listed' = Listed
    BY <2>1 DEF Files, Listed
  <2>3. pc' = "load" => Listed = {}
    BY <2>1 DEF FilesInv, ListInv, Listed
  <2> QED BY <2>1, <2>2, <2>3 DEF FilesInv, ListInv, NewFileInv
<1> QED BY <1>1, <1>2, <1>3 DEF Recovery

LEMMA FilesCall == ASSUME FilesInv, Call PROVE ListInv' /\ NewFileInv'
<1>1. pc = "idle" => newId = 0
  BY DEF FilesInv, NewFileInv
<1>2. ASSUME NEW k \in Key, GetThrows(k) PROVE ListInv' /\ NewFileInv'
  BY <1>2, FilesThrow DEF GetThrows
<1>3. CASE AppendRefused
  BY <1>3, FilesThrow DEF AppendRefused
<1>4. CASE \/ \E k \in Key, v \in Value : Put(k, v)
           \/ \E k \in Key : Del(k) \/ Get(k)
           \/ FlushEmpty \/ Flush \/ Compact
  BY <1>1, <1>4, FilesSame DEF Put, Del, Append1, Accepting, Get, FlushEmpty, Done, Flush, Compact
<1> QED BY <1>2, <1>3, <1>4 DEF Call

\* A new file has a number above every other, and nobody lists it until it is finished.
LEMMA FilesWrite ==
  ASSUME FilesInv, CreateTable \/ WriteRecord \/ Seal \/ CloseFails
  PROVE  ListInv' /\ NewFileInv'
<1>1. sstables' = sstables /\ Listed' = Listed /\ tables \in [TableId -> TableFile]
  BY DEF CreateTable, WriteRecord, Seal, CloseFails, Listed, FilesInv, TypeOK, DataOK
<1>2. CASE CreateTable
  <2>1. NextId \in TableId /\ Files = Listed /\ \A i \in Listed : i < NextId
    BY <1>2, NextIdAbove DEF CreateTable, FilesInv, TypeOK, DataOK, CtlInv, ListInv
  <2>2. Files' = Files \cup {NextId} /\ tables'[NextId].state = "torn"
    BY <1>1, <1>2, <2>1 DEF CreateTable, Files
  <2> QED BY <1>1, <1>2, <2>1, <2>2 DEF CreateTable, FilesInv, ListInv, NewFileInv
<1>3. CASE WriteRecord \/ Seal \/ CloseFails
  <2>1. /\ newId \in TableId /\ newId' = newId /\ newId \in Files /\ newId # 0
        /\ Files = Listed \cup {newId} /\ \A i \in Listed : i < newId
        /\ pc \in {"write", "seal"}
    BY <1>3, BoundAssumption DEF WriteRecord, Seal, CloseFails, FilesInv, CtlInv, ListInv, TableId
  <2>2. tables[newId].state # "none" /\ tables[newId] \in TableFile
    BY <1>1, <2>1 DEF Files
  <2>3. /\ \A i \in TableId \ {newId} : tables'[i] = tables[i]
        /\ tables'[newId].state # "none"
        /\ \/ pc' = "write" /\ tables'[newId].state = "torn"
           \/ pc' = "seal" /\ tables'[newId].state = "whole"
           \/ pc' = "install"
           \/ pc' = "remove" /\ pos' = 1
    <3>1. CASE WriteRecord
      BY <1>1, <2>1, <3>1 DEF WriteRecord
    <3>2. CASE Seal
      <4>1. tables' = [tables EXCEPT ![newId] = [tables[newId] EXCEPT !.state = "sealed"]]
        BY <3>2 DEF Seal
      <4> QED BY <1>1, <2>1, <2>2, <3>2, <4>1 DEF Seal, AfterSeal, TableFile
    <3>3. CASE CloseFails
      BY <1>1, <2>1, <2>2, <3>3 DEF CloseFails, AfterSeal
    <3> QED BY <1>3, <3>1, <3>2, <3>3
  <2>4. Files' = Files
    BY <2>1, <2>2, <2>3 DEF Files
  <2>5. \A i \in Listed : \E p \in DOMAIN sstables : p >= 1 /\ sstables[p].id = i
    BY DEF Listed, FilesInv, TypeOK, DataOK
  <2> QED BY <1>1, <2>1, <2>3, <2>4, <2>5 DEF FilesInv, ListInv, NewFileInv
<1> QED BY <1>2, <1>3

LEMMA FilesInstall == ASSUME FilesInv, Install PROVE ListInv' /\ NewFileInv'
<1>1. /\ newId \in TableId /\ sstables \in Seq(Table) /\ tables' = tables
      /\ Files = Listed \cup {newId} /\ \A i \in Listed : i < newId
      /\ sstables' = Append(sstables, [id |-> newId, cached |-> TRUE, index |-> Keys(memtable)])
      /\ pc' = "reset"
  BY DEF Install, FilesInv, TypeOK, DataOK, CtlInv, ListInv
<1>2. /\ DOMAIN sstables = 1 .. Len(sstables)
      /\ DOMAIN sstables' = 1 .. Len(sstables) + 1
      /\ Len(sstables) \in Nat
      /\ \A p \in DOMAIN sstables : sstables'[p] = sstables[p]
      /\ sstables'[Len(sstables) + 1].id = newId
  BY <1>1
<1>3. Listed' = Listed \cup {newId} /\ Files' = Files
  BY <1>1, <1>2 DEF Listed, Files
<1>4. \A p, q \in DOMAIN sstables' : p < q => sstables'[p].id < sstables'[q].id
  BY <1>1, <1>2 DEF FilesInv, ListInv, Listed
<1> QED BY <1>1, <1>3, <1>4 DEF ListInv, NewFileInv

\* compact removes the tables it listed, in order, and keeps its new one.
LEMMA FilesRemove == ASSUME FilesInv, RemoveTable \/ Swap PROVE ListInv' /\ NewFileInv'
<1>1. /\ pc = "remove" /\ pos \in Nat /\ sstables \in Seq(Table)
      /\ \A p, q \in DOMAIN sstables : p < q => sstables[p].id < sstables[q].id
      /\ \A i \in Files : \/ i = newId
                          \/ \E p \in DOMAIN sstables : p >= pos /\ sstables[p].id = i
      /\ newId # 0 => newId \in Files /\ \A i \in Listed : i < newId
      /\ tables \in [TableId -> TableFile] /\ newId \in TableId \cup {0}
  BY DEF RemoveTable, Swap, FilesInv, TypeOK, DataOK, ListInv
<1>2. 0 \notin TableId /\ TableId \subseteq Nat
  BY BoundAssumption DEF TableId
<1>3. CASE RemoveTable
  <2> DEFINE gone == sstables[pos].id
  <2>1. pos \in DOMAIN sstables /\ pos' = pos + 1 /\ pc' = "remove"
        /\ UNCHANGED <<sstables, newId>>
    BY <1>1, <1>3 DEF RemoveTable, NextPos, FilesInv, CtlInv
  <2>2. gone \in Listed /\ gone \in TableId
    <3>1. sstables[pos] \in Table
      BY <1>1, <2>1
    <3> QED BY <2>1, <3>1 DEF Listed, Table
  <2>3. Files' = Files \ {gone} /\ Listed' = Listed
    BY <1>1, <1>3, <2>1, <2>2 DEF RemoveTable, OldestLeft, Files, NoFile, Listed
  <2>4. newId # 0 => newId # gone
    BY <1>1, <1>2, <2>2
  <2>5. \A i \in Files' : \/ i = newId
                          \/ \E p \in DOMAIN sstables : p >= pos+1 /\ sstables[p].id = i
    <3> SUFFICES ASSUME NEW i \in Files, i # gone, NEW p \in DOMAIN sstables, p >= pos, sstables[p].id = i
                 PROVE  p >= pos+1
      BY <1>1, <2>3
    <3> QED BY <1>1
  <2> QED BY <1>1, <2>1, <2>3, <2>4, <2>5 DEF ListInv, NewFileInv
<1>4. CASE Swap
  <2>1. pos > Len(sstables) /\ UNCHANGED <<tables, newId>> /\ pc' = "reset"
        /\ sstables' = IF newId = 0 THEN <<>> ELSE <<[id |-> newId, cached |-> FALSE, index |-> {}]>>
    BY <1>4 DEF Swap, ListedAlone, NewTable
  <2>2. Files' = Files /\ Files = {newId} \ {0}
    <3>1. \A i \in Files : i = newId
      BY <1>1, <2>1
    <3> QED BY <1>1, <1>2, <2>1, <3>1 DEF Files
  <2>3. CASE newId = 0
    BY <2>1, <2>2, <2>3 DEF ListInv, NewFileInv, Listed
  <2>4. CASE newId # 0
    <3>1. DOMAIN sstables' = {1} /\ sstables'[1].id = newId
      BY <2>1, <2>4
    <3>2. Listed' = {newId}
      BY <3>1 DEF Listed
    <3> QED BY <2>1, <2>2, <2>4, <3>1, <3>2 DEF ListInv, NewFileInv
  <2> QED BY <2>3, <2>4
<1> QED BY <1>3, <1>4

LEMMA FilesServe == ASSUME FilesInv, Serve PROVE ListInv' /\ NewFileInv'
<1>1. CASE MergeFails
  BY <1>1, FilesThrow DEF MergeFails
<1>2. CASE Sync \/ Return \/ MergeTable \/ Reset
  BY <1>2, FilesSame DEF Sync, Return, Done, MergeTable, Reset, FilesInv, NewFileInv
<1>3. CASE MergeEnd
  <2>1. /\ UNCHANGED <<tables, sstables, newId>> /\ newId = 0 /\ Files = Listed
        /\ pc = "merge" /\ (pc' = "create" \/ (pc' = "remove" /\ pos' = 1))
    BY <1>3 DEF MergeEnd, FilesInv, NewFileInv, ListInv
  <2>2. Files' = Files /\ Listed' = Listed
    BY <2>1 DEF Files, Listed
  <2>3. \A i \in Listed : \E p \in DOMAIN sstables : p >= 1 /\ sstables[p].id = i
    BY DEF Listed, FilesInv, TypeOK, DataOK
  <2> QED BY <2>1, <2>2, <2>3 DEF FilesInv, ListInv, NewFileInv
<1> QED BY <1>1, <1>2, <1>3, FilesWrite, FilesInstall, FilesRemove DEF Serve

LEMMA FilesFault == ASSUME SeenFaults, FilesInv, FileFault PROVE ListInv' /\ NewFileInv'
<1>1. CASE CreateFails \/ ReopenFails
  BY <1>1, FilesThrow DEF CreateFails, ReopenFails
<1>2. CASE WriteFails \/ RemoveFails
  BY <1>2, FilesThrow DEF SeenFaults, WriteFails, RemoveFails
<1>3. CASE OpenFails \/ WriteRepeats
  <2>1. pc' = "down" /\ sstables' = <<>> /\ newId' = 0
    BY <1>3 DEF OpenFails, WriteRepeats, SeenFaults, Throw, Quiet, Control, Forget
  <2> QED BY <2>1, FilesDown
<1> QED BY <1>1, <1>2, <1>3, FilesWrite DEF FileFault

LEMMA FilesStep == SeenFaults /\ FilesInv /\ [Next]_vars => FilesInv'
<1> SUFFICES ASSUME SeenFaults, FilesInv, [Next]_vars PROVE ListInv' /\ NewFileInv'
  BY TInvStep DEF FilesInv, TInv
<1>1. CASE Crash \/ PowerLoss
  BY <1>1, FilesDown DEF Crash, PowerLoss, Die, Forget
<1>2. CASE UNCHANGED vars
  BY <1>2, FilesSame DEF vars
<1> QED BY <1>1, <1>2, FilesRecovery, FilesCall, FilesServe, FilesFault DEF Next

LEMMA InitFiles == Init => FilesInv
<1> SUFFICES ASSUME Init PROVE FilesInv
  OBVIOUS
<1>1. TInv
  BY InitType
<1>2. ListInv /\ NewFileInv
  BY DEF Init, ListInv, NewFileInv
<1> QED BY <1>1, <1>2 DEF FilesInv, TInv

LEMMA FilesInvariant == ASSUME SeenFaults PROVE Spec => []FilesInv
<1>1. Init => FilesInv
  BY InitFiles
<1>2. FilesInv /\ [Next]_vars => FilesInv'
  BY FilesStep
<1> QED BY <1>1, <1>2, PTL DEF Spec

\* Between calls sstables_ is the directory, oldest file first, whatever failed, as long
\* as a caller that saw a table half written or half removed left the process.
THEOREM ListRight == ASSUME SeenFaults PROVE Spec => []ListMatchesDisk
<1>1. FilesInv => ListMatchesDisk
  BY DEF FilesInv, ListInv, ListMatchesDisk
<1> QED BY <1>1, FilesInvariant, PTL

LEMMA SealedStep ==
  ASSUME FilesInv, [Next]_vars, NEW i \in TableId, tables[i].state = "sealed"
  PROVE  tables'[i] \in {tables[i], NoFile}
<1>1. tables \in [TableId -> TableFile]
  BY DEF FilesInv, TypeOK, DataOK
<1>2. CASE CreateTable
  <2>1. \A j \in Files : j < NextId /\ j \in Nat
    BY <1>2, NextIdAbove, BoundAssumption
       DEF CreateTable, FilesInv, TypeOK, DataOK, ListInv, Files, TableId
  <2>2. i # NextId
    BY <2>1 DEF Files
  <2> QED BY <1>1, <1>2, <2>2 DEF CreateTable
<1>3. CASE WriteRecord \/ Seal \/ CloseFails \/ WriteRepeats
  <2>1. i # newId
    BY <1>3 DEF WriteRecord, Seal, CloseFails, WriteRepeats, FilesInv, NewFileInv
  <2> QED BY <1>1, <1>3, <2>1 DEF WriteRecord, Seal, CloseFails, WriteRepeats
<1>4. CASE RemoveTable
  BY <1>1, <1>4 DEF RemoveTable
<1>5. CASE Recovery \/ Call \/ Crash \/ PowerLoss \/ UNCHANGED vars
  BY <1>5 DEF Recovery, Open, ReplayRecord, ReplayEnd, ReplayRefused, LoadTable, LoadEnd,
     Call, Put, Del, Append1, Get, GetThrows, AppendRefused, FlushEmpty, Flush, Compact,
     Crash, PowerLoss, vars
<1>6. CASE \/ Sync \/ Return \/ Install \/ MergeTable \/ MergeFails \/ MergeEnd \/ Swap \/ Reset
           \/ OpenFails \/ CreateFails \/ WriteFails \/ RemoveFails \/ ReopenFails
  BY <1>6 DEF Sync, Return, Install, MergeTable, MergeFails, MergeEnd, Swap, Reset,
     OpenFails, CreateFails, WriteFails, RemoveFails, ReopenFails
<1> QED BY <1>2, <1>3, <1>4, <1>5, <1>6 DEF Next, Serve, FileFault

\* A finished table never changes: no new table takes the number of one that is there,
\* no failed write reaches back to one, only compact removes it.
THEOREM TablesImmutable == ASSUME SeenFaults PROVE Spec => SSTablesImmutable
<1>1. FilesInv /\ [Next]_vars =>
        [\A i \in TableId : tables[i].state = "sealed" => tables'[i] \in {tables[i], NoFile}]_tables
  BY SealedStep
<1> QED BY <1>1, FilesInvariant, PTL DEF Spec, SSTablesImmutable

-----------------------------------------------------------------------------
(* The room in the memtable *)

\* One more record in a finite memtable leaves it finite.
LEMMA KeysFinite ==
  ASSUME IsFiniteSet(Keys(memtable)), NEW k, NEW r, memtable' = [memtable EXCEPT ![k] = r],
         memtable \in [Key -> Rec \cup {Absent}]
  PROVE  IsFiniteSet(Keys(memtable'))
<1>1. IsFiniteSet(Keys(memtable) \cup {k})
  BY FS_AddElement
<1>2. Keys(memtable') \subseteq Keys(memtable) \cup {k}
  BY DEF Keys
<1> QED BY <1>1, <1>2, FS_Subset

LEMMA NoKeys == Keys(NoRecords) = {} /\ IsFiniteSet({})
  BY FS_EmptySet DEF Keys, NoRecords

LEMMA RoomStep == RoomInv /\ [Next]_vars => RoomInv'
<1> SUFFICES ASSUME RoomInv, [Next]_vars
             PROVE  /\ IsFiniteSet(Keys(memtable'))
                    /\ pc' = "reset" => memtable' = NoRecords
                    /\ RoomInMemtable'
  <2>1. Keys(memtable)' = Keys(memtable')
    BY DEF Keys
  <2> QED BY <2>1, TInvStep DEF RoomInv, TInv
<1> DEFINE Goal == /\ IsFiniteSet(Keys(memtable'))
                   /\ pc' = "reset" => memtable' = NoRecords
                   /\ RoomInMemtable'
<1>1. memtable \in [Key -> Rec \cup {Absent}] /\ IsFiniteSet(Keys(memtable))
  BY DEF RoomInv, TypeOK, DataOK
<1>2. ASSUME memtable' = memtable, pc' \notin {"reset", "return"} PROVE Goal
  BY <1>1, <1>2 DEF RoomInMemtable
<1>3. ASSUME memtable' = NoRecords PROVE Goal
  BY <1>3, NoKeys DEF RoomInMemtable
<1>4. ASSUME NEW open, Throw(open) PROVE Goal
  BY <1>2, <1>3, <1>4 DEF Throw, Forget
<1>5. CASE ReplayRecord
  <2>1. IsFiniteSet(Keys(memtable'))
    BY <1>1, <1>5, KeysFinite DEF ReplayRecord
  <2> QED BY <1>5, <2>1 DEF ReplayRecord, RoomInMemtable
<1>6. CASE Sync
  <2>1. PICK k, r : /\ memtable' = [memtable EXCEPT ![k] = r]
                    /\ pc' = "create" \/ (pc' = "return" /\ ~Full(memtable'))
    BY <1>6 DEF Sync
  <2>2. IsFiniteSet(Keys(memtable'))
    BY <1>1, <2>1, KeysFinite
  <2>3. Cardinality(Keys(memtable')) \in Nat
    BY <2>2, FS_CardinalityType
  <2>4. pc' = "return" => Cardinality(Keys(memtable')) < Limit
    BY <2>1, <2>3, LimitAssumption DEF Full
  <2>5. Keys(memtable)' = Keys(memtable')
    BY DEF Keys
  <2> QED BY <2>1, <2>2, <2>4, <2>5 DEF RoomInMemtable
<1>7. CASE Reset
  BY <1>3, <1>7 DEF Reset, RoomInv
<1>8. CASE Recovery
  BY <1>2, <1>3, <1>5, <1>8 DEF Recovery, Open, ReplayEnd, ReplayRefused, LoadTable, LoadEnd, Forget
<1>9. CASE Call
  BY <1>2, <1>4, <1>9 DEF Call, Put, Del, Append1, Get, GetThrows, AppendRefused, FlushEmpty, Done,
     Flush, Compact
<1>10. CASE Serve
  BY <1>2, <1>3, <1>4, <1>6, <1>7, <1>10 DEF Serve, Return, Done, CreateTable, WriteRecord, Seal,
     AfterSeal, Install, MergeTable, MergeFails, MergeEnd, RemoveTable, Swap
<1>11. CASE FileFault
  BY <1>2, <1>3, <1>4, <1>11 DEF FileFault, OpenFails, Forget, CreateFails, WriteFails, WriteRepeats,
     CloseFails, AfterSeal, RemoveFails, ReopenFails
<1>12. CASE Crash \/ PowerLoss
  BY <1>3, <1>12 DEF Crash, PowerLoss, Die, Forget
<1>13. CASE UNCHANGED vars
  BY <1>1, <1>13 DEF vars, RoomInv, RoomInMemtable, Keys
<1> QED BY <1>8, <1>9, <1>10, <1>11, <1>12, <1>13 DEF Next

\* A put or del that is answered leaves the memtable below its limit, whatever fails
\* and however full recovery left it.
THEOREM RoomLeft == Spec => []RoomInMemtable
<1>1. Init => RoomInv
  BY InitType, NoKeys DEF Init, TInv, RoomInv, RoomInMemtable
<1>2. RoomInv /\ [Next]_vars => RoomInv'
  BY RoomStep
<1>3. RoomInv => RoomInMemtable
  BY DEF RoomInv
<1> QED BY <1>1, <1>2, <1>3, PTL DEF Spec

-----------------------------------------------------------------------------
(* The end of calls *)

\* A finite set of numbers, negative ones too, has a least element: the one with the
\* fewest below it.
LEMMA LeastOfFinite ==
  ASSUME NEW S, S \subseteq Int, IsFiniteSet(S), S # {}
  PROVE  \E m \in S : \A i \in S : m <= i
<1> DEFINE Below(n) == {i \in S : i < n}
           C == {Cardinality(Below(n)) : n \in S}
<1>1. \A n \in S : Below(n) \subseteq S /\ IsFiniteSet(Below(n)) /\ Cardinality(Below(n)) \in Nat
  <2> SUFFICES ASSUME NEW n \in S
               PROVE  Below(n) \subseteq S /\ IsFiniteSet(Below(n)) /\ Cardinality(Below(n)) \in Nat
    OBVIOUS
  <2>1. Below(n) \subseteq S
    OBVIOUS
  <2> HIDE DEF Below
  <2> QED BY <2>1, FS_Subset, FS_CardinalityType
<1>2. PICK c \in C : \A d \in C : c <= d
  <2>1. C \subseteq Nat /\ C # {}
    BY <1>1
  <2> HIDE DEF C
  <2> QED BY <2>1, LeastNat
<1>3. PICK m \in S : c = Cardinality(Below(m))
  OBVIOUS
<1>4. ASSUME NEW n \in S, n < m PROVE FALSE
  <2>1. n \in Int /\ m \in Int /\ ~(n < n) /\ \A i \in S : i < n => i < m
    BY <1>4
  <2>2. Below(n) \subseteq Below(m) /\ n \in Below(m) /\ n \notin Below(n)
    BY <1>4, <2>1
  <2>3. Cardinality(Below(n)) \in C
    OBVIOUS
  <2> HIDE DEF Below, C
  <2>4. Cardinality(Below(n)) < Cardinality(Below(m))
    BY <1>1, <2>2, FS_Subset
  <2> QED BY <1>1, <1>2, <1>3, <2>3, <2>4
<1> QED BY <1>4

\* A map with a few of the records of another has finitely many of them too.
LEMMA FewerKeys ==
  ASSUME NEW r, NEW s, NEW X, IsFiniteSet(Keys(s)), IsFiniteSet(X),
         \A k \in Key : r[k] # Absent => s[k] # Absent \/ k \in X
  PROVE  IsFiniteSet(Keys(r))
<1>1. Keys(r) \subseteq Keys(s) \cup X
  BY DEF Keys
<1>2. IsFiniteSet(Keys(s) \cup X)
  BY FS_Union
<1> QED BY <1>1, <1>2, FS_Subset

\* What SMT takes the primes of these for.
LEMMA FinitePrimed ==
  /\ Keys(memtable)' = Keys(memtable') /\ Keys(merged)' = Keys(merged')
  /\ Keys(Source)' = Keys(Source')
  BY DEF Keys, Source

\* In memory a step adds one record, or those of one more map, or takes some away.
LEMMA FiniteMemory ==
  ASSUME ProgressInv, [Next]_vars
  PROVE  IsFiniteSet(Keys(memtable')) /\ IsFiniteSet(Keys(merged'))
<1> DEFINE Goal == IsFiniteSet(Keys(memtable')) /\ IsFiniteSet(Keys(merged'))
<1>0. /\ IsFiniteSet(Keys(memtable)) /\ IsFiniteSet(Keys(merged))
      /\ memtable \in [Key -> Rec \cup {Absent}]
  BY DEF ProgressInv, FiniteInv, TypeOK, DataOK
<1>1. ASSUME memtable' \in {memtable, NoRecords}, merged' \in {merged, NoRecords} PROVE Goal
  BY <1>0, <1>1, NoKeys
<1>2. ASSUME NEW open, Throw(open) PROVE Goal
  BY <1>1, <1>2 DEF Throw, Forget
<1>3. CASE ReplayRecord
  BY <1>0, <1>3, KeysFinite DEF ReplayRecord
<1>4. CASE Sync
  BY <1>0, <1>4, KeysFinite DEF Sync
<1>5. CASE MergeTable
  <2>1. PICK i \in TableId : i = sstables[pos].id
    <3>1. pos \in DOMAIN sstables /\ sstables \in Seq(Table)
      BY <1>5 DEF MergeTable, ProgressInv, CtlInv, TypeOK, DataOK
    <3>2. sstables[pos] \in Table
      BY <3>1
    <3> QED BY <3>2 DEF Table
  <2>2. IsFiniteSet(Keys(tables[i].recs))
    BY DEF ProgressInv, FiniteInv
  <2>3. \A k \in Key : merged'[k] # Absent => merged[k] # Absent \/ k \in Keys(tables[i].recs)
    BY <1>5, <2>1 DEF MergeTable, Over, Keys
  <2>4. IsFiniteSet(Keys(merged'))
    BY <1>0, <2>2, <2>3, FewerKeys
  <2> QED BY <1>0, <1>5, <2>4 DEF MergeTable
<1>6. CASE MergeEnd
  <2>1. \A k \in Key : merged'[k] # Absent => merged[k] # Absent \/ k \in Keys(memtable)
    BY <1>6 DEF MergeEnd, Survivors, Live, Overlay, Over, Keys
  <2>2. IsFiniteSet(Keys(merged'))
    BY <1>0, <2>1, FewerKeys
  <2> QED BY <1>0, <1>6, <2>2 DEF MergeEnd
<1>7. CASE Recovery
  BY <1>1, <1>3, <1>7 DEF Recovery, Open, ReplayEnd, ReplayRefused, LoadTable, LoadEnd, Forget
<1>8. CASE Call
  BY <1>1, <1>2, <1>8 DEF Call, Put, Del, Append1, Get, GetThrows, AppendRefused, FlushEmpty, Done,
     Flush, Compact
<1>9. CASE Serve
  BY <1>1, <1>2, <1>4, <1>5, <1>6, <1>9 DEF Serve, Return, Done, CreateTable, WriteRecord, Seal,
     AfterSeal, Install, MergeFails, RemoveTable, Swap, Reset
<1>10. CASE FileFault
  BY <1>1, <1>2, <1>10 DEF FileFault, OpenFails, Quiet, Forget, CreateFails, WriteFails, WriteRepeats,
     CloseFails, AfterSeal, RemoveFails, ReopenFails
<1>11. CASE Crash \/ PowerLoss
  BY <1>1, <1>11 DEF Crash, PowerLoss, Die, Forget
<1>12. CASE UNCHANGED vars
  BY <1>1, <1>12 DEF vars
<1> QED BY <1>7, <1>8, <1>9, <1>10, <1>11, <1>12 DEF Next

\* One file at most changes in a step, and to a file of finitely many records.
LEMMA FiniteFiles ==
  ASSUME ProgressInv, [Next]_vars
  PROVE  \A i \in TableId : IsFiniteSet(Keys(tables'[i].recs))
<1> DEFINE Goal == \A i \in TableId : IsFiniteSet(Keys(tables'[i].recs))
<1>0. /\ \A i \in TableId : IsFiniteSet(Keys(tables[i].recs))
      /\ tables \in [TableId -> TableFile]
      /\ IsFiniteSet(Keys(Source))
  BY DEF ProgressInv, FiniteInv, TypeOK, DataOK, Source
<1>1. ASSUME tables' = tables PROVE Goal
  BY <1>0, <1>1
<1>2. ASSUME NEW r, IsFiniteSet(Keys(r)), \A i \in TableId : tables'[i].recs \in {tables[i].recs, r}
      PROVE  Goal
  BY <1>0, <1>2
<1>3. CASE CreateTable
  <2>1. \A i \in TableId : tables'[i].recs \in {tables[i].recs, NoRecords}
    BY <1>0, <1>3 DEF CreateTable
  <2> QED BY <1>2, <2>1, NoKeys
<1>4. CASE WriteRecord
  <2>1. newId \in TableId
    BY <1>4 DEF WriteRecord, ProgressInv, CtlInv
  <2>2. PICK k \in Remaining, s \in {"torn", "whole"} : tables' = [tables EXCEPT ![newId] =
                     [state |-> s, recs |-> [tables[newId].recs EXCEPT ![k] = Source[k]]]]
    BY <1>4 DEF WriteRecord
  <2> DEFINE r == [tables[newId].recs EXCEPT ![k] = Source[k]]
  <2>3. IsFiniteSet(Keys(r))
    <3>1. IsFiniteSet({k})
      BY FS_Singleton
    <3>2. tables[newId].recs \in [Key -> Rec \cup {Absent}]
      BY <1>0, <2>1 DEF TableFile
    <3>3. \A j \in Key : r[j] # Absent => tables[newId].recs[j] # Absent \/ j \in {k}
      BY <3>2
    <3> HIDE DEF r
    <3> QED BY <1>0, <2>1, <3>1, <3>3, FewerKeys
  <2> HIDE DEF r
  <2>4. \A i \in TableId : tables'[i].recs \in {tables[i].recs, r}
    BY <1>0, <2>2 DEF r
  <2>5. PICK R : R = r
    OBVIOUS
  <2> QED BY <1>2, <2>3, <2>4, <2>5
<1>5. CASE Seal
  <2>1. newId \in TableId
    BY <1>5 DEF Seal, ProgressInv, CtlInv
  <2>2. \A i \in TableId : tables'[i].recs = tables[i].recs
    BY <1>0, <1>5, <2>1 DEF Seal, TableFile
  <2> QED BY <1>0, <2>2
<1>6. CASE CloseFails
  <2>1. ASSUME NEW k \in Keys(Source),
               tables' = [tables EXCEPT ![newId] = [state |-> "torn", recs |-> Before(Source, k)]]
        PROVE  Goal
    <3>1. \A j \in Key : Before(Source, k)[j] # Absent => Source[j] # Absent \/ j \in {}
      BY DEF Before
    <3>2. IsFiniteSet(Keys(Before(Source, k)))
      BY <1>0, <3>1, NoKeys, FewerKeys
    <3>3. \A i \in TableId : tables'[i].recs \in {tables[i].recs, Before(Source, k)}
      BY <1>0, <2>1
    <3>4. PICK r : r = Before(Source, k)
      OBVIOUS
    <3> QED BY <1>2, <3>2, <3>3, <3>4
  <2> QED BY <1>1, <1>6, <2>1 DEF CloseFails
<1>7. CASE RemoveTable
  <2>1. \A i \in TableId : tables'[i].recs \in {tables[i].recs, NoRecords}
    BY <1>0, <1>7 DEF RemoveTable, NoFile
  <2> QED BY <1>2, <2>1, NoKeys
<1>13. CASE WriteRepeats
  <2>1. PICK state \in {"torn", "whole"}, recs \in [Key -> Rec \cup {Absent}] :
               /\ tables' = [tables EXCEPT ![newId] = [state |-> state, recs |-> recs]]
               /\ IsFiniteSet(Keys(recs))
    BY <1>0, <1>13, RepeatedFile DEF ProgressInv, TypeOK, DataOK
  <2>2. \A i \in TableId : tables'[i].recs \in {tables[i].recs, recs}
    BY <1>0, <2>1
  <2> QED BY <1>2, <2>1, <2>2
<1>8. CASE Recovery
  BY <1>1, <1>8 DEF Recovery, Open, ReplayRecord, ReplayEnd, ReplayRefused, LoadTable, LoadEnd
<1>9. CASE Call
  BY <1>1, <1>9 DEF Call, Put, Del, Append1, Get, GetThrows, AppendRefused, FlushEmpty, Flush, Compact
<1>10. CASE Serve
  BY <1>1, <1>3, <1>4, <1>5, <1>7, <1>10 DEF Serve, Sync, Return, Install, MergeTable, MergeFails,
     MergeEnd, Swap, Reset
<1>11. CASE FileFault
  BY <1>1, <1>6, <1>11, <1>13 DEF FileFault, OpenFails, CreateFails, WriteFails, RemoveFails, ReopenFails
<1>12. CASE Crash \/ PowerLoss \/ UNCHANGED vars
  BY <1>1, <1>12 DEF Crash, PowerLoss, vars
<1> QED BY <1>8, <1>9, <1>10, <1>11, <1>12 DEF Next

\* What is not empty has a key.
LEMMA HasKeys ==
  ASSUME NEW r, r # NoRecords, r \in [Key -> Rec \cup {Absent}]
  PROVE  Keys(r) # {}
<1>1. PICK k \in Key : r[k] # Absent
  BY DEF NoRecords
<1> QED BY <1>1 DEF Keys

\* Which keys are still to be written, before and after the step that creates the table,
\* and after one that writes a record.
LEMMA RemainingStep ==
  ASSUME TypeOK, CtlInv, CreateTable \/ WriteRecord
  PROVE  /\ CreateTable => Remaining' = Keys(Source)
         /\ WriteRecord => /\ newId \in TableId /\ newId' = newId
                           /\ \E k \in Remaining : /\ Remaining' = Remaining \ {k}
                                                   /\ pc' = "write" => Remaining # {k}
<1>0. /\ tables \in [TableId -> TableFile] /\ Source \in [Key -> Rec \cup {Absent}]
      /\ \A i \in TableId : tables[i].recs \in [Key -> Rec \cup {Absent}]
  BY SourceType DEF TypeOK, DataOK, TableFile
<1>1. Source' = Source
  BY DEF Source, CreateTable, WriteRecord
<1>2. CASE CreateTable
  <2>1. newId' \in TableId
    BY <1>2 DEF CreateTable, CtlInv
  <2>2. tables'[newId'].recs = NoRecords
    BY <1>0, <1>2, <2>1 DEF CreateTable
  <2>3. Remaining' = Keys(Source)
    BY <1>1, <2>2 DEF Remaining, Keys, NoRecords
  <2>4. ~WriteRecord
    BY <1>2 DEF CreateTable, WriteRecord
  <2> QED BY <2>3, <2>4
<1>3. CASE WriteRecord
  <2>1. newId \in TableId /\ newId' = newId
    BY <1>3 DEF WriteRecord, CtlInv
  <2>2. PICK k \in Remaining :
          /\ tables'[newId].recs = [tables[newId].recs EXCEPT ![k] = Source[k]]
          /\ pc' = "write" => Remaining # {k}
    <3>1. PICK k \in Remaining, s \in {"torn", "whole"} :
            /\ tables' = [tables EXCEPT ![newId] =
                           [state |-> s, recs |-> [tables[newId].recs EXCEPT ![k] = Source[k]]]]
            /\ pc' = IF Remaining = {k} THEN "seal" ELSE "write"
      BY <1>3 DEF WriteRecord
    <3>2. tables'[newId].recs = [tables[newId].recs EXCEPT ![k] = Source[k]]
      BY <1>0, <2>1, <3>1
    <3> QED BY <3>1, <3>2
  <2>3. k \in Key /\ Source[k] # Absent
    BY DEF Remaining, Keys
  <2>4. \A j \in Key : tables'[newId].recs[j] = IF j = k THEN Source[k] ELSE tables[newId].recs[j]
    BY <1>0, <2>1, <2>2
  <2>5. Remaining' = {j \in Keys(Source) : tables'[newId].recs[j] = Absent}
    BY <1>1, <2>1 DEF Remaining, Keys
  <2>6. Remaining' = Remaining \ {k}
    BY <2>3, <2>4, <2>5 DEF Remaining, Keys
  <2>7. ~CreateTable
    BY <1>3 DEF CreateTable, WriteRecord
  <2> QED BY <2>1, <2>2, <2>6, <2>7
<1> QED BY <1>2, <1>3

\* A loop is entered at its start, left at its end, and a table begun for a reason.
LEMMA BusyStep == ASSUME ProgressInv, [Next]_vars PROVE BusyInv'
<1>0. /\ TypeOK /\ CtlInv /\ BusyInv
      /\ Len(walFile) \in Nat /\ Len(sstables) \in Nat
      /\ walFile \in Seq(Entry) /\ sstables \in Seq(Table)
  BY DEF ProgressInv, TypeOK, DataOK
<1>1. ASSUME pc' \in {"down", "idle", "load", "return", "reset", "seal"} PROVE BusyInv'
  BY <1>1 DEF BusyInv
<1>2. ASSUME NEW open, Throw(open) PROVE BusyInv'
  BY <1>1, <1>2 DEF Throw
<1>3. CASE Open \/ ReplayRecord
  BY <1>0, <1>3 DEF Open, ReplayRecord, NextPos, BusyInv
<1>4. CASE Recovery
  BY <1>1, <1>3, <1>4 DEF Recovery, ReplayEnd, ReplayRefused, LoadTable, LoadEnd
<1>5. CASE Flush
  <2>1. Source' = memtable /\ pc' = "create"
    BY <1>5 DEF Flush, Source
  <2>2. Keys(Source') # {}
    BY <1>0, <1>5, <2>1, HasKeys DEF Flush, TypeOK, DataOK
  <2> QED BY <2>1, <2>2, FinitePrimed DEF BusyInv
<1>6. CASE Call
  <2>1. CASE \E k \in Key : Get(k)
    BY <1>1, <2>1 DEF Get
  <2>2. CASE Compact
    BY <1>0, <2>2 DEF Compact, BusyInv
  <2>3. CASE (\E k \in Key, v \in Value : Put(k, v)) \/ (\E k \in Key : Del(k))
    <3>1. op' \in {"put", "del"} /\ pc' = "sync"
      BY <2>3 DEF Put, Del, Append1
    <3> QED BY <3>1 DEF BusyInv
  <2> QED BY <1>1, <1>2, <1>5, <1>6, <2>1, <2>2, <2>3 DEF Call, GetThrows, AppendRefused, FlushEmpty,
       Done
<1>7. CASE Sync
  <2>1. PICK e \in Entry : walBuf = <<e>>
    BY <1>0, <1>7 DEF Sync, CtlInv
  <2>2. /\ memtable' = [memtable EXCEPT ![e.key] = e.rec] /\ op' = op
        /\ pc' \in {"create", "return"}
    BY <1>7, <2>1 DEF Sync
  <2>3. e.key \in Key /\ e.rec # Absent
    BY ValueAssumption DEF Entry, Rec
  <2>4. Source' = memtable'
    BY <1>0, <1>7, <2>2 DEF BusyInv, Sync, Source
  <2>5. e.key \in Keys(Source')
    BY <1>0, <2>2, <2>3, <2>4 DEF Keys, TypeOK, DataOK
  <2> QED BY <2>2, <2>5, FinitePrimed DEF BusyInv
<1>8. CASE CreateTable
  <2>1. Remaining' # {} /\ pc' = "write"
    BY <1>0, <1>8, RemainingStep DEF CreateTable, BusyInv
  <2> QED BY <2>1 DEF BusyInv
<1>9. CASE WriteRecord
  <2>1. pc' = "write" => Remaining' # {}
    BY <1>0, <1>9, RemainingStep
  <2>2. pc' \in {"write", "seal"}
    BY <1>9 DEF WriteRecord
  <2> QED BY <2>1, <2>2 DEF BusyInv
<1>10. CASE Seal \/ CloseFails
  <2>1. /\ sstables' = sstables /\ op' = op
        /\ \/ pc' = "remove" /\ pos' = 1
           \/ pc' = "install" /\ op # "compact"
    BY <1>10 DEF Seal, CloseFails, AfterSeal
  <2> QED BY <1>0, <2>1 DEF BusyInv
<1>11. CASE MergeTable \/ RemoveTable
  BY <1>0, <1>11 DEF MergeTable, RemoveTable, NextPos, BusyInv
<1>12. CASE MergeEnd
  <2>1. CASE merged' = NoRecords
    BY <1>0, <1>12, <2>1 DEF MergeEnd, BusyInv
  <2>2. CASE merged' # NoRecords
    <3>1. Source' = merged' /\ pc' = "create"
      BY <1>0, <1>12, <2>2 DEF MergeEnd, BusyInv, Source
    <3>2. merged' \in [Key -> Rec \cup {Absent}]
      BY TInvStep DEF ProgressInv, TInv, TypeOK, DataOK
    <3>3. Keys(merged') # {}
      BY <2>2, <3>2, HasKeys
    <3> QED BY <3>1, <3>3, FinitePrimed DEF BusyInv
  <2> QED BY <2>1, <2>2
<1>13. CASE Serve
  BY <1>1, <1>2, <1>7, <1>8, <1>9, <1>10, <1>11, <1>12, <1>13 DEF Serve, Return, Done, Install,
     MergeFails, Swap, Reset
<1>14. CASE FileFault
  BY <1>1, <1>2, <1>10, <1>14 DEF FileFault, OpenFails, CreateFails, WriteFails, WriteRepeats,
                                  RemoveFails, ReopenFails
<1>15. CASE Crash \/ PowerLoss
  BY <1>1, <1>15 DEF Crash, PowerLoss, Die
<1>16. CASE UNCHANGED vars
  BY <1>0, <1>16 DEF vars, BusyInv, Keys, Source, Remaining
<1> QED BY <1>4, <1>6, <1>13, <1>14, <1>15, <1>16 DEF Next

LEMMA ProgressStep == ProgressInv /\ [Next]_vars => ProgressInv'
<1> SUFFICES ASSUME ProgressInv, [Next]_vars PROVE ProgressInv'
  OBVIOUS
<1>1. TypeOK' /\ CtlInv'
  BY TInvStep DEF ProgressInv, TInv
<1>2. FiniteInv'
  BY FiniteMemory, FiniteFiles DEF FiniteInv, Keys
<1> QED BY <1>1, <1>2, BusyStep DEF ProgressInv

LEMMA InitProgress == Init => ProgressInv
<1> SUFFICES ASSUME Init PROVE ProgressInv
  OBVIOUS
<1>1. FiniteInv
  BY NoKeys DEF Init, FiniteInv, NoFile
<1>2. BusyInv
  BY DEF Init, BusyInv
<1> QED BY <1>1, <1>2, InitType DEF ProgressInv, TInv

\* What the loops over files and keys have left is finite ...
LEMMA FiniteLoops ==
  ASSUME ProgressInv
  PROVE  IsFiniteSet(Files \ Listed) /\ IsFiniteSet(Remaining)
<1>1. IsFiniteSet(TableId)
  BY FS_Interval, BoundAssumption DEF TableId
<1>2. Files \ Listed \subseteq TableId
  BY DEF Files
<1>3. IsFiniteSet(Keys(Source)) /\ Remaining \subseteq Keys(Source)
  BY DEF ProgressInv, FiniteInv, Source, Remaining
<1> QED BY <1>1, <1>2, <1>3, FS_Subset

\* ... and so a number of turns.
LEMMA LeftType == ProgressInv => Left \in Nat /\ Stage \in Nat
<1> SUFFICES ASSUME ProgressInv PROVE Left \in Nat
  BY DEF Stage
<1>1. Cardinality(Files \ Listed) \in Nat /\ Cardinality(Remaining) \in Nat
  BY FiniteLoops, FS_CardinalityType
<1>2. Len(walFile) \in Nat /\ Len(sstables) \in Nat
  BY DEF ProgressInv, TypeOK, DataOK
<1> QED BY <1>1, <1>2 DEF ProgressInv, BusyInv, Left

\* One element fewer.
LEMMA OneFewer ==
  ASSUME NEW S, NEW T, NEW x, IsFiniteSet(S), x \in S, T = S \ {x}
  PROVE  Cardinality(T) < Cardinality(S)
<1>1. T \subseteq S /\ T # S
  OBVIOUS
<1> QED BY <1>1, FS_Subset, FS_CardinalityType

\* Each step of a call or of the constructor ends it or brings it nearer to its end.
LEMMA Nearer ==
  ASSUME ProgressInv, ProgressInv', Recovery \/ Serve \/ FileFault
  PROVE  Ended' \/ Shrinks
<1>0. (Left \in Nat /\ Stage \in Nat) /\ (Left \in Nat /\ Stage \in Nat)'
  BY LeftType, PTL
<1>1. /\ Len(walFile) \in Nat /\ Len(sstables) \in Nat /\ pos \in Nat
      /\ walFile \in Seq(Entry) /\ sstables \in Seq(Table)
  BY DEF ProgressInv, TypeOK, DataOK
<1> DEFINE Goal == Ended' \/ Stage' < Stage \/ (Stage' = Stage /\ Left' < Left)
<1> SUFFICES Goal
  BY <1>0 DEF Shrinks
<1>2. ASSUME pc' \in {"down", "idle"} PROVE Goal
  BY <1>2 DEF Ended
<1>3. ASSUME NEW open, Throw(open) PROVE Goal
  BY <1>2, <1>3 DEF Throw
<1>4. ASSUME NEW a, NEW b, <<a, b>> \in
               {<<"down", "replay">>, <<"replay", "load">>, <<"sync", "create">>, <<"sync", "return">>,
                <<"create", "write">>, <<"write", "seal">>, <<"seal", "install">>,
                <<"seal", "remove">>, <<"install", "reset">>, <<"merge", "remove">>,
                <<"merge", "create">>, <<"remove", "reset">>, <<"reset", "return">>},
             pc = a, pc' = b
      PROVE  Goal
  BY <1>4 DEF Stage
<1>5. CASE ReplayRecord
  BY <1>1, <1>5 DEF ReplayRecord, NextPos, Stage, Left
<1>6. CASE LoadTable
  <2>1. PICK i \in Files \ Listed :
               sstables' = Append(sstables, [id |-> i, cached |-> FALSE, index |-> {}])
    BY <1>6 DEF LoadTable, FirstOf
  <2>2. Listed' = Listed \cup {i}
    <3>1. /\ DOMAIN sstables' = DOMAIN sstables \cup {Len(sstables) + 1}
          /\ \A p \in DOMAIN sstables : sstables'[p] = sstables[p]
      BY <1>1, <2>1
    <3>2. sstables'[Len(sstables) + 1].id = i
      BY <1>1, <2>1
    <3>3. Listed' = {sstables'[p].id : p \in DOMAIN sstables'}
      BY DEF Listed
    <3> QED BY <3>1, <3>2, <3>3 DEF Listed
  <2>3. Files' = Files
    BY <1>6 DEF LoadTable, Files
  <2>4. Cardinality((Files \ Listed)') < Cardinality(Files \ Listed)
    BY <2>2, <2>3, FiniteLoops, OneFewer
  <2> QED BY <1>6, <2>4 DEF LoadTable, Stage, Left
<1>7. CASE WriteRecord
  <2>1. CASE pc' = "seal"
    BY <1>4, <1>7, <2>1 DEF WriteRecord
  <2>2. CASE pc' = "write"
    <3>1. PICK k \in Remaining : Remaining' = Remaining \ {k}
      BY <1>7, RemainingStep DEF ProgressInv
    <3>2. Cardinality(Remaining') < Cardinality(Remaining)
      BY <3>1, FiniteLoops, OneFewer
    <3> QED BY <1>7, <2>2, <3>2 DEF WriteRecord, Stage, Left
  <2> QED BY <1>7, <2>1, <2>2 DEF WriteRecord
<1>8. CASE MergeTable \/ RemoveTable
  BY <1>1, <1>8 DEF MergeTable, RemoveTable, NextPos, Stage, Left
<1>9. CASE Recovery
  BY <1>2, <1>4, <1>5, <1>6, <1>9 DEF Recovery, Open, ReplayEnd, ReplayRefused, LoadEnd
<1>10. CASE Seal \/ CloseFails
  <2>1. pc = "seal" /\ pc' \in {"install", "remove"}
    BY <1>10 DEF Seal, CloseFails, AfterSeal
  <2> QED BY <1>4, <2>1
<1>11. CASE Serve
  BY <1>2, <1>3, <1>4, <1>7, <1>8, <1>10, <1>11 DEF Serve, Sync, Return, Done, CreateTable, Install,
     MergeFails, MergeEnd, Swap, Reset
<1>12. CASE FileFault
  BY <1>2, <1>3, <1>10, <1>12 DEF FileFault, OpenFails, CreateFails, WriteFails, WriteRepeats,
                                  RemoveFails, ReopenFails
<1> QED BY <1>9, <1>11, <1>12

\* No call and no opening of the store goes on for ever, whatever fails: each step of the
\* program ends it or leaves fewer stages, or as many and fewer turns of the stage's loop.
THEOREM CallsEnd == Spec => StepsShrink
<1>1. ProgressInv /\ ProgressInv' /\ [Next]_vars
        => [Recovery \/ Serve \/ FileFault => Ended' \/ Shrinks]_vars
  BY Nearer
<1> QED BY <1>1, InitProgress, ProgressStep, PTL DEF Spec, StepsShrink

\* And none of these loops is stuck for want of a record, a file or a key, for keys of
\* any numbers and whatever fails.
THEOREM NeverStuck == Spec => []CanGoOn
<1>1. ProgressInv => CanGoOn
  <2> SUFFICES ASSUME ProgressInv PROVE CanGoOn
    OBVIOUS
  <2>1. pc = "sync" => walBuf # <<>>
    BY DEF ProgressInv, CtlInv
  <2>2. ASSUME ~(Files \subseteq Listed) PROVE FirstOf(Files \ Listed) # {}
    <3>1. Files \ Listed \subseteq Int /\ Files \ Listed # {}
      BY <2>2, BoundAssumption DEF Files, TableId
    <3>2. PICK i \in Files \ Listed : \A j \in Files \ Listed : i <= j
      BY <3>1, FiniteLoops, LeastOfFinite
    <3> QED BY <3>2 DEF FirstOf
  <2>3. ASSUME pc = "write" PROVE \E k \in Remaining : \A j \in Remaining : k <= j
    <3>1. Remaining \subseteq Int /\ Remaining # {}
      BY <2>3, KeyAssumption DEF ProgressInv, BusyInv, Remaining, Keys
    <3> QED BY <3>1, FiniteLoops, LeastOfFinite
  <2> QED BY <2>1, <2>2, <2>3 DEF CanGoOn
<1> QED BY <1>1, InitProgress, ProgressStep, PTL DEF Spec

-----------------------------------------------------------------------------
(* What a part of the invariant says when nothing it talks about changes *)

LEMMA LogSame ==
  ASSUME walFile' = walFile, kv' = kv
  PROVE  /\ LogInv => LogInv'
         /\ \A k : InWal(k)' <=> InWal(k)
  BY DEF LogInv, InWal, WalSays

LEMMA TablesSame ==
  ASSUME tables' = tables, kv' = kv
  PROVE  /\ FileInv => FileInv'
         /\ Files' = Files
         /\ \A k : SafeInTables(k)' <=> SafeInTables(k)
  BY DEF FileInv, Files, SafeInTables

\* A step of a call that moves nothing but its control state.
LEMMA StoreSame ==
  ASSUME StoreInv, Serving, pc' \notin {"down", "replay", "load"},
         UNCHANGED <<walFile, tables, memtable, sstables, kv>>
  PROVE  LogInv' /\ ReplayInv' /\ MemInv' /\ TablesInv' /\ FileInv'
<1>1. LogInv' /\ \A k : InWal(k)' <=> InWal(k)
  BY LogSame DEF StoreInv
<1>2. FileInv' /\ \A k : SafeInTables(k)' <=> SafeInTables(k)
  BY TablesSame DEF StoreInv
<1>3. Serving'
  BY DEF Serving
<1>4. MemInv'
  BY <1>1, <1>3 DEF StoreInv, MemInv, Serving
<1>5. TablesInv'
  BY <1>2, <1>3 DEF StoreInv, TablesInv
<1> QED BY <1>1, <1>2, <1>4, <1>5 DEF ReplayInv

\* The process ends, for whatever reason, and takes the memory with it.
LEMMA Downfall ==
  ASSUME StoreInv, pc' = "down", Forget, merged' = NoRecords, newId' = 0,
         UNCHANGED <<walFile, tables, kv>>
  PROVE  StoreInv'
<1>1. LogInv' /\ \A k : InWal(k)' <=> InWal(k)
  BY LogSame DEF StoreInv
<1>2. FileInv' /\ \A k : SafeInTables(k)' <=> SafeInTables(k)
  BY TablesSame DEF StoreInv
<1>3. TablesInv'
  <2> SUFFICES ASSUME NEW k \in Key, ~InWal(k) PROVE SafeInTables(k)
    BY <1>1, <1>2 DEF TablesInv, Serving
  <2> QED BY DEF StoreInv, TablesInv, MemInv
<1>4. CallInv' /\ ReplayInv' /\ MemInv' /\ ListInv' /\ MergeInv' /\ NewTableInv'
  BY DEF Forget, CallInv, ReplayInv, MemInv, Serving, ListInv, MergeInv, NewTableInv
<1> QED BY <1>1, <1>2, <1>3, <1>4 DEF StoreInv

\* A call ends and the object stays; the log may be emptied if it was of no use.
LEMMA BackToIdle ==
  ASSUME StoreInv, pc \in {"idle", "create", "merge", "reset", "return"}, pc' = "idle",
         merged' = NoRecords, newId' = 0, UNCHANGED <<tables, memtable, sstables, kv>>,
         walFile' = walFile \/ (walFile' = <<>> /\ memtable = NoRecords)
  PROVE  StoreInv'
<1>1. FileInv' /\ Files' = Files /\ \A k : SafeInTables(k)' <=> SafeInTables(k)
  BY TablesSame DEF StoreInv
<1>2. TablesInv'
  BY <1>1 DEF StoreInv, TablesInv, Serving
<1>3. LogInv' /\ MemInv'
  <2>1. CASE walFile' = walFile
    BY <2>1, LogSame DEF StoreInv, MemInv, Serving
  <2>2. CASE walFile' = <<>> /\ memtable = NoRecords
    BY <2>2 DEF LogInv, InWal, MemInv, NoRecords
  <2> QED BY <2>1, <2>2
<1>4. ListInv'
  BY <1>1 DEF StoreInv, ListInv, Listed
<1>5. CallInv' /\ ReplayInv' /\ MergeInv' /\ NewTableInv'
  BY DEF CallInv, ReplayInv, MergeInv, NewTableInv
<1> QED BY <1>1, <1>2, <1>3, <1>4, <1>5 DEF StoreInv

-----------------------------------------------------------------------------
(* Recovery *)

LEMMA OpenStep == ASSUME IInv, Open PROVE StoreInv'
<1> USE DEF Open
<1>1. LogInv' /\ \A k : InWal(k)' <=> InWal(k)
  BY LogSame DEF IInv, StoreInv
<1>2. FileInv' /\ \A k : SafeInTables(k)' <=> SafeInTables(k)
  BY TablesSame DEF IInv, StoreInv
<1>3. TablesInv'
  BY <1>1, <1>2 DEF IInv, StoreInv, TablesInv, Serving
<1>4. ReplayInv'
  BY DEF IInv, StoreInv, CallInv, ReplayInv, NoRecords, TypeOK, DataOK
<1>5. CallInv' /\ MemInv' /\ ListInv' /\ MergeInv' /\ NewTableInv'
  BY DEF IInv, StoreInv, CallInv, MemInv, Serving, ListInv, MergeInv, NewTableInv
<1> QED BY <1>1, <1>2, <1>3, <1>4, <1>5 DEF StoreInv

LEMMA ReplayRecordStep == ASSUME IInv, ReplayRecord PROVE StoreInv'
<1> USE DEF ReplayRecord, NextPos
<1>1. LogInv' /\ \A k : InWal(k)' <=> InWal(k)
  BY LogSame DEF IInv, StoreInv
<1>2. FileInv' /\ \A k : SafeInTables(k)' <=> SafeInTables(k)
  BY TablesSame DEF IInv, StoreInv
<1>3. TablesInv'
  BY <1>1, <1>2 DEF IInv, StoreInv, TablesInv, Serving
<1>4. ReplayInv'
  <2>1. /\ pos \in Nat \ {0} /\ pos \in DOMAIN walFile
        /\ walFile[pos] \in Entry
        /\ memtable \in [Key -> Rec \cup {Absent}]
    BY DEF IInv, TypeOK, DataOK, CtlInv
  <2>2. walFile[pos] = [key |-> walFile[pos].key, rec |-> walFile[pos].rec]
    BY <2>1 DEF Entry
  <2>3. ASSUME NEW k \in Key
        PROVE  \/ /\ memtable'[k] = Absent
                  /\ \A j \in 1 .. pos : walFile[j].key # k
               \/ \E i \in 1 .. pos :
                    /\ walFile[i] = [key |-> k, rec |-> memtable'[k]]
                    /\ \A j \in i+1 .. pos : walFile[j].key # k
    <3>1. CASE walFile[pos].key = k
      <4>1. memtable'[k] = walFile[pos].rec
        BY <2>1, <3>1
      <4>2. \A j \in pos+1 .. pos : FALSE
        BY <2>1
      <4> QED BY <2>1, <2>2, <3>1, <4>1, <4>2
    <3>2. CASE walFile[pos].key # k
      <4>1. memtable'[k] = memtable[k]
        BY <2>1, <3>2
      <4>2. CASE memtable[k] = Absent /\ \A j \in 1 .. pos-1 : walFile[j].key # k
        BY <2>1, <3>2, <4>1, <4>2
      <4>3. CASE \E i \in 1 .. pos-1 :
                   /\ walFile[i] = [key |-> k, rec |-> memtable[k]]
                   /\ \A j \in i+1 .. pos-1 : walFile[j].key # k
        BY <2>1, <3>2, <4>1, <4>3
      <4> QED BY <4>2, <4>3 DEF IInv, StoreInv, ReplayInv
    <3> QED BY <3>1, <3>2
  <2> QED BY <2>1, <2>3 DEF ReplayInv, IInv, TypeOK, DataOK
<1>5. CallInv' /\ MemInv' /\ ListInv' /\ MergeInv' /\ NewTableInv'
  BY DEF IInv, StoreInv, CallInv, MemInv, Serving, ListInv, MergeInv, NewTableInv
<1> QED BY <1>1, <1>2, <1>3, <1>4, <1>5 DEF StoreInv

\* The record of k that replay saw last is the last one in the log.
LEMMA ReplayEndStep == ASSUME IInv, ReplayEnd PROVE StoreInv'
<1> USE DEF ReplayEnd
<1>1. LogInv' /\ \A k : InWal(k)' <=> InWal(k)
  BY LogSame DEF IInv, StoreInv
<1>2. FileInv' /\ Files' = Files /\ \A k : SafeInTables(k)' <=> SafeInTables(k)
  BY TablesSame DEF IInv, StoreInv
<1>3. TablesInv'
  BY <1>1, <1>2 DEF IInv, StoreInv, TablesInv, Serving
<1>4. MemInv'
  <2>1. pos = Len(walFile) + 1 /\ walFile \in Seq(Entry)
    BY DEF IInv, StoreInv, ReplayInv, TypeOK, DataOK
  <2>2. DOMAIN walFile = 1 .. pos-1 /\ \A i \in DOMAIN walFile : walFile[i] \in Entry
    BY <2>1
  <2>3. ASSUME NEW k \in Key
        PROVE  \/ /\ memtable[k] = Absent
                  /\ \A j \in DOMAIN walFile : walFile[j].key # k
               \/ \E i \in DOMAIN walFile :
                    /\ walFile[i] = [key |-> k, rec |-> memtable[k]]
                    /\ \A j \in i+1 .. pos-1 : walFile[j].key # k
    BY <2>2 DEF IInv, StoreInv, ReplayInv
  <2>4. ASSUME NEW k \in Key, memtable[k] = Absent PROVE ~InWal(k)
    <3>1. \A i \in DOMAIN walFile : walFile[i].rec # Absent
      BY <2>2, ValueAssumption DEF Entry, Rec
    <3>2. \A j \in DOMAIN walFile : walFile[j].key # k
      BY <2>4, <2>3, <3>1
    <3> QED BY <3>2 DEF InWal
  <2>5. ASSUME NEW k \in Key, memtable[k] # Absent PROVE memtable[k] = RecOf(kv[k]) /\ InWal(k)
    <3>1. PICK i \in DOMAIN walFile :
            /\ walFile[i] = [key |-> k, rec |-> memtable[k]]
            /\ \A j \in DOMAIN walFile : j > i => walFile[j].key # k
      <4>1. PICK i \in DOMAIN walFile : /\ walFile[i] = [key |-> k, rec |-> memtable[k]]
                                        /\ \A j \in i+1 .. pos-1 : walFile[j].key # k
        BY <2>5, <2>3
      <4>2. \A j \in DOMAIN walFile : j > i => j \in i+1 .. pos-1
        BY <2>2, <2>1, <4>1
      <4> QED BY <4>1, <4>2
    <3>2. InWal(k)
      BY <3>1 DEF InWal
    <3>3. WalSays(k, RecOf(kv[k]))
      BY <3>2 DEF IInv, StoreInv, LogInv
    <3>4. PICK m \in DOMAIN walFile :
            /\ walFile[m] = [key |-> k, rec |-> RecOf(kv[k])]
            /\ \A j \in DOMAIN walFile : j > m => walFile[j].key # k
      BY <3>3 DEF WalSays
    <3>5. i = m
      BY <2>1, <3>1, <3>4
    <3> QED BY <3>1, <3>2, <3>4, <3>5
  <2> QED BY <1>1, <2>4, <2>5 DEF MemInv, RecOf
<1>5. ListInv'
  BY <1>2 DEF IInv, StoreInv, ListInv, Listed
<1>6. CallInv' /\ ReplayInv' /\ MergeInv' /\ NewTableInv'
  BY DEF IInv, StoreInv, CallInv, ReplayInv, MergeInv, NewTableInv
<1> QED BY <1>1, <1>2, <1>3, <1>4, <1>5, <1>6 DEF StoreInv

LEMMA LoadTableStep == ASSUME IInv, LoadTable PROVE StoreInv'
<1> USE DEF LoadTable, FirstOf
<1>1. LogInv' /\ \A k : InWal(k)' <=> InWal(k)
  BY LogSame DEF IInv, StoreInv
<1>2. FileInv' /\ Files' = Files /\ \A k : SafeInTables(k)' <=> SafeInTables(k)
  BY TablesSame DEF IInv, StoreInv
<1>3. TablesInv' /\ MemInv'
  BY <1>1, <1>2 DEF IInv, StoreInv, TablesInv, MemInv, Serving
<1>4. ListInv'
  <2>1. PICK i \in Files \ Listed :
          /\ \A j \in Files \ Listed : i <= j
          /\ sstables' = Append(sstables, [id |-> i, cached |-> FALSE, index |-> {}])
    OBVIOUS
  <2>2. sstables \in Seq(Table)
    BY DEF IInv, TypeOK, DataOK
  <2>3. /\ Len(sstables') = Len(sstables) + 1
        /\ DOMAIN sstables' = 1 .. Len(sstables) + 1
        /\ \A p \in DOMAIN sstables : sstables'[p] = sstables[p]
        /\ sstables'[Len(sstables) + 1].id = i
    BY <2>1, <2>2
  <2>4. Listed' = Listed \cup {i}
    BY <2>2, <2>3 DEF Listed
  <2>5. Listed \subseteq Files /\ \A l \in Listed, j \in Files \ Listed : l < j
    BY DEF IInv, StoreInv, ListInv
  <2>6. Files \subseteq TableId
    BY DEF Files
  <2>7. \A p, q \in DOMAIN sstables' : p < q => sstables'[p].id < sstables'[q].id
    BY <2>1, <2>2, <2>3, <2>5 DEF IInv, StoreInv, ListInv, Listed
  <2>8. \A l \in Listed \cup {i}, j \in Files \ (Listed \cup {i}) : l < j
    BY <2>1, <2>5, <2>6, BoundAssumption DEF TableId
  <2> QED BY <1>2, <2>1, <2>4, <2>5, <2>7, <2>8 DEF ListInv
<1>5. CallInv' /\ ReplayInv' /\ MergeInv' /\ NewTableInv'
  BY DEF IInv, StoreInv, CallInv, ReplayInv, MergeInv, NewTableInv
<1> QED BY <1>1, <1>2, <1>3, <1>4, <1>5 DEF StoreInv

LEMMA LoadEndStep == ASSUME IInv, LoadEnd PROVE StoreInv'
<1> USE DEF LoadEnd
<1>1. LogInv' /\ \A k : InWal(k)' <=> InWal(k)
  BY LogSame DEF IInv, StoreInv
<1>2. FileInv' /\ Files' = Files /\ \A k : SafeInTables(k)' <=> SafeInTables(k)
  BY TablesSame DEF IInv, StoreInv
<1>3. TablesInv' /\ MemInv'
  BY <1>1, <1>2 DEF IInv, StoreInv, TablesInv, MemInv, Serving
<1>4. ListInv'
  BY <1>2 DEF IInv, StoreInv, ListInv, Listed
<1>5. CallInv' /\ ReplayInv' /\ MergeInv' /\ NewTableInv'
  BY DEF IInv, StoreInv, CallInv, ReplayInv, MergeInv, NewTableInv
<1> QED BY <1>1, <1>2, <1>3, <1>4, <1>5 DEF StoreInv

-----------------------------------------------------------------------------
(* put, del and get; the start and the end of every call *)

LEMMA ThrowStep ==
  ASSUME IInv, NEW open, Throw(open), UNCHANGED <<walFile, tables>>,
         pc \in {"idle", "create", "merge"} \/ ExitOnError
  PROVE  StoreInv'
<1>1. CASE ExitOnError
  BY <1>1, Downfall DEF IInv, Throw
<1>2. CASE ~ExitOnError
  BY <1>2, BackToIdle DEF IInv, Throw
<1> QED BY <1>1, <1>2

\* A call starts: flush and compact with nothing changed, put and del with a
\* record in the buffer.
LEMMA StartStep ==
  ASSUME IInv, pc = "idle", pc' \in {"sync", "create", "merge"}, pc' = "merge" => pos' = 1,
         op' = "compact" <=> pc' = "merge",
         UNCHANGED <<walFile, tables, memtable, sstables, merged, newId, kv>>
  PROVE  StoreInv'
<1>1. LogInv' /\ ReplayInv' /\ MemInv' /\ TablesInv' /\ FileInv'
  BY StoreSame DEF IInv, Serving
<1>2. Files' = Files /\ Listed' = Listed
  BY DEF Files, Listed
<1>3. ListInv'
  BY <1>2 DEF IInv, StoreInv, ListInv
<1>4. MergeInv'
  BY DEF IInv, StoreInv, CallInv, MergeInv, NoRecords, TypeOK, DataOK
<1>5. CallInv' /\ NewTableInv'
  BY DEF IInv, StoreInv, CallInv, NewTableInv
<1> QED BY <1>1, <1>3, <1>4, <1>5 DEF StoreInv

LEMMA CallStep == ASSUME IInv, Call PROVE StoreInv'
<1>1. ASSUME NEW name \in {"put", "del"}, NEW k, NEW r, Append1(name, k, r) PROVE StoreInv'
  BY <1>1, StartStep DEF Append1, Accepting
<1>2. CASE \/ \E k \in Key, v \in Value : Put(k, v)
           \/ \E k \in Key : Del(k)
  BY <1>1, <1>2 DEF Put, Del
<1>3. ASSUME NEW k \in Key, Get(k) PROVE StoreInv'
  <2>1. LogInv' /\ ReplayInv' /\ MemInv' /\ TablesInv' /\ FileInv'
    BY <1>3, StoreSame DEF IInv, Serving, Get
  <2>2. Files' = Files /\ Listed' = Listed
    BY <1>3 DEF Files, Listed, Get
  <2>3. CallInv' /\ ListInv' /\ MergeInv' /\ NewTableInv'
    BY <1>3, <2>2 DEF IInv, StoreInv, CallInv, ListInv, MergeInv, NewTableInv, Get
  <2> QED BY <2>1, <2>3 DEF StoreInv
<1>4. ASSUME NEW k \in Key, GetThrows(k) PROVE StoreInv'
  BY <1>4, ThrowStep DEF GetThrows
<1>5. CASE AppendRefused
  BY <1>5, ThrowStep DEF AppendRefused
<1>6. CASE FlushEmpty
  BY <1>6, BackToIdle DEF IInv, FlushEmpty, Done
<1>7. CASE Flush
  BY <1>7, StartStep DEF Flush, Accepting
<1>8. CASE Compact
  BY <1>8, StartStep DEF Compact, Accepting
<1> QED BY <1>2, <1>3, <1>4, <1>5, <1>6, <1>7, <1>8 DEF Call

LEMMA ReturnStep == ASSUME IInv, Return PROVE StoreInv'
  BY BackToIdle DEF IInv, Return, Done

\* The synced record is the last of its key in the log, and the memtable's.
LEMMA SyncStep == ASSUME IInv, Sync PROVE StoreInv'
<1>1. PICK e \in Entry : walBuf = <<e>>
  BY DEF IInv, CtlInv, Sync
<1>2. Head(walBuf) = e
  BY <1>1
<1>3. /\ walFile' = Append(walFile, e)
      /\ memtable' = [memtable EXCEPT ![e.key] = e.rec]
      /\ kv' = [kv EXCEPT ![e.key] = Visible(e.rec)]
      /\ pc = "sync" /\ pc' \in {"create", "return"}
      /\ UNCHANGED <<tables, sstables, merged, newId, op>>
  BY <1>2 DEF Sync
<1>4. /\ walFile \in Seq(Entry)
      /\ memtable \in [Key -> Rec \cup {Absent}]
      /\ kv \in [Key -> Value \cup {None}]
      /\ e.key \in Key /\ e.rec \in Rec
      /\ e = [key |-> e.key, rec |-> e.rec]
  BY DEF IInv, TypeOK, DataOK, Entry
<1>5. memtable'[e.key] = e.rec /\ kv'[e.key] = Visible(e.rec)
  BY <1>3, <1>4
<1>6. RecOf(kv'[e.key]) = e.rec
  BY <1>4, <1>5, ValueAssumption DEF RecOf, Visible, Rec
<1>7. \A k \in Key : k # e.key => memtable'[k] = memtable[k] /\ kv'[k] = kv[k]
  BY <1>3, <1>4
<1>8. /\ Len(walFile') = Len(walFile) + 1
      /\ DOMAIN walFile = 1 .. Len(walFile)
      /\ DOMAIN walFile' = 1 .. Len(walFile) + 1
      /\ Len(walFile) \in Nat
      /\ walFile'[Len(walFile) + 1] = e
      /\ \A i \in DOMAIN walFile : walFile'[i] = walFile[i]
  BY <1>3, <1>4
<1>9. \A k \in Key : k # e.key => (InWal(k)' <=> InWal(k))
  BY <1>8 DEF InWal
<1>10. InWal(e.key)'
  BY <1>8 DEF InWal
<1>11. LogInv'
  <2>1. WalSays(e.key, e.rec)'
    BY <1>4, <1>8 DEF WalSays
  <2>2. ASSUME NEW k \in Key, k # e.key, WalSays(k, RecOf(kv[k])) PROVE WalSays(k, RecOf(kv[k]))'
    <3>1. RecOf(kv[k])' = RecOf(kv[k])
      BY <1>7, <2>2 DEF RecOf
    <3>2. PICK i \in DOMAIN walFile :
            /\ walFile[i] = [key |-> k, rec |-> RecOf(kv[k])]
            /\ \A j \in DOMAIN walFile : j > i => walFile[j].key # k
      BY <2>2 DEF WalSays
    <3> QED BY <1>8, <2>2, <3>1, <3>2 DEF WalSays
  <2> QED BY <1>6, <1>9, <2>1, <2>2 DEF IInv, StoreInv, LogInv
<1>12. Serving /\ Serving'
  BY <1>3 DEF Serving
<1>13. MemInv'
  BY <1>5, <1>6, <1>7, <1>9, <1>10, <1>12, <1>3 DEF IInv, StoreInv, MemInv, RecOf, Serving
<1>14. TablesInv'
  <2> SUFFICES ASSUME NEW k \in Key, memtable'[k] = Absent PROVE SafeInTables(k)'
    BY <1>12 DEF TablesInv
  <2>1. k # e.key
    BY <1>4, <1>5, ValueAssumption DEF Rec
  <2>2. SafeInTables(k)
    BY <1>7, <1>12, <2>1 DEF IInv, StoreInv, TablesInv
  <2> QED BY <1>3, <1>7, <2>1, <2>2 DEF SafeInTables, RecOf
<1>15. FileInv' /\ Files' = Files /\ Listed' = Listed
  BY <1>3 DEF IInv, StoreInv, FileInv, Files, Listed
<1>16. CallInv' /\ ListInv' /\ ReplayInv' /\ MergeInv' /\ NewTableInv'
  BY <1>3, <1>15 DEF IInv, StoreInv, CallInv, ListInv, ReplayInv, MergeInv, NewTableInv
<1> QED BY <1>11, <1>13, <1>14, <1>15, <1>16 DEF StoreInv

-----------------------------------------------------------------------------
(* Writing a table *)

LEMMA CreateTableStep == ASSUME IInv, CreateTable PROVE StoreInv'
<1> USE DEF CreateTable
<1>1. /\ NextId \in TableId /\ \A i \in Listed : i < NextId
      /\ Files = Listed /\ NextId \notin Files
  BY NextIdAbove, BoundAssumption DEF IInv, TypeOK, DataOK, CtlInv, StoreInv, ListInv, TableId
<1>2. tables \in [TableId -> TableFile] /\ tables[NextId].recs = NoRecords
  BY <1>1 DEF IInv, TypeOK, DataOK, StoreInv, FileInv, Files
<1>3. /\ tables'[NextId] = [state |-> "torn", recs |-> NoRecords]
      /\ \A i \in TableId \ {NextId} : tables'[i] = tables[i]
  BY <1>1, <1>2
<1>4. \A i \in TableId : tables'[i].recs = tables[i].recs
  BY <1>2, <1>3
<1>5. LogInv' /\ \A k : InWal(k)' <=> InWal(k)
  BY LogSame DEF IInv, StoreInv
<1>6. MemInv'
  BY <1>5 DEF IInv, StoreInv, MemInv, Serving
<1>7. TablesInv'
  <2>1. \A k : SafeInTables(k)' <=> SafeInTables(k)
    BY <1>4 DEF SafeInTables
  <2> QED BY <2>1 DEF IInv, StoreInv, TablesInv, Serving
<1>8. FileInv'
  BY <1>3 DEF IInv, StoreInv, FileInv
<1>9. ListInv'
  <2>1. Files' = Files \cup {NextId}
    BY <1>1, <1>3 DEF Files
  <2>2. Listed' = Listed
    BY DEF Listed
  <2> QED BY <1>1, <2>1, <2>2 DEF IInv, StoreInv, ListInv
<1>10. NewTableInv'
  BY <1>1, <1>3 DEF IInv, StoreInv, NewTableInv, NoRecords
<1>11. CallInv' /\ ReplayInv' /\ MergeInv'
  BY DEF IInv, StoreInv, CallInv, ReplayInv, MergeInv
<1> QED BY <1>5, <1>6, <1>7, <1>8, <1>9, <1>10, <1>11 DEF StoreInv

\* A record of the new table is one the memtable covers, or it is the map's value
\* in the newest table.
LEMMA WriteRecordStep == ASSUME IInv, WriteRecord PROVE StoreInv'
<1> USE DEF WriteRecord
<1>1. /\ newId \in TableId /\ tables \in [TableId -> TableFile]
      /\ Files = Listed \cup {newId} /\ \A i \in Listed : i < newId
  BY DEF IInv, TypeOK, DataOK, CtlInv, StoreInv, ListInv
<1>2. PICK k \in Remaining, st \in {"whole", "torn"} :
        /\ tables' = [tables EXCEPT ![newId] =
                        [state |-> st, recs |-> [tables[newId].recs EXCEPT ![k] = Source[k]]]]
        /\ pc' \in {"seal", "write"}
        /\ pc' = "seal" => Remaining = {k}
  OBVIOUS
<1>3. k \in Key /\ Source[k] # Absent /\ tables[newId].recs[k] = Absent
  BY <1>2 DEF Remaining, Keys
<1>4. /\ tables[newId].recs \in [Key -> Rec \cup {Absent}]
      /\ tables[newId].state # "none"
  BY <1>1 DEF TableFile, Files
<1>5. /\ tables'[newId].state # "none"
      /\ tables'[newId].recs = [tables[newId].recs EXCEPT ![k] = Source[k]]
      /\ \A i \in TableId \ {newId} : tables'[i] = tables[i]
  BY <1>1, <1>2
<1>6. /\ tables'[newId].recs[k] = Source[k]
      /\ \A j \in Key \ {k} : tables'[newId].recs[j] = tables[newId].recs[j]
  BY <1>3, <1>4, <1>5
<1>7. Source' = Source /\ Listed' = Listed
  BY DEF Source, Listed
<1>8. Files' = Files
  BY <1>1, <1>4, <1>5 DEF Files
<1>9. LogInv' /\ \A j : InWal(j)' <=> InWal(j)
  BY LogSame DEF IInv, StoreInv
<1>10. MemInv'
  BY <1>2, <1>9 DEF IInv, StoreInv, MemInv, Serving
<1>11. TablesInv'
  <2> SUFFICES ASSUME NEW j \in Key, memtable[j] = Absent PROVE SafeInTables(j)'
    BY <1>2 DEF TablesInv, Serving
  <2>1. SafeInTables(j)
    BY DEF IInv, StoreInv, TablesInv, Serving
  <2>2. CASE j # k
    <3>1. \A i \in TableId : tables'[i].recs[j] = tables[i].recs[j]
      BY <1>1, <1>5, <1>6, <2>2
    <3> QED BY <2>1, <3>1 DEF SafeInTables
  <2>3. CASE j = k
    <3>1. op = "compact" /\ Source = merged
      BY <1>3, <2>3 DEF Source
    <3>2. Source[k] = Kept(kv[k])
      BY <1>3, <3>1 DEF IInv, StoreInv, NewTableInv
    <3>3. tables'[newId].recs[j] = RecOf(kv[j])
      BY <1>3, <1>6, <2>3, <3>2 DEF Kept, RecOf
    <3>4. \A i \in TableId : i > newId => tables'[i].recs[j] = Absent
      <4> SUFFICES ASSUME NEW i \in TableId, i > newId PROVE tables'[i].recs[j] = Absent
        OBVIOUS
      <4>1. i \notin Files /\ i # newId
        BY <1>1, BoundAssumption DEF TableId
      <4>2. tables[i].recs = NoRecords
        BY <4>1 DEF IInv, StoreInv, FileInv, Files
      <4> QED BY <1>5, <4>1, <4>2 DEF NoRecords
    <3> QED BY <1>1, <3>3, <3>4 DEF SafeInTables
  <2> QED BY <2>2, <2>3
<1>12. FileInv'
  BY <1>5 DEF IInv, StoreInv, FileInv
<1>13. ListInv'
  BY <1>2, <1>7, <1>8 DEF IInv, StoreInv, ListInv
<1>14. NewTableInv'
  <2>1. \A j \in Key : tables[newId].recs[j] \in {Absent, Source[j]}
    BY DEF IInv, StoreInv, NewTableInv
  <2>2. \A j \in Key : tables'[newId].recs[j] \in {Absent, Source[j]}
    BY <1>6, <2>1
  <2>3. ASSUME Remaining = {k}, NEW j \in Key PROVE tables'[newId].recs[j] = Source[j]
    BY <1>6, <2>1, <2>3 DEF Remaining, Keys
  <2> QED BY <1>2, <1>7, <2>2, <2>3 DEF IInv, StoreInv, NewTableInv
<1>15. CallInv' /\ ReplayInv' /\ MergeInv'
  BY <1>2 DEF IInv, StoreInv, CallInv, ReplayInv, MergeInv
<1> QED BY <1>9, <1>10, <1>11, <1>12, <1>13, <1>14, <1>15 DEF StoreInv

LEMMA SealStep == ASSUME IInv, Seal PROVE StoreInv'
<1> USE DEF Seal
<1>1. /\ newId \in TableId /\ tables \in [TableId -> TableFile]
      /\ Files = Listed \cup {newId} /\ \A i \in Listed : i < newId
      /\ op # "compact" => pc' = "install"
      /\ op = "compact" => pc' = "remove" /\ pos' = 1
  BY DEF IInv, TypeOK, DataOK, CtlInv, StoreInv, ListInv, AfterSeal
<1>2. \A i \in TableId : /\ tables'[i].recs = tables[i].recs
                         /\ tables'[i].state = "none" <=> tables[i].state = "none"
  BY <1>1 DEF TableFile, Files
<1>3. Files' = Files /\ Listed' = Listed
  BY <1>2 DEF Files, Listed
<1>4. LogInv' /\ \A k : InWal(k)' <=> InWal(k)
  BY LogSame DEF IInv, StoreInv
<1>5. MemInv'
  BY <1>1, <1>4 DEF IInv, StoreInv, MemInv, Serving
<1>6. TablesInv'
  <2>1. \A k : SafeInTables(k)' <=> SafeInTables(k)
    BY <1>2 DEF SafeInTables
  <2> QED BY <1>1, <2>1 DEF IInv, StoreInv, TablesInv, Serving
<1>7. FileInv'
  BY <1>2 DEF IInv, StoreInv, FileInv
<1>8. ListInv'
  <2>1. \A i \in Listed : \E p \in DOMAIN sstables : p >= 1 /\ sstables[p].id = i
    BY DEF Listed, IInv, TypeOK, DataOK
  <2> QED BY <1>1, <1>3, <2>1 DEF IInv, StoreInv, ListInv
<1>9. NewTableInv'
  BY <1>1, <1>2, BoundAssumption DEF IInv, StoreInv, NewTableInv, Source, TableId
<1>10. CallInv' /\ ReplayInv' /\ MergeInv'
  BY <1>1 DEF IInv, StoreInv, CallInv, ReplayInv, MergeInv
<1> QED BY <1>4, <1>5, <1>6, <1>7, <1>8, <1>9, <1>10 DEF StoreInv

\* The table has what the memtable had, and no table is newer.
LEMMA InstallStep == ASSUME IInv, Install PROVE StoreInv'
<1> USE DEF Install
<1>1. /\ newId \in TableId /\ sstables \in Seq(Table)
      /\ Files = Listed \cup {newId} /\ \A i \in Listed : i < newId
  BY DEF IInv, TypeOK, DataOK, CtlInv, StoreInv, ListInv
<1>2. /\ Len(sstables') = Len(sstables) + 1
      /\ DOMAIN sstables = 1 .. Len(sstables)
      /\ DOMAIN sstables' = 1 .. Len(sstables) + 1
      /\ Len(sstables) \in Nat
      /\ \A p \in DOMAIN sstables : sstables'[p] = sstables[p]
      /\ sstables'[Len(sstables) + 1].id = newId
  BY <1>1
<1>3. Listed' = Listed \cup {newId}
  BY <1>2 DEF Listed
<1>4. LogInv' /\ \A k : InWal(k)' <=> InWal(k)
  BY LogSame DEF IInv, StoreInv
<1>5. FileInv' /\ Files' = Files /\ \A k : SafeInTables(k)' <=> SafeInTables(k)
  BY TablesSame DEF IInv, StoreInv
<1>6. MemInv'
  BY DEF MemInv, NoRecords
<1>7. TablesInv'
  <2> SUFFICES ASSUME NEW k \in Key PROVE SafeInTables(k)
    BY <1>5 DEF TablesInv
  <2>1. CASE memtable[k] = Absent
    BY <2>1 DEF IInv, StoreInv, TablesInv, Serving
  <2>2. CASE memtable[k] # Absent
    <3>1. tables[newId].recs[k] = RecOf(kv[k])
      BY <2>2 DEF IInv, StoreInv, NewTableInv, MemInv, Serving
    <3>2. \A i \in TableId : i > newId => tables[i].recs[k] = Absent
      <4> SUFFICES ASSUME NEW i \in TableId, i > newId PROVE tables[i].recs[k] = Absent
        OBVIOUS
      <4>1. i \notin Files
        BY <1>1, BoundAssumption DEF TableId
      <4> QED BY <4>1 DEF IInv, StoreInv, FileInv, Files, NoRecords
    <3> QED BY <1>1, <3>1, <3>2 DEF SafeInTables
  <2> QED BY <2>1, <2>2
<1>8. ListInv'
  <2>1. \A p, q \in DOMAIN sstables' : p < q => sstables'[p].id < sstables'[q].id
    BY <1>1, <1>2 DEF IInv, StoreInv, ListInv, Listed
  <2> QED BY <1>1, <1>3, <1>5, <2>1 DEF ListInv
<1>9. CallInv' /\ ReplayInv' /\ MergeInv' /\ NewTableInv'
  BY DEF CallInv, ReplayInv, MergeInv, NewTableInv
<1> QED BY <1>4, <1>5, <1>6, <1>7, <1>8, <1>9 DEF StoreInv

-----------------------------------------------------------------------------
(* compact *)

LEMMA MergeTableStep == ASSUME IInv, MergeTable PROVE StoreInv'
<1> USE DEF MergeTable, Over, NextPos
<1>1. LogInv' /\ ReplayInv' /\ MemInv' /\ TablesInv' /\ FileInv'
  BY StoreSame DEF IInv, Serving
<1>2. Files' = Files /\ Listed' = Listed
  BY DEF Files, Listed
<1>3. ListInv'
  BY <1>2 DEF IInv, StoreInv, ListInv
<1>4. MergeInv'
  <2> DEFINE R(p, k) == tables[sstables[p].id].recs[k]
  <2>1. pos \in Nat \ {0} /\ pos <= Len(sstables) /\ Len(sstables) \in Nat
    BY DEF IInv, TypeOK, DataOK, CtlInv
  <2>2. \A k \in Key : merged'[k] = IF R(pos, k) # Absent THEN R(pos, k) ELSE merged[k]
    OBVIOUS
  <2>3. \A k \in Key : \/ merged[k] = Absent /\ \A p \in 1 .. pos-1 : R(p, k) = Absent
                       \/ \E p \in 1 .. pos-1 : /\ merged[k] # Absent
                                                /\ R(p, k) = merged[k]
                                                /\ \A q \in p+1 .. pos-1 : R(q, k) = Absent
    BY DEF IInv, StoreInv, MergeInv
  <2> HIDE DEF R
  <2>4. ASSUME NEW k \in Key
        PROVE  \/ merged'[k] = Absent /\ \A p \in 1 .. pos : R(p, k) = Absent
               \/ \E p \in 1 .. pos : /\ merged'[k] # Absent
                                      /\ R(p, k) = merged'[k]
                                      /\ \A q \in p+1 .. pos : R(q, k) = Absent
    <3>1. CASE R(pos, k) # Absent
      <4>1. \A q \in pos+1 .. pos : R(q, k) = Absent
        BY <2>1
      <4> QED BY <2>1, <2>2, <3>1, <4>1
    <3>2. CASE R(pos, k) = Absent
      <4>1. merged'[k] = merged[k]
        BY <2>2, <3>2
      <4>2. CASE merged[k] = Absent /\ \A p \in 1 .. pos-1 : R(p, k) = Absent
        BY <2>1, <3>2, <4>1, <4>2
      <4>3. ASSUME NEW p \in 1 .. pos-1, merged[k] # Absent, R(p, k) = merged[k],
                   \A q \in p+1 .. pos-1 : R(q, k) = Absent
            PROVE  \E o \in 1 .. pos : /\ merged'[k] # Absent
                                       /\ R(o, k) = merged'[k]
                                       /\ \A q \in o+1 .. pos : R(q, k) = Absent
        <5>1. p \in 1 .. pos /\ \A q \in p+1 .. pos : R(q, k) = Absent
          BY <2>1, <3>2, <4>3
        <5> QED BY <4>1, <4>3, <5>1
      <4> QED BY <2>3, <4>2, <4>3
    <3> QED BY <3>1, <3>2
  <2>5. pos' - 1 = pos /\ pos' <= Len(sstables') + 1 /\ tables' = tables /\ sstables' = sstables
    BY <2>1
  <2> HIDE DEF MergeTable, Over, NextPos
  <2>6. \A k \in Key :
          \/ merged'[k] = Absent /\ \A p \in 1 .. pos'-1 : tables'[sstables'[p].id].recs[k] = Absent
          \/ \E p \in 1 .. pos'-1 :
               /\ merged'[k] # Absent
               /\ tables'[sstables'[p].id].recs[k] = merged'[k]
               /\ \A q \in p+1 .. pos'-1 : tables'[sstables'[q].id].recs[k] = Absent
    BY <2>4, <2>5 DEF R
  <2> QED BY <2>5, <2>6 DEF MergeInv
<1>5. CallInv' /\ NewTableInv'
  BY DEF IInv, StoreInv, CallInv, NewTableInv
<1> QED BY <1>1, <1>3, <1>4, <1>5 DEF StoreInv

\* Merging the tables oldest first and the memtable last gives the map.
LEMMA MergeEndStep == ASSUME IInv, MergeEnd PROVE StoreInv'
<1> USE DEF MergeEnd, Survivors
<1>1. LogInv' /\ ReplayInv' /\ MemInv' /\ TablesInv' /\ FileInv'
  BY StoreSame DEF IInv, Serving
<1>2. Files' = Files /\ Listed' = Listed
  BY DEF Files, Listed
<1>3. /\ pos - 1 = Len(sstables) /\ Len(sstables) \in Nat
      /\ DOMAIN sstables = 1 .. Len(sstables)
      /\ kv \in [Key -> Value \cup {None}]
      /\ newId = 0 /\ Files = Listed
      /\ \A p, q \in DOMAIN sstables : p < q => sstables[p].id < sstables[q].id
  BY DEF IInv, TypeOK, DataOK, StoreInv, CallInv, ListInv, MergeInv
<1>4. \A p \in DOMAIN sstables : sstables[p].id \in TableId
  <2>1. \A p \in DOMAIN sstables : sstables[p] \in Table
    BY DEF IInv, TypeOK, DataOK
  <2>2. \A t \in Table : t.id \in TableId
    BY DEF Table
  <2> QED BY <2>1, <2>2
<1>5. ASSUME NEW k \in Key PROVE merged'[k] = Kept(kv[k])
  <2>1. /\ kv[k] \in Value \cup {None}
        /\ RecOf(kv[k]) # Absent
        /\ merged'[k] = IF Overlay[k] = Tombstone THEN Absent ELSE Overlay[k]
        /\ Overlay[k] = IF memtable[k] # Absent THEN memtable[k] ELSE merged[k]
    BY <1>3, ValueAssumption DEF RecOf, Live, Overlay, Over
  <2>2. CASE Overlay[k] = RecOf(kv[k])
    BY <2>1, <2>2, ValueAssumption DEF RecOf, Kept
  <2>3. CASE memtable[k] # Absent
    BY <2>1, <2>2, <2>3 DEF IInv, StoreInv, MemInv, Serving
  <2>4. CASE memtable[k] = Absent
    <3>1. SafeInTables(k)
      BY <2>4 DEF IInv, StoreInv, TablesInv, Serving
    <3>2. ASSUME NEW i \in TableId, tables[i].recs[k] # Absent
          PROVE  \E p \in DOMAIN sstables : sstables[p].id = i
      BY <1>3, <3>2 DEF IInv, StoreInv, FileInv, Files, Listed, NoRecords
    <3>3. CASE /\ merged[k] = Absent
               /\ \A p \in DOMAIN sstables : tables[sstables[p].id].recs[k] = Absent
      <4>1. \A i \in TableId : tables[i].recs[k] = Absent
        BY <3>2, <3>3
      <4>2. kv[k] = None
        BY <2>1, <3>1, <4>1 DEF SafeInTables
      <4> QED BY <2>1, <2>4, <3>3, <4>2, ValueAssumption DEF Kept
    <3>4. ASSUME NEW p \in DOMAIN sstables, merged[k] # Absent,
                 tables[sstables[p].id].recs[k] = merged[k],
                 \A q \in p+1 .. Len(sstables) : tables[sstables[q].id].recs[k] = Absent
          PROVE  Overlay[k] = RecOf(kv[k])
      <4>1. PICK i \in TableId : /\ tables[i].recs[k] = RecOf(kv[k])
                                 /\ \A j \in TableId : j > i => tables[j].recs[k] = Absent
        BY <1>4, <3>1, <3>4 DEF SafeInTables
      <4>2. PICK o \in DOMAIN sstables : sstables[o].id = i
        BY <2>1, <3>2, <4>1
      <4>3. ~(o > p)
        BY <1>3, <2>1, <3>4, <4>1, <4>2
      <4>4. ~(o < p)
        <5>1. sstables[p].id \in TableId /\ (o < p => sstables[p].id > i)
          BY <1>3, <1>4, <4>2
        <5> QED BY <3>4, <4>1, <5>1
      <4>5. o = p
        BY <1>3, <4>3, <4>4
      <4> QED BY <2>1, <2>4, <3>4, <4>1, <4>2, <4>5
    <3> QED BY <1>3, <2>2, <3>3, <3>4 DEF IInv, StoreInv, MergeInv
  <2> QED BY <2>3, <2>4
<1>6. merged' = NoRecords => \A k \in Key : kv[k] = None
  BY <1>3, <1>5, ValueAssumption DEF Kept, NoRecords
<1>7. ListInv'
  BY <1>2, <1>3 DEF IInv, StoreInv, ListInv, Listed
<1>8. NewTableInv'
  BY <1>3, <1>5, <1>6 DEF NewTableInv
<1>9. CallInv' /\ MergeInv'
  BY DEF IInv, StoreInv, CallInv, MergeInv
<1> QED BY <1>1, <1>7, <1>8, <1>9 DEF StoreInv

\* A removed table is the oldest that is left: its tombstones have nothing to hide.
LEMMA RemoveTableStep == ASSUME IInv, RemoveTable PROVE StoreInv'
<1> USE DEF RemoveTable, OldestLeft, NextPos
<1> DEFINE gone == sstables[pos].id
<1>1. /\ pos \in Nat \ {0} /\ pos \in DOMAIN sstables
      /\ sstables \in Seq(Table)
      /\ tables \in [TableId -> TableFile]
      /\ kv \in [Key -> Value \cup {None}]
      /\ newId \in TableId \cup {0}
  BY DEF IInv, TypeOK, DataOK, CtlInv
<1>2. \A p \in DOMAIN sstables : sstables[p].id \in TableId
  <2>1. \A p \in DOMAIN sstables : sstables[p] \in Table
    BY <1>1
  <2>2. \A t \in Table : t.id \in TableId
    BY DEF Table
  <2> QED BY <2>1, <2>2
<1>3. gone \in TableId /\ gone \in Nat /\ \A i \in TableId : i \in Nat /\ i # 0
  BY <1>1, <1>2, BoundAssumption DEF TableId
<1>4. /\ \A p, q \in DOMAIN sstables : p < q => sstables[p].id < sstables[q].id
      /\ \A i \in Files : \/ i = newId
                          \/ \E p \in DOMAIN sstables : p >= pos /\ sstables[p].id = i
      /\ newId # 0 => newId \in Files /\ \A i \in Listed : i < newId
  BY DEF IInv, StoreInv, ListInv
<1>5. gone \in Listed /\ (newId # 0 => newId \in TableId /\ gone < newId /\ gone # newId)
  <2>1. gone \in Listed
    BY <1>1 DEF Listed
  <2>2. newId # 0 => newId \in TableId /\ gone < newId
    BY <1>1, <1>4, <2>1
  <2> QED BY <1>3, <2>1, <2>2
<1>6. tables'[gone] = NoFile /\ \A i \in TableId \ {gone} : tables'[i] = tables[i]
  BY <1>1, <1>3
<1>7. \A i \in Files : i >= gone
  <2> SUFFICES ASSUME NEW i \in Files PROVE i >= gone
    OBVIOUS
  <2>1. CASE i = newId /\ newId # 0
    <3>1. gone < newId /\ newId \in Nat /\ gone \in Nat
      BY <1>3, <1>5, <2>1
    <3> QED BY <2>1, <3>1
  <2>2. ASSUME NEW p \in DOMAIN sstables, p >= pos, sstables[p].id = i PROVE i >= gone
    <3>1. p = pos \/ pos < p
      BY <1>1, <2>2
    <3>2. sstables[p].id \in Nat /\ sstables[pos].id \in Nat
      BY <1>1, <1>2, <1>3
    <3>3. pos < p => sstables[pos].id < sstables[p].id
      BY <1>1, <1>4
    <3> QED BY <2>2, <3>1, <3>2, <3>3
  <2>3. i # 0
    BY <1>3 DEF Files
  <2> QED BY <1>4, <2>1, <2>2, <2>3
<1>8. \A i \in TableId : i < gone => tables[i].recs = NoRecords
  <2> SUFFICES ASSUME NEW i \in TableId, i < gone PROVE tables[i].recs = NoRecords
    OBVIOUS
  <2> HIDE DEF gone
  <2>1. i \notin Files
    BY <1>3, <1>7
  <2> QED BY <2>1 DEF Files, IInv, StoreInv, FileInv
<1>9. Listed' = Listed
  BY DEF Listed
<1>10. Files' = Files \ {gone}
  BY <1>3, <1>6 DEF Files, NoFile
<1>11. LogInv' /\ \A k : InWal(k)' <=> InWal(k)
  BY LogSame DEF IInv, StoreInv
<1>12. MemInv'
  BY <1>11 DEF IInv, StoreInv, MemInv, Serving
<1>13. TablesInv'
  <2> SUFFICES ASSUME NEW k \in Key, memtable[k] = Absent PROVE SafeInTables(k)'
    BY DEF TablesInv, Serving
  <2>1. SafeInTables(k)
    BY DEF IInv, StoreInv, TablesInv, Serving
  <2>2. tables'[gone].recs[k] = Absent
    BY <1>6 DEF NoFile, NoRecords
  <2>3. CASE \A i \in TableId : tables[i].recs[k] = Absent
    BY <1>6, <2>1, <2>2, <2>3, <1>1, ValueAssumption DEF SafeInTables, RecOf
  <2>4. ASSUME NEW i \in TableId, tables[i].recs[k] = RecOf(kv[k]),
               \A j \in TableId : j > i => tables[j].recs[k] = Absent
        PROVE  SafeInTables(k)'
    <3>1. \A j \in TableId : j > i => tables'[j].recs[k] = Absent
      BY <1>6, <2>2, <2>4
    <3>2. CASE i # gone
      BY <1>6, <2>4, <3>1, <3>2 DEF SafeInTables
    <3>3. CASE i = gone /\ kv[k] = None
      <4>1. \A j \in TableId : j < gone => tables'[j].recs[k] = Absent
        <5> SUFFICES ASSUME NEW j \in TableId, j < gone PROVE tables'[j].recs[k] = Absent
          OBVIOUS
        <5>1. j # gone
          BY <1>3
        <5> QED BY <1>6, <1>8, <5>1 DEF NoRecords
      <4>2. \A j \in TableId : j < gone \/ j = gone \/ j > gone
        BY <1>3
      <4>3. \A j \in TableId : tables'[j].recs[k] = Absent
        BY <2>2, <3>1, <3>3, <4>1, <4>2
      <4> QED BY <3>3, <4>3 DEF SafeInTables
    <3>4. CASE i = gone /\ kv[k] # None
      <4>1. newId # 0 /\ tables[newId].recs[k] = kv[k]
        BY <3>4 DEF IInv, StoreInv, NewTableInv, Kept
      <4>2. newId \in TableId /\ newId > gone
        BY <1>1, <1>4, <1>5, <4>1
      <4> QED BY <1>1, <2>4, <3>4, <4>1, <4>2, ValueAssumption
    <3> QED BY <3>2, <3>3, <3>4
  <2> QED BY <2>1, <2>3, <2>4 DEF SafeInTables
<1>14. FileInv'
  BY <1>6 DEF IInv, StoreInv, FileInv, NoFile
<1>15. ListInv'
  <2>1. \A i \in Files' : \/ i = newId
                          \/ \E p \in DOMAIN sstables : p >= pos+1 /\ sstables[p].id = i
    <3> SUFFICES ASSUME NEW i \in Files, i # gone, NEW p \in DOMAIN sstables, p >= pos, sstables[p].id = i
                 PROVE  p >= pos+1
      BY <1>4, <1>10
    <3> QED BY <1>1
  <2> QED BY <1>4, <1>5, <1>9, <1>10, <2>1 DEF ListInv
<1>16. NewTableInv'
  BY <1>1, <1>5, <1>6 DEF IInv, StoreInv, NewTableInv
<1>17. CallInv' /\ ReplayInv' /\ MergeInv'
  BY DEF IInv, StoreInv, CallInv, ReplayInv, MergeInv
<1> QED BY <1>11, <1>12, <1>13, <1>14, <1>15, <1>16, <1>17 DEF StoreInv

\* The new table, if there is one, is the whole map; the memtable may go.
LEMMA SwapStep == ASSUME IInv, Swap PROVE StoreInv'
<1> USE DEF Swap, NewTable, ListedAlone
<1>1. /\ pos > Len(sstables) /\ sstables \in Seq(Table) /\ pos \in Nat
      /\ kv \in [Key -> Value \cup {None}]
      /\ newId \in TableId \cup {0}
      /\ newId # 0 => newId \in Files
  BY DEF IInv, TypeOK, DataOK, StoreInv, ListInv
<1>2. Files = {newId} \ {0}
  <2>1. \A i \in Files : i = newId
    BY <1>1 DEF IInv, StoreInv, ListInv
  <2>2. 0 \notin Files
    BY BoundAssumption DEF Files, TableId
  <2> QED BY <1>1, <2>1, <2>2
<1>3. LogInv' /\ \A k : InWal(k)' <=> InWal(k)
  BY LogSame DEF IInv, StoreInv
<1>4. FileInv' /\ Files' = Files /\ \A k : SafeInTables(k)' <=> SafeInTables(k)
  BY TablesSame DEF IInv, StoreInv
<1>5. \A i \in TableId : i # newId => tables[i].recs = NoRecords
  BY <1>2 DEF Files, IInv, StoreInv, FileInv
<1>6. TablesInv'
  <2> SUFFICES ASSUME NEW k \in Key PROVE SafeInTables(k)
    BY <1>4 DEF TablesInv
  <2>1. \A i \in TableId : i # newId => tables[i].recs[k] = Absent
    BY <1>5 DEF NoRecords
  <2>2. CASE newId = 0
    BY <2>1, <2>2, BoundAssumption DEF IInv, StoreInv, NewTableInv, SafeInTables, TableId
  <2>3. CASE newId # 0
    <3>1. newId \in TableId /\ tables[newId].recs[k] = Kept(kv[k])
      BY <1>1, <2>3 DEF IInv, StoreInv, NewTableInv
    <3>2. CASE kv[k] = None
      BY <2>1, <3>1, <3>2 DEF Kept, SafeInTables
    <3>3. CASE kv[k] # None
      <4>1. tables[newId].recs[k] = RecOf(kv[k])
        BY <3>1, <3>3 DEF Kept, RecOf
      <4>2. \A j \in TableId : j > newId => tables[j].recs[k] = Absent
        BY <2>1, <3>1, BoundAssumption DEF TableId
      <4> QED BY <3>1, <4>1, <4>2 DEF SafeInTables
    <3> QED BY <3>2, <3>3
  <2> QED BY <2>2, <2>3
<1>7. ListInv'
  <2>1. CASE newId = 0
    BY <1>2, <1>4, <2>1 DEF ListInv, Listed
  <2>2. CASE newId # 0
    <3>1. sstables' = <<[id |-> newId, cached |-> FALSE, index |-> {}]>>
      BY <2>2
    <3>2. DOMAIN sstables' = {1} /\ sstables'[1].id = newId
      <4> DEFINE t == [id |-> newId, cached |-> FALSE, index |-> {}]
      <4>1. t.id = newId
        OBVIOUS
      <4> HIDE DEF t
      <4>2. DOMAIN <<t>> = {1} /\ <<t>>[1] = t
        OBVIOUS
      <4>3. sstables' = <<t>>
        BY <3>1 DEF t
      <4> QED BY <4>1, <4>2, <4>3
    <3>3. Listed' = {newId}
      BY <3>2 DEF Listed
    <3> QED BY <1>2, <1>4, <2>2, <3>2, <3>3 DEF ListInv
  <2> QED BY <2>1, <2>2
<1>8. MemInv'
  BY DEF MemInv, NoRecords
<1>9. CallInv' /\ ReplayInv' /\ MergeInv' /\ NewTableInv'
  BY DEF CallInv, ReplayInv, MergeInv, NewTableInv
<1> QED BY <1>3, <1>4, <1>6, <1>7, <1>8, <1>9 DEF StoreInv

-----------------------------------------------------------------------------
(* The end of flush and compact, and the failures *)

LEMMA ResetStep == ASSUME IInv, Reset PROVE StoreInv'
<1> USE DEF Reset
<1>1. memtable = NoRecords /\ Serving /\ Serving'
  BY DEF IInv, StoreInv, CallInv, Serving
<1>2. FileInv' /\ Files' = Files /\ \A k : SafeInTables(k)' <=> SafeInTables(k)
  BY TablesSame DEF IInv, StoreInv
<1>3. TablesInv'
  BY <1>1, <1>2 DEF IInv, StoreInv, TablesInv
<1>4. MemInv'
  BY <1>1 DEF MemInv, NoRecords
<1>5. LogInv'
  <2>1. CASE walFile' = walFile
    BY <2>1, LogSame DEF IInv, StoreInv
  <2>2. CASE walFile' = <<>>
    BY <2>2 DEF LogInv, InWal
  <2> QED BY <2>1, <2>2 DEF Truncate
<1>6. ListInv'
  BY <1>2 DEF IInv, StoreInv, ListInv, Listed
<1>7. CallInv' /\ ReplayInv' /\ MergeInv' /\ NewTableInv'
  BY DEF CallInv, ReplayInv, MergeInv, NewTableInv
<1> QED BY <1>2, <1>3, <1>4, <1>5, <1>6, <1>7 DEF StoreInv

\* The log was emptied or not when the process leaves: no key needed it any more.
LEMMA ReopenFailsStep == ASSUME IInv, ReopenFails PROVE StoreInv'
<1> USE DEF ReopenFails
<1>1. /\ pc = "reset" /\ memtable = NoRecords /\ UNCHANGED <<tables, kv>>
      /\ walFile' = walFile \/ walFile' = <<>>
      /\ merged' = NoRecords /\ newId' = 0
  BY DEF IInv, StoreInv, CallInv, Throw, Truncate
<1>2. CASE ExitOnError
  <2>1. pc' = "down" /\ Forget
    BY <1>2 DEF Throw
  <2>2. FileInv' /\ \A k : SafeInTables(k)' <=> SafeInTables(k)
    BY <1>1, TablesSame DEF IInv, StoreInv
  <2>3. \A k \in Key : SafeInTables(k)
    BY <1>1 DEF IInv, StoreInv, TablesInv, Serving, NoRecords
  <2>4. TablesInv'
    BY <2>2, <2>3 DEF TablesInv
  <2>5. LogInv'
    BY <1>1, LogSame DEF IInv, StoreInv, LogInv, InWal
  <2>6. CallInv' /\ ReplayInv' /\ MemInv' /\ ListInv' /\ MergeInv' /\ NewTableInv'
    BY <1>1, <2>1 DEF Forget, CallInv, ReplayInv, MemInv, Serving, ListInv, MergeInv, NewTableInv
  <2> QED BY <2>2, <2>4, <2>5, <2>6 DEF StoreInv
<1>3. CASE ~ExitOnError
  BY <1>1, <1>3, BackToIdle DEF IInv, Throw
<1> QED BY <1>2, <1>3

LEMMA FaultStep == ASSUME SafeFaults, IInv, FileFault \/ MergeFails PROVE StoreInv'
<1>1. CASE CreateFails
  BY <1>1, ThrowStep DEF CreateFails
<1>2. CASE WriteFails
  <2>1. ExitOnError
    BY <1>2 DEF SafeFaults, WriteFails
  <2> QED BY <1>2, <2>1, ThrowStep DEF WriteFails
<1>3. CASE RemoveFails
  <2>1. ExitOnError
    BY <1>3 DEF SafeFaults, RemoveFails
  <2> QED BY <1>3, <2>1, ThrowStep DEF RemoveFails
<1>4. CASE MergeFails
  BY <1>4, ThrowStep DEF MergeFails
<1>5. CASE ReopenFails
  BY <1>5, ReopenFailsStep
<1>6. ~CloseFails /\ ~WriteRepeats
  BY DEF SafeFaults, CloseFails, WriteRepeats
<1>7. CASE OpenFails
  BY <1>7, Downfall DEF IInv, OpenFails, Quiet
<1> QED BY <1>1, <1>2, <1>3, <1>4, <1>5, <1>6, <1>7 DEF FileFault

LEMMA DieStep == ASSUME SafeFaults, IInv, Crash \/ PowerLoss PROVE StoreInv'
<1>1. Crash
  BY DEF SafeFaults, PowerLoss
<1> QED BY <1>1, Downfall DEF IInv, Crash, Die

LEMMA RecoveryStep == ASSUME IInv, Recovery PROVE StoreInv'
<1>1. CASE ReplayRefused
  BY <1>1, Downfall DEF IInv, StoreInv, CallInv, ReplayRefused
<1> QED BY <1>1, OpenStep, ReplayRecordStep, ReplayEndStep, LoadTableStep, LoadEndStep DEF Recovery

LEMMA StutterStep == ASSUME IInv, UNCHANGED vars PROVE StoreInv'
<1> USE DEF vars
<1>1. LogInv' /\ \A k : InWal(k)' <=> InWal(k)
  BY LogSame DEF IInv, StoreInv
<1>2. FileInv' /\ Files' = Files /\ \A k : SafeInTables(k)' <=> SafeInTables(k)
  BY TablesSame DEF IInv, StoreInv
<1>3. MemInv' /\ TablesInv'
  BY <1>1, <1>2 DEF IInv, StoreInv, MemInv, TablesInv, Serving
<1>4. ListInv' /\ CallInv' /\ ReplayInv' /\ MergeInv' /\ NewTableInv'
  BY <1>2 DEF IInv, StoreInv, ListInv, Listed, CallInv, ReplayInv, MergeInv, NewTableInv, Source
<1> QED BY <1>1, <1>2, <1>3, <1>4 DEF StoreInv

-----------------------------------------------------------------------------
(* The invariant and what follows from it *)

LEMMA InitIInv == Init => IInv
<1> SUFFICES ASSUME Init PROVE IInv
  OBVIOUS
<1>1. TypeOK /\ CtlInv
  BY InitType DEF TInv
<1>2. LogInv /\ MemInv
  BY DEF Init, LogInv, InWal, MemInv, Serving
<1>3. TablesInv /\ FileInv
  BY DEF Init, TablesInv, SafeInTables, FileInv, NoFile, NoRecords
<1>4. CallInv /\ ReplayInv /\ ListInv /\ MergeInv /\ NewTableInv
  BY DEF Init, CallInv, ReplayInv, ListInv, MergeInv, NewTableInv
<1> QED BY <1>1, <1>2, <1>3, <1>4 DEF IInv, StoreInv

LEMMA IInvStep == SafeFaults /\ IInv /\ [Next]_vars => IInv'
<1> SUFFICES ASSUME SafeFaults, IInv, [Next]_vars PROVE IInv'
  OBVIOUS
<1>1. TypeOK' /\ CtlInv'
  BY TInvStep DEF IInv, TInv
<1>2. StoreInv'
  <2>1. CASE Recovery
    BY <2>1, RecoveryStep
  <2>2. CASE Call
    BY <2>2, CallStep
  <2>3. CASE Serve
    BY <2>3, SyncStep, ReturnStep, CreateTableStep, WriteRecordStep, SealStep, InstallStep,
       MergeTableStep, FaultStep, MergeEndStep, RemoveTableStep, SwapStep, ResetStep
    DEF Serve
  <2>4. CASE FileFault
    BY <2>4, FaultStep
  <2>5. CASE Crash \/ PowerLoss
    BY <2>5, DieStep
  <2>6. CASE UNCHANGED vars
    BY <2>6, StutterStep
  <2> QED BY <2>1, <2>2, <2>3, <2>4, <2>5, <2>6 DEF Next
<1> QED BY <1>1, <1>2 DEF IInv

\* A key the log has is right in the log, any other is right in the tables.
LEMMA IInvDurable == IInv => DurableView
<1> SUFFICES ASSUME IInv, NEW k \in Key
             PROVE  \E r \in Rec \cup {Absent} : DiskSays(k, r) /\ Visible(r) = kv[k]
  BY DEF DurableView
<1>1. kv[k] \in Value \cup {None}
  BY DEF IInv, TypeOK, DataOK
<1>2. RecOf(kv[k]) \in Rec /\ RecOf(kv[k]) # Absent /\ Visible(RecOf(kv[k])) = kv[k]
  BY <1>1, ValueAssumption DEF RecOf, Rec, Visible
<1>3. CASE InWal(k)
  BY <1>2, <1>3 DEF IInv, StoreInv, LogInv, DiskSays
<1>4. CASE ~InWal(k)
  <2>1. SafeInTables(k)
    BY <1>4 DEF IInv, StoreInv, TablesInv, MemInv, Serving
  <2>2. CASE kv[k] = None /\ \A i \in TableId : tables[i].recs[k] = Absent
    <3>1. DiskSays(k, Absent) /\ Visible(Absent) = kv[k]
      BY <1>4, <2>2, ValueAssumption DEF DiskSays, TablesSay, Visible
    <3> QED BY <3>1
  <2>3. CASE \E i \in TableId : /\ tables[i].recs[k] = RecOf(kv[k])
                                /\ \A j \in TableId : j > i => tables[j].recs[k] = Absent
    <3>1. DiskSays(k, RecOf(kv[k]))
      BY <1>2, <1>4, <2>3 DEF DiskSays, TablesSay
    <3> QED BY <1>2, <3>1
  <2> QED BY <2>1, <2>2, <2>3 DEF SafeInTables
<1> QED BY <1>3, <1>4

\* Durability, at every step of every call: log and tables hold the map that the
\* synced records add up to, if no failure is one of those that lose data unnoticed
\* and a caller that sees one in the middle of a table exits (as main.cpp does).
THEOREM Durable == ASSUME SafeFaults PROVE Spec => []DurableView
<1>1. Init => IInv
  BY InitIInv
<1>2. IInv /\ [Next]_vars => IInv'
  BY IInvStep
<1>3. IInv => DurableView
  BY IInvDurable
<1> QED BY <1>1, <1>2, <1>3, PTL DEF Spec

-----------------------------------------------------------------------------
(* The search of the tables *)

\* A table that is in the list is a file of the directory while no call removes any.
LEMMA ListedTable ==
  ASSUME IInv, NEW p \in DOMAIN sstables
  PROVE  /\ p \in 1 .. Len(sstables)
         /\ sstables[p].id \in Listed /\ sstables[p].id \in TableId
         /\ sstables[p].cached \in BOOLEAN
         /\ tables[sstables[p].id] \in TableFile
<1>1. sstables \in Seq(Table) /\ tables \in [TableId -> TableFile]
  BY DEF IInv, TypeOK, DataOK
<1>2. sstables[p] \in Table /\ p \in 1 .. Len(sstables)
  BY <1>1
<1>3. sstables[p].id \in TableId /\ sstables[p].cached \in BOOLEAN
  BY <1>2 DEF Table
<1> QED BY <1>1, <1>2, <1>3 DEF Listed

\* The search from the newest table ends somewhere.
LEMMA SearchEnds ==
  ASSUME sstables \in Seq(Table), NEW k
  PROVE  \E p \in 0 .. Len(sstables) : SearchEndsAt(k, p)
<1> DEFINE S == {p \in 1 .. Len(sstables) : ~Misses(sstables[p], k)}
<1>1. Len(sstables) \in Nat
  OBVIOUS
<1>2. CASE S = {}
  <2>1. \A q \in 1 .. Len(sstables) : Misses(sstables[q], k)
    BY <1>2
  <2>2. SearchEndsAt(k, 0)
    BY <1>1, <2>1 DEF SearchEndsAt
  <2> QED BY <1>1, <2>2
<1>3. CASE S # {}
  <2>1. S \subseteq 1 .. Len(sstables) /\ 1 \in Int /\ Len(sstables) \in Int
    BY <1>1
  <2>2. PICK m \in S : \A p \in S : p <= m
    <3> HIDE DEF S
    <3> QED BY <1>3, <2>1, GreatestInRange
  <2>3. m \in 1 .. Len(sstables) /\ ~Misses(sstables[m], k)
    BY <2>2
  <2>4. \A q \in m+1 .. Len(sstables) : q \in 1 .. Len(sstables) /\ ~(q <= m)
    BY <1>1, <2>3
  <2>5. \A q \in m+1 .. Len(sstables) : Misses(sstables[q], k)
    BY <2>2, <2>4
  <2>6. SearchEndsAt(k, m)
    BY <1>1, <2>3, <2>5 DEF SearchEndsAt
  <2> QED BY <1>1, <2>3, <2>6
<1> QED BY <1>2, <1>3

\* A table that is passed over has no record of the key.
LEMMA MissTrue ==
  ASSUME RInv, NEW p \in DOMAIN sstables, NEW k \in Key, Misses(sstables[p], k)
  PROVE  tables[sstables[p].id].recs[k] = Absent
<1>1. IInv /\ IndexInv
  BY DEF RInv
<1>2. sstables[p].id \in Files /\ sstables[p].id \in TableId
  BY <1>1, ListedTable DEF Files, Misses
<1>3. CASE ~Indexed(sstables[p], k)
  <2>1. sstables[p].cached /\ k \notin sstables[p].index
    BY <1>3 DEF Indexed
  <2> QED BY <1>1, <1>2, <2>1 DEF IndexInv, Keys
<1> QED BY <1>3 DEF Misses

\* A search that ends without a record ends at a file that was cut.
LEMMA CutTrue ==
  ASSUME RInv, pc = "idle", NEW p \in DOMAIN sstables, NEW k \in Key,
         ~Misses(sstables[p], k), ~Hits(sstables[p], k)
  PROVE  ~Loadable(sstables[p].id)
<1>1. IInv /\ IndexInv /\ Files = Listed
  BY DEF RInv, IInv, StoreInv, ListInv
<1>2. sstables[p].id \in Files /\ tables[sstables[p].id].state # "none"
  BY <1>1, ListedTable DEF Files
<1>3. Indexed(sstables[p], k) /\ tables[sstables[p].id].recs[k] = Absent
  BY <1>2 DEF Misses, Hits
<1>4. ~sstables[p].cached
  BY <1>1, <1>2, <1>3 DEF IndexInv, Indexed, Keys
<1> QED BY <1>2, <1>3, <1>4 DEF Misses, Loadable

\* The only record of k that no newer table hides is the map's.
LEMMA NewestTrue ==
  ASSUME IInv, Files = Listed, NEW k \in Key, SafeInTables(k), NEW p \in DOMAIN sstables,
         tables[sstables[p].id].recs[k] # Absent,
         \A q \in DOMAIN sstables : q > p => tables[sstables[q].id].recs[k] = Absent
  PROVE  tables[sstables[p].id].recs[k] = RecOf(kv[k])
<1>1. /\ sstables \in Seq(Table) /\ kv[k] \in Value \cup {None}
      /\ \A q \in DOMAIN sstables : sstables[q].id \in TableId
  BY ListedTable DEF IInv, TypeOK, DataOK
<1>2. PICK i \in TableId : /\ tables[i].recs[k] = RecOf(kv[k])
                           /\ \A j \in TableId : j > i => tables[j].recs[k] = Absent
  BY <1>1 DEF SafeInTables
<1>3. RecOf(kv[k]) # Absent
  BY <1>1, ValueAssumption DEF RecOf
<1>4. i \in Files
  BY <1>2, <1>3 DEF IInv, StoreInv, FileInv, Files, NoRecords
<1>5. PICK o \in DOMAIN sstables : sstables[o].id = i
  BY <1>4 DEF Listed
<1>6. ~(o > p)
  BY <1>2, <1>3, <1>5
<1>7. ~(o < p)
  <2>1. o < p => sstables[o].id < sstables[p].id
    BY DEF IInv, StoreInv, ListInv
  <2>2. sstables[o].id \in Nat /\ sstables[p].id \in Nat
    BY <1>1, BoundAssumption DEF TableId
  <2> QED BY <1>1, <1>2, <1>5, <2>1, <2>2
<1>8. o = p
  BY <1>1, <1>6, <1>7
<1> QED BY <1>2, <1>5, <1>8

\* What get answers is what the map has, or the error of a file that was cut.
LEMMA AnswerOfMap ==
  ASSUME RInv, pc = "idle", NEW k \in Key
  PROVE  \/ Answer(k) = kv[k]
         \/ Answer(k) = "error" /\ \E i \in Listed : ~Loadable(i)
<1>1. /\ IInv /\ Files = Listed /\ Serving
      /\ sstables \in Seq(Table) /\ kv[k] \in Value \cup {None}
  BY DEF RInv, IInv, TypeOK, DataOK, StoreInv, ListInv, Serving
<1>2. RecOf(kv[k]) # Absent /\ Visible(RecOf(kv[k])) = kv[k]
  BY <1>1, ValueAssumption DEF RecOf, Visible
<1>3. CASE memtable[k] # Absent
  BY <1>1, <1>2, <1>3 DEF Answer, InMemtable, IInv, StoreInv, MemInv
<1>4. CASE memtable[k] = Absent
  <2> DEFINE p == CHOOSE p \in 0 .. Len(sstables) : SearchEndsAt(k, p)
  <2>1. p \in 0 .. Len(sstables) /\ SearchEndsAt(k, p)
    BY <1>1, SearchEnds
  <2>2. Answer(k) = IF p = 0 THEN None
                    ELSE IF Hits(sstables[p], k) THEN Visible(tables[sstables[p].id].recs[k])
                    ELSE "error"
    BY <1>4 DEF Answer, InMemtable
  <2> HIDE DEF p
  <2>3. SafeInTables(k)
    BY <1>1, <1>4 DEF IInv, StoreInv, TablesInv
  <2>4. DOMAIN sstables = 1 .. Len(sstables) /\ Len(sstables) \in Nat
    BY <1>1
  <2>5. \A q \in DOMAIN sstables : q > p => tables[sstables[q].id].recs[k] = Absent
    <3> SUFFICES ASSUME NEW q \in DOMAIN sstables, q > p
                 PROVE  tables[sstables[q].id].recs[k] = Absent
      OBVIOUS
    <3>1. q \in p+1 .. Len(sstables)
      BY <2>1, <2>4
    <3>2. Misses(sstables[q], k)
      BY <2>1, <3>1 DEF SearchEndsAt
    <3> QED BY <3>2, MissTrue
  <2>6. CASE p = 0
    <3>1. \A i \in TableId : tables[i].recs[k] = Absent
      <4> SUFFICES ASSUME NEW i \in TableId, tables[i].recs[k] # Absent PROVE FALSE
        OBVIOUS
      <4>1. i \in Listed
        BY <1>1 DEF IInv, StoreInv, FileInv, Files, NoRecords
      <4>2. PICK q \in DOMAIN sstables : sstables[q].id = i
        BY <4>1 DEF Listed
      <4> QED BY <2>4, <2>5, <2>6, <4>2
    <3>2. kv[k] = None
      BY <1>2, <2>3, <3>1 DEF SafeInTables
    <3> QED BY <2>2, <2>6, <3>2
  <2>7. CASE p # 0
    <3>1. p \in DOMAIN sstables /\ ~Misses(sstables[p], k)
      BY <2>1, <2>4, <2>7 DEF SearchEndsAt
    <3>2. CASE Hits(sstables[p], k)
      <4>1. tables[sstables[p].id].recs[k] # Absent
        BY <3>2 DEF Hits
      <4>2. tables[sstables[p].id].recs[k] = RecOf(kv[k])
        BY <1>1, <2>3, <2>5, <3>1, <4>1, NewestTrue
      <4> QED BY <1>2, <2>2, <2>7, <3>2, <4>2
    <3>3. CASE ~Hits(sstables[p], k)
      <4>1. ~Loadable(sstables[p].id) /\ sstables[p].id \in Listed
        BY <1>1, <3>1, <3>3, CutTrue, ListedTable
      <4> QED BY <2>2, <2>7, <3>3, <4>1
    <3> QED BY <3>2, <3>3
  <2> QED BY <2>6, <2>7
<1> QED BY <1>3, <1>4

-----------------------------------------------------------------------------
(* The invariant that the answers rest on *)

LEMMA OpStep == OpInv /\ [Next]_vars => OpInv'
<1> SUFFICES ASSUME OpInv, [Next]_vars PROVE OpInv'
  OBVIOUS
<1> USE DEF OpInv
<1>1. ASSUME NEW open, Throw(open) PROVE OpInv'
  BY <1>1 DEF Throw
<1>2. CASE Recovery
  BY <1>2 DEF Recovery, Open, ReplayRecord, ReplayEnd, ReplayRefused, LoadTable, LoadEnd
<1>3. CASE Call
  BY <1>1, <1>3 DEF Call, Put, Del, Append1, Accepting, Get, GetThrows, AppendRefused,
                    FlushEmpty, Done, Flush, Compact
<1>4. CASE Serve
  BY <1>1, <1>4 DEF Serve, Sync, Return, Done, CreateTable, WriteRecord, Seal, AfterSeal, Install,
                    MergeTable, MergeFails, MergeEnd, RemoveTable, Swap, Reset
<1>5. CASE FileFault
  BY <1>1, <1>5 DEF FileFault, OpenFails, Quiet, CreateFails, WriteFails, WriteRepeats, CloseFails,
                    AfterSeal, RemoveFails, ReopenFails
<1>6. CASE Crash \/ PowerLoss
  BY <1>6 DEF Crash, PowerLoss, Die
<1>7. CASE UNCHANGED vars
  BY <1>7 DEF vars
<1> QED BY <1>2, <1>3, <1>4, <1>5, <1>6, <1>7 DEF Next

\* The list is as it was and so are the files it names, if they are still there.
LEMMA IndexSame ==
  ASSUME IInv, IndexInv, sstables' = sstables,
         \A i \in Listed : i \in Files' => i \in Files /\ tables'[i] = tables[i]
  PROVE  IndexInv'
<1>1. \A p \in DOMAIN sstables : sstables[p].id \in Listed
  BY ListedTable
<1> QED BY <1>1 DEF IndexInv, Keys

\* A table that an object did not write itself has no metadata in memory.
LEMMA IndexUncached ==
  ASSUME IndexInv, tables' = tables,
         \A p \in DOMAIN sstables' : \/ ~sstables'[p].cached
                                     \/ p \in DOMAIN sstables /\ sstables'[p] = sstables[p]
  PROVE  IndexInv'
  BY DEF IndexInv, Keys, Files

LEMMA IndexFiles ==
  ASSUME IInv, IndexInv, CreateTable \/ WriteRecord \/ Seal \/ RemoveTable
  PROVE  IndexInv'
<1>1. /\ sstables \in Seq(Table) /\ tables \in [TableId -> TableFile]
      /\ \A i \in Listed : i \in TableId /\ i \in Nat
  <2>1. \A i \in Listed : i \in TableId
    BY ListedTable DEF Listed
  <2> QED BY <2>1, BoundAssumption DEF IInv, TypeOK, DataOK, TableId
<1>2. CASE CreateTable
  <2>1. \A i \in Listed : i < NextId /\ i # NextId
    BY <1>1, <1>2, NextIdAbove DEF IInv, StoreInv, ListInv
  <2>2. \A i \in Listed : tables'[i] = tables[i]
    BY <1>1, <1>2, <2>1 DEF CreateTable
  <2> QED BY <1>1, <1>2, <2>2, IndexSame DEF CreateTable, Files
<1>3. CASE WriteRecord \/ Seal
  <2>1. \A i \in Listed : i < newId /\ i # newId
    BY <1>1, <1>3 DEF IInv, StoreInv, ListInv, WriteRecord, Seal
  <2>2. \A i \in Listed : tables'[i] = tables[i]
    BY <1>1, <1>3, <2>1 DEF WriteRecord, Seal
  <2> QED BY <1>1, <1>3, <2>2, IndexSame DEF WriteRecord, Seal, Files
<1>4. CASE RemoveTable
  <2>1. \A i \in TableId : tables'[i] = tables[i] \/ tables'[i] = NoFile
    BY <1>1, <1>4 DEF RemoveTable
  <2>2. \A i \in Listed : i \in Files' => i \in Files /\ tables'[i] = tables[i]
    BY <1>1, <2>1 DEF Files, NoFile
  <2> QED BY <1>4, <2>2, IndexSame DEF RemoveTable
<1> QED BY <1>2, <1>3, <1>4

LEMMA IndexInstall == ASSUME IInv, IndexInv, Install PROVE IndexInv'
<1>1. /\ sstables \in Seq(Table) /\ newId \in TableId /\ tables' = tables
      /\ sstables' = Append(sstables, [id |-> newId, cached |-> TRUE, index |-> Keys(memtable)])
      /\ \A k \in Key : tables[newId].recs[k] = memtable[k]
  BY DEF Install, IInv, TypeOK, DataOK, CtlInv, StoreInv, NewTableInv
<1>2. Keys(memtable) = Keys(tables[newId].recs)
  BY <1>1 DEF Keys
<1>3. \A p \in DOMAIN sstables' :
         \/ p \in DOMAIN sstables /\ sstables'[p] = sstables[p]
         \/ sstables'[p] = [id |-> newId, cached |-> TRUE, index |-> Keys(memtable)]
  BY <1>1
<1>4. Files' = Files /\ \A i : Keys(tables[i].recs)' = Keys(tables[i].recs)
  BY <1>1 DEF Files, Keys
<1> SUFFICES ASSUME NEW p \in DOMAIN sstables', sstables'[p].cached, sstables'[p].id \in Files
             PROVE  sstables'[p].index = Keys(tables[sstables'[p].id].recs)
  BY <1>1, <1>4 DEF IndexInv, Keys
<1> QED BY <1>2, <1>3 DEF IndexInv

LEMMA IndexStep == ASSUME SafeFaults, IInv, IndexInv, [Next]_vars PROVE IndexInv'
<1>1. ASSUME UNCHANGED <<tables, sstables>> PROVE IndexInv'
  BY <1>1, IndexUncached
<1>2. ASSUME tables' = tables, sstables' = <<>> PROVE IndexInv'
  BY <1>2, IndexUncached
<1>3. ASSUME NEW open, Throw(open), tables' = tables PROVE IndexInv'
  BY <1>1, <1>2, <1>3 DEF Throw, Forget
<1>4. CASE Recovery
  <2>1. CASE LoadTable
    <3>1. PICK i : sstables' = Append(sstables, [id |-> i, cached |-> FALSE, index |-> {}])
      BY <2>1 DEF LoadTable
    <3>2. sstables \in Seq(Table) /\ tables' = tables
      BY <2>1 DEF IInv, TypeOK, DataOK, LoadTable
    <3>3. \A p \in DOMAIN sstables' : \/ ~sstables'[p].cached
                                      \/ p \in DOMAIN sstables /\ sstables'[p] = sstables[p]
      BY <3>1, <3>2
    <3> QED BY <3>2, <3>3, IndexUncached
  <2> QED BY <1>1, <1>2, <1>4, <2>1 DEF Recovery, Open, ReplayRecord, ReplayEnd, ReplayRefused, Forget,
                                   LoadEnd
<1>5. CASE Call
  BY <1>1, <1>3, <1>5 DEF Call, Put, Del, Append1, Get, GetThrows, AppendRefused, FlushEmpty,
                          Flush, Compact
<1>6. CASE Serve
  <2>1. CASE Swap
    BY <2>1, IndexUncached DEF Swap, ListedAlone, NewTable
  <2> QED BY <1>1, <1>3, <1>6, <2>1, IndexFiles, IndexInstall
          DEF Serve, Sync, Return, MergeTable, MergeFails, MergeEnd, Reset
<1>7. CASE FileFault
  BY <1>2, <1>3, <1>7 DEF FileFault, OpenFails, Forget, CreateFails, WriteFails, WriteRepeats, CloseFails,
                          SafeFaults, RemoveFails, ReopenFails
<1>8. CASE Crash \/ PowerLoss
  BY <1>2, <1>8 DEF Crash, PowerLoss, Die, Forget
<1>9. CASE UNCHANGED vars
  BY <1>1, <1>9 DEF vars
<1> QED BY <1>4, <1>5, <1>6, <1>7, <1>8, <1>9 DEF Next

\* The list is swapped once every old file is gone and the new one holds the map.
LEMMA ResultSwap == ASSUME IInv, Swap PROVE ResultInv'
<1>1. /\ pos > Len(sstables) /\ pos \in Nat /\ sstables \in Seq(Table)
      /\ pc' = "reset"
      /\ UNCHANGED <<tables, newId, kv>>
  BY DEF Swap, IInv, TypeOK, DataOK
<1>2. /\ \A i \in Files : i = newId
      /\ newId # 0 => newId \in Files
      /\ newId # 0 => \A k \in Key : tables[newId].recs[k] = Kept(kv[k])
      /\ newId = 0 => \A k \in Key : kv[k] = None
  BY <1>1 DEF Swap, IInv, StoreInv, ListInv, NewTableInv
<1>3. 0 \notin Files
  BY BoundAssumption DEF Files, TableId
<1>4. Files' = Files
  BY <1>1 DEF Files
<1> QED BY <1>1, <1>2, <1>3, <1>4 DEF ResultInv, Kept

LEMMA ResultStep == ASSUME IInv, ResultInv, OpInv, [Next]_vars PROVE ResultInv'
<1>1. ASSUME pc' \notin {"reset", "return"} PROVE ResultInv'
  BY <1>1 DEF ResultInv
<1>2. ASSUME NEW open, Throw(open) PROVE ResultInv'
  BY <1>1, <1>2 DEF Throw
<1>3. CASE Recovery
  BY <1>1, <1>3 DEF Recovery, Open, ReplayRecord, ReplayEnd, ReplayRefused, LoadTable, LoadEnd
<1>4. CASE Call
  BY <1>1, <1>2, <1>4 DEF Call, Put, Del, Append1, Get, GetThrows, AppendRefused, FlushEmpty, Done,
                          Flush, Compact
<1>5. CASE Serve
  <2>1. CASE Sync \/ Install
    BY <2>1 DEF Sync, Install, IInv, StoreInv, CallInv, ResultInv
  <2>2. CASE Reset
    <3>1. /\ memtable' = NoRecords /\ pc' = "return" /\ pc = "reset"
          /\ walFile' = <<>> \/ "truncate" \in Faults
          /\ UNCHANGED <<tables, op, newId, kv>>
      BY <2>2 DEF Reset, Truncate, IInv, StoreInv, CallInv
    <3>2. Files' = Files
      BY <3>1 DEF Files
    <3> QED BY <3>1, <3>2 DEF ResultInv, Kept
  <2> QED BY <1>1, <1>2, <1>5, <2>1, <2>2, ResultSwap
          DEF Serve, Return, Done, CreateTable, WriteRecord, Seal, AfterSeal,
              MergeTable, MergeFails, MergeEnd, RemoveTable
<1>6. CASE FileFault
  BY <1>1, <1>2, <1>6 DEF FileFault, OpenFails, CreateFails, WriteFails, WriteRepeats, CloseFails,
                          AfterSeal, RemoveFails, ReopenFails
<1>7. CASE Crash \/ PowerLoss
  BY <1>1, <1>7 DEF Crash, PowerLoss, Die
<1>8. CASE UNCHANGED vars
  BY <1>8 DEF vars, ResultInv, Files, Kept
<1> QED BY <1>3, <1>4, <1>5, <1>6, <1>7, <1>8 DEF Next

LEMMA InitRInv == Init => RInv
<1> SUFFICES ASSUME Init PROVE RInv
  OBVIOUS
<1>1. IInv
  BY InitIInv
<1>2. OpInv /\ IndexInv /\ ResultInv
  BY DEF Init, OpInv, IndexInv, ResultInv
<1> QED BY <1>1, <1>2 DEF RInv

LEMMA RInvStep == SafeFaults /\ RInv /\ [Next]_vars => RInv'
  BY IInvStep, OpStep, IndexStep, ResultStep DEF RInv

\* The invariant below the answers, compaction and the refinement holds always.
THEOREM AnswersInvariant == ASSUME SafeFaults PROVE Spec => []RInv
<1>1. Init => RInv
  BY InitRInv
<1>2. RInv /\ [Next]_vars => RInv'
  BY RInvStep
<1> QED BY <1>1, <1>2, PTL DEF Spec

LEMMA RInvAnswers == RInv => AnswersTrue
  BY AnswerOfMap DEF AnswersTrue

LEMMA RInvCompact == RInv => CompactLeavesLive
<1> SUFFICES ASSUME RInv, pc = "return", op = "compact"
             PROVE  /\ Cardinality(Files) <= 1
                    /\ memtable = NoRecords
                    /\ \/ walFile = <<>>
                       \/ /\ "truncate" \in Faults
                          /\ \A k \in Key : InWal(k) =>
                               \E r \in Rec : WalSays(k, r) /\ Visible(r) = kv[k]
                    /\ \A i \in Files : \A k \in Key :
                         tables[i].recs[k] = (IF kv[k] = None THEN Absent ELSE kv[k])
                    /\ Files = {} => kv = [k \in Key |-> None]
  BY DEF CompactLeavesLive
<1>1. Files = {} \/ Files = {newId}
  BY DEF RInv, ResultInv
<1>2. Cardinality(Files) <= 1
  <2>1. Cardinality({}) = 0 /\ Cardinality({newId}) = 1
    BY FS_EmptySet, FS_Singleton
  <2> QED BY <1>1, <2>1
<1>3. kv \in [Key -> Value \cup {None}]
  BY DEF RInv, IInv, TypeOK, DataOK
<1>4. ASSUME NEW k \in Key, InWal(k) PROVE \E r \in Rec : WalSays(k, r) /\ Visible(r) = kv[k]
  <2>1. WalSays(k, RecOf(kv[k]))
    BY <1>4 DEF RInv, IInv, StoreInv, LogInv
  <2>2. RecOf(kv[k]) \in Rec /\ Visible(RecOf(kv[k])) = kv[k]
    BY <1>3, ValueAssumption DEF RecOf, Rec, Visible
  <2> QED BY <2>1, <2>2
<1>5. walFile = <<>> \/ "truncate" \in Faults
  BY DEF RInv, ResultInv
<1> QED BY <1>2, <1>3, <1>4, <1>5 DEF RInv, ResultInv, Kept

\* Between calls every get has the map's answer, or throws because a table was cut:
\* memtable, order of the tables, cached metadata and files never disagree.
THEOREM AnswersRight == ASSUME SafeFaults PROVE Spec => []AnswersTrue
<1>1. Spec => []RInv
  BY AnswersInvariant
<1>2. RInv => AnswersTrue
  BY RInvAnswers
<1> QED BY <1>1, <1>2, PTL

\* After compact the live keys are in one file, and nothing else is anywhere.
THEOREM CompactRight == ASSUME SafeFaults PROVE Spec => []CompactLeavesLive
<1>1. Spec => []RInv
  BY AnswersInvariant
<1>2. RInv => CompactLeavesLive
  BY RInvCompact
<1> QED BY <1>1, <1>2, PTL

-----------------------------------------------------------------------------
(* Every step is a step of the map or changes nothing of it *)

LEMMA PendingOne ==
  ASSUME NEW e, walBuf = <<e>>
  PROVE  Pending = {[key |-> e.key, val |-> Visible(e.rec)]}
  BY DEF Pending

LEMMA PendingNone == walBuf = <<>> => Pending = {}
  BY DEF Pending

LEMMA PendingNext == (walBuf' = <<>> => Pending' = {}) /\ (walBuf' = walBuf => Pending' = Pending)
  BY DEF Pending

LEMMA InitMaps == Init => KV!KVInit
  BY PendingNone DEF Init, KV!KVInit

\* A step between the start and the end of a call, or of recovery.
LEMMA Inside == UNCHANGED <<kv, op, walBuf, reply>> => UNCHANGED KV!kvVars
  BY PendingNext DEF KV!kvVars

LEMMA ThrowMaps ==
  ASSUME CtlInv, pc # "sync", NEW open, Throw(open)
  PROVE  KV!Fail
<1>1. walBuf' = <<>>
  BY DEF CtlInv, Throw, Forget
<1> QED BY <1>1, PendingNext DEF Throw, KV!Fail

LEMMA RecoveryMaps == ASSUME RInv, Recovery PROVE [KV!KVNext]_KV!kvVars
<1>1. CASE ReplayRefused
  <2>1. op' = "none" /\ walBuf' = <<>> /\ reply' = "error" /\ kv' = kv
    BY <1>1 DEF ReplayRefused, Forget, RInv, OpInv
  <2> QED BY <2>1, PendingNext DEF KV!KVNext, KV!Fail
<1>2. CASE LoadEnd
  <2>1. op' = "none" /\ walBuf' = <<>> /\ reply' = "none" /\ kv' = kv
    BY <1>2 DEF LoadEnd, RInv, OpInv, IInv, CtlInv
  <2> QED BY <2>1, PendingNext DEF KV!KVNext, KV!Crash
<1>3. CASE Open \/ ReplayRecord \/ ReplayEnd \/ LoadTable
  BY <1>3, Inside DEF Open, ReplayRecord, ReplayEnd, LoadTable
<1> QED BY <1>1, <1>2, <1>3 DEF Recovery

\* put and del announce the change that their record makes.
LEMMA AskMaps ==
  ASSUME RInv, NEW name, NEW k, NEW r, Append1(name, k, r)
  PROVE  KV!Ask(name, {[key |-> k, val |-> Visible(r)]})
<1>1. op = "none" /\ walBuf = <<>>
  BY DEF Append1, Accepting, RInv, OpInv, IInv, CtlInv
<1>2. walBuf' = <<[key |-> k, rec |-> r]>>
  BY <1>1 DEF Append1
<1>3. Pending' = {[key |-> k, val |-> Visible(r)]}
  BY <1>2 DEF Pending
<1> QED BY <1>1, <1>3 DEF Append1, KV!Ask

LEMMA CallMaps == ASSUME RInv, Call PROVE [KV!KVNext]_KV!kvVars
<1>1. pc = "idle" => op = "none" /\ walBuf = <<>>
  BY DEF RInv, OpInv, IInv, CtlInv
<1>2. ASSUME NEW k \in Key, NEW v \in Value, Put(k, v) PROVE KV!KVNext
  <2>1. Visible(v) = v
    BY DEF Visible
  <2>2. KV!Put(k, v)
    BY <1>2, <2>1, AskMaps DEF Put, KV!Put
  <2> QED BY <2>2 DEF KV!KVNext, KV!Request
<1>3. ASSUME NEW k \in Key, Del(k) PROVE KV!KVNext
  <2>1. Visible(Tombstone) = None
    BY ValueAssumption DEF Visible
  <2>2. KV!Del(k)
    BY <1>3, <2>1, AskMaps DEF Del, KV!Del
  <2> QED BY <2>2 DEF KV!KVNext, KV!Request
<1>4. ASSUME NEW k \in Key, Get(k) PROVE KV!KVNext
  <2>1. reply' = kv[k]
    BY <1>4, AnswerOfMap DEF Get
  <2>2. KV!Get(k)
    BY <1>1, <1>4, <2>1, PendingNext DEF Get, KV!Get
  <2> QED BY <2>2 DEF KV!KVNext
<1>5. ASSUME NEW k \in Key, GetThrows(k) PROVE KV!KVNext
  BY <1>5, ThrowMaps DEF GetThrows, KV!KVNext, RInv, IInv
<1>6. CASE AppendRefused
  BY <1>6, ThrowMaps DEF AppendRefused, KV!KVNext, RInv, IInv
<1>7. CASE FlushEmpty
  <2>1. KV!Trivial
    BY <1>1, <1>7, PendingNext DEF FlushEmpty, Done, KV!Trivial
  <2> QED BY <2>1 DEF KV!KVNext
<1>8. ASSUME NEW name \in {"flush", "compact"}, pc = "idle", op' = name, reply' = "none",
             UNCHANGED <<walBuf, kv>>
      PROVE  KV!KVNext
  <2>1. KV!Maintain(name)
    BY <1>1, <1>8, PendingNext DEF KV!Maintain, KV!Ask
  <2> QED BY <2>1 DEF KV!KVNext, KV!Request
<1>9. CASE Flush \/ Compact
  BY <1>8, <1>9 DEF Flush, Compact, Accepting
<1> QED BY <1>2, <1>3, <1>4, <1>5, <1>6, <1>7, <1>9 DEF Call

\* The map changes when the record is in the file, in one step.
LEMMA SyncMaps == ASSUME RInv, Sync PROVE KV!Commit
<1>1. PICK e \in Entry : walBuf = <<e>>
  BY DEF RInv, IInv, CtlInv, Sync
<1> DEFINE c == [key |-> e.key, val |-> Visible(e.rec)]
<1>2. Head(walBuf) = e /\ Tail(walBuf) = <<>>
  BY <1>1
<1>3. kv' = [kv EXCEPT ![e.key] = Visible(e.rec)] /\ walBuf' = <<>> /\ UNCHANGED <<op, reply>>
  BY <1>2 DEF Sync
<1>4. Pending = {c} /\ Pending' = {}
  BY <1>1, <1>3, PendingOne, PendingNext
<1>5. kv' = [kv EXCEPT ![c.key] = c.val]
  BY <1>3
<1> HIDE DEF c
<1>6. c \in Pending /\ Pending' = Pending \ {c}
  BY <1>4
<1> QED BY <1>3, <1>5, <1>6 DEF KV!Commit

LEMMA ServeMaps == ASSUME RInv, Serve PROVE [KV!KVNext]_KV!kvVars
<1>1. CASE Sync
  BY <1>1, SyncMaps DEF KV!KVNext
<1>2. CASE Return
  <2>1. op # "none" /\ walBuf = <<>>
    BY <1>2 DEF Return, RInv, OpInv, IInv, CtlInv
  <2>2. KV!Respond
    BY <1>2, <2>1, PendingNone, PendingNext DEF Return, Done, KV!Respond
  <2> QED BY <2>2 DEF KV!KVNext
<1>3. CASE MergeFails
  BY <1>3, ThrowMaps DEF MergeFails, KV!KVNext, RInv, IInv
<1>4. CASE \/ CreateTable \/ WriteRecord \/ Seal \/ Install
           \/ MergeTable \/ MergeEnd \/ RemoveTable \/ Swap \/ Reset
  BY <1>4, Inside DEF CreateTable, WriteRecord, Seal, Install, MergeTable, MergeEnd, RemoveTable,
                      Swap, Reset
<1> QED BY <1>1, <1>2, <1>3, <1>4 DEF Serve

LEMMA FailureMaps ==
  ASSUME RInv, FileFault \/ Crash \/ PowerLoss
  PROVE  [KV!KVNext]_KV!kvVars
<1>1. CASE CreateFails \/ WriteFails \/ WriteRepeats \/ RemoveFails \/ ReopenFails
  BY <1>1, ThrowMaps DEF CreateFails, WriteFails, WriteRepeats, RemoveFails, ReopenFails, KV!KVNext,
                         RInv, IInv
<1>2. CASE CloseFails
  BY <1>2, Inside DEF CloseFails
<1>3. CASE Crash \/ PowerLoss
  <2>1. op' = "none" /\ walBuf' = <<>> /\ reply' = "none" /\ kv' = kv
    BY <1>3 DEF Crash, PowerLoss, Die, Forget
  <2> QED BY <2>1, PendingNext DEF KV!KVNext, KV!Crash
<1>4. CASE OpenFails
  <2>1. op' = "none" /\ walBuf' = <<>> /\ reply' = "error" /\ kv' = kv
    BY <1>4 DEF OpenFails, Quiet, Forget
  <2> QED BY <2>1, PendingNext DEF KV!KVNext, KV!Fail
<1> QED BY <1>1, <1>2, <1>3, <1>4 DEF FileFault

LEMMA StepMaps == RInv /\ [Next]_vars => [KV!KVNext]_KV!kvVars
<1> SUFFICES ASSUME RInv, [Next]_vars PROVE [KV!KVNext]_KV!kvVars
  OBVIOUS
<1>1. CASE UNCHANGED vars
  BY <1>1, Inside DEF vars
<1> QED BY <1>1, RecoveryMaps, CallMaps, ServeMaps, FailureMaps DEF Next

\* CauliBase implements the durable map: each put and del takes effect at one instant,
\* "ok" follows it, a get answers what the map has then, a crash or an error loses no
\* more than the change that was under way.
THEOREM Implements == ASSUME SafeFaults PROVE Spec => ImplementsKVStore
<1>1. Init => KV!KVInit
  BY InitMaps
<1>2. RInv /\ [Next]_vars => [KV!KVNext]_KV!kvVars
  BY StepMaps
<1>3. Spec => []RInv
  BY AnswersInvariant
<1> QED BY <1>1, <1>2, <1>3, PTL DEF Spec, ImplementsKVStore, KV!KVSpec
=============================================================================
