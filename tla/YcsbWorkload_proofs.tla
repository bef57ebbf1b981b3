------------------------- MODULE YcsbWorkload_proofs -------------------------
(***************************************************************************)
(* What YcsbWorkload.tla states, for every size of a size_t and all        *)
(* configurations whose records and operations together fit in one: a      *)
(* record_count and an operation_count whose sum reaches 2^64 would have   *)
(* current_record_count_ wrap around to zero, which no run lives to see.   *)
(***************************************************************************)
EXTENDS YcsbWorkload, TLAPS

\* The counters of no configuration wrap around.
NoWrap == \A c \in Config : c.record_count + c.operation_count < Size

-----------------------------------------------------------------------------
(* The inductive invariant *)

Running == phase \in {"load", "next", "execute", "done"}

\* The configuration is one of the user's, and a driver that runs has a valid one.
ConfigInv ==
  /\ phase \in {"new", "refused", "load", "next", "execute", "done"}
  /\ config \in Config \cup {[c EXCEPT !.request_distribution = "latest"] : c \in Config}
  /\ Running => config.record_count # 0 /\ config.min_scan_length # 0

\* The counters go up together, at most once in a transaction.
CountInv ==
  /\ {current_record_count, transaction_index, found} \subseteq Nat
  /\ next_insert_id = current_record_count
  /\ transaction_index <= config.operation_count
  /\ config.record_count <= current_record_count
  /\ current_record_count <= config.record_count + transaction_index

\* The table of the Zipfian draw.
CdfInv == /\ cdf \in 0 .. current_record_count
          /\ Running /\ config.request_distribution = "zipfian" => cdf = current_record_count

\* The database: an insert that is drawn and not done is the only key it lacks.
StoredInv ==
  /\ phase \in {"new", "refused", "load"} =>
       /\ stored = {} /\ found = 0 /\ transaction_index = 0 /\ operation = NoOperation
  /\ phase \in {"next", "done"} =>
       /\ stored = 0 .. current_record_count - 1 /\ found = transaction_index
       /\ operation = NoOperation
  /\ phase = "execute" =>
       /\ found = transaction_index - 1
       /\ operation.type \in Operations(mixFor(config.workload))
       /\ operation.scan_length \in Count
       /\ operation.type = "scan" => operation.scan_length >= 1
       /\ operation.key \in 0 .. current_record_count - 1
       /\ IF operation.type = "insert"
          THEN /\ operation.key = current_record_count - 1
               /\ stored = 0 .. current_record_count - 2
          ELSE stored = 0 .. current_record_count - 1

YcsbInv == ConfigInv /\ CountInv /\ CdfInv /\ StoredInv

-----------------------------------------------------------------------------
(* Numbers *)

\* A number below Size is itself as a size_t.
LEMMA SmallMod == ASSUME NEW a \in 0 .. Size - 1 PROVE a % Size = a
BY SizeAssumption

\* The shares of every workload fill the twentieths, so that what the others leave
\* falls to an operation of the mix.
LEMMA MixSound ==
  ASSUME NEW w \in Workload, NEW t \in Operations(mixFor(w))
  PROVE  /\ mixFor(w)[t] > 0
         /\ t \in {"read", "update", "insert", "scan", "read_modify_write"}
<1>1. CASE w = "a"
  BY <1>1 DEF mixFor, Mix, Operations
<1>2. CASE w = "b"
  BY <1>2 DEF mixFor, Mix, Operations
<1>3. CASE w = "c"
  BY <1>3 DEF mixFor, Mix, Operations
<1>4. CASE w = "d"
  BY <1>4 DEF mixFor, Mix, Operations
<1>5. CASE w = "e"
  BY <1>5 DEF mixFor, Mix, Operations
<1>6. CASE w = "f"
  BY <1>6 DEF mixFor, Mix, Operations
<1> QED BY <1>1, <1>2, <1>3, <1>4, <1>5, <1>6 DEF Workload

\* What is known of the configuration in use.
LEMMA ConfigFields ==
  ASSUME ConfigInv
  PROVE  /\ config.workload \in Workload
         /\ config.request_distribution \in Distribution
         /\ {config.record_count, config.operation_count, config.min_scan_length,
             config.max_scan_length} \subseteq Count
         /\ NoWrap => config.record_count + config.operation_count < Size
<1>1. PICK c \in Config : config = c \/ config = [c EXCEPT !.request_distribution = "latest"]
  BY DEF ConfigInv
<1>2. c \in [workload : Workload, request_distribution : Distribution,
             record_count : Count, operation_count : Count,
             min_scan_length : Count, max_scan_length : Count]
  BY ConfigAssumption
<1> QED BY <1>1, <1>2 DEF NoWrap, Distribution

\* While the driver runs the counters are below Size, and Pred and Plus are - and +.
LEMMA Counters ==
  ASSUME YcsbInv, NoWrap
  PROVE  /\ current_record_count \in Count /\ transaction_index \in Count
         /\ Running => /\ current_record_count >= 1
                       /\ Pred(current_record_count) = current_record_count - 1
         /\ transaction_index < config.operation_count =>
              /\ current_record_count + 1 \in Count
              /\ Plus(current_record_count, 1) = current_record_count + 1
<1>1. /\ config.record_count \in Nat /\ config.operation_count \in Nat /\ Size \in Nat
      /\ config.record_count + config.operation_count < Size
  BY ConfigFields, SizeAssumption DEF YcsbInv, Count
<1>2. current_record_count \in 0 .. Size - 1 /\ transaction_index \in 0 .. Size - 1
  BY <1>1 DEF YcsbInv, CountInv
<1>3. Running => current_record_count >= 1 /\ current_record_count - 1 \in 0 .. Size - 1
  BY <1>1, <1>2 DEF YcsbInv, CountInv, ConfigInv
<1>4. transaction_index < config.operation_count => current_record_count + 1 \in 0 .. Size - 1
  BY <1>1, <1>2 DEF YcsbInv, CountInv
<1> QED BY <1>2, <1>3, <1>4, SmallMod DEF Pred, Plus, Count

\* Whatever the distribution, a key that is chosen is one of the database's.
LEMMA ChosenExists ==
  ASSUME YcsbInv, NoWrap, Running, NEW k \in chooseExistingKey
  PROVE  k \in 0 .. current_record_count - 1
<1>1. /\ current_record_count \in Nat /\ current_record_count >= 1
      /\ Pred(current_record_count) = current_record_count - 1
  BY Counters DEF YcsbInv, CountInv
<1>2. CASE config.request_distribution = "uniform"
  BY <1>1, <1>2 DEF chooseExistingKey, chooseUniformKey
<1>3. CASE config.request_distribution = "zipfian"
  BY <1>1, <1>3 DEF chooseExistingKey, chooseZipfianKey, YcsbInv, CdfInv
<1>4. CASE config.request_distribution = "latest"
  BY <1>1, <1>4 DEF chooseExistingKey, chooseLatestKey
<1>5. config.request_distribution \in Distribution
  BY ConfigFields DEF YcsbInv
<1> QED BY <1>2, <1>3, <1>4, <1>5 DEF Distribution

-----------------------------------------------------------------------------
(* Every step keeps the invariant *)

LEMMA InitYcsb == NoWrap /\ Init => YcsbInv
<1> SUFFICES ASSUME NoWrap, Init PROVE YcsbInv
  OBVIOUS
<1>1. ConfigInv
  BY DEF Init, ConfigInv, Running
<1>2. config.record_count \in Nat /\ config.operation_count \in Nat
  BY <1>1, ConfigFields, SizeAssumption DEF Count
<1> QED BY <1>1, <1>2 DEF Init, YcsbInv, CountInv, CdfInv, StoredInv, Running

\* The constructor takes the user's configuration over, but for the distribution of
\* workload D, and only a valid one.
LEMMA ConstructConfig ==
  ASSUME ConfigInv, Construct, Valid(config)
  PROVE  /\ ConfigInv'
         /\ config'.record_count = config.record_count
         /\ config'.operation_count = config.operation_count
<1>1. config' = Effective(config) /\ phase' = "load"
  BY DEF Construct
<1>2. PICK c \in Config : config = c \/ config = [c EXCEPT !.request_distribution = "latest"]
  BY DEF ConfigInv
<1>3. c \in [workload : Workload, request_distribution : Distribution,
             record_count : Count, operation_count : Count,
             min_scan_length : Count, max_scan_length : Count]
  BY ConfigAssumption
<1>4. config' = c \/ config' = [c EXCEPT !.request_distribution = "latest"]
  BY <1>1, <1>2, <1>3 DEF Effective
<1>5. /\ config'.record_count = config.record_count
      /\ config'.operation_count = config.operation_count
      /\ config'.min_scan_length = config.min_scan_length
  BY <1>2, <1>3, <1>4
<1> QED BY <1>1, <1>4, <1>5 DEF ConfigInv, Valid

LEMMA ConfigStep == ConfigInv /\ [Next]_vars => ConfigInv'
<1> SUFFICES ASSUME ConfigInv, [Next]_vars PROVE ConfigInv'
  OBVIOUS
<1>1. CASE Construct /\ Valid(config)
  BY <1>1, ConstructConfig
<1>2. CASE Construct /\ ~Valid(config)
  BY <1>2 DEF Construct, ConfigInv, Running
<1>3. CASE ~Construct
  <2>1. config' = config /\ phase' \in {"new", "refused", "load", "next", "execute", "done"}
    BY <1>3 DEF ConfigInv, Next, loadOperations, nextTransaction, executeOperation, Finish,
                generatorVars, vars
  <2>2. Running' => Running
    BY <1>3 DEF ConfigInv, Next, loadOperations, nextTransaction, executeOperation, Finish,
                generatorVars, vars, Running
  <2> QED BY <2>1, <2>2 DEF ConfigInv
<1> QED BY <1>1, <1>2, <1>3

LEMMA ConstructKeeps == ASSUME NoWrap, YcsbInv, Construct PROVE YcsbInv'
<1>1. /\ phase = "new" /\ UNCHANGED <<current_record_count, next_insert_id, transaction_index,
                                      operation, stored, found>>
  BY DEF Construct
<1>2. CASE ~Valid(config)
  BY <1>1, <1>2 DEF Construct, YcsbInv, ConfigInv, CountInv, CdfInv, StoredInv, Running
<1>3. CASE Valid(config)
  <2>1. /\ config' = Effective(config) /\ phase' = "load"
        /\ cdf' = IF config'.request_distribution = "zipfian" THEN current_record_count ELSE 0
    BY <1>3 DEF Construct
  <2>2. /\ ConfigInv'
        /\ config'.record_count = config.record_count
        /\ config'.operation_count = config.operation_count
    BY <1>3, ConstructConfig DEF YcsbInv
  <2> QED BY <1>1, <2>1, <2>2 DEF YcsbInv, CountInv, CdfInv, StoredInv, Running
<1> QED BY <1>2, <1>3

LEMMA LoadKeeps == ASSUME NoWrap, YcsbInv, loadOperations PROVE YcsbInv'
<1>1. current_record_count = config.record_count
  BY ConfigFields DEF loadOperations, YcsbInv, CountInv, StoredInv, Count
<1> QED BY <1>1 DEF loadOperations, generatorVars, YcsbInv, ConfigInv, CountInv, CdfInv,
                    StoredInv, Running

LEMMA FinishKeeps == ASSUME NoWrap, YcsbInv, Finish PROVE YcsbInv'
BY DEF Finish, generatorVars, YcsbInv, ConfigInv, CountInv, CdfInv, StoredInv, Running

\* A draw: an insert moves the counters and the table on, and the others choose a key
\* that is there.
LEMMA NextKeeps == ASSUME NoWrap, YcsbInv, nextTransaction PROVE YcsbInv'
<1>1. /\ phase = "next" /\ phase' = "execute" /\ transaction_index < config.operation_count
      /\ transaction_index' = transaction_index + 1
      /\ UNCHANGED <<config, stored, found>>
  BY DEF nextTransaction
<1>2. /\ current_record_count \in Nat /\ current_record_count >= 1 /\ transaction_index \in Nat
      /\ config.operation_count \in Nat /\ config.record_count \in Nat
      /\ Plus(current_record_count, 1) = current_record_count + 1 /\ 0 \in Count
  BY <1>1, Counters, ConfigFields, SizeAssumption DEF YcsbInv, CountInv, Running, Count
<1>3. /\ stored = 0 .. current_record_count - 1 /\ found = transaction_index
      /\ next_insert_id = current_record_count
  BY <1>1 DEF YcsbInv, StoredInv, CountInv
<1>4. ConfigInv'
  BY <1>1 DEF YcsbInv, ConfigInv, Running
<1>5. PICK type \in Operations(mixFor(config.workload)) :
        IF type = "insert" THEN nextInsert ELSE Existing(type)
  BY DEF nextTransaction
<1>6. CASE type = "insert"
  <2>1. nextInsert
    BY <1>5, <1>6
  <2>2. /\ operation' = [type |-> "insert", key |-> current_record_count, scan_length |-> 0]
        /\ next_insert_id' = current_record_count + 1
        /\ current_record_count' = current_record_count + 1
        /\ cdf' = IF config.request_distribution = "zipfian"
                  THEN current_record_count + 1 ELSE cdf
    BY <2>1, <1>2, <1>3 DEF nextInsert
  <2>3. CountInv'
    BY <1>1, <1>2, <1>3, <2>2 DEF YcsbInv, CountInv
  <2>4. CdfInv'
    BY <1>1, <1>2, <2>2 DEF YcsbInv, CdfInv
  <2>5. StoredInv'
    BY <1>1, <1>2, <1>3, <1>5, <1>6, <2>2 DEF StoredInv
  <2> QED BY <1>4, <2>3, <2>4, <2>5 DEF YcsbInv
<1>7. CASE type # "insert"
  <2>1. Existing(type)
    BY <1>5, <1>7
  <2>2. UNCHANGED <<current_record_count, next_insert_id, cdf>>
    BY <2>1 DEF Existing
  <2>3. /\ operation'.type = type /\ operation'.key \in chooseExistingKey
        /\ operation'.scan_length \in IF type = "scan"
             THEN config.min_scan_length .. config.max_scan_length ELSE {0}
    BY <2>1 DEF Existing
  <2>4. operation'.key \in 0 .. current_record_count - 1
    BY <1>1, <2>3, ChosenExists DEF Running
  <2>5. operation'.scan_length \in Count /\ (type = "scan" => operation'.scan_length >= 1)
    <3>1. /\ config.min_scan_length \in Count /\ config.max_scan_length \in Count
          /\ config.min_scan_length # 0
      BY <1>1, ConfigFields DEF YcsbInv, ConfigInv, Running
    <3>2. CASE type = "scan"
      BY <2>3, <3>1, <3>2, SizeAssumption DEF Count
    <3>3. CASE type # "scan"
      BY <1>2, <2>3, <3>3
    <3> QED BY <3>2, <3>3
  <2>6. CountInv'
    BY <1>1, <1>2, <1>3, <2>2 DEF YcsbInv, CountInv
  <2>7. CdfInv'
    BY <1>1, <1>2, <2>2 DEF YcsbInv, CdfInv, Running
  <2>8. StoredInv'
    BY <1>1, <1>2, <1>3, <1>5, <1>7, <2>2, <2>3, <2>4, <2>5 DEF StoredInv
  <2> QED BY <1>4, <2>6, <2>7, <2>8 DEF YcsbInv
<1> QED BY <1>6, <1>7

\* Every operation finds something: its key is there, or it writes it, and a scan
\* starts with its key.
LEMMA OperationFinds ==
  ASSUME NoWrap, YcsbInv, phase = "execute"
  PROVE  Finds(operation)
<1>1. /\ operation.type \in Operations(mixFor(config.workload))
      /\ operation.key \in 0 .. current_record_count - 1
      /\ operation.type # "insert" => stored = 0 .. current_record_count - 1
      /\ operation.type = "scan" => operation.scan_length >= 1 /\ operation.scan_length \in Count
  BY DEF YcsbInv, StoredInv
<1>2. operation.type \in {"read", "update", "insert", "scan", "read_modify_write"}
  BY <1>1, MixSound, ConfigFields DEF YcsbInv
<1>3. CASE operation.type = "scan"
  <2>1. operation.key \in 0 .. Size - 1
    BY <1>1, Counters, SizeAssumption DEF Count
  <2>2. Plus(operation.key, 0) = operation.key
    BY <2>1, SmallMod DEF Plus
  <2>3. 0 \in 0 .. operation.scan_length - 1 /\ operation.key \in stored
    BY <1>1, <1>3 DEF Count
  <2> QED BY <1>3, <2>2, <2>3 DEF Finds
<1>4. CASE operation.type # "scan"
  BY <1>1, <1>2, <1>4 DEF Finds
<1> QED BY <1>3, <1>4

LEMMA ExecuteKeeps == ASSUME NoWrap, YcsbInv, executeOperation PROVE YcsbInv'
<1>1. /\ phase = "execute" /\ phase' = "next" /\ operation' = NoOperation
      /\ stored' = IF operation.type \in {"update", "insert", "read_modify_write"}
                   THEN stored \cup {operation.key} ELSE stored
      /\ UNCHANGED <<config, current_record_count, next_insert_id, transaction_index, cdf>>
  BY DEF executeOperation, generatorVars
<1>2. found' = found + 1
  BY <1>1, OperationFinds DEF executeOperation
<1>3. /\ found = transaction_index - 1 /\ transaction_index \in Nat
      /\ current_record_count \in Nat
      /\ operation.key \in 0 .. current_record_count - 1
      /\ IF operation.type = "insert"
         THEN /\ operation.key = current_record_count - 1
              /\ stored = 0 .. current_record_count - 2
         ELSE stored = 0 .. current_record_count - 1
  BY <1>1 DEF YcsbInv, StoredInv, CountInv
<1>4. stored' = 0 .. current_record_count - 1
  <2>1. CASE operation.type = "insert"
    BY <1>1, <1>3, <2>1
  <2>2. CASE operation.type # "insert"
    BY <1>1, <1>3, <2>2
  <2> QED BY <2>1, <2>2
<1>5. ConfigInv' /\ CdfInv'
  BY <1>1 DEF YcsbInv, ConfigInv, CdfInv, Running
<1>6. CountInv'
  BY <1>1, <1>2, <1>3 DEF YcsbInv, CountInv
<1>7. StoredInv'
  <2>1. found' = transaction_index'
    BY <1>1, <1>2, <1>3
  <2> QED BY <1>1, <1>4, <2>1 DEF StoredInv
<1> QED BY <1>5, <1>6, <1>7 DEF YcsbInv

LEMMA YcsbStep == NoWrap /\ YcsbInv /\ [Next]_vars => YcsbInv'
<1> SUFFICES ASSUME NoWrap, YcsbInv, [Next]_vars PROVE YcsbInv'
  OBVIOUS
<1>1. CASE UNCHANGED vars
  BY <1>1 DEF vars, generatorVars, YcsbInv, ConfigInv, CountInv, CdfInv, StoredInv, Running
<1> QED BY <1>1, ConstructKeeps, LoadKeeps, NextKeeps, ExecuteKeeps, FinishKeeps DEF Next

-----------------------------------------------------------------------------
(* The theorems *)

LEMMA YcsbInvariant == NoWrap => (Spec => []YcsbInv)
<1> SUFFICES ASSUME NoWrap PROVE Spec => []YcsbInv
  OBVIOUS
<1> QED BY InitYcsb, YcsbStep, PTL DEF Spec

\* Every variable keeps its type, and no operation names a key that was not given out.
THEOREM YcsbTyped == ASSUME NoWrap PROVE Spec => []TypeOK
<1>1. YcsbInv => TypeOK
  <2> SUFFICES ASSUME YcsbInv PROVE TypeOK
    OBVIOUS
  <2>1. /\ current_record_count \in Count /\ transaction_index \in Count /\ 0 \in Count
        /\ next_insert_id = current_record_count
    BY Counters, SizeAssumption DEF YcsbInv, CountInv, Count
  <2>2. cdf \in Count
    BY <2>1, SizeAssumption DEF YcsbInv, CdfInv, Count
  <2>3. found \in Nat /\ found <= transaction_index
    BY <2>1 DEF YcsbInv, CountInv, StoredInv, ConfigInv, Count
  <2>4. found \in Count
    BY <2>1, <2>3, SizeAssumption DEF Count
  <2>5. stored \subseteq 0 .. current_record_count - 1
    BY <2>1 DEF YcsbInv, StoredInv, ConfigInv, Count
  <2>6. stored \subseteq Count
    BY <2>1, <2>5, SizeAssumption DEF Count
  <2>7. /\ operation.scan_length \in Count
        /\ operation # NoOperation => operation.key \in 0 .. next_insert_id - 1
    BY <2>1 DEF YcsbInv, StoredInv, ConfigInv, NoOperation
  <2> QED BY <2>1, <2>2, <2>4, <2>6, <2>7 DEF YcsbInv, ConfigInv, TypeOK
<1> QED BY <1>1, YcsbInvariant, PTL

\* The "found" column: no transaction of any workload or distribution is spent on a key
\* that is not in the database.
THEOREM AlwaysFinds == ASSUME NoWrap PROVE Spec => []AlwaysFound
<1>1. YcsbInv => AlwaysFound
  BY DEF YcsbInv, StoredInv, AlwaysFound
<1> QED BY <1>1, YcsbInvariant, PTL

\* Between transactions the generator's counters are the database's.
THEOREM CountsMatch == ASSUME NoWrap PROVE Spec => []CountMatches
<1>1. YcsbInv => CountMatches
  BY DEF YcsbInv, StoredInv, CountInv, CountMatches
<1> QED BY <1>1, YcsbInvariant, PTL

\* The Zipfian draw reaches every key, those inserted during the run too.
THEOREM CdfCovers == ASSUME NoWrap PROVE Spec => []CdfCoversKeys
<1>1. YcsbInv => CdfCoversKeys
  BY DEF YcsbInv, CdfInv, ConfigInv, Running, CdfCoversKeys
<1> QED BY <1>1, YcsbInvariant, PTL

\* The operation that was drawn, which needs no bound on the counters.
DrawnInv ==
  /\ ConfigInv
  /\ phase = "execute" => operation.type \in Operations(mixFor(config.workload))

LEMMA DrawnStep == DrawnInv /\ [Next]_vars => DrawnInv'
<1> SUFFICES ASSUME DrawnInv, [Next]_vars PROVE DrawnInv'
  OBVIOUS
<1>1. ConfigInv'
  BY ConfigStep DEF DrawnInv
<1>2. CASE nextTransaction
  <2>1. PICK type \in Operations(mixFor(config.workload)) :
          IF type = "insert" THEN nextInsert ELSE Existing(type)
    BY <1>2 DEF nextTransaction
  <2>2. operation'.type = type
    BY <2>1 DEF nextInsert, Existing
  <2>3. config' = config
    BY <1>2 DEF nextTransaction
  <2> QED BY <1>1, <2>1, <2>2, <2>3 DEF DrawnInv
<1>3. CASE ~nextTransaction
  BY <1>1, <1>3 DEF DrawnInv, Next, Construct, loadOperations, executeOperation, Finish,
                    generatorVars, vars
<1> QED BY <1>2, <1>3

\* No draw falls out of the workload's mix, whatever the counters do.
THEOREM MixKept == Spec => []MixRespected
<1>1. Init => DrawnInv
  BY DEF Init, DrawnInv, ConfigInv, Running
<1>2. DrawnInv => MixRespected
  BY ConfigFields, MixSound DEF DrawnInv, MixRespected
<1> QED BY <1>1, <1>2, DrawnStep, PTL DEF Spec
=============================================================================
