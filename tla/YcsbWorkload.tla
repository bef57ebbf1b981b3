---------------------------- MODULE YcsbWorkload ----------------------------
(***************************************************************************)
(* The workload generator of src/bench/ycsb_workload.cpp and its driver in *)
(* ycsb_bench.cpp.  A random number is any number of its range; shares of  *)
(* the operations are counted in twentieths; a key is its number, and the  *)
(* database the set of the keys that were put.                             *)
(***************************************************************************)
EXTENDS Integers

CONSTANTS
  Size,    \* a size_t is a number modulo Size
  Config   \* the configurations a user may ask for

Distribution == {"uniform", "zipfian", "latest"}
Workload     == {"a", "b", "c", "d", "e", "f"}
Count        == 0 .. Size - 1

ASSUME SizeAssumption == Size \in Nat \ {0}
ASSUME ConfigAssumption ==
  Config \subseteq [workload : Workload, request_distribution : Distribution,
                    record_count : Count, operation_count : Count,
                    min_scan_length : Count, max_scan_length : Count]

Mix(read, update, insert, scan, rmw) ==
  [read |-> read, update |-> update, insert |-> insert, scan |-> scan,
   read_modify_write |-> rmw]

\* Slip: workload B's shares leave a rest, which falls to the last operation.
MixLeavesRest(w) == CASE w = "a" -> Mix(10, 10, 0, 0, 0)
                      [] w = "b" -> Mix(19, 0, 0, 0, 0)
                      [] w = "c" -> Mix(20, 0, 0, 0, 0)
                      [] w = "d" -> Mix(19, 0, 1, 0, 0)
                      [] w = "e" -> Mix(0, 0, 1, 19, 0)
                      [] w = "f" -> Mix(10, 0, 0, 0, 10)

mixFor(w) == CASE w = "a" -> Mix(10, 10, 0, 0, 0)
               [] w = "b" -> Mix(19, 1, 0, 0, 0)
               [] w = "c" -> Mix(20, 0, 0, 0, 0)
               [] w = "d" -> Mix(19, 0, 1, 0, 0)
               [] w = "e" -> Mix(0, 0, 1, 19, 0)
               [] w = "f" -> Mix(10, 0, 0, 0, 10)

NoOperation == [type |-> "none", key |-> 0, scan_length |-> 0]

VARIABLES
  phase,   \* of the driver: "new", "refused", "load", "next", "execute", "done"
  config,  \* config_
  current_record_count, next_insert_id, transaction_index,
  cdf,        \* the length of zipfian_cdf_
  operation,  \* what nextTransaction returned
  stored,     \* the keys in the database
  found       \* the transactions that found their key

generatorVars == <<config, current_record_count, next_insert_id, transaction_index, cdf>>
vars == <<phase, generatorVars, operation, stored, found>>

\* Every variable has its type, and an operation names a key that has been given out.
TypeOK == /\ phase \in {"new", "refused", "load", "next", "execute", "done"}
          /\ config \in Config \cup {[c EXCEPT !.request_distribution = "latest"] : c \in Config}
          /\ {current_record_count, next_insert_id, transaction_index, cdf, found} \subseteq Count
          /\ stored \subseteq Count
          /\ operation.scan_length \in Count
          /\ operation # NoOperation => operation.key \in 0 .. next_insert_id - 1

\* a - 1 and a + b of size_t.
Pred(a)    == (a - 1) % Size
Plus(a, b) == (a + b) % Size

-----------------------------------------------------------------------------
(* The constructor *)

\* Slip: no records are accepted.
ValidWithoutRecords(c) == /\ c.max_scan_length >= c.min_scan_length
                          /\ c.min_scan_length # 0

\* The third check, of a negative zipfian_theta, is left out: the driver leaves theta at
\* its default.
Valid(c) == /\ c.record_count # 0
            /\ c.max_scan_length >= c.min_scan_length
            /\ c.min_scan_length # 0

\* Workload D is always the one that reads the latest records.
Effective(c) == IF c.workload = "d" THEN [c EXCEPT !.request_distribution = "latest"] ELSE c

Construct == /\ phase = "new"
             /\ IF Valid(config)
                THEN /\ config' = Effective(config)
                     /\ phase' = "load"
                     /\ cdf' = IF config'.request_distribution = "zipfian"
                               THEN current_record_count ELSE 0
                ELSE phase' = "refused" /\ UNCHANGED <<config, cdf>>
             /\ UNCHANGED <<current_record_count, next_insert_id, transaction_index,
                            operation, stored, found>>

-----------------------------------------------------------------------------
(* nextTransaction *)

\* The operations some roll of chooseOperation leads to: each whose share is not
\* empty, and the last one for what the others leave of the twentieths.
Operations(mix) ==
  {t \in {"read", "update", "insert", "scan"} : mix[t] > 0}
    \cup (IF mix.read + mix.update + mix.insert + mix.scan < 20
          THEN {"read_modify_write"} ELSE {})

chooseUniformKey == 0 .. Pred(current_record_count)

\* Where lower_bound may point in the table; it ends with 1.0, beyond every roll.
chooseZipfianKey == 0 .. cdf - 1

\* Slip: one key too far.
LatestOffByOne == {1} \cup {current_record_count - offset : offset \in 0 .. current_record_count - 1}

chooseLatestKey ==
  IF current_record_count = 1 THEN {0}
  ELSE {Pred(current_record_count) - offset : offset \in 0 .. Pred(current_record_count)}

chooseExistingKey == CASE config.request_distribution = "uniform" -> chooseUniformKey
                       [] config.request_distribution = "zipfian" -> chooseZipfianKey
                       [] config.request_distribution = "latest"  -> chooseLatestKey

\* The operation for an existing key, with any length of scan.
Existing(type) ==
  /\ operation' \in [type : {type}, key : chooseExistingKey,
                     scan_length : IF type = "scan"
                                   THEN config.min_scan_length .. config.max_scan_length
                                   ELSE {0}]
  /\ UNCHANGED <<current_record_count, next_insert_id, cdf>>

\* Slip: the table is the one of the constructor.
InsertKeepsCdf ==
  /\ operation' = [type |-> "insert", key |-> next_insert_id, scan_length |-> 0]
  /\ next_insert_id' = Plus(next_insert_id, 1)
  /\ current_record_count' = Plus(current_record_count, 1)
  /\ cdf' = cdf

\* Slip: the new record is not counted.
InsertUncounted ==
  /\ operation' = [type |-> "insert", key |-> next_insert_id, scan_length |-> 0]
  /\ next_insert_id' = Plus(next_insert_id, 1)
  /\ UNCHANGED <<current_record_count, cdf>>

\* nextInsertKey and the insert it is for.
nextInsert ==
  /\ operation' = [type |-> "insert", key |-> next_insert_id, scan_length |-> 0]
  /\ next_insert_id' = Plus(next_insert_id, 1)
  /\ current_record_count' = Plus(current_record_count, 1)
  /\ cdf' = IF config.request_distribution = "zipfian" THEN current_record_count' ELSE cdf

nextTransaction ==
  /\ phase = "next"
  /\ transaction_index < config.operation_count
  /\ \E type \in Operations(mixFor(config.workload)) :
       IF type = "insert" THEN nextInsert ELSE Existing(type)
  /\ transaction_index' = transaction_index + 1
  /\ phase' = "execute"
  /\ UNCHANGED <<config, stored, found>>

-----------------------------------------------------------------------------
(* The driver *)

\* The load phase puts the keys 0 to record_count - 1.
loadOperations == /\ phase = "load"
                  /\ stored' = 0 .. config.record_count - 1
                  /\ phase' = "next"
                  /\ UNCHANGED <<generatorVars, operation, found>>

\* Whether executeOperation says that the operation found something.
Finds(o) == CASE o.type \in {"update", "insert"} -> TRUE
              [] o.type \in {"read", "read_modify_write"} -> o.key \in stored
              [] o.type = "scan" ->
                   \E i \in 0 .. o.scan_length - 1 : Plus(o.key, i) \in stored

executeOperation ==
  /\ phase = "execute"
  /\ found' = IF Finds(operation) THEN found + 1 ELSE found
  /\ stored' = IF operation.type \in {"update", "insert", "read_modify_write"}
               THEN stored \cup {operation.key} ELSE stored
  /\ operation' = NoOperation
  /\ phase' = "next"
  /\ UNCHANGED generatorVars

Finish == /\ phase = "next"
          /\ transaction_index = config.operation_count
          /\ phase' = "done"
          /\ UNCHANGED <<generatorVars, operation, stored, found>>

Init == /\ phase = "new"
        /\ config \in Config
        /\ current_record_count = config.record_count
        /\ next_insert_id = config.record_count
        /\ transaction_index = 0
        /\ cdf = 0
        /\ operation = NoOperation
        /\ stored = {}
        /\ found = 0

Next == Construct \/ loadOperations \/ nextTransaction \/ executeOperation \/ Finish

Spec == Init /\ [][Next]_vars

-----------------------------------------------------------------------------
(* Properties *)

\* The "found" column: no transaction is spent on a key that is not there, whatever
\* the distribution and however many keys were inserted since.
AlwaysFound == phase \in {"next", "done"} => found = transaction_index

\* The generator's picture of the database, between transactions, is the database:
\* the keys it may choose and the key it inserts next are its keys and the next one.
CountMatches == phase \in {"next", "done"} => /\ stored = 0 .. current_record_count - 1
                                              /\ next_insert_id = current_record_count

\* Every key can be drawn: the table of the Zipfian draw covers the keys inserted
\* during the run.
CdfCoversKeys == phase \notin {"new", "refused"} /\ config.request_distribution = "zipfian"
                   => cdf = current_record_count

\* Only operations of the workload's mix are drawn, no other falls out of the chain
\* of shares at its end.
MixRespected == phase = "execute" => mixFor(config.workload)[operation.type] > 0
=============================================================================
