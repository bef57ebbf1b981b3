---------------------------- MODULE MCBenchmarks ----------------------------
(***************************************************************************)
(* The two benchmark programs for TLC, of which one is run.  ycsb_bench    *)
(* has every workload and distribution, few records, and scans within and  *)
(* beyond the database; cauli_bench has few keys in any order.             *)
(***************************************************************************)
EXTENDS YcsbWorkload, CauliBench

CONSTANT MaxOperations

\* A driver's run; scan bounds are right, in the wrong order, or zero.
MCConfig ==
  [workload : Workload, request_distribution : Distribution,
   record_count : 0 .. 2, operation_count : {MaxOperations},
   min_scan_length : {0, 1}, max_scan_length : {0, 2}]

VARIABLE program
allVars == <<program, vars, benchVars>>

\* The program that is not run stays at one of its initial states.
MCInit == /\ Init /\ BenchInit
          /\ \/ program = "ycsb_bench" /\ benchmark = "put" /\ storageKey = [k \in Key |-> k]
             \/ program = "cauli_bench" /\ config = CHOOSE c \in Config : TRUE

MCNext == /\ \/ program = "ycsb_bench" /\ Next /\ UNCHANGED benchVars
             \/ program = "cauli_bench" /\ BenchNext /\ UNCHANGED vars
          /\ UNCHANGED program

\* Both are one thread that goes on by itself.
MCSpec == MCInit /\ [][MCNext]_allVars /\ WF_allVars(MCNext)

\* Every micro benchmark ends and none throws ("did not find all keys"): its gets find
\* what was put before, in the memtable or, after a flush and in another object, in
\* the table.
BenchmarksEnd == program = "cauli_bench" ~> Part = "done"
=============================================================================
