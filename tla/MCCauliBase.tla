---------------------------- MODULE MCCauliBase ----------------------------
(***************************************************************************)
(* Instances of CauliBase for TLC.  Two keys are the fewest that order the *)
(* records of a file; the faults of each run are the sets below.           *)
(***************************************************************************)
EXTENDS CauliBaseInv, TLC

CONSTANTS v1, v2

MCKey    == {1, 2}
OneValue == {v1}
TwoValues == {v1, v2}

\* v1 and v2 are interchangeable wherever only safety is checked.
Symmetry == Permutations(TwoValues)

\* The failures after which a library user may go on calling.
Benign  == {"crash", "tear", "create", "truncate", "reopen"}
\* The failures a process survives that leaves at its first exception.
FailStop == Benign \cup {"write", "remove"}
\* The failures after which the store can still be opened.
Reopens == AllFaults \ {"tear"}

\* One kind of failure at a time.
CrashOnly  == {"crash"}
CrashTear  == {"crash", "tear"}
RemoveOnly == {"remove"}
CloseOnly  == {"close"}
=============================================================================
