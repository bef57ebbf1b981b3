------------------------------- MODULE MCWAL -------------------------------
(***************************************************************************)
(* An instance of WAL for TLC.  The bytes of operations, sizes, keys and   *)
(* values overlap, so that bytes read at a wrong offset do make records.   *)
(***************************************************************************)
EXTENDS WAL

Deletion == [key |-> <<1>>, val |-> <<>>, tombstone |-> TRUE]
PlainPut == [key |-> <<2>>, val |-> <<1>>, tombstone |-> FALSE]
\* Its value has no place in a size field; what follows the cut reads as a record.
Oversize == [key |-> <<2>>, val |-> <<3, 1, 0, 0>>, tombstone |-> FALSE]

MCRecord == {Deletion, PlainPut, Oversize}
=============================================================================
