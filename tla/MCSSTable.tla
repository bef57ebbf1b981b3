----------------------------- MODULE MCSSTable -----------------------------
(***************************************************************************)
(* An instance of SSTable for TLC: three keys, so that a key may lie below,*)
(* between and above those of a file, and hashes so short that filters of  *)
(* two records give false positives.                                       *)
(***************************************************************************)
EXTENDS SSTable

CONSTANTS v1

MCKey    == {1, 2, 3}
MCValue  == {v1}
\* The hashes of the keys, below 16: sums wrap around, and two keys share bits.
MCFirst  == <<3, 14, 6>>
MCSecond == <<4, 7, 12>>
=============================================================================
