-------------------------- MODULE MCKeyTransform --------------------------
(***************************************************************************)
(* Instances of KeyTransform for TLC, with halves of two bits and round    *)
(* functions that are no permutations.                                     *)
(***************************************************************************)
EXTENDS KeyTransform

CONSTANTS k1, k2, v1

MCKey   == {k1, k2}
MCValue == {v1}

MCXor == [a \in Half |-> [b \in Half |->
           (2 * ((a \div 2 + b \div 2) % 2)) + ((a + b) % 2)]]

MCRoundKey      == 0 .. 3
MCRoundFunction == [rk \in MCRoundKey |-> [h \in Half |-> (h * h + rk * (h + 1)) % 4]]

\* The seed is mixed with four numbers.
MCSeed      == {0, 1}
MCRoundKeys == [s \in MCSeed |-> [i \in 1 .. 4 |-> (s + <<3, 1, 2, 2>>[i]) % 4]]

\* The keys' hashes share a half, and the permuted position of k1 is the plain one of
\* k2, so that their storage keys differ in the prefix only.
MCNormalize == [k \in MCKey |-> IF k = k1 THEN <<0, 1>> ELSE <<2, 1>>]

\* The store is opened with shuffling and without, in turn.
EitherWay == [shuffling : BOOLEAN, seed : {1}]
=============================================================================
