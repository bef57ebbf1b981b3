---------------------------- MODULE KeyTransform ----------------------------
(***************************************************************************)
(* The keys of src/src/key_transform.cpp between a client and its store:   *)
(* each key is hashed, the hash is permuted by a Feistel network if the    *)
(* options say so, and the result is the key under which the store keeps   *)
(* the record.  The engine remembers storage keys in key_cache_, and each  *)
(* opening may choose other options.  The store is the map of KVStore over *)
(* storage keys; the client's view of it is KVStore over its own keys.     *)
(***************************************************************************)
EXTENDS Integers

CONSTANTS
  Key, Value, None,  \* the client's keys, the values, std::nullopt
  HalfSize,          \* how many values a half has, 2^32 in the code
  Byte,              \* how many values a byte has
  Bytes,             \* how many bytes a storage key's number has
  Xor,               \* ^ of two halves
  RoundKey,          \* the round keys
  roundFunction,     \* for each round key a function of a half
  Seed,              \* feistel_seed of the options
  RoundKeys,         \* the four round keys of a seed
  normalize,         \* the hash of each key, as its two halves
  Options            \* the options the store may be opened with

Half     == 0 .. HalfSize - 1
Position == Half \X Half

ASSUME SizeAssumption == /\ HalfSize \in Nat \ {0}
                         /\ Byte \in Nat \ {0} /\ Bytes \in Nat \ {0}
ASSUME NoneAssumption == None \notin Key
ASSUME XorAssumption == /\ Xor \in [Half -> [Half -> Half]]
                        /\ \A a, b \in Half : Xor[Xor[a][b]][b] = a
ASSUME RoundAssumption == /\ roundFunction \in [RoundKey -> [Half -> Half]]
                          /\ RoundKeys \in [Seed -> [1 .. 4 -> RoundKey]]
ASSUME HashAssumption == normalize \in [Key -> Position]
ASSUME OptionsAssumption == Options \subseteq [shuffling : BOOLEAN, seed : Seed]

-----------------------------------------------------------------------------
(* From a key to its storage key *)

\* Slip: the half is replaced by the round function's value.
RoundWithoutXor(v, rk) == <<v[2], roundFunction[rk][v[2]]>>

\* One round: the halves change places, one of them masked by the other.
Round(v, rk) == <<v[2], Xor[v[1]][roundFunction[rk][v[2]]]>>

feistel64(v, rks) == Round(Round(Round(Round(v, rks[1]), rks[2]), rks[3]), rks[4])

StorageKey == [prefix : {"s", "h"}, position : Position]

\* Slip: both kinds of keys have the same prefix.
SamePrefix(o, k) ==
  IF o.shuffling
  THEN [prefix |-> "h", position |-> feistel64(normalize[k], RoundKeys[o.seed])]
  ELSE [prefix |-> "h", position |-> normalize[k]]

storageKey(o, k) ==
  IF o.shuffling
  THEN [prefix |-> "s", position |-> feistel64(normalize[k], RoundKeys[o.seed])]
  ELSE [prefix |-> "h", position |-> normalize[k]]

\* What a shift by so many bytes divides a number by.
Weight[i \in 0 .. Bytes] == IF i = 0 THEN 1 ELSE Byte * Weight[i - 1]

ASSUME FitsAssumption == HalfSize * HalfSize <= Weight[Bytes]  \* no byte is lost

\* Slip: the bytes go out as they lie in memory.
LittleEndian(n) == [i \in 1 .. Bytes |-> (n \div Weight[i - 1]) % Byte]

\* The bytes of a number, the most significant first.
appendBigEndian64(n) == [i \in 1 .. Bytes |-> (n \div Weight[Bytes - i]) % Byte]

\* The number of a position: the first half is the more significant one.
Number(position) == position[1] * HalfSize + position[2]

\* How std::string, and with it std::map and the files, orders two such keys.
BytesLess(a, b) == \E i \in 1 .. Bytes : /\ a[i] < b[i]
                                         /\ \A j \in 1 .. i-1 : a[j] = b[j]

-----------------------------------------------------------------------------
VARIABLES
  options,  \* options_ of the open store
  cache,    \* key_cache_
  asked,    \* the client's key of the latest call
  writer,   \* history: who wrote last under each storage key
  kv, op, todo, reply   \* the store, as in KVStore

Store == INSTANCE KVStore WITH Key <- StorageKey

storeVars == <<kv, op, todo, reply>>
vars == <<options, cache, asked, writer, storeVars>>

\* Every variable has its type.
TypeOK == /\ options \in Options
          /\ DOMAIN cache \subseteq Key
          /\ \A k \in DOMAIN cache : cache[k] \in StorageKey
          /\ asked \in Key \cup {None}
          /\ writer \in [StorageKey -> Key \cup {None}]
          /\ Store!KVTypeOK

\* storageKeyFor: the remembered key, or a new one that is remembered from now on.
storageKeyFor(k) == IF k \in DOMAIN cache THEN cache[k] ELSE storageKey(options, k)

\* Slip: the key is remembered before its prefix is there.
PrepareNoPrefix(k) ==
  cache' = [j \in DOMAIN cache \cup {k} |->
             IF j = k THEN [storageKeyFor(k) EXCEPT !.prefix = ""] ELSE cache[j]]

Prepare(k) ==
  cache' = [j \in DOMAIN cache \cup {k} |-> IF j = k THEN storageKeyFor(k) ELSE cache[j]]

Put(k, v) == /\ Store!Put(storageKeyFor(k), v)
             /\ Prepare(k)
             /\ asked' = k
             /\ UNCHANGED <<options, writer>>

Del(k) == /\ Store!Del(storageKeyFor(k))
          /\ Prepare(k)
          /\ asked' = k
          /\ UNCHANGED <<options, writer>>

Get(k) == /\ Store!Get(storageKeyFor(k))
          /\ Prepare(k)
          /\ asked' = k
          /\ UNCHANGED <<options, writer>>

\* prepareKey and prepareKeys.
PrepareKey(k) == /\ op = "none"
                 /\ Prepare(k)
                 /\ UNCHANGED <<options, asked, writer, storeVars>>

Commit == /\ Store!Commit
          /\ writer' = [s \in StorageKey |->
                         IF \E c \in todo : c.key = s THEN asked ELSE writer[s]]
          /\ UNCHANGED <<options, cache, asked>>

Finish == /\ Store!Respond \/ Store!Fail
          /\ UNCHANGED <<options, cache, asked, writer>>

\* Slip: the cache outlives the object, as a static one would.
ReopenKeepsCache(o) == /\ Store!Crash
                       /\ options' = o
                       /\ cache' = cache
                       /\ asked' = None
                       /\ writer' = writer

\* The store is closed, or crashes, and is opened with the options o.
Reopen(o) == /\ Store!Crash
             /\ options' = o
             /\ cache' = <<>>
             /\ asked' = None
             /\ writer' = writer

Init == /\ options \in Options
        /\ cache = <<>>
        /\ asked = None
        /\ writer = [s \in StorageKey |-> None]
        /\ Store!KVInit

Next == \/ \E k \in Key : \/ Del(k) \/ Get(k) \/ PrepareKey(k)
                          \/ \E v \in Value : Put(k, v)
        \/ Commit \/ Finish
        \/ \E o \in Options : Reopen(o)

Spec == Init /\ [][Next]_vars

-----------------------------------------------------------------------------
(* Properties *)

\* The hash keeps the keys in use apart, and the store is opened with one seed.
Distinct == /\ \A j, k \in Key : normalize[j] = normalize[k] => j = k
            /\ \A o, p \in Options : o.seed = p.seed

\* The storage key of k never holds what another key wrote, whichever options the
\* store was opened with then and now: the permutation merges no two positions, and
\* the prefix keeps permuted and plain positions apart.
OwnKeysOnly == \A k \in Key : writer[storageKey(options, k)] \in {k, None}

\* key_cache_ holds what the transform of the open store says, so that a call with
\* a remembered key finds what a call without wrote.
CacheTrue == \A k \in DOMAIN cache : cache[k] = storageKey(options, k)

\* The order of the storage keys in use, byte by byte, is that of their numbers: records
\* lie in the files in the order that the permutation gave them.  It is where the records
\* lie that depends on it; the engine is right with any order of its keys.
BytesKeepOrder ==
  \A j, k \in DOMAIN cache :
    cache[j].prefix = cache[k].prefix =>
      LET m == Number(cache[j].position)  n == Number(cache[k].position)
      IN  BytesLess(appendBigEndian64(m), appendBigEndian64(n)) <=> m < n

\* The client sees a durable map over its own keys for each choice of options: what
\* was put under one choice is there whenever the store is opened with it again,
\* whatever was done under others in between.
User == INSTANCE KVStore WITH
  Key  <- Options \X Key,
  kv   <- [c \in Options \X Key |-> kv[storageKey(c[1], c[2])]],
  todo <- {[key |-> <<options, asked>>, val |-> c.val] : c \in todo}

ImplementsKVStore == User!KVSpec
=============================================================================
