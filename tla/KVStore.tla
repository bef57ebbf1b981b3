------------------------------ MODULE KVStore ------------------------------
(***************************************************************************)
(* What CauliBase promises to its one client: a durable map.  A call that  *)
(* changes the map announces its changes, each of them takes effect at one *)
(* instant, and "ok" is answered only once all of them did.  A crash or an *)
(* error may drop the changes that did not take effect, and nothing else.  *)
(* A get answers the value of the map or an error, never another value.    *)
(* CauliBase.tla implements this module under the refinement mapping KV.   *)
(***************************************************************************)
CONSTANTS Key,      \* the keys
          Value,    \* the values
          None      \* the answer for a key without a value (std::nullopt), not in Value

VARIABLES kv,       \* the map
          op,       \* the name of the call being served, or "none"
          todo,     \* the changes of that call that did not take effect yet
          reply     \* the answer to the latest call

kvVars == <<kv, op, todo, reply>>

\* A change: the key it is about and the value it gives it, None to delete it.
Change == [key : Key, val : Value \cup {None}]

KVTypeOK == /\ kv \in [Key -> Value \cup {None}]
            /\ op \in {"none", "put", "del", "flush", "compact"}
            /\ todo \subseteq Change
            /\ reply \in Value \cup {None, "none", "ok", "error"}

KVInit == /\ kv = [k \in Key |-> None]
          /\ op = "none"
          /\ todo = {}
          /\ reply = "none"

\* A call that changes something begins, with nothing changed yet.
Ask(name, changes) == /\ op = "none"
                      /\ op' = name
                      /\ todo' = changes
                      /\ reply' = "none"
                      /\ kv' = kv

Put(k, v)      == Ask("put", {[key |-> k, val |-> v]})
Del(k)         == Ask("del", {[key |-> k, val |-> None]})
\* flush and compact change nothing a client sees.
Maintain(name) == Ask(name, {})

Request == \/ \E k \in Key : Del(k) \/ \E v \in Value : Put(k, v)
           \/ \E name \in {"flush", "compact"} : Maintain(name)

Commit == \E c \in todo : /\ kv' = [kv EXCEPT ![c.key] = c.val]
                          /\ todo' = todo \ {c}
                          /\ UNCHANGED <<op, reply>>

Respond == /\ op # "none"
           /\ todo = {}
           /\ op' = "none"
           /\ reply' = "ok"
           /\ UNCHANGED <<kv, todo>>

\* The call ends with an exception; what took effect stays.
Fail == /\ op' = "none"
        /\ todo' = {}
        /\ reply' = "error"
        /\ kv' = kv

\* A call that is answered at once.
Trivial == /\ op = "none"
           /\ reply' = "ok"
           /\ UNCHANGED <<kv, op, todo>>

Get(k) == /\ op = "none"
          /\ reply' = kv[k]
          /\ UNCHANGED <<kv, op, todo>>

Crash == /\ op' = "none"
         /\ todo' = {}
         /\ reply' = "none"
         /\ kv' = kv

KVNext == \/ Request \/ Commit \/ Respond \/ Fail \/ Trivial \/ Crash
          \/ \E k \in Key : Get(k)

KVSpec == KVInit /\ [][KVNext]_kvVars
=============================================================================
