----------------------------- MODULE MCCliLoop -----------------------------
(***************************************************************************)
(* An instance of Cli for TLC.  A text is a string; the rest of a line     *)
(* begins with the space behind the key, unless nothing follows the key.   *)
(***************************************************************************)
EXTENDS Cli, TLC

CONSTANTS k1, k2

MCKey        == {k1, k2}
MCValue      == {"", "a", " a", "  a"}
MCSpaceFirst == {" a", "  a"}
MCErase      == (" a" :> "a") @@ ("  a" :> " a")

Typed(cmd, key, rest) == [cmd |-> cmd, key |-> key, rest |-> rest]

MCLine == {Typed("put", k, rest) : k \in MCKey, rest \in {"", " a", "  a"}}
            \cup {Typed(cmd, k, "") : cmd \in {"get", "del"}, k \in MCKey}
            \cup {Typed(cmd, NoKey, "") : cmd \in Command}
=============================================================================
