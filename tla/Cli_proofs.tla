----------------------------- MODULE Cli_proofs -----------------------------
(***************************************************************************)
(* What Cli.tla states of the command line, for all words, texts and lines *)
(* and however many are typed: nothing it prints contradicts what it       *)
(* printed before, and it never calls a store that has thrown.             *)
(***************************************************************************)
EXTENDS Cli, TLAPS

\* The value under which a call in progress, or the map after it, is told.
Writes(l) == l.cmd \in {"put", "del"} /\ l.key # NoKey

\* Where the process is, and what the store is doing meanwhile: nothing between calls,
\* the line's one change during a call, and no answer before the change took effect.
CallInv ==
  /\ op = "none" => todo = {}
  /\ phase # "call" => op = "none"
  /\ phase \in {"prompt", "handle"} => reply # "error"
  /\ phase = "call" =>
       /\ NeedsKey(line) => line.key \in Key
       /\ op # "none" => reply = "none" /\ line.cmd # "get"
       /\ op = "none" => reply \in {"ok", "error"}
       /\ line.cmd = "get" => reply = "error"
       /\ todo # {} => Writes(line) /\ todo = {[key |-> line.key, val |-> Written(line)]}
       /\ Writes(line) => Written(line) \in told[line.key]
       /\ Writes(line) /\ todo = {} /\ reply # "error" => kv[line.key] = Written(line)

CliInv == TypeOK /\ CallInv /\ PrintsWhatWasTold

-----------------------------------------------------------------------------
(* Lines and texts *)

LEMMA LineType ==
  ASSUME NEW l \in Line
  PROVE  l.cmd \in Command /\ l.key \in Key \cup {NoKey} /\ l.rest \in Value
BY LineAssumption

LEMMA WrittenType ==
  ASSUME NEW l \in Line PROVE Written(l) \in Value \cup {None} /\ Trim(l.rest) \in Value
BY LineType, TextAssumption DEF Written, Trim

-----------------------------------------------------------------------------
(* Every step keeps the invariant *)

LEMMA InitCli == Init => CliInv
<1> SUFFICES ASSUME Init PROVE CliInv
  OBVIOUS
<1>1. TypeOK
  BY DEF Init, TypeOK, Messages, Store!KVInit, Store!KVTypeOK
<1> QED BY <1>1 DEF Init, CliInv, CallInv, PrintsWhatWasTold, Store!KVInit

\* put and del: the change is announced, and from now on a get may tell it.
LEMMA AskKeeps ==
  ASSUME CliInv, phase = "handle", Writes(line), MayTell(line), phase' = "call",
         UNCHANGED <<line, out, rc>>, NEW name \in {"put", "del"}, line.cmd = name,
         Store!Ask(name, {[key |-> line.key, val |-> Written(line)]})
  PROVE  CliInv'
<1>1. /\ line \in Line /\ line.key \in Key /\ Written(line) \in Value \cup {None}
      /\ told \in [Key -> SUBSET (Value \cup {None})]
  BY LineType, WrittenType DEF CliInv, TypeOK, Writes
<1>2. /\ op = "none" /\ op' = name /\ reply' = "none" /\ kv' = kv
      /\ todo' = {[key |-> line.key, val |-> Written(line)]}
  BY DEF Store!Ask
<1>3. told' = [told EXCEPT ![line.key] = @ \cup {Written(line)}]
  BY DEF MayTell
<1>4. told' \in [Key -> SUBSET (Value \cup {None})]
  BY <1>1, <1>3
<1>5. Store!KVTypeOK'
  BY <1>1, <1>2 DEF CliInv, TypeOK, Store!KVTypeOK, Store!Change
<1>6. TypeOK'
  BY <1>4, <1>5 DEF CliInv, TypeOK
<1>7. PrintsWhatWasTold'
  BY <1>1, <1>2, <1>3 DEF CliInv, PrintsWhatWasTold
<1>8. Written(line)' = Written(line) /\ Written(line) \in told'[line.key]
  BY <1>1, <1>3 DEF Written, Trim
<1>9. CallInv'
  BY <1>1, <1>2, <1>8 DEF CallInv, Writes
<1> QED BY <1>6, <1>7, <1>9 DEF CliInv

LEMMA PutKeeps == ASSUME CliInv, handlePut PROVE CliInv'
<1>1. /\ phase = "handle" /\ line.cmd = "put" /\ line.key # NoKey
      /\ Store!Put(line.key, Trim(line.rest)) /\ MayTell(line) /\ phase' = "call"
      /\ UNCHANGED <<line, out, rc>>
  BY DEF handlePut
<1>2. Written(line) = Trim(line.rest)
  BY <1>1 DEF Written
<1>3. Store!Ask("put", {[key |-> line.key, val |-> Written(line)]})
  BY <1>1, <1>2 DEF Store!Put
<1> QED BY <1>1, <1>3, AskKeeps DEF Writes

LEMMA DelKeeps == ASSUME CliInv, handleDel PROVE CliInv'
<1>1. /\ phase = "handle" /\ line.cmd = "del" /\ line.key # NoKey
      /\ Store!Del(line.key) /\ MayTell(line) /\ phase' = "call"
      /\ UNCHANGED <<line, out, rc>>
  BY DEF handleDel
<1>2. Written(line) = None
  BY <1>1 DEF Written
<1>3. Store!Ask("del", {[key |-> line.key, val |-> Written(line)]})
  BY <1>1, <1>2 DEF Store!Del
<1> QED BY <1>1, <1>3, AskKeeps DEF Writes

LEMMA GetKeeps == ASSUME CliInv, handleGet PROVE CliInv'
<1>1. /\ phase = "handle" /\ line.key # NoKey /\ line.cmd = "get"
      /\ op = "none" /\ reply' = kv[line.key] /\ UNCHANGED <<kv, op, todo, line, rc>>
      /\ told' = [told EXCEPT ![line.key] = {kv[line.key]}]
      /\ out' = (IF kv[line.key] = None THEN "value not found" ELSE kv[line.key])
      /\ phase' = "prompt"
  BY DEF handleGet, Store!Get, Say
<1>2. /\ line.key \in Key /\ kv \in [Key -> Value \cup {None}]
      /\ told \in [Key -> SUBSET (Value \cup {None})]
  BY <1>1, LineType DEF CliInv, TypeOK, Store!KVTypeOK
<1>3. kv[line.key] \in Value \cup {None}
  BY <1>2
<1>4. reply' # "error"
  BY <1>1, <1>3, ReplyAssumption
<1>5. told' \in [Key -> SUBSET (Value \cup {None})]
  BY <1>1, <1>2, <1>3
<1>6. TypeOK'
  BY <1>1, <1>3, <1>5 DEF CliInv, TypeOK, Store!KVTypeOK, Messages
<1>7. PrintsWhatWasTold'
  BY <1>1, <1>2 DEF CliInv, PrintsWhatWasTold
<1>8. CallInv'
  BY <1>1, <1>4 DEF CliInv, CallInv
<1> QED BY <1>6, <1>7, <1>8 DEF CliInv

\* The rest of what a handler starts, and the lines that need no store.
LEMMA HandlerKeeps ==
  ASSUME CliInv, Usage \/ handleGetThrows \/ handleMaintain \/ handleOther \/ Exit
  PROVE  CliInv'
<1>1. line \in Line /\ line.cmd \in Command /\ line.key \in Key \cup {NoKey}
  BY LineType DEF CliInv, TypeOK
<1>2. CASE Usage \/ handleOther \/ Exit
  <2>1. /\ phase = "handle" /\ phase' \in {"prompt", "down"}
        /\ out' \in Messages \cup {out} /\ rc' \in {rc, "0"}
        /\ UNCHANGED <<line, told, kv, op, todo, reply>>
    BY <1>2 DEF Usage, handleOther, Exit, Say, Answer, Messages, storeVars
  <2>2. TypeOK'
    BY <2>1 DEF CliInv, TypeOK, Store!KVTypeOK
  <2> QED BY <2>1, <2>2 DEF CliInv, CallInv, PrintsWhatWasTold
<1>3. CASE handleGetThrows
  <2>1. /\ phase = "handle" /\ line.cmd = "get" /\ line.key # NoKey /\ phase' = "call"
        /\ op' = "none" /\ todo' = {} /\ reply' = "error" /\ kv' = kv
        /\ UNCHANGED <<line, out, rc, told>>
    BY <1>3 DEF handleGetThrows, Store!Fail
  <2>2. TypeOK'
    BY <2>1 DEF CliInv, TypeOK, Store!KVTypeOK
  <2> QED BY <1>1, <2>1, <2>2 DEF CliInv, CallInv, PrintsWhatWasTold, NeedsKey, Writes
<1>4. CASE handleMaintain
  <2>1. /\ phase = "handle" /\ line.cmd \in {"flush", "compact"} /\ phase' = "call"
        /\ op' = line.cmd /\ todo' = {} /\ reply' = "none" /\ kv' = kv
        /\ UNCHANGED <<line, out, rc, told>>
    BY <1>4 DEF handleMaintain, Store!Maintain, Store!Ask
  <2>2. TypeOK'
    BY <2>1 DEF CliInv, TypeOK, Store!KVTypeOK
  <2> QED BY <2>1, <2>2 DEF CliInv, CallInv, PrintsWhatWasTold, NeedsKey, Writes
<1> QED BY <1>2, <1>3, <1>4

\* The store's steps during a call.
LEMMA StoreKeeps == ASSUME CliInv, StoreWorks PROVE CliInv'
<1>1. /\ phase = "call" /\ op # "none"
      /\ Store!Commit \/ Store!Respond \/ Store!Fail
      /\ UNCHANGED <<phase, line, out, rc, told>>
  BY DEF StoreWorks
<1>2. /\ NeedsKey(line) => line.key \in Key
      /\ reply = "none" /\ line.cmd # "get"
      /\ todo # {} => Writes(line) /\ todo = {[key |-> line.key, val |-> Written(line)]}
      /\ Writes(line) => Written(line) \in told[line.key]
      /\ Writes(line) /\ todo = {} => kv[line.key] = Written(line)
  BY <1>1 DEF CliInv, CallInv
<1>3. /\ line \in Line /\ line.key \in Key \cup {NoKey}
      /\ kv \in [Key -> Value \cup {None}] /\ Written(line) \in Value \cup {None}
  BY LineType, WrittenType DEF CliInv, TypeOK, Store!KVTypeOK
<1>4. NeedsKey(line)' = NeedsKey(line) /\ Writes(line)' = Writes(line) /\ Written(line)' = Written(line)
  BY <1>1 DEF NeedsKey, Writes, Written, Trim
<1>5. CASE Store!Commit
  <2>1. PICK c \in todo : /\ kv' = [kv EXCEPT ![c.key] = c.val] /\ todo' = todo \ {c}
                          /\ UNCHANGED <<op, reply>>
    BY <1>5 DEF Store!Commit
  <2>2. Writes(line) /\ c = [key |-> line.key, val |-> Written(line)] /\ todo' = {}
    BY <1>2, <2>1
  <2>3. line.key \in Key /\ kv' = [kv EXCEPT ![line.key] = Written(line)]
    BY <1>3, <2>1, <2>2 DEF Writes
  <2>4. kv' \in [Key -> Value \cup {None}] /\ kv'[line.key] = Written(line)
    BY <1>3, <2>3
  <2>5. TypeOK'
    BY <1>1, <2>1, <2>2, <2>4 DEF CliInv, TypeOK, Store!KVTypeOK
  <2>6. PrintsWhatWasTold'
    BY <1>1, <1>2, <1>3, <2>2, <2>3 DEF CliInv, PrintsWhatWasTold
  <2>7. CallInv'
    BY <1>1, <1>2, <1>4, <2>1, <2>2, <2>4 DEF CallInv
  <2> QED BY <2>5, <2>6, <2>7 DEF CliInv
<1>6. CASE Store!Respond
  <2>1. todo = {} /\ op' = "none" /\ reply' = "ok" /\ UNCHANGED <<kv, todo>>
    BY <1>6 DEF Store!Respond
  <2>2. TypeOK'
    BY <1>1, <2>1 DEF CliInv, TypeOK, Store!KVTypeOK
  <2> QED BY <1>1, <1>2, <1>4, <2>1, <2>2 DEF CliInv, CallInv, PrintsWhatWasTold
<1>7. CASE Store!Fail
  <2>1. op' = "none" /\ todo' = {} /\ reply' = "error" /\ kv' = kv
    BY <1>7 DEF Store!Fail
  <2>2. TypeOK'
    BY <1>1, <2>1 DEF CliInv, TypeOK, Store!KVTypeOK
  <2> QED BY <1>1, <1>2, <1>4, <2>1, <2>2 DEF CliInv, CallInv, PrintsWhatWasTold
<1> QED BY <1>1, <1>5, <1>6, <1>7

\* "OK" is printed when the map has what it says.
LEMMA ReturnKeeps == ASSUME CliInv, Returned PROVE CliInv'
<1>1. /\ phase = "call" /\ reply = "ok" /\ phase' = "prompt" /\ out' = Done(line)
      /\ told' = IF NeedsKey(line) THEN [told EXCEPT ![line.key] = {Written(line)}] ELSE told
      /\ UNCHANGED <<line, rc, kv, op, todo, reply>>
  BY DEF Returned, Say, storeVars
<1>2. op = "none" /\ todo = {}
  BY <1>1 DEF CliInv, CallInv
<1>3. NeedsKey(line) => line.key \in Key /\ kv[line.key] = Written(line)
  <2>1. line.cmd # "get"
    BY <1>1 DEF CliInv, CallInv
  <2>2. NeedsKey(line) => line.key \in Key
    BY <1>1 DEF CliInv, CallInv
  <2>3. NeedsKey(line) => Writes(line)
    BY <2>1, <2>2, WordsAssumption DEF NeedsKey, Writes
  <2> QED BY <1>1, <1>2, <2>2, <2>3 DEF CliInv, CallInv
<1>4. /\ line \in Line /\ Written(line) \in Value \cup {None}
      /\ told \in [Key -> SUBSET (Value \cup {None})]
  BY WrittenType DEF CliInv, TypeOK
<1>5. told' \in [Key -> SUBSET (Value \cup {None})]
  BY <1>1, <1>3, <1>4
<1>6. TypeOK'
  BY <1>1, <1>5 DEF CliInv, TypeOK, Store!KVTypeOK, Messages, Done
<1>7. PrintsWhatWasTold'
  BY <1>1, <1>3, <1>4 DEF CliInv, PrintsWhatWasTold
<1>8. CallInv'
  BY <1>1, <1>2 DEF CliInv, CallInv
<1> QED BY <1>6, <1>7, <1>8 DEF CliInv

\* The process comes and goes, and reads lines.
LEMMA ProcessKeeps ==
  ASSUME CliInv, Start \/ StartFails \/ ReadLine \/ Eof \/ Kill \/ Fatal \/ UNCHANGED vars
  PROVE  CliInv'
<1>1. CASE Start \/ StartFails \/ Kill
  <2>1. /\ op' = "none" /\ todo' = {} /\ kv' = kv /\ reply' \in {"none", "error"}
        /\ phase' \in {"prompt", "down"} /\ (phase' = "prompt" => reply' = "none")
        /\ out' \in {out, "nothing"} /\ rc' \in {"none", "1", "killed"}
        /\ UNCHANGED <<line, told>>
    BY <1>1 DEF Start, StartFails, Kill, Store!Crash, Store!Fail
  <2>2. TypeOK'
    BY <2>1 DEF CliInv, TypeOK, Store!KVTypeOK, Messages
  <2> QED BY <2>1, <2>2 DEF CliInv, CallInv, PrintsWhatWasTold
<1>2. CASE ReadLine \/ Eof \/ Fatal
  <2>1. /\ UNCHANGED <<told, kv, op, todo, reply>> /\ line' \in Line
        /\ phase' \in {"handle", "down"} /\ out' \in {out, "nothing"} /\ rc' \in {rc, "0", "1"}
        /\ op = "none" /\ (phase' = "handle" => reply # "error")
    BY <1>2 DEF ReadLine, Eof, Fatal, storeVars, CliInv, CallInv, TypeOK
  <2>2. TypeOK'
    BY <2>1 DEF CliInv, TypeOK, Store!KVTypeOK, Messages
  <2> QED BY <2>1, <2>2 DEF CliInv, CallInv, PrintsWhatWasTold
<1>3. CASE UNCHANGED vars
  BY <1>3 DEF vars, storeVars, CliInv, TypeOK, CallInv, PrintsWhatWasTold, Store!KVTypeOK,
              Writes, Written, Trim, NeedsKey
<1> QED BY <1>1, <1>2, <1>3

LEMMA CliStep == CliInv /\ [Next]_vars => CliInv'
BY PutKeeps, DelKeeps, GetKeeps, HandlerKeeps, StoreKeeps, ReturnKeeps, ProcessKeeps
   DEF Next, Handle

-----------------------------------------------------------------------------
(* The theorems *)

LEMMA CliInvariant == Spec => []CliInv
BY InitCli, CliStep, PTL DEF Spec

\* Every variable keeps its type, and the store is asked for words with texts only.
THEOREM CliTyped == Spec => []TypeOK
<1>1. CliInv => TypeOK
  BY DEF CliInv
<1> QED BY <1>1, CliInvariant, PTL

\* What the map holds is always one of the values that the screen told of.
THEOREM PrintsRight == Spec => []PrintsWhatWasTold
<1>1. CliInv => PrintsWhatWasTold
  BY DEF CliInv
<1> QED BY <1>1, CliInvariant, PTL

\* No step of the process calls a store that has thrown: it ends, or it has ended and
\* another one starts.
THEOREM ErrorEnds == Spec => ErrorEndsProcess
<1>1. CliInv /\ [Next]_vars =>
        [reply = "error" => /\ op' = "none" /\ kv' = kv
                            /\ phase' = "down" \/ (phase = "down" /\ reply' = "none")]_vars
  <2> SUFFICES ASSUME CliInv, Next, reply = "error"
               PROVE  /\ op' = "none" /\ kv' = kv
                      /\ phase' = "down" \/ (phase = "down" /\ reply' = "none")
    OBVIOUS
  <2>1. phase \in {"down", "call"} /\ op = "none"
    BY DEF CliInv, CallInv, TypeOK
  <2>2. Start \/ StartFails \/ Fatal \/ Kill
    BY <2>1 DEF Next, Handle, ReadLine, Eof, Usage, handlePut, handleDel, handleGet, handleGetThrows,
                handleMaintain, handleOther, Exit, StoreWorks, Returned
  <2> QED BY <2>1, <2>2 DEF Start, StartFails, Fatal, Kill, Store!Crash, Store!Fail, storeVars
<1> QED BY <1>1, CliInvariant, PTL DEF Spec, ErrorEndsProcess
=============================================================================
