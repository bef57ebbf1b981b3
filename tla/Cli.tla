-------------------------------- MODULE Cli --------------------------------
(***************************************************************************)
(* The command line of src/src/main.cpp over the map of KVStore: the loop  *)
(* that reads a line, hands it to a handler, which calls the store and     *)
(* prints its answer, and the end of the process at the first exception.   *)
(* The process may be killed at any time; the data outlives it.            *)
(***************************************************************************)
EXTENDS Naturals

CONSTANTS
  Key, Value, None,  \* words, texts, std::nullopt
  NoKey,             \* key when the line ends before it
  SpaceFirst,        \* the texts with a space in front
  Erase,             \* such a text without its first character
  Line               \* the lines a user may type, as parsed: command, key, rest

Command == {"put", "get", "del", "flush", "compact", "debug", "help", "exit", "unknown"}

ASSUME WordsAssumption == None \notin Value /\ NoKey \notin Key
\* The store's "ok" and "error" are no texts: a return and a throw, told apart by main.
ASSUME ReplyAssumption == \A tag \in {"none", "ok", "error"} : tag \notin Value \cup {None}
ASSUME TextAssumption  == /\ SpaceFirst \subseteq Value
                          /\ Erase \in [SpaceFirst -> Value]
ASSUME LineAssumption  == Line \subseteq [cmd : Command, key : Key \cup {NoKey}, rest : Value]

VARIABLES
  phase,  \* "down", or where main is: "prompt", "handle" a line, "call" of the store
  line,   \* the line being handled
  out,    \* what its handler printed, "nothing" before it did
  rc,     \* the exit status of the latest process
  told,   \* history: the answers that what the user saw allows a get of each key
  kv, op, todo, reply  \* the store, as in KVStore

Store == INSTANCE KVStore

storeVars == <<kv, op, todo, reply>>
vars == <<phase, line, out, rc, told, storeVars>>

Messages == {"nothing", "OK", "Flushed", "Compacted", "Usage", "debug", "help", "Unknown command",
             "value not found"}

\* Every variable has its type.
TypeOK == /\ phase \in {"down", "prompt", "handle", "call"}
          /\ line \in Line
          /\ out \in Messages \cup Value
          /\ rc \in {"none", "0", "1", "killed"}
          /\ told \in [Key -> SUBSET (Value \cup {None})]
          /\ Store!KVTypeOK

-----------------------------------------------------------------------------
(* What the handlers compute *)

\* One space goes, the one behind the key.
Trim(text) == IF text \in SpaceFirst THEN Erase[text] ELSE text

NeedsKey(l) == l.cmd \in {"put", "get", "del"}

\* The answer of a get of the line's key once the line's call took effect.
Written(l) == IF l.cmd = "put" THEN Trim(l.rest) ELSE None

Done(l) == CASE l.cmd = "flush"   -> "Flushed"
             [] l.cmd = "compact" -> "Compacted"
             [] OTHER             -> "OK"

Answer(l) == CASE l.cmd = "debug" -> "debug"
               [] l.cmd = "help"  -> "help"
               [] OTHER           -> "Unknown command"

\* From now on a get of the line's key may also answer what the line writes.
MayTell(l) == told' = [told EXCEPT ![l.key] = @ \cup {Written(l)}]

Say(text) == /\ out' = text
             /\ phase' = "prompt"

-----------------------------------------------------------------------------
(* The process *)

\* The constructor of the store comes to its end.
Start == /\ phase = "down"
         /\ phase' = "prompt"
         /\ out' = "nothing"
         /\ rc' = "none"
         /\ Store!Crash
         /\ UNCHANGED <<line, told>>

\* It throws.
StartFails == /\ phase = "down"
              /\ rc' = "1"
              /\ Store!Fail
              /\ UNCHANGED <<phase, line, out, told>>

ReadLine == /\ phase = "prompt"
            /\ phase' = "handle"
            /\ line' \in Line
            /\ out' = "nothing"
            /\ UNCHANGED <<rc, told, storeVars>>

\* std::getline fails at the end of the input.
Eof == /\ phase = "prompt"
       /\ phase' = "down"
       /\ rc' = "0"
       /\ UNCHANGED <<line, out, told, storeVars>>

\* The usage of a command whose key is missing.
Usage == /\ phase = "handle"
         /\ NeedsKey(line) /\ line.key = NoKey
         /\ Say("Usage")
         /\ UNCHANGED <<line, rc, told, storeVars>>

\* Slip: a missing key is not looked at.
PutWithoutKey == /\ phase = "handle"
                 /\ line.cmd = "put"
                 /\ Store!Put(line.key, Trim(line.rest))
                 /\ phase' = "call"
                 /\ UNCHANGED <<line, out, rc, told>>

handlePut == /\ phase = "handle"
             /\ line.cmd = "put" /\ line.key # NoKey
             /\ Store!Put(line.key, Trim(line.rest))
             /\ MayTell(line)
             /\ phase' = "call"
             /\ UNCHANGED <<line, out, rc>>

handleDel == /\ phase = "handle"
             /\ line.cmd = "del" /\ line.key # NoKey
             /\ Store!Del(line.key)
             /\ MayTell(line)
             /\ phase' = "call"
             /\ UNCHANGED <<line, out, rc>>

\* handleGet when the store answers.
handleGet == /\ phase = "handle"
             /\ line.cmd = "get" /\ line.key # NoKey
             /\ Store!Get(line.key)
             /\ told' = [told EXCEPT ![line.key] = {kv[line.key]}]
             /\ Say(IF kv[line.key] = None THEN "value not found" ELSE kv[line.key])
             /\ UNCHANGED <<line, rc>>

\* handleGet when the store throws: nothing is printed.
handleGetThrows == /\ phase = "handle"
                   /\ line.cmd = "get" /\ line.key # NoKey
                   /\ Store!Fail
                   /\ phase' = "call"
                   /\ UNCHANGED <<line, out, rc, told>>

\* handleFlush and handleCompact.
handleMaintain == /\ phase = "handle"
                  /\ line.cmd \in {"flush", "compact"}
                  /\ Store!Maintain(line.cmd)
                  /\ phase' = "call"
                  /\ UNCHANGED <<line, out, rc, told>>

\* Slip: the command has no case of its own in the switch.
NoDebugCase == /\ phase = "handle"
               /\ line.cmd \in {"debug", "help", "unknown"}
               /\ Say(IF line.cmd = "debug" THEN "nothing" ELSE Answer(line))
               /\ UNCHANGED <<line, rc, told, storeVars>>

\* handleDebug, handleHelp and an unknown command change nothing.
handleOther == /\ phase = "handle"
               /\ line.cmd \in {"debug", "help", "unknown"}
               /\ Say(Answer(line))
               /\ UNCHANGED <<line, rc, told, storeVars>>

Exit == /\ phase = "handle"
        /\ line.cmd = "exit"
        /\ phase' = "down"
        /\ rc' = "0"
        /\ UNCHANGED <<line, out, told, storeVars>>

\* The store works on the call: a change takes effect, the call ends or throws.
StoreWorks == /\ phase = "call"
              /\ op # "none"
              /\ Store!Commit \/ Store!Respond \/ Store!Fail
              /\ UNCHANGED <<phase, line, out, rc, told>>

\* Slip: the answer is printed without waiting for the store's.
PrintsFirst == /\ phase = "call"
               /\ IF reply = "ok" THEN storeVars' = storeVars ELSE reply # "error" /\ Store!Crash
               /\ told' = IF NeedsKey(line) THEN [told EXCEPT ![line.key] = {Written(line)}]
                                            ELSE told
               /\ Say(Done(line))
               /\ UNCHANGED <<line, rc>>

\* The call returned, and the handler says so.
Returned == /\ phase = "call"
            /\ reply = "ok"
            /\ told' = IF NeedsKey(line) THEN [told EXCEPT ![line.key] = {Written(line)}]
                                         ELSE told
            /\ Say(Done(line))
            /\ UNCHANGED <<line, rc, storeVars>>

\* Slip: the exception is caught inside the loop.
CaughtInLoop == /\ phase = "call"
                /\ reply = "error"
                /\ phase' = "prompt"
                /\ UNCHANGED <<line, out, rc, told, storeVars>>

\* The exception reaches main's handler, which ends the process.
Fatal == /\ phase = "call"
         /\ reply = "error"
         /\ phase' = "down"
         /\ rc' = "1"
         /\ UNCHANGED <<line, out, told, storeVars>>

\* The process is killed.
Kill == /\ phase # "down"
        /\ phase' = "down"
        /\ rc' = "killed"
        /\ Store!Crash
        /\ UNCHANGED <<line, out, told>>

-----------------------------------------------------------------------------
Init == /\ phase = "down"
        /\ line \in Line
        /\ out = "nothing"
        /\ rc = "none"
        /\ told = [k \in Key |-> {None}]
        /\ Store!KVInit

\* What main does by itself once a line is read.
Handle == \/ Usage \/ handlePut \/ handleDel \/ handleGet \/ handleGetThrows
          \/ handleMaintain \/ handleOther \/ Exit
          \/ StoreWorks \/ Returned \/ Fatal

Next == \/ Start \/ StartFails \/ ReadLine \/ Eof \/ Kill
        \/ Handle

Spec == Init /\ [][Next]_vars

\* The thread goes on by itself; users, and kills, are not obliged to anything.
FairSpec == Spec /\ WF_vars(Handle)

-----------------------------------------------------------------------------
(* Properties *)

\* What a get would print is what the user was told: after "OK" the text that was put,
\* or no value after a del; after a call that ended without an answer the old or the
\* new value; and what a get printed once stays so until the next call for the key.
PrintsWhatWasTold == \A k \in Key : kv[k] \in told[k]

\* The process never calls an object that has thrown, for a get either: its state may be
\* half changed (a flush that wrote its file and did not list it).  The next step ends the
\* process, and after that there is a new object, or none yet.  CauliBase's ExitOnError
\* is this.
ErrorEndsProcess ==
  [][reply = "error" => /\ op' = "none" /\ kv' = kv
                        /\ phase' = "down" \/ (phase = "down" /\ reply' = "none")]_vars

\* Every line gets an answer, or the process ends.
EveryLineAnswered == phase = "handle" ~> out # "nothing" \/ phase = "down"
=============================================================================
