-------------------------------- MODULE WAL --------------------------------
(***************************************************************************)
(* The write-ahead log of src/src/wal.cpp byte by byte: the format of a    *)
(* record, the stream wal_out_ with its buffer and its error state, and    *)
(* replay.  CauliBase.tla takes a record for one element of a sequence;    *)
(* here that is what has to be shown, for writes that fail half way and    *)
(* for sizes that do not fit their field.                                  *)
(*                                                                         *)
(* A byte is a number below Width and a size field is one byte: what       *)
(* matters is that sizes are taken modulo a number and that a field of one *)
(* record may be read as any field of another.                             *)
(***************************************************************************)
EXTENDS Integers, Sequences, SequencesExt

CONSTANTS
  Width,         \* bytes and sizes are numbers below Width
  PutOp, DelOp,  \* 'P' and 'D'
  Record,        \* the records a caller may append
  Corrupt,       \* the exceptions of replay
  Faults,        \* the failures that may happen, a subset of AllFaults
  MaxBytes       \* bound: records are appended while the log is shorter

Byte == 0 .. Width - 1
Log  == [key : Seq(Byte), val : Seq(Byte), tombstone : BOOLEAN]
AllFaults == {"crash",     \* the process dies
              "write",     \* the system takes a part of what is written, or nothing
              "truncate",  \* the file cannot be truncated: nobody notices
              "reopen"}    \* the file cannot be opened again after that

ASSUME WidthAssumption == Width \in Nat /\ {PutOp, DelOp} \subseteq Byte /\ PutOp # DelOp
ASSUME RecordAssumption == Record \subseteq Log /\ Corrupt \notin Seq(Log)
ASSUME BoundAssumption == Faults \subseteq AllFaults /\ MaxBytes \in Nat

VARIABLES
  file,      \* the bytes of wal.log
  buffer,    \* the bytes wal_out_ has not written yet, or writes again
  stream,    \* "none" (no object), "opened" (not replayed yet), "good", "bad", "closed"
  synced,    \* history: the records replayed, or synced since, and not reset
  unsynced,  \* history: the records appended since, by calls that failed too
  damage     \* history: do bytes of a failed write follow the synced records ("tail"),
             \* with records synced after them ("inside")?

historyVars == <<synced, unsynced, damage>>
vars == <<file, buffer, stream, historyVars>>

\* Every variable has its type: the log is made of bytes.
TypeOK == /\ file \in Seq(Byte) /\ buffer \in Seq(Byte)
          /\ stream \in {"none", "opened", "good", "bad", "closed"}
          /\ synced \in Seq(Log) /\ unsynced \in Seq(Log)
          /\ damage \in {"none", "tail", "inside"}

-----------------------------------------------------------------------------
(* The format *)

\* Slip: a size is written at full width.
SizeUncut(s) == Len(s)

\* static_cast<uint32_t>: the size is cut, the bytes are not.
Size(s) == Len(s) % Width
Fits(r) == Len(r.key) < Width /\ Len(r.val) < Width

\* Slip: the size of the value comes first.
EncodeSwapped(r) ==
  <<IF r.tombstone THEN DelOp ELSE PutOp, Size(r.val), Size(r.key)>> \o r.key \o r.val

\* What appendRecord writes.
Encode(r) ==
  <<IF r.tombstone THEN DelOp ELSE PutOp, Size(r.key), Size(r.val)>> \o r.key \o r.val

\* The record of f whose first byte is at p, and its last byte.
EndOf(f, p)    == p + 2 + f[p + 1] + f[p + 2]
RecordAt(f, p) == [key       |-> SubSeq(f, p + 3, p + 2 + f[p + 1]),
                   val       |-> SubSeq(f, p + 3 + f[p + 1], EndOf(f, p)),
                   tombstone |-> f[p] = DelOp]

\* Header, key or value end before they should.
Short(f, p) == p + 2 > Len(f) \/ EndOf(f, p) > Len(f)

\* The records of f in order; one that is cut off spoils them all.
replay(f) ==
  LET from[p \in Nat] ==
        IF p > Len(f) THEN <<>>
        ELSE IF Short(f, p) THEN Corrupt
        ELSE LET rest == from[EndOf(f, p) + 1]
             IN  IF rest = Corrupt THEN Corrupt ELSE <<RecordAt(f, p)>> \o rest
  IN  from[1]

-----------------------------------------------------------------------------
(* The stream *)

First(s, n) == SubSeq(s, 1, n)
Rest(s, n)  == SubSeq(s, n + 1, Len(s))

\* Slip: std::ios::app is missing, so that opening empties the file.
OpenedEmpty == <<>>
Opened      == file

\* The constructor; replay comes next.
WAL == /\ stream = "none"
       /\ stream' = "opened"
       /\ file' = Opened
       /\ UNCHANGED <<buffer, historyVars>>

\* recoverFromWAL: if replay throws the engine's constructor does, and the log is gone.
Recover == /\ stream = "opened"
           /\ LET records == replay(file)
              IN  IF records = Corrupt
                  THEN stream' = "none" /\ UNCHANGED historyVars
                  ELSE /\ stream' = "good"
                       /\ synced' = records
                       /\ unsynced' = <<>>
                       /\ damage' = "none"
           /\ UNCHANGED <<file, buffer>>

\* A stream that is bad or closed refuses records: append throws and changes nothing.
Appending(r) == /\ stream = "good"
                /\ Len(file) + Len(buffer) < MaxBytes
                /\ unsynced' = Append(unsynced, r)
                /\ UNCHANGED synced

\* The buffer is written whenever it is full, wherever that is.
appendRecord(r) == /\ Appending(r)
                   /\ LET bytes == buffer \o Encode(r)
                      IN  \E n \in 0 .. Len(bytes) : /\ file' = file \o First(bytes, n)
                                                     /\ buffer' = Rest(bytes, n)
                   /\ UNCHANGED <<stream, damage>>

Break == /\ stream' = "bad"
         /\ damage' = IF damage = "none" THEN "tail" ELSE damage

\* After done bytes a write stops at sent; the buffer keeps what it had from done on,
\* the part that was sent too, and takes in bytes up to kept.
AppendFails(r) ==
  /\ "write" \in Faults
  /\ Appending(r)
  /\ LET bytes == buffer \o Encode(r)
     IN  \E done, sent, kept \in 0 .. Len(bytes) :
           /\ done <= sent /\ sent < Len(bytes)
           /\ done <= kept /\ Len(buffer) <= kept
           /\ file' = file \o First(bytes, sent)
           /\ buffer' = SubSeq(bytes, done + 1, kept)
  /\ Break

sync == /\ stream = "good"
        /\ file' = file \o buffer
        /\ buffer' = <<>>
        /\ synced' = synced \o unsynced
        /\ unsynced' = <<>>
        /\ UNCHANGED <<stream, damage>>

SyncFails == /\ "write" \in Faults
             /\ stream = "good"
             /\ \E sent \in 0 .. Len(buffer) - 1 : file' = file \o First(buffer, sent)
             /\ Break
             /\ UNCHANGED <<buffer, synced, unsynced>>

\* Closing a file writes the buffer once more; nobody is told how far it got.
Sent == {n \in 0 .. Len(buffer) : n = Len(buffer) \/ "write" \in Faults}

\* Slip: the file is truncated before the stream is closed.
TruncatedFirst(n) == First(buffer, n)
Truncated(n)      == <<>>

\* The engine resets the log with every record synced or refused.  The truncation is
\* not checked; opening again clears the stream's state.
reset ==
  /\ stream \in {"good", "bad", "closed"}
  /\ stream = "good" => unsynced = <<>>
  /\ \E n \in Sent :
       \/ /\ file' = Truncated(n)
          /\ synced' = <<>>
          /\ damage' = "none"
       \/ /\ "truncate" \in Faults
          /\ file' = file \o First(buffer, n)
          /\ synced' = synced
          /\ damage' = IF stream = "bad" THEN "inside" ELSE damage
  /\ buffer' = <<>>
  /\ unsynced' = <<>>
  /\ stream' \in {"good"} \cup (IF "reopen" \in Faults THEN {"closed"} ELSE {})

\* The destructor closes the file; a process that dies may write less.
Close == /\ stream # "none"
         /\ \E n \in 0 .. Len(buffer) :
              /\ n \in Sent \/ "crash" \in Faults
              /\ file' = file \o First(buffer, n)
         /\ buffer' = <<>>
         /\ stream' = "none"
         /\ UNCHANGED historyVars

-----------------------------------------------------------------------------
Init == /\ file = <<>> /\ buffer = <<>>
        /\ stream = "none"
        /\ synced = <<>> /\ unsynced = <<>>
        /\ damage = "none"

Next == \/ WAL \/ Recover \/ sync \/ SyncFails \/ reset \/ Close
        \/ \E r \in Record : appendRecord(r) \/ AppendFails(r)

Spec == Init /\ [][Next]_vars

-----------------------------------------------------------------------------
(* Properties *)

AllFit(rs) == \A i \in DOMAIN rs : Fits(rs[i])

\* "If program crashes, data can be recovered from log files" (wal.h): whatever failed
\* since, replay gives no other records in place of the synced ones, it has them first
\* or it throws.  A record of 2^32 bytes or more spoils itself and what follows, never
\* what came before.  Only an unnoticed truncation after a failed write is excluded.
SyncedSurvive ==
  damage # "inside" =>
    LET records == replay(file)
    IN  \/ records = Corrupt
        \/ \A n \in 0 .. Len(synced) :
             AllFit(First(synced, n)) => IsPrefix(First(synced, n), records)

\* As long as no write was seen to fail, a replay that does not throw has the synced
\* records and, in order, some that were appended after them: no part of a record is
\* taken for one, whatever byte a crash cut it at.
NothingInvented ==
  damage = "none" /\ AllFit(synced \o unsynced) =>
    LET records == replay(file)
    IN  records # Corrupt => /\ IsPrefix(synced, records)
                             /\ IsPrefix(records, synced \o unsynced)

\* File and buffer together are the records appended, so that a log no failure touched
\* since it was opened does replay.
LogReplays ==
  stream = "good" /\ damage = "none" /\ AllFit(synced \o unsynced) =>
    replay(file \o buffer) = synced \o unsynced
=============================================================================
