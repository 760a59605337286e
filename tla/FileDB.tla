------------------------------ MODULE FileDB ------------------------------
(***************************************************************************)
(* The append-only log store (db/filedb.go): buffered appends, flushes,    *)
(* replay on open, compaction by rewriting and renaming, and what failing  *)
(* writes, crashes and power losses leave behind.                          *)
(*                                                                         *)
(* A record is one log entry; its offset is its place in the log.  Put and *)
(* Delete are batches of one.  Every operation holds d.mu from its first   *)
(* step to its last, so only failures and crashes come in between.         *)
(***************************************************************************)
EXTENDS Sequences, FiniteSets, FiniteSetsExt, Integers

CONSTANTS
    Keys,           \* the keys, numbered in the order of their bytes
    Vals,
    Absent,         \* a key without a value, and the value of a delete record
    DeadFloor,      \* NeedsCompaction: no rewrite below this many dead records (1024)
    Batches,        \* the batches that are written: sequences of records
    MaxCrashes, MaxFailures, MaxCompactions, MaxRecords     \* bounds

VARIABLES
    file,       \* the records of the log that have reached the file
    torn,       \* a part of the next record has reached the file as well
    synced,     \* how many records of file are on stable storage
    buffer,     \* the records in the bufio.Writer
    werr,       \* the writer's sticky error
    handle,     \* d.file is an open file
    index,      \* d.index: key -> offset of its record, 0 when there is none
    deadKeys,
    opened,     \* the process runs and has the store open
    ops,        \* what a running Write still has to append
    lock,       \* who holds d.mu: "free", "batch" or a stage of Compact
    syncMode,
    acked,      \* how many records belong to writes that returned without an error
    logFaults   \* crashes, failures and compactions so far, for the bounds

disk == <<file, torn, synced>>
memory == <<buffer, werr, handle, index, deadKeys, ops, lock>>
logVars == <<disk, memory, opened, syncMode, acked, logFaults>>

Record == [key : Keys, val : Vals \cup {Absent}]

ASSUME LogAssumption ==
    /\ IsFiniteSet(Keys) /\ Keys \subseteq Nat
    /\ Absent \notin Vals
    /\ Batches \subseteq Seq(Record)

Log == file \o buffer

\* The map a log stands for: the last record of a key counts.
Offsets(log, k) == {i \in 1..Len(log) : log[i].key = k}
Contents(log) ==
    [k \in Keys |-> IF Offsets(log, k) = {} THEN Absent ELSE log[Max(Offsets(log, k))].val]

(* replay: the index of the intact records, and how many of them came upon *)
(* a live record of their key.                                             *)
ReplayIndex(log) ==
    LET m == Contents(log) IN
    [k \in Keys |-> IF m[k] = Absent THEN 0 ELSE Max(Offsets(log, k))]

ReplayDead(log) ==
    Cardinality({i \in 1..Len(log) :
        \E j \in 1..(i-1) : /\ log[j].key = log[i].key /\ log[j].val # Absent
                            /\ \A n \in (j+1)..(i-1) : log[n].key # log[i].key})

Fault(kind, bound) ==
    /\ logFaults[kind] < bound
    /\ logFaults' = [logFaults EXCEPT ![kind] = @ + 1]
-----------------------------------------------------------------------------
LogInit ==
    /\ file = <<>> /\ buffer = <<>> /\ torn = FALSE /\ synced = 0
    /\ werr = FALSE /\ handle = TRUE /\ opened = TRUE
    /\ index = [k \in Keys |-> 0] /\ deadKeys = 0
    /\ ops = <<>> /\ lock = "free" /\ acked = 0
    /\ syncMode \in BOOLEAN
    /\ logFaults = [crash |-> 0, fail |-> 0, compact |-> 0]

(* Batch.Write, Put and Delete take the lock.                              *)
BeginWrite(batch) ==
    /\ opened /\ lock = "free" /\ Len(Log) + Len(batch) <= MaxRecords
    /\ lock' = "batch"
    /\ ops' = batch
    /\ UNCHANGED <<disk, buffer, werr, handle, index, deadKeys, opened, syncMode, acked, logFaults>>

(* appendRecord: the writer takes the record, then the index follows.  A   *)
(* writer that failed before refuses, and the call returns its error.      *)
AppendRecord ==
    /\ opened /\ lock = "batch" /\ ops # <<>>
    /\ LET r == Head(ops) IN
       IF werr
       THEN /\ ops' = <<>> /\ lock' = "free"
            /\ UNCHANGED <<buffer, index, deadKeys>>
       ELSE /\ buffer' = Append(buffer, r)
            /\ deadKeys' = deadKeys + (IF index[r.key] # 0 THEN 1 ELSE 0)
            /\ index' = [index EXCEPT ![r.key] = IF r.val = Absent THEN 0 ELSE Len(Log) + 1]
            /\ ops' = Tail(ops)
            /\ UNCHANGED lock
    /\ UNCHANGED <<disk, werr, handle, opened, syncMode, acked, logFaults>>

(* The first n buffered records, and perhaps a piece of the next, reach    *)
(* the file.                                                               *)
Land(n, piece) ==
    /\ file' = file \o SubSeq(buffer, 1, n)
    /\ buffer' = SubSeq(buffer, n + 1, Len(buffer))
    /\ torn' = (piece /\ n < Len(buffer))

(* bufio writes its 64 KiB out when they are full, wherever that cuts.     *)
Spill ==
    /\ opened /\ lock = "batch" /\ handle /\ ~werr /\ buffer # <<>>
    /\ \E n \in 0..(Len(buffer) - 1) : (n = 0 => ~torn) /\ Land(n, TRUE)
    /\ UNCHANGED <<synced, werr, handle, index, deadKeys, opened, ops, lock, syncMode, acked, logFaults>>

(* flushLocked without an error: the call returns and is acknowledged.     *)
Flush ==
    /\ opened /\ lock = "batch" /\ ops = <<>> /\ handle /\ ~werr
    /\ Land(Len(buffer), FALSE)
    /\ synced' = IF syncMode THEN Len(file') ELSE synced
    /\ acked' = Len(file')
    /\ lock' = "free"
    /\ UNCHANGED <<werr, handle, index, deadKeys, opened, ops, syncMode, logFaults>>

(* The records land but the sync fails: an error is returned.              *)
SyncFails ==
    /\ opened /\ lock = "batch" /\ ops = <<>> /\ handle /\ ~werr /\ syncMode
    /\ Fault("fail", MaxFailures)
    /\ Land(Len(buffer), FALSE)
    /\ lock' = "free"
    /\ UNCHANGED <<synced, werr, handle, index, deadKeys, opened, ops, syncMode, acked>>

(* A write to the file fails part of the way, when the buffer is full or   *)
(* at the flush; on a closed file nothing lands.  The error is returned    *)
(* and sticks to the writer.                                               *)
WriteFails ==
    /\ opened /\ lock = "batch" /\ ~werr /\ buffer # <<>>
    /\ IF handle
       THEN /\ Fault("fail", MaxFailures)
            /\ \E n \in 0..(Len(buffer) - 1), piece \in BOOLEAN :
                  (n = 0 /\ torn => piece) /\ Land(n, piece)
       ELSE UNCHANGED <<file, buffer, torn, logFaults>>
    /\ werr' = TRUE
    /\ ops' = <<>> /\ lock' = "free"
    /\ UNCHANGED <<synced, handle, index, deadKeys, opened, syncMode, acked>>
-----------------------------------------------------------------------------
\* The keys that have a value.
LiveKeys == {k \in Keys : index[k] # 0}

NeedsCompaction == deadKeys > Cardinality(LiveKeys) /\ deadKeys > DeadFloor

InOrder(keys) ==
    CHOOSE s \in [1..Cardinality(keys) -> keys] : \A i, j \in 1..Cardinality(keys) : i < j => s[i] < s[j]

\* Variant with a fault: the first record of a key is taken for the live one.
LiveRecordsFirst ==
    [i \in 1..Cardinality(LiveKeys) |-> Log[Min(Offsets(Log, InOrder(LiveKeys)[i]))]]

\* The live records in key order, read through the index.
LiveRecords ==
    [i \in 1..Cardinality(LiveKeys) |-> Log[index[InOrder(LiveKeys)[i]]]]

(* Compact up to the complete temporary file: the flush must succeed, and  *)
(* reads need the file.  Errors up to here leave everything as it was.     *)
CompactBegin ==
    /\ opened /\ lock = "free" /\ handle /\ ~werr /\ NeedsCompaction
    /\ Fault("compact", MaxCompactions)
    /\ lock' = "compact"
    /\ UNCHANGED <<disk, buffer, werr, handle, index, deadKeys, opened, ops, syncMode, acked>>

CompactGivesUp ==
    /\ opened /\ lock = "compact" /\ Fault("fail", MaxFailures)
    /\ lock' = "free"
    /\ UNCHANGED <<disk, buffer, werr, handle, index, deadKeys, opened, ops, syncMode, acked>>

(* The log is closed and the synced temporary file renamed over it.  If    *)
(* the rename fails the store stays open with a closed file.               *)
CompactRename ==
    /\ opened /\ lock = "compact"
    /\ file' = LiveRecords /\ torn' = FALSE
    /\ synced' = Len(file') /\ acked' = Len(file')
    /\ handle' = FALSE
    /\ lock' = "renamed"
    /\ UNCHANGED <<buffer, werr, index, deadKeys, opened, ops, syncMode, logFaults>>

RenameFails ==
    /\ opened /\ lock = "compact" /\ Fault("fail", MaxFailures)
    /\ handle' = FALSE
    /\ lock' = "free"
    /\ UNCHANGED <<disk, buffer, werr, index, deadKeys, opened, ops, syncMode, acked>>

\* Variant with a fault: the index still points into the old log.
CompactReopenOldIndex ==
    /\ opened /\ lock = "renamed"
    /\ handle' = TRUE /\ lock' = "free" /\ deadKeys' = 0
    /\ UNCHANGED <<disk, buffer, werr, index, opened, ops, syncMode, acked, logFaults>>

CompactReopen ==
    /\ opened /\ lock = "renamed"
    /\ handle' = TRUE
    /\ index' = [k \in Keys |-> Max({0} \cup Offsets(file, k))]
    /\ deadKeys' = 0
    /\ lock' = "free"
    /\ UNCHANGED <<disk, buffer, werr, opened, ops, syncMode, acked, logFaults>>
-----------------------------------------------------------------------------
\* What is left of the process when it is gone.
Down ==
    /\ opened' = FALSE /\ handle' = FALSE /\ werr' = FALSE
    /\ buffer' = <<>> /\ ops' = <<>> /\ lock' = "free"
    /\ index' = [k \in Keys |-> 0] /\ deadKeys' = 0
    /\ UNCHANGED syncMode

(* Close: flush and sync what can be.                                      *)
Close ==
    /\ opened /\ lock = "free"
    /\ IF handle /\ ~werr
       THEN file' = Log /\ synced' = Len(file') /\ torn' = FALSE
       ELSE UNCHANGED <<file, synced, torn>>
    /\ acked' = Len(file')
    /\ Down
    /\ UNCHANGED logFaults

LogCrash ==
    /\ opened /\ Fault("crash", MaxCrashes)
    /\ Down
    /\ acked' = Len(file)
    /\ UNCHANGED disk

(* What had not been synced may be lost from any record on: replay stops   *)
(* at the first record that is not intact, whatever lies behind it.        *)
PowerLoss ==
    /\ Fault("crash", MaxCrashes)
    /\ \E n \in synced..Len(file) :
          file' = SubSeq(file, 1, n) /\ synced' = n /\ acked' = n
    /\ torn' \in BOOLEAN
    /\ Down

(* OpenFile: replay, and truncate the damaged tail.                        *)
OpenFile ==
    /\ ~opened
    /\ opened' = TRUE /\ handle' = TRUE /\ torn' = FALSE
    /\ index' = ReplayIndex(file)
    /\ deadKeys' = ReplayDead(file)
    /\ UNCHANGED <<file, synced, buffer, werr, ops, lock, syncMode, acked, logFaults>>

LogNext ==
    \/ \E batch \in Batches : BeginWrite(batch)
    \/ AppendRecord \/ Spill \/ Flush \/ SyncFails \/ WriteFails
    \/ CompactBegin \/ CompactGivesUp \/ CompactRename \/ RenameFails \/ CompactReopen
    \/ Close \/ LogCrash \/ PowerLoss \/ OpenFile

LogSpec == LogInit /\ [][LogNext]_logVars
-----------------------------------------------------------------------------
LogTypeOK ==
    /\ file \in Seq(Record) /\ buffer \in Seq(Record) /\ ops \in Seq(Record)
    /\ synced \in 0..Len(file) /\ acked \in 0..Len(file)
    /\ index \in [Keys -> Nat] /\ deadKeys \in Nat
    /\ {torn, werr, handle, opened, syncMode} \subseteq BOOLEAN
    /\ lock \in {"free", "batch", "compact", "renamed"}

\* The maps a power loss may leave, oldest first; the last is what is read.
Outcomes == [i \in 1..(Len(Log) - synced + 1) |-> Contents(SubSeq(Log, 1, synced + i - 1))]

Abstract == INSTANCE CrashMap WITH
    history <- Outcomes,
    acked <- acked - synced + 1

\* Whatever is written, flushed in pieces, refused, compacted or cut off, the
\* store behaves as a map that a crash sets back to an earlier map: not to one
\* before the last acknowledged write if the process died, and not to one before
\* the last synced write if the machine did (OpenFile, Batch.Write, Compact).
ImplementsCrashMap == Abstract!Spec

\* appendRecord and Compact maintain in memory what replay would compute from
\* the log, offsets and dead records alike: reopening the store changes neither
\* an answer nor the moment of the next compaction.
IndexIsReplay ==
    opened /\ lock # "renamed" => index = ReplayIndex(Log) /\ deadKeys = ReplayDead(Log)
=============================================================================
