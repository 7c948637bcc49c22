--------------------------- MODULE PartitionStore ---------------------------
(***************************************************************************)
(* One partition of a node's PartitionStore and its only segment file:     *)
(* Append and AppendRecord (header write, payload write, sync, next        *)
(* offset), Flush, Close, and OpenPartition with SegmentStore.Recover,     *)
(* with crashes between any two of their steps and, if the instance has    *)
(* them, failing writes and syncs.  PartitionStore.mu serialises the       *)
(* operations, so at most one call is between its steps.                   *)
(*                                                                         *)
(* A record in the file is whole, or a fragment: the header or the payload *)
(* is incomplete.  What lies behind a fragment is not aligned to records.  *)
(***************************************************************************)
EXTENDS Codec, FiniteSets, FiniteSetsExt

CONSTANTS
    Garbage,     \* what a fragment decodes to when the bytes behind complete it
    None,        \* no call in progress
    Faults,      \* the calls to the file that may fail: "write", "sync"
    MaxRecords,  \* bound: records in the file
    MaxCrashes   \* bound: crashes

ASSUME StoreAssumption ==
    /\ Garbage \notin Requests \union {Failed}
    /\ Faults \subseteq {"write", "sync"}
    /\ MaxRecords \in Nat
    /\ MaxCrashes \in Nat

VARIABLES
    file,        \* the records of the segment file, in file order
    synced,      \* how many of them are known to be on disk
    open,        \* the partition is open
    nextOffset,  \* partitionState.nextOffset
    op,          \* the append in progress, or None
    acked,       \* <<o, m>>: an append of m at offset o returned nil (history)
    failed,      \* a write or a sync has failed (history)
    crashes      \* crashes so far

vars == <<file, synced, open, nextOffset, op, acked, failed, crashes>>

(* A record of the file: its offset and the message its payload encodes.   *)
Record == [off : Nat, msg : Message \union {Garbage}, whole : BOOLEAN]
Call == [off : Nat, msg : Message, stage : {"header", "payload", "sync"}]

ASSUME CallAssumption == None \notin Call

(* What the payload of record i decodes to.                                *)
Decoded(i) == IF file[i].msg = Garbage THEN Garbage ELSE Stored[file[i].msg]

(* The records in front of the first fragment.                             *)
Framed == {i \in 1..Len(file) : \A j \in 1..i : file[j].whole}

(* The records in front of the first one that is a fragment or does not    *)
(* decode: those that Recover counts as valid.                             *)
Readable == {i \in Framed : \A j \in 1..i : Decoded(j) # Failed}

(* SegmentStore.Read finds message m at offset o: it scans from the start  *)
(* of the file, past records of other offsets without decoding them, and   *)
(* the first record with the offset wins.                                  *)
ReadsBack(o, m) ==
    \E i \in Framed :
        /\ file[i].off = o
        /\ Decoded(i) = m
        /\ \A j \in 1..(i - 1) : file[j].off # o

TypeInv ==
    /\ file \in Seq(Record)
    /\ synced \in 0..Len(file)
    /\ open \in BOOLEAN
    /\ nextOffset \in Nat
    /\ op \in Call \union {None}
    /\ acked \subseteq Nat \X Message
    /\ failed \in BOOLEAN
    /\ crashes \in 0..MaxCrashes

Init ==
    /\ file = <<>>
    /\ synced = 0
    /\ open = FALSE
    /\ nextOffset = 0
    /\ op = None
    /\ acked = {}
    /\ failed = FALSE
    /\ crashes = 0

-----------------------------------------------------------------------------

M_PrefixShort == SubSeq(file, 1, Cardinality(Readable) - 1)

(* What Recover keeps: the valid records.  If bytes follow a fragment, its *)
(* payload may be completed from them and decode, to something that was    *)
(* never published.  Header bytes are taken to be written together: that   *)
(* unaligned bytes also pass for a header, a second time, is left out.     *)
Prefix == SubSeq(file, 1, Cardinality(Readable))

Recovered ==
    {Prefix} \union
    {Append(Prefix, [file[i] EXCEPT !.msg = Garbage, !.whole = TRUE]) :
        i \in {j \in 1..(Len(file) - 1) : j = Cardinality(Readable) + 1 /\ ~file[j].whole}}

RecoveredNext(f) ==
    IF f = <<>> THEN 0 ELSE Max({f[i].off + 1 : i \in 1..Len(f)})

M_OpenAtLast ==
    /\ ~open
    /\ \E f \in Recovered :
          /\ file' = f
          /\ synced' = Min({synced, Len(f)})
          /\ nextOffset' = IF f = <<>> THEN 0 ELSE Max({f[i].off : i \in 1..Len(f)})
    /\ open' = TRUE
    /\ UNCHANGED <<op, acked, failed, crashes>>

(* OpenPartition: Recover truncates the file behind the valid records and  *)
(* takes the next offset from them.                                        *)
OpenPartition ==
    /\ ~open
    /\ \E f \in Recovered :
          /\ file' = f
          /\ synced' = Min({synced, Len(f)})
          /\ nextOffset' = RecoveredNext(f)
    /\ open' = TRUE
    /\ UNCHANGED <<op, acked, failed, crashes>>

Begin(o, m) ==
    /\ open
    /\ op = None
    /\ Len(file) < MaxRecords
    /\ op' = [off |-> o, msg |-> m, stage |-> "header"]
    /\ UNCHANGED <<file, synced, open, nextOffset, acked, failed, crashes>>

(* Append: the message gets the next offset.                               *)
AppendMessage(m) == Begin(nextOffset, m)

M_AppendAnyRecord(o, m) == Begin(o, m)

(* AppendRecord: a replicated record must have the next offset; any other  *)
(* is refused and nothing changes.                                         *)
AppendRecord(o, m) ==
    /\ o = nextOffset
    /\ Begin(o, m)

(* The call ends with an error.                                            *)
Fails(kind) ==
    /\ kind \in Faults
    /\ op' = None
    /\ failed' = TRUE
    /\ UNCHANGED <<synced, open, nextOffset, acked, crashes>>

Fragment == [off |-> op.off, msg |-> op.msg, whole |-> FALSE]

(* SegmentStore.Append encodes the message and writes the header.          *)
WriteHeader ==
    /\ op # None
    /\ op.stage = "header"
    /\ file' = Append(file, Fragment)
    /\ op' = [op EXCEPT !.stage = "payload"]
    /\ UNCHANGED <<synced, open, nextOffset, acked, failed, crashes>>

WriteHeaderFails ==
    /\ op # None
    /\ op.stage = "header"
    /\ Fails("write")
    /\ file' \in {file, Append(file, Fragment)}

M_WritePayloadAndReturn ==
    /\ op # None
    /\ op.stage = "payload"
    /\ file' = [file EXCEPT ![Len(file)].whole = TRUE]
    /\ nextOffset' = nextOffset + 1
    /\ acked' = acked \union {<<op.off, op.msg>>}
    /\ op' = None
    /\ UNCHANGED <<synced, open, failed, crashes>>

(* SegmentStore.Append writes the payload.                                 *)
WritePayload ==
    /\ op # None
    /\ op.stage = "payload"
    /\ file' = [file EXCEPT ![Len(file)].whole = TRUE]
    /\ op' = [op EXCEPT !.stage = "sync"]
    /\ UNCHANGED <<synced, open, nextOffset, acked, failed, crashes>>

WritePayloadFails ==
    /\ op # None
    /\ op.stage = "payload"
    /\ Fails("write")
    /\ UNCHANGED file

(* SegmentStore.Flush, then the next offset is taken and the append        *)
(* returns nil.                                                            *)
Sync ==
    /\ op # None
    /\ op.stage = "sync"
    /\ synced' = Len(file)
    /\ nextOffset' = nextOffset + 1
    /\ acked' = acked \union {<<op.off, op.msg>>}
    /\ op' = None
    /\ UNCHANGED <<file, open, failed, crashes>>

SyncFails ==
    /\ op # None
    /\ op.stage = "sync"
    /\ Fails("sync")
    /\ UNCHANGED file

(* PartitionStore.Flush.                                                   *)
Flush ==
    /\ open
    /\ op = None
    /\ synced' = Len(file)
    /\ UNCHANGED <<file, open, nextOffset, op, acked, failed, crashes>>

(* PartitionStore.Close: the file is closed, not synced.                   *)
Close ==
    /\ open
    /\ op = None
    /\ open' = FALSE
    /\ UNCHANGED <<file, synced, nextOffset, op, acked, failed, crashes>>

(* The process or the machine stops.  What was not synced may be lost from *)
(* the end, and the last record left may be torn.                          *)
Crash ==
    /\ crashes < MaxCrashes
    /\ crashes' = crashes + 1
    /\ open' = FALSE
    /\ op' = None
    /\ \E n \in synced..Len(file) :
          \/ file' = SubSeq(file, 1, n)
          \/ /\ n > synced
             /\ file' = [SubSeq(file, 1, n) EXCEPT ![n].whole = FALSE]
    /\ UNCHANGED <<synced, nextOffset, acked, failed>>

-----------------------------------------------------------------------------

AppendStep ==
    \/ WriteHeader
    \/ WritePayload
    \/ Sync

FailStep ==
    \/ WriteHeaderFails
    \/ WritePayloadFails
    \/ SyncFails

Next ==
    \/ OpenPartition
    \/ \E m \in Message : AppendMessage(m)
    \/ \E m \in Message, o \in 0..MaxRecords : AppendRecord(o, m)
    \/ AppendStep
    \/ FailStep
    \/ Flush
    \/ Close
    \/ Crash

Spec == Init /\ [][Next]_vars

-----------------------------------------------------------------------------
(* Properties.                                                             *)

(* Types of the store's state.  Until a call to the file fails, and        *)
(* between calls of an open store, every record is whole, the offsets in   *)
(* the file count up from 0 and nextOffset is the one behind the last:     *)
(* what Append and Recover each assume of the other.                       *)
TypeOK ==
    /\ TypeInv
    /\ ~failed /\ open /\ op = None =>
          /\ nextOffset = Len(file)
          /\ \A i \in 1..Len(file) : file[i].whole /\ file[i].off = i - 1

(* Every record whose append returned nil reads back at its offset, now    *)
(* and from what a crash at this moment would leave.                       *)
AckedReadable ==
    \A a \in acked :
        /\ ReadsBack(a[1], a[2])
        /\ \E i \in 1..synced : file[i].off = a[1] /\ Decoded(i) = a[2]

(* Until a call to the file fails, crashes cost no acknowledged record.    *)
CrashSafe == ~failed => AckedReadable

(* A message in the file decodes to itself, also with an empty field in    *)
(* the middle, and wherever a crash or a failed write cuts its payload, no *)
(* part of it decodes to a message of another identity: the bytes that     *)
(* readBytes makes up can only be those of the payload field.              *)
RoundTrip ==
    \A m \in {file[i].msg : i \in 1..Len(file)} \ {Garbage} :
        /\ Stored[m] = m
        /\ \A n \in 0..(Len(Encode(m)) - 1) :
              LET d == Decode(SubSeq(Encode(m), 1, n)) IN
              d # Failed => d.id = m.id /\ d.topic = m.topic /\ d.key = m.key

(* Whatever fails, a consumer that walks the offsets one by one meets no   *)
(* hole among the records it can read: each has the offset of the one in   *)
(* front of it, left by a failed append, or the next one.                  *)
NoHoles ==
    \A i \in Readable :
        IF i = 1 THEN file[i].off = 0
        ELSE file[i].off \in {file[i - 1].off, file[i - 1].off + 1}

(* Whatever fails, no append, crash or recovery touches a synced record in *)
(* front of the first fragment.                                            *)
SyncedStay ==
    [][\A i \in Readable : i <= synced => i \in Readable' /\ file'[i] = file[i]]_vars

(* The log a store stands for: the messages of its readable records.       *)
logBar == [i \in 1..Cardinality(Readable) |-> Decoded(i)]
keptBar == {a[1] + 1 : a \in acked}

(* PartitionStore implements the log that replication and consumers rely   *)
(* on: acknowledged records never move, change or vanish, until a call to  *)
(* the file fails.                                                         *)
Durable == INSTANCE DurableLog WITH log <- logBar, kept <- keptBar, intact <- ~failed

ImplementsDurableLog == Durable!Spec
=============================================================================
