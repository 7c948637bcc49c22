------------------------------ MODULE Streamer ------------------------------
(***************************************************************************)
(* Streamer replicas: each replays its shard of the CSV records in a loop  *)
(* (Replayer.Stream), one record at a time, and retries a record until a   *)
(* publish of it is answered with 202 (publishWithRetry).  The queue is    *)
(* seen as the streamer sees it: a publish is stored or not, and answered  *)
(* or not.  A publish that failed in the queue half way, whose answer did  *)
(* not come within the client's timeout, or whose streamer stopped, may be *)
(* stored all the same, then or later.  A streamer that stops is started   *)
(* again and begins its shard anew.                                        *)
(***************************************************************************)
EXTENDS Integers, Sequences, FiniteSets, Functions

CONSTANTS
    RecordCount,   \* records in the CSV file
    ShardCount,    \* STREAMER_SHARD_COUNT
    RetryInitial,  \* streamer.retry_initial
    RetryMax,      \* streamer.retry_max
    MaxSequence,   \* bound: records a streamer publishes
    FaultKinds,    \* the faults this instance may meet
    MaxFaults      \* bound: how many of them

ASSUME StreamerAssumption ==
    /\ RecordCount \in Nat \ {0}
    /\ ShardCount \in 1..RecordCount
    /\ RetryInitial \in Nat \ {0}
    /\ RetryMax \in Nat
    /\ RetryInitial <= RetryMax
    /\ MaxSequence \in Nat
    /\ MaxFaults \in Nat
    /\ FaultKinds \subseteq {"refused", "error", "timeout", "restart"}

Shards == 0..(ShardCount - 1)
Records == 0..(RecordCount - 1)

VARIABLES
    pc,        \* pc[s]: "ready", "publishing" or "waiting" (backoff)
    sequence,  \* sequence[s]: the sequence number of the current record
    backoff,   \* backoff[s]: the pause after the next failure
    attempt,   \* attempt[s]: failed publishes of the current record
    made,      \* made[s]: processedAt, the time of the last attempt
    epoch,     \* epoch[s]: starts of streamer s before this one (history)
    late,      \* publishes on their way that nobody waits for
    queue,     \* the messages the queue stored, in order
    faults     \* the kinds of the faults so far, in order

vars == <<pc, sequence, backoff, attempt, made, epoch, late, queue, faults>>

(* A published message: where it comes from, its sequence number and its   *)
(* time, and the record it carries.                                        *)
Message == [shard : Shards, epoch : Nat, seq : Nat, time : Nat, record : Records]

(* Record.MessageID: time and sequence number.  The shard is not in it.    *)
MessageID(m) == <<m.time, m.seq>>

-----------------------------------------------------------------------------

M_InShardFirst(r, s) == r % ShardCount = s \/ r = 0

(* recordsForShard: record r is published by shard s.                      *)
InShard(r, s) == r % ShardCount = s

ShardSize(s) == Cardinality({r \in Records : InShard(r, s)})

(* Record n of shard s: Stream goes through its records in order, for ever. *)
RecordAt(s, n) == CHOOSE r \in Records :
    InShard(r, s) /\ Cardinality({q \in Records : q < r /\ InShard(q, s)}) = n % ShardSize(s)

(* Record.QueueMessage: the message of the current attempt.                *)
QueueMessage(s) ==
    [shard |-> s, epoch |-> epoch[s], seq |-> sequence[s], time |-> made[s],
     record |-> RecordAt(s, sequence[s])]

TypeInv ==
    /\ pc \in [Shards -> {"ready", "publishing", "waiting"}]
    /\ sequence \in [Shards -> 0..MaxSequence]
    /\ backoff \in [Shards -> Nat]
    /\ attempt \in [Shards -> Nat]
    /\ made \in [Shards -> Nat]
    /\ epoch \in [Shards -> Nat]
    /\ late \subseteq Message
    /\ queue \in Seq(Message)
    /\ faults \in Seq(FaultKinds)
    /\ Len(faults) <= MaxFaults

Init ==
    /\ pc = [s \in Shards |-> "ready"]
    /\ sequence = [s \in Shards |-> 0]
    /\ backoff = [s \in Shards |-> RetryInitial]
    /\ attempt = [s \in Shards |-> 0]
    /\ made = [s \in Shards |-> 0]
    /\ epoch = [s \in Shards |-> 0]
    /\ late = {}
    /\ queue = <<>>
    /\ faults = <<>>

Fault(kind) ==
    /\ kind \in FaultKinds
    /\ Len(faults) < MaxFaults
    /\ faults' = Append(faults, kind)

(* time.Now: later than the streamer's last attempt, as a request has been *)
(* between.  Only the readings of one streamer are ordered, so a time is   *)
(* the number of its reading; those of two streamers may be the same.  A   *)
(* wall clock that is set back, also between two runs, is left out.        *)
ReadClock(s) == made' = [made EXCEPT ![s] = @ + 1]

M_PublishSameMessage(s) ==
    /\ pc[s] = "ready"
    /\ sequence[s] < MaxSequence
    /\ IF attempt[s] = 0 THEN ReadClock(s) ELSE UNCHANGED made
    /\ pc' = [pc EXCEPT ![s] = "publishing"]
    /\ UNCHANGED <<sequence, backoff, attempt, epoch, late, queue, faults>>

(* publishWithRetry takes the time, builds a message and posts it.         *)
Publish(s) ==
    /\ pc[s] = "ready"
    /\ sequence[s] < MaxSequence
    /\ ReadClock(s)
    /\ pc' = [pc EXCEPT ![s] = "publishing"]
    /\ UNCHANGED <<sequence, backoff, attempt, epoch, late, queue, faults>>

M_AcceptedKeepsBackoff(s) ==
    /\ pc[s] = "publishing"
    /\ queue' = Append(queue, QueueMessage(s))
    /\ pc' = [pc EXCEPT ![s] = "ready"]
    /\ sequence' = [sequence EXCEPT ![s] = @ + 1]
    /\ attempt' = [attempt EXCEPT ![s] = 0]
    /\ UNCHANGED <<backoff, made, epoch, late, faults>>

M_AcceptedRepeats(s) ==
    /\ pc[s] = "publishing"
    /\ queue' = Append(queue, QueueMessage(s))
    /\ pc' = [pc EXCEPT ![s] = "ready"]
    /\ sequence' = [sequence EXCEPT ![s] = IF attempt[s] = 0 THEN @ + 1 ELSE @]
    /\ attempt' = [attempt EXCEPT ![s] = 0]
    /\ backoff' = [backoff EXCEPT ![s] = RetryInitial]
    /\ UNCHANGED <<made, epoch, late, faults>>

(* 202: Stream goes on with the next record, with a fresh backoff.         *)
Accepted(s) ==
    /\ pc[s] = "publishing"
    /\ queue' = Append(queue, QueueMessage(s))
    /\ pc' = [pc EXCEPT ![s] = "ready"]
    /\ sequence' = [sequence EXCEPT ![s] = @ + 1]
    /\ attempt' = [attempt EXCEPT ![s] = 0]
    /\ backoff' = [backoff EXCEPT ![s] = RetryInitial]
    /\ UNCHANGED <<made, epoch, late, faults>>

M_FailedSkips(s) ==
    /\ pc' = [pc EXCEPT ![s] = "waiting"]
    /\ attempt' = [attempt EXCEPT ![s] = @ + 1]
    /\ sequence' = [sequence EXCEPT ![s] = @ + 1]
    /\ UNCHANGED <<backoff, made, epoch>>

(* publishWithRetry counts a failure and sleeps.                           *)
Failed(s) ==
    /\ pc' = [pc EXCEPT ![s] = "waiting"]
    /\ attempt' = [attempt EXCEPT ![s] = @ + 1]
    /\ UNCHANGED <<sequence, backoff, made, epoch>>

(* The queue did not take the message: 503 for a quorum that was missed,   *)
(* the answers to a request it did not begin to publish, no connection.    *)
Refused(s) ==
    /\ pc[s] = "publishing"
    /\ Fault("refused")
    /\ Failed(s)
    /\ UNCHANGED <<late, queue>>

(* What becomes of the publish is not known.                               *)
LeftOpen(s) ==
    /\ pc[s] = "publishing"
    /\ Failed(s)
    /\ late' = late \union {QueueMessage(s)}
    /\ UNCHANGED queue

(* An answer that does not say whether the message is stored: 502 when the *)
(* leader did not answer the pod that forwarded to it, 500 when the sync   *)
(* of the leader's append failed.                                          *)
Errored(s) == Fault("error") /\ LeftOpen(s)

(* No answer in time.                                                      *)
Timeout(s) == Fault("timeout") /\ LeftOpen(s)

(* The streamer stops, wherever it is, and a new process begins its shard  *)
(* at the first record and at sequence number 0.                           *)
Restart(s) ==
    /\ Fault("restart")
    /\ late' = IF pc[s] = "publishing" THEN late \union {QueueMessage(s)} ELSE late
    /\ pc' = [pc EXCEPT ![s] = "ready"]
    /\ sequence' = [sequence EXCEPT ![s] = 0]
    /\ backoff' = [backoff EXCEPT ![s] = RetryInitial]
    /\ attempt' = [attempt EXCEPT ![s] = 0]
    /\ epoch' = [epoch EXCEPT ![s] = @ + 1]
    /\ UNCHANGED <<made, queue>>

(* A publish nobody waits for is stored, or dropped.                       *)
Arrive(m) ==
    /\ m \in late
    /\ late' = late \ {m}
    /\ queue' \in {queue, Append(queue, m)}
    /\ UNCHANGED <<pc, sequence, backoff, attempt, made, epoch, faults>>

M_WakeNever(s) ==
    /\ pc[s] = "waiting"
    /\ 2 * backoff[s] <= RetryMax
    /\ pc' = [pc EXCEPT ![s] = "ready"]
    /\ backoff' = [backoff EXCEPT ![s] = IF 2 * @ > RetryMax THEN RetryMax ELSE 2 * @]
    /\ UNCHANGED <<sequence, attempt, made, epoch, late, queue, faults>>

(* The sleep ends: double the backoff, up to retry_max, and try again.     *)
Wake(s) ==
    /\ pc[s] = "waiting"
    /\ pc' = [pc EXCEPT ![s] = "ready"]
    /\ backoff' = [backoff EXCEPT ![s] = IF 2 * @ > RetryMax THEN RetryMax ELSE 2 * @]
    /\ UNCHANGED <<sequence, attempt, made, epoch, late, queue, faults>>

(* The bound on sequence numbers is reached.                               *)
Exhausted ==
    /\ \A s \in Shards : pc[s] = "ready" /\ sequence[s] = MaxSequence
    /\ late = {}
    /\ UNCHANGED vars

ShardStep(s) == Publish(s) \/ Accepted(s) \/ Wake(s)

Next ==
    \/ \E s \in Shards : ShardStep(s) \/ Refused(s) \/ Errored(s) \/ Timeout(s) \/ Restart(s)
    \/ \E m \in late : Arrive(m)
    \/ Exhausted

Spec == Init /\ [][Next]_vars

(* A streamer keeps running; a queue that is not failing answers.          *)
FairSpec == Spec /\ \A s \in Shards : WF_vars(ShardStep(s))

-----------------------------------------------------------------------------
(* Properties.                                                             *)

(* The pause before attempt n + 1 of a record.                             *)
Pause[n \in Nat] ==
    IF n = 0 THEN RetryInitial
    ELSE IF 2 * Pause[n - 1] > RetryMax THEN RetryMax ELSE 2 * Pause[n - 1]

(* Types; and the pause follows from the failed attempts of this record    *)
(* alone: it starts at retry_initial for every record and ends at          *)
(* retry_max.                                                              *)
TypeOK ==
    /\ TypeInv
    /\ \A s \in Shards :
          backoff[s] = Pause[IF pc[s] = "waiting" THEN attempt[s] - 1 ELSE attempt[s]]

(* Stream moves past a record only when the queue has stored it, in this   *)
(* run of the streamer: what an earlier run stored is published again.     *)
NothingDropped ==
    \A s \in Shards, n \in 0..(MaxSequence - 1) : n < sequence[s] =>
        \E i \in 1..Len(queue) :
            queue[i].shard = s /\ queue[i].epoch = epoch[s] /\ queue[i].seq = n

(* When every shard has been through its records once, the queue has every *)
(* row of the file, and no row came from two shards.                       *)
CycleComplete ==
    /\ (\A s \in Shards : sequence[s] >= ShardSize(s)) =>
          \A r \in Records : \E i \in 1..Len(queue) : queue[i].record = r
    /\ \A i, j \in 1..Len(queue) :
          queue[i].record = queue[j].record => queue[i].shard = queue[j].shard

(* Message m follows what is in front of position i of the queue: the      *)
(* record before it was stored there, by the same run.                     *)
Follows(m, i) ==
    m.seq > 0 => \E j \in 1..(i - 1) :
        queue[j].shard = m.shard /\ queue[j].epoch = m.epoch /\ queue[j].seq = m.seq - 1

(* Whatever fails and is late, a record shows up in the queue only after   *)
(* the one before it: late publishes repeat records and reorder none of    *)
(* their first copies.  The rows of a shard are stored once each, as long  *)
(* as every publish that failed was one the queue did not take.            *)
InOrderOnce ==
    /\ \A i \in 1..Len(queue) : Follows(queue[i], i)
    /\ Range(faults) \subseteq {"refused"} => \A i, j \in 1..Len(queue) :
          i < j /\ queue[i].shard = queue[j].shard => queue[i].seq < queue[j].seq

(* A streamer never gives one ID to two messages, whatever is retried,     *)
(* late or begun again: the queue's map of deliveries is keyed by the ID.  *)
(* Two streamers may, as the shard is not part of it.                      *)
UniqueIDs ==
    \A i, j \in 1..Len(queue) :
        /\ queue[i].shard = queue[j].shard
        /\ MessageID(queue[i]) = MessageID(queue[j])
        => i = j

(* Failures that end delay a streamer and do not stop it.                  *)
KeepsGoing ==
    \A s \in Shards : <>(sequence[s] = MaxSequence)
=============================================================================
