--------------------------- MODULE StreamerProofs ---------------------------
(***************************************************************************)
(* Streamers, for any number of records, shards and faults: no record is   *)
(* passed over, every row of the file comes from one shard, a streamer     *)
(* gives no ID twice, and its pauses follow the attempts of the record.    *)
(***************************************************************************)
EXTENDS Streamer, Ranks

(* The records of shard s.                                                 *)
ShardRecords(s) == {r \in Records : InShard(r, s)}

-----------------------------------------------------------------------------
(* recordsForShard.                                                        *)

(* No shard is empty, and the records of a shard are counted by rank.      *)
LEMMA ShardFacts ==
    ASSUME NEW s \in Shards
    PROVE  /\ ShardRecords(s) \in SUBSET Int
           /\ IsFiniteSet(ShardRecords(s))
           /\ ShardSize(s) = Cardinality(ShardRecords(s))
           /\ ShardSize(s) \in Nat
           /\ ShardSize(s) > 0
           /\ \A r \in Records :
                 Cardinality({q \in Records : q < r /\ InShard(q, s)}) = Rank(ShardRecords(s), r)
<1>1. /\ RecordCount \in Nat /\ ShardCount \in Nat /\ ShardCount > 0
      /\ ShardCount <= RecordCount
  BY StreamerAssumption
<1>2. IsFiniteSet(Records) /\ ShardRecords(s) \in SUBSET Records /\ Records \subseteq Int
  <2>1. 0 \in Int /\ RecordCount - 1 \in Int
    BY <1>1
  <2> QED  BY <2>1, FS_Interval DEF Records, ShardRecords
<1>3. IsFiniteSet(ShardRecords(s))
  BY <1>2, FS_Subset
<1>4. ShardSize(s) = Cardinality(ShardRecords(s))
  BY DEF ShardSize, ShardRecords
<1>5. s \in ShardRecords(s)
  <2>1. s \in Nat /\ s < ShardCount
    BY <1>1 DEF Shards
  <2>2. s % ShardCount = s
    BY <1>1, <2>1
  <2>3. s \in Records
    BY <1>1, <2>1 DEF Records
  <2> QED  BY <2>2, <2>3 DEF ShardRecords, InShard
<1>6. Cardinality(ShardRecords(s)) \in Nat /\ Cardinality(ShardRecords(s)) # 0
  BY <1>3, <1>5, FS_CardinalityType, FS_EmptySet
<1>7. ASSUME NEW r \in Records
      PROVE  Cardinality({q \in Records : q < r /\ InShard(q, s)}) = Rank(ShardRecords(s), r)
  <2>1. {q \in Records : q < r /\ InShard(q, s)} = {q \in ShardRecords(s) : q < r}
    BY DEF ShardRecords
  <2> QED  BY <2>1 DEF Rank
<1>8. ShardRecords(s) \in SUBSET Int
  BY <1>2
<1>9. ShardSize(s) \in Nat /\ ShardSize(s) > 0
  BY <1>4, <1>6
<1> QED  BY <1>3, <1>4, <1>7, <1>8, <1>9

(* Record n of a shard is one of its records, the one with the rank of n   *)
(* in the current cycle.                                                   *)
LEMMA RecordChosen ==
    ASSUME NEW s \in Shards, NEW n \in Nat
    PROVE  /\ RecordAt(s, n) \in ShardRecords(s)
           /\ RecordAt(s, n) \in Records
           /\ InShard(RecordAt(s, n), s)
           /\ Rank(ShardRecords(s), RecordAt(s, n)) = n % ShardSize(s)
<1> DEFINE S == ShardRecords(s)
<1>1. /\ S \in SUBSET Int /\ IsFiniteSet(S) /\ ShardSize(s) = Cardinality(S)
      /\ Cardinality(S) \in Nat /\ Cardinality(S) > 0
      /\ \A r \in Records :
            Cardinality({q \in Records : q < r /\ InShard(q, s)}) = Rank(S, r)
  BY ShardFacts
<1>2. n % Cardinality(S) \in 0..(Cardinality(S) - 1)
  BY <1>1
<1>3. PICK x \in S : Rank(S, x) = n % Cardinality(S)
  BY <1>1, <1>2, RankOnto
<1>4. x \in Records /\ InShard(x, s)
  BY DEF ShardRecords
<1> DEFINE P(r) == /\ InShard(r, s)
                   /\ Cardinality({q \in Records : q < r /\ InShard(q, s)}) = n % ShardSize(s)
<1>5. \E r \in Records : P(r)
  BY <1>1, <1>3, <1>4
<1>6. RecordAt(s, n) = CHOOSE r \in Records : P(r)
  BY DEF RecordAt
<1>7. RecordAt(s, n) \in Records /\ P(RecordAt(s, n))
  <2> HIDE DEF P
  <2> QED  BY <1>5, <1>6
<1> QED  BY <1>1, <1>7 DEF ShardRecords

(* Every record of a shard has its turn in the first cycle.                *)
LEMMA RecordReached ==
    ASSUME NEW r \in Records
    PROVE  \E s \in Shards : \E n \in Nat : n < ShardSize(s) /\ RecordAt(s, n) = r
<1> DEFINE s == r % ShardCount
           S == ShardRecords(s)
           n == Rank(S, r)
<1>1. s \in Shards
  BY StreamerAssumption DEF Records, Shards
<1>2. r \in S
  BY DEF ShardRecords, InShard
<1> HIDE DEF s
<1>3. /\ S \in SUBSET Int /\ IsFiniteSet(S) /\ ShardSize(s) = Cardinality(S)
      /\ ShardSize(s) \in Nat /\ ShardSize(s) > 0
  BY <1>1, ShardFacts
<1>4. n \in 0..(Cardinality(S) - 1) /\ \A x, y \in S : Rank(S, x) = Rank(S, y) => x = y
  BY <1>2, <1>3, RankDistinct
<1>5. n \in Nat /\ n < ShardSize(s)
  BY <1>3, <1>4
<1> HIDE DEF n, S
<1>6. n % ShardSize(s) = n
  BY <1>3, <1>5
<1>7. RecordAt(s, n) \in S /\ Rank(S, RecordAt(s, n)) = n
  BY <1>1, <1>5, <1>6, RecordChosen DEF S
<1>8. RecordAt(s, n) = r
  BY <1>2, <1>4, <1>7 DEF n
<1> QED  BY <1>1, <1>5, <1>8

-----------------------------------------------------------------------------
(* The invariant.                                                          *)

(* A message that left a streamer carries the record of its number, and    *)
(* its time is not that of an attempt to come or under way.                *)
MsgInv(m) ==
    /\ m.record = RecordAt(m.shard, m.seq)
    /\ m.time <= made[m.shard]
    /\ pc[m.shard] = "publishing" => m.time < made[m.shard]

SameTime(m, n) == m.shard = n.shard /\ m.time = n.time

(* No two messages of a streamer, stored or on their way, have the same    *)
(* time.                                                                   *)
Distinct ==
    /\ \A i, j \in DOMAIN queue : SameTime(queue[i], queue[j]) => i = j
    /\ \A i \in DOMAIN queue : \A m \in late : ~SameTime(queue[i], m)
    /\ \A m, n \in late : SameTime(m, n) => m = n

Refusals == Range(faults) \subseteq {"refused"}

(* While every failed publish was refused, nothing is late and what is     *)
(* stored is behind the current record.                                    *)
OrderInv ==
    Refusals =>
        /\ late = {}
        /\ \A i \in DOMAIN queue : queue[i].seq < sequence[queue[i].shard]
        /\ \A i, j \in DOMAIN queue :
              i < j /\ queue[i].shard = queue[j].shard => queue[i].seq < queue[j].seq

(* Every record in front of the current one is stored, by this run.        *)
StoredUpTo(s) ==
    \A n \in Nat : n < sequence[s] =>
        \E i \in DOMAIN queue :
            queue[i].shard = s /\ queue[i].epoch = epoch[s] /\ queue[i].seq = n

SInv ==
    /\ TypeInv
    /\ \A s \in Shards : pc[s] = "publishing" => sequence[s] < MaxSequence
    /\ \A i \in DOMAIN queue : MsgInv(queue[i])
    /\ \A m \in late : MsgInv(m)
    /\ Distinct
    /\ OrderInv
    /\ \A s \in Shards : StoredUpTo(s)

(* The message of an attempt is a message, and its time is new.            *)
LEMMA AttemptMessage ==
    ASSUME SInv, NEW s \in Shards, pc[s] = "publishing"
    PROVE  /\ QueueMessage(s) \in Message
           /\ QueueMessage(s).shard = s
           /\ QueueMessage(s).epoch = epoch[s]
           /\ QueueMessage(s).seq = sequence[s]
           /\ QueueMessage(s).time = made[s]
           /\ QueueMessage(s).record = RecordAt(s, sequence[s])
           /\ \A i \in DOMAIN queue : ~SameTime(queue[i], QueueMessage(s))
           /\ \A m \in late : ~SameTime(m, QueueMessage(s))
<1>1. sequence[s] \in Nat /\ epoch[s] \in Nat /\ made[s] \in Nat
  BY StreamerAssumption DEF SInv, TypeInv
<1>2. RecordAt(s, sequence[s]) \in Records
  BY <1>1, RecordChosen
<1>3. QueueMessage(s) \in Message
  BY <1>1, <1>2 DEF QueueMessage, Message
<1>4. /\ QueueMessage(s).shard = s /\ QueueMessage(s).epoch = epoch[s]
      /\ QueueMessage(s).seq = sequence[s] /\ QueueMessage(s).time = made[s]
      /\ QueueMessage(s).record = RecordAt(s, sequence[s])
  BY DEF QueueMessage
<1>5. \A i \in DOMAIN queue : ~SameTime(queue[i], QueueMessage(s))
  <2> TAKE i \in DOMAIN queue
  <2>1. MsgInv(queue[i]) /\ queue[i] \in Message
    BY DEF SInv, TypeInv
  <2> QED  BY <1>1, <1>4, <2>1 DEF MsgInv, SameTime, Message
<1>6. \A m \in late : ~SameTime(m, QueueMessage(s))
  <2> TAKE m \in late
  <2>1. MsgInv(m) /\ m \in Message
    BY DEF SInv, TypeInv
  <2> QED  BY <1>1, <1>4, <2>1 DEF MsgInv, SameTime, Message
<1> QED  BY <1>3, <1>4, <1>5, <1>6

(* A step of one streamer that reads the clock before it publishes, or     *)
(* that ends its attempt, leaves what MsgInv says of a message true.       *)
LEMMA MsgStays ==
    ASSUME SInv, NEW s \in Shards, NEW m \in Message, MsgInv(m),
           pc' \in [Shards -> {"ready", "publishing", "waiting"}],
           made' \in [Shards -> Nat],
           \A t \in Shards \ {s} : pc'[t] = pc[t] /\ made'[t] = made[t],
           \/ made'[s] = made[s] + 1
           \/ made'[s] = made[s] /\ pc'[s] # "publishing"
    PROVE  MsgInv(m)'
<1>1. m.shard \in Shards /\ m.time \in Nat
  BY DEF Message
<1>2. made[m.shard] \in Nat
  BY <1>1 DEF SInv, TypeInv
<1>3. m.record = RecordAt(m.shard, m.seq) /\ m.time <= made[m.shard]
  BY DEF MsgInv
<1>4. CASE m.shard = s
  BY <1>1, <1>2, <1>3, <1>4 DEF MsgInv, RecordAt
<1>5. CASE m.shard # s
  BY <1>1, <1>5 DEF MsgInv, RecordAt
<1> QED  BY <1>4, <1>5

LEMMA SInvInit == Init => SInv
<1> SUFFICES ASSUME Init
             PROVE  SInv
  OBVIOUS
<1>1. TypeInv
  <2>1. <<>> \in Seq(Message) /\ <<>> \in Seq(FaultKinds) /\ Len(<<>>) = 0
    OBVIOUS
  <2>2. 0 \in 0..MaxSequence /\ 0 <= MaxFaults /\ RetryInitial \in Nat
    BY StreamerAssumption
  <2> QED  BY <2>1, <2>2 DEF Init, TypeInv
<1>2. DOMAIN queue = {} /\ late = {} /\ \A s \in Shards : pc[s] = "ready" /\ sequence[s] = 0
  BY DEF Init
<1>3. Distinct /\ OrderInv
  BY <1>2 DEF Distinct, OrderInv
<1>4. \A s \in Shards : StoredUpTo(s)
  BY <1>2 DEF StoredUpTo
<1> QED  BY <1>1, <1>2, <1>3, <1>4 DEF SInv

-----------------------------------------------------------------------------
(* Steps.                                                                  *)

LEMMA FaultEffect ==
    ASSUME SInv, NEW kind, Fault(kind)
    PROVE  /\ faults' \in Seq(FaultKinds)
           /\ Len(faults') <= MaxFaults
           /\ Range(faults) \subseteq Range(faults')
           /\ kind \in Range(faults')
<1>1. /\ faults \in Seq(FaultKinds) /\ kind \in FaultKinds /\ Len(faults) < MaxFaults
      /\ faults' = Append(faults, kind) /\ MaxFaults \in Nat
  BY StreamerAssumption DEF SInv, TypeInv, Fault
<1>2. /\ faults' \in Seq(FaultKinds) /\ Len(faults') = Len(faults) + 1
      /\ DOMAIN faults = 1..Len(faults) /\ DOMAIN faults' = 1..(Len(faults) + 1)
      /\ Len(faults) \in Nat
      /\ faults'[Len(faults) + 1] = kind
      /\ \A i \in 1..Len(faults) : faults'[i] = faults[i]
  BY <1>1
<1>3. Len(faults') <= MaxFaults
  BY <1>1, <1>2
<1>4. \A i \in 1..Len(faults) : i \in 1..(Len(faults) + 1)
  BY <1>2
<1>5. Len(faults) + 1 \in 1..(Len(faults) + 1)
  BY <1>2
<1> QED  BY <1>2, <1>3, <1>4, <1>5 DEF Range

(* A step that neither stores nor loses sight of a publish.                *)
LEMMA QuietKeeps ==
    ASSUME SInv, TypeInv', NEW s \in Shards,
           UNCHANGED <<queue, late, sequence, epoch>>,
           \A t \in Shards \ {s} : pc'[t] = pc[t] /\ made'[t] = made[t],
           \/ made'[s] = made[s] + 1 /\ sequence[s] < MaxSequence
           \/ made'[s] = made[s] /\ pc'[s] # "publishing",
           Range(faults) \subseteq Range(faults')
    PROVE  SInv'
<1>1. \A m \in Message : MsgInv(m) => MsgInv(m)'
  BY MsgStays DEF TypeInv
<1>2. (\A i \in DOMAIN queue : queue[i] \in Message) /\ late \subseteq Message
  BY DEF SInv, TypeInv
<1>3. (\A i \in DOMAIN queue : MsgInv(queue[i])') /\ \A m \in late : MsgInv(m)'
  <2>1. \A i \in DOMAIN queue : MsgInv(queue[i])'
    <3> TAKE i \in DOMAIN queue
    <3>1. queue'[i] = queue[i] /\ queue[i] \in Message /\ MsgInv(queue[i])
      BY <1>2 DEF SInv
    <3> QED  BY <1>1, <3>1 DEF MsgInv
  <2>2. \A m \in late : MsgInv(m)'
    BY <1>1, <1>2 DEF SInv
  <2> QED  BY <2>1, <2>2
<1>4. Distinct'
  BY DEF SInv, Distinct, SameTime
<1>5. OrderInv'
  BY DEF SInv, OrderInv, Refusals
<1>6. \A t \in Shards : StoredUpTo(t)'
  BY DEF SInv, StoredUpTo
<1>7. \A t \in Shards : pc'[t] = "publishing" => sequence'[t] < MaxSequence
  BY DEF SInv
<1> QED  BY <1>3, <1>4, <1>5, <1>6, <1>7 DEF SInv

LEMMA PublishKeeps ==
    ASSUME SInv, NEW s \in Shards, Publish(s)
    PROVE  SInv'
<1>1. TypeInv'
  BY DEF SInv, TypeInv, Publish, ReadClock
<1>2. /\ UNCHANGED <<queue, late, sequence, epoch, faults>>
      /\ \A t \in Shards \ {s} : pc'[t] = pc[t] /\ made'[t] = made[t]
      /\ made'[s] = made[s] + 1 /\ sequence[s] < MaxSequence
  BY DEF SInv, TypeInv, Publish, ReadClock
<1> QED  BY <1>1, <1>2, QuietKeeps

LEMMA WakeKeeps ==
    ASSUME SInv, NEW s \in Shards, Wake(s)
    PROVE  SInv'
<1>1. (IF 2 * backoff[s] > RetryMax THEN RetryMax ELSE 2 * backoff[s]) \in Nat
  BY StreamerAssumption DEF SInv, TypeInv
<1>2. TypeInv'
  BY <1>1 DEF SInv, TypeInv, Wake
<1>3. /\ UNCHANGED <<queue, late, sequence, epoch, faults>>
      /\ \A t \in Shards \ {s} : pc'[t] = pc[t] /\ made'[t] = made[t]
      /\ made'[s] = made[s] /\ pc'[s] # "publishing"
  BY DEF SInv, TypeInv, Wake
<1> QED  BY <1>2, <1>3, QuietKeeps

LEMMA RefusedKeeps ==
    ASSUME SInv, NEW s \in Shards, Refused(s)
    PROVE  SInv'
<1>1. /\ faults' \in Seq(FaultKinds) /\ Len(faults') <= MaxFaults
      /\ Range(faults) \subseteq Range(faults')
  BY FaultEffect DEF Refused
<1>2. TypeInv'
  BY <1>1 DEF SInv, TypeInv, Refused, Failed
<1>3. /\ UNCHANGED <<queue, late, sequence, epoch>>
      /\ \A t \in Shards \ {s} : pc'[t] = pc[t] /\ made'[t] = made[t]
      /\ made'[s] = made[s] /\ pc'[s] # "publishing"
  BY DEF SInv, TypeInv, Refused, Failed
<1> QED  BY <1>1, <1>2, <1>3, QuietKeeps

(* A step that leaves a publish to itself.                                 *)
LEMMA LateKeeps ==
    ASSUME SInv, TypeInv', NEW s \in Shards, UNCHANGED <<queue, made>>,
           \A t \in Shards \ {s} : pc'[t] = pc[t] /\ sequence'[t] = sequence[t],
           pc'[s] # "publishing",
           \/ late' = late
           \/ pc[s] = "publishing" /\ late' = late \union {QueueMessage(s)},
           ~Refusals',
           \A t \in Shards : StoredUpTo(t)'
    PROVE  SInv'
<1>1. \A m \in Message : MsgInv(m) => MsgInv(m)'
  BY MsgStays DEF TypeInv
<1>2. \A i \in DOMAIN queue : MsgInv(queue[i])'
  <2> TAKE i \in DOMAIN queue
  <2>1. queue'[i] = queue[i] /\ queue[i] \in Message /\ MsgInv(queue[i])
    BY DEF SInv, TypeInv
  <2> QED  BY <1>1, <2>1 DEF MsgInv
<1>3. \A m \in late : MsgInv(m)'
  BY <1>1 DEF SInv, TypeInv
<1>4. \A t \in Shards : pc'[t] = "publishing" => sequence'[t] < MaxSequence
  BY DEF SInv
<1>5. OrderInv'
  BY DEF OrderInv
<1>6. CASE late' = late
  <2>1. Distinct'
    BY <1>6 DEF SInv, Distinct, SameTime
  <2> QED  BY <1>2, <1>3, <1>4, <1>5, <1>6, <2>1 DEF SInv
<1>7. CASE pc[s] = "publishing" /\ late' = late \union {QueueMessage(s)}
  <2> DEFINE q == QueueMessage(s)
  <2>1. /\ q \in Message /\ q.shard = s /\ q.seq = sequence[s] /\ q.time = made[s]
        /\ q.record = RecordAt(s, sequence[s])
        /\ \A i \in DOMAIN queue : ~SameTime(queue[i], q)
        /\ \A m \in late : ~SameTime(m, q)
    BY <1>7, AttemptMessage
  <2> HIDE DEF q
  <2>2. q.time <= made[s]
    BY <2>1 DEF Message
  <2>3. \A m \in late' : MsgInv(m)'
    <3>1. \A m \in late' : m \in late \/ (m.record = RecordAt(m.shard, m.seq)
              /\ m.time <= made'[m.shard] /\ pc'[m.shard] # "publishing")
      BY <1>7, <2>1, <2>2 DEF q
    <3> QED  BY <1>3, <3>1 DEF MsgInv
  <2>4. Distinct'
    <3>1. \A i \in DOMAIN queue : \A m \in late' : ~SameTime(queue[i], m)
      BY <1>7, <2>1 DEF SInv, Distinct, q
    <3>2. \A m, n \in late' : SameTime(m, n) => m = n
      <4>1. late' = late \union {q}
        BY <1>7 DEF q
      <4>2. \A m, n : SameTime(m, n) => SameTime(n, m)
        BY DEF SameTime
      <4> QED  BY <2>1, <4>1, <4>2 DEF SInv, Distinct
    <3> QED  BY <3>1, <3>2 DEF SInv, Distinct, SameTime
  <2> QED  BY <1>2, <1>4, <1>5, <2>3, <2>4 DEF SInv
<1> QED  BY <1>6, <1>7

LEMMA LeftOpenKeeps ==
    ASSUME SInv, NEW s \in Shards, Errored(s) \/ Timeout(s)
    PROVE  SInv'
<1>0. PICK kind \in {"error", "timeout"} : Fault(kind)
  BY DEF Errored, Timeout
<1>1. /\ faults' \in Seq(FaultKinds) /\ Len(faults') <= MaxFaults
      /\ kind \in Range(faults')
  BY <1>0, FaultEffect
<1>2. ~Refusals'
  BY <1>1 DEF Refusals, Range
<1>3. LeftOpen(s)
  BY DEF Errored, Timeout
<1>4. QueueMessage(s) \in Message
  BY <1>3, AttemptMessage DEF LeftOpen
<1>5. TypeInv'
  BY <1>1, <1>3, <1>4 DEF SInv, TypeInv, LeftOpen, Failed
<1>6. /\ UNCHANGED <<queue, made, sequence, epoch>>
      /\ \A t \in Shards \ {s} : pc'[t] = pc[t]
      /\ pc'[s] # "publishing"
      /\ pc[s] = "publishing" /\ late' = late \union {QueueMessage(s)}
  BY <1>3 DEF SInv, TypeInv, LeftOpen, Failed
<1>7. \A t \in Shards : StoredUpTo(t)'
  BY <1>6 DEF SInv, StoredUpTo
<1> QED  BY <1>2, <1>5, <1>6, <1>7, LateKeeps

LEMMA RestartKeeps ==
    ASSUME SInv, NEW s \in Shards, Restart(s)
    PROVE  SInv'
<1>1. /\ faults' \in Seq(FaultKinds) /\ Len(faults') <= MaxFaults
      /\ "restart" \in Range(faults')
  BY FaultEffect DEF Restart
<1>2. ~Refusals'
  BY <1>1 DEF Refusals, Range
<1>3. \/ late' = late
      \/ pc[s] = "publishing" /\ late' = late \union {QueueMessage(s)}
  BY DEF Restart
<1>4. late' \subseteq Message
  BY <1>3, AttemptMessage DEF SInv, TypeInv
<1>5. TypeInv'
  BY <1>1, <1>4, StreamerAssumption DEF SInv, TypeInv, Restart
<1>6. /\ UNCHANGED <<queue, made>>
      /\ \A t \in Shards \ {s} :
            pc'[t] = pc[t] /\ sequence'[t] = sequence[t] /\ epoch'[t] = epoch[t]
      /\ pc'[s] # "publishing" /\ sequence'[s] = 0
  BY DEF SInv, TypeInv, Restart
<1>7. \A t \in Shards : StoredUpTo(t)'
  <2> TAKE t \in Shards
  <2>1. CASE t = s
    BY <1>6, <2>1 DEF StoredUpTo
  <2>2. CASE t # s
    BY <1>6, <2>2 DEF SInv, StoredUpTo
  <2> QED  BY <2>1, <2>2
<1> QED  BY <1>2, <1>3, <1>5, <1>6, <1>7, LateKeeps

(* What is in the queue after q is stored.                                 *)
LEMMA QueueGrows ==
    ASSUME SInv, NEW q \in Message, queue' = Append(queue, q)
    PROVE  /\ queue' \in Seq(Message)
           /\ Len(queue) \in Nat
           /\ DOMAIN queue = 1..Len(queue)
           /\ DOMAIN queue' = 1..(Len(queue) + 1)
           /\ queue'[Len(queue) + 1] = q
           /\ \A i \in DOMAIN queue : i \in DOMAIN queue' /\ queue'[i] = queue[i]
           /\ \A i \in DOMAIN queue' : i \in DOMAIN queue \/ i = Len(queue) + 1
<1>1. queue \in Seq(Message)
  BY DEF SInv, TypeInv
<1> QED  BY <1>1

(* Storing a message with a time of its own keeps times apart.             *)
LEMMA DistinctGrows ==
    ASSUME SInv, NEW q \in Message, queue' = Append(queue, q), late' \subseteq late,
           \A i \in DOMAIN queue : ~SameTime(queue[i], q),
           \A m \in late' : ~SameTime(m, q)
    PROVE  Distinct'
<1>1. \A m, n : SameTime(m, n) => SameTime(n, m)
  BY DEF SameTime
<1>2. /\ queue'[Len(queue) + 1] = q
      /\ \A i \in DOMAIN queue : i \in DOMAIN queue' /\ queue'[i] = queue[i]
      /\ \A i \in DOMAIN queue' : i \in DOMAIN queue \/ i = Len(queue) + 1
  BY QueueGrows
<1>3. \A i, j \in DOMAIN queue' : SameTime(queue'[i], queue'[j]) => i = j
  BY <1>1, <1>2 DEF SInv, Distinct
<1>4. \A i \in DOMAIN queue' : \A m \in late' : ~SameTime(queue'[i], m)
  BY <1>1, <1>2 DEF SInv, Distinct
<1>5. \A m, n \in late' : SameTime(m, n) => m = n
  BY DEF SInv, Distinct
<1> QED  BY <1>3, <1>4, <1>5 DEF Distinct, SameTime

LEMMA AcceptedKeeps ==
    ASSUME SInv, NEW s \in Shards, Accepted(s)
    PROVE  SInv'
<1> DEFINE q == QueueMessage(s)
           k == Len(queue) + 1
<1>1. /\ pc[s] = "publishing" /\ queue' = Append(queue, q)
      /\ UNCHANGED <<made, epoch, late, faults>>
  BY DEF Accepted
<1>2. /\ q \in Message /\ q.shard = s /\ q.epoch = epoch[s] /\ q.seq = sequence[s]
      /\ q.time = made[s] /\ q.record = RecordAt(s, sequence[s])
      /\ \A i \in DOMAIN queue : ~SameTime(queue[i], q)
      /\ \A m \in late : ~SameTime(m, q)
  BY <1>1, AttemptMessage
<1> HIDE DEF q
<1>3. /\ queue' \in Seq(Message)
      /\ Len(queue) \in Nat
      /\ DOMAIN queue = 1..Len(queue)
      /\ queue'[k] = q
      /\ k \in DOMAIN queue'
      /\ \A i \in DOMAIN queue : i \in DOMAIN queue' /\ queue'[i] = queue[i]
      /\ \A i \in DOMAIN queue' : i \in DOMAIN queue \/ i = k
  BY <1>1, <1>2, QueueGrows
<1>4. /\ sequence[s] \in Nat /\ sequence'[s] = sequence[s] + 1
      /\ pc'[s] = "ready" /\ sequence[s] < MaxSequence
      /\ \A t \in Shards \ {s} : pc'[t] = pc[t] /\ sequence'[t] = sequence[t]
  BY <1>1, StreamerAssumption DEF SInv, TypeInv, Accepted
<1>5. TypeInv'
  <2>1. sequence[s] + 1 \in 0..MaxSequence /\ RetryInitial \in Nat
    BY <1>4, StreamerAssumption
  <2> QED  BY <1>1, <1>3, <2>1 DEF SInv, TypeInv, Accepted
<1>6. \A m \in Message : MsgInv(m) => MsgInv(m)'
  BY <1>1, <1>4, <1>5, MsgStays DEF TypeInv
<1>7. \A i \in DOMAIN queue' : MsgInv(queue[i])'
  <2> TAKE i \in DOMAIN queue'
  <2>1. CASE i \in DOMAIN queue
    <3>1. queue'[i] = queue[i] /\ queue[i] \in Message /\ MsgInv(queue[i])
      BY <1>3, <2>1 DEF SInv, TypeInv
    <3> QED  BY <1>6, <3>1 DEF MsgInv
  <2>2. CASE i = k
    <3>1. /\ queue'[i].record = RecordAt(queue'[i].shard, queue'[i].seq)
          /\ queue'[i].time <= made'[queue'[i].shard]
          /\ pc'[queue'[i].shard] # "publishing"
      BY <1>1, <1>2, <1>3, <1>4, <2>2 DEF Message
    <3> QED  BY <3>1 DEF MsgInv
  <2> QED  BY <1>3, <2>1, <2>2
<1>8. \A m \in late' : MsgInv(m)'
  BY <1>1, <1>6 DEF SInv, TypeInv
<1>9. Distinct'
  BY <1>1, <1>2, DistinctGrows
<1>10. OrderInv'
  <2> SUFFICES ASSUME Refusals
               PROVE  /\ late' = {}
                      /\ \A i \in DOMAIN queue' : queue'[i].seq < sequence'[queue'[i].shard]
                      /\ \A i, j \in DOMAIN queue' :
                            i < j /\ queue'[i].shard = queue'[j].shard =>
                               queue'[i].seq < queue'[j].seq
    BY <1>1 DEF OrderInv, Refusals
  <2>1. /\ late = {}
        /\ \A i \in DOMAIN queue : queue[i].seq < sequence[queue[i].shard]
        /\ \A i, j \in DOMAIN queue :
              i < j /\ queue[i].shard = queue[j].shard => queue[i].seq < queue[j].seq
    BY DEF SInv, OrderInv
  <2>2. ASSUME NEW i \in DOMAIN queue'
        PROVE  queue'[i].seq < sequence'[queue'[i].shard]
    <3>1. CASE i \in DOMAIN queue
      <4>1. queue[i] \in Message
        BY <3>1 DEF SInv, TypeInv
      <4>2. queue[i].shard \in Shards /\ queue[i].seq \in Nat
        BY <4>1 DEF Message
      <4>3. queue'[i] = queue[i] /\ queue[i].seq < sequence[queue[i].shard]
        BY <1>3, <2>1, <3>1
      <4> QED  BY <1>4, <4>2, <4>3
    <3>2. CASE i = k
      BY <1>2, <1>3, <1>4, <3>2
    <3> QED  BY <1>3, <3>1, <3>2
  <2>3. ASSUME NEW i \in DOMAIN queue', NEW j \in DOMAIN queue',
               i < j, queue'[i].shard = queue'[j].shard
        PROVE  queue'[i].seq < queue'[j].seq
    <3>1. i \in DOMAIN queue
      BY <1>3, <2>3
    <3>2. CASE j \in DOMAIN queue
      BY <1>3, <2>1, <2>3, <3>1, <3>2
    <3>3. CASE j = k
      BY <1>2, <1>3, <2>1, <2>3, <3>1, <3>3
    <3> QED  BY <1>3, <3>2, <3>3
  <2> QED  BY <1>1, <2>1, <2>2, <2>3
<1>11. \A t \in Shards : StoredUpTo(t)'
  <2> SUFFICES ASSUME NEW t \in Shards, NEW n \in Nat, n < sequence'[t]
               PROVE  \E i \in DOMAIN queue' :
                         /\ queue'[i].shard = t
                         /\ queue'[i].epoch = epoch'[t]
                         /\ queue'[i].seq = n
    BY DEF StoredUpTo
  <2>1. CASE n < sequence[t]
    <3>1. PICK i \in DOMAIN queue :
             queue[i].shard = t /\ queue[i].epoch = epoch[t] /\ queue[i].seq = n
      BY <2>1 DEF SInv, StoredUpTo
    <3> QED  BY <1>1, <1>3, <3>1
  <2>2. CASE ~(n < sequence[t])
    <3>1. t = s
      BY <1>4, <2>2
    <3>2. n = sequence[s]
      BY <1>4, <2>2, <3>1
    <3> QED  BY <1>1, <1>2, <1>3, <3>1, <3>2
  <2> QED  BY <2>1, <2>2
<1>12. \A t \in Shards : pc'[t] = "publishing" => sequence'[t] < MaxSequence
  BY <1>4 DEF SInv
<1> QED  BY <1>5, <1>7, <1>8, <1>9, <1>10, <1>11, <1>12 DEF SInv

LEMMA ArriveKeeps ==
    ASSUME SInv, NEW q \in late, Arrive(q)
    PROVE  SInv'
<1> DEFINE k == Len(queue) + 1
<1>1. /\ late' = late \ {q} /\ UNCHANGED <<pc, sequence, backoff, attempt, made, epoch, faults>>
      /\ queue' = queue \/ queue' = Append(queue, q)
      /\ q \in Message /\ MsgInv(q) /\ late \subseteq Message
  BY DEF Arrive, SInv, TypeInv
<1>2. ~Refusals /\ Refusals' = Refusals
  BY <1>1 DEF SInv, OrderInv, Refusals
<1>3. OrderInv'
  BY <1>2 DEF OrderInv
<1>4. \A m : MsgInv(m) => MsgInv(m)'
  BY <1>1 DEF MsgInv
<1>5. \A m \in late' : MsgInv(m)'
  BY <1>1, <1>4 DEF SInv
<1>6. \A t \in Shards : pc'[t] = "publishing" => sequence'[t] < MaxSequence
  BY <1>1 DEF SInv
<1>7. CASE queue' = queue
  <2>1. TypeInv' /\ Distinct'
    BY <1>1, <1>7 DEF SInv, TypeInv, Distinct, SameTime
  <2>2. \A i \in DOMAIN queue' : MsgInv(queue[i])'
    BY <1>1, <1>7 DEF SInv, MsgInv
  <2>3. \A t \in Shards : StoredUpTo(t)'
    BY <1>1, <1>7 DEF SInv, StoredUpTo
  <2> QED  BY <1>3, <1>5, <1>6, <2>1, <2>2, <2>3 DEF SInv
<1>8. CASE queue' = Append(queue, q)
  <2>1. /\ queue' \in Seq(Message)
        /\ queue'[k] = q
        /\ \A i \in DOMAIN queue : i \in DOMAIN queue' /\ queue'[i] = queue[i]
        /\ \A i \in DOMAIN queue' : i \in DOMAIN queue \/ i = k
    BY <1>1, <1>8, QueueGrows
  <2>2. TypeInv'
    BY <1>1, <2>1 DEF SInv, TypeInv
  <2>3. \A i \in DOMAIN queue' : MsgInv(queue[i])'
    <3> TAKE i \in DOMAIN queue'
    <3>1. queue'[i] = q \/ (i \in DOMAIN queue /\ queue'[i] = queue[i])
      BY <2>1
    <3> QED  BY <1>1, <3>1 DEF SInv, MsgInv
  <2>4. Distinct'
    <3>1. \A i \in DOMAIN queue : ~SameTime(queue[i], q)
      BY DEF SInv, Distinct
    <3>2. \A m \in late' : ~SameTime(m, q)
      BY <1>1 DEF SInv, Distinct
    <3> QED  BY <1>1, <1>8, <3>1, <3>2, DistinctGrows
  <2>5. \A t \in Shards : StoredUpTo(t)'
    BY <1>1, <2>1 DEF SInv, StoredUpTo
  <2> QED  BY <1>3, <1>5, <1>6, <2>2, <2>3, <2>4, <2>5 DEF SInv
<1> QED  BY <1>1, <1>7, <1>8

LEMMA SInvStep == SInv /\ [Next]_vars => SInv'
<1> SUFFICES ASSUME SInv, [Next]_vars
             PROVE  SInv'
  OBVIOUS
<1>1. CASE \E s \in Shards : ShardStep(s)
  BY <1>1, PublishKeeps, AcceptedKeeps, WakeKeeps DEF ShardStep
<1>2. CASE \E s \in Shards : Refused(s) \/ Errored(s) \/ Timeout(s) \/ Restart(s)
  BY <1>2, RefusedKeeps, LeftOpenKeeps, RestartKeeps
<1>3. CASE \E m \in late : Arrive(m)
  BY <1>3, ArriveKeeps
<1>4. CASE UNCHANGED vars
  <2>1. UNCHANGED <<pc, sequence, backoff, attempt, made, epoch, late, queue, faults>>
    BY <1>4 DEF vars
  <2>2. TypeInv' /\ Distinct' /\ OrderInv'
    BY <2>1 DEF SInv, TypeInv, Distinct, SameTime, OrderInv, Refusals
  <2>3. (\A i \in DOMAIN queue' : MsgInv(queue[i])') /\ \A m \in late' : MsgInv(m)'
    BY <2>1 DEF SInv, MsgInv
  <2>4. \A s \in Shards : StoredUpTo(s)' /\ (pc'[s] = "publishing" => sequence'[s] < MaxSequence)
    BY <2>1 DEF SInv, StoredUpTo
  <2> QED  BY <2>2, <2>3, <2>4 DEF SInv
<1> QED  BY <1>1, <1>2, <1>3, <1>4 DEF Next, Exhausted

-----------------------------------------------------------------------------
(* The specification.                                                      *)

(* The invariant holds in every reachable state.                           *)
THEOREM Invariance == Spec => []SInv
  BY SInvInit, SInvStep, PTL DEF Spec

-----------------------------------------------------------------------------
(* The pauses between attempts.                                            *)

Double(b) == IF 2 * b > RetryMax THEN RetryMax ELSE 2 * b

(* f is the list of the pauses up to the one before attempt n + 1.         *)
Climb(f, n) ==
    /\ f \in [0..n -> Nat]
    /\ f[0] = RetryInitial
    /\ \A i \in 1..n : f[i] = Double(f[i - 1])

LEMMA DoubleType == \A b \in Nat : Double(b) \in Nat
  BY StreamerAssumption DEF Double

(* There is such a list of any length.                                     *)
LEMMA ClimbExists == \A n \in Nat : \E f : Climb(f, n)
<1> DEFINE T == {n \in Nat : \E f : Climb(f, n)}
<1>1. 0 \in T
  <2> DEFINE f == [i \in 0..0 |-> RetryInitial]
  <2>1. f \in [0..0 -> Nat] /\ f[0] = RetryInitial /\ \A i \in 1..0 : f[i] = Double(f[i - 1])
    BY StreamerAssumption
  <2>2. Climb(f, 0)
    BY <2>1 DEF Climb
  <2> QED  BY <2>2
<1>2. ASSUME NEW n \in Nat, n \in T PROVE n + 1 \in T
  <2>1. PICK f : Climb(f, n)
    BY <1>2
  <2> DEFINE g == [i \in 0..(n + 1) |-> IF i = n + 1 THEN Double(f[n]) ELSE f[i]]
  <2>2. /\ f \in [0..n -> Nat] /\ f[0] = RetryInitial
        /\ \A i \in 1..n : f[i] = Double(f[i - 1])
    BY <2>1 DEF Climb
  <2>3. n \in 0..n /\ Double(f[n]) \in Nat
    BY <2>2, DoubleType
  <2>4. g \in [0..(n + 1) -> Nat]
    <3> SUFFICES ASSUME NEW i \in 0..(n + 1)
                 PROVE  (IF i = n + 1 THEN Double(f[n]) ELSE f[i]) \in Nat
      OBVIOUS
    <3>1. CASE i = n + 1
      BY <2>3, <3>1
    <3>2. CASE i # n + 1
      <4>1. i \in 0..n
        BY <3>2
      <4> QED  BY <2>2, <3>2, <4>1
    <3> QED  BY <3>1, <3>2
  <2>5. g[0] = RetryInitial
    BY <2>2
  <2>6. ASSUME NEW i \in 1..(n + 1) PROVE g[i] = Double(g[i - 1])
    <3>1. i \in 0..(n + 1) /\ i - 1 \in 0..(n + 1) /\ i - 1 # n + 1
      OBVIOUS
    <3>2. g[i - 1] = f[i - 1]
      BY <3>1
    <3>3. CASE i = n + 1
      <4>1. i - 1 = n
        BY <3>3
      <4>2. g[i] = Double(f[n])
        BY <3>1, <3>3
      <4> QED  BY <3>2, <4>1, <4>2
    <3>4. CASE i # n + 1
      <4>1. i \in 1..n
        BY <3>4
      <4>2. g[i] = f[i]
        BY <3>1, <3>4
      <4> QED  BY <2>2, <3>2, <4>1, <4>2
    <3> QED  BY <3>3, <3>4
  <2> HIDE DEF g
  <2>7. Climb(g, n + 1)
    BY <2>4, <2>5, <2>6 DEF Climb
  <2>8. n + 1 \in Nat
    OBVIOUS
  <2> QED  BY <2>7, <2>8
<1> HIDE DEF T
<1>3. Nat \subseteq T
  BY <1>1, <1>2, NatClosed
<1> QED  BY <1>3 DEF T

(* Two such lists agree as far as both go.                                 *)
LEMMA ClimbAgree ==
    ASSUME NEW n \in Nat, NEW m \in Nat, n <= m,
           NEW f, NEW g, Climb(f, n), Climb(g, m)
    PROVE  \A i \in 0..n : f[i] = g[i]
<1> DEFINE T == {i \in Nat : i <= n => f[i] = g[i]}
<1>1. 0 \in T
  BY DEF Climb
<1>2. ASSUME NEW i \in Nat, i \in T PROVE i + 1 \in T
  <2> SUFFICES ASSUME i + 1 <= n PROVE f[i + 1] = g[i + 1]
    OBVIOUS
  <2>1. i + 1 \in 1..n /\ i + 1 \in 1..m /\ (i + 1) - 1 = i
    OBVIOUS
  <2>2. f[i + 1] = Double(f[i]) /\ g[i + 1] = Double(g[i])
    BY <2>1 DEF Climb
  <2>3. f[i] = g[i]
    BY <1>2
  <2> QED  BY <2>2, <2>3
<1> HIDE DEF T
<1>3. Nat \subseteq T
  BY <1>1, <1>2, NatClosed
<1>4. \A i \in 0..n : i \in T /\ i <= n
  BY <1>3
<1> QED  BY <1>4 DEF T

(* The pause doubles from attempt to attempt, up to retry_max.             *)
LEMMA PauseDoubles ==
    /\ Pause[0] = RetryInitial
    /\ \A n \in Nat : Pause[n + 1] = Double(Pause[n])
<1> DEFINE C(n) == CHOOSE f : Climb(f, n)
           F == [n \in Nat |-> C(n)[n]]
           G(P) == [n \in Nat |-> IF n = 0 THEN RetryInitial
                      ELSE IF 2 * P[n - 1] > RetryMax THEN RetryMax ELSE 2 * P[n - 1]]
<1>1. ASSUME NEW n \in Nat PROVE Climb(C(n), n)
  <2>1. \E f : Climb(f, n)
    BY ClimbExists
  <2> QED  BY <2>1
<1>2. F[0] = RetryInitial
  <2>1. Climb(C(0), 0)
    BY <1>1
  <2>2. C(0)[0] = RetryInitial
    BY <2>1 DEF Climb
  <2> QED  BY <2>2
<1> HIDE DEF C
<1>3. ASSUME NEW n \in Nat PROVE F[n + 1] = Double(F[n])
  <2>1. n + 1 \in Nat /\ n <= n + 1 /\ n \in 0..n /\ n + 1 \in 1..(n + 1) /\ (n + 1) - 1 = n
    OBVIOUS
  <2>2. Climb(C(n), n) /\ Climb(C(n + 1), n + 1)
    BY <1>1, <2>1
  <2>3. C(n)[n] = C(n + 1)[n]
    BY <2>1, <2>2, ClimbAgree
  <2>4. C(n + 1)[n + 1] = Double(C(n + 1)[n])
    BY <2>1, <2>2 DEF Climb
  <2> QED  BY <2>1, <2>3, <2>4
<1>4. F = G(F)
  <2> SUFFICES ASSUME NEW n \in Nat
               PROVE  F[n] = IF n = 0 THEN RetryInitial
                             ELSE IF 2 * F[n - 1] > RetryMax THEN RetryMax ELSE 2 * F[n - 1]
    OBVIOUS
  <2>1. CASE n = 0
    BY <1>2, <2>1
  <2>2. CASE n # 0
    <3>1. n - 1 \in Nat /\ (n - 1) + 1 = n
      BY <2>2
    <3>2. F[n] = Double(F[n - 1])
      BY <1>3, <3>1
    <3> QED  BY <2>2, <3>2 DEF Double
  <2> QED  BY <2>1, <2>2
<1> HIDE DEF F
<1>5. \E P : P = G(P)
  BY <1>4
<1>6. Pause = CHOOSE P : P = G(P)
  BY DEF Pause
<1>7. Pause = G(Pause)
  BY <1>5, <1>6
<1>8. Pause[0] = RetryInitial
  BY <1>7
<1>9. ASSUME NEW n \in Nat PROVE Pause[n + 1] = Double(Pause[n])
  <2>1. n + 1 \in Nat /\ n + 1 # 0 /\ (n + 1) - 1 = n
    OBVIOUS
  <2>2. Pause[n + 1] = IF 2 * Pause[(n + 1) - 1] > RetryMax THEN RetryMax
                       ELSE 2 * Pause[(n + 1) - 1]
    BY <1>7, <2>1
  <2> QED  BY <2>1, <2>2 DEF Double
<1> QED  BY <1>8, <1>9

(* The pause after the next failure is the one of the attempts so far.     *)
PauseInv ==
    \A s \in Shards :
        /\ pc[s] = "waiting" => attempt[s] > 0 /\ backoff[s] = Pause[attempt[s] - 1]
        /\ pc[s] # "waiting" => backoff[s] = Pause[attempt[s]]

LEMMA PauseStep ==
    ASSUME SInv, PauseInv, [Next]_vars
    PROVE  PauseInv'
<1>0. /\ pc \in [Shards -> {"ready", "publishing", "waiting"}]
      /\ backoff \in [Shards -> Nat] /\ attempt \in [Shards -> Nat]
  BY DEF SInv, TypeInv
<1>1. ASSUME NEW s \in Shards, Publish(s) PROVE PauseInv'
  BY <1>0, <1>1 DEF PauseInv, Publish
<1>2. ASSUME NEW s \in Shards, pc' = [pc EXCEPT ![s] = "ready"],
             attempt' = [attempt EXCEPT ![s] = 0], backoff' = [backoff EXCEPT ![s] = RetryInitial]
      PROVE  PauseInv'
  BY <1>0, <1>2, PauseDoubles DEF PauseInv
<1>3. ASSUME NEW s \in Shards, pc[s] = "publishing", Failed(s) PROVE PauseInv'
  <2>1. /\ pc' = [pc EXCEPT ![s] = "waiting"]
        /\ attempt' = [attempt EXCEPT ![s] = attempt[s] + 1]
        /\ backoff' = backoff
    BY <1>3 DEF Failed
  <2>2. backoff[s] = Pause[attempt[s]] /\ attempt[s] \in Nat
    BY <1>0, <1>3 DEF PauseInv
  <2>3. attempt[s] + 1 > 0 /\ (attempt[s] + 1) - 1 = attempt[s]
    BY <2>2
  <2>4. /\ pc'[s] = "waiting" /\ attempt'[s] = attempt[s] + 1 /\ backoff'[s] = backoff[s]
        /\ \A t \in Shards \ {s} :
              pc'[t] = pc[t] /\ attempt'[t] = attempt[t] /\ backoff'[t] = backoff[t]
    BY <1>0, <2>1
  <2>5. backoff'[s] = Pause[attempt'[s] - 1] /\ attempt'[s] > 0
    BY <2>2, <2>3, <2>4
  <2> QED  BY <2>4, <2>5 DEF PauseInv
<1>4. ASSUME NEW s \in Shards, Wake(s) PROVE PauseInv'
  <2>1. /\ pc[s] = "waiting" /\ pc' = [pc EXCEPT ![s] = "ready"]
        /\ backoff' = [backoff EXCEPT ![s] = Double(backoff[s])]
        /\ attempt' = attempt
    BY <1>4 DEF Wake, Double
  <2>2. backoff[s] = Pause[attempt[s] - 1] /\ attempt[s] - 1 \in Nat
        /\ (attempt[s] - 1) + 1 = attempt[s]
    BY <1>0, <2>1 DEF PauseInv
  <2>3. Pause[attempt[s]] = Double(backoff[s])
    BY <2>2, PauseDoubles
  <2> QED  BY <1>0, <2>1, <2>3 DEF PauseInv
<1>5. ASSUME UNCHANGED <<pc, attempt, backoff>> PROVE PauseInv'
  BY <1>5 DEF PauseInv
<1>6. CASE \E s \in Shards : ShardStep(s)
  BY <1>1, <1>2, <1>4, <1>6 DEF ShardStep, Accepted
<1>7. CASE \E s \in Shards : Refused(s) \/ Errored(s) \/ Timeout(s) \/ Restart(s)
  BY <1>2, <1>3, <1>7 DEF Refused, Errored, Timeout, LeftOpen, Restart
<1>8. CASE (\E m \in late : Arrive(m)) \/ UNCHANGED vars
  BY <1>5, <1>8 DEF Arrive, vars
<1> QED  BY <1>6, <1>7, <1>8 DEF Next, Exhausted

(* Counters, messages and faults keep their types, and the pause of        *)
(* publishWithRetry follows from the failed attempts of the current record *)
(* alone: fresh for every record, doubled with every failure, up to        *)
(* retry_max.                                                              *)
THEOREM TypesAndPauses == Spec => []TypeOK
<1>1. Init => PauseInv
  BY PauseDoubles DEF Init, PauseInv
<1>2. SInv /\ PauseInv /\ [Next]_vars => PauseInv'
  BY PauseStep
<1>3. SInv /\ PauseInv => TypeOK
  BY DEF SInv, PauseInv, TypeOK
<1> QED  BY <1>1, <1>2, <1>3, Invariance, PTL DEF Spec

-----------------------------------------------------------------------------
(* What the queue stores.                                                  *)

LEMMA DroppedNothing == SInv => NothingDropped
<1> SUFFICES ASSUME SInv, NEW s \in Shards, NEW n \in 0..(MaxSequence - 1), n < sequence[s]
             PROVE  \E i \in 1..Len(queue) :
                       queue[i].shard = s /\ queue[i].epoch = epoch[s] /\ queue[i].seq = n
  BY DEF NothingDropped
<1>1. n \in Nat /\ DOMAIN queue = 1..Len(queue)
  BY StreamerAssumption DEF SInv, TypeInv
<1> QED  BY <1>1 DEF SInv, StoredUpTo

(* Whatever is refused, times out or restarts, Stream moves past a record  *)
(* only when the queue has stored it in this run.                          *)
THEOREM NoRecordDropped == Spec => []NothingDropped
  BY DroppedNothing, Invariance, PTL

(* After a cycle of every shard the queue has every row of the file, and   *)
(* no row ever comes from two shards.                                      *)
THEOREM CycleHasAll == Spec => []CycleComplete
<1>1. SInv => CycleComplete
  <2> SUFFICES ASSUME SInv
               PROVE  CycleComplete
    OBVIOUS
  <2>1. DOMAIN queue = 1..Len(queue) /\ \A i \in DOMAIN queue : queue[i] \in Message
    BY DEF SInv, TypeInv
  <2>2. ASSUME \A s \in Shards : sequence[s] >= ShardSize(s), NEW r \in Records
        PROVE  \E i \in 1..Len(queue) : queue[i].record = r
    <3>1. PICK s \in Shards : \E n \in Nat : n < ShardSize(s) /\ RecordAt(s, n) = r
      BY RecordReached
    <3>2. PICK n \in Nat : n < ShardSize(s) /\ RecordAt(s, n) = r
      BY <3>1
    <3>3. n < sequence[s]
      <4>1. sequence[s] \in Nat /\ ShardSize(s) \in Nat /\ sequence[s] >= ShardSize(s)
        BY <2>2, ShardFacts, StreamerAssumption DEF SInv, TypeInv
      <4> QED  BY <3>2, <4>1
    <3>4. PICK i \in DOMAIN queue : queue[i].shard = s /\ queue[i].seq = n
      BY <3>3 DEF SInv, StoredUpTo
    <3>5. queue[i].record = RecordAt(s, n)
      BY <3>4 DEF SInv, MsgInv
    <3> QED  BY <2>1, <3>2, <3>4, <3>5
  <2>3. ASSUME NEW i \in DOMAIN queue
        PROVE  queue[i].record % ShardCount = queue[i].shard
    <3>1. /\ queue[i].record = RecordAt(queue[i].shard, queue[i].seq)
          /\ queue[i].shard \in Shards /\ queue[i].seq \in Nat
      BY <2>1 DEF SInv, MsgInv, Message
    <3> QED  BY <3>1, RecordChosen DEF InShard
  <2> QED  BY <2>1, <2>2, <2>3 DEF CycleComplete
<1> QED  BY <1>1, Invariance, PTL

(* What is stored follows what is in front of it, and what is late follows *)
(* what is stored.                                                         *)
Preceded ==
    /\ \A i \in 1..Len(queue) : Follows(queue[i], i)
    /\ \A m \in late : Follows(m, Len(queue) + 1)

(* The message of an attempt follows what is stored: Stream went on to its *)
(* record when the one before was answered with 202.                       *)
LEMMA AttemptFollows ==
    ASSUME SInv, NEW s \in Shards, pc[s] = "publishing"
    PROVE  Follows(QueueMessage(s), Len(queue) + 1)
<1> DEFINE q == QueueMessage(s)
<1>1. q.shard = s /\ q.epoch = epoch[s] /\ q.seq = sequence[s]
  BY AttemptMessage
<1>2. sequence[s] \in Nat /\ Len(queue) \in Nat /\ DOMAIN queue = 1..Len(queue)
  BY StreamerAssumption DEF SInv, TypeInv
<1> HIDE DEF q
<1> SUFFICES ASSUME q.seq > 0
             PROVE  \E j \in 1..(Len(queue) + 1 - 1) :
                       queue[j].shard = q.shard /\ queue[j].epoch = q.epoch /\ queue[j].seq = q.seq - 1
  BY DEF Follows, q
<1>3. sequence[s] - 1 \in Nat /\ sequence[s] - 1 < sequence[s]
  BY <1>1, <1>2
<1>4. PICK j \in DOMAIN queue :
         queue[j].shard = s /\ queue[j].epoch = epoch[s] /\ queue[j].seq = sequence[s] - 1
  BY <1>3 DEF SInv, StoredUpTo
<1>5. j \in 1..(Len(queue) + 1 - 1)
  BY <1>2
<1> QED  BY <1>1, <1>4, <1>5

(* Storing a message that follows what is stored.                          *)
LEMMA PrecededGrows ==
    ASSUME SInv, Preceded, NEW q \in Message, queue' = Append(queue, q), late' \subseteq late,
           Follows(q, Len(queue) + 1)
    PROVE  Preceded'
<1>1. /\ Len(queue) \in Nat /\ Len(queue') = Len(queue) + 1
      /\ queue'[Len(queue) + 1] = q
      /\ \A i \in 1..Len(queue) : queue'[i] = queue[i]
  BY DEF SInv, TypeInv
<1>2. ASSUME NEW i \in 1..Len(queue') PROVE Follows(queue[i], i)'
  <2>1. i \in 1..Len(queue) \/ i = Len(queue) + 1
    BY <1>1
  <2>2. CASE i \in 1..Len(queue)
    <3>1. Follows(queue[i], i) /\ queue'[i] = queue[i]
      BY <1>1, <2>2 DEF Preceded
    <3>2. \A j \in 1..(i - 1) : j \in 1..Len(queue) /\ queue'[j] = queue[j]
      BY <1>1, <2>2
    <3> QED  BY <3>1, <3>2 DEF Follows
  <2>3. CASE i = Len(queue) + 1
    <3>1. queue'[i] = q /\ Follows(q, i)
      BY <1>1, <2>3
    <3>2. \A j \in 1..(i - 1) : j \in 1..Len(queue) /\ queue'[j] = queue[j]
      BY <1>1, <2>3
    <3> QED  BY <3>1, <3>2 DEF Follows
  <2> QED  BY <2>1, <2>2, <2>3
<1>3. ASSUME NEW m \in late' PROVE Follows(m, Len(queue) + 1)'
  <2>1. Follows(m, Len(queue) + 1)
    BY DEF Preceded
  <2>2. \A j \in 1..(Len(queue) + 1 - 1) :
           /\ j \in 1..Len(queue) /\ queue'[j] = queue[j]
           /\ j \in 1..(Len(queue') + 1 - 1)
    BY <1>1
  <2> QED  BY <2>1, <2>2 DEF Follows
<1> QED  BY <1>2, <1>3 DEF Preceded

(* A step that stores nothing, and leaves at most the attempt to itself.   *)
LEMMA PrecededStays ==
    ASSUME SInv, Preceded, queue' = queue,
           \A m \in late' : m \in late \/ \E s \in Shards : pc[s] = "publishing" /\ m = QueueMessage(s)
    PROVE  Preceded'
<1>1. \A m \in late' : Follows(m, Len(queue) + 1)
  BY AttemptFollows DEF Preceded
<1> QED  BY <1>1 DEF Preceded, Follows

LEMMA PrecededStep == SInv /\ Preceded /\ [Next]_vars => Preceded'
<1> SUFFICES ASSUME SInv, Preceded, [Next]_vars
             PROVE  Preceded'
  OBVIOUS
<1>1. ASSUME NEW s \in Shards, Publish(s) \/ Wake(s) \/ Refused(s) PROVE Preceded'
  BY <1>1, PrecededStays DEF Publish, Wake, Refused
<1>2. ASSUME NEW s \in Shards, Errored(s) \/ Timeout(s) \/ Restart(s) PROVE Preceded'
  BY <1>2, PrecededStays DEF Errored, Timeout, LeftOpen, Restart
<1>3. ASSUME NEW s \in Shards, Accepted(s) PROVE Preceded'
  <2>1. pc[s] = "publishing" /\ queue' = Append(queue, QueueMessage(s)) /\ late' = late
    BY <1>3 DEF Accepted
  <2>2. QueueMessage(s) \in Message /\ Follows(QueueMessage(s), Len(queue) + 1)
    BY <2>1, AttemptMessage, AttemptFollows
  <2> QED  BY <2>1, <2>2, PrecededGrows
<1>4. ASSUME NEW m \in late, Arrive(m) PROVE Preceded'
  <2>1. late' \subseteq late /\ (queue' = queue \/ queue' = Append(queue, m))
    BY <1>4 DEF Arrive
  <2>2. m \in Message /\ Follows(m, Len(queue) + 1)
    BY DEF SInv, TypeInv, Preceded
  <2> QED  BY <2>1, <2>2, PrecededGrows, PrecededStays
<1>5. CASE UNCHANGED vars
  BY <1>5, PrecededStays DEF vars
<1> QED  BY <1>1, <1>2, <1>3, <1>4, <1>5 DEF Next, ShardStep, Exhausted

(* Whatever times out, fails half way or restarts, a record is stored only *)
(* after the one before it; while every failed publish was refused, the    *)
(* rows of a shard are stored once each.                                   *)
THEOREM OrderKept == Spec => []InOrderOnce
<1>1. Init => Preceded
  BY DEF Init, Preceded
<1>2. SInv /\ Preceded => InOrderOnce
  <2> SUFFICES ASSUME SInv, Preceded
               PROVE  InOrderOnce
    OBVIOUS
  <2>1. DOMAIN queue = 1..Len(queue)
    BY DEF SInv, TypeInv
  <2> QED  BY <2>1 DEF SInv, Preceded, OrderInv, Refusals, InOrderOnce
<1> QED  BY <1>1, <1>2, PrecededStep, Invariance, PTL DEF Spec

(* A streamer never gives one ID to two messages, whatever is retried,     *)
(* late or begun again.                                                    *)
THEOREM IDsUnique == Spec => []UniqueIDs
<1>1. SInv => UniqueIDs
  <2> SUFFICES ASSUME SInv
               PROVE  UniqueIDs
    OBVIOUS
  <2>1. DOMAIN queue = 1..Len(queue)
    BY DEF SInv, TypeInv
  <2> QED  BY <2>1 DEF SInv, Distinct, SameTime, UniqueIDs, MessageID
<1> QED  BY <1>1, Invariance, PTL
=============================================================================
