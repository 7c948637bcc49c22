--------------------------- MODULE ConsumerState ---------------------------
(***************************************************************************)
(* consumerState of internal/queue/runtime.go: for each consumer key       *)
(* (topic and group) and partition the next offset and the delivery in     *)
(* flight, and one map from message ID to delivery.  Each operation below  *)
(* is one critical section of consumerState.mu.  Every queue node keeps    *)
(* this state, in memory only, for the partitions it leads: next and cur   *)
(* are split between the nodes by partition, inflight by the partition of  *)
(* the delivery.                                                           *)
(***************************************************************************)
EXTENDS Integers, FiniteSets

CONSTANTS
    Keys,        \* consumer keys: one for each topic and group in use
    Partitions,  \* partition IDs
    Messages,    \* message IDs
    None         \* Go's nil, and the absence of a map entry

ASSUME ConsumerAssumption ==
    /\ Partitions \subseteq Int
    /\ Partitions # {}
    /\ None \notin Messages

VARIABLES
    next,     \* next[k][p]: partitionConsumerState.nextOffset
    cur,      \* cur[k][p]: message ID of partitionConsumerState.inflight, or None
    inflight  \* inflight[m]: consumerState.inflight[m], a delivery, or None

consumerVars == <<next, cur, inflight>>

Delivery == [key : Keys, part : Partitions, off : Nat]

ASSUME NoneAssumption == None \notin Delivery

ConsumerTypeOK ==
    /\ next \in [Keys -> [Partitions -> Nat]]
    /\ cur \in [Keys -> [Partitions -> Messages \union {None}]]
    /\ inflight \in [Messages -> Delivery \union {None}]

ConsumerInit ==
    /\ next = [k \in Keys |-> [p \in Partitions |-> 0]]
    /\ cur = [k \in Keys |-> [p \in Partitions |-> None]]
    /\ inflight = [m \in Messages |-> None]

M_SkipOneTooFar(k, p, n) ==
    /\ next' = IF cur[k][p] = None THEN [next EXCEPT ![k][p] = n + 1] ELSE next
    /\ UNCHANGED <<cur, inflight>>

(* skip: move on to offset n unless a delivery is in flight.  The current  *)
(* next offset is not looked at.                                           *)
Skip(k, p, n) ==
    /\ next' = IF cur[k][p] = None THEN [next EXCEPT ![k][p] = n] ELSE next
    /\ UNCHANGED <<cur, inflight>>

M_MarkInflightAnyway(k, p, o, m) ==
    /\ cur' = [cur EXCEPT ![k][p] = m]
    /\ inflight' = [inflight EXCEPT ![m] = [key |-> k, part |-> p, off |-> o]]
    /\ UNCHANGED next

(* markInflight when it returns true: record the delivery of m at offset o *)
(* in the partition and in the map.  Nothing compares o with the next      *)
(* offset.                                                                 *)
MarkInflight(k, p, o, m) ==
    /\ cur[k][p] = None
    /\ cur' = [cur EXCEPT ![k][p] = m]
    /\ inflight' = [inflight EXCEPT ![m] = [key |-> k, part |-> p, off |-> o]]
    /\ UNCHANGED next

M_AckLeavesCur(m) ==
    LET d == inflight[m] IN
    IF d = None THEN UNCHANGED consumerVars
    ELSE /\ inflight' = [inflight EXCEPT ![m] = None]
         /\ cur' = cur
         /\ next' = [next EXCEPT ![d.key][d.part] = d.off + 1]

M_AckLeavesEntry(m) ==
    LET d == inflight[m] IN
    IF d = None THEN UNCHANGED consumerVars
    ELSE /\ inflight' = inflight
         /\ cur' = [cur EXCEPT ![d.key][d.part] = None]
         /\ next' = [next EXCEPT ![d.key][d.part] = d.off + 1]

(* ack: an unknown ID is refused.  An entry its partition no longer backs  *)
(* is dropped and refused.  Otherwise the delivery ends and its partition  *)
(* goes on behind it.                                                      *)
Ack(m) ==
    LET d == inflight[m] IN
    IF d = None THEN UNCHANGED consumerVars
    ELSE /\ inflight' = [inflight EXCEPT ![m] = None]
         /\ IF cur[d.key][d.part] # m
            THEN UNCHANGED <<next, cur>>
            ELSE /\ cur' = [cur EXCEPT ![d.key][d.part] = None]
                 /\ next' = [next EXCEPT ![d.key][d.part] = d.off + 1]

(* The process that leads the partitions ps stops: its state is lost.      *)
Forget(ps) ==
    /\ next' = [k \in Keys |-> [p \in Partitions |-> IF p \in ps THEN 0 ELSE next[k][p]]]
    /\ cur' = [k \in Keys |-> [p \in Partitions |-> IF p \in ps THEN None ELSE cur[k][p]]]
    /\ inflight' = [m \in Messages |->
          IF inflight[m] # None /\ inflight[m].part \in ps THEN None ELSE inflight[m]]

(* Runtime.MetricsSnapshot: queue_inflight_messages, the size of the map.  *)
InflightCount == Cardinality({m \in Messages : inflight[m] # None})

(* Runtime.Stats: the partitions that show a delivery in flight,           *)
(* queue_consumer_inflight.                                                *)
InflightPartitions == {x \in Keys \X Partitions : cur[x[1]][x[2]] # None}

(* Every entry of the message map is backed by its partition: ack's second *)
(* refusal, for an entry the partition does not back, never happens.       *)
InflightBacked ==
    \A m \in Messages : inflight[m] # None =>
        cur[inflight[m].key][inflight[m].part] = m

(* The two records of deliveries agree: the gauge of messages in flight is *)
(* the number of partitions that show one, so no partition waits for the   *)
(* ack of a message that the map has lost.                                 *)
StatsAgree == InflightCount = Cardinality(InflightPartitions)
=============================================================================
