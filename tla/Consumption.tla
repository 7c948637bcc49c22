---------------------------- MODULE Consumption ----------------------------
(***************************************************************************)
(* The consuming half of the system: queue nodes that serve GET /consume   *)
(* and POST /ack from their consumerState and the logs of the partitions   *)
(* they lead, and processors that run Runner.RunOnce (consume, insert into *)
(* Postgres, acknowledge) against a service that reaches any queue node.   *)
(* pollPartition is not one critical section: it reads the next offset,    *)
(* reads the log and marks the delivery in three, and polls of one group   *)
(* interleave between them.                                                *)
(***************************************************************************)
EXTENDS ConsumerState, Sequences, FiniteSets, Functions

CONSTANTS
    Nodes,        \* queue nodes
    LeaderOf,     \* LeaderOf[p]: the node that leads partition p
    Processors,   \* processor replicas
    KeyOf,        \* KeyOf[c]: the topic and group processor c consumes
    KeyTopic,     \* KeyTopic[k]: the topic of consumer key k
    MsgTopic,     \* MsgTopic[m]: the topic of message m
    PartitionOf,  \* PartitionOf[m]: the partition m is routed to
    FaultKinds,   \* the faults this instance may meet
    MaxFaults     \* bound: how many of them

ASSUME ConsumptionAssumption ==
    /\ LeaderOf \in [Partitions -> Nodes]
    /\ KeyOf \in [Processors -> Keys]
    /\ DOMAIN KeyTopic = Keys
    /\ DOMAIN MsgTopic = Messages
    /\ PartitionOf \in [Messages -> Partitions]
    /\ MaxFaults \in Nat
    /\ FaultKinds \subseteq {"process", "ack", "restart"}

VARIABLES
    log,     \* log[p]: the log of partition p at its leader
    pc,      \* pc[c]: where RunOnce of processor c, or its poll, is
    at,      \* at[c]: the partition being polled or delivered from
    off,     \* off[c]: the offset pollPartition read
    msg,     \* msg[c]: the message pollPartition read or delivered
    late,    \* acks on their way that their processor stopped waiting for
    stored,  \* <<k, m>>: a processor of key k has inserted m into Postgres
    faults   \* the kinds of the faults so far, in order

procVars == <<pc, at, off, msg>>
vars == <<consumerVars, log, procVars, late, stored, faults>>

Polling == {"next", "read", "skip", "mark"}
Holding == {"deliver", "ack"}
PCs == {"idle"} \union Polling \union Holding

Wanted(k, m) == KeyTopic[k] = MsgTopic[m]

TypeInv ==
    /\ ConsumerTypeOK
    /\ log \in [Partitions -> Seq(Messages)]
    /\ pc \in [Processors -> PCs]
    /\ at \in [Processors -> Partitions]
    /\ off \in [Processors -> Nat]
    /\ msg \in [Processors -> Messages \union {None}]
    /\ late \subseteq Messages
    /\ stored \subseteq Keys \X Messages
    /\ faults \in Seq(FaultKinds)
    /\ Len(faults) <= MaxFaults

Init ==
    /\ ConsumerInit
    /\ log = [p \in Partitions |-> <<>>]
    /\ pc = [c \in Processors |-> "idle"]
    /\ at = [c \in Processors |-> CHOOSE p \in Partitions : TRUE]
    /\ off = [c \in Processors |-> 0]
    /\ msg = [c \in Processors |-> None]
    /\ late = {}
    /\ stored = {}
    /\ faults = <<>>

Fault(kind) ==
    /\ kind \in FaultKinds
    /\ Len(faults) < MaxFaults
    /\ faults' = Append(faults, kind)

LedBy(n) == {p \in Partitions : LeaderOf[p] = n}

-----------------------------------------------------------------------------

(* An accepted publish: PartitionStore.Append at the partition's leader.   *)
AppendMessage(m) ==
    LET p == PartitionOf[m] IN
    /\ m \notin Range(log[p])
    /\ log' = [log EXCEPT ![p] = Append(@, m)]
    /\ UNCHANGED <<consumerVars, procVars, late, stored, faults>>

(* The partition a poll comes to first among ps.                           *)
First(ps) == {p \in ps : \A q \in ps : p <= q}

(* RunOnce sends GET /consume; it reaches node n, which polls the          *)
(* partitions it leads in the order of their IDs.                          *)
Poll(c, n) ==
    /\ pc[c] = "idle"
    /\ pc' = [pc EXCEPT ![c] = "next"]
    /\ \E p \in First(LedBy(n)) : at' = [at EXCEPT ![c] = p]
    /\ UNCHANGED <<consumerVars, log, off, msg, late, stored, faults>>

(* The poll, or RunOnce, returns: its local variables are gone.             *)
Return(c) ==
    /\ pc' = [pc EXCEPT ![c] = "idle"]
    /\ off' = [off EXCEPT ![c] = 0]
    /\ msg' = [msg EXCEPT ![c] = None]

(* pollPartition found nothing to deliver: Poll goes on with the node's    *)
(* next partition, or answers 204 and the processor starts again.          *)
Later(c) == {p \in LedBy(LeaderOf[at[c]]) : p > at[c]}

NothingHere(c) ==
    \/ /\ Later(c) = {}
       /\ Return(c)
       /\ UNCHANGED at
    \/ /\ pc' = [pc EXCEPT ![c] = "next"]
       /\ \E p \in First(Later(c)) : at' = [at EXCEPT ![c] = p]
       /\ UNCHANGED <<off, msg>>

(* consumers.nextOffset: where to read, unless a delivery is in flight.    *)
NextOffset(c) ==
    LET k == KeyOf[c]  p == at[c] IN
    /\ pc[c] = "next"
    /\ IF cur[k][p] # None
       THEN NothingHere(c)
       ELSE /\ pc' = [pc EXCEPT ![c] = "read"]
            /\ off' = [off EXCEPT ![c] = next[k][p]]
            /\ UNCHANGED <<at, msg>>
    /\ UNCHANGED <<consumerVars, log, late, stored, faults>>

(* storage.Read: nothing at the offset, a message of another topic, or one *)
(* to deliver.                                                             *)
Read(c) ==
    LET k == KeyOf[c]  p == at[c] IN
    /\ pc[c] = "read"
    /\ IF off[c] >= Len(log[p])
       THEN NothingHere(c)
       ELSE LET m == log[p][off[c] + 1] IN
            /\ pc' = [pc EXCEPT ![c] = IF Wanted(k, m) THEN "mark" ELSE "skip"]
            /\ msg' = [msg EXCEPT ![c] = m]
            /\ UNCHANGED <<at, off>>
    /\ UNCHANGED <<consumerVars, log, late, stored, faults>>

(* consumers.skip past a message of another topic, and round the loop.     *)
SkipOther(c) ==
    /\ pc[c] = "skip"
    /\ Skip(KeyOf[c], at[c], off[c] + 1)
    /\ pc' = [pc EXCEPT ![c] = "next"]
    /\ UNCHANGED <<log, at, off, msg, late, stored, faults>>

(* consumers.markInflight: the message is delivered, unless another poll   *)
(* of the group has marked the partition since.                            *)
Mark(c) ==
    LET k == KeyOf[c]  p == at[c] IN
    /\ pc[c] = "mark"
    /\ \/ /\ MarkInflight(k, p, off[c], msg[c])
          /\ pc' = [pc EXCEPT ![c] = "deliver"]
          /\ UNCHANGED <<at, off, msg>>
       \/ /\ cur[k][p] # None
          /\ NothingHere(c)
          /\ UNCHANGED consumerVars
    /\ UNCHANGED <<log, late, stored, faults>>

M_InsertLater(c) ==
    /\ pc[c] = "deliver"
    /\ pc' = [pc EXCEPT ![c] = "ack"]
    /\ UNCHANGED <<consumerVars, log, at, off, msg, late, stored, faults>>

(* RunOnce decodes the record and store.Insert commits it.                 *)
Insert(c) ==
    /\ pc[c] = "deliver"
    /\ pc' = [pc EXCEPT ![c] = "ack"]
    /\ stored' = stored \union {<<KeyOf[c], msg[c]>>}
    /\ UNCHANGED <<consumerVars, log, at, off, msg, late, faults>>

(* POST /ack for m reaches node n: only the node that made the delivery    *)
(* has it in its map; any other answers 404.                               *)
AckAt(n, m) ==
    IF inflight[m] # None /\ LeaderOf[inflight[m].part] = n
    THEN Ack(m)
    ELSE UNCHANGED consumerVars

(* RunOnce ends with POST /ack.  Its outcome, 204 or 404, changes nothing  *)
(* for the processor but its log.                                          *)
SendAck(c, n) ==
    /\ pc[c] = "ack"
    /\ AckAt(n, msg[c])
    /\ Return(c)
    /\ UNCHANGED <<log, at, late, stored, faults>>

-----------------------------------------------------------------------------
(* Failures.                                                               *)

(* RunOnce fails before it acknowledges: storage.Read finds the request    *)
(* cancelled, the answer to GET /consume is lost, the record does not      *)
(* decode, Insert fails or the processor stops.  A message that was        *)
(* delivered is not acknowledged and nothing gives it back.                *)
GiveUp(c) ==
    /\ pc[c] \in {"read", "deliver"}
    /\ Fault("process")
    /\ Return(c)
    /\ UNCHANGED <<consumerVars, log, at, late, stored>>

(* POST /ack times out; it may still arrive.                               *)
AckTimeout(c) ==
    /\ pc[c] = "ack"
    /\ Fault("ack")
    /\ late' = late \union {msg[c]}
    /\ Return(c)
    /\ UNCHANGED <<consumerVars, log, at, stored>>

LateAck(m, n) ==
    /\ m \in late
    /\ late' = late \ {m}
    /\ AckAt(n, m)
    /\ UNCHANGED <<log, procVars, stored, faults>>

(* Queue node n stops and starts again: consumerState starts empty, polls  *)
(* it was serving fail.  Its logs are on disk, and processors keep what    *)
(* they were given.                                                        *)
Restart(n) ==
    LET served == {c \in Processors : pc[c] \in Polling /\ LeaderOf[at[c]] = n} IN
    /\ Fault("restart")
    /\ Forget(LedBy(n))
    /\ pc' = [c \in Processors |-> IF c \in served THEN "idle" ELSE pc[c]]
    /\ off' = [c \in Processors |-> IF c \in served THEN 0 ELSE off[c]]
    /\ msg' = [c \in Processors |-> IF c \in served THEN None ELSE msg[c]]
    /\ UNCHANGED <<log, at, late, stored>>

-----------------------------------------------------------------------------

PollStep(c) ==
    \/ NextOffset(c)
    \/ Read(c)
    \/ SkipOther(c)
    \/ Mark(c)

ProcessorStep(c) ==
    \/ \E n \in Nodes : Poll(c, n)
    \/ PollStep(c)
    \/ Insert(c)
    \/ \E n \in Nodes : SendAck(c, n)

Next ==
    \/ \E m \in Messages : AppendMessage(m)
    \/ \E c \in Processors : ProcessorStep(c) \/ GiveUp(c) \/ AckTimeout(c)
    \/ \E m \in Messages, n \in Nodes : LateAck(m, n)
    \/ \E n \in Nodes : Restart(n)

Spec == Init /\ [][Next]_vars

(* Processors loop for ever, and over time their requests reach every      *)
(* node of the service.  Nothing is assumed of faults and late acks.       *)
Fairness ==
    \A c \in Processors :
        /\ WF_vars(PollStep(c) \/ Insert(c) \/ \E n \in Nodes : SendAck(c, n))
        /\ \A n \in Nodes : SF_vars(Poll(c, n))

FairSpec == Spec /\ Fairness

-----------------------------------------------------------------------------
(* Properties.                                                             *)

(* The types of the state of consumerState, polls and processors; no group *)
(* is beyond the end of a log, and what a poll is about to deliver is what *)
(* the log holds at the offset it read.                                    *)
TypeOK ==
    /\ TypeInv
    /\ \A k \in Keys, p \in Partitions : next[k][p] <= Len(log[p])
    /\ \A c \in Processors : pc[c] \in {"skip", "mark"} =>
          /\ off[c] < Len(log[at[c]])
          /\ msg[c] = log[at[c]][off[c] + 1]
          /\ pc[c] = "mark" <=> Wanted(KeyOf[c], msg[c])

(* Key k has stored every message of its topic below offset n of p.        *)
DoneBelow(k, p, n) ==
    \A i \in 1..n : Wanted(k, log[p][i]) => <<k, log[p][i]>> \in stored

(* A group's next offset never passes a message of its topic that no       *)
(* processor of the group has stored: nothing is skipped by polls that     *)
(* overtake each other, by lost or late acks, or by a restart.             *)
NoMessageSkipped ==
    \A k \in Keys, p \in Partitions : DoneBelow(k, p, next[k][p])

(* Until a queue node restarts, and forgets what it delivered, at most one *)
(* processor of a group works on a partition at a time: late acks and      *)
(* polls that overtake each other do not hand it to a second one.          *)
ExclusiveDelivery ==
    "restart" \notin Range(faults) => \A c, d \in Processors :
        /\ pc[c] \in Holding
        /\ pc[d] \in Holding
        /\ KeyOf[c] = KeyOf[d]
        /\ at[c] = at[d]
        => c = d

(* Every message of a group's topic is stored by the group in the end,     *)
(* unless an attempt to process or to acknowledge a message fails: a queue *)
(* node that restarts delays it only.                                      *)
EventuallyStored ==
    \A k \in Range(KeyOf), m \in Messages : Wanted(k, m) =>
        (m \in Range(log[PartitionOf[m]]) ~>
            \/ <<k, m>> \in stored
            \/ {"process", "ack"} \intersect Range(faults) # {})

(* Polls, deliveries, acks and restarts together implement delivery in the *)
(* order of the log: no message is stored before an earlier one of its     *)
(* topic and partition, whatever overtakes what.                           *)
Ordered == INSTANCE OrderedDelivery WITH log <- log, stored <- stored

ImplementsOrderedDelivery == Ordered!Spec
=============================================================================
