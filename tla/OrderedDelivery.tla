-------------------------- MODULE OrderedDelivery --------------------------
(***************************************************************************)
(* What the queue and its processors promise together, without offsets,    *)
(* deliveries and acknowledgements: messages are appended to the logs of   *)
(* their partitions, and a consumer key stores the messages of its topic   *)
(* in the order of each log, the next one only when every earlier one has  *)
(* been stored.  Storing a message again changes nothing here.             *)
(***************************************************************************)
EXTENDS Integers, Sequences, Functions

CONSTANTS
    Keys,        \* consumer keys
    Partitions,  \* partition IDs
    Messages,    \* messages
    KeyTopic,    \* KeyTopic[k]: the topic of consumer key k
    MsgTopic     \* MsgTopic[m]: the topic of message m

VARIABLES
    log,     \* log[p]: the messages of partition p
    stored   \* <<k, m>>: key k has stored m

vars == <<log, stored>>

Init ==
    /\ log = [p \in Partitions |-> <<>>]
    /\ stored = {}

(* A publish is accepted: its message is new, in all partitions.           *)
AppendMessage(p, m) ==
    /\ \A q \in Partitions : m \notin Range(log[q])
    /\ log' = [log EXCEPT ![p] = Append(@, m)]
    /\ UNCHANGED stored

(* Key k stores message i of partition p.                                  *)
Store(k, p, i) ==
    /\ MsgTopic[log[p][i]] = KeyTopic[k]
    /\ \A j \in 1..(i - 1) : MsgTopic[log[p][j]] = KeyTopic[k] => <<k, log[p][j]>> \in stored
    /\ stored' = stored \union {<<k, log[p][i]>>}
    /\ UNCHANGED log

Next ==
    \/ \E p \in Partitions, m \in Messages : AppendMessage(p, m)
    \/ \E k \in Keys, p \in Partitions : \E i \in DOMAIN log[p] : Store(k, p, i)

Spec == Init /\ [][Next]_vars

-----------------------------------------------------------------------------

(* When a key has stored a message of a partition, it has stored every     *)
(* earlier one of its topic there: Postgres never shows a gap.             *)
StoredInOrder ==
    \A k \in Keys, p \in Partitions : \A i \in DOMAIN log[p] :
        <<k, log[p][i]>> \in stored =>
            \A j \in 1..(i - 1) : MsgTopic[log[p][j]] = KeyTopic[k] => <<k, log[p][j]>> \in stored
=============================================================================
