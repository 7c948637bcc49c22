-------------------------- MODULE MCPartitionStore --------------------------
(* Instances of PartitionStore for TLC.                                     *)
EXTENDS PartitionStore, TLC

CONSTANTS x, y

Body(id, key, payload) == [id |-> id, topic |-> <<x>>, key |-> key, payload |-> payload]

(* Two messages without a routing key, one with, and a request without a    *)
(* payload, which is refused.                                               *)
SmallRequests ==
    {Body(<<x>>, <<>>, <<x, y>>), Body(<<y>>, <<y, y>>, <<y>>), Body(<<x, y>>, <<x>>, <<>>)}
=============================================================================
