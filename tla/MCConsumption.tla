--------------------------- MODULE MCConsumption ---------------------------
(* Instances of Consumption for TLC.  Topic "gpu" is the telemetry topic;   *)
(* "cpu" is another topic that shares the partitions.                       *)
EXTENDS Consumption, TLC

CONSTANTS n1, c1, c2, g1, g2, m1, m2, m3

(* One group of two processors.                                             *)
OneGroup == (c1 :> g1) @@ (c2 :> g1)

(* Two groups that consume the same topic, one processor each.              *)
TwoGroups == (c1 :> g1) @@ (c2 :> g2)

AllGpu == [k \in Keys |-> "gpu"]

(* The second message belongs to another topic.                             *)
MixedTopics == [m \in Messages |-> IF m = m2 THEN "cpu" ELSE "gpu"]

SinglePartition == [m \in Messages |-> 1]
SingleLeader == [p \in Partitions |-> n1]
=============================================================================
