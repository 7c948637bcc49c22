----------------------------- MODULE MCCluster -----------------------------
(* Instances of Cluster for TLC.                                            *)
EXTENDS Cluster

(* All requests are for partition 1.                                        *)
SamePartition == [r \in Requests |-> 1]
=============================================================================
