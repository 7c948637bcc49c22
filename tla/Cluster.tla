------------------------------ MODULE Cluster ------------------------------
(***************************************************************************)
(* Queue pods that start, discover each other and route publishes.  A pod  *)
(* lists the running pods until it sees replication.factor of them, keeps  *)
(* that list for its lifetime and derives from it, alone, which pod leads  *)
(* each partition (AssignPartitions).  PublishHandler serves a request on  *)
(* the partition's leader and forwards it from any other pod to the pod    *)
(* that one takes for the leader.                                          *)
(***************************************************************************)
EXTENDS Integers, FiniteSets

CONSTANTS
    Pods,            \* pods, numbered in the order of their sorted names
    Factor,          \* replication.factor
    PartitionCount,  \* queue.partitions
    Requests,        \* publish requests
    RequestPartition, \* RequestPartition[r]: the partition r is routed to
    None,            \* nowhere
    MaxStops,        \* bound: pods that stop
    MaxHops          \* bound: forwards of a request before its client gives up

ASSUME ClusterAssumption ==
    /\ Pods \subseteq Int
    /\ IsFiniteSet(Pods)
    /\ Factor \in Nat \ {0}
    /\ PartitionCount \in Nat \ {0}
    /\ RequestPartition \in [Requests -> 0..(PartitionCount - 1)]
    /\ None \notin Pods
    /\ MaxStops \in Nat
    /\ MaxHops \in Nat

VARIABLES
    running,  \* the pods in phase Running
    view,     \* view[n]: the pods n discovered; {} until its server starts
    at,       \* at[r]: the pod that has request r, or None
    hops,     \* hops[r]: how often r was forwarded
    result,   \* result[r]: "none", "accepted" or "failed"
    home,     \* home[r]: the pod whose log has r, or None
    stops     \* pods stopped so far

vars == <<running, view, at, hops, result, home, stops>>

Partitions == 0..(PartitionCount - 1)

-----------------------------------------------------------------------------
(* AssignPartitions over the sorted list of a set of pods.                 *)

(* The position of pod n in the sorted list of the pods V, from 0.         *)
Index(V, n) == Cardinality({m \in V : m < n})

FactorFor(V) == IF Factor > Cardinality(V) THEN Cardinality(V) ELSE Factor

M_ReplicaOf(V, p, i) ==
    CHOOSE n \in V : Index(V, n) = (p * i) % Cardinality(V)

(* Replica i of partition p: round-robin from node p.                      *)
ReplicaOf(V, p, i) ==
    CHOOSE n \in V : Index(V, n) = (p + i) % Cardinality(V)

ReplicasOf(V, p) == {ReplicaOf(V, p, i) : i \in 0..(FactorFor(V) - 1)}

(* Replica 0 leads.                                                        *)
LeaderOf(V, p) == ReplicaOf(V, p, 0)

(* Pod n serves requests: discovery is over.                               *)
Serving(n) == n \in running /\ view[n] # {}

IsLeader(n, p) == view[n] # {} /\ LeaderOf(view[n], p) = n

-----------------------------------------------------------------------------

TypeInv ==
    /\ running \subseteq Pods
    /\ view \in [Pods -> SUBSET Pods]
    /\ at \in [Requests -> Pods \union {None}]
    /\ hops \in [Requests -> 0..MaxHops]
    /\ result \in [Requests -> {"none", "accepted", "failed"}]
    /\ home \in [Requests -> Pods \union {None}]
    /\ stops \in 0..MaxStops

Init ==
    /\ running = {}
    /\ view = [n \in Pods |-> {}]
    /\ at = [r \in Requests |-> None]
    /\ hops = [r \in Requests |-> 0]
    /\ result = [r \in Requests |-> "none"]
    /\ home = [r \in Requests |-> None]
    /\ stops = 0

(* Kubernetes starts a pod.                                                *)
Start(n) ==
    /\ n \notin running
    /\ running' = running \union {n}
    /\ UNCHANGED <<view, at, hops, result, home, stops>>

M_DiscoverEarly(n) ==
    /\ n \in running
    /\ view[n] = {}
    /\ Cardinality(running) >= Factor - 1
    /\ view' = [view EXCEPT ![n] = running]
    /\ UNCHANGED <<running, at, hops, result, home, stops>>

(* discoverCluster on pod n sees enough running pods; run assigns the      *)
(* partitions over them and starts the server.                             *)
Discover(n) ==
    /\ n \in running
    /\ view[n] = {}
    /\ Cardinality(running) >= Factor
    /\ view' = [view EXCEPT ![n] = running]
    /\ UNCHANGED <<running, at, hops, result, home, stops>>

(* A pod stops or is deleted; requests it has fail.                        *)
Stop(n) ==
    /\ n \in running
    /\ stops < MaxStops
    /\ stops' = stops + 1
    /\ running' = running \ {n}
    /\ view' = [view EXCEPT ![n] = {}]
    /\ result' = [r \in Requests |-> IF at[r] = n THEN "failed" ELSE result[r]]
    /\ at' = [r \in Requests |-> IF at[r] = n THEN None ELSE at[r]]
    /\ UNCHANGED <<hops, home>>

(* A streamer's publish reaches pod n through the service.                 *)
Arrive(r, n) ==
    /\ result[r] = "none"
    /\ at[r] = None
    /\ Serving(n)
    /\ at' = [at EXCEPT ![r] = n]
    /\ UNCHANGED <<running, view, hops, result, home, stops>>

M_AcceptNoAnswer(r) ==
    LET n == at[r]  p == RequestPartition[r] IN
    /\ n # None
    /\ IsLeader(n, p)
    /\ home' = [home EXCEPT ![r] = n]
    /\ at' = [at EXCEPT ![r] = None]
    /\ UNCHANGED <<running, view, hops, result, stops>>

(* The pod that has r leads the partition: Runtime.Publish takes it.       *)
Accept(r) ==
    LET n == at[r]  p == RequestPartition[r] IN
    /\ n # None
    /\ IsLeader(n, p)
    /\ result' = [result EXCEPT ![r] = "accepted"]
    /\ home' = [home EXCEPT ![r] = n]
    /\ at' = [at EXCEPT ![r] = None]
    /\ UNCHANGED <<running, view, hops, stops>>

(* Runtime.Publish fails (503 without a quorum, 500 when an append fails): *)
(* a failed sync may leave r in the log of the leader.                     *)
Refuse(r) ==
    LET n == at[r]  p == RequestPartition[r] IN
    /\ n # None
    /\ IsLeader(n, p)
    /\ result' = [result EXCEPT ![r] = "failed"]
    /\ \E h \in {n, home[r]} : home' = [home EXCEPT ![r] = h]
    /\ at' = [at EXCEPT ![r] = None]
    /\ UNCHANGED <<running, view, hops, stops>>

M_ForwardToSuccessor(r) ==
    LET n == at[r]  p == RequestPartition[r] IN
    /\ n # None
    /\ ~IsLeader(n, p)
    /\ hops[r] < MaxHops
    /\ LET l == ReplicaOf(view[n], p, 1) IN
       /\ Serving(l)
       /\ at' = [at EXCEPT ![r] = l]
       /\ hops' = [hops EXCEPT ![r] = @ + 1]
    /\ UNCHANGED <<running, view, result, home, stops>>

(* It does not: forwardToLeader sends r to the leader it knows of.  Nothing *)
(* tells a forwarded request from a new one.                               *)
Forward(r) ==
    LET n == at[r]  p == RequestPartition[r] IN
    /\ n # None
    /\ ~IsLeader(n, p)
    /\ hops[r] < MaxHops
    /\ LET l == LeaderOf(view[n], p) IN
       /\ Serving(l)
       /\ at' = [at EXCEPT ![r] = l]
       /\ hops' = [hops EXCEPT ![r] = @ + 1]
    /\ UNCHANGED <<running, view, result, home, stops>>

(* The leader is gone from the list (ErrLeaderNotFound, 500) or does not   *)
(* answer (502), or the client's timeout ends a chain of forwards.         *)
Fail(r) ==
    LET n == at[r]  p == RequestPartition[r] IN
    /\ n # None
    /\ ~IsLeader(n, p)
    /\ ~Serving(LeaderOf(view[n], p)) \/ hops[r] = MaxHops
    /\ result' = [result EXCEPT ![r] = "failed"]
    /\ at' = [at EXCEPT ![r] = None]
    /\ UNCHANGED <<running, view, hops, home, stops>>

Handle(r) == Accept(r) \/ Refuse(r) \/ Forward(r) \/ Fail(r)

(* Every pod serves and every request has its answer.                      *)
Settled ==
    /\ \A n \in Pods : Serving(n)
    /\ \A r \in Requests : result[r] # "none"
    /\ UNCHANGED vars

Next ==
    \/ \E n \in Pods : Start(n) \/ Discover(n) \/ Stop(n)
    \/ \E r \in Requests : Handle(r) \/ \E n \in Pods : Arrive(r, n)
    \/ Settled

Spec == Init /\ [][Next]_vars

(* Kubernetes keeps starting pods (podManagementPolicy: Parallel), a pod   *)
(* lists the others every second, and handlers run.                        *)
Fairness ==
    /\ \A n \in Pods : WF_vars(Start(n)) /\ WF_vars(Discover(n))
    /\ \A r \in Requests : WF_vars(Handle(r))
    /\ \A r \in Requests : WF_vars(\E n \in Pods : Arrive(r, n))

FairSpec == Spec /\ Fairness

-----------------------------------------------------------------------------
(* Properties.                                                             *)

(* Types; and a pod serves only with itself in its list, and with as many  *)
(* different replicas of every partition as the factor asks for: the       *)
(* round-robin of AssignPartitions meets no pod twice.                     *)
TypeOK ==
    /\ TypeInv
    /\ \A n \in Pods : view[n] # {} =>
          /\ n \in view[n]
          /\ \A p \in Partitions : Cardinality(ReplicasOf(view[n], p)) = Factor

(* No two pods take themselves for the leader of the same partition, and   *)
(* its messages are stored by one pod, whatever pods stopped and started   *)
(* in between: one log holds the messages of the partition.                *)
UniqueLeader ==
    /\ \A p \in Partitions, n, m \in Pods :
          IsLeader(n, p) /\ IsLeader(m, p) => n = m
    /\ \A r, s \in Requests :
          /\ home[r] # None
          /\ home[s] # None
          /\ RequestPartition[r] = RequestPartition[s]
          => home[r] = home[s]

(* The pod a request is forwarded to serves it: no request is forwarded    *)
(* twice.                                                                  *)
ForwardedOnce == \A r \in Requests : hops[r] <= 1

(* Once its pods are up a cluster serves, and answers every publish.       *)
EveryRequestAnswered ==
    \A r \in Requests : <>(result[r] # "none")
=============================================================================
