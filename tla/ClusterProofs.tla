--------------------------- MODULE ClusterProofs ---------------------------
(***************************************************************************)
(* The assignment of partitions and the routing of publishes, for any      *)
(* number of pods, partitions and requests.  That the replicas of a        *)
(* partition are different pods holds always; that a partition has one     *)
(* leader needs as many pods as the replication factor, for only then do   *)
(* pods that discovered each other at different times have the same list.  *)
(***************************************************************************)
EXTENDS Cluster, Ranks

-----------------------------------------------------------------------------
(* AssignPartitions.                                                       *)

(* Replica i of a partition is the pod it is meant to be.                  *)
LEMMA ReplicaChosen ==
    ASSUME NEW V \in SUBSET Pods, V # {}, NEW p \in Nat, NEW i \in Nat
    PROVE  /\ ReplicaOf(V, p, i) \in V
           /\ Index(V, ReplicaOf(V, p, i)) = (p + i) % Cardinality(V)
<1>1. V \in SUBSET Int /\ IsFiniteSet(V)
  BY ClusterAssumption, FS_Subset
<1>2. Cardinality(V) \in Nat /\ Cardinality(V) > 0
  <2>1. Cardinality(V) \in Nat /\ Cardinality(V) # 0
    BY <1>1, FS_CardinalityType, FS_EmptySet
  <2> QED  BY <2>1
<1>3. (p + i) % Cardinality(V) \in 0..(Cardinality(V) - 1)
  BY <1>2
<1>4. \E n \in V : Index(V, n) = (p + i) % Cardinality(V)
  BY <1>1, <1>3, RankOnto DEF Index, Rank
<1> QED  BY <1>4 DEF ReplicaOf

(* The replicas of a partition are as many different pods as the factor    *)
(* asks for.                                                               *)
LEMMA ReplicasDistinct ==
    ASSUME NEW V \in SUBSET Pods, Cardinality(V) >= Factor, NEW p \in Nat
    PROVE  Cardinality(ReplicasOf(V, p)) = Factor
<1> DEFINE D == 0..(Factor - 1)
           f == [i \in D |-> ReplicaOf(V, p, i)]
<1>1. /\ Factor \in Nat /\ Factor > 0
      /\ IsFiniteSet(V) /\ Cardinality(V) \in Nat /\ V # {}
  <2>1. IsFiniteSet(V) /\ Cardinality(V) \in Nat /\ Cardinality({}) = 0
    BY ClusterAssumption, FS_Subset, FS_CardinalityType, FS_EmptySet
  <2>2. Factor \in Nat /\ Factor > 0
    BY ClusterAssumption
  <2> QED  BY <2>1, <2>2
<1>2. FactorFor(V) = Factor
  BY <1>1 DEF FactorFor
<1>3. IsFiniteSet(D) /\ Cardinality(D) = Factor
  <2>1. 0 \in Int /\ Factor - 1 \in Int /\ ~(0 > Factor - 1) /\ (Factor - 1) - 0 + 1 = Factor
    BY <1>1
  <2> QED  BY <2>1, FS_Interval
<1>4. ReplicasOf(V, p) = {ReplicaOf(V, p, i) : i \in D}
  BY <1>2 DEF ReplicasOf
<1>5. f \in Surjection(D, ReplicasOf(V, p))
  BY <1>4 DEF Surjection
<1>6. ASSUME NEW i \in D, NEW j \in D, ReplicaOf(V, p, i) = ReplicaOf(V, p, j)
      PROVE  i = j
  <2>1. /\ i \in Nat /\ j \in Nat
        /\ i \in 0..(Cardinality(V) - 1) /\ j \in 0..(Cardinality(V) - 1)
        /\ Cardinality(V) > 0
    BY <1>1
  <2>2. (p + i) % Cardinality(V) = (p + j) % Cardinality(V)
    BY <1>1, <1>6, <2>1, ReplicaChosen
  <2> QED  BY <1>1, <2>1, <2>2, RoundRobin
<1>7. f \in Injection(D, ReplicasOf(V, p))
  BY <1>4, <1>6 DEF Injection, IsInjective
<1> QED  BY <1>3, <1>5, <1>7, FS_Surjection

-----------------------------------------------------------------------------
(* Types and views.                                                        *)

(* A pod that serves has discovered itself and at least factor pods.       *)
ViewInv ==
    \A n \in Pods : view[n] # {} => n \in view[n] /\ Cardinality(view[n]) >= Factor

LInv == TypeInv /\ ViewInv

LEMMA LInvInit == Init => LInv
  BY ClusterAssumption DEF Init, LInv, TypeInv, ViewInv

LEMMA LInvStep == LInv /\ [Next]_vars => LInv'
<1> SUFFICES ASSUME LInv, [Next]_vars
             PROVE  LInv'
  OBVIOUS
<1> USE DEF LInv
<1>1. ASSUME NEW n \in Pods, Start(n)
      PROVE  LInv'
  BY <1>1 DEF Start, TypeInv, ViewInv
<1>2. ASSUME NEW n \in Pods, Discover(n)
      PROVE  LInv'
  <2>1. TypeInv'
    BY <1>2 DEF Discover, TypeInv
  <2>2. ViewInv'
    BY <1>2 DEF Discover, TypeInv, ViewInv
  <2> QED  BY <2>1, <2>2
<1>3. ASSUME NEW n \in Pods, Stop(n)
      PROVE  LInv'
  <2>1. TypeInv'
    BY <1>3, ClusterAssumption DEF Stop, TypeInv
  <2>2. ViewInv'
    BY <1>3 DEF Stop, TypeInv, ViewInv
  <2> QED  BY <2>1, <2>2
<1>4. ASSUME NEW r \in Requests, NEW n \in Pods, Arrive(r, n)
      PROVE  LInv'
  BY <1>4 DEF Arrive, TypeInv, ViewInv
<1>5. ASSUME NEW r \in Requests, Accept(r)
      PROVE  LInv'
  BY <1>5 DEF Accept, TypeInv, ViewInv
<1>6. ASSUME NEW r \in Requests, Forward(r)
      PROVE  LInv'
  <2>1. LeaderOf(view[at[r]], RequestPartition[r]) \in running
    BY <1>6 DEF Forward, Serving
  <2>2. TypeInv'
    <3>1. hops[r] + 1 \in 0..MaxHops
      BY <1>6, ClusterAssumption DEF Forward, TypeInv
    <3>2. at' \in [Requests -> Pods \union {None}]
      BY <1>6, <2>1 DEF Forward, TypeInv
    <3>3. hops' \in [Requests -> 0..MaxHops]
      BY <1>6, <3>1 DEF Forward, TypeInv
    <3> QED  BY <1>6, <3>2, <3>3 DEF Forward, TypeInv
  <2>3. ViewInv'
    BY <1>6 DEF Forward, ViewInv
  <2> QED  BY <2>2, <2>3
<1>7. ASSUME NEW r \in Requests, Fail(r)
      PROVE  LInv'
  BY <1>7 DEF Fail, TypeInv, ViewInv
<1>8. CASE UNCHANGED vars
  BY <1>8 DEF vars, TypeInv, ViewInv
<1>9. ASSUME NEW r \in Requests, Refuse(r)
      PROVE  LInv'
  BY <1>9 DEF Refuse, TypeInv, ViewInv
<1> QED  BY <1>1, <1>2, <1>3, <1>4, <1>5, <1>6, <1>7, <1>8, <1>9 DEF Next, Handle, Settled

(* Types; and the round-robin of AssignPartitions gives every partition of *)
(* a serving pod factor different replicas.                                *)
THEOREM TypeCorrect == Spec => []TypeOK
<1>1. LInv => TypeOK
  <2> SUFFICES ASSUME LInv, NEW n \in Pods, view[n] # {}, NEW p \in Partitions
               PROVE  n \in view[n] /\ Cardinality(ReplicasOf(view[n], p)) = Factor
    BY DEF LInv, TypeOK, ViewInv
  <2>1. view[n] \in SUBSET Pods /\ n \in view[n] /\ Cardinality(view[n]) >= Factor
    BY DEF LInv, TypeInv, ViewInv
  <2>2. p \in Nat
    BY ClusterAssumption DEF Partitions
  <2> QED  BY <2>1, <2>2, ReplicasDistinct
<1>2. Spec => []LInv
  BY LInvInit, LInvStep, PTL DEF Spec
<1> QED  BY <1>1, <1>2, PTL

-----------------------------------------------------------------------------
(* As many pods as the factor.                                             *)

Exact == Cardinality(Pods) = Factor

(* The leader all pods agree on.                                           *)
Leader(r) == LeaderOf(Pods, RequestPartition[r])

(* What is kept of a request: a pod that has it serves, has not answered   *)
(* it, and is its leader if the request was forwarded; only the leader     *)
(* accepted it.                                                            *)
RouteInv(r) ==
    /\ home[r] # None => home[r] = Leader(r)
    /\ hops[r] <= 1
    /\ at[r] # None =>
          /\ result[r] = "none"
          /\ view[at[r]] # {}
          /\ hops[r] = 0 \/ at[r] = Leader(r)
    /\ at[r] = None /\ result[r] = "none" => hops[r] = 0

ExactInv == LInv /\ \A r \in Requests : RouteInv(r)

(* Every pod that serves has the list of all pods.                         *)
LEMMA SameView ==
    ASSUME Exact, LInv, NEW n \in Pods, view[n] # {}
    PROVE  /\ view[n] = Pods
           /\ \A p : IsLeader(n, p) <=> LeaderOf(Pods, p) = n
<1>1. view[n] \in SUBSET Pods /\ Cardinality(view[n]) >= Factor
  BY DEF LInv, TypeInv, ViewInv
<1>2. /\ Cardinality(view[n]) <= Cardinality(Pods)
      /\ Cardinality(Pods) = Cardinality(view[n]) => Pods = view[n]
      /\ Cardinality(view[n]) \in Nat /\ Cardinality(Pods) \in Nat
  BY <1>1, ClusterAssumption, FS_Subset, FS_CardinalityType
<1>3. view[n] = Pods
  BY <1>1, <1>2 DEF Exact
<1> QED  BY <1>3 DEF IsLeader

LEMMA ExactStep ==
    ASSUME Exact, ExactInv, [Next]_vars
    PROVE  ExactInv'
<1>0. LInv /\ LInv' /\ \A r \in Requests : RouteInv(r)
  BY LInvStep DEF ExactInv
<1> SUFFICES ASSUME NEW r \in Requests
             PROVE  RouteInv(r)'
  BY <1>0 DEF ExactInv
<1>1. /\ at[r] \in Pods \union {None} /\ hops[r] \in Nat /\ None \notin Pods
      /\ Leader(r)' = Leader(r)
  BY <1>0, ClusterAssumption DEF LInv, TypeInv, Leader
<1>2. ASSUME NEW n \in Pods, Start(n)
      PROVE  RouteInv(r)'
  BY <1>0, <1>1, <1>2 DEF Start, RouteInv
<1>3. ASSUME NEW n \in Pods, Discover(n)
      PROVE  RouteInv(r)'
  <2>1. \A m \in Pods : view[m] # {} => view'[m] # {}
    BY <1>0, <1>3 DEF Discover, LInv, TypeInv
  <2> QED  BY <1>0, <1>1, <1>3, <2>1 DEF Discover, RouteInv
<1>4. ASSUME NEW n \in Pods, Stop(n)
      PROVE  RouteInv(r)'
  <2>1. CASE at[r] = n
    <3>1. at'[r] = None /\ result'[r] = "failed" /\ hops' = hops /\ home' = home
      BY <1>4, <2>1 DEF Stop
    <3> QED  BY <1>0, <1>1, <3>1 DEF RouteInv
  <2>2. CASE at[r] # n
    <3>1. /\ at'[r] = at[r] /\ result'[r] = result[r] /\ hops' = hops /\ home' = home
          /\ \A m \in Pods \ {n} : view'[m] = view[m]
      BY <1>0, <1>4, <2>2 DEF Stop, LInv, TypeInv
    <3> QED  BY <1>0, <1>1, <2>2, <3>1 DEF RouteInv
  <2> QED  BY <2>1, <2>2
<1>5. ASSUME NEW s \in Requests, NEW n \in Pods, Arrive(s, n)
      PROVE  RouteInv(r)'
  BY <1>0, <1>1, <1>5 DEF Arrive, Serving, RouteInv, LInv, TypeInv
<1>6. ASSUME NEW s \in Requests, Accept(s)
      PROVE  RouteInv(r)'
  <2>1. CASE s = r
    <3>1. at[r] = Leader(r)
      BY <1>0, <1>1, <1>6, <2>1, SameView DEF Accept, IsLeader, Leader
    <3>2. /\ at'[r] = None /\ result'[r] = "accepted" /\ hops' = hops
          /\ home'[r] = Leader(r)
      BY <1>0, <1>6, <2>1, <3>1 DEF Accept, LInv, TypeInv
    <3> QED  BY <1>0, <1>1, <3>2 DEF RouteInv
  <2>2. CASE s # r
    BY <1>0, <1>1, <1>6, <2>2 DEF Accept, RouteInv, LInv, TypeInv
  <2> QED  BY <2>1, <2>2
<1>7. ASSUME NEW s \in Requests, Forward(s)
      PROVE  RouteInv(r)'
  <2>1. CASE s = r
    <3>1. /\ at[r] \in Pods /\ view[at[r]] # {} /\ result[r] = "none"
          /\ hops[r] = 0 \/ at[r] = Leader(r)
      BY <1>0, <1>1, <1>7, <2>1 DEF Forward, RouteInv
    <3>2. view[at[r]] = Pods /\ at[r] # Leader(r)
      BY <1>0, <1>7, <2>1, <3>1, SameView DEF Forward, Leader
    <3>3. /\ at'[r] = Leader(r) /\ view[Leader(r)] # {} /\ Leader(r) \in Pods
          /\ hops'[r] = 1 /\ UNCHANGED <<result, home, view>>
      BY <1>0, <1>7, <2>1, <3>1, <3>2 DEF Forward, Serving, Leader, LInv, TypeInv
    <3> QED  BY <1>0, <1>1, <3>1, <3>3 DEF RouteInv
  <2>2. CASE s # r
    BY <1>0, <1>1, <1>7, <2>2 DEF Forward, RouteInv, LInv, TypeInv
  <2> QED  BY <2>1, <2>2
<1>8. ASSUME NEW s \in Requests, Fail(s)
      PROVE  RouteInv(r)'
  BY <1>0, <1>1, <1>8 DEF Fail, RouteInv, LInv, TypeInv
<1>9. CASE UNCHANGED vars
  BY <1>0, <1>1, <1>9 DEF vars, RouteInv
<1>10. ASSUME NEW s \in Requests, Refuse(s)
       PROVE  RouteInv(r)'
  <2>1. CASE s = r
    <3>1. at[r] = Leader(r)
      BY <1>0, <1>1, <1>10, <2>1, SameView DEF Refuse, IsLeader, Leader
    <3>2. /\ at'[r] = None /\ result'[r] = "failed" /\ hops' = hops
          /\ home'[r] \in {home[r], Leader(r)}
      BY <1>0, <1>10, <2>1, <3>1 DEF Refuse, LInv, TypeInv
    <3> QED  BY <1>0, <1>1, <3>2 DEF RouteInv
  <2>2. CASE s # r
    BY <1>0, <1>1, <1>10, <2>2 DEF Refuse, RouteInv, LInv, TypeInv
  <2> QED  BY <2>1, <2>2
<1> QED  BY <1>2, <1>3, <1>4, <1>5, <1>6, <1>7, <1>8, <1>9, <1>10 DEF Next, Handle, Settled

LEMMA ExactInvariance ==
    ASSUME Exact
    PROVE  Spec => []ExactInv
<1>1. Init => ExactInv
  BY LInvInit DEF Init, ExactInv, RouteInv
<1>2. ExactInv /\ [Next]_vars => ExactInv'
  BY ExactStep
<1> QED  BY <1>1, <1>2, PTL DEF Spec

(* With as many pods as the factor, whatever pods stop and start again, no *)
(* two take themselves for the leader of a partition, and all that was     *)
(* accepted for it was accepted by one pod.                                *)
THEOREM OneLeader ==
    ASSUME Exact
    PROVE  Spec => []UniqueLeader
<1>1. ExactInv => UniqueLeader
  <2> SUFFICES ASSUME ExactInv
               PROVE  UniqueLeader
    OBVIOUS
  <2>1. \A p \in Partitions, n, m \in Pods : IsLeader(n, p) /\ IsLeader(m, p) => n = m
    BY SameView DEF ExactInv, IsLeader
  <2>2. \A r, s \in Requests :
           /\ home[r] # None
           /\ home[s] # None
           /\ RequestPartition[r] = RequestPartition[s]
           => home[r] = home[s]
    BY DEF ExactInv, RouteInv, Leader
  <2> QED  BY <2>1, <2>2 DEF UniqueLeader
<1> QED  BY <1>1, ExactInvariance, PTL

(* And no request is forwarded twice.                                      *)
THEOREM NoSecondForward ==
    ASSUME Exact
    PROVE  Spec => []ForwardedOnce
<1>1. ExactInv => ForwardedOnce
  BY DEF ExactInv, RouteInv, ForwardedOnce
<1> QED  BY <1>1, ExactInvariance, PTL
=============================================================================
