------------------------- MODULE ReplicationProofs -------------------------
(***************************************************************************)
(* Proofs about Replication, for any set of followers, any number of       *)
(* publishes and any required_follower_acks.                               *)
(***************************************************************************)
EXTENDS Replication, FiniteSetTheorems, TLAPS

(* A publish that has not started has sent nothing.                        *)
IdleIsFresh ==
    \A r \in Requests : pc[r] = "idle" =>
        \A f \in Followers : rpc[r][f] = "none" /\ res[r][f] = "none"

OffsetReached == \A r \in Requests : off[r] <= Len(log[Leader])

(* A record a follower applied is at the offset it was sent with.          *)
AppliedInPlace ==
    \A r \in Requests, f \in Followers : rpc[r][f] = "applied" =>
        off[r] < Len(log[f]) /\ log[f][off[r] + 1] = r

AckWasApplied ==
    \A r \in Requests, f \in Followers : res[r][f] = "ok" => rpc[r][f] = "applied"

QuorumCounted ==
    \A r \in Requests : pc[r] \in {"quorum", "appended", "accepted"} =>
        Cardinality(Acks(r)) >= Required

AcceptedInLog ==
    \A r \in Requests : pc[r] \in {"appended", "accepted"} =>
        \E i \in 1..Len(log[Leader]) : log[Leader][i] = r

(* The inductive invariant behind TypeOK, AcceptedOnQuorum, FollowerLead,  *)
(* StrandedForGood and WedgedForGood.                                      *)
IInv ==
    /\ TypeInv
    /\ IdleIsFresh
    /\ OffsetReached
    /\ AppliedInPlace
    /\ AckWasApplied
    /\ QuorumCounted
    /\ AcceptedInLog
    /\ FollowerLead

(* What appending one record to one node's log does.                       *)
LEMMA LogAppend ==
    ASSUME NEW L \in [Nodes -> Seq(Requests)],
           NEW n \in Nodes, NEW r \in Requests,
           NEW M, M = [L EXCEPT ![n] = Append(@, r)]
    PROVE  /\ M \in [Nodes -> Seq(Requests)]
           /\ Len(L[n]) \in Nat
           /\ Len(M[n]) = Len(L[n]) + 1
           /\ M[n][Len(L[n]) + 1] = r
           /\ \A i \in 1..Len(L[n]) : M[n][i] = L[n][i]
           /\ \A m \in Nodes : m # n => M[m] = L[m]
<1>1. L[n] \in Seq(Requests)
  OBVIOUS
<1>2. Append(L[n], r) \in Seq(Requests)
  BY <1>1
<1>3. M[n] = Append(L[n], r)
  OBVIOUS
<1>4. M \in [Nodes -> Seq(Requests)]
  BY <1>2
<1> QED  BY <1>1, <1>2, <1>3, <1>4

(* The initial state is well typed: empty logs, every node up.             *)
LEMMA TypeInit == Init => TypeInv
  BY ReplicationAssumption DEF Init, TypeInv, Nodes, PCs

(* Every step of a leader, a follower or the network keeps the types.      *)
LEMMA TypeStep == TypeInv /\ [Next]_vars => TypeInv'
<1> SUFFICES ASSUME TypeInv, [Next]_vars PROVE TypeInv'
    OBVIOUS
<1> USE ReplicationAssumption DEF TypeInv, Nodes, PCs
<1>1. CASE \E r \in Requests : Publish(r)
  <2> PICK r \in Requests : Publish(r)
      BY <1>1
  <2>1. Len(log[Leader]) \in Nat
    OBVIOUS
  <2>2. off' \in [Requests -> Nat]
    BY <2>1 DEF Publish, NextOffset
  <2>3. Threshold \in {"quorum", "rejected", "replicating"}
    BY DEF Threshold
  <2>4. pc' \in [Requests -> PCs]
    BY <2>3 DEF Publish
  <2>5. rpc' \in [Requests -> [Followers -> {"none", "sent", "applied", "refused", "lost"}]]
    BY DEF Publish
  <2> QED  BY <2>2, <2>4, <2>5 DEF Publish
<1>2. CASE \E r \in Requests : LeaderStep(r)
  <2> PICK r \in Requests : LeaderStep(r)
      BY <1>2
  <2>1. CASE Quorum(r)
    BY <2>1 DEF Quorum
  <2>2. CASE NoQuorum(r)
    BY <2>2 DEF NoQuorum
  <2>3. CASE AppendLocal(r)
    <3>1. log' \in [Nodes -> Seq(Requests)]
      <4>1. CASE r \in gone
        BY <2>3, <4>1 DEF AppendLocal
      <4>2. CASE r \notin gone
        <5>1. log' = [log EXCEPT ![Leader] = Append(@, r)]
          BY <2>3, <4>2 DEF AppendLocal
        <5> QED  BY <5>1, LogAppend
      <4> QED  BY <4>1, <4>2
    <3>2. pc' \in [Requests -> PCs]
      BY <2>3 DEF AppendLocal
    <3> QED  BY <2>3, <3>1, <3>2 DEF AppendLocal
  <2>4. CASE Return(r)
    BY <2>4 DEF Return
  <2> QED  BY <2>1, <2>2, <2>3, <2>4 DEF LeaderStep
<1>3. CASE \E r \in Requests : Disconnect(r)
  BY <1>3 DEF Disconnect, Fault, Open, Running
<1>4. CASE \E r \in Requests, f \in Followers : RpcStep(r, f)
  <2> PICK r \in Requests, f \in Followers : RpcStep(r, f)
      BY <1>4
  <2>1. CASE Reply(r, f)
    BY <2>1 DEF Reply
  <2>2. CASE AppendRecord(r, f)
    <3>1. log' \in [Nodes -> Seq(Requests)]
      <4>1. CASE off[r] = NextOffset(f)
        <5>1. log' = [log EXCEPT ![f] = Append(@, r)]
          BY <2>2, <4>1 DEF AppendRecord
        <5> QED  BY <5>1, LogAppend
      <4>2. CASE off[r] # NextOffset(f)
        BY <2>2, <4>2 DEF AppendRecord
      <4> QED  BY <4>1, <4>2
    <3>2. \E x \in {"applied", "refused"} : rpc' = [rpc EXCEPT ![r][f] = x]
      BY <2>2 DEF AppendRecord
    <3>3. rpc' \in [Requests -> [Followers -> {"none", "sent", "applied", "refused", "lost"}]]
      BY <3>2
    <3> QED  BY <2>2, <3>1, <3>3 DEF AppendRecord
  <2>3. CASE GiveUp(r, f)
    BY <2>3 DEF GiveUp, Fault
  <2>4. CASE Abandon(r, f)
    BY <2>4 DEF Abandon
  <2> QED  BY <2>1, <2>2, <2>3, <2>4 DEF RpcStep
<1>5. CASE \E f \in Followers : CrashFollower(f)
  BY <1>5 DEF CrashFollower, Fault
<1>6. CASE CrashLeader
  BY <1>6 DEF CrashLeader, Fault, Running
<1>7. CASE \E n \in Nodes : Restart(n)
  BY <1>7 DEF Restart
<1>8. CASE Terminating
  BY <1>8 DEF Terminating, vars
<1>9. CASE UNCHANGED vars
  BY <1>9 DEF vars
<1> QED  BY <1>1, <1>2, <1>3, <1>4, <1>5, <1>6, <1>7, <1>8, <1>9 DEF Next

-----------------------------------------------------------------------------
(* What one step may do to each part of the state.  The invariants below   *)
(* follow from these shapes.                                               *)

FollowerShape ==
    \A f \in Followers :
        \/ log'[f] = log[f]
        \/ \E r \in Requests :
              /\ rpc[r][f] = "sent"
              /\ rpc'[r][f] = "applied"
              /\ off[r] = Len(log[f])
              /\ log'[f] = Append(log[f], r)

LeaderShape ==
    \/ log'[Leader] = log[Leader]
    \/ \E r \in Requests :
          /\ r \notin gone
          /\ pc[r] = "quorum"
          /\ pc'[r] = "appended"
          /\ log'[Leader] = Append(log[Leader], r)

OffShape ==
    \A r \in Requests :
        \/ off'[r] = off[r]
        \/ pc[r] = "idle" /\ off'[r] = Len(log[Leader])

RpcShape ==
    \A r \in Requests, f \in Followers :
        \/ rpc'[r][f] = rpc[r][f] /\ off'[r] = off[r]
        \/ /\ pc[r] = "idle"
           /\ pc'[r] = Threshold
           /\ off'[r] = Len(log[Leader])
           /\ rpc'[r][f] \in {"sent", "none"}
        \/ /\ rpc[r][f] = "sent"
           /\ off'[r] = off[r]
           /\ rpc'[r][f] \in {"refused", "lost"}
        \/ /\ rpc[r][f] = "sent"
           /\ off'[r] = off[r]
           /\ rpc'[r][f] = "applied"
           /\ off[r] = Len(log[f])
           /\ log'[f] = Append(log[f], r)

ResShape ==
    \A r \in Requests, f \in Followers :
        \/ res'[r][f] = res[r][f]
        \/ res[r][f] = "none" /\ pc[r] # "idle" /\ res'[r][f] = "fail"
        \/ res[r][f] = "none" /\ rpc[r][f] = "applied" /\ res'[r][f] = "ok"

PcShape ==
    \A r \in Requests :
        \/ pc'[r] = pc[r]
        \/ pc[r] = "idle" /\ pc'[r] = Threshold
        \/ pc[r] = "replicating" /\ pc'[r] \in {"rejected", "aborted"}
        \/ pc[r] = "replicating" /\ pc'[r] = "quorum" /\ Cardinality(Acks(r)) >= Required
        \/ pc[r] = "quorum" /\ pc'[r] \in {"rejected", "aborted"}
        \/ /\ pc[r] = "quorum"
           /\ r \notin gone
           /\ pc'[r] = "appended"
           /\ log'[Leader] = Append(log[Leader], r)
        \/ pc[r] = "appended" /\ pc'[r] \in {"accepted", "aborted"}

Shape ==
    /\ FollowerShape
    /\ LeaderShape
    /\ OffShape
    /\ RpcShape
    /\ ResShape
    /\ PcShape

(* Every step is of one of the shapes above, and no action does more: what *)
(* the invariants need to know of Publish, Replicate and AppendRecord.     *)
LEMMA StepShape == TypeInv /\ IdleIsFresh /\ [Next]_vars => Shape
<1> SUFFICES ASSUME TypeInv, IdleIsFresh, [Next]_vars PROVE Shape
    OBVIOUS
<1> USE ReplicationAssumption DEF TypeInv, Nodes
<1>1. ASSUME NEW r \in Requests, Publish(r) PROVE Shape
  BY <1>1 DEF Publish, NextOffset, Shape, FollowerShape, LeaderShape, OffShape, RpcShape, ResShape, PcShape
<1>2. ASSUME NEW r \in Requests, Quorum(r) PROVE Shape
  BY <1>2 DEF Quorum, Shape, FollowerShape, LeaderShape, OffShape, RpcShape, ResShape, PcShape
<1>3. ASSUME NEW r \in Requests, NoQuorum(r) PROVE Shape
  BY <1>3 DEF NoQuorum, Shape, FollowerShape, LeaderShape, OffShape, RpcShape, ResShape, PcShape
<1>4. ASSUME NEW r \in Requests, AppendLocal(r) PROVE Shape
  <2>1. FollowerShape /\ OffShape /\ RpcShape /\ ResShape
    BY <1>4 DEF AppendLocal, FollowerShape, OffShape, RpcShape, ResShape
  <2>2. LeaderShape /\ PcShape
    BY <1>4 DEF AppendLocal, LeaderShape, PcShape
  <2> QED  BY <2>1, <2>2 DEF Shape
<1>5. ASSUME NEW r \in Requests, Disconnect(r) PROVE Shape
  BY <1>5 DEF Disconnect, Shape, FollowerShape, LeaderShape, OffShape, RpcShape, ResShape, PcShape
<1>6. ASSUME NEW r \in Requests, NEW f \in Followers, Reply(r, f) PROVE Shape
  BY <1>6 DEF Reply, Shape, FollowerShape, LeaderShape, OffShape, RpcShape, ResShape, PcShape, IdleIsFresh
<1>7. ASSUME NEW r \in Requests, NEW f \in Followers, AppendRecord(r, f) PROVE Shape
  <2>1. OffShape /\ ResShape /\ PcShape /\ LeaderShape
    BY <1>7 DEF AppendRecord, OffShape, ResShape, PcShape, LeaderShape
  <2>2. FollowerShape /\ RpcShape
    <3>1. CASE off[r] = Len(log[f])
      <4>1. /\ rpc' = [rpc EXCEPT ![r][f] = "applied"]
            /\ log' = [log EXCEPT ![f] = Append(@, r)]
            /\ off' = off
            /\ rpc[r][f] = "sent"
        BY <1>7, <3>1 DEF AppendRecord, NextOffset
      <4>2. rpc'[r][f] = "applied" /\ log'[f] = Append(log[f], r)
        BY <4>1
      <4>3. \A g \in Followers : g # f => log'[g] = log[g]
        BY <4>1
      <4>4. \A q \in Requests, g \in Followers : q # r \/ g # f => rpc'[q][g] = rpc[q][g]
        BY <4>1
      <4> QED  BY <3>1, <4>1, <4>2, <4>3, <4>4 DEF FollowerShape, RpcShape
    <3>2. CASE off[r] # Len(log[f])
      <4>1. /\ rpc' = [rpc EXCEPT ![r][f] = "refused"]
            /\ log' = log
            /\ off' = off
            /\ rpc[r][f] = "sent"
        BY <1>7, <3>2 DEF AppendRecord, NextOffset
      <4>2. rpc'[r][f] = "refused"
        BY <4>1
      <4>3. \A q \in Requests, g \in Followers : q # r \/ g # f => rpc'[q][g] = rpc[q][g]
        BY <4>1
      <4> QED  BY <4>1, <4>2, <4>3 DEF FollowerShape, RpcShape
    <3> QED  BY <3>1, <3>2
  <2> QED  BY <2>1, <2>2 DEF Shape
<1>8. ASSUME NEW r \in Requests, NEW f \in Followers, GiveUp(r, f) PROVE Shape
  BY <1>8 DEF GiveUp, Shape, FollowerShape, LeaderShape, OffShape, RpcShape, ResShape, PcShape
<1>9. ASSUME NEW r \in Requests, NEW f \in Followers, Abandon(r, f) PROVE Shape
  BY <1>9 DEF Abandon, Shape, FollowerShape, LeaderShape, OffShape, RpcShape, ResShape, PcShape
<1>10. ASSUME NEW f \in Followers, CrashFollower(f) PROVE Shape
  BY <1>10 DEF CrashFollower, Shape, FollowerShape, LeaderShape, OffShape, RpcShape, ResShape, PcShape, IdleIsFresh
<1>11. CASE CrashLeader
  BY <1>11 DEF CrashLeader, Running, Shape, FollowerShape, LeaderShape, OffShape, RpcShape, ResShape, PcShape
<1>12. CASE (\E n \in Nodes : Restart(n)) \/ Terminating \/ UNCHANGED vars
  BY <1>12 DEF Restart, Terminating, vars, Shape, FollowerShape, LeaderShape, OffShape, RpcShape, ResShape, PcShape
<1>13. ASSUME NEW r \in Requests, Return(r) PROVE Shape
  BY <1>13 DEF Return, Shape, FollowerShape, LeaderShape, OffShape, RpcShape, ResShape, PcShape
<1> QED
  BY <1>1, <1>2, <1>3, <1>4, <1>5, <1>6, <1>7, <1>8, <1>9, <1>10, <1>11, <1>12, <1>13
  DEF Next, LeaderStep, RpcStep

-----------------------------------------------------------------------------
(* Logs only grow.                                                         *)
LEMMA LogsGrow ==
    ASSUME TypeInv, TypeInv', Shape, NEW n \in Nodes
    PROVE  /\ Len(log[n]) \in Nat
           /\ Len(log'[n]) \in {Len(log[n]), Len(log[n]) + 1}
           /\ \A i \in 1..Len(log[n]) : log'[n][i] = log[n][i]
<1>1. log[n] \in Seq(Requests) /\ log'[n] \in Seq(Requests)
  BY DEF TypeInv
<1>2. log'[n] = log[n] \/ \E r \in Requests : log'[n] = Append(log[n], r)
  BY DEF Shape, FollowerShape, LeaderShape, Nodes
<1> QED  BY <1>1, <1>2

(* An acknowledgement, once counted, is not taken back.                    *)
LEMMA AcksGrow ==
    ASSUME Shape, NEW r \in Requests
    PROVE  /\ Cardinality(Acks(r)) <= Cardinality(Acks(r)')
           /\ Cardinality(Acks(r)) \in Nat /\ Cardinality(Acks(r)') \in Nat
<1>1. Acks(r) \subseteq Acks(r)'
  BY DEF Acks, Shape, ResShape
<1>2. Acks(r) \subseteq Followers /\ Acks(r)' \subseteq Followers
  BY DEF Acks
<1>3. IsFiniteSet(Acks(r)) /\ IsFiniteSet(Acks(r)')
  BY <1>2, FS_Subset, ReplicationAssumption
<1> QED  BY <1>1, <1>3, FS_Subset, FS_CardinalityType

(* The inductive invariant holds before anything is published.             *)
LEMMA InvInit == Init => IInv
<1> SUFFICES ASSUME Init PROVE IInv
    OBVIOUS
<1>1. TypeInv
  BY TypeInit
<1>2. IdleIsFresh /\ AppliedInPlace /\ AckWasApplied /\ QuorumCounted /\ AcceptedInLog
  BY DEF Init, IdleIsFresh, AppliedInPlace, AckWasApplied, QuorumCounted, AcceptedInLog
<1>3. OffsetReached /\ FollowerLead
  BY DEF Init, OffsetReached, FollowerLead, NextOffset, Nodes
<1> QED  BY <1>1, <1>2, <1>3 DEF IInv

(* Every step preserves the inductive invariant.                           *)
LEMMA InvStep == IInv /\ [Next]_vars => IInv'
<1> SUFFICES ASSUME IInv, [Next]_vars PROVE IInv'
    OBVIOUS
<1> USE ReplicationAssumption DEF Nodes
<1>1. TypeInv /\ TypeInv' /\ Shape
  BY TypeStep, StepShape DEF IInv
<1>2. \A n \in Nodes :
         /\ Len(log[n]) \in Nat
         /\ Len(log'[n]) \in {Len(log[n]), Len(log[n]) + 1}
         /\ \A i \in 1..Len(log[n]) : log'[n][i] = log[n][i]
  BY <1>1, LogsGrow
<1>3. IdleIsFresh'
  <2> SUFFICES ASSUME NEW r \in Requests, pc'[r] = "idle", NEW f \in Followers
               PROVE  rpc'[r][f] = "none" /\ res'[r][f] = "none"
      BY DEF IdleIsFresh
  <2>1. Threshold # "idle"
    BY DEF Threshold
  <2>2. pc[r] = "idle"
    BY <1>1, <2>1 DEF Shape, PcShape
  <2>3. rpc[r][f] = "none" /\ res[r][f] = "none"
    BY <2>2 DEF IInv, IdleIsFresh
  <2> QED  BY <1>1, <2>1, <2>2, <2>3 DEF Shape, RpcShape, ResShape
<1>4. OffsetReached'
  <2> SUFFICES ASSUME NEW r \in Requests PROVE off'[r] <= Len(log'[Leader])
      BY DEF OffsetReached
  <2>1. off[r] <= Len(log[Leader]) /\ off[r] \in Nat
    BY <1>1 DEF IInv, OffsetReached, TypeInv
  <2>2. off'[r] = off[r] \/ off'[r] = Len(log[Leader])
    BY <1>1 DEF Shape, OffShape
  <2> QED  BY <1>2, <2>1, <2>2
<1>5. AppliedInPlace'
  <2> SUFFICES ASSUME NEW r \in Requests, NEW f \in Followers, rpc'[r][f] = "applied"
               PROVE  off'[r] < Len(log'[f]) /\ log'[f][off'[r] + 1] = r
      BY DEF AppliedInPlace
  <2>0. off[r] \in Nat
    BY <1>1 DEF TypeInv
  <2>1. off'[r] = off[r] /\ off[r] \in Nat
    BY <1>1, <2>0 DEF Shape, RpcShape
  <2>2. CASE rpc[r][f] = "applied"
    <3>1. off[r] < Len(log[f]) /\ log[f][off[r] + 1] = r
      BY <2>2 DEF IInv, AppliedInPlace
    <3>2. off[r] + 1 \in 1..Len(log[f])
      BY <1>2, <2>1, <3>1
    <3> QED  BY <1>2, <2>1, <3>1, <3>2
  <2>3. CASE rpc[r][f] # "applied"
    <3>1. off[r] = Len(log[f]) /\ log'[f] = Append(log[f], r)
      BY <1>1, <2>3 DEF Shape, RpcShape
    <3>2. log[f] \in Seq(Requests)
      BY <1>1 DEF TypeInv
    <3> QED  BY <2>1, <3>1, <3>2
  <2> QED  BY <2>2, <2>3
<1>6. AckWasApplied'
  <2> SUFFICES ASSUME NEW r \in Requests, NEW f \in Followers, res'[r][f] = "ok"
               PROVE  rpc'[r][f] = "applied"
      BY DEF AckWasApplied
  <2>1. rpc[r][f] = "applied"
    BY <1>1 DEF IInv, AckWasApplied, Shape, ResShape
  <2>2. pc[r] # "idle"
    BY <2>1 DEF IInv, IdleIsFresh
  <2> QED  BY <1>1, <2>1, <2>2 DEF Shape, RpcShape
<1>7. \A r \in Requests : Cardinality(Acks(r)) <= Cardinality(Acks(r)')
  BY <1>1, AcksGrow
<1>8. QuorumCounted'
  <2> SUFFICES ASSUME NEW r \in Requests, pc'[r] \in {"quorum", "appended", "accepted"}
               PROVE  Cardinality(Acks(r)') >= Required
      BY DEF QuorumCounted
  <2>0. Cardinality(Acks(r)) \in Nat /\ Cardinality(Acks(r)') \in Nat
    BY <1>1, AcksGrow
  <2>1. CASE pc[r] = "idle"
    <3>1. Threshold \in {"quorum", "appended", "accepted"}
      BY <1>1, <2>1 DEF Shape, PcShape
    <3>2. Required <= 0
      BY <3>1 DEF Threshold
    <3> QED  BY <2>0, <3>2
  <2>2. CASE pc[r] # "idle"
    <3>1. Cardinality(Acks(r)) >= Required
      BY <1>1, <2>2 DEF IInv, QuorumCounted, Shape, PcShape
    <3> QED  BY <1>7, <2>0, <3>1
  <2> QED  BY <2>1, <2>2
<1>9. AcceptedInLog'
  <2> SUFFICES ASSUME NEW r \in Requests, pc'[r] \in {"appended", "accepted"}
               PROVE  \E i \in 1..Len(log'[Leader]) : log'[Leader][i] = r
      BY DEF AcceptedInLog
  <2>1. CASE pc[r] \in {"appended", "accepted"}
    <3>1. PICK i \in 1..Len(log[Leader]) : log[Leader][i] = r
      BY <2>1 DEF IInv, AcceptedInLog
    <3>2. log'[Leader][i] = r /\ i \in 1..Len(log'[Leader])
      BY <1>2, <3>1
    <3> QED  BY <3>2
  <2>2. CASE pc[r] \notin {"appended", "accepted"}
    <3>1. log'[Leader] = Append(log[Leader], r)
      BY <1>1, <2>2 DEF Shape, PcShape, Threshold
    <3>2. log[Leader] \in Seq(Requests)
      BY <1>1 DEF TypeInv
    <3>3. Len(log'[Leader]) = Len(log[Leader]) + 1 /\ log'[Leader][Len(log[Leader]) + 1] = r
      BY <3>1, <3>2
    <3> QED  BY <1>2, <3>3
  <2> QED  BY <2>1, <2>2
<1>10. FollowerLead'
  <2> SUFFICES ASSUME NEW f \in Followers PROVE Len(log'[f]) <= Len(log'[Leader]) + 1
      BY DEF FollowerLead, NextOffset
  <2>1. Len(log[f]) <= Len(log[Leader]) + 1
    BY DEF IInv, FollowerLead, NextOffset
  <2>2. CASE log'[f] = log[f]
    BY <1>2, <2>1, <2>2
  <2>3. CASE log'[f] # log[f]
    <3>1. PICK r \in Requests : off[r] = Len(log[f])
      BY <1>1, <2>3 DEF Shape, FollowerShape
    <3>2. off[r] <= Len(log[Leader])
      BY DEF IInv, OffsetReached
    <3> QED  BY <1>2, <3>1, <3>2
  <2> QED  BY <2>2, <2>3
<1> QED  BY <1>1, <1>3, <1>4, <1>5, <1>6, <1>8, <1>9, <1>10 DEF IInv

(* The inductive invariant holds in every reachable state.                 *)
THEOREM Invariance == Spec => []IInv
  BY InvInit, InvStep, PTL DEF Spec

(* Runtime, coordinator and store state keep their types, and no publish   *)
(* uses an offset beyond its leader's log.                                 *)
THEOREM TypeCorrect == Spec => []TypeOK
<1>1. IInv => TypeOK
  BY DEF IInv, TypeOK, OffsetReached, NextOffset
<1> QED  BY <1>1, Invariance, PTL

(* A follower whose acknowledgement was counted has stored the message.    *)
LEMMA AckedIsHeld ==
    ASSUME IInv, NEW r \in Requests, Cardinality(Acks(r)) >= Required
    PROVE  Cardinality({f \in Followers : r \in Range(log[f])}) >= Required
<1> DEFINE Holders == {f \in Followers : r \in Range(log[f])}
<1>1. \A n \in Nodes : log[n] \in Seq(Requests)
  BY DEF IInv, TypeInv
<1>2. Acks(r) \subseteq Holders
  <2> SUFFICES ASSUME NEW f \in Followers, res[r][f] = "ok" PROVE r \in Range(log[f])
      BY DEF Acks
  <2>1. off[r] < Len(log[f]) /\ log[f][off[r] + 1] = r /\ off[r] \in Nat
    BY DEF IInv, AckWasApplied, AppliedInPlace, TypeInv
  <2>2. off[r] + 1 \in DOMAIN log[f]
    BY <1>1, <2>1 DEF Nodes
  <2> QED  BY <2>1, <2>2 DEF Range
<1>3. IsFiniteSet(Holders)
  <2>1. Holders \subseteq Followers
    OBVIOUS
  <2> QED  BY <2>1, FS_Subset, ReplicationAssumption
<1>4. Cardinality(Acks(r)) <= Cardinality(Holders)
  BY <1>2, <1>3, FS_Subset
<1>5. Cardinality(Acks(r)) \in Nat /\ Cardinality(Holders) \in Nat /\ Required \in Int
  BY <1>2, <1>3, FS_Subset, FS_CardinalityType, ReplicationAssumption
<1> QED  BY <1>4, <1>5

(* An accepted publish is in the leader's log and on at least              *)
(* required_follower_acks followers, for any cluster and any faults.       *)
THEOREM AcceptedOnQuorumHolds == Spec => []AcceptedOnQuorum
<1>1. IInv => AcceptedOnQuorum
  <2> SUFFICES ASSUME IInv, NEW r \in Requests, pc[r] = "accepted"
               PROVE  /\ r \in Range(log[Leader])
                      /\ Cardinality({f \in Followers : r \in Range(log[f])}) >= Required
      BY DEF AcceptedOnQuorum
  <2>1. PICK i \in 1..Len(log[Leader]) : log[Leader][i] = r
    BY DEF IInv, AcceptedInLog
  <2>2. log[Leader] \in Seq(Requests)
    BY DEF IInv, TypeInv, Nodes
  <2>3. r \in Range(log[Leader])
    BY <2>1, <2>2 DEF Range
  <2>4. Cardinality(Acks(r)) >= Required
    BY DEF IInv, QuorumCounted
  <2> QED  BY <2>3, <2>4, AckedIsHeld
<1> QED  BY <1>1, Invariance, PTL

(* No follower is more than one record ahead of the leader.                *)
THEOREM FollowerLeadHolds == Spec => []FollowerLead
<1>1. IInv => FollowerLead
  BY DEF IInv
<1> QED  BY <1>1, Invariance, PTL

-----------------------------------------------------------------------------
(* A follower that missed a record.                                        *)

(* One step leaves a stranded follower stranded, and its log as it is.     *)
LEMMA StrandedStep ==
    ASSUME IInv, IInv', Shape, NEW f \in Followers, Stranded(f)
    PROVE  Stranded(f)' /\ log'[f] = log[f]
<1>0. f \in Nodes /\ Leader \in Nodes
  BY DEF Nodes
<1>1. /\ Len(log[f]) \in Nat
      /\ Len(log[Leader]) \in Nat
      /\ Len(log'[Leader]) \in {Len(log[Leader]), Len(log[Leader]) + 1}
  BY <1>0, LogsGrow DEF IInv
<1>2. log'[f] = log[f]
  BY DEF Shape, FollowerShape, Stranded, NextOffset
<1>3. Len(log'[f]) < Len(log'[Leader])
  BY <1>1, <1>2 DEF Stranded, NextOffset
<1>4. ASSUME NEW r \in Requests, rpc'[r][f] = "sent" PROVE off'[r] # Len(log'[f])
  <2>1. CASE rpc[r][f] = "sent" /\ off'[r] = off[r]
    BY <1>2, <2>1 DEF Stranded, NextOffset
  <2>2. CASE off'[r] = Len(log[Leader])
    BY <1>1, <1>2, <2>2 DEF Stranded, NextOffset
  <2> QED  BY <1>4, <2>1, <2>2 DEF Shape, RpcShape
<1> QED  BY <1>2, <1>3, <1>4 DEF Stranded, NextOffset

(* A follower that missed a record never stores another: AppendRecord      *)
(* takes one offset, and nothing sends that one again.                     *)
THEOREM StrandedForGoodHolds == Spec => StrandedForGood
<1>1. IInv /\ IInv' /\ [Next]_vars =>
        [\A f \in Followers : Stranded(f) => Stranded(f)' /\ log'[f] = log[f]]_vars
  <2> SUFFICES ASSUME IInv, IInv', [Next]_vars, NEW f \in Followers, Stranded(f)
               PROVE  Stranded(f)' /\ log'[f] = log[f]
      OBVIOUS
  <2>1. Shape
    BY StepShape DEF IInv
  <2> QED  BY <2>1, StrandedStep
<1> QED  BY <1>1, Invariance, PTL DEF Spec, StrandedForGood

-----------------------------------------------------------------------------
(* A partition that lost its quorum.                                       *)

InSync == {f \in Followers : Len(log[f]) = Len(log[Leader])}

(* One step leaves a wedged partition wedged, and its leader's log as it is. *)
LEMMA WedgedStep ==
    ASSUME IInv, IInv', Shape, Wedged
    PROVE  Wedged' /\ log'[Leader] = log[Leader]
<1> USE ReplicationAssumption
<1>0. \A n \in Nodes :
         /\ Len(log[n]) \in Nat
         /\ Len(log'[n]) \in {Len(log[n]), Len(log[n]) + 1}
  BY LogsGrow DEF IInv
<1>1. log'[Leader] = log[Leader]
  BY DEF Shape, LeaderShape, Wedged
<1>2. ASSUME NEW f \in Followers, Len(log[f]) < Len(log[Leader])
      PROVE  Stranded(f)' /\ log'[f] = log[f]
  <2>1. Stranded(f)
    BY <1>2 DEF Wedged, NextOffset
  <2> QED  BY <2>1, StrandedStep
<1>3. \A f \in Followers : Len(log'[f]) < Len(log'[Leader]) => Stranded(f)'
  BY <1>0, <1>1, <1>2 DEF Nodes
<1>4. InSync' \subseteq InSync
  BY <1>0, <1>1, <1>2 DEF InSync, Nodes
<1>5. IsFiniteSet(InSync) /\ Cardinality(InSync) < Required
  <2>1. InSync \subseteq Followers /\ InSync = {f \in Followers : NextOffset(f) = NextOffset(Leader)}
    BY DEF InSync, NextOffset
  <2> QED  BY <2>1, FS_Subset DEF Wedged
<1>6. ASSUME NEW S, S \subseteq InSync PROVE Cardinality(S) < Required
  <2>1. IsFiniteSet(S) /\ Cardinality(S) <= Cardinality(InSync)
    BY <1>5, <1>6, FS_Subset
  <2>2. Cardinality(S) \in Nat /\ Cardinality(InSync) \in Nat
    BY <1>5, <2>1, FS_CardinalityType
  <2> QED  BY <1>5, <2>1, <2>2
<1>7. Required > 0
  <2>1. Cardinality(InSync) \in Nat
    BY <1>5, FS_CardinalityType
  <2> QED  BY <1>5, <2>1
<1>8. ASSUME NEW r \in Requests, pc[r] = "replicating"
      PROVE  /\ Cardinality(Acks(r)) < Required
             /\ Cardinality({f \in Followers : MayAck(r, f)'}) < Required
  <2> DEFINE May == {f \in Followers : MayAck(r, f)}
  <2> DEFINE MayNext == {f \in Followers : MayAck(r, f)'}
  <2>1. Acks(r) \subseteq May
    BY DEF Acks, MayAck
  <2>2. ASSUME NEW f \in Followers, MayAck(r, f)' PROVE MayAck(r, f)
    <3>1. CASE res'[r][f] = "ok"
      BY <3>1 DEF MayAck, Shape, ResShape
    <3>2. CASE res'[r][f] = "none" /\ rpc'[r][f] = "applied"
      <4>1. res[r][f] = "none"
        BY <3>2 DEF Shape, ResShape
      <4>2. rpc[r][f] = "applied" \/ (rpc[r][f] = "sent" /\ off[r] = Len(log[f]))
        BY <1>8, <3>2 DEF Shape, RpcShape
      <4> QED  BY <4>1, <4>2 DEF MayAck, NextOffset
    <3>3. CASE res'[r][f] = "none" /\ rpc'[r][f] = "sent" /\ off'[r] = Len(log'[f])
      <4>1. res[r][f] = "none"
        BY <3>3 DEF Shape, ResShape
      <4>2. rpc[r][f] = "sent" /\ off'[r] = off[r]
        BY <1>8, <3>3 DEF Shape, RpcShape
      <4>3. off[r] <= Len(log[Leader]) /\ off[r] \in Nat
        BY DEF IInv, OffsetReached, TypeInv
      <4>4. Len(log[f]) = Len(log'[f])
        <5>1. /\ Len(log[f]) \in Nat
              /\ Len(log[Leader]) \in Nat
              /\ Len(log'[f]) \in {Len(log[f]), Len(log[f]) + 1}
          BY <1>0 DEF Nodes
        <5>2. CASE Len(log[f]) < Len(log[Leader])
          <6>1. log'[f] = log[f]
            BY <1>2, <5>2
          <6> QED  BY <6>1
        <5>3. CASE ~(Len(log[f]) < Len(log[Leader]))
          BY <3>3, <4>2, <4>3, <5>1, <5>3
        <5> QED  BY <5>2, <5>3
      <4> QED  BY <3>3, <4>1, <4>2, <4>4 DEF MayAck, NextOffset
    <3> QED  BY <2>2, <3>1, <3>2, <3>3 DEF MayAck, NextOffset
  <2>3. MayNext \subseteq May
    BY <2>2
  <2>4. IsFiniteSet(May) /\ Cardinality(May) < Required
    <3>1. May \subseteq Followers
      OBVIOUS
    <3>2. Cardinality(May) < Required
      BY <1>8 DEF Wedged
    <3> QED  BY <3>1, <3>2, FS_Subset
  <2>5. ASSUME NEW S, S \subseteq May PROVE Cardinality(S) < Required
    <3>1. IsFiniteSet(S) /\ Cardinality(S) <= Cardinality(May)
      BY <2>4, <2>5, FS_Subset
    <3>2. Cardinality(S) \in Nat /\ Cardinality(May) \in Nat
      BY <2>4, <3>1, FS_CardinalityType
    <3> QED  BY <2>4, <3>1, <3>2
  <2> QED  BY <2>1, <2>3, <2>5
<1>9. ASSUME NEW r \in Requests PROVE pc'[r] # "quorum"
  <2>1. Threshold # "quorum"
    BY <1>7 DEF Threshold
  <2>2. pc[r] # "quorum"
    BY DEF Wedged
  <2>3. CASE pc[r] = "replicating"
    <3>1. Acks(r) \subseteq Followers
      BY DEF Acks
    <3>2. Cardinality(Acks(r)) \in Nat /\ Cardinality(Acks(r)) < Required
      BY <1>8, <2>3, <3>1, FS_Subset, FS_CardinalityType
    <3> QED  BY <2>3, <3>2 DEF Shape, PcShape
  <2>4. CASE pc[r] # "replicating"
    BY <2>1, <2>2, <2>4 DEF Shape, PcShape
  <2> QED  BY <2>3, <2>4
<1>10. ASSUME NEW r \in Requests, pc'[r] = "replicating"
       PROVE  Cardinality({f \in Followers : MayAck(r, f)'}) < Required
  <2>1. CASE pc[r] = "replicating"
    BY <1>8, <2>1
  <2>2. CASE pc[r] # "replicating"
    <3> DEFINE MayNext == {f \in Followers : MayAck(r, f)'}
    <3>1. pc[r] = "idle"
      BY <1>10, <2>2 DEF Shape, PcShape
    <3>2. ASSUME NEW f \in Followers, MayAck(r, f)' PROVE f \in InSync'
      <4>1. rpc[r][f] = "none" /\ res[r][f] = "none"
        BY <3>1 DEF IInv, IdleIsFresh
      <4>2. res'[r][f] = "none"
        BY <3>1, <4>1 DEF Shape, ResShape
      <4>3. rpc'[r][f] = "sent" /\ off'[r] = Len(log'[f])
        BY <3>2, <4>1, <4>2 DEF MayAck, NextOffset, Shape, RpcShape
      <4>4. off'[r] = Len(log[Leader])
        BY <4>1, <4>3 DEF Shape, RpcShape
      <4> QED  BY <1>1, <4>3, <4>4 DEF InSync
    <3>3. MayNext \subseteq InSync
      BY <1>4, <3>2
    <3> QED  BY <1>6, <3>3
  <2> QED  BY <2>1, <2>2
<1>11. Cardinality({f \in Followers : Len(log'[f]) = Len(log'[Leader])}) < Required
  <2>1. InSync' = {f \in Followers : Len(log'[f]) = Len(log'[Leader])}
    BY DEF InSync
  <2> QED  BY <1>4, <1>6, <2>1
<1> QED  BY <1>1, <1>3, <1>9, <1>10, <1>11 DEF Wedged, NextOffset

(* A partition without a quorum of followers at the leader's offset takes  *)
(* no publish ever again, whatever is retried or restarted.                *)
THEOREM WedgedForGoodHolds == Spec => WedgedForGood
<1>1. IInv /\ IInv' /\ [Next]_vars => [Wedged => Wedged' /\ log'[Leader] = log[Leader]]_vars
  <2> SUFFICES ASSUME IInv, IInv', [Next]_vars, Wedged
               PROVE  Wedged' /\ log'[Leader] = log[Leader]
      OBVIOUS
  <2>1. Shape
    BY StepShape DEF IInv
  <2> QED  BY <2>1, WedgedStep
<1> QED  BY <1>1, Invariance, PTL DEF Spec, WedgedForGood

-----------------------------------------------------------------------------
(* One publish at a time.                                                  *)

(* The publishes that work with the offset they read.                      *)
Sending == {r \in Requests \ gone : pc[r] \in {"replicating", "quorum"}}

(* The publish under way has the leader's next offset, it is the only one, *)
(* and accepted ones have the offset they were replicated with.            *)
SerialInv ==
    /\ \A r \in Sending : off[r] = Len(log[Leader])
    /\ \A r, s \in Sending : r = s
    /\ \A r \in Requests : pc[r] \in {"appended", "accepted"} =>
          off[r] < Len(log[Leader]) /\ log[Leader][off[r] + 1] = r

(* The bound on publishes in flight: one begins when none is open.         *)
LEMMA PublishAlone ==
    ASSUME TypeInv, MaxInFlight = 1, NEW r \in Requests, Publish(r)
    PROVE  Sending = {}
<1>1. Open \subseteq Requests
  BY DEF Open
<1>2. IsFiniteSet(Open)
  BY <1>1, FS_Subset, ReplicationAssumption
<1>3. Cardinality(Open) \in Nat /\ Cardinality(Open) < 1
  BY <1>2, FS_CardinalityType DEF Publish
<1>4. Cardinality(Open) = 0
  BY <1>3
<1>5. Open = {}
  BY <1>2, <1>4, FS_EmptySet
<1> QED  BY <1>5 DEF Open, Sending, Running

(* How a step changes the set of publishes under way: only Publish adds to *)
(* it, and only below its bound.                                           *)
LEMMA SendingShape ==
    ASSUME TypeInv, [Next]_vars, NEW r \in Sending'
    PROVE  Publish(r) \/ (r \in Sending /\ off'[r] = off[r])
<1> USE DEF TypeInv, Sending
<1>1. ASSUME NEW q \in Requests, Publish(q) PROVE q = r \/ (r \in Sending /\ off'[r] = off[r])
  BY <1>1 DEF Publish
<1>2. ASSUME NEW q \in Requests, LeaderStep(q) PROVE r \in Sending /\ off'[r] = off[r]
  BY <1>2 DEF LeaderStep, Quorum, NoQuorum, AppendLocal, Return
<1>3. ASSUME NEW q \in Requests, Disconnect(q) PROVE r \in Sending /\ off'[r] = off[r]
  BY <1>3 DEF Disconnect
<1>4. ASSUME NEW q \in Requests, NEW f \in Followers, RpcStep(q, f)
      PROVE  r \in Sending /\ off'[r] = off[r]
  BY <1>4 DEF RpcStep, Reply, AppendRecord, GiveUp, Abandon
<1>5. ASSUME NEW f \in Followers, CrashFollower(f) PROVE r \in Sending /\ off'[r] = off[r]
  BY <1>5 DEF CrashFollower
<1>6. CASE CrashLeader
  BY <1>6 DEF CrashLeader, Running
<1>7. CASE (\E n \in Nodes : Restart(n)) \/ Terminating \/ UNCHANGED vars
  BY <1>7 DEF Restart, Terminating, vars
<1> QED  BY <1>1, <1>2, <1>3, <1>4, <1>5, <1>6, <1>7 DEF Next

(* With at most one open publish, the log of the leader does not move      *)
(* between a publish's snapshot of the offset and its append.              *)
LEMMA SerialStep ==
    ASSUME MaxInFlight = 1, IInv, IInv', [Next]_vars, SerialInv
    PROVE  SerialInv'
<1> USE ReplicationAssumption
<1>0. TypeInv /\ TypeInv' /\ Shape
  BY StepShape DEF IInv
<1>1. /\ log[Leader] \in Seq(Requests)
      /\ Len(log[Leader]) \in Nat
      /\ \A i \in 1..Len(log[Leader]) : log'[Leader][i] = log[Leader][i]
      /\ Len(log'[Leader]) \in {Len(log[Leader]), Len(log[Leader]) + 1}
  BY <1>0, LogsGrow DEF TypeInv, Nodes
<1>2. ASSUME NEW r \in Requests, Publish(r) PROVE Sending = {} /\ log' = log /\ off'[r] = Len(log[Leader])
  <2>1. log' = log /\ off'[r] = Len(log[Leader])
    BY <1>0, <1>2 DEF Publish, NextOffset, TypeInv
  <2> QED  BY <1>0, <1>2, <2>1, PublishAlone
<1>3. ASSUME log'[Leader] # log[Leader] PROVE Sending' = {}
  <2>1. PICK q \in Requests : q \notin gone /\ pc[q] = "quorum" /\ pc'[q] = "appended"
    BY <1>0, <1>3 DEF Shape, LeaderShape
  <2>2. q \in Sending /\ q \notin Sending'
    BY <2>1 DEF Sending
  <2>3. ASSUME NEW r \in Sending' PROVE r \in Sending
    <3>1. r \in Requests
      BY DEF Sending
    <3>2. ~Publish(r)
      BY <1>2, <1>3, <3>1
    <3> QED  BY <1>0, <3>2, SendingShape
  <2> QED  BY <2>2, <2>3 DEF SerialInv
<1>4. ASSUME NEW r \in Sending' PROVE off'[r] = Len(log'[Leader])
  <2>0. r \in Requests
    BY DEF Sending
  <2>1. log'[Leader] = log[Leader]
    BY <1>3
  <2>2. CASE Publish(r)
    BY <1>2, <2>0, <2>1, <2>2
  <2>3. CASE r \in Sending /\ off'[r] = off[r]
    BY <2>1, <2>3 DEF SerialInv
  <2> QED  BY <1>0, <2>2, <2>3, SendingShape
<1>5. ASSUME NEW r \in Sending', NEW s \in Sending' PROVE r = s
  <2>0. r \in Requests /\ s \in Requests
    BY DEF Sending
  <2>1. CASE \E q \in Requests : Publish(q)
    <3>1. PICK q \in Requests : Publish(q)
      BY <2>1
    <3>2. Sending = {}
      BY <1>2, <3>1
    <3>3. Publish(r) /\ Publish(s)
      BY <1>0, <3>2, SendingShape
    <3>4. r = s
      BY <1>0, <3>3, <2>0 DEF Publish, TypeInv, Threshold
    <3> QED  BY <3>4
  <2>2. CASE ~ \E q \in Requests : Publish(q)
    <3>1. r \in Sending /\ s \in Sending
      BY <1>0, <2>0, <2>2, SendingShape
    <3> QED  BY <3>1 DEF SerialInv
  <2> QED  BY <2>1, <2>2
<1>6. ASSUME NEW r \in Requests, pc'[r] \in {"appended", "accepted"}
      PROVE  off'[r] < Len(log'[Leader]) /\ log'[Leader][off'[r] + 1] = r
  <2>0. pc[r] # "idle"
    BY <1>0, <1>6 DEF Shape, PcShape, Threshold
  <2>1. off'[r] = off[r] /\ off[r] \in Nat
    BY <1>0, <2>0 DEF Shape, OffShape, TypeInv
  <2>2. CASE pc[r] \in {"appended", "accepted"}
    <3>1. off[r] < Len(log[Leader]) /\ log[Leader][off[r] + 1] = r
      BY <2>2 DEF SerialInv
    <3>2. off[r] + 1 \in 1..Len(log[Leader])
      BY <1>1, <2>1, <3>1
    <3> QED  BY <1>1, <2>1, <3>1, <3>2
  <2>3. CASE pc[r] \notin {"appended", "accepted"}
    <3>1. pc[r] = "quorum" /\ r \notin gone /\ log'[Leader] = Append(log[Leader], r)
      BY <1>0, <1>6, <2>0, <2>3 DEF Shape, PcShape
    <3>2. off[r] = Len(log[Leader])
      BY <3>1 DEF SerialInv, Sending
    <3> QED  BY <1>1, <2>1, <3>1, <3>2
  <2> QED  BY <2>2, <2>3
<1> QED  BY <1>4, <1>5, <1>6 DEF SerialInv

(* With one publish at a time an accepted message has one offset: on the   *)
(* leader, and on every follower whose acknowledgement was counted.        *)
THEOREM SerialAgreement ==
    ASSUME MaxInFlight = 1
    PROVE  Spec => []AcceptedAgreement
<1>1. Init => SerialInv
  BY DEF Init, SerialInv, Sending
<1>2. IInv /\ IInv' /\ [Next]_vars /\ SerialInv => SerialInv'
  BY SerialStep
<1>3. IInv /\ SerialInv => AcceptedAgreement
  BY DEF IInv, SerialInv, AcceptedAgreement, AckWasApplied, AppliedInPlace, Acks, NextOffset
<1> QED  BY <1>1, <1>2, <1>3, Invariance, PTL DEF Spec

-----------------------------------------------------------------------------
(* One publish at a time and nothing fails.                                *)

Mays(r) == {f \in Followers : MayAck(r, f)}

(* Nothing is refused; with no publish under way enough followers are at   *)
(* the leader's offset, and a publish under way can reach its quorum.      *)
QuorumInReach ==
    /\ \A r \in Requests : pc[r] \notin {"rejected", "aborted"}
    /\ Sending = {} => Cardinality(InSync) >= Required
    /\ \A r \in Requests : pc[r] = "replicating" => Cardinality(Mays(r)) >= Required

FreeInv ==
    faults = 0 => up = Nodes /\ gone = {} /\ (Required > 0 => QuorumInReach)

(* A larger set of followers is a quorum when a smaller one is.            *)
LEMMA MoreFollowers ==
    ASSUME NEW S, NEW T, S \subseteq T, T \subseteq Followers, Cardinality(S) >= Required
    PROVE  Cardinality(T) >= Required
<1>1. IsFiniteSet(T)
  BY FS_Subset, ReplicationAssumption
<1>2. IsFiniteSet(S) /\ Cardinality(S) <= Cardinality(T)
  BY <1>1, FS_Subset
<1>3. Cardinality(S) \in Nat /\ Cardinality(T) \in Nat
  BY <1>1, <1>2, FS_CardinalityType
<1> QED  BY <1>2, <1>3, ReplicationAssumption

LEMMA FreeInit ==
    ASSUME Init, Required <= Cardinality(Followers)
    PROVE  FreeInv
<1>1. InSync = Followers
  BY DEF Init, InSync, Nodes
<1>2. Cardinality(Followers) \in Nat
  BY ReplicationAssumption, FS_CardinalityType
<1> QED  BY <1>1, <1>2, ReplicationAssumption DEF Init, FreeInv, QuorumInReach

(* A step that is no fault is one of these.                                *)
LEMMA FreeSteps ==
    ASSUME TypeInv, FreeInv, [Next]_vars, faults' = 0
    PROVE  /\ faults = 0 /\ up = Nodes /\ gone = {} /\ up' = Nodes /\ gone' = {}
           /\ \/ \E r \in Requests : Publish(r) \/ LeaderStep(r)
              \/ \E r \in Requests, f \in Followers :
                    Reply(r, f) \/ AppendRecord(r, f) \/ Abandon(r, f)
              \/ UNCHANGED vars
<1>0. faults \in Nat
  BY ReplicationAssumption DEF TypeInv
<1>1. \A kind : ~ Fault(kind)
  BY <1>0 DEF Fault
<1>2. faults = 0
  BY <1>1 DEF Next, vars, Publish, LeaderStep, Quorum, NoQuorum, AppendLocal, Return, RpcStep, Reply,
              AppendRecord, GiveUp, Abandon, Disconnect, CrashFollower, CrashLeader, Restart,
              Terminating
<1>3. up = Nodes /\ gone = {}
  BY <1>2 DEF FreeInv
<1>4. /\ \A r \in Requests : ~ Disconnect(r)
      /\ \A f \in Followers : ~ CrashFollower(f)
      /\ ~ CrashLeader
  BY <1>1 DEF Disconnect, CrashFollower, CrashLeader
<1>5. \A r \in Requests, f \in Followers : ~ GiveUp(r, f)
  BY <1>1, <1>3 DEF GiveUp, Nodes
<1>6. \A n \in Nodes : ~ Restart(n)
  BY <1>3 DEF Restart
<1>7. \/ \E r \in Requests : Publish(r) \/ LeaderStep(r)
      \/ \E r \in Requests, f \in Followers : Reply(r, f) \/ AppendRecord(r, f) \/ Abandon(r, f)
      \/ UNCHANGED vars
  BY <1>4, <1>5, <1>6 DEF Next, RpcStep, Terminating
<1>8. UNCHANGED <<up, gone>>
  BY <1>7 DEF vars, Publish, LeaderStep, Quorum, NoQuorum, AppendLocal, Return, Reply, AppendRecord, Abandon
<1> QED  BY <1>2, <1>3, <1>7, <1>8

(* A POST of a publish that is not under way has an offset the leader has  *)
(* passed, as long as nothing was refused.                                 *)
LEMMA StalePost ==
    ASSUME IInv, SerialInv, gone = {}, QuorumInReach,
           NEW r \in Requests, NEW f \in Followers, rpc[r][f] = "sent"
    PROVE  r \in Sending \/ off[r] < Len(log[Leader])
<1>1. pc[r] # "idle" /\ pc[r] \in PCs
  BY DEF IInv, IdleIsFresh, TypeInv
<1>2. pc[r] \in {"replicating", "quorum", "appended", "accepted"}
  BY <1>1 DEF QuorumInReach, PCs
<1> QED  BY <1>2 DEF Sending, SerialInv

(* The replication of a POST and its answer keep the quorum in reach.      *)
LEMMA RpcKeepsReach ==
    ASSUME IInv, SerialInv, gone = {}, gone' = {}, QuorumInReach,
           NEW s \in Requests, NEW f \in Followers,
           Reply(s, f) \/ AppendRecord(s, f) \/ Abandon(s, f)
    PROVE  QuorumInReach'
<1>0. /\ rpc \in [Requests -> [Followers -> {"none", "sent", "applied", "refused", "lost"}]]
      /\ res \in [Requests -> [Followers -> {"none", "ok", "fail"}]]
      /\ log \in [Nodes -> Seq(Requests)] /\ off \in [Requests -> Nat]
      /\ Len(log[Leader]) \in Nat /\ Leader \in Nodes /\ f \in Nodes /\ Leader # f
  BY ReplicationAssumption DEF IInv, TypeInv, Nodes
<1>1. UNCHANGED <<pc, off, gone>>
  BY DEF Reply, AppendRecord, Abandon
<1>2. Sending' = Sending
  BY <1>1 DEF Sending
<1>3. log'[Leader] = log[Leader] /\ \A g \in Followers \ {f} : log'[g] = log[g]
  BY <1>0 DEF Reply, AppendRecord, Abandon, Nodes
<1>4. log'[f] = log[f] \/ (rpc[s][f] = "sent" /\ off[s] = Len(log[f]))
  BY DEF Reply, AppendRecord, Abandon, NextOffset
<1>5. Sending = {} => InSync \subseteq InSync'
  <2> SUFFICES ASSUME Sending = {}, NEW g \in InSync PROVE g \in InSync'
    OBVIOUS
  <2>1. g \in Followers /\ Len(log[g]) = Len(log[Leader])
    BY DEF InSync
  <2>2. log'[g] = log[g]
    <3>1. CASE g # f
      BY <1>3, <2>1, <3>1
    <3>2. CASE g = f
      <4>1. rpc[s][f] = "sent" => off[s] # Len(log[f])
        BY <1>0, <2>1, <3>2, StalePost
      <4> QED  BY <1>4, <3>2, <4>1
    <3> QED  BY <3>1, <3>2
  <2> QED  BY <1>3, <2>1, <2>2 DEF InSync
<1>6. ASSUME NEW q \in Requests, pc[q] = "replicating", NEW g \in Followers, MayAck(q, g)
      PROVE  MayAck(q, g)'
  <2>0. q \in Sending /\ off[q] = Len(log[Leader]) /\ \A r \in Sending : r = q
    BY <1>6 DEF Sending, SerialInv
  <2>1. CASE Reply(s, f)
    <3>1. /\ UNCHANGED <<log, off, rpc>>
          /\ res' = [res EXCEPT ![s][f] = IF rpc[s][f] = "applied" THEN "ok" ELSE "fail"]
          /\ res[s][f] = "none" /\ rpc[s][f] \in {"applied", "refused"}
      BY <2>1 DEF Reply
    <3>2. CASE q = s /\ g = f
      <4>1. rpc[s][f] = "applied"
        BY <1>6, <3>1, <3>2 DEF MayAck
      <4>2. res'[s][f] = "ok"
        BY <1>0, <3>1, <4>1
      <4> QED  BY <3>2, <4>2 DEF MayAck
    <3>3. CASE ~ (q = s /\ g = f)
      <4>1. res'[q][g] = res[q][g]
        BY <1>0, <3>1, <3>3
      <4> QED  BY <1>6, <3>1, <4>1 DEF MayAck, NextOffset
    <3> QED  BY <3>2, <3>3
  <2>2. CASE AppendRecord(s, f)
    <3>0. UNCHANGED <<off, res>> /\ rpc[s][f] = "sent"
      BY <2>2 DEF AppendRecord
    <3>1. CASE q = s /\ g = f
      <4>1. CASE off[s] = Len(log[f])
        <5>1. rpc'[s][f] = "applied"
          BY <1>0, <2>2, <4>1 DEF AppendRecord, NextOffset
        <5> QED  BY <1>6, <3>0, <3>1, <5>1 DEF MayAck
      <4>2. CASE off[s] # Len(log[f])
        BY <1>6, <3>0, <3>1, <4>2 DEF MayAck, NextOffset
      <4> QED  BY <4>1, <4>2
    <3>2. CASE ~ (q = s /\ g = f)
      <4>1. rpc'[q][g] = rpc[q][g]
        <5>1. \E x \in {"applied", "refused"} : rpc' = [rpc EXCEPT ![s][f] = x]
          BY <2>2 DEF AppendRecord
        <5> QED  BY <1>0, <3>2, <5>1
      <4>2. rpc[q][g] = "sent" /\ off[q] = Len(log[g]) => log'[g] = log[g]
        <5>1. CASE g # f
          BY <1>3, <5>1
        <5>2. CASE g = f
          <6>1. off[s] < Len(log[Leader])
            BY <2>0, <3>0, <3>2, <5>2, StalePost
          <6>2. off[q] = Len(log[g]) => off[s] # Len(log[f])
            BY <1>0, <2>0, <5>2, <6>1
          <6> QED  BY <1>4, <5>2, <6>2
        <5> QED  BY <5>1, <5>2
      <4> QED  BY <1>6, <3>0, <4>1, <4>2 DEF MayAck, NextOffset
    <3> QED  BY <3>1, <3>2
  <2>3. CASE Abandon(s, f)
    <3>1. /\ UNCHANGED <<log, off, res>>
          /\ rpc' = [rpc EXCEPT ![s][f] = "lost"]
          /\ res[s][f] # "none"
      BY <2>3 DEF Abandon
    <3>2. CASE q = s /\ g = f
      BY <1>6, <3>1, <3>2 DEF MayAck
    <3>3. CASE ~ (q = s /\ g = f)
      <4>1. rpc'[q][g] = rpc[q][g]
        BY <1>0, <3>1, <3>3
      <4> QED  BY <1>6, <3>1, <4>1 DEF MayAck, NextOffset
    <3> QED  BY <3>2, <3>3
  <2> QED  BY <2>1, <2>2, <2>3
<1>7. Sending' = {} => Cardinality(InSync') >= Required
  <2>1. InSync' \subseteq Followers
    BY DEF InSync
  <2> QED  BY <1>2, <1>5, <2>1, MoreFollowers DEF QuorumInReach
<1>8. ASSUME NEW q \in Requests, pc'[q] = "replicating" PROVE Cardinality(Mays(q)') >= Required
  <2>1. pc[q] = "replicating"
    BY <1>1, <1>8
  <2>2. Mays(q) \subseteq Mays(q)' /\ Mays(q)' \subseteq Followers
    BY <1>6, <2>1 DEF Mays
  <2>3. Cardinality(Mays(q)) >= Required
    BY <2>1 DEF QuorumInReach
  <2> QED  BY <2>2, <2>3, MoreFollowers
<1>9. \A r \in Requests : pc'[r] \notin {"rejected", "aborted"}
  BY <1>1 DEF QuorumInReach
<1> QED  BY <1>7, <1>8, <1>9 DEF QuorumInReach

(* A publish finds enough followers at its offset, hears from a quorum of  *)
(* them, and leaves them at the leader's next offset.                      *)
LEMMA LeaderKeepsReach ==
    ASSUME MaxInFlight = 1, 0 < Required, Required <= Cardinality(Followers),
           IInv, SerialInv, gone = {}, gone' = {}, QuorumInReach,
           NEW r \in Requests, Publish(r) \/ LeaderStep(r)
    PROVE  QuorumInReach'
<1>0. /\ pc \in [Requests -> PCs] /\ log \in [Nodes -> Seq(Requests)]
      /\ off \in [Requests -> Nat] /\ Leader \in Nodes /\ Followers \subseteq Nodes
      /\ rpc \in [Requests -> [Followers -> {"none", "sent", "applied", "refused", "lost"}]]
      /\ Len(log[Leader]) \in Nat
  BY DEF IInv, TypeInv, Nodes
<1>1. CASE Publish(r)
  <2>0. Cardinality(Followers) \in Nat
    BY ReplicationAssumption, FS_CardinalityType
  <2>1. Threshold = "replicating"
    BY <2>0, ReplicationAssumption DEF Threshold
  <2>2. /\ pc[r] = "idle" /\ pc' = [pc EXCEPT ![r] = "replicating"]
        /\ off' = [off EXCEPT ![r] = Len(log[Leader])]
        /\ rpc' = [rpc EXCEPT ![r] = [f \in Followers |-> "sent"]]
        /\ UNCHANGED <<log, res>>
    BY <1>1, <2>1 DEF Publish, NextOffset
  <2>3. Sending = {}
    BY <1>1, PublishAlone DEF IInv
  <2>4. \A q \in Requests : pc[q] # "replicating"
    BY <2>3 DEF Sending
  <2>5. r \in Sending'
    BY <1>0, <2>2 DEF Sending
  <2>6. InSync \subseteq Mays(r)'
    <3> SUFFICES ASSUME NEW f \in InSync PROVE f \in Mays(r)'
      OBVIOUS
    <3>1. f \in Followers /\ Len(log[f]) = Len(log[Leader])
      BY DEF InSync
    <3>2. res'[r][f] = "none"
      BY <2>2, <3>1 DEF IInv, IdleIsFresh
    <3>3. rpc'[r][f] = "sent" /\ off'[r] = Len(log'[f])
      BY <1>0, <2>2, <3>1
    <3> QED  BY <3>1, <3>2, <3>3 DEF Mays, MayAck, NextOffset
  <2>7. Cardinality(Mays(r)') >= Required
    <3>1. Mays(r)' \subseteq Followers
      BY DEF Mays
    <3>2. Cardinality(InSync) >= Required
      BY <2>3 DEF QuorumInReach
    <3> QED  BY <2>6, <3>1, <3>2, MoreFollowers
  <2>8. \A q \in Requests : pc'[q] = "replicating" => q = r
    BY <1>0, <2>2, <2>4
  <2>9. \A q \in Requests : pc'[q] \notin {"rejected", "aborted"}
    BY <1>0, <2>2 DEF QuorumInReach
  <2> QED  BY <2>5, <2>7, <2>8, <2>9 DEF QuorumInReach
<1>2. ASSUME pc[r] \in {"replicating", "quorum"}
      PROVE  /\ off[r] = Len(log[Leader])
             /\ \A q \in Requests : q # r => pc[q] \notin {"replicating", "quorum"}
  BY <1>2 DEF SerialInv, Sending
<1>3. CASE Quorum(r)
  <2>1. pc[r] = "replicating" /\ pc' = [pc EXCEPT ![r] = "quorum"]
    BY <1>3 DEF Quorum
  <2>2. r \in Sending'
    BY <1>0, <2>1 DEF Sending
  <2>3. \A q \in Requests : pc'[q] # "replicating" /\ pc'[q] \notin {"rejected", "aborted"}
    BY <1>0, <1>2, <2>1 DEF QuorumInReach
  <2> QED  BY <2>2, <2>3 DEF QuorumInReach
<1>4. CASE NoQuorum(r)
  <2>1. Mays(r) = Acks(r)
    BY <1>4 DEF NoQuorum, Mays, Acks, MayAck
  <2>2. Cardinality(Mays(r)) >= Required /\ Cardinality(Mays(r)) < Required
    BY <1>4, <2>1 DEF NoQuorum, QuorumInReach
  <2>3. Cardinality(Mays(r)) \in Nat
    <3>1. Mays(r) \subseteq Followers
      BY DEF Mays
    <3> QED  BY <3>1, FS_Subset, FS_CardinalityType, ReplicationAssumption
  <2> QED  BY <2>2, <2>3, ReplicationAssumption
<1>5. CASE AppendLocal(r)
  <2>1. /\ pc[r] = "quorum" /\ pc' = [pc EXCEPT ![r] = "appended"]
        /\ log' = [log EXCEPT ![Leader] = Append(log[Leader], r)]
    BY <1>5 DEF AppendLocal
  <2>2. Len(log'[Leader]) = Len(log[Leader]) + 1 /\ \A f \in Followers : log'[f] = log[f]
    <3>1. Len(log'[Leader]) = Len(log[Leader]) + 1
      BY <1>0, <2>1
    <3>2. \A f \in Followers : log'[f] = log[f]
      BY <1>0, <2>1, ReplicationAssumption
    <3> QED  BY <3>1, <3>2
  <2>3. Acks(r) \subseteq InSync'
    <3> SUFFICES ASSUME NEW f \in Acks(r) PROVE f \in InSync'
      OBVIOUS
    <3>1. f \in Followers /\ res[r][f] = "ok"
      BY DEF Acks
    <3>2. off[r] < Len(log[f])
      BY <3>1 DEF IInv, AckWasApplied, AppliedInPlace
    <3>3. Len(log[f]) <= Len(log[Leader]) + 1 /\ Len(log[f]) \in Nat
      BY <1>0, <3>1 DEF IInv, FollowerLead, NextOffset
    <3>4. Len(log[f]) = Len(log[Leader]) + 1
      BY <1>0, <1>2, <2>1, <3>2, <3>3
    <3> QED  BY <2>2, <3>1, <3>4 DEF InSync
  <2>4. Cardinality(InSync') >= Required
    <3>1. InSync' \subseteq Followers
      BY DEF InSync
    <3>2. Cardinality(Acks(r)) >= Required
      BY <2>1 DEF IInv, QuorumCounted
    <3> QED  BY <2>3, <3>1, <3>2, MoreFollowers
  <2>5. \A q \in Requests : pc'[q] # "replicating" /\ pc'[q] \notin {"rejected", "aborted"}
    BY <1>0, <1>2, <2>1 DEF QuorumInReach
  <2> QED  BY <2>4, <2>5 DEF QuorumInReach
<1>6. CASE Return(r)
  <2>1. pc[r] = "appended" /\ pc' = [pc EXCEPT ![r] = "accepted"] /\ UNCHANGED <<log, off, rpc, res, gone>>
    BY <1>6 DEF Return
  <2>2. \A q \in Requests : pc'[q] = pc[q] \/ (q = r /\ pc[q] = "appended" /\ pc'[q] = "accepted")
    BY <1>0, <2>1
  <2>3. Sending' = Sending /\ InSync' = InSync
    BY <2>1, <2>2 DEF Sending, InSync
  <2>4. \A q \in Requests : Mays(q)' = Mays(q)
    BY <2>1 DEF Mays, MayAck, NextOffset
  <2> QED  BY <2>2, <2>3, <2>4 DEF QuorumInReach
<1> QED  BY <1>1, <1>3, <1>4, <1>5, <1>6 DEF LeaderStep

LEMMA FreeStep ==
    ASSUME MaxInFlight = 1, Required <= Cardinality(Followers),
           IInv, SerialInv, FreeInv, [Next]_vars
    PROVE  FreeInv'
<1> SUFFICES ASSUME faults' = 0
             PROVE  up' = Nodes /\ gone' = {} /\ (Required > 0 => QuorumInReach')
  BY DEF FreeInv, Nodes
<1>1. /\ faults = 0 /\ up = Nodes /\ gone = {} /\ up' = Nodes /\ gone' = {}
      /\ \/ \E r \in Requests : Publish(r) \/ LeaderStep(r)
         \/ \E r \in Requests, f \in Followers :
               Reply(r, f) \/ AppendRecord(r, f) \/ Abandon(r, f)
         \/ UNCHANGED vars
  BY FreeSteps DEF IInv
<1>2. ASSUME Required > 0 PROVE QuorumInReach'
  <2>0. QuorumInReach /\ 0 < Required
    BY <1>1, <1>2, ReplicationAssumption DEF FreeInv
  <2>1. CASE \E r \in Requests : Publish(r) \/ LeaderStep(r)
    BY <1>1, <2>0, <2>1, LeaderKeepsReach
  <2>2. CASE \E r \in Requests, f \in Followers : Reply(r, f) \/ AppendRecord(r, f) \/ Abandon(r, f)
    BY <1>1, <2>0, <2>2, RpcKeepsReach
  <2>3. CASE UNCHANGED vars
    <3>1. Sending' = Sending /\ InSync' = InSync /\ \A r \in Requests : Mays(r)' = Mays(r)
      BY <2>3 DEF vars, Sending, InSync, Mays, MayAck, NextOffset
    <3> QED  BY <2>0, <2>3, <3>1 DEF vars, QuorumInReach
  <2> QED  BY <1>1, <2>1, <2>2, <2>3
<1> QED  BY <1>1, <1>2

(* With one publish at a time, as many followers as the acks required, and *)
(* nothing failing, the partition stays writable: Replicate cancels the    *)
(* POSTs a quorum does not need, and the followers it leaves behind are    *)
(* never so many that the next publish misses its quorum.                  *)
THEOREM StaysWritable ==
    ASSUME MaxInFlight = 1, Required <= Cardinality(Followers)
    PROVE  Spec => []WritableWithoutFaults
<1>1. Init => SerialInv /\ FreeInv
  BY FreeInit DEF Init, SerialInv, Sending
<1>2. IInv /\ IInv' /\ [Next]_vars /\ SerialInv /\ FreeInv => (SerialInv /\ FreeInv)'
  BY SerialStep, FreeStep
<1>3. IInv /\ FreeInv => WritableWithoutFaults
  <2> SUFFICES ASSUME IInv, FreeInv, Quiescent, faults = 0 PROVE Writable
    BY DEF WritableWithoutFaults
  <2>1. up = Nodes /\ gone = {} /\ (Required > 0 => QuorumInReach)
    BY DEF FreeInv
  <2>2. {f \in up \ {Leader} : NextOffset(f) = NextOffset(Leader)} = InSync
    BY <2>1, ReplicationAssumption DEF Nodes, InSync, NextOffset
  <2>3. Sending = {}
    BY DEF Quiescent, Sending, Decided
  <2>4. Cardinality(InSync) \in Nat
    <3>1. InSync \subseteq Followers
      BY DEF InSync
    <3> QED  BY <3>1, FS_Subset, FS_CardinalityType, ReplicationAssumption
  <2>5. CASE Required > 0
    BY <2>1, <2>2, <2>3, <2>5 DEF Writable, QuorumInReach
  <2>6. CASE ~ (Required > 0)
    BY <2>2, <2>4, <2>6, ReplicationAssumption DEF Writable
  <2> QED  BY <2>5, <2>6
<1> QED  BY <1>1, <1>2, <1>3, Invariance, PTL DEF Spec
-----------------------------------------------------------------------------
(* What a log holds.                                                       *)

(* Publishes whose message may be in the leader's log: accepted, about to  *)
(* be, or cut off by the leader's stop.                                    *)
Landed == {"appended", "accepted", "aborted"}

(* Every entry of the leader's log is of such a publish and was            *)
(* acknowledged by a quorum.                                               *)
LeaderHolds ==
    \A i \in 1..Len(log[Leader]) :
        /\ pc[log[Leader][i]] \in Landed
        /\ Cardinality(Acks(log[Leader][i])) >= Required

(* Every entry of a follower's log was applied from a POST with its offset. *)
FollowerHolds ==
    \A f \in Followers : \A i \in 1..Len(log[f]) :
        rpc[log[f][i]][f] = "applied" /\ off[log[f][i]] = i - 1

LeaderOnce ==
    \A i, j \in 1..Len(log[Leader]) : log[Leader][i] = log[Leader][j] => i = j

HoldInv == LeaderHolds /\ FollowerHolds /\ LeaderOnce

(* A publish in the log is never refused afterwards and keeps its          *)
(* acknowledgements, and an applied POST stays applied, at its offset.     *)
LEMMA HoldsOn ==
    ASSUME IInv, Shape
    PROVE  /\ \A r \in Requests : pc[r] \in Landed => pc'[r] \in Landed
           /\ \A r \in Requests, f \in Followers : rpc[r][f] = "applied" =>
                 rpc'[r][f] = "applied" /\ off'[r] = off[r]
<1>1. \A r \in Requests : pc[r] \in Landed => pc'[r] \in Landed
  BY DEF Shape, PcShape, Landed
<1>2. ASSUME NEW r \in Requests, NEW f \in Followers, rpc[r][f] = "applied"
      PROVE  rpc'[r][f] = "applied" /\ off'[r] = off[r]
  <2>1. pc[r] # "idle"
    BY <1>2 DEF IInv, IdleIsFresh
  <2> QED  BY <1>2, <2>1 DEF Shape, RpcShape
<1> QED  BY <1>1, <1>2

(* Publish appends what a quorum acknowledged, AppendRecord what it just   *)
(* applied, and neither has a message twice.                               *)
LEMMA HoldStep == IInv /\ IInv' /\ HoldInv /\ [Next]_vars => HoldInv'
<1> SUFFICES ASSUME IInv, IInv', HoldInv, [Next]_vars PROVE HoldInv'
    OBVIOUS
<1>1. TypeInv /\ TypeInv' /\ Shape
  BY StepShape DEF IInv
<1>2. /\ \A r \in Requests : pc[r] \in Landed => pc'[r] \in Landed
      /\ \A r \in Requests, f \in Followers : rpc[r][f] = "applied" =>
            rpc'[r][f] = "applied" /\ off'[r] = off[r]
  BY <1>1, HoldsOn
<1>3. \A n \in Nodes : log[n] \in Seq(Requests) /\ Len(log[n]) \in Nat
  BY <1>1 DEF TypeInv
<1>4. Leader \in Nodes /\ Followers \subseteq Nodes
  BY DEF Nodes
<1>5. \A r \in Requests :
         Cardinality(Acks(r)) >= Required => Cardinality(Acks(r)') >= Required
  BY <1>1, AcksGrow, ReplicationAssumption
<1>6. LeaderHolds' /\ LeaderOnce'
  <2>1. CASE log'[Leader] = log[Leader]
    <3>1. \A i \in 1..Len(log[Leader]) : log[Leader][i] \in Requests
      BY <1>3, <1>4
    <3>2. LeaderHolds'
      BY <1>2, <1>5, <2>1, <3>1 DEF HoldInv, LeaderHolds
    <3> QED  BY <2>1, <3>2 DEF HoldInv, LeaderOnce
  <2>2. ASSUME NEW r \in Requests, pc[r] = "quorum", pc'[r] = "appended",
               log'[Leader] = Append(log[Leader], r)
        PROVE  LeaderHolds' /\ LeaderOnce'
    <3>1. /\ Len(log'[Leader]) = Len(log[Leader]) + 1
          /\ log'[Leader][Len(log[Leader]) + 1] = r
          /\ \A i \in 1..Len(log[Leader]) :
                log'[Leader][i] = log[Leader][i] /\ log[Leader][i] \in Requests
      BY <1>3, <1>4, <2>2
    <3>2. \A i \in 1..Len(log[Leader]) : pc[log[Leader][i]] \in Landed /\ log[Leader][i] # r
      BY <2>2 DEF HoldInv, LeaderHolds, Landed
    <3>3. \A i \in 1..Len(log'[Leader]) : i \in 1..Len(log[Leader]) \/ i = Len(log[Leader]) + 1
      BY <1>3, <1>4, <3>1
    <3>4. LeaderHolds'
      <4>1. pc'[r] \in Landed /\ Cardinality(Acks(r)') >= Required
        BY <1>5, <2>2 DEF Landed, IInv, QuorumCounted
      <4>2. ASSUME NEW q \in Requests, NEW i \in 1..Len(log[Leader]), q = log[Leader][i]
            PROVE  pc'[q] \in Landed /\ Cardinality(Acks(q)') >= Required
        <5>1. pc[q] \in Landed /\ Cardinality(Acks(q)) >= Required
          BY <4>2 DEF HoldInv, LeaderHolds
        <5> QED  BY <1>2, <1>5, <5>1
      <4>3. ASSUME NEW q \in Requests, NEW i \in 1..Len(log'[Leader]), q = log'[Leader][i]
            PROVE  pc'[q] \in Landed /\ Cardinality(Acks(q)') >= Required
        BY <3>1, <3>3, <4>1, <4>2, <4>3
      <4>4. \A i \in 1..Len(log'[Leader]) : log'[Leader][i] \in Requests
        BY <3>1, <3>3
      <4> QED  BY <4>3, <4>4 DEF LeaderHolds, Acks
    <3>5. LeaderOnce'
      BY <3>1, <3>2, <3>3 DEF HoldInv, LeaderOnce
    <3> QED  BY <3>4, <3>5
  <2> QED  BY <1>1, <2>1, <2>2 DEF Shape, LeaderShape
<1>7. FollowerHolds'
  <2> SUFFICES ASSUME NEW f \in Followers, NEW i \in 1..Len(log'[f])
               PROVE  rpc'[log'[f][i]][f] = "applied" /\ off'[log'[f][i]] = i - 1
    BY DEF FollowerHolds
  <2>1. CASE i \in 1..Len(log[f])
    <3>1. log'[f][i] = log[f][i] /\ log[f][i] \in Requests
      BY <1>1, <1>3, <1>4, <2>1, LogsGrow
    <3>2. rpc[log[f][i]][f] = "applied" /\ off[log[f][i]] = i - 1
      BY <2>1 DEF HoldInv, FollowerHolds
    <3> QED  BY <1>2, <3>1, <3>2
  <2>2. CASE i \notin 1..Len(log[f])
    <3>0. log'[f] # log[f]
      BY <2>2
    <3>1. PICK r \in Requests : /\ rpc[r][f] = "sent" /\ rpc'[r][f] = "applied"
                                /\ off[r] = Len(log[f])
                                /\ log'[f] = Append(log[f], r)
      BY <1>1, <3>0 DEF Shape, FollowerShape
    <3>2. i = Len(log[f]) + 1 /\ log'[f][i] = r
      BY <1>3, <1>4, <2>2, <3>1
    <3>3. pc[r] # "idle"
      BY <3>1 DEF IInv, IdleIsFresh
    <3>4. off'[r] = off[r]
      BY <1>1, <3>3 DEF Shape, OffShape
    <3> QED  BY <1>3, <1>4, <3>1, <3>2, <3>4
  <2> QED  BY <2>1, <2>2
<1> QED  BY <1>6, <1>7 DEF HoldInv

(* The logs hold what a quorum acknowledged and what was applied.          *)
LEMMA HoldInvariance == Spec => []HoldInv
<1>1. Init => HoldInv
  BY DEF Init, HoldInv, LeaderHolds, FollowerHolds, LeaderOnce, Nodes
<1> QED  BY <1>1, HoldStep, Invariance, PTL DEF Spec

(* No node stores a message twice.                                         *)
StoredOnce ==
    \A n \in Nodes : \A i, j \in 1..Len(log[n]) : log[n][i] = log[n][j] => i = j

(* What consumers can read of the partition, the leader's log, is on a     *)
(* quorum of followers, and its publish was accepted, is about to be, or   *)
(* was cut off by the leader's stop: it was never refused.                 *)
ReadableBacked ==
    \A r \in Range(log[Leader]) :
        /\ pc[r] \in Landed
        /\ Cardinality({f \in Followers : r \in Range(log[f])}) >= Required

(* A publish appends its message at most once on the leader and on each    *)
(* follower, whatever was late, lost or cancelled: the only duplicates a   *)
(* partition has are the messages its publishers sent again.               *)
THEOREM StoredOnceHolds == Spec => []StoredOnce
<1>1. IInv /\ HoldInv => StoredOnce
  <2> SUFFICES ASSUME IInv, HoldInv, NEW n \in Nodes, NEW i \in 1..Len(log[n]),
                      NEW j \in 1..Len(log[n]), log[n][i] = log[n][j]
               PROVE  i = j
    BY DEF StoredOnce
  <2>1. CASE n = Leader
    BY <2>1 DEF HoldInv, LeaderOnce
  <2>2. CASE n \in Followers
    <3>1. off[log[n][i]] = i - 1 /\ off[log[n][j]] = j - 1
      BY <2>2 DEF HoldInv, FollowerHolds
    <3>2. Len(log[n]) \in Nat
      BY DEF IInv, TypeInv
    <3> QED  BY <3>1, <3>2
  <2> QED  BY <2>1, <2>2 DEF Nodes
<1> QED  BY <1>1, HoldInvariance, Invariance, PTL

(* Runtime.Publish appends to its own log last: a consumer never gets a    *)
(* message from the leader that fewer than required_follower_acks          *)
(* followers have stored, or whose publisher was told it was refused, also *)
(* when the leader stops between the append and the answer.                *)
THEOREM ReadableBackedHolds == Spec => []ReadableBacked
<1>1. IInv /\ HoldInv => ReadableBacked
  <2> SUFFICES ASSUME IInv, HoldInv, NEW r \in Range(log[Leader])
               PROVE  /\ pc[r] \in Landed
                      /\ Cardinality({f \in Followers : r \in Range(log[f])}) >= Required
    BY DEF ReadableBacked
  <2>1. log[Leader] \in Seq(Requests) /\ DOMAIN log[Leader] = 1..Len(log[Leader])
    BY DEF IInv, TypeInv, Nodes
  <2>2. PICK i \in 1..Len(log[Leader]) : log[Leader][i] = r
    BY <2>1 DEF Range
  <2>3. r \in Requests
    BY <2>1, <2>2
  <2>4. pc[r] \in Landed /\ Cardinality(Acks(r)) >= Required
    BY <2>2 DEF HoldInv, LeaderHolds
  <2> QED  BY <2>3, <2>4, AckedIsHeld
<1> QED  BY <1>1, HoldInvariance, Invariance, PTL
=============================================================================
