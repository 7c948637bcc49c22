---------------------------- MODULE Replication ----------------------------
(***************************************************************************)
(* Leader-driven replication of ONE partition: Runtime.Publish on the      *)
(* leader, ReplicationCoordinator.Replicate with one goroutine for each    *)
(* follower, the HTTP replication transport, and ReplicationHandler with   *)
(* PartitionStore.AppendRecord on the followers.                           *)
(*                                                                         *)
(* A request is one publish call.  It is its own message: a streamer that  *)
(* retries builds a new message, so a retry is another request.            *)
(* Storage is taken at its contract (PartitionStore): log[n] is the synced *)
(* log of node n and its length is the node's nextOffset.                  *)
(***************************************************************************)
EXTENDS Integers, Sequences, FiniteSets, Functions

CONSTANTS
    Leader,       \* the node that leads the partition
    Followers,    \* its follower replicas
    Requests,     \* publish calls
    Required,     \* replication.required_follower_acks
    MaxInFlight,  \* bound: publish calls open at the leader at a time
    FaultKinds,   \* the faults this instance may meet
    MaxFaults     \* bound: how many of them

ASSUME ReplicationAssumption ==
    /\ Leader \notin Followers
    /\ IsFiniteSet(Followers)
    /\ IsFiniteSet(Requests)
    /\ Required \in Int
    /\ MaxInFlight \in Nat
    /\ MaxFaults \in Nat
    /\ FaultKinds \subseteq {"timeout", "disconnect", "follower", "leader"}

Nodes == Followers \union {Leader}

VARIABLES
    log,     \* log[n]: the messages stored by node n, in offset order
    up,      \* the nodes that are running
    pc,      \* pc[r]: where Runtime.Publish is for request r
    off,     \* off[r]: the offset Publish read before it replicated
    rpc,     \* rpc[r][f]: the replication POST for r to follower f
    res,     \* res[r][f]: what the goroutine for f wrote to resultCh
    gone,    \* the requests whose HTTP client disconnected
    faults   \* faults so far

vars == <<log, up, pc, off, rpc, res, gone, faults>>

PCs == {"idle", "replicating", "quorum", "appended", "accepted", "rejected", "aborted"}

Decided == {"accepted", "rejected", "aborted"}

TypeInv ==
    /\ log \in [Nodes -> Seq(Requests)]
    /\ up \subseteq Nodes
    /\ pc \in [Requests -> PCs]
    /\ off \in [Requests -> Nat]
    /\ rpc \in [Requests -> [Followers -> {"none", "sent", "applied", "refused", "lost"}]]
    /\ res \in [Requests -> [Followers -> {"none", "ok", "fail"}]]
    /\ gone \subseteq Requests
    /\ faults \in 0..MaxFaults

Init ==
    /\ log = [n \in Nodes |-> <<>>]
    /\ up = Nodes
    /\ pc = [r \in Requests |-> "idle"]
    /\ off = [r \in Requests |-> 0]
    /\ rpc = [r \in Requests |-> [f \in Followers |-> "none"]]
    /\ res = [r \in Requests |-> [f \in Followers |-> "none"]]
    /\ gone = {}
    /\ faults = 0

NextOffset(n) == Len(log[n])

Acks(r) == {f \in Followers : res[r][f] = "ok"}

(* A publish call that has not returned, after its fan-out.                *)
Running == {"replicating", "quorum", "appended"}

(* Publish calls whose client is still waiting for the answer.             *)
Open == {r \in Requests \ gone : pc[r] \in Running}

Fault(kind) ==
    /\ kind \in FaultKinds
    /\ faults < MaxFaults
    /\ faults' = faults + 1

-----------------------------------------------------------------------------
(* The leader.                                                             *)

(* What Replicate does with the threshold before it starts a goroutine.    *)
Threshold ==
    IF Required <= 0 THEN "quorum"
    ELSE IF Required > Cardinality(Followers) THEN "rejected"
    ELSE "replicating"

M_PublishNextButOne(r) ==
    /\ Leader \in up
    /\ pc[r] = "idle"
    /\ Cardinality(Open) < MaxInFlight
    /\ off' = [off EXCEPT ![r] = NextOffset(Leader) + 1]
    /\ pc' = [pc EXCEPT ![r] = Threshold]
    /\ rpc' = [rpc EXCEPT ![r] = [f \in Followers |->
                  IF Threshold = "replicating" THEN "sent" ELSE "none"]]
    /\ UNCHANGED <<log, up, res, gone, faults>>

(* Runtime.Publish up to the fan-out: snapshot the next offset, without    *)
(* the store's lock being held until the append, and start one replication *)
(* goroutine for each follower.                                            *)
Publish(r) ==
    /\ Leader \in up
    /\ pc[r] = "idle"
    /\ Cardinality(Open) < MaxInFlight
    /\ off' = [off EXCEPT ![r] = NextOffset(Leader)]
    /\ pc' = [pc EXCEPT ![r] = Threshold]
    /\ rpc' = [rpc EXCEPT ![r] = [f \in Followers |->
                  IF Threshold = "replicating" THEN "sent" ELSE "none"]]
    /\ UNCHANGED <<log, up, res, gone, faults>>

(* A goroutine gets the follower's answer and writes it to resultCh.       *)
Reply(r, f) ==
    /\ res[r][f] = "none"
    /\ rpc[r][f] \in {"applied", "refused"}
    /\ res' = [res EXCEPT ![r][f] = IF rpc[r][f] = "applied" THEN "ok" ELSE "fail"]
    /\ UNCHANGED <<log, up, pc, off, rpc, gone, faults>>

M_QuorumOneShort(r) ==
    /\ pc[r] = "replicating"
    /\ Cardinality(Acks(r)) >= Required - 1
    /\ pc' = [pc EXCEPT ![r] = "quorum"]
    /\ res' = [res EXCEPT ![r] = [f \in Followers |->
                  IF @[f] = "none" THEN "fail" ELSE @[f]]]
    /\ UNCHANGED <<log, up, off, rpc, gone, faults>>

(* The coordinator has enough successes: it cancels the context of the     *)
(* goroutines that are still waiting and returns nil.                      *)
Quorum(r) ==
    /\ pc[r] = "replicating"
    /\ Cardinality(Acks(r)) >= Required
    /\ pc' = [pc EXCEPT ![r] = "quorum"]
    /\ res' = [res EXCEPT ![r] = [f \in Followers |->
                  IF @[f] = "none" THEN "fail" ELSE @[f]]]
    /\ UNCHANGED <<log, up, off, rpc, gone, faults>>

(* Every goroutine has reported and too few succeeded: ErrReplicationQuorum *)
(* (503).  What the followers stored stays stored.                         *)
NoQuorum(r) ==
    /\ pc[r] = "replicating"
    /\ \A f \in Followers : res[r][f] # "none"
    /\ Cardinality(Acks(r)) < Required
    /\ pc' = [pc EXCEPT ![r] = "rejected"]
    /\ UNCHANGED <<log, up, off, rpc, res, gone, faults>>

(* Publish appends to its own log, at whatever offset is next by then.     *)
(* Append refuses a cancelled context.  From here on consumers can read    *)
(* the message.                                                            *)
AppendLocal(r) ==
    /\ pc[r] = "quorum"
    /\ IF r \in gone
       THEN /\ pc' = [pc EXCEPT ![r] = "rejected"]
            /\ UNCHANGED log
       ELSE /\ pc' = [pc EXCEPT ![r] = "appended"]
            /\ log' = [log EXCEPT ![Leader] = Append(@, r)]
    /\ UNCHANGED <<up, off, rpc, res, gone, faults>>

(* Publish returns nil and the handler answers 202.                        *)
Return(r) ==
    /\ pc[r] = "appended"
    /\ pc' = [pc EXCEPT ![r] = "accepted"]
    /\ UNCHANGED <<log, up, off, rpc, res, gone, faults>>

-----------------------------------------------------------------------------
(* A follower.                                                             *)

M_AppendAnyRecord(r, f) ==
    /\ f \in up
    /\ rpc[r][f] = "sent"
    /\ rpc' = [rpc EXCEPT ![r][f] = "applied"]
    /\ log' = [log EXCEPT ![f] = Append(@, r)]
    /\ UNCHANGED <<up, pc, off, res, gone, faults>>

M_AppendRecordBeyond(r, f) ==
    /\ f \in up
    /\ rpc[r][f] = "sent"
    /\ IF off[r] >= NextOffset(f)
       THEN /\ rpc' = [rpc EXCEPT ![r][f] = "applied"]
            /\ log' = [log EXCEPT ![f] = Append(@, r)]
       ELSE /\ rpc' = [rpc EXCEPT ![r][f] = "refused"]
            /\ UNCHANGED log
    /\ UNCHANGED <<up, pc, off, res, gone, faults>>

M_AppendRecordSkips(r, f) ==
    /\ f \in up
    /\ rpc[r][f] = "sent"
    /\ rpc' = [rpc EXCEPT ![r][f] = "applied"]
    /\ log' = [log EXCEPT ![f] = IF off[r] = NextOffset(f) THEN Append(@, r) ELSE @]
    /\ UNCHANGED <<up, pc, off, res, gone, faults>>

(* ReplicationHandler: the record is appended exactly when its offset is   *)
(* the follower's next one, and refused with 409 otherwise.                *)
AppendRecord(r, f) ==
    /\ f \in up
    /\ rpc[r][f] = "sent"
    /\ IF off[r] = NextOffset(f)
       THEN /\ rpc' = [rpc EXCEPT ![r][f] = "applied"]
            /\ log' = [log EXCEPT ![f] = Append(@, r)]
       ELSE /\ rpc' = [rpc EXCEPT ![r][f] = "refused"]
            /\ UNCHANGED log
    /\ UNCHANGED <<up, pc, off, res, gone, faults>>

-----------------------------------------------------------------------------
(* The network and the processes.                                          *)

M_GiveUpNoTimeout(r, f) ==
    /\ pc[r] = "replicating"
    /\ res[r][f] = "none"
    /\ r \in gone
    /\ res' = [res EXCEPT ![r][f] = "fail"]
    /\ UNCHANGED <<log, up, pc, off, rpc, gone, faults>>

(* A goroutine gives up on a POST that has not been answered: the client's *)
(* 10 s timeout or a broken connection (a fault), a follower that refuses  *)
(* connections, or a cancelled context.  The POST may still be on its way. *)
GiveUp(r, f) ==
    /\ pc[r] = "replicating"
    /\ res[r][f] = "none"
    /\ \/ f \notin up /\ UNCHANGED faults
       \/ r \in gone /\ UNCHANGED faults
       \/ Fault("timeout")
    /\ res' = [res EXCEPT ![r][f] = "fail"]
    /\ UNCHANGED <<log, up, pc, off, rpc, gone>>

(* A POST nobody waits for any more never reaches the store: it was not    *)
(* sent, or the handler found its context cancelled.                       *)
Abandon(r, f) ==
    /\ rpc[r][f] = "sent"
    /\ res[r][f] # "none"
    /\ rpc' = [rpc EXCEPT ![r][f] = "lost"]
    /\ UNCHANGED <<log, up, pc, off, res, gone, faults>>

(* The publisher's connection goes away: the request context is cancelled. *)
Disconnect(r) ==
    /\ r \in Open
    /\ Fault("disconnect")
    /\ gone' = gone \union {r}
    /\ UNCHANGED <<log, up, pc, off, rpc, res>>

(* A follower process stops: answers it had not delivered are lost.        *)
CrashFollower(f) ==
    /\ f \in up
    /\ Fault("follower")
    /\ up' = up \ {f}
    /\ res' = [r \in Requests |-> [res[r] EXCEPT ![f] =
                  IF @ = "none" /\ rpc[r][f] \in {"applied", "refused"} THEN "fail" ELSE @]]
    /\ UNCHANGED <<log, pc, off, rpc, gone>>

(* The leader process stops: every open publish ends without an answer,    *)
(* also one whose message is in the log.                                   *)
CrashLeader ==
    /\ Leader \in up
    /\ Fault("leader")
    /\ up' = up \ {Leader}
    /\ pc' = [r \in Requests |->
                 IF pc[r] \in Running THEN "aborted" ELSE pc[r]]
    /\ res' = [r \in Requests |-> [f \in Followers |->
                 IF res[r][f] = "none" /\ pc[r] = "replicating" THEN "fail" ELSE res[r][f]]]
    /\ UNCHANGED <<log, off, rpc, gone>>

(* A node starts again and recovers its next offset from its log.  Nothing *)
(* is copied from another node: there is no catch-up.                      *)
Restart(n) ==
    /\ n \notin up
    /\ up' = up \union {n}
    /\ UNCHANGED <<log, pc, off, rpc, res, gone, faults>>

-----------------------------------------------------------------------------

(* Every publish has been decided and no POST is under way.                *)
Quiescent ==
    /\ \A r \in Requests : pc[r] \in Decided \union {"idle"}
    /\ \A r \in Requests, f \in Followers : rpc[r][f] # "sent"

(* The finite set of requests is used up.                                  *)
Terminating ==
    /\ Quiescent
    /\ \A r \in Requests : pc[r] # "idle"
    /\ UNCHANGED vars

LeaderStep(r) ==
    \/ Quorum(r)
    \/ NoQuorum(r)
    \/ AppendLocal(r)
    \/ Return(r)

RpcStep(r, f) ==
    \/ Reply(r, f)
    \/ AppendRecord(r, f)
    \/ GiveUp(r, f)
    \/ Abandon(r, f)

Next ==
    \/ \E r \in Requests : Publish(r) \/ LeaderStep(r) \/ Disconnect(r)
    \/ \E r \in Requests, f \in Followers : RpcStep(r, f)
    \/ \E f \in Followers : CrashFollower(f)
    \/ CrashLeader
    \/ \E n \in Nodes : Restart(n)
    \/ Terminating

Spec == Init /\ [][Next]_vars

(* A goroutine whose POST can be handled or must fail makes progress, and  *)
(* Publish runs on: the Go scheduler and the 10 s client timeout.  Nothing *)
(* is assumed of faults, of restarts or of new publishes.                  *)
Fairness ==
    /\ \A r \in Requests : WF_vars(LeaderStep(r))
    /\ \A r \in Requests, f \in Followers :
          /\ WF_vars(Reply(r, f))
          /\ WF_vars(AppendRecord(r, f))
          /\ WF_vars(f \notin up /\ GiveUp(r, f))

FairSpec == Spec /\ Fairness

-----------------------------------------------------------------------------
(* Properties.                                                             *)

(* Types of every variable (Runtime, PartitionStore and coordinator state), *)
(* and no publish works with an offset its leader has not reached.         *)
TypeOK ==
    /\ TypeInv
    /\ \A r \in Requests : off[r] <= NextOffset(Leader)

(* Runtime.Publish returns nil only for a message that is in the leader's  *)
(* log and in the logs of at least required_follower_acks followers,       *)
(* whatever was cancelled, timed out or crashed on the way.                *)
AcceptedOnQuorum ==
    \A r \in Requests : pc[r] = "accepted" =>
        /\ r \in Range(log[Leader])
        /\ Cardinality({f \in Followers : r \in Range(log[f])}) >= Required

(* AppendRecord's offset check: a follower is never more than one record   *)
(* ahead of the leader, the record being one the leader replicated and did *)
(* not append.                                                             *)
FollowerLead ==
    \A f \in Followers : NextOffset(f) <= NextOffset(Leader) + 1

(* An accepted message has the offset it was replicated with, on the       *)
(* leader and on every follower whose acknowledgement was counted.         *)
AcceptedAgreement ==
    \A r \in Requests : pc[r] = "accepted" =>
        \A n \in Acks(r) \union {Leader} :
            off[r] < NextOffset(n) /\ log[n][off[r] + 1] = r

(* Follower f is behind the leader and no POST under way has its next      *)
(* offset.                                                                 *)
Stranded(f) ==
    /\ NextOffset(f) < NextOffset(Leader)
    /\ \A r \in Requests : rpc[r][f] = "sent" => off[r] # NextOffset(f)

(* AppendRecord takes only the next offset and nothing resends a record:   *)
(* a follower that missed one stays behind for good, and stores nothing    *)
(* any more.                                                               *)
StrandedForGood ==
    [][\A f \in Followers : Stranded(f) => Stranded(f)' /\ log'[f] = log[f]]_vars

(* Enough followers can take the record the next publish will send.        *)
Writable ==
    Cardinality({f \in up \ {Leader} : NextOffset(f) = NextOffset(Leader)}) >= Required

(* Follower f has acknowledged r or still may.                             *)
MayAck(r, f) ==
    \/ res[r][f] = "ok"
    \/ res[r][f] = "none" /\ rpc[r][f] = "applied"
    \/ res[r][f] = "none" /\ rpc[r][f] = "sent" /\ off[r] = NextOffset(f)

(* Too few followers are at the leader's offset, those behind it are       *)
(* stranded, and no publish under way can reach its quorum.                *)
Wedged ==
    /\ \A f \in Followers : NextOffset(f) < NextOffset(Leader) => Stranded(f)
    /\ Cardinality({f \in Followers : NextOffset(f) = NextOffset(Leader)}) < Required
    /\ \A r \in Requests :
          /\ pc[r] # "quorum"
          /\ pc[r] = "replicating" =>
                Cardinality({f \in Followers : MayAck(r, f)}) < Required

(* A wedged partition stays wedged: no retry, restart or recovery lets its *)
(* leader append again, because Replicate offers a follower only the       *)
(* leader's offset and AppendRecord takes only the follower's.             *)
WedgedForGood ==
    [][Wedged => Wedged' /\ log'[Leader] = log[Leader]]_vars

(* As long as nothing fails, the leader can reach a quorum again whenever  *)
(* nothing is under way: the followers whose POSTs a quorum cancelled may  *)
(* fall behind, but never too many of them.                                *)
WritableWithoutFaults ==
    Quiescent /\ faults = 0 => Writable

(* With at most one follower down, and nothing under way, a publish can    *)
(* reach its quorum.                                                       *)
WritableWithOneDown ==
    Quiescent /\ Leader \in up /\ Cardinality(Nodes \ up) <= 1 => Writable

(* Every publish the leader starts is decided: Replicate hears from every  *)
(* goroutine, and Publish does not wait for ever.                          *)
PublishDecided ==
    \A r \in Requests : pc[r] = "replicating" ~> pc[r] \in Decided
=============================================================================
