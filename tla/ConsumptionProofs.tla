------------------------- MODULE ConsumptionProofs -------------------------
(***************************************************************************)
(* Proofs about Consumption, for any number of nodes, partitions,          *)
(* processors, messages and faults, when no two groups consume the same    *)
(* topic: the types, that no group's offset passes a message the group has *)
(* not stored, that the two records of deliveries agree, that a partition  *)
(* is in one hand until a node restarts, and that the whole implements     *)
(* OrderedDelivery.                                                        *)
(***************************************************************************)
EXTENDS Consumption, FiniteSetTheorems, TLAPS

(* Where a poll or a processor stands.  A poll that has read an offset     *)
(* found everything below it done; a message about to be delivered is the  *)
(* one in the log there; a message is acknowledged once it is stored.      *)
ProcInv(c) ==
    /\ pc[c] \in {"read", "skip", "mark"} =>
          off[c] <= Len(log[at[c]]) /\ DoneBelow(KeyOf[c], at[c], off[c])
    /\ pc[c] \in {"skip", "mark"} =>
          /\ off[c] < Len(log[at[c]])
          /\ msg[c] = log[at[c]][off[c] + 1]
          /\ pc[c] = "mark" <=> Wanted(KeyOf[c], msg[c])
    /\ pc[c] \in Holding => msg[c] \in Messages /\ Wanted(KeyOf[c], msg[c])
    /\ pc[c] = "ack" => <<KeyOf[c], msg[c]>> \in stored

(* A group's next offset is in its log, and everything below it is done.   *)
NextInv ==
    \A k \in Keys, p \in Partitions :
        next[k][p] <= Len(log[p]) /\ DoneBelow(k, p, next[k][p])

(* A delivery in flight is backed by its partition, is of its group's      *)
(* topic, and everything below its offset is done.                         *)
FlightInv ==
    \A m \in Messages : inflight[m] # None =>
        LET d == inflight[m] IN
        /\ cur[d.key][d.part] = m
        /\ d.off < Len(log[d.part])
        /\ log[d.part][d.off + 1] = m
        /\ Wanted(d.key, m)
        /\ DoneBelow(d.key, d.part, d.off)

(* Some group of the message's topic has stored m.                         *)
StoredByTopic(m) == \E k \in Keys : Wanted(k, m) /\ <<k, m>> \in stored

(* An ack on its way is for a message that was stored.                     *)
LateInv == \A m \in late : StoredByTopic(m)

CInv ==
    /\ TypeInv
    /\ NextInv
    /\ \A c \in Processors : ProcInv(c)
    /\ FlightInv
    /\ LateInv

(* No two groups consume the same topic.                                   *)
OneGroupPerTopic == \A k, l \in Keys : KeyTopic[k] = KeyTopic[l] => k = l

-----------------------------------------------------------------------------
(* Facts about the parts of a state.                                       *)

(* What is done below an offset stays done while the log grows at its end  *)
(* and records are only added to Postgres.                                 *)
LEMMA DoneStays ==
    ASSUME NEW k, NEW p, NEW n \in Nat,
           Len(log[p]) \in Nat,
           n <= Len(log[p]),
           DoneBelow(k, p, n),
           \A i \in 1..Len(log[p]) : log'[p][i] = log[p][i],
           stored \subseteq stored'
    PROVE  \A i \in 1..n : Wanted(k, log'[p][i]) => <<k, log'[p][i]>> \in stored'
<1>1. \A i \in 1..n : i \in 1..Len(log[p])
  OBVIOUS
<1> QED  BY <1>1 DEF DoneBelow, Wanted

(* One message further: done below n and with the message at n done or     *)
(* unwanted is done below n + 1.                                           *)
LEMMA DoneNext ==
    ASSUME NEW k, NEW p, NEW n \in Nat,
           DoneBelow(k, p, n),
           Wanted(k, log[p][n + 1]) => <<k, log[p][n + 1]>> \in stored
    PROVE  DoneBelow(k, p, n + 1)
<1>1. \A i \in 1..(n + 1) : i \in 1..n \/ i = n + 1
  OBVIOUS
<1> QED  BY <1>1 DEF DoneBelow

(* A poll or a RunOnce that returns changes nothing of the others.         *)
LEMMA ReturnType ==
    ASSUME TypeInv, NEW c \in Processors, Return(c)
    PROVE  /\ pc' \in [Processors -> PCs]
           /\ off' \in [Processors -> Nat]
           /\ msg' \in [Processors -> Messages \union {None}]
           /\ pc'[c] = "idle"
           /\ \A d \in Processors \ {c} :
                 pc'[d] = pc[d] /\ off'[d] = off[d] /\ msg'[d] = msg[d]
BY DEF TypeInv, Return, PCs

(* The partition a poll goes on with is one of the node's.                 *)
LEMMA NothingHereType ==
    ASSUME TypeInv, NEW c \in Processors, NothingHere(c)
    PROVE  /\ pc' \in [Processors -> PCs]
           /\ at' \in [Processors -> Partitions]
           /\ off' \in [Processors -> Nat]
           /\ msg' \in [Processors -> Messages \union {None}]
           /\ pc'[c] \in {"idle", "next"}
           /\ \A d \in Processors \ {c} :
                 pc'[d] = pc[d] /\ at'[d] = at[d] /\ off'[d] = off[d] /\ msg'[d] = msg[d]
<1>1. \A p \in First(Later(c)) : p \in Partitions
  BY DEF First, Later, LedBy
<1>2. CASE Return(c) /\ UNCHANGED at
  BY <1>2, ReturnType DEF TypeInv
<1>3. CASE /\ pc' = [pc EXCEPT ![c] = "next"]
           /\ \E p \in First(Later(c)) : at' = [at EXCEPT ![c] = p]
           /\ UNCHANGED <<off, msg>>
  BY <1>1, <1>3 DEF TypeInv, PCs, Polling
<1> QED  BY <1>2, <1>3 DEF NothingHere

(* The initial state: nothing published, nothing delivered.                *)
LEMMA ConsumptionInit == Init => CInv
<1> SUFFICES ASSUME Init PROVE CInv
  OBVIOUS
<1>0. (CHOOSE p \in Partitions : TRUE) \in Partitions
  BY ConsumerAssumption
<1>1. TypeInv
  <2>1. ConsumerTypeOK
    BY DEF Init, ConsumerInit, ConsumerTypeOK
  <2>2. faults \in Seq(FaultKinds) /\ Len(faults) <= MaxFaults
    BY ConsumptionAssumption DEF Init
  <2> QED  BY <1>0, <2>1, <2>2 DEF Init, TypeInv, PCs
<1>2. NextInv
  BY DEF Init, ConsumerInit, NextInv, DoneBelow
<1>3. \A c \in Processors : ProcInv(c)
  BY DEF Init, ProcInv, Holding
<1>4. FlightInv /\ LateInv
  BY DEF Init, ConsumerInit, FlightInv, LateInv
<1> QED  BY <1>1, <1>2, <1>3, <1>4 DEF CInv

-----------------------------------------------------------------------------
(* Steps that change nothing but where one processor stands.               *)

(* If the step leaves logs, Postgres and consumerState alone, what has to  *)
(* be shown is the processor that took it.                                 *)
LEMMA LocalStep ==
    ASSUME CInv, NEW c \in Processors,
           UNCHANGED <<consumerVars, log, stored>>,
           TypeInv', LateInv', ProcInv(c)',
           \A d \in Processors \ {c} :
              pc'[d] = pc[d] /\ at'[d] = at[d] /\ off'[d] = off[d] /\ msg'[d] = msg[d]
    PROVE  CInv'
<1>1. NextInv'
  BY DEF CInv, NextInv, DoneBelow, consumerVars
<1>2. FlightInv'
  BY DEF CInv, FlightInv, DoneBelow, consumerVars
<1>3. ASSUME NEW d \in Processors PROVE ProcInv(d)'
  <2>1. CASE d = c
    BY <2>1
  <2>2. CASE d # c
    BY <2>2 DEF CInv, ProcInv, DoneBelow
  <2> QED  BY <2>1, <2>2
<1> QED  BY <1>1, <1>2, <1>3 DEF CInv

(* A request reaches a node: the poll begins at a partition of it.         *)
LEMMA PollKeeps ==
    ASSUME CInv, NEW c \in Processors, NEW n \in Nodes, Poll(c, n)
    PROVE  CInv'
<1>0. TypeInv
  BY DEF CInv
<1>1. PICK p \in First(LedBy(n)) : at' = [at EXCEPT ![c] = p]
  BY DEF Poll
<1>2. p \in Partitions
  BY DEF First, LedBy
<1>3. /\ pc' = [pc EXCEPT ![c] = "next"]
      /\ UNCHANGED <<consumerVars, log, off, msg, late, stored, faults>>
  BY DEF Poll
<1>4. TypeInv'
  BY <1>0, <1>1, <1>2, <1>3 DEF TypeInv, ConsumerTypeOK, consumerVars, PCs, Polling
<1>5. pc'[c] = "next"
  BY <1>0, <1>3 DEF TypeInv
<1>6. ProcInv(c)'
  BY <1>5 DEF ProcInv, Holding
<1>7. LateInv'
  BY <1>3 DEF CInv, LateInv, StoredByTopic
<1>8. \A d \in Processors \ {c} :
         pc'[d] = pc[d] /\ at'[d] = at[d] /\ off'[d] = off[d] /\ msg'[d] = msg[d]
  BY <1>0, <1>1, <1>3 DEF TypeInv
<1> QED  BY <1>3, <1>4, <1>6, <1>7, <1>8, LocalStep

(* A poll that finds nothing in a partition goes on or ends.               *)
LEMMA NothingKeeps ==
    ASSUME CInv, NEW c \in Processors, NothingHere(c),
           UNCHANGED <<consumerVars, log, late, stored, faults>>
    PROVE  CInv'
<1>0. TypeInv
  BY DEF CInv
<1>1. /\ pc' \in [Processors -> PCs]
      /\ at' \in [Processors -> Partitions]
      /\ off' \in [Processors -> Nat]
      /\ msg' \in [Processors -> Messages \union {None}]
      /\ pc'[c] \in {"idle", "next"}
      /\ \A d \in Processors \ {c} :
            pc'[d] = pc[d] /\ at'[d] = at[d] /\ off'[d] = off[d] /\ msg'[d] = msg[d]
  BY <1>0, NothingHereType
<1>2. TypeInv'
  BY <1>0, <1>1 DEF TypeInv, ConsumerTypeOK, consumerVars
<1>3. ProcInv(c)'
  BY <1>1 DEF ProcInv, Holding
<1>4. LateInv'
  BY DEF CInv, LateInv, StoredByTopic
<1> QED  BY <1>1, <1>2, <1>3, <1>4, LocalStep

(* nextOffset hands a poll an offset below which everything is done.       *)
LEMMA NextOffsetKeeps ==
    ASSUME CInv, NEW c \in Processors, NextOffset(c)
    PROVE  CInv'
<1>0. TypeInv /\ KeyOf[c] \in Keys /\ at[c] \in Partitions
  BY ConsumptionAssumption DEF CInv, TypeInv
<1>1. CASE cur[KeyOf[c]][at[c]] # None
  <2>1. NothingHere(c) /\ UNCHANGED <<consumerVars, log, late, stored, faults>>
    BY <1>1 DEF NextOffset
  <2> QED  BY <2>1, NothingKeeps
<1>2. CASE cur[KeyOf[c]][at[c]] = None
  <2>1. /\ pc' = [pc EXCEPT ![c] = "read"]
        /\ off' = [off EXCEPT ![c] = next[KeyOf[c]][at[c]]]
        /\ UNCHANGED <<consumerVars, log, at, msg, late, stored, faults>>
    BY <1>2 DEF NextOffset
  <2>2. next[KeyOf[c]][at[c]] \in Nat
    BY <1>0 DEF TypeInv, ConsumerTypeOK
  <2>3. TypeInv'
    BY <1>0, <2>1, <2>2 DEF TypeInv, ConsumerTypeOK, consumerVars, PCs, Polling
  <2>4. pc'[c] = "read" /\ off'[c] = next[KeyOf[c]][at[c]] /\ at'[c] = at[c]
    BY <1>0, <2>1 DEF TypeInv
  <2>5. next[KeyOf[c]][at[c]] <= Len(log[at[c]]) /\ DoneBelow(KeyOf[c], at[c], next[KeyOf[c]][at[c]])
    BY <1>0 DEF CInv, NextInv
  <2>6. ProcInv(c)'
    BY <2>1, <2>4, <2>5 DEF ProcInv, DoneBelow, Holding
  <2>7. LateInv'
    BY <2>1 DEF CInv, LateInv, StoredByTopic
  <2>8. \A d \in Processors \ {c} :
           pc'[d] = pc[d] /\ at'[d] = at[d] /\ off'[d] = off[d] /\ msg'[d] = msg[d]
    BY <1>0, <2>1 DEF TypeInv
  <2> QED  BY <2>1, <2>3, <2>6, <2>7, <2>8, LocalStep
<1> QED  BY <1>1, <1>2

(* storage.Read finds nothing, or the message of the log at the offset.    *)
LEMMA ReadKeeps ==
    ASSUME CInv, NEW c \in Processors, Read(c)
    PROVE  CInv'
<1>0. /\ TypeInv /\ KeyOf[c] \in Keys /\ at[c] \in Partitions /\ off[c] \in Nat
      /\ log[at[c]] \in Seq(Messages) /\ Len(log[at[c]]) \in Nat
  BY ConsumptionAssumption DEF CInv, TypeInv
<1>1. CASE off[c] >= Len(log[at[c]])
  <2>1. NothingHere(c) /\ UNCHANGED <<consumerVars, log, late, stored, faults>>
    BY <1>1 DEF Read
  <2> QED  BY <2>1, NothingKeeps
<1>2. CASE ~(off[c] >= Len(log[at[c]]))
  <2> DEFINE m == log[at[c]][off[c] + 1]
             x == IF Wanted(KeyOf[c], m) THEN "mark" ELSE "skip"
  <2>1. /\ pc' = [pc EXCEPT ![c] = x]
        /\ msg' = [msg EXCEPT ![c] = m]
        /\ UNCHANGED <<consumerVars, log, at, off, late, stored, faults>>
    BY <1>2 DEF Read
  <2>2. m \in Messages
    BY <1>0, <1>2
  <2>3. x \in {"mark", "skip"} /\ (x = "mark" <=> Wanted(KeyOf[c], m))
    OBVIOUS
  <2>4. pc'[c] = x /\ msg'[c] = m /\ off'[c] = off[c] /\ at'[c] = at[c]
    BY <1>0, <2>1 DEF TypeInv
  <2> HIDE DEF m, x
  <2>5. TypeInv'
    BY <1>0, <2>1, <2>2, <2>3 DEF TypeInv, ConsumerTypeOK, consumerVars, PCs, Polling
  <2>6. DoneBelow(KeyOf[c], at[c], off[c]) /\ off[c] < Len(log[at[c]])
    <3>1. pc[c] = "read"
      BY DEF Read
    <3>2. ProcInv(c)
      BY DEF CInv
    <3>3. DoneBelow(KeyOf[c], at[c], off[c])
      BY <3>1, <3>2 DEF ProcInv
    <3> QED  BY <1>0, <1>2, <3>3
  <2>7. ProcInv(c)'
    <3>1. off'[c] <= Len(log'[at'[c]]) /\ off'[c] < Len(log'[at'[c]])
      BY <1>0, <2>1, <2>4, <2>6
    <3>2. DoneBelow(KeyOf[c], at[c], off[c])'
      BY <2>1, <2>4, <2>6 DEF DoneBelow
    <3>3. msg'[c] = log'[at'[c]][off'[c] + 1]
      BY <2>1, <2>4 DEF m
    <3>4. pc'[c] \in {"mark", "skip"} /\ (pc'[c] = "mark" <=> Wanted(KeyOf[c], msg'[c]))
      BY <2>3, <2>4
    <3> QED  BY <3>1, <3>2, <3>3, <3>4 DEF ProcInv, Wanted, Holding
  <2>8. LateInv'
    BY <2>1 DEF CInv, LateInv, StoredByTopic
  <2>9. \A d \in Processors \ {c} :
           pc'[d] = pc[d] /\ at'[d] = at[d] /\ off'[d] = off[d] /\ msg'[d] = msg[d]
    BY <1>0, <2>1 DEF TypeInv
  <2> QED  BY <2>1, <2>5, <2>7, <2>8, <2>9, LocalStep
<1> QED  BY <1>1, <1>2

(* An insert failed, or an ack got no answer: the processor starts again.  *)
LEMMA FaultKeeps ==
    ASSUME CInv, NEW c \in Processors, GiveUp(c) \/ AckTimeout(c)
    PROVE  CInv'
<1>0. TypeInv /\ KeyOf[c] \in Keys
  BY ConsumptionAssumption DEF CInv, TypeInv
<1>1. /\ Return(c)
      /\ UNCHANGED <<consumerVars, log, at, stored>>
      /\ \E kind \in FaultKinds : Len(faults) < MaxFaults /\ faults' = Append(faults, kind)
  BY DEF GiveUp, AckTimeout, Fault
<1>2. late' = late \/ (pc[c] = "ack" /\ late' = late \union {msg[c]})
  BY DEF GiveUp, AckTimeout
<1>3. pc[c] = "ack" => msg[c] \in Messages /\ StoredByTopic(msg[c])
  BY <1>0 DEF CInv, ProcInv, Holding, StoredByTopic
<1>4. late' \subseteq Messages
  BY <1>0, <1>2, <1>3 DEF TypeInv
<1>5. faults' \in Seq(FaultKinds) /\ Len(faults') <= MaxFaults
  BY <1>0, <1>1, ConsumptionAssumption DEF TypeInv
<1>6. TypeInv'
  BY <1>0, <1>1, <1>4, <1>5, ReturnType DEF TypeInv, ConsumerTypeOK, consumerVars
<1>7. pc'[c] = "idle"
  BY <1>0, <1>1, ReturnType
<1>8. ProcInv(c)'
  BY <1>7 DEF ProcInv, Holding
<1>9. LateInv'
  BY <1>1, <1>2, <1>3 DEF CInv, LateInv, StoredByTopic
<1>10. \A d \in Processors \ {c} :
          pc'[d] = pc[d] /\ at'[d] = at[d] /\ off'[d] = off[d] /\ msg'[d] = msg[d]
  BY <1>0, <1>1, ReturnType
<1> QED  BY <1>1, <1>6, <1>8, <1>9, <1>10, LocalStep

-----------------------------------------------------------------------------
(* Steps that add to a log or to Postgres.                                 *)

(* If logs only grow and Postgres only gains, everything that is done      *)
(* stays done, wherever consumerState is left alone.                       *)
LEMMA GrowthStep ==
    ASSUME CInv, TypeInv',
           \A p \in Partitions : /\ Len(log[p]) <= Len(log'[p])
                                 /\ \A i \in 1..Len(log[p]) : log'[p][i] = log[p][i],
           stored \subseteq stored',
           UNCHANGED <<consumerVars, late>>
    PROVE  /\ NextInv' /\ FlightInv' /\ LateInv'
           /\ \A c \in Processors :
                 /\ pc'[c] = pc[c] /\ at'[c] = at[c] /\ off'[c] = off[c] /\ msg'[c] = msg[c]
                 => ProcInv(c)'
<1>0. TypeInv /\ \A p \in Partitions : Len(log[p]) \in Nat /\ Len(log'[p]) \in Nat
  BY DEF CInv, TypeInv
<1>1. NextInv'
  <2> SUFFICES ASSUME NEW k \in Keys, NEW p \in Partitions
               PROVE  (next[k][p] <= Len(log[p]) /\ DoneBelow(k, p, next[k][p]))'
    BY DEF NextInv
  <2>1. /\ next[k][p] \in Nat /\ next'[k][p] = next[k][p]
        /\ next[k][p] <= Len(log[p]) /\ DoneBelow(k, p, next[k][p])
    BY <1>0 DEF CInv, NextInv, TypeInv, ConsumerTypeOK, consumerVars
  <2>2. \A i \in 1..next[k][p] : Wanted(k, log'[p][i]) => <<k, log'[p][i]>> \in stored'
    BY <1>0, <2>1, DoneStays
  <2> QED  BY <1>0, <2>1, <2>2 DEF DoneBelow
<1>2. FlightInv'
  <2> SUFFICES ASSUME NEW m \in Messages, inflight[m] # None
               PROVE  LET d == inflight[m] IN
                      /\ cur[d.key][d.part] = m
                      /\ d.off < Len(log'[d.part])
                      /\ log'[d.part][d.off + 1] = m
                      /\ Wanted(d.key, m)
                      /\ \A i \in 1..d.off : Wanted(d.key, log'[d.part][i]) => <<d.key, log'[d.part][i]>> \in stored'
    BY DEF FlightInv, DoneBelow, consumerVars
  <2> DEFINE d == inflight[m]
  <2>1. d.key \in Keys /\ d.part \in Partitions /\ d.off \in Nat
    BY <1>0 DEF TypeInv, ConsumerTypeOK, Delivery
  <2>2. /\ cur[d.key][d.part] = m
        /\ d.off < Len(log[d.part])
        /\ log[d.part][d.off + 1] = m
        /\ Wanted(d.key, m)
        /\ DoneBelow(d.key, d.part, d.off)
    BY DEF CInv, FlightInv
  <2> HIDE DEF d
  <2>3. d.off + 1 \in 1..Len(log[d.part]) /\ d.off < Len(log'[d.part])
    BY <1>0, <2>1, <2>2
  <2>4. \A i \in 1..d.off : Wanted(d.key, log'[d.part][i]) => <<d.key, log'[d.part][i]>> \in stored'
    BY <1>0, <2>1, <2>2, DoneStays
  <2> QED  BY <2>1, <2>2, <2>3, <2>4 DEF d
<1>3. LateInv'
  BY DEF CInv, LateInv, StoredByTopic
<1>4. ASSUME NEW c \in Processors,
             pc'[c] = pc[c], at'[c] = at[c], off'[c] = off[c], msg'[c] = msg[c]
      PROVE  ProcInv(c)'
  <2>0. ProcInv(c) /\ at[c] \in Partitions /\ off[c] \in Nat
    BY <1>0 DEF CInv, TypeInv
  <2>1. ASSUME pc[c] \in {"read", "skip", "mark"}
        PROVE  /\ off[c] <= Len(log'[at[c]])
               /\ \A i \in 1..off[c] : Wanted(KeyOf[c], log'[at[c]][i])
                                      => <<KeyOf[c], log'[at[c]][i]>> \in stored'
    <3>1. off[c] <= Len(log[at[c]]) /\ DoneBelow(KeyOf[c], at[c], off[c])
      BY <2>0, <2>1 DEF ProcInv
    <3>2. off[c] <= Len(log'[at[c]])
      BY <1>0, <2>0, <3>1
    <3> QED  BY <1>0, <2>0, <3>1, <3>2, DoneStays
  <2>2. ASSUME pc[c] \in {"skip", "mark"}
        PROVE  /\ off[c] < Len(log'[at[c]])
               /\ msg[c] = log'[at[c]][off[c] + 1]
               /\ pc[c] = "mark" <=> Wanted(KeyOf[c], msg[c])
    <3>1. /\ off[c] < Len(log[at[c]])
          /\ msg[c] = log[at[c]][off[c] + 1]
          /\ pc[c] = "mark" <=> Wanted(KeyOf[c], msg[c])
      BY <2>0, <2>2 DEF ProcInv
    <3>2. off[c] + 1 \in 1..Len(log[at[c]]) /\ off[c] < Len(log'[at[c]])
      BY <1>0, <2>0, <3>1
    <3> QED  BY <2>0, <3>1, <3>2
  <2>3. /\ pc[c] \in Holding => msg[c] \in Messages /\ Wanted(KeyOf[c], msg[c])
        /\ pc[c] = "ack" => <<KeyOf[c], msg[c]>> \in stored'
    BY <2>0 DEF ProcInv
  <2> QED  BY <1>4, <2>1, <2>2, <2>3 DEF ProcInv, DoneBelow, Wanted
<1> QED  BY <1>1, <1>2, <1>3, <1>4

(* An accepted publish is appended at the end of its partition's log.      *)
LEMMA AppendKeeps ==
    ASSUME CInv, NEW m \in Messages, AppendMessage(m)
    PROVE  CInv'
<1> DEFINE p == PartitionOf[m]
<1>0. TypeInv /\ p \in Partitions
  BY ConsumptionAssumption DEF CInv
<1>1. /\ log' = [log EXCEPT ![p] = Append(log[p], m)]
      /\ UNCHANGED <<consumerVars, procVars, late, stored, faults>>
  BY DEF AppendMessage
<1> HIDE DEF p
<1>2. log[p] \in Seq(Messages) /\ log \in [Partitions -> Seq(Messages)]
  BY <1>0 DEF TypeInv
<1>3. /\ Append(log[p], m) \in Seq(Messages)
      /\ Len(Append(log[p], m)) = Len(log[p]) + 1
      /\ Len(log[p]) \in Nat
      /\ \A i \in 1..Len(log[p]) : Append(log[p], m)[i] = log[p][i]
  BY <1>2
<1>4. log' \in [Partitions -> Seq(Messages)]
  BY <1>0, <1>1, <1>2, <1>3
<1>5. TypeInv'
  BY <1>0, <1>1, <1>4 DEF TypeInv, ConsumerTypeOK, consumerVars, procVars
<1>6. \A q \in Partitions : /\ Len(log[q]) <= Len(log'[q])
                            /\ \A i \in 1..Len(log[q]) : log'[q][i] = log[q][i]
  <2> SUFFICES ASSUME NEW q \in Partitions
               PROVE  /\ Len(log[q]) <= Len(log'[q])
                      /\ \A i \in 1..Len(log[q]) : log'[q][i] = log[q][i]
    OBVIOUS
  <2>1. CASE q = p
    <3>1. log'[q] = Append(log[p], m)
      BY <1>0, <1>1, <1>2, <2>1
    <3> QED  BY <1>3, <2>1, <3>1
  <2>2. CASE q # p
    <3>1. log'[q] = log[q] /\ Len(log[q]) \in Nat
      BY <1>0, <1>1, <1>2, <2>2
    <3> QED  BY <3>1
  <2> QED  BY <2>1, <2>2
<1>7. stored \subseteq stored' /\ UNCHANGED <<consumerVars, late>>
  BY <1>1
<1>8. \A c \in Processors : pc'[c] = pc[c] /\ at'[c] = at[c] /\ off'[c] = off[c] /\ msg'[c] = msg[c]
  BY <1>1 DEF procVars
<1> QED  BY <1>5, <1>6, <1>7, <1>8, GrowthStep DEF CInv

(* Insert commits the message a processor was given.                       *)
LEMMA InsertKeeps ==
    ASSUME CInv, NEW c \in Processors, Insert(c)
    PROVE  CInv'
<1>0. TypeInv /\ KeyOf[c] \in Keys /\ ProcInv(c)
  BY ConsumptionAssumption DEF CInv, TypeInv
<1>1. /\ pc[c] = "deliver"
      /\ pc' = [pc EXCEPT ![c] = "ack"]
      /\ stored' = stored \union {<<KeyOf[c], msg[c]>>}
      /\ UNCHANGED <<consumerVars, log, at, off, msg, late, faults>>
  BY DEF Insert
<1>2. msg[c] \in Messages /\ Wanted(KeyOf[c], msg[c])
  BY <1>0, <1>1 DEF ProcInv, Holding
<1>3. stored' \subseteq Keys \X Messages
  BY <1>0, <1>1, <1>2 DEF TypeInv
<1>4. TypeInv'
  BY <1>0, <1>1, <1>3 DEF TypeInv, ConsumerTypeOK, consumerVars, PCs, Holding
<1>5. \A p \in Partitions : /\ Len(log[p]) <= Len(log'[p])
                            /\ \A i \in 1..Len(log[p]) : log'[p][i] = log[p][i]
  <2>1. \A p \in Partitions : Len(log[p]) \in Nat
    BY <1>0 DEF TypeInv
  <2> QED  BY <1>1, <2>1
<1>6. stored \subseteq stored' /\ UNCHANGED <<consumerVars, late>>
  BY <1>1
<1>7. pc'[c] = "ack"
  BY <1>0, <1>1 DEF TypeInv
<1>8. ProcInv(c)'
  BY <1>1, <1>2, <1>7 DEF ProcInv, Wanted
<1>9. \A d \in Processors \ {c} : pc'[d] = pc[d] /\ at'[d] = at[d] /\ off'[d] = off[d] /\ msg'[d] = msg[d]
  BY <1>0, <1>1 DEF TypeInv
<1>10. \A d \in Processors : ProcInv(d)'
  <2> SUFFICES ASSUME NEW d \in Processors PROVE ProcInv(d)'
    OBVIOUS
  <2>1. CASE d = c
    BY <1>8, <2>1
  <2>2. CASE d # c
    BY <1>4, <1>5, <1>6, <1>9, <2>2, GrowthStep
  <2> QED  BY <2>1, <2>2
<1> QED  BY <1>4, <1>5, <1>6, <1>10, GrowthStep DEF CInv

-----------------------------------------------------------------------------
(* Steps of consumerState.                                                 *)

(* skip moves a group past a message of another topic.                     *)
LEMMA SkipKeeps ==
    ASSUME CInv, NEW c \in Processors, SkipOther(c)
    PROVE  CInv'
<1> DEFINE k == KeyOf[c]
           p == at[c]
<1>0. TypeInv /\ k \in Keys /\ p \in Partitions /\ off[c] \in Nat /\ ProcInv(c)
  BY ConsumptionAssumption DEF CInv, TypeInv
<1>1. /\ pc[c] = "skip"
      /\ next' = IF cur[k][p] = None THEN [next EXCEPT ![k][p] = off[c] + 1] ELSE next
      /\ pc' = [pc EXCEPT ![c] = "next"]
      /\ UNCHANGED <<cur, inflight, log, at, off, msg, late, stored, faults>>
  BY DEF SkipOther, Skip
<1>2. /\ off[c] < Len(log[p])
      /\ DoneBelow(k, p, off[c])
      /\ ~Wanted(k, log[p][off[c] + 1])
  BY <1>0, <1>1 DEF ProcInv
<1> HIDE DEF k, p
<1>3. DoneBelow(k, p, off[c] + 1)
  BY <1>0, <1>2, DoneNext
<1>4. next' \in [Keys -> [Partitions -> Nat]]
  BY <1>0, <1>1 DEF TypeInv, ConsumerTypeOK
<1>5. TypeInv'
  BY <1>0, <1>1, <1>4 DEF TypeInv, ConsumerTypeOK, PCs, Polling
<1>6. NextInv'
  <2> SUFFICES ASSUME NEW l \in Keys, NEW q \in Partitions
               PROVE  (next[l][q] <= Len(log[q]) /\ DoneBelow(l, q, next[l][q]))'
    BY DEF NextInv
  <2>1. next[l][q] <= Len(log[q]) /\ DoneBelow(l, q, next[l][q])
    BY DEF CInv, NextInv
  <2>2. CASE next'[l][q] = next[l][q]
    BY <1>1, <2>1, <2>2 DEF DoneBelow
  <2>3. CASE next'[l][q] # next[l][q]
    <3>1. l = k /\ q = p /\ next'[l][q] = off[c] + 1
      BY <1>0, <1>1, <2>3 DEF TypeInv, ConsumerTypeOK
    <3>2. off[c] + 1 <= Len(log[p])
      BY <1>0, <1>2 DEF TypeInv
    <3> QED  BY <1>1, <1>3, <3>1, <3>2 DEF DoneBelow
  <2> QED  BY <2>2, <2>3
<1>7. FlightInv' /\ LateInv'
  BY <1>1 DEF CInv, FlightInv, LateInv, StoredByTopic, DoneBelow
<1>8. ASSUME NEW d \in Processors PROVE ProcInv(d)'
  <2>1. CASE d = c
    <3>1. pc'[c] = "next"
      BY <1>0, <1>1 DEF TypeInv
    <3> QED  BY <2>1, <3>1 DEF ProcInv, Holding
  <2>2. CASE d # c
    <3>1. pc'[d] = pc[d] /\ ProcInv(d)
      BY <1>0, <1>1, <2>2 DEF TypeInv, CInv
    <3> QED  BY <1>1, <3>1 DEF ProcInv, DoneBelow
  <2> QED  BY <2>1, <2>2
<1> QED  BY <1>5, <1>6, <1>7, <1>8 DEF CInv

(* markInflight records the delivery of the message a poll read.           *)
LEMMA MarkKeeps ==
    ASSUME CInv, NEW c \in Processors, Mark(c)
    PROVE  CInv'
<1> DEFINE k == KeyOf[c]
           p == at[c]
           m == msg[c]
           e == [key |-> k, part |-> p, off |-> off[c]]
<1>0. TypeInv /\ k \in Keys /\ p \in Partitions /\ off[c] \in Nat /\ ProcInv(c)
  BY ConsumptionAssumption DEF CInv, TypeInv
<1>1. CASE NothingHere(c) /\ UNCHANGED consumerVars
  <2>1. UNCHANGED <<consumerVars, log, late, stored, faults>>
    BY <1>1 DEF Mark
  <2> QED  BY <1>1, <2>1, NothingKeeps
<1>2. CASE /\ MarkInflight(k, p, off[c], m)
           /\ pc' = [pc EXCEPT ![c] = "deliver"]
           /\ UNCHANGED <<at, off, msg>>
  <2>1. /\ cur[k][p] = None
        /\ cur' = [cur EXCEPT ![k][p] = m]
        /\ inflight' = [inflight EXCEPT ![m] = e]
        /\ UNCHANGED <<next, log, at, off, msg, late, stored, faults>>
    BY <1>2 DEF Mark, MarkInflight
  <2>2. /\ off[c] < Len(log[p])
        /\ DoneBelow(k, p, off[c])
        /\ m = log[p][off[c] + 1]
        /\ Wanted(k, m)
    <3>1. pc[c] = "mark"
      BY DEF Mark
    <3> QED  BY <1>0, <3>1 DEF ProcInv
  <2>3. m \in Messages
    <3>1. log[p] \in Seq(Messages) /\ off[c] + 1 \in 1..Len(log[p])
      BY <1>0, <2>2 DEF TypeInv
    <3> QED  BY <2>2, <3>1
  <2>4. e \in Delivery /\ e # None /\ e.key = k /\ e.part = p /\ e.off = off[c]
    BY <1>0, NoneAssumption DEF Delivery
  <2> HIDE DEF k, p, m, e
  <2>5. /\ cur' \in [Keys -> [Partitions -> Messages \union {None}]]
        /\ inflight' \in [Messages -> Delivery \union {None}]
    BY <1>0, <2>1, <2>3, <2>4 DEF TypeInv, ConsumerTypeOK
  <2>6. TypeInv'
    BY <1>0, <1>2, <2>1, <2>5 DEF TypeInv, ConsumerTypeOK, PCs, Holding
  <2>7. NextInv' /\ LateInv'
    BY <2>1 DEF CInv, NextInv, LateInv, StoredByTopic, DoneBelow
  <2>8. FlightInv'
    <3> SUFFICES ASSUME NEW x \in Messages, inflight'[x] # None
                 PROVE  LET d == inflight'[x] IN
                        /\ cur'[d.key][d.part] = x
                        /\ d.off < Len(log[d.part])
                        /\ log[d.part][d.off + 1] = x
                        /\ Wanted(d.key, x)
                        /\ DoneBelow(d.key, d.part, d.off)
      BY <2>1 DEF FlightInv, DoneBelow
    <3>1. CASE x = m
      <4>1. inflight'[x] = e /\ cur'[k][p] = m
        BY <1>0, <2>1, <2>3, <3>1 DEF TypeInv, ConsumerTypeOK
      <4> QED  BY <2>2, <2>4, <3>1, <4>1
    <3>2. CASE x # m
      <4> DEFINE d == inflight[x]
      <4>1. inflight'[x] = d /\ d # None
        BY <1>0, <2>1, <3>2 DEF TypeInv, ConsumerTypeOK
      <4>2. d.key \in Keys /\ d.part \in Partitions /\ d.off \in Nat
        BY <1>0, <4>1 DEF TypeInv, ConsumerTypeOK, Delivery
      <4>3. /\ cur[d.key][d.part] = x
            /\ d.off < Len(log[d.part])
            /\ log[d.part][d.off + 1] = x
            /\ Wanted(d.key, x)
            /\ DoneBelow(d.key, d.part, d.off)
        BY <4>1 DEF CInv, FlightInv
      <4> HIDE DEF d
      <4>4. cur'[d.key][d.part] = x
        BY <1>0, <2>1, <4>2, <4>3, ConsumerAssumption DEF TypeInv, ConsumerTypeOK
      <4> QED  BY <4>1, <4>3, <4>4
    <3> QED  BY <3>1, <3>2
  <2>9. ASSUME NEW d \in Processors PROVE ProcInv(d)'
    <3>1. CASE d = c
      <4>1. pc'[c] = "deliver" /\ msg'[c] = m
        BY <1>0, <1>2, <2>1 DEF TypeInv, m
      <4> QED  BY <2>2, <2>3, <3>1, <4>1 DEF ProcInv, k, Wanted
    <3>2. CASE d # c
      <4>1. pc'[d] = pc[d] /\ ProcInv(d)
        BY <1>0, <1>2, <3>2 DEF TypeInv, CInv
      <4> QED  BY <2>1, <4>1 DEF ProcInv, DoneBelow
    <3> QED  BY <3>1, <3>2
  <2> QED  BY <2>6, <2>7, <2>8, <2>9 DEF CInv
<1> QED  BY <1>1, <1>2 DEF Mark

(* ack of a message that a group of its topic has stored: the partition    *)
(* moves behind it.  Here it matters that the group that stored it is the  *)
(* group it was delivered to.                                              *)
LEMMA AckKeeps ==
    ASSUME CInv, OneGroupPerTopic, NEW n \in Nodes, NEW m \in Messages,
           StoredByTopic(m), AckAt(n, m), UNCHANGED <<log, stored>>
    PROVE  ConsumerTypeOK' /\ NextInv' /\ FlightInv'
<1> DEFINE d == inflight[m]
           k == d.key
           p == d.part
<1>0. TypeInv /\ ConsumerTypeOK
  BY DEF CInv, TypeInv
<1>1. CASE UNCHANGED consumerVars
  <2>1. UNCHANGED <<next, cur, inflight, log, stored>>
    BY <1>1 DEF consumerVars
  <2> QED  BY <1>0, <2>1 DEF CInv, ConsumerTypeOK, NextInv, FlightInv, DoneBelow
<1>2. CASE d # None /\ Ack(m)
  <2>1. k \in Keys /\ p \in Partitions /\ d.off \in Nat
    BY <1>0, <1>2 DEF ConsumerTypeOK, Delivery
  <2>2. /\ cur[k][p] = m
        /\ d.off < Len(log[p])
        /\ log[p][d.off + 1] = m
        /\ Wanted(k, m)
        /\ DoneBelow(k, p, d.off)
    BY <1>2 DEF CInv, FlightInv
  <2>3. /\ inflight' = [inflight EXCEPT ![m] = None]
        /\ cur' = [cur EXCEPT ![k][p] = None]
        /\ next' = [next EXCEPT ![k][p] = d.off + 1]
    BY <1>2, <2>2 DEF Ack
  <2>4. <<k, m>> \in stored
    BY <2>1, <2>2 DEF OneGroupPerTopic, StoredByTopic, Wanted
  <2>5. DoneBelow(k, p, d.off + 1)
    BY <2>1, <2>2, <2>4, DoneNext
  <2> HIDE DEF d, k, p
  <2>6. ConsumerTypeOK'
    BY <1>0, <2>1, <2>3 DEF ConsumerTypeOK
  <2>7. NextInv'
    <3> SUFFICES ASSUME NEW l \in Keys, NEW q \in Partitions
                 PROVE  (next[l][q] <= Len(log[q]) /\ DoneBelow(l, q, next[l][q]))'
      BY DEF NextInv
    <3>1. CASE l = k /\ q = p
      <4>1. next'[l][q] = d.off + 1
        BY <1>0, <2>1, <2>3, <3>1 DEF ConsumerTypeOK
      <4>2. d.off + 1 <= Len(log[p])
        BY <1>0, <2>1, <2>2 DEF TypeInv
      <4> QED  BY <2>5, <3>1, <4>1, <4>2 DEF DoneBelow
    <3>2. CASE ~(l = k /\ q = p)
      <4>1. next'[l][q] = next[l][q]
        BY <1>0, <2>1, <2>3, <3>2 DEF ConsumerTypeOK
      <4>2. next[l][q] <= Len(log[q]) /\ DoneBelow(l, q, next[l][q])
        BY DEF CInv, NextInv
      <4> QED  BY <4>1, <4>2 DEF DoneBelow
    <3> QED  BY <3>1, <3>2
  <2>8. FlightInv'
    <3> SUFFICES ASSUME NEW x \in Messages, inflight'[x] # None
                 PROVE  LET e == inflight'[x] IN
                        /\ cur'[e.key][e.part] = x
                        /\ e.off < Len(log[e.part])
                        /\ log[e.part][e.off + 1] = x
                        /\ Wanted(e.key, x)
                        /\ DoneBelow(e.key, e.part, e.off)
      BY DEF FlightInv, DoneBelow
    <3> DEFINE e == inflight[x]
    <3>1. x # m /\ inflight'[x] = e /\ e # None
      BY <1>0, <2>3 DEF ConsumerTypeOK
    <3>2. e.key \in Keys /\ e.part \in Partitions
      BY <1>0, <3>1 DEF ConsumerTypeOK, Delivery
    <3>3. /\ cur[e.key][e.part] = x
          /\ e.off < Len(log[e.part])
          /\ log[e.part][e.off + 1] = x
          /\ Wanted(e.key, x)
          /\ DoneBelow(e.key, e.part, e.off)
      BY <3>1 DEF CInv, FlightInv
    <3> HIDE DEF e
    <3>4. ~(e.key = k /\ e.part = p)
      BY <2>2, <3>1, <3>3
    <3>5. cur'[e.key][e.part] = x
      BY <1>0, <2>1, <2>3, <3>2, <3>3, <3>4 DEF ConsumerTypeOK
    <3> QED  BY <3>1, <3>3, <3>5
  <2> QED  BY <2>6, <2>7, <2>8
<1> QED  BY <1>1, <1>2 DEF AckAt

(* POST /ack at the end of RunOnce, after the record was inserted.         *)
LEMMA SendAckKeeps ==
    ASSUME CInv, OneGroupPerTopic, NEW c \in Processors, NEW n \in Nodes, SendAck(c, n)
    PROVE  CInv'
<1>0. TypeInv /\ KeyOf[c] \in Keys /\ ProcInv(c)
  BY ConsumptionAssumption DEF CInv, TypeInv
<1>1. /\ pc[c] = "ack"
      /\ AckAt(n, msg[c])
      /\ Return(c)
      /\ UNCHANGED <<log, at, late, stored, faults>>
  BY DEF SendAck
<1>2. msg[c] \in Messages /\ StoredByTopic(msg[c])
  BY <1>0, <1>1 DEF ProcInv, Holding, StoredByTopic
<1>3. ConsumerTypeOK' /\ NextInv' /\ FlightInv'
  BY <1>1, <1>2, AckKeeps
<1>4. TypeInv'
  BY <1>0, <1>1, <1>3, ReturnType DEF TypeInv
<1>5. LateInv'
  BY <1>1 DEF CInv, LateInv, StoredByTopic
<1>6. ASSUME NEW d \in Processors PROVE ProcInv(d)'
  <2>1. CASE d = c
    <3>1. pc'[c] = "idle"
      BY <1>0, <1>1, ReturnType
    <3> QED  BY <2>1, <3>1 DEF ProcInv, Holding
  <2>2. CASE d # c
    <3>1. pc'[d] = pc[d] /\ off'[d] = off[d] /\ msg'[d] = msg[d] /\ ProcInv(d)
      BY <1>0, <1>1, <2>2, ReturnType DEF CInv
    <3> QED  BY <1>1, <3>1 DEF ProcInv, DoneBelow
  <2> QED  BY <2>1, <2>2
<1> QED  BY <1>3, <1>4, <1>5, <1>6 DEF CInv

(* An ack that arrives after its processor stopped waiting for it.         *)
LEMMA LateAckKeeps ==
    ASSUME CInv, OneGroupPerTopic, NEW m \in Messages, NEW n \in Nodes, LateAck(m, n)
    PROVE  CInv'
<1>0. TypeInv
  BY DEF CInv
<1>1. /\ m \in late
      /\ late' = late \ {m}
      /\ AckAt(n, m)
      /\ UNCHANGED <<log, pc, at, off, msg, stored, faults>>
  BY DEF LateAck, procVars
<1>2. StoredByTopic(m)
  BY <1>1 DEF CInv, LateInv
<1>3. ConsumerTypeOK' /\ NextInv' /\ FlightInv'
  BY <1>1, <1>2, AckKeeps
<1>4. TypeInv'
  BY <1>0, <1>1, <1>3 DEF TypeInv
<1>5. LateInv'
  BY <1>1 DEF CInv, LateInv, StoredByTopic
<1>6. \A c \in Processors : ProcInv(c)'
  BY <1>1 DEF CInv, ProcInv, DoneBelow
<1> QED  BY <1>3, <1>4, <1>5, <1>6 DEF CInv

(* A queue node restarts: it forgets offsets and deliveries together, and  *)
(* the polls it was serving end.                                           *)
LEMMA RestartKeeps ==
    ASSUME CInv, NEW n \in Nodes, Restart(n)
    PROVE  CInv'
<1> DEFINE ps == LedBy(n)
           served == {c \in Processors : pc[c] \in Polling /\ LeaderOf[at[c]] = n}
<1>0. TypeInv /\ ConsumerTypeOK
  BY DEF CInv, TypeInv
<1>1. /\ next' = [k \in Keys |-> [p \in Partitions |-> IF p \in ps THEN 0 ELSE next[k][p]]]
      /\ cur' = [k \in Keys |-> [p \in Partitions |-> IF p \in ps THEN None ELSE cur[k][p]]]
      /\ inflight' = [m \in Messages |->
            IF inflight[m] # None /\ inflight[m].part \in ps THEN None ELSE inflight[m]]
      /\ pc' = [c \in Processors |-> IF c \in served THEN "idle" ELSE pc[c]]
      /\ off' = [c \in Processors |-> IF c \in served THEN 0 ELSE off[c]]
      /\ msg' = [c \in Processors |-> IF c \in served THEN None ELSE msg[c]]
      /\ UNCHANGED <<log, at, late, stored>>
  BY DEF Restart, Forget
<1>2. \E kind \in FaultKinds : Len(faults) < MaxFaults /\ faults' = Append(faults, kind)
  BY DEF Restart, Fault
<1> HIDE DEF ps, served
<1>3. ConsumerTypeOK'
  <2>1. next' \in [Keys -> [Partitions -> Nat]]
    BY <1>0, <1>1 DEF ConsumerTypeOK
  <2>2. cur' \in [Keys -> [Partitions -> Messages \union {None}]]
    BY <1>0, <1>1 DEF ConsumerTypeOK
  <2>3. inflight' \in [Messages -> Delivery \union {None}]
    BY <1>0, <1>1 DEF ConsumerTypeOK
  <2> QED  BY <2>1, <2>2, <2>3 DEF ConsumerTypeOK
<1>4. faults' \in Seq(FaultKinds) /\ Len(faults') <= MaxFaults
  BY <1>0, <1>2, ConsumptionAssumption DEF TypeInv
<1>5. /\ pc' \in [Processors -> PCs]
      /\ off' \in [Processors -> Nat]
      /\ msg' \in [Processors -> Messages \union {None}]
      /\ \A c \in Processors :
            \/ pc'[c] = "idle"
            \/ pc'[c] = pc[c] /\ off'[c] = off[c] /\ msg'[c] = msg[c]
  BY <1>0, <1>1 DEF TypeInv, PCs
<1>6. TypeInv'
  BY <1>0, <1>1, <1>3, <1>4, <1>5 DEF TypeInv
<1>7. NextInv'
  <2> SUFFICES ASSUME NEW l \in Keys, NEW q \in Partitions
               PROVE  (next[l][q] <= Len(log[q]) /\ DoneBelow(l, q, next[l][q]))'
    BY DEF NextInv
  <2>1. next'[l][q] = 0 \/ next'[l][q] = next[l][q]
    BY <1>1
  <2>2. next[l][q] <= Len(log[q]) /\ DoneBelow(l, q, next[l][q])
    BY DEF CInv, NextInv
  <2>3. Len(log[q]) \in Nat
    BY <1>0 DEF TypeInv
  <2>4. CASE next'[l][q] = 0
    BY <1>1, <2>3, <2>4 DEF DoneBelow
  <2>5. CASE next'[l][q] = next[l][q]
    BY <1>1, <2>2, <2>5 DEF DoneBelow
  <2> QED  BY <2>1, <2>4, <2>5
<1>8. FlightInv'
  <2> SUFFICES ASSUME NEW x \in Messages, inflight'[x] # None
               PROVE  LET e == inflight'[x] IN
                      /\ cur'[e.key][e.part] = x
                      /\ e.off < Len(log[e.part])
                      /\ log[e.part][e.off + 1] = x
                      /\ Wanted(e.key, x)
                      /\ DoneBelow(e.key, e.part, e.off)
    BY <1>1 DEF FlightInv, DoneBelow
  <2> DEFINE e == inflight[x]
  <2>1. inflight'[x] = e /\ e # None /\ e.part \notin ps
    BY <1>1
  <2>2. e.key \in Keys /\ e.part \in Partitions
    BY <1>0, <2>1 DEF ConsumerTypeOK, Delivery
  <2>3. /\ cur[e.key][e.part] = x
        /\ e.off < Len(log[e.part])
        /\ log[e.part][e.off + 1] = x
        /\ Wanted(e.key, x)
        /\ DoneBelow(e.key, e.part, e.off)
    BY <2>1 DEF CInv, FlightInv
  <2> HIDE DEF e
  <2>4. cur'[e.key][e.part] = x
    BY <1>1, <2>1, <2>2, <2>3
  <2> QED  BY <2>1, <2>3, <2>4
<1>9. LateInv'
  BY <1>1 DEF CInv, LateInv, StoredByTopic
<1>10. ASSUME NEW c \in Processors PROVE ProcInv(c)'
  <2>1. CASE pc'[c] = "idle"
    BY <2>1 DEF ProcInv, Holding
  <2>2. CASE pc'[c] = pc[c] /\ off'[c] = off[c] /\ msg'[c] = msg[c]
    <3>1. ProcInv(c)
      BY DEF CInv
    <3> QED  BY <1>1, <2>2, <3>1 DEF ProcInv, DoneBelow
  <2> QED  BY <1>5, <2>1, <2>2
<1> QED  BY <1>6, <1>7, <1>8, <1>9, <1>10 DEF CInv

-----------------------------------------------------------------------------
(* The theorems.                                                           *)

(* Every step of the consuming half keeps CInv.                            *)
LEMMA ConsumptionStep ==
    ASSUME CInv, OneGroupPerTopic, [Next]_vars
    PROVE  CInv'
<1>1. CASE UNCHANGED vars
  <2>1. /\ UNCHANGED <<next, cur, inflight, log, pc, at, off, msg>>
        /\ UNCHANGED <<late, stored, faults>>
    BY <1>1 DEF vars, consumerVars, procVars
  <2>2. TypeInv' /\ NextInv'
    BY <2>1 DEF CInv, TypeInv, ConsumerTypeOK, NextInv, DoneBelow
  <2>3. FlightInv' /\ LateInv'
    BY <2>1 DEF CInv, FlightInv, LateInv, StoredByTopic, DoneBelow
  <2>4. \A c \in Processors : ProcInv(c)'
    BY <2>1 DEF CInv, ProcInv, DoneBelow
  <2> QED  BY <2>2, <2>3, <2>4 DEF CInv
<1>2. ASSUME NEW m \in Messages, AppendMessage(m) PROVE CInv'
  BY <1>2, AppendKeeps
<1>3. ASSUME NEW c \in Processors, NEW n \in Nodes, Poll(c, n) PROVE CInv'
  BY <1>3, PollKeeps
<1>4. ASSUME NEW c \in Processors, PollStep(c) PROVE CInv'
  BY <1>4, NextOffsetKeeps, ReadKeeps, SkipKeeps, MarkKeeps DEF PollStep
<1>5. ASSUME NEW c \in Processors, Insert(c) PROVE CInv'
  BY <1>5, InsertKeeps
<1>6. ASSUME NEW c \in Processors, NEW n \in Nodes, SendAck(c, n) PROVE CInv'
  BY <1>6, SendAckKeeps
<1>7. ASSUME NEW c \in Processors, GiveUp(c) \/ AckTimeout(c) PROVE CInv'
  BY <1>7, FaultKeeps
<1>8. ASSUME NEW m \in Messages, NEW n \in Nodes, LateAck(m, n) PROVE CInv'
  BY <1>8, LateAckKeeps
<1>9. ASSUME NEW n \in Nodes, Restart(n) PROVE CInv'
  BY <1>9, RestartKeeps
<1> QED  BY <1>1, <1>2, <1>3, <1>4, <1>5, <1>6, <1>7, <1>8, <1>9 DEF Next, ProcessorStep

(* CInv is an invariant when no two groups consume the same topic.         *)
THEOREM ConsumptionInvariance ==
    ASSUME OneGroupPerTopic
    PROVE  Spec => []CInv
<1>1. Init => CInv
  BY ConsumptionInit
<1>2. CInv /\ [Next]_vars => CInv'
  BY ConsumptionStep
<1> QED  BY <1>1, <1>2, PTL DEF Spec

(* When no two groups consume the same topic, a group's next offset never  *)
(* passes a message the group has not stored, whatever polls of the group  *)
(* overtake each other, acks come late or get lost and nodes restart       *)
(* (consumerState.nextOffset, skip, markInflight and ack).                 *)
THEOREM NothingSkipped ==
    ASSUME OneGroupPerTopic
    PROVE  Spec => []NoMessageSkipped
<1>1. CInv => NoMessageSkipped
  BY DEF CInv, NextInv, NoMessageSkipped
<1> QED  BY <1>1, ConsumptionInvariance, PTL

(* Under the same hypothesis the message map and the partitions of         *)
(* consumerState agree: ack never meets an entry its partition does not    *)
(* back.                                                                   *)
THEOREM DeliveriesBacked ==
    ASSUME OneGroupPerTopic
    PROVE  Spec => []InflightBacked
<1>1. CInv => InflightBacked
  BY DEF CInv, FlightInv, InflightBacked
<1> QED  BY <1>1, ConsumptionInvariance, PTL

(* Types, offsets within the logs, and a poll about to deliver has in hand *)
(* what the log holds at the offset it read.                               *)
THEOREM ConsumptionTypes ==
    ASSUME OneGroupPerTopic
    PROVE  Spec => []TypeOK
<1>1. CInv => TypeOK
  BY DEF CInv, NextInv, ProcInv, TypeOK
<1> QED  BY <1>1, ConsumptionInvariance, PTL

-----------------------------------------------------------------------------
(* The two records of deliveries, and who holds a delivery.                *)

(* Logs hold the messages that are routed to them.                         *)
RouteInv ==
    \A p \in Partitions : \A i \in 1..Len(log[p]) : PartitionOf[log[p][i]] = p

(* A partition that shows a delivery is the one the message map names.     *)
BackInv ==
    \A k \in Keys, p \in Partitions : cur[k][p] # None =>
        LET d == inflight[cur[k][p]] IN d # None /\ d.key = k /\ d.part = p

(* The message map is finite.                                              *)
InFlight == {m \in Messages : inflight[m] # None}
FiniteInv == IsFiniteSet(InFlight)

(* A processor holds the message of the log at the offset its poll read,   *)
(* below which everything is done.                                         *)
InHand(c) ==
    /\ off[c] < Len(log[at[c]])
    /\ msg[c] = log[at[c]][off[c] + 1]
    /\ DoneBelow(KeyOf[c], at[c], off[c])

PlaceInv == \A c \in Processors : pc[c] \in Holding => InHand(c)

(* Until a restart a message that a processor holds, or whose ack is late, *)
(* is in flight, and in one hand only.                                     *)
NoRestart == "restart" \notin Range(faults)

HeldOnce ==
    /\ \A c \in Processors : pc[c] \in Holding => inflight[msg[c]] # None /\ msg[c] \notin late
    /\ \A m \in late : inflight[m] # None
    /\ \A c, d \in Processors :
          pc[c] \in Holding /\ pc[d] \in Holding /\ msg[c] = msg[d] => c = d

HoldInv == NoRestart => HeldOnce

DInv == RouteInv /\ BackInv /\ FiniteInv /\ PlaceInv /\ HoldInv

LEMMA DeliveryInit == Init => DInv
<1> SUFFICES ASSUME Init PROVE DInv
  OBVIOUS
<1>1. RouteInv /\ BackInv
  BY DEF Init, ConsumerInit, RouteInv, BackInv
<1>2. FiniteInv
  <2>1. InFlight = {}
    BY DEF Init, ConsumerInit, InFlight
  <2> QED  BY <2>1, FS_EmptySet DEF FiniteInv
<1>3. PlaceInv /\ HoldInv
  BY DEF Init, PlaceInv, HoldInv, HeldOnce, Holding
<1> QED  BY <1>1, <1>2, <1>3 DEF DInv

(* A message in flight was delivered to the group of its topic from the    *)
(* partition it is routed to.                                              *)
LEMMA FlightPlace ==
    ASSUME CInv, RouteInv, OneGroupPerTopic, NEW m \in Messages, inflight[m] # None,
           NEW k \in Keys, Wanted(k, m)
    PROVE  /\ inflight[m].key = k /\ inflight[m].part = PartitionOf[m]
           /\ cur[k][PartitionOf[m]] = m
<1> DEFINE d == inflight[m]
<1>1. d.key \in Keys /\ d.part \in Partitions /\ d.off \in Nat
  BY DEF CInv, TypeInv, ConsumerTypeOK, Delivery
<1>2. /\ cur[d.key][d.part] = m
      /\ d.off < Len(log[d.part])
      /\ log[d.part][d.off + 1] = m
      /\ Wanted(d.key, m)
  BY DEF CInv, FlightInv
<1> HIDE DEF d
<1>3. d.key = k
  BY <1>1, <1>2 DEF OneGroupPerTopic, Wanted
<1>4. d.off + 1 \in 1..Len(log[d.part])
  <2>1. Len(log[d.part]) \in Nat
    BY <1>1 DEF CInv, TypeInv
  <2> QED  BY <1>1, <1>2, <2>1
<1>5. d.part = PartitionOf[m]
  BY <1>1, <1>2, <1>4 DEF RouteInv
<1> QED  BY <1>2, <1>3, <1>5 DEF d

(* A message in hand, or about to be, belongs to the partition it is held  *)
(* from.                                                                   *)
LEMMA HandPlace ==
    ASSUME CInv, RouteInv, NEW c \in Processors, InHand(c)
    PROVE  msg[c] \in Messages /\ PartitionOf[msg[c]] = at[c]
<1>1. at[c] \in Partitions /\ off[c] \in Nat /\ log[at[c]] \in Seq(Messages)
  BY DEF CInv, TypeInv
<1>2. off[c] + 1 \in 1..Len(log[at[c]])
  BY <1>1 DEF InHand
<1> QED  BY <1>1, <1>2 DEF RouteInv, InHand

(* A delivery that markInflight records is of a message not in flight: the *)
(* partition would show it.                                                *)
LEMMA MarkFresh ==
    ASSUME CInv, RouteInv, OneGroupPerTopic, NEW c \in Processors, pc[c] = "mark",
           cur[KeyOf[c]][at[c]] = None
    PROVE  inflight[msg[c]] = None /\ msg[c] \in Messages
<1>1. ProcInv(c) /\ KeyOf[c] \in Keys
  BY ConsumptionAssumption DEF CInv
<1>2. InHand(c) /\ Wanted(KeyOf[c], msg[c])
  BY <1>1 DEF ProcInv, InHand
<1>3. msg[c] \in Messages /\ PartitionOf[msg[c]] = at[c]
  BY <1>2, HandPlace
<1>4. inflight[msg[c]] # None => cur[KeyOf[c]][at[c]] = msg[c]
  BY <1>1, <1>2, <1>3, FlightPlace
<1> QED  BY <1>3, <1>4, ConsumerAssumption

-----------------------------------------------------------------------------
(* What a step does, part by part.                                         *)

(* The effect of an ack at a node.                                         *)
LEMMA AckEffect ==
    ASSUME CInv, NEW n \in Nodes, NEW m \in Messages, AckAt(n, m)
    PROVE  \/ UNCHANGED consumerVars
           \/ /\ inflight[m] # None
              /\ inflight' = [inflight EXCEPT ![m] = None]
              /\ cur' = [cur EXCEPT ![inflight[m].key][inflight[m].part] = None]
<1>1. inflight[m] # None => cur[inflight[m].key][inflight[m].part] = m
  BY DEF CInv, FlightInv
<1> QED  BY <1>1 DEF AckAt, Ack

(* Logs and Postgres only grow.                                            *)
LEMMA GrowthEffect ==
    ASSUME CInv, [Next]_vars
    PROVE  /\ \A p \in Partitions : /\ Len(log[p]) <= Len(log'[p])
                                    /\ \A i \in 1..Len(log[p]) : log'[p][i] = log[p][i]
           /\ stored \subseteq stored'
<1>0. \A p \in Partitions : log[p] \in Seq(Messages) /\ Len(log[p]) \in Nat
  BY DEF CInv, TypeInv
<1>1. ASSUME NEW m \in Messages, AppendMessage(m)
      PROVE  \A p \in Partitions : /\ Len(log[p]) <= Len(log'[p])
                                   /\ \A i \in 1..Len(log[p]) : log'[p][i] = log[p][i]
  <2> DEFINE q == PartitionOf[m]
  <2>1. log' = [log EXCEPT ![q] = Append(log[q], m)] /\ q \in Partitions
    BY <1>1, ConsumptionAssumption DEF AppendMessage
  <2> HIDE DEF q
  <2> TAKE p \in Partitions
  <2>2. CASE p = q
    <3>1. log'[p] = Append(log[p], m)
      BY <2>1, <2>2 DEF CInv, TypeInv
    <3>2. Len(Append(log[p], m)) = Len(log[p]) + 1
          /\ \A i \in 1..Len(log[p]) : Append(log[p], m)[i] = log[p][i]
      BY <1>0
    <3> QED  BY <1>0, <3>1, <3>2
  <2>3. CASE p # q
    <3>1. log'[p] = log[p]
      BY <2>1, <2>3 DEF CInv, TypeInv
    <3> QED  BY <1>0, <3>1
  <2> QED  BY <2>2, <2>3
<1>2. (\E m \in Messages : AppendMessage(m)) \/ UNCHANGED log
  BY DEF Next, vars, ProcessorStep, PollStep, Poll, NextOffset, Read, SkipOther, Mark, Insert,
         SendAck, GiveUp, AckTimeout, LateAck, Restart
<1>3. stored \subseteq stored'
  BY DEF Next, vars, AppendMessage, ProcessorStep, PollStep, Poll, NextOffset, Read, SkipOther,
         Mark, Insert, SendAck, GiveUp, AckTimeout, LateAck, Restart
<1>4. ASSUME UNCHANGED log
      PROVE  \A p \in Partitions : /\ Len(log[p]) <= Len(log'[p])
                                   /\ \A i \in 1..Len(log[p]) : log'[p][i] = log[p][i]
  BY <1>0, <1>4
<1>5. \A p \in Partitions : /\ Len(log[p]) <= Len(log'[p])
                            /\ \A i \in 1..Len(log[p]) : log'[p][i] = log[p][i]
  <2>1. CASE UNCHANGED log
    BY <1>4, <2>1
  <2>2. CASE \E m \in Messages : AppendMessage(m)
    <3> PICK m \in Messages : AppendMessage(m)
      BY <2>2
    <3> QED  BY <1>1
  <2> QED  BY <1>2, <2>1, <2>2
<1> QED  BY <1>3, <1>5

LEMMA RouteStep ==
    ASSUME CInv, RouteInv, [Next]_vars
    PROVE  RouteInv'
<1>1. ASSUME NEW m \in Messages, AppendMessage(m)  PROVE RouteInv'
  <2> DEFINE q == PartitionOf[m]
  <2>1. log' = [log EXCEPT ![q] = Append(log[q], m)] /\ q \in Partitions
    BY <1>1, ConsumptionAssumption DEF AppendMessage
  <2> SUFFICES ASSUME NEW p \in Partitions, NEW i \in 1..Len(log'[p])
               PROVE  PartitionOf[log'[p][i]] = p
    BY DEF RouteInv
  <2>2. log[p] \in Seq(Messages) /\ Len(log[p]) \in Nat
    BY DEF CInv, TypeInv
  <2>3. CASE p = q
    <3>1. log'[p] = Append(log[p], m) /\ Len(Append(log[p], m)) = Len(log[p]) + 1
      BY <2>1, <2>2, <2>3 DEF CInv, TypeInv
    <3>2. i \in 1..Len(log[p]) \/ i = Len(log[p]) + 1
      BY <2>2, <3>1
    <3>3. Append(log[p], m)[i] = IF i = Len(log[p]) + 1 THEN m ELSE log[p][i]
      BY <2>2, <3>1, <3>2
    <3> QED  BY <2>3, <3>1, <3>2, <3>3 DEF RouteInv
  <2>4. CASE p # q
    <3>1. log'[p] = log[p]
      BY <2>1, <2>4 DEF CInv, TypeInv
    <3> QED  BY <3>1 DEF RouteInv
  <2> QED  BY <2>3, <2>4
<1>2. (\E m \in Messages : AppendMessage(m)) \/ UNCHANGED log
  BY DEF Next, vars, ProcessorStep, PollStep, Poll, NextOffset, Read, SkipOther, Mark, Insert,
         SendAck, GiveUp, AckTimeout, LateAck, Restart
<1>3. CASE UNCHANGED log
  BY <1>3 DEF RouteInv
<1> QED  BY <1>1, <1>2, <1>3

(* A processor holds a message from markInflight on, where its poll found  *)
(* it, until it returns.                                                   *)
LEMMA ProcEffect ==
    ASSUME CInv, [Next]_vars, NEW c \in Processors, pc'[c] \in Holding
    PROVE  /\ pc[c] \in Holding \union {"mark"}
           /\ at'[c] = at[c] /\ off'[c] = off[c] /\ msg'[c] = msg[c]
<1>0. TypeInv /\ "idle" \notin Holding /\ "next" \notin Holding /\ "read" \notin Holding
      /\ "skip" \notin Holding /\ "mark" \notin Holding
  BY DEF CInv, Holding
<1>1. CASE UNCHANGED procVars
  BY <1>1 DEF procVars
<1>2. ASSUME NEW d \in Processors, NEW n \in Nodes, Poll(d, n)
      PROVE  pc[c] \in Holding /\ UNCHANGED <<at[c], off[c], msg[c]>>
  BY <1>0, <1>2 DEF Poll, TypeInv
<1>3. ASSUME NEW d \in Processors, NothingHere(d)
      PROVE  pc[c] \in Holding /\ UNCHANGED <<at[c], off[c], msg[c]>>
  <2>1. c # d
    BY <1>0, <1>3, NothingHereType DEF Holding
  <2> QED  BY <1>0, <1>3, <2>1, NothingHereType
<1>4. ASSUME NEW d \in Processors, NextOffset(d)
      PROVE  pc[c] \in Holding /\ UNCHANGED <<at[c], off[c], msg[c]>>
  <2>1. CASE NothingHere(d)
    BY <1>3, <2>1
  <2>2. CASE /\ pc' = [pc EXCEPT ![d] = "read"]
             /\ off' = [off EXCEPT ![d] = next[KeyOf[d]][at[d]]]
             /\ UNCHANGED <<at, msg>>
    BY <1>0, <2>2 DEF TypeInv
  <2> QED  BY <1>4, <2>1, <2>2 DEF NextOffset
<1>5. ASSUME NEW d \in Processors, Read(d)
      PROVE  pc[c] \in Holding /\ UNCHANGED <<at[c], off[c], msg[c]>>
  <2>1. CASE NothingHere(d)
    BY <1>3, <2>1
  <2>2. CASE ~ NothingHere(d)
    <3> DEFINE m == log[at[d]][off[d] + 1]
               x == IF Wanted(KeyOf[d], m) THEN "mark" ELSE "skip"
    <3>1. /\ pc' = [pc EXCEPT ![d] = x]
          /\ msg' = [msg EXCEPT ![d] = m]
          /\ UNCHANGED <<at, off>>
      BY <1>5, <2>2 DEF Read
    <3> HIDE DEF m
    <3>2. x \notin Holding
      BY <1>0, <3>1
    <3> QED  BY <1>0, <3>1, <3>2 DEF TypeInv
  <2> QED  BY <2>1, <2>2
<1>6. ASSUME NEW d \in Processors, SkipOther(d)
      PROVE  pc[c] \in Holding /\ UNCHANGED <<at[c], off[c], msg[c]>>
  BY <1>0, <1>6 DEF SkipOther, TypeInv
<1>7. ASSUME NEW d \in Processors, Mark(d)
      PROVE  pc[c] \in Holding \union {"mark"} /\ UNCHANGED <<at[c], off[c], msg[c]>>
  <2>1. CASE NothingHere(d)
    BY <1>3, <2>1
  <2>2. CASE pc[d] = "mark" /\ pc' = [pc EXCEPT ![d] = "deliver"] /\ UNCHANGED <<at, off, msg>>
    BY <1>0, <2>2 DEF TypeInv
  <2> QED  BY <1>7, <2>1, <2>2 DEF Mark
<1>8. ASSUME NEW d \in Processors, Insert(d)
      PROVE  pc[c] \in Holding /\ UNCHANGED <<at[c], off[c], msg[c]>>
  BY <1>0, <1>8 DEF Insert, TypeInv, Holding
<1>9. ASSUME NEW d \in Processors, Return(d), UNCHANGED at
      PROVE  pc[c] \in Holding /\ UNCHANGED <<at[c], off[c], msg[c]>>
  <2>1. c # d
    BY <1>0, <1>9, ReturnType
  <2> QED  BY <1>0, <1>9, <2>1, ReturnType
<1>10. ASSUME NEW n \in Nodes, Restart(n)
       PROVE  pc[c] \in Holding /\ UNCHANGED <<at[c], off[c], msg[c]>>
  BY <1>0, <1>10 DEF Restart
<1>11. CASE \E m \in Messages : AppendMessage(m)
  BY <1>1, <1>11 DEF AppendMessage
<1>12. CASE \E m \in Messages, n \in Nodes : LateAck(m, n)
  BY <1>1, <1>12 DEF LateAck
<1>13. CASE \E d \in Processors : ProcessorStep(d) \/ GiveUp(d) \/ AckTimeout(d)
  <2> PICK d \in Processors : ProcessorStep(d) \/ GiveUp(d) \/ AckTimeout(d)
    BY <1>13
  <2>1. CASE GiveUp(d) \/ AckTimeout(d) \/ \E n \in Nodes : SendAck(d, n)
    <3>1. Return(d) /\ UNCHANGED at
      BY <2>1 DEF GiveUp, AckTimeout, SendAck
    <3> QED  BY <1>9, <3>1
  <2>2. CASE \E n \in Nodes : Poll(d, n)
    BY <1>2, <2>2
  <2>3. CASE PollStep(d)
    BY <1>4, <1>5, <1>6, <1>7, <2>3 DEF PollStep
  <2>4. CASE Insert(d)
    BY <1>8, <2>4
  <2> QED  BY <2>1, <2>2, <2>3, <2>4 DEF ProcessorStep
<1>14. CASE \E n \in Nodes : Restart(n)
  BY <1>10, <1>14
<1>15. CASE UNCHANGED vars
  BY <1>1, <1>15 DEF vars
<1> QED  BY <1>11, <1>12, <1>13, <1>14, <1>15 DEF Next

LEMMA PlaceStep ==
    ASSUME CInv, PlaceInv, OneGroupPerTopic, [Next]_vars
    PROVE  PlaceInv'
<1> SUFFICES ASSUME NEW c \in Processors, pc'[c] \in Holding
             PROVE  InHand(c)'
  BY DEF PlaceInv
<1>1. /\ pc[c] \in Holding \union {"mark"}
      /\ at'[c] = at[c] /\ off'[c] = off[c] /\ msg'[c] = msg[c]
  BY ProcEffect
<1>2. InHand(c)
  <2>1. ProcInv(c)
    BY DEF CInv
  <2> QED  BY <1>1, <2>1 DEF PlaceInv, ProcInv, InHand
<1> DEFINE p == at[c]
           n == off[c]
<1>3. p \in Partitions /\ n \in Nat /\ Len(log[p]) \in Nat /\ Len(log'[p]) \in Nat
  <2>1. TypeInv /\ TypeInv'
    BY ConsumptionStep DEF CInv
  <2> QED  BY <2>1 DEF TypeInv
<1>4. Len(log[p]) <= Len(log'[p]) /\ \A i \in 1..Len(log[p]) : log'[p][i] = log[p][i]
  BY <1>3, GrowthEffect
<1>5. stored \subseteq stored'
  BY GrowthEffect
<1>6. n < Len(log[p]) /\ msg[c] = log[p][n + 1] /\ DoneBelow(KeyOf[c], p, n)
  BY <1>2 DEF InHand
<1> HIDE DEF p, n
<1>7. \A i \in 1..n : Wanted(KeyOf[c], log'[p][i]) => <<KeyOf[c], log'[p][i]>> \in stored'
  BY <1>3, <1>4, <1>5, <1>6, DoneStays
<1>8. n < Len(log'[p]) /\ msg[c] = log'[p][n + 1]
  BY <1>3, <1>4, <1>6
<1> QED  BY <1>1, <1>7, <1>8 DEF InHand, DoneBelow, p, n

(* A step leaves the two records of deliveries alone, or records one in    *)
(* both, ends one in both, or loses those of a node.                       *)
LEMMA RecordEffect ==
    ASSUME CInv, [Next]_vars
    PROVE  \/ UNCHANGED <<cur, inflight>>
           \/ \E c \in Processors :
                 pc[c] = "mark" /\ MarkInflight(KeyOf[c], at[c], off[c], msg[c])
           \/ \E m \in Messages :
                 /\ inflight[m] # None
                 /\ inflight' = [inflight EXCEPT ![m] = None]
                 /\ cur' = [cur EXCEPT ![inflight[m].key][inflight[m].part] = None]
           \/ \E n \in Nodes : Forget(LedBy(n))
<1>1. ASSUME NEW c \in Processors, NEW n \in Nodes, SendAck(c, n)
      PROVE  msg[c] \in Messages /\ AckAt(n, msg[c])
  BY <1>1 DEF SendAck, CInv, ProcInv, Holding
<1>2. CASE \E c \in Processors, n \in Nodes : SendAck(c, n)
  BY <1>1, <1>2, AckEffect DEF consumerVars
<1>3. CASE \E m \in Messages, n \in Nodes : LateAck(m, n)
  BY <1>3, AckEffect DEF LateAck, consumerVars
<1>4. CASE \E c \in Processors : Mark(c)
  BY <1>4 DEF Mark, consumerVars
<1>5. CASE \E n \in Nodes : Restart(n)
  BY <1>5 DEF Restart
<1>6. CASE \/ \E m \in Messages : AppendMessage(m)
           \/ \E c \in Processors :
                 \/ \E n \in Nodes : Poll(c, n)
                 \/ NextOffset(c) \/ Read(c) \/ SkipOther(c) \/ Insert(c)
                 \/ GiveUp(c) \/ AckTimeout(c)
           \/ UNCHANGED vars
  BY <1>6 DEF vars, AppendMessage, Poll, NextOffset, Read, SkipOther, Skip, Insert, GiveUp,
              AckTimeout, consumerVars
<1> QED  BY <1>2, <1>3, <1>4, <1>5, <1>6 DEF Next, ProcessorStep, PollStep

LEMMA BackStep ==
    ASSUME CInv, RouteInv, BackInv, OneGroupPerTopic, [Next]_vars
    PROVE  BackInv'
<1>0. TypeInv /\ ConsumerTypeOK
  BY DEF CInv, TypeInv
<1> SUFFICES ASSUME NEW k \in Keys, NEW p \in Partitions, cur'[k][p] # None
             PROVE  LET d == inflight'[cur'[k][p]] IN d # None /\ d.key = k /\ d.part = p
  BY DEF BackInv
<1>1. CASE UNCHANGED <<cur, inflight>>
  BY <1>1 DEF BackInv
<1>2. ASSUME NEW c \in Processors, pc[c] = "mark",
             MarkInflight(KeyOf[c], at[c], off[c], msg[c])
      PROVE  LET d == inflight'[cur'[k][p]] IN d # None /\ d.key = k /\ d.part = p
  <2> DEFINE l == KeyOf[c]
             q == at[c]
             m == msg[c]
             e == [key |-> l, part |-> q, off |-> off[c]]
  <2>1. l \in Keys /\ q \in Partitions /\ off[c] \in Nat
    BY <1>0, ConsumptionAssumption DEF TypeInv
  <2>2. inflight[m] = None /\ m \in Messages
    BY <1>2, MarkFresh DEF MarkInflight
  <2>3. cur' = [cur EXCEPT ![l][q] = m] /\ inflight' = [inflight EXCEPT ![m] = e]
    BY <1>2 DEF MarkInflight
  <2>4. e \in Delivery /\ e # None /\ e.key = l /\ e.part = q
    <3>1. e \in Delivery
      BY <2>1 DEF Delivery
    <3> QED  BY <3>1, NoneAssumption
  <2> HIDE DEF l, q, m, e
  <2>5. CASE k = l /\ p = q
    <3>1. cur'[k][p] = m
      BY <1>0, <2>1, <2>3, <2>5 DEF ConsumerTypeOK
    <3>2. inflight'[m] = e
      BY <1>0, <2>2, <2>3 DEF ConsumerTypeOK
    <3> QED  BY <2>4, <2>5, <3>1, <3>2
  <2>6. CASE ~ (k = l /\ p = q)
    <3>1. cur'[k][p] = cur[k][p]
      BY <1>0, <2>1, <2>3, <2>6 DEF ConsumerTypeOK
    <3>2. LET d == inflight[cur[k][p]] IN d # None /\ d.key = k /\ d.part = p
      BY <3>1 DEF BackInv
    <3>3. cur[k][p] \in Messages
      BY <1>0, <3>1 DEF ConsumerTypeOK
    <3>4. inflight'[cur[k][p]] = inflight[cur[k][p]]
      BY <1>0, <2>2, <2>3, <3>2, <3>3 DEF ConsumerTypeOK
    <3> QED  BY <3>1, <3>2, <3>4
  <2> QED  BY <2>5, <2>6
<1>3. ASSUME NEW m \in Messages,
             inflight[m] # None,
             inflight' = [inflight EXCEPT ![m] = None],
             cur' = [cur EXCEPT ![inflight[m].key][inflight[m].part] = None]
      PROVE  LET d == inflight'[cur'[k][p]] IN d # None /\ d.key = k /\ d.part = p
  <2> DEFINE l == inflight[m].key
             q == inflight[m].part
  <2>1. l \in Keys /\ q \in Partitions
    BY <1>0, <1>3 DEF ConsumerTypeOK, Delivery
  <2>2. cur' = [cur EXCEPT ![l][q] = None]
    BY <1>3
  <2> HIDE DEF l, q
  <2>3. ~ (k = l /\ p = q)
    BY <1>0, <2>1, <2>2 DEF ConsumerTypeOK
  <2>4. cur'[k][p] = cur[k][p]
    BY <1>0, <2>1, <2>2, <2>3 DEF ConsumerTypeOK
  <2>5. LET d == inflight[cur[k][p]] IN d # None /\ d.key = k /\ d.part = p
    BY <2>4 DEF BackInv
  <2>6. cur[k][p] # m
    BY <2>3, <2>5 DEF l, q
  <2>7. cur[k][p] \in Messages
    BY <1>0, <2>4 DEF ConsumerTypeOK
  <2>8. inflight'[cur[k][p]] = inflight[cur[k][p]]
    BY <1>0, <1>3, <2>6, <2>7 DEF ConsumerTypeOK
  <2> QED  BY <2>4, <2>5, <2>8
<1>4. ASSUME NEW n \in Nodes, Forget(LedBy(n))
      PROVE  LET d == inflight'[cur'[k][p]] IN d # None /\ d.key = k /\ d.part = p
  <2> DEFINE ps == LedBy(n)
  <2>1. /\ cur' = [l \in Keys |-> [q \in Partitions |-> IF q \in ps THEN None ELSE cur[l][q]]]
        /\ inflight' = [m \in Messages |->
              IF inflight[m] # None /\ inflight[m].part \in ps THEN None ELSE inflight[m]]
    BY <1>4 DEF Forget
  <2> HIDE DEF ps
  <2>2. p \notin ps /\ cur'[k][p] = cur[k][p]
    BY <2>1
  <2>3. LET d == inflight[cur[k][p]] IN d # None /\ d.key = k /\ d.part = p
    BY <2>2 DEF BackInv
  <2>4. cur[k][p] \in Messages
    BY <1>0, <2>2 DEF ConsumerTypeOK
  <2>5. inflight'[cur[k][p]] = inflight[cur[k][p]]
    BY <2>1, <2>2, <2>3, <2>4
  <2> QED  BY <2>2, <2>3, <2>5
<1> QED  BY <1>1, <1>2, <1>3, <1>4, RecordEffect

LEMMA FiniteStep ==
    ASSUME CInv, FiniteInv, [Next]_vars
    PROVE  FiniteInv'
<1>0. inflight \in [Messages -> Delivery \union {None}]
  BY DEF CInv, TypeInv, ConsumerTypeOK
<1>1. CASE InFlight' \subseteq InFlight
  BY <1>1, FS_Subset DEF FiniteInv
<1>2. CASE UNCHANGED <<cur, inflight>>
  BY <1>1, <1>2 DEF InFlight
<1>3. ASSUME NEW c \in Processors, MarkInflight(KeyOf[c], at[c], off[c], msg[c])
      PROVE  FiniteInv'
  <2>1. IsFiniteSet(InFlight \union {msg[c]})
    BY FS_AddElement DEF FiniteInv
  <2>2. InFlight' \subseteq InFlight \union {msg[c]}
    BY <1>0, <1>3 DEF InFlight, MarkInflight
  <2> QED  BY <2>1, <2>2, FS_Subset DEF FiniteInv
<1>4. CASE \E m \in Messages : inflight' = [inflight EXCEPT ![m] = None]
  BY <1>0, <1>1, <1>4 DEF InFlight
<1>5. CASE \E n \in Nodes : Forget(LedBy(n))
  BY <1>1, <1>5 DEF InFlight, Forget
<1> QED  BY <1>2, <1>3, <1>4, <1>5, RecordEffect

(* Nothing is handed out and nothing ends: who holds what stays.           *)
LEMMA HoldQuiet ==
    ASSUME HeldOnce, UNCHANGED inflight, late' \subseteq late,
           \A c \in Processors : pc'[c] \in Holding => pc[c] \in Holding /\ msg'[c] = msg[c]
    PROVE  HeldOnce'
<1>1. \A c \in Processors : pc'[c] \in Holding => inflight'[msg'[c]] # None /\ msg'[c] \notin late'
  BY DEF HeldOnce
<1>2. \A m \in late' : inflight'[m] # None
  BY DEF HeldOnce
<1>3. \A c, d \in Processors :
         pc'[c] \in Holding /\ pc'[d] \in Holding /\ msg'[c] = msg'[d] => c = d
  BY DEF HeldOnce
<1> QED  BY <1>1, <1>2, <1>3 DEF HeldOnce

(* The delivery of m ends: whoever holds a message now held it before, and *)
(* neither a hand nor a late ack has m.                                    *)
LEMMA HoldEnds ==
    ASSUME CInv, HeldOnce, NEW m \in Messages,
           UNCHANGED inflight \/ inflight' = [inflight EXCEPT ![m] = None],
           late' \subseteq late, m \notin late',
           \A c \in Processors : pc'[c] \in Holding =>
               pc[c] \in Holding /\ msg'[c] = msg[c] /\ msg[c] # m
    PROVE  HeldOnce'
<1>0. inflight \in [Messages -> Delivery \union {None}] /\ late \subseteq Messages
  BY DEF CInv, TypeInv, ConsumerTypeOK
<1>1. \A x \in Messages : x # m => inflight'[x] = inflight[x]
  BY <1>0
<1>2. ASSUME NEW c \in Processors, pc'[c] \in Holding
      PROVE  inflight'[msg'[c]] # None /\ msg'[c] \notin late'
  <2>1. pc[c] \in Holding /\ msg'[c] = msg[c] /\ msg[c] # m
    BY <1>2
  <2>2. msg[c] \in Messages
    BY <2>1 DEF CInv, ProcInv
  <2> QED  BY <1>1, <2>1, <2>2 DEF HeldOnce
<1>3. \A x \in late' : inflight'[x] # None
  BY <1>0, <1>1 DEF HeldOnce
<1>4. \A c, d \in Processors :
         pc'[c] \in Holding /\ pc'[d] \in Holding /\ msg'[c] = msg'[d] => c = d
  BY DEF HeldOnce
<1> QED  BY <1>2, <1>3, <1>4 DEF HeldOnce

(* markInflight hands out a message that nobody has.                       *)
LEMMA HoldMark ==
    ASSUME CInv, RouteInv, HeldOnce, OneGroupPerTopic, NEW c \in Processors, pc[c] = "mark",
           MarkInflight(KeyOf[c], at[c], off[c], msg[c]),
           pc' = [pc EXCEPT ![c] = "deliver"], UNCHANGED <<msg, late>>
    PROVE  HeldOnce'
<1> DEFINE m == msg[c]
           e == [key |-> KeyOf[c], part |-> at[c], off |-> off[c]]
<1>0. /\ inflight \in [Messages -> Delivery \union {None}] /\ late \subseteq Messages
      /\ pc \in [Processors -> PCs] /\ at[c] \in Partitions /\ off[c] \in Nat
      /\ KeyOf[c] \in Keys
  BY ConsumptionAssumption DEF CInv, TypeInv, ConsumerTypeOK
<1>1. inflight[m] = None /\ m \in Messages
  BY MarkFresh DEF MarkInflight
<1>2. inflight' = [inflight EXCEPT ![m] = e]
  BY DEF MarkInflight
<1>3. e # None
  <2>1. e \in Delivery
    BY <1>0 DEF Delivery
  <2> QED  BY <2>1, NoneAssumption
<1> HIDE DEF e
<1>4. \A x \in Messages : inflight[x] # None => x # m /\ inflight'[x] = inflight[x]
  BY <1>0, <1>1, <1>2
<1>5. inflight'[m] # None
  BY <1>0, <1>1, <1>2, <1>3
<1>6. \A x \in late : x # m /\ inflight'[x] # None
  BY <1>0, <1>4 DEF HeldOnce
<1>7. ASSUME NEW d \in Processors, d # c, pc'[d] \in Holding
      PROVE  pc[d] \in Holding /\ msg[d] # m /\ inflight'[msg[d]] # None /\ msg[d] \notin late
  <2>1. pc[d] \in Holding
    BY <1>0, <1>7
  <2>2. msg[d] \in Messages
    BY <2>1 DEF CInv, ProcInv
  <2> QED  BY <1>4, <2>1, <2>2 DEF HeldOnce
<1>8. \A d \in Processors : pc'[d] \in Holding => inflight'[msg'[d]] # None /\ msg'[d] \notin late'
  BY <1>5, <1>6, <1>7
<1>9. \A d, x \in Processors :
         pc'[d] \in Holding /\ pc'[x] \in Holding /\ msg'[d] = msg'[x] => d = x
  BY <1>7 DEF HeldOnce
<1> QED  BY <1>6, <1>8, <1>9 DEF HeldOnce

(* Faults are only added to the list.                                      *)
LEMMA FaultsKept ==
    ASSUME CInv, [Next]_vars, NoRestart'
    PROVE  NoRestart /\ \A n \in Nodes : ~ Restart(n)
<1>0. faults \in Seq(FaultKinds) /\ Len(faults) \in Nat
  BY DEF CInv, TypeInv
<1>1. ASSUME NEW kind, faults' = Append(faults, kind)
      PROVE  NoRestart /\ kind # "restart"
  <2>1. /\ DOMAIN faults = 1..Len(faults)
        /\ DOMAIN faults' = 1..(Len(faults) + 1)
        /\ \A i \in 1..Len(faults) : faults'[i] = faults[i]
        /\ faults'[Len(faults) + 1] = kind
    BY <1>0, <1>1
  <2>2. \A i \in 1..(Len(faults) + 1) : faults'[i] # "restart"
    BY <2>1 DEF NoRestart, Range
  <2>3. \A i \in 1..Len(faults) : faults[i] # "restart"
    BY <1>0, <2>1, <2>2
  <2>4. kind # "restart"
    BY <1>0, <2>1, <2>2
  <2> QED  BY <2>1, <2>3, <2>4 DEF NoRestart, Range
<1>2. UNCHANGED faults \/ \E kind : faults' = Append(faults, kind)
  BY DEF Next, vars, AppendMessage, ProcessorStep, PollStep, Poll, NextOffset, Read, SkipOther,
         Mark, Insert, SendAck, GiveUp, AckTimeout, LateAck, Restart, Fault
<1>3. NoRestart
  BY <1>1, <1>2 DEF NoRestart
<1>4. \A n \in Nodes : ~ Restart(n)
  BY <1>1 DEF Restart, Fault
<1> QED  BY <1>3, <1>4

LEMMA HoldStep ==
    ASSUME CInv, RouteInv, HoldInv, OneGroupPerTopic, [Next]_vars
    PROVE  HoldInv'
<1> SUFFICES ASSUME NoRestart' PROVE HeldOnce'
  BY DEF HoldInv
<1>0. HeldOnce /\ \A n \in Nodes : ~ Restart(n)
  BY FaultsKept DEF HoldInv
<1>00. TypeInv
  BY DEF CInv
<1>1. ASSUME NEW c \in Processors, pc'[c] \in Holding
      PROVE  pc[c] \in Holding \union {"mark"} /\ msg'[c] = msg[c]
  BY <1>1, ProcEffect
<1>2. ASSUME UNCHANGED inflight, late' \subseteq late,
             \A c \in Processors : pc[c] = "mark" => pc'[c] \notin Holding
      PROVE  HeldOnce'
  BY <1>0, <1>1, <1>2, HoldQuiet
<1>3. \A c \in Processors : pc[c] = "mark" => pc[c] \notin Holding
  BY DEF Holding
<1>4. ASSUME NEW c \in Processors, NothingHere(c), UNCHANGED <<consumerVars, late>>
      PROVE  HeldOnce'
  <2>1. \A d \in Processors : pc'[d] \in {"idle", "next"} \/ pc'[d] = pc[d]
    BY <1>00, <1>4, NothingHereType
  <2>2. \A d \in Processors : pc[d] = "mark" => pc'[d] \notin Holding
    BY <2>1 DEF Holding
  <2> QED  BY <1>2, <1>4, <2>2 DEF consumerVars
<1>5. ASSUME NEW c \in Processors, NEW x \in {"next", "read", "mark", "skip"},
             pc' = [pc EXCEPT ![c] = x], UNCHANGED <<inflight, late>>
      PROVE  HeldOnce'
  <2>1. \A d \in Processors : pc'[d] = x \/ pc'[d] = pc[d]
    BY <1>00, <1>5 DEF TypeInv
  <2>2. \A d \in Processors : pc[d] = "mark" => pc'[d] \notin Holding
    BY <2>1 DEF Holding
  <2> QED  BY <1>2, <1>5, <2>2
<1>6. ASSUME UNCHANGED <<pc, inflight, late>> PROVE HeldOnce'
  BY <1>2, <1>3, <1>6
<1>7. ASSUME NEW c \in Processors, NextOffset(c) PROVE HeldOnce'
  BY <1>4, <1>5, <1>7 DEF NextOffset, consumerVars
<1>8. ASSUME NEW c \in Processors, Read(c) PROVE HeldOnce'
  <2>1. CASE NothingHere(c)
    BY <1>4, <1>8, <2>1 DEF Read
  <2>2. CASE ~ NothingHere(c)
    <3>1. \E x \in {"mark", "skip"} : pc' = [pc EXCEPT ![c] = x]
      BY <1>8, <2>2 DEF Read
    <3> QED  BY <1>5, <1>8, <3>1 DEF Read, consumerVars
  <2> QED  BY <2>1, <2>2
<1>9. ASSUME NEW c \in Processors, SkipOther(c) PROVE HeldOnce'
  BY <1>5, <1>9 DEF SkipOther, Skip
<1>10. ASSUME NEW c \in Processors, Mark(c) PROVE HeldOnce'
  <2>1. CASE NothingHere(c) /\ UNCHANGED consumerVars
    BY <1>4, <1>10, <2>1 DEF Mark
  <2>2. CASE /\ MarkInflight(KeyOf[c], at[c], off[c], msg[c])
             /\ pc' = [pc EXCEPT ![c] = "deliver"]
             /\ UNCHANGED <<at, off, msg>>
    BY <1>0, <1>10, <2>2, HoldMark DEF Mark
  <2> QED  BY <1>10, <2>1, <2>2 DEF Mark
<1>11. ASSUME NEW c \in Processors, Insert(c) PROVE HeldOnce'
  <2>1. \A d \in Processors : pc'[d] = pc[d] \/ pc[d] = "deliver"
    BY <1>00, <1>11 DEF Insert, TypeInv
  <2>2. \A d \in Processors : pc[d] = "mark" => pc'[d] \notin Holding
    BY <2>1 DEF Holding
  <2> QED  BY <1>2, <1>11, <2>2 DEF Insert, consumerVars
<1>12. ASSUME NEW c \in Processors, Return(c), pc[c] \in Holding \union {"read"}
       PROVE  \A d \in Processors : pc'[d] \in Holding =>
                 d # c /\ pc[d] \in Holding /\ msg'[d] = msg[d]
  <2>1. pc'[c] = "idle" /\ \A d \in Processors \ {c} : pc'[d] = pc[d] /\ msg'[d] = msg[d]
    BY <1>00, <1>12, ReturnType
  <2> QED  BY <2>1 DEF Holding
<1>13. ASSUME NEW c \in Processors, GiveUp(c) PROVE HeldOnce'
  <2>1. Return(c) /\ UNCHANGED <<inflight, late>> /\ pc[c] \in Holding \union {"read"}
    BY <1>13 DEF GiveUp, consumerVars, Holding
  <2> QED  BY <1>0, <1>12, <2>1, HoldQuiet
<1>14. ASSUME NEW c \in Processors, AckTimeout(c) PROVE HeldOnce'
  <2>1. /\ Return(c) /\ UNCHANGED inflight /\ late' = late \union {msg[c]}
        /\ pc[c] \in Holding
    BY <1>14 DEF AckTimeout, consumerVars, Holding
  <2>2. \A d \in Processors : pc'[d] \in Holding =>
           d # c /\ pc[d] \in Holding /\ msg'[d] = msg[d]
    BY <1>12, <2>1
  <2>3. \A d \in Processors : pc'[d] \in Holding => inflight'[msg'[d]] # None /\ msg'[d] \notin late'
    BY <1>0, <2>1, <2>2 DEF HeldOnce
  <2>4. \A m \in late' : inflight'[m] # None
    BY <1>0, <2>1 DEF HeldOnce
  <2>5. \A d, e \in Processors :
           pc'[d] \in Holding /\ pc'[e] \in Holding /\ msg'[d] = msg'[e] => d = e
    BY <1>0, <2>2 DEF HeldOnce
  <2> QED  BY <2>3, <2>4, <2>5 DEF HeldOnce
<1>15. ASSUME NEW c \in Processors, NEW n \in Nodes, SendAck(c, n) PROVE HeldOnce'
  <2>1. Return(c) /\ AckAt(n, msg[c]) /\ UNCHANGED late /\ pc[c] \in Holding
    BY <1>15 DEF SendAck, Holding
  <2>2. msg[c] \in Messages
    BY <2>1 DEF CInv, ProcInv
  <2>3. UNCHANGED inflight \/ inflight' = [inflight EXCEPT ![msg[c]] = None]
    BY <2>1, <2>2, AckEffect DEF consumerVars
  <2>4. \A d \in Processors : pc'[d] \in Holding =>
           pc[d] \in Holding /\ msg'[d] = msg[d] /\ msg[d] # msg[c]
    BY <1>0, <1>12, <2>1 DEF HeldOnce
  <2>5. msg[c] \notin late'
    BY <1>0, <2>1 DEF HeldOnce
  <2> QED  BY <1>0, <2>1, <2>2, <2>3, <2>4, <2>5, HoldEnds
<1>16. ASSUME NEW m \in Messages, NEW n \in Nodes, LateAck(m, n) PROVE HeldOnce'
  <2>1. m \in late /\ late' = late \ {m} /\ AckAt(n, m) /\ UNCHANGED <<pc, msg>>
    BY <1>16 DEF LateAck, procVars
  <2>2. UNCHANGED inflight \/ inflight' = [inflight EXCEPT ![m] = None]
    BY <2>1, AckEffect DEF consumerVars
  <2>3. \A d \in Processors : pc'[d] \in Holding =>
           pc[d] \in Holding /\ msg'[d] = msg[d] /\ msg[d] # m
    BY <1>0, <2>1 DEF HeldOnce
  <2> QED  BY <1>0, <2>1, <2>2, <2>3, HoldEnds
<1>17. ASSUME NEW m \in Messages, AppendMessage(m) PROVE HeldOnce'
  BY <1>6, <1>17 DEF AppendMessage, procVars, consumerVars
<1>18. ASSUME NEW c \in Processors, NEW n \in Nodes, Poll(c, n) PROVE HeldOnce'
  BY <1>5, <1>18 DEF Poll, consumerVars
<1>19. CASE UNCHANGED vars
  BY <1>6, <1>19 DEF vars, procVars, consumerVars
<1> QED  BY <1>0, <1>7, <1>8, <1>9, <1>10, <1>11, <1>13, <1>14, <1>15, <1>16, <1>17, <1>18, <1>19
         DEF Next, ProcessorStep, PollStep

(* Both invariants, when no two groups consume the same topic.             *)
THEOREM DeliveryInvariance ==
    ASSUME OneGroupPerTopic
    PROVE  Spec => [](CInv /\ DInv)
<1>1. Init => CInv /\ DInv
  BY ConsumptionInit, DeliveryInit
<1>2. CInv /\ DInv /\ [Next]_vars => (CInv /\ DInv)'
  BY ConsumptionStep, RouteStep, BackStep, FiniteStep, PlaceStep, HoldStep DEF DInv
<1> QED  BY <1>1, <1>2, PTL DEF Spec

(* Until a queue node restarts, no two processors of a group work on the   *)
(* same partition (nextOffset and markInflight refuse a partition with a   *)
(* delivery in flight, ack frees it): a late ack frees only the delivery   *)
(* it belongs to.                                                          *)
THEOREM HandsExclusive ==
    ASSUME OneGroupPerTopic
    PROVE  Spec => []ExclusiveDelivery
<1>1. CInv /\ DInv => ExclusiveDelivery
  <2> SUFFICES ASSUME CInv, DInv, NoRestart, NEW c \in Processors, NEW d \in Processors,
                      pc[c] \in Holding, pc[d] \in Holding,
                      KeyOf[c] = KeyOf[d], at[c] = at[d]
               PROVE  c = d
    BY DEF ExclusiveDelivery, NoRestart
  <2>0. HeldOnce /\ RouteInv /\ InHand(c) /\ InHand(d)
    BY DEF DInv, HoldInv, PlaceInv
  <2>1. KeyOf[c] \in Keys /\ Wanted(KeyOf[c], msg[c]) /\ Wanted(KeyOf[d], msg[d])
    BY ConsumptionAssumption DEF CInv, ProcInv
  <2>2. /\ msg[c] \in Messages /\ PartitionOf[msg[c]] = at[c]
        /\ msg[d] \in Messages /\ PartitionOf[msg[d]] = at[d]
    BY <2>0, HandPlace
  <2>3. inflight[msg[c]] # None /\ inflight[msg[d]] # None
    BY <2>0 DEF HeldOnce
  <2>4. cur[KeyOf[c]][PartitionOf[msg[c]]] = msg[c]
    BY <2>0, <2>1, <2>2, <2>3, FlightPlace
  <2>5. cur[KeyOf[c]][PartitionOf[msg[d]]] = msg[d]
    BY <2>0, <2>1, <2>2, <2>3, FlightPlace
  <2>6. msg[c] = msg[d]
    BY <2>2, <2>4, <2>5
  <2> QED  BY <2>0, <2>6 DEF HeldOnce
<1> QED  BY <1>1, DeliveryInvariance, PTL

(* The gauge of messages in flight (MetricsSnapshot) counts as many        *)
(* deliveries as the statistics show partitions that wait for an ack       *)
(* (Stats), across restarts, late acks and polls that overtake each other. *)
THEOREM CountsAgree ==
    ASSUME OneGroupPerTopic
    PROVE  Spec => []StatsAgree
<1>1. CInv /\ DInv => StatsAgree
  <2> SUFFICES ASSUME CInv, DInv PROVE StatsAgree
    OBVIOUS
  <2>0. /\ cur \in [Keys -> [Partitions -> Messages \union {None}]]
        /\ inflight \in [Messages -> Delivery \union {None}]
        /\ BackInv /\ FlightInv
    BY DEF CInv, DInv, TypeInv, ConsumerTypeOK
  <2> DEFINE f == [m \in InFlight |-> <<inflight[m].key, inflight[m].part>>]
  <2>1. ASSUME NEW m \in InFlight
        PROVE  /\ m \in Messages /\ inflight[m].key \in Keys /\ inflight[m].part \in Partitions
               /\ cur[inflight[m].key][inflight[m].part] = m
    BY <2>0 DEF InFlight, FlightInv, Delivery
  <2>2. f \in [InFlight -> InflightPartitions]
    <3> SUFFICES ASSUME NEW m \in InFlight
                 PROVE  <<inflight[m].key, inflight[m].part>> \in InflightPartitions
      OBVIOUS
    <3> QED  BY <2>1, ConsumerAssumption DEF InflightPartitions
  <2>3. IsInjective(f)
    <3> SUFFICES ASSUME NEW a \in InFlight, NEW b \in InFlight, f[a] = f[b] PROVE a = b
      BY DEF IsInjective
    <3>1. inflight[a].key = inflight[b].key /\ inflight[a].part = inflight[b].part
      OBVIOUS
    <3> QED  BY <2>1, <3>1
  <2>4. \A t \in InflightPartitions : \E m \in InFlight : f[m] = t
    <3> TAKE t \in InflightPartitions
    <3>1. PICK k \in Keys, p \in Partitions : t = <<k, p>> /\ cur[k][p] # None
      BY DEF InflightPartitions
    <3> DEFINE m == cur[k][p]
    <3>2. m \in Messages
      BY <2>0, <3>1
    <3>3. inflight[m] # None /\ inflight[m].key = k /\ inflight[m].part = p
      BY <2>0, <3>1 DEF BackInv
    <3>4. m \in InFlight
      BY <3>2, <3>3 DEF InFlight
    <3> QED  BY <3>1, <3>3, <3>4
  <2> HIDE DEF f
  <2>5. ExistsBijection(InFlight, InflightPartitions)
    BY <2>2, <2>3, <2>4 DEF ExistsBijection, Bijection, Injection, Surjection
  <2>6. Cardinality(InflightPartitions) = Cardinality(InFlight)
    BY <2>5, FS_Bijection DEF DInv, FiniteInv
  <2> QED  BY <2>6 DEF StatsAgree, InflightCount, InFlight
<1> QED  BY <1>1, DeliveryInvariance, PTL

(* Polls, deliveries, acks and restarts together implement delivery in the *)
(* order of each log: an accepted publish is the abstract append, a commit *)
(* of Insert the abstract store, and everything else is invisible.         *)
THEOREM ConsumptionImplementsOrder ==
    ASSUME OneGroupPerTopic
    PROVE  Spec => ImplementsOrderedDelivery
<1>1. Init => Ordered!Init
  BY DEF Init, Ordered!Init
<1>2. CInv /\ DInv /\ [Next]_vars => [Ordered!Next]_(Ordered!vars)
  <2> SUFFICES ASSUME CInv, DInv, [Next]_vars
               PROVE  Ordered!Next \/ UNCHANGED <<log, stored>>
    BY DEF Ordered!vars
  <2>1. ASSUME NEW m \in Messages, AppendMessage(m) PROVE Ordered!Next
    <3>1. PartitionOf[m] \in Partitions
      BY ConsumptionAssumption
    <3>2. ASSUME NEW q \in Partitions, m \in Ordered!Range(log[q]) PROVE q = PartitionOf[m]
      <4>1. log[q] \in Seq(Messages)
        BY DEF CInv, TypeInv
      <4>2. PICK i \in 1..Len(log[q]) : log[q][i] = m
        BY <3>2, <4>1 DEF Ordered!Range
      <4> QED  BY <4>2 DEF DInv, RouteInv
    <3>3. m \notin Ordered!Range(log[PartitionOf[m]])
      BY <2>1 DEF AppendMessage, Range, Ordered!Range
    <3>4. \A q \in Partitions : m \notin Ordered!Range(log[q])
      BY <3>2, <3>3
    <3>5. Ordered!AppendMessage(PartitionOf[m], m)
      BY <2>1, <3>4 DEF AppendMessage, Ordered!AppendMessage
    <3> QED  BY <3>1, <3>5 DEF Ordered!Next
  <2>2. ASSUME NEW c \in Processors, Insert(c) PROVE Ordered!Next
    <3> DEFINE k == KeyOf[c]
               p == at[c]
               i == off[c] + 1
    <3>1. pc[c] \in Holding /\ stored' = stored \union {<<k, msg[c]>>} /\ UNCHANGED log
      BY <2>2 DEF Insert, Holding
    <3>2. InHand(c) /\ Wanted(k, msg[c])
      BY <3>1 DEF DInv, PlaceInv, CInv, ProcInv
    <3>3. k \in Keys /\ p \in Partitions /\ off[c] \in Nat /\ log[p] \in Seq(Messages)
      BY ConsumptionAssumption DEF CInv, TypeInv
    <3>4. i \in DOMAIN log[p] /\ i - 1 = off[c]
      BY <3>2, <3>3 DEF InHand
    <3>5. msg[c] = log[p][i] /\ DoneBelow(k, p, off[c])
      BY <3>2 DEF InHand
    <3> HIDE DEF k, p, i
    <3>6. \A j \in 1..(i - 1) : MsgTopic[log[p][j]] = KeyTopic[k] => <<k, log[p][j]>> \in stored
      BY <3>4, <3>5 DEF DoneBelow, Wanted
    <3>7. Ordered!Store(k, p, i)
      BY <3>1, <3>2, <3>5, <3>6 DEF Ordered!Store, Wanted
    <3> QED  BY <3>3, <3>4, <3>7 DEF Ordered!Next
  <2>3. \/ \E m \in Messages : AppendMessage(m)
        \/ \E c \in Processors : Insert(c)
        \/ UNCHANGED <<log, stored>>
    BY DEF Next, vars, ProcessorStep, PollStep, Poll, NextOffset, Read, SkipOther, Mark,
           SendAck, GiveUp, AckTimeout, LateAck, Restart
  <2> QED  BY <2>1, <2>2, <2>3
<1> QED  BY <1>1, <1>2, DeliveryInvariance, PTL DEF Spec, ImplementsOrderedDelivery, Ordered!Spec

-----------------------------------------------------------------------------
(* What the abstract specification promises.                               *)

(* A message is in one place of one log, and only logged messages are      *)
(* stored.                                                                 *)
OnePlace ==
    \A p, q \in Partitions : \A i \in 1..Len(log[p]), j \in 1..Len(log[q]) :
        log[p][i] = log[q][j] => p = q /\ i = j

StoredLogged ==
    \A k \in Keys, m \in Messages : <<k, m>> \in stored =>
        \E p \in Partitions : \E i \in 1..Len(log[p]) : log[p][i] = m

OrderInv ==
    /\ log \in [Partitions -> Seq(Messages)]
    /\ OnePlace
    /\ StoredLogged
    /\ Ordered!StoredInOrder

LEMMA OrderAppend ==
    ASSUME OrderInv, NEW p \in Partitions, NEW m \in Messages, Ordered!AppendMessage(p, m)
    PROVE  OrderInv'
<1>0. /\ log \in [Partitions -> Seq(Messages)] /\ OnePlace /\ StoredLogged
      /\ Ordered!StoredInOrder
  BY DEF OrderInv
<1>1. log' = [log EXCEPT ![p] = Append(log[p], m)] /\ stored' = stored
  BY DEF Ordered!AppendMessage
<1>2. \A q \in Partitions : \A i \in 1..Len(log[q]) : log[q][i] # m
  <2>1. \A q \in Partitions : m \notin Ordered!Range(log[q])
    BY DEF Ordered!AppendMessage
  <2>2. \A q \in Partitions : DOMAIN log[q] = 1..Len(log[q])
    BY <1>0
  <2> QED  BY <2>1, <2>2 DEF Ordered!Range
<1>3. log' \in [Partitions -> Seq(Messages)]
  <2>1. Append(log[p], m) \in Seq(Messages)
    BY <1>0
  <2> QED  BY <1>0, <1>1, <2>1
<1> DEFINE n == Len(log[p]) + 1
<1>4. /\ n \in Nat /\ n >= 1 /\ Len(log'[p]) = n /\ log'[p][n] = m
      /\ \A i \in 1..n : i # n => i \in 1..Len(log[p]) /\ log'[p][i] = log[p][i]
      /\ \A q \in Partitions : q # p => log'[q] = log[q]
      /\ 1..Len(log[p]) \subseteq 1..n
  BY <1>0, <1>1
<1> HIDE DEF n
<1>5. ASSUME NEW q \in Partitions, NEW i \in 1..Len(log'[q])
      PROVE  (q = p /\ i = n /\ log'[q][i] = m) \/ (i \in 1..Len(log[q]) /\ log'[q][i] = log[q][i])
  BY <1>4
<1>6. OnePlace'
  <2> SUFFICES ASSUME NEW q \in Partitions, NEW r \in Partitions,
                      NEW i \in 1..Len(log'[q]), NEW j \in 1..Len(log'[r]),
                      log'[q][i] = log'[r][j]
               PROVE  q = r /\ i = j
    BY DEF OnePlace
  <2> QED  BY <1>0, <1>2, <1>5 DEF OnePlace
<1>7. StoredLogged'
  <2> SUFFICES ASSUME NEW k \in Keys, NEW x \in Messages, <<k, x>> \in stored
               PROVE  \E q \in Partitions : \E i \in 1..Len(log'[q]) : log'[q][i] = x
    BY <1>1 DEF StoredLogged
  <2>0. PICK q \in Partitions : \E i \in 1..Len(log[q]) : log[q][i] = x
    BY <1>0 DEF StoredLogged
  <2>1. PICK i \in 1..Len(log[q]) : log[q][i] = x
    BY <2>0
  <2>2. i \in 1..Len(log'[q]) /\ log'[q][i] = log[q][i]
    <3>1. CASE q = p
      <4>1. i \in 1..n /\ i # n
        BY <1>0, <1>4, <2>1, <3>1 DEF n
      <4> QED  BY <1>4, <3>1, <4>1
    <3>2. CASE q # p
      BY <1>4, <3>2
    <3> QED  BY <3>1, <3>2
  <2> QED  BY <2>1, <2>2
<1>8. Ordered!StoredInOrder'
  <2> SUFFICES ASSUME NEW k \in Keys, NEW q \in Partitions, NEW i \in DOMAIN log'[q],
                      <<k, log'[q][i]>> \in stored, NEW j \in 1..(i - 1),
                      MsgTopic[log'[q][j]] = KeyTopic[k]
               PROVE  <<k, log'[q][j]>> \in stored
    BY <1>1 DEF Ordered!StoredInOrder
  <2>1. i \in 1..Len(log'[q]) /\ j \in 1..Len(log'[q]) /\ j < i
    BY <1>3
  <2>2. <<k, m>> \notin stored
    BY <1>0, <1>2 DEF StoredLogged
  <2>3. i \in 1..Len(log[q]) /\ log'[q][i] = log[q][i]
    BY <1>5, <2>1, <2>2
  <2>4. j \in 1..Len(log[q]) /\ log'[q][j] = log[q][j]
    <3>1. Len(log[q]) \in Nat
      BY <1>0
    <3>2. j \in 1..Len(log[q])
      BY <2>1, <2>3, <3>1
    <3>3. ~(q = p /\ j = n)
      BY <1>4, <3>1, <3>2 DEF n
    <3> QED  BY <1>5, <2>1, <3>2, <3>3
  <2>5. DOMAIN log[q] = 1..Len(log[q])
    BY <1>0
  <2> QED  BY <1>0, <2>3, <2>4, <2>5 DEF Ordered!StoredInOrder
<1> QED  BY <1>3, <1>6, <1>7, <1>8 DEF OrderInv

LEMMA OrderStore ==
    ASSUME OrderInv, NEW k \in Keys, NEW p \in Partitions, NEW i \in DOMAIN log[p],
           Ordered!Store(k, p, i)
    PROVE  OrderInv'
<1>0. /\ log \in [Partitions -> Seq(Messages)] /\ OnePlace /\ StoredLogged
      /\ Ordered!StoredInOrder
      /\ \A q \in Partitions : DOMAIN log[q] = 1..Len(log[q]) /\ Len(log[q]) \in Nat
  BY DEF OrderInv
<1>1. /\ log' = log /\ stored' = stored \union {<<k, log[p][i]>>}
      /\ \A j \in 1..(i - 1) : MsgTopic[log[p][j]] = KeyTopic[k] => <<k, log[p][j]>> \in stored
  BY DEF Ordered!Store
<1>2. StoredLogged'
  <2> SUFFICES ASSUME NEW l \in Keys, NEW x \in Messages, <<l, x>> \in stored'
               PROVE  \E q \in Partitions : \E j \in 1..Len(log[q]) : log[q][j] = x
    BY <1>1 DEF StoredLogged
  <2>1. <<l, x>> \in stored \/ x = log[p][i]
    BY <1>1
  <2> QED  BY <1>0, <2>1 DEF StoredLogged
<1>3. Ordered!StoredInOrder'
  <2> SUFFICES ASSUME NEW l \in Keys, NEW q \in Partitions, NEW a \in DOMAIN log[q],
                      <<l, log[q][a]>> \in stored', NEW j \in 1..(a - 1),
                      MsgTopic[log[q][j]] = KeyTopic[l]
               PROVE  <<l, log[q][j]>> \in stored'
    BY <1>1 DEF Ordered!StoredInOrder
  <2>1. CASE <<l, log[q][a]>> \in stored
    BY <1>0, <1>1, <2>1 DEF Ordered!StoredInOrder
  <2>2. CASE <<l, log[q][a]>> = <<k, log[p][i]>>
    <3>0. l = k /\ log[q][a] = log[p][i]
      BY <2>2
    <3>1. l = k /\ q = p /\ a = i
      <4>1. a \in 1..Len(log[q]) /\ i \in 1..Len(log[p])
        BY <1>0
      <4> QED  BY <1>0, <3>0, <4>1 DEF OnePlace
    <3> QED  BY <1>1, <3>1
  <2> QED  BY <1>1, <2>1, <2>2
<1> QED  BY <1>0, <1>1, <1>2, <1>3 DEF OrderInv, OnePlace

(* Appends and stores as OrderedDelivery allows them leave no gap: this is *)
(* what the abstract specification is for.                                 *)
THEOREM OrderedHasNoGap == Ordered!Spec => []Ordered!StoredInOrder
<1>1. Ordered!Init => OrderInv
  <2> SUFFICES ASSUME Ordered!Init PROVE OrderInv
    OBVIOUS
  <2>1. log = [p \in Partitions |-> <<>>] /\ stored = {}
    BY DEF Ordered!Init
  <2> QED  BY <2>1 DEF OrderInv, OnePlace, StoredLogged, Ordered!StoredInOrder
<1>2. OrderInv /\ [Ordered!Next]_(Ordered!vars) => OrderInv'
  <2>1. ASSUME OrderInv, UNCHANGED Ordered!vars PROVE OrderInv'
    BY <2>1 DEF Ordered!vars, OrderInv, OnePlace, StoredLogged, Ordered!StoredInOrder
  <2> QED  BY <2>1, OrderAppend, OrderStore DEF Ordered!Next
<1>3. OrderInv => Ordered!StoredInOrder
  BY DEF OrderInv
<1> QED  BY <1>1, <1>2, <1>3, PTL DEF Ordered!Spec

(* When no two groups consume the same topic, what Postgres has of a       *)
(* partition is at every moment all of the topic up to some message,       *)
(* whatever polls overtake each other, processors give up, acks are late   *)
(* or lost and nodes restart.                                              *)
THEOREM StoredWithoutGap ==
    ASSUME OneGroupPerTopic
    PROVE  Spec => []Ordered!StoredInOrder
<1>1. Spec => Ordered!Spec
  BY ConsumptionImplementsOrder DEF ImplementsOrderedDelivery
<1> QED  BY <1>1, OrderedHasNoGap, PTL
=============================================================================
