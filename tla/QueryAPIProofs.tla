--------------------------- MODULE QueryAPIProofs ---------------------------
(***************************************************************************)
(* The API and the store together, for any number of processes, messages   *)
(* and requests: what an answer contains, and why a request fails.  A      *)
(* statement sees what is committed at its own moment, so its answer is    *)
(* judged when it runs; after that the rows are fixed and the tables only  *)
(* grow.                                                                   *)
(* Then the request metrics, for any sequence of responses, and the schema *)
(* that OpenStore creates.                                                 *)
(***************************************************************************)
EXTENDS QueryAPI, TelemetryStoreProofs, Ranks

(* What is kept of the request that s serves, besides what the properties  *)
(* say: the query goes with the path, only a request that names its start  *)
(* asks for a window that ends before it, and the rows of an answer are    *)
(* numbers of samples.                                                     *)
QueryInv(s) ==
    /\ req[s].request.path = "gpus" => req[s].query = None
    /\ req[s].query # None /\ req[s].query.to < req[s].query.from =>
          IsTime(Get(req[s].request, "start")) \/ IsTime(Get(req[s].request, "start_time"))
    /\ Answered(s) /\ req[s].query # None =>
          \A i \in DOMAIN req[s].rows : req[s].rows[i] \in DOMAIN samples

HandInv(s) ==
    req[s] # None =>
        /\ req[s] \in Served
        /\ req[s].rows # <<>> => req[s].status = 200
        /\ req[s].stored \subseteq inserted
        /\ Ready(s)
        /\ QueryInv(s)

ReqInv(s) ==
    /\ HandInv(s)
    /\ Complete(s)
    /\ Sound(s)
    /\ Explained(s)

QInv ==
    /\ StoreInv
    /\ req \in [Servers -> Served \union {None}]
    /\ \A s \in Servers : ReqInv(s)

-----------------------------------------------------------------------------
(* Samples, messages and processes.                                        *)

Grows ==
    /\ inserted \subseteq inserted'
    /\ DOMAIN samples \subseteq DOMAIN samples'
    /\ \A i \in DOMAIN samples : samples'[i] = samples[i]
    /\ \A p \in Processes : Ready(p) => Ready(p)'

(* Nothing committed is changed or removed, and a process that has opened  *)
(* the store stays ready.                                                  *)
LEMMA StoreGrows ==
    ASSUME StoreInv, StoreNext
    PROVE  Grows
<1> USE DEF StoreInv
<1>1. CASE \E p \in Processes : Statement(p) \/ OpenFails(p)
  <2>1. PICK p \in Processes : Statement(p) \/ OpenFails(p)
    BY <1>1
  <2>2. UNCHANGED dbVars
    BY <2>1 DEF Statement, OpenFails
  <2>3. \A r \in Processes : Ready(r) => Ready(r)'
    BY <2>1 DEF Statement, OpenFails, Ready, StoreTypeOK
  <2> QED  BY <2>2, <2>3 DEF Grows, dbVars
<1>2. CASE Tick
  BY <1>2 DEF Tick, Grows, dbVars, Ready
<1>3. CASE \E w \in Writers, m \in Messages : BeginTx(w, m)
  BY <1>3 DEF BeginTx, Grows, Ready
<1>4. CASE \E w \in Writers : Upsert(w) \/ InsertSample(w) \/ Rollback(w)
  BY <1>4 DEF Upsert, InsertSample, Rollback, Grows, Ready
<1>5. CASE \E w \in Writers : Commit(w) \/ CommitUnknown(w)
  <2>1. PICK w \in Writers : Commit(w) \/ CommitUnknown(w)
    BY <1>5
  <2>2. /\ samples' = Append(samples, tx[w].sample)
        /\ inserted \subseteq inserted'
        /\ UNCHANGED stage
    BY <2>1 DEF Commit, CommitUnknown, Apply
  <2>3. /\ DOMAIN samples \subseteq DOMAIN samples'
        /\ \A i \in DOMAIN samples : samples'[i] = samples[i]
    BY <2>2 DEF StoreTypeOK
  <2> QED  BY <2>2, <2>3 DEF Grows, Ready
<1> QED  BY <1>1, <1>2, <1>3, <1>4, <1>5 DEF StoreNext, InsertStep

(* A request that is left alone keeps its part of the invariant.           *)
LEMMA RequestStays ==
    ASSUME QInv, Grows, NEW s \in Servers, req'[s] = req[s]
    PROVE  ReqInv(s)'
<1>1. CASE req[s] = None
  BY <1>1 DEF ReqInv, HandInv, Complete, Sound, Explained, Answered
<1>2. CASE req[s] # None
  <2>1. ReqInv(s) /\ req[s] \in Served /\ s \in Processes
    BY <1>2 DEF QInv, ReqInv, HandInv, Processes
  <2>2. HandInv(s)'
    BY <1>2, <2>1 DEF ReqInv, HandInv, QueryInv, Grows, Answered
  <2>3. Answered(s)' = Answered(s)
    BY DEF Answered
  <2>4. ASSUME Answered(s), req[s].query # None, NEW i \in DOMAIN req[s].rows
        PROVE  req[s].rows[i] \in DOMAIN samples /\ samples'[req[s].rows[i]] = samples[req[s].rows[i]]
    BY <1>2, <2>1, <2>4 DEF ReqInv, HandInv, QueryInv, Grows
  <2>5. Sound(s)'
    <3> SUFFICES ASSUME Answered(s), req[s].query # None
                 PROVE  Sound(s)'
      BY <2>3 DEF Sound
    <3>1. \A i, j \in DOMAIN req[s].rows :
             i < j => samples'[req[s].rows[i]].at <= samples'[req[s].rows[j]].at
      BY <2>1, <2>4 DEF ReqInv, Sound, InOrder
    <3>2. \A i \in DOMAIN req[s].rows :
             LET m == samples'[req[s].rows[i]].msg
                 q == req[s].query
             IN  /\ Concerns(q, m)
                 /\ MadeAt[m] \in q.from..(q.to + TicksPerSecond - 1)
      BY <2>1, <2>4 DEF ReqInv, Sound
    <3> QED  BY <2>1, <3>1, <3>2 DEF ReqInv, Sound, InOrder, Concerns
  <2>6. Complete(s)'
    BY <1>2, <2>1, <2>3, <2>4 DEF ReqInv, Complete, Found, Concerns, RecordedAt
  <2>7. Explained(s)'
    BY <1>2, <2>1 DEF ReqInv, Explained, Concerns, RecordedAt, Grows
  <2> QED  BY <2>2, <2>5, <2>6, <2>7 DEF ReqInv
<1> QED  BY <1>1, <1>2

(* A step that leaves the tables alone changes nothing of the other        *)
(* requests.                                                               *)
LEMMA StoreStays ==
    ASSUME QInv, UNCHANGED <<schema, stage, now, handed, dbVars, again>>,
           faults' \in 0..MaxFaults, NEW s \in Servers,
           \A t \in Servers \ {s} : req'[t] = req[t],
           req' \in [Servers -> Served \union {None}], ReqInv(s)'
    PROVE  QInv'
<1>1. StoreTypeOK'
  BY DEF QInv, StoreInv, StoreTypeOK, dbVars
<1>2. StoreInv'
  BY <1>1, FrameKeeps DEF QInv
<1>3. Grows
  BY DEF Grows, dbVars, Ready
<1>4. \A t \in Servers : ReqInv(t)'
  BY <1>3, RequestStays
<1> QED  BY <1>2, <1>4 DEF QInv

-----------------------------------------------------------------------------
(* Parameters.                                                             *)

(* What parseTimeWindow gives is a window of integers; it ends before it   *)
(* starts only when the request names its start.                           *)
LEMMA TimeWindow ==
    ASSUME QInv, NEW r \in Requests,
           ParseTimeWindow(r, StartNames(r), EndNames(r)) # None
    PROVE  LET w == ParseTimeWindow(r, StartNames(r), EndNames(r)) IN
           /\ w \in Window
           /\ w.to < w.from => IsTime(Get(r, "start")) \/ IsTime(Get(r, "start_time"))
<1> DEFINE window == Get(r, "window")
           start == FirstQueryValue(r, StartNames(r)[1], StartNames(r)[2])
           end == FirstQueryValue(r, EndNames(r)[1], EndNames(r)[2])
           until == IF end = Absent THEN now ELSE end
           w == ParseTimeWindow(r, StartNames(r), EndNames(r))
<1>1. /\ window \in Int \union {Absent, Invalid}
      /\ start \in {Get(r, "start"), Get(r, "start_time")}
      /\ start \in Int \union {Absent, Invalid}
      /\ end \in Int \union {Absent, Invalid}
      /\ now \in Int
  BY QueryAssumption, TelemetryAssumption
     DEF FirstQueryValue, StartNames, EndNames, QInv, StoreInv, StoreTypeOK
<1>2. w = IF window # Absent
          THEN IF start # Absent \/ window = Invalid \/ ~IsTime(until) THEN None
               ELSE IF window <= 0 THEN None ELSE [from |-> until - window, to |-> until]
          ELSE IF IsTime(start) /\ IsTime(end) THEN [from |-> start, to |-> end] ELSE None
  BY DEF ParseTimeWindow
<1>3. until \in Int \union {Invalid}
  BY <1>1
<1> HIDE DEF window, start, end, until, w
<1>4. CASE window # Absent
  <2>1. window \in Int /\ until \in Int /\ window > 0
    BY <1>1, <1>2, <1>3, <1>4, QueryAssumption DEF IsTime, w
  <2>2. w = [from |-> until - window, to |-> until]
    BY <1>2, <1>4, <2>1 DEF w
  <2> QED  BY <2>1, <2>2 DEF Window, w
<1>5. CASE window = Absent
  <2>1. IsTime(start) /\ IsTime(end) /\ w = [from |-> start, to |-> end]
    BY <1>2, <1>5 DEF w
  <2>2. start \in Int /\ end \in Int
    BY <1>1, <2>1 DEF IsTime
  <2> QED  BY <1>1, <2>1, <2>2 DEF Window, w
<1> QED  BY <1>4, <1>5

(* The query of a request is a query, or the request is refused.           *)
LEMMA QueryType ==
    ASSUME QInv, NEW r \in Requests, QueryOf(r) # None
    PROVE  /\ QueryOf(r) \in Query
           /\ QueryOf(r).to < QueryOf(r).from =>
                 IsTime(Get(r, "start")) \/ IsTime(Get(r, "start_time"))
<1> DEFINE w == ParseTimeWindow(r, StartNames(r), EndNames(r))
           n == ParseLimit(r)
<1>1. /\ w # None /\ n # None
      /\ QueryOf(r) = [from |-> w.from, to |-> w.to, limit |-> n, filter |-> FilterOf(r)]
  BY DEF QueryOf
<1>2. n \in Nat
  BY <1>1, QueryAssumption DEF ParseLimit
<1>3. w \in Window /\ (w.to < w.from =>
                          IsTime(Get(r, "start")) \/ IsTime(Get(r, "start_time")))
  BY <1>1, TimeWindow
<1> HIDE DEF w, n
<1> QED  BY <1>1, <1>2, <1>3 DEF Query, Window

-----------------------------------------------------------------------------
(* Handlers.                                                               *)

LEMMA ReceiveKeeps ==
    ASSUME QInv, NEW s \in Servers, NEW r \in Requests, Receive(s, r)
    PROVE  QInv'
<1> DEFINE q == IF Refusal(r) = 0 /\ r.path \in Querying THEN QueryOf(r) ELSE None
           a == [request |-> r, stored |-> inserted, query |-> q,
                 status |-> Refusal(r), rows |-> <<>>, broken |-> FALSE]
<1>1. /\ Ready(s) /\ req' = [req EXCEPT ![s] = a]
      /\ UNCHANGED storeVars
  BY DEF Receive
<1>2. Refusal(r) \in {0, 400, 404, 405}
  BY DEF Refusal
<1>3. /\ q # None => q \in Query
      /\ q # None /\ q.to < q.from => IsTime(Get(r, "start")) \/ IsTime(Get(r, "start_time"))
      /\ r.path = "gpus" => q = None
  BY QueryType DEF Querying
<1>4. inserted \in SUBSET Messages /\ <<>> \in Seq(Nat)
  BY DEF QInv, StoreInv, StoreTypeOK
<1> HIDE DEF q
<1>5. a \in Served
  BY <1>2, <1>3, <1>4 DEF Served
<1>6. req'[s] = a /\ req' \in [Servers -> Served \union {None}]
  BY <1>1, <1>5 DEF QInv
<1>7. /\ req'[s].request = r /\ req'[s].stored = inserted /\ req'[s].query = q
      /\ req'[s].status \notin {200, 500} /\ req'[s].rows = <<>>
  BY <1>2, <1>6
<1> HIDE DEF a
<1>8. ReqInv(s)'
  <2>1. HandInv(s)'
    BY <1>1, <1>3, <1>5, <1>6, <1>7
       DEF HandInv, QueryInv, Answered, Ready, storeVars, dbVars
  <2>2. Complete(s)' /\ Sound(s)' /\ Explained(s)'
    BY <1>7 DEF Complete, Sound, Explained, Answered
  <2> QED  BY <2>1, <2>2 DEF ReqInv
<1>9. \A t \in Servers \ {s} : req'[t] = req[t]
  BY <1>1 DEF QInv
<1>10. faults' \in 0..MaxFaults
  BY <1>1 DEF QInv, StoreInv, StoreTypeOK, storeVars
<1> QED  BY <1>1, <1>6, <1>8, <1>9, <1>10, StoreStays DEF storeVars

(* A sequence of the elements of a finite set has each of them once.       *)
LEMMA SeqOfSet ==
    ASSUME NEW S, IsFiniteSet(S), NEW t \in SetToSeqs(S)
    PROVE  /\ t \in Seq(S)
           /\ IsInjective(t)
           /\ \A x \in S : \E i \in DOMAIN t : t[i] = x
<1> DEFINE n == Cardinality(S)
<1>1. n \in Nat /\ t \in [1..n -> S] /\ IsInjective(t)
  BY FS_CardinalityType DEF SetToSeqs, IsInjective
<1>2. t \in Injection(1..n, S)
  BY <1>1 DEF Injection
<1>3. Cardinality(1..n) = n
  BY <1>1, FS_Interval
<1>4. t \in Surjection(1..n, S)
  BY <1>2, <1>3, FS_Injection
<1> HIDE DEF n
<1>5. t \in Seq(S)
  BY <1>1
<1>6. \A x \in S : \E i \in DOMAIN t : t[i] = x
  BY <1>1, <1>4 DEF Surjection
<1> QED  BY <1>1, <1>5, <1>6

(* What a query finds, in the order of time, and what LIMIT leaves.        *)
LEMMA RowsOfQuery ==
    ASSUME StoreInv, NEW q \in Query, NEW rows \in Rows(q)
    PROVE  /\ rows \in Seq(Selected(q))
           /\ IsInjective(rows)
           /\ InOrder(rows)
           /\ q.limit > 0 => Len(rows) <= q.limit
           /\ \A x \in Selected(q) :
                 \/ \E i \in DOMAIN rows : rows[i] = x
                 \/ /\ q.limit > 0 /\ Len(rows) = q.limit
                    /\ \A i \in DOMAIN rows : samples[rows[i]].at <= samples[x].at
<1> DEFINE S == Selected(q)
<1>1. IsFiniteSet(S)
  <2>1. DOMAIN samples = 1..Len(samples) /\ Len(samples) \in Nat
    BY DEF StoreInv, StoreTypeOK
  <2>2. IsFiniteSet(DOMAIN samples)
    BY <2>1, FS_Interval
  <2> QED  BY <2>2, FS_Subset DEF Selected
<1>2. PICK t \in SetToSeqs(S) :
         /\ InOrder(t)
         /\ rows = IF q.limit = 0 THEN t ELSE SubSeq(t, 1, Min({q.limit, Len(t)}))
  BY DEF Rows
<1>3. t \in Seq(S) /\ IsInjective(t) /\ \A x \in S : \E i \in DOMAIN t : t[i] = x
  BY <1>1, SeqOfSet
<1>4. q.limit \in Nat
  BY DEF Query
<1> HIDE DEF S
<1>5. CASE q.limit = 0
  BY <1>2, <1>3, <1>5 DEF S
<1>6. CASE q.limit > 0
  <2> DEFINE k == Min({q.limit, Len(t)})
  <2>1. Len(t) \in Nat /\ DOMAIN t = 1..Len(t)
    BY <1>3
  <2>2. k \in {q.limit, Len(t)} /\ k <= q.limit /\ k <= Len(t)
    <3>1. \E x \in {q.limit, Len(t)} : \A y \in {q.limit, Len(t)} : x <= y
      BY <1>4, <2>1
    <3> QED  BY <3>1 DEF Min
  <2> HIDE DEF k
  <2>3. rows = SubSeq(t, 1, k) /\ k \in Nat
    <3>1. k \in Nat
      BY <1>4, <2>1, <2>2
    <3>2. q.limit # 0
      BY <1>4, <1>6
    <3> QED  BY <1>2, <3>1, <3>2 DEF k
  <2>4. /\ rows \in Seq(S) /\ Len(rows) = k /\ DOMAIN rows = 1..k
        /\ \A i \in 1..k : i \in DOMAIN t /\ rows[i] = t[i]
    <3>1. \A i \in 1..k : i \in DOMAIN t /\ t[i] \in S
      <4>1. \A n \in Nat : k <= n => \A i \in 1..k : i \in 1..n
        BY <2>3
      <4>2. \A i \in 1..k : i \in 1..Len(t)
        BY <2>1, <2>2, <4>1
      <4> QED  BY <1>3, <2>1, <4>2
    <3>2. rows = [i \in 1..k |-> t[i]]
      BY <2>3
    <3> QED  BY <2>3, <3>1, <3>2
  <2>5. IsInjective(rows)
    BY <1>3, <2>4 DEF IsInjective
  <2>6. InOrder(rows)
    <3> SUFFICES ASSUME NEW i \in 1..k, NEW j \in 1..k, i < j
                 PROVE  samples[rows[i]].at <= samples[rows[j]].at
      BY <2>4 DEF InOrder
    <3> QED  BY <1>2, <2>4 DEF InOrder
  <2>7. ASSUME NEW x \in S, \A i \in DOMAIN rows : rows[i] # x
        PROVE  k = q.limit /\ \A i \in DOMAIN rows : samples[rows[i]].at <= samples[x].at
    <3>1. PICK j \in DOMAIN t : t[j] = x
      BY <1>3
    <3>2. j > k /\ j <= Len(t)
      <4>1. j \in Nat /\ j >= 1 /\ j <= Len(t)
        BY <2>1, <3>1
      <4>2. j \notin 1..k
        BY <2>4, <2>7, <3>1
      <4> QED  BY <2>3, <4>1, <4>2
    <3>3. k = q.limit
      BY <1>4, <2>1, <2>2, <3>2
    <3>4. \A i \in DOMAIN rows : samples[t[i]].at <= samples[t[j]].at
      BY <1>2, <2>1, <2>4, <3>1, <3>2 DEF InOrder
    <3> QED  BY <2>4, <3>1, <3>3, <3>4
  <2> QED  BY <1>6, <2>2, <2>4, <2>5, <2>6, <2>7 DEF S
<1> QED  BY <1>4, <1>5, <1>6

(* A selected sample is of labels that are asked for and was made in the   *)
(* window, or less than a second after it.                                 *)
LEMMA SelectedSound ==
    ASSUME StoreInv, NEW q \in Query, NEW x \in Selected(q)
    PROVE  /\ x \in DOMAIN samples
           /\ samples[x].msg \in Messages
           /\ Concerns(q, samples[x].msg)
           /\ RecordedAt(samples[x].msg) \in q.from..q.to
           /\ MadeAt[samples[x].msg] \in q.from..(q.to + TicksPerSecond - 1)
<1> DEFINE m == samples[x].msg
<1> USE DEF StoreInv
<1>1. x \in DOMAIN samples /\ samples[x] \in Sample /\ q.from \in Int /\ q.to \in Int
  BY DEF Selected, StoreTypeOK, Query
<1>2. m \in Messages /\ samples[x].at = RecordedAt(m)
  BY <1>1 DEF Sample, SampleInv
<1>3. PICK r \in series : /\ r.id = samples[x].series
                          /\ \A c \in Filters : q.filter[c] \in {Absent, r.labels[c]}
  BY DEF Selected
<1>4. r.labels = LabelsOf[m]
  <2>1. [id |-> samples[x].series, labels |-> LabelsOf[m]] \in series
    BY <1>1 DEF OneSeries
  <2>2. r = [id |-> samples[x].series, labels |-> LabelsOf[m]]
    BY <1>3, <2>1 DEF OneSeries
  <2> QED  BY <2>2
<1>5. Concerns(q, m)
  BY <1>3, <1>4 DEF Concerns
<1>6. q.from <= RecordedAt(m) /\ RecordedAt(m) <= q.to
  BY <1>2 DEF Selected
<1>7. /\ RecordedAt(m) \in Nat /\ MadeAt[m] \in Nat /\ TicksPerSecond \in Nat
      /\ RecordedAt(m) <= MadeAt[m] /\ MadeAt[m] < RecordedAt(m) + TicksPerSecond
  BY <1>2, RecordedAtType, TelemetryAssumption
<1>8. RecordedAt(m) \in q.from..q.to /\ MadeAt[m] \in q.from..(q.to + TicksPerSecond - 1)
  BY <1>1, <1>6, <1>7
<1> QED  BY <1>1, <1>2, <1>5, <1>8

(* A stored message that is asked for is selected.                         *)
LEMMA SelectedComplete ==
    ASSUME StoreInv, NEW q \in Query, NEW m \in inserted, Concerns(q, m),
           MadeAt[m] \in (q.from + TicksPerSecond - 1)..q.to
    PROVE  \E x \in Selected(q) : samples[x].msg = m /\ samples[x].at = RecordedAt(m)
<1> USE DEF StoreInv
<1>1. m \in Messages /\ q.from \in Int /\ q.to \in Int
  BY DEF StoreTypeOK, Query
<1>2. PICK x \in DOMAIN samples : samples[x].msg = m
  BY <1>1 DEF CountInv, Copies
<1>3. samples[x].at = RecordedAt(m)
  BY <1>2 DEF SampleInv
<1>4. [id |-> samples[x].series, labels |-> LabelsOf[m]] \in series
  BY <1>2 DEF OneSeries
<1>5. \E r \in series : /\ r.id = samples[x].series
                        /\ \A c \in Filters : q.filter[c] \in {Absent, r.labels[c]}
  BY <1>4 DEF Concerns
<1>6. /\ RecordedAt(m) \in Nat /\ MadeAt[m] \in Nat /\ TicksPerSecond \in Nat
      /\ RecordedAt(m) <= MadeAt[m] /\ MadeAt[m] < RecordedAt(m) + TicksPerSecond
  BY <1>1, RecordedAtType, TelemetryAssumption
<1>7. q.from <= RecordedAt(m) /\ RecordedAt(m) <= q.to
  BY <1>1, <1>6
<1>8. x \in Selected(q)
  BY <1>2, <1>3, <1>5, <1>7 DEF Selected
<1> QED  BY <1>2, <1>3, <1>8

(* What Answer sets.                                                       *)
LEMMA AnswerEffect ==
    ASSUME QInv, NEW s \in Servers, req[s] # None,
           NEW status \in {200, 500}, NEW rows \in Seq(Nat), Answer(s, status, rows)
    PROVE  /\ req'[s] \in Served
           /\ req' \in [Servers -> Served \union {None}]
           /\ \A t \in Servers \ {s} : req'[t] = req[t]
           /\ req'[s].request = req[s].request
           /\ req'[s].stored = req[s].stored
           /\ req'[s].query = req[s].query
           /\ req'[s].broken = req[s].broken
           /\ req'[s].status = status
           /\ req'[s].rows = rows
<1> DEFINE a == [req[s] EXCEPT !.status = status, !.rows = rows]
<1>1. req[s] \in Served /\ req \in [Servers -> Served \union {None}]
  BY DEF QInv
<1>2. req' = [req EXCEPT ![s] = a]
  BY <1>1 DEF Answer
<1>3. a \in Served
  <2> DEFINE D == {0, 200, 400, 404, 405, 500}
             E == Seq(Nat)
             B == BOOLEAN
             Hand == [request : Requests, stored : SUBSET Messages,
                      query : Query \union {None}, status : D, rows : E, broken : B]
  <2>1. status \in D /\ rows \in E /\ req[s] \in Hand
    BY <1>1 DEF Served
  <2> HIDE DEF D, E, B
  <2>2. a \in Hand
    BY <2>1
  <2> QED  BY <2>2 DEF Served, D, E, B
<1>4. /\ a.request = req[s].request /\ a.stored = req[s].stored /\ a.query = req[s].query
      /\ a.broken = req[s].broken /\ a.status = status /\ a.rows = rows
  BY <1>1 DEF Served
<1> HIDE DEF a
<1> QED  BY <1>1, <1>2, <1>3, <1>4

(* The answer of s is judged at the moment it is given.                    *)
LEMMA AnswerKeeps ==
    ASSUME QInv, UNCHANGED <<schema, stage, now, handed, dbVars, again>>,
           faults' \in 0..MaxFaults, NEW s \in Servers, req[s] # None,
           req'[s] \in Served, req' \in [Servers -> Served \union {None}],
           \A t \in Servers \ {s} : req'[t] = req[t],
           req'[s].request = req[s].request,
           req'[s].stored = req[s].stored,
           req'[s].query = req[s].query,
           req'[s].rows # <<>> => req'[s].status = 200,
           req'[s].status = 200 /\ req'[s].query # None =>
              \A i \in DOMAIN req'[s].rows : req'[s].rows[i] \in DOMAIN samples,
           Complete(s)', Sound(s)', Explained(s)'
    PROVE  QInv'
<1>1. HandInv(s)
  BY DEF QInv, ReqInv
<1>2. HandInv(s)'
  BY <1>1 DEF HandInv, QueryInv, Answered, Ready, dbVars
<1>3. ReqInv(s)'
  BY <1>2 DEF ReqInv
<1> QED  BY <1>3, StoreStays

LEMMA RunQueryKeeps ==
    ASSUME QInv, NEW s \in Servers, RunQuery(s)
    PROVE  QInv'
<1> DEFINE q == req[s].query
<1>1. /\ UNCHANGED <<schema, stage, now, handed, dbVars, again>>
      /\ UNCHANGED samples
      /\ faults' \in 0..MaxFaults
  BY DEF RunQuery, storeVars, dbVars, QInv, StoreInv, StoreTypeOK
<1>2. /\ StoreInv /\ req[s] # None /\ req[s] \in Served /\ q \in Query /\ q # None
      /\ HandInv(s) /\ req[s].request.path # "gpus"
  BY DEF RunQuery, QInv, ReqInv, HandInv, QueryInv, Served
<1>3. PICK e \in Seq(Nat) : e = <<>>
  <2>1. <<>> \in Seq(Nat)
    OBVIOUS
  <2> QED  BY <2>1, Zenon
<1>4. CASE Backwards(q) /\ Answer(s, 500, <<>>)
  <2>1. /\ req'[s] \in Served
        /\ req' \in [Servers -> Served \union {None}]
        /\ \A t \in Servers \ {s} : req'[t] = req[t]
        /\ req'[s].request = req[s].request
        /\ req'[s].stored = req[s].stored
        /\ req'[s].query = q
        /\ req'[s].status = 500
        /\ req'[s].rows = <<>>
    <3>1. Answer(s, 500, e)
      BY <1>3, <1>4
    <3>2. /\ req'[s] \in Served
          /\ req' \in [Servers -> Served \union {None}]
          /\ \A t \in Servers \ {s} : req'[t] = req[t]
          /\ req'[s].request = req[s].request
          /\ req'[s].stored = req[s].stored
          /\ req'[s].query = q
          /\ req'[s].status = 500
          /\ req'[s].rows = e
      BY <1>2, <3>1, AnswerEffect
    <3> QED  BY <1>3, <3>2
  <2>2. Complete(s)' /\ Sound(s)'
    BY <2>1 DEF Complete, Sound, Answered
  <2>3. Explained(s)'
    BY <1>2, <1>4, <2>1 DEF Backwards, Explained, HandInv, QueryInv
  <2> QED  BY <1>1, <1>2, <2>1, <2>2, <2>3, AnswerKeeps
<1>5. CASE \E rows \in Rows(q) : Encodes(rows) /\ Answer(s, 200, rows)
  <2>1. PICK rows \in Rows(q) : Encodes(rows) /\ Answer(s, 200, rows)
    BY <1>5
  <2>2. /\ rows \in Seq(Selected(q))
        /\ IsInjective(rows)
        /\ InOrder(rows)
        /\ q.limit > 0 => Len(rows) <= q.limit
        /\ \A x \in Selected(q) :
              \/ \E i \in DOMAIN rows : rows[i] = x
              \/ /\ q.limit > 0 /\ Len(rows) = q.limit
                 /\ \A i \in DOMAIN rows : samples[rows[i]].at <= samples[x].at
    BY <1>2, RowsOfQuery
  <2>3. /\ \A i \in DOMAIN rows : rows[i] \in Selected(q)
        /\ \A i \in DOMAIN rows : rows[i] \in DOMAIN samples
        /\ rows \in Seq(Nat)
    <3>1. \A i \in DOMAIN rows : rows[i] \in Selected(q)
      BY <2>2
    <3>2. Selected(q) \subseteq DOMAIN samples /\ DOMAIN samples \subseteq Nat
      BY DEF Selected, QInv, StoreInv, StoreTypeOK
    <3> QED  BY <2>2, <3>1, <3>2
  <2>4. /\ req'[s] \in Served
        /\ req' \in [Servers -> Served \union {None}]
        /\ \A t \in Servers \ {s} : req'[t] = req[t]
        /\ req'[s].request = req[s].request
        /\ req'[s].stored = req[s].stored
        /\ req'[s].query = q
        /\ req'[s].status = 200
        /\ req'[s].rows = rows
    BY <1>2, <2>1, <2>3, AnswerEffect
  <2>5. Sound(s)'
    <3>1. \A i \in DOMAIN rows :
             LET m == samples[rows[i]].msg IN
             /\ Concerns(q, m)
             /\ MadeAt[m] \in q.from..(q.to + TicksPerSecond - 1)
      BY <1>2, <2>3, SelectedSound
    <3> QED  BY <1>1, <2>2, <2>4, <3>1 DEF Sound, InOrder, Concerns
  <2>6. Complete(s)'
    <3>1. ASSUME NEW m \in req[s].stored, Concerns(q, m),
                 MadeAt[m] \in (q.from + TicksPerSecond - 1)..q.to
          PROVE  \/ \E i \in DOMAIN rows : samples[rows[i]].msg = m
                 \/ /\ q.limit > 0 /\ Len(rows) = q.limit
                    /\ \A i \in DOMAIN rows : samples[rows[i]].at <= RecordedAt(m)
      <4>1. m \in inserted
        BY <1>2 DEF HandInv
      <4>2. PICK x \in Selected(q) : samples[x].msg = m /\ samples[x].at = RecordedAt(m)
        BY <1>2, <3>1, <4>1, SelectedComplete
      <4> QED  BY <2>2, <4>2
    <3> QED  BY <1>1, <1>2, <2>4, <3>1 DEF Complete, Found, Concerns, RecordedAt
  <2>7. Explained(s)'
    BY <2>4 DEF Explained
  <2> QED  BY <1>1, <1>2, <2>3, <2>4, <2>5, <2>6, <2>7, AnswerKeeps
<1>6. CASE \E rows \in Rows(q) : ~Encodes(rows) /\ Answer(s, 500, <<>>)
  <2>1. PICK rows \in Rows(q) : ~Encodes(rows) /\ Answer(s, 500, <<>>)
    BY <1>6
  <2>2. PICK x \in Selected(q) : ValueOf[samples[x].msg] = "nan"
    BY <1>2, <2>1, RowsOfQuery DEF Encodes
  <2> DEFINE m == samples[x].msg
  <2>3. x \in DOMAIN samples /\ Concerns(q, m) /\ RecordedAt(m) \in q.from..q.to
    BY <1>2, SelectedSound
  <2>4. /\ req'[s] \in Served
        /\ req' \in [Servers -> Served \union {None}]
        /\ \A t \in Servers \ {s} : req'[t] = req[t]
        /\ req'[s].request = req[s].request
        /\ req'[s].stored = req[s].stored
        /\ req'[s].query = q
        /\ req'[s].status = 500
        /\ req'[s].rows = <<>>
    <3>1. Answer(s, 500, e)
      BY <1>3, <2>1
    <3>2. /\ req'[s] \in Served
          /\ req' \in [Servers -> Served \union {None}]
          /\ \A t \in Servers \ {s} : req'[t] = req[t]
          /\ req'[s].request = req[s].request
          /\ req'[s].stored = req[s].stored
          /\ req'[s].query = q
          /\ req'[s].status = 500
          /\ req'[s].rows = e
      BY <1>2, <3>1, AnswerEffect
    <3> QED  BY <1>3, <3>2
  <2>5. Complete(s)' /\ Sound(s)'
    BY <2>4 DEF Complete, Sound, Answered
  <2>6. ValueOf[m] = "nan" /\ m = samples'[x].msg /\ x \in DOMAIN samples'
    BY <1>1, <2>2, <2>3
  <2> HIDE DEF m
  <2>7. Explained(s)'
    <3>1. req'[s].query # None
      BY <1>2, <2>4
    <3>2. /\ \A c \in Filters : req'[s].query.filter[c] \in {Absent, LabelsOf[samples'[x].msg][c]}
          /\ RecordedAt(m) \in req'[s].query.from..req'[s].query.to
          /\ ValueOf[samples'[x].msg] = "nan"
      BY <2>3, <2>4, <2>6 DEF Concerns
    <3>3. RecordedAt(m) = MadeAt[samples'[x].msg] - (MadeAt[samples'[x].msg] % TicksPerSecond)
      BY <2>6 DEF RecordedAt
    <3> QED  BY <2>6, <3>1, <3>2, <3>3 DEF Explained, Concerns, RecordedAt
  <2> QED  BY <1>1, <1>2, <2>4, <2>5, <2>7, AnswerKeeps
<1> QED  BY <1>4, <1>5, <1>6 DEF RunQuery

(* ListGPUs gives each GPU that has a series.                              *)
LEMMA ListOfGPUs ==
    ASSUME StoreInv, NEW rows \in GPURows
    PROVE  /\ rows \in Seq(Nat)
           /\ \A m \in inserted : GPURank[LabelsOf[m]] \in Range(rows)
<1> DEFINE S == {GPURank[r.labels] : r \in series}
           f == [r \in series |-> GPURank[r.labels]]
<1> USE DEF StoreInv
<1>1. f \in Surjection(series, S)
  BY DEF Surjection
<1>2. IsFiniteSet(S)
  BY <1>1, FS_Surjection
<1>3. S \subseteq Nat
  BY QueryAssumption DEF StoreTypeOK, SeriesRow
<1>4. rows \in SetToSeqs(S)
  BY DEF GPURows
<1> HIDE DEF S
<1>5. rows \in Seq(S) /\ \A x \in S : \E i \in DOMAIN rows : rows[i] = x
  BY <1>2, <1>4, SeqOfSet
<1>6. rows \in Seq(Nat)
  <2>1. Len(rows) \in Nat /\ rows \in [1..Len(rows) -> S]
    BY <1>5
  <2>2. rows \in [1..Len(rows) -> Nat]
    BY <1>3, <2>1
  <2> QED  BY <2>1, <2>2
<1>7. ASSUME NEW m \in inserted
      PROVE  GPURank[LabelsOf[m]] \in S
  <2>1. m \in Messages
    BY DEF StoreTypeOK
  <2>2. PICK i \in DOMAIN samples : samples[i].msg = m
    BY <2>1 DEF CountInv, Copies
  <2>3. [id |-> samples[i].series, labels |-> LabelsOf[m]] \in series
    BY <2>2 DEF OneSeries
  <2> QED  BY <2>3 DEF S
<1> QED  BY <1>5, <1>6, <1>7 DEF Range

LEMMA RunListKeeps ==
    ASSUME QInv, NEW s \in Servers, RunList(s)
    PROVE  QInv'
<1>1. /\ UNCHANGED <<schema, stage, now, handed, dbVars, again>>
      /\ faults' \in 0..MaxFaults
  BY DEF RunList, storeVars, dbVars, QInv, StoreInv, StoreTypeOK
<1>2. /\ StoreInv /\ req[s] # None /\ req[s].query = None
      /\ req[s].stored \subseteq inserted
  BY DEF RunList, QInv, ReqInv, HandInv
<1>3. PICK rows : /\ rows \in IF req[s].request.path = "gpus" THEN GPURows ELSE {<<>>}
                  /\ Answer(s, 200, rows)
  BY DEF RunList
<1>4. rows \in Seq(Nat)
  <2>1. CASE req[s].request.path = "gpus"
    BY <1>2, <1>3, <2>1, ListOfGPUs
  <2>2. CASE req[s].request.path # "gpus"
    BY <1>3, <2>2
  <2> QED  BY <2>1, <2>2
<1>5. /\ req'[s] \in Served
      /\ req' \in [Servers -> Served \union {None}]
      /\ \A t \in Servers \ {s} : req'[t] = req[t]
      /\ req'[s].request = req[s].request
      /\ req'[s].stored = req[s].stored
      /\ req'[s].query = None
      /\ req'[s].status = 200
      /\ req'[s].rows = rows
  BY <1>2, <1>3, <1>4, AnswerEffect
<1>6. Complete(s)'
  <2>1. req[s].request.path = "gpus" =>
           \A m \in req[s].stored : GPURank[LabelsOf[m]] \in Range(rows)
    BY <1>2, <1>3, ListOfGPUs
  <2> QED  BY <1>5, <2>1 DEF Complete, Range
<1>7. Sound(s)' /\ Explained(s)'
  BY <1>5 DEF Sound, Explained
<1> QED  BY <1>1, <1>2, <1>5, <1>6, <1>7, AnswerKeeps

LEMMA FailureKeeps ==
    ASSUME QInv, NEW s \in Servers, StatementFails(s) \/ EncodeFails(s)
    PROVE  QInv'
<1> DEFINE a == [req[s] EXCEPT !.status = 500, !.rows = <<>>, !.broken = TRUE]
<1>1. /\ UNCHANGED <<schema, stage, now, handed, dbVars, again>>
      /\ req[s] # None
      /\ req' = [req EXCEPT ![s] = a]
      /\ Fault
  BY DEF StatementFails, EncodeFails
<1>2. faults' \in 0..MaxFaults
  BY <1>1, TelemetryAssumption DEF Fault, QInv, StoreInv, StoreTypeOK
<1>3. req[s] \in Served /\ req \in [Servers -> Served \union {None}]
  BY <1>1 DEF QInv
<1>4. a \in Served
  <2> DEFINE D == {0, 200, 400, 404, 405, 500}
             E == Seq(Nat)
             B == BOOLEAN
             u == 500
             e == <<>>
             b == TRUE
             Hand == [request : Requests, stored : SUBSET Messages,
                      query : Query \union {None}, status : D, rows : E, broken : B]
  <2>1. u \in D /\ e \in E /\ b \in B /\ req[s] \in Hand
    BY <1>3 DEF Served
  <2> HIDE DEF D, E, B, u, e, b
  <2>2. [req[s] EXCEPT !.status = u, !.rows = e, !.broken = b] \in Hand
    BY <2>1
  <2> QED  BY <2>2 DEF Served, D, E, B, u, e, b
<1>5. /\ a.request = req[s].request /\ a.stored = req[s].stored /\ a.query = req[s].query
      /\ a.broken = TRUE /\ a.status = 500 /\ a.rows = <<>>
  BY <1>3 DEF Served
<1> HIDE DEF a
<1>6. /\ req'[s] = a
      /\ req' \in [Servers -> Served \union {None}]
      /\ \A t \in Servers \ {s} : req'[t] = req[t]
  BY <1>1, <1>3, <1>4
<1>7. Complete(s)' /\ Sound(s)' /\ Explained(s)'
  BY <1>5, <1>6 DEF Complete, Sound, Explained, Answered
<1> QED  BY <1>1, <1>2, <1>4, <1>5, <1>6, <1>7, AnswerKeeps

LEMMA FinishKeeps ==
    ASSUME QInv, NEW s \in Servers, Finish(s)
    PROVE  QInv'
<1>1. /\ UNCHANGED <<schema, stage, now, handed, dbVars, again>>
      /\ faults' \in 0..MaxFaults
      /\ req' = [req EXCEPT ![s] = None]
  BY DEF Finish, storeVars, dbVars, QInv, StoreInv, StoreTypeOK
<1>2. /\ req'[s] = None
      /\ req' \in [Servers -> Served \union {None}]
      /\ \A t \in Servers \ {s} : req'[t] = req[t]
  BY <1>1 DEF QInv
<1>3. ReqInv(s)'
  BY <1>2 DEF ReqInv, HandInv, Complete, Sound, Explained, Answered
<1> QED  BY <1>1, <1>2, <1>3, StoreStays

-----------------------------------------------------------------------------
(* The specification.                                                      *)

LEMMA QInvInit == Init => QInv
<1> SUFFICES ASSUME Init
             PROVE  QInv
  OBVIOUS
<1>1. StoreInv
  BY StoreInitInv DEF Init
<1>2. \A s \in Servers : ReqInv(s)
  BY DEF Init, ReqInv, HandInv, Complete, Sound, Explained, Answered
<1> QED  BY <1>1, <1>2 DEF Init, QInv

LEMMA QInvStep == QInv /\ [Next]_vars => QInv'
<1> SUFFICES ASSUME QInv, [Next]_vars
             PROVE  QInv'
  OBVIOUS
<1>1. CASE StoreNext /\ UNCHANGED req
  <2>1. StoreInv' /\ Grows
    BY <1>1, StoreStep, StoreGrows DEF QInv
  <2>2. \A s \in Servers : ReqInv(s)'
    BY <1>1, <2>1, RequestStays
  <2> QED  BY <1>1, <2>1, <2>2 DEF QInv
<1>2. CASE \E s \in Servers, r \in Requests : Receive(s, r)
  BY <1>2, ReceiveKeeps
<1>3. CASE \E s \in Servers : RequestStep(s)
  BY <1>3, RunQueryKeeps, RunListKeeps, FinishKeeps DEF RequestStep
<1>4. CASE \E s \in Servers : StatementFails(s) \/ EncodeFails(s)
  BY <1>4, FailureKeeps
<1>5. CASE UNCHANGED vars
  <2>1. UNCHANGED <<dbVars, handed, again>> /\ StoreTypeOK' /\ Grows /\ UNCHANGED req
    BY <1>5 DEF vars, storeVars, dbVars, QInv, StoreInv, StoreTypeOK, Grows, Ready
  <2>2. StoreInv' /\ \A s \in Servers : ReqInv(s)'
    BY <2>1, FrameKeeps, RequestStays DEF QInv
  <2> QED  BY <2>1, <2>2 DEF QInv
<1> QED  BY <1>1, <1>2, <1>3, <1>4, <1>5 DEF Next, Exhausted

(* The invariant holds in every reachable state.                           *)
THEOREM Invariance == Spec => []QInv
<1>1. Init => QInv
  BY QInvInit
<1>2. QInv /\ [Next]_vars => QInv'
  BY QInvStep
<1> QED  BY <1>1, <1>2, PTL DEF Spec

(* Tables, transactions and requests keep their types; rows come with 200  *)
(* alone, and a process that serves requests has opened the store.         *)
THEOREM TypeCorrect == Spec => []TypeOK
<1>1. QInv => TypeOK
  BY DEF QInv, StoreInv, ReqInv, HandInv, TypeOK
<1> QED  BY <1>1, Invariance, PTL

(* However inserts overlap, fail and are repeated, labels have one row in  *)
(* telemetry_series and every sample refers to the row of its labels.      *)
THEOREM SeriesUnique == Spec => []OneSeries
<1>1. QInv => OneSeries
  BY DEF QInv, StoreInv
<1> QED  BY <1>1, Invariance, PTL

(* An upsert waits only for a transaction that waits for nothing, and no   *)
(* failed Insert leaves a lock behind.                                     *)
THEOREM NoWaitCycle == Spec => []WaitsEnd
<1>1. QInv => WaitsEnd
  BY DEF QInv, StoreInv
<1> QED  BY <1>1, Invariance, PTL

(* A message is stored at most once for each time it is handed out, and    *)
(* at least once when its Insert returned nil.                             *)
THEOREM CopiesBounded == Spec => []CopiesExplained
<1>1. QInv => CopiesExplained
  BY CopiesBound DEF QInv
<1> QED  BY <1>1, Invariance, PTL

(* Every sample that was stored before a request came and that the request *)
(* asks for is in its answer, unless LIMIT keeps it out.                   *)
THEOREM AnswerHasAll == Spec => []AnswersComplete
<1>1. QInv => AnswersComplete
  BY DEF QInv, ReqInv, AnswersComplete
<1> QED  BY <1>1, Invariance, PTL

(* An answer has only samples that were asked for, once each, in the order *)
(* of their time and no more than the limit.                               *)
THEOREM AnswerHasOnly == Spec => []AnswersSound
<1>1. QInv => AnswersSound
  BY DEF QInv, ReqInv, AnswersSound
<1> QED  BY <1>1, Invariance, PTL

(* A request with good parameters fails with 500 only for a reason of its  *)
(* own: a failed call, a window that ends before its start, or a sample    *)
(* that is not a number among those it asks for.                           *)
THEOREM ErrorHasCause == Spec => []ErrorsExplained
<1>1. QInv => ErrorsExplained
  BY DEF QInv, ReqInv, ErrorsExplained
<1> QED  BY <1>1, Invariance, PTL

-----------------------------------------------------------------------------
(* The request metrics.                                                    *)

(* One more response: the places of it in a sequence of responses.         *)
LEMMA OneMore ==
    ASSUME NEW s \in Seq(Response), NEW r \in Response
    PROVE  LET t == Append(s, r)  n == Len(s) + 1 IN
           /\ \A i \in DOMAIN s : t[i] = s[i]
           /\ n \notin DOMAIN s /\ t[n] = r
           /\ Observed(t) = IF Skipped(r) THEN Observed(s) ELSE Observed(s) \union {n}
           /\ \A i \in Observed(s) : t[i] = s[i] /\ i # n
           /\ IsFiniteSet(Observed(s))
<1> DEFINE t == Append(s, r)  n == Len(s) + 1
<1>1. /\ DOMAIN s = 1..Len(s) /\ Len(s) \in Nat
      /\ DOMAIN t = 1..n
      /\ \A i \in 1..Len(s) : t[i] = s[i]
      /\ t[n] = r
  OBVIOUS
<1>2. \A i \in 1..n : i \in 1..Len(s) \/ i = n
  BY <1>1
<1>3. n \notin 1..Len(s) /\ n \in 1..n /\ 1..Len(s) \subseteq 1..n
  BY <1>1
<1> HIDE DEF t, n
<1>4. Observed(t) = IF Skipped(r) THEN Observed(s) ELSE Observed(s) \union {n}
  BY <1>1, <1>2, <1>3 DEF Observed
<1>5. IsFiniteSet(Observed(s))
  <2>1. IsFiniteSet(1..Len(s))
    BY <1>1, FS_Interval
  <2> QED  BY <1>1, <2>1, FS_Subset DEF Observed
<1>6. \A i \in Observed(s) : i \in 1..Len(s)
  BY <1>1 DEF Observed
<1> QED  BY <1>1, <1>3, <1>4, <1>5, <1>6 DEF t, n

(* What one more response adds to a set of places that are told apart by   *)
(* their responses.                                                        *)
LEMMA OneMoreOf ==
    ASSUME NEW s \in Seq(Response), NEW r \in Response, ~Skipped(r)
    PROVE  LET t == Append(s, r)  n == Len(s) + 1 IN
           /\ \A c : OfRequest(t, c) =
                 IF RequestKey(r) = c THEN OfRequest(s, c) \union {n} ELSE OfRequest(s, c)
           /\ \A k : OfDuration(t, k) =
                 IF DurationKey(r) = k THEN OfDuration(s, k) \union {n} ELSE OfDuration(s, k)
           /\ \A k : Ticks(t, k) =
                 IF DurationKey(r) = k THEN Ticks(s, k) \union ({n} \X (1..r.took)) ELSE Ticks(s, k)
<1> DEFINE t == Append(s, r)  n == Len(s) + 1
<1>1. /\ Observed(t) = Observed(s) \union {n}
      /\ \A i \in Observed(s) : t[i] = s[i] /\ i # n
      /\ t[n] = r
  BY OneMore
<1> HIDE DEF t, n
<1>2. ASSUME NEW c
      PROVE  OfRequest(t, c) =
                IF RequestKey(r) = c THEN OfRequest(s, c) \union {n} ELSE OfRequest(s, c)
  BY <1>1 DEF OfRequest
<1>3. ASSUME NEW k
      PROVE  OfDuration(t, k) =
                IF DurationKey(r) = k THEN OfDuration(s, k) \union {n} ELSE OfDuration(s, k)
  BY <1>1 DEF OfDuration
<1>4. ASSUME NEW k
      PROVE  Ticks(t, k) =
                IF DurationKey(r) = k THEN Ticks(s, k) \union ({n} \X (1..r.took)) ELSE Ticks(s, k)
  <2>1. \A i \in OfDuration(s, k) : t[i] = s[i]
    BY <1>1 DEF OfDuration
  <2>2. \A x : x \in Ticks(t, k) <=> \E i \in OfDuration(t, k) : x \in {i} \X (1..t[i].took)
    BY DEF Ticks
  <2>3. \A x : x \in Ticks(s, k) <=> \E i \in OfDuration(s, k) : x \in {i} \X (1..s[i].took)
    BY DEF Ticks
  <2>4. CASE DurationKey(r) = k
    <3>1. OfDuration(t, k) = OfDuration(s, k) \union {n}
      BY <1>3, <2>4
    <3>2. \A x : x \in Ticks(t, k) <=> x \in Ticks(s, k) \/ x \in {n} \X (1..r.took)
      BY <1>1, <2>1, <2>2, <2>3, <3>1
    <3> QED  BY <2>4, <3>2
  <2>5. CASE DurationKey(r) # k
    <3>1. OfDuration(t, k) = OfDuration(s, k)
      BY <1>3, <2>5
    <3>2. \A x : x \in Ticks(t, k) <=> x \in Ticks(s, k)
      BY <2>1, <2>2, <2>3, <3>1
    <3> QED  BY <2>5, <3>2
  <2> QED  BY <2>4, <2>5
<1> QED  BY <1>2, <1>3, <1>4 DEF t, n

(* The sets that are counted are finite.                                   *)
FiniteMaps(m, s) ==
    \A k : IsFiniteSet(Ticks(s, k)) /\ IsFiniteSet(Units(m.requestCounts, k))

(* A counter that goes up by one is one more unit of its method and path.  *)
OneUp(counts, c) == Put(counts, c, Lookup(counts, c, 0) + 1)
NewUnit(counts, c) == <<c, Lookup(counts, c, 0) + 1>>

LEMMA OneMoreUnit ==
    ASSUME NEW counts, NEW c, Lookup(counts, c, 0) \in Nat, NEW k
    PROVE  /\ Units(OneUp(counts, c), k) =
                 IF <<c[1], c[2]>> = k THEN Units(counts, k) \union {NewUnit(counts, c)}
                 ELSE Units(counts, k)
           /\ NewUnit(counts, c) \notin Units(counts, k)
<1> DEFINE old == Lookup(counts, c, 0)
           next == OneUp(counts, c)
<1>1. /\ DOMAIN next = DOMAIN counts \union {c}
      /\ next[c] = old + 1
      /\ \A d \in DOMAIN counts : d # c => next[d] = counts[d]
  BY DEF OneUp, Put
<1>2. c \in DOMAIN counts => counts[c] = old
  BY DEF Lookup
<1>3. c \notin DOMAIN counts => old = 0
  BY DEF Lookup
<1> HIDE DEF old, next
<1>4. \A x : x \in Units(next, k) <=>
         \E d \in DOMAIN next : <<d[1], d[2]>> = k /\ x \in {d} \X (1..next[d])
  BY DEF Units
<1>5. \A x : x \in Units(counts, k) <=>
         \E d \in DOMAIN counts : <<d[1], d[2]>> = k /\ x \in {d} \X (1..counts[d])
  BY DEF Units
<1>6. 1..(old + 1) = (1..old) \union {old + 1} /\ old + 1 \notin 1..old
  BY DEF old
<1>7. <<c, old + 1>> \notin Units(counts, k)
  BY <1>2, <1>5, <1>6
<1>8. \A x : x \in {c} \X (1..(old + 1)) <=> x \in {c} \X (1..old) \/ x = <<c, old + 1>>
  BY <1>6
<1>9. \A x : old = 0 => x \notin {c} \X (1..old)
  OBVIOUS
<1>10. CASE <<c[1], c[2]>> = k
  <2>1. ASSUME NEW x PROVE x \in Units(next, k) <=> x \in Units(counts, k) \/ x = <<c, old + 1>>
    <3>1. x \in Units(next, k) <=>
             \/ \E d \in DOMAIN counts : d # c /\ <<d[1], d[2]>> = k /\ x \in {d} \X (1..counts[d])
             \/ x \in {c} \X (1..(old + 1))
      BY <1>1, <1>4, <1>10
    <3>2. x \in Units(counts, k) <=>
             \/ \E d \in DOMAIN counts : d # c /\ <<d[1], d[2]>> = k /\ x \in {d} \X (1..counts[d])
             \/ c \in DOMAIN counts /\ x \in {c} \X (1..old)
      BY <1>2, <1>5, <1>10
    <3>3. x \in {c} \X (1..old) => c \in DOMAIN counts
      BY <1>3, <1>9
    <3> QED  BY <1>8, <3>1, <3>2, <3>3
  <2> QED  BY <1>7, <1>10, <2>1 DEF NewUnit, old, next
<1>11. CASE <<c[1], c[2]>> # k
  <2>1. \A x : x \in Units(next, k) <=> x \in Units(counts, k)
    BY <1>1, <1>4, <1>5, <1>11
  <2> QED  BY <1>7, <1>11, <2>1 DEF NewUnit, old, next
<1> QED  BY <1>10, <1>11 DEF NewUnit, old, next

(* observe keeps both maps right.                                          *)
LEMMA ObserveKeeps ==
    ASSUME NEW s \in Seq(Response), NEW r \in Response, NEW m,
           MapsAgree(m, s), FiniteMaps(m, s)
    PROVE  /\ MapsAgree(Observe(m, r), Append(s, r))
           /\ FiniteMaps(Observe(m, r), Append(s, r))
<1> DEFINE t == Append(s, r)
           n == Len(s) + 1
           c == RequestKey(r)
           k == DurationKey(r)
           o == Observe(m, r)
<1>1. CASE Skipped(r)
  <2>1. o = m
    BY <1>1 DEF Observe
  <2>2. Observed(t) = Observed(s) /\ \A i \in Observed(s) : t[i] = s[i]
    BY <1>1, OneMore
  <2> HIDE DEF t, o
  <2>3. \A x : OfRequest(t, x) = OfRequest(s, x)
    BY <2>2 DEF OfRequest
  <2>4. \A x : OfDuration(t, x) = OfDuration(s, x) /\ \A i \in OfDuration(s, x) : t[i] = s[i]
    BY <2>2 DEF OfDuration
  <2>5. ASSUME NEW x PROVE Ticks(t, x) = Ticks(s, x)
    BY <2>4 DEF Ticks
  <2>6. ASSUME NEW x, NEW b
        PROVE  {i \in OfDuration(t, x) : t[i].took <= b} = {i \in OfDuration(s, x) : s[i].took <= b}
    BY <2>4
  <2>7. /\ {RequestKey(t[i]) : i \in Observed(t)} = {RequestKey(s[i]) : i \in Observed(s)}
        /\ {DurationKey(t[i]) : i \in Observed(t)} = {DurationKey(s[i]) : i \in Observed(s)}
    BY <2>2
  <2>8. ASSUME NEW h, NEW x, HistogramAgrees(h, s, x) PROVE HistogramAgrees(h, t, x)
    BY <2>5, <2>6, <2>8 DEF HistogramAgrees
  <2>9. MapsAgree(m, t)
    BY <2>3, <2>7, <2>8 DEF MapsAgree
  <2>10. FiniteMaps(m, t)
    BY <2>5 DEF FiniteMaps
  <2> QED  BY <2>1, <2>9, <2>10 DEF t, o
<1>2. CASE ~Skipped(r)
  <2> DEFINE counts == m.requestCounts
             hists == m.durationHistograms
             old == Lookup(counts, c, 0)
             h == Lookup(hists, k, NewHistogram)
             g == [count |-> h.count + 1, sum |-> h.sum + r.took,
                   buckets |-> [b \in DurationBuckets |-> h.buckets[b] + IF r.took <= b THEN 1 ELSE 0]]
  <2>1. /\ o.requestCounts = Put(counts, c, old + 1)
        /\ o.durationHistograms = Put(hists, k, g)
    BY <1>2 DEF Observe
  <2>2. /\ DOMAIN counts = {RequestKey(s[i]) : i \in Observed(s)}
        /\ \A x \in DOMAIN counts : counts[x] = Cardinality(OfRequest(s, x))
        /\ DOMAIN hists = {DurationKey(s[i]) : i \in Observed(s)}
        /\ \A x \in DOMAIN hists :
              hists[x].count = Cardinality(Units(counts, x)) /\ HistogramAgrees(hists[x], s, x)
    BY DEF MapsAgree
  <2>3. \A x : IsFiniteSet(Ticks(s, x)) /\ IsFiniteSet(Units(counts, x))
    BY DEF FiniteMaps
  <2>4. /\ Observed(t) = Observed(s) \union {n}
        /\ \A i \in Observed(s) : t[i] = s[i] /\ i # n
        /\ t[n] = r
        /\ IsFiniteSet(Observed(s))
    BY <1>2, OneMore
  <2>5. /\ \A x : OfRequest(t, x) = IF c = x THEN OfRequest(s, x) \union {n} ELSE OfRequest(s, x)
        /\ \A x : OfDuration(t, x) = IF k = x THEN OfDuration(s, x) \union {n} ELSE OfDuration(s, x)
        /\ \A x : Ticks(t, x) =
              IF k = x THEN Ticks(s, x) \union ({n} \X (1..r.took)) ELSE Ticks(s, x)
    BY <1>2, OneMoreOf
  <2>6. r.took \in Nat
    <3>1. r.took \in Durations
      BY DEF Response
    <3> QED  BY <3>1, MetricsAssumption
  <2> HIDE DEF t, o, n, counts, hists
  \* The responses of a key are finitely many.
  <2>7. \A x : IsFiniteSet(OfRequest(s, x)) /\ n \notin OfRequest(s, x)
    <3>1. \A x : OfRequest(s, x) \subseteq Observed(s)
      BY DEF OfRequest
    <3> QED  BY <2>4, <3>1, FS_Subset
  <2>8. \A x : IsFiniteSet(OfDuration(s, x)) /\ n \notin OfDuration(s, x)
    <3>1. \A x : OfDuration(s, x) \subseteq Observed(s)
      BY DEF OfDuration
    <3> QED  BY <2>4, <3>1, FS_Subset
  \* The counter of r.
  <2>9. old = Cardinality(OfRequest(s, c)) /\ old \in Nat
    <3>1. c \notin DOMAIN counts => OfRequest(s, c) = {}
      BY <2>2 DEF OfRequest
    <3>2. old = Cardinality(OfRequest(s, c))
      BY <2>2, <3>1, FS_EmptySet DEF Lookup
    <3> QED  BY <2>7, <3>2, FS_CardinalityType
  <2>10. ASSUME NEW x
         PROVE  /\ Units(o.requestCounts, x) =
                      IF k = x THEN Units(counts, x) \union {<<c, old + 1>>} ELSE Units(counts, x)
                /\ <<c, old + 1>> \notin Units(counts, x)
    <3>1. <<c[1], c[2]>> = k
      BY DEF RequestKey, DurationKey
    <3>2. Lookup(counts, c, 0) \in Nat
      BY <2>9
    <3>3. o.requestCounts = OneUp(counts, c) /\ <<c, old + 1>> = NewUnit(counts, c)
      BY <2>1 DEF OneUp, NewUnit
    <3> HIDE DEF c, k, old
    <3> QED  BY <3>1, <3>2, <3>3, OneMoreUnit
  <2>12. /\ DOMAIN o.requestCounts = DOMAIN counts \union {c}
         /\ o.requestCounts[c] = old + 1
         /\ \A x \in DOMAIN counts : x # c => o.requestCounts[x] = counts[x]
         /\ DOMAIN o.durationHistograms = DOMAIN hists \union {k}
         /\ o.durationHistograms[k] = g
         /\ \A x \in DOMAIN hists : x # k => o.durationHistograms[x] = hists[x]
    BY <2>1 DEF Put
  <2>13. /\ DOMAIN o.requestCounts = {RequestKey(t[i]) : i \in Observed(t)}
         /\ DOMAIN o.durationHistograms = {DurationKey(t[i]) : i \in Observed(t)}
    BY <2>2, <2>4, <2>12
  <2>14. ASSUME NEW x \in DOMAIN o.requestCounts
         PROVE  o.requestCounts[x] = Cardinality(OfRequest(t, x))
    <3>1. CASE x = c
      BY <2>5, <2>7, <2>9, <2>12, <3>1, FS_AddElement
    <3>2. CASE x # c
      BY <2>2, <2>5, <2>12, <3>2
    <3> QED  BY <3>1, <3>2
  \* The histogram of r, as it was or new.
  <2>15. h.count = Cardinality(Units(counts, k)) /\ HistogramAgrees(h, s, k)
    <3>1. CASE k \in DOMAIN hists
      BY <2>2, <3>1 DEF Lookup
    <3>2. CASE k \notin DOMAIN hists
      <4>1. OfDuration(s, k) = {}
        BY <2>2, <3>2 DEF OfDuration
      <4>2. Units(counts, k) = {}
        <5>1. \A i \in Observed(s) : RequestKey(s[i])[1] = DurationKey(s[i])[1]
                                  /\ RequestKey(s[i])[2] = DurationKey(s[i])[2]
                                  /\ DurationKey(s[i]) = <<RequestKey(s[i])[1], RequestKey(s[i])[2]>>
          BY DEF RequestKey, DurationKey
        <5>2. \A x \in DOMAIN counts : <<x[1], x[2]>> # k
          BY <2>2, <3>2, <5>1
        <5>3. {d \in DOMAIN counts : <<d[1], d[2]>> = k} = {}
          BY <5>2
        <5> QED  BY <5>3 DEF Units
      <4>3. Ticks(s, k) = {}
        BY <4>1 DEF Ticks
      <4>4. h = NewHistogram
        BY <3>2 DEF Lookup
      <4>5. \A b \in DurationBuckets : {i \in OfDuration(s, k) : s[i].took <= b} = {}
        BY <4>1
      <4>6. h.count = 0 /\ h.sum = 0 /\ \A b \in DurationBuckets : h.buckets[b] = 0
        BY <4>4 DEF NewHistogram
      <4> HIDE DEF h, k
      <4>7. \A b \in DurationBuckets :
               h.buckets[b] = Cardinality({i \in OfDuration(s, k) : s[i].took <= b})
        BY <4>5, <4>6, FS_EmptySet
      <4>8. h.count = Cardinality(Units(counts, k)) /\ h.sum = Cardinality(Ticks(s, k))
        BY <4>2, <4>3, <4>6, FS_EmptySet
      <4> QED  BY <4>7, <4>8 DEF HistogramAgrees
    <3> QED  BY <3>1, <3>2
  <2> HIDE DEF h, old, c, k
  <2>16. g.count = Cardinality(Units(o.requestCounts, k)) /\ IsFiniteSet(Units(o.requestCounts, k))
    <3> DEFINE u == Units(counts, k)
    <3>1. Units(o.requestCounts, k) = u \union {<<c, old + 1>>}
      BY <2>10
    <3>2. IsFiniteSet(u) /\ <<c, old + 1>> \notin u
      BY <2>3, <2>10
    <3>3. h.count = Cardinality(u) /\ g.count = h.count + 1
      BY <2>15
    <3> HIDE DEF u, g
    <3>4. /\ IsFiniteSet(u \union {<<c, old + 1>>})
          /\ Cardinality(u \union {<<c, old + 1>>}) = Cardinality(u) + 1
      BY <3>2, FS_AddElement
    <3> QED  BY <3>1, <3>3, <3>4
  <2>17. g.sum = Cardinality(Ticks(t, k)) /\ IsFiniteSet(Ticks(t, k))
    <3> DEFINE new == {n} \X (1..r.took)
    <3>1. IsFiniteSet(new) /\ Cardinality(new) = r.took
      <4>1. IsFiniteSet(1..r.took) /\ Cardinality(1..r.took) = r.took
        <5> DEFINE d == r.took
        <5>1. d \in Int /\ d >= 0 /\ 1 \in Int
          BY <2>6
        <5> HIDE DEF d
        <5>2. /\ IsFiniteSet(1..d)
              /\ Cardinality(1..d) = IF 1 > d THEN 0 ELSE d - 1 + 1
          BY <5>1, FS_Interval
        <5>3. Cardinality(1..d) = d
          BY <5>1, <5>2
        <5> QED  BY <5>2, <5>3 DEF d
      <4>2. IsFiniteSet({n}) /\ Cardinality({n}) = 1
        BY FS_Singleton
      <4>3. IsFiniteSet(new) /\ Cardinality(new) = Cardinality({n}) * Cardinality(1..r.took)
        BY <4>1, <4>2, FS_Product
      <4> QED  BY <2>6, <4>1, <4>2, <4>3
    <3>2. Ticks(s, k) \intersect new = {}
      <4>1. \A x \in Ticks(s, k) : \E i \in OfDuration(s, k) : x \in {i} \X (1..s[i].took)
        BY DEF Ticks
      <4> QED  BY <2>8, <4>1
    <3>3. Ticks(t, k) = Ticks(s, k) \union new
      BY <2>5
    <3> HIDE DEF new
    <3>4. /\ IsFiniteSet(Ticks(t, k))
          /\ Cardinality(Ticks(t, k)) = Cardinality(Ticks(s, k)) + Cardinality(new) - 0
      BY <2>3, <3>1, <3>2, <3>3, FS_Union, FS_EmptySet
    <3>5. h.sum = Cardinality(Ticks(s, k)) /\ h.sum \in Nat
      BY <2>3, <2>15, FS_CardinalityType DEF HistogramAgrees
    <3> QED  BY <2>6, <3>1, <3>4, <3>5
  <2>18. ASSUME NEW b \in DurationBuckets
         PROVE  g.buckets[b] = Cardinality({i \in OfDuration(t, k) : t[i].took <= b})
    <3> DEFINE was == {i \in OfDuration(s, k) : s[i].took <= b}
    <3>1. \A i \in OfDuration(s, k) : t[i] = s[i]
      BY <2>4 DEF OfDuration
    <3>2. {i \in OfDuration(t, k) : t[i].took <= b} = IF r.took <= b THEN was \union {n} ELSE was
      BY <2>4, <2>5, <3>1
    <3>3. IsFiniteSet(was) /\ n \notin was
      BY <2>8, FS_Subset
    <3>4. h.buckets[b] = Cardinality(was)
      BY <2>15 DEF HistogramAgrees
    <3>5. Cardinality(was) \in Nat
      BY <3>3, FS_CardinalityType
    <3>6. g.buckets[b] = h.buckets[b] + IF r.took <= b THEN 1 ELSE 0
      OBVIOUS
    <3> HIDE DEF was
    <3>7. Cardinality(was \union {n}) = Cardinality(was) + 1
      BY <3>3, FS_AddElement
    <3> DEFINE got == g.buckets[b]  had == h.buckets[b]
    <3>8. got = had + IF r.took <= b THEN 1 ELSE 0
      BY <3>6
    <3>9. had = Cardinality(was)
      BY <3>4
    <3> HIDE DEF got, had
    <3>10. got = Cardinality(IF r.took <= b THEN was \union {n} ELSE was)
      BY <3>5, <3>7, <3>8, <3>9
    <3> QED  BY <3>2, <3>10 DEF got
  <2>19. HistogramAgrees(g, t, k)
    BY <2>17, <2>18 DEF HistogramAgrees
  \* The other histograms.
  <2>20. ASSUME NEW x, x # k, NEW f, HistogramAgrees(f, s, x) PROVE HistogramAgrees(f, t, x)
    <3>1. /\ OfDuration(t, x) = OfDuration(s, x)
          /\ Ticks(t, x) = Ticks(s, x)
      BY <2>5, <2>20
    <3>2. \A i \in OfDuration(s, x) : t[i] = s[i]
      BY <2>4 DEF OfDuration
    <3>3. \A b : {i \in OfDuration(t, x) : t[i].took <= b} = {i \in OfDuration(s, x) : s[i].took <= b}
      BY <3>1, <3>2
    <3> QED  BY <2>20, <3>1, <3>3 DEF HistogramAgrees
  <2> HIDE DEF g
  <2>21. ASSUME NEW x \in DOMAIN o.durationHistograms
         PROVE  /\ o.durationHistograms[x].count = Cardinality(Units(o.requestCounts, x))
                /\ HistogramAgrees(o.durationHistograms[x], t, x)
    <3>1. CASE x = k
      BY <2>12, <2>16, <2>19, <3>1
    <3>2. CASE x # k
      <4>1. x \in DOMAIN hists /\ o.durationHistograms[x] = hists[x]
        BY <2>12, <3>2
      <4>2. Units(o.requestCounts, x) = Units(counts, x)
        BY <2>10, <3>2
      <4> QED  BY <2>2, <2>20, <3>2, <4>1, <4>2
    <3> QED  BY <3>1, <3>2
  <2>22. MapsAgree(o, t)
    BY <2>13, <2>14, <2>21 DEF MapsAgree
  <2>23. FiniteMaps(o, t)
    <3> SUFFICES ASSUME NEW x PROVE IsFiniteSet(Ticks(t, x)) /\ IsFiniteSet(Units(o.requestCounts, x))
      BY DEF FiniteMaps
    <3>1. CASE x = k
      BY <2>16, <2>17, <3>1
    <3>2. CASE x # k
      BY <2>3, <2>5, <2>10, <3>2
    <3> QED  BY <3>1, <3>2
  <2> QED  BY <2>22, <2>23 DEF t, o
<1> QED  BY <1>1, <1>2

(* The maps after the first n of some responses.                           *)
Counting(f, s, n) ==
    /\ f = [i \in 0..n |-> f[i]]
    /\ f[0] = NewHTTPMetrics
    /\ \A i \in 1..n : f[i] = Observe(f[i - 1], s[i])

(* They can be listed to the end.                                          *)
LEMMA CountingExists ==
    ASSUME NEW s \in Seq(Response)
    PROVE  \A n \in Nat : \E f : Counting(f, s, n)
<1> DEFINE T == {n \in Nat : \E f : Counting(f, s, n)}
<1>1. 0 \in T
  <2> DEFINE f == [i \in 0..0 |-> NewHTTPMetrics]
  <2>1. f = [i \in 0..0 |-> f[i]] /\ f[0] = NewHTTPMetrics /\ \A i \in 1..0 : f[i] = Observe(f[i - 1], s[i])
    OBVIOUS
  <2>2. Counting(f, s, 0)
    BY <2>1 DEF Counting
  <2> QED  BY <2>2
<1>2. ASSUME NEW n \in Nat, n \in T PROVE n + 1 \in T
  <2>1. PICK f : Counting(f, s, n)
    BY <1>2
  <2> DEFINE g == [i \in 0..(n + 1) |-> IF i = n + 1 THEN Observe(f[n], s[n + 1]) ELSE f[i]]
  <2>2. /\ f[0] = NewHTTPMetrics
        /\ \A i \in 1..n : f[i] = Observe(f[i - 1], s[i])
    BY <2>1 DEF Counting
  <2>3. g[0] = NewHTTPMetrics /\ g = [i \in 0..(n + 1) |-> g[i]]
    BY <2>2
  <2>4. ASSUME NEW i \in 1..(n + 1) PROVE g[i] = Observe(g[i - 1], s[i])
    <3>1. i \in 0..(n + 1) /\ i - 1 \in 0..(n + 1) /\ i - 1 # n + 1
      OBVIOUS
    <3>2. g[i - 1] = f[i - 1]
      BY <3>1
    <3>3. CASE i = n + 1
      <4>1. i - 1 = n
        BY <3>3
      <4>2. g[i] = Observe(f[n], s[n + 1])
        BY <3>1, <3>3
      <4> QED  BY <3>2, <3>3, <4>1, <4>2
    <3>4. CASE i # n + 1
      <4>1. i \in 1..n
        BY <3>4
      <4>2. g[i] = f[i]
        BY <3>1, <3>4
      <4> QED  BY <2>2, <3>2, <4>1, <4>2
    <3> QED  BY <3>3, <3>4
  <2> HIDE DEF g
  <2>5. Counting(g, s, n + 1)
    BY <2>3, <2>4 DEF Counting
  <2>6. n + 1 \in Nat
    OBVIOUS
  <2> QED  BY <2>5, <2>6
<1> HIDE DEF T
<1>3. Nat \subseteq T
  BY <1>1, <1>2, NatClosed
<1> QED  BY <1>3 DEF T

(* MetricsAfter is the end of such a list.                                 *)
LEMMA MetricsListed ==
    ASSUME NEW s \in Seq(Response)
    PROVE  \E f : Counting(f, s, Len(s)) /\ MetricsAfter(s) = f[Len(s)]
<1> DEFINE n == Len(s)
           G(P) == [i \in 0..n |-> IF i = 0 THEN NewHTTPMetrics ELSE Observe(P[i - 1], s[i])]
           A == CHOOSE P : P = G(P)
<1>1. n \in Nat
  OBVIOUS
<1>2. PICK f : Counting(f, s, n)
  BY <1>1, CountingExists
<1>3. f = G(f)
  <2>1. /\ f = [i \in 0..n |-> f[i]] /\ f[0] = NewHTTPMetrics
        /\ \A i \in 1..n : f[i] = Observe(f[i - 1], s[i])
    BY <1>2 DEF Counting
  <2>2. \A i \in 0..n : f[i] = IF i = 0 THEN NewHTTPMetrics ELSE Observe(f[i - 1], s[i])
    <3> TAKE i \in 0..n
    <3>1. i = 0 \/ i \in 1..n
      BY <1>1
    <3> QED  BY <2>1, <3>1
  <2> QED  BY <2>1, <2>2
<1>4. A = G(A)
  BY <1>3
<1>5. MetricsAfter(s) = A[n]
  BY DEF MetricsAfter
<1> HIDE DEF A
<1>6. A = [i \in 0..n |-> A[i]]
  BY <1>4
<1>7. A[0] = NewHTTPMetrics
  BY <1>1, <1>4
<1>8. ASSUME NEW i \in 1..n PROVE A[i] = Observe(A[i - 1], s[i])
  <2>1. i \in 0..n /\ i # 0
    BY <1>1
  <2> QED  BY <1>4, <2>1
<1>9. Counting(A, s, n)
  BY <1>6, <1>7, <1>8 DEF Counting
<1> QED  BY <1>5, <1>9

(* Whatever the API has answered, and however often, the counters and the  *)
(* histograms a scrape reads are those of the answers, and agree.          *)
THEOREM MapsAlwaysAgree == \A s \in Seq(Response) : Agree(s)
<1> SUFFICES ASSUME NEW s \in Seq(Response) PROVE Agree(s)
  OBVIOUS
<1>1. PICK f : Counting(f, s, Len(s)) /\ MetricsAfter(s) = f[Len(s)]
  BY MetricsListed
<1>2. /\ f[0] = NewHTTPMetrics
      /\ \A i \in 1..Len(s) : f[i] = Observe(f[i - 1], s[i])
  BY <1>1 DEF Counting
<1> DEFINE p(n) == SubSeq(s, 1, n)
           T == {n \in Nat : n <= Len(s) => MapsAgree(f[n], p(n)) /\ FiniteMaps(f[n], p(n))}
<1>3. Len(s) \in Nat
  OBVIOUS
<1>4. 0 \in T
  <2>1. p(0) = <<>>
    OBVIOUS
  <2>2. DOMAIN NewHTTPMetrics.requestCounts = {} /\ DOMAIN NewHTTPMetrics.durationHistograms = {}
    BY DEF NewHTTPMetrics
  <2>3. Observed(p(0)) = {}
    BY <2>1 DEF Observed
  <2> HIDE DEF p
  <2>4. \A k : OfDuration(p(0), k) = {}
    BY <2>3 DEF OfDuration
  <2>5. ASSUME NEW k PROVE Ticks(p(0), k) = {} /\ Units(NewHTTPMetrics.requestCounts, k) = {}
    <3>1. Ticks(p(0), k) = {}
      BY <2>4 DEF Ticks
    <3>2. {d \in DOMAIN NewHTTPMetrics.requestCounts : <<d[1], d[2]>> = k} = {}
      BY <2>2
    <3> QED  BY <3>1, <3>2 DEF Units
  <2>6. FiniteMaps(f[0], p(0))
    BY <1>2, <2>5, FS_EmptySet DEF FiniteMaps
  <2>7. MapsAgree(f[0], p(0))
    BY <1>2, <2>2, <2>3 DEF MapsAgree
  <2> QED  BY <2>6, <2>7
<1>5. ASSUME NEW n \in Nat, n \in T PROVE n + 1 \in T
  <2> SUFFICES ASSUME n + 1 <= Len(s)
               PROVE  MapsAgree(f[n + 1], p(n + 1)) /\ FiniteMaps(f[n + 1], p(n + 1))
    OBVIOUS
  <2>1. /\ p(n) \in Seq(Response) /\ s[n + 1] \in Response
        /\ p(n + 1) = Append(p(n), s[n + 1])
    BY <1>3
  <2>2. f[n + 1] = Observe(f[n], s[n + 1])
    <3>1. n + 1 \in 1..Len(s) /\ (n + 1) - 1 = n
      BY <1>3
    <3> QED  BY <1>2, <3>1
  <2>3. MapsAgree(f[n], p(n)) /\ FiniteMaps(f[n], p(n))
    BY <1>3, <1>5
  <2> HIDE DEF p
  <2> QED  BY <2>1, <2>2, <2>3, ObserveKeeps
<1> HIDE DEF T
<1>6. Len(s) \in T
  BY <1>3, <1>4, <1>5, NatClosed
<1>7. p(Len(s)) = s
  BY <1>3
<1>8. MapsAgree(f[Len(s)], p(Len(s)))
  BY <1>3, <1>6 DEF T
<1> QED  BY <1>1, <1>7, <1>8 DEF Agree

(* The response to every request the API has answered is counted in both   *)
(* maps, in agreement, after any two others and however long it took.      *)
THEOREM MetricsCounted == Spec => []MetricsAgree
<1>1. QInv => MetricsAgree
  <2> SUFFICES ASSUME QInv, NEW s \in Servers, req[s] # None, req[s].status # 0,
                      NEW took \in Durations
               PROVE  <<req[s].request.method, req[s].request.path, req[s].status, took>> \in Agreeing
    BY DEF MetricsAgree
  <2>1. req[s] \in Served
    BY DEF QInv, ReqInv, HandInv
  <2>2. /\ req[s].request \in Requests
        /\ req[s].status \in {200, 400, 404, 405, 500}
    BY <2>1 DEF Served
  <2>3. req[s].request.method \in Methods /\ req[s].request.path \in Paths
    BY <2>2, QueryAssumption
  <2> DEFINE code == req[s].status
             headers == IF code = 200 THEN <<>> ELSE <<code>>
             r == [method |-> req[s].request.method, path |-> req[s].request.path,
                   headers |-> headers, took |-> took]
  <2>4. headers \in {<<>>} \union {<<c>> : c \in {400, 404, 405, 500}}
    BY <2>2
  <2>5. r \in Response
    BY <2>3, <2>4 DEF Response
  <2>6. Status(r) = code
    <3>1. CASE code = 200
      BY <3>1 DEF Status
    <3>2. CASE code # 200
      <4>1. r.headers = <<code>> /\ r.headers # <<>>
        BY <3>2
      <4> QED  BY <4>1 DEF Status, Last
    <3> QED  BY <3>1, <3>2
  <2>7. r.method = req[s].request.method /\ r.path = req[s].request.path /\ r.took = took
    OBVIOUS
  <2> HIDE DEF r
  <2>8. \A p, q \in Earlier : Agree(<<p, q, r>>)
    <3> TAKE p, q \in Earlier
    <3>1. p \in Response /\ q \in Response
      BY MetricsAssumption
    <3>2. <<p, q, r>> \in Seq(Response)
      BY <2>5, <3>1
    <3> QED  BY <3>2, MapsAlwaysAgree
  <2> QED  BY <2>5, <2>6, <2>7, <2>8 DEF Agreeing
<1> QED  BY <1>1, Invariance, PTL

-----------------------------------------------------------------------------
(* OpenStore.                                                              *)

(* What the statements in front of the next one of p create exists.        *)
SchemaInv ==
    \A p \in Processes : \A i \in DOMAIN Statements :
        i < stage[p] => Statements[i].makes \in schema

(* A process that is opening the store has the tables its next statement   *)
(* refers to; one that has opened it, and inserts or queries, has all.     *)
SchemaThere ==
    \A p \in Processes :
        IF Ready(p) THEN schema = Schema ELSE Statements[stage[p]].needs \subseteq schema

(* The statements, written out.                                            *)
LEMMA StatementsAre ==
    /\ DOMAIN Statements = 1..3 /\ Len(Statements) = 3
    /\ \A i \in 1..3 : Statements[i].needs \subseteq {Statements[j].makes : j \in 1..(i - 1)}
    /\ Schema = {Statements[j].makes : j \in 1..3}
<1>1. DOMAIN Statements = 1..3 /\ Len(Statements) = 3
  BY DEF Statements
<1>2. /\ Statements[1].makes = "telemetry_series" /\ Statements[1].needs = {}
      /\ Statements[2].makes = "telemetry_samples" /\ Statements[2].needs = {"telemetry_series"}
      /\ Statements[3].needs = {"telemetry_series", "telemetry_samples"}
  BY DEF Statements
<1>3. ASSUME NEW i \in 1..3
      PROVE  Statements[i].needs \subseteq {Statements[j].makes : j \in 1..(i - 1)}
  <2>1. i = 1 \/ i = 2 \/ i = 3
    OBVIOUS
  <2>2. 1 \in 1..(2 - 1) /\ 1 \in 1..(3 - 1) /\ 2 \in 1..(3 - 1)
    OBVIOUS
  <2> QED  BY <1>2, <2>1, <2>2
<1> QED  BY <1>1, <1>3 DEF Schema

LEMMA SchemaStep == StoreTypeOK /\ SchemaInv /\ [Next]_vars => SchemaInv'
<1> SUFFICES ASSUME StoreTypeOK, SchemaInv, [Next]_vars PROVE SchemaInv'
  OBVIOUS
<1>1. stage \in [Processes -> 1..4] /\ DOMAIN Statements = 1..3
  BY StatementsAre DEF StoreTypeOK
<1>2. ASSUME NEW p \in Processes, Statement(p) PROVE SchemaInv'
  <2>1. /\ schema' = schema \union {Statements[stage[p]].makes}
        /\ stage' = [stage EXCEPT ![p] = stage[p] + 1]
    BY <1>2 DEF Statement
  <2>2. ASSUME NEW q \in Processes, NEW i \in 1..3, i < stage'[q]
        PROVE  Statements[i].makes \in schema'
    <3>1. i < stage[q] \/ (q = p /\ i = stage[p])
      <4>1. CASE q = p
        <5>1. stage'[q] = stage[p] + 1 /\ stage[p] \in Int
          BY <1>1, <2>1, <4>1
        <5> QED  BY <2>2, <4>1, <5>1
      <4>2. CASE q # p
        BY <1>1, <2>1, <2>2, <4>2
      <4> QED  BY <4>1, <4>2
    <3> QED  BY <1>1, <2>1, <3>1 DEF SchemaInv
  <2> QED  BY <1>1, <2>2 DEF SchemaInv
<1>3. ASSUME NEW p \in Processes, OpenFails(p) PROVE SchemaInv'
  <2>1. schema' = schema /\ stage' = [stage EXCEPT ![p] = 1]
    BY <1>3 DEF OpenFails
  <2>2. ASSUME NEW q \in Processes, NEW i \in 1..3, i < stage'[q] PROVE i < stage[q]
    BY <1>1, <2>1, <2>2
  <2> QED  BY <1>1, <2>1, <2>2 DEF SchemaInv
<1>4. ASSUME UNCHANGED <<schema, stage>> PROVE SchemaInv'
  BY <1>4 DEF SchemaInv
<1>5. CASE StoreNext
  <2>1. ASSUME NEW w \in Writers, Upsert(w) \/ InsertSample(w) \/ Commit(w)
                                  \/ CommitUnknown(w) \/ Rollback(w)
        PROVE  UNCHANGED <<schema, stage>>
    BY <2>1 DEF Upsert, InsertSample, Commit, CommitUnknown, Rollback
  <2>2. ASSUME NEW w \in Writers, NEW m \in Messages, BeginTx(w, m)
        PROVE  UNCHANGED <<schema, stage>>
    BY <2>2 DEF BeginTx
  <2>3. Tick => UNCHANGED <<schema, stage>>
    BY DEF Tick
  <2> QED  BY <1>2, <1>3, <1>4, <1>5, <2>1, <2>2, <2>3 DEF StoreNext, InsertStep
<1>6. ASSUME NEW s \in Servers,
             (\E r \in Requests : Receive(s, r)) \/ RequestStep(s) \/ StatementFails(s) \/ EncodeFails(s)
      PROVE  UNCHANGED <<schema, stage>>
  BY <1>6 DEF Receive, RequestStep, RunQuery, RunList, Finish, StatementFails, EncodeFails, storeVars
<1>7. UNCHANGED vars => UNCHANGED <<schema, stage>>
  BY DEF vars, storeVars
<1> QED  BY <1>4, <1>5, <1>6, <1>7 DEF Next, Exhausted

(* Whatever processes open the store at the same time, fail half way and   *)
(* start again, a CREATE refers only to tables that exist, and no Insert   *)
(* and no query meets a schema that is not complete.                       *)
THEOREM SchemaComplete == Spec => []SchemaThere
<1>1. Init => SchemaInv
  <2> SUFFICES ASSUME Init PROVE SchemaInv
    OBVIOUS
  <2>1. \A p \in Processes : stage[p] = 1
    BY DEF Init, StoreInit
  <2> QED  BY <2>1, StatementsAre DEF SchemaInv
<1>2. StoreTypeOK /\ SchemaInv => SchemaThere
  <2> SUFFICES ASSUME StoreTypeOK, SchemaInv, NEW p \in Processes
               PROVE  IF Ready(p) THEN schema = Schema ELSE Statements[stage[p]].needs \subseteq schema
    BY DEF SchemaThere
  <2>1. stage[p] \in 1..4 /\ schema \subseteq Schema
    BY StatementsAre DEF StoreTypeOK
  <2>2. \A i \in 1..3 : i < stage[p] => Statements[i].makes \in schema
    BY StatementsAre DEF SchemaInv
  <2>3. CASE Ready(p)
    <3>1. \A i \in 1..3 : i < stage[p]
      BY <2>1, <2>3, StatementsAre DEF Ready
    <3> QED  BY <2>1, <2>2, <2>3, <3>1, StatementsAre
  <2>4. CASE ~Ready(p)
    <3>1. stage[p] \in 1..3
      BY <2>1, <2>4, StatementsAre DEF Ready
    <3>2. \A j \in 1..(stage[p] - 1) : j \in 1..3 /\ j < stage[p]
      BY <3>1
    <3> QED  BY <2>2, <2>4, <3>1, <3>2, StatementsAre
  <2> QED  BY <2>3, <2>4
<1>3. QInv => StoreTypeOK
  BY DEF QInv, StoreInv
<1> QED  BY <1>1, <1>2, <1>3, SchemaStep, Invariance, PTL DEF Spec
=============================================================================
