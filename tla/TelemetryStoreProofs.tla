------------------------ MODULE TelemetryStoreProofs ------------------------
(***************************************************************************)
(* Inserts into Postgres, for any number of processors, messages, series,  *)
(* faults and redeliveries: the inductive invariant behind StoreTypeOK,    *)
(* OneSeries, WaitsEnd and CopiesExplained, and that every step of the     *)
(* store keeps it.  QueryAPIProofs concludes for the whole specification.  *)
(***************************************************************************)
EXTENDS TelemetryStore, FiniteSetTheorems, TLAPS

(* The row of telemetry_series that the transaction of w refers to.        *)
Row(w) == [id |-> tx[w].id, labels |-> LabelsOf[tx[w].msg]]

(* What an open transaction relies on.  Behind its upsert it holds the     *)
(* lock of its labels, and its row is committed already, or it is its own  *)
(* and no committed row has the ID or the labels.                          *)
TxInv(w) ==
    tx[w] # None =>
        /\ tx[w].step = "upsert" => tx[w].new = {}
        /\ tx[w].step # "upsert" =>
              /\ lock[LabelsOf[tx[w].msg]] = w
              /\ \/ tx[w].new = {} /\ Row(w) \in series
                 \/ /\ tx[w].new = {Row(w)}
                    /\ \A r \in series : r.id # Row(w).id /\ r.labels # Row(w).labels
        /\ tx[w].step = "commit" =>
              tx[w].sample = [series |-> tx[w].id, at |-> RecordedAt(tx[w].msg),
                              msg |-> tx[w].msg]

(* No two open transactions have been given the same new ID.               *)
FreshIDs ==
    \A v, w \in Writers :
        /\ v # w
        /\ tx[v] # None
        /\ tx[w] # None
        /\ tx[v].new # {}
        /\ tx[w].new # {}
        => tx[v].id # tx[w].id

SampleInv == \A i \in DOMAIN samples : samples[i].at = RecordedAt(samples[i].msg)

(* The processors that are working on m.                                   *)
Live(m) == {w \in Writers : tx[w] # None /\ tx[w].msg = m}

(* Every copy of m, and every Insert of m that is under way, goes back to  *)
(* a time m was handed out.                                                *)
CountInv(m) ==
    /\ Cardinality(Copies(m)) + Cardinality(Live(m)) <= handed[m]
    /\ m \in inserted => Copies(m) # {}

StoreInv ==
    /\ StoreTypeOK
    /\ IsFiniteSet(series)
    /\ \A w \in Writers : TxInv(w)
    /\ FreshIDs
    /\ OneSeries
    /\ WaitsEnd
    /\ SampleInv
    /\ \A m \in Messages : CountInv(m)

-----------------------------------------------------------------------------
(* Facts about the parts of a state.                                       *)

(* Cutting a time to the second gives a time that is less than a second    *)
(* earlier.                                                                *)
LEMMA RecordedAtType ==
    ASSUME NEW m \in Messages
    PROVE  /\ RecordedAt(m) \in Nat
           /\ RecordedAt(m) <= MadeAt[m]
           /\ MadeAt[m] < RecordedAt(m) + TicksPerSecond
           /\ MadeAt[m] \in Nat
<1> DEFINE a == MadeAt[m]
           b == TicksPerSecond
<1>1. a \in Nat /\ b \in Nat \ {0}
  BY TelemetryAssumption
<1> HIDE DEF a, b
<1>2. a % b \in 0..(b - 1) /\ a \div b \in Int /\ a = b * (a \div b) + (a % b)
  BY <1>1
<1>3. a % b <= a
  <2> DEFINE q == a \div b
             r == a % b
  <2>1. q \in Int /\ r \in 0..(b - 1) /\ a = b * q + r
    BY <1>2
  <2> HIDE DEF q, r
  <2>2. CASE q >= 0
    <3>1. b * q >= 0
      BY <1>1, <2>1, <2>2
    <3>2. b * q \in Int
      BY <1>1, <2>1
    <3> QED  BY <1>1, <2>1, <3>1, <3>2 DEF r
  <2>3. CASE q < 0
    <3>1. b * q <= -b
      BY <1>1, <2>1, <2>3
    <3>2. b * q \in Int
      BY <1>1, <2>1
    <3> QED  BY <1>1, <2>1, <3>1, <3>2
  <2> QED  BY <2>1, <2>2, <2>3
<1>4. RecordedAt(m) = a - (a % b)
  BY DEF RecordedAt, a, b
<1>5. /\ a - (a % b) \in Nat
      /\ a - (a % b) <= a
      /\ a < (a - (a % b)) + b
  <2> DEFINE r == a % b
  <2>1. r \in 0..(b - 1) /\ r <= a
    BY <1>2, <1>3
  <2> HIDE DEF r
  <2>2. a - r \in Nat /\ a - r <= a /\ a < (a - r) + b
    BY <1>1, <2>1
  <2> QED  BY <2>2 DEF r
<1> QED  BY <1>1, <1>4, <1>5 DEF a, b

(* The labels of a message are labels.                                     *)
LEMMA LabelsType == \A m \in Messages : LabelsOf[m] \in Labels
  BY TelemetryAssumption DEF Labels, Range

(* The rows that are committed or that open transactions have made.        *)
AllRows == series \union UNION {tx[w].new : w \in {v \in Writers : tx[v] # None}}

(* There are finitely many rows.                                           *)
LEMMA RowsFinite ==
    ASSUME StoreInv
    PROVE  IsFiniteSet(AllRows) /\ \A r \in AllRows : r.id \in Nat
<1> DEFINE W == {v \in Writers : tx[v] # None}
           N == {tx[w].new : w \in W}
           f == [w \in W |-> tx[w].new]
<1>1. IsFiniteSet(W)
  BY FS_Subset, TelemetryAssumption
<1>2. f \in Surjection(W, N)
  BY DEF Surjection
<1>3. IsFiniteSet(N)
  BY <1>1, <1>2, FS_Surjection
<1>4. \A n \in N : IsFiniteSet(n)
  <2>1. \A w \in W : tx[w].new = {} \/ tx[w].new = {Row(w)}
    BY DEF StoreInv, TxInv
  <2>2. IsFiniteSet({}) /\ \A x : IsFiniteSet({x})
    BY FS_EmptySet, FS_Singleton
  <2>3. \A w \in W : IsFiniteSet(tx[w].new)
    <3> TAKE w \in W
    <3>1. CASE tx[w].new = {}
      BY <2>2, <3>1
    <3>2. CASE tx[w].new = {Row(w)}
      BY <2>2, <3>2
    <3> QED  BY <2>1, <3>1, <3>2
  <2> QED  BY <2>3
<1>5. IsFiniteSet(UNION N)
  BY <1>3, <1>4, FS_UNION
<1>6. IsFiniteSet(AllRows)
  BY <1>5, FS_Union DEF AllRows, StoreInv
<1>7. \A r \in AllRows : r \in SeriesRow
  BY DEF AllRows, StoreInv, StoreTypeOK, Tx
<1> QED  BY <1>6, <1>7 DEF SeriesRow

(* The sequence always has a number that no row has.                       *)
LEMMA NextIDFresh ==
    ASSUME StoreInv
    PROVE  NextID \in Nat /\ \A r \in AllRows : r.id # NextID
<1> DEFINE n == Cardinality(AllRows)
           D == 1..(n + 1)
           I == {r.id : r \in AllRows}
           f == [r \in AllRows |-> r.id]
<1>1. IsFiniteSet(AllRows) /\ n \in Nat
  BY RowsFinite, FS_CardinalityType
<1>2. f \in Surjection(AllRows, I)
  BY DEF Surjection
<1>3. IsFiniteSet(I) /\ Cardinality(I) <= n
  BY <1>1, <1>2, FS_Surjection
<1>4. \E i \in D : \A r \in AllRows : r.id # i
  <2> SUFFICES ASSUME \A i \in D : \E r \in AllRows : r.id = i PROVE FALSE
    OBVIOUS
  <2>1. D \in SUBSET I
    OBVIOUS
  <2>2. Cardinality(D) <= Cardinality(I)
    BY <1>3, <2>1, FS_Subset
  <2>3. Cardinality(D) = n + 1
    BY <1>1, FS_Interval
  <2>4. Cardinality(I) \in Nat
    BY <1>3, FS_CardinalityType
  <2> QED  BY <1>1, <1>3, <2>2, <2>3, <2>4
<1>5. NextID = CHOOSE i \in D : \A r \in AllRows : r.id # i
  BY DEF NextID, AllRows
<1>6. NextID \in D /\ \A r \in AllRows : r.id # NextID
  BY <1>4, <1>5
<1> QED  BY <1>1, <1>6

-----------------------------------------------------------------------------
(* The steps.                                                              *)

(* At the start there are no tables and no transactions.                   *)
LEMMA StoreInitInv == StoreInit => StoreInv
<1> SUFFICES ASSUME StoreInit PROVE StoreInv
  OBVIOUS
<1>1. StoreTypeOK
  BY TelemetryAssumption DEF StoreInit, StoreTypeOK, Schema, Statements, Processes
<1>2. IsFiniteSet(series)
  BY FS_EmptySet DEF StoreInit
<1>3. \A w \in Writers : TxInv(w)
  BY DEF StoreInit, TxInv
<1>4. FreshIDs /\ OneSeries /\ WaitsEnd /\ SampleInv
  BY DEF StoreInit, FreshIDs, OneSeries, WaitsEnd, SampleInv
<1>5. \A m \in Messages : CountInv(m)
  <2> TAKE m \in Messages
  <2>1. Copies(m) = {} /\ Live(m) = {}
    BY DEF StoreInit, Copies, Live
  <2>2. Cardinality(Copies(m)) = 0 /\ Cardinality(Live(m)) = 0
    BY <2>1, FS_EmptySet
  <2> QED  BY <2>2 DEF StoreInit, CountInv
<1> QED  BY <1>1, <1>2, <1>3, <1>4, <1>5 DEF StoreInv

(* A step that leaves the tables, the transactions and what was handed out *)
(* alone keeps the invariant: OpenStore, the clock, and the API's          *)
(* requests.                                                               *)
LEMMA FrameKeeps ==
    ASSUME StoreInv, StoreTypeOK', UNCHANGED <<dbVars, handed, again>>
    PROVE  StoreInv'
<1>1. \A w \in Writers : TxInv(w)'
  BY DEF StoreInv, TxInv, Row, dbVars
<1>2. FreshIDs' /\ OneSeries' /\ WaitsEnd' /\ SampleInv'
  BY DEF StoreInv, FreshIDs, OneSeries, WaitsEnd, SampleInv, dbVars
<1>3. \A m \in Messages : CountInv(m)'
  BY DEF StoreInv, CountInv, Copies, Live, dbVars
<1> QED  BY <1>1, <1>2, <1>3 DEF StoreInv, dbVars

(* OpenStore and the clock.                                                *)
LEMMA OpenKeeps ==
    ASSUME StoreInv,
           \/ Tick
           \/ \E p \in Processes : Statement(p) \/ OpenFails(p)
    PROVE  StoreInv'
<1> USE DEF StoreInv
<1>1. StoreTypeOK'
  <2>1. CASE Tick
    BY <2>1, TelemetryAssumption DEF Tick, StoreTypeOK, dbVars
  <2>2. CASE \E p \in Processes : Statement(p)
    <3> PICK p \in Processes : Statement(p)
      BY <2>2
    <3>1. Len(Statements) = 3 /\ DOMAIN Statements = 1..3
      BY DEF Statements
    <3>2. stage[p] \in 1..3
      BY <3>1 DEF StoreTypeOK, Statement, Ready
    <3>3. Statements[stage[p]].makes \in Schema
      BY <3>1, <3>2 DEF Schema
    <3>4. stage' \in [Processes -> 1..(Len(Statements) + 1)]
      BY <3>1, <3>2 DEF StoreTypeOK, Statement
    <3> QED  BY <3>3, <3>4 DEF Statement, StoreTypeOK, dbVars
  <2>3. CASE \E p \in Processes : OpenFails(p)
    <3>1. Len(Statements) = 3
      BY DEF Statements
    <3> QED  BY <2>3, <3>1, TelemetryAssumption DEF OpenFails, Fault, StoreTypeOK, dbVars
  <2> QED  BY <2>1, <2>2, <2>3
<1>2. UNCHANGED <<dbVars, handed, again>>
  BY DEF Tick, Statement, OpenFails
<1> QED  BY <1>1, <1>2, FrameKeeps

(* Finite sets behind the count.                                           *)
LEMMA CountFinite ==
    ASSUME StoreInv, NEW m \in Messages
    PROVE  /\ IsFiniteSet(Copies(m)) /\ Cardinality(Copies(m)) \in Nat
           /\ IsFiniteSet(Live(m)) /\ Cardinality(Live(m)) \in Nat
<1>1. Len(samples) \in Nat /\ DOMAIN samples = 1..Len(samples)
  BY DEF StoreInv, StoreTypeOK
<1>2. IsFiniteSet(1..Len(samples))
  BY <1>1, FS_Interval
<1>3. IsFiniteSet(Copies(m))
  BY <1>1, <1>2, FS_Subset DEF Copies
<1>4. IsFiniteSet(Live(m))
  BY TelemetryAssumption, FS_Subset DEF Live
<1> QED  BY <1>3, <1>4, FS_CardinalityType

(* A processor is given a message.                                         *)
LEMMA BeginTxKeeps ==
    ASSUME StoreInv, NEW w \in Writers, NEW m \in Messages, BeginTx(w, m)
    PROVE  StoreInv'
<1> USE DEF StoreInv
<1> DEFINE t == [step |-> "upsert", msg |-> m, id |-> 0, new |-> {}, sample |-> None]
<1>1. /\ tx[w] = None
      /\ tx' = [tx EXCEPT ![w] = t]
      /\ handed' = [handed EXCEPT ![m] = @ + 1]
      /\ UNCHANGED <<schema, stage, now, series, samples, lock, inserted, faults>>
  BY DEF BeginTx
<1>2. t \in Tx /\ t # None
  <2>1. t \in Tx
    BY DEF Tx
  <2> QED  BY <2>1, TxAssumption
<1>3. tx'[w] = t /\ \A v \in Writers : v # w => tx'[v] = tx[v]
  BY <1>1 DEF StoreTypeOK
<1>4. again' \in 0..MaxRedeliveries /\ handed' \in [Messages -> Nat]
  BY TelemetryAssumption DEF BeginTx, StoreTypeOK
<1>5. StoreTypeOK'
  BY <1>1, <1>2, <1>4 DEF StoreTypeOK
<1>6. \A v \in Writers : TxInv(v)'
  <2> TAKE v \in Writers
  <2>1. CASE v = w
    BY <1>1, <1>3, <2>1 DEF TxInv
  <2>2. CASE v # w
    <3>1. TxInv(v) /\ tx'[v] = tx[v]
      BY <1>1, <1>3, <2>2
    <3> QED  BY <1>1, <3>1 DEF TxInv, Row
  <2> QED  BY <2>1, <2>2
<1>7. FreshIDs'
  BY <1>1, <1>3 DEF FreshIDs
<1>8. OneSeries' /\ SampleInv'
  BY <1>1 DEF OneSeries, SampleInv
<1>9. WaitsEnd'
  <2>1. \A l \in Labels : lock[l] # w
    BY <1>1, TelemetryAssumption DEF WaitsEnd
  <2> QED  BY <1>1, <1>3, <2>1 DEF WaitsEnd, StoreTypeOK
<1>10. \A n \in Messages : CountInv(n)'
  <2> TAKE n \in Messages
  <2>0. handed[n] \in Nat
    BY DEF StoreTypeOK
  <2>1. Copies(n)' = Copies(n)
    BY <1>1 DEF Copies
  <2>2. CASE n # m
    <3>1. Live(n)' = Live(n)
      BY <1>1, <1>2, <1>3, <2>2 DEF Live
    <3>2. handed'[n] = handed[n]
      BY <1>1, <2>2 DEF StoreTypeOK
    <3> QED  BY <1>1, <2>1, <3>1, <3>2 DEF CountInv
  <2>3. CASE n = m
    <3>1. Live(n)' = Live(n) \union {w} /\ w \notin Live(n)
      BY <1>1, <1>2, <1>3, <2>3 DEF Live
    <3>2. Cardinality(Live(n)') = Cardinality(Live(n)) + 1
      BY <3>1, CountFinite, FS_AddElement
    <3>3. handed'[n] = handed[n] + 1
      BY <1>1, <2>3 DEF StoreTypeOK
    <3> QED  BY <1>1, <2>0, <2>1, <3>2, <3>3, CountFinite DEF CountInv
  <2> QED  BY <2>2, <2>3
<1> QED  BY <1>1, <1>5, <1>6, <1>7, <1>8, <1>9, <1>10

(* INSERT ... ON CONFLICT: the transaction gets the lock, and a row that   *)
(* is committed or one of its own with a fresh ID.                         *)
LEMMA UpsertKeeps ==
    ASSUME StoreInv, NEW w \in Writers, Upsert(w)
    PROVE  StoreInv'
<1> USE DEF StoreInv
<1> DEFINE m == tx[w].msg
           l == LabelsOf[m]
           old == {r \in series : r.labels = l}
           new == IF old = {} THEN {[id |-> NextID, labels |-> l]} ELSE {}
<1>0. tx[w] \in Tx /\ m \in Messages /\ l \in Labels
  BY LabelsType DEF Upsert, StoreTypeOK, Tx
<1>1. PICK r \in old \union new :
         tx' = [tx EXCEPT ![w].step = "sample", ![w].id = r.id, ![w].new = new]
  BY DEF Upsert
<1>2. /\ tx[w] # None /\ tx[w].step = "upsert"
      /\ lock[l] = None
      /\ lock' = [lock EXCEPT ![l] = w]
      /\ UNCHANGED <<schema, stage, now, handed, series, samples, inserted, faults, again>>
  BY DEF Upsert
<1>3. /\ NextID \in Nat
      /\ \A q \in series : q.id # NextID
      /\ \A v \in Writers : tx[v] # None => \A q \in tx[v].new : q.id # NextID
  BY NextIDFresh DEF AllRows
<1>4. /\ r \in SeriesRow
      /\ r = [id |-> r.id, labels |-> l]
      /\ new \subseteq SeriesRow
      /\ \/ new = {} /\ r \in series
         \/ /\ new = {r} /\ r.id = NextID
            /\ \A q \in series : q.labels # l
  BY <1>0, <1>3 DEF StoreTypeOK, SeriesRow
<1> DEFINE t == [tx[w] EXCEPT !.step = "sample", !.id = r.id, !.new = new]
<1> HIDE DEF new, old
<1>5. /\ t \in Tx
      /\ t.step = "sample" /\ t.id = r.id /\ t.new = new /\ t.msg = m
  BY <1>0, <1>4 DEF Tx, SeriesRow
<1>6. tx' = [tx EXCEPT ![w] = t]
  BY <1>1
<1> HIDE DEF t
<1>7. t # None /\ tx'[w] = t /\ \A v \in Writers : v # w => tx'[v] = tx[v]
  BY <1>5, <1>6, TxAssumption DEF StoreTypeOK
<1>8. StoreTypeOK'
  BY <1>0, <1>2, <1>5, <1>6 DEF StoreTypeOK
<1>9. lock'[l] = w /\ \A k \in Labels : k # l => lock'[k] = lock[k]
  BY <1>0, <1>2 DEF StoreTypeOK
<1>10. \A v \in Writers : TxInv(v)'
  <2> TAKE v \in Writers
  <2>1. CASE v = w
    <3>1. Row(w)' = r
      BY <1>4, <1>5, <1>7 DEF Row
    <3> QED  BY <1>2, <1>3, <1>4, <1>5, <1>7, <1>9, <2>1, <3>1 DEF TxInv
  <2>2. CASE v # w
    <3>1. TxInv(v) /\ tx'[v] = tx[v]
      BY <1>7, <2>2
    <3>2. ASSUME tx[v] # None, tx[v].step # "upsert"
          PROVE  lock'[LabelsOf[tx[v].msg]] = v
      <4>1. LabelsOf[tx[v].msg] \in Labels /\ lock[LabelsOf[tx[v].msg]] = v /\ v # None
        BY <3>1, <3>2, LabelsType, TelemetryAssumption DEF TxInv, StoreTypeOK, Tx
      <4> QED  BY <1>2, <1>9, <4>1
    <3> QED  BY <1>2, <3>1, <3>2 DEF TxInv, Row
  <2> QED  BY <2>1, <2>2
<1>11. FreshIDs'
  <2> SUFFICES ASSUME NEW v \in Writers, v # w, tx[v] # None, tx[v].new # {}, new # {}
               PROVE  tx[v].id # r.id
    BY <1>5, <1>7 DEF FreshIDs
  <2>1. tx[v].new = {Row(v)}
    BY DEF TxInv
  <2>2. tx[v].id # NextID
    <3>1. Row(v) \in tx[v].new
      BY <2>1
    <3>2. Row(v).id # NextID
      BY <1>3, <3>1
    <3> QED  BY <3>2 DEF Row
  <2> QED  BY <1>4, <2>2
<1>12. OneSeries' /\ SampleInv'
  BY <1>2 DEF OneSeries, SampleInv
<1>13. WaitsEnd'
  <2> SUFFICES ASSUME NEW k \in Labels, lock'[k] # None
               PROVE  /\ tx'[lock'[k]] # None
                      /\ tx'[lock'[k]].step # "upsert"
                      /\ LabelsOf[tx'[lock'[k]].msg] = k
    BY DEF WaitsEnd
  <2>1. CASE k = l
    BY <1>5, <1>7, <1>9, <2>1
  <2>2. CASE k # l
    <3>1. lock'[k] = lock[k] /\ lock[k] \in Writers
      BY <1>9, <2>2 DEF StoreTypeOK
    <3>2. tx[lock[k]] # None /\ tx[lock[k]].step # "upsert" /\ LabelsOf[tx[lock[k]].msg] = k
      BY <3>1 DEF WaitsEnd
    <3>3. lock[k] # w
      BY <1>2, <3>2
    <3> QED  BY <1>7, <3>1, <3>2, <3>3
  <2> QED  BY <2>1, <2>2
<1>14. \A n \in Messages : CountInv(n)'
  <2> TAKE n \in Messages
  <2>1. Copies(n)' = Copies(n) /\ handed'[n] = handed[n]
    BY <1>2 DEF Copies
  <2>2. Live(n)' = Live(n)
    BY <1>2, <1>5, <1>7 DEF Live
  <2> QED  BY <1>2, <2>1, <2>2 DEF CountInv
<1> QED  BY <1>2, <1>8, <1>10, <1>11, <1>12, <1>13, <1>14

(* INSERT INTO telemetry_samples.                                          *)
LEMMA InsertSampleKeeps ==
    ASSUME StoreInv, NEW w \in Writers, InsertSample(w)
    PROVE  StoreInv'
<1> USE DEF StoreInv
<1> DEFINE s == [series |-> tx[w].id, at |-> RecordedAt(tx[w].msg), msg |-> tx[w].msg]
           t == [tx[w] EXCEPT !.step = "commit", !.sample = s]
<1>0. tx[w] \in Tx /\ tx[w].msg \in Messages /\ tx[w].id \in Nat
  BY DEF InsertSample, StoreTypeOK, Tx
<1>1. /\ tx[w] # None /\ tx[w].step = "sample"
      /\ tx' = [tx EXCEPT ![w] = t]
      /\ UNCHANGED <<schema, stage, now, handed, series, samples, lock, inserted, faults, again>>
  BY DEF InsertSample
<1>2. s \in Sample
  BY <1>0, RecordedAtType DEF Sample
<1> HIDE DEF s
<1>3. /\ t \in Tx /\ t.step = "commit" /\ t.sample = s
      /\ t.id = tx[w].id /\ t.new = tx[w].new /\ t.msg = tx[w].msg
  BY <1>0, <1>2 DEF Tx
<1> HIDE DEF t
<1>4. t # None /\ tx'[w] = t /\ \A v \in Writers : v # w => tx'[v] = tx[v]
  BY <1>1, <1>3, TxAssumption DEF StoreTypeOK
<1>5. StoreTypeOK'
  BY <1>1, <1>3 DEF StoreTypeOK
<1>6. \A v \in Writers : TxInv(v)'
  <2> TAKE v \in Writers
  <2>1. CASE v = w
    <3>1. Row(w)' = Row(w)
      BY <1>3, <1>4 DEF Row
    <3> QED  BY <1>1, <1>3, <1>4, <2>1, <3>1 DEF TxInv, s
  <2>2. CASE v # w
    <3>1. TxInv(v) /\ tx'[v] = tx[v]
      BY <1>4, <2>2
    <3> QED  BY <1>1, <3>1 DEF TxInv, Row
  <2> QED  BY <2>1, <2>2
<1>7. FreshIDs'
  BY <1>1, <1>3, <1>4 DEF FreshIDs
<1>8. OneSeries' /\ SampleInv'
  BY <1>1 DEF OneSeries, SampleInv
<1>9. WaitsEnd'
  BY <1>1, <1>3, <1>4 DEF WaitsEnd, StoreTypeOK
<1>10. \A n \in Messages : CountInv(n)'
  <2> TAKE n \in Messages
  <2>1. Copies(n)' = Copies(n) /\ handed'[n] = handed[n]
    BY <1>1 DEF Copies
  <2>2. Live(n)' = Live(n)
    BY <1>1, <1>3, <1>4 DEF Live
  <2> QED  BY <1>1, <2>1, <2>2 DEF CountInv
<1> QED  BY <1>1, <1>5, <1>6, <1>7, <1>8, <1>9, <1>10

(* The end of a transaction releases its lock and no other.                *)
LEMMA UnlockEffect ==
    ASSUME StoreInv, NEW w \in Writers, Unlock(w)
    PROVE  /\ lock' \in [Labels -> Writers \union {None}]
           /\ \A l \in Labels : lock'[l] # None => lock'[l] = lock[l] /\ lock[l] # w
           /\ \A l \in Labels : lock[l] # w => lock'[l] = lock[l]
  BY DEF StoreInv, StoreTypeOK, Unlock

(* What the transactions of the others, and the locks, look like when the  *)
(* one of w is over.                                                       *)
LEMMA EndOfTx ==
    ASSUME StoreInv, NEW w \in Writers, Unlock(w), tx' = [tx EXCEPT ![w] = None]
    PROVE  /\ tx' \in [Writers -> Tx \union {None}]
           /\ tx'[w] = None
           /\ \A v \in Writers : v # w => tx'[v] = tx[v]
           /\ FreshIDs'
           /\ WaitsEnd'
           /\ \A v \in Writers : v # w /\ tx[v] # None /\ tx[v].step # "upsert" =>
                 lock'[LabelsOf[tx[v].msg]] = v
<1> USE DEF StoreInv
<1>1. tx'[w] = None /\ \A v \in Writers : v # w => tx'[v] = tx[v]
  BY DEF StoreTypeOK
<1>2. tx' \in [Writers -> Tx \union {None}]
  BY DEF StoreTypeOK
<1>3. FreshIDs'
  BY <1>1 DEF FreshIDs
<1>4. WaitsEnd'
  <2> SUFFICES ASSUME NEW k \in Labels, lock'[k] # None
               PROVE  /\ tx'[lock'[k]] # None
                      /\ tx'[lock'[k]].step # "upsert"
                      /\ LabelsOf[tx'[lock'[k]].msg] = k
    BY DEF WaitsEnd
  <2>1. lock'[k] = lock[k] /\ lock[k] # w /\ lock[k] \in Writers
    BY UnlockEffect DEF StoreTypeOK
  <2> QED  BY <1>1, <2>1 DEF WaitsEnd
<1>5. ASSUME NEW v \in Writers, v # w, tx[v] # None, tx[v].step # "upsert"
      PROVE  lock'[LabelsOf[tx[v].msg]] = v
  <2>1. LabelsOf[tx[v].msg] \in Labels
    BY <1>5, LabelsType DEF StoreTypeOK, Tx
  <2>2. lock[LabelsOf[tx[v].msg]] = v
    BY <1>5 DEF TxInv
  <2> QED  BY <1>5, <2>1, <2>2, UnlockEffect
<1> QED  BY <1>1, <1>2, <1>3, <1>4, <1>5

(* A transaction is undone.                                                *)
LEMMA RollbackKeeps ==
    ASSUME StoreInv, NEW w \in Writers, Rollback(w)
    PROVE  StoreInv'
<1> USE DEF StoreInv
<1>1. /\ tx[w] # None /\ Unlock(w) /\ tx' = [tx EXCEPT ![w] = None]
      /\ UNCHANGED <<schema, stage, now, handed, series, samples, inserted, again>>
      /\ faults' \in 0..MaxFaults
  BY TelemetryAssumption DEF Rollback, Fault, StoreTypeOK
<1>2. StoreTypeOK'
  BY <1>1, EndOfTx, UnlockEffect DEF StoreTypeOK
<1>3. \A v \in Writers : TxInv(v)'
  <2> TAKE v \in Writers
  <2>1. CASE v = w
    BY <1>1, <2>1, EndOfTx DEF TxInv
  <2>2. CASE v # w
    <3>1. TxInv(v) /\ tx'[v] = tx[v]
      BY <1>1, <2>2, EndOfTx
    <3>2. tx[v] # None /\ tx[v].step # "upsert" => lock'[LabelsOf[tx[v].msg]] = v
      BY <1>1, <2>2, EndOfTx
    <3> QED  BY <1>1, <3>1, <3>2 DEF TxInv, Row
  <2> QED  BY <2>1, <2>2
<1>4. FreshIDs' /\ WaitsEnd'
  BY <1>1, EndOfTx
<1>5. OneSeries' /\ SampleInv'
  BY <1>1 DEF OneSeries, SampleInv
<1>6. \A n \in Messages : CountInv(n)'
  <2> TAKE n \in Messages
  <2>1. Copies(n)' = Copies(n) /\ handed'[n] = handed[n]
    BY <1>1 DEF Copies
  <2>2. Live(n)' \in SUBSET Live(n)
    BY <1>1, EndOfTx DEF Live
  <2>3. Cardinality(Live(n)') <= Cardinality(Live(n)) /\ Cardinality(Live(n)') \in Nat
    BY <2>2, CountFinite, FS_Subset, FS_CardinalityType
  <2>4. handed[n] \in Nat
    BY DEF StoreTypeOK
  <2> QED  BY <1>1, <2>1, <2>3, <2>4, CountFinite DEF CountInv
<1> QED  BY <1>1, <1>2, <1>3, <1>4, <1>5, <1>6

(* A commit takes effect, whether or not its answer comes.                 *)
LEMMA CommitKeeps ==
    ASSUME StoreInv, NEW w \in Writers, Commit(w) \/ CommitUnknown(w)
    PROVE  StoreInv'
<1> USE DEF StoreInv
<1> DEFINE m == tx[w].msg
           l == LabelsOf[m]
           s == tx[w].sample
           n == Len(samples)
<1>0. tx[w] \in Tx /\ m \in Messages /\ l \in Labels /\ tx[w].new \subseteq SeriesRow
  BY LabelsType DEF Commit, CommitUnknown, Apply, StoreTypeOK, Tx
<1>1. /\ tx[w] # None /\ tx[w].step = "commit"
      /\ series' = series \union tx[w].new
      /\ samples' = Append(samples, s)
      /\ Unlock(w)
      /\ tx' = [tx EXCEPT ![w] = None]
      /\ inserted \subseteq inserted' /\ inserted' \subseteq inserted \union {m}
      /\ UNCHANGED <<schema, stage, now, handed, again>>
      /\ faults' \in 0..MaxFaults
  BY TelemetryAssumption DEF Commit, CommitUnknown, Apply, Fault, StoreTypeOK
<1>2. /\ s = [series |-> tx[w].id, at |-> RecordedAt(m), msg |-> m]
      /\ lock[l] = w
      /\ \/ tx[w].new = {} /\ Row(w) \in series
         \/ /\ tx[w].new = {Row(w)}
            /\ \A r \in series : r.id # Row(w).id /\ r.labels # Row(w).labels
  BY <1>1 DEF TxInv
<1>3. s \in Sample
  BY <1>0, <1>2, RecordedAtType DEF Sample, Tx
<1> HIDE DEF s
<1>4. /\ samples' \in Seq(Sample) /\ n \in Nat
      /\ DOMAIN samples = 1..n /\ DOMAIN samples' = 1..(n + 1)
      /\ samples'[n + 1] = s
      /\ \A i \in 1..n : samples'[i] = samples[i]
  BY <1>1, <1>3 DEF StoreTypeOK
<1>5. StoreTypeOK'
  BY <1>0, <1>1, <1>4, EndOfTx, UnlockEffect DEF StoreTypeOK
<1>6. IsFiniteSet(series')
  <2>1. IsFiniteSet(tx[w].new)
    <3>1. IsFiniteSet({}) /\ IsFiniteSet({Row(w)})
      BY FS_EmptySet, FS_Singleton
    <3> QED  BY <1>2, <3>1
  <2> QED  BY <1>1, <2>1, FS_Union
<1>7. \A v \in Writers : TxInv(v)'
  <2> TAKE v \in Writers
  <2>1. CASE v = w
    BY <1>1, <2>1, EndOfTx DEF TxInv
  <2>2. CASE v # w
    <3>1. TxInv(v) /\ tx'[v] = tx[v] /\ Row(v)' = Row(v)
      BY <1>1, <2>2, EndOfTx DEF Row
    <3>2. ASSUME tx[v] # None, tx[v].step # "upsert"
          PROVE  /\ lock'[LabelsOf[tx[v].msg]] = v
                 /\ \/ tx[v].new = {} /\ Row(v) \in series'
                    \/ /\ tx[v].new = {Row(v)}
                       /\ \A r \in series' : r.id # Row(v).id /\ r.labels # Row(v).labels
      <4>1. lock'[LabelsOf[tx[v].msg]] = v
        BY <1>1, <2>2, <3>2, EndOfTx
      <4>2. LabelsOf[tx[v].msg] # l
        BY <1>2, <2>2, <3>1, <3>2 DEF TxInv
      <4>3. CASE tx[v].new = {} /\ Row(v) \in series
        BY <1>1, <4>1, <4>3
      <4>4. CASE /\ tx[v].new = {Row(v)}
                 /\ \A r \in series : r.id # Row(v).id /\ r.labels # Row(v).labels
        <5>1. Row(w).labels # Row(v).labels
          BY <4>2 DEF Row
        <5>2. tx[w].new # {} => Row(w).id # Row(v).id
          BY <1>1, <2>2, <3>2, <4>4 DEF FreshIDs, Row
        <5>3. \A r \in tx[w].new : r = Row(w)
          BY <1>2
        <5>4. \A r \in series' : r.id # Row(v).id /\ r.labels # Row(v).labels
          BY <1>1, <4>4, <5>1, <5>2, <5>3
        <5> QED  BY <4>1, <4>4, <5>4
      <4> QED  BY <3>1, <3>2, <4>3, <4>4 DEF TxInv
    <3> QED  BY <1>1, <3>1, <3>2 DEF TxInv
  <2> QED  BY <2>1, <2>2
<1>8. FreshIDs' /\ WaitsEnd'
  BY <1>1, EndOfTx
<1>9. OneSeries'
  <2>1. \A r, q \in series' : r.labels = q.labels \/ r.id = q.id => r = q
    BY <1>1, <1>2 DEF OneSeries
  <2>2. Row(w) \in series'
    BY <1>1, <1>2
  <2>3. \A i \in 1..(n + 1) :
           [id |-> samples'[i].series, labels |-> LabelsOf[samples'[i].msg]] \in series'
    <3> TAKE i \in 1..(n + 1)
    <3>1. CASE i = n + 1
      BY <1>2, <1>4, <2>2, <3>1 DEF Row
    <3>2. CASE i \in 1..n
      BY <1>1, <1>4, <3>2 DEF OneSeries
    <3> QED  BY <1>4, <3>1, <3>2
  <2> QED  BY <1>4, <2>1, <2>3 DEF OneSeries
<1>10. SampleInv'
  <2>1. \A i \in 1..(n + 1) :
           samples'[i].at = RecordedAt(samples'[i].msg)
    <3> TAKE i \in 1..(n + 1)
    <3>1. CASE i = n + 1
      BY <1>2, <1>4, <3>1
    <3>2. CASE i \in 1..n
      BY <1>4, <3>2 DEF SampleInv
    <3> QED  BY <1>4, <3>1, <3>2
  <2> QED  BY <1>1, <1>4, <2>1 DEF SampleInv, RecordedAt
<1>11. \A k \in Messages : CountInv(k)'
  <2> TAKE k \in Messages
  <2>0. handed'[k] = handed[k] /\ handed[k] \in Nat
    BY <1>1 DEF StoreTypeOK
  <2>1. CASE k = m
    <3>1. Copies(k)' = Copies(k) \union {n + 1} /\ n + 1 \notin Copies(k)
      BY <1>2, <1>4, <2>1 DEF Copies
    <3>2. Live(k)' = Live(k) \ {w} /\ w \in Live(k)
      BY <1>1, <2>1, EndOfTx DEF Live
    <3>3. Cardinality(Copies(k)') = Cardinality(Copies(k)) + 1
      BY <3>1, CountFinite, FS_AddElement
    <3>4. Cardinality(Live(k)') = Cardinality(Live(k)) - 1
      BY <3>2, CountFinite, FS_RemoveElement
    <3>5. Copies(k)' # {}
      BY <3>1
    <3> QED  BY <1>1, <2>0, <3>3, <3>4, <3>5, CountFinite DEF CountInv
  <2>2. CASE k # m
    <3>1. Copies(k)' = Copies(k)
      BY <1>2, <1>4, <2>2 DEF Copies
    <3>2. Live(k)' = Live(k)
      BY <1>1, <2>2, EndOfTx DEF Live
    <3>3. k \in inserted' => k \in inserted
      BY <1>1, <2>2
    <3> QED  BY <1>1, <2>0, <3>1, <3>2, <3>3 DEF CountInv
  <2> QED  BY <2>1, <2>2
<1> QED  BY <1>1, <1>5, <1>6, <1>7, <1>8, <1>9, <1>10, <1>11

(* Every step of the store keeps its invariant.                            *)
LEMMA StoreStep ==
    ASSUME StoreInv, StoreNext
    PROVE  StoreInv'
<1>1. CASE \E p \in Processes : Statement(p) \/ OpenFails(p)
  BY <1>1, OpenKeeps
<1>2. CASE Tick
  BY <1>2, OpenKeeps
<1>3. CASE \E w \in Writers, m \in Messages : BeginTx(w, m)
  BY <1>3, BeginTxKeeps
<1>4. CASE \E w \in Writers : InsertStep(w)
  BY <1>4, UpsertKeeps, InsertSampleKeeps, CommitKeeps DEF InsertStep
<1>5. CASE \E w \in Writers : CommitUnknown(w)
  BY <1>5, CommitKeeps
<1>6. CASE \E w \in Writers : Rollback(w)
  BY <1>6, RollbackKeeps
<1> QED  BY <1>1, <1>2, <1>3, <1>4, <1>5, <1>6 DEF StoreNext

(* A message is stored at most once for each time it was handed out.       *)
LEMMA CopiesBound == StoreInv => CopiesExplained
<1> SUFFICES ASSUME StoreInv, NEW m \in Messages
             PROVE  /\ Cardinality(Copies(m)) <= handed[m]
                    /\ m \in inserted => Copies(m) # {}
  BY DEF CopiesExplained
<1>1. handed[m] \in Nat /\ CountInv(m)
  BY DEF StoreInv, StoreTypeOK
<1> QED  BY <1>1, CountFinite DEF CountInv
=============================================================================
