--------------------------- MODULE TelemetryStore ---------------------------
(***************************************************************************)
(* telemetry.Store on Postgres: OpenStore, which every processor and every *)
(* API process runs at its start and again after each failure, and Insert, *)
(* one transaction of two statements that processors run at the same time. *)
(* Postgres is seen through what the statements rely on: a row that an     *)
(* open transaction has written is locked for the others, what it wrote    *)
(* shows at its commit, and a commit may take effect although its answer   *)
(* is lost.  Time is counted in ticks, TicksPerSecond of them a second.    *)
(***************************************************************************)
EXTENDS Integers, Sequences, FiniteSets, Functions

CONSTANTS
    Writers,         \* processors
    Servers,         \* API processes
    Messages,        \* telemetry messages
    LabelsOf,        \* LabelsOf[m]: the columns of telemetry_series for m
    MadeAt,          \* MadeAt[m]: when a streamer makes message m
    ValueOf,         \* ValueOf[m]: "number", "nan" (NaN, an infinity), or "bad"
    None,            \* nil
    TicksPerSecond,
    MaxTime,         \* bound: ticks
    MaxFaults,       \* bound: failing calls to Postgres
    MaxRedeliveries  \* bound: messages the queue hands out again

ASSUME TelemetryAssumption ==
    /\ Writers \intersect Servers = {}
    /\ IsFiniteSet(Writers)
    /\ DOMAIN LabelsOf = Messages
    /\ ValueOf \in [Messages -> {"number", "nan", "bad"}]
    /\ TicksPerSecond \in Nat \ {0}
    /\ MaxTime \in Nat
    /\ MadeAt \in [Messages -> 0..MaxTime]
    /\ MaxFaults \in Nat
    /\ MaxRedeliveries \in Nat
    /\ None \notin Messages \union Writers \union Range(LabelsOf)

VARIABLES
    schema,     \* the tables and indexes that exist
    stage,      \* stage[p]: the statement of init that process p runs next
    now,        \* the time
    handed,     \* handed[m]: how often the queue gave message m to a processor
    series,     \* telemetry_series: committed rows
    samples,    \* telemetry_samples: committed rows, in the order of commit
    lock,       \* lock[l]: the transaction that has written the row of l, or None
    tx,         \* tx[w]: the Insert of processor w, or None
    inserted,   \* messages whose Insert returned nil (history)
    faults,     \* failed calls so far
    again       \* how often it gave out any message again

dbVars == <<series, samples, lock, tx, inserted>>
storeVars == <<schema, stage, now, handed, dbVars, faults, again>>

Processes == Writers \union Servers
Labels == Range(LabelsOf)

(* The statements of init: what each creates and what it needs.  The five  *)
(* statements for the indexes stand for one.                               *)
Statements == <<
    [makes |-> "telemetry_series", needs |-> {}],
    [makes |-> "telemetry_samples", needs |-> {"telemetry_series"}],
    [makes |-> "indexes", needs |-> {"telemetry_series", "telemetry_samples"}] >>

Schema == {Statements[i].makes : i \in DOMAIN Statements}
Ready(p) == stage[p] > Len(Statements)

SeriesRow == [id : Nat, labels : Labels]
Sample == [series : Nat, at : Nat, msg : Messages]
Tx == [step : {"upsert", "sample", "commit"}, msg : Messages,
       id : Nat, new : SUBSET SeriesRow, sample : Sample \union {None}]

ASSUME TxAssumption == None \notin Tx

StoreTypeOK ==
    /\ schema \subseteq Schema
    /\ stage \in [Processes -> 1..(Len(Statements) + 1)]
    /\ now \in 0..MaxTime
    /\ handed \in [Messages -> Nat]
    /\ series \subseteq SeriesRow
    /\ samples \in Seq(Sample)
    /\ lock \in [Labels -> Writers \union {None}]
    /\ tx \in [Writers -> Tx \union {None}]
    /\ inserted \subseteq Messages
    /\ faults \in 0..MaxFaults
    /\ again \in 0..MaxRedeliveries

StoreInit ==
    /\ schema = {}
    /\ stage = [p \in Processes |-> 1]
    /\ now = 0
    /\ handed = [m \in Messages |-> 0]
    /\ series = {}
    /\ samples = <<>>
    /\ lock = [l \in Labels |-> None]
    /\ tx = [w \in Writers |-> None]
    /\ inserted = {}
    /\ faults = 0
    /\ again = 0

Fault ==
    /\ faults < MaxFaults
    /\ faults' = faults + 1

-----------------------------------------------------------------------------
(* OpenStore.                                                              *)

M_StatementPlainCreate(p) ==
    /\ ~Ready(p)
    /\ Statements[stage[p]].needs \subseteq schema
    /\ Statements[stage[p]].makes \notin schema
    /\ schema' = schema \union {Statements[stage[p]].makes}
    /\ stage' = [stage EXCEPT ![p] = @ + 1]
    /\ UNCHANGED <<now, handed, dbVars, faults, again>>

(* init: the next CREATE ... IF NOT EXISTS of process p.                   *)
Statement(p) ==
    /\ ~Ready(p)
    /\ Statements[stage[p]].needs \subseteq schema
    /\ schema' = schema \union {Statements[stage[p]].makes}
    /\ stage' = [stage EXCEPT ![p] = @ + 1]
    /\ UNCHANGED <<now, handed, dbVars, faults, again>>

(* The ping or a statement fails, also because another process is creating *)
(* the same object: OpenStore returns the error, the process exits and is  *)
(* started again.                                                          *)
OpenFails(p) ==
    /\ ~Ready(p)
    /\ Fault
    /\ stage' = [stage EXCEPT ![p] = 1]
    /\ UNCHANGED <<schema, now, handed, dbVars, again>>

-----------------------------------------------------------------------------
Tick ==
    /\ now < MaxTime
    /\ now' = now + 1
    /\ UNCHANGED <<schema, stage, handed, dbVars, faults, again>>

(* Record.WithTimestamp: the time is formatted as RFC 3339, in seconds.    *)
RecordedAt(m) == MadeAt[m] - (MadeAt[m] % TicksPerSecond)

Parses(m) == ValueOf[m] # "bad"

-----------------------------------------------------------------------------
(* Insert.                                                                 *)

(* A processor is given message m and Insert begins a transaction, unless  *)
(* the value does not parse.  The queue hands a message out once, and      *)
(* again only when it has forgotten the delivery.                          *)
BeginTx(w, m) ==
    /\ Ready(w)
    /\ tx[w] = None
    /\ MadeAt[m] <= now
    /\ Parses(m)
    /\ IF handed[m] > 0
       THEN again < MaxRedeliveries /\ again' = again + 1
       ELSE UNCHANGED again
    /\ handed' = [handed EXCEPT ![m] = @ + 1]
    /\ tx' = [tx EXCEPT ![w] = [step |-> "upsert", msg |-> m, id |-> 0,
                                new |-> {}, sample |-> None]]
    /\ UNCHANGED <<schema, stage, now, series, samples, lock, inserted, faults>>

(* The BIGSERIAL sequence of telemetry_series gives a number that no row   *)
(* has.  The numbers it uses up when there is no row to insert or the      *)
(* transaction is undone are left out.                                     *)
NextID ==
    LET rows == series \union UNION {tx[w].new : w \in {v \in Writers : tx[v] # None}}
    IN CHOOSE i \in 1..(Cardinality(rows) + 1) : \A r \in rows : r.id # i

M_UpsertNoConflict(w) ==
    /\ tx[w] # None
    /\ tx[w].step = "upsert"
    /\ LET l == LabelsOf[tx[w].msg]
           row == [id |-> NextID, labels |-> l]
       IN /\ lock' = [lock EXCEPT ![l] = w]
          /\ tx' = [tx EXCEPT ![w].step = "sample", ![w].id = row.id, ![w].new = {row}]
    /\ UNCHANGED <<schema, stage, now, handed, series, samples, inserted, faults, again>>

(* INSERT ... ON CONFLICT DO UPDATE ... RETURNING id: waits for a          *)
(* transaction that has written the row, then gives the ID of the row that *)
(* is there or of a new one.                                               *)
Upsert(w) ==
    /\ tx[w] # None
    /\ tx[w].step = "upsert"
    /\ LET l == LabelsOf[tx[w].msg]
           old == {r \in series : r.labels = l}
           new == IF old = {} THEN {[id |-> NextID, labels |-> l]} ELSE {}
       IN /\ lock[l] = None
          /\ lock' = [lock EXCEPT ![l] = w]
          /\ \E r \in old \union new :
                tx' = [tx EXCEPT ![w].step = "sample", ![w].id = r.id, ![w].new = new]
    /\ UNCHANGED <<schema, stage, now, handed, series, samples, inserted, faults, again>>

(* INSERT INTO telemetry_samples.                                          *)
InsertSample(w) ==
    /\ tx[w] # None
    /\ tx[w].step = "sample"
    /\ tx' = [tx EXCEPT ![w].step = "commit",
                        ![w].sample = [series |-> tx[w].id, at |-> RecordedAt(tx[w].msg),
                                       msg |-> tx[w].msg]]
    /\ UNCHANGED <<schema, stage, now, handed, series, samples, lock,
                   inserted, faults, again>>

Unlock(w) == lock' = [l \in Labels |-> IF lock[l] = w THEN None ELSE lock[l]]

(* What a commit makes visible.                                            *)
Apply(w) ==
    /\ tx[w] # None
    /\ tx[w].step = "commit"
    /\ series' = series \union tx[w].new
    /\ samples' = Append(samples, tx[w].sample)
    /\ Unlock(w)

(* Commit succeeds: Insert returns nil.                                    *)
Commit(w) ==
    /\ Apply(w)
    /\ tx' = [tx EXCEPT ![w] = None]
    /\ inserted' = inserted \union {tx[w].msg}
    /\ UNCHANGED <<schema, stage, now, handed, faults, again>>

M_CommitRetried(w) ==
    /\ Apply(w)
    /\ Fault
    /\ tx' = [tx EXCEPT ![w].step = "upsert", ![w].new = {}]
    /\ UNCHANGED <<schema, stage, now, handed, inserted, again>>

(* The commit takes effect and its answer is lost: Insert returns an error *)
(* and the message is not acknowledged.                                    *)
CommitUnknown(w) ==
    /\ Apply(w)
    /\ Fault
    /\ tx' = [tx EXCEPT ![w] = None]
    /\ UNCHANGED <<schema, stage, now, handed, inserted, again>>

M_RollbackMissing(w) ==
    /\ tx[w] # None
    /\ Fault
    /\ tx' = [tx EXCEPT ![w] = None]
    /\ UNCHANGED <<schema, stage, now, handed, series, samples, lock, inserted, again>>

(* A statement fails, the context ends or the processor stops: the         *)
(* deferred Rollback, or Postgres when the connection is gone, undoes the  *)
(* transaction.                                                            *)
Rollback(w) ==
    /\ tx[w] # None
    /\ Fault
    /\ Unlock(w)
    /\ tx' = [tx EXCEPT ![w] = None]
    /\ UNCHANGED <<schema, stage, now, handed, series, samples, inserted, again>>

InsertStep(w) == Upsert(w) \/ InsertSample(w) \/ Commit(w)

StoreNext ==
    \/ \E p \in Processes : Statement(p) \/ OpenFails(p)
    \/ Tick
    \/ \E w \in Writers, m \in Messages : BeginTx(w, m)
    \/ \E w \in Writers : InsertStep(w) \/ CommitUnknown(w) \/ Rollback(w)

-----------------------------------------------------------------------------
(* Properties.                                                             *)

(* However inserts of the same series overlap, fail and are repeated, each *)
(* set of labels has one row in telemetry_series, and every sample refers  *)
(* to the row with the labels of its message: the join loses and doubles   *)
(* nothing.                                                                *)
OneSeries ==
    /\ \A r, q \in series : r.labels = q.labels \/ r.id = q.id => r = q
    /\ \A i \in DOMAIN samples :
          [id |-> samples[i].series, labels |-> LabelsOf[samples[i].msg]] \in series

Copies(m) == {i \in DOMAIN samples : samples[i].msg = m}

(* Insert does not look for a sample that is there already, and a lost     *)
(* answer to a commit leaves the sample in place: still, a message is      *)
(* stored at most once for each time the queue hands that message out, and *)
(* at least once when its Insert returned nil.                             *)
CopiesExplained ==
    \A m \in Messages :
        /\ Cardinality(Copies(m)) <= handed[m]
        /\ m \in inserted => Copies(m) # {}

(* An upsert waits only for a transaction that has its own row already and *)
(* waits for nothing: no cycle of waiting inserts, and no lock that is     *)
(* left behind by an Insert that failed.                                   *)
WaitsEnd ==
    \A l \in Labels : lock[l] # None =>
        /\ tx[lock[l]] # None
        /\ tx[lock[l]].step # "upsert"
        /\ LabelsOf[tx[lock[l]].msg] = l

(* A process that starts while others create the schema, or starts again   *)
(* after it failed half way, finds its next statement able to run.         *)
OpensAgain ==
    \A p \in Processes : Ready(p) \/ ENABLED Statement(p)
=============================================================================
