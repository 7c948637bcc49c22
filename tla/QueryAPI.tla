------------------------------ MODULE QueryAPI ------------------------------
(***************************************************************************)
(* The API process over the telemetry store: the handlers behind newMux,   *)
(* the parsing of their parameters, and the SQL of Query and ListGPUs.  A  *)
(* request goes through steps: the handler reads its parameters and the    *)
(* clock, its statement sees what is committed at that later moment, and   *)
(* the rows are encoded and sent.                                          *)
(***************************************************************************)
EXTENDS TelemetryStore, HTTPMetrics

CONSTANTS
    Requests,     \* the requests clients send
    ZeroTime,     \* time.Time{}: the first instant of the year 1
    GPURank,      \* GPURank[l]: the GPU of labels l in the order of ListGPUs
    Absent,       \* the value of a parameter that is not given
    Invalid       \* a value that does not parse

VARIABLE
    req       \* req[s]: the request API process s is serving, or None

vars == <<storeVars, req>>

Filters == {"metric_name", "uuid", "hostname", "gpu_id", "device"}

-----------------------------------------------------------------------------
(* Parameters.                                                             *)

Get(r, name) == IF name \in DOMAIN r.query THEN r.query[name] ELSE Absent

(* A request has a method and a path; times and limits are integers, if    *)
(* they parse.                                                             *)
ASSUME QueryAssumption ==
    /\ ZeroTime \in Int
    /\ GPURank \in [Labels -> Nat]
    /\ {None, Absent, Invalid} \intersect Int = {}
    /\ \A r \in Requests : r.method \in Methods /\ r.path \in Paths
    /\ \A r \in Requests :
          \A name \in {"window", "start", "start_time", "end", "end_time", "limit"} :
             Get(r, name) \in Int \union {Absent, Invalid}

FirstQueryValue(r, primary, fallback) ==
    IF Get(r, primary) # Absent THEN Get(r, primary) ELSE Get(r, fallback)

IsTime(v) == v \notin {Absent, Invalid}

M_TimeWindowSwapped(r, startNames, endNames) ==
    LET window == Get(r, "window")
        start == FirstQueryValue(r, startNames[1], startNames[2])
        end == FirstQueryValue(r, endNames[1], endNames[2])
        until == IF end = Absent THEN now ELSE end
    IN IF window # Absent
       THEN IF start # Absent \/ window = Invalid \/ ~IsTime(until) THEN None
            ELSE IF window <= 0 THEN None ELSE [from |-> until, to |-> until - window]
       ELSE IF IsTime(start) /\ IsTime(end) THEN [from |-> start, to |-> end] ELSE None

(* parseTimeWindow: a window that ends now or at a given end, or a start   *)
(* and an end; None stands for 400.                                        *)
ParseTimeWindow(r, startNames, endNames) ==
    LET window == Get(r, "window")
        start == FirstQueryValue(r, startNames[1], startNames[2])
        end == FirstQueryValue(r, endNames[1], endNames[2])
        until == IF end = Absent THEN now ELSE end
    IN IF window # Absent
       THEN IF start # Absent \/ window = Invalid \/ ~IsTime(until) THEN None
            ELSE IF window <= 0 THEN None ELSE [from |-> until - window, to |-> until]
       ELSE IF IsTime(start) /\ IsTime(end) THEN [from |-> start, to |-> end] ELSE None

(* parseLimit: 0 is no limit; None stands for 400.                         *)
ParseLimit(r) ==
    LET raw == Get(r, "limit") IN
    IF raw = Absent THEN 0
    ELSE IF raw = Invalid THEN None
    ELSE IF raw < 0 THEN None ELSE raw

-----------------------------------------------------------------------------
(* Statements.                                                             *)

M_SelectedStrict(q) ==
    {i \in DOMAIN samples :
        /\ q.from <= samples[i].at
        /\ samples[i].at < q.to
        /\ \E r \in series :
              /\ r.id = samples[i].series
              /\ \A c \in Filters : q.filter[c] \in {Absent, r.labels[c]}}

M_SelectedAnyGPU(q) ==
    {i \in DOMAIN samples :
        /\ q.from <= samples[i].at
        /\ samples[i].at <= q.to
        /\ \E r \in series :
              /\ r.id = samples[i].series
              /\ \A c \in Filters \ {"uuid"} : q.filter[c] \in {Absent, r.labels[c]}}

(* buildQuery: the samples that meet the clauses, joined to their series.  *)
Selected(q) ==
    {i \in DOMAIN samples :
        /\ q.from <= samples[i].at
        /\ samples[i].at <= q.to
        /\ \E r \in series :
              /\ r.id = samples[i].series
              /\ \A c \in Filters : q.filter[c] \in {Absent, r.labels[c]}}

InOrder(s) == \A i, j \in DOMAIN s : i < j => samples[s[i]].at <= samples[s[j]].at

(* ORDER BY recorded_at, rows of the same time in any order, LIMIT.        *)
Rows(q) ==
    {IF q.limit = 0 THEN s ELSE SubSeq(s, 1, Min({q.limit, Len(s)})) :
        s \in {t \in SetToSeqs(Selected(q)) : InOrder(t)}}

(* ListGPUs: SELECT DISTINCT ... ORDER BY.                                 *)
GPURows ==
    {s \in SetToSeqs({GPURank[r.labels] : r \in series}) :
        \A i, j \in DOMAIN s : i < j => s[i] < s[j]}

-----------------------------------------------------------------------------
(* Handlers.                                                               *)

Querying == {"gpu_telemetry", "telemetry"}

StartNames(r) == IF r.path = "telemetry" THEN <<"start", "start">> ELSE <<"start_time", "start">>
EndNames(r) == IF r.path = "telemetry" THEN <<"end", "end">> ELSE <<"end_time", "end">>

FilterOf(r) ==
    [c \in Filters |-> IF c = "uuid" /\ r.path = "gpu_telemetry" THEN r.id ELSE Get(r, c)]

(* The query of a handler, if its parameters are good.                     *)
QueryOf(r) ==
    LET window == ParseTimeWindow(r, StartNames(r), EndNames(r)) IN
    IF None \in {window, ParseLimit(r)} THEN None
    ELSE [from |-> window.from, to |-> window.to, limit |-> ParseLimit(r),
          filter |-> FilterOf(r)]

Window == [from : Int, to : Int]
Query == [from : Int, to : Int, limit : Nat, filter : {FilterOf(r) : r \in Requests}]

(* A request in hand; stored are the messages inserted before it came      *)
(* (history), broken is that Postgres or the client failed.                *)
Served ==
    [request : Requests, stored : SUBSET Messages, query : Query \union {None},
     status : {0, 200, 400, 404, 405, 500}, rows : Seq(Nat), broken : BOOLEAN]

ASSUME NoRecordAssumption == None \notin Window /\ None \notin Query /\ None \notin Served

(* What the mux and the handlers answer before they come to a statement,   *)
(* or 0.  Paths stand for the routes of newMux: "gpus", "gpu_telemetry",   *)
(* "telemetry", "metrics", "health", "gpus/" and "gpu_other" for any other *)
(* path under /api/v1/gpus/; no route takes the rest.                      *)
Refusal(r) ==
    IF r.path \in {"telemetry/", "metrics/", "other"} THEN 404
    ELSE IF r.method # "GET" THEN 405
    ELSE IF r.path \in {"gpus/", "gpu_other"} THEN 404
    ELSE IF r.path \in Querying /\ QueryOf(r) = None THEN 400
    ELSE 0

(* The middleware notes the time and the handler reads its parameters.     *)
Receive(s, r) ==
    /\ Ready(s)
    /\ req[s] = None
    /\ req' = [req EXCEPT ![s] =
          [request |-> r, stored |-> inserted,
           query |-> IF Refusal(r) = 0 /\ r.path \in Querying THEN QueryOf(r) ELSE None,
           status |-> Refusal(r), rows |-> <<>>, broken |-> FALSE]]
    /\ UNCHANGED storeVars

Answer(s, status, rows) ==
    req' = [req EXCEPT ![s] = [@ EXCEPT !.status = status, !.rows = rows]]

(* JSON has no NaN and no infinity: a row with such a value cannot be      *)
(* encoded.                                                                *)
Encodes(rows) == \A i \in DOMAIN rows : ValueOf[samples[rows[i]].msg] # "nan"

(* The window ends before it starts.  Query does not look at a zero time.  *)
Backwards(q) == ZeroTime \notin {q.from, q.to} /\ q.to < q.from

M_RunQueryPartRows(s) ==
    /\ req[s] # None
    /\ req[s].status = 0
    /\ req[s].query # None
    /\ LET q == req[s].query IN
       IF Backwards(q) THEN Answer(s, 500, <<>>)
       ELSE \E rows \in Rows(q) :
               IF Encodes(rows) THEN Answer(s, 200, rows) ELSE Answer(s, 500, rows)
    /\ UNCHANGED storeVars

(* Store.Query and the encoding of its rows: 500 when the window is        *)
(* backwards and when a row does not encode.                               *)
RunQuery(s) ==
    /\ req[s] # None
    /\ req[s].status = 0
    /\ req[s].query # None
    /\ LET q == req[s].query IN
       IF Backwards(q) THEN Answer(s, 500, <<>>)
       ELSE \E rows \in Rows(q) :
               IF Encodes(rows) THEN Answer(s, 200, rows) ELSE Answer(s, 500, <<>>)
    /\ UNCHANGED storeVars

(* Store.ListGPUs and the encoding of its rows.  /health and /metrics have *)
(* no statement to run.                                                    *)
RunList(s) ==
    /\ req[s] # None
    /\ req[s].status = 0
    /\ req[s].query = None
    /\ \E rows \in IF req[s].request.path = "gpus" THEN GPURows ELSE {<<>>} :
          Answer(s, 200, rows)
    /\ UNCHANGED storeVars

(* The statement fails.                                                    *)
StatementFails(s) ==
    /\ req[s] # None
    /\ req[s].status = 0
    /\ req[s].request.path \notin {"metrics", "health"}
    /\ Fault
    /\ req' = [req EXCEPT ![s] = [@ EXCEPT !.status = 500, !.rows = <<>>, !.broken = TRUE]]
    /\ UNCHANGED <<schema, stage, now, handed, dbVars, again>>

(* The client has gone: writing the answer fails, and the second           *)
(* WriteHeader replaces the status the middleware will count.              *)
EncodeFails(s) ==
    /\ req[s] # None
    /\ req[s].status = 200
    /\ req[s].request.path \notin {"metrics", "health"}
    /\ Fault
    /\ req' = [req EXCEPT ![s] = [@ EXCEPT !.status = 500, !.rows = <<>>, !.broken = TRUE]]
    /\ UNCHANGED <<schema, stage, now, handed, dbVars, again>>

-----------------------------------------------------------------------------
(* Responses.                                                              *)

(* The answer is sent, the middleware counts it (see HTTPMetrics) and the  *)
(* request is over.                                                        *)
Finish(s) ==
    /\ req[s] # None
    /\ req[s].status # 0
    /\ req' = [req EXCEPT ![s] = None]
    /\ UNCHANGED storeVars

-----------------------------------------------------------------------------

Init ==
    /\ StoreInit
    /\ req = [s \in Servers |-> None]

(* Every bound is reached and nothing is left to do.                       *)
Exhausted ==
    /\ \A p \in Processes : Ready(p)
    /\ \A w \in Writers : tx[w] = None
    /\ \A s \in Servers : req[s] = None
    /\ now = MaxTime
    /\ \A m \in Messages : Parses(m) => handed[m] > 0
    /\ UNCHANGED vars

RequestStep(s) == RunQuery(s) \/ RunList(s) \/ Finish(s)

Next ==
    \/ StoreNext /\ UNCHANGED req
    \/ \E s \in Servers, r \in Requests : Receive(s, r)
    \/ \E s \in Servers : RequestStep(s) \/ StatementFails(s) \/ EncodeFails(s)
    \/ Exhausted

Spec == Init /\ [][Next]_vars

-----------------------------------------------------------------------------
(* Properties.                                                             *)

Answered(s) == req[s] # None /\ req[s].status = 200

(* The query of request q asks for the labels of message m.                *)
Concerns(q, m) == \A c \in Filters : q.filter[c] \in {Absent, LabelsOf[m][c]}

(* Types of the store and of the API; the status a client gets is one the  *)
(* handlers know, and rows come with 200 alone.                            *)
TypeOK ==
    /\ StoreTypeOK
    /\ req \in [Servers -> Served \union {None}]
    /\ \A s \in Servers : req[s] # None =>
          /\ req[s].rows # <<>> => req[s].status = 200
          /\ req[s].stored \subseteq inserted
          /\ Ready(s)

(* Message m is in the answer of s, or LIMIT keeps it out.                 *)
Found(s, m) ==
    LET q == req[s].query  rows == req[s].rows IN
    \/ \E i \in DOMAIN rows : samples[rows[i]].msg = m
    \/ /\ q.limit > 0 /\ Len(rows) = q.limit
       /\ \A i \in DOMAIN rows : samples[rows[i]].at <= RecordedAt(m)

Complete(s) ==
    Answered(s) => \A m \in req[s].stored :
        LET q == req[s].query IN
        /\ req[s].request.path = "gpus" => GPURank[LabelsOf[m]] \in Range(req[s].rows)
        /\ q # None =>
              \/ MadeAt[m] \notin (q.from + TicksPerSecond - 1)..q.to
              \/ ~Concerns(q, m)
              \/ Found(s, m)

(* A sample whose Insert returned nil before the request came is in the    *)
(* answer, if its message was made in the time the request asks for, from  *)
(* one second after the start on, for the time of a sample is cut to the   *)
(* second.  Only LIMIT keeps it out, and then by rows that are not newer.  *)
(* The list of GPUs has the GPU of each such sample.                       *)
AnswersComplete == \A s \in Servers : Complete(s)

Sound(s) ==
    Answered(s) /\ req[s].query # None =>
        LET q == req[s].query  rows == req[s].rows IN
        /\ IsInjective(rows)
        /\ q.limit > 0 => Len(rows) <= q.limit
        /\ InOrder(rows)
        /\ \A i \in DOMAIN rows :
              LET m == samples[rows[i]].msg IN
              /\ Concerns(q, m)
              /\ MadeAt[m] \in q.from..(q.to + TicksPerSecond - 1)

(* A row of an answer is a committed sample of the GPU and metric that     *)
(* were asked for, made between the start and one second after the end;    *)
(* the rows are in the order of their time, none twice, no more than the   *)
(* limit.                                                                  *)
AnswersSound == \A s \in Servers : Sound(s)

Explained(s) ==
    req[s] # None /\ req[s].status = 500 =>
        \/ req[s].broken
        \/ LET q == req[s].query  r == req[s].request IN
           /\ q # None
           /\ \/ /\ IsTime(Get(r, "start")) \/ IsTime(Get(r, "start_time"))
                 /\ q.to < q.from
              \/ \E i \in DOMAIN samples :
                    LET m == samples[i].msg IN
                    ValueOf[m] = "nan" /\ Concerns(q, m) /\ RecordedAt(m) \in q.from..q.to

(* A request with good parameters fails only when Postgres or its client   *)
(* does, or when it asks for a committed sample that is not a number,      *)
(* which Insert takes and JSON does not have: such a sample hurts no other *)
(* window, GPU or metric.                                                  *)
ErrorsExplained == \A s \in Servers : Explained(s)

(* Finish counts the response of a request in both maps of the middleware, *)
(* as its status was last set, whatever was counted before and however     *)
(* long it took: the counters and the histograms still agree, and no       *)
(* scrape of /metrics counts itself.                                       *)
MetricsAgree ==
    \A s \in Servers : req[s] # None /\ req[s].status # 0 => \A took \in Durations :
        <<req[s].request.method, req[s].request.path, req[s].status, took>> \in Agreeing
=============================================================================
