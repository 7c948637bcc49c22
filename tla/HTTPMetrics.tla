---------------------------- MODULE HTTPMetrics ----------------------------
(***************************************************************************)
(* HTTPMetrics of the API: Middleware around every handler, and the two    *)
(* maps that observe changes together under the mutex.  A reader of the    *)
(* maps (snapshot, under the same mutex) therefore sees what the requests  *)
(* so far make of empty maps, in the order in which they ended.            *)
(***************************************************************************)
EXTENDS Integers, Sequences, FiniteSets, Functions, SequencesExt, FiniteSetsExt

CONSTANTS
    DurationBuckets,  \* httpDurationBuckets, in ticks
    Durations,        \* how long requests take, in ticks
    Earlier           \* responses to earlier requests

(* POST stands for every method but GET; the paths are those of QueryAPI,  *)
(* three of them also with a slash behind them.                            *)
Methods == {"GET", "POST"}
Paths == {"gpus", "gpus/", "gpu_telemetry", "gpu_other", "telemetry", "telemetry/",
          "metrics", "metrics/", "health", "other"}

(* What a handler did with a request; headers are the calls of             *)
(* WriteHeader.                                                            *)
Response ==
    [method : Methods, path : Paths,
     headers : {<<>>} \union {<<code>> : code \in {400, 404, 405, 500}},
     took : Durations]

ASSUME MetricsAssumption ==
    /\ DurationBuckets \subseteq Nat
    /\ Durations \subseteq Nat
    /\ Earlier \subseteq Response

(* metricsResponseWriter: 200 unless the handler calls WriteHeader; a      *)
(* second call, after a failed encoding, replaces the first.               *)
Status(r) == IF r.headers = <<>> THEN 200 ELSE Last(r.headers)

TrimSuffix(path) ==
    CASE path = "gpus/" -> "gpus"
      [] path = "telemetry/" -> "telemetry"
      [] path = "metrics/" -> "metrics"
      [] OTHER -> path

(* normalizeMetricPath: without its trailing slash, a route of the API,    *)
(* the root or the documentation ("docs" for the three paths of it) keeps  *)
(* its name, also where the mux has no such route with a slash, and so     *)
(* does any /api/v1/gpus/{id}/telemetry.                                   *)
MetricPath(r) ==
    LET path == TrimSuffix(r.path) IN
    IF path \in {"gpus", "gpu_telemetry", "telemetry", "metrics", "health", "docs", "root"}
    THEN path ELSE "unmatched"

Skipped(r) == MetricPath(r) \in {"metrics", "health"}

RequestKey(r) == <<r.method, MetricPath(r), Status(r)>>
DurationKey(r) == <<r.method, MetricPath(r)>>

NewHTTPMetrics == [requestCounts |-> <<>>, durationHistograms |-> <<>>]

NewHistogram == [count |-> 0, sum |-> 0, buckets |-> [b \in DurationBuckets |-> 0]]

Lookup(f, k, zero) == IF k \in DOMAIN f THEN f[k] ELSE zero
Put(f, k, v) == [x \in DOMAIN f \union {k} |-> IF x = k THEN v ELSE f[x]]

M_ObserveOneBucket(m, r) ==
    IF Skipped(r) THEN m
    ELSE LET h == Lookup(m.durationHistograms, DurationKey(r), NewHistogram)
             fits == {b \in DurationBuckets : r.took <= b}
         IN [requestCounts |-> Put(m.requestCounts, RequestKey(r),
                Lookup(m.requestCounts, RequestKey(r), 0) + 1),
             durationHistograms |-> Put(m.durationHistograms, DurationKey(r),
                [count |-> h.count + 1, sum |-> h.sum + r.took,
                 buckets |-> [b \in DurationBuckets |->
                    h.buckets[b] + IF fits # {} /\ b = Min(fits) THEN 1 ELSE 0]])]

(* Middleware, then observe.                                               *)
Observe(m, r) ==
    IF Skipped(r) THEN m
    ELSE LET h == Lookup(m.durationHistograms, DurationKey(r), NewHistogram)
         IN [requestCounts |-> Put(m.requestCounts, RequestKey(r),
                Lookup(m.requestCounts, RequestKey(r), 0) + 1),
             durationHistograms |-> Put(m.durationHistograms, DurationKey(r),
                [count |-> h.count + 1, sum |-> h.sum + r.took,
                 buckets |-> [b \in DurationBuckets |->
                    h.buckets[b] + IF r.took <= b THEN 1 ELSE 0]])]

(* The maps after responses s, for a scrape that comes then.               *)
MetricsAfter(s) ==
    LET after[n \in 0..Len(s)] ==
            IF n = 0 THEN NewHTTPMetrics ELSE Observe(after[n - 1], s[n])
    IN after[Len(s)]

Observed(s) == {i \in DOMAIN s : ~Skipped(s[i])}
OfRequest(s, c) == {i \in Observed(s) : RequestKey(s[i]) = c}
OfDuration(s, k) == {i \in Observed(s) : DurationKey(s[i]) = k}

(* The ticks that the responses of key k took, one by one.                 *)
Ticks(s, k) == UNION {{i} \X (1..s[i].took) : i \in OfDuration(s, k)}

(* The requests that the counters have for key k, in all statuses.         *)
Units(counts, k) ==
    UNION {{c} \X (1..counts[c]) : c \in {d \in DOMAIN counts : <<d[1], d[2]>> = k}}

(* Histogram h for key k after responses s.                                *)
HistogramAgrees(h, s, k) ==
    /\ h.sum = Cardinality(Ticks(s, k))
    /\ \A b \in DurationBuckets :
          h.buckets[b] = Cardinality({i \in OfDuration(s, k) : s[i].took <= b})

(* Maps m are right after responses s, and agree with each other: a        *)
(* counter has the responses of its method, path and status; a histogram   *)
(* counts what the counters of its method and path have together, adds up  *)
(* their durations, and its bucket b, which is cumulative, has those that  *)
(* took at most b; neither map knows a response that is not to be counted. *)
MapsAgree(m, s) ==
    /\ DOMAIN m.requestCounts = {RequestKey(s[i]) : i \in Observed(s)}
    /\ \A c \in DOMAIN m.requestCounts : m.requestCounts[c] = Cardinality(OfRequest(s, c))
    /\ DOMAIN m.durationHistograms = {DurationKey(s[i]) : i \in Observed(s)}
    /\ \A k \in DOMAIN m.durationHistograms :
          /\ m.durationHistograms[k].count = Cardinality(Units(m.requestCounts, k))
          /\ HistogramAgrees(m.durationHistograms[k], s, k)

Agree(s) == MapsAgree(MetricsAfter(s), s)

(* The responses that, counted after any two others, leave the maps in     *)
(* agreement: their method, path, status and duration.                     *)
Agreeing ==
    {<<r.method, r.path, Status(r), r.took>> :
        r \in {x \in Response : \A p, q \in Earlier : Agree(<<p, q, x>>)}}
=============================================================================
