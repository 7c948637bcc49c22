---------------------------- MODULE MCQueryAPI ----------------------------
(* An instance of QueryAPI for TLC: a series with two messages, one of them *)
(* NaN, a second GPU with one, and a message whose value is no number at    *)
(* all.                                                                     *)
EXTENDS QueryAPI, TLC

CONSTANTS m1, m2, m3, m4

LabelsA == [metric_name |-> "util", uuid |-> "a", hostname |-> "h", gpu_id |-> 0, device |-> "d0"]
LabelsB == [metric_name |-> "util", uuid |-> "b", hostname |-> "h", gpu_id |-> 1, device |-> "d1"]

MCLabelsOf == [m \in Messages |-> IF m = m2 THEN LabelsB ELSE LabelsA]
MCValueOf == [m \in Messages |->
    CASE m = m3 -> "nan" [] m = m4 -> "bad" [] OTHER -> "number"]
(* Two ticks a second: m1 and m3 are made half a second after the time they *)
(* are recorded with.                                                       *)
MCMadeAt == [m \in Messages |-> IF m = m2 THEN 2 ELSE 1]
MCGPURank == [l \in Labels |-> l.gpu_id]

MCZeroTime == -100

(* A window of a second, the samples of one GPU, the oldest sample, a       *)
(* window that ends before it starts, one that ends at the zero time,       *)
(* parameters that exclude each other, the list, a method and a path that   *)
(* are refused, and a request without a statement.                          *)
MCRequests == {
    [path |-> "telemetry", method |-> "GET", query |-> [window |-> 2]],
    [path |-> "gpu_telemetry", method |-> "GET", id |-> "b",
     query |-> [start_time |-> 0, end |-> 2]],
    [path |-> "telemetry", method |-> "GET",
     query |-> [start |-> 0, end |-> 2, limit |-> 1]],
    [path |-> "telemetry", method |-> "GET", query |-> [start |-> 2, end |-> 1]],
    [path |-> "telemetry", method |-> "GET", query |-> [start |-> 2, end |-> MCZeroTime]],
    [path |-> "telemetry", method |-> "GET", query |-> [start |-> 0, window |-> 2]],
    [path |-> "gpus", method |-> "GET", query |-> <<>>],
    [path |-> "gpus", method |-> "POST", query |-> <<>>],
    [path |-> "gpus/", method |-> "GET", query |-> <<>>],
    [path |-> "metrics", method |-> "GET", query |-> <<>>] }

(* Responses with two statuses on one path that is counted, and on one that *)
(* is not.                                                                  *)
MCEarlier ==
    [method : {"GET"}, path : {"telemetry"}, headers : {<<>>, <<500>>}, took : 0..2]
    \union [method : {"GET"}, path : {"metrics", "other"}, headers : {<<404>>}, took : {1}]

(* Processors are interchangeable.                                          *)
Symmetry == Permutations(Writers)
=============================================================================
