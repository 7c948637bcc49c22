# GPU telemetry pipeline: TLA+ models and proofs

Streamers replay GPU telemetry from a CSV file into a partitioned, replicated
queue. Processors consume it in consumer groups and write it to Postgres, and an
API answers queries. This directory models the parts of that pipeline in which
order, concurrency and failure matter. TLC checks the models on small instances,
and TLAPS proves all of the safety properties but one for all instances.

Paths below are relative to the repository.

## Inventory

| Part | Code | State it keeps | Operations |
|---|---|---|---|
| Streamer | `internal/telemetry/replay.go`, `http_producer.go`, `record.go`, `cmd/streamer` | sequence number, backoff, attempts (per process, in memory) | `Stream`, `recordsForShard`, `publishWithRetry` |
| Publish and replication | `internal/queue/runtime.go` (`Publish`), `replication_coordinator.go`, `http_replication_transport.go`, `replication_handler.go` | open publish calls, one goroutine and POST for each follower | `Publish`, `Replicate`, the handler of `/internal/replicate` |
| Partition store | `internal/queue/partition_store.go`, `segment_store.go`, `codec.go` | one segment file for each partition, `nextOffset` | `OpenPartition`/`Recover`, `Append`, `AppendRecord`, `Read`, `Flush`, `Close` |
| Cluster | `cmd/queue/main.go`, `kubernetes_cluster.go`, `assignment.go`, `partition_manager.go`, `publish_handler.go` | each pod's list of pods, fixed at its start | discovery, `AssignPartitions`, forwarding |
| Consumer state | `internal/queue/runtime.go` (`consumerState`, `Poll`, `Ack`), `consume_handler.go`, `ack_handler.go` | next offset and delivery in flight for each group and partition, map from message ID to delivery (memory only) | `nextOffset`, `skip`, `markInflight`, `ack`, `Poll` |
| Processor | `internal/processor/runner.go`, `http_client.go`, `cmd/processor` | the message it works on | `RunOnce`: consume, insert, acknowledge |
| Telemetry store | `internal/telemetry/store.go` | Postgres tables, open transactions | `OpenStore`, `Insert`, `Query`, `ListGPUs` |
| Query API | `cmd/api`, `internal/api` | the request in hand; request counters and histograms | handlers of `/api/v1/gpus`, `/api/v1/gpus/{id}/telemetry`, `/telemetry`, `/health`, `/metrics`; `HTTPMetrics` |
| Configuration, logging, statistics | `internal/config`, `internal/logging`, `internal/queue/*metrics*.go`, `stats_handler.go` | counters | |

How they interact: streamers and processors send HTTP requests to a headless
service, which reaches any queue pod. A pod serves a publish on the partition's
leader and forwards it there otherwise. The leader replicates a record to the
followers, waits for `required_follower_acks` of them and appends to its own log.
Consumers poll the logs of the partitions a pod leads. Consumer state is not
replicated and not stored. Processors and API processes share Postgres and nothing
else.

What is hard: publishes and polls of several clients interleave between critical
sections; a quorum cancels the slower followers; clients disconnect and time out
while the work goes on; processes stop between any two steps; pods discover each
other at different moments; an append is several calls to the file system; an insert
is several statements of a transaction, and its commit may succeed unseen. The
hazards are listed, each at its line, in `PROJECT.json`.

## Modules

| Module | Models |
|---|---|
| `Replication` | publish and replication of one partition |
| `ReplicationProofs` | theorems about `Replication` |
| `ConsumerState` | the critical sections of `consumerState` |
| `Consumption` | composes `ConsumerState` with partition logs, polls in their separate steps, and processors |
| `OrderedDelivery` | what queue and processors promise together: the abstract specification `Consumption` implements |
| `ConsumptionProofs` | theorems about `Consumption` |
| `DurableLog` | what a partition store promises: the abstract specification |
| `Codec` | the encoding of a record's payload, and which messages reach it |
| `PartitionStore` | a partition's file, its appends call by call, crashes and recovery; implements `DurableLog` |
| `PartitionStoreProofs` | theorems about `PartitionStore` and lemmas about `Codec` |
| `Cluster` | discovery, assignment of partitions, forwarding of publishes |
| `ClusterProofs` | theorems about `Cluster` |
| `Streamer` | sharding, replay, retry with backoff, message IDs, restarts |
| `StreamerProofs` | theorems about `Streamer` |
| `TelemetryStore` | opening the store and inserting, statement by statement, by several processes |
| `TelemetryStoreProofs` | the invariant of `TelemetryStore` and that each of its actions keeps it |
| `QueryAPI` | composes `TelemetryStore` with the API's handlers and their statements |
| `QueryAPIProofs` | theorems about `QueryAPI` and, through it, `TelemetryStore` |
| `Ranks` | lemmas: an element's place in a sorted finite set of integers, and induction over `Nat` for a set |
| `HTTPMetrics` | the API's request metrics, as functions |
| `MC*` | instances for TLC: symmetry sets and constant functions |

Definitions named `M_...` are deliberately wrong variants of the definition that
follows them. Each breaks a property, which shows that the property depends on
that piece of code.

### Replication

`log[n]` is node n's synced log and its length is `nextOffset`. `Publish` is
`Runtime.Publish` up to the fan-out: it takes the snapshot of the next offset and
`Threshold` decides as `Replicate` does before it starts goroutines. `AppendRecord`
is the follower's handler; `Reply`, `GiveUp` and `Abandon` are the ends a POST can
have for the goroutine; `Quorum` cancels the goroutines that have not reported;
`AppendLocal` is the leader's own append, which fails when the request context
was cancelled, and `Return` the answer. Between the two consumers can read a message
that is not accepted yet, and a leader that stops there leaves one that never will be
(`"aborted"`). A POST whose goroutine has given up may still be applied.
`Disconnect`, `CrashFollower`, `CrashLeader`, `Restart` are the environment. A
streamer's retry is a new message, so it is another request. Storage is taken at
its contract, which `PartitionStore` is checked against: a call to the file that fails, and what
it leaves there, is in that module only.

### ConsumerState and Consumption

`next`, `cur` and `inflight` are the maps of `consumerState`. They are kept once
for the whole cluster: a partition has one leader, and the entries belong to the
partition's leader. A poll is `Poll`, then for each partition `NextOffset`, `Read`,
and `SkipOther` or `Mark`, each one critical section. `Insert` and `SendAck` finish
`RunOnce`. `GiveUp` stands for every error before the ack. `AckTimeout` leaves
an ack on its way, which `LateAck` may deliver at any time or never. `Restart` empties
the state of the partitions a node leads. Message IDs are unique. `Return` clears the
local variables of a call that ends. `InflightCount` and `InflightPartitions` are the
two places where `/metrics` and `/stats` show a delivery.

`OrderedDelivery` keeps only the logs and what was stored: a message is appended once, to one
partition, and a group stores a message of a partition when every earlier one of its topic is
stored (so that `StoredInOrder`: nothing stored has a gap before it). The refinement mapping is
the identity on `log` and `stored`.

### Codec, PartitionStore and DurableLog

`Codec` works on sequences of sizes and bytes, a size being one element. `ReadBytes` is
`readBytes` with the two habits of `bytes.Reader.Read`: at the end of the data it fails even if no
byte is asked for, and it returns fewer bytes than asked for without an error. So a
message with an empty payload would be written and not read back, and recovery would
cut the log in front of it. `Accepts`, the check in `PublishHandler`, keeps such messages out;
an empty routing key, in the middle of the data, does no harm. `Stored` is what a message
reads as after both.

A call to `Append` or `AppendRecord` is a header write, a payload write and a sync,
with a crash possible before, between and after. A record is whole or a fragment.
A crash keeps what was synced and any prefix of the rest, the last record
perhaps torn. `OpenPartition` keeps the records in front of the first one that is a fragment
or does not decode; `Read` passes over records of other offsets without decoding them. If
bytes follow a fragment its payload may be completed from them and decode, since
`readBytes` accepts short reads: `Garbage`. `failed` records that a write or a sync has
failed. `DurableLog` promises that acknowledged records stay where they are until that
happens, and nothing afterwards.

### Cluster

Pods are numbered in the order of their sorted names. `Discover` is the end of
`discoverCluster`: at least `Factor` pods run, and the pod keeps the list. `ReplicaOf` is
`AssignPartitions`. `Arrive`, `Accept`, `Refuse`, `Forward` and `Fail` are `PublishHandler`; `Refuse` is
a publish for which the leader's `Runtime.Publish` returns an error, and `home` the pod whose log has a
request's message, which a failed sync may leave there as well. The router's hash is an arbitrary function from requests to partitions.

### Streamer

The queue is seen from outside: a publish is stored or not, answered or not. A failed one was not
taken (`Refused`: no connection, a quorum that was missed, a request the queue did not begin with), or nobody
knows: it was answered with an error that may hide a stored message (`Errored`: the 502 of a pod whose
forwarded request got no answer, the 500 after a failed sync) or not answered in time (`Timeout`). Such a
publish is in `late`, and `Arrive` stores it at any time, or drops it. `InOrderOnce` says what then remains of the
order: a record is in the queue only behind the one before it of the same run, and only these two kinds and restarts
repeat any. Each
attempt reads the clock and makes a new message; its ID is the time and the sequence
number. A time is the number of the reading at its streamer, since only these are
ordered; two streamers may read the same time, and a wall clock that is set back, also between two runs, is left out. `Restart` stops a streamer anywhere, a publish
under way stays under way, and the next process begins at sequence number 0.

### TelemetryStore and QueryAPI

`Statement` and `OpenFails` are `OpenStore` in a processor or an API process, `BeginTx`, `Upsert`,
`InsertSample` and `Commit` are `Insert`. Postgres is modelled from what the code asks of it: `lock` is the row
lock an upsert holds to the end of its transaction, a commit makes rows visible, and
`CommitUnknown` is a commit that succeeds and is reported as failed. `handed` counts how often the queue
delivered each message, and `again` bounds the redeliveries. `RecordedAt` cuts a message's time to the second, as `WithTimestamp` does.

A request is `Receive` (routing, parameters, the clock), `RunQuery` or `RunList` (a snapshot of what is
committed then), and `Finish`; `StatementFails` and `EncodeFails` are the two places where it becomes a 500 because a call fails. `Backwards` is the
check of `Store.Query`, which leaves out a window with Go's zero time (`ZeroTime`) at either end. `Rows` is a
set, as SQL leaves rows of one time unordered. `HTTPMetrics` computes the two maps from the responses that have ended, in
their order (`MetricsAfter`), because `observe` and `snapshot` hold one mutex. A path with a trailing slash is
a path of its own to the mux, and is counted under the route without it (`TrimSuffix`).

## Runs

| Run | Instance | Shows |
|---|---|---|
| `replication_faults` | 2 followers, quorum 1, 3 publishes, 2 at a time, 2 faults | `AcceptedOnQuorum`, `FollowerLead`, and that a stranded follower and a wedged partition stay so (`StrandedForGood`, `WedgedForGood`) |
| `replication_serial` | 2 publishes, one at a time, 2 faults, fairness | `AcceptedAgreement`: one offset for an accepted message; `PublishDecided`; `WritableWithoutFaults` |
| `consumption_group` | 2 processors of a group, a node with 2 partitions, one of them empty, 3 messages of 2 topics, 2 faults, fairness | `NoMessageSkipped`, `InflightBacked`, `ExclusiveDelivery`, `StatsAgree`, `ImplementsOrderedDelivery`, `EventuallyStored` |
| `store_crash` | 3 records, 2 crashes, failing writes and syncs; messages with and without routing key, one request without payload | `RoundTrip`, `CrashSafe`, `NoHoles`, `SyncedStay`, `ImplementsDurableLog` |
| `cluster_exact` | 3 pods, factor 3, 4 partitions, 2 requests, 2 stops, fairness | replicas (`TypeOK`), `UniqueLeader`, `ForwardedOnce`, `EveryRequestAnswered` |
| `streamer_retry` | 3 records, 2 shards, 2 faults out of refusals, errors, timeouts and restarts, fairness | backoff (`TypeOK`), `NothingDropped`, `CycleComplete`, `InOrderOnce`, `UniqueIDs`, `KeepsGoing` |
| `telemetry_api` | 2 processors, 1 API process, 4 messages of 2 GPUs, one of them NaN and one not a number, 10 requests, 1 fault, 1 redelivery | `OneSeries`, `CopiesExplained`, `WaitsEnd`, `OpensAgain`, `AnswersComplete`, `AnswersSound`, `ErrorsExplained`, `MetricsAgree` |
| `replication_concurrent` | 2 concurrent publishes, no fault | violated: leader and follower disagree on an offset |
| `replication_one_down` | 2 publishes, 1 follower crash | violated: no write is possible with one follower down |
| `consumption_two_groups` | 2 groups of one topic, no fault | violated: one group's ack moves the other past a message |
| `store_write_fails` | 1 failed write | violated: acknowledged records behind a fragment are lost |
| `cluster_larger` | 4 pods, factor 3 | violated: two leaders of one partition |

Bounds. Two followers are the deployed replication factor 3. Two publishes at a
time are enough for two to take the same offset, and the third follows on what they
left. Two faults let a disconnect meet a crash, or strand both followers. Three
messages with the second of another topic make polls skip and mark in turn, and two
processors make each overtake the other. Three records and two crashes let a
fragment be followed by an acknowledged record and by two recoveries. Three records in two shards do
not divide evenly. `RetryInitial` 2 and `RetryMax` 5 let the backoff meet its cap from
below, with two refusals. Two messages of one series let two upserts meet, and a tick of half a second puts
messages between the times they are recorded with. `MetricsAgree` counts every answer
the API gives, with every duration, after every two of eight earlier responses: three are needed for two statuses
of one path and a response that is not counted. `MaxHops` 2 is one forward more than a cluster that agrees needs.

Fairness. In `Replication` the goroutines of the leader and the handlers of running
followers make progress: the Go scheduler and the client's 10 s timeout. Nothing is assumed
of crashes, restarts or timeouts of a follower that is up. In `Consumption` a processor
loops for ever and its requests reach every node again and again (strong fairness of
`Poll`): the service spreads requests and `cmd/processor` never stops. In `Cluster`,
Kubernetes starts pods (in parallel) and a pod lists the others every second. In
`Streamer` a streamer keeps running, and a queue that is not failing answers.

Deadlock is checked in every run. Where an instance has used up its requests
(`Terminating`, `Settled`, `Exhausted`) an explicit step stutters.

## What the violated runs and the models show

Kept as runs, with the line they contradict in `PROJECT.json`: concurrent publishes
(`runtime.go:122`), the quorum's cancellation (`replication_coordinator.go:77`), acks keyed by
message ID (`runtime.go:454`), a failed write (`segment_store.go:42`, and 46 in the same way), discovery at the
replication factor (`cmd/queue/main.go:249`).

The same models show more, with other constants:

- `Replication`, `FaultKinds = {"disconnect"}`: a publish whose client leaves after followers
  stored the record leaves these one ahead of the leader (`FollowerLead` is the bound); with all of them
  so, the partition is wedged and no retry helps (`WedgedForGood`).
- `Consumption`, `FaultKinds = {"process"}`: a delivery that is never acknowledged blocks its
  partition until the queue node restarts, and `EventuallyStored` fails.
- `Consumption`, two nodes, no fault: an ack that reaches the other node is refused with 404
  and not repeated, with the same result.
- `Consumption`, two processors: a poll that read its offset before another's delivery and
  ack delivers the message again. Nothing is lost (`NoMessageSkipped`).
- `PartitionStore`, `Faults = {"sync"}`: the record whose sync failed keeps its offset in the file, and
  is read in place of the acknowledged one that follows.
- `Streamer`, two shards: both may give the same ID to a message, `UniqueIDs` without its condition on
  the shard. In `Consumption` the second delivery would replace the first in the message map.
- `QueryAPI`: a window that ends before it starts is answered with 500, not 400, because `Store.Query` finds it and
  not the handler; with a limit the oldest samples of a window are returned; a sample that is NaN turns every
  query that covers it into a 500, as long as it is in the database (`ErrorsExplained` says that no other query
  suffers).
- `TelemetryStore`: a sample has no key, so that a message delivered again is stored again. `CopiesExplained` is
  the bound, message by message.
- `Cluster`, four pods and factor three: a forwarded publish may be forwarded again.

## Proofs

Each `...Proofs` module proves its theorems for every value of the constants that
satisfies the component's named assumptions, which TLC evaluates on every run. Where a
theorem has a further hypothesis it is part of its statement, and named below.

`ReplicationProofs`: every number of followers, requests and faults, every `Required`
and, but for `SerialAgreement` and `StaysWritable`, every `MaxInFlight`.

- `TypeCorrect`, `FollowerLeadHolds`, `AcceptedOnQuorumHolds`: the inductive invariant `IInv` says, for each
  request and follower, that an acknowledgement was counted only for a POST that
  was applied, that an applied record is in the follower's log, that an offset in use
  is at most the leader's next one, that a publish past the quorum has at least `Required`
  acknowledgements, and that an idle request has left no trace. None of the properties is inductive alone:
  `AcceptedOnQuorum` speaks of logs, and what the coordinator counts are results; `FollowerLead`
  needs the bound on the offsets that are under way.
- `StrandedForGoodHolds`, `WedgedForGoodHolds`: action properties, by the shapes a step can have
  (`StepShape`). A new publish carries the leader's offset, which a stranded follower does not
  have.
- `SerialAgreement`: with `MaxInFlight = 1` the leader's log does not move between
  the snapshot of an offset and the append of a publish in `Sending`, and what is appended before its answer is where
  its followers have it (`SerialInv`), so that accepted messages agree. `replication_concurrent` shows that the assumption is needed.
- `StaysWritable`: with `MaxInFlight = 1` and no more acks required than there are followers, a partition that has met no
  fault takes the next record. A quorum cancels the POSTs to slower followers, whose logs then stay behind, so the count
  of followers at the leader's offset may fall with every publish. `FreeInv` says that it does not fall too far: no
  publish has been refused, with none open enough followers are in sync, and an open one can still
  reach its quorum (`QuorumInReach`), because a POST left over from an earlier one carries an offset the leader has passed.
- `StoredOnceHolds`, `ReadableBackedHolds`: the converse of `AcceptedOnQuorum`, from the log to the request. Every entry of the
  leader's log belongs to a publish that has its quorum and was accepted, is about to be, or was cut off by the leader's stop (`Landed`), every entry of a follower's log to a POST that was applied with the offset of the entry
  (`HoldInv`, on top of `IInv`). So no node stores a message twice, which `Consumption` takes for granted of the logs it
  reads, and what consumers can read is on its quorum and was never refused. It may be a message whose publisher has no
  answer: the leader stopped between its append and the answer. A failed sync, which leaves a record in the file behind an answered 500, is not in
  `Replication` (see its section).

`ConsumptionProofs`: every number of nodes, partitions, processors, messages and faults, and one
hypothesis of the theorems, `OneGroupPerTopic`: no two groups consume the same topic. `consumption_two_groups` shows that
it is needed: the message map is keyed by ID alone.

- `NothingSkipped`, `DeliveriesBacked`, `ConsumptionTypes`: `NoMessageSkipped` is not inductive, because
  an offset is set by `skip` and `ack` to a value that a poll read some steps earlier. The
  invariant `CInv` says the same of every offset that may still be written: of the one a poll has
  in hand (`ProcInv`), of the one in a delivery (`FlightInv`, which also says that
  the delivery is backed by its partition), and that a message is stored before any ack
  for it is on its way (`ProcInv`, `LateInv`). `DoneStays` and `DoneNext` carry
  "done below an offset" over growing logs and one message further.
- `HandsExclusive`, `CountsAgree`, `ConsumptionImplementsOrder`: a second invariant, `DInv`, on top of `CInv`. A log holds only messages
  routed to it (`RouteInv`); a partition that shows a delivery has its entry in the message map (`BackInv`, the converse of
  `FlightInv`), and the entries are finitely many; what a processor works on is in the log where its poll
  read it, with everything before it done (`PlaceInv`); until a node restarts, a message in hand, or with an ack on its way,
  is in flight, and in one hand only (`HoldInv`). `StatsAgree` follows by a bijection between the two records of
  deliveries. In the refinement an append is an append, `Insert` is the abstract `Store`, whose guard is `PlaceInv`, and
  every other step stutters.
- `OrderedHasNoGap`, `StoredWithoutGap`: the refinement put to use. `OrderedDelivery` keeps `StoredInOrder`, with the help of
  `OnePlace` (a message is at one place of one log, so that storing it fills no other place) and `StoredLogged` (what is stored is in
  a log, so that a message that is appended is not stored yet). As `Consumption` implements it, nothing Postgres has of a partition has a gap
  before it. The first theorem needs no hypothesis.

`PartitionStoreProofs`: any messages, records, crashes and failing calls.

- `DecodesBack`: a payload decodes to its message for fields of any length (`FieldRead`, `DecodeCut`). A prefix of it may decode too,
  as reads may be short, but only to a message with the same ID, topic and key.
- `TypeCorrect`, `OffsetsContiguous`: `StoreInv` holds whatever fails. It says where in its calls an append
  is and that the offsets in the file grow by one or stay (`OffInv`), the second because a failed sync leaves a
  record whose offset is used again.
- `NoAckLost`: `GoodInv` holds until a call to the file fails. Every record is in its place and only the last can be a
  fragment, an idle store has none, `nextOffset` is the number of records in front of the call in progress, and acknowledged records are
  within what is synced.
  `store_write_fails` shows that the condition is needed.
- `SyncedKept` (action property) and `StoreImplementsLog`: readable records are a prefix of the file (`SoundPrefix`) that
  a crash cuts at or behind the synced length (`CrashEffect`) and that a write does not touch.

`ClusterProofs`: any number of pods, partitions and requests.

- `TypeCorrect`: replicas `i` and `j` of a partition have ranks `p + i` and `p + j` modulo the number of pods in the list,
  and a list has at least `Factor` pods (`ViewInv`), so the replicas differ (`RoundRobin`).
- `OneLeader`, `NoSecondForward`, with the hypothesis `Exact`, as many pods as the factor: then two lists, each of at least `Factor`
  pods, are the same (`SameView`), and a forwarded request is at its leader (`RouteInv`). `cluster_larger` shows that
  the hypothesis is needed.

`StreamerProofs`: any number of records, shards, faults and restarts.

- `NoRecordDropped`, `OrderKept`, `IDsUnique`: `SInv` says that a message in the queue or on its way carries the record of its
  sequence number and a time before that of the attempt in progress (`MsgInv`), that no two of a streamer have the same time
  (`Distinct`), that the records before the current one were stored by this run (`StoredUpTo`), and, while nothing but refusals
  (`Refusals`) was met, that nothing is late and each is stored once (`OrderInv`). For the order whatever fails, `OrderKept` adds `Preceded`: the
  record before a message that is late is in the queue already, so that it follows it wherever it arrives.
- `CycleHasAll`: every row is the record of one shard at one position, by ranks (`RecordReached`).
- `TypesAndPauses`: the pause the code computes step by step is the closed recursion `Pause`. That this
  recursive function exists is itself shown, by induction over finite approximations (`ClimbExists`, `ClimbAgree`), with the
  induction axiom written for a set (`NatClosed`) instead of an operator.

`TelemetryStoreProofs` and `QueryAPIProofs`: any number of processes, messages, series, requests and faults.

- `SeriesUnique`, `NoWaitCycle`, `CopiesBounded`: `StoreInv` says what an open transaction relies on (`TxInv`): behind its upsert it holds the
  lock of its labels, and its row is committed, or its own and in conflict with no committed one. New IDs are unused, samples
  refer to rows, and committed copies plus open inserts of a message are at most the times that message was handed out
  (`CountInv`).
- `AnswerHasAll`, `AnswerHasOnly`, `ErrorHasCause`, `TypeCorrect`: `QInv` adds what is kept of a request. The answer is judged in the
  step that runs its statement (`SelectedSound`, `SelectedComplete`); from there on its rows are fixed, and the tables only grow
  (`StoreGrows`), so that the judgement stands.
- `MapsAlwaysAgree`, `MetricsCounted`: TLC counts three responses, the theorem any number. `ObserveKeeps` is the step: one more response
  adds one to its counter, to the count of its histogram and to the buckets at or above its duration, adds the duration to the
  sum, and changes nothing else. The sums are stated as cardinalities (`Ticks`, `Units`), which grow by one element at
  a time (`OneMore`, `OneMoreUnit`). That the maps after `n` responses exist (`CountingExists`) and agree is an induction over `n`
  with the axiom written for a set (`NatClosed` of `Ranks`). `MetricsCounted` adds that the statuses of requests are among the responses.
- `SchemaComplete`: what `OpensAgain` rests on. What the statements before the next one of a process create exists (`SchemaInv`),
  nothing drops a table, and a statement refers to what earlier ones create; so the guard of the next statement holds, whoever else is opening the
  store, and a process that inserts or queries has the whole schema.

Only model-checked, because the provers cannot do it: liveness under fairness (`PublishDecided`, `EventuallyStored`,
`EveryRequestAnswered`, `KeepsGoing`), and `OpensAgain`, which says that an action is `ENABLED`: `SchemaComplete` has its
guard.

## Not modelled

Configuration and logging: read once, or output only. The counters of queue, replication and
processors, and the text of `/metrics` and `/stats`: nothing reads them back. The API's
documentation handlers: constant text. `QUEUE_NODES` outside Kubernetes: a fixed list. The
channel variant `Runtime.Consume`, which no command uses. Left out on purpose: unaligned bytes of
the segment file that pass for a record header; a sync that reports success without having
stored the data; in `Consumption`, IDs that two streamers share; in `TelemetryStore` and `Streamer`, a wall clock that is
set back. A composition of `Streamer`, `OrderedDelivery` and a count of the copies in Postgres was tried:
with two faults its instance has several million states, with one it shows nothing that the parts do not show.

## Plan

1. Done: `Replication`, `Consumption`, `PartitionStore` with `DurableLog`, `Cluster`, `Streamer`.
2. Done: `Codec` under `PartitionStore`; `OrderedDelivery`; `TelemetryStore`, `QueryAPI`, `HTTPMetrics`; IDs and
   restarts of streamers; the two views of deliveries in flight.
3. Done: the theorems above: each invariant a run checks but `OpensAgain`, three action properties, both
   refinements and what follows from one of them.
4. Left: nothing that is planned.
