# Verification of erda-agent

erda-agent runs on every node of a Kubernetes cluster. eBPF programs watch the
traffic of the node's pods, Go plugins turn what they see into metrics, and a
controller posts the metrics to a collector. This directory models the parts of
the agent that keep state and run concurrently, checks them with TLC on small
instances, and proves the most important results with TLAPS for all instances.

Paths below are relative to the repository root (`src/` here).

## 1. The system

| component | state | operations | interacts with |
|---|---|---|---|
| rpc probe (`ebpf/plugins/rpc/main.c`, `pkg/plugins/protocols/rpc/ebpf/ebpf.go`, `rpc.go`) | `filter_map`, `grpc_request_map`, `grpc_trace_map`, channel `Ch` | the socket filter on each packet; the reader goroutine of `Load`; `sendMetrics` | one probe per veth; all probes of the plugin share `Ch`; `sendMetrics` feeds the controller's channel |
| socket tables (`ebpf/include/sock.h`) | `active_recv_args`, `filtered_connections`, `grpc_connections` | kprobes on `tcp_sendmsg`, `tcp_recvmsg` (entry and return), `tcp_close` | read and extended by the rpc filter |
| http probe (`ebpf/plugins/http/...`, `pkg/plugins/protocols/http/...`) | `http_processing_map`, `metrics_map`, channel `ch` | the filter; `FanInMetric`; the export goroutine | as the rpc probe |
| kafka probe (`ebpf/plugins/kafka/main.c`, `pkg/plugins/protocols/kafka/...`) | in-flight requests, response parser contexts, `kafka_event` | filter, response parser (tail calls), reader | as the rpc probe |
| amqp filter (`rpc/main.c`, `amqp.h`) | `amqp_filter_map`, `amqp_trace_map` | tail-called filter, reader that logs | rpc probe |
| kprobe plugin (`pkg/plugins/kprobe`) | `netLinks`, `netLinkListeners` | `Init`, refresh every 5 s, `GetVethes`, `RegisterNetLinkListener` | rpc, http and kafka plugins |
| pod, service and process caches (`pkg/plugins/kprobe/kprobesysctl`) | caches with expiry | informers, tickers, lookups | metric conversion of every plugin |
| NAT table (`ebpf/plugins/netfilter`, `pkg/plugins/netfilter`) | `natCache` | kprobes on NAT, reader, lookup | metric conversion |
| memory plugin (`ebpf/plugins/oomkillprocesser`, `pkg/plugins/memory`) | OOM event map | kprobe, poller, conversion | pod cache, controller |
| controller (`pkg/controller/provider.go`) | `p.metrics`, the channel of 1000 | receive, tick | plugins, collector client |
| collector client (`pkg/exporter/collector/reportclient.go`) | the body being posted | `Send`: group, serialize, write with retries | collector |

What is hard in this code, and what makes each component correct:

* **Kernel maps shared by filters on several CPUs and a polling reader.** Look-up,
  delete and insert are separate steps on both sides; keys collide, maps fill
  up. Correct: an exchange is reported at most once, is never forgotten but for
  the named causes, describes the request it answers, with the right duration;
  a miss in `Delete`, which panics, does not happen.
* **Tables cleaned by callbacks that may not come**: a kretprobe without a free
  instance, a `tcp_close` on a socket without its port. Correct: a socket is
  attributed to a process that used it.
* **Retries over a consumed stream, a single goroutine that both receives and
  posts.** Correct: no metric is taken twice, lost before a post or overtaken;
  failure delays and does not stop the agent.
* **A table, a registration and events that race at start-up.** Correct: probes
  converge to the interfaces; an interface has one filter; a slow plugin delays
  a refresh and does not stop it.
* **A parser that stops and resumes** at segment boundaries, iteration limits and
  tail calls. Correct: it counts what is in the stream, once.
* **Payloads recognised by their bytes**, by tests tried one after the other and
  walks whose steps are lengths from the packet. Correct: what is read is what the
  bytes say.
* **Caches filled by several goroutines** from events, lists and kernel maps, keyed
  by things that are used again: addresses, ports, pids. Correct: an answer is
  about the present user of the key, or is stale for a bounded time.

## 2. Modules

| module | models | role |
|---|---|---|
| `Delivery` | what a stage of the agent promises about observations: each is taken once and leaves once, delivered or lost | abstract specification |
| `KernelMap` | update and delete on the preallocated eBPF hash maps | shared by the probes and `SockTrack` |
| `RpcProbe` | one rpc probe: filter, two maps, reader, `sendMetrics` | core component; implements `Delivery` |
| `RpcProbeProofs` | the inductive invariant of `RpcProbe` and its theorems | proofs |
| `HttpProbe` | one http probe: filter, two maps, `FanInMetric`, the export goroutine | component; implements `Delivery` |
| `SockTrack`, `MCSockTrack` | the kprobes of `sock.h` and the gRPC table of the filter | component |
| `Reporter`, `MCReporter` | controller and collector client | component; implements `Delivery` |
| `VethWatch` | kprobe plugin and the `Gather` loops of rpc, http and kafka | composition of the watcher with the plugins |
| `KafkaParser` | the resumable parser of fetch responses | operators over bytes |
| `KafkaProbe`, `MCKafkaProbe` | one kafka probe: request parsing, maps, response parser, reader, `sendMetrics` | component over `KafkaParser` |
| `Protocols` | the tests for Dubbo, MySQL, Redis, AMQP and HTTP/2 on a payload | operators over bytes |
| `Classify`, `MCClassify` | the order of these tests in the rpc filter, and the AMQP filter with its map | component over `Protocols` |
| `NatTable` | the probes on `nf_nat_setup_info` and the netfilter plugin | component |
| `PodCache` | the pod and service caches: informers, refresh, expiry | component |
| `OomWatch` | the process cache behind the clone probe, and the OOM events | component |
| `ReporterProofs`, `HttpProbeProofs`, `SockTrackProofs`, `VethWatchProofs`, `ClassifyProofs`, `KafkaProbeProofs` | inductive invariants and theorems of the module each is named after (section 5) | proofs |
| `CachesProofs` | those of `NatTable`, `PodCache` and `OomWatch` | proofs |
| `MCTables` | `SockTrack`, `NatTable`, `PodCache`, `OomWatch` side by side | run module |

### RpcProbe

A packet reaches the model classified: type, phase, tuple, TCP sequence number.
A request packet is one step (`RequestPacket`): its only map operation is the
update. A response takes two (`ResponseLookup`, `ResponseStore`), because another
CPU may act between the look-up and the delete, and a third in between if it does:
`request_pkg` points into the map, so that once the request has been replaced or deleted the
copy through it may go on with another request's bytes (`CopyOvertaken`). Such a
trace is `torn`, and nothing is said of its duration and path. The reader is a program counter
over `Next`, `Delete` and the channel send; `sendMetrics` receives, may skip, and
forwards. Requests and traces have identities, and `asked`, `made` and `fate`
remember what each carried and what became of it; the maps, CPUs and goroutines
hold identities, given out in a fixed order since they only tell things apart. A
request that finds the map full is recorded in `asked` and not in the map.

`Pinned` are the connections whose packets are filtered one at a time, as receive
steering normally arranges. Of the properties only `OneTracePerRequest` needs
it. `OnlyAnsweredRequestsLeave` has two cases: on a pinned connection a response deletes
the request it answers and no other; elsewhere it may also delete a request of its
connection that came after its look-up, which is what the separate look-up and delete
cost. The run has a connection of each kind.

Maps (`KernelMap`): `Fits` and `UpdateElem` are `bpf_map_update_elem` on a preallocated hash map,
which replaces or fails and never evicts. The clock is a natural number of which
the code keeps the low `Word` = 2^32.

### HttpProbe

The http filter differs from the rpc filter in what the model has to show. Both
maps are keyed by the connection, so a pipelined or lost response makes two
exchanges compete for one entry. Nothing is recorded before `filter_map` holds the
pod's IP (`PutFilter`). A response takes three steps, `ResponseMatch`,
`ResponseDelete` and `ResponseStore`: the value stored is read through the pointer
the look-up returned, after the entry was deleted. With `SlotsKept = FALSE` a
request on another CPU may get the slot of an exchange `v` that is in the map no more
(`RequestPacket(i, c, v)`), and the response then stores that request under its own key.
Nothing in the code prevents it: `AccountedFor`, `LostToSameConnection` and
`OnlyAnsweredLeave`, which are about the identity of what is stored, are stated for slots that
are kept. `NoReportWithoutResponse` holds without that and without pinning. `metrics_map` is
keyed by the connection of the response, and the metric's addresses are those of the
key: `answered` and `sent` count, per connection, the responses matched and the metrics
sent, and there are never more metrics than responses.

`FanInMetric` sends before it deletes: an entry that it has taken (`Taken`) is
still in the map while it waits for the channel, and a newer exchange stored there
meanwhile is deleted unread. A fragment in `Undecodable`, whose path `url.Parse`
rejects, ends the goroutine (`ReaderDecode`).

### SockTrack

Sockets are the ends of connections; both ends may be on the node. The kernel may
end a connection before the socket is closed (`Reset`), after which
`parse_sock_info` reads port 0. Returns from `tcp_recvmsg` may go unseen
(`RecvUnseen`). The kretprobe deletes its arguments and reads them afterwards:
two steps, and with `SlotsKept = FALSE` another receive may get the slot in
between. An entry of `filtered_connections` remembers the opening it was made in.

### Reporter

`Run` is one goroutine, so `pc` says whether it is in its select, between groups
of `Send`, or in the retry loop. The body of a group is the reading end of a pipe:
`http.Client` closes it with the first request, so a later attempt has nothing to
send (`BodyAfterWrite`). A post begins (`WriteBegins`), the collector may have read all
of it (`CollectorTakes`), and `Do` returns (`WriteReturns`) or does not: the client has no
timeout. The collector may take a batch and still answer with an error. A plugin may
send nil (kafka does for a target outside the cluster), which `Receive` throws away.
The names `span`, `trace` and `error` are part of the client's contract
(`group`); the plugins of today produce none of them, the run `report_retry` does.

### VethWatch

The interfaces are external (`LinkChange`). The refresh is read (`GetVethesDiff`),
critical section (`UpdateLinks`), one event at a time to each listener
(`NextEvent`, `SendEvent`). Each plugin reads the table, loads, registers, and then
handles events. `filters` counts the filters attached per plugin and interface: an
rpc probe that is closed, and a kafka probe that is forgotten, leave theirs; an
http engine detaches its own. `missed` and `failed` are the two named exceptions:
events sent while a plugin was between `GetVethes` and `RegisterNetLinkListener`,
and interfaces whose `Load` failed. kafka's initial loop ends the agent when a
`Load` fails (`exited`).

### KafkaParser and KafkaProbe

The streams of the peers are bytes, cut into segments; the filter sees segments in
order, again, or not at all. `KafkaParser` is the parser as operators: a cursor goes
through the cases of the two loops, which fall through, a run is at most
`MaxIterations` of them (`Loop`), and a segment takes runs until one ends with
something else than `LOOP_END` or the tail calls are used up (`ParseSegment`). Between
segments a context keeps the state, the bytes to skip and the remainder. `Packet` is
what the filter can read of a segment: its bytes, and zeros around them, as a load that
fails leaves the buffer.

Three facts about this code shape the model. `kafka_process_new_response` enters the
parser in `PARTITION_START` right behind the correlation id, and skips no response
header: for the bytes of a real broker the parser is out of step from there, and what
it counts is whatever those bytes say. `CountsWhole` is therefore stated for responses
*in step*, which have their partitions where the parser looks for them. The first
bytes of a 4-byte field that a segment boundary cuts are kept in `remainder_buf` and
then not used (`ReadRest`, `main.c:224-268`): the runs cut between fields. And
`kafka_in_flight` has one slot for all IPv4 connections (finding `kafka_slot`), so that
`CountsWhole` is about contexts with a transaction of their own connection.

At the end of a response `kafka_event` is written twice, by
`kafka_batch_enqueue_wrapper` and by the program (`RunParser`). The model makes the two
updates separate steps (`UpdateEvent`) between which the reader may come: a fetch is
then reported twice, and no more (`BoundedReports`). `convert2Metric` returns nil for a target
outside the cluster; `SendMetric` then sends nil, which is no report.

### Protocols and Classify

`Protocols` has one operator per test of `protocol.h`, `redis.h` and `amqp.h`, on a
payload of bytes. Bytes behind the end read as 0, as the zeroed buffer has them.
`Classify` is the chain of tests in `rpc__filter_package`. A payload that passes
`is_amqp` goes to `socket__amqp_filter`, which counts methods per tuple and makes a
trace when the connection closes; its entry may outlive its connection. A protocol
header (`AMQP...`) on a tuple that has an entry left over runs the filter on the
method stored there, which is counted again: `TraceCounts` says so.

`ScanAgrees` compares the scan of an HTTP/2 header block, which walks by lengths,
with the fields the block was written from. A packet with such a block carries the
offsets of its frames and its fields; `PacketsAssumption` says that they are those of its
bytes (`IsHeaders`): whole frames, at most `MaxFrames`, the last of them the only HEADERS
frame, whose payload is fields of one of three encodings (`IsEncoding`: an index below
64, a literal value with an indexed name, a literal name and value). `Reading` is what the
fields say, read as HPACK. Of other packets only that they are bytes is assumed.

### NatTable

The kernel sets up the two directions of a connection by two calls of
`nf_nat_setup_info`, in contexts of which several may have the same `pid_tgid` (the
idle task has 0). The return probe takes the connection from `conn_maps`, deletes the
entry and reads it afterwards. `Gather` takes the entries of `nf_conn_maps` in any
order and sets `natCache`, from which entries expire. `NatIsLatest` is stated for
clients that met none of the cases recorded in `disturbed`: two calls at once under
one `pid_tgid`, a slot reused while it was read, a return not seen, a full map, two
events with one time, two connections of a client waiting together.

### PodCache

Three goroutines write the two caches as sequences of `Set` and `Delete`: the
handlers of the two informers, in the order of the API server's events, and the
refresh, which reads a list (`Refresh`) and applies it item by item (`NextItem`,
`Apply`). The two caches are one function, whose keys `TwoCaches` keeps apart. The cluster is external. A pod that is
added before it has an IP is stored under the empty IP, and since there is no
`UpdateFunc` it is found by its IP only after the next list; the deletion of an older
pod with that IP removes it again. `StaleBounded` is the other direction: what is gone
is not found for long, even if a list that was read before the deletion is applied
after it. Of a deletion that an informer missed it hands on a tombstone: the pod handler's
type assertion panics (`crashed`), the service handler checks it and does nothing, so
that the entry goes with its life.

### OomWatch

A process that calls `clone` has an entry in `kprobe_sysctl_map`, which
`WatchKprobeSysClone` deletes and works off by reading `/proc`; the hourly refresh reads
all processes and stores them later. Pids are used again. `ProcessKnown` excepts what
the refresh stored of a process that had died (`raced`).

The probe on `oom_kill_process` inserts an empty record under the pid of the current
process (the one whose allocation triggered the kill, not the victim), looks it up and
fills it in; `WatchOOM` polls the map. `KillsCounted` excepts records read before they
were filled (`torn`) and inserts into a full map (`refused`).

## 3. Runs

| run | constants | shows |
|---|---|---|
| `rpc` | 2 connections, 2 CPUs, 2 requests, 2 traces, 2 sequence numbers, maps and channel of 1, `Word` 2 over 3 clock values, one connection pinned | types, durations, traces match requests, one each where pinned; a response deletes the request it answers or a later one; `Delete` finds its key; nothing forgotten or lost but to an equal sequence number; `Delivery` is implemented; every trace settles |
| `http` | 2 connections, one of them on any of 2 CPUs at once, 3 exchanges, maps and channel of 1, every fragment decodes | each answered exchange is in one place, leaves once and settles; `Delivery` is implemented |
| `http_race` | 2 connections on any of 2 CPUs at once, 3 exchanges, maps of 2, slots reused while they are read | no more metrics of a connection than responses matched |
| `http_decode` | 2 exchanges, one of which does not decode | **violated**: the other one may never leave |
| `sock_grpc` | 1 connection | **violated**: `grpc_connections` keeps the far end's key |
| `report_retry` | 3 metrics of 3 kinds or nil, channel of 1, 2 attempts, posts that fail or never return | no loss before a post, no duplicate, no overtaking; `Delivery` is implemented; every metric settles unless a post never returns |
| `report_success` | 1 metric, 3 attempts | **violated**: success is logged for a batch that failed |
| `veth` | 2 interfaces, http and kafka, channel of 1, 2 changes | probes follow links and converge to them; one filter per interface; refreshes complete |
| `kafka` | 2 connections, 4 worlds of streams, responses of 2 partitions and 3 batches in up to 7 segments (5 for the long form), one retransmission, one lost segment, 2 iterations, 2 arrays, 6 tail calls | every batch is counted once; unsupported versions are not followed; no request is reported more than twice |
| `kafka_slot` | the same | **violated**: a fetch is reported for another connection |
| `classify` | header blocks of up to 3 of 10 fields alone or behind a preface and other frames; 27 payloads of the other protocols; 2 tuples | the header scan reads what the block says; AMQP traces count their methods |
| `tables` | 2 threads, both ends of a connection opened twice, an argument table of 1; 3 connections (one of them DNS), 2 contexts, maps of 1 and 2; 1 pod, 1 service with 2 addresses, 4 units of time; 2 pids, 2 pods, 3 kills | sockets are attributed to their users; NAT answers are of the latest connection; nothing gone is found for long; processes are known by their pod; no kill is forgotten |

Bounds. The races of the rpc probe need a reader, two CPUs and two traces of one
sequence number. Maps of one entry make "full" happen. `Word` 2 with a clock up to 2
wraps between request and response. Two
requests are enough for one to take the other's place between look-up and delete, for
which the connection must not be pinned. The run has one message type; the proofs remove
this bound and all others for the safety properties of `RpcProbe`.
For the other modules section 5 lists the properties that hold without the bounds.
In `HttpProbe` an exchange is displaced by a second of its connection while the reader
holds a first; the third keeps the other connection busy. In `http_race` maps of two let
both CPUs be busy, with one connection or with two, while a third request takes a slot
that was freed. `SockTrack` needs a second
opening for an entry to outlive its socket. Three metrics and a channel of one let
metrics arrive while a batch is being posted, wait for the channel and form the next
batch. Two interfaces and a channel of one make the refresh wait while a plugin loads;
two changes cover appear-disappear and flaps. The rpc plugin's loop differs from
kafka's in that its first `Load` may fail without ending the agent, and from http's in
that `Close` leaves the filter, as kafka's does: the pair covers each branch.

For kafka, two iterations and two arrays make every limit of the parser bite in the
small responses: arrays are parsed in several runs, and a world of 14 partitions
without records uses the tail calls up. Versions 0 and 11 take the short and the long
form of every optional field. In `classify` three fields are enough for a field that is
skipped wrongly to shift the two behind it. `MCTables` rests all parts but one in their
initial states: they share no variable, so the product would add nothing. One pod
suffices for `StaleBounded`, which is about single pods: another pod can only replace
or remove its entries. Symmetry is used only in runs without liveness properties.

Deadlock is not checked where the inputs are bounded and the system may stop once
they are used up (`RpcProbe`, `HttpProbe`, `Reporter`, `KafkaProbe`, the tables), and in
`veth`, where kafka may end the agent.

Fairness. Goroutines are scheduled by the Go runtime and the filter runs to its end
once it has started: weak fairness of each of their steps. `Load` goes on to its Put.
Packets, ticks of the clock and interface changes have none. `Reporter` assumes nothing of
the collector: `http.Client` is made without a timeout, so the return of a post has no
fairness, and `EveryMetricSettles` names a post that never returns as the one thing that
leaves a metric unsettled. The ticker fires.
`VethWatch` assumes only that the refresh goroutine and each plugin go on. The other
modules have no liveness properties, and state no fairness.

## 4. Findings

* `report_success`: `Send` always returns nil, so `Run` logs success and clears its
  buffer after a batch was lost; the retry loop posts a closed body.
* `http_decode`: `FanInMetric` logs a decode error and then dereferences the nil metric
  that came with it. The panic is recovered outside the loop, so the goroutine ends
  and no later exchange of the interface is reported.
* `sock_grpc`: entries of `grpc_connections` outlive `tcp_close`, contrary to the comment
  in `rpc/main.c`.
* `kafka_slot`: `kafka_in_flight` is declared with a key of 4 bytes while the code passes
  tuple and correlation id. For IPv4 these 4 bytes are always 0, so all connections
  share one slot, and a fetch is reported for whichever connection sends next.

Facts that no comment of the repository contradicts are not runs; they are listed as
hazards with a note in `PROJECT.json`.

## 5. Proofs

Every theorem is of the form `Spec => []P`, an action property or a refinement, for
every value of the constants that the `ASSUME`s of the module allow: positive
capacities, natural bounds, functions from and to the sets they are used with, and
`None` is none of the identities, records and events that it stands beside. No theorem
assumes anything about the sizes of the sets. The bounds (`MaxCount`, `MaxConns` and so
on) are arbitrary too, so that the theorems hold for behaviours of any length. Of the
bytes on the wire `WorldsAssumption` says that they are bytes and that segments end in
their stream, `PacketsAssumption` what section 2 says of header blocks. Each
invariant that is proved to be inductive was first checked by TLC, on an instance like
that of the module's run (that of `OomWatch` not to the end of its state space).

| module | theorem | states |
|---|---|---|
| `RpcProbeProofs` | `TypeCorrect` | `TypeOK` |
| | `NoTraceForgottenOrCopied` | `Conserved` |
| | `DeleteNeverMisses` | `DeleteFindsKey` |
| | `OnlySameSeqDisplaces` | `LostToSameSeq` |
| | `TracesMatchRequests` | `RequestOfThePod` |
| | `RequestsTracedOnce` | `OneTracePerRequest` |
| | `DeletesTheRequestItAnswers` | `OnlyAnsweredRequestsLeave` (action property) |
| | `DurationsAreExact` | `DurationExact` |
| | `ProbeImplementsDelivery` | `RefinesDelivery` |
| `HttpProbeProofs` | `TypeCorrect` | `TypeOK` |
| | `ReportsArePaidFor` | `NoReportWithoutResponse`, for any slots and CPUs |
| | `LossWithinConnection` | `LostToSameConnection` |
| | `ExchangeAccountedFor` | `AccountedFor` |
| | `OnlyAnsweredRequestsLeave` | `OnlyAnsweredLeave` (action property) |
| | `ProbeImplementsDelivery` | `RefinesDelivery`, where `SlotsKept` |
| `ReporterProofs` | `TypeCorrect` | `TypeOK` |
| | `MetricsWaitOnce` | `WaitsOnce` |
| | `MetricsTakenOnce` | `TakenOnce` |
| | `MetricsTakenInOrder` | `TakenInOrder` |
| | `ReporterImplementsDelivery` | `RefinesDelivery` |
| `SockTrackProofs` | `TypeCorrect` | `TypeOK` |
| | `ReceivesAttributedToOwnSocket` | `OwnSocket` |
| | `KnownProcessIsCurrent` | `KnownProcessUsedSocket` |
| `VethWatchProofs` | `TypeCorrect` | `TypeOK` |
| | `ProbesAreThoseOfLinks` | `ProbesFollowLinks` |
| | `OneFilterPerInterface` | `OneFilter` |
| `CachesProofs` | `NatAnswersLatest` | `NatIsLatest` |
| | `GoneIsForgotten` | `StaleBounded` |
| | `ProcessesKnown` | `ProcessKnown` |
| | `NoKillForgotten` | `KillsCounted` |
| `ClassifyProofs` | `TracesCountOnce` | `TraceCounts` |
| | `ScanReadsFields` | `ScanAgrees` |
| `KafkaProbeProofs` | `KafkaTypes` | `TypeOK` |
| | `KafkaBoundedReports` | `BoundedReports` |

The proof of each module has one lemma per group of conjuncts of its invariant and in
it one step per action. None of the properties is inductive by itself; what each needs:

**RpcProbe** (`IInv`). `Conserved` and `OnePlace` need each
other (a hand-over moves a trace only if it was in one place before) and `Held`: the
reader's program counter, its key and its value agree, and a map slot is keyed by the
sequence number of what it holds, so that `Delete` removes what the reader read or
something newer with the same number. `RequestOfThePod` and `DurationExact` need
`Recorded`: what the request map holds was recorded, on that tuple, with the low word
of its time; the duration is then arithmetic modulo `Word`. `OnlyAnsweredRequestsLeave` needs
`InFlight`: what a response in flight finds in the request map is its request, nothing,
or a request that came after its look-up. `OneTracePerRequest` needs
`OneAtATime`: on a pinned connection a matched response has the connection to itself, and an
outstanding request has no trace but that one.

**HttpProbe** (`IInv`). `HeldByConnection`: whoever holds an exchange holds it under its
own connection, and all but `http_processing_map` hold answered ones. `OneAtATime`: on a
pinned connection one CPU at most is busy, the request it matched stays in the map until
it deletes it, and what it is about to store is stored nowhere yet. Together they give
that the four places of an exchange (a CPU, an entry the reader has not taken, the
channel, the hand of reader or exporter) exclude each other, which `AccountedFor` counts.
These invariants and the refinement hold where `SlotsKept`; without it a
response may carry another connection's request, as section 2 says. `ReportsArePaidFor` does
not use them: its invariant `Paid` counts, for each connection, the metrics sent, the one
the reader is about to send, the entry it has not taken and the CPUs with a response of it,
which together are at most the responses matched.

**Reporter** (`SafeInv`, `OrderInv`). The places of a metric are sequences, so that
`WaitsOnce` rests on their being without repetitions and disjoint (`OnePlace`), and on
what is held being pending but for a group whose body has been read (`HeldPending`,
and `Posting` while a post is under way). That
`Send` neither drops nor repeats a metric when it sorts a batch into groups is a fact
about `group`: it is defined by the positions of the metrics of each kind (`named`), and
`GroupMembers` states what it returns. For the order, what has been taken, what is being
posted, the groups behind it, the buffer and the channel are each in the order of `sent`,
and each is before the next within a kind (`OrderInv`).

**SockTrack** (`IInv`). `ArgsOwn`: a thread inside `tcp_recvmsg` has no entry in
`active_recv_args` or its own, since a new receive overwrites what an unseen return left,
and its socket is not closed while it is in it. `ResetSeen` ties a port of 0 to a reset, so that
`tcp_close` of any other socket deletes the key under which the process was stored.

**VethWatch** (`IInv`). `Follows` states `ProbesFollowLinks` while events are under way: for each plugin
and interface, either the refresh has an event for it still to send, or the last event
for it in the channel tells whether it is in `netLinks`, or there is none and the
plugin's probes agree with `netLinks`. `Announced` and `Registered` say what the refresh
still has to send and to whom, `LoadsWhatItRead` covers the time before registration.
`OneFilter` is counted by the `LinkDelete`s handled and the probe that is held now.

**OomWatch** (`ProcInv`, `KillInv`; `OomSpec` lets all its parts take steps). A live process that
has called `clone` has an entry that waits, or the reader is at it with a current read,
or the cache has its pod (`KnownInv`); it is here that `Delete` before the read of
`/proc` matters. For the kills, `EventPlaced` says where the record of each kill is
while the probe is between its steps, and `OwnPid` that a filled record has the pid of its key;
the reader's entry is there until it deletes it, for nobody else does (`ProbeState`).

**PodCache** (`PodInv`; `PodSpec` lets pods and services change in one behaviour, which
the run keeps apart). `Ends(k, v)` is when it ceased to be so that `v` is behind key `k`.
An entry's deadline is within its life and `MaxDelay` of that (`EntriesEnd`), because what
the refresh has still to set was so when it was listed, what an informer has still to
set was so `MaxDelay` ago, and what an event tells was so when it happened
(`CallsAreRecent`), while nobody is late (`Punctual`). A step that ends something
ends it now (`EndsNow`), so that none of these bounds is ever overtaken.

**NatTable** (`NatInv`; `NatSpec` likewise). `disturbed` lists the cases in which
the answer may be wrong; the theorem says that the list is complete. A call of a client
outside it finds its own connection in `conn_maps` and in the slot it has deleted
(`FindsOwn`) and no other call finds it (`FoundByOwner`); the reader holds an entry
that is still in the map (`ReaderHas`); and `EventsAreLatest` follows the one event of the client from the
map to the cache, using that the kernel sets the client's connections up in order
(`SetUpInOrder`).

**Classify** (`CountInv`, `KnownPacket`). An entry covers what came on its tuple since
the last trace, and without an entry nothing that counts has come (`EntryCounts`). The
proof is for any packets: of `is_amqp` it uses which classes and methods it lets through.
`ScanAgrees` is a fact about the packet in the filter, so that all of the work is in the
operators. One round of the scan at the beginning of a field takes that field and stops
behind it, for each of the three encodings (`IndexedField`, `LiteralField`,
`NewNameField`); a field adds to a reading what the round adds to the cursor
(`ReadingGoesOn`, `ReadingEnds`); so the cursor after k rounds agrees with the first k
fields and stands behind them (`Agrees`). `HeadersAgree` finds the frames in the same way.

**KafkaProbe** (`TypeInv`, `ReportInv`). For the types there is one lemma per operator of
the parser, over cursors (`Cursor`) whose list of arrays and whose count agree (`Noted`
at the partition level, `Listed` at the record batch level: an array that goes on from
the segment before is counted and not listed). What has to be excluded is an array
looked up behind the end of the list, and a negative offset kept for the next segment:
`Waits` says that a context left behind has a carry of at least 0 and at most one array.
For `BoundedReports` the copies of a transaction are counted together: an update still
to be made, an entry of `kafka_event` that the reader is not about to delete, the
reader's value, the channel and the reports count one, the slot and a context count two,
since the end of a response writes two updates (`InFilter`, `InReader`). A transaction whose segment has
not come has no copies (`Fresh`); each segment makes one transaction at most; and no
step adds a copy (`Bounded`).

The loops of the parser and of the scan are recursive functions. That there is a
function satisfying their equation, and that an invariant holds after every round, are
inductions; each is made here by hand, by looking at the least number of rounds for which it fails
(`LeastNatural`, from the library's `NatLessThanWellFounded`).

Only model-checked:

* the liveness properties (`EveryTraceSettles`, `EveryExchangeSettles`,
  `EveryMetricSettles`, `RefreshCompletes`, `ProbesConverge`), which TLAPS cannot prove;
* `CountsWhole`. What the parser has counted at a position of the stream depends on the
  nesting of partitions, arrays and batches in front of it, and on how far the two levels
  have gone into it. A proof needs a grammar of responses as an assumption on
  `Worlds`, and an invariant that ties every state of both levels, every carry and every
  list of arrays to a place in it. The argument for the loops that the types needed would
  carry it; this part has not been written.

## 6. What is left

All modules are written, and of the safety properties that the runs check all but
`CountsWhole` are proved. Its proof is the next step: the streams of `MCKafkaProbe` are the
grammar that `WorldsAssumption` would state, and `batches` its leaves.

## 7. Not modelled

* The traffic plugin and the influxdb output: the agent does not enable them.
* `hpack`: a third-party decoder and its tables, used to print header strings.
* Configuration, the Kubernetes client, byte-order helpers: no state.
* The conversions to metric tags (`http/meta`, `convertRpc2Metric`, `convert2Metric` of
  kafka): they look pods, services and NAT entries up and copy labels. That a
  conversion yields nothing is modelled where something depends on it.
* `updateServiceNode`: reads the pod cache every 5 minutes and posts a metric for each
  entry of a pod on the node, past the controller; it changes no state of the agent.
* The parser of `/dev/kmsg` in the memory plugin, `is_kafka`, the probes on
  `ipt_do_table`: not used or never attached.
* The flexible encodings (version 12 and later) and the states before
  `PARTITION_START` of the kafka parser: not reachable.
* The capacities of `amqp_filter_map`, `kafka_in_flight`, `kafka_response` and
  `kafka_event`, and the times in kafka transactions.
* Two CPUs with AMQP packets of one tuple: `is_amqp`'s write and the filter's count are one
  step (`AmqpPacket`); two such packets at once could lose a count. Tuples share no entry.
* A process whose cgroup changes after `clone`: in `OomWatch` a process has one pod for
  its life (`StartProcess`). The caches then have what `/proc` said when it was read.
* The vendored eBPF headers.
