# Verification of loaderbot

loaderbot is a load-testing tool. A *runner* fires requests at a target following a plan,
collects the answers per *tick* and reports them. A *node* is a gRPC service that runs a
runner for a remote client and streams its batches back. A *cluster client* runs one test on
several nodes and adds up their batches.

This directory holds TLA+ models of these parts, the TLC runs that check them on small
instances, and proofs, checked by TLAPS, that their safety properties hold for every size:
of runners, nodes, clusters, configurations, reports and shared data.
`PROJECT.json` maps every definition to the lines it models and lists the runs, the known
hazards of the code, and, for each property, a plausible bug that the property catches.

## 1. The system

### Components

| Part | State | Operations | What makes it correct |
|---|---|---|---|
| Scheduler, `runner.go` `schedule` | step, tick, requests fired in the tick, target rate | wait for the limiter, offer a token on `next` (retry when nobody takes it), count it, close the tick, start a step, close `next` on cancellation | every tick gets exactly its target; the load follows the plan |
| Attackers, `attack.go` | the token in hand, its request context, `Do` in a goroutine of its own | take a token; wait for answer, deadline or end of the test; deliver a result | a fired request is delivered at most once, none is lost while the test runs; attackers end with the test |
| Collector, `runner.go` `collectResults`, `processTickMetrics`, `scaleAttackers` | samples per tick, `uniqErrors`, `Failed` | receive a result; complete, stream, judge and report a tick; add attackers | a reported tick has all its requests, and is reported once; a tick below `SuccessRatio` ends the test |
| Streamer, `service.go` `streamResults` | - | forward `OutResults` to the gRPC stream, log what fails, cancel a failed runner | the client gets what the run reports, in the same order, until the stream breaks |
| Signal handler, `utils.go` | - | cancel, exit the process | `Run` does not wait for it for ever |
| `Run`, `runner.go` | wait group | start everything, wait, flush the reports | it returns; it flushes after the last row |
| Node service, `service.go` | `busy`, `runnerCancelFunc` | `Status`, `Run`, `ShutdownNode` | one runner at a time; a shutdown ends the running test; a node gets free again |
| Cluster client, `client.go` | `activeClients`, batches per tick, `failed`, a goroutine per node | ask the nodes, start, receive, add up, shut down, return | a tick that is added up has one batch of every node; no batch is left behind; a bad test fails everywhere |
| Configuration, `config.go`, `configToNodes` | - | validate, default values, split among nodes | what is accepted can be run; the nodes together produce the planned load |
| Tick metrics, `metrics.go`, `result.go` | counters of a tick | `add` per sample, `update` once | the figures are those of the samples, in whatever order they came |
| Report files, `report.go` | buffered CSV writers | one row per tick or result, flush, read back (`plot`, `maxRPS`) | what is read back is what was reported |
| Charts, `graph_report.go`, `slack_report.go` | - | parse a file into lines, pair X and Y values | every row is a point, at its place; only the chart of response times is modelled |
| Prometheus reporter, `prometheus_metrics.go` | six gauges, the registry of the process | register, set | a scrape shows one runner and one moment |
| Shared data, `shared.go` | ring of test data, mutex | `Get`, `Add` | every datum handed out in turn |
| HTTP client and example attackers, `default_http_client.go`, `http_attacker_mock.go`, `attacker_with_data.go` | pool of connections, responses in hand | draw a datum, request, dump, read the body, answer | an attempt ends, its failure is told, its connection comes back |

Left out of the models: logging, profiling, the fasthttp client, chart rendering, the charts of scaling
and those for Slack, generated code, the type registry, other mocks, commands and examples. They are
I/O, set-up of libraries or the user's side of the interface; in `Runner`, `Do` of an attacker is any
answer, or none.

### How they interact

Inside a runner all communication is by channels: `next` (unbuffered, scheduler to
attackers), `results` (attackers to collector), `OutResults` (collector to streamer), and the
context `TimeoutCtx` everybody watches. The caller gives `Run` a context; the timeout of the
test, a bad tick, a signal, the streamer and `ShutdownNode` all cancel it. A node keeps the
cancel function of the runner it started last and a busy flag with a mutex around each access.
A cluster client reads the streams of its nodes in one goroutine each, which hand the batches
over an unbuffered channel to the client, and calls `ShutdownNode` on all nodes when a tick is
bad.

The collector alone writes the metrics, the rows and the gauges; `Run` reads the rows back from
their file when the collector has ended. The attackers of a run share its test data, guarded
by a mutex, and all HTTP clients of a process share one transport and so its pool.

### What is hard about it

* Several cases of a `select` are ready at once: an answer, a deadline and the end of the
  test; a result and the end of the test (`attack.go:43`, `runner.go:282`).
* Ticks complete out of order, and the entry of a reported tick is deleted, so that a
  late result would create it anew (`runner.go:328`, `runner.go:387`).
* Full channels: `results`, `OutResults`, and a gRPC stream nobody reads.
* Check and set of the busy flag are two critical sections (`service.go:66-71`).
* The end: who waits for whom, what is still flushed, sent or read after a cancellation.
* Arithmetic at the edges: ticks counted from 1, a duration of 0, shares that are quotients.
* Lists that belong together and are handled apart: X and Y values of a chart line, the
  gauges of a tick, the rows in a writer and those in its file.
* What a timed-out `Do` still does: it draws data, and it holds a connection.

`PROJECT.json` lists 40 hazards at their lines, each with the properties that cover it or the
reason why none does.

## 2. The modules

| Module | What it models | Composition |
|---|---|---|
| `TickReports` | abstract: what a run promises to the reader of its reports | refined by `Runner` (`KeepsPromise`) |
| `StreamedRun` | abstract: what a node relies on when it streams a run | refined by `Runner` (`RunStreams`) and by each run inside `Node` (`RunsAreStreamed`) |
| `Runner` | `runner.go`, `attack.go`, the streamer of `service.go`, `utils.go` | - |
| `RunnerInvariant` | the inductive invariant of `Runner` | extends `Runner` |
| `RunnerProofs` | proofs: types, the reports, the flush, the refinement of `TickReports` | extends `RunnerInvariant` |
| `RunnerFlowProofs` | proofs: the plan, the requests, the stream, the failures, the refinement of `StreamedRun` | extends `RunnerProofs` |
| `Node` | `service.go`, for any number of concurrent calls | its runs are those of `StreamedRun` |
| `NodeProofs` | proofs: one runner at a time, what a node does to its runs | extends `Node` |
| `Cluster` | `client.go` | extends `Node`: the clients are its callers |
| `ClusterProofs` | proofs: what clients count and add up, how a test ends | extends `Cluster`, `NodeProofs` |
| `Config` | `config.go`, `configToNodes`, the start of a runner | - |
| `ConfigProofs` | proofs: the split, its losses, what an accepted test can run | extends `Config` |
| `Sorting` | values in order, told without a sorting algorithm | - |
| `Metrics` | `metrics.go`, as operators, and the same figures told from all samples at once | extends `Sorting` |
| `Charts` | the chart of response times of `graph_report.go`, as operators | extends `Sorting` |
| `Reporting` | what `runner.go`, `report.go` and `prometheus_metrics.go` make of the results of a run | extends `Metrics` and `Charts` |
| `FoldFacts` | lemmas: induction on numbers, what a fold computes | instantiated for the fold of `Metrics` |
| `ReportingProofs` | proofs: the figures of a tick, chart, maximum, gauges | extends `Reporting` |
| `Ring` | abstract: what shared data promise to those who draw from them | refined by `SharedData` (`RoundRobin`) |
| `SharedData` | `shared.go`, for any number of goroutines | - |
| `Attempts` | `Do` of the example attackers and the HTTP client | extends `SharedData`: the attackers are its callers |
| `SharedDataProofs` | proofs: the ring and its rounds, the mutex, connections, failures | extends `Attempts` |
| `MCRunner`, `MCNode`, `MCCluster`, `MCConfig`, `MCReporting`, `MCAttempts` | constants for TLC | extend the above |

The composition is assume-guarantee. `Runner` in full detail is too large to be put several
times into a cluster, so `Node` uses the four lines `StreamedRun` says of a run (each batch
is of a new tick; a bad batch fails the run just after it was queued; a failed run is
cancelled; the queue closes only after a cancellation). That `Runner` does no more than that is
checked by `runner_steps` and proved (`RunIsStreamedRun`); that a node, whatever its calls do to
each other, does nothing to a run that would leave it is checked by `cluster_shared` and proved
(`NodeRunsAreStreamed`). So what is proved of a cluster is proved of the runners in it.

### Runner

An action is what a goroutine does between two channel operations.

| State | Code |
|---|---|
| `cancelled` | `TimeoutCtx.Done()`, however it came about |
| `sched`, `step`, `tick`, `firedInTick`, `targetRPS` | the locals of `schedule`; `sched` is "check" before the look at `TimeoutCtx`, "offer" at the send on `next` |
| `fired` | history of the tokens sent; a request is its position in it |
| `atk`, `holds`, `outcome` | where each `attack` goroutine is, its token, the result it will send |
| `call`, `reqCtx` | per request: the goroutine of `Do` and the channel `done`; the request context |
| `results`, `OutResults` | the channels, with capacities `ResultsCapacity` and `OutResultsCapacity` |
| `col`, `cur`, `samples`, `uniqErrors`, `Failed` | the collector, the tick it works on, `receivedTickMetrics` |
| `reports`, `flushed` | history: what was reported, what was on disk when `Run` returned |
| `taken`, `sent`, `broken` | history: the batches the streamer took, those that `Send` passed on, whether the stream has failed |
| `str`, `sig`, `main`, `alive` | streamer, signal handler, `Run`, the process |

`SchedulerFire` is the rendezvous on `next` with the counting that follows it.
`DoReturns` is the inner `select` of `attack`: `Do` has returned, and the goroutine finds the
run cancelled (and cancels the request), the request context done, or room in `done`.
`AttackAbandon`, `AttackTimeout` and `AttackAnswer` are the three cases of the outer
`select`. `CollectorReceive` adds a result to its tick and finds out whether that completes
it; `CollectorStream` is the blocking send on `OutResults`; `CollectorJudge` is all the
rest of `processTickMetrics`. The measured rate that triggers scaling depends on time, so
that any tick may scale. A limiter only delays, so that it is no state.
`StreamerTake` and `StreamerSend` are an iteration of `streamResults`. A batch is sent whole, is cut
where `Encode` failed (what it wrote is sent all the same), or is lost with a `Send` that fails, after
which every `Send` fails; all errors are logged only, and the loop goes on (`Fates`).

### Node and Cluster

A call of `Run` walks through "check" (reads busy), "claim" (about to set it), "build" (makes
the runner and publishes its cancel function), "stream" and "failed?" (`streamResults`) and
"release" (clears busy). `wire` is what is in transit to the caller: `Send` blocks when it is
full and fails, without consequences, when the stream is broken. gRPC itself is modelled
from how the code uses it: a stream delivers in order, and what is in transit is lost when it
breaks (`HangUp`, `Crash`). `Status`, `Run` and `ShutdownNode` of a node that is up are
answered.

A client dials a node and asks its status, one node after the other (`contact`). `Dial` has no deadline
(`grpc.WithBlock` in `client.go:22-26`): while the node is down it waits, for ever if the node stays
down (`DialBlocked`). A node that goes down after that makes the next call of it fail (`CallFails`), and
so does a chunk that cannot be decoded (`ReceiveCut`): both are `log.Fatal`, which ends the process of
the client and breaks all its streams (`Fatal`). The client asks each node (`AskStatus`), starts a
goroutine per node (`StartReceiver`), collects (`Collect`, `AllExited`), and shuts down node by node
(`Shutdown`). Its context ends the stream (`StreamTimesOut`). A batch carries whether it is below the
ratio; whether the requests of several batches together are below it is certain only when all or none of
them are (`BelowTogether`), else both outcomes are explored.

### Config

A node goes through "split", "validate", "default", "start", "running", and ends in "exited"
or "panicked" when the code calls `Fatal` or panics. Integers may be negative, division
truncates as in Go. Names, directories, log settings, report options, Prometheus port and scaling
defaults are left out.

### Reporting, Metrics and Charts

`Reporting` takes from `Runner` which results a collector gets: as many per tick as its target,
in any order, until the run is cancelled. A sample carries when its request began and ended
and how it ended. `Receive` is the collection of a result, `WriteRow` the metrics of a complete
tick and its row, `SetGauge` each `Set` of `reportTick`, `ForgetTick` the deletion of the entry.
`onDisk` counts the rows the buffered writer has passed on, at any moment, whole rows only: a row
cut in two would matter to a reader of the file only before the flush, and there is none.
`FlushLogs`, `Plot` and `ReadMaxRPS` are the end of `Run`. `RegisterGauge` is each registration
in `NewPromReporter`, `exported` what the registry of the process shows.

`Metrics!MetricsOf` folds `Add` over the samples and applies `Updated`, statement by statement as
the code does; `Metrics!Summary` tells the same figures from the samples as a whole, and the properties
compare what comes out of the files with it. Times count from 1, since 0 is the zero time of
Go that `Earlier` treats as unset. Fractions are truncated as in the rows. The
estimator of percentiles is taken as exact: a percentile is the value at a rank, which
`Sorting!Ranked` tells by counting the values below it and up to it.

`Charts` has no state. A file is the sequence of its rows, a line the pair of lists the code builds,
and `Points` is what the charting library does with it: the n-th Y value is drawn at the n-th X value.
All lines get the X axis of one of them.

### SharedData and Attempts

Each statement of `Get` and `Add` is an action, so that it is the mutex, and not the model, that
makes calls atomic. `Ring` is the sequential object; under the mapping a call happens at
`GetRead` or `AddAppend`. `handed` is the history of the data handed out.

In `Attempts` a caller goes through "get", "send" (waits for a connection), "wait" (for the
response) and "finish". `active` has the callers whose response holds a connection, `unread`
counts those that responses nobody will read still hold until their client's timer closes them
(`Expire`; the timer of a `http.Client` runs until its body is read or closed). A response
declares JSON or not, has a body or not, and may come with the error of the redirect limit, in which
case `net/http` returns both and has closed the body (`ClosedBody`). The dump of a
response reads its body and puts a copy in its place. `CopyError` is what
`HTTPAttackerExample` gets from reading the body, which replaces the client's error.

`validUrl` and `given` are what nobody validates: whether `TargetUrl` parses, and whether the runner got
test data (a node passes nil, `service.go:73`). Without data the draw of `DataAttackerExample` panics
(`NoTestData`). `HTTPAttackerExample` ignores the error of making its request and panics on the nil
request (`RequestPanic`), where `client.Get` returns the error (`Fail`).

## 3. What is checked

| Run | Question | Instance | Distinct states |
|---|---|---|---|
| `runner_steps` | are reports whole and told once, requests accounted for, is the plan followed, does a bad tick end the run, is everything flushed and streamed, is a `Do` nobody waits for told to return; does the run refine `TickReports` and `StreamedRun` | 2 attackers, 3 requests in ticks of 1 and 2, ratio 50 %, `results` and `OutResults` of 1, a batch arrives whole, cut or not at all | 1,035,000 |
| `runner_live` | does a cancelled `Run` return, do all goroutines end, is every closed tick reported while nobody ends the run | autoscaling from 2 attackers to 3, ticks of 1 request, `results` of 1, streamed, `Do` may hang | 238,000 |
| `config_split` | is an accepted configuration one that runs, is the load preserved by the split | 2 nodes; rates, steps, durations from -1 up | 47,000 |
| `node_serial` | one runner at a time, and does the node get free | 2 calls, 2 ticks, a caller that may not receive | 27,000 |
| `cluster_test` | is a tick added up from all nodes, is no batch left behind, does a bad tick end the test | 1 client, 2 nodes, 2 ticks | 2,030,000 |
| `cluster_shared` | do clients end and nodes get free when calls overlap, nodes die and chunks are cut | 2 clients, 1 node that may crash or hang | 465,000 |
| `reporting` | are chart, maximum and gauges those of the samples, whatever the order | 3 ticks of 1, 2 and 1 requests with 4 kinds of samples, 2 runners of one name | 395,000 |
| `attempts` | are data handed out in turn, what may end the process, are failures told and connections returned, does every attempt end | 2 attackers that draw and 1 that does not, 2 connections, 5 kinds of responses, 3 draws, no test data, or no or one datum and one added, a URL that parses or not | 125,000 |

Why these bounds are enough: three requests of two attackers give a closed tick of two
requests, a tick before it, a request in flight beyond it, and every order of their results;
a request can be in four places, and two attackers suffice for two requests to overtake each
other. Capacities of one make every buffered channel fill up. An attacker with a result for a full
`results` blocks for ever once the collector has ended (`attack.go:68`, where only the capacity of
100,000 makes it rare): `Stuck` is that state, and `GoroutinesExit` names it as the one exception.
In `runner_live` the results of two ticks of one request can overtake each other, on the way to
`results` and while one of them waits for its deadline. Two nodes
are the fewest that can disagree on a tick, two ticks the fewest that can be out of order
between nodes. The behaviours end when the bound `MaxRequests` is reached: the scheduler then
retries until the run is cancelled, as it would with all attackers at work.
`SamplesPerAttacker` is 100 in the code and 1 here. No run has the mode `UnboundRPS`: it differs in
the limit of the rate and the size of its ticks, and the proofs are for all modes.
`badStatus` answers occur in `runner_test_end` only, `CutChunks` in `cluster_shared` only: elsewhere they
would multiply the states of a question they do not touch.

`reporting` has a tick of two requests so that samples of a tick arrive in both orders and two
ticks interleave, samples that begin together and apart, succeed with and without a status and
fail with and without an error text. Two runners of one name show the refusal of the registry.
In `attempts` two connections for three callers let the pool run out, with one of them
held by a response left unread, three draws from two data wrap the ring, and a datum added at any
point of the round may come before or after the wrap. `MaxGets` ends the draws only.

### Fairness

`Runner!Fairness`: a goroutine that can run does run (the Go scheduler is preemptive), and while
the run is not cancelled the deadline of a request passes (a timer). Neither the timeout of the
test nor a signal need come and the user's `Do` need not return: `RunReturns` and
`GoroutinesExit` start from a cancellation, whoever caused it, and `ClosedTicksReported` is
about runs nobody ends. Fairness is per goroutine, so that the choice of a `select` is not fair:
liveness holds whichever case is taken. What these properties wait for stays once it is there, so that they are
written `[]<>(P => Q)`, which then says `P ~> Q`. The streamer is fair although `Send` may block on a slow
client: the context of the client has a deadline (`client.go:37`), after which `Send` fails.
Nothing is fair after `os.Exit`.

`Node!NodeFairness`: handlers and runs go on, test time passes. `CallerFairness`: a caller
receives or its stream breaks; without it `Send` would block for ever on a full stream.
`Cluster!FairSpec` asks only for the client's own goroutines and timers: that the client ends
must not depend on the nodes, which may hang or die; a dial of a dead node, which blocks without
a deadline, is the exception `ClientEnds` names. Unary calls to a living node are
answered.

`Attempts!FairSpec`: a goroutine that can run does run, and a client's time passes (`Fail`, which
needs nothing else, and `Expire`). `Draw` is strongly fair: taking a mutex is enabled again
and again only, and a mutex of Go is handed to whoever has waited for a millisecond. Nobody has
to start an attempt, and no server has to answer.

### Where the code does not do what its documentation says

Four runs look for a counterexample to a comment or a test, and find it. Their steps are those
of the models above.

* `runner_test_end` (`runner_test.go:93`, "request still hangs when the test ends, but it's
  not an error because test has ended"): as `Do` returns, its goroutine finds the run
  cancelled and cancels the request context; the outer `select` then has both contexts done
  and may take the request's, which makes a timeout that the collector, whose own `select`
  may still prefer a result, counts in `uniqErrors`.
* `config_duration` (`config.go:161`, "please set step duration > 0"): a duration of 0 is
  accepted and makes the scheduler divide by zero when its first tick closes.
* `node_policy` (`service.go:16`, "only one runner is allowed per node"): two calls pass the
  busy check before either sets the flag.
* `cluster_others` (`service.go:51`, "other nodes will be cancelled by client"): the client
  judges only ticks that every node has sent. When the run of one node fails on its tick and
  the tick of all nodes together is good enough, the others are not cancelled.

Some more were seen while modelling; they follow from single lines, so no run is spent on
them:

* The first step is one tick short, since ticks count from 1, unless steps last one tick: a
  step starts as a tick closes, so that none starts with tick 1 (`runner.go:259`, where `config.go:45`
  says that a step lasts `StepDurationSec`). `LoadFollowsPlan` states the length of every step and
  names this exception.
* Batches may follow the one that failed the run (`runner.go:282` against `service.go:51`).
* After a timeout an attacker goes on while its `Do` still runs (`attack.go:47` against
  `config.go:27`).
* The default step duration is 10, not 30 (`config.go:114` against `config.go:48`).
* Shares of nodes are truncated, and a share of 0 becomes the default of 10 requests on every
  node (`client.go:131-134`, `config.go:109`).
* A busy node is not skipped (`errors.go:10`, `client.go:103-107`).
* A failing load need not fail a cluster test: nodes that fail on different ticks never make
  a tick that can be added up (`client.go:175` against `cluster_test.go:78`).
* A negative `StartRPS` is accepted, and no tick ever closes.
* A tick whose requests all began at once, as every tick of one request, has rate 0 and always
  scales (`metrics.go:124`, `runner.go:310`).
* All lines of a scaling chart get the X axis of one handle, any one (`graph_report.go:162-165`),
  and the charts for Slack sort the X values without the Y values (`slack_report.go:59, 162`); neither is
  modelled, since the points are right only when the input happens to make these steps idle.
* A second runner of the same name in a process is never exported to Prometheus
  (`prometheus_metrics.go:25`).
* A request that fails at the limit of redirects is reported as a success when nothing is left of
  the last body to read (`http_attacker_mock.go:30`); `FailuresReported` says that this is the
  only way to lose a failure.
* With `DumpTransport`, a response that declares JSON and is none ends the process
  (`default_http_client.go:88-104`), a `TargetUrl` that does not parse ends that of an
  `HTTPAttackerExample` (`http_attacker_mock.go:27-28`), and missing test data that of a
  `DataAttackerExample`, always on a node (`attacker_with_data.go:25`, `service.go:73`).
  `KnownDeaths` says that an attempt ends it in no other way.
* A batch that cannot be encoded is sent in part (`service.go:44-47`), and the client exits when it
  decodes it. A `Send` that fails does not end the run (`service.go:48-50`).
* A client dials its nodes without a deadline, and `TestTimeSec` does not count yet, so that a node
  that is down blocks it for ever (`client.go:22-26`).

## 4. What is proved

Every safety property of every run, that is every invariant, action property and refinement that
is not about something that must happen, is a theorem too, and the theorem is for every value
of the constants. The proofs are checked by `tlapm` down to the last leaf.

| Theorem | Module | States |
|---|---|---|
| `TypeCorrect` | `RunnerProofs` | `Spec => []TypeOK` |
| `ReportsAreComplete` | `RunnerProofs` | `Spec => []ReportsComplete` |
| `FlushIsLast` | `RunnerProofs` | `Spec => []FlushCoversReports` |
| `RunKeepsPromise` | `RunnerProofs` | `Spec => KeepsPromise`, the refinement of `TickReports`: each report tells a closed tick, and no tick twice |
| `PlanIsFollowed` | `RunnerFlowProofs` | `Spec => []LoadFollowsPlan` |
| `RequestsAreAccounted` | `RunnerFlowProofs` | `Spec => []RequestsAccounted` |
| `OrphansAreCancelled` | `RunnerFlowProofs` | `Spec => []OrphansCancelled` |
| `StreamIsWhole` | `RunnerFlowProofs` | `Spec => []StreamCarriesReports` |
| `FailuresEndRun` | `RunnerFlowProofs` | `Spec => []FailuresCancel` |
| `RunIsStreamedRun` | `RunnerFlowProofs` | `Spec => RunStreams`, the refinement of `StreamedRun`, when there is a stream |
| `OneAtATime` | `NodeProofs` | `SerialSpec => []OneRunAtATime` |
| `NodesAreFreed` | `ClusterProofs` | `Spec => []BusyEnds` |
| `NodeRunsAreStreamed` | `ClusterProofs` | `Spec => RunsAreStreamed` |
| `TypeCorrect` | `ClusterProofs` | `Spec => []TypeOK` |
| `NothingIsLeftBehind` | `ClusterProofs` | `Spec => []NothingLeftBehind` |
| `AllNodesAreAdded` | `ClusterProofs` | `Spec => []AggregatesAllNodes` |
| `BadTicksEndTests` | `ClusterProofs` | `Spec /\ [][NoOverlap]_vars => []BadTickEndsTest` |
| `BadTickEndsOnlyTest` | `ClusterProofs` | `Spec => []BadTickEndsTest`, with one client |
| `TypeCorrect` | `ConfigProofs` | `Spec => []TypeOK` |
| `SplitsAreSound` | `ConfigProofs` | `Spec => []SplitIsSound` |
| `SplitsLoseLittle` | `ConfigProofs` | `Spec => []SplitLosesLittle` |
| `BoundTestsDoShoot` | `ConfigProofs` | `Spec => []BoundTestsShoot` |
| `FiguresAreExact` | `ReportingProofs` | `MetricsOf(ss) = Summary(ss)` for all nonempty sequences of samples |
| `TypeCorrect` | `ReportingProofs` | `Spec => []TypeOK` |
| `ScrapesAreOfOneRunner` | `ReportingProofs` | `Spec => []ScrapeOfOneRunner` |
| `ChartIsOfReports` | `ReportingProofs` | `Spec => []ChartShowsReports` |
| `MaxIsReached` | `ReportingProofs` | `Spec => []MaxRPSIsReached` |
| `MutexWorks` | `SharedDataProofs` | `DataSpec => []DataInv`: one goroutine at a time is inside a call |
| `RoundRobinHolds` | `SharedDataProofs` | `DataSpec => RoundRobin`, the refinement of `Ring`, for any callers |
| `AttemptsDrawRound` | `SharedDataProofs` | `Spec => RoundRobin`, the same for the attackers of a run |
| `NothingSkipped` | `SharedDataProofs` | `Spec => []NoDatumSkipped` |
| `ProcessSurvives` | `SharedDataProofs` | `Spec => []KnownDeaths` |
| `TypeCorrect` | `SharedDataProofs` | `Spec => []TypeOK` |
| `ConnectionsComeBack` | `SharedDataProofs` | `Spec => []ConnectionsReturned` |
| `FailuresAreReported` | `SharedDataProofs` | `Spec => FailuresReported` |

### Assumptions

Each module declares those of its constants, and TLC evaluates them on its runs.

* `Runner`: `PoolAssumption` (a finite pool, someone starts), `ScheduleAssumption` (positive
  rate, duration and sample size) and `ReportAssumption` (positive capacities). The code does
  not establish all of the second for every configuration it accepts: a rate or duration of 0
  and a negative rate may get through (section 3), and then the runner panics or closes no tick.
  `BoundTestsDoShoot` says what it does establish: a `BoundRPS` test that runs has attackers and
  a positive rate unless the user wrote a negative one; and `SplitsAreSound` that the split of a
  sound plan is a plan every node can run. `RunIsStreamedRun` assumes `Stream`: only
  then does a node read what the run queues.
* `Node` and `Cluster`: finitely many nodes. `OneAtATime` and `BadTicksEndTests` are about
  behaviours in which no call passes the busy check of a node while another has passed it and not
  yet set the flag (`NoOverlap`). The code does not ensure that, and both fail without it:
  `node_policy` shows two runners on a node, and then `ShutdownNode` cancels only the run that
  started last, so that the test of the other client goes on. One client's calls cannot overlap;
  hence `BadTickEndsOnlyTest`.
* `Config`: numbers are integers, negative ones too; at least one node, and one node only when
  the test is not on a cluster.
* `Reporting`: a sample begins at a positive time and ends no earlier (the monotonic clock of
  Go), and a tick has a positive target.
* `SharedData`: callers are not adders, and what users add are data. `Attempts` assumes no more of
  `TargetUrl` and the test data than the code does: either may be wrong.

### The arguments

**Reports of a run.** `ReportsComplete` is not inductive. That a tick with as many samples as its
target has exactly the requests fired in it needs that samples are of distinct requests of that
tick, and that no more of them than the target are ever fired. `IInv` follows a request on its way:

1. `TicksFilled`: the current tick has `firedInTick` requests, fewer than its target; every
   earlier tick has exactly its target. Hence a tick with all its samples is closed.
2. `InFlightOnce`: a request is with one attacker or once in `results`, not both.
3. `SamplesOfTick`: samples are results of distinct requests of the tick, out of flight for
   good, and `n` counts them. With 1, `n` reaches the target only when all requests of the
   tick are there: two finite sets, one within the other, of the same size.
4. `CompleteTick` and `ReportedTicksClosed`: the tick being reported, and every reported one,
   is closed, whole, and out of flight. Hence no late result recreates its entry, and
5. `ReportedOnce` follows: a second report would need a sample out of nowhere.

`TypeOK` has a part that matters here: `tick <= Len(fired) + 1`, every closed tick has a
request, and an attacker holds a request exactly while it waits or delivers.
The proof has a lemma per group of actions that leave the same variables alone
(`FlightFrame`, `QuietFrame`), and `FireIInv`, `AttackerIInv` and those on receiving and
judging for the steps that move a request. The refinement of `TickReports` follows: closing a tick
is `CloseTick`, judging is `Report`, which appends a closed tick not in the list of reports, returning
is `End`, and
nothing is reported after it since by then the collector has ended.

**Load, requests and stream of a run.** `OnPlan` says where the counters of the scheduler are: a step
has begun with each tick whose number the duration divides (`StepsBefore` counts them by the quotient).
What `LoadFollowsPlan` says follows from there: the ticks of a step are an interval (`StepInterval`), of
`StepLength` ticks once the next step has begun, and the rates follow the steps. `RequestsAccounted`
needs, besides `IInv`, which makes the places of a request exclude each other (`PlacesAgree`), that
until the cancellation it has one (`NothingLost`). `Carried` compares what was taken and what is queued
with the reports, where a tick is ahead of its report while it is judged; `PassedOn` says that what was
sent are the first of the batches taken, and that none is missing until the stream breaks; with
`ReaderLast` (the reader ends with an empty, closed queue) this is `StreamCarriesReports`. The
refinement of `StreamedRun` maps the queue batch by batch: streaming is the emission of a tick not
emitted before (by `ReportedOnce`), judging a bad one is the failure, what the streamer takes is the
dequeue.

**Nodes.** `OneHolder`: of the calls between the check of the flag and the end of the run
(`Holds`) there is one at most, `busy` says whether there is one that set it, and the
cancel function is that of its run. `BusyEnds` holds without any condition, because each call that
set the flag clears it later (`BusyForSomebody`).

**Clusters.** `Placed` follows a batch: the ticks queued, in transit, offered and sampled are disjoint
parts of those emitted, each once. With `Separate` (the samples of a tick are of different nodes) a
tick with as many batches as there are nodes has one of each; `Complete` says that added-up ticks
are such ticks, and stay so. `Counted` says that `activeClients` is the number of goroutines that
have not ended, each of which holds a batch exactly while it offers it; with `LeavesLoop` (a client
leaves its loop at a bad tick, or when nothing is active) this gives `NothingLeftBehind`. `EndInv`
adds that a run which has been drained was cancelled (`RunsEnd`), and that during the shutdown the
runs of all nodes already called are (`Ending`): the call finds its own run there by `OneHolder`, or
none because it is over.

**Config.** Past the split each node has the same share, completed by the same defaults
(`SharesOfTest`). `SoundRun` then gives `SplitIsSound`. The loss is arithmetic of quotients:
`QuotientBounds` bounds a share from both sides, and the sum over the nodes is their number times
the share, since they are alike; a tick in step `s` loses a share of the start and `s - 1` of the
step.

**Reporting.** `FoldFacts` proves that `FoldLeft` applies its operator to one element after the
other, and that a property of 0 that passes from each number to the next is one of all (by the least
number without it). `FiguresAreExact` is such an induction over the samples of a tick: after `k` of
them the counters are those of the first `k`. `ReportInv` relates rows, reports and gauges:
`InProgress` (a tick holds fewer samples than its target until it is the current one, and
none once reported), `Written` (the file has the row of each report, in order, and all of them are
on disk after the flush), `GaugesOfFirst` (only the first runner of a name exports) and
`GaugesInStep` (the gauges not yet set are one report behind). `Left` and `TopRate` carry chart and
maximum to the end of `Run`.

**Shared data.** The refinement of `Ring` needs `DataInv`: the mutex is held by exactly the goroutine
inside a call (`MutexHeld`), and the index is 0 after the first draw only between the wrap and the
read of a call (`IndexInRound`), which is where the mapping counts the round as over. A read is then
the `Get` of the ring, an append its `Add`, and every other step leaves it alone. Steps of `Attempts`
are steps of `SharedData` or leave it alone (`AttemptIsDraw`), so that the theorem carries over, and
with the invariant no read is outside the data unless there are none. For `NoDatumSkipped`,
`Rounds` knows the position each datum was drawn from: since any turn the draws have walked all the
positions behind it, to the last one drawn or to the end and from the first again. In `AttemptInv`,
`PoolKept` bounds connections in use and left unread, and `LeftByDraws` charges each one left unread
to a datum whose attempt is over.

### What is only model-checked

Liveness, which is out of this prover's reach: `RunReturns`, `GoroutinesExit`, `ClosedTicksReported`,
`NodeFreesItself`, `ClientEnds` and `AttemptsEnd`. And the four counterexamples of section 3,
which are a behaviour each and need no proof.

## 5. What is not modelled, and why

* Time. Deadlines and timers pass at any moment; rates and latencies are computed in `Reporting`
  only, from samples of any times.
* The contents of requests and answers, the error of the percentile estimator, and the figures
  nobody reads (mean, status codes, the set of errors, the log of requests).
* The charts of a scaling file (`ScalingChart` of `graph_report.go`) and those for Slack (`slack_report.go`).
* Malformed report files, which are errors or end the process of whoever draws them.
* Two runners of one name built at the same time; the response timeout all clients of a process
  share (`default_http_client.go:22`).
* Torn reads. `busy`, `activeClients` and `Failed` are accessed under a mutex or atomically.
  `runnerCancelFunc` of a node is written by `Run` and read by `ShutdownNode` without either;
  it is a single pointer, so the reader gets the old function or the new one, which are the
  two orders of the actions `RunStarts` and `ShutdownNode`.
* The end of the client's context before the stream is opened (a call that fails at once is
  fatal to the client like one to a dead node).
* Reconnects of gRPC: the code never dials again, and a node that died is up again for no client.
* The fasthttp client, log settings, profiling, the type registry, generated code, other mocks,
  commands and examples: see the components in `PROJECT.json`.

## 6. Plan

Done, in this order: `Runner` with its abstract promises, `Config`, `Node`, `Cluster`, `Metrics`,
`Charts` and `Reporting`, `SharedData` with `Ring`, `Attempts`; the proofs about reports and shared
data, then those of all the other safety properties.

Next:

1. A refinement of the whole cluster: an abstract test (ticks with their verdict, an end) that
   `Cluster` implements under `NoOverlap`, from `AddedUp` and `EndInv`.
2. The rest of `Config` and of the file formats: defaults of scaling and reports, malformed rows.
3. Two runners of one name built at the same time in `Reporting`.

## 7. Running it

    tlc -workers 2 -config RunnerSteps.cfg MCRunner
    tlapm RunnerFlowProofs.tla

and so for the other runs of `PROJECT.json` and the other seven modules with proofs:
`RunnerProofs`, `ConfigProofs`, `NodeProofs`, `ClusterProofs`, `ReportingProofs`, `FoldFacts` and
`SharedDataProofs`. The longest run takes about three minutes; the proofs of all modules about nine
minutes, from nothing.
