# A TLA+ verification of windows_exporter

windows_exporter serves `/metrics`: for every request it runs its collectors at the same
time, each in its own goroutine and under one deadline, and writes what they find to the
Prometheus registry. Collectors read performance counters (PDH), WMI classes (MI) and other
Windows interfaces that can fail, hang, or come back late. This project models the parts of
the program in which goroutines, channels, locks, deadlines and partial failures interact, the
state that collectors keep from one scrape to the next, and the conversions between what
Windows delivers and the rows of metrics. It checks them with TLC on small instances and proves
the main properties with TLAPS for all values of the constants.

Source paths below are relative to `src/`.

## 1. The system: inventory

| Part | State it keeps | Operations | What is hard about it |
|---|---|---|---|
| Process and service: `cmd/windows_exporter/main.go`, `0_service.go` | `exitCodeCh` (1 place), `stopCh` (none), `serviceManagerFinishedCh`, the service goroutine | start, select over signal, stop request and server error, shutdown, `Execute` | three channels between three goroutines; a stop that meets a main that has already left; a failing event log |
| Metrics handler: `internal/httphandler`, `pkg/collector/handler.go` | the shared collection, `concurrencyMu` | `ServeHTTP`, `handlerFactory`, `WithCollectors`, `Handler.Collect` | requests queue on a mutex while earlier scrapes leave goroutines behind; the filter of one request must not touch another |
| Scrape pipeline: `pkg/collector/collect.go` | per collector `errCh`, `bufCh` (1000 places), context, `timeout` flag, statuses | collector goroutine, forwarder, main, drainer; `collectAll` | a deadline at any moment, a `Collect` that never returns or panics, a registry channel closed under a late sender |
| Collection: `pkg/collector/collection.go`, `map.go`, `types.go` | map of collectors, MI session | `Enable`, `Disable`, `Build`, `Close`, `WithCollectors`, `initMI` | builds run in parallel, six kinds of errors are tolerated and the collector is used all the same |
| PDH collector: `internal/pdh/collector.go` | query handle, `collectCh`, `errorCh`, `mu`, worker goroutine, the caller's slice | `NewCollector`, `Collect`, worker, `Close` | callers, worker and `Close` share the query and the channels |
| Collectors, 47 of them: `internal/collector/*` | queries, handles, descriptors, sub-collector functions, workers | `Build`, `Collect`, `Close` | `Build` fails half way and `Collect` or `Close` runs on what it left; goroutines outside every `recover` |
| process collector's pool: `process/process_worker.go` | `workerCh`, a WaitGroup per call, workers | `collect`, `collectWorker` | panics in workers, closed or nil channel, overlapping calls |
| update collector: `update/update.go` | `metricsBuf` under an RWMutex, scheduler goroutine, `initErrCh` | `Build`, `scheduleUpdateStatus`, `Collect`, `Close` | the scheduler starts before `Build` has finished; failing searches |
| BitLocker worker: `logical_disk/logical_disk.go` | request and answer channels without names, worker | `Collect`, `workerBitlocker`, `Close` | overlapping calls share the channels; a worker that panics between request and answer |
| Wrapping counters: `internal/utils/counter.go`, `cpu/cpu.go` | last value and running total per core | `NewCounter`, `AddValue` | a 32-bit counter that wraps; overlapping calls |
| service list: `service/service.go` | one enumeration buffer, replaced when too small | `queryAllServices`, workers of `Collect` | what the workers read lies in a buffer that the next `Collect` clears, fills or replaces |
| container caches: `container/container.go` | annotations by container ID, for HCS and host process containers | `collectHCS`, `collectNetworkMetrics`, `collectJobContainers` | filled before `config.json` is there; cleaned by a key that is none |
| Rows of PDH: `internal/pdh/collector.go` | the worker's buffer and its map of names by address | `collectWorkerRaw` | an array of one counter written over that of another |
| Rows of the registry: `internal/pdh/registry` | the caller's rows | `QueryPerformanceData`, `Collect` | offsets added up through a block of bytes; objects without instances or with none |
| Rows of MI: `internal/mi/session.go`, `operation.go` | one element for all rows | `QueryUnmarshal`, `Unmarshal` | null and missing properties, the end of the results |
| Configuration: `internal/config` | flags | `Parse`, `ParseConfigFile`, `Bind`, `flatten` | the file's name must be known before the flags are parsed; the command line wins |
| Names: `iis.go`, `performancecounter.go`, `textfile.go` | lists | `deduplicateIISNames`, `Build`, `Collect` | deletion from a slice that is ranged over; duplicates |
| Bindings, logging, constant pages | see `PROJECT.json` | | stateless |

Correctness, in the large: a scrape ends by its deadline whatever the collectors do; what it
reports about a collector is what happened; a collector that was in time loses nothing; no
request disturbs another; a row has the values of its own instance and of this scrape; after a failed call the program goes on with less data and neither
crashes nor blocks; a stop of the service ends the process.

## 2. Modules

| Module | Models | Extends / uses |
|---|---|---|
| `Scrape` | `collectAll` and `collectCollector` with four goroutines per collector | `ScrapePromise` (refinement) |
| `ScrapePromise` | what a scrape promises to its caller, without goroutines | |
| `ScrapeServer` | the start (`Enable`, `Disable`, `initMI`, the parallel `Build`s), then HTTP requests, the `collect[]` filter, `concurrencyMu`, scrapes as `Scrape` shows them | |
| `PdhCollector` | `pdh.Collector`: construction, worker, `Collect`, `Close` | |
| `Service` | `main`, `run`, `Execute` and `svc.Run` | |
| `CollectorSteps` | the vocabulary in which methods of collectors are written down | |
| `CollectorsHost`, `CollectorsNetwork`, `CollectorsServer` | `Build`, `Collect`, `Close` of 21, 18 and 6 collectors | `CollectorSteps` |
| `CollectorPrograms` | the table of collectors (`map.go`) | the three above |
| `CollectorLifecycle` | the meaning of the steps, and `Collection.Build`/`Close` for one collector, for any table of programs | |
| `CollectorDiscipline` | how a collector's methods must be written for the properties to hold: conditions on the text of a program, stated as assumptions | `CollectorLifecycle` |
| `MCCollectorLifecycle` | the programs of the 45 collectors as the constants of the two above | `CollectorDiscipline`, `CollectorPrograms` |
| `ProcessWorkers` | the worker pool of the process collector | |
| `UpdateCollector` | the update collector | |
| `Bitlocker` | the BitLocker worker of logical_disk | |
| `CpuCounters` | `utils.Counter` as the cpu collector uses it | |
| `ServiceList` | the service collector's enumeration and the workers that read it | |
| `ContainerCache` | the container collector's two caches | |
| `PdhRows` | what the PDH worker for raw values writes into the caller's rows | |
| `RegistryRows` | the block of performance data in the registry and the rows made of it | |
| `MiRows` | the rows of an MI query, one step per instance | |
| `Configuration` | command line, configuration file, defaults, one step per argument searched and per stage of `Parse` | |
| `IisNames`, `PerfObjects` | the loops over the names of IIS instances and over the configured counters, one step per round | |
| `TextFiles` | which metrics of which files textfile sends, one step per file and per metric compared | |
| `CollectorWorkers` | one of `ProcessWorkers`, `ServiceList` per behaviour | both |
| `CollectorState` | one of `Bitlocker`, `UpdateCollector`, `ContainerCache` per behaviour | `Bitlocker` |
| `LongLived` | one of `CollectorState`, `PdhCollector`, `Service` per behaviour | all three |
| `MCConversions` | `PdhRows` or `RegistryRows` applied to one input, or a behaviour of one of the five modules it extends | `CpuCounters`, `MiRows`, `Configuration`, `PerfObjects`, `MCTextFiles` |
| other `MC*` | values of constants for TLC | |
| `CollectorDataProofs` | theorems about `CpuCounters` and `ServiceList` | `TLAPS` |
| `ScrapeProofs` | theorems about `Scrape` | `TLAPS` |
| `SourceProofs` | theorems about `PdhCollector` and `TextFiles` | `TLAPS` |
| `ServerProofs` | theorems about `ScrapeServer`, `Configuration` and `MiRows` | `TLAPS` |
| `ProcessProofs` | theorems about `Service` and `PerfObjects` | `TLAPS` |
| other `*Proofs` | theorems about the module of the same name | `TLAPS` |

`PROJECT.json` gives for each definition the lines it translates.

### How the models correspond to the code

* **Goroutines and channels.** Each goroutine has a program counter (`colPc`, `fwdPc`, ...)
  and an action per step that another goroutine can observe. A buffered channel is the number
  or sequence of its elements; a rendezvous on an unbuffered one is a single action; a send on
  a nil channel is a state without a next step; a send on a closed one is a panic. `range`
  evaluates its channel once, so a worker that starts after `Close` has set the field to nil
  waits for ever, and the models have that step.
* **`Scrape`.** `CollectMetric`/`CollectSend` write a metric to `bufCh`, `CollectReturn` and
  `CollectPanic` end the collector goroutine, `CloseBuf` is its deferred close. `FwdRecv`,
  `FwdLoad`, `FwdSend` are the three points of the forwarder between which the deadline or the
  registry's close may fall; `FwdPanic` is its recovered send on a closed channel. `Main*` is
  the goroutine that waits for result or deadline; `Drain` the one that empties `bufCh` after a
  timeout. `collectAll` waits, exports two samples per collector, and returns. Metrics are
  anonymous: the properties count them.
* **`ScrapeServer`.** `stage` is where `run` in `main.go` stands: flags, `Enable` (which ends
  the program for an unknown name, the empty one of an empty flag included), `Disable`, `initMI`,
  the `Build`s in any order, and serving or exit. A scrape is abstracted to what `Scrape` shows of it: per collector a
  goroutine that may outlive the scrape, and a status that is its result or "pending". The
  mutex belongs to the collection, the filtered collection to the request.
* **`PdhCollector`.** `readers`/`closePc` are the RWMutex with its preference for writers. The
  worker answers the one caller that waits. `slices` says whose rows a slice holds, which is how
  overlapping callers that pass the same slice are told apart; the history variable `torn` has the
  callers for whose slice another call's request was taken while they read it.
* **`Service`.** `run` is reduced to how it ends. `RunFails`, a failing event log and any
  order of control requests, signals and server errors are included.
* **`CollectorLifecycle`.** The method bodies are data: sequences of blocks of steps
  (`CollectorSteps`), translated method by method in `CollectorsHost`, `CollectorsNetwork` and
  `CollectorsServer`. A block says what its error does (returned, joined, logged). A step that
  calls the operating system may fail with a tolerated or another error. A collector's state
  is what its methods can tell apart: which queries and handles are open, which groups of
  descriptors are set, which sub-collectors were appended to `collectorFns`, and for a
  `Collect` with goroutines of its own the position of each and the errors in its channel.
  Names, labels and values of metrics are left out. `performancecounter` has two objects and
  `mssql` two instances, each of which is of 2019 or later or is not; the versions are only looked
  at when `databases` is enabled (`Under`).
* **`ServiceList`.** A buffer is a sequence of entries and `buffer` says which one the collector
  has now. A call keeps the buffer it made its slice of (`view`); a worker reads the state of an
  entry when it is pushed and the name when it is worked on, so that whatever another call does
  to the buffer in between is seen. Behind the end of a short buffer an entry has any state.
  `answer` and `disturbed` are history variables.
* **`ContainerCache`.** Keys are bare IDs, the `id` of an entry has the prefix
  `containerd://`; `Evict` compares and deletes as the code does. `early` remembers containers
  met before their `config.json` could be read. Statistics and network endpoints may fail.
* **`PdhRows`.** PDH lays an array of items out in the buffer with the names behind them
  (`Offset`), so that the address of a name depends on what stands before it; the worker's map
  from address to name (`stringMap`) is kept as it is. Two Collects are run one after the other.
* **`RegistryRows`.** `Encode` writes objects as words of the block, with lengths and offsets;
  `QueryPerformanceData` finds its way by these alone.
* **`MiRows`.** A query delivers rows, nulls, an empty result, errors and the flag
  `moreResults`; the element that is filled and copied for each row is kept between rows. A step
  is a round of the loop, from `GetInstance` to the test of `moreResults`.
* **`Configuration`.** An argument is a flag with a value, a flag alone or a word, and has a text;
  the texts that end in `-config.file` are a set of their own (`SuffixTexts`), since the search in
  `ParseConfigFile` looks at no more. Names are
  paths, so that `Flatten` joins keys without building strings. A step is a round of the search
  in `ParseConfigFile`, or one of the three calls that follow it in `Parse`.
* **`IisNames`, `PerfObjects`.** `slices.Delete(s, i, j)` is modelled with its effect on the
  array below, its check of the bounds and its zeroing, since `range` goes on over the old slice.
  In `PerfObjects` an object's round has a step that takes it (`TakeObject`), one for each counter
  and one that keeps it, in which PDH may refuse it; places of the array hold numbers of objects.
* **`TextFiles`.** A metric is its name and labels; a file is readable or not. `duplicateMetricEntry`
  runs once for each file and once for all (`stage`), a step for each metric; `unique` is its map,
  which keeps only the last metric of a name. The order of families in a file, which the parser's
  map leaves open, is part of the input.
* **`CpuCounters`.** The hardware counts without wrapping in `hw`; a reading is `hw % M`, and
  the subtraction is modulo `M`, as `uint32` arithmetic is.

## 3. Runs

`tlc -config <run>.cfg <module>`; sizes are distinct states.

| Run | Module | Instance | Result |
|---|---|---|---|
| `Scrape` | `MCScrape` | two collectors, one writes two metrics through a `bufCh` of one place, the other none | passes, 124,566 |
| `ScrapeServer` | `ScrapeServer` | three requests with any subset of three names; the flags leave two collectors, or name an unknown one | passes, 231,975 |
| `Collectors` | `MCCollectorLifecycle` | 45 collectors, up to three sub-collectors or conditions, up to two failing calls in each Build and Collect | passes, 138,405 |
| `CollectorWorkers` | `CollectorWorkers` | process: two calls of up to three processes, two workers, a channel of one place; service: two calls, two services, a buffer that holds one, two changes | passes, 311,033 |
| `LongLived` | `MCLongLived` | process: service or not, event log working or not, up to two control requests; PDH: the builder and two scrapes that share a slice; BitLocker: three calls, two volumes, one panic; update: two calls, three generations; container: an ordinary, a pause and a host process container | passes, 41,080 |
| `Conversions` | `MCConversions` | all inputs of six bounded sets; cpu with two cores, two calls and counters modulo 3 that count to 6 | passes, 950,891 |
| `ScrapeServerOverlap` | `ScrapeServer` | two requests | violation |
| `ServiceStop` | `Service` | one control request | violation |
| `CollectorsErrors` | `MCCollectorLifecycle` | as `Collectors` | violation |
| `ContainerEviction` | `MCCollectorState` | container as in `LongLived` | violation |
| `IisNames` | `MCIisNames` | up to four rows of three sites | violation |
| `TextfileDuplicates` | `MCTextFiles` | the directories of `Conversions` | violation |

**What the passing runs show.**

* `Scrape`: a collector whose context has not expired loses no metric
  (`CompleteUnlessExpired`); only a collector that was given up can still send when the
  registry closes the channel (`LateSendOnlyAfterTimeout`); exactly one success and one timeout
  sample per collector, in agreement with what happened (`OneStatusPerCollector`); the scrape
  implements `ScrapePromise` (`KeepsPromise`); it ends although a `Collect` need not, no
  `Collect` stays blocked on `bufCh`, and the goroutines end (`ScrapeTerminates`).
* `ScrapeServer`: two `Collect` calls of a collector run together only if one of their
  scrapes has given up on it; the filter is exact; no `Collect` runs before all `Build`s have
  returned, or after one has failed (`BuiltBeforeServed`); every request is answered.
* `LongLived`, PDH: each caller gets the answer to its own request; the query is never used
  after `Close`; the rows a caller reads are its own until an overlapping scrape hands over a
  request for the same slice (`RowsStable`); every call returns and the worker ends after `Close`.
* `LongLived`, process: the service manager sees an exit code `run` has returned; a service process ends
  after `svc.Run` (`EndsInOrder`); a stop request ends the process unless `run` was leaving for
  another reason, and the process ends after `run` unless `Execute` is stuck in its send or
  event log and `svc.Run` have both failed (`ProcessEnds`).
* `Collectors`: see the exceptions below; apart from them no collector crashes, panics, leaves
  a query open after `Close`, skips a source because another one failed, or blocks.
* `CollectorWorkers`, process: the WaitGroup counts exactly the requests in flight; no worker sends to a
  `Collect` that has returned; each process is reported once; `Collect` returns.
* `LongLived`, BitLocker: a volume gets another volume's status only if calls overlapped;
  nothing is left in the channels for a later call; `Collect` returns.
* `LongLived`, update: no metrics older than the last search are sent; the scheduler can
  meet a missing descriptor only while `Build` runs; `Build` returns; `Close` ends the scheduler
  unless all later searches fail (`SchedulerAnswers`).
* `CollectorWorkers`, service: a `Collect` reports exactly the list it was given, unless another
  one clears, fills or replaces the buffer meanwhile (`ServiceRowsOwn`); the enumeration ends
  although services are added (`EnumerationEnds`).
* `LongLived`, container: metrics carry the container's own annotations, blank ones for good
  if it was met too early (`AnnotationsOwn`); no entry of a cache changes, and none is taken from
  a container that runs or that this `Collect` has found (`LabelsStable`). A removal that works
  would keep `LabelsStable` as well; that the one in the code removes nothing is the violation
  `ContainerEviction`.
* `Conversions`: `PdhRowsOwn`: each instance, `_Total` only if it was asked for, gets one row with
  its own values, and "no data" is returned only when there is none; a tolerated data error, which
  leaves the array of the counter before in the buffer, spoils only that counter's values, and two
  names at one address of the buffer spoil only these two; only a zero time base makes the worker
  panic. `RegistryRowsFresh`: the walk through the block finds every value; without the object the
  rows of the Collect before stay. `MiRowsOwn`: one row per instance, the last one included; a null
  or missing property has the value of the row before in `QueryUnmarshal` and none in
  `Unmarshal`. `SettingsExact`: command line before file before default, with the file that kingpin
  finds for `--config.file`; the exception is an argument that ends in `-config.file` without a
  value, `--config.file` with its value as the next argument included, whose own text is opened.
  `ObjectsExact`: the complete
  objects, first of their name, are measured; what makes `Build` panic. `TextfileExact`: whatever is
  not accepted is reported; metrics that repeat one after the other withhold everything; without
  duplicates everything is sent and nothing else is reported. `TotalExact`, `TotalGrows`:
  totals of cpu are exact as long as no counter counts a whole modulus between two readings, and
  never go down.

**Properties with an exception.** Several properties describe code that does go wrong in a known
case. They do not say that the case is harmless: they say that nothing goes wrong outside it. The
case is part of the statement (`unless ...`), reachable in the run, and the hazard in `PROJECT.json`
notes it: the deadline in `CompleteUnlessExpired`; the failing event log in `EndsInOrder` and
`ProcessEnds`; overlapping Collects in `RowsStable`, `SwappedOnlyOnOverlap` and `ServiceRowsOwn`; a
nil `workerCh` and a panicking worker in the two `CollectReturns`; a crash during `Build` and
searches that fail for ever in `SchedulerAnswers`; the lists of collectors below; the buffers of
`PdhRowsOwn`, `RegistryRowsFresh` and `MiRowsOwn`; badly named counters in `ObjectsExact`; containers
met too early in `AnnotationsOwn`; arguments that end like the flag in `SettingsExact`.

**What the violations show.** Each is a statement of the source that the code does not keep;
`PROJECT.json` quotes the line.

* `ScrapeServerOverlap`: "We should not allow more than one request at a time" - a `Collect`
  that timed out still runs when the next request starts.
* `ServiceStop`: a stop request that arrives while `run` is leaving for another reason blocks
  `Execute` on `stopCh`, and `main` waits for it for ever.
* `CollectorsErrors`: "return all errors" - one tolerated error among joined ones hides the
  others.
* `IisNames`: ""Site_B" would be discarded, and "Site_B#2" would be kept" - `slices.Delete` gets
  1 as the end of its range; the function panics or spoils the first rows instead.
* `ContainerEviction`: "Remove containers that are no longer running" - the loops compare and delete
  ids with a prefix, and no key has one: the caches never forget.
* `TextfileDuplicates`: "If duplicates are detected across *multiple* files, return error." - such a
  duplicate withholds the metrics of all files and is only logged; one with another metric of its
  name in between is not even seen.

### Known exceptions of `Collectors`

The properties of `CollectorLifecycle` name the collectors that do not keep them; the sets are
in `MCCollectorLifecycle`, and they are exact in the sense that the run fails when a member is
taken out.

* `LeavesOpenKnown`: `Close` of memory, msmq, nps, physical_disk, smbclient and thermalzone does
  not mention the queries `Build` opened, and that of logical_disk only cancels the context of
  its worker. exchange and hyperv take their close functions from fields that are still nil,
  and performancecounter closes the configured objects instead of the copies that hold a query,
  so they close none either. iis leaves one of its queries open, mssql those of
  `databases2019`, and terminal_services its own only when `WTSCloseServer` fails.
  `Collection.Close`, which would call these, is called by no command of the program.
* `UnreadyKnown`: after a tolerated error in `Build`, `Collect` of os, dns, iis and service
  meets a field that was never set and panics; `collectCollector` recovers from it and reports
  the collector as failed.
* `UnclosableKnown`: `Close` of logical_disk and service after a `Build` that failed early
  uses a field that is nil.
* `StopsEarlyKnown`: iis does not read its second worker-process query when the first fails.
* `WaitsKnown`: logical_disk's `Collect` waits for a BitLocker worker that `Build` did not
  get to start.

### Bounds, and why they are enough

* Two collectors in `Scrape`: collectors share only `collectAll`'s WaitGroup and the registry
  channel, so two show every interaction; one must be able to fill `bufCh` (two metrics, one
  place) so that the blocked send, the drainer and the late forwarder occur. The theorems hold
  for any number of collectors and metrics and any capacity.
* Three requests in `ScrapeServer`: one that has timed out, one that holds the mutex and one
  that waits for it. The theorems hold for any number.
* Two scrapes and the builder for PDH: the two can pass the same slice, the builder
  passes another.
* `MaxControls = 2` for the process: one request that is answered in the loop and one that stops.
* In `Collectors` behaviours are of one collector at a time, since collectors share nothing but
  the MI session, which no method changes. Two faults in one Build or Collect are what it takes
  to fill an error channel that has room for one, to fail the second source after the first, or
  to join a tolerated and a fatal error; the five largest collectors get one fault and two
  sub-collectors.
* Two workers, a channel of one place and three processes per call for process: the
  channel is full while both workers are busy and a third request waits.
* `Gens = 3` for update: an older, the current and the next result; generations are counted in
  a circle.
* For service a buffer of one entry, one service at first and two changes: the buffer is large
  enough, is replaced, or becomes too small between two calls of the enumeration.
* `LongLived` moves one part per behaviour and leaves the others at their start: they share no
  variable, so nothing is lost.
* For container one of each kind; containers do not share entries, and the pause container is
  the one kind that is cached and not reported.
* `Conversions`: lists of up to three or four members, which is enough for two rows at the same
  place with another between them (`TextFiles`), a deletion before, at and behind the
  position of the loop (`PerfObjects`), a value taken from two rows before (`MiRows`), and for
  two arrays to meet in one buffer with names of different lengths (`PdhRows`). The registry's
  block has up to two objects, counters of both widths and up to three instances; the command
  line has up to three arguments.
* `M = 3` for cpu: a counter can wrap once and, counting to six, twice between two readings.

No run uses symmetry. Deadlock is not checked where the modelled part really stops: a scrape or
a request that is over, a process that has ended, a collector that is closed, a conversion that
is done.

### Fairness

Liveness is checked under these assumptions, which the Go runtime and the operating system
give: a goroutine that can go on does (weak fairness); a goroutine waiting for a channel or a
mutex that becomes available again and again gets it, since Go queues waiters in order and a
starving mutex is handed over (strong fairness of `Collect` in `ScrapeServer`, `CollectSend` in
`PdhCollector` and `ProcessWorkers`, the callers of BitLocker); a `select` does not pass over
a ready case for ever (strong fairness of `ContextDone`); timers fire (`Expire`, `Timeout`).
Nobody is obliged to send a request, a signal or a control request, to call `Close`, or to
return from `Collect`: `ScrapeTerminates` and `EveryRequestAnswered` do not rely on it. A PDH or
MI call inside the PDH worker, the BitLocker worker and the update scheduler is assumed to
return, and so are the service control manager's answers.

## 4. Proofs

Each theorem is `Spec => []P`: an inductive invariant `IInv`, `Init => IInv`,
`IInv /\ [Next]_vars => IInv'` with one step per action, and `IInv => P`. `CollectorStateProofs`
is about `StateSpec`, in which the three collectors stand side by side: the lemma `StepOfOne` says
that each step is one of one collector or leaves it alone.

| Theorems | From | Inductive invariant |
|---|---|---|
| `ScrapeTypeCorrect`, `ScrapeComplete`, `ScrapeLateSend`, `ScrapeOneStatus`, `ScrapeStatusFinal`, `ScrapeKeepsPromise` | `BufCap \in Nat \ {0}`, `MaxMetrics \in [Collectors -> Nat]` | before the deadline every metric is delivered, in the forwarder's hand or in `bufCh`; the forwarder ends only when `bufCh` is closed and empty; how main, context, flag and drainer go together; `collectAll` goes on after every main. For the samples a second invariant says that those exported agree with the statuses |
| `PdhTypeCorrect`, `PdhAnswers`, `PdhNoUseAfterClose`, `PdhRowsStable`, `PdhWorkerNotStuck` | `Builder \in Callers`, `DstOf \in [Callers -> Buffers]`, `NoCaller \notin Callers` | the read lock is held from the check of the fields to the answer; while it is held query and channels are usable; the caller that waits is the one the worker serves; until `NewCollector` returns only the builder runs; the slice being filled is nobody's, and one filled is that of the caller served, so that only a request handed over can take a reader's rows, which `torn` records |
| `ServerOverlap`, `ServerFilter`, `ServerBuilt` | `NoRequest \notin Requests` | what each stage of the start has done to the collection, and that requests come in only when it is built; a running goroutine belongs to a collector its scrape waits for or has given up; a scrape waits only while it holds the mutex; from the start of serving on the server's collection never changes |
| `ServiceEndsInOrder` | `MaxControls \in Nat` | an exit code in the channel is the one `run` returned; the token comes from the service goroutine's last step |
| `CloseReleasesAll`, `CollectReadsAll`, `CollectNeverPanics`, `CollectGoesOn` | the discipline of `CollectorDiscipline`, see below | each goroutine stands at a step of its program that is due, and what lies behind it has been done or was kept from it by a failure; see below |
| `WaitGroupIsExact`, `ProcessesReportedOnce` | `Cap \in Nat \ {0}`, `MaxRows \in Nat`, `Workers` is finite and not empty | the WaitGroup of a call is its requests in the channel, with workers and about to be sent; those reported, lost, queued and served are the processes handed over so far; a call that has returned has handed over all and its counter is zero |
| `ServiceRows` | `Services` is finite and has no empty name, `Present` is a set of sets of services, `InitialSize \in Nat` | buffers are never shortened; the entries a call has still to read are the SCM's answer to it, without gaps; each copy in the channel has the address and state of its entry, and the name of a copy that is done has been reported |
| `BitlockerAnswers` | `Volumes` is a sequence and not empty | as long as no calls overlapped, the request of the one call under way is in one place: request channel, worker or answer |
| `BitlockerNothingLeftOver` | `Calls` is finite | the requests and answers in the three places are at most as many as the calls that wait for one; overlapping calls may take each other's, but the count stays |
| `UpdateNoStaleMetrics`, `UpdateCrashOnlyDuringBuild` | nothing | whoever sends has what the buffer has, because the write lock keeps the scheduler out; outside "clear" and "store" the buffer has the last result; `Build` returns only with all descriptors made |
| `CacheAnnotationsOwn`, `CacheLabelsStable` | nothing | cached labels are the container's own, or blank for one met too early, and every cached id has the prefix; the lemma `EvictKeeps` draws from this that the removal removes nothing |
| `CpuTotalExact`, `CpuTotalGrows` | `M \in Nat \ {0}`, `NoCall \notin Calls` | only the holder of the mutex is past the lock; a `Counter` holds the last reading; a reading under way is not older; with the lemma that the difference modulo `M` of two readings is what was counted when that is less than `M` |
| `MiRowsOwnAlways` | nothing | until the loop is left there are as many rows as instances, and a field of the element in use has the value of the last instance that gave one (`MiInv`) |
| `SettingsAlways` | command lines are sequences, arguments of three kinds; the text of a `--config.file` alone ends in `-config.file`; `NoFile` is no path | what has been searched names no file, what was found is the first that does; defaults are the built-in ones until the file's values are bound (`ConfInv`) |
| `TextfileAlways` | the lists of directories, files and metrics are sequences | what the walk has passed decides which names and metrics are taken and whether there is an error; `unique` has the last metric of each name, and between two equal metrics passed stands another of their name (`TextInv`) |
| `ObjectsAlways` | configurations and their counters are sequences | `PerfInv`, see below |

`ScrapeKeepsPromise` is the refinement: initial states map to initial states of
`ScrapePromise`, and every step of `Scrape` to a step of it or a stutter.

### Loops as state machines

What a loop computes for every input usually takes an induction over its data, which the prover
cannot do. In `MiRows`, `Configuration`, `TextFiles` and `PerfObjects` each round is a step, so that
the loop's invariant is an inductive invariant like any other, and the property speaks of the
states in which the loop has been left.

For `TextFiles` this also decides how the invariant is put. That `duplicateMetricEntry` found nothing
means that of two equal metrics one of the name stands between; that it is a different one, as
`TextfileExact` says, would follow by going from one to the next. The invariant says it at once:
a metric is compared with the last of its name, so the last is the different one.

`PerfInv` is the largest. `ObjectsExact` promises everything for configurations whose counters are
well named, and for others that a fault is reported or `Build` does not return as it should. So
the invariant has two halves. With well named counters (`Measured`) it says what `Build` has taken,
kept, named and reported so far, that the fields of the object in hand are apart, and hence that
`reflect.StructOf` will not panic. Without that assumption (`Clean`) it says that as long as nothing
was reported, the counters that have had their turn are well named. Both need `InPlace`: no object
has moved, because only a counter without a name makes `slices.Delete` move one, and that is
reported.

### The discipline of the collectors

The theorems about `CollectorLifecycle` hold for any table of collectors that satisfies the five
assumptions of `CollectorDiscipline`. These say nothing of behaviours; they are what a reviewer
of a `Build`, `Collect` or `Close` method would look for in its text:

* `WellFormedAssumption`: only `Build` opens and registers, only `Close` shuts.
* `ClosesAssumption`: what `Build` opens, `Close` shuts under the same condition or under none,
  and nothing before that in `Close` can end it early.
* `ReadsAssumption`: no step before a read has an error that ends the method.
* `ReturnsAssumption`: a goroutine waits only for one that does not wait, and that runs whenever
  the first does; the error channel has a place for each goroutine that can report.
* `DescribesAssumption`: a descriptor is set before every point at which `Build` can give up with a
  tolerated error, or its user is registered only where it has been set.

Each excepts the collectors named in section 3. The run `Collectors` has TLC evaluate the five
on the 45 translated programs, so they are facts about this program and not hypotheses only; the
theorems add that any number of failing calls, conditions and sub-collectors, which the run
bounds, changes nothing, and a new collector needs no new proof.

The four invariants rest on one idea. A position in a program's text splits it into what is behind
and what is ahead, and the invariant says what is known of each. While `Close` runs, whatever is
still open has the step that shuts it ahead (`ReleaseInv`). While `Collect` runs, every read behind
has been tried (`ReadInv`). While `Build` runs, a step behind that sets descriptors has set them,
unless the error that skipped it is one with which no `Collect` follows (`PanicInv`). The errors in
the channel are at most as many as the goroutines that have reported (`StuckInv`). None of them is
inductive without `Shape`, which says that positions are at steps that are due.

### Only model-checked

* All liveness properties and what follows from fairness: `ScrapeTerminates`,
  `EveryRequestAnswered`, `CallsReturn`, `ProcessEnds`, `CollectReturns`, `SchedulerAnswers`,
  `EnumerationEnds`. `CollectGoesOn` is the safety part of "Collect returns" for the collectors.
* What the violation runs show, `IisNames` among them: the module has no theorem.
* `PdhRowsOwn`, `RegistryRowsFresh`: nested loops over data that is laid out in a buffer, written
  as folds. The offsets in the two buffers are sums over what lies before, and what a sum or a fold
  is for every list takes an induction over data, which the prover cannot do.

## 5. Not modelled

* Names, help texts and values of the metrics of each collector, beyond the rows they are made
  of: several thousand lines that send one metric after the other without state or branches.
* The PDH worker for formatted values beyond its protocol; the `MetricType` of a row, which the
  first counter met gives it; secondary values of the registry's averages; the registry's table
  of names and the growth of the query's buffer.
* Sessions, operations and instances of MI, and all bindings of PDH and Windows: thin calls into
  libraries. The models let each of them fail.
* The decoding of YAML, kingpin and the parser of text files, which are libraries: the models
  start from their results.
* `Collection.Close`, which no command of the program calls. What `Close` of each collector does
  is in `CollectorLifecycle`.
* Overlapping `Collect`s of the container collector. They write the caches without a lock, which
  the Go runtime answers by ending the process; `OverlapOnlyAfterTimeout` says when they can
  overlap.
* The process collector's cache of account names, a `sync.Map` from a security identifier to a
  name that does not change.
* The value of the scrape timeout: a deadline may pass at any moment, also at once.
* Logging, the health and version pages, the installer.
