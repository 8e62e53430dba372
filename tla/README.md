# Models of the Kafka producer service

TLA+ models, TLC runs and TLAPS proofs for the Go service in `src/`: an HTTP API
that publishes messages to Kafka, with a circuit breaker, a batch coordinator, a
retry coordinator, an error categorizer, a rate limiter, a message tracker,
partitioners and serializers in libraries beside it.

`PROJECT.json` is the index: components, runs, mutants, the map from definitions
to source lines, findings, hazards and theorems.

    tlc -workers 2 -config MCCircuit.cfg MCCircuit.tla            (a run)
    tlapm CircuitBreaker_proofs.tla                               (the proofs of a module)

## The system

| Component | State it keeps | Operations | Interacts with |
|---|---|---|---|
| `internal/producer/circuit.go` circuit breaker | state, failure, success and half-open counts, last failure time, totals, configuration; one mutex | `Execute` (seven short lock sections around an unlocked call), `Reset`, `ForceOpen`, `ForceClose`, `UpdateConfig` | wraps any operation; many goroutines |
| `internal/batch/coordinator.go` batch coordinator | a message queue, the current batch and timer of each topic, a flush channel, `running`, `stopChan` | `Start`, `Stop`, `AddMessage`, `FlushTopic`, `FlushAll` | its workers, flush manager, timer callbacks, one goroutine per batch sent; the batch handler |
| `internal/retry/coordinator.go` retry coordinator | policy, `activeRetries` by operation id, metrics | `ExecuteWithRetry`, `UpdatePolicy`, `Reset` | the operation, the error categorizer, a back-off strategy, a context |
| `internal/server/handlers.go` message API | none between requests | `POST /messages`, `POST /messages/batch`, status, metrics, config | the producer, the message tracker |
| `internal/producer/producer.go` producers | `closed` under an RWMutex | `PublishMessage`, `Close` | the Sarama client, in a goroutine per message |
| `cmd/kafka-producer/main.go` application | the configuration, the wait group, the shutdown context, three listeners | load, validate, start, signal, `shutdownServices`, exit | all of the above |
| `internal/producer/errors.go` error categorizer | the rules, twice: as given and compiled; one RWMutex | `CategorizeError`, `AddRule`, `ClearRules`, `ResetToDefaults` | the retry coordinator |
| `internal/security/ratelimit.go` rate limiter | limits per endpoint, a token bucket per client; one mutex, and one per bucket | `Allow`, `SetLimit`, `UpdateConfiguration`, `cleanup` | the middleware's handler goroutines, a ticker |
| `internal/producer/tracker.go` message tracker | status and history per message | `TrackMessage`, `UpdateStatus`, `SetReceipt`, `RemoveMessage`, `Clear`, `Close` | its clean-up goroutine and that goroutine's ticker; nothing writes to it in this service |
| `internal/retry/backoff.go` back-off | none that changes an answer | `CalculateDelay` | the retry coordinator |
| `internal/partitioner` | round-robin counter, sticky count and partition, ranges, weights | `GetPartition`, `UpdateRanges`, `UpdateWeights` | any number of callers; a composite chooses another |
| `internal/health` | registered checkers | `RegisterChecker`, `CheckHealth` fans out to goroutines | the health endpoint |
| `internal/config` | none: a value | `Load`, `Validate` and its rules, `SetupLogger` | `main` |
| message rules in `models/message.go`, `server/handlers.go`, `producer/validator.go`, `security/input.go`, `security/middleware.go` | the validator's lists of topics and patterns | five checks of one message | the message API |
| `internal/serializer` | the manager's registry and default | `Serialize`, `Deserialize`, `RegisterSerializer`, `SetDefaultFormat` | none in this service |
| `internal/profiling` | its server | `Start`, `Stop` | `main` |
| `internal/metrics`, `src/authentication` | Prometheus collectors; none | I/O | |

The libraries are concurrent: each has one or two mutexes, takes them for short
sections, and acts in between on what it read. `main` wires the handlers to the
`MockProducer` today; the Sarama producer has the same interface.

Where the behaviour is hard, and what has to be right:

- **Circuit breaker.** `Execute` decides, counts, records and releases in separate
  lock sections, so results arrive in states other than the one that admitted them.
  Slots must not leak (a leaked slot blocks the breaker for good), counters must not
  pass thresholds unnoticed, an open breaker must close only by way of half-open and of
  successes without a failure among them, and it must close at all once the broker is back.
- **Batch coordinator.** Four kinds of goroutine take batches out of one map, timers
  race with flushes, requests to a full channel are dropped, and `Stop` runs beside
  everything. A message must be handed over once or not at all, the answer to the
  caller must be true, limits must hold, and what was queued must be sent.
- **Retry coordinator.** The policy is read without the lock at several points of one
  call; several returns clean up differently. A fatal error must not be retried, the
  result must agree with the report and the metrics, and every call must end.
- **Message API, producer, shutdown.** A context may end while a send is under way,
  `Close` may come between the test of `closed` and the send, `main` may return with
  work left. "Published" must mean published, a status must tell what happened, and
  the producer must be closed after the drain and not before.
- **Application.** The file, the environment, three sets of rules and the listeners each
  decide on their own; servers fail in goroutines nobody asks; a signal comes at any
  moment. What is served must be what was validated, each port must be served, and a
  signal must end the process.
- **Health manager.** Results come in any order into one response, from checkers that may
  hang. An answer must be as bad as the worst check and must come.
- **Error categorizer.** The order of the rules decides; `ResetToDefaults` runs its second
  half without the lock. The defaults must decide what they match, the coordinator must
  agree with the rule, and adding rules must not turn a fatal error into one that is retried.
- **Message rules.** One message is judged by several checks that were written apart; which
  messages they disagree on has to be known.
- **Rate limiter.** Refill arithmetic truncates to whole tokens, buckets are created
  by several requests at once and dropped under requests that hold them. A client
  must never get more than the rate.
- **Message tracker.** Reports come from several goroutines in any order and the
  history is cut to a size; a goroutine takes statuses away beside them. A history
  must be the latest reports, only old and final statuses may be taken, and they must
  be; the goroutine must end after `Close`, whatever ticks wait.
- **Partitioners.** Topics have different numbers of partitions and share one counter
  or one sticky partition; the counter overflows; the sticky count is taken before the
  lock. Answers must be partitions that exist, round-robin must spread, and a sticky
  partition must be left in the end.

## Modules

| Module | Models | Used by |
|---|---|---|
| `CircuitBreaker` | `circuit.go` | `MCCircuit`, `CircuitBreaker_proofs` |
| `CircuitBreaker_proofs` | theorems about it | |
| `BatchContract` | what a batch coordinator promises about messages | `BatchCoordinator` (refinement) |
| `BatchCoordinator` | `batch/coordinator.go` with `models/batch.go` | `MCBatch`, `BatchCoordinator_proofs` |
| `BatchCoordinator_proofs` | theorems about it, and that it implements `BatchContract` | |
| `ErrorRules` | types, severities and default rules of `producer/errors.go`, `ShouldRetry` of `models/error.go` | `RetryCoordinator`, `ErrorCategorizer` |
| `ErrorCategorizer` | the categorizer's lists and their locks | `MCCategorizer`, `ErrorCategorizer_proofs` |
| `ErrorCategorizer_proofs` | theorems about it and the default rules | |
| `RetryCoordinator` | `retry/coordinator.go` | `MCRetry`, `RetryCoordinator_proofs` |
| `Backoff` | `retry/backoff.go` | `RetryCoordinator` |
| `RetryCoordinator_proofs` | theorems about it | |
| `PublishContract` | what the message API promises its clients | `PublishService` (refinement) |
| `PublishService` | handlers, both producers and `main` composed | `MCPublish`, `PublishService_proofs` |
| `MessageRules` | the checks of a message in `models`, `server`, `producer` and `security` | `PublishService`, `Serializers` |
| `Serializers` | `serializer/serializer.go` | `PublishService_proofs` |
| `PublishService_proofs` | theorems about the service, that it implements `PublishContract`, about the message rules and the serializers | |
| `Configuration` | `internal/config`, what the producer's constructor and the logger refuse | `ServiceLifecycle` |
| `HealthManager` | `internal/health` | `ServiceLifecycle` |
| `ServiceLifecycle` | `main`, its three servers and the profiler, around the two above | `MCLifecycle`, `ServiceLifecycle_proofs` |
| `ServiceLifecycle_proofs` | theorems about it, the configuration rules and the health manager | |
| `RateLimiter` | `security/ratelimit.go` | `MCLimiter`, `TrackerAndLimiter_proofs` |
| `MessageTracker` | `producer/tracker.go` with the setters of `models/receipt.go` | `MCTracker`, `TrackerAndLimiter_proofs` |
| `TrackerAndLimiter_proofs` | theorems about the rate limiter and the message tracker | |
| `Partitioners` | `partitioner/strategies.go` | `MCPartitioners`, `Partitioners_proofs` |
| `Partitioners_proofs` | theorems about it | |

The rule for steps is the same everywhere: a section under a mutex, an operation on
a channel, or an access to shared data outside a lock is one action, named for the
method; a method with several is several actions with a program counter per
goroutine between them. Definitions whose name has an underscore and a suffix, and
a comment that begins with "Mutant", are broken variants; nothing uses them, and
`PROJECT.json` pairs each with the property that fails under it.

**CircuitBreaker.** `pc[r]` says where a goroutine is in `Execute`: `idle`,
`admitted` (after `canExecute`), `counting` (it saw half-open and has yet to take
its slot), `recording`, `running` (the operation), `leaving` (the deferred decrement).
`failureAge` is the time since the last failure, up to the longest time-out that
anything compares it with. `transitionTo...` are the three private methods of that
name: none of them clears `failureCount` except on the way to closed, which is why
the count saturates in the model. The window test compares an age of zero with
`WindowDuration`, as the code does. `InFlight` are the callers whose operation
runs: counted as a request and not yet as a success or a failure. `straddling` and `streak`
are history variables: the operations that ran when `Reset` was last called, and the successes
since the breaker went half-open or a failure was recorded. `recovered` is the environment:
the operation does not fail any more. A success counts in half-open whoever it belongs to,
also a request that was admitted before the trip; the code promises nothing else, and
`ClosesOnlyFromProbe` says how many successes close the breaker, not whose.

**BatchCoordinator.** A caller of `AddMessage` queues its message and waits for its
answer; a worker takes it, places it under the mutex (`PlaceMessage`, which sends and
replaces a batch that cannot take the message), starts the timer in a section of its
own, asks for a flush when the batch is full, and answers. `armed` and `expired`
separate a timer that `Stop` on the timer can still cancel from one whose callback
already runs. `sending` holds batches with a goroutine that has yet to call the
handler, `toSend` those that `Stop` or `FlushAll` collected. `stopped` is the closed
`stopChan`, which nothing opens again: workers born by a later `Start` exit, and the
next `Stop` panics (`panicked`). `dropped` is a history variable: the topics whose batch
lost the request of its timer to a full flush channel, which is the one way a batch is
left without a flush on its way. `BatchContract` forgets all of that but the stage of
each message (outside, batched, handed); its only steps are to take one message and to
hand over a set, and `Stage` is the refinement mapping.

**RetryCoordinator.** Every place in a call that reads the policy is a step of its own, as
none of them takes the lock: `checking` is the head of the loop; `exhausted` is behind it,
where `MaxAttempts` is read once more for `AttemptCount`; `failed` is before `shouldRetry`
compares the attempts, `judging` before it looks at the types that stop a call; `delaying`
is before the test whether to wait; `computing` is before the delay is worked out and added
to the total; `sleeping` is the `select`. `countedBefore` and `forgotten` are history
variables: the calls that had ended at the last `Reset`, and those whose report some `Reset`
has removed. A policy carries its back-off strategy, and `CalculateDelay` of `Backoff` gives the set of
delays that jitter may draw, in whole units (`Power` is the power of the multiplier, a
recursive function, so that it can be reasoned about); how long the sleep really lasts, and the
delays noted inside reports, are left out. `activeRetries` holds the call whose report is stored, so an entry that
was overwritten by another call with the same id shows.

**PublishService.** One handler per request: it validates, loops over its messages,
publishes each and answers. `Content` gives each request its messages, and `Body` is
what the two validations of `MessageRules` say of them. With the Sarama producer a publish is
three steps: the test of `closed`, the goroutine's `SendMessage`, and the `select`
over result, error and context; the first can be overtaken by `Close`. `main` goes
from serving to draining (`server.Shutdown`), closing, flushing (Sarama's `Close`, with
the producer's lock held), waiting and exited; `expired` is its time-out. `Alive`
guards every goroutine: when `main` returns the process ends. `PublishContract` leaves out the
loop, the producers and the goroutines. It keeps which requests were taken and answered, which
messages each answer names as published, what the broker has, and how far the shutdown is. Its
steps are to take or to refuse a request, to store a message that is fit, at any time until the
process ends, to answer, and the three of the shutdown; `Phase`, `Taken` and `Published` are the
refinement mapping.

**MessageRules.** A message is the facts that some rule looks at: whether a name is
empty, its length, which class of characters it has, the sizes of key, value and headers,
the age of its timestamp. Each check is an operator with the name of the function; the
validator is a record of its options, `DefaultValidator` those of the constructor.

**ServiceLifecycle.** `main` is a program counter over the statements of `main` and
`initializeApplication`; `listener` says of each server whether its goroutine has
started, made its server (`Profiler.Start` does so before it listens), listens, failed or
is closed. `config` is a record of the fields some rule looks at, and `Configuration` has
one operator for each rule function; `ShippedConfig` is `configs/kafka-producer.yaml`,
`DefaultConfig` what `Load` sets before it reads a file. The health manager works while
`main` lives: each call has a copy of the checkers, the indices of those still running,
the channel and the response it builds; `results` is a history variable, all that its checkers
returned, of which `Checks` keeps one for each name. `ServiceLifecycle` is about the process and
`PublishService` about the requests; the drain is in both, once over health checks
and once over messages.

**ErrorCategorizer.** Both appends of `addCompiledRule` are two steps, read and write.
`AddRule` and `ClearRules` hold `mutex`; the second half of `ResetToDefaults` does not
(`Filling`). `TornRead` is the reader or writer that sees half a slice header, after which
nothing is promised. `intact` and `overlapped` are history variables: whether the defaults
were filled in with nobody beside and still stand.

**Serializers.** What a message is after `Deserialize(Serialize(m))`, and the manager's
map and default format. Beside what the message rules look at, a message has an ID or none,
bytes that are not UTF-8, and a fraction of a second. Pure, used by theorems only.

**RateLimiter.** `Allow` is four steps: find the limit, look the bucket up, create it,
check it. Handlers hold a limit and a bucket number between steps, so `SetLimit` and
`cleanup` can replace what they hold. The refill is the truncated product of the code;
the division by `TicksPerSecond` stands for its fractions of seconds. `MaxInt` is the
largest value of an `int`, so that limits are a finite set and there is a highest rate; the
configuration sets no other bound on them.

**MessageTracker.** Every method is one section under the tracker's mutex and so one
action. Time is the age of each status. The goroutine of `startCleanupRoutine` waits for
a tick or for `stopCleanup`, and its `select` may take either when both are there; the
ticker's channel has room for one tick. `log` is a history variable, all that was
reported since the message was tracked, of which `History` must be the end.
`OwnerChangesReceipt` is there because `SetReceipt` keeps the pointer it is given. `SetReceipt`
reads the receipt's status twice; the model makes that one read, which is right as long as the
owner does not change it in just that moment.

**Partitioners.** `strategy` is chosen at the start and `Uses` says which strategies
are in use, several for a composite. Round-robin is one atomic addition; the sticky
partitioner is two steps, its count (`StickyCount`) and the section under its mutex
(`StickyChoose`). The composite holds its own mutex while another strategy chooses
(`Unlocked`). Hashes, keys and random draws are data: a key has a hash, a range is a set
of keys with any integer for its partition, a draw is any of the partitions it can give. `recent`, `stickyFor`, `kept` and
`wrapped` are history variables for the properties.

## Runs

Every run takes two minutes or less with two workers.

| Run | Instance | Shows |
|---|---|---|
| `circuit` | 2 callers, two configurations (one with zeros, which only `UpdateConfig` installs as they are), an operator, fairness | `NoLeakedSlot`, `CountsBelowThreshold`, `RequestsAccounted`, `ClosesOnlyFromProbe`, `HealsAfterRecovery` |
| `circuit_limit` (violation) | 2 callers | more probes run than `MaxConcurrentRequests` |
| `batch_safety` | 2 messages of which one fits in no batch, 1 worker, 2 starts, stops, cancellation, flushes | `HandedAtMostOnce`, `AnswersAreTrue` |
| `batch_delivery` | 3 messages of one topic, 2 workers, a flush channel that cannot overflow, fairness | `FlushOnItsWay`, `WithinLimits`, `QueuedIsSettled`, and that `BatchContract` is implemented |
| `batch_stop` (violation) | 1 message, 1 worker, `Stop` | an accepted message stays in the map for good |
| `retry` | 2 calls, one with three kinds of error, the other with one; 3 policies, cancellation, `Reset` | `FatalErrorIsLast`, `ResultAgreesWithReport`, `MetricsCountResults`, `ActiveMeansRetrying`, `TotalDelayIsBounded`, `EveryCallEnds` |
| `publish` | a single message, a batch of two, a refused batch; either producer; contexts that end; a shutdown at any moment | `SuccessIsDelivered`, `StatusTellsOutcome`, `DrainedBeforeClose`, `RequestsAnswered`, `ShutdownEnds`, and that `PublishContract` is implemented |
| `rate_limit` | 3 symmetric handlers, 1 client, 2 endpoints, limit changes, clean-ups | `RateBound`, `BucketsAreKept` |
| `tracker` | 2 messages, histories of 2, final and other reports, receipts changed by their owner | `HistoryIsRecent`, `FinalsAreRemoved`, `CleanerStops` |
| `partitioners` | every strategy and a composite, 2 symmetric callers, topics of 2 and of 3 partitions | `PartitionExists`, `RoundRobinSpreads`, `StickinessIsBounded` |
| `categorizer` | 2 symmetric goroutines, 3 calls, 3 default rules (retried, critical, fatal without being critical), a custom rule that contradicts its type, one that does not compile | `DefaultsDecide`, `DecisionsAgree`, `AddingNeverForgives` |
| `lifecycle` | 6 files, 5 environments, a port that is taken, 3 checkers of which 2 share a name and 1 may hang, a signal at any moment, fairness | `WorstDecides`, `ServesWhatWasValidated`, `CleanOnlyWithoutMetrics`, `PortsAreServed`, `HealthAnswers`, `SignalEndsProcess` |

`TypeOK` is a property of no run: the types of every module are proved.

`CHECK_DEADLOCK FALSE` is set in all but `partitioners`: each of the others has finitely
many requests, calls, messages or ticks, or a process that ends, and the system rests when
they are used up.

### Bounds

- *Circuit breaker.* With two callers one can sit between its decision and its slot, or
  between its operation and its record, while the other, or the operator, trips or closes
  the breaker. `AgeCap` is the longest recovery time-out and `CountCap` the largest failure
  threshold, beyond which values are not told apart by any comparison. `CounterWidth` is 2
  where a property reads the totals, modulo 2. The theorems need none of these.
- *Batch coordinator.* Batches take 2 messages or 3 bytes, so both limits are met, and
  `m3` in the safety instance is larger than any batch. Two starts are enough for the
  panic of the second `Stop`. In the delivery instance the flush channel has room for
  every request; with less room a dropped request strands a batch, which is a finding.
- *Retry.* Three attempts let the policy drop below the attempt in progress and rise again
  before the call returns, and `NoAttempts` is a policy that the code accepts. The two calls have ids of their own;
  what calls with a shared id do to each other is outside `ActiveMeansRetrying`. The
  second call fails in one way only; errors of different kinds follow one another in
  the first. Each strategy reaches its maximum at the first retry, so that a missing
  cut shows; the longest delay is of one unit in two policies and of two in the third, so
  that a call may sleep longer than the policy that let it retry says.
- *Publish.* One request of each kind; the batch has a message refused on the way and
  a good one after it.
- *Rate limiter.* Six half-second ticks, a client time-out of two, two buckets: enough
  for a bucket to be dropped under one handler while two others use its successor.
  `RateBound` has a premise, `FewHandlers`, about how many handlers can be left with
  dropped buckets; the instance meets it, and so does the code's configuration unless
  more than a million requests of one client are suspended for half an hour.
- *Message tracker.* `MaxHistory` is 2 and `MaxLog`, the bound on reports per message, 3,
  so a history is full, is cut, and keeps neither all nor none; `RetentionTime` is 1 and
  ages go up to 2, the first age beyond it. Two messages, of which one may be expired
  in the sweep that leaves the other.
- *Categorizer.* Three calls are a reset, an addition beside it and one more call after
  both. One error text is matched by two default rules and by the custom rule, one by the
  custom rule alone, so that order and absence both show. The proofs need none of these.
- *Lifecycle.* The files are the shipped one, the defaults alone, two servers on one port,
  no profiler with a log file, a log format in capitals, and a file that cannot be read; the
  environments move a port onto another server's, onto a taken one, name two brokers or a
  level that is none. One health check is asked for; its three checkers answer in any order.
- *Partitioners.* `HalfRange` 4 in place of 2^63 brings the overflow within reach; with
  2 and 3 partitions the values before and after it have different remainders. With a
  `SwitchThreshold` of 3 and two callers one can sit on the count that switches while the
  other goes round. A range names a partition that the smaller topic has not,
  another a negative one; weights are too few, too many, zero. Of the sticky message count only
  the remainder by the threshold is kept, and its overflow after 2^63 messages is left out.

### Fairness

Fairness is weak, and on the program's own steps: a goroutine that can run is run, a
timer that was started expires, the broker client answers in the end, and the guarded
operation returns. There is none on callers, operators, signals, cancellations,
`UpdatePolicy` or `Reset`. For `HealsAfterRecovery` callers go on calling, which is
how the breaker learns that the broker is back; `ShutdownEnds` needs the shutdown
time-out to expire, which is a timer. In the tracker time passes, the ticker fires, its
goroutine runs, and a `Close` that has closed the channel goes on to stop the ticker;
nobody need report or close anything. In the lifecycle `main`, the goroutines of the
servers, the collecting half of a health check, checkers that do not hang and the shutdown
time-out go on; signals, requests, registrations and hanging checkers need not. `CleanerStops` needs no strong fairness for the
`select`: once the ticker is stopped there is at most one tick left to prefer.

## Proofs

Every safety invariant and every action property that a run checks is also a theorem, and so
are the refinements of `BatchContract` and `PublishContract`. Each theorem of a temporal formula rests on an
inductive invariant, given by name below.

`CircuitBreaker_proofs` proves, for any finite set of callers, any configurations and
any bounds that satisfy `CircuitAssumption`:

- `TypeCorrect`: `Spec => []TypeOK`. `TypeOK` is inductive by itself.
- `SlotsNeverLeak`: `Spec => []NoLeakedSlot`. The invariant alone is not inductive: a
  caller whose deferred decrement ends might hold no slot in the count. `SlotInv` adds
  that `counted` has exactly callers between their increment and their decrement,
  and bounds `halfOpenRequests` by its size. Every step either leaves `counted` alone
  and does not raise the count, adds one member and one slot, or removes one member
  and gives one slot back if there is one.
- `ThresholdsNeverPassed`: `Spec => []CountsBelowThreshold`, inductive given `TypeOK`.
  It depends on `FailuresNow` saturating no lower than the largest threshold, which
  `CircuitAssumption` states, and on `NewCircuitBreaker` replacing non-positive
  thresholds.
- `OnlyProbesClose`: `Spec => ClosesOnlyFromProbe`, action by action, from `ProbeInv`: in
  half-open the successes that count are among those of `streak`, because every way into
  half-open and every failure leaves it with none.
- `TotalsAddUp`: `Spec => []RequestsAccounted`, inductive given `TypeOK`. Only
  `recordRequest` adds a caller to `InFlight` and only a result removes one, each with the
  total that goes with it; `Reset` clears the totals and makes all of `InFlight` straddlers.
  The totals are taken modulo `CounterWidth`, so the proof computes with remainders.

`BatchCoordinator_proofs`, for any finite sets of messages and topics, any sizes, limits,
capacities, workers and starts (`BatchAssumption`), with every action of the environment:

- `BatchTypeCorrect`: `Spec => []TypeOK`, by which no channel ever exceeds its capacity. `TypeOK`
  is not inductive, because a worker places whatever it holds.
  `InStep` adds that a worker holds a message, and a manager a topic, exactly where it works on
  one, and that the goroutines of a `Start` to come are not born.
- `FlushIsOnItsWay`: inductive given `Typed`. `StaysOnItsWay` is the common case, a step that
  takes no reason away from a topic's batch; the proof is about the others: a timer that
  stops because its batch is flushed or that expires, a request that is taken, dropped or
  acted on, and a message that is placed by a worker, which then has yet to start the timer.
- `HandedOnce`, `AnswersStayTrue`, `BatchesAreWithinLimits`: all three from `BatchInv`. None is
  inductive alone, because a worker that held a message already in a batch would put it into
  a second one. `BatchInv` adds `OneWay`, that a message is with its caller, in the queue, with
  one worker, or in a batch, one of them at a time, and is in no batch before it was placed;
  `Stored`, that the batch in the map under a topic is one of that topic; `Apart`, that a batch is
  in one place and two batches share no message; and `Sound`, the limits of each. Steps are of two kinds: those
  that move whole batches between places (`MovingKeeps`, with `MovesOn` for each way of moving)
  and the one that puts a message into a batch (`PlacingKeeps`).
- `CoordinatorImplementsContract`: `Spec => Contract!Spec` under the mapping `Stage`, from
  `BatchInv`. `ContractStep` maps each step: placing a message is the contract's taking of it,
  `sendBatch` is its handing over of that batch's messages, which are few enough and not handed
  over before by `Apart` and `Sound`, and everything else is a stutter.

`ErrorCategorizer_proofs`, for any goroutines, default rules, custom rules, patterns and
texts (`CategorizerAssumption`):

- `TypeCorrect`; `DefaultsConsistent`, each of the 18 default rules says of its errors what
  `IsRetryable` works out; `CoordinatorAgrees`, which follows from both.
- `DefaultsStand`: in five layers. `LockInv` says who holds the lock where; `SoloInv` that
  without an overlap one goroutine is under way; `FillInv` how far a fill alone has come:
  the lists and what is still to append make up the defaults; `IntactInv` that then both
  lists begin with the defaults and, at rest, are equal. `AppendKeepsDecision` says that a
  longer list decides alike what its beginning decides.
- `NeverForgives`: from the same invariant, with `AppendKeepsDecision` for each append.
- `ReportsDisagree`: exactly where the report's own rule and the categorizer differ.

`ServiceLifecycle_proofs`, for any files, environments, ports and checkers
(`LifecycleAssumption`, `HealthAssumption`):

- `TypeCorrect`; `ServesValidated` and `CleanShutdown`, both from `LifeInv`, which ties what
  was loaded, what was validated and what listens to where `main` is.
- `AnswersAreWorst`: `AnswerInv` follows the results of a call through the channel into the
  response: each checker asked is running or has a result, each result is in the channel
  (`Carries`) or has been folded into the overall status (`Collected`), and what the channel,
  the status and `Checks` show is some result. An overwritten result leaves `Checks`
  and stays in the status, which never gets better.
- About the rules, as functions of any configuration: `PortConflictsUnseen`, `ProducerGap`
  (what `Validate` lets pass and the producer's constructor refuses), `BackoffsInOrder`,
  `CertificateByCase`, `DefaultsUnfit`.

`RetryCoordinator_proofs`, for any calls, ids, errors and policies that satisfy
`RetryAssumption`, with `UpdatePolicy`, `Reset` and cancellations anywhere:

- `TypeCorrect`: `TypeOK` is not inductive, because a cancelled call returns
  `attempt - 1` as its number of attempts. `InStep` adds how the attempt counter, the
  errors so far and the report stand to each other at each place in the loop.
- `FatalErrorsEndCalls`: `RetriedErrors` says that the only error behind a call that
  may not be retried is the last one, of a call that has failed or ended. It holds
  because `shouldRetry` looks at the same error the attempt ended with, whichever
  policy it reads.
- `ResultsAgree`: each of the five returns, from `InStep`. A call that leaves the loop by its
  condition has announced an attempt that it did not make, by which it is told apart afterwards
  (`LeftByCondition`).
- `ActiveCallsAreListed`: `ActiveInv` adds that an entry of `activeRetries` is a call
  under its own id that has a report.
- `MetricsAgree`: `CountInv` is `MetricsCountResults` with `Done` finite and the calls that a
  `Reset` found ended among it; a `Reset` empties the set of those to be counted. Each return that
  records adds one call to one of the two sets and one to the total of that set; the return of
  a cancelled call adds none; an end is final, so that no later step changes a set.
- `DelaysAreBounded`: the bound counts every failure that calls for a wait, and while a call is
  yet to wait for its last one that is one too many to be inductive. `DelayInv` counts only those
  it has waited for (`Waited`). It rests on what `CalculateDelay`
  returns: never less than nothing and at most eleven tenths of the maximum, for any
  multiplier and any attempt. That `Power` is a function from numbers to numbers is proved
  by induction on the attempt.

`PublishService_proofs`, for any requests with bodies of any length, either producer,
and whatever contexts, broker and shutdown do (`PublishAssumption`):

- `TypeCorrect`: with `Progress`, by which a waiting handler is at a message of its
  request, so that no request gets more results than messages.
- `PublishedIsDelivered`: a new success comes from the mock, which stores the message
  in the same section, or from a send that `Progress` says is stored.
- `StatusIsHonest`: `StatusInv` says that a refused request starts no send and that an
  answered one has a result per message from which the status was read; with
  `PublishedIsDelivered` this gives `StatusTellsOutcome`.
- `ClosedAfterDrain`: `ShutdownInv` adds that after the drain no handler is running,
  which stays so because only a serving `main` takes requests.
- `ServiceImplementsContract`: `Spec => Contract!Spec`, from all of the above and `ContractInv`: a
  handler has answered exactly if a status is written, a message with a send is fit and of a
  request that was taken, and nothing is cut short before the drain. `RespondAnswers` is the
  step that needs most: at the end of the loop the results name exactly the messages that the
  status promises, and the broker has them. A send that returns stores a message whose request is
  taken and not refused, however late it is; the panic of a send after `Close`, like the end of
  `main`, is the contract's end; every other step of handlers, sends and shutdown is a stutter.
- About the rules, for any message: `UnfitMessages` (what passes the handler's check and
  fails `Message.Validate` afterwards), `ServicePassesValidator`, `LimitsDisagree` (what the
  middleware lets pass and the service refuses), `LastTopicOpensAll`, `PatternsGoUnasked`.
- About the serializers: `JSONKeepsWhatIsText` (the ID of a message never survives, the rest
  exactly if its value is UTF-8 and its timestamp has whole seconds), `RawForgetsTheMessage`,
  `DefaultsStayRegistered`.

`TrackerAndLimiter_proofs`, about the rate limiter, for any handlers, clients and limits
(`LimiterAssumption`):

- `OneBucketPerClient`: `BucketsAreKept`, from the types of the map and of the calls' arguments
  (`MapType`).
- `LimiterTypeCorrect`: the work is the truncated refill: it never adds less than nothing and is
  cut to the limit it was computed from.
- `RateIsBounded`: `Spec => []RateBound`. What a client was allowed is not inductive. `RateInv`
  keeps an account per client: the requests let through, the tokens in its bucket and one
  request for each handler that was left with a dropped bucket are paid for by the time up to
  the bucket's last refill (`Account`); `Owners` says whose bucket a handler holds. A check spends what it refills (`CheckPays`, from `PaidByRefill`: the truncated
  product is at most what the highest rate gives); a new bucket begins empty (`CreationPays`);
  a bucket that the clean-up drops was idle for longer than `ClientTimeout`, and what it did not
  earn in that time pays for the handlers that still hold it (`CleanupPays`), which is
  where `FewHandlers` is needed. That there is a highest rate follows from `MaxInt`.

About the message tracker, for any messages, reports, history size and retention time
(`TrackerAssumption`): `TrackerTypeCorrect`, and `HistoriesAreRecent`. `HistoryIsRecent` is
inductive given the types; the work is in lemmas about sequences, that appending to both
keeps one the end of the other and that cutting an end leaves an end.

`Partitioners_proofs`, for any callers, keys, numbers of partitions, ranges, weights and
thresholds (`PartitionersAssumption`):

- `TypeCorrect`: the types, from `Types` and what each stateless strategy returns.
- `PartitionsExist`: each strategy's answer is within the number asked for, from the
  bounds of the remainder, of the draw, and of what `Fits` selects, which bounds the
  partition of a range from above only. `PartitionInv` adds
  that a negative counter has overflowed and that the sticky partition was one of those
  there were when it was chosen.
- `StickinessBounded`: `kept` alone is not inductive. `StickyInv` is a potential: the answers
  given since the switch, plus the answers still to come from callers that hold a count
  which keeps, plus the steps left in the current round of the count, plus a round for
  each caller not sitting on a switching count, never exceed the threshold times the
  callers. A count that switches uses up a round until the caller that holds it chooses.

- `RoundRobinUsesAll`: `Spec => []RoundRobinSpreads`. `RoundsInv` says that the answers in
  `recent` are the remainders of consecutive values of the counter, which a property of the
  answers alone cannot tell; `RemaindersDiffer` says that values less than `n` apart have
  different remainders.

Only model-checked are the liveness properties, since fairness and `ENABLED` are beyond the
prover: `HealsAfterRecovery`, `QueuedIsSettled`, `EveryCallEnds`, `RequestsAnswered`,
`ShutdownEnds`, `FinalsAreRemoved`, `CleanerStops`, `PortsAreServed`, `HealthAnswers` and
`SignalEndsProcess`; and the two properties that are violated, `HalfOpenLimit` and
`AcceptedIsHanded`.

Where data is followed by induction (`Power`, the highest rate among the limits), the proof
takes the least number for which the claim fails, by the well-foundedness of the order of
the numbers: the library's induction rules take an operator, which the provers cannot instantiate.
No module has a `RECURSIVE` operator, so that each can be proved about.

## What the models show against the texts

Details and lines are in `PROJECT.json`, "findings". Found by runs: the half-open limit
is exceeded by callers that decide together; a message placed after `Stop` has flushed
is accepted and never sent. Found while
translating: a dropped flush request strands a batch; a call cancelled before an attempt stays in `activeRetries`; empty batches reach the handler after
an oversized message; the breaker's failure window never ends; the first retry waits
the second delay; the status endpoint knows no message; a batch that failed at the
broker is answered as a client error; `main` always waits for its whole time-out; one
bucket serves all endpoints; a topic with a dot passes the first validation and fails
the second; statuses that timed out or failed in part are never cleaned up; the tracker keeps
receipts that their owners go on changing; jitter is added after the cut to the maximum;
a policy's strategy has no effect on the delay; the delay in a report is not the one
slept; a call whose policy is lowered and raised again at its end counts more attempts than it
made; the type `composite` gives a hash partitioner; a key range with a negative partition
is returned as it is; the second half of
`ResetToDefaults` has no lock; a custom rule's own choice about retries has no effect; rules
that do not compile vanish; a report and the categorizer disagree on what is retried.

About configuration and life of the process: equal ports are never found and one server
then does not listen; a protocol in lower case needs no certificate; several brokers in
`KAFKA_BROKERS` become one address, which is refused; the defaults do not pass the rules;
`acks` is ignored; the profiler may outlive its `Stop`; a hanging checker holds its health
check for good.

About messages: the documented field `payload` is not the one the handler reads; batch
messages are checked without keys and headers; removing the last allowed topic allows all;
`IsTopicAllowed` forgets the patterns; a manager's default may have no serializer; the JSON
serializer has no field for a message's ID.

## Not modelled, and why

- *Lengths of time* other than back-off delays and comparisons with a time-out: the flush
  interval, how long an operation takes, and the averages in the metrics. Back-off
  multipliers are whole numbers; the floating-point rounding of the delays is left out.
- *Sarama*: `SendMessage` succeeds or fails with or without the broker having the
  message; `Close` returns when what it has taken is answered; a send that begins after
  that fails while the client closes and panics when it is closed, which ends the
  process.
- *`net/http`*: `Shutdown` closes the listener and waits for running handlers. Read and
  write time-outs of connections are left out.
- *The metrics pointer* that `Reset` of the retry coordinator replaces without the lock
  of the reader; each record of a metric is one step. *Torn policies*: a call reads the fields of
  the policy without the lock while `UpdatePolicy` writes them; the model lets it see another
  policy at every read, and each read gives a field of one policy.
- *What is read only*: status, metrics and configuration endpoints, the profiler's handlers
  and the getters of every library change nothing that another part reads.
- *Parsing and wording*: YAML, JSON, regular expressions (what a pattern matches is a
  parameter), response headers, error bodies, log lines, copies and constructors of data,
  `SanitizeMessage`.
- *Arrays behind slices*: two appends of the categorizer from one header may share an array;
  the model keeps their lists apart.
- *Metrics manager*: it registers Prometheus collectors and forwards to them, and the program
  reads none of them back. *Authentication demo*: a middleware of another framework that
  nothing installs; it parses a token with a library and keeps no state.

## Plan

Done: circuit breaker, batch coordinator, retry coordinator with its
back-off, error categorizer, publish service with the message rules, service lifecycle with
configuration and health manager, message tracker, rate limiter and partitioners: models,
runs, and proofs of all their safety; serializers (theorems); the contracts of the coordinator and
of the service, both proved to be implemented.

Next, in this order:

1. Retry around the circuit breaker around a publish: which errors the breaker's
   rejections become for the retry coordinator, and how long a call then takes. Nothing in
   the service composes them today.
2. The batch coordinator's flush interval, with a clock, and contexts that end its workers.
