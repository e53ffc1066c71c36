# s3nitor in TLA+

s3nitor scans objects in an S3 bucket. One program, `s3scanner`, lists a bucket
or consumes its notifications, fetches each new object and runs scanners on it;
a second one, `s3nitor-async`, collects the verdicts of scans that go on in a
sandbox. This directory specifies both, checks them with TLC, and proves the
properties that matter most with TLAPS.

What the two programs have to get right is not what a scanner finds. It is that
nothing is lost: that an object counts as scanned only when its verdicts are
where they should be, that what is reserved for it is given back, that a scan
handed to a sandbox comes back, and that all this survives signals, crashes,
lost messages, failing stores and other replicas.

## The system

| Part | State it keeps | Operations | Talks to |
|---|---|---|---|
| discover (`pipeline.go` `runDiscover`) | a batch, a timer | read a reference, flush the batch: query what is recorded, emit jobs and coverage gaps | file records (query), jobs and findings channels |
| fetch (`runFetch`, `fetchOne`) | `FETCH_MAX_CONNS` goroutines; bytes reserved, connections, temp files | reserve, connect, copy, hand on; give back on every error | object store, payloads channel |
| dispatch and lanes (`runDispatch`, `runLane`, `spill`, `handoff`) | one queue per scanner; a reference count per payload | fan out, spill, scan, hand off, send the finding | limiters, scanners, ledger, continuation topic, findings channel |
| publish (`runPublish`, `flush`) | a batch, a timer | collect, send the batch, record its objects, close ledger rows | sink, file records, ledger |
| `Run` | which channels are closed | close each channel when its senders have returned | all stages |
| limiters (`limiter.go`) | bytes or slots in use, a queue of waiters, a token bucket | acquire, give up waiting, release once | fetch, lanes |
| local scanners (`yara_scanner.go`, `ioc_scanner.go`) | rules and hash lists, as loaded | run the rule files one by one; look a hash up | lanes |
| sandbox scanner (`sandbox.go`, `cape.go`, `cuckoo.go`) | none (the analysis is outside) | submit; poll: status, report, grade | lanes, worker, sandbox |
| scan ledger (`scan_task.go`) | a row per (file, scanner) | enqueue, reschedule, claim under a lease, close | lanes, publish, worker |
| file records (`file_record.go`) | the set of recorded FileIDs | upsert, batched query | discover, publish, worker |
| async worker (`worker.go`) | two threads per replica, what each has read | claim and sweep, consume, poll, publish, close, reschedule | ledger, topic, sandbox, sink |
| continuation topic (`kafka.go`) | messages not committed | publish, deliver, commit | handoff, worker |
| lister (`lister.go`) | position in the listing | list | discover |
| event source, transports, decoder (`event.go`, `transport/`, `decoder/`) | the message each of two goroutines has in hand; the group's offset | fetch or pop, decode, hand on, acknowledge | broker, discover |
| threat-intel lookups (`intel/`, `intel_cache.go`) | the requests spent; verdicts with an expiry | look up, ask, count, store | lanes, database, provider |
| reporters | none (the sink is outside) | one document, a batch | publish, worker |
| dashboard, metrics, sysinfo, configuration | none that comes back | read, count, parse | |

The behaviours that are hard: a pipeline of goroutines over bounded channels
that has to drain in order; one context that may end at any of its steps; a
temp file and a byte reservation shared by several readers; two stores written
one after the other with a crash in between; a ledger claimed by several
replicas under leases; the same continuation reaching two threads, one through
the topic and one through the ledger; time, in the form of poll times, leases
and the age at which an analysis is abandoned. `PROJECT.json` lists each hazard
at its line, with the property that would catch it.

What makes each part correct:

- discover: a recorded object is not fetched again; no reference waits for ever
  in a partial batch.
- fetch: bytes on disk are never outside the budget; every exit gives back what
  it holds.
- lanes: a scanner that reads the file finds it whole; the last reader frees it;
  a scan ends in a finding or in a row that says where it is.
- publish: the sink first, the database second; nothing of a clean run is left.
- `Run`: it returns.
- event source: an offset is committed only past messages that have been handed
  on; a message nobody can decode holds up no other; it stops with the signal.
- limiters: what is taken is what is held, never more than the limit; nobody in
  front waits for room there is; tokens are an interval apart.
- scanners: an alarm has something behind it and is not taken back, a severity
  and a match agree, a scan is answered.
- lookups: a verdict is the provider's, of this content, and not expired; no
  request is wasted on what the cache knows; one process keeps its quota.
- ledger and worker: a lease keeps other replicas off; a row is closed only when
  its document is in the sink; a continuation is closed in the end; a verdict is
  not overwritten.

## Modules

```
ScanLedger      rows of scan_tasks and the statements on them
   Durable      records, ledger, sink, topic: what outlives a process
      PipelineState         the variables of a run; payload accounting; TypeOK, Init
         Discover  Fetch  Lanes  Publish      one module per stage
            Pipeline        Run, signal, crash, restart; the properties
               MCPipeline   instances for TLC
               PipelineProofs
               System       the pipeline and the worker as one system
                  MCSystem
                  SystemProofs      over both programs' proofs
      AsyncWorker           replicas, threads, clock, faults; the properties
         MCAsyncWorker      instances for TLC
         AsyncWorkerProofs
PublishFirst    the abstract order of writes, refined by both programs
Limiters        the three limiters, with their waiters
   LimitersProofs
Admission       what the stages assume of a limiter, refined by Limiters
Scans           one scan of one object by YARA, the hash lists, CAPE or Cuckoo
   ScansProofs
EventSource     a broker, Event.Items and its transport
   MCEventSource            instance for TLC
   EventSourceProofs
IntelLookup     workers, the quota, the shared cache, days
   MCIntelLookup            instance for TLC
   IntelLookupProofs
SumTheorems     what the fold that adds up reservations computes
```

**ScanLedger, Durable.** A row is a record; each statement of `scan_task.go` is
an operator from the row before to the row after, which for an UPDATE of a
missing row is the same missing row. Times are ticks: until `next_attempt_at`
and `lease_expires_at`, and since `submitted_at`; `Elapse` is a tick. Token
values are not told apart (`Tokens`). The sink maps a `DocID` to what it holds:
nothing, an answer, or the document of having given up. An error a scanner ended
in is an answer: the code publishes it and records the object all the same.

**PipelineState, Discover, Fetch, Lanes, Publish, Pipeline.** `stage[r]` is where
a reference is between the source and the lanes, `task[<<r, s>>]` where scanner
s's task on it is between the dispatcher and the sink. A channel is the set of
what is in it, a send needs room, a pool of goroutines is the set of what they
hold. The stage variables are the program counters of the single goroutines:

| Variable | Code |
|---|---|
| `disc`, `seen` | `runDiscover`: select, query, emit, and its final flush; the answer of `SeenFileIDs` |
| `fetchers` | fetch goroutines that have not returned (`fetchWG`) |
| `refcnt`, `reserved`, `inFlight`, `file` | `payload.refs`, the release closure, `ByteLimiter`, `workDir/<FileID>` |
| `disp` | `runDispatch` |
| `pub`, `toRecord` | `runPublish`: select, send, record; the findings `flush` has still to look at |
| `main` | which wait `Run` is at |
| `cancelled`, `runs` | `ctx.Done()`, processes started |

Every action is one atomic step of one goroutine: a channel operation, a call to
a store, an acquire or a release, with the bookkeeping around it. Where the code
selects between a send and `ctx.Done()`, both actions are enabled.

**AsyncWorker.** A thread reads a continuation into `job[th]` and then calls the
sandbox, the sink and the database one at a time; other threads, ticks and
crashes come between the calls. `candidates` is what a claim's SELECT has read:
a row leaves it when anybody writes the row, which is what the UPDATE's
`updated_at = ?` asks. What the pipeline does to the stores meanwhile is the
first part of the module, its environment: `handing[t]` is how far the pipeline
is with handing t over (submitted, then a row, then a message, each its own
step), and beside that it parks tasks, publishes findings of scans that it did
not hand off, records objects and closes rows.

**System.** The two programs over one set of stores, the pipeline's modules and
`AsyncWorker` unchanged: a step is a step of the one (`ByPipeline`) or of the
other (`ByWorker`). What they know of each other is derived: `Handing` from the
lanes' task positions, the candidates a claim has lost from the rows the
pipeline changed, the sandbox's analysis from a scan that turned out pending.
`PipelineIsEnvironment` then says that every such behaviour is one of
`AsyncWorker!Spec`: the environment assumed there is not kinder than the code.
A failing broker, or a signal before the message is sent, is a failure of the
hand-off there (`HandOffFaults`).

**PublishFirst.** Three sets: documents published, files recorded, tasks closed.
A file is recorded, or a task closed, only when the sink has a document for it.
`Pipeline` and `AsyncWorker` each state `PublishesFirst` as an instance of it.

**Limiters, Admission.** A caller of `Acquire` waits, is served, is counted and
calls release, one step each. A FixedLimiter is a channel and a ByteLimiter a
semaphore, whose waiters both queue: one machine, with weights of one for the
first. The channel's counterpart of clamping is `NewFixedLimiter`'s. A
RateLimiter's tokens are ticks from now, and a waiter that gives up returns its
token only when none was reserved after it. `Admission` is what `Fetch` and
`Lanes` make of a limiter: it lets in whoever fits, in no particular order.

**Scans.** What is true of the object (which rules match, what the sandbox would
report) is chosen at the start, any two scores of a report included; the steps
are what the scanner manages to look at: rule files one by one under the
deadline, lists as they were loaded, a submission whose answer may be lost, a
status and a report. The continuation of a sandbox's scan is met by the worker on
the topic and in the ledger (`Copies`). `hand[c]` is how far `handle` is with
copy c and `result[c]` what it is about to publish; once done with it, the worker
may be handed the same copy again, as often as it likes and whatever the sink
holds, since `handle` looks at the age and not at the row. When copies come,
under which lease and after which poll time, is `AsyncWorker`'s matter; what the
documents say that they publish, and in which order these overwrite one another,
is this module's. The document that counts is the last one (`finding`), as in a
sink that keeps one per DocID.

**EventSource.** `carrier` and `handler` are the goroutines of `Consume` and of
`Items`, `carried` and `handling` what they have in hand. `position` is where
`kafka.Reader` reads, `committed` where the next process starts; `popped` is
what `BRPOP` has taken off the list. `transport` is chosen at the start and
stays.

**IntelLookup.** `at[o]` is the program counter of `lookup.Scan` on object `o`;
`spent++` is a load and a store. The provider may say anything at any time:
`lastSaid` remembers how many days ago it last gave each answer on each content,
which is what the cache is compared with. A row's `left` is the days before
`ExpiresAt`. A refused request, an error and a verdict all end in `Report`,
which records the object, as the lane and the publisher do, unless the sink
refuses the batch or the record is not written: then the object comes again.

### Abstractions

- The order inside a channel, and the order in which the dispatcher visits the
  lanes, are left open: the model has every order (Go's map order is random too).
- Contents, digests, names and document sizes are data; what a rule matches is
  a choice (`Scans`). The publish triggers by bytes, by an oversized document and by the interval
  are one action, `FlushTimer`.
- `Fetch` and `Lanes` use their limiters in `Admission`'s sense: any waiter that
  fits may be served, and a rate limiter admits at any time. The queue and the
  bucket are in `Limiters`, which refines it.
- The detached context of the cancelled flush cannot be cancelled, the ordinary
  one can (`pub = "detached"`).
- A message is delivered to any replica until it is committed, which covers
  rebalances; messages that do not decode are left out.
- The claim's SELECT and its UPDATEs are two steps; the model counts the
  lease from the second, the code from the first, so the transaction is taken to
  be shorter than a tick. Two writes with the same `updated_at` are not told apart from the
  code's view: clock resolution is not modelled.
- A notification's references are a set. An unreachable broker is a step that
  is not taken; only a commit may fail.
- A lookup ends within the day it begins. What a response says is one of three
  opinions, namely what `parse` reads in it: a body with status 200 that lacks
  the fields (`otx.go:38-43`, `virustotal.go:61-70`) is one that says clean, and
  is cached like one, so `VerdictIsProviders` does not tell the two apart.
  Severities are derived data.
- In `AsyncWorker` each pair is submitted once: tokens are not told apart, so a
  second submission of an object that was not recorded, by a later process, is
  out of it and of `System`. A graceful stop is a crash between two steps.
- An unanswered request for a status leaves everything as it was, and is a step
  not taken in `Scans`; `AsyncWorker` has it (`PollFails`). An analysis that has
  ended keeps its report.
- The error that the hash lists' scanner returns for an object without hashes is
  left out of `Scans`: fetch computes them before a lane gets the object.
- What an event source had sent when its process ended is gone or comes again,
  reference by reference, in `Pipeline` (`NextStreams`); which of the two, and
  that commits decide it, is `EventSource`'s matter.

## What is checked

| Run | Question | Result |
|---|---|---|
| PipelineRun | a run that a signal may stop at any step, with spills, handoffs, failing transfers and a failing broker: `ReaderSeesWholeFile`, `BudgetCoversDisk`, `MessageHasRow`; and what a run that ends on its own leaves: `CleanEndHoldsNothing`, `CleanEndAnswersAll` | hold |
| PipelineRestart | the stores across crashes and failing writes, with spilled rows: `RecordFollowsSink`, `RecordedNotRefetched`, and the refinement `PublishesFirst` | hold |
| PipelineEvents | a run on a stream that never ends, with objects that compete for the byte budget, under fairness: `EveryDeliveryAnswered`, `RunEnds` | hold |
| AsyncSafety | two replicas with every fault: `ClosedIsPublished`, `LeaseHonoured`, `VerdictKept`, and the refinement `PublishesFirst` | hold |
| SystemLive | both programs on one object, under fairness: `EveryObjectAnswered` (each scanner's document is in the sink in the end), `Collected` (a continuation is closed in the end and stays closed), the order of writes of the whole system (`PublishesFirst`), and the refinement `PipelineIsEnvironment` | hold |
| Limiters | four callers on each kind of limiter, with contexts that end at any step: `UsedIsHeld`, `NoRoomWasted`, `Paced`, the refinement `ImplementsAdmission`, and under fairness `EveryWaiterServed` | hold |
| Scans | one scan by each scanner with every failure, every report, and the continuation handled again and again: `VerdictIsFounded`, `MatchIsGraded`, `AnalysedIsOver`, `AlarmKept`, and under fairness `ScanAnswered` | hold |
| EventSource | both transports, with signals, crashes and failing commits: `CommitFollowsHandOn`, and under fairness `EveryNotificationHandedOn`, `SourceStops` | hold |
| IntelLookup | one worker or two, with every fault, over days and processes: `VerdictIsProviders`, `AsksOnlyWhenExpired`, `QuotaBoundsProcess` | hold |
| PipelineSpilled | `SpilledIsRunLater`, the comment on `spill` | violated |
| PipelineLostVerdict | `RecordMeansAccounted`, the comment on the error path of `flush` | violated |
| AsyncUnrecorded | `AllCollected`, the comment on running without a broker | violated |

Every module with variables has a `TypeOK` that one of its runs checks (for
`System` those of the two programs). The three violations are where code and
comment part:

- *Spilled.* A full queue parks a scan as a row without a token. The object's
  other finding records it, the next run skips it, and no stage reads the row:
  only the worker's sweeper does, and puts it back.
- *LostVerdict.* With two scanners and the findings in two batches, the first
  batch records the object. If the second is refused, its verdict is gone and
  the object is not scanned again.
- *Unrecorded.* `fromTask` needs a `FileRecord`, which only another scanner's
  finding writes. With the sandbox as the only scanner, or the others' batch
  refused, the sweeper claims the row, fails to rebuild the continuation, and
  claims it again when the lease expires.

More promises that the code does not keep came up and have no run of their own;
`PROJECT.json` lists them among the hazards.

- After a signal the dispatcher gives up the reference of the lane it waits for
  and returns (`pipeline.go:645`): lanes it had not reached and payloads still
  in the channel keep theirs, and the files and bytes stay until the process
  ends. `CleanEndHoldsNothing` says it of runs that no signal ended.
- Two deliveries of one version both pass the dedup query and both write
  `workDir/<FileID>`; `ReaderSeesWholeFile` is checked of distinct versions.
- A message is committed when discovery has its references; if the process dies
  before they are recorded the next one reads on from the commit, though
  `transport/kafka.go:18-20` says that the message comes again.
- The age of a continuation is looked at before the sandbox is, so a retry after
  a crash may overwrite a verdict with the document of having given up.
  `VerdictKept` shows that no other step of the worker does. And a poll repeated
  after the verdict was published may meet CAPE's error body, and overwrite an
  alarm with a clean verdict. `AlarmKept` names these two ways and shows that
  there is no third; the comment on `finish` (`worker.go:233-235`) says that a
  duplicate publish is free.
- Of a report with two scores the first counts, and the second only when the
  first is zero (`cape.go:166-169`, `cuckoo.go:132-135`): a low first score
  hides an alarm in the second, and the finding reads as clean.
  `VerdictIsFounded` exempts such reports by name (`Outvoted`); the score that
  counts, and every other report, is judged rightly.
- `VT_DAILY_QUOTA` is counted per process and never reset, so it is no bound per
  day; and an object that the quota refused is recorded as scanned.
- A rule file that YARA fails on, or a process killed by the deadline, is a line
  in the log, and the finding made of the other files reads as clean, which
  `types.go:192-195` calls the worse case. CAPE's error envelope, answered with
  status 200 where the report is expected, reads as a report of score zero.
- `SPILL_SCANNERS` names `sandbox` by default, which is no scanner's name.

### Bounds

- Two or three references, one and two scanners, queues of one, two fetchers: a
  full queue at every stage, a spill, a dedup batch and a publish batch that
  fill before their timers (PipelineRun, PipelineRestart) and that only the
  timers flush (PipelineEvents, where the batches are larger than the stream).
- The byte budget is 2: in PipelineRun and PipelineRestart two small objects
  (size 0 weighs one) are in flight together, which a spill needs; in
  PipelineEvents one of size 3 is clamped to the whole budget and waits for
  another, and size 9 is past `MaxObjectSize` = 5. A negative size, which the
  limiter refuses, is modelled and fails like a refused transfer; no run has one.
- `MaxRuns` = 2: a crash at any step of the first process, then a second process
  that runs to its end on what the first one left.
- One continuation and two replicas of two threads each: every pair of threads
  on the same row; `LeaseFor` = 2, `PollInterval` = 1, `MaxAge` = 1: a lease can
  expire while it is held, a message can be early, a continuation can be too old.
  The pair may have been parked without a token before it is submitted.
- In SystemLive one object, two scanners, one replica, a lease of one tick: the
  object's record, the row, the message and the sweep come in every order that
  the two programs allow. `Faults` and `WorkerFaults` leave out what breaks the
  promise itself: a sink or a database that always fails. The replica may die
  at any of its steps, but only while the pipeline's run lasts
  (`CrashWhileRunning`), which bounds the deaths without a counter: the run may
  take as long as it likes, but not for ever. The signal, a second process and a
  second replica are in the other runs.
- Four callers of a limiter, limits configured as 0 and 3, weights 0, 2 and 9:
  clamped at both ends, two that do not fit together, one that waits for the
  whole limit with others behind it. An interval of 2 and tokens up to 6 ticks
  away (`Horizon`): three reservations at once.
- Three rule files or lists, scores 0 to 5 with thresholds at 2, 3 and 4: below,
  on, between and above each, in both fields of a report independently. `MaxAge`
  = 2: a poll before, at and after it. Two copies of a continuation, one from the
  topic and one from the ledger, as two threads may have in hand at once.
- `AgeCap` = `MaxAge` + 1 and `AttemptsCap` = 1 saturate: no guard tells larger
  values apart. Replicas are symmetric in AsyncSafety, where no liveness is
  checked.
- Three notifications and two objects: one message does not decode, one names
  two objects, and a third comes behind both; three processes, so that a message
  may be redelivered twice.
- Three objects of two contents, a quota of one, verdicts trusted for two of
  three days, two processes: a content is asked for, found in the cache by
  another object and another process, expires and is asked for again; the quota
  refuses. `LaneWorkers` has both sizes a lane can have: 1, and more.
- `MC*` modules give the constants their functions; the configurations give the
  rest. Deadlock is checked except for streams that never end, where a run that
  waits for the next reference has no step to take, in EventSource and
  IntelLookup, which stop when nothing more arrives or the bounds are reached,
  and in Scans, where a call that ended with an answer is over and copies of a
  continuation may stay away. A finished run stutters
  (`Finished`).

Each property is also tested the other way: operators marked *Mutant of* change
one definition as a plausible bug would, and are used by no specification.
`PROJECT.json` says which property each of them breaks.

### Fairness

`Pipeline!Fairness` asks weak fairness of each stage as a whole: the goroutines
are scheduled, timers fire, and a transfer, a scan or a request ends one way or
another (each has a timeout or a context). It asks nothing of the signal, of
crashes or restarts, and does not promise the success of a step that may fail.
`EveryDeliveryAnswered` therefore reads `<>` of an answer or of the signal.
Weak fairness per stage is enough since every stage has a bounded amount of work
in hand: a stage that may always take a step finishes it.

`System!SystemFairness` asks the same of the pipeline's stages, and of each
replica's sweeper, consumer and handler, and of time. It does not ask that an
analysis finishes or that the sandbox's API works: `Collected` and
`EveryObjectAnswered` hold because of the age limit. They need
`ASYNC_MAX_AGE` > 0, a database that does not fail, and a replica that does not
die for ever: one that always dies in time closes nothing. `AsyncWorker!Fairness`, used by
AsyncUnrecorded alone, is the worker's part of it.

`Limiters!FairSpec` asks that time passes and that each caller goes on: one that
is served runs, one that holds releases. `Scans!FairSpec` asks that a call goes
on, that time passes, that each copy comes back to a worker, and that a sink
which is asked again and again accepts in the end (strong fairness of
`PublishFinding`); not that an analysis ends. That a copy comes back needs the
broker, or the record that `AsyncUnrecorded` is about. `ScanAnswered` is checked
with `ASYNC_MAX_AGE` > 0: with 0, which means no limit, an analysis that never
ends is never answered.

`EventSource!FairSpec` asks weak fairness of its two goroutines, and that
discovery receives what it is offered as long as the context lives (which
`EveryDeliveryAnswered` shows of the pipeline); after the signal it need not, so
that `SourceStops` depends on the second goroutine watching the context. Nothing is asked of uploads, of
the signal or of the next process, and of a commit only that it ends.

## What is proved

All theorems hold for every value of the constants that satisfies
`LedgerAssumption`, `GateAssumption`, `PipelineAssumption`, `WorkerAssumption`,
`SystemAssumption`, `SourceAssumption`, `LookupAssumption`, `LimiterAssumption`
and `ScanAssumption`, which TLC evaluates in the runs. They say, of the modules:
pools and queues are positive, a lease lasts at least a tick, the size gate is no
scanner, a limiter has callers, the sandbox's thresholds are in order. They do
not bound references, scanners, replicas, callers, restarts or faults. Where a
theorem needs more, its statement says so:

- `DeliveredOnce`: no two references a run reads are of one version. A listing
  has this, since a key is listed once and `FileID` is made of bucket, key and
  version; an event stream does not, and two deliveries of one version are a
  hazard that `PROJECT.json` lists.
- `~MayFail("database")`, `~MayFail("sink")`: the store's writes succeed. A write
  that fails is logged and passed over, so what the others find is not promised.
- `workers = 1` is part of `AsksOnlyWhenExpired` and `QuotaBoundsProcess`: with
  more, two lookups may pass the same check.
- `MaxRuns = 1`: one process of the pipeline; tokens are not told apart, so
  a later process that submits a pair again is not what `AsyncWorker` models.

| Theorem | Statement | Argument |
|---|---|---|
| `PipelineProofs!TypeCorrect` | `Spec => []TypeOK` | `TypeOK` alone is not inductive: `fetchers` is decremented by three actions and must not pass zero. Strengthened by `FetchersCounted`: the references in transfer are finite in number and no more than the goroutines left. |
| `PipelineProofs!RecordsFollowTheSink` | `Spec => []RecordFollowsSink` | Strengthened by `ToRecordIsPublished`: while `flush` records, the findings it has still to look at are in the sink. This is the order of `send` and the loop after it. |
| `PipelineProofs!ImplementsPublishFirst` | `Spec => PublishesFirst` | From the same invariant, step by step: `SendSucceeds` and `SendFails` are `Publish`, `MarkObject` is `Record` (with a `Close` in the same step, or none), spills and handoffs are `Reopen`, everything else stutters. |
| `PipelineProofs!MessagesHaveRows` | if the database does not fail, `Spec => []MessageHasRow` | Two strengthenings: a task about to notify already has its token in the ledger (`NotifyingHasRow`), and no statement takes a token away (`TokensKept`). |
| `PipelineProofs!BudgetAlwaysCovers` | `Spec => []BudgetCoversDisk` | `Accounts`, the books of the payloads: the bytes in flight are the sum of the weights reserved and within the budget, a reservation goes with a stage, and `refcnt` is the number of lanes that still have to read. |
| `PipelineProofs!ReadersSeeWholeFiles` | if `DeliveredOnce`, `Spec => []ReaderSeesWholeFile` | `Accounts` says that a lane that reads still holds the reference, `FilesThere` that a reference with readers has its file. With two deliveries of one version the second is false. |
| `PipelineProofs!CleanEndHoldsNothingBack` | `Spec => []CleanEndHoldsNothing` | `Accounts`, and `Drained`: a channel is closed only when its senders have returned (`ClosedInOrder`), and without a signal nobody returns while something is left to receive (`NothingLeftBehind`). This is the order of the waits of `Run`. |
| `PipelineProofs!RecordedNotTransferred` | if `DeliveredOnce`, `Spec => []RecordedNotRefetched` | `RecordedIsPast`: a recorded object is not on its way to a fetcher; the answer of `SeenFileIDs` is still right when the batch is emitted, because nobody else is given the object. |
| `PipelineProofs!CleanEndAnswersForAll` | if `DeliveredOnce` and the stores' writes succeed, `Spec => []CleanEndAnswersAll` | `Reliable`, above all of the others: what was published is in the sink, what `seen` holds is recorded, what a lane gave away has a row, and a publisher that has ended has nothing in hand. |
| `AsyncWorkerProofs!TypeCorrect` | `Spec => []TypeOK` | Inductive with the tasks of jobs and messages. |
| `AsyncWorkerProofs!ClosedTasksArePublished` | `Spec => []ClosedIsPublished` | A thread about to publish holds a verdict, and a thread about to close holds one the sink has; the sink never loses a document. |
| `AsyncWorkerProofs!LeasesAreHonoured` | `Spec => LeaseHonoured` | The candidates of a claim are claimable still: a row that was written leaves every other replica's candidates, a tick keeps a claimable row claimable. |
| `AsyncWorkerProofs!VerdictsAreKept` | `Spec => VerdictKept` | The decision to give up and the document that says so are made in one step, and a continuation only grows older (`VerdictJustified`): what reaches the sink over a verdict is a verdict, or comes from a thread that gives up still. What the pipeline publishes it never handed off. |
| `AsyncWorkerProofs!ImplementsPublishFirst` | `Spec => PublishesFirst` | As for the pipeline; `PublishVerdict` is `Publish`, `CloseTask` is `Close`, a reschedule is `Reopen`. |
| `SystemProofs!SystemPublishesFirst` | `SystemSpec => PublishesFirst` | `SInv` is the two programs' invariants, each found without the other. The pipeline's survives the replicas, who record nothing without a document and take none out of the sink; the replicas' survives the pipeline, which gives a row to nobody. |
| `SystemProofs!SystemHonoursLeases`, `SystemKeepsVerdicts` | `SystemSpec => LeaseHonoured` and `VerdictKept` of the worker within the system | From `SInv`: a write of the pipeline leaves a row with its owner or with nobody, and what it sends to the sink is an answer. For any number of processes of the pipeline, a second submission included. |
| `SystemProofs!PipelineImplementsEnvironment` | if `DeliveredOnce` and `MaxRuns = 1`, `SystemSpec => PipelineIsEnvironment` | Under `EInv`: a task that has been neither handed off nor parked has no row (`RowsOfTasks`), and what `flush` records was published. Then every step of a stage is one of `AsyncWorker`'s environment or a stutter: a scan that turns out pending is `Submit`, the two halves of `handoff` its next two, a spill parks, `SendSucceeds` publishes. |
| `EventSourceProofs!CommitsFollowHandOn` | `Spec => []CommitFollowsHandOn` | A commit covers every earlier offset, so the invariant has to say where those messages are: all that was read is dealt with or in one of the two hands (`Settled`), the handler's being the older (`InOrder`). |
| `IntelLookupProofs!VerdictsAreProviders` | `Spec => []VerdictIsProviders` | A cache row is no younger than the answer it copies (`CacheBacked`), and a reply in hand is of today (`ReplyBacked`). No lock is needed: any number of workers and processes may race. |
| `IntelLookupProofs!QuotaHolds`, `AsksWhenExpired` | `Spec => []QuotaBoundsProcess`, `[]AsksOnlyWhenExpired` | `OneWorker`: with one worker at most one lookup is between its steps (`Alone`), so the count it has read is the count there is (`Counted`), and what was missing from the cache when it looked is missing when it asks (`Sober`). |
| `LimitersProofs!SpecPaced` | `Spec => []Paced` | Reserved slots are an interval apart and all before the next free one; a slot is returned only when it is the last. |
| `LimitersProofs!AccountsBalance`, `RoomIsUsed` | `Spec => []UsedIsHeld`, `[]NoRoomWasted` | `Orderly`: the queue is the callers who wait, each once (`Queued`), and what is used is the sum of what is held (`Booked`). The loop of `notifyWaiters` is a prefix of the queue, the longest that fits. |
| `LimitersProofs!LimitersAdmit` | `Spec => ImplementsAdmission` | From `Orderly`: a waiter is admitted, in `Admission`'s sense, when it runs again; being served has reserved its share, so there is room for it whatever happened in between. |
| `ScansProofs!SpecVerdictIsFounded`, `SpecMatchIsGraded`, `SpecAnalysedIsOver` | `Spec => []VerdictIsFounded` and so on | What was found so far is part of what is true, and what is still to be looked at is known. Every document of a sandbox, in hand or in the sink, is `Grounded`: the grade of the score that counts in a report that is there, an empty report's, or the failure of one too old. An analysis that ends, and time, take no ground away. |
| `ScansProofs!SpecAlarmKept` | `Spec => AlarmKept`, for any number of copies | From `Grounded`: an alarm in the sink is the verdict of the report, so a copy that publishes again has the same verdict in hand, or one of the two named. |
| `SumTheorems` | `SumFunctionOnSet` over a finite set: one element more or less, two disjoint sets, a part of a set, zeros, a count | The community modules define the fold by a recursive function over subsets. The library's induction takes the predicate as an operator, which the provers cannot instantiate; instead, the collection of subsets for which the fact fails has a least member, and that one is contradicted. |

Type correctness of every module with variables is proved: `LimitersProofs`,
`EventSourceProofs`, `IntelLookupProofs` and `ScansProofs` each have it too.

Each proof has one step per action, under the strengthened invariant, in the
`*Proofs` module of its component. What the ledger's statements preserve stands
at the head of the two modules that need it. `SystemProofs` takes the worker's
lemmas through an instance of `AsyncWorkerProofs` (`Replicas`), and shows once
that an action of `Worker` is that of `Replicas`.

Only model-checked: what is said under fairness (`RunEnds`,
`EveryDeliveryAnswered`, `Collected`, `EveryObjectAnswered`,
`EveryWaiterServed`, `ScanAnswered`, `EveryNotificationHandedOn`,
`SourceStops`). Liveness is out of the prover's reach. Every invariant and every
refinement that a passing run checks is stated by a theorem.

## What is not modelled

The dashboard, metrics and sysinfo read and count; nothing depends on them. The
configuration is the constants. HTTP requests, response shapes, TLS, logging and
schema mappings, the envelopes of notifications, the fingerprints of rule sets
and the severities of a lookup are I/O and data.

## Plan

1. *Done:* the stores, the pipeline, the worker, `PublishFirst`; the event source;
   the lookups; the limiters; the scanners; the pipeline and the worker composed
   (`System`); their runs; type correctness, every safety property and every
   refinement proved.
2. `Sinks`: reporters that append (JSON, Loki) against those that overwrite; the
   sequential fallback of `send`.
3. A second process that submits an object again while an earlier analysis of
   it runs: tokens told apart, in `ScanLedger`, `AsyncWorker` and `System`; then
   `PipelineImplementsEnvironment` without `MaxRuns = 1`.
4. The continuation of a run after a signal: what a cancelled run still holds is
   bounded by the lanes the dispatcher had not reached.
5. Limits of zero.
