# TLA+ models of devops-demo

Models of the parts of this repository that keep state and can go wrong by
interleaving, failure or ordering; TLC checks them on small instances and TLAPS
proves the main invariants for every instance. Paths below are relative to the
repository root (`services/...`).

## The system

| part | state | operations | talks to |
|---|---|---|---|
| backend item API (`services/backend/app/crud.py`, `main.py`) | table `items` | create, delete, list | broadcaster, by a call after the commit |
| event broadcaster (`events.py`) | set of subscribers, one bounded queue each | subscribe, unsubscribe, publish | gRPC handlers, through the queues |
| gRPC server (`grpc_server.py`) | one coroutine per `WatchItemEvents` call | ListItems, WatchItemEvents | peers, through streams |
| seed script (`seed.py`) | none | insert names, clear table | the table only; no events |
| analytics ingest client (`services/analytics/internal/ingest`) | position in its loop, event in hand, attempt counter | dial, snapshot, reconcile, watch, persist, back off | backend by gRPC, store by transactions |
| analytics store (`internal/store`) | `item_events`, `event_buckets`, `current_items`, `seed_marker`, `schema_migrations` | IngestEvent, ReconcileSnapshot, IngestEventsBatch, retention delete, reads | Postgres |
| analytics seeder (`internal/seeder`, `cmd/analytics/seed.go`) | a batch, a position in the history window | draw, flush, flush on cancel, closing retention, marker, annotations | store, backend (ListItems), Grafana |
| retention (`internal/retention`) | a ticker | delete old raw events | store, on the seeder's tables too |
| migrations runner (`internal/store/migrate.go`, `pool.go`) | `schema_migrations` | connect, check, apply and record | Postgres, beside other processes |
| load shape (`internal/loadshape`) | none | rate at a moment, real window of an anomaly | seeder, annotations |
| anomaly annotations (`internal/grafana`) | annotations in Grafana | list, delete, create | Grafana |
| analytics process and HTTP API (`cmd/analytics/main.go`, `internal/httpserver`) | goroutines, contexts, connection pool | start, serve reads, stop | all of the above |
| report job engine (`services/reports/.../jobs`) | `report_jobs` rows, artifact files, thread pool and its queue | submit, runJob, drain, startup sweep | Postgres, artifact volume, backend, analytics |
| reports UI (`services/reports-ui/site/app.js`) | job on display, poll timers, table | submit, poll, refresh | reports |
| frontend | browser state | item list | backend |
| canary (`services/canary`) | one journey | create, verify, wait for the pipeline, have a report made, delete | all APIs |
| load generator (`loadgen`, `loadprofile`) | none | scale guard, k6 scenarios | backend, analytics |

What is hard here:

* a request commits, awaits, and only then publishes; other requests run and the
  process may die in between;
* `publish()` never blocks, so a full queue has to lose something without any
  client noticing too late;
* the ingest client reads a snapshot, writes it, and subscribes afterwards; every
  step can fail, also after its transaction committed;
* a report job is five blocking calls on a pool thread, each of which can fail with
  or without effect, against shutdown, crash, and a sweep at the next start;
* seeder, live ingest and retention write the same tables, and what one deletes is
  what another one deduplicates by; a seed run can be canceled, fail or die anywhere;
* processes race through check-then-apply migrations, whose commits can be lost;
* the page and the canary are clients with requests, timers and deadlines of their
  own, whose answers come late or never.

What makes the parts correct:

* a subscribed stream has no gap, and a stream with a gap ends;
* one event for each committed change, after the commit;
* counts never include an event twice; nothing is lost while a stream is healthy;
  the mirror of the items is right, or wrong for a cause that the next snapshot
  repairs;
* an accepted report job is run or its row becomes final; a successful one has its
  artifact; a final status stays;
* a bucket counts each event once and keeps counting it when the raw row is gone; a
  batch is the same as its events one by one; a seed marker means a complete run;
* a migration takes effect once and in order; nobody runs on an incomplete schema;
* a stop is heeded, and nobody uses the pool after it is closed;
* what the page shows is about the job it names; a canary item does not outlive its
  journey without a cause.

## Modules

| module | models | extends |
|---|---|---|
| `EventFeed` | abstract: what a `WatchItemEvents` call promises its peer | |
| `ItemBackend` | item API, broadcaster, gRPC handlers, seed script, transport; implements `EventFeed` | instantiates `EventFeed` |
| `AnalyticsStore` | tables and transactions of the analytics store, as operators | |
| `ItemPipeline` | the ingest client and its database, composed with the backend | `ItemBackend`, `AnalyticsStore` |
| `Backoff` | the client's waits | |
| `SeedHistory` | seed runs, retention and live ingest on one database | `AnalyticsStore` |
| `LoadShape` | the load profile along the seeder's hours | |
| `AnomalyAnnotations` | the replacement of the annotations in Grafana | |
| `SchemaVersion` | abstract: a schema that goes up version by version | |
| `Migrations` | connect and migrate by several processes; implements `SchemaVersion` | instantiates `SchemaVersion` |
| `AnalyticsProcess` | goroutines, pool and handlers of the service, and their end | |
| `ReportJobs` | the report job engine | |
| `ReportsUI` | the reports page | |
| `CanaryJourney` | the canary | |
| `ItemPipeline_proofs` | theorems about `ItemBackend`, `ItemPipeline` and `Backoff` | `ItemPipeline`, `Backoff`, TLAPS |
| `AnomalyAnnotations_proofs` | theorems about `AnomalyAnnotations` and `LoadShape` | both, TLAPS |
| `SeedHistory_proofs`, `Migrations_proofs`, `AnalyticsProcess_proofs`, `ReportJobs_proofs`, `ReportsUI_proofs`, `CanaryJourney_proofs` | theorems | the module of that name, TLAPS |
| `MC...` | symmetry sets and constant values for TLC | the module |

Definitions that end in `_Something` and are marked "Variant" are plausible
mistakes. They are not part of any specification; replacing the definition of the
same prefix by one of them makes the property listed with it in `PROJECT.json`
fail, which shows that the property depends on that code.

### ItemBackend and EventFeed

`items` is the table, `unpublished` the requests between their commit and their
`publish()`, `published` the history of all events. A request is `CreateItem` or
`DeleteItem` (the commit) and later `Publish`; the 409 and 404 paths roll back and
change nothing. A 500 after a commit whose acknowledgement is lost leaves a row
changed and never announced, which is the effect `SeedItem` and `ResetItems` have
too. `Publish` is one step because `publish()` has no await. For each stream there
are `queue`, `handler` ("starting" until the coroutine has subscribed), `link` and
`wire`. `LinkDrop` loses any suffix of what is in flight; `BackendRestart` loses
everything that is in memory only. `owed` and `since` are history variables: the
position in the log of the next event a stream will yield, and where it began.

`EventFeed` has the log, the part of it that is still due to each stream, the
connections and what is under way, and no queue. Its `Emit` may part with streams that
lag behind: such a stream loses the oldest event due to it, is sent the rest, and ends.
That is what dropping the oldest entry for the sentinel does: an evicted peer receives
events from after its gap, and the gap is one event, before it sees the end. `Due` is the refinement
mapping.

### AnalyticsStore and ItemPipeline

A transaction is an operator from tables to tables. `pc` is the client's place in
`Run` and `cycle`; `ReconcileFails` and `PersistFails` cover a rollback and a commit
whose answer was lost. The history variable `missed` holds the ids whose last change
the client could not see: published or dropped while its stream was not subscribed,
written by the seed script, or published in the wrong order. `ListItems` clears it,
because the snapshot holds the truth at that moment.

The event times are the backend's; a reconcile stamps rows with a clock that is
`Skew` ahead, and the clock may stand still between events (`Ticks` with 0). An event
that is newer than the reconcile but looks older (`LostToSkew`) is one of the causes
that `MirrorWrongOnlyForCause` names; with `Skew = 0` it cannot happen. Metrics
(the last-event-time gauge has one writer, this loop), traces and the malformed-event branch (the backend emits only `created` and
`deleted`) are left out.

`IngestEventsBatch` is the seeder's transaction on the same tables. An event has a
`time`, what a timestamptz keeps, and a `sub`, the rest of Go's nanoseconds that only
`foldCurrentItems` sees.

### Backoff

`Backoff` is `Run`'s attempt counter with `backoffDuration` in wrapping integers of
`Width` bits (`Pow2` is the shift); jitter is either end of its range. The environment
may set any duration as base and maximum. From a base of 2^(Width - MaxShift) on, 17
seconds in the code, a product can come around to a small positive number; `NotComeAround`
is where `OutageBacksOff` promises the doubling.

### SeedHistory

`pc` is where `seed()` and `seeder.Run` are, `pending` the batch, `hour` the loop.
Which events an hour draws is any choice. `FlushFails` and `FlushDetached` end a
flush with or without its commit; `cancelled` is the context, and calls under a
canceled context may still have had their effect. `IngestLive` and
`ServiceRetention` are the service on the same tables; the clock runs. History:
`drawn` and `landed` of a run, `ever` (all keys ever inserted) and `recounted` (those
inserted again after retention had taken them).

### LoadShape and AnomalyAnnotations

`LoadShape` walks through the hours as `seeder.Run` does and keeps the anomalies each
hour's midpoint fell into, and whether the last hour rounds to no event
(`RoundsToZero`, `math.Round(rate * 3600)`). Time is in minutes, factors are whole
percents, rounded down where they are multiplied, and coefficients and multipliers are
not negative. The product of diurnal wave and noise is any percentage in the range that
their amplitudes allow (`LowestWave` to `HighestWave`), so a history of the model has at
least the empty hours of the code. `WholeMinutes`, `BusyProfiles` and
`DisjointAnomalies` are hypotheses of three theorems; the module of the run assumes
them, so that TLC evaluates them for its profiles and scales.
`AnomalyAnnotations` has one step per HTTP call, runs that overlap, calls that fail
with, without or before their effect, and a list that the limit cuts off. `disturbed`
and `tangled` remember which runs were not alone.

### Migrations and SchemaVersion

A process goes through `Connect`, `CREATE TABLE`, the loop of `Migrate` and the
transaction of `applyOne`; `effect` counts how often a file's SQL has taken effect.
`Holders` is the lock of the primary key on `schema_migrations`: an insert waits for
the other transaction with the same version. `SchemaVersion` is what is promised;
the refinement maps the number of recorded versions to `version` and the running
processes to `users`.

### AnalyticsProcess

`main` is the place of the main goroutine between its `select` and its exit,
`worker` and `request` the goroutines that use the pool. What a query does is in the
other modules; here it holds one of `PoolSize` connections.

### ReportsUI and CanaryJourney

`ReportsUI`: job number g is the one accepted as generation g; `poll[g]` is its chain
of polls (request, answer, timer), `pollTimer` the one timer the page can clear.
Answers hold the status at the time they were given, so they can be stale. `banner` is
what the banner tells; a list that loads hides it, whoever showed it. `ended` is
history: the polling of the job on display is over and its final status was not seen.
PENDING and RUNNING are one status, as the page treats them alike. `CanaryJourney`:
one action per step of `journey::run`; a poll takes some of what is left of the one
deadline of its step. A request given up by the canary may still take effect
(`late`).

### ReportJobs

`proc` is the life of the process, `holder` the `submit()` inside the admission
lock, `step[w]` where thread `w` is in `runJob`. The `CancellationException` branch
of `runJob` is not an action: no call in the `try` block suspends, so it cannot be
reached once the coroutine has begun. `Disturbed` is a failing call, or one that the
interrupt of `shutdownNow` breaks. `accepted`, `dropped`, `torn` and `swept` are
history: jobs answered 202, jobs given up without a final status (an `Error`, a
failing `markFailed`, an insert that committed but threw), successes that committed
but were reported as errors, and jobs the sweep failed while this process had them.

## Runs

| run | instance | shows |
|---|---|---|
| `pipeline` | 2 names, 2 streams, queue 2, wire 1, 2 ids, analytics clock 2 ticks ahead, 1 fault | no gap while subscribed, evicted streams end, implements `EventFeed`, one event per commit and after it; buckets count raw events, healthy streams lose nothing, mirror wrong only for cause |
| `pipeline_live` | 1 name, 2 streams, queue 1, 1 id, clock may stand still, skew 2, 3 faults, fair | the last one under combinations of faults; an evicted client resynchronises; in the end the client streams |
| `seed_history` | 1 item, hours of 2 ticks, days of 2 hours, batches of 2, two sub-precisions, 3 events, 2 runs, 1 fault | the batch equals the serial fold, counts outlive raw rows, 24h statistics exact, marker and cancellation |
| `migrations` | 2 processes, 4 files, 2 attempts, 2 faults, fair | applied once and recorded then; implements `SchemaVersion`; a restarted service runs |
| `annotations` | 3 runs, 2 anomalies, list limit 3, 2 faults | success replaces everything, never mixed, one replacer |
| `analytics_process` | 2 requests (one `/readyz`), 2 connections, 2 ticks, fair | order of the shutdown, exit code, a stop is heeded |
| `load_shape` | the checked-in profile and two broken ones, scales 1, 4, 24, 14 reference times, 28 days | weekdays, windows, no anomaly missed, no hour without events but in outages and until a day after the zero of the trend |
| `backoff` | 16 bits, shift up to 7, bases -1 to 600, samples up to 32767 and the most negative ones, 10 attempts | waits stay between zero and the maximum; those of an outage double up to the maximum and stay there unless the product comes around |
| `reports` | 2 jobs, 2 threads, 3 faults, fair | admission and shutdown, artifacts, final statuses, no job dangles |
| `reports_sweep` | 1 job, 1 thread | violation, see below |
| `reports_ui` | 2 jobs, 2 list requests in flight, 2 errors, fair | what the page shows, that polling goes on until the end; the page recovers |
| `canary` | 3 journeys, 3 polls, 2 faults, fair | leftovers have a cause, journeys end |

`ItemBackend` has no run of its own: `pipeline` checks its invariants with the ingest
client as the peer that opens, reads and closes streams, and the proofs cover them for
arbitrary peers (`Watcher`).

The type invariants (`TypeOK`, `PipelineTypeOK`, `ShapeTypeOK`) say what each variable
holds. They are proved, and not listed as properties of the runs.

Bounds. A queue of two entries is full after two events, so eviction, the sentinel in
a queue that still holds an event, and a second event after eviction all happen; one
wire slot is enough to have an event in queue, in flight and in hand at once. Two ids
give a row that is deleted while another is created, and two names the reuse of a
name. Two streams allow a dead call to linger in the backend while the next one is
open. A skew of two ticks is more than the time between two changes. Two jobs on two
threads overlap at every pair of steps, and two jobs taken by one of them queue up.
Two seed runs, with a window of one day and a retention of one day while the clock
moves on, are the smallest case in which a re-run meets trimmed rows; a batch of two
can be a duplicate, an inversion, a tie or an inversion below the tables' precision.
Four migration files are the repository's. Three annotation runs let two overlap and a
third clean up after them. The reference times of `load_shape` lie before, at and
after full and half hours, with history before 1970 for the negative remainders and
28 days at scale 24, where the trend crosses zero; one of them puts a midpoint so
shortly after that zero that the rate is positive and rounds to no event. The 16-bit width of `backoff` makes
products overflow after a few doublings, as 64 bits do with bases of seconds, and come
around from 512 on. Two list requests can overtake each other, so that the older answer
is shown last; a third that starts meanwhile is left out.
`MaxFaults`, `MaxId`, `MaxClock`, `MaxEvents`, `MaxRuns` and their like bound the
behaviours; `CHECK_DEADLOCK FALSE` is set because a bounded behaviour may end.

Fairness. Weak fairness for the backend's coroutines (asyncio runs what is ready),
for the client's goroutine, for the pool threads and for the steps of a shutdown;
and for the end of a database outage. Strong fairness for
the startup sweep: not every start is cut short. In `Migrations`, for the steps of a
process, for the restart of supervised ones and for the database coming up (compose:
`restart: unless-stopped`). In `AnalyticsProcess`, for the main goroutine and for the
end of queries and handlers; not for workers taking up new work. A worker's query ends
when its context is canceled and that of `/readyz` at its timeout; the other handlers
have no timeout and `Shutdown` does not cancel `r.Context()`, while `pool.Close` waits for
their connections, so `StopIsHeeded` assumes that the database answers them. In `CanaryJourney`, for the journey's task, because every request
and sleep in it is bounded. In `ReportsUI`, for timers, the interval, the end of
requests and of jobs. Requests, clicks, faults, crashes and stop signals have none.

### Disagreements with comments and docs

* `reports_sweep`: the web server serves requests before `ApplicationReadyEvent`, so
  the sweep can fail a row this process has inserted and not yet launched. `ReportService.kt:212`
  calls every such row orphaned. `FinalStatusStays` holds with these jobs (`swept`)
  as an exception.

The exceptions that the other properties name are disagreements too, or limits that a
comment does not mention:

* `EvictedClientResyncs` needs database outages to end. With the database down for
  good the persist retry loop never returns to `Recv`, so the client does not see its
  eviction; `client.go:43-46` says that then the normal reconnect path takes over.
* `BucketsOutliveRawRows` excepts `recounted`: the dedup of a re-run is the unique key
  of `item_events`, whose rows retention takes, so events older than the horizon are
  counted again; `seeder.go:122` calls the replay a no-op. `StatsLast24hExact` shows
  that the last day is never touched by it.
* `BatchEqualsSerial` excepts `HiddenInversion`: within one microsecond the fold goes
  by nanoseconds, the serial upserts by arrival; `store/seed.go:32` says they are equal.
* `MarkerMeansComplete` has no converse: an interrupted run leaves history without a
  marker, while `server.go:184` and `loadgen/README.md:150` take a missing marker for
  no history.
* `SucceededHasArtifact` and `FinalStatusStays` except `torn`: a `markSucceeded` that
  commits and throws ends as a FAILED row with an `artifact_path`, and the API links it,
  although `services/reports/README.md:170` says the link is present only for SUCCEEDED.
* `OnlyOutagesAreEmpty` excepts the time before the trend crosses zero, some 28 real
  days back at scale 24, where the history is empty, and the next day of profile time (an
  hour of real time then), in which a rate may still round to no event;
  `docs/exercises/05-find-the-seeded-anomalies.md:45` expects a wave that only looks
  different.
* `LeftoversHaveCause` counts a lost delete as a cause: its result is ignored, and the
  journey is a success that leaves its item; `services/canary/README.md:24` names
  SIGTERM as the one exception.
* `ShownJobSettles` excepts `ended`: the deadline, a 4xx, and a submission that fails
  after its click has cleared the timer (`app.js:77`) end the polling of the job on
  display, whose pill stays RUNNING; `services/reports-ui/README.md:18,68` says the page
  polls until the job is final and recovers. The banner that tells of the deadline
  (`app.js:150`) is no lasting sign of it: the next list that loads hides it
  (`app.js:219`, at most five seconds later), which is why the property does not speak of
  the banner. `PageRecovers` shows that the table has the right status in the end.
* `OutageBacksOff` promises no doubling from a base of 17 seconds on: `client.go:253`
  says that the cap of the shift guards the product from overflowing, and `config.go:17-19`
  that waits grow up to the maximum, but a product that comes around to a small positive
  number is taken for a short delay.

## Proofs

`tlapm <module>_proofs.tla` checks each proof module from nothing; the longest is
`ItemPipeline_proofs`, some four minutes. The theorems hold for every value of the
constants that satisfies the named assumptions of the modules: sizes and bounds are
natural numbers (queues, wires, pools, batches, hours, days and retention defaults
positive), markers for "none" are none of the values they stand beside, a day is a whole number of
hours and the window of `--days` does not begin before time zero, and in
`AnalyticsProcess` the names of requests and workers differ. `AnnotationsNeverMixed`
has one hypothesis more, `NumAnomalies <= Limit`: a list call returns all that one
run leaves (three against 1000 in the code). Without it a run that is alone may leave old
annotations beside its own. `AnnotationsSpan` and `AnomaliesAreSampled` have the hypothesis
`WholeMinutes` (an anomaly's start, compressed by the scale, is a whole minute, which holds
for the profile at all scales the run uses), and `OutagesAreTheGaps` has `BusyProfiles`
(even with the smallest of its factors outside outages, a profile has half an event an hour
one day after its trend has crossed zero, which needs positive coefficients and a trend
that rises) and `DisjointAnomalies` (one anomaly at a time), both as in the checked-in
profile. `LoadShape` takes coefficients and multipliers to be natural numbers of percents.
For `Backoff` durations fit into the width, and nothing else.

Each safety theorem rests on an inductive invariant, with one lemma per part of it and
one step per action:

* **Streams.** `StreamInv` says for each stream: nothing is in flight before it
  subscribes; its queue is empty when no handler runs, without the sentinel while it
  is subscribed, and sealed by the sentinel once it is not; while it is subscribed,
  queue and wire are adjacent stretches of the log. `NoGapWhileSubscribed`
  alone is not inductive: it needs the wire to be empty when a handler starts, and
  the sentinel discipline, so that an event which does not fit is never just left
  out of a queue that stays registered. Lemmas about stretches and sealed queues carry
  the sequence reasoning.
* **The feed** (`BackendImplementsFeed`, `PipelineImplementsFeed`): `RestInv` says that
  what an evicted stream has before its sentinel is the log after one lost event.
  `StreamInv` does not say it (it follows a queue only while it is subscribed), and
  without it a `Yield` after the eviction could be any event. Each action of backend and
  peer maps to one action of `EventFeed` or to none; a full queue is `Lagging` because
  `QueueSize` is positive, and `EndStream` finds everything due sent because the
  sentinel is last.
* **Commits.** `CommitInv` adds to `OneEventPerCommit` and `EmitAfterCommit` what
  they need of the pending changes: they are about committed rows, no two are the
  same change, and ids not handed out have no row.
* **Backend and client together.** `BackendView`: every step of `PipelineNext` is, for
  the backend, one of its own steps, a counted fault, or a cut of a stream by its peer.
  So `StreamInv` and `CommitInv` hold under `PipelineSpec` as well
  (`PipelineInvariant`, `BackendKeepsPromises`). `PipelineTypes` adds to the types how
  the client's place fits its stream and its hand.
* **Buckets** (`BucketsCountOnce`): `BucketsCountRawEvents` with the types is
  inductive; `IngestTables` and `ReconcileTables` say what the transactions do, and that
  an event counted once more is one whose raw row was new.
* **Healthy streams** (`HealthyStreamDelivers`): `First` is the position of the client
  in the log, what it has in hand or will receive next. `HandInv` ties the hand to it,
  and `Delivered` says that all from the subscription up to it is stored. Neither is in
  the property, which speaks of what is stored, in hand, on the wire or queued; without
  them a `Recv` could skip an event.
* **The mirror** (`MirrorTellsTheTruth`) needs the most, because a row's content is
  decided by comparing times of two clocks: `NameInv` (events and pending changes carry
  the name of the row), `ClockInv` (times in log, queues and wires go up), `SeenInv` (no
  `last_seen` is more than `Skew` ahead of the clock, nor of what is still to come),
  `OrderInv` (a created event of a row that is gone is followed by its removal, in the log or
  about to be published, or the id is missed) and `MirrorInv` (each row is right or one of the
  causes applies).
* **Seed history.** `SeedTypes` has the walk over whole hours (so that a drawn event
  lies before `windowEnd` and a batch is never more than full). `KeptInv`: what was ever
  ingested and is younger than the retention still has its raw row. It is what makes the counts
  inductive (`BucketsOutliveRows`), as a live event that was counted before must find
  its row. `RecountedInv`, rows counted twice are older than the retention, gives
  `RecentCountsExact`: every bucket that `StatsLast24h` adds up is exact.
  `Progress` (generated means ingested or in the batch; counted means inserted) gives
  the two action properties about the marker and about cancellation.
* **Batches** (`BatchIsSerial`): `foldCurrentItems` is a fold over the batch. `SerialSteps`
  and `WinnerSteps` turn serial upserts and fold into recursions over prefixes, and
  `CurrentStep` says that after every prefix the rows are those of the fold merged into
  the table; its core is `LaterAbsorbs`, that upserting a row and then a later one is
  upserting the later one with the earlier `first_seen`. The sum of `StatsLast24h`
  (`StatsAreExact`) goes over finite sets of buckets, one more at a time. Both are inductions
  over numbers by the least counterexample (`LeastNat`, `SetInduction`), because the
  induction theorems of the library take an operator, which the provers cannot instantiate.
* **Waits** (`WaitsBackOff`): whatever the product is, the delay is positive and not above
  the maximum. A product below `2^(Width-1)` is unchanged by the
  wrapping; a larger one with a base below
  `2^(Width - MaxShift)` is below twice that and becomes negative
  (`WrapsToNegative`), which the sign
  check takes for the maximum. `Pow2Doubles` and `ShiftFits` are about the shift.
* **Load shape.** `Recorded` (only an accepted profile is walked through, and each hour so
  far has the anomalies its midpoint falls into) is inductive, and with it
  `OnlyOutagesAreEmpty` (`OutagesAreTheGaps`): outside outages at most one anomaly applies
  (`NoAnomaly`, `OneAnomaly`), the factor of a degradation lies between 100 percent and its
  multiplier (`RampBounds`), so the product of the factors is at least one that
  `BusyProfiles` is about (`ProductBounds`, `QuietHour`), and a larger product rounds to
  zero only for a smaller trend (`SmallerResidue`). The
  count of hours in `NoAnomalyIsMissed` is that of an interval of midpoints one hour
  apart in a window of whole minutes. `WeekdayOfCalendar` is
  arithmetic on the two kinds of remainder.
* **Annotations.** `DeletedOnce`: an annotation that two runs listed was deleted for at
  most one of them, which with "a run that ends well has deleted all it listed"
  (`Progress`) is `OneReplacer`. `Alone`: an undisturbed run is the only one; as long
  as it deletes, everything shown is still on its list, and then exactly what it has
  created is shown; with `UniqueIds` this is
  `SuccessReplacesEverything`. `Untangled` says that without entanglement no running run is
  disturbed, which `NeverMixed` needs and does not say.
* **Migrations.** `IInv` adds `OneHolder` to `TypeOK`, `RecordedIffAppliedOnce` and
  `InFilenameOrder` (recorded versions are a prefix of the files): a transaction that
  has inserted its version holds it alone, and the version is not committed yet.
  Without it a commit could be the second of its version. The refinement
  (`MigrationsImplementSchemaVersion`) uses the same invariant: a commit adds one
  version to a finite set of them, which is one `Upgrade`, and a process begins to
  run only when all versions are recorded, which is `Enter`.
* **Analytics process.** `Order` (the pool is closed only at the end of `main`, and
  from the shutdown of the listener on all workers are done) and `Accounted` (an abort has code 1;
  with code 0 the listener is closed and no request is in between). `PoolBound`, part of
  the types, counts connections of workers and handlers together.
* **Report jobs.** `JobInv` adds that a job is in one place (queue, one thread, or
  the lock holder), that the lock is held only while admission is open, that a thread
  about to mark success has its file, and that a job that is final and still owned
  was torn or swept. `AcceptedJobsAreOwned`, `SucceededHasArtifact` and the action
  property `FinalStatusStays` follow. Without the single place, a second thread could
  rewrite the artifact or the row of a finished job.
* **Reports page.** `PillOfShownJob` needs `LinkEndsLoop`: once the link of a job is
  there, no poll of it is under way that could replace its status. `NoRogueTimer`
  follows from the types.
* **Canary.** `LeftoversHaveCause` needs `LateExcused`: a request that was given up
  belongs to a journey that is excused, also while it is not over.

Only model-checked:

* liveness (`EvictedClientResyncs`, `EventuallyStreaming`, `SupervisedEventuallyRuns`,
  `StopIsHeeded`, `NoJobDangles`, `ShownJobSettles`, `PageRecovers`,
  `EveryJourneyEnds`), because the prover does not handle fairness;
* the violation of `reports_sweep`.

All safety properties of the runs, invariants, action properties and refinements, are
proved.

## Not modelled

* Report renderers: layout of documents by third-party libraries.
* The report upstream clients and the other report handlers: reads whose outcomes
  (success, failure, an `Error`) are outcomes of `Build` in `ReportJobs`.
* Frontend: one fetch when the page is mounted and one request per click, with the
  form disabled meanwhile; no requests overlap.
* Load generator: `shape.js` is the function of `LoadShape` in another language, the
  scale guard is one comparison, the scenarios are configuration of k6.
* The course of the diurnal wave and of the noise: any value in their range instead; and
  floating-point rounding, the factors being whole percents. The PRNG of the seeder: any choice instead.
* Row locks in Postgres: a deadlock between a seed batch and a reconcile ends one of
  them with an error, which is one of the failing calls.
* A `DEMO_TIME_SCALE` of zero or less: no code or doc says what it should do.
* Telemetry, dashboards, deployment and CI: observation and configuration of
  third-party software.
