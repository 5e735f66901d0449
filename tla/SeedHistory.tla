----------------------------- MODULE SeedHistory -----------------------------
(***************************************************************************)
(* `analytics seed` (cmd/analytics/seed.go, internal/seeder) beside the    *)
(* running service: the seeder writes synthetic history in batches, trims  *)
(* it and leaves a marker, while the service ingests live events and runs  *)
(* its own retention on the same tables.  Place of the seeder:             *)
(*                                                                         *)
(*   idle -> hour <-> draw <-> flush                                       *)
(*             \-> final -> retention -> marker -> idle                    *)
(*   and from an error after a cancellation: detached -> idle              *)
(*                                                                         *)
(* What is drawn for an hour (how many events, which, in which order) is   *)
(* up to the PRNG and the load shape: any choice here.                     *)
(***************************************************************************)
EXTENDS Integers, FiniteSets, AnalyticsStore

CONSTANTS Items,        \* ids in the ListItems snapshot; all of one name
          Scales,       \* values of DEMO_TIME_SCALE
          Subs,         \* fractions of a tick that the tables do not keep
          DayLength,    \* ticks in 24 hours
          Days,         \* --days
          BatchSize,
          EnvDays,      \* ANALYTICS_RETENTION_DAYS
          DefaultDays,  \* its default
          NoMarker,
          StartClock, MaxClock, \* bounds: the clock
          MaxEvents,    \* bound: events drawn or ingested live
          MaxRuns,      \* bound: seed runs
          MaxFaults     \* bound: failing calls and crashes

ASSUME SeedAssumption ==
    /\ \A n \in {DayLength, Days, BatchSize, DefaultDays} : n \in Nat \ {0}
    /\ EnvDays \in Int
    /\ Subs \subseteq Nat /\ 0 \in Subs
    /\ NoMarker \notin [scale : Scales, written : Nat]
    /\ DayLength % HourLength = 0
    /\ StartClock \in Nat /\ MaxClock \in Nat
    /\ Days * DayLength <= StartClock /\ StartClock <= MaxClock
    /\ MaxEvents \in Nat /\ MaxRuns \in Nat /\ MaxFaults \in Nat

VARIABLES
    tables,     \* item_events, event_buckets, current_items
    marker,     \* the seed_marker row, or NoMarker
    now,        \* the hosts' clock
    pc,         \* where the seed process is
    scale,      \* its DEMO_TIME_SCALE
    cancelled,  \* its context is canceled (SIGINT, SIGTERM)
    hour,       \* start of the hour being generated
    end,        \* windowEnd, from the RefTime captured at the start
    pending,    \* the batch being filled
    written,    \* totalWritten: rows the successful flushes inserted
    drawn,      \* history: keys this run has generated
    landed,     \* history: rows this run has really inserted
    ever,       \* history: keys that were ever in item_events
    recounted,  \* history: keys inserted again after retention took them
    made, runs, faults   \* counters for the bounds

tableVars == <<tables, ever, recounted>>
runVars   == <<scale, cancelled, hour, end, pending, written, drawn, landed>>
vars      == <<tables, marker, now, pc, scale, cancelled, hour, end, pending,
               written, drawn, landed, ever, recounted,
               made, runs, faults>>

Types == {"created", "deleted"}
Events(times, subs) == [id : Items, name : {"n"}, type : Types, time : times, sub : subs]
Keys == [id : Items, type : Types, time : 0..MaxClock]

TypeOK ==
    /\ tables.events \subseteq ever
    /\ ever \cup drawn \subseteq Keys
    /\ recounted \subseteq ever
    /\ DOMAIN tables.current \subseteq Items
    /\ marker \in [scale : Scales, written : Nat] \cup {NoMarker}
    /\ now \in StartClock..MaxClock
    /\ pc \in {"idle", "hour", "draw", "flush", "final", "detached",
               "retention", "marker"}
    /\ hour \in 0..end
    /\ pending \in Seq(Events(0..MaxClock, Subs)) /\ Len(pending) <= BatchSize
    /\ written \in Nat /\ landed \in Nat

Init ==
    /\ tables = EmptyTables
    /\ marker = NoMarker
    /\ now = StartClock
    /\ pc = "idle"
    /\ scale \in Scales
    /\ cancelled = FALSE
    /\ hour = 0 /\ end = 0
    /\ pending = <<>> /\ written = 0
    /\ drawn = {} /\ landed = 0
    /\ ever = {} /\ recounted = {}
    /\ made = 0 /\ runs = 0 /\ faults = 0

Fault == faults < MaxFaults /\ faults' = faults + 1

-----------------------------------------------------------------------------
(* Retention, the same code for the service's ticker and the closing pass. *)

\* Variant: the setting is taken as it is.
RetentionDays_Unchecked == EnvDays

\* envInt: zero and negative settings fall back to the default.
RetentionDays == IF EnvDays <= 0 THEN DefaultDays ELSE EnvDays

runOnce == DeleteEventsOlderThan(tables, now - RetentionDays * DayLength)

-----------------------------------------------------------------------------
(* The seed process.                                                       *)

\* seed() up to seeder.Run.  A bad flag, profile, connection, migration,
\* ListItems call or an empty snapshot returns here and leaves no trace.
StartSeed(s) ==
    /\ pc = "idle" /\ runs < MaxRuns
    /\ runs' = runs + 1
    /\ scale' = s
    /\ cancelled' = FALSE
    /\ end' = (now \div HourLength) * HourLength
    /\ hour' = end' - Days * DayLength
    /\ pending' = <<>> /\ written' = 0 /\ drawn' = {} /\ landed' = 0
    /\ pc' = "hour"
    /\ UNCHANGED <<tableVars, marker, now, made, faults>>

\* SIGINT or SIGTERM.
Cancel ==
    /\ pc # "idle" /\ ~cancelled
    /\ cancelled' = TRUE
    /\ UNCHANGED <<tableVars, marker, now, pc, scale, hour, end, pending, written,
                   drawn, landed, made, runs, faults>>

Elsewhere == UNCHANGED <<marker, now, scale, cancelled, end, runs>>

\* The head of the loop over the hours.
TopOfHour ==
    /\ pc = "hour"
    /\ pc' = IF hour = end THEN "final" ELSE IF cancelled THEN "detached" ELSE "draw"
    /\ Elsewhere /\ UNCHANGED <<tableVars, hour, pending, written, drawn, landed, made, faults>>

NextHour ==
    /\ pc = "draw"
    /\ pc' = "hour"
    /\ hour' = hour + HourLength
    /\ Elsewhere /\ UNCHANGED <<tableVars, pending, written, drawn, landed,
                                made, faults>>

BatchFull(batch) == Len(batch) >= BatchSize

Draw ==
    /\ pc = "draw" /\ made < MaxEvents
    /\ \E e \in Events(hour..(hour + HourLength - 1), Subs) :
         /\ pending' = Append(pending, e)
         /\ drawn' = drawn \cup {Key(e)}
    /\ made' = made + 1
    /\ pc' = IF BatchFull(pending') THEN "flush" ELSE "draw"
    /\ Elsewhere /\ UNCHANGED <<tableVars, hour, written, landed, faults>>

\* The transaction of a flush commits.
CommitBatch ==
    LET new == Inserted(tables, pending)
    IN  /\ tables' = IngestEventsBatch(tables, pending)
        /\ ever' = ever \cup new
        /\ recounted' = recounted \cup (new \cap ever)
        /\ landed' = landed + Cardinality(new)

NoCommit == UNCHANGED <<tableVars, landed>>

\* Variant: the partial batch at the end of the last hour is forgotten.
Flush_FullBatchesOnly ==
    /\ pc \in {"flush", "final"}
    /\ ~cancelled \/ pending = <<>>
    /\ IF pc = "flush" THEN CommitBatch ELSE NoCommit
    /\ written' = written + Cardinality(Inserted(tables, pending))
    /\ pending' = <<>>
    /\ pc' = IF pc = "flush" THEN "draw" ELSE "retention"
    /\ Elsewhere /\ UNCHANGED <<hour, drawn, made, faults>>

\* flush(): nothing to do, or one batch under a context that is still good.
Flush ==
    /\ pc \in {"flush", "final"}
    /\ ~cancelled \/ pending = <<>>
    /\ CommitBatch
    /\ written' = written + Cardinality(Inserted(tables, pending))
    /\ pending' = <<>>
    /\ pc' = IF pc = "flush" THEN "draw" ELSE "retention"
    /\ Elsewhere /\ UNCHANGED <<hour, drawn, made, faults>>

\* The flush returns an error, with the transaction rolled back or committed
\* and the answer lost.  A cancellation saves the batch on a detached
\* context; any other error ends the run.
FlushFails ==
    /\ pc \in {"flush", "final"} /\ pending # <<>>
    /\ (cancelled /\ UNCHANGED faults) \/ Fault
    /\ CommitBatch \/ NoCommit
    /\ pc' = IF cancelled THEN "detached" ELSE "idle"
    /\ pending' = IF cancelled THEN pending ELSE <<>>
    /\ Elsewhere /\ UNCHANGED <<hour, written, drawn, made>>

\* Variant: the saving flush runs under the canceled context.
FlushDetached_CanceledContext ==
    /\ pc = "detached"
    /\ NoCommit /\ UNCHANGED faults
    /\ pending' = <<>>
    /\ pc' = "idle"
    /\ Elsewhere /\ UNCHANGED <<hour, written, drawn, made>>

\* flushDetachedOnCancel; the run ends with the cancellation's error even if
\* this flush fails too.
FlushDetached ==
    /\ pc = "detached"
    /\ \/ /\ CommitBatch /\ UNCHANGED faults
          /\ written' = written + Cardinality(Inserted(tables, pending))
       \/ Fault /\ (CommitBatch \/ NoCommit) /\ UNCHANGED written
    /\ pending' = <<>>
    /\ pc' = "idle"
    /\ Elsewhere /\ UNCHANGED <<hour, drawn, made>>

\* A failing pass is only logged.
ClosingRetention ==
    /\ pc = "retention"
    /\ \/ ~cancelled /\ tables' = runOnce /\ UNCHANGED faults
       \/ cancelled /\ tables' \in {tables, runOnce} /\ UNCHANGED faults
       \/ Fault /\ tables' \in {tables, runOnce}
    /\ pc' = "marker"
    /\ Elsewhere /\ UNCHANGED <<ever, recounted, hour, pending, written, drawn, landed, made>>

\* The annotations that follow are AnomalyAnnotations.
UpsertSeedMarker ==
    /\ pc = "marker"
    /\ LET row == [scale |-> scale, written |-> written]
       IN  \/ ~cancelled /\ marker' = row /\ UNCHANGED faults
           \/ cancelled /\ marker' \in {marker, row} /\ UNCHANGED faults
           \/ Fault /\ marker' \in {marker, row}
    /\ pc' = "idle"
    /\ UNCHANGED <<tableVars, now, runVars, made, runs>>

\* What GET /api/v1/seed-marker answers.
GetSeedMarker == IF marker = NoMarker THEN [status |-> 404]
                 ELSE [status |-> 200, scale |-> marker.scale, written |-> marker.written]

\* The seed container is killed.
Crash ==
    /\ pc # "idle"
    /\ Fault
    /\ pc' = "idle"
    /\ pending' = <<>>
    /\ Elsewhere /\ UNCHANGED <<tableVars, hour, written, drawn, landed, made>>

-----------------------------------------------------------------------------
(* The service, and time.                                                  *)

\* An event of the stream; ItemPipeline has its path in detail.
IngestLive(e) ==
    /\ e.time = now /\ made < MaxEvents
    /\ tables' = IngestEvent(tables, e)
    /\ ever' = ever \cup {Key(e)}
    /\ made' = made + 1
    /\ UNCHANGED <<recounted, marker, now, pc, runVars, runs, faults>>

\* Runner.Run: at the start and on every tick.  A failing pass changes nothing
\* that the next one does not.
ServiceRetention ==
    /\ tables' = runOnce
    /\ UNCHANGED <<ever, recounted, marker, now, pc, runVars,
                   made, runs, faults>>

Tick ==
    /\ now < MaxClock
    /\ now' = now + 1
    /\ UNCHANGED <<tableVars, marker, pc, runVars, made, runs,
                   faults>>

SeedStep ==
    \/ \E s \in Scales : StartSeed(s)
    \/ Cancel \/ TopOfHour \/ NextHour \/ Draw \/ Flush \/ FlushFails
    \/ FlushDetached \/ ClosingRetention \/ UpsertSeedMarker \/ Crash

Next ==
    \/ SeedStep
    \/ \E e \in Events({now}, {0}) : IngestLive(e)
    \/ ServiceRetention
    \/ Tick

Spec == Init /\ [][Next]_vars

-----------------------------------------------------------------------------
(* Properties.                                                             *)

SerialResult == FoldLeft(IngestEvent, tables, pending)

\* Two events of one item that the tables hold to be simultaneous, the
\* earlier one behind the later one in the batch.
HiddenInversion ==
    \E j, k \in DOMAIN pending :
       /\ j < k /\ pending[j].id = pending[k].id
       /\ pending[j].time = pending[k].time /\ pending[k].sub < pending[j].sub

\* One batch leaves the tables exactly as its events one by one would, for
\* every batch the seeder fills and whatever the service and earlier batches
\* wrote before: duplicates within it, events out of order, ties.  The counts
\* agree always, current_items unless the batch has a hidden inversion
\* (IngestEventsBatch, foldCurrentItems).
BatchEqualsSerial ==
    LET batch == IngestEventsBatch(tables, pending)
    IN  /\ batch.events = SerialResult.events
        /\ batch.buckets = SerialResult.buckets
        /\ HiddenInversion \/ batch.current = SerialResult.current

EverIn(k) == {r \in ever : Bucket(r) = k}

\* A bucket counts every event that was ever ingested once, whether or not
\* its raw row is still there, through retried flushes, replays, crashes and
\* retention passes at any moment; it counts more only where an event came
\* again after retention had taken its row (retention.go: "the hourly
\* event_buckets rows ARE the aggregation for every event this job ever
\* deletes").
BucketsOutliveRawRows ==
    /\ {Bucket(r) : r \in ever} = DOMAIN tables.buckets
    /\ \A k \in DOMAIN tables.buckets :
         /\ tables.buckets[k] >= Cardinality(EverIn(k))
         /\ EverIn(k) \cap recounted = {} =>
              tables.buckets[k] = Cardinality(EverIn(k))

\* The last-24h statistics are exact even then: retention keeps at least a
\* day, so no event of their window can have been trimmed and counted again,
\* whatever is re-seeded (StatsLast24h, config.go envInt).
StatsLast24hExact ==
    \A y \in Types :
       StatsSince(tables, y, now - DayLength) =
         Cardinality({r \in ever : r.type = y /\
                        (r.time \div HourLength) * HourLength >= now - DayLength})

\* When the endpoint's answer changes it tells of a complete run: everything
\* the run generated has been ingested, whatever was canceled, failed or
\* retried on the way, and events_written is what it inserted (store/seed.go
\* UpsertSeedMarker: "never on failure or partway through").
MarkerMeansComplete ==
    [][GetSeedMarker' # GetSeedMarker =>
         /\ GetSeedMarker'.status = 200
         /\ GetSeedMarker'.written = landed
         /\ drawn \subseteq ever]_vars

\* A canceled run saves what it has generated: unless a call fails for a
\* reason of its own, nothing drawn is missing when it exits (seeder.go
\* flushDetachedOnCancel: "not silently losing already-generated events").
CancelLosesNothing ==
    [][pc = "detached" /\ pc' = "idle" /\ faults' = faults => drawn \subseteq ever']_vars
=============================================================================
