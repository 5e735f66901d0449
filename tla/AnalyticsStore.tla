--------------------------- MODULE AnalyticsStore ---------------------------
(***************************************************************************)
(* The analytics tables and the transactions on them (services/analytics/  *)
(* internal/store).  A table with a primary key is a function from the key *)
(* to the row; a transaction is an operator from the tables before to the  *)
(* tables after, because Postgres makes it one step.                       *)
(*                                                                         *)
(*   events   item_events: the set of (item_id, event_type, event_time)    *)
(*   buckets  event_buckets: <<hour, event_type>> -> count                 *)
(*   current  current_items: item_id -> [name, first, last, gone], the     *)
(*            times first_seen and last_seen and "tombstoned_at is not     *)
(*            null"                                                        *)
(***************************************************************************)
EXTENDS Naturals, Sequences, SequencesExt

CONSTANT HourLength   \* clock ticks in one hour bucket

ASSUME HourAssumption == HourLength \in Nat \ {0}

EmptyTables == [events |-> {}, buckets |-> << >>, current |-> << >>]

\* The unique key of item_events.
Key(e) == [id |-> e.id, type |-> e.type, time |-> e.time]

\* date_trunc('hour', event_time, 'UTC') and the event type.
Bucket(e) == <<e.time \div HourLength, e.type>>

Greatest(a, b) == IF a >= b THEN a ELSE b

CountIn(buckets, k) == IF k \in DOMAIN buckets THEN buckets[k] ELSE 0

\* INSERT .. ON CONFLICT DO UPDATE SET count = count + delta, where the delta
\* of a bucket is the number of its rows.
BumpAll(buckets, rows) ==
    [x \in DOMAIN buckets \cup {Bucket(r) : r \in rows} |->
        CountIn(buckets, x) + Cardinality({r \in rows : Bucket(r) = x})]

\* INSERT .. ON CONFLICT (item_id) DO UPDATE
Put(current, i, row) ==
    [x \in DOMAIN current \cup {i} |-> IF x = i THEN row ELSE current[x]]

-----------------------------------------------------------------------------
\* Variant: rows missing from the snapshot are left alone.
ReconcileSnapshot_NoTombstone(current, snapshot, now) ==
    [i \in DOMAIN current \cup DOMAIN snapshot |->
        IF i \in DOMAIN snapshot
        THEN [name |-> snapshot[i], gone |-> FALSE,
              first |-> IF i \in DOMAIN current THEN current[i].first ELSE now,
              last |-> IF i \in DOMAIN current
                       THEN Greatest(current[i].last, now) ELSE now]
        ELSE current[i]]

\* Every row of the snapshot is upserted and revived, every other live row
\* is tombstoned; last_seen never moves back.
ReconcileSnapshot(current, snapshot, now) ==
    [i \in DOMAIN current \cup DOMAIN snapshot |->
        IF i \in DOMAIN snapshot
        THEN [name |-> snapshot[i], gone |-> FALSE,
              first |-> IF i \in DOMAIN current THEN current[i].first ELSE now,
              last |-> IF i \in DOMAIN current
                       THEN Greatest(current[i].last, now) ELSE now]
        ELSE [current[i] EXCEPT !.gone = TRUE]]

-----------------------------------------------------------------------------
\* The row that an event alone leads to.
FromEvent(e) == [name |-> e.name, first |-> e.time, last |-> e.time,
                 gone |-> e.type = "deleted"]

\* Variant: a row with the last_seen that is there already does not win.
Upsert_StrictlyNewer(current, i, row) ==
    IF i \notin DOMAIN current
    THEN Put(current, i, row)
    ELSE IF row.last > current[i].last
         THEN Put(current, i, [row EXCEPT !.first = current[i].first])
         ELSE current

\* The ON CONFLICT clause of both ingest paths: the newest last_seen wins,
\* ties go to the row that arrives last, first_seen stays.
Upsert(current, i, row) ==
    IF i \notin DOMAIN current
    THEN Put(current, i, row)
    ELSE IF row.last >= current[i].last
         THEN Put(current, i, [row EXCEPT !.first = current[i].first])
         ELSE current

ApplyEvent(current, e) == Upsert(current, e.id, FromEvent(e))

\* Variant: the bucket is counted whether or not the raw row was new.
IngestEvent_CountsReplays(t, e) ==
    [events  |-> t.events \cup {Key(e)},
     buckets |-> BumpAll(t.buckets, {e}),
     current |-> ApplyEvent(t.current, e)]

\* One transaction: raw insert (ON CONFLICT DO NOTHING), bucket increment
\* only when the row was inserted, current_items always.
IngestEvent(t, e) ==
    [events  |-> t.events \cup {Key(e)},
     buckets |-> IF Key(e) \in t.events THEN t.buckets
                                        ELSE BumpAll(t.buckets, {e}),
     current |-> ApplyEvent(t.current, e)]

-----------------------------------------------------------------------------
(* The batch path of the seeder (seed.go).                                 *)

\* The raw rows of a batch that the multi-row insert returns as new.
Inserted(t, ev) == {Key(ev[k]) : k \in DOMAIN ev} \ t.events

\* Variant: the last event of an item wins, whatever its time.
foldCurrentItems_LastInSlice(ev) ==
    FoldLeft(LAMBDA w, e : Put(w, e.id,
                 [FromEvent(e) EXCEPT
                    !.first = IF e.id \in DOMAIN w THEN w[e.id].first ELSE @]),
             << >>, ev)

\* time.Time's Before.  The seeder's times have nanoseconds; a timestamptz
\* keeps microseconds (time here) and drops the rest (sub).
Before(a, b) == a.time < b.time \/ (a.time = b.time /\ a.sub < b.sub)

\* Within the batch, the last event that is not before the winner so far.
KeepLater(w, e) ==
    IF e.id \in DOMAIN w /\ Before(e, w[e.id]) THEN w ELSE Put(w, e.id, e)

Winners(ev) == FoldLeft(KeepLater, << >>, ev)

\* first_seen is the time of the first event of the item in the batch.
FirstSeen(ev, i) == ev[Min({k \in DOMAIN ev : ev[k].id = i})].time

\* At most one row per item.
foldCurrentItems(ev) ==
    LET winners == Winners(ev)
    IN  [i \in DOMAIN winners |->
           [FromEvent(winners[i]) EXCEPT !.first = FirstSeen(ev, i)]]

\* One transaction for a whole batch: the new rows, their counts grouped by
\* bucket, and one upsert per item.
IngestEventsBatch(t, ev) ==
    LET new    == Inserted(t, ev)
        folded == foldCurrentItems(ev)
    IN  [events  |-> t.events \cup new,
         buckets |-> BumpAll(t.buckets, new),
         current |-> [i \in DOMAIN t.current \cup DOMAIN folded |->
                       IF i \in DOMAIN folded
                       THEN Upsert(t.current, i, folded[i])[i]
                       ELSE t.current[i]]]

-----------------------------------------------------------------------------
(* Retention and the read side.                                            *)

\* Variant: the hours that are over go with their rows.
DeleteEventsOlderThan_BucketsToo(t, cutoff) ==
    [t EXCEPT !.events = {r \in @ : r.time >= cutoff},
              !.buckets = [k \in {b \in DOMAIN @ : (b[1] + 1) * HourLength > cutoff} |-> @[k]]]

\* Raw rows only: buckets and current_items outlive them.
DeleteEventsOlderThan(t, cutoff) ==
    [t EXCEPT !.events = {r \in @ : r.time >= cutoff}]

\* Events of one type in the buckets that begin at from or later.
StatsSince(t, type, from) ==
    MapThenSumSet(LAMBDA k : t.buckets[k],
        {k \in DOMAIN t.buckets : k[2] = type /\ k[1] * HourLength >= from})

\* What GET /api/v1/items/{id} answers.
GetCurrentItem(current, i) ==
    IF i \notin DOMAIN current THEN [status |-> 404]
    ELSE [status |-> 200, name |-> current[i].name, tombstoned |-> current[i].gone]
=============================================================================
