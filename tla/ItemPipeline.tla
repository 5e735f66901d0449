---------------------------- MODULE ItemPipeline ----------------------------
(***************************************************************************)
(* The backend composed with the analytics ingest client (services/        *)
(* analytics/internal/ingest/client.go) and its store.  The client is one  *)
(* goroutine, the loop                                                     *)
(*                                                                         *)
(*   list -> reconcile -> open -> recv <-> persist -> (error) backoff      *)
(*                                                                         *)
(* pc is where it is.  The snapshot is read before the stream is opened,   *)
(* and the server subscribes later still.                                  *)
(***************************************************************************)
EXTENDS ItemBackend, AnalyticsStore

CONSTANTS NoStream,  \* no call open
          NoEvent,   \* no event in hand
          Skew       \* how far the analytics clock is ahead of the backend's

ASSUME PipelineAssumption ==
    NoStream \notin Streams /\ NoEvent \notin Event /\ Skew \in Nat

VARIABLES
    pc,        \* where the client's goroutine is
    snapshot,  \* the ListItems response being reconciled: id -> name
    stream,    \* the open WatchItemEvents call, or NoStream
    current,   \* the event being persisted, or NoEvent
    tables,    \* the analytics database
    dbUp,      \* is the analytics database reachable
    missed     \* history: ids changed out of the client's sight since the
               \* last ListItems read, whose events came out of order, or
               \* whose event lost against a last_seen of the faster clock

clientVars == <<pc, snapshot, stream, current, tables, dbUp, missed>>
vars       == <<backendVars, clientVars>>

Row == [name : Names, first : Nat, last : Nat, gone : BOOLEAN]

PipelineTypeOK ==
    /\ TypeOK
    /\ pc \in {"list", "reconcile", "open", "recv", "persist", "backoff"}
    /\ DOMAIN snapshot \subseteq Ids
    /\ \A i \in DOMAIN snapshot : snapshot[i] \in Names
    /\ stream \in Streams \cup {NoStream}
    /\ current \in Event \cup {NoEvent}
    /\ tables.events \subseteq
         [id : Ids, type : {"created", "deleted"}, time : Nat]
    /\ \A k \in DOMAIN tables.buckets : tables.buckets[k] \in Nat
    /\ DOMAIN tables.current \subseteq Ids
    /\ \A i \in DOMAIN tables.current : tables.current[i] \in Row
    /\ dbUp \in BOOLEAN
    /\ missed \subseteq Ids
    /\ stream # NoStream <=> pc \in {"recv", "persist"}
    /\ current # NoEvent <=> pc = "persist"

NoSnapshot == << >>

PipelineInit ==
    /\ Init
    /\ pc = "list"
    /\ snapshot = NoSnapshot
    /\ stream = NoStream
    /\ current = NoEvent
    /\ tables = EmptyTables
    /\ dbUp = TRUE
    /\ missed = {}

-----------------------------------------------------------------------------
(* The backend's steps, seen by the client only through the stream.        *)

Attached == stream \in subscribers

\* A "created" published when the row is gone already and no "deleted" is to
\* follow: another request's delete overtook it between commit and publish.
Overtaken(c) ==
    /\ c.type = "created"
    /\ c.id \notin Live
    /\ \A d \in unpublished : d.id = c.id => d = c

OtherThanMissed == UNCHANGED <<pc, snapshot, stream, current, tables, dbUp>>

PublishChange(c) ==
    /\ Publish(c)
    /\ missed' = IF Attached /\ ~Overtaken(c) THEN missed
                                             ELSE missed \cup {c.id}

BackendStep ==
    /\ OtherThanMissed
    /\ \/ \E n \in Names : CreateItem(n) /\ UNCHANGED missed
       \/ \E i \in Ids : DeleteItem(i) /\ UNCHANGED missed
       \/ \E n \in Names : SeedItem(n) /\ missed' = missed \cup {nextId}
       \/ ResetItems /\ missed' = missed \cup Live
       \/ \E c \in unpublished : PublishChange(c)
       \/ \E s \in Streams : HandlerStep(s) /\ UNCHANGED missed
       \/ \E s \in Streams : LinkDrop(s) /\ UNCHANGED missed
       \/ BackendRestart /\ missed' = missed \cup {c.id : c \in unpublished}

-----------------------------------------------------------------------------
(* cycle(): dial, ListItems, reconcile, open the stream.                   *)

ListItems ==
    /\ pc = "list"
    /\ pc' = "reconcile"
    /\ snapshot' = [i \in Live |-> items[i]]
    /\ missed' = {}
    /\ UNCHANGED <<backendVars, stream, current, tables, dbUp>>

\* Variant: the loop gives up on an error.
ListItemsFails_Exits ==
    /\ pc = "list"
    /\ Fault
    /\ pc' = "exited"
    /\ UNCHANGED <<tableVars, unpublished, logVars, streamVars, snapshot, stream,
                   current, tables, dbUp, missed>>

\* The dial or the RPC fails.
ListItemsFails ==
    /\ pc = "list"
    /\ Fault
    /\ pc' = "backoff"
    /\ UNCHANGED <<tableVars, unpublished, logVars, streamVars, snapshot, stream,
                   current, tables, dbUp, missed>>

Reconciled ==
    [tables EXCEPT !.current = ReconcileSnapshot(@, snapshot, clock + Skew)]

Reconcile ==
    /\ pc = "reconcile"
    /\ dbUp
    /\ tables' = Reconciled
    /\ pc' = "open"
    /\ snapshot' = NoSnapshot
    /\ UNCHANGED <<backendVars, stream, current, dbUp, missed>>

\* The transaction returns an error: rolled back, or committed with the
\* acknowledgement lost.
ReconcileFails ==
    /\ pc = "reconcile"
    /\ \/ ~dbUp /\ UNCHANGED <<tables, faults>>
       \/ dbUp /\ Fault /\ tables' \in {tables, Reconciled}
    /\ pc' = "backoff"
    /\ snapshot' = NoSnapshot
    /\ UNCHANGED <<tableVars, unpublished, logVars, streamVars, stream, current,
                   dbUp, missed>>

\* WatchItemEvents returns as soon as the request is on its way.
OpenStream(s) ==
    /\ pc = "open"
    /\ OpenWatch(s)
    /\ stream' = s
    /\ pc' = "recv"
    /\ UNCHANGED <<snapshot, current, tables, dbUp, missed>>

\* The call cannot be started, the connection broke since ListItems.
OpenStreamFails ==
    /\ pc = "open"
    /\ Fault
    /\ pc' = "backoff"
    /\ UNCHANGED <<tableVars, unpublished, logVars, streamVars, snapshot, stream,
                   current, tables, dbUp, missed>>

-----------------------------------------------------------------------------
(* The receive loop.                                                       *)

RecvEvent ==
    /\ pc = "recv"
    /\ Recv(stream)
    /\ current' = Head(wire[stream])
    /\ pc' = "persist"
    /\ UNCHANGED <<snapshot, stream, tables, dbUp, missed>>

\* Variant: the end of the stream is not taken for an error.
RecvError_IgnoresEof ==
    /\ pc = "recv"
    /\ wire[stream] = <<>>
    /\ link[stream] = "down"
    /\ CloseWatch(stream)
    /\ stream' = NoStream
    /\ pc' = "backoff"
    /\ UNCHANGED <<snapshot, current, tables, dbUp, missed>>

\* Recv returns EOF or an error once everything delivered has been read.
RecvError ==
    /\ pc = "recv"
    /\ wire[stream] = <<>>
    /\ handler[stream] = "done" \/ link[stream] = "down"
    /\ CloseWatch(stream)
    /\ stream' = NoStream
    /\ pc' = "backoff"
    /\ UNCHANGED <<snapshot, current, tables, dbUp, missed>>

\* The row was stamped by a reconcile of the faster clock, and the event,
\* although newer, looks older than it.
LostToSkew(e) ==
    /\ e.id \in DOMAIN tables.current
    /\ e.time < tables.current[e.id].last
    /\ tables.current[e.id].last <= e.time + Skew

Ingest ==
    /\ tables' = IngestEvent(tables, current)
    /\ missed' = IF LostToSkew(current) THEN missed \cup {current.id} ELSE missed

Persist ==
    /\ pc = "persist"
    /\ dbUp
    /\ Ingest
    /\ current' = NoEvent
    /\ pc' = "recv"
    /\ UNCHANGED <<backendVars, snapshot, stream, dbUp>>

\* Variant: a failed event is logged and skipped.
PersistFails_SkipsEvent ==
    /\ pc = "persist"
    /\ dbUp
    /\ Fault
    /\ Ingest \/ UNCHANGED <<tables, missed>>
    /\ current' = NoEvent
    /\ pc' = "recv"
    /\ UNCHANGED <<tableVars, unpublished, logVars, streamVars, snapshot, stream,
                   dbUp>>

\* IngestEvent returns an error, with or without the commit having happened;
\* the same event is tried again.  (With the database down every try fails
\* and changes nothing.)
PersistFails ==
    /\ pc = "persist"
    /\ dbUp
    /\ Fault
    /\ Ingest \/ UNCHANGED <<tables, missed>>
    /\ UNCHANGED <<tableVars, unpublished, logVars, streamVars, pc, snapshot,
                   stream, current, dbUp>>

\* The backoff timer fires.
Retry ==
    /\ pc = "backoff"
    /\ pc' = "list"
    /\ UNCHANGED <<backendVars, snapshot, stream, current, tables, dbUp, missed>>

ClientStep ==
    \/ ListItems \/ ListItemsFails \/ Reconcile \/ ReconcileFails
    \/ (\E s \in Streams : OpenStream(s)) \/ OpenStreamFails
    \/ RecvEvent \/ RecvError \/ Persist \/ PersistFails \/ Retry

-----------------------------------------------------------------------------
(* Outages of the analytics side.                                          *)

\* The process restarts: only the database survives.
AnalyticsRestart ==
    /\ Fault
    /\ link' = IF stream = NoStream THEN link ELSE [link EXCEPT ![stream] = "down"]
    /\ wire' = IF stream = NoStream THEN wire ELSE [wire EXCEPT ![stream] = <<>>]
    /\ pc' = "list"
    /\ snapshot' = NoSnapshot
    /\ stream' = NoStream
    /\ current' = NoEvent
    /\ UNCHANGED <<tableVars, unpublished, logVars, subscribers, queue, handler,
                   owed, since, tables, dbUp, missed>>

DatabaseDown ==
    /\ dbUp
    /\ Fault
    /\ dbUp' = FALSE
    /\ UNCHANGED <<tableVars, unpublished, logVars, streamVars, pc, snapshot,
                   stream, current, tables, missed>>

DatabaseUp ==
    /\ ~dbUp
    /\ dbUp' = TRUE
    /\ UNCHANGED <<backendVars, pc, snapshot, stream, current, tables, missed>>

PipelineNext ==
    BackendStep \/ ClientStep \/ AnalyticsRestart \/ DatabaseDown \/ DatabaseUp

PipelineSpec == PipelineInit /\ [][PipelineNext]_vars

-----------------------------------------------------------------------------
(* Safety.                                                                 *)

Healthy == Attached /\ link[stream] = "up"

\* An hourly bucket counts each raw event once, however often a persist is
\* retried after a commit whose acknowledgement was lost, and counts nothing
\* that is not there (current_items.go IngestEvent: "a deduplicated replay
\* never double-counts").
BucketsCountRawEvents ==
    LET rows(k) == {r \in tables.events : Bucket(r) = k}
    IN  /\ \A r \in tables.events : Bucket(r) \in DOMAIN tables.buckets
        /\ \A k \in DOMAIN tables.buckets :
             tables.buckets[k] = Cardinality(rows(k))

\* As long as the stream stays healthy no event is lost: all that the
\* backend published since it subscribed this client is in item_events, in
\* the client's hand, on the wire or in its queue (client.go cycle: "retry
\* the SAME event before the next Recv, or it would be silently lost while
\* the stream stays healthy").
HealthyStreamLosesNothing ==
    Healthy =>
      LET arrived == owed[stream] - Len(wire[stream])
      IN  \A k \in since[stream]..(arrived - 1) :
            \/ Key(published[k]) \in tables.events
            \/ k = arrived - 1 /\ current = published[k]

InFlight(i) ==
    \/ \E c \in unpublished : c.id = i
    \/ \E k \in DOMAIN queue[stream] : queue[stream][k].id = i
    \/ \E k \in DOMAIN wire[stream] : wire[stream][k].id = i
    \/ current # NoEvent /\ current.id = i

MirrorAgrees(i) ==
    LET answer == GetCurrentItem(tables.current, i)
    IN  IF i \in Live
        THEN answer = [status |-> 200, name |-> items[i], tombstoned |-> FALSE]
        ELSE answer.status = 404 \/ answer.tombstoned

\* With a healthy stream, current_items, and so GET /api/v1/items/{id}, tells
\* the truth about every item with no event in flight, except for three
\* causes, all repaired by the next reconcile: the item changed between the
\* ListItems read and the subscription (or behind the API's back), with its
\* event published or lost in that window; its create was published after its
\* delete; or its event is older than the last_seen that a reconcile stamped
\* with a clock that is ahead.  Nothing else makes the mirror wrong: not
\* restarts, lost links, evictions, replays or outages (current_items.go
\* ReconcileSnapshot and IngestEvent, client.go cycle).
MirrorWrongOnlyForCause ==
    Healthy =>
      \A i \in Ids : InFlight(i) \/ i \in missed \/ MirrorAgrees(i)

-----------------------------------------------------------------------------
(* Liveness.  The event loop of the backend runs ready coroutines, grpc    *)
(* notices a dead peer, and the client goroutine's timers fire: each gets  *)
(* weak fairness.  Requests, faults and restarts get none.                 *)

PublishProgress == OtherThanMissed /\ \E c \in unpublished : PublishChange(c)

HandlerProgress(s) == HandlerStep(s) /\ UNCHANGED clientVars

ClientProgress ==
    \/ ListItems \/ Reconcile \/ (~dbUp /\ ReconcileFails)
    \/ \E s \in Streams : OpenStream(s)
    \/ RecvEvent \/ RecvError \/ Persist \/ Retry

\* An outage of the database ends (EvictedClientResyncs needs it).
FairSpec ==
    /\ PipelineSpec
    /\ WF_vars(PublishProgress)
    /\ \A s \in Streams : WF_vars(HandlerProgress(s))
    /\ WF_vars(ClientProgress)
    /\ WF_vars(DatabaseUp)

\* The client's stream was evicted for being slow and is bound to end.
EvictedStream ==
    /\ stream # NoStream
    /\ handler[stream] = "running"
    /\ stream \notin subscribers

\* A slow client that the backend disconnects comes back through a fresh
\* snapshot (events.py: the sentinel "makes the analytics client reconnect
\* and reconcile via ListItems").  It holds when database outages end; when
\* the database stays down the client never leaves its retry loop, although
\* client.go says that then "the backend's bounded per-subscriber queue
\* disconnects this client anyway and the normal reconnect+snapshot path
\* takes over".
EvictedClientResyncs == EvictedStream ~> pc = "list"

\* Once requests and faults stop, the client ends up with a subscribed stream
\* over a live link for good, from whatever state restarts, lost links and
\* outages left both sides in (client.go Run: "It never returns early on
\* error").
EventuallyStreaming == <>[]Healthy
=============================================================================
