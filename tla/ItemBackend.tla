---------------------------- MODULE ItemBackend ----------------------------
(***************************************************************************)
(* The backend's item API and its in-process event fanout: the items       *)
(* table (services/backend/app/crud.py), the ItemEventBroadcaster with one *)
(* bounded queue per subscriber (events.py), and the WatchItemEvents       *)
(* handlers of the gRPC server (grpc_server.py) that drain those queues    *)
(* onto the wire.                                                          *)
(*                                                                         *)
(* A request is two steps: the database commit and, after the await, the   *)
(* synchronous publish.  Between them other coroutines run and the process *)
(* can die.                                                                *)
(***************************************************************************)
EXTENDS Naturals, Sequences, FiniteSets

CONSTANTS Names,      \* item names
          NoName,     \* "no such row"
          Streams,    \* slots for WatchItemEvents calls
          QueueSize,  \* maxsize of a subscriber's asyncio.Queue
          WireSize,   \* bound: messages in flight on one stream (flow control)
          Ticks,      \* how far the clock may move between two publishes
          MaxId,      \* bound: largest item id handed out
          MaxFaults   \* bound: number of faults in a behaviour

ASSUME BackendAssumption ==
    /\ NoName \notin Names
    /\ QueueSize \in Nat \ {0}
    /\ WireSize \in Nat \ {0}
    /\ Ticks \subseteq Nat
    /\ MaxId \in Nat
    /\ MaxFaults \in Nat

VARIABLES
    items,        \* the items table: id -> name, NoName where there is no row
    nextId,       \* next autoincrement value; never handed out twice
    unpublished,  \* committed requests that have not reached publish() yet
    clock,        \* datetime.now(UTC) of the host
    published,    \* history: every event given to publish(), in order
    subscribers,  \* ItemEventBroadcaster._subscribers
    queue,        \* stream -> its asyncio.Queue
    handler,      \* stream -> state of its WatchItemEvents coroutine
    link,         \* stream -> is its transport up, as the peers see it
    wire,         \* stream -> messages yielded and not yet received
    owed,         \* history: stream -> index in published of its next event
    since,        \* history: stream -> value of owed when it subscribed
    faults        \* number of faults so far

tableVars   == <<items, nextId>>
logVars     == <<clock, published>>
streamVars  == <<subscribers, queue, handler, link, wire, owed, since>>
backendVars == <<items, nextId, unpublished, clock, published, subscribers,
                 queue, handler, link, wire, owed, since, faults>>

Ids     == 1..MaxId
Change  == [type : {"created", "deleted"}, id : Ids, name : Names]
Event   == [type : {"created", "deleted"}, id : Ids, name : Names, time : Nat]

\* The sentinel that ends a slow subscriber's stream.
DISCONNECT == [type |-> "disconnect", id |-> 0, name |-> NoName, time |-> 0]

Live == {i \in Ids : items[i] # NoName}

TypeOK ==
    /\ items \in [Ids -> Names \cup {NoName}]
    /\ nextId \in 1..(MaxId + 1)
    /\ unpublished \subseteq Change
    /\ clock \in Nat
    /\ published \in Seq(Event)
    /\ subscribers \subseteq Streams
    /\ queue \in [Streams -> Seq(Event \cup {DISCONNECT})]
    /\ handler \in [Streams -> {"starting", "running", "done"}]
    /\ link \in [Streams -> {"up", "down"}]
    /\ wire \in [Streams -> Seq(Event)]
    /\ owed \in [Streams -> Nat \ {0}]
    /\ since \in [Streams -> Nat \ {0}]
    /\ faults \in 0..MaxFaults

Init ==
    /\ items = [i \in Ids |-> NoName]
    /\ nextId = 1
    /\ unpublished = {}
    /\ clock = 0
    /\ published = <<>>
    /\ subscribers = {}
    /\ queue = [s \in Streams |-> <<>>]
    /\ handler = [s \in Streams |-> "done"]
    /\ link = [s \in Streams |-> "down"]
    /\ wire = [s \in Streams |-> <<>>]
    /\ owed = [s \in Streams |-> 1]
    /\ since = [s \in Streams |-> 1]
    /\ faults = 0

Fault == faults < MaxFaults /\ faults' = faults + 1

-----------------------------------------------------------------------------
(* Requests.  The UNIQUE(name) conflict of create (409) and the missing    *)
(* row of delete (404) roll back and return before publish, so they leave  *)
(* every variable alone: the guards below.                                 *)

NameTaken(n) == \E i \in Ids : items[i] = n

CreateItem(n) ==
    /\ nextId \in Ids
    /\ ~NameTaken(n)
    /\ items' = [items EXCEPT ![nextId] = n]
    /\ nextId' = nextId + 1
    /\ unpublished' = unpublished
                        \cup {[type |-> "created", id |-> nextId, name |-> n]}
    /\ UNCHANGED <<logVars, streamVars, faults>>

\* Variant: the row was looked up earlier, another request removed it since.
DeleteItem_StaleLookup(i) ==
    /\ i < nextId
    /\ items' = [items EXCEPT ![i] = NoName]
    /\ \E n \in Names :
         unpublished' = unpublished
                          \cup {[type |-> "deleted", id |-> i, name |-> n]}
    /\ UNCHANGED <<nextId, logVars, streamVars, faults>>

\* Variant: the event is handed over although the commit failed.
DeleteItem_NotCommitted(i) ==
    /\ i \in Live
    /\ unpublished' = unpublished
                        \cup {[type |-> "deleted", id |-> i, name |-> items[i]]}
    /\ UNCHANGED <<items, nextId, logVars, streamVars, faults>>

\* DELETE .. RETURNING name: one statement finds and removes the row.
DeleteItem(i) ==
    /\ i \in Live
    /\ items' = [items EXCEPT ![i] = NoName]
    /\ unpublished' = unpublished
                        \cup {[type |-> "deleted", id |-> i, name |-> items[i]]}
    /\ UNCHANGED <<nextId, logVars, streamVars, faults>>

\* seed.py, a process of its own: it writes the table and publishes nothing.
\* Its one INSERT .. ON CONFLICT DO NOTHING is a SeedItem for each new name.
SeedItem(n) ==
    /\ nextId \in Ids
    /\ ~NameTaken(n)
    /\ items' = [items EXCEPT ![nextId] = n]
    /\ nextId' = nextId + 1
    /\ UNCHANGED <<unpublished, logVars, streamVars, faults>>

ResetItems ==
    /\ Live # {}
    /\ items' = [i \in Ids |-> NoName]
    /\ UNCHANGED <<nextId, unpublished, logVars, streamVars, faults>>

-----------------------------------------------------------------------------
(* ItemEventBroadcaster.publish, run to completion by one coroutine.       *)

Full(q) == Len(q) >= QueueSize

\* Variant: the event that does not fit is ignored, no sentinel is queued.
Offer_NoSentinel(q, e) == IF Full(q) THEN q ELSE Append(q, e)

\* Variant: a full queue is emptied for the sentinel.
Offer_DropsAll(q, e) == IF Full(q) THEN <<DISCONNECT>> ELSE Append(q, e)

\* put_nowait, or for a full queue: drop the oldest, append the sentinel.
Offer(q, e) == IF Full(q) THEN Append(Tail(q), DISCONNECT) ELSE Append(q, e)

\* Variant: a full subscriber is told to go but stays in the set.
Evicted_Nobody == {}

Evicted == {s \in subscribers : Full(queue[s])}

\* event_time is now(), which never runs backwards but may stand still.
Publish(c) ==
    /\ c \in unpublished
    /\ \E now \in {clock + d : d \in Ticks} :
         LET e == [type |-> c.type, id |-> c.id, name |-> c.name, time |-> now]
         IN  /\ clock' = now
             /\ published' = Append(published, e)
             /\ queue' = [s \in Streams |->
                            IF s \in subscribers THEN Offer(queue[s], e)
                                                 ELSE queue[s]]
    /\ subscribers' = subscribers \ Evicted
    /\ unpublished' = unpublished \ {c}
    /\ UNCHANGED <<tableVars, handler, link, wire, owed, since, faults>>

-----------------------------------------------------------------------------
(* WatchItemEvents.                                                        *)

\* The peer opens a call; the client side returns before the handler runs.
OpenWatch(s) ==
    /\ handler[s] = "done"
    /\ handler' = [handler EXCEPT ![s] = "starting"]
    /\ link' = [link EXCEPT ![s] = "up"]
    /\ wire' = [wire EXCEPT ![s] = <<>>]
    /\ UNCHANGED <<tableVars, unpublished, logVars, subscribers, queue, owed,
                   since, faults>>

Subscribe(s) ==
    /\ handler[s] = "starting"
    /\ link[s] = "up"
    /\ handler' = [handler EXCEPT ![s] = "running"]
    /\ subscribers' = subscribers \cup {s}
    /\ queue' = [queue EXCEPT ![s] = <<>>]
    /\ owed' = [owed EXCEPT ![s] = Len(published) + 1]
    /\ since' = [since EXCEPT ![s] = Len(published) + 1]
    /\ UNCHANGED <<tableVars, unpublished, logVars, link, wire, faults>>

\* queue.get() and yield, when flow control lets the message out.
Yield(s) ==
    /\ handler[s] = "running"
    /\ link[s] = "up"
    /\ queue[s] # <<>>
    /\ Head(queue[s]) # DISCONNECT
    /\ Len(wire[s]) < WireSize
    /\ wire' = [wire EXCEPT ![s] = Append(@, Head(queue[s]))]
    /\ queue' = [queue EXCEPT ![s] = Tail(@)]
    /\ owed' = [owed EXCEPT ![s] = @ + 1]
    /\ UNCHANGED <<tableVars, unpublished, logVars, subscribers, handler, link,
                   since, faults>>

\* The coroutine leaves its loop, and finally unsubscribes.
Leave(s) ==
    /\ handler' = [handler EXCEPT ![s] = "done"]
    /\ subscribers' = subscribers \ {s}
    /\ queue' = [queue EXCEPT ![s] = <<>>]
    /\ owed' = [owed EXCEPT ![s] = 1]
    /\ since' = [since EXCEPT ![s] = 1]
    /\ UNCHANGED <<tableVars, unpublished, logVars, link, wire, faults>>

\* event is DISCONNECT: the RPC ends; what is on the wire still arrives.
EndStream(s) ==
    /\ handler[s] = "running"
    /\ queue[s] # <<>>
    /\ Head(queue[s]) = DISCONNECT
    /\ Leave(s)

\* The server notices that the transport is gone: CancelledError.
CancelHandler(s) ==
    /\ handler[s] \in {"starting", "running"}
    /\ link[s] = "down"
    /\ Leave(s)

-----------------------------------------------------------------------------
(* The transport and the peer.                                             *)

\* The peer takes the next message off the stream.
Recv(s) ==
    /\ wire[s] # <<>>
    /\ wire' = [wire EXCEPT ![s] = Tail(@)]
    /\ UNCHANGED <<tableVars, unpublished, logVars, subscribers, queue, handler,
                   link, owed, since, faults>>

\* conn.Close(): what was in flight is discarded.
CloseWatch(s) ==
    /\ link' = [link EXCEPT ![s] = "down"]
    /\ wire' = [wire EXCEPT ![s] = <<>>]
    /\ UNCHANGED <<tableVars, unpublished, logVars, subscribers, queue, handler,
                   owed, since, faults>>

\* The network loses the connection and any suffix of what was in flight.
LinkDrop(s) ==
    /\ Fault
    /\ link[s] = "up"
    /\ link' = [link EXCEPT ![s] = "down"]
    /\ \E n \in 0..Len(wire[s]) :
          wire' = [wire EXCEPT ![s] = SubSeq(@, 1, n)]
    /\ UNCHANGED <<tableVars, unpublished, logVars, subscribers, queue, handler,
                   owed, since>>

\* The process dies and is restarted: requests between commit and publish,
\* subscribers and queues exist in memory only.
BackendRestart ==
    /\ Fault
    /\ unpublished' = {}
    /\ subscribers' = {}
    /\ queue' = [s \in Streams |-> <<>>]
    /\ handler' = [s \in Streams |-> "done"]
    /\ link' = [s \in Streams |-> "down"]
    /\ owed' = [s \in Streams |-> 1]
    /\ since' = [s \in Streams |-> 1]
    /\ UNCHANGED <<tableVars, logVars, wire>>

-----------------------------------------------------------------------------
(* What the backend does by itself, whoever watches ...                    *)
Request ==
    \/ \E n \in Names : CreateItem(n) \/ SeedItem(n)
    \/ \E i \in Ids : DeleteItem(i)
    \/ ResetItems

HandlerStep(s) ==
    Subscribe(s) \/ Yield(s) \/ EndStream(s) \/ CancelHandler(s)

(* ... and with watchers that open, read and close calls as they please.   *)
Watcher(s) ==
    \/ OpenWatch(s)
    \/ Recv(s)
    \/ link[s] = "up" /\ CloseWatch(s)

Next ==
    \/ Request
    \/ \E c \in unpublished : Publish(c)
    \/ \E s \in Streams : HandlerStep(s) \/ Watcher(s) \/ LinkDrop(s)
    \/ BackendRestart

Spec == Init /\ [][Next]_backendVars

-----------------------------------------------------------------------------
(* Properties.                                                             *)

\* A stream that is still subscribed has missed nothing: what its queue
\* holds is exactly the part of the event log it still owes its client, and
\* while the transport is up what is in flight is the part just before.  So
\* the drop-the-oldest of publish() can only ever be seen by a stream that
\* is already unsubscribed and bound to end (events.py, publish).
NoGapWhileSubscribed ==
    \A s \in subscribers :
       /\ owed[s] + Len(queue[s]) = Len(published) + 1
       /\ \A k \in 1..Len(queue[s]) : queue[s][k] = published[owed[s] + k - 1]
       /\ link[s] = "up" =>
            /\ since[s] + Len(wire[s]) <= owed[s]
            /\ \A k \in 1..Len(wire[s]) :
                 wire[s][k] = published[owed[s] - Len(wire[s]) + k - 1]

\* A running handler is either subscribed, with no sentinel in its queue, or
\* it was evicted and the last thing it will ever take is the sentinel; in
\* both cases the queue respects maxsize.  No handler can wait forever on a
\* queue nobody writes to (events.py publish, grpc_server.py WatchItemEvents).
SentinelEndsEvictedStream ==
    \A s \in Streams :
       /\ Len(queue[s]) <= QueueSize
       /\ s \in subscribers => handler[s] = "running"
       /\ \A k \in 1..Len(queue[s]) :
            queue[s][k] = DISCONNECT => s \notin subscribers /\ k = Len(queue[s])
       /\ handler[s] = "running" /\ s \notin subscribers =>
            /\ queue[s] # <<>>
            /\ queue[s][Len(queue[s])] = DISCONNECT

\* Concurrent requests publish at most one event for each committed change
\* (crud.py delete_item: "concurrent deletes of the same row publish exactly
\* one event").
OneEventPerCommit ==
    /\ \A j, k \in 1..Len(published) :
         /\ published[j].type = published[k].type
         /\ published[j].id = published[k].id
         => j = k
    /\ \A c \in unpublished : \A k \in 1..Len(published) :
         published[k].type = c.type => published[k].id # c.id

\* Emit after commit: an event that reached publish() is about a row that was
\* durably written, and after a "deleted" event that row is gone for good,
\* whatever order concurrent requests publish in (crud.py).
EmitAfterCommit ==
    \A k \in 1..Len(published) :
       /\ published[k].id < nextId
       /\ published[k].type = "deleted" => items[published[k].id] = NoName

\* What a stream is yet to be sent, in terms of EventFeed: the log from owed
\* on while it is subscribed; once evicted, what its queue holds before the
\* sentinel, which is the log after the event that publish() dropped.
Due(s) ==
    IF handler[s] # "running" THEN [from |-> 1, to |-> 0, live |-> FALSE]
    ELSE IF s \in subscribers
         THEN [from |-> owed[s], to |-> Len(published), live |-> TRUE]
         ELSE [from |-> owed[s] + 1, to |-> owed[s] + Len(queue[s]) - 1, live |-> FALSE]

Feed == INSTANCE EventFeed WITH
    log  <- published,
    due  <- [s \in Streams |-> Due(s)],
    up   <- {s \in Streams : link[s] = "up"}

\* Broadcaster and handlers are an EventFeed: a peer gets the log from its
\* subscription on without a gap; one that is too slow misses exactly the
\* oldest event that was due, gets the rest of its queue, and then its stream
\* ends; and no stream ends otherwise while its connection is up (events.py
\* publish: "drop the oldest queued event to make room for the sentinel";
\* grpc_server.py WatchItemEvents).
ImplementsEventFeed == Feed!Spec
=============================================================================
