------------------------ MODULE ItemPipeline_proofs ------------------------
(***************************************************************************)
(* Proofs about ItemBackend and ItemPipeline, for every set of names and   *)
(* streams, every queue size, wire size and bound, and every skew of the   *)
(* two clocks.                                                             *)
(*                                                                         *)
(* The first part is about the backend alone, with arbitrary peers (Spec). *)
(* The second is about the backend with the ingest client as its peer      *)
(* (PipelineSpec): its types, that the promises of the first part hold     *)
(* there, that buckets count the raw events, that a healthy stream loses   *)
(* nothing, and that the mirror is wrong only for the causes it names.     *)
(* The last is about the waits between its reconnects (BackoffSpec).       *)
(***************************************************************************)
EXTENDS ItemPipeline, Backoff, FiniteSetTheorems, WellFoundedInduction, TLAPS

-----------------------------------------------------------------------------
(* Facts about the operators.                                              *)

\* The sentinel cannot be mistaken for an event: events have positive ids.
LEMMA DisconnectIsNoEvent == DISCONNECT \notin Event
  BY DEF DISCONNECT, Event, Ids

\* What publish() leaves in a subscriber's queue is again a queue.
LEMMA OfferType ==
  ASSUME NEW q \in Seq(Event \cup {DISCONNECT}), NEW e \in Event
  PROVE  Offer(q, e) \in Seq(Event \cup {DISCONNECT})
<1>1. CASE Full(q)
  <2>1. q # <<>>
    BY <1>1, BackendAssumption DEF Full
  <2>2. Tail(q) \in Seq(Event \cup {DISCONNECT})
    BY <2>1
  <2> QED
    BY <1>1, <2>2 DEF Offer
<1>2. CASE ~Full(q)
  BY <1>2 DEF Offer
<1> QED
  BY <1>1, <1>2

-----------------------------------------------------------------------------
(* Type correctness.                                                       *)

\* Every step of the backend, its watchers and the network keeps the types.
LEMMA TypeInductive ==
  ASSUME TypeOK, [Next]_backendVars
  PROVE  TypeOK'
<1> USE BackendAssumption DEF TypeOK, tableVars, logVars, streamVars
<1>1. ASSUME NEW n \in Names, CreateItem(n)
      PROVE  TypeOK'
  BY <1>1 DEF CreateItem, Ids, Change
<1>2. ASSUME NEW n \in Names, SeedItem(n)
      PROVE  TypeOK'
  BY <1>2 DEF SeedItem, Ids
<1>3. ASSUME NEW i \in Ids, DeleteItem(i)
      PROVE  TypeOK'
  BY <1>3 DEF DeleteItem, Live, Change
<1>4. CASE ResetItems
  BY <1>4 DEF ResetItems
<1>5. ASSUME NEW c \in unpublished, Publish(c)
      PROVE  TypeOK'
  <2>1. PICK now \in {clock + d : d \in Ticks} :
          LET e == [type |-> c.type, id |-> c.id, name |-> c.name, time |-> now]
          IN  /\ clock' = now
              /\ published' = Append(published, e)
              /\ queue' = [s \in Streams |->
                             IF s \in subscribers THEN Offer(queue[s], e)
                                                  ELSE queue[s]]
    BY <1>5 DEF Publish
  <2> DEFINE e == [type |-> c.type, id |-> c.id, name |-> c.name, time |-> now]
  <2>2. now \in Nat /\ e \in Event
    BY DEF Change, Event
  <2>3. queue' \in [Streams -> Seq(Event \cup {DISCONNECT})]
    BY <2>1, <2>2, OfferType
  <2>4. published' \in Seq(Event) /\ clock' \in Nat
    BY <2>1, <2>2
  <2> QED
    BY <1>5, <2>3, <2>4 DEF Publish, Evicted
<1>6. ASSUME NEW s \in Streams, OpenWatch(s)
      PROVE  TypeOK'
  BY <1>6 DEF OpenWatch
<1>7. ASSUME NEW s \in Streams, Subscribe(s)
      PROVE  TypeOK'
  BY <1>7 DEF Subscribe
<1>8. ASSUME NEW s \in Streams, Yield(s)
      PROVE  TypeOK'
  <2>1. Head(queue[s]) \in Event /\ Tail(queue[s]) \in Seq(Event \cup {DISCONNECT})
    BY <1>8 DEF Yield
  <2> QED
    BY <1>8, <2>1 DEF Yield
<1>9. ASSUME NEW s \in Streams, Leave(s)
      PROVE  TypeOK'
  BY <1>9 DEF Leave
<1>10. ASSUME NEW s \in Streams, Recv(s)
       PROVE  TypeOK'
  BY <1>10 DEF Recv
<1>11. ASSUME NEW s \in Streams, CloseWatch(s)
       PROVE  TypeOK'
  BY <1>11 DEF CloseWatch
<1>12. ASSUME NEW s \in Streams, LinkDrop(s)
       PROVE  TypeOK'
  BY <1>12 DEF LinkDrop, Fault
<1>13. CASE BackendRestart
  BY <1>13 DEF BackendRestart, Fault
<1>14. CASE UNCHANGED backendVars
  BY <1>14 DEF backendVars
<1> QED
  BY <1>1, <1>2, <1>3, <1>4, <1>5, <1>6, <1>7, <1>8, <1>9, <1>10, <1>11,
     <1>12, <1>13, <1>14 DEF Next, Request, HandlerStep, Watcher, EndStream,
                             CancelHandler

\* The types hold in every behaviour, whoever watches.
THEOREM TypeCorrect == Spec => []TypeOK
<1> USE BackendAssumption
<1>1. Init => TypeOK
  BY DEF Init, TypeOK, Ids
<1>2. TypeOK /\ [Next]_backendVars => TypeOK'
  BY TypeInductive
<1> QED
  BY <1>1, <1>2, PTL DEF Spec

-----------------------------------------------------------------------------
(* Stretches of the event log.                                             *)

\* q is the part of the log that starts at index i.
Stretch(q, log, i) ==
    /\ i + Len(q) <= Len(log) + 1
    /\ \A k \in 1..Len(q) : q[k] = log[i + k - 1]

\* A stretch stays one while the log grows ...
LEMMA StretchLogGrows ==
  ASSUME NEW S, NEW T, NEW q \in Seq(S), NEW log \in Seq(T), NEW e \in T,
         NEW i \in Nat \ {0}, Stretch(q, log, i)
  PROVE  Stretch(q, Append(log, e), i)
<1>1. Len(Append(log, e)) = Len(log) + 1
  OBVIOUS
<1>2. ASSUME NEW k \in 1..Len(q)
      PROVE  q[k] = Append(log, e)[i + k - 1]
  <2>1. i + k - 1 \in 1..Len(log) /\ q[k] = log[i + k - 1]
    BY DEF Stretch
  <2> QED
    BY <2>1
<1> QED
  BY <1>1, <1>2 DEF Stretch

\* ... and one more event of the log extends it.
LEMMA StretchExtended ==
  ASSUME NEW S, NEW T, NEW q \in Seq(S), NEW log \in Seq(T), NEW e \in S,
         NEW i \in Nat \ {0}, Stretch(q, log, i),
         i + Len(q) <= Len(log), e = log[i + Len(q)]
  PROVE  Stretch(Append(q, e), log, i)
<1>1. Len(Append(q, e)) = Len(q) + 1
  OBVIOUS
<1>2. ASSUME NEW k \in 1..Len(Append(q, e))
      PROVE  Append(q, e)[k] = log[i + k - 1]
  <2>1. CASE k = Len(q) + 1
    <3>1. i + k - 1 = i + Len(q)
      BY <2>1
    <3>2. Append(q, e)[k] = e
      BY <2>1
    <3> QED
      BY <3>1, <3>2
  <2>2. CASE k # Len(q) + 1
    <3>1. k \in 1..Len(q)
      BY <1>1, <2>2
    <3> QED
      BY <3>1 DEF Stretch
  <2> QED
    BY <2>1, <2>2
<1> QED
  BY <1>1, <1>2 DEF Stretch

\* Its head is the event at its start, and the tail the stretch after that.
LEMMA StretchTail ==
  ASSUME NEW S, NEW T, NEW q \in Seq(S), NEW log \in Seq(T),
         NEW i \in Nat \ {0}, Stretch(q, log, i), q # <<>>
  PROVE  /\ Head(q) = log[i]
         /\ i <= Len(log)
         /\ Stretch(Tail(q), log, i + 1)
<1>1. Len(q) >= 1 /\ Len(Tail(q)) = Len(q) - 1
  OBVIOUS
<1>2. Head(q) = log[i] /\ i <= Len(log)
  <2>1. 1 \in 1..Len(q) /\ i + 1 - 1 = i
    BY <1>1
  <2>2. q[1] = log[i + 1 - 1]
    BY <2>1 DEF Stretch
  <2> QED
    BY <1>1, <2>1, <2>2 DEF Stretch
<1>3. ASSUME NEW k \in 1..Len(Tail(q))
      PROVE  Tail(q)[k] = log[(i + 1) + k - 1]
  <2>1. k + 1 \in 1..Len(q) /\ i + (k + 1) - 1 = (i + 1) + k - 1
    BY <1>1
  <2>2. q[k + 1] = log[i + (k + 1) - 1]
    BY <2>1 DEF Stretch
  <2>3. Tail(q)[k] = q[k + 1]
    BY <1>1
  <2> QED
    BY <2>1, <2>2, <2>3
<1> QED
  BY <1>1, <1>2, <1>3 DEF Stretch

-----------------------------------------------------------------------------
(* Queues with and without the sentinel.                                   *)

Clean(q)  == \A k \in 1..Len(q) : q[k] # DISCONNECT
Sealed(q) == /\ q # <<>>
             /\ \A k \in 1..Len(q) : q[k] = DISCONNECT <=> k = Len(q)

\* Offering an event to a subscriber's queue extends it, or seals it for good.
LEMMA OfferCleanOrSealed ==
  ASSUME NEW q \in Seq(Event \cup {DISCONNECT}), NEW e \in Event, Clean(q),
         Len(q) <= QueueSize
  PROVE  /\ Len(Offer(q, e)) <= QueueSize
         /\ Full(q) => Sealed(Offer(q, e))
         /\ ~Full(q) => Offer(q, e) = Append(q, e) /\ Clean(Offer(q, e))
<1> USE BackendAssumption
<1>1. CASE Full(q)
  <2> DEFINE t == Tail(q)
  <2>1. /\ Offer(q, e) = Append(t, DISCONNECT)
        /\ Len(q) = QueueSize /\ q # <<>>
    BY <1>1 DEF Offer, Full
  <2>2. /\ t \in Seq(Event \cup {DISCONNECT})
        /\ Len(t) = QueueSize - 1
        /\ \A k \in 1..Len(t) : t[k] = q[k + 1]
    BY <2>1
  <2>3. \A k \in 1..Len(t) : t[k] # DISCONNECT
    <3>1. TAKE k \in 1..Len(t)
    <3>2. k + 1 \in 1..Len(q)
      BY <2>1, <2>2
    <3> QED
      BY <2>2, <3>2 DEF Clean
  <2> HIDE DEF t
  <2>4. /\ Len(Append(t, DISCONNECT)) = QueueSize
        /\ Append(t, DISCONNECT)[QueueSize] = DISCONNECT
        /\ \A k \in 1..(QueueSize - 1) : Append(t, DISCONNECT)[k] = t[k]
        /\ Append(t, DISCONNECT) # <<>>
    BY <2>2
  <2>5. Sealed(Append(t, DISCONNECT))
    BY <2>2, <2>3, <2>4 DEF Sealed
  <2> QED
    BY <1>1, <2>1, <2>4, <2>5
<1>2. CASE ~Full(q)
  <2>1. Offer(q, e) = Append(q, e) /\ Len(q) < QueueSize /\ e # DISCONNECT
    BY <1>2, DisconnectIsNoEvent DEF Offer, Full
  <2>2. Clean(Append(q, e)) /\ Len(Append(q, e)) = Len(q) + 1
    BY <2>1 DEF Clean
  <2> QED
    BY <1>2, <2>1, <2>2
<1> QED
  BY <1>1, <1>2

\* Taking an event off keeps a queue clean, or sealed.
LEMMA TailCleanOrSealed ==
  ASSUME NEW q \in Seq(Event \cup {DISCONNECT}), q # <<>>, Head(q) # DISCONNECT
  PROVE  /\ Len(Tail(q)) = Len(q) - 1
         /\ Clean(q) => Clean(Tail(q))
         /\ Sealed(q) => Sealed(Tail(q))
<1> DEFINE t == Tail(q)
<1>1. /\ Len(q) \in Nat \ {0}
      /\ t \in Seq(Event \cup {DISCONNECT})
      /\ Len(t) = Len(q) - 1
      /\ \A k \in 1..Len(t) : t[k] = q[k + 1]
      /\ q[1] # DISCONNECT
  OBVIOUS
<1> HIDE DEF t
<1>2. \A k \in 1..Len(t) : k + 1 \in 1..Len(q)
  BY <1>1
<1>3. Clean(q) => Clean(t)
  BY <1>1, <1>2 DEF Clean
<1>4. ASSUME Sealed(q)
      PROVE  Sealed(t)
  <2>1. Len(q) # 1
    BY <1>1, <1>4 DEF Sealed
  <2>2. t # <<>>
    BY <1>1, <2>1
  <2>3. ASSUME NEW k \in 1..Len(t)
        PROVE  t[k] = DISCONNECT <=> k = Len(t)
    <3>1. q[k + 1] = DISCONNECT <=> k + 1 = Len(q)
      BY <1>2, <1>4 DEF Sealed
    <3>2. k + 1 = Len(q) <=> k = Len(t)
      BY <1>1
    <3> QED
      BY <1>1, <3>1, <3>2
  <2> QED
    BY <2>2, <2>3 DEF Sealed
<1> QED
  BY <1>1, <1>3, <1>4 DEF t

-----------------------------------------------------------------------------
(* The life of one stream.                                                 *)

\* Its queue: empty unless the handler runs; without the sentinel while it is
\* subscribed; sealed by the sentinel once it is not.
QueueAt(s) ==
    /\ Len(queue[s]) <= QueueSize
    /\ handler[s] # "running" => s \notin subscribers /\ queue[s] = <<>>
    /\ s \in subscribers => Clean(queue[s])
    /\ handler[s] = "running" /\ s \notin subscribers => Sealed(queue[s])

\* What it still owes its client is the rest of the log ...
LogAt(s) ==
    /\ owed[s] + Len(queue[s]) = Len(published) + 1
    /\ Stretch(queue[s], published, owed[s])

\* ... and what is in flight is the stretch just before.
WireAt(s) ==
    /\ since[s] + Len(wire[s]) <= owed[s]
    /\ Stretch(wire[s], published, owed[s] - Len(wire[s]))

StreamAt(s) ==
    /\ handler[s] = "starting" => wire[s] = <<>>
    /\ QueueAt(s)
    /\ s \in subscribers => LogAt(s)
    /\ s \in subscribers /\ link[s] = "up" => WireAt(s)

\* The inductive invariant.
StreamInv == \A s \in Streams : StreamAt(s)

\* A stream that a step does not touch keeps its invariant.
LEMMA StreamUntouched ==
  ASSUME NEW s \in Streams, StreamAt(s), TypeOK,
         UNCHANGED <<published, queue[s], handler[s], link[s], wire[s], owed[s],
                     since[s]>>,
         (s \in subscribers') <=> (s \in subscribers)
  PROVE  StreamAt(s)'
  BY DEF StreamAt, QueueAt, LogAt, WireAt

\* publish() keeps it for every stream, evicted by it or not.
LEMMA PublishKeepsStream ==
  ASSUME TypeOK, NEW s \in Streams, StreamAt(s), NEW c \in unpublished, Publish(c)
  PROVE  StreamAt(s)'
<1> USE BackendAssumption
<1>1. PICK now \in {clock + d : d \in Ticks} :
        LET e == [type |-> c.type, id |-> c.id, name |-> c.name, time |-> now]
        IN  /\ clock' = now
            /\ published' = Append(published, e)
            /\ queue' = [t \in Streams |->
                           IF t \in subscribers THEN Offer(queue[t], e)
                                                ELSE queue[t]]
  BY DEF Publish
<1> DEFINE e == [type |-> c.type, id |-> c.id, name |-> c.name, time |-> now]
<1>2. e \in Event
  BY DEF TypeOK, Change, Event
<1>3. /\ UNCHANGED <<handler, link, wire, owed, since>>
      /\ subscribers' = subscribers \ Evicted
      /\ published' = Append(published, e)
  BY <1>1 DEF Publish
<1>4. /\ queue[s] \in Seq(Event \cup {DISCONNECT})
      /\ wire[s] \in Seq(Event)
      /\ published \in Seq(Event)
      /\ owed[s] \in Nat \ {0} /\ since[s] \in Nat \ {0}
  BY DEF TypeOK
<1>5. queue'[s] = IF s \in subscribers THEN Offer(queue[s], e) ELSE queue[s]
  BY <1>1
<1> HIDE DEF e
<1>6. CASE s \notin subscribers
  <2>1. queue'[s] = queue[s] /\ s \notin subscribers'
    BY <1>3, <1>5, <1>6
  <2> QED
    BY <2>1, <1>3, <1>6 DEF StreamAt, QueueAt
<1>7. ASSUME s \in subscribers
      PROVE  /\ handler[s] = "running"
             /\ Len(queue'[s]) <= QueueSize
             /\ Full(queue[s]) => Sealed(queue'[s])
             /\ ~Full(queue[s]) => queue'[s] = Append(queue[s], e)
                                   /\ Clean(queue'[s])
  BY <1>2, <1>4, <1>5, <1>7, OfferCleanOrSealed DEF StreamAt, QueueAt
<1>8. CASE s \in subscribers /\ Full(queue[s])
  <2>1. s \notin subscribers'
    BY <1>3, <1>8 DEF Evicted
  <2> QED
    BY <1>3, <1>7, <1>8, <2>1 DEF StreamAt, QueueAt
<1>9. CASE s \in subscribers /\ ~Full(queue[s])
  <2>1. s \in subscribers'
    BY <1>3, <1>9 DEF Evicted
  <2>2. LogAt(s)'
    <3>1. LogAt(s)
      BY <1>9 DEF StreamAt
    <3>2. Stretch(queue[s], published', owed[s])
      BY <1>2, <1>3, <1>4, <3>1, StretchLogGrows DEF LogAt
    <3>3. /\ published' \in Seq(Event)
          /\ Len(published') = Len(published) + 1
          /\ published'[Len(published) + 1] = e
      BY <1>2, <1>3, <1>4
    <3>4. /\ owed[s] + Len(queue[s]) <= Len(published')
          /\ e = published'[owed[s] + Len(queue[s])]
      BY <3>1, <3>3 DEF LogAt
    <3>5. Stretch(Append(queue[s], e), published', owed[s])
      BY <1>2, <1>4, <3>2, <3>3, <3>4, StretchExtended
    <3>6. Len(Append(queue[s], e)) = Len(queue[s]) + 1
      BY <1>4
    <3>7. Stretch(queue'[s], published', owed'[s])
      BY <1>3, <1>7, <1>9, <3>5
    <3>8. owed'[s] + Len(queue'[s]) = Len(published') + 1
      <4>1. Len(queue'[s]) = Len(queue[s]) + 1 /\ owed'[s] = owed[s]
        BY <1>3, <1>7, <1>9, <3>6
      <4>2. owed[s] + Len(queue[s]) = Len(published) + 1
        BY <3>1 DEF LogAt
      <4>3. Len(queue[s]) \in Nat /\ Len(published) \in Nat
        BY <1>4
      <4> QED
        BY <1>4, <3>3, <4>1, <4>2, <4>3
    <3> QED
      BY <3>7, <3>8 DEF LogAt
  <2>3. ASSUME link[s] = "up"
        PROVE  WireAt(s)'
    <3>1. WireAt(s)
      BY <1>9, <2>3 DEF StreamAt
    <3>2. owed[s] - Len(wire[s]) \in Nat \ {0}
      BY <1>4, <3>1 DEF WireAt
    <3>3. Stretch(wire[s], published', owed[s] - Len(wire[s]))
      BY <1>2, <1>3, <1>4, <3>1, <3>2, StretchLogGrows DEF WireAt
    <3> QED
      BY <1>3, <3>1, <3>3 DEF WireAt
  <2> QED
    BY <1>3, <1>7, <1>9, <2>1, <2>2, <2>3 DEF StreamAt, QueueAt
<1> QED
  BY <1>6, <1>8, <1>9

\* Taking an event from the queue onto the wire keeps it.
LEMMA YieldKeepsStream ==
  ASSUME TypeOK, NEW s \in Streams, StreamAt(s), Yield(s)
  PROVE  StreamAt(s)'
<1>1. /\ queue[s] \in Seq(Event \cup {DISCONNECT})
      /\ wire[s] \in Seq(Event)
      /\ published \in Seq(Event)
      /\ owed[s] \in Nat \ {0} /\ since[s] \in Nat \ {0}
  BY DEF TypeOK
<1>2. /\ handler[s] = "running" /\ link[s] = "up"
      /\ queue[s] # <<>> /\ Head(queue[s]) # DISCONNECT
      /\ queue'[s] = Tail(queue[s])
      /\ wire'[s] = Append(wire[s], Head(queue[s]))
      /\ owed'[s] = owed[s] + 1
      /\ UNCHANGED <<published, subscribers, handler, link, since>>
  BY DEF Yield, TypeOK, logVars
<1>3. /\ Len(queue'[s]) = Len(queue[s]) - 1
      /\ Clean(queue[s]) => Clean(queue'[s])
      /\ Sealed(queue[s]) => Sealed(queue'[s])
  BY <1>1, <1>2, TailCleanOrSealed
<1>4. QueueAt(s)'
  <2>1. Len(queue'[s]) <= QueueSize
    BY <1>1, <1>3, BackendAssumption DEF StreamAt, QueueAt
  <2> QED
    BY <1>2, <1>3, <2>1 DEF StreamAt, QueueAt
<1>5. ASSUME s \in subscribers
      PROVE  LogAt(s)' /\ WireAt(s)'
  <2>1. LogAt(s) /\ WireAt(s)
    BY <1>2, <1>5 DEF StreamAt
  <2>2. /\ Head(queue[s]) = published[owed[s]]
        /\ owed[s] <= Len(published)
        /\ Stretch(Tail(queue[s]), published, owed[s] + 1)
    BY <1>1, <1>2, <2>1, StretchTail DEF LogAt
  <2>3. LogAt(s)'
    <3>1. Stretch(queue'[s], published', owed'[s])
      BY <1>2, <2>2
    <3>2. owed'[s] + Len(queue'[s]) = Len(published') + 1
      BY <1>1, <1>2, <1>3, <2>1 DEF LogAt
    <3> QED
      BY <3>1, <3>2 DEF LogAt
  <2> DEFINE i == owed[s] - Len(wire[s])
  <2>4. /\ i \in Nat \ {0}
        /\ i + Len(wire[s]) = owed[s]
        /\ Stretch(wire[s], published, i)
    <3>1. since[s] + Len(wire[s]) <= owed[s] /\ Len(wire[s]) \in Nat
      BY <1>1, <2>1 DEF WireAt
    <3>2. Stretch(wire[s], published, i)
      BY <2>1 DEF WireAt
    <3>3. i \in Nat \ {0} /\ i + Len(wire[s]) = owed[s]
      BY <1>1, <3>1
    <3> QED
      BY <3>2, <3>3
  <2>5. Head(queue[s]) \in Event
    BY <1>1, <1>2
  <2> HIDE DEF i
  <2>6. Stretch(Append(wire[s], Head(queue[s])), published, i)
    BY <1>1, <2>2, <2>4, <2>5, StretchExtended
  <2>7. Len(wire'[s]) = Len(wire[s]) + 1
    BY <1>1, <1>2, <2>5
  <2>8. owed'[s] - Len(wire'[s]) = i
    BY <1>1, <1>2, <2>4, <2>7
  <2>9. since'[s] + Len(wire'[s]) <= owed'[s]
    BY <1>1, <1>2, <2>1, <2>7 DEF WireAt
  <2>10. Stretch(wire'[s], published', owed'[s] - Len(wire'[s]))
    BY <1>2, <2>6, <2>8
  <2> QED
    BY <2>3, <2>9, <2>10 DEF WireAt
<1> QED
  BY <1>2, <1>4, <1>5 DEF StreamAt

\* Receiving from the wire keeps it.
LEMMA RecvKeepsStream ==
  ASSUME TypeOK, NEW s \in Streams, StreamAt(s), Recv(s)
  PROVE  StreamAt(s)'
<1>1. /\ wire[s] \in Seq(Event) /\ wire[s] # <<>>
      /\ published \in Seq(Event)
      /\ owed[s] \in Nat \ {0} /\ since[s] \in Nat \ {0}
      /\ wire'[s] = Tail(wire[s])
      /\ UNCHANGED <<published, subscribers, queue, handler, link, owed, since>>
  BY DEF TypeOK, Recv, logVars
<1>2. ASSUME WireAt(s)
      PROVE  WireAt(s)'
  <2> DEFINE i == owed[s] - Len(wire[s])
  <2>1. i \in Nat \ {0} /\ Stretch(wire[s], published, i)
    BY <1>1, <1>2 DEF WireAt
  <2>2. Len(wire'[s]) = Len(wire[s]) - 1 /\ owed'[s] - Len(wire'[s]) = i + 1
    BY <1>1
  <2>3. since'[s] + Len(wire'[s]) <= owed'[s]
    BY <1>1, <1>2, <2>2 DEF WireAt
  <2> HIDE DEF i
  <2>4. Stretch(Tail(wire[s]), published, i + 1)
    BY <1>1, <2>1, StretchTail
  <2>5. Stretch(wire'[s], published', owed'[s] - Len(wire'[s]))
    BY <1>1, <2>2, <2>4
  <2> QED
    BY <2>3, <2>5 DEF WireAt
<1>3. LogAt(s) => LogAt(s)'
  BY <1>1 DEF LogAt
<1>4. handler[s] = "starting" => wire'[s] = <<>>
  BY <1>1 DEF StreamAt
<1> QED
  BY <1>1, <1>2, <1>3, <1>4 DEF StreamAt, QueueAt

\* So does joining the broadcaster: nothing is owed, nothing is in flight.
LEMMA SubscribeKeepsStream ==
  ASSUME TypeOK, NEW s \in Streams, StreamAt(s), Subscribe(s)
  PROVE  StreamAt(s)'
<1>1. /\ queue'[s] = <<>> /\ wire'[s] = <<>>
      /\ handler'[s] = "running" /\ s \in subscribers'
      /\ owed'[s] = Len(published) + 1 /\ since'[s] = Len(published) + 1
      /\ published' = published /\ published \in Seq(Event)
  BY DEF TypeOK, Subscribe, logVars, StreamAt
<1>2. QueueAt(s)'
  BY <1>1, BackendAssumption DEF QueueAt, Clean
<1>3. LogAt(s)' /\ WireAt(s)'
  BY <1>1 DEF LogAt, WireAt, Stretch
<1> QED
  BY <1>1, <1>2, <1>3 DEF StreamAt

\* And leaving it, which every end of a handler does.
LEMMA LeaveKeepsStream ==
  ASSUME TypeOK, NEW s \in Streams, StreamAt(s), Leave(s)
  PROVE  StreamAt(s)'
<1>1. /\ queue'[s] = <<>> /\ handler'[s] = "done" /\ s \notin subscribers'
  BY DEF TypeOK, Leave
<1> QED
  BY <1>1, BackendAssumption DEF StreamAt, QueueAt

\* Every step of the backend keeps the invariant of every stream.
LEMMA StreamInductive ==
  ASSUME TypeOK, StreamInv, [Next]_backendVars
  PROVE  StreamInv'
<1> SUFFICES ASSUME NEW s \in Streams
             PROVE  StreamAt(s)'
  BY DEF StreamInv
<1>1. StreamAt(s)
  BY DEF StreamInv
<1>2. CASE Request \/ UNCHANGED backendVars
  <2>1. UNCHANGED <<published, subscribers, queue, handler, link, wire, owed,
                    since>>
    BY <1>2 DEF Request, CreateItem, SeedItem, DeleteItem, ResetItems,
                backendVars, logVars, streamVars
  <2> QED
    BY <1>1, <2>1, StreamUntouched
<1>3. ASSUME NEW c \in unpublished, Publish(c)
      PROVE  StreamAt(s)'
  BY <1>1, <1>3, PublishKeepsStream
<1>4. ASSUME NEW t \in Streams, OpenWatch(t)
      PROVE  StreamAt(s)'
  <2>1. CASE t = s
    BY <1>1, <1>4, <2>1 DEF OpenWatch, TypeOK, StreamAt, QueueAt
  <2>2. CASE t # s
    BY <1>1, <1>4, <2>2, StreamUntouched DEF OpenWatch, TypeOK, logVars
  <2> QED
    BY <2>1, <2>2
<1>5. ASSUME NEW t \in Streams, Subscribe(t)
      PROVE  StreamAt(s)'
  <2>1. CASE t # s
    BY <1>1, <1>5, <2>1, StreamUntouched DEF Subscribe, TypeOK, logVars
  <2> QED
    BY <1>1, <1>5, <2>1, SubscribeKeepsStream
<1>6. ASSUME NEW t \in Streams, Yield(t)
      PROVE  StreamAt(s)'
  <2>1. CASE t # s
    BY <1>1, <1>6, <2>1, StreamUntouched DEF Yield, TypeOK, logVars
  <2> QED
    BY <1>1, <1>6, <2>1, YieldKeepsStream
<1>7. ASSUME NEW t \in Streams, Leave(t)
      PROVE  StreamAt(s)'
  <2>1. CASE t # s
    BY <1>1, <1>7, <2>1, StreamUntouched DEF Leave, TypeOK, logVars
  <2> QED
    BY <1>1, <1>7, <2>1, LeaveKeepsStream
<1>8. ASSUME NEW t \in Streams, Recv(t)
      PROVE  StreamAt(s)'
  <2>1. CASE t # s
    BY <1>1, <1>8, <2>1, StreamUntouched DEF Recv, TypeOK, logVars
  <2> QED
    BY <1>1, <1>8, <2>1, RecvKeepsStream
<1>9. ASSUME NEW t \in Streams, CloseWatch(t)
      PROVE  StreamAt(s)'
  <2>1. CASE t # s
    BY <1>1, <1>9, <2>1, StreamUntouched DEF CloseWatch, TypeOK, logVars
  <2>2. CASE t = s
    BY <1>1, <1>9, <2>2 DEF CloseWatch, TypeOK, logVars, StreamAt, QueueAt, LogAt
  <2> QED
    BY <2>1, <2>2
<1>10. ASSUME NEW t \in Streams, LinkDrop(t)
       PROVE  StreamAt(s)'
  <2>1. CASE t # s
    BY <1>1, <1>10, <2>1, StreamUntouched DEF LinkDrop, TypeOK, logVars
  <2>2. CASE t = s
    <3>1. PICK n \in 0..Len(wire[s]) : wire'[s] = SubSeq(wire[s], 1, n)
      BY <1>10, <2>2 DEF LinkDrop, TypeOK
    <3>2. wire[s] = <<>> => wire'[s] = <<>>
      BY <3>1 DEF TypeOK
    <3> QED
      BY <1>1, <1>10, <2>2, <3>2 DEF LinkDrop, TypeOK, logVars, StreamAt,
                                     QueueAt, LogAt
  <2> QED
    BY <2>1, <2>2
<1>11. CASE BackendRestart
  BY <1>11, BackendAssumption DEF BackendRestart, StreamAt, QueueAt
<1> QED
  BY <1>2, <1>3, <1>4, <1>5, <1>6, <1>7, <1>8, <1>9, <1>10, <1>11
     DEF Next, HandlerStep, Watcher, EndStream, CancelHandler

\* The invariant holds for every stream in every behaviour.
THEOREM StreamInvariant == Spec => []StreamInv
<1>1. Init => StreamInv
  BY BackendAssumption DEF Init, StreamInv, StreamAt, QueueAt
<1>2. TypeOK /\ StreamInv /\ [Next]_backendVars => StreamInv'
  BY StreamInductive
<1> QED
  BY <1>1, <1>2, TypeCorrect, PTL DEF Spec

\* It says that a subscribed stream has no gap ...
LEMMA StreamsHaveNoGap ==
  ASSUME TypeOK, StreamInv
  PROVE  NoGapWhileSubscribed
  BY DEF TypeOK, StreamInv, StreamAt, LogAt, WireAt, Stretch, NoGapWhileSubscribed

\* ... and that an evicted one ends in the sentinel.
LEMMA StreamsAreSealed ==
  ASSUME TypeOK, StreamInv
  PROVE  SentinelEndsEvictedStream
<1> SUFFICES ASSUME NEW s \in Streams
             PROVE  /\ Len(queue[s]) <= QueueSize
                    /\ s \in subscribers => handler[s] = "running"
                    /\ \A k \in 1..Len(queue[s]) :
                         queue[s][k] = DISCONNECT =>
                           s \notin subscribers /\ k = Len(queue[s])
                    /\ handler[s] = "running" /\ s \notin subscribers =>
                         /\ queue[s] # <<>>
                         /\ queue[s][Len(queue[s])] = DISCONNECT
  BY DEF SentinelEndsEvictedStream
<1>1. QueueAt(s) /\ queue[s] \in Seq(Event \cup {DISCONNECT})
  BY DEF TypeOK, StreamInv, StreamAt
<1>2. CASE s \in subscribers
  BY <1>1, <1>2 DEF QueueAt, Clean
<1>3. CASE s \notin subscribers /\ handler[s] = "running"
  <2>1. Sealed(queue[s]) /\ Len(queue[s]) \in 1..Len(queue[s])
    BY <1>1, <1>3 DEF QueueAt, Sealed
  <2> QED
    BY <1>1, <1>3, <2>1 DEF QueueAt, Sealed
<1>4. CASE s \notin subscribers /\ handler[s] # "running"
  BY <1>1, <1>4 DEF QueueAt
<1> QED
  BY <1>2, <1>3, <1>4

\* A stream that is still subscribed has missed nothing: events.py never drops
\* an event of a queue whose handler does not learn of it.
THEOREM SubscribedStreamsMissNothing == Spec => []NoGapWhileSubscribed
<1>1. TypeOK /\ StreamInv => NoGapWhileSubscribed
  BY StreamsHaveNoGap
<1> QED
  BY <1>1, TypeCorrect, StreamInvariant, PTL

\* No handler waits on a queue that nobody writes to: unsubscribed and running
\* means that the sentinel is the last entry of its queue.
THEOREM EvictedStreamsEnd == Spec => []SentinelEndsEvictedStream
<1>1. TypeOK /\ StreamInv => SentinelEndsEvictedStream
  BY StreamsAreSealed
<1> QED
  BY <1>1, TypeCorrect, StreamInvariant, PTL

-----------------------------------------------------------------------------
(* Commits and events.                                                     *)

\* A change that waits for its publish() is about a committed row, whose
\* deletion is final.
PendingCommitted ==
    \A c \in unpublished :
       /\ c.id < nextId
       /\ c.type = "deleted" => items[c.id] = NoName

\* No two of them are about the same change.
PendingDistinct ==
    \A c, d \in unpublished : c.type = d.type /\ c.id = d.id => c = d

\* Ids that were not handed out have no row.
UnusedIdsFree == \A i \in Ids : items[i] # NoName => i < nextId

\* The inductive invariant: the two properties, and the three facts about
\* what is still to be published that carry them over a publish().
CommitInv ==
    /\ OneEventPerCommit
    /\ EmitAfterCommit
    /\ PendingCommitted
    /\ PendingDistinct
    /\ UnusedIdsFree

\* Events and pending changes carry ids of the table.
LEMMA IdsOfChanges ==
  ASSUME TypeOK
  PROVE  /\ \A k \in 1..Len(published) : published[k].id \in Ids
         /\ \A c \in unpublished : c.id \in Ids
         /\ Ids \subseteq Nat
<1>1. ASSUME NEW k \in 1..Len(published)
      PROVE  published[k].id \in Ids
  <2>1. published[k] \in Event
    BY DEF TypeOK
  <2> QED
    BY <2>1 DEF Event
<1>2. ASSUME NEW c \in unpublished
      PROVE  c.id \in Ids
  <2>1. c \in Change
    BY DEF TypeOK
  <2> QED
    BY <2>1 DEF Change
<1> QED
  BY <1>1, <1>2 DEF Ids

\* Moving a change from the pending ones to the log keeps all five.
LEMMA PublishKeepsCommits ==
  ASSUME TypeOK, CommitInv, NEW c \in unpublished, Publish(c)
  PROVE  CommitInv'
<1>1. PICK e \in Event : /\ e.type = c.type /\ e.id = c.id
                         /\ published' = Append(published, e)
  <2>1. PICK now \in {clock + d : d \in Ticks} :
          published' = Append(published, [type |-> c.type, id |-> c.id,
                                          name |-> c.name, time |-> now])
    BY DEF Publish
  <2>2. [type |-> c.type, id |-> c.id, name |-> c.name, time |-> now] \in Event
    BY BackendAssumption DEF TypeOK, Change, Event
  <2> QED
    BY <2>1, <2>2
<1>2. UNCHANGED <<items, nextId>> /\ unpublished' = unpublished \ {c}
  BY DEF Publish, tableVars
<1>3. /\ Len(published') = Len(published) + 1 /\ Len(published) \in Nat
      /\ published'[Len(published) + 1] = e
      /\ \A k \in 1..Len(published) : published'[k] = published[k]
  BY <1>1 DEF TypeOK
<1>4. \A k \in 1..Len(published') :
        k \in 1..Len(published) \/ k = Len(published) + 1
  BY <1>3
<1>5. EmitAfterCommit'
  BY <1>1, <1>2, <1>3, <1>4 DEF CommitInv, EmitAfterCommit, PendingCommitted
<1>6. \A k \in 1..Len(published) :
        published[k].type = e.type => published[k].id # e.id
  BY <1>1 DEF CommitInv, OneEventPerCommit
<1>7. OneEventPerCommit'
  <2>1. ASSUME NEW j \in 1..Len(published'), NEW k \in 1..Len(published'),
               published'[j].type = published'[k].type,
               published'[j].id = published'[k].id
        PROVE  j = k
    BY <1>3, <1>4, <1>6, <2>1 DEF CommitInv, OneEventPerCommit
  <2>2. ASSUME NEW d \in unpublished', NEW k \in 1..Len(published'),
               published'[k].type = d.type
        PROVE  published'[k].id # d.id
    <3>1. d \in unpublished /\ d # c
      BY <1>2
    <3>2. CASE k \in 1..Len(published)
      BY <1>3, <2>2, <3>1, <3>2 DEF CommitInv, OneEventPerCommit
    <3>3. CASE k = Len(published) + 1
      BY <1>1, <1>3, <2>2, <3>1, <3>3 DEF CommitInv, PendingDistinct
    <3> QED
      BY <1>4, <3>2, <3>3
  <2> QED
    BY <2>1, <2>2 DEF OneEventPerCommit
<1>8. PendingCommitted' /\ PendingDistinct' /\ UnusedIdsFree'
  BY <1>2 DEF CommitInv, PendingCommitted, PendingDistinct, UnusedIdsFree
<1> QED
  BY <1>5, <1>7, <1>8 DEF CommitInv

\* A committed insert announces an id that no event and no pending change
\* has.
LEMMA CreateKeepsCommits ==
  ASSUME TypeOK, CommitInv, NEW n \in Names, CreateItem(n)
  PROVE  CommitInv'
<1> DEFINE c == [type |-> "created", id |-> nextId, name |-> n]
<1>1. /\ nextId \in Ids /\ nextId' = nextId + 1 /\ published' = published
      /\ items' = [items EXCEPT ![nextId] = n]
      /\ unpublished' = unpublished \cup {c}
      /\ nextId \in Nat /\ items \in [Ids -> Names \cup {NoName}]
  BY DEF CreateItem, logVars, TypeOK, Ids
<1>2. /\ \A k \in 1..Len(published) : published[k].id \in Nat /\ published[k].id \in Ids
      /\ \A d \in unpublished : d.id \in Nat /\ d.id \in Ids
  BY IdsOfChanges
<1>3. EmitAfterCommit'
  BY <1>1, <1>2 DEF CommitInv, EmitAfterCommit
<1>4. OneEventPerCommit'
  BY <1>1, <1>2 DEF CommitInv, OneEventPerCommit, EmitAfterCommit
<1>5. PendingCommitted'
  BY <1>1, <1>2 DEF CommitInv, PendingCommitted
<1>6. PendingDistinct'
  BY <1>1, <1>2 DEF CommitInv, PendingCommitted, PendingDistinct
<1>7. UnusedIdsFree'
  BY <1>1 DEF CommitInv, UnusedIdsFree, Ids
<1> QED
  BY <1>3, <1>4, <1>5, <1>6, <1>7 DEF CommitInv

\* DELETE .. RETURNING finds a live row: no event and no pending change says
\* that it is gone, so this is the one that does.
LEMMA DeleteKeepsCommits ==
  ASSUME TypeOK, CommitInv, NEW i \in Ids, DeleteItem(i)
  PROVE  CommitInv'
<1> DEFINE c == [type |-> "deleted", id |-> i, name |-> items[i]]
<1>1. /\ items[i] # NoName /\ UNCHANGED <<nextId, published>>
      /\ items' = [items EXCEPT ![i] = NoName]
      /\ unpublished' = unpublished \cup {c}
      /\ items \in [Ids -> Names \cup {NoName}]
  BY DEF DeleteItem, Live, logVars, TypeOK
<1>2. /\ \A k \in 1..Len(published) : published[k].id \in Ids
      /\ \A d \in unpublished : d.id \in Ids
  BY IdsOfChanges
<1>3. EmitAfterCommit'
  BY <1>1, <1>2 DEF CommitInv, EmitAfterCommit
<1>4. OneEventPerCommit'
  BY <1>1, <1>2 DEF CommitInv, OneEventPerCommit, EmitAfterCommit
<1>5. PendingCommitted'
  BY <1>1, <1>2 DEF CommitInv, PendingCommitted, UnusedIdsFree
<1>6. PendingDistinct'
  BY <1>1, <1>2 DEF CommitInv, PendingCommitted, PendingDistinct
<1>7. UnusedIdsFree'
  BY <1>1 DEF CommitInv, UnusedIdsFree
<1> QED
  BY <1>3, <1>4, <1>5, <1>6, <1>7 DEF CommitInv

\* Every step keeps the bookkeeping of the commits.
LEMMA CommitInductive ==
  ASSUME TypeOK, CommitInv, [Next]_backendVars
  PROVE  CommitInv'
<1> USE DEF tableVars, logVars
<1>1. ASSUME UNCHANGED <<items, nextId, published, unpublished>>
      PROVE  CommitInv'
  BY <1>1 DEF CommitInv, OneEventPerCommit, EmitAfterCommit,
              PendingCommitted, PendingDistinct, UnusedIdsFree
<1>2. ASSUME NEW n \in Names, CreateItem(n)
      PROVE  CommitInv'
  BY <1>2, CreateKeepsCommits
<1>3. ASSUME NEW i \in Ids, DeleteItem(i)
      PROVE  CommitInv'
  BY <1>3, DeleteKeepsCommits
<1>4. ASSUME NEW n \in Names, SeedItem(n)
      PROVE  CommitInv'
  <2>1. /\ nextId \in Ids /\ nextId' = nextId + 1 /\ nextId \in Nat
        /\ items' = [items EXCEPT ![nextId] = n]
        /\ UNCHANGED <<published, unpublished>>
        /\ items \in [Ids -> Names \cup {NoName}]
    BY <1>4 DEF SeedItem, TypeOK, Ids
  <2>2. /\ \A k \in 1..Len(published) : published[k].id \in Nat /\ published[k].id \in Ids
        /\ \A d \in unpublished : d.id \in Nat /\ d.id \in Ids
    BY IdsOfChanges
  <2>3. EmitAfterCommit' /\ PendingCommitted'
    BY <2>1, <2>2 DEF CommitInv, EmitAfterCommit, PendingCommitted
  <2>4. OneEventPerCommit' /\ PendingDistinct'
    BY <2>1 DEF CommitInv, OneEventPerCommit, PendingDistinct
  <2>5. UnusedIdsFree'
    BY <2>1 DEF CommitInv, UnusedIdsFree, Ids
  <2> QED
    BY <2>3, <2>4, <2>5 DEF CommitInv
<1>5. CASE ResetItems
  <2>1. /\ UNCHANGED <<nextId, published, unpublished>>
        /\ \A i \in Ids : items'[i] = NoName
    BY <1>5 DEF ResetItems
  <2>2. /\ \A k \in 1..Len(published) : published[k].id \in Ids
        /\ \A d \in unpublished : d.id \in Ids
    BY IdsOfChanges
  <2> QED
    BY <2>1, <2>2 DEF CommitInv, OneEventPerCommit, EmitAfterCommit,
                      PendingCommitted, PendingDistinct, UnusedIdsFree
<1>6. ASSUME NEW c \in unpublished, Publish(c)
      PROVE  CommitInv'
  BY <1>6, PublishKeepsCommits
<1>7. ASSUME NEW s \in Streams, HandlerStep(s) \/ Watcher(s) \/ LinkDrop(s)
      PROVE  UNCHANGED <<items, nextId, published, unpublished>>
  BY <1>7 DEF HandlerStep, Subscribe, Yield, EndStream, CancelHandler, Leave,
              Watcher, OpenWatch, Recv, CloseWatch, LinkDrop
<1>8. CASE BackendRestart
  <2>1. UNCHANGED <<items, nextId, published>> /\ unpublished' = {}
    BY <1>8 DEF BackendRestart
  <2> QED
    BY <2>1 DEF CommitInv, OneEventPerCommit, EmitAfterCommit,
                PendingCommitted, PendingDistinct, UnusedIdsFree
<1>9. CASE UNCHANGED backendVars
  BY <1>1, <1>9 DEF backendVars
<1> QED
  BY <1>1, <1>2, <1>3, <1>4, <1>5, <1>6, <1>7, <1>8, <1>9 DEF Next, Request

\* The invariant of commits and events holds in every behaviour.
THEOREM CommitInvariant == Spec => []CommitInv
<1>1. Init => CommitInv
  BY DEF Init, CommitInv, OneEventPerCommit, EmitAfterCommit, PendingCommitted,
         PendingDistinct, UnusedIdsFree
<1>2. TypeOK /\ CommitInv /\ [Next]_backendVars => CommitInv'
  BY CommitInductive
<1> QED
  BY <1>1, <1>2, TypeCorrect, PTL DEF Spec

\* Concurrent requests for the same row publish one event, as the comment in
\* crud.py delete_item says.
THEOREM CommitsPublishOnce == Spec => []OneEventPerCommit
<1>1. CommitInv => OneEventPerCommit
  BY DEF CommitInv
<1> QED
  BY <1>1, CommitInvariant, PTL

\* An event is about a committed change, and a "deleted" one stays true.
THEOREM EventsFollowCommits == Spec => []EmitAfterCommit
<1>1. CommitInv => EmitAfterCommit
  BY DEF CommitInv
<1> QED
  BY <1>1, CommitInvariant, PTL

-----------------------------------------------------------------------------
(* What a step of the pipeline does to the backend's side.                 *)

\* A call of the client fails, and nothing else happens at the backend.
FaultOnly == Fault /\ UNCHANGED <<tableVars, unpublished, logVars, streamVars>>

\* The client's end of stream s is gone, because it closed it or died.
Cut(s) ==
    /\ link' = [link EXCEPT ![s] = "down"]
    /\ wire' = [wire EXCEPT ![s] = <<>>]
    /\ Fault \/ UNCHANGED faults
    /\ UNCHANGED <<tableVars, unpublished, logVars, subscribers, queue, handler,
                   owed, since>>

\* The backend's own invariants.
BackendInv == TypeOK /\ StreamInv /\ CommitInv

\* A failing call changes only the count of faults.
LEMMA FaultKeepsBackend ==
  ASSUME BackendInv, FaultOnly
  PROVE  BackendInv'
<1> USE BackendAssumption DEF BackendInv, FaultOnly, Fault, tableVars, logVars, streamVars
<1>1. TypeOK'
  BY DEF TypeOK
<1>2. StreamInv'
  BY StreamUntouched DEF StreamInv
<1>3. CommitInv'
  BY DEF CommitInv, OneEventPerCommit, EmitAfterCommit, PendingCommitted,
         PendingDistinct, UnusedIdsFree
<1> QED
  BY <1>1, <1>2, <1>3

\* Neither does a client that goes away disturb the handlers.
LEMMA CutKeepsBackend ==
  ASSUME BackendInv, NEW s \in Streams, Cut(s)
  PROVE  BackendInv'
<1> USE BackendAssumption DEF BackendInv, Cut, tableVars, logVars
<1>1. TypeOK'
  BY DEF TypeOK, Fault
<1>2. StreamInv'
  <2> SUFFICES ASSUME NEW t \in Streams PROVE StreamAt(t)'
    BY DEF StreamInv
  <2>1. StreamAt(t)
    BY DEF StreamInv
  <2>2. CASE t = s
    <3>1. link'[s] = "down" /\ wire'[s] = <<>>
      BY DEF TypeOK
    <3> QED  BY <2>1, <2>2, <3>1 DEF StreamAt, QueueAt, LogAt
  <2>3. CASE t # s
    <3>1. link'[t] = link[t] /\ wire'[t] = wire[t]
      BY <2>3 DEF TypeOK
    <3> QED  BY <2>1, <3>1, StreamUntouched
  <2> QED  BY <2>2, <2>3
<1>3. CommitInv'
  BY DEF CommitInv, OneEventPerCommit, EmitAfterCommit, PendingCommitted,
         PendingDistinct, UnusedIdsFree
<1> QED
  BY <1>1, <1>2, <1>3

\* A step of the pipeline is, for the backend, one of its own, a failing
\* call, or a client that goes away.
LEMMA BackendView ==
  ASSUME PipelineTypeOK, [PipelineNext]_vars
  PROVE  [Next]_backendVars \/ FaultOnly \/ \E s \in Streams : Cut(s)
<1> USE DEF FaultOnly
<1>1. CASE BackendStep
  BY <1>1 DEF BackendStep, PublishChange, Next, Request
<1>2. CASE ListItems \/ Reconcile \/ Persist \/ Retry \/ DatabaseUp
  BY <1>2 DEF ListItems, Reconcile, Persist, Retry, DatabaseUp
<1>3. CASE ListItemsFails \/ OpenStreamFails \/ PersistFails \/ DatabaseDown
  BY <1>3 DEF ListItemsFails, OpenStreamFails, PersistFails, DatabaseDown
<1>4. CASE ReconcileFails
  BY <1>4 DEF ReconcileFails, backendVars, tableVars, logVars, streamVars
<1>5. CASE \E s \in Streams : OpenStream(s)
  BY <1>5 DEF OpenStream, Next, Watcher
<1>6. CASE RecvEvent
  <2>1. stream \in Streams
    BY <1>6 DEF RecvEvent, PipelineTypeOK
  <2> QED  BY <1>6, <2>1 DEF RecvEvent, Next, Watcher
<1>7. CASE RecvError
  <2>1. stream \in Streams
    BY <1>7 DEF RecvError, PipelineTypeOK
  <2> QED  BY <1>7, <2>1 DEF RecvError, CloseWatch, Cut
<1>8. CASE AnalyticsRestart
  <2>1. CASE stream = NoStream
    BY <1>8, <2>1 DEF AnalyticsRestart, streamVars
  <2>2. CASE stream # NoStream
    <3>1. stream \in Streams
      BY <2>2 DEF PipelineTypeOK
    <3> QED  BY <1>8, <2>2, <3>1 DEF AnalyticsRestart, Cut
  <2> QED  BY <2>1, <2>2
<1>9. CASE UNCHANGED vars
  BY <1>9 DEF vars
<1> QED
  BY <1>1, <1>2, <1>3, <1>4, <1>5, <1>6, <1>7, <1>8, <1>9 DEF PipelineNext, ClientStep

\* So the backend's invariants hold in the pipeline too.
LEMMA BackendInductive ==
  ASSUME PipelineTypeOK, BackendInv, [PipelineNext]_vars
  PROVE  BackendInv'
<1>1. CASE [Next]_backendVars
  BY <1>1, TypeInductive, StreamInductive, CommitInductive DEF BackendInv
<1>2. CASE FaultOnly
  BY <1>2, FaultKeepsBackend
<1>3. ASSUME NEW s \in Streams, Cut(s) PROVE BackendInv'
  BY <1>3, CutKeepsBackend
<1> QED
  BY <1>1, <1>2, <1>3, BackendView

-----------------------------------------------------------------------------
(* The transactions of the store.                                          *)

RawRow == [id : Ids, type : {"created", "deleted"}, time : Nat]

\* The types of the tables, with what TypeOK leaves out: item_events is
\* finite, and there are no other tables.
TablesOK(t) ==
    /\ t = [events |-> t.events, buckets |-> t.buckets, current |-> t.current]
    /\ t.events \subseteq RawRow
    /\ IsFiniteSet(t.events)
    /\ \A k \in DOMAIN t.buckets : t.buckets[k] \in Nat
    /\ DOMAIN t.current \subseteq Ids
    /\ \A i \in DOMAIN t.current : t.current[i] \in Row

\* What an event does to current_items: it replaces the row of its item,
\* unless that row was seen later, and no other row.
LEMMA ApplyEventRows ==
  ASSUME NEW cur, NEW e \in Event, DOMAIN cur \subseteq Ids,
         \A i \in DOMAIN cur : cur[i] \in Row
  PROVE  LET new == ApplyEvent(cur, e)
         IN  /\ DOMAIN new = DOMAIN cur \cup {e.id}
             /\ \A i \in DOMAIN new : new[i] \in Row
             /\ \A i \in DOMAIN cur : i # e.id => new[i] = cur[i]
             /\ IF e.id \in DOMAIN cur /\ e.time < cur[e.id].last
                THEN new[e.id] = cur[e.id]
                ELSE /\ new[e.id].name = e.name
                     /\ new[e.id].gone = (e.type = "deleted")
                     /\ new[e.id].last = e.time
<1> DEFINE new == ApplyEvent(cur, e)
<1>1. /\ e.id \in Ids /\ e.name \in Names /\ e.time \in Nat
      /\ e.type \in {"created", "deleted"}
  BY DEF Event
<1>2. (e.type = "deleted") \in BOOLEAN
  BY Zenon
<1>3. FromEvent(e) \in Row
  BY <1>1, <1>2 DEF FromEvent, Row
<1>4. CASE e.id \notin DOMAIN cur
  <2>1. new = [x \in DOMAIN cur \cup {e.id} |->
                 IF x = e.id THEN FromEvent(e) ELSE cur[x]]
    BY <1>4 DEF ApplyEvent, Upsert, Put
  <2> QED  BY <1>1, <1>3, <1>4, <2>1 DEF FromEvent
<1>5. CASE e.id \in DOMAIN cur /\ e.time < cur[e.id].last
  <2>1. cur[e.id].last \in Nat
    BY <1>5 DEF Row
  <2>2. new = cur
    BY <1>1, <1>5, <2>1 DEF ApplyEvent, Upsert, FromEvent
  <2> QED  BY <1>5, <2>2
<1>6. CASE e.id \in DOMAIN cur /\ ~(e.time < cur[e.id].last)
  <2> DEFINE row == [FromEvent(e) EXCEPT !.first = cur[e.id].first]
  <2>1. cur[e.id].last \in Nat /\ cur[e.id].first \in Nat
    BY <1>6 DEF Row
  <2>2. row \in Row
    BY <1>3, <2>1 DEF Row
  <2>3. row.name = e.name /\ row.gone = (e.type = "deleted") /\ row.last = e.time
    BY DEF FromEvent
  <2>4. new = [x \in DOMAIN cur \cup {e.id} |-> IF x = e.id THEN row ELSE cur[x]]
    BY <1>1, <1>6, <2>1 DEF ApplyEvent, Upsert, FromEvent, Put
  <2> HIDE DEF row
  <2> QED  BY <1>6, <2>2, <2>3, <2>4
<1> QED
  BY <1>4, <1>5, <1>6

\* What a reconcile does to it: the rows of the snapshot are there and alive,
\* all others are tombstoned, and last_seen is now or what it was.
LEMMA ReconcileRows ==
  ASSUME NEW cur, NEW snap, NEW now \in Nat,
         DOMAIN cur \subseteq Ids, \A i \in DOMAIN cur : cur[i] \in Row,
         DOMAIN snap \subseteq Ids, \A i \in DOMAIN snap : snap[i] \in Names
  PROVE  LET new == ReconcileSnapshot(cur, snap, now)
         IN  /\ DOMAIN new = DOMAIN cur \cup DOMAIN snap
             /\ \A i \in DOMAIN new : new[i] \in Row
             /\ \A i \in DOMAIN snap : new[i].name = snap[i] /\ new[i].gone = FALSE
             /\ \A i \in DOMAIN cur \ DOMAIN snap : new[i].gone = TRUE
             /\ \A i \in DOMAIN new :
                  new[i].last = now \/ (i \in DOMAIN cur /\ new[i].last = cur[i].last)
<1> DEFINE new == ReconcileSnapshot(cur, snap, now)
<1>1. DOMAIN new = DOMAIN cur \cup DOMAIN snap
  BY DEF ReconcileSnapshot
<1>2. ASSUME NEW i \in DOMAIN snap
      PROVE  /\ new[i] \in Row /\ new[i].name = snap[i] /\ new[i].gone = FALSE
             /\ new[i].last = now \/ (i \in DOMAIN cur /\ new[i].last = cur[i].last)
  <2> DEFINE fst == IF i \in DOMAIN cur THEN cur[i].first ELSE now
             lst == IF i \in DOMAIN cur THEN Greatest(cur[i].last, now) ELSE now
  <2>1. i \in DOMAIN cur => cur[i].first \in Nat /\ cur[i].last \in Nat
    BY DEF Row
  <2>2. /\ fst \in Nat /\ lst \in Nat
        /\ lst = now \/ (i \in DOMAIN cur /\ lst = cur[i].last)
    BY <2>1 DEF Greatest
  <2>3. new[i] = [name |-> snap[i], gone |-> FALSE, first |-> fst, last |-> lst]
    BY <1>1 DEF ReconcileSnapshot
  <2> HIDE DEF fst, lst, new
  <2> QED  BY <2>2, <2>3 DEF Row
<1>3. ASSUME NEW i \in DOMAIN cur \ DOMAIN snap
      PROVE  new[i] \in Row /\ new[i].gone = TRUE /\ new[i].last = cur[i].last
  <2>1. new[i] = [cur[i] EXCEPT !.gone = TRUE] /\ cur[i] \in Row
    BY <1>1 DEF ReconcileSnapshot
  <2> HIDE DEF new
  <2> QED  BY <2>1 DEF Row
<1> HIDE DEF new
<1>4. \A i \in DOMAIN new : new[i] \in Row
  BY <1>1, <1>2, <1>3
<1>5. \A i \in DOMAIN new :
        new[i].last = now \/ (i \in DOMAIN cur /\ new[i].last = cur[i].last)
  BY <1>1, <1>2, <1>3
<1> QED
  BY <1>1, <1>2, <1>3, <1>4, <1>5 DEF new

\* The bucket of one new row counts one more, or is new and counts one.
LEMMA BumpOne ==
  ASSUME NEW b, NEW e, \A x \in DOMAIN b : b[x] \in Nat
  PROVE  LET new == BumpAll(b, {e})
         IN  /\ DOMAIN new = DOMAIN b \cup {Bucket(e)}
             /\ \A x \in DOMAIN b : x # Bucket(e) => new[x] = b[x]
             /\ new[Bucket(e)] = CountIn(b, Bucket(e)) + 1
             /\ \A x \in DOMAIN new : new[x] \in Nat
<1> DEFINE new == BumpAll(b, {e})
           same(x) == {r \in {e} : Bucket(r) = x}
<1>1. {Bucket(r) : r \in {e}} = {Bucket(e)}
  OBVIOUS
<1>2. DOMAIN new = DOMAIN b \cup {Bucket(e)}
  BY <1>1 DEF BumpAll
<1>3. \A x \in DOMAIN new : new[x] = CountIn(b, x) + Cardinality(same(x))
  BY DEF BumpAll
<1>4. \A x : CountIn(b, x) \in Nat
  BY DEF CountIn
<1>5. Cardinality(same(Bucket(e))) = 1
  <2>1. same(Bucket(e)) = {e}
    OBVIOUS
  <2> QED  BY <2>1, FS_Singleton
<1>6. ASSUME NEW x, x # Bucket(e) PROVE Cardinality(same(x)) = 0
  <2>1. same(x) = {}
    BY <1>6
  <2> QED  BY <2>1, FS_EmptySet
<1> HIDE DEF new, same
<1>7. \A x \in DOMAIN b : x # Bucket(e) => new[x] = b[x]
  BY <1>2, <1>3, <1>6 DEF CountIn
<1>8. new[Bucket(e)] = CountIn(b, Bucket(e)) + 1
  BY <1>2, <1>3, <1>5
<1>9. \A x \in DOMAIN new : new[x] \in Nat
  BY <1>2, <1>4, <1>7, <1>8
<1> QED
  BY <1>2, <1>7, <1>8, <1>9 DEF new

\* IngestEvent keeps the types.
LEMMA IngestTables ==
  ASSUME NEW t, NEW e \in Event, TablesOK(t)
  PROVE  TablesOK(IngestEvent(t, e))
<1> DEFINE n == IngestEvent(t, e)
<1>1. /\ n = [events |-> n.events, buckets |-> n.buckets, current |-> n.current]
      /\ n.events = t.events \cup {Key(e)}
      /\ n.buckets = IF Key(e) \in t.events THEN t.buckets ELSE BumpAll(t.buckets, {e})
      /\ n.current = ApplyEvent(t.current, e)
  BY DEF IngestEvent
<1> HIDE DEF n
<1>2. Key(e) \in RawRow
  BY DEF Key, RawRow, Event
<1>3. IsFiniteSet(n.events)
  BY <1>1, FS_AddElement DEF TablesOK
<1>4. \A k \in DOMAIN n.buckets : n.buckets[k] \in Nat
  BY <1>1, BumpOne DEF TablesOK
<1>5. DOMAIN n.current \subseteq Ids /\ \A i \in DOMAIN n.current : n.current[i] \in Row
  <2>1. e.id \in Ids
    BY DEF Event
  <2>2. DOMAIN t.current \subseteq Ids /\ \A i \in DOMAIN t.current : t.current[i] \in Row
    BY DEF TablesOK
  <2>3. /\ DOMAIN ApplyEvent(t.current, e) = DOMAIN t.current \cup {e.id}
        /\ \A i \in DOMAIN ApplyEvent(t.current, e) : ApplyEvent(t.current, e)[i] \in Row
    BY <2>2, ApplyEventRows
  <2> QED  BY <1>1, <2>1, <2>2, <2>3
<1> QED
  BY <1>1, <1>2, <1>3, <1>4, <1>5 DEF TablesOK, n

\* ReconcileSnapshot keeps them.
LEMMA ReconcileTables ==
  ASSUME NEW t, NEW snap, NEW now \in Nat, TablesOK(t),
         DOMAIN snap \subseteq Ids, \A i \in DOMAIN snap : snap[i] \in Names
  PROVE  LET n == [t EXCEPT !.current = ReconcileSnapshot(@, snap, now)]
         IN  /\ n.events = t.events /\ n.buckets = t.buckets
             /\ n.current = ReconcileSnapshot(t.current, snap, now)
             /\ TablesOK(n)
<1> DEFINE cur == ReconcileSnapshot(t.current, snap, now)
           n == [t EXCEPT !.current = cur]
<1>1. /\ n.events = t.events /\ n.buckets = t.buckets /\ n.current = cur
      /\ n = [events |-> n.events, buckets |-> n.buckets, current |-> n.current]
  BY DEF TablesOK
<1>2. DOMAIN cur \subseteq Ids /\ \A i \in DOMAIN cur : cur[i] \in Row
  <2>1. DOMAIN t.current \subseteq Ids /\ \A i \in DOMAIN t.current : t.current[i] \in Row
    BY DEF TablesOK
  <2>2. DOMAIN cur = DOMAIN t.current \cup DOMAIN snap /\ \A i \in DOMAIN cur : cur[i] \in Row
    BY <2>1, ReconcileRows
  <2> HIDE DEF cur
  <2> QED  BY <2>1, <2>2
<1> HIDE DEF cur, n
<1>3. TablesOK(n)
  BY <1>1, <1>2 DEF TablesOK
<1> QED
  BY <1>1, <1>3 DEF n, cur

-----------------------------------------------------------------------------
(* Types.                                                                  *)

\* The client's own variables.
ClientOK ==
    /\ pc \in {"list", "reconcile", "open", "recv", "persist", "backoff"}
    /\ DOMAIN snapshot \subseteq Ids
    /\ \A i \in DOMAIN snapshot : snapshot[i] \in Names
    /\ stream \in Streams \cup {NoStream}
    /\ current \in Event \cup {NoEvent}
    /\ missed \subseteq Ids
    /\ stream # NoStream <=> pc \in {"recv", "persist"}
    /\ current # NoEvent <=> pc = "persist"

\* The inductive form of the types.
PipelineTypes == TypeOK /\ ClientOK /\ TablesOK(tables) /\ dbUp \in BOOLEAN

\* It is the type invariant of the model, and more.
LEMMA TypesImply == PipelineTypes => PipelineTypeOK
  BY DEF PipelineTypes, ClientOK, TablesOK, RawRow, PipelineTypeOK

\* An event in hand is an event.
LEMMA InHand ==
  ASSUME ClientOK, pc = "persist"
  PROVE  current \in Event /\ stream \in Streams /\ current # NoEvent
  BY DEF ClientOK

\* The tables change only in a reconcile or a persist, acknowledged or not.
LEMMA TablesStep ==
  ASSUME [PipelineNext]_vars
  PROVE  \/ UNCHANGED tables
         \/ pc = "reconcile" /\ tables' = Reconciled
         \/ pc = "persist" /\ Ingest
  BY DEF PipelineNext, BackendStep, OtherThanMissed, ClientStep, ListItems,
     ListItemsFails, Reconcile, ReconcileFails, OpenStream, OpenStreamFails,
     RecvEvent, RecvError, Persist, PersistFails, Retry, AnalyticsRestart,
     DatabaseDown, DatabaseUp, vars, clientVars

\* The tables keep their types in every step.
LEMMA TablesInductive ==
  ASSUME PipelineTypes, [PipelineNext]_vars
  PROVE  TablesOK(tables')
<1>1. TablesOK(tables) /\ ClientOK
  BY DEF PipelineTypes
<1>2. ASSUME UNCHANGED tables PROVE TablesOK(tables')
  BY <1>1, <1>2
<1>3. ASSUME pc = "reconcile", tables' = Reconciled PROVE TablesOK(tables')
  <2>1. clock + Skew \in Nat
    BY PipelineAssumption DEF PipelineTypes, TypeOK
  <2>2. DOMAIN snapshot \subseteq Ids /\ \A i \in DOMAIN snapshot : snapshot[i] \in Names
    BY <1>1 DEF ClientOK
  <2>3. TablesOK(Reconciled)
    BY <1>1, <2>1, <2>2, ReconcileTables DEF Reconciled
  <2> QED  BY <1>3, <2>3
<1>4. ASSUME pc = "persist", Ingest PROVE TablesOK(tables')
  <2>1. TablesOK(IngestEvent(tables, current))
    BY <1>1, <1>4, InHand, IngestTables
  <2> QED  BY <1>4, <2>1 DEF Ingest
<1> QED
  BY <1>2, <1>3, <1>4, TablesStep

\* So do the client's variables.
LEMMA ClientInductive ==
  ASSUME PipelineTypes, [PipelineNext]_vars
  PROVE  ClientOK'
<1> USE PipelineAssumption DEF ClientOK
<1>1. ClientOK /\ TypeOK
  BY DEF PipelineTypes
<1>2. CASE BackendStep
  <2>1. missed' \subseteq Ids
    <3>1. /\ nextId \in Ids => missed \cup {nextId} \subseteq Ids
          /\ missed \cup Live \subseteq Ids
          /\ \A c \in unpublished : missed \cup {c.id} \subseteq Ids
          /\ missed \cup {c.id : c \in unpublished} \subseteq Ids
      BY <1>1, IdsOfChanges DEF Live
    <3> QED  BY <1>1, <1>2, <3>1 DEF BackendStep, PublishChange, SeedItem
  <2> QED  BY <1>1, <1>2, <2>1 DEF BackendStep, OtherThanMissed
<1>3. CASE ListItems
  <2>1. \A i \in Live : i \in Ids /\ items[i] \in Names
    BY <1>1 DEF Live, TypeOK
  <2> QED  BY <1>1, <1>3, <2>1 DEF ListItems
<1>4. CASE ListItemsFails \/ OpenStreamFails \/ Retry \/ DatabaseDown \/ DatabaseUp
  BY <1>1, <1>4 DEF ListItemsFails, OpenStreamFails, Retry, DatabaseDown, DatabaseUp
<1>5. CASE Reconcile \/ ReconcileFails
  BY <1>1, <1>5 DEF Reconcile, ReconcileFails, NoSnapshot
<1>6. CASE \E s \in Streams : OpenStream(s)
  BY <1>1, <1>6 DEF OpenStream
<1>7. CASE RecvEvent
  <2>1. stream \in Streams
    BY <1>1, <1>7 DEF RecvEvent
  <2>2. wire[stream] \in Seq(Event) /\ wire[stream] # <<>>
    BY <1>1, <1>7, <2>1 DEF RecvEvent, Recv, TypeOK
  <2>3. Head(wire[stream]) \in Event
    BY <2>2
  <2> QED  BY <1>1, <1>7, <2>3 DEF RecvEvent
<1>8. CASE RecvError
  BY <1>1, <1>8 DEF RecvError
<1>9. CASE Persist \/ PersistFails
  <2>1. current.id \in Ids
    BY <1>1, <1>9, InHand DEF Persist, PersistFails, Event
  <2>2. missed' \subseteq Ids
    BY <1>1, <1>9, <2>1 DEF Persist, PersistFails, Ingest
  <2> QED  BY <1>1, <1>9, <2>2 DEF Persist, PersistFails
<1>10. CASE AnalyticsRestart
  BY <1>1, <1>10 DEF AnalyticsRestart, NoSnapshot
<1>11. CASE UNCHANGED vars
  BY <1>1, <1>11 DEF vars, clientVars
<1> QED
  BY <1>2, <1>3, <1>4, <1>5, <1>6, <1>7, <1>8, <1>9, <1>10, <1>11
     DEF PipelineNext, ClientStep

\* The types, and with them the backend's invariants, hold in every step.
LEMMA TypesInductive ==
  ASSUME PipelineTypes, BackendInv, [PipelineNext]_vars
  PROVE  PipelineTypes' /\ BackendInv'
<1>1. BackendInv' /\ TypeOK'
  BY TypesImply, BackendInductive DEF BackendInv
<1>2. dbUp' \in BOOLEAN
  <2>1. dbUp' = dbUp \/ dbUp' = TRUE \/ dbUp' = FALSE
    BY DEF PipelineNext, BackendStep, OtherThanMissed, ClientStep, ListItems, ListItemsFails,
       Reconcile, ReconcileFails, OpenStream, OpenStreamFails, RecvEvent, RecvError,
       Persist, PersistFails, Retry, AnalyticsRestart, DatabaseDown, DatabaseUp,
       vars, clientVars
  <2>2. dbUp \in BOOLEAN
    BY DEF PipelineTypes
  <2> QED  BY <2>1, <2>2, Zenon
<1> QED
  BY <1>1, <1>2, TablesInductive, ClientInductive DEF PipelineTypes

\* Initially they hold, too.
LEMMA TypesInitially == PipelineInit => PipelineTypes /\ BackendInv
<1> SUFFICES ASSUME PipelineInit PROVE PipelineTypes /\ BackendInv
  OBVIOUS
<1>1. TypeOK
  BY BackendAssumption DEF PipelineInit, Init, TypeOK, Ids
<1>2. StreamInv
  BY BackendAssumption DEF PipelineInit, Init, StreamInv, StreamAt, QueueAt
<1>3. CommitInv
  BY DEF PipelineInit, Init, CommitInv, OneEventPerCommit, EmitAfterCommit,
         PendingCommitted, PendingDistinct, UnusedIdsFree
<1>4. ClientOK
  BY DEF PipelineInit, ClientOK, NoSnapshot
<1>5. TablesOK(tables)
  BY FS_EmptySet DEF PipelineInit, EmptyTables, TablesOK
<1>6. dbUp \in BOOLEAN
  BY DEF PipelineInit
<1> QED
  BY <1>1, <1>2, <1>3, <1>4, <1>5, <1>6 DEF PipelineTypes, BackendInv

\* The types, the log and queue invariants and the commit invariants of the
\* backend hold although its only peer is this client.
THEOREM PipelineInvariant == PipelineSpec => [](PipelineTypes /\ BackendInv)
<1>1. PipelineTypes /\ BackendInv /\ [PipelineNext]_vars => (PipelineTypes /\ BackendInv)'
  BY TypesInductive
<1> QED
  BY <1>1, TypesInitially, PTL DEF PipelineSpec

\* Every step of the backend, the client and the network keeps the types, and
\* the client has a stream exactly while it receives or persists, and an
\* event in hand exactly while it persists (client.go cycle).
THEOREM PipelineTypeCorrect == PipelineSpec => []PipelineTypeOK
  BY PipelineInvariant, TypesImply, PTL

\* The backend keeps its four promises about streams and commits to this
\* client too, which opens one call after the other and dies with them.
THEOREM BackendKeepsPromises ==
  PipelineSpec => []( /\ NoGapWhileSubscribed
                      /\ SentinelEndsEvictedStream
                      /\ OneEventPerCommit
                      /\ EmitAfterCommit )
<1>1. BackendInv => /\ NoGapWhileSubscribed /\ SentinelEndsEvictedStream
                    /\ OneEventPerCommit /\ EmitAfterCommit
  BY StreamsHaveNoGap, StreamsAreSealed DEF BackendInv, CommitInv
<1> QED
  BY <1>1, PipelineInvariant, PTL

-----------------------------------------------------------------------------
(* Broadcaster and handlers are an EventFeed.                              *)

\* What an evicted stream still has in its queue before the sentinel is the
\* log after the one event that publish() dropped.
RestAt(s) ==
    handler[s] = "running" /\ s \notin subscribers =>
      /\ owed[s] + Len(queue[s]) <= Len(published)
      /\ \A k \in 1..(Len(queue[s]) - 1) : queue[s][k] = published[owed[s] + k]

RestInv == \A s \in Streams : RestAt(s)

\* A stream that a step does not touch keeps it ...
LEMMA RestUntouched ==
  ASSUME NEW s \in Streams, RestAt(s),
         UNCHANGED <<published, queue[s], handler[s], owed[s]>>,
         (s \in subscribers') <=> (s \in subscribers)
  PROVE  RestAt(s)'
  BY DEF RestAt

\* ... and so does publish(), which evicts a stream when its queue, a stretch
\* of the log, is full: the oldest event goes, the others stay.
LEMMA PublishKeepsRest ==
  ASSUME TypeOK, NEW s \in Streams, StreamAt(s), RestAt(s),
         NEW c \in unpublished, Publish(c)
  PROVE  RestAt(s)'
<1> USE BackendAssumption
<1>1. PICK e \in Event :
        /\ published' = Append(published, e)
        /\ queue' = [t \in Streams |-> IF t \in subscribers THEN Offer(queue[t], e)
                                                            ELSE queue[t]]
  <2>1. PICK now \in {clock + d : d \in Ticks} :
          LET e == [type |-> c.type, id |-> c.id, name |-> c.name, time |-> now]
          IN  /\ published' = Append(published, e)
              /\ queue' = [t \in Streams |-> IF t \in subscribers THEN Offer(queue[t], e)
                                                                  ELSE queue[t]]
    BY DEF Publish
  <2> DEFINE e == [type |-> c.type, id |-> c.id, name |-> c.name, time |-> now]
  <2>2. e \in Event
    BY DEF TypeOK, Change, Event
  <2> QED  BY <2>1, <2>2
<1>2. /\ UNCHANGED <<handler, owed>> /\ subscribers' = subscribers \ Evicted
      /\ queue[s] \in Seq(Event \cup {DISCONNECT}) /\ published \in Seq(Event)
      /\ owed[s] \in Nat \ {0}
  BY DEF Publish, TypeOK
<1>3. /\ Len(published') = Len(published) + 1 /\ Len(published) \in Nat
      /\ \A k \in 1..Len(published) : published'[k] = published[k]
  BY <1>1, <1>2
<1>4. CASE s \notin subscribers
  <2>1. queue'[s] = queue[s] /\ s \notin subscribers' /\ Len(queue[s]) \in Nat
    BY <1>1, <1>2, <1>4
  <2>2. ASSUME handler[s] = "running", NEW k \in 1..(Len(queue[s]) - 1)
        PROVE  queue[s][k] = published'[owed[s] + k]
    <3>1. /\ owed[s] + Len(queue[s]) <= Len(published)
          /\ queue[s][k] = published[owed[s] + k]
      BY <1>4, <2>2 DEF RestAt
    <3>2. \A n, m, o \in Nat : \A j \in 1..(n - 1) : o + n <= m => o + j \in 1..m
      OBVIOUS
    <3>3. owed[s] + k \in 1..Len(published)
      BY <1>2, <1>3, <2>1, <3>1, <3>2
    <3> QED  BY <1>3, <3>1, <3>3
  <2>3. handler[s] = "running" => owed[s] + Len(queue[s]) <= Len(published')
    BY <1>2, <1>3, <1>4, <2>1 DEF RestAt
  <2> QED  BY <1>2, <2>1, <2>2, <2>3 DEF RestAt
<1>5. CASE s \in subscribers /\ ~Full(queue[s])
  <2>1. s \in subscribers'
    BY <1>2, <1>5 DEF Evicted
  <2> QED  BY <2>1 DEF RestAt
<1>6. CASE s \in subscribers /\ Full(queue[s])
  <2> DEFINE q == queue[s]
             t == Tail(q)
  <2>1. LogAt(s) /\ Len(q) \in Nat \ {0} /\ q # <<>>
    BY <1>2, <1>6 DEF StreamAt, Full
  <2>2. /\ t \in Seq(Event \cup {DISCONNECT}) /\ Len(t) = Len(q) - 1
        /\ \A k \in 1..Len(t) : t[k] = q[k + 1]
    BY <1>2, <2>1
  <2>3. queue'[s] = Append(t, DISCONNECT)
    BY <1>1, <1>6 DEF Offer
  <2>4. owed[s] + Len(q) = Len(published) + 1 /\ Stretch(q, published, owed[s])
    BY <2>1 DEF LogAt
  <2> HIDE DEF t, q
  <2>5. /\ Len(queue'[s]) = Len(q)
        /\ \A k \in 1..(Len(q) - 1) : queue'[s][k] = q[k + 1]
    BY <2>1, <2>2, <2>3
  <2>6. ASSUME NEW k \in 1..(Len(q) - 1)
        PROVE  queue'[s][k] = published'[owed[s] + k]
    <3>1. /\ k + 1 \in 1..Len(q) /\ owed[s] + k \in 1..Len(published)
          /\ owed[s] + (k + 1) - 1 = owed[s] + k
      <4>1. Len(q) \in Nat /\ Len(published) \in Nat /\ owed[s] \in Nat /\ k \in Nat
        BY <1>2, <1>3, <2>1
      <4>2. owed[s] + Len(q) = Len(published) + 1 /\ 1 <= k /\ k <= Len(q) - 1
        BY <2>1, <2>4
      <4>3. \A n, m, o, j \in Nat : o + n = m + 1 /\ 1 <= j /\ j <= n - 1 =>
              j + 1 \in 1..n /\ o + j \in 1..m /\ o + (j + 1) - 1 = o + j
        OBVIOUS
      <4> QED  BY <4>1, <4>2, <4>3
    <3>2. q[k + 1] = published[owed[s] + (k + 1) - 1]
      BY <2>4, <3>1 DEF Stretch
    <3> QED  BY <1>3, <2>5, <3>1, <3>2
  <2>7. owed[s] + Len(q) <= Len(published')
    BY <1>3, <2>4
  <2> QED  BY <1>2, <2>5, <2>6, <2>7 DEF RestAt
<1> QED
  BY <1>4, <1>5, <1>6

\* Sending an event takes it off the queue and moves the position by one.
LEMMA YieldKeepsRest ==
  ASSUME TypeOK, NEW s \in Streams, RestAt(s), Yield(s)
  PROVE  RestAt(s)'
<1> DEFINE q == queue[s]
<1>1. /\ UNCHANGED <<published, handler, subscribers>>
      /\ q \in Seq(Event \cup {DISCONNECT}) /\ q # <<>> /\ owed[s] \in Nat
      /\ queue'[s] = Tail(q) /\ owed'[s] = owed[s] + 1 /\ Len(published) \in Nat
  BY DEF Yield, TypeOK, logVars
<1>2. CASE handler[s] = "running" /\ s \notin subscribers
  <2>1. /\ owed[s] + Len(q) <= Len(published)
        /\ \A k \in 1..(Len(q) - 1) : q[k] = published[owed[s] + k]
    BY <1>2 DEF RestAt
  <2> HIDE DEF q
  <2>2. /\ Len(q) \in Nat /\ Len(queue'[s]) = Len(q) - 1
        /\ \A k \in 1..(Len(q) - 1) : queue'[s][k] = q[k + 1]
    BY <1>1
  <2>3. ASSUME NEW k \in 1..(Len(queue'[s]) - 1)
        PROVE  queue'[s][k] = published[owed'[s] + k]
    <3>1. /\ k \in 1..(Len(q) - 1) /\ k + 1 \in 1..(Len(q) - 1)
          /\ owed[s] + (k + 1) = owed'[s] + k
      BY <1>1, <2>2
    <3> QED  BY <2>1, <2>2, <3>1
  <2>4. owed'[s] + Len(queue'[s]) <= Len(published)
    BY <1>1, <2>1, <2>2
  <2> QED  BY <1>1, <2>3, <2>4 DEF RestAt
<1>3. CASE ~(handler[s] = "running" /\ s \notin subscribers)
  BY <1>1, <1>3 DEF RestAt
<1> QED
  BY <1>2, <1>3

\* It is kept by every step of the backend, and by what a client does to it.
LEMMA RestInductive ==
  ASSUME TypeOK, StreamInv, RestInv,
         [Next]_backendVars \/ FaultOnly \/ \E s \in Streams : Cut(s)
  PROVE  RestInv'
<1> SUFFICES ASSUME NEW s \in Streams PROVE RestAt(s)'
  BY DEF RestInv
<1>1. RestAt(s) /\ StreamAt(s)
  BY DEF RestInv, StreamInv
<1>2. ASSUME UNCHANGED <<published, subscribers, queue, handler, owed>>
      PROVE  RestAt(s)'
  BY <1>1, <1>2, RestUntouched
<1>3. CASE Request \/ UNCHANGED backendVars \/ FaultOnly \/ \E t \in Streams : Cut(t)
  BY <1>2, <1>3 DEF Request, CreateItem, SeedItem, DeleteItem, ResetItems,
                    backendVars, logVars, streamVars, FaultOnly, Cut
<1>4. ASSUME NEW c \in unpublished, Publish(c) PROVE RestAt(s)'
  BY <1>1, <1>4, PublishKeepsRest
<1>5. ASSUME NEW t \in Streams, Yield(t) PROVE RestAt(s)'
  <2>1. CASE t # s
    BY <1>1, <1>5, <2>1, RestUntouched DEF Yield, TypeOK, logVars
  <2> QED  BY <1>1, <1>5, <2>1, YieldKeepsRest
<1>6. ASSUME NEW t \in Streams, OpenWatch(t) \/ Subscribe(t) \/ Leave(t) PROVE RestAt(s)'
  <2>1. CASE t # s
    BY <1>1, <1>6, <2>1, RestUntouched DEF OpenWatch, Subscribe, Leave, TypeOK, logVars
  <2>2. CASE t = s
    BY <1>6, <2>2 DEF OpenWatch, Subscribe, Leave, TypeOK, RestAt
  <2> QED  BY <2>1, <2>2
<1>7. ASSUME NEW t \in Streams, Recv(t) \/ CloseWatch(t) \/ LinkDrop(t) PROVE RestAt(s)'
  BY <1>2, <1>7 DEF Recv, CloseWatch, LinkDrop, logVars
<1>8. CASE BackendRestart
  BY <1>8 DEF BackendRestart, RestAt
<1> QED
  BY <1>3, <1>4, <1>5, <1>6, <1>7, <1>8
     DEF Next, HandlerStep, Watcher, EndStream, CancelHandler

\* The state of the feed that a state of the backend stands for.
Dues == [s \in Streams |-> Due(s)]
Ups  == {s \in Streams : link[s] = "up"}

\* A step that changes what is due to one stream.
LEMMA DueChanges ==
  ASSUME NEW s \in Streams, NEW d, Due(s)' = d,
         \A t \in Streams : t # s => Due(t)' = Due(t)
  PROVE  Dues' = [Dues EXCEPT ![s] = d]
  BY DEF Dues

\* A step that leaves a stream alone leaves what is due to it.
LEMMA DueUntouched ==
  ASSUME NEW s \in Streams,
         UNCHANGED <<published, queue[s], handler[s], owed[s]>>,
         (s \in subscribers') <=> (s \in subscribers)
  PROVE  Due(s)' = Due(s)
  BY DEF Due

\* publish() is Emit, and the feed parts with the streams whose queue is full.
LEMMA PublishRefines ==
  ASSUME TypeOK, StreamInv, NEW c \in unpublished, Publish(c)
  PROVE  Feed!Emit
<1> USE BackendAssumption
<1>1. PICK e \in Event :
        /\ published' = Append(published, e)
        /\ queue' = [t \in Streams |-> IF t \in subscribers THEN Offer(queue[t], e)
                                                            ELSE queue[t]]
  <2>1. PICK now \in {clock + d : d \in Ticks} :
          LET e == [type |-> c.type, id |-> c.id, name |-> c.name, time |-> now]
          IN  /\ published' = Append(published, e)
              /\ queue' = [t \in Streams |-> IF t \in subscribers THEN Offer(queue[t], e)
                                                                  ELSE queue[t]]
    BY DEF Publish
  <2> DEFINE e == [type |-> c.type, id |-> c.id, name |-> c.name, time |-> now]
  <2>2. e \in Event
    BY DEF TypeOK, Change, Event
  <2> QED  BY <2>1, <2>2
<1>2. /\ UNCHANGED <<handler, owed, link, wire>> /\ subscribers' = subscribers \ Evicted
      /\ published \in Seq(Event) /\ Evicted \subseteq subscribers
  BY DEF Publish, TypeOK, Evicted
<1>3. /\ Len(published') = Len(published) + 1 /\ Len(published) \in Nat
      /\ published' = Append(published, published'[Len(published')])
  BY <1>1, <1>2
<1>4. ASSUME NEW s \in Streams, s \in Evicted
      PROVE  /\ Due(s).live /\ Due(s).from <= Due(s).to
             /\ Due(s)' = [from |-> Due(s).from + 1, to |-> Due(s).to, live |-> FALSE]
  <2> DEFINE q == queue[s]
  <2>1. /\ s \in subscribers /\ Full(q) /\ handler[s] = "running" /\ s \notin subscribers'
        /\ owed[s] + Len(q) = Len(published) + 1
        /\ q \in Seq(Event \cup {DISCONNECT}) /\ owed[s] \in Nat
    BY <1>2, <1>4 DEF Evicted, StreamInv, StreamAt, QueueAt, LogAt, TypeOK
  <2>2. queue'[s] = Append(Tail(q), DISCONNECT)
    BY <1>1, <2>1 DEF Offer
  <2>3. Len(q) \in Nat \ {0} /\ q # <<>>
    BY <2>1 DEF Full
  <2>4. Len(queue'[s]) = Len(q)
    BY <2>1, <2>2, <2>3
  <2>5. Due(s) = [from |-> owed[s], to |-> Len(published), live |-> TRUE]
    BY <2>1 DEF Due
  <2>6. Due(s)' = [from |-> owed[s] + 1, to |-> owed[s] + Len(q) - 1, live |-> FALSE]
    BY <1>2, <2>1, <2>4 DEF Due
  <2>7. owed[s] + Len(q) - 1 = Len(published) /\ owed[s] <= Len(published)
    <3>1. \A n \in Nat \ {0} : \A m, o \in Nat :
            o + n = m + 1 => o + n - 1 = m /\ o <= m
      OBVIOUS
    <3> QED  BY <1>3, <2>1, <2>3, <3>1
  <2>8. Due(s).live
    BY <2>5
  <2>9. Due(s).from = owed[s] /\ Due(s).to = Len(published)
    BY <2>5
  <2> QED  BY <2>6, <2>7, <2>8, <2>9
<1>5. ASSUME NEW s \in Streams, s \notin Evicted
      PROVE  Due(s)' = IF Due(s).live THEN [Due(s) EXCEPT !.to = @ + 1] ELSE Due(s)
  <2>1. CASE s \in subscribers
    <3>1. handler[s] = "running" /\ s \in subscribers'
      BY <1>2, <1>5, <2>1 DEF StreamInv, StreamAt, QueueAt
    <3> QED  BY <1>2, <1>3, <2>1, <3>1 DEF Due
  <2>2. CASE s \notin subscribers
    <3>1. queue'[s] = queue[s] /\ s \notin subscribers'
      BY <1>1, <1>2, <2>2
    <3> QED  BY <1>2, <2>2, <3>1 DEF Due
  <2> QED  BY <2>1, <2>2
<1>6. Evicted \in SUBSET {s \in Streams : Dues[s].live /\ Dues[s].from <= Dues[s].to}
  BY <1>2, <1>4 DEF Dues, TypeOK
<1>7. Dues' = [s \in Streams |->
                 IF s \in Evicted
                 THEN [from |-> Dues[s].from + 1, to |-> Dues[s].to, live |-> FALSE]
                 ELSE IF Dues[s].live THEN [Dues[s] EXCEPT !.to = @ + 1] ELSE Dues[s]]
  BY <1>4, <1>5 DEF Dues
<1>8. UNCHANGED <<Ups, wire>>
  BY <1>2 DEF Ups
<1> QED
  BY <1>3, <1>6, <1>7, <1>8 DEF Feed!Emit, Feed!Lagging, Dues, Ups

\* The start of a call and of its handler are Open and Join.
LEMMA OpeningRefines ==
  ASSUME TypeOK, StreamInv, NEW s \in Streams
  PROVE  /\ OpenWatch(s) => Feed!Open(s)
         /\ Subscribe(s) => Feed!Join(s)
<1> USE DEF Ups
<1>1. ASSUME OpenWatch(s) PROVE Feed!Open(s)
  <2>1. Due(s) = [from |-> 1, to |-> 0, live |-> FALSE] /\ Due(s)' = Due(s)
    BY <1>1 DEF OpenWatch, TypeOK, Due
  <2>2. ASSUME NEW t \in Streams PROVE Due(t)' = Due(t)
    BY <1>1, <2>1, DueUntouched DEF OpenWatch, TypeOK, logVars
  <2>3. Dues' = Dues /\ Dues[s] = [from |-> 1, to |-> 0, live |-> FALSE]
    BY <2>1, <2>2 DEF Dues
  <2>4. Ups' = Ups \cup {s} /\ published' = published
    BY <1>1 DEF OpenWatch, TypeOK, logVars
  <2> QED  BY <1>1, <2>3, <2>4 DEF Feed!Open, Feed!Nothing, Dues, OpenWatch
<1>2. ASSUME Subscribe(s) PROVE Feed!Join(s)
  <2>1. /\ Due(s) = [from |-> 1, to |-> 0, live |-> FALSE]
        /\ Due(s)' = [from |-> Len(published) + 1, to |-> Len(published), live |-> TRUE]
    BY <1>2 DEF Subscribe, TypeOK, Due, logVars
  <2>2. ASSUME NEW t \in Streams, t # s PROVE Due(t)' = Due(t)
    BY <1>2, <2>2, DueUntouched DEF Subscribe, TypeOK, logVars
  <2>3. /\ Dues[s] = [from |-> 1, to |-> 0, live |-> FALSE]
        /\ Dues' = [Dues EXCEPT ![s] = [from |-> Len(published) + 1, to |-> Len(published),
                                        live |-> TRUE]]
    BY <2>1, <2>2, DueChanges DEF Dues
  <2>4. /\ s \in Ups /\ Ups' = Ups /\ UNCHANGED <<published, wire>>
        /\ wire[s] = <<>>
    BY <1>2 DEF Subscribe, TypeOK, logVars, StreamInv, StreamAt
  <2> QED  BY <2>3, <2>4 DEF Feed!Join, Feed!Nothing, Feed!All, Dues
<1> QED
  BY <1>1, <1>2

\* One of the events that are due is sent.
LEMMA OneSent ==
  ASSUME NEW d, NEW a \in Int, NEW b \in Int, NEW l \in BOOLEAN, d = [from |-> a, to |-> b, live |-> l]
  PROVE  [d EXCEPT !.from = @ + 1] = [from |-> a + 1, to |-> b, live |-> l]
  OBVIOUS

\* A handler that yields sends what is due, before or after an eviction.
LEMMA YieldRefines ==
  ASSUME TypeOK, StreamInv, RestInv, NEW s \in Streams, Yield(s)
  PROVE  Feed!Send(s)
<1> DEFINE q == queue[s]
<1>1. /\ UNCHANGED <<published, handler, subscribers, link>>
      /\ handler[s] = "running" /\ link[s] = "up"
      /\ q \in Seq(Event \cup {DISCONNECT}) /\ q # <<>> /\ Head(q) # DISCONNECT
      /\ wire' = [wire EXCEPT ![s] = Append(@, Head(q))]
      /\ queue'[s] = Tail(q) /\ owed'[s] = owed[s] + 1 /\ owed[s] \in Nat \ {0}
      /\ published \in Seq(Event)
  BY DEF Yield, TypeOK, logVars
<1>2. /\ Len(q) \in Nat \ {0} /\ Len(queue'[s]) = Len(q) - 1 /\ Head(q) = q[1]
      /\ Len(published) \in Nat
  BY <1>1
<1>3. ASSUME NEW t \in Streams, t # s PROVE Due(t)' = Due(t)
  BY <1>3, DueUntouched DEF Yield, TypeOK, logVars
<1>4. StreamAt(s) /\ RestAt(s)
  BY DEF StreamInv, RestInv
<1>5. /\ Due(s).from <= Due(s).to
      /\ Head(q) = published[Due(s).from]
      /\ Due(s)' = [Due(s) EXCEPT !.from = @ + 1]
  <2>1. CASE s \in subscribers
    <3>1. LogAt(s)
      BY <1>4, <2>1 DEF StreamAt
    <3>2. Head(q) = published[owed[s]] /\ owed[s] <= Len(published)
      BY <1>1, <3>1, StretchTail DEF LogAt
    <3>3. Due(s) = [from |-> owed[s], to |-> Len(published), live |-> TRUE]
      BY <1>1, <2>1 DEF Due
    <3>4. Due(s)' = [from |-> owed[s] + 1, to |-> Len(published), live |-> TRUE]
      BY <1>1, <2>1 DEF Due
    <3>5. Due(s).from = owed[s] /\ Due(s).to = Len(published)
      BY <3>3
    <3>6. Due(s)' = [Due(s) EXCEPT !.from = @ + 1]
      <4> DEFINE d == Due(s)
                 a == owed[s]
                 b == Len(published)
                 l == TRUE
      <4>1. a \in Int /\ b \in Int /\ l \in BOOLEAN
        BY <1>1, <1>2
      <4>2. d = [from |-> a, to |-> b, live |-> l]
        BY <3>3
      <4>3. Due(s)' = [from |-> a + 1, to |-> b, live |-> l]
        BY <3>4
      <4> HIDE DEF d, a, b, l
      <4>4. [d EXCEPT !.from = @ + 1] = [from |-> a + 1, to |-> b, live |-> l]
        BY <4>1, <4>2, OneSent
      <4> QED  BY <4>3, <4>4 DEF d
    <3> QED  BY <3>2, <3>5, <3>6
  <2>2. CASE s \notin subscribers
    <3>1. Sealed(q)
      BY <1>1, <1>4, <2>2 DEF StreamAt, QueueAt
    <3>2. Len(q) # 1
      <4>1. \A n \in Nat \ {0} : 1 \in 1..n
        OBVIOUS
      <4>2. 1 \in 1..Len(q)
        BY <1>2, <4>1
      <4>3. q[1] = DISCONNECT <=> 1 = Len(q)
        BY <3>1, <4>2 DEF Sealed
      <4>4. q[1] # DISCONNECT
        BY <1>1, <1>2
      <4> QED  BY <4>3, <4>4
    <3>3. 1 \in 1..(Len(q) - 1)
      <4>1. \A n \in Nat \ {0} : n # 1 => 1 \in 1..(n - 1)
        OBVIOUS
      <4> QED  BY <1>2, <3>2, <4>1
    <3>4. q[1] = published[owed[s] + 1]
      BY <1>1, <1>4, <2>2, <3>3 DEF RestAt
    <3>5. Due(s) = [from |-> owed[s] + 1, to |-> owed[s] + Len(q) - 1, live |-> FALSE]
      BY <1>1, <2>2 DEF Due
    <3>6. Due(s)' = [from |-> owed'[s] + 1, to |-> owed'[s] + Len(queue'[s]) - 1, live |-> FALSE]
      BY <1>1, <2>2 DEF Due
    <3>7. /\ owed'[s] + 1 = (owed[s] + 1) + 1
          /\ owed'[s] + Len(queue'[s]) - 1 = owed[s] + Len(q) - 1
          /\ owed[s] + 1 <= owed[s] + Len(q) - 1
      <4>1. \A n \in Nat \ {0} : \A o \in Nat : n # 1 =>
              /\ (o + 1) + (n - 1) - 1 = o + n - 1
              /\ o + 1 <= o + n - 1
        OBVIOUS
      <4> QED  BY <1>1, <1>2, <3>2, <4>1
    <3>8. Due(s).from = owed[s] + 1 /\ Due(s).to = owed[s] + Len(q) - 1
      BY <3>5
    <3>9. Due(s)' = [from |-> (owed[s] + 1) + 1, to |-> owed[s] + Len(q) - 1, live |-> FALSE]
      BY <3>6, <3>7, Zenon
    <3>10. Due(s)' = [Due(s) EXCEPT !.from = @ + 1]
      <4> DEFINE d == Due(s)
                 a == owed[s] + 1
                 b == owed[s] + Len(q) - 1
      <4>1. a \in Int /\ b \in Int
        <5>1. \A n \in Nat \ {0} : \A o \in Nat \ {0} : o + 1 \in Int /\ o + n - 1 \in Int
          OBVIOUS
        <5> QED  BY <1>1, <1>2, <5>1
      <4>2. d = [from |-> a, to |-> b, live |-> FALSE]
        BY <3>5
      <4>3. Due(s)' = [from |-> a + 1, to |-> b, live |-> FALSE]
        BY <3>9
      <4> HIDE DEF d, a, b
      <4>4. [d EXCEPT !.from = @ + 1] = [from |-> a + 1, to |-> b, live |-> FALSE]
        BY <4>1, <4>2, OneSent
      <4> QED  BY <4>3, <4>4 DEF d
    <3> QED  BY <1>2, <3>4, <3>7, <3>8, <3>10
  <2> QED  BY <2>1, <2>2
<1>6. /\ Dues[s].from <= Dues[s].to
      /\ Dues' = [Dues EXCEPT ![s].from = @ + 1]
      /\ wire' = [wire EXCEPT ![s] = Append(@, published[Dues[s].from])]
  <2>1. Dues' = [Dues EXCEPT ![s] = [Due(s) EXCEPT !.from = @ + 1]]
    BY <1>3, <1>5, DueChanges
  <2>2. Dues[s] = Due(s)
    BY DEF Dues
  <2> QED  BY <1>1, <1>5, <2>1, <2>2
<1>7. s \in Ups /\ UNCHANGED <<published, Ups>>
  BY <1>1 DEF Ups
<1> QED
  BY <1>6, <1>7 DEF Feed!Send, Dues, Ups

\* A handler that ends has seen the sentinel, after everything else in its
\* queue, or the end of its connection.
LEMMA EndRefines ==
  ASSUME TypeOK, StreamInv, NEW s \in Streams, EndStream(s) \/ CancelHandler(s)
  PROVE  Feed!End(s)
<1>1. /\ Leave(s) /\ UNCHANGED <<published, wire, link>>
      /\ handler'[s] = "done" /\ queue[s] \in Seq(Event \cup {DISCONNECT})
      /\ owed[s] \in Nat
  BY DEF EndStream, CancelHandler, Leave, TypeOK, logVars
<1>2. Dues' = [Dues EXCEPT ![s] = [from |-> 1, to |-> 0, live |-> FALSE]]
  <2>1. ASSUME NEW t \in Streams, t # s PROVE Due(t)' = Due(t)
    BY <1>1, <2>1, DueUntouched DEF Leave, TypeOK, logVars
  <2>2. Due(s)' = [from |-> 1, to |-> 0, live |-> FALSE]
    BY <1>1 DEF Due
  <2> QED  BY <2>1, <2>2, DueChanges
<1>3. ASSUME link[s] = "up"
      PROVE  ~Due(s).live /\ Due(s).from > Due(s).to
  <2>1. /\ handler[s] = "running" /\ queue[s] # <<>> /\ Head(queue[s]) = DISCONNECT
        /\ QueueAt(s)
    BY <1>3 DEF EndStream, CancelHandler, StreamInv, StreamAt
  <2>2. queue[s][1] = DISCONNECT /\ 1 \in 1..Len(queue[s])
    BY <1>1, <2>1
  <2>3. s \notin subscribers /\ Sealed(queue[s])
    BY <2>1, <2>2 DEF QueueAt, Clean
  <2>4. Len(queue[s]) = 1
    BY <2>2, <2>3 DEF Sealed
  <2>5. Due(s) = [from |-> owed[s] + 1, to |-> owed[s] + 1 - 1, live |-> FALSE]
    BY <2>1, <2>3, <2>4 DEF Due
  <2>6. ~Due(s).live
    BY <2>5
  <2>7. Due(s).from > Due(s).to
    BY <1>1, <2>5
  <2> QED  BY <2>6, <2>7
<1>4. s \in Ups => ~Dues[s].live /\ Dues[s].from > Dues[s].to
  BY <1>3 DEF Ups, Dues
<1>5. UNCHANGED <<published, Ups, wire>>
  BY <1>1 DEF Ups
<1> QED
  BY <1>2, <1>4, <1>5 DEF Feed!End, Feed!Nothing, Dues, Ups

\* Reading from the stream is Take; closing it, or losing it, is Cut.
LEMMA PeerRefines ==
  ASSUME TypeOK, NEW s \in Streams
  PROVE  /\ Recv(s) => Feed!Take(s)
         /\ CloseWatch(s) \/ LinkDrop(s) \/ Cut(s) => Feed!Cut(s)
<1>1. ASSUME UNCHANGED <<published, subscribers, queue, handler, owed>>
      PROVE  Dues' = Dues
  BY <1>1, DueUntouched DEF Dues
<1>2. ASSUME Recv(s) PROVE Feed!Take(s)
  <2>1. UNCHANGED <<published, Dues, Ups>>
    BY <1>1, <1>2 DEF Recv, logVars, Ups
  <2> QED  BY <1>2, <2>1 DEF Recv, Feed!Take, Dues, Ups
<1>3. ASSUME CloseWatch(s) \/ LinkDrop(s) \/ Cut(s) PROVE Feed!Cut(s)
  <2>1. UNCHANGED <<published, Dues>>
    BY <1>1, <1>3 DEF CloseWatch, LinkDrop, Cut, logVars
  <2>2. Ups' = Ups \ {s}
    BY <1>3 DEF CloseWatch, LinkDrop, Cut, Ups, TypeOK
  <2>3. wire[s] \in Seq(Event)
    BY DEF TypeOK
  <2>4. SubSeq(wire[s], 1, 0) = <<>> /\ 0 \in 0..Len(wire[s])
    BY <2>3
  <2>5. \E n \in 0..Len(wire[s]) : wire' = [wire EXCEPT ![s] = SubSeq(@, 1, n)]
    <3>1. CASE LinkDrop(s)
      BY <3>1 DEF LinkDrop
    <3>2. CASE CloseWatch(s) \/ Cut(s)
      <4>1. wire' = [wire EXCEPT ![s] = SubSeq(@, 1, 0)]
        BY <3>2, <2>4 DEF CloseWatch, Cut
      <4> QED  BY <2>4, <4>1
    <3> QED  BY <1>3, <3>1, <3>2
  <2> QED  BY <2>1, <2>2, <2>5 DEF Feed!Cut, Dues, Ups
<1> QED
  BY <1>2, <1>3

\* Every step maps to a step of the feed or to none.
LEMMA StepRefinesFeed ==
  ASSUME TypeOK, StreamInv, RestInv,
         [Next]_backendVars \/ FaultOnly \/ \E s \in Streams : Cut(s)
  PROVE  Feed!Next \/ UNCHANGED <<published, Dues, Ups, wire>>
<1>1. CASE Request \/ FaultOnly \/ UNCHANGED backendVars
  <2>1. UNCHANGED <<published, subscribers, queue, handler, link, wire, owed>>
    BY <1>1 DEF Request, CreateItem, SeedItem, DeleteItem, ResetItems, FaultOnly,
                backendVars, logVars, streamVars
  <2>2. Dues' = Dues
    BY <2>1, DueUntouched DEF Dues
  <2> QED  BY <2>1, <2>2 DEF Ups
<1>2. ASSUME NEW c \in unpublished, Publish(c) PROVE Feed!Next
  BY <1>2, PublishRefines DEF Feed!Next
<1>3. ASSUME NEW s \in Streams, HandlerStep(s) \/ Watcher(s) \/ LinkDrop(s) \/ Cut(s)
      PROVE  Feed!Next
  <2>1. Feed!Open(s) \/ Feed!Join(s) \/ Feed!Send(s) \/ Feed!Take(s) \/ Feed!End(s) \/ Feed!Cut(s)
    BY <1>3, OpeningRefines, YieldRefines, EndRefines, PeerRefines DEF HandlerStep, Watcher
  <2> QED  BY <2>1 DEF Feed!Next
<1>4. CASE BackendRestart
  <2>1. Dues' = [s \in Streams |-> [from |-> 1, to |-> 0, live |-> FALSE]]
    BY <1>4 DEF BackendRestart, Dues, Due
  <2>2. Ups' = {} /\ UNCHANGED <<published, wire>>
    BY <1>4 DEF BackendRestart, Ups, logVars
  <2>3. Feed!Crash
    BY <2>1, <2>2 DEF Feed!Crash, Feed!Nothing, Dues, Ups
  <2> QED  BY <2>3 DEF Feed!Next
<1> QED
  BY <1>1, <1>2, <1>3, <1>4 DEF Next

\* The initial state is that of a feed with no events and no calls.
LEMMA InitRefinesFeed == Init => Feed!Init /\ RestInv
<1>1. Init => RestInv
  BY DEF Init, RestInv, RestAt
<1>2. Init => Dues = [s \in Streams |-> [from |-> 1, to |-> 0, live |-> FALSE]] /\ Ups = {}
  BY DEF Init, Dues, Due, Ups
<1>3. Init => Feed!Init
  BY <1>2 DEF Init, Feed!Init, Feed!Nothing, Dues, Ups
<1> QED
  BY <1>1, <1>3

\* Whoever watches, broadcaster and handlers are an EventFeed: no gap while a
\* stream is subscribed, one lost event and the end once it was too slow, and
\* no other end over a connection that is up (events.py, grpc_server.py).
THEOREM BackendImplementsFeed == Spec => ImplementsEventFeed
<1>1. TypeOK /\ StreamInv /\ RestInv /\ [Next]_backendVars => RestInv'
  BY RestInductive
<1>2. TypeOK /\ StreamInv /\ RestInv /\ [Next]_backendVars => [Feed!Next]_(Feed!feedVars)
  BY StepRefinesFeed DEF Feed!feedVars, Dues, Ups
<1> QED
  BY <1>1, <1>2, InitRefinesFeed, TypeCorrect, StreamInvariant, PTL
     DEF Spec, ImplementsEventFeed, Feed!Spec

\* It is one for the ingest client too, which dies with its calls and opens
\* one after the other.
THEOREM PipelineImplementsFeed == PipelineSpec => ImplementsEventFeed
<1>1. ASSUME PipelineTypes, BackendInv, RestInv, [PipelineNext]_vars
      PROVE  /\ TypeOK /\ StreamInv /\ RestInv
             /\ [Next]_backendVars \/ FaultOnly \/ \E s \in Streams : Cut(s)
  BY <1>1, TypesImply, BackendView DEF BackendInv
<1>2. PipelineTypes /\ BackendInv /\ RestInv /\ [PipelineNext]_vars => RestInv'
  BY <1>1, RestInductive
<1>3. PipelineTypes /\ BackendInv /\ RestInv /\ [PipelineNext]_vars
        => [Feed!Next]_(Feed!feedVars)
  BY <1>1, StepRefinesFeed DEF Feed!feedVars, Dues, Ups
<1>4. PipelineInit => Feed!Init /\ RestInv
  BY InitRefinesFeed DEF PipelineInit
<1> QED
  BY <1>2, <1>3, <1>4, PipelineInvariant, PTL DEF PipelineSpec, ImplementsEventFeed, Feed!Spec

-----------------------------------------------------------------------------
(* Buckets.                                                                *)

\* The raw rows of bucket k.
RowsOf(t, k) == {r \in t.events : Bucket(r) = k}

\* Every bucket counts its raw rows.
Counted(t) ==
    /\ \A r \in t.events : Bucket(r) \in DOMAIN t.buckets
    /\ \A k \in DOMAIN t.buckets : t.buckets[k] = Cardinality(RowsOf(t, k))

\* IngestEvent inserts a row and counts it, or does neither.
LEMMA IngestCounts ==
  ASSUME NEW t, NEW e \in Event, TablesOK(t), Counted(t)
  PROVE  Counted(IngestEvent(t, e))
<1> DEFINE n == IngestEvent(t, e)
           b == Bucket(e)
<1>1. /\ n.events = t.events \cup {Key(e)}
      /\ n.buckets = IF Key(e) \in t.events THEN t.buckets ELSE BumpAll(t.buckets, {e})
  BY DEF IngestEvent
<1>2. Bucket(Key(e)) = b
  BY DEF Bucket, Key
<1>3. CASE Key(e) \in t.events
  <2>1. n.events = t.events /\ n.buckets = t.buckets
    BY <1>1, <1>3
  <2> QED  BY <2>1 DEF Counted, RowsOf
<1>4. CASE Key(e) \notin t.events
  <2>1. /\ DOMAIN n.buckets = DOMAIN t.buckets \cup {b}
        /\ \A x \in DOMAIN t.buckets : x # b => n.buckets[x] = t.buckets[x]
        /\ n.buckets[b] = CountIn(t.buckets, b) + 1
    <3>1. \A x \in DOMAIN t.buckets : t.buckets[x] \in Nat
      BY DEF TablesOK
    <3>2. n.buckets = BumpAll(t.buckets, {e})
      BY <1>1, <1>4
    <3>3. LET new == BumpAll(t.buckets, {e})
          IN  /\ DOMAIN new = DOMAIN t.buckets \cup {b}
              /\ \A x \in DOMAIN t.buckets : x # b => new[x] = t.buckets[x]
              /\ new[b] = CountIn(t.buckets, b) + 1
      BY <3>1, BumpOne, Zenon
    <3> HIDE DEF n, b
    <3> QED  BY <3>2, <3>3
  <2> HIDE DEF n, b
  <2>2. \A x : x # b => RowsOf(n, x) = RowsOf(t, x)
    BY <1>1, <1>2 DEF RowsOf
  <2>3. RowsOf(n, b) = RowsOf(t, b) \cup {Key(e)} /\ Key(e) \notin RowsOf(t, b)
    BY <1>1, <1>2, <1>4 DEF RowsOf
  <2>4. RowsOf(t, b) \subseteq t.events /\ IsFiniteSet(t.events)
    BY DEF RowsOf, TablesOK
  <2>5. IsFiniteSet(RowsOf(t, b))
    BY <2>4, FS_Subset
  <2>6. Cardinality(RowsOf(n, b)) = Cardinality(RowsOf(t, b)) + 1
    BY <2>3, <2>5, FS_AddElement
  <2>7. CountIn(t.buckets, b) = Cardinality(RowsOf(t, b))
    <3>1. CASE b \in DOMAIN t.buckets
      BY <3>1 DEF CountIn, Counted
    <3>2. CASE b \notin DOMAIN t.buckets
      <4>1. RowsOf(t, b) = {}
        BY <3>2 DEF RowsOf, Counted
      <4> QED  BY <3>2, <4>1, FS_EmptySet DEF CountIn
    <3> QED  BY <3>1, <3>2
  <2>8. ASSUME NEW r \in n.events PROVE Bucket(r) \in DOMAIN n.buckets
    BY <1>1, <1>2, <2>1 DEF Counted
  <2>9. ASSUME NEW k \in DOMAIN n.buckets PROVE n.buckets[k] = Cardinality(RowsOf(n, k))
    <3>1. CASE k = b
      BY <2>1, <2>6, <2>7, <3>1
    <3>2. CASE k # b
      BY <2>1, <2>2, <3>2 DEF Counted
    <3> QED  BY <3>1, <3>2
  <2>10. Counted(n)
    BY <2>8, <2>9 DEF Counted
  <2> QED  BY <2>10 DEF n
<1> QED
  BY <1>3, <1>4

\* Only a persist touches rows and buckets.
LEMMA CountsInductive ==
  ASSUME PipelineTypes, Counted(tables), [PipelineNext]_vars
  PROVE  Counted(tables')
<1>1. TablesOK(tables) /\ ClientOK
  BY DEF PipelineTypes
<1>2. ASSUME UNCHANGED tables PROVE Counted(tables')
  BY <1>2
<1>3. ASSUME pc = "reconcile", tables' = Reconciled PROVE Counted(tables')
  <2>1. clock + Skew \in Nat
    BY PipelineAssumption DEF PipelineTypes, TypeOK
  <2>2. DOMAIN snapshot \subseteq Ids /\ \A i \in DOMAIN snapshot : snapshot[i] \in Names
    BY <1>1 DEF ClientOK
  <2>3. Reconciled.events = tables.events /\ Reconciled.buckets = tables.buckets
    BY <1>1, <2>1, <2>2, ReconcileTables DEF Reconciled
  <2> QED  BY <1>3, <2>3 DEF Counted, RowsOf
<1>4. ASSUME pc = "persist", Ingest PROVE Counted(tables')
  <2>1. Counted(IngestEvent(tables, current))
    BY <1>1, <1>4, InHand, IngestCounts
  <2> QED  BY <1>4, <2>1 DEF Ingest
<1> QED
  BY <1>2, <1>3, <1>4, TablesStep

\* Buckets count every raw event exactly once, however often the client
\* repeats a persist whose commit it does not know of (current_items.go
\* IngestEvent).
THEOREM BucketsCountOnce == PipelineSpec => []BucketsCountRawEvents
<1>1. PipelineInit => Counted(tables)
  BY DEF PipelineInit, EmptyTables, Counted
<1>2. PipelineTypes /\ Counted(tables) /\ [PipelineNext]_vars => Counted(tables)'
  BY CountsInductive
<1>3. Counted(tables) => BucketsCountRawEvents
  BY DEF Counted, RowsOf, BucketsCountRawEvents
<1> QED
  BY <1>1, <1>2, <1>3, PipelineInvariant, PTL DEF PipelineSpec

-----------------------------------------------------------------------------
(* The client's position in the event log.                                 *)

\* The next event the client will take off the wire of a healthy stream.
Arrived == owed[stream] - Len(wire[stream])

\* The first event that is not in the tables yet for all the client knows:
\* the one in its hand, or the next to arrive.
First == IF current = NoEvent THEN Arrived ELSE Arrived - 1

\* What the client has in hand is that event.
InHandIsFirst ==
    Healthy /\ current # NoEvent =>
       First >= since[stream] /\ current = published[First]

\* A handler that has not subscribed yet has sent nothing.
StartingIdle == pc = "persist" => handler[stream] # "starting"

HandInv == InHandIsFirst /\ StartingIdle

\* The position lies between the subscription and the end of the log.
LEMMA FirstInLog ==
  ASSUME PipelineTypes, BackendInv, HandInv, Healthy
  PROVE  /\ stream \in Streams /\ since[stream] \in Nat \ {0}
         /\ First \in Nat \ {0} /\ Arrived \in Nat \ {0}
         /\ since[stream] <= First
         /\ First <= Arrived /\ Arrived <= Len(published) + 1
         /\ wire[stream] # <<>> => Head(wire[stream]) = published[Arrived]
         /\ wire[stream] # <<>> => Arrived <= Len(published)
<1>1. stream \in Streams /\ stream \in subscribers /\ link[stream] = "up"
  BY DEF Healthy, Attached, PipelineTypes, TypeOK
<1>2. WireAt(stream) /\ LogAt(stream)
  BY <1>1 DEF BackendInv, StreamInv, StreamAt
<1>3. /\ wire[stream] \in Seq(Event) /\ published \in Seq(Event)
      /\ queue[stream] \in Seq(Event \cup {DISCONNECT})
      /\ owed[stream] \in Nat \ {0} /\ since[stream] \in Nat \ {0}
  BY <1>1 DEF PipelineTypes, TypeOK
<1>4. Arrived >= since[stream] /\ Arrived \in Nat \ {0} /\ Arrived <= Len(published) + 1
  BY <1>2, <1>3 DEF WireAt, LogAt, Arrived
<1>5. First >= since[stream] /\ First \in Nat \ {0} /\ First <= Arrived
  BY <1>3, <1>4 DEF HandInv, InHandIsFirst, First
<1>6. ASSUME wire[stream] # <<>>
      PROVE  Head(wire[stream]) = published[Arrived] /\ Arrived <= Len(published)
  <2>1. Stretch(wire[stream], published, Arrived)
    BY <1>2 DEF WireAt, Arrived
  <2> QED  BY <1>3, <1>4, <1>6, <2>1, StretchTail
<1> QED
  BY <1>1, <1>3, <1>4, <1>5, <1>6

\* Taking one message shortens the wire by one.
LEMMA TailLength ==
  ASSUME NEW S, NEW q \in Seq(S), q # <<>>
  PROVE  Len(q) \in Nat /\ Len(Tail(q)) = Len(q) - 1
  OBVIOUS

\* How the position moves.  A stream becomes healthy when its handler
\* subscribes, with the client's hand and the wire empty, at the end of the
\* log; from then on only Recv and a successful persist move the client.
Begins ==
    /\ Subscribe(stream)
    /\ UNCHANGED clientVars
    /\ current = NoEvent
    /\ First' = Len(published) + 1
    /\ since'[stream] = Len(published) + 1

Stays == First' = First /\ current' = current

Receives ==
    /\ RecvEvent
    /\ First' = First
    /\ First = Arrived
    /\ current = NoEvent
    /\ current' = published[First]

Persists == Persist /\ First' = First + 1 /\ current' = NoEvent

Continues ==
    /\ Healthy
    /\ since'[stream] = since[stream]
    /\ Stays \/ Receives \/ Persists

\* Where the stream, its numbers and the event in hand are left alone.
LEMMA PositionKept ==
  ASSUME Healthy', UNCHANGED <<stream, current>>,
         UNCHANGED <<owed[stream], since[stream], wire[stream], link[stream]>>,
         stream \in subscribers
  PROVE  Continues
  BY DEF Continues, Stays, First, Arrived, Healthy, Attached

\* A healthy stream began with this step, or it was healthy before.
LEMMA HealthySteps ==
  ASSUME PipelineTypes, BackendInv, HandInv, [PipelineNext]_vars, Healthy'
  PROVE  stream' = stream /\ stream \in Streams /\ (Begins \/ Continues)
<1>1. PipelineTypes' /\ BackendInv'
  BY TypesInductive
<1>2. stream' \in Streams /\ stream' \in subscribers' /\ link'[stream'] = "up"
  BY <1>1 DEF Healthy, Attached, PipelineTypes, TypeOK
<1>3. stream' # NoStream
  BY <1>2, PipelineAssumption
<1>4. TypeOK /\ ClientOK
  BY DEF PipelineTypes
<1> USE DEF tableVars, logVars, streamVars, backendVars
<1>5. CASE BackendStep
  <2>1. UNCHANGED <<pc, snapshot, stream, current, tables, dbUp>>
    BY <1>5 DEF BackendStep, OtherThanMissed
  <2>2. stream \in Streams
    BY <1>2, <2>1
  <2>3. ASSUME UNCHANGED streamVars PROVE Continues
    BY <1>2, <2>1, <2>3, PositionKept
  <2>4. ASSUME NEW c \in unpublished, Publish(c) PROVE Continues
    BY <1>2, <2>1, <2>4, PositionKept DEF Publish
  <2>5. ASSUME NEW s \in Streams, HandlerStep(s) \/ LinkDrop(s), s # stream
        PROVE  Continues
    BY <1>2, <1>4, <2>1, <2>2, <2>5, PositionKept
       DEF HandlerStep, Subscribe, Yield, EndStream, CancelHandler, Leave, LinkDrop, TypeOK
  <2>6. ASSUME Subscribe(stream), UNCHANGED missed PROVE Begins
    <3>1. wire[stream] = <<>> /\ wire' = wire
      BY <2>2, <2>6 DEF Subscribe, BackendInv, StreamInv, StreamAt
    <3>2. pc # "persist"
      BY <2>6 DEF Subscribe, HandInv, StartingIdle
    <3>3. current = NoEvent
      BY <1>4, <3>2 DEF ClientOK
    <3>4. owed'[stream] = Len(published) + 1 /\ since'[stream] = Len(published) + 1
      BY <1>4, <2>2, <2>6 DEF Subscribe, TypeOK
    <3>5. First' = owed'[stream] - Len(wire'[stream]) /\ Len(wire'[stream]) = 0
      BY <2>1, <3>1, <3>3 DEF First, Arrived
    <3>6. Len(published) \in Nat
      BY <1>4 DEF TypeOK
    <3>7. First' = Len(published) + 1
      BY <3>4, <3>5, <3>6
    <3> QED  BY <2>1, <2>6, <3>3, <3>4, <3>7 DEF Begins, clientVars
  <2>7. ASSUME Yield(stream) PROVE Continues
    <3>1. /\ wire[stream] \in Seq(Event) /\ owed[stream] \in Nat
          /\ queue[stream] \in Seq(Event \cup {DISCONNECT})
          /\ wire'[stream] = Append(wire[stream], Head(queue[stream]))
          /\ owed'[stream] = owed[stream] + 1
          /\ UNCHANGED <<since, link, subscribers>>
      BY <1>4, <2>2, <2>7 DEF Yield, TypeOK
    <3>2. Len(wire'[stream]) = Len(wire[stream]) + 1 /\ Len(wire[stream]) \in Nat
      BY <3>1
    <3>3. Arrived' = owed'[stream] - Len(wire'[stream])
      BY <2>1 DEF Arrived
    <3>4. Arrived' = (owed[stream] + 1) - (Len(wire[stream]) + 1)
      BY <3>1, <3>2, <3>3
    <3>5. Arrived = owed[stream] - Len(wire[stream])
      BY DEF Arrived
    <3>6. owed[stream] \in Nat /\ Len(wire[stream]) \in Nat
      BY <3>1, <3>2
    <3>7. Arrived' = Arrived
      BY <3>4, <3>5, <3>6
    <3> QED  BY <1>2, <2>1, <3>1, <3>7 DEF Continues, Stays, First, Healthy, Attached
  <2>8. ~EndStream(stream) /\ ~CancelHandler(stream) /\ ~LinkDrop(stream) /\ ~BackendRestart
    BY <1>2, <1>4, <2>1, <2>2
       DEF EndStream, CancelHandler, Leave, LinkDrop, BackendRestart, TypeOK
  <2>9. Begins \/ Continues
    BY <1>5, <2>2, <2>3, <2>4, <2>5, <2>6, <2>7, <2>8
       DEF BackendStep, CreateItem, DeleteItem, SeedItem, ResetItems, PublishChange,
           HandlerStep
  <2> QED  BY <2>1, <2>2, <2>9
<1>6. CASE ListItems \/ ListItemsFails \/ Reconcile \/ ReconcileFails \/ OpenStreamFails \/ Retry
  <2>1. stream' = stream /\ pc \notin {"recv", "persist"}
    BY <1>6 DEF ListItems, ListItemsFails, Reconcile, ReconcileFails, OpenStreamFails, Retry
  <2> QED  BY <1>3, <1>4, <2>1 DEF ClientOK
<1>7. ASSUME NEW s \in Streams, OpenStream(s) PROVE FALSE
  <2>1. s \notin subscribers /\ subscribers' = subscribers /\ stream' = s
    BY <1>7 DEF OpenStream, OpenWatch, BackendInv, StreamInv, StreamAt, QueueAt
  <2> QED  BY <1>2, <2>1
<1>8. CASE RecvEvent
  <2>1. /\ stream' = stream /\ pc = "recv" /\ wire[stream] # <<>>
        /\ current' = Head(wire[stream])
        /\ wire' = [wire EXCEPT ![stream] = Tail(@)]
        /\ UNCHANGED <<owed, since, link, subscribers, published>>
    BY <1>8 DEF RecvEvent, Recv
  <2>2. Healthy /\ stream \in Streams /\ current = NoEvent
    BY <1>2, <1>4, <2>1 DEF Healthy, Attached, ClientOK
  <2>3. Head(wire[stream]) = published[Arrived]
    BY <2>1, <2>2, FirstInLog
  <2>4. /\ wire[stream] \in Seq(Event) /\ owed[stream] \in Nat
        /\ wire'[stream] = Tail(wire[stream])
    BY <1>4, <2>1, <2>2 DEF TypeOK
  <2>5. Len(wire'[stream]) = Len(wire[stream]) - 1 /\ Len(wire[stream]) \in Nat
    BY <2>1, <2>4, TailLength
  <2>6. Arrived' = owed'[stream] - Len(wire'[stream]) /\ owed' = owed
    BY <2>1 DEF Arrived
  <2>9. Arrived' = Arrived + 1
    BY <2>4, <2>5, <2>6 DEF Arrived
  <2>7. current' # NoEvent
    <3>1. current' \in Event
      BY <2>1, <2>4
    <3> QED  BY <3>1, PipelineAssumption
  <2>8. First' = First /\ First = Arrived
    BY <2>2, <2>4, <2>5, <2>7, <2>9 DEF First, Arrived
  <2> QED  BY <1>8, <2>1, <2>2, <2>3, <2>8 DEF Continues, Receives
<1>9. CASE RecvError \/ AnalyticsRestart
  BY <1>3, <1>9 DEF RecvError, AnalyticsRestart
<1>10. CASE Persist
  <2>1. pc = "persist" /\ current' = NoEvent /\ UNCHANGED <<backendVars, stream>>
    BY <1>10 DEF Persist
  <2>2. current # NoEvent /\ stream \in Streams /\ Healthy
    BY <1>2, <1>4, <2>1 DEF ClientOK, Healthy, Attached
  <2>3. Arrived \in Nat /\ Arrived' = Arrived
    BY <2>1, <2>2, FirstInLog DEF Arrived
  <2>4. First' = First + 1
    BY <2>1, <2>2, <2>3 DEF First
  <2> QED  BY <1>10, <2>1, <2>2, <2>4 DEF Continues, Persists
<1>11. CASE PersistFails \/ DatabaseDown \/ DatabaseUp \/ UNCHANGED vars
  BY <1>2, <1>11, PositionKept
     DEF PersistFails, DatabaseDown, DatabaseUp, vars, clientVars
<1> QED
  BY <1>5, <1>6, <1>7, <1>8, <1>9, <1>10, <1>11 DEF PipelineNext, ClientStep

-----------------------------------------------------------------------------
(* A healthy stream loses nothing.                                         *)

\* All from the subscription to the client's position is in item_events.
Delivered ==
    Healthy =>
      \A k \in since[stream]..(First - 1) : Key(published[k]) \in tables.events

\* publish() appends the event of the change, stamped with the clock.
LEMMA PublishedEvent ==
  ASSUME TypeOK, NEW c \in unpublished, Publish(c)
  PROVE  \E e \in Event : /\ e.type = c.type /\ e.id = c.id /\ e.name = c.name
                          /\ e.time = clock' /\ clock <= clock' /\ clock' \in Nat
                          /\ published' = Append(published, e)
<1>1. PICK d \in Ticks :
        /\ clock' = clock + d
        /\ published' = Append(published, [type |-> c.type, id |-> c.id,
                                          name |-> c.name, time |-> clock + d])
  BY DEF Publish
<1>2. d \in Nat /\ clock \in Nat /\ c \in Change
  BY BackendAssumption DEF TypeOK
<1> DEFINE e == [type |-> c.type, id |-> c.id, name |-> c.name, time |-> clock + d]
<1>3. e \in Event
  BY <1>2 DEF Change, Event
<1>4. clock <= clock' /\ clock' \in Nat
  BY <1>1, <1>2
<1> QED
  BY <1>1, <1>3, <1>4

\* The log and the clock move only in a publish().
LEMMA LogStep ==
  ASSUME PipelineTypes, [PipelineNext]_vars
  PROVE  UNCHANGED <<clock, published>> \/ \E c \in unpublished : Publish(c)
<1> USE DEF tableVars, logVars, streamVars, backendVars
<1>1. CASE [Next]_backendVars
  BY <1>1 DEF Next, Request, CreateItem, SeedItem, DeleteItem, ResetItems, HandlerStep,
     Subscribe, Yield, EndStream, CancelHandler, Leave, Watcher, OpenWatch, Recv,
     CloseWatch, LinkDrop, BackendRestart
<1>2. CASE FaultOnly \/ \E s \in Streams : Cut(s)
  BY <1>2 DEF FaultOnly, Cut
<1> QED
  BY <1>1, <1>2, BackendView, TypesImply

\* So the log only grows.
LEMMA LogGrows ==
  ASSUME PipelineTypes, [PipelineNext]_vars
  PROVE  /\ Len(published) \in Nat /\ Len(published') \in Nat
         /\ Len(published) <= Len(published')
         /\ \A k \in 1..Len(published) : published'[k] = published[k]
<1>1. published \in Seq(Event)
  BY DEF PipelineTypes, TypeOK
<1>2. ASSUME UNCHANGED published
      PROVE  /\ Len(published) \in Nat /\ Len(published') \in Nat
             /\ Len(published) <= Len(published')
             /\ \A k \in 1..Len(published) : published'[k] = published[k]
  BY <1>1, <1>2
<1>3. ASSUME NEW c \in unpublished, Publish(c)
      PROVE  /\ Len(published) \in Nat /\ Len(published') \in Nat
             /\ Len(published) <= Len(published')
             /\ \A k \in 1..Len(published) : published'[k] = published[k]
  <2>1. PICK e \in Event : published' = Append(published, e)
    BY <1>3, PublishedEvent DEF PipelineTypes
  <2> QED  BY <1>1, <2>1
<1> QED
  BY <1>2, <1>3, LogStep

\* item_events only grows: retention is not part of the pipeline.
LEMMA EventsGrow ==
  ASSUME PipelineTypes, [PipelineNext]_vars
  PROVE  /\ tables.events \subseteq tables'.events
         /\ Ingest => Key(current) \in tables'.events
<1>1. ASSUME Ingest
      PROVE  tables.events \subseteq tables'.events /\ Key(current) \in tables'.events
  BY <1>1 DEF Ingest, IngestEvent
<1>2. ASSUME pc = "reconcile", tables' = Reconciled
      PROVE  tables.events \subseteq tables'.events
  <2>1. clock + Skew \in Nat
    BY PipelineAssumption DEF PipelineTypes, TypeOK
  <2>2. DOMAIN snapshot \subseteq Ids /\ \A i \in DOMAIN snapshot : snapshot[i] \in Names
    BY DEF PipelineTypes, ClientOK
  <2>3. Reconciled.events = tables.events
    BY <2>1, <2>2, ReconcileTables DEF Reconciled, PipelineTypes
  <2> QED  BY <1>2, <2>3
<1> QED
  BY <1>1, <1>2, TablesStep

\* What is in hand stays the event at the client's position.
LEMMA HandInductive ==
  ASSUME PipelineTypes, BackendInv, HandInv, [PipelineNext]_vars
  PROVE  HandInv'
<1>1. InHandIsFirst'
  <2> SUFFICES ASSUME Healthy', current' # NoEvent
               PROVE  (First >= since[stream] /\ current = published[First])'
    BY DEF InHandIsFirst
  <2>1. stream' = stream /\ stream \in Streams /\ (Begins \/ Continues)
    BY HealthySteps
  <2>2. ~Begins
    BY DEF Begins, clientVars
  <2>3. Healthy /\ since'[stream] = since[stream]
    BY <2>1, <2>2 DEF Continues
  <2>4. /\ since[stream] <= First /\ First \in Nat \ {0}
        /\ wire[stream] # <<>> => First <= Arrived /\ Arrived <= Len(published)
    BY <2>3, FirstInLog
  <2>5. Len(published) \in Nat /\ \A k \in 1..Len(published) : published'[k] = published[k]
    BY LogGrows
  <2>6. CASE Stays
    <3>1. current = published[First]
      BY <2>3, <2>6 DEF Stays, HandInv, InHandIsFirst
    <3>2. First <= Len(published)
      <4>1. Arrived \in Nat \ {0} /\ Arrived <= Len(published) + 1
        BY <2>3, FirstInLog
      <4> QED  BY <2>4, <2>5, <2>6, <4>1 DEF First, Stays
    <3>3. published'[First] = published[First]
      BY <2>4, <2>5, <3>2
    <3> QED  BY <2>1, <2>3, <2>4, <2>6, <3>1, <3>3 DEF Stays
  <2>7. CASE Receives
    <3>1. UNCHANGED published
      BY <2>7 DEF Receives, RecvEvent, Recv, logVars
    <3> QED  BY <2>1, <2>3, <2>4, <2>7, <3>1 DEF Receives
  <2>8. ~Persists
    BY DEF Persists
  <2> QED  BY <2>1, <2>2, <2>6, <2>7, <2>8 DEF Continues
<1>2. StartingIdle'
  <2> SUFFICES ASSUME pc' = "persist" PROVE handler'[stream'] # "starting"
    BY DEF StartingIdle
  <2>1. TypeOK /\ ClientOK
    BY DEF PipelineTypes
  <2> USE DEF tableVars, logVars, streamVars, backendVars
  <2>2. CASE BackendStep
    <3>1. /\ pc = "persist" /\ stream' = stream /\ stream \in Streams
          /\ handler[stream] # "starting"
      BY <2>1, <2>2, InHand DEF BackendStep, OtherThanMissed, HandInv, StartingIdle
    <3>2. ASSUME UNCHANGED handler PROVE handler'[stream'] # "starting"
      BY <3>1, <3>2
    <3>3. ASSUME NEW s \in Streams, HandlerStep(s) PROVE handler'[stream'] # "starting"
      BY <2>1, <3>1, <3>3
         DEF TypeOK, HandlerStep, Subscribe, Yield, EndStream, CancelHandler, Leave
    <3>4. CASE BackendRestart
      BY <3>1, <3>4 DEF BackendRestart
    <3> QED
      BY <2>2, <3>2, <3>3, <3>4 DEF BackendStep, CreateItem, DeleteItem, SeedItem,
         ResetItems, PublishChange, Publish, LinkDrop
  <2>3. CASE RecvEvent
    <3>1. stream \in Streams /\ stream' = stream /\ wire[stream] # <<>> /\ handler' = handler
      BY <2>1, <2>3 DEF RecvEvent, Recv, ClientOK
    <3>2. StreamAt(stream)
      BY <3>1 DEF BackendInv, StreamInv
    <3> QED  BY <3>1, <3>2 DEF StreamAt
  <2>4. CASE PersistFails \/ DatabaseDown \/ DatabaseUp \/ UNCHANGED vars
    BY <2>4 DEF PersistFails, DatabaseDown, DatabaseUp, vars, clientVars, HandInv, StartingIdle
  <2>5. CASE \/ ListItems \/ ListItemsFails \/ Reconcile \/ ReconcileFails
             \/ (\E s \in Streams : OpenStream(s)) \/ OpenStreamFails \/ RecvError
             \/ Persist \/ Retry \/ AnalyticsRestart
    BY <2>5 DEF ListItems, ListItemsFails, Reconcile, ReconcileFails, OpenStream,
       OpenStreamFails, RecvError, Persist, Retry, AnalyticsRestart
  <2> QED  BY <2>2, <2>3, <2>4, <2>5 DEF PipelineNext, ClientStep
<1> QED
  BY <1>1, <1>2 DEF HandInv

\* And all before it stays in item_events.
LEMMA DeliveredInductive ==
  ASSUME PipelineTypes, BackendInv, HandInv, Delivered, [PipelineNext]_vars
  PROVE  Delivered'
<1> SUFFICES ASSUME Healthy', NEW k \in since'[stream']..(First' - 1)
             PROVE  Key(published'[k]) \in tables'.events
  BY DEF Delivered
<1>1. stream' = stream /\ stream \in Streams /\ (Begins \/ Continues)
  BY HealthySteps
<1>2. /\ Len(published) \in Nat
      /\ \A j \in 1..Len(published) : published'[j] = published[j]
  BY LogGrows
<1>3. ~Begins
  BY <1>1, <1>2 DEF Begins
<1>4. Healthy /\ since'[stream] = since[stream]
  BY <1>1, <1>3 DEF Continues
<1>5. /\ since[stream] \in Nat \ {0} /\ First \in Nat \ {0} /\ Arrived \in Nat \ {0}
      /\ First <= Arrived /\ Arrived <= Len(published) + 1
  BY <1>4, FirstInLog
<1>6. ASSUME k \in since[stream]..(First - 1)
      PROVE  Key(published'[k]) \in tables'.events
  <2>1. k \in 1..Len(published)
    BY <1>2, <1>5, <1>6
  <2>2. Key(published[k]) \in tables.events
    BY <1>4, <1>6 DEF Delivered
  <2> QED  BY <1>2, <2>1, <2>2, EventsGrow
<1>7. CASE Stays \/ Receives
  BY <1>1, <1>4, <1>6, <1>7 DEF Stays, Receives
<1>8. CASE Persists
  <2>1. CASE k = First
    <3>1. pc = "persist" /\ Ingest /\ UNCHANGED published
      BY <1>8 DEF Persists, Persist, backendVars
    <3>2. current # NoEvent
      BY <3>1, InHand DEF PipelineTypes
    <3>3. current = published[First]
      BY <1>4, <3>2 DEF HandInv, InHandIsFirst
    <3> QED  BY <2>1, <3>1, <3>3, EventsGrow
  <2>2. CASE k # First
    <3>1. k \in since[stream]..(First - 1)
      BY <1>1, <1>4, <1>5, <1>8, <2>2 DEF Persists
    <3> QED  BY <1>6, <3>1
  <2> QED  BY <2>1, <2>2
<1> QED
  BY <1>1, <1>3, <1>7, <1>8 DEF Continues

\* The client's position in the log is what its hand says, always.
THEOREM HandInvariant == PipelineSpec => []HandInv
<1>1. PipelineInit => HandInv
  BY DEF PipelineInit, HandInv, InHandIsFirst, StartingIdle
<1>2. PipelineTypes /\ BackendInv /\ HandInv /\ [PipelineNext]_vars => HandInv'
  BY HandInductive
<1> QED
  BY <1>1, <1>2, PipelineInvariant, PTL DEF PipelineSpec

\* As long as the stream stays healthy every event published since the
\* subscription is stored, in hand, on the wire or queued, whatever fails
\* and is retried meanwhile (client.go cycle).
THEOREM HealthyStreamDelivers == PipelineSpec => []HealthyStreamLosesNothing
<1>1. PipelineInit => Delivered
  BY PipelineAssumption DEF PipelineInit, Init, Delivered, Healthy, Attached
<1>2. PipelineTypes /\ BackendInv /\ HandInv /\ Delivered /\ [PipelineNext]_vars
        => Delivered'
  BY DeliveredInductive
<1>3. PipelineTypes /\ BackendInv /\ HandInv /\ Delivered => HealthyStreamLosesNothing
  <2> SUFFICES ASSUME PipelineTypes, BackendInv, HandInv, Delivered, Healthy,
                      NEW k \in since[stream]..(Arrived - 1)
               PROVE  \/ Key(published[k]) \in tables.events
                      \/ k = Arrived - 1 /\ current = published[k]
    BY DEF HealthyStreamLosesNothing, Arrived
  <2>1. Arrived \in Nat /\ since[stream] \in Nat
    BY FirstInLog
  <2>2. CASE k \in since[stream]..(First - 1)
    BY <2>2 DEF Delivered
  <2>3. CASE k \notin since[stream]..(First - 1)
    <3>1. current # NoEvent /\ k = Arrived - 1 /\ First = Arrived - 1
      BY <2>1, <2>3 DEF First
    <3> QED  BY <3>1 DEF HandInv, InHandIsFirst
  <2> QED  BY <2>2, <2>3
<1> QED
  BY <1>1, <1>2, <1>3, PipelineInvariant, HandInvariant, PTL DEF PipelineSpec

-----------------------------------------------------------------------------
(* Names and times in the log.                                             *)

\* A "created" event, published or not, of a row that is still there carries
\* the name of that row.
NameInv ==
    /\ \A k \in 1..Len(published) :
         published[k].type = "created" /\ items[published[k].id] # NoName
           => published[k].name = items[published[k].id]
    /\ \A c \in unpublished :
         c.type = "created" /\ items[c.id] # NoName => c.name = items[c.id]

\* Messages stamped no later than now.
Stamped(now) == {e \in Event \cup {DISCONNECT} : e.time <= now}

\* The log is in the order of its times, and nothing that was sent, queued
\* or received is from the future.
ClockInv ==
    /\ \A j, k \in 1..Len(published) : j <= k => published[j].time <= published[k].time
    /\ \A k \in 1..Len(published) : published[k].time <= clock
    /\ \A s \in Streams : queue[s] \in Seq(Stamped(clock)) /\ wire[s] \in Seq(Stamped(clock))

\* The pending changes and the log after publish().
LEMMA PublishKeepsNames ==
  ASSUME TypeOK, NameInv, NEW c \in unpublished, Publish(c)
  PROVE  NameInv'
<1>1. PICK e \in Event : /\ e.type = c.type /\ e.id = c.id /\ e.name = c.name
                         /\ published' = Append(published, e)
  BY PublishedEvent
<1>2. published \in Seq(Event) /\ UNCHANGED items /\ unpublished' \subseteq unpublished
  BY DEF TypeOK, Publish, tableVars
<1>3. ASSUME NEW k \in 1..Len(published')
      PROVE  published'[k] = e \/ (k \in 1..Len(published) /\ published'[k] = published[k])
  BY <1>1, <1>2
<1> QED
  BY <1>1, <1>2, <1>3 DEF NameInv

\* Names of the log stay those of the table: an id is never used again.
LEMMA NamesInductive ==
  ASSUME PipelineTypes, BackendInv, NameInv, [PipelineNext]_vars
  PROVE  NameInv'
<1> USE DEF tableVars, logVars, streamVars, backendVars
<1>1. TypeOK /\ EmitAfterCommit /\ PendingCommitted
  BY DEF BackendInv, CommitInv
<1>2. ASSUME UNCHANGED <<items, published>>, unpublished' \subseteq unpublished PROVE NameInv'
  BY <1>2 DEF NameInv
<1>3. /\ \A k \in 1..Len(published) : published[k].id \in Ids /\ published[k].id # nextId
      /\ \A c \in unpublished : c.id \in Ids /\ c.id # nextId
  <2>1. /\ \A k \in 1..Len(published) : published[k].id \in Ids
        /\ \A c \in unpublished : c.id \in Ids
    BY <1>1, IdsOfChanges
  <2>2. \A i \in Ids : i < nextId => i # nextId
    BY <1>1 DEF TypeOK, Ids
  <2> QED  BY <1>1, <2>1, <2>2 DEF EmitAfterCommit, PendingCommitted
<1>4. ASSUME NEW n \in Names, nextId \in Ids, items' = [items EXCEPT ![nextId] = n],
             UNCHANGED published,
             unpublished' \subseteq unpublished
                             \cup {[type |-> "created", id |-> nextId, name |-> n]}
      PROVE  NameInv'
  <2>1. \A i \in Ids : items'[i] = IF i = nextId THEN n ELSE items[i]
    BY <1>1, <1>4 DEF TypeOK
  <2>2. ASSUME NEW k \in 1..Len(published)
        PROVE  items'[published[k].id] = items[published[k].id]
    BY <1>3, <2>1
  <2>3. ASSUME NEW c \in unpublished PROVE items'[c.id] = items[c.id]
    BY <1>3, <2>1
  <2>4. ASSUME NEW c \in unpublished', c.type = "created", items'[c.id] # NoName
        PROVE  c.name = items'[c.id]
    <3>1. CASE c \in unpublished
      BY <2>3, <2>4, <3>1 DEF NameInv
    <3>2. CASE c = [type |-> "created", id |-> nextId, name |-> n]
      BY <1>4, <2>1, <3>2
    <3> QED  BY <1>4, <3>1, <3>2
  <2> QED  BY <1>4, <2>2, <2>4 DEF NameInv
<1>5. ASSUME UNCHANGED published,
             \A i \in Ids : items'[i] = items[i] \/ items'[i] = NoName,
             \A c \in unpublished' : c \in unpublished \/ c.type = "deleted"
      PROVE  NameInv'
  <2>1. ASSUME NEW k \in 1..Len(published)
        PROVE  items'[published[k].id] \in {items[published[k].id], NoName}
    BY <1>3, <1>5
  <2>2. ASSUME NEW c \in unpublished PROVE items'[c.id] \in {items[c.id], NoName}
    BY <1>3, <1>5
  <2>3. \A c \in unpublished' : c.type = "created" => c \in unpublished
    BY <1>5
  <2> QED  BY <1>5, <2>1, <2>2, <2>3 DEF NameInv
<1>6. CASE [Next]_backendVars
  <2>1. ASSUME NEW n \in Names, CreateItem(n) \/ SeedItem(n) PROVE NameInv'
    BY <1>4, <2>1 DEF CreateItem, SeedItem
  <2>2. ASSUME NEW i \in Ids, DeleteItem(i) PROVE NameInv'
    <3>1. \A c \in unpublished' : c \in unpublished \/ c.type = "deleted"
      BY <2>2 DEF DeleteItem
    <3>2. \A j \in Ids : items'[j] = items[j] \/ items'[j] = NoName
      BY <1>1, <2>2 DEF DeleteItem, TypeOK
    <3> QED  BY <1>5, <2>2, <3>1, <3>2 DEF DeleteItem
  <2>3. CASE ResetItems
    BY <1>5, <2>3 DEF ResetItems
  <2>4. ASSUME NEW c \in unpublished, Publish(c) PROVE NameInv'
    BY <1>1, <2>4, PublishKeepsNames
  <2>5. ASSUME NEW s \in Streams, HandlerStep(s) \/ Watcher(s) \/ LinkDrop(s) PROVE NameInv'
    BY <1>2, <2>5 DEF HandlerStep, Subscribe, Yield, EndStream, CancelHandler, Leave,
       Watcher, OpenWatch, Recv, CloseWatch, LinkDrop
  <2>6. CASE BackendRestart \/ UNCHANGED backendVars
    BY <1>2, <2>6 DEF BackendRestart
  <2> QED  BY <1>6, <2>1, <2>2, <2>3, <2>4, <2>5, <2>6 DEF Next, Request
<1>7. CASE FaultOnly \/ \E s \in Streams : Cut(s)
  BY <1>2, <1>7 DEF FaultOnly, Cut
<1> QED
  BY <1>6, <1>7, BackendView, TypesImply

\* What is stamped stays so as the clock moves on.
LEMMA StampedGrows ==
  ASSUME NEW a \in Nat, NEW b \in Nat, a <= b
  PROVE  /\ Stamped(a) \subseteq Stamped(b)
         /\ Seq(Stamped(a)) \subseteq Seq(Stamped(b))
         /\ DISCONNECT \in Stamped(a)
<1>1. \A e \in Event \cup {DISCONNECT} : e.time \in Nat
  BY DEF Event, DISCONNECT
<1>2. Stamped(a) \subseteq Stamped(b)
  BY <1>1 DEF Stamped
<1>3. DISCONNECT \in Stamped(a)
  BY DEF Stamped, DISCONNECT
<1>4. ASSUME NEW q \in Seq(Stamped(a)) PROVE q \in Seq(Stamped(b))
  BY <1>2
<1> QED
  BY <1>2, <1>3, <1>4

\* publish() stamps with the current time what it appends everywhere.
LEMMA PublishKeepsClock ==
  ASSUME TypeOK, ClockInv, NEW c \in unpublished, Publish(c)
  PROVE  ClockInv'
<1>1. PICK d \in Ticks :
        LET e == [type |-> c.type, id |-> c.id, name |-> c.name, time |-> clock + d]
        IN  /\ clock' = clock + d
            /\ published' = Append(published, e)
            /\ queue' = [s \in Streams |-> IF s \in subscribers THEN Offer(queue[s], e)
                                                               ELSE queue[s]]
  BY DEF Publish
<1> DEFINE e == [type |-> c.type, id |-> c.id, name |-> c.name, time |-> clock + d]
<1>2. d \in Nat /\ clock \in Nat /\ c \in Change /\ published \in Seq(Event)
  BY BackendAssumption DEF TypeOK
<1>3. e \in Event /\ e.time = clock' /\ clock' \in Nat /\ clock <= clock'
  BY <1>1, <1>2 DEF Change, Event
<1>4. published' = Append(published, e)
  BY <1>1
<1>5. queue' = [s \in Streams |-> IF s \in subscribers THEN Offer(queue[s], e) ELSE queue[s]]
  BY <1>1
<1>6. e \in Stamped(clock')
  BY <1>3 DEF Stamped
<1> HIDE DEF e
<1>7. ASSUME NEW k \in 1..Len(published')
      PROVE  \/ k = Len(published) + 1 /\ published'[k] = e
             \/ k \in 1..Len(published) /\ published'[k] = published[k]
  BY <1>2, <1>3, <1>4
<1>8. ASSUME NEW k \in 1..Len(published)
      PROVE  published[k].time \in Nat /\ published[k].time <= clock'
  <2>1. published[k] \in Event /\ published[k].time <= clock
    BY <1>2 DEF ClockInv
  <2>2. published[k].time \in Nat
    BY <2>1 DEF Event
  <2> QED  BY <1>2, <1>3, <2>1, <2>2
<1>9. ASSUME NEW k \in 1..Len(published') PROVE published'[k].time <= clock'
  BY <1>3, <1>7, <1>8
<1>10. ASSUME NEW j \in 1..Len(published'), NEW k \in 1..Len(published'), j <= k
       PROVE  published'[j].time <= published'[k].time
  <2>1. CASE k = Len(published) + 1 /\ published'[k] = e
    BY <1>3, <1>9, <2>1
  <2>2. CASE k \in 1..Len(published) /\ published'[k] = published[k]
    <3>1. j \in 1..Len(published) /\ published'[j] = published[j]
      BY <1>2, <1>7, <1>10, <2>2
    <3> QED  BY <1>10, <2>2, <3>1 DEF ClockInv
  <2> QED  BY <1>7, <2>1, <2>2
<1>11. ASSUME NEW s \in Streams
       PROVE  queue'[s] \in Seq(Stamped(clock')) /\ wire'[s] \in Seq(Stamped(clock'))
  <2>1. queue[s] \in Seq(Stamped(clock')) /\ wire[s] \in Seq(Stamped(clock'))
    BY <1>2, <1>3, StampedGrows DEF ClockInv
  <2>2. DISCONNECT \in Stamped(clock')
    BY <1>3, StampedGrows
  <2>3. Full(queue[s]) => Tail(queue[s]) \in Seq(Stamped(clock'))
    <3>1. Full(queue[s]) => queue[s] # <<>>
      BY BackendAssumption DEF Full
    <3> QED  BY <2>1, <3>1
  <2>4. Offer(queue[s], e) \in Seq(Stamped(clock'))
    BY <1>6, <2>1, <2>2, <2>3 DEF Offer
  <2>5. queue'[s] \in {queue[s], Offer(queue[s], e)}
    BY <1>5
  <2> QED  BY <2>1, <2>4, <2>5 DEF Publish
<1> QED
  BY <1>9, <1>10, <1>11 DEF ClockInv

\* Queues and wires hand on what they were given.
LEMMA ClockInductive ==
  ASSUME PipelineTypes, ClockInv, [PipelineNext]_vars
  PROVE  ClockInv'
<1> USE DEF tableVars, logVars, streamVars, backendVars
<1>1. TypeOK
  BY DEF PipelineTypes
<1> DEFINE S == Seq(Stamped(clock))
<1>2. \A s \in Streams : queue[s] \in S /\ wire[s] \in S
  BY DEF ClockInv
<1>3. ASSUME UNCHANGED <<clock, published>>,
             \A s \in Streams : queue'[s] \in S /\ wire'[s] \in S
      PROVE  ClockInv'
  BY <1>3 DEF ClockInv
<1>4. ASSUME NEW q \in S, q # <<>> PROVE Tail(q) \in S /\ Head(q) \in Stamped(clock)
  BY <1>4
<1>5. <<>> \in S
  OBVIOUS
<1>6. ASSUME NEW s \in Streams, NEW q \in S, UNCHANGED <<clock, published>>,
             \/ UNCHANGED wire
             \/ wire' = [wire EXCEPT ![s] = q],
             \/ UNCHANGED queue
             \/ queue' = [queue EXCEPT ![s] = <<>>]
             \/ queue' = [queue EXCEPT ![s] = Tail(@)] /\ queue[s] # <<>>
      PROVE  ClockInv'
  <2>1. ASSUME NEW t \in Streams PROVE queue'[t] \in S /\ wire'[t] \in S
    <3> HIDE DEF S
    <3>1. wire'[t] = wire[t] \/ wire'[t] = q
      BY <1>1, <1>6 DEF TypeOK
    <3>2. \/ queue'[t] = queue[t] \/ queue'[t] = <<>>
          \/ queue'[t] = Tail(queue[t]) /\ queue[t] # <<>>
      BY <1>1, <1>6 DEF TypeOK
    <3> QED  BY <1>2, <1>4, <1>5, <3>1, <3>2
  <2> QED  BY <1>3, <1>6, <2>1
<1>7. CASE [Next]_backendVars
  <2>1. CASE Request \/ BackendRestart \/ UNCHANGED backendVars
    <3>1. /\ UNCHANGED <<clock, published, wire>>
          /\ UNCHANGED queue \/ queue' = [s \in Streams |-> <<>>]
      BY <2>1 DEF Request, CreateItem, SeedItem, DeleteItem, ResetItems, BackendRestart
    <3> QED  BY <1>2, <1>3, <1>5, <3>1
  <2>2. ASSUME NEW c \in unpublished, Publish(c) PROVE ClockInv'
    BY <1>1, <2>2, PublishKeepsClock
  <2>3. ASSUME NEW s \in Streams, Subscribe(s) \/ Leave(s) \/ OpenWatch(s) \/ CloseWatch(s)
        PROVE  ClockInv'
    BY <1>5, <1>6, <2>3 DEF Subscribe, Leave, OpenWatch, CloseWatch
  <2>4. ASSUME NEW s \in Streams, Yield(s) PROVE ClockInv'
    <3>1. queue[s] # <<>> /\ Head(queue[s]) \in Stamped(clock)
      BY <1>2, <1>4, <2>4 DEF Yield
    <3>2. Append(wire[s], Head(queue[s])) \in S
      BY <1>2, <3>1
    <3>3. wire' = [wire EXCEPT ![s] = Append(wire[s], Head(queue[s]))]
      BY <2>4 DEF Yield
    <3> QED  BY <1>6, <2>4, <3>1, <3>2, <3>3 DEF Yield
  <2>5. ASSUME NEW s \in Streams, Recv(s) PROVE ClockInv'
    <3>1. Tail(wire[s]) \in S /\ wire' = [wire EXCEPT ![s] = Tail(wire[s])]
      BY <1>2, <1>4, <2>5 DEF Recv
    <3> QED  BY <1>6, <2>5, <3>1 DEF Recv
  <2>6. ASSUME NEW s \in Streams, LinkDrop(s) PROVE ClockInv'
    <3>1. PICK n \in 0..Len(wire[s]) : wire' = [wire EXCEPT ![s] = SubSeq(wire[s], 1, n)]
      BY <2>6 DEF LinkDrop
    <3>2. SubSeq(wire[s], 1, n) \in S
      BY <1>2
    <3> QED  BY <1>6, <2>6, <3>1, <3>2 DEF LinkDrop
  <2> QED
    BY <1>7, <2>1, <2>2, <2>3, <2>4, <2>5, <2>6
       DEF Next, HandlerStep, Watcher, EndStream, CancelHandler
<1>8. CASE FaultOnly
  BY <1>2, <1>3, <1>8 DEF FaultOnly
<1>9. ASSUME NEW s \in Streams, Cut(s) PROVE ClockInv'
  BY <1>5, <1>6, <1>9 DEF Cut
<1> QED
  BY <1>7, <1>8, <1>9, BackendView, TypesImply

-----------------------------------------------------------------------------
(* What last_seen can be.                                                  *)

\* A persist writes the row of the event in hand, unless that was seen later.
LEMMA IngestedRows ==
  ASSUME PipelineTypes, pc = "persist", Ingest
  PROVE  /\ DOMAIN tables'.current = DOMAIN tables.current \cup {current.id}
         /\ \A i \in DOMAIN tables.current :
              i # current.id => tables'.current[i] = tables.current[i]
         /\ IF /\ current.id \in DOMAIN tables.current
               /\ current.time < tables.current[current.id].last
            THEN tables'.current[current.id] = tables.current[current.id]
            ELSE /\ tables'.current[current.id].name = current.name
                 /\ tables'.current[current.id].gone = (current.type = "deleted")
                 /\ tables'.current[current.id].last = current.time
<1>1. current \in Event
  BY InHand DEF PipelineTypes
<1>2. /\ DOMAIN tables.current \subseteq Ids
      /\ \A i \in DOMAIN tables.current : tables.current[i] \in Row
  BY DEF PipelineTypes, TablesOK
<1>3. tables'.current = ApplyEvent(tables.current, current)
  BY DEF Ingest, IngestEvent
<1> DEFINE cur == tables.current
           new == ApplyEvent(cur, current)
<1>4. /\ DOMAIN new = DOMAIN cur \cup {current.id}
      /\ \A i \in DOMAIN cur : i # current.id => new[i] = cur[i]
      /\ IF current.id \in DOMAIN cur /\ current.time < cur[current.id].last
         THEN new[current.id] = cur[current.id]
         ELSE /\ new[current.id].name = current.name
              /\ new[current.id].gone = (current.type = "deleted")
              /\ new[current.id].last = current.time
  <2> HIDE DEF cur
  <2> QED  BY <1>1, <1>2, ApplyEventRows DEF cur
<1>5. tables'.current = new
  BY <1>3
<1> HIDE DEF new
<1> QED
  BY <1>4, <1>5

\* A reconcile makes current_items the snapshot, with tombstones for the rest.
LEMMA ReconciledRows ==
  ASSUME PipelineTypes, pc = "reconcile", tables' = Reconciled
  PROVE  /\ DOMAIN tables'.current = DOMAIN tables.current \cup DOMAIN snapshot
         /\ \A i \in DOMAIN snapshot :
              tables'.current[i].name = snapshot[i] /\ tables'.current[i].gone = FALSE
         /\ \A i \in DOMAIN tables.current \ DOMAIN snapshot :
              tables'.current[i].gone = TRUE
         /\ \A i \in DOMAIN tables'.current :
              \/ tables'.current[i].last = clock + Skew
              \/ /\ i \in DOMAIN tables.current
                 /\ tables'.current[i].last = tables.current[i].last
<1>1. clock + Skew \in Nat
  BY PipelineAssumption DEF PipelineTypes, TypeOK
<1>2. DOMAIN snapshot \subseteq Ids /\ \A i \in DOMAIN snapshot : snapshot[i] \in Names
  BY DEF PipelineTypes, ClientOK
<1>3. /\ DOMAIN tables.current \subseteq Ids
      /\ \A i \in DOMAIN tables.current : tables.current[i] \in Row
  BY DEF PipelineTypes, TablesOK
<1>4. tables'.current = ReconcileSnapshot(tables.current, snapshot, clock + Skew)
  BY <1>1, <1>2, ReconcileTables DEF Reconciled, PipelineTypes
<1> DEFINE cur == tables.current
           now == clock + Skew
           new == ReconcileSnapshot(cur, snapshot, now)
<1>5. /\ DOMAIN new = DOMAIN cur \cup DOMAIN snapshot
      /\ \A i \in DOMAIN snapshot : new[i].name = snapshot[i] /\ new[i].gone = FALSE
      /\ \A i \in DOMAIN cur \ DOMAIN snapshot : new[i].gone = TRUE
      /\ \A i \in DOMAIN new :
           new[i].last = now \/ (i \in DOMAIN cur /\ new[i].last = cur[i].last)
  <2>1. /\ DOMAIN cur \subseteq Ids
        /\ \A i \in DOMAIN cur : cur[i] \in Row
    BY <1>3
  <2>2. now \in Nat
    BY <1>1
  <2> HIDE DEF cur, now
  <2> QED  BY <1>2, <2>1, <2>2, ReconcileRows, ZenonT(60)
<1>6. tables'.current = new
  BY <1>4
<1> HIDE DEF new
<1> QED
  BY <1>5, <1>6

\* No row was seen later than the analytics clock shows, and none later than
\* an event that is still to be stored of a healthy stream, by that clock:
\* the reconcile that stamped it came before the subscription.
SeenInv ==
    /\ current # NoEvent => current.time <= clock
    /\ \A i \in DOMAIN tables.current : tables.current[i].last <= clock + Skew
    /\ Healthy =>
         \A k \in First..Len(published) : \A i \in DOMAIN tables.current :
            tables.current[i].last <= published[k].time + Skew

\* Events and rows carry natural numbers for times.
LEMMA TimesAreNat ==
  ASSUME PipelineTypes
  PROVE  /\ clock \in Nat /\ Skew \in Nat /\ Len(published) \in Nat
         /\ \A k \in 1..Len(published) : published[k].time \in Nat
         /\ \A i \in DOMAIN tables.current : tables.current[i].last \in Nat
         /\ current # NoEvent => current.time \in Nat
<1>1. \A e \in Event : e.time \in Nat
  BY DEF Event
<1>2. \A r \in Row : r.last \in Nat
  BY DEF Row
<1>3. published \in Seq(Event) /\ clock \in Nat
  BY DEF PipelineTypes, TypeOK
<1>4. \A k \in 1..Len(published) : published[k] \in Event
  BY <1>3
<1>5. \A i \in DOMAIN tables.current : tables.current[i] \in Row
  BY DEF PipelineTypes, TablesOK
<1>6. current # NoEvent => current \in Event
  BY DEF PipelineTypes, ClientOK
<1> QED
  BY <1>1, <1>2, <1>3, <1>4, <1>5, <1>6, PipelineAssumption

\* The clock never runs backwards.
LEMMA ClockMoves ==
  ASSUME PipelineTypes, [PipelineNext]_vars
  PROVE  clock \in Nat /\ clock' \in Nat /\ clock <= clock'
<1>1. clock \in Nat
  BY DEF PipelineTypes, TypeOK
<1>2. ASSUME NEW c \in unpublished, Publish(c) PROVE clock' \in Nat /\ clock <= clock'
  BY <1>2, PublishedEvent DEF PipelineTypes
<1> QED
  BY <1>1, <1>2, LogStep

\* Rows of the steps that write them are in time.
LEMMA SeenInductive ==
  ASSUME PipelineTypes, BackendInv, HandInv, ClockInv, SeenInv, [PipelineNext]_vars
  PROVE  SeenInv'
<1> USE DEF tableVars, logVars, streamVars, backendVars
<1>1. clock \in Nat /\ clock' \in Nat /\ clock <= clock' /\ Skew \in Nat
  BY ClockMoves, TimesAreNat
<1>2. /\ Len(published) \in Nat
      /\ \A k \in 1..Len(published) : published[k].time \in Nat
      /\ \A i \in DOMAIN tables.current : tables.current[i].last \in Nat
      /\ current # NoEvent => current.time \in Nat
  BY TimesAreNat
<1>3. ASSUME current' # NoEvent PROVE current'.time <= clock'
  <2>1. CASE current' = current
    BY <1>1, <1>2, <1>3, <2>1 DEF SeenInv
  <2>2. CASE RecvEvent
    <3>1. stream \in Streams /\ wire[stream] # <<>> /\ current' = Head(wire[stream])
      BY <2>2 DEF RecvEvent, Recv, PipelineTypes, ClientOK
    <3>2. wire[stream] \in Seq(Stamped(clock))
      BY <3>1 DEF ClockInv
    <3>3. current' \in Stamped(clock)
      BY <3>1, <3>2
    <3>4. current'.time \in Nat /\ current'.time <= clock
      <4>1. \A e \in Event \cup {DISCONNECT} : e.time \in Nat
        BY DEF Event, DISCONNECT
      <4> QED  BY <3>3, <4>1 DEF Stamped
    <3> QED  BY <1>1, <3>4
  <2>3. current' = current \/ RecvEvent
    BY <1>3 DEF PipelineNext, BackendStep, OtherThanMissed, ClientStep, ListItems,
       ListItemsFails, Reconcile, ReconcileFails, OpenStream, OpenStreamFails, RecvError,
       Persist, PersistFails, Retry, AnalyticsRestart, DatabaseDown, DatabaseUp, vars,
       clientVars
  <2> QED  BY <2>1, <2>2, <2>3
<1>4. ASSUME NEW i \in DOMAIN tables'.current
      PROVE  tables'.current[i].last <= clock' + Skew
  <2>1. ASSUME i \in DOMAIN tables.current PROVE tables.current[i].last <= clock' + Skew
    BY <1>1, <1>2, <2>1 DEF SeenInv
  <2>2. CASE UNCHANGED tables
    BY <2>1, <2>2
  <2>3. CASE pc = "reconcile" /\ tables' = Reconciled
    <3>1. \/ tables'.current[i].last = clock + Skew
          \/ i \in DOMAIN tables.current /\ tables'.current[i].last = tables.current[i].last
      BY <2>3, ReconciledRows
    <3> QED  BY <1>1, <2>1, <3>1
  <2>4. CASE pc = "persist" /\ Ingest
    <3>1. current # NoEvent /\ current.time \in Nat /\ current.time <= clock
      BY <1>2, <2>4, InHand DEF PipelineTypes, SeenInv
    <3>2. \/ i \in DOMAIN tables.current /\ tables'.current[i] = tables.current[i]
          \/ tables'.current[i].last = current.time
      BY <2>4, IngestedRows
    <3> QED  BY <1>1, <2>1, <3>1, <3>2
  <2> QED  BY <2>2, <2>3, <2>4, TablesStep
<1>5. ASSUME Healthy', NEW k \in First'..Len(published'), NEW i \in DOMAIN tables'.current
      PROVE  tables'.current[i].last <= published'[k].time + Skew
  <2>1. stream' = stream /\ stream \in Streams /\ (Begins \/ Continues)
    BY <1>5, HealthySteps
  <2>2. ~Begins
    BY <1>2, <1>5 DEF Begins, Subscribe
  <2>3. Healthy /\ (Stays \/ Receives \/ Persists)
    BY <2>1, <2>2 DEF Continues
  <2>4. First \in Nat \ {0} /\ Arrived \in Nat \ {0} /\ First <= Arrived /\ Arrived <= Len(published) + 1
    BY <2>3, FirstInLog
  <2>5. First' \in Nat /\ First <= First'
    BY <2>3, <2>4 DEF Stays, Receives, Persists
  <2>6. CASE k \in 1..Len(published)
    <3>1. published'[k] = published[k] /\ k \in First..Len(published)
      BY <1>2, <1>5, <2>4, <2>5, <2>6, LogGrows
    <3>2. \A j \in DOMAIN tables.current : tables.current[j].last <= published[k].time + Skew
      BY <2>3, <3>1 DEF SeenInv
    <3>3. pc # "reconcile"
      <4>1. stream # NoStream
        BY <2>1, PipelineAssumption
      <4> QED  BY <4>1 DEF PipelineTypes, ClientOK
    <3>4. CASE UNCHANGED tables
      BY <3>1, <3>2, <3>4
    <3>5. CASE pc = "persist" /\ Ingest
      <4>1. current # NoEvent
        BY <3>5, InHand DEF PipelineTypes
      <4>2. current = published[First]
        BY <2>3, <4>1 DEF HandInv, InHandIsFirst
      <4>3. current.time \in Nat /\ current.time <= published[k].time /\ published[k].time \in Nat
        BY <1>2, <2>4, <2>6, <3>1, <4>1, <4>2 DEF ClockInv
      <4>4. \/ i \in DOMAIN tables.current /\ tables'.current[i] = tables.current[i]
            \/ tables'.current[i].last = current.time
        BY <3>5, IngestedRows
      <4> QED  BY <1>1, <3>1, <3>2, <4>3, <4>4
    <3> QED  BY <3>3, <3>4, <3>5, TablesStep
  <2>7. CASE k \notin 1..Len(published)
    <3>1. PICK c \in unpublished : Publish(c)
      BY <1>5, <2>4, <2>5, <2>7, LogStep
    <3>2. PICK e \in Event : e.time = clock' /\ published' = Append(published, e)
      BY <3>1, PublishedEvent DEF PipelineTypes
    <3>3. published \in Seq(Event)
      BY DEF PipelineTypes, TypeOK
    <3>4. published'[k] = e
      BY <1>5, <2>4, <2>5, <2>7, <3>2, <3>3
    <3> QED  BY <1>4, <3>2, <3>4
  <2> QED  BY <2>6, <2>7
<1> QED
  BY <1>3, <1>4, <1>5 DEF SeenInv

-----------------------------------------------------------------------------
(* Order of the events of one item.                                        *)

DeleteIn(pending, i) == \E c \in pending : c.type = "deleted" /\ c.id = i

\* A "created" that the client has still to store is followed by a "deleted"
\* when the row is gone, unless the item is known to be missed.
OrderInv ==
    Healthy =>
      \A k \in First..Len(published) :
         /\ published[k].type = "created"
         /\ published[k].id \notin Live
         /\ published[k].id \notin missed
         => \/ \E j \in (k + 1)..Len(published) :
                 published[j].type = "deleted" /\ published[j].id = published[k].id
            \/ DeleteIn(unpublished, published[k].id)

\* The steps of the client leave the backend's tables and log alone, and
\* only a new snapshot forgets what was missed.
LEMMA ClientLeaves ==
  ASSUME [PipelineNext]_vars, ~BackendStep
  PROVE  /\ UNCHANGED <<items, unpublished, published, clock>>
         /\ pc # "list" => missed \subseteq missed'
<1> USE DEF tableVars, logVars, streamVars, backendVars
<1>1. ASSUME NEW s, OpenWatch(s) \/ Recv(s) \/ CloseWatch(s)
      PROVE  UNCHANGED <<items, unpublished, published, clock>>
  BY <1>1 DEF OpenWatch, Recv, CloseWatch
<1>2. CASE ListItems \/ ListItemsFails \/ Reconcile \/ ReconcileFails \/ OpenStreamFails \/ Retry
  BY <1>2 DEF ListItems, ListItemsFails, Reconcile, ReconcileFails, OpenStreamFails, Retry
<1>3. CASE (\E s \in Streams : OpenStream(s)) \/ RecvEvent \/ RecvError
  BY <1>1, <1>3 DEF OpenStream, RecvEvent, RecvError
<1>4. CASE Persist \/ PersistFails
  BY <1>4 DEF Persist, PersistFails, Ingest
<1>5. CASE AnalyticsRestart \/ DatabaseDown \/ DatabaseUp \/ UNCHANGED vars
  BY <1>5 DEF AnalyticsRestart, DatabaseDown, DatabaseUp, vars, clientVars
<1> QED
  BY <1>2, <1>3, <1>4, <1>5 DEF PipelineNext, ClientStep

\* An item that a step of the backend other than publish() removes is
\* announced or missed, and what was announced stays so.
LEMMA RemovalsAnnounced ==
  ASSUME PipelineTypes, BackendStep, Healthy', UNCHANGED published,
         ~\E c \in unpublished : Publish(c),
         NEW i \in Ids, i \notin Live', i \notin missed'
  PROVE  /\ i \notin missed
         /\ i \in Live => DeleteIn(unpublished', i)
         /\ DeleteIn(unpublished, i) => DeleteIn(unpublished', i)
<1> USE DEF tableVars, logVars, streamVars, backendVars
<1>1. items \in [Ids -> Names \cup {NoName}] /\ NoName \notin Names
  BY BackendAssumption DEF PipelineTypes, TypeOK
<1>2. ASSUME NEW n \in Names, CreateItem(n) \/ SeedItem(n)
      PROVE  Live \subseteq Live' /\ unpublished \subseteq unpublished'
  BY <1>1, <1>2 DEF CreateItem, SeedItem, Live
<1>3. CASE (\E n \in Names : CreateItem(n) /\ UNCHANGED missed)
           \/ (\E n \in Names : SeedItem(n) /\ missed' = missed \cup {nextId})
  BY <1>2, <1>3 DEF DeleteIn
<1>4. ASSUME NEW j \in Ids, DeleteItem(j), UNCHANGED missed
      PROVE  /\ i \notin missed
             /\ i \in Live => DeleteIn(unpublished', i)
             /\ DeleteIn(unpublished, i) => DeleteIn(unpublished', i)
  <2>1. [type |-> "deleted", id |-> j, name |-> items[j]] \in unpublished'
    BY <1>4 DEF DeleteItem
  <2>2. DeleteIn(unpublished', j)
    BY <2>1 DEF DeleteIn
  <2>3. i # j /\ i \in Live => i \in Live'
    BY <1>1, <1>4 DEF DeleteItem, Live
  <2>4. unpublished \subseteq unpublished'
    BY <1>4 DEF DeleteItem
  <2> QED  BY <1>4, <2>2, <2>3, <2>4 DEF DeleteIn
<1>5. CASE ResetItems /\ missed' = missed \cup Live
  BY <1>5 DEF ResetItems, DeleteIn
<1>6. ASSUME UNCHANGED <<items, unpublished, missed>>
      PROVE  /\ i \notin missed
             /\ i \in Live => DeleteIn(unpublished', i)
             /\ DeleteIn(unpublished, i) => DeleteIn(unpublished', i)
  BY <1>6 DEF DeleteIn, Live
<1>7. ASSUME NEW s \in Streams, HandlerStep(s) \/ LinkDrop(s)
      PROVE  UNCHANGED <<items, unpublished>>
  BY <1>7 DEF HandlerStep, Subscribe, Yield, EndStream, CancelHandler, Leave, LinkDrop
<1>8. ~BackendRestart
  BY DEF BackendRestart, Healthy, Attached
<1> QED
  BY <1>3, <1>4, <1>5, <1>6, <1>7, <1>8 DEF BackendStep, PublishChange

\* A create published after its delete makes the item one that was missed.
LEMMA OrderInductive ==
  ASSUME PipelineTypes, BackendInv, HandInv, OrderInv, [PipelineNext]_vars
  PROVE  OrderInv'
<1> SUFFICES ASSUME Healthy', NEW k \in First'..Len(published'),
                    published'[k].type = "created",
                    published'[k].id \notin Live',
                    published'[k].id \notin missed'
             PROVE  \/ \E j \in (k + 1)..Len(published') :
                         /\ published'[j].type = "deleted"
                         /\ published'[j].id = published'[k].id
                    \/ DeleteIn(unpublished', published'[k].id)
  BY DEF OrderInv, DeleteIn
<1>1. stream' = stream /\ stream \in Streams /\ (Begins \/ Continues)
  BY HealthySteps
<1>2. /\ Len(published) \in Nat /\ Len(published') \in Nat
      /\ Len(published) <= Len(published')
      /\ \A j \in 1..Len(published) : published'[j] = published[j]
  BY LogGrows
<1>3. ~Begins
  BY <1>2 DEF Begins, Subscribe, logVars
<1>4. Healthy /\ (Stays \/ Receives \/ Persists)
  BY <1>1, <1>3 DEF Continues
<1>5. First \in Nat \ {0} /\ Arrived \in Nat /\ First <= Arrived /\ Arrived <= Len(published) + 1
  BY <1>4, FirstInLog
<1>6. First' \in Nat /\ First <= First' /\ k \in Nat /\ First <= k
  BY <1>4, <1>5 DEF Stays, Receives, Persists
<1>7. pc # "list"
  <2>1. stream # NoStream
    BY <1>1, PipelineAssumption
  <2> QED  BY <2>1 DEF PipelineTypes, ClientOK
<1> DEFINE i == published[k].id
<1>8. ASSUME k <= Len(published)
      PROVE  /\ k \in First..Len(published) /\ published'[k] = published[k] /\ i \in Ids
             /\ i \notin Live' /\ i \notin missed'
             /\ i \notin Live /\ i \notin missed
                => \/ \E j \in (k + 1)..Len(published') :
                        published'[j].type = "deleted" /\ published'[j].id = i
                   \/ DeleteIn(unpublished, i)
  <2>1. k \in 1..Len(published) /\ k \in First..Len(published)
    BY <1>2, <1>5, <1>6, <1>8
  <2>2. published'[k] = published[k]
    BY <1>2, <2>1
  <2>3. i \in Ids
    BY <2>1, IdsOfChanges DEF PipelineTypes
  <2>4. ASSUME i \notin Live, i \notin missed
        PROVE  \/ \E j \in (k + 1)..Len(published) :
                    published[j].type = "deleted" /\ published[j].id = i
               \/ DeleteIn(unpublished, i)
    BY <1>4, <2>1, <2>2, <2>4 DEF OrderInv
  <2>5. \A j \in (k + 1)..Len(published) :
          j \in (k + 1)..Len(published') /\ published'[j] = published[j]
    BY <1>2, <2>1
  <2> QED  BY <2>1, <2>2, <2>3, <2>4, <2>5
<1>9. CASE ~BackendStep
  <2>1. UNCHANGED <<items, unpublished, published>> /\ missed \subseteq missed'
    BY <1>7, <1>9, ClientLeaves
  <2>2. k <= Len(published)
    BY <2>1, <1>2
  <2> QED  BY <1>8, <2>1, <2>2 DEF DeleteIn, Live
<1>10. CASE BackendStep /\ ~\E c \in unpublished : Publish(c)
  <2>1. UNCHANGED published
    BY <1>10, LogStep
  <2>2. k <= Len(published)
    BY <2>1, <1>2
  <2>3. /\ i \notin missed
        /\ i \in Live => DeleteIn(unpublished', i)
        /\ DeleteIn(unpublished, i) => DeleteIn(unpublished', i)
    BY <1>8, <1>10, <2>1, <2>2, RemovalsAnnounced
  <2> QED  BY <1>8, <2>2, <2>3
<1>11. ASSUME BackendStep, NEW c0 \in unpublished, Publish(c0)
       PROVE  \/ \E j \in (k + 1)..Len(published') :
                   /\ published'[j].type = "deleted"
                   /\ published'[j].id = published'[k].id
              \/ DeleteIn(unpublished', published'[k].id)
  <2>1. PICK c \in unpublished : PublishChange(c)
    <3>1. unpublished' # unpublished /\ Len(published') = Len(published) + 1
      <4>1. PICK e \in Event : published' = Append(published, e)
        BY <1>11, PublishedEvent DEF PipelineTypes
      <4> QED  BY <1>11, <4>1 DEF Publish, PipelineTypes, TypeOK
    <3>2. published' # published
      BY <1>2, <3>1
    <3> USE DEF tableVars, logVars, streamVars, backendVars
    <3> QED
      BY <1>11, <3>2 DEF BackendStep, CreateItem, DeleteItem, SeedItem, ResetItems,
         HandlerStep, Subscribe, Yield, EndStream, CancelHandler, Leave, LinkDrop,
         BackendRestart
  <2>2. PICK e \in Event : /\ e.type = c.type /\ e.id = c.id
                           /\ published' = Append(published, e)
    BY <2>1, PublishedEvent DEF PublishChange, PipelineTypes
  <2>3. published \in Seq(Event)
    BY DEF PipelineTypes, TypeOK
  <2>4. Len(published') = Len(published) + 1 /\ published'[Len(published) + 1] = e
    BY <2>2, <2>3
  <2>5. UNCHANGED items /\ unpublished' = unpublished \ {c} /\ missed \subseteq missed'
    BY <2>1 DEF PublishChange, Publish, tableVars
  <2>6. CASE k <= Len(published)
    <3>1. i \notin Live /\ i \notin missed
      BY <1>8, <2>5, <2>6 DEF Live
    <3>2. CASE DeleteIn(unpublished, i)
      <4>1. PICK d \in unpublished : d.type = "deleted" /\ d.id = i
        BY <3>2 DEF DeleteIn
      <4>2. CASE d = c
        <5>1. /\ Len(published) + 1 \in (k + 1)..Len(published')
              /\ published'[Len(published) + 1].type = "deleted"
              /\ published'[Len(published) + 1].id = i
          BY <1>2, <1>6, <2>2, <2>4, <2>6, <4>1, <4>2
        <5> QED  BY <1>8, <2>6, <5>1
      <4>3. CASE d # c
        <5>1. d \in unpublished'
          BY <2>5, <4>3
        <5>2. DeleteIn(unpublished', i)
          BY <4>1, <5>1 DEF DeleteIn
        <5> QED  BY <1>8, <2>6, <5>2
      <4> QED  BY <4>2, <4>3
    <3> QED  BY <1>8, <2>6, <3>1, <3>2
  <2>7. CASE ~(k <= Len(published))
    <3>1. k = Len(published) + 1 /\ published'[k] = e
      BY <1>2, <1>6, <2>4, <2>7
    <3>2. c.type = "created" /\ c.id \notin Live /\ c.id \notin missed'
      BY <2>2, <2>5, <3>1 DEF Live
    <3>3. ~Overtaken(c)
      BY <2>1, <3>2 DEF PublishChange
    <3>4. PICK d \in unpublished : d.id = c.id /\ d # c
      BY <3>2, <3>3 DEF Overtaken
    <3>5. d.type = "deleted"
      <4>1. PendingDistinct /\ unpublished \subseteq Change
        BY DEF BackendInv, CommitInv, TypeOK
      <4>2. d.type \in {"created", "deleted"}
        BY <4>1 DEF Change
      <4> QED  BY <3>2, <3>4, <4>1, <4>2 DEF PendingDistinct
    <3>6. DeleteIn(unpublished', c.id)
      BY <2>5, <3>4, <3>5 DEF DeleteIn
    <3> QED  BY <2>2, <3>1, <3>6
  <2> QED  BY <2>6, <2>7
<1> QED
  BY <1>9, <1>10, <1>11

-----------------------------------------------------------------------------
(* The mirror.                                                             *)

\* Row i of current_items tells that the item's name is n (NoName: gone).
RowAgrees(cur, n, i) ==
    IF n # NoName
    THEN i \in DOMAIN cur /\ cur[i].name = n /\ cur[i].gone = FALSE
    ELSE i \notin DOMAIN cur \/ cur[i].gone = TRUE

SnapAgrees(i) ==
    IF items[i] # NoName THEN i \in DOMAIN snapshot /\ snapshot[i] = items[i]
                         ELSE i \notin DOMAIN snapshot

\* An event about i is still to come, or was missed.
Unsure(i) == i \in missed \/ \E c \in unpublished : c.id = i

\* An event about i is on its way to the tables.
InLog(i) == \E k \in First..Len(published) : published[k].id = i

\* The call is on its way, the handler has not subscribed.
Opening == /\ stream \in Streams
           /\ link[stream] = "up"
           /\ handler[stream] = "starting"

\* From the snapshot on, the snapshot, then the mirror, is right about every
\* item that is not unsure; with a healthy stream also an event on its way
\* excuses it.
Right(i) ==
    /\ pc = "reconcile" => SnapAgrees(i)
    /\ pc = "open" \/ Opening => RowAgrees(tables.current, items[i], i)
    /\ Healthy => InLog(i) \/ RowAgrees(tables.current, items[i], i)

MirrorInv == \A i \in Ids : Unsure(i) \/ Right(i)

\* What a step of the backend changes becomes unsure, or goes on its way.
LEMMA BackendSettles ==
  ASSUME PipelineTypes, BackendStep, NEW i \in Ids, ~Unsure(i)'
  PROVE  /\ items'[i] = items[i]
         /\ \/ ~Unsure(i)
            \/ Attached /\ \E c \in unpublished : Publish(c) /\ c.id = i
<1> USE DEF tableVars, logVars, streamVars, backendVars
<1>1. items \in [Ids -> Names \cup {NoName}]
  BY DEF PipelineTypes, TypeOK
<1>2. i \notin missed' /\ \A c \in unpublished' : c.id # i
  BY DEF Unsure
<1>3. ASSUME NEW n \in Names, CreateItem(n), UNCHANGED missed
      PROVE  items'[i] = items[i] /\ ~Unsure(i)
  <2>1. [type |-> "created", id |-> nextId, name |-> n] \in unpublished'
    BY <1>3 DEF CreateItem
  <2>2. i # nextId
    BY <1>2, <2>1
  <2> QED  BY <1>1, <1>2, <1>3, <2>2 DEF CreateItem, Unsure
<1>4. ASSUME NEW j \in Ids, DeleteItem(j), UNCHANGED missed
      PROVE  items'[i] = items[i] /\ ~Unsure(i)
  <2>1. [type |-> "deleted", id |-> j, name |-> items[j]] \in unpublished'
    BY <1>4 DEF DeleteItem
  <2>2. i # j
    BY <1>2, <2>1
  <2> QED  BY <1>1, <1>2, <1>4, <2>2 DEF DeleteItem, Unsure
<1>5. ASSUME NEW n \in Names, SeedItem(n), missed' = missed \cup {nextId}
      PROVE  items'[i] = items[i] /\ ~Unsure(i)
  BY <1>1, <1>2, <1>5 DEF SeedItem, Unsure
<1>6. ASSUME ResetItems, missed' = missed \cup Live
      PROVE  items'[i] = items[i] /\ ~Unsure(i)
  BY <1>1, <1>2, <1>6 DEF ResetItems, Unsure, Live
<1>7. ASSUME NEW c \in unpublished, PublishChange(c)
      PROVE  /\ items'[i] = items[i]
             /\ \/ ~Unsure(i)
                \/ Attached /\ \E d \in unpublished : Publish(d) /\ d.id = i
  BY <1>2, <1>7 DEF PublishChange, Publish, Unsure
<1>8. ASSUME NEW s \in Streams, HandlerStep(s) \/ LinkDrop(s), UNCHANGED missed
      PROVE  items'[i] = items[i] /\ ~Unsure(i)
  <2>1. UNCHANGED <<items, unpublished>>
    BY <1>8 DEF HandlerStep, Subscribe, Yield, EndStream, CancelHandler, Leave, LinkDrop
  <2> QED  BY <1>2, <1>8, <2>1 DEF Unsure
<1>9. ASSUME BackendRestart, missed' = missed \cup {c.id : c \in unpublished}
      PROVE  items'[i] = items[i] /\ ~Unsure(i)
  BY <1>2, <1>9 DEF BackendRestart, Unsure
<1> QED
  BY <1>3, <1>4, <1>5, <1>6, <1>7, <1>8, <1>9 DEF BackendStep

\* An event stays on its way until the client's position has passed it.
LEMMA StaysInLog ==
  ASSUME PipelineTypes, BackendInv, HandInv, Healthy, [PipelineNext]_vars, First' = First,
         NEW i, InLog(i)
  PROVE  InLog(i)'
<1>1. PICK k \in First..Len(published) : published[k].id = i
  BY DEF InLog
<1>2. First \in Nat \ {0}
  BY FirstInLog
<1>3. /\ Len(published) \in Nat /\ Len(published') \in Nat
      /\ Len(published) <= Len(published')
      /\ \A j \in 1..Len(published) : published'[j] = published[j]
  BY LogGrows
<1>4. k \in First'..Len(published') /\ published'[k].id = i
  BY <1>1, <1>2, <1>3
<1> QED
  BY <1>4 DEF InLog

\* A published event is on its way to an attached client.
LEMMA PublishedInLog ==
  ASSUME PipelineTypes, BackendInv, HandInv, Healthy, First' = First,
         NEW c \in unpublished, Publish(c)
  PROVE  InLog(c.id)'
<1>1. PICK e \in Event : e.id = c.id /\ published' = Append(published, e)
  BY PublishedEvent DEF PipelineTypes
<1>2. published \in Seq(Event)
  BY DEF PipelineTypes, TypeOK
<1>3. First \in Nat \ {0} /\ First <= Len(published) + 1
  BY <1>2, FirstInLog
<1>4. /\ Len(published) + 1 \in First'..Len(published')
      /\ published'[Len(published) + 1].id = c.id
  BY <1>1, <1>2, <1>3
<1> QED
  BY <1>4 DEF InLog

\* The heart of it: storing the last event about an item makes its row right.
LEMMA PersistAgrees ==
  ASSUME PipelineTypes, BackendInv, HandInv, NameInv, ClockInv, SeenInv, OrderInv,
         Healthy, pc = "persist", Ingest, current.id \notin missed',
         ~\E c \in unpublished : c.id = current.id,
         \A k \in (First + 1)..Len(published) : published[k].id # current.id
  PROVE  RowAgrees(tables'.current, items[current.id], current.id)
<1> DEFINE i == current.id
<1>1. current # NoEvent /\ current \in Event
  BY InHand DEF PipelineTypes
<1>2. current = published[First]
  BY <1>1 DEF HandInv, InHandIsFirst
<1>3. First \in 1..Len(published) /\ Len(published) \in Nat
  <2>1. /\ First \in Nat \ {0} /\ Arrived \in Nat /\ Arrived <= Len(published) + 1
        /\ Len(published) \in Nat
    BY FirstInLog, TimesAreNat
  <2>2. First = Arrived - 1
    BY <1>1 DEF First
  <2> QED  BY <2>1, <2>2
<1>4. i \in Ids /\ current.type \in {"created", "deleted"} /\ current.time \in Nat
  BY <1>1 DEF Event
<1>5. i \notin missed /\ ~LostToSkew(current)
  BY DEF Ingest
<1>6. ~(i \in DOMAIN tables.current /\ current.time < tables.current[i].last)
  <2>1. i \in DOMAIN tables.current => tables.current[i].last <= current.time + Skew
    BY <1>2, <1>3 DEF SeenInv
  <2> QED  BY <1>5, <2>1 DEF LostToSkew
<1>7. /\ i \in DOMAIN tables'.current
      /\ tables'.current[i].name = current.name
      /\ tables'.current[i].gone = (current.type = "deleted")
  BY <1>6, IngestedRows
<1>8. CASE current.type = "deleted"
  <2>1. items[i] = NoName
    BY <1>2, <1>3, <1>8 DEF BackendInv, CommitInv, EmitAfterCommit
  <2>2. tables'.current[i].gone = TRUE
    BY <1>7, <1>8, Zenon
  <2> QED  BY <2>1, <2>2 DEF RowAgrees
<1>9. CASE current.type = "created"
  <2>1. tables'.current[i].gone = FALSE
    <3>1. current.type # "deleted"
      BY <1>9
    <3> QED  BY <1>7, <3>1, Zenon
  <2>2. CASE items[i] # NoName
    <3>1. current.name = items[i]
      BY <1>2, <1>3, <1>9, <2>2 DEF NameInv
    <3> QED  BY <1>7, <2>1, <2>2, <3>1 DEF RowAgrees
  <2>3. CASE items[i] = NoName
    <3>1. i \notin Live
      BY <2>3 DEF Live
    <3>2. First \in First..Len(published)
      BY <1>3
    <3>3. \/ \E j \in (First + 1)..Len(published) :
               published[j].type = "deleted" /\ published[j].id = i
          \/ DeleteIn(unpublished, i)
      BY <1>2, <1>5, <1>9, <3>1, <3>2 DEF OrderInv
    <3> QED  BY <3>3 DEF DeleteIn
  <2> QED  BY <2>2, <2>3
<1> QED
  BY <1>4, <1>8, <1>9

\* A row that a persist is not about is left alone.
LEMMA PersistLeaves ==
  ASSUME PipelineTypes, pc = "persist", Ingest, NEW i, i # current.id, NEW n,
         RowAgrees(tables.current, n, i)
  PROVE  RowAgrees(tables'.current, n, i)
<1>1. i \in DOMAIN tables'.current <=> i \in DOMAIN tables.current
  BY IngestedRows
<1>2. i \in DOMAIN tables.current => tables'.current[i] = tables.current[i]
  BY IngestedRows
<1> QED
  BY <1>1, <1>2 DEF RowAgrees

\* Where the client has neither a snapshot nor a stream nothing is promised.
LEMMA NothingPromised ==
  ASSUME TypeOK', stream' = NoStream, pc' \notin {"reconcile", "open"}, NEW i
  PROVE  Right(i)'
<1>1. stream' \notin Streams /\ stream' \notin subscribers'
  BY PipelineAssumption DEF TypeOK
<1> QED
  BY <1>1 DEF Right, Opening, Healthy, Attached

\* The steps of the backend.
LEMMA BackendKeepsMirror ==
  ASSUME PipelineTypes, BackendInv, HandInv, MirrorInv, BackendStep,
         NEW i \in Ids, ~Unsure(i)'
  PROVE  Right(i)'
<1> USE DEF tableVars, logVars, streamVars, backendVars
<1>1. UNCHANGED <<pc, snapshot, stream, current, tables>>
  BY DEF BackendStep, OtherThanMissed
<1>2. /\ items'[i] = items[i]
      /\ ~Unsure(i) \/ (Attached /\ \E c \in unpublished : Publish(c) /\ c.id = i)
  BY BackendSettles
<1>3. TypeOK /\ ClientOK
  BY DEF PipelineTypes
<1>4. ASSUME ~Attached PROVE ~Unsure(i) /\ Right(i)
  BY <1>2, <1>4 DEF MirrorInv
<1>5. ASSUME pc \in {"reconcile", "open"} PROVE ~Attached
  BY <1>3, <1>5, PipelineAssumption DEF ClientOK, Attached, TypeOK
<1>6. ASSUME Opening PROVE ~Attached
  <2>1. QueueAt(stream) /\ handler[stream] = "starting"
    BY <1>6 DEF Opening, BackendInv, StreamInv, StreamAt
  <2> QED  BY <2>1 DEF QueueAt, Attached
<1>7. ASSUME Opening' PROVE Opening
  <2>1. stream \in Streams /\ link'[stream] = "up" /\ handler'[stream] = "starting"
    BY <1>1, <1>7 DEF Opening
  <2>2. ASSUME UNCHANGED <<handler, link>> PROVE Opening
    BY <2>1, <2>2 DEF Opening
  <2>3. ASSUME NEW s \in Streams, HandlerStep(s) \/ LinkDrop(s) PROVE Opening
    BY <1>3, <2>1, <2>3 DEF Opening, HandlerStep, Subscribe, Yield, EndStream,
       CancelHandler, Leave, LinkDrop, TypeOK
  <2>4. ~BackendRestart
    BY <2>1 DEF BackendRestart
  <2> QED
    BY <2>2, <2>3, <2>4 DEF BackendStep, CreateItem, DeleteItem, SeedItem, ResetItems,
       PublishChange, Publish
<1>8. ASSUME pc' = "reconcile" PROVE SnapAgrees(i)'
  BY <1>1, <1>2, <1>4, <1>5, <1>8 DEF Right, SnapAgrees
<1>9. ASSUME pc' = "open" \/ Opening' PROVE RowAgrees(tables'.current, items'[i], i)
  BY <1>1, <1>2, <1>4, <1>5, <1>6, <1>7, <1>9 DEF Right
<1>10. ASSUME Healthy' PROVE InLog(i)' \/ RowAgrees(tables'.current, items'[i], i)
  <2>1. [PipelineNext]_vars
    BY DEF PipelineNext
  <2>2. Begins \/ Continues
    BY <1>10, <2>1, HealthySteps
  <2>3. CASE Begins
    <3>1. Opening
      <4>1. stream \in Streams
        BY <1>10, <2>1, HealthySteps
      <4> QED  BY <2>3, <4>1 DEF Begins, Subscribe, Opening
    <3> QED  BY <1>1, <1>2, <1>4, <1>6, <3>1 DEF Right
  <2>4. CASE Continues
    <3>1. Healthy /\ First' = First
      BY <1>1, <2>4 DEF Continues, Stays, Receives, Persists, Persist
    <3>2. CASE Unsure(i)
      BY <1>2, <3>1, <3>2, PublishedInLog
    <3>3. CASE ~Unsure(i)
      <4>1. InLog(i) \/ RowAgrees(tables.current, items[i], i)
        BY <3>1, <3>3 DEF MirrorInv, Right
      <4> QED  BY <1>1, <1>2, <2>1, <3>1, <4>1, StaysInLog
    <3> QED  BY <3>2, <3>3
  <2> QED  BY <2>2, <2>3, <2>4
<1> QED
  BY <1>8, <1>9, <1>10 DEF Right

\* A persist, acknowledged or not.
LEMMA PersistKeepsMirror ==
  ASSUME PipelineTypes, BackendInv, HandInv, NameInv, ClockInv, SeenInv, OrderInv, MirrorInv,
         Persist \/ PersistFails, NEW i \in Ids, ~Unsure(i)'
  PROVE  Right(i)'
<1> USE DEF tableVars, logVars, streamVars, backendVars
<1>1. /\ pc = "persist" /\ pc' \in {"recv", "persist"}
      /\ UNCHANGED <<items, unpublished, published, stream, handler, link, subscribers>>
      /\ missed \subseteq missed'
      /\ Ingest \/ UNCHANGED tables
  BY DEF Persist, PersistFails, Ingest
<1>2. ~Unsure(i)
  BY <1>1 DEF Unsure
<1>3. ~Opening'
  BY <1>1 DEF Opening, HandInv, StartingIdle
<1>4. ASSUME Healthy' PROVE InLog(i)' \/ RowAgrees(tables'.current, items'[i], i)
  <2>1. [PipelineNext]_vars
    BY DEF PipelineNext, ClientStep
  <2>2. Healthy
    BY <1>1, <1>4 DEF Healthy, Attached
  <2>3. current # NoEvent /\ current \in Event
    BY <1>1, InHand DEF PipelineTypes
  <2>4. current = published[First]
    BY <2>2, <2>3 DEF HandInv, InHandIsFirst
  <2>5. First \in Nat \ {0} /\ First <= Len(published) /\ Len(published) \in Nat
    <3>1. /\ First \in Nat \ {0} /\ Arrived \in Nat /\ Arrived <= Len(published) + 1
          /\ Len(published) \in Nat
      BY <2>2, FirstInLog, TimesAreNat
    <3>2. First = Arrived - 1
      BY <2>3 DEF First
    <3> QED  BY <3>1, <3>2
  <2>6. \/ First' = First
        \/ First' = First + 1 /\ Persist
    <3>1. Begins \/ Continues
      BY <1>4, <2>1, HealthySteps
    <3>2. ~Begins
      BY <2>3 DEF Begins
    <3> QED  BY <3>1, <3>2 DEF Continues, Stays, Receives, Persists
  <2>7. InLog(i) \/ RowAgrees(tables.current, items[i], i)
    BY <1>2, <2>2 DEF MirrorInv, Right
  <2>8. CASE First' = First
    <3>1. CASE i = current.id
      <4>1. First \in First'..Len(published') /\ published'[First].id = i
        BY <1>1, <2>4, <2>5, <2>8, <3>1
      <4> QED  BY <4>1 DEF InLog
    <3>2. CASE i # current.id
      BY <1>1, <2>1, <2>2, <2>7, <2>8, <3>2, StaysInLog, PersistLeaves
    <3> QED  BY <3>1, <3>2
  <2>9. CASE First' = First + 1 /\ Persist
    <3>1. Ingest
      BY <2>9 DEF Persist
    <3>2. CASE i = current.id
      <4> SUFFICES ASSUME ~InLog(i)' PROVE RowAgrees(tables'.current, items'[i], i)
        OBVIOUS
      <4>1. \A k \in (First + 1)..Len(published) : published[k].id # current.id
        BY <1>1, <2>9, <3>2 DEF InLog
      <4>2. current.id \notin missed' /\ ~\E c \in unpublished : c.id = current.id
        BY <1>1, <3>2 DEF Unsure
      <4> QED  BY <1>1, <2>2, <3>1, <3>2, <4>1, <4>2, PersistAgrees
    <3>3. CASE i # current.id
      <4>1. CASE InLog(i)
        <5>1. PICK k \in First..Len(published) : published[k].id = i
          BY <4>1 DEF InLog
        <5>2. k # First
          BY <2>4, <3>3, <5>1
        <5>3. k \in First'..Len(published') /\ published'[k].id = i
          BY <1>1, <2>5, <2>9, <5>1, <5>2
        <5> QED  BY <5>3 DEF InLog
      <4>2. CASE RowAgrees(tables.current, items[i], i)
        BY <1>1, <3>1, <3>3, <4>2, PersistLeaves
      <4> QED  BY <2>7, <4>1, <4>2
    <3> QED  BY <3>2, <3>3
  <2> QED  BY <2>6, <2>8, <2>9
<1> QED
  BY <1>1, <1>3, <1>4 DEF Right

\* The other steps of the client.
LEMMA ClientKeepsMirror ==
  ASSUME PipelineTypes, BackendInv, HandInv, MirrorInv, [PipelineNext]_vars,
         ~BackendStep, ~Persist, ~PersistFails, NEW i \in Ids, ~Unsure(i)'
  PROVE  Right(i)'
<1> USE DEF tableVars, logVars, streamVars, backendVars
<1>1. UNCHANGED <<items, unpublished, published>> /\ (pc # "list" => missed \subseteq missed')
  BY ClientLeaves
<1>2. ASSUME pc # "list" PROVE ~Unsure(i) /\ Right(i)
  BY <1>1, <1>2 DEF Unsure, MirrorInv
<1>3. ClientOK /\ TypeOK'
  BY TypesInductive DEF PipelineTypes
<1>4. CASE ListItems
  <2>1. SnapAgrees(i)'
    BY <1>1, <1>4 DEF ListItems, SnapAgrees, Live
  <2>2. stream' = NoStream /\ pc' = "reconcile"
    BY <1>3, <1>4 DEF ListItems, ClientOK
  <2>3. stream' \notin Streams /\ stream' \notin subscribers'
    BY <1>3, <2>2, PipelineAssumption DEF TypeOK
  <2> QED  BY <2>1, <2>2, <2>3 DEF Right, Opening, Healthy, Attached
<1>5. CASE Reconcile
  <2>1. pc = "reconcile" /\ tables' = Reconciled /\ pc' = "open" /\ stream' = NoStream
    BY <1>3, <1>5 DEF Reconcile, ClientOK
  <2>2. SnapAgrees(i)
    BY <1>2, <2>1 DEF Right
  <2>3. RowAgrees(tables'.current, items[i], i)
    <3>1. CASE i \in DOMAIN snapshot
      BY <2>1, <2>2, <3>1, ReconciledRows DEF RowAgrees, SnapAgrees
    <3>2. CASE i \notin DOMAIN snapshot
      BY <2>1, <2>2, <3>2, ReconciledRows DEF RowAgrees, SnapAgrees
    <3> QED  BY <3>1, <3>2
  <2>4. stream' \notin subscribers'
    BY <1>3, <2>1, PipelineAssumption DEF TypeOK
  <2> QED  BY <1>1, <2>1, <2>3, <2>4 DEF Right, Healthy, Attached
<1>6. CASE ListItemsFails \/ ReconcileFails \/ OpenStreamFails \/ RecvError \/ Retry
           \/ AnalyticsRestart
  <2>1. stream' = NoStream /\ pc' \in {"list", "backoff"}
    BY <1>3, <1>6 DEF ListItemsFails, ReconcileFails, OpenStreamFails, RecvError, Retry,
       AnalyticsRestart, ClientOK
  <2> QED  BY <1>3, <2>1, NothingPromised
<1>7. ASSUME NEW s \in Streams, OpenStream(s) PROVE Right(i)'
  <2>1. pc = "open" /\ pc' = "recv" /\ UNCHANGED tables
    BY <1>7 DEF OpenStream
  <2>2. RowAgrees(tables.current, items[i], i)
    BY <1>2, <2>1 DEF Right
  <2> QED  BY <1>1, <2>1, <2>2 DEF Right
<1>8. CASE RecvEvent
  <2>1. /\ pc = "recv" /\ pc' = "persist"
        /\ UNCHANGED <<stream, tables, handler, link, subscribers>>
    BY <1>8 DEF RecvEvent, Recv
  <2>2. Right(i)
    BY <1>2, <2>1
  <2>3. Opening' => RowAgrees(tables'.current, items'[i], i)
    BY <1>1, <2>1, <2>2 DEF Opening, Right
  <2>4. ASSUME Healthy' PROVE InLog(i)' \/ RowAgrees(tables'.current, items'[i], i)
    <3>1. Begins \/ Continues
      BY <2>4, HealthySteps
    <3>2. Healthy /\ First' = First
      BY <2>1, <3>1 DEF Begins, clientVars, Continues, Stays, Receives, Persists, Persist
    <3> QED  BY <1>1, <2>1, <2>2, <3>2, StaysInLog DEF Right
  <2> QED  BY <2>1, <2>3, <2>4 DEF Right
<1>9. CASE DatabaseDown \/ DatabaseUp \/ UNCHANGED vars
  <2>1. /\ UNCHANGED <<pc, snapshot, stream, current, tables, missed>>
        /\ UNCHANGED <<items, unpublished, published, subscribers, handler, link, wire, owed>>
    BY <1>9 DEF DatabaseDown, DatabaseUp, vars, clientVars
  <2>2. ~Unsure(i)
    BY <2>1 DEF Unsure
  <2>3. Right(i)
    BY <2>2 DEF MirrorInv
  <2> QED  BY <2>1, <2>3 DEF Right, SnapAgrees, Opening, Healthy, Attached, InLog, First, Arrived
<1> QED
  BY <1>4, <1>5, <1>6, <1>7, <1>8, <1>9 DEF PipelineNext, ClientStep

\* All that the mirror's correctness rests on.
MirrorGrounds == NameInv /\ ClockInv /\ SeenInv /\ OrderInv /\ MirrorInv

\* It is inductive.
LEMMA MirrorInductive ==
  ASSUME PipelineTypes, BackendInv, HandInv, MirrorGrounds, [PipelineNext]_vars
  PROVE  MirrorGrounds'
<1> USE DEF MirrorGrounds
<1>1. NameInv' /\ ClockInv' /\ SeenInv' /\ OrderInv'
  BY NamesInductive, ClockInductive, SeenInductive, OrderInductive
<1>2. ASSUME NEW i \in Ids, ~Unsure(i)' PROVE Right(i)'
  BY <1>2, BackendKeepsMirror, PersistKeepsMirror, ClientKeepsMirror
<1>3. MirrorInv'
  BY <1>2 DEF MirrorInv
<1> QED
  BY <1>1, <1>3

\* It holds initially.
LEMMA MirrorInitially == PipelineInit => MirrorGrounds
<1> SUFFICES ASSUME PipelineInit PROVE MirrorGrounds
  OBVIOUS
<1> USE DEF PipelineInit, Init
<1>1. ~Healthy /\ ~Opening
  BY PipelineAssumption DEF Healthy, Attached, Opening
<1>2. NameInv
  BY DEF NameInv
<1>3. ClockInv
  BY DEF ClockInv
<1>4. SeenInv
  BY <1>1 DEF SeenInv, EmptyTables
<1>5. OrderInv
  BY <1>1 DEF OrderInv
<1>6. MirrorInv
  BY <1>1 DEF MirrorInv, Right
<1> QED
  BY <1>2, <1>3, <1>4, <1>5, <1>6 DEF MirrorGrounds

\* An event on its way is in the client's hand, on the wire or in the queue.
LEMMA InLogIsInFlight ==
  ASSUME PipelineTypes, BackendInv, HandInv, Healthy, NEW i, InLog(i)
  PROVE  InFlight(i)
<1>1. PICK k \in First..Len(published) : published[k].id = i
  BY DEF InLog
<1>2. /\ stream \in Streams /\ First \in Nat \ {0} /\ Arrived \in Nat \ {0}
      /\ First <= Arrived
  BY FirstInLog
<1>3. WireAt(stream) /\ LogAt(stream)
  BY <1>2 DEF BackendInv, StreamInv, StreamAt, Healthy, Attached
<1>4. /\ wire[stream] \in Seq(Event) /\ published \in Seq(Event)
      /\ queue[stream] \in Seq(Event \cup {DISCONNECT})
      /\ owed[stream] \in Nat \ {0}
  BY <1>2 DEF PipelineTypes, TypeOK
<1>5. CASE k < Arrived
  <2>1. current # NoEvent /\ k = First
    BY <1>1, <1>2, <1>5 DEF First
  <2>2. current = published[k]
    BY <2>1 DEF HandInv, InHandIsFirst
  <2> QED  BY <1>1, <2>1, <2>2 DEF InFlight
<1>6. CASE Arrived <= k /\ k < owed[stream]
  <2> DEFINE j == k - Arrived + 1
  <2>1. j \in 1..Len(wire[stream]) /\ Arrived + j - 1 = k
    <3>1. Arrived = owed[stream] - Len(wire[stream]) /\ Len(wire[stream]) \in Nat
      BY <1>4 DEF Arrived
    <3>2. k \in Nat /\ owed[stream] \in Nat /\ Arrived \in Nat
      BY <1>1, <1>2, <1>4
    <3>3. 1 <= j /\ j <= Len(wire[stream]) /\ j \in Int
      BY <1>6, <3>1, <3>2
    <3> QED  BY <3>1, <3>2, <3>3
  <2>2. wire[stream][j] = published[k]
    BY <1>3, <2>1 DEF WireAt, Stretch, Arrived
  <2>3. j \in DOMAIN wire[stream]
    BY <1>4, <2>1
  <2> QED  BY <1>1, <2>2, <2>3 DEF InFlight
<1>7. CASE owed[stream] <= k
  <2> DEFINE j == k - owed[stream] + 1
  <2>1. j \in 1..Len(queue[stream]) /\ owed[stream] + j - 1 = k
    BY <1>1, <1>2, <1>3, <1>4, <1>7 DEF LogAt
  <2>2. queue[stream][j] = published[k]
    BY <1>3, <2>1 DEF LogAt, Stretch
  <2>3. j \in DOMAIN queue[stream]
    BY <1>4, <2>1
  <2> QED  BY <1>1, <2>2, <2>3 DEF InFlight
<1> QED
  BY <1>1, <1>2, <1>4, <1>5, <1>6, <1>7

\* The answer of GET /api/v1/items/{id} follows from the row.
LEMMA RowAnswers ==
  ASSUME PipelineTypes, NEW i \in Ids, RowAgrees(tables.current, items[i], i)
  PROVE  MirrorAgrees(i)
<1>1. CASE i \notin DOMAIN tables.current
  <2>1. items[i] = NoName
    BY <1>1 DEF RowAgrees
  <2>2. GetCurrentItem(tables.current, i).status = 404
    BY <1>1 DEF GetCurrentItem
  <2>3. i \notin Live
    BY <2>1 DEF Live
  <2> QED  BY <2>2, <2>3 DEF MirrorAgrees
<1>2. CASE i \in DOMAIN tables.current
  <2> DEFINE row == tables.current[i]
  <2>1. GetCurrentItem(tables.current, i)
          = [status |-> 200, name |-> row.name, tombstoned |-> row.gone]
    BY <1>2 DEF GetCurrentItem
  <2>2. CASE i \in Live
    <3>1. row.name = items[i] /\ row.gone = FALSE
      BY <2>2 DEF RowAgrees, Live
    <3> QED  BY <2>1, <2>2, <3>1 DEF MirrorAgrees
  <2>3. CASE i \notin Live
    <3>1. row.gone = TRUE
      BY <1>2, <2>3 DEF RowAgrees, Live
    <3>2. GetCurrentItem(tables.current, i).tombstoned = TRUE
      BY <2>1, <3>1
    <3> QED  BY <2>3, <3>2 DEF MirrorAgrees
  <2> QED  BY <2>2, <2>3
<1> QED
  BY <1>1, <1>2

\* With a healthy stream GET /api/v1/items/{id} tells the truth about every
\* item with no event in flight, except for the items that were missed for
\* one of the causes the model names; restarts, lost links, evictions,
\* replays, lost acknowledgements and outages add none (current_items.go
\* ReconcileSnapshot and IngestEvent, client.go cycle).
THEOREM MirrorTellsTheTruth == PipelineSpec => []MirrorWrongOnlyForCause
<1>1. PipelineTypes /\ BackendInv /\ HandInv /\ MirrorGrounds /\ [PipelineNext]_vars
        => MirrorGrounds'
  BY MirrorInductive
<1>2. PipelineTypes /\ BackendInv /\ HandInv /\ MirrorGrounds => MirrorWrongOnlyForCause
  <2> SUFFICES ASSUME PipelineTypes, BackendInv, HandInv, MirrorGrounds, Healthy,
                      NEW i \in Ids, i \notin missed, ~InFlight(i)
               PROVE  MirrorAgrees(i)
    BY DEF MirrorWrongOnlyForCause
  <2>1. ~Unsure(i)
    BY DEF Unsure, InFlight
  <2>2. InLog(i) \/ RowAgrees(tables.current, items[i], i)
    BY <2>1 DEF MirrorGrounds, MirrorInv, Right
  <2> QED  BY <2>2, InLogIsInFlight, RowAnswers
<1> QED
  BY <1>1, <1>2, MirrorInitially, PipelineInvariant, HandInvariant, PTL DEF PipelineSpec

-----------------------------------------------------------------------------
(***************************************************************************)
(* The waits between the reconnects.                                       *)
(***************************************************************************)

\* Every non-empty set of naturals has a least element.
LEMMA LeastNat ==
  ASSUME NEW T, T \subseteq Nat, T # {}
  PROVE  \E x \in T : \A y \in T : x <= y
<1> DEFINE R == OpToRel(<, Nat)
<1>1. IsWellFoundedOn(R, Nat)
  BY NatLessThanWellFounded
<1>2. \A x, y \in Nat : <<y, x>> \in R <=> y < x
  BY DEF OpToRel
<1> HIDE DEF R
<1>3. PICK x \in T : \A y \in T : ~ (<<y, x>> \in R)
  BY <1>1, WFMin
<1>4. \A y \in T : ~ (y < x)
  BY <1>2, <1>3
<1>5. \A y \in T : x <= y
  BY <1>4
<1> QED
  BY <1>5

\* So a set with 0 that has the next of each of its numbers has them all.
LEMMA SetInduction ==
  ASSUME NEW Q, NEW N \in Nat, 0 \in Q, \A n \in 1..N : n - 1 \in Q => n \in Q
  PROVE  \A n \in 0..N : n \in Q
<1> DEFINE T == (0..N) \ Q
<1> SUFFICES ASSUME T # {} PROVE FALSE
  OBVIOUS
<1>0. T \subseteq Nat
  OBVIOUS
<1>1. PICK m \in T : \A y \in T : m <= y
  <2> HIDE DEF T
  <2> QED  BY <1>0, LeastNat
<1>2. m # 0 /\ m \in 1..N /\ m - 1 \in 0..N /\ ~(m <= m - 1)
  BY <1>1
<1>3. m - 1 \in Q
  BY <1>1, <1>2
<1> QED
  BY <1>1, <1>2, <1>3

\* The shift leaves room for the sign and one bit.
LEMMA WidthFacts ==
  /\ Width \in Nat /\ MaxShift \in Nat /\ MaxShift + 2 <= Width
  /\ Width - 1 \in 0..Width /\ Width - MaxShift \in 0..Width
BY BackoffAssumption

\* 1 << n doubles with every n.
LEMMA Pow2Doubles ==
  /\ Pow2[0] = 1
  /\ \A n \in 1..Width : Pow2[n] = 2 * Pow2[n - 1]
<1> DEFINE Body(g, k) == IF k = 0 THEN 1 ELSE 2 * g[k - 1]
           Good(g, n) == g = [k \in 0..n |-> Body(g, k)]
           Q == {n \in Nat : \E g : Good(g, n)}
<1>w. Width \in Nat
  BY WidthFacts
<1>1. 0 \in Q
  <2> DEFINE g == [k \in 0..0 |-> 1]
  <2>1. g = [k \in 0..0 |-> Body(g, k)]
    OBVIOUS
  <2> HIDE DEF Body, g
  <2> QED  BY <2>1
<1>2. ASSUME NEW n \in 1..Width, n - 1 \in Q PROVE n \in Q
  <2>1. PICK g : Good(g, n - 1)
    BY <1>2
  <2> DEFINE f == [k \in 0..n |-> IF k = n THEN 2 * g[n - 1] ELSE g[k]]
  <2>2. ASSUME NEW k \in 0..n PROVE f[k] = Body(f, k)
    <3>1. CASE k = n
      BY <1>w, <3>1
    <3>2. CASE k # n
      <4>1. k \in 0..(n - 1) /\ (k # 0 => k - 1 \in 0..n /\ k - 1 # n)
        BY <1>w, <3>2
      <4>2. g[k] = Body(g, k)
        <5> HIDE DEF Body
        <5> QED  BY <2>1, <4>1
      <4> QED  BY <3>2, <4>1, <4>2
    <3> QED  BY <3>1, <3>2
  <2>3. f = [k \in 0..n |-> Body(f, k)]
    <3> HIDE DEF Body
    <3>1. f = [k \in 0..n |-> f[k]]
      OBVIOUS
    <3> QED  BY <2>2, <3>1
  <2>4. n \in Nat
    BY <1>w
  <2> HIDE DEF Body, f
  <2> QED  BY <2>3, <2>4
<1>3. \E g : Good(g, Width)
  <2> HIDE DEF Q, Good
  <2>1. \A n \in 0..Width : n \in Q
    BY <1>w, <1>1, <1>2, SetInduction
  <2>2. Width \in 0..Width
    BY <1>w
  <2> QED  BY <2>1, <2>2 DEF Q
<1>4. Pow2 = CHOOSE g : Good(g, Width)
  BY DEF Pow2
<1>5. Good(Pow2, Width)
  <2> HIDE DEF Good
  <2> QED  BY <1>3, <1>4
<1>6. \A n \in 0..Width : Pow2[n] = Body(Pow2, n)
  <2> HIDE DEF Body
  <2> QED  BY <1>5
<1> QED
  BY <1>w, <1>6

\* It is positive.
LEMMA Pow2Positive == \A n \in 0..Width : Pow2[n] \in Nat /\ Pow2[n] > 0
<1> DEFINE Q == {n \in 0..Width : Pow2[n] \in Nat /\ Pow2[n] > 0}
<1>w. Width \in Nat
  BY WidthFacts
<1>1. 0 \in Q
  BY <1>w, Pow2Doubles
<1>2. ASSUME NEW n \in 1..Width, n - 1 \in Q PROVE n \in Q
  <2>1. Pow2[n] = 2 * Pow2[n - 1] /\ n \in 0..Width
    BY <1>w, Pow2Doubles
  <2> QED  BY <1>2, <2>1
<1> HIDE DEF Q
<1>3. \A n \in 0..Width : n \in Q
  BY <1>w, <1>1, <1>2, SetInduction
<1> QED
  BY <1>3 DEF Q

\* A base that may be shifted MaxShift times fits into Width bits then.
LEMMA ShiftFits ==
  ASSUME NEW b \in Int, b > 0, b < Pow2[Width - MaxShift], NEW s \in 0..MaxShift
  PROVE  /\ b * Pow2[s] \in Int /\ b * Pow2[s] > 0
         /\ b * Pow2[s] < Pow2[Width]
<1>w. /\ Width \in Nat /\ MaxShift \in Nat /\ MaxShift + 2 <= Width
      /\ \A n \in 0..Width : Pow2[n] \in Nat /\ Pow2[n] > 0
  BY WidthFacts, Pow2Positive
<1> DEFINE M == Width - MaxShift
           Q == {n \in 0..MaxShift : b * Pow2[n] < Pow2[M + n]}
<1>1. 0 \in Q
  <2>1. M + 0 = M /\ b * Pow2[0] = b
    BY <1>w, Pow2Doubles
  <2> QED  BY <1>w, <2>1
<1>2. ASSUME NEW n \in 1..MaxShift, n - 1 \in Q PROVE n \in Q
  <2>1. n \in 1..Width /\ M + n \in 1..Width /\ (M + n) - 1 = M + (n - 1) /\ n \in 0..MaxShift
    BY <1>w
  <2>2. Pow2[n] = 2 * Pow2[n - 1] /\ Pow2[M + n] = 2 * Pow2[M + (n - 1)]
    BY <2>1, Pow2Doubles
  <2> DEFINE p == Pow2[n - 1]
             q == Pow2[M + (n - 1)]
  <2>3. p \in Nat /\ q \in Nat
    BY <1>w, <2>1
  <2>4. b * p < q
    BY <1>2
  <2> HIDE DEF p, q
  <2>5. b * (2 * p) = 2 * (b * p) /\ b * p \in Int
    BY <2>3
  <2>6. b * (2 * p) < 2 * q
    BY <2>3, <2>4, <2>5
  <2> QED  BY <2>1, <2>2, <2>6 DEF p, q
<1>3. b * Pow2[s] < Pow2[M + s]
  <2> HIDE DEF Q
  <2>1. \A n \in 0..MaxShift : n \in Q
    BY <1>w, <1>1, <1>2, SetInduction
  <2> QED  BY <2>1 DEF Q
<1> DEFINE U == {j \in 0..Width : Pow2[Width - j] <= Pow2[Width]}
<1>4. 0 \in U
  <2>1. Width - 0 = Width /\ Width \in 0..Width /\ 0 \in 0..Width
    BY <1>w
  <2> QED  BY <1>w, <2>1
<1>5. ASSUME NEW j \in 1..Width, j - 1 \in U PROVE j \in U
  <2>1. Width - (j - 1) \in 1..Width /\ Width - (j - 1) - 1 = Width - j /\ j \in 0..Width
        /\ Width \in 0..Width /\ Width - j \in 0..Width
    BY <1>w
  <2>2. Pow2[Width - (j - 1)] = 2 * Pow2[Width - j]
    BY <2>1, Pow2Doubles
  <2>3. Pow2[Width - (j - 1)] <= Pow2[Width]
    BY <1>5
  <2>4. Pow2[Width - j] \in Nat /\ Pow2[Width] \in Nat
    BY <1>w, <2>1
  <2>5. Pow2[Width - j] <= Pow2[Width]
    BY <2>2, <2>3, <2>4
  <2> QED  BY <2>1, <2>5
<1>6. Pow2[M + s] <= Pow2[Width]
  <2> HIDE DEF U
  <2>1. \A j \in 0..Width : j \in U
    BY <1>w, <1>4, <1>5, SetInduction
  <2>2. MaxShift - s \in 0..Width /\ Width - (MaxShift - s) = M + s
    BY <1>w
  <2> QED  BY <2>1, <2>2 DEF U
<1>7. s \in 0..Width /\ M + s \in 0..Width /\ Width \in 0..Width
  BY <1>w
<1> DEFINE p == Pow2[s]
<1>8. p \in Nat /\ p > 0 /\ Pow2[M + s] \in Nat /\ Pow2[Width] \in Nat
  BY <1>w, <1>7
<1>9. b * p \in Int /\ b * p > 0
  BY <1>8
<1> QED
  BY <1>3, <1>6, <1>8, <1>9

\* Where the product is too large for a duration it comes out negative.
LEMMA WrapsToNegative ==
  ASSUME NEW x \in Int, x > 0, x < Pow2[Width]
  PROVE  /\ x < Pow2[Width - 1] => Wrap(x) = x
         /\ x >= Pow2[Width - 1] => Wrap(x) < 0 /\ Wrap(x) \in Int
<1> DEFINE H == Pow2[Width - 1]
<1>1. H \in Nat /\ H > 0 /\ Pow2[Width] = 2 * H
  BY WidthFacts, Pow2Positive, Pow2Doubles
<1> HIDE DEF H
<1>2. CASE x < H
  <2>1. (x + H) % (2 * H) = x + H
    BY <1>1, <1>2
  <2> QED  BY <1>1, <1>2, <2>1 DEF Wrap, H
<1>3. CASE x >= H
  <2>1. (x + H) % (2 * H) = x - H
    BY <1>1, <1>3
  <2>2. Wrap(x) = x - H - H
    BY <1>1, <2>1 DEF Wrap, H
  <2> QED  BY <1>1, <1>3, <2>2 DEF H
<1> QED
  BY <1>1, <1>2, <1>3 DEF H

\* The configuration that is in force after the defaults.
LEMMA DelaysInForce ==
  ASSUME base \in Bases, maxDelay \in Maxes
  PROVE  /\ BaseDelay \in Int /\ BaseDelay > 0
         /\ MaxDelay \in Int /\ MaxDelay > 0 /\ MaxDelay < Pow2[Width - 1]
<1>1. base \in Int /\ maxDelay \in Int /\ maxDelay < Pow2[Width - 1]
  BY BackoffAssumption
<1>2. /\ DefaultBase \in Int /\ DefaultBase > 0
      /\ DefaultMax \in Int /\ DefaultMax > 0 /\ DefaultMax < Pow2[Width - 1]
  BY BackoffAssumption
<1> QED
  BY <1>1, <1>2 DEF BaseDelay, MaxDelay

\* backoffDuration stays between one and the maximum, and computes the smaller
\* of the product and the maximum, also where the product does not fit, unless
\* it comes around: the check of the sign catches that.
LEMMA DelayIsCapped ==
  ASSUME base \in Bases, maxDelay \in Maxes, NEW n \in Nat, n > 0
  PROVE  LET product == BaseDelay * Pow2[Smaller(n - 1, MaxShift)]
         IN  /\ CappedDelay(n) \in 1..MaxDelay
             /\ NotComeAround(product) => CappedDelay(n) = Smaller(product, MaxDelay)
<1> DEFINE s == Smaller(n - 1, MaxShift)
           x == BaseDelay * Pow2[s]
           H == Pow2[Width - 1]
<1>1. s \in 0..MaxShift
  BY WidthFacts DEF Smaller
<1>2. x \in Int /\ x > 0 /\ (BaseDelay < Pow2[Width - MaxShift] => x < Pow2[Width])
  <2> HIDE DEF s
  <2>1. s \in 0..Width
    BY <1>1, WidthFacts
  <2>2. Pow2[s] \in Nat /\ Pow2[s] > 0
    BY <2>1, Pow2Positive
  <2>3. \A b \in Int, p \in Nat : b > 0 /\ p > 0 => b * p \in Int /\ b * p > 0
    OBVIOUS
  <2>4. x \in Int /\ x > 0
    BY <2>2, <2>3, DelaysInForce
  <2> QED  BY <1>1, <2>4, DelaysInForce, ShiftFits
<1>3. MaxDelay \in Int /\ MaxDelay > 0 /\ MaxDelay < H /\ H \in Nat /\ H > 0 /\ Pow2[Width] = 2 * H
  BY DelaysInForce, WidthFacts, Pow2Positive, Pow2Doubles
<1>4. CappedDelay(n) = IF Wrap(x) <= 0 \/ Wrap(x) > MaxDelay THEN MaxDelay ELSE Wrap(x)
  BY DEF CappedDelay
<1>5. x < Pow2[Width] => (x < H => Wrap(x) = x) /\ (x >= H => Wrap(x) < 0 /\ Wrap(x) \in Int)
  <2> HIDE DEF x
  <2> QED  BY <1>2, WrapsToNegative
<1>6. Wrap(x) \in Int
  <2> HIDE DEF x, H
  <2>1. \A y \in Int, k \in Nat : k > 0 => y % k \in Int
    OBVIOUS
  <2>2. x + H \in Int /\ 2 * H \in Nat /\ 2 * H > 0
    BY <1>2, <1>3
  <2>3. (x + H) % (2 * H) \in Int
    BY <2>1, <2>2
  <2>4. Wrap(x) = ((x + H) % (2 * H)) - H
    BY <1>3 DEF Wrap, H
  <2> QED  BY <1>3, <2>3, <2>4
<1> HIDE DEF x, H
<1>7. CappedDelay(n) \in 1..MaxDelay
  BY <1>3, <1>4, <1>6
<1>8. NotComeAround(x) => x < Pow2[Width]
  BY <1>2, <1>3 DEF NotComeAround, H
<1>9. NotComeAround(x) => CappedDelay(n) = Smaller(x, MaxDelay)
  BY <1>2, <1>3, <1>4, <1>5, <1>8 DEF Smaller
<1> QED
  BY <1>7, <1>9 DEF x

\* Run's counter is the length of the outage, and its last delay and wait
\* come from it.
BackoffInv ==
    /\ base \in Bases /\ maxDelay \in Maxes
    /\ attempt \in Nat /\ outage = attempt
    /\ attempt > 0 => delay = CappedDelay(attempt) /\ wait \in {delay \div 2, 2 * (delay \div 2)}

\* No wait of Run is negative or above the maximum, and the waits double with
\* every failed cycle of an outage until they are the maximum and stay there
\* however long it lasts, unless the product comes around: for every width of
\* a duration, every cap on the shift and every configuration, also one whose
\* base cannot be shifted that far (OutageBacksOff).
THEOREM WaitsBackOff == BackoffSpec => []OutageBacksOff
<1>1. BackoffInit => BackoffInv
  BY DEF BackoffInit, BackoffInv
<1>2. BackoffInv /\ [BackoffNext]_backoffVars => BackoffInv'
  <2> SUFFICES ASSUME BackoffInv, [BackoffNext]_backoffVars PROVE BackoffInv'
    OBVIOUS
  <2>1. ASSUME NEW connected \in BOOLEAN, CycleEnds(connected) PROVE BackoffInv'
    <3>1. attempt' \in Nat /\ outage' = attempt'
      BY <2>1 DEF CycleEnds, NextAttempt, BackoffInv
    <3>2. UNCHANGED <<base, maxDelay>> /\ delay' = CappedDelay(attempt')
          /\ wait' \in {delay' \div 2, 2 * (delay' \div 2)}
      BY <2>1 DEF CycleEnds
    <3>3. CappedDelay(attempt)' = CappedDelay(attempt')
      BY <3>2 DEF CappedDelay, BaseDelay, MaxDelay
    <3> QED  BY <3>1, <3>2, <3>3 DEF BackoffInv
  <2>2. CASE UNCHANGED backoffVars
    BY <2>2 DEF backoffVars, BackoffInv, CappedDelay, BaseDelay, MaxDelay
  <2> QED  BY <2>1, <2>2 DEF BackoffNext
<1>3. BackoffInv => OutageBacksOff
  <2> SUFFICES ASSUME BackoffInv, attempt > 0 PROVE OutageBacksOff
    BY DEF OutageBacksOff
  <2> DEFINE product == BaseDelay * Pow2[Smaller(outage - 1, MaxShift)]
  <2>1. /\ delay \in 1..MaxDelay
        /\ NotComeAround(product) => delay = Smaller(product, MaxDelay)
    BY DelayIsCapped DEF BackoffInv
  <2> HIDE DEF product
  <2>2. MaxDelay \in Int
    BY DelaysInForce DEF BackoffInv
  <2>3. wait \in (delay \div 2)..delay
    BY <2>1, <2>2 DEF BackoffInv
  <2> QED  BY <2>1, <2>3 DEF OutageBacksOff, product
<1> QED
  BY <1>1, <1>2, <1>3, PTL DEF BackoffSpec
=============================================================================
