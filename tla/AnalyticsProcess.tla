-------------------------- MODULE AnalyticsProcess --------------------------
(***************************************************************************)
(* The goroutines of `analytics serve` and how they end (cmd/analytics/    *)
(* main.go): the main goroutine, the ingest client and the retention       *)
(* runner, each on a context of its own, and the HTTP handlers, all on one *)
(* connection pool.  The main goroutine goes                               *)
(*                                                                         *)
(*   select -> drain -> shutdown -> close -> exited     on a signal        *)
(*   select -> abort -> close -> exited                 when the listener  *)
(*                                                      fails              *)
(*                                                                         *)
(* What the queries do is in the other modules; here they only hold a      *)
(* connection.                                                             *)
(***************************************************************************)
EXTENDS Naturals, FiniteSets

CONSTANTS Requests,   \* HTTP requests, each made once
          Readyz,     \* those of them for /readyz
          PoolSize,
          MaxTicks    \* bound: ticks of the retention ticker

Workers == {"ingest", "retention"}

ASSUME ProcessAssumption ==
    /\ Readyz \subseteq Requests /\ Requests \cap Workers = {}
    /\ PoolSize \in Nat \ {0} /\ MaxTicks \in Nat

VARIABLES
    main,      \* place of the main goroutine
    code,      \* its exit code, once it has one
    signaled,  \* SIGINT or SIGTERM: ctx is done
    listener,  \* "up", "failed" (its error is in errCh) or "closed"
    canceled,  \* the workers whose own context main has canceled
    worker,    \* of each worker: "idle", "acquire", "query" or "done"
    ticks,     \* ticks of the retention ticker so far
    tick,      \* one of them waits in its channel; TRUE at first, for the
               \* pass before the loop
    request,   \* of each request: "new", "acquire", "query", "answered", "lost"
    pool       \* "open", "closing" (Close waits) or "closed"

vars == <<main, code, signaled, listener, canceled, worker, ticks, tick, request, pool>>

TypeOK ==
    /\ main \in {"select", "drain", "abort", "shutdown", "close", "exited"}
    /\ code \in 0..1
    /\ signaled \in BOOLEAN /\ tick \in BOOLEAN
    /\ listener \in {"up", "failed", "closed"}
    /\ canceled \subseteq Workers
    /\ worker \in [Workers -> {"idle", "acquire", "query", "done"}]
    /\ ticks \in 0..MaxTicks
    /\ request \in [Requests -> {"new", "acquire", "query", "answered", "lost"}]
    /\ pool \in {"open", "closing", "closed"}
    /\ Cardinality({w \in Workers : worker[w] = "query"})
         + Cardinality({q \in Requests : request[q] = "query"}) <= PoolSize

Init ==
    /\ main = "select" /\ code = 0
    /\ signaled = FALSE /\ listener = "up" /\ canceled = {}
    /\ worker = [w \in Workers |-> "idle"]
    /\ ticks = 0 /\ tick = TRUE
    /\ request = [q \in Requests |-> "new"]
    /\ pool = "open"

Running == main # "exited"

\* Connections that are out.
Held == {w \in Workers : worker[w] = "query"} \cup {q \in Requests : request[q] = "query"}

CanAcquire == pool = "open" /\ Cardinality(Held) < PoolSize

-----------------------------------------------------------------------------
(* Ingest and retention.                                                   *)

\* ingestCtx and retentionCtx are children of ctx.
Done(w) == signaled \/ w \in canceled

Set(w, s) == worker' = [worker EXCEPT ![w] = s]

\* The next event, snapshot or tick needs the database.  The select of the
\* runner may prefer a tick to a context that is done.
WorkerStarts(w) ==
    /\ Running /\ worker[w] = "idle"
    /\ w = "retention" => tick
    /\ w = "ingest" => ~Done(w)
    /\ Set(w, "acquire")
    /\ tick' = IF w = "retention" THEN FALSE ELSE tick
    /\ UNCHANGED <<main, code, signaled, listener, canceled, ticks, request, pool>>

WorkerAcquires(w) ==
    /\ Running /\ worker[w] = "acquire" /\ CanAcquire /\ ~Done(w)
    /\ Set(w, "query")
    /\ UNCHANGED <<main, code, signaled, listener, canceled, ticks, tick, request, pool>>

\* The query ends, with a result or because its context is done; a failed
\* one is logged and, by ingest, tried again.
WorkerQueryEnds(w) ==
    /\ Running
    /\ worker[w] = "query" \/ (worker[w] = "acquire" /\ (Done(w) \/ pool # "open"))
    /\ Set(w, "idle")
    /\ UNCHANGED <<main, code, signaled, listener, canceled, ticks, tick, request, pool>>

WorkerReturns(w) ==
    /\ Running /\ worker[w] = "idle" /\ Done(w)
    /\ Set(w, "done")
    /\ UNCHANGED <<main, code, signaled, listener, canceled, ticks, tick, request, pool>>

Tick ==
    /\ Running /\ worker["retention"] # "done" /\ ticks < MaxTicks
    /\ ticks' = ticks + 1 /\ tick' = TRUE
    /\ UNCHANGED <<main, code, signaled, listener, canceled, worker, request, pool>>

-----------------------------------------------------------------------------
(* HTTP handlers.                                                          *)

Reply(q, s) ==
    /\ request' = [request EXCEPT ![q] = s]
    /\ UNCHANGED <<main, code, signaled, listener, canceled, worker, ticks, tick, pool>>

Accept(q) == Running /\ listener = "up" /\ request[q] = "new" /\ Reply(q, "acquire")

HandlerAcquires(q) == Running /\ request[q] = "acquire" /\ CanAcquire /\ Reply(q, "query")

\* 200 or 404.
HandlerAnswers(q) == Running /\ request[q] = "query" /\ Reply(q, "answered")

\* 500 or 503: the pool is closed, or the two seconds of readyz are over, in
\* the query or in the wait for a connection.
HandlerFails(q) ==
    /\ Running
    /\ \/ request[q] = "acquire" /\ pool # "open"
       \/ request[q] \in {"acquire", "query"} /\ q \in Readyz
    /\ Reply(q, "answered")

InFlight == {q \in Requests : request[q] \in {"acquire", "query"}}

ListenerFails ==
    /\ Running /\ listener = "up"
    /\ listener' = "failed"
    /\ UNCHANGED <<main, code, signaled, canceled, worker, ticks, tick, request, pool>>

-----------------------------------------------------------------------------
(* The main goroutine.                                                     *)

Signal ==
    /\ Running /\ ~signaled
    /\ signaled' = TRUE
    /\ UNCHANGED <<main, code, listener, canceled, worker, ticks, tick, request, pool>>

\* case <-ctx.Done(), and the two cancels after the select.
SelectSignal ==
    /\ main = "select" /\ signaled
    /\ main' = "drain" /\ canceled' = Workers
    /\ UNCHANGED <<code, signaled, listener, worker, ticks, tick, request, pool>>

\* Variant: only ingest is told to stop.
SelectError_IngestOnly ==
    /\ main = "select" /\ listener = "failed"
    /\ main' = "abort" /\ canceled' = {"ingest"} /\ code' = 1
    /\ UNCHANGED <<signaled, listener, worker, ticks, tick, request, pool>>

\* case err := <-errCh, and the two cancels in it.
SelectError ==
    /\ main = "select" /\ listener = "failed"
    /\ main' = "abort" /\ canceled' = Workers /\ code' = 1
    /\ UNCHANGED <<signaled, listener, worker, ticks, tick, request, pool>>

\* Variant: the pool is closed as soon as ingest is done.
WorkersDone_IngestOnly == worker["ingest"] = "done"

\* <-ingestDone and <-retentionDone.
WorkersDone == \A w \in Workers : worker[w] = "done"

\* httpSrv.Shutdown closes the listener first.
Drained ==
    /\ main \in {"drain", "abort"} /\ WorkersDone
    /\ main' = IF main = "drain" THEN "shutdown" ELSE "close"
    /\ listener' = IF main = "drain" THEN "closed" ELSE listener
    /\ UNCHANGED <<code, signaled, canceled, worker, ticks, tick, request, pool>>

\* Variant: handlers are not waited for.
Shutdown_Close ==
    /\ main = "shutdown"
    /\ main' = "close"
    /\ UNCHANGED <<code, signaled, listener, canceled, worker, ticks, tick, request, pool>>

\* Every handler has returned within the ten seconds.
Shutdown ==
    /\ main = "shutdown" /\ InFlight = {}
    /\ main' = "close"
    /\ UNCHANGED <<code, signaled, listener, canceled, worker, ticks, tick, request, pool>>

ShutdownTimesOut ==
    /\ main = "shutdown" /\ InFlight # {}
    /\ main' = "close" /\ code' = 1
    /\ UNCHANGED <<signaled, listener, canceled, worker, ticks, tick, request, pool>>

\* The deferred pool.Close: no new connection, then wait for those that are
\* out.
PoolClose ==
    /\ main = "close" /\ pool = "open"
    /\ pool' = "closing"
    /\ UNCHANGED <<main, code, signaled, listener, canceled, worker, ticks, tick, request>>

Exit ==
    /\ main = "close" /\ pool = "closing" /\ Held = {}
    /\ pool' = "closed" /\ main' = "exited"
    /\ request' = [q \in Requests |-> IF q \in InFlight THEN "lost" ELSE request[q]]
    /\ UNCHANGED <<code, signaled, listener, canceled, worker, ticks, tick>>

MainStep ==
    \/ SelectSignal \/ SelectError \/ Drained \/ Shutdown \/ ShutdownTimesOut
    \/ PoolClose \/ Exit

WorkerStep(w) ==
    WorkerStarts(w) \/ WorkerAcquires(w) \/ WorkerQueryEnds(w) \/ WorkerReturns(w)

HandlerStep(q) == HandlerAcquires(q) \/ HandlerAnswers(q) \/ HandlerFails(q)

Next ==
    \/ MainStep \/ Signal \/ ListenerFails \/ Tick
    \/ \E w \in Workers : WorkerStep(w)
    \/ \E q \in Requests : Accept(q) \/ HandlerStep(q)

Spec == Init /\ [][Next]_vars

\* Goroutines are scheduled, and queries end.  For workers and readyz the code
\* sees to it (their contexts are canceled or time out); the other handlers have
\* no timeout and Shutdown does not cancel r.Context(), so that their queries
\* end is an assumption on the database.
FairSpec ==
    /\ Spec
    /\ WF_vars(MainStep)
    /\ \A w \in Workers : WF_vars(WorkerQueryEnds(w)) /\ WF_vars(WorkerReturns(w))
    /\ \A q \in Requests : WF_vars(HandlerAnswers(q)) /\ WF_vars(HandlerFails(q))

-----------------------------------------------------------------------------
(* Properties.                                                             *)

\* Nobody but a handler can meet a closed pool: ingest and retention have
\* returned before Close begins, on both ways out and whatever order the
\* signal, the error, the ticks and the queries came in (main.go: "both
\* goroutines still hold a *pgxpool.Pool they must stop using before shutdown
\* proceeds").
WorkersReturnBeforeClose ==
    pool # "open" => \A w \in Workers : worker[w] = "done"

\* Exit code 0 is only for a shutdown in which every request that was
\* accepted got its answer from an open pool; one that was cut off shows as 1
\* (httpSrv.Shutdown and its timeout).
ExitCodeTellsOfLostRequests ==
    /\ main = "exited" /\ code = 0 => \A q \in Requests : request[q] \in {"new", "answered"}
    /\ code = 0 /\ pool # "open" => InFlight = {}

\* A signal or a failed listener ends the process, whatever the workers and
\* the handlers are at: no goroutine waits for one that was never told to
\* stop (the two cancels in each branch of the select).
StopIsHeeded == (signaled \/ listener = "failed") ~> (main = "exited")
=============================================================================
