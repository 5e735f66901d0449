----------------------- MODULE AnalyticsProcess_proofs -----------------------
(***************************************************************************)
(* Proofs about AnalyticsProcess, for any requests, any size of the pool   *)
(* and any number of ticks: its types, which say that no more connections  *)
(* are out than the pool has, and its two safety properties.               *)
(***************************************************************************)
EXTENDS AnalyticsProcess, FiniteSetTheorems, TLAPS

-----------------------------------------------------------------------------
(* The pool.                                                               *)

Querying == {w \in Workers : worker[w] = "query"}
Serving  == {q \in Requests : request[q] = "query"}

\* TypeOK without its bound on the connections, which needs PoolBound.
Types ==
    /\ main \in {"select", "drain", "abort", "shutdown", "close", "exited"}
    /\ code \in 0..1
    /\ signaled \in BOOLEAN /\ tick \in BOOLEAN
    /\ listener \in {"up", "failed", "closed"}
    /\ canceled \subseteq Workers
    /\ worker \in [Workers -> {"idle", "acquire", "query", "done"}]
    /\ ticks \in 0..MaxTicks
    /\ request \in [Requests -> {"new", "acquire", "query", "answered", "lost"}]
    /\ pool \in {"open", "closing", "closed"}

\* The connections that are out are finitely many although Requests need not
\* be, and no more than the pool has.
PoolBound == IsFiniteSet(Held) /\ Cardinality(Held) <= PoolSize

\* Workers and handlers hold different connections, so that counting them
\* apart and together is the same (Held).
LEMMA HeldApart ==
  ASSUME IsFiniteSet(Held)
  PROVE  /\ IsFiniteSet(Querying) /\ IsFiniteSet(Serving)
         /\ Cardinality(Held) = Cardinality(Querying) + Cardinality(Serving)
<1>1. Held = Querying \cup Serving
  BY DEF Held, Querying, Serving
<1>2. Querying \cap Serving = {}
  BY ProcessAssumption DEF Querying, Serving
<1>3. IsFiniteSet(Querying) /\ IsFiniteSet(Serving)
  BY <1>1, FS_Subset
<1>4. Cardinality(Querying \cap Serving) = 0
  BY <1>2, FS_EmptySet
<1>5. Cardinality(Querying) \in Nat /\ Cardinality(Serving) \in Nat
  BY <1>3, FS_CardinalityType
<1> QED
  BY <1>1, <1>3, <1>4, <1>5, FS_Union

\* A step that hands out one connection while there is a free one keeps the
\* bound (CanAcquire: pgxpool's Acquire waits while all are out).
LEMMA AcquireKeepsBound ==
  ASSUME PoolBound, CanAcquire, NEW c, Held' \subseteq Held \cup {c}
  PROVE  PoolBound'
<1>1. IsFiniteSet(Held \cup {c})
  BY FS_AddElement DEF PoolBound
<1>2. Cardinality(Held \cup {c}) <= Cardinality(Held) + 1
  <2>1. Cardinality(Held \cup {c})
          = IF c \in Held THEN Cardinality(Held) ELSE Cardinality(Held) + 1
    BY FS_AddElement DEF PoolBound
  <2>2. Cardinality(Held) \in Nat
    BY FS_CardinalityType DEF PoolBound
  <2> QED  BY <2>1, <2>2
<1>3. IsFiniteSet(Held') /\ Cardinality(Held') <= Cardinality(Held \cup {c})
  BY <1>1, FS_Subset
<1>4. /\ Cardinality(Held) \in Nat /\ Cardinality(Held \cup {c}) \in Nat
      /\ Cardinality(Held') \in Nat
  BY <1>1, <1>3, FS_CardinalityType DEF PoolBound
<1> QED
  BY <1>2, <1>3, <1>4, ProcessAssumption DEF PoolBound, CanAcquire

\* A step that hands out none keeps it too.
LEMMA ReleaseKeepsBound ==
  ASSUME PoolBound, Held' \subseteq Held
  PROVE  PoolBound'
<1>1. IsFiniteSet(Held') /\ Cardinality(Held') <= Cardinality(Held)
  BY FS_Subset DEF PoolBound
<1>2. Cardinality(Held) \in Nat /\ Cardinality(Held') \in Nat
  BY <1>1, FS_CardinalityType DEF PoolBound
<1> QED
  BY <1>1, <1>2, ProcessAssumption DEF PoolBound

\* The process starts with the types, and with no connection out.
LEMMA TypesInitially ==
  ASSUME Init
  PROVE  Types /\ PoolBound
<1>1. signaled \in BOOLEAN /\ tick \in BOOLEAN
  BY Zenon DEF Init
<1>2. Types
  BY <1>1, ProcessAssumption DEF Init, Types
<1>3. Held = {}
  BY DEF Init, Held
<1> QED
  BY <1>2, <1>3, FS_EmptySet, ProcessAssumption DEF PoolBound

\* Every step keeps the types and the bound.
LEMMA TypesInductive ==
  ASSUME Types, PoolBound, [Next]_vars
  PROVE  Types' /\ PoolBound'
<1> USE ProcessAssumption DEF Types
<1>1. ASSUME NEW w \in Workers, WorkerStep(w)
      PROVE  Types' /\ PoolBound'
  <2>1. CASE WorkerStarts(w)
    <3>1. Types'
      BY <2>1 DEF WorkerStarts, Set
    <3>2. Held' \subseteq Held
      BY <2>1 DEF WorkerStarts, Set, Held
    <3> QED  BY <3>1, <3>2, ReleaseKeepsBound
  <2>2. CASE WorkerAcquires(w)
    <3>1. Types'
      BY <2>2 DEF WorkerAcquires, Set
    <3>2. Held' \subseteq Held \cup {w} /\ CanAcquire
      BY <2>2 DEF WorkerAcquires, Set, Held
    <3> QED  BY <3>1, <3>2, AcquireKeepsBound
  <2>3. CASE WorkerQueryEnds(w)
    <3>1. Types'
      BY <2>3 DEF WorkerQueryEnds, Set
    <3>2. Held' \subseteq Held
      BY <2>3 DEF WorkerQueryEnds, Set, Held
    <3> QED  BY <3>1, <3>2, ReleaseKeepsBound
  <2>4. CASE WorkerReturns(w)
    <3>1. Types'
      BY <2>4 DEF WorkerReturns, Set
    <3>2. Held' \subseteq Held
      BY <2>4 DEF WorkerReturns, Set, Held
    <3> QED  BY <3>1, <3>2, ReleaseKeepsBound
  <2> QED  BY <1>1, <2>1, <2>2, <2>3, <2>4 DEF WorkerStep
<1>2. ASSUME NEW q \in Requests, Accept(q) \/ HandlerStep(q)
      PROVE  Types' /\ PoolBound'
  <2>1. CASE Accept(q) \/ HandlerAnswers(q) \/ HandlerFails(q)
    <3>1. Types'
      BY <2>1 DEF Accept, HandlerAnswers, HandlerFails, Reply
    <3>2. Held' \subseteq Held
      BY <2>1 DEF Accept, HandlerAnswers, HandlerFails, Reply, Held
    <3> QED  BY <3>1, <3>2, ReleaseKeepsBound
  <2>2. CASE HandlerAcquires(q)
    <3>1. Types'
      BY <2>2 DEF HandlerAcquires, Reply
    <3>2. Held' \subseteq Held \cup {q} /\ CanAcquire
      BY <2>2 DEF HandlerAcquires, Reply, Held
    <3> QED  BY <3>1, <3>2, AcquireKeepsBound
  <2> QED  BY <1>2, <2>1, <2>2 DEF HandlerStep
<1>3. CASE MainStep
  <2>1. Types'
    <3>1. CASE SelectSignal  BY <3>1 DEF SelectSignal
    <3>2. CASE SelectError   BY <3>2 DEF SelectError
    <3>3. CASE Drained       BY <3>3 DEF Drained
    <3>4. CASE Shutdown \/ ShutdownTimesOut
      BY <3>4 DEF Shutdown, ShutdownTimesOut
    <3>5. CASE PoolClose     BY <3>5 DEF PoolClose
    <3>6. CASE Exit          BY <3>6 DEF Exit
    <3> QED
      BY <1>3, <3>1, <3>2, <3>3, <3>4, <3>5, <3>6 DEF MainStep
  <2>2. Held' \subseteq Held
    <3>1. CASE Exit
      BY <3>1 DEF Exit, Held
    <3> QED
      BY <1>3, <3>1 DEF MainStep, SelectSignal, SelectError, Drained, Shutdown,
                ShutdownTimesOut, PoolClose, Held
  <2> QED  BY <2>1, <2>2, ReleaseKeepsBound
<1>4. CASE Signal \/ ListenerFails \/ Tick
  <2>0. signaled' \in BOOLEAN /\ tick' \in BOOLEAN
    BY <1>4, Zenon DEF Signal, ListenerFails, Tick
  <2>1. Types'
    BY <1>4, <2>0 DEF Signal, ListenerFails, Tick
  <2>2. Held' \subseteq Held
    BY <1>4 DEF Signal, ListenerFails, Tick, Held
  <2> QED  BY <2>1, <2>2, ReleaseKeepsBound
<1>5. CASE UNCHANGED vars
  <2>1. Types' /\ Held' \subseteq Held
    BY <1>5 DEF vars, Held
  <2> QED  BY <2>1, ReleaseKeepsBound
<1> QED
  BY <1>1, <1>2, <1>3, <1>4, <1>5 DEF Next

\* Every variable keeps its type, and workers and handlers together never
\* hold more connections than the pool has.
THEOREM TypeCorrect == Spec => []TypeOK
<1>1. Init => Types /\ PoolBound
  BY TypesInitially
<1>2. Types /\ PoolBound /\ [Next]_vars => (Types /\ PoolBound)'
  BY TypesInductive
<1>3. Types /\ PoolBound => TypeOK
  BY HeldApart DEF Types, PoolBound, TypeOK, Querying, Serving
<1> QED
  BY <1>1, <1>2, <1>3, PTL DEF Spec

-----------------------------------------------------------------------------
(* The order of the shutdown.                                              *)

\* Where main is tells who has stopped: the pool is closed from "close" on
\* only, and main is past "drain" and "abort" only when both workers have
\* returned, which is for good.
Order ==
    /\ pool # "open" => main \in {"close", "exited"}
    /\ main \in {"shutdown", "close", "exited"} => WorkersDone

\* What exit code 0 stands for: from "close" on nobody is being served and
\* nobody will be, because the listener was closed before the last handler
\* returned.  A request is lost by the exit of the process only, and the way
\* through "abort" has its code from the start.
Accounted ==
    /\ main = "abort" => code = 1
    /\ main = "shutdown" => listener = "closed"
    /\ main # "exited" => \A q \in Requests : request[q] # "lost"
    /\ main \in {"close", "exited"} /\ code = 0 =>
         /\ listener = "closed"
         /\ \A q \in Requests : request[q] \in {"new", "answered"}

\* Every step keeps the order.
LEMMA OrderInductive ==
  ASSUME Types, Order, [Next]_vars
  PROVE  Order'
<1> USE DEF Types, Order, WorkersDone
<1>1. ASSUME NEW w \in Workers, WorkerStep(w)
      PROVE  Order'
  <2>1. worker[w] # "done" /\ UNCHANGED <<main, pool>>
    BY <1>1 DEF WorkerStep, WorkerStarts, WorkerAcquires, WorkerQueryEnds, WorkerReturns
  <2> QED  BY <2>1
<1>2. ASSUME NEW q \in Requests, Accept(q) \/ HandlerStep(q)
      PROVE  Order'
  BY <1>2 DEF HandlerStep, Accept, HandlerAcquires, HandlerAnswers, HandlerFails, Reply
<1>3. CASE MainStep
  BY <1>3 DEF MainStep, SelectSignal, SelectError, Drained, Shutdown,
              ShutdownTimesOut, PoolClose, Exit
<1>4. CASE Signal \/ ListenerFails \/ Tick
  BY <1>4 DEF Signal, ListenerFails, Tick
<1>5. CASE UNCHANGED vars
  BY <1>5 DEF vars
<1> QED
  BY <1>1, <1>2, <1>3, <1>4, <1>5 DEF Next

\* Every step keeps the account.
LEMMA AccountInductive ==
  ASSUME Types, Order, Accounted, [Next]_vars
  PROVE  Accounted'
<1> USE DEF Types, Accounted
<1>1. ASSUME NEW w \in Workers, WorkerStep(w)
      PROVE  Accounted'
  BY <1>1 DEF WorkerStep, WorkerStarts, WorkerAcquires, WorkerQueryEnds, WorkerReturns
<1>2. ASSUME NEW q \in Requests, Accept(q) \/ HandlerStep(q)
      PROVE  Accounted'
  <2>1. PICK s \in {"acquire", "query", "answered"} : Reply(q, s)
    BY <1>2 DEF HandlerStep, Accept, HandlerAcquires, HandlerAnswers, HandlerFails
  <2>2. main # "exited" /\ (listener = "up" \/ request[q] \in {"acquire", "query"})
    BY <1>2 DEF HandlerStep, Accept, HandlerAcquires, HandlerAnswers, HandlerFails, Running
  <2> QED  BY <2>1, <2>2 DEF Reply
<1>3. CASE MainStep
  <2>1. CASE SelectSignal \/ SelectError \/ Drained \/ PoolClose
    BY <2>1 DEF SelectSignal, SelectError, Drained, PoolClose
  <2>2. CASE Shutdown \/ ShutdownTimesOut
    BY <2>2 DEF Shutdown, ShutdownTimesOut, InFlight
  <2>3. CASE Exit
    BY <2>3 DEF Exit, InFlight
  <2> QED  BY <1>3, <2>1, <2>2, <2>3 DEF MainStep
<1>4. CASE Signal \/ ListenerFails \/ Tick
  BY <1>4 DEF Signal, ListenerFails, Tick
<1>5. CASE UNCHANGED vars
  BY <1>5 DEF vars
<1> QED
  BY <1>1, <1>2, <1>3, <1>4, <1>5 DEF Next

\* The inductive invariant holds in every state.
THEOREM ShutdownInvariant == Spec => [](Types /\ Order /\ Accounted)
<1>1. Init => Types /\ PoolBound /\ Order /\ Accounted
  BY TypesInitially DEF Init, Order, Accounted
<1>2. Types /\ PoolBound /\ Order /\ Accounted /\ [Next]_vars
        => (Types /\ PoolBound /\ Order /\ Accounted)'
  BY TypesInductive, OrderInductive, AccountInductive
<1> QED
  BY <1>1, <1>2, PTL DEF Spec

\* On both ways out, ingest and retention have returned before pool.Close
\* begins, for any interleaving of any number of requests and ticks.
THEOREM WorkersReturnFirst == Spec => []WorkersReturnBeforeClose
<1>1. Order => WorkersReturnBeforeClose
  BY DEF Order, WorkersDone, WorkersReturnBeforeClose
<1> QED
  BY <1>1, ShutdownInvariant, PTL

\* Exit code 0 stands for a shutdown that answered every accepted request
\* while the pool was open.
THEOREM ExitCodeTells == Spec => []ExitCodeTellsOfLostRequests
<1>1. Order /\ Accounted => ExitCodeTellsOfLostRequests
  BY DEF Order, Accounted, ExitCodeTellsOfLostRequests, InFlight
<1> QED
  BY <1>1, ShutdownInvariant, PTL
=============================================================================
