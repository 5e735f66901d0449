---------------------- MODULE AnomalyAnnotations_proofs ----------------------
(***************************************************************************)
(* Proofs about AnomalyAnnotations, for any set of runs, any number of     *)
(* anomalies and any number of failing calls, and about LoadShape, for any *)
(* profiles, scales, reference times and lengths of the history.           *)
(***************************************************************************)
EXTENDS AnomalyAnnotations, LoadShape, FiniteSetTheorems, TLAPS

-----------------------------------------------------------------------------
(* Types, and how far each run is.                                         *)

\* What TypeOK leaves out: the loops of ReplaceAnomalyAnnotations in their
\* order, and that nothing can disturb a run before its list.
Progress ==
    /\ listed \in [Runs -> SUBSET (1..lastId)]
    /\ faults \in 0..MaxFaults
    /\ \A r \in Runs :
         /\ stage[r] \in {"seeding", "list"} => r \notin disturbed
         /\ stage[r] \in {"seeding", "list", "delete"} => next[r] = 1
         /\ stage[r] = "create" => stale[r] = {} /\ next[r] <= NumAnomalies

\* Grafana gives out no id twice.
UniqueIds == \A a, b \in shown : a.id = b.id => a = b

\* What a run may send next: while it deletes, a deletion of something stale,
\* and then the next of its own annotations.
LEMMA CallOf ==
  ASSUME TypeOK, Progress, NEW r \in Runs, stage[r] \in {"delete", "create"},
         NEW req \in Call(r)
  PROVE  /\ req \in Requests
         /\ stage[r] = "delete" => req.kind = "delete" /\ req.id \in stale[r]
         /\ stage[r] = "create" =>
              req.kind = "create" /\ req.run = r /\ req.anomaly = next[r]
<1>1. CASE stage[r] = "delete"
  <2>1. PICK i \in stale[r] : req = [kind |-> "delete", id |-> i]
    BY <1>1 DEF Call
  <2>2. i \in Nat
    BY DEF TypeOK
  <2> QED  BY <1>1, <2>1, <2>2 DEF Requests
<1>2. CASE stage[r] = "create"
  <2>1. req = [kind |-> "create", run |-> r, anomaly |-> next[r]]
    BY <1>2 DEF Call
  <2>2. next[r] \in Anomalies
    BY <1>2, AnnotationsAssumption DEF TypeOK, Progress, Anomalies
  <2> QED  BY <1>2, <2>1, <2>2 DEF Requests
<1> QED
  BY <1>1, <1>2

\* What a request does to Grafana: ids stay unique, none is used again, and a
\* deletion removes what it names.
LEMMA ApplyGrafana ==
  ASSUME TypeOK, UniqueIds, NEW req \in Requests, Apply(req)
  PROVE  /\ lastId' \in Nat /\ lastId' >= lastId
         /\ shown' \subseteq [id : 1..lastId', run : Runs, anomaly : Anomalies]
         /\ UniqueIds'
         /\ \A i \in Ids' : i \in Ids \/ i > lastId
         /\ req.kind = "delete" => Ids' = Ids \ {req.id} /\ shown' \subseteq shown
<1> USE DEF TypeOK
<1>1. CASE req.kind = "create"
  <2> DEFINE new == [id |-> lastId', run |-> req.run, anomaly |-> req.anomaly]
  <2>1. req.run \in Runs /\ req.anomaly \in Anomalies
    BY <1>1 DEF Requests
  <2>2. lastId' = lastId + 1 /\ shown' = shown \cup {new}
    BY <1>1 DEF Apply
  <2>3. shown' \subseteq [id : 1..lastId', run : Runs, anomaly : Anomalies]
    BY <2>1, <2>2
  <2>4. \A a \in shown : a.id <= lastId
    OBVIOUS
  <2>5. UniqueIds'
    BY <2>2, <2>4 DEF UniqueIds
  <2> QED  BY <1>1, <2>2, <2>3, <2>5 DEF Ids
<1>2. CASE req.kind # "create"
  <2>1. lastId' = lastId /\ shown' = {a \in shown : a.id # req.id}
    BY <1>2 DEF Apply
  <2> QED  BY <2>1 DEF UniqueIds, Ids
<1> QED
  BY <1>1, <1>2

\* When Grafana's counter only grows, what was in range stays in range.
LEMMA RangesGrow ==
  ASSUME TypeOK, Progress, lastId' \in Nat, lastId' >= lastId
  PROVE  /\ shown \subseteq [id : 1..lastId', run : Runs, anomaly : Anomalies]
         /\ stale \in [Runs -> SUBSET (1..lastId')]
         /\ listed \in [Runs -> SUBSET (1..lastId')]
<1>1. 1..lastId \subseteq 1..lastId'
  BY DEF TypeOK
<1> QED
  BY <1>1 DEF TypeOK, Progress

\* Every step keeps the types, the progress and the unique ids.
LEMMA TypesInductive ==
  ASSUME TypeOK, Progress, UniqueIds, [Next]_vars
  PROVE  TypeOK' /\ Progress' /\ UniqueIds'
<1> USE AnnotationsAssumption
<1> DEFINE Stages == {"seeding", "list", "delete", "create", "ok", "failed"}
           Goal == TypeOK' /\ Progress' /\ UniqueIds'
<1>1. ASSUME NEW r \in Runs, MarkerWritten(r)
      PROVE  Goal
  BY <1>1 DEF MarkerWritten, Go, history, TypeOK, Progress, UniqueIds
<1>2. ASSUME NEW r \in Runs, ListByTag(r)
      PROVE  Goal
  <2>1. PICK ids \in Listed :
          /\ stale' = [stale EXCEPT ![r] = ids]
          /\ listed' = [listed EXCEPT ![r] = ids]
    BY <1>2 DEF ListByTag
  <2>2. ids \subseteq 1..lastId
    BY DEF Listed, Ids, TypeOK
  <2>3. disturbed' \subseteq Runs /\ tangled' \in BOOLEAN
    <3>1. tangled' \in BOOLEAN
      BY <1>2, Zenon DEF ListByTag
    <3> QED  BY <1>2, <3>1 DEF ListByTag, Running, TypeOK
  <2>4. /\ stage[r] = "list" /\ stage' = [stage EXCEPT ![r] = "delete"]
        /\ UNCHANGED <<shown, lastId, late, next, faults>>
        /\ disturbed' \subseteq disturbed \cup Running \cup {r}
    BY <1>2 DEF ListByTag, Go
  <2>5. TypeOK'
    <3>1. /\ stale' \in [Runs -> SUBSET (1..lastId')]
          /\ stage' \in [Runs -> Stages]
      BY <2>1, <2>2, <2>4 DEF TypeOK
    <3>2. \A s \in Runs : stale'[s] \subseteq listed'[s]
      BY <2>1 DEF TypeOK, Progress
    <3>3. \A s \in Runs : stage'[s] = "ok" => stale'[s] = {} /\ next'[s] = NumAnomalies + 1
      BY <2>1, <2>4 DEF TypeOK
    <3> QED  BY <2>3, <2>4, <3>1, <3>2, <3>3 DEF TypeOK
  <2>6. Progress'
    BY <2>1, <2>2, <2>4 DEF TypeOK, Progress, Running
  <2> QED  BY <2>4, <2>5, <2>6 DEF UniqueIds
<1>3. ASSUME NEW r \in Runs, NothingStale(r)
      PROVE  Goal
  BY <1>3 DEF NothingStale, Go, StageAfter, history, TypeOK, Progress, UniqueIds
<1>4. ASSUME NEW r \in Runs, Replace(r)
      PROVE  Goal
  <2>1. PICK req \in Call(r) :
          /\ Apply(req)
          /\ stale' = [stale EXCEPT ![r] = IF req.kind = "delete" THEN @ \ {req.id} ELSE @]
          /\ next' = [next EXCEPT ![r] = IF req.kind = "create" THEN @ + 1 ELSE @]
    BY <1>4 DEF Replace
  <2>2. /\ stage[r] \in {"delete", "create"}
        /\ stage' = [stage EXCEPT ![r] = StageAfter(stale'[r], next'[r])]
        /\ UNCHANGED <<late, faults, listed>>
        /\ disturbed' = disturbed \cup (Running \ {r})
    BY <1>4 DEF Replace, Go, Effect
  <2>3. tangled' \in BOOLEAN
    BY <1>4, Zenon DEF Replace, Effect, TypeOK
  <2>4. /\ req \in Requests
        /\ stage[r] = "delete" => req.kind = "delete" /\ req.id \in stale[r]
        /\ stage[r] = "create" => req.kind = "create"
    BY <2>2, CallOf
  <2>5. /\ lastId' \in Nat /\ lastId' >= lastId /\ UniqueIds'
        /\ shown' \subseteq [id : 1..lastId', run : Runs, anomaly : Anomalies]
    BY <2>1, <2>4, ApplyGrafana
  <2>6. /\ stale \in [Runs -> SUBSET (1..lastId')]
        /\ listed \in [Runs -> SUBSET (1..lastId')]
    BY <2>5, RangesGrow
  <2>7. /\ stale'[r] \subseteq stale[r] /\ \A s \in Runs \ {r} : stale'[s] = stale[s]
        /\ stale' \in [Runs -> SUBSET (1..lastId')]
    BY <2>1, <2>6
  <2>8. /\ next' \in [Runs -> 1..(NumAnomalies + 1)]
        /\ \A s \in Runs \ {r} : next'[s] = next[s]
        /\ stage[r] = "delete" => next'[r] = 1
        /\ stage[r] = "create" => stale'[r] = {}
    BY <2>1, <2>2, <2>4 DEF TypeOK, Progress
  <2>9. StageAfter(stale'[r], next'[r]) \in {"delete", "create", "ok"}
    BY DEF StageAfter
  <2>10. stage' \in [Runs -> Stages]
    BY <2>2, <2>9 DEF TypeOK
  <2>11. /\ stage'[r] = "ok" => stale'[r] = {} /\ next'[r] = NumAnomalies + 1
         /\ stage'[r] = "create" => stale'[r] = {} /\ next'[r] <= NumAnomalies
         /\ stage'[r] = "delete" => next'[r] = 1
         /\ stage'[r] \in {"delete", "create", "ok"}
         /\ \A s \in Runs \ {r} : stage'[s] = stage[s]
    <3>1. stage'[r] = StageAfter(stale'[r], next'[r]) /\ \A s \in Runs \ {r} : stage'[s] = stage[s]
      BY <2>2 DEF TypeOK
    <3>2. next'[r] \in 1..(NumAnomalies + 1)
      BY <2>8
    <3> QED  BY <2>2, <2>8, <2>9, <3>1, <3>2 DEF StageAfter
  <2>12. TypeOK'
    BY <2>2, <2>3, <2>5, <2>7, <2>8, <2>10, <2>11 DEF TypeOK, Running
  <2>13. Progress'
    BY <2>2, <2>6, <2>7, <2>8, <2>11 DEF Progress, Running
  <2> QED  BY <2>5, <2>12, <2>13
<1>5. ASSUME NEW r \in Runs, NotFound(r)
      PROVE  Goal
  BY <1>5 DEF NotFound, Go, history, TypeOK, Progress, UniqueIds
<1>6. ASSUME NEW r \in Runs, CallFails(r)
      PROVE  Goal
  <2>1. /\ stage' = [stage EXCEPT ![r] = "failed"] /\ faults' \in 0..MaxFaults
        /\ UNCHANGED <<stale, next, listed>>
        /\ disturbed' \subseteq disturbed \cup Running
    BY <1>6 DEF CallFails, Go, Effect, history, Progress
  <2>2. tangled' \in BOOLEAN
    BY <1>6, Zenon DEF CallFails, Effect, history, TypeOK
  <2>3. /\ lastId' \in Nat /\ lastId' >= lastId /\ UniqueIds'
        /\ shown' \subseteq [id : 1..lastId', run : Runs, anomaly : Anomalies]
    <3>1. CASE UNCHANGED <<shown, lastId>>
      BY <3>1 DEF TypeOK, UniqueIds
    <3>2. ASSUME stage[r] \in {"delete", "create"}, NEW req \in Call(r), Apply(req)
          PROVE  /\ lastId' \in Nat /\ lastId' >= lastId /\ UniqueIds'
                 /\ shown' \subseteq [id : 1..lastId', run : Runs, anomaly : Anomalies]
      BY <3>2, CallOf, ApplyGrafana
    <3> QED  BY <1>6, <3>1, <3>2 DEF CallFails
  <2>4. late' \subseteq Requests
    <3>1. CASE UNCHANGED late
      BY <3>1 DEF TypeOK
    <3>2. ASSUME stage[r] \in {"delete", "create"}, NEW req \in Call(r),
                 late' = late \cup {req}
          PROVE  late' \subseteq Requests
      BY <3>2, CallOf DEF TypeOK
    <3> QED  BY <1>6, <3>1, <3>2 DEF CallFails
  <2>5. TypeOK'
    BY <2>1, <2>2, <2>3, <2>4, RangesGrow DEF TypeOK, Running
  <2>6. Progress'
    BY <2>1, <2>3, RangesGrow DEF TypeOK, Progress, Running
  <2> QED  BY <2>3, <2>5, <2>6
<1>7. ASSUME NEW req \in late, ArrivesLate(req)
      PROVE  Goal
  <2>1. /\ late' \subseteq late /\ UNCHANGED <<stage, stale, next, faults, listed>>
        /\ disturbed' = disturbed \cup Running
    BY <1>7 DEF ArrivesLate
  <2>2. tangled' \in BOOLEAN
    BY <1>7, Zenon DEF ArrivesLate
  <2>3. /\ lastId' \in Nat /\ lastId' >= lastId /\ UniqueIds'
        /\ shown' \subseteq [id : 1..lastId', run : Runs, anomaly : Anomalies]
    <3>1. CASE Apply(req)
      <4>1. req \in Requests
        BY DEF TypeOK
      <4> QED  BY <3>1, <4>1, ApplyGrafana
    <3>2. CASE UNCHANGED <<shown, lastId>>
      BY <3>2 DEF TypeOK, UniqueIds
    <3> QED  BY <1>7, <3>1, <3>2 DEF ArrivesLate
  <2>4. TypeOK'
    BY <2>1, <2>2, <2>3, RangesGrow DEF TypeOK, Running
  <2>5. Progress'
    BY <2>1, <2>3, RangesGrow DEF TypeOK, Progress, Running
  <2> QED  BY <2>3, <2>4, <2>5
<1>8. CASE UNCHANGED vars
  BY <1>8 DEF vars, TypeOK, Progress, UniqueIds
<1> QED
  BY <1>1, <1>2, <1>3, <1>4, <1>5, <1>6, <1>7, <1>8 DEF Next

\* The first state has the types.
LEMMA TypesInitially ==
  ASSUME Init
  PROVE  TypeOK /\ Progress /\ UniqueIds
<1>1. tangled \in BOOLEAN
  BY Zenon DEF Init
<1> QED
  BY <1>1, AnnotationsAssumption DEF Init, TypeOK, Progress, UniqueIds

\* Every variable keeps its type, and a run that ends with ok has deleted all
\* that it listed and made all its annotations.
THEOREM TypeCorrect == Spec => []TypeOK
<1>1. Init => TypeOK /\ Progress /\ UniqueIds
  BY TypesInitially
<1>2. TypeOK /\ Progress /\ UniqueIds /\ [Next]_vars => (TypeOK /\ Progress /\ UniqueIds)'
  BY TypesInductive
<1> QED
  BY <1>1, <1>2, PTL DEF Spec

-----------------------------------------------------------------------------
(* Two runs cannot replace the same annotation.                            *)

\* What run r has deleted: listed and not stale any more.
Taken(r) == listed[r] \ stale[r]

\* What a run has deleted is gone for good, since Grafana uses no id again,
\* and no other run has deleted it: delete answers 200 once.  OneReplacer is
\* this for runs that have deleted all they listed.
DeletedOnce ==
    /\ \A r \in Runs : Taken(r) \cap Ids = {}
    /\ \A r, s \in Runs : r # s => Taken(r) \cap Taken(s) = {}

\* A step that deletes for no run keeps it: new ids are larger than all that
\* were ever taken.
LEMMA OthersKeepDeletedOnce ==
  ASSUME TypeOK, Progress, DeletedOnce, UNCHANGED <<listed, stale>>,
         \A i \in Ids' : i \in Ids \/ i > lastId
  PROVE  DeletedOnce'
<1>1. \A r \in Runs : Taken(r) \subseteq 1..lastId /\ Taken(r)' = Taken(r)
  BY DEF Taken, Progress
<1>2. \A i \in 1..lastId : ~(i > lastId)
  BY DEF TypeOK
<1> QED
  BY <1>1, <1>2 DEF DeletedOnce

\* Every step keeps it.
LEMMA DeletedOnceInductive ==
  ASSUME TypeOK, Progress, UniqueIds, DeletedOnce, [Next]_vars
  PROVE  DeletedOnce'
<1>1. ASSUME NEW r \in Runs, MarkerWritten(r) \/ NothingStale(r) \/ NotFound(r)
      PROVE  DeletedOnce'
  <2>1. UNCHANGED <<shown, listed, stale>>
    BY <1>1 DEF MarkerWritten, NothingStale, NotFound, history
  <2> QED  BY <2>1, OthersKeepDeletedOnce DEF Ids
<1>2. ASSUME NEW r \in Runs, ListByTag(r)
      PROVE  DeletedOnce'
  <2>1. PICK ids \in Listed :
          /\ stale' = [stale EXCEPT ![r] = ids]
          /\ listed' = [listed EXCEPT ![r] = ids]
    BY <1>2 DEF ListByTag
  <2>2. Taken(r)' = {} /\ \A s \in Runs \ {r} : Taken(s)' = Taken(s)
    BY <2>1 DEF Taken, TypeOK, Progress
  <2>3. Ids' = Ids
    BY <1>2 DEF ListByTag, Ids
  <2> QED  BY <2>2, <2>3 DEF DeletedOnce
<1>3. ASSUME NEW r \in Runs, Replace(r)
      PROVE  DeletedOnce'
  <2>1. PICK req \in Call(r) :
          /\ Succeeds(req) /\ Apply(req)
          /\ stale' = [stale EXCEPT ![r] = IF req.kind = "delete" THEN @ \ {req.id} ELSE @]
    BY <1>3 DEF Replace
  <2>2. stage[r] \in {"delete", "create"} /\ UNCHANGED listed
    BY <1>3 DEF Replace, Effect
  <2>3. req \in Requests
    BY <2>2, CallOf
  <2>4. /\ \A i \in Ids' : i \in Ids \/ i > lastId
        /\ req.kind = "delete" => Ids' = Ids \ {req.id}
    BY <2>1, <2>3, ApplyGrafana
  <2>5. CASE req.kind = "delete"
    <3>1. req.id \in Ids
      BY <2>1, <2>5 DEF Succeeds
    <3>2. Taken(r)' \subseteq Taken(r) \cup {req.id} /\ \A s \in Runs \ {r} : Taken(s)' = Taken(s)
      BY <2>1, <2>2, <2>5 DEF Taken, TypeOK
    <3> QED  BY <2>4, <2>5, <3>1, <3>2 DEF DeletedOnce
  <2>6. CASE req.kind # "delete"
    <3>1. stale' = stale
      BY <2>1, <2>6 DEF TypeOK
    <3> QED  BY <2>2, <2>4, <3>1, OthersKeepDeletedOnce
  <2> QED  BY <2>5, <2>6
<1>4. ASSUME NEW r \in Runs, CallFails(r)
      PROVE  DeletedOnce'
  <2>1. UNCHANGED <<stale, listed>>
    BY <1>4 DEF CallFails, Effect, history
  <2>2. \A i \in Ids' : i \in Ids \/ i > lastId
    <3>1. CASE UNCHANGED shown
      BY <3>1 DEF Ids
    <3>2. ASSUME stage[r] \in {"delete", "create"}, NEW req \in Call(r), Apply(req)
          PROVE  \A i \in Ids' : i \in Ids \/ i > lastId
      BY <3>2, CallOf, ApplyGrafana
    <3> QED  BY <1>4, <3>1, <3>2 DEF CallFails
  <2> QED  BY <2>1, <2>2, OthersKeepDeletedOnce
<1>5. ASSUME NEW req \in late, ArrivesLate(req)
      PROVE  DeletedOnce'
  <2>1. UNCHANGED <<stale, listed>> /\ (Apply(req) \/ UNCHANGED shown)
    BY <1>5 DEF ArrivesLate
  <2>2. req \in Requests
    BY DEF TypeOK
  <2>3. \A i \in Ids' : i \in Ids \/ i > lastId
    BY <2>1, <2>2, ApplyGrafana DEF Ids
  <2> QED  BY <2>1, <2>3, OthersKeepDeletedOnce
<1>6. CASE UNCHANGED vars
  BY <1>6, OthersKeepDeletedOnce DEF vars, Ids
<1> QED
  BY <1>1, <1>2, <1>3, <1>4, <1>5, <1>6 DEF Next

\* Of two overlapping runs that listed the same annotation at most one
\* succeeds, for any number of runs and whatever fails.
THEOREM OneRunReplaces == Spec => []OneReplacer
<1> DEFINE IInv == TypeOK /\ Progress /\ UniqueIds /\ DeletedOnce
<1>1. Init => IInv
  BY TypesInitially DEF Init, DeletedOnce, Taken
<1>2. IInv /\ [Next]_vars => IInv'
  BY TypesInductive, DeletedOnceInductive
<1>3. IInv => OneReplacer
  BY DEF TypeOK, DeletedOnce, Taken, OneReplacer
<1> QED
  BY <1>1, <1>2, <1>3, PTL DEF Spec

-----------------------------------------------------------------------------
(* A run that is alone.                                                    *)

\* Grafana shows the first n annotations of run r, each once, and no other.
Own(r, n) ==
    /\ \A a \in shown : a.run = r /\ a.anomaly <= n
    /\ \A k \in 1..n : \E a \in shown : a.anomaly = k
    /\ \A a, b \in shown : a.anomaly = b.anomaly => a = b

\* A run that nothing has disturbed since its list is the only one between
\* list and end; all that is shown is still to be deleted by it or, once
\* that is done, is what it has made.
Alone ==
    \A r \in Running \ disturbed :
      /\ Running = {r}
      /\ stage[r] = "delete" => Ids \subseteq stale[r]
      /\ stage[r] = "create" => Own(r, next[r] - 1)

\* While nothing is tangled every run between list and end is one that
\* nothing has disturbed.
Untangled == ~tangled => Running \cap disturbed = {}

\* The next create of a run that is alone adds the next of its annotations.
LEMMA CreateOwn ==
  ASSUME TypeOK, Progress, Alone, NEW r \in Running \ disturbed, stage[r] = "create",
         NEW n \in Nat, next[r] = n, NEW req \in Call(r), Apply(req)
  PROVE  Own(r, n)'
<1>1. r \in Runs
  BY DEF Running
<1>2. req.kind = "create" /\ req.run = r /\ req.anomaly = n
  BY <1>1, CallOf
<1> DEFINE new == [id |-> lastId', run |-> r, anomaly |-> n]
<1>3. shown' = shown \cup {new}
  BY <1>2 DEF Apply
<1>4. Own(r, n - 1)
  BY DEF Alone
<1>5. \A a \in shown : a.anomaly \in Nat /\ a.anomaly <= n - 1
  BY <1>4 DEF Own, TypeOK, Anomalies
<1>6. \A k \in 1..n : k \in 1..(n - 1) \/ k = n
  OBVIOUS
<1>7. \A a \in shown' : a.run = r /\ a.anomaly <= n
  BY <1>3, <1>4, <1>5 DEF Own
<1>8. \A k \in 1..n : \E a \in shown' : a.anomaly = k
  <2> SUFFICES ASSUME NEW k \in 1..n
               PROVE  \E a \in shown' : a.anomaly = k
    OBVIOUS
  <2>1. CASE k = n
    <3>1. new \in shown' /\ new.anomaly = k
      BY <1>3, <2>1
    <3> QED  BY <3>1
  <2>2. CASE k \in 1..(n - 1)
    BY <1>3, <1>4, <2>2 DEF Own
  <2> QED  BY <1>6, <2>1, <2>2
<1>9. \A a, b \in shown' : a.anomaly = b.anomaly => a = b
  BY <1>3, <1>4, <1>5 DEF Own
<1> QED
  BY <1>7, <1>8, <1>9 DEF Own

\* A successful call of a run that is alone.
LEMMA ReplaceAlone ==
  ASSUME TypeOK, Progress, UniqueIds, Alone,
         NEW r \in Runs, r \notin disturbed, Replace(r)
  PROVE  /\ stage'[r] = "delete" => Ids' \subseteq stale'[r]
         /\ stage'[r] = "create" => Own(r, next[r] - 1)'
         /\ stage'[r] = "ok" => Own(r, NumAnomalies)'
<1> USE AnnotationsAssumption
<1>1. PICK req \in Call(r) :
        /\ Apply(req)
        /\ stale' = [stale EXCEPT ![r] = IF req.kind = "delete" THEN @ \ {req.id} ELSE @]
        /\ next' = [next EXCEPT ![r] = IF req.kind = "create" THEN @ + 1 ELSE @]
  BY DEF Replace
<1>2. stage[r] \in {"delete", "create"} /\ stage'[r] = StageAfter(stale'[r], next'[r])
  BY DEF Replace, Go, TypeOK
<1>3. r \in Running \ disturbed
  BY <1>2 DEF Running
<1>4. CASE stage[r] = "delete"
  <2>1. req \in Requests /\ req.kind = "delete"
    BY <1>4, CallOf
  <2>2. Ids' = Ids \ {req.id}
    BY <1>1, <2>1, ApplyGrafana
  <2>3. stale'[r] = stale[r] \ {req.id} /\ next'[r] = 1
    BY <1>1, <1>4, <2>1 DEF TypeOK, Progress
  <2>4. Ids' \subseteq stale'[r]
    BY <1>3, <1>4, <2>2, <2>3 DEF Alone
  <2>5. stage'[r] # "ok" /\ (stage'[r] = "create" => stale'[r] = {})
    BY <1>2, <2>3 DEF StageAfter
  <2>6. stage'[r] = "create" => shown' = {}
    BY <2>4, <2>5 DEF Ids
  <2>7. stage'[r] = "create" => Own(r, next[r] - 1)'
    BY <2>3, <2>6 DEF Own
  <2> QED  BY <2>4, <2>5, <2>7
<1>5. CASE stage[r] = "create"
  <2>1. next[r] \in Nat /\ next[r] <= NumAnomalies /\ stale[r] = {}
    BY <1>5 DEF TypeOK, Progress
  <2> DEFINE n == next[r]
  <2>2. PICK m \in Nat : m = n
    BY <2>1
  <2>3. Own(r, m)'
    BY <1>1, <1>3, <1>5, <2>2, CreateOwn
  <2>4. req.kind = "create"
    BY <1>5, CallOf
  <2>5. next'[r] = m + 1 /\ stale'[r] = {}
    BY <1>1, <2>1, <2>2, <2>4 DEF TypeOK
  <2>6. /\ stage'[r] # "delete"
        /\ stage'[r] = "ok" => m = NumAnomalies
    BY <1>2, <2>1, <2>2, <2>5 DEF StageAfter
  <2>7. Own(r, next[r] - 1)'
    <3>1. next'[r] - 1 = m
      BY <2>5
    <3> QED  BY <2>3, <3>1 DEF Own
  <2> QED  BY <2>3, <2>6, <2>7
<1> QED
  BY <1>2, <1>4, <1>5

\* Every step keeps what is known of a run that is alone.
LEMMA AloneInductive ==
  ASSUME TypeOK, Progress, UniqueIds, Alone, [Next]_vars
  PROVE  Alone'
<1> USE AnnotationsAssumption
<1>1. ASSUME NEW s \in Runs, MarkerWritten(s)
      PROVE  Alone'
  <2>1. stage'[s] = "list" /\ \A t \in Runs \ {s} : stage'[t] = stage[t]
    BY <1>1 DEF MarkerWritten, Go, TypeOK
  <2>2. stage[s] = "seeding" /\ UNCHANGED <<shown, stale, next, disturbed>>
    BY <1>1 DEF MarkerWritten, history
  <2> QED  BY <2>1, <2>2 DEF Alone, Running, Own, Ids
<1>2. ASSUME NEW s \in Runs, ListByTag(s)
      PROVE  Alone'
  <2>1. PICK ids \in Listed : stale' = [stale EXCEPT ![s] = ids]
    BY <1>2 DEF ListByTag
  <2>2. Running' = Running \cup {s} /\ stage'[s] = "delete"
    BY <1>2 DEF ListByTag, Go, Running, TypeOK
  <2>3. Running \subseteq disturbed'
    BY <1>2 DEF ListByTag
  <2>4. s \notin disturbed' => Running = {} /\ Cardinality(Ids) <= Limit
    BY <1>2 DEF ListByTag
  <2>5. s \notin disturbed' => Running' = {s} /\ Ids' \subseteq stale'[s]
    <3>1. Cardinality(Ids) <= Limit => ids = Ids
      BY DEF Listed
    <3>2. Ids' = Ids /\ stale'[s] = ids
      BY <1>2, <2>1 DEF ListByTag, Ids, TypeOK
    <3> QED  BY <2>2, <2>4, <3>1, <3>2
  <2> QED  BY <2>2, <2>3, <2>5 DEF Alone
<1>3. ASSUME NEW s \in Runs, NothingStale(s)
      PROVE  Alone'
  <2>1. stage[s] = "delete" /\ stale[s] = {} /\ next[s] = 1
    BY <1>3 DEF NothingStale, Progress
  <2>2. stage'[s] = "create" /\ \A t \in Runs \ {s} : stage'[t] = stage[t]
    BY <1>3, <2>1 DEF NothingStale, Go, StageAfter, TypeOK
  <2>3. UNCHANGED <<shown, stale, next, disturbed>>
    BY <1>3 DEF NothingStale, history
  <2>4. s \in Running /\ Running' = Running
    BY <2>1, <2>2 DEF Running
  <2>5. s \notin disturbed => Running = {s} /\ shown = {}
    BY <2>1, <2>4 DEF Alone, Ids
  <2>6. s \notin disturbed => Own(s, next[s] - 1)'
    BY <2>1, <2>3, <2>5 DEF Own
  <2>7. \A t \in Running' \ disturbed' : t = s
    BY <2>3, <2>4 DEF Alone
  <2> QED  BY <2>2, <2>3, <2>4, <2>5, <2>6, <2>7 DEF Alone
<1>4. ASSUME NEW s \in Runs, Replace(s)
      PROVE  Alone'
  <2>1. disturbed' = disturbed \cup (Running \ {s}) /\ s \in Running
    BY <1>4 DEF Replace, Effect, Running
  <2>2. Running' \subseteq Running
    BY <1>4, <2>1 DEF Replace, Go, Running, TypeOK
  <2>3. \A t \in Running' \ disturbed' : t = s /\ s \notin disturbed /\ Running' = {s}
    BY <2>1, <2>2 DEF Alone
  <2>4. s \notin disturbed =>
          /\ stage'[s] = "delete" => Ids' \subseteq stale'[s]
          /\ stage'[s] = "create" => Own(s, next[s] - 1)'
    BY <1>4, ReplaceAlone
  <2> QED  BY <2>3, <2>4 DEF Alone
<1>5. ASSUME NEW s \in Runs, NotFound(s) \/ CallFails(s)
      PROVE  Alone'
  <2>1. /\ Running' = Running \ {s} /\ disturbed \subseteq disturbed'
        /\ \A t \in Runs \ {s} : stage'[t] = stage[t]
    BY <1>5 DEF NotFound, CallFails, Go, Effect, history, Running, TypeOK
  <2>2. CASE s \in Running
    BY <2>1, <2>2 DEF Alone
  <2>3. CASE s \notin Running
    <3>1. UNCHANGED <<shown, stale, next, disturbed>>
      BY <1>5, <2>3 DEF NotFound, CallFails, history, Running
    <3>2. \A t \in Running : t # s /\ t \in Runs
      BY <2>3 DEF Running
    <3> QED  BY <2>1, <2>3, <3>1, <3>2 DEF Alone, Own, Ids
  <2> QED  BY <2>2, <2>3
<1>6. ASSUME NEW req \in late, ArrivesLate(req)
      PROVE  Alone'
  BY <1>6 DEF ArrivesLate, Alone, Running
<1>7. CASE UNCHANGED vars
  BY <1>7 DEF vars, Alone, Running, Own, Ids
<1> QED
  BY <1>1, <1>2, <1>3, <1>4, <1>5, <1>6, <1>7 DEF Next

\* A set of annotations of one run with every anomaly once is as large as the
\* profile.
LEMMA CompleteSet ==
  ASSUME NEW S, \A a \in S : a.anomaly \in Anomalies,
         \A k \in Anomalies : \E a \in S : a.anomaly = k,
         \A a, b \in S : a.anomaly = b.anomaly => a = b
  PROVE  Cardinality(S) = NumAnomalies
<1> DEFINE f == [a \in S |-> a.anomaly]
<1>1. f \in Injection(S, Anomalies)
  BY DEF Injection, IsInjective
<1>2. IsFiniteSet(Anomalies) /\ Cardinality(Anomalies) = NumAnomalies
  BY FS_Interval, AnnotationsAssumption DEF Anomalies
<1>3. f \in Surjection(S, Anomalies)
  <2>1. \A k \in Anomalies : \E a \in S : f[a] = k
    OBVIOUS
  <2> QED  BY <2>1 DEF Surjection
<1>4. Cardinality(S) = Cardinality(Anomalies)
  BY <1>1, <1>2, <1>3, FS_Injection
<1> QED
  BY <1>2, <1>4

\* A run that succeeds without having been disturbed leaves exactly its own
\* annotations, each once, for any history of earlier runs.
THEOREM SuccessReplaces == Spec => SuccessReplacesEverything
<1> USE AnnotationsAssumption
<1> DEFINE IInv == TypeOK /\ Progress /\ UniqueIds /\ Alone
<1>1. Init => IInv
  <2> SUFFICES ASSUME Init PROVE IInv
    OBVIOUS
  <2>1. Running = {}
    BY DEF Init, Running
  <2> QED  BY <2>1, TypesInitially DEF Alone
<1>2. IInv /\ [Next]_vars => IInv'
  BY TypesInductive, AloneInductive
<1>3. ASSUME IInv, [Next]_vars
      PROVE  [\A r \in Runs \ disturbed' :
                stage[r] # "ok" /\ stage'[r] = "ok" =>
                  /\ {<<a.run, a.anomaly>> : a \in shown'} = {<<r, k>> : k \in Anomalies}
                  /\ Cardinality(shown') = NumAnomalies]_vars
  <2> SUFFICES ASSUME Next, NEW r \in Runs \ disturbed', stage[r] # "ok", stage'[r] = "ok"
               PROVE  /\ {<<a.run, a.anomaly>> : a \in shown'} = {<<r, k>> : k \in Anomalies}
                      /\ Cardinality(shown') = NumAnomalies
    BY <1>3
  <2>1. disturbed \subseteq disturbed'
    BY DEF Next, MarkerWritten, ListByTag, NothingStale, Replace, NotFound, CallFails,
           ArrivesLate, Effect, history
  <2>2. Replace(r)
    <3>1. ASSUME NEW req \in late, ArrivesLate(req)
          PROVE  FALSE
      BY <3>1 DEF ArrivesLate
    <3>2. PICK s \in Runs : \/ MarkerWritten(s) \/ ListByTag(s) \/ NothingStale(s)
                            \/ Replace(s) \/ NotFound(s) \/ CallFails(s)
      BY <3>1 DEF Next
    <3>3. s = r
      BY <1>3, <3>2 DEF MarkerWritten, ListByTag, NothingStale, Replace, NotFound, CallFails,
                        Go, TypeOK
    <3>4. ~(MarkerWritten(s) \/ ListByTag(s) \/ NotFound(s) \/ CallFails(s))
      BY <1>3, <3>3 DEF MarkerWritten, ListByTag, NotFound, CallFails, Go, TypeOK
    <3>5. ~NothingStale(s)
      BY <1>3, <3>3 DEF NothingStale, Go, StageAfter, TypeOK, Progress
    <3> QED  BY <3>2, <3>3, <3>4, <3>5
  <2>3. Own(r, NumAnomalies)'
    BY <1>3, <2>1, <2>2, ReplaceAlone
  <2>4. TypeOK'
    BY <1>2, <1>3
  <2>5. \A a \in shown' : a.anomaly \in Anomalies /\ a.run = r
    BY <2>3, <2>4 DEF TypeOK, Own
  <2>6. \A k \in Anomalies : \E a \in shown' : a.anomaly = k
    BY <2>3 DEF Own, Anomalies
  <2>7. \A a, b \in shown' : a.anomaly = b.anomaly => a = b
    BY <2>3 DEF Own
  <2>8. Cardinality(shown') = NumAnomalies
    BY <2>5, <2>6, <2>7, CompleteSet
  <2>9. {<<a.run, a.anomaly>> : a \in shown'} = {<<r, k>> : k \in Anomalies}
    BY <2>5, <2>6
  <2> QED  BY <2>8, <2>9
<1> QED
  BY <1>1, <1>2, <1>3, PTL DEF Spec, SuccessReplacesEverything

-----------------------------------------------------------------------------
(* Annotations are not mixed.                                              *)

\* Annotations with different anomalies are at most as many as the profile
\* has anomalies, and so are their ids.
LEMMA FewIds ==
  ASSUME TypeOK, \A a, b \in shown : a.anomaly = b.anomaly => a = b
  PROVE  Cardinality(Ids) \in Nat /\ Cardinality(Ids) <= NumAnomalies
<1> DEFINE f == [a \in shown |-> a.anomaly]
           g == [a \in shown |-> a.id]
<1>1. f \in Injection(shown, Anomalies)
  <2>1. f \in [shown -> Anomalies]
    BY DEF TypeOK
  <2> QED  BY <2>1 DEF Injection, IsInjective
<1>2. IsFiniteSet(Anomalies) /\ Cardinality(Anomalies) = NumAnomalies
  BY FS_Interval, AnnotationsAssumption DEF Anomalies
<1>3. IsFiniteSet(shown) /\ Cardinality(shown) <= NumAnomalies
  BY <1>1, <1>2, FS_Injection
<1>4. g \in Surjection(shown, Ids)
  <2>1. g \in [shown -> Ids] /\ \A i \in Ids : \E a \in shown : g[a] = i
    BY DEF Ids
  <2> QED  BY <2>1 DEF Surjection
<1>5. IsFiniteSet(Ids) /\ Cardinality(Ids) <= Cardinality(shown)
  BY <1>3, <1>4, FS_Surjection
<1>6. Cardinality(Ids) \in Nat /\ Cardinality(shown) \in Nat
  BY <1>3, <1>5, FS_CardinalityType
<1> QED
  BY <1>3, <1>5, <1>6, AnnotationsAssumption

\* Every step keeps the annotations apart, if the limit of the list call is
\* not below the number of anomalies: otherwise a run of its own could leave
\* more than the next one gets to see.
LEMMA UntangledInductive ==
  ASSUME NumAnomalies <= Limit,
         TypeOK, Progress, UniqueIds, Alone, Untangled, NeverMixed, [Next]_vars
  PROVE  Untangled' /\ NeverMixed'
<1> USE AnnotationsAssumption
<1> SUFFICES ASSUME ~tangled'
             PROVE  /\ Running' \cap disturbed' = {}
                    /\ \A a, b \in shown' : a.run = b.run /\ (a.anomaly = b.anomaly => a = b)
  BY DEF Untangled, NeverMixed
<1> DEFINE Apart == \A a, b \in shown' : a.run = b.run /\ (a.anomaly = b.anomaly => a = b)
           Goal == Running' \cap disturbed' = {} /\ Apart
<1>1. ASSUME NEW s \in Runs, MarkerWritten(s) \/ NothingStale(s) \/ NotFound(s)
      PROVE  Goal
  <2>1. UNCHANGED <<shown, disturbed, tangled>>
    BY <1>1 DEF MarkerWritten, NothingStale, NotFound, history
  <2>2. Running' \subseteq Running
    BY <1>1 DEF MarkerWritten, NothingStale, NotFound, Go, Running, TypeOK
  <2> QED  BY <2>1, <2>2 DEF Untangled, NeverMixed
<1>2. ASSUME NEW s \in Runs, ListByTag(s)
      PROVE  Goal
  <2>1. ~tangled /\ Running = {}
    BY <1>2 DEF ListByTag
  <2>2. Cardinality(Ids) \in Nat /\ Cardinality(Ids) <= NumAnomalies
    BY <2>1, FewIds DEF NeverMixed
  <2>3. Cardinality(Ids) <= Limit
    BY <2>2
  <2>4. disturbed' = disturbed /\ s \notin disturbed
    BY <1>2, <2>1, <2>3 DEF ListByTag, Progress
  <2>5. Running' = {s} /\ UNCHANGED shown
    BY <1>2, <2>1 DEF ListByTag, Go, Running, TypeOK
  <2> QED  BY <2>1, <2>4, <2>5 DEF NeverMixed
<1>3. ASSUME NEW s \in Runs, Replace(s)
      PROVE  Goal
  <2>1. s \in Running /\ disturbed' = disturbed \cup (Running \ {s})
    BY <1>3 DEF Replace, Effect, Running
  <2>2. \/ stage'[s] = "ok" /\ s \notin disturbed
        \/ ~tangled /\ Running = {s}
    BY <1>3, <2>1 DEF Replace, Effect
  <2>3. s \notin disturbed /\ Running = {s}
    BY <2>1, <2>2 DEF Untangled, Alone
  <2>4. Running' \subseteq Running
    BY <1>3, <2>1 DEF Replace, Go, Running, TypeOK
  <2>5. Running' \cap disturbed' = {}
    BY <2>1, <2>3, <2>4
  <2>6. /\ stage'[s] = "delete" => Ids' \subseteq stale'[s]
        /\ stage'[s] = "create" => Own(s, next[s] - 1)'
        /\ stage'[s] = "ok" => Own(s, NumAnomalies)'
    BY <1>3, <2>3, ReplaceAlone
  <2>7. CASE stage'[s] \in {"create", "ok"}
    <3>1. Apart
      BY <2>6, <2>7 DEF Own
    <3> QED  BY <2>5, <3>1
  <2>8. CASE stage'[s] \notin {"create", "ok"}
    <3>1. ~tangled
      BY <2>2, <2>8
    <3>2. PICK req \in Call(s) :
            /\ Apply(req)
            /\ stale' = [stale EXCEPT ![s] = IF req.kind = "delete" THEN @ \ {req.id} ELSE @]
      BY <1>3 DEF Replace
    <3>3. stage[s] = "delete"
      <4>1. stage'[s] = StageAfter(stale'[s], next'[s]) /\ stage[s] \in {"delete", "create"}
        BY <1>3 DEF Replace, Go, TypeOK
      <4>2. stage[s] = "create" => stale'[s] = {}
        BY <3>2 DEF TypeOK, Progress
      <4> QED  BY <2>8, <4>1, <4>2 DEF StageAfter
    <3>4. req \in Requests /\ req.kind = "delete"
      BY <3>3, CallOf
    <3>5. shown' \subseteq shown
      BY <3>2, <3>4, ApplyGrafana
    <3> QED  BY <2>5, <3>1, <3>5 DEF NeverMixed
  <2> QED  BY <2>7, <2>8
<1>4. ASSUME NEW s \in Runs, CallFails(s)
      PROVE  Goal
  <2>1. ~tangled /\ Running' = Running \ {s}
    BY <1>4 DEF CallFails, Effect, history, Go, Running, TypeOK
  <2>2. CASE UNCHANGED <<shown, disturbed>>
    BY <2>1, <2>2 DEF Untangled, NeverMixed
  <2>3. ASSUME stage[s] \in {"delete", "create"}, Effect(Running \ {s}, FALSE),
               NEW req \in Call(s), Apply(req)
        PROVE  Goal
    <3>1. s \in Running /\ Running = {s} /\ s \notin disturbed
      BY <2>1, <2>3 DEF Effect, Running, Untangled
    <3>2. CASE stage[s] = "create"
      <4>1. PICK n \in Nat : n = next[s]
        BY DEF TypeOK
      <4>2. Own(s, n)'
        BY <2>3, <3>1, <3>2, <4>1, CreateOwn
      <4> QED  BY <2>1, <3>1, <4>2 DEF Own
    <3>3. CASE stage[s] = "delete"
      <4>1. req \in Requests /\ req.kind = "delete"
        BY <2>3, <3>3, CallOf
      <4>2. shown' \subseteq shown
        BY <2>3, <4>1, ApplyGrafana
      <4> QED  BY <2>1, <3>1, <4>2 DEF NeverMixed
    <3> QED  BY <2>3, <3>2, <3>3
  <2> QED  BY <1>4, <2>2, <2>3 DEF CallFails, history
<1>5. ASSUME NEW req \in late, ArrivesLate(req)
      PROVE  Goal
  BY <1>5 DEF ArrivesLate
<1>6. CASE UNCHANGED vars
  BY <1>6 DEF vars, Running, Untangled, NeverMixed
<1> QED
  BY <1>1, <1>2, <1>3, <1>4, <1>5, <1>6 DEF Next

\* As long as the profile has no more anomalies than one list call returns
\* (three against the 1000 of listByTag), annotations of two runs are shown
\* together only after an overlap or a late arrival, until the next run that
\* was alone.
THEOREM AnnotationsNeverMixed ==
  ASSUME NumAnomalies <= Limit
  PROVE  Spec => []NeverMixed
<1> DEFINE IInv == TypeOK /\ Progress /\ UniqueIds /\ Alone /\ Untangled /\ NeverMixed
<1>1. Init => IInv
  <2> SUFFICES ASSUME Init PROVE IInv
    OBVIOUS
  <2>1. Running = {} /\ shown = {}
    BY DEF Init, Running
  <2> QED  BY <2>1, TypesInitially DEF Alone, Untangled, NeverMixed
<1>2. IInv /\ [Next]_vars => IInv'
  BY TypesInductive, AloneInductive, UntangledInductive
<1> QED
  BY <1>1, <1>2, PTL DEF Spec

-----------------------------------------------------------------------------
(***************************************************************************)
(* The load profile.                                                       *)
(***************************************************************************)

\* What the assumption says of the run's own profile, reference and scale.
LEMMA RunFacts ==
  ASSUME ShapeTypeOK
  PROVE  /\ ref \in Int /\ scale \in Int /\ scale > 0
         /\ Days \in Int /\ Days > 0 /\ h \in Int /\ h >= 0 /\ h <= 24 * Days
         /\ profile.weekdays \in Seq(Nat) /\ profile.trend \in Int
         /\ profile.base \in Nat /\ profile.amplitude \in 0..100 /\ profile.noise \in 0..100
         /\ \A a \in profile.anomalies :
              a.offset \in Int /\ a.hours \in Int /\ a.hours >= 0 /\ a.multiplier \in Nat
<1>1. ref \in Nat /\ scale \in Nat \ {0} /\ Days \in Nat \ {0} /\ profile \in Profiles
  BY ShapeAssumption DEF ShapeTypeOK
<1>2. /\ profile.weekdays \in Seq(Nat) /\ profile.trend \in Int
      /\ profile.base \in Nat /\ profile.amplitude \in 0..100 /\ profile.noise \in 0..100
      /\ \A a \in profile.anomalies : a.offset \in Int /\ a.hours \in Nat /\ a.multiplier \in Nat
  BY <1>1, ShapeAssumption
<1>3. h \in 0..(24 * Days)
  BY DEF ShapeTypeOK
<1> QED
  BY <1>1, <1>2, <1>3

\* One turn of the loop of seeder.Run keeps the types.
LEMMA ShapeTypesInductive ==
  ASSUME ShapeTypeOK, [ShapeNext]_shapeVars
  PROVE  ShapeTypeOK'
<1>1. CASE Parse
  BY <1>1 DEF Parse, ShapeTypeOK
<1>2. CASE GenerateHour
  <2>1. h \in Int /\ h >= 0 /\ Days \in Int
    BY RunFacts
  <2>2. h' = h + 1 /\ h' \in 0..(24 * Days) /\ UNCHANGED <<profile, ref, scale, phase>>
    BY <1>2, <2>1 DEF GenerateHour, HoursLeft
  <2>3. shaped' \subseteq (1..h') \X profile.anomalies
    <3>1. shaped \subseteq (1..h) \X profile.anomalies /\ 1..h \subseteq 1..h' /\ h' \in 1..h'
      BY <2>1, <2>2 DEF ShapeTypeOK
    <3> QED  BY <1>2, <3>1 DEF GenerateHour
  <2>4. empty' \in BOOLEAN
    BY <1>2, Zenon DEF GenerateHour, RoundsToZero
  <2> QED  BY <2>2, <2>3, <2>4 DEF ShapeTypeOK
<1>3. CASE UNCHANGED shapeVars
  BY <1>3 DEF shapeVars, ShapeTypeOK
<1> QED
  BY <1>1, <1>2, <1>3 DEF ShapeNext

\* The walk stays in the window of --days, whatever the profile holds.
THEOREM ShapeTypeCorrect == ShapeSpec => []ShapeTypeOK
<1>1. ShapeInit => ShapeTypeOK
  <2>1. Days \in Nat
    BY ShapeAssumption
  <2>2. ShapeInit => empty \in BOOLEAN
    BY Zenon DEF ShapeInit
  <2> QED  BY <2>1, <2>2 DEF ShapeInit, ShapeTypeOK
<1> QED
  BY <1>1, ShapeTypesInductive, PTL DEF ShapeSpec

-----------------------------------------------------------------------------
(* The calendar.                                                           *)

\* Two negative remainders and a correction make one modulus.
LEMMA WeekdayIsModulus ==
  ASSUME NEW d \in Int
  PROVE  Rem(Rem(Rem(d, 7) + 3, 7) + 7, 7) = (d + 3) % 7
<1>1. CASE d >= 0
  BY <1>1 DEF Rem
<1>2. CASE d < 0
  BY <1>2 DEF Rem
<1> QED
  BY <1>1, <1>2

\* mondayIndex, with its two negative remainders, is the calendar's weekday at
\* every time the walk asks for, before 1970 too (WeekdayOfCalendar).
THEOREM WeekdaysAreRight == ShapeSpec => []WeekdayOfCalendar
<1>1. ShapeTypeOK => WeekdayOfCalendar
  <2> SUFFICES ASSUME ShapeTypeOK PROVE WeekdayOfCalendar
    OBVIOUS
  <2> DEFINE t == ProfileTime(bucketMid(h))
  <2>1. t \in Int
    BY RunFacts DEF ProfileTime, bucketMid, windowStart, windowEnd, Hour, Day
  <2> HIDE DEF t
  <2>2. t \div Day \in Int
    BY <2>1 DEF Day, Hour
  <2>3. mondayIndex(t) = (t \div Day + 3) % 7
    BY <2>2, WeekdayIsModulus DEF mondayIndex
  <2> QED  BY <2>3 DEF t, WeekdayOfCalendar
<1> QED
  BY <1>1, ShapeTypeCorrect, PTL

-----------------------------------------------------------------------------
(* What the walk has recorded.                                             *)

InShape(k, a) == InWindow(a, ProfileTime(bucketMid(k)))

\* Only a profile that was accepted is walked through, and the history
\* variable holds the anomalies that Rate saw at the midpoints.
Recorded ==
    /\ h > 0 => phase = "walk"
    /\ phase = "walk" => ParseProfile(profile)
    /\ \A k \in 1..h : \A a \in profile.anomalies : <<k, a>> \in shaped <=> InShape(k, a)

\* One turn of the loop of seeder.Run, and ParseProfile, keep the record true.
LEMMA RecordedInductive ==
  ASSUME ShapeTypeOK, Recorded, [ShapeNext]_shapeVars
  PROVE  Recorded'
<1>0. h \in Int /\ h >= 0
  BY RunFacts
<1>s. UNCHANGED <<profile, ref, scale>>
  BY DEF ShapeNext, Parse, GenerateHour, shapeVars
<1>i. \A k, a : InShape(k, a)' <=> InShape(k, a)
  BY <1>s DEF InShape, InWindow, Start, End, ProfileTime, bucketMid, windowStart, windowEnd
<1>1. CASE Parse
  BY <1>1, <1>i DEF Parse, Recorded, ParseProfile
<1>2. CASE GenerateHour
  <2>1. h' = h + 1 /\ phase' = phase /\ phase = "walk"
    BY <1>2 DEF GenerateHour
  <2>2. ASSUME NEW k \in 1..h', NEW a \in profile.anomalies
        PROVE  <<k, a>> \in shaped' <=> InShape(k, a)
    <3>1. <<k, a>> \in shaped' <=> <<k, a>> \in shaped \/ (k = h + 1 /\ InShape(k, a))
      BY <1>2, <2>1 DEF GenerateHour, InShape, bucketMid
    <3>2. CASE k = h + 1
      <4>1. <<k, a>> \notin shaped
        BY <1>0, <3>2 DEF ShapeTypeOK
      <4> QED  BY <3>1, <3>2, <4>1
    <3>3. CASE k \in 1..h
      BY <1>0, <3>1, <3>3 DEF Recorded
    <3> QED  BY <1>0, <2>1, <3>2, <3>3
  <2> QED  BY <1>0, <1>s, <1>i, <2>1, <2>2 DEF Recorded, ParseProfile
<1>3. CASE UNCHANGED shapeVars
  BY <1>3, <1>i DEF shapeVars, Recorded, ParseProfile
<1> QED
  BY <1>1, <1>2, <1>3 DEF ShapeNext

\* What the walk through the hours has recorded is what Rate saw.
THEOREM WalkRecords == ShapeSpec => [](ShapeTypeOK /\ Recorded)
<1>1. ShapeInit => Recorded
  <2> SUFFICES ASSUME ShapeInit PROVE Recorded
    OBVIOUS
  <2>1. h = 0 /\ phase = "parse"
    BY DEF ShapeInit
  <2> QED  BY <2>1 DEF Recorded
<1> QED
  BY <1>1, RecordedInductive, ShapeTypeCorrect, PTL DEF ShapeSpec

-----------------------------------------------------------------------------
(* Windows.                                                                *)

\* A quotient, by the products around it.
LEMMA DivBounds ==
  ASSUME NEW x \in Int, NEW s \in Int, s > 0
  PROVE  /\ x \div s \in Int
         /\ (x \div s) * s <= x /\ x < (x \div s) * s + s
         /\ x % s = 0 => x = (x \div s) * s
  OBVIOUS

\* A positive factor keeps the order, and a step is worth the factor.
LEMMA ProductOrder ==
  ASSUME NEW x \in Int, NEW y \in Int, NEW s \in Int, s > 0
  PROVE  /\ x <= y <=> x * s <= y * s
         /\ x < y => x * s + s <= y * s
<1>1. CASE x < y
  <2>1. PICK d \in Nat : y = x + 1 + d
    <3>1. y - x - 1 \in Nat /\ y = x + 1 + (y - x - 1)
      BY <1>1
    <3> QED  BY <3>1
  <2>2. y * s = x * s + s + d * s /\ d * s \in Nat /\ x * s \in Int
    BY <2>1
  <2> QED  BY <1>1, <2>2
<1>2. CASE x = y
  <2>1. x * s = y * s /\ x * s \in Int
    BY <1>2
  <2> QED  BY <1>2, <2>1
<1>3. CASE y < x
  <2>1. PICK d \in Nat : x = y + 1 + d
    <3>1. x - y - 1 \in Nat /\ x = y + 1 + (x - y - 1)
      BY <1>3
    <3> QED  BY <3>1
  <2>2. x * s = y * s + s + d * s /\ d * s \in Nat /\ y * s \in Int
    BY <2>1
  <2> QED  BY <1>3, <2>2
<1> QED
  BY <1>1, <1>2, <1>3

\* Comparing with a quotient is comparing the products: from above always,
\* from below if nothing is left over.
LEMMA QuotientOrder ==
  ASSUME NEW x \in Int, NEW y \in Int, NEW s \in Int, s > 0
  PROVE  /\ y <= x \div s <=> y * s <= x
         /\ x % s = 0 => (x \div s <= y <=> x <= y * s)
<1> DEFINE q == x \div s
<1>1. q \in Int /\ q * s <= x /\ x < q * s + s /\ (x % s = 0 => x = q * s)
  BY DivBounds
<1> HIDE DEF q
<1>2. (y <= q <=> y * s <= q * s) /\ (q < y => q * s + s <= y * s) /\ (q <= y <=> q * s <= y * s)
  BY <1>1, ProductOrder
<1>3. y * s \in Int /\ q * s \in Int
  BY <1>1
<1>4. y <= q <=> y * s <= x
  BY <1>1, <1>2, <1>3
<1>5. x % s = 0 => (q <= y <=> x <= y * s)
  BY <1>1, <1>2, <1>3
<1> QED
  BY <1>4, <1>5 DEF q

\* In minutes from the reference time: begin and end of an anomaly, in
\* profile time and in real time.
Begin(a)  == a.offset * Day
Finish(a) == a.offset * Day + a.hours * Hour

\* AnomalyRealWindow, in minutes from the reference time: both ends are the
\* profile's, divided, and the length of the window divides with them.
LEMMA WindowFacts ==
  ASSUME ShapeTypeOK, WholeMinutes, NEW a \in profile.anomalies
  PROVE  /\ Begin(a) \in Int /\ Finish(a) \in Int /\ Begin(a) % scale = 0
         /\ Start(a) = ref + Begin(a) /\ End(a) = ref + Finish(a)
         /\ AnomalyRealWindow(a)[1] = ref + Begin(a) \div scale
         /\ AnomalyRealWindow(a)[2] = ref + Finish(a) \div scale
         /\ Finish(a) \div scale = Begin(a) \div scale + (a.hours * Hour) \div scale
<1>1. ref \in Int /\ scale \in Int /\ scale > 0 /\ a.offset \in Int /\ a.hours \in Int
  BY RunFacts
<1>2. Begin(a) % scale = 0
  BY DEF WholeMinutes, ShapeTypeOK, Begin
<1>3. Begin(a) \in Int /\ a.hours * Hour \in Int /\ Finish(a) = Begin(a) + a.hours * Hour
  BY <1>1 DEF Begin, Finish, Day, Hour
<1>4. Start(a) = ref + Begin(a) /\ End(a) = ref + Finish(a)
  BY <1>1, <1>3 DEF Start, End, Begin
<1> DEFINE b == Begin(a)
           l == a.hours * Hour
           q == b \div scale
           m == l \div scale
<1>5. /\ q \in Int /\ b = q * scale
      /\ m \in Int /\ m * scale <= l /\ l < m * scale + scale
  BY <1>1, <1>2, <1>3, DivBounds
<1>6. (b + l) \div scale = q + m
  <2> DEFINE x == b + l
             p == x \div scale
  <2>1. x \in Int /\ p \in Int /\ p * scale <= x /\ x < p * scale + scale
    <3>1. x \in Int
      BY <1>1, <1>3
    <3> HIDE DEF x
    <3> QED  BY <1>1, <3>1, DivBounds
  <2> HIDE DEF p, q, m, b, l
  <2>2. q + m \in Int /\ (q + m) * scale = q * scale + m * scale
        /\ q * scale \in Int /\ m * scale \in Int /\ p * scale \in Int
    BY <1>1, <1>5, <2>1
  <2>3. (q + m) * scale <= x /\ x < (q + m) * scale + scale
    BY <1>1, <1>3, <1>5, <2>1, <2>2 DEF l
  <2>4. ~(q + m < p) /\ ~(p < q + m)
    BY <1>1, <2>1, <2>2, <2>3, ProductOrder
  <2> QED  BY <2>1, <2>2, <2>4 DEF p
<1>7. AnomalyRealWindow(a)[1] = ref + Begin(a) \div scale
      /\ AnomalyRealWindow(a)[2] = ref + Finish(a) \div scale
  <2>1. Start(a) - ref = Begin(a) /\ End(a) - ref = Finish(a)
    BY <1>1, <1>3, <1>4
  <2> QED  BY <2>1 DEF AnomalyRealWindow
<1> QED
  BY <1>1, <1>2, <1>3, <1>4, <1>6, <1>7

\* The midpoints as they are compared.
LEMMA ShapedByRealTime ==
  ASSUME ShapeTypeOK, WholeMinutes, NEW a \in profile.anomalies, NEW k \in Int
  PROVE  /\ bucketMid(k) \in Int
         /\ InShape(k, a) <=> /\ AnomalyRealWindow(a)[1] <= bucketMid(k)
                             /\ bucketMid(k) <= AnomalyRealWindow(a)[2]
<1>1. ref \in Int /\ scale \in Int /\ scale > 0 /\ Days \in Int
  BY RunFacts
<1>2. bucketMid(k) \in Int
  BY <1>1 DEF bucketMid, windowStart, windowEnd, Hour, Day
<1> DEFINE y == bucketMid(k) - ref
           b == Begin(a)
           f == Finish(a)
<1>3. y \in Int /\ b \in Int /\ f \in Int /\ y * scale \in Int
  BY <1>1, <1>2, WindowFacts
<1>4. InShape(k, a) <=> b <= y * scale /\ y * scale <= f
  <2>1. ProfileTime(bucketMid(k)) = ref + y * scale
    BY DEF ProfileTime
  <2> HIDE DEF y, b, f
  <2>2. InShape(k, a) <=> ref + y * scale >= ref + b /\ ref + y * scale <= ref + f
    BY <2>1, WindowFacts DEF InShape, InWindow, b, f
  <2> QED  BY <1>1, <1>3, <2>2
<1>5. (b \div scale <= y <=> b <= y * scale) /\ (y <= f \div scale <=> y * scale <= f)
  BY <1>1, <1>3, QuotientOrder, WindowFacts
<1>6. b \div scale \in Int /\ f \div scale \in Int
  BY <1>1, <1>3, DivBounds
<1>7. /\ AnomalyRealWindow(a)[1] <= bucketMid(k) <=> b \div scale <= y
      /\ bucketMid(k) <= AnomalyRealWindow(a)[2] <=> y <= f \div scale
  <2>1. AnomalyRealWindow(a)[1] = ref + b \div scale /\ AnomalyRealWindow(a)[2] = ref + f \div scale
    BY WindowFacts
  <2> QED  BY <1>1, <1>2, <1>6, <2>1
<1> QED
  BY <1>2, <1>4, <1>5, <1>7

\* AnomalyRealWindow inverts what Rate does: an annotation spans exactly the
\* hours whose events its anomaly has shaped, at every scale that keeps the
\* beginnings on whole minutes (AnnotationsSpanShapedHours).
THEOREM AnnotationsSpan ==
  ASSUME WholeMinutes
  PROVE  ShapeSpec => []AnnotationsSpanShapedHours
<1>1. ShapeTypeOK /\ Recorded => AnnotationsSpanShapedHours
  <2> SUFFICES ASSUME ShapeTypeOK, Recorded, h # 0, NEW a \in profile.anomalies
               PROVE  <<h, a>> \in shaped <=>
                        AnomalyRealWindow(a)[1] <= bucketMid(h) /\ bucketMid(h) <= AnomalyRealWindow(a)[2]
    BY DEF AnnotationsSpanShapedHours
  <2>1. h \in Int /\ h \in 1..h
    BY RunFacts
  <2> QED  BY <2>1, ShapedByRealTime DEF Recorded
<1> QED
  BY <1>1, WalkRecords, PTL

\* How many hours a stretch of real time covers: u and v are its ends in
\* minutes from the start of the window, n the length of the window.
LEMMA HoursCovered ==
  ASSUME NEW u \in Int, NEW v \in Int, NEW n \in Int, NEW long \in Int,
         u >= 0, v <= 60 * n, long >= 1, n >= 0,
         60 * long <= v - u, v - u < 60 * long + 60
  PROVE  LET S == {k \in 1..n : u <= (k - 1) * 60 + 30 /\ (k - 1) * 60 + 30 <= v}
         IN  Cardinality(S) \in long..(long + 1)
<1> DEFINE S == {k \in 1..n : u <= (k - 1) * 60 + 30 /\ (k - 1) * 60 + 30 <= v}
           c == (u + 29) \div 60 + 1
           d == (v - 30) \div 60 + 1
<1>1. /\ c \in Int /\ 60 * (c - 1) <= u + 29 /\ u + 29 < 60 * (c - 1) + 60
      /\ d \in Int /\ 60 * (d - 1) <= v - 30 /\ v - 30 < 60 * (d - 1) + 60
  OBVIOUS
<1> HIDE DEF c, d
<1>2. S = c..d
  <2>1. ASSUME NEW k \in Int
        PROVE  k \in 1..n /\ u <= (k - 1) * 60 + 30 /\ (k - 1) * 60 + 30 <= v <=> c <= k /\ k <= d
    BY <1>1
  <2> QED  BY <1>1, <2>1
<1>3. d - c + 1 >= long /\ d - c + 1 <= long + 1 /\ c <= d
  BY <1>1
<1>4. Cardinality(c..d) = d - c + 1
  BY <1>1, <1>3, FS_Interval
<1>5. Cardinality(c..d) \in long..(long + 1)
  BY <1>1, <1>3, <1>4
<1> QED
  BY <1>2, <1>5, Zenon

\* Sampled at the middle of each hour, an anomaly that fills at least one hour
\* of real time within the window shapes as many hours as it lasts or one more
\* (NoAnomalyIsMissed): seeder.Run cannot step over it.
THEOREM AnomaliesAreSampled ==
  ASSUME WholeMinutes
  PROVE  ShapeSpec => []NoAnomalyIsMissed
<1>1. ShapeTypeOK /\ Recorded => NoAnomalyIsMissed
  <2> SUFFICES ASSUME ShapeTypeOK, Recorded, h = 24 * Days, NEW a \in profile.anomalies,
                      a.hours \div scale >= 1,
                      AnomalyRealWindow(a)[1] >= windowStart,
                      AnomalyRealWindow(a)[2] <= windowEnd
               PROVE  Cardinality({k \in 1..h : <<k, a>> \in shaped})
                        \in (a.hours \div scale)..(a.hours \div scale + 1)
    BY DEF NoAnomalyIsMissed
  <2> DEFINE lo   == AnomalyRealWindow(a)[1]
             hi   == AnomalyRealWindow(a)[2]
             W    == windowStart
             long == a.hours \div scale
             u    == lo - W
             v    == hi - W
  <2>1. /\ ref \in Int /\ scale \in Int /\ scale > 0 /\ Days \in Int /\ h \in Int /\ h >= 0
        /\ a.hours \in Int
    BY RunFacts
  <2>2. W \in Int /\ windowEnd = W + 60 * h /\ \A k \in Int : bucketMid(k) = W + ((k - 1) * 60 + 30)
    BY <2>1 DEF windowStart, windowEnd, bucketMid, Hour, Day
  <2>3. lo \in Int /\ hi \in Int /\ hi - lo = (a.hours * Hour) \div scale
    <3> DEFINE b == Begin(a) \div scale
               f == Finish(a) \div scale
               m == (a.hours * Hour) \div scale
    <3>1. lo = ref + b /\ hi = ref + f /\ f = b + m
      BY WindowFacts
    <3>2. b \in Int /\ m \in Int
      BY <2>1, WindowFacts, DivBounds DEF Hour
    <3> HIDE DEF b, f, m, lo, hi
    <3>3. hi - lo = m
      BY <2>1, <3>1, <3>2
    <3> QED  BY <2>1, <3>1, <3>2, <3>3 DEF m
  <2>4. long \in Int /\ 60 * long <= hi - lo /\ hi - lo < 60 * long + 60
    <3> DEFINE m == (a.hours * Hour) \div scale
    <3>1. long \in Int /\ long * scale <= a.hours /\ a.hours < long * scale + scale
      BY <2>1, DivBounds
    <3>2. a.hours * Hour = 60 * a.hours /\ a.hours * Hour \in Int
      BY <2>1 DEF Hour
    <3>3. m \in Int /\ m * scale <= a.hours * Hour /\ a.hours * Hour < m * scale + scale
      BY <2>1, <3>2, DivBounds
    <3> HIDE DEF m, long
    <3>4. (60 * long) * scale = 60 * (long * scale) /\ (60 * long + 60) * scale = 60 * (long * scale) + 60 * scale
          /\ long * scale \in Int /\ m * scale \in Int /\ 60 * long \in Int /\ 60 * long + 60 \in Int
          /\ (60 * long) * scale \in Int /\ (60 * long + 60) * scale \in Int
      BY <2>1, <3>1, <3>3
    <3>5. (60 * long) * scale < m * scale + scale /\ m * scale < (60 * long + 60) * scale
      BY <2>1, <3>1, <3>2, <3>3, <3>4
    <3>6. ~(m < 60 * long) /\ ~(60 * long + 60 <= m)
      BY <2>1, <3>3, <3>4, <3>5, ProductOrder
    <3> QED  BY <2>3, <3>1, <3>3, <3>4, <3>6 DEF m
  <2>5. \A k \in 1..h : <<k, a>> \in shaped <=> lo <= bucketMid(k) /\ bucketMid(k) <= hi
    BY <2>1, ShapedByRealTime DEF Recorded
  <2> HIDE DEF lo, hi, W, long
  <2>6. u \in Int /\ v \in Int /\ u >= 0 /\ v <= 60 * h /\ v - u = hi - lo
    BY <2>1, <2>2, <2>3 DEF lo, hi, W
  <2>7. \A k \in 1..h : <<k, a>> \in shaped <=> u <= (k - 1) * 60 + 30 /\ (k - 1) * 60 + 30 <= v
    BY <2>1, <2>2, <2>3, <2>5
  <2>8. {k \in 1..h : <<k, a>> \in shaped}
          = {k \in 1..h : u <= (k - 1) * 60 + 30 /\ (k - 1) * 60 + 30 <= v}
    BY <2>7
  <2> HIDE DEF u, v
  <2>9. long >= 1
    BY DEF long
  <2>10. Cardinality({k \in 1..h : u <= (k - 1) * 60 + 30 /\ (k - 1) * 60 + 30 <= v})
          \in long..(long + 1)
    BY <2>1, <2>4, <2>6, <2>9, HoursCovered
  <2> QED  BY <2>8, <2>10 DEF long
<1> QED
  BY <1>1, WalkRecords, PTL

-----------------------------------------------------------------------------
(* Gaps.                                                                   *)

\* The anomalies whose factor is in the rate at profile time t.
Active(t) == {a \in profile.anomalies : InWindow(a, t)}

\* Outside all windows the anomalies leave the rate alone.
LEMMA NoAnomaly ==
  ASSUME NEW t \in Int, Active(t) = {}
  PROVE  AnomalyProduct(t) = 100
<1> DEFINE F(g) == [s \in SUBSET {} |-> IF s = {} THEN 100
                      ELSE Times(anomalyFactor(CHOOSE a \in s : TRUE, t), g[s \ {CHOOSE a \in s : TRUE}])]
           it == CHOOSE g : g = F(g)
<1>1. AnomalyProduct(t) = it[{}]
  BY DEF AnomalyProduct, MapThenFoldSet, Active
<1>2. \E g : g = F(g)
  <2>1. [s \in SUBSET {} |-> 100] = F([s \in SUBSET {} |-> 100])
    OBVIOUS
  <2> HIDE DEF F
  <2> QED  BY <2>1
<1>3. it = F(it)
  <2> HIDE DEF F
  <2> QED  BY <1>2
<1>4. it[{}] = 100
  <2>1. {} \in SUBSET {}
    OBVIOUS
  <2> HIDE DEF it
  <2> QED  BY <1>3, <2>1
<1> QED
  BY <1>1, <1>4

\* Inside a single window the product is the factor of its anomaly.
LEMMA OneAnomaly ==
  ASSUME NEW t \in Int, NEW b, Active(t) = {b}, anomalyFactor(b, t) \in Nat
  PROVE  AnomalyProduct(t) = anomalyFactor(b, t)
<1> DEFINE Pick(s) == CHOOSE a \in s : TRUE
           Body(g, s) == IF s = {} THEN 100 ELSE Times(anomalyFactor(Pick(s), t), g[s \ {Pick(s)}])
           F(g) == [s \in SUBSET {b} |-> Body(g, s)]
           it == CHOOSE g : g = F(g)
           w == [s \in SUBSET {b} |-> IF s = {} THEN 100 ELSE Times(anomalyFactor(b, t), 100)]
<1>1. AnomalyProduct(t) = it[{b}]
  BY DEF AnomalyProduct, MapThenFoldSet, Active
<1>2. {} \in SUBSET {b} /\ {b} \in SUBSET {b} /\ \A s \in SUBSET {b} : s = {} \/ s = {b}
  OBVIOUS
<1>3. Pick({b}) = b /\ {b} \ {b} = {}
  OBVIOUS
<1>4. \A g : Body(g, {}) = 100 /\ Body(g, {b}) = Times(anomalyFactor(b, t), g[{}])
  <2> HIDE DEF Pick
  <2> QED  BY <1>3
<1> HIDE DEF Body
<1>5. w = F(w)
  <2>1. w[{}] = 100
    BY <1>2
  <2>2. w[{b}] = Times(anomalyFactor(b, t), 100)
    BY <1>2
  <2>3. w = [s \in SUBSET {b} |-> w[s]]
    OBVIOUS
  <2> HIDE DEF w
  <2>4. Body(w, {}) = 100 /\ Body(w, {b}) = Times(anomalyFactor(b, t), 100)
    BY <1>4, <2>1
  <2>5. \A s \in SUBSET {b} : w[s] = Body(w, s)
    BY <1>2, <2>1, <2>2, <2>4
  <2> QED  BY <2>3, <2>5
<1>6. it = F(it)
  <2> HIDE DEF F, w
  <2> QED  BY <1>5
<1>7. it[{}] = 100 /\ it[{b}] = Times(anomalyFactor(b, t), it[{}])
  <2> HIDE DEF it
  <2>1. \A s \in SUBSET {b} : it[s] = Body(it, s)
    BY <1>6
  <2>2. it[{}] = Body(it, {}) /\ it[{b}] = Body(it, {b})
    BY <1>2, <2>1
  <2> QED  BY <1>4, <2>2
<1>8. Times(anomalyFactor(b, t), 100) = anomalyFactor(b, t)
  BY DEF Times
<1> QED
  BY <1>1, <1>7, <1>8

\* A ramp from 100 percent to a target stays between the two.
LEMMA RampBounds ==
  ASSUME NEW x \in Int, NEW d \in Int, NEW m \in Nat, 0 <= x, x <= d, d > 0
  PROVE  LET f == 100 + (x * (m - 100)) \div d
         IN  f \in Int /\ (f >= 100 \/ f >= m)
<1> DEFINE n == x * (m - 100)
           q == n \div d
<1>1. n \in Int /\ q \in Int /\ q * d <= n /\ n < q * d + d
  BY DivBounds
<1>2. CASE m >= 100
  <2>1. n >= 0
    BY <1>2
  <2>2. ~(q < 0)
    <3> HIDE DEF n, q
    <3>1. q < 0 => q * d + d <= 0
      BY <1>1, ProductOrder
    <3> QED  BY <1>1, <2>1, <3>1
  <2> QED  BY <1>1, <2>2
<1>3. CASE m < 100
  <2>1. n >= (m - 100) * d
    <3>1. PICK e \in Nat : d = x + e
      <4>1. d - x \in Nat /\ d = x + (d - x)
        OBVIOUS
      <4> QED  BY <4>1
    <3>2. (m - 100) * d = n + (m - 100) * e /\ (m - 100) * e <= 0 /\ (m - 100) * e \in Int
      BY <1>3, <3>1
    <3> QED  BY <1>1, <3>2
  <2>2. ~(q < m - 100)
    <3> HIDE DEF n, q
    <3>1. m - 100 \in Int /\ (m - 100) * d \in Int /\ q * d \in Int
      BY <1>1
    <3>2. q < m - 100 => q * d + d <= (m - 100) * d
      BY <1>1, <3>1, ProductOrder
    <3> QED  BY <1>1, <2>1, <3>1, <3>2
  <2> QED  BY <1>1, <2>2
<1> QED
  BY <1>2, <1>3

\* anomalyFactor of a spike or a degradation is at least its multiplier, or at
\* least 100 percent.
LEMMA FactorBounds ==
  ASSUME ShapeTypeOK, NEW t \in Int, NEW a \in profile.anomalies, InWindow(a, t),
         a.type \in {"spike", "degradation"}
  PROVE  /\ anomalyFactor(a, t) \in Nat
         /\ anomalyFactor(a, t) >= a.multiplier \/ anomalyFactor(a, t) >= 100
<1>1. /\ ref \in Int /\ a.offset \in Int /\ a.hours \in Int /\ a.hours >= 0 /\ a.multiplier \in Nat
  BY RunFacts
<1>2. CASE a.type = "spike"
  BY <1>1, <1>2 DEF anomalyFactor
<1>3. CASE a.type = "degradation" /\ a.hours = 0
  <2>1. anomalyFactor(a, t) = 100 + (a.multiplier - 100)
    BY <1>1, <1>3 DEF anomalyFactor
  <2> QED  BY <1>1, <2>1
<1>4. CASE a.type = "degradation" /\ a.hours > 0
  <2> DEFINE x == t - Start(a)
             d == a.hours * Hour
             m == a.multiplier
  <2>1. x \in Int /\ d \in Int /\ 0 <= x /\ x <= d /\ d > 0
    BY <1>1, <1>4 DEF InWindow, Start, End, Hour, Day
  <2>2. anomalyFactor(a, t) = 100 + (x * (m - 100)) \div d
    BY <1>4 DEF anomalyFactor
  <2> DEFINE f == 100 + (x * (m - 100)) \div d
  <2>3. f \in Int /\ (f >= 100 \/ f >= m)
    <3> HIDE DEF x, d, m
    <3>1. m \in Nat
      BY <1>1 DEF m
    <3> QED  BY <2>1, <3>1, RampBounds
  <2> HIDE DEF f
  <2>4. f \in Nat /\ (f >= m \/ f >= 100)
    BY <1>1, <2>3
  <2> QED  BY <2>2, <2>4 DEF f
<1> QED
  BY <1>1, <1>2, <1>3, <1>4

\* A larger product leaves a smaller quotient.
LEMMA SmallerResidue ==
  ASSUME NEW D \in Nat, NEW x \in Int, NEW y \in Int, 0 < x, x <= y
  PROVE  D \div x \in Int /\ D \div y \in Int /\ D \div y <= D \div x
<1> DEFINE p == D \div x
           q == D \div y
<1>1. /\ p \in Int /\ p * x <= D /\ D < p * x + x
      /\ q \in Int /\ q * y <= D /\ D < q * y + y
  BY DivBounds
<1>2. q >= 0
  <2> HIDE DEF p, q
  <2>1. q < 0 => q * y + y <= 0 * y
    BY <1>1, ProductOrder
  <2>2. 0 * y = 0 /\ q * y \in Int
    BY <1>1
  <2> QED  BY <1>1, <2>1, <2>2
<1>3. q * x <= q * y
  <2>1. PICK e \in Nat : y = x + e
    <3>1. y - x \in Nat /\ y = x + (y - x)
      OBVIOUS
    <3> QED  BY <3>1
  <2> HIDE DEF p, q
  <2>2. q * y = q * x + q * e /\ q * e >= 0 /\ q * e \in Int /\ q * x \in Int
    BY <1>1, <1>2, <2>1
  <2> QED  BY <2>2
<1>4. ~(p < q)
  <2> HIDE DEF p, q
  <2>1. p < q => p * x + x <= q * x
    BY <1>1, ProductOrder
  <2>2. p * x \in Int /\ q * x \in Int /\ q * y \in Int
    BY <1>1
  <2> QED  BY <1>1, <1>3, <2>1, <2>2
<1> QED
  BY <1>1, <1>4

\* Products of natural numbers grow with each factor.
LEMMA ProductGrows ==
  ASSUME NEW b \in Nat, NEW c \in Nat, NEW l \in Nat, NEW w \in Nat, NEW m \in Nat, NEW n \in Nat,
         l <= w, m <= n
  PROVE  /\ b * l * c * m \in Nat /\ b * w * c * n \in Nat
         /\ b * l * c * m <= b * w * c * n
<1>1. PICK e \in Nat, f \in Nat : w = l + e /\ n = m + f
  <2>1. w - l \in Nat /\ w = l + (w - l) /\ n - m \in Nat /\ n = m + (n - m)
    OBVIOUS
  <2> QED  BY <2>1
<1> DEFINE x == b * l * c
           y == b * e * c
<1>2. x \in Nat /\ y \in Nat
  OBVIOUS
<1>3. b * w * c = x + y
  <2>1. b * w = b * l + b * e /\ b * l \in Nat /\ b * e \in Nat
    BY <1>1
  <2>2. \A u, v \in Nat : (u + v) * c = u * c + v * c
    OBVIOUS
  <2> QED  BY <2>1, <2>2
<1> HIDE DEF x, y
<1>4. (x + y) * n = x * m + x * f + y * n /\ x * m \in Nat /\ x * f \in Nat /\ y * n \in Nat
  <2>1. (x + y) * n = x * n + y * n /\ y * n \in Nat
    BY <1>2
  <2>2. x * n = x * m + x * f /\ x * m \in Nat /\ x * f \in Nat
    BY <1>1, <1>2
  <2> QED  BY <2>1, <2>2
<1>5. b * w * c * n = x * m + x * f + y * n
  BY <1>3, <1>4
<1> QED
  BY <1>4, <1>5 DEF x

\* Outside outages, what the anomalies make of the rate is at least 100 percent
\* or the multiplier of one of them.
LEMMA ProductBounds ==
  ASSUME ShapeTypeOK, DisjointAnomalies, ParseProfile(profile), NEW t \in Int,
         \A a \in Active(t) : a.type # "outage"
  PROVE  /\ AnomalyProduct(t) \in Nat
         /\ \/ AnomalyProduct(t) >= 100
            \/ \E a \in profile.anomalies :
                 a.type \in {"spike", "degradation"} /\ AnomalyProduct(t) >= a.multiplier
<1>1. CASE Active(t) = {}
  BY <1>1, NoAnomaly
<1>2. ASSUME NEW b \in Active(t) PROVE Active(t) = {b}
  <2>1. ref \in Int /\ profile \in Profiles
        /\ \A a \in profile.anomalies : a.offset \in Int /\ a.hours \in Int
    BY RunFacts DEF ShapeTypeOK
  <2>2. ASSUME NEW a \in Active(t), a # b PROVE FALSE
    <3>1. a \in profile.anomalies /\ b \in profile.anomalies /\ InWindow(a, t) /\ InWindow(b, t)
      BY <1>2 DEF Active
    <3>2. \/ a.offset * Day + a.hours * Hour < b.offset * Day
          \/ b.offset * Day + b.hours * Hour < a.offset * Day
      BY <2>1, <2>2, <3>1 DEF DisjointAnomalies
    <3> QED  BY <2>1, <3>1, <3>2 DEF InWindow, Start, End, Day, Hour
  <2> QED  BY <1>2, <2>2
<1>3. ASSUME NEW b \in Active(t), Active(t) = {b}
      PROVE  /\ AnomalyProduct(t) \in Nat
             /\ AnomalyProduct(t) >= 100 \/ AnomalyProduct(t) >= b.multiplier
             /\ b \in profile.anomalies /\ b.type \in {"spike", "degradation"}
  <2>1. b \in profile.anomalies /\ InWindow(b, t) /\ b.type \in {"spike", "degradation"}
    BY <1>3 DEF Active, ParseProfile
  <2>2. anomalyFactor(b, t) \in Nat
        /\ (anomalyFactor(b, t) >= b.multiplier \/ anomalyFactor(b, t) >= 100)
    BY <2>1, FactorBounds
  <2>3. AnomalyProduct(t) = anomalyFactor(b, t)
    BY <1>3, <2>2, OneAnomaly
  <2> QED  BY <2>1, <2>2, <2>3
<1> QED
  BY <1>1, <1>2, <1>3

\* The weekday's coefficient is one of the profile's.
LEMMA WeekdayOfProfile ==
  ASSUME ShapeTypeOK, ParseProfile(profile), NEW t \in Int
  PROVE  \E k \in DOMAIN profile.weekdays :
           /\ profile.weekdays[k] \in Nat
           /\ WeekdayCoefficients(profile)[mondayIndex(t)] = profile.weekdays[k]
<1> DEFINE i == mondayIndex(t)
<1>1. i \in 0..6
  <2>1. t \div Day \in Int
    BY DEF Day, Hour
  <2>2. i = (t \div Day + 3) % 7
    BY <2>1, WeekdayIsModulus DEF mondayIndex
  <2> QED  BY <2>1, <2>2
<1> HIDE DEF i
<1>2. profile.weekdays \in Seq(Nat) /\ Len(profile.weekdays) = 7
  BY RunFacts DEF ParseProfile
<1>3. i + 1 \in DOMAIN profile.weekdays /\ profile.weekdays[i + 1] \in Nat
  BY <1>1, <1>2
<1>4. WeekdayCoefficients(profile)[i] = profile.weekdays[i + 1]
  BY <1>1, <1>2 DEF WeekdayCoefficients
<1> QED
  BY <1>3, <1>4 DEF i

\* An hour that rounds to no event is in an outage or before the first day
\* after the trend has crossed zero.
LEMMA QuietHour ==
  ASSUME ShapeTypeOK, BusyProfiles, DisjointAnomalies, ParseProfile(profile),
         NEW k \in Int, NEW wave \in LowestWave(profile)..HighestWave(profile),
         RoundsToZero(bucketMid(k), wave)
  PROVE  LET t == ProfileTime(bucketMid(k))
         IN  TrendFactor(t - Day) <= 0 \/ \E a \in Active(t) : a.type = "outage"
<1> DEFINE t == ProfileTime(bucketMid(k))
<1>1. /\ ref \in Int /\ scale \in Int /\ profile.trend \in Int /\ profile \in Profiles /\ Days \in Int
      /\ profile.base \in Nat /\ profile.amplitude \in 0..100 /\ profile.noise \in 0..100
  BY RunFacts DEF ShapeTypeOK
<1>2. t \in Int
  BY <1>1 DEF ProfileTime, bucketMid, windowStart, windowEnd, Hour, Day
<1> HIDE DEF t
<1> SUFFICES ASSUME \A a \in Active(t) : a.type # "outage"
             PROVE  TrendFactor(t - Day) <= 0
  BY DEF t
<1> DEFINE b    == profile.base
           low  == LowestWave(profile)
           c    == WeekdayCoefficients(profile)[mondayIndex(t)]
           n    == AnomalyProduct(t)
           full == b * wave * c * n
           T    == TrendFactor(t)
<1>3. full = 0 \/ T <= Residue(full)
  BY DEF RoundsToZero, t
<1>4. low \in Nat /\ wave \in Nat /\ low <= wave
  <2>1. ASSUME NEW x \in 0..100, NEW y \in 0..100 PROVE (x * y) \div 100 \in Nat
    <3>1. x * y \in Nat
      OBVIOUS
    <3> QED  BY <3>1
  <2>2. 100 - profile.amplitude \in 0..100 /\ 100 - profile.noise \in 0..100
    BY <1>1
  <2>3. low \in Nat
    BY <2>1, <2>2 DEF LowestWave
  <2>4. HighestWave(profile) \in Int
    <3>1. ASSUME NEW x \in Int, NEW y \in Int PROVE (x * y) \div 100 \in Int
      <4>1. x * y \in Int
        OBVIOUS
      <4> QED  BY <4>1
    <3>2. 100 + profile.amplitude \in Int /\ 100 + profile.noise \in Int
      BY <1>1
    <3> QED  BY <3>1, <3>2 DEF HighestWave
  <2> HIDE DEF low
  <2> QED  BY <2>3, <2>4 DEF low
<1>5. PICK j \in DOMAIN profile.weekdays : profile.weekdays[j] \in Nat /\ c = profile.weekdays[j]
  BY <1>2, WeekdayOfProfile
<1>6. PICK m \in Nat : /\ n \in Nat /\ n >= m
                       /\ \/ m = 100
                          \/ \E a \in profile.anomalies :
                               a.type \in {"spike", "degradation"} /\ m = a.multiplier
  <2>1. /\ n \in Nat
        /\ \/ n >= 100
           \/ \E a \in profile.anomalies : a.type \in {"spike", "degradation"} /\ n >= a.multiplier
    BY <1>2, ProductBounds
  <2>2. CASE n >= 100
    <3>1. 100 \in Nat
      OBVIOUS
    <3> QED  BY <2>1, <2>2, <3>1
  <2>3. ASSUME NEW a \in profile.anomalies, a.type \in {"spike", "degradation"}, n >= a.multiplier
        PROVE  \E m \in Nat : /\ n \in Nat /\ n >= m
                              /\ \/ m = 100
                                 \/ \E x \in profile.anomalies :
                                      x.type \in {"spike", "degradation"} /\ m = x.multiplier
    <3>1. a.multiplier \in Nat
      BY RunFacts
    <3> QED  BY <2>1, <2>3, <3>1
  <2> QED  BY <2>1, <2>2, <2>3
<1> DEFINE quiet == b * low * c * m
<1>7. quiet > 0 /\ Residue(quiet) < profile.trend * Day
  <2>1. quiet = b * low * profile.weekdays[j] * m
    BY <1>5
  <2> HIDE DEF quiet, low, b
  <2> QED  BY <1>1, <1>5, <1>6, <2>1 DEF BusyProfiles, low, b
<1>8. quiet \in Nat /\ full \in Nat /\ quiet <= full
  <2>1. b \in Nat /\ c \in Nat
    BY <1>1, <1>5
  <2> HIDE DEF b, low, c, n
  <2> QED  BY <1>4, <1>6, <2>1, ProductGrows
<1>9. T \in Int /\ TrendFactor(t - Day) = T - profile.trend * Day /\ profile.trend * Day \in Int
  <2>1. ASSUME NEW x \in Int, NEW y \in Int, NEW z \in Int
        PROVE  x * ((y - 1440) - z) = x * (y - z) - x * 1440
    OBVIOUS
  <2>2. Day = 1440
    BY DEF Day, Hour
  <2>3. profile.trend * ((t - 1440) - ref) = profile.trend * (t - ref) - profile.trend * 1440
        /\ profile.trend * (t - ref) \in Int /\ profile.trend * 1440 \in Int
    BY <1>1, <1>2, <2>1
  <2> QED  BY <1>1, <1>2, <2>2, <2>3 DEF TrendFactor
<1> HIDE DEF full, quiet, T
<1>10. Residue(full) \in Int /\ Residue(quiet) \in Int /\ Residue(full) <= Residue(quiet)
  <2> DEFINE D == HalfAnEvent - 1
  <2>1. D \in Nat
    BY DEF HalfAnEvent, Day, Hour
  <2> HIDE DEF D
  <2>2. D \div quiet \in Int /\ D \div full \in Int /\ D \div full <= D \div quiet
    BY <1>7, <1>8, <2>1, SmallerResidue
  <2> QED  BY <2>2 DEF Residue, D
<1> QED
  BY <1>3, <1>7, <1>8, <1>9, <1>10

\* A profile that ParseProfile has accepted, busy enough and with one anomaly
\* at a time, leaves no hour of the history without events but in its outages
\* and up to a day of profile time after its trend has crossed zero, rounding
\* included (OnlyOutagesAreEmpty).
THEOREM OutagesAreTheGaps ==
  ASSUME BusyProfiles, DisjointAnomalies
  PROVE  ShapeSpec => []OnlyOutagesAreEmpty
<1>1. ShapeInit => OnlyOutagesAreEmpty
  BY DEF ShapeInit, OnlyOutagesAreEmpty
<1>2. ShapeTypeOK /\ Recorded /\ OnlyOutagesAreEmpty /\ [ShapeNext]_shapeVars => OnlyOutagesAreEmpty'
  <2> SUFFICES ASSUME ShapeTypeOK, Recorded, OnlyOutagesAreEmpty, [ShapeNext]_shapeVars
               PROVE  OnlyOutagesAreEmpty'
    OBVIOUS
  <2>1. CASE GenerateHour
    <3> DEFINE t == ProfileTime(bucketMid(h'))
    <3> SUFFICES ASSUME empty'
                 PROVE  \/ TrendFactor(t - Day) <= 0
                        \/ \E a \in profile.anomalies : a.type = "outage" /\ <<h', a>> \in shaped'
      BY <2>1 DEF GenerateHour, OnlyOutagesAreEmpty, TrendFactor, ProfileTime, bucketMid,
         windowStart, windowEnd
    <3>1. h' \in Int /\ ParseProfile(profile)
      BY <2>1, RunFacts DEF GenerateHour, Recorded
    <3>2. PICK wave \in LowestWave(profile)..HighestWave(profile) : RoundsToZero(bucketMid(h'), wave)
      BY <2>1 DEF GenerateHour
    <3>3. TrendFactor(t - Day) <= 0 \/ \E a \in Active(t) : a.type = "outage"
      BY <3>1, <3>2, QuietHour
    <3>4. \A a \in Active(t) : a \in profile.anomalies /\ <<h', a>> \in shaped'
      BY <2>1 DEF GenerateHour, Active
    <3> QED  BY <3>3, <3>4
  <2>2. CASE Parse \/ UNCHANGED shapeVars
    <3>1. UNCHANGED <<profile, ref, scale, h, shaped, empty>>
      BY <2>2 DEF Parse, shapeVars
    <3>2. bucketMid(h)' = bucketMid(h)
      BY <3>1 DEF bucketMid, windowStart, windowEnd
    <3>3. ProfileTime(bucketMid(h))' = ProfileTime(bucketMid(h))
      BY <3>1, <3>2 DEF ProfileTime
    <3>4. TrendFactor(ProfileTime(bucketMid(h)) - Day)' = TrendFactor(ProfileTime(bucketMid(h)) - Day)
      BY <3>1, <3>3 DEF TrendFactor
    <3> QED  BY <3>1, <3>4 DEF OnlyOutagesAreEmpty
  <2> QED  BY <2>1, <2>2 DEF ShapeNext
<1> QED
  BY <1>1, <1>2, WalkRecords, PTL DEF ShapeSpec
=============================================================================
